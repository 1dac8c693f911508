--------------------------- MODULE OutputsProofs ---------------------------
(***************************************************************************)
(* Proofs about Outputs: for every command line, every state of the disk   *)
(* and every number of paths lost while ld370 runs.                        *)
(***************************************************************************)
EXTENDS Outputs, TLAPS

\* The steps main() can be at, and the ones that lie behind each probe.
Steps == {"names", "probe_map", "probe_xmit", "probe_iebcopy", "member", "map", "iebcopy", "xmit", "ended"}
BehindMember == {"map", "iebcopy", "xmit"}

\* Every variable has the shape the C program gives it.
TypeOK ==
    /\ pack \in BOOLEAN
    /\ req \in SUBSET Files
    /\ IF pack THEN req \subseteq Transports ELSE "member" \in req
    /\ dupName \in BOOLEAN
    /\ was \in [Files -> Untouched]
    /\ disk \in [Files -> Contents]
    /\ bad \in SUBSET Files
    /\ pc \in Steps
    /\ rc \in {0, 1, 2}

\* Past the check of the names there is no name used twice that matters, and a
\* file that was touched was asked for.
NamesInv ==
    /\ pc \notin {"names", "ended"} => ~(dupName /\ req \cap Transports # {})
    /\ pc = "names" => disk = was
    /\ dupName /\ req \cap Transports # {} => disk = was
    /\ rc = 2 => disk = was /\ pc = "ended"

\* How far a link has come shows in the files: a probed file is no longer the
\* one from before, and only a whole member lets the rest be written.
LinkInv ==
    ~pack =>
        /\ pc \in {"names", "probe_map", "probe_xmit", "probe_iebcopy", "member"} =>
              /\ disk["member"] = was["member"]
              /\ \A f \in Files \ {"member"} : disk[f] \in Untouched \cup {"empty"}
        /\ pc \in {"probe_xmit", "probe_iebcopy", "member"} /\ "map" \in req => disk["map"] \notin Untouched
        /\ pc \in {"probe_iebcopy", "member"} /\ "xmit" \in req => disk["xmit"] \notin Untouched
        /\ pc = "member" /\ "iebcopy" \in req => disk["iebcopy"] \notin Untouched
        /\ pc \in BehindMember => disk["member"] = "whole"
        /\ pc \in BehindMember => \A f \in req \ {"member"} : disk[f] \notin Untouched
        /\ pc = "ended" /\ rc = 0 => disk["member"] = "whole"
        /\ (\E f \in Files \ {"member"} : disk[f] \in {"short", "whole"}) => disk["member"] = "whole"
        /\ disk["member"] # was["member"] => \A f \in req \ {"member"} : disk[f] \notin Untouched

\* A pack has no member and writes nothing else than transport files.
PackInv == pack => disk["member"] = was["member"] /\ pc \in {"names", "iebcopy", "xmit", "ended"}

IInv == TypeOK /\ NamesInv /\ LinkInv /\ PackInv

LEMMA InitIInv == Init => IInv
BY DEF Init, IInv, TypeOK, NamesInv, LinkInv, PackInv, Files, Transports, Untouched, Contents, Steps, BehindMember

LEMMA NextIInv == IInv /\ [Next]_vars => IInv'
<1> SUFFICES ASSUME IInv, [Next]_vars PROVE IInv'
  OBVIOUS
<1> USE DEF IInv, TypeOK, NamesInv, LinkInv, PackInv, Files, Transports, Untouched, Contents, Steps,
            BehindMember, End, Goto, Filled, job
<1>1. CASE Names
  BY <1>1 DEF Names
<1>2. CASE Probe("map", "probe_map", "probe_xmit")
  BY <1>2 DEF Probe
<1>3. CASE Probe("xmit", "probe_xmit", "probe_iebcopy")
  BY <1>3 DEF Probe
<1>4. CASE Probe("iebcopy", "probe_iebcopy", "member")
  BY <1>4 DEF Probe
<1>5. CASE WriteMember
  BY <1>5 DEF WriteMember
<1>6. CASE WriteMap
  BY <1>6 DEF WriteMap
<1>7. CASE WriteTransport("iebcopy", "iebcopy", Goto("xmit"))
  BY <1>7 DEF WriteTransport
<1>8. CASE WriteTransport("xmit", "xmit", End(0))
  BY <1>8 DEF WriteTransport
<1>9. CASE Deny
  BY <1>9 DEF Deny
<1>10. CASE UNCHANGED vars
  BY <1>10 DEF vars
<1> QED
  BY <1>1, <1>2, <1>3, <1>4, <1>5, <1>6, <1>7, <1>8, <1>9, <1>10 DEF Next, Main

LEMMA Invariant == Spec => []IInv
BY InitIInv, NextIInv, PTL DEF Spec

(***************************************************************************)
(* What main() promises of the files it leaves.                            *)
(***************************************************************************)

\* Every variable keeps its type, whatever is asked for and wherever it fails.
THEOREM TypeCorrect == Spec => []TypeOK
BY Invariant, PTL DEF IInv

\* A command line with a name used twice leaves every file as it was: Names
\* comes before the first probe, and a pack goes through it as well as a link.
THEOREM RefusedLeavesDisk == Spec => []RefusedUntouched
<1>1. IInv => RefusedUntouched
  BY DEF IInv, NamesInv, RefusedUntouched, Touched
<1> QED
  BY <1>1, Invariant, PTL

\* The member on disk is only overwritten behind the probes of every other
\* output asked for, however many paths are lost in between.
THEOREM ProbesBeforeMember == Spec => []OpenedBeforeMember
<1>1. IInv => OpenedBeforeMember
  BY DEF IInv, LinkInv, PackInv, OpenedBeforeMember, Touched
<1> QED
  BY <1>1, Invariant, PTL

\* Map and transport files get content only behind a whole member, and a link
\* that returns 0 has one.
THEOREM MemberWholeFirst == Spec => []MemberFirst
<1>1. IInv => MemberFirst
  BY DEF IInv, LinkInv, MemberFirst
<1> QED
  BY <1>1, Invariant, PTL
=============================================================================
