------------------------------ MODULE Outputs ------------------------------
(***************************************************************************)
(* The end of ld370's main(): in which order the member, the load map and  *)
(* the transport files are probed and written, what each failure returns   *)
(* and what it leaves on disk; and the same for --pack, which writes       *)
(* transport files only.  The environment may make a path unwritable       *)
(* between two steps, and a write may come up short (a full disk).  A file *)
(* is represented by how much of the new content it holds.                 *)
(***************************************************************************)
EXTENDS Naturals, FiniteSets

CONSTANTS
    MaxDenials      \* paths that may become unwritable while ld370 runs

ASSUME DenialsAssumption == MaxDenials \in Nat

Files == {"member", "map", "xmit", "iebcopy"}
Transports == {"xmit", "iebcopy"}
Untouched == {"absent", "old"}
Contents == Untouched \cup {"empty", "short", "whole"}

VARIABLES
    pack,       \* --pack: no link, no member, no map
    req,        \* the files asked for
    dupName,    \* an alias or a packed member uses a directory name twice
    was,        \* the disk before the command
    disk,       \* the disk now
    bad,        \* paths that cannot be opened for writing
    pc,         \* the step main() is at
    rc          \* the return code, once pc = "ended"

job == <<pack, req, dupName, was>>
vars == <<job, disk, bad, pc, rc>>

Init ==
    /\ pack \in BOOLEAN
    /\ req \in SUBSET Files
    /\ IF pack THEN req \subseteq Transports /\ req # {} ELSE "member" \in req
    /\ dupName \in BOOLEAN
    /\ was \in [Files -> Untouched]
    /\ disk = was
    /\ bad \in SUBSET Files
    /\ pc = "names"
    /\ rc = 0

End(code) == pc' = "ended" /\ rc' = code
Goto(step) == pc' = step /\ rc' = rc

\* Faulty variant: names are left to the layout of the directory.
NamesUnchecked ==
    /\ pc = "names"
    /\ Goto(IF pack THEN "iebcopy" ELSE "probe_map")
    /\ UNCHANGED <<job, disk, bad>>

\* aliases_ok, asked only when a directory is to be written; dir_layout for
\* a pack.
Names ==
    /\ pc = "names"
    /\ IF dupName /\ req \cap Transports # {} THEN End(2)
       ELSE Goto(IF pack THEN "iebcopy" ELSE "probe_map")
    /\ UNCHANGED <<job, disk, bad>>

\* Faulty variant: the transport files are not probed.
ProbeMapOnly(f, step, next) ==
    /\ pc = step
    /\ IF f # "map" \/ f \notin req THEN Goto(next) /\ UNCHANGED disk
       ELSE IF f \in bad THEN End(1) /\ UNCHANGED disk
       ELSE Goto(next) /\ disk' = [disk EXCEPT ![f] = "empty"]
    /\ UNCHANGED <<job, bad>>

\* writable: opened for writing and closed again, which empties the file.
Probe(f, step, next) ==
    /\ pc = step
    /\ IF f \notin req THEN Goto(next) /\ UNCHANGED disk
       ELSE IF f \in bad THEN End(1) /\ UNCHANGED disk
       ELSE Goto(next) /\ disk' = [disk EXCEPT ![f] = "empty"]
    /\ UNCHANGED <<job, bad>>

\* Opened and written; how is what the file holds afterwards.
Filled(f, how) == disk' = [disk EXCEPT ![f] = how]

\* Faulty variant: the result of fwrite is not looked at.
MemberUnchecked ==
    /\ pc = "member"
    /\ \/ "member" \in bad /\ End(1) /\ UNCHANGED disk
       \/ "member" \notin bad /\ \E how \in {"short", "whole"} : Filled("member", how) /\ Goto("map")
    /\ UNCHANGED <<job, bad>>

\* fwrite and fclose are both checked.
WriteMember ==
    /\ pc = "member"
    /\ \/ "member" \in bad /\ End(1) /\ UNCHANGED disk
       \/ "member" \notin bad /\ Filled("member", "whole") /\ Goto("map")
       \/ "member" \notin bad /\ Filled("member", "short") /\ End(1)
    /\ UNCHANGED <<job, bad>>

\* write_map: fclose is checked, the fprintfs are not, so a flush that fails
\* and one at the end that does not make a short map unnoticed.
WriteMap ==
    /\ pc = "map"
    /\ \/ "map" \notin req /\ Goto("iebcopy") /\ UNCHANGED disk
       \/ "map" \in req \cap bad /\ End(1) /\ UNCHANGED disk
       \/ "map" \in req \ bad /\ Filled("map", "short") /\ (End(1) \/ Goto("iebcopy"))
       \/ "map" \in req \ bad /\ Filled("map", "whole") /\ Goto("iebcopy")
    /\ UNCHANGED <<job, bad>>

\* write_unload_mem, write_xmit: the directory is laid out, the file opened,
\* and neither fwrite nor fclose is checked.
WriteTransport(f, step, next) ==
    /\ pc = step
    /\ \/ f \notin req /\ next /\ UNCHANGED disk
       \/ f \in req /\ (dupName \/ f \in bad) /\ End(1) /\ UNCHANGED disk
       \/ f \in req \ bad /\ ~dupName /\ (\E how \in {"short", "whole"} : Filled(f, how)) /\ next
    /\ UNCHANGED <<job, bad>>

\* Warnings do not change the return code (LD_WARN_RC is 0).
Main ==
    \/ Names
    \/ Probe("map", "probe_map", "probe_xmit")
    \/ Probe("xmit", "probe_xmit", "probe_iebcopy")
    \/ Probe("iebcopy", "probe_iebcopy", "member")
    \/ WriteMember
    \/ WriteMap
    \/ WriteTransport("iebcopy", "iebcopy", Goto("xmit"))
    \/ WriteTransport("xmit", "xmit", End(0))

\* A path stops being writable: the environment, not ld370.
Deny ==
    /\ pc \notin {"names", "ended"}
    /\ Cardinality(bad) < MaxDenials
    /\ \E f \in req \ bad : bad' = bad \cup {f}
    /\ UNCHANGED <<job, disk, pc, rc>>

Next == Main \/ Deny \/ (pc = "ended" /\ UNCHANGED vars)

Spec == Init /\ [][Next]_vars

-----------------------------------------------------------------------------
\* Properties.

Touched(f) == disk[f] # was[f]

\* A command line with a name used twice leaves every file as it was, whichever
\* of link and pack it is and however many outputs it asks for (rc 2 "before
\* anything is written").
RefusedUntouched ==
    rc = 2 \/ (dupName /\ req \cap Transports # {}) => \A f \in Files : ~Touched(f)

\* The member of an earlier link is overwritten only once every other output
\* has been opened for writing, so an output that cannot be opened at all is
\* reported with the member as it was.
OpenedBeforeMember ==
    Touched("member") => \A f \in req \ {"member"} : disk[f] \notin Untouched

\* What is derived from the member -- map and transport files -- gets content
\* only behind a whole member, and a link that reports success has one, at
\* whichever write the disk filled up and whichever path was lost in between.
MemberFirst ==
    /\ ~pack
    /\ (pc = "ended" /\ rc = 0) \/ (\E f \in Files \ {"member"} : disk[f] \in {"short", "whole"})
    => disk["member"] = "whole"
=============================================================================
