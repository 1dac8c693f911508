----------------------------- MODULE LoadModule -----------------------------
(***************************************************************************)
(* The load module ld370 writes: composite ESD records, then control and   *)
(* text records (TextRecords), then RLD records (RldRecords).  A CESD      *)
(* record carries the ESDID of its first entry and a byte count that is    *)
(* filled in when the record is closed; the entries behind the first are   *)
(* numbered by their place.  The two IDR records in between are fixed and  *)
(* left out.                                                               *)
(***************************************************************************)
EXTENDS TextRecords, RldRecords

CONSTANTS
    Builds,         \* <<layout, relocation items, composite symbols>> considered
    CESDMAX         \* entries of a CESD record

ASSUME BuildsAssumption == Builds \subseteq Layouts \X Tables \X Nat
ASSUME CesdMaxAssumption == CESDMAX \in Nat \ {0}

VARIABLES
    nG,         \* composite symbols
    cesd,       \* CESD records: ESDID of the first entry, byte count, entries
    in_rec,     \* entries in the open record
    id          \* ESDID of the next entry

cesdvars == <<nG, cesd, in_rec, id>>
modvars == <<textvars, vars, cesdvars>>

ModInit ==
    /\ \E b \in Builds : lay = b[1] /\ items = b[2] /\ nG = b[3]
    /\ TextBegin /\ Begin
    /\ lay.rld = (items # << >>)        \* have_rld
    /\ cesd = << >> /\ in_rec = 0 /\ id = 1

\* Faulty variant: the count is filled in for full records only.
CloseFull == in_rec + 1 = CESDMAX

\* The entry fills the record or is the last.
Closes == in_rec + 1 = CESDMAX \/ id = nG

\* One turn of the loop over the ESDIDs: the entry goes to the open record or
\* to a new one, which is closed when it is full or nothing follows.
Open == IF in_rec = 0 THEN [first |-> id, bytes |-> 0, ids |-> << >>] ELSE cesd[Len(cesd)]
CesdEntry ==
    /\ id <= nG
    /\ LET rec == [first |-> Open.first, bytes |-> IF Closes THEN 16 * (in_rec + 1) ELSE Open.bytes,
                   ids |-> Append(Open.ids, id)]
       IN cesd' = IF in_rec = 0 THEN Append(cesd, rec) ELSE [cesd EXCEPT ![Len(cesd)] = rec]
    /\ in_rec' = IF Closes THEN 0 ELSE in_rec + 1
    /\ id' = id + 1
    /\ UNCHANGED <<nG, textvars, vars>>

WriteText == id > nG /\ TextStep /\ UNCHANGED <<vars, cesdvars>>
WriteRld == id > nG /\ tpc = "done" /\ Step /\ UNCHANGED <<textvars, cesdvars>>

Written == id > nG /\ tpc = "done" /\ pc = "done"
ModStep == CesdEntry \/ WriteText \/ WriteRld
ModNext == ModStep \/ (Written /\ UNCHANGED modvars)

ModSpec == ModInit /\ [][ModNext]_modvars

-----------------------------------------------------------------------------
\* Properties.

\* A reader that walks the CESD by the byte counts and numbers the entries from
\* each record's first ESDID finds every composite symbol under the ESDID that
\* control records and relocation items use for it, none missing, none twice.
CesdReadsBack ==
    Written =>
        /\ \A r \in DOMAIN cesd :
               /\ cesd[r].bytes = 16 * Len(cesd[r].ids) /\ Len(cesd[r].ids) \in 1..CESDMAX
               /\ \A k \in DOMAIN cesd[r].ids : cesd[r].ids[k] = cesd[r].first + k - 1
        /\ \A g \in 1..nG : Cardinality({r \in DOMAIN cesd :
               g \in cesd[r].first..(cesd[r].first + (cesd[r].bytes \div 16) - 1)}) = 1

\* The records that end the module, as places in the stream of text and RLD
\* records.
EndMarks ==
    {k \in DOMAIN recs : recs[k].modend} \cup (IF last = 0 THEN {} ELSE {Len(recs) + last})

\* The end of the module is marked once, on the last record there is, whether
\* that is a text record or, when items survived the link, an RLD record that
\* is only written after all text.
EndedOnce ==
    Written /\ recs # << >> => EndMarks = {Len(recs) + Len(hdr)}
=============================================================================
