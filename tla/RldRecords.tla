----------------------------- MODULE RldRecords -----------------------------
(***************************************************************************)
(* ld370's RLD records.  Each item is a flag byte and an address, preceded *)
(* by its R and P pointers unless the item before it, in the same record,  *)
(* has the same ones; that item's flag then gets the continuation bit.     *)
(* Record data never exceeds RLDMAX bytes, and the last record ends the    *)
(* module.  cells[n] is what was written for item n.                       *)
(***************************************************************************)
EXTENDS Integers, Sequences, FiniteSets

CONSTANTS
    Tables,     \* relocation item sequences considered
    Pairs,      \* <<R, P>> composite ESDID pairs
    NoPair,     \* no previous item in this record
    RLDMAX      \* record data limit

\* cont: the continuation bit the item's flag had in its object deck.
Item == [pair : Pairs, addr : Nat, cont : {0, 1}]

ASSUME TablesAssumption == Tables \subseteq Seq(Item)
ASSUME NoPairAssumption == NoPair \notin Pairs
ASSUME RldMaxAssumption == RLDMAX \in Nat /\ RLDMAX >= 8

VARIABLES
    items,      \* the items of every object, dropped sections' left out
    cells,      \* written so far
    hdr,        \* data length in each record's header, 0 until it is closed
    rec_data,   \* data bytes in the open record
    prev,       \* R and P of the item before, in this record
    last,       \* the record marked RLD + MODEND, 0 until there is one
    pc          \* "emit" or "done"

vars == <<items, cells, hdr, rec_data, prev, last, pc>>

\* Nothing written yet.
Begin ==
    /\ cells = << >> /\ hdr = << >>
    /\ rec_data = 0 /\ prev = NoPair /\ last = 0
    /\ pc = IF items = << >> THEN "done" ELSE "emit"

Init == items \in Tables /\ Begin

More == pc = "emit" /\ Len(cells) < Len(items)
next == items[Len(cells) + 1]
same == hdr # << >> /\ next.pair = prev
isize == IF same THEN 4 ELSE 8

\* Faulty variant: room for the item is looked for, not for its prefix.
FullOfItems == hdr = << >> \/ rec_data + 4 > RLDMAX

Full == hdr = << >> \/ rec_data + isize > RLDMAX

\* Faulty variant: the deck's continuation bit is kept.
CellUnmasked(r, rp) == [rec |-> r, rp |-> rp, pair |-> IF rp = 4 THEN next.pair ELSE NoPair,
                        addr |-> next.addr, more |-> next.cont]

\* The cell of the next item in record r with rp bytes of R and P before it; the
\* deck's continuation bit is masked.
Cell(r, rp) == [rec |-> r, rp |-> rp, pair |-> IF rp = 4 THEN next.pair ELSE NoPair,
                addr |-> next.addr, more |-> 0]

SamePair ==
    /\ More /\ ~Full /\ same
    /\ cells' = Append([cells EXCEPT ![Len(cells)].more = 1], Cell(Len(hdr), 0))
    /\ rec_data' = rec_data + 4
    /\ UNCHANGED <<items, hdr, prev, last, pc>>

NewPair ==
    /\ More /\ ~Full /\ ~same
    /\ cells' = Append(cells, Cell(Len(hdr), 4))
    /\ rec_data' = rec_data + 8
    /\ prev' = next.pair
    /\ UNCHANGED <<items, hdr, last, pc>>

\* The header of the open record, if any, gets its length.
Closed == IF hdr = << >> THEN hdr ELSE [hdr EXCEPT ![Len(hdr)] = rec_data]

\* Nothing carries over into the new record.
NewRecord ==
    /\ More /\ Full
    /\ hdr' = Append(Closed, 0)
    /\ cells' = Append(cells, Cell(Len(hdr) + 1, 4))
    /\ rec_data' = 8
    /\ prev' = next.pair
    /\ UNCHANGED <<items, last, pc>>

Finish ==
    /\ pc = "emit" /\ Len(cells) = Len(items)
    /\ hdr' = Closed
    /\ last' = Len(hdr)
    /\ pc' = "done"
    /\ UNCHANGED <<items, cells, rec_data, prev>>

Step == SamePair \/ NewPair \/ NewRecord \/ Finish

Next == Step \/ (pc = "done" /\ UNCHANGED vars)

Spec == Init /\ [][Next]_vars

-----------------------------------------------------------------------------
\* Properties.

CellType == [rec : Nat, rp : {0, 4}, pair : Pairs \cup {NoPair}, addr : Nat, more : {0, 1}]
TypeOK ==
    /\ items \in Seq(Item)
    /\ cells \in Seq(CellType) /\ Len(cells) <= Len(items)
    /\ hdr \in Seq(Nat)
    /\ rec_data \in Nat
    /\ prev \in Pairs \cup {NoPair}
    /\ last \in Nat
    /\ pc \in {"emit", "done"}

\* A reader starts afresh at each record and takes R and P from the data unless
\* the item before had the continuation bit.
Fresh(n) == n = 1 \/ cells[n - 1].rec # cells[n].rec \/ cells[n - 1].more = 0

\* The pair a reader has in hand at cell n is the one it read at cell m.
HeldFrom(m, n) == m <= n /\ cells[m].rp = 4 /\ \A q \in (m + 1)..n : cells[q].rp = 0

\* Every item has its address, the R and P it was linked with, a prefix exactly
\* where a reader takes one, and promises no item that its record does not hold.
ItemsRead ==
    \A n \in DOMAIN cells :
        /\ cells[n].rp = 4 <=> Fresh(n)
        /\ cells[n].addr = items[n].addr
        /\ \E m \in DOMAIN cells : HeldFrom(m, n)
        /\ \A m \in DOMAIN cells : HeldFrom(m, n) =>
               cells[m].rec = cells[n].rec /\ cells[m].pair = items[n].pair
        /\ cells[n].more = 1 => n < Len(cells) /\ cells[n + 1].rec = cells[n].rec

\* The data of record r, counted from what was written.
InRecord(r) == {n \in DOMAIN cells : cells[n].rec = r}
PrefixesIn(r) == {n \in InRecord(r) : cells[n].rp = 4}
DataOf(r) == 4 * Cardinality(InRecord(r)) + 4 * Cardinality(PrefixesIn(r))

\* Every record's header, which is patched only when the next one is begun or
\* the last item is out, says how much data the record has, and no record has
\* more than fits.
HeadersRight ==
    pc = "done" => \A r \in DOMAIN hdr : hdr[r] = DataOf(r) /\ hdr[r] \in 8..RLDMAX

\* Whatever the items and wherever the records break, a reader that sees one
\* record at a time, in a buffer of the limit's size and for the length its
\* header says, gets every item with the R and P it was linked with.  An item's
\* size depends on whether its prefix is suppressed, and so on the very break
\* that the size decides about.
FetchReadsItems == ItemsRead /\ HeadersRight

\* When there are items the last record, and no other, ends the module, and all
\* items have been written.
ModuleEnded ==
    pc = "done" => /\ Len(cells) = Len(items)
                   /\ items # << >> => last = Len(hdr) /\ last = cells[Len(cells)].rec
=============================================================================
