---------------------------- MODULE TextRecords ----------------------------
(***************************************************************************)
(* ld370's control and text records.  The text sections are walked in      *)
(* origin order; whole sections are packed into chunks of at most MAXTEXT  *)
(* bytes, a chunk of one larger section is split into several records, and *)
(* --sparse-text leaves out a record no TXT card covered.                  *)
(***************************************************************************)
EXTENDS Integers, Sequences, FiniteSets

CONSTANTS
    Layouts,        \* placed modules considered
    MAXTEXT         \* text record limit

\* A placed module: its sections in composite-ESD order with final origins,
\* the end of the text, the addresses a TXT card covered, RLD items or not.
Section == [org : Nat, len : Nat, common : BOOLEAN]
IsLayout(l) ==
    /\ Len(l.sect) \in Nat /\ DOMAIN l.sect = 1..Len(l.sect)
    /\ \A k \in DOMAIN l.sect : l.sect[k] \in Section
    /\ l.textend \in Nat /\ l.defined \subseteq Nat /\ l.rld \in BOOLEAN /\ l.sparse \in BOOLEAN

roundup8(v) == ((v + 7) \div 8) * 8

\* What address assignment gives the record writer, empty sections apart: each
\* text section padded to a doubleword before the next begins, possibly with a
\* gap, and the commons behind all text.
Texts(l) == {k \in DOMAIN l.sect : ~l.sect[k].common}
Apart(l) ==
    /\ \A k \in Texts(l) : l.sect[k].len > 0 /\ l.sect[k].org + l.sect[k].len <= l.textend
    /\ \A k, m \in Texts(l) : k # m /\ l.sect[k].org <= l.sect[m].org =>
           l.sect[k].org + roundup8(l.sect[k].len) <= l.sect[m].org
    /\ \A k \in DOMAIN l.sect : l.sect[k].common => l.sect[k].org >= l.textend

\* Every size pick_maxtext chooses is a multiple of eight.
ASSUME MaxTextAssumption == MAXTEXT \in Nat \ {0} /\ MAXTEXT % 8 = 0
ASSUME LayoutsAssumption == \A l \in Layouts : IsLayout(l) /\ Apart(l)

VARIABLES
    lay,            \* the module
    gidx,           \* sections by origin
    tpc,             \* "sort", "pack", "emit", "done"
    sg, first,      \* next section; first section of the chunk being emitted
    p, cend,        \* next byte of the chunk and its end
    recs            \* records written

textvars == <<lay, gidx, tpc, sg, first, p, cend, recs>>

S(k) == lay.sect[gidx[k]]

\* Nothing written yet.
TextBegin ==
    /\ gidx = << >>
    /\ tpc = "sort"
    /\ sg = 1 /\ first = 1
    /\ p = 0 /\ cend = 0
    /\ recs = << >>

TextInit == lay \in Layouts /\ TextBegin

\* The insertion sort is stable: sections of one origin keep table order.
SortsBefore(k, m) ==
    lay.sect[k].org < lay.sect[m].org \/ (lay.sect[k].org = lay.sect[m].org /\ k <= m)
Place(k) == Cardinality({m \in DOMAIN lay.sect : SortsBefore(m, k)})

Sort ==
    /\ tpc = "sort"
    /\ gidx' = [q \in 1..Len(lay.sect) |-> CHOOSE k \in DOMAIN lay.sect : Place(k) = q]
    /\ tpc' = "pack"
    /\ UNCHANGED <<lay, sg, first, p, cend, recs>>

\* Text sections; the commons sort behind them.
ntext == Cardinality(Texts(lay))

\* The end of the k-th section by origin: the last one reaches textend.
send(k) == IF k < ntext THEN S(k).org + roundup8(S(k).len) ELSE lay.textend

\* The greedy loop stops at the first section after the chunk's first one
\* whose end is too far from the chunk's start.
Breaks(k) == k > sg /\ send(k) - S(sg).org > MAXTEXT
Stop ==
    LET breaks == {k \in sg..ntext : Breaks(k)}
    IN IF breaks = {} THEN ntext + 1 ELSE CHOOSE k \in breaks : \A m \in breaks : k <= m

PackChunk ==
    /\ tpc = "pack" /\ sg <= ntext
    /\ first' = sg /\ sg' = Stop
    /\ p' = S(sg).org /\ cend' = send(Stop - 1)
    /\ tpc' = "emit"
    /\ UNCHANGED <<lay, gidx, recs>>

PackDone ==
    /\ tpc = "pack" /\ sg > ntext
    /\ tpc' = "done"
    /\ UNCHANGED <<lay, gidx, sg, first, p, cend, recs>>

\* The next record of the chunk.
rlen == IF cend - p > MAXTEXT THEN MAXTEXT ELSE cend - p
is_last == sg > ntext /\ p + rlen >= cend
\* Faulty variant: the mark is set although RLD records follow.
modend_early == is_last

modend == is_last /\ ~lay.rld
multi == sg - first > 1

\* Faulty variant: spans without the padding behind each section.
IdsUnpadded ==
    IF multi
    THEN [q \in 1..(sg - first) |-> [sect |-> gidx[first + q - 1], span |-> S(first + q - 1).len]]
    ELSE <<[sect |-> gidx[first], span |-> rlen]>>

\* The ID/length list: every section of the chunk, or the piece of one.
Ids ==
    IF multi
    THEN [q \in 1..(sg - first) |-> [sect |-> gidx[first + q - 1],
                                     span |-> send(first + q - 1) - S(first + q - 1).org]]
    ELSE <<[sect |-> gidx[first], span |-> rlen]>>
Record == [at |-> p, len |-> rlen, ids |-> Ids, modend |-> modend]

\* Faulty variant: only the record's first byte is looked at.
SparseFirst == lay.sparse /\ ~modend /\ p \notin lay.defined

Sparse == lay.sparse /\ ~modend /\ \A x \in p..(p + rlen - 1) : x \notin lay.defined

Advance ==
    /\ p' = p + rlen
    /\ tpc' = IF p + rlen < cend THEN "emit" ELSE "pack"
    /\ UNCHANGED <<lay, gidx, sg, first, cend>>

EmitRecord ==
    /\ tpc = "emit" /\ ~Sparse
    /\ recs' = Append(recs, Record)
    /\ Advance

SkipRecord ==
    /\ tpc = "emit" /\ Sparse
    /\ UNCHANGED recs
    /\ Advance

TextStep == Sort \/ PackChunk \/ PackDone \/ EmitRecord \/ SkipRecord

TextNext == TextStep \/ (tpc = "done" /\ UNCHANGED textvars)

TextSpec == TextInit /\ [][TextNext]_textvars

-----------------------------------------------------------------------------
\* Properties.

\* Every variable has the shape the C program gives it.
TextTypeOK ==
    /\ IsLayout(lay)
    /\ tpc \in {"sort", "pack", "emit", "done"}
    /\ tpc # "sort" => /\ DOMAIN gidx = 1..Len(lay.sect)
                      /\ \A q \in DOMAIN gidx : gidx[q] \in 1..Len(lay.sect)
    /\ sg \in 1..(Len(lay.sect) + 1) /\ first \in 1..(Len(lay.sect) + 1)
    /\ p \in Nat /\ cend \in Nat
    /\ Len(recs) \in Nat /\ DOMAIN recs = 1..Len(recs)

Bytes(r) == r.at..(r.at + r.len - 1)

\* No record is longer than the library's blocks allow.
RecordFits == \A k \in DOMAIN recs : recs[k].len <= MAXTEXT

\* Records load at ascending addresses and do not overlap, so fetch never
\* writes over what an earlier record brought in.
Ascending ==
    \A k \in DOMAIN recs : k > 1 => recs[k - 1].at + recs[k - 1].len <= recs[k].at

\* The bytes a record has to bring in: of every text section all of them, under
\* --sparse-text the ones a TXT card covered.
Wanted(l) ==
    {x \in UNION {l.sect[k].org..(l.sect[k].org + l.sect[k].len - 1) : k \in Texts(l)} :
        l.sparse => x \in l.defined}

\* However sections are packed, split and left out, the records fit, load
\* behind each other and together bring in every byte wanted.
TextWritten ==
    /\ RecordFits /\ Ascending
    /\ tpc = "done" => \A x \in Wanted(lay) : \E r \in DOMAIN recs : x \in Bytes(recs[r])

\* The padded text sections leave no gap before the end of the text.
Adjoining(l) ==
    \A k \in Texts(l) :
        LET e == l.sect[k].org + roundup8(l.sect[k].len)
        IN e = l.textend \/ \E m \in Texts(l) : l.sect[m].org = e

\* The sections the list of record r names lie end to end by the spans it gives
\* and fill the record, or it names the one section that r is a piece of.
Accounts(l, r) ==
    LET n == Len(r.ids)
        Start(q) == IF n = 1 THEN r.at ELSE l.sect[r.ids[q].sect].org
    IN /\ Start(1) = r.at /\ Start(n) + r.ids[n].span = r.at + r.len
       /\ \A q \in 1..(n - 1) : Start(q + 1) = Start(q) + r.ids[q].span
       /\ l.sect[r.ids[1].sect].org <= r.at
       /\ n = 1 => r.at < l.sect[r.ids[1].sect].org + l.sect[r.ids[1].sect].len

\* When the padded sections leave no gap, a record's ID/length list accounts for
\* every byte of the record: however sections are packed into chunks, and a
\* large one split, program fetch finds each byte in the section it is of.
IdsAccount == Adjoining(lay) => \A k \in DOMAIN recs : Accounts(lay, recs[k])
=============================================================================
