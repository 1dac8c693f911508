----------------------------- MODULE MCAutocall -----------------------------
(***************************************************************************)
(* Instances for Autocall: every library of up to three members over the   *)
(* decks below, as one archive or two, against the command lines below.    *)
(***************************************************************************)
EXTENDS Autocall

MCNames == {" ", "M", "A", "B", "C", "N", "Q", "Z"}

\* Names of different lengths: symbol tables are odd and even.
MCSymLen == [nm \in MCNames |-> IF nm \in {"A", "M"} THEN 4 ELSE 7]
Ar == INSTANCE Ar370 WITH SymLen <- MCSymLen, MEMBER_NAME_MAX <- 63

Item(t, nm, len) == [id |-> 0, type |-> t, name |-> nm, addr |-> 0, len |-> len]
\* A deck of these items, numbered in card order.
Dk(items) ==
    [esd |-> [k \in DOMAIN items |-> IF IsLD(items[k]) THEN items[k]
                ELSE [items[k] EXCEPT !.id = Len(SelectSeq(SubSeq(items, 1, k), LAMBDA e : ~IsLD(e)))]],
     rld |-> << >>, end |-> NoEnd]
Sd(nm) == Item(T_SD, nm, 8)
Ld(nm) == Item(T_LD, nm, 1)
Er(nm) == Item(T_ER, nm, 0)

mA   == Dk(<<Sd("M"), Er("A")>>)
mBA  == Dk(<<Sd("M"), Er("B"), Er("A")>>)
mWxA == Dk(<<Sd("M"), Item(T_WX, "A", 0), Er("B")>>)
aB   == Dk(<<Sd("A"), Er("B"), Er("C")>>)
aC   == Dk(<<Sd("A"), Ld("C")>>)
b    == Dk(<<Sd("B")>>)
bA   == Dk(<<Sd("B"), Er("A")>>)
pBC  == Dk(<<Item(T_PC, " ", 8), Ld("B"), Er("C")>>)
c    == Dk(<<Sd("C")>>)
cA   == Dk(<<Item(T_CM, "C", 8), Item(T_PC, " ", 8), Item(T_LD, "A", 2)>>)

LibDecks == {c, aB, aC, bA, pBC, cA}
MCDecks == LibDecks \cup {mA, mBA, mWxA, b}

\* The first file has a long name, of an even length or an odd one.
Files(ds) ==
    [k \in DOMAIN ds |-> [base |-> IF k = 1 THEN "N" ELSE "Q", deck |-> ds[k],
                          len |-> IF k = 1 THEN 15 + Len(ds) ELSE 9, size |-> 80 * Len(ds[k].esd)]]
\* Every archive of up to three members, as ld370 has it in memory; that this is
\* what it reads of what ar370 wrote is ArchivesReadBack.
DeckSeqs == UNION {[1..k -> LibDecks] : k \in 0..3}
Archived ==
    [ds \in DeckSeqs |->
        LET S == Ar!Symbols(Files(ds))
        IN [sym |-> [s \in DOMAIN S |-> [name |-> S[s].name, off |-> S[s].obj]],
            mem |-> [k \in DOMAIN ds |-> [base |-> Files(ds)[k].base, deck |-> ds[k]]]]]
\* One archive or two, of at most three members of S between them.
Libs(S) ==
    {IF p[2] = << >> THEN <<Archived[p[1]]>> ELSE <<Archived[p[1]], Archived[p[2]]>> :
        p \in {q \in DeckSeqs \X DeckSeqs :
                /\ Len(q[1]) + Len(q[2]) <= 3
                /\ q[1] = << >> => q[2] = << >>
                /\ \A k \in DOMAIN q[1] : q[1][k] \in S
                /\ \A k \in DOMAIN q[2] : q[2][k] \in S}}

Cmd(e, l, inc, ent, w) ==
    [explicit |-> e, ar |-> l, include |-> inc, entry |-> ent, warnShadow |-> w]

\* Automatic library call and the entry point, every library.
AutocallJobs ==
    {Cmd(e, l, << >>, ent, TRUE) : e \in {<<mBA>>, <<mWxA, b>>}, l \in Libs(LibDecks),
                                   ent \in {"none", "C"}}

\* Forced members, present, repeated and missing, or nothing but them.
IncludeJobs ==
    {Cmd(e, l, inc, IF e = << >> THEN "B" ELSE "none", FALSE) :
        e \in {<< >>, <<mA>>}, l \in Libs({aC, bA, cA}) \cup {<< >>},
        inc \in {<< >>, <<"N">>, <<"C", "A">>, <<"A", "N">>, <<"B", "Z">>}}

\* ar370's offsets, worked out before anything is written, are those of the
\* headers as written: with an odd or an even symbol table, with a long-name
\* member of odd or even length or without one, ld370 gets every file back under
\* its name and each symbol leads to the file it was found in.
ASSUME ArchivesReadBack ==
    \A ds \in DeckSeqs :
        ~Ar!Refused(Files(ds)) /\ Ar!load_archive(Ar!create(Files(ds))) = Archived[ds]

MCJobs == AutocallJobs \cup IncludeJobs
=============================================================================
