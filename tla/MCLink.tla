------------------------------- MODULE MCLink -------------------------------
(***************************************************************************)
(* Instances for Link: every load order of up to three of MCDecks with no  *)
(* library, and the decks of Mains against every library of up to three    *)
(* members, with or without a member forced in.                            *)
(***************************************************************************)
EXTENDS Link

MCNames == {" ", "A", "B", "C", "N", "Q"}

Ar == INSTANCE Ar370 WITH SymLen <- [nm \in MCNames |-> IF nm = "A" THEN 4 ELSE 7], MEMBER_NAME_MAX <- 63

It(t, nm, addr, len) == [id |-> 0, type |-> t, name |-> nm, addr |-> addr, len |-> len]
\* A deck of these items, numbered in card order.
Dk(items) ==
    [esd |-> [k \in DOMAIN items |-> IF IsLD(items[k]) THEN items[k]
                ELSE [items[k] EXCEPT !.id = Len(SelectSeq(SubSeq(items, 1, k), LAMBDA e : ~IsLD(e)))]],
     rld |-> << >>, end |-> NoEnd]
Sd(nm, a, l) == It(T_SD, nm, a, l)
Pc(a, l) == It(T_PC, " ", a, l)
Er(nm) == It(T_ER, nm, 0, 0)
Wx(nm) == It(T_WX, nm, 0, 0)
Cm(nm, l) == It(T_CM, nm, 0, l)
Ld(nm, a, own) == It(T_LD, nm, a, own)

ExplicitDecks ==
    {Dk(<<Sd("A", 0, 8)>>),
     Dk(<<Sd("A", 0, 16), Ld("B", 8, 1), Er("C")>>),
     Dk(<<Sd("B", 0, 8), Sd("A", 8, 8), Er("C"), Ld("C", 12, 2)>>),
     Dk(<<Pc(0, 8), Wx("A"), Wx("B")>>),
     Dk(<<Pc(0, 8), Er("A")>>),
     Dk(<<Pc(0, 16), Cm("A", 8), Cm("B", 12)>>),
     Dk(<<Pc(0, 8), Cm("B", 16)>>),
     Dk(<<Pc(0, 8), Ld("B", 4, 1)>>),
     Dk(<<Pc(0, 8), Wx("C"), Ld("A", 4, 1)>>)}

LibDecks ==
    {Dk(<<Sd("A", 0, 16), Ld("B", 8, 1), Er("C")>>),
     Dk(<<Sd("A", 0, 8), Wx("B"), Ld("C", 4, 1)>>),
     Dk(<<Sd("B", 0, 8), Er("A")>>),
     Dk(<<Pc(0, 8), Ld("C", 4, 1), Cm("B", 12)>>),
     Dk(<<Pc(0, 8), Ld("B", 4, 1)>>)}

\* The references that set the search going.
Mains == {<<Dk(<<Pc(0, 8), Er("B"), Er("A")>>)>>,
          <<Dk(<<Pc(0, 8), Er("C"), Wx("A")>>)>>,
          <<Dk(<<Sd("A", 0, 8), Er("B")>>), Dk(<<Sd("A", 0, 8), Er("C"), Ld("Q", 4, 1)>>)>>}

\* A label the search believes in is in a section that is dropped.
LostMains == {<<Dk(<<Sd("A", 0, 8), Er("B")>>), Dk(<<Sd("A", 0, 8), Ld("B", 4, 1)>>)>>}

MCDecks == ExplicitDecks \cup LibDecks \cup UNION {{m[k] : k \in DOMAIN m} : m \in Mains \cup LostMains}

Files(ds) ==
    [k \in DOMAIN ds |-> [base |-> IF k = 1 THEN "N" ELSE "Q", deck |-> ds[k],
                          len |-> IF k = 1 THEN 16 ELSE 9, size |-> 80 * Len(ds[k].esd)]]
Libs(max) == {<<Ar!load_archive(Ar!create(Files(d)))>> : d \in UNION {[1..k -> LibDecks] : k \in 1..max}}
Cmd(e, l, inc) == [explicit |-> e, ar |-> l, include |-> inc, entry |-> "none", warnShadow |-> FALSE]

MCJobs == {Cmd(e, << >>, << >>) : e \in UNION {[1..k -> ExplicitDecks] : k \in 1..3}}
          \cup {Cmd(e, l, inc) : e \in Mains \cup LostMains, l \in Libs(3), inc \in {<< >>, <<"N">>}}
=============================================================================
