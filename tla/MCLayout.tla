----------------------------- MODULE MCLayout -----------------------------
(***************************************************************************)
(* Instances for Layout: every load order of up to three of the objects    *)
(* below, entered by name, by END card or by neither.                      *)
(***************************************************************************)
EXTENDS Layout

MCNames == {" ", "A", "B", "C", "D"}

It(t, nm, addr, len) == [id |-> 0, type |-> t, name |-> nm, addr |-> addr, len |-> len]
Ob(items, rld, end) ==
    parse_object(
        [esd |-> [k \in DOMAIN items |-> IF IsLD(items[k]) THEN items[k]
                    ELSE [items[k] EXCEPT !.id = Len(SelectSeq(SubSeq(items, 1, k), LAMBDA e : ~IsLD(e)))]],
         rld |-> rld, end |-> end])
Sd(nm, a, l) == It(T_SD, nm, a, l)
Pc(a, l) == It(T_PC, " ", a, l)
Er(nm) == It(T_ER, nm, 0, 0)
Wx(nm) == It(T_WX, nm, 0, 0)
Cm(nm, l) == It(T_CM, nm, 0, l)
Ld(nm, a, own) == It(T_LD, nm, a, own)
Rl(R, P, a, off) == [R |-> R, P |-> P, addr |-> a, off |-> off]
End(id, off) == [id |-> id, off |-> off]

MCObjects ==
    {Ob(<<Sd("A", 0, 8), Er("B")>>, <<Rl(2, 1, 4, 0)>>, NoEnd),
     Ob(<<Sd("A", 0, 12), Ld("B", 6, 1), Er("C")>>, <<Rl(2, 1, 0, 0)>>, End(1, 8)),
     \* three sections, of which the first, the second or both may be dropped
     Ob(<<Sd("B", 0, 10), Sd("A", 16, 8), Ld("C", 20, 2), Sd("D", 24, 8)>>,
        <<Rl(2, 1, 0, 0), Rl(2, 3, 24, 4), Rl(3, 3, 28, 4)>>, NoEnd),
     Ob(<<Sd("A", 0, 8), Sd("D", 8, 8), Ld("C", 12, 2)>>, <<Rl(1, 2, 8, 4), Rl(1, 1, 0, 4)>>, End(1, 4)),
     Ob(<<Pc(0, 4), Wx("A"), Er("D")>>, <<Rl(3, 1, 0, 4)>>, NoEnd),
     Ob(<<Pc(0, 8), Cm("D", 12), Cm("C", 4)>>, <<Rl(2, 1, 0, 0)>>, NoEnd),
     Ob(<<Cm("C", 9)>>, << >>, NoEnd)}

LoadOrders(S, max) == UNION {[1..k -> S] : k \in 1..max}
MCInputs == LoadOrders(MCObjects, 3)

A8 == Ob(<<Sd("A", 0, 8)>>, << >>, NoEnd)

\* A duplicate is dropped from an object that has a common area too.
DropCommonInputs == {<<A8, Ob(<<Sd("A", 0, 8), Sd("B", 8, 8), Cm("C", 8)>>, << >>, NoEnd)>>}
=============================================================================
