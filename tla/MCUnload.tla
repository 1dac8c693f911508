------------------------------ MODULE MCUnload ------------------------------
(***************************************************************************)
(* Libraries for Unload: one to three members of one to three blocks, with *)
(* and without aliases, names in any order.                                *)
(***************************************************************************)
EXTENDS Unload

Blk(n, t) == [len |-> n, text |-> t]
Member(nm, blocks, aliases) == [name |-> nm, blocks |-> blocks, aliases |-> aliases]

\* A CESD, a control and a text record of several sizes.
Shapes == {<<Blk(40, FALSE)>>, <<Blk(40, FALSE), Blk(118, TRUE)>>,
           <<Blk(40, FALSE), Blk(20, FALSE), Blk(260, TRUE)>>,
           <<Blk(20, FALSE), Blk(74, TRUE), Blk(20, FALSE)>>}
TooLong == <<Blk(40, FALSE), Blk(268, TRUE)>>

Aliases(nm) == {<< >>, <<nm + 3>>, <<nm + 3, nm - 1>>}

Ones == {<<Member(5, s, a)>> : s \in Shapes \union {TooLong}, a \in Aliases(5) \union {<<5>>}}
Twos == {<<Member(n[1], s, a), Member(n[2], u, b)>> :
           n \in {<<1, 5>>, <<5, 1>>}, s \in Shapes, u \in Shapes \union {TooLong},
           a \in {<< >>, <<3>>, <<3, 7>>}, b \in {<< >>, <<9>>, <<9, 3>>}}
Threes == {<<Member(5, s, a), Member(9, u, << >>), Member(2, v, << >>)>> :
             s \in Shapes, u \in Shapes, v \in Shapes, a \in {<< >>, <<1>>, <<7, 3>>}}

MCLibraries == Ones \union Twos \union Threes
=============================================================================
