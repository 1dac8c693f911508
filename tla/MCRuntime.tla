----------------------------- MODULE MCRuntime -----------------------------
(***************************************************************************)
(* Words of six bits and digits of two: a double has four digits and a     *)
(* float one.  Two-operand helpers get every pair of the double words      *)
(* below, one-operand helpers every double word there is.                  *)
(***************************************************************************)
EXTENDS Runtime

\* High and low words at and next to zero, half the word, the sign bit and the
\* top, and one in between.
Edges == {[hi |-> p, lo |-> q] : p \in {0, 1, 31, 32, 63}, q \in {0, 1, 7, 8, 32, 45, 63}}
MCArgs == Edges \X Edges

\* Around the exponent at which no shift is needed, and the ends.
MCExponents == {0, 127} \cup (68 - 7)..(68 + 7)
=============================================================================
