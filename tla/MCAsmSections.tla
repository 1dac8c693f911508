--------------------------- MODULE MCAsmSections ---------------------------
(***************************************************************************)
(* Programs for AsmSections: every short mix of section and storage        *)
(* statements, and every first section closed and followed by another,     *)
(* which is then left, resumed or ended.                                   *)
(***************************************************************************)
EXTENDS AsmSections

MCLiterals == {"D", "F", "X"}
MCLitSize == [t \in MCLiterals |-> CASE t = "D" -> 8 [] t = "F" -> 4 [] t = "X" -> 3]
MCLitAlgn == [t \in MCLiterals |-> CASE t = "D" -> 8 [] t = "F" -> 4 [] t = "X" -> 1]

CSECT(n) == [op |-> "CSECT", name |-> n, start |-> 0]
START(n, a) == [op |-> "CSECT", name |-> n, start |-> a]
DSECT == [op |-> "DSECT", name |-> "D"]
COM == [op |-> "COM", name |-> "C"]
EXTRN(n) == [op |-> "EXTRN", name |-> n]
DC(n) == [op |-> "DC", len |-> n, algn |-> 1]
DS(n, a) == [op |-> "DS", len |-> n, algn |-> a]
INS(n, t) == [op |-> "INS", len |-> n, lit |-> t]
ORG(k) == [op |-> "ORG", to |-> "offset", offset |-> k]
ORGTOP == [op |-> "ORG", to |-> "top"]
CNOP(b, w) == [op |-> "CNOP", b |-> b, w |-> w]
LTORG == [op |-> "LTORG"]
END == [op |-> "END"]

SectStmts == {CSECT("A"), CSECT("B"), CSECT("PC"), DSECT, COM}
Contents == {DC(3), DS(8, 8), INS(4, "F"), INS(6, "D"), INS(4, "X"), ORG(0), ORG(20), ORGTOP, LTORG}

\* There is a control section, neither ORG nor CNOP comes before any section,
\* and CNOP is always followed by storage in the same section.
Ordinary(p) ==
    /\ p[1].op \notin {"ORG", "CNOP"}
    /\ p[1].op \in {"DSECT", "COM"} => \E k \in DOMAIN p : p[k].op = "CSECT"
    /\ \A k \in DOMAIN p :
         p[k].op = "CNOP" => k < Len(p) /\ p[k + 1].op \in {"DC", "INS"}

Short == {p \in UNION {[1..n -> SectStmts \union Contents] : n \in 1..3} : Ordinary(p)}

\* A, content, another section, content, back to some section, content.
Resumed == {<<CSECT("A"), x, s, y, t, z>> :
              x \in Contents \ {ORGTOP}, s \in SectStmts \ {CSECT("A")}, y \in {DC(3), INS(6, "D"), LTORG},
              t \in SectStmts, z \in {DC(3), INS(4, "F"), ORG(20)}}

Special ==
    {<<START("A", 13), x, CSECT("B"), y>> : x \in Contents, y \in Contents}
    \union {<<DC(3), EXTRN("A"), CSECT("A"), x, CSECT("B"), y, CSECT("A"), DC(3)>> :
              x \in Contents, y \in Contents}
    \union {<<CSECT("A"), x, CNOP(b, 8), y, CSECT("B"), CNOP(b, 4), INS(4, "F")>> :
              x \in Contents, b \in {0, 2}, y \in {DC(3), INS(6, "D")}}

MCPrograms == {Append(p, END) : p \in Short \union Resumed \union Special}

\* A section whose last statement is CNOP, and another one behind it.
CnopPrograms == {<<CSECT("A"), DC(8), CNOP(4, 8), CSECT("B"), DC(4), END>>}
=============================================================================
