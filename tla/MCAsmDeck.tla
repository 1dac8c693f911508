----------------------------- MODULE MCAsmDeck -----------------------------
(***************************************************************************)
(* Assemblies for AsmDeck: declarations in many orders with a little text, *)
(* text in many orders with few declarations, and relocations.             *)
(***************************************************************************)
EXTENDS AsmDeck

Sym(kind, sect, addr, len) == [kind |-> kind, sect |-> sect, addr |-> addr, len |-> len, weak |-> FALSE]

\* Sections A and B of eight bytes each, labels L and N in B, an external and
\* a weak external, a common, a pseudo register, an absolute and an undefined name.
MCDef ==
    [s \in {"A", "B", "L", "N", "X", "W", "C", "Q", "K", "U"} |->
        CASE s = "A" -> Sym("SD", "A", 0, 8)   [] s = "B" -> Sym("PC", "B", 8, 12)
          [] s = "L" -> Sym("label", "B", 12, 0) [] s = "N" -> Sym("label", "B", 14, 0)
          [] s = "X" -> Sym("external", "none", 0, 0)
          [] s = "W" -> [Sym("external", "none", 0, 0) EXCEPT !.weak = TRUE]
          [] s = "C" -> Sym("CM", "C", 0, 16)  [] s = "Q" -> Sym("XD", "none", 0, 4)
          [] s = "K" -> Sym("absolute", "none", 5, 0) [] s = "U" -> Sym("undefined", "none", 0, 0)]

E(s, r) == [sym |-> s, role |-> r]
CSECT == [op |-> "CSECT"]
REPRO == [op |-> "REPRO"]
PUT(s, at, n) == [op |-> "PUT", sect |-> s, at |-> at, n |-> n, target |-> "none", isV |-> FALSE]
ADCON(s, at, t, v) == [op |-> "PUT", sect |-> s, at |-> at, n |-> 4, target |-> t, isV |-> v]

Assembly(esd, stmts, entry) == [esd |-> esd, def |-> MCDef, stmts |-> stmts, entry |-> entry]

\* Every order of each of these declarations: a name with two entries, dropped
\* LDs first or last on a card, cards of LDs only.
Permuted(s) == {[m \in DOMAIN s |-> s[p[m]]] :
                  p \in {f \in [DOMAIN s -> DOMAIN s] : \A x, y \in DOMAIN s : f[x] = f[y] => x = y}}
Declarations ==
    UNION {Permuted(s) : s \in
       {<<E("A", "SECT"), E("B", "SECT"), E("L", "LD"), E("N", "LD"), E("B", "ER")>>,
        <<E("A", "SECT"), E("B", "SECT"), E("A", "LD"), E("K", "LD"), E("L", "LD")>>,
        <<E("A", "SECT"), E("B", "SECT"), E("L", "ER"), E("L", "LD"), E("U", "LD")>>,
        <<E("A", "SECT"), E("B", "SECT"), E("X", "ER"), E("C", "CM"), E("Q", "XD")>>,
        <<E("A", "SECT"), E("B", "SECT"), E("W", "ER"), E("X", "LD"), E("X", "ER")>>}}

\* The content of B is met before A's has ended.
Little == <<CSECT, PUT("A", 0, 4), PUT("B", 8, 2), ADCON("B", 10, "A", FALSE), PUT("A", 4, 4)>>

Texts == LET one == {REPRO, PUT("A", 0, 3), PUT("A", 3, 5), PUT("A", 1, 2), PUT("B", 8, 7), PUT("B", 15, 2)}
         IN {pre \o <<CSECT>> \o body : pre \in {<< >>, <<REPRO>>}, body \in UNION {[1..n -> one] : n \in 0..4}}
TextEsd == <<E("A", "SECT"), E("B", "SECT")>>

Adcons == LET one == {ADCON("A", 0, "A", FALSE), ADCON("A", 4, "L", FALSE), ADCON("A", 4, "B", FALSE),
                      ADCON("B", 8, "L", TRUE), ADCON("B", 12, "X", FALSE), ADCON("B", 16, "B", TRUE)}
          IN {<<CSECT>> \o body : body \in UNION {[1..n -> one] : n \in 0..4}}
AdconEsd == <<E("B", "ER"), E("A", "SECT"), E("L", "ER"), E("B", "SECT"), E("X", "ER")>>

MCAssemblies ==
    {Assembly(esd, Little, "none") : esd \in Declarations}
    \union {Assembly(TextEsd, stmts, "A") : stmts \in Texts}
    \union {Assembly(AdconEsd, stmts, "B") : stmts \in Adcons}

\* The entry point is a label that a V-con also names.
EndAssemblies ==
    {Assembly(<<E("A", "SECT"), E("B", "SECT"), E("L", "LD"), E("L", "ER")>>,
              <<CSECT, PUT("A", 0, 4), CSECT, ADCON("B", 8, "L", TRUE), PUT("B", 12, 4)>>, "L")}
=============================================================================
