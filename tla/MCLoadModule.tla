--------------------------- MODULE MCLoadModule ---------------------------
(***************************************************************************)
(* Instances for LoadModule.  Text: up to three sections laid end to end   *)
(* on doublewords, in every table order, a common behind them or not, with *)
(* text or without.  Relocation: every table of up to five items over      *)
(* three R/P pairs, with and without an inherited continuation bit.        *)
(* Every text meets no items and one, every table meets one text.          *)
(***************************************************************************)
EXTENDS LoadModule, Functions

\* Origins of at most three sections of these lengths, and the end of the last.
Stack(lens) ==
    LET Past(k) == IF k <= Len(lens) THEN roundup8(lens[k]) ELSE 0
    IN <<0, Past(1), Past(1) + Past(2), Past(1) + Past(2) + Past(3)>>

\* Section order[k] of the stack is the k-th of the table; the common follows.
Placed(lens, order, common, rld, sparse, texts) ==
    LET n == Len(lens)
        o == Stack(lens)
        Sec(k) == [org |-> o[order[k]], len |-> lens[order[k]], common |-> FALSE]
    IN [sect |-> [k \in 1..(n + common) |->
                    IF k <= n THEN Sec(k) ELSE [org |-> o[n + 1], len |-> 8, common |-> TRUE]],
        textend |-> o[n + 1], rld |-> rld, sparse |-> sparse,
        defined |-> UNION {o[k]..(o[k] + lens[k] - 1) : k \in texts}]

Orders(n) == {f \in [1..n -> 1..n] : IsInjective(f)}
Modules(Lens, n, commons) ==
    {Placed(lens, order, common, rld, FALSE, 1..n) :
        lens \in [1..n -> Lens], order \in Orders(n), common \in commons, rld \in BOOLEAN}
SparseModules(Lens, n) ==
    {Placed(lens, order, 0, rld, TRUE, texts) :
        lens \in [1..n -> Lens], order \in Orders(n), rld \in BOOLEAN, texts \in SUBSET (1..n)}

\* A gap of a doubleword behind the first section.
Gapped(l) ==
    [l EXCEPT !.sect = [k \in DOMAIN l.sect |->
                          IF l.sect[k].org > 0 THEN [l.sect[k] EXCEPT !.org = @ + 8] ELSE l.sect[k]],
              !.textend = @ + 8]

MCLayouts ==
    Modules({3, 8, 16, 40}, 3, {0, 1}) \cup Modules({20, 40}, 1, {0, 1})
    \cup {Gapped(l) : l \in Modules({3, 8, 40}, 2, {0, 1})}
    \cup SparseModules({3, 16, 40}, 3) \cup SparseModules({24, 40}, 1)
OneLayout == Placed(<<40>>, <<1>>, 0, TRUE, FALSE, {1})

MCPairs == {<<1, 1>>, <<1, 2>>, <<2, 1>>}
MCTables ==
    {[k \in DOMAIN f |-> [pair |-> f[k][1], addr |-> 4 * k, cont |-> f[k][2]]] :
        f \in UNION {[1..n -> MCPairs \X {0, 1}] : n \in 0..5}}
OneTable == <<[pair |-> <<1, 1>>, addr |-> 4, cont |-> 0]>>

\* Sections, and labels and references beside them.
MCBuilds ==
    {<<l, IF l.rld THEN OneTable ELSE << >>, Len(l.sect)>> : l \in MCLayouts}
    \cup {<<OneLayout, t, 2>> : t \in MCTables \ {<< >>}}
    \cup {<<OneLayout, OneTable, n>> : n \in 1..7}
=============================================================================
