---------------------------- MODULE UnloadProofs ----------------------------
(***************************************************************************)
(* Proofs about the unloaded image and the transmission of Unload.         *)
(***************************************************************************)
EXTENDS Unload, FiniteSetTheorems, WellFoundedInduction, TLAPS

(***************************************************************************)
(* Numbers and recursion.                                                  *)
(***************************************************************************)

\* A set of numbers has a least one.
LEMMA LeastNumber ==
    ASSUME NEW Y, Y \subseteq Nat, Y # {}
    PROVE  \E y \in Y : \A z \in Y : y <= z
<1>1. PICK y \in Y : \A z \in Y : ~(<<z, y>> \in OpToRel(<, Nat))
  BY WFMin, NatLessThanWellFounded, Zenon
<1>2. \A z \in Y : ~(z < y)
  BY <1>1 DEF OpToRel
<1> QED BY <1>2

\* Induction, for a set of numbers.
LEMMA Upward ==
    ASSUME NEW N \in Nat, NEW T, 0 \in T, \A n \in 1..N : n - 1 \in T => n \in T
    PROVE  \A n \in 0..N : n \in T
<1> DEFINE Bad == {n \in 0..N : n \notin T}
<1> SUFFICES ASSUME Bad # {} PROVE FALSE
  OBVIOUS
<1>1. PICK n \in Bad : \A l \in Bad : n <= l
  <2> HIDE DEF Bad
  <2>1. Bad \subseteq Nat
    BY DEF Bad
  <2> QED BY <2>1, LeastNumber
<1>2. n # 0 /\ n \in 0..N
  OBVIOUS
<1>3. n \in 1..N /\ n - 1 \in 0..N /\ n - 1 \notin Bad
  BY <1>1, <1>2
<1> QED BY <1>3

\* f follows the steps h from a.
Follows(f, n, V, a, h) ==
    f \in [0..n -> V] /\ f[0] = a /\ \A k \in 1..n : f[k] = h[k][f[k - 1]]

LEMMA Recursion ==
    ASSUME NEW V, NEW a \in V, NEW n \in Nat, NEW h \in [1..n -> [V -> V]]
    PROVE  \E f : Follows(f, n, V, a, h)
<1> DEFINE Bad == {k \in 0..n : ~ \E f : Follows(f, k, V, a, h)}
<1> SUFFICES ASSUME Bad # {} PROVE FALSE
  OBVIOUS
<1>1. PICK k \in Bad : \A l \in Bad : k <= l
  <2> HIDE DEF Bad
  <2>1. Bad \subseteq Nat
    BY DEF Bad
  <2> QED BY <2>1, LeastNumber
<1>2. k \in Nat /\ k <= n
  OBVIOUS
<1>3. k # 0
  <2>1. Follows([l \in 0..0 |-> a], 0, V, a, h)
    BY DEF Follows
  <2> QED BY <2>1
<1>4. k - 1 \in 0..n /\ k - 1 \notin Bad
  BY <1>1, <1>2, <1>3
<1>5. PICK g : Follows(g, k - 1, V, a, h)
  BY <1>4
<1> DEFINE f == [l \in 0..k |-> IF l = k THEN h[k][g[k - 1]] ELSE g[l]]
<1>6. Follows(f, k, V, a, h)
  <2>1. g[k - 1] \in V /\ k \in 1..n /\ h[k] \in [V -> V]
    BY <1>2, <1>3, <1>4, <1>5 DEF Follows
  <2>2. f \in [0..k -> V] /\ f[0] = a
    BY <1>2, <1>3, <1>5, <2>1 DEF Follows
  <2>3. ASSUME NEW l \in 1..k PROVE f[l] = h[l][f[l - 1]]
    <3>1. f[l - 1] = g[l - 1]
      BY <1>2
    <3>2. CASE l = k
      BY <3>1, <3>2
    <3>3. CASE l # k
      <4>1. l \in 1..(k - 1) /\ f[l] = g[l]
        BY <1>2, <3>3
      <4> QED BY <1>5, <3>1, <4>1 DEF Follows
    <3> QED BY <3>2, <3>3
  <2> QED BY <2>2, <2>3 DEF Follows
<1> QED BY <1>6

\* The least of a set of numbers.
LEMMA LeastIs ==
    ASSUME NEW Y, Y \subseteq Nat, Y # {}
    PROVE  Least(Y) \in Y /\ \A y \in Y : Least(Y) <= y
<1>1. \E x \in Y : \A y \in Y : x <= y
  BY LeastNumber
<1> QED BY <1>1 DEF Least

(***************************************************************************)
(* Sums.                                                                   *)
(***************************************************************************)
Adds(g, f, n) == g \in [0..n -> Nat] /\ g[0] = 0 /\ \A k \in 1..n : g[k] = g[k - 1] + f[k]

LEMMA SumExists ==
    ASSUME NEW n \in Nat, NEW f, \A k \in 1..n : f[k] \in Nat
    PROVE  \E g : Adds(g, f, n)
<1> DEFINE h == [k \in 1..n |-> [v \in Nat |-> v + f[k]]]
<1>1. h \in [1..n -> [Nat -> Nat]]
  OBVIOUS
<1>2. PICK g : Follows(g, n, Nat, 0, h)
  <2> HIDE DEF h
  <2> QED BY <1>1, Recursion
<1>3. g \in [0..n -> Nat] /\ g[0] = 0
  BY <1>2 DEF Follows
<1>4. ASSUME NEW k \in 1..n PROVE g[k] = g[k - 1] + f[k]
  <2>1. g[k] = h[k][g[k - 1]] /\ k - 1 \in 0..n
    <3> HIDE DEF h
    <3> QED BY <1>2 DEF Follows
  <2>2. g[k - 1] \in Nat
    BY <1>3, <2>1
  <2> QED BY <2>1, <2>2
<1> QED BY <1>3, <1>4 DEF Adds

LEMMA TotalIs ==
    ASSUME NEW n \in Nat, NEW f, NEW g, Adds(g, f, n)
    PROVE  Total(f, n) = g[n]
<1> DEFINE F(e) == [x \in 0..n |-> IF x = 0 THEN 0 ELSE e[x - 1] + f[x]]
           s == CHOOSE e : e = F(e)
<1>1. Total(f, n) = s[n]
  BY Zenon DEF Total
<1>2. g = F(g)
  BY DEF Adds
<1>3. s = F(s)
  <2> HIDE DEF F
  <2> QED BY <1>2
<1>4. \A x \in 0..n : s[x] = IF x = 0 THEN 0 ELSE s[x - 1] + f[x]
  <2> HIDE DEF s
  <2> QED BY <1>3
<1> HIDE DEF s, F
<1> DEFINE T == {x \in 0..n : s[x] = g[x]}
<1>5. 0 \in T
  BY <1>4 DEF Adds
<1>6. ASSUME NEW x \in 1..n, x - 1 \in T PROVE x \in T
  BY <1>4, <1>6 DEF Adds
<1>7. \A x \in 0..n : x \in T
  <2> HIDE DEF T
  <2> QED BY <1>5, <1>6, Upward
<1> QED BY <1>1, <1>7

LEMMA TotalStep ==
    ASSUME NEW n \in Nat, NEW f, \A k \in 1..n : f[k] \in Nat
    PROVE  /\ Total(f, n) \in Nat /\ Total(f, 0) = 0
           /\ n > 0 => Total(f, n - 1) \in Nat /\ Total(f, n) = Total(f, n - 1) + f[n]
<1>1. PICK g : Adds(g, f, n)
  BY SumExists
<1>2. Total(f, n) = g[n] /\ g[n] \in Nat
  <2>1. Total(f, n) = g[n]
    BY <1>1, TotalIs
  <2> QED BY <1>1, <2>1 DEF Adds
<1>3. Total(f, 0) = 0
  <2>1. Adds([x \in 0..0 |-> 0], f, 0)
    BY DEF Adds
  <2> QED BY <2>1, TotalIs
<1>4. ASSUME n > 0 PROVE Total(f, n - 1) = g[n - 1] /\ g[n - 1] \in Nat /\ g[n] = g[n - 1] + f[n]
  <2> DEFINE e == [x \in 0..(n - 1) |-> g[x]]
  <2>1. n - 1 \in Nat /\ n - 1 \in 0..(n - 1) /\ n - 1 \in 0..n
    BY <1>4
  <2>2. Adds(e, f, n - 1)
    BY <1>1, <2>1 DEF Adds
  <2>3. Total(f, n - 1) = e[n - 1]
    <3> HIDE DEF e
    <3> QED BY <2>1, <2>2, TotalIs
  <2> QED BY <1>1, <1>4, <2>1, <2>3 DEF Adds
<1> QED BY <1>2, <1>3, <1>4

LEMMA TotalSame ==
    ASSUME NEW n \in Nat, NEW f, NEW g, \A k \in 1..n : f[k] \in Nat /\ g[k] = f[k]
    PROVE  Total(g, n) = Total(f, n)
<1>1. PICK e : Adds(e, f, n)
  BY SumExists
<1>2. Adds(e, g, n)
  BY <1>1 DEF Adds
<1> QED BY <1>1, <1>2, TotalIs

(***************************************************************************)
(* Sorting by name.                                                        *)
(***************************************************************************)
Named(S) == /\ IsFiniteSet(S) /\ \A d \in S : d.name \in Nat
            /\ \A d, e \in S : d.name = e.name => d = e
Below(S, d) == {e \in S : e.name < d.name}
Listed(f, n, S) == /\ n \in Nat /\ f \in [1..n -> S]
                   /\ \A x, y \in 1..n : x < y => f[x].name < f[y].name
                   /\ \A d \in S : \E x \in 1..n : f[x] = d

LEMMA SortLists ==
    ASSUME NEW S, Named(S)
    PROVE  Listed(SortedByName(S), Cardinality(S), S)
<1> DEFINE N == Cardinality(S)
           R(d) == Cardinality(Below(S, d))
           f == SortedByName(S)
<1>1. N \in Nat
  BY FS_CardinalityType DEF Named
<1>2. ASSUME NEW d \in S PROVE R(d) \in 0..(N - 1) /\ IsFiniteSet(Below(S, d))
  <2>1. Below(S, d) \subseteq S /\ d \notin Below(S, d)
    BY DEF Below, Named
  <2>2. IsFiniteSet(Below(S, d)) /\ R(d) <= N /\ (N = R(d) => S = Below(S, d))
    BY <2>1, FS_Subset DEF Named
  <2>3. R(d) \in Nat
    BY <2>2, FS_CardinalityType
  <2> QED BY <1>1, <2>1, <2>2, <2>3
<1>3. ASSUME NEW d \in S, NEW e \in S, d.name < e.name PROVE R(d) < R(e)
  <2>1. Below(S, d) \subseteq Below(S, e) /\ d \in Below(S, e) /\ d \notin Below(S, d)
    BY <1>3 DEF Below, Named
  <2>2. R(d) <= R(e) /\ (R(e) = R(d) => Below(S, e) = Below(S, d))
    BY <1>2, <2>1, FS_Subset
  <2>3. R(d) \in Nat /\ R(e) \in Nat
    BY <1>2
  <2> QED BY <2>1, <2>2, <2>3
<1>4. ASSUME NEW d \in S, NEW e \in S, R(d) = R(e) PROVE d = e
  <2>1. ~(d.name < e.name) /\ ~(e.name < d.name)
    <3>1. R(d) \in Nat /\ R(e) \in Nat
      BY <1>2
    <3> HIDE DEF R
    <3> QED BY <1>3, <1>4, <3>1
  <2> QED BY <2>1 DEF Named
<1> DEFINE rank == [d \in S |-> R(d) + 1]
<1>5. rank \in Injection(S, 1..N)
  <2>1. rank \in [S -> 1..N]
    BY <1>1, <1>2
  <2>2. \A d, e \in S : rank[d] = rank[e] => d = e
    <3> SUFFICES ASSUME NEW d \in S, NEW e \in S, rank[d] = rank[e] PROVE d = e
      OBVIOUS
    <3>1. R(d) \in Nat /\ R(e) \in Nat
      BY <1>2
    <3>2. R(d) = R(e)
      BY <3>1
    <3> QED BY <1>4, <3>2
  <2> HIDE DEF rank
  <2> QED BY <2>1, <2>2 DEF Injection, IsInjective
<1>6. rank \in Surjection(S, 1..N)
  <2>1. IsFiniteSet(1..N) /\ Cardinality(1..N) = N
    BY <1>1, FS_Interval
  <2> HIDE DEF rank
  <2> QED BY <1>5, <2>1, FS_Injection
<1>7. \A x \in 1..N : \E d \in S : rank[d] = x
  <2> HIDE DEF rank, N
  <2> QED BY <1>6 DEF Surjection
<1>8. ASSUME NEW x \in 1..N PROVE f[x] \in S /\ R(f[x]) = x - 1
  <2>1. PICK d \in S : rank[d] = x
    BY <1>7
  <2>2. R(d) = x - 1
    BY <1>2, <2>1
  <2>3. f[x] = CHOOSE e \in S : R(e) = x - 1
    BY DEF SortedByName, Below
  <2> HIDE DEF R, f
  <2> QED BY <2>2, <2>3
<1>9. f \in [1..N -> S]
  <2>1. f = [x \in 1..N |-> CHOOSE e \in S : R(e) = x - 1]
    BY Zenon DEF SortedByName, Below
  <2> HIDE DEF f, R, N
  <2>2. f = [x \in 1..N |-> f[x]]
    BY <2>1
  <2> QED BY <1>8, <2>2
<1>10. ASSUME NEW x \in 1..N, NEW y \in 1..N, x < y PROVE f[x].name < f[y].name
  <2>1. f[x] \in S /\ f[y] \in S /\ R(f[x]) = x - 1 /\ R(f[y]) = y - 1
    BY <1>8
  <2>2. f[x].name \in Nat /\ f[y].name \in Nat
    BY <2>1 DEF Named
  <2>3. ~(f[y].name < f[x].name)
    <3> HIDE DEF R, f
    <3> QED BY <1>3, <1>10, <2>1
  <2>4. f[y].name # f[x].name
    <3>1. f[x] # f[y]
      <4> HIDE DEF f
      <4> QED BY <1>10, <2>1
    <3> QED BY <2>1, <3>1 DEF Named
  <2> HIDE DEF f
  <2> QED BY <2>2, <2>3, <2>4
<1>11. ASSUME NEW d \in S PROVE \E x \in 1..N : f[x] = d
  <2>1. R(d) + 1 \in 1..N /\ R(d) \in Nat
    BY <1>1, <1>2
  <2>2. f[R(d) + 1] \in S /\ R(f[R(d) + 1]) = R(d)
    <3> HIDE DEF f, R
    <3> QED BY <1>8, <2>1
  <2>3. f[R(d) + 1] = d
    <3> HIDE DEF f, R
    <3> QED BY <1>4, <2>2
  <2> QED BY <2>1, <2>3
<1> HIDE DEF f
<1> QED BY <1>1, <1>9, <1>10, <1>11 DEF Listed, f

\* A list of a set in the order of names is unique.
LEMMA ListUnique ==
    ASSUME NEW S, Named(S), NEW f, NEW n, Listed(f, n, S), NEW g, NEW m, Listed(g, m, S)
    PROVE  n = m /\ f = g
<1>1. ASSUME NEW a, NEW k, Listed(a, k, S) PROVE k = Cardinality(S)
  <2>1. \A x, y \in 1..k : x # y => a[x] # a[y]
    <3> SUFFICES ASSUME NEW x \in 1..k, NEW y \in 1..k, x # y PROVE a[x] # a[y]
      OBVIOUS
    <3>1. a[x].name \in Nat /\ a[y].name \in Nat
      BY <1>1 DEF Listed, Named
    <3>2. x < y \/ y < x
      BY <1>1 DEF Listed
    <3>3. CASE x < y
      <4>1. a[x].name < a[y].name
        BY <1>1, <3>3 DEF Listed
      <4> QED BY <3>1, <4>1
    <3>4. CASE y < x
      <4>1. a[y].name < a[x].name
        BY <1>1, <3>4 DEF Listed
      <4> QED BY <3>1, <4>1
    <3> QED BY <3>2, <3>3, <3>4
  <2>2. a \in Injection(1..k, S) /\ a \in Surjection(1..k, S)
    BY <1>1, <2>1 DEF Listed, Injection, IsInjective, Surjection
  <2>3. ExistsBijection(1..k, S)
    BY <2>2 DEF ExistsBijection, Bijection
  <2> QED BY <1>1, <2>3, FS_CountingElements DEF Listed
<1>2. n = m
  BY <1>1
<1>3. n \in Nat
  BY DEF Listed
<1> DEFINE T == {k \in 0..n : \A x \in 1..k : f[x] = g[x]}
<1>4. 0 \in T
  BY <1>3
<1>5. ASSUME NEW k \in 1..n, k - 1 \in T PROVE k \in T
  <2>1. f[k] \in S /\ g[k] \in S /\ f[k].name \in Nat /\ g[k].name \in Nat
    BY <1>2, <1>3 DEF Listed, Named
  <2>2. PICK x \in 1..n : g[x] = f[k]
    BY <1>2, <2>1 DEF Listed
  <2>3. PICK y \in 1..n : f[y] = g[k]
    BY <1>2, <2>1 DEF Listed
  <2>4. ~(x < k)
    <3> SUFFICES ASSUME x < k PROVE FALSE
      OBVIOUS
    <3>1. x \in 1..(k - 1)
      BY <1>3
    <3>2. f[x] = f[k]
      BY <1>5, <2>2, <3>1
    <3>3. f[x].name < f[k].name
      BY <3>1, <1>3 DEF Listed
    <3> QED BY <2>1, <3>2, <3>3
  <2>5. ~(y < k)
    <3> SUFFICES ASSUME y < k PROVE FALSE
      OBVIOUS
    <3>1. y \in 1..(k - 1)
      BY <1>3
    <3>2. g[y] = g[k]
      BY <1>5, <2>3, <3>1
    <3>3. g[y].name < g[k].name
      BY <3>1, <1>2, <1>3 DEF Listed
    <3> QED BY <2>1, <3>2, <3>3
  <2>6. x > k => f[k].name > g[k].name
    BY <1>2, <2>1, <2>2 DEF Listed
  <2>7. y > k => g[k].name > f[k].name
    BY <1>2, <2>1, <2>3 DEF Listed
  <2>8. f[k] = g[k]
    BY <1>3, <2>1, <2>2, <2>3, <2>4, <2>5, <2>6, <2>7
  <2>9. \A z \in 1..k : z = k \/ z \in 1..(k - 1)
    BY <1>3
  <2> QED BY <1>5, <2>8, <2>9
<1>6. n \in T
  <2> HIDE DEF T
  <2>1. \A k \in 0..n : k \in T
    BY <1>3, <1>4, <1>5, Upward
  <2> QED BY <1>3, <2>1
<1> QED BY <1>2, <1>6 DEF Listed

(***************************************************************************)
(* The library and its directory.                                          *)
(***************************************************************************)
Library(l) == l \in Seq(LoadMember) /\ ~DuplicateName(l)
MemberSet(l) == {l[x] : x \in DOMAIN l}
Increasing(m) == \A x, y \in DOMAIN m : x < y => m[x].name < m[y].name
Same(m, l) == /\ \A x \in DOMAIN m : \E y \in DOMAIN l : m[x] = l[y]
              /\ \A y \in DOMAIN l : \E x \in DOMAIN m : m[x] = l[y]

LEMMA MemberTyped ==
    ASSUME NEW l \in Seq(LoadMember), NEW x \in DOMAIN l
    PROVE  /\ x \in 1..Len(l) /\ Len(l) \in Nat /\ l[x] \in LoadMember
           /\ l[x].name \in 0..HighName /\ l[x].name \in Nat
           /\ l[x].blocks \in Seq(LoadBlock) /\ Len(l[x].blocks) \in Nat \ {0}
           /\ DOMAIN l[x].blocks = 1..Len(l[x].blocks)
           /\ \A y \in DOMAIN l[x].blocks : l[x].blocks[y].len \in Nat /\ l[x].blocks[y].text \in BOOLEAN
           /\ l[x].aliases \in Seq(0..HighName) /\ DOMAIN l[x].aliases = 1..Len(l[x].aliases)
           /\ \A y \in DOMAIN l[x].aliases : l[x].aliases[y] \in Nat /\ l[x].aliases[y] \in 0..HighName
<1>1. x \in 1..Len(l) /\ Len(l) \in Nat /\ l[x] \in LoadMember
  OBVIOUS
<1>2. /\ l[x].name \in 0..HighName /\ l[x].blocks \in Seq(LoadBlock) /\ l[x].blocks # << >>
      /\ l[x].aliases \in Seq(0..HighName)
  BY <1>1 DEF LoadMember
<1>3. /\ Len(l[x].blocks) \in Nat \ {0} /\ DOMAIN l[x].blocks = 1..Len(l[x].blocks)
      /\ DOMAIN l[x].aliases = 1..Len(l[x].aliases)
  BY <1>2
<1>4. \A y \in DOMAIN l[x].blocks : l[x].blocks[y].len \in Nat /\ l[x].blocks[y].text \in BOOLEAN
  <2>1. \A y \in DOMAIN l[x].blocks : l[x].blocks[y] \in LoadBlock
    BY <1>2
  <2> QED BY <2>1 DEF LoadBlock
<1>5. \A y \in DOMAIN l[x].aliases : l[x].aliases[y] \in 0..HighName
  <2> DEFINE A == 0..HighName
             s == l[x].aliases
  <2>1. s \in Seq(A)
    BY <1>2
  <2>2. \A y \in DOMAIN s : s[y] \in A
    <3> HIDE DEF A, s
    <3> QED BY <2>1
  <2> QED BY <2>2
<1> QED BY <1>1, <1>2, <1>3, <1>4, <1>5, LibrariesAssumption

\* An entry is that of a member or of one of its aliases.
LEMMA EntryOf ==
    ASSUME NEW l, NEW d
    PROVE  d \in DirEnts(l) <=>
             \E x \in DOMAIN l : \/ d = [name |-> l[x].name, mi |-> x, ai |-> 0]
                                 \/ \E y \in DOMAIN l[x].aliases : d = [name |-> l[x].aliases[y], mi |-> x, ai |-> y]
BY DEF DirEnts

LEMMA EntryTyped ==
    ASSUME NEW l \in Seq(LoadMember), NEW d \in DirEnts(l)
    PROVE  /\ d.name \in Nat /\ d.name \in 0..HighName /\ d.mi \in DOMAIN l /\ d.ai \in Nat
           /\ DentLen(d) \in Nat /\ 0 < DentLen(d) /\ DentLen(d) <= 46
           /\ d.ai = 0 => d.name = l[d.mi].name
           /\ d.ai # 0 => d.ai \in DOMAIN l[d.mi].aliases /\ d.name = l[d.mi].aliases[d.ai]
           /\ d = [name |-> d.name, mi |-> d.mi, ai |-> d.ai]
<1>1. PICK x \in DOMAIN l : \/ d = [name |-> l[x].name, mi |-> x, ai |-> 0]
                            \/ \E y \in DOMAIN l[x].aliases : d = [name |-> l[x].aliases[y], mi |-> x, ai |-> y]
  BY EntryOf
<1>2. CASE d = [name |-> l[x].name, mi |-> x, ai |-> 0]
  BY <1>2, MemberTyped DEF DentLen, MEMENT
<1>3. ASSUME NEW y \in DOMAIN l[x].aliases, d = [name |-> l[x].aliases[y], mi |-> x, ai |-> y]
      PROVE  /\ d.name \in Nat /\ d.name \in 0..HighName /\ d.mi \in DOMAIN l /\ d.ai \in Nat
             /\ d.ai # 0 /\ d.ai \in DOMAIN l[d.mi].aliases /\ d.name = l[d.mi].aliases[d.ai]
             /\ d = [name |-> d.name, mi |-> d.mi, ai |-> d.ai]
  <2>1. y \in 1..Len(l[x].aliases) /\ l[x].aliases[y] \in Nat /\ l[x].aliases[y] \in 0..HighName
    BY MemberTyped
  <2> QED BY <1>3, <2>1
<1> QED BY <1>1, <1>2, <1>3 DEF DentLen, MEMENT, ALIASENT

LEMMA FiniteImage ==
    ASSUME NEW S, IsFiniteSet(S), NEW f, DOMAIN f = S
    PROVE  IsFiniteSet({f[x] : x \in S}) /\ Cardinality({f[x] : x \in S}) <= Cardinality(S)
<1> DEFINE T == {f[x] : x \in S}
           g == [x \in S |-> f[x]]
<1>1. g \in Surjection(S, T)
  BY DEF Surjection
<1> HIDE DEF g, T
<1>2. IsFiniteSet(T) /\ Cardinality(T) <= Cardinality(S)
  BY <1>1, FS_Surjection
<1> QED BY <1>2 DEF T

LEMMA EntriesFinite ==
    ASSUME NEW l \in Seq(LoadMember)
    PROVE  IsFiniteSet(DirEnts(l)) /\ IsFiniteSet(MemberSet(l))
<1> DEFINE one(x) == [y \in 0..Len(l[x].aliases) |->
                        [name |-> IF y = 0 THEN l[x].name ELSE l[x].aliases[y], mi |-> x, ai |-> y]]
           ents(x) == {one(x)[y] : y \in 0..Len(l[x].aliases)}
           all == [x \in DOMAIN l |-> ents(x)]
<1>1. ASSUME NEW x \in DOMAIN l PROVE IsFiniteSet(ents(x))
  <2>1. Len(l[x].aliases) \in Nat
    BY MemberTyped
  <2>2. IsFiniteSet(0..Len(l[x].aliases))
    <3>1. \A k \in Nat : IsFiniteSet(0..k)
      BY FS_Interval
    <3> QED BY <2>1, <3>1
  <2>3. DOMAIN one(x) = 0..Len(l[x].aliases)
    OBVIOUS
  <2> HIDE DEF one
  <2> QED BY <2>2, <2>3, FiniteImage
<1>2. IsFiniteSet(DOMAIN l)
  BY FS_Interval
<1>3. IsFiniteSet({all[x] : x \in DOMAIN l})
  <2>1. DOMAIN all = DOMAIN l
    OBVIOUS
  <2> HIDE DEF all
  <2> QED BY <1>2, <2>1, FiniteImage
<1>4. IsFiniteSet(UNION {all[x] : x \in DOMAIN l})
  <2>1. \A T \in {all[x] : x \in DOMAIN l} : IsFiniteSet(T)
    BY <1>1
  <2> HIDE DEF all
  <2> QED BY <1>3, <2>1, FS_UNION
<1>5. DirEnts(l) \subseteq UNION {all[x] : x \in DOMAIN l}
  <2> SUFFICES ASSUME NEW d \in DirEnts(l) PROVE \E x \in DOMAIN l : d \in ents(x)
    <3> HIDE DEF ents
    <3> QED OBVIOUS
  <2>1. PICK x \in DOMAIN l : \/ d = [name |-> l[x].name, mi |-> x, ai |-> 0]
                              \/ \E y \in DOMAIN l[x].aliases : d = [name |-> l[x].aliases[y], mi |-> x, ai |-> y]
    BY EntryOf
  <2>2. Len(l[x].aliases) \in Nat /\ DOMAIN l[x].aliases = 1..Len(l[x].aliases)
    BY MemberTyped
  <2>3. CASE d = [name |-> l[x].name, mi |-> x, ai |-> 0]
    <3>1. d = one(x)[0] /\ 0 \in 0..Len(l[x].aliases)
      BY <2>2, <2>3
    <3> QED BY <3>1
  <2>4. ASSUME NEW y \in DOMAIN l[x].aliases, d = [name |-> l[x].aliases[y], mi |-> x, ai |-> y]
        PROVE  d \in ents(x)
    <3>1. y \in 0..Len(l[x].aliases) /\ y # 0
      BY <2>2
    <3>2. d = one(x)[y]
      BY <2>4, <3>1
    <3> QED BY <3>1, <3>2
  <2> QED BY <2>1, <2>3, <2>4
<1>6. IsFiniteSet(DirEnts(l))
  <2> HIDE DEF all
  <2> QED BY <1>4, <1>5, FS_Subset
<1>7. IsFiniteSet(MemberSet(l))
  <2>1. IsFiniteSet({l[x] : x \in DOMAIN l})
    BY <1>2, FiniteImage
  <2> QED BY <2>1 DEF MemberSet
<1> QED BY <1>6, <1>7

\* A library that is not refused has every name once.
LEMMA NamesOnce ==
    ASSUME NEW l, Library(l)
    PROVE  /\ Named(DirEnts(l)) /\ Named(MemberSet(l))
           /\ \A x, y \in DOMAIN l : l[x].name = l[y].name => x = y
<1>0. l \in Seq(LoadMember) /\ ~DuplicateName(l)
  BY DEF Library
<1> DEFINE E == DirEnts(l)
           f == [d \in E |-> d.name]
           T == {d.name : d \in E}
<1>1. IsFiniteSet(E)
  BY <1>0, EntriesFinite
<1>2. f \in Surjection(E, T)
  <2> HIDE DEF E
  <2> QED BY DEF Surjection
<1>3. Cardinality(T) <= Cardinality(E) /\ (Cardinality(T) = Cardinality(E) => f \in Injection(E, T)) /\ IsFiniteSet(T)
  <2> HIDE DEF E, f, T
  <2> QED BY <1>1, <1>2, FS_Surjection
<1>4. ~(Cardinality(T) < Cardinality(E))
  BY <1>0 DEF DuplicateName
<1>5. Cardinality(T) \in Nat /\ Cardinality(E) \in Nat
  <2> HIDE DEF E, T
  <2> QED BY <1>1, <1>3, FS_CardinalityType
<1>6. f \in Injection(E, T)
  <2> HIDE DEF E, T, f
  <2> QED BY <1>3, <1>4, <1>5
<1>7. \A d, e \in E : d.name = e.name => d = e
  <2> HIDE DEF E, T
  <2> QED BY <1>6 DEF Injection, IsInjective
<1>8. Named(E)
  BY <1>0, <1>1, <1>7, EntryTyped DEF Named
<1>9. ASSUME NEW x \in DOMAIN l, NEW y \in DOMAIN l, l[x].name = l[y].name PROVE x = y
  <2> DEFINE d == [name |-> l[x].name, mi |-> x, ai |-> 0]
             e == [name |-> l[y].name, mi |-> y, ai |-> 0]
  <2>1. d \in E /\ e \in E
    BY EntryOf
  <2>2. d = e
    <3>1. d.name = e.name
      BY <1>9
    <3> HIDE DEF d, e, E
    <3> QED BY <1>7, <2>1, <3>1
  <2> QED BY <2>2
<1>10. Named(MemberSet(l))
  <2>1. IsFiniteSet(MemberSet(l))
    BY <1>0, EntriesFinite
  <2>2. \A d \in MemberSet(l) : d.name \in Nat
    BY <1>0, MemberTyped DEF MemberSet
  <2>3. ASSUME NEW d \in MemberSet(l), NEW e \in MemberSet(l), d.name = e.name PROVE d = e
    BY <1>9, <2>3 DEF MemberSet
  <2> QED BY <2>1, <2>2, <2>3 DEF Named
<1> QED BY <1>8, <1>9, <1>10

\* What emit_unload's sort makes of a library.
LEMMA Sorting ==
    ASSUME NEW l, Library(l), NEW m, m = SortedByName(MemberSet(l))
    PROVE  /\ m \in Seq(LoadMember) /\ Increasing(m) /\ Same(m, l)
           /\ Len(m) = Cardinality(MemberSet(l)) /\ Len(m) = Len(l) /\ Named(DirEnts(m))
           /\ \A x, y \in DOMAIN m : m[x].name = m[y].name => x = y
<1> DEFINE S == MemberSet(l)
           n == Cardinality(S)
<1>1. l \in Seq(LoadMember) /\ Named(S) /\ \A x, y \in DOMAIN l : l[x].name = l[y].name => x = y
  BY NamesOnce DEF Library
<1>2. Listed(m, n, S)
  BY <1>1, SortLists
<1>3. S \subseteq LoadMember /\ \A d \in S : \E x \in DOMAIN l : d = l[x]
  BY <1>1, MemberTyped DEF MemberSet
<1>4. n \in Nat /\ m \in [1..n -> S]
  BY <1>2 DEF Listed
<1>5. m \in Seq(LoadMember) /\ Len(m) = n /\ DOMAIN m = 1..n
  <2> HIDE DEF n, S
  <2> QED BY <1>3, <1>4
<1>6. Increasing(m)
  BY <1>2, <1>5 DEF Listed, Increasing
<1>7. Same(m, l)
  <2>1. \A x \in DOMAIN m : \E y \in DOMAIN l : m[x] = l[y]
    <3> HIDE DEF n, S
    <3> QED BY <1>3, <1>4
  <2>2. \A y \in DOMAIN l : \E x \in DOMAIN m : m[x] = l[y]
    <3>1. \A y \in DOMAIN l : l[y] \in S
      BY DEF MemberSet
    <3> HIDE DEF n, S
    <3> QED BY <1>2, <1>5, <3>1 DEF Listed
  <2> QED BY <2>1, <2>2 DEF Same
<1>8. ASSUME NEW x \in DOMAIN m, NEW y \in DOMAIN m, m[x].name = m[y].name PROVE x = y
  <2>1. m[x].name \in Nat /\ m[y].name \in Nat /\ x \in Nat /\ y \in Nat
    BY <1>5, MemberTyped
  <2>2. ~(x < y) /\ ~(y < x)
    BY <1>6, <1>8, <2>1 DEF Increasing
  <2> QED BY <2>1, <2>2
<1>9. n = Len(l)
  <2>1. l \in Injection(1..Len(l), S) /\ l \in Surjection(1..Len(l), S)
    <3>1. l \in [1..Len(l) -> S] /\ DOMAIN l = 1..Len(l)
      BY <1>1 DEF MemberSet
    <3>2. \A x, y \in 1..Len(l) : l[x] = l[y] => x = y
      BY <1>1, <3>1
    <3>3. \A d \in S : \E x \in 1..Len(l) : l[x] = d
      BY <1>3, <3>1
    <3> HIDE DEF S
    <3> QED BY <3>1, <3>2, <3>3 DEF Injection, IsInjective, Surjection
  <2>2. ExistsBijection(1..Len(l), S)
    BY <2>1 DEF ExistsBijection, Bijection
  <2>3. Len(l) \in Nat
    BY <1>1
  <2> QED BY <2>2, <2>3, FS_CountingElements
<1>10. Named(DirEnts(m))
  <2>1. IsFiniteSet(DirEnts(m)) /\ \A d \in DirEnts(m) : d.name \in Nat
    BY <1>5, EntriesFinite, EntryTyped
  <2>2. ASSUME NEW d \in DirEnts(m), NEW e \in DirEnts(m), d.name = e.name PROVE d = e
    <3>1. PICK x \in DOMAIN l : m[d.mi] = l[x]
      BY <1>5, <1>7, EntryTyped DEF Same
    <3>2. PICK y \in DOMAIN l : m[e.mi] = l[y]
      BY <1>5, <1>7, EntryTyped DEF Same
    <3> DEFINE dd == [name |-> d.name, mi |-> x, ai |-> d.ai]
               ee == [name |-> e.name, mi |-> y, ai |-> e.ai]
    <3>3. dd \in DirEnts(l)
      <4>1. CASE d.ai = 0
        BY <1>5, <3>1, <4>1, EntryTyped, EntryOf
      <4>2. CASE d.ai # 0
        BY <1>5, <3>1, <4>2, EntryTyped, EntryOf
      <4> QED BY <4>1, <4>2
    <3>4. ee \in DirEnts(l)
      <4>1. CASE e.ai = 0
        BY <1>5, <3>2, <4>1, EntryTyped, EntryOf
      <4>2. CASE e.ai # 0
        BY <1>5, <3>2, <4>2, EntryTyped, EntryOf
      <4> QED BY <4>1, <4>2
    <3>5. dd = ee
      <4>1. dd.name = ee.name
        BY <2>2
      <4>2. Named(DirEnts(l))
        BY NamesOnce
      <4> HIDE DEF dd, ee
      <4> QED BY <3>3, <3>4, <4>1, <4>2 DEF Named
    <3>6. x = y /\ d.ai = e.ai
      BY <3>5
    <3>7. d.mi = e.mi
      <4>1. d.mi \in DOMAIN m /\ e.mi \in DOMAIN m
        BY <1>5, EntryTyped
      <4> QED BY <1>8, <3>1, <3>2, <3>6, <4>1
    <3> QED BY <1>5, <2>2, <3>6, <3>7, EntryTyped
  <2> QED BY <2>1, <2>2 DEF Named
<1> QED BY <1>5, <1>6, <1>7, <1>8, <1>9, <1>10

(***************************************************************************)
(* Directory blocks.                                                       *)
(***************************************************************************)
BlkUse == [blk : Nat, used : Nat]
\* What dir_layout does with one entry of n bytes.
Filed(b, n) == IF b.used + n > DirBlk THEN [blk |-> b.blk + 1, used |-> 2 + n]
               ELSE [b EXCEPT !.used = @ + n]

Sized(d) == Len(d) \in Nat /\ \A x \in 1..Len(d) : DentLen(d[x]) \in Nat /\ 0 < DentLen(d[x]) /\ DentLen(d[x]) <= 46

LEMMA BlocksAre ==
    ASSUME NEW d, Sized(d)
    PROVE  /\ Blocks(d) \in [0..Len(d) -> BlkUse]
           /\ Blocks(d)[0] = [blk |-> 0, used |-> 2]
           /\ \A x \in 1..Len(d) : Blocks(d)[x] = Filed(Blocks(d)[x - 1], DentLen(d[x]))
<1> DEFINE N == Len(d)
           first0 == [blk |-> 0, used |-> 2]
           F(e) == [x \in 0..N |-> IF x = 0 THEN first0 ELSE Filed(e[x - 1], DentLen(d[x]))]
           h == [x \in 1..N |-> [p \in BlkUse |-> Filed(p, DentLen(d[x]))]]
<1>1. N \in Nat
  BY DEF Sized
<1>2. first0 \in BlkUse
  BY DEF BlkUse
<1>3. ASSUME NEW x \in 1..N, NEW p \in BlkUse PROVE Filed(p, DentLen(d[x])) \in BlkUse
  <2>1. DentLen(d[x]) \in Nat /\ p.blk \in Nat /\ p.used \in Nat /\ p = [blk |-> p.blk, used |-> p.used]
    BY DEF Sized, BlkUse
  <2> QED BY <2>1 DEF Filed, BlkUse
<1>4. h \in [1..N -> [BlkUse -> BlkUse]]
  BY <1>3
<1> HIDE DEF first0
<1>5. PICK f : Follows(f, N, BlkUse, first0, h)
  <2> HIDE DEF h, N
  <2> QED BY <1>1, <1>2, <1>4, Recursion
<1>6. f = F(f)
  <2>1. f \in [0..N -> BlkUse] /\ f[0] = first0
    BY <1>5 DEF Follows
  <2>2. ASSUME NEW x \in 1..N PROVE f[x] = Filed(f[x - 1], DentLen(d[x]))
    <3>1. f[x] = h[x][f[x - 1]] /\ f[x - 1] \in BlkUse
      <4> HIDE DEF h
      <4> QED BY <1>1, <1>5, <2>1 DEF Follows
    <3> QED BY <3>1
  <2> QED BY <1>1, <2>1, <2>2
<1>7. Blocks(d) = CHOOSE e : e = F(e)
  BY Zenon DEF Blocks, Filed, first0
<1> DEFINE P == Blocks(d)
<1>8. P = F(P)
  <2> HIDE DEF F, P
  <2>1. P = CHOOSE e : e = F(e)
    BY <1>7 DEF P
  <2> QED BY <1>6, <2>1
<1> HIDE DEF P
<1>9. \A x \in 0..N : P[x] = IF x = 0 THEN first0 ELSE Filed(P[x - 1], DentLen(d[x]))
  BY <1>8
<1> HIDE DEF h, N
<1>10. P \in [0..N -> BlkUse]
  <2> DEFINE T == {x \in 0..N : P[x] \in BlkUse}
  <2>1. \A x \in 0..N : x \in T
    <3>1. 0 \in T
      BY <1>1, <1>2, <1>9
    <3>2. ASSUME NEW x \in 1..N, x - 1 \in T PROVE x \in T
      <4>1. P[x - 1] \in BlkUse /\ x \in 0..N /\ x # 0
        BY <1>1, <3>2
      <4>2. P[x] = Filed(P[x - 1], DentLen(d[x]))
        BY <1>9, <4>1
      <4>3. P[x] \in BlkUse
        BY <1>3, <4>1, <4>2
      <4> QED BY <4>1, <4>3
    <3> HIDE DEF T
    <3> QED BY <1>1, <3>1, <3>2, Upward
  <2>2. P = [x \in 0..N |-> P[x]]
    BY <1>8 DEF F
  <2> QED BY <2>1, <2>2
<1>11. \A x \in 1..N : P[x] = Filed(P[x - 1], DentLen(d[x]))
  BY <1>1, <1>9
<1> QED BY <1>1, <1>9, <1>10, <1>11 DEF P, first0, N

LEMMA EntriesSized ==
    ASSUME NEW m \in Seq(LoadMember), Named(DirEnts(m)), NEW d, d = SortedByName(DirEnts(m))
    PROVE  /\ Sized(d) /\ Len(d) = Cardinality(DirEnts(m)) /\ DOMAIN d = 1..Len(d)
           /\ \A x \in 1..Len(d) : d[x] \in DirEnts(m)
           /\ Listed(d, Len(d), DirEnts(m))
           /\ BlockCount(d) \in Nat \ {0}
<1> DEFINE n == Cardinality(DirEnts(m))
           E == DirEnts(m)
<1>1. Listed(d, n, E)
  BY SortLists
<1>2. n \in Nat /\ d \in [1..n -> E]
  BY <1>1 DEF Listed
<1>3. Len(d) = n /\ DOMAIN d = 1..n
  <2> HIDE DEF n, E
  <2>1. d \in Seq(E)
    BY <1>2
  <2> QED BY <1>2, <2>1
<1>4. \A x \in 1..Len(d) : d[x] \in E
  BY <1>2, <1>3
<1>5. Sized(d)
  BY <1>2, <1>3, <1>4, EntryTyped DEF Sized
<1>6. BlockCount(d) \in Nat \ {0}
  <2>1. Blocks(d)[Len(d)] \in BlkUse
    BY <1>2, <1>3, <1>5, BlocksAre
  <2> QED BY <2>1 DEF BlockCount, BlkUse
<1> QED BY <1>1, <1>3, <1>4, <1>5, <1>6

(***************************************************************************)
(* The invariant: the library, where its records go, what is written.      *)
(***************************************************************************)
LibInv ==
    /\ lib \in Libraries /\ lib \in Seq(LoadMember)
    /\ pc \in {"size", "sort", "assign", "data", "frame", "done", "refused"}
    /\ pc \in {"size", "sort"} => mem = lib
    /\ pc \notin {"size", "refused"} => Library(lib)
    /\ pc \in {"assign", "data", "frame", "done"} => mem = SortedByName(MemberSet(lib))

nb(x) == Len(mem[x].blocks)
BlkLen(p) == IF p[2] = 0 THEN 0 ELSE mem[p[1]].blocks[p[2]].len

\* The records of the members: those before block b of member a, in their order.
Given(a, b) == {p \in (1..Len(mem)) \X Nat :
                  /\ p[2] <= nb(p[1])
                  /\ p[1] < a \/ (p[1] = a /\ p[2] # 0 /\ p[2] < b)}
Precedes(p, o) == \/ p[1] < o[1]
                  \/ p[1] = o[1] /\ p[2] # 0 /\ (o[2] = 0 \/ p[2] < o[2])
Everything == Given(Len(mem) + 1, 1)

CountInv ==
    /\ i \in 1..(Len(mem) + 1) /\ j \in Nat \ {0}
    /\ i <= Len(mem) => j <= nb(i) + 1
    /\ i = Len(mem) + 1 => j = 1

OnTrack(u, p) ==
    /\ at[p] \in Nat \X (1..(RecBase - 1)) /\ u[p] \in Nat /\ u[p] <= TrackLen
    /\ at[p][1] <= tt /\ (at[p][1] = tt => at[p][2] < r /\ u[p] <= trk)
Follow(u, p, o) ==
    \/ at[p][1] < at[o][1]
    \/ at[p][1] = at[o][1] /\ at[p][2] < at[o][2] /\ u[p] + TrackOvh + BlkLen(o) <= u[o]

Placed(u, G) ==
    /\ DOMAIN at = G
    /\ \A p \in G : OnTrack(u, p) /\ TrackOvh + BlkLen(p) <= u[p]
    /\ \A p, o \in G : Precedes(p, o) => Follow(u, p, o)

TrackInv ==
    /\ tt \in Nat /\ r \in Nat \ {0} /\ trk \in Nat /\ trk <= TrackLen
    /\ (r - 1) * TrackOvh <= trk /\ (r = 1 => trk = 0)
    /\ r > 2 => trk <= TrackCap

AssignInv ==
    /\ pc = "assign" => CountInv /\ TrackInv /\ \E u : Placed(u, Given(i, j))
    /\ pc \in {"size", "sort"} => i = 1 /\ j = 1 /\ tt = 0 /\ r = 1 /\ trk = 0 /\ at = << >>
    /\ pc \in {"data", "frame", "done"} => tt \in Nat /\ \E u : Placed(u, Everything)

LEMMA GivenTyped ==
    ASSUME mem \in Seq(LoadMember), NEW a, NEW b, NEW p \in Given(a, b)
    PROVE  /\ p \in (1..Len(mem)) \X Nat /\ p[1] \in 1..Len(mem) /\ p[2] \in Nat /\ p[2] <= nb(p[1])
           /\ nb(p[1]) \in Nat \ {0} /\ BlkLen(p) \in Nat /\ p = <<p[1], p[2]>>
           /\ p[2] # 0 => p[2] \in DOMAIN mem[p[1]].blocks
<1>1. /\ p \in (1..Len(mem)) \X Nat /\ p[1] \in 1..Len(mem) /\ p[2] \in Nat /\ p[2] <= nb(p[1])
      /\ p = <<p[1], p[2]>>
  BY DEF Given
<1>2. p[1] \in DOMAIN mem
  BY <1>1
<1>3. nb(p[1]) \in Nat \ {0} /\ DOMAIN mem[p[1]].blocks = 1..nb(p[1])
      /\ \A y \in DOMAIN mem[p[1]].blocks : mem[p[1]].blocks[y].len \in Nat
  BY <1>2, MemberTyped DEF nb
<1>4. p[2] # 0 => p[2] \in DOMAIN mem[p[1]].blocks
  BY <1>1, <1>3
<1> QED BY <1>1, <1>3, <1>4 DEF BlkLen

\* A record fits a track on its own, and so few fit that a byte numbers them.
LEMMA BlockFits ==
    ASSUME lib \in Libraries, lib \in Seq(LoadMember), Same(mem, lib), NEW x \in DOMAIN mem, NEW y \in DOMAIN mem[x].blocks
    PROVE  mem[x].blocks[y].len <= TrackCap
<1>1. PICK z \in DOMAIN lib : mem[x] = lib[z]
  BY DEF Same
<1> QED BY <1>1, TrackAssumption

LEMMA Quotient ==
    ASSUME NEW a \in Nat, NEW b \in Nat \ {0}, NEW c \in Nat, a * b <= c
    PROVE  a <= c \div b
<1> DEFINE w == c \div b
           e == c % b
<1>1. w \in Nat /\ e \in Nat /\ e < b /\ c = b * w + e
  OBVIOUS
<1> HIDE DEF w, e
<1>2. w < a => b * (w + 1) <= b * a
  BY <1>1
<1>3. b * (w + 1) = b * w + b /\ b * a = a * b
  BY <1>1
<1> QED BY <1>1, <1>2, <1>3 DEF w

LEMMA MemFacts ==
    ASSUME LibInv, pc \in {"assign", "data", "frame", "done"}
    PROVE  /\ Library(lib) /\ lib \in Libraries /\ lib \in Seq(LoadMember) /\ mem = SortedByName(MemberSet(lib))
           /\ mem \in Seq(LoadMember) /\ Increasing(mem) /\ Same(mem, lib) /\ Len(mem) = Len(lib)
           /\ Len(mem) \in Nat /\ DOMAIN mem = 1..Len(mem) /\ Named(DirEnts(mem))
           /\ \A x, y \in DOMAIN mem : mem[x].name = mem[y].name => x = y
           /\ \A x \in 1..Len(mem) : nb(x) \in Nat \ {0} /\ DOMAIN mem[x].blocks = 1..nb(x)
<1>1. Library(lib) /\ lib \in Libraries /\ lib \in Seq(LoadMember) /\ mem = SortedByName(MemberSet(lib))
  BY DEF LibInv
<1>2. /\ mem \in Seq(LoadMember) /\ Increasing(mem) /\ Same(mem, lib) /\ Len(mem) = Len(lib) /\ Named(DirEnts(mem))
      /\ \A x, y \in DOMAIN mem : mem[x].name = mem[y].name => x = y
  BY <1>1, Sorting
<1>3. Len(mem) \in Nat /\ DOMAIN mem = 1..Len(mem)
  BY <1>2
<1>4. \A x \in 1..Len(mem) : nb(x) \in Nat \ {0} /\ DOMAIN mem[x].blocks = 1..nb(x)
  BY <1>2, <1>3, MemberTyped DEF nb
<1> QED BY <1>1, <1>2, <1>3, <1>4

\* NEXT_R: the next record is on the same track behind the last, or on a new one.
LEMMA AssignMove ==
    ASSUME mem' = mem, TrackInv,
           NEW G, NEW u, Placed(u, G), NEW p0, NEW n \in Nat, n <= TrackCap, n = BlkLen(p0),
           p0 = <<i, p0[2]>>, p0 \notin G,
           \A p \in G : Precedes(p, p0) /\ ~Precedes(p0, p) /\ BlkLen(p) \in Nat, ~Precedes(p0, p0),
           Assigned(p0[2], n)
    PROVE  TrackInv' /\ \E w : Placed(w, G \union {p0})'
<1>0. /\ TrackOvh \in Nat \ {0} /\ TrackCap \in Nat /\ TrackLen \in Nat /\ TrackCap + TrackOvh <= TrackLen
      /\ RecBase \in Nat \ {0, 1} /\ RecBase > TrackCap \div TrackOvh
  BY TrackAssumption
<1>1. /\ tt \in Nat /\ r \in Nat \ {0} /\ trk \in Nat /\ trk <= TrackLen /\ (r - 1) * TrackOvh <= trk
      /\ r > 2 => trk <= TrackCap
      /\ r = 1 => trk = 0
  BY DEF TrackInv
<1>2. PICK t, m, k : NextAt(n) = <<t, m, k>> /\ (\/ t = tt + 1 /\ m = 1 /\ k = TrackOvh + n
                                              \/ /\ t = tt /\ m = r /\ k = trk + TrackOvh + n
                                                 /\ r = 1 \/ trk + TrackOvh + n <= TrackCap)
  <2>1. Cap \in Nat /\ Cap <= TrackCap
    BY <1>0 DEF Cap
  <2>2. CASE r > 1 /\ trk + TrackOvh + n > Cap
    BY <2>2 DEF NextAt
  <2>3. CASE ~(r > 1 /\ trk + TrackOvh + n > Cap)
    <3>1. r = 1 \/ trk + TrackOvh + n <= TrackCap
      BY <1>0, <1>1, <2>1, <2>3
    <3>2. NextAt(n) = <<tt, r, trk + TrackOvh + n>>
      BY <2>3 DEF NextAt
    <3> QED BY <3>1, <3>2
  <2> QED BY <2>2, <2>3
<1>3. /\ t \in Nat /\ m \in Nat \ {0} /\ k \in Nat /\ k <= TrackLen /\ m * TrackOvh <= k
      /\ m > 1 => k <= TrackCap
  <2>1. CASE t = tt + 1 /\ m = 1 /\ k = TrackOvh + n
    BY <1>0, <1>1, <2>1
  <2>2. CASE t = tt /\ m = r /\ k = trk + TrackOvh + n /\ (r = 1 \/ trk + TrackOvh + n <= TrackCap)
    <3>1. r * TrackOvh = (r - 1) * TrackOvh + TrackOvh /\ (r - 1) * TrackOvh \in Nat
      BY <1>0, <1>1
    <3> QED BY <1>0, <1>1, <2>2, <3>1
  <2> QED BY <1>2, <2>1, <2>2
<1>4. /\ tt' = t /\ r' = m + 1 /\ trk' = k /\ DOMAIN at' = DOMAIN at \union {p0} /\ at'[p0] = <<t, m>>
      /\ \A p \in DOMAIN at : p # p0 => at'[p] = at[p]
  BY <1>2 DEF Assigned
<1>5. m <= RecBase - 1
  <2>1. CASE m = 1
    BY <1>0, <2>1
  <2>2. CASE m # 1
    <3>1. m * TrackOvh <= TrackCap
      BY <1>0, <1>3, <2>2
    <3>2. m <= TrackCap \div TrackOvh
      BY <1>0, <1>3, <3>1, Quotient
    <3>3. TrackCap \div TrackOvh \in Nat
      BY <1>0
    <3> QED BY <1>0, <1>3, <3>2, <3>3
  <2> QED BY <2>1, <2>2
<1>6. TrackInv'
  BY <1>0, <1>3, <1>4 DEF TrackInv
<1> DEFINE w == [p \in G \union {p0} |-> IF p = p0 THEN k ELSE u[p]]
<1>7. DOMAIN at = G /\ (\A p \in G : OnTrack(u, p) /\ TrackOvh + BlkLen(p) <= u[p])
      /\ \A p, o \in G : Precedes(p, o) => Follow(u, p, o)
  BY DEF Placed
<1>8. \A p : BlkLen(p)' = BlkLen(p)
  BY DEF BlkLen
<1>9. w[p0] = k /\ \A p \in G : w[p] = u[p]
  OBVIOUS
<1>10. \A p \in G : at'[p] = at[p]
  BY <1>4, <1>7
<1> HIDE DEF w
<1>11. ASSUME NEW p \in G PROVE OnTrack(w, p)' /\ TrackOvh + BlkLen(p) <= w[p]
  <2>1. OnTrack(u, p) /\ TrackOvh + BlkLen(p) <= u[p]
    BY <1>7
  <2> QED BY <1>0, <1>1, <1>2, <1>3, <1>4, <1>9, <1>10, <2>1 DEF OnTrack
<1>12. OnTrack(w, p0)' /\ TrackOvh + BlkLen(p0) <= w[p0]
  <2>1. TrackOvh + n <= k
    BY <1>0, <1>1, <1>2
  <2> QED BY <1>0, <1>3, <1>4, <1>5, <1>9, <2>1 DEF OnTrack
<1>13. ASSUME NEW p \in G, NEW o \in G, Precedes(p, o) PROVE Follow(w, p, o)'
  <2>1. Follow(u, p, o)
    BY <1>7, <1>13
  <2> QED BY <1>8, <1>9, <1>10, <2>1 DEF Follow
<1>14. ASSUME NEW p \in G PROVE Follow(w, p, p0)'
  <2>1. OnTrack(u, p)
    BY <1>7
  <2>2. at'[p] = at[p] /\ at'[p0] = <<t, m>> /\ w[p] = u[p] /\ w[p0] = k /\ BlkLen(p0)' = n
    BY <1>4, <1>8, <1>9, <1>10
  <2> QED BY <1>0, <1>1, <1>2, <2>1, <2>2 DEF Follow, OnTrack
<1>15. Placed(w, G \union {p0})'
  <2>1. DOMAIN at' = G \union {p0}
    BY <1>4, <1>7
  <2>2. \A p \in G \union {p0} : OnTrack(w, p)' /\ TrackOvh + BlkLen(p)' <= w[p]
    BY <1>8, <1>11, <1>12
  <2>3. ASSUME NEW p \in G \union {p0}, NEW o \in G \union {p0}, Precedes(p, o) PROVE Follow(w, p, o)'
    BY <1>13, <1>14, <2>3
  <2> QED BY <2>1, <2>2, <2>3 DEF Placed, Precedes
<1> QED BY <1>6, <1>15

\* The next record in order is the next block, or the end of file behind the last.
LEMMA GivenNext ==
    ASSUME mem \in Seq(LoadMember), CountInv, i <= Len(mem)
    PROVE  /\ i \in 1..Len(mem) /\ nb(i) \in Nat \ {0}
           /\ j <= nb(i) => /\ Given(i, j + 1) = Given(i, j) \union {<<i, j>>}
                            /\ <<i, j>> \notin Given(i, j)
                            /\ \A p \in Given(i, j) : Precedes(p, <<i, j>>) /\ ~Precedes(<<i, j>>, p)
           /\ j > nb(i) => /\ Given(i + 1, 1) = Given(i, j) \union {<<i, 0>>}
                           /\ <<i, 0>> \notin Given(i, j)
                           /\ \A p \in Given(i, j) : Precedes(p, <<i, 0>>) /\ ~Precedes(<<i, 0>>, p)
<1>1. i \in 1..Len(mem) /\ Len(mem) \in Nat /\ j \in Nat \ {0} /\ j <= nb(i) + 1
  BY DEF CountInv
<1>2. \A x \in 1..Len(mem) : nb(x) \in Nat \ {0}
  BY MemberTyped DEF nb
<1>3. ASSUME NEW p \in Given(i, j)
      PROVE  p[1] \in Nat /\ p[2] \in Nat /\ (p[1] < i \/ (p[1] = i /\ p[2] # 0 /\ p[2] < j))
  BY DEF Given
<1>4. ASSUME j <= nb(i) PROVE Given(i, j + 1) = Given(i, j) \union {<<i, j>>}
  <2>1. <<i, j>> \in Given(i, j + 1)
    BY <1>1, <1>4 DEF Given
  <2>2. Given(i, j) \subseteq Given(i, j + 1)
    BY <1>1 DEF Given
  <2>3. ASSUME NEW p \in Given(i, j + 1), p # <<i, j>> PROVE p \in Given(i, j)
    BY <1>1, <2>3 DEF Given
  <2> QED BY <2>1, <2>2, <2>3
<1>5. ASSUME j > nb(i) PROVE Given(i + 1, 1) = Given(i, j) \union {<<i, 0>>}
  <2>1. <<i, 0>> \in Given(i + 1, 1)
    BY <1>1, <1>2 DEF Given
  <2>2. Given(i, j) \subseteq Given(i + 1, 1)
    BY <1>1 DEF Given
  <2>3. ASSUME NEW p \in Given(i + 1, 1), p # <<i, 0>> PROVE p \in Given(i, j)
    <3>1. p[1] \in Nat /\ p[2] \in Nat /\ p = <<p[1], p[2]>> /\ p[2] <= nb(p[1]) /\ p[1] < i + 1
      BY <1>1 DEF Given
    <3>2. CASE p[1] = i
      <4>1. p[2] # 0 /\ p[2] < j
        BY <1>1, <1>2, <1>5, <2>3, <3>1, <3>2
      <4> QED BY <2>3, <3>2, <4>1 DEF Given
    <3>3. CASE p[1] # i
      BY <1>1, <2>3, <3>1, <3>3 DEF Given
    <3> QED BY <3>2, <3>3
  <2> QED BY <2>1, <2>2, <2>3
<1>6. <<i, j>> \notin Given(i, j) /\ <<i, 0>> \notin Given(i, j)
  BY <1>1 DEF Given
<1>7. ASSUME NEW p \in Given(i, j)
      PROVE  /\ Precedes(p, <<i, j>>) /\ ~Precedes(<<i, j>>, p)
             /\ Precedes(p, <<i, 0>>) /\ ~Precedes(<<i, 0>>, p)
  BY <1>1, <1>3 DEF Precedes
<1> QED BY <1>1, <1>2, <1>4, <1>5, <1>6, <1>7

LEMMA GivenEnds ==
    ASSUME mem \in Seq(LoadMember)
    PROVE  Given(1, 1) = {} /\ (CountInv /\ i > Len(mem) => Given(i, j) = Everything)
<1>1. Len(mem) \in Nat
  OBVIOUS
<1>2. Given(1, 1) = {}
  BY <1>1 DEF Given
<1>3. ASSUME CountInv, i > Len(mem) PROVE i = Len(mem) + 1 /\ j = 1
  BY <1>1, <1>3 DEF CountInv
<1> QED BY <1>2, <1>3 DEF Everything

\* The counters of the loops over members and blocks.
LEMMA CountMoves ==
    ASSUME mem \in Seq(LoadMember), mem' = mem, CountInv, i <= Len(mem),
           \/ j <= nb(i) /\ i' = i /\ j' = j + 1
           \/ j > nb(i) /\ i' = i + 1 /\ j' = 1
    PROVE  CountInv'
<1>1. Len(mem) \in Nat /\ \A x \in 1..Len(mem) : nb(x) \in Nat \ {0}
  BY MemberTyped DEF nb
<1>2. i \in 1..Len(mem) /\ j \in Nat \ {0} /\ j <= nb(i) + 1 /\ nb(i) \in Nat
  BY <1>1 DEF CountInv
<1>3. \A x : nb(x)' = nb(x)
  BY DEF nb
<1>4. CASE j <= nb(i) /\ i' = i /\ j' = j + 1
  <2>1. nb(i)' = nb(i) /\ i' # Len(mem) + 1
    BY <1>1, <1>2, <1>4 DEF nb
  <2> QED BY <1>1, <1>2, <1>4, <2>1 DEF CountInv, nb
<1>5. CASE j > nb(i) /\ i' = i + 1 /\ j' = 1
  <2>1. i + 1 <= Len(mem) => nb(i + 1) \in Nat
    BY <1>1, <1>2
  <2>2. i' <= Len(mem) => j' <= Len(mem'[i'].blocks) + 1
    BY <1>1, <1>2, <1>5, <2>1 DEF nb
  <2> QED BY <1>1, <1>2, <1>5, <2>2 DEF CountInv, nb
<1> QED BY <1>4, <1>5

LEMMA LibStart ==
    Init => LibInv /\ AssignInv
BY LibrariesAssumption DEF Init, LibInv, AssignInv

LEMMA LibStep ==
    ASSUME LibInv, [Next]_vars
    PROVE  LibInv'
<1>1. lib' = lib /\ (DuplicateName(lib) => DuplicateName(lib)')
  BY DEF Next, vars, Size, Sort, AssignBlock, AssignEof, Directory, EmitBlock, EmitEof, EmitDone,
         FrameHead, FrameBreak, FrameRecord, FrameDone, Done
<1>2. CASE Size
  BY <1>2 DEF Size, LibInv, Library
<1>3. CASE Sort
  BY <1>3 DEF Sort, LibInv, MemberSet
<1>4. CASE \/ AssignBlock \/ AssignEof \/ Directory \/ EmitBlock \/ EmitEof \/ EmitDone
           \/ FrameHead \/ FrameBreak \/ FrameRecord \/ FrameDone \/ Done \/ UNCHANGED vars
  <2>1. mem' = mem /\ (pc' = pc \/ (pc \in {"assign", "data", "frame"} /\ pc' \in {"data", "frame", "done"}))
    BY <1>4 DEF vars, AssignBlock, AssignEof, Directory, EmitBlock, EmitEof, EmitDone,
                FrameHead, FrameBreak, FrameRecord, FrameDone, Done
  <2> QED BY <1>1, <2>1 DEF LibInv
<1> QED BY <1>2, <1>3, <1>4 DEF Next

LEMMA AssignBlockStep ==
    ASSUME LibInv, AssignInv, AssignBlock
    PROVE  AssignInv'
<1>1. /\ pc = "assign" /\ i <= Len(mem) /\ j <= nb(i) /\ Assigned(j, mem[i].blocks[j].len)
      /\ j' = j + 1 /\ i' = i /\ mem' = mem /\ pc' = pc
  BY DEF AssignBlock, nb
<1>2. CountInv /\ TrackInv /\ mem \in Seq(LoadMember) /\ DOMAIN mem = 1..Len(mem)
  BY <1>1, MemFacts DEF AssignInv
<1>3. PICK u : Placed(u, Given(i, j))
  BY <1>1 DEF AssignInv
<1>4. /\ i \in 1..Len(mem) /\ Given(i, j + 1) = Given(i, j) \union {<<i, j>>} /\ <<i, j>> \notin Given(i, j)
      /\ \A p \in Given(i, j) : Precedes(p, <<i, j>>) /\ ~Precedes(<<i, j>>, p)
  BY <1>1, <1>2, GivenNext
<1>5. j \in Nat \ {0} /\ j \in DOMAIN mem[i].blocks
  <2>1. j \in Nat \ {0}
    BY <1>2 DEF CountInv
  <2>2. DOMAIN mem[i].blocks = 1..nb(i) /\ nb(i) \in Nat
    BY <1>2, <1>4, MemberTyped DEF nb
  <2> QED BY <1>1, <2>1, <2>2
<1>6. mem[i].blocks[j].len \in Nat /\ mem[i].blocks[j].len <= TrackCap
  <2>1. mem[i].blocks[j].len \in Nat
    BY <1>2, <1>4, <1>5, MemberTyped
  <2>2. mem[i].blocks[j].len <= TrackCap
    BY <1>1, <1>2, <1>4, <1>5, MemFacts, BlockFits
  <2> QED BY <2>1, <2>2
<1>7. PICK G, p0, n : G = Given(i, j) /\ p0 = <<i, j>> /\ n = mem[i].blocks[j].len
  OBVIOUS
<1>8. p0 = <<i, p0[2]>> /\ n = BlkLen(p0) /\ p0[2] = j
  BY <1>5, <1>7 DEF BlkLen
<1>9. ~Precedes(p0, p0)
  BY <1>4, <1>5, <1>7 DEF Precedes
<1>10. \A p \in G : Precedes(p, p0) /\ ~Precedes(p0, p) /\ BlkLen(p) \in Nat
  BY <1>2, <1>4, <1>7, GivenTyped
<1>11. TrackInv' /\ \E w : Placed(w, G \union {p0})'
  <2>1. Placed(u, G) /\ Assigned(p0[2], n) /\ n \in Nat /\ n <= TrackCap /\ p0 \notin G
    BY <1>1, <1>3, <1>4, <1>6, <1>7, <1>8
  <2> QED BY <1>1, <1>2, <1>8, <1>9, <1>10, <2>1, AssignMove
<1>12. Given(i, j)' = G \union {p0}
  <2>1. Given(i, j)' = Given(i, j + 1)
    BY <1>1 DEF Given, nb
  <2> QED BY <1>4, <1>7, <2>1
<1>13. CountInv'
  BY <1>1, <1>2, CountMoves
<1> QED BY <1>1, <1>11, <1>12, <1>13 DEF AssignInv

LEMMA AssignEofStep ==
    ASSUME LibInv, AssignInv, AssignEof
    PROVE  AssignInv'
<1>1. /\ pc = "assign" /\ i <= Len(mem) /\ j > nb(i) /\ Assigned(0, 0)
      /\ j' = 1 /\ i' = i + 1 /\ mem' = mem /\ pc' = pc
  BY DEF AssignEof, nb
<1>2. CountInv /\ TrackInv /\ mem \in Seq(LoadMember) /\ DOMAIN mem = 1..Len(mem)
  BY <1>1, MemFacts DEF AssignInv
<1>3. PICK u : Placed(u, Given(i, j))
  BY <1>1 DEF AssignInv
<1>4. /\ i \in 1..Len(mem) /\ Given(i + 1, 1) = Given(i, j) \union {<<i, 0>>} /\ <<i, 0>> \notin Given(i, j)
      /\ \A p \in Given(i, j) : Precedes(p, <<i, 0>>) /\ ~Precedes(<<i, 0>>, p)
  BY <1>1, <1>2, GivenNext
<1>7. PICK G, p0 : G = Given(i, j) /\ p0 = <<i, 0>>
  OBVIOUS
<1>8. p0 = <<i, p0[2]>> /\ 0 = BlkLen(p0) /\ p0[2] = 0
  BY <1>7 DEF BlkLen
<1>9. ~Precedes(p0, p0)
  BY <1>4, <1>7 DEF Precedes
<1>10. \A p \in G : Precedes(p, p0) /\ ~Precedes(p0, p) /\ BlkLen(p) \in Nat
  BY <1>2, <1>4, <1>7, GivenTyped
<1>11. TrackInv' /\ \E w : Placed(w, G \union {p0})'
  <2>1. 0 <= TrackCap
    BY TrackAssumption
  <2> QED BY <1>1, <1>2, <1>3, <1>4, <1>7, <1>8, <1>9, <1>10, <2>1, AssignMove
<1>12. Given(i, j)' = G \union {p0}
  <2>1. Given(i, j)' = Given(i + 1, 1)
    BY <1>1 DEF Given, nb
  <2> QED BY <1>4, <1>7, <2>1
<1>13. CountInv'
  BY <1>1, <1>2, CountMoves
<1> QED BY <1>1, <1>11, <1>12, <1>13 DEF AssignInv

LEMMA AssignStep ==
    ASSUME LibInv, AssignInv, [Next]_vars
    PROVE  AssignInv'
<1>1. CASE Size
  BY <1>1 DEF Size, AssignInv
<1>2. CASE Sort
  <2>1. pc' # "assign" => AssignInv'
    BY <1>2 DEF Sort, AssignInv
  <2>2. ASSUME pc' = "assign" PROVE AssignInv'
    <3>1. LibInv'
      BY <1>2, LibStep DEF Next
    <3>2. mem' \in Seq(LoadMember) /\ Len(mem') \in Nat /\ \A x \in 1..Len(mem') : nb(x)' \in Nat \ {0}
      <4>1. Library(lib') /\ mem' = SortedByName(MemberSet(lib'))
        BY <2>2, <3>1 DEF LibInv, Library, DuplicateName, DirEnts, MemberSet, SortedByName
      <4>2. mem' \in Seq(LoadMember)
        BY <4>1, Sorting
      <4> QED BY <4>2, MemberTyped DEF nb
    <3>3. i' = 1 /\ j' = 1 /\ tt' = 0 /\ r' = 1 /\ trk' = 0 /\ at' = << >>
      BY <1>2 DEF Sort, AssignInv
    <3>4. Given(i, j)' = {}
      BY <3>2, <3>3 DEF Given
    <3>5. Placed(<< >>, {})'
      BY <3>3 DEF Placed
    <3>6. CountInv'
      BY <3>2, <3>3 DEF CountInv
    <3>7. TrackInv'
      BY <3>3, TrackAssumption DEF TrackInv
    <3> QED BY <2>2, <3>4, <3>5, <3>6, <3>7 DEF AssignInv
  <2> QED BY <2>1, <2>2
<1>3. CASE AssignBlock
  BY <1>3, AssignBlockStep
<1>4. CASE AssignEof
  BY <1>4, AssignEofStep
<1>5. CASE Directory
  <2>1. /\ pc = "assign" /\ i > Len(mem) /\ pc' = "data" /\ mem' = mem /\ tt' = tt /\ r' = r /\ trk' = trk /\ at' = at
    BY <1>5 DEF Directory
  <2>2. PICK u : Placed(u, Given(i, j))
    BY <2>1 DEF AssignInv
  <2>3. Given(i, j) = Everything /\ tt \in Nat
    BY <2>1, MemFacts, GivenEnds DEF AssignInv, TrackInv
  <2>4. PICK G : G = Everything
    OBVIOUS
  <2>5. Placed(u, G)' /\ Everything' = G
    <3>1. Placed(u, G)
      BY <2>2, <2>3, <2>4
    <3> QED BY <2>1, <2>4, <3>1 DEF Placed, OnTrack, Follow, BlkLen, Everything, Given, nb, Precedes
  <2> QED BY <2>1, <2>3, <2>5 DEF AssignInv
<1>6. CASE \/ EmitBlock \/ EmitEof \/ EmitDone
           \/ FrameHead \/ FrameBreak \/ FrameRecord \/ FrameDone \/ Done \/ UNCHANGED vars
  <2>1. mem' = mem /\ tt' = tt /\ r' = r /\ trk' = trk /\ at' = at
        /\ (\/ pc \in {"data", "frame", "done"} /\ pc' \in {"data", "frame", "done"}
            \/ pc = pc' /\ (i' = i /\ j' = j))
    BY <1>6 DEF vars, EmitBlock, EmitEof, EmitDone, FrameHead, FrameBreak, FrameRecord, FrameDone, Done
  <2>2. CASE pc \in {"data", "frame", "done"} /\ pc' \in {"data", "frame", "done"}
    <3>1. PICK u, G : G = Everything /\ Placed(u, G)
      BY <2>2 DEF AssignInv
    <3>2. Placed(u, G)' /\ Everything' = G
      BY <2>1, <3>1 DEF Placed, OnTrack, Follow, BlkLen, Everything, Given, nb, Precedes
    <3> QED BY <2>1, <2>2, <3>2 DEF AssignInv
  <2>3. CASE pc = pc' /\ (i' = i /\ j' = j)
    <3>1. pc' = "assign" => AssignInv'
      <4> SUFFICES ASSUME pc' = "assign" PROVE AssignInv'
        OBVIOUS
      <4>1. PICK u, G : G = Given(i, j) /\ Placed(u, G)
        BY <2>3 DEF AssignInv
      <4>2. Placed(u, G)' /\ Given(i, j)' = G
        BY <2>1, <2>3, <4>1 DEF Placed, OnTrack, Follow, BlkLen, Given, nb, Precedes
      <4>3. CountInv' /\ TrackInv'
        BY <2>1, <2>3 DEF AssignInv, CountInv, TrackInv, nb
      <4> QED BY <4>2, <4>3 DEF AssignInv
    <3>2. pc' # "assign" => AssignInv'
      <4> SUFFICES ASSUME pc' # "assign", pc' \notin {"data", "frame", "done"} PROVE AssignInv'
        BY <2>2, <2>3
      <4> QED BY <2>1, <2>3 DEF AssignInv
    <3> QED BY <3>1, <3>2
  <2> QED BY <2>1, <2>2, <2>3
<1> QED BY <1>1, <1>2, <1>3, <1>4, <1>5, <1>6 DEF Next

(***************************************************************************)
(* The image and its frames.                                               *)
(***************************************************************************)
IsSeq(s) == \E S : s \in Seq(S)

LEMMA Extended ==
    ASSUME NEW s, IsSeq(s), NEW e
    PROVE  /\ IsSeq(Append(s, e)) /\ Len(s) \in Nat /\ DOMAIN s = 1..Len(s)
           /\ Len(Append(s, e)) = Len(s) + 1 /\ DOMAIN Append(s, e) = 1..(Len(s) + 1)
           /\ \A x \in 1..Len(s) : Append(s, e)[x] = s[x]
           /\ Append(s, e)[Len(s) + 1] = e
<1>1. PICK S : s \in Seq(S)
  BY DEF IsSeq
<1>2. s \in Seq(S \union {e}) /\ e \in S \union {e}
  BY <1>1
<1> DEFINE T == S \union {e}
<1> HIDE DEF T
<1>3. s \in Seq(T) /\ e \in T
  BY <1>2 DEF T
<1>4. Append(s, e) \in Seq(T)
  BY <1>3
<1> QED BY <1>3, <1>4 DEF IsSeq

LEMMA Short ==
    ASSUME NEW a, NEW b
    PROVE  /\ IsSeq(<< >>) /\ Len(<< >>) = 0
           /\ IsSeq(<<a>>) /\ Len(<<a>>) = 1 /\ DOMAIN <<a>> = 1..1 /\ <<a>>[1] = a
           /\ IsSeq(<<a, b>>) /\ Len(<<a, b>>) = 2 /\ DOMAIN <<a, b>> = 1..2 /\ <<a, b>>[1] = a /\ <<a, b>>[2] = b
<1>1. << >> \in Seq({}) /\ <<a>> \in Seq({a}) /\ <<a, b>> \in Seq({a, b})
  OBVIOUS
<1>2. IsSeq(<< >>) /\ IsSeq(<<a>>) /\ IsSeq(<<a, b>>)
  BY <1>1, Zenon DEF IsSeq
<1>3. DOMAIN <<a>> = 1..1 /\ DOMAIN <<a, b>> = 1..2
  OBVIOUS
<1> QED BY <1>2, <1>3

Heads(s, a, b, e, n, f) ==
    /\ IsSeq(s) /\ Len(s) = n + 3 /\ s[1] = a /\ s[2] = b /\ s[n + 3] = e
    /\ \A k \in 1..n : s[2 + k] = f[k]

LEMMA Header ==
    ASSUME NEW a, NEW b, NEW e, NEW n \in Nat, NEW S, NEW f \in [1..n -> S],
           NEW s, s = <<a, b>> \o f \o <<e>>
    PROVE  Heads(s, a, b, e, n, f)
<1> DEFINE T == S \union {a, b, e}
<1>1. a \in T /\ b \in T /\ e \in T /\ f \in [1..n -> T]
  OBVIOUS
<1> HIDE DEF T
<1>2. f \in Seq(T) /\ Len(f) = n /\ <<a, b>> \in Seq(T) /\ <<e>> \in Seq(T)
  BY <1>1
<1> DEFINE h == <<a, b>> \o f
<1>3. h \in Seq(T) /\ Len(h) = n + 2 /\ h[1] = a /\ h[2] = b /\ \A k \in 1..n : h[2 + k] = f[k]
  BY <1>2
<1> HIDE DEF h
<1>4. /\ h \o <<e>> \in Seq(T) /\ Len(h \o <<e>>) = n + 3 /\ (h \o <<e>>)[n + 3] = e
      /\ \A k \in 1..(n + 2) : (h \o <<e>>)[k] = h[k]
  BY <1>2, <1>3
<1>5. \A k \in 1..n : 2 + k \in 1..(n + 2)
  OBVIOUS
<1>6. (h \o <<e>>)[1] = a /\ (h \o <<e>>)[2] = b /\ \A k \in 1..n : (h \o <<e>>)[2 + k] = f[k]
  BY <1>3, <1>4, <1>5
<1> QED BY <1>4, <1>6 DEF Heads, IsSeq, h

Dir == SortedByName(DirEnts(mem))
HeadLen == 3 + BlockCount(Dir)
RecordOf(o) == DataRecord(IF o[2] = 0 THEN "eof" ELSE "data", o[1], o[2], BlkLen(o))
Earlier(a, b) == \/ a.name < b.name
                 \/ a.name = b.name /\ a.block # 0 /\ (b.block = 0 \/ a.block < b.block)

\* The image holds the header and directory, and the records G in their order.
Written(G) ==
    /\ IsSeq(image) /\ Len(image) >= HeadLen
    /\ image[1].kind = "env" /\ image[2].kind = "env" /\ image[2].tracks = ExtentTracks
    /\ \A b \in 1..BlockCount(Dir) : image[2 + b] = DirRecord(Dir, b - 1)
    /\ image[HeadLen].kind = "eod"
    /\ \A p \in (HeadLen + 1)..Len(image) : \E o \in G : image[p] = RecordOf(o)
    /\ \A p, s \in (HeadLen + 1)..Len(image) : p < s => Earlier(image[p], image[s])
    /\ \A o \in G : \E p \in (HeadLen + 1)..Len(image) : image[p] = RecordOf(o)

ImageInv ==
    /\ pc = "data" => CountInv /\ Written(Given(i, j))
    /\ pc \in {"frame", "done"} => Written(Everything)

Holds(p) == \E z \in DOMAIN frames : \E y \in DOMAIN frames[z] : frames[z][y] = p /\ ~Lost(frames[z], y)

Framed ==
    /\ q \in 1..(Len(image) + 1) /\ q # HeadLen
    /\ IsSeq(chunk) /\ \A y \in 1..Len(chunk) : chunk[y] \in 1..(q - 1) /\ image[chunk[y]].kind = "data"
    /\ IsSeq(frames)
    /\ \A z \in 1..Len(frames) : IsSeq(frames[z]) /\ \A y \in 1..Len(frames[z]) : frames[z][y] \in 1..(q - 1)
    /\ \A p \in 1..(q - 1) : Holds(p) \/ \E y \in 1..Len(chunk) : chunk[y] = p

FrameInv ==
    /\ pc \notin {"frame", "done"} => q = 1 /\ chunk = << >> /\ frames = << >>
    /\ pc \in {"frame", "done"} => Framed
    /\ pc = "done" => q = Len(image) + 1 /\ chunk = << >>

UnloadInv == LibInv /\ AssignInv /\ ImageInv /\ FrameInv

LEMMA HeadTyped ==
    ASSUME LibInv, pc \in {"assign", "data", "frame", "done"}
    PROVE  BlockCount(Dir) \in Nat \ {0} /\ HeadLen \in Nat /\ HeadLen >= 4
<1>1. BlockCount(Dir) \in Nat \ {0}
  BY MemFacts, EntriesSized DEF Dir
<1> QED BY <1>1 DEF HeadLen

\* The order of the records is the order of their members' names.
LEMMA NamedOrder ==
    ASSUME LibInv, pc \in {"assign", "data", "frame", "done"},
           NEW o \in Everything, NEW p \in Everything
    PROVE  /\ RecordOf(o).name = mem[o[1]].name /\ RecordOf(o).block = o[2] /\ RecordOf(o).name \in Nat
           /\ RecordOf(o).kind = (IF o[2] = 0 THEN "eof" ELSE "data")
           /\ RecordOf(o).len = 12 + BlkLen(o) /\ BlkLen(o) \in Nat /\ o[2] \in Nat
           /\ Precedes(o, p) <=> Earlier(RecordOf(o), RecordOf(p))
           /\ o = p \/ Precedes(o, p) \/ Precedes(p, o)
           /\ RecordOf(o).name = RecordOf(p).name /\ RecordOf(o).block = RecordOf(p).block => o = p
<1>1. mem \in Seq(LoadMember) /\ Increasing(mem) /\ DOMAIN mem = 1..Len(mem)
      /\ \A x, y \in DOMAIN mem : mem[x].name = mem[y].name => x = y
  BY MemFacts
<1>2. /\ o[1] \in 1..Len(mem) /\ o[2] \in Nat /\ o = <<o[1], o[2]>> /\ BlkLen(o) \in Nat
      /\ p[1] \in 1..Len(mem) /\ p[2] \in Nat /\ p = <<p[1], p[2]>>
  BY <1>1, GivenTyped DEF Everything
<1>3. mem[o[1]].name \in Nat /\ mem[p[1]].name \in Nat
  BY <1>1, <1>2, MemberTyped
<1>4. /\ RecordOf(o).name = mem[o[1]].name /\ RecordOf(o).block = o[2]
      /\ RecordOf(p).name = mem[p[1]].name /\ RecordOf(p).block = p[2]
      /\ RecordOf(o).kind = (IF o[2] = 0 THEN "eof" ELSE "data") /\ RecordOf(o).len = 12 + BlkLen(o)
  BY DEF RecordOf, DataRecord
<1>5. /\ o[1] < p[1] <=> mem[o[1]].name < mem[p[1]].name
      /\ o[1] = p[1] <=> mem[o[1]].name = mem[p[1]].name
  <2>1. o[1] < p[1] => mem[o[1]].name < mem[p[1]].name
    BY <1>1, <1>2 DEF Increasing
  <2>2. p[1] < o[1] => mem[p[1]].name < mem[o[1]].name
    BY <1>1, <1>2 DEF Increasing
  <2> QED BY <1>1, <1>2, <1>3, <2>1, <2>2
<1>6. Precedes(o, p) <=> Earlier(RecordOf(o), RecordOf(p))
  BY <1>4, <1>5 DEF Precedes, Earlier
<1>7. o = p \/ Precedes(o, p) \/ Precedes(p, o)
  BY <1>2 DEF Precedes
<1> QED BY <1>2, <1>3, <1>4, <1>5, <1>6, <1>7

LEMMA Unmoved ==
    ASSUME mem' = mem, at' = at, tt' = tt
    PROVE  /\ Dir' = Dir /\ BlockCount(Dir)' = BlockCount(Dir) /\ HeadLen' = HeadLen /\ ExtentTracks' = ExtentTracks
           /\ \A b : DirRecord(Dir, b)' = DirRecord(Dir, b)
           /\ \A o : RecordOf(o)' = RecordOf(o)
           /\ Everything' = Everything
<1>1. Dir' = Dir
  BY DEF Dir
<1>2. BlockCount(Dir)' = BlockCount(Dir) /\ HeadLen' = HeadLen
  BY <1>1 DEF HeadLen
<1>3. ExtentTracks' = ExtentTracks
  BY DEF ExtentTracks
<1>4. \A d : DirEntry(d)' = DirEntry(d)
  BY DEF DirEntry, FirstAt, TextAt
<1>5. \A b : DirRecord(Dir, b)' = DirRecord(Dir, b)
  BY <1>1, <1>4 DEF DirRecord
<1>6. \A o : RecordOf(o)' = RecordOf(o)
  BY DEF RecordOf, DataRecord, BlkLen
<1>7. Everything' = Everything
  BY DEF Everything, Given, nb
<1> QED BY <1>1, <1>2, <1>3, <1>5, <1>6, <1>7

LEMMA EmitMove ==
    ASSUME LibInv, pc = "data", mem' = mem, at' = at, tt' = tt, NEW G, Written(G), NEW p0 \in Everything,
           G \subseteq Everything, \A o \in G : Precedes(o, p0), image' = Append(image, RecordOf(p0))
    PROVE  Written(G \union {p0})'
<1>1. /\ IsSeq(image) /\ Len(image) >= HeadLen
      /\ image[1].kind = "env" /\ image[2].kind = "env" /\ image[2].tracks = ExtentTracks
      /\ \A b \in 1..BlockCount(Dir) : image[2 + b] = DirRecord(Dir, b - 1)
      /\ image[HeadLen].kind = "eod"
      /\ \A p \in (HeadLen + 1)..Len(image) : \E o \in G : image[p] = RecordOf(o)
      /\ \A p, s \in (HeadLen + 1)..Len(image) : p < s => Earlier(image[p], image[s])
      /\ \A o \in G : \E p \in (HeadLen + 1)..Len(image) : image[p] = RecordOf(o)
  BY DEF Written
<1>2. BlockCount(Dir) \in Nat \ {0} /\ HeadLen \in Nat /\ HeadLen >= 4 /\ HeadLen = 3 + BlockCount(Dir)
  BY HeadTyped DEF HeadLen
<1>3. /\ IsSeq(image') /\ Len(image) \in Nat /\ Len(image') = Len(image) + 1
      /\ \A x \in 1..Len(image) : image'[x] = image[x]
      /\ image'[Len(image) + 1] = RecordOf(p0)
  BY <1>1, Extended
<1>4. /\ Dir' = Dir /\ BlockCount(Dir)' = BlockCount(Dir) /\ HeadLen' = HeadLen /\ ExtentTracks' = ExtentTracks
      /\ \A b : DirRecord(Dir, b)' = DirRecord(Dir, b)
      /\ \A o : RecordOf(o)' = RecordOf(o)
  BY Unmoved
<1>5. \A b \in 1..BlockCount(Dir) : 2 + b \in 1..Len(image)
  BY <1>1, <1>2, <1>3
<1>6. \A b \in 1..BlockCount(Dir)' : image'[2 + b] = DirRecord(Dir, b - 1)'
  BY <1>1, <1>3, <1>4, <1>5
<1>7. /\ image'[1].kind = "env" /\ image'[2].kind = "env" /\ image'[2].tracks = ExtentTracks'
      /\ image'[HeadLen'].kind = "eod" /\ Len(image') >= HeadLen'
  BY <1>1, <1>2, <1>3, <1>4
<1>8. \A p \in (HeadLen + 1)..Len(image') : p \in (HeadLen + 1)..Len(image) \/ p = Len(image) + 1
  BY <1>1, <1>2, <1>3
<1>9. \A p \in (HeadLen + 1)..Len(image) : image'[p] = image[p] /\ p \in (HeadLen + 1)..Len(image') /\ p < Len(image) + 1
  BY <1>1, <1>2, <1>3
<1>10. \A p \in (HeadLen + 1)..Len(image') : \E o \in G \union {p0} : image'[p] = RecordOf(o)'
  <2> SUFFICES ASSUME NEW p \in (HeadLen + 1)..Len(image') PROVE \E o \in G \union {p0} : image'[p] = RecordOf(o)
    BY <1>4
  <2>1. CASE p \in (HeadLen + 1)..Len(image)
    <3>1. image'[p] = image[p]
      BY <1>9, <2>1
    <3>2. PICK o \in G : image[p] = RecordOf(o)
      BY <1>1, <2>1
    <3> QED BY <3>1, <3>2
  <2>2. CASE p = Len(image) + 1
    BY <1>3, <2>2
  <2> QED BY <1>8, <2>1, <2>2
<1>11. ASSUME NEW p \in (HeadLen + 1)..Len(image'), NEW s \in (HeadLen + 1)..Len(image'), p < s
       PROVE  Earlier(image'[p], image'[s])
  <2>1. p \in (HeadLen + 1)..Len(image)
    BY <1>1, <1>2, <1>3, <1>8, <1>11
  <2>2. CASE s \in (HeadLen + 1)..Len(image)
    BY <1>1, <1>9, <1>11, <2>1, <2>2
  <2>3. CASE s = Len(image) + 1
    <3>1. PICK o \in G : image[p] = RecordOf(o)
      BY <1>1, <2>1
    <3>2. Earlier(RecordOf(o), RecordOf(p0))
      BY <3>1, NamedOrder
    <3> QED BY <1>3, <1>9, <2>1, <2>3, <3>1, <3>2
  <2> QED BY <1>8, <2>2, <2>3
<1>12. ASSUME NEW o \in G \union {p0} PROVE \E p \in (HeadLen + 1)..Len(image') : image'[p] = RecordOf(o)'
  <2>1. CASE o \in G
    <3>1. PICK p \in (HeadLen + 1)..Len(image) : image[p] = RecordOf(o)
      BY <1>1, <2>1
    <3> QED BY <1>4, <1>9, <3>1
  <2>2. CASE o = p0
    <3>1. Len(image) + 1 \in (HeadLen + 1)..Len(image')
      BY <1>1, <1>2, <1>3
    <3> QED BY <1>3, <1>4, <2>2, <3>1
  <2> QED BY <2>1, <2>2
<1> QED BY <1>3, <1>4, <1>6, <1>7, <1>10, <1>11, <1>12, ZenonT(40) DEF Written, Earlier

LEMMA GivenWithin ==
    ASSUME mem \in Seq(LoadMember), NEW a, NEW b
    PROVE  Given(a, b) \subseteq Everything
<1>1. Len(mem) \in Nat
  OBVIOUS
<1> QED BY <1>1 DEF Given, Everything

LEMMA EmitStep ==
    ASSUME LibInv, ImageInv, EmitBlock \/ EmitEof
    PROVE  ImageInv'
<1>1. /\ pc = "data" /\ i <= Len(mem) /\ pc' = pc /\ mem' = mem /\ at' = at /\ tt' = tt
      /\ \/ j <= nb(i) /\ image' = Append(image, DataRecord("data", i, j, mem[i].blocks[j].len)) /\ i' = i /\ j' = j + 1
         \/ j > nb(i) /\ image' = Append(image, DataRecord("eof", i, 0, 0)) /\ i' = i + 1 /\ j' = 1
  BY DEF EmitBlock, EmitEof, nb
<1>2. CountInv /\ Written(Given(i, j)) /\ mem \in Seq(LoadMember)
  BY <1>1, MemFacts DEF ImageInv
<1>3. CountInv'
  BY <1>1, <1>2, CountMoves
<1>4. PICK G : G = Given(i, j)
  OBVIOUS
<1>5. PICK p0 : p0 = IF j <= nb(i) THEN <<i, j>> ELSE <<i, 0>>
  OBVIOUS
<1>6. j \in Nat \ {0} /\ nb(i) \in Nat
  BY <1>1, <1>2, GivenNext DEF CountInv
<1>7. image' = Append(image, RecordOf(p0))
  BY <1>1, <1>5, <1>6 DEF RecordOf, BlkLen
<1>8. Given(i, j)' = G \union {p0} /\ \A o \in G : Precedes(o, p0)
  <2>1. CASE j <= nb(i)
    <3>1. Given(i, j)' = Given(i, j + 1)
      BY <1>1, <1>6, <2>1 DEF Given, nb
    <3> QED BY <1>1, <1>2, <1>4, <1>5, <2>1, <3>1, GivenNext
  <2>2. CASE j > nb(i)
    <3>1. Given(i, j)' = Given(i + 1, 1)
      BY <1>1, <1>6, <2>2 DEF Given, nb
    <3>2. p0 = <<i, 0>>
      BY <1>5, <1>6, <2>2
    <3> QED BY <1>1, <1>2, <1>4, <2>2, <3>1, <3>2, GivenNext
  <2> QED BY <1>6, <2>1, <2>2
<1>9. G \subseteq Everything
  BY <1>2, <1>4, GivenWithin
<1>10. p0 \in Everything
  <2>1. i \in 1..Len(mem) /\ Len(mem) \in Nat
    BY <1>1, <1>2, GivenNext
  <2> QED BY <1>5, <1>6, <2>1 DEF Everything, Given
<1>11. Written(G \union {p0})'
  BY <1>1, <1>2, <1>4, <1>7, <1>8, <1>9, <1>10, EmitMove
<1> QED BY <1>1, <1>3, <1>8, <1>11 DEF ImageInv

LEMMA DirectoryStep ==
    ASSUME LibInv, AssignInv, Directory
    PROVE  ImageInv'
<1>1. /\ pc = "assign" /\ i > Len(mem) /\ pc' = "data" /\ i' = 1 /\ j' = 1 /\ mem' = mem /\ tt' = tt /\ at' = at
  BY DEF Directory
<1> DEFINE n == BlockCount(Dir)
           f == [b \in 1..n |-> DirRecord(Dir, b - 1)]
           e1 == [kind |-> "env", len |-> COPYR1LEN]
           e2 == [kind |-> "env", len |-> COPYR2LEN, tracks |-> ExtentTracks]
           e3 == [kind |-> "eod", len |-> 12]
<1>2. image' = <<e1, e2>> \o f \o <<e3>>
  BY DEF Directory, Dir
<1>3. n \in Nat \ {0} /\ HeadLen = n + 3
  BY <1>1, HeadTyped DEF HeadLen
<1>4. f \in [1..n -> {f[b] : b \in 1..n}]
  OBVIOUS
<1>5. e1.kind = "env" /\ e2.kind = "env" /\ e2.tracks = ExtentTracks /\ e3.kind = "eod"
  OBVIOUS
<1>6. \A b \in 1..n : f[b] = DirRecord(Dir, b - 1)
  OBVIOUS
<1> HIDE DEF n, f, e1, e2, e3
<1>7. /\ IsSeq(image') /\ Len(image') = n + 3 /\ image'[1] = e1 /\ image'[2] = e2 /\ image'[n + 3] = e3
      /\ \A k \in 1..n : image'[2 + k] = f[k]
  <2>1. n \in Nat
    BY <1>3
  <2>2. PICK S : f \in [1..n -> S]
    BY <1>4
  <2>3. Heads(image', e1, e2, e3, n, f)
    BY <1>2, <2>1, <2>2, Header
  <2> QED BY <2>3 DEF Heads
<1>8. /\ Dir' = Dir /\ BlockCount(Dir)' = n /\ HeadLen' = HeadLen /\ ExtentTracks' = ExtentTracks
      /\ \A b : DirRecord(Dir, b)' = DirRecord(Dir, b)
  BY <1>1, Unmoved DEF n
<1>9. Written({})'
  <2>1. \A b \in 1..n : image'[2 + b] = DirRecord(Dir, b - 1)'
    BY <1>6, <1>7, <1>8
  <2>2. (HeadLen' + 1)..Len(image') = {}
    BY <1>3, <1>7, <1>8
  <2> QED BY <1>3, <1>5, <1>7, <1>8, <2>1, <2>2 DEF Written
<1>10. mem \in Seq(LoadMember)
  BY <1>1, MemFacts
<1>11. Given(i, j)' = {}
  BY <1>1, <1>10, GivenEnds DEF Given, nb
<1>12. CountInv'
  <2>1. Len(mem) \in Nat /\ \A x \in 1..Len(mem) : nb(x) \in Nat \ {0}
    BY <1>10, MemberTyped DEF nb
  <2> QED BY <1>1, <2>1 DEF CountInv, nb
<1> QED BY <1>1, <1>9, <1>11, <1>12 DEF ImageInv

LEMMA ImageStep ==
    ASSUME LibInv, AssignInv, ImageInv, [Next]_vars
    PROVE  ImageInv'
<1>1. CASE Size \/ Sort \/ AssignBlock \/ AssignEof
  BY <1>1 DEF Size, Sort, AssignBlock, AssignEof, ImageInv
<1>2. CASE Directory
  BY <1>2, DirectoryStep
<1>3. CASE EmitBlock \/ EmitEof
  BY <1>3, EmitStep
<1>4. CASE \/ EmitDone \/ FrameHead \/ FrameBreak \/ FrameRecord \/ FrameDone \/ Done \/ UNCHANGED vars
  <2>1. /\ mem' = mem /\ at' = at /\ tt' = tt /\ image' = image /\ i' = i /\ j' = j
        /\ \/ pc' = pc
           \/ pc = "data" /\ i > Len(mem) /\ pc' = "frame"
           \/ pc = "frame" /\ pc' = "done"
    BY <1>4 DEF vars, EmitDone, FrameHead, FrameBreak, FrameRecord, FrameDone, Done
  <2>2. ASSUME NEW G, Written(G) PROVE Written(G)'
    <3>1. /\ Dir' = Dir /\ BlockCount(Dir)' = BlockCount(Dir) /\ HeadLen' = HeadLen /\ ExtentTracks' = ExtentTracks
          /\ \A b : DirRecord(Dir, b)' = DirRecord(Dir, b)
          /\ \A o : RecordOf(o)' = RecordOf(o)
      BY <2>1, Unmoved
    <3>2. /\ IsSeq(image') /\ Len(image') >= HeadLen'
          /\ image'[1].kind = "env" /\ image'[2].kind = "env" /\ image'[2].tracks = ExtentTracks'
          /\ image'[HeadLen'].kind = "eod"
      BY <2>1, <2>2, <3>1 DEF Written
    <3>3. \A b \in 1..BlockCount(Dir)' : image'[2 + b] = DirRecord(Dir, b - 1)'
      BY <2>1, <2>2, <3>1 DEF Written
    <3>4. /\ \A p \in (HeadLen' + 1)..Len(image') : \E o \in G : image'[p] = RecordOf(o)'
          /\ \A o \in G : \E p \in (HeadLen' + 1)..Len(image') : image'[p] = RecordOf(o)'
      BY <2>1, <2>2, <3>1 DEF Written
    <3>5. \A p, s \in (HeadLen' + 1)..Len(image') : p < s => Earlier(image'[p], image'[s])
      BY <2>1, <2>2, <3>1 DEF Written
    <3> QED BY <3>2, <3>3, <3>4, <3>5 DEF Written, Earlier
  <2>3. Given(i, j)' = Given(i, j) /\ Everything' = Everything /\ (CountInv => CountInv')
    BY <2>1 DEF Everything, Given, nb, CountInv
  <2>4. PICK G, E : G = Given(i, j) /\ E = Everything
    OBVIOUS
  <2>5. CASE pc' = pc
    <3>1. pc = "data" => CountInv' /\ Written(G)'
      BY <2>2, <2>3, <2>4 DEF ImageInv
    <3>2. pc \in {"frame", "done"} => Written(E)'
      BY <2>2, <2>4 DEF ImageInv
    <3> QED BY <2>3, <2>4, <2>5, <3>1, <3>2 DEF ImageInv
  <2>6. CASE pc = "data" /\ i > Len(mem) /\ pc' = "frame"
    <3>1. Written(G) /\ CountInv
      BY <2>4, <2>6 DEF ImageInv
    <3>2. G = E
      BY <2>4, <2>6, <3>1, MemFacts, GivenEnds
    <3>3. Written(E)'
      BY <2>2, <3>1, <3>2
    <3> QED BY <2>3, <2>4, <2>6, <3>3 DEF ImageInv
  <2>7. CASE pc = "frame" /\ pc' = "done"
    <3>1. Written(E)'
      BY <2>2, <2>4, <2>7 DEF ImageInv
    <3> QED BY <2>3, <2>4, <2>7, <3>1 DEF ImageInv
  <2> QED BY <2>1, <2>5, <2>6, <2>7
<1> QED BY <1>1, <1>2, <1>3, <1>4 DEF Next

LEMMA KindAt ==
    ASSUME LibInv, pc \in {"frame", "done"}, Written(Everything), NEW p \in 1..Len(image)
    PROVE  /\ Len(image) \in Nat /\ HeadLen \in Nat /\ HeadLen >= 4 /\ HeadLen <= Len(image)
           /\ p <= 2 => image[p].kind = "env"
           /\ p > 2 /\ p < HeadLen => image[p].kind = "dir" /\ image[p] = DirRecord(Dir, p - 3) /\ p - 2 \in 1..BlockCount(Dir)
           /\ p = HeadLen => image[p].kind = "eod"
           /\ p > HeadLen => p \in (HeadLen + 1)..Len(image) /\ image[p].kind \in {"data", "eof"}
<1>1. BlockCount(Dir) \in Nat \ {0} /\ HeadLen \in Nat /\ HeadLen >= 4 /\ HeadLen = 3 + BlockCount(Dir)
  BY HeadTyped DEF HeadLen
<1>2. Len(image) \in Nat /\ HeadLen <= Len(image)
  BY <1>1, Extended DEF Written
<1>3. p <= 2 => image[p].kind = "env"
  BY <1>2 DEF Written
<1>4. ASSUME p > 2, p < HeadLen PROVE image[p].kind = "dir" /\ image[p] = DirRecord(Dir, p - 3) /\ p - 2 \in 1..BlockCount(Dir)
  <2>1. p - 2 \in 1..BlockCount(Dir) /\ 2 + (p - 2) = p /\ (p - 2) - 1 = p - 3
    BY <1>1, <1>2, <1>4
  <2>2. image[p] = DirRecord(Dir, p - 3)
    BY <2>1 DEF Written
  <2>3. DirRecord(Dir, p - 3).kind = "dir"
    BY DEF DirRecord
  <2> QED BY <2>1, <2>2, <2>3
<1>5. p = HeadLen => image[p].kind = "eod"
  BY DEF Written
<1>6. ASSUME p > HeadLen PROVE p \in (HeadLen + 1)..Len(image) /\ image[p].kind \in {"data", "eof"}
  <2>1. p \in (HeadLen + 1)..Len(image)
    BY <1>1, <1>2, <1>6
  <2>2. PICK o \in Everything : image[p] = RecordOf(o)
    BY <2>1 DEF Written
  <2> QED BY <2>1, <2>2, NamedOrder
<1> QED BY <1>1, <1>2, <1>3, <1>4, <1>5, <1>6

LEMMA FrameMove ==
    ASSUME image' = image, IsSeq(frames), NEW f, IsSeq(f), frames' = Append(frames, f)
    PROVE  /\ IsSeq(frames)' /\ Len(frames)' = Len(frames) + 1 /\ Len(frames) \in Nat
           /\ \A z \in 1..Len(frames) : frames'[z] = frames[z]
           /\ frames'[Len(frames) + 1] = f
           /\ \A p : Holds(p) => Holds(p)'
           /\ \A y \in 1..Len(f) : ~Lost(f, y) => Holds(f[y])'
<1>1. /\ IsSeq(frames') /\ Len(frames') = Len(frames) + 1 /\ Len(frames) \in Nat
      /\ \A z \in 1..Len(frames) : frames'[z] = frames[z]
      /\ frames'[Len(frames) + 1] = f /\ DOMAIN frames = 1..Len(frames) /\ DOMAIN frames' = 1..(Len(frames) + 1)
  BY Extended
<1>2. \A g, y : Lost(g, y)' = Lost(g, y)
  BY DEF Lost
<1>3. ASSUME NEW p, Holds(p) PROVE Holds(p)'
  <2>1. PICK z \in DOMAIN frames : \E y \in DOMAIN frames[z] : frames[z][y] = p /\ ~Lost(frames[z], y)
    BY <1>3 DEF Holds
  <2>2. z \in DOMAIN frames' /\ frames'[z] = frames[z]
    BY <1>1
  <2>3. PICK y \in DOMAIN frames[z] : frames[z][y] = p /\ ~Lost(frames[z], y)
    BY <2>1
  <2>4. PICK g : g = frames[z]
    OBVIOUS
  <2>5. ~Lost(g, y)' /\ frames'[z] = g
    BY <1>2, <2>2, <2>3, <2>4
  <2>6. ~Lost(frames[z], y)'
    BY <2>5 DEF Lost
  <2> QED BY <2>2, <2>3, <2>4, <2>5, <2>6 DEF Holds
<1>4. ASSUME NEW y \in 1..Len(f), ~Lost(f, y) PROVE Holds(f[y])'
  <2>1. PICK p, m : p = f[y] /\ m = Len(frames) + 1
    OBVIOUS
  <2>2. m \in DOMAIN frames' /\ frames'[m] = f /\ y \in DOMAIN frames'[m] /\ frames'[m][y] = p
    BY <1>1, <2>1, Extended
  <2>3. ~Lost(frames[m], y)'
    BY <1>4, <2>2 DEF Lost
  <2> QED BY <2>1, <2>2, <2>3 DEF Holds
<1> QED BY <1>1, <1>3, <1>4

LEMMA FrameHeadStep ==
    ASSUME LibInv, ImageInv, FrameInv, FrameHead
    PROVE  FrameInv'
<1>1. /\ pc = "frame" /\ pc' = pc /\ image' = image /\ mem' = mem /\ at' = at /\ tt' = tt /\ chunk' = chunk
      /\ q <= Len(image) /\ image[q].kind \in {"env", "dir"}
  BY DEF FrameHead
<1>2. Framed /\ Written(Everything)
  BY <1>1 DEF FrameInv, ImageInv
<1>3. q \in 1..Len(image) /\ q # HeadLen /\ IsSeq(frames) /\ IsSeq(chunk)
  BY <1>1, <1>2, Extended DEF Framed, Written
<1>4. Len(image) \in Nat /\ HeadLen \in Nat /\ HeadLen >= 4 /\ HeadLen <= Len(image) /\ q < HeadLen
  BY <1>1, <1>2, <1>3, KindAt
<1>5. image[q + 1].kind = "eod" <=> q + 1 = HeadLen
  <2>1. q + 1 \in 1..Len(image)
    BY <1>3, <1>4
  <2> QED BY <1>1, <1>2, <1>3, <1>4, <2>1, KindAt
<1>6. PICK f : f = IF q + 1 = HeadLen THEN <<q, q + 1>> ELSE <<q>>
  OBVIOUS
<1>7. frames' = Append(frames, f) /\ q' = (IF q + 1 = HeadLen THEN q + 2 ELSE q + 1)
  BY <1>5, <1>6 DEF FrameHead
<1>8. /\ IsSeq(f) /\ f[1] = q /\ 1 \in 1..Len(f)
      /\ q + 1 = HeadLen => Len(f) = 2 /\ f[2] = q + 1
      /\ q + 1 # HeadLen => Len(f) = 1
  BY <1>6, Short
<1>9. HeadLen' = HeadLen
  BY <1>1, Unmoved
<1>10. /\ IsSeq(frames)' /\ Len(frames)' = Len(frames) + 1 /\ Len(frames) \in Nat
       /\ \A z \in 1..Len(frames) : frames'[z] = frames[z]
       /\ frames'[Len(frames) + 1] = f
       /\ \A p : Holds(p) => Holds(p)'
       /\ \A y \in 1..Len(f) : ~Lost(f, y) => Holds(f[y])'
  BY <1>1, <1>3, <1>7, <1>8, FrameMove
<1>11. ~Lost(f, 1) /\ (q + 1 = HeadLen => ~Lost(f, 2))
  <2>1. ~Lost(f, 1)
    BY DEF Lost
  <2>2. ASSUME q + 1 = HeadLen PROVE ~Lost(f, 2)
    <3>1. image[f[2]].kind = "eod" /\ image[f[1]].kind # "eof"
      BY <1>1, <1>5, <1>8, <2>2
    <3>2. \A y \in 1..(2 - 1) : y = 1
      OBVIOUS
    <3> QED BY <3>1, <3>2 DEF Lost
  <2> QED BY <2>1, <2>2
<1>12. PICK k : k = q
  OBVIOUS
<1>13. Holds(k)' /\ (k + 1 = HeadLen => Holds(k + 1)')
  <2>1. Holds(k)'
    BY <1>8, <1>10, <1>11, <1>12
  <2>2. ASSUME k + 1 = HeadLen PROVE Holds(k + 1)'
    <3>1. 2 \in 1..Len(f) /\ f[2] = k + 1
      BY <1>8, <1>12, <2>2
    <3> QED BY <1>10, <1>11, <1>12, <2>2, <3>1
  <2> QED BY <2>1, <2>2
<1>14. \A z \in 1..Len(frames) : IsSeq(frames[z]) /\ \A y \in 1..Len(frames[z]) : frames[z][y] \in 1..(q - 1)
  BY <1>2 DEF Framed
<1>15. \A z \in 1..Len(frames)' : IsSeq(frames'[z]) /\ \A y \in 1..Len(frames'[z]) : frames'[z][y] \in 1..(q' - 1)
  <2> SUFFICES ASSUME NEW z \in 1..(Len(frames) + 1)
               PROVE  IsSeq(frames'[z]) /\ \A y \in 1..Len(frames'[z]) : frames'[z][y] \in 1..(q' - 1)
    BY <1>10
  <2>1. CASE z = Len(frames) + 1
    <3>1. \A y \in 1..Len(f) : f[y] \in 1..(q' - 1)
      BY <1>3, <1>4, <1>7, <1>8
    <3> QED BY <1>8, <1>10, <2>1, <3>1
  <2>2. CASE z \in 1..Len(frames)
    BY <1>3, <1>4, <1>7, <1>10, <1>14, <2>2
  <2> QED BY <1>10, <2>1, <2>2
<1>16. \A p \in 1..(q' - 1) : Holds(p)' \/ \E y \in 1..Len(chunk') : chunk'[y] = p
  <2> SUFFICES ASSUME NEW p \in 1..(q' - 1) PROVE Holds(p)' \/ \E y \in 1..Len(chunk) : chunk[y] = p
    BY <1>1
  <2>1. p \in 1..(q - 1) \/ p = k \/ (p = k + 1 /\ k + 1 = HeadLen)
    BY <1>3, <1>4, <1>7, <1>12
  <2>2. CASE p \in 1..(q - 1)
    <3>1. Holds(p) \/ \E y \in 1..Len(chunk) : chunk[y] = p
      BY <1>2, <2>2 DEF Framed
    <3> QED BY <1>10, <3>1
  <2> QED BY <1>13, <2>1, <2>2
<1>17. \A y \in 1..Len(chunk') : chunk'[y] \in 1..(q' - 1) /\ image'[chunk'[y]].kind = "data"
  <2>1. \A y \in 1..Len(chunk) : chunk[y] \in 1..(q - 1) /\ image[chunk[y]].kind = "data"
    BY <1>2 DEF Framed
  <2> QED BY <1>1, <1>3, <1>4, <1>7, <2>1
<1>18. q' \in 1..(Len(image') + 1) /\ q' # HeadLen'
  BY <1>1, <1>3, <1>4, <1>7, <1>9
<1> QED BY <1>1, <1>3, <1>10, <1>15, <1>16, <1>17, <1>18 DEF FrameInv, Framed

\* Nothing behind data is lost, and an end of file is the last of its frame.
LEMMA ChunkKept ==
    ASSUME NEW f, NEW n \in Nat, \A y \in 1..(n - 1) : image[f[y]].kind = "data", NEW x \in 1..n
    PROVE  ~Lost(f, x)
<1>1. \A y \in 1..(x - 1) : y \in 1..(n - 1)
  OBVIOUS
<1> QED BY <1>1 DEF Lost

LEMMA FrameBreakStep ==
    ASSUME LibInv, ImageInv, FrameInv, FrameBreak \/ FrameDone
    PROVE  FrameInv'
<1>1. /\ pc = "frame" /\ image' = image /\ mem' = mem /\ at' = at /\ tt' = tt /\ q' = q /\ chunk' = << >>
      /\ \/ pc' = "frame" /\ frames' = Append(frames, chunk)
         \/ pc' = "done" /\ q > Len(image) /\ frames' = (IF chunk = << >> THEN frames ELSE Append(frames, chunk))
  BY DEF FrameBreak, FrameDone
<1>2. /\ q \in 1..(Len(image) + 1) /\ q # HeadLen /\ IsSeq(frames) /\ IsSeq(chunk)
      /\ \A y \in 1..Len(chunk) : chunk[y] \in 1..(q - 1) /\ image[chunk[y]].kind = "data"
      /\ \A z \in 1..Len(frames) : IsSeq(frames[z]) /\ \A y \in 1..Len(frames[z]) : frames[z][y] \in 1..(q - 1)
      /\ \A p \in 1..(q - 1) : Holds(p) \/ \E y \in 1..Len(chunk) : chunk[y] = p
      /\ Len(image) \in Nat
  BY <1>1, Extended DEF FrameInv, Framed, ImageInv, Written
<1>3. HeadLen' = HeadLen /\ IsSeq(chunk') /\ Len(chunk') = 0
  BY <1>1, Unmoved, Short
<1>4. IsSeq(frames') /\ (\A z \in 1..Len(frames') : IsSeq(frames'[z]) /\ \A y \in 1..Len(frames'[z]) : frames'[z][y] \in 1..(q - 1))
      /\ \A p \in 1..(q - 1) : Holds(p)'
  <2>1. CASE frames' = Append(frames, chunk)
    <3>1. PICK f : f = chunk
      OBVIOUS
    <3>2. /\ IsSeq(frames)' /\ Len(frames)' = Len(frames) + 1 /\ Len(frames) \in Nat
          /\ \A z \in 1..Len(frames) : frames'[z] = frames[z]
          /\ frames'[Len(frames) + 1] = f
          /\ \A p : Holds(p) => Holds(p)'
          /\ \A y \in 1..Len(f) : ~Lost(f, y) => Holds(f[y])'
      BY <1>1, <1>2, <2>1, <3>1, FrameMove
    <3>3. \A z \in 1..Len(frames') : z \in 1..Len(frames) \/ z = Len(frames) + 1
      BY <3>2
    <3>4. \A z \in 1..Len(frames') : IsSeq(frames'[z]) /\ \A y \in 1..Len(frames'[z]) : frames'[z][y] \in 1..(q - 1)
      BY <1>2, <3>1, <3>2, <3>3
    <3>5. ASSUME NEW p \in 1..(q - 1) PROVE Holds(p)'
      <4>1. CASE Holds(p)
        BY <3>2, <4>1
      <4>2. ASSUME NEW y \in 1..Len(f), f[y] = p PROVE Holds(p)'
        <5>1. Len(f) \in Nat /\ \A w \in 1..(Len(f) - 1) : image[f[w]].kind = "data"
          BY <1>2, <3>1, Extended
        <5>2. ~Lost(f, y)
          BY <5>1, ChunkKept
        <5> QED BY <3>2, <4>2, <5>2
      <4> QED BY <1>2, <3>1, <4>1, <4>2
    <3> QED BY <3>2, <3>4, <3>5
  <2>2. CASE frames' = frames /\ chunk = << >>
    <3>1. \A p \in 1..(q - 1) : Holds(p)
      BY <1>2, <2>2, Short
    <3>2. \A p : Holds(p) => Holds(p)'
      BY <1>1, <2>2 DEF Holds, Lost
    <3> QED BY <1>2, <2>2, <3>1, <3>2
  <2> QED BY <1>1, <2>1, <2>2
<1>5. Framed'
  BY <1>1, <1>2, <1>3, <1>4 DEF Framed
<1>6. pc' = "done" => q' = Len(image') + 1
  BY <1>1, <1>2
<1> QED BY <1>1, <1>5, <1>6 DEF FrameInv

LEMMA FrameRecordStep ==
    ASSUME LibInv, ImageInv, FrameInv, FrameRecord
    PROVE  FrameInv'
<1>1. /\ pc = "frame" /\ pc' = pc /\ image' = image /\ mem' = mem /\ at' = at /\ tt' = tt /\ q' = q + 1
      /\ q <= Len(image) /\ image[q].kind \in {"data", "eof"}
      /\ \/ frames' = Append(frames, Append(chunk, q)) /\ chunk' = << >>
         \/ image[q].kind = "data" /\ frames' = frames /\ chunk' = Append(chunk, q)
  BY DEF FrameRecord, EndsFrame
<1>2. /\ q \in 1..(Len(image) + 1) /\ q # HeadLen /\ IsSeq(frames) /\ IsSeq(chunk)
      /\ \A y \in 1..Len(chunk) : chunk[y] \in 1..(q - 1) /\ image[chunk[y]].kind = "data"
      /\ \A z \in 1..Len(frames) : IsSeq(frames[z]) /\ \A y \in 1..Len(frames[z]) : frames[z][y] \in 1..(q - 1)
      /\ \A p \in 1..(q - 1) : Holds(p) \/ \E y \in 1..Len(chunk) : chunk[y] = p
      /\ Len(image) \in Nat /\ Written(Everything)
  BY <1>1, Extended DEF FrameInv, Framed, ImageInv, Written
<1>3. q \in 1..Len(image) /\ HeadLen \in Nat /\ HeadLen < q
  <2>1. q \in 1..Len(image)
    BY <1>1, <1>2
  <2> QED BY <1>1, <1>2, <2>1, KindAt
<1>4. HeadLen' = HeadLen /\ q' \in 1..(Len(image') + 1) /\ q' # HeadLen'
  BY <1>1, <1>2, <1>3, Unmoved
<1>5. PICK c, k : c = Append(chunk, q) /\ k = q
  OBVIOUS
<1>6. /\ IsSeq(c) /\ Len(chunk) \in Nat /\ Len(c) = Len(chunk) + 1 /\ c[Len(chunk) + 1] = k
      /\ \A y \in 1..Len(chunk) : c[y] = chunk[y]
  BY <1>2, <1>5, Extended
<1>7. \A y \in 1..Len(c) : y \in 1..Len(chunk) \/ y = Len(chunk) + 1
  BY <1>6
<1>8. \A y \in 1..Len(c) : c[y] \in 1..q
  BY <1>2, <1>3, <1>5, <1>6, <1>7
<1>9. \A p \in 1..(q' - 1) : p \in 1..(q - 1) \/ p = k
  BY <1>1, <1>3, <1>5
<1>10. CASE frames' = Append(frames, c) /\ chunk' = << >>
  <2>1. /\ IsSeq(frames)' /\ Len(frames)' = Len(frames) + 1 /\ Len(frames) \in Nat
        /\ \A z \in 1..Len(frames) : frames'[z] = frames[z]
        /\ frames'[Len(frames) + 1] = c
        /\ \A p : Holds(p) => Holds(p)'
        /\ \A y \in 1..Len(c) : ~Lost(c, y) => Holds(c[y])'
    BY <1>1, <1>2, <1>6, <1>10, FrameMove
  <2>2. \A z \in 1..Len(frames') : z \in 1..Len(frames) \/ z = Len(frames) + 1
    BY <2>1
  <2>3. \A z \in 1..Len(frames') : IsSeq(frames'[z]) /\ \A y \in 1..Len(frames'[z]) : frames'[z][y] \in 1..(q' - 1)
    <3> SUFFICES ASSUME NEW z \in 1..Len(frames')
                 PROVE  IsSeq(frames'[z]) /\ \A y \in 1..Len(frames'[z]) : frames'[z][y] \in 1..q
      BY <1>1, <1>3
    <3>1. CASE z = Len(frames) + 1
      BY <1>6, <1>8, <2>1, <3>1
    <3>2. CASE z \in 1..Len(frames)
      BY <1>2, <1>3, <2>1, <3>2
    <3> QED BY <2>2, <3>1, <3>2
  <2>4. \A y \in 1..Len(c) : Holds(c[y])'
    <3>1. Len(c) \in Nat /\ \A y \in 1..(Len(c) - 1) : image[c[y]].kind = "data"
      BY <1>2, <1>6
    <3>2. \A y \in 1..Len(c) : ~Lost(c, y)
      BY <3>1, ChunkKept
    <3> QED BY <2>1, <3>2
  <2>5. ASSUME NEW p \in 1..(q' - 1) PROVE Holds(p)'
    <3>1. CASE p = k
      <4>1. Len(chunk) + 1 \in 1..Len(c)
        BY <1>6
      <4> QED BY <1>6, <2>4, <3>1, <4>1
    <3>2. CASE p \in 1..(q - 1)
      <4>1. CASE Holds(p)
        BY <2>1, <4>1
      <4>2. ASSUME NEW y \in 1..Len(chunk), chunk[y] = p PROVE Holds(p)'
        <5>1. y \in 1..Len(c) /\ c[y] = p
          BY <1>6, <4>2
        <5> QED BY <2>4, <5>1
      <4> QED BY <1>2, <3>2, <4>1, <4>2
    <3> QED BY <1>9, <3>1, <3>2
  <2>6. IsSeq(chunk') /\ Len(chunk') = 0
    BY <1>10, Short
  <2> QED BY <1>1, <1>4, <2>1, <2>3, <2>5, <2>6 DEF FrameInv, Framed
<1>11. CASE image[q].kind = "data" /\ frames' = frames /\ chunk' = c
  <2>1. \A y \in 1..Len(c) : c[y] \in 1..(q' - 1) /\ image'[c[y]].kind = "data"
    <3>1. \A y \in 1..Len(c) : image[c[y]].kind = "data"
      BY <1>2, <1>5, <1>6, <1>7, <1>11
    <3> QED BY <1>1, <1>3, <1>8, <3>1
  <2>2. \A z \in 1..Len(frames') : IsSeq(frames'[z]) /\ \A y \in 1..Len(frames'[z]) : frames'[z][y] \in 1..(q' - 1)
    BY <1>1, <1>2, <1>3, <1>11
  <2>3. \A p : Holds(p) => Holds(p)'
    BY <1>1, <1>11 DEF Holds, Lost
  <2>4. ASSUME NEW p \in 1..(q' - 1) PROVE Holds(p)' \/ \E y \in 1..Len(chunk') : chunk'[y] = p
    <3>1. CASE p = k
      <4>1. Len(chunk) + 1 \in 1..Len(c)
        BY <1>6
      <4> QED BY <1>6, <1>11, <3>1, <4>1
    <3>2. CASE p \in 1..(q - 1)
      <4>1. CASE Holds(p)
        BY <2>3, <4>1
      <4>2. ASSUME NEW y \in 1..Len(chunk), chunk[y] = p PROVE \E x \in 1..Len(chunk') : chunk'[x] = p
        <5>1. y \in 1..Len(c) /\ c[y] = p
          BY <1>6, <4>2
        <5> QED BY <1>11, <5>1
      <4> QED BY <1>2, <3>2, <4>1, <4>2
    <3> QED BY <1>9, <3>1, <3>2
  <2> QED BY <1>1, <1>2, <1>4, <1>6, <1>11, <2>1, <2>2, <2>4 DEF FrameInv, Framed
<1> QED BY <1>1, <1>5, <1>10, <1>11

LEMMA FrameStep ==
    ASSUME LibInv, ImageInv, FrameInv, [Next]_vars
    PROVE  FrameInv'
<1>1. CASE FrameHead
  BY <1>1, FrameHeadStep
<1>2. CASE FrameBreak \/ FrameDone
  BY <1>2, FrameBreakStep
<1>3. CASE FrameRecord
  BY <1>3, FrameRecordStep
<1>4. CASE EmitDone
  <2>1. pc = "data" /\ pc' = "frame" /\ UNCHANGED <<mem, at, tt, image, q, chunk, frames>>
    BY <1>4 DEF EmitDone
  <2>2. q' = 1 /\ chunk' = << >> /\ frames' = << >>
    BY <2>1 DEF FrameInv
  <2>3. HeadLen' = HeadLen /\ HeadLen \in Nat /\ HeadLen >= 4
    BY <2>1, Unmoved, HeadTyped
  <2>4. Len(image) \in Nat
    BY <2>1, Extended DEF ImageInv, Written
  <2>5. IsSeq(<< >>) /\ Len(<< >>) = 0
    BY Short
  <2>6. Framed'
    BY <2>1, <2>2, <2>3, <2>4, <2>5 DEF Framed
  <2> QED BY <2>1, <2>2, <2>6 DEF FrameInv
<1>5. CASE Size \/ Sort \/ AssignBlock \/ AssignEof \/ Directory \/ EmitBlock \/ EmitEof
  BY <1>5 DEF FrameInv, Size, Sort, AssignBlock, AssignEof, Directory, EmitBlock, EmitEof
<1>6. CASE Done \/ UNCHANGED vars
  <2>1. UNCHANGED vars
    BY <1>6 DEF Done
  <2>2. HeadLen' = HeadLen
    BY <2>1, Unmoved DEF vars
  <2>3. \A p : Holds(p)' = Holds(p)
    BY <2>1 DEF vars, Holds, Lost
  <2>4. Framed => Framed'
    BY <2>1, <2>2, <2>3 DEF vars, Framed
  <2> QED BY <2>1, <2>4 DEF vars, FrameInv
<1> QED BY <1>1, <1>2, <1>3, <1>4, <1>5, <1>6 DEF Next

LEMMA Unloading == Spec => []UnloadInv
<1>1. Init => UnloadInv
  <2> SUFFICES ASSUME Init PROVE UnloadInv
    OBVIOUS
  <2>1. LibInv /\ AssignInv
    BY LibStart
  <2>2. ImageInv /\ FrameInv
    BY DEF Init, ImageInv, FrameInv
  <2> QED BY <2>1, <2>2 DEF UnloadInv
<1>2. UnloadInv /\ [Next]_vars => UnloadInv'
  BY LibStep, AssignStep, ImageStep, FrameStep DEF UnloadInv
<1> QED BY <1>1, <1>2, PTL DEF Spec

(***************************************************************************)
(* What is read back.                                                      *)
(***************************************************************************)

\* Every record of the finished image is read back.
LEMMA AllReloaded ==
    ASSUME UnloadInv, Finished
    PROVE  /\ Reloaded = 1..Len(image) /\ Len(image) \in Nat /\ HeadLen \in Nat /\ HeadLen >= 4 /\ HeadLen <= Len(image)
           /\ Data = (HeadLen + 1)..Len(image)
           /\ DirBlocks = 3..(HeadLen - 1)
           /\ Written(Everything) /\ mem \in Seq(LoadMember) /\ pc = "done"
<1>1. pc = "done" /\ LibInv /\ Framed /\ q = Len(image) + 1 /\ chunk = << >> /\ Written(Everything)
  BY DEF Finished, UnloadInv, FrameInv, ImageInv
<1>2. Len(image) \in Nat /\ HeadLen \in Nat /\ HeadLen >= 4 /\ HeadLen <= Len(image)
  BY <1>1, HeadTyped, Extended DEF Written
<1>3. \A p \in 1..Len(image) : Holds(p)
  BY <1>1, <1>2, Short DEF Framed
<1>4. \A z \in DOMAIN frames : \A y \in DOMAIN frames[z] : frames[z][y] \in 1..Len(image)
  BY <1>1, <1>2, Extended DEF Framed
<1>5. Reloaded = 1..Len(image)
  <2>1. ASSUME NEW p \in 1..Len(image) PROVE p \in Reloaded
    <3>1. PICK z \in DOMAIN frames : \E y \in DOMAIN frames[z] : frames[z][y] = p /\ ~Lost(frames[z], y)
      BY <1>3 DEF Holds
    <3> QED BY <3>1 DEF Reloaded
  <2>2. ASSUME NEW p \in Reloaded PROVE p \in 1..Len(image)
    <3>1. PICK f \in {frames[z] : z \in DOMAIN frames} : p \in {f[x] : x \in {y \in DOMAIN f : ~Lost(f, y)}}
      BY DEF Reloaded
    <3> QED BY <1>4, <3>1
  <2> QED BY <2>1, <2>2
<1>6. Data = (HeadLen + 1)..Len(image) /\ DirBlocks = 3..(HeadLen - 1)
  <2>1. ASSUME NEW p \in 1..Len(image)
        PROVE  /\ image[p].kind \in {"data", "eof"} <=> p > HeadLen
               /\ image[p].kind = "dir" <=> p > 2 /\ p < HeadLen
    BY <1>1, KindAt
  <2>2. Data = {p \in 1..Len(image) : p > HeadLen} /\ DirBlocks = {p \in 1..Len(image) : p > 2 /\ p < HeadLen}
    BY <1>5, <2>1 DEF Data, DirBlocks
  <2> QED BY <1>2, <2>2
<1> QED BY <1>1, <1>2, <1>5, <1>6, MemFacts

LEMMA Division ==
    ASSUME NEW a \in Nat, NEW b \in Nat \ {0}
    PROVE  a \div b \in Nat /\ a % b \in Nat /\ a % b < b /\ a = b * (a \div b) + (a % b)
OBVIOUS

\* Cylinder and head give the relative track back.
LEMMA Cylinders ==
    ASSUME NEW t \in Nat, NEW c \in Nat \ {0}
    PROVE  ((t \div c) * c) + (t % c) = t
<1> DEFINE w == t \div c
           e == t % c
<1>1. w \in Nat /\ e \in Nat /\ t = c * w + e
  OBVIOUS
<1> HIDE DEF w, e
<1>2. c * w = w * c
  BY <1>1
<1> QED BY <1>1, <1>2 DEF w, e

LEMMA RecordPlace ==
    ASSUME UnloadInv, Finished, NEW u, Placed(u, Everything), NEW p \in Data
    PROVE  \E o \in Everything :
             /\ image[p] = RecordOf(o) /\ at[o][1] \in Nat /\ at[o][2] \in 1..(RecBase - 1)
             /\ RelTrack(p) = at[o][1] /\ image[p].r = at[o][2] /\ image[p].len = 12 + BlkLen(o) /\ BlkLen(o) \in Nat
             /\ image[p].name = mem[o[1]].name /\ image[p].block = o[2] /\ image[p].kind = (IF o[2] = 0 THEN "eof" ELSE "data")
             /\ u[o] \in Nat /\ u[o] <= TrackLen /\ TrackOvh + BlkLen(o) <= u[o] /\ at[o][1] <= tt
<1>1. PICK o \in Everything : image[p] = RecordOf(o)
  BY AllReloaded DEF Written
<1>2. LibInv /\ pc \in {"assign", "data", "frame", "done"}
  BY DEF UnloadInv, Finished
<1>3. BlkLen(o) \in Nat /\ image[p].len = 12 + BlkLen(o) /\ image[p].kind = (IF o[2] = 0 THEN "eof" ELSE "data")
      /\ image[p].name = mem[o[1]].name /\ image[p].block = o[2]
  BY <1>1, <1>2, NamedOrder
<1>4. o = <<o[1], o[2]>>
  BY AllReloaded, GivenTyped DEF Everything
<1>5. /\ at[o] \in Nat \X (1..(RecBase - 1)) /\ u[o] \in Nat /\ u[o] <= TrackLen /\ TrackOvh + BlkLen(o) <= u[o]
      /\ at[o][1] <= tt
  BY DEF Placed, OnTrack
<1>6. at[o][1] \in Nat /\ at[o][2] \in 1..(RecBase - 1) /\ RecBase \in Nat \ {0, 1} /\ TrkPerCyl \in Nat \ {0}
  BY <1>5, TrackAssumption
<1>7. /\ RecordOf(o).cc = at[o][1] \div TrkPerCyl /\ RecordOf(o).hh = at[o][1] % TrkPerCyl
      /\ RecordOf(o).r = at[o][2] % RecBase
  BY <1>4 DEF RecordOf, DataRecord
<1>8. at[o][2] % RecBase = at[o][2]
  BY <1>6
<1>9. RelTrack(p) = at[o][1]
  <2>1. ((at[o][1] \div TrkPerCyl) * TrkPerCyl) + (at[o][1] % TrkPerCyl) = at[o][1]
    BY <1>6, Cylinders
  <2> QED BY <1>1, <1>7, <2>1 DEF RelTrack
<1> QED BY <1>1, <1>3, <1>5, <1>6, <1>7, <1>8, <1>9

LEMMA TracksAscend ==
    ASSUME UnloadInv, Finished, NEW u, Placed(u, Everything), NEW p \in Data, NEW s \in Data, p < s
    PROVE  /\ RelTrack(p) \in Nat /\ image[p].r \in Nat /\ Here(p) \in Nat /\ Here(p) < Here(s)
           /\ \A o, w \in Everything : image[p] = RecordOf(o) /\ image[s] = RecordOf(w) => Precedes(o, w) /\ Follow(u, o, w)
<1>1. PICK o \in Everything :
             /\ image[p] = RecordOf(o) /\ at[o][1] \in Nat /\ at[o][2] \in 1..(RecBase - 1)
             /\ RelTrack(p) = at[o][1] /\ image[p].r = at[o][2]
  BY RecordPlace
<1>2. PICK w \in Everything :
             /\ image[s] = RecordOf(w) /\ at[w][1] \in Nat /\ at[w][2] \in 1..(RecBase - 1)
             /\ RelTrack(s) = at[w][1] /\ image[s].r = at[w][2]
  BY RecordPlace
<1>3. LibInv /\ pc \in {"assign", "data", "frame", "done"}
  BY DEF UnloadInv, Finished
<1>4. Earlier(image[p], image[s])
  BY AllReloaded DEF Written
<1>5. \A a, b \in Everything : image[p] = RecordOf(a) /\ image[s] = RecordOf(b) => Precedes(a, b) /\ Follow(u, a, b)
  BY <1>3, <1>4, NamedOrder DEF Placed
<1>6. Follow(u, o, w)
  BY <1>1, <1>2, <1>5
<1>7. RecBase \in Nat
  BY TrackAssumption
<1>8. Here(p) = at[o][1] * RecBase + at[o][2] /\ Here(s) = at[w][1] * RecBase + at[w][2]
  BY <1>1, <1>2 DEF Here
<1> DEFINE a == at[o][1]
           b == at[w][1]
           x == at[o][2]
           y == at[w][2]
<1>9. a \in Nat /\ b \in Nat /\ x \in 1..(RecBase - 1) /\ y \in 1..(RecBase - 1) /\ (a < b \/ (a = b /\ x < y))
  BY <1>1, <1>2, <1>6 DEF Follow
<1> HIDE DEF a, b, x, y
<1>10. a * RecBase + x < b * RecBase + y /\ a * RecBase + x \in Nat
  <2>1. CASE a = b /\ x < y
    BY <1>7, <1>9, <2>1
  <2>2. CASE a < b
    <3>1. (a + 1) * RecBase <= b * RecBase
      BY <1>7, <1>9, <2>2
    <3>2. (a + 1) * RecBase = a * RecBase + RecBase /\ a * RecBase \in Nat /\ b * RecBase \in Nat
      BY <1>7, <1>9
    <3> QED BY <1>7, <1>9, <3>1, <3>2
  <2> QED BY <1>9, <2>1, <2>2
<1> QED BY <1>1, <1>5, <1>8, <1>10, <1>7 DEF a, b, x, y

\* A set of positions listed from the lowest on.
Lower(S, d) == {e \in S : e < d}
Upwards(S) == [x \in 1..Cardinality(S) |-> CHOOSE d \in S : Cardinality({e \in S : e < d}) = x - 1]

LEMMA Ascending ==
    ASSUME NEW S, IsFiniteSet(S), S \subseteq Nat
    PROVE  /\ Cardinality(S) \in Nat /\ Upwards(S) \in [1..Cardinality(S) -> S]
           /\ \A x, y \in 1..Cardinality(S) : x < y => Upwards(S)[x] < Upwards(S)[y]
<1> DEFINE N == Cardinality(S)
           R(d) == Cardinality(Lower(S, d))
           f == Upwards(S)
<1>1. N \in Nat
  BY FS_CardinalityType
<1>2. ASSUME NEW d \in S PROVE R(d) \in 0..(N - 1) /\ IsFiniteSet(Lower(S, d))
  <2>1. Lower(S, d) \subseteq S /\ d \notin Lower(S, d)
    BY DEF Lower
  <2>2. IsFiniteSet(Lower(S, d)) /\ R(d) <= N /\ (N = R(d) => S = Lower(S, d))
    BY <2>1, FS_Subset
  <2>3. R(d) \in Nat
    BY <2>2, FS_CardinalityType
  <2> QED BY <1>1, <2>1, <2>2, <2>3
<1>3. ASSUME NEW d \in S, NEW e \in S, d < e PROVE R(d) < R(e)
  <2>1. Lower(S, d) \subseteq Lower(S, e) /\ d \in Lower(S, e) /\ d \notin Lower(S, d)
    <3>1. d \in Nat /\ e \in Nat
      OBVIOUS
    <3>2. \A z \in S : z \in Nat
      OBVIOUS
    <3>3. ASSUME NEW z \in Lower(S, d) PROVE z \in Lower(S, e)
      <4>1. z \in S /\ z < d /\ z \in Nat
        BY <3>2, <3>3 DEF Lower
      <4>2. z < e
        BY <1>3, <3>1, <4>1
      <4> QED BY <4>1, <4>2 DEF Lower
    <3>4. d \in Lower(S, e)
      BY <1>3 DEF Lower
    <3>5. ~(d < d)
      BY <3>1
    <3>6. d \notin Lower(S, d)
      BY <3>5, Zenon DEF Lower
    <3> QED BY <3>3, <3>4, <3>6
  <2>2. R(d) <= R(e) /\ (R(e) = R(d) => Lower(S, e) = Lower(S, d))
    BY <1>2, <2>1, FS_Subset
  <2>3. R(d) \in Nat /\ R(e) \in Nat
    BY <1>2
  <2> QED BY <2>1, <2>2, <2>3
<1>4. ASSUME NEW d \in S, NEW e \in S, R(d) = R(e) PROVE d = e
  <2>1. ~(d < e) /\ ~(e < d)
    <3>1. R(d) \in Nat /\ R(e) \in Nat
      BY <1>2
    <3> HIDE DEF R
    <3> QED BY <1>3, <1>4, <3>1
  <2> QED BY <2>1
<1> DEFINE rank == [d \in S |-> R(d) + 1]
<1>5. rank \in Injection(S, 1..N)
  <2>1. rank \in [S -> 1..N]
    BY <1>1, <1>2
  <2>2. \A d, e \in S : rank[d] = rank[e] => d = e
    <3> SUFFICES ASSUME NEW d \in S, NEW e \in S, rank[d] = rank[e] PROVE d = e
      OBVIOUS
    <3>1. R(d) \in Nat /\ R(e) \in Nat
      BY <1>2
    <3>2. R(d) = R(e)
      BY <3>1
    <3> QED BY <1>4, <3>2
  <2> HIDE DEF rank
  <2> QED BY <2>1, <2>2 DEF Injection, IsInjective
<1>6. rank \in Surjection(S, 1..N)
  <2>1. IsFiniteSet(1..N) /\ Cardinality(1..N) = N
    BY <1>1, FS_Interval
  <2> HIDE DEF rank
  <2> QED BY <1>5, <2>1, FS_Injection
<1>7. \A x \in 1..N : \E d \in S : rank[d] = x
  <2> HIDE DEF rank, N
  <2> QED BY <1>6 DEF Surjection
<1>8. ASSUME NEW x \in 1..N PROVE f[x] \in S /\ R(f[x]) = x - 1
  <2>1. PICK d \in S : rank[d] = x
    BY <1>7
  <2>2. R(d) = x - 1
    BY <1>2, <2>1
  <2>3. f[x] = CHOOSE e \in S : R(e) = x - 1
    BY DEF Upwards, Lower
  <2> HIDE DEF R, f
  <2> QED BY <2>2, <2>3
<1>9. f \in [1..N -> S]
  <2>1. f = [x \in 1..N |-> CHOOSE e \in S : R(e) = x - 1]
    BY Zenon DEF Upwards, Lower
  <2> HIDE DEF f, R, N
  <2>2. f = [x \in 1..N |-> f[x]]
    BY <2>1
  <2> QED BY <1>8, <2>2
<1>10. ASSUME NEW x \in 1..N, NEW y \in 1..N, x < y PROVE f[x] < f[y]
  <2>1. f[x] \in S /\ f[y] \in S /\ R(f[x]) = x - 1 /\ R(f[y]) = y - 1
    BY <1>8
  <2>2. f[x] \in Nat /\ f[y] \in Nat
    BY <2>1
  <2>3. ~(f[y] < f[x])
    <3> HIDE DEF R, f
    <3> QED BY <1>3, <1>10, <2>1, <2>2
  <2>4. f[y] # f[x]
    <3>1. f[x] # f[y]
      <4> HIDE DEF f
      <4> QED BY <1>10, <2>1
    <3> QED BY <2>1, <3>1
  <2> HIDE DEF f
  <2> QED BY <2>2, <2>3, <2>4
<1> HIDE DEF f
<1> QED BY <1>1, <1>9, <1>10 DEF f

(***************************************************************************)
(* Theorems.                                                               *)
(***************************************************************************)

LEMMA TrackFilled ==
    ASSUME UnloadInv, Finished, NEW u, Placed(u, Everything), NEW t, NEW on, on = {p \in Data : RelTrack(p) = t},
           NEW order, order = Upwards(on)
    PROVE  Total([x \in DOMAIN order |-> TrackOvh + image[order[x]].len - 12], Len(order)) <= TrackLen
<1>1. /\ IsFiniteSet(on) /\ on \subseteq Nat /\ on \subseteq Data /\ TrackOvh \in Nat /\ TrackLen \in Nat
  <2>1. Data = (HeadLen + 1)..Len(image) /\ HeadLen \in Nat /\ Len(image) \in Nat
    BY AllReloaded
  <2>2. IsFiniteSet(Data) /\ Data \subseteq Nat
    BY <2>1, FS_Interval
  <2> QED BY <2>2, FS_Subset, TrackAssumption
<1> DEFINE n == Cardinality(on)
<1>2. n \in Nat /\ order \in [1..n -> on] /\ \A x, y \in 1..n : x < y => order[x] < order[y]
  <2>1. /\ Cardinality(on) \in Nat /\ Upwards(on) \in [1..Cardinality(on) -> on]
        /\ \A x, y \in 1..Cardinality(on) : x < y => Upwards(on)[x] < Upwards(on)[y]
    BY <1>1, Ascending
  <2> QED BY <2>1
<1> HIDE DEF n
<1>3. Len(order) = n /\ DOMAIN order = 1..n
  <2>1. order \in Seq(on)
    BY <1>2
  <2> QED BY <1>2, <2>1
<1> DEFINE f == [x \in DOMAIN order |-> TrackOvh + image[order[x]].len - 12]
           Owner(p, o) == o \in Everything /\ image[p] = RecordOf(o)
           U(p) == u[CHOOSE o : Owner(p, o)]
<1>4. ASSUME NEW p \in on
      PROVE  /\ \E o : Owner(p, o)
             /\ image[p].len - 12 \in Nat /\ U(p) \in Nat /\ U(p) <= TrackLen /\ TrackOvh + (image[p].len - 12) <= U(p)
  <2>1. PICK o \in Everything : /\ image[p] = RecordOf(o) /\ image[p].len = 12 + BlkLen(o) /\ BlkLen(o) \in Nat
                                /\ u[o] \in Nat /\ u[o] <= TrackLen /\ TrackOvh + BlkLen(o) <= u[o]
    BY <1>1, RecordPlace
  <2>2. ASSUME NEW w, Owner(p, w) PROVE w = o
    <3>1. LibInv /\ pc \in {"assign", "data", "frame", "done"}
      BY DEF UnloadInv, Finished
    <3> QED BY <2>1, <2>2, <3>1, NamedOrder
  <2>3. Owner(p, o)
    BY <2>1
  <2>4. (CHOOSE w : Owner(p, w)) = o
    <3> HIDE DEF Owner
    <3> QED BY <2>2, <2>3
  <2>5. U(p) = u[o]
    BY <2>4, Zenon
  <2> HIDE DEF U
  <2>6. \E w : Owner(p, w)
    BY <2>3
  <2> HIDE DEF Owner
  <2> QED BY <1>1, <2>1, <2>5, <2>6
<1>5. ASSUME NEW p \in on, NEW s \in on, p < s PROVE U(p) + (TrackOvh + (image[s].len - 12)) <= U(s)
  <2>1. PICK a, b : a = (CHOOSE o : Owner(p, o)) /\ b = (CHOOSE o : Owner(s, o))
    OBVIOUS
  <2>2. Owner(p, a) /\ Owner(s, b)
    <3> HIDE DEF Owner, U
    <3> QED BY <1>4, <2>1
  <2>3. Follow(u, a, b)
    BY <1>1, <1>5, <2>2, TracksAscend
  <2>4. LibInv /\ pc \in {"assign", "data", "frame", "done"}
    BY DEF UnloadInv, Finished
  <2>5. image[s].len = 12 + BlkLen(b) /\ BlkLen(b) \in Nat
    BY <2>2, <2>4, NamedOrder
  <2>6. at[a][1] = t /\ at[b][1] = t
    <3>1. RelTrack(p) = t /\ RelTrack(s) = t
      OBVIOUS
    <3>2. \A k \in on, o \in Everything : image[k] = RecordOf(o) => RelTrack(k) = at[o][1]
      <4> SUFFICES ASSUME NEW k \in on, NEW o \in Everything, image[k] = RecordOf(o) PROVE RelTrack(k) = at[o][1]
        OBVIOUS
      <4>1. PICK w \in Everything : image[k] = RecordOf(w) /\ RelTrack(k) = at[w][1]
        BY <1>1, RecordPlace
      <4>2. w = o
        BY <2>4, <4>1, NamedOrder
      <4> QED BY <4>1, <4>2
    <3> QED BY <2>2, <3>1, <3>2
  <2>7. at[a][1] \in Nat /\ U(p) = u[a] /\ U(s) = u[b] /\ U(p) \in Nat /\ U(s) \in Nat
    <3>1. OnTrack(u, a)
      BY <2>2 DEF Placed
    <3>2. at[a][1] \in Nat
      BY <3>1 DEF OnTrack
    <3>3. U(p) \in Nat /\ U(s) \in Nat
      <4> HIDE DEF U
      <4> QED BY <1>4
    <3>4. U(p) = u[a] /\ U(s) = u[b]
      BY <2>1, Zenon
    <3> QED BY <3>2, <3>3, <3>4
  <2> QED BY <1>1, <2>3, <2>5, <2>6, <2>7 DEF Follow
<1>6. ASSUME NEW x \in 1..n PROVE /\ order[x] \in on /\ f[x] = TrackOvh + (image[order[x]].len - 12) /\ f[x] \in Nat
  <2>1. order[x] \in on /\ f[x] = TrackOvh + image[order[x]].len - 12
    BY <1>2, <1>3
  <2>2. image[order[x]].len - 12 \in Nat
    BY <1>4, <2>1
  <2> QED BY <1>1, <2>1, <2>2
<1> HIDE DEF f, U
<1> DEFINE T == {x \in 0..n : Total(f, x) \in Nat /\ (x > 0 => Total(f, x) <= U(order[x]))}
<1>7. 0 \in T
  <2>1. Total(f, 0) = 0
    BY TotalStep
  <2> QED BY <1>2, <2>1
<1>8. ASSUME NEW x \in 1..n, x - 1 \in T PROVE x \in T
  <2>1. Total(f, x) = Total(f, x - 1) + f[x] /\ Total(f, x - 1) \in Nat
    <3>1. x \in Nat /\ x > 0 /\ \A k \in 1..x : f[k] \in Nat
      BY <1>2, <1>6
    <3> QED BY <3>1, TotalStep
  <2>2. U(order[x]) \in Nat /\ f[x] <= U(order[x]) /\ f[x] \in Nat
    BY <1>4, <1>6
  <2>3. CASE x = 1
    <3>1. Total(f, 0) = 0
      BY TotalStep
    <3> QED BY <1>2, <2>1, <2>2, <2>3, <3>1
  <2>4. CASE x # 1
    <3>1. x - 1 \in 1..n /\ x - 1 < x
      BY <1>2, <2>4
    <3>2. order[x - 1] < order[x] /\ order[x - 1] \in on /\ order[x] \in on
      BY <1>2, <1>6, <3>1
    <3>3. U(order[x - 1]) + f[x] <= U(order[x]) /\ U(order[x - 1]) \in Nat
      BY <1>4, <1>5, <1>6, <3>2
    <3>4. Total(f, x - 1) <= U(order[x - 1])
      BY <1>8, <3>1
    <3> QED BY <2>1, <2>2, <3>1, <3>3, <3>4
  <2> QED BY <2>3, <2>4
<1>9. \A x \in 0..n : x \in T
  <2> HIDE DEF T
  <2> QED BY <1>2, <1>7, <1>8, Upward
<1>10. Total(f, n) <= TrackLen
  <2>1. CASE n = 0
    <3>1. Total(f, 0) = 0
      BY TotalStep
    <3> QED BY <1>1, <2>1, <3>1
  <2>2. CASE n # 0
    <3>1. n \in 1..n /\ n \in T
      BY <1>2, <1>9, <2>2
    <3>2. Total(f, n) \in Nat /\ Total(f, n) <= U(order[n]) /\ U(order[n]) \in Nat /\ U(order[n]) <= TrackLen
      BY <1>4, <1>6, <3>1
    <3> QED BY <1>1, <3>2
  <2> QED BY <2>1, <2>2
<1> QED BY <1>3, <1>10 DEF f

\* IEBCOPY can write the library back: the records that NEXT_R in emit_unload puts
\* on a track fit it, their numbers ascend, and COPYR2's extent reaches the last
\* track; for every library, track geometry and block size.
THEOREM TracksSuffice == Spec => []TracksHold
<1>1. UnloadInv => TracksHold
  <2> SUFFICES ASSUME UnloadInv, Finished
               PROVE  /\ \A t \in {RelTrack(p) : p \in Data} :
                            LET on == {p \in Data : RelTrack(p) = t}
                                order == [x \in 1..Cardinality(on) |->
                                            CHOOSE p \in on : Cardinality({o \in on : o < p}) = x - 1]
                            IN /\ Total([x \in DOMAIN order |-> TrackOvh + image[order[x]].len - 12], Len(order)) <= TrackLen
                               /\ t < image[2].tracks
                      /\ \A p, o \in Data : p < o => Here(p) < Here(o)
    BY DEF TracksHold
  <2>1. PICK u : Placed(u, Everything)
    BY DEF UnloadInv, AssignInv, Finished
  <2>2. \A p, o \in Data : p < o => Here(p) < Here(o)
    BY <2>1, TracksAscend
  <2>3. ASSUME NEW t \in {RelTrack(p) : p \in Data} PROVE t < image[2].tracks
    <3>1. PICK p \in Data : t = RelTrack(p)
      OBVIOUS
    <3>2. t \in Nat /\ t <= tt /\ tt \in Nat
      BY <2>1, <3>1, RecordPlace DEF UnloadInv, AssignInv, Finished
    <3>3. image[2].tracks = ExtentTracks
      BY AllReloaded DEF Written
    <3>4. TrkPerCyl \in Nat \ {0}
      BY TrackAssumption
    <3> DEFINE c == TrkPerCyl
               m == (tt + 1) + c - 1
               w == m \div c
               e == m % c
    <3>5. m \in Nat /\ m = tt + c
      BY <3>2, <3>4
    <3> HIDE DEF m
    <3>6. w \in Nat /\ e \in Nat /\ e < c /\ m = c * w + e
      BY <3>4, <3>5, Division
    <3> HIDE DEF w, e, c
    <3>7. c * w = w * c /\ c \in Nat
      BY <3>4, <3>6 DEF c
    <3>8. ExtentTracks = w * c
      BY DEF ExtentTracks, w, c, m
    <3> QED BY <3>2, <3>3, <3>5, <3>6, <3>7, <3>8
  <2>4. ASSUME NEW t \in {RelTrack(p) : p \in Data}
        PROVE  LET on == {p \in Data : RelTrack(p) = t}
                   order == [x \in 1..Cardinality(on) |->
                               CHOOSE p \in on : Cardinality({o \in on : o < p}) = x - 1]
               IN Total([x \in DOMAIN order |-> TrackOvh + image[order[x]].len - 12], Len(order)) <= TrackLen
    <3> DEFINE on == {p \in Data : RelTrack(p) = t}
               order == [x \in 1..Cardinality(on) |->
                           CHOOSE p \in on : Cardinality({o \in on : o < p}) = x - 1]
    <3>1. order = Upwards(on)
      BY Zenon DEF Upwards
    <3>2. on = {p \in Data : RelTrack(p) = t}
      OBVIOUS
    <3>3. Total([x \in DOMAIN order |-> TrackOvh + image[order[x]].len - 12], Len(order)) <= TrackLen
      <4> HIDE DEF order, on
      <4> QED BY <2>1, <3>1, <3>2, TrackFilled
    <3> QED BY <3>3, Zenon
  <2> QED BY <2>2, <2>3, <2>4, Zenon
<1> QED BY <1>1, Unloading, PTL

(***************************************************************************)
(* The directory read back.                                                *)
(***************************************************************************)
LEMMA BlockStep ==
    ASSUME NEW d, Sized(d), NEW x \in 1..Len(d)
    PROVE  /\ x - 1 \in 0..Len(d) /\ x \in 0..Len(d)
           /\ Blocks(d)[x].blk \in Nat /\ Blocks(d)[x - 1].blk \in Nat /\ Blocks(d)[x].used \in Nat
           /\ Blocks(d)[x - 1].used \in Nat
           /\ \/ /\ Blocks(d)[x].blk = Blocks(d)[x - 1].blk
                 /\ Blocks(d)[x].used = Blocks(d)[x - 1].used + DentLen(d[x])
                 /\ Blocks(d)[x].used <= DirBlk
              \/ /\ Blocks(d)[x].blk = Blocks(d)[x - 1].blk + 1
                 /\ Blocks(d)[x].used = 2 + DentLen(d[x])
                 /\ Blocks(d)[x - 1].used + DentLen(d[x]) > DirBlk
                 /\ Blocks(d)[x].used <= DirBlk
<1>1. x - 1 \in 0..Len(d) /\ x \in 0..Len(d) /\ Len(d) \in Nat
  BY DEF Sized
<1>2. Blocks(d)[x] \in BlkUse /\ Blocks(d)[x - 1] \in BlkUse
  BY <1>1, BlocksAre
<1>3. Blocks(d)[x] = Filed(Blocks(d)[x - 1], DentLen(d[x]))
  BY BlocksAre
<1>4. DentLen(d[x]) \in Nat /\ DentLen(d[x]) <= 46
  BY DEF Sized
<1>5. PICK p, b, n : p = Blocks(d)[x - 1] /\ b = Blocks(d)[x] /\ n = DentLen(d[x])
  OBVIOUS
<1>6. b = Filed(p, n) /\ p \in BlkUse /\ b \in BlkUse /\ n \in Nat /\ n <= 46
  BY <1>2, <1>3, <1>4, <1>5
<1>7. /\ b.blk \in Nat /\ p.blk \in Nat /\ b.used \in Nat /\ p.used \in Nat
      /\ \/ b.blk = p.blk /\ b.used = p.used + n /\ b.used <= DirBlk
         \/ b.blk = p.blk + 1 /\ b.used = 2 + n /\ p.used + n > DirBlk /\ b.used <= DirBlk
  BY <1>6, DirAssumption DEF Filed, BlkUse
<1> QED BY <1>1, <1>5, <1>7

LEMMA BlocksHold ==
    ASSUME NEW d, Sized(d), NEW x \in 0..Len(d)
    PROVE  Blocks(d)[x].used \in Nat /\ Blocks(d)[x].used <= DirBlk /\ 2 <= Blocks(d)[x].used /\ Blocks(d)[x].blk \in Nat
<1>1. Len(d) \in Nat
  BY DEF Sized
<1> DEFINE T == {y \in 0..Len(d) : Blocks(d)[y].used \in Nat /\ Blocks(d)[y].used <= DirBlk /\ 2 <= Blocks(d)[y].used
                                   /\ Blocks(d)[y].blk \in Nat}
<1>2. 0 \in T
  BY <1>1, BlocksAre, DirAssumption
<1>3. ASSUME NEW y \in 1..Len(d), y - 1 \in T PROVE y \in T
  <2>1. DentLen(d[y]) \in Nat
    BY DEF Sized
  <2> QED BY <1>1, <1>3, <2>1, BlockStep, SMTT(30)
<1>4. \A y \in 0..Len(d) : y \in T
  <2> HIDE DEF T
  <2> QED BY <1>1, <1>2, <1>3, Upward
<1> QED BY <1>4

LEMMA BlocksRise ==
    ASSUME NEW d, Sized(d), NEW x \in 0..Len(d), NEW y \in 0..Len(d), x <= y
    PROVE  Blocks(d)[x].blk <= Blocks(d)[y].blk
<1>1. Len(d) \in Nat /\ \A z \in 0..Len(d) : Blocks(d)[z].blk \in Nat
  BY BlocksHold DEF Sized
<1> DEFINE T == {z \in 0..Len(d) : x <= z => Blocks(d)[x].blk <= Blocks(d)[z].blk}
<1>2. 0 \in T
  BY <1>1
<1>3. ASSUME NEW z \in 1..Len(d), z - 1 \in T PROVE z \in T
  <2>1. z \in 0..Len(d) /\ z - 1 \in 0..Len(d)
    BY <1>1
  <2>2. Blocks(d)[z - 1].blk <= Blocks(d)[z].blk
    BY <1>1, <2>1, BlockStep
  <2>3. Blocks(d)[z - 1].blk \in Nat /\ Blocks(d)[z].blk \in Nat /\ Blocks(d)[x].blk \in Nat
    BY <1>1, <2>1
  <2>4. CASE x <= z - 1
    BY <1>3, <2>1, <2>2, <2>3, <2>4
  <2>5. CASE ~(x <= z - 1)
    <3>1. x <= z => x = z
      BY <1>1, <2>5
    <3> QED BY <2>1, <2>3, <3>1
  <2> QED BY <2>4, <2>5
<1>4. \A z \in 0..Len(d) : z \in T
  <2> HIDE DEF T
  <2> QED BY <1>1, <1>2, <1>3, Upward
<1> QED BY <1>4

\* No block before the last one used is empty.
LEMMA BlocksFilled ==
    ASSUME NEW d, Sized(d), NEW x \in 1..Len(d), NEW b \in 0..Blocks(d)[x].blk
    PROVE  \E z \in 1..x : Blocks(d)[z].blk = b
<1>1. Len(d) \in Nat /\ \A z \in 0..Len(d) : Blocks(d)[z].blk \in Nat
  BY BlocksHold DEF Sized
<1> DEFINE T == {y \in 0..Len(d) : y > 0 => \A c \in 0..Blocks(d)[y].blk : \E z \in 1..y : Blocks(d)[z].blk = c}
<1>2. 0 \in T
  BY <1>1
<1>3. ASSUME NEW y \in 1..Len(d), y - 1 \in T PROVE y \in T
  <2>1. y \in 0..Len(d) /\ y - 1 \in 0..Len(d) /\ Blocks(d)[y].blk \in Nat /\ Blocks(d)[y - 1].blk \in Nat
    BY <1>1
  <2> SUFFICES ASSUME NEW c \in 0..Blocks(d)[y].blk PROVE \E z \in 1..y : Blocks(d)[z].blk = c
    BY <2>1
  <2>2. CASE c = Blocks(d)[y].blk
    <3>1. y \in 1..y
      BY <1>1
    <3> QED BY <2>2, <3>1
  <2>3. CASE c # Blocks(d)[y].blk
    <3>1. c \in 0..Blocks(d)[y - 1].blk
      BY <2>1, <2>3, BlockStep, SMTT(30)
    <3>2. CASE y = 1
      <4>1. Blocks(d)[0] = [blk |-> 0, used |-> 2]
        BY BlocksAre
      <4>2. Blocks(d)[y].blk = 0
        <5>1. DentLen(d[y]) \in Nat /\ DentLen(d[y]) <= 46 /\ DirBlk \in Nat /\ DirBlk >= 48
          BY DirAssumption DEF Sized
        <5>2. PICK p : p = Blocks(d)[0] /\ p.blk = 0 /\ p.used = 2
          BY <4>1
        <5>3. y - 1 = 0
          BY <3>2
        <5>4. \/ Blocks(d)[y].blk = p.blk
              \/ p.used + DentLen(d[y]) > DirBlk
          BY <5>2, <5>3, BlockStep
        <5> QED BY <5>1, <5>2, <5>4
      <4> QED BY <2>3, <4>2
    <3>3. CASE y # 1
      <4>1. y - 1 > 0
        BY <1>1, <3>3
      <4>2. PICK z \in 1..(y - 1) : Blocks(d)[z].blk = c
        BY <1>3, <3>1, <4>1
      <4>3. z \in 1..y
        BY <1>1
      <4> QED BY <4>2, <4>3
    <3> QED BY <3>2, <3>3
  <2> QED BY <2>2, <2>3
<1>4. \A y \in 0..Len(d) : y \in T
  <2> HIDE DEF T
  <2> QED BY <1>1, <1>2, <1>3, Upward
<1>5. x \in T /\ x > 0
  <2>1. x \in 0..Len(d) /\ x > 0
    BY <1>1
  <2> HIDE DEF T
  <2> QED BY <1>4, <2>1
<1> QED BY <1>5

\* The entries of one block are those of a stretch of the directory, in its order.
Here1(d, b) == {x \in DOMAIN d : Blocks(d)[x].blk = b}
HereSet(d, b) == {d[x] : x \in Here1(d, b)}
EntsOf(d, b) == SortedByName(HereSet(d, b))

InBlock(m, d, b, S) ==
    /\ Named(S) /\ Listed(SortedByName(S), Cardinality(S), S) /\ Len(SortedByName(S)) = Cardinality(S)
    /\ DOMAIN SortedByName(S) = 1..Cardinality(S)
    /\ \A e \in S : e \in DirEnts(m) /\ \E x \in 1..Len(d) : Blocks(d)[x].blk = b /\ d[x] = e
    /\ \A x \in 1..Len(d) : Blocks(d)[x].blk = b => d[x] \in S
    /\ (S = {}) <=> (Here1(d, b) = {})

LEMMA BlockEntries ==
    ASSUME NEW m \in Seq(LoadMember), Named(DirEnts(m)), NEW d, d = SortedByName(DirEnts(m)), NEW b \in Nat,
           NEW S, S = HereSet(d, b)
    PROVE  InBlock(m, d, b, S)
<1>1. /\ Sized(d) /\ DOMAIN d = 1..Len(d) /\ Listed(d, Len(d), DirEnts(m))
      /\ \A x \in 1..Len(d) : d[x] \in DirEnts(m)
  BY EntriesSized
<1>2. \A e \in S : e \in DirEnts(m) /\ \E x \in 1..Len(d) : Blocks(d)[x].blk = b /\ d[x] = e
  BY <1>1 DEF Here1, HereSet
<1>3. \A x \in 1..Len(d) : Blocks(d)[x].blk = b => d[x] \in S
  BY <1>1 DEF Here1, HereSet
<1>4. Named(S)
  <2>1. S \subseteq DirEnts(m)
    BY <1>2
  <2>2. IsFiniteSet(S)
    BY <2>1, FS_Subset DEF Named
  <2> QED BY <2>1, <2>2 DEF Named
<1>5. Listed(SortedByName(S), Cardinality(S), S)
  BY <1>4, SortLists
<1>6. Len(SortedByName(S)) = Cardinality(S) /\ DOMAIN SortedByName(S) = 1..Cardinality(S)
  <2>1. PICK f, n : f = SortedByName(S) /\ n = Cardinality(S)
    OBVIOUS
  <2>2. n \in Nat /\ f \in [1..n -> S]
    BY <1>5, <2>1 DEF Listed
  <2>3. f \in Seq(S) /\ Len(f) = n /\ DOMAIN f = 1..n
    BY <2>2
  <2> QED BY <2>1, <2>3
<1>7. (S = {}) <=> (Here1(d, b) = {})
  BY DEF HereSet
<1> QED BY <1>2, <1>3, <1>4, <1>5, <1>6, <1>7 DEF InBlock

LEMMA DirRead ==
    ASSUME NEW d, NEW b
    PROVE  /\ DirRecord(d, b).kind = "dir" /\ DirRecord(d, b).len = 12 + 8 + DirBlk
           /\ DirRecord(d, b).ents = [x \in DOMAIN EntsOf(d, b) |-> DirEntry(EntsOf(d, b)[x])]
           /\ DirRecord(d, b).ff = (b = BlockCount(d) - 1)
           /\ DirRecord(d, b).key = IF b = BlockCount(d) - 1 \/ Here1(d, b) = {} THEN HighName
                                    ELSE EntsOf(d, b)[Len(EntsOf(d, b))].name
BY DEF DirRecord, EntsOf, HereSet, Here1

LEMMA LastBlock ==
    ASSUME NEW d, Sized(d), NEW x \in 1..Len(d)
    PROVE  Blocks(d)[x].blk \in 0..(BlockCount(d) - 1) /\ BlockCount(d) \in Nat
<1>1. Len(d) \in Nat /\ x \in 0..Len(d) /\ Len(d) \in 0..Len(d) /\ x <= Len(d)
  BY DEF Sized
<1>2. Blocks(d)[x].blk <= Blocks(d)[Len(d)].blk /\ Blocks(d)[x].blk \in Nat /\ Blocks(d)[Len(d)].blk \in Nat
  BY <1>1, BlocksRise, BlocksHold
<1> QED BY <1>2 DEF BlockCount

LEMMA Greatest ==
    ASSUME NEW N \in Nat, NEW Y, Y \subseteq 1..N, Y # {}
    PROVE  \E y \in Y : \A z \in Y : z <= y
<1> DEFINE U == {w \in 1..N : \A z \in Y : z <= w}
<1>1. PICK a : a \in Y
  OBVIOUS
<1>2. a \in 1..N /\ N \in U /\ U \subseteq Nat
  BY <1>1
<1>3. PICK w \in U : \A z \in U : w <= z
  <2> HIDE DEF U
  <2> QED BY <1>2, LeastNumber
<1>4. w \in 1..N /\ \A z \in Y : z <= w
  OBVIOUS
<1>5. w \in Y
  <2> SUFFICES ASSUME w \notin Y PROVE FALSE
    OBVIOUS
  <2>1. \A z \in Y : z <= w - 1
    BY <1>4
  <2>2. w - 1 \in 1..N
    BY <1>1, <1>4, <2>1
  <2>3. w - 1 \in U
    BY <2>1, <2>2
  <2> HIDE DEF U
  <2> QED BY <1>3, <1>4, <2>3
<1> QED BY <1>4, <1>5

\* The stretch lo..hi of the directory is block b.
Stretch(d, b, lo, hi) ==
    /\ lo \in 1..Len(d) /\ hi \in 1..Len(d) /\ lo <= hi
    /\ \A x \in 1..Len(d) : Blocks(d)[x].blk = b <=> lo <= x /\ x <= hi

LEMMA BlockStretch ==
    ASSUME NEW d, Sized(d), NEW b \in Nat, NEW x \in 1..Len(d), Blocks(d)[x].blk = b
    PROVE  \E lo, hi \in 1..Len(d) : Stretch(d, b, lo, hi)
<1> DEFINE Y == {z \in 1..Len(d) : Blocks(d)[z].blk = b}
<1>1. Len(d) \in Nat /\ Y \subseteq 1..Len(d) /\ Y \subseteq Nat /\ Y # {}
  BY DEF Sized
<1>2. PICK lo \in Y : \A z \in Y : lo <= z
  <2> HIDE DEF Y
  <2> QED BY <1>1, LeastNumber
<1>3. PICK hi \in Y : \A z \in Y : z <= hi
  <2> HIDE DEF Y
  <2> QED BY <1>1, Greatest
<1>4. lo \in 1..Len(d) /\ hi \in 1..Len(d) /\ lo <= hi /\ Blocks(d)[lo].blk = b /\ Blocks(d)[hi].blk = b
  BY <1>2
<1>5. ASSUME NEW z \in 1..Len(d), lo <= z, z <= hi PROVE Blocks(d)[z].blk = b
  <2>1. z \in 0..Len(d) /\ lo \in 0..Len(d) /\ hi \in 0..Len(d)
    BY <1>1, <1>4
  <2>2. Blocks(d)[lo].blk <= Blocks(d)[z].blk /\ Blocks(d)[z].blk <= Blocks(d)[hi].blk /\ Blocks(d)[z].blk \in Nat
    BY <1>5, <2>1, BlocksRise, BlocksHold
  <2> QED BY <1>4, <2>2
<1>6. \A z \in 1..Len(d) : Blocks(d)[z].blk = b => lo <= z /\ z <= hi
  BY <1>2, <1>3
<1> QED BY <1>4, <1>5, <1>6 DEF Stretch

Lengths(f, d, lo, hi) == \A k \in 1..(hi - lo + 1) : f[k] = DentLen(d[lo + k - 1])

\* dent_used: the bytes of the entries of a block.
LEMMA StretchUsed ==
    ASSUME NEW d, Sized(d), NEW b \in Nat, NEW lo, NEW hi, Stretch(d, b, lo, hi),
           NEW f, Lengths(f, d, lo, hi)
    PROVE  2 + Total(f, hi - lo + 1) = Blocks(d)[hi].used /\ Blocks(d)[hi].used <= DirBlk
<1>1. Len(d) \in Nat /\ lo \in 1..Len(d) /\ hi \in 1..Len(d) /\ lo <= hi
      /\ \A x \in 1..Len(d) : Blocks(d)[x].blk = b <=> lo <= x /\ x <= hi
  BY DEF Sized, Stretch
<1>2. PICK n \in Nat : n = hi - lo + 1 /\ n > 0
  BY <1>1
<1>3. \A k \in 1..n : lo + k - 1 \in 1..Len(d) /\ lo <= lo + k - 1 /\ lo + k - 1 <= hi
  BY <1>1, <1>2
<1>4. \A k \in 1..n : f[k] \in Nat /\ f[k] = DentLen(d[lo + k - 1])
  BY <1>2, <1>3 DEF Sized, Lengths
<1> DEFINE T == {k \in 0..n : k > 0 => 2 + Total(f, k) = Blocks(d)[lo + k - 1].used}
<1>5. 0 \in T
  BY <1>2
<1>6. ASSUME NEW k \in 1..n, k - 1 \in T PROVE k \in T
  <2>1. PICK x : x = lo + k - 1 /\ x \in 1..Len(d) /\ lo <= x /\ x <= hi
    BY <1>3
  <2>2. k \in Nat /\ \A z \in 1..k : f[z] \in Nat
    BY <1>2, <1>4
  <2>3. Total(f, k) = Total(f, k - 1) + f[k] /\ Total(f, k - 1) \in Nat /\ Total(f, 0) = 0
    BY <2>2, TotalStep
  <2>4. Blocks(d)[x].blk = b /\ f[k] = DentLen(d[x]) /\ f[k] \in Nat
    BY <1>1, <1>4, <2>1
  <2>5. CASE k = 1
    <3>0. k - 1 = 0 /\ x = lo
      BY <1>1, <2>1, <2>5
    <3>1. x = lo /\ Total(f, k) = f[k]
      BY <2>3, <2>4, <3>0
    <3>2. Blocks(d)[x].used = 2 + DentLen(d[x])
      <4>1. CASE x = 1
        <5>1. Blocks(d)[0] = [blk |-> 0, used |-> 2]
          BY BlocksAre
        <5>2. PICK p : p = Blocks(d)[0] /\ p.blk = 0 /\ p.used = 2
          BY <5>1
        <5>3. x - 1 = 0
          BY <4>1
        <5>4. Blocks(d)[x].used = p.used + DentLen(d[x]) \/ Blocks(d)[x].used = 2 + DentLen(d[x])
          BY <2>1, <5>2, <5>3, BlockStep
        <5> QED BY <5>2, <5>4
      <4>2. CASE x # 1
        <5>1. x - 1 \in 1..Len(d) /\ ~(lo <= x - 1)
          BY <1>1, <2>1, <3>1, <4>2
        <5>2. Blocks(d)[x - 1].blk # b
          BY <1>1, <5>1
        <5> QED BY <2>1, <2>4, <5>2, BlockStep
      <4> QED BY <4>1, <4>2
    <3> QED BY <2>1, <2>4, <2>5, <3>1, <3>2
  <2>6. CASE k # 1
    <3>1. k - 1 > 0 /\ lo + (k - 1) - 1 = x - 1 /\ x - 1 \in 1..Len(d) /\ lo <= x - 1 /\ x - 1 <= hi
      BY <1>1, <2>1, <2>6
    <3>2. 2 + Total(f, k - 1) = Blocks(d)[x - 1].used
      BY <1>6, <3>1
    <3>3. Blocks(d)[x - 1].blk = b
      BY <1>1, <3>1
    <3>4. Blocks(d)[x].used = Blocks(d)[x - 1].used + DentLen(d[x])
      <4>1. b # b + 1
        OBVIOUS
      <4> QED BY <2>1, <2>4, <3>3, <4>1, BlockStep
    <3> QED BY <2>1, <2>3, <2>4, <3>2, <3>4
  <2> QED BY <2>5, <2>6
<1>7. \A k \in 0..n : k \in T
  <2> HIDE DEF T
  <2> QED BY <1>2, <1>5, <1>6, Upward
<1>8. n \in T /\ n > 0 /\ lo + n - 1 = hi
  BY <1>1, <1>2, <1>7
<1>9. hi \in 0..Len(d)
  BY <1>1
<1> QED BY <1>2, <1>8, <1>9, BlocksHold

\* The sorted entries of a block are its stretch.
LEMMA StretchListed ==
    ASSUME NEW m \in Seq(LoadMember), Named(DirEnts(m)), NEW d, d = SortedByName(DirEnts(m)), NEW b \in Nat,
           NEW lo, NEW hi, Stretch(d, b, lo, hi), NEW S, S = HereSet(d, b)
    PROVE  /\ Cardinality(S) = hi - lo + 1
           /\ \A k \in 1..(hi - lo + 1) : SortedByName(S)[k] = d[lo + k - 1]
<1>1. /\ Sized(d) /\ DOMAIN d = 1..Len(d) /\ Listed(d, Len(d), DirEnts(m)) /\ Len(d) \in Nat
  BY EntriesSized DEF Sized
<1>2. /\ Named(S) /\ Listed(SortedByName(S), Cardinality(S), S)
      /\ \A e \in S : \E x \in 1..Len(d) : Blocks(d)[x].blk = b /\ d[x] = e
      /\ \A x \in 1..Len(d) : Blocks(d)[x].blk = b => d[x] \in S
  <2>1. InBlock(m, d, b, S)
    BY BlockEntries
  <2> QED BY <2>1 DEF InBlock
<1>3. lo \in 1..Len(d) /\ hi \in 1..Len(d) /\ lo <= hi
      /\ \A x \in 1..Len(d) : Blocks(d)[x].blk = b <=> lo <= x /\ x <= hi
  BY DEF Stretch
<1> DEFINE n == hi - lo + 1
           f == [k \in 1..n |-> d[lo + k - 1]]
<1>4. n \in Nat /\ \A k \in 1..n : lo + k - 1 \in 1..Len(d) /\ lo <= lo + k - 1 /\ lo + k - 1 <= hi
  BY <1>1, <1>3
<1>5. Listed(f, n, S)
  <2>1. \A k \in 1..n : f[k] = d[lo + k - 1] /\ f[k] \in S
    BY <1>2, <1>3, <1>4
  <2>2. f \in [1..n -> S]
    BY <2>1
  <2>3. \A x, y \in 1..n : x < y => f[x].name < f[y].name
    <3> SUFFICES ASSUME NEW x \in 1..n, NEW y \in 1..n, x < y PROVE f[x].name < f[y].name
      OBVIOUS
    <3>1. PICK a, c \in 1..Len(d) : a = lo + x - 1 /\ c = lo + y - 1 /\ a < c
      BY <1>3, <1>4
    <3>2. d[a].name < d[c].name
      BY <1>1, <3>1 DEF Listed
    <3> QED BY <2>1, <3>1, <3>2
  <2>4. \A e \in S : \E x \in 1..n : f[x] = e
    <3> SUFFICES ASSUME NEW e \in S PROVE \E x \in 1..n : f[x] = e
      OBVIOUS
    <3>1. PICK x \in 1..Len(d) : Blocks(d)[x].blk = b /\ d[x] = e
      BY <1>2
    <3>2. lo <= x /\ x <= hi
      BY <1>3, <3>1
    <3>3. x - lo + 1 \in 1..n /\ lo + (x - lo + 1) - 1 = x
      BY <1>3, <3>2
    <3>4. f[x - lo + 1] = e
      BY <2>1, <3>1, <3>3
    <3> QED BY <3>3, <3>4
  <2> HIDE DEF f, n
  <2> QED BY <1>4, <2>2, <2>3, <2>4 DEF Listed
<1>6. n = Cardinality(S) /\ f = SortedByName(S)
  <2> HIDE DEF f, n
  <2> QED BY <1>2, <1>5, ListUnique
<1> QED BY <1>6

\* The directory of a finished image.
DirectoryAt(p) ==
    /\ p \in Nat /\ p - 3 \in Nat /\ p - 3 <= BlockCount(Dir) - 1
    /\ image[p] = DirRecord(Dir, p - 3) /\ InBlock(mem, Dir, p - 3, HereSet(Dir, p - 3))

LEMMA DirFacts ==
    ASSUME UnloadInv, Finished
    PROVE  /\ mem \in Seq(LoadMember) /\ Named(DirEnts(mem)) /\ Dir = SortedByName(DirEnts(mem))
           /\ Sized(Dir) /\ Len(Dir) \in Nat /\ DOMAIN Dir = 1..Len(Dir) /\ Listed(Dir, Len(Dir), DirEnts(mem))
           /\ \A x \in 1..Len(Dir) : Dir[x] \in DirEnts(mem) /\ Dir[x].name \in Nat /\ Dir[x].name <= HighName
           /\ BlockCount(Dir) \in Nat \ {0} /\ DirBlocks = 3..(2 + BlockCount(Dir))
           /\ \A p \in DirBlocks : DirectoryAt(p)
<1>1. LibInv /\ pc \in {"assign", "data", "frame", "done"}
  BY DEF UnloadInv, Finished
<1>2. mem \in Seq(LoadMember) /\ Named(DirEnts(mem)) /\ Dir = SortedByName(DirEnts(mem))
  BY <1>1, MemFacts DEF Dir
<1>3. /\ Sized(Dir) /\ DOMAIN Dir = 1..Len(Dir) /\ Listed(Dir, Len(Dir), DirEnts(mem)) /\ Len(Dir) \in Nat
      /\ \A x \in 1..Len(Dir) : Dir[x] \in DirEnts(mem)
      /\ BlockCount(Dir) \in Nat \ {0}
  BY <1>2, EntriesSized DEF Sized
<1>4. \A x \in 1..Len(Dir) : Dir[x].name \in Nat /\ Dir[x].name <= HighName
  BY <1>2, <1>3, EntryTyped, LibrariesAssumption
<1>5. DirBlocks = 3..(2 + BlockCount(Dir))
  <2>1. DirBlocks = 3..(HeadLen - 1) /\ HeadLen = 3 + BlockCount(Dir)
    BY AllReloaded DEF HeadLen
  <2> QED BY <1>3, <2>1
<1>6. ASSUME NEW p \in DirBlocks PROVE DirectoryAt(p)
  <2>1. p \in Nat /\ p - 3 \in Nat /\ p - 3 <= BlockCount(Dir) - 1 /\ p - 2 \in 1..BlockCount(Dir)
        /\ 2 + (p - 2) = p /\ (p - 2) - 1 = p - 3
    BY <1>3, <1>5
  <2>2. \A b \in 1..BlockCount(Dir) : image[2 + b] = DirRecord(Dir, b - 1)
    BY AllReloaded DEF Written
  <2>3. image[p] = DirRecord(Dir, p - 3)
    BY <2>1, <2>2
  <2>4. InBlock(mem, Dir, p - 3, HereSet(Dir, p - 3))
    BY <1>2, <2>1, BlockEntries
  <2> QED BY <2>1, <2>3, <2>4 DEF DirectoryAt
<1> QED BY <1>2, <1>3, <1>4, <1>5, <1>6

\* The block of an entry has it.
LEMMA EntryFiled ==
    ASSUME UnloadInv, Finished, NEW k \in 1..Len(Dir), NEW p, p = 3 + Blocks(Dir)[k].blk
    PROVE  /\ p \in DirBlocks /\ p - 3 = Blocks(Dir)[k].blk
           /\ DirEntry(Dir[k]) \in {image[p].ents[x] : x \in DOMAIN image[p].ents}
<1>1. Sized(Dir) /\ BlockCount(Dir) \in Nat /\ DirBlocks = 3..(2 + BlockCount(Dir)) /\ \A s \in DirBlocks : DirectoryAt(s)
  BY DirFacts
<1>2. Blocks(Dir)[k].blk \in 0..(BlockCount(Dir) - 1)
  BY <1>1, LastBlock
<1>3. p \in DirBlocks /\ p - 3 = Blocks(Dir)[k].blk /\ p - 3 \in Nat
  BY <1>1, <1>2, SMTT(30)
<1>4. PICK b, S : b = p - 3 /\ S = HereSet(Dir, b)
  OBVIOUS
<1>5. InBlock(mem, Dir, b, S) /\ image[p] = DirRecord(Dir, b)
  BY <1>1, <1>3, <1>4 DEF DirectoryAt
<1>6. Dir[k] \in S /\ Listed(SortedByName(S), Cardinality(S), S) /\ DOMAIN SortedByName(S) = 1..Cardinality(S)
  BY <1>3, <1>4, <1>5 DEF InBlock
<1>7. PICK x \in 1..Cardinality(S) : SortedByName(S)[x] = Dir[k]
  BY <1>6 DEF Listed
<1>8. EntsOf(Dir, b) = SortedByName(S)
  BY <1>4 DEF EntsOf
<1>9. image[p].ents = [y \in 1..Cardinality(S) |-> DirEntry(EntsOf(Dir, b)[y])]
  <2>1. DirRecord(Dir, b).ents = [y \in DOMAIN EntsOf(Dir, b) |-> DirEntry(EntsOf(Dir, b)[y])]
    BY DEF DirRecord, EntsOf, HereSet, Here1
  <2> QED BY <1>5, <1>6, <1>8, <2>1
<1>10. x \in DOMAIN image[p].ents /\ image[p].ents[x] = DirEntry(Dir[k])
  BY <1>7, <1>8, <1>9
<1> QED BY <1>3, <1>10

LEMMA DirectoryRead ==
    ASSUME UnloadInv, Finished
    PROVE  ReadDirectory = {DirEntry(d) : d \in DirEnts(mem)}
<1>1. ASSUME NEW e \in ReadDirectory PROVE e \in {DirEntry(d) : d \in DirEnts(mem)}
  <2>1. PICK p \in DirBlocks : \E x \in DOMAIN image[p].ents : e = image[p].ents[x]
    BY DEF ReadDirectory
  <2>2. PICK x \in DOMAIN image[p].ents : e = image[p].ents[x]
    BY <2>1
  <2>3. PICK b, S : b = p - 3 /\ S = HereSet(Dir, b)
    OBVIOUS
  <2>4. InBlock(mem, Dir, b, S) /\ image[p] = DirRecord(Dir, b)
    BY <2>3, DirFacts DEF DirectoryAt
  <2>5. Listed(SortedByName(S), Cardinality(S), S) /\ DOMAIN SortedByName(S) = 1..Cardinality(S)
        /\ \A d \in S : d \in DirEnts(mem)
    BY <2>4 DEF InBlock
  <2>6. EntsOf(Dir, b) = SortedByName(S)
    BY <2>3 DEF EntsOf
  <2>7. image[p].ents = [y \in 1..Cardinality(S) |-> DirEntry(SortedByName(S)[y])]
    <3>1. DirRecord(Dir, b).ents = [y \in DOMAIN EntsOf(Dir, b) |-> DirEntry(EntsOf(Dir, b)[y])]
      BY DEF DirRecord, EntsOf, HereSet, Here1
    <3> QED BY <2>4, <2>5, <2>6, <3>1
  <2>8. x \in 1..Cardinality(S) /\ e = DirEntry(SortedByName(S)[x])
    BY <2>2, <2>7
  <2>9. SortedByName(S)[x] \in S
    BY <2>5, <2>8 DEF Listed
  <2> QED BY <2>5, <2>8, <2>9
<1>2. ASSUME NEW d \in DirEnts(mem) PROVE DirEntry(d) \in ReadDirectory
  <2>1. PICK k \in 1..Len(Dir) : Dir[k] = d
    BY DirFacts DEF Listed
  <2>2. PICK p : p = 3 + Blocks(Dir)[k].blk
    OBVIOUS
  <2>3. p \in DirBlocks /\ DirEntry(d) \in {image[p].ents[x] : x \in DOMAIN image[p].ents}
    BY <2>1, <2>2, EntryFiled
  <2> QED BY <2>3 DEF ReadDirectory
<1> QED BY <1>1, <1>2

\* The key of a block is the name of its last entry.
LEMMA KeyOf ==
    ASSUME UnloadInv, Finished, NEW p \in DirBlocks, p - 3 # BlockCount(Dir) - 1,
           NEW k \in 1..Len(Dir), Blocks(Dir)[k].blk = p - 3
    PROVE  /\ Dir[k].name <= image[p].key
           /\ \E z \in 1..Len(Dir) : Blocks(Dir)[z].blk = p - 3 /\ image[p].key = Dir[z].name
<1>1. DirectoryAt(p) /\ Sized(Dir) /\ \A x \in 1..Len(Dir) : Dir[x].name \in Nat
  BY DirFacts
<1>2. PICK b, S : b = p - 3 /\ S = HereSet(Dir, b)
  OBVIOUS
<1>3. InBlock(mem, Dir, b, S) /\ image[p] = DirRecord(Dir, b)
  BY <1>1, <1>2 DEF DirectoryAt
<1>4. PICK f, n : f = SortedByName(S) /\ n = Cardinality(S)
  OBVIOUS
<1>5. /\ Listed(f, n, S) /\ Len(f) = n /\ Dir[k] \in S /\ Here1(Dir, b) # {}
      /\ \A e \in S : \E x \in 1..Len(Dir) : Blocks(Dir)[x].blk = b /\ Dir[x] = e
  BY <1>2, <1>3, <1>4 DEF InBlock
<1>6. EntsOf(Dir, b) = f
  BY <1>2, <1>4 DEF EntsOf
<1>7. image[p].key = f[n].name
  <2>1. DirRecord(Dir, b).key = IF b = BlockCount(Dir) - 1 \/ Here1(Dir, b) = {} THEN HighName
                                ELSE EntsOf(Dir, b)[Len(EntsOf(Dir, b))].name
    BY DEF DirRecord, EntsOf, HereSet, Here1
  <2> QED BY <1>2, <1>3, <1>5, <1>6, <2>1
<1>8. PICK x \in 1..n : f[x] = Dir[k]
  BY <1>5 DEF Listed
<1>9. n \in Nat /\ n \in 1..n /\ f[n] \in S
  BY <1>5, <1>8 DEF Listed
<1>10. PICK z \in 1..Len(Dir) : Blocks(Dir)[z].blk = b /\ Dir[z] = f[n]
  BY <1>5, <1>9
<1>11. Dir[k].name <= f[n].name
  <2>1. CASE x = n
    <3>1. f[n] = Dir[k]
      BY <1>8, <2>1
    <3>2. Dir[k].name \in Nat
      BY <1>1
    <3> QED BY <3>1, <3>2
  <2>2. CASE x # n
    <3>1. x < n
      BY <1>9, <2>2
    <3>2. f[x].name < f[n].name
      BY <1>5, <1>9, <3>1 DEF Listed
    <3>3. Dir[k].name < Dir[z].name /\ Dir[k].name \in Nat /\ Dir[z].name \in Nat
      BY <1>1, <1>8, <1>10, <3>2
    <3> QED BY <1>10, <3>3
  <2> QED BY <2>1, <2>2
<1> QED BY <1>2, <1>7, <1>10, <1>11

\* A search by key ends in the block of the entry.
LEMMA KeyFinds ==
    ASSUME UnloadInv, Finished, NEW e \in ReadDirectory
    PROVE  \E p \in DirBlocks :
              /\ e \in {image[p].ents[x] : x \in DOMAIN image[p].ents}
              /\ image[p].key >= e.name
              /\ \A o \in DirBlocks : o < p => image[o].key < e.name
<1>1. /\ Sized(Dir) /\ Len(Dir) \in Nat /\ Listed(Dir, Len(Dir), DirEnts(mem)) /\ BlockCount(Dir) \in Nat \ {0}
      /\ DirBlocks = 3..(2 + BlockCount(Dir)) /\ HighName \in Nat
      /\ \A x \in 1..Len(Dir) : Dir[x].name \in Nat /\ Dir[x].name <= HighName
      /\ \A s \in DirBlocks : DirectoryAt(s)
  BY DirFacts, LibrariesAssumption
<1>2. PICK d \in DirEnts(mem) : e = DirEntry(d)
  BY DirectoryRead
<1>3. PICK k \in 1..Len(Dir) : Dir[k] = d
  BY <1>1 DEF Listed
<1>4. e.name = Dir[k].name
  BY <1>2, <1>3 DEF DirEntry
<1>5. PICK p : p = 3 + Blocks(Dir)[k].blk
  OBVIOUS
<1>6. p \in DirBlocks /\ p - 3 = Blocks(Dir)[k].blk /\ e \in {image[p].ents[x] : x \in DOMAIN image[p].ents}
  BY <1>2, <1>3, <1>5, EntryFiled
<1>7. image[p].key >= e.name
  <2>1. CASE p - 3 = BlockCount(Dir) - 1
    <3>1. image[p] = DirRecord(Dir, p - 3)
      BY <1>1, <1>6 DEF DirectoryAt
    <3>2. image[p].key = HighName
      BY <2>1, <3>1, DirRead
    <3> QED BY <1>1, <1>4, <3>2
  <2>2. CASE p - 3 # BlockCount(Dir) - 1
    <3>1. Dir[k].name <= image[p].key /\ \E z \in 1..Len(Dir) : image[p].key = Dir[z].name
      BY <1>6, <2>2, KeyOf
    <3> QED BY <1>1, <1>4, <3>1
  <2> QED BY <2>1, <2>2
<1>8. ASSUME NEW o \in DirBlocks, o < p PROVE image[o].key < e.name
  <2>1. o \in Nat /\ p \in Nat /\ o - 3 \in Nat /\ o - 3 < p - 3 /\ p - 3 <= BlockCount(Dir) - 1
        /\ o - 3 # BlockCount(Dir) - 1 /\ o - 3 \in 0..Blocks(Dir)[k].blk
    BY <1>1, <1>6, <1>8
  <2>2. PICK z \in 1..k : Blocks(Dir)[z].blk = o - 3
    BY <1>1, <2>1, BlocksFilled
  <2>3. z \in 1..Len(Dir)
    BY <1>1
  <2>4. PICK y \in 1..Len(Dir) : Blocks(Dir)[y].blk = o - 3 /\ image[o].key = Dir[y].name
    BY <2>1, <2>2, <2>3, KeyOf
  <2>5. y < k
    <3> SUFFICES ASSUME k <= y PROVE FALSE
      BY <1>1
    <3>1. k \in 0..Len(Dir) /\ y \in 0..Len(Dir)
      BY <1>1
    <3>2. Blocks(Dir)[k].blk <= Blocks(Dir)[y].blk
      BY <1>1, <3>1, BlocksRise
    <3> QED BY <1>6, <2>1, <2>4, <3>2
  <2>6. Dir[y].name < Dir[k].name
    BY <1>1, <2>5 DEF Listed
  <2> QED BY <1>4, <2>4, <2>6
<1> QED BY <1>6, <1>7, <1>8

\* The end mark is in the last block, and fits.
LEMMA BlockRoom ==
    ASSUME UnloadInv, Finished, NEW p \in DirBlocks,
           NEW f, \A x \in 1..Cardinality(HereSet(Dir, p - 3)) : f[x] = DentLen(SortedByName(HereSet(Dir, p - 3))[x])
    PROVE  /\ 2 + Total(f, Cardinality(HereSet(Dir, p - 3))) <= DirBlk
           /\ p - 3 = BlockCount(Dir) - 1 => 2 + Total(f, Cardinality(HereSet(Dir, p - 3))) + FFENT <= DirBlk
<1>1. /\ mem \in Seq(LoadMember) /\ Named(DirEnts(mem)) /\ Dir = SortedByName(DirEnts(mem))
      /\ Sized(Dir) /\ Len(Dir) \in Nat /\ DirectoryAt(p) /\ BlockCount(Dir) \in Nat
  BY DirFacts
<1>2. PICK d, b, S : d = Dir /\ b = p - 3 /\ S = HereSet(d, b)
  OBVIOUS
<1>3. InBlock(mem, d, b, S) /\ b \in Nat /\ Sized(d) /\ Len(d) \in Nat /\ BlockCount(d) \in Nat
  BY <1>1, <1>2 DEF DirectoryAt
<1>4. DirBlk \in Nat /\ DirBlk >= 48 /\ FFENT = 12
  BY DirAssumption DEF FFENT
<1>5. CASE S = {}
  <2>1. Cardinality(S) = 0
    BY <1>5, FS_EmptySet
  <2>2. Total(f, 0) = 0
    BY TotalStep
  <2>3. Total(f, Cardinality(S)) = 0
    BY <2>1, <2>2
  <2> QED BY <1>2, <1>4, <2>3
<1>6. CASE S # {}
  <2>1. PICK x \in 1..Len(d) : Blocks(d)[x].blk = b
    BY <1>3, <1>6 DEF InBlock
  <2>2. PICK lo, hi \in 1..Len(d) : Stretch(d, b, lo, hi)
    BY <1>3, <2>1, BlockStretch
  <2>3. PICK n : n = hi - lo + 1
    OBVIOUS
  <2>4. Cardinality(S) = n /\ \A k \in 1..n : SortedByName(S)[k] = d[lo + k - 1]
    <3>1. Cardinality(S) = hi - lo + 1 /\ \A k \in 1..(hi - lo + 1) : SortedByName(S)[k] = d[lo + k - 1]
      <4>1. d = SortedByName(DirEnts(mem))
        BY <1>1, <1>2
      <4> QED BY <1>1, <1>2, <1>3, <2>2, <4>1, StretchListed, SMTT(30)
    <3> QED BY <2>3, <3>1
  <2>5. \A k \in 1..n : f[k] = DentLen(d[lo + k - 1])
    BY <1>2, <2>4
  <2>6. 2 + Total(f, n) = Blocks(d)[hi].used /\ Blocks(d)[hi].used <= DirBlk
    <3>1. Lengths(f, d, lo, hi)
      BY <2>3, <2>5 DEF Lengths
    <3>2. 2 + Total(f, hi - lo + 1) = Blocks(d)[hi].used /\ Blocks(d)[hi].used <= DirBlk
      BY <1>3, <2>2, <3>1, StretchUsed
    <3> QED BY <2>3, <3>2
  <2>7. ASSUME b = BlockCount(d) - 1 PROVE Blocks(d)[hi].used + FFENT <= DirBlk
    <3>1. hi \in 0..Len(d) /\ Len(d) \in 0..Len(d) /\ hi <= Len(d) /\ Len(d) \in 1..Len(d)
      BY <1>3
    <3>2. Blocks(d)[hi].blk <= Blocks(d)[Len(d)].blk /\ Blocks(d)[Len(d)].blk \in Nat /\ Blocks(d)[Len(d)].used \in Nat
      BY <1>3, <3>1, BlocksRise, BlocksHold
    <3>3. Blocks(d)[hi].blk = b
      BY <1>3, <2>2 DEF Stretch
    <3>4. PICK w : w = Blocks(d)[Len(d)]
      OBVIOUS
    <3>5. BlockCount(d) = IF w.used + FFENT > DirBlk THEN w.blk + 2 ELSE w.blk + 1
      BY <3>4 DEF BlockCount
    <3>6. w.used + FFENT <= DirBlk /\ b = w.blk
      BY <1>3, <1>4, <2>7, <3>2, <3>3, <3>4, <3>5, SMTT(30)
    <3>7. Len(d) <= hi
      BY <2>2, <3>1, <3>4, <3>6 DEF Stretch
    <3>8. hi = Len(d)
      BY <1>3, <3>1, <3>7
    <3> QED BY <3>4, <3>6, <3>8
  <2> QED BY <1>2, <2>4, <2>6, <2>7
<1> QED BY <1>5, <1>6

LEMMA BlockBytes ==
    ASSUME UnloadInv, Finished, NEW p \in DirBlocks, NEW ents, ents = image[p].ents,
           NEW used, used = 2 + Total([x \in DOMAIN ents |-> IF ents[x].alias THEN ALIASENT ELSE MEMENT], Len(ents))
    PROVE  /\ used + (IF image[p].ff THEN FFENT ELSE 0) <= DirBlk
           /\ image[p].ff <=> \A o \in DirBlocks : o <= p
           /\ image[p].ff => image[p].key = HighName
<1>1. DirectoryAt(p) /\ BlockCount(Dir) \in Nat \ {0} /\ DirBlocks = 3..(2 + BlockCount(Dir))
  BY DirFacts
<1>2. PICK b, S, n, s : b = p - 3 /\ S = HereSet(Dir, b) /\ n = Cardinality(S) /\ s = SortedByName(S)
  OBVIOUS
<1>3. InBlock(mem, Dir, b, S) /\ image[p] = DirRecord(Dir, b) /\ b \in Nat /\ b <= BlockCount(Dir) - 1
  BY <1>1, <1>2 DEF DirectoryAt
<1>4. Listed(s, n, S) /\ Len(s) = n /\ DOMAIN s = 1..n /\ n \in Nat
  <2>1. Listed(s, n, S) /\ Len(s) = n /\ DOMAIN s = 1..n
    BY <1>2, <1>3 DEF InBlock
  <2> QED BY <2>1 DEF Listed
<1>5. EntsOf(Dir, b) = s
  BY <1>2 DEF EntsOf
<1>6. /\ ents = [y \in 1..n |-> DirEntry(s[y])]
      /\ image[p].ff = (b = BlockCount(Dir) - 1)
      /\ b = BlockCount(Dir) - 1 => image[p].key = HighName
  <2>1. /\ DirRecord(Dir, b).ents = [y \in DOMAIN EntsOf(Dir, b) |-> DirEntry(EntsOf(Dir, b)[y])]
        /\ DirRecord(Dir, b).ff = (b = BlockCount(Dir) - 1)
        /\ b = BlockCount(Dir) - 1 => DirRecord(Dir, b).key = HighName
    BY DEF DirRecord, EntsOf, HereSet, Here1
  <2> QED BY <1>3, <1>4, <1>5, <2>1
<1>7. \A y \in 1..n : ents[y] = DirEntry(s[y]) /\ ents[y].alias = (s[y].ai # 0)
  BY <1>6 DEF DirEntry
<1>8. Len(ents) = n /\ DOMAIN ents = 1..n
  <2> DEFINE V == {DirEntry(s[y]) : y \in 1..n}
  <2>1. ents \in [1..n -> V]
    BY <1>6
  <2> HIDE DEF V
  <2>2. ents \in Seq(V)
    BY <1>4, <2>1
  <2> QED BY <1>4, <2>1, <2>2
<1> DEFINE f == [x \in DOMAIN ents |-> IF ents[x].alias THEN ALIASENT ELSE MEMENT]
<1>9. \A x \in 1..n : f[x] = DentLen(s[x])
  BY <1>7, <1>8 DEF DentLen
<1> HIDE DEF f
<1>10. /\ 2 + Total(f, n) <= DirBlk
       /\ b = BlockCount(Dir) - 1 => 2 + Total(f, n) + FFENT <= DirBlk
  BY <1>2, <1>9, BlockRoom
<1>11. used = 2 + Total(f, n)
  BY <1>8 DEF f
<1>12. used \in Nat
  <2>1. \A x \in 1..n : f[x] \in Nat
    BY <1>9 DEF DentLen, MEMENT, ALIASENT
  <2>2. Total(f, n) \in Nat
    BY <1>4, <2>1, TotalStep
  <2> QED BY <1>11, <2>2
<1>13. used + (IF image[p].ff THEN FFENT ELSE 0) <= DirBlk
  <2>1. (IF image[p].ff THEN FFENT ELSE 0) = IF b = BlockCount(Dir) - 1 THEN FFENT ELSE 0
    BY <1>6
  <2>2. CASE b = BlockCount(Dir) - 1
    BY <1>10, <1>11, <2>1, <2>2
  <2>3. CASE b # BlockCount(Dir) - 1
    BY <1>10, <1>11, <1>12, <2>1, <2>3
  <2> QED BY <2>2, <2>3
<1>14. image[p].ff <=> \A o \in DirBlocks : o <= p
  <2>1. p \in 3..(2 + BlockCount(Dir)) /\ 2 + BlockCount(Dir) \in DirBlocks
    BY <1>1
  <2>2. (b = BlockCount(Dir) - 1) <=> (p = 2 + BlockCount(Dir))
    BY <1>1, <1>2, <2>1
  <2>3. (p = 2 + BlockCount(Dir)) <=> \A o \in DirBlocks : o <= p
    BY <1>1, <2>1
  <2> QED BY <1>6, <2>2, <2>3
<1> QED BY <1>6, <1>13, <1>14

\* IEBCOPY and BLDL find what dir_layout wrote: a search for a name by the keys of
\* the directory blocks ends in the block that has its entry, no block is given more
\* than its bytes, the end mark included, and the end mark is in the last block alone;
\* for every library whose names fit the directory, however it splits into blocks.
THEOREM KeysFind == Spec => []FoundByKey
<1>1. UnloadInv => FoundByKey
  <2> SUFFICES ASSUME UnloadInv, Finished
               PROVE  /\ \A e \in ReadDirectory :
                            \E p \in DirBlocks :
                                /\ e \in {image[p].ents[x] : x \in DOMAIN image[p].ents}
                                /\ image[p].key >= e.name
                                /\ \A o \in DirBlocks : o < p => image[o].key < e.name
                      /\ \A p \in DirBlocks :
                            LET ents == image[p].ents
                                used == 2 + Total([x \in DOMAIN ents |-> IF ents[x].alias THEN ALIASENT ELSE MEMENT], Len(ents))
                            IN /\ used + (IF image[p].ff THEN FFENT ELSE 0) <= DirBlk
                               /\ image[p].ff <=> \A o \in DirBlocks : o <= p
                               /\ image[p].ff => image[p].key = HighName
    BY DEF FoundByKey
  <2>1. \A e \in ReadDirectory :
            \E p \in DirBlocks :
                /\ e \in {image[p].ents[x] : x \in DOMAIN image[p].ents}
                /\ image[p].key >= e.name
                /\ \A o \in DirBlocks : o < p => image[o].key < e.name
    BY KeyFinds
  <2>2. ASSUME NEW p \in DirBlocks
        PROVE  LET ents == image[p].ents
                   used == 2 + Total([x \in DOMAIN ents |-> IF ents[x].alias THEN ALIASENT ELSE MEMENT], Len(ents))
               IN /\ used + (IF image[p].ff THEN FFENT ELSE 0) <= DirBlk
                  /\ image[p].ff <=> \A o \in DirBlocks : o <= p
                  /\ image[p].ff => image[p].key = HighName
    <3> DEFINE ents == image[p].ents
               used == 2 + Total([x \in DOMAIN ents |-> IF ents[x].alias THEN ALIASENT ELSE MEMENT], Len(ents))
    <3>1. PICK es, us : es = ents /\ us = used
      OBVIOUS
    <3>2. us = 2 + Total([x \in DOMAIN es |-> IF es[x].alias THEN ALIASENT ELSE MEMENT], Len(es))
      BY <3>1
    <3>3. /\ us + (IF image[p].ff THEN FFENT ELSE 0) <= DirBlk
          /\ image[p].ff <=> \A o \in DirBlocks : o <= p
          /\ image[p].ff => image[p].key = HighName
      <4> HIDE DEF used
      <4> QED BY <3>1, <3>2, BlockBytes
    <3> QED BY <3>1, <3>3, Zenon
  <2> QED BY <2>1, <2>2, Zenon
<1> QED BY <1>1, Unloading, PTL

(***************************************************************************)
(* The members read back.                                                  *)
(***************************************************************************)

\* The one record of a block, where its TTR says.
LEMMA BlockAt ==
    ASSUME UnloadInv, Finished, NEW u, Placed(u, Everything), NEW o \in Everything
    PROVE  \E p \in Data :
             /\ image[p] = RecordOf(o) /\ image[p].name = mem[o[1]].name /\ image[p].block = o[2]
             /\ image[p].kind = (IF o[2] = 0 THEN "eof" ELSE "data")
             /\ RelTrack(p) = at[o][1] /\ image[p].r = at[o][2] /\ at[o][2] % RecBase = at[o][2]
             /\ at[o][1] \in Nat /\ at[o][2] \in Nat
<1>1. PICK p \in Data : image[p] = RecordOf(o)
  BY AllReloaded DEF Written
<1>2. PICK w \in Everything :
             /\ image[p] = RecordOf(w) /\ at[w][1] \in Nat /\ at[w][2] \in 1..(RecBase - 1)
             /\ RelTrack(p) = at[w][1] /\ image[p].r = at[w][2]
             /\ image[p].name = mem[w[1]].name /\ image[p].block = w[2]
             /\ image[p].kind = (IF w[2] = 0 THEN "eof" ELSE "data")
  BY RecordPlace
<1>3. LibInv /\ pc \in {"assign", "data", "frame", "done"}
  BY DEF UnloadInv, Finished
<1>4. w = o
  BY <1>1, <1>2, <1>3, NamedOrder
<1>5. at[o][2] % RecBase = at[o][2] /\ at[o][2] \in Nat
  <2>1. RecBase \in Nat
    BY TrackAssumption
  <2> QED BY <1>2, <1>4, <2>1
<1> QED BY <1>1, <1>2, <1>4, <1>5

\* Records are found in the order of their blocks.
LEMMA InOrder ==
    ASSUME UnloadInv, Finished, NEW u, Placed(u, Everything), NEW p \in Data, NEW s \in Data,
           NEW o \in Everything, NEW w \in Everything, image[p] = RecordOf(o), image[s] = RecordOf(w)
    PROVE  p < s <=> Precedes(o, w)
<1>1. p \in Nat /\ s \in Nat
  BY AllReloaded
<1>2. p < s => Precedes(o, w)
  BY TracksAscend
<1>3. s < p => Precedes(w, o)
  BY TracksAscend
<1>4. o[1] \in Nat /\ o[2] \in Nat /\ w[1] \in Nat /\ w[2] \in Nat
  <2>1. o[1] \in 1..Len(mem) /\ o[2] \in Nat /\ w[1] \in 1..Len(mem) /\ w[2] \in Nat
    BY AllReloaded, GivenTyped DEF Everything
  <2> QED BY <2>1
<1>5. ~(Precedes(o, w) /\ Precedes(w, o))
  BY <1>4 DEF Precedes
<1>6. p = s => ~Precedes(o, w)
  <2> SUFFICES ASSUME p = s PROVE ~Precedes(o, w)
    OBVIOUS
  <2>1. LibInv /\ pc \in {"assign", "data", "frame", "done"}
    BY DEF UnloadInv, Finished
  <2>2. RecordOf(o) = RecordOf(w)
    OBVIOUS
  <2>3. o = w
    BY <2>1, <2>2, NamedOrder
  <2> QED BY <1>4, <2>3 DEF Precedes
<1> QED BY <1>1, <1>2, <1>3, <1>5, <1>6

LEMMA EveryBlock ==
    ASSUME UnloadInv, Finished, NEW X \in 1..Len(mem), NEW y \in 0..nb(X)
    PROVE  <<X, y>> \in Everything /\ nb(X) \in Nat \ {0} /\ X \in Nat
<1>1. LibInv /\ pc \in {"assign", "data", "frame", "done"}
  BY DEF UnloadInv, Finished
<1>2. Len(mem) \in Nat /\ nb(X) \in Nat \ {0}
  BY <1>1, MemFacts
<1> QED BY <1>2 DEF Everything, Given

\* member_bytes: the search by TTR ends at the member's first record, and stops at
\* its end of file.
LEMMA MemberBack ==
    ASSUME UnloadInv, Finished, NEW u, Placed(u, Everything), NEW X \in 1..Len(mem),
           NEW t, NEW n, t = at[<<X, 1>>][1], n = at[<<X, 1>>][2] % RecBase, NEW p \in Data
    PROVE  /\ MemberRecords(t, n) \subseteq Data
           /\ p \in MemberRecords(t, n) <=> \E y \in 1..nb(X) : image[p] = RecordOf(<<X, y>>)
<1>1. nb(X) \in Nat \ {0} /\ X \in Nat /\ <<X, 1>> \in Everything /\ <<X, 0>> \in Everything
      /\ \A y \in 1..nb(X) : <<X, y>> \in Everything
  <2>1. nb(X) \in Nat \ {0} /\ X \in Nat /\ <<X, 0>> \in Everything
    <3>1. LibInv /\ pc \in {"assign", "data", "frame", "done"}
      BY DEF UnloadInv, Finished
    <3>2. 0 \in 0..nb(X)
      BY <3>1, MemFacts
    <3> QED BY <3>2, EveryBlock
  <2>2. 1 \in 0..nb(X) /\ \A y \in 1..nb(X) : y \in 0..nb(X)
    BY <2>1
  <2> QED BY <2>1, <2>2, EveryBlock
<1>2. Data \subseteq Nat
  BY AllReloaded
<1>3. PICK p1 \in Data : /\ image[p1] = RecordOf(<<X, 1>>)
                         /\ RelTrack(p1) = t /\ image[p1].r = n /\ t \in Nat /\ n \in Nat
  BY <1>1, BlockAt
<1>4. PICK p0 \in Data : image[p0] = RecordOf(<<X, 0>>) /\ image[p0].kind = "eof"
  BY <1>1, BlockAt
<1> DEFINE starts == {s \in Data : Here(s) >= t * RecBase + n}
<1>5. starts = {s \in Data : s >= p1}
  <2>1. Here(p1) = t * RecBase + n /\ RecBase \in Nat
    BY <1>3, TrackAssumption DEF Here
  <2>2. ASSUME NEW s \in Data, s < p1 PROVE ~(Here(s) >= t * RecBase + n)
    <3>1. Here(s) \in Nat /\ Here(s) < Here(p1)
      BY <2>2, TracksAscend
    <3> QED BY <1>3, <2>1, <3>1
  <2>3. ASSUME NEW s \in Data, p1 < s PROVE Here(s) >= t * RecBase + n
    <3>1. Here(p1) < Here(s)
      BY <2>3, TracksAscend
    <3>2. Here(s) \in Nat
      <4>1. PICK o \in Everything : at[o][1] \in Nat /\ at[o][2] \in 1..(RecBase - 1) /\ RelTrack(s) = at[o][1] /\ image[s].r = at[o][2]
        BY RecordPlace
      <4>2. PICK y, z \in Nat : y = RelTrack(s) /\ z = image[s].r
        BY <4>1
      <4>3. y * RecBase + z \in Nat
        BY <2>1, TrackAssumption
      <4> QED BY <4>2, <4>3, Zenon DEF Here
    <3>3. t * RecBase + n \in Nat
      BY <1>3, <2>1
    <3> QED BY <2>1, <3>1, <3>2, <3>3
  <2>4. Here(p1) >= t * RecBase + n
    <3>1. t * RecBase + n \in Nat
      BY <1>3, <2>1
    <3> QED BY <2>1, <3>1
  <2>5. \A s \in Data : s < p1 \/ s = p1 \/ p1 < s
    BY <1>2
  <2>6. \A s \in Data : s \in starts <=> s >= p1
    BY <1>2, <2>2, <2>3, <2>4, <2>5
  <2> QED BY <2>6
<1>6. starts # {} /\ starts \subseteq Nat /\ p1 \in starts
  <2>1. p1 \in Nat /\ p1 >= p1
    BY <1>2
  <2>2. p1 \in starts
    BY <1>5, <2>1
  <2> QED BY <1>2, <2>2
<1>7. Least(starts) = p1
  <2> HIDE DEF starts
  <2>1. Least(starts) \in starts /\ \A y \in starts : Least(starts) <= y
    BY <1>6, LeastIs
  <2> QED BY <1>2, <1>5, <1>6, <2>1
<1> DEFINE ends == {s \in Data : s >= p1 /\ image[s].kind = "eof"}
<1>8. p1 < p0
  <2>1. Precedes(<<X, 1>>, <<X, 0>>)
    BY DEF Precedes
  <2> QED BY <1>1, <1>3, <1>4, <2>1, InOrder
<1>9. ASSUME NEW s \in Data
      PROVE  (p1 <= s /\ s < p0) <=> \E y \in 1..nb(X) : image[s] = RecordOf(<<X, y>>)
  <2>1. PICK o \in Everything : image[s] = RecordOf(o)
    BY AllReloaded DEF Written
  <2>2. o[1] \in Nat /\ o[2] \in Nat /\ o = <<o[1], o[2]>> /\ o[2] <= nb(o[1])
    BY AllReloaded, GivenTyped, SMTT(30) DEF Everything
  <2>3. s < p0 <=> Precedes(o, <<X, 0>>)
    BY <1>1, <1>4, <2>1, InOrder
  <2>4. s < p1 <=> Precedes(o, <<X, 1>>)
    BY <1>1, <1>3, <2>1, InOrder
  <2>5. (p1 <= s /\ s < p0) <=> (o[1] = X /\ o[2] # 0)
    BY <1>1, <1>2, <2>2, <2>3, <2>4 DEF Precedes
  <2>6. (o[1] = X /\ o[2] # 0) <=> \E y \in 1..nb(X) : o = <<X, y>>
    BY <1>1, <2>2
  <2>7. \A y \in 1..nb(X) : image[s] = RecordOf(<<X, y>>) <=> o = <<X, y>>
    <3>1. LibInv /\ pc \in {"assign", "data", "frame", "done"}
      BY DEF UnloadInv, Finished
    <3>2. \A w \in Everything : RecordOf(w) = RecordOf(o) => w = o
      BY <3>1, NamedOrder
    <3> QED BY <1>1, <2>1, <3>2
  <2> QED BY <2>5, <2>6, <2>7
<1>10. ends # {} /\ ends \subseteq Nat /\ p0 \in ends
  <2>1. p0 \in Nat /\ p1 \in Nat /\ p0 >= p1
    BY <1>2, <1>8
  <2>2. p0 \in ends
    BY <1>4, <2>1
  <2> QED BY <1>2, <2>2
<1>11. \A s \in ends : p0 <= s
  <2> SUFFICES ASSUME NEW s \in ends, s < p0 PROVE FALSE
    BY <1>2, <1>10
  <2>1. s \in Data /\ p1 <= s /\ image[s].kind = "eof"
    BY <1>2
  <2>2. PICK y \in 1..nb(X) : image[s] = RecordOf(<<X, y>>)
    BY <1>9, <2>1
  <2>3. RecordOf(<<X, y>>).kind = "data"
    BY <1>1 DEF RecordOf, DataRecord
  <2> QED BY <2>1, <2>2, <2>3
<1>12. Least(ends) = p0
  <2> HIDE DEF ends
  <2>1. Least(ends) \in ends /\ \A y \in ends : Least(ends) <= y
    BY <1>10, LeastIs
  <2>2. Least(ends) \in Nat /\ p0 \in Nat
    BY <1>10, <2>1
  <2>3. Least(ends) <= p0 /\ p0 <= Least(ends)
    BY <1>10, <1>11, <2>1
  <2> QED BY <2>2, <2>3
<1>13. MemberRecords(t, n) = {s \in Data : s >= p1 /\ s < p0}
  <2>1. MemberRecords(t, n) =
          IF (IF starts = {} THEN {} ELSE {s \in Data : s >= Least(starts) /\ image[s].kind = "eof"}) = {} THEN {}
          ELSE {s \in Data : s >= Least(starts)
                             /\ s < Least(IF starts = {} THEN {} ELSE {x \in Data : x >= Least(starts) /\ image[x].kind = "eof"})}
    BY Zenon DEF MemberRecords
  <2>2. (IF starts = {} THEN {} ELSE {s \in Data : s >= Least(starts) /\ image[s].kind = "eof"}) = ends
    <3> HIDE DEF starts
    <3> QED BY <1>6, <1>7
  <2> HIDE DEF starts, ends
  <2> QED BY <1>7, <1>10, <1>12, <2>1, <2>2
<1> QED BY <1>2, <1>9, <1>13

\* The entry of a name, and the blocks it leads to.
EntryFor(d, x, name) ==
    /\ d \in DirEnts(mem) /\ d.mi \in 1..Len(mem) /\ mem[d.mi] = lib[x]
    /\ d.name = name /\ (d.ai # 0 <=> name # lib[x].name)
    /\ \A w \in DirEnts(mem) : w.name = name => w = d

LEMMA EntryExists ==
    ASSUME UnloadInv, Finished, NEW x \in DOMAIN lib,
           NEW name \in {lib[x].name} \union {lib[x].aliases[y] : y \in DOMAIN lib[x].aliases}
    PROVE  \E d : EntryFor(d, x, name)
<1>1. LibInv /\ pc \in {"assign", "data", "frame", "done"}
  BY DEF UnloadInv, Finished
<1>2. /\ mem \in Seq(LoadMember) /\ Same(mem, lib) /\ DOMAIN mem = 1..Len(mem) /\ Named(DirEnts(mem))
  BY <1>1, MemFacts
<1>3. PICK X \in DOMAIN mem : mem[X] = lib[x]
  BY <1>2 DEF Same
<1>4. PICK a : a = [name |-> mem[X].name, mi |-> X, ai |-> 0]
  OBVIOUS
<1>5. a \in DirEnts(mem) /\ a.name = mem[X].name /\ a.mi = X /\ a.ai = 0
  BY <1>4, EntryOf
<1>6. \A d, w \in DirEnts(mem) : w.name = d.name => w = d
  BY <1>2 DEF Named
<1>7. CASE name = lib[x].name
  <2>1. EntryFor(a, x, name)
    BY <1>2, <1>3, <1>5, <1>6, <1>7 DEF EntryFor
  <2> QED BY <2>1
<1>8. CASE name # lib[x].name
  <2>1. PICK y \in DOMAIN mem[X].aliases : name = mem[X].aliases[y]
    BY <1>3, <1>8
  <2>2. PICK d : d = [name |-> mem[X].aliases[y], mi |-> X, ai |-> y]
    OBVIOUS
  <2>3. d \in DirEnts(mem) /\ d.name = name /\ d.mi = X /\ d.ai = y
    BY <2>1, <2>2, EntryOf
  <2>4. y # 0
    <3>1. y \in 1..Len(mem[X].aliases)
      BY <1>2, MemberTyped
    <3> QED BY <3>1
  <2>5. EntryFor(d, x, name)
    BY <1>2, <1>3, <1>6, <1>8, <2>3, <2>4 DEF EntryFor
  <2> QED BY <2>5
<1> QED BY <1>7, <1>8

\* What one entry gives back of its member.
Recovered(e, x, name, recs, texts) ==
    /\ e.name = name /\ e.alias = (name # lib[x].name)
    /\ \A d \in ReadDirectory : d.name = name => d = e
    /\ {<<image[p].name, image[p].block>> : p \in recs} = {<<lib[x].name, y>> : y \in DOMAIN lib[x].blocks}
    /\ \A p, s \in recs : p < s => image[p].block < image[s].block
    /\ texts # {} => \E p \in recs : /\ image[p].block = Least(texts)
                                     /\ <<RelTrack(p), image[p].r>> = e.text

LEMMA EntryRecovers ==
    ASSUME UnloadInv, Finished, NEW x \in DOMAIN lib, NEW name, NEW d, EntryFor(d, x, name),
           NEW e, e = DirEntry(d), NEW recs, recs = MemberRecords(e.tt, e.r),
           NEW texts, texts = {y \in DOMAIN lib[x].blocks : lib[x].blocks[y].text}
    PROVE  e \in ReadDirectory /\ Recovered(e, x, name, recs, texts)
<1>1. PICK u : Placed(u, Everything)
  BY DEF UnloadInv, AssignInv, Finished
<1>2. LibInv /\ pc \in {"assign", "data", "frame", "done"}
  BY DEF UnloadInv, Finished
<1>3. PICK X \in 1..Len(mem) : X = d.mi /\ mem[X] = lib[x]
  BY DEF EntryFor
<1>4. DOMAIN mem = 1..Len(mem) /\ nb(X) \in Nat \ {0} /\ DOMAIN mem[X].blocks = 1..nb(X)
  BY <1>2, MemFacts
<1>5. /\ e.name = name /\ e.alias = (d.ai # 0)
      /\ e.tt = at[<<X, 1>>][1] /\ e.r = at[<<X, 1>>][2] % RecBase
      /\ e.text = <<TextAt(X)[1], TextAt(X)[2] % RecBase>>
  BY <1>3 DEF DirEntry, EntryFor, FirstAt
<1>6. e \in ReadDirectory /\ e.alias = (name # lib[x].name)
  BY <1>5, DirectoryRead DEF EntryFor
<1>7. ASSUME NEW c \in ReadDirectory, c.name = name PROVE c = e
  <2>1. PICK w \in DirEnts(mem) : c = DirEntry(w)
    BY DirectoryRead
  <2>2. w.name = name
    BY <1>7, <2>1 DEF DirEntry
  <2> QED BY <2>1, <2>2 DEF EntryFor
<1>8. recs \subseteq Data /\ \A p \in Data : p \in recs <=> \E y \in 1..nb(X) : image[p] = RecordOf(<<X, y>>)
  <2>1. ASSUME NEW p \in Data PROVE recs \subseteq Data /\ (p \in recs <=> \E y \in 1..nb(X) : image[p] = RecordOf(<<X, y>>))
    BY <1>1, <1>5, MemberBack
  <2>2. PICK p : p \in Data
    <3>1. <<X, 1>> \in Everything
      BY <1>4, EveryBlock
    <3> QED BY <1>1, <3>1, BlockAt
  <2> QED BY <2>1, <2>2
<1>9. \A y \in 1..nb(X) : /\ <<X, y>> \in Everything /\ RecordOf(<<X, y>>).name = lib[x].name
                          /\ RecordOf(<<X, y>>).block = y
  <2> SUFFICES ASSUME NEW y \in 1..nb(X)
               PROVE  <<X, y>> \in Everything /\ RecordOf(<<X, y>>).name = lib[x].name /\ RecordOf(<<X, y>>).block = y
    OBVIOUS
  <2>1. <<X, y>> \in Everything
    <3>1. y \in 0..nb(X)
      BY <1>4
    <3> QED BY <3>1, EveryBlock
  <2> QED BY <1>3, <2>1 DEF RecordOf, DataRecord
<1>10. {<<image[p].name, image[p].block>> : p \in recs} = {<<lib[x].name, y>> : y \in DOMAIN lib[x].blocks}
  <2>1. DOMAIN lib[x].blocks = 1..nb(X)
    BY <1>3, <1>4
  <2>2. ASSUME NEW p \in recs PROVE \E y \in 1..nb(X) : image[p].name = lib[x].name /\ image[p].block = y
    <3>1. p \in Data
      BY <1>8
    <3>2. PICK y \in 1..nb(X) : image[p] = RecordOf(<<X, y>>)
      BY <1>8, <3>1
    <3> QED BY <1>9, <3>2
  <2>3. ASSUME NEW y \in 1..nb(X) PROVE \E p \in recs : image[p].name = lib[x].name /\ image[p].block = y
    <3>1. PICK p \in Data : image[p] = RecordOf(<<X, y>>)
      BY <1>1, <1>9, BlockAt
    <3>2. p \in recs
      BY <1>8, <3>1
    <3> QED BY <1>9, <3>1, <3>2
  <2> QED BY <2>1, <2>2, <2>3
<1>11. ASSUME NEW p \in recs, NEW s \in recs, p < s PROVE image[p].block < image[s].block
  <2>1. PICK y \in 1..nb(X) : image[p] = RecordOf(<<X, y>>)
    BY <1>8
  <2>2. PICK z \in 1..nb(X) : image[s] = RecordOf(<<X, z>>)
    BY <1>8
  <2>3. p \in Data /\ s \in Data /\ <<X, y>> \in Everything /\ <<X, z>> \in Everything
    BY <1>8, <1>9
  <2>4. Precedes(<<X, y>>, <<X, z>>)
    BY <1>1, <1>11, <2>1, <2>2, <2>3, InOrder
  <2>5. y < z
    BY <1>4, <2>4 DEF Precedes
  <2> QED BY <1>9, <2>1, <2>2, <2>5
<1>12. ASSUME texts # {} PROVE \E p \in recs : image[p].block = Least(texts) /\ <<RelTrack(p), image[p].r>> = e.text
  <2>1. texts = {y \in DOMAIN mem[X].blocks : mem[X].blocks[y].text} /\ texts \subseteq 1..nb(X) /\ texts \subseteq Nat
    BY <1>3, <1>4
  <2>2. PICK l : l = Least(texts)
    OBVIOUS
  <2>3. l \in texts /\ l \in 1..nb(X)
    BY <1>12, <2>1, <2>2, LeastIs
  <2>4. TextAt(X) = at[<<X, l>>]
    <3>1. l = CHOOSE y \in texts : \A z \in texts : y <= z
      BY <2>2, Zenon DEF Least
    <3> DEFINE V == {y \in DOMAIN mem[X].blocks : mem[X].blocks[y].text}
    <3>2. TextAt(X) = IF V = {} THEN FirstAt(X) ELSE at[<<X, CHOOSE y \in V : \A z \in V : y <= z>>]
      BY Zenon DEF TextAt
    <3>3. V = texts
      BY <2>1
    <3> HIDE DEF V
    <3> QED BY <1>12, <3>1, <3>2, <3>3
  <2>5. PICK p \in Data : /\ image[p] = RecordOf(<<X, l>>) /\ RelTrack(p) = at[<<X, l>>][1]
                          /\ image[p].r = at[<<X, l>>][2] /\ at[<<X, l>>][2] % RecBase = at[<<X, l>>][2]
    BY <1>1, <1>9, <2>3, BlockAt
  <2>6. p \in recs /\ image[p].block = l
    BY <1>8, <1>9, <2>3, <2>5
  <2> QED BY <1>5, <2>2, <2>4, <2>5, <2>6
<1> QED BY <1>5, <1>6, <1>7, <1>10, <1>11, <1>12 DEF Recovered

\* Nothing is lost between ld370 and xmit370: after the sort, the packing of
\* emit_unload and the framing of emit_xmit, read back a variable record at a time,
\* every member and alias name has one entry, whose TTR leads to exactly the blocks of
\* its member in their order, and whose text TTR is that of the first text block;
\* for every library and geometry.
THEOREM ReloadComplete == Spec => []ReloadRecovers
<1>1. UnloadInv => ReloadRecovers
  <2> SUFFICES ASSUME UnloadInv, Finished, NEW x \in DOMAIN lib,
                      NEW name \in {lib[x].name} \union {lib[x].aliases[y] : y \in DOMAIN lib[x].aliases}
               PROVE  \E e \in ReadDirectory :
                        LET recs == MemberRecords(e.tt, e.r)
                            texts == {y \in DOMAIN lib[x].blocks : lib[x].blocks[y].text}
                        IN /\ e.name = name /\ e.alias = (name # lib[x].name)
                           /\ \A d \in ReadDirectory : d.name = name => d = e
                           /\ {<<image[p].name, image[p].block>> : p \in recs}
                                 = {<<lib[x].name, y>> : y \in DOMAIN lib[x].blocks}
                           /\ \A p, s \in recs : p < s => image[p].block < image[s].block
                           /\ texts # {} => \E p \in recs : /\ image[p].block = Least(texts)
                                                          /\ <<RelTrack(p), image[p].r>> = e.text
    BY Zenon DEF ReloadRecovers
  <2>1. PICK d : EntryFor(d, x, name)
    BY EntryExists
  <2>2. PICK e : e = DirEntry(d)
    OBVIOUS
  <2> DEFINE recs == MemberRecords(e.tt, e.r)
             texts == {y \in DOMAIN lib[x].blocks : lib[x].blocks[y].text}
  <2>3. PICK rs, ts : rs = recs /\ ts = texts
    OBVIOUS
  <2>4. e \in ReadDirectory /\ Recovered(e, x, name, rs, ts)
    BY <2>1, <2>2, <2>3, EntryRecovers
  <2>5. Recovered(e, x, name, recs, texts)
    <3> HIDE DEF recs, texts
    <3> QED BY <2>3, <2>4
  <2> QED BY <2>4, <2>5, Zenon DEF Recovered
<1> QED BY <1>1, Unloading, PTL

(***************************************************************************)
(* The size of the image.                                                  *)
(***************************************************************************)
LEMMA TotalRises ==
    ASSUME NEW n \in Nat, NEW f, \A k \in 1..n : f[k] \in Nat, NEW a \in 0..n
    PROVE  Total(f, a) \in Nat /\ Total(f, n) \in Nat /\ Total(f, a) <= Total(f, n)
<1>1. \A k \in 0..n : Total(f, k) \in Nat
  <2> SUFFICES ASSUME NEW k \in 0..n PROVE Total(f, k) \in Nat
    OBVIOUS
  <2>1. k \in Nat /\ \A x \in 1..k : f[x] \in Nat
    OBVIOUS
  <2> QED BY <2>1, TotalStep
<1> DEFINE T == {k \in 0..n : a <= k => Total(f, a) <= Total(f, k)}
<1>2. 0 \in T
  <2>1. a <= 0 => a = 0
    OBVIOUS
  <2>2. Total(f, a) \in Nat
    BY <1>1
  <2> QED BY <2>1, <2>2
<1>3. ASSUME NEW k \in 1..n, k - 1 \in T PROVE k \in T
  <2>1. k \in 0..n /\ k - 1 \in 0..n /\ k \in Nat /\ k > 0 /\ f[k] \in Nat /\ \A x \in 1..k : f[x] \in Nat
    OBVIOUS
  <2>2. Total(f, k) = Total(f, k - 1) + f[k] /\ Total(f, k - 1) \in Nat /\ Total(f, k) \in Nat /\ Total(f, a) \in Nat
    BY <1>1, <2>1, TotalStep
  <2>3. CASE a <= k - 1
    BY <1>3, <2>1, <2>2, <2>3
  <2>4. CASE ~(a <= k - 1)
    <3>1. a <= k => a = k
      BY <2>1, <2>4
    <3> QED BY <2>1, <2>2, <3>1
  <2> QED BY <2>3, <2>4
<1>4. \A k \in 0..n : k \in T
  <2> HIDE DEF T
  <2> QED BY <1>2, <1>3, Upward
<1>5. n \in T /\ a <= n /\ n \in 0..n
  BY <1>4
<1> QED BY <1>1, <1>5

\* A sum without one of its terms.
Without(g, c, n) == [x \in 1..(n - 1) |-> IF x < c THEN g[x] ELSE g[x + 1]]

LEMMA TotalWithout ==
    ASSUME NEW n \in Nat, NEW g, \A k \in 1..n : g[k] \in Nat, NEW c \in 1..n
    PROVE  Total(g, n) = Total(Without(g, c, n), n - 1) + g[c]
<1> DEFINE h == Without(g, c, n)
<1>1. \A x \in 1..(n - 1) : h[x] \in Nat /\ h[x] = IF x < c THEN g[x] ELSE g[x + 1]
  BY DEF Without
<1> HIDE DEF h
<1> DEFINE T == {k \in 0..n : k >= c => Total(g, k) = Total(h, k - 1) + g[c]}
<1>2. 0 \in T
  OBVIOUS
<1>3. ASSUME NEW k \in 1..n, k - 1 \in T PROVE k \in T
  <2>1. k \in Nat /\ k > 0 /\ k \in 0..n /\ \A x \in 1..k : g[x] \in Nat
    OBVIOUS
  <2>2. Total(g, k) = Total(g, k - 1) + g[k] /\ Total(g, k - 1) \in Nat
    BY <2>1, TotalStep
  <2>3. CASE k = c
    <3>1. k - 1 \in Nat /\ \A x \in 1..(k - 1) : g[x] \in Nat /\ h[x] = g[x]
      BY <1>1, <2>1, <2>3
    <3>2. Total(h, k - 1) = Total(g, k - 1)
      BY <3>1, TotalSame
    <3> QED BY <2>1, <2>2, <2>3, <3>2
  <2>4. CASE k > c
    <3>1. k - 1 \in Nat /\ k - 1 > 0 /\ k - 1 \in 1..(n - 1) /\ k - 1 >= c /\ \A x \in 1..(k - 1) : h[x] \in Nat
      BY <1>1, <2>4
    <3>2. Total(h, k - 1) = Total(h, (k - 1) - 1) + h[k - 1] /\ Total(h, (k - 1) - 1) \in Nat
      BY <3>1, TotalStep
    <3>3. h[k - 1] = g[k]
      <4>1. h[k - 1] = g[(k - 1) + 1] /\ (k - 1) + 1 = k
        BY <1>1, <3>1
      <4> QED BY <4>1
    <3>4. Total(g, k - 1) = Total(h, (k - 1) - 1) + g[c]
      BY <1>3, <3>1
    <3>5. g[c] \in Nat /\ g[k] \in Nat
      OBVIOUS
    <3> QED BY <2>1, <2>2, <3>2, <3>3, <3>4, <3>5
  <2>5. CASE k < c
    BY <2>1, <2>5
  <2> QED BY <2>3, <2>4, <2>5
<1>4. \A k \in 0..n : k \in T
  <2> HIDE DEF T
  <2> QED BY <1>2, <1>3, Upward
<1>5. n \in T /\ n >= c
  BY <1>4
<1> QED BY <1>5 DEF h

\* w lists the numbers 1..n, each once.
Order(w, n) == /\ w \in [1..n -> 1..n] /\ \A x, y \in 1..n : w[x] = w[y] => x = y
               /\ \A y \in 1..n : \E x \in 1..n : w[x] = y
Reorders(f, n) ==
    \A w, g : Order(w, n) /\ (\A x \in 1..n : g[x] = f[w[x]]) => Total(g, n) = Total(f, n)

\* The order of its terms does not change a sum.
LEMMA TotalReordered ==
    ASSUME NEW N \in Nat, NEW f, \A k \in 1..N : f[k] \in Nat
    PROVE  Reorders(f, N)
<1> DEFINE T == {n \in 0..N : Reorders(f, n)}
<1>1. 0 \in T
  <2>1. ASSUME NEW g PROVE Total(g, 0) = Total(f, 0)
    <3>1. 0 \in Nat /\ (\A k \in 1..0 : f[k] \in Nat) /\ (\A k \in 1..0 : g[k] \in Nat)
      OBVIOUS
    <3> QED BY <3>1, TotalStep
  <2> QED BY <2>1 DEF Reorders
<1>2. ASSUME NEW n \in 1..N, n - 1 \in T PROVE n \in T
  <2>1. n \in Nat /\ n > 0 /\ n \in 0..N /\ \A k \in 1..n : f[k] \in Nat
    OBVIOUS
  <2> SUFFICES ASSUME NEW w, NEW g, Order(w, n), \A x \in 1..n : g[x] = f[w[x]]
               PROVE  Total(g, n) = Total(f, n)
    BY <2>1 DEF Reorders
  <2>2. /\ w \in [1..n -> 1..n] /\ \A x, y \in 1..n : w[x] = w[y] => x = y
        /\ \A y \in 1..n : \E x \in 1..n : w[x] = y
    BY DEF Order
  <2>3. PICK c \in 1..n : w[c] = n
    BY <2>1, <2>2
  <2>4. \A k \in 1..n : g[k] \in Nat
    BY <2>1, <2>2
  <2> DEFINE v == [x \in 1..(n - 1) |-> IF x < c THEN w[x] ELSE w[x + 1]]
             h == Without(g, c, n)
  <2>5. ASSUME NEW x \in 1..(n - 1)
        PROVE  /\ x \in 1..n /\ x + 1 \in 1..n /\ v[x] \in 1..(n - 1) /\ h[x] = f[v[x]]
               /\ v[x] = IF x < c THEN w[x] ELSE w[x + 1]
    <3>1. x \in 1..n /\ x + 1 \in 1..n
      BY <2>1
    <3>2. w[x] \in 1..n /\ w[x + 1] \in 1..n /\ (x # c => w[x] # n) /\ (x + 1 # c => w[x + 1] # n)
      BY <2>2, <2>3, <3>1
    <3>3. v[x] = IF x < c THEN w[x] ELSE w[x + 1]
      OBVIOUS
    <3>4. h[x] = IF x < c THEN g[x] ELSE g[x + 1]
      BY DEF Without
    <3>5. g[x] = f[w[x]] /\ g[x + 1] = f[w[x + 1]]
      BY <3>1
    <3> HIDE DEF v, h
    <3>6. CASE x < c
      <4>1. x # c
        BY <3>6
      <4> QED BY <2>1, <3>1, <3>2, <3>3, <3>4, <3>5, <3>6, <4>1
    <3>7. CASE ~(x < c)
      <4>1. x + 1 # c
        BY <3>7
      <4> QED BY <2>1, <3>1, <3>2, <3>3, <3>4, <3>5, <3>7, <4>1
    <3> QED BY <3>6, <3>7
  <2>6. Order(v, n - 1)
    <3>1. v \in [1..(n - 1) -> 1..(n - 1)]
      BY <2>5
    <3> HIDE DEF v
    <3>2. ASSUME NEW x \in 1..(n - 1), NEW y \in 1..(n - 1), v[x] = v[y] PROVE x = y
      <4>1. /\ v[x] = (IF x < c THEN w[x] ELSE w[x + 1]) /\ v[y] = (IF y < c THEN w[y] ELSE w[y + 1])
            /\ x \in 1..n /\ x + 1 \in 1..n /\ y \in 1..n /\ y + 1 \in 1..n
        BY <2>5
      <4>2. PICK a, b \in 1..n : a = (IF x < c THEN x ELSE x + 1) /\ b = (IF y < c THEN y ELSE y + 1)
        BY <4>1
      <4>3. w[a] = w[b]
        BY <3>2, <4>1, <4>2
      <4>4. a = b
        BY <2>2, <4>3
      <4> QED BY <4>2, <4>4
    <3>3. ASSUME NEW y \in 1..(n - 1) PROVE \E x \in 1..(n - 1) : v[x] = y
      <4>1. y \in 1..n /\ y # n
        BY <2>1
      <4>2. PICK x \in 1..n : w[x] = y
        BY <2>2, <4>1
      <4>3. x # c
        BY <2>3, <4>1, <4>2
      <4>4. CASE x < c
        <5>1. x \in 1..(n - 1)
          BY <2>1, <4>4
        <5>2. v[x] = w[x]
          BY <2>5, <4>4, <5>1
        <5> QED BY <4>2, <5>1, <5>2
      <4>5. CASE x > c
        <5>1. x - 1 \in 1..(n - 1) /\ ~(x - 1 < c) /\ (x - 1) + 1 = x
          BY <2>1, <4>5
        <5>2. v[x - 1] = w[(x - 1) + 1]
          BY <2>5, <5>1
        <5>3. v[x - 1] = y
          BY <4>2, <5>1, <5>2
        <5> QED BY <5>1, <5>3
      <4> QED BY <2>1, <4>3, <4>4, <4>5
    <3> QED BY <3>1, <3>2, <3>3 DEF Order
  <2>7. \A x \in 1..(n - 1) : h[x] = f[v[x]]
    BY <2>5
  <2> HIDE DEF v, h
  <2>8. Reorders(f, n - 1)
    BY <1>2
  <2>9. Total(h, n - 1) = Total(f, n - 1)
    BY <2>6, <2>7, <2>8 DEF Reorders
  <2>10. Total(g, n) = Total(h, n - 1) + g[c]
    BY <2>1, <2>4, TotalWithout DEF h
  <2>11. g[c] = f[n] /\ Total(f, n) = Total(f, n - 1) + f[n]
    BY <2>1, <2>3, TotalStep
  <2> QED BY <2>9, <2>10, <2>11
<1>3. \A n \in 0..N : n \in T
  <2> HIDE DEF T
  <2> QED BY <1>1, <1>2, Upward
<1> QED BY <1>3

Sizes(m) == [x \in DOMAIN m |-> MemberSize(m[x])]
BlkSizes(m) == [y \in DOMAIN m.blocks |-> 12 + m.blocks[y].len]

LEMMA SizesTyped ==
    ASSUME NEW l \in Seq(LoadMember), NEW x \in 1..Len(l)
    PROVE  /\ Sizes(l)[x] = MemberSize(l[x]) /\ MemberSize(l[x]) \in Nat
           /\ MemberSize(l[x]) = Total(BlkSizes(l[x]), Len(l[x].blocks)) + 12
           /\ Total(BlkSizes(l[x]), Len(l[x].blocks)) \in Nat
           /\ \A y \in 1..Len(l[x].blocks) : BlkSizes(l[x])[y] = 12 + l[x].blocks[y].len /\ BlkSizes(l[x])[y] \in Nat
<1>1. x \in DOMAIN l
  OBVIOUS
<1>2. /\ Len(l[x].blocks) \in Nat /\ DOMAIN l[x].blocks = 1..Len(l[x].blocks)
      /\ \A y \in DOMAIN l[x].blocks : l[x].blocks[y].len \in Nat
  BY <1>1, MemberTyped
<1>3. Sizes(l)[x] = MemberSize(l[x])
  BY <1>1 DEF Sizes
<1>4. \A y \in 1..Len(l[x].blocks) : BlkSizes(l[x])[y] = 12 + l[x].blocks[y].len /\ BlkSizes(l[x])[y] \in Nat
  BY <1>2 DEF BlkSizes
<1>5. Total(BlkSizes(l[x]), Len(l[x].blocks)) \in Nat
  BY <1>2, <1>4, TotalStep
<1>6. MemberSize(l[x]) = Total(BlkSizes(l[x]), Len(l[x].blocks)) + 12
  BY DEF MemberSize, BlkSizes
<1> QED BY <1>3, <1>4, <1>5, <1>6

\* Sorting the members does not change what they take.
LEMMA SizesReordered ==
    ASSUME NEW l, Library(l), NEW m, m = SortedByName(MemberSet(l))
    PROVE  Total(Sizes(m), Len(m)) = Total(Sizes(l), Len(l)) /\ Total(Sizes(m), Len(m)) \in Nat
<1>1. /\ m \in Seq(LoadMember) /\ Same(m, l) /\ Len(m) = Len(l)
      /\ \A x, y \in DOMAIN m : m[x].name = m[y].name => x = y
  BY Sorting
<1>2. l \in Seq(LoadMember) /\ \A x, y \in DOMAIN l : l[x].name = l[y].name => x = y
  BY NamesOnce DEF Library
<1>3. PICK n \in Nat : n = Len(l) /\ DOMAIN l = 1..n /\ DOMAIN m = 1..n
  BY <1>1, <1>2
<1> DEFINE w == [x \in 1..n |-> CHOOSE y \in 1..n : m[x] = l[y]]
<1>4. ASSUME NEW x \in 1..n PROVE w[x] \in 1..n /\ m[x] = l[w[x]]
  <2>1. \E y \in 1..n : m[x] = l[y]
    BY <1>1, <1>3 DEF Same
  <2> QED BY <2>1
<1>5. w \in [1..n -> 1..n]
  <2>1. w = [x \in 1..n |-> w[x]]
    OBVIOUS
  <2> HIDE DEF w
  <2> QED BY <1>4, <2>1
<1> HIDE DEF w
<1>6. ASSUME NEW x \in 1..n, NEW y \in 1..n, w[x] = w[y] PROVE x = y
  <2>1. m[x] = m[y]
    BY <1>4, <1>6
  <2> QED BY <1>1, <1>3, <2>1
<1>7. ASSUME NEW y \in 1..n PROVE \E x \in 1..n : w[x] = y
  <2>1. PICK x \in 1..n : m[x] = l[y]
    BY <1>1, <1>3 DEF Same
  <2>2. l[w[x]] = l[y] /\ w[x] \in 1..n
    BY <1>4, <2>1
  <2>3. w[x] = y
    BY <1>2, <1>3, <2>2
  <2> QED BY <2>3
<1>8. Order(w, n)
  BY <1>5, <1>6, <1>7 DEF Order
<1>9. \A k \in 1..n : Sizes(l)[k] \in Nat /\ Sizes(l)[k] = MemberSize(l[k])
  BY <1>2, <1>3, SizesTyped
<1>10. \A x \in 1..n : Sizes(m)[x] = Sizes(l)[w[x]]
  <2> SUFFICES ASSUME NEW x \in 1..n PROVE Sizes(m)[x] = Sizes(l)[w[x]]
    OBVIOUS
  <2>1. Sizes(m)[x] = MemberSize(m[x])
    BY <1>1, <1>3, SizesTyped
  <2> QED BY <1>4, <1>9, <2>1
<1>11. Reorders(Sizes(l), n)
  BY <1>9, TotalReordered
<1>12. Total(Sizes(m), n) = Total(Sizes(l), n)
  BY <1>8, <1>10, <1>11 DEF Reorders
<1>13. Total(Sizes(l), n) \in Nat
  BY <1>9, TotalStep
<1> QED BY <1>1, <1>3, <1>12, <1>13

\* The lengths of the entries, in the order of names, settle the blocks.
LEMMA BlocksSame ==
    ASSUME NEW d, NEW e, Sized(d), Sized(e), Len(d) = Len(e), \A x \in 1..Len(d) : DentLen(d[x]) = DentLen(e[x])
    PROVE  BlockCount(d) = BlockCount(e)
<1>1. Len(d) \in Nat
  BY DEF Sized
<1> DEFINE T == {x \in 0..Len(d) : Blocks(d)[x] = Blocks(e)[x]}
<1>2. 0 \in T
  BY <1>1, BlocksAre
<1>3. ASSUME NEW x \in 1..Len(d), x - 1 \in T PROVE x \in T
  <2>1. Blocks(d)[x - 1] = Blocks(e)[x - 1] /\ x \in 0..Len(d) /\ x \in 1..Len(e)
    BY <1>1, <1>3
  <2>2. Blocks(d)[x] = Filed(Blocks(d)[x - 1], DentLen(d[x]))
    BY BlocksAre
  <2>3. Blocks(e)[x] = Filed(Blocks(e)[x - 1], DentLen(e[x]))
    BY <2>1, BlocksAre
  <2>4. Blocks(d)[x] = Blocks(e)[x]
    BY <2>1, <2>2, <2>3
  <2> QED BY <2>1, <2>4
<1>4. \A x \in 0..Len(d) : x \in T
  <2> HIDE DEF T
  <2> QED BY <1>1, <1>2, <1>3, Upward
<1>5. Blocks(d)[Len(d)] = Blocks(e)[Len(e)]
  BY <1>1, <1>4
<1> QED BY <1>5 DEF BlockCount

\* An entry without the place of its member.
Plain(d) == [name |-> d.name, ai |-> d.ai]
PlainSet(E) == {Plain(d) : d \in E}

LEMMA PlainWithin ==
    ASSUME NEW l, NEW m, Same(m, l)
    PROVE  PlainSet(DirEnts(m)) \subseteq PlainSet(DirEnts(l))
<1> SUFFICES ASSUME NEW d \in DirEnts(m) PROVE \E e \in DirEnts(l) : Plain(e) = Plain(d)
  BY DEF PlainSet
<1>1. PICK x \in DOMAIN m : \/ d = [name |-> m[x].name, mi |-> x, ai |-> 0]
                            \/ \E y \in DOMAIN m[x].aliases : d = [name |-> m[x].aliases[y], mi |-> x, ai |-> y]
  BY EntryOf
<1>2. PICK z \in DOMAIN l : m[x] = l[z]
  BY DEF Same
<1>3. CASE d = [name |-> m[x].name, mi |-> x, ai |-> 0]
  <2>1. PICK e : e = [name |-> l[z].name, mi |-> z, ai |-> 0]
    OBVIOUS
  <2>2. e \in DirEnts(l)
    BY <2>1, EntryOf
  <2>3. Plain(e) = Plain(d)
    BY <1>2, <1>3, <2>1 DEF Plain
  <2> QED BY <2>2, <2>3
<1>4. ASSUME NEW y \in DOMAIN m[x].aliases, d = [name |-> m[x].aliases[y], mi |-> x, ai |-> y]
      PROVE  \E e \in DirEnts(l) : Plain(e) = Plain(d)
  <2>1. PICK e : e = [name |-> l[z].aliases[y], mi |-> z, ai |-> y]
    OBVIOUS
  <2>2. e \in DirEnts(l)
    <3>1. y \in DOMAIN l[z].aliases
      BY <1>2
    <3> QED BY <2>1, <3>1, EntryOf
  <2>3. Plain(e) = Plain(d)
    BY <1>2, <1>4, <2>1 DEF Plain
  <2> QED BY <2>2, <2>3
<1> QED BY <1>1, <1>3, <1>4

LEMMA PlainListed ==
    ASSUME NEW l \in Seq(LoadMember), Named(DirEnts(l)), NEW d, d = SortedByName(DirEnts(l)),
           NEW f, f = [x \in 1..Len(d) |-> Plain(d[x])]
    PROVE  Listed(f, Len(d), PlainSet(DirEnts(l))) /\ Named(PlainSet(DirEnts(l)))
<1>1. /\ Sized(d) /\ Listed(d, Len(d), DirEnts(l)) /\ \A x \in 1..Len(d) : d[x] \in DirEnts(l)
  BY EntriesSized
<1>2. \A e : Plain(e).name = e.name
  BY DEF Plain
<1>3. Listed(f, Len(d), PlainSet(DirEnts(l)))
  <2>1. Len(d) \in Nat /\ \A x \in 1..Len(d) : f[x] = Plain(d[x]) /\ f[x] \in PlainSet(DirEnts(l))
    BY <1>1 DEF Sized, PlainSet
  <2>2. f \in [1..Len(d) -> PlainSet(DirEnts(l))]
    BY <2>1
  <2>3. \A x, y \in 1..Len(d) : x < y => f[x].name < f[y].name
    BY <1>1, <1>2, <2>1 DEF Listed
  <2>4. \A e \in PlainSet(DirEnts(l)) : \E x \in 1..Len(d) : f[x] = e
    BY <1>1, <2>1 DEF Listed, PlainSet
  <2> QED BY <2>1, <2>2, <2>3, <2>4 DEF Listed
<1>4. Named(PlainSet(DirEnts(l)))
  <2>1. IsFiniteSet(PlainSet(DirEnts(l)))
    <3> DEFINE P == PlainSet(DirEnts(l))
    <3>1. Len(d) \in Nat /\ f \in [1..Len(d) -> P] /\ \A e \in P : \E x \in 1..Len(d) : f[x] = e
      BY <1>3 DEF Listed
    <3> HIDE DEF P
    <3>2. f \in Surjection(1..Len(d), P)
      BY <3>1 DEF Surjection
    <3>3. IsFiniteSet(1..Len(d))
      BY <3>1, FS_Interval
    <3> QED BY <3>2, <3>3, FS_Surjection DEF P
  <2>2. \A e \in PlainSet(DirEnts(l)) : \E c \in DirEnts(l) : e = Plain(c) /\ e.name = c.name /\ c.name \in Nat
    BY <1>2 DEF PlainSet, Named
  <2>3. \A a, b \in PlainSet(DirEnts(l)) : a.name = b.name => a = b
    BY <2>2 DEF Named
  <2> QED BY <2>1, <2>2, <2>3 DEF Named
<1> QED BY <1>3, <1>4

\* dir_layout is called before and after the sort, with the same result.
LEMMA CountReordered ==
    ASSUME NEW l, Library(l), NEW m, m = SortedByName(MemberSet(l))
    PROVE  BlockCount(SortedByName(DirEnts(l))) = BlockCount(SortedByName(DirEnts(m)))
<1>1. m \in Seq(LoadMember) /\ Same(m, l) /\ Named(DirEnts(m))
  BY Sorting
<1>2. l \in Seq(LoadMember) /\ Named(DirEnts(l))
  BY NamesOnce DEF Library
<1>3. Same(l, m)
  <2>1. \A a, b : a = b => b = a
    OBVIOUS
  <2> QED BY <1>1, Zenon DEF Same
<1>4. PICK P : P = PlainSet(DirEnts(l)) /\ P = PlainSet(DirEnts(m))
  <2>1. PlainSet(DirEnts(m)) \subseteq PlainSet(DirEnts(l))
    BY <1>1, PlainWithin
  <2>2. PlainSet(DirEnts(l)) \subseteq PlainSet(DirEnts(m))
    BY <1>3, PlainWithin
  <2>3. PlainSet(DirEnts(l)) = PlainSet(DirEnts(m))
    BY <2>1, <2>2
  <2> QED BY <2>3
<1>5. PICK d, e : d = SortedByName(DirEnts(l)) /\ e = SortedByName(DirEnts(m))
  OBVIOUS
<1>6. Sized(d) /\ Sized(e)
  BY <1>1, <1>2, <1>5, EntriesSized
<1>7. PICK f, g : f = [x \in 1..Len(d) |-> Plain(d[x])] /\ g = [x \in 1..Len(e) |-> Plain(e[x])]
  OBVIOUS
<1>8. Listed(f, Len(d), P) /\ Named(P)
  BY <1>2, <1>4, <1>5, <1>7, PlainListed
<1>9. Listed(g, Len(e), P)
  BY <1>1, <1>4, <1>5, <1>7, PlainListed
<1>10. Len(d) = Len(e) /\ f = g
  BY <1>8, <1>9, ListUnique
<1>11. ASSUME NEW x \in 1..Len(d) PROVE DentLen(d[x]) = DentLen(e[x])
  <2>1. Plain(d[x]) = Plain(e[x])
    BY <1>7, <1>10
  <2>2. d[x].ai = e[x].ai
    BY <2>1 DEF Plain
  <2> QED BY <2>2 DEF DentLen
<1>12. BlockCount(d) = BlockCount(e)
  BY <1>6, <1>10, <1>11, BlocksSame
<1> QED BY <1>5, <1>12

\* The lengths of the records of s.
Lens(s) == [x \in DOMAIN s |-> s[x].len]
Lengthy(s) == IsSeq(s) /\ Len(s) \in Nat /\ DOMAIN s = 1..Len(s) /\ \A x \in 1..Len(s) : s[x].len \in Nat

LEMMA LensAppend ==
    ASSUME NEW s, Lengthy(s), NEW e, e.len \in Nat, NEW a, a = Append(s, e)
    PROVE  Lengthy(a) /\ Total(Lens(a), Len(a)) = Total(Lens(s), Len(s)) + e.len /\ Total(Lens(s), Len(s)) \in Nat
<1>1. /\ IsSeq(a) /\ Len(s) \in Nat /\ DOMAIN s = 1..Len(s)
      /\ Len(a) = Len(s) + 1 /\ DOMAIN a = 1..(Len(s) + 1)
      /\ \A x \in 1..Len(s) : a[x] = s[x]
      /\ a[Len(s) + 1] = e
  BY Extended DEF Lengthy
<1>2. PICK n \in Nat : n = Len(s)
  BY <1>1
<1>3. \A x \in 1..n : Lens(s)[x] = s[x].len /\ s[x].len \in Nat /\ Lens(a)[x] = s[x].len
  BY <1>1, <1>2 DEF Lens, Lengthy
<1>4. Lens(a)[n + 1] = e.len
  BY <1>1, <1>2 DEF Lens
<1>5. \A x \in 1..(n + 1) : Lens(a)[x] \in Nat
  BY <1>2, <1>3, <1>4
<1>6. Total(Lens(a), n + 1) = Total(Lens(a), (n + 1) - 1) + Lens(a)[n + 1]
  BY <1>5, TotalStep
<1>7. Total(Lens(a), n) = Total(Lens(s), n) /\ Total(Lens(s), n) \in Nat
  BY <1>3, TotalSame, TotalStep
<1>8. (n + 1) - 1 = n
  OBVIOUS
<1>9. Total(Lens(a), Len(a)) = Total(Lens(s), Len(s)) + e.len
  BY <1>1, <1>2, <1>4, <1>6, <1>7, <1>8
<1>10. Lengthy(a)
  <2>1. \A x \in 1..(n + 1) : a[x].len \in Nat
    BY <1>1, <1>2, <1>3
  <2> QED BY <1>1, <1>2, <2>1 DEF Lengthy
<1> QED BY <1>2, <1>7, <1>9, <1>10

\* The header: COPYR1, COPYR2, the directory blocks and its end mark.
HeadLens(a, b, e, n, f, c) == a.len = 52 /\ b.len = 276 /\ e.len = 12 /\ \A k \in 1..n : f[k].len = c

LEMMA LensHead ==
    ASSUME NEW a, NEW b, NEW e, NEW n \in Nat, NEW f, NEW s, Heads(s, a, b, e, n, f), NEW c \in Nat,
           HeadLens(a, b, e, n, f, c)
    PROVE  Lengthy(s) /\ Total(Lens(s), Len(s)) = 340 + n * c
<1>1. /\ IsSeq(s) /\ Len(s) = n + 3 /\ s[1] = a /\ s[2] = b /\ s[n + 3] = e /\ \A k \in 1..n : s[2 + k] = f[k]
  BY DEF Heads
<1>2. DOMAIN s = 1..(n + 3)
  BY <1>1, Extended
<1>3. /\ s[1].len = 52 /\ s[2].len = 276 /\ s[n + 3].len = 12 /\ \A k \in 1..n : s[2 + k].len = c
  <2>1. s[1].len = 52 /\ s[2].len = 276 /\ s[n + 3].len = 12
    BY <1>1, Zenon DEF HeadLens
  <2>2. ASSUME NEW k \in 1..n PROVE s[2 + k].len = c
    <3>1. s[2 + k] = f[k] /\ f[k].len = c
      BY <1>1 DEF HeadLens
    <3> QED BY <3>1, Zenon
  <2> QED BY <2>1, <2>2
<1>4. \A x \in 1..(n + 3) : s[x].len \in Nat
  <2> SUFFICES ASSUME NEW x \in 1..(n + 3) PROVE s[x].len \in Nat
    OBVIOUS
  <2>1. CASE x = 1 \/ x = 2 \/ x = n + 3
    BY <1>3, <2>1
  <2>2. CASE ~(x = 1 \/ x = 2 \/ x = n + 3)
    <3>1. x - 2 \in 1..n /\ 2 + (x - 2) = x
      BY <2>2
    <3>2. s[2 + (x - 2)].len = c
      BY <1>3, <3>1
    <3> QED BY <3>1, <3>2
  <2> QED BY <2>1, <2>2
<1>5. \A x \in 1..(n + 3) : Lens(s)[x] = s[x].len /\ Lens(s)[x] \in Nat
  BY <1>2, <1>4 DEF Lens
<1> DEFINE L == Lens(s)
<1> HIDE DEF L
<1>6. ASSUME NEW k \in 1..(n + 3) PROVE Total(L, k) = Total(L, k - 1) + L[k] /\ Total(L, k - 1) \in Nat
  <2>1. k \in Nat /\ k > 0 /\ \A x \in 1..k : L[x] \in Nat
    BY <1>5 DEF L
  <2> QED BY <2>1, TotalStep
<1>7. Total(L, 2) = 328
  <2>1. Total(L, 1) = Total(L, 1 - 1) + L[1] /\ Total(L, 2) = Total(L, 2 - 1) + L[2]
    <3>1. 1 \in 1..(n + 3) /\ 2 \in 1..(n + 3)
      OBVIOUS
    <3> QED BY <1>6, <3>1
  <2>2. Total(L, 0) = 0
    <3>1. 0 \in Nat /\ \A x \in 1..0 : L[x] \in Nat
      OBVIOUS
    <3> QED BY <3>1, TotalStep
  <2>3. L[1] = 52 /\ L[2] = 276
    BY <1>3, <1>5 DEF L
  <2>4. 1 - 1 = 0 /\ 2 - 1 = 1
    OBVIOUS
  <2> QED BY <2>1, <2>2, <2>3, <2>4
<1> DEFINE T == {k \in 0..n : Total(L, 2 + k) = 328 + k * c}
<1>8. 0 \in T
  BY <1>7
<1>9. ASSUME NEW k \in 1..n, k - 1 \in T PROVE k \in T
  <2>1. Total(L, 2 + k) = Total(L, (2 + k) - 1) + L[2 + k] /\ (2 + k) - 1 = 2 + (k - 1)
    <3>1. 2 + k \in 1..(n + 3)
      OBVIOUS
    <3> QED BY <1>6, <3>1
  <2>2. L[2 + k] = c
    BY <1>3, <1>5 DEF L
  <2>3. Total(L, 2 + (k - 1)) = 328 + (k - 1) * c
    BY <1>9
  <2>4. (k - 1) * c + c = k * c /\ (k - 1) * c \in Nat /\ k * c \in Nat
    OBVIOUS
  <2>5. Total(L, 2 + k) = 328 + k * c
    BY <2>1, <2>2, <2>3, <2>4
  <2> QED BY <2>5
<1>10. \A k \in 0..n : k \in T
  <2> HIDE DEF T
  <2> QED BY <1>8, <1>9, Upward
<1>11. Total(L, 2 + n) = 328 + n * c /\ n * c \in Nat
  BY <1>10
<1>12. Total(L, n + 3) = Total(L, (n + 3) - 1) + L[n + 3] /\ (n + 3) - 1 = 2 + n /\ L[n + 3] = 12
  <2>1. n + 3 \in 1..(n + 3)
    OBVIOUS
  <2> QED BY <1>3, <1>5, <1>6, <2>1 DEF L
<1>13. Total(L, n + 3) = 340 + n * c
  BY <1>11, <1>12
<1>14. Lengthy(s)
  BY <1>1, <1>2, <1>4 DEF Lengthy
<1> QED BY <1>1, <1>13, <1>14 DEF L

(***************************************************************************)
(* What is written so far.                                                 *)
(***************************************************************************)
HeadSize(m) == 340 + BlockCount(SortedByName(DirEnts(m))) * (12 + 8 + DirBlk)
\* The records before block b of member a.
Before(m, a, b) == Total(Sizes(m), a - 1) + (IF a <= Len(m) THEN Total(BlkSizes(m[a]), b - 1) ELSE 0)

SizeInv ==
    /\ pc \notin {"size", "refused"} => size = HeadSize(lib) + Total(Sizes(lib), Len(lib))
    /\ pc = "data" => Lengthy(image) /\ Total(Lens(image), Len(image)) = HeadSize(mem) + Before(mem, i, j)
    /\ pc \in {"frame", "done"} =>
          Lengthy(image) /\ Total(Lens(image), Len(image)) = HeadSize(mem) + Total(Sizes(mem), Len(mem))

LEMMA BeforeFacts ==
    ASSUME NEW m \in Seq(LoadMember), Named(DirEnts(m)), NEW a \in 1..(Len(m) + 1), NEW b \in Nat \ {0},
           a <= Len(m) => b <= Len(m[a].blocks) + 1
    PROVE  /\ HeadSize(m) \in Nat /\ Before(m, 1, 1) = 0
           /\ Total(Sizes(m), Len(m)) \in Nat /\ Before(m, a, b) \in Nat
           /\ Before(m, a, b) <= Total(Sizes(m), Len(m))
           /\ a = Len(m) + 1 => Before(m, a, b) = Total(Sizes(m), Len(m))
           /\ a <= Len(m) /\ b <= Len(m[a].blocks) => Before(m, a, b + 1) = Before(m, a, b) + 12 + m[a].blocks[b].len
           /\ a <= Len(m) /\ b = Len(m[a].blocks) + 1 => Before(m, a + 1, 1) = Before(m, a, b) + 12
<1>1. PICK n \in Nat : n = Len(m)
  OBVIOUS
<1>2. \A x \in 1..n : Sizes(m)[x] = MemberSize(m[x]) /\ MemberSize(m[x]) \in Nat
                      /\ MemberSize(m[x]) = Total(BlkSizes(m[x]), Len(m[x].blocks)) + 12
                      /\ Total(BlkSizes(m[x]), Len(m[x].blocks)) \in Nat
                      /\ \A y \in 1..Len(m[x].blocks) : BlkSizes(m[x])[y] = 12 + m[x].blocks[y].len /\ BlkSizes(m[x])[y] \in Nat
  BY <1>1, SizesTyped
<1>3. \A x \in 1..n : Sizes(m)[x] \in Nat
  BY <1>2
<1>4. ASSUME NEW k \in 0..n PROVE Total(Sizes(m), k) \in Nat /\ Total(Sizes(m), k) <= Total(Sizes(m), n) /\ Total(Sizes(m), n) \in Nat
  BY <1>3, TotalRises
<1>5. ASSUME NEW k \in 1..n PROVE Total(Sizes(m), k) = Total(Sizes(m), k - 1) + Sizes(m)[k]
  <2>1. k \in Nat /\ k > 0 /\ \A x \in 1..k : Sizes(m)[x] \in Nat
    BY <1>3
  <2> QED BY <2>1, TotalStep
<1>6. \A f : Total(f, 0) = 0
  <2> SUFFICES ASSUME NEW f PROVE Total(f, 0) = 0
    OBVIOUS
  <2>1. 0 \in Nat /\ \A x \in 1..0 : f[x] \in Nat
    OBVIOUS
  <2> QED BY <2>1, TotalStep
<1>7. HeadSize(m) \in Nat
  <2>1. BlockCount(SortedByName(DirEnts(m))) \in Nat /\ DirBlk \in Nat
    BY EntriesSized, DirAssumption
  <2>2. PICK v, c \in Nat : v = BlockCount(SortedByName(DirEnts(m))) /\ c = 12 + 8 + DirBlk
    BY <2>1
  <2>3. v * c \in Nat
    OBVIOUS
  <2> QED BY <2>2, <2>3 DEF HeadSize
<1>8. Before(m, 1, 1) = 0
  <2>1. 1 - 1 = 0
    OBVIOUS
  <2> QED BY <1>6, <2>1 DEF Before
<1>9. CASE a = n + 1
  <2>1. a - 1 = n /\ ~(a <= Len(m)) /\ n \in 0..n
    BY <1>1, <1>9
  <2>2. Before(m, a, b) = Total(Sizes(m), n) + 0
    BY <2>1 DEF Before
  <2>3. Total(Sizes(m), n) \in Nat
    BY <1>4, <2>1
  <2> QED BY <1>1, <1>7, <1>8, <1>9, <2>2, <2>3
<1>10. CASE a <= n
  <2>1. a \in 1..n /\ a \in 0..n /\ a - 1 \in 0..n /\ a <= Len(m) /\ a # Len(m) + 1
    BY <1>1, <1>10
  <2>2. PICK B, k : B = BlkSizes(m[a]) /\ k = Len(m[a].blocks)
    OBVIOUS
  <2>3. k \in Nat /\ b <= k + 1 /\ b \in Nat \ {0}
    <3>1. a \in DOMAIN m
      BY <1>1, <2>1
    <3> QED BY <2>1, <2>2, <3>1, MemberTyped
  <2>4. /\ Sizes(m)[a] = Total(B, k) + 12 /\ Total(B, k) \in Nat
        /\ \A y \in 1..k : B[y] = 12 + m[a].blocks[y].len /\ B[y] \in Nat
    BY <1>2, <2>1, <2>2
  <2>5. b - 1 \in 0..k
    BY <2>3
  <2>6. Total(B, b - 1) \in Nat /\ Total(B, b - 1) <= Total(B, k)
    BY <2>3, <2>4, <2>5, TotalRises
  <2>7. Before(m, a, b) = Total(Sizes(m), a - 1) + Total(B, b - 1)
    BY <2>1, <2>2 DEF Before
  <2>8. /\ Total(Sizes(m), a - 1) \in Nat /\ Total(Sizes(m), a) \in Nat /\ Total(Sizes(m), n) \in Nat
        /\ Total(Sizes(m), a) <= Total(Sizes(m), n) /\ Total(Sizes(m), a) = Total(Sizes(m), a - 1) + Sizes(m)[a]
    BY <1>4, <1>5, <2>1
  <2>9. Before(m, a, b) \in Nat /\ Before(m, a, b) <= Total(Sizes(m), n)
    BY <2>4, <2>6, <2>7, <2>8
  <2>10. ASSUME b <= k PROVE Before(m, a, b + 1) = Before(m, a, b) + 12 + m[a].blocks[b].len
    <3>1. Before(m, a, b + 1) = Total(Sizes(m), a - 1) + Total(B, (b + 1) - 1) /\ (b + 1) - 1 = b
      BY <2>1, <2>2, <2>3 DEF Before
    <3>2. b \in Nat /\ b > 0 /\ b \in 1..k /\ \A y \in 1..b : B[y] \in Nat
      BY <2>3, <2>4, <2>10
    <3>3. Total(B, b) = Total(B, b - 1) + B[b]
      BY <3>2, TotalStep
    <3>4. B[b] = 12 + m[a].blocks[b].len /\ m[a].blocks[b].len \in Nat
      <4>1. a \in DOMAIN m /\ b \in DOMAIN m[a].blocks
        <5>1. a \in DOMAIN m
          BY <1>1, <2>1
        <5> QED BY <2>2, <3>2, <5>1, MemberTyped
      <4>2. m[a].blocks[b].len \in Nat
        BY <4>1, MemberTyped
      <4> QED BY <2>4, <3>2, <4>2
    <3>5. PICK u, v, w : u = Total(Sizes(m), a - 1) /\ v = Total(B, b - 1) /\ w = m[a].blocks[b].len
      OBVIOUS
    <3>6. u \in Nat /\ v \in Nat /\ w \in Nat
      BY <2>6, <2>8, <3>4, <3>5
    <3>7. Total(B, b) = v + (12 + w)
      BY <3>3, <3>4, <3>5
    <3>8. Before(m, a, b + 1) = u + (v + (12 + w)) /\ Before(m, a, b) = u + v
      BY <2>7, <3>1, <3>5, <3>7
    <3>9. u + (v + (12 + w)) = u + v + 12 + w
      BY <3>6
    <3> QED BY <3>5, <3>8, <3>9
  <2>11. ASSUME b = k + 1 PROVE Before(m, a + 1, 1) = Before(m, a, b) + 12
    <3>1. (a + 1) - 1 = a /\ b - 1 = k /\ 1 - 1 = 0
      BY <2>1, <2>3, <2>11
    <3>2. Before(m, a + 1, 1) = Total(Sizes(m), a)
      <4>1. (IF a + 1 <= Len(m) THEN Total(BlkSizes(m[a + 1]), 1 - 1) ELSE 0) = 0
        BY <1>6, <3>1
      <4> QED BY <2>8, <3>1, <4>1 DEF Before
    <3>3. Before(m, a, b) = Total(Sizes(m), a - 1) + Total(B, k)
      BY <2>7, <3>1
    <3> QED BY <2>4, <2>8, <3>2, <3>3
  <2> QED BY <1>1, <1>7, <1>8, <2>1, <2>2, <2>8, <2>9, <2>10, <2>11
<1> QED BY <1>1, <1>9, <1>10

LEMMA SizeEmit ==
    ASSUME LibInv, ImageInv, SizeInv, EmitBlock \/ EmitEof
    PROVE  SizeInv'
<1>1. /\ pc = "data" /\ i <= Len(mem) /\ pc' = pc /\ mem' = mem /\ lib' = lib /\ size' = size
      /\ \/ j <= nb(i) /\ image' = Append(image, DataRecord("data", i, j, mem[i].blocks[j].len)) /\ i' = i /\ j' = j + 1
         \/ j > nb(i) /\ image' = Append(image, DataRecord("eof", i, 0, 0)) /\ i' = i + 1 /\ j' = 1
  BY DEF EmitBlock, EmitEof, nb
<1>2. PICK m, a, b, s : m = mem /\ a = i /\ b = j /\ s = image
  OBVIOUS
<1>3. m \in Seq(LoadMember) /\ Named(DirEnts(m)) /\ CountInv /\ Len(m) \in Nat
  BY <1>1, <1>2, MemFacts DEF ImageInv
<1>4. a \in 1..(Len(m) + 1) /\ b \in Nat \ {0} /\ (a <= Len(m) => b <= Len(m[a].blocks) + 1) /\ a <= Len(m) /\ a \in DOMAIN m
  BY <1>1, <1>2, <1>3 DEF CountInv, nb
<1>5. /\ HeadSize(m) \in Nat /\ Before(m, a, b) \in Nat
      /\ b <= Len(m[a].blocks) => Before(m, a, b + 1) = Before(m, a, b) + 12 + m[a].blocks[b].len
      /\ b = Len(m[a].blocks) + 1 => Before(m, a + 1, 1) = Before(m, a, b) + 12
  BY <1>3, <1>4, BeforeFacts
<1>6. Lengthy(s) /\ Total(Lens(s), Len(s)) = HeadSize(m) + Before(m, a, b)
  BY <1>1, <1>2 DEF SizeInv
<1>7. size' = HeadSize(lib) + Total(Sizes(lib), Len(lib))
  BY <1>1 DEF SizeInv
<1>8. PICK c, d : c = i' /\ d = j'
  OBVIOUS
<1>9. Lengthy(image') /\ Total(Lens(image'), Len(image')) = HeadSize(m) + Before(m, c, d)
  <2>1. CASE j <= nb(i)
    <3>1. PICK e : e = DataRecord("data", i, j, mem[i].blocks[j].len)
      OBVIOUS
    <3>2. e.len = 12 + m[a].blocks[b].len
      BY <1>2, <3>1 DEF DataRecord
    <3>3. b <= Len(m[a].blocks) /\ m[a].blocks[b].len \in Nat
      BY <1>2, <1>3, <1>4, <2>1, MemberTyped DEF nb
    <3>4. c = a /\ d = b + 1 /\ image' = Append(s, e)
      BY <1>1, <1>2, <1>3, <1>4, <1>8, <2>1, <3>1, <3>3 DEF nb
    <3>5. e.len \in Nat
      BY <3>2, <3>3
    <3>6. Lengthy(image') /\ Total(Lens(image'), Len(image')) = Total(Lens(s), Len(s)) + e.len
      <4>1. PICK t : t = image' /\ t = Append(s, e)
        BY <3>4
      <4>2. Lengthy(t) /\ Total(Lens(t), Len(t)) = Total(Lens(s), Len(s)) + e.len
        BY <1>6, <3>5, <4>1, LensAppend
      <4> QED BY <4>1, <4>2
    <3>7. PICK x, y, z \in Nat : x = HeadSize(m) /\ y = Before(m, a, b) /\ z = m[a].blocks[b].len
      BY <1>5, <3>3
    <3>8. Before(m, c, d) = y + 12 + z
      BY <1>5, <3>3, <3>4, <3>7
    <3>9. Total(Lens(image'), Len(image')) = (x + y) + (12 + z)
      BY <1>6, <3>2, <3>6, <3>7
    <3>10. (x + y) + (12 + z) = x + (y + 12 + z)
      OBVIOUS
    <3> QED BY <3>6, <3>7, <3>8, <3>9, <3>10
  <2>2. CASE j > nb(i)
    <3>1. PICK e : e = DataRecord("eof", i, 0, 0)
      OBVIOUS
    <3>2. e.len = 12
      BY <3>1 DEF DataRecord
    <3>3. b = Len(m[a].blocks) + 1 /\ ~(j <= nb(i))
      BY <1>2, <1>3, <1>4, <2>2, MemberTyped DEF nb
    <3>4. c = a + 1 /\ d = 1 /\ image' = Append(s, e)
      BY <1>1, <1>2, <1>8, <3>1, <3>3
    <3>5. e.len \in Nat
      BY <3>2
    <3>6. Lengthy(image') /\ Total(Lens(image'), Len(image')) = Total(Lens(s), Len(s)) + e.len
      <4>1. PICK t : t = image' /\ t = Append(s, e)
        BY <3>4
      <4>2. Lengthy(t) /\ Total(Lens(t), Len(t)) = Total(Lens(s), Len(s)) + e.len
        BY <1>6, <3>5, <4>1, LensAppend
      <4> QED BY <4>1, <4>2
    <3>7. Before(m, c, d) = Before(m, a, b) + 12
      BY <1>5, <3>3, <3>4
    <3> QED BY <1>5, <1>6, <3>2, <3>6, <3>7
  <2> QED BY <1>1, <2>1, <2>2
<1>10. pc' = "data" /\ lib' = lib /\ mem' = m
  BY <1>1, <1>2
<1>11. Total(Lens(image'), Len(image')) = HeadSize(mem') + Before(mem', i', j')
  BY <1>8, <1>9, <1>10
<1> QED BY <1>7, <1>9, <1>10, <1>11 DEF SizeInv

LEMMA SizeDirectory ==
    ASSUME LibInv, SizeInv, Directory
    PROVE  SizeInv'
<1>1. /\ pc = "assign" /\ pc' = "data" /\ i' = 1 /\ j' = 1 /\ mem' = mem /\ lib' = lib /\ size' = size
  BY DEF Directory
<1> DEFINE n == BlockCount(Dir)
           f == [b \in 1..n |-> DirRecord(Dir, b - 1)]
           e1 == [kind |-> "env", len |-> COPYR1LEN]
           e2 == [kind |-> "env", len |-> COPYR2LEN, tracks |-> ExtentTracks]
           e3 == [kind |-> "eod", len |-> 12]
<1>2. image' = <<e1, e2>> \o f \o <<e3>>
  BY DEF Directory, Dir
<1>3. n \in Nat
  BY <1>1, HeadTyped
<1>4. f \in [1..n -> {f[b] : b \in 1..n}]
  OBVIOUS
<1>5. e1.len = 52 /\ e2.len = 276 /\ e3.len = 12 /\ \A b \in 1..n : f[b].len = 12 + 8 + DirBlk
  BY DEF COPYR1LEN, COPYR2LEN, DirRecord
<1> HIDE DEF n, f, e1, e2, e3
<1>6. PICK k, g, a, b, e, s : k = n /\ g = f /\ a = e1 /\ b = e2 /\ e = e3 /\ s = image'
  OBVIOUS
<1>7. Heads(s, a, b, e, k, g)
  <2>1. PICK S : g \in [1..k -> S]
    BY <1>4, <1>6
  <2>2. s = <<a, b>> \o g \o <<e>> /\ k \in Nat
    BY <1>2, <1>3, <1>6
  <2> QED BY <2>1, <2>2, Header
<1>8. PICK c \in Nat : c = 12 + 8 + DirBlk
  BY DirAssumption
<1>9. HeadLens(a, b, e, k, g, c) /\ k \in Nat
  BY <1>3, <1>5, <1>6, <1>8 DEF HeadLens
<1>10. Lengthy(s) /\ Total(Lens(s), Len(s)) = 340 + k * c
  BY <1>7, <1>9, LensHead
<1>11. PICK m : m = mem /\ m \in Seq(LoadMember) /\ Named(DirEnts(m)) /\ Dir = SortedByName(DirEnts(m))
  BY <1>1, MemFacts DEF Dir
<1>12. HeadSize(m) = 340 + k * c /\ HeadSize(m) \in Nat /\ Before(m, 1, 1) = 0
  <2>1. HeadSize(m) = 340 + k * c
    BY <1>6, <1>8, <1>11 DEF HeadSize, n
  <2>2. 1 \in 1..(Len(m) + 1) /\ (1 <= Len(m) => 1 <= Len(m[1].blocks) + 1)
    <3>1. Len(m) \in Nat
      BY <1>11
    <3>2. ASSUME 1 <= Len(m) PROVE Len(m[1].blocks) \in Nat
      <4>1. 1 \in DOMAIN m
        BY <1>11, <3>1, <3>2
      <4> QED BY <1>11, <4>1, MemberTyped
    <3> QED BY <3>1, <3>2
  <2>3. HeadSize(m) \in Nat /\ Before(m, 1, 1) = 0
    BY <1>11, <2>2, BeforeFacts
  <2> QED BY <2>1, <2>3
<1>13. Total(Lens(image'), Len(image')) = HeadSize(mem') + Before(mem', i', j')
  BY <1>1, <1>6, <1>10, <1>11, <1>12
<1>14. Lengthy(image')
  BY <1>6, <1>10
<1>15. size' = HeadSize(lib') + Total(Sizes(lib'), Len(lib'))
  BY <1>1 DEF SizeInv
<1> QED BY <1>1, <1>13, <1>14, <1>15 DEF SizeInv

LEMMA SizeStep ==
    ASSUME LibInv, ImageInv, SizeInv, [Next]_vars
    PROVE  SizeInv'
<1>1. CASE Size
  <2>1. pc = "size" /\ mem = lib /\ lib' = lib
    BY <1>1 DEF Size, LibInv
  <2>2. CASE pc' = "refused"
    BY <2>2 DEF SizeInv
  <2>3. CASE pc' # "refused"
    <3>1. pc' = "sort"
      BY <1>1, <2>3 DEF Size
    <3>2. size' = COPYR1LEN + COPYR2LEN + 12 + BlockCount(SortedByName(DirEnts(mem))) * (12 + 8 + DirBlk)
                  + Total([x \in DOMAIN mem |-> MemberSize(mem[x])], Len(mem))
      BY <1>1, <2>3 DEF Size
    <3>3. size' = HeadSize(lib) + Total(Sizes(lib), Len(lib))
      BY <2>1, <3>2 DEF HeadSize, Sizes, COPYR1LEN, COPYR2LEN
    <3> QED BY <2>1, <3>1, <3>3 DEF SizeInv
  <2> QED BY <2>2, <2>3
<1>2. CASE Sort \/ AssignBlock \/ AssignEof
  <2>1. pc \in {"sort", "assign"} /\ pc' \in {"refused", "assign"} /\ lib' = lib /\ size' = size
    BY <1>2 DEF Sort, AssignBlock, AssignEof
  <2> QED BY <2>1 DEF SizeInv
<1>3. CASE Directory
  BY <1>3, SizeDirectory
<1>4. CASE EmitBlock \/ EmitEof
  BY <1>4, SizeEmit
<1>5. CASE \/ EmitDone \/ FrameHead \/ FrameBreak \/ FrameRecord \/ FrameDone \/ Done \/ UNCHANGED vars
  <2>1. /\ mem' = mem /\ lib' = lib /\ size' = size /\ image' = image /\ i' = i /\ j' = j
        /\ \/ pc' = pc
           \/ pc = "data" /\ i > Len(mem) /\ pc' = "frame"
           \/ pc = "frame" /\ pc' = "done"
    BY <1>5 DEF vars, EmitDone, FrameHead, FrameBreak, FrameRecord, FrameDone, Done
  <2>2. CASE pc' = pc
    BY <2>1, <2>2 DEF SizeInv
  <2>3. CASE pc = "data" /\ i > Len(mem) /\ pc' = "frame"
    <3>1. PICK m, a, b : m = mem /\ a = i /\ b = j
      OBVIOUS
    <3>2. m \in Seq(LoadMember) /\ Named(DirEnts(m)) /\ CountInv /\ Len(m) \in Nat
      BY <2>3, <3>1, MemFacts DEF ImageInv
    <3>3. a \in 1..(Len(m) + 1) /\ b \in Nat \ {0} /\ (a <= Len(m) => b <= Len(m[a].blocks) + 1) /\ a = Len(m) + 1
      BY <2>3, <3>1, <3>2 DEF CountInv
    <3>4. Before(m, a, b) = Total(Sizes(m), Len(m))
      BY <3>2, <3>3, BeforeFacts
    <3> QED BY <2>1, <2>3, <3>1, <3>4 DEF SizeInv
  <2>4. CASE pc = "frame" /\ pc' = "done"
    BY <2>1, <2>4 DEF SizeInv
  <2> QED BY <2>1, <2>2, <2>3, <2>4
<1> QED BY <1>1, <1>2, <1>3, <1>4, <1>5 DEF Next

\* The buffer of main is exactly filled: what unload_size adds up over the members
\* as given is what emit_unload writes after sorting them, and at no step is there
\* more; for every library.
THEOREM SizeFits == Spec => []SizeExact
<1>1. Init => SizeInv
  BY DEF Init, SizeInv
<1>2. UnloadInv /\ SizeInv /\ [Next]_vars => SizeInv'
  BY SizeStep DEF UnloadInv
<1>3. UnloadInv /\ SizeInv => SizeExact
  <2> SUFFICES ASSUME UnloadInv, SizeInv, pc \in {"data", "frame", "done"}
               PROVE  ImageLength <= size /\ (pc # "data" => ImageLength = size)
    <3>1. pc = "done" => pc # "data"
      OBVIOUS
    <3> QED BY <3>1 DEF SizeExact, Finished
  <2>1. LibInv /\ ImageInv
    BY DEF UnloadInv
  <2>2. PICK m, l : m = mem /\ l = lib /\ Library(l) /\ m = SortedByName(MemberSet(l)) /\ m \in Seq(LoadMember)
                    /\ Named(DirEnts(m)) /\ Len(m) \in Nat
    BY <2>1, MemFacts
  <2>3. ImageLength = Total(Lens(image), Len(image))
    BY DEF ImageLength, Lens
  <2>4. HeadSize(l) = HeadSize(m)
    <3>1. BlockCount(SortedByName(DirEnts(l))) = BlockCount(SortedByName(DirEnts(m)))
      BY <2>2, CountReordered
    <3> QED BY <3>1 DEF HeadSize
  <2>5. Total(Sizes(m), Len(m)) = Total(Sizes(l), Len(l)) /\ Total(Sizes(m), Len(m)) \in Nat
    BY <2>2, SizesReordered
  <2>6. size = HeadSize(m) + Total(Sizes(m), Len(m))
    BY <2>2, <2>4, <2>5 DEF SizeInv
  <2>7. HeadSize(m) \in Nat
    <3>1. Len(m) + 1 \in 1..(Len(m) + 1) /\ 1 \in Nat \ {0} /\ ~(Len(m) + 1 <= Len(m))
      BY <2>2
    <3> QED BY <2>2, <3>1, BeforeFacts
  <2>8. CASE pc = "data"
    <3>1. PICK a, b : a = i /\ b = j
      OBVIOUS
    <3>2. a \in 1..(Len(m) + 1) /\ b \in Nat \ {0} /\ (a <= Len(m) => b <= Len(m[a].blocks) + 1)
      BY <2>1, <2>2, <2>8, <3>1 DEF ImageInv, CountInv, nb
    <3>3. Before(m, a, b) \in Nat /\ Before(m, a, b) <= Total(Sizes(m), Len(m))
      BY <2>2, <3>2, BeforeFacts
    <3>4. ImageLength = HeadSize(m) + Before(m, a, b)
      BY <2>2, <2>3, <2>8, <3>1 DEF SizeInv
    <3> QED BY <2>5, <2>6, <2>7, <2>8, <3>3, <3>4
  <2>9. CASE pc # "data"
    <3>1. ImageLength = size
      BY <2>2, <2>3, <2>6, <2>9 DEF SizeInv
    <3> QED BY <2>5, <2>6, <2>7, <3>1
  <2> QED BY <2>8, <2>9
<1> QED BY <1>1, <1>2, <1>3, Unloading, PTL DEF Spec


=============================================================================
