---------------------------- MODULE AsmDeckProofs ----------------------------
(***************************************************************************)
(* Proofs about the object deck of AsmDeck, for every assembly and every   *)
(* size of card.                                                           *)
(***************************************************************************)
EXTENDS AsmDeck, FiniteSetTheorems, WellFoundedInduction, TLAPS

(***************************************************************************)
(* Numbers, sums and sequences.                                            *)
(***************************************************************************)

\* A set of numbers has a least one.
LEMMA LeastNumber ==
    ASSUME NEW Y, Y \subseteq Nat, Y # {}
    PROVE  \E y \in Y : \A z \in Y : y <= z
<1>1. PICK y \in Y : \A z \in Y : ~(<<z, y>> \in OpToRel(<, Nat))
  BY WFMin, NatLessThanWellFounded, Zenon
<1>2. \A z \in Y : ~(z < y)
  BY <1>1 DEF OpToRel
<1> QED BY <1>2

\* Induction, for a set of numbers.
LEMMA Upward ==
    ASSUME NEW N \in Nat, NEW T, 0 \in T, \A n \in 1..N : n - 1 \in T => n \in T
    PROVE  \A n \in 0..N : n \in T
<1> DEFINE Bad == {n \in 0..N : n \notin T}
<1> SUFFICES ASSUME Bad # {} PROVE FALSE
  OBVIOUS
<1>1. PICK n \in Bad : \A l \in Bad : n <= l
  <2> HIDE DEF Bad
  <2>1. Bad \subseteq Nat
    BY DEF Bad
  <2> QED BY <2>1, LeastNumber
<1>2. n # 0 /\ n \in 0..N
  OBVIOUS
<1>3. n \in 1..N /\ n - 1 \in 0..N /\ n - 1 \notin Bad
  BY <1>1, <1>2
<1> QED BY <1>3

\* f follows the steps h from a.
Follows(f, n, V, a, h) ==
    f \in [0..n -> V] /\ f[0] = a /\ \A z \in 1..n : f[z] = h[z][f[z - 1]]

LEMMA Recursion ==
    ASSUME NEW V, NEW a \in V, NEW n \in Nat, NEW h \in [1..n -> [V -> V]]
    PROVE  \E f : Follows(f, n, V, a, h)
<1> DEFINE Bad == {z \in 0..n : ~ \E f : Follows(f, z, V, a, h)}
<1> SUFFICES ASSUME Bad # {} PROVE FALSE
  OBVIOUS
<1>1. PICK z \in Bad : \A l \in Bad : z <= l
  <2> HIDE DEF Bad
  <2>1. Bad \subseteq Nat
    BY DEF Bad
  <2> QED BY <2>1, LeastNumber
<1>2. z \in Nat /\ z <= n
  OBVIOUS
<1>3. z # 0
  <2>1. Follows([l \in 0..0 |-> a], 0, V, a, h)
    BY DEF Follows
  <2> QED BY <2>1
<1>4. z - 1 \in 0..n /\ z - 1 \notin Bad
  BY <1>1, <1>2, <1>3
<1>5. PICK g : Follows(g, z - 1, V, a, h)
  BY <1>4
<1> DEFINE f == [l \in 0..z |-> IF l = z THEN h[z][g[z - 1]] ELSE g[l]]
<1>6. Follows(f, z, V, a, h)
  <2>1. g[z - 1] \in V /\ z \in 1..n /\ h[z] \in [V -> V]
    BY <1>2, <1>3, <1>4, <1>5 DEF Follows
  <2>2. f \in [0..z -> V] /\ f[0] = a
    BY <1>2, <1>3, <1>5, <2>1 DEF Follows
  <2>3. ASSUME NEW l \in 1..z PROVE f[l] = h[l][f[l - 1]]
    <3>1. f[l - 1] = g[l - 1]
      BY <1>2
    <3>2. CASE l = z
      BY <3>1, <3>2
    <3>3. CASE l # z
      <4>1. l \in Nat /\ l >= 1 /\ l <= z
        BY <1>2
      <4>2. l \in 1..(z - 1)
        BY <1>2, <3>3, <4>1
      <4>3. f[l] = g[l]
        BY <3>3
      <4> QED BY <1>5, <3>1, <4>2, <4>3 DEF Follows
    <3> QED BY <3>2, <3>3
  <2> QED BY <2>2, <2>3 DEF Follows
<1> QED BY <1>6

Adds(g, f, n) == g \in [0..n -> Nat] /\ g[0] = 0 /\ \A z \in 1..n : g[z] = g[z - 1] + f[z]

LEMMA SumExists ==
    ASSUME NEW n \in Nat, NEW f, \A z \in 1..n : f[z] \in Nat
    PROVE  \E g : Adds(g, f, n)
<1> DEFINE h == [z \in 1..n |-> [v \in Nat |-> v + f[z]]]
<1>1. h \in [1..n -> [Nat -> Nat]]
  OBVIOUS
<1>2. PICK g : Follows(g, n, Nat, 0, h)
  <2> HIDE DEF h
  <2> QED BY <1>1, Recursion
<1>3. g \in [0..n -> Nat] /\ g[0] = 0
  BY <1>2 DEF Follows
<1>4. ASSUME NEW z \in 1..n PROVE g[z] = g[z - 1] + f[z]
  <2>1. g[z] = h[z][g[z - 1]] /\ z - 1 \in 0..n
    <3> HIDE DEF h
    <3> QED BY <1>2 DEF Follows
  <2>2. g[z - 1] \in Nat
    BY <1>3, <2>1
  <2> QED BY <2>1, <2>2
<1> QED BY <1>3, <1>4 DEF Adds

LEMMA TotalIs ==
    ASSUME NEW n \in Nat, NEW f, NEW g, Adds(g, f, n)
    PROVE  Total(f, n) = g[n]
<1> DEFINE F(e) == [x \in 0..n |-> IF x = 0 THEN 0 ELSE e[x - 1] + f[x]]
           s == CHOOSE e : e = F(e)
<1>1. Total(f, n) = s[n]
  BY Zenon DEF Total
<1>2. g = F(g)
  BY DEF Adds
<1>3. s = F(s)
  <2> HIDE DEF F
  <2> QED BY <1>2
<1>4. \A x \in 0..n : s[x] = IF x = 0 THEN 0 ELSE s[x - 1] + f[x]
  <2> HIDE DEF s
  <2> QED BY <1>3
<1> HIDE DEF s, F
<1> DEFINE T == {x \in 0..n : s[x] = g[x]}
<1>5. 0 \in T
  BY <1>4 DEF Adds
<1>6. ASSUME NEW x \in 1..n, x - 1 \in T PROVE x \in T
  BY <1>4, <1>6 DEF Adds
<1>7. \A x \in 0..n : x \in T
  <2> HIDE DEF T
  <2> QED BY <1>5, <1>6, Upward
<1> QED BY <1>1, <1>7

LEMMA TotalStep ==
    ASSUME NEW n \in Nat, NEW f, \A z \in 1..n : f[z] \in Nat
    PROVE  /\ Total(f, n) \in Nat /\ Total(f, 0) = 0
           /\ n > 0 => Total(f, n - 1) \in Nat /\ Total(f, n) = Total(f, n - 1) + f[n]
<1>1. PICK g : Adds(g, f, n)
  BY SumExists
<1>2. Total(f, n) = g[n] /\ g[n] \in Nat
  <2>1. Total(f, n) = g[n]
    BY <1>1, TotalIs
  <2> QED BY <1>1, <2>1 DEF Adds
<1>3. Total(f, 0) = 0
  <2>1. Adds([x \in 0..0 |-> 0], f, 0)
    BY DEF Adds
  <2> QED BY <2>1, TotalIs
<1>4. ASSUME n > 0 PROVE Total(f, n - 1) = g[n - 1] /\ g[n - 1] \in Nat /\ g[n] = g[n - 1] + f[n]
  <2> DEFINE e == [x \in 0..(n - 1) |-> g[x]]
  <2>1. n - 1 \in Nat /\ n - 1 \in 0..(n - 1) /\ n - 1 \in 0..n
    BY <1>4
  <2>2. Adds(e, f, n - 1)
    BY <1>1, <2>1 DEF Adds
  <2>3. Total(f, n - 1) = e[n - 1]
    <3> HIDE DEF e
    <3> QED BY <2>1, <2>2, TotalIs
  <2> QED BY <1>1, <1>4, <2>1, <2>3 DEF Adds
<1> QED BY <1>2, <1>3, <1>4

\* The lowest of a set of numbers.
LEMMA LowestIs ==
    ASSUME NEW Y, Y \subseteq Nat, Y # {}
    PROVE  Lowest(Y) \in Y /\ \A y \in Y : Lowest(Y) <= y
<1>1. \E x \in Y : \A y \in Y : x <= y
  BY LeastNumber
<1> QED BY <1>1 DEF Lowest

\* A bounded set of numbers has a greatest one.
LEMMA GreatestNumber ==
    ASSUME NEW N \in Nat, NEW Y, Y \subseteq 0..N, Y # {}
    PROVE  \E y \in Y : \A z \in Y : z <= y
<1> DEFINE F == {n \in Nat : \A z \in Y : z <= n}
<1>1. N \in F
  OBVIOUS
<1>2. PICK n \in F : \A m \in F : n <= m
  <2> HIDE DEF F
  <2>1. F \subseteq Nat
    BY DEF F
  <2> QED BY <1>1, <2>1, LeastNumber
<1>3. n \in Nat /\ \A z \in Y : z <= n
  BY <1>2
<1>4. n \in Y
  <2> SUFFICES ASSUME n \notin Y PROVE FALSE
    OBVIOUS
  <2>1. PICK z \in Y : TRUE
    OBVIOUS
  <2>2. n - 1 \in Nat /\ \A w \in Y : w <= n - 1
    BY <1>3, <2>1
  <2>3. n - 1 \in F
    BY <2>2
  <2> QED BY <1>2, <1>3, <2>3
<1> QED BY <1>3, <1>4

LEMMA Replaced ==
    ASSUME NEW T, NEW s \in Seq(T), NEW e \in T, NEW L \in 1..Len(s)
    PROVE  /\ [s EXCEPT ![L] = e] \in Seq(T) /\ Len([s EXCEPT ![L] = e]) = Len(s)
           /\ [s EXCEPT ![L] = e][L] = e /\ \A x \in 1..Len(s) : x # L => [s EXCEPT ![L] = e][x] = s[x]
OBVIOUS

IsSeq(s) == \E S : s \in Seq(S)

LEMMA Extended ==
    ASSUME NEW s, IsSeq(s), NEW e
    PROVE  /\ IsSeq(Append(s, e)) /\ Len(s) \in Nat /\ DOMAIN s = 1..Len(s)
           /\ Len(Append(s, e)) = Len(s) + 1 /\ DOMAIN Append(s, e) = 1..(Len(s) + 1)
           /\ \A x \in 1..Len(s) : Append(s, e)[x] = s[x]
           /\ Append(s, e)[Len(s) + 1] = e
<1>1. PICK S : s \in Seq(S)
  BY DEF IsSeq
<1>2. s \in Seq(S \union {e}) /\ e \in S \union {e}
  BY <1>1
<1> DEFINE T == S \union {e}
<1> HIDE DEF T
<1>3. s \in Seq(T) /\ e \in T
  BY <1>2 DEF T
<1>4. Append(s, e) \in Seq(T)
  BY <1>3
<1> QED BY <1>3, <1>4 DEF IsSeq

(***************************************************************************)
(* What pass 2 logs.                                                       *)
(***************************************************************************)
Size(a, m) == IF m \in Puts(a) THEN a.stmts[m].n ELSE 0

LEMMA StmtTyped ==
    ASSUME NEW a, IsAssembly(a)
    PROVE  /\ Len(a.stmts) \in Nat /\ DOMAIN a.stmts = 1..Len(a.stmts)
           /\ \A m \in DOMAIN a.stmts : a.stmts[m].op \in {"CSECT", "REPRO", "PUT"}
           /\ \A m \in Puts(a) : /\ m \in 1..Len(a.stmts) /\ a.stmts[m] \in Text(a)
                                 /\ a.stmts[m].at \in Nat /\ a.stmts[m].n \in Nat
           /\ \A m \in 1..Len(a.stmts) : Size(a, m) \in Nat
<1>1. /\ Len(a.stmts) \in Nat /\ DOMAIN a.stmts = 1..Len(a.stmts)
      /\ \A m \in 1..Len(a.stmts) : a.stmts[m] \in {[op |-> "CSECT"], [op |-> "REPRO"]} \union Text(a)
  BY DEF IsAssembly
<1>2. ASSUME NEW m \in 1..Len(a.stmts)
      PROVE  /\ a.stmts[m].op \in {"CSECT", "REPRO", "PUT"}
             /\ a.stmts[m].op = "PUT" => a.stmts[m] \in Text(a)
  BY <1>1 DEF Text
<1>3. ASSUME NEW m \in Puts(a)
      PROVE  m \in 1..Len(a.stmts) /\ a.stmts[m] \in Text(a)
  BY <1>1, <1>2 DEF Puts
<1>4. ASSUME NEW m \in Puts(a) PROVE a.stmts[m].at \in Nat /\ a.stmts[m].n \in Nat
  BY <1>3 DEF Text
<1> QED BY <1>1, <1>2, <1>3, <1>4 DEF Size

LEMMA BytesStep ==
    ASSUME NEW a, IsAssembly(a), NEW m \in 1..Len(a.stmts)
    PROVE  /\ BytesBefore(a, 1) = 0 /\ BytesBefore(a, m) \in Nat /\ BytesBefore(a, m + 1) \in Nat
           /\ BytesBefore(a, m + 1) = BytesBefore(a, m) + Size(a, m)
<1>1. PICK f : f = Sizes(a)
  OBVIOUS
<1>2. \A x \in 1..Len(a.stmts) : f[x] = Size(a, x) /\ f[x] \in Nat
  BY <1>1, StmtTyped DEF Sizes, Size
<1>3. m \in Nat /\ m > 0 /\ m <= Len(a.stmts) /\ Len(a.stmts) \in Nat
  BY StmtTyped
<1>4. \A x \in 1..m : f[x] \in Nat
  BY <1>2, <1>3
<1>5. Total(f, m) \in Nat /\ Total(f, 0) = 0 /\ Total(f, m - 1) \in Nat /\ Total(f, m) = Total(f, m - 1) + f[m]
  BY <1>3, <1>4, TotalStep
<1>6. 1 - 1 = 0 /\ (m + 1) - 1 = m
  BY <1>3
<1> QED BY <1>1, <1>2, <1>5, <1>6 DEF BytesBefore

LEMMA BytesFirst ==
    ASSUME NEW a, IsAssembly(a)
    PROVE  BytesBefore(a, 1) = 0
<1>1. PICK f : f = Sizes(a)
  OBVIOUS
<1>2. \A x \in 1..0 : f[x] \in Nat
  OBVIOUS
<1>3. Total(f, 0) = 0
  BY <1>2, TotalStep
<1>4. 1 - 1 = 0
  OBVIOUS
<1> QED BY <1>1, <1>3, <1>4 DEF BytesBefore

LEMMA BytesTyped ==
    ASSUME NEW a, IsAssembly(a), NEW m \in 1..(Len(a.stmts) + 1)
    PROVE  BytesBefore(a, m) \in Nat
<1>1. Len(a.stmts) \in Nat
  BY StmtTyped
<1>2. m \in 1..Len(a.stmts) \/ m = Len(a.stmts) + 1
  BY <1>1
<1>3. CASE m \in 1..Len(a.stmts)
  BY <1>3, BytesStep
<1>4. CASE m = Len(a.stmts) + 1 /\ Len(a.stmts) = 0
  BY <1>4, BytesFirst
<1>5. CASE m = Len(a.stmts) + 1 /\ Len(a.stmts) # 0
  <2>1. Len(a.stmts) \in 1..Len(a.stmts)
    BY <1>1, <1>5
  <2> QED BY <1>5, <2>1, BytesStep
<1> QED BY <1>2, <1>3, <1>4, <1>5

\* The bytes of a statement are behind those of every statement before it.
LEMMA BytesAscend ==
    ASSUME NEW a, IsAssembly(a), NEW m \in 1..Len(a.stmts), NEW l \in 1..(Len(a.stmts) + 1), m < l
    PROVE  BytesBefore(a, m) + Size(a, m) <= BytesBefore(a, l)
<1> DEFINE N == Len(a.stmts) + 1
           T == {x \in 0..N : m < x => BytesBefore(a, m) + Size(a, m) <= BytesBefore(a, x)}
<1>1. N \in Nat /\ m \in Nat /\ l \in 0..N /\ Len(a.stmts) \in Nat
  BY StmtTyped
<1>2. 0 \in T
  BY <1>1
<1>3. ASSUME NEW x \in 1..N, x - 1 \in T PROVE x \in T
  <2>1. CASE ~(m < x)
    BY <1>1, <2>1
  <2>2. CASE m = x - 1
    <3>1. x = m + 1
      BY <1>1, <2>2
    <3>2. BytesBefore(a, x) = BytesBefore(a, m) + Size(a, m) /\ BytesBefore(a, x) \in Nat
      BY <3>1, BytesStep
    <3> QED BY <1>1, <3>2
  <2>3. CASE m < x - 1
    <3>1. x - 1 \in 1..Len(a.stmts) /\ (x - 1) + 1 = x
      BY <1>1, <2>3
    <3>2. PICK w \in 1..Len(a.stmts) : w = x - 1 /\ w + 1 = x
      BY <3>1
    <3>3. BytesBefore(a, w + 1) = BytesBefore(a, w) + Size(a, w) /\ BytesBefore(a, w) \in Nat
      BY BytesStep
    <3>4. Size(a, w) \in Nat /\ Size(a, m) \in Nat /\ BytesBefore(a, m) \in Nat
      BY StmtTyped, BytesStep
    <3>5. BytesBefore(a, m) + Size(a, m) <= BytesBefore(a, w)
      BY <1>3, <2>3, <3>2
    <3>6. BytesBefore(a, m) + Size(a, m) <= BytesBefore(a, w + 1)
      BY <3>3, <3>4, <3>5
    <3> QED BY <1>1, <3>2, <3>6
  <2> QED BY <1>1, <2>1, <2>2, <2>3
<1>4. \A x \in 0..N : x \in T
  <2> HIDE DEF T, N
  <2> QED BY <1>1, <1>2, <1>3, Upward
<1> QED BY <1>1, <1>4

\* Statement m put byte x of the log at address b, in a section with this ESDID.
Says(a, m, x, b, id) ==
    /\ m \in Puts(a) /\ x \in Nat /\ BytesBefore(a, m) < x /\ x <= BytesBefore(a, m) + a.stmts[m].n
    /\ b = a.stmts[m].at + (x - BytesBefore(a, m) - 1) /\ id = SymEsdid(a, a.stmts[m].sect)
Stated(a, x, b, id) == \E m \in Puts(a) : Says(a, m, x, b, id)

LEMMA SaysOne ==
    ASSUME NEW a, IsAssembly(a), NEW m, NEW l, NEW x, NEW b, NEW c, NEW i, NEW j,
           Says(a, m, x, b, i), Says(a, l, x, c, j)
    PROVE  m = l /\ b = c /\ i = j
<1>1. /\ m \in 1..Len(a.stmts) /\ l \in 1..Len(a.stmts) /\ x \in Nat /\ Len(a.stmts) \in Nat
      /\ Size(a, m) = a.stmts[m].n /\ Size(a, l) = a.stmts[l].n /\ Size(a, m) \in Nat /\ Size(a, l) \in Nat
  BY StmtTyped DEF Says, Size
<1>2. BytesBefore(a, m) \in Nat /\ BytesBefore(a, l) \in Nat
  BY <1>1, BytesStep
<1>3. m < l => BytesBefore(a, m) + Size(a, m) <= BytesBefore(a, l)
  BY <1>1, BytesAscend
<1>4. l < m => BytesBefore(a, l) + Size(a, l) <= BytesBefore(a, m)
  BY <1>1, BytesAscend
<1>7. /\ BytesBefore(a, m) < x /\ x <= BytesBefore(a, m) + Size(a, m)
      /\ BytesBefore(a, l) < x /\ x <= BytesBefore(a, l) + Size(a, l)
  BY <1>1 DEF Says
<1>5. ~(m < l) /\ ~(l < m)
  <2>1. PICK y \in Nat : y = x
    BY <1>1
  <2>2. PICK bm \in Nat : bm = BytesBefore(a, m) + Size(a, m)
    BY <1>1, <1>2
  <2>3. PICK bl \in Nat : bl = BytesBefore(a, l) + Size(a, l)
    BY <1>1, <1>2
  <2>4. PICK cm \in Nat : cm = BytesBefore(a, m)
    BY <1>2
  <2>5. PICK cl \in Nat : cl = BytesBefore(a, l)
    BY <1>2
  <2>6. cm < y /\ y <= bm /\ cl < y /\ y <= bl
    BY <1>7, <2>1, <2>2, <2>3, <2>4, <2>5, Zenon
  <2>7. (m < l => bm <= cl) /\ (l < m => bl <= cm)
    BY <1>3, <1>4, <2>2, <2>3, <2>4, <2>5, Zenon
  <2>8. ~(bm <= cl) /\ ~(bl <= cm)
    BY <2>6
  <2> QED BY <2>7, <2>8, Zenon
<1>6. m = l
  BY <1>1, <1>5
<1> QED BY <1>6 DEF Says

Event == [at : Nat, n : Nat, id : Nat, off : Nat]
\* The events l hold the n bytes of the statements before K.
Logged(a, l, n, K) ==
    /\ l \in Seq(Event) /\ K \in 1..(Len(a.stmts) + 1) /\ n = BytesBefore(a, K)
    /\ l = << >> => n = 0
    /\ l # << >> => l[1].off = 0 /\ l[Len(l)].off + l[Len(l)].n = n
    /\ \A e \in 1..Len(l) : e < Len(l) => l[e].off + l[e].n = l[e + 1].off
    /\ \A e \in 1..Len(l) : \A x \in (l[e].off + 1)..(l[e].off + l[e].n) :
          Stated(a, x, l[e].at + (x - l[e].off - 1), l[e].id)

LEMMA EsdidTyped ==
    ASSUME NEW a, IsAssembly(a)
    PROVE  /\ Len(a.esd) \in Nat /\ Entries(a) = 1..Len(a.esd)
           /\ \A m \in Entries(a) : /\ a.esd[m].role \in {"SECT", "CM", "XD", "ER", "LD"}
                                    /\ EntrySound(a, a.esd[m])
           /\ \A m \in Nat : Esdid(a, m) \in Nat /\ IsFiniteSet({j \in 1..m : IsNumbered(a, j)})
           /\ Esdid(a, 0) = 0
           /\ \A m \in Nat \ {0} : Esdid(a, m) = Esdid(a, m - 1) + (IF IsNumbered(a, m) THEN 1 ELSE 0)
<1>1. /\ Len(a.esd) \in Nat /\ Entries(a) = 1..Len(a.esd) /\ DOMAIN a.esd = 1..Len(a.esd)
      /\ \A m \in 1..Len(a.esd) : a.esd[m].role \in {"SECT", "CM", "XD", "ER", "LD"}
  <2>1. a.esd \in Seq([sym : DOMAIN a.def, role : {"SECT", "CM", "XD", "ER", "LD"}])
    BY DEF IsAssembly
  <2>2. PICK T : T = [sym : DOMAIN a.def, role : {"SECT", "CM", "XD", "ER", "LD"}]
    OBVIOUS
  <2>3. PICK q \in Seq(T) : q = a.esd
    BY <2>1, <2>2
  <2>4. Len(q) \in Nat /\ DOMAIN q = 1..Len(q) /\ \A m \in 1..Len(q) : q[m] \in T
    OBVIOUS
  <2>5. \A t \in T : t.role \in {"SECT", "CM", "XD", "ER", "LD"}
    BY <2>2
  <2> QED BY <2>3, <2>4, <2>5 DEF Entries
<1>2. \A m \in Entries(a) : EntrySound(a, a.esd[m])
  BY <1>1 DEF IsAssembly
<1>3. ASSUME NEW m \in Nat PROVE IsFiniteSet({j \in 1..m : IsNumbered(a, j)}) /\ Esdid(a, m) \in Nat
  <2>1. IsFiniteSet(1..m) /\ {j \in 1..m : IsNumbered(a, j)} \subseteq 1..m
    BY FS_Interval
  <2>2. IsFiniteSet({j \in 1..m : IsNumbered(a, j)})
    BY <2>1, FS_Subset
  <2> QED BY <2>2, FS_CardinalityType DEF Esdid
<1>4. Esdid(a, 0) = 0
  <2>1. {j \in 1..0 : IsNumbered(a, j)} = {}
    OBVIOUS
  <2> QED BY <2>1, FS_EmptySet DEF Esdid
<1>5. ASSUME NEW m \in Nat \ {0} PROVE Esdid(a, m) = Esdid(a, m - 1) + (IF IsNumbered(a, m) THEN 1 ELSE 0)
  <2> DEFINE X == {j \in 1..(m - 1) : IsNumbered(a, j)}
             Y == {j \in 1..m : IsNumbered(a, j)}
  <2>1. m - 1 \in Nat /\ m \notin X /\ Y = IF IsNumbered(a, m) THEN X \union {m} ELSE X
    OBVIOUS
  <2>2. IsFiniteSet(X) /\ Cardinality(X) \in Nat
    BY <1>3, <2>1, FS_CardinalityType
  <2>3. Cardinality(X \union {m}) = Cardinality(X) + 1
    <3> HIDE DEF X
    <3> QED BY <2>1, <2>2, FS_AddElement
  <2>4. Esdid(a, m) = Cardinality(Y) /\ Esdid(a, m - 1) = Cardinality(X)
    BY DEF Esdid
  <2> HIDE DEF X, Y
  <2> QED BY <2>1, <2>2, <2>3, <2>4
<1> QED BY <1>1, <1>2, <1>3, <1>4, <1>5

\* What SymEsdid stands for.
LEMMA SymEsdidTyped ==
    ASSUME NEW a, IsAssembly(a), NEW s
    PROVE  SymEsdid(a, s) \in Nat
<1> DEFINE all == EntriesOf(a, s)
           sects == {m \in all : IsSect(a, m)}
<1>1. all \subseteq Nat /\ sects \subseteq Nat
  BY EsdidTyped DEF EntriesOf
<1>2. sects # {} => Lowest(sects) \in Nat
  <2> HIDE DEF sects
  <2> QED BY <1>1, LowestIs
<1>3. all # {} => Lowest(all) \in Nat
  <2> HIDE DEF all
  <2> QED BY <1>1, LowestIs
<1>4. SymEsdid(a, s) = IF sects # {} THEN Esdid(a, Lowest(sects)) ELSE IF all # {} THEN Esdid(a, Lowest(all)) ELSE 0
  BY DEF SymEsdid
<1> HIDE DEF sects, all
<1> QED BY <1>2, <1>3, <1>4, EsdidTyped

LEMMA SamePlace ==
    ASSUME NEW b \in Nat, NEW x \in Nat, NEW o \in Nat, NEW c \in Nat, NEW n \in Nat, NEW w \in Nat,
           b + w = c, o + w = n
    PROVE  b + (x - o - 1) = c + (x - n - 1)
OBVIOUS

LEMMA NewPart ==
    ASSUME NEW o \in Nat, NEW w \in Nat, NEW n \in Nat, NEW t \in Nat, NEW x, o + w = n,
           x \in (o + 1)..(o + (w + t)), x \notin (o + 1)..(o + w)
    PROVE  x \in (n + 1)..(n + t)
OBVIOUS

LEMMA EventGrows ==
    ASSUME NEW v \in Event, NEW n \in Nat
    PROVE  LET w == [v EXCEPT !.n = @ + n]
           IN w \in Event /\ w.at = v.at /\ w.id = v.id /\ w.off = v.off /\ w.n = v.n + n
BY DEF Event

\* l and new agree but for the last event, which has n more bytes.
Longer(l, new, n) ==
    /\ new \in Seq(Event) /\ Len(new) = Len(l)
    /\ \A e \in 1..Len(l) : e # Len(l) => new[e] = l[e]
    /\ new[Len(l)].at = l[Len(l)].at /\ new[Len(l)].id = l[Len(l)].id
    /\ new[Len(l)].off = l[Len(l)].off /\ new[Len(l)].n = l[Len(l)].n + n

LEMMA LogGrows ==
    ASSUME NEW l \in Seq(Event), l # << >>, NEW n \in Nat
    PROVE  Longer(l, [l EXCEPT ![Len(l)].n = @ + n], n)
<1>1. Len(l) \in 1..Len(l)
  OBVIOUS
<1>2. PICK L \in 1..Len(l) : L = Len(l)
  BY <1>1
<1>3. PICK v \in Event : v = l[L]
  BY <1>2
<1>4. PICK w : w = [v EXCEPT !.n = @ + n]
  OBVIOUS
<1>5. w \in Event /\ w.at = v.at /\ w.id = v.id /\ w.off = v.off /\ w.n = v.n + n
  BY <1>4, EventGrows
<1>6. [l EXCEPT ![Len(l)].n = @ + n] = [l EXCEPT ![L] = w]
  BY <1>2, <1>3, <1>4
<1>7. PICK new : new = [l EXCEPT ![L] = w]
  OBVIOUS
<1>8. new \in Seq(Event) /\ Len(new) = Len(l) /\ new[L] = w /\ \A x \in 1..Len(l) : x # L => new[x] = l[x]
  BY <1>5, <1>7, Replaced
<1>9. Longer(l, new, n)
  BY <1>2, <1>3, <1>5, <1>8 DEF Longer
<1> QED BY <1>6, <1>7, <1>9

\* put: the bytes of statement K join the last event or make a new one.
LEMMA PutLogged ==
    ASSUME NEW a, IsAssembly(a), NEW l, NEW n, NEW K, Logged(a, l, n, K), K \in Puts(a),
           NEW s, s = a.stmts[K], NEW id, id = SymEsdid(a, s.sect),
           NEW new, Extends(l, s.at, id) => Longer(l, new, s.n),
           ~Extends(l, s.at, id) => new = Append(l, [at |-> s.at, n |-> s.n, id |-> id, off |-> n])
    PROVE  Logged(a, new, n + s.n, K + 1)
<1>1. /\ l \in Seq(Event) /\ n = BytesBefore(a, K) /\ Len(l) \in Nat
      /\ K \in 1..Len(a.stmts) /\ Len(a.stmts) \in Nat /\ s.at \in Nat /\ s.n \in Nat /\ Size(a, K) = s.n
  BY StmtTyped DEF Logged, Size
<1>2. /\ n \in Nat /\ n + s.n = BytesBefore(a, K + 1) /\ K + 1 \in 1..(Len(a.stmts) + 1) /\ n + s.n \in Nat
  <2>1. BytesBefore(a, K) \in Nat /\ BytesBefore(a, K + 1) = BytesBefore(a, K) + Size(a, K)
    BY <1>1, BytesStep
  <2>2. K + 1 \in 1..(Len(a.stmts) + 1)
    BY <1>1
  <2>3. n \in Nat /\ n + s.n = BytesBefore(a, K + 1)
    BY <1>1, <2>1, Zenon
  <2>4. n + s.n \in Nat
    BY <1>1, <2>3
  <2> QED BY <2>2, <2>3, <2>4, Zenon
<1>3. id \in Nat
  BY SymEsdidTyped
<1>4. ASSUME NEW x \in (n + 1)..(n + s.n)
      PROVE  Stated(a, x, s.at + (x - n - 1), id)
  <2>1. x \in Nat /\ n < x /\ x <= n + s.n
    BY <1>1, <1>2
  <2>2. Says(a, K, x, s.at + (x - n - 1), id)
    BY <1>1, <2>1 DEF Says
  <2> QED BY <2>2 DEF Stated
<1>5. CASE Extends(l, s.at, id)
  <2>10. PICK L \in Nat : L = Len(l)
    BY <1>1
  <2>1. L \in 1..L /\ l # << >> /\ L > 0 /\ l[L].at + l[L].n = s.at /\ l[L].id = id /\ l[L].off + l[L].n = n
    BY <1>1, <1>5, <2>10 DEF Extends, Logged
  <2>2. l[L] \in Event /\ \A e \in 1..L : l[e] \in Event
    BY <1>1, <2>1, <2>10
  <2>3. /\ Len(new) = L /\ new \in Seq(Event)
        /\ \A e \in 1..L : e # L => new[e] = l[e]
        /\ new[L].at = l[L].at /\ new[L].id = l[L].id /\ new[L].off = l[L].off /\ new[L].n = l[L].n + s.n
    BY <1>5, <2>10 DEF Longer
  <2>4. new # << >>
    BY <2>1, <2>3
  <2>5. /\ \A e \in 1..L : new[e].off = l[e].off /\ new[e].at = l[e].at /\ new[e].id = l[e].id
        /\ \A e \in 1..L : e < L => new[e].n = l[e].n
        /\ \A e \in 1..L : l[e].off \in Nat /\ l[e].n \in Nat /\ l[e].at \in Nat
    <3>1. \A e \in 1..L : l[e].off \in Nat /\ l[e].n \in Nat /\ l[e].at \in Nat
      BY <2>2 DEF Event
    <3>2. \A e \in 1..L : new[e].off = l[e].off /\ new[e].at = l[e].at /\ new[e].id = l[e].id
      BY <2>3
    <3>3. \A e \in 1..L : e < L => new[e].n = l[e].n
      BY <2>3
    <3> QED BY <3>1, <3>2, <3>3
  <2>6. new[1].off = 0 /\ new[Len(new)].off + new[Len(new)].n = n + s.n
    <3>1. 1 \in 1..L
      BY <2>1
    <3>2. l[1].off = 0
      BY <2>1, <2>10 DEF Logged
    <3>3. new[1].off = 0 /\ new[L].off = l[L].off /\ new[L].n = l[L].n + s.n
      BY <2>3, <2>5, <3>1, <3>2
    <3>4. l[L].off \in Nat /\ l[L].n \in Nat
      BY <2>1, <2>5
    <3>5. l[L].off + (l[L].n + s.n) = n + s.n
      <4>1. PICK u \in Nat, v \in Nat, w \in Nat : u = l[L].off /\ v = l[L].n /\ w = s.n
        BY <1>1, <3>4
      <4>2. u + v = n
        BY <1>1, <2>1, <4>1
      <4>3. u + (v + w) = (u + v) + w
        OBVIOUS
      <4> QED BY <4>1, <4>2, <4>3
    <3> QED BY <2>3, <3>3, <3>5
  <2>7. \A e \in 1..Len(new) : e < Len(new) => new[e].off + new[e].n = new[e + 1].off
    <3> SUFFICES ASSUME NEW e \in 1..L, e < L PROVE new[e].off + new[e].n = new[e + 1].off
      BY <2>3
    <3>1. e + 1 \in 1..L /\ l[e].off + l[e].n = l[e + 1].off
      BY <1>1, <2>10 DEF Logged
    <3> QED BY <2>5, <3>1
  <2>8. ASSUME NEW e \in 1..Len(new), NEW x \in (new[e].off + 1)..(new[e].off + new[e].n)
        PROVE  Stated(a, x, new[e].at + (x - new[e].off - 1), new[e].id)
    <3>1. e \in 1..L
      BY <2>3
    <3>2. CASE x \in (l[e].off + 1)..(l[e].off + l[e].n)
      <4>1. Stated(a, x, l[e].at + (x - l[e].off - 1), l[e].id)
        BY <2>10, <3>1, <3>2 DEF Logged
      <4> QED BY <2>5, <3>1, <4>1
    <3>3. CASE x \notin (l[e].off + 1)..(l[e].off + l[e].n)
      <4>1. e = L
        BY <2>5, <3>1, <3>3
      <4>2. x \in (n + 1)..(n + s.n)
        <5>1. l[L].off \in Nat /\ l[L].n \in Nat /\ l[L].off + l[L].n = n
          BY <2>1, <2>5
        <5>2. x \in (l[L].off + 1)..(l[L].off + (l[L].n + s.n)) /\ x \notin (l[L].off + 1)..(l[L].off + l[L].n)
          BY <2>3, <2>8, <3>3, <4>1
        <5>3. PICK o \in Nat, w \in Nat, t \in Nat, nn \in Nat : o = l[L].off /\ w = l[L].n /\ t = s.n /\ nn = n
          BY <1>1, <1>2, <5>1
        <5>4. o + w = nn /\ x \in (o + 1)..(o + (w + t)) /\ x \notin (o + 1)..(o + w)
          BY <5>1, <5>2, <5>3
        <5>5. x \in (nn + 1)..(nn + t)
          BY <5>4, NewPart
        <5> QED BY <5>3, <5>5
      <4>3. new[e].at + (x - new[e].off - 1) = s.at + (x - n - 1) /\ new[e].id = id
        <5>1. new[e].at = l[L].at /\ new[e].off = l[L].off /\ new[e].id = id
          BY <2>1, <2>5, <3>1, <4>1
        <5>2. l[L].at \in Nat /\ l[L].off \in Nat /\ l[L].n \in Nat /\ x \in Nat
          BY <1>2, <2>1, <2>5, <4>2
        <5>3. l[L].at + (x - l[L].off - 1) = s.at + (x - n - 1)
          <6>1. PICK b \in Nat, o \in Nat, c \in Nat, nn \in Nat, w \in Nat :
                    b = l[L].at /\ o = l[L].off /\ c = s.at /\ nn = n /\ w = l[L].n
            BY <1>1, <1>2, <5>2
          <6>2. b + w = c /\ o + w = nn /\ x \in Nat
            BY <2>1, <5>2, <6>1
          <6>3. b + (x - o - 1) = c + (x - nn - 1)
            BY <6>2, SamePlace
          <6> QED BY <6>1, <6>3
        <5> QED BY <5>1, <5>3
      <4> QED BY <1>4, <4>2, <4>3
    <3> QED BY <3>2, <3>3
  <2> QED BY <1>2, <2>3, <2>4, <2>6, <2>7, <2>8 DEF Logged
<1>6. CASE ~Extends(l, s.at, id)
  <2> DEFINE L == Len(l)
             r == [at |-> s.at, n |-> s.n, id |-> id, off |-> n]
  <2>1. r \in Event /\ r.at = s.at /\ r.n = s.n /\ r.id = id /\ r.off = n
    BY <1>1, <1>2, <1>3 DEF Event
  <2>2. new = Append(l, r)
    BY <1>6
  <2> HIDE DEF r
  <2>3. /\ new \in Seq(Event) /\ Len(new) = L + 1 /\ new # << >> /\ new[L + 1] = r
        /\ \A e \in 1..L : new[e] = l[e] /\ l[e] \in Event
    BY <1>1, <2>1, <2>2
  <2>4. new[1].off = 0 /\ new[Len(new)].off + new[Len(new)].n = n + s.n
    <3>1. CASE L = 0
      <4>1. l = << >> /\ n = 0
        BY <1>1, <3>1 DEF Logged
      <4> QED BY <1>1, <2>1, <2>3, <3>1, <4>1
    <3>2. CASE L # 0
      <4>1. 1 \in 1..L /\ l # << >>
        BY <1>1, <3>2
      <4>2. l[1].off = 0
        BY <4>1 DEF Logged
      <4> QED BY <1>1, <2>1, <2>3, <4>1, <4>2
    <3> QED BY <3>1, <3>2
  <2>5. ASSUME NEW e \in 1..Len(new), e < Len(new) PROVE new[e].off + new[e].n = new[e + 1].off
    <3>1. e \in 1..L /\ new[e] = l[e]
      BY <1>1, <2>3, <2>5
    <3>2. CASE e < L
      <4>1. e + 1 \in 1..L /\ l[e].off + l[e].n = l[e + 1].off
        BY <1>1, <3>1, <3>2 DEF Logged
      <4> QED BY <2>3, <3>1, <4>1
    <3>3. CASE e = L
      <4>1. l # << >>
        BY <1>1, <3>1, <3>3
      <4>2. l[L].off + l[L].n = n
        BY <4>1 DEF Logged
      <4> QED BY <2>1, <2>3, <3>1, <3>3, <4>2
    <3> QED BY <1>1, <3>1, <3>2, <3>3
  <2>6. ASSUME NEW e \in 1..Len(new), NEW x \in (new[e].off + 1)..(new[e].off + new[e].n)
        PROVE  Stated(a, x, new[e].at + (x - new[e].off - 1), new[e].id)
    <3>1. e \in 1..L \/ e = L + 1
      BY <1>1, <2>3
    <3>2. CASE e \in 1..L
      BY <2>3, <2>6, <3>2 DEF Logged
    <3>3. CASE e = L + 1
      BY <1>4, <2>1, <2>3, <2>6, <3>3
    <3> QED BY <3>1, <3>2, <3>3
  <2> QED BY <1>2, <2>3, <2>4, <2>5, <2>6 DEF Logged
<1> QED BY <1>5, <1>6

\* A statement that puts nothing.
LEMMA SkipLogged ==
    ASSUME NEW a, IsAssembly(a), NEW l, NEW n, NEW K, Logged(a, l, n, K), K \in 1..Len(a.stmts), K \notin Puts(a)
    PROVE  Logged(a, l, n, K + 1)
<1>1. BytesBefore(a, K + 1) = n /\ K + 1 \in 1..(Len(a.stmts) + 1)
  BY BytesStep, StmtTyped DEF Logged, Size
<1> QED BY <1>1 DEF Logged

(***************************************************************************)
(* Cards.                                                                  *)
(***************************************************************************)
\* d2 is d with card c added.
Adding(d, c, d2, kind) ==
    /\ Cards(d2, kind) = IF c.kind = kind THEN Cards(d, kind) \union {Len(d) + 1} ELSE Cards(d, kind)
    /\ \A x \in Cards(d, kind) : x \in 1..Len(d) /\ d2[x] = d[x] /\ x < Len(d) + 1
    /\ Len(d) + 1 \notin Cards(d, kind) /\ d2[Len(d) + 1] = c /\ Len(d) \in Nat
    /\ Cards(d, kind) \subseteq 1..Len(d)

LEMMA Added ==
    ASSUME NEW d, IsSeq(d), NEW c, NEW d2, d2 = Append(d, c), NEW kind
    PROVE  Adding(d, c, d2, kind)
<1>1. /\ Len(d) \in Nat /\ DOMAIN d = 1..Len(d) /\ DOMAIN d2 = 1..(Len(d) + 1)
      /\ \A x \in 1..Len(d) : d2[x] = d[x]
      /\ d2[Len(d) + 1] = c
  BY Extended
<1>2. 1..(Len(d) + 1) = (1..Len(d)) \union {Len(d) + 1} /\ Len(d) + 1 \notin 1..Len(d)
  BY <1>1
<1>3. Cards(d2, kind) = IF c.kind = kind THEN Cards(d, kind) \union {Len(d) + 1} ELSE Cards(d, kind)
  BY <1>1, <1>2 DEF Cards
<1> QED BY <1>1, <1>2, <1>3 DEF Cards, Adding

\* A text card of bytes up to n.
CardText(a, r, n) ==
    /\ r.from \in Nat \ {0} /\ r.n \in Nat /\ r.addr \in Nat /\ r.from + r.n <= n + 1
    /\ \A x \in r.from..(r.from + r.n - 1) : Stated(a, x, r.addr + (x - r.from), r.id)

\* The text cards of d carry bytes 1..n of the log in order.
Texted(a, d, n) ==
    /\ n \in Nat
    /\ \A c \in Cards(d, "TXT") : CardText(a, d[c], n)
    /\ \A c, e \in Cards(d, "TXT") : c < e => d[c].from + d[c].n <= d[e].from
    /\ \A x \in 1..n : \E c \in Cards(d, "TXT") : x \in d[c].from..(d[c].from + d[c].n - 1)

LEMMA NoText ==
    ASSUME NEW a, NEW d, Cards(d, "TXT") = {}
    PROVE  Texted(a, d, 0)
BY DEF Texted

LEMMA TextOther ==
    ASSUME NEW a, NEW d, IsSeq(d), NEW n, Texted(a, d, n), NEW c, c.kind # "TXT"
    PROVE  Texted(a, Append(d, c), n)
<1>1. PICK d2 : d2 = Append(d, c)
  OBVIOUS
<1>4. Adding(d, c, d2, "TXT")
  BY <1>1, Added, Zenon
<1>2. Cards(d2, "TXT") = Cards(d, "TXT") /\ \A x \in Cards(d, "TXT") : d2[x] = d[x]
  BY <1>4 DEF Adding
<1>3. Texted(a, d2, n)
  BY <1>2 DEF Texted
<1> QED BY <1>1, <1>3

LEMMA TextFlushed ==
    ASSUME NEW a, NEW d, IsSeq(d), NEW n \in Nat, NEW r, r.kind = "TXT", Texted(a, d, r.from - 1),
           CardText(a, r, n), r.from + r.n = n + 1
    PROVE  Texted(a, Append(d, r), n)
<1>1. PICK d2 : d2 = Append(d, r)
  OBVIOUS
<1>2. /\ Cards(d2, "TXT") = Cards(d, "TXT") \union {Len(d) + 1}
      /\ \A x \in Cards(d, "TXT") : x \in 1..Len(d) /\ d2[x] = d[x] /\ x < Len(d) + 1
      /\ Len(d) + 1 \notin Cards(d, "TXT") /\ d2[Len(d) + 1] = r /\ Len(d) \in Nat
  <2>1. Adding(d, r, d2, "TXT")
    BY <1>1, Added, Zenon
  <2> QED BY <2>1 DEF Adding
<1>3. r.from \in Nat \ {0} /\ r.n \in Nat /\ r.from - 1 \in Nat
  BY DEF CardText
<1>4. ASSUME NEW c \in Cards(d2, "TXT") PROVE CardText(a, d2[c], n)
  <2>1. CASE c = Len(d) + 1
    BY <1>2, <2>1
  <2>2. CASE c \in Cards(d, "TXT")
    <3>1. PICK v : v = d[c]
      OBVIOUS
    <3>2. CardText(a, v, r.from - 1)
      BY <2>2, <3>1 DEF Texted
    <3>3. v.from \in Nat \ {0} /\ v.n \in Nat /\ v.from + v.n <= (r.from - 1) + 1
      BY <3>2 DEF CardText
    <3>4. v.from + v.n <= n + 1
      BY <1>3, <3>3
    <3> QED BY <1>2, <2>2, <3>1, <3>2, <3>4 DEF CardText
  <2> QED BY <1>2, <2>1, <2>2
<1>5. ASSUME NEW c \in Cards(d2, "TXT"), NEW e \in Cards(d2, "TXT"), c < e
      PROVE  d2[c].from + d2[c].n <= d2[e].from
  <2>1. CASE c \in Cards(d, "TXT") /\ e \in Cards(d, "TXT")
    BY <1>2, <1>5, <2>1 DEF Texted
  <2>2. CASE c \in Cards(d, "TXT") /\ e = Len(d) + 1
    <3>1. CardText(a, d[c], r.from - 1)
      BY <2>2 DEF Texted
    <3>2. d[c].from + d[c].n <= (r.from - 1) + 1 /\ (r.from - 1) + 1 = r.from
      BY <1>3, <3>1 DEF CardText
    <3> QED BY <1>2, <2>2, <3>2
  <2>3. CASE c = Len(d) + 1
    BY <1>2, <1>5, <2>3
  <2> QED BY <1>2, <2>1, <2>2, <2>3
<1>6. ASSUME NEW x \in 1..n
      PROVE  \E c \in Cards(d2, "TXT") : x \in d2[c].from..(d2[c].from + d2[c].n - 1)
  <2>1. x \in 1..(r.from - 1) \/ x \in r.from..(r.from + r.n - 1)
    BY <1>3
  <2>2. CASE x \in 1..(r.from - 1)
    <3>1. PICK c \in Cards(d, "TXT") : x \in d[c].from..(d[c].from + d[c].n - 1)
      BY <2>2 DEF Texted
    <3> QED BY <1>2, <3>1
  <2>3. CASE x \in r.from..(r.from + r.n - 1)
    BY <1>2, <2>3
  <2> QED BY <2>1, <2>2, <2>3
<1>7. Texted(a, d2, n)
  BY <1>4, <1>5, <1>6 DEF Texted
<1> QED BY <1>1, <1>7

\* Card q is card r and t bytes of event v behind the first p of it; n bytes of the
\* log are taken before.
Joins(v, p, t, n, r, q) ==
    /\ p + t <= v.n /\ n = v.off + p /\ r.from + r.n = n + 1 /\ r.addr + r.n = v.at + p /\ r.id = v.id
    /\ q.from = r.from /\ q.addr = r.addr /\ q.id = r.id /\ q.n = r.n + t

LEMMA TextTaken ==
    ASSUME NEW a, NEW l, NEW b, NEW K, Logged(a, l, b, K), NEW e \in 1..Len(l), NEW p \in Nat, NEW t \in Nat,
           NEW n \in Nat, NEW r, CardText(a, r, n), NEW q, Joins(l[e], p, t, n, r, q)
    PROVE  CardText(a, q, n + t) /\ q.from + q.n = n + t + 1 /\ n + t \in Nat
<1> USE DEF Joins
<1>1. l[e] \in Event
  BY DEF Logged
<1>2. PICK o \in Nat, w \in Nat, at \in Nat : o = l[e].off /\ w = l[e].n /\ at = l[e].at
  BY <1>1 DEF Event
<1>3. /\ r.from \in Nat \ {0} /\ r.n \in Nat /\ r.addr \in Nat
  BY DEF CardText
<1>4. PICK f \in Nat, m \in Nat, ad \in Nat : f = r.from /\ m = r.n /\ ad = r.addr
  BY <1>3
<1>5. n = o + p /\ p + t <= w /\ f + m = n + 1 /\ ad + m = at + p /\ f # 0
  <2>1. n = o + p /\ p + t <= w
    BY <1>2
  <2>2. f + m = n + 1 /\ f # 0
    BY <1>3, <1>4
  <2>3. ad + m = at + p
    BY <1>2, <1>4
  <2> QED BY <2>1, <2>2, <2>3
<1>8. n \in Nat
  BY <1>5
<1>6. /\ q.from = f /\ f \in Nat \ {0} /\ q.n = m + t /\ m + t \in Nat /\ q.addr = ad /\ f + (m + t) = n + t + 1 /\ n + t \in Nat
  <2>1. q.from = f /\ q.n = m + t /\ q.addr = ad
    BY <1>4
  <2>2. f \in Nat \ {0} /\ m + t \in Nat /\ n + t \in Nat
    BY <1>5, <1>8
  <2>3. f + (m + t) = n + t + 1
    <3>1. f + (m + t) = (f + m) + t
      OBVIOUS
    <3>2. (n + 1) + t = n + t + 1
      BY <1>8
    <3> QED BY <1>5, <3>1, <3>2, Zenon
  <2> QED BY <1>5, <2>1, <2>2, <2>3
<1>7. ASSUME NEW x \in f..(f + (m + t) - 1)
      PROVE  Stated(a, x, ad + (x - f), r.id)
  <2>1. CASE x \in f..(f + m - 1)
    BY <1>4, <2>1 DEF CardText
  <2>2. CASE x \notin f..(f + m - 1)
    <3>1. x \in (o + 1)..(o + w) /\ ad + (x - f) = at + (x - o - 1)
      BY <1>5, <2>2
    <3>2. Stated(a, x, at + (x - o - 1), l[e].id)
      BY <1>2, <3>1 DEF Logged
    <3> QED BY <3>1, <3>2
  <2> QED BY <2>1, <2>2
<1>9. \A x \in q.from..(q.from + q.n - 1) : Stated(a, x, q.addr + (x - q.from), q.id)
  <2>1. \A x \in f..(f + (m + t) - 1) : Stated(a, x, ad + (x - f), r.id)
    BY <1>7, Zenon
  <2>2. q.from = f /\ q.n = m + t /\ q.addr = ad /\ q.id = r.id
    BY <1>6
  <2> QED BY <2>1, <2>2, Zenon
<1>10. q.from + q.n = n + t + 1 /\ q.from + q.n <= n + t + 1
  <2>1. PICK y \in Nat : y = n + t
    BY <1>6, Zenon
  <2>2. y + 1 <= y + 1
    OBVIOUS
  <2>3. q.from + q.n = f + (m + t) /\ f + (m + t) = n + t + 1
    BY <1>6, Zenon
  <2>4. n + t + 1 = y + 1
    BY <2>1, Zenon
  <2> QED BY <2>2, <2>3, <2>4, Zenon
<1> QED BY <1>6, <1>9, <1>10 DEF CardText

\* What emit_obj takes at a time: within the event, the card and the next REPRO.
Punch == [by : Nat, before_esd : BOOLEAN, at_bytes : Int]
Pending(p) == ~punches[p].before_esd /\ punches[p].at_bytes > done

LEMMA TakeFits ==
    ASSUME punches \in Seq(Punch), done \in Nat, log \in Seq(Event), k \in 1..Len(log), pos \in Nat, pos <= log[k].n,
           NEW room \in Nat
    PROVE  /\ Take(room) \in Nat /\ Take(room) <= room /\ pos + Take(room) <= log[k].n
           /\ \A p \in DOMAIN punches : Pending(p) => done + Take(room) <= punches[p].at_bytes
<1> DEFINE Q == {q \in DOMAIN punches : ~punches[q].before_esd /\ punches[q].at_bytes > done}
           M == {punches[p].at_bytes - done : p \in Q}
           most == Least(room, log[k].n - pos)
           Y == M \union {most}
<1>1. log[k] \in Event
  OBVIOUS
<1>2. log[k].n \in Nat
  BY <1>1 DEF Event
<1>3. most \in Nat /\ most <= room /\ pos + most <= log[k].n
  BY <1>2 DEF Least
<1>4. \A p \in DOMAIN punches : punches[p].at_bytes \in Int
  <2>1. \A p \in DOMAIN punches : punches[p] \in Punch
    OBVIOUS
  <2> QED BY <2>1 DEF Punch
<1>5. M \subseteq Nat
  BY <1>4
<1>6. Take(room) = Lowest(Y)
  BY DEF Take
<1>7. Lowest(Y) \in Y /\ \A y \in Y : Lowest(Y) <= y
  <2> HIDE DEF M, most
  <2>1. Y \subseteq Nat /\ Y # {}
    BY <1>3, <1>5
  <2> HIDE DEF Y
  <2> QED BY <2>1, LowestIs
<1>8. ASSUME NEW p \in DOMAIN punches, Pending(p) PROVE Take(room) <= punches[p].at_bytes - done
  <2>1. punches[p].at_bytes - done \in M
    BY <1>8 DEF Pending
  <2> QED BY <1>6, <1>7, <2>1
<1>9. Take(room) \in Nat /\ Take(room) <= most
  <2> HIDE DEF M, most
  <2> QED BY <1>3, <1>5, <1>6, <1>7
<1>10. \A p \in DOMAIN punches : Pending(p) => done + Take(room) <= punches[p].at_bytes
  <2> HIDE DEF M, most, Y
  <2> QED BY <1>4, <1>8, <1>9
<1> HIDE DEF most
<1> QED BY <1>2, <1>3, <1>9, <1>10

(***************************************************************************)
(* The text of the deck.                                                   *)
(***************************************************************************)
Base ==
    /\ IsAssembly(asm) /\ IsSeq(deck) /\ punches \in Seq(Punch) /\ seen \in BOOLEAN
    /\ k \in Nat \ {0} /\ done \in Nat /\ pos \in Nat
    /\ pc \notin {"esd", "txt", "rld"} => ~card.open

\* Where the next byte is taken from.
Cut == /\ k \in 1..(Len(log) + 1)
       /\ k <= Len(log) => done = log[k].off + pos /\ pos <= log[k].n
       /\ k = Len(log) + 1 => done = blen /\ pos = 0
\* The card being filled carries what the deck does not.
Filling == IF card.open
           THEN Texted(asm, deck, card.from - 1) /\ CardText(asm, card, done) /\ card.from + card.n = done + 1
           ELSE Texted(asm, deck, done)

TextInv ==
    /\ Base
    /\ pc = "pass2" => Logged(asm, log, blen, k)
    /\ pc # "pass2" => Logged(asm, log, blen, Len(asm.stmts) + 1)
    /\ pc \in {"pass2", "early", "esd"} => Cards(deck, "TXT") = {} /\ done = 0 /\ pos = 0
    /\ pc = "txt" => Cut /\ Filling
    /\ pc \in {"sort", "rld", "end", "done"} => Texted(asm, deck, blen)

LEMMA TextInit == Init => TextInv
<1> SUFFICES ASSUME Init PROVE TextInv
  OBVIOUS
<1>1. IsAssembly(asm)
  BY AssembliesAssumption DEF Init
<1>2. << >> \in Seq({}) /\ << >> \in Seq(Punch) /\ << >> \in Seq(Event) /\ Len(<< >>) = 0
  OBVIOUS
<1>3. Base
  <2>1. IsSeq(deck)
    BY <1>2 DEF Init, IsSeq
  <2>2. ~card.open
    BY DEF Init, NoCard
  <2>3. k \in Nat \ {0} /\ done \in Nat /\ pos \in Nat
    BY DEF Init
  <2>4. punches \in Seq(Punch)
    BY <1>2 DEF Init
  <2>5. seen \in BOOLEAN
    BY Zenon DEF Init
  <2> QED BY <1>1, <2>1, <2>2, <2>3, <2>4, <2>5, Zenon DEF Base
<1>4. Cards(deck, "TXT") = {} /\ done = 0 /\ pos = 0
  BY DEF Init, Cards
<1>5. 1 \in 1..(Len(asm.stmts) + 1) /\ 0 = BytesBefore(asm, 1)
  BY <1>1, StmtTyped, BytesFirst
<1>6. Logged(asm, log, blen, k)
  BY <1>2, <1>5 DEF Init, Logged
<1> QED BY <1>3, <1>4, <1>6 DEF TextInv, Init

LEMMA OtherCard ==
    ASSUME NEW d, IsSeq(d), NEW c, c.kind # "TXT"
    PROVE  IsSeq(Append(d, c)) /\ Cards(Append(d, c), "TXT") = Cards(d, "TXT")
<1>1. PICK d2 : d2 = Append(d, c)
  OBVIOUS
<1>2. Adding(d, c, d2, "TXT")
  BY <1>1, Added
<1> QED BY <1>1, <1>2, Extended DEF Adding

\* Pass 2.
LEMMA TextSection == ASSUME TextInv, Section PROVE TextInv'
<1>1. pc = "pass2" /\ k \in 1..Len(asm.stmts) /\ k \notin Puts(asm) /\ Logged(asm, log, blen, k) /\ IsAssembly(asm)
  <2>1. k \in 1..Len(asm.stmts)
    BY StmtTyped DEF TextInv, Base, Section, At
  <2> QED BY <2>1 DEF TextInv, Base, Section, At, Puts
<1>2. Logged(asm, log, blen, k + 1)
  BY <1>1, SkipLogged
<1>3. Base'
  BY DEF TextInv, Base, Section
<1> QED BY <1>1, <1>2, <1>3 DEF TextInv, Section

LEMMA TextRepro == ASSUME TextInv, Repro PROVE TextInv'
<1>1. pc = "pass2" /\ k \in 1..Len(asm.stmts) /\ k \notin Puts(asm) /\ Logged(asm, log, blen, k) /\ IsAssembly(asm)
  <2>1. k \in 1..Len(asm.stmts)
    BY StmtTyped DEF TextInv, Base, Repro, At
  <2> QED BY <2>1 DEF TextInv, Base, Repro, At, Puts
<1>2. Logged(asm, log, blen, k + 1)
  BY <1>1, SkipLogged
<1>3. blen \in Nat
  BY <1>1, BytesTyped DEF Logged
<1>4. PICK p : p = [by |-> k, before_esd |-> ~seen, at_bytes |-> blen]
  OBVIOUS
<1>5. p \in Punch
  BY <1>1, <1>3, <1>4 DEF TextInv, Base, Punch
<1>6. punches' \in Seq(Punch)
  BY <1>4, <1>5 DEF Repro, TextInv, Base
<1>7. Base'
  BY <1>6 DEF TextInv, Base, Repro
<1> QED BY <1>1, <1>2, <1>7 DEF TextInv, Repro

LEMMA TextPut == ASSUME TextInv, Put PROVE TextInv'
<1>1. pc = "pass2" /\ k \in 1..Len(asm.stmts) /\ k \in Puts(asm) /\ Logged(asm, log, blen, k) /\ IsAssembly(asm)
  <2>1. k \in 1..Len(asm.stmts)
    BY StmtTyped DEF TextInv, Base, Put, At
  <2> QED BY <2>1, StmtTyped DEF TextInv, Base, Put, At, Puts
<1>2. PICK s, id : s = asm.stmts[k] /\ id = SymEsdid(asm, s.sect)
  OBVIOUS
<1>3. /\ log' = IF Extends(log, s.at, id) THEN [log EXCEPT ![Len(log)].n = @ + s.n]
                ELSE Append(log, [at |-> s.at, n |-> s.n, id |-> id, off |-> blen])
      /\ blen' = blen + s.n
  BY <1>2 DEF Put
<1>4. s.n \in Nat
  BY <1>1, <1>2, StmtTyped
<1>5. Extends(log, s.at, id) => Longer(log, log', s.n)
  <2> SUFFICES ASSUME Extends(log, s.at, id) PROVE Longer(log, log', s.n)
    OBVIOUS
  <2>1. log \in Seq(Event) /\ log # << >>
    BY <1>1 DEF Extends, Logged
  <2>2. log' = [log EXCEPT ![Len(log)].n = @ + s.n]
    BY <1>3
  <2> QED BY <1>4, <2>1, <2>2, LogGrows
<1>6. ~Extends(log, s.at, id) => log' = Append(log, [at |-> s.at, n |-> s.n, id |-> id, off |-> blen])
  BY <1>3
<1>7. PICK new : new = log'
  OBVIOUS
<1>8. Logged(asm, new, blen + s.n, k + 1)
  BY <1>1, <1>2, <1>5, <1>6, <1>7, PutLogged
<1>9. Base'
  BY DEF TextInv, Base, Put
<1> QED BY <1>1, <1>3, <1>7, <1>8, <1>9 DEF TextInv, Put

LEMMA TextPassDone == ASSUME TextInv, PassDone PROVE TextInv'
<1>1. IsAssembly(asm) /\ Logged(asm, log, blen, k) /\ k > Len(asm.stmts) /\ Len(asm.stmts) \in Nat
  BY StmtTyped DEF TextInv, Base, PassDone
<1>2. k = Len(asm.stmts) + 1
  BY <1>1 DEF Logged
<1> QED BY <1>1, <1>2 DEF TextInv, Base, PassDone

LEMMA TextEarly == ASSUME TextInv, PunchEarly \/ EarlyDone PROVE TextInv'
<1>1. ReproCard(punches[k]).kind # "TXT"
  BY DEF ReproCard
<1>2. /\ IsSeq(Append(deck, ReproCard(punches[k])))
      /\ Cards(Append(deck, ReproCard(punches[k])), "TXT") = Cards(deck, "TXT")
  BY <1>1, OtherCard DEF TextInv, Base
<1>3. CASE PunchEarly
  <2>1. IsSeq(deck') /\ Cards(deck', "TXT") = Cards(deck, "TXT")
    BY <1>2, <1>3 DEF PunchEarly, TextInv, Base
  <2>2. Base'
    BY <1>3, <2>1 DEF PunchEarly, TextInv, Base
  <2> QED BY <1>3, <2>1, <2>2 DEF PunchEarly, TextInv
<1>4. CASE EarlyDone
  BY <1>4 DEF TextInv, Base, EarlyDone
<1> QED BY <1>3, <1>4

LEMMA TextEsd == ASSUME TextInv, EsdEnt \/ EsdFlush \/ EsdDone PROVE TextInv'
<1>1. EsdCard.kind # "TXT" /\ pc = "esd"
  BY DEF EsdCard, EsdEnt, EsdFlush, EsdDone
<1>2. IsSeq(Append(deck, EsdCard)) /\ Cards(Append(deck, EsdCard), "TXT") = Cards(deck, "TXT")
  BY <1>1, OtherCard DEF TextInv, Base
<1>3. CASE EsdEnt
  BY <1>3 DEF TextInv, Base, EsdEnt
<1>4. CASE EsdFlush
  BY <1>2, <1>4 DEF TextInv, Base, EsdFlush
<1>5. CASE EsdDone
  <2>1. Logged(asm, log, blen, Len(asm.stmts) + 1) /\ done = 0 /\ pos = 0 /\ Cards(deck, "TXT") = {} /\ ~card.open
    BY <1>1, <1>5 DEF TextInv, EsdDone
  <2>2. Texted(asm, deck, 0)
    BY <2>1, NoText
  <2>3. Filling'
    BY <1>5, <2>1, <2>2 DEF Filling, EsdDone
  <2>4. Cut'
    <3>1. log \in Seq(Event) /\ Len(log) \in Nat /\ (log = << >> => blen = 0) /\ (log # << >> => log[1].off = 0)
      BY <2>1 DEF Logged
    <3>2. 1 <= Len(log) => log # << >> /\ log[1] \in Event
      BY <3>1
    <3>3. 1 = Len(log) + 1 => log = << >>
      BY <3>1
    <3>4. 1 <= Len(log) => log[1].n \in Nat
      BY <3>2 DEF Event
    <3> QED BY <1>5, <2>1, <3>1, <3>2, <3>3, <3>4 DEF Cut, EsdDone
  <2>5. Base'
    BY <1>5 DEF TextInv, Base, EsdDone
  <2> QED BY <1>5, <2>1, <2>3, <2>4, <2>5 DEF TextInv, EsdDone
<1> QED BY <1>3, <1>4, <1>5

\* A text card joins the deck.
LEMMA TextCard ==
    ASSUME TextInv, pc = "txt"
    PROVE  IsSeq(Flushed) /\ Texted(asm, Flushed, done)
<1>1. CASE ~card.open
  BY <1>1 DEF TextInv, Base, Filling, Flushed
<1>2. CASE card.open
  <2>1. PICK r : r = TxtCard
    OBVIOUS
  <2>2. r.kind = "TXT" /\ r.addr = card.addr /\ r.id = card.id /\ r.from = card.from /\ r.n = card.n
    BY <2>1 DEF TxtCard
  <2>3. Texted(asm, deck, card.from - 1) /\ CardText(asm, card, done) /\ card.from + card.n = done + 1
    BY <1>2 DEF TextInv, Filling
  <2>4. Texted(asm, deck, r.from - 1) /\ CardText(asm, r, done) /\ r.from + r.n = done + 1
    BY <2>2, <2>3 DEF CardText
  <2>5. IsSeq(deck) /\ done \in Nat
    BY DEF TextInv, Base
  <2>6. Texted(asm, Append(deck, r), done)
    BY <2>2, <2>4, <2>5, TextFlushed
  <2> QED BY <1>2, <2>1, <2>5, <2>6, Extended DEF Flushed
<1> QED BY <1>1, <1>2

LEMMA PunchMarked ==
    ASSUME NEW p \in Punch
    PROVE  LET v == [p EXCEPT !.at_bytes = -1]
           IN v \in Punch /\ v.by = p.by /\ v.before_esd = p.before_esd /\ v.at_bytes = -1
BY DEF Punch

LEMMA TextPunch == ASSUME TextInv, TxtPunch PROVE TextInv'
<1>1. pc = "txt" /\ pc' = "txt"
  BY DEF TxtPunch
<1>2. IsSeq(Flushed) /\ Texted(asm, Flushed, done)
  BY <1>1, TextCard
<1>3. PICK c : c = ReproCard(punches[Lowest(Due)])
  OBVIOUS
<1>4. c.kind # "TXT" /\ deck' = Append(Flushed, c)
  BY <1>3 DEF ReproCard, TxtPunch
<1>5. IsSeq(deck') /\ Texted(asm, deck', done)
  BY <1>2, <1>4, TextOther, Extended
<1>6. Filling'
  BY <1>5 DEF Filling, TxtPunch, NoCard
<1>7. punches' \in Seq(Punch)
  <2>1. Due \subseteq Nat /\ Due # {}
    BY DEF Due, TxtPunch, TextInv, Base
  <2>2. Lowest(Due) \in Due
    BY <2>1, LowestIs
  <2>10. punches \in Seq(Punch)
    BY DEF TextInv, Base
  <2>11. Lowest(Due) \in 1..Len(punches)
    BY <2>2, <2>10 DEF Due
  <2>3. PICK w \in 1..Len(punches) : w = Lowest(Due)
    BY <2>11
  <2>4. punches \in Seq(Punch) /\ punches[w] \in Punch
    BY <2>10
  <2>5. PICK v : v = [punches[w] EXCEPT !.at_bytes = -1]
    OBVIOUS
  <2>6. v \in Punch
    BY <2>4, <2>5, PunchMarked
  <2>7. punches' = [punches EXCEPT ![w] = v]
    BY <2>3, <2>5 DEF TxtPunch
  <2> QED BY <2>4, <2>6, <2>7, Replaced
<1>8. Cut'
  BY <1>1 DEF TextInv, Cut, TxtPunch
<1>9. Base'
  BY <1>1, <1>5, <1>7 DEF TextInv, Base, TxtPunch
<1> QED BY <1>1, <1>6, <1>8, <1>9 DEF TextInv, TxtPunch

LEMMA TextFlush == ASSUME TextInv, TxtFlush PROVE TextInv'
<1>1. pc = "txt" /\ pc' = "txt"
  BY DEF TxtFlush
<1>2. IsSeq(deck') /\ Texted(asm, deck', done)
  BY <1>1, TextCard DEF TxtFlush
<1>3. Filling'
  BY <1>2 DEF Filling, TxtFlush, NoCard
<1>4. Cut'
  BY <1>1 DEF TextInv, Cut, TxtFlush
<1>5. Base'
  BY <1>1, <1>2 DEF TextInv, Base, TxtFlush
<1> QED BY <1>1, <1>3, <1>4, <1>5 DEF TextInv, TxtFlush

LEMMA EventAt ==
    ASSUME NEW l \in Seq(Event), NEW e \in 1..Len(l)
    PROVE  l[e] \in Event /\ l[e].at \in Nat /\ l[e].n \in Nat /\ l[e].off \in Nat
<1>1. l[e] \in Event
  OBVIOUS
<1> QED BY <1>1 DEF Event

\* The card that takes the next bytes, before it takes them.
TxtHeld == IF card.open THEN card
           ELSE [open |-> TRUE, addr |-> log[k].at + pos, id |-> log[k].id, from |-> done + 1, n |-> 0]

LEMMA TextHeld ==
    ASSUME TextInv, pc = "txt", k <= Len(log), card.open => ~Breaks
    PROVE  /\ TxtHeld.open /\ CardText(asm, TxtHeld, done) /\ TxtHeld.from + TxtHeld.n = done + 1
           /\ TxtHeld.addr + TxtHeld.n = log[k].at + pos /\ TxtHeld.id = log[k].id
           /\ TXTCARD - TxtHeld.n \in Nat /\ Texted(asm, deck, TxtHeld.from - 1)
<1>1. log \in Seq(Event) /\ k \in 1..Len(log) /\ done \in Nat /\ pos \in Nat
  BY DEF TextInv, Base, Logged, Cut
<1>2. log[k].at \in Nat
  BY <1>1, EventAt
<1>3. CASE card.open
  <2>1. TxtHeld = card
    BY <1>3 DEF TxtHeld
  <2>2. /\ CardText(asm, card, done) /\ card.from + card.n = done + 1 /\ Texted(asm, deck, card.from - 1)
        /\ log[k].at + pos = card.addr + card.n /\ card.n < TXTCARD /\ log[k].id = card.id
    BY <1>3 DEF TextInv, Filling, Breaks
  <2>3. TXTCARD - card.n \in Nat
    BY <2>2, CardsAssumption DEF CardText
  <2> QED BY <1>3, <2>1, <2>2, <2>3
<1>4. CASE ~card.open
  <2>1. /\ TxtHeld.open = TRUE /\ TxtHeld.from = done + 1 /\ TxtHeld.n = 0
        /\ TxtHeld.addr = log[k].at + pos /\ TxtHeld.id = log[k].id
    BY <1>4 DEF TxtHeld
  <2>2. PICK h : h = TxtHeld
    OBVIOUS
  <2>3. CardText(asm, h, done) /\ h.from + h.n = done + 1 /\ h.from - 1 = done
    <3>1. PICK m \in Nat : m = done
      BY <1>1
    <3>2. h.from = m + 1 /\ h.n = 0 /\ h.addr \in Nat
      BY <1>1, <1>2, <2>1, <2>2, <3>1
    <3>3. (m + 1) + 0 = m + 1 /\ (m + 1) - 1 = m /\ m + 1 \in Nat \ {0} /\ (m + 1)..((m + 1) + 0 - 1) = {}
      OBVIOUS
    <3>4. CardText(asm, h, m)
      BY <3>2, <3>3 DEF CardText
    <3> QED BY <3>1, <3>2, <3>3, <3>4
  <2>4. Texted(asm, deck, done)
    BY <1>4 DEF TextInv, Filling
  <2>5. h.addr + h.n = log[k].at + pos /\ TXTCARD - h.n \in Nat
    BY <1>1, <1>2, <2>1, <2>2, CardsAssumption
  <2> QED BY <2>1, <2>2, <2>3, <2>4, <2>5
<1> QED BY <1>3, <1>4

LEMMA TextTake == ASSUME TextInv, TxtTake PROVE TextInv'
<1>1. pc = "txt" /\ pc' = "txt" /\ k <= Len(log) /\ (card.open => ~Breaks)
  BY DEF TxtTake
<1>2. /\ log \in Seq(Event) /\ k \in 1..Len(log) /\ done \in Nat /\ pos \in Nat /\ punches \in Seq(Punch)
      /\ Len(log) \in Nat /\ done = log[k].off + pos /\ pos <= log[k].n
  BY <1>1 DEF TextInv, Base, Logged, Cut
<1>3. PICK h : h = TxtHeld
  OBVIOUS
<1>4. /\ h.open /\ CardText(asm, h, done) /\ h.from + h.n = done + 1 /\ h.addr + h.n = log[k].at + pos
      /\ h.id = log[k].id /\ TXTCARD - h.n \in Nat /\ Texted(asm, deck, h.from - 1)
  BY <1>1, <1>3, TextHeld
<1>5. PICK t : t = Take(TXTCARD - h.n)
  OBVIOUS
<1>6. t \in Nat /\ pos + t <= log[k].n
  BY <1>2, <1>4, <1>5, TakeFits
<1>7. /\ card' = [h EXCEPT !.n = @ + t] /\ done' = done + t
      /\ pos' = (IF pos + t = log[k].n THEN 0 ELSE pos + t)
      /\ k' = (IF pos + t = log[k].n THEN k + 1 ELSE k)
  BY <1>3, <1>5 DEF TxtTake, TxtHeld
<1>8. PICK q : q = card'
  OBVIOUS
<1>9. q.from = h.from /\ q.addr = h.addr /\ q.id = h.id /\ q.n = h.n + t /\ q.open
  <2>1. \/ h = card /\ card.open
        \/ h = [open |-> TRUE, addr |-> log[k].at + pos, id |-> log[k].id, from |-> done + 1, n |-> 0]
    BY <1>3 DEF TxtHeld
  <2> QED BY <1>4, <1>7, <1>8, <2>1
<1>10. Logged(asm, log, blen, Len(asm.stmts) + 1)
  BY <1>1 DEF TextInv
<1>11. CardText(asm, q, done + t) /\ q.from + q.n = done + t + 1 /\ done + t \in Nat
  <2>1. PICK e \in 1..Len(log), p \in Nat, m \in Nat : e = k /\ p = pos /\ m = done
    BY <1>2
  <2>2. Joins(log[e], p, t, m, h, q) /\ CardText(asm, h, m) /\ t \in Nat
    BY <1>2, <1>4, <1>6, <1>9, <2>1 DEF Joins
  <2>3. CardText(asm, q, m + t) /\ q.from + q.n = m + t + 1 /\ m + t \in Nat
    BY <1>10, <2>2, TextTaken
  <2> QED BY <2>1, <2>3
<1>12. asm' = asm /\ deck' = deck /\ log' = log /\ blen' = blen /\ punches' = punches /\ seen' = seen
  BY DEF TxtTake
<1>13. Filling'
  BY <1>4, <1>7, <1>8, <1>9, <1>11, <1>12 DEF Filling
<1>14. Cut'
  <2>1. log[k].n \in Nat /\ log[k].off \in Nat
    BY <1>2, EventAt
  <2>2. CASE pos + t # log[k].n
    <3>1. k' = k /\ pos' = pos + t /\ done' = done + t
      BY <1>7, <2>2
    <3>2. done + t = log[k].off + (pos + t)
      BY <1>2, <1>6, <2>1
    <3> QED BY <1>2, <1>6, <1>12, <3>1, <3>2 DEF Cut
  <2>3. CASE pos + t = log[k].n
    <3>1. k' = k + 1 /\ pos' = 0 /\ done' = done + t
      BY <1>7, <2>3
    <3>2. done + t = log[k].off + log[k].n
      BY <1>2, <1>6, <2>1, <2>3
    <3>3. CASE k = Len(log)
      <4>1. log # << >> /\ done + t = blen
        BY <1>2, <1>10, <3>2, <3>3 DEF Logged
      <4> QED BY <1>2, <1>12, <3>1, <3>3, <4>1 DEF Cut
    <3>4. CASE k < Len(log)
      <4>1. log[k].off + log[k].n = log[k + 1].off /\ k + 1 \in 1..Len(log)
        BY <1>2, <1>10, <3>4 DEF Logged
      <4>2. log[k + 1] \in Event
        BY <1>2, <4>1
      <4>3. log[k + 1].off \in Nat /\ log[k + 1].n \in Nat
        BY <4>2 DEF Event
      <4>4. done + t = log[k + 1].off + 0 /\ 0 <= log[k + 1].n
        BY <3>2, <4>1, <4>3
      <4> QED BY <1>2, <1>12, <3>1, <3>4, <4>1, <4>4 DEF Cut
    <3> QED BY <1>2, <3>3, <3>4
  <2> QED BY <2>2, <2>3
<1>15. Base'
  <2>1. k' \in Nat \ {0} /\ pos' \in Nat
    BY <1>2, <1>6, <1>7
  <2>2. done' \in Nat
    BY <1>7, <1>11
  <2> QED BY <1>1, <1>12, <2>1, <2>2 DEF TextInv, Base
<1> QED BY <1>1, <1>10, <1>12, <1>13, <1>14, <1>15 DEF TextInv

LEMMA TextLater == ASSUME TextInv, TxtDone \/ SortRelocations \/ RldEnt \/ RldFlush \/ RldDone \/ EndCard PROVE TextInv'
<1>1. CASE TxtDone
  <2>1. pc = "txt" /\ Cut /\ Filling /\ ~card.open /\ k > Len(log)
    BY <1>1 DEF TxtDone, TextInv
  <2>2. log \in Seq(Event)
    BY <2>1 DEF TextInv, Logged
  <2>3. done = blen
    BY <2>1, <2>2 DEF Cut
  <2>4. Texted(asm, deck, blen)
    BY <2>1, <2>3 DEF Filling
  <2> QED BY <1>1, <2>1, <2>4 DEF TextInv, Base, TxtDone
<1>2. CASE SortRelocations
  BY <1>2 DEF TextInv, Base, SortRelocations
<1>3. CASE RldEnt
  BY <1>3 DEF TextInv, Base, RldEnt
<1>4. CASE RldFlush
  <2>1. RldCard.kind # "TXT" /\ pc = "rld" /\ IsSeq(deck) /\ Texted(asm, deck, blen)
    BY <1>4 DEF RldCard, RldFlush, TextInv, Base
  <2>2. Texted(asm, deck', blen) /\ IsSeq(deck')
    BY <1>4, <2>1, TextOther, Extended DEF RldFlush
  <2> QED BY <1>4, <2>1, <2>2 DEF TextInv, Base, RldFlush
<1>5. CASE RldDone
  BY <1>5 DEF TextInv, Base, RldDone
<1>6. CASE EndCard
  <2>1. PICK c : /\ deck' = Append(deck, c)
                 /\ c = IF asm.entry = NoSym THEN [kind |-> "END", has |-> FALSE]
                            ELSE [kind |-> "END", has |-> TRUE, addr |-> asm.def[asm.entry].addr,
                                  id |-> EndEsdid(asm, asm.entry)]
    BY <1>6 DEF EndCard
  <2>2. c.kind # "TXT" /\ pc = "end" /\ IsSeq(deck) /\ Texted(asm, deck, blen)
    BY <1>6, <2>1 DEF EndCard, TextInv, Base
  <2>3. Texted(asm, deck', blen) /\ IsSeq(deck')
    BY <2>1, <2>2, TextOther, Extended
  <2> QED BY <1>6, <2>2, <2>3 DEF TextInv, Base, EndCard
<1> QED BY <1>1, <1>2, <1>3, <1>4, <1>5, <1>6

LEMMA TextStep == TextInv /\ [Next]_vars => TextInv'
<1> SUFFICES ASSUME TextInv, [Next]_vars PROVE TextInv'
  OBVIOUS
<1>1. CASE UNCHANGED vars
  BY <1>1 DEF vars, TextInv, Base, Cut, Filling
<1>2. CASE Done
  BY <1>2 DEF Done, vars, TextInv, Base, Cut, Filling
<1> QED BY <1>1, <1>2, TextSection, TextPut, TextRepro, TextPassDone, TextEarly, TextEsd, TextPunch, TextFlush,
           TextTake, TextLater DEF Next

(***************************************************************************)
(* The REPRO cards.                                                        *)
(***************************************************************************)

\* Text is behind a CSECT or START statement: none of it is implicit private code.
Sectioned(a) == \A m \in Puts(a) : \E q \in 1..(m - 1) : a.stmts[q].op = "CSECT"

\* ps are the REPRO statements before K, in order.
Marked(a, ps, K) ==
    /\ ps \in Seq(Punch) /\ K \in 1..(Len(a.stmts) + 1)
    /\ \A p \in 1..Len(ps) : /\ ps[p].by \in Repros(a) /\ ps[p].by < K
                             /\ ps[p].at_bytes \in {-1, BytesBefore(a, ps[p].by)}
                             /\ Sectioned(a) /\ ps[p].before_esd => BytesBefore(a, ps[p].by) = 0
    /\ \A p, q \in 1..Len(ps) : p < q => ps[p].by < ps[q].by
    /\ \A p, q \in 1..Len(ps) : p < q /\ ps[q].before_esd => ps[p].before_esd
    /\ \A m \in Repros(a) : m < K => \E p \in 1..Len(ps) : ps[p].by = m

\* The REPRO cards of d are those of the statements O, each behind its text.
Reproed(a, d, O) ==
    /\ {d[c].by : c \in Cards(d, "REPRO")} = O
    /\ \A c, e \in Cards(d, "REPRO") : c < e => d[c].by < d[e].by
    /\ Sectioned(a) => \A c \in Cards(d, "REPRO") : TextAhead(d, c) = 1..BytesBefore(a, d[c].by)

LEMMA AheadSame ==
    ASSUME NEW d, IsSeq(d), NEW x, NEW d2, d2 = Append(d, x), NEW c \in 1..Len(d)
    PROVE  TextAhead(d2, c) = TextAhead(d, c)
<1>1. Adding(d, x, d2, "TXT")
  BY Added
<1>2. {y \in Cards(d2, "TXT") : y < c} = {y \in Cards(d, "TXT") : y < c} /\ \A y \in Cards(d, "TXT") : d2[y] = d[y]
  BY <1>1 DEF Adding
<1> QED BY <1>2 DEF TextAhead

LEMMA AheadAll ==
    ASSUME NEW a, NEW d, IsSeq(d), NEW n, Texted(a, d, n), NEW x, NEW d2, d2 = Append(d, x), x.kind # "TXT"
    PROVE  TextAhead(d2, Len(d) + 1) = 1..n
<1>1. Adding(d, x, d2, "TXT")
  BY Added
<1>2. {y \in Cards(d2, "TXT") : y < Len(d) + 1} = Cards(d, "TXT") /\ \A y \in Cards(d, "TXT") : d2[y] = d[y]
  BY <1>1 DEF Adding
<1>3. TextAhead(d2, Len(d) + 1) = UNION {d[y].from..(d[y].from + d[y].n - 1) : y \in Cards(d, "TXT")}
  BY <1>2 DEF TextAhead
<1>4. ASSUME NEW y \in Cards(d, "TXT"), NEW b \in d[y].from..(d[y].from + d[y].n - 1) PROVE b \in 1..n
  <2>1. CardText(a, d[y], n) /\ n \in Nat
    BY DEF Texted
  <2>2. d[y].from \in Nat \ {0} /\ d[y].n \in Nat /\ d[y].from + d[y].n <= n + 1
    BY <2>1 DEF CardText
  <2> QED BY <2>1, <2>2
<1>5. \A b \in 1..n : \E y \in Cards(d, "TXT") : b \in d[y].from..(d[y].from + d[y].n - 1)
  BY DEF Texted
<1> QED BY <1>3, <1>4, <1>5

LEMMA ReproOther ==
    ASSUME NEW a, NEW d, IsSeq(d), NEW O, Reproed(a, d, O), NEW x, x.kind # "REPRO"
    PROVE  Reproed(a, Append(d, x), O)
<1>1. PICK d2 : d2 = Append(d, x)
  OBVIOUS
<1>2. Adding(d, x, d2, "REPRO")
  BY <1>1, Added
<1>3. Cards(d2, "REPRO") = Cards(d, "REPRO") /\ \A c \in Cards(d, "REPRO") : d2[c] = d[c] /\ c \in 1..Len(d)
  BY <1>2 DEF Adding
<1>4. \A c \in Cards(d, "REPRO") : TextAhead(d2, c) = TextAhead(d, c)
  BY <1>1, <1>3, AheadSame
<1>5. {d2[c].by : c \in Cards(d2, "REPRO")} = {d[c].by : c \in Cards(d, "REPRO")}
  BY <1>3
<1>6. Reproed(a, d2, O)
  BY <1>3, <1>4, <1>5 DEF Reproed
<1> QED BY <1>1, <1>6

LEMMA ReproAdded ==
    ASSUME NEW a, NEW d, IsSeq(d), NEW O, Reproed(a, d, O), NEW x, x.kind = "REPRO",
           \A o \in O : o < x.by, NEW n, Texted(a, d, n), Sectioned(a) => n = BytesBefore(a, x.by)
    PROVE  Reproed(a, Append(d, x), O \union {x.by})
<1>1. PICK d2 : d2 = Append(d, x)
  OBVIOUS
<1>2. Adding(d, x, d2, "REPRO")
  BY <1>1, Added
<1>3. /\ Cards(d2, "REPRO") = Cards(d, "REPRO") \union {Len(d) + 1} /\ d2[Len(d) + 1] = x
      /\ \A c \in Cards(d, "REPRO") : d2[c] = d[c] /\ c \in 1..Len(d) /\ c < Len(d) + 1
      /\ Len(d) \in Nat
  BY <1>2 DEF Adding
<1>4. \A c \in Cards(d, "REPRO") : TextAhead(d2, c) = TextAhead(d, c)
  BY <1>1, <1>3, AheadSame
<1>5. {d2[c].by : c \in Cards(d2, "REPRO")} = O \union {x.by}
  <2>1. {d2[c].by : c \in Cards(d2, "REPRO")} = {d[c].by : c \in Cards(d, "REPRO")} \union {x.by}
    BY <1>3
  <2> QED BY <2>1 DEF Reproed
<1>6. ASSUME NEW c \in Cards(d2, "REPRO"), NEW e \in Cards(d2, "REPRO"), c < e PROVE d2[c].by < d2[e].by
  <2>1. CASE c \in Cards(d, "REPRO") /\ e \in Cards(d, "REPRO")
    BY <1>3, <1>6, <2>1 DEF Reproed
  <2>2. CASE c \in Cards(d, "REPRO") /\ e = Len(d) + 1
    <3>1. d[c].by \in O
      BY <2>2 DEF Reproed
    <3> QED BY <1>3, <2>2, <3>1
  <2>3. CASE c = Len(d) + 1
    <3>1. e = Len(d) + 1 \/ (e \in 1..Len(d) /\ e < Len(d) + 1)
      BY <1>3
    <3>2. ~(c < e)
      BY <1>3, <2>3, <3>1
    <3> QED BY <1>6, <3>2
  <2> QED BY <1>3, <2>1, <2>2, <2>3
<1>7. ASSUME Sectioned(a), NEW c \in Cards(d2, "REPRO") PROVE TextAhead(d2, c) = 1..BytesBefore(a, d2[c].by)
  <2>1. CASE c \in Cards(d, "REPRO")
    BY <1>3, <1>4, <1>7, <2>1 DEF Reproed
  <2>2. CASE c = Len(d) + 1
    <3>1. TextAhead(d2, Len(d) + 1) = 1..n
      BY <1>1, AheadAll
    <3> QED BY <1>3, <1>7, <2>2, <3>1
  <2> QED BY <1>3, <2>1, <2>2
<1>8. Reproed(a, d2, O \union {x.by})
  BY <1>5, <1>6, <1>7 DEF Reproed
<1> QED BY <1>1, <1>8

LEMMA MarkedSkip ==
    ASSUME NEW a, IsAssembly(a), NEW ps, NEW K, Marked(a, ps, K), K \in 1..Len(a.stmts), K \notin Repros(a)
    PROVE  Marked(a, ps, K + 1)
<1>1. Len(a.stmts) \in Nat /\ K + 1 \in 1..(Len(a.stmts) + 1) /\ Repros(a) \subseteq 1..Len(a.stmts)
  BY StmtTyped DEF Repros
<1>2. \A p \in 1..Len(ps) : ps[p].by \in Repros(a) /\ ps[p].by < K + 1
  BY <1>1 DEF Marked
<1>3. \A m \in Repros(a) : m < K + 1 => m < K
  BY <1>1
<1> QED BY <1>1, <1>2, <1>3 DEF Marked

LEMMA MarkedMore ==
    ASSUME NEW a, IsAssembly(a), NEW ps, NEW K, Marked(a, ps, K), K \in 1..Len(a.stmts), K \in Repros(a),
           NEW v \in Punch, v.by = K, v.at_bytes = BytesBefore(a, K),
           v.before_esd => (\A p \in 1..Len(ps) : ps[p].before_esd) /\ (Sectioned(a) => BytesBefore(a, K) = 0)
    PROVE  Marked(a, Append(ps, v), K + 1)
<1>1. Len(a.stmts) \in Nat /\ K + 1 \in 1..(Len(a.stmts) + 1) /\ Repros(a) \subseteq 1..Len(a.stmts)
  BY StmtTyped DEF Repros
<1>2. PICK qs : qs = Append(ps, v)
  OBVIOUS
<1>3. /\ qs \in Seq(Punch) /\ Len(ps) \in Nat /\ Len(qs) = Len(ps) + 1 /\ qs[Len(ps) + 1] = v
      /\ \A p \in 1..Len(ps) : qs[p] = ps[p]
  BY <1>2 DEF Marked
<1>4. \A p \in 1..Len(qs) : p \in 1..Len(ps) \/ p = Len(ps) + 1
  BY <1>3
<1>5. ASSUME NEW p \in 1..Len(qs)
      PROVE  /\ qs[p].by \in Repros(a) /\ qs[p].by < K + 1 /\ qs[p].at_bytes \in {-1, BytesBefore(a, qs[p].by)}
             /\ Sectioned(a) /\ qs[p].before_esd => BytesBefore(a, qs[p].by) = 0
  <2>1. CASE p \in 1..Len(ps)
    <3>1. ps[p].by \in Repros(a) /\ ps[p].by < K
      BY <2>1 DEF Marked
    <3>2. ps[p].by < K + 1
      BY <1>1, <3>1
    <3> QED BY <1>3, <2>1, <3>1, <3>2 DEF Marked
  <2>2. CASE p = Len(ps) + 1
    BY <1>1, <1>3, <2>2
  <2> QED BY <1>4, <2>1, <2>2
<1>6. ASSUME NEW p \in 1..Len(qs), NEW q \in 1..Len(qs), p < q
      PROVE  qs[p].by < qs[q].by /\ (qs[q].before_esd => qs[p].before_esd)
  <2>1. p \in 1..Len(ps)
    BY <1>3, <1>6
  <2>2. CASE q \in 1..Len(ps)
    BY <1>3, <1>6, <2>1, <2>2 DEF Marked
  <2>3. CASE q = Len(ps) + 1
    BY <1>3, <2>1, <2>3 DEF Marked
  <2> QED BY <1>4, <2>2, <2>3
<1>7. ASSUME NEW m \in Repros(a), m < K + 1 PROVE \E p \in 1..Len(qs) : qs[p].by = m
  <2>1. CASE m = K
    <3>1. Len(ps) + 1 \in 1..Len(qs)
      BY <1>3
    <3> QED BY <1>3, <2>1, <3>1
  <2>2. CASE m < K
    <3>1. PICK p \in 1..Len(ps) : ps[p].by = m
      BY <2>2 DEF Marked
    <3>2. p \in 1..Len(qs)
      BY <1>3
    <3> QED BY <1>3, <3>1, <3>2
  <2> QED BY <1>1, <1>7, <2>1, <2>2
<1>8. Marked(a, qs, K + 1)
  BY <1>1, <1>3, <1>5, <1>6, <1>7 DEF Marked
<1> QED BY <1>2, <1>8

\* qs is ps but that punch w is gone.
Without(ps, qs, w) ==
    /\ qs \in Seq(Punch) /\ Len(qs) = Len(ps) /\ w \in 1..Len(ps) /\ qs[w].at_bytes = -1
    /\ \A p \in 1..Len(ps) : qs[p].by = ps[p].by /\ qs[p].before_esd = ps[p].before_esd
    /\ \A p \in 1..Len(ps) : p # w => qs[p].at_bytes = ps[p].at_bytes

LEMMA PunchGone ==
    ASSUME NEW ps \in Seq(Punch), NEW w \in 1..Len(ps)
    PROVE  Without(ps, [ps EXCEPT ![w].at_bytes = -1], w)
<1>1. PICK p \in Punch : p = ps[w]
  OBVIOUS
<1>2. PICK v : v = [p EXCEPT !.at_bytes = -1]
  OBVIOUS
<1>3. v \in Punch /\ v.by = p.by /\ v.before_esd = p.before_esd /\ v.at_bytes = -1
  BY <1>2, PunchMarked
<1>4. PICK qs : qs = [ps EXCEPT ![w] = v]
  OBVIOUS
<1>5. qs \in Seq(Punch) /\ Len(qs) = Len(ps) /\ qs[w] = v /\ \A x \in 1..Len(ps) : x # w => qs[x] = ps[x]
  BY <1>3, <1>4, Replaced
<1>6. Without(ps, qs, w)
  BY <1>1, <1>3, <1>5 DEF Without
<1>7. qs = [ps EXCEPT ![w].at_bytes = -1]
  BY <1>1, <1>2, <1>4
<1> QED BY <1>6, <1>7

LEMMA MarkedGone ==
    ASSUME NEW a, NEW ps, NEW K, Marked(a, ps, K), NEW qs, NEW w, Without(ps, qs, w)
    PROVE  Marked(a, qs, K)
<1>1. \A p \in 1..Len(ps) : qs[p].at_bytes \in {-1, BytesBefore(a, qs[p].by)}
  BY DEF Marked, Without
<1> QED BY <1>1 DEF Marked, Without

Out(p) == IF punches[p].before_esd THEN pc \notin {"pass2", "early"} \/ (pc = "early" /\ p < k)
          ELSE punches[p].at_bytes = -1
OutBy == {punches[p].by : p \in {q \in 1..Len(punches) : Out(q)}}
Gone(p) == punches[p].before_esd \/ punches[p].at_bytes = -1

PunchInv ==
    /\ Marked(asm, punches, IF pc = "pass2" THEN k ELSE Len(asm.stmts) + 1)
    /\ Reproed(asm, deck, OutBy)
    /\ pc = "pass2" /\ ~seen =>
          /\ \A p \in 1..Len(punches) : punches[p].before_esd
          /\ \A q \in 1..(k - 1) : asm.stmts[q].op # "CSECT"
          /\ Sectioned(asm) => blen = 0
    /\ pc \in {"pass2", "early", "esd"} => \A p \in 1..Len(punches) : punches[p].at_bytes # -1
    /\ pc = "txt" => \A p \in 1..Len(punches) : Gone(p) \/ punches[p].at_bytes >= done
    /\ pc = "txt" => \A p, q \in 1..Len(punches) : p < q /\ Gone(q) => Gone(p)
    /\ pc \in {"sort", "rld", "end", "done"} => \A p \in 1..Len(punches) : Gone(p)

LEMMA PunchInit == Init => PunchInv
<1> SUFFICES ASSUME Init PROVE PunchInv
  OBVIOUS
<1>1. IsAssembly(asm)
  BY AssembliesAssumption DEF Init
<1>2. punches = << >> /\ << >> \in Seq(Punch) /\ Len(<< >>) = 0 /\ k = 1 /\ pc = "pass2" /\ 1..0 = {} /\ 1 - 1 = 0
  BY DEF Init
<1>3. 1 \in 1..(Len(asm.stmts) + 1) /\ \A m \in Repros(asm) : ~(m < 1)
  BY <1>1, StmtTyped DEF Repros
<1>4. Marked(asm, punches, k)
  BY <1>2, <1>3 DEF Marked
<1>5. Cards(deck, "REPRO") = {} /\ OutBy = {}
  BY <1>2 DEF Init, Cards, OutBy
<1>6. Reproed(asm, deck, OutBy)
  BY <1>5 DEF Reproed
<1> QED BY <1>2, <1>4, <1>6 DEF PunchInv, Init

LEMMA PunchStmt ==
    ASSUME TextInv, NEW op \in {"CSECT", "PUT", "REPRO"}, At(op)
    PROVE  /\ pc = "pass2" /\ k \in 1..Len(asm.stmts) /\ Len(asm.stmts) \in Nat /\ asm.stmts[k].op = op /\ IsAssembly(asm)
           /\ k \in Repros(asm) <=> op = "REPRO"
           /\ k \in Puts(asm) <=> op = "PUT"
<1>1. IsAssembly(asm) /\ k \in 1..Len(asm.stmts) /\ Len(asm.stmts) \in Nat /\ DOMAIN asm.stmts = 1..Len(asm.stmts)
  BY StmtTyped DEF TextInv, Base, At
<1> QED BY <1>1 DEF At, Repros, Puts

LEMMA PunchSection == ASSUME TextInv, PunchInv, Section PROVE PunchInv'
<1>1. pc = "pass2" /\ k \in 1..Len(asm.stmts) /\ k \notin Repros(asm) /\ IsAssembly(asm)
  BY PunchStmt DEF Section
<1>2. Marked(asm, punches, k + 1)
  BY <1>1, MarkedSkip DEF PunchInv
<1>3. OutBy' = OutBy
  BY <1>1 DEF OutBy, Out, Section
<1> QED BY <1>1, <1>2, <1>3 DEF PunchInv, Section

LEMMA PunchPut == ASSUME TextInv, PunchInv, Put PROVE PunchInv'
<1>1. pc = "pass2" /\ k \in 1..Len(asm.stmts) /\ k \notin Repros(asm) /\ IsAssembly(asm) /\ k \in Puts(asm)
      /\ asm.stmts[k].op = "PUT"
  BY PunchStmt DEF Put
<1>2. Marked(asm, punches, k + 1)
  BY <1>1, MarkedSkip DEF PunchInv
<1>3. OutBy' = OutBy
  BY <1>1 DEF OutBy, Out, Put
<1>4. ASSUME ~seen
      PROVE  /\ ~Sectioned(asm)
             /\ \A p \in 1..Len(punches) : punches[p].before_esd
             /\ \A q \in 1..((k + 1) - 1) : asm.stmts[q].op # "CSECT"
  <2>1. /\ \A p \in 1..Len(punches) : punches[p].before_esd
        /\ \A q \in 1..(k - 1) : asm.stmts[q].op # "CSECT"
    BY <1>1, <1>4 DEF PunchInv
  <2>2. \A q \in 1..((k + 1) - 1) : q \in 1..(k - 1) \/ q = k
    BY <1>1
  <2>3. ~Sectioned(asm)
    BY <1>1, <2>1 DEF Sectioned
  <2> QED BY <1>1, <2>1, <2>2, <2>3
<1>5. /\ pc' = pc /\ k' = k + 1 /\ asm' = asm /\ punches' = punches /\ seen' = seen /\ deck' = deck
  BY DEF Put
<1>6. \A p \in 1..Len(punches) : punches[p].at_bytes # -1
  BY <1>1 DEF PunchInv
<1>7. Reproed(asm, deck, OutBy)
  BY DEF PunchInv
<1> QED BY <1>1, <1>2, <1>3, <1>4, <1>5, <1>6, <1>7 DEF PunchInv

LEMMA PunchRepro == ASSUME TextInv, PunchInv, Repro PROVE PunchInv'
<1>1. pc = "pass2" /\ k \in 1..Len(asm.stmts) /\ k \in Repros(asm) /\ IsAssembly(asm) /\ asm.stmts[k].op = "REPRO"
  BY PunchStmt DEF Repro
<1>2. Logged(asm, log, blen, k) /\ seen \in BOOLEAN
  BY <1>1 DEF TextInv, Base
<1>3. blen = BytesBefore(asm, k) /\ blen \in Nat
  BY <1>1, <1>2, BytesTyped DEF Logged
<1>4. PICK v : v = [by |-> k, before_esd |-> ~seen, at_bytes |-> blen]
  OBVIOUS
<1>5. v \in Punch /\ v.by = k /\ v.at_bytes = blen /\ v.before_esd = ~seen
  BY <1>1, <1>2, <1>3, <1>4 DEF Punch
<1>6. punches' = Append(punches, v) /\ pc' = pc /\ k' = k + 1 /\ asm' = asm /\ seen' = seen /\ deck' = deck /\ blen' = blen
  BY <1>4 DEF Repro
<1>7. ~seen => /\ \A p \in 1..Len(punches) : punches[p].before_esd
               /\ \A q \in 1..(k - 1) : asm.stmts[q].op # "CSECT"
               /\ Sectioned(asm) => blen = 0
  BY <1>1 DEF PunchInv
<1>15. v.before_esd => (\A p \in 1..Len(punches) : punches[p].before_esd) /\ (Sectioned(asm) => BytesBefore(asm, k) = 0)
  BY <1>3, <1>5, <1>7
<1>8. Marked(asm, Append(punches, v), k + 1)
  <2>1. Marked(asm, punches, k) /\ v.at_bytes = BytesBefore(asm, k)
    BY <1>1, <1>3, <1>5 DEF PunchInv
  <2> QED BY <1>1, <1>5, <1>15, <2>1, MarkedMore
<1>9. punches \in Seq(Punch)
  BY DEF TextInv, Base
<1>10. /\ Len(punches') = Len(punches) + 1 /\ Len(punches) \in Nat /\ punches'[Len(punches) + 1] = v
       /\ \A p \in 1..Len(punches) : punches'[p] = punches[p]
  BY <1>5, <1>6, <1>9
<1>11. \A p \in 1..Len(punches') : p \in 1..Len(punches) \/ p = Len(punches) + 1
  BY <1>10
<1>12. \A p \in 1..Len(punches') : punches'[p].at_bytes # -1
  BY <1>1, <1>3, <1>5, <1>10, <1>11 DEF PunchInv
<1>13. OutBy = {} /\ OutBy' = {}
  <2>1. \A p \in 1..Len(punches) : ~Out(p)
    BY <1>1 DEF PunchInv, Out
  <2>2. \A p \in 1..Len(punches') : ~(IF punches'[p].before_esd THEN pc' \notin {"pass2", "early"} \/ (pc' = "early" /\ p < k')
                                      ELSE punches'[p].at_bytes = -1)
    BY <1>1, <1>6, <1>12
  <2>3. \A p \in 1..Len(punches') : ~Out(p)'
    BY <2>2 DEF Out
  <2> QED BY <2>1, <2>3 DEF OutBy
<1>14. ~seen => /\ \A p \in 1..Len(punches') : punches'[p].before_esd
                /\ \A q \in 1..((k + 1) - 1) : asm.stmts[q].op # "CSECT"
  <2> SUFFICES ASSUME ~seen PROVE /\ \A p \in 1..Len(punches') : punches'[p].before_esd
                                  /\ \A q \in 1..((k + 1) - 1) : asm.stmts[q].op # "CSECT"
    OBVIOUS
  <2>1. \A q \in 1..((k + 1) - 1) : q \in 1..(k - 1) \/ q = k
    BY <1>1
  <2>2. \A p \in 1..Len(punches') : punches'[p].before_esd
    BY <1>5, <1>7, <1>10, <1>11
  <2> QED BY <1>1, <1>7, <2>1, <2>2
<1>16. Reproed(asm, deck, {})
  BY <1>13 DEF PunchInv
<1> QED BY <1>1, <1>6, <1>7, <1>8, <1>12, <1>13, <1>14, <1>16 DEF PunchInv

LEMMA PunchPassDone == ASSUME TextInv, PunchInv, PassDone PROVE PunchInv'
<1>1. IsAssembly(asm) /\ Logged(asm, log, blen, k) /\ k > Len(asm.stmts) /\ Len(asm.stmts) \in Nat /\ pc = "pass2"
  BY StmtTyped DEF TextInv, Base, PassDone
<1>2. k = Len(asm.stmts) + 1
  BY <1>1 DEF Logged
<1>3. OutBy' = OutBy
  <2>1. \A p \in 1..Len(punches) : ~Out(p)
    BY <1>1 DEF PunchInv, Out
  <2>2. \A p \in 1..Len(punches) : ~Out(p)'
    BY <1>1 DEF PunchInv, Out, PassDone
  <2>3. OutBy' = {}
    BY <2>2 DEF OutBy, PassDone
  <2> QED BY <2>1, <2>3 DEF OutBy
<1> QED BY <1>1, <1>2, <1>3 DEF PunchInv, PassDone

LEMMA PunchBase ==
    ASSUME TextInv, PunchInv, pc # "pass2"
    PROVE  /\ IsAssembly(asm) /\ IsSeq(deck) /\ punches \in Seq(Punch) /\ Len(punches) \in Nat
           /\ Marked(asm, punches, Len(asm.stmts) + 1) /\ Logged(asm, log, blen, Len(asm.stmts) + 1)
           /\ \A p \in 1..Len(punches) : /\ punches[p] \in Punch /\ punches[p].by \in Repros(asm) /\ punches[p].by \in Nat
                                         /\ punches[p].by \in 1..Len(asm.stmts)
                                         /\ punches[p].at_bytes \in {-1, BytesBefore(asm, punches[p].by)}
                                         /\ BytesBefore(asm, punches[p].by) \in Nat
<1>1. IsAssembly(asm) /\ IsSeq(deck) /\ punches \in Seq(Punch) /\ Len(punches) \in Nat
  BY DEF TextInv, Base
<1>2. Marked(asm, punches, Len(asm.stmts) + 1) /\ Logged(asm, log, blen, Len(asm.stmts) + 1)
  BY DEF TextInv, PunchInv
<1>3. Repros(asm) \subseteq 1..Len(asm.stmts) /\ Len(asm.stmts) \in Nat
  BY <1>1, StmtTyped DEF Repros
<1>4. ASSUME NEW p \in 1..Len(punches)
      PROVE  /\ punches[p] \in Punch /\ punches[p].by \in Repros(asm) /\ punches[p].by \in Nat
             /\ punches[p].by \in 1..Len(asm.stmts)
             /\ punches[p].at_bytes \in {-1, BytesBefore(asm, punches[p].by)}
             /\ BytesBefore(asm, punches[p].by) \in Nat
  <2>1. punches[p].by \in Repros(asm) /\ punches[p].at_bytes \in {-1, BytesBefore(asm, punches[p].by)}
    BY <1>2 DEF Marked
  <2>2. PICK m : m = punches[p].by
    OBVIOUS
  <2>3. m \in 1..Len(asm.stmts) /\ m \in Nat /\ m \in 1..(Len(asm.stmts) + 1)
    BY <1>3, <2>1, <2>2
  <2>4. BytesBefore(asm, m) \in Nat
    BY <1>1, <2>3, BytesTyped
  <2> QED BY <1>1, <2>1, <2>2, <2>3, <2>4
<1> QED BY <1>1, <1>2, <1>4

LEMMA PunchEarlyStep == ASSUME TextInv, PunchInv, PunchEarly PROVE PunchInv'
<1>1. pc = "early" /\ pc' = "early" /\ k' = k + 1 /\ punches' = punches /\ asm' = asm /\ seen' = seen /\ blen' = blen
  BY DEF PunchEarly
<1>2. k \in 1..Len(punches) /\ k \in Nat /\ IsSeq(deck)
  BY DEF TextInv, Base, PunchEarly
<1>3. /\ Marked(asm, punches, Len(asm.stmts) + 1)
      /\ \A p \in 1..Len(punches) : punches[p].at_bytes # -1 /\ punches[p].by \in Nat
  BY <1>1, PunchBase DEF PunchInv
<1>4. \A p \in 1..Len(punches) : Out(p) <=> punches[p].before_esd /\ p < k
  BY <1>1, <1>3 DEF Out
<1>5. \A p \in 1..Len(punches) : Out(p)' <=> punches[p].before_esd /\ p < k + 1
  BY <1>1, <1>3 DEF Out
<1>6. Reproed(asm, deck', OutBy')
  <2>1. CASE punches[k].before_esd
    <3>1. PICK c : c = ReproCard(punches[k])
      OBVIOUS
    <3>2. c.kind = "REPRO" /\ c.by = punches[k].by /\ deck' = Append(deck, c)
      BY <2>1, <3>1 DEF ReproCard, PunchEarly
    <3>3. Reproed(asm, deck, OutBy) /\ Cards(deck, "TXT") = {}
      BY <1>1 DEF PunchInv, TextInv
    <3>4. Texted(asm, deck, 0)
      BY <3>3, NoText
    <3>5. \A o \in OutBy : o < c.by
      BY <1>2, <1>3, <1>4, <3>2 DEF OutBy, Marked
    <3>6. Sectioned(asm) => 0 = BytesBefore(asm, c.by)
      BY <1>2, <1>3, <2>1, <3>2 DEF Marked
    <3>7. Reproed(asm, Append(deck, c), OutBy \union {c.by})
      BY <1>2, <3>2, <3>3, <3>4, <3>5, <3>6, ReproAdded
    <3>8. {q \in 1..Len(punches) : Out(q)'} = {q \in 1..Len(punches) : Out(q)} \union {k}
      BY <1>2, <1>4, <1>5, <2>1
    <3>9. OutBy' = OutBy \union {c.by}
      BY <1>1, <3>2, <3>8 DEF OutBy
    <3> QED BY <3>2, <3>7, <3>9
  <2>2. CASE ~punches[k].before_esd
    <3>1. {q \in 1..Len(punches) : Out(q)'} = {q \in 1..Len(punches) : Out(q)}
      BY <1>2, <1>4, <1>5, <2>2
    <3>2. OutBy' = OutBy
      BY <1>1, <3>1 DEF OutBy
    <3> QED BY <2>2, <3>2 DEF PunchInv, PunchEarly
  <2> QED BY <2>1, <2>2
<1> QED BY <1>1, <1>3, <1>6 DEF PunchInv

\* When only the stage changes, or a card that is no REPRO card is written.
LEMMA PunchKept ==
    ASSUME TextInv, PunchInv, pc \notin {"pass2", "early"}, pc' \notin {"pass2", "early"},
           punches' = punches, asm' = asm, deck' = deck \/ \E c : c.kind # "REPRO" /\ deck' = Append(deck, c)
    PROVE  /\ Marked(asm', punches', Len(asm'.stmts) + 1) /\ Reproed(asm', deck', OutBy')
           /\ \A p \in 1..Len(punches) : Gone(p)' <=> Gone(p)
<1>1. Marked(asm, punches, Len(asm.stmts) + 1) /\ IsSeq(deck)
  BY PunchBase
<1>2. \A p \in 1..Len(punches) : Out(p)' <=> Out(p)
  BY DEF Out
<1>3. OutBy' = OutBy
  BY <1>2 DEF OutBy
<1>4. Reproed(asm, deck, OutBy)
  BY DEF PunchInv
<1>5. Reproed(asm, deck', OutBy)
  <2>1. CASE deck' = deck
    BY <1>4, <2>1
  <2>2. CASE \E c : c.kind # "REPRO" /\ deck' = Append(deck, c)
    <3>1. PICK c : c.kind # "REPRO" /\ deck' = Append(deck, c)
      BY <2>2
    <3> QED BY <1>1, <1>4, <3>1, ReproOther
  <2> QED BY <2>1, <2>2
<1> QED BY <1>1, <1>3, <1>5 DEF Gone

LEMMA PunchEarlyDone == ASSUME TextInv, PunchInv, EarlyDone PROVE PunchInv'
<1>1. pc = "early" /\ pc' = "esd" /\ k > Len(punches) /\ punches' = punches /\ asm' = asm /\ deck' = deck
  BY DEF EarlyDone
<1>2. Len(punches) \in Nat /\ k \in Nat
  BY DEF TextInv, Base
<1>3. \A p \in 1..Len(punches) : Out(p)' <=> Out(p)
  BY <1>1, <1>2 DEF Out
<1>4. OutBy' = OutBy
  BY <1>1, <1>3 DEF OutBy
<1> QED BY <1>1, <1>4 DEF PunchInv

LEMMA PunchEsd == ASSUME TextInv, PunchInv, EsdEnt \/ EsdFlush \/ EsdDone PROVE PunchInv'
<1>1. /\ pc = "esd" /\ pc' \in {"esd", "txt"} /\ punches' = punches /\ asm' = asm /\ done' = done
      /\ deck' = deck \/ deck' = Append(deck, EsdCard)
  BY DEF EsdEnt, EsdFlush, EsdDone
<1>2. EsdCard.kind # "REPRO"
  BY DEF EsdCard
<1>3. deck' = deck \/ \E c : c.kind # "REPRO" /\ deck' = Append(deck, c)
  BY <1>1, <1>2
<1>4. pc \notin {"pass2", "early"} /\ pc' \notin {"pass2", "early"}
  BY <1>1
<1>5. /\ Marked(asm', punches', Len(asm'.stmts) + 1) /\ Reproed(asm', deck', OutBy')
      /\ \A p \in 1..Len(punches) : Gone(p)' <=> Gone(p)
  BY <1>1, <1>3, <1>4, PunchKept
<1>6. done = 0 /\ \A p \in 1..Len(punches) : punches[p].at_bytes # -1
  BY <1>1 DEF TextInv, PunchInv
<1>7. \A p \in 1..Len(punches) : punches[p].at_bytes >= 0
  BY <1>4, <1>6, PunchBase
<1>8. \A p, q \in 1..Len(punches) : p < q /\ Gone(q) => Gone(p)
  BY <1>4, <1>6, PunchBase DEF Gone, Marked
<1>9. /\ \A p \in 1..Len(punches') : punches'[p].at_bytes # -1 /\ punches'[p].at_bytes >= done'
      /\ \A p, q \in 1..Len(punches') : p < q /\ Gone(q)' => Gone(p)'
  BY <1>1, <1>5, <1>6, <1>7, <1>8
<1> QED BY <1>1, <1>5, <1>9 DEF PunchInv

LEMMA PunchFlush == ASSUME TextInv, PunchInv, TxtFlush PROVE PunchInv'
<1>1. pc = "txt" /\ pc' = "txt" /\ punches' = punches /\ asm' = asm /\ done' = done /\ deck' = Append(deck, TxtCard)
  BY DEF TxtFlush, Flushed
<1>2. TxtCard.kind # "REPRO"
  BY DEF TxtCard
<1>3. /\ Marked(asm', punches', Len(asm'.stmts) + 1) /\ Reproed(asm', deck', OutBy')
      /\ \A p \in 1..Len(punches) : Gone(p)' <=> Gone(p)
  BY <1>1, <1>2, PunchKept
<1> QED BY <1>1, <1>3 DEF PunchInv

LEMMA PunchTake == ASSUME TextInv, PunchInv, TxtTake PROVE PunchInv'
<1>1. pc = "txt" /\ pc' = "txt" /\ punches' = punches /\ asm' = asm /\ deck' = deck /\ Due = {} /\ k <= Len(log)
      /\ (card.open => ~Breaks)
  BY DEF TxtTake
<1>2. /\ log \in Seq(Event) /\ k \in 1..Len(log) /\ done \in Nat /\ pos \in Nat /\ punches \in Seq(Punch) /\ pos <= log[k].n
  BY <1>1 DEF TextInv, Base, Logged, Cut
<1>3. TXTCARD - TxtHeld.n \in Nat
  BY <1>1, TextHeld
<1>4. PICK t : t = Take(TXTCARD - TxtHeld.n)
  OBVIOUS
<1>5. done' = done + t
  BY <1>4 DEF TxtTake, TxtHeld
<1>6. t \in Nat /\ \A p \in DOMAIN punches : Pending(p) => done + t <= punches[p].at_bytes
  BY <1>2, <1>3, <1>4, TakeFits
<1>7. /\ Marked(asm', punches', Len(asm'.stmts) + 1) /\ Reproed(asm', deck', OutBy')
      /\ \A p \in 1..Len(punches) : Gone(p)' <=> Gone(p)
  BY <1>1, PunchKept
<1>8. ASSUME NEW p \in 1..Len(punches), ~Gone(p) PROVE punches[p].at_bytes >= done'
  <2>1. ~punches[p].before_esd /\ punches[p].at_bytes >= done
    BY <1>1, <1>8 DEF PunchInv, Gone
  <2>2. DOMAIN punches = 1..Len(punches)
    BY <1>2
  <2>3. punches[p].at_bytes # done
    BY <1>1, <2>1, <2>2 DEF Due
  <2>4. punches[p].at_bytes \in Int
    <3>1. punches[p] \in Punch
      BY <1>2
    <3> QED BY <3>1 DEF Punch
  <2>5. Pending(p)
    BY <1>2, <2>1, <2>3, <2>4 DEF Pending
  <2> QED BY <1>2, <1>5, <1>6, <2>2, <2>4, <2>5
<1>9. \A p \in 1..Len(punches') : Gone(p)' \/ punches'[p].at_bytes >= done'
  BY <1>1, <1>7, <1>8
<1>10. \A p, q \in 1..Len(punches') : p < q /\ Gone(q)' => Gone(p)'
  BY <1>1, <1>7 DEF PunchInv
<1> QED BY <1>1, <1>7, <1>9, <1>10 DEF PunchInv

LEMMA PunchPunch == ASSUME TextInv, PunchInv, TxtPunch PROVE PunchInv'
<1>1. pc = "txt" /\ pc' = "txt" /\ asm' = asm /\ done' = done /\ Due # {} /\ done \in Nat
  BY DEF TxtPunch, TextInv, Base
<1>2. /\ punches \in Seq(Punch) /\ Len(punches) \in Nat /\ DOMAIN punches = 1..Len(punches) /\ IsAssembly(asm)
      /\ IsSeq(deck) /\ Marked(asm, punches, Len(asm.stmts) + 1)
  BY <1>1, PunchBase
<1>3. PICK w : w = Lowest(Due)
  OBVIOUS
<1>4. w \in 1..Len(punches) /\ w \in Due /\ \A y \in Due : w <= y
  <2>1. Due \subseteq Nat
    BY <1>2 DEF Due
  <2>2. w \in Due /\ \A y \in Due : w <= y
    BY <1>1, <1>3, <2>1, LowestIs
  <2> QED BY <1>2, <2>2 DEF Due
<1>5. ~punches[w].before_esd /\ punches[w].at_bytes = done /\ ~Gone(w)
  BY <1>1, <1>4 DEF Due, Gone
<1>6. done = BytesBefore(asm, punches[w].by) /\ punches[w].by \in 1..Len(asm.stmts)
  BY <1>1, <1>4, <1>5, PunchBase
<1>7. PICK c : c = ReproCard(punches[w])
  OBVIOUS
<1>8. c.kind = "REPRO" /\ c.by = punches[w].by /\ deck' = Append(Flushed, c)
  BY <1>3, <1>7 DEF ReproCard, TxtPunch
<1>9. Without(punches, punches', w)
  BY <1>2, <1>3, <1>4, PunchGone DEF TxtPunch
<1>10. IsSeq(Flushed) /\ Texted(asm, Flushed, done)
  BY <1>1, TextCard
<1>11. Reproed(asm, Flushed, OutBy)
  <2>1. Reproed(asm, deck, OutBy)
    BY DEF PunchInv
  <2>2. TxtCard.kind # "REPRO"
    BY DEF TxtCard
  <2>3. Reproed(asm, Append(deck, TxtCard), OutBy)
    BY <1>2, <2>1, <2>2, ReproOther
  <2> QED BY <2>1, <2>3 DEF Flushed
<1>12. \A p \in 1..Len(punches) : Out(p) => Gone(p)
  BY DEF Out, Gone
<1>13. \A p \in 1..Len(punches) : Gone(p) => punches[p].by < punches[w].by
  <2> SUFFICES ASSUME NEW p \in 1..Len(punches), Gone(p) PROVE punches[p].by < punches[w].by
    OBVIOUS
  <2>1. p # w /\ ~(w < p)
    BY <1>1, <1>4, <1>5 DEF PunchInv
  <2>2. p < w
    BY <1>2, <1>4, <2>1
  <2> QED BY <1>2, <1>4, <2>2 DEF Marked
<1>14. \A o \in OutBy : o < c.by
  BY <1>8, <1>12, <1>13 DEF OutBy
<1>15. Reproed(asm, deck', OutBy \union {c.by})
  BY <1>6, <1>8, <1>10, <1>11, <1>14, ReproAdded
<1>16. \A p \in 1..Len(punches) : /\ Out(p)' <=> Out(p) \/ p = w
                                  /\ Gone(p)' <=> Gone(p) \/ p = w
  BY <1>1, <1>5, <1>9 DEF Out, Gone, Without
<1>17. OutBy' = OutBy \union {c.by}
  <2>1. {q \in 1..Len(punches') : Out(q)'} = {q \in 1..Len(punches) : Out(q)} \union {w}
    BY <1>4, <1>9, <1>16 DEF Without
  <2>2. \A q \in 1..Len(punches) : punches'[q].by = punches[q].by
    BY <1>9 DEF Without
  <2>3. OutBy' = {punches'[p].by : p \in {q \in 1..Len(punches) : Out(q)} \union {w}}
    BY <2>1 DEF OutBy
  <2>4. OutBy' = {punches[p].by : p \in {q \in 1..Len(punches) : Out(q)} \union {w}}
    BY <1>4, <2>2, <2>3
  <2> QED BY <1>8, <2>4 DEF OutBy
<1>18. Marked(asm, punches', Len(asm.stmts) + 1)
  BY <1>2, <1>9, MarkedGone
<1>19. ASSUME NEW p \in 1..Len(punches'), NEW q \in 1..Len(punches'), p < q, Gone(q)' PROVE Gone(p)'
  <2>1. p \in 1..Len(punches) /\ q \in 1..Len(punches)
    BY <1>9 DEF Without
  <2>2. CASE Gone(q)
    BY <1>1, <1>16, <1>19, <2>1, <2>2 DEF PunchInv
  <2>3. CASE q = w
    <3> SUFFICES ASSUME ~Gone(p) PROVE FALSE
      BY <1>16, <2>1
    <3>1. punches[p].at_bytes >= done /\ ~punches[p].before_esd /\ punches[p].at_bytes # -1
      BY <1>1, <2>1 DEF PunchInv, Gone
    <3>2. /\ punches[p].at_bytes = BytesBefore(asm, punches[p].by) /\ punches[p].by \in 1..Len(asm.stmts)
          /\ BytesBefore(asm, punches[p].by) \in Nat
      BY <1>1, <2>1, <3>1, PunchBase
    <3>3. punches[p].by < punches[w].by
      BY <1>2, <1>19, <2>1, <2>3 DEF Marked
    <3>4. PICK x, y : x = punches[p].by /\ y = punches[w].by
      OBVIOUS
    <3>5. x \in 1..Len(asm.stmts) /\ y \in 1..(Len(asm.stmts) + 1) /\ x < y /\ Len(asm.stmts) \in Nat
      BY <1>2, <1>6, <3>2, <3>3, <3>4, StmtTyped
    <3>6. BytesBefore(asm, x) + Size(asm, x) <= BytesBefore(asm, y) /\ Size(asm, x) \in Nat
      BY <1>2, <3>5, BytesAscend, StmtTyped
    <3>7. BytesBefore(asm, x) = done
      BY <1>1, <1>6, <3>1, <3>2, <3>4, <3>6
    <3>8. p \in Due
      BY <1>2, <2>1, <3>1, <3>2, <3>4, <3>7 DEF Due
    <3> QED BY <1>2, <1>4, <1>19, <2>1, <2>3, <3>8
  <2> QED BY <1>16, <1>19, <2>1, <2>2, <2>3
<1>20. \A p \in 1..Len(punches') : Gone(p)' \/ punches'[p].at_bytes >= done'
  BY <1>1, <1>9, <1>16 DEF PunchInv, Without
<1> QED BY <1>1, <1>15, <1>17, <1>18, <1>19, <1>20 DEF PunchInv

LEMMA PunchLater ==
    ASSUME TextInv, PunchInv, TxtDone \/ SortRelocations \/ RldEnt \/ RldFlush \/ RldDone \/ EndCard
    PROVE  PunchInv'
<1> DEFINE endc == IF asm.entry = NoSym THEN [kind |-> "END", has |-> FALSE]
                   ELSE [kind |-> "END", has |-> TRUE, addr |-> asm.def[asm.entry].addr, id |-> EndEsdid(asm, asm.entry)]
<1>1. /\ pc \in {"txt", "sort", "rld", "end"} /\ pc' \in {"sort", "rld", "end", "done"} /\ punches' = punches /\ asm' = asm
      /\ deck' = deck \/ deck' = Append(deck, RldCard) \/ deck' = Append(deck, endc)
  BY DEF TxtDone, SortRelocations, RldEnt, RldFlush, RldDone, EndCard
<1>2. RldCard.kind # "REPRO" /\ endc.kind # "REPRO"
  BY DEF RldCard
<1>3. deck' = deck \/ \E c : c.kind # "REPRO" /\ deck' = Append(deck, c)
  <2> HIDE DEF endc
  <2> QED BY <1>1, <1>2
<1> HIDE DEF endc
<1>4. pc \notin {"pass2", "early"} /\ pc' \notin {"pass2", "early"}
  BY <1>1
<1>5. /\ Marked(asm', punches', Len(asm'.stmts) + 1) /\ Reproed(asm', deck', OutBy')
      /\ \A p \in 1..Len(punches) : Gone(p)' <=> Gone(p)
  BY <1>1, <1>3, <1>4, PunchKept
<1>6. \A p \in 1..Len(punches) : Gone(p)
  <2>1. CASE pc # "txt"
    BY <1>1, <2>1 DEF PunchInv
  <2>2. CASE pc = "txt"
    <3>1. Due = {} /\ Cut /\ k > Len(log) /\ done \in Nat
      BY <2>2 DEF TxtDone, TextInv, Base, SortRelocations, RldEnt, RldFlush, RldDone, EndCard
    <3>2. /\ IsAssembly(asm) /\ Logged(asm, log, blen, Len(asm.stmts) + 1) /\ punches \in Seq(Punch)
          /\ DOMAIN punches = 1..Len(punches)
      BY <1>4, PunchBase
    <3>3. log \in Seq(Event) /\ blen = BytesBefore(asm, Len(asm.stmts) + 1) /\ Len(asm.stmts) \in Nat
      BY <3>2, StmtTyped DEF Logged
    <3>4. done = blen
      BY <3>1, <3>3 DEF Cut
    <3> SUFFICES ASSUME NEW p \in 1..Len(punches), ~Gone(p) PROVE FALSE
      OBVIOUS
    <3>5. punches[p].at_bytes >= done /\ ~punches[p].before_esd /\ punches[p].at_bytes # -1
      BY <2>2 DEF PunchInv, Gone
    <3>6. punches[p].at_bytes = BytesBefore(asm, punches[p].by) /\ punches[p].by \in 1..Len(asm.stmts)
      BY <1>4, <3>5, PunchBase
    <3>7. PICK x : x = punches[p].by
      OBVIOUS
    <3>8. x \in 1..Len(asm.stmts) /\ Len(asm.stmts) + 1 \in 1..(Len(asm.stmts) + 1) /\ x < Len(asm.stmts) + 1
      BY <3>3, <3>6, <3>7
    <3>9. BytesBefore(asm, x) + Size(asm, x) <= blen /\ Size(asm, x) \in Nat /\ BytesBefore(asm, x) \in Nat
      BY <3>2, <3>3, <3>8, BytesAscend, StmtTyped, BytesStep
    <3>10. punches[p].at_bytes = done
      BY <3>1, <3>4, <3>5, <3>6, <3>7, <3>9
    <3> QED BY <3>1, <3>2, <3>5, <3>10 DEF Due
  <2> QED BY <2>1, <2>2
<1> QED BY <1>1, <1>5, <1>6 DEF PunchInv

LEMMA PunchStep == TextInv /\ PunchInv /\ [Next]_vars => PunchInv'
<1> SUFFICES ASSUME TextInv, PunchInv, [Next]_vars PROVE PunchInv'
  OBVIOUS
<1>1. ASSUME UNCHANGED vars PROVE PunchInv'
  <2>1. OutBy' = OutBy
    BY <1>1 DEF vars, OutBy, Out
  <2> QED BY <1>1, <2>1 DEF vars, PunchInv, Gone
<1>2. CASE Done
  BY <1>1, <1>2 DEF Done
<1> QED BY <1>1, <1>2, PunchSection, PunchPut, PunchRepro, PunchPassDone, PunchEarlyStep, PunchEarlyDone, PunchEsd,
           PunchPunch, PunchFlush, PunchTake, PunchLater DEF Next

\* Every REPRO card is in the deck once, in source order, behind exactly the text
\* assembled before it (emit_obj's at_bytes marks, before_esd pass and the split
\* of an event at a mark), when all text is behind a CSECT or START.
THEOREM PunchedInTheirPlace == Spec => [](Sectioned(asm) => PunchedInPlace)
<1>1. Init => TextInv /\ PunchInv
  BY TextInit, PunchInit
<1>2. TextInv /\ PunchInv /\ [Next]_vars => TextInv' /\ PunchInv'
  BY TextStep, PunchStep
<1>3. TextInv /\ PunchInv => (Sectioned(asm) => PunchedInPlace)
  <2> SUFFICES ASSUME TextInv, PunchInv, Sectioned(asm), pc = "done" PROVE
                 /\ {deck[c].by : c \in Cards(deck, "REPRO")} = Repros(asm)
                 /\ \A c, d \in Cards(deck, "REPRO") : c < d => deck[c].by < deck[d].by
                 /\ \A c \in Cards(deck, "REPRO") : TextAhead(deck, c) = 1..BytesBefore(asm, deck[c].by)
    BY DEF PunchedInPlace, Finished
  <2>1. Reproed(asm, deck, OutBy)
    BY DEF PunchInv
  <2>2. \A p \in 1..Len(punches) : Out(p)
    BY DEF PunchInv, Gone, Out
  <2>3. IsAssembly(asm) /\ Marked(asm, punches, Len(asm.stmts) + 1)
    BY PunchBase
  <2>4. \A m \in Repros(asm) : m < Len(asm.stmts) + 1
    BY <2>3, StmtTyped DEF Repros
  <2>5. OutBy = Repros(asm)
    BY <2>2, <2>3, <2>4 DEF OutBy, Marked
  <2> QED BY <2>1, <2>5 DEF Reproed
<1> QED BY <1>1, <1>2, <1>3, PTL DEF Spec

(***************************************************************************)
(* The external symbols.                                                   *)
(***************************************************************************)
CardLocals(first, items) ==
    {<<ReadId(first, items, m), items[m]>> : m \in {q \in DOMAIN items : items[q].type # "LD"}}
CardLabels(items) == {m \in DOMAIN items : items[m].type = "LD"}
NumOn(items, n) == Cardinality({q \in 1..n : items[q].type # "LD"})
\* What the first n entries ask for.
Numbered(a, n) == {<<Esdid(a, m), EsdEntry(a, m)>> : m \in {q \in 1..n : IsNumbered(a, q)}}
Labelled(a, n) == {m \in 1..n : ~IsNumbered(a, m) /\ Kept(a, m)}
LabelItem(a, n, e) == \E m \in Labelled(a, n) : e = EsdEntry(a, m)

\* The cards of d and the one with these items carry the first n entries.
Decked(a, d, n, first, items) ==
    /\ IsSeq(items)
    /\ ReadLocals(d) \union CardLocals(first, items) = Numbered(a, n)
    /\ IsFiniteSet(ReadLabels(d))
    /\ Cardinality(ReadLabels(d)) + Cardinality(CardLabels(items)) = Cardinality(Labelled(a, n))
    /\ \A x \in ReadLabels(d) : LabelItem(a, n, d[x[1]].items[x[2]])
    /\ \A m \in CardLabels(items) : LabelItem(a, n, items[m])
    /\ IF first = 0 THEN NumOn(items, Len(items)) = 0
                    ELSE first \in Nat /\ first + NumOn(items, Len(items)) = Esdid(a, n) + 1

LEMMA EntryIs ==
    ASSUME NEW a, IsAssembly(a), NEW m \in 1..Len(a.esd)
    PROVE  /\ EsdEntry(a, m).name = a.esd[m].sym
           /\ EsdEntry(a, m).type # "LD" <=> IsNumbered(a, m)
           /\ EsdEntry(a, m).type \in {"SD", "PC"} <=> a.esd[m].role = "SECT"
           /\ a.esd[m].role = "CM" => EsdEntry(a, m).type = "CM"
           /\ a.esd[m].role = "ER" => EsdEntry(a, m).type \in {"ER", "WX"}
           /\ a.esd[m].role = "LD" => EsdEntry(a, m).len = sect_esdid(a, a.def[a.esd[m].sym].sect)
<1>1. a.esd[m].role \in {"SECT", "CM", "XD", "ER", "LD"} /\ EntrySound(a, a.esd[m])
  BY EsdidTyped
<1>2. CASE a.esd[m].role = "SECT"
  BY <1>1, <1>2 DEF EsdEntry, EntrySound, IsNumbered
<1>3. CASE a.esd[m].role = "CM"
  BY <1>3 DEF EsdEntry, IsNumbered
<1>4. CASE a.esd[m].role = "XD"
  BY <1>4 DEF EsdEntry, IsNumbered
<1>5. CASE a.esd[m].role = "ER"
  BY <1>5 DEF EsdEntry, IsNumbered
<1>6. CASE a.esd[m].role = "LD"
  BY <1>6 DEF EsdEntry, IsNumbered
<1> QED BY <1>1, <1>2, <1>3, <1>4, <1>5, <1>6

LEMMA LabelsStep ==
    ASSUME NEW a, NEW n \in Nat
    PROVE  /\ IsFiniteSet(Labelled(a, n)) /\ Cardinality(Labelled(a, n)) \in Nat
           /\ ~(~IsNumbered(a, n + 1) /\ Kept(a, n + 1)) => Labelled(a, n + 1) = Labelled(a, n)
           /\ ~IsNumbered(a, n + 1) /\ Kept(a, n + 1) =>
                 /\ Labelled(a, n + 1) = Labelled(a, n) \union {n + 1}
                 /\ Cardinality(Labelled(a, n + 1)) = Cardinality(Labelled(a, n)) + 1
<1>1. IsFiniteSet(1..n)
  BY FS_Interval
<1>2. Labelled(a, n) \subseteq 1..n
  BY DEF Labelled
<1>3. IsFiniteSet(Labelled(a, n))
  BY <1>1, <1>2, FS_Subset
<1>4. Cardinality(Labelled(a, n)) \in Nat
  BY <1>3, FS_CardinalityType
<1>5. 1..(n + 1) = (1..n) \union {n + 1} /\ n + 1 \notin 1..n
  OBVIOUS
<1>6. /\ ~(~IsNumbered(a, n + 1) /\ Kept(a, n + 1)) => Labelled(a, n + 1) = Labelled(a, n)
      /\ ~IsNumbered(a, n + 1) /\ Kept(a, n + 1) => Labelled(a, n + 1) = Labelled(a, n) \union {n + 1}
  BY <1>5 DEF Labelled
<1>7. n + 1 \notin Labelled(a, n)
  BY <1>2, <1>5
<1>8. Cardinality(Labelled(a, n) \union {n + 1}) = Cardinality(Labelled(a, n)) + 1
  BY <1>3, <1>7, FS_AddElement
<1> QED BY <1>3, <1>4, <1>6, <1>8

LEMMA NumberedStep ==
    ASSUME NEW a, NEW n \in Nat
    PROVE  /\ ~IsNumbered(a, n + 1) => Numbered(a, n + 1) = Numbered(a, n)
           /\ IsNumbered(a, n + 1) => Numbered(a, n + 1) = Numbered(a, n) \union {<<Esdid(a, n + 1), EsdEntry(a, n + 1)>>}
<1>1. 1..(n + 1) = (1..n) \union {n + 1} /\ n + 1 \notin 1..n
  OBVIOUS
<1> QED BY <1>1 DEF Numbered

\* new is items with e behind them.
ItemAdded(items, e, new, first, N) ==
    /\ IsSeq(new) /\ new[Len(items) + 1] = e
    /\ N \in Nat /\ Cardinality(CardLabels(items)) \in Nat
    /\ IsFiniteSet(CardLabels(items))
    /\ e.type = "LD" => /\ NumOn(new, Len(new)) = N
                        /\ CardLocals(first, new) = CardLocals(first, items)
                        /\ CardLabels(new) = CardLabels(items) \union {Len(items) + 1}
                        /\ Cardinality(CardLabels(new)) = Cardinality(CardLabels(items)) + 1
    /\ e.type # "LD" => /\ NumOn(new, Len(new)) = N + 1
                        /\ CardLocals(first, new) = CardLocals(first, items) \union {<<first + N, e>>}
                        /\ CardLabels(new) = CardLabels(items)
    /\ \A m \in CardLabels(items) : new[m] = items[m]

LEMMA ItemsStep ==
    ASSUME NEW items, IsSeq(items), NEW e, NEW new, new = Append(items, e), NEW first,
           NEW N, N = NumOn(items, Len(items))
    PROVE  ItemAdded(items, e, new, first, N)
<1>1. /\ IsSeq(new) /\ Len(items) \in Nat /\ DOMAIN items = 1..Len(items) /\ Len(new) = Len(items) + 1
      /\ DOMAIN new = 1..(Len(items) + 1) /\ new[Len(items) + 1] = e /\ \A x \in 1..Len(items) : new[x] = items[x]
  BY Extended
<1>2. PICK L \in Nat : L = Len(items)
  BY <1>1
<1>3. 1..(L + 1) = (1..L) \union {L + 1} /\ L + 1 \notin 1..L /\ \A m \in 1..L : 1..(m - 1) \subseteq 1..L
  OBVIOUS
<1> DEFINE X == {q \in 1..L : items[q].type # "LD"}
           Y == {q \in 1..(L + 1) : new[q].type # "LD"}
           W == CardLabels(items)
<1>4. X \subseteq 1..L /\ W \subseteq 1..L /\ IsFiniteSet(1..L)
  <2>1. X \subseteq 1..L /\ W \subseteq 1..L
    BY <1>1, <1>2 DEF CardLabels
  <2>2. IsFiniteSet(1..L)
    BY FS_Interval
  <2> QED BY <2>1, <2>2
<1>5. IsFiniteSet(X) /\ IsFiniteSet(W)
  BY <1>4, FS_Subset
<1>6. Cardinality(X) \in Nat /\ Cardinality(W) \in Nat
  BY <1>5, FS_CardinalityType
<1>7. Cardinality(X \union {L + 1}) = Cardinality(X) + 1 /\ Cardinality(W \union {L + 1}) = Cardinality(W) + 1
  <2>1. L + 1 \notin X /\ L + 1 \notin W
    BY <1>3, <1>4
  <2> HIDE DEF X, W
  <2> QED BY <1>5, <2>1, FS_AddElement
<1>8. Y = IF e.type # "LD" THEN X \union {L + 1} ELSE X
  BY <1>1, <1>2, <1>3
<1>9. CardLabels(new) = IF e.type # "LD" THEN W ELSE W \union {L + 1}
  BY <1>1, <1>2, <1>3 DEF CardLabels
<1>10. NumOn(items, Len(items)) = Cardinality(X) /\ NumOn(new, Len(new)) = Cardinality(Y)
  BY <1>1, <1>2 DEF NumOn
<1>11. ASSUME NEW m \in 1..L PROVE ReadId(first, new, m) = ReadId(first, items, m)
  <2>1. {q \in 1..(m - 1) : new[q].type # "LD"} = {q \in 1..(m - 1) : items[q].type # "LD"}
    BY <1>1, <1>2, <1>3
  <2> QED BY <2>1 DEF ReadId
<1>12. ReadId(first, new, L + 1) = first + Cardinality(X)
  <2>1. (L + 1) - 1 = L
    OBVIOUS
  <2>2. {q \in 1..((L + 1) - 1) : new[q].type # "LD"} = X
    BY <1>1, <1>2, <2>1
  <2> HIDE DEF X
  <2> QED BY <2>2 DEF ReadId
<1>13. {q \in DOMAIN items : items[q].type # "LD"} = X /\ {q \in DOMAIN new : new[q].type # "LD"} = Y
  BY <1>1, <1>2
<1>14. CardLocals(first, items) = {<<ReadId(first, items, m), items[m]>> : m \in X}
  BY <1>13 DEF CardLocals
<1>15. CardLocals(first, new) = {<<ReadId(first, new, m), new[m]>> : m \in Y}
  BY <1>13 DEF CardLocals
<1>16. \A m \in X : <<ReadId(first, new, m), new[m]>> = <<ReadId(first, items, m), items[m]>>
  BY <1>1, <1>2, <1>4, <1>11
<1>21. {<<ReadId(first, new, m), new[m]>> : m \in X} = CardLocals(first, items)
  <2> HIDE DEF X
  <2>1. {<<ReadId(first, new, m), new[m]>> : m \in X} = {<<ReadId(first, items, m), items[m]>> : m \in X}
    BY <1>16, Zenon
  <2> QED BY <1>14, <2>1, Zenon
<1>17. e.type = "LD" => CardLocals(first, new) = CardLocals(first, items)
  <2> HIDE DEF X, Y
  <2>1. e.type = "LD" => Y = X
    BY <1>8
  <2> QED BY <1>15, <1>21, <2>1, Zenon
<1>18. e.type # "LD" => CardLocals(first, new) = CardLocals(first, items) \union {<<first + Cardinality(X), e>>}
  <2> HIDE DEF X, Y
  <2>1. e.type # "LD" => CardLocals(first, new) = {<<ReadId(first, new, m), new[m]>> : m \in X}
                                              \union {<<ReadId(first, new, L + 1), new[L + 1]>>}
    BY <1>8, <1>15
  <2>2. <<ReadId(first, new, L + 1), new[L + 1]>> = <<first + Cardinality(X), e>>
    BY <1>1, <1>2, <1>12
  <2> QED BY <1>21, <2>1, <2>2, Zenon
<1>19. \A m \in CardLabels(items) : new[m] = items[m]
  BY <1>1, <1>2, <1>4
<1> HIDE DEF X, Y, W
<1>20. CardLabels(items) = W
  BY DEF W
<1>22. N = Cardinality(X)
  BY <1>10
<1>23. e.type = "LD" => NumOn(new, Len(new)) = N /\ CardLabels(new) = CardLabels(items) \union {Len(items) + 1}
  BY <1>2, <1>8, <1>9, <1>10, <1>20
<1>24. e.type = "LD" => Cardinality(CardLabels(new)) = Cardinality(CardLabels(items)) + 1
  BY <1>7, <1>9, <1>20
<1>25. e.type # "LD" => NumOn(new, Len(new)) = N + 1 /\ CardLabels(new) = CardLabels(items)
  BY <1>7, <1>8, <1>9, <1>10, <1>20
<1>26. e.type # "LD" => CardLocals(first, new) = CardLocals(first, items) \union {<<first + N, e>>}
  BY <1>18, <1>22
<1>27. IsSeq(new) /\ new[Len(items) + 1] = e /\ N \in Nat /\ Cardinality(CardLabels(items)) \in Nat
       /\ IsFiniteSet(CardLabels(items))
  BY <1>1, <1>5, <1>6, <1>20, <1>22
<1> QED BY <1>17, <1>19, <1>23, <1>24, <1>25, <1>26, <1>27, Zenon DEF ItemAdded

LEMMA NoItems ==
    ASSUME NEW first
    PROVE  /\ IsSeq(<< >>) /\ CardLocals(first, << >>) = {} /\ CardLabels(<< >>) = {}
           /\ Cardinality(CardLabels(<< >>)) = 0 /\ NumOn(<< >>, Len(<< >>)) = 0
<1>1. << >> \in Seq({}) /\ DOMAIN << >> = {} /\ Len(<< >>) = 0 /\ 1..0 = {}
  OBVIOUS
<1>2. IsSeq(<< >>)
  BY <1>1 DEF IsSeq
<1>3. CardLocals(first, << >>) = {} /\ CardLabels(<< >>) = {}
  BY <1>1 DEF CardLocals, CardLabels
<1>4. {q \in 1..Len(<< >>) : << >>[q].type # "LD"} = {}
  BY <1>1
<1> QED BY <1>2, <1>3, <1>4, FS_EmptySet DEF NumOn

LEMMA DeckedNone ==
    ASSUME NEW a, IsAssembly(a), NEW d, Cards(d, "ESD") = {}
    PROVE  Decked(a, d, 0, 0, << >>)
<1>1. ReadLocals(d) = {} /\ ReadLabels(d) = {}
  BY DEF ReadLocals, ReadLabels
<1>2. 1..0 = {}
  OBVIOUS
<1>3. Numbered(a, 0) = {} /\ Labelled(a, 0) = {}
  BY <1>2 DEF Numbered, Labelled
<1>4. IsFiniteSet({}) /\ Cardinality({}) = 0
  BY FS_EmptySet
<1>5. /\ IsSeq(<< >>) /\ CardLocals(0, << >>) = {} /\ CardLabels(<< >>) = {}
      /\ Cardinality(CardLabels(<< >>)) = 0 /\ NumOn(<< >>, Len(<< >>)) = 0
  BY NoItems
<1>6. Cardinality(ReadLabels(d)) + Cardinality(CardLabels(<< >>)) = Cardinality(Labelled(a, 0))
  <2>1. Cardinality(ReadLabels(d)) = 0 /\ Cardinality(CardLabels(<< >>)) = 0 /\ Cardinality(Labelled(a, 0)) = 0
    BY <1>1, <1>3, <1>4, <1>5, Zenon
  <2> QED BY <2>1
<1>7. ReadLocals(d) \union CardLocals(0, << >>) = Numbered(a, 0)
  BY <1>1, <1>3, <1>5
<1> QED BY <1>1, <1>4, <1>5, <1>6, <1>7 DEF Decked

LEMMA LabelsGrow ==
    ASSUME NEW a, NEW n \in Nat, NEW e, LabelItem(a, n, e)
    PROVE  LabelItem(a, n + 1, e)
<1>1. 1..n \subseteq 1..(n + 1)
  OBVIOUS
<1> QED BY <1>1 DEF LabelItem, Labelled

LEMMA DeckedDrop ==
    ASSUME NEW a, IsAssembly(a), NEW d, NEW n \in Nat, NEW first, NEW items, Decked(a, d, n, first, items), ~Kept(a, n + 1)
    PROVE  Decked(a, d, n + 1, first, items)
<1>1. ~IsNumbered(a, n + 1)
  BY DEF Kept, IsNumbered
<1>2. Labelled(a, n + 1) = Labelled(a, n) /\ Numbered(a, n + 1) = Numbered(a, n)
  BY <1>1, LabelsStep, NumberedStep
<1>3. Esdid(a, n + 1) = Esdid(a, n)
  <2>1. n + 1 \in Nat \ {0} /\ (n + 1) - 1 = n
    OBVIOUS
  <2>2. Esdid(a, n + 1) = Esdid(a, (n + 1) - 1) + 0 /\ Esdid(a, n) \in Nat
    BY <1>1, <2>1, EsdidTyped
  <2> QED BY <2>1, <2>2
<1> QED BY <1>2, <1>3 DEF Decked, LabelItem

LEMMA DeckedItem ==
    ASSUME NEW a, IsAssembly(a), NEW d, NEW n \in Nat, n + 1 \in 1..Len(a.esd), NEW first, NEW items,
           Decked(a, d, n, first, items), Kept(a, n + 1),
           NEW f, f = IF first = 0 /\ IsNumbered(a, n + 1) THEN Esdid(a, n + 1) ELSE first
    PROVE  Decked(a, d, n + 1, f, Append(items, EsdEntry(a, n + 1)))
<1>1. PICK e, new : e = EsdEntry(a, n + 1) /\ new = Append(items, e)
  OBVIOUS
<1>2. e.type # "LD" <=> IsNumbered(a, n + 1)
  BY <1>1, EntryIs
<1>3. IsSeq(items)
  BY DEF Decked
<1>4. PICK N : N = NumOn(items, Len(items))
  OBVIOUS
<1>5. /\ IsSeq(new) /\ N \in Nat /\ \A m \in CardLabels(items) : new[m] = items[m]
      /\ new[Len(items) + 1] = e
      /\ e.type = "LD" => /\ NumOn(new, Len(new)) = N /\ CardLocals(f, new) = CardLocals(f, items)
                          /\ CardLabels(new) = CardLabels(items) \union {Len(items) + 1}
                          /\ Cardinality(CardLabels(new)) = Cardinality(CardLabels(items)) + 1
      /\ e.type # "LD" => /\ NumOn(new, Len(new)) = N + 1
                          /\ CardLocals(f, new) = CardLocals(f, items) \union {<<f + N, e>>}
                          /\ CardLabels(new) = CardLabels(items)
  <2>1. ItemAdded(items, e, new, f, N)
    BY <1>1, <1>3, <1>4, ItemsStep
  <2> QED BY <2>1 DEF ItemAdded
<1>20. IF first = 0 THEN N = 0 ELSE first \in Nat /\ first + N = Esdid(a, n) + 1
  BY <1>4 DEF Decked
<1>6. Cardinality(CardLabels(items)) \in Nat /\ Cardinality(ReadLabels(d)) \in Nat /\ IsFiniteSet(ReadLabels(d))
  <2>1. ItemAdded(items, e, new, f, N)
    BY <1>1, <1>3, <1>4, ItemsStep
  <2>2. IsFiniteSet(ReadLabels(d))
    BY DEF Decked
  <2> QED BY <2>1, <2>2, FS_CardinalityType DEF ItemAdded
<1>7. n + 1 \in Nat \ {0} /\ (n + 1) - 1 = n
  OBVIOUS
<1>8. /\ Esdid(a, n) \in Nat
      /\ IsNumbered(a, n + 1) => Esdid(a, n + 1) = Esdid(a, n) + 1
      /\ ~IsNumbered(a, n + 1) => Esdid(a, n + 1) = Esdid(a, n)
  <2>1. Esdid(a, n) \in Nat /\ Esdid(a, n + 1) = Esdid(a, (n + 1) - 1) + (IF IsNumbered(a, n + 1) THEN 1 ELSE 0)
    BY <1>7, EsdidTyped
  <2> QED BY <1>7, <2>1
<1>9. CardLocals(f, items) = CardLocals(first, items)
  <2>1. CASE first # 0 \/ ~IsNumbered(a, n + 1)
    BY <2>1
  <2>2. CASE first = 0
    <3>1. N = 0
      BY <1>4, <2>2 DEF Decked
    <3>2. DOMAIN items = 1..Len(items) /\ Len(items) \in Nat
      BY <1>1, <1>3, Extended
    <3>3. PICK Z : Z = {q \in 1..Len(items) : items[q].type # "LD"}
      OBVIOUS
    <3>4. Z \subseteq 1..Len(items) /\ IsFiniteSet(1..Len(items))
      BY <3>2, <3>3, FS_Interval
    <3>5. IsFiniteSet(Z) /\ Cardinality(Z) = 0
      BY <1>4, <3>1, <3>3, <3>4, FS_Subset DEF NumOn
    <3>6. Z = {}
      BY <3>5, FS_EmptySet
    <3>7. {q \in DOMAIN items : items[q].type # "LD"} = {}
      BY <3>2, <3>3, <3>6
    <3> QED BY <3>7 DEF CardLocals
  <2> QED BY <2>1, <2>2
<1>10. \A x \in ReadLabels(d) : LabelItem(a, n + 1, d[x[1]].items[x[2]])
  BY LabelsGrow DEF Decked
<1>11. \A m \in CardLabels(items) : LabelItem(a, n + 1, new[m])
  BY <1>5, LabelsGrow DEF Decked
<1>12. ReadLocals(d) \union CardLocals(first, items) = Numbered(a, n)
  BY DEF Decked
<1>13. Cardinality(ReadLabels(d)) + Cardinality(CardLabels(items)) = Cardinality(Labelled(a, n))
  BY DEF Decked
<1>14. CASE IsNumbered(a, n + 1)
  <2>1. f # 0 /\ f \in Nat /\ f + N = Esdid(a, n + 1)
    <3>1. CASE first = 0
      <4>1. N = 0 /\ f = Esdid(a, n) + 1 /\ Esdid(a, n) \in Nat /\ f = Esdid(a, n + 1)
        BY <1>8, <1>14, <1>20, <3>1
      <4> QED BY <4>1
    <3>2. CASE first # 0
      <4>1. f = first /\ first \in Nat /\ first + N = Esdid(a, n) + 1 /\ Esdid(a, n + 1) = Esdid(a, n) + 1
        BY <1>8, <1>14, <1>20, <3>2
      <4> QED BY <3>2, <4>1
    <3> QED BY <3>1, <3>2
  <2>2. ReadLocals(d) \union CardLocals(f, new) = Numbered(a, n + 1)
    <3>1. CardLocals(f, new) = CardLocals(first, items) \union {<<Esdid(a, n + 1), EsdEntry(a, n + 1)>>}
      BY <1>1, <1>2, <1>5, <1>9, <1>14, <2>1
    <3>2. Numbered(a, n + 1) = Numbered(a, n) \union {<<Esdid(a, n + 1), EsdEntry(a, n + 1)>>}
      BY <1>14, NumberedStep
    <3> QED BY <1>12, <3>1, <3>2
  <2>3. Labelled(a, n + 1) = Labelled(a, n) /\ CardLabels(new) = CardLabels(items)
    BY <1>2, <1>5, <1>14, LabelsStep
  <2>4. f + NumOn(new, Len(new)) = Esdid(a, n + 1) + 1
    <3>1. NumOn(new, Len(new)) = N + 1
      BY <1>2, <1>5, <1>14
    <3>2. PICK g \in Nat, M \in Nat : g = f /\ M = N
      BY <1>5, <2>1
    <3>3. g + (M + 1) = (g + M) + 1
      OBVIOUS
    <3> QED BY <2>1, <3>1, <3>2, <3>3, Zenon
  <2>5. Decked(a, d, n + 1, f, new)
    BY <1>5, <1>6, <1>10, <1>11, <1>13, <2>1, <2>2, <2>3, <2>4 DEF Decked
  <2> QED BY <1>1, <2>5
<1>15. CASE ~IsNumbered(a, n + 1)
  <2>1. f = first /\ e.type = "LD"
    BY <1>2, <1>15
  <2>2. ReadLocals(d) \union CardLocals(f, new) = Numbered(a, n + 1)
    BY <1>5, <1>9, <1>12, <1>15, <2>1, NumberedStep
  <2>3. /\ Labelled(a, n + 1) = Labelled(a, n) \union {n + 1}
        /\ Cardinality(Labelled(a, n + 1)) = Cardinality(Labelled(a, n)) + 1
    BY <1>15, LabelsStep
  <2>4. Cardinality(ReadLabels(d)) + Cardinality(CardLabels(new)) = Cardinality(Labelled(a, n + 1))
    BY <1>5, <1>6, <1>13, <2>1, <2>3
  <2>5. LabelItem(a, n + 1, e)
    BY <1>1, <2>3 DEF LabelItem
  <2>6. \A m \in CardLabels(new) : LabelItem(a, n + 1, new[m])
    BY <1>5, <1>11, <2>1, <2>5
  <2>7. IF f = 0 THEN NumOn(new, Len(new)) = 0 ELSE f \in Nat /\ f + NumOn(new, Len(new)) = Esdid(a, n + 1) + 1
    BY <1>5, <1>8, <1>15, <1>20, <2>1
  <2>8. Decked(a, d, n + 1, f, new)
    BY <1>5, <1>6, <1>10, <2>2, <2>4, <2>6, <2>7 DEF Decked
  <2> QED BY <1>1, <2>8
<1> QED BY <1>14, <1>15

LEMMA DeckedOther ==
    ASSUME NEW a, NEW d, IsSeq(d), NEW n, NEW first, NEW items, Decked(a, d, n, first, items), NEW c, c.kind # "ESD"
    PROVE  Decked(a, Append(d, c), n, first, items)
<1>1. PICK d2 : d2 = Append(d, c)
  OBVIOUS
<1>2. Adding(d, c, d2, "ESD")
  BY <1>1, Added
<1>3. Cards(d2, "ESD") = Cards(d, "ESD") /\ \A x \in Cards(d, "ESD") : d2[x] = d[x]
  BY <1>2 DEF Adding
<1>4. ReadLocals(d2) = ReadLocals(d)
  BY <1>3 DEF ReadLocals
<1>5. ReadLabels(d2) = ReadLabels(d)
  BY <1>3 DEF ReadLabels
<1>6. \A x \in ReadLabels(d) : x[1] \in Cards(d, "ESD")
  BY DEF ReadLabels
<1>7. \A x \in ReadLabels(d2) : LabelItem(a, n, d2[x[1]].items[x[2]])
  BY <1>3, <1>5, <1>6 DEF Decked
<1>8. Decked(a, d2, n, first, items)
  BY <1>4, <1>5, <1>7 DEF Decked
<1> QED BY <1>1, <1>8

LEMMA DeckedFlush ==
    ASSUME NEW a, IsAssembly(a), NEW d, IsSeq(d), NEW n \in Nat, NEW first, NEW items, Decked(a, d, n, first, items),
           NEW c, c.kind = "ESD", c.first = first, c.items = items
    PROVE  Decked(a, Append(d, c), n, 0, << >>)
<1>1. PICK d2 : d2 = Append(d, c)
  OBVIOUS
<1>2. Adding(d, c, d2, "ESD")
  BY <1>1, Added
<1>3. PICK L \in Nat : L = Len(d) + 1
  BY <1>2 DEF Adding
<1>4. /\ Cards(d2, "ESD") = Cards(d, "ESD") \union {L} /\ \A x \in Cards(d, "ESD") : d2[x] = d[x]
      /\ L \notin Cards(d, "ESD") /\ d2[L] = c
  BY <1>2, <1>3 DEF Adding
<1>5. ReadLocals(d2) = ReadLocals(d) \union CardLocals(first, items)
  <2>1. ReadLocals(d) = UNION {CardLocals(d[x].first, d[x].items) : x \in Cards(d, "ESD")}
    BY Zenon DEF ReadLocals, CardLocals
  <2>2. ReadLocals(d2) = UNION {CardLocals(d2[x].first, d2[x].items) : x \in Cards(d2, "ESD")}
    BY Zenon DEF ReadLocals, CardLocals
  <2>3. {CardLocals(d2[x].first, d2[x].items) : x \in Cards(d2, "ESD")} =
        {CardLocals(d[x].first, d[x].items) : x \in Cards(d, "ESD")} \union {CardLocals(first, items)}
    BY <1>4
  <2> QED BY <2>1, <2>2, <2>3
<1>6. ReadLabels(d2) = ReadLabels(d) \union ({L} \X CardLabels(items))
  <2>1. ReadLabels(d) = UNION {{x} \X CardLabels(d[x].items) : x \in Cards(d, "ESD")}
    BY Zenon DEF ReadLabels, CardLabels
  <2>2. ReadLabels(d2) = UNION {{x} \X CardLabels(d2[x].items) : x \in Cards(d2, "ESD")}
    BY Zenon DEF ReadLabels, CardLabels
  <2>3. {{x} \X CardLabels(d2[x].items) : x \in Cards(d2, "ESD")} =
        {{x} \X CardLabels(d[x].items) : x \in Cards(d, "ESD")} \union {{L} \X CardLabels(items)}
    BY <1>4
  <2> QED BY <2>1, <2>2, <2>3
<1>7. \A x \in ReadLabels(d) : x[1] \in Cards(d, "ESD")
  BY DEF ReadLabels
<1> DEFINE A == ReadLabels(d)
           B == CardLabels(items)
           P == {L} \X B
<1>8. IsFiniteSet(A) /\ IsFiniteSet(B)
  <2>1. IsSeq(items)
    BY DEF Decked
  <2>2. IsFiniteSet(CardLabels(items))
    <3>1. PICK e, new, N : new = Append(items, e) /\ N = NumOn(items, Len(items))
      OBVIOUS
    <3>2. ItemAdded(items, e, new, first, N)
      BY <2>1, <3>1, ItemsStep
    <3> QED BY <3>2 DEF ItemAdded
  <2> QED BY <2>2 DEF Decked
<1>9. A \cap P = {}
  BY <1>4, <1>7
<1> HIDE DEF A, B
<1>10. IsFiniteSet({L}) /\ Cardinality({L}) = 1
  BY FS_Singleton
<1>11. Cardinality(A) \in Nat /\ Cardinality(B) \in Nat
  BY <1>8, FS_CardinalityType
<1>12. IsFiniteSet(P) /\ Cardinality(P) = Cardinality(B)
  <2>1. IsFiniteSet({L} \X B) /\ Cardinality({L} \X B) = Cardinality({L}) * Cardinality(B)
    BY <1>8, <1>10, FS_Product
  <2> QED BY <1>10, <1>11, <2>1
<1> HIDE DEF P
<1>13. IsFiniteSet(A \union P) /\ Cardinality(A \union P) = Cardinality(A) + Cardinality(B)
  <2>1. IsFiniteSet(A \union P) /\ Cardinality(A \union P) = Cardinality(A) + Cardinality(P) - Cardinality(A \cap P)
    BY <1>8, <1>12, FS_Union
  <2>2. Cardinality(A \cap P) = 0
    BY <1>9, FS_EmptySet
  <2> QED BY <1>11, <1>12, <2>1, <2>2
<1>14. IsFiniteSet(ReadLabels(d2)) /\ Cardinality(ReadLabels(d2)) = Cardinality(Labelled(a, n))
  <2>1. Cardinality(A) + Cardinality(B) = Cardinality(Labelled(a, n))
    BY DEF Decked, A, B
  <2>2. ReadLabels(d2) = A \union P
    BY <1>6 DEF A, B, P
  <2> QED BY <1>13, <2>1, <2>2
<1>15. \A x \in ReadLabels(d2) : LabelItem(a, n, d2[x[1]].items[x[2]])
  <2> SUFFICES ASSUME NEW x \in ReadLabels(d2) PROVE LabelItem(a, n, d2[x[1]].items[x[2]])
    OBVIOUS
  <2>1. CASE x \in ReadLabels(d)
    BY <1>4, <1>7, <2>1 DEF Decked
  <2>2. CASE x \in {L} \X CardLabels(items)
    <3>1. x[1] = L /\ x[2] \in CardLabels(items)
      BY <2>2
    <3> QED BY <1>4, <3>1 DEF Decked
  <2> QED BY <1>6, <2>1, <2>2
<1>16. ReadLocals(d2) \union {} = Numbered(a, n)
  BY <1>5 DEF Decked
<1>17. Cardinality(ReadLabels(d2)) + 0 = Cardinality(Labelled(a, n))
  BY <1>14, LabelsStep
<1>18. Decked(a, d2, n, 0, << >>)
  BY <1>14, <1>15, <1>16, <1>17, NoItems DEF Decked
<1> QED BY <1>1, <1>18

EsdInv ==
    /\ pc \in {"pass2", "early"} => Cards(deck, "ESD") = {}
    /\ pc = "esd" => k \in 1..(Len(asm.esd) + 1) /\ Decked(asm, deck, k - 1, EsdHeld.first, EsdHeld.items)
    /\ pc \in {"txt", "sort", "rld", "end", "done"} => Decked(asm, deck, Len(asm.esd), 0, << >>)

LEMMA EsdInit == Init => EsdInv
BY DEF Init, EsdInv, Cards

LEMMA NoEsdCard ==
    ASSUME NEW d, IsSeq(d), NEW c, c.kind # "ESD"
    PROVE  Cards(Append(d, c), "ESD") = Cards(d, "ESD")
<1>1. PICK d2 : d2 = Append(d, c)
  OBVIOUS
<1>2. Adding(d, c, d2, "ESD")
  BY <1>1, Added
<1> QED BY <1>1, <1>2 DEF Adding

LEMMA EsdFirst ==
    ASSUME TextInv, EsdInv, Section \/ Put \/ Repro \/ PassDone \/ PunchEarly \/ EarlyDone
    PROVE  EsdInv'
<1>1. CASE Section \/ Put \/ Repro \/ PassDone
  BY <1>1 DEF EsdInv, Section, Put, Repro, PassDone, At
<1>2. CASE PunchEarly
  <2>1. ReproCard(punches[k]).kind # "ESD" /\ IsSeq(deck)
    BY DEF ReproCard, TextInv, Base
  <2>2. Cards(Append(deck, ReproCard(punches[k])), "ESD") = Cards(deck, "ESD")
    BY <2>1, NoEsdCard
  <2> QED BY <1>2, <2>2 DEF EsdInv, PunchEarly
<1>3. CASE EarlyDone
  <2>1. IsAssembly(asm) /\ ~card.open /\ Cards(deck, "ESD") = {}
    BY <1>3 DEF TextInv, Base, EarlyDone, EsdInv
  <2>2. Decked(asm, deck, 0, 0, << >>) /\ 1 \in 1..(Len(asm.esd) + 1) /\ 1 - 1 = 0
    BY <2>1, DeckedNone, EsdidTyped
  <2>3. EsdHeld' = [open |-> TRUE, first |-> 0, items |-> << >>]
    BY <1>3, <2>1 DEF EsdHeld, EarlyDone
  <2> QED BY <1>3, <2>2, <2>3 DEF EsdInv, EarlyDone
<1> QED BY <1>1, <1>2, <1>3

LEMMA EsdEntStep == ASSUME TextInv, EsdInv, EsdEnt PROVE EsdInv'
<1>1. /\ pc = "esd" /\ pc' = "esd" /\ asm' = asm /\ deck' = deck /\ k' = k + 1 /\ k <= Len(asm.esd) /\ IsAssembly(asm)
  BY DEF EsdEnt, TextInv, Base
<1>2. /\ Len(asm.esd) \in Nat /\ k \in 1..(Len(asm.esd) + 1) /\ Decked(asm, deck, k - 1, EsdHeld.first, EsdHeld.items)
  BY <1>1, EsdidTyped DEF EsdInv
<1>3. PICK n \in Nat : n = k - 1 /\ n + 1 = k /\ n + 1 \in 1..Len(asm.esd)
  BY <1>1, <1>2
<1>4. k' \in 1..(Len(asm.esd) + 1) /\ k' - 1 = n + 1
  BY <1>1, <1>2, <1>3
<1>5. CASE Kept(asm, k)
  <2>1. card' = [open |-> TRUE, first |-> CardFirst(EsdHeld.first), items |-> Append(EsdHeld.items, EsdEntry(asm, k))]
    BY <1>5 DEF EsdEnt
  <2>2. EsdHeld' = card'
    BY <2>1 DEF EsdHeld
  <2>3. CardFirst(EsdHeld.first) = IF EsdHeld.first = 0 /\ IsNumbered(asm, n + 1) THEN Esdid(asm, n + 1) ELSE EsdHeld.first
    BY <1>3 DEF CardFirst
  <2>4. PICK f : f = CardFirst(EsdHeld.first)
    OBVIOUS
  <2>5. Decked(asm, deck, n, EsdHeld.first, EsdHeld.items) /\ Kept(asm, n + 1)
    BY <1>2, <1>3, <1>5
  <2>6. Decked(asm, deck, n + 1, f, Append(EsdHeld.items, EsdEntry(asm, n + 1)))
    BY <1>1, <1>3, <2>3, <2>4, <2>5, DeckedItem
  <2> QED BY <1>1, <1>3, <1>4, <2>1, <2>2, <2>4, <2>6 DEF EsdInv
<1>6. CASE ~Kept(asm, k)
  <2>1. card' = EsdHeld /\ EsdHeld.open
    BY <1>6 DEF EsdEnt, EsdHeld
  <2>2. EsdHeld' = EsdHeld
    BY <2>1 DEF EsdHeld
  <2>3. Decked(asm, deck, n + 1, EsdHeld.first, EsdHeld.items)
    BY <1>1, <1>2, <1>3, <1>6, DeckedDrop
  <2> QED BY <1>1, <1>4, <2>2, <2>3 DEF EsdInv
<1> QED BY <1>5, <1>6

LEMMA EsdFlushStep == ASSUME TextInv, EsdInv, EsdFlush PROVE EsdInv'
<1>1. /\ pc = "esd" /\ pc' = "esd" /\ asm' = asm /\ deck' = Append(deck, EsdCard) /\ k' = k /\ IsAssembly(asm)
      /\ card.open /\ card' = NoCard /\ IsSeq(deck)
  BY DEF EsdFlush, TextInv, Base
<1>2. /\ Len(asm.esd) \in Nat /\ k \in 1..(Len(asm.esd) + 1) /\ Decked(asm, deck, k - 1, card.first, card.items)
  BY <1>1, EsdidTyped DEF EsdInv, EsdHeld
<1>3. PICK n \in Nat : n = k - 1
  BY <1>1, <1>2
<1>4. PICK c : c = EsdCard
  OBVIOUS
<1>5. c.kind = "ESD" /\ c.first = card.first /\ c.items = card.items
  BY <1>4 DEF EsdCard
<1>6. Decked(asm, Append(deck, c), n, 0, << >>)
  BY <1>1, <1>2, <1>3, <1>5, DeckedFlush
<1>7. EsdHeld' = [open |-> TRUE, first |-> 0, items |-> << >>]
  BY <1>1 DEF EsdHeld, NoCard
<1> QED BY <1>1, <1>2, <1>3, <1>4, <1>6, <1>7 DEF EsdInv

LEMMA EsdDoneStep == ASSUME TextInv, EsdInv, EsdDone PROVE EsdInv'
<1>1. /\ pc = "esd" /\ pc' = "txt" /\ asm' = asm /\ deck' = deck /\ k > Len(asm.esd) /\ ~card.open /\ IsAssembly(asm)
  BY DEF EsdDone, TextInv, Base
<1>2. EsdHeld = [open |-> TRUE, first |-> 0, items |-> << >>]
  BY <1>1 DEF EsdHeld
<1>3. k \in 1..(Len(asm.esd) + 1) /\ Decked(asm, deck, k - 1, 0, << >>) /\ Len(asm.esd) \in Nat
  BY <1>1, <1>2, EsdidTyped DEF EsdInv
<1>4. k - 1 = Len(asm.esd)
  BY <1>1, <1>3
<1> QED BY <1>1, <1>3, <1>4 DEF EsdInv

LEMMA EsdLater ==
    ASSUME TextInv, EsdInv, pc \in {"txt", "sort", "rld", "end"}, Next
    PROVE  EsdInv'
<1> DEFINE endc == IF asm.entry = NoSym THEN [kind |-> "END", has |-> FALSE]
                   ELSE [kind |-> "END", has |-> TRUE, addr |-> asm.def[asm.entry].addr, id |-> EndEsdid(asm, asm.entry)]
<1>1. Decked(asm, deck, Len(asm.esd), 0, << >>) /\ IsSeq(deck)
  BY DEF EsdInv, TextInv, Base
<1>2. TxtPunch \/ TxtFlush \/ TxtTake \/ TxtDone \/ SortRelocations \/ RldEnt \/ RldFlush \/ RldDone \/ EndCard
  BY DEF Next, Section, Put, Repro, PassDone, At, PunchEarly, EarlyDone, EsdEnt, EsdFlush, EsdDone, Done
<1>3. /\ pc' \in {"txt", "sort", "rld", "end", "done"} /\ asm' = asm
      /\ \/ deck' = deck \/ deck' = Append(deck, TxtCard) \/ deck' = Append(deck, RldCard) \/ deck' = Append(deck, endc)
         \/ deck' = Append(Flushed, ReproCard(punches[Lowest(Due)]))
  BY <1>2 DEF TxtPunch, TxtFlush, Flushed, TxtTake, TxtDone, SortRelocations, RldEnt, RldFlush, RldDone, EndCard
<1>4. /\ TxtCard.kind # "ESD" /\ RldCard.kind # "ESD" /\ endc.kind # "ESD"
      /\ ReproCard(punches[Lowest(Due)]).kind # "ESD"
  BY DEF TxtCard, RldCard, ReproCard
<1> HIDE DEF endc
<1>5. /\ Decked(asm, Append(deck, TxtCard), Len(asm.esd), 0, << >>)
      /\ Decked(asm, Append(deck, RldCard), Len(asm.esd), 0, << >>)
      /\ Decked(asm, Append(deck, endc), Len(asm.esd), 0, << >>)
  BY <1>1, <1>4, DeckedOther
<1>6. Decked(asm, Flushed, Len(asm.esd), 0, << >>) /\ IsSeq(Flushed)
  BY <1>1, <1>5, Extended DEF Flushed
<1>7. Decked(asm, Append(Flushed, ReproCard(punches[Lowest(Due)])), Len(asm.esd), 0, << >>)
  BY <1>4, <1>6, DeckedOther
<1>8. Decked(asm, deck', Len(asm.esd), 0, << >>)
  BY <1>1, <1>3, <1>5, <1>7
<1> QED BY <1>3, <1>8 DEF EsdInv

LEMMA EsdStep == TextInv /\ EsdInv /\ [Next]_vars => EsdInv'
<1> SUFFICES ASSUME TextInv, EsdInv, [Next]_vars PROVE EsdInv'
  OBVIOUS
<1>1. ASSUME UNCHANGED vars PROVE EsdInv'
  BY <1>1 DEF vars, EsdInv, EsdHeld
<1>2. CASE Done
  BY <1>1, <1>2 DEF Done
<1>3. CASE Next /\ pc \in {"txt", "sort", "rld", "end"}
  BY <1>3, EsdLater
<1>4. CASE TxtPunch \/ TxtFlush \/ TxtTake \/ TxtDone \/ SortRelocations \/ RldEnt \/ RldFlush \/ RldDone \/ EndCard
  <2>1. pc \in {"txt", "sort", "rld", "end"}
    BY <1>4 DEF TxtPunch, TxtFlush, TxtTake, TxtDone, SortRelocations, RldEnt, RldFlush, RldDone, EndCard
  <2> QED BY <1>3, <1>4, <2>1 DEF Next
<1> QED BY <1>1, <1>2, <1>4, EsdFirst, EsdEntStep, EsdFlushStep, EsdDoneStep DEF Next

\* Which entry an ESDID stands for.
LEMMA EsdidPositive ==
    ASSUME NEW a, IsAssembly(a), NEW m \in Entries(a), IsNumbered(a, m)
    PROVE  Esdid(a, m) \in Nat \ {0}
<1>1. m \in Nat \ {0} /\ m - 1 \in Nat
  BY EsdidTyped
<1>2. Esdid(a, m) = Esdid(a, m - 1) + 1 /\ Esdid(a, m - 1) \in Nat
  BY <1>1, EsdidTyped
<1> QED BY <1>2

LEMMA SectKnown ==
    ASSUME NEW a, IsAssembly(a), NEW s, Declared(a, s, {"SECT", "CM"})
    PROVE  /\ \E m \in Entries(a) : /\ IsSect(a, m) /\ a.esd[m].sym = s /\ SymEsdid(a, s) = Esdid(a, m)
           /\ SymEsdid(a, s) # 0 /\ SectEsdidOf(a, s) = SymEsdid(a, s) /\ sect_esdid(a, s) = SymEsdid(a, s)
<1> DEFINE sects == {m \in EntriesOf(a, s) : IsSect(a, m)}
<1>1. PICK q \in Entries(a) : a.esd[q].sym = s /\ a.esd[q].role \in {"SECT", "CM"}
  BY DEF Declared, Entries
<1>2. q \in sects /\ IsSect(a, q)
  BY <1>1 DEF EntriesOf, IsSect, IsNumbered
<1>3. sects \subseteq Nat
  BY EsdidTyped DEF EntriesOf
<1>4. PICK m : m = Lowest(sects)
  OBVIOUS
<1>5. m \in sects
  <2> HIDE DEF sects
  <2> QED BY <1>2, <1>3, <1>4, LowestIs
<1>6. m \in Entries(a) /\ IsSect(a, m) /\ a.esd[m].sym = s /\ IsNumbered(a, m)
  BY <1>5 DEF EntriesOf
<1>7. SymEsdid(a, s) = Esdid(a, m)
  BY <1>2, <1>4 DEF SymEsdid
<1>8. SymEsdid(a, s) # 0
  BY <1>6, <1>7, EsdidPositive
<1>9. SectEsdidOf(a, s) = SymEsdid(a, s)
  BY <1>1, <1>2 DEF SectEsdidOf
<1>10. sect_esdid(a, s) = SymEsdid(a, s)
  BY <1>8, <1>9 DEF sect_esdid
<1> QED BY <1>6, <1>7, <1>8, <1>9, <1>10

\* An ESDID read from the deck, by the entry it was given to.
LEMMA EntryKnown ==
    ASSUME NEW a, IsAssembly(a), NEW d, Decked(a, d, Len(a.esd), 0, << >>), NEW m \in Entries(a), IsNumbered(a, m),
           NEW types, EsdEntry(a, m).type \in types
    PROVE  Known(d, Esdid(a, m), a.esd[m].sym, types)
<1>1. m \in 1..Len(a.esd)
  BY EsdidTyped
<1>2. ReadLocals(d) = Numbered(a, Len(a.esd))
  <2>1. ReadLocals(d) \union CardLocals(0, << >>) = Numbered(a, Len(a.esd))
    BY DEF Decked
  <2>2. CardLocals(0, << >>) = {}
    BY NoItems
  <2> QED BY <2>1, <2>2
<1>3. PICK p : p = <<Esdid(a, m), EsdEntry(a, m)>>
  OBVIOUS
<1>4. p \in ReadLocals(d)
  BY <1>1, <1>2, <1>3 DEF Numbered
<1>5. p[1] = Esdid(a, m) /\ p[2].name = a.esd[m].sym /\ p[2].type \in types
  BY <1>1, <1>3, EntryIs
<1> QED BY <1>4, <1>5 DEF Known

LEMMA SectRead ==
    ASSUME NEW a, IsAssembly(a), NEW d, Decked(a, d, Len(a.esd), 0, << >>), NEW s, Declared(a, s, {"SECT", "CM"})
    PROVE  /\ Known(d, SymEsdid(a, s), s, {"SD", "PC", "CM"})
           /\ Declared(a, s, {"SECT"}) => Known(d, SymEsdid(a, s), s, {"SD", "PC"})
<1>1. PICK m \in Entries(a) : IsSect(a, m) /\ a.esd[m].sym = s /\ SymEsdid(a, s) = Esdid(a, m)
  BY SectKnown
<1>2. m \in 1..Len(a.esd) /\ IsNumbered(a, m)
  BY <1>1, EsdidTyped DEF IsSect, IsNumbered
<1>3. EsdEntry(a, m).type \in {"SD", "PC", "CM"}
  BY <1>1, <1>2, EntryIs DEF IsSect
<1>4. Known(d, SymEsdid(a, s), s, {"SD", "PC", "CM"})
  BY <1>1, <1>2, <1>3, EntryKnown
<1>5. ASSUME Declared(a, s, {"SECT"}) PROVE Known(d, SymEsdid(a, s), s, {"SD", "PC"})
  <2>1. PICK q \in Entries(a) : a.esd[q].sym = s /\ a.esd[q].role = "SECT"
    BY <1>5 DEF Declared, Entries
  <2>2. EntrySound(a, a.esd[q]) /\ EntrySound(a, a.esd[m])
    BY EsdidTyped
  <2>3. a.def[s].kind \in {"SD", "PC"}
    BY <2>1, <2>2 DEF EntrySound
  <2>4. a.esd[m].role # "CM"
    BY <1>1, <2>2, <2>3 DEF EntrySound
  <2>5. EsdEntry(a, m).type \in {"SD", "PC"}
    BY <1>1, <1>2, <2>4, EntryIs DEF IsSect
  <2> QED BY <1>1, <1>2, <2>5, EntryKnown
<1> QED BY <1>4, <1>5

\* ld370 reads every external symbol under the ESDID as370 knows it by, and every
\* label with the section it lies in: however the entries fall on cards, and
\* whichever LDs are dropped or share a card with numbered entries.
THEOREM SymbolsAsAssembled == Spec => []SymbolsReadBack
<1>1. Init => TextInv /\ EsdInv
  BY TextInit, EsdInit
<1>2. TextInv /\ EsdInv /\ [Next]_vars => TextInv' /\ EsdInv'
  BY TextStep, EsdStep
<1>3. TextInv /\ EsdInv => SymbolsReadBack
  <2> SUFFICES ASSUME TextInv, EsdInv, pc = "done" PROVE SymbolsReadBack
    BY DEF SymbolsReadBack, Finished
  <2>1. IsAssembly(asm) /\ Decked(asm, deck, Len(asm.esd), 0, << >>)
    BY DEF TextInv, Base, EsdInv
  <2>2. Entries(asm) = 1..Len(asm.esd) /\ Len(asm.esd) \in Nat
    BY <2>1, EsdidTyped
  <2>3. CardLocals(0, << >>) = {} /\ Cardinality(CardLabels(<< >>)) = 0
    BY NoItems
  <2>4. ReadLocals(deck) = Numbered(asm, Len(asm.esd))
    BY <2>1, <2>3 DEF Decked
  <2>5. ReadLocals(deck) = {<<Esdid(asm, m), EsdEntry(asm, m)>> : m \in {q \in Entries(asm) : IsNumbered(asm, q)}}
    BY <2>2, <2>4 DEF Numbered
  <2>6. Cardinality(ReadLabels(deck)) = Cardinality({m \in Entries(asm) : ~IsNumbered(asm, m) /\ Kept(asm, m)})
    <3>1. Labelled(asm, Len(asm.esd)) = {m \in Entries(asm) : ~IsNumbered(asm, m) /\ Kept(asm, m)}
      BY <2>2 DEF Labelled
    <3>2. Cardinality(ReadLabels(deck)) + 0 = Cardinality(Labelled(asm, Len(asm.esd))) /\ IsFiniteSet(ReadLabels(deck))
      BY <2>1, <2>3 DEF Decked
    <3>3. Cardinality(ReadLabels(deck)) \in Nat
      BY <3>2, FS_CardinalityType
    <3> QED BY <3>1, <3>2, <3>3
  <2>7. ASSUME NEW x \in ReadLabels(deck), NEW l, l = deck[x[1]].items[x[2]]
        PROVE  /\ \A p \in ReadLocals(deck) : p[2].type \in {"SD", "PC"} => p[2].name # l.name
               /\ asm.def[l.name].kind = "label" => Known(deck, l.len, asm.def[l.name].sect, {"SD", "PC", "CM"})
    <3>1. LabelItem(asm, Len(asm.esd), l)
      BY <2>1, <2>7 DEF Decked
    <3>2. PICK m \in 1..Len(asm.esd) : ~IsNumbered(asm, m) /\ Kept(asm, m) /\ l = EsdEntry(asm, m)
      BY <3>1 DEF LabelItem, Labelled
    <3>3. asm.esd[m].role = "LD" /\ l.name = asm.esd[m].sym /\ l.len = sect_esdid(asm, asm.def[asm.esd[m].sym].sect)
      BY <2>1, <3>2, EntryIs DEF IsNumbered
    <3>4. ASSUME NEW p \in ReadLocals(deck), p[2].type \in {"SD", "PC"} PROVE p[2].name # l.name
      <4>1. PICK q \in Entries(asm) : p = <<Esdid(asm, q), EsdEntry(asm, q)>>
        BY <2>5, <3>4
      <4>2. p[2] = EsdEntry(asm, q)
        BY <4>1
      <4>3. asm.esd[q].role = "SECT" /\ p[2].name = asm.esd[q].sym
        BY <2>1, <2>2, <3>4, <4>2, EntryIs
      <4> QED BY <3>2, <3>3, <4>3 DEF Kept
    <3>5. ASSUME asm.def[l.name].kind = "label" PROVE Known(deck, l.len, asm.def[l.name].sect, {"SD", "PC", "CM"})
      <4>1. EntrySound(asm, asm.esd[m])
        BY <2>1, <2>2, EsdidTyped
      <4>2. PICK s : s = asm.def[l.name].sect
        OBVIOUS
      <4>3. Declared(asm, s, {"SECT", "CM"})
        BY <3>3, <3>5, <4>1, <4>2 DEF EntrySound
      <4>4. sect_esdid(asm, s) = SymEsdid(asm, s)
        BY <2>1, <4>3, SectKnown
      <4>5. Known(deck, SymEsdid(asm, s), s, {"SD", "PC", "CM"})
        BY <2>1, <4>3, SectRead
      <4> QED BY <3>3, <4>2, <4>4, <4>5
    <3> QED BY <3>4, <3>5
  <2>8. \A x \in ReadLabels(deck) :
              LET l == deck[x[1]].items[x[2]] IN
              /\ \A p \in ReadLocals(deck) : p[2].type \in {"SD", "PC"} => p[2].name # l.name
              /\ asm.def[l.name].kind = "label" => Known(deck, l.len, asm.def[l.name].sect, {"SD", "PC", "CM"})
    BY <2>7, Zenon
  <2> QED BY <2>5, <2>6, <2>8 DEF SymbolsReadBack
<1> QED BY <1>1, <1>2, <1>3, PTL DEF Spec

(***************************************************************************)
(* Which byte is read at an address.                                       *)
(***************************************************************************)

\* Statement m puts byte b of the storage as byte x of the log.
LEMMA SaysReach ==
    ASSUME NEW a, IsAssembly(a), NEW m, NEW x, NEW b, NEW id, Says(a, m, x, b, id)
    PROVE  Reaches(a, m, b) /\ x = BytesBefore(a, m) + 1 + b - a.stmts[m].at
<1>1. m \in Puts(a) /\ m \in 1..Len(a.stmts) /\ a.stmts[m].at \in Nat /\ a.stmts[m].n \in Nat
  BY StmtTyped DEF Says
<1>2. BytesBefore(a, m) \in Nat
  BY <1>1, BytesStep
<1>3. PICK at \in Nat, n \in Nat, p \in Nat : at = a.stmts[m].at /\ n = a.stmts[m].n /\ p = BytesBefore(a, m)
  BY <1>1, <1>2
<1>4. x \in Nat /\ p < x /\ x <= p + n /\ b = at + (x - p - 1)
  BY <1>3 DEF Says
<1>5. b \in at..(at + n - 1) /\ x = p + 1 + b - at
  BY <1>4
<1> QED BY <1>3, <1>5 DEF Reaches

LEMMA ReachSays ==
    ASSUME NEW a, IsAssembly(a), NEW m \in Puts(a), NEW b, Reaches(a, m, b)
    PROVE  /\ BytesBefore(a, m) + 1 + b - a.stmts[m].at \in 1..BytesBefore(a, Len(a.stmts) + 1)
           /\ Says(a, m, BytesBefore(a, m) + 1 + b - a.stmts[m].at, b, SymEsdid(a, a.stmts[m].sect))
<1>1. m \in 1..Len(a.stmts) /\ a.stmts[m].at \in Nat /\ a.stmts[m].n \in Nat /\ Len(a.stmts) \in Nat
  BY StmtTyped
<1>2. BytesBefore(a, m) \in Nat /\ BytesBefore(a, Len(a.stmts) + 1) \in Nat
  BY <1>1, BytesStep, BytesTyped
<1>3. BytesBefore(a, m) + Size(a, m) <= BytesBefore(a, Len(a.stmts) + 1) /\ Size(a, m) = a.stmts[m].n
  BY <1>1, BytesAscend DEF Size
<1>4. PICK at \in Nat, n \in Nat, p \in Nat, e \in Nat :
          at = a.stmts[m].at /\ n = a.stmts[m].n /\ p = BytesBefore(a, m) /\ e = BytesBefore(a, Len(a.stmts) + 1)
  BY <1>1, <1>2
<1>5. b \in at..(at + n - 1) /\ p + n <= e
  BY <1>3, <1>4 DEF Reaches
<1>6. PICK x : x = p + 1 + b - at
  OBVIOUS
<1>7. x \in 1..e /\ x \in Nat /\ p < x /\ x <= p + n /\ b = at + (x - p - 1)
  BY <1>5, <1>6
<1>8. Says(a, m, x, b, SymEsdid(a, a.stmts[m].sect))
  BY <1>4, <1>7 DEF Says
<1> QED BY <1>4, <1>6, <1>7, <1>8

\* A card over b carries there a byte that a statement put there.
LEMMA CardSays ==
    ASSUME NEW a, IsAssembly(a), NEW d, NEW n, Texted(a, d, n), NEW c \in Cards(d, "TXT"), NEW b, Covers(d, c, b)
    PROVE  \E x : /\ x = d[c].from + b - d[c].addr /\ x \in d[c].from..(d[c].from + d[c].n - 1)
                  /\ \E m \in Puts(a) : Says(a, m, x, b, d[c].id)
<1>1. CardText(a, d[c], n)
  BY DEF Texted
<1>2. PICK f \in Nat, w \in Nat, ad \in Nat : f = d[c].from /\ w = d[c].n /\ ad = d[c].addr
  BY <1>1 DEF CardText
<1>3. b \in ad..(ad + w - 1)
  BY <1>2 DEF Covers
<1>4. PICK x : x = f + b - ad
  OBVIOUS
<1>5. x \in f..(f + w - 1) /\ ad + (x - f) = b
  BY <1>3, <1>4
<1>6. Stated(a, x, ad + (x - f), d[c].id)
  BY <1>1, <1>2, <1>5 DEF CardText
<1>7. Stated(a, x, b, d[c].id)
  BY <1>5, <1>6
<1> QED BY <1>2, <1>4, <1>5, <1>7 DEF Stated

\* What a statement puts at b is on a card over b.
LEMMA PutCarried ==
    ASSUME NEW a, IsAssembly(a), NEW d, Texted(a, d, BytesBefore(a, Len(a.stmts) + 1)), NEW m \in Puts(a), NEW b,
           Reaches(a, m, b), NEW x, x = BytesBefore(a, m) + 1 + b - a.stmts[m].at
    PROVE  \E c \in Cards(d, "TXT") : Covers(d, c, b) /\ x \in d[c].from..(d[c].from + d[c].n - 1)
<1>1. x \in 1..BytesBefore(a, Len(a.stmts) + 1) /\ Says(a, m, x, b, SymEsdid(a, a.stmts[m].sect))
  BY ReachSays
<1>2. PICK c \in Cards(d, "TXT") : x \in d[c].from..(d[c].from + d[c].n - 1)
  BY <1>1 DEF Texted
<1>3. CardText(a, d[c], BytesBefore(a, Len(a.stmts) + 1))
  BY DEF Texted
<1>4. Stated(a, x, d[c].addr + (x - d[c].from), d[c].id)
  BY <1>2, <1>3 DEF CardText
<1>5. PICK l : Says(a, l, x, d[c].addr + (x - d[c].from), d[c].id)
  BY <1>4 DEF Stated
<1>6. b = d[c].addr + (x - d[c].from)
  <2>1. PICK y, i, j : y = d[c].addr + (x - d[c].from) /\ i = d[c].id /\ j = SymEsdid(a, a.stmts[m].sect)
    OBVIOUS
  <2>2. Says(a, l, x, y, i) /\ Says(a, m, x, b, j)
    BY <1>1, <1>5, <2>1
  <2>3. b = y
    BY <2>2, SaysOne
  <2> QED BY <2>1, <2>3
<1>7. PICK f \in Nat, w \in Nat, ad \in Nat : f = d[c].from /\ w = d[c].n /\ ad = d[c].addr
  BY <1>3 DEF CardText
<1>8. b \in ad..(ad + w - 1)
  <2>1. x \in f..(f + w - 1)
    BY <1>2, <1>7
  <2>2. b = ad + (x - f)
    BY <1>6, <1>7
  <2> QED BY <2>1, <2>2
<1> QED BY <1>2, <1>7, <1>8 DEF Covers

LEMMA LastPutIs ==
    ASSUME NEW a, IsAssembly(a), NEW q \in Puts(a), NEW b, Reaches(a, q, b)
    PROVE  /\ LastPut(a, b) \in Puts(a) /\ Reaches(a, LastPut(a, b), b)
           /\ \A y \in Puts(a) : Reaches(a, y, b) => y <= LastPut(a, b)
<1> DEFINE Y == {m \in Puts(a) : Reaches(a, m, b)}
<1>1. Len(a.stmts) \in Nat /\ Y \subseteq 0..Len(a.stmts) /\ Y # {}
  BY StmtTyped
<1>2. PICK m \in Y : \A z \in Y : z <= m
  <2> HIDE DEF Y
  <2> QED BY <1>1, GreatestNumber
<1>3. m \in Puts(a) /\ Reaches(a, m, b) /\ \A y \in Puts(a) : Reaches(a, y, b) => y <= m
  BY <1>2
<1> QED BY <1>3 DEF LastPut

LEMMA LastOverIs ==
    ASSUME NEW d, IsSeq(d), NEW q \in Cards(d, "TXT"), NEW b, Covers(d, q, b)
    PROVE  /\ LastOver(d, b) \in Cards(d, "TXT") /\ Covers(d, LastOver(d, b), b)
           /\ \A y \in Cards(d, "TXT") : Covers(d, y, b) => y <= LastOver(d, b)
<1> DEFINE Y == {c \in Cards(d, "TXT") : Covers(d, c, b)}
<1>1. Len(d) \in Nat /\ Y \subseteq 0..Len(d) /\ Y # {}
  <2>1. DOMAIN d = 1..Len(d) /\ Len(d) \in Nat
    BY Extended
  <2> QED BY <2>1 DEF Cards
<1>2. PICK m \in Y : \A z \in Y : z <= m
  <2> HIDE DEF Y
  <2> QED BY <1>1, GreatestNumber
<1>3. m \in Cards(d, "TXT") /\ Covers(d, m, b) /\ \A y \in Cards(d, "TXT") : Covers(d, y, b) => y <= m
  BY <1>2
<1> QED BY <1>3 DEF LastOver

\* The last card over b carries what the last statement that reaches b put there.
LEMMA LastAgree ==
    ASSUME NEW a, IsAssembly(a), NEW d, IsSeq(d), Texted(a, d, BytesBefore(a, Len(a.stmts) + 1)), NEW b,
           NEW q \in Cards(d, "TXT"), Covers(d, q, b), NEW c, c = LastOver(d, b), NEW m, m = LastPut(a, b)
    PROVE  /\ d[c].from + b - d[c].addr = BytesBefore(a, m) + 1 + b - a.stmts[m].at
           /\ d[c].id = SymEsdid(a, a.stmts[m].sect) /\ m \in Puts(a)
<1>1. c \in Cards(d, "TXT") /\ Covers(d, c, b) /\ \A y \in Cards(d, "TXT") : Covers(d, y, b) => y <= c
  BY LastOverIs
<1>2. PICK x : /\ x = d[c].from + b - d[c].addr /\ x \in d[c].from..(d[c].from + d[c].n - 1)
               /\ \E l \in Puts(a) : Says(a, l, x, b, d[c].id)
  BY <1>1, CardSays
<1>3. PICK l \in Puts(a) : Says(a, l, x, b, d[c].id)
  BY <1>2
<1>4. Reaches(a, l, b) /\ x = BytesBefore(a, l) + 1 + b - a.stmts[l].at
  BY <1>3, SaysReach
<1>5. m \in Puts(a) /\ Reaches(a, m, b) /\ l <= m
  BY <1>4, LastPutIs
<1>6. PICK y : y = BytesBefore(a, m) + 1 + b - a.stmts[m].at
  OBVIOUS
<1>7. PICK e \in Cards(d, "TXT") : Covers(d, e, b) /\ y \in d[e].from..(d[e].from + d[e].n - 1)
  BY <1>5, <1>6, PutCarried
<1>8. e <= c
  BY <1>1, <1>7
<1>9. Says(a, m, y, b, SymEsdid(a, a.stmts[m].sect))
  BY <1>5, <1>6, ReachSays
<1>10. /\ l \in 1..Len(a.stmts) /\ m \in 1..Len(a.stmts) /\ Len(a.stmts) \in Nat /\ a.stmts[l].n \in Nat
       /\ Size(a, l) = a.stmts[l].n
  BY <1>5, StmtTyped DEF Size
<1>11. BytesBefore(a, l) \in Nat /\ BytesBefore(a, m) \in Nat
  BY <1>10, BytesStep
<1>12. l < m => x < y
  <2> SUFFICES ASSUME l < m PROVE x < y
    OBVIOUS
  <2>1. BytesBefore(a, l) + Size(a, l) <= BytesBefore(a, m)
    BY <1>10, BytesAscend
  <2>2. x \in Nat /\ x <= BytesBefore(a, l) + a.stmts[l].n
    BY <1>3 DEF Says
  <2>3. y \in Nat /\ BytesBefore(a, m) < y
    BY <1>9 DEF Says
  <2> QED BY <1>10, <1>11, <2>1, <2>2, <2>3
<1>13. ~(x < y)
  <2> SUFFICES ASSUME x < y PROVE FALSE
    OBVIOUS
  <2>1. CardText(a, d[c], BytesBefore(a, Len(a.stmts) + 1)) /\ CardText(a, d[e], BytesBefore(a, Len(a.stmts) + 1))
    BY <1>1, <1>7 DEF Texted
  <2>2. PICK f \in Nat, w \in Nat, g \in Nat, v \in Nat : f = d[c].from /\ w = d[c].n /\ g = d[e].from /\ v = d[e].n
    BY <2>1 DEF CardText
  <2>3. CASE e = c
    <3>1. PICK ad \in Nat : ad = d[c].addr
      BY <2>1 DEF CardText
    <3>2. /\ \E z : /\ z = d[e].from + b - d[e].addr /\ z \in d[e].from..(d[e].from + d[e].n - 1)
                    /\ \E h \in Puts(a) : Says(a, h, z, b, d[e].id)
      BY <1>7, CardSays
    <3>3. Stated(a, y, d[c].addr + (y - d[c].from), d[c].id)
      BY <1>7, <2>1, <2>3 DEF CardText
    <3>4. PICK h : Says(a, h, y, d[c].addr + (y - d[c].from), d[c].id)
      BY <3>3 DEF Stated
    <3>5. b = d[c].addr + (y - d[c].from)
      <4>1. PICK z, i, j : z = d[c].addr + (y - d[c].from) /\ i = d[c].id /\ j = SymEsdid(a, a.stmts[m].sect)
        OBVIOUS
      <4>2. Says(a, h, y, z, i) /\ Says(a, m, y, b, j)
        BY <1>9, <3>4, <4>1
      <4>3. b = z
        BY <4>2, SaysOne
      <4> QED BY <4>1, <4>3
    <3>6. y \in Nat /\ b = ad + (y - f) /\ x = f + b - ad
      BY <1>2, <1>9, <2>2, <3>1, <3>5 DEF Says
    <3>7. x = y
      BY <3>6
    <3> QED BY <3>6, <3>7
  <2>4. CASE e < c
    <3>1. d[e].from + d[e].n <= d[c].from
      BY <1>1, <1>7, <2>4 DEF Texted
    <3> QED BY <1>2, <1>7, <2>2, <3>1
  <2>5. e \in Nat /\ c \in Nat
    <3>1. DOMAIN d = 1..Len(d) /\ Len(d) \in Nat
      BY Extended
    <3> QED BY <1>1, <3>1 DEF Cards
  <2> QED BY <1>8, <2>3, <2>4, <2>5
<1>14. l = m
  BY <1>5, <1>10, <1>12, <1>13
<1>15. x = y
  BY <1>4, <1>6, <1>14
<1>16. d[c].id = SymEsdid(a, a.stmts[m].sect)
  BY <1>3, <1>14 DEF Says
<1> QED BY <1>2, <1>5, <1>6, <1>15, <1>16

\* ld370 reads every byte as the last statement that wrote it left it, under the
\* ESDID of that statement's section: through the merging of put, the log's
\* overlays, full cards, section changes and REPRO cards that break the text.
THEOREM TextAsAssembled == Spec => []TextReadBack
<1>1. Init => TextInv /\ EsdInv
  BY TextInit, EsdInit
<1>2. TextInv /\ EsdInv /\ [Next]_vars => TextInv' /\ EsdInv'
  BY TextStep, EsdStep
<1>3. TextInv /\ EsdInv => TextReadBack
  <2> SUFFICES ASSUME TextInv, EsdInv, pc = "done" PROVE TextReadBack
    BY DEF TextReadBack, Finished
  <2>1. IsAssembly(asm) /\ IsSeq(deck) /\ Decked(asm, deck, Len(asm.esd), 0, << >>)
    BY DEF TextInv, Base, EsdInv
  <2>2. Texted(asm, deck, BytesBefore(asm, Len(asm.stmts) + 1))
    BY DEF TextInv, Logged
  <2>3. DOMAIN ReadText(deck) = UNION {deck[c].addr..(deck[c].addr + deck[c].n - 1) : c \in Cards(deck, "TXT")}
    BY DEF ReadText
  <2>4. \A b : b \in DOMAIN ReadText(deck) <=> \E c \in Cards(deck, "TXT") : Covers(deck, c, b)
    BY <2>3 DEF Covers
  <2>5. \A b : b \in UNION {asm.stmts[m].at..(asm.stmts[m].at + asm.stmts[m].n - 1) : m \in Puts(asm)}
               <=> \E m \in Puts(asm) : Reaches(asm, m, b)
    BY DEF Reaches
  <2>6. ASSUME NEW b, NEW c \in Cards(deck, "TXT"), Covers(deck, c, b) PROVE \E m \in Puts(asm) : Reaches(asm, m, b)
    <3>1. PICK x : \E m \in Puts(asm) : Says(asm, m, x, b, deck[c].id)
      BY <2>1, <2>2, <2>6, CardSays
    <3> QED BY <2>1, <3>1, SaysReach
  <2>7. ASSUME NEW b, NEW m \in Puts(asm), Reaches(asm, m, b) PROVE \E c \in Cards(deck, "TXT") : Covers(deck, c, b)
    BY <2>1, <2>2, <2>7, PutCarried
  <2>8. DOMAIN ReadText(deck) = UNION {asm.stmts[m].at..(asm.stmts[m].at + asm.stmts[m].n - 1) : m \in Puts(asm)}
    BY <2>4, <2>5, <2>6, <2>7
  <2>9. ASSUME NEW b \in DOMAIN ReadText(deck), NEW m, m = LastPut(asm, b)
        PROVE  /\ ReadText(deck)[b][1] = BytesBefore(asm, m) + 1 + b - asm.stmts[m].at
               /\ Known(deck, ReadText(deck)[b][2], asm.stmts[m].sect, {"SD", "PC"})
    <3>1. PICK q \in Cards(deck, "TXT") : Covers(deck, q, b)
      BY <2>4
    <3>2. PICK c : c = LastOver(deck, b)
      OBVIOUS
    <3>3. /\ deck[c].from + b - deck[c].addr = BytesBefore(asm, m) + 1 + b - asm.stmts[m].at
          /\ deck[c].id = SymEsdid(asm, asm.stmts[m].sect) /\ m \in Puts(asm)
      BY <2>1, <2>2, <2>9, <3>1, <3>2, LastAgree
    <3>4. ReadText(deck)[b] = <<deck[c].from + b - deck[c].addr, deck[c].id>>
      BY <2>3, <3>2 DEF ReadText
    <3>5. ReadText(deck)[b][1] = deck[c].from + b - deck[c].addr /\ ReadText(deck)[b][2] = deck[c].id
      BY <3>4
    <3>6. Declared(asm, asm.stmts[m].sect, {"SECT"})
      BY <2>1, <3>3 DEF IsAssembly, Puts
    <3>7. Declared(asm, asm.stmts[m].sect, {"SECT", "CM"})
      BY <3>6 DEF Declared
    <3>8. Known(deck, SymEsdid(asm, asm.stmts[m].sect), asm.stmts[m].sect, {"SD", "PC"})
      BY <2>1, <3>6, <3>7, SectRead
    <3> QED BY <3>3, <3>5, <3>8
  <2>10. \A b \in DOMAIN ReadText(deck) :
              LET m == LastPut(asm, b)
              IN /\ ReadText(deck)[b][1] = BytesBefore(asm, m) + 1 + b - asm.stmts[m].at
                 /\ Known(deck, ReadText(deck)[b][2], asm.stmts[m].sect, {"SD", "PC"})
    BY <2>9, Zenon
  <2> QED BY <2>8, <2>10 DEF TextReadBack
<1> QED BY <1>1, <1>2, <1>3, PTL DEF Spec

(***************************************************************************)
(* The relocations of pass 2, and their order.                             *)
(***************************************************************************)
Adcons(a) == {m \in Puts(a) : a.stmts[m].target # NoSym}
Rel == [pos : Nat, rel : Nat, addr : Nat, by : Nat]
\* What add_reloc notes down for statement m.
RelOf(a, m) == [pos |-> SymEsdid(a, a.stmts[m].sect),
                rel |-> RelEsdid(a, a.stmts[m].target, a.stmts[m].isV, a.stmts[m].sect),
                addr |-> a.stmts[m].at, by |-> m]

LEMMA RelEsdidTyped ==
    ASSUME NEW a, IsAssembly(a), NEW s, NEW isV, NEW cur
    PROVE  RelEsdid(a, s, isV, cur) \in Nat
<1> DEFINE ers == {m \in EntriesOf(a, s) : a.esd[m].role = "ER"}
           own == SectEsdidOf(a, a.def[s].sect)
<1>1. ers \subseteq Nat
  BY EsdidTyped DEF EntriesOf
<1>2. ers # {} => Lowest(ers) \in Nat
  <2> HIDE DEF ers
  <2> QED BY <1>1, LowestIs
<1>3. ers # {} => Esdid(a, Lowest(ers)) \in Nat
  BY <1>2, EsdidTyped
<1>4. own \in Nat /\ SymEsdid(a, s) \in Nat /\ SymEsdid(a, cur) \in Nat
  BY SymEsdidTyped DEF SectEsdidOf
<1>5. RelEsdid(a, s, isV, cur) \in {Esdid(a, Lowest(ers)), own, SymEsdid(a, s), SymEsdid(a, cur)}
      /\ (ers = {} => RelEsdid(a, s, isV, cur) \in {own, SymEsdid(a, s), SymEsdid(a, cur)})
  BY DEF RelEsdid
<1> HIDE DEF ers, own
<1> QED BY <1>3, <1>4, <1>5

LEMMA RelOfTyped ==
    ASSUME NEW a, IsAssembly(a), NEW m \in Puts(a)
    PROVE  RelOf(a, m) \in Rel /\ RelOf(a, m).by = m
<1>1. m \in Nat /\ a.stmts[m].at \in Nat
  BY StmtTyped
<1>2. SymEsdid(a, a.stmts[m].sect) \in Nat
      /\ RelEsdid(a, a.stmts[m].target, a.stmts[m].isV, a.stmts[m].sect) \in Nat
  BY SymEsdidTyped, RelEsdidTyped
<1> QED BY <1>1, <1>2 DEF RelOf, Rel

\* rs are the relocations of the statements before K, each once.
Relocs(a, rs, K) ==
    /\ rs \in Seq(Rel) /\ K \in 1..(Len(a.stmts) + 1)
    /\ \A x \in 1..Len(rs) : rs[x].by \in Adcons(a) /\ rs[x].by < K /\ rs[x] = RelOf(a, rs[x].by)
    /\ \A m \in Adcons(a) : m < K => \E x \in 1..Len(rs) : rs[x].by = m
InOrder(rs) == \A x, y \in 1..Len(rs) : x < y => rs[x].by < rs[y].by

LEMMA RelocsSkip ==
    ASSUME NEW a, IsAssembly(a), NEW rs, NEW K, Relocs(a, rs, K), K \in 1..Len(a.stmts), K \notin Adcons(a)
    PROVE  Relocs(a, rs, K + 1)
<1>1. Len(a.stmts) \in Nat /\ K + 1 \in 1..(Len(a.stmts) + 1) /\ Adcons(a) \subseteq 1..Len(a.stmts)
  BY StmtTyped DEF Adcons
<1>2. \A x \in 1..Len(rs) : rs[x].by \in Adcons(a) /\ rs[x].by < K + 1
  BY <1>1 DEF Relocs
<1>3. \A m \in Adcons(a) : m < K + 1 => m < K
  BY <1>1
<1> QED BY <1>1, <1>2, <1>3 DEF Relocs

LEMMA RelocsMore ==
    ASSUME NEW a, IsAssembly(a), NEW rs, NEW K, Relocs(a, rs, K), InOrder(rs), K \in 1..Len(a.stmts), K \in Adcons(a),
           NEW r, r = RelOf(a, K)
    PROVE  Relocs(a, Append(rs, r), K + 1) /\ InOrder(Append(rs, r))
<1>1. Len(a.stmts) \in Nat /\ K + 1 \in 1..(Len(a.stmts) + 1) /\ Adcons(a) \subseteq 1..Len(a.stmts) /\ K \in Nat
  BY StmtTyped DEF Adcons
<1>2. r \in Rel /\ r.by = K
  BY RelOfTyped DEF Adcons
<1>3. PICK ss : ss = Append(rs, r)
  OBVIOUS
<1>4. /\ ss \in Seq(Rel) /\ Len(rs) \in Nat /\ Len(ss) = Len(rs) + 1 /\ ss[Len(rs) + 1] = r
      /\ \A x \in 1..Len(rs) : ss[x] = rs[x]
  BY <1>2, <1>3 DEF Relocs
<1>5. \A x \in 1..Len(ss) : x \in 1..Len(rs) \/ x = Len(rs) + 1
  BY <1>4
<1>6. ASSUME NEW x \in 1..Len(ss) PROVE ss[x].by \in Adcons(a) /\ ss[x].by < K + 1 /\ ss[x] = RelOf(a, ss[x].by)
  <2>1. CASE x \in 1..Len(rs)
    <3>1. ss[x] = rs[x] /\ rs[x].by \in Adcons(a) /\ rs[x].by < K /\ rs[x] = RelOf(a, rs[x].by)
      BY <1>4, <2>1 DEF Relocs
    <3>2. ss[x].by < K + 1
      BY <1>1, <3>1
    <3> QED BY <3>1, <3>2
  <2>2. CASE x = Len(rs) + 1
    BY <1>1, <1>2, <1>4, <2>2
  <2> QED BY <1>5, <2>1, <2>2
<1>7. ASSUME NEW m \in Adcons(a), m < K + 1 PROVE \E x \in 1..Len(ss) : ss[x].by = m
  <2>1. CASE m = K
    <3>1. Len(rs) + 1 \in 1..Len(ss)
      BY <1>4
    <3> QED BY <1>2, <1>4, <2>1, <3>1
  <2>2. CASE m < K
    <3>1. PICK x \in 1..Len(rs) : rs[x].by = m
      BY <2>2 DEF Relocs
    <3>2. x \in 1..Len(ss)
      BY <1>4
    <3> QED BY <1>4, <3>1, <3>2
  <2> QED BY <1>1, <1>7, <2>1, <2>2
<1>8. Relocs(a, ss, K + 1)
  BY <1>1, <1>4, <1>6, <1>7 DEF Relocs
<1>9. ASSUME NEW x \in 1..Len(ss), NEW y \in 1..Len(ss), x < y PROVE ss[x].by < ss[y].by
  <2>1. x \in 1..Len(rs)
    BY <1>4, <1>9
  <2>2. CASE y \in 1..Len(rs)
    BY <1>4, <1>9, <2>1, <2>2 DEF InOrder
  <2>3. CASE y = Len(rs) + 1
    BY <1>2, <1>4, <2>1, <2>3 DEF Relocs
  <2> QED BY <1>5, <2>2, <2>3
<1>10. InOrder(ss)
  BY <1>9 DEF InOrder
<1> QED BY <1>3, <1>8, <1>10

\* Before orders the relocations by three numbers, and Ahead their places.
LEMMA BeforeOrder ==
    ASSUME NEW p \in Rel, NEW q \in Rel, NEW r \in Rel
    PROVE  /\ ~Before(p, p)
           /\ Before(p, q) => ~Before(q, p)
           /\ Before(p, q) /\ Before(q, r) => Before(p, r)
           /\ ~Before(p, q) /\ ~Before(q, r) => ~Before(p, r)
<1>1. /\ p.pos \in Nat /\ p.rel \in Nat /\ p.addr \in Nat /\ q.pos \in Nat /\ q.rel \in Nat /\ q.addr \in Nat
      /\ r.pos \in Nat /\ r.rel \in Nat /\ r.addr \in Nat
  BY DEF Rel
<1> QED BY <1>1 DEF Before

LEMMA AheadOrder ==
    ASSUME NEW rs \in Seq(Rel), NEW m \in 1..Len(rs), NEW n \in 1..Len(rs), NEW x \in 1..Len(rs)
    PROVE  /\ ~Ahead(rs, m, m)
           /\ m # n => Ahead(rs, m, n) \/ Ahead(rs, n, m)
           /\ Ahead(rs, m, n) => ~Ahead(rs, n, m)
           /\ Ahead(rs, x, m) /\ Ahead(rs, m, n) => Ahead(rs, x, n)
<1>1. PICK p \in Rel, q \in Rel, r \in Rel : p = rs[x] /\ q = rs[m] /\ r = rs[n]
  OBVIOUS
<1>2. /\ ~Before(q, q) /\ (Before(q, r) => ~Before(r, q))
  BY BeforeOrder
<1>3. /\ (Before(p, q) /\ Before(q, r) => Before(p, r))
      /\ (~Before(r, q) /\ ~Before(q, p) => ~Before(r, p))
      /\ (~Before(p, r) /\ ~Before(r, q) => ~Before(p, q))
      /\ (~Before(q, p) /\ ~Before(p, r) => ~Before(q, r))
  BY BeforeOrder
<1>4. m \in Nat /\ n \in Nat /\ x \in Nat
  OBVIOUS
<1>5. ~Ahead(rs, m, m)
  BY <1>1, <1>2, <1>4 DEF Ahead
<1>6. m # n => Ahead(rs, m, n) \/ Ahead(rs, n, m)
  BY <1>1, <1>2, <1>4 DEF Ahead
<1>7. Ahead(rs, m, n) => ~Ahead(rs, n, m)
  BY <1>1, <1>2, <1>4 DEF Ahead
<1>8. Ahead(rs, x, m) /\ Ahead(rs, m, n) => Ahead(rs, x, n)
  BY <1>1, <1>3, <1>4 DEF Ahead
<1> QED BY <1>5, <1>6, <1>7, <1>8

AheadOf(rs, n) == {m \in DOMAIN rs : Ahead(rs, m, n)}

LEMMA UpToCount ==
    ASSUME NEW n \in Nat
    PROVE  IsFiniteSet(1..n) /\ Cardinality(1..n) = n
<1>1. IsFiniteSet(1..n) /\ Cardinality(1..n) = IF 1 > n THEN 0 ELSE n - 1 + 1
  BY FS_Interval
<1> QED BY <1>1

LEMMA RankTyped ==
    ASSUME NEW rs \in Seq(Rel), NEW n \in 1..Len(rs)
    PROVE  /\ IsFiniteSet(AheadOf(rs, n)) /\ AheadOf(rs, n) \subseteq 1..Len(rs) /\ n \notin AheadOf(rs, n)
           /\ Rank(rs, n) = Cardinality(AheadOf(rs, n)) + 1 /\ Rank(rs, n) \in 1..Len(rs)
           /\ Cardinality(AheadOf(rs, n)) \in Nat
<1>1. Len(rs) \in Nat /\ DOMAIN rs = 1..Len(rs)
  OBVIOUS
<1>2. IsFiniteSet(1..Len(rs)) /\ Cardinality(1..Len(rs)) = Len(rs)
  BY <1>1, UpToCount
<1>3. AheadOf(rs, n) \subseteq 1..Len(rs) /\ n \notin AheadOf(rs, n)
  BY <1>1, AheadOrder DEF AheadOf
<1>4. IsFiniteSet(AheadOf(rs, n))
  BY <1>2, <1>3, FS_Subset
<1>5. Cardinality(AheadOf(rs, n)) \in Nat /\ Cardinality(AheadOf(rs, n) \union {n}) = Cardinality(AheadOf(rs, n)) + 1
  BY <1>3, <1>4, FS_CardinalityType, FS_AddElement
<1>6. AheadOf(rs, n) \union {n} \subseteq 1..Len(rs)
  BY <1>3
<1>7. Cardinality(AheadOf(rs, n) \union {n}) <= Len(rs)
  BY <1>2, <1>6, FS_Subset
<1>8. Rank(rs, n) = Cardinality(AheadOf(rs, n)) + 1
  BY DEF Rank, AheadOf
<1> QED BY <1>1, <1>3, <1>4, <1>5, <1>7, <1>8

LEMMA RanksApart ==
    ASSUME NEW rs \in Seq(Rel), NEW m \in 1..Len(rs), NEW n \in 1..Len(rs), Ahead(rs, m, n)
    PROVE  Rank(rs, m) < Rank(rs, n)
<1>1. AheadOf(rs, m) \subseteq AheadOf(rs, n) /\ m \in AheadOf(rs, n) /\ m \notin AheadOf(rs, m)
  <2>1. DOMAIN rs = 1..Len(rs)
    OBVIOUS
  <2>2. \A x \in 1..Len(rs) : Ahead(rs, x, m) => Ahead(rs, x, n)
    BY AheadOrder
  <2> QED BY <2>1, <2>2, RankTyped DEF AheadOf
<1>2. PICK A, B : A = AheadOf(rs, m) /\ B = AheadOf(rs, n)
  OBVIOUS
<1>3. /\ IsFiniteSet(A) /\ IsFiniteSet(B) /\ Rank(rs, m) = Cardinality(A) + 1 /\ Rank(rs, n) = Cardinality(B) + 1
      /\ Cardinality(A) \in Nat /\ Cardinality(B) \in Nat
  BY <1>2, RankTyped
<1>4. Cardinality(A) <= Cardinality(B) /\ (Cardinality(B) = Cardinality(A) => B = A)
  BY <1>1, <1>2, <1>3, FS_Subset
<1> QED BY <1>1, <1>2, <1>3, <1>4

LEMMA EveryRank ==
    ASSUME NEW rs \in Seq(Rel), NEW q \in 1..Len(rs)
    PROVE  \E m \in 1..Len(rs) : Rank(rs, m) = q
<1> DEFINE D == 1..Len(rs)
           f == [m \in D |-> Rank(rs, m)]
<1>1. f \in [D -> D]
  BY RankTyped
<1>2. \A m, n \in D : m # n => Rank(rs, m) # Rank(rs, n)
  <2> SUFFICES ASSUME NEW m \in D, NEW n \in D, m # n PROVE Rank(rs, m) # Rank(rs, n)
    OBVIOUS
  <2>1. Rank(rs, m) \in Nat /\ Rank(rs, n) \in Nat
    <3>1. m \in 1..Len(rs) /\ n \in 1..Len(rs)
      OBVIOUS
    <3>2. Rank(rs, m) \in 1..Len(rs) /\ Rank(rs, n) \in 1..Len(rs)
      BY <3>1, RankTyped, Zenon
    <3> QED BY <3>2
  <2>2. Ahead(rs, m, n) => Rank(rs, m) < Rank(rs, n)
    BY RanksApart
  <2>3. Ahead(rs, n, m) => Rank(rs, n) < Rank(rs, m)
    BY RanksApart
  <2>4. Ahead(rs, m, n) \/ Ahead(rs, n, m)
    BY AheadOrder
  <2> QED BY <2>1, <2>2, <2>3, <2>4
<1>3. f \in Injection(D, D)
  BY <1>1, <1>2 DEF Injection, IsInjective
<1>4. f \in Surjection(D, D)
  <2>1. IsFiniteSet(D)
    BY UpToCount
  <2> HIDE DEF f, D
  <2> QED BY <1>3, <2>1, FS_Injection
<1> QED BY <1>4 DEF Surjection

\* ss lists the same relocations, each ahead of the later ones.
Precedes(p, q) == Before(p, q) \/ (~Before(q, p) /\ p.by < q.by)
Resorted(rs, ss) ==
    /\ ss \in Seq(Rel) /\ Len(ss) = Len(rs)
    /\ \A x \in 1..Len(rs) : \E m \in 1..Len(rs) : ss[x] = rs[m]
    /\ \A m \in 1..Len(rs) : \E x \in 1..Len(rs) : ss[x] = rs[m]
    /\ \A x, y \in 1..Len(ss) : x < y => Precedes(ss[x], ss[y])

LEMMA SortedIs ==
    ASSUME NEW rs \in Seq(Rel), InOrder(rs)
    PROVE  Resorted(rs, Sorted(rs))
<1>1. Len(rs) \in Nat /\ DOMAIN rs = 1..Len(rs)
  OBVIOUS
<1> DEFINE D == 1..Len(rs)
           g == [x \in D |-> CHOOSE m \in D : Rank(rs, m) = x]
<1>2. \A x \in D : g[x] \in D /\ Rank(rs, g[x]) = x
  <2> SUFFICES ASSUME NEW x \in D PROVE g[x] \in D /\ Rank(rs, g[x]) = x
    OBVIOUS
  <2>1. \E m \in D : Rank(rs, m) = x
    BY EveryRank
  <2>2. g[x] = CHOOSE m \in D : Rank(rs, m) = x
    OBVIOUS
  <2> QED BY <2>1, <2>2
<1>3. PICK ss : ss = Sorted(rs)
  OBVIOUS
<1>4. ss = [x \in D |-> rs[g[x]]]
  BY <1>1, <1>3 DEF Sorted
<1> HIDE DEF g
<1>5. \A x \in D : ss[x] = rs[g[x]] /\ rs[g[x]] \in Rel
  BY <1>2, <1>4
<1>6. ss \in [1..Len(rs) -> Rel]
  BY <1>4, <1>5
<1>7. ss \in Seq(Rel) /\ Len(ss) = Len(rs)
  BY <1>1, <1>6
<1>8. ASSUME NEW m \in D PROVE \E x \in D : ss[x] = rs[m]
  <2>1. PICK x \in D : x = Rank(rs, m)
    BY RankTyped
  <2>2. g[x] \in D /\ Rank(rs, g[x]) = Rank(rs, m)
    BY <1>2, <2>1
  <2>3. g[x] = m
    <3>1. PICK n \in D : n = g[x]
      BY <2>2
    <3>2. Rank(rs, n) \in Nat /\ Rank(rs, m) \in Nat /\ Rank(rs, n) = Rank(rs, m)
      BY <2>2, <3>1, RankTyped
    <3>3. ~Ahead(rs, m, n) /\ ~Ahead(rs, n, m)
      BY <3>2, RanksApart
    <3> QED BY <3>1, <3>3, AheadOrder
  <2> QED BY <1>5, <2>1, <2>3
<1>9. ASSUME NEW x \in D, NEW y \in D, x < y PROVE Precedes(ss[x], ss[y])
  <2>1. PICK m \in D, n \in D : m = g[x] /\ n = g[y] /\ Rank(rs, m) = x /\ Rank(rs, n) = y
    BY <1>2
  <2>2. m # n /\ ~Ahead(rs, n, m)
    <3>1. Ahead(rs, n, m) => Rank(rs, n) < Rank(rs, m)
      BY RanksApart
    <3>2. x \in Nat /\ y \in Nat
      BY <1>1
    <3> QED BY <1>9, <2>1, <3>1, <3>2
  <2>3. Ahead(rs, m, n)
    BY <2>2, AheadOrder
  <2>4. m < n => rs[m].by < rs[n].by
    BY DEF InOrder
  <2> QED BY <1>5, <2>1, <2>3, <2>4 DEF Ahead, Precedes
<1>10. \A x \in 1..Len(rs) : \E m \in 1..Len(rs) : ss[x] = rs[m]
  BY <1>2, <1>5
<1>11. Resorted(rs, ss)
  BY <1>7, <1>8, <1>9, <1>10 DEF Resorted
<1> QED BY <1>3, <1>11

(***************************************************************************)
(* The RLD cards.                                                          *)
(***************************************************************************)
Listed(a, rs) ==
    /\ Relocs(a, rs, Len(a.stmts) + 1)
    /\ \A x, y \in 1..Len(rs) : x < y => Precedes(rs[x], rs[y])

LEMMA ListedIs ==
    ASSUME NEW a, NEW rs, Relocs(a, rs, Len(a.stmts) + 1), NEW ss, Resorted(rs, ss)
    PROVE  Listed(a, ss)
<1>1. ASSUME NEW x \in 1..Len(ss)
      PROVE  ss[x].by \in Adcons(a) /\ ss[x].by < Len(a.stmts) + 1 /\ ss[x] = RelOf(a, ss[x].by)
  <2>1. PICK m \in 1..Len(rs) : ss[x] = rs[m]
    BY DEF Resorted
  <2>2. rs[m].by \in Adcons(a) /\ rs[m].by < Len(a.stmts) + 1 /\ rs[m] = RelOf(a, rs[m].by)
    BY DEF Relocs
  <2> QED BY <2>1, <2>2
<1>2. ASSUME NEW m \in Adcons(a), m < Len(a.stmts) + 1 PROVE \E x \in 1..Len(ss) : ss[x].by = m
  <2>1. PICK q \in 1..Len(rs) : rs[q].by = m
    BY <1>2 DEF Relocs
  <2> QED BY <2>1 DEF Resorted
<1>3. Relocs(a, ss, Len(a.stmts) + 1)
  BY <1>1, <1>2 DEF Relocs, Resorted
<1> QED BY <1>3 DEF Listed, Resorted

LEMMA ListedOne ==
    ASSUME NEW a, NEW rs, Listed(a, rs), NEW x \in 1..Len(rs), NEW y \in 1..Len(rs)
    PROVE  /\ x < y => ~Before(rs[y], rs[x]) /\ (~Before(rs[x], rs[y]) => rs[x].by < rs[y].by) /\ rs[x].by # rs[y].by
           /\ rs[x].by = rs[y].by => x = y
<1>1. rs \in Seq(Rel) /\ \A z \in 1..Len(rs) : rs[z] = RelOf(a, rs[z].by)
  BY DEF Listed, Relocs
<1>2. ASSUME NEW u \in 1..Len(rs), NEW v \in 1..Len(rs), u < v
      PROVE  ~Before(rs[v], rs[u]) /\ (~Before(rs[u], rs[v]) => rs[u].by < rs[v].by) /\ rs[u].by # rs[v].by
  <2>1. PICK p \in Rel, q \in Rel : p = rs[u] /\ q = rs[v]
    BY <1>1
  <2>2. Precedes(p, q)
    BY <1>2, <2>1 DEF Listed
  <2>3. ~Before(p, p) /\ (Before(p, q) => ~Before(q, p))
    BY BeforeOrder
  <2>4. p.by = q.by => p = q
    BY <1>1, <2>1
  <2>5. p.by \in Nat /\ q.by \in Nat
    BY DEF Rel
  <2>6. ~Before(q, p) /\ (~Before(p, q) => p.by < q.by)
    BY <2>2, <2>3 DEF Precedes
  <2>7. p.by # q.by
    BY <2>2, <2>3, <2>4, <2>5 DEF Precedes
  <2> QED BY <2>1, <2>6, <2>7
<1>3. x < y \/ y < x \/ x = y
  BY <1>1
<1> QED BY <1>2, <1>3

Item == [lead : {<< >>} \union (Nat \X Nat), addr : Nat, by : Nat, same : BOOLEAN]
\* Item number n of a card reads as relocation r.
Shows(items, n, r) ==
    /\ items[n].addr = r.addr /\ items[n].by = r.by
    /\ Fresh(items, n) <=> items[n].lead # << >>
    /\ \E q \in 1..n : Leads(items, q, n) /\ items[q].lead = <<r.rel, r.pos>>
\* The items of a card are the relocations behind the first b.
RldPart(rs, items, b) ==
    /\ items \in Seq(Item) /\ b \in Nat /\ b + Len(items) <= Len(rs)
    /\ \A n \in 1..Len(items) : Shows(items, n, rs[b + n])
    /\ items # << >> => ~items[Len(items)].same

\* mid is items with the continuation bit of the last one set.
Promise(items, mid) ==
    /\ mid \in Seq(Item) /\ Len(mid) = Len(items)
    /\ \A n \in 1..Len(items) : n # Len(items) => mid[n] = items[n]
    /\ \A n \in 1..Len(items) : mid[n].lead = items[n].lead /\ mid[n].addr = items[n].addr /\ mid[n].by = items[n].by
    /\ mid[Len(mid)].same

LEMMA PromiseIs ==
    ASSUME NEW items \in Seq(Item), items # << >>
    PROVE  Promise(items, [items EXCEPT ![Len(items)].same = TRUE])
<1>1. Len(items) \in 1..Len(items)
  OBVIOUS
<1>2. PICK L \in 1..Len(items) : L = Len(items)
  BY <1>1
<1>3. PICK v \in Item : v = items[L]
  OBVIOUS
<1>4. PICK w : w = [v EXCEPT !.same = TRUE]
  OBVIOUS
<1>5. w \in Item /\ w.lead = v.lead /\ w.addr = v.addr /\ w.by = v.by /\ w.same = TRUE
  BY <1>4 DEF Item
<1>6. PICK mid : mid = [items EXCEPT ![L] = w]
  OBVIOUS
<1>7. mid \in Seq(Item) /\ Len(mid) = Len(items) /\ mid[L] = w /\ \A x \in 1..Len(items) : x # L => mid[x] = items[x]
  BY <1>5, <1>6, Replaced
<1>8. mid = [items EXCEPT ![Len(items)].same = TRUE]
  BY <1>2, <1>3, <1>4, <1>6
<1>9. Promise(items, mid)
  BY <1>2, <1>3, <1>5, <1>7 DEF Promise
<1> QED BY <1>8, <1>9

\* Items ahead of a place read as before when what comes after them changes.
Agrees(items, new) ==
    /\ \A n \in 1..Len(items) : new[n].lead = items[n].lead /\ new[n].addr = items[n].addr /\ new[n].by = items[n].by
    /\ \A n \in 1..Len(items) : Fresh(new, n) <=> Fresh(items, n)

LEMMA ShowsSame ==
    ASSUME NEW items, NEW new, Len(items) \in Nat, Agrees(items, new), NEW n \in 1..Len(items), NEW r, Shows(items, n, r)
    PROVE  Shows(new, n, r)
<1>1. PICK q \in 1..n : Leads(items, q, n) /\ items[q].lead = <<r.rel, r.pos>>
  BY DEF Shows
<1>2. q \in 1..Len(items) /\ \A x \in (q + 1)..n : x \in 1..Len(items)
  OBVIOUS
<1>3. Leads(new, q, n)
  BY <1>1, <1>2 DEF Leads, Agrees
<1>4. new[q].lead = <<r.rel, r.pos>>
  BY <1>1, <1>2 DEF Agrees
<1>5. new[n].addr = r.addr /\ new[n].by = r.by /\ (Fresh(new, n) <=> new[n].lead # << >>)
  BY DEF Agrees, Shows
<1> QED BY <1>1, <1>3, <1>4, <1>5 DEF Shows

\* Relocation K joins the items as e, its predecessor told of it.
Follow(rs, items, K, mid, e) ==
    IF items # << >> /\ SamePair(rs[K], rs[K - 1])
    THEN /\ Promise(items, mid)
         /\ e = [lead |-> << >>, addr |-> rs[K].addr, by |-> rs[K].by, same |-> FALSE]
    ELSE /\ mid = items
         /\ e = [lead |-> <<rs[K].rel, rs[K].pos>>, addr |-> rs[K].addr, by |-> rs[K].by, same |-> FALSE]

LEMMA RldGrows ==
    ASSUME NEW rs \in Seq(Rel), NEW items, NEW b, RldPart(rs, items, b), NEW K \in 1..Len(rs), K = b + Len(items) + 1,
           NEW mid, NEW e, Follow(rs, items, K, mid, e)
    PROVE  RldPart(rs, Append(mid, e), b)
<1> DEFINE reuse == items # << >> /\ SamePair(rs[K], rs[K - 1])
<1>a. /\ reuse => Promise(items, mid) /\ e = [lead |-> << >>, addr |-> rs[K].addr, by |-> rs[K].by, same |-> FALSE]
      /\ ~reuse => mid = items /\ e = [lead |-> <<rs[K].rel, rs[K].pos>>, addr |-> rs[K].addr, by |-> rs[K].by, same |-> FALSE]
      /\ reuse <=> items # << >> /\ SamePair(rs[K], rs[K - 1])
  BY Zenon DEF Follow
<1> HIDE DEF reuse
<1>1. items \in Seq(Item) /\ Len(items) \in Nat /\ b \in Nat /\ Len(rs) \in Nat
  BY DEF RldPart
<1>2. PICK L \in Nat : L = Len(items)
  BY <1>1
<1>3. rs[K].rel \in Nat /\ rs[K].pos \in Nat /\ rs[K].addr \in Nat /\ rs[K].by \in Nat
  <2>1. rs[K] \in Rel
    OBVIOUS
  <2> QED BY <2>1 DEF Rel
<1>4. e \in Item /\ e.addr = rs[K].addr /\ e.by = rs[K].by /\ e.same = FALSE
      /\ e.lead = IF reuse THEN << >> ELSE <<rs[K].rel, rs[K].pos>>
  <2>1. CASE reuse
    <3>1. e = [lead |-> << >>, addr |-> rs[K].addr, by |-> rs[K].by, same |-> FALSE]
      BY <1>a, <2>1, Zenon
    <3>2. e.addr = rs[K].addr /\ e.by = rs[K].by /\ e.same = FALSE /\ e.lead = << >>
      BY <3>1
    <3>3. e \in Item
      BY <1>3, <3>1 DEF Item
    <3> QED BY <2>1, <3>2, <3>3, Zenon
  <2>2. CASE ~reuse
    <3>1. e = [lead |-> <<rs[K].rel, rs[K].pos>>, addr |-> rs[K].addr, by |-> rs[K].by, same |-> FALSE]
      BY <1>a, <2>2, Zenon
    <3>2. e.addr = rs[K].addr /\ e.by = rs[K].by /\ e.same = FALSE /\ e.lead = <<rs[K].rel, rs[K].pos>>
      BY <3>1
    <3>3. e \in Item
      BY <1>3, <3>1 DEF Item
    <3> QED BY <2>2, <3>2, <3>3, Zenon
  <2> QED BY <2>1, <2>2, Zenon
<1>5. mid \in Seq(Item) /\ Len(mid) = L
  BY <1>a, <1>1, <1>2 DEF Promise
<1>6. PICK new : new = Append(mid, e)
  OBVIOUS
<1>7. new \in Seq(Item) /\ Len(new) = L + 1 /\ new[L + 1] = e /\ new # << >> /\ \A n \in 1..L : new[n] = mid[n]
  <2>1. e \in Item
    BY <1>4
  <2>2. new \in Seq(Item) /\ Len(new) = Len(mid) + 1
    BY <1>5, <1>6, <2>1
  <2>3. new[Len(mid) + 1] = e /\ \A n \in 1..Len(mid) : new[n] = mid[n]
    BY <1>5, <1>6, <2>1
  <2>4. Len(new) # 0
    BY <1>5, <2>2
  <2>5. new # << >>
    BY <2>4
  <2> QED BY <1>5, <2>2, <2>3, <2>5
<1>8. Agrees(items, new)
  <2>1. \A n \in 1..L : mid[n].lead = items[n].lead /\ mid[n].addr = items[n].addr /\ mid[n].by = items[n].by
    BY <1>a, <1>2 DEF Promise
  <2>2. ASSUME NEW n \in 1..L PROVE Fresh(new, n) <=> Fresh(items, n)
    <3>1. CASE n = 1
      BY <3>1 DEF Fresh
    <3>2. CASE n # 1
      <4>1. n - 1 \in 1..L /\ n - 1 # L
        BY <3>2
      <4>2. mid[n - 1] = items[n - 1]
        BY <1>a, <1>2, <4>1 DEF Promise
      <4> QED BY <1>7, <4>1, <4>2 DEF Fresh
    <3> QED BY <3>1, <3>2
  <2> QED BY <1>2, <1>7, <2>1, <2>2 DEF Agrees
<1>9. Shows(new, L + 1, rs[K])
  <2>1. CASE reuse
    <3>1. L \in 1..L /\ items # << >> /\ SamePair(rs[K], rs[K - 1]) /\ K - 1 = b + L
      BY <1>a, <1>1, <1>2, <2>1
    <3>2. Shows(items, L, rs[K - 1])
      BY <1>2, <3>1 DEF RldPart
    <3>3. Shows(new, L, rs[K - 1])
      BY <1>1, <1>2, <1>8, <3>1, <3>2, ShowsSame
    <3>4. PICK q \in 1..L : Leads(new, q, L) /\ new[q].lead = <<rs[K - 1].rel, rs[K - 1].pos>>
      BY <3>3 DEF Shows
    <3>5. new[L].same
      BY <1>a, <1>2, <1>5, <1>7, <2>1, <3>1 DEF Promise
    <3>6. ~Fresh(new, L + 1)
      <4>1. L + 1 # 1 /\ (L + 1) - 1 = L
        BY <3>1
      <4> QED BY <3>5, <4>1 DEF Fresh
    <3>7. \A x \in (q + 1)..(L + 1) : x \in (q + 1)..L \/ x = L + 1
      OBVIOUS
    <3>8. Leads(new, q, L + 1) /\ q \in 1..(L + 1)
      <4>1. Fresh(new, q) /\ \A x \in (q + 1)..L : ~Fresh(new, x)
        BY <3>4 DEF Leads
      <4>2. \A x \in (q + 1)..(L + 1) : ~Fresh(new, x)
        BY <3>6, <3>7, <4>1, Zenon
      <4>3. q \in 1..(L + 1)
        OBVIOUS
      <4> QED BY <4>1, <4>2, <4>3 DEF Leads
    <3>9. new[q].lead = <<rs[K].rel, rs[K].pos>>
      BY <3>1, <3>4 DEF SamePair
    <3>10. new[L + 1].lead = << >>
      BY <1>4, <1>7, <2>1
    <3> QED BY <1>4, <1>7, <3>6, <3>8, <3>9, <3>10 DEF Shows
  <2>2. CASE ~reuse
    <3>1. Fresh(new, L + 1)
      <4>1. CASE L = 0
        BY <4>1 DEF Fresh
      <4>2. CASE L # 0
        <5>1. L \in 1..L /\ items # << >> /\ (L + 1) - 1 = L
          BY <1>1, <1>2, <4>2
        <5>2. ~items[L].same
          BY <1>2, <5>1 DEF RldPart
        <5>3. new[L] = items[L]
          BY <1>a, <1>7, <2>2, <5>1
        <5> QED BY <5>1, <5>2, <5>3 DEF Fresh
      <4> QED BY <4>1, <4>2
    <3>2. (L + 1 + 1)..(L + 1) = {}
      OBVIOUS
    <3>3. Leads(new, L + 1, L + 1) /\ L + 1 \in 1..(L + 1)
      BY <3>1, <3>2 DEF Leads
    <3>4. new[L + 1].lead = <<rs[K].rel, rs[K].pos>> /\ new[L + 1].lead # << >>
      <4>1. e.lead = <<rs[K].rel, rs[K].pos>>
        BY <1>4, <2>2, Zenon
      <4>2. <<rs[K].rel, rs[K].pos>> # << >>
        OBVIOUS
      <4>3. new[L + 1] = e
        BY <1>7, Zenon
      <4> QED BY <4>1, <4>2, <4>3, Zenon
    <3> QED BY <1>4, <1>7, <3>1, <3>3, <3>4 DEF Shows
  <2> QED BY <2>1, <2>2
<1>10. ASSUME NEW n \in 1..Len(new) PROVE Shows(new, n, rs[b + n])
  <2>1. CASE n \in 1..L
    <3>1. Shows(items, n, rs[b + n])
      BY <1>2, <2>1 DEF RldPart
    <3> QED BY <1>1, <1>2, <1>8, <2>1, <3>1, ShowsSame
  <2>2. CASE n = L + 1
    <3>1. b + n = K
      BY <1>1, <1>2, <2>2
    <3> QED BY <1>9, <2>2, <3>1
  <2> QED BY <1>7, <2>1, <2>2
<1>11. b + Len(new) <= Len(rs) /\ ~new[Len(new)].same
  BY <1>1, <1>2, <1>4, <1>7
<1>12. RldPart(rs, new, b)
  BY <1>1, <1>7, <1>10, <1>11 DEF RldPart
<1> QED BY <1>6, <1>12

Reads(d, p, r) == Shows(d[p[1]].items, p[2], r)
\* The RLD cards of d are the first b relocations, in order.
Placed(rs, d, b) ==
    /\ b \in Nat /\ b <= Len(rs)
    /\ \A c \in Cards(d, "RLD") : IsSeq(d[c].items)
    /\ \A p \in ReadRld(d) : \E x \in 1..b : Reads(d, p, rs[x])
    /\ \A x \in 1..b : \E p \in ReadRld(d) : Reads(d, p, rs[x])
    /\ \A p, q \in ReadRld(d) : \A x, y \in 1..b : Earlier(p, q) /\ Reads(d, p, rs[x]) /\ Reads(d, q, rs[y]) => x < y

LEMMA PlacedNone ==
    ASSUME NEW rs \in Seq(Rel), NEW d, Cards(d, "RLD") = {}
    PROVE  Placed(rs, d, 0)
<1>1. ReadRld(d) = {} /\ 1..0 = {} /\ 0 <= Len(rs)
  BY DEF ReadRld
<1> QED BY <1>1 DEF Placed

LEMMA PlacedOther ==
    ASSUME NEW rs, NEW d, IsSeq(d), NEW b, Placed(rs, d, b), NEW c, c.kind # "RLD"
    PROVE  Placed(rs, Append(d, c), b)
<1>1. PICK d2 : d2 = Append(d, c)
  OBVIOUS
<1>2. Adding(d, c, d2, "RLD")
  BY <1>1, Added
<1>3. Cards(d2, "RLD") = Cards(d, "RLD") /\ \A x \in Cards(d, "RLD") : d2[x] = d[x]
  BY <1>2 DEF Adding
<1>4. ReadRld(d2) = ReadRld(d)
  BY <1>3 DEF ReadRld
<1>5. \A p \in ReadRld(d) : p[1] \in Cards(d, "RLD")
  BY DEF ReadRld
<1>6. \A p \in ReadRld(d) : \A r : Reads(d2, p, r) <=> Reads(d, p, r)
  BY <1>3, <1>5 DEF Reads
<1>7. Placed(rs, d2, b)
  BY <1>3, <1>4, <1>6 DEF Placed
<1> QED BY <1>1, <1>7

LEMMA PlacedFlush ==
    ASSUME NEW a, NEW rs, Listed(a, rs), NEW d, IsSeq(d), NEW b, Placed(rs, d, b), NEW items, RldPart(rs, items, b),
           NEW c, c.kind = "RLD", c.items = items
    PROVE  Placed(rs, Append(d, c), b + Len(items))
<1>1. PICK d2 : d2 = Append(d, c)
  OBVIOUS
<1>2. Adding(d, c, d2, "RLD")
  BY <1>1, Added
<1>3. PICK L \in Nat : L = Len(d) + 1
  BY <1>2 DEF Adding
<1>4. /\ Cards(d2, "RLD") = Cards(d, "RLD") \union {L} /\ d2[L] = c /\ L \notin Cards(d, "RLD")
      /\ \A x \in Cards(d, "RLD") : d2[x] = d[x] /\ x < L /\ x \in Nat
  BY <1>2, <1>3 DEF Adding
<1>5. PICK M \in Nat : M = Len(items)
  BY DEF RldPart
<1>6. /\ items \in Seq(Item) /\ DOMAIN items = 1..M /\ b \in Nat /\ b + M <= Len(rs) /\ Len(rs) \in Nat
  BY <1>5 DEF RldPart, Listed, Relocs
<1>7. ReadRld(d2) = ReadRld(d) \union ({L} \X (1..M))
  <2>1. {{x} \X DOMAIN d2[x].items : x \in Cards(d2, "RLD")} =
        {{x} \X DOMAIN d[x].items : x \in Cards(d, "RLD")} \union {{L} \X DOMAIN items}
    BY <1>4
  <2> QED BY <1>6, <2>1 DEF ReadRld
<1>8. \A p \in ReadRld(d) : p[1] \in Cards(d, "RLD")
  BY DEF ReadRld
<1>9. \A p \in ReadRld(d) : \A r : Reads(d2, p, r) <=> Reads(d, p, r)
  BY <1>4, <1>8 DEF Reads
<1>10. ASSUME NEW p \in {L} \X (1..M) PROVE p[1] = L /\ p[2] \in 1..M /\ b + p[2] \in 1..(b + M) /\ Reads(d2, p, rs[b + p[2]])
  <2>1. p[1] = L /\ p[2] \in 1..M
    OBVIOUS
  <2>2. Shows(items, p[2], rs[b + p[2]])
    BY <1>5, <2>1 DEF RldPart
  <2> QED BY <1>4, <1>6, <2>1, <2>2 DEF Reads
<1>11. ASSUME NEW p, NEW x \in 1..Len(rs), NEW y \in 1..Len(rs), Reads(d2, p, rs[x]), Reads(d2, p, rs[y]) PROVE x = y
  <2>1. rs[x].by = rs[y].by
    BY <1>11 DEF Reads, Shows
  <2> QED BY <2>1, ListedOne
<1>12. 1..b \subseteq 1..(b + M) /\ 1..(b + M) \subseteq 1..Len(rs)
  BY <1>6
<1>13. \A p \in ReadRld(d2) : \E x \in 1..(b + M) : Reads(d2, p, rs[x])
  <2> SUFFICES ASSUME NEW p \in ReadRld(d2) PROVE \E x \in 1..(b + M) : Reads(d2, p, rs[x])
    OBVIOUS
  <2>1. CASE p \in ReadRld(d)
    BY <1>9, <1>12, <2>1 DEF Placed
  <2>2. CASE p \in {L} \X (1..M)
    BY <1>10, <2>2
  <2> QED BY <1>7, <2>1, <2>2
<1>14. ASSUME NEW x \in 1..(b + M) PROVE \E p \in ReadRld(d2) : Reads(d2, p, rs[x])
  <2>1. CASE x \in 1..b
    <3>1. PICK p \in ReadRld(d) : Reads(d, p, rs[x])
      BY <2>1 DEF Placed
    <3> QED BY <1>7, <1>9, <3>1
  <2>2. CASE x \notin 1..b
    <3>1. x - b \in 1..M /\ b + (x - b) = x
      BY <1>6, <2>2
    <3>2. PICK p : p = <<L, x - b>>
      OBVIOUS
    <3>3. p \in {L} \X (1..M) /\ p[2] = x - b
      BY <3>1, <3>2
    <3>4. Reads(d2, p, rs[b + p[2]])
      BY <1>10, <3>3
    <3> QED BY <1>7, <3>1, <3>3, <3>4
  <2> QED BY <2>1, <2>2
<1>15. ASSUME NEW p \in ReadRld(d2), NEW q \in ReadRld(d2), NEW x \in 1..(b + M), NEW y \in 1..(b + M),
              Earlier(p, q), Reads(d2, p, rs[x]), Reads(d2, q, rs[y])
       PROVE  x < y
  <2>1. CASE q \in ReadRld(d)
    <3>1. q[1] < L /\ q[1] \in Nat
      BY <1>4, <1>8, <2>1
    <3>2. p \notin {L} \X (1..M)
      <4> SUFFICES ASSUME p \in {L} \X (1..M) PROVE FALSE
        OBVIOUS
      <4>1. p[1] = L
        OBVIOUS
      <4> QED BY <1>15, <3>1, <4>1 DEF Earlier
    <3>3. p \in ReadRld(d)
      BY <1>7, <3>2
    <3>4. Reads(d, p, rs[x]) /\ Reads(d, q, rs[y])
      BY <1>9, <1>15, <2>1, <3>3
    <3>5. PICK u \in 1..b, v \in 1..b : Reads(d, p, rs[u]) /\ Reads(d, q, rs[v])
      BY <2>1, <3>3 DEF Placed
    <3>6. Reads(d2, p, rs[u]) /\ Reads(d2, q, rs[v]) /\ u \in 1..Len(rs) /\ v \in 1..Len(rs)
      BY <1>9, <1>12, <2>1, <3>3, <3>5
    <3>7. x = u /\ y = v
      BY <1>11, <1>12, <1>15, <3>6
    <3> QED BY <1>15, <2>1, <3>3, <3>5, <3>7 DEF Placed
  <2>2. CASE q \in {L} \X (1..M)
    <3>1. q[1] = L /\ q[2] \in 1..M /\ b + q[2] \in 1..(b + M) /\ Reads(d2, q, rs[b + q[2]])
      BY <1>10, <2>2
    <3>2. y = b + q[2]
      BY <1>11, <1>12, <1>15, <3>1
    <3>3. CASE p \in ReadRld(d)
      <4>1. PICK u \in 1..b : Reads(d, p, rs[u])
        BY <3>3 DEF Placed
      <4>2. Reads(d2, p, rs[u]) /\ u \in 1..Len(rs)
        BY <1>9, <1>12, <3>3, <4>1
      <4>3. x = u
        BY <1>11, <1>12, <1>15, <4>2
      <4> QED BY <1>6, <3>1, <3>2, <4>3
    <3>4. CASE p \in {L} \X (1..M)
      <4>1. p[1] = L /\ p[2] \in 1..M /\ b + p[2] \in 1..(b + M) /\ Reads(d2, p, rs[b + p[2]])
        BY <1>10, <3>4
      <4>2. x = b + p[2]
        BY <1>11, <1>12, <1>15, <4>1
      <4>3. p[2] < q[2]
        BY <1>15, <3>1, <4>1 DEF Earlier
      <4> QED BY <1>6, <3>1, <3>2, <4>1, <4>2, <4>3
    <3> QED BY <1>7, <3>3, <3>4
  <2> QED BY <1>7, <2>1, <2>2
<1>16. \A x \in Cards(d2, "RLD") : IsSeq(d2[x].items)
  <2>1. IsSeq(items)
    BY <1>6 DEF IsSeq
  <2> QED BY <1>4, <2>1 DEF Placed
<1>17. b + M \in Nat /\ b + M <= Len(rs)
  BY <1>6
<1>18. Placed(rs, d2, b + M)
  BY <1>13, <1>14, <1>15, <1>16, <1>17 DEF Placed
<1> QED BY <1>1, <1>5, <1>18

(***************************************************************************)
(* The relocations from pass 2 to the deck.                                *)
(***************************************************************************)
Written == k - 1 - Len(RldHeld.items)
RelInv ==
    /\ pc = "pass2" => Relocs(asm, rels, k) /\ InOrder(rels)
    /\ pc \in {"early", "esd", "txt", "sort"} => Relocs(asm, rels, Len(asm.stmts) + 1) /\ InOrder(rels)
    /\ pc \in {"pass2", "early", "esd", "txt", "sort"} => Cards(deck, "RLD") = {}
    /\ pc \in {"rld", "end", "done"} => Listed(asm, rels)
    /\ pc = "rld" => /\ k \in 1..(Len(rels) + 1)
                     /\ Placed(rels, deck, Written) /\ RldPart(rels, RldHeld.items, Written)
    /\ pc \in {"end", "done"} => Placed(rels, deck, Len(rels))

LEMMA RelInit == Init => RelInv
<1> SUFFICES ASSUME Init PROVE RelInv
  OBVIOUS
<1>1. IsAssembly(asm)
  BY AssembliesAssumption DEF Init
<1>2. rels = << >> /\ << >> \in Seq(Rel) /\ Len(<< >>) = 0 /\ k = 1 /\ pc = "pass2" /\ 1..0 = {}
  BY DEF Init
<1>3. 1 \in 1..(Len(asm.stmts) + 1) /\ \A m \in Adcons(asm) : ~(m < 1)
  BY <1>1, StmtTyped DEF Adcons
<1>4. Relocs(asm, rels, k) /\ InOrder(rels)
  BY <1>2, <1>3 DEF Relocs, InOrder
<1>5. Cards(deck, "RLD") = {}
  BY DEF Init, Cards
<1> QED BY <1>2, <1>4, <1>5 DEF RelInv

LEMMA RelPass2 == ASSUME TextInv, RelInv, Section \/ Repro \/ Put \/ PassDone PROVE RelInv'
<1>1. pc = "pass2" /\ IsAssembly(asm) /\ Relocs(asm, rels, k) /\ InOrder(rels) /\ Cards(deck, "RLD") = {}
  BY DEF RelInv, TextInv, Base, Section, Repro, Put, PassDone, At
<1>2. CASE Section \/ Repro
  <2>1. k \in 1..Len(asm.stmts) /\ k \notin Puts(asm)
    BY <1>2, PunchStmt DEF Section, Repro
  <2>2. Relocs(asm, rels, k + 1)
    BY <1>1, <2>1, RelocsSkip DEF Adcons
  <2> QED BY <1>1, <1>2, <2>2 DEF RelInv, Section, Repro
<1>3. CASE Put
  <2>1. k \in 1..Len(asm.stmts) /\ k \in Puts(asm)
    BY <1>3, PunchStmt DEF Put
  <2>2. rels' = IF asm.stmts[k].target = NoSym THEN rels ELSE Append(rels, RelOf(asm, k))
    BY <1>3 DEF Put, RelOf
  <2>3. Relocs(asm, rels', k + 1) /\ InOrder(rels')
    <3>1. CASE asm.stmts[k].target = NoSym
      BY <1>1, <2>1, <2>2, <3>1, RelocsSkip DEF Adcons
    <3>2. CASE asm.stmts[k].target # NoSym
      <4>1. k \in Adcons(asm)
        BY <2>1, <3>2 DEF Adcons
      <4> QED BY <1>1, <2>1, <2>2, <3>2, <4>1, RelocsMore
    <3> QED BY <3>1, <3>2
  <2> QED BY <1>1, <1>3, <2>3 DEF RelInv, Put
<1>4. CASE PassDone
  <2>1. k = Len(asm.stmts) + 1
    BY <1>1, <1>4, StmtTyped DEF PassDone, Relocs
  <2> QED BY <1>1, <1>4, <2>1 DEF RelInv, PassDone
<1> QED BY <1>2, <1>3, <1>4

LEMMA NoRldCard ==
    ASSUME NEW d, IsSeq(d), NEW c, c.kind # "RLD"
    PROVE  Cards(Append(d, c), "RLD") = Cards(d, "RLD")
<1>1. PICK d2 : d2 = Append(d, c)
  OBVIOUS
<1>2. Adding(d, c, d2, "RLD")
  BY <1>1, Added
<1> QED BY <1>1, <1>2 DEF Adding

LEMMA RelMiddle ==
    ASSUME TextInv, RelInv, pc \in {"early", "esd", "txt"}, Next
    PROVE  RelInv'
<1>1. Relocs(asm, rels, Len(asm.stmts) + 1) /\ InOrder(rels) /\ Cards(deck, "RLD") = {} /\ IsSeq(deck)
  BY DEF RelInv, TextInv, Base
<1>2. PunchEarly \/ EarlyDone \/ EsdEnt \/ EsdFlush \/ EsdDone \/ TxtPunch \/ TxtFlush \/ TxtTake \/ TxtDone
  BY DEF Next, Section, Put, Repro, PassDone, At, SortRelocations, RldEnt, RldFlush, RldDone, EndCard, Done
<1>3. /\ pc' \in {"early", "esd", "txt", "sort"} /\ asm' = asm /\ rels' = rels
      /\ \/ deck' = deck \/ deck' = Append(deck, TxtCard) \/ deck' = Append(deck, EsdCard)
         \/ deck' = Append(deck, ReproCard(punches[k]))
         \/ deck' = Append(Flushed, ReproCard(punches[Lowest(Due)]))
  BY <1>2 DEF PunchEarly, EarlyDone, EsdEnt, EsdFlush, EsdDone, TxtPunch, TxtFlush, Flushed, TxtTake, TxtDone
<1>4. /\ TxtCard.kind # "RLD" /\ EsdCard.kind # "RLD" /\ ReproCard(punches[k]).kind # "RLD"
      /\ ReproCard(punches[Lowest(Due)]).kind # "RLD"
  BY DEF TxtCard, EsdCard, ReproCard
<1>5. /\ Cards(Append(deck, TxtCard), "RLD") = {} /\ Cards(Append(deck, EsdCard), "RLD") = {}
      /\ Cards(Append(deck, ReproCard(punches[k])), "RLD") = {}
  BY <1>1, <1>4, NoRldCard
<1>6. Cards(Flushed, "RLD") = {} /\ IsSeq(Flushed)
  BY <1>1, <1>5, Extended DEF Flushed
<1>7. Cards(Append(Flushed, ReproCard(punches[Lowest(Due)])), "RLD") = {}
  BY <1>4, <1>6, NoRldCard
<1>8. Cards(deck', "RLD") = {}
  BY <1>1, <1>3, <1>5, <1>7
<1> QED BY <1>1, <1>3, <1>8 DEF RelInv

LEMMA RelSort == ASSUME TextInv, RelInv, SortRelocations PROVE RelInv'
<1>1. /\ pc = "sort" /\ pc' = "rld" /\ k' = 1 /\ asm' = asm /\ deck' = deck /\ rels' = Sorted(rels) /\ card' = card
  BY DEF SortRelocations
<1>2. Relocs(asm, rels, Len(asm.stmts) + 1) /\ InOrder(rels) /\ Cards(deck, "RLD") = {} /\ ~card.open
  BY <1>1 DEF RelInv, TextInv, Base
<1>3. rels \in Seq(Rel)
  BY <1>2 DEF Relocs
<1>4. PICK ss : ss = Sorted(rels)
  OBVIOUS
<1>5. Resorted(rels, ss)
  BY <1>2, <1>3, <1>4, SortedIs
<1>6. Listed(asm, ss) /\ ss \in Seq(Rel)
  BY <1>2, <1>5, ListedIs DEF Resorted
<1>7. RldHeld'.items = << >>
  BY <1>1, <1>2 DEF RldHeld
<1>8. << >> \in Seq(Item) /\ Len(<< >>) = 0 /\ 1..0 = {} /\ 1 - 1 - 0 = 0 /\ 0 + 0 <= Len(ss) /\ 1 \in 1..(Len(ss) + 1)
  BY <1>6
<1>9. Written' = 0
  BY <1>1, <1>7, <1>8 DEF Written
<1>10. Placed(ss, deck, 0)
  BY <1>2, <1>6, PlacedNone
<1>11. RldPart(ss, << >>, 0)
  BY <1>8 DEF RldPart
<1> QED BY <1>1, <1>4, <1>6, <1>7, <1>8, <1>9, <1>10, <1>11 DEF RelInv

LEMMA RelEnt == ASSUME TextInv, RelInv, RldEnt PROVE RelInv'
<1>1. /\ pc = "rld" /\ pc' = "rld" /\ asm' = asm /\ rels' = rels /\ deck' = deck /\ k' = k + 1 /\ k <= Len(rels)
      /\ card' = [open |-> TRUE, used |-> RldHeld.used + Need, items |-> Append(Promised(RldHeld.items), RldItem)]
  BY DEF RldEnt, Fits
<1>2. /\ Listed(asm, rels) /\ k \in 1..(Len(rels) + 1)
      /\ Placed(rels, deck, Written) /\ RldPart(rels, RldHeld.items, Written)
  BY <1>1 DEF RelInv
<1>3. PICK rs \in Seq(Rel) : rs = rels
  BY <1>2 DEF Listed, Relocs
<1>4. PICK items \in Seq(Item) : items = RldHeld.items
  BY <1>2 DEF RldPart
<1>5. PICK b \in Nat : b = Written
  BY <1>2 DEF RldPart
<1>6. PICK K \in 1..Len(rs) : K = k
  BY <1>1, <1>2, <1>3
<1>7. K = b + Len(items) + 1 /\ Len(items) \in Nat
  BY <1>4, <1>5, <1>6 DEF Written
<1>8. PICK mid : mid = Promised(items)
  OBVIOUS
<1>9. PICK e : e = RldItem
  OBVIOUS
<1>10. Reuses <=> items # << >> /\ SamePair(rs[K], rs[K - 1])
  BY <1>3, <1>4, <1>6 DEF Reuses
<1>11. (Reuses => Promise(items, mid)) /\ (~Reuses => mid = items)
  BY <1>8, <1>10, PromiseIs DEF Promised
<1>12. Follow(rs, items, K, mid, e)
  BY <1>3, <1>6, <1>9, <1>10, <1>11 DEF RldItem, Follow
<1>13. RldPart(rs, items, b)
  BY <1>2, <1>3, <1>4, <1>5
<1>14. RldPart(rs, Append(mid, e), b)
  BY <1>7, <1>12, <1>13, RldGrows
<1>15. RldHeld'.items = Append(mid, e)
  BY <1>1, <1>4, <1>8, <1>9 DEF RldHeld
<1>16. Len(Append(mid, e)) = Len(items) + 1
  <2>1. mid \in Seq(Item) /\ Len(mid) = Len(items)
    BY <1>11 DEF Promise
  <2> QED BY <2>1
<1>17. Written' = b
  <2>1. Written' = k' - 1 - Len(RldHeld'.items)
    BY DEF Written
  <2>2. k' = K + 1 /\ Len(RldHeld'.items) = Len(items) + 1
    BY <1>1, <1>6, <1>15, <1>16
  <2>3. PICK L \in Nat : L = Len(items)
    BY <1>7
  <2>4. Written' = (K + 1) - 1 - (L + 1) /\ K = b + L + 1
    BY <1>7, <2>1, <2>2, <2>3
  <2>5. (K + 1) - 1 - (L + 1) = b
    BY <2>4
  <2> QED BY <2>4, <2>5
<1>18. k' \in 1..(Len(rs) + 1)
  BY <1>1, <1>6
<1> QED BY <1>1, <1>2, <1>3, <1>5, <1>14, <1>15, <1>17, <1>18 DEF RelInv

LEMMA RelFlush == ASSUME TextInv, RelInv, RldFlush PROVE RelInv'
<1>1. /\ pc = "rld" /\ pc' = "rld" /\ asm' = asm /\ rels' = rels /\ deck' = Append(deck, RldCard) /\ k' = k
      /\ card.open /\ card' = NoCard
  BY DEF RldFlush
<1>2. /\ Listed(asm, rels) /\ k \in 1..(Len(rels) + 1) /\ IsSeq(deck)
      /\ Placed(rels, deck, Written) /\ RldPart(rels, card.items, Written) /\ RldHeld = card
  BY <1>1 DEF RelInv, TextInv, Base, RldHeld
<1>3. PICK items \in Seq(Item) : items = card.items
  BY <1>2 DEF RldPart
<1>4. PICK b \in Nat : b = Written
  BY <1>2 DEF RldPart
<1>5. b = k - 1 - Len(items) /\ k \in Int /\ Len(items) \in Nat
  BY <1>2, <1>3, <1>4 DEF Written
<1>6. RldCard.kind = "RLD" /\ RldCard.items = items
  BY <1>3 DEF RldCard
<1>7. Placed(rels, deck', b + Len(items))
  BY <1>1, <1>2, <1>3, <1>4, <1>6, PlacedFlush
<1>8. RldHeld'.items = << >>
  BY <1>1 DEF RldHeld, NoCard
<1>9. Written' = k - 1 /\ b + Len(items) = k - 1
  <2>1. Written' = k' - 1 - Len(RldHeld'.items)
    BY DEF Written
  <2>2. Len(<< >>) = 0
    OBVIOUS
  <2> QED BY <1>1, <1>5, <1>8, <2>1, <2>2
<1>10. RldPart(rels, << >>, k - 1)
  <2>1. k - 1 \in Nat /\ << >> \in Seq(Item) /\ Len(<< >>) = 0 /\ 1..0 = {}
    BY <1>2
  <2>2. k - 1 + 0 <= Len(rels)
    BY <1>2 DEF Listed, Relocs
  <2> QED BY <2>1, <2>2 DEF RldPart
<1> QED BY <1>1, <1>2, <1>7, <1>8, <1>9, <1>10 DEF RelInv

LEMMA RelLast == ASSUME TextInv, RelInv, RldDone \/ EndCard PROVE RelInv'
<1>1. CASE RldDone
  <2>1. /\ pc = "rld" /\ pc' = "end" /\ asm' = asm /\ rels' = rels /\ deck' = deck /\ k > Len(rels) /\ ~card.open
    BY <1>1 DEF RldDone
  <2>2. Listed(asm, rels) /\ k \in 1..(Len(rels) + 1) /\ Placed(rels, deck, Written) /\ rels \in Seq(Rel)
    BY <2>1 DEF RelInv, Listed, Relocs
  <2>3. RldHeld.items = << >> /\ Len(<< >>) = 0
    BY <2>1 DEF RldHeld
  <2>4. Written = Len(rels)
    BY <2>1, <2>2, <2>3 DEF Written
  <2> QED BY <2>1, <2>2, <2>4 DEF RelInv
<1>2. CASE EndCard
  <2>1. PICK c : /\ deck' = Append(deck, c)
                 /\ c = IF asm.entry = NoSym THEN [kind |-> "END", has |-> FALSE]
                            ELSE [kind |-> "END", has |-> TRUE, addr |-> asm.def[asm.entry].addr,
                                  id |-> EndEsdid(asm, asm.entry)]
    BY <1>2 DEF EndCard
  <2>2. c.kind # "RLD" /\ pc = "end" /\ pc' = "done" /\ asm' = asm /\ rels' = rels /\ IsSeq(deck)
        /\ Listed(asm, rels) /\ Placed(rels, deck, Len(rels))
    BY <1>2, <2>1 DEF EndCard, TextInv, Base, RelInv
  <2>3. Placed(rels, deck', Len(rels))
    BY <2>1, <2>2, PlacedOther
  <2> QED BY <2>2, <2>3 DEF RelInv
<1> QED BY <1>1, <1>2

LEMMA RelStep == TextInv /\ RelInv /\ [Next]_vars => RelInv'
<1> SUFFICES ASSUME TextInv, RelInv, [Next]_vars PROVE RelInv'
  OBVIOUS
<1>1. ASSUME UNCHANGED vars PROVE RelInv'
  BY <1>1 DEF vars, RelInv, Written, RldHeld
<1>2. CASE Done
  BY <1>1, <1>2 DEF Done
<1>3. CASE PunchEarly \/ EarlyDone \/ EsdEnt \/ EsdFlush \/ EsdDone \/ TxtPunch \/ TxtFlush \/ TxtTake \/ TxtDone
  <2>1. pc \in {"early", "esd", "txt"}
    BY <1>3 DEF PunchEarly, EarlyDone, EsdEnt, EsdFlush, EsdDone, TxtPunch, TxtFlush, TxtTake, TxtDone
  <2>2. Next
    BY <1>3 DEF Next
  <2> QED BY <2>1, <2>2, RelMiddle
<1> QED BY <1>1, <1>2, <1>3, RelPass2, RelSort, RelEnt, RelFlush, RelLast DEF Next

(***************************************************************************)
(* What ld370 makes of the items.                                          *)
(***************************************************************************)

\* One item brings the R and P of another.
LEMMA LeadOne ==
    ASSUME NEW items, NEW n \in Nat, NEW q \in 1..n, Leads(items, q, n), NEW r \in 1..n, Leads(items, r, n)
    PROVE  q = r
<1>1. ~(q < r)
  <2> SUFFICES ASSUME q < r PROVE FALSE
    OBVIOUS
  <2>1. r \in (q + 1)..n
    OBVIOUS
  <2> QED BY <2>1 DEF Leads
<1>2. ~(r < q)
  <2> SUFFICES ASSUME r < q PROVE FALSE
    OBVIOUS
  <2>1. q \in (r + 1)..n
    OBVIOUS
  <2> QED BY <2>1 DEF Leads
<1> QED BY <1>1, <1>2

LEMMA ReadsBack ==
    ASSUME NEW d, NEW p, p[2] \in Nat, NEW r \in Rel, Reads(d, p, r)
    PROVE  /\ ReadReloc(d, p) = r /\ ReadItem(d, p).by = r.by
           /\ Fresh(d[p[1]].items, p[2]) <=> ReadItem(d, p).lead # << >>
<1>a. PICK n \in Nat : n = p[2]
  OBVIOUS
<1>b. PICK items : items = d[p[1]].items
  OBVIOUS
<1>1. items = d[p[1]].items /\ n = p[2]
  BY <1>a, <1>b
<1>2. Shows(items, n, r)
  BY <1>1 DEF Reads
<1>3. PICK q \in 1..n : Leads(items, q, n) /\ items[q].lead = <<r.rel, r.pos>>
  BY <1>2 DEF Shows
<1>4. (CHOOSE z \in 1..n : Leads(items, z, n)) = q
  BY <1>3, LeadOne
<1>5. PICK lead : lead = items[CHOOSE z \in 1..n : Leads(items, z, n)].lead
  OBVIOUS
<1>6. lead[1] = r.rel /\ lead[2] = r.pos
  <2>1. lead = items[q].lead
    BY <1>4, <1>5
  <2>2. lead = <<r.rel, r.pos>>
    BY <1>3, <2>1
  <2> QED BY <2>2
<1>7. ReadReloc(d, p) = [rel |-> lead[1], pos |-> lead[2], addr |-> items[n].addr, by |-> items[n].by]
  BY <1>1, <1>5 DEF ReadReloc
<1>8. items[n].addr = r.addr /\ items[n].by = r.by /\ (Fresh(items, n) <=> items[n].lead # << >>)
  BY <1>2 DEF Shows
<1>9. r = [rel |-> r.rel, pos |-> r.pos, addr |-> r.addr, by |-> r.by]
  BY DEF Rel
<1>10. ReadReloc(d, p) = r
  BY <1>6, <1>7, <1>8, <1>9
<1> QED BY <1>1, <1>8, <1>10 DEF ReadItem

\* The external a constant names: its ER entry.
LEMMA ExternalRead ==
    ASSUME NEW a, IsAssembly(a), NEW d, Decked(a, d, Len(a.esd), 0, << >>), NEW s, Declared(a, s, {"ER"}),
           NEW isV \in BOOLEAN, NEW cur, isV \/ a.def[s].kind = "external"
    PROVE  Known(d, RelEsdid(a, s, isV, cur), s, {"ER", "WX"})
<1> DEFINE ers == {m \in EntriesOf(a, s) : a.esd[m].role = "ER"}
           sects == {m \in EntriesOf(a, s) : IsSect(a, m)}
<1>1. PICK q \in Entries(a) : a.esd[q].sym = s /\ a.esd[q].role = "ER"
  BY DEF Declared, Entries
<1>2. q \in ers /\ q \in EntriesOf(a, s)
  BY <1>1 DEF EntriesOf, IsNumbered
<1>3. ASSUME NEW m \in ers PROVE Known(d, Esdid(a, m), s, {"ER", "WX"})
  <2>1. m \in Entries(a) /\ IsNumbered(a, m) /\ a.esd[m].sym = s /\ a.esd[m].role = "ER"
    BY DEF EntriesOf
  <2>2. m \in 1..Len(a.esd)
    BY <2>1, EsdidTyped
  <2>3. EsdEntry(a, m).type \in {"ER", "WX"}
    BY <2>1, <2>2, EntryIs
  <2> QED BY <2>1, <2>3, EntryKnown
<1>4. ers \subseteq Nat /\ EntriesOf(a, s) \subseteq Nat
  BY EsdidTyped DEF EntriesOf
<1>5. CASE isV
  <2>1. Lowest(ers) \in ers
    <3> HIDE DEF ers
    <3> QED BY <1>2, <1>4, LowestIs
  <2>2. RelEsdid(a, s, isV, cur) = Esdid(a, Lowest(ers))
    BY <1>2, <1>5 DEF RelEsdid
  <2>3. Known(d, Esdid(a, Lowest(ers)), s, {"ER", "WX"})
    <3> HIDE DEF ers
    <3> QED BY <1>3, <2>1
  <2> QED BY <2>2, <2>3
<1>6. CASE ~isV
  <2>1. a.def[s].kind = "external"
    BY <1>6
  <2>2. ASSUME NEW m \in EntriesOf(a, s) PROVE m \in ers /\ m \notin sects
    <3>1. m \in Entries(a) /\ a.esd[m].sym = s /\ a.esd[m].role # "LD"
      BY DEF EntriesOf, IsNumbered
    <3>2. a.esd[m].role \in {"SECT", "CM", "XD", "ER", "LD"} /\ EntrySound(a, a.esd[m])
      BY <3>1, EsdidTyped
    <3>3. a.esd[m].role = "ER"
      BY <2>1, <3>1, <3>2 DEF EntrySound
    <3> QED BY <3>1, <3>3 DEF IsSect
  <2>3. sects = {}
    BY <2>2
  <2>4. PICK m : m = Lowest(EntriesOf(a, s))
    OBVIOUS
  <2>5. m \in EntriesOf(a, s)
    BY <1>2, <1>4, <2>4, LowestIs
  <2>6. SymEsdid(a, s) = Esdid(a, m)
    BY <1>2, <2>3, <2>4 DEF SymEsdid
  <2>7. m \in Entries(a) /\ IsNumbered(a, m)
    BY <2>5 DEF EntriesOf
  <2>8. SymEsdid(a, s) # 0
    BY <2>6, <2>7, EsdidPositive
  <2>9. RelEsdid(a, s, isV, cur) = SymEsdid(a, s)
    BY <1>6, <2>1, <2>8 DEF RelEsdid
  <2>10. m \in ers
    BY <2>2, <2>5
  <2>11. Known(d, Esdid(a, m), s, {"ER", "WX"})
    BY <1>3, <2>10
  <2> QED BY <2>6, <2>9, <2>11
<1> QED BY <1>5, <1>6

\* The section an A-con's symbol is in.
LEMMA SectionRead ==
    ASSUME NEW a, IsAssembly(a), NEW d, Decked(a, d, Len(a.esd), 0, << >>), NEW s, NEW t, t = a.def[s].sect,
           Declared(a, t, {"SECT", "CM"}), a.def[s].kind \in {"SD", "PC"} => t = s,
           a.def[s].kind \in {"label", "SD", "PC"}, NEW cur
    PROVE  Known(d, RelEsdid(a, s, FALSE, cur), t, {"SD", "PC", "CM"})
<1>1. SymEsdid(a, t) # 0 /\ SectEsdidOf(a, t) = SymEsdid(a, t)
  BY SectKnown
<1>2. RelEsdid(a, s, FALSE, cur) = SymEsdid(a, t)
  BY <1>1 DEF RelEsdid
<1> QED BY <1>2, SectRead

\* Relocation x, read from deck d, is that of constant st, whose symbol is f.
Aims(d, x, st, f) ==
    /\ x.addr = st.at /\ Known(d, x.pos, st.sect, {"SD", "PC"})
    /\ ~st.isV /\ f.kind \in {"label", "SD", "PC"} => Known(d, x.rel, f.sect, {"SD", "PC", "CM"})
    /\ st.isV \/ f.kind = "external" => Known(d, x.rel, st.target, {"ER", "WX"})

LEMMA TargetRead ==
    ASSUME NEW a, IsAssembly(a), NEW d, Decked(a, d, Len(a.esd), 0, << >>), NEW m \in Adcons(a),
           NEW x, x = RelOf(a, m), NEW st, st = a.stmts[m], NEW f, f = a.def[st.target]
    PROVE  Aims(d, x, st, f)
<1>1. m \in Puts(a) /\ st.target # NoSym /\ st.op = "PUT" /\ m \in DOMAIN a.stmts
  BY DEF Adcons, Puts
<1>2. Declared(a, st.sect, {"SECT"}) /\ AdconSound(a, st)
  BY <1>1 DEF IsAssembly
<1>3. st.isV \in BOOLEAN
  <2>1. st \in Text(a)
    BY <1>1, StmtTyped
  <2> QED BY <2>1 DEF Text
<1>4. x.addr = st.at /\ x.pos = SymEsdid(a, st.sect) /\ x.rel = RelEsdid(a, st.target, st.isV, st.sect)
  BY DEF RelOf
<1>5. Declared(a, st.sect, {"SECT", "CM"})
  BY <1>2 DEF Declared
<1>6. Known(d, x.pos, st.sect, {"SD", "PC"})
  BY <1>2, <1>4, <1>5, SectRead
<1>7. ASSUME ~st.isV, f.kind \in {"label", "SD", "PC"} PROVE Known(d, x.rel, f.sect, {"SD", "PC", "CM"})
  <2>1. Declared(a, f.sect, {"SECT", "CM"}) /\ (f.kind \in {"SD", "PC"} => f.sect = st.target)
    BY <1>2, <1>7 DEF AdconSound
  <2>2. st.isV = FALSE
    BY <1>3, <1>7
  <2>3. Known(d, RelEsdid(a, st.target, FALSE, st.sect), f.sect, {"SD", "PC", "CM"})
    BY <1>7, <2>1, SectionRead
  <2> QED BY <1>4, <2>2, <2>3
<1>8. ASSUME st.isV \/ f.kind = "external" PROVE Known(d, x.rel, st.target, {"ER", "WX"})
  <2>1. Declared(a, st.target, {"ER"})
    BY <1>2, <1>8 DEF AdconSound
  <2>2. Known(d, RelEsdid(a, st.target, st.isV, st.sect), st.target, {"ER", "WX"})
    BY <1>3, <1>8, <2>1, ExternalRead
  <2> QED BY <1>4, <2>2
<1> QED BY <1>4, <1>6, <1>7, <1>8 DEF Aims

\* ld370 reads the relocations pass 2 noted down, each once, sorted, under the ESDIDs
\* of the section they are in and of what they refer to: however the items fall on
\* cards and whichever omit their R and P.
THEOREM RelocationsAsAssembled == Spec => []RelocationsReadBack
<1>1. Init => TextInv /\ EsdInv /\ RelInv
  BY TextInit, EsdInit, RelInit
<1>2. TextInv /\ EsdInv /\ RelInv /\ [Next]_vars => TextInv' /\ EsdInv' /\ RelInv'
  BY TextStep, EsdStep, RelStep
<1>3. TextInv /\ EsdInv /\ RelInv => RelocationsReadBack
  <2> SUFFICES ASSUME TextInv, EsdInv, RelInv, pc = "done" PROVE RelocationsReadBack
    BY DEF RelocationsReadBack, Finished
  <2>1. /\ IsAssembly(asm) /\ Decked(asm, deck, Len(asm.esd), 0, << >>) /\ Listed(asm, rels)
        /\ Placed(rels, deck, Len(rels)) /\ IsSeq(deck)
    BY DEF TextInv, Base, EsdInv, RelInv
  <2>2. PICK rs \in Seq(Rel) : rs = rels
    BY <2>1 DEF Listed, Relocs
  <2>3. PICK N \in Nat : N = Len(rs) /\ DOMAIN rs = 1..N
    OBVIOUS
  <2>4. /\ \A x \in 1..N : rs[x] \in Rel /\ rs[x].by \in Adcons(asm) /\ rs[x] = RelOf(asm, rs[x].by)
        /\ \A m \in Adcons(asm) : \E x \in 1..N : rs[x].by = m
    <3>1. \A m \in Adcons(asm) : m < Len(asm.stmts) + 1
      BY <2>1, StmtTyped DEF Adcons
    <3> QED BY <2>1, <2>2, <2>3, <3>1 DEF Listed, Relocs
  <2>5. /\ \A p \in ReadRld(deck) : \E x \in 1..N : Reads(deck, p, rs[x])
        /\ \A x \in 1..N : \E p \in ReadRld(deck) : Reads(deck, p, rs[x])
        /\ \A p, q \in ReadRld(deck) : \A x, y \in 1..N : Earlier(p, q) /\ Reads(deck, p, rs[x]) /\ Reads(deck, q, rs[y]) => x < y
    BY <2>1, <2>2, <2>3 DEF Placed
  <2>6. ASSUME NEW p \in ReadRld(deck) PROVE p = <<p[1], p[2]>> /\ p[1] \in Nat /\ p[2] \in Nat
    <3>1. PICK c \in Cards(deck, "RLD") : p \in {c} \X DOMAIN deck[c].items
      BY DEF ReadRld
    <3>2. PICK items : items = deck[c].items
      OBVIOUS
    <3>3. PICK S : items \in Seq(S)
      BY <2>1, <3>2 DEF Placed, IsSeq
    <3>4. c \in Nat
      <4>1. PICK T : deck \in Seq(T)
        BY <2>1 DEF IsSeq
      <4>2. c \in DOMAIN deck
        BY DEF Cards
      <4> QED BY <4>1, <4>2
    <3>5. DOMAIN items = 1..Len(items)
      BY <3>3
    <3> QED BY <3>1, <3>2, <3>4, <3>5
  <2>7. ASSUME NEW p \in ReadRld(deck), NEW x \in 1..N, Reads(deck, p, rs[x])
        PROVE  /\ ReadReloc(deck, p) = rs[x] /\ ReadItem(deck, p).by = rs[x].by
               /\ Fresh(deck[p[1]].items, p[2]) <=> ReadItem(deck, p).lead # << >>
    BY <2>4, <2>6, <2>7, ReadsBack
  <2>8. {ReadItem(deck, p).by : p \in ReadRld(deck)} = {m \in Puts(asm) : asm.stmts[m].target # NoSym}
    <3>1. \A p \in ReadRld(deck) : ReadItem(deck, p).by \in Adcons(asm)
      BY <2>4, <2>5, <2>7
    <3>2. ASSUME NEW m \in Adcons(asm) PROVE \E p \in ReadRld(deck) : ReadItem(deck, p).by = m
      <4>1. PICK x \in 1..N : rs[x].by = m
        BY <2>4
      <4>2. PICK p \in ReadRld(deck) : Reads(deck, p, rs[x])
        BY <2>5
      <4>3. ReadItem(deck, p).by = m
        BY <2>7, <4>1, <4>2
      <4> QED BY <4>3
    <3> QED BY <3>1, <3>2 DEF Adcons
  <2>9. ASSUME NEW p \in ReadRld(deck), NEW q \in ReadRld(deck), Earlier(p, q)
        PROVE  /\ ~Before(ReadReloc(deck, q), ReadReloc(deck, p))
               /\ ~Before(ReadReloc(deck, p), ReadReloc(deck, q)) => ReadItem(deck, p).by < ReadItem(deck, q).by
               /\ ReadItem(deck, p).by # ReadItem(deck, q).by
    <3>1. PICK x \in 1..N : Reads(deck, p, rs[x])
      BY <2>5
    <3>2. PICK y \in 1..N : Reads(deck, q, rs[y])
      BY <2>5
    <3>3. x < y
      BY <2>5, <2>9, <3>1, <3>2
    <3>4. ~Before(rs[y], rs[x]) /\ (~Before(rs[x], rs[y]) => rs[x].by < rs[y].by) /\ rs[x].by # rs[y].by
      BY <2>1, <2>2, <2>3, <3>3, ListedOne
    <3> QED BY <2>7, <3>1, <3>2, <3>4
  <2>10. ASSUME NEW p \in ReadRld(deck), NEW q \in ReadRld(deck), p # q
         PROVE  ReadItem(deck, p).by # ReadItem(deck, q).by
    <3>1. Earlier(p, q) \/ Earlier(q, p)
      <4>1. PICK i \in Nat, j \in Nat : i = p[1] /\ j = p[2]
        BY <2>6
      <4>2. PICK u \in Nat, v \in Nat : u = q[1] /\ v = q[2]
        BY <2>6
      <4>3. i # u \/ j # v
        BY <2>6, <2>10, <4>1, <4>2
      <4> QED BY <4>1, <4>2, <4>3 DEF Earlier
    <3> QED BY <2>9, <3>1
  <2>11. \A p \in ReadRld(deck) : Fresh(deck[p[1]].items, p[2]) <=> ReadItem(deck, p).lead # << >>
    BY <2>5, <2>7
  <2>12. ASSUME NEW p \in ReadRld(deck), NEW x, x = ReadReloc(deck, p), NEW st, st = asm.stmts[x.by],
                NEW d, d = asm.def[st.target]
         PROVE  /\ x.addr = st.at /\ Known(deck, x.pos, st.sect, {"SD", "PC"})
                /\ ~st.isV /\ d.kind \in {"label", "SD", "PC"} => Known(deck, x.rel, d.sect, {"SD", "PC", "CM"})
                /\ st.isV \/ d.kind = "external" => Known(deck, x.rel, st.target, {"ER", "WX"})
    <3>1. PICK y \in 1..N : Reads(deck, p, rs[y])
      BY <2>5
    <3>2. x = rs[y] /\ x.by \in Adcons(asm) /\ x = RelOf(asm, x.by)
      BY <2>4, <2>7, <2>12, <3>1
    <3>3. PICK m \in Adcons(asm) : m = x.by
      BY <3>2
    <3>4. x = RelOf(asm, m) /\ st = asm.stmts[m] /\ d = asm.def[st.target]
      BY <2>12, <3>2, <3>3
    <3>5. Aims(deck, x, st, d)
      BY <2>1, <3>4, TargetRead
    <3> QED BY <3>5 DEF Aims
  <2>13. \A p \in ReadRld(deck) :
              LET x == ReadReloc(deck, p)
                  st == asm.stmts[x.by]
                  d == asm.def[st.target]
              IN /\ x.addr = st.at /\ Known(deck, x.pos, st.sect, {"SD", "PC"})
                 /\ ~st.isV /\ d.kind \in {"label", "SD", "PC"} => Known(deck, x.rel, d.sect, {"SD", "PC", "CM"})
                 /\ st.isV \/ d.kind = "external" => Known(deck, x.rel, st.target, {"ER", "WX"})
    BY <2>12, Zenon
  <2>14. \A p, q \in ReadRld(deck) : Earlier(p, q) =>
              /\ ~Before(ReadReloc(deck, q), ReadReloc(deck, p))
              /\ ~Before(ReadReloc(deck, p), ReadReloc(deck, q)) => ReadItem(deck, p).by < ReadItem(deck, q).by
    BY <2>9, Zenon
  <2>15. \A p, q \in ReadRld(deck) : p # q => ReadItem(deck, p).by # ReadItem(deck, q).by
    BY <2>10, Zenon
  <2> QED BY <2>8, <2>11, <2>13, <2>14, <2>15 DEF RelocationsReadBack
<1> QED BY <1>1, <1>2, <1>3, PTL DEF Spec

=============================================================================
