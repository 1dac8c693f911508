---------------------------- MODULE LayoutProofs ----------------------------
(***************************************************************************)
(* Proofs about Layout: where the sections, the common areas, the address  *)
(* constants and the entry point end up, and what is warned of, for any    *)
(* objects in any load order.                                              *)
(***************************************************************************)
EXTENDS Layout, CompositeEsdProofs, FiniteSetTheorems

(***************************************************************************)
(* Numbers and finite sets.                                                *)
(***************************************************************************)
HasMax(S) == \E x \in S : \A y \in S : x >= y

\* A finite non-empty set of integers has a greatest element.
LEMMA GreatestNumber ==
    ASSUME NEW S, IsFiniteSet(S), S # {}, S \subseteq Int
    PROVE  HasMax(S)
<1> DEFINE Bad(n) == \E T : /\ IsFiniteSet(T) /\ T # {} /\ T \subseteq Int /\ ~HasMax(T)
                            /\ Cardinality(T) = n
           N == {n \in Nat : Bad(n)}
<1> SUFFICES ASSUME ~HasMax(S) PROVE FALSE
  OBVIOUS
<1>1. Cardinality(S) \in N
  BY FS_CardinalityType
<1>2. PICK n \in N : \A m \in N : n <= m
  <2>1. N \subseteq Nat
    OBVIOUS
  <2> HIDE DEF N
  <2> QED BY <1>1, <2>1, LeastNumber
<1>3. PICK T : /\ IsFiniteSet(T) /\ T # {} /\ T \subseteq Int /\ ~HasMax(T) /\ Cardinality(T) = n
  BY <1>2
<1>4. PICK x \in T : TRUE
  BY <1>3
<1>5. PICK R : R = T \ {x}
  OBVIOUS
<1>6. IsFiniteSet(R) /\ Cardinality(R) = n - 1 /\ Cardinality(R) \in Nat
  BY <1>3, <1>4, <1>5, FS_RemoveElement, FS_CardinalityType
<1>7. R # {}
  <2>1. R = {} => \A y \in T : x >= y
    BY <1>3, <1>4, <1>5
  <2> QED BY <1>3, <1>4, <2>1 DEF HasMax
<1>8. ~HasMax(R)
  <2> SUFFICES ASSUME HasMax(R) PROVE FALSE
    OBVIOUS
  <2>1. PICK y \in R : \A z \in R : y >= z
    BY DEF HasMax
  <2>2. x \in Int /\ y \in Int /\ y \in T /\ \A z \in T : z \in Int /\ (z = x \/ z \in R)
    BY <1>3, <1>4, <1>5, <2>1
  <2>3. CASE x >= y
    <3>1. \A z \in T : x >= z
      BY <2>1, <2>2, <2>3
    <3> QED BY <1>3, <1>4, <3>1 DEF HasMax
  <2>4. CASE ~(x >= y)
    <3>1. \A z \in T : y >= z
      BY <2>1, <2>2, <2>4
    <3> QED BY <1>3, <2>2, <3>1 DEF HasMax
  <2> QED BY <2>3, <2>4
<1>9. Bad(n - 1)
  BY <1>3, <1>5, <1>6, <1>7, <1>8
<1>10. n - 1 \in N
  BY <1>6, <1>9
<1> QED
  BY <1>2, <1>10

\* Max returns it.
LEMMA MaxIs ==
    ASSUME NEW S, IsFiniteSet(S), S # {}, S \subseteq Int
    PROVE  Max(S) \in S /\ \A y \in S : Max(S) >= y
  BY GreatestNumber DEF Max, HasMax

\* The greatest of 0 and the values of a function whose domain is a finite set.
Tops(m, D, f) == m \in Nat /\ (\A d \in D : f[d] <= m) /\ (m = 0 \/ \E d \in D : m = f[d])

\* Max over a finite domain, 0 included.
LEMMA MaxOver ==
    ASSUME NEW D, IsFiniteSet(D), NEW f, DOMAIN f = D, \A d \in D : f[d] \in Int
    PROVE  Tops(Max({0} \cup {f[d] : d \in D}), D, f)
<1> DEFINE T == {f[d] : d \in D}
<1>1. IsFiniteSet(T)
  <2>1. PICK g : g = [d \in D |-> f[d]]
    OBVIOUS
  <2>2. g \in Surjection(D, T)
    BY <2>1 DEF Surjection
  <2> HIDE DEF T
  <2> QED BY <2>2, FS_Surjection
<1> DEFINE S == {0} \cup T
<1>2. IsFiniteSet(S)
  <2>1. S = T \cup {0}
    OBVIOUS
  <2> HIDE DEF T, S
  <2> QED BY <1>1, <2>1, FS_AddElement
<1>3. S \subseteq Int /\ S # {}
  OBVIOUS
<1>4. Max(S) \in S /\ \A y \in S : Max(S) >= y
  <2> HIDE DEF S
  <2> QED BY <1>2, <1>3, MaxIs
<1>5. PICK m : m = Max(S)
  OBVIOUS
<1>6. m \in S /\ \A y \in S : m >= y
  BY <1>4, <1>5
<1>7. Tops(m, D, f)
  <2>1. 0 \in S /\ \A d \in D : f[d] \in S
    OBVIOUS
  <2> QED BY <1>3, <1>6, <2>1 DEF Tops
<1> QED
  BY <1>5, <1>7

\* Rounding up to a doubleword.
LEMMA Rounded ==
    ASSUME NEW v \in Int
    PROVE  roundup8(v) \in Int /\ roundup8(v) % 8 = 0 /\ v <= roundup8(v) /\ roundup8(v) <= v + 7
  BY DEF roundup8

\* A multiple of eight is rounded to itself.
LEMMA RoundedOnce ==
    ASSUME NEW v \in Int, v % 8 = 0
    PROVE  roundup8(v) = v
  BY DEF roundup8

\* Rounded sizes add up to multiples of eight.
LEMMA SumRounded ==
    ASSUME NEW u \in Nat, NEW v \in Int, u % 8 = 0, v % 8 = 0
    PROVE  (u + v) % 8 = 0
  OBVIOUS

(***************************************************************************)
(* What PASS 2 leaves beyond what CompositeEsdProofs shows: a common area  *)
(* belongs to no object, and private code has its entry.                   *)
(***************************************************************************)
CommonsFree == \A k \in DOMAIN G : CommonOf(G[k]) => G[k].def_obj = NoSym

\* PASS 2 never gives a common area to an object.
LEMMA StepCommonsFree ==
    ASSUME EsdType, CommonsFree, EsdStep
    PROVE  CommonsFree'
<1>1. ASSUME NEW k, NEW n, Touches(k, n), CommonOf(G'[k]) => G'[k].def_obj = NoSym
      PROVE  CommonsFree'
  BY <1>1 DEF Touches, Extended, CommonsFree
<1>2. CASE PrivateCode
  BY <1>1, <1>2, PrivateEffect DEF CommonOf, T_PC, T_CM
<1>3. CASE DuplicateSection
  BY <1>3, DuplicateEffect DEF CommonsFree
<1>4. CASE FirstSection
  BY <1>1, <1>4, FirstEffect DEF CommonOf, T_SD, T_CM
<1>5. CASE Common
  <2>1. CommonOf(G'[At]) => G'[At].def_obj = NoSym
    BY <1>5, CommonEffect DEF CommonsFree, Had, CommonOf, CsectOf, T_SD, T_CM
  <2> QED BY <1>1, <1>5, <2>1, CommonEffect
<1>6. CASE Reference
  <2>1. CommonOf(G'[At]) => G'[At].def_obj = NoSym
    BY <1>6, ReferenceEffect DEF CommonsFree, Had, CommonOf, T_ER, T_CM
  <2> QED BY <1>1, <1>6, <2>1, ReferenceEffect
<1>7. CASE FirstLabel
  BY <1>1, <1>7, FirstLabelEffect DEF CommonOf, T_LR, T_CM
<1>8. CASE Unused \/ LocalsDone \/ LabelDropped \/ LabelAgain \/ ObjectDone \/ Check
  BY <1>8, TableKept DEF CommonsFree
<1> QED
  BY <1>2, <1>3, <1>4, <1>5, <1>6, <1>7, <1>8 DEF EsdStep

IsPrivate(g, a, id) ==
    g.is_sect /\ g.type = T_PC /\ g.def_obj = a /\ g.in_addr = O[a].loc[id].addr /\ g.name = Blank
Privates ==
    \A a \in DOMAIN O : \A id \in DOMAIN loc_g[a] :
        O[a].loc[id].type = T_PC => IsPrivate(G[loc_g[a][id]], a, id)

\* PASS 2 leaves private code's entries alone once they are made.
LEMMA StepPrivates ==
    ASSUME EsdType, Plain, Privates, EsdStep
    PROVE  Privates'
<1>0. O' = O
  BY StepType
<1>1. ASSUME NEW k, NEW n, Touches(k, n), k \in DOMAIN G => n # Blank,
             NEW a \in DOMAIN O, NEW id \in DOMAIN loc_g[a], O[a].loc[id].type = T_PC
      PROVE  IsPrivate(G[loc_g[a][id]], a, id)' \/ loc_g'[a][id] # loc_g[a][id]
  <2>1. loc_g[a][id] \in DOMAIN G
    BY <1>1 DEF EsdType
  <2>2. loc_g[a][id] # k
    BY <1>1, <2>1 DEF Privates, IsPrivate, Touches, Extended
  <2>3. G'[loc_g[a][id]] = G[loc_g[a][id]]
    BY <1>1, <2>1, <2>2 DEF Touches, Extended
  <2> QED BY <1>0, <1>1, <2>3 DEF Privates, IsPrivate
<1>2. ASSUME NEW k, Turn(k), k \in DOMAIN G => item.name # Blank,
             item.type = T_PC => IsPrivate(G'[k], i, j)
      PROVE  Privates'
  <2>1. AtLocal /\ Touches(k, item.name) /\ Bind(k)
    BY <1>2 DEF Turn
  <2>2. i \in DOMAIN O /\ item = O[i].loc[j]
    BY <2>1, ItemTyped DEF item
  <2>3. /\ \A a \in DOMAIN O : \A id : id \in DOMAIN loc_g'[a] <=>
               id \in DOMAIN loc_g[a] \/ (a = i /\ id = j)
        /\ \A a \in DOMAIN O : \A id \in DOMAIN loc_g[a] :
               ~(a = i /\ id = j) => loc_g'[a][id] = loc_g[a][id]
        /\ loc_g'[i][j] = k /\ j \notin DOMAIN loc_g[i]
    BY <2>1, Binding
  <2> SUFFICES ASSUME NEW a \in DOMAIN O, NEW id \in DOMAIN loc_g'[a], O[a].loc[id].type = T_PC
               PROVE  IsPrivate(G[loc_g[a][id]], a, id)'
    BY <1>0 DEF Privates
  <2>4. CASE a = i /\ id = j
    BY <1>0, <1>2, <2>2, <2>3, <2>4 DEF IsPrivate
  <2>5. CASE ~(a = i /\ id = j)
    <3>1. id \in DOMAIN loc_g[a] /\ loc_g'[a][id] = loc_g[a][id]
      BY <2>3, <2>5
    <3> QED BY <1>1, <1>2, <2>1, <3>1
  <2> QED BY <2>4, <2>5
<1>3. CASE PrivateCode
  <2>1. AtLocal /\ item.type = T_PC
    BY <1>3 DEF PrivateCode
  <2>2. item.name = Blank /\ item = O[i].loc[j]
    BY <2>1, ItemNamed DEF item
  <2>3. PICK k : k = Len(G) + 1
    OBVIOUS
  <2>4. Turn(k) /\ k \notin DOMAIN G /\ IsPrivate(G'[k], i, j)
    BY <1>3, <2>2, <2>3, ItemTurns, PrivateEffect DEF IsPrivate, Touches, Extended
  <2> QED BY <1>2, <2>4
<1>4. CASE DuplicateSection \/ FirstSection \/ Common \/ Reference
  <2>1. AtLocal /\ item.type # T_PC
    BY <1>4 DEF DuplicateSection, FirstSection, Common, Reference, T_SD, T_PC, T_CM, T_ER, T_WX
  <2>2. item.name # Blank
    BY <2>1, ItemNamed
  <2> QED BY <1>2, <1>4, <2>1, <2>2, ItemTurns
<1>5. CASE FirstLabel
  <2>1. AtLabel /\ loc_g' = loc_g
    BY <1>5 DEF FirstLabel
  <2>2. label.name # Blank
    <3>1. i \in DOMAIN O /\ j \in DOMAIN O[i].ld
      BY <2>1, LabelTyped DEF AtLabel
    <3> QED BY <3>1 DEF Plain, PrivateIsBlank, label
  <2> QED BY <1>0, <1>1, <1>5, <2>1, <2>2, FirstLabelEffect DEF Privates
<1>6. CASE Unused \/ LocalsDone \/ LabelDropped \/ LabelAgain \/ ObjectDone \/ Check
  BY <1>6, TableKept DEF Privates, IsPrivate
<1> QED
  BY <1>3, <1>4, <1>5, <1>6 DEF EsdStep

(***************************************************************************)
(* One object: what compaction takes out, how long it is.                  *)
(***************************************************************************)
LEMMA ObjectTyped ==
    ASSUME EsdType, NEW a \in DOMAIN O
    PROVE  /\ a \in Nat \ {0} /\ IsFiniteSet(DOMAIN O[a].loc)
           /\ \A id \in DOMAIN O[a].loc : /\ id \in Nat /\ O[a].loc[id].addr \in Nat
                                          /\ O[a].loc[id].len \in Nat
           /\ ObjSections(a) \subseteq DOMAIN O[a].loc
<1>1. IsObject(O[a]) /\ a \in Nat \ {0}
  BY DEF EsdType, Objects
<1>2. DOMAIN O[a].loc \subseteq 1..(MAXESD - 1)
  BY <1>1 DEF IsObject
<1>3. IsFiniteSet(1..(MAXESD - 1))
  BY MaxEsdAssumption, FS_Interval
<1>4. IsFiniteSet(DOMAIN O[a].loc)
  BY <1>2, <1>3, FS_Subset
<1>5. \A id \in DOMAIN O[a].loc : O[a].loc[id] \in EsdItem /\ id \in Nat
  BY <1>1, <1>2, MaxEsdAssumption DEF IsObject
<1> QED
  BY <1>1, <1>4, <1>5 DEF EsdItem, ObjSections

\* What is taken out before x is no more than what lies there.
LEMMA RemovedBounded ==
    ASSUME NEW a, NEW x \in Nat
    PROVE  Removed(a, x) \in Nat /\ Removed(a, x) <= x
<1> DEFINE T == {y \in 0..(x - 1) : InDropped(a, y)}
<1>1. IsFiniteSet(0..(x - 1)) /\ Cardinality(0..(x - 1)) = x
  <2>1. IsFiniteSet(0..(x - 1)) /\ Cardinality(0..(x - 1)) = IF 0 > x - 1 THEN 0 ELSE x - 1 - 0 + 1
    BY FS_Interval
  <2> QED BY <2>1
<1>2. T \in SUBSET (0..(x - 1))
  OBVIOUS
<1> HIDE DEF T
<1>3. IsFiniteSet(T) /\ Cardinality(T) <= x
  BY <1>1, <1>2, FS_Subset
<1>4. Cardinality(T) \in Nat
  BY <1>3, FS_CardinalityType
<1> QED
  BY <1>3, <1>4 DEF Removed, T

\* Compaction never moves a section below its object.
LEMMA CompactedTyped ==
    ASSUME EsdType, NEW a \in DOMAIN O, NEW id \in DOMAIN O[a].loc
    PROVE  Compacted(a, id) \in Nat
<1>1. O[a].loc[id].addr \in Nat
  BY ObjectTyped
<1> QED
  BY <1>1, RemovedBounded DEF Compacted

\* The object's size covers every kept section at its new origin.
LEMMA SizeIs ==
    ASSUME EsdType, NEW a \in DOMAIN O, NEW new, DOMAIN new = DOMAIN O[a].loc,
           \A id \in DOMAIN O[a].loc : new[id] \in Int
    PROVE  /\ osize(a, new) \in Nat
           /\ \A id \in ObjSections(a) : Kept(a, id) => new[id] + O[a].loc[id].len <= osize(a, new)
<1> DEFINE D == {x \in ObjSections(a) : Kept(a, x)}
           f == [id \in D |-> new[id] + O[a].loc[id].len]
<1>1. /\ IsFiniteSet(DOMAIN O[a].loc) /\ D \subseteq DOMAIN O[a].loc
      /\ \A id \in DOMAIN O[a].loc : O[a].loc[id].len \in Nat
  BY ObjectTyped
<1>2. DOMAIN f = D /\ \A d \in D : f[d] = new[d] + O[a].loc[d].len
  OBVIOUS
<1>3. osize(a, new) = Max({0} \cup {f[d] : d \in D})
  <2>1. {f[d] : d \in D} = {new[id] + O[a].loc[id].len : id \in D}
    OBVIOUS
  <2> QED BY <2>1 DEF osize
<1>4. \A d \in D : d \in ObjSections(a) /\ Kept(a, d)
  OBVIOUS
<1>5. \A d \in ObjSections(a) : Kept(a, d) => d \in D
  OBVIOUS
<1> HIDE DEF D, f
<1>6. IsFiniteSet(D)
  BY <1>1, FS_Subset
<1>7. \A d \in D : f[d] \in Int
  BY <1>1, <1>2
<1>8. Tops(osize(a, new), D, f)
  BY <1>2, <1>3, <1>6, <1>7, MaxOver
<1> QED
  BY <1>2, <1>5, <1>8 DEF Tops

\* The text covers every section where the deck has it, and reaches no further
\* than the last of them.
LEMMA TextIs ==
    ASSUME EsdType, NEW a \in DOMAIN O
    PROVE  /\ textlen(a) \in Nat
           /\ \A id \in ObjSections(a) : O[a].loc[id].addr + O[a].loc[id].len <= textlen(a)
           /\ \/ textlen(a) = 0
              \/ \E id \in ObjSections(a) : textlen(a) = O[a].loc[id].addr + O[a].loc[id].len
<1> DEFINE D == ObjSections(a)
           f == [id \in D |-> O[a].loc[id].addr + O[a].loc[id].len]
<1>1. /\ IsFiniteSet(DOMAIN O[a].loc) /\ D \subseteq DOMAIN O[a].loc
      /\ \A id \in DOMAIN O[a].loc : O[a].loc[id].len \in Nat /\ O[a].loc[id].addr \in Nat
  BY ObjectTyped
<1>2. DOMAIN f = D /\ \A d \in D : f[d] = O[a].loc[d].addr + O[a].loc[d].len
  OBVIOUS
<1>3. textlen(a) = Max({0} \cup {f[d] : d \in D})
  <2>1. {f[d] : d \in D} = {O[a].loc[id].addr + O[a].loc[id].len : id \in D}
    OBVIOUS
  <2> QED BY <2>1 DEF textlen
<1> HIDE DEF D, f
<1>4. IsFiniteSet(D)
  BY <1>1, FS_Subset
<1>5. \A d \in D : f[d] \in Int
  BY <1>1, <1>2
<1>6. Tops(textlen(a), D, f)
  BY <1>2, <1>3, <1>4, <1>5, MaxOver
<1> QED
  BY <1>2, <1>6 DEF D, Tops

(***************************************************************************)
(* What the stages do to the table: entries are given another place and    *)
(* nothing else.                                                           *)
(***************************************************************************)
Moved(g, h, x) == h = [g EXCEPT !.in_addr = x]
SameButPlace(g, h) ==
    /\ h \in GSym /\ h.name = g.name /\ h.type = g.type /\ h.is_sect = g.is_sect
    /\ h.len = g.len /\ h.def_obj = g.def_obj /\ h.owner = g.owner

\* Moving an entry changes nothing else of it.
LEMMA MovedKeeps ==
    ASSUME NEW g \in GSym, NEW x \in Int, NEW h, Moved(g, h, x)
    PROVE  SameButPlace(g, h) /\ h.in_addr = x
  BY DEF Moved, SameButPlace, GSym

\* The table after PlaceObject.
PlacedTable ==
    /\ G' \in Seq(GSym) /\ Len(G') = Len(G) /\ DOMAIN G' = DOMAIN G
    /\ \A k \in DOMAIN G : SameButPlace(G[k], G'[k])
    /\ \A k \in DOMAIN G :
          IF has_drop(at) /\ \E id \in Moves(at) : loc_g[at][id] = k
          THEN \E id \in Moves(at) : loc_g[at][id] = k /\ G'[k].in_addr = Compacted(at, id)
          ELSE G'[k] = G[k]

\* Placing an object moves entries of its own sections only.
LEMMA PlaceTable ==
    ASSUME EsdType, PlaceObject, at \in Nat \ {0}
    PROVE  PlacedTable
<1>1. at \in DOMAIN O /\ G \in Seq(GSym)
  BY DEF PlaceObject, EsdType, Objects
<1> DEFINE new == [id \in DOMAIN O[at].loc |-> Compacted(at, id)]
           Same(k) == {id \in Moves(at) : loc_g[at][id] = k}
<1>2. G' = [k \in DOMAIN G |->
              IF has_drop(at) /\ \E id \in Moves(at) : loc_g[at][id] = k
              THEN [G[k] EXCEPT !.in_addr = new[Max(Same(k))]]
              ELSE G[k]]
  BY DEF PlaceObject
<1>3. ASSUME NEW k, \E id \in Moves(at) : loc_g[at][id] = k
      PROVE  Max(Same(k)) \in Same(k) /\ new[Max(Same(k))] = Compacted(at, Max(Same(k)))
             /\ Compacted(at, Max(Same(k))) \in Int
  <2>1. Same(k) # {} /\ Same(k) \subseteq DOMAIN O[at].loc
    BY <1>1, <1>3, ObjectTyped DEF Moves
  <2>2. IsFiniteSet(DOMAIN O[at].loc) /\ DOMAIN O[at].loc \subseteq Int
    BY <1>1, ObjectTyped
  <2>3. PICK T : T = Same(k)
    OBVIOUS
  <2>4. T # {} /\ T \subseteq DOMAIN O[at].loc
    BY <2>1, <2>3
  <2>5. IsFiniteSet(T) /\ T \subseteq Int
    BY <2>2, <2>4, FS_Subset
  <2>6. Max(T) \in T
    BY <2>4, <2>5, MaxIs
  <2>7. Max(T) \in DOMAIN O[at].loc
    BY <2>4, <2>6
  <2>8. Compacted(at, Max(T)) \in Nat
    BY <1>1, <2>7, CompactedTyped
  <2> QED BY <2>3, <2>6, <2>7, <2>8
<1>4. ASSUME NEW k \in DOMAIN G, has_drop(at), \E id \in Moves(at) : loc_g[at][id] = k
      PROVE  /\ SameButPlace(G[k], G'[k])
             /\ \E id \in Moves(at) : loc_g[at][id] = k /\ G'[k].in_addr = Compacted(at, id)
  <2>1. PICK m : m = Max(Same(k))
    OBVIOUS
  <2>2. m \in Moves(at) /\ loc_g[at][m] = k /\ new[m] = Compacted(at, m) /\ Compacted(at, m) \in Int
    BY <1>3, <1>4, <2>1
  <2>3. G'[k] = [G[k] EXCEPT !.in_addr = new[m]]
    BY <1>2, <1>4, <2>1
  <2>4. PICK x : x = Compacted(at, m)
    OBVIOUS
  <2>5. Moved(G[k], G'[k], x) /\ G[k] \in GSym /\ x \in Int
    BY <1>1, <1>4, <2>2, <2>3, <2>4 DEF Moved
  <2>6. SameButPlace(G[k], G'[k]) /\ G'[k].in_addr = x
    BY <2>5, MovedKeeps
  <2> QED BY <2>2, <2>4, <2>6
<1>5. ASSUME NEW k \in DOMAIN G, ~(has_drop(at) /\ \E id \in Moves(at) : loc_g[at][id] = k)
      PROVE  G'[k] = G[k] /\ SameButPlace(G[k], G'[k])
  <2>1. G'[k] = G[k]
    BY <1>2, <1>5
  <2> QED BY <1>1, <2>1 DEF SameButPlace
<1>6. DOMAIN G' = DOMAIN G
  BY <1>2
<1>7. \A k \in DOMAIN G : G'[k] \in GSym
  BY <1>4, <1>5 DEF SameButPlace
<1>8. G' \in Seq(GSym) /\ Len(G') = Len(G)
  <2>1. PICK n \in Nat : n = Len(G) /\ DOMAIN G = 1..n
    BY <1>1
  <2>2. G' = [k \in 1..n |-> G'[k]]
    BY <1>2, <2>1
  <2>3. \A k \in 1..n : G'[k] \in GSym
    BY <1>7, <2>1
  <2>4. G' \in [1..n -> GSym]
    BY <2>2, <2>3
  <2>5. G' \in Seq(GSym)
    BY <2>4
  <2> QED BY <1>6, <2>1, <2>5
<1> QED
  BY <1>4, <1>5, <1>6, <1>8 DEF PlacedTable

\* The table after PlaceCommon: the common area it is at is given its place.
LEMMA CommonTable ==
    ASSUME EsdType, PlaceCommon, at \in Nat \ {0}, running \in Nat
    PROVE  /\ at \in DOMAIN G
           /\ G' \in Seq(GSym) /\ Len(G') = Len(G) /\ DOMAIN G' = DOMAIN G
           /\ \A k \in DOMAIN G : SameButPlace(G[k], G'[k])
           /\ \A k \in DOMAIN G : k # at \/ ~CommonOf(G[k]) => G'[k] = G[k]
           /\ CommonOf(G[at]) => G'[at].in_addr = roundup8(running)
<1>1. G \in Seq(GSym) /\ at \in DOMAIN G
  BY DEF PlaceCommon, EsdType
<1>2. \A k \in DOMAIN G : G[k] \in GSym /\ SameButPlace(G[k], G[k])
  BY <1>1 DEF SameButPlace
<1>3. CASE ~CommonOf(G[at])
  BY <1>1, <1>2, <1>3 DEF PlaceCommon
<1>4. CASE CommonOf(G[at])
  <2>1. PICK x : x = roundup8(running)
    OBVIOUS
  <2>2. PICK h : Moved(G[at], h, x)
    BY DEF Moved
  <2>3. G' = [G EXCEPT ![at] = h]
    BY <1>4, <2>1, <2>2 DEF PlaceCommon, Moved
  <2>4. x \in Int
    BY <2>1, Rounded
  <2>5. SameButPlace(G[at], h) /\ h.in_addr = x
    BY <1>1, <1>2, <2>2, <2>4, MovedKeeps
  <2>6. h \in GSym
    BY <2>5 DEF SameButPlace
  <2>7. G' \in Seq(GSym) /\ Len(G') = Len(G) /\ DOMAIN G' = DOMAIN G
    BY <1>1, <2>3, <2>6
  <2>8. G'[at] = h /\ \A k \in DOMAIN G : k # at => G'[k] = G[k]
    BY <1>1, <2>3
  <2> QED BY <1>1, <1>2, <1>4, <2>1, <2>5, <2>7, <2>8
<1> QED
  BY <1>3, <1>4

(***************************************************************************)
(* The stages: objects one behind the other, then the common areas.        *)
(***************************************************************************)
Laid == stage \notin {"objects", "commons"}

Frame ==
    /\ stage \in {"objects", "commons", "entry", "reserve", "copy", "relocate", "built", "failed"}
    /\ pc # "resolved" => stage = "objects" /\ at = 1
    /\ at \in Nat \ {0}
    /\ DOMAIN newaddr = DOMAIN O /\ object_base \in Seq(Nat)
    /\ stage = "objects" => Len(object_base) = at - 1 /\ at <= Len(O) + 1 /\ running % 8 = 0
    /\ stage # "objects" => Len(object_base) = Len(O) /\ textend <= running
    /\ running \in Nat /\ textend \in Nat /\ modlen \in Nat
    /\ Laid => running <= modlen

\* An object placed holds its compacted sections before the next one begins.
Size(b) == osize(b, newaddr[b])
Compacts(b) == newaddr[b] = [id \in DOMAIN O[b].loc |-> Compacted(b, id)]
Stacked ==
    \A b \in DOMAIN object_base :
        /\ Compacts(b)
        /\ object_base[b] + Size(b) <= IF stage = "objects" THEN running ELSE textend
        /\ \A c \in DOMAIN object_base : b < c => object_base[b] + Size(b) <= object_base[c]

\* The common areas before entry n lie behind the text, in order.
CommonsBefore(n) ==
    \A k \in DOMAIN G : k < n /\ CommonOf(G[k]) =>
        /\ G[k].in_addr % 8 = 0 /\ G[k].in_addr >= textend /\ G[k].in_addr + G[k].len <= running
        /\ \A m \in DOMAIN G : m < k /\ CommonOf(G[m]) => G[m].in_addr + G[m].len <= G[k].in_addr
CommonsIn ==
    /\ stage = "commons" => CommonsBefore(at)
    /\ Laid => CommonsBefore(Len(G) + 1) /\ \A k \in DOMAIN G : CommonOf(G[k]) => org[k] = G[k].in_addr

LayInv == EsdType /\ CommonsFree /\ Frame /\ Stacked /\ CommonsIn

\* Entries that only change place keep the table's type.
LEMMA TypeMoved ==
    ASSUME EsdType, UNCHANGED <<O, loc_g, dropped, i, j, pc, ncomerr>>, nwarn' \in Nat,
           G' \in Seq(GSym), Len(G') = Len(G), DOMAIN G' = DOMAIN G,
           \A k \in DOMAIN G : SameButPlace(G[k], G'[k])
    PROVE  /\ EsdType' /\ (CommonsFree => CommonsFree')
           /\ \A k \in DOMAIN G : CommonOf(G'[k]) <=> CommonOf(G[k])
<1>1. \A k \in DOMAIN G' : G'[k].owner \in 0..Len(G')
  BY DEF EsdType, SameButPlace
<1>2. \A a, id : SeenLoc(a, id)' <=> SeenLoc(a, id)
  BY DEF SeenLoc
<1>3. EsdType'
  BY <1>1, <1>2 DEF EsdType, Objects, Done
<1>4. \A k \in DOMAIN G : CommonOf(G'[k]) <=> CommonOf(G[k])
  BY DEF SameButPlace, CommonOf
<1> QED
  BY <1>3, <1>4 DEF CommonsFree, SameButPlace

\* Compaction and size are read off what stays as it is after PASS 2.
LEMMA SizeKept ==
    ASSUME UNCHANGED <<O, dropped>>
    PROVE  /\ \A b : has_drop(b)' <=> has_drop(b)
           /\ \A b : ObjSections(b)' = ObjSections(b) /\ textlen(b)' = textlen(b)
           /\ \A b, id : Compacted(b, id)' = Compacted(b, id) /\ (Kept(b, id)' <=> Kept(b, id))
           /\ \A b, new : osize(b, new)' = osize(b, new)
           /\ \A b : Copied(b)' = Copied(b)
           /\ \A b, id : CopyLen(b, id)' = CopyLen(b, id)
<1>1. \A b : (has_drop(b)' <=> has_drop(b)) /\ ObjSections(b)' = ObjSections(b)
  BY DEF has_drop, ObjSections
<1>2. \A b, id : Kept(b, id)' <=> Kept(b, id)
  BY DEF Kept
<1>3. \A b, y : InDropped(b, y)' <=> InDropped(b, y)
  BY <1>1, <1>2 DEF InDropped, Origins, Speaker
<1>4. \A b, id : Compacted(b, id)' = Compacted(b, id)
  BY <1>1, <1>3 DEF Compacted, Removed
<1>5. \A b, new : osize(b, new)' = osize(b, new)
  BY <1>1, <1>2 DEF osize
<1>6. \A b : textlen(b)' = textlen(b)
  BY <1>1 DEF textlen
<1>7. \A b : Copied(b)' = Copied(b)
  BY <1>2, <1>6 DEF Copied
<1>8. \A b, id : CopyLen(b, id)' = CopyLen(b, id)
  BY <1>6 DEF CopyLen
<1> QED
  BY <1>1, <1>2, <1>4, <1>5, <1>6, <1>7, <1>8

\* PASS 2 is over before anything is placed.
LEMMA PassOpen ==
    ASSUME EsdStep
    PROVE  pc \notin {"resolved", "failed"}
  BY DEF EsdStep, Unused, PrivateCode, DuplicateSection, FirstSection, Common, Reference, LocalsDone,
         LabelDropped, LabelAgain, FirstLabel, ObjectDone, Check, AtLocal, AtLabel

\* Nothing is placed yet.
LEMMA LayStarts ==
    ASSUME LayInit
    PROVE  LayInv
<1>1. /\ Objects /\ G = << >> /\ loc_g = [k \in DOMAIN O |-> << >>] /\ dropped = {}
      /\ i = 1 /\ j = 1 /\ pc = "loc" /\ ncomerr = 0 /\ nwarn \in Nat
  BY InputsAssumption DEF LayInit, Init, Objects
<1>2. EsdType
  BY <1>1, StartsMerged
<1>3. DOMAIN G = {} /\ DOMAIN object_base = {} /\ object_base \in Seq(Nat) /\ Len(object_base) = 0
  BY <1>1 DEF LayInit
<1>4. Frame
  BY <1>1, <1>3 DEF LayInit, Frame, Laid, Objects
<1> QED
  BY <1>1, <1>2, <1>3, <1>4 DEF LayInit, LayInv, CommonsFree, Stacked, CommonsIn, Laid

\* PASS 2 runs before anything is placed.
LEMMA PassInv ==
    ASSUME LayInv, EsdStep, UNCHANGED layvars
    PROVE  LayInv'
<1>1. EsdType' /\ O' = O
  BY StepType DEF LayInv
<1>2. CommonsFree'
  BY StepCommonsFree DEF LayInv
<1>3. /\ UNCHANGED <<stage, at, newaddr, object_base, running, textend, modlen, org>>
      /\ stage = "objects" /\ at = 1
  BY PassOpen DEF layvars, LayInv, Frame
<1>4. Frame'
  BY <1>1, <1>3 DEF LayInv, Frame, Laid
<1>5. DOMAIN object_base' = {}
  BY <1>3 DEF LayInv, Frame
<1> QED
  BY <1>1, <1>2, <1>3, <1>4, <1>5 DEF LayInv, Stacked, CommonsIn, Laid

\* An object placed starts behind the ones before it.
LEMMA PlaceObjectInv ==
    ASSUME LayInv, PlaceObject
    PROVE  LayInv'
<1>1. EsdType /\ CommonsFree /\ Frame /\ Stacked
  BY DEF LayInv
<1>2. /\ stage = "objects" /\ at <= Len(O) /\ at' = at + 1 /\ pc = "resolved"
      /\ UNCHANGED <<O, loc_g, dropped, i, j, pc, ncomerr, nwarn, stage, textend, modlen, org>>
  BY DEF PlaceObject
<1>3. at \in DOMAIN O /\ at \in Nat \ {0} /\ Len(O) \in Nat
  BY <1>1, <1>2 DEF EsdType, Objects, Frame
<1>0. PICK a : a = at
  OBVIOUS
<1>4. PlacedTable
  BY <1>1, <1>3, PlaceTable
<1>5. EsdType' /\ CommonsFree'
  <2>1. nwarn' \in Nat
    BY <1>1, <1>2 DEF EsdType
  <2> QED BY <1>1, <1>2, <1>4, <2>1, TypeMoved DEF PlacedTable
<1>6. PICK new : new = [id \in DOMAIN O[a].loc |-> Compacted(a, id)]
  OBVIOUS
<1>7. a \in DOMAIN O /\ a \in Nat \ {0} /\ a <= Len(O) /\ Len(O) \in Nat
  BY <1>0, <1>2, <1>3
<1>8. DOMAIN new = DOMAIN O[a].loc /\ \A id \in DOMAIN O[a].loc : new[id] \in Nat
  BY <1>1, <1>7, <1>6, CompactedTyped
<1>9. PICK z : z = osize(a, new)
  OBVIOUS
<1>10. z \in Nat
  BY <1>1, <1>7, <1>8, <1>9, SizeIs
<1>11. /\ newaddr' = [newaddr EXCEPT ![a] = new]
       /\ object_base' = Append(object_base, running)
       /\ running' = running + roundup8(z)
  BY <1>0, <1>6, <1>9 DEF PlaceObject
<1>12. /\ running \in Nat /\ running % 8 = 0 /\ object_base \in Seq(Nat) /\ Len(object_base) = a - 1
       /\ DOMAIN newaddr = DOMAIN O
  BY <1>0, <1>1, <1>2 DEF Frame
<1>13. /\ running' \in Nat /\ running' % 8 = 0 /\ running + z <= running' /\ running <= running'
  <2>1. PICK r : r = roundup8(z)
    OBVIOUS
  <2>2. r \in Int /\ r % 8 = 0 /\ z <= r
    BY <1>10, <2>1, Rounded
  <2>3. (running + r) % 8 = 0
    BY <1>12, <2>2, SumRounded
  <2> QED BY <1>10, <1>11, <1>12, <2>1, <2>2, <2>3
<1>14. /\ object_base' \in Seq(Nat) /\ Len(object_base') = a /\ object_base'[a] = running
       /\ DOMAIN object_base' = 1..a /\ DOMAIN object_base = 1..(a - 1)
       /\ \A b \in 1..(a - 1) : object_base'[b] = object_base[b] /\ object_base[b] \in Nat
  BY <1>7, <1>11, <1>12
<1>15. /\ newaddr'[a] = new /\ DOMAIN newaddr' = DOMAIN O
       /\ \A b \in 1..(a - 1) : newaddr'[b] = newaddr[b]
  <2>1. \A b \in 1..(a - 1) : b # a
    BY <1>7
  <2> QED BY <1>7, <1>11, <1>12, <2>1
<1>16. Frame'
  <2>1. at' \in Nat \ {0} /\ at' <= Len(O) + 1 /\ Len(object_base') = at' - 1
    BY <1>0, <1>2, <1>7, <1>14
  <2>2. textend' \in Nat /\ modlen' \in Nat
    BY <1>1, <1>2 DEF Frame
  <2>3. stage' = "objects" /\ pc' = "resolved" /\ O' = O
    BY <1>2
  <2> QED BY <1>13, <1>14, <1>15, <2>1, <2>2, <2>3 DEF Frame, Laid
<1>17. Size(a)' = z /\ \A b \in 1..(a - 1) : Size(b)' = Size(b)
  <2>1. \A b, n : osize(b, n)' = osize(b, n)
    BY <1>2, SizeKept
  <2> QED BY <1>9, <1>15, <2>1 DEF Size
<1>18. Stacked'
  <2>1. \A b \in 1..a : Compacts(b)'
    <3>1. \A b, id : Compacted(b, id)' = Compacted(b, id)
      BY <1>2, SizeKept
    <3>2. Compacts(a)'
      BY <1>2, <1>6, <1>15, <3>1 DEF Compacts
    <3>3. ASSUME NEW b \in 1..(a - 1) PROVE Compacts(b)'
      <4>1. newaddr[b] = [id \in DOMAIN O[b].loc |-> Compacted(b, id)]
        BY <1>1, <1>14 DEF Stacked, Compacts
      <4> QED BY <1>2, <1>15, <3>1, <4>1 DEF Compacts
    <3> QED BY <1>7, <3>2, <3>3
  <2>2. ASSUME NEW b \in 1..(a - 1)
        PROVE  /\ Size(b) \in Nat /\ object_base[b] + Size(b) <= running
               /\ \A c \in 1..(a - 1) : b < c => object_base[b] + Size(b) <= object_base[c]
    <3>1. /\ Compacts(b) /\ object_base[b] + Size(b) <= running
          /\ \A c \in 1..(a - 1) : b < c => object_base[b] + Size(b) <= object_base[c]
      BY <1>1, <1>2, <1>14 DEF Stacked
    <3>2. b \in DOMAIN O
      BY <1>2, <1>7, <1>1 DEF EsdType, Objects
    <3>3. Size(b) \in Nat
      BY <1>1, <3>1, <3>2, SizeIs, CompactedTyped DEF Compacts, Size
    <3> QED BY <3>1, <3>3
  <2>3. ASSUME NEW b \in 1..a
        PROVE  /\ object_base'[b] + Size(b)' <= running'
               /\ \A c \in 1..a : b < c => object_base'[b] + Size(b)' <= object_base'[c]
    <3>1. CASE b = a
      BY <1>7, <1>13, <1>14, <1>17, <3>1
    <3>2. CASE b # a
      <4>1. b \in 1..(a - 1)
        BY <1>7, <3>2
      <4>2. PICK s : s = Size(b)
        OBVIOUS
      <4>3. /\ object_base'[b] = object_base[b] /\ object_base[b] \in Nat /\ Size(b)' = s
            /\ s \in Nat /\ object_base[b] + s <= running
            /\ \A c \in 1..(a - 1) : b < c => object_base[b] + s <= object_base[c]
        BY <1>14, <1>17, <2>2, <4>1, <4>2
      <4>4. object_base[b] + s <= running'
        BY <1>12, <1>13, <4>3
      <4>5. \A c \in 1..a : c = a \/ c \in 1..(a - 1)
        BY <1>7
      <4> QED BY <1>14, <4>3, <4>4, <4>5
    <3> QED BY <3>1, <3>2
  <2> QED BY <1>2, <1>14, <2>1, <2>3 DEF Stacked
<1> QED
  BY <1>2, <1>5, <1>16, <1>18 DEF LayInv, CommonsIn, Laid

\* The text ends behind the last object.
LEMMA ObjectsPlacedInv ==
    ASSUME LayInv, ObjectsPlaced
    PROVE  LayInv'
<1>1. EsdType /\ CommonsFree /\ Frame /\ Stacked
  BY DEF LayInv
<1>2. /\ stage = "objects" /\ at > Len(O) /\ stage' = "commons" /\ at' = 1 /\ pc = "resolved"
      /\ textend' = roundup8(running) /\ UNCHANGED esdvars
      /\ UNCHANGED <<newaddr, object_base, running, modlen>>
  BY DEF ObjectsPlaced
<1>3. UNCHANGED <<O, G, loc_g, dropped, i, j, pc, ncomerr, nwarn>>
  BY <1>2 DEF esdvars
<1>4. EsdType' /\ CommonsFree'
  BY <1>1, <1>2, <1>3, Stutters DEF CommonsFree
<1>5. textend' = running /\ running \in Nat
  BY <1>1, <1>2, RoundedOnce DEF Frame
<1>6. Frame'
  BY <1>1, <1>2, <1>3, <1>5 DEF Frame, Laid, EsdType, Objects
<1>7. Stacked'
  <2>1. \A b : Size(b)' = Size(b) /\ (Compacts(b)' <=> Compacts(b))
    BY <1>2, <1>3, SizeKept DEF Size, Compacts
  <2> QED BY <1>1, <1>2, <1>5, <2>1 DEF Stacked
<1>8. CommonsIn'
  BY <1>2, <1>3, <1>1 DEF CommonsIn, CommonsBefore, Laid, EsdType
<1> QED
  BY <1>4, <1>6, <1>7, <1>8 DEF LayInv

\* A common area placed starts behind the text and the areas before it.
LEMMA PlaceCommonInv ==
    ASSUME LayInv, PlaceCommon
    PROVE  LayInv'
<1>1. EsdType /\ CommonsFree /\ Frame /\ Stacked /\ CommonsBefore(at)
  BY DEF LayInv, CommonsIn, PlaceCommon
<1>2. /\ stage = "commons" /\ at <= Len(G) /\ at' = at + 1
      /\ UNCHANGED <<O, loc_g, dropped, i, j, pc, ncomerr, nwarn>>
      /\ UNCHANGED <<stage, newaddr, object_base, textend, modlen, org>>
  BY DEF PlaceCommon
<1>3. at \in Nat \ {0} /\ running \in Nat /\ textend \in Nat /\ textend <= running /\ pc = "resolved"
  BY <1>1, <1>2 DEF Frame
<1>4. PICK a \in Nat \ {0} : a = at
  BY <1>3
<1>5. /\ a \in DOMAIN G
      /\ G' \in Seq(GSym) /\ Len(G') = Len(G) /\ DOMAIN G' = DOMAIN G
      /\ \A k \in DOMAIN G : SameButPlace(G[k], G'[k])
      /\ \A k \in DOMAIN G : k # a \/ ~CommonOf(G[k]) => G'[k] = G[k]
      /\ CommonOf(G[a]) => G'[a].in_addr = roundup8(running)
  BY <1>1, <1>3, <1>4, CommonTable
<1>6. EsdType' /\ CommonsFree' /\ \A k \in DOMAIN G : CommonOf(G'[k]) <=> CommonOf(G[k])
  <2>1. nwarn' \in Nat
    BY <1>1, <1>2 DEF EsdType
  <2> QED BY <1>1, <1>2, <1>5, <2>1, TypeMoved
<1>7. /\ \A k \in DOMAIN G : k \in Nat /\ G[k].in_addr \in Int /\ G[k].len \in Nat
      /\ \A k \in DOMAIN G : G'[k].len = G[k].len
  <2>1. \A k \in DOMAIN G : G[k] \in GSym /\ k \in Nat
    BY <1>1 DEF EsdType
  <2> QED BY <1>5, <2>1 DEF GSym, SameButPlace
<1>8. PICK r \in Int : r = roundup8(running) /\ r % 8 = 0 /\ running <= r
  BY <1>3, Rounded
<1>9. /\ running' = IF CommonOf(G[a]) THEN r + G[a].len ELSE running
      /\ running' \in Nat /\ running <= running'
  <2>1. running' = IF CommonOf(G[a]) THEN r + G[a].len ELSE running
    BY <1>4, <1>8 DEF PlaceCommon
  <2>2. r + G[a].len \in Nat /\ running <= r + G[a].len
    BY <1>3, <1>5, <1>7, <1>8
  <2> QED BY <1>3, <2>1, <2>2
<1>10. Frame'
  <2>1. /\ stage' = "commons" /\ pc' = "resolved" /\ O' = O /\ at' \in Nat \ {0}
        /\ newaddr' = newaddr /\ object_base' = object_base /\ textend' = textend /\ modlen' = modlen
    BY <1>2, <1>3
  <2>2. textend <= running'
    BY <1>3, <1>9
  <2>3. /\ DOMAIN newaddr = DOMAIN O /\ object_base \in Seq(Nat) /\ Len(object_base) = Len(O)
        /\ modlen \in Nat
    BY <1>1, <1>2 DEF Frame
  <2> QED BY <1>3, <1>9, <2>1, <2>2, <2>3 DEF Frame, Laid
<1>11. Stacked'
  <2>1. \A b : Size(b)' = Size(b) /\ (Compacts(b)' <=> Compacts(b))
    BY <1>2, SizeKept DEF Size, Compacts
  <2> QED BY <1>1, <1>2, <2>1 DEF Stacked
<1>12. ASSUME NEW k \in DOMAIN G, k < a + 1, CommonOf(G[k])
       PROVE  /\ G'[k].in_addr % 8 = 0 /\ G'[k].in_addr >= textend
              /\ G'[k].in_addr + G'[k].len <= running'
              /\ \A m \in DOMAIN G : m < k /\ CommonOf(G[m]) => G'[m].in_addr + G'[m].len <= G'[k].in_addr
  <2>1. ASSUME NEW m \in DOMAIN G, m < a, CommonOf(G[m])
        PROVE  /\ G'[m] = G[m] /\ G[m].in_addr % 8 = 0 /\ G[m].in_addr >= textend
               /\ G[m].in_addr + G[m].len <= running
               /\ \A h \in DOMAIN G : h < m /\ CommonOf(G[h]) => G[h].in_addr + G[h].len <= G[m].in_addr
    BY <1>1, <1>4, <1>5, <1>7, <2>1 DEF CommonsBefore
  <2>2. CASE k < a
    <3>1. \A m \in DOMAIN G : m < k => m < a
      BY <1>7, <2>2
    <3>2. G[k].in_addr + G[k].len <= running'
      BY <1>3, <1>7, <1>9, <1>12, <2>1, <2>2
    <3> QED BY <1>12, <2>1, <2>2, <3>1, <3>2
  <2>3. CASE k = a
    <3>1. G'[k].in_addr = r /\ G'[k].len = G[k].len /\ running' = r + G[k].len
      BY <1>5, <1>7, <1>8, <1>9, <1>12, <2>3
    <3>2. ASSUME NEW m \in DOMAIN G, m < k, CommonOf(G[m])
          PROVE  G'[m].in_addr + G'[m].len <= r
      <4>1. G'[m] = G[m] /\ G[m].in_addr + G[m].len <= running
        BY <2>1, <2>3, <3>2
      <4> QED BY <1>3, <1>7, <1>8, <4>1
    <3>3. r >= textend /\ r + G[k].len <= r + G[k].len
      BY <1>3, <1>7, <1>8
    <3> QED BY <1>8, <3>1, <3>2, <3>3
  <2> QED BY <1>7, <1>12, <2>2, <2>3
<1>13. CommonsIn'
  <2>1. CommonsBefore(a + 1)'
    BY <1>2, <1>5, <1>6, <1>12 DEF CommonsBefore
  <2>2. at' = a + 1
    BY <1>2, <1>4
  <2> QED BY <1>2, <2>1, <2>2 DEF CommonsIn, Laid
<1> QED
  BY <1>6, <1>10, <1>11, <1>13 DEF LayInv

\* A common area's origin is its place.
LEMMA AssignIdsInv ==
    ASSUME LayInv, AssignIds
    PROVE  LayInv'
<1>1. EsdType /\ CommonsFree /\ Frame /\ Stacked /\ CommonsBefore(at)
  BY DEF LayInv, CommonsIn, AssignIds
<1>2. /\ stage = "commons" /\ at > Len(G) /\ stage' = "entry" /\ at' = at
      /\ modlen' = roundup8(running) /\ UNCHANGED esdvars
      /\ UNCHANGED <<newaddr, object_base, running, textend>>
  BY DEF AssignIds
<1>3. UNCHANGED <<O, G, loc_g, dropped, i, j, pc, ncomerr, nwarn>>
  BY <1>2 DEF esdvars
<1>4. EsdType' /\ CommonsFree'
  BY <1>1, <1>2, <1>3, Stutters DEF CommonsFree
<1>5. running \in Nat /\ modlen' \in Nat /\ running <= modlen'
  <2>1. running \in Nat
    BY <1>1 DEF Frame
  <2>2. modlen' \in Int /\ running <= modlen'
    BY <1>2, <2>1, Rounded
  <2> QED BY <2>1, <2>2
<1>6. Frame'
  BY <1>1, <1>2, <1>3, <1>5 DEF Frame, Laid
<1>7. Stacked'
  <2>1. \A b : Size(b)' = Size(b) /\ (Compacts(b)' <=> Compacts(b))
    BY <1>2, <1>3, SizeKept DEF Size, Compacts
  <2> QED BY <1>1, <1>2, <2>1 DEF Stacked
<1>8. CommonsBefore(Len(G) + 1)'
  <2>1. \A k \in DOMAIN G : k < Len(G) + 1 => k < at
    BY <1>1, <1>2 DEF EsdType, Frame
  <2> QED BY <1>1, <1>2, <1>3, <2>1 DEF CommonsBefore
<1>9. \A k \in DOMAIN G : CommonOf(G[k]) => org'[k] = G[k].in_addr
  <2> SUFFICES ASSUME NEW k \in DOMAIN G, CommonOf(G[k]) PROVE org'[k] = G[k].in_addr
    OBVIOUS
  <2>1. k \in Sects /\ G[k].def_obj = NoSym /\ G[k] \in GSym
    BY <1>1 DEF Sects, CommonsFree, CommonOf, EsdType
  <2>2. org'[k] = G[k].in_addr + 0
    BY <2>1 DEF AssignIds
  <2> QED BY <2>1, <2>2 DEF GSym
<1> QED
  BY <1>2, <1>3, <1>4, <1>6, <1>7, <1>8, <1>9 DEF LayInv, CommonsIn, Laid

\* The stages behind: nothing moves any more.
Settled ==
    /\ Laid /\ Laid'
    /\ UNCHANGED <<O, G, loc_g, dropped, i, j, pc, ncomerr>>
    /\ UNCHANGED <<newaddr, object_base, running, textend, modlen, org>>
    /\ stage' \in {"entry", "reserve", "copy", "relocate", "built", "failed"}
    /\ at' \in Nat \ {0} /\ nwarn' \in Nat

\* The steps after origins are assigned are such.
LEMMA Settles ==
    ASSUME LayInv,
           FindEntry \/ NoEntry \/ mod_reserve \/ CopyObject \/ ImageBuilt
           \/ RelocateItem \/ ObjectRelocated \/ ModuleBuilt
    PROVE  Settled
<1>1. at \in Nat \ {0} /\ nwarn \in Nat
  BY DEF LayInv, Frame, EsdType
<1> USE <1>1
<1>2. CASE FindEntry
  BY <1>2 DEF FindEntry, Settled, Laid, esdvars
<1>3. CASE NoEntry
  BY <1>3 DEF NoEntry, Settled, Laid, esdvars
<1>4. CASE mod_reserve
  BY <1>4 DEF mod_reserve, Settled, Laid, esdvars
<1>5. CASE CopyObject
  BY <1>5 DEF CopyObject, Settled, Laid, esdvars
<1>6. CASE ImageBuilt
  BY <1>6 DEF ImageBuilt, Settled, Laid, esdvars
<1>7. CASE RelocateItem
  BY <1>7 DEF RelocateItem, Settled, Laid
<1>8. CASE ObjectRelocated
  BY <1>8 DEF ObjectRelocated, Settled, Laid, esdvars
<1>9. CASE ModuleBuilt
  BY <1>9 DEF ModuleBuilt, Settled, Laid, esdvars
<1> QED
  BY <1>2, <1>3, <1>4, <1>5, <1>6, <1>7, <1>8, <1>9

\* They keep the layout.
LEMMA SettledInv ==
    ASSUME LayInv, Settled
    PROVE  LayInv'
<1>1. EsdType /\ CommonsFree /\ Frame /\ Stacked /\ CommonsIn
  BY DEF LayInv
<1>2. EsdType' /\ CommonsFree'
  <2>1. \A k \in DOMAIN G : SameButPlace(G[k], G'[k])
    BY <1>1 DEF Settled, SameButPlace, EsdType
  <2> QED BY <1>1, <2>1, TypeMoved DEF Settled, EsdType
<1>3. Frame'
  BY <1>1 DEF Settled, Frame, Laid
<1>4. Stacked'
  <2>1. \A b : Size(b)' = Size(b) /\ (Compacts(b)' <=> Compacts(b))
    BY SizeKept DEF Size, Compacts, Settled
  <2> QED BY <1>1, <2>1 DEF Stacked, Settled, Laid
<1>5. CommonsIn'
  BY <1>1 DEF Settled, CommonsIn, CommonsBefore, Laid
<1> QED
  BY <1>2, <1>3, <1>4, <1>5 DEF LayInv

\* Stuttering keeps it.
LEMMA LayStutters ==
    ASSUME LayInv, UNCHANGED vars
    PROVE  LayInv'
<1>1. UNCHANGED esdvars /\ UNCHANGED <<O, G, dropped, stage, at, newaddr, object_base, running,
                                       textend, modlen, org, pc>>
  BY DEF vars, layvars, esdvars
<1>2. EsdType' /\ CommonsFree'
  BY <1>1, Stutters DEF LayInv, CommonsFree
<1>3. Frame' /\ CommonsIn'
  BY <1>1 DEF LayInv, Frame, CommonsIn, CommonsBefore, Laid
<1>4. Stacked'
  <2>1. \A b : Size(b)' = Size(b) /\ (Compacts(b)' <=> Compacts(b))
    BY <1>1, SizeKept DEF Size, Compacts
  <2> QED BY <1>1, <2>1 DEF LayInv, Stacked
<1> QED
  BY <1>2, <1>3, <1>4 DEF LayInv

\* The objects follow one another and the common areas follow them, always.
THEOREM LayInvariant == LaySpec => []LayInv
<1>1. LayInit => LayInv
  BY LayStarts
<1>2. LayInv /\ [LayNext]_vars => LayInv'
  <2> SUFFICES ASSUME LayInv, LayNext \/ UNCHANGED vars PROVE LayInv'
    OBVIOUS
  <2>1. CASE EsdStep /\ UNCHANGED layvars
    BY <2>1, PassInv
  <2>2. CASE LayStep
    BY <2>2, PlaceObjectInv, ObjectsPlacedInv, PlaceCommonInv, AssignIdsInv, Settles, SettledInv
       DEF LayStep
  <2>3. CASE LayDone \/ UNCHANGED vars
    BY <2>3, LayStutters DEF LayDone
  <2> QED BY <2>1, <2>2, <2>3 DEF LayNext
<1> QED
  BY <1>1, <1>2, PTL DEF LaySpec

\* Common areas never share a byte with text or with one another, whatever the
\* objects, the names they share and the sections dropped.
THEOREM CommonAreasApart == LaySpec => []CommonsApart
<1>1. LayInv => CommonsApart
  <2> SUFFICES ASSUME LayInv, stage = "built", NEW k \in DOMAIN G, CommonOf(G[k])
               PROVE  /\ org[k] % 8 = 0 /\ org[k] >= textend /\ org[k] + G[k].len <= modlen
                      /\ \A m \in DOMAIN G : m < k /\ CommonOf(G[m]) => org[m] + G[m].len <= org[k]
    BY DEF CommonsApart
  <2>1. Laid /\ running \in Nat /\ modlen \in Nat /\ running <= modlen
    BY DEF Laid, LayInv, Frame
  <2>2. CommonsBefore(Len(G) + 1) /\ \A m \in DOMAIN G : CommonOf(G[m]) => org[m] = G[m].in_addr
    BY <2>1 DEF LayInv, CommonsIn
  <2>3. /\ k < Len(G) + 1 /\ \A m \in DOMAIN G : m < k => m < Len(G) + 1
        /\ G[k] \in GSym
    BY DEF LayInv, EsdType
  <2>4. G[k].in_addr \in Int /\ G[k].len \in Nat
    BY <2>3 DEF GSym
  <2>5. G[k].in_addr + G[k].len <= modlen
    BY <2>1, <2>2, <2>3, <2>4 DEF CommonsBefore
  <2> QED BY <2>2, <2>3, <2>5 DEF CommonsBefore
<1> QED
  BY <1>1, LayInvariant, PTL

(***************************************************************************)
(* Compaction keeps sections apart.  In an object that loses a section no  *)
(* two sections share an origin or overlap, and it has no common area.  An *)
(* empty duplicate would take the span of a kept section at its origin     *)
(* with it (ld370.c 2692), a common area would be copied like text (2786;  *)
(* the run drop_common).                                                   *)
(***************************************************************************)
Tidy(a) ==
    /\ \A x, y \in ObjSections(a) : x # y =>
          /\ O[a].loc[x].addr # O[a].loc[y].addr
          /\ O[a].loc[x].addr < O[a].loc[y].addr => O[a].loc[x].addr + O[a].loc[x].len <= O[a].loc[y].addr
    /\ \A id \in DOMAIN O[a].loc : O[a].loc[id].type # T_CM
Regular == Plain /\ NoMixed /\ \A a \in DOMAIN O : has_drop(a) => Tidy(a)

\* In a tidy object every section speaks for its origin.
LEMMA SpeaksFor ==
    ASSUME EsdType, NEW a \in DOMAIN O, Tidy(a), NEW x \in ObjSections(a)
    PROVE  Speaker(a, O[a].loc[x].addr) = x
<1>1. {id \in ObjSections(a) : O[a].loc[id].addr = O[a].loc[x].addr} = {x}
  BY DEF Tidy
<1>2. x \in Nat
  BY ObjectTyped
<1>3. Min({x}) = x
  BY <1>2 DEF Min
<1> QED
  BY <1>1, <1>3 DEF Speaker

\* No byte of a kept section is taken out.
LEMMA KeptStays ==
    ASSUME EsdType, NEW a \in DOMAIN O, Tidy(a), NEW x \in ObjSections(a), Kept(a, x),
           NEW y \in Nat, O[a].loc[x].addr <= y, y < O[a].loc[x].addr + O[a].loc[x].len
    PROVE  ~InDropped(a, y)
<1> SUFFICES ASSUME InDropped(a, y) PROVE FALSE
  OBVIOUS
<1>1. PICK o \in Origins(a) : /\ o <= y /\ ~Kept(a, Speaker(a, o))
                              /\ \A z \in Origins(a) : z <= y => z <= o
  BY DEF InDropped
<1>2. PICK w \in ObjSections(a) : o = O[a].loc[w].addr
  BY <1>1 DEF Origins
<1>3. O[a].loc[x].addr \in Origins(a)
  BY DEF Origins
<1>4. /\ O[a].loc[x].addr \in Nat /\ O[a].loc[x].len \in Nat /\ o \in Nat
  BY <1>2, ObjectTyped
<1>5. O[a].loc[x].addr <= o
  BY <1>1, <1>3
<1>6. w # x
  BY <1>1, <1>2, SpeaksFor
<1>7. O[a].loc[x].addr + O[a].loc[x].len <= o
  <2>1. O[a].loc[x].addr # o
    BY <1>2, <1>6 DEF Tidy
  <2>2. O[a].loc[x].addr < o
    BY <1>4, <1>5, <2>1
  <2> QED BY <1>2, <1>6, <2>2 DEF Tidy
<1> QED
  BY <1>1, <1>4, <1>7

\* Sections that follow one another still do once compacted.
LEMMA CompactedApart ==
    ASSUME EsdType, NEW a \in DOMAIN O, Tidy(a), has_drop(a),
           NEW x \in ObjSections(a), NEW y \in ObjSections(a), Kept(a, x),
           O[a].loc[x].addr < O[a].loc[y].addr
    PROVE  Compacted(a, x) + O[a].loc[x].len <= Compacted(a, y)
<1>1. PICK p \in Nat, q \in Nat, n \in Nat :
          p = O[a].loc[x].addr /\ q = O[a].loc[y].addr /\ n = O[a].loc[x].len
  BY ObjectTyped
<1>2. p < q /\ p + n <= q
  <2>1. x # y
    BY <1>1
  <2> QED BY <1>1, <2>1 DEF Tidy
<1> DEFINE U == {z \in 0..(p - 1) : InDropped(a, z)}
           V == {z \in 0..(q - 1) : InDropped(a, z)}
           W == (p + n)..(q - 1)
<1>3. V \subseteq U \cup W
  <2> SUFFICES ASSUME NEW z \in V, z \notin U, z \notin W PROVE FALSE
    OBVIOUS
  <2>1. z \in Nat /\ InDropped(a, z) /\ z >= p /\ z < p + n
    BY <1>1, <1>2
  <2> QED BY <1>1, <2>1, KeptStays
<1>4. IsFiniteSet(U) /\ Cardinality(U) = Removed(a, p) /\ Cardinality(V) = Removed(a, q)
  <2>1. IsFiniteSet(0..(p - 1))
    BY FS_Interval
  <2>2. IsFiniteSet(U)
    BY <2>1, FS_Subset
  <2> QED BY <2>2 DEF Removed
<1>5. IsFiniteSet(W) /\ Cardinality(W) = q - p - n
  <2>1. p + n \in Int /\ q - 1 \in Int
    OBVIOUS
  <2>2. IsFiniteSet(W) /\ Cardinality(W) = IF p + n > q - 1 THEN 0 ELSE q - 1 - (p + n) + 1
    BY <2>1, FS_Interval
  <2> HIDE DEF W
  <2> QED BY <1>2, <2>2
<1> HIDE DEF U, V, W
<1>6. Cardinality(V) <= Cardinality(U) + Cardinality(W)
  <2>1. /\ IsFiniteSet(U \cup W)
        /\ Cardinality(U \cup W) = Cardinality(U) + Cardinality(W) - Cardinality(U \cap W)
    BY <1>4, <1>5, FS_Union
  <2>2. Cardinality(U \cap W) \in Nat
    BY <1>4, FS_Intersection, FS_CardinalityType
  <2>3. Cardinality(V) <= Cardinality(U \cup W) /\ IsFiniteSet(V)
    BY <1>3, <2>1, FS_Subset
  <2>4. Cardinality(U) \in Nat /\ Cardinality(W) \in Nat /\ Cardinality(V) \in Nat
    BY <1>4, <1>5, <2>3, FS_CardinalityType
  <2> QED BY <2>1, <2>2, <2>3, <2>4
<1>7. PICK s \in Nat, t \in Nat : s = Removed(a, p) /\ t = Removed(a, q)
  BY RemovedBounded
<1>8. t <= s + (q - p - n)
  BY <1>4, <1>5, <1>6, <1>7
<1>9. Compacted(a, x) = p - s /\ Compacted(a, y) = q - t
  BY <1>1, <1>7 DEF Compacted
<1> QED
  BY <1>1, <1>8, <1>9

(***************************************************************************)
(* The table while addresses are assigned: every kept section is its       *)
(* entry's, where the stage has brought it, and a reference is bound to    *)
(* the first section or label of its name.                                 *)
(***************************************************************************)
Origin(a, id) == IF stage = "objects" /\ a >= at THEN O[a].loc[id].addr ELSE Compacted(a, id)
SectionHeld(a, id) ==
    LET g == G[loc_g[a][id]]
    IN /\ loc_g[a][id] \in DOMAIN G /\ g.is_sect /\ ~CommonOf(g) /\ g.def_obj = a
       /\ g.in_addr = Origin(a, id)
HeldSections ==
    \A a \in DOMAIN O : \A id \in ObjSections(a) : Kept(a, id) => SectionHeld(a, id)
SameSection(a, id, b, y) == loc_g[a][id] = loc_g[b][y] /\ Kept(b, y)
LabelHeld(a, id, b, x) ==
    /\ loc_g[a][id] \in DOMAIN G /\ IsLabel(G[loc_g[a][id]], <<b, x>>) /\ Kept(b, O[b].ld[x].len)
HeldNames ==
    \A n, a, id :
        /\ Is(T_ER, n, a, id) \/ Is(T_SD, n, a, id) =>
              \A b, y : Is(T_SD, n, b, y) /\ FirstSD(b, y) => SameSection(a, id, b, y)
        /\ Is(T_ER, n, a, id) =>
              \A b, x : IsLd(n, b, x) /\ FirstLd(n, b, x) => LabelHeld(a, id, b, x)

\* Load order is antisymmetric.
LEMMA UptoBoth ==
    ASSUME NEW a \in Nat, NEW x \in Nat, NEW b \in Nat, NEW y \in Nat,
           Upto(a, x, b, y), Upto(b, y, a, x)
    PROVE  a = b /\ x = y
  BY DEF Upto

\* PASS 2 leaves every kept section in its own entry.
LEMMA PassSections ==
    ASSUME EsdType, Plain, Merged, Privates, Done, stage = "objects", at = 1
    PROVE  HeldSections
<1> SUFFICES ASSUME NEW a \in DOMAIN O, NEW id \in ObjSections(a), Kept(a, id)
             PROVE  SectionHeld(a, id)
  BY DEF HeldSections
<1>1. id \in DOMAIN O[a].loc /\ O[a].loc[id].type \in {T_SD, T_PC} /\ a >= 1
  BY ObjectTyped DEF ObjSections, is_obj_sect
<1>2. PICK n, t : n = O[a].loc[id].name /\ t = O[a].loc[id].type
  OBVIOUS
<1>3. Is(t, n, a, id)
  BY <1>1, <1>2 DEF Is
<1>4. Met(t, n, a, id)
  BY <1>3, AllMet
<1>5. id \in DOMAIN loc_g[a] /\ loc_g[a][id] \in DOMAIN G
  BY <1>4 DEF Met, EsdType
<1>6. PICK g : g = G[loc_g[a][id]]
  OBVIOUS
<1>7. g.is_sect /\ ~CommonOf(g) /\ g.def_obj = a /\ g.in_addr = O[a].loc[id].addr
  <2>1. CASE t = T_PC
    <3>1. IsPrivate(g, a, id)
      BY <1>2, <1>5, <1>6, <2>1 DEF Privates
    <3> QED BY <3>1 DEF IsPrivate, CommonOf, T_PC, T_CM
  <2>2. CASE t = T_SD
    <3>1. g.name = n /\ n # Blank
      BY <1>2, <1>4, <1>5, <1>6, <2>2, MetHas DEF T_SD, T_PC
    <3>2. Holds(g, n)
      BY <1>5, <1>6, <3>1, EntryOf
    <3>3. CsectOf(g)
      BY <1>4, <2>2, <3>2 DEF Holds, HoldsSection
    <3>4. PICK b, y : Met(T_SD, n, b, y) /\ FirstSD(b, y) /\ IsSection(g, <<b, y>>)
      BY <3>2, <3>3 DEF Holds, HoldsSection
    <3>5. FirstSD(a, id)
      BY <1>4, <2>2 DEF Merged, DroppedAre, Kept
    <3>6. Is(T_SD, n, a, id) /\ Is(T_SD, n, b, y) /\ O[b].loc[y].name = n
      BY <1>3, <2>2, <3>4 DEF Met, Is
    <3>7. Upto(a, id, b, y) /\ Upto(b, y, a, id)
      BY <1>2, <3>4, <3>5, <3>6 DEF FirstSD
    <3>8. a = b /\ id = y
      <4>1. a \in Nat /\ id \in Nat /\ b \in Nat /\ y \in Nat
        BY <3>6, PlacesTyped
      <4> QED BY <3>7, <4>1, UptoBoth
    <3>9. IsSection(g, <<a, id>>)
      BY <3>4, <3>8
    <3> QED BY <3>3, <3>9 DEF IsSection, LocOf, CommonOf, T_SD, T_CM
  <2> QED BY <1>1, <1>2, <2>1, <2>2
<1> QED
  BY <1>1, <1>5, <1>6, <1>7 DEF SectionHeld, Origin

\* PASS 2 leaves every reference with the first section or label of its name,
\* and every later section of a name with the first.
LEMMA PassNames ==
    ASSUME EsdType, Plain, Merged, Done
    PROVE  HeldNames
<1> SUFFICES ASSUME NEW n, NEW a, NEW id, Is(T_ER, n, a, id) \/ Is(T_SD, n, a, id)
             PROVE  /\ \A b, y : Is(T_SD, n, b, y) /\ FirstSD(b, y) => SameSection(a, id, b, y)
                    /\ Is(T_ER, n, a, id) =>
                          \A b, x : IsLd(n, b, x) /\ FirstLd(n, b, x) => LabelHeld(a, id, b, x)
  BY DEF HeldNames
<1>1. Met(T_ER, n, a, id) \/ Met(T_SD, n, a, id)
  BY AllMet
<1>2. PICK k \in DOMAIN G : G[k].name = n /\ k = loc_g[a][id] /\ n # Blank
  BY <1>1, MetHas DEF T_ER, T_SD, T_PC
<1>3. Holds(G[k], n)
  BY <1>2, EntryOf
<1>4. ASSUME NEW b, NEW y, Is(T_SD, n, b, y), FirstSD(b, y)
      PROVE  SameSection(a, id, b, y)
  <2>1. Met(T_SD, n, b, y)
    BY <1>4, AllMet
  <2>2. PICK m \in DOMAIN G : G[m].name = n /\ m = loc_g[b][y]
    BY <2>1, MetHas DEF T_SD, T_PC
  <2>3. m = k
    BY <1>2, <2>2 DEF Merged, OneEntry
  <2>4. Kept(b, y)
    BY <1>4, <2>1 DEF Merged, DroppedAre, Kept
  <2> QED BY <1>2, <2>2, <2>3, <2>4 DEF SameSection
<1>5. ASSUME NEW b, NEW x, IsLd(n, b, x), FirstLd(n, b, x)
      PROVE  LabelHeld(a, id, b, x)
  <2>1. MetLd(n, b, x)
    BY <1>5, AllMet
  <2>2. PICK m \in DOMAIN G : G[m].name = n /\ G[m].type = T_LR
    BY <2>1, MetHas
  <2>3. G[k].type = T_LR
    BY <1>2, <2>2 DEF Merged, OneEntry
  <2>4. PICK c, z : MetLd(n, c, z) /\ FirstLd(n, c, z) /\ IsLabel(G[k], <<c, z>>)
    BY <1>3, <2>3 DEF Holds, HoldsLabel
  <2>5. c = b /\ z = x
    <3>1. /\ b \in DOMAIN O /\ x \in DOMAIN O[b].ld /\ c \in DOMAIN O /\ z \in DOMAIN O[c].ld
      BY <1>5, <2>4 DEF IsLd, MetLd
    <3>2. O[b].ld \in Seq(EsdItem) /\ O[c].ld \in Seq(EsdItem)
      BY <3>1 DEF EsdType, Objects, IsObject
    <3>3. b \in Nat /\ x \in Nat /\ c \in Nat /\ z \in Nat
      <4>1. x \in Nat
        BY <3>1, <3>2
      <4>2. z \in Nat
        BY <3>1, <3>2
      <4> QED BY <3>1, <4>1, <4>2 DEF EsdType, Objects
    <3>4. Upto(b, x, c, z) /\ Upto(c, z, b, x)
      BY <1>5, <2>4 DEF FirstLd, MetLd
    <3> QED BY <3>3, <3>4, UptoBoth
  <2>6. Kept(b, O[b].ld[x].len)
    <3>1. PICK o : o = O[b].ld[x].len
      OBVIOUS
    <3>2. b \in DOMAIN O /\ x \in DOMAIN O[b].ld /\ KeptSection(<<b, o>>) /\ o \in DOMAIN O[b].loc
      BY <1>5, <3>1 DEF IsLd, EsdType, Objects, IsObject
    <3>3. CASE O[b].loc[o].type = T_SD
      <4>1. PICK v : v = O[b].loc[o].name
        OBVIOUS
      <4>2. Is(T_SD, v, b, o)
        BY <3>2, <3>3, <4>1 DEF Is
      <4>3. FirstSD(b, o) /\ Met(T_SD, v, b, o)
        BY <3>2, <4>2, KeptIs, AllMet
      <4>4. <<b, o>> \notin dropped
        BY <4>3 DEF Merged, DroppedAre
      <4> QED BY <3>1, <4>4 DEF Kept
    <3>4. CASE O[b].loc[o].type # T_SD
      <4>1. <<b, o>> \notin dropped
        <5> SUFFICES ASSUME <<b, o>> \in dropped PROVE FALSE
          OBVIOUS
        <5>1. PICK d \in dropped : d = <<b, o>>
          OBVIOUS
        <5>2. O[d[1]].loc[d[2]].type = T_SD
          BY DEF EsdType
        <5> QED BY <3>4, <5>1, <5>2
      <4> QED BY <3>1, <4>1 DEF Kept
    <3> QED BY <3>3, <3>4
  <2> QED BY <1>2, <2>4, <2>5, <2>6 DEF LabelHeld
<1> QED
  BY <1>4, <1>5

Tables == HeldSections /\ HeldNames
AtStart == stage = "objects" /\ at = 1
TabInv ==
    /\ AtStart => Sound /\ (Plain /\ NoMixed => Merged /\ Privates)
    /\ ~AtStart /\ Regular => Tables

\* The tables hold as soon as PASS 2 is over.
LEMMA TablesHold ==
    ASSUME LayInv, TabInv, Regular, pc = "resolved"
    PROVE  Tables
<1>1. CASE AtStart
  <2>1. EsdType /\ Plain /\ Merged /\ Privates /\ Done
    BY <1>1 DEF LayInv, TabInv, Regular, Done
  <2> QED BY <1>1, <2>1, PassSections, PassNames DEF Tables, AtStart
<1>2. CASE ~AtStart
  BY <1>2 DEF TabInv
<1> QED
  BY <1>1, <1>2

\* What Regular and the names' first places depend on stays as it is.
LEMMA RegularKept ==
    ASSUME UNCHANGED <<O, dropped>>
    PROVE  /\ Regular' <=> Regular
           /\ \A t, n, a, id : Is(t, n, a, id)' <=> Is(t, n, a, id)
           /\ \A a, id : FirstSD(a, id)' <=> FirstSD(a, id)
           /\ \A n, a, x : IsLd(n, a, x)' <=> IsLd(n, a, x)
           /\ \A n, a, x : FirstLd(n, a, x)' <=> FirstLd(n, a, x)
<1>1. (Plain' <=> Plain) /\ (NoMixed' <=> NoMixed)
  BY SameMixed DEF Plain
<1>2. \A a : Tidy(a)' <=> Tidy(a)
  BY DEF Tidy, ObjSections
<1>3. \A a : has_drop(a)' <=> has_drop(a)
  BY SizeKept
<1>4. Regular' <=> Regular
  BY <1>1, <1>2, <1>3 DEF Regular
<1>5. \A t, n, a, id : Is(t, n, a, id)' <=> Is(t, n, a, id)
  BY DEF Is
<1>6. \A a, id : FirstSD(a, id)' <=> FirstSD(a, id)
  BY <1>5 DEF FirstSD
<1>7. \A p : KeptSection(p)' <=> KeptSection(p)
  <2>1. \A t, n : Items(t, n)' = Items(t, n)
    BY DEF Items
  <2> QED BY <2>1 DEF KeptSection, LocOf, Earliest, NotAfter
<1>8. \A n, a, x : IsLd(n, a, x)' <=> IsLd(n, a, x)
  BY <1>7 DEF IsLd
<1>9. \A n, a, x : FirstLd(n, a, x)' <=> FirstLd(n, a, x)
  BY <1>8 DEF FirstLd
<1> QED
  BY <1>4, <1>5, <1>6, <1>8, <1>9

\* The names are held when entries that are no sections stay as they are.
LEMMA NamesKept ==
    ASSUME HeldNames, UNCHANGED <<O, loc_g, dropped>>, DOMAIN G' = DOMAIN G,
           \A k \in DOMAIN G : ~G[k].is_sect => G'[k] = G[k]
    PROVE  HeldNames'
<1>1. ASSUME NEW a, NEW id, NEW b, NEW y, SameSection(a, id, b, y) PROVE SameSection(a, id, b, y)'
  BY <1>1 DEF SameSection, Kept
<1>2. ASSUME NEW a, NEW id, NEW b, NEW x, LabelHeld(a, id, b, x) PROVE LabelHeld(a, id, b, x)'
  <2>1. PICK k : k = loc_g[a][id]
    OBVIOUS
  <2>2. k \in DOMAIN G /\ IsLabel(G[k], <<b, x>>) /\ Kept(b, O[b].ld[x].len)
    BY <1>2, <2>1 DEF LabelHeld
  <2>3. G'[k] = G[k]
    BY <2>2 DEF IsLabel
  <2>4. IsLabel(G[k], <<b, x>>)'
    BY <2>2, <2>3 DEF IsLabel
  <2> QED BY <2>1, <2>2, <2>4 DEF LabelHeld, Kept
<1> QED
  BY <1>1, <1>2, RegularKept DEF HeldNames

\* Placing an object moves its kept sections' entries to their compacted origins.
LEMMA PlaceObjectTables ==
    ASSUME LayInv, Tables, Regular, PlaceObject
    PROVE  Tables'
<1>1. EsdType /\ Frame /\ HeldSections /\ HeldNames
  BY DEF LayInv, Tables
<1>2. /\ stage = "objects" /\ at <= Len(O) /\ at' = at + 1 /\ stage' = "objects"
      /\ UNCHANGED <<O, loc_g, dropped>>
  BY DEF PlaceObject
<1>3. PICK c \in Nat \ {0} : c = at
  BY <1>1 DEF Frame
<1>4. PlacedTable /\ c \in DOMAIN O /\ at' = c + 1
  BY <1>1, <1>2, <1>3, PlaceTable DEF EsdType, Objects
<1>5. /\ DOMAIN G' = DOMAIN G
      /\ \A k \in DOMAIN G : SameButPlace(G[k], G'[k])
      /\ \A k \in DOMAIN G :
            IF has_drop(c) /\ \E id \in Moves(c) : loc_g[c][id] = k
            THEN \E id \in Moves(c) : loc_g[c][id] = k /\ G'[k].in_addr = Compacted(c, id)
            ELSE G'[k] = G[k]
  BY <1>3, <1>4 DEF PlacedTable
<1>6. ASSUME NEW a \in DOMAIN O, NEW id \in ObjSections(a), Kept(a, id)
      PROVE  SectionHeld(a, id)'
  <2>1. PICK k : k = loc_g[a][id]
    OBVIOUS
  <2>2. /\ k \in DOMAIN G /\ G[k].is_sect /\ ~CommonOf(G[k]) /\ G[k].def_obj = a
        /\ G[k].in_addr = IF a >= c THEN O[a].loc[id].addr ELSE Compacted(a, id)
    BY <1>1, <1>2, <1>3, <1>6, <2>1 DEF HeldSections, SectionHeld, Origin
  <2>3. G'[k].is_sect /\ ~CommonOf(G'[k]) /\ G'[k].def_obj = a
    BY <1>5, <2>2 DEF SameButPlace, CommonOf
  <2>4. Compacted(a, id)' = Compacted(a, id) /\ a \in Nat
    BY <1>1, <1>2, SizeKept, ObjectTyped
  <2>5. G'[k].in_addr = IF a >= c + 1 THEN O[a].loc[id].addr ELSE Compacted(a, id)
    <3>1. CASE has_drop(c) /\ \E m \in Moves(c) : loc_g[c][m] = k
      <4>1. PICK m \in Moves(c) : loc_g[c][m] = k /\ G'[k].in_addr = Compacted(c, m)
        BY <1>5, <2>2, <3>1
      <4>2. m \in ObjSections(c) /\ Kept(c, m) /\ G[k].def_obj = c
        BY <4>1 DEF Moves
      <4>3. a = c
        BY <2>2, <4>2
      <4>4. G[k].in_addr = O[c].loc[m].addr /\ G[k].in_addr = O[c].loc[id].addr
        BY <1>1, <1>2, <1>3, <1>4, <2>2, <4>1, <4>2, <4>3 DEF HeldSections, SectionHeld, Origin
      <4>5. m = id
        BY <1>4, <1>6, <3>1, <4>2, <4>3, <4>4 DEF Regular, Tidy
      <4> QED BY <2>4, <4>1, <4>3, <4>5
    <3>2. CASE ~(has_drop(c) /\ \E m \in Moves(c) : loc_g[c][m] = k)
      <4>1. G'[k] = G[k]
        BY <1>5, <2>2, <3>2
      <4>2. CASE a = c
        <5>1. id \in Moves(c)
          BY <1>6, <2>1, <2>2, <4>2 DEF Moves
        <5>2. ~has_drop(c)
          BY <2>1, <3>2, <4>2, <5>1
        <5>3. Compacted(a, id) = O[a].loc[id].addr
          BY <4>2, <5>2 DEF Compacted
        <5> QED BY <2>2, <2>4, <4>1, <4>2, <5>3
      <4>3. CASE a # c
        BY <2>2, <2>4, <4>1, <4>3
      <4> QED BY <4>2, <4>3
    <3> QED BY <3>1, <3>2
  <2> QED BY <1>2, <1>4, <1>5, <2>1, <2>2, <2>3, <2>4, <2>5 DEF SectionHeld, Origin
<1>7. HeldSections'
  <2>1. \A a : ObjSections(a)' = ObjSections(a) /\ \A id : Kept(a, id)' <=> Kept(a, id)
    BY <1>2, SizeKept
  <2> QED BY <1>2, <1>6, <2>1 DEF HeldSections
<1>8. HeldNames'
  <2>1. ASSUME NEW k \in DOMAIN G, ~G[k].is_sect PROVE G'[k] = G[k]
    <3>1. ASSUME NEW m \in Moves(c), loc_g[c][m] = k PROVE FALSE
      BY <1>1, <1>4, <2>1, <3>1 DEF Moves, HeldSections, SectionHeld
    <3> QED BY <1>5, <3>1
  <2> QED BY <1>1, <1>2, <1>5, <2>1, NamesKept
<1> QED
  BY <1>7, <1>8 DEF Tables

\* The other steps leave every section where it is.
LEMMA OthersTables ==
    ASSUME Tables, UNCHANGED <<O, loc_g, dropped>>, DOMAIN G' = DOMAIN G,
           \A k \in DOMAIN G : ~CommonOf(G[k]) => G'[k] = G[k],
           \A a \in DOMAIN O : \A id \in ObjSections(a) : Origin(a, id)' = Origin(a, id)
    PROVE  Tables'
<1>1. HeldSections'
  <2>1. \A a : ObjSections(a)' = ObjSections(a) /\ \A id : Kept(a, id)' <=> Kept(a, id)
    BY SizeKept
  <2> SUFFICES ASSUME NEW a \in DOMAIN O, NEW id \in ObjSections(a), Kept(a, id)
               PROVE  SectionHeld(a, id)'
    BY <2>1 DEF HeldSections
  <2>2. PICK k : k = loc_g[a][id]
    OBVIOUS
  <2>3. SectionHeld(a, id) /\ k \in DOMAIN G /\ ~CommonOf(G[k])
    BY <2>2 DEF Tables, HeldSections, SectionHeld
  <2>4. G'[k] = G[k]
    BY <2>3
  <2> QED BY <2>2, <2>3, <2>4 DEF SectionHeld
<1>2. HeldNames'
  BY NamesKept DEF Tables, CommonOf
<1> QED
  BY <1>1, <1>2 DEF Tables

\* The table is empty.
LEMMA TabStarts ==
    ASSUME LayInit
    PROVE  TabInv
<1>1. /\ Objects /\ G = << >> /\ loc_g = [k \in DOMAIN O |-> << >>] /\ dropped = {}
      /\ i = 1 /\ j = 1 /\ pc = "loc" /\ ncomerr = 0 /\ nwarn \in Nat
  BY InputsAssumption DEF LayInit, Init, Objects
<1>2. Sound /\ Merged
  BY <1>1, StartsMerged
<1>3. Privates
  BY <1>1 DEF Privates
<1> QED
  BY <1>2, <1>3 DEF LayInit, TabInv, AtStart

\* Every step keeps the tables.
LEMMA TabSteps ==
    ASSUME LayInv, TabInv, LayNext \/ UNCHANGED vars
    PROVE  TabInv'
<1>0. EsdType /\ Frame
  BY DEF LayInv
<1>1. CASE EsdStep /\ UNCHANGED layvars
  <2>1. AtStart /\ AtStart'
    BY <1>0, <1>1, PassOpen DEF Frame, layvars, AtStart
  <2>2. O' = O /\ Sound'
    BY <1>0, <1>1, <2>1, StepType, StepSound DEF TabInv
  <2>3. (Plain' <=> Plain) /\ (NoMixed' <=> NoMixed)
    BY <2>2, SameMixed DEF Plain
  <2>4. Plain /\ NoMixed => Merged' /\ Privates'
    BY <1>0, <1>1, <2>1, StepMerged, StepPrivates DEF TabInv
  <2> QED BY <2>1, <2>2, <2>3, <2>4 DEF TabInv
<1>2. CASE PlaceObject
  <2>1. pc = "resolved" /\ at' = at + 1 /\ UNCHANGED <<O, dropped>>
    BY <1>2 DEF PlaceObject
  <2>2. ~AtStart'
    BY <1>0, <2>1 DEF Frame, AtStart
  <2>3. Regular => Tables'
    BY <1>2, <2>1, TablesHold, PlaceObjectTables
  <2> QED BY <2>1, <2>2, <2>3, RegularKept DEF TabInv
<1>3. ASSUME pc = "resolved", UNCHANGED <<O, loc_g, dropped>>, stage' # "objects", DOMAIN G' = DOMAIN G,
             \A k \in DOMAIN G : ~CommonOf(G[k]) => G'[k] = G[k],
             stage = "objects" => at > Len(O)
      PROVE  TabInv'
  <2>1. ~AtStart'
    BY <1>3 DEF AtStart
  <2>2. ASSUME NEW a \in DOMAIN O, NEW id \in ObjSections(a) PROVE Origin(a, id)' = Origin(a, id)
    <3>1. Compacted(a, id)' = Compacted(a, id)
      BY <1>3, SizeKept
    <3>2. ~(stage = "objects" /\ a >= at)
      BY <1>0, <1>3 DEF EsdType, Objects, Frame
    <3> QED BY <1>3, <3>1, <3>2 DEF Origin
  <2>3. Regular => Tables'
    BY <1>3, <2>2, TablesHold, OthersTables
  <2> QED BY <1>3, <2>1, <2>3, RegularKept DEF TabInv
<1>4. CASE ObjectsPlaced
  BY <1>3, <1>4 DEF ObjectsPlaced, esdvars
<1>5. CASE PlaceCommon
  <2>1. pc = "resolved" /\ at \in Nat \ {0} /\ running \in Nat
    BY <1>0, <1>5 DEF Frame, PlaceCommon
  <2>2. DOMAIN G' = DOMAIN G /\ \A k \in DOMAIN G : ~CommonOf(G[k]) => G'[k] = G[k]
    BY <1>0, <1>5, <2>1, CommonTable
  <2> QED BY <1>3, <1>5, <2>1, <2>2 DEF PlaceCommon
<1>6. CASE AssignIds
  <2>1. pc = "resolved"
    BY <1>0, <1>6 DEF Frame, AssignIds
  <2> QED BY <1>3, <1>6, <2>1 DEF AssignIds, esdvars
<1>7. CASE Settled
  <2>1. pc = "resolved"
    BY <1>0, <1>7 DEF Frame, Settled, Laid
  <2> QED BY <1>3, <1>7, <2>1 DEF Settled, Laid
<1>8. CASE UNCHANGED vars
  <2>1. UNCHANGED esdvars /\ UNCHANGED <<O, G, loc_g, dropped, stage, at>>
    BY <1>8 DEF vars, esdvars, layvars
  <2>2. (AtStart' <=> AtStart) /\ (Plain' <=> Plain) /\ (NoMixed' <=> NoMixed)
    BY <2>1, SameMixed DEF AtStart, Plain
  <2>3. (Sound => Sound') /\ (Merged => Merged') /\ (Privates => Privates')
    BY <2>1, Stutters DEF Privates, IsPrivate
  <2>4. Tables => Tables'
    <3>1. \A a, id : Origin(a, id)' = Origin(a, id)
      BY <2>1, SizeKept DEF Origin
    <3> QED BY <2>1, <3>1, OthersTables
  <2> QED BY <2>1, <2>2, <2>3, <2>4, RegularKept DEF TabInv
<1> QED
  BY <1>1, <1>2, <1>4, <1>5, <1>6, <1>7, <1>8, Settles DEF LayNext, LayStep, LayDone

(***************************************************************************)
(* The image: every object placed so far lies in it, section by section.   *)
(***************************************************************************)
Imaged == stage \in {"copy", "relocate", "built"}
Place(a, id) == object_base[a] + Compacted(a, id)

\* The entries' origins are where their sections were placed.
OrgRight ==
    \A a \in DOMAIN O : \A id \in ObjSections(a) : Kept(a, id) => org[loc_g[a][id]] = Place(a, id)

\* Section id of object a is in the image whole.
InImage(a, id) ==
    \A off \in 0..(O[a].loc[id].len - 1) : mod[Place(a, id) + off] = <<a, O[a].loc[id].addr + off>>
TextBefore(n) ==
    \A a \in DOMAIN O : a < n => \A id \in ObjSections(a) : Kept(a, id) => InImage(a, id)

ImgInv ==
    Regular =>
        /\ Laid => OrgRight
        /\ Imaged => DOMAIN mod = 0..(modlen - 1)
        /\ stage = "copy" => TextBefore(at)
        /\ stage \in {"relocate", "built"} => TextBefore(Len(O) + 1)

\* A kept section placed lies within its object, and the object within the text.
LEMMA PlaceIn ==
    ASSUME LayInv, stage # "objects", NEW a \in DOMAIN O, NEW id \in ObjSections(a), Kept(a, id)
    PROVE  /\ a \in DOMAIN object_base /\ object_base[a] \in Nat /\ Size(a) \in Nat
           /\ newaddr[a][id] = Compacted(a, id) /\ Compacted(a, id) \in Nat
           /\ O[a].loc[id].addr \in Nat /\ O[a].loc[id].len \in Nat
           /\ Compacted(a, id) + O[a].loc[id].len <= Size(a)
           /\ object_base[a] + Size(a) <= textend
<1>1. EsdType /\ Frame /\ Stacked
  BY DEF LayInv
<1>2. a \in DOMAIN object_base /\ object_base[a] \in Nat
  BY <1>1 DEF Frame, EsdType, Objects
<1>3. Compacts(a) /\ object_base[a] + Size(a) <= textend
  BY <1>1, <1>2 DEF Stacked
<1>4. id \in DOMAIN O[a].loc /\ O[a].loc[id].addr \in Nat /\ O[a].loc[id].len \in Nat
  BY <1>1, ObjectTyped
<1>5. \A x \in DOMAIN O[a].loc : newaddr[a][x] = Compacted(a, x) /\ Compacted(a, x) \in Nat
  BY <1>1, <1>3, CompactedTyped DEF Compacts
<1>6. /\ Size(a) \in Nat /\ newaddr[a][id] + O[a].loc[id].len <= Size(a)
  BY <1>1, <1>3, <1>5, SizeIs DEF Compacts, Size
<1> QED
  BY <1>2, <1>3, <1>4, <1>5, <1>6

\* An object copied whole keeps every section, and none reaches past its size.
LEMMA CopiedWhole ==
    ASSUME LayInv, stage # "objects", NEW a \in DOMAIN O, ~has_drop(a)
    PROVE  /\ \A id \in ObjSections(a) : Kept(a, id) /\ Compacted(a, id) = O[a].loc[id].addr
           /\ textlen(a) \in Nat /\ Size(a) \in Nat /\ textlen(a) <= Size(a)
           /\ \A id \in ObjSections(a) : O[a].loc[id].addr + O[a].loc[id].len <= textlen(a)
<1>1. EsdType
  BY DEF LayInv
<1>2. \A id \in ObjSections(a) : Kept(a, id) /\ Compacted(a, id) = O[a].loc[id].addr
  <2> SUFFICES ASSUME NEW id \in ObjSections(a) PROVE Kept(a, id) /\ Compacted(a, id) = O[a].loc[id].addr
    OBVIOUS
  <2>1. Kept(a, id)
    BY DEF has_drop, Kept
  <2> QED BY <2>1 DEF Compacted
<1>3. Size(a) \in Nat
  <2>1. a \in DOMAIN object_base /\ Compacts(a)
    BY DEF LayInv, Frame, Stacked, EsdType, Objects
  <2>2. \A id \in DOMAIN O[a].loc : Compacted(a, id) \in Int
    BY <1>1, CompactedTyped
  <2> QED BY <1>1, <2>1, <2>2, SizeIs DEF Compacts, Size
<1>4. textlen(a) <= Size(a)
  <2>1. CASE textlen(a) = 0
    BY <1>3, <2>1
  <2>2. ASSUME NEW id \in ObjSections(a), textlen(a) = O[a].loc[id].addr + O[a].loc[id].len
        PROVE  textlen(a) <= Size(a)
    BY <1>2, <2>2, PlaceIn
  <2> QED BY <1>1, <2>1, <2>2, TextIs
<1> QED
  BY <1>1, <1>2, <1>3, <1>4, TextIs

\* The lesser of two numbers.
LEMMA LesserOfTwo ==
    ASSUME NEW p \in Int, NEW q \in Int, p <= q
    PROVE  Min({p, q}) = p
  BY DEF Min

\* An object copied in parts: only kept sections are copied, each whole.
LEMMA CopiedParts ==
    ASSUME LayInv, Regular, NEW a \in DOMAIN O, has_drop(a), NEW id \in Copied(a)
    PROVE  id \in ObjSections(a) /\ Kept(a, id) /\ CopyLen(a, id) = O[a].loc[id].len
<1>1. EsdType /\ Tidy(a)
  BY DEF LayInv, Regular
<1>2. id \in ObjSections(a) /\ Kept(a, id)
  BY <1>1 DEF Copied, Tidy, ObjSections, is_sect_type, is_obj_sect
<1>3. /\ O[a].loc[id].addr \in Nat /\ O[a].loc[id].len \in Nat /\ textlen(a) \in Nat
      /\ O[a].loc[id].addr + O[a].loc[id].len <= textlen(a)
  BY <1>1, <1>2, ObjectTyped, TextIs
<1>4. O[a].loc[id].len <= textlen(a) - O[a].loc[id].addr /\ textlen(a) - O[a].loc[id].addr \in Int
  BY <1>3
<1> QED
  BY <1>2, <1>3, <1>4, LesserOfTwo DEF CopyLen

\* Within the object's bounds a byte of a kept section has one writer.
LEMMA WritersAre ==
    ASSUME LayInv, Regular, stage # "objects", NEW a \in DOMAIN O, has_drop(a), NEW x \in Int
    PROVE  /\ \A w \in Writers(a, x) : object_base[a] <= x /\ x < object_base[a] + Size(a)
           /\ \A id \in ObjSections(a) :
                 Kept(a, id) /\ Place(a, id) <= x /\ x < Place(a, id) + O[a].loc[id].len
                 => Writers(a, x) = {id}
<1>1. EsdType /\ Tidy(a)
  BY DEF LayInv, Regular
<1>2. ASSUME NEW w \in Writers(a, x)
      PROVE  /\ w \in ObjSections(a) /\ Kept(a, w)
             /\ Place(a, w) <= x /\ x < Place(a, w) + O[a].loc[w].len
  <2>1. w \in Copied(a)
    BY DEF Writers
  <2>2. w \in ObjSections(a) /\ Kept(a, w) /\ CopyLen(a, w) = O[a].loc[w].len
    BY <2>1, CopiedParts
  <2>3. newaddr[a][w] = Compacted(a, w) /\ Compacted(a, w) \in Nat /\ object_base[a] \in Nat
    BY <2>2, PlaceIn
  <2> QED BY <2>2, <2>3 DEF Writers, Place
<1>3. ASSUME NEW w \in Writers(a, x)
      PROVE  object_base[a] <= x /\ x < object_base[a] + Size(a)
  <2>1. /\ Place(a, w) <= x /\ x < Place(a, w) + O[a].loc[w].len
        /\ w \in ObjSections(a) /\ Kept(a, w)
    BY <1>2
  <2>2. /\ object_base[a] \in Nat /\ Size(a) \in Nat /\ Compacted(a, w) \in Nat
        /\ O[a].loc[w].len \in Nat /\ Compacted(a, w) + O[a].loc[w].len <= Size(a)
    BY <2>1, PlaceIn
  <2> QED BY <2>1, <2>2 DEF Place
<1>4. ASSUME NEW id \in ObjSections(a), Kept(a, id),
             Place(a, id) <= x, x < Place(a, id) + O[a].loc[id].len
      PROVE  Writers(a, x) = {id}
  <2>1. /\ newaddr[a][id] = Compacted(a, id) /\ Compacted(a, id) \in Nat /\ object_base[a] \in Nat
        /\ O[a].loc[id].addr \in Nat /\ O[a].loc[id].len \in Nat
    BY <1>4, PlaceIn
  <2>2. id \in Copied(a)
    <3>1. O[a].loc[id].addr + O[a].loc[id].len <= textlen(a) /\ textlen(a) \in Nat
      BY <1>1, TextIs
    <3>2. O[a].loc[id].len > 0
      BY <1>4, <2>1 DEF Place
    <3>3. O[a].loc[id].addr < textlen(a)
      BY <2>1, <3>1, <3>2
    <3> QED BY <1>4, <3>3 DEF Copied, ObjSections, is_obj_sect, is_sect_type
  <2>3. id \in Writers(a, x)
    <3>1. CopyLen(a, id) = O[a].loc[id].len
      BY <2>2, CopiedParts
    <3> QED BY <1>4, <2>1, <2>2, <3>1 DEF Writers, Place
  <2>4. ASSUME NEW w \in Writers(a, x), w # id PROVE FALSE
    <3>1. /\ w \in ObjSections(a) /\ Kept(a, w)
          /\ Place(a, w) <= x /\ x < Place(a, w) + O[a].loc[w].len
      BY <1>2
    <3>2. /\ Compacted(a, w) \in Nat /\ O[a].loc[w].addr \in Nat /\ O[a].loc[w].len \in Nat
      BY <3>1, PlaceIn
    <3>3. O[a].loc[w].addr # O[a].loc[id].addr
      BY <1>1, <2>4, <3>1 DEF Tidy
    <3>4. CASE O[a].loc[w].addr < O[a].loc[id].addr
      <4>1. Compacted(a, w) + O[a].loc[w].len <= Compacted(a, id)
        BY <1>1, <3>1, <3>4, CompactedApart
      <4> QED BY <1>4, <2>1, <3>1, <3>2, <4>1 DEF Place
    <3>5. CASE O[a].loc[id].addr < O[a].loc[w].addr
      <4>1. Compacted(a, id) + O[a].loc[id].len <= Compacted(a, w)
        BY <1>1, <1>4, <3>1, <3>5, CompactedApart
      <4> QED BY <1>4, <2>1, <3>1, <3>2, <4>1 DEF Place
    <3> QED BY <2>1, <3>2, <3>3, <3>4, <3>5
  <2> QED BY <2>3, <2>4
<1> QED
  BY <1>3, <1>4

\* The maximum of one number.
LEMMA OneMax ==
    ASSUME NEW p \in Int
    PROVE  Max({p}) = p
  BY DEF Max

\* Copying object c writes its kept sections where they were placed and nothing
\* outside the room it was given.
LEMMA CopyEffect ==
    ASSUME LayInv, Regular, CopyObject, NEW c \in DOMAIN O, c = at
    PROVE  /\ DOMAIN mod' = DOMAIN mod
           /\ \A x \in DOMAIN mod : x \in Int /\ (x < object_base[c] \/ x >= object_base[c] + Size(c))
                 => mod'[x] = mod[x]
           /\ \A id \in ObjSections(c) : \A off \in 0..(O[c].loc[id].len - 1) :
                 Kept(c, id) /\ Place(c, id) + off \in DOMAIN mod
                 => mod'[Place(c, id) + off] = <<c, O[c].loc[id].addr + off>>
<1>1. EsdType /\ stage = "copy" /\ stage # "objects"
  BY DEF LayInv, CopyObject
<1>2. mod' = [x \in DOMAIN mod |->
                IF ~has_drop(c)
                THEN IF x >= object_base[c] /\ x < object_base[c] + textlen(c)
                     THEN <<c, x - object_base[c]>> ELSE mod[x]
                ELSE IF Writers(c, x) # {}
                THEN LET id == Max(Writers(c, x))
                     IN <<c, x - object_base[c] - newaddr[c][id] + O[c].loc[id].addr>>
                ELSE mod[x]]
  BY DEF CopyObject
<1>3. c \in DOMAIN object_base /\ object_base[c] \in Nat
  BY DEF LayInv, Frame, EsdType, Objects, CopyObject
<1>4. ASSUME NEW x \in DOMAIN mod, x \in Int, x < object_base[c] \/ x >= object_base[c] + Size(c)
      PROVE  mod'[x] = mod[x]
  <2>1. CASE ~has_drop(c)
    <3>1. textlen(c) \in Nat /\ Size(c) \in Nat /\ textlen(c) <= Size(c)
      BY <1>1, <2>1, CopiedWhole
    <3>2. ~(x >= object_base[c] /\ x < object_base[c] + textlen(c))
      BY <1>3, <1>4, <3>1
    <3> QED BY <1>2, <2>1, <3>2
  <2>2. CASE has_drop(c)
    <3>1. \A w \in Writers(c, x) : object_base[c] <= x /\ x < object_base[c] + Size(c)
      BY <1>1, <1>4, <2>2, WritersAre
    <3>2. Size(c) \in Int => Writers(c, x) = {}
      BY <1>3, <1>4, <3>1
    <3>3. Size(c) \in Int
      <4>1. Compacts(c)
        BY <1>3 DEF LayInv, Stacked
      <4>2. \A id \in DOMAIN O[c].loc : Compacted(c, id) \in Int
        BY <1>1, CompactedTyped
      <4>3. osize(c, newaddr[c]) \in Nat
        BY <1>1, <4>1, <4>2, SizeIs DEF Compacts
      <4> QED BY <4>3 DEF Size
    <3> QED BY <1>2, <2>2, <3>2, <3>3
  <2> QED BY <2>1, <2>2
<1>5. ASSUME NEW id \in ObjSections(c), NEW off \in 0..(O[c].loc[id].len - 1), Kept(c, id),
             Place(c, id) + off \in DOMAIN mod
      PROVE  mod'[Place(c, id) + off] = <<c, O[c].loc[id].addr + off>>
  <2>1. /\ newaddr[c][id] = Compacted(c, id) /\ Compacted(c, id) \in Nat
        /\ O[c].loc[id].addr \in Nat /\ O[c].loc[id].len \in Nat
    BY <1>1, <1>5, PlaceIn
  <2>2. PICK x : x = Place(c, id) + off
    OBVIOUS
  <2>3. x \in Int /\ x = object_base[c] + Compacted(c, id) + off /\ off \in Nat /\ off < O[c].loc[id].len
    BY <1>3, <2>1, <2>2 DEF Place
  <2>4. CASE ~has_drop(c)
    <3>1. /\ Compacted(c, id) = O[c].loc[id].addr /\ textlen(c) \in Nat
          /\ O[c].loc[id].addr + O[c].loc[id].len <= textlen(c)
      BY <1>1, <2>4, CopiedWhole
    <3>2. /\ x >= object_base[c] /\ x < object_base[c] + textlen(c)
          /\ x - object_base[c] = O[c].loc[id].addr + off
      BY <1>3, <2>1, <2>3, <3>1
    <3>3. mod'[x] = <<c, x - object_base[c]>>
      BY <1>2, <1>5, <2>2, <2>4, <3>2
    <3> QED BY <2>2, <3>2, <3>3
  <2>5. CASE has_drop(c)
    <3>1. Place(c, id) <= x /\ x < Place(c, id) + O[c].loc[id].len
      BY <1>3, <2>1, <2>3 DEF Place
    <3>2. Writers(c, x) = {id}
      BY <1>1, <1>5, <2>3, <2>5, <3>1, WritersAre
    <3>3. Max(Writers(c, x)) = id
      BY <1>1, <3>2, ObjectTyped, OneMax
    <3>4. mod'[x] = <<c, x - object_base[c] - newaddr[c][id] + O[c].loc[id].addr>>
      BY <1>2, <1>5, <2>2, <2>5, <3>2, <3>3
    <3>5. x - object_base[c] - newaddr[c][id] + O[c].loc[id].addr = O[c].loc[id].addr + off
      BY <1>3, <2>1, <2>3
    <3> QED BY <2>2, <3>4, <3>5
  <2> QED BY <2>4, <2>5
<1> QED
  BY <1>2, <1>4, <1>5

\* What is in the image before the step is in it after: the next object is
\* copied behind or before, never over it.
LEMMA CopyImage ==
    ASSUME LayInv, Regular, CopyObject, DOMAIN mod = 0..(modlen - 1), TextBefore(at)
    PROVE  DOMAIN mod' = 0..(modlen - 1) /\ TextBefore(at)'
<1>1. /\ EsdType /\ Frame /\ Stacked /\ stage = "copy" /\ stage # "objects" /\ at <= Len(O)
      /\ at' = at + 1 /\ UNCHANGED <<O, dropped, object_base, newaddr, modlen>>
  BY DEF LayInv, CopyObject, esdvars
<1>2. PICK c \in DOMAIN O : c = at
  BY <1>1 DEF Frame, EsdType, Objects
<1>3. c \in Nat /\ c \in DOMAIN object_base /\ object_base[c] \in Nat
  BY <1>1, <1>2 DEF Frame, EsdType, Objects
<1>4. DOMAIN mod' = DOMAIN mod
  BY <1>2, CopyEffect
<1>5. \A a, id : Place(a, id)' = Place(a, id) /\ (Kept(a, id)' <=> Kept(a, id))
  BY <1>1, SizeKept DEF Place
<1>6. \A a : ObjSections(a)' = ObjSections(a)
  BY <1>1, SizeKept
<1>7. ASSUME NEW a \in DOMAIN O, a <= c, NEW id \in ObjSections(a), Kept(a, id)
      PROVE  \A off \in 0..(O[a].loc[id].len - 1) : mod'[Place(a, id) + off] = <<a, O[a].loc[id].addr + off>>
  <2> SUFFICES ASSUME NEW off \in 0..(O[a].loc[id].len - 1)
               PROVE  mod'[Place(a, id) + off] = <<a, O[a].loc[id].addr + off>>
    OBVIOUS
  <2>1. /\ a \in DOMAIN object_base /\ object_base[a] \in Nat /\ Size(a) \in Nat
        /\ Compacted(a, id) \in Nat /\ O[a].loc[id].len \in Nat
        /\ Compacted(a, id) + O[a].loc[id].len <= Size(a) /\ object_base[a] + Size(a) <= textend
    BY <1>1, <1>7, PlaceIn
  <2>2. textend <= running /\ running <= modlen /\ textend \in Nat /\ running \in Nat /\ modlen \in Nat
    BY <1>1 DEF Frame, Laid
  <2>3. PICK x : x = Place(a, id) + off
    OBVIOUS
  <2>4. x \in Int /\ x >= object_base[a] /\ x < object_base[a] + Size(a) /\ x \in DOMAIN mod
    <3>1. x \in Int /\ x >= object_base[a] /\ x < object_base[a] + Size(a)
      BY <2>1, <2>3 DEF Place
    <3>2. x \in 0..(modlen - 1)
      BY <2>1, <2>2, <3>1
    <3> QED BY <3>1, <3>2
  <2>5. CASE a = c
    BY <1>2, <1>7, <2>3, <2>4, <2>5, CopyEffect
  <2>6. CASE a # c
    <3>1. a < c /\ a \in Nat
      BY <1>1, <1>3, <1>7, <2>6 DEF EsdType, Objects
    <3>2. object_base[a] + Size(a) <= object_base[c]
      BY <1>1, <1>3, <2>1, <3>1 DEF Stacked
    <3>3. x < object_base[c]
      BY <1>3, <2>1, <2>4, <3>2
    <3>4. mod'[x] = mod[x]
      BY <1>2, <2>4, <3>3, CopyEffect
    <3>5. mod[x] = <<a, O[a].loc[id].addr + off>>
      BY <1>2, <1>7, <2>3, <3>1 DEF TextBefore, InImage
    <3> QED BY <2>3, <3>4, <3>5
  <2> QED BY <2>5, <2>6
<1>8. \A a \in DOMAIN O : a < c + 1 => a <= c
  BY <1>1, <1>3 DEF EsdType, Objects
<1>9. TextBefore(c + 1)'
  BY <1>1, <1>5, <1>6, <1>7, <1>8 DEF TextBefore, InImage
<1> QED
  BY <1>1, <1>2, <1>4, <1>9

\* A kept section's entry gets the origin its object was placed for.
LEMMA OriginsAssigned ==
    ASSUME LayInv, TabInv, Regular, AssignIds
    PROVE  OrgRight'
<1>1. /\ EsdType /\ stage = "commons" /\ pc = "resolved"
      /\ UNCHANGED <<O, loc_g, G, dropped, object_base>>
      /\ org' = [k \in DOMAIN G |->
                   IF k \notin Sects THEN 0
                   ELSE G[k].in_addr + (IF G[k].def_obj # NoSym THEN object_base[G[k].def_obj] ELSE 0)]
  BY DEF LayInv, Frame, AssignIds, esdvars
<1>2. HeldSections
  BY <1>1, TablesHold DEF Tables
<1>3. /\ \A a : ObjSections(a)' = ObjSections(a)
      /\ \A a, id : Place(a, id)' = Place(a, id) /\ (Kept(a, id)' <=> Kept(a, id))
  BY <1>1, SizeKept DEF Place
<1> SUFFICES ASSUME NEW a \in DOMAIN O, NEW id \in ObjSections(a), Kept(a, id)
             PROVE  org'[loc_g[a][id]] = Place(a, id)
  BY <1>1, <1>3 DEF OrgRight
<1>4. PICK k : k = loc_g[a][id]
  OBVIOUS
<1>5. k \in DOMAIN G /\ G[k].is_sect /\ G[k].def_obj = a /\ G[k].in_addr = Compacted(a, id)
  BY <1>1, <1>2, <1>4 DEF HeldSections, SectionHeld, Origin
<1>6. a # NoSym
  BY <1>1 DEF EsdType, Objects, NoSym
<1>7. org'[k] = Compacted(a, id) + object_base[a]
  BY <1>1, <1>5, <1>6 DEF Sects
<1>8. Compacted(a, id) \in Nat /\ object_base[a] \in Nat
  BY <1>1, PlaceIn
<1> QED
  BY <1>4, <1>7, <1>8 DEF Place

\* There is no image yet.
LEMMA ImgStarts ==
    ASSUME LayInit
    PROVE  ImgInv
  BY DEF LayInit, ImgInv, Laid, Imaged

\* Every step keeps the image built so far.
LEMMA ImgSteps ==
    ASSUME LayInv, TabInv, ImgInv, LayNext \/ UNCHANGED vars
    PROVE  ImgInv'
<1>0. EsdType /\ Frame
  BY DEF LayInv
<1>1. ASSUME ~Laid' PROVE ImgInv'
  BY <1>1 DEF ImgInv, Laid, Imaged
<1>2. CASE (EsdStep /\ UNCHANGED layvars) \/ PlaceObject \/ ObjectsPlaced \/ PlaceCommon
  <2>1. ~Laid'
    BY <1>0, <1>2, PassOpen DEF Frame, Laid, layvars, PlaceObject, ObjectsPlaced, PlaceCommon
  <2> QED BY <1>1, <2>1
<1>3. CASE AssignIds
  <2>1. UNCHANGED <<O, dropped>> /\ stage' = "entry"
    BY <1>3 DEF AssignIds, esdvars
  <2>2. Regular => OrgRight'
    BY <1>3, OriginsAssigned
  <2> QED BY <2>1, <2>2, RegularKept DEF ImgInv, Imaged
\* From here on the origins stay.
<1>4. ASSUME Settled \/ UNCHANGED vars
      PROVE  /\ (Regular' <=> Regular) /\ (OrgRight => OrgRight') /\ (~Laid => ~Laid') /\ O' = O
             /\ mod' = mod => \A n : TextBefore(n) => TextBefore(n)'
  <2>1. UNCHANGED <<O, loc_g, dropped, object_base, org>> /\ (~Laid => ~Laid')
    BY <1>4 DEF Settled, vars, esdvars, layvars, Laid
  <2>2. /\ \A a : ObjSections(a)' = ObjSections(a)
        /\ \A a, id : Place(a, id)' = Place(a, id) /\ (Kept(a, id)' <=> Kept(a, id))
    BY <2>1, SizeKept DEF Place
  <2>3. OrgRight => OrgRight'
    BY <2>1, <2>2 DEF OrgRight
  <2>4. mod' = mod => \A n : TextBefore(n) => TextBefore(n)'
    BY <2>1, <2>2 DEF TextBefore, InImage
  <2> QED BY <2>1, <2>3, <2>4, RegularKept
<1>5. CASE FindEntry \/ NoEntry
  <2>1. Settled /\ Laid /\ stage' \in {"reserve", "failed"}
    BY <1>5, Settles DEF FindEntry, NoEntry, Laid
  <2> QED BY <1>4, <2>1 DEF ImgInv, Imaged
<1>6. CASE mod_reserve
  <2>1. Settled /\ Laid /\ modlen' = modlen /\ O' = O
    BY <1>6, Settles DEF mod_reserve, Settled, Laid
  <2>2. CASE stage' = "failed"
    BY <1>4, <2>1, <2>2 DEF ImgInv, Imaged
  <2>3. CASE stage' # "failed"
    <3>1. stage' = "copy" /\ at' = 1 /\ DOMAIN mod' = 0..(modlen - 1)
      BY <1>6, <2>3 DEF mod_reserve
    <3>2. TextBefore(1)'
      BY <1>0, <2>1 DEF TextBefore, EsdType, Objects
    <3>3. TextBefore(at)'
      BY <3>1, <3>2
    <3> QED BY <1>4, <2>1, <3>1, <3>3 DEF ImgInv, Imaged
  <2> QED BY <2>2, <2>3
<1>7. CASE CopyObject
  <2>1. Settled /\ stage = "copy" /\ stage' = "copy" /\ modlen' = modlen /\ Laid
    BY <1>7, Settles DEF CopyObject, Settled
  <2>2. Regular => DOMAIN mod' = 0..(modlen - 1) /\ TextBefore(at)'
    BY <1>7, <2>1, CopyImage DEF ImgInv, Imaged
  <2> QED BY <1>4, <2>1, <2>2 DEF ImgInv, Imaged
<1>8. CASE ImageBuilt
  <2>1. /\ Settled /\ stage = "copy" /\ stage' = "relocate" /\ at > Len(O) /\ Laid
        /\ UNCHANGED <<mod, modlen, O>>
    BY <1>8, Settles DEF ImageBuilt, Settled, esdvars
  <2>2. TextBefore(at) => TextBefore(Len(O) + 1)
    BY <1>0, <2>1 DEF TextBefore, EsdType, Objects, Frame
  <2>3. PICK n : n = Len(O) + 1
    OBVIOUS
  <2>4. Regular => TextBefore(n)'
    BY <1>4, <2>1, <2>2, <2>3 DEF ImgInv
  <2>5. TextBefore(n)' => TextBefore(Len(O) + 1)'
    BY <2>1, <2>3
  <2> QED BY <1>4, <2>1, <2>4, <2>5 DEF ImgInv, Imaged
<1>9. CASE RelocateItem \/ ObjectRelocated \/ ModuleBuilt
  <2>1. /\ Settled /\ stage = "relocate" /\ stage' \in {"relocate", "built"} /\ Laid
        /\ UNCHANGED <<mod, modlen, O>>
    BY <1>9, Settles DEF RelocateItem, ObjectRelocated, ModuleBuilt, Settled, esdvars
  <2>2. PICK n : n = Len(O) + 1
    OBVIOUS
  <2>3. Regular => TextBefore(n)'
    BY <1>4, <2>1, <2>2 DEF ImgInv
  <2>4. TextBefore(n)' => TextBefore(Len(O) + 1)'
    BY <2>1, <2>2
  <2> QED BY <1>4, <2>1, <2>3, <2>4 DEF ImgInv, Imaged
<1>10. CASE UNCHANGED vars
  <2>1. UNCHANGED <<mod, modlen, O, stage, at>>
    BY <1>10 DEF vars, esdvars, layvars
  <2>2. PICK n, m : n = Len(O) + 1 /\ m = at
    OBVIOUS
  <2>3. (TextBefore(n) => TextBefore(n)') /\ (TextBefore(m) => TextBefore(m)')
    BY <1>4, <1>10, <2>1
  <2>4. (TextBefore(n)' => TextBefore(Len(O) + 1)') /\ (TextBefore(m)' => TextBefore(at)')
    BY <2>1, <2>2
  <2> QED BY <1>4, <1>10, <2>1, <2>2, <2>3, <2>4 DEF ImgInv, Imaged, Laid
<1> QED
  BY <1>2, <1>3, <1>5, <1>6, <1>7, <1>8, <1>9, <1>10 DEF LayNext, LayStep, LayDone

ImageInv == LayInv /\ TabInv /\ ImgInv

\* The layout, the table and the image stay in step from the first object
\* placed to the last constant relocated.
THEOREM ImageInvariant == LaySpec => []ImageInv
<1>1. LayInit => ImageInv
  BY LayStarts, TabStarts, ImgStarts DEF ImageInv
<1>2. ImageInv /\ LayInv' /\ [LayNext]_vars => ImageInv'
  BY TabSteps, ImgSteps DEF ImageInv
<1> QED
  BY <1>1, <1>2, LayInvariant, PTL DEF LaySpec

\* A byte of a kept section, in a finished image.
LEMMA ByteInImage ==
    ASSUME ImageInv, Regular, stage \in {"relocate", "built"},
           NEW a \in DOMAIN O, NEW id \in ObjSections(a), Kept(a, id),
           NEW off \in Int, 0 <= off, off < O[a].loc[id].len
    PROVE  /\ Place(a, id) + off \in DOMAIN mod
           /\ mod[Place(a, id) + off] = <<a, O[a].loc[id].addr + off>>
           /\ org[loc_g[a][id]] = Place(a, id) /\ Place(a, id) \in Nat
<1>1. LayInv /\ ImgInv /\ Laid /\ Imaged /\ stage # "objects"
  BY DEF ImageInv, Laid, Imaged
<1>2. /\ object_base[a] \in Nat /\ Size(a) \in Nat
      /\ Compacted(a, id) \in Nat /\ O[a].loc[id].len \in Nat
      /\ Compacted(a, id) + O[a].loc[id].len <= Size(a) /\ object_base[a] + Size(a) <= textend
  BY <1>1, PlaceIn
<1>3. textend <= running /\ running <= modlen /\ textend \in Nat /\ running \in Nat /\ modlen \in Nat
  BY <1>1 DEF LayInv, Frame
<1>4. Place(a, id) \in Nat /\ Place(a, id) + off \in 0..(modlen - 1)
  BY <1>2, <1>3 DEF Place
<1>5. DOMAIN mod = 0..(modlen - 1) /\ TextBefore(Len(O) + 1) /\ OrgRight
  BY <1>1 DEF ImgInv, Imaged
<1>6. a < Len(O) + 1
  BY <1>1 DEF LayInv, EsdType, Objects
<1>7. off \in 0..(O[a].loc[id].len - 1)
  BY <1>2
<1> QED
  BY <1>4, <1>5, <1>6, <1>7 DEF TextBefore, InImage, OrgRight

\* However many duplicates compaction takes out, every kept section is in the
\* image whole and at its origin, provided the objects that lose a section are
\* tidy and no name is both a label and a section.
THEOREM SectionsInPlace == LaySpec => [](Regular => TextInPlace)
<1>1. ImageInv => (Regular => TextInPlace)
  <2> SUFFICES ASSUME ImageInv, Regular, stage = "built", NEW a \in DOMAIN O, NEW id \in ObjSections(a),
                      Kept(a, id), NEW off \in 0..(O[a].loc[id].len - 1)
               PROVE  /\ org[loc_g[a][id]] + off \in DOMAIN mod
                      /\ mod[org[loc_g[a][id]] + off] = <<a, O[a].loc[id].addr + off>>
    BY DEF TextInPlace
  <2>1. O[a].loc[id].len \in Nat
    BY ObjectTyped DEF ImageInv, LayInv
  <2>2. off \in Int /\ 0 <= off /\ off < O[a].loc[id].len
    BY <2>1
  <2> QED BY <2>2, ByteInImage
<1> QED
  BY <1>1, ImageInvariant, PTL

(***************************************************************************)
(* Relocation.  Constants and labels lie in sections of their own deck.    *)
(***************************************************************************)
InSection(o, id, x) ==
    /\ id \in DOMAIN o.loc /\ is_obj_sect(o.loc[id].type)
    /\ o.loc[id].addr <= x /\ x < o.loc[id].addr + o.loc[id].len
Located ==
    \A a \in DOMAIN O :
        /\ O[a].rld \in Seq(RldItem)
        /\ \A r \in DOMAIN O[a].rld : /\ used(O[a], O[a].rld[r].R)
                                     /\ InSection(O[a], O[a].rld[r].P, O[a].rld[r].addr)
        /\ \A x \in DOMAIN O[a].ld : InSection(O[a], O[a].ld[x].len, O[a].ld[x].addr)

\* Each constant relocated holds what its item makes of it.
IsRelocated(c) ==
    \E a \in DOMAIN O : \E r \in DOMAIN O[a].rld :
        c = <<a, r>> /\ ~rld_dropped(a, r) /\ adcon[c] = Relocated(a, r)
RelInv ==
    /\ ri \in Nat \ {0}
    /\ stage \notin {"relocate", "built"} => DOMAIN adcon = {}
    /\ Located => \A c \in DOMAIN adcon : IsRelocated(c)

\* What a constant becomes is fixed once origins are.
LEMMA RelocatedKept ==
    ASSUME UNCHANGED <<O, G, loc_g, dropped, org>>
    PROVE  /\ Located' <=> Located
           /\ \A a, r : (rld_dropped(a, r)' <=> rld_dropped(a, r)) /\ Relocated(a, r)' = Relocated(a, r)
<1>1. Located' <=> Located
  BY DEF Located
<1>2. \A a, r : rld_dropped(a, r)' <=> rld_dropped(a, r)
  BY DEF rld_dropped
<1>3. \A a, id : InputValue(a, id)' = InputValue(a, id) /\ local_to_g(a, id)' = local_to_g(a, id)
  BY DEF InputValue, local_to_g
<1>4. \A k : AddrOf(k)' = AddrOf(k) /\ (Resolved(G[k])' <=> Resolved(G[k]))
  BY DEF AddrOf, Resolved
<1>5. \A a, r : Relocated(a, r)' = Relocated(a, r)
  BY <1>3, <1>4 DEF Relocated
<1> QED
  BY <1>1, <1>2, <1>5

\* No constant is relocated yet.
LEMMA RelStarts ==
    ASSUME LayInit
    PROVE  RelInv
  BY DEF LayInit, RelInv

\* Every step keeps the constants relocated so far.
LEMMA RelSteps ==
    ASSUME LayInv, RelInv, LayNext \/ UNCHANGED vars
    PROVE  RelInv'
<1>0. EsdType /\ Frame
  BY DEF LayInv
<1>1. ASSUME UNCHANGED adcon, ri' \in Nat \ {0}, stage' \notin {"relocate", "built"},
             stage \notin {"relocate", "built"}
      PROVE  RelInv'
  BY <1>1 DEF RelInv
<1>2. CASE EsdStep /\ UNCHANGED layvars
  <2>1. stage = "objects" /\ UNCHANGED <<adcon, ri, stage>>
    BY <1>0, <1>2, PassOpen DEF Frame, layvars
  <2> QED BY <1>1, <2>1 DEF RelInv
<1>3. CASE PlaceObject \/ ObjectsPlaced \/ PlaceCommon \/ AssignIds \/ FindEntry \/ NoEntry
           \/ mod_reserve \/ CopyObject
  <2>1. UNCHANGED <<adcon, ri>> /\ {stage, stage'} \cap {"relocate", "built"} = {}
    BY <1>3 DEF PlaceObject, ObjectsPlaced, PlaceCommon, AssignIds, FindEntry, NoEntry,
                mod_reserve, CopyObject
  <2> QED BY <1>1, <2>1 DEF RelInv
<1>4. ASSUME UNCHANGED <<O, G, loc_g, dropped, org, adcon>>, ri' \in Nat \ {0},
             DOMAIN adcon = {} \/ stage' = stage \/ stage' \in {"relocate", "built"}
      PROVE  RelInv'
  <2>1. \A c : IsRelocated(c)' <=> IsRelocated(c)
    BY <1>4, RelocatedKept DEF IsRelocated
  <2> QED BY <1>4, <2>1, RelocatedKept DEF RelInv
<1>5. CASE ImageBuilt \/ ObjectRelocated \/ ModuleBuilt
  <2>1. /\ UNCHANGED <<O, G, loc_g, dropped, org, adcon>> /\ ri' \in {ri, 1}
        /\ stage' \in {"relocate", "built"}
    BY <1>5 DEF ImageBuilt, ObjectRelocated, ModuleBuilt, esdvars
  <2> QED BY <1>4, <2>1 DEF RelInv
<1>6. CASE RelocateItem
  <2>1. /\ stage = "relocate" /\ stage' = "relocate" /\ at <= Len(O) /\ ri <= Len(O[at].rld) /\ ri' = ri + 1
        /\ UNCHANGED <<O, G, loc_g, dropped, org>>
        /\ adcon' = IF rld_dropped(at, ri) THEN adcon
                    ELSE [c \in DOMAIN adcon \cup {<<at, ri>>} |->
                            IF c = <<at, ri>> THEN Relocated(at, ri) ELSE adcon[c]]
    BY <1>6 DEF RelocateItem
  <2>2. PICK b \in DOMAIN O, q \in Nat \ {0} : b = at /\ q = ri
    BY <1>0, <2>1 DEF Frame, EsdType, Objects, RelInv
  <2>3. CASE rld_dropped(b, q)
    <3>1. adcon' = adcon
      BY <2>1, <2>2, <2>3
    <3> QED BY <1>4, <2>1, <2>2, <3>1
  <2>4. CASE ~rld_dropped(b, q)
    <3>1. adcon' = [c \in DOMAIN adcon \cup {<<b, q>>} |->
                      IF c = <<b, q>> THEN Relocated(b, q) ELSE adcon[c]]
      BY <2>1, <2>2, <2>4
    <3>2. ASSUME Located, NEW c \in DOMAIN adcon' PROVE IsRelocated(c)'
      <4>1. CASE c = <<b, q>>
        <5>1. q \in DOMAIN O[b].rld
          <6>1. O[b].rld \in Seq(RldItem)
            BY <3>2 DEF Located
          <6> QED BY <2>1, <2>2, <6>1
        <5>2. adcon'[c] = Relocated(b, q)
          BY <3>1, <4>1
        <5> QED BY <2>1, <2>4, <4>1, <5>1, <5>2, RelocatedKept DEF IsRelocated
      <4>2. CASE c # <<b, q>>
        <5>1. c \in DOMAIN adcon /\ adcon'[c] = adcon[c]
          BY <3>1, <3>2, <4>2
        <5>2. IsRelocated(c)
          BY <3>2, <5>1 DEF RelInv
        <5> QED BY <2>1, <5>1, <5>2, RelocatedKept DEF IsRelocated
      <4> QED BY <4>1, <4>2
    <3> QED BY <2>1, <2>2, <3>2, RelocatedKept DEF RelInv
  <2> QED BY <2>3, <2>4
<1>7. CASE UNCHANGED vars
  <2>1. UNCHANGED <<O, G, loc_g, dropped, org, adcon, ri, stage>>
    BY <1>7 DEF vars, esdvars, layvars
  <2> QED BY <1>4, <2>1 DEF RelInv
<1> QED
  BY <1>2, <1>3, <1>5, <1>6, <1>7 DEF LayNext, LayStep, LayDone

\* The first section and the first label of a name.
LEMMA FirstOfName ==
    ASSUME EsdType, NEW n
    PROVE  /\ Items(T_SD, n) # {} =>
                \E b, y : Is(T_SD, n, b, y) /\ FirstSD(b, y) /\ Earliest(Items(T_SD, n)) = <<b, y>>
           /\ Labels(n) # {} =>
                \E b, x : IsLd(n, b, x) /\ FirstLd(n, b, x) /\ Earliest(Labels(n)) = <<b, x>>
<1>1. ASSUME Items(T_SD, n) # {}
      PROVE  \E b, y : Is(T_SD, n, b, y) /\ FirstSD(b, y) /\ Earliest(Items(T_SD, n)) = <<b, y>>
  <2>1. Items(T_SD, n) \subseteq Nat \X Nat
    <3> SUFFICES ASSUME NEW p \in Items(T_SD, n) PROVE p \in Nat \X Nat
      OBVIOUS
    <3>1. p = <<p[1], p[2]>> /\ p[1] \in Nat /\ p[2] \in Nat
      BY InItems, PlacesTyped
    <3> QED BY <3>1
  <2>2. PICK p \in Items(T_SD, n) : /\ p = Earliest(Items(T_SD, n))
                                    /\ \A q \in Items(T_SD, n) : NotAfter(p, q)
    BY <1>1, <2>1, EarliestIs
  <2>3. PICK b, y : p = <<b, y>> /\ Is(T_SD, n, b, y)
    BY <2>2, InItems
  <2>4. \A c, z : Is(T_SD, n, c, z) => Upto(b, y, c, z)
    <3> SUFFICES ASSUME NEW c, NEW z, Is(T_SD, n, c, z) PROVE Upto(b, y, c, z)
      OBVIOUS
    <3>1. NotAfter(<<b, y>>, <<c, z>>)
      BY <2>2, <2>3, InItems
    <3> QED BY <3>1 DEF NotAfter, Upto
  <2>5. O[b].loc[y].name = n
    BY <2>3 DEF Is
  <2>6. FirstSD(b, y)
    BY <2>4, <2>5 DEF FirstSD
  <2> QED BY <2>2, <2>3, <2>6
<1>2. ASSUME Labels(n) # {}
      PROVE  \E b, x : IsLd(n, b, x) /\ FirstLd(n, b, x) /\ Earliest(Labels(n)) = <<b, x>>
  <2>1. Labels(n) \subseteq Nat \X Nat
    <3> SUFFICES ASSUME NEW p \in Labels(n) PROVE p \in Nat \X Nat
      OBVIOUS
    <3>1. p = <<p[1], p[2]>> /\ p[1] \in DOMAIN O /\ p[2] \in DOMAIN O[p[1]].ld
      BY InLabels DEF IsLd
    <3>2. O[p[1]].ld \in Seq(EsdItem) /\ p[1] \in Nat
      BY <3>1 DEF EsdType, Objects, IsObject
    <3>3. p[2] \in Nat
      BY <3>1, <3>2
    <3> QED BY <3>1, <3>2, <3>3
  <2>2. PICK p \in Labels(n) : /\ p = Earliest(Labels(n))
                               /\ \A q \in Labels(n) : NotAfter(p, q)
    BY <1>2, <2>1, EarliestIs
  <2>3. PICK b, x : p = <<b, x>> /\ IsLd(n, b, x)
    BY <2>2, InLabels
  <2>4. \A c, z : IsLd(n, c, z) => Upto(b, x, c, z)
    <3> SUFFICES ASSUME NEW c, NEW z, IsLd(n, c, z) PROVE Upto(b, x, c, z)
      OBVIOUS
    <3>1. NotAfter(<<b, x>>, <<c, z>>)
      BY <2>2, <2>3, InLabels
    <3> QED BY <3>1 DEF NotAfter, Upto
  <2> QED BY <2>2, <2>3, <2>4 DEF FirstLd
<1> QED
  BY <1>1, <1>2

\* The entry of a kept section once the image is built.
LEMMA SectionEntry ==
    ASSUME ImageInv, Regular, stage = "built",
           NEW b \in DOMAIN O, NEW y \in ObjSections(b), Kept(b, y)
    PROVE  /\ loc_g[b][y] \in DOMAIN G /\ loc_g[b][y] \in Nat /\ loc_g[b][y] # NoSym
           /\ G[loc_g[b][y]].is_sect /\ org[loc_g[b][y]] = Place(b, y) /\ Place(b, y) \in Nat
<1>1. EsdType /\ LayInv /\ stage # "objects" /\ HeldSections /\ OrgRight
  BY DEF ImageInv, LayInv, TabInv, AtStart, Tables, ImgInv, Laid
<1>2. loc_g[b][y] \in DOMAIN G /\ G[loc_g[b][y]].is_sect
  BY <1>1 DEF HeldSections, SectionHeld
<1>3. loc_g[b][y] \in Nat /\ loc_g[b][y] # NoSym
  BY <1>1, <1>2 DEF EsdType, NoSym
<1>4. Place(b, y) \in Nat
  <2>1. object_base[b] \in Nat /\ Compacted(b, y) \in Nat
    BY <1>1, PlaceIn
  <2> QED BY <2>1 DEF Place
<1> QED
  BY <1>1, <1>2, <1>3, <1>4 DEF OrgRight

\* The input value is taken off again.
LEMMA CancelsOut ==
    ASSUME NEW x \in Int, NEW y \in Int, NEW v \in Int
    PROVE  x + y + v - x = v + y
  OBVIOUS

\* The constant ends up pointing off bytes beyond the address of its symbol.
LEMMA Pointed ==
    ASSUME EsdType, NEW a \in DOMAIN O, NEW r, NEW id, id = O[a].rld[r].R, used(O[a], id),
           NEW off \in Nat, off = O[a].rld[r].off,
           NEW k, k = loc_g[a][id], k # NoSym, Resolved(G[k]), NEW v \in Int, AddrOf(k) = v
    PROVE  Relocated(a, r) = v + off
<1>1. local_to_g(a, id) = k /\ InputValue(a, id) = O[a].loc[id].addr
  BY DEF local_to_g, InputValue
<1>2. PICK x \in Nat : x = O[a].loc[id].addr
  BY ObjectTyped DEF used
<1>3. Relocated(a, r) = x + off + v - x
  BY <1>1, <1>2 DEF Relocated
<1>4. x + off + v - x = v + off
  BY <1>2, CancelsOut
<1> QED
  BY <1>3, <1>4, Zenon

\* The same of all symbols that have an address.
PointsBeyond(a, r, k, off) == \A v \in Int : Resolved(G[k]) /\ AddrOf(k) = v => Relocated(a, r) = v + off
LEMMA PointedAny ==
    ASSUME EsdType, NEW a \in DOMAIN O, NEW r, NEW id, id = O[a].rld[r].R, used(O[a], id),
           NEW off \in Nat, off = O[a].rld[r].off, NEW k, k = loc_g[a][id], k # NoSym
    PROVE  PointsBeyond(a, r, k, off)
<1>1. ASSUME NEW v \in Int, Resolved(G[k]), AddrOf(k) = v
      PROVE  Relocated(a, r) = v + off
  BY <1>1, Pointed, Zenon
<1> QED
  BY <1>1 DEF PointsBeyond

\* The constant itself is where its section's copy of it is.
LEMMA ConstantPlaced ==
    ASSUME ImageInv, Regular, Located, stage = "built",
           NEW a \in DOMAIN O, NEW r \in DOMAIN O[a].rld, ~rld_dropped(a, r)
    PROVE  /\ rld_modaddr(a, r) \in DOMAIN mod
           /\ mod[rld_modaddr(a, r)] = <<a, O[a].rld[r].addr>>
<1>1. PICK P, x : P = O[a].rld[r].P /\ x = O[a].rld[r].addr
  OBVIOUS
<1>2. x \in Nat
  <2>1. O[a].rld[r] \in RldItem
    BY DEF Located
  <2> QED BY <1>1, <2>1 DEF RldItem
<1>3. /\ P \in DOMAIN O[a].loc /\ P \in ObjSections(a) /\ Kept(a, P)
      /\ O[a].loc[P].addr <= x /\ x < O[a].loc[P].addr + O[a].loc[P].len
  BY <1>1 DEF Located, InSection, ObjSections, rld_dropped, Kept
<1>4. LayInv /\ stage # "objects"
  BY DEF ImageInv
<1>5. /\ object_base[a] \in Nat /\ newaddr[a][P] = Compacted(a, P) /\ Compacted(a, P) \in Nat
      /\ O[a].loc[P].addr \in Nat /\ O[a].loc[P].len \in Nat
  BY <1>3, <1>4, PlaceIn
<1>6. PICK off \in Nat : off = x - O[a].loc[P].addr
  BY <1>2, <1>3, <1>5
<1>7. rld_modaddr(a, r) = Place(a, P) + off
  <2>1. rld_modaddr(a, r) = object_base[a] + x + (newaddr[a][P] - O[a].loc[P].addr)
    BY <1>1, <1>3 DEF rld_modaddr, used
  <2> QED BY <1>2, <1>5, <1>6, <2>1 DEF Place
<1>8. off < O[a].loc[P].len /\ O[a].loc[P].addr + off = x
  BY <1>2, <1>3, <1>5, <1>6
<1>9. Place(a, P) + off \in DOMAIN mod /\ mod[Place(a, P) + off] = <<a, O[a].loc[P].addr + off>>
  BY <1>3, <1>6, <1>8, ByteInImage
<1> QED
  BY <1>1, <1>7, <1>8, <1>9

\* A constant of its own deck's kept section.
LEMMA OwnConstant ==
    ASSUME ImageInv, Regular, Located, stage = "built",
           NEW a \in DOMAIN O, NEW r \in DOMAIN O[a].rld, NEW id, id = O[a].rld[r].R,
           is_obj_sect(O[a].loc[id].type), Kept(a, id), O[a].rld[r].off < O[a].loc[id].len
    PROVE  /\ Relocated(a, r) \in DOMAIN mod
           /\ mod[Relocated(a, r)] = <<a, O[a].loc[id].addr + O[a].rld[r].off>>
<1>1. EsdType /\ O[a].rld[r] \in RldItem /\ used(O[a], id)
  BY DEF ImageInv, LayInv, Located
<1>2. id \in ObjSections(a) /\ O[a].rld[r].off \in Nat
  BY <1>1 DEF ObjSections, used, RldItem
<1>3. PICK k : k = loc_g[a][id]
  OBVIOUS
<1>4. k # NoSym /\ G[k].is_sect /\ org[k] = Place(a, id) /\ Place(a, id) \in Nat
  BY <1>2, <1>3, SectionEntry
<1>5. Resolved(G[k]) /\ AddrOf(k) = Place(a, id)
  BY <1>4 DEF Resolved, AddrOf
<1>6. PICK v \in Int, off \in Nat : v = Place(a, id) /\ off = O[a].rld[r].off
  BY <1>2, <1>4
<1>7. Relocated(a, r) = v + off
  <2>1. AddrOf(k) = v
    BY <1>5, <1>6
  <2> QED BY <1>1, <1>3, <1>4, <1>5, <1>6, <2>1, Pointed, Zenon
<1> QED
  BY <1>2, <1>6, <1>7, ByteInImage

\* A constant that refers to another deck's section or label.
LEMMA ExternalConstant ==
    ASSUME ImageInv, Regular, Located, stage = "built",
           NEW a \in DOMAIN O, NEW r \in DOMAIN O[a].rld, NEW id, id = O[a].rld[r].R,
           O[a].loc[id].type = T_ER, NEW n, n = O[a].loc[id].name,
           Items(T_SD, n) \cup Labels(n) # {}, O[a].rld[r].off < RoomAt(n)
    PROVE  /\ Relocated(a, r) \in DOMAIN mod
           /\ mod[Relocated(a, r)] = ByteNamed(n, O[a].rld[r].off)
<1>1. EsdType /\ O[a].rld[r] \in RldItem /\ used(O[a], id) /\ HeldNames
  BY DEF ImageInv, LayInv, Located, TabInv, AtStart, Tables
<1>2. PICK off \in Nat : off = O[a].rld[r].off
  BY <1>1 DEF RldItem
<1>3. Is(T_ER, n, a, id)
  BY <1>1 DEF Is, used
<1>4. PICK k : k = loc_g[a][id]
  OBVIOUS
<1>5. k # NoSym => PointsBeyond(a, r, k, off)
  BY <1>1, <1>2, <1>4, PointedAny
<1>6. CASE Items(T_SD, n) # {}
  <2>1. PICK b, y : Is(T_SD, n, b, y) /\ FirstSD(b, y) /\ Earliest(Items(T_SD, n)) = <<b, y>>
    BY <1>1, <1>6, FirstOfName
  <2>2. k = loc_g[b][y] /\ Kept(b, y)
    <3>1. SameSection(a, id, b, y)
      BY <1>1, <1>3, <2>1 DEF HeldNames
    <3> QED BY <1>4, <3>1 DEF SameSection
  <2>3. b \in DOMAIN O /\ y \in ObjSections(b)
    BY <2>1 DEF Is, ObjSections, is_obj_sect
  <2>4. k # NoSym /\ G[k].is_sect /\ org[k] = Place(b, y) /\ Place(b, y) \in Nat
    BY <2>2, <2>3, SectionEntry
  <2>5. Resolved(G[k]) /\ AddrOf(k) = Place(b, y)
    BY <2>4 DEF Resolved, AddrOf
  <2>6. Relocated(a, r) = Place(b, y) + off
    <3>1. PICK v \in Int : v = Place(b, y)
      BY <2>4
    <3>2. AddrOf(k) = v
      BY <2>5, <3>1
    <3>3. Relocated(a, r) = v + off
      BY <1>5, <2>4, <2>5, <3>1, <3>2 DEF PointsBeyond
    <3> QED BY <3>1, <3>3
  <2>7. off < O[b].loc[y].len /\ ByteNamed(n, off) = <<b, O[b].loc[y].addr + off>>
    <3>0. <<b, y>>[1] = b /\ LocOf(<<b, y>>) = O[b].loc[y]
      BY DEF LocOf
    <3>1. PICK e : e = Earliest(Items(T_SD, n)) /\ e[1] = b /\ LocOf(e) = O[b].loc[y]
      BY <2>1, <3>0, Zenon
    <3>2. RoomAt(n) = O[b].loc[y].len
      BY <1>6, <3>1 DEF RoomAt
    <3>3. ByteNamed(n, off) = <<b, O[b].loc[y].addr + off>>
      BY <1>6, <3>1 DEF ByteNamed
    <3> QED BY <1>2, <3>2, <3>3
  <2>8. Place(b, y) + off \in DOMAIN mod /\ mod[Place(b, y) + off] = <<b, O[b].loc[y].addr + off>>
    <3>1. off \in Int /\ 0 <= off
      OBVIOUS
    <3> QED BY <2>2, <2>3, <2>7, <3>1, ByteInImage, Zenon
  <2> QED BY <1>2, <2>6, <2>7, <2>8
<1>7. CASE Items(T_SD, n) = {}
  <2>1. PICK b, x : IsLd(n, b, x) /\ FirstLd(n, b, x) /\ Earliest(Labels(n)) = <<b, x>>
    BY <1>1, <1>7, FirstOfName
  <2>2. k \in DOMAIN G /\ IsLabel(G[k], <<b, x>>) /\ Kept(b, O[b].ld[x].len)
    BY <1>1, <1>3, <1>4, <2>1 DEF HeldNames, LabelHeld
  <2>3. PICK o, y : o = O[b].ld[x].len /\ y = O[b].ld[x].addr
    OBVIOUS
  <2>4. /\ b \in DOMAIN O /\ o \in ObjSections(b) /\ Kept(b, o)
        /\ O[b].loc[o].addr <= y /\ y < O[b].loc[o].addr + O[b].loc[o].len
    BY <2>1, <2>2, <2>3 DEF IsLd, Located, InSection, ObjSections
  <2>5. O[b].loc[o].addr \in Nat /\ O[b].loc[o].len \in Nat /\ y \in Nat
    <3>1. O[b].ld \in Seq(EsdItem) /\ x \in DOMAIN O[b].ld
      BY <1>1, <2>1 DEF EsdType, Objects, IsObject, IsLd
    <3>2. O[b].ld[x] \in EsdItem
      BY <3>1
    <3> QED BY <1>1, <2>3, <2>4, <3>2, ObjectTyped DEF EsdItem
  <2>6. PICK g : g = G[k]
    OBVIOUS
  <2>7. ~g.is_sect /\ g.type = T_LR /\ g.owner = loc_g[b][o] /\ g.in_addr = y - O[b].loc[o].addr
    BY <2>2, <2>3, <2>6 DEF IsLabel
  <2>8. /\ loc_g[b][o] # NoSym /\ G[loc_g[b][o]].is_sect /\ org[loc_g[b][o]] = Place(b, o)
        /\ Place(b, o) \in Nat
    BY <2>4, SectionEntry
  <2>9. Resolved(G[k]) /\ AddrOf(k) = Place(b, o) + (y - O[b].loc[o].addr)
    BY <2>6, <2>7, <2>8 DEF Resolved, AddrOf
  <2>10. PICK v \in Int : v = Place(b, o) + (y - O[b].loc[o].addr)
    BY <2>5, <2>8
  <2>11. Relocated(a, r) = v + off
    <3>1. k # NoSym
      BY <1>1, <2>2 DEF EsdType, NoSym
    <3>2. AddrOf(k) = v
      BY <2>9, <2>10
    <3> QED BY <1>5, <2>9, <2>10, <3>1, <3>2 DEF PointsBeyond
  <2>12. off = 0
    BY <1>2, <1>7 DEF RoomAt
  <2>13. PICK z \in Nat : z = y - O[b].loc[o].addr
    BY <2>4, <2>5
  <2>14. Relocated(a, r) = Place(b, o) + z /\ z < O[b].loc[o].len /\ O[b].loc[o].addr + z = y
    BY <2>4, <2>5, <2>8, <2>10, <2>11, <2>12, <2>13
  <2>15. Place(b, o) + z \in DOMAIN mod /\ mod[Place(b, o) + z] = <<b, O[b].loc[o].addr + z>>
    BY <2>4, <2>13, <2>14, ByteInImage
  <2>16. ByteNamed(n, off) = <<b, y>>
    <3>0. <<b, x>>[1] = b /\ <<b, x>>[2] = x
      OBVIOUS
    <3>1. PICK e : e = Earliest(Labels(n)) /\ e[1] = b /\ e[2] = x
      BY <2>1, <3>0, Zenon
    <3>2. ByteNamed(n, off) = <<b, O[b].ld[x].addr + off>>
      BY <1>7, <3>1 DEF ByteNamed
    <3>3. O[b].ld[x].addr + off = y
      BY <2>3, <2>5, <2>12
    <3> QED BY <3>2, <3>3
  <2> QED BY <1>2, <2>14, <2>15, <2>16
<1> QED
  BY <1>6, <1>7

\* Constants relocated keep their values.
LEMMA RelInvariant == LaySpec => []RelInv
<1>1. LayInit => RelInv
  BY RelStarts
<1>2. LayInv /\ RelInv /\ [LayNext]_vars => RelInv'
  BY RelSteps
<1> QED
  BY <1>1, <1>2, LayInvariant, PTL DEF LaySpec

\* Every address constant of a kept section lies where its section was copied
\* and points at the byte it pointed at in its deck, or at the first section or
\* label of its external name, when constants and labels lie in sections.
THEOREM ConstantsRight == LaySpec => [](Regular /\ Located => AdconsRight)
<1>1. ImageInv /\ RelInv => (Regular /\ Located => AdconsRight)
  <2> SUFFICES ASSUME ImageInv, RelInv, Regular, Located, stage = "built" PROVE AdconsRight
    BY DEF AdconsRight
  <2>1. \A a \in DOMAIN O : \A r \in DOMAIN O[a].rld :
            ~rld_dropped(a, r) => /\ rld_modaddr(a, r) \in DOMAIN mod
                                  /\ mod[rld_modaddr(a, r)] = <<a, O[a].rld[r].addr>>
    BY ConstantPlaced
  <2>2. ASSUME NEW c \in DOMAIN adcon
        PROVE  LET a == c[1]
                   r == O[a].rld[c[2]]
                   e == O[a].loc[r.R]
               IN /\ is_obj_sect(e.type) /\ Kept(a, r.R) /\ r.off < e.len =>
                       adcon[c] \in DOMAIN mod /\ mod[adcon[c]] = <<a, e.addr + r.off>>
                  /\ /\ e.type = T_ER /\ ~Mixed(e.name) /\ Items(T_SD, e.name) \cup Labels(e.name) # {}
                     /\ r.off < RoomAt(e.name)
                     => adcon[c] \in DOMAIN mod /\ mod[adcon[c]] = ByteNamed(e.name, r.off)
    <3>1. PICK a \in DOMAIN O : \E r \in DOMAIN O[a].rld : c = <<a, r>> /\ adcon[c] = Relocated(a, r)
      BY <2>2 DEF RelInv, IsRelocated
    <3>2. PICK r \in DOMAIN O[a].rld : c = <<a, r>> /\ adcon[c] = Relocated(a, r)
      BY <3>1
    <3>3. c[1] = a /\ c[2] = r
      BY <3>2
    <3> QED BY <3>2, <3>3, OwnConstant, ExternalConstant
  <2> QED BY <2>1, <2>2 DEF AdconsRight
<1> QED
  BY <1>1, ImageInvariant, RelInvariant, PTL

(***************************************************************************)
(* Warnings.  PASS 2 has warned when it has passed two labels of a name    *)
(* that are kept.                                                          *)
(***************************************************************************)
Twice ==
    \E n, a, x, b, y : MetLd(n, a, x) /\ MetLd(n, b, y) /\ ~(a = b /\ x = y)

\* A label that becomes its name's is the first met.
LEMMA FirstLabelNew ==
    ASSUME EsdType, Plain, NoMixed, Sound, Merged, FirstLabel, NEW n, n = label.name
    PROVE  \A a, x : ~MetLd(n, a, x)
<1>1. PICK k : k = LAt
  OBVIOUS
<1>2. /\ OnlyOne(G, k, n) /\ (Had(k) => G[k].name = n)
      /\ ~(Had(k) /\ G[k].type = T_LR /\ G[k].owner # NoSym)
  BY <1>1, FirstLabelEffect DEF Touches, Extended, Had
<1>3. n # Blank
  <2>1. AtLabel /\ i \in DOMAIN O /\ j \in DOMAIN O[i].ld
    BY LabelTyped DEF FirstLabel
  <2> QED BY <2>1 DEF label, Plain, PrivateIsBlank
<1>4. CASE ~Had(k)
  BY <1>2, <1>4, Unmet DEF OnlyOne, Had
<1>5. CASE Had(k)
  <2>1. G[k].type # T_LR
    BY <1>2, <1>5 DEF Sound, EsdType, NoSym, Had
  <2>2. \A m \in DOMAIN G : G[m].name = n => m = k
    BY <1>2, <1>3, <1>5 DEF Merged, OneEntry, Had
  <2> QED BY <2>1, <2>2 DEF Merged, LabelsIn
<1> QED
  BY <1>4, <1>5

\* PASS 2 warns when it passes a second label of a name, and only then.
LEMMA StepTwice ==
    ASSUME EsdType, Plain, NoMixed, Sound, Merged, EsdStep, nwarn > 0 <=> Twice
    PROVE  nwarn' > 0 <=> Twice'
<1>1. ASSUME nwarn' = nwarn, \A n, a, x : MetLd(n, a, x)' <=> MetLd(n, a, x)
      PROVE  nwarn' > 0 <=> Twice'
  BY <1>1 DEF Twice
<1>2. CASE PrivateCode \/ DuplicateSection \/ FirstSection \/ Common \/ Reference
  <2>1. nwarn' = nwarn
    BY <1>2 DEF PrivateCode, DuplicateSection, FirstSection, Common, Reference
  <2>2. PICK k : Turn(k)
    BY <1>2, ItemTurns
  <2>3. \A n, a, x : MetLd(n, a, x)' <=> MetLd(n, a, x)
    BY <2>2, TurnMeets
  <2> QED BY <1>1, <2>1, <2>3
<1>3. ASSUME Unused \/ LocalsDone \/ LabelDropped \/ LabelAgain \/ FirstLabel \/ ObjectDone \/ Check
      PROVE  \A n, a, x : MetLd(n, a, x)' <=>
                 MetLd(n, a, x) \/ (AtLabel /\ IsLd(n, a, x) /\ a = i /\ x = j)
  <2>1. UNCHANGED <<O, loc_g>>
    BY <1>3 DEF Unused, LocalsDone, LabelDropped, LabelAgain, FirstLabel, ObjectDone, Check
  <2> QED BY <1>3, <2>1, LabelsPassed
<1>4. CASE Unused \/ LocalsDone \/ ObjectDone \/ Check
  <2>1. nwarn' = nwarn /\ ~AtLabel
    BY <1>4 DEF Unused, LocalsDone, ObjectDone, Check, AtLabel
  <2> QED BY <1>1, <1>3, <1>4, <2>1
<1>5. CASE LabelDropped
  <2>1. nwarn' = nwarn /\ AtLabel /\ OwnerDropped
    BY <1>5 DEF LabelDropped
  <2>2. \A n : ~IsLd(n, i, j)
    <3>1. ~IsLd(label.name, i, j)
      BY <2>1, LabelKept
    <3> QED BY <3>1 DEF IsLd, label
  <2> QED BY <1>1, <1>3, <1>5, <2>1, <2>2
<1>6. CASE LabelAgain
  <2>1. AtLabel /\ ~OwnerDropped /\ nwarn' = nwarn + 1 /\ nwarn \in Nat
    BY <1>6 DEF LabelAgain, EsdType
  <2>2. PICK n, a, x : n = label.name /\ a = i /\ x = j
    OBVIOUS
  <2>3. MetLd(n, a, x)' /\ ~MetLd(n, a, x)
    <3>1. IsLd(n, a, x)
      BY <2>1, <2>2, LabelKept
    <3>2. ~SeenLd(i, j)
      BY DEF SeenLd, EsdType
    <3> QED BY <1>3, <1>6, <2>1, <2>2, <3>1, <3>2 DEF MetLd
  <2>4. PICK k : k \in DOMAIN G /\ G[k].name = n /\ G[k].type = T_LR
    BY <1>6, <2>2, LabelAgainEffect DEF Had
  <2>5. n # Blank
    <3>1. i \in DOMAIN O /\ j \in DOMAIN O[i].ld
      BY <2>1, LabelTyped
    <3> QED BY <2>2, <3>1 DEF label, Plain, PrivateIsBlank
  <2>6. PICK b, y : MetLd(n, b, y)
    BY <2>4, <2>5 DEF Merged, EntriesHold, Holds, HoldsLabel
  <2>7. MetLd(n, b, y)' /\ ~(a = b /\ x = y)
    BY <1>3, <1>6, <2>3, <2>6
  <2> QED BY <2>1, <2>3, <2>7 DEF Twice
<1>7. CASE FirstLabel
  <2>1. nwarn' = nwarn
    BY <1>7 DEF FirstLabel
  <2>2. PICK n : n = label.name
    OBVIOUS
  <2>3. \A a, x : ~MetLd(n, a, x)
    BY <1>7, <2>2, FirstLabelNew
  <2>4. \A m, a, x : MetLd(m, a, x)' => MetLd(m, a, x) \/ (m = n /\ a = i /\ x = j)
    BY <1>3, <1>7, <2>2 DEF IsLd, label
  <2>5. \A m, a, x : MetLd(m, a, x) => MetLd(m, a, x)'
    BY <1>3, <1>7
  <2>6. Twice' => Twice
    <3> SUFFICES ASSUME Twice' PROVE Twice
      OBVIOUS
    <3>1. PICK m, a, x, b, y : MetLd(m, a, x)' /\ MetLd(m, b, y)' /\ ~(a = b /\ x = y)
      BY DEF Twice
    <3>2. m # n
      BY <2>3, <2>4, <3>1
    <3>3. MetLd(m, a, x) /\ MetLd(m, b, y)
      BY <2>4, <3>1, <3>2
    <3> QED BY <3>1, <3>3 DEF Twice
  <2>7. Twice => Twice'
    BY <2>5 DEF Twice
  <2> QED BY <2>1, <2>6, <2>7
<1> QED
  BY <1>2, <1>4, <1>5, <1>6, <1>7 DEF EsdStep

\* There are two labels when there are more than one.
LEMMA TwoLabels ==
    ASSUME EsdType, NEW n
    PROVE  Cardinality(Labels(n)) > 1 <=> \E p, q \in Labels(n) : p # q
<1>1. IsFiniteSet(Labels(n))
  <2> DEFINE U(a) == {a} \X DOMAIN O[a].ld
             T == {U(a) : a \in DOMAIN O}
             f == [a \in DOMAIN O |-> U(a)]
  <2>1. IsFiniteSet(DOMAIN O)
    <3>1. DOMAIN O = 1..Len(O) /\ Len(O) \in Int
      BY DEF EsdType, Objects
    <3> QED BY <3>1, FS_Interval
  <2>2. f \in Surjection(DOMAIN O, T)
    BY DEF Surjection
  <2>3. IsFiniteSet(T)
    <3> HIDE DEF T, f
    <3> QED BY <2>1, <2>2, FS_Surjection
  <2>4. \A S \in T : IsFiniteSet(S)
    <3> SUFFICES ASSUME NEW a \in DOMAIN O PROVE IsFiniteSet(U(a))
      OBVIOUS
    <3>1. O[a].ld \in Seq(EsdItem)
      BY DEF EsdType, Objects, IsObject
    <3>2. DOMAIN O[a].ld = 1..Len(O[a].ld) /\ Len(O[a].ld) \in Nat
      BY <3>1
    <3>3. IsFiniteSet(DOMAIN O[a].ld)
      BY <3>2, FS_Interval
    <3> QED BY <3>3, FS_Singleton, FS_Product
  <2>5. IsFiniteSet(UNION T)
    <3> HIDE DEF T
    <3> QED BY <2>3, <2>4, FS_UNION
  <2>6. Labels(n) \subseteq UNION T
    <3> SUFFICES ASSUME NEW p \in Labels(n) PROVE p \in UNION T
      OBVIOUS
    <3>1. p = <<p[1], p[2]>> /\ p[1] \in DOMAIN O /\ p[2] \in DOMAIN O[p[1]].ld
      BY InLabels DEF IsLd
    <3>2. p \in U(p[1])
      BY <3>1
    <3> QED BY <3>1, <3>2
  <2> HIDE DEF T
  <2> QED BY <2>5, <2>6, FS_Subset
<1>2. Cardinality(Labels(n)) \in Nat
  BY <1>1, FS_CardinalityType
<1>3. ASSUME NEW p \in Labels(n), NEW q \in Labels(n), p # q PROVE Cardinality(Labels(n)) > 1
  <2>1. Cardinality(Labels(n)) # 0
    BY <1>1, FS_EmptySet
  <2>2. Cardinality(Labels(n)) # 1
    BY <1>1, <1>3, FS_Singleton
  <2> QED BY <1>2, <2>1, <2>2
<1>4. ASSUME \A p, q \in Labels(n) : p = q PROVE ~(Cardinality(Labels(n)) > 1)
  <2>1. Labels(n) = {} \/ \E p : Labels(n) = {p}
    BY <1>4
  <2>2. Cardinality(Labels(n)) \in {0, 1}
    BY <1>1, <2>1, FS_EmptySet, FS_Singleton
  <2> QED BY <2>2
<1> QED
  BY <1>3, <1>4

\* A warning is of two labels or of a constant left pointing astray.
AnyAstray == \E c \in DOMAIN adcon : Astray(c[1], c[2])
WarnInv == Plain /\ NoMixed => (nwarn > 0 <=> Twice \/ AnyAstray)

\* Every step keeps the account of warnings.
LEMMA WarnSteps ==
    ASSUME LayInv, TabInv, RelInv, WarnInv, LayNext \/ UNCHANGED vars
    PROVE  WarnInv'
<1>0. EsdType /\ Frame /\ nwarn \in Nat
  BY DEF LayInv, EsdType
<1>1. CASE EsdStep /\ UNCHANGED layvars
  <2>1. AtStart
    BY <1>0, <1>1, PassOpen DEF Frame, AtStart
  <2>2. O' = O
    BY <1>0, <1>1, StepType
  <2>3. (Plain' <=> Plain) /\ (NoMixed' <=> NoMixed)
    BY <2>2, SameMixed DEF Plain
  <2>4. ~AnyAstray /\ ~AnyAstray'
    BY <1>1, <2>1 DEF AtStart, RelInv, AnyAstray, layvars
  <2>5. Plain /\ NoMixed => (nwarn' > 0 <=> Twice')
    BY <1>0, <1>1, <2>1, <2>4, StepTwice DEF TabInv, WarnInv
  <2> QED BY <2>3, <2>4, <2>5 DEF WarnInv
<1>2. ASSUME UNCHANGED <<O, loc_g, dropped, i, j, pc>>
      PROVE  /\ (Plain' <=> Plain) /\ (NoMixed' <=> NoMixed) /\ (Twice' <=> Twice)
             /\ \A a, r : Astray(a, r)' <=> Astray(a, r)
  <2>1. \A n, a, x : MetLd(n, a, x)' <=> MetLd(n, a, x)
    BY <1>2, StillMet DEF MetLd, SeenLd
  <2> QED BY <1>2, <2>1, SameMixed DEF Twice, Plain, Astray
<1>3. ASSUME UNCHANGED <<O, loc_g, dropped, i, j, pc, nwarn, adcon>>
      PROVE  WarnInv'
  BY <1>2, <1>3 DEF WarnInv, AnyAstray
<1>4. CASE PlaceObject \/ PlaceCommon
  BY <1>3, <1>4 DEF PlaceObject, PlaceCommon
<1>5. CASE ObjectsPlaced \/ AssignIds \/ FindEntry \/ NoEntry \/ mod_reserve \/ CopyObject
           \/ ImageBuilt \/ ObjectRelocated \/ ModuleBuilt
  BY <1>3, <1>5 DEF ObjectsPlaced, AssignIds, FindEntry, NoEntry, mod_reserve, CopyObject,
                    ImageBuilt, ObjectRelocated, ModuleBuilt, esdvars
<1>6. CASE RelocateItem
  <2>1. PICK c, b, q : c = <<at, ri>> /\ b = at /\ q = ri
    OBVIOUS
  <2>2. /\ UNCHANGED <<O, loc_g, dropped, i, j, pc>>
        /\ adcon' = IF rld_dropped(b, q) THEN adcon
                    ELSE [d \in DOMAIN adcon \cup {c} |-> IF d = c THEN Relocated(b, q) ELSE adcon[d]]
        /\ nwarn' = IF ~rld_dropped(b, q) /\ Astray(b, q) THEN nwarn + 1 ELSE nwarn
    BY <1>6, <2>1 DEF RelocateItem
  <2>3. c[1] = b /\ c[2] = q
    BY <2>1
  <2>4. CASE rld_dropped(b, q)
    BY <1>3, <2>2, <2>4
  <2>5. CASE ~rld_dropped(b, q)
    <3>1. DOMAIN adcon' = DOMAIN adcon \cup {c}
      BY <2>2, <2>5
    <3>2. AnyAstray' <=> AnyAstray \/ Astray(b, q)
      BY <1>2, <2>2, <2>3, <3>1 DEF AnyAstray
    <3>3. nwarn' > 0 <=> nwarn > 0 \/ Astray(b, q)
      BY <1>0, <2>2, <2>5
    <3> QED BY <1>2, <2>2, <3>2, <3>3 DEF WarnInv
  <2> QED BY <2>4, <2>5
<1>7. CASE UNCHANGED vars
  BY <1>3, <1>7 DEF vars, esdvars, layvars
<1> QED
  BY <1>1, <1>4, <1>5, <1>6, <1>7 DEF LayNext, LayStep, LayDone

\* The warning count is above zero exactly when a kept entry is doubly defined
\* or a constant still in the module points past the start of a section that
\* is not, whatever was dropped and however the objects were laid out.
THEOREM WarningsExact == LaySpec => [](Plain => WarnedExactly)
<1>1. LayInit => WarnInv
  <2> SUFFICES ASSUME LayInit PROVE WarnInv
    OBVIOUS
  <2>1. Objects /\ i = 1 /\ pc = "loc" /\ nwarn = 0 /\ DOMAIN adcon = {}
    BY InputsAssumption DEF LayInit, Init, Objects
  <2>2. ~Twice
    <3>1. \A n, a, x : ~MetLd(n, a, x)
      BY <2>1 DEF MetLd, SeenLd, IsLd, Objects
    <3> QED BY <3>1 DEF Twice
  <2> QED BY <2>1, <2>2 DEF WarnInv, AnyAstray
<1>2. ImageInv /\ RelInv /\ WarnInv /\ [LayNext]_vars => WarnInv'
  BY WarnSteps DEF ImageInv
<1>3. LayInv /\ WarnInv => (Plain => WarnedExactly)
  <2> SUFFICES ASSUME LayInv, WarnInv, Plain, NoMixed, stage = "built"
               PROVE  nwarn > 0 <=> (\E name \in Names : Cardinality(Labels(name)) > 1) \/ AnyAstray
    BY DEF WarnedExactly, NoMixed, AnyAstray
  <2>1. EsdType /\ Done
    BY DEF LayInv, Frame, Done
  <2>2. Twice <=> \E n : \E p, q \in Labels(n) : p # q
    <3>1. ASSUME NEW n, NEW p \in Labels(n), NEW q \in Labels(n), p # q PROVE Twice
      <4>1. /\ p = <<p[1], p[2]>> /\ IsLd(n, p[1], p[2])
            /\ q = <<q[1], q[2]>> /\ IsLd(n, q[1], q[2])
        BY InLabels
      <4>2. ~(p[1] = q[1] /\ p[2] = q[2])
        BY <3>1, <4>1
      <4> QED BY <2>1, <4>1, <4>2, AllMet DEF Twice
    <3>2. ASSUME Twice PROVE \E n : \E p, q \in Labels(n) : p # q
      <4>1. PICK n, a, x, b, y : MetLd(n, a, x) /\ MetLd(n, b, y) /\ ~(a = b /\ x = y)
        BY <3>2 DEF Twice
      <4>2. <<a, x>> \in Labels(n) /\ <<b, y>> \in Labels(n)
        BY <4>1, InLabels DEF MetLd
      <4>3. <<a, x>> # <<b, y>>
        BY <4>1
      <4> QED BY <4>2, <4>3
    <3> QED BY <3>1, <3>2
  <2>3. \A n : Labels(n) # {} => n \in Names
    <3> SUFFICES ASSUME NEW n, NEW p \in Labels(n) PROVE n \in Names
      OBVIOUS
    <3>1. p[1] \in DOMAIN O /\ p[2] \in DOMAIN O[p[1]].ld /\ O[p[1]].ld[p[2]].name = n
      BY InLabels DEF IsLd
    <3>2. O[p[1]].ld \in Seq(EsdItem)
      BY <2>1, <3>1 DEF EsdType, Objects, IsObject
    <3>3. O[p[1]].ld[p[2]] \in EsdItem
      BY <3>1, <3>2
    <3> QED BY <3>1, <3>3 DEF EsdItem
  <2>4. \A n : Cardinality(Labels(n)) > 1 <=> \E p, q \in Labels(n) : p # q
    BY <2>1, TwoLabels
  <2>5. Twice <=> \E name \in Names : Cardinality(Labels(name)) > 1
    BY <2>2, <2>3, <2>4
  <2> QED BY <2>5 DEF WarnInv
<1> QED
  BY <1>1, <1>2, <1>3, LayInvariant, ImageInvariant, RelInvariant, PTL DEF LaySpec

(***************************************************************************)
(* The entry point an END card names, in a section that is its deck's      *)
(* first.  In any other the entry point counts the section's deck origin   *)
(* twice (ld370.c 2766): the card holds an address, not an offset.         *)
(***************************************************************************)
EntInv ==
    /\ stage \in {"reserve", "copy", "relocate", "built"} /\ entryname = NoName /\ WithEnd # {} =>
           entry_addr = EndEntry(Min(WithEnd))

\* Every step keeps the entry found.
LEMMA EntSteps ==
    ASSUME LayInv, EntInv, LayNext \/ UNCHANGED vars
    PROVE  EntInv'
<1>1. CASE (EsdStep /\ UNCHANGED layvars) \/ PlaceObject \/ ObjectsPlaced \/ PlaceCommon \/ AssignIds
  <2>1. stage' \in {"objects", "commons", "entry"}
    BY <1>1, PassOpen DEF LayInv, Frame, layvars, PlaceObject, ObjectsPlaced, PlaceCommon, AssignIds
  <2> QED BY <2>1 DEF EntInv
<1>2. ASSUME UNCHANGED <<O, loc_g, org>>
      PROVE  WithEnd' = WithEnd /\ \A a : EndEntry(a)' = EndEntry(a)
  BY <1>2 DEF WithEnd, EndEntry
<1>3. CASE FindEntry
  <2>1. /\ UNCHANGED <<O, loc_g, org, entryname>>
        /\ entryname = NoName /\ WithEnd # {} => entry_addr' = EndEntry(Min(WithEnd))
    BY <1>3 DEF FindEntry, esdvars
  <2> QED BY <1>2, <2>1 DEF EntInv
<1>4. CASE NoEntry \/ mod_reserve \/ CopyObject \/ ImageBuilt \/ RelocateItem \/ ObjectRelocated
           \/ ModuleBuilt \/ UNCHANGED vars
  <2>1. UNCHANGED <<O, loc_g, org, entryname, entry_addr>>
    BY <1>4 DEF NoEntry, mod_reserve, CopyObject, ImageBuilt, RelocateItem, ObjectRelocated,
                ModuleBuilt, vars, esdvars, layvars
  <2>2. stage' \in {"reserve", "copy", "relocate", "built"} =>
            stage \in {"reserve", "copy", "relocate", "built"}
    BY <1>4 DEF NoEntry, mod_reserve, CopyObject, ImageBuilt, RelocateItem, ObjectRelocated,
                ModuleBuilt, vars, layvars
  <2> QED BY <1>2, <2>1, <2>2 DEF EntInv
<1> QED
  BY <1>1, <1>3, <1>4 DEF LayNext, LayStep, LayDone

\* A section, kept or not, is held by the entry of the one kept: the byte off
\* into that is what its name stands for.
LEMMA NamedByte ==
    ASSUME ImageInv, Regular, stage = "built", NEW a \in DOMAIN O, NEW id,
           NEW n, Is(T_SD, n, a, id), NEW off \in Nat, off < RoomAt(n)
    PROVE  /\ org[loc_g[a][id]] + off \in DOMAIN mod
           /\ mod[org[loc_g[a][id]] + off] = ByteNamed(n, off)
<1>1. EsdType /\ HeldNames
  BY DEF ImageInv, LayInv, TabInv, AtStart, Tables
<1>2. Items(T_SD, n) # {}
  <2>1. <<a, id>> \in Items(T_SD, n)
    BY InItems
  <2> QED BY <2>1
<1>3. PICK b, y : Is(T_SD, n, b, y) /\ FirstSD(b, y) /\ Earliest(Items(T_SD, n)) = <<b, y>>
  BY <1>1, <1>2, FirstOfName
<1>4. loc_g[a][id] = loc_g[b][y] /\ Kept(b, y)
  <2>1. SameSection(a, id, b, y)
    BY <1>1, <1>3 DEF HeldNames
  <2> QED BY <2>1 DEF SameSection
<1>5. b \in DOMAIN O /\ y \in ObjSections(b)
  BY <1>3 DEF Is, ObjSections, is_obj_sect
<1>6. off < O[b].loc[y].len /\ ByteNamed(n, off) = <<b, O[b].loc[y].addr + off>>
  <2>1. <<b, y>>[1] = b /\ LocOf(<<b, y>>) = O[b].loc[y]
    BY DEF LocOf
  <2>2. PICK e : e = Earliest(Items(T_SD, n)) /\ e[1] = b /\ LocOf(e) = O[b].loc[y]
    BY <1>3, <2>1, Zenon
  <2>3. RoomAt(n) = O[b].loc[y].len
    BY <1>2, <2>2 DEF RoomAt
  <2>4. ByteNamed(n, off) = <<b, O[b].loc[y].addr + off>>
    BY <1>2, <2>2 DEF ByteNamed
  <2> QED BY <2>3, <2>4
<1>7. off \in Int /\ 0 <= off
  OBVIOUS
<1>8. /\ Place(b, y) + off \in DOMAIN mod /\ org[loc_g[b][y]] = Place(b, y)
      /\ mod[Place(b, y) + off] = <<b, O[b].loc[y].addr + off>>
  BY <1>4, <1>5, <1>6, <1>7, ByteInImage, Zenon
<1> QED
  BY <1>4, <1>6, <1>8, Zenon

\* Without --entry the program is entered at the byte the first END card named,
\* when that card names a byte of the section that begins its deck, or, when
\* that section is a dropped duplicate, the same byte of the one kept.
THEOREM EntryInPlace == LaySpec => [](Regular => EndEntryInPlace)
<1>1. LayInit => EntInv
  BY DEF LayInit, EntInv
<1>2. LayInv /\ EntInv /\ [LayNext]_vars => EntInv'
  BY EntSteps
<1>3. ImageInv /\ EntInv => (Regular => EndEntryInPlace)
  <2> SUFFICES ASSUME ImageInv, EntInv, Regular, NEW a \in DOMAIN O, EnteredByEnd(a), EndInside(a),
                      EndSection(a).addr = 0
               PROVE  Entered(EndByte(a))
    BY DEF EndEntryInPlace
  <2>1. a \in WithEnd /\ stage = "built" /\ entry_addr = EndEntry(a)
    <3>1. WithEnd # {} /\ a = Min(WithEnd) /\ stage = "built" /\ entryname = NoName
      BY DEF EnteredByEnd
    <3>2. WithEnd \subseteq Nat
      BY DEF WithEnd, ImageInv, LayInv, EsdType, Objects
    <3>3. \E x \in WithEnd : \A y \in WithEnd : x <= y
      BY <3>1, <3>2, LeastNumber
    <3>4. a \in WithEnd
      BY <3>1, <3>3 DEF Min
    <3> QED BY <3>1, <3>4 DEF EntInv
  <2>2. PICK id, off : id = O[a].end.id /\ off = O[a].end.off
    OBVIOUS
  <2>3. id \in ObjSections(a) /\ O[a].loc[id].addr = 0
    BY <2>1, <2>2 DEF WithEnd, used, EndInside, EndSection, ObjSections
  <2>4. O[a].loc[id].len \in Nat
    BY <2>3, ObjectTyped DEF ImageInv, LayInv
  <2>5. off \in 0..(0 + O[a].loc[id].len - 1)
    BY <2>2, <2>3 DEF EndInside, EndSection
  <2>6. off \in Nat /\ off \in Int /\ 0 <= off /\ off < O[a].loc[id].len /\ 0 + off = off /\ off - 0 = off
    BY <2>4, <2>5
  <2>7. entry_addr = org[loc_g[a][id]] + off
    BY <2>1, <2>2 DEF EndEntry
  <2>8. CASE Kept(a, id)
    <3>1. /\ Place(a, id) + off \in DOMAIN mod /\ org[loc_g[a][id]] = Place(a, id)
          /\ mod[Place(a, id) + off] = <<a, O[a].loc[id].addr + off>>
      BY <2>1, <2>3, <2>6, <2>8, ByteInImage
    <3>2. EndByte(a) = <<a, off>>
      BY <2>2, <2>8 DEF EndByte
    <3>3. mod[entry_addr] = <<a, off>> /\ entry_addr \in DOMAIN mod
      BY <2>3, <2>6, <2>7, <3>1
    <3> QED BY <3>2, <3>3 DEF Entered
  <2>9. CASE ~Kept(a, id)
    <3>1. PICK n : n = O[a].loc[id].name
      OBVIOUS
    <3>2. Is(T_SD, n, a, id)
      <4>1. PICK d \in dropped : d = <<a, id>>
        BY <2>9 DEF Kept
      <4>2. O[d[1]].loc[d[2]].type = T_SD
        BY DEF ImageInv, LayInv, EsdType
      <4>3. O[a].loc[id].type = T_SD
        BY <4>1, <4>2
      <4> QED BY <2>3, <3>1, <4>3 DEF Is, ObjSections
    <3>3. off < RoomAt(n)
      <4>1. O[a].end.off - EndSection(a).addr < RoomAt(EndSection(a).name)
        BY <2>2, <2>9 DEF EndInside
      <4> QED BY <2>2, <2>3, <2>6, <3>1, <4>1 DEF EndSection
    <3>4. /\ org[loc_g[a][id]] + off \in DOMAIN mod
          /\ mod[org[loc_g[a][id]] + off] = ByteNamed(n, off)
      BY <2>1, <2>6, <3>2, <3>3, NamedByte
    <3>5. EndByte(a) = ByteNamed(n, off)
      <4>1. EndByte(a) = ByteNamed(EndSection(a).name, O[a].end.off - EndSection(a).addr)
        BY <2>2, <2>9 DEF EndByte
      <4>2. EndSection(a).name = n /\ O[a].end.off - EndSection(a).addr = off
        BY <2>2, <2>3, <2>6, <3>1 DEF EndSection
      <4> QED BY <4>1, <4>2, Zenon
    <3> QED BY <2>7, <3>4, <3>5 DEF Entered
  <2> QED BY <2>8, <2>9
<1> QED
  BY <1>1, <1>2, <1>3, LayInvariant, ImageInvariant, PTL DEF LaySpec
=============================================================================
