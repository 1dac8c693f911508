------------------------- MODULE CompositeEsdProofs -------------------------
(***************************************************************************)
(* Proofs about CompositeEsd: what a turn of PASS 2's loops does to the    *)
(* table, for any objects in any order.  The lemmas speak of EsdStep, not  *)
(* of a specification, so that they also hold where PASS 2 runs behind the *)
(* library search (LinkProofs).                                            *)
(***************************************************************************)
EXTENDS CompositeEsd, WellFoundedInduction, SequenceTheorems, TLAPS

\* A non-empty set of naturals has a least element.
LEMMA LeastNumber ==
    ASSUME NEW S, S \subseteq Nat, S # {}
    PROVE  \E x \in S : \A y \in S : x <= y
<1>1. PICK x \in S : \A y \in S : ~(<<y, x>> \in OpToRel(<, Nat))
  BY WFMin, NatLessThanWellFounded, Zenon
<1>2. \A y \in S : ~(y < x)
  BY <1>1 DEF OpToRel
<1> QED
  BY <1>2

(***************************************************************************)
(* The table operators.                                                    *)
(***************************************************************************)

\* g_find returns the first entry of a name, NoSym when there is none.
LEMMA Find ==
    ASSUME NEW tab \in Seq(GSym), NEW name
    PROVE  \/ /\ g_find(tab, name) = NoSym
              /\ \A m \in DOMAIN tab : tab[m].name # name
           \/ /\ g_find(tab, name) \in DOMAIN tab
              /\ tab[g_find(tab, name)].name = name
              /\ \A m \in DOMAIN tab : tab[m].name = name => g_find(tab, name) <= m
<1> DEFINE hits == {k \in DOMAIN tab : tab[k].name = name}
<1>1. CASE hits = {}
  BY <1>1 DEF g_find
<1>2. CASE hits # {}
  <2>1. PICK x \in hits : \A y \in hits : x <= y
    <3>1. hits \subseteq Nat
      OBVIOUS
    <3> QED BY <1>2, <3>1, LeastNumber
  <2>2. g_find(tab, name) = CHOOSE k \in hits : \A m \in hits : k <= m
    BY <1>2 DEF g_find
  <2>3. g_find(tab, name) \in hits /\ \A m \in hits : g_find(tab, name) <= m
    BY <2>1, <2>2
  <2> QED
    BY <2>3
<1> QED
  BY <1>1, <1>2

\* Entry k of the name is the only one that differs; it may be a new one at the
\* end, and then no other has the name.
Extended(tab, new, k, name) ==
    /\ new \in Seq(GSym) /\ Len(new) \in Nat /\ Len(new) >= Len(tab)
    /\ k \in DOMAIN new /\ new[k] \in GSym /\ new[k].name = name
    /\ DOMAIN new = DOMAIN tab \cup {k}
    /\ \A m \in DOMAIN tab : m # k => new[m] = tab[m]
    /\ k \in DOMAIN tab => tab[k].name = name

\* An entry is made only when the name has none.
OnlyOne(tab, k, name) == k \notin DOMAIN tab => \A m \in DOMAIN tab : tab[m].name # name

\* Interning: of an entry that was there only a weak type changes.
InternKeeps(tab, new, k, type) ==
    k \in DOMAIN tab =>
        /\ new[k].is_sect = tab[k].is_sect /\ new[k].len = tab[k].len
        /\ new[k].def_obj = tab[k].def_obj /\ new[k].in_addr = tab[k].in_addr
        /\ new[k].owner = tab[k].owner
        /\ new[k].type = IF tab[k].type = T_WX /\ type # T_WX THEN T_ER ELSE tab[k].type
InternMakes(tab, new, k, type) ==
    k \notin DOMAIN tab =>
        /\ ~new[k].is_sect /\ new[k].type = type /\ new[k].owner = NoSym
        /\ new[k].def_obj = NoSym /\ new[k].len = 0 /\ new[k].in_addr = 0

\* g_intern leaves every other entry alone and finds or makes one of the name.
LEMMA Intern ==
    ASSUME NEW tab \in Seq(GSym), NEW name \in Names, NEW type \in DeckTypes
    PROVE  LET new == g_intern(tab, name, type)
               k == g_find(new, name)
           IN /\ Extended(tab, new, k, name) /\ OnlyOne(tab, k, name)
              /\ InternKeeps(tab, new, k, type) /\ InternMakes(tab, new, k, type)
              /\ k \in DOMAIN tab => k = g_find(tab, name)
<1> DEFINE new == g_intern(tab, name, type)
           k == g_find(new, name)
           f == g_find(tab, name)
<1>1. CASE f = NoSym
  <2>1. \A m \in DOMAIN tab : tab[m].name # name
    BY <1>1, Find DEF NoSym
  <2> DEFINE r == [name |-> name, type |-> type, is_sect |-> FALSE, len |-> 0,
                   def_obj |-> NoSym, in_addr |-> 0, owner |-> NoSym]
  <2>2. new = Append(tab, r)
    BY <1>1 DEF g_intern, g_new
  <2>3. r \in GSym
    BY DEF GSym, NoSym
  <2>4. /\ new \in Seq(GSym) /\ Len(new) = Len(tab) + 1
        /\ new[Len(tab) + 1] = r
        /\ \A m \in DOMAIN tab : new[m] = tab[m]
        /\ DOMAIN new = DOMAIN tab \cup {Len(tab) + 1}
    BY <2>2, <2>3
  <2>5. k = Len(tab) + 1
    BY <2>1, <2>4, Find
  <2>6. k \notin DOMAIN tab
    BY <2>5
  <2> HIDE DEF new, k
  <2>7. Extended(tab, new, k, name)
    BY <2>3, <2>4, <2>5, <2>6 DEF Extended
  <2> QED
    BY <2>1, <2>4, <2>5, <2>6, <2>7 DEF new, k, OnlyOne, InternKeeps, InternMakes
<1>2. CASE f # NoSym
  <2>1. /\ f \in DOMAIN tab /\ tab[f].name = name
        /\ \A m \in DOMAIN tab : tab[m].name = name => f <= m
    BY <1>2, Find
  <2>2. new = IF tab[f].type = T_WX /\ type # T_WX THEN [tab EXCEPT ![f].type = T_ER] ELSE tab
    BY <1>2 DEF g_intern
  <2>3. tab[f] \in GSym
    BY <2>1
  <2>4. [tab[f] EXCEPT !.type = T_ER] \in GSym
    BY <2>3 DEF GSym, DeckTypes, T_ER
  <2>5. /\ new \in Seq(GSym) /\ Len(new) = Len(tab) /\ DOMAIN new = DOMAIN tab
        /\ \A m \in DOMAIN tab : m # f => new[m] = tab[m]
        /\ new[f] = IF tab[f].type = T_WX /\ type # T_WX THEN [tab[f] EXCEPT !.type = T_ER] ELSE tab[f]
    BY <2>1, <2>2, <2>4
  <2>6. new[f].name = name /\ \A m \in DOMAIN new : new[m].name = tab[m].name
    BY <2>1, <2>3, <2>5 DEF GSym
  <2>7. k = f
    <3>1. k \in DOMAIN new /\ new[k].name = name /\ \A m \in DOMAIN new : new[m].name = name => k <= m
      BY <2>1, <2>5, <2>6, Find
    <3> HIDE DEF new, k, f
    <3> QED BY <2>1, <2>5, <2>6, <3>1
  <2>8. f # NoSym => k = g_find(tab, name)
    BY <2>7
  <2> HIDE DEF new, k, f
  <2>9. Extended(tab, new, k, name)
    BY <2>1, <2>3, <2>4, <2>5, <2>6, <2>7 DEF Extended
  <2>10. InternKeeps(tab, new, k, type) /\ k \in DOMAIN tab
    BY <2>1, <2>3, <2>5, <2>7 DEF InternKeeps, GSym
  <2> QED
    BY <1>2, <2>8, <2>9, <2>10 DEF new, k, f, OnlyOne, InternMakes
<1> QED
  BY <1>1, <1>2

(***************************************************************************)
(* Type correctness.  What is bound is exactly what the loops have passed. *)
(***************************************************************************)
Objects ==
    /\ Len(O) \in Nat /\ DOMAIN O = 1..Len(O)
    /\ \A a \in DOMAIN O : IsObject(O[a])

SeenLoc(a, id) == a < i \/ (a = i /\ (pc # "loc" \/ id < j))

EsdType ==
    /\ Objects
    /\ G \in Seq(GSym)
    /\ \A k \in DOMAIN G : G[k].owner \in 0..Len(G)
    /\ DOMAIN loc_g = DOMAIN O
    /\ \A a \in DOMAIN O : \A id \in DOMAIN O[a].loc : id \in DOMAIN loc_g[a] <=> SeenLoc(a, id)
    /\ \A a \in DOMAIN O : \A id \in DOMAIN loc_g[a] : id \in DOMAIN O[a].loc /\ loc_g[a][id] \in DOMAIN G
    /\ \A d \in dropped : /\ d = <<d[1], d[2]>> /\ d[1] \in DOMAIN O
                          /\ d[2] \in DOMAIN O[d[1]].loc
                          /\ O[d[1]].loc[d[2]].type = T_SD
    /\ i \in 1..(Len(O) + 1) /\ j \in Nat \ {0}
    /\ pc \in {"loc", "ld", "failed", "resolved"}
    /\ pc = "ld" => i <= Len(O)
    /\ Done => i = Len(O) + 1
    /\ ncomerr \in Nat /\ nwarn \in Nat

\* The step changes entry k, which bears the name, and no other.
Touches(k, name) == Extended(G, G', k, name)
OwnerKept(k) == G'[k].owner = IF k \in DOMAIN G THEN G[k].owner ELSE NoSym

Replaces(mid, new, k, r) == new = [mid EXCEPT ![k] = r]

LEMMA Replaced ==
    ASSUME NEW tab, NEW mid, NEW k, NEW name, Extended(tab, mid, k, name),
           NEW r \in GSym, r.name = name, NEW new, Replaces(mid, new, k, r)
    PROVE  Extended(tab, new, k, name) /\ new[k] = r
<1>1. mid \in Seq(GSym) /\ k \in DOMAIN mid
  BY DEF Extended
<1>2. /\ new \in Seq(GSym)
      /\ DOMAIN new = DOMAIN mid
      /\ Len(new) = Len(mid)
      /\ new[k] = r
      /\ \A m \in DOMAIN mid : m # k => new[m] = mid[m]
  BY <1>1 DEF Replaces
<1> QED
  BY <1>2 DEF Extended

\* What the loop is at is an item of the deck.
LEMMA ItemTyped ==
    ASSUME EsdType, AtLocal
    PROVE  /\ i \in DOMAIN O /\ j \in DOMAIN O[i].loc /\ j \in Nat
           /\ item \in EsdItem
           /\ item.name \in Names /\ item.type \in DeckTypes /\ item.len \in Nat /\ item.addr \in Nat
<1>1. i \in DOMAIN O /\ j \in DOMAIN O[i].loc /\ j \in Nat
  BY DEF EsdType, Objects, AtLocal, used
<1>2. item \in EsdItem
  BY <1>1 DEF EsdType, Objects, IsObject, item
<1> QED
  BY <1>1, <1>2 DEF EsdItem

LEMMA LabelTyped ==
    ASSUME EsdType, AtLabel
    PROVE  /\ i \in DOMAIN O /\ j \in DOMAIN O[i].ld
           /\ label \in EsdItem
           /\ label.name \in Names /\ label.addr \in Nat
           /\ OwnerKnown /\ label.len \in DOMAIN O[i].loc
           /\ is_sect_type(O[i].loc[label.len].type)
           /\ O[i].loc[label.len].addr \in Nat
           /\ label.len \in DOMAIN loc_g[i] /\ loc_g[i][label.len] \in DOMAIN G
<1>1. i \in DOMAIN O /\ j \in DOMAIN O[i].ld
  BY DEF EsdType, Objects, AtLabel
<1>2. IsObject(O[i])
  BY <1>1 DEF EsdType, Objects
<1>3. /\ label \in EsdItem
      /\ label.len \in DOMAIN O[i].loc
      /\ is_sect_type(O[i].loc[label.len].type)
      /\ O[i].loc[label.len] \in EsdItem
  BY <1>1, <1>2 DEF IsObject, label
<1>4. label.len \in DOMAIN loc_g[i]
  BY <1>1, <1>3 DEF EsdType, SeenLoc, AtLabel
<1>5. loc_g[i][label.len] \in DOMAIN G
  BY <1>1, <1>4 DEF EsdType
<1> QED
  BY <1>1, <1>3, <1>4, <1>5 DEF EsdItem, OwnerKnown, used

\* A composite symbol made a section.
AsSection(g, it, obj) ==
    [g EXCEPT !.is_sect = TRUE, !.type = it.type, !.len = it.len, !.def_obj = obj, !.in_addr = it.addr]

LEMMA Sectioned ==
    ASSUME NEW g \in GSym, NEW it \in EsdItem, NEW obj \in Nat
    PROVE  LET s == AsSection(g, it, obj)
           IN /\ s \in GSym /\ s.is_sect /\ s.type = it.type /\ s.len = it.len
              /\ s.def_obj = obj /\ s.in_addr = it.addr /\ s.name = g.name /\ s.owner = g.owner
<1> DEFINE a == [g EXCEPT !.is_sect = TRUE]
           b == [a EXCEPT !.type = it.type]
           c == [b EXCEPT !.len = it.len]
           d == [c EXCEPT !.def_obj = obj]
           e == [d EXCEPT !.in_addr = it.addr]
<1>0. e = AsSection(g, it, obj)
  BY DEF AsSection
<1>1. a \in GSym /\ a.is_sect = TRUE /\ a.name = g.name /\ a.owner = g.owner
  BY DEF GSym, EsdItem
<1> HIDE DEF a
<1>2. /\ b \in GSym /\ b.is_sect = TRUE /\ b.name = g.name /\ b.owner = g.owner /\ b.type = it.type
  BY <1>1 DEF GSym, EsdItem
<1> HIDE DEF b
<1>3. /\ c \in GSym /\ c.is_sect = TRUE /\ c.name = g.name /\ c.owner = g.owner /\ c.type = it.type
      /\ c.len = it.len
  BY <1>2 DEF GSym, EsdItem
<1> HIDE DEF c
<1>4. /\ d \in GSym /\ d.is_sect = TRUE /\ d.name = g.name /\ d.owner = g.owner /\ d.type = it.type
      /\ d.len = it.len /\ d.def_obj = obj
  BY <1>3 DEF GSym, EsdItem
<1> HIDE DEF d
<1>5. /\ e \in GSym /\ e.is_sect = TRUE /\ e.name = g.name /\ e.owner = g.owner /\ e.type = it.type
      /\ e.len = it.len /\ e.def_obj = obj /\ e.in_addr = it.addr
  BY <1>4 DEF GSym, EsdItem
<1> HIDE DEF e
<1> QED
  BY <1>0, <1>5, Zenon

(***************************************************************************)
(* What each action does to the table, in terms of the entries.            *)
(***************************************************************************)
LEMMA PrivateEffect ==
    ASSUME EsdType, PrivateCode
    PROVE  LET k == Len(G) + 1
           IN /\ Touches(k, item.name) /\ Bind(k) /\ k \notin DOMAIN G /\ OwnerKept(k)
              /\ G'[k].is_sect /\ G'[k].type = T_PC
              /\ G'[k].def_obj = i /\ G'[k].in_addr = item.addr
<1> DEFINE k == Len(G) + 1
           tab == g_new(G, item.name, T_PC)
           r == [name |-> item.name, type |-> T_PC, is_sect |-> FALSE, len |-> 0,
                 def_obj |-> NoSym, in_addr |-> 0, owner |-> NoSym]
<1>1. G \in Seq(GSym) /\ i \in Nat
  BY DEF EsdType, Objects
<1>2. item.name \in Names /\ item.type = T_PC /\ item \in EsdItem
  BY ItemTyped DEF PrivateCode
<1>3. r \in GSym
  BY <1>2 DEF GSym, NoSym, DeckTypes
<1>4. /\ tab \in Seq(GSym) /\ Len(tab) = Len(G) + 1 /\ k \in DOMAIN tab /\ tab[k] = r
      /\ \A m \in DOMAIN G : tab[m] = G[m]
      /\ DOMAIN tab = DOMAIN G \cup {k} /\ k \notin DOMAIN G
  BY <1>1, <1>3 DEF g_new
<1> DEFINE s == AsSection(r, item, i)
<1>5. /\ s \in GSym /\ s.name = item.name /\ s.is_sect /\ s.type = T_PC /\ s.owner = NoSym
      /\ s.def_obj = i /\ s.in_addr = item.addr
  <2>1. r.name = item.name /\ r.owner = NoSym
    OBVIOUS
  <2> HIDE DEF r
  <2>2. /\ s \in GSym /\ s.name = r.name /\ s.is_sect /\ s.type = item.type
        /\ s.owner = r.owner /\ s.def_obj = i /\ s.in_addr = item.addr
    BY <1>1, <1>2, <1>3, <2>1, Sectioned
  <2> QED BY <1>2, <2>1, <2>2, Zenon
<1>6. G' = [tab EXCEPT ![k] = s]
  <2>1. G' = DefineSection(tab, k, item, i)
    BY DEF PrivateCode
  <2>2. G' = [tab EXCEPT ![k] = AsSection(tab[k], item, i)]
    <3> HIDE DEF tab, k
    <3> QED BY <2>1, Zenon DEF DefineSection, AsSection
  <2> HIDE DEF tab, k, r
  <2> QED BY <2>2, <1>4
<1>7. Bind(k)
  BY DEF PrivateCode
<1> HIDE DEF tab, s, k
<1>8. Extended(G, tab, k, item.name)
  BY <1>1, <1>3, <1>4 DEF Extended
<1>9. Touches(k, item.name) /\ G'[k] = s
  <2>1. Replaces(tab, G', k, s)
    BY <1>6 DEF Replaces
  <2> QED BY <1>5, <1>8, <2>1, Replaced DEF Touches
<1> QED
  BY <1>4, <1>5, <1>7, <1>9 DEF OwnerKept, k

\* The item's entry is in the table before the step.
Had(k) == k \in DOMAIN G

\* What g_intern leaves at the item's entry.
LEMMA ItemInterned ==
    ASSUME EsdType, AtLocal
    PROVE  /\ Extended(G, Tab, At, item.name) /\ OnlyOne(G, At, item.name)
           /\ InternKeeps(G, Tab, At, item.type) /\ InternMakes(G, Tab, At, item.type)
           /\ Tab[At] \in GSym /\ Tab[At].name = item.name
           /\ Had(At) => At = g_find(G, item.name) /\ G[At].name = item.name
<1>1. G \in Seq(GSym) /\ item.name \in Names /\ item.type \in DeckTypes
  BY ItemTyped DEF EsdType
<1>2. Tab = g_intern(G, item.name, item.type) /\ At = g_find(Tab, item.name)
  BY DEF Tab, At
<1>3. /\ Extended(G, Tab, At, item.name) /\ OnlyOne(G, At, item.name)
      /\ InternKeeps(G, Tab, At, item.type) /\ InternMakes(G, Tab, At, item.type)
      /\ At \in DOMAIN G => At = g_find(G, item.name)
  BY <1>1, <1>2, Intern
<1> QED
  BY <1>3 DEF Had, Extended

\* A later section of the name changes nothing.
LEMMA DuplicateEffect ==
    ASSUME EsdType, DuplicateSection
    PROVE  /\ Had(At) /\ G' = G /\ Bind(At) /\ G[At].name = item.name /\ CsectOf(G[At])
<1>1. AtLocal /\ CsectOf(Tab[At]) /\ G' = Tab /\ Bind(At)
  BY DEF DuplicateSection
<1>2. Had(At) /\ G[At].name = item.name /\ CsectOf(G[At])
  BY <1>1, ItemInterned DEF CsectOf, T_SD, T_ER, InternKeeps, InternMakes, Had
<1>3. Tab = G
  <2> DEFINE f == g_find(G, item.name)
  <2>1. CASE f = NoSym
    <3>1. \A m \in DOMAIN G : G[m].name # item.name
      BY <2>1, Find DEF EsdType, NoSym
    <3> QED BY <1>2, <3>1 DEF Had
  <2>2. CASE f # NoSym
    <3>1. Tab = IF G[f].type = T_WX /\ item.type # T_WX THEN [G EXCEPT ![f].type = T_ER] ELSE G
      BY <2>2 DEF Tab, g_intern
    <3>2. CASE G[f].type = T_WX /\ item.type # T_WX
      <4>1. f \in DOMAIN G /\ G[f].name = item.name
        BY <2>2, Find DEF EsdType
      <4>2. At = f
        BY <1>1, <1>2, ItemInterned
      <4> QED BY <1>2, <3>2, <4>2 DEF CsectOf, T_SD, T_WX
    <3> QED BY <3>1, <3>2
  <2> QED BY <2>1, <2>2
<1> QED
  BY <1>1, <1>2, <1>3

\* The first section of the name takes the entry over.
LEMMA FirstEffect ==
    ASSUME EsdType, FirstSection
    PROVE  /\ Touches(At, item.name) /\ OnlyOne(G, At, item.name) /\ Bind(At) /\ OwnerKept(At)
           /\ ~(Had(At) /\ CsectOf(G[At]))
           /\ G'[At].is_sect /\ G'[At].type = T_SD /\ G'[At].len = item.len
           /\ G'[At].def_obj = i /\ G'[At].in_addr = item.addr
           /\ ncomerr' = IF Had(At) /\ CommonOf(G[At]) /\ G[At].len > item.len
                         THEN ncomerr + 1 ELSE ncomerr
<1>1. /\ AtLocal /\ ~CsectOf(Tab[At]) /\ item.type = T_SD
      /\ G' = DefineSection(Tab, At, item, i) /\ Bind(At)
      /\ ncomerr' = IF CommonOf(Tab[At]) /\ Tab[At].len > item.len THEN ncomerr + 1 ELSE ncomerr
  BY DEF FirstSection
<1> DEFINE s == AsSection(Tab[At], item, i)
<1>2. G' = [Tab EXCEPT ![At] = s]
  BY <1>1, Zenon DEF DefineSection, AsSection
<1>3. i \in Nat /\ item \in EsdItem /\ Tab[At] \in GSym
  BY <1>1, ItemTyped, ItemInterned DEF EsdType, Objects
<1>4. /\ s \in GSym /\ s.is_sect /\ s.type = item.type /\ s.len = item.len
      /\ s.def_obj = i /\ s.in_addr = item.addr /\ s.name = Tab[At].name /\ s.owner = Tab[At].owner
  BY <1>3, Sectioned
<1> HIDE DEF s
<1>5. Touches(At, item.name) /\ G'[At] = s
  <2>1. Replaces(Tab, G', At, s)
    BY <1>2 DEF Replaces
  <2> QED BY <1>1, <1>4, <2>1, ItemInterned, Replaced DEF Touches
<1>6. OnlyOne(G, At, item.name)
  BY <1>1, ItemInterned
<1>7. OwnerKept(At)
  BY <1>1, <1>4, <1>5, ItemInterned DEF OwnerKept, Had, InternKeeps, InternMakes
<1>8. ~(Had(At) /\ CsectOf(G[At]))
  BY <1>1, ItemInterned DEF CsectOf, T_WX, T_SD, Had, InternKeeps
<1>9. Had(At) => (CommonOf(Tab[At]) <=> CommonOf(G[At])) /\ Tab[At].len = G[At].len
  BY <1>1, ItemInterned DEF CommonOf, T_WX, T_CM, T_ER, Had, InternKeeps
<1>10. ~Had(At) => ~CommonOf(Tab[At])
  BY <1>1, ItemInterned DEF CommonOf, Had, InternMakes
<1> QED
  BY <1>1, <1>4, <1>5, <1>6, <1>7, <1>8, <1>9, <1>10

\* A reference makes an entry or hardens a weak one.
LEMMA ReferenceEffect ==
    ASSUME EsdType, Reference
    PROVE  /\ Touches(At, item.name) /\ OnlyOne(G, At, item.name) /\ Bind(At) /\ OwnerKept(At)
           /\ Had(At) =>
                 /\ G'[At].is_sect = G[At].is_sect /\ G'[At].len = G[At].len
                 /\ G'[At].def_obj = G[At].def_obj /\ G'[At].in_addr = G[At].in_addr
                 /\ G'[At].type = IF G[At].type = T_WX /\ item.type = T_ER THEN T_ER ELSE G[At].type
           /\ ~Had(At) => ~G'[At].is_sect /\ G'[At].type = item.type
<1>1. AtLocal /\ item.type \in {T_ER, T_WX} /\ G' = Tab /\ Bind(At)
  BY DEF Reference
<1>2. Touches(At, item.name) /\ OnlyOne(G, At, item.name)
  BY <1>1, ItemInterned DEF Touches
<1>3. OwnerKept(At)
  BY <1>1, ItemInterned DEF OwnerKept, InternKeeps, InternMakes
<1> QED
  BY <1>1, <1>2, <1>3, ItemInterned DEF T_ER, T_WX, Had, InternKeeps, InternMakes

\* A common area joins the section or the area of the name, which grows if need
\* be.
LEMMA CommonEffect ==
    ASSUME EsdType, Common
    PROVE  /\ Touches(At, item.name) /\ OnlyOne(G, At, item.name) /\ Bind(At) /\ OwnerKept(At)
           /\ Had(At) /\ CsectOf(G[At]) =>
                 /\ G'[At].is_sect = G[At].is_sect /\ G'[At].type = G[At].type /\ G'[At].len = G[At].len
                 /\ G'[At].def_obj = G[At].def_obj /\ G'[At].in_addr = G[At].in_addr
                 /\ ncomerr' = IF item.len > G[At].len THEN ncomerr + 1 ELSE ncomerr
           /\ ~(Had(At) /\ CsectOf(G[At])) =>
                 /\ G'[At].is_sect /\ G'[At].type = T_CM
                 /\ G'[At].len = IF Had(At) /\ CommonOf(G[At]) /\ G[At].len >= item.len
                                 THEN G[At].len ELSE item.len
                 /\ G'[At].def_obj = IF Had(At) /\ CommonOf(G[At]) THEN G[At].def_obj ELSE NoSym
                 /\ ncomerr' = ncomerr
<1> DEFINE g == Tab[At]
<1>1. /\ AtLocal /\ item.type = T_CM /\ Bind(At)
      /\ G' = MergeCommon(Tab, At, item.len)
      /\ ncomerr' = IF CsectOf(g) /\ item.len > g.len THEN ncomerr + 1 ELSE ncomerr
  BY DEF Common
<1>2. /\ Extended(G, Tab, At, item.name) /\ OnlyOne(G, At, item.name)
      /\ g \in GSym /\ g.name = item.name
  BY <1>1, ItemInterned
<1>3. CsectOf(g) <=> Had(At) /\ CsectOf(G[At])
  BY <1>1, ItemInterned DEF CsectOf, T_WX, T_SD, T_ER, T_CM, Had, InternKeeps, InternMakes
<1>4. CommonOf(g) <=> Had(At) /\ CommonOf(G[At])
  BY <1>1, ItemInterned DEF CommonOf, T_WX, T_ER, T_CM, Had, InternKeeps, InternMakes
<1>5. /\ Had(At) => /\ g.is_sect = G[At].is_sect /\ g.len = G[At].len
                    /\ g.def_obj = G[At].def_obj /\ g.in_addr = G[At].in_addr
      /\ g.owner = IF At \in DOMAIN G THEN G[At].owner ELSE NoSym
  BY <1>1, ItemInterned DEF Had, InternKeeps, InternMakes
<1>6. item.len \in Nat /\ g.len \in Nat
  BY <1>1, <1>2, ItemTyped DEF GSym
<1>7. CASE CsectOf(g)
  <2>1. G' = Tab
    BY <1>1, <1>7 DEF MergeCommon
  <2>2. g.type = G[At].type
    BY <1>3, <1>7 DEF CsectOf
  <2> HIDE DEF g
  <2>3. G'[At] = g
    BY <2>1 DEF g
  <2> QED
    BY <1>1, <1>2, <1>3, <1>5, <1>7, <2>1, <2>2, <2>3 DEF Touches, OwnerKept
<1>8. CASE ~CsectOf(g)
  <2> DEFINE len == IF Had(At) /\ CommonOf(G[At]) /\ G[At].len >= item.len THEN G[At].len ELSE item.len
             def == IF Had(At) /\ CommonOf(G[At]) THEN G[At].def_obj ELSE NoSym
  <2>1. \E r \in GSym : /\ Replaces(Tab, G', At, r) /\ r.name = item.name /\ r.is_sect
                        /\ r.type = T_CM /\ r.owner = g.owner /\ r.len = len /\ r.def_obj = def
    <3>1. CASE CommonOf(g)
      <4> DEFINE r == [g EXCEPT !.len = IF item.len > g.len THEN item.len ELSE g.len]
      <4>1. G' = [Tab EXCEPT ![At] = r]
        <5> HIDE DEF r
        <5>1. [g EXCEPT !.len = IF item.len > (IF CommonOf(g) THEN g.len ELSE 0) THEN item.len
                                ELSE (IF CommonOf(g) THEN g.len ELSE 0)] = r
          BY <3>1 DEF r
        <5> QED BY <1>1, <1>8, <3>1, <5>1 DEF MergeCommon
      <4>2. /\ r \in GSym /\ r.name = g.name /\ r.is_sect = g.is_sect
            /\ r.type = g.type /\ r.owner = g.owner /\ r.len = IF item.len > g.len THEN item.len ELSE g.len
            /\ r.def_obj = g.def_obj
        BY <1>2, <1>6 DEF GSym
      <4> HIDE DEF r
      <4>3. len = IF item.len > g.len THEN item.len ELSE g.len
        BY <1>4, <1>5, <1>6, <3>1
      <4>4. def = g.def_obj
        BY <1>4, <1>5, <3>1
      <4> HIDE DEF def
      <4> QED
        BY <1>2, <3>1, <4>1, <4>2, <4>3, <4>4 DEF Replaces, CommonOf
    <3>2. CASE ~CommonOf(g)
      <4> DEFINE a == [g EXCEPT !.is_sect = TRUE]
                 b == [a EXCEPT !.type = T_CM]
                 c == [b EXCEPT !.def_obj = NoSym]
                 d == [c EXCEPT !.in_addr = 0]
                 r == [d EXCEPT !.len = IF item.len > 0 THEN item.len ELSE 0]
      <4>1. G' = [Tab EXCEPT ![At] = r]
        <5>1. G' = [Tab EXCEPT ![At] = [d EXCEPT !.len = IF item.len > 0 THEN item.len ELSE 0]]
          BY <1>1, <1>8, <3>2, Zenon DEF MergeCommon
        <5> QED BY <5>1
      <4>2. a \in GSym /\ a.is_sect = TRUE /\ a.name = g.name /\ a.owner = g.owner
        BY <1>2 DEF GSym
      <4> HIDE DEF a
      <4>3. b \in GSym /\ b.is_sect = TRUE /\ b.name = g.name /\ b.owner = g.owner /\ b.type = T_CM
        BY <4>2 DEF GSym, DeckTypes
      <4> HIDE DEF b
      <4>4. /\ c \in GSym /\ c.is_sect = TRUE /\ c.name = g.name /\ c.owner = g.owner /\ c.type = T_CM
            /\ c.def_obj = NoSym
        BY <4>3 DEF GSym, NoSym
      <4> HIDE DEF c
      <4>5. /\ d \in GSym /\ d.is_sect = TRUE /\ d.name = g.name /\ d.owner = g.owner /\ d.type = T_CM
            /\ d.def_obj = NoSym
        BY <4>4 DEF GSym
      <4> HIDE DEF d
      <4>6. /\ r \in GSym /\ r.is_sect = TRUE /\ r.name = g.name /\ r.owner = g.owner /\ r.type = T_CM
            /\ r.len = (IF item.len > 0 THEN item.len ELSE 0) /\ r.def_obj = NoSym
        BY <1>6, <4>5 DEF GSym
      <4>7. r.len = len
        <5> HIDE DEF r
        <5> QED BY <1>4, <1>6, <3>2, <4>6
      <4> HIDE DEF r
      <4>8. def = NoSym
        BY <1>4, <3>2
      <4> HIDE DEF def, len
      <4> QED
        BY <1>2, <4>1, <4>6, <4>7, <4>8 DEF Replaces
    <3> QED BY <3>1, <3>2
  <2>2. PICK r \in GSym : /\ Replaces(Tab, G', At, r) /\ r.name = item.name /\ r.is_sect
                          /\ r.type = T_CM /\ r.owner = g.owner /\ r.len = len /\ r.def_obj = def
    BY <2>1
  <2> HIDE DEF len, def, g
  <2>3. Touches(At, item.name) /\ G'[At] = r
    BY <1>2, <2>2, Replaced DEF Touches
  <2>4. OwnerKept(At)
    BY <1>5, <2>2, <2>3 DEF OwnerKept
  <2> QED
    BY <1>1, <1>2, <1>3, <1>8, <2>2, <2>3, <2>4 DEF len, def
<1> QED
  BY <1>7, <1>8

\* What g_intern leaves at the label's entry.
LEMMA LabelInterned ==
    ASSUME EsdType, AtLabel
    PROVE  /\ Extended(G, LTab, LAt, label.name) /\ OnlyOne(G, LAt, label.name)
           /\ InternKeeps(G, LTab, LAt, T_LD) /\ InternMakes(G, LTab, LAt, T_LD)
           /\ LTab[LAt] \in GSym /\ LTab[LAt].name = label.name
           /\ Had(LAt) => LAt = g_find(G, label.name) /\ G[LAt].name = label.name
<1>1. G \in Seq(GSym) /\ label.name \in Names /\ T_LD \in DeckTypes
  BY LabelTyped DEF EsdType, DeckTypes
<1>2. LTab = g_intern(G, label.name, T_LD) /\ LAt = g_find(LTab, label.name)
  BY DEF LTab, LAt
<1>3. /\ Extended(G, LTab, LAt, label.name) /\ OnlyOne(G, LAt, label.name)
      /\ InternKeeps(G, LTab, LAt, T_LD) /\ InternMakes(G, LTab, LAt, T_LD)
      /\ LAt \in DOMAIN G => LAt = g_find(G, label.name)
  BY <1>1, <1>2, Intern
<1> QED
  BY <1>3 DEF Had, Extended

\* A second label of the name changes nothing.
LEMMA LabelAgainEffect ==
    ASSUME EsdType, LabelAgain
    PROVE  /\ Had(LAt) /\ G' = G /\ G[LAt].name = label.name
           /\ G[LAt].type = T_LR /\ G[LAt].owner # NoSym
<1>1. AtLabel /\ LTab[LAt].type = T_LR /\ LTab[LAt].owner # NoSym /\ G' = LTab
  BY DEF LabelAgain, AlreadyLabel
<1>2. /\ Had(LAt) /\ G[LAt].name = label.name /\ G[LAt].type = T_LR /\ G[LAt].owner # NoSym
      /\ LAt = g_find(G, label.name)
  BY <1>1, LabelInterned DEF Had, InternKeeps, InternMakes, T_LR, T_ER, T_LD
<1>3. LTab = G
  <2>1. LAt # NoSym
    BY <1>2 DEF Had, EsdType, NoSym
  <2> QED BY <1>2, <2>1 DEF LTab, g_intern, T_LR, T_WX
<1> QED
  BY <1>1, <1>2, <1>3

\* The first label of the name takes the entry over, and its owner is an entry.
LEMMA FirstLabelEffect ==
    ASSUME EsdType, FirstLabel
    PROVE  /\ Touches(LAt, label.name) /\ OnlyOne(G, LAt, label.name)
           /\ ~(Had(LAt) /\ G[LAt].type = T_LR /\ G[LAt].owner # NoSym)
           /\ G'[LAt].type = T_LR /\ G'[LAt].owner = loc_g[i][label.len]
           /\ G'[LAt].in_addr = label.addr - O[i].loc[label.len].addr
           /\ Had(LAt) => G'[LAt].is_sect = G[LAt].is_sect
           /\ ~Had(LAt) => ~G'[LAt].is_sect
<1> DEFINE g == LTab[LAt]
           own == loc_g[i][label.len]
           off == label.addr - O[i].loc[label.len].addr
<1>1. AtLabel /\ ~AlreadyLabel
  BY DEF FirstLabel
<1>2. /\ label.addr \in Nat /\ OwnerKnown /\ O[i].loc[label.len].addr \in Nat
      /\ own \in DOMAIN G
  BY <1>1, LabelTyped
<1>3. own \in Nat /\ off \in Int
  BY <1>2 DEF EsdType
<1>4. /\ Extended(G, LTab, LAt, label.name) /\ OnlyOne(G, LAt, label.name)
      /\ InternKeeps(G, LTab, LAt, T_LD) /\ InternMakes(G, LTab, LAt, T_LD)
      /\ g \in GSym /\ g.name = label.name
  BY <1>1, LabelInterned
<1> DEFINE a == [g EXCEPT !.type = T_LR]
           b == [a EXCEPT !.owner = own]
           r == [b EXCEPT !.in_addr = off]
<1>5. G' = [LTab EXCEPT ![LAt] = r]
  BY <1>2, Zenon DEF FirstLabel
<1> HIDE DEF g
<1>6. a \in GSym /\ a.type = T_LR /\ a.name = g.name /\ a.is_sect = g.is_sect
  BY <1>4 DEF GSym
<1> HIDE DEF a, own, off
<1>7. b \in GSym /\ b.type = T_LR /\ b.name = g.name /\ b.is_sect = g.is_sect /\ b.owner = own
  BY <1>3, <1>6 DEF GSym
<1> HIDE DEF b
<1>8. r \in GSym /\ r.type = T_LR /\ r.name = g.name /\ r.is_sect = g.is_sect /\ r.owner = own /\ r.in_addr = off
  BY <1>3, <1>7 DEF GSym
<1> HIDE DEF r
<1>9. Touches(LAt, label.name) /\ G'[LAt] = r
  <2>1. Replaces(LTab, G', LAt, r)
    BY <1>5 DEF Replaces
  <2> QED BY <1>4, <1>8, <2>1, Replaced DEF Touches
<1>10. ~(Had(LAt) /\ G[LAt].type = T_LR /\ G[LAt].owner # NoSym)
  BY <1>1, <1>4 DEF AlreadyLabel, InternKeeps, Had, T_LR, T_WX
<1>11. (Had(LAt) => g.is_sect = G[LAt].is_sect) /\ (~Had(LAt) => ~g.is_sect)
  BY <1>4 DEF InternKeeps, InternMakes, Had, g
<1> QED
  BY <1>4, <1>8, <1>9, <1>10, <1>11 DEF own, off

(***************************************************************************)
(* Bindings.                                                               *)
(***************************************************************************)

\* Binding the item adds one binding and keeps the others.
LEMMA Binding ==
    ASSUME EsdType, AtLocal, NEW k, Bind(k)
    PROVE  /\ DOMAIN loc_g' = DOMAIN loc_g
           /\ \A a \in DOMAIN O : \A id : id \in DOMAIN loc_g'[a] <=>
                  id \in DOMAIN loc_g[a] \/ (a = i /\ id = j)
           /\ \A a \in DOMAIN O : \A id \in DOMAIN loc_g[a] :
                  ~(a = i /\ id = j) => loc_g'[a][id] = loc_g[a][id]
           /\ loc_g'[i][j] = k /\ j \notin DOMAIN loc_g[i]
<1>1. i \in DOMAIN O /\ j \in DOMAIN O[i].loc /\ j \in Nat /\ pc = "loc"
  BY ItemTyped DEF AtLocal
<1>2. DOMAIN loc_g = DOMAIN O
  BY DEF EsdType
<1>3. j \notin DOMAIN loc_g[i]
  BY <1>1 DEF EsdType, SeenLoc, Objects
<1> DEFINE row == [id \in DOMAIN loc_g[i] \cup {j} |-> IF id = j THEN k ELSE loc_g[i][id]]
<1>4. loc_g' = [loc_g EXCEPT ![i] = row]
  BY DEF Bind
<1>5. /\ DOMAIN row = DOMAIN loc_g[i] \cup {j} /\ row[j] = k
      /\ \A id \in DOMAIN loc_g[i] : id # j => row[id] = loc_g[i][id]
  OBVIOUS
<1> HIDE DEF row
<1>6. /\ DOMAIN loc_g' = DOMAIN loc_g /\ loc_g'[i] = row
      /\ \A a \in DOMAIN O : a # i => loc_g'[a] = loc_g[a]
  BY <1>1, <1>2, <1>4
<1> QED
  BY <1>1, <1>2, <1>3, <1>5, <1>6

(***************************************************************************)
(* Types are kept.                                                         *)
(***************************************************************************)

\* A turn of the item loop that binds the item to entry k.
Turn(k) ==
    /\ AtLocal /\ Touches(k, item.name) /\ Bind(k) /\ OwnerKept(k)
    /\ O' = O /\ i' = i /\ j' = j + 1 /\ pc' = pc
    /\ ncomerr' \in Nat /\ nwarn' \in Nat
    /\ \A d \in dropped' : d \in dropped \/ (d = <<i, j>> /\ item.type = T_SD)

\* Extending a table by nothing.
LEMMA SameExtended ==
    ASSUME EsdType, NEW k \in DOMAIN G
    PROVE  Extended(G, G, k, G[k].name)
<1>1. G \in Seq(GSym)
  BY DEF EsdType
<1>2. G[k] \in GSym /\ Len(G) \in Nat
  BY <1>1
<1>3. DOMAIN G = DOMAIN G \cup {k}
  BY Zenon
<1> QED
  BY <1>1, <1>2, <1>3 DEF Extended

LEMMA ItemTurns ==
    ASSUME EsdType
    PROVE  /\ PrivateCode => Turn(Len(G) + 1)
           /\ DuplicateSection \/ FirstSection \/ Common \/ Reference => Turn(At)
<1>0. ncomerr \in Nat /\ nwarn \in Nat
  BY DEF EsdType
<1>1. ASSUME PrivateCode PROVE Turn(Len(G) + 1)
  BY <1>0, <1>1, PrivateEffect DEF PrivateCode, AtLocal, Turn
<1>2. ASSUME DuplicateSection PROVE Turn(At)
  <2>1. Touches(At, item.name) /\ OwnerKept(At) /\ Bind(At)
    BY <1>2, DuplicateEffect, SameExtended DEF Touches, OwnerKept, Had
  <2> QED
    BY <1>0, <1>2, <2>1 DEF DuplicateSection, AtLocal, Turn
<1>3. ASSUME FirstSection PROVE Turn(At)
  <2>1. Touches(At, item.name) /\ OwnerKept(At) /\ Bind(At) /\ ncomerr' \in Nat
    BY <1>0, <1>3, FirstEffect
  <2> QED
    BY <1>0, <1>3, <2>1 DEF FirstSection, AtLocal, Turn
<1>4. ASSUME Common PROVE Turn(At)
  <2>1. Touches(At, item.name) /\ OwnerKept(At) /\ Bind(At) /\ ncomerr' \in Nat
    BY <1>0, <1>4, CommonEffect
  <2> QED
    BY <1>0, <1>4, <2>1 DEF Common, AtLocal, Turn
<1>5. ASSUME Reference PROVE Turn(At)
  <2>1. Touches(At, item.name) /\ OwnerKept(At) /\ Bind(At)
    BY <1>5, ReferenceEffect
  <2> QED
    BY <1>0, <1>5, <2>1 DEF Reference, AtLocal, Turn
<1> QED
  BY <1>1, <1>2, <1>3, <1>4, <1>5

LEMMA TurnType ==
    ASSUME EsdType, NEW k, Turn(k)
    PROVE  EsdType'
<1>1. /\ AtLocal /\ Touches(k, item.name) /\ Bind(k) /\ OwnerKept(k)
      /\ O' = O /\ i' = i /\ j' = j + 1 /\ pc' = pc
      /\ ncomerr' \in Nat /\ nwarn' \in Nat
  BY DEF Turn
<1>2. i \in DOMAIN O /\ j \in DOMAIN O[i].loc /\ j \in Nat /\ pc = "loc" /\ i \in Nat
  BY <1>1, ItemTyped DEF AtLocal, EsdType, Objects
<1>3. /\ G' \in Seq(GSym) /\ DOMAIN G' = DOMAIN G \cup {k} /\ k \in DOMAIN G'
      /\ Len(G') \in Nat /\ Len(G') >= Len(G) /\ Len(G) \in Nat
      /\ \A m \in DOMAIN G : m # k => G'[m] = G[m]
  BY <1>1 DEF Touches, Extended, EsdType
<1>4. \A m \in DOMAIN G' : G'[m].owner \in 0..Len(G')
  <2>1. \A m \in DOMAIN G : G[m].owner \in 0..Len(G)
    BY DEF EsdType
  <2>2. G'[k].owner \in 0..Len(G')
    BY <1>1, <1>3, <2>1 DEF OwnerKept, NoSym
  <2> QED
    BY <1>3, <2>1, <2>2
<1>5. /\ DOMAIN loc_g' = DOMAIN loc_g
      /\ \A a \in DOMAIN O : \A id : id \in DOMAIN loc_g'[a] <=>
             id \in DOMAIN loc_g[a] \/ (a = i /\ id = j)
      /\ \A a \in DOMAIN O : \A id \in DOMAIN loc_g[a] :
             ~(a = i /\ id = j) => loc_g'[a][id] = loc_g[a][id]
      /\ loc_g'[i][j] = k
  BY <1>1, Binding
<1>6. \A a \in DOMAIN O : \A id \in DOMAIN O[a].loc : id \in DOMAIN loc_g'[a] <=> SeenLoc(a, id)'
  <2> SUFFICES ASSUME NEW a \in DOMAIN O, NEW id \in DOMAIN O[a].loc
               PROVE  id \in DOMAIN loc_g'[a] <=> SeenLoc(a, id)'
    OBVIOUS
  <2>1. a \in Nat /\ id \in Nat
    BY DEF EsdType, Objects, IsObject
  <2>2. SeenLoc(a, id)' <=> SeenLoc(a, id) \/ (a = i /\ id = j)
    BY <1>1, <1>2, <2>1 DEF SeenLoc
  <2>3. id \in DOMAIN loc_g[a] <=> SeenLoc(a, id)
    BY DEF EsdType
  <2> QED
    BY <1>5, <2>2, <2>3
<1>7. \A a \in DOMAIN O : \A id \in DOMAIN loc_g'[a] :
          id \in DOMAIN O[a].loc /\ loc_g'[a][id] \in DOMAIN G'
  <2>1. \A a \in DOMAIN O : \A id \in DOMAIN loc_g[a] : id \in DOMAIN O[a].loc /\ loc_g[a][id] \in DOMAIN G
    BY DEF EsdType
  <2> QED
    BY <1>2, <1>3, <1>5, <2>1
<1>8. \A d \in dropped' : /\ d = <<d[1], d[2]>> /\ d[1] \in DOMAIN O
                          /\ d[2] \in DOMAIN O[d[1]].loc
                          /\ O[d[1]].loc[d[2]].type = T_SD
  <2> SUFFICES ASSUME NEW d \in dropped'
               PROVE  /\ d = <<d[1], d[2]>> /\ d[1] \in DOMAIN O
                      /\ d[2] \in DOMAIN O[d[1]].loc
                      /\ O[d[1]].loc[d[2]].type = T_SD
    OBVIOUS
  <2>1. d \in dropped \/ (d = <<i, j>> /\ item.type = T_SD)
    BY DEF Turn
  <2>2. CASE d \in dropped
    BY <2>2 DEF EsdType
  <2>3. CASE d = <<i, j>> /\ item.type = T_SD
    BY <1>2, <2>3 DEF item
  <2> QED BY <2>1, <2>2, <2>3
<1>9. (pc' = "ld" => i' <= Len(O')) /\ (Done' => i' = Len(O') + 1)
  BY <1>1, <1>2 DEF Done
<1>10. i' \in 1..(Len(O') + 1) /\ j' \in Nat \ {0} /\ pc' \in {"loc", "ld", "failed", "resolved"}
  BY <1>1, <1>2 DEF EsdType
<1>11. Objects' /\ DOMAIN loc_g' = DOMAIN O'
  BY <1>1, <1>5 DEF EsdType, Objects
<1> QED
  BY <1>1, <1>3, <1>4, <1>6, <1>7, <1>8, <1>9, <1>10, <1>11 DEF EsdType

\* A turn of the label loop that defines the label, at entry LAt.
LEMMA LabelType ==
    ASSUME EsdType, FirstLabel
    PROVE  EsdType'
<1>1. /\ AtLabel /\ j' = j + 1
      /\ UNCHANGED <<O, loc_g, dropped, i, pc, ncomerr, nwarn>>
  BY DEF FirstLabel
<1>2. /\ Touches(LAt, label.name) /\ G'[LAt].owner = loc_g[i][label.len]
      /\ loc_g[i][label.len] \in DOMAIN G
  BY <1>1, FirstLabelEffect, LabelTyped
<1>3. /\ G' \in Seq(GSym) /\ DOMAIN G' = DOMAIN G \cup {LAt} /\ LAt \in DOMAIN G'
      /\ Len(G') \in Nat /\ Len(G') >= Len(G) /\ Len(G) \in Nat
      /\ \A m \in DOMAIN G : m # LAt => G'[m] = G[m]
      /\ DOMAIN G = 1..Len(G)
  BY <1>2 DEF Touches, Extended, EsdType
<1>4. \A m \in DOMAIN G' : G'[m].owner \in 0..Len(G')
  <2>1. \A m \in DOMAIN G : G[m].owner \in 0..Len(G)
    BY DEF EsdType
  <2> QED
    BY <1>2, <1>3, <2>1
<1>5. \A a \in DOMAIN O : \A id \in DOMAIN O[a].loc : id \in DOMAIN loc_g[a] <=> SeenLoc(a, id)'
  <2>1. pc = "ld"
    BY <1>1 DEF AtLabel
  <2>2. \A a, id : SeenLoc(a, id)' <=> SeenLoc(a, id)
    BY <1>1, <2>1 DEF SeenLoc
  <2> QED BY <2>2 DEF EsdType
<1>6. j' \in Nat \ {0}
  BY <1>1 DEF EsdType
<1> QED
  BY <1>1, <1>3, <1>4, <1>5, <1>6 DEF EsdType, Objects, Done

\* A step that leaves the table and the bindings alone.
LEMMA MoveType ==
    ASSUME EsdType, UNCHANGED <<O, G, loc_g, dropped, ncomerr>>,
           Unused \/ LocalsDone \/ LabelDropped \/ LabelAgain \/ ObjectDone \/ Check
    PROVE  EsdType'
<1>0. /\ Len(O) \in Nat /\ DOMAIN O = 1..Len(O) /\ i \in 1..(Len(O) + 1) /\ j \in Nat \ {0}
      /\ nwarn \in Nat
      /\ \A a \in DOMAIN O : \A id \in DOMAIN O[a].loc : id \in Nat /\ id < MAXESD
      /\ \A a \in DOMAIN O : \A id \in DOMAIN O[a].loc : id \in DOMAIN loc_g[a] <=> SeenLoc(a, id)
  BY MaxEsdAssumption DEF EsdType, Objects, IsObject
<1>1. SUFFICES /\ \A a \in DOMAIN O : \A id \in DOMAIN O[a].loc : SeenLoc(a, id)' <=> SeenLoc(a, id)
               /\ i' \in 1..(Len(O) + 1) /\ j' \in Nat \ {0}
               /\ pc' \in {"loc", "ld", "failed", "resolved"}
               /\ pc' = "ld" => i' <= Len(O)
               /\ Done' => i' = Len(O) + 1
               /\ nwarn' \in Nat
  BY <1>0 DEF EsdType, Objects
<1>2. CASE Unused
  BY <1>0, <1>2 DEF Unused, SeenLoc, used, Done
<1>3. CASE LocalsDone
  <2>1. /\ pc = "loc" /\ i <= Len(O) /\ j >= MAXESD /\ MAXESD \in Nat
        /\ pc' = "ld" /\ j' = 1 /\ i' = i /\ nwarn' = nwarn
    BY <1>3, MaxEsdAssumption DEF LocalsDone
  <2>2. \A a \in DOMAIN O : \A id \in DOMAIN O[a].loc : SeenLoc(a, id)' <=> SeenLoc(a, id)
    <3> SUFFICES ASSUME NEW a \in DOMAIN O, NEW id \in DOMAIN O[a].loc
                 PROVE  SeenLoc(a, id)' <=> SeenLoc(a, id)
      OBVIOUS
    <3>1. a \in Nat /\ id \in Nat /\ id < j
      BY <1>0, <2>1
    <3> QED BY <1>0, <2>1, <3>1 DEF SeenLoc
  <2> QED BY <1>0, <2>1, <2>2 DEF Done
<1>4. CASE LabelDropped
  BY <1>0, <1>4 DEF LabelDropped, AtLabel, SeenLoc, Done, EsdType
<1>5. CASE LabelAgain
  BY <1>0, <1>5 DEF LabelAgain, AtLabel, SeenLoc, Done, EsdType
<1>6. CASE ObjectDone
  <2>1. i <= Len(O)
    BY <1>6 DEF ObjectDone, EsdType
  <2>2. \A a \in DOMAIN O : \A id \in DOMAIN O[a].loc : SeenLoc(a, id)' <=> SeenLoc(a, id)
    <3> SUFFICES ASSUME NEW a \in DOMAIN O, NEW id \in DOMAIN O[a].loc
                 PROVE  SeenLoc(a, id)' <=> SeenLoc(a, id)
      OBVIOUS
    <3>1. a \in Nat /\ id \in Nat /\ ~(id < 1)
      <4>1. id \in 1..(MAXESD - 1)
        BY DEF EsdType, Objects, IsObject
      <4> QED BY <1>0, <4>1, MaxEsdAssumption
    <3> QED BY <1>0, <1>6, <3>1 DEF ObjectDone, SeenLoc
  <2> QED
    BY <1>0, <1>6, <2>1, <2>2 DEF ObjectDone, Done
<1>7. CASE Check
  BY <1>0, <1>7 DEF Check, SeenLoc, Done
<1> QED
  BY <1>2, <1>3, <1>4, <1>5, <1>6, <1>7

\* The steps that leave the table alone.
LEMMA TableKept ==
    ASSUME EsdType
    PROVE  Unused \/ LocalsDone \/ LabelDropped \/ LabelAgain \/ ObjectDone \/ Check =>
               UNCHANGED <<O, G, loc_g, dropped, ncomerr>>
<1>1. LabelAgain => UNCHANGED <<O, G, loc_g, dropped, ncomerr>>
  BY LabelAgainEffect DEF LabelAgain
<1> QED
  BY <1>1 DEF Unused, LocalsDone, LabelDropped, ObjectDone, Check

\* Types are kept, and PASS 2 leaves the objects as they are.
LEMMA StepType ==
    ASSUME EsdType, EsdStep
    PROVE  EsdType' /\ O' = O
<1>1. CASE PrivateCode
  BY <1>1, ItemTurns, TurnType DEF Turn
<1>2. CASE DuplicateSection \/ FirstSection \/ Common \/ Reference
  BY <1>2, ItemTurns, TurnType DEF Turn
<1>3. CASE FirstLabel
  BY <1>3, LabelType DEF FirstLabel
<1>4. CASE Unused \/ LocalsDone \/ LabelDropped \/ LabelAgain \/ ObjectDone \/ Check
  BY <1>4, TableKept, MoveType
<1> QED
  BY <1>1, <1>2, <1>3, <1>4 DEF EsdStep

(***************************************************************************)
(* A composite symbol only hardens.                                        *)
(***************************************************************************)
Hardens(k) ==
    /\ k \in DOMAIN G' /\ G'[k].name = G[k].name
    /\ G[k].is_sect => G'[k].is_sect
    /\ G[k].type # T_WX => G'[k].type # T_WX
    /\ CommonOf(G[k]) /\ CommonOf(G'[k]) => G'[k].len >= G[k].len

LEMMA StepHardens ==
    ASSUME EsdType, EsdStep
    PROVE  \A k \in DOMAIN G : Hardens(k)
<1>0. G \in Seq(GSym) /\ \A k \in DOMAIN G : G[k].len \in Nat
  <2>1. G \in Seq(GSym)
    BY DEF EsdType
  <2>2. \A k \in DOMAIN G : G[k] \in GSym
    BY <2>1
  <2> QED BY <2>1, <2>2 DEF GSym
<1>1. G' = G => \A k \in DOMAIN G : Hardens(k)
  BY <1>0 DEF Hardens
<1>2. ASSUME NEW k, NEW name, Touches(k, name), Had(k) => Hardens(k)
      PROVE  \A m \in DOMAIN G : Hardens(m)
  BY <1>0, <1>2 DEF Touches, Extended, Hardens, Had
<1>3. CASE PrivateCode
  BY <1>2, <1>3, PrivateEffect DEF Had
<1>4. CASE DuplicateSection
  BY <1>1, <1>4, DuplicateEffect
<1>5. CASE FirstSection
  <2>1. Had(At) => Hardens(At)
    BY <1>5, FirstEffect DEF Hardens, Touches, Extended, Had, CommonOf, T_SD, T_CM, T_WX
  <2> QED BY <1>2, <1>5, <2>1, FirstEffect
<1>6. CASE Common
  <2>0. item.len \in Nat
    BY <1>6, ItemTyped DEF Common
  <2>1. CASE Had(At) /\ CsectOf(G[At])
    <3>1. Hardens(At)
      BY <1>0, <1>6, <2>1, CommonEffect DEF Hardens, Touches, Extended, Had
    <3> QED BY <1>2, <1>6, <3>1, CommonEffect
  <2>2. CASE ~(Had(At) /\ CsectOf(G[At]))
    <3>1. Had(At) => Hardens(At)
      BY <1>0, <1>6, <2>0, <2>2, CommonEffect DEF Hardens, Touches, Extended, Had, T_CM, T_WX
    <3> QED BY <1>2, <1>6, <3>1, CommonEffect
  <2> QED BY <2>1, <2>2
<1>7. CASE Reference
  <2>1. Had(At) => Hardens(At)
    BY <1>0, <1>7, ReferenceEffect DEF Hardens, Touches, Extended, Had, T_ER, T_WX
  <2> QED BY <1>2, <1>7, <2>1, ReferenceEffect
<1>8. CASE FirstLabel
  <2>1. Had(LAt) => Hardens(LAt)
    BY <1>0, <1>8, FirstLabelEffect DEF Hardens, Touches, Extended, Had, CommonOf, T_CM, T_LR, T_WX
  <2> QED BY <1>2, <1>8, <2>1, FirstLabelEffect
<1>9. CASE Unused \/ LocalsDone \/ LabelDropped \/ LabelAgain \/ ObjectDone \/ Check
  BY <1>1, <1>9, TableKept
<1> QED
  BY <1>3, <1>4, <1>5, <1>6, <1>7, <1>8, <1>9 DEF EsdStep

(***************************************************************************)
(* A strong reference left without an address is diagnosed.  An entry is a *)
(* section, a reference or a label of a section; what a section or a       *)
(* strong reference is bound to is never a weak reference.                 *)
(***************************************************************************)
EntryShape(g) == g.is_sect \/ g.type \in {T_ER, T_WX, T_LR}
Verdict == (pc = "resolved" => ~Refused) /\ (pc = "failed" => Refused)

Sound ==
    /\ \A k \in DOMAIN G : EntryShape(G[k])
    /\ \A k \in DOMAIN G : G[k].type = T_LR => G[k].owner \in DOMAIN G /\ G[G[k].owner].is_sect
    /\ \A a \in DOMAIN O : \A id \in DOMAIN loc_g[a] :
           /\ is_sect_type(O[a].loc[id].type) => G[loc_g[a][id]].is_sect
           /\ O[a].loc[id].type = T_ER => G[loc_g[a][id]].is_sect \/ G[loc_g[a][id]].type # T_WX
    /\ Verdict

LEMMA TurnSound ==
    ASSUME EsdType, Sound, NEW k, Turn(k), \A m \in DOMAIN G : Hardens(m),
           EntryShape(G'[k]),
           G'[k].type = T_LR => Had(k) /\ G[k].type = T_LR,
           is_sect_type(item.type) => G'[k].is_sect,
           item.type = T_ER => G'[k].is_sect \/ G'[k].type # T_WX
    PROVE  Sound'
<1>1. /\ AtLocal /\ O' = O /\ pc' = pc /\ pc = "loc" /\ OwnerKept(k)
      /\ DOMAIN G' = DOMAIN G \cup {k} /\ \A m \in DOMAIN G : m # k => G'[m] = G[m]
      /\ \A m \in DOMAIN G : /\ G[m].is_sect => G'[m].is_sect
                             /\ G[m].type # T_WX => G'[m].type # T_WX
  BY DEF Turn, Touches, Extended, AtLocal, Hardens
<1>2. i \in DOMAIN O
  BY <1>1, ItemTyped
<1>3. \A m \in DOMAIN G' : EntryShape(G'[m])
  BY <1>1 DEF Sound
<1>4. \A m \in DOMAIN G' : G'[m].type = T_LR => G'[m].owner \in DOMAIN G' /\ G'[G'[m].owner].is_sect
  BY <1>1 DEF Sound, OwnerKept, Had
<1>5. /\ \A a \in DOMAIN O : \A id : id \in DOMAIN loc_g'[a] <=>
             id \in DOMAIN loc_g[a] \/ (a = i /\ id = j)
      /\ \A a \in DOMAIN O : \A id \in DOMAIN loc_g[a] :
             ~(a = i /\ id = j) => loc_g'[a][id] = loc_g[a][id]
      /\ loc_g'[i][j] = k
  BY <1>1, Binding DEF Turn
<1>6. ASSUME NEW a \in DOMAIN O, NEW id \in DOMAIN loc_g'[a]
      PROVE  /\ is_sect_type(O[a].loc[id].type) => G'[loc_g'[a][id]].is_sect
             /\ O[a].loc[id].type = T_ER => G'[loc_g'[a][id]].is_sect \/ G'[loc_g'[a][id]].type # T_WX
  <2>1. CASE a = i /\ id = j
    BY <1>5, <2>1 DEF item
  <2>2. CASE ~(a = i /\ id = j)
    <3>1. id \in DOMAIN loc_g[a] /\ loc_g'[a][id] = loc_g[a][id]
      BY <1>5, <2>2
    <3>2. loc_g[a][id] \in DOMAIN G
      BY <3>1 DEF EsdType
    <3> QED BY <1>1, <3>1, <3>2 DEF Sound
  <2> QED BY <2>1, <2>2
<1>7. Verdict'
  BY <1>1 DEF Verdict
<1> QED
  BY <1>1, <1>3, <1>4, <1>6, <1>7 DEF Sound

LEMMA StepSound ==
    ASSUME EsdType, Sound, EsdStep
    PROVE  Sound'
<1> USE DEF EntryShape, is_sect_type, T_SD, T_PC, T_CM, T_ER, T_WX, T_LR
<1>0. \A m \in DOMAIN G : Hardens(m)
  BY StepHardens
<1>1. CASE PrivateCode
  BY <1>0, <1>1, ItemTurns, PrivateEffect, TurnSound
<1>2. CASE DuplicateSection
  <2>1. Had(At) /\ G' = G /\ G[At].is_sect /\ G[At].type = T_SD /\ Turn(At)
    BY <1>2, ItemTurns, DuplicateEffect DEF CsectOf
  <2> QED BY <1>0, <2>1, TurnSound DEF Had
<1>3. CASE FirstSection
  BY <1>0, <1>3, ItemTurns, FirstEffect, TurnSound
<1>4. CASE Common
  <2>1. G'[At].is_sect /\ G'[At].type \in {T_SD, T_CM}
    BY <1>4, CommonEffect DEF CsectOf
  <2> QED
    BY <1>0, <1>4, <2>1, ItemTurns, TurnSound
<1>5. CASE Reference
  <2>1. item.type \in {T_ER, T_WX}
    BY <1>5 DEF Reference
  <2>2. EntryShape(G'[At]) /\ (G'[At].type = T_LR => Had(At) /\ G[At].type = T_LR)
    BY <1>5, <2>1, ReferenceEffect DEF Sound, Had
  <2>3. item.type = T_ER => G'[At].is_sect \/ G'[At].type # T_WX
    BY <1>5, ReferenceEffect
  <2> QED
    BY <1>0, <1>5, <2>1, <2>2, <2>3, ItemTurns, TurnSound
<1>6. CASE FirstLabel
  <2>1. /\ AtLabel /\ pc = "ld" /\ UNCHANGED <<O, loc_g, pc>>
    BY <1>6 DEF FirstLabel, AtLabel
  <2>2. /\ DOMAIN G' = DOMAIN G \cup {LAt} /\ \A m \in DOMAIN G : m # LAt => G'[m] = G[m]
        /\ G'[LAt].type = T_LR /\ G'[LAt].owner = loc_g[i][label.len]
    BY <1>6, FirstLabelEffect DEF Touches, Extended
  <2>3. /\ i \in DOMAIN O /\ label.len \in DOMAIN loc_g[i] /\ loc_g[i][label.len] \in DOMAIN G
        /\ is_sect_type(O[i].loc[label.len].type)
    BY <2>1, LabelTyped
  <2>4. G[loc_g[i][label.len]].is_sect
    BY <2>3 DEF Sound
  <2>5. \A m \in DOMAIN G : /\ G[m].is_sect => G'[m].is_sect
                            /\ G[m].type # T_WX => G'[m].type # T_WX
    BY <1>0 DEF Hardens
  <2>6. \A m \in DOMAIN G' : EntryShape(G'[m])
    BY <2>2 DEF Sound
  <2>7. \A m \in DOMAIN G' : G'[m].type = T_LR => G'[m].owner \in DOMAIN G' /\ G'[G'[m].owner].is_sect
    BY <2>2, <2>3, <2>4, <2>5 DEF Sound
  <2>8. \A a \in DOMAIN O : \A id \in DOMAIN loc_g[a] :
            /\ is_sect_type(O[a].loc[id].type) => G'[loc_g[a][id]].is_sect
            /\ O[a].loc[id].type = T_ER => G'[loc_g[a][id]].is_sect \/ G'[loc_g[a][id]].type # T_WX
    BY <2>5 DEF Sound, EsdType
  <2>9. Verdict'
    BY <2>1 DEF Verdict
  <2> QED
    BY <2>1, <2>6, <2>7, <2>8, <2>9 DEF Sound
<1>7. CASE Unused \/ LocalsDone \/ LabelDropped \/ LabelAgain \/ ObjectDone \/ Check
  <2>1. UNCHANGED <<O, G, loc_g, dropped, ncomerr>>
    BY <1>7, TableKept
  <2>2. Verdict'
    <3>1. Refused' <=> Refused
      BY <2>1 DEF Refused
    <3>2. CASE Check
      BY <3>1, <3>2 DEF Check, Verdict
    <3>3. CASE ~Check
      BY <1>7, <3>3 DEF Unused, LocalsDone, LabelDropped, LabelAgain, AtLabel, ObjectDone, Verdict
    <3> QED BY <3>2, <3>3
  <2> QED BY <2>1, <2>2 DEF Sound
<1> QED
  BY <1>1, <1>2, <1>3, <1>4, <1>5, <1>6, <1>7 DEF EsdStep

LEMMA SoundDiagnoses ==
    ASSUME EsdType, Sound
    PROVE  StrongDiagnosed
<1> SUFFICES ASSUME pc = "resolved", ~AllowUnresolved,
                    NEW a \in DOMAIN O, NEW id \in DOMAIN O[a].loc, O[a].loc[id].type = T_ER
             PROVE  id \in DOMAIN loc_g[a] /\ Resolved(G[loc_g[a][id]])
  BY DEF StrongDiagnosed
<1>1. a \in Nat /\ a <= Len(O) /\ i = Len(O) + 1 /\ Len(O) \in Nat
  BY DEF EsdType, Objects, Done
<1>2. id \in DOMAIN loc_g[a]
  BY <1>1 DEF EsdType, SeenLoc
<1> DEFINE g == G[loc_g[a][id]]
<1>3. loc_g[a][id] \in DOMAIN G
  BY <1>2 DEF EsdType
<1>4. ~Unresolved(g)
  BY <1>3 DEF Sound, Verdict, Refused
<1>5. EntryShape(g) /\ (g.is_sect \/ g.type # T_WX)
  BY <1>2, <1>3 DEF Sound
<1>6. CASE g.is_sect
  BY <1>2, <1>6 DEF Resolved
<1>7. CASE ~g.is_sect
  <2>1. g.type = T_LR
    BY <1>4, <1>5, <1>7 DEF EntryShape, Unresolved
  <2>2. g.owner \in DOMAIN G /\ G[g.owner].is_sect
    BY <1>3, <2>1 DEF Sound
  <2>3. g.owner # NoSym
    BY <2>2 DEF EsdType, NoSym
  <2> QED BY <1>2, <2>1, <2>2, <2>3 DEF Resolved
<1> QED BY <1>6, <1>7

(***************************************************************************)
(* First items and labels of a name.                                       *)
(***************************************************************************)
Plain == \A a \in DOMAIN O : PrivateIsBlank(O[a])
NoMixed == \A name \in Names : ~Mixed(name)

Upto(a, x, b, y) == a < b \/ (a = b /\ x <= y)

\* <<a, id>> is an item of that type and name, and the loop has bound it.
Is(t, name, a, id) ==
    a \in DOMAIN O /\ id \in DOMAIN O[a].loc /\ O[a].loc[id].type = t /\ O[a].loc[id].name = name
Met(t, name, a, id) == Is(t, name, a, id) /\ id \in DOMAIN loc_g[a]
LenOf(a, id) == O[a].loc[id].len

\* The first control section of its name.
FirstSD(a, id) == \A b, y : Is(T_SD, O[a].loc[id].name, b, y) => Upto(a, id, b, y)

\* A label whose section is kept, and the loop has passed it.
IsLd(name, a, x) ==
    /\ a \in DOMAIN O /\ x \in DOMAIN O[a].ld /\ O[a].ld[x].name = name
    /\ KeptSection(<<a, O[a].ld[x].len>>)
SeenLd(a, x) == a < i \/ (a = i /\ pc = "ld" /\ x < j)
MetLd(name, a, x) == IsLd(name, a, x) /\ SeenLd(a, x)
FirstLd(name, a, x) == \A b, y : IsLd(name, b, y) => Upto(a, x, b, y)

LEMMA InItems ==
    ASSUME NEW t, NEW name
    PROVE  /\ \A a, id : Is(t, name, a, id) <=> <<a, id>> \in Items(t, name)
           /\ \A p \in Items(t, name) : p = <<p[1], p[2]>> /\ Is(t, name, p[1], p[2])
<1>1. ASSUME NEW p \in Items(t, name) PROVE p = <<p[1], p[2]>> /\ Is(t, name, p[1], p[2])
  BY <1>1 DEF Items, Is
<1>2. ASSUME NEW a, NEW id, Is(t, name, a, id) PROVE <<a, id>> \in Items(t, name)
  BY <1>2 DEF Items, Is
<1>3. ASSUME NEW a, NEW id, <<a, id>> \in Items(t, name) PROVE Is(t, name, a, id)
  BY <1>1, <1>3
<1> QED
  BY <1>1, <1>2, <1>3

LEMMA InLabels ==
    ASSUME NEW name
    PROVE  /\ \A a, x : IsLd(name, a, x) <=> <<a, x>> \in Labels(name)
           /\ \A p \in Labels(name) : p = <<p[1], p[2]>> /\ IsLd(name, p[1], p[2])
<1>1. ASSUME NEW p \in Labels(name) PROVE p = <<p[1], p[2]>> /\ IsLd(name, p[1], p[2])
  <2>1. PICK a \in DOMAIN O : \E x \in DOMAIN O[a].ld :
            p = <<a, x>> /\ O[a].ld[x].name = name /\ KeptSection(<<a, O[a].ld[x].len>>)
    BY <1>1 DEF Labels
  <2>2. PICK x \in DOMAIN O[a].ld :
            p = <<a, x>> /\ O[a].ld[x].name = name /\ KeptSection(<<a, O[a].ld[x].len>>)
    BY <2>1
  <2>3. p[1] = a /\ p[2] = x
    BY <2>2
  <2> QED BY <2>2, <2>3 DEF IsLd
<1>2. ASSUME NEW a, NEW x, IsLd(name, a, x) PROVE <<a, x>> \in Labels(name)
  BY <1>2 DEF Labels, IsLd
<1>3. ASSUME NEW a, NEW x, <<a, x>> \in Labels(name) PROVE IsLd(name, a, x)
  BY <1>1, <1>3
<1> QED
  BY <1>1, <1>2, <1>3

\* A non-empty set of places has an earliest one, and no other is.
LEMMA EarliestIs ==
    ASSUME NEW S, S \subseteq Nat \X Nat, S # {}
    PROVE  /\ Earliest(S) \in S /\ \A q \in S : NotAfter(Earliest(S), q)
           /\ \A p \in S : (\A q \in S : NotAfter(p, q)) => p = Earliest(S)
<1> DEFINE A == {p[1] : p \in S}
<1>1. A \subseteq Nat /\ A # {}
  OBVIOUS
<1>2. PICK a \in A : \A x \in A : a <= x
  BY <1>1, LeastNumber
<1> DEFINE B == {p[2] : p \in {q \in S : q[1] = a}}
<1>3. B \subseteq Nat /\ B # {}
  BY <1>2
<1>4. PICK b \in B : \A x \in B : b <= x
  BY <1>3, LeastNumber
<1>5. PICK p \in S : p[1] = a /\ p[2] = b
  BY <1>4
<1>6. \A q \in S : NotAfter(p, q)
  <2> SUFFICES ASSUME NEW q \in S PROVE NotAfter(p, q)
    OBVIOUS
  <2>1. a <= q[1] /\ a \in Nat /\ q[1] \in Nat /\ q[2] \in Nat /\ b \in Nat
    BY <1>2, <1>1, <1>3, <1>4
  <2>2. q[1] = a => b <= q[2]
    BY <1>4
  <2> QED
    BY <2>1, <2>2, <1>5 DEF NotAfter
<1>7. Earliest(S) \in S /\ \A q \in S : NotAfter(Earliest(S), q)
  BY <1>6 DEF Earliest
<1>8. ASSUME NEW r \in S, \A q \in S : NotAfter(r, q)
      PROVE  r = Earliest(S)
  <2> DEFINE e == Earliest(S)
  <2>1. e \in S /\ NotAfter(r, e) /\ NotAfter(e, r)
    BY <1>7, <1>8
  <2> HIDE DEF e
  <2>2. r \in Nat \X Nat /\ e \in Nat \X Nat
    BY <2>1
  <2>3. r[1] = e[1] /\ r[2] = e[2]
    BY <2>1, <2>2 DEF NotAfter
  <2> QED
    BY <2>2, <2>3 DEF e
<1> QED
  BY <1>7, <1>8

LEMMA PlacesTyped ==
    ASSUME EsdType, NEW t, NEW name, NEW a, NEW id, Is(t, name, a, id)
    PROVE  /\ a \in Nat /\ id \in Nat /\ O[a].loc[id] \in EsdItem
           /\ LenOf(a, id) \in Nat /\ name \in Names
<1>1. a \in DOMAIN O /\ id \in DOMAIN O[a].loc /\ IsObject(O[a]) /\ a \in Nat
  BY DEF Is, EsdType, Objects
<1>2. id \in 1..(MAXESD - 1) /\ O[a].loc[id] \in EsdItem
  BY <1>1 DEF IsObject
<1>3. id \in Nat
  BY <1>2, MaxEsdAssumption
<1> QED
  BY <1>1, <1>2, <1>3 DEF EsdItem, LenOf, Is

\* KeptSection reads the objects as FirstSD does.
LEMMA KeptIs ==
    ASSUME EsdType, NEW name, NEW a, NEW id, Is(T_SD, name, a, id)
    PROVE  KeptSection(<<a, id>>) <=> FirstSD(a, id)
<1> DEFINE S == Items(T_SD, name)
<1>1. <<a, id>> \in S /\ O[a].loc[id].name = name
  BY InItems DEF Is
<1>2. S \subseteq Nat \X Nat
  <2> SUFFICES ASSUME NEW p \in S PROVE p \in Nat \X Nat
    OBVIOUS
  <2>1. p = <<p[1], p[2]>> /\ Is(T_SD, name, p[1], p[2])
    BY InItems
  <2> QED BY <2>1, PlacesTyped
<1>3. KeptSection(<<a, id>>) <=> <<a, id>> = Earliest(S)
  BY DEF KeptSection, LocOf, Is
<1>4. (\A q \in S : NotAfter(<<a, id>>, q)) <=> FirstSD(a, id)
  <2>1. ASSUME FirstSD(a, id), NEW q \in S PROVE NotAfter(<<a, id>>, q)
    BY <1>1, <2>1, InItems DEF FirstSD, Upto, NotAfter
  <2>2. ASSUME \A q \in S : NotAfter(<<a, id>>, q), NEW b, NEW y, Is(T_SD, name, b, y)
        PROVE  Upto(a, id, b, y)
    <3>1. <<b, y>> \in S
      BY <2>2, InItems
    <3>2. NotAfter(<<a, id>>, <<b, y>>)
      BY <2>2, <3>1
    <3> QED BY <3>2 DEF NotAfter, Upto
  <2> QED BY <1>1, <2>1, <2>2 DEF FirstSD
<1> HIDE DEF S
<1> QED
  BY <1>1, <1>2, <1>3, <1>4, EarliestIs

(***************************************************************************)
(* What the table holds of each name, when no name is both a label and a   *)
(* section: the first section met, else the longest common area met, else  *)
(* the first label met, else a reference, strong if a strong one was met.  *)
(***************************************************************************)
HoldsSection(g, n) ==
    /\ \A a, id : Met(T_SD, n, a, id) => CsectOf(g)
    /\ CsectOf(g) => \E a, id : Met(T_SD, n, a, id) /\ FirstSD(a, id) /\ IsSection(g, <<a, id>>)
HoldsCommon(g, n) ==
    /\ \A a, id : Met(T_CM, n, a, id) => g.is_sect /\ (CommonOf(g) => LenOf(a, id) <= g.len)
    /\ CommonOf(g) => \E a, id : Met(T_CM, n, a, id) /\ LenOf(a, id) = g.len
HoldsLabel(g, n) ==
    g.type = T_LR =>
        ~g.is_sect /\ \E a, x : MetLd(n, a, x) /\ FirstLd(n, a, x) /\ IsLabel(g, <<a, x>>)
HoldsReference(g, n) ==
    ~g.is_sect /\ g.type = T_ER => \E a, id : Met(T_ER, n, a, id)
Holds(g, n) ==
    /\ HoldsSection(g, n) /\ HoldsCommon(g, n) /\ HoldsLabel(g, n) /\ HoldsReference(g, n)
    /\ g.is_sect => g.type \in {T_SD, T_CM}

\* Names other than the blank one have one entry, and what is met has one.
OneEntry ==
    /\ \A k, m \in DOMAIN G : G[k].name = G[m].name /\ G[k].name # Blank => k = m
    /\ \A k \in DOMAIN G : G[k].name = Blank => G[k].is_sect
    /\ \A a \in DOMAIN O : \A id \in DOMAIN loc_g[a] : G[loc_g[a][id]].name = O[a].loc[id].name
LabelsIn ==
    \A n, a, x : MetLd(n, a, x) => \E k \in DOMAIN G : G[k].name = n /\ G[k].type = T_LR
EntriesHold == \A k \in DOMAIN G : G[k].name # Blank => Holds(G[k], G[k].name)

\* The sections dropped are those met that are not the first of their name.
DroppedAre ==
    /\ \A n, a, id : Met(T_SD, n, a, id) => (<<a, id>> \in dropped <=> ~FirstSD(a, id))
    /\ \A d \in dropped : d[2] \in DOMAIN loc_g[d[1]]

\* A common area met is longer than the section of its name that is kept.
OutgrownMet ==
    \E n, a, id, b, y : /\ Met(T_CM, n, a, id) /\ Met(T_SD, n, b, y) /\ FirstSD(b, y)
                        /\ LenOf(a, id) > LenOf(b, y)
LongestMet ==
    \A n : (\E a, id : Met(T_CM, n, a, id)) =>
               \E a, id : /\ Met(T_CM, n, a, id)
                          /\ \A b, y : Met(T_CM, n, b, y) => LenOf(b, y) <= LenOf(a, id)

Merged ==
    /\ OneEntry /\ LabelsIn /\ EntriesHold /\ DroppedAre
    /\ ncomerr > 0 <=> OutgrownMet
    /\ LongestMet

\* An item behind the loop's place is bound, one that is not bound is not behind.
LEMMA Behind ==
    ASSUME EsdType, AtLocal, NEW t, NEW n, NEW b, NEW y, Is(t, n, b, y)
    PROVE  /\ ~Met(t, n, b, y) => Upto(i, j, b, y)
           /\ Met(t, n, b, y) => ~Upto(i, j, b, y)
<1>1. b \in Nat /\ y \in Nat /\ i \in Nat /\ j \in Nat /\ pc = "loc"
  BY PlacesTyped, ItemTyped DEF AtLocal, EsdType, Objects
<1>2. b \in DOMAIN O /\ y \in DOMAIN O[b].loc
  BY DEF Is
<1>3. y \in DOMAIN loc_g[b] <=> SeenLoc(b, y)
  BY <1>2 DEF EsdType
<1> QED
  BY <1>1, <1>3 DEF Met, SeenLoc, Upto

\* A turn of the item loop meets that item and no label.
LEMMA TurnMeets ==
    ASSUME EsdType, NEW k, Turn(k)
    PROVE  /\ \A t, n, a, id : Is(t, n, a, id)' <=> Is(t, n, a, id)
           /\ \A t, n, a, id : Met(t, n, a, id)' <=>
                  Met(t, n, a, id) \/ (a = i /\ id = j /\ t = item.type /\ n = item.name)
           /\ \A a, id : LenOf(a, id)' = LenOf(a, id)
           /\ \A a, id : FirstSD(a, id)' <=> FirstSD(a, id)
           /\ \A n, a, x : IsLd(n, a, x)' <=> IsLd(n, a, x)
           /\ \A n, a, x : MetLd(n, a, x)' <=> MetLd(n, a, x)
           /\ \A n, a, x : FirstLd(n, a, x)' <=> FirstLd(n, a, x)
           /\ \A n, a, x : MetLd(n, a, x) =>
                  loc_g'[a][O[a].ld[x].len] = loc_g[a][O[a].ld[x].len]
           /\ Is(item.type, item.name, i, j) /\ ~Met(item.type, item.name, i, j)
<1>1. /\ AtLocal /\ pc = "loc" /\ O' = O /\ i' = i /\ j' = j + 1 /\ pc' = pc /\ Bind(k)
  BY DEF Turn, AtLocal
<1>2. /\ DOMAIN loc_g' = DOMAIN loc_g
      /\ \A a \in DOMAIN O : \A id : id \in DOMAIN loc_g'[a] <=>
             id \in DOMAIN loc_g[a] \/ (a = i /\ id = j)
      /\ \A a \in DOMAIN O : \A id \in DOMAIN loc_g[a] :
             ~(a = i /\ id = j) => loc_g'[a][id] = loc_g[a][id]
      /\ j \notin DOMAIN loc_g[i]
  BY <1>1, Binding
<1>3. i \in DOMAIN O /\ j \in DOMAIN O[i].loc /\ i \in Nat
  BY <1>1, ItemTyped DEF EsdType, Objects
<1>4. \A t, n, a, id : Is(t, n, a, id)' <=> Is(t, n, a, id)
  BY <1>1 DEF Is
<1>5. Is(item.type, item.name, i, j) /\ ~Met(item.type, item.name, i, j)
  BY <1>2, <1>3 DEF Is, Met, item
<1>6. ASSUME NEW t, NEW n, NEW a, NEW id
      PROVE  Met(t, n, a, id)' <=>
                 Met(t, n, a, id) \/ (a = i /\ id = j /\ t = item.type /\ n = item.name)
  <2>1. Is(t, n, a, id) => a \in DOMAIN O
    BY DEF Is
  <2>2. Is(t, n, i, j) => t = item.type /\ n = item.name
    BY DEF Is, item
  <2> QED
    BY <1>2, <1>4, <1>5, <2>1, <2>2 DEF Met
<1>7. \A a, id : LenOf(a, id)' = LenOf(a, id)
  BY <1>1 DEF LenOf
<1>8. \A a, id : FirstSD(a, id)' <=> FirstSD(a, id)
  BY <1>1, <1>4 DEF FirstSD, Upto
<1>9. \A p : KeptSection(p)' <=> KeptSection(p)
  BY <1>1 DEF KeptSection, LocOf, Earliest, NotAfter, Items
<1>10. \A n, a, x : IsLd(n, a, x)' <=> IsLd(n, a, x)
  BY <1>1, <1>9 DEF IsLd
<1>11. \A a, x : SeenLd(a, x)' <=> SeenLd(a, x)
  BY <1>1 DEF SeenLd
<1>12. \A n, a, x : MetLd(n, a, x)' <=> MetLd(n, a, x)
  BY <1>10, <1>11 DEF MetLd
<1>13. \A n, a, x : FirstLd(n, a, x)' <=> FirstLd(n, a, x)
  BY <1>10 DEF FirstLd, Upto
<1>14. ASSUME NEW n, NEW a, NEW x, MetLd(n, a, x)
       PROVE  loc_g'[a][O[a].ld[x].len] = loc_g[a][O[a].ld[x].len]
  <2>1. a \in DOMAIN O /\ x \in DOMAIN O[a].ld /\ a < i /\ a \in Nat
    BY <1>1, <1>14 DEF MetLd, IsLd, SeenLd, EsdType, Objects
  <2>2. O[a].ld[x].len \in DOMAIN O[a].loc
    BY <2>1 DEF EsdType, Objects, IsObject
  <2>3. O[a].ld[x].len \in DOMAIN loc_g[a]
    BY <2>1, <2>2 DEF EsdType, SeenLoc
  <2> QED
    BY <1>2, <1>3, <2>1, <2>3
<1> QED
  BY <1>4, <1>5, <1>6, <1>7, <1>8, <1>10, <1>12, <1>13, <1>14

\* The turn says nothing new of an entry of another name.
LEMMA HoldsElsewhere ==
    ASSUME EsdType, NEW k, Turn(k), NEW m \in DOMAIN G, m # k,
           NEW n, n # item.name, Holds(G[m], n)
    PROVE  Holds(G[m], n)'
<1>1. G'[m] = G[m] /\ O' = O
  BY DEF Turn, Touches, Extended
<1>2. \A t, a, id : Met(t, n, a, id)' <=> Met(t, n, a, id)
  BY TurnMeets
<1>3. HoldsSection(G[m], n)'
  <2>1. \A a, id : IsSection(G[m], <<a, id>>)' <=> IsSection(G[m], <<a, id>>)
    BY <1>1 DEF IsSection, LocOf
  <2>2. CsectOf(G[m])' <=> CsectOf(G[m])
    BY <1>1 DEF CsectOf
  <2>3. HoldsSection(G[m], n)
    BY DEF Holds
  <2> QED BY <1>2, <2>1, <2>2, <2>3, TurnMeets DEF HoldsSection
<1>4. HoldsCommon(G[m], n)'
  <2>1. (CommonOf(G[m])' <=> CommonOf(G[m])) /\ (G[m].is_sect)' = G[m].is_sect /\ (G[m].len)' = G[m].len
    BY <1>1 DEF CommonOf
  <2>2. HoldsCommon(G[m], n)
    BY DEF Holds
  <2> QED BY <1>1, <1>2, <2>1, <2>2, TurnMeets DEF HoldsCommon
<1>5. HoldsLabel(G[m], n)'
  <2>1. ASSUME NEW a, NEW x, MetLd(n, a, x), IsLabel(G[m], <<a, x>>)
        PROVE  IsLabel(G[m], <<a, x>>)'
    <3>1. loc_g'[a][O[a].ld[x].len] = loc_g[a][O[a].ld[x].len]
      BY <2>1, TurnMeets
    <3> QED BY <1>1, <2>1, <3>1 DEF IsLabel
  <2>2. HoldsLabel(G[m], n)
    BY DEF Holds
  <2> QED BY <1>1, <2>1, <2>2, TurnMeets DEF HoldsLabel
<1>6. HoldsReference(G[m], n)'
  BY <1>1, <1>2 DEF Holds, HoldsReference
<1>7. (G[m].is_sect => G[m].type \in {T_SD, T_CM})'
  BY <1>1 DEF Holds
<1> QED
  BY <1>3, <1>4, <1>5, <1>6, <1>7 DEF Holds

\* What a turn has to show of the item's own entry.
LEMMA TurnMerged ==
    ASSUME EsdType, Merged, NEW k, Turn(k), NEW n, n = item.name,
           n # Blank => OnlyOne(G, k, n) /\ Holds(G[k], n)',
           n = Blank => G'[k].is_sect,
           Had(k) /\ G[k].type = T_LR => G'[k].type = T_LR \/ \A a, x : ~MetLd(n, a, x),
           DroppedAre', (ncomerr > 0 <=> OutgrownMet)', LongestMet'
    PROVE  Merged'
<1>1. /\ O' = O /\ DOMAIN G' = DOMAIN G \cup {k} /\ \A m \in DOMAIN G : m # k => G'[m] = G[m]
      /\ G'[k].name = n /\ (k \in DOMAIN G => G[k].name = n) /\ AtLocal /\ Bind(k)
  BY DEF Turn, Touches, Extended
<1>2. OneEntry /\ LabelsIn /\ EntriesHold
  BY DEF Merged
<1>3. \A m \in DOMAIN G : m # k /\ n # Blank => G[m].name # n
  <2>1. CASE k \in DOMAIN G
    BY <1>1, <1>2, <2>1 DEF OneEntry
  <2>2. CASE k \notin DOMAIN G
    BY <2>2 DEF OnlyOne
  <2> QED BY <2>1, <2>2
<1>4. OneEntry'
  <2>1. \A l, m \in DOMAIN G' : G'[l].name = G'[m].name /\ G'[l].name # Blank => l = m
    BY <1>1, <1>2, <1>3 DEF OneEntry
  <2>2. \A m \in DOMAIN G' : G'[m].name = Blank => G'[m].is_sect
    BY <1>1, <1>2 DEF OneEntry
  <2>3. ASSUME NEW a \in DOMAIN O, NEW id \in DOMAIN loc_g'[a]
        PROVE  G'[loc_g'[a][id]].name = O[a].loc[id].name
    <3>1. CASE a = i /\ id = j
      BY <1>1, <3>1, Binding DEF item
    <3>2. CASE ~(a = i /\ id = j)
      <4>1. id \in DOMAIN loc_g[a] /\ loc_g'[a][id] = loc_g[a][id]
        BY <1>1, <2>3, <3>2, Binding
      <4>2. loc_g[a][id] \in DOMAIN G /\ G[loc_g[a][id]].name = O[a].loc[id].name
        BY <1>2, <4>1 DEF EsdType, OneEntry
      <4> QED BY <1>1, <4>1, <4>2
    <3> QED BY <3>1, <3>2
  <2> QED BY <1>1, <2>1, <2>2, <2>3 DEF OneEntry
<1>5. LabelsIn'
  <2> SUFFICES ASSUME NEW nm, NEW a, NEW x, MetLd(nm, a, x)
               PROVE  \E m \in DOMAIN G' : G'[m].name = nm /\ G'[m].type = T_LR
    BY TurnMeets DEF LabelsIn
  <2>1. PICK m \in DOMAIN G : G[m].name = nm /\ G[m].type = T_LR
    BY <1>2 DEF LabelsIn
  <2>2. CASE m = k
    <3>1. nm = n /\ Had(k)
      BY <1>1, <2>1, <2>2 DEF Had
    <3>2. G'[k].type = T_LR
      BY <2>1, <2>2, <3>1
    <3> QED BY <1>1, <3>1, <3>2
  <2>3. CASE m # k
    BY <1>1, <2>1, <2>3
  <2> QED BY <2>2, <2>3
<1>6. EntriesHold'
  <2> SUFFICES ASSUME NEW m \in DOMAIN G', G'[m].name # Blank
               PROVE  Holds(G[m], G[m].name)'
    BY DEF EntriesHold
  <2>1. CASE m = k
    <3>1. Holds(G[k], n)'
      BY <1>1, <2>1
    <3>2. (G[k].name)' = n
      BY <1>1
    <3> QED BY <2>1, <3>1, <3>2
  <2>2. CASE m # k
    <3>1. m \in DOMAIN G /\ G'[m] = G[m] /\ G[m].name # Blank
      BY <1>1, <2>2
    <3>2. G[m].name # n
      BY <1>3, <2>2, <3>1
    <3>3. PICK nm : nm = G[m].name
      OBVIOUS
    <3>4. Holds(G[m], nm)
      BY <1>2, <3>1, <3>3 DEF EntriesHold
    <3>5. Holds(G[m], nm)'
      BY <2>2, <3>1, <3>2, <3>3, <3>4, HoldsElsewhere
    <3>6. (G[m].name)' = nm
      BY <3>1, <3>3
    <3> QED BY <3>5, <3>6
  <2> QED BY <2>1, <2>2
<1> QED
  BY <1>4, <1>5, <1>6 DEF Merged

\* A name without an entry has not been met.
LEMMA Unmet ==
    ASSUME EsdType, Merged, NEW n, \A m \in DOMAIN G : G[m].name # n
    PROVE  (\A t, a, id : ~Met(t, n, a, id)) /\ (\A a, x : ~MetLd(n, a, x))
<1>1. OneEntry /\ LabelsIn
  BY DEF Merged
<1>2. ASSUME NEW t, NEW a, NEW id, Met(t, n, a, id) PROVE FALSE
  <2>1. a \in DOMAIN O /\ id \in DOMAIN loc_g[a] /\ O[a].loc[id].name = n
    BY <1>2 DEF Met, Is
  <2>2. loc_g[a][id] \in DOMAIN G /\ G[loc_g[a][id]].name = n
    BY <1>1, <2>1 DEF EsdType, OneEntry
  <2> QED BY <2>2
<1>3. \A a, x : ~MetLd(n, a, x)
  BY <1>1 DEF LabelsIn
<1> QED
  BY <1>2, <1>3

\* A name with a section or common is no label.
LEMMA SectionAlone ==
    ASSUME EsdType, NoMixed, NEW t \in {T_SD, T_CM}, NEW n, NEW a, NEW id, Is(t, n, a, id)
    PROVE  \A b, x : ~IsLd(n, b, x)
<1>1. n \in Names
  BY PlacesTyped
<1>2. <<a, id>> \in Items(T_SD, n) \cup Items(T_CM, n)
  BY InItems
<1>3. Labels(n) = {}
  BY <1>1, <1>2 DEF NoMixed, Mixed
<1> QED
  BY <1>3, InLabels

\* The item under the loop, named.
LEMMA ItemNamed ==
    ASSUME EsdType, Plain, AtLocal
    PROVE  /\ item.name = Blank <=> item.type = T_PC
           /\ Is(item.type, item.name, i, j) /\ O[i].loc[j].name = item.name
           /\ LenOf(i, j) = item.len
<1>1. i \in DOMAIN O /\ j \in DOMAIN O[i].loc
  BY ItemTyped
<1>2. item = O[i].loc[j]
  BY DEF item
<1> QED
  BY <1>1, <1>2 DEF Plain, PrivateIsBlank, Is, LenOf

\* An item that is neither section nor common leaves the counts alone.
LEMMA CountsKept ==
    ASSUME EsdType, Merged, NEW k, Turn(k), item.type \notin {T_SD, T_CM},
           UNCHANGED <<dropped, ncomerr>>
    PROVE  DroppedAre' /\ (ncomerr > 0 <=> OutgrownMet)' /\ LongestMet'
<1>1. /\ \A n, a, id : Met(T_SD, n, a, id)' <=> Met(T_SD, n, a, id)
      /\ \A n, a, id : Met(T_CM, n, a, id)' <=> Met(T_CM, n, a, id)
  BY TurnMeets
<1>2. \A d \in dropped : d[2] \in DOMAIN loc_g'[d[1]]
  <2>1. \A d \in dropped : d[1] \in DOMAIN O /\ d[2] \in DOMAIN loc_g[d[1]]
    BY DEF Merged, DroppedAre, EsdType
  <2> QED BY <2>1, Binding DEF Turn
<1>3. DroppedAre'
  BY <1>1, <1>2, TurnMeets DEF Merged, DroppedAre
<1>4. OutgrownMet' <=> OutgrownMet
  BY <1>1, TurnMeets DEF OutgrownMet
<1>5. LongestMet'
  BY <1>1, TurnMeets DEF Merged, LongestMet
<1> QED
  BY <1>3, <1>4, <1>5 DEF Merged

LEMMA PrivateMerged ==
    ASSUME EsdType, Plain, Merged, PrivateCode
    PROVE  Merged'
<1>1. PICK k : k = Len(G) + 1
  OBVIOUS
<1>2. PICK n : n = item.name
  OBVIOUS
<1>3. /\ Turn(k) /\ AtLocal /\ item.type = T_PC /\ UNCHANGED <<dropped, ncomerr>>
      /\ ~Had(k) /\ G'[k].is_sect
  BY <1>1, ItemTurns, PrivateEffect DEF PrivateCode, Had
<1>4. n = Blank
  BY <1>2, <1>3, ItemNamed
<1>5. DroppedAre' /\ (ncomerr > 0 <=> OutgrownMet)' /\ LongestMet'
  BY <1>3, CountsKept DEF T_PC, T_SD, T_CM
<1> QED
  BY <1>2, <1>3, <1>4, <1>5, TurnMerged

LEMMA DuplicateMerged ==
    ASSUME EsdType, Plain, Merged, DuplicateSection
    PROVE  Merged'
<1>1. PICK k : k = At
  OBVIOUS
<1>2. PICK n : n = item.name
  OBVIOUS
<1>3. PICK a0, id0 : a0 = i /\ id0 = j
  OBVIOUS
<1>4. /\ Turn(k) /\ AtLocal /\ item.type = T_SD /\ ncomerr' = ncomerr
      /\ dropped' = dropped \cup {<<a0, id0>>}
      /\ Had(k) /\ G' = G /\ G[k].name = n /\ CsectOf(G[k])
  BY <1>1, <1>2, <1>3, ItemTurns, DuplicateEffect DEF DuplicateSection
<1>5. n # Blank /\ Is(T_SD, n, a0, id0) /\ O[a0].loc[id0].name = n
  BY <1>2, <1>3, <1>4, ItemNamed DEF T_SD, T_PC
<1>6. Holds(G[k], n)
  BY <1>4, <1>5 DEF Merged, EntriesHold, Had
<1>7. PICK a, id : Met(T_SD, n, a, id) /\ FirstSD(a, id) /\ IsSection(G[k], <<a, id>>)
  BY <1>4, <1>6 DEF Holds, HoldsSection
<1>8. ~FirstSD(a0, id0)
  <2>1. ~Upto(a0, id0, a, id)
    BY <1>3, <1>4, <1>7, Behind DEF Met
  <2> QED BY <1>5, <1>7, <2>1 DEF FirstSD, Met
<1>9. /\ \A nm, b, y : Met(T_SD, nm, b, y)' <=> Met(T_SD, nm, b, y) \/ (b = a0 /\ y = id0 /\ nm = n)
      /\ \A nm, b, y : Met(T_CM, nm, b, y)' <=> Met(T_CM, nm, b, y)
      /\ \A nm, b, y : Met(T_ER, nm, b, y) => Met(T_ER, nm, b, y)'
      /\ ~Met(T_SD, n, a0, id0)
  BY <1>2, <1>3, <1>4, TurnMeets DEF T_SD, T_CM
<1>10. Holds(G[k], n)'
  <2>1. HoldsSection(G[k], n)'
    <3>1. CsectOf(G[k])'
      BY <1>4 DEF CsectOf
    <3>2. Met(T_SD, n, a, id)' /\ FirstSD(a, id)'
      BY <1>4, <1>7, <1>9, TurnMeets
    <3>3. IsSection(G[k], <<a, id>>)'
      BY <1>4, <1>7 DEF IsSection, LocOf, Turn
    <3> QED BY <3>1, <3>2, <3>3 DEF HoldsSection
  <2>2. HoldsCommon(G[k], n)'
    BY <1>4, <1>6, <1>9, TurnMeets DEF Holds, HoldsCommon, CommonOf
  <2>3. HoldsLabel(G[k], n)' /\ HoldsReference(G[k], n)'
    BY <1>4 DEF HoldsLabel, HoldsReference, CsectOf, T_SD, T_LR, T_ER
  <2>4. (G[k].is_sect => G[k].type \in {T_SD, T_CM})'
    BY <1>4 DEF CsectOf
  <2> QED BY <2>1, <2>2, <2>3, <2>4 DEF Holds
<1>11. DroppedAre'
  <2>1. \A nm, b, y : Met(T_SD, nm, b, y)' => (<<b, y>> \in dropped' <=> ~FirstSD(b, y)')
    <3> SUFFICES ASSUME NEW nm, NEW b, NEW y, Met(T_SD, nm, b, y)'
                 PROVE  <<b, y>> \in dropped' <=> ~FirstSD(b, y)'
      OBVIOUS
    <3>1. FirstSD(b, y)' <=> FirstSD(b, y)
      BY <1>4, TurnMeets
    <3>2. CASE b = a0 /\ y = id0
      BY <1>4, <1>8, <3>1, <3>2
    <3>3. CASE ~(b = a0 /\ y = id0)
      <4>1. Met(T_SD, nm, b, y) /\ <<b, y>> # <<a0, id0>>
        BY <1>9, <3>3
      <4>2. <<b, y>> \in dropped <=> ~FirstSD(b, y)
        BY <4>1 DEF Merged, DroppedAre
      <4> QED BY <1>4, <3>1, <4>1, <4>2
    <3> QED BY <3>2, <3>3
  <2>2. \A d \in dropped' : d[2] \in DOMAIN loc_g'[d[1]]
    <3>1. \A d \in dropped : d[1] \in DOMAIN O /\ d[2] \in DOMAIN loc_g[d[1]]
      BY DEF Merged, DroppedAre, EsdType
    <3>2. a0 \in DOMAIN O
      BY <1>5 DEF Is
    <3> QED BY <1>3, <1>4, <3>1, <3>2, Binding DEF Turn
  <2> QED BY <2>1, <2>2 DEF DroppedAre
<1>12. OutgrownMet' <=> OutgrownMet
  BY <1>4, <1>8, <1>9, TurnMeets DEF OutgrownMet
<1>13. LongestMet'
  BY <1>4, <1>9, TurnMeets DEF Merged, LongestMet
<1>14. OnlyOne(G, k, n)
  BY <1>4 DEF OnlyOne, Had
<1>15. (ncomerr > 0 <=> OutgrownMet)'
  BY <1>4, <1>12 DEF Merged
<1> QED
  BY <1>2, <1>4, <1>5, <1>10, <1>11, <1>13, <1>14, <1>15, TurnMerged

LEMMA FirstMerged ==
    ASSUME EsdType, Plain, NoMixed, Merged, FirstSection
    PROVE  Merged'
<1>1. PICK k : k = At
  OBVIOUS
<1>2. PICK n : n = item.name
  OBVIOUS
<1>3. PICK a0, id0 : a0 = i /\ id0 = j
  OBVIOUS
<1>4. /\ Turn(k) /\ AtLocal /\ item.type = T_SD /\ dropped' = dropped
      /\ OnlyOne(G, k, n) /\ (Had(k) => G[k].name = n)
      /\ ~(Had(k) /\ CsectOf(G[k]))
      /\ G'[k].is_sect /\ G'[k].type = T_SD /\ G'[k].len = item.len
      /\ G'[k].def_obj = a0 /\ G'[k].in_addr = item.addr
      /\ ncomerr' = IF Had(k) /\ CommonOf(G[k]) /\ G[k].len > item.len THEN ncomerr + 1 ELSE ncomerr
  BY <1>1, <1>2, <1>3, ItemTurns, FirstEffect DEF FirstSection, Touches, Extended, Had
<1>5. /\ n # Blank /\ Is(T_SD, n, a0, id0) /\ O[a0].loc[id0].name = n
      /\ LenOf(a0, id0) = item.len
  BY <1>2, <1>3, <1>4, ItemNamed DEF T_SD, T_PC
<1>6. Had(k) => Holds(G[k], n)
  BY <1>4, <1>5 DEF Merged, EntriesHold, Had
<1>7. ~Had(k) => (\A t, a, id : ~Met(t, n, a, id)) /\ (\A a, x : ~MetLd(n, a, x))
  BY <1>4, Unmet DEF OnlyOne, Had
<1>8. \A a, id : ~Met(T_SD, n, a, id)
  BY <1>4, <1>6, <1>7 DEF Holds, HoldsSection
<1>9. FirstSD(a0, id0)
  BY <1>3, <1>4, <1>5, <1>8, Behind DEF FirstSD
<1>10. \A a, x : ~MetLd(n, a, x)
  BY <1>5, SectionAlone DEF MetLd
<1>11. /\ \A nm, b, y : Met(T_SD, nm, b, y)' <=> Met(T_SD, nm, b, y) \/ (b = a0 /\ y = id0 /\ nm = n)
       /\ \A nm, b, y : Met(T_CM, nm, b, y)' <=> Met(T_CM, nm, b, y)
       /\ \A b, y : FirstSD(b, y)' <=> FirstSD(b, y)
       /\ \A b, y : LenOf(b, y)' = LenOf(b, y)
       /\ ~Met(T_SD, n, a0, id0)
  BY <1>2, <1>3, <1>4, TurnMeets DEF T_SD, T_CM
<1>12. Holds(G[k], n)'
  <2>1. HoldsSection(G[k], n)'
    <3>1. CsectOf(G[k])'
      BY <1>4 DEF CsectOf
    <3>2. Met(T_SD, n, a0, id0)' /\ FirstSD(a0, id0)'
      BY <1>9, <1>11
    <3>3. IsSection(G[k], <<a0, id0>>)'
      <4>1. O' = O /\ item = O[a0].loc[id0]
        BY <1>3, <1>4 DEF Turn, item
      <4> QED BY <1>4, <4>1 DEF IsSection, LocOf
    <3> QED BY <3>1, <3>2, <3>3 DEF HoldsSection
  <2>2. HoldsCommon(G[k], n)'
    BY <1>4 DEF HoldsCommon, CommonOf, T_SD, T_CM
  <2>3. HoldsLabel(G[k], n)' /\ HoldsReference(G[k], n)'
    BY <1>4 DEF HoldsLabel, HoldsReference, T_SD, T_LR, T_ER
  <2>4. (G[k].is_sect => G[k].type \in {T_SD, T_CM})'
    BY <1>4
  <2> QED BY <2>1, <2>2, <2>3, <2>4 DEF Holds
<1>13. DroppedAre'
  <2>0. <<a0, id0>> \notin dropped
    <3>1. \A d \in dropped : d[2] \in DOMAIN loc_g[d[1]]
      BY DEF Merged, DroppedAre
    <3>2. id0 \notin DOMAIN loc_g[a0]
      BY <1>5, <1>11 DEF Met
    <3> QED BY <3>1, <3>2
  <2>1. \A nm, b, y : Met(T_SD, nm, b, y)' => (<<b, y>> \in dropped' <=> ~FirstSD(b, y)')
    <3>1. \A nm, b, y : Met(T_SD, nm, b, y) => (<<b, y>> \in dropped <=> ~FirstSD(b, y))
      BY DEF Merged, DroppedAre
    <3> QED BY <1>4, <1>9, <1>11, <2>0, <3>1
  <2>2. \A d \in dropped' : d[2] \in DOMAIN loc_g'[d[1]]
    <3>1. \A d \in dropped : d[1] \in DOMAIN O /\ d[2] \in DOMAIN loc_g[d[1]]
      BY DEF Merged, DroppedAre, EsdType
    <3> QED BY <1>4, <3>1, Binding DEF Turn
  <2> QED BY <2>1, <2>2 DEF DroppedAre
<1>14. (ncomerr > 0 <=> OutgrownMet)'
  <2>0. ncomerr \in Nat /\ (ncomerr > 0 <=> OutgrownMet)
    BY DEF EsdType, Merged
  <2>1. OutgrownMet => OutgrownMet'
    BY <1>11 DEF OutgrownMet
  <2>2. ASSUME Had(k), CommonOf(G[k]), G[k].len > item.len
        PROVE  OutgrownMet'
    <3>1. PICK a, id : Met(T_CM, n, a, id) /\ LenOf(a, id) = G[k].len
      BY <1>6, <2>2 DEF Holds, HoldsCommon
    <3> QED BY <1>5, <1>9, <1>11, <2>2, <3>1 DEF OutgrownMet
  <2>3. ASSUME OutgrownMet', ~OutgrownMet
        PROVE  Had(k) /\ CommonOf(G[k]) /\ G[k].len > item.len
    <3>1. PICK nm, a, id, b, y : /\ Met(T_CM, nm, a, id)' /\ Met(T_SD, nm, b, y)' /\ FirstSD(b, y)'
                                 /\ LenOf(a, id)' > LenOf(b, y)'
      BY <2>3 DEF OutgrownMet
    <3>2. /\ Met(T_CM, nm, a, id) /\ FirstSD(b, y) /\ LenOf(a, id) > LenOf(b, y)
          /\ Met(T_SD, nm, b, y) \/ (b = a0 /\ y = id0 /\ nm = n)
      BY <1>11, <3>1
    <3>3. b = a0 /\ y = id0 /\ nm = n
      BY <2>3, <3>2 DEF OutgrownMet
    <3>4. Had(k)
      BY <1>7, <3>2, <3>3
    <3>5. G[k].is_sect /\ CommonOf(G[k]) /\ LenOf(a, id) <= G[k].len
      BY <1>4, <1>6, <3>2, <3>3, <3>4 DEF Holds, HoldsCommon, CsectOf, CommonOf
    <3>6. LenOf(a, id) \in Nat /\ item.len \in Nat /\ G[k].len \in Nat
      <4>1. LenOf(a, id) \in Nat /\ item.len \in Nat
        BY <1>4, <3>2, PlacesTyped, ItemTyped DEF Met
      <4>2. G[k] \in GSym
        BY <3>4 DEF EsdType, Had
      <4> QED BY <4>1, <4>2 DEF GSym
    <3> QED BY <1>5, <3>2, <3>3, <3>4, <3>5, <3>6
  <2> QED BY <1>4, <2>0, <2>1, <2>2, <2>3
<1>15. LongestMet'
  BY <1>11 DEF Merged, LongestMet
<1> QED
  BY <1>2, <1>4, <1>5, <1>10, <1>12, <1>13, <1>14, <1>15, TurnMerged

LEMMA ReferenceMerged ==
    ASSUME EsdType, Plain, Merged, Reference
    PROVE  Merged'
<1>1. PICK k : k = At
  OBVIOUS
<1>2. PICK n : n = item.name
  OBVIOUS
<1>3. PICK a0, id0 : a0 = i /\ id0 = j
  OBVIOUS
<1>4. /\ Turn(k) /\ AtLocal /\ item.type \in {T_ER, T_WX} /\ UNCHANGED <<dropped, ncomerr>>
      /\ OnlyOne(G, k, n) /\ (Had(k) => G[k].name = n)
      /\ Had(k) =>
            /\ G'[k].is_sect = G[k].is_sect /\ G'[k].len = G[k].len
            /\ G'[k].def_obj = G[k].def_obj /\ G'[k].in_addr = G[k].in_addr
            /\ G'[k].type = IF G[k].type = T_WX /\ item.type = T_ER THEN T_ER ELSE G[k].type
      /\ ~Had(k) => ~G'[k].is_sect /\ G'[k].type = item.type
  BY <1>1, <1>2, ItemTurns, ReferenceEffect DEF Reference, Touches, Extended, Had
<1>5. n # Blank
  BY <1>2, <1>3, <1>4, ItemNamed DEF T_ER, T_WX, T_PC
<1>6. Had(k) => Holds(G[k], n)
  BY <1>4, <1>5 DEF Merged, EntriesHold, Had
<1>7. ~Had(k) => (\A t, a, id : ~Met(t, n, a, id)) /\ (\A a, x : ~MetLd(n, a, x))
  BY <1>4, Unmet DEF OnlyOne, Had
<1>8. /\ \A nm, b, y : Met(T_SD, nm, b, y)' <=> Met(T_SD, nm, b, y)
      /\ \A nm, b, y : Met(T_CM, nm, b, y)' <=> Met(T_CM, nm, b, y)
      /\ \A nm, b, y : Met(T_ER, nm, b, y) => Met(T_ER, nm, b, y)'
      /\ \A b, y : FirstSD(b, y)' <=> FirstSD(b, y)
      /\ \A b, y : LenOf(b, y)' = LenOf(b, y)
      /\ item.type = T_ER => Met(T_ER, n, a0, id0)'
  BY <1>2, <1>3, <1>4, TurnMeets DEF T_SD, T_CM, T_ER, T_WX
<1>9. O' = O /\ OwnerKept(k)
  BY <1>4 DEF Turn
<1>10. Holds(G[k], n)'
  <2>1. HoldsSection(G[k], n)'
    <3>1. CASE Had(k)
      <4>1. CsectOf(G[k])' <=> CsectOf(G[k])
        BY <1>4, <3>1 DEF CsectOf, T_SD, T_WX, T_ER
      <4>2. \A a, id : CsectOf(G[k]) => (IsSection(G[k], <<a, id>>)' <=> IsSection(G[k], <<a, id>>))
        BY <1>4, <1>9, <3>1 DEF IsSection, LocOf, CsectOf, T_SD, T_WX, T_ER
      <4>3. HoldsSection(G[k], n)
        BY <1>6, <3>1 DEF Holds
      <4> QED BY <1>8, <4>1, <4>2, <4>3 DEF HoldsSection
    <3>2. CASE ~Had(k)
      <4>1. ~CsectOf(G[k])'
        BY <1>4, <3>2 DEF CsectOf
      <4> QED BY <1>7, <1>8, <3>2, <4>1 DEF HoldsSection
    <3> QED BY <3>1, <3>2
  <2>2. HoldsCommon(G[k], n)'
    <3>1. CASE Had(k)
      <4>1. (CommonOf(G[k])' <=> CommonOf(G[k])) /\ (G[k].is_sect)' = G[k].is_sect /\ (G[k].len)' = G[k].len
        BY <1>4, <3>1 DEF CommonOf, T_CM, T_WX, T_ER
      <4>2. HoldsCommon(G[k], n)
        BY <1>6, <3>1 DEF Holds
      <4> QED BY <1>8, <4>1, <4>2 DEF HoldsCommon
    <3>2. CASE ~Had(k)
      <4>1. ~CommonOf(G[k])'
        BY <1>4, <3>2 DEF CommonOf
      <4> QED BY <1>7, <1>8, <3>2, <4>1 DEF HoldsCommon
    <3> QED BY <3>1, <3>2
  <2>3. HoldsLabel(G[k], n)'
    <3> SUFFICES ASSUME G'[k].type = T_LR
                 PROVE  ~G'[k].is_sect /\ \E a, x : MetLd(n, a, x)' /\ FirstLd(n, a, x)' /\ IsLabel(G[k], <<a, x>>)'
      BY DEF HoldsLabel
    <3>1. Had(k) /\ G[k].type = T_LR
      BY <1>4 DEF T_LR, T_ER, T_WX
    <3>2. ~G[k].is_sect /\ \E a, x : MetLd(n, a, x) /\ FirstLd(n, a, x) /\ IsLabel(G[k], <<a, x>>)
      BY <1>6, <3>1 DEF Holds, HoldsLabel
    <3>3. PICK a, x : MetLd(n, a, x) /\ FirstLd(n, a, x) /\ IsLabel(G[k], <<a, x>>)
      BY <3>2
    <3>4. loc_g'[a][O[a].ld[x].len] = loc_g[a][O[a].ld[x].len]
      BY <1>4, <3>3, TurnMeets
    <3>5. IsLabel(G[k], <<a, x>>)'
      BY <1>4, <1>9, <3>1, <3>3, <3>4 DEF IsLabel, OwnerKept, Had
    <3>6. MetLd(n, a, x)' /\ FirstLd(n, a, x)'
      BY <1>4, <3>3, TurnMeets
    <3> QED BY <1>4, <3>1, <3>2, <3>5, <3>6
  <2>4. HoldsReference(G[k], n)'
    <3> SUFFICES ASSUME ~G'[k].is_sect, G'[k].type = T_ER
                 PROVE  \E a, id : Met(T_ER, n, a, id)'
      BY DEF HoldsReference
    <3>1. CASE item.type = T_ER
      BY <1>8, <3>1
    <3>2. CASE item.type # T_ER
      <4>1. Had(k) /\ ~G[k].is_sect /\ G[k].type = T_ER
        BY <1>4, <3>2
      <4> QED BY <1>6, <1>8, <4>1 DEF Holds, HoldsReference
    <3> QED BY <3>1, <3>2
  <2>5. (G[k].is_sect => G[k].type \in {T_SD, T_CM})'
    BY <1>4, <1>6 DEF Holds, T_SD, T_CM, T_WX
  <2> QED BY <2>1, <2>2, <2>3, <2>4, <2>5 DEF Holds
<1>11. DroppedAre' /\ (ncomerr > 0 <=> OutgrownMet)' /\ LongestMet'
  BY <1>4, CountsKept DEF T_ER, T_WX, T_SD, T_CM
<1>12. Had(k) /\ G[k].type = T_LR => G'[k].type = T_LR
  BY <1>4 DEF T_LR, T_WX
<1> QED
  BY <1>2, <1>4, <1>5, <1>10, <1>11, <1>12, TurnMerged

LEMMA CommonMerged ==
    ASSUME EsdType, Plain, NoMixed, Merged, Common
    PROVE  Merged'
<1>1. PICK k : k = At
  OBVIOUS
<1>2. PICK n : n = item.name
  OBVIOUS
<1>3. PICK a0, id0 : a0 = i /\ id0 = j
  OBVIOUS
<1>4. /\ Turn(k) /\ AtLocal /\ item.type = T_CM /\ dropped' = dropped
      /\ OnlyOne(G, k, n) /\ (Had(k) => G[k].name = n)
  BY <1>1, <1>2, ItemTurns, CommonEffect DEF Common, Touches, Extended, Had
<1>5. Had(k) /\ CsectOf(G[k]) =>
          /\ G'[k].is_sect = G[k].is_sect /\ G'[k].type = G[k].type /\ G'[k].len = G[k].len
          /\ G'[k].def_obj = G[k].def_obj /\ G'[k].in_addr = G[k].in_addr
          /\ ncomerr' = IF item.len > G[k].len THEN ncomerr + 1 ELSE ncomerr
  BY <1>1, CommonEffect
<1>6. ~(Had(k) /\ CsectOf(G[k])) =>
          /\ G'[k].is_sect /\ G'[k].type = T_CM
          /\ G'[k].len = IF Had(k) /\ CommonOf(G[k]) /\ G[k].len >= item.len THEN G[k].len ELSE item.len
          /\ ncomerr' = ncomerr
  BY <1>1, CommonEffect
<1>7. /\ n # Blank /\ Is(T_CM, n, a0, id0) /\ LenOf(a0, id0) = item.len /\ item.len \in Nat
  BY <1>2, <1>3, <1>4, ItemNamed, ItemTyped DEF T_CM, T_PC
<1>8. Had(k) => Holds(G[k], n) /\ G[k].len \in Nat
  <2>1. Had(k) => G[k] \in GSym
    BY DEF EsdType, Had
  <2> QED BY <1>4, <1>7, <2>1 DEF Merged, EntriesHold, Had, GSym
<1>9. ~Had(k) => (\A t, a, id : ~Met(t, n, a, id)) /\ (\A a, x : ~MetLd(n, a, x))
  BY <1>4, Unmet DEF OnlyOne, Had
<1>10. \A a, x : ~MetLd(n, a, x)
  BY <1>7, SectionAlone DEF MetLd
<1>11. /\ \A nm, b, y : Met(T_CM, nm, b, y)' <=> Met(T_CM, nm, b, y) \/ (b = a0 /\ y = id0 /\ nm = n)
       /\ \A nm, b, y : Met(T_SD, nm, b, y)' <=> Met(T_SD, nm, b, y)
       /\ \A b, y : FirstSD(b, y)' <=> FirstSD(b, y)
       /\ \A b, y : LenOf(b, y)' = LenOf(b, y)
  BY <1>2, <1>3, <1>4, TurnMeets DEF T_SD, T_CM
<1>12. \A nm, b, y : Met(T_CM, nm, b, y) => LenOf(b, y) \in Nat
  BY PlacesTyped DEF Met
<1>13. O' = O
  BY <1>4 DEF Turn
<1>14. Holds(G[k], n)'
  <2>1. CASE Had(k) /\ CsectOf(G[k])
    <3>1. CsectOf(G[k])'
      BY <1>5, <2>1 DEF CsectOf
    <3>2. HoldsSection(G[k], n)'
      <4>1. PICK a, id : Met(T_SD, n, a, id) /\ FirstSD(a, id) /\ IsSection(G[k], <<a, id>>)
        BY <1>8, <2>1 DEF Holds, HoldsSection
      <4>2. IsSection(G[k], <<a, id>>)'
        BY <1>5, <1>13, <2>1, <4>1 DEF IsSection, LocOf
      <4>3. Met(T_SD, n, a, id)' /\ FirstSD(a, id)'
        BY <1>11, <4>1
      <4> QED BY <3>1, <4>2, <4>3 DEF HoldsSection
    <3>3. HoldsCommon(G[k], n)' /\ HoldsLabel(G[k], n)' /\ HoldsReference(G[k], n)'
      BY <3>1 DEF HoldsCommon, HoldsLabel, HoldsReference, CsectOf, CommonOf, T_SD, T_CM, T_LR, T_ER
    <3> QED BY <3>1, <3>2, <3>3 DEF Holds, CsectOf
  <2>2. CASE ~(Had(k) /\ CsectOf(G[k]))
    <3>1. CommonOf(G[k])' /\ ~CsectOf(G[k])'
      BY <1>6, <2>2 DEF CommonOf, CsectOf, T_CM, T_SD
    <3>2. HoldsSection(G[k], n)'
      <4>1. \A a, id : ~Met(T_SD, n, a, id)
        BY <1>8, <1>9, <2>2 DEF Holds, HoldsSection
      <4> QED BY <1>11, <3>1, <4>1 DEF HoldsSection
    <3>3. HoldsCommon(G[k], n)'
      <4>1. \A a, id : Met(T_CM, n, a, id) => Had(k) /\ CommonOf(G[k]) /\ LenOf(a, id) <= G[k].len
        BY <1>8, <1>9, <2>2 DEF Holds, HoldsCommon, CsectOf, CommonOf
      <4>2. Had(k) /\ CommonOf(G[k]) => \E a, id : Met(T_CM, n, a, id) /\ LenOf(a, id) = G[k].len
        BY <1>8 DEF Holds, HoldsCommon
      <4>3. \A a, id : Met(T_CM, n, a, id)' => LenOf(a, id)' <= G'[k].len
        BY <1>6, <1>7, <1>8, <1>11, <1>12, <2>2, <4>1
      <4>4. \E a, id : Met(T_CM, n, a, id)' /\ LenOf(a, id)' = G'[k].len
        BY <1>6, <1>7, <1>11, <2>2, <4>2
      <4> QED BY <1>6, <2>2, <4>3, <4>4 DEF HoldsCommon
    <3>4. HoldsLabel(G[k], n)' /\ HoldsReference(G[k], n)'
      BY <1>6, <2>2 DEF HoldsLabel, HoldsReference, T_CM, T_LR, T_ER
    <3> QED BY <1>6, <2>2, <3>2, <3>3, <3>4 DEF Holds
  <2> QED BY <2>1, <2>2
<1>15. DroppedAre'
  <2>1. \A d \in dropped : d[1] \in DOMAIN O /\ d[2] \in DOMAIN loc_g[d[1]]
    BY DEF Merged, DroppedAre, EsdType
  <2>2. \A d \in dropped' : d[2] \in DOMAIN loc_g'[d[1]]
    BY <1>4, <2>1, Binding DEF Turn
  <2> QED BY <1>4, <1>11, <2>2 DEF Merged, DroppedAre
<1>16. (ncomerr > 0 <=> OutgrownMet)'
  <2>0. ncomerr \in Nat /\ (ncomerr > 0 <=> OutgrownMet)
    BY DEF EsdType, Merged
  <2>1. OutgrownMet => OutgrownMet'
    BY <1>11 DEF OutgrownMet
  <2>2. Had(k) /\ CsectOf(G[k]) => \E b, y : /\ Met(T_SD, n, b, y) /\ FirstSD(b, y)
                                             /\ LenOf(b, y) = G[k].len
    BY <1>8 DEF Holds, HoldsSection, IsSection, LocOf, LenOf
  <2>3. ASSUME Had(k), CsectOf(G[k]), item.len > G[k].len
        PROVE  OutgrownMet'
    BY <1>7, <1>11, <2>2, <2>3 DEF OutgrownMet
  <2>4. ASSUME OutgrownMet', ~OutgrownMet
        PROVE  Had(k) /\ CsectOf(G[k]) /\ item.len > G[k].len
    <3>1. PICK nm, a, id, b, y : /\ Met(T_CM, nm, a, id)' /\ Met(T_SD, nm, b, y)' /\ FirstSD(b, y)'
                                 /\ LenOf(a, id)' > LenOf(b, y)'
      BY <2>4 DEF OutgrownMet
    <3>2. /\ Met(T_SD, nm, b, y) /\ FirstSD(b, y) /\ LenOf(a, id) > LenOf(b, y)
          /\ a = a0 /\ id = id0 /\ nm = n
      BY <1>11, <2>4, <3>1 DEF OutgrownMet
    <3>3. Had(k) /\ CsectOf(G[k])
      BY <1>8, <1>9, <3>2 DEF Holds, HoldsSection
    <3>4. PICK c, z : Met(T_SD, n, c, z) /\ FirstSD(c, z) /\ LenOf(c, z) = G[k].len
      BY <2>2, <3>3
    <3>5. /\ b \in Nat /\ y \in Nat /\ c \in Nat /\ z \in Nat
          /\ O[b].loc[y].name = n /\ O[c].loc[z].name = n
          /\ Is(T_SD, n, b, y) /\ Is(T_SD, n, c, z)
      BY <3>2, <3>4, PlacesTyped DEF Met, Is
    <3>6. b = c /\ y = z
      BY <3>2, <3>4, <3>5 DEF FirstSD, Upto
    <3> QED BY <1>7, <3>2, <3>3, <3>4, <3>6
  <2> QED BY <1>5, <1>6, <2>0, <2>1, <2>3, <2>4
<1>17. LongestMet'
  <2> SUFFICES ASSUME NEW nm, \E a, id : Met(T_CM, nm, a, id)'
               PROVE  \E a, id : /\ Met(T_CM, nm, a, id)'
                                 /\ \A b, y : Met(T_CM, nm, b, y)' => LenOf(b, y)' <= LenOf(a, id)'
    BY DEF LongestMet
  <2>1. CASE \E a, id : Met(T_CM, nm, a, id)
    <3>1. PICK a, id : /\ Met(T_CM, nm, a, id)
                       /\ \A b, y : Met(T_CM, nm, b, y) => LenOf(b, y) <= LenOf(a, id)
      BY <2>1 DEF Merged, LongestMet
    <3>2. LenOf(a, id) \in Nat
      BY <1>12, <3>1
    <3>3. CASE nm # n
      BY <1>11, <3>1, <3>3
    <3>4. CASE nm = n /\ LenOf(a, id) >= item.len
      <4>1. \A b, y : Met(T_CM, nm, b, y)' => LenOf(b, y)' <= LenOf(a, id)'
        BY <1>7, <1>11, <3>1, <3>4
      <4> QED BY <1>11, <3>1, <4>1
    <3>5. CASE nm = n /\ ~(LenOf(a, id) >= item.len)
      <4>1. \A b, y : Met(T_CM, nm, b, y)' => LenOf(b, y)' <= LenOf(a0, id0)'
        BY <1>7, <1>11, <1>12, <3>1, <3>2, <3>5
      <4> QED BY <1>11, <3>5, <4>1
    <3> QED BY <3>3, <3>4, <3>5
  <2>2. CASE ~\E a, id : Met(T_CM, nm, a, id)
    BY <1>7, <1>11, <2>2
  <2> QED BY <2>1, <2>2
<1> QED
  BY <1>2, <1>4, <1>7, <1>10, <1>14, <1>15, <1>16, <1>17, TurnMerged

\* Steps that bind nothing: the items met stay the same, and only a turn of the
\* label loop passes a label.
LEMMA StillMet ==
    ASSUME UNCHANGED <<O, loc_g>>
    PROVE  /\ \A t, n, a, id : Met(t, n, a, id)' <=> Met(t, n, a, id)
           /\ \A a, id : LenOf(a, id)' = LenOf(a, id)
           /\ \A a, id : FirstSD(a, id)' <=> FirstSD(a, id)
           /\ \A n, a, x : IsLd(n, a, x)' <=> IsLd(n, a, x)
           /\ \A n, a, x : FirstLd(n, a, x)' <=> FirstLd(n, a, x)
<1>1. \A t, n, a, id : Is(t, n, a, id)' <=> Is(t, n, a, id)
  BY DEF Is
<1>2. \A p : KeptSection(p)' <=> KeptSection(p)
  BY DEF KeptSection, LocOf, Earliest, NotAfter, Items
<1>3. \A n, a, x : IsLd(n, a, x)' <=> IsLd(n, a, x)
  BY <1>2 DEF IsLd
<1> QED
  BY <1>1, <1>3 DEF Met, LenOf, FirstSD, FirstLd, Upto

LEMMA SameMixed ==
    ASSUME O' = O
    PROVE  NoMixed' <=> NoMixed
<1>1. \A t, n : Items(t, n)' = Items(t, n)
  BY DEF Items
<1>2. \A p : KeptSection(p)' <=> KeptSection(p)
  BY <1>1 DEF KeptSection, LocOf, Earliest, NotAfter
<1>3. \A n : Labels(n)' = Labels(n)
  BY <1>2 DEF Labels
<1> QED
  BY <1>1, <1>3 DEF NoMixed, Mixed

\* The labels the loop has passed.
LEMMA LabelsSeen ==
    ASSUME EsdType, O' = O,
           Unused \/ LocalsDone \/ LabelDropped \/ LabelAgain \/ FirstLabel \/ ObjectDone \/ Check,
           NEW a \in DOMAIN O, NEW x \in DOMAIN O[a].ld
    PROVE  SeenLd(a, x)' <=> SeenLd(a, x) \/ (AtLabel /\ a = i /\ x = j)
<1>1. O[a].ld \in Seq(EsdItem)
  BY DEF EsdType, Objects, IsObject
<1>2. /\ a \in Nat /\ a <= Len(O) /\ x \in Nat /\ x >= 1 /\ Len(O) \in Nat
      /\ i \in Nat /\ j \in Nat /\ j # 0 /\ DOMAIN O[a].ld = 1..Len(O[a].ld) /\ Len(O[a].ld) \in Nat
  BY <1>1 DEF EsdType, Objects
<1>3. CASE Unused \/ LocalsDone
  <2>1. pc = "loc" /\ i' = i /\ (pc' = "ld" => j' = 1)
    BY <1>3 DEF Unused, LocalsDone
  <2> QED BY <1>2, <2>1 DEF SeenLd, AtLabel
<1>4. CASE LabelDropped \/ LabelAgain \/ FirstLabel
  <2>1. AtLabel /\ pc = "ld" /\ i' = i /\ j' = j + 1 /\ pc' = pc
    BY <1>4 DEF LabelDropped, LabelAgain, FirstLabel, AtLabel
  <2> QED BY <1>2, <2>1 DEF SeenLd
<1>5. CASE ObjectDone
  <2>1. pc = "ld" /\ j \notin DOMAIN O[i].ld /\ i' = i + 1 /\ pc' = "loc"
    BY <1>5 DEF ObjectDone
  <2>2. a = i => x < j
    BY <1>1, <1>2, <2>1
  <2> QED BY <1>2, <2>1, <2>2 DEF SeenLd, AtLabel
<1>6. CASE Check
  <2>1. pc = "loc" /\ i > Len(O) /\ i' = i
    BY <1>6 DEF Check
  <2> QED BY <1>2, <2>1 DEF SeenLd, AtLabel
<1> QED
  BY <1>3, <1>4, <1>5, <1>6

LEMMA LabelsPassed ==
    ASSUME EsdType, UNCHANGED <<O, loc_g>>,
           Unused \/ LocalsDone \/ LabelDropped \/ LabelAgain \/ FirstLabel \/ ObjectDone \/ Check
    PROVE  \A n, a, x : MetLd(n, a, x)' <=>
               MetLd(n, a, x) \/ (AtLabel /\ IsLd(n, a, x) /\ a = i /\ x = j)
<1> SUFFICES ASSUME NEW n, NEW a, NEW x, IsLd(n, a, x)
             PROVE  SeenLd(a, x)' <=> SeenLd(a, x) \/ (AtLabel /\ a = i /\ x = j)
  BY StillMet DEF MetLd
<1>1. a \in DOMAIN O /\ x \in DOMAIN O[a].ld
  BY DEF IsLd
<1> QED
  BY <1>1, LabelsSeen

\* A label whose owner is not dropped is one of Labels, and the other way round.
LEMMA LabelKept ==
    ASSUME EsdType, Merged, AtLabel
    PROVE  IsLd(label.name, i, j) <=> ~OwnerDropped
<1>1. /\ i \in DOMAIN O /\ j \in DOMAIN O[i].ld /\ OwnerKnown /\ label.len \in DOMAIN O[i].loc
      /\ label.len \in DOMAIN loc_g[i] /\ label = O[i].ld[j]
  BY LabelTyped DEF label
<1>2. IsLd(label.name, i, j) <=> KeptSection(<<i, label.len>>)
  BY <1>1 DEF IsLd
<1>3. CASE O[i].loc[label.len].type = T_SD
  <2>1. PICK n : Met(T_SD, n, i, label.len)
    BY <1>1, <1>3 DEF Met, Is
  <2>2. KeptSection(<<i, label.len>>) <=> FirstSD(i, label.len)
    BY <2>1, KeptIs DEF Met
  <2>3. <<i, label.len>> \in dropped <=> ~FirstSD(i, label.len)
    BY <2>1 DEF Merged, DroppedAre
  <2> QED BY <1>1, <1>2, <2>2, <2>3 DEF OwnerDropped
<1>4. CASE O[i].loc[label.len].type # T_SD
  <2>1. KeptSection(<<i, label.len>>)
    BY <1>4 DEF KeptSection, LocOf
  <2>2. <<i, label.len>> \notin dropped
    BY <1>4 DEF EsdType
  <2> QED BY <1>2, <2>1, <2>2 DEF OwnerDropped
<1> QED
  BY <1>3, <1>4

\* A step that leaves the table, when every label it passes has its entry.
LEMMA KeepsMerged ==
    ASSUME Merged, UNCHANGED <<O, G, loc_g, dropped, ncomerr>>,
           \A n, a, x : MetLd(n, a, x) => MetLd(n, a, x)',
           \A n, a, x : MetLd(n, a, x)' /\ ~MetLd(n, a, x) =>
               \E k \in DOMAIN G : G[k].name = n /\ G[k].type = T_LR
    PROVE  Merged'
<1>1. OneEntry' /\ LabelsIn'
  BY DEF Merged, OneEntry, LabelsIn
<1>2. EntriesHold'
  <2> SUFFICES ASSUME NEW k \in DOMAIN G, G[k].name # Blank
               PROVE  Holds(G[k], G[k].name)'
    BY DEF EntriesHold
  <2>1. PICK n : n = G[k].name
    OBVIOUS
  <2>2. (G[k].name)' = n
    BY <2>1
  <2>3. Holds(G[k], n)
    BY <2>1 DEF Merged, EntriesHold
  <2>4. HoldsSection(G[k], n)'
    <3>1. \A a, id : IsSection(G[k], <<a, id>>)' <=> IsSection(G[k], <<a, id>>)
      BY DEF IsSection, LocOf
    <3> QED BY <2>3, <3>1, StillMet DEF Holds, HoldsSection, CsectOf
  <2>5. HoldsCommon(G[k], n)'
    BY <2>3, StillMet DEF Holds, HoldsCommon, CommonOf
  <2>6. HoldsLabel(G[k], n)'
    <3>1. \A a, x : IsLabel(G[k], <<a, x>>)' <=> IsLabel(G[k], <<a, x>>)
      BY DEF IsLabel
    <3> QED BY <2>3, <3>1, StillMet DEF Holds, HoldsLabel
  <2>7. HoldsReference(G[k], n)'
    BY <2>3, StillMet DEF Holds, HoldsReference
  <2>8. Holds(G[k], n)'
    BY <2>3, <2>4, <2>5, <2>6, <2>7 DEF Holds
  <2> QED BY <2>2, <2>8
<1>3. DroppedAre'
  BY StillMet DEF Merged, DroppedAre
<1>4. OutgrownMet' <=> OutgrownMet
  BY StillMet DEF OutgrownMet
<1>5. LongestMet'
  BY StillMet DEF Merged, LongestMet
<1> QED
  BY <1>1, <1>2, <1>3, <1>4, <1>5 DEF Merged

LEMMA MoveMerged ==
    ASSUME EsdType, Merged,
           Unused \/ LocalsDone \/ LabelDropped \/ LabelAgain \/ ObjectDone \/ Check
    PROVE  Merged'
<1>1. UNCHANGED <<O, G, loc_g, dropped, ncomerr>>
  BY TableKept
<1>2. \A n, a, x : MetLd(n, a, x)' <=>
          MetLd(n, a, x) \/ (AtLabel /\ IsLd(n, a, x) /\ a = i /\ x = j)
  BY <1>1, LabelsPassed
<1>3. ASSUME NEW n, NEW a, NEW x, MetLd(n, a, x)', ~MetLd(n, a, x)
      PROVE  \E k \in DOMAIN G : G[k].name = n /\ G[k].type = T_LR
  <2>1. AtLabel /\ IsLd(n, i, j)
    BY <1>2, <1>3
  <2>2. n = label.name /\ pc = "ld" /\ j \in DOMAIN O[i].ld
    BY <2>1 DEF IsLd, label, AtLabel
  <2>3. ~OwnerDropped
    BY <2>1, <2>2, LabelKept
  <2>4. LabelAgain
    BY <2>2, <2>3 DEF Unused, LocalsDone, LabelDropped, ObjectDone, Check
  <2> QED BY <2>2, <2>4, LabelAgainEffect DEF Had
<1> QED
  BY <1>1, <1>2, <1>3, KeepsMerged

LEMMA LabelMerged ==
    ASSUME EsdType, Plain, NoMixed, Sound, Merged, FirstLabel
    PROVE  Merged'
<1>1. PICK k : k = LAt
  OBVIOUS
<1>2. PICK n : n = label.name
  OBVIOUS
<1>3. PICK a0, x0 : a0 = i /\ x0 = j
  OBVIOUS
<1>4. AtLabel /\ ~OwnerDropped /\ UNCHANGED <<O, loc_g, dropped, ncomerr>>
  BY DEF FirstLabel
<1>5. /\ OnlyOne(G, k, n) /\ DOMAIN G' = DOMAIN G \cup {k} /\ (Had(k) => G[k].name = n)
      /\ \A m \in DOMAIN G : m # k => G'[m] = G[m]
      /\ G'[k].name = n /\ k \in DOMAIN G'
      /\ ~(Had(k) /\ G[k].type = T_LR /\ G[k].owner # NoSym)
      /\ G'[k].type = T_LR /\ G'[k].owner = loc_g[a0][O[a0].ld[x0].len]
      /\ G'[k].in_addr = O[a0].ld[x0].addr - O[a0].loc[O[a0].ld[x0].len].addr
      /\ (Had(k) => G'[k].is_sect = G[k].is_sect) /\ (~Had(k) => ~G'[k].is_sect)
  BY <1>1, <1>2, <1>3, FirstLabelEffect DEF Touches, Extended, Had, label
<1>6. IsLd(n, a0, x0)
  BY <1>2, <1>3, <1>4, LabelKept
<1>7. n # Blank
  BY <1>6 DEF IsLd, Plain, PrivateIsBlank
<1>8. Had(k) => Holds(G[k], n)
  BY <1>5, <1>7 DEF Merged, EntriesHold, Had
<1>9. /\ \A a, id : ~Met(T_SD, n, a, id)
      /\ \A a, id : ~Met(T_CM, n, a, id)
  BY <1>6, SectionAlone DEF Met
<1>10. ~G'[k].is_sect
  BY <1>5, <1>8, <1>9 DEF Holds, HoldsSection, HoldsCommon, CsectOf, CommonOf
<1>11. \A a, x : ~MetLd(n, a, x)
  <2>1. CASE ~Had(k)
    BY <1>5, <2>1, Unmet DEF OnlyOne, Had
  <2>2. CASE Had(k)
    <3>1. G[k].type # T_LR
      BY <1>5, <2>2 DEF Sound, EsdType, NoSym, Had
    <3>2. \A m \in DOMAIN G : G[m].name = n => m = k
      BY <1>5, <1>7, <2>2 DEF Merged, OneEntry, Had
    <3> QED BY <3>1, <3>2 DEF Merged, LabelsIn
  <2> QED BY <2>1, <2>2
<1>12. \A nm, a, x : MetLd(nm, a, x)' <=> MetLd(nm, a, x) \/ (nm = n /\ a = a0 /\ x = x0)
  <2>1. \A nm, a, x : MetLd(nm, a, x)' <=>
            MetLd(nm, a, x) \/ (AtLabel /\ IsLd(nm, a, x) /\ a = i /\ x = j)
    BY <1>4, LabelsPassed
  <2>2. \A nm : IsLd(nm, a0, x0) => nm = n
    BY <1>6 DEF IsLd
  <2> QED BY <1>3, <1>4, <1>6, <2>1, <2>2
<1>13. FirstLd(n, a0, x0)
  <2> SUFFICES ASSUME NEW b, NEW y, IsLd(n, b, y) PROVE Upto(a0, x0, b, y)
    BY DEF FirstLd
  <2>1. ~SeenLd(b, y)
    BY <1>11 DEF MetLd
  <2>2. /\ b \in DOMAIN O /\ y \in DOMAIN O[b].ld /\ O[b].ld \in Seq(EsdItem)
    BY DEF IsLd, EsdType, Objects, IsObject
  <2>3. b \in Nat /\ y \in Nat /\ i \in Nat /\ j \in Nat
    BY <2>2 DEF EsdType, Objects
  <2> QED BY <1>3, <1>4, <2>1, <2>3 DEF SeenLd, Upto, AtLabel
<1>14. \A m \in DOMAIN G : m # k => G[m].name # n
  <2>1. CASE k \in DOMAIN G
    BY <1>5, <1>7, <2>1 DEF Merged, OneEntry, Had
  <2>2. CASE k \notin DOMAIN G
    BY <1>5, <2>2 DEF OnlyOne
  <2> QED BY <2>1, <2>2
<1>15. OneEntry'
  <2>1. \A l, m \in DOMAIN G' : G'[l].name = G'[m].name /\ G'[l].name # Blank => l = m
    BY <1>5, <1>14 DEF Merged, OneEntry
  <2>2. \A m \in DOMAIN G' : G'[m].name = Blank => G'[m].is_sect
    BY <1>5, <1>7 DEF Merged, OneEntry
  <2>3. \A a \in DOMAIN O : \A id \in DOMAIN loc_g[a] : G'[loc_g[a][id]].name = O[a].loc[id].name
    <3> SUFFICES ASSUME NEW a \in DOMAIN O, NEW id \in DOMAIN loc_g[a]
                 PROVE  G'[loc_g[a][id]].name = O[a].loc[id].name
      OBVIOUS
    <3>1. loc_g[a][id] \in DOMAIN G /\ G[loc_g[a][id]].name = O[a].loc[id].name
      BY DEF Merged, OneEntry, EsdType
    <3> QED BY <1>5, <3>1 DEF Had
  <2> QED BY <1>4, <2>1, <2>2, <2>3 DEF OneEntry
<1>16. LabelsIn'
  <2> SUFFICES ASSUME NEW nm, NEW a, NEW x, MetLd(nm, a, x)'
               PROVE  \E m \in DOMAIN G' : G'[m].name = nm /\ G'[m].type = T_LR
    BY DEF LabelsIn
  <2>1. CASE nm = n
    BY <1>5, <2>1
  <2>2. CASE nm # n
    <3>1. PICK m \in DOMAIN G : G[m].name = nm /\ G[m].type = T_LR
      BY <1>12, <2>2 DEF Merged, LabelsIn
    <3> QED BY <1>5, <2>2, <3>1 DEF Had
  <2> QED BY <2>1, <2>2
<1>17. Holds(G[k], n)'
  <2>1. HoldsSection(G[k], n)' /\ HoldsCommon(G[k], n)'
    BY <1>4, <1>9, <1>10, StillMet DEF HoldsSection, HoldsCommon, CsectOf, CommonOf
  <2>2. HoldsReference(G[k], n)'
    BY <1>5 DEF HoldsReference, T_LR, T_ER
  <2>3. HoldsLabel(G[k], n)'
    <3>1. IsLabel(G[k], <<a0, x0>>)'
      BY <1>4, <1>5, <1>10 DEF IsLabel
    <3>2. MetLd(n, a0, x0)' /\ FirstLd(n, a0, x0)'
      BY <1>4, <1>12, <1>13, StillMet
    <3> QED BY <1>10, <3>1, <3>2 DEF HoldsLabel
  <2> QED BY <1>10, <2>1, <2>2, <2>3 DEF Holds
<1>18. EntriesHold'
  <2> SUFFICES ASSUME NEW m \in DOMAIN G', G'[m].name # Blank
               PROVE  Holds(G[m], G[m].name)'
    BY DEF EntriesHold
  <2>1. CASE m = k
    <3>1. (G[k].name)' = n
      BY <1>5
    <3> QED BY <1>17, <2>1, <3>1
  <2>2. CASE m # k
    <3>1. m \in DOMAIN G /\ G'[m] = G[m]
      BY <1>5, <2>2
    <3>2. PICK nm : nm = G[m].name
      OBVIOUS
    <3>3. Holds(G[m], nm)
      BY <3>1, <3>2 DEF Merged, EntriesHold
    <3>4. HoldsSection(G[m], nm)'
      <4>1. \A a, id : IsSection(G[m], <<a, id>>)' <=> IsSection(G[m], <<a, id>>)
        BY <1>4, <3>1 DEF IsSection, LocOf
      <4> QED BY <1>4, <3>1, <3>3, <4>1, StillMet DEF Holds, HoldsSection, CsectOf
    <3>5. HoldsCommon(G[m], nm)'
      BY <1>4, <3>1, <3>3, StillMet DEF Holds, HoldsCommon, CommonOf
    <3>6. HoldsLabel(G[m], nm)'
      <4>1. \A a, x : IsLabel(G[m], <<a, x>>)' <=> IsLabel(G[m], <<a, x>>)
        BY <1>4, <3>1 DEF IsLabel
      <4> QED BY <1>4, <1>12, <3>1, <3>3, <4>1, StillMet DEF Holds, HoldsLabel
    <3>7. HoldsReference(G[m], nm)'
      BY <1>4, <3>1, <3>3, StillMet DEF Holds, HoldsReference
    <3>8. Holds(G[m], nm)'
      BY <3>1, <3>3, <3>4, <3>5, <3>6, <3>7 DEF Holds
    <3>9. (G[m].name)' = nm
      BY <3>1, <3>2
    <3> QED BY <3>8, <3>9
  <2> QED BY <2>1, <2>2
<1>19. DroppedAre'
  BY <1>4, StillMet DEF Merged, DroppedAre
<1>20. OutgrownMet' <=> OutgrownMet
  BY <1>4, StillMet DEF OutgrownMet
<1>21. LongestMet'
  BY <1>4, StillMet DEF Merged, LongestMet
<1> QED
  BY <1>4, <1>15, <1>16, <1>18, <1>19, <1>20, <1>21 DEF Merged

\* Every turn keeps the table's meaning.
LEMMA StepMerged ==
    ASSUME EsdType, Plain, NoMixed, Sound, Merged, EsdStep
    PROVE  Merged'
  BY PrivateMerged, DuplicateMerged, FirstMerged, CommonMerged, ReferenceMerged, LabelMerged,
     MoveMerged DEF EsdStep

\* PASS 2 begins with an empty table.
LEMMA StartsMerged ==
    ASSUME Objects, G = << >>, loc_g = [k \in DOMAIN O |-> << >>], dropped = {},
           i = 1, j = 1, pc = "loc", ncomerr = 0, nwarn \in Nat
    PROVE  EsdType /\ Sound /\ Merged
<1>1. \A a \in DOMAIN O : DOMAIN loc_g[a] = {}
  OBVIOUS
<1>2. \A a \in DOMAIN O : \A id \in DOMAIN O[a].loc : ~SeenLoc(a, id)
  <2> SUFFICES ASSUME NEW a \in DOMAIN O, NEW id \in DOMAIN O[a].loc
               PROVE  ~SeenLoc(a, id)
    OBVIOUS
  <2>1. id \in 1..(MAXESD - 1) /\ a \in 1..Len(O) /\ Len(O) \in Nat
    BY DEF Objects, IsObject
  <2> QED BY <2>1, MaxEsdAssumption DEF SeenLoc
<1>3. G \in Seq(GSym) /\ DOMAIN G = {}
  OBVIOUS
<1>4. EsdType
  BY <1>1, <1>2, <1>3 DEF EsdType, Objects, Done
<1>5. Sound
  BY <1>1, <1>3 DEF Sound, Verdict
<1>6. \A t, n, a, id : ~Met(t, n, a, id)
  BY <1>1 DEF Met, Is
<1>7. \A n, a, x : ~MetLd(n, a, x)
  BY DEF MetLd, SeenLd, IsLd, Objects
<1>8. Merged
  BY <1>1, <1>3, <1>6, <1>7
     DEF Merged, OneEntry, LabelsIn, EntriesHold, DroppedAre, OutgrownMet, LongestMet
<1> QED
  BY <1>4, <1>5, <1>8

(***************************************************************************)
(* The end of PASS 2: everything is met.                                   *)
(***************************************************************************)
LEMMA AllMet ==
    ASSUME EsdType, Done
    PROVE  /\ \A t, n, a, id : Met(t, n, a, id) <=> Is(t, n, a, id)
           /\ \A n, a, x : MetLd(n, a, x) <=> IsLd(n, a, x)
<1>1. \A a \in DOMAIN O : a < i
  BY DEF EsdType, Objects
<1>2. ASSUME NEW t, NEW n, NEW a, NEW id, Is(t, n, a, id) PROVE Met(t, n, a, id)
  BY <1>1, <1>2 DEF EsdType, SeenLoc, Is, Met
<1>3. \A n, a, x : IsLd(n, a, x) => MetLd(n, a, x)
  BY <1>1 DEF IsLd, MetLd, SeenLd
<1> QED
  BY <1>2, <1>3 DEF Met, MetLd

\* The entry g_find returns is the name's.
LEMMA EntryOf ==
    ASSUME EsdType, Merged, NEW n, n # Blank, NEW k \in DOMAIN G, G[k].name = n
    PROVE  g_find(G, n) = k /\ Holds(G[k], n)
<1>1. G \in Seq(GSym) /\ NoSym \notin DOMAIN G
  BY DEF EsdType, NoSym
<1>2. g_find(G, n) \in DOMAIN G /\ G[g_find(G, n)].name = n
  BY <1>1, Find
<1> QED
  BY <1>2 DEF Merged, OneEntry, EntriesHold

\* An item or label met has its name's entry.
LEMMA MetHas ==
    ASSUME EsdType, Plain, Merged, NEW n
    PROVE  /\ \A t, a, id : Met(t, n, a, id) /\ t # T_PC =>
                  n # Blank /\ \E k \in DOMAIN G : G[k].name = n /\ k = loc_g[a][id]
           /\ \A a, x : MetLd(n, a, x) =>
                  n # Blank /\ \E k \in DOMAIN G : G[k].name = n /\ G[k].type = T_LR
<1>1. ASSUME NEW t, NEW a, NEW id, Met(t, n, a, id), t # T_PC
      PROVE  n # Blank /\ \E k \in DOMAIN G : G[k].name = n /\ k = loc_g[a][id]
  <2>1. a \in DOMAIN O /\ id \in DOMAIN O[a].loc /\ id \in DOMAIN loc_g[a] /\ O[a].loc[id].name = n
    BY <1>1 DEF Met, Is
  <2>2. n # Blank
    BY <1>1, <2>1 DEF Plain, PrivateIsBlank, Met, Is
  <2>3. loc_g[a][id] \in DOMAIN G /\ G[loc_g[a][id]].name = n
    BY <2>1 DEF EsdType, Merged, OneEntry
  <2> QED BY <2>2, <2>3
<1>2. ASSUME NEW a, NEW x, MetLd(n, a, x)
      PROVE  n # Blank /\ \E k \in DOMAIN G : G[k].name = n /\ G[k].type = T_LR
  BY <1>2 DEF MetLd, IsLd, Plain, PrivateIsBlank, Merged, LabelsIn
<1> QED
  BY <1>1, <1>2

\* Earliest is the first place there is.
LEMMA EarliestSection ==
    ASSUME EsdType, NEW n, NEW a, NEW id, Is(T_SD, n, a, id), FirstSD(a, id)
    PROVE  Earliest(Items(T_SD, n)) = <<a, id>>
<1>1. KeptSection(<<a, id>>)
  BY KeptIs
<1> QED
  BY <1>1 DEF KeptSection, LocOf, Is

LEMMA EarliestLabel ==
    ASSUME EsdType, NEW n, NEW a, NEW x, IsLd(n, a, x), FirstLd(n, a, x)
    PROVE  Earliest(Labels(n)) = <<a, x>>
<1> DEFINE S == Labels(n)
<1>1. <<a, x>> \in S
  BY InLabels
<1>2. S \subseteq Nat \X Nat
  <2> SUFFICES ASSUME NEW p \in S PROVE p \in Nat \X Nat
    OBVIOUS
  <2>1. p = <<p[1], p[2]>> /\ IsLd(n, p[1], p[2])
    BY InLabels
  <2>2. p[1] \in DOMAIN O /\ p[2] \in DOMAIN O[p[1]].ld /\ O[p[1]].ld \in Seq(EsdItem)
    BY <2>1 DEF IsLd, EsdType, Objects, IsObject
  <2>3. p[1] \in Nat /\ p[2] \in Nat
    BY <2>2 DEF EsdType, Objects
  <2> QED BY <2>1, <2>3
<1>3. \A q \in S : NotAfter(<<a, x>>, q)
  BY InLabels DEF FirstLd, Upto, NotAfter
<1> HIDE DEF S
<1>4. <<a, x>> = Earliest(S)
  BY <1>1, <1>2, <1>3, EarliestIs
<1> QED
  BY <1>4 DEF S

LEMMA MergedKeeps ==
    ASSUME EsdType, Plain, Merged
    PROVE  FirstKept
<1> SUFFICES ASSUME Done, NoMixed
             PROVE  /\ \A name \in Names : FirstWins(name)
                    /\ dropped = UNION {{p \in Items(T_SD, name) : ~KeptSection(p)} : name \in Names}
  BY DEF FirstKept, NoMixed
<1>1. ASSUME NEW n \in Names PROVE FirstWins(n)
  <2> DEFINE S == Items(T_SD, n)
             L == Labels(n)
             g == G[g_find(G, n)]
  <2>1. CASE S # {}
    <3>1. PICK a, id : Is(T_SD, n, a, id)
      BY <2>1, InItems
    <3>2. Met(T_SD, n, a, id) /\ L = {}
      BY <3>1, AllMet, SectionAlone, InLabels
    <3>3. PICK k \in DOMAIN G : G[k].name = n /\ n # Blank
      BY <3>2, MetHas DEF T_SD, T_PC
    <3>4. g = G[k] /\ Holds(g, n)
      BY <3>3, EntryOf
    <3> HIDE DEF g
    <3>5. PICK b, y : Met(T_SD, n, b, y) /\ FirstSD(b, y) /\ IsSection(g, <<b, y>>)
      BY <3>2, <3>4 DEF Holds, HoldsSection
    <3>6. IsSection(g, Earliest(S))
      BY <3>5, EarliestSection DEF Met
    <3> QED BY <2>1, <3>2, <3>6 DEF FirstWins, g
  <2>2. CASE S = {} /\ L # {}
    <3>1. PICK a, x : IsLd(n, a, x)
      BY <2>2, InLabels
    <3>2. PICK k \in DOMAIN G : G[k].name = n /\ G[k].type = T_LR /\ n # Blank
      BY <3>1, AllMet, MetHas
    <3>3. g = G[k] /\ Holds(g, n) /\ g.type = T_LR
      BY <3>2, EntryOf
    <3> HIDE DEF g
    <3>4. PICK b, y : MetLd(n, b, y) /\ FirstLd(n, b, y) /\ IsLabel(g, <<b, y>>)
      BY <3>3 DEF Holds, HoldsLabel
    <3>5. IsLabel(g, Earliest(L))
      BY <3>4, EarliestLabel DEF MetLd
    <3> QED BY <2>2, <3>5 DEF FirstWins, g
  <2>3. CASE S = {} /\ L = {}
    BY <2>3 DEF FirstWins
  <2> QED BY <2>1, <2>2, <2>3
<1>2. \A n, a, id : Is(T_SD, n, a, id) => (<<a, id>> \in dropped <=> ~KeptSection(<<a, id>>))
  BY AllMet, KeptIs DEF Merged, DroppedAre
<1>3. ASSUME NEW d \in dropped
      PROVE  \E name \in Names : d \in Items(T_SD, name) /\ ~KeptSection(d)
  <2>1. /\ d = <<d[1], d[2]>> /\ Is(T_SD, O[d[1]].loc[d[2]].name, d[1], d[2])
    BY DEF EsdType, Is
  <2>2. PICK n : n = O[d[1]].loc[d[2]].name
    OBVIOUS
  <2>3. n \in Names /\ d \in Items(T_SD, n)
    BY <2>1, <2>2, PlacesTyped, InItems
  <2> QED BY <1>2, <2>1, <2>3
<1>4. ASSUME NEW n \in Names, NEW p \in Items(T_SD, n), ~KeptSection(p)
      PROVE  p \in dropped
  BY <1>2, <1>4, InItems
<1> QED
  BY <1>1, <1>3, <1>4

\* OutgrownMet, read off the objects.
LEMMA OutgrownIs ==
    ASSUME EsdType, Plain, Merged, Done, NoMixed
    PROVE  OutgrownMet <=> \E name \in Names : Outgrown(name)
<1>0. /\ \A t, n, a, id : Met(t, n, a, id) <=> Is(t, n, a, id)
  BY AllMet
<1>1. ASSUME NEW n, NEW a, NEW id, Is(T_CM, n, a, id)
      PROVE  /\ \E b, y : Is(T_CM, n, b, y) /\ Longest(Items(T_CM, n)) = LenOf(b, y)
             /\ \A b, y : Is(T_CM, n, b, y) => LenOf(b, y) <= Longest(Items(T_CM, n))
  <2> DEFINE S == Items(T_CM, n)
             V == {LocOf(p).len : p \in S}
  <2>1. PICK c, z : /\ Is(T_CM, n, c, z)
                    /\ \A b, y : Is(T_CM, n, b, y) => LenOf(b, y) <= LenOf(c, z)
    BY <1>0, <1>1 DEF Merged, LongestMet
  <2>2. \A p \in S : LocOf(p).len = LenOf(p[1], p[2])
    BY DEF LocOf, LenOf
  <2>3. <<c, z>> \in S
    BY <2>1, InItems
  <2>4. LocOf(<<c, z>>).len = LenOf(c, z)
    BY DEF LocOf, LenOf
  <2>5. LenOf(c, z) \in V /\ \A p \in S : LocOf(p).len <= LenOf(c, z)
    BY <2>1, <2>2, <2>3, <2>4, InItems
  <2> DEFINE m == Longest(S)
  <2>6. m = CHOOSE len \in V : \A p \in S : LocOf(p).len <= len
    BY DEF Longest
  <2>7. m \in V /\ \A p \in S : LocOf(p).len <= m
    BY <2>5, <2>6
  <2>8. PICK q \in S : m = LocOf(q).len
    BY <2>7
  <2>9. Is(T_CM, n, q[1], q[2]) /\ m = LenOf(q[1], q[2])
    BY <2>2, <2>8, InItems
  <2>10. \A b, y : Is(T_CM, n, b, y) => LenOf(b, y) <= m
    <3> SUFFICES ASSUME NEW b, NEW y, Is(T_CM, n, b, y) PROVE LenOf(b, y) <= m
      OBVIOUS
    <3>1. <<b, y>> \in S
      BY InItems
    <3>2. LocOf(<<b, y>>).len <= m
      BY <2>7, <3>1
    <3> QED BY <3>2 DEF LocOf, LenOf
  <2> QED BY <2>9, <2>10
<1>2. ASSUME NEW n, NEW b, NEW y, Is(T_SD, n, b, y)
      PROVE  \E c, z : /\ Is(T_SD, n, c, z) /\ FirstSD(c, z)
                       /\ LocOf(Earliest(Items(T_SD, n))).len = LenOf(c, z)
  <2>1. PICK k \in DOMAIN G : G[k].name = n /\ n # Blank
    BY <1>0, <1>2, MetHas DEF T_SD, T_PC
  <2>2. PICK c, z : Is(T_SD, n, c, z) /\ FirstSD(c, z)
    BY <1>0, <1>2, <2>1, EntryOf DEF Holds, HoldsSection
  <2>3. Earliest(Items(T_SD, n)) = <<c, z>>
    BY <2>2, EarliestSection
  <2> QED BY <2>2, <2>3 DEF LocOf, LenOf
<1>3. ASSUME OutgrownMet PROVE \E name \in Names : Outgrown(name)
  <2>1. PICK n, a, id, b, y : /\ Is(T_CM, n, a, id) /\ Is(T_SD, n, b, y) /\ FirstSD(b, y)
                              /\ LenOf(a, id) > LenOf(b, y)
    BY <1>0, <1>3 DEF OutgrownMet
  <2>2. Earliest(Items(T_SD, n)) = <<b, y>>
    BY <2>1, EarliestSection
  <2>3. LocOf(Earliest(Items(T_SD, n))).len = LenOf(b, y)
    BY <2>2 DEF LocOf, LenOf
  <2>4. Items(T_SD, n) # {} /\ Items(T_CM, n) # {} /\ n \in Names
    BY <2>1, InItems, PlacesTyped
  <2>5. PICK c, z : Is(T_CM, n, c, z) /\ Longest(Items(T_CM, n)) = LenOf(c, z)
    BY <1>1, <2>1
  <2>6. LenOf(a, id) <= LenOf(c, z) /\ LenOf(a, id) \in Nat /\ LenOf(b, y) \in Nat /\ LenOf(c, z) \in Nat
    BY <1>1, <2>1, <2>5, PlacesTyped
  <2> QED BY <2>1, <2>3, <2>4, <2>5, <2>6 DEF Outgrown
<1>4. ASSUME NEW n \in Names, Outgrown(n) PROVE OutgrownMet
  <2>1. PICK a, id : Is(T_CM, n, a, id)
    BY <1>4, InItems DEF Outgrown
  <2>2. PICK b, y : Is(T_SD, n, b, y)
    BY <1>4, InItems DEF Outgrown
  <2>3. PICK c, z : Is(T_CM, n, c, z) /\ Longest(Items(T_CM, n)) = LenOf(c, z)
    BY <1>1, <2>1
  <2>4. PICK e, w : /\ Is(T_SD, n, e, w) /\ FirstSD(e, w)
                    /\ LocOf(Earliest(Items(T_SD, n))).len = LenOf(e, w)
    BY <1>2, <2>2
  <2> QED BY <1>0, <1>4, <2>3, <2>4 DEF Outgrown, OutgrownMet
<1> QED
  BY <1>3, <1>4

LEMMA MergedRefuses ==
    ASSUME EsdType, Plain, Sound, Merged
    PROVE  RefusalExact
<1> SUFFICES ASSUME Done, NoMixed
             PROVE  pc = "failed" <=> \E name \in Names :
                        Outgrown(name) \/ (~AllowUnresolved /\ Undefined(name))
  BY DEF RefusalExact, NoMixed
<1>0. /\ \A t, n, a, id : Met(t, n, a, id) <=> Is(t, n, a, id)
      /\ \A n, a, x : MetLd(n, a, x) <=> IsLd(n, a, x)
  BY AllMet
<1>1. pc = "failed" <=> Refused
  BY DEF Done, Sound, Verdict
<1>2. ncomerr > 0 <=> \E name \in Names : Outgrown(name)
  BY OutgrownIs DEF Merged
<1>3. ASSUME NEW n \in Names, Undefined(n)
      PROVE  \E k \in DOMAIN G : Unresolved(G[k])
  <2>1. PICK a, id : Met(T_ER, n, a, id)
    BY <1>0, <1>3, InItems DEF Undefined
  <2>2. PICK k \in DOMAIN G : G[k].name = n /\ k = loc_g[a][id] /\ n # Blank
    BY <2>1, MetHas DEF T_ER, T_PC
  <2>3. Holds(G[k], n)
    BY <2>2, EntryOf
  <2>4. /\ \A b, y : ~Met(T_SD, n, b, y) /\ ~Met(T_CM, n, b, y)
        /\ \A b, x : ~MetLd(n, b, x)
    BY <1>0, <1>3, InItems, InLabels DEF Undefined
  <2>5. ~G[k].is_sect /\ G[k].type # T_LR
    BY <2>3, <2>4 DEF Holds, HoldsSection, HoldsCommon, HoldsLabel, CsectOf, CommonOf
  <2>6. G[k].is_sect \/ G[k].type # T_WX
    BY <2>1, <2>2 DEF Sound, Met, Is
  <2>7. EntryShape(G[k])
    BY DEF Sound
  <2> QED BY <2>5, <2>6, <2>7 DEF Unresolved, EntryShape
<1>4. ASSUME NEW k \in DOMAIN G, Unresolved(G[k])
      PROVE  \E name \in Names : Undefined(name)
  <2>1. PICK n : n = G[k].name
    OBVIOUS
  <2>2. n \in Names
    <3>1. G[k] \in GSym
      BY DEF EsdType
    <3> QED BY <2>1, <3>1 DEF GSym
  <2>3. n # Blank
    BY <1>4, <2>1 DEF Merged, OneEntry, Unresolved
  <2>4. Holds(G[k], n)
    BY <2>1, <2>3, EntryOf
  <2>5. ~G[k].is_sect /\ G[k].type = T_ER
    BY <1>4 DEF Unresolved
  <2>6. PICK a, id : Is(T_ER, n, a, id)
    BY <1>0, <2>4, <2>5 DEF Holds, HoldsReference
  <2>7. \A b, y : ~Is(T_SD, n, b, y) /\ ~Is(T_CM, n, b, y)
    BY <1>0, <2>4, <2>5 DEF Holds, HoldsSection, HoldsCommon, CsectOf
  <2>8. \A b, x : ~IsLd(n, b, x)
    <3> SUFFICES ASSUME NEW b, NEW x, IsLd(n, b, x) PROVE FALSE
      OBVIOUS
    <3>1. PICK m \in DOMAIN G : G[m].name = n /\ G[m].type = T_LR
      BY <1>0, MetHas
    <3>2. m = k
      BY <2>1, <2>3, <3>1 DEF Merged, OneEntry
    <3> QED BY <2>5, <3>1, <3>2 DEF T_LR, T_ER
  <2>9. Items(T_ER, n) # {} /\ Items(T_SD, n) = {} /\ Items(T_CM, n) = {} /\ Labels(n) = {}
    BY <2>6, <2>7, <2>8, InItems, InLabels
  <2> QED BY <2>2, <2>9 DEF Undefined
<1> QED
  BY <1>1, <1>2, <1>3, <1>4 DEF Refused

(***************************************************************************)
(* What is left unresolved, for any names: some object refers to it, and   *)
(* whatever defines it went with a duplicate section.                      *)
(***************************************************************************)
Answered(g) == g.is_sect \/ g.type = T_LR
LeftLabel(a, x) ==
    /\ a \in DOMAIN O /\ x \in DOMAIN O[a].ld /\ SeenLd(a, x)
    /\ <<a, O[a].ld[x].len>> \notin dropped
Strongly(n) == \E a, id : Is(T_ER, n, a, id)

Accounted ==
    /\ \A k, m \in DOMAIN G : G[k].name = G[m].name /\ G[k].name # Blank => k = m
    /\ \A a \in DOMAIN O : \A id \in DOMAIN loc_g[a] : G[loc_g[a][id]].name = O[a].loc[id].name
    /\ \A k \in DOMAIN G : Unresolved(G[k]) => Strongly(G[k].name)
    /\ \A a, x : LeftLabel(a, x) => \E k \in DOMAIN G : G[k].name = O[a].ld[x].name /\ Answered(G[k])

\* A step that touches one entry and answers what was answered.
LEMMA TouchAccounted ==
    ASSUME EsdType, Accounted, O' = O, NEW k, NEW n, Touches(k, n),
           n # Blank => OnlyOne(G, k, n),
           \A a \in DOMAIN O : \A id \in DOMAIN loc_g'[a] :
               \/ id \in DOMAIN loc_g[a] /\ loc_g'[a][id] = loc_g[a][id]
               \/ loc_g'[a][id] = k /\ O[a].loc[id].name = n,
           Had(k) /\ Answered(G[k]) => Answered(G'[k]),
           Unresolved(G'[k]) => (Had(k) /\ Unresolved(G[k])) \/ Strongly(n),
           \A a, x : LeftLabel(a, x)' => LeftLabel(a, x) \/ (Answered(G'[k]) /\ O[a].ld[x].name = n)
    PROVE  Accounted'
<1>1. /\ DOMAIN G' = DOMAIN G \cup {k} /\ \A m \in DOMAIN G : m # k => G'[m] = G[m]
      /\ G'[k].name = n /\ (Had(k) => G[k].name = n)
  BY DEF Touches, Extended, Had
<1>2. \A m \in DOMAIN G : m # k /\ n # Blank => G[m].name # n
  BY <1>1 DEF Accounted, OnlyOne, Had
<1>3. \A l, m \in DOMAIN G' : G'[l].name = G'[m].name /\ G'[l].name # Blank => l = m
  BY <1>1, <1>2 DEF Accounted
<1>4. ASSUME NEW a \in DOMAIN O, NEW id \in DOMAIN loc_g'[a]
      PROVE  G'[loc_g'[a][id]].name = O[a].loc[id].name
  <2>1. CASE id \in DOMAIN loc_g[a] /\ loc_g'[a][id] = loc_g[a][id]
    <3>1. loc_g[a][id] \in DOMAIN G /\ G[loc_g[a][id]].name = O[a].loc[id].name
      BY <2>1 DEF EsdType, Accounted
    <3> QED BY <1>1, <2>1, <3>1 DEF Had
  <2>2. CASE loc_g'[a][id] = k /\ O[a].loc[id].name = n
    BY <1>1, <2>2
  <2> QED BY <1>4, <2>1, <2>2
<1>5. \A nm : Strongly(nm)' <=> Strongly(nm)
  BY DEF Strongly, Is
<1>6. ASSUME NEW m \in DOMAIN G', Unresolved(G[m])' PROVE Strongly(G[m].name)'
  <2>1. PICK nm : nm = G'[m].name
    OBVIOUS
  <2>2. Strongly(nm)
    BY <1>1, <1>6, <2>1 DEF Accounted, Had, Unresolved
  <2> QED BY <1>5, <2>1, <2>2
<1>7. ASSUME NEW a, NEW x, LeftLabel(a, x)'
      PROVE  \E m \in DOMAIN G' : G'[m].name = O[a].ld[x].name /\ Answered(G'[m])
  <2>1. CASE LeftLabel(a, x)
    <3>1. PICK m \in DOMAIN G : G[m].name = O[a].ld[x].name /\ Answered(G[m])
      BY <2>1 DEF Accounted
    <3> QED BY <1>1, <3>1 DEF Had
  <2>2. CASE Answered(G'[k]) /\ O[a].ld[x].name = n
    BY <1>1, <2>2
  <2> QED BY <1>7, <2>1, <2>2
<1>8. \A a, x : LeftLabel(a, x)' =>
          \E m \in DOMAIN G' : G'[m].name = O'[a].ld[x].name /\ Answered(G[m])'
  BY <1>7 DEF Answered
<1> QED
  BY <1>3, <1>4, <1>6, <1>8 DEF Accounted

\* A turn of the item loop.
LEMMA TurnAccounted ==
    ASSUME EsdType, Accounted, NEW k, Turn(k), dropped \subseteq dropped',
           item.name # Blank => OnlyOne(G, k, item.name),
           Had(k) /\ Answered(G[k]) => Answered(G'[k]),
           Unresolved(G'[k]) => (Had(k) /\ Unresolved(G[k])) \/ item.type = T_ER
    PROVE  Accounted'
<1>1. PICK n : n = item.name
  OBVIOUS
<1>2. /\ O' = O /\ i' = i /\ pc' = pc /\ pc = "loc" /\ AtLocal /\ Touches(k, n) /\ Bind(k)
  BY <1>1 DEF Turn, AtLocal
<1>3. \A a \in DOMAIN O : \A id \in DOMAIN loc_g'[a] :
          \/ id \in DOMAIN loc_g[a] /\ loc_g'[a][id] = loc_g[a][id]
          \/ loc_g'[a][id] = k /\ O[a].loc[id].name = n
  BY <1>1, <1>2, Binding DEF item
<1>4. i \in DOMAIN O /\ j \in DOMAIN O[i].loc
  BY <1>2, ItemTyped
<1>5. item.type = T_ER => Strongly(n)
  BY <1>1, <1>4 DEF item, Strongly, Is
<1>6. \A a, x : LeftLabel(a, x)' => LeftLabel(a, x)
  BY <1>2 DEF LeftLabel, SeenLd
<1> QED
  BY <1>1, <1>2, <1>3, <1>5, <1>6, TouchAccounted

\* Every turn leaves only what it accounts for.
LEMMA StepAccounted ==
    ASSUME EsdType, Plain, Sound, Accounted, EsdStep
    PROVE  Accounted'
<1> USE DEF Answered, Unresolved
<1>1. CASE PrivateCode
  <2>1. AtLocal /\ item.type = T_PC /\ dropped' = dropped
    BY <1>1 DEF PrivateCode
  <2>2. item.name = Blank
    BY <2>1, ItemNamed
  <2> QED BY <1>1, <2>1, <2>2, ItemTurns, PrivateEffect, TurnAccounted DEF Had
<1>2. CASE DuplicateSection
  <2>1. Had(At) /\ G' = G /\ Turn(At) /\ dropped \subseteq dropped' /\ OnlyOne(G, At, item.name)
    BY <1>2, ItemTurns, DuplicateEffect DEF DuplicateSection, OnlyOne, Had
  <2> QED BY <2>1, TurnAccounted
<1>3. CASE FirstSection
  BY <1>3, ItemTurns, FirstEffect, TurnAccounted DEF FirstSection
<1>4. CASE Common
  <2>1. G'[At].is_sect /\ OnlyOne(G, At, item.name) /\ dropped' = dropped
    BY <1>4, CommonEffect DEF CsectOf, Common
  <2> QED BY <1>4, <2>1, ItemTurns, TurnAccounted
<1>5. CASE Reference
  <2>1. item.type \in {T_ER, T_WX} /\ dropped' = dropped
    BY <1>5 DEF Reference
  <2>2. Had(At) /\ Answered(G[At]) => Answered(G'[At])
    BY <1>5, ReferenceEffect DEF T_LR, T_WX
  <2>3. Unresolved(G'[At]) => (Had(At) /\ Unresolved(G[At])) \/ item.type = T_ER
    BY <1>5, <2>1, ReferenceEffect DEF T_ER, T_WX
  <2> QED BY <1>5, <2>1, <2>2, <2>3, ItemTurns, ReferenceEffect, TurnAccounted
<1>6. CASE FirstLabel
  <2>1. PICK k, n : k = LAt /\ n = label.name
    OBVIOUS
  <2>2. AtLabel /\ UNCHANGED <<O, loc_g, dropped>>
    BY <1>6 DEF FirstLabel
  <2>3. Touches(k, n) /\ OnlyOne(G, k, n) /\ G'[k].type = T_LR
    BY <1>6, <2>1, FirstLabelEffect
  <2>4. \A a, x : LeftLabel(a, x)' => LeftLabel(a, x) \/ O[a].ld[x].name = n
    BY <1>6, <2>1, <2>2, LabelsSeen DEF LeftLabel, label
  <2> QED BY <2>2, <2>3, <2>4, TouchAccounted DEF T_LR, T_ER
<1>7. CASE Unused \/ LocalsDone \/ LabelDropped \/ LabelAgain \/ ObjectDone \/ Check
  <2>1. UNCHANGED <<O, G, loc_g, dropped>>
    BY <1>7, TableKept
  <2>2. ASSUME NEW a, NEW x, LeftLabel(a, x)'
        PROVE  \E k \in DOMAIN G : G[k].name = O[a].ld[x].name /\ Answered(G[k])
    <3>1. CASE LeftLabel(a, x)
      BY <3>1 DEF Accounted
    <3>2. CASE ~LeftLabel(a, x)
      <4>1. a \in DOMAIN O /\ x \in DOMAIN O[a].ld /\ ~SeenLd(a, x) /\ <<a, O[a].ld[x].len>> \notin dropped
        BY <2>1, <2>2, <3>2 DEF LeftLabel
      <4>2. AtLabel /\ a = i /\ x = j
        BY <1>7, <2>1, <2>2, <4>1, LabelsSeen DEF LeftLabel
      <4>3. label = O[a].ld[x] /\ ~OwnerDropped /\ pc = "ld" /\ j \in DOMAIN O[i].ld
        BY <4>1, <4>2 DEF label, OwnerDropped, AtLabel
      <4>4. LabelAgain
        BY <1>7, <4>3 DEF Unused, LocalsDone, LabelDropped, ObjectDone, Check
      <4> QED BY <4>3, <4>4, LabelAgainEffect DEF Had
    <3> QED BY <3>1, <3>2
  <2>3. \A k \in DOMAIN G : Unresolved(G[k]) => Strongly(G[k].name)'
    BY <2>1 DEF Accounted, Strongly, Is
  <2>4. \A a, x : LeftLabel(a, x)' =>
            \E k \in DOMAIN G : G[k].name = O[a].ld[x].name /\ Answered(G[k])
    BY <2>2
  <2> QED BY <2>1, <2>3, <2>4 DEF Accounted
<1> QED
  BY <1>1, <1>2, <1>3, <1>4, <1>5, <1>6, <1>7 DEF EsdStep

\* A step outside PASS 2 leaves everything.
LEMMA Stutters ==
    ASSUME UNCHANGED esdvars
    PROVE  /\ (NoMixed' <=> NoMixed) /\ (EsdType => EsdType') /\ (Sound => Sound')
           /\ (Accounted => Accounted') /\ (Merged => Merged')
<1>1. UNCHANGED <<O, G, loc_g, dropped, i, j, pc, ncomerr, nwarn>>
  BY DEF esdvars
<1>2. EsdType => EsdType'
  BY <1>1 DEF EsdType, Objects, SeenLoc, Done
<1>3. Sound => Sound'
  BY <1>1 DEF Sound, Verdict, Refused
<1>4. Accounted => Accounted'
  BY <1>1 DEF Accounted, Strongly, Is, LeftLabel, SeenLd
<1>5. Merged => Merged'
  <2>1. \A n, a, x : MetLd(n, a, x)' <=> MetLd(n, a, x)
    BY <1>1, StillMet DEF MetLd, SeenLd
  <2> QED BY <1>1, <2>1, KeepsMerged
<1>6. NoMixed' <=> NoMixed
  BY <1>1, SameMixed
<1> QED
  BY <1>2, <1>3, <1>4, <1>5, <1>6

LEMMA StartsAccounted ==
    ASSUME Objects, G = << >>, loc_g = [k \in DOMAIN O |-> << >>], i = 1, j = 1, pc = "loc"
    PROVE  Accounted
<1>1. \A a, x : ~LeftLabel(a, x)
  BY DEF LeftLabel, SeenLd, Objects
<1>2. \A a \in DOMAIN O : DOMAIN loc_g[a] = {}
  OBVIOUS
<1> QED
  BY <1>1, <1>2 DEF Accounted

\* At the end a name left unresolved is referred to, has no section, and its
\* labels went with duplicate sections.
LEMMA LeftUnresolved ==
    ASSUME EsdType, Plain, Sound, Accounted, Done,
           NEW k \in DOMAIN G, Unresolved(G[k]), NEW n, n = G[k].name
    PROVE  /\ Strongly(n) /\ n \in Names
           /\ \A a \in DOMAIN O : \A id \in DOMAIN O[a].loc :
                  is_sect_type(O[a].loc[id].type) => O[a].loc[id].name # n
           /\ \A a \in DOMAIN O : \A x \in DOMAIN O[a].ld :
                  O[a].ld[x].name = n => <<a, O[a].ld[x].len>> \in dropped
<1>1. Strongly(n)
  BY DEF Accounted
<1>2. n # Blank /\ n \in Names
  <2>1. PICK a, id : Is(T_ER, n, a, id)
    BY <1>1 DEF Strongly
  <2>2. a \in DOMAIN O /\ id \in DOMAIN O[a].loc /\ O[a].loc[id].type = T_ER /\ O[a].loc[id].name = n
    BY <2>1 DEF Is
  <2> QED BY <2>1, <2>2, PlacesTyped DEF Plain, PrivateIsBlank, T_ER, T_PC
<1>3. \A m \in DOMAIN G : G[m].name = n => m = k
  BY <1>2 DEF Accounted
<1>4. ~Answered(G[k])
  BY DEF Answered, Unresolved, T_ER, T_LR
<1>5. i = Len(O) + 1 /\ Len(O) \in Nat /\ DOMAIN O = 1..Len(O)
  BY DEF EsdType, Objects
<1>6. ASSUME NEW a \in DOMAIN O, NEW id \in DOMAIN O[a].loc, is_sect_type(O[a].loc[id].type)
      PROVE  O[a].loc[id].name # n
  <2>1. id \in DOMAIN loc_g[a]
    BY <1>5 DEF EsdType, SeenLoc
  <2>2. loc_g[a][id] \in DOMAIN G /\ G[loc_g[a][id]].is_sect /\ G[loc_g[a][id]].name = O[a].loc[id].name
    BY <1>6, <2>1 DEF EsdType, Sound, Accounted
  <2> QED BY <1>3, <1>4, <2>2 DEF Answered
<1>7. ASSUME NEW a \in DOMAIN O, NEW x \in DOMAIN O[a].ld, O[a].ld[x].name = n
      PROVE  <<a, O[a].ld[x].len>> \in dropped
  <2>1. SeenLd(a, x)
    BY <1>5 DEF SeenLd
  <2> QED BY <1>3, <1>4, <1>7, <2>1 DEF Accounted, LeftLabel
<1> QED
  BY <1>1, <1>2, <1>6, <1>7

\* A name some object has a common area of is a section of the table.
LEMMA CommonHeld ==
    ASSUME EsdType, Plain, Merged, Done, NEW n, NEW a, NEW id, Is(T_CM, n, a, id)
    PROVE  G[g_find(G, n)].is_sect
<1>1. Met(T_CM, n, a, id)
  BY AllMet
<1>2. n # Blank /\ \E k \in DOMAIN G : G[k].name = n
  BY <1>1, MetHas DEF T_CM, T_PC
<1>3. PICK k \in DOMAIN G : G[k].name = n
  BY <1>2
<1>4. g_find(G, n) = k /\ Holds(G[k], n)
  BY <1>2, <1>3, EntryOf
<1> QED
  BY <1>1, <1>4 DEF Holds, HoldsCommon

\* The first object that defines a name is the one the table takes it from,
\* unless its label goes with a duplicate section.
LEMMA FirstDefinerTaken ==
    ASSUME EsdType, Plain, Merged, Done, NEW n, n # Blank, NEW a \in DOMAIN O, Defines(O[a], n),
           \A b \in DOMAIN O : b < a => ~Defines(O[b], n),
           \A x \in DOMAIN O[a].ld : O[a].ld[x].name = n => <<a, O[a].ld[x].len>> \notin dropped
    PROVE  LET g == G[g_find(G, n)]
           IN \/ \E id : Is(T_SD, n, a, id) /\ IsSection(g, <<a, id>>)
              \/ g.is_sect /\ \E id : Is(T_CM, n, a, id)
              \/ \E x \in DOMAIN O[a].ld : O[a].ld[x].name = n /\ IsLabel(g, <<a, x>>)
<1> DEFINE g == G[g_find(G, n)]
<1>0. \A b \in DOMAIN O : b \in Nat
  BY DEF EsdType, Objects
<1>1. ASSUME NEW id, Is(T_SD, n, a, id)
      PROVE  \E y : Is(T_SD, n, a, y) /\ IsSection(g, <<a, y>>)
  <2>1. Met(T_SD, n, a, id)
    BY <1>1, AllMet
  <2>2. PICK k \in DOMAIN G : G[k].name = n
    BY <2>1, MetHas DEF T_SD, T_PC
  <2>3. g = G[k] /\ Holds(G[k], n)
    BY <2>2, EntryOf
  <2>4. PICK b, y : Met(T_SD, n, b, y) /\ FirstSD(b, y) /\ IsSection(g, <<b, y>>)
    BY <2>1, <2>3 DEF Holds, HoldsSection
  <2>5. Is(T_SD, n, b, y) /\ Upto(b, y, a, id)
    BY <1>1, <2>4 DEF Met, FirstSD, Is
  <2>6. Defines(O[b], n) /\ b \in DOMAIN O
    BY <2>5 DEF Is, Defines, is_sect_type
  <2>7. b = a
    BY <1>0, <2>5, <2>6 DEF Upto
  <2> QED BY <2>4, <2>5, <2>7
<1>2. ASSUME NEW id, Is(T_CM, n, a, id)
      PROVE  g.is_sect
  BY <1>2, CommonHeld
<1>3. ASSUME NEW x \in DOMAIN O[a].ld, O[a].ld[x].name = n
      PROVE  \E y \in DOMAIN O[a].ld : O[a].ld[y].name = n /\ IsLabel(g, <<a, y>>)
  <2>1. O[a].ld[x].len \in DOMAIN O[a].loc /\ <<a, O[a].ld[x].len>> \notin dropped
    BY <1>3 DEF EsdType, Objects, IsObject
  <2>2. KeptSection(<<a, O[a].ld[x].len>>)
    <3>1. CASE O[a].loc[O[a].ld[x].len].type = T_SD
      <4>1. PICK m : Is(T_SD, m, a, O[a].ld[x].len)
        BY <2>1, <3>1 DEF Is
      <4>2. Met(T_SD, m, a, O[a].ld[x].len)
        BY <4>1, AllMet
      <4>3. FirstSD(a, O[a].ld[x].len)
        BY <2>1, <4>2 DEF Merged, DroppedAre
      <4> QED BY <4>1, <4>3, KeptIs
    <3>2. CASE O[a].loc[O[a].ld[x].len].type # T_SD
      BY <3>2 DEF KeptSection, LocOf
    <3> QED BY <3>1, <3>2
  <2>3. IsLd(n, a, x)
    BY <1>3, <2>2 DEF IsLd
  <2>4. PICK k \in DOMAIN G : G[k].name = n /\ G[k].type = T_LR
    BY <2>3, AllMet, MetHas
  <2>5. g = G[k] /\ Holds(G[k], n)
    BY <2>4, EntryOf
  <2>6. PICK b, y : MetLd(n, b, y) /\ FirstLd(n, b, y) /\ IsLabel(g, <<b, y>>)
    BY <2>4, <2>5 DEF Holds, HoldsLabel
  <2>7. IsLd(n, b, y) /\ Upto(b, y, a, x)
    BY <2>3, <2>6 DEF MetLd, FirstLd
  <2>8. Defines(O[b], n) /\ b \in DOMAIN O /\ y \in DOMAIN O[b].ld /\ O[b].ld[y].name = n
    BY <2>7 DEF IsLd, Defines
  <2>9. b = a
    BY <1>0, <2>7, <2>8 DEF Upto
  <2> QED BY <2>6, <2>8, <2>9
<1>4. \/ \E id : Is(T_SD, n, a, id)
      \/ \E id : Is(T_CM, n, a, id)
      \/ \E x \in DOMAIN O[a].ld : O[a].ld[x].name = n
  BY DEF Defines, is_sect_type, Is, Plain, PrivateIsBlank
<1> HIDE DEF g
<1>5. \/ \E id : Is(T_SD, n, a, id) /\ IsSection(g, <<a, id>>)
      \/ g.is_sect /\ \E id : Is(T_CM, n, a, id)
      \/ \E x \in DOMAIN O[a].ld : O[a].ld[x].name = n /\ IsLabel(g, <<a, x>>)
  BY <1>1, <1>2, <1>3, <1>4
<1> QED
  BY <1>5 DEF g
=============================================================================
