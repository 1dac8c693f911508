---------------------------- MODULE CompositeEsd ----------------------------
(***************************************************************************)
(* ld370's PASS 2: the objects' ESD tables are merged, object by object    *)
(* and item by item, into one table G of composite symbols, and the link   *)
(* is refused when a strong reference or a common area cannot be honoured. *)
(* One action is one turn of the item loop.  0 stands for C's index -1.    *)
(***************************************************************************)
EXTENDS ObjectDeck

CONSTANTS
    Inputs,             \* what PASS 1 may leave: parsed objects in load order
    AllowUnresolved     \* --allow-unresolved

ASSUME InputsAssumption ==
    \A objs \in Inputs :
        /\ Len(objs) \in Nat /\ DOMAIN objs = 1..Len(objs)
        /\ \A k \in DOMAIN objs : IsObject(objs[k])
ASSUME AllowAssumption == AllowUnresolved \in BOOLEAN

VARIABLES
    O,          \* objects in load order, parsed
    G,          \* composite symbols, in order of first appearance
    loc_g,      \* loc_g[i][id]: index in G of local ESDID id of object i
    dropped,    \* <<i, id>>: a section dropped as a duplicate
    i, j,       \* object; local ESDID, then LD item
    pc,         \* "loc", "ld", "check"; "failed" or "resolved"
    ncomerr,    \* common areas longer than their control section
    nwarn       \* doubly defined entries

esdvars == <<O, G, loc_g, dropped, i, j, pc, ncomerr, nwarn>>

NoSym == 0
GSym == [name : Names, type : DeckTypes \cup {T_LR}, is_sect : BOOLEAN, len : Nat,
         def_obj : Nat, in_addr : Int, owner : Nat]

\* g_find: the first entry of that name, or NoSym.
g_find(tab, name) ==
    LET hits == {k \in DOMAIN tab : tab[k].name = name}
    IN IF hits = {} THEN NoSym ELSE CHOOSE k \in hits : \A m \in hits : k <= m

g_new(tab, name, type) ==
    Append(tab, [name |-> name, type |-> type, is_sect |-> FALSE, len |-> 0,
                 def_obj |-> NoSym, in_addr |-> 0, owner |-> NoSym])

\* Faulty variant: a weak entry stays weak.
g_intern_soft(tab, name, type) == IF g_find(tab, name) = NoSym THEN g_new(tab, name, type) ELSE tab

\* g_intern: the table afterwards.  A weak entry met by anything else hardens.
g_intern(tab, name, type) ==
    LET k == g_find(tab, name)
    IN IF k = NoSym THEN g_new(tab, name, type)
       ELSE IF tab[k].type = T_WX /\ type # T_WX THEN [tab EXCEPT ![k].type = T_ER]
       ELSE tab

\* A section definition overwrites the entry.
DefineSection(tab, k, item, obj) ==
    [tab EXCEPT ![k] = [@ EXCEPT !.is_sect = TRUE, !.type = item.type, !.len = item.len,
                                 !.def_obj = obj, !.in_addr = item.addr]]

\* merge_common: the table, and whether the area outgrows a control section.
CsectOf(g) == g.is_sect /\ g.type = T_SD
CommonOf(g) == g.is_sect /\ g.type = T_CM
MergeCommon(tab, k, len) ==
    IF CsectOf(tab[k]) THEN tab
    ELSE LET had == IF CommonOf(tab[k]) THEN tab[k].len ELSE 0
             fresh == IF CommonOf(tab[k]) THEN tab[k]
                      ELSE [tab[k] EXCEPT !.is_sect = TRUE, !.type = T_CM,
                                          !.def_obj = NoSym, !.in_addr = 0]
         IN [tab EXCEPT ![k] = [fresh EXCEPT !.len = IF len > had THEN len ELSE had]]

Init ==
    /\ O \in Inputs
    /\ G = << >>
    /\ loc_g = [k \in DOMAIN O |-> << >>]
    /\ dropped = {}
    /\ i = 1 /\ j = 1
    /\ pc = "loc"
    /\ ncomerr = 0 /\ nwarn = 0

item == O[i].loc[j]
AtLocal == pc = "loc" /\ i <= Len(O) /\ j < MAXESD /\ used(O[i], j)

\* Local ESDID j of object i is composite symbol k.
Bind(k) == loc_g' = [loc_g EXCEPT ![i] = [id \in DOMAIN @ \cup {j} |-> IF id = j THEN k ELSE @[id]]]

\* The table once the item's name is interned, and its place there.
Tab == g_intern(G, item.name, item.type)
At == g_find(Tab, item.name)

Unused ==
    /\ pc = "loc" /\ i <= Len(O) /\ j < MAXESD /\ ~used(O[i], j)
    /\ j' = j + 1
    /\ UNCHANGED <<O, G, loc_g, dropped, i, pc, ncomerr, nwarn>>

\* Private code is a section of its own, whatever else has a blank name.
PrivateCode ==
    /\ AtLocal /\ item.type = T_PC
    /\ G' = DefineSection(g_new(G, item.name, T_PC), Len(G) + 1, item, i)
    /\ Bind(Len(G) + 1)
    /\ j' = j + 1
    /\ UNCHANGED <<O, dropped, i, pc, ncomerr, nwarn>>

\* Faulty variant: the duplicate is not marked.
DuplicateUnmarked ==
    /\ AtLocal /\ item.type = T_SD /\ CsectOf(Tab[At])
    /\ G' = Tab /\ Bind(At)
    /\ j' = j + 1
    /\ UNCHANGED <<O, dropped, i, pc, ncomerr, nwarn>>

DuplicateSection ==
    /\ AtLocal /\ item.type = T_SD /\ CsectOf(Tab[At])
    /\ G' = Tab /\ Bind(At)
    /\ dropped' = dropped \cup {<<i, j>>}
    /\ j' = j + 1
    /\ UNCHANGED <<O, i, pc, ncomerr, nwarn>>

FirstSection ==
    /\ AtLocal /\ item.type = T_SD /\ ~CsectOf(Tab[At])
    /\ G' = DefineSection(Tab, At, item, i) /\ Bind(At)
    /\ ncomerr' = IF CommonOf(Tab[At]) /\ Tab[At].len > item.len THEN ncomerr + 1 ELSE ncomerr
    /\ j' = j + 1
    /\ UNCHANGED <<O, dropped, i, pc, nwarn>>

Common ==
    /\ AtLocal /\ item.type = T_CM
    /\ G' = MergeCommon(Tab, At, item.len) /\ Bind(At)
    /\ ncomerr' = IF CsectOf(Tab[At]) /\ item.len > Tab[At].len THEN ncomerr + 1 ELSE ncomerr
    /\ j' = j + 1
    /\ UNCHANGED <<O, dropped, i, pc, nwarn>>

\* Faulty variant: the last reference decides the entry's type.
ReferenceRetypes ==
    /\ AtLocal /\ item.type \in {T_ER, T_WX}
    /\ G' = [Tab EXCEPT ![At].type = item.type] /\ Bind(At)
    /\ j' = j + 1
    /\ UNCHANGED <<O, dropped, i, pc, ncomerr, nwarn>>

Reference ==
    /\ AtLocal /\ item.type \in {T_ER, T_WX}
    /\ G' = Tab /\ Bind(At)
    /\ j' = j + 1
    /\ UNCHANGED <<O, dropped, i, pc, ncomerr, nwarn>>

LocalsDone ==
    /\ pc = "loc" /\ i <= Len(O) /\ j >= MAXESD
    /\ pc' = "ld" /\ j' = 1
    /\ UNCHANGED <<O, G, loc_g, dropped, i, ncomerr, nwarn>>

AtLabel == pc = "ld" /\ j \in DOMAIN O[i].ld
label == O[i].ld[j]
OwnerKnown == used(O[i], label.len)
OwnerDropped == OwnerKnown /\ <<i, label.len>> \in dropped
LTab == g_intern(G, label.name, T_LD)
LAt == g_find(LTab, label.name)
AlreadyLabel == LTab[LAt].type = T_LR /\ LTab[LAt].owner # NoSym

LabelDropped ==
    /\ AtLabel /\ OwnerDropped
    /\ j' = j + 1
    /\ UNCHANGED <<O, G, loc_g, dropped, i, pc, ncomerr, nwarn>>

LabelAgain ==
    /\ AtLabel /\ ~OwnerDropped /\ AlreadyLabel
    /\ G' = LTab /\ nwarn' = nwarn + 1
    /\ j' = j + 1
    /\ UNCHANGED <<O, loc_g, dropped, i, pc, ncomerr>>

\* The label's offset becomes relative to its owner.
FirstLabel ==
    /\ AtLabel /\ ~OwnerDropped /\ ~AlreadyLabel
    /\ G' = [LTab EXCEPT ![LAt] =
              [@ EXCEPT !.type = T_LR,
                        !.owner = IF OwnerKnown THEN loc_g[i][label.len] ELSE NoSym,
                        !.in_addr = label.addr - (IF OwnerKnown THEN O[i].loc[label.len].addr ELSE 0)]]
    /\ j' = j + 1
    /\ UNCHANGED <<O, loc_g, dropped, i, pc, ncomerr, nwarn>>

ObjectDone ==
    /\ pc = "ld" /\ j \notin DOMAIN O[i].ld
    /\ i' = i + 1 /\ j' = 1
    /\ pc' = "loc"
    /\ UNCHANGED <<O, G, loc_g, dropped, ncomerr, nwarn>>

\* Faulty variant: a weak reference left undefined is an error too.
UnresolvedWeak(g) == ~g.is_sect /\ g.type \in {T_ER, T_WX}

\* An external reference nothing defines.
Unresolved(g) == ~g.is_sect /\ g.type = T_ER
Refused == ncomerr > 0 \/ (~AllowUnresolved /\ \E k \in DOMAIN G : Unresolved(G[k]))

Check ==
    /\ pc = "loc" /\ i > Len(O)
    /\ pc' = IF Refused THEN "failed" ELSE "resolved"
    /\ UNCHANGED <<O, G, loc_g, dropped, i, j, ncomerr, nwarn>>

EsdStep ==
    \/ Unused \/ PrivateCode \/ DuplicateSection \/ FirstSection \/ Common \/ Reference
    \/ LocalsDone \/ LabelDropped \/ LabelAgain \/ FirstLabel \/ ObjectDone \/ Check

Next == EsdStep \/ (pc \in {"failed", "resolved"} /\ UNCHANGED esdvars)

Spec == Init /\ [][Next]_esdvars

-----------------------------------------------------------------------------
\* Properties.

Done == pc \in {"failed", "resolved"}

\* Every variable has the shape the C program gives it; an entry's owner and a
\* binding are entries of the table.
TypeOK ==
    /\ O \in Inputs
    /\ G \in Seq(GSym)
    /\ \A k \in DOMAIN G : G[k].owner \in 0..Len(G)
    /\ DOMAIN loc_g = DOMAIN O
    /\ \A a \in DOMAIN O : /\ DOMAIN loc_g[a] \subseteq DOMAIN O[a].loc
                          /\ \A id \in DOMAIN loc_g[a] : loc_g[a][id] \in 1..Len(G)
    /\ \A d \in dropped : d[1] \in DOMAIN O /\ d[2] \in DOMAIN O[d[1]].loc
    /\ i \in Nat \ {0} /\ j \in Nat \ {0}
    /\ pc \in {"loc", "ld", "failed", "resolved"}
    /\ ncomerr \in Nat /\ nwarn \in Nat

\* The entry has an address: what relocation, --entry and --alias ask of it.
Resolved(g) == g.is_sect \/ (g.type = T_LR /\ g.owner # NoSym /\ G[g.owner].is_sect)

\* A link that goes on past the check without --allow-unresolved leaves no
\* strong reference of any object without an address, in whatever order weak
\* and strong references, sections, commons and labels of the name were met.
StrongDiagnosed ==
    pc = "resolved" /\ ~AllowUnresolved =>
        \A a \in DOMAIN O : \A id \in DOMAIN O[a].loc :
            O[a].loc[id].type = T_ER => id \in DOMAIN loc_g[a] /\ Resolved(G[loc_g[a][id]])

\* An entry keeps its name and place, a section stays a section, a reference
\* once strong never turns weak again, and a common area never shrinks.
OnlyHardens ==
    [][\A k \in DOMAIN G :
          /\ k \in DOMAIN G' /\ G'[k].name = G[k].name
          /\ G[k].is_sect => G'[k].is_sect
          /\ G[k].type # T_WX => G'[k].type # T_WX
          /\ CommonOf(G[k]) /\ CommonOf(G'[k]) => G'[k].len >= G[k].len]_esdvars

\* ---- What the table should hold, read off the objects alone. ----

\* Local items <<a, id>> of type t that bear name.
Items(t, name) ==
    UNION {{<<a, id>> : id \in {x \in DOMAIN O[a].loc : O[a].loc[x].type = t /\ O[a].loc[x].name = name}} :
           a \in DOMAIN O}
LocOf(p) == O[p[1]].loc[p[2]]
NotAfter(p, q) == p[1] < q[1] \/ (p[1] = q[1] /\ p[2] <= q[2])
Earliest(S) == CHOOSE p \in S : \A q \in S : NotAfter(p, q)

\* A control section is kept when it is the first of its name.
KeptSection(p) == LocOf(p).type = T_SD => p = Earliest(Items(T_SD, LocOf(p).name))
Labels(name) ==
    UNION {{<<a, k>> : k \in {x \in DOMAIN O[a].ld :
                O[a].ld[x].name = name /\ KeptSection(<<a, O[a].ld[x].len>>)}} : a \in DOMAIN O}

\* The name is a label in one place and a section or common in another.
Mixed(name) == Labels(name) # {} /\ Items(T_SD, name) \cup Items(T_CM, name) # {}

IsSection(g, p) ==
    g.is_sect /\ g.type = T_SD /\ g.def_obj = p[1] /\ g.in_addr = LocOf(p).addr /\ g.len = LocOf(p).len
IsLabel(g, p) ==
    LET l == O[p[1]].ld[p[2]]
    IN ~g.is_sect /\ g.type = T_LR /\ g.owner = loc_g[p[1]][l.len]
       /\ g.in_addr = l.addr - O[p[1]].loc[l.len].addr

\* The first definition of the name in load order is the one the table holds;
\* within an object the sections come before the labels.
FirstWins(name) ==
    LET S == Items(T_SD, name)
        L == Labels(name)
        g == G[g_find(G, name)]
    IN IF S # {} /\ (L = {} \/ Earliest(S)[1] <= Earliest(L)[1])
       THEN IsSection(g, Earliest(S))
       ELSE L # {} => IsLabel(g, Earliest(L))

\* The first definition of a name is kept, section or label, whatever was
\* referenced, dropped or merged before it, and the sections dropped are
\* exactly the later duplicates.  (Names used both as a label and as a section
\* are left out: there the later definition overwrites the earlier.)
FirstKept ==
    Done /\ (\A name \in Names : ~Mixed(name)) =>
        /\ \A name \in Names : FirstWins(name)
        /\ dropped = UNION {{p \in Items(T_SD, name) : ~KeptSection(p)} : name \in Names}

\* The longest contribution to a common area, and a common area longer than the
\* control section of its name.
Longest(S) == CHOOSE len \in {LocOf(p).len : p \in S} : \A p \in S : LocOf(p).len <= len
Outgrown(name) ==
    /\ Items(T_SD, name) # {} /\ Items(T_CM, name) # {}
    /\ Longest(Items(T_CM, name)) > LocOf(Earliest(Items(T_SD, name))).len
Undefined(name) ==
    Items(T_ER, name) # {} /\ Items(T_SD, name) \cup Items(T_CM, name) \cup Labels(name) = {}

\* The link is refused exactly when some common outgrows the section of its name
\* or a strong reference has no definition.  (Links in which a name is used both
\* as a label and as a section are left out, as for FirstKept.)
RefusalExact ==
    Done /\ (\A name \in Names : ~Mixed(name)) =>
        (pc = "failed" <=> \E name \in Names :
                              Outgrown(name) \/ (~AllowUnresolved /\ Undefined(name)))
=============================================================================
