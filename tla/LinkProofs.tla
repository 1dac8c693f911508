----------------------------- MODULE LinkProofs -----------------------------
(***************************************************************************)
(* Proofs about Autocall and Link: the library search, for every set of    *)
(* decks, libraries and command lines that satisfies LinkJob's             *)
(* assumptions, and then what CompositeEsdProofs shows of the composite    *)
(* ESD put together with it.                                               *)
(***************************************************************************)
EXTENDS Link, WellFoundedInduction, SequenceTheorems, TLAPS

(***************************************************************************)
(* Candidate order.                                                        *)
(***************************************************************************)

\* A non-empty set of naturals has a least element.
LEMMA LeastNat ==
    ASSUME NEW S, S \subseteq Nat, S # {}
    PROVE  \E x \in S : \A y \in S : x <= y
<1>1. PICK x \in S : \A y \in S : ~(<<y, x>> \in OpToRel(<, Nat))
  BY WFMin, NatLessThanWellFounded, Zenon
<1>2. \A y \in S : ~(y < x)
  BY <1>1 DEF OpToRel
<1> QED
  BY <1>2

\* A non-empty set of pairs of naturals has a first element, in archive order
\* and then index order: First is well defined wherever the code scans for it.
LEMMA FirstExists ==
    ASSUME NEW S, S \subseteq Nat \X Nat, S # {}
    PROVE  First(S) \in S /\ \A q \in S : Before(First(S), q)
<1> DEFINE A == {p[1] : p \in S}
<1>1. A \subseteq Nat /\ A # {}
  OBVIOUS
<1>2. PICK a \in A : \A x \in A : a <= x
  BY <1>1, LeastNat
<1> DEFINE B == {p[2] : p \in {q \in S : q[1] = a}}
<1>3. B \subseteq Nat /\ B # {}
  BY <1>2
<1>4. PICK b \in B : \A x \in B : b <= x
  BY <1>3, LeastNat
<1>5. PICK p \in S : p[1] = a /\ p[2] = b
  BY <1>4
<1>6. \A q \in S : Before(p, q)
  <2> SUFFICES ASSUME NEW q \in S PROVE Before(p, q)
    OBVIOUS
  <2>1. a <= q[1] /\ a \in Nat /\ q[1] \in Nat /\ q[2] \in Nat /\ b \in Nat
    BY <1>2, <1>1, <1>3, <1>4
  <2>2. q[1] = a => b <= q[2]
    BY <1>4
  <2> QED
    BY <2>1, <2>2, <1>5 DEF Before
<1> QED
  BY <1>6 DEF First

(***************************************************************************)
(* What a parsed object and a library member are.                          *)
(***************************************************************************)

\* The local ESD table is indexed by ESDIDs 1 .. MAXESD-1 and holds items.
LEMMA LocTyped ==
    ASSUME NEW d \in Decks
    PROVE  /\ DOMAIN parse_object(d).loc \subseteq 1..(MAXESD - 1)
           /\ \A id \in DOMAIN parse_object(d).loc : parse_object(d).loc[id] \in EsdItem
<1> DEFINE ids == {d.esd[k].id : k \in Numbered(d)} \cap 1..(MAXESD - 1)
<1>1. d \in Deck
  BY DecksAssumption
<1>2. parse_object(d).loc = [id \in ids |-> d.esd[CHOOSE k \in Numbered(d) : d.esd[k].id = id]]
  BY DEF parse_object
<1>3. ASSUME NEW id \in ids
      PROVE  d.esd[CHOOSE k \in Numbered(d) : d.esd[k].id = id] \in EsdItem
  <2>1. (CHOOSE k \in Numbered(d) : d.esd[k].id = id) \in Numbered(d)
    BY <1>3
  <2> QED
    BY <2>1, <1>1 DEF Numbered, Deck
<1> HIDE DEF ids
<1> QED
  BY <1>2, <1>3 DEF ids

\* A pair that names a member of the job's archives.
GoodMember(m) ==
    m \in Nat \X Nat /\ m[1] \in DOMAIN job.ar /\ m[2] \in DOMAIN job.ar[m[1]].mem

\* The fields of a job.
LEMMA JobTyped ==
    ASSUME job \in Jobs
    PROVE  /\ job \in Job
           /\ DOMAIN job.ar \subseteq Nat
           /\ \A x \in DOMAIN job.ar :
                 /\ job.ar[x] \in Archive
                 /\ DOMAIN job.ar[x].sym \subseteq Nat
                 /\ DOMAIN job.ar[x].mem \subseteq Nat
<1>1. job \in Job
  BY JobsAssumption
<1>2. job.ar \in Seq(Archive)
  BY <1>1 DEF Job
<1>3. \A x \in DOMAIN job.ar : job.ar[x] \in Archive
  BY <1>2
<1>4. \A x \in DOMAIN job.ar : job.ar[x].sym \in Seq(IndexEntry) /\ job.ar[x].mem \in Seq(Member)
  BY <1>3 DEF Archive
<1> QED
  BY <1>1, <1>2, <1>3, <1>4

LEMMA GoodDeck ==
    ASSUME job \in Jobs, NEW m, GoodMember(m)
    PROVE  DeckOf(job, m) \in Decks
<1>1. job.ar[m[1]] \in Archive
  BY JobTyped DEF GoodMember
<1>2. job.ar[m[1]].mem[m[2]] \in Member
  BY <1>1 DEF GoodMember, Archive
<1> QED
  BY <1>2 DEF DeckOf, Member

\* Index positions are ordered pairs of naturals, and each leads to a member
\* that defines the name looked up.
LEMMA HitsTyped ==
    ASSUME job \in Jobs, NEW name
    PROVE  /\ IndexHits(job, name) \subseteq Nat \X Nat
           /\ \A h \in IndexHits(job, name) :
                 /\ GoodMember(HitMember(job, h))
                 /\ Defines(parse_object(DeckOf(job, HitMember(job, h))), name)
<1> SUFFICES ASSUME NEW h \in IndexHits(job, name)
             PROVE  /\ h \in Nat \X Nat
                    /\ GoodMember(HitMember(job, h))
                    /\ Defines(parse_object(DeckOf(job, HitMember(job, h))), name)
  OBVIOUS
<1>0. PICK x \in DOMAIN job.ar : \E y \in DOMAIN job.ar[x].sym :
          h = <<x, y>> /\ job.ar[x].sym[y].name = name
  BY DEF IndexHits
<1>1. PICK y \in DOMAIN job.ar[x].sym : h = <<x, y>> /\ job.ar[x].sym[y].name = name
  BY <1>0
<1>2. x \in Nat /\ y \in Nat
  BY <1>1, JobTyped
<1>3. IndexSound(job)
  BY IndexAssumption
<1>4. /\ job.ar[x].sym[y].off \in DOMAIN job.ar[x].mem
      /\ Defines(parse_object(job.ar[x].mem[job.ar[x].sym[y].off].deck), name)
  BY <1>1, <1>3 DEF IndexSound
<1>5. job.ar[x].sym[y].off \in Nat
  BY <1>4, <1>1, JobTyped
<1>6. HitMember(job, h) = <<x, job.ar[x].sym[y].off>>
  BY <1>1 DEF HitMember
<1>7. DeckOf(job, HitMember(job, h)) = job.ar[x].mem[job.ar[x].sym[y].off].deck
  BY <1>6 DEF DeckOf
<1>8. GoodMember(HitMember(job, h))
  <2>1. job.ar[x].sym[y].off \in DOMAIN job.ar[x].mem
    BY <1>4
  <2>2. HitMember(job, h) \in Nat \X Nat
    BY <1>2, <1>5, <1>6
  <2>3. HitMember(job, h)[1] = x /\ HitMember(job, h)[2] = job.ar[x].sym[y].off
    BY <1>6
  <2> QED BY <1>0, <2>1, <2>2, <2>3 DEF GoodMember
<1> QED
  BY <1>1, <1>2, <1>4, <1>7, <1>8

\* PreferClean returns the member of one of the hits, and a conflicting one
\* only when every hit conflicts.
LEMMA PreferCleanPicks ==
    ASSUME job \in Jobs, NEW name, NEW hits, hits \subseteq IndexHits(job, name), hits # {}
    PROVE  /\ \E h \in hits : PreferClean(hits) = HitMember(job, h)
           /\ member_conflicts(PreferClean(hits)) =>
                 \A h \in hits : member_conflicts(HitMember(job, h))
<1> DEFINE clean == {h \in hits : ~member_conflicts(HitMember(job, h))}
           from == IF clean # {} THEN clean ELSE hits
<1>1. from \subseteq hits /\ from # {} /\ hits \subseteq Nat \X Nat
  BY HitsTyped
<1>2. First(from) \in from
  <2> HIDE DEF from
  <2> QED BY <1>1, FirstExists
<1>3. PreferClean(hits) = HitMember(job, First(from))
  BY DEF PreferClean
<1>4. CASE clean # {}
  BY <1>1, <1>2, <1>3, <1>4
<1>5. CASE clean = {}
  BY <1>1, <1>2, <1>3, <1>5
<1> QED
  BY <1>4, <1>5

\* What --include finds is a member --include may bring in.
LEMMA FindIncludePicks ==
    ASSUME job \in Jobs, NEW name, Includable(job, name) # {}
    PROVE  /\ find_include(name) \in Includable(job, name)
           /\ GoodMember(find_include(name))
<1>1. CASE Named(job, name) # {}
  <2>1. \A m \in Named(job, name) : GoodMember(m)
    <3> SUFFICES ASSUME NEW m \in Named(job, name) PROVE GoodMember(m)
      OBVIOUS
    <3>0. PICK x \in DOMAIN job.ar : \E y \in DOMAIN job.ar[x].mem : m = <<x, y>>
      BY DEF Named
    <3>1. PICK y \in DOMAIN job.ar[x].mem : m = <<x, y>>
      BY <3>0
    <3> QED
      BY <3>1, JobTyped DEF GoodMember
  <2>2. Named(job, name) \subseteq Nat \X Nat
    BY <2>1 DEF GoodMember
  <2>3. First(Named(job, name)) \in Named(job, name)
    BY <1>1, <2>2, FirstExists
  <2> QED
    BY <1>1, <2>1, <2>3 DEF find_include, Includable
<1>2. CASE Named(job, name) = {}
  <2>1. IndexHits(job, name) # {}
    BY <1>2 DEF Includable, Definers
  <2>2. PICK h \in IndexHits(job, name) : PreferClean(IndexHits(job, name)) = HitMember(job, h)
    BY <2>1, PreferCleanPicks
  <2> QED
    BY <1>2, <2>2, HitsTyped DEF find_include, Includable, Definers
<1> QED
  BY <1>1, <1>2

(***************************************************************************)
(* The two ways O and pulled grow.                                         *)
(***************************************************************************)

\* pull_member appends one object and leaves the others where they were.
LEMMA PullMember ==
    ASSUME TypeOK, NEW m, GoodMember(m), NEW kind \in Kinds, NEW why \in Names,
           pull_member(m, kind, why)
    PROVE  /\ O' \in Seq(Loaded)
           /\ pulled' \subseteq Nat \X Nat
           /\ Len(O) \in Nat /\ Len(O') = Len(O) + 1
           /\ DOMAIN O = 1..Len(O) /\ DOMAIN O' = 1..(Len(O) + 1)
           /\ \A k \in 1..Len(O) : O'[k] = O[k]
           /\ O'[Len(O) + 1] = [obj |-> parse_object(DeckOf(job, m)), kind |-> kind,
                                src |-> m, why |-> why]
<1> DEFINE new == [obj |-> parse_object(DeckOf(job, m)), kind |-> kind, src |-> m, why |-> why]
<1>1. DeckOf(job, m) \in Decks
  BY GoodDeck DEF TypeOK
<1>2. new \in Loaded
  BY <1>1 DEF Loaded, GoodMember
<1>3. O \in Seq(Loaded) /\ O' = Append(O, new)
  BY DEF TypeOK, pull_member
<1>4. pulled' \subseteq Nat \X Nat
  BY DEF TypeOK, pull_member, GoodMember
<1> HIDE DEF new
<1>5. /\ O' \in Seq(Loaded)
      /\ Len(O) \in Nat /\ Len(O') = Len(O) + 1
      /\ DOMAIN O = 1..Len(O) /\ DOMAIN O' = 1..(Len(O) + 1)
      /\ \A k \in 1..Len(O) : O'[k] = O[k]
      /\ O'[Len(O) + 1] = new
  BY <1>2, <1>3
<1> QED
  BY <1>4, <1>5 DEF new

\* pull_definer pulls a definer of the name that was not in the link, and one
\* that conflicts only when every such definer does.
LEMMA PullDefiner ==
    ASSUME TypeOK, NEW want \in Names, pull_definer(want)
    PROVE  \E m : /\ GoodMember(m)
                  /\ m \in Definers(job, want) /\ m \notin pulled
                  /\ pull_member(m, "autocall", want)
                  /\ nwarn' \in Nat
                  /\ member_conflicts(m) => \A g \in Definers(job, want) :
                        g \in pulled \/ member_conflicts(g)
                  /\ Defines(parse_object(DeckOf(job, m)), want)
<1> DEFINE hits == Candidates(want)
           m == PreferClean(hits)
<1>0. job \in Jobs
  BY DEF TypeOK
<1>1. hits \subseteq IndexHits(job, want) /\ hits # {}
  BY DEF pull_definer, Candidates
<1>2. PICK h \in hits : m = HitMember(job, h)
  BY <1>0, <1>1, PreferCleanPicks
<1>3. GoodMember(m) /\ Defines(parse_object(DeckOf(job, m)), want)
  BY <1>0, <1>1, <1>2, HitsTyped
<1>4. m \in Definers(job, want) /\ m \notin pulled
  BY <1>1, <1>2 DEF Definers, Candidates
<1>5. pull_member(m, "autocall", want)
  BY DEF pull_definer
<1>6. nwarn' \in Nat
  <2>1. Shadows(want, m) \in Nat
    BY DEF Shadows
  <2>2. nwarn' = nwarn + Shadows(want, m)
    BY DEF pull_definer
  <2> QED
    BY <2>1, <2>2 DEF TypeOK
<1>7. member_conflicts(m) => \A g \in Definers(job, want) : g \in pulled \/ member_conflicts(g)
  <2>1. member_conflicts(m) => \A x \in hits : member_conflicts(HitMember(job, x))
    BY <1>0, <1>1, PreferCleanPicks
  <2>2. \A g \in Definers(job, want) : g \notin pulled => \E x \in hits : g = HitMember(job, x)
    BY DEF Definers, Candidates
  <2> QED
    BY <2>1, <2>2
<1> QED
  BY <1>3, <1>4, <1>5, <1>6, <1>7

\* The name at a scanned ER is an external name.
LEMMA ScannedName ==
    ASSUME TypeOK, AtLocal, Searching, cur <= Len(O)
    PROVE  i \in DOMAIN O /\ O[i].obj.loc[j].name \in Names
<1>1. i \in DOMAIN O
  BY DEF TypeOK, AtLocal
<1>2. O[i] \in Loaded
  BY <1>1 DEF TypeOK
<1>3. PICK d \in Decks : O[i].obj = parse_object(d)
  BY <1>2 DEF Loaded
<1>4. O[i].obj.loc[j] \in EsdItem
  BY <1>3, LocTyped DEF Searching, used
<1> QED
  BY <1>1, <1>4 DEF EsdItem

(***************************************************************************)
(* Type correctness.  The sweep's snapshot never exceeds the object table, *)
(* which is what makes O[i] meaningful during a sweep.                     *)
(***************************************************************************)
TypeInv == TypeOK /\ cur <= Len(O)

LEMMA InitType == Init => TypeInv
<1> SUFFICES ASSUME Init PROVE TypeInv
  OBVIOUS
<1>1. job \in Jobs /\ job \in Job
  BY JobTyped DEF Init
<1>2. job.explicit \in Seq(Decks)
  BY <1>1 DEF Job
<1> DEFINE e(k) == [obj |-> parse_object(job.explicit[k]), kind |-> "explicit",
                    src |-> << >>, why |-> NoName]
<1>3. \A k \in DOMAIN job.explicit : e(k) \in Loaded
  BY <1>2 DEF Loaded, Kinds
<1>4. O = [k \in 1..Len(job.explicit) |-> e(k)]
  BY <1>2 DEF Init
<1> HIDE DEF e
<1>5. O \in Seq(Loaded) /\ Len(O) \in Nat
  BY <1>2, <1>3, <1>4
<1>6. changed \in BOOLEAN /\ seeded \in BOOLEAN
  BY Zenon DEF Init
<1>7. pulled \subseteq Nat \X Nat
  BY DEF Init
<1> QED
  BY <1>1, <1>5, <1>6, <1>7 DEF Init, TypeInv, TypeOK

LEMMA NextType == TypeInv /\ [Next]_vars => TypeInv'
<1> SUFFICES ASSUME TypeInv, [Next]_vars PROVE TypeInv'
  OBVIOUS
<1> USE DEF TypeInv
<1>0. job \in Job /\ Len(O) \in Nat
  BY JobTyped DEF TypeOK
<1>1. CASE IncludeMissing
  BY <1>1 DEF IncludeMissing, TypeOK
<1>2. CASE IncludeAgain
  BY <1>2 DEF IncludeAgain, TypeOK
<1>3. CASE IncludeMember
  <2>1. job.include[n] \in Names
    BY <1>0, <1>3 DEF IncludeMember, Job
  <2>2. GoodMember(find_include(job.include[n]))
    BY <1>3, FindIncludePicks DEF IncludeMember, TypeOK
  <2>3. O' \in Seq(Loaded) /\ pulled' \subseteq Nat \X Nat /\ Len(O') = Len(O) + 1
    BY <1>3, <2>1, <2>2, PullMember DEF IncludeMember, Kinds
  <2> QED
    BY <1>0, <1>3, <2>3 DEF IncludeMember, TypeOK
<1>4. CASE IncludesDone
  BY <1>4 DEF IncludesDone, TypeOK
<1>5. CASE StartSweep
  <2>1. changed' \in BOOLEAN
    BY <1>5, Zenon DEF StartSweep
  <2> QED
    BY <1>0, <1>5, <2>1 DEF StartSweep, TypeOK
<1>6. CASE SkipLocal
  BY <1>6 DEF SkipLocal, TypeOK
<1>7. CASE PullForLocal
  <2>1. O[i].obj.loc[j].name \in Names
    BY <1>7, ScannedName DEF PullForLocal
  <2>2. PICK m : GoodMember(m) /\ pull_member(m, "autocall", O[i].obj.loc[j].name) /\ nwarn' \in Nat
    BY <1>7, <2>1, PullDefiner DEF PullForLocal
  <2>3. O' \in Seq(Loaded) /\ pulled' \subseteq Nat \X Nat /\ Len(O') = Len(O) + 1
    BY <2>1, <2>2, PullMember DEF Kinds
  <2> QED
    BY <1>0, <1>7, <2>2, <2>3 DEF PullForLocal, TypeOK
<1>8. CASE NextObject
  BY <1>8 DEF NextObject, TypeOK
<1>9. CASE EndSweep
  BY <1>9 DEF EndSweep, TypeOK
<1>10. CASE SeedEntry
  <2>1. job.entry \in Names
    BY <1>0, <1>10 DEF SeedEntry, EntryMissing, Job
  <2>2. PICK m : GoodMember(m) /\ pull_member(m, "autocall", job.entry) /\ nwarn' \in Nat
    BY <1>10, <2>1, PullDefiner DEF SeedEntry
  <2>3. O' \in Seq(Loaded) /\ pulled' \subseteq Nat \X Nat /\ Len(O') = Len(O) + 1
    BY <2>1, <2>2, PullMember DEF Kinds
  <2> QED
    BY <1>0, <1>10, <2>2, <2>3 DEF SeedEntry, TypeOK
<1>11. CASE EntrySettled
  BY <1>11 DEF EntrySettled, TypeOK
<1>12. CASE UNCHANGED vars
  BY <1>12 DEF vars, TypeOK
<1> QED
  BY <1>1, <1>2, <1>3, <1>4, <1>5, <1>6, <1>7, <1>8, <1>9, <1>10, <1>11, <1>12
     DEF Next, Step, Finished

\* Every variable keeps its type in every behaviour.
THEOREM TypeCorrect == Spec => []TypeOK
<1>1. Spec => []TypeInv
  BY InitType, NextType, PTL DEF Spec
<1>2. TypeInv => TypeOK
  BY DEF TypeInv
<1> QED
  BY <1>1, <1>2, PTL

(***************************************************************************)
(* What a step does to the object table: nothing, or one --include member, *)
(* or one member called for a name that nothing in the table defines.      *)
(***************************************************************************)
Keeps == UNCHANGED <<O, pulled>>

Includes(m, name) ==
    /\ pc = "include" /\ pc' = "include"
    /\ \E q \in DOMAIN job.include : job.include[q] = name
    /\ m \in Includable(job, name)
    /\ pull_member(m, "include", name)

Calls(m, name) ==
    /\ pc \in {"scan", "entry"} /\ pc' \in {"scan", "sweep"}
    /\ m \in Definers(job, name)
    /\ Defines(parse_object(DeckOf(job, m)), name)
    /\ ~is_defined(name)
    /\ name = job.entry \/ \E k \in DOMAIN O : WantedBy(k, name)
    /\ member_conflicts(m) => \A g \in Definers(job, name) : g \in pulled \/ member_conflicts(g)
    /\ pull_member(m, "autocall", name)

StepShape ==
    /\ job' = job
    /\ pc' = "include" => pc = "include"
    /\ \/ Keeps
       \/ \E m : \E name \in Names :
             GoodMember(m) /\ m \notin pulled /\ (Includes(m, name) \/ Calls(m, name))

LEMMA EveryStep == TypeInv /\ [Next]_vars => StepShape
<1> SUFFICES ASSUME TypeInv, [Next]_vars PROVE StepShape
  OBVIOUS
<1>0. TypeOK /\ job \in Jobs /\ job \in Job
  BY JobTyped DEF TypeInv, TypeOK
<1>1. CASE IncludeMember
  <2> DEFINE name == job.include[n]
             m == find_include(name)
  <2>1. name \in Names
    BY <1>0, <1>1 DEF IncludeMember, Job
  <2>2. GoodMember(m) /\ m \in Includable(job, name)
    BY <1>0, <1>1, FindIncludePicks DEF IncludeMember
  <2>3. Includes(m, name) /\ m \notin pulled /\ job' = job
    BY <1>1, <2>2 DEF IncludeMember, Includes
  <2> HIDE DEF name, m
  <2> QED
    BY <1>1, <2>1, <2>2, <2>3 DEF StepShape, IncludeMember
<1>2. CASE PullForLocal
  <2> DEFINE name == O[i].obj.loc[j].name
  <2>1. name \in Names /\ i \in DOMAIN O
    BY <1>0, <1>2, ScannedName DEF PullForLocal, TypeInv
  <2>2. WantedBy(i, name) /\ ~is_defined(name)
    BY <1>2 DEF PullForLocal, Searching, WantedBy, used
  <2>3. pc = "scan" /\ pc' = pc /\ job' = job /\ pull_definer(name)
    BY <1>2 DEF PullForLocal, AtLocal
  <2> HIDE DEF name
  <2>4. PICK m : /\ GoodMember(m)
                 /\ m \in Definers(job, name) /\ m \notin pulled
                 /\ pull_member(m, "autocall", name)
                 /\ member_conflicts(m) => \A g \in Definers(job, name) :
                        g \in pulled \/ member_conflicts(g)
                 /\ Defines(parse_object(DeckOf(job, m)), name)
    BY <1>0, <2>1, <2>3, PullDefiner
  <2>5. Calls(m, name)
    BY <2>1, <2>2, <2>3, <2>4 DEF Calls
  <2> QED
    BY <2>1, <2>3, <2>4, <2>5 DEF StepShape
<1>3. CASE SeedEntry
  <2> DEFINE name == job.entry
  <2>1. name \in Names
    BY <1>0, <1>3 DEF SeedEntry, EntryMissing, Job
  <2>2. ~is_defined(name)
    BY <1>3 DEF SeedEntry, EntryMissing
  <2>3. pc = "entry" /\ pc' = "sweep" /\ job' = job /\ pull_definer(name)
    BY <1>3 DEF SeedEntry
  <2>4. PICK m : /\ GoodMember(m)
                 /\ m \in Definers(job, name) /\ m \notin pulled
                 /\ pull_member(m, "autocall", name)
                 /\ member_conflicts(m) => \A g \in Definers(job, name) :
                        g \in pulled \/ member_conflicts(g)
                 /\ Defines(parse_object(DeckOf(job, m)), name)
    BY <1>0, <2>1, <2>3, PullDefiner
  <2>5. Calls(m, name)
    BY <2>2, <2>3, <2>4 DEF Calls
  <2> QED
    BY <2>1, <2>3, <2>4, <2>5 DEF StepShape
<1>4. CASE \/ IncludeMissing \/ IncludeAgain \/ IncludesDone \/ StartSweep \/ SkipLocal
           \/ NextObject \/ EndSweep \/ EntrySettled \/ UNCHANGED vars
  BY <1>4 DEF IncludeMissing, IncludeAgain, IncludesDone, StartSweep, SkipLocal, NextObject,
              EndSweep, EntrySettled, AtLocal, vars, StepShape, Keeps
<1> QED
  BY <1>1, <1>2, <1>3, <1>4 DEF Next, Step, Finished

(***************************************************************************)
(* The history the object table records.                                   *)
(***************************************************************************)

\* Explicit objects, and only they, come from no archive; an autocalled member
\* appears only after the last --include.
SourceInv ==
    /\ \A k \in DOMAIN O : (O[k].kind = "explicit") <=> (O[k].src = << >>)
    /\ pc = "include" => \A k \in DOMAIN O : O[k].kind # "autocall"

HistoryInv == SourceInv /\ NeverTwice /\ OnlyNeeded /\ LoadOrder /\ CleanDefinerPreferred

LEMMA InitHistory == Init => HistoryInv
<1> SUFFICES ASSUME Init PROVE HistoryInv
  OBVIOUS
<1>1. job \in Job
  BY JobTyped DEF Init
<1>2. /\ DOMAIN O = DOMAIN job.explicit
      /\ Len(O) = Len(job.explicit) /\ Len(O) \in Nat /\ DOMAIN O = 1..Len(O)
      /\ \A k \in DOMAIN O : O[k].kind = "explicit" /\ O[k].src = << >>
      /\ pulled = {}
  <2>1. job.explicit \in Seq(Decks)
    BY <1>1 DEF Job
  <2> QED
    BY <2>1 DEF Init
<1> QED
  BY <1>2 DEF HistoryInv, SourceInv, NeverTwice, OnlyNeeded, LoadOrder, CleanDefinerPreferred

\* A step that leaves the table alone leaves its history alone.
LEMMA KeepHistory ==
    ASSUME HistoryInv, StepShape, Keeps
    PROVE  HistoryInv'
  BY DEF HistoryInv, StepShape, Keeps, SourceInv, NeverTwice, OnlyNeeded, LoadOrder,
         CleanDefinerPreferred, DefinedBefore, WantedBy, ConflictsBefore

\* One more object does not change what the objects before it define or want.
LEMMA PrefixKept ==
    ASSUME TypeOK, NEW m, GoodMember(m), NEW kind \in Kinds, NEW why \in Names,
           pull_member(m, kind, why), job' = job
    PROVE  /\ \A k \in 1..(Len(O) + 1) : \A name :
                 DefinedBefore(k - 1, name)' <=> DefinedBefore(k - 1, name)
           /\ \A k \in 1..Len(O) : \A name : WantedBy(k, name)' <=> WantedBy(k, name)
           /\ \A k \in 1..(Len(O) + 1) : \A g : ConflictsBefore(k, g)' <=> ConflictsBefore(k, g)
           /\ \A name : is_defined(name) <=> DefinedBefore(Len(O), name)
           /\ \A g : member_conflicts(g) <=> ConflictsBefore(Len(O) + 1, g)
           /\ \A name : is_defined(name) => is_defined(name)'
<1>1. /\ Len(O) \in Nat /\ DOMAIN O = 1..Len(O) /\ DOMAIN O' = 1..(Len(O) + 1)
      /\ \A k \in 1..Len(O) : O'[k] = O[k]
  BY PullMember
<1>2. \A k \in 1..(Len(O) + 1) : \A name :
                 DefinedBefore(k - 1, name)' <=> DefinedBefore(k - 1, name)
  BY <1>1 DEF DefinedBefore
<1>3. \A k \in 1..Len(O) : \A name : WantedBy(k, name)' <=> WantedBy(k, name)
  BY <1>1 DEF WantedBy
<1>4. \A k \in 1..(Len(O) + 1) : \A g : ConflictsBefore(k, g)' <=> ConflictsBefore(k, g)
  BY <1>2 DEF ConflictsBefore
<1>5. \A name : is_defined(name) <=> DefinedBefore(Len(O), name)
  BY <1>1 DEF is_defined, DefinedBefore
<1>6. \A g : member_conflicts(g) <=> ConflictsBefore(Len(O) + 1, g)
  BY <1>1, <1>5 DEF member_conflicts, ConflictsBefore
<1>7. \A name : is_defined(name) => is_defined(name)'
  BY <1>1 DEF is_defined
<1> QED
  BY <1>2, <1>3, <1>4, <1>5, <1>6, <1>7

LEMMA GrowHistory ==
    ASSUME TypeOK, HistoryInv, job' = job, pc' = "include" => pc = "include",
           NEW m, NEW name \in Names, GoodMember(m), m \notin pulled,
           Includes(m, name) \/ Calls(m, name)
    PROVE  HistoryInv'
<1>1. PICK kind \in {"include", "autocall"} :
          /\ pull_member(m, kind, name)
          /\ kind = "include" => Includes(m, name)
          /\ kind = "autocall" => Calls(m, name)
  BY DEF Includes, Calls
<1> DEFINE last == Len(O) + 1
<1>a. kind \in Kinds /\ kind # "explicit"
  BY DEF Kinds
<1>b. /\ Len(O) \in Nat /\ Len(O') = last /\ DOMAIN O = 1..Len(O) /\ DOMAIN O' = 1..last
      /\ \A k \in 1..Len(O) : O'[k] = O[k]
      /\ O'[last] = [obj |-> parse_object(DeckOf(job, m)), kind |-> kind, src |-> m, why |-> name]
  BY <1>1, <1>a, PullMember
<1>2. /\ Len(O) \in Nat /\ Len(O') = last /\ DOMAIN O = 1..Len(O) /\ DOMAIN O' = 1..last
      /\ \A k \in 1..Len(O) : O'[k] = O[k]
      /\ O'[last].kind = kind /\ O'[last].src = m /\ O'[last].why = name
      /\ kind # "explicit"
  BY <1>a, <1>b
<1>3. pulled' = pulled \cup {m}
  BY <1>1 DEF pull_member
<1>4. m # << >>
  BY DEF GoodMember
<1>5. SourceInv'
  BY <1>1, <1>2, <1>4 DEF SourceInv, HistoryInv, Includes, Calls
<1>6. NeverTwice'
  <2>1. \A k \in 1..Len(O) : O[k].src # m
    BY <1>2, <1>4 DEF HistoryInv, SourceInv, NeverTwice
  <2>2. \A k, l \in 1..last : O'[k].kind # "explicit" /\ O'[k].src = O'[l].src => k = l
    BY <1>2, <2>1 DEF HistoryInv, NeverTwice
  <2>3. pulled' = {O'[k].src : k \in {l \in 1..last : O'[l].kind # "explicit"}}
    BY <1>2, <1>3 DEF HistoryInv, NeverTwice
  <2> QED
    BY <1>2, <2>2, <2>3 DEF NeverTwice
<1>7. OnlyNeeded'
  <2> SUFFICES ASSUME NEW k \in 1..last, O'[k].kind = "autocall", NEW w, w = O'[k].why
               PROVE  /\ O'[k].src \in Definers(job, w)
                      /\ ~DefinedBefore(k - 1, w)'
                      /\ w = job.entry \/ \E l \in 1..(k - 1) : WantedBy(l, w)'
    BY <1>2 DEF OnlyNeeded
  <2>0. /\ DefinedBefore(k - 1, w)' <=> DefinedBefore(k - 1, w)
        /\ \A l \in 1..(k - 1) : WantedBy(l, w)' <=> WantedBy(l, w)
        /\ is_defined(w) <=> DefinedBefore(Len(O), w)
    BY <1>1, <1>2, <1>a, PrefixKept
  <2>1. CASE k = last
    <3>1. Calls(m, name) /\ k - 1 = Len(O) /\ w = name
      BY <1>1, <1>2, <2>1
    <3>2. ~DefinedBefore(k - 1, w)
      BY <2>0, <3>1 DEF Calls
    <3>3. w = job.entry \/ \E l \in 1..(k - 1) : WantedBy(l, w)
      BY <1>2, <3>1 DEF Calls
    <3> QED
      BY <1>2, <2>0, <2>1, <3>1, <3>2, <3>3 DEF Calls
  <2>2. CASE k # last
    <3>1. k \in 1..Len(O) /\ O'[k] = O[k]
      BY <1>2, <2>2
    <3>2. /\ O[k].src \in Definers(job, w)
          /\ ~DefinedBefore(k - 1, w)
          /\ w = job.entry \/ \E l \in 1..(k - 1) : WantedBy(l, w)
      BY <1>2, <3>1 DEF HistoryInv, OnlyNeeded
    <3> QED
      BY <2>0, <3>1, <3>2
  <2> QED
    BY <2>1, <2>2
<1>8. LoadOrder'
  <2>1. Len(job.explicit) \in Nat
    BY JobTyped DEF TypeOK, Job
  <2>2. kind = "include" => \A k \in 1..Len(O) : O[k].kind # "autocall"
    BY <1>1, <1>2 DEF Includes, HistoryInv, SourceInv
  <2> QED
    BY <1>1, <1>2, <2>1, <2>2 DEF HistoryInv, LoadOrder
<1>9. CleanDefinerPreferred'
  <2> SUFFICES ASSUME NEW k \in 1..last, O'[k].kind = "autocall",
                      NEW w, w = O'[k].src, ConflictsBefore(k, w)',
                      NEW g \in Definers(job, O'[k].why)
               PROVE  ConflictsBefore(k, g)' \/ \E l \in 1..(k - 1) : O'[l].src = g
    BY <1>2 DEF CleanDefinerPreferred
  <2>0. /\ ConflictsBefore(k, w)
        /\ ConflictsBefore(k, g)' <=> ConflictsBefore(k, g)
    BY <1>1, <1>a, PrefixKept
  <2>1. CASE k = last
    <3>1. Calls(m, name)
      BY <1>1, <1>2, <2>1
    <3>2. \A x : member_conflicts(x) <=> ConflictsBefore(last, x)
      BY <1>1, <1>a, PrefixKept
    <3>3. member_conflicts(m)
      BY <1>2, <2>0, <2>1, <3>2
    <3>4. g \in pulled \/ member_conflicts(g)
      BY <1>2, <2>1, <3>1, <3>3 DEF Calls
    <3>5. g \in pulled => \E l \in 1..Len(O) : O[l].src = g
      BY <1>2 DEF HistoryInv, NeverTwice
    <3> QED
      BY <1>2, <2>0, <2>1, <3>2, <3>4, <3>5
  <2>2. CASE k # last
    <3>1. k \in 1..Len(O) /\ O'[k] = O[k]
      BY <1>2, <2>2
    <3>2. ConflictsBefore(k, g) \/ \E l \in 1..(k - 1) : O[l].src = g
      BY <1>2, <2>0, <3>1 DEF HistoryInv, CleanDefinerPreferred
    <3> QED
      BY <1>2, <2>0, <3>1, <3>2
  <2> QED
    BY <2>1, <2>2
<1> QED
  BY <1>5, <1>6, <1>7, <1>8, <1>9 DEF HistoryInv

LEMMA NextHistory == TypeInv /\ HistoryInv /\ [Next]_vars => HistoryInv'
<1> SUFFICES ASSUME TypeInv, HistoryInv, [Next]_vars PROVE HistoryInv'
  OBVIOUS
<1>1. StepShape
  BY EveryStep
<1>2. CASE Keeps
  BY <1>1, <1>2, KeepHistory
<1>3. CASE ~Keeps
  BY <1>1, <1>3, GrowHistory DEF StepShape, TypeInv
<1> QED
  BY <1>2, <1>3

LEMMA SpecHistory == Spec => [](TypeInv /\ HistoryInv)
  BY InitType, NextType, InitHistory, NextHistory, PTL DEF Spec

\* Autocall links a member only for a strong reference or an entry point that
\* nothing loaded before it defines, and only a definer of it.
THEOREM PullsOnlyNeeded == Spec => []OnlyNeeded
<1>1. HistoryInv => OnlyNeeded
  BY DEF HistoryInv
<1> QED
  BY <1>1, SpecHistory, PTL

\* No member is linked twice.
THEOREM LinksOnce == Spec => []NeverTwice
<1>1. HistoryInv => NeverTwice
  BY DEF HistoryInv
<1> QED
  BY <1>1, SpecHistory, PTL

\* A conflicting definer is linked only where no clean one was left.
THEOREM PrefersClean == Spec => []CleanDefinerPreferred
<1>1. HistoryInv => CleanDefinerPreferred
  BY DEF HistoryInv
<1> QED
  BY <1>1, SpecHistory, PTL

\* Explicit objects, then --include members, then autocalled ones.
THEOREM KeepsLoadOrder == Spec => []LoadOrder
<1>1. HistoryInv => LoadOrder
  BY DEF HistoryInv
<1> QED
  BY <1>1, SpecHistory, PTL

(***************************************************************************)
(* The fixpoint.  A reference is settled when it needs no search or no     *)
(* library has anything left for it; growing the table never unsettles it. *)
(* A sweep settles the references it has passed; one that pulled nothing   *)
(* has passed them all, because the table still has the length it had.     *)
(***************************************************************************)
Settled(k, l) ==
    O[k].obj.loc[l].type = T_ER /\ ~is_defined(O[k].obj.loc[l].name)
        => Candidates(O[k].obj.loc[l].name) = {}

SweepInv ==
    /\ pc = "scan" =>
          /\ \A k \in 1..cur : \A l \in DOMAIN O[k].obj.loc :
                k < i \/ (k = i /\ l < j) => Settled(k, l)
          /\ changed = FALSE => cur = Len(O)
    /\ pc = "entry" => \A k \in 1..Len(O) : \A l \in DOMAIN O[k].obj.loc : Settled(k, l)
    /\ seeded = TRUE => is_defined(job.entry)
    /\ SearchClosed

\* A step that does not keep the table pulls one member.
LEMMA Growth ==
    ASSUME StepShape, ~Keeps
    PROVE  \E m : \E why \in Names : \E kind \in Kinds :
               GoodMember(m) /\ m \notin pulled /\ pull_member(m, kind, why)
<1>1. PICK m : \E name \in Names :
             GoodMember(m) /\ m \notin pulled /\ (Includes(m, name) \/ Calls(m, name))
  BY DEF StepShape
<1>2. PICK name \in Names : Includes(m, name) \/ Calls(m, name)
  BY <1>1
<1>3. CASE Includes(m, name)
  <2>1. pull_member(m, "include", name) /\ "include" \in Kinds
    BY <1>3 DEF Includes, Kinds
  <2> QED BY <1>1, <2>1
<1>4. CASE Calls(m, name)
  <2>1. pull_member(m, "autocall", name) /\ "autocall" \in Kinds
    BY <1>4 DEF Calls, Kinds
  <2> QED BY <1>1, <2>1
<1> QED
  BY <1>2, <1>3, <1>4

\* A step keeps settled references settled.
LEMMA SettledKept ==
    ASSUME TypeInv, StepShape, NEW k \in 1..Len(O), NEW l \in DOMAIN O[k].obj.loc, Settled(k, l)
    PROVE  O'[k] = O[k] /\ Settled(k, l)'
<1> DEFINE name == O[k].obj.loc[l].name
<1>1. CASE Keeps
  BY <1>1 DEF Keeps, StepShape, Settled, is_defined, Candidates
<1>2. CASE ~Keeps
  <2>0. PICK m : \E why \in Names : \E kind \in Kinds :
            GoodMember(m) /\ pull_member(m, kind, why)
    BY <1>2, Growth
  <2>1. PICK why \in Names, kind \in Kinds : GoodMember(m) /\ pull_member(m, kind, why)
    BY <2>0
  <2>2. TypeOK /\ job' = job 
    BY DEF TypeInv, StepShape
  <2>3. O'[k] = O[k] /\ pulled \subseteq pulled'
    BY <2>1, <2>2, PullMember DEF pull_member
  <2>4. \A x : is_defined(x) => is_defined(x)'
    BY <2>1, <2>2, PrefixKept
  <2>5. \A x : Candidates(x)' \subseteq Candidates(x)
    BY <2>2, <2>3 DEF Candidates
  <2> QED
    BY <2>3, <2>4, <2>5 DEF Settled
<1> QED
  BY <1>1, <1>2

\* What a step defines stays defined.
LEMMA DefinedKept ==
    ASSUME TypeInv, StepShape, NEW name, is_defined(name)
    PROVE  is_defined(name)'
<1>1. CASE Keeps
  BY <1>1 DEF Keeps, is_defined
<1>2. CASE ~Keeps
  <2>0. PICK m : \E why \in Names : \E kind \in Kinds :
            GoodMember(m) /\ pull_member(m, kind, why)
    BY <1>2, Growth
  <2>1. PICK why \in Names, kind \in Kinds : GoodMember(m) /\ pull_member(m, kind, why)
    BY <2>0
  <2>2. TypeOK /\ job' = job 
    BY DEF TypeInv, StepShape
  <2> QED
    BY <2>1, <2>2, PrefixKept
<1> QED
  BY <1>1, <1>2

\* A definer pulled for a name defines it.
LEMMA CallDefines ==
    ASSUME TypeOK, NEW want \in Names, pull_definer(want)
    PROVE  is_defined(want)' /\ Len(O') = Len(O) + 1
<1>1. PICK m : /\ GoodMember(m) /\ pull_member(m, "autocall", want)
               /\ Defines(parse_object(DeckOf(job, m)), want)
  BY PullDefiner
<1>2. /\ Len(O) \in Nat /\ Len(O') = Len(O) + 1 /\ DOMAIN O' = 1..(Len(O) + 1)
      /\ O'[Len(O) + 1] = [obj |-> parse_object(DeckOf(job, m)), kind |-> "autocall",
                           src |-> m, why |-> want]
  BY <1>1, PullMember DEF Kinds
<1>3. O'[Len(O) + 1].obj = parse_object(DeckOf(job, m)) /\ Len(O) + 1 \in DOMAIN O'
  BY <1>2
<1> QED
  BY <1>1, <1>2, <1>3 DEF is_defined

LEMMA InitSweep == Init => SweepInv
<1> SUFFICES ASSUME Init PROVE SweepInv
  OBVIOUS
<1>1. pc = "include"
  BY DEF Init
<1>2. seeded # TRUE
  BY Zenon DEF Init
<1> QED
  BY <1>1, <1>2 DEF SweepInv, SearchClosed

\* References before (i, j) stay settled while a sweep goes on.
LEMMA PassedKept ==
    ASSUME TypeInv, SweepInv, StepShape, pc = "scan", cur' = cur
    PROVE  \A k \in 1..cur : /\ k \in 1..Len(O) /\ O'[k] = O[k]
                             /\ \A l \in DOMAIN O[k].obj.loc :
                                  k < i \/ (k = i /\ l < j) => Settled(k, l)'
<1>0. Len(O) \in Nat /\ cur \in Nat /\ cur <= Len(O)
  BY DEF TypeInv, TypeOK
<1> SUFFICES ASSUME NEW k \in 1..cur
             PROVE  /\ k \in 1..Len(O) /\ O'[k] = O[k]
                    /\ \A l \in DOMAIN O[k].obj.loc :
                          k < i \/ (k = i /\ l < j) => Settled(k, l)'
  OBVIOUS
<1>1. k \in 1..Len(O)
  BY <1>0
<1>2. O'[k] = O[k]
  <2>1. CASE Keeps
    BY <2>1 DEF Keeps
  <2>2. CASE ~Keeps
    <3>0. PICK m : \E why \in Names : \E kind \in Kinds :
              GoodMember(m) /\ pull_member(m, kind, why)
      BY <2>2, Growth
    <3>1. PICK why \in Names, kind \in Kinds : GoodMember(m) /\ pull_member(m, kind, why)
      BY <3>0
    <3>2. TypeOK
      BY DEF TypeInv
    <3> QED
      BY <1>1, <3>1, <3>2, PullMember
  <2> QED
    BY <2>1, <2>2
<1>3. \A l \in DOMAIN O[k].obj.loc : k < i \/ (k = i /\ l < j) => Settled(k, l)'
  BY <1>1, SettledKept DEF SweepInv
<1> QED
  BY <1>1, <1>2, <1>3

\* Local ESDIDs of a loaded object lie in 1 .. MAXESD-1.
LEMMA LoadedIds ==
    ASSUME TypeOK, NEW k \in 1..Len(O), NEW l \in DOMAIN O[k].obj.loc
    PROVE  l \in 1..(MAXESD - 1)
<1>1. O[k] \in Loaded
  BY DEF TypeOK
<1>2. PICK d \in Decks : O[k].obj = parse_object(d)
  BY <1>1 DEF Loaded
<1> QED
  BY <1>2, LocTyped

\* During the scan: what was passed is settled, and so is what the step passes.
LEMMA ScanKept ==
    ASSUME TypeInv, SweepInv, StepShape, pc = "scan", cur' = cur,
           NEW x \in Nat, NEW y \in Nat,
           \A k \in 1..cur : \A l \in DOMAIN O[k].obj.loc :
              k < x \/ (k = x /\ l < y) => k < i \/ (k = i /\ l < j) \/ Settled(k, l)'
    PROVE  \A k \in 1..cur : \A l \in DOMAIN O'[k].obj.loc :
              k < x \/ (k = x /\ l < y) => Settled(k, l)'
<1> SUFFICES ASSUME NEW k \in 1..cur, NEW l \in DOMAIN O'[k].obj.loc, k < x \/ (k = x /\ l < y)
             PROVE  Settled(k, l)'
  OBVIOUS
<1>1. O'[k] = O[k] /\ (k < i \/ (k = i /\ l < j) => Settled(k, l)')
  BY PassedKept
<1> QED
  BY <1>1

LEMMA NextSweep == TypeInv /\ SweepInv /\ [Next]_vars => SweepInv'
<1> SUFFICES ASSUME TypeInv, SweepInv, [Next]_vars PROVE SweepInv'
  OBVIOUS
<1>0. /\ TypeOK /\ StepShape /\ job' = job /\ job \in Job
      /\ Len(O) \in Nat /\ cur \in Nat /\ cur <= Len(O) /\ i \in Nat /\ j \in Nat
      /\ DOMAIN O = 1..Len(O) /\ MAXESD \in Nat
  BY EveryStep, JobTyped, MaxEsdAssumption DEF TypeInv, TypeOK, StepShape
<1>1. SearchClosed /\ (seeded = TRUE => is_defined(job.entry))
  BY DEF SweepInv
\* i0 and j0 are rigid: they keep the place the step starts from under a prime.
<1>a. PICK i0 \in Nat, j0 \in Nat : i0 = i /\ j0 = j
  BY <1>0
<1>2. CASE IncludeMissing \/ IncludeAgain \/ IncludeMember
  <2>1. pc' # "scan" /\ pc' # "entry" /\ pc' # "done"
    BY <1>2 DEF IncludeMissing, IncludeAgain, IncludeMember
  <2>2. seeded' = seeded
    BY <1>2 DEF IncludeMissing, IncludeAgain, IncludeMember
  <2>3. seeded' = TRUE => is_defined(job.entry)'
    BY <1>0, <1>1, <2>2, DefinedKept
  <2> QED
    BY <1>0, <2>1, <2>3 DEF SweepInv, SearchClosed
<1>3. CASE IncludesDone
  <2>1. UNCHANGED <<O, pulled, seeded>> /\ pc' \in {"done", "sweep"}
        /\ (pc' = "done" => job.ar = << >>)
    BY <1>3 DEF IncludesDone
  <2>2. job.ar = << >> => \A name : Candidates(name)' = {}
    BY <1>0, <2>1 DEF Candidates, IndexHits
  <2>3. SearchClosed'
    BY <2>1, <2>2 DEF SearchClosed
  <2>4. seeded' = TRUE => is_defined(job.entry)'
    BY <1>0, <1>1, <2>1, DefinedKept
  <2> QED
    BY <1>0, <2>1, <2>3, <2>4 DEF SweepInv
<1>4. CASE StartSweep
  <2>1. UNCHANGED <<O, pulled, seeded>> /\ pc' = "scan" /\ cur' = Len(O) /\ i' = 1 /\ j' = 1
    BY <1>4 DEF StartSweep
  <2>2. \A k \in 1..cur' : \A l \in DOMAIN O[k].obj.loc : ~(k < 1 \/ (k = 1 /\ l < 1))
    BY <1>0, <2>1, LoadedIds
  <2>3. seeded' = TRUE => is_defined(job.entry)'
    BY <1>0, <1>1, <2>1, DefinedKept
  <2> QED
    BY <1>0, <2>1, <2>2, <2>3 DEF SweepInv, SearchClosed
<1>5. CASE SkipLocal
  <2>1. /\ UNCHANGED <<O, pulled, seeded, changed, i, cur, pc>> /\ j' = j0 + 1 /\ pc = "scan"
        /\ i0 <= cur
    BY <1>a, <1>5 DEF SkipLocal, AtLocal
  <2>2. ASSUME j0 \in DOMAIN O[i0].obj.loc PROVE Settled(i0, j0)'
    <3>1. Settled(i0, j0)
      BY <1>a, <1>5, <2>2 DEF SkipLocal, Searching, Settled, used
    <3>2. i0 \in 1..Len(O)
      BY <1>0, <1>a, <2>1 DEF TypeOK
    <3> QED
      BY <1>0, <2>2, <3>1, <3>2, SettledKept
  <2>3. \A k \in 1..cur : \A l \in DOMAIN O[k].obj.loc :
            k < i0 \/ (k = i0 /\ l < j0 + 1) => k < i \/ (k = i /\ l < j) \/ Settled(k, l)'
    <3> SUFFICES ASSUME NEW k \in 1..cur, NEW l \in DOMAIN O[k].obj.loc,
                        k = i0, l < j0 + 1, ~(l < j0)
                 PROVE  Settled(k, l)'
      BY <1>a
    <3>1. l = j0
      BY <1>0, LoadedIds
    <3> QED
      BY <2>2, <3>1
  <2>4. \A k \in 1..cur : \A l \in DOMAIN O'[k].obj.loc :
            k < i0 \/ (k = i0 /\ l < j0 + 1) => Settled(k, l)'
    <3>1. j0 + 1 \in Nat /\ pc = "scan" /\ cur' = cur
      BY <2>1
    <3> QED
      BY <1>0, <2>3, <3>1, ScanKept, Zenon
  <2>5. changed' = FALSE => cur = Len(O')
    BY <2>1 DEF SweepInv
  <2>6. seeded' = TRUE => is_defined(job.entry)'
    BY <1>0, <1>1, <2>1, DefinedKept
  <2> QED
    BY <1>0, <1>a, <2>1, <2>4, <2>5, <2>6 DEF SweepInv, SearchClosed
<1>6. CASE PullForLocal
  <2>0. PICK name : name = O[i0].obj.loc[j0].name
    OBVIOUS
  <2>1. UNCHANGED <<seeded, i, cur, pc>> /\ j' = j0 + 1 /\ pc = "scan" /\ i0 <= cur
    BY <1>a, <1>6 DEF PullForLocal, AtLocal
  <2>2. i0 \in 1..cur /\ name \in Names
    BY <1>0, <1>a, <1>6, <2>0, <2>1, ScannedName DEF PullForLocal
  <2>3. is_defined(name)'
    BY <1>0, <1>a, <1>6, <2>0, <2>2, CallDefines DEF PullForLocal
  <2>4. Settled(i0, j0)'
    <3>1. O'[i0] = O[i0]
      BY <2>1, <2>2, <1>0, PassedKept
    <3> QED
      BY <2>0, <2>3, <3>1 DEF Settled
  <2>5. \A k \in 1..cur : \A l \in DOMAIN O[k].obj.loc :
            k < i0 \/ (k = i0 /\ l < j0 + 1) => k < i \/ (k = i /\ l < j) \/ Settled(k, l)'
    <3> SUFFICES ASSUME NEW k \in 1..cur, NEW l \in DOMAIN O[k].obj.loc,
                        k = i0, l < j0 + 1, ~(l < j0)
                 PROVE  Settled(k, l)'
      BY <1>a
    <3>1. l = j0
      BY <1>0, LoadedIds
    <3> QED
      BY <2>4, <3>1
  <2>6. \A k \in 1..cur : \A l \in DOMAIN O'[k].obj.loc :
            k < i0 \/ (k = i0 /\ l < j0 + 1) => Settled(k, l)'
    <3>1. j0 + 1 \in Nat /\ pc = "scan" /\ cur' = cur
      BY <2>1
    <3> QED
      BY <1>0, <2>5, <3>1, ScanKept, Zenon
  <2>7. changed' # FALSE
    BY <1>6, Zenon DEF PullForLocal
  <2>8. seeded' = TRUE => is_defined(job.entry)'
    BY <1>0, <1>1, <2>1, DefinedKept
  <2> QED
    BY <1>0, <1>a, <2>1, <2>6, <2>7, <2>8 DEF SweepInv, SearchClosed
<1>7. CASE NextObject
  <2>1. /\ UNCHANGED <<O, pulled, seeded, changed, cur, pc>> /\ i' = i0 + 1 /\ j' = 1
        /\ pc = "scan" /\ j0 >= MAXESD
    BY <1>a, <1>7 DEF NextObject
  <2>2. \A k \in 1..cur : \A l \in DOMAIN O[k].obj.loc :
            k < i0 + 1 \/ (k = i0 + 1 /\ l < 1) => k < i \/ (k = i /\ l < j) \/ Settled(k, l)'
    <3> SUFFICES ASSUME NEW k \in 1..cur, NEW l \in DOMAIN O[k].obj.loc,
                        k < i0 + 1 \/ (k = i0 + 1 /\ l < 1)
                 PROVE  k < i \/ (k = i /\ l < j)
      OBVIOUS
    <3>1. l \in 1..(MAXESD - 1)
      BY <1>0, LoadedIds
    <3> QED
      BY <1>0, <1>a, <2>1, <3>1
  <2>3. \A k \in 1..cur : \A l \in DOMAIN O'[k].obj.loc :
            k < i0 + 1 \/ (k = i0 + 1 /\ l < 1) => Settled(k, l)'
    BY <1>0, <2>1, <2>2, ScanKept
  <2>4. changed' = FALSE => cur = Len(O')
    BY <2>1 DEF SweepInv
  <2>5. seeded' = TRUE => is_defined(job.entry)'
    BY <1>0, <1>1, <2>1, DefinedKept
  <2> QED
    BY <1>0, <2>1, <2>3, <2>4, <2>5 DEF SweepInv, SearchClosed
<1>8. CASE EndSweep
  <2>1. /\ UNCHANGED <<O, pulled, seeded, changed, cur>> /\ pc = "scan" /\ i > cur
        /\ pc' \in {"sweep", "entry"}
    BY <1>8 DEF EndSweep
  <2>2. pc' = "entry" => changed = FALSE
    BY <1>8 DEF EndSweep, TypeInv, TypeOK
  <2>3. pc' = "entry" => \A k \in 1..Len(O) : \A l \in DOMAIN O[k].obj.loc : Settled(k, l)
    BY <1>0, <2>1, <2>2 DEF SweepInv
  <2>4. pc' = "entry" => \A k \in 1..Len(O') : \A l \in DOMAIN O'[k].obj.loc : Settled(k, l)'
    BY <1>0, <2>1, <2>3, SettledKept
  <2>5. seeded' = TRUE => is_defined(job.entry)'
    BY <1>0, <1>1, <2>1, DefinedKept
  <2> QED
    BY <1>0, <2>1, <2>4, <2>5 DEF SweepInv, SearchClosed
<1>9. CASE SeedEntry
  <2>1. pc' = "sweep" /\ pull_definer(job.entry)
    BY <1>9 DEF SeedEntry
  <2>2. job.entry \in Names
    BY <1>0, <1>9 DEF SeedEntry, EntryMissing, Job
  <2>3. is_defined(job.entry)'
    <3> DEFINE name == job.entry
    <3>1. is_defined(name)'
      <4> HIDE DEF name
      <4> QED BY <1>0, <2>1, <2>2, CallDefines DEF name
    <3> QED
      BY <1>0, <3>1 DEF is_defined
  <2> QED
    BY <1>0, <2>1, <2>3 DEF SweepInv, SearchClosed
<1>10. CASE EntrySettled
  <2>1. UNCHANGED <<O, pulled, seeded>> /\ pc = "entry" /\ pc' = "done"
        /\ (EntryMissing => Candidates(job.entry) = {})
    BY <1>10 DEF EntrySettled
  <2>2. SearchClosed'
    <3> SUFFICES ASSUME NEW name \in Names, ~is_defined(name),
                        name = job.entry \/ \E k \in DOMAIN O : WantedBy(k, name)
                 PROVE  Candidates(name) = {}
      BY <1>0, <2>1 DEF SearchClosed, is_defined, Candidates, WantedBy
    <3>1. CASE name = job.entry
      <4>1. seeded # TRUE /\ job.entry # NoName
        BY <1>1, <3>1, NoNameAssumption
      <4>2. ~seeded
        BY <1>0, <4>1 DEF TypeOK
      <4> QED
        BY <2>1, <3>1, <4>1, <4>2 DEF EntryMissing
    <3>2. CASE \E k \in DOMAIN O : WantedBy(k, name)
      BY <1>0, <2>1, <3>2 DEF SweepInv, WantedBy, Settled
    <3> QED
      BY <3>1, <3>2
  <2>3. seeded' = TRUE => is_defined(job.entry)'
    BY <1>0, <1>1, <2>1, DefinedKept
  <2> QED
    BY <1>0, <2>1, <2>2, <2>3 DEF SweepInv
<1>11. CASE UNCHANGED vars
  BY <1>11 DEF vars, SweepInv, SearchClosed, Settled, is_defined, Candidates, WantedBy
<1> QED
  BY <1>2, <1>3, <1>4, <1>5, <1>6, <1>7, <1>8, <1>9, <1>10, <1>11 DEF Next, Step, Finished

LEMMA SpecSweep == Spec => []SweepInv
  BY InitType, NextType, InitSweep, NextSweep, PTL DEF Spec

\* The library search ends at a fixpoint: no library holds an unlinked definer
\* of an undefined strong reference or entry point.
THEOREM SearchReachesFixpoint == Spec => []SearchClosed
<1>1. SweepInv => SearchClosed
  BY DEF SweepInv
<1> QED
  BY <1>1, SpecSweep, PTL

(***************************************************************************)
(* The refinement.  The object table and the set of linked members are two *)
(* views of one thing, and the --include list is served in order.          *)
(***************************************************************************)
ViewInv ==
    /\ \A k \in DOMAIN O :
          O[k].obj = parse_object(IF O[k].kind = "explicit" THEN job.explicit[k]
                                  ELSE DeckOf(job, O[k].src))
    /\ \A q \in DOMAIN job.include : q < n => Includable(job, job.include[q]) \cap pulled # {}
    /\ pc \in {"sweep", "scan", "entry"} => \A q \in DOMAIN job.include : q < n

LEMMA InitView == Init => ViewInv
<1> SUFFICES ASSUME Init PROVE ViewInv
  OBVIOUS
<1>1. job \in Job
  BY JobTyped DEF Init
<1>2. job.explicit \in Seq(Decks) /\ DOMAIN job.include \subseteq Nat \ {0}
  BY <1>1 DEF Job
<1>3. \A k \in DOMAIN O : O[k].kind = "explicit" /\ O[k].obj = parse_object(job.explicit[k])
  BY DEF Init
<1>4. pc = "include" /\ n = 1
  BY DEF Init
<1> QED
  BY <1>2, <1>3, <1>4 DEF ViewInv

LEMMA NextView == TypeInv /\ ViewInv /\ [Next]_vars => ViewInv'
<1> SUFFICES ASSUME TypeInv, ViewInv, [Next]_vars PROVE ViewInv'
  OBVIOUS
<1>0. TypeOK /\ StepShape /\ job' = job /\ job \in Job /\ n \in Nat /\ job \in Jobs
  BY EveryStep, JobTyped DEF TypeInv, TypeOK, StepShape
<1>1. DOMAIN job.include \subseteq Nat \ {0} /\ DOMAIN job.include = 1..Len(job.include)
      /\ Len(job.include) \in Nat
  BY <1>0 DEF Job
<1>2. \A k \in DOMAIN O' :
          O'[k].obj = parse_object(IF O'[k].kind = "explicit" THEN job'.explicit[k]
                                   ELSE DeckOf(job', O'[k].src))
  <2>1. CASE Keeps
    BY <1>0, <2>1 DEF Keeps, ViewInv
  <2>2. CASE ~Keeps
    <3>1. PICK m : \E name \in Names :
             GoodMember(m) /\ (Includes(m, name) \/ Calls(m, name))
      BY <1>0, <2>2 DEF StepShape
    <3>2. PICK name \in Names, kind \in {"include", "autocall"} :
             GoodMember(m) /\ pull_member(m, kind, name)
      BY <3>1 DEF Includes, Calls
    <3>3. kind \in Kinds /\ kind # "explicit"
      BY DEF Kinds
    <3>4. /\ Len(O) \in Nat /\ DOMAIN O = 1..Len(O) /\ DOMAIN O' = 1..(Len(O) + 1)
          /\ \A k \in 1..Len(O) : O'[k] = O[k]
          /\ O'[Len(O) + 1] = [obj |-> parse_object(DeckOf(job, m)), kind |-> kind,
                               src |-> m, why |-> name]
      BY <1>0, <3>2, <3>3, PullMember
    <3>5. /\ O'[Len(O) + 1].kind # "explicit" /\ O'[Len(O) + 1].src = m
          /\ O'[Len(O) + 1].obj = parse_object(DeckOf(job, m))
      BY <3>3, <3>4
    <3> QED
      BY <1>0, <3>4, <3>5 DEF ViewInv
  <2> QED
    BY <2>1, <2>2
<1>3. pulled \subseteq pulled'
  BY <1>0, Growth DEF Keeps, pull_member
<1>4. CASE IncludeAgain \/ IncludeMember
  <2>1. /\ n' = n + 1 /\ pc' = "include" /\ n \in DOMAIN job.include
        /\ Includable(job, job.include[n]) # {} /\ find_include(job.include[n]) \in pulled'
    BY <1>4 DEF IncludeAgain, IncludeMember, pull_member
  <2>2. find_include(job.include[n]) \in Includable(job, job.include[n])
    BY <1>0, <2>1, FindIncludePicks
  <2>3. \A q \in DOMAIN job.include : q < n + 1 =>
            Includable(job, job.include[q]) \cap pulled' # {}
    <3> SUFFICES ASSUME NEW q \in DOMAIN job.include, q < n + 1
                 PROVE  Includable(job, job.include[q]) \cap pulled' # {}
      OBVIOUS
    <3>1. CASE q = n
      BY <2>1, <2>2, <3>1
    <3>2. CASE q # n
      <4>1. q < n
        BY <1>0, <1>1, <3>2
      <4> QED
        BY <1>3, <4>1 DEF ViewInv
    <3> QED
      BY <3>1, <3>2
  <2> QED
    BY <1>0, <1>2, <2>1, <2>3 DEF ViewInv
<1>5. CASE ~(IncludeAgain \/ IncludeMember)
  <2>1. n' = n /\ (pc' \in {"sweep", "scan", "entry"} =>
                     pc \in {"sweep", "scan", "entry"} \/ n \notin DOMAIN job.include)
    BY <1>5 DEF Next, Step, Finished, vars, IncludeMissing, IncludesDone, StartSweep, SkipLocal,
                PullForLocal, NextObject, EndSweep, SeedEntry, EntrySettled, AtLocal
  <2>2. n \in Nat \ {0}
    BY <1>0 DEF TypeOK
  <2>3. n \notin DOMAIN job.include => \A q \in DOMAIN job.include : q < n
    BY <1>1, <2>2
  <2> QED
    BY <1>0, <1>2, <1>3, <2>1, <2>3 DEF ViewInv
<1> QED
  BY <1>4, <1>5

\* LibraryCall's instance has its own copies of LinkJob's operators.
LEMMA SameOperators ==
    /\ \A d : Abs!parse_object(d) = parse_object(d)
    /\ \A x, m : Abs!DeckOf(x, m) = DeckOf(x, m)
    /\ \A x, name : Abs!Definers(x, name) = Definers(x, name)
    /\ \A x, name : Abs!Includable(x, name) = Includable(x, name)
    /\ \A objs, name : Abs!ObjDefined(objs, name) <=> ObjDefined(objs, name)
    /\ \A objs, name : Abs!ObjWants(objs, name) <=> ObjWants(objs, name)
<1>1. \A d : Abs!parse_object(d) = parse_object(d)
  BY DEF Abs!parse_object, parse_object, Abs!Numbered, Numbered, Abs!IsLD, IsLD, Abs!T_LD, T_LD
<1>2. \A x, m : Abs!DeckOf(x, m) = DeckOf(x, m)
  BY DEF Abs!DeckOf, DeckOf
<1>3. \A x, name : Abs!Definers(x, name) = Definers(x, name)
  BY DEF Abs!Definers, Definers, Abs!IndexHits, IndexHits, Abs!HitMember, HitMember
<1>4. \A x, name : Abs!Includable(x, name) = Includable(x, name)
  <2>1. \A x, name : Abs!Named(x, name) = Named(x, name)
    BY DEF Abs!Named, Named
  <2> QED
    BY <1>3, <2>1 DEF Abs!Includable, Includable
<1>5. \A objs, name : Abs!ObjDefined(objs, name) <=> ObjDefined(objs, name)
  BY DEF Abs!ObjDefined, ObjDefined, Abs!Defines, Defines, Abs!is_sect_type, is_sect_type,
         Abs!T_SD, T_SD, Abs!T_PC, T_PC, Abs!T_CM, T_CM
<1>6. \A objs, name : Abs!ObjWants(objs, name) <=> ObjWants(objs, name)
  BY DEF Abs!ObjWants, ObjWants, Abs!T_ER, T_ER
<1> QED
  BY <1>1, <1>2, <1>3, <1>4, <1>5, <1>6

\* The set the abstract specification computes with is the object table's.
LEMMA SameObjects ==
    ASSUME TypeInv, HistoryInv, ViewInv
    PROVE  Abs!Objects = {O[k].obj : k \in DOMAIN O}
<1>0. job \in Job /\ DOMAIN O = 1..Len(O) /\ Len(O) \in Nat
  BY JobTyped DEF TypeInv, TypeOK
<1>1. DOMAIN job.explicit = 1..Len(job.explicit) /\ Len(job.explicit) \in Nat
  BY <1>0 DEF Job
<1>2. \A k \in DOMAIN job.explicit : k \in DOMAIN O /\ O[k].obj = parse_object(job.explicit[k])
  BY <1>0, <1>1 DEF HistoryInv, LoadOrder, ViewInv
<1>3. \A m \in pulled : \E k \in DOMAIN O : O[k].obj = parse_object(DeckOf(job, m))
  BY DEF HistoryInv, NeverTwice, ViewInv
<1>4. \A k \in DOMAIN O :
          \/ k \in DOMAIN job.explicit /\ O[k].obj = parse_object(job.explicit[k])
          \/ \E m \in pulled : O[k].obj = parse_object(DeckOf(job, m))
  BY <1>0, <1>1 DEF HistoryInv, LoadOrder, NeverTwice, ViewInv
<1> QED
  BY <1>2, <1>3, <1>4, SameOperators DEF Abs!Objects

\* So both specifications agree on what is defined, wanted and lacking.
LEMMA SameLacking ==
    ASSUME TypeInv, HistoryInv, ViewInv, NEW name \in Names
    PROVE  Abs!Lacking(name) <=>
              /\ ~is_defined(name)
              /\ name = job.entry \/ \E k \in DOMAIN O : WantedBy(k, name)
<1>1. Abs!Objects = {O[k].obj : k \in DOMAIN O}
  BY SameObjects
<1>2. ObjDefined(Abs!Objects, name) <=> is_defined(name)
  BY <1>1 DEF ObjDefined, is_defined
<1>3. ObjWants(Abs!Objects, name) <=> \E k \in DOMAIN O : WantedBy(k, name)
  BY <1>1 DEF ObjWants, WantedBy
<1> QED
  BY <1>2, <1>3, SameOperators DEF Abs!Lacking

\* Every step of the search is a step of LibraryCall or leaves its state alone.
LEMMA StepRefines ==
    TypeInv /\ HistoryInv /\ ViewInv /\ SweepInv /\ SweepInv' /\ [Next]_vars
        => [Abs!AbsNext]_(Abs!absvars)
<1> SUFFICES ASSUME TypeInv, HistoryInv, ViewInv, SweepInv, SweepInv', [Next]_vars
             PROVE  Abs!AbsNext \/ UNCHANGED Abs!absvars
  OBVIOUS
<1>0. StepShape /\ job' = job
  BY EveryStep DEF StepShape
<1>1. CASE ~Keeps
  <2>1. PICK m : \E name \in Names :
           GoodMember(m) /\ m \notin pulled /\ (Includes(m, name) \/ Calls(m, name))
    BY <1>0, <1>1 DEF StepShape
  <2>2. PICK name \in Names : Includes(m, name) \/ Calls(m, name)
    BY <2>1
  <2>3. CASE Includes(m, name)
    <3>1. /\ pc = "include" /\ pc' = "include" /\ pulled' = pulled \cup {m}
          /\ \E q \in DOMAIN job.include : m \in Includable(job, job.include[q]) \ pulled
      BY <2>1, <2>3 DEF Includes, pull_member
    <3>2. Abs!Include
      BY <1>0, <3>1, SameOperators DEF Abs!Include
    <3> QED
      BY <3>2 DEF Abs!AbsNext
  <2>4. CASE Calls(m, name)
    <3>1. /\ pc \in {"scan", "entry"} /\ pc' \in {"scan", "sweep"}
          /\ pulled' = pulled \cup {m} /\ m \in Definers(job, name) \ pulled
      BY <2>1, <2>4 DEF Calls, pull_member
    <3>2. Abs!Lacking(name)
      BY <2>4, SameLacking DEF Calls
    <3>3. Abs!Call
      BY <1>0, <3>1, <3>2, SameOperators DEF Abs!Call
    <3> QED
      BY <3>3 DEF Abs!AbsNext
  <2> QED
    BY <2>2, <2>3, <2>4
<1>2. CASE Keeps /\ IncludeMissing
  <2>1. Abs!Fail
    BY <1>0, <1>2, SameOperators DEF IncludeMissing, Keeps, Abs!Fail
  <2> QED
    BY <2>1 DEF Abs!AbsNext
<1>3. CASE Keeps /\ (IncludesDone \/ EntrySettled) /\ pc' = "done"
  <2>0. pc \in {"include", "entry"} /\ n \in Nat \ {0} /\ job \in Job
    BY <1>3, JobTyped DEF IncludesDone, EntrySettled, TypeInv, TypeOK
  <2>1. \A q \in DOMAIN job.include : q < n
    <3>1. CASE EntrySettled
      BY <3>1 DEF EntrySettled, ViewInv
    <3>2. CASE IncludesDone
      <4>1. n \notin DOMAIN job.include /\ DOMAIN job.include = 1..Len(job.include)
            /\ Len(job.include) \in Nat
        BY <2>0, <3>2 DEF IncludesDone, Job
      <4> QED
        BY <2>0, <4>1
    <3> QED
      BY <1>3, <3>1, <3>2
  <2>2. \A q \in DOMAIN job.include : Includable(job, job.include[q]) \cap pulled # {}
    BY <2>1 DEF ViewInv
  <2>3. ASSUME NEW name \in Names, Abs!Lacking(name)
        PROVE  Definers(job, name) \subseteq pulled
    <3>1. ~is_defined(name) /\ (name = job.entry \/ \E k \in DOMAIN O : WantedBy(k, name))
      BY <2>3, SameLacking
    <3>2. SearchClosed'
      BY DEF SweepInv
    <3>3. Candidates(name) = {}
      BY <1>0, <1>3, <3>1, <3>2 DEF Keeps, SearchClosed, is_defined, WantedBy, Candidates
    <3> QED
      BY <3>3 DEF Candidates, Definers
  <2>4. Abs!Close
    BY <1>0, <1>3, <2>0, <2>2, <2>3, SameOperators DEF Keeps, Abs!Close
  <2> QED
    BY <2>4 DEF Abs!AbsNext
<1>4. CASE Keeps /\ ~IncludeMissing /\ ~((IncludesDone \/ EntrySettled) /\ pc' = "done")
  <2>1. \/ pc' = pc
        \/ pc \notin {"done", "failed"} /\ pc' \notin {"done", "failed"}
    BY <1>4 DEF Next, Step, Finished, vars, IncludeAgain, IncludeMember, IncludesDone, StartSweep,
                SkipLocal, PullForLocal, NextObject, EndSweep, SeedEntry, EntrySettled, AtLocal
  <2> QED
    BY <1>0, <1>4, <2>1 DEF Keeps, Abs!absvars
<1> QED
  BY <1>1, <1>2, <1>3, <1>4

\* The search implements LibraryCall: whatever the order in which decks,
\* archives and index entries are met, members enter the link only when named
\* or needed, and the link closes only when the libraries have nothing left.
THEOREM SearchRefines == Spec => ImplementsLibraryCall
<1>1. Init => Abs!AbsInit
  BY DEF Init, Abs!AbsInit
<1>2. Spec => [](TypeInv /\ HistoryInv /\ ViewInv /\ SweepInv)
  BY InitType, NextType, InitHistory, NextHistory, InitView, NextView, InitSweep, NextSweep, PTL
     DEF Spec
<1> QED
  BY <1>1, <1>2, StepRefines, PTL DEF Spec, ImplementsLibraryCall, Abs!AbsSpec

(***************************************************************************)
(* The library search and the composite ESD together.                      *)
(***************************************************************************)

Objs == [k \in DOMAIN O |-> O[k].obj]

P == INSTANCE CompositeEsdProofs WITH
    O <- Objs, i <- gi, j <- gj, pc <- gpc, Inputs <- {}, AllowUnresolved <- FALSE

(***************************************************************************)
(* P and Link's P2 are one specification, and their copies of ObjectDeck's *)
(* definitions are ObjectDeck's.                                           *)
(***************************************************************************)
LEMMA SameDeck ==
    /\ P!T_SD = T_SD /\ P!T_LD = T_LD /\ P!T_LR = T_LR /\ P!T_ER = T_ER
    /\ P!T_PC = T_PC /\ P!T_CM = T_CM /\ P!T_WX = T_WX
    /\ \A o : P!IsObject(o) <=> IsObject(o)
    /\ \A o : P!PrivateIsBlank(o) <=> PrivateIsBlank(o)
    /\ \A t : P!is_sect_type(t) <=> is_sect_type(t)
<1> USE DEF P!T_SD, T_SD, P!T_LD, T_LD, P!T_LR, T_LR, P!T_ER, T_ER, P!T_PC, T_PC, P!T_CM, T_CM,
            P!T_WX, T_WX
<1>1. \A t : P!is_sect_type(t) <=> is_sect_type(t)
  BY DEF P!is_sect_type, is_sect_type
<1>2. P!EsdItem = EsdItem
  BY DEF P!EsdItem, EsdItem, P!DeckTypes, DeckTypes
<1>3. \A o : P!IsObject(o) <=> IsObject(o)
  BY <1>1, <1>2 DEF P!IsObject, IsObject
<1>4. \A o : P!PrivateIsBlank(o) <=> PrivateIsBlank(o)
  BY DEF P!PrivateIsBlank, PrivateIsBlank
<1> QED
  BY <1>1, <1>3, <1>4

LEMMA SameSteps ==
    ASSUME P2!EsdStep PROVE P!EsdStep
<1> USE DEF P!T_SD, P2!T_SD, P!T_LD, P2!T_LD, P!T_LR, P2!T_LR, P!T_ER, P2!T_ER, P!T_PC, P2!T_PC,
            P!T_CM, P2!T_CM, P!T_WX, P2!T_WX, Objs, P!used, P2!used, P!NoSym, P2!NoSym,
            P!g_find, P2!g_find, P!g_new, P2!g_new, P!g_intern, P2!g_intern, P!item, P2!item,
            P!AtLocal, P2!AtLocal, P!Tab, P2!Tab, P!At, P2!At, P!Bind, P2!Bind,
            P!AtLabel, P2!AtLabel, P!label, P2!label, P!OwnerKnown, P2!OwnerKnown,
            P!OwnerDropped, P2!OwnerDropped, P!LTab, P2!LTab, P!LAt, P2!LAt,
            P!AlreadyLabel, P2!AlreadyLabel, P!CsectOf, P2!CsectOf, P!CommonOf, P2!CommonOf,
            P!DefineSection, P2!DefineSection, P!MergeCommon, P2!MergeCommon,
            P!Unresolved, P2!Unresolved, P!Refused, P2!Refused
<1>1. P2!Unused => P!Unused BY Zenon DEF P!Unused, P2!Unused
<1>2. P2!PrivateCode => P!PrivateCode BY Zenon DEF P!PrivateCode, P2!PrivateCode
<1>3. P2!DuplicateSection => P!DuplicateSection BY Zenon DEF P!DuplicateSection, P2!DuplicateSection
<1>4. P2!FirstSection => P!FirstSection BY Zenon DEF P!FirstSection, P2!FirstSection
<1>5. P2!Common => P!Common BY Zenon DEF P!Common, P2!Common
<1>6. P2!Reference => P!Reference BY Zenon DEF P!Reference, P2!Reference
<1>7. P2!LocalsDone => P!LocalsDone BY Zenon DEF P!LocalsDone, P2!LocalsDone
<1>8. P2!LabelDropped => P!LabelDropped BY Zenon DEF P!LabelDropped, P2!LabelDropped
<1>9. P2!LabelAgain => P!LabelAgain BY Zenon DEF P!LabelAgain, P2!LabelAgain
<1>10. P2!FirstLabel => P!FirstLabel BY Zenon DEF P!FirstLabel, P2!FirstLabel
<1>11. P2!ObjectDone => P!ObjectDone BY Zenon DEF P!ObjectDone, P2!ObjectDone
<1>12. P2!Check => P!Check BY Zenon DEF P!Check, P2!Check
<1> QED
  BY <1>1, <1>2, <1>3, <1>4, <1>5, <1>6, <1>7, <1>8, <1>9, <1>10, <1>11, <1>12, Zenon
     DEF P!EsdStep, P2!EsdStep

LEMMA SameProperties ==
    /\ P2!StrongDiagnosed <=> P!StrongDiagnosed
    /\ P2!FirstKept <=> P!FirstKept
    /\ P2!RefusalExact <=> P!RefusalExact
    /\ NoMixed <=> P!NoMixed
    /\ \A g : P2!Unresolved(g) <=> P!Unresolved(g)
    /\ \A nm : P2!g_find(G, nm) = P!g_find(G, nm)
    /\ \A g, p : P2!IsSection(g, p) <=> P!IsSection(g, p)
    /\ \A g, p : P2!IsLabel(g, p) <=> P!IsLabel(g, p)
    /\ \A g : P2!CommonOf(g) <=> P!CommonOf(g)
<1> USE DEF P!T_SD, P2!T_SD, P!T_LR, P2!T_LR, P!T_ER, P2!T_ER, P!T_CM, P2!T_CM, Objs,
            P!NoSym, P2!NoSym
<1>1. \A t, nm : P2!Items(t, nm) = P!Items(t, nm)
  BY Zenon DEF P!Items, P2!Items
<1>2. \A p : P2!LocOf(p) = P!LocOf(p)
  BY Zenon DEF P!LocOf, P2!LocOf
<1>3. \A S : P2!Earliest(S) = P!Earliest(S)
  BY Zenon DEF P!Earliest, P2!Earliest, P!NotAfter, P2!NotAfter
<1>4. \A p : P2!KeptSection(p) <=> P!KeptSection(p)
  BY Zenon DEF P!KeptSection, P2!KeptSection, P!Items, P2!Items, P!LocOf, P2!LocOf,
               P!Earliest, P2!Earliest, P!NotAfter, P2!NotAfter
<1>5. \A nm : P2!Labels(nm) = P!Labels(nm)
  BY Zenon DEF P!Labels, P2!Labels, P!KeptSection, P2!KeptSection, P!Items, P2!Items,
               P!LocOf, P2!LocOf, P!Earliest, P2!Earliest, P!NotAfter, P2!NotAfter
<1>6. \A nm : P2!Mixed(nm) <=> P!Mixed(nm)
  BY <1>1, <1>5 DEF P!Mixed, P2!Mixed
<1>7. \A nm : P2!g_find(G, nm) = P!g_find(G, nm)
  BY Zenon DEF P!g_find, P2!g_find
<1>8. /\ \A g, p : P2!IsSection(g, p) <=> P!IsSection(g, p)
      /\ \A g, p : P2!IsLabel(g, p) <=> P!IsLabel(g, p)
  BY Zenon DEF P!IsSection, P2!IsSection, P!IsLabel, P2!IsLabel, P!LocOf, P2!LocOf
<1>9. \A nm : P2!FirstWins(nm) <=> P!FirstWins(nm)
  BY <1>1, <1>3, <1>5, <1>7, <1>8, Zenon DEF P!FirstWins, P2!FirstWins
<1>10. P2!Done <=> P!Done
  BY DEF P!Done, P2!Done
<1>11. P2!FirstKept <=> P!FirstKept
  BY <1>1, <1>4, <1>6, <1>9, <1>10 DEF P!FirstKept, P2!FirstKept
<1>12. \A nm : P2!Outgrown(nm) <=> P!Outgrown(nm)
  BY Zenon DEF P!Outgrown, P2!Outgrown, P!Items, P2!Items, P!LocOf, P2!LocOf, P!Longest, P2!Longest,
               P!Earliest, P2!Earliest, P!NotAfter, P2!NotAfter
<1>13. \A nm : P2!Undefined(nm) <=> P!Undefined(nm)
  BY <1>1, <1>5 DEF P!Undefined, P2!Undefined
<1>14. P2!RefusalExact <=> P!RefusalExact
  BY <1>6, <1>10, <1>12, <1>13 DEF P!RefusalExact, P2!RefusalExact
<1>15. P2!StrongDiagnosed <=> P!StrongDiagnosed
  BY Zenon DEF P!StrongDiagnosed, P2!StrongDiagnosed, P!Resolved, P2!Resolved
<1>16. NoMixed <=> P!NoMixed
  BY <1>6 DEF NoMixed, P!NoMixed
<1>17. /\ \A g : P2!Unresolved(g) <=> P!Unresolved(g)
       /\ \A g : P2!CommonOf(g) <=> P!CommonOf(g)
  BY DEF P!Unresolved, P2!Unresolved, P!CommonOf, P2!CommonOf
<1> QED
  BY <1>7, <1>8, <1>11, <1>14, <1>15, <1>16, <1>17

(***************************************************************************)
(* The inductive invariant.                                                *)
(***************************************************************************)
Searched == TypeInv /\ HistoryInv /\ SweepInv /\ ViewInv

\* PASS 2 has not begun.
NotBegun ==
    gpc = "idle" =>
        G = << >> /\ loc_g = << >> /\ dropped = {} /\ gi = 1 /\ gj = 1 /\ ncomerr = 0

\* PASS 2 runs over a table of objects that no longer changes.
Merging ==
    gpc # "idle" =>
        pc = "done" /\ P!EsdType /\ P!Sound /\ P!Accounted /\ (P!NoMixed => P!Merged)

LinkInv == Searched /\ NotBegun /\ Merging

\* The objects PASS 1 leaves are what PASS 2's lemmas ask for.
LEMMA ObjectsLoaded == TypeInv => P!Objects /\ P!Plain
<1> SUFFICES ASSUME TypeInv PROVE P!Objects /\ P!Plain
  OBVIOUS
<1>1. O \in Seq(Loaded)
  BY DEF TypeInv, TypeOK
<1>2. Len(O) \in Nat /\ DOMAIN O = 1..Len(O)
  BY <1>1
<1>3. ASSUME NEW k \in DOMAIN O PROVE IsObject(Objs[k]) /\ PrivateIsBlank(Objs[k])
  <2>1. O[k] \in Loaded
    BY <1>1
  <2>2. O[k].obj \in {parse_object(d) : d \in Decks}
    BY <2>1 DEF Loaded
  <2> QED BY <2>2, ObjectsAssumption DEF Objs
<1>4. DOMAIN Objs = 1..Len(O)
  BY <1>2 DEF Objs
<1>5. Len(Objs) = Len(O)
  BY <1>2, <1>4
<1> QED
  BY <1>2, <1>3, <1>4, <1>5, SameDeck DEF P!Objects, P!Plain

\* PASS 2 begins with an empty table.
Begun ==
    /\ TypeInv /\ pc = "done" /\ gpc = "loc"
    /\ G = << >> /\ loc_g = [k \in DOMAIN O |-> << >>] /\ dropped = {}
    /\ gi = 1 /\ gj = 1 /\ ncomerr = 0

LEMMA Begins == Begun => Merging
<1> SUFFICES ASSUME Begun PROVE Merging
  OBVIOUS
<1>1. P!Objects /\ nwarn \in Nat
  BY ObjectsLoaded DEF Begun, TypeInv, TypeOK
<1>2. loc_g = [k \in DOMAIN Objs |-> << >>]
  BY DEF Begun, Objs
<1>3. P!EsdType /\ P!Sound /\ P!Merged
  BY <1>1, <1>2, P!StartsMerged, NamesAssumption, MaxEsdAssumption DEF Begun
<1>4. P!Accounted
  BY <1>1, <1>2, P!StartsAccounted, NamesAssumption, MaxEsdAssumption DEF Begun
<1> QED
  BY <1>3, <1>4 DEF Begun, Merging

LEMMA InitLink == LinkInit => LinkInv
<1> SUFFICES ASSUME LinkInit PROVE LinkInv
  OBVIOUS
<1>1. Searched
  BY InitType, InitHistory, InitSweep, InitView DEF LinkInit, Searched
<1> QED
  BY <1>1 DEF LinkInit, LinkInv, NotBegun, Merging

\* PASS 2 leaves the search's variables alone but for the warnings' count.
LEMMA SearchKept ==
    ASSUME Searched, UNCHANGED searchvars, nwarn' \in Nat
    PROVE  Searched'
<1>1. UNCHANGED <<job, pc, O, pulled, n, i, j, cur, changed, seeded>>
  BY DEF searchvars
<1>2. TypeInv'
  BY <1>1 DEF Searched, TypeInv, TypeOK
<1>3. HistoryInv'
  BY <1>1 DEF Searched, HistoryInv, SourceInv, NeverTwice, OnlyNeeded, LoadOrder,
              CleanDefinerPreferred, DefinedBefore, WantedBy, ConflictsBefore
<1>4. SweepInv'
  BY <1>1 DEF Searched, SweepInv, SearchClosed, Settled, is_defined, Candidates, WantedBy
<1>5. ViewInv'
  BY <1>1 DEF Searched, ViewInv
<1> QED
  BY <1>2, <1>3, <1>4, <1>5 DEF Searched

\* Stutters in between leave everything.
LEMMA SearchGoesOn == Searched /\ [Next]_vars => Searched'
  BY NextType, NextHistory, NextSweep, NextView DEF Searched

LEMMA NextLink == LinkInv /\ [LinkNext]_linkvars => LinkInv'
<1> SUFFICES ASSUME LinkInv, [LinkNext]_linkvars PROVE LinkInv'
  OBVIOUS
<1>0. Searched /\ NotBegun /\ Merging
  BY DEF LinkInv
<1>1. CASE Pass1
  <2>1. Step /\ UNCHANGED <<G, loc_g, dropped, gi, gj, ncomerr, gpc>>
    BY <1>1 DEF Pass1
  <2>2. Searched'
    BY <1>0, <2>1, SearchGoesOn DEF Next
  <2>3. pc # "done"
    BY <2>1 DEF Step, IncludeMissing, IncludeAgain, IncludeMember, IncludesDone, StartSweep,
                SkipLocal, PullForLocal, NextObject, EndSweep, SeedEntry, EntrySettled, AtLocal
  <2>4. gpc = "idle"
    BY <1>0, <2>3 DEF Merging
  <2> QED BY <1>0, <2>1, <2>2, <2>4 DEF LinkInv, NotBegun, Merging
<1>2. CASE StartPass2
  <2>1. UNCHANGED <<vars, G, dropped, gi, gj, ncomerr>> /\ pc = "done" /\ gpc = "idle" /\ gpc' = "loc"
        /\ loc_g' = [k \in DOMAIN O |-> << >>]
    BY <1>2 DEF StartPass2
  <2>2. Searched'
    BY <1>0, <2>1, SearchGoesOn
  <2>3. Begun'
    BY <1>0, <2>1, <2>2 DEF NotBegun, vars, Begun, Searched
  <2>4. Merging'
    BY <2>3, Begins, PTL
  <2> QED BY <2>1, <2>2, <2>4 DEF LinkInv, NotBegun
<1>3. CASE Pass2
  <2>1. UNCHANGED searchvars /\ P!EsdStep
    BY <1>3, SameSteps DEF Pass2
  <2>2. gpc # "idle" /\ gpc' # "idle"
    BY <2>1 DEF P!EsdStep, P!Unused, P!PrivateCode, P!DuplicateSection, P!FirstSection, P!Common,
                P!Reference, P!LocalsDone, P!LabelDropped, P!LabelAgain, P!FirstLabel,
                P!ObjectDone, P!Check, P!AtLocal, P!AtLabel
  <2>3. pc = "done" /\ P!EsdType /\ P!Sound /\ P!Accounted /\ (P!NoMixed => P!Merged) /\ P!Plain
    BY <1>0, <2>2, ObjectsLoaded DEF Merging, Searched
  <2>4. P!EsdType' /\ P!Sound' /\ P!Accounted'
    BY <2>1, <2>3, P!StepType, P!StepSound, P!StepAccounted, NamesAssumption, MaxEsdAssumption
  <2>5. P!NoMixed => P!Merged'
    BY <2>1, <2>3, P!StepMerged, NamesAssumption, MaxEsdAssumption
  <2>6. P!NoMixed' => P!NoMixed
    <3>1. Objs' = Objs
      BY <2>1 DEF searchvars, Objs
    <3> QED BY <3>1, P!SameMixed, NamesAssumption, MaxEsdAssumption
  <2>7. Searched'
    BY <1>0, <2>1, <2>4, SearchKept DEF P!EsdType
  <2>8. pc' = "done"
    BY <2>1, <2>3 DEF searchvars
  <2> QED BY <2>2, <2>4, <2>5, <2>6, <2>7, <2>8 DEF LinkInv, NotBegun, Merging
<1>4. CASE UNCHANGED linkvars
  <2>1. UNCHANGED <<vars, G, loc_g, dropped, gi, gj, ncomerr, gpc>>
    BY <1>4 DEF linkvars
  <2>2. Searched' /\ NotBegun'
    BY <1>0, <2>1, SearchGoesOn DEF NotBegun
  <2>3. P!esdvars' = P!esdvars /\ pc' = pc
    BY <2>1 DEF P!esdvars, vars, Objs
  <2>4. Merging'
    BY <1>0, <2>1, <2>3, P!Stutters, NamesAssumption, MaxEsdAssumption DEF Merging
  <2> QED BY <2>2, <2>4 DEF LinkInv
<1> QED
  BY <1>1, <1>2, <1>3, <1>4 DEF LinkNext

LEMMA LinkInvariant == LinkSpec => []LinkInv
  BY InitLink, NextLink, PTL DEF LinkSpec

(***************************************************************************)
(* What the invariant gives.                                               *)
(***************************************************************************)
LEMMA CheckedTable ==
    ASSUME LinkInv, gpc # "idle"
    PROVE  /\ P!EsdType /\ P!Sound /\ P!Accounted /\ P!Plain /\ pc = "done"
           /\ P!NoMixed => P!Merged
  BY ObjectsLoaded DEF LinkInv, Searched, Merging

\* A link that is not refused leaves no strong reference of any object without
\* an address (PASS 2 behind the library search, any objects).
THEOREM StrongReferencesResolved == LinkSpec => []StrongDiagnosed
<1>1. LinkInv => StrongDiagnosed
  <2> SUFFICES ASSUME LinkInv PROVE P!StrongDiagnosed
    BY SameProperties DEF StrongDiagnosed
  <2>1. CASE gpc = "idle"
    BY <2>1 DEF P!StrongDiagnosed
  <2>2. CASE gpc # "idle"
    BY <2>2, CheckedTable, P!SoundDiagnoses, NamesAssumption, MaxEsdAssumption
  <2> QED BY <2>1, <2>2
<1> QED
  BY <1>1, LinkInvariant, PTL

\* The first section or label of a name is the one the table keeps, and the
\* sections dropped are exactly the later ones of their name.
THEOREM FirstDefinitionKept == LinkSpec => []FirstKept
<1>1. LinkInv => FirstKept
  <2> SUFFICES ASSUME LinkInv PROVE P!FirstKept
    BY SameProperties DEF FirstKept
  <2>1. CASE gpc = "idle" \/ ~P!NoMixed
    BY <2>1 DEF P!FirstKept, P!Done, P!NoMixed
  <2>2. CASE gpc # "idle" /\ P!NoMixed
    BY <2>2, CheckedTable, P!MergedKeeps, NamesAssumption, MaxEsdAssumption
  <2> QED BY <2>1, <2>2
<1> QED
  BY <1>1, LinkInvariant, PTL

\* The link is refused exactly for a common area that outgrows its section or a
\* strong reference without a definition.
THEOREM RefusedExactly == LinkSpec => []RefusalExact
<1>1. LinkInv => RefusalExact
  <2> SUFFICES ASSUME LinkInv PROVE P!RefusalExact
    BY SameProperties DEF RefusalExact
  <2>1. CASE gpc = "idle" \/ ~P!NoMixed
    BY <2>1 DEF P!RefusalExact, P!Done, P!NoMixed
  <2>2. CASE gpc # "idle" /\ P!NoMixed
    BY <2>2, CheckedTable, P!MergedRefuses, NamesAssumption, MaxEsdAssumption
  <2> QED BY <2>1, <2>2
<1> QED
  BY <1>1, LinkInvariant, PTL

\* What an index lists a name under is a member that defines it, in the link or
\* not; once linked, the object it became defines it.
LEMMA LinkedDefiner ==
    ASSUME Searched, NEW name, NEW m \in Definers(job, name),
           NEW k \in DOMAIN O, O[k].kind # "explicit", O[k].src = m
    PROVE  Defines(O[k].obj, name) /\ name \in Names /\ name # Blank
<1>1. job \in Jobs /\ O[k].obj = parse_object(DeckOf(job, m))
  BY DEF Searched, TypeInv, TypeOK, ViewInv
<1>2. PICK h \in IndexHits(job, name) : m = HitMember(job, h)
  BY DEF Definers
<1>3. Defines(O[k].obj, name)
  BY <1>1, <1>2, HitsTyped
<1>4. PICK x \in DOMAIN job.ar : \E y \in DOMAIN job.ar[x].sym : job.ar[x].sym[y].name = name
  BY <1>2 DEF IndexHits
<1>5. PICK y \in DOMAIN job.ar[x].sym : job.ar[x].sym[y].name = name
  BY <1>4
<1>6. name # Blank
  BY <1>1, <1>5, IndexNamesAssumption
<1>7. job.ar[x].sym \in Seq(IndexEntry)
  BY <1>1, JobTyped DEF Archive
<1>8. job.ar[x].sym[y] \in IndexEntry
  BY <1>7
<1> QED
  BY <1>3, <1>5, <1>6, <1>8 DEF IndexEntry

\* A link is refused for a reference only when no library could have defined it
\* or its definition went with a duplicate section.
THEOREM RefusalHasReason == LinkSpec => []RefusedWithReason
<1>1. LinkInv => RefusedWithReason
  <2> SUFFICES ASSUME LinkInv, gpc = "failed", NEW name \in Missing, ~LabelLost(name),
                      NEW m \in Definers(job, name)
               PROVE  FALSE
    BY DEF RefusedWithReason
  <2>1. Searched /\ P!EsdType /\ P!Sound /\ P!Accounted /\ P!Plain /\ pc = "done"
    BY CheckedTable DEF LinkInv
  <2>2. PICK k \in DOMAIN G : P!Unresolved(G[k]) /\ name = G[k].name
    BY SameProperties DEF Missing
  <2>3. /\ P!Strongly(name) /\ name \in Names
        /\ \A a \in DOMAIN Objs : \A id \in DOMAIN Objs[a].loc :
               is_sect_type(Objs[a].loc[id].type) => Objs[a].loc[id].name # name
        /\ \A a \in DOMAIN Objs : \A x \in DOMAIN Objs[a].ld :
               Objs[a].ld[x].name = name => <<a, Objs[a].ld[x].len>> \in dropped
    BY <2>1, <2>2, P!LeftUnresolved, SameDeck, NamesAssumption, MaxEsdAssumption DEF P!Done
  <2>4. ~is_defined(name)
    BY <2>3 DEF is_defined, Defines, LabelLost, Objs
  <2>5. \E a \in DOMAIN O : WantedBy(a, name)
    BY <2>3, SameDeck DEF P!Strongly, P!Is, WantedBy, Objs
  <2>6. Candidates(name) = {}
    BY <2>1, <2>3, <2>4, <2>5 DEF Searched, SweepInv, SearchClosed
  <2>7. m \in pulled
    BY <2>6 DEF Definers, Candidates
  <2>8. PICK l \in DOMAIN O : O[l].kind # "explicit" /\ O[l].src = m
    BY <2>1, <2>7 DEF Searched, HistoryInv, NeverTwice
  <2>9. Defines(O[l].obj, name)
    BY <2>1, <2>8, LinkedDefiner
  <2> QED BY <2>4, <2>9 DEF is_defined
<1> QED
  BY <1>1, LinkInvariant, PTL

\* What a member was autocalled for is what the link takes from it.
THEOREM DefinerTaken == LinkSpec => []DefinerUsed
<1>1. LinkInv => DefinerUsed
  <2> SUFFICES ASSUME LinkInv, Checked, NoMixed, NEW k \in DOMAIN O, O[k].kind = "autocall",
                      NEW w, w = O[k].why, ~LabelLost(w)
               PROVE  DefinedIn(k, w)
    BY DEF DefinerUsed
  <2>1. /\ Searched /\ P!EsdType /\ P!Plain /\ P!Merged /\ P!Done
    BY CheckedTable, SameProperties DEF LinkInv, Checked, P!Done
  <2>2. O[k].src \in Definers(job, w) /\ ~DefinedBefore(k - 1, w)
    BY <2>1 DEF Searched, HistoryInv, OnlyNeeded
  <2>3. Defines(O[k].obj, w) /\ w # Blank
    BY <2>1, <2>2, LinkedDefiner
  <2>4. \A o : P!Defines(o, w) <=> Defines(o, w)
    BY SameDeck DEF P!Defines, Defines
  <2>5. Objs[k] = O[k].obj /\ k \in DOMAIN Objs /\ DOMAIN Objs = DOMAIN O
    BY DEF Objs
  <2>6. ASSUME NEW b \in DOMAIN Objs, b < k PROVE ~Defines(Objs[b], w)
    <3>1. b \in 1..(k - 1) /\ Objs[b] = O[b].obj
      <4>1. O \in Seq(Loaded)
        BY <2>1 DEF Searched, TypeInv, TypeOK
      <4> QED BY <2>5, <2>6, <4>1 DEF Objs
    <3> QED BY <2>2, <3>1 DEF DefinedBefore
  <2>7. \A x \in DOMAIN Objs[k].ld : Objs[k].ld[x].name = w => <<k, Objs[k].ld[x].len>> \notin dropped
    BY <2>5 DEF LabelLost
  <2> DEFINE g == G[P!g_find(G, w)]
  <2>8. \/ \E id : P!Is(T_SD, w, k, id) /\ P!IsSection(g, <<k, id>>)
        \/ g.is_sect /\ \E id : P!Is(T_CM, w, k, id)
        \/ \E x \in DOMAIN Objs[k].ld : Objs[k].ld[x].name = w /\ P!IsLabel(g, <<k, x>>)
    <3>1. P!Defines(Objs[k], w) /\ \A b \in DOMAIN Objs : b < k => ~P!Defines(Objs[b], w)
      BY <2>3, <2>4, <2>5, <2>6
    <3> QED
      BY <2>1, <2>3, <2>5, <2>7, <3>1, P!FirstDefinerTaken, SameDeck, NamesAssumption, MaxEsdAssumption
  <2> HIDE DEF g
  <2>9. G[P2!g_find(G, w)] = g
    BY SameProperties DEF g
  <2>10. \A id : /\ P!Is(T_SD, w, k, id) => id \in DOMAIN O[k].obj.loc /\ O[k].obj.loc[id].type = T_SD
                                              /\ O[k].obj.loc[id].name = w
                 /\ P!Is(T_CM, w, k, id) => id \in DOMAIN O[k].obj.loc /\ O[k].obj.loc[id].type = T_CM
                                              /\ O[k].obj.loc[id].name = w
    BY <2>5 DEF P!Is
  <2> QED
    BY <2>5, <2>8, <2>9, <2>10, SameProperties DEF DefinedIn
<1> QED
  BY <1>1, LinkInvariant, PTL

\* A composite symbol keeps its name and place, a section stays one, a strong
\* reference never turns weak, a common area never shrinks, in any step.
THEOREM SymbolsOnlyHarden == LinkSpec => OnlyHardens
<1> DEFINE A == \A k \in DOMAIN G :
                  /\ k \in DOMAIN G' /\ G'[k].name = G[k].name
                  /\ G[k].is_sect => G'[k].is_sect
                  /\ G[k].type # T_WX => G'[k].type # T_WX
                  /\ P2!CommonOf(G[k]) /\ P2!CommonOf(G'[k]) => G'[k].len >= G[k].len
<1>1. LinkInv /\ [LinkNext]_linkvars => [A]_linkvars
  <2> SUFFICES ASSUME LinkInv, LinkNext, ~UNCHANGED linkvars PROVE A
    OBVIOUS
  <2>1. CASE Pass2
    <3>1. P!EsdStep
      BY <2>1, SameSteps DEF Pass2
    <3>2. gpc # "idle"
      BY <3>1 DEF P!EsdStep, P!Unused, P!PrivateCode, P!DuplicateSection, P!FirstSection, P!Common,
                  P!Reference, P!LocalsDone, P!LabelDropped, P!LabelAgain, P!FirstLabel,
                  P!ObjectDone, P!Check, P!AtLocal, P!AtLabel
    <3>3. \A k \in DOMAIN G : P!Hardens(k)
      BY <3>1, <3>2, CheckedTable, P!StepHardens, NamesAssumption, MaxEsdAssumption
    <3> QED BY <3>3, SameDeck, SameProperties DEF P!Hardens
  <2>2. CASE Pass1 \/ StartPass2
    <3>1. G' = G
      BY <2>2 DEF Pass1, StartPass2
    <3>2. \A k \in DOMAIN G : P2!CommonOf(G[k]) => G[k].len \in Nat
      <4>1. CASE gpc = "idle"
        BY <4>1 DEF LinkInv, NotBegun
      <4>2. CASE gpc # "idle"
        <5>1. G \in Seq(P!GSym)
          BY <4>2, CheckedTable DEF P!EsdType
        <5>2. \A k \in DOMAIN G : G[k] \in P!GSym
          BY <5>1
        <5> QED BY <5>2 DEF P!GSym
      <4> QED BY <4>1, <4>2
    <3> QED BY <3>1, <3>2
  <2> QED BY <2>1, <2>2 DEF LinkNext
<1>2. LinkSpec => [][A]_linkvars
  BY <1>1, LinkInvariant, PTL DEF LinkSpec
<1> QED
  BY <1>2 DEF OnlyHardens
=============================================================================
