------------------------------ MODULE Autocall ------------------------------
(***************************************************************************)
(* ld370's PASS 1 after the archives are loaded: the explicit objects are  *)
(* in O, --include members are forced in, then automatic library call runs *)
(* sweeps over the objects until a sweep pulls nothing, then the entry     *)
(* point is looked up by name and, if a member was pulled for it, the      *)
(* sweeps run again.  Pulled members are appended to O while a sweep walks *)
(* it; the sweep stops at the length O had when it began (cur).            *)
(***************************************************************************)
EXTENDS LinkJob

VARIABLES
    job,        \* the command line
    pc,         \* where main() is
    O,          \* loaded objects, in load order
    pulled,     \* members already pulled, <<archive, offset>>
    n,          \* do_includes: position in the --include list
    i, j, cur,  \* autocall: object, local ESDID, objects at sweep start
    changed,    \* autocall: this sweep pulled something
    seeded,     \* the entry point has been called by name
    nwarn       \* shadowed-definer warnings

vars == <<job, pc, O, pulled, n, i, j, cur, changed, seeded, nwarn>>

Kinds == {"explicit", "include", "autocall"}
Loaded == [obj : {parse_object(d) : d \in Decks}, kind : Kinds,
           src : (Nat \X Nat) \cup {<< >>}, why : Names \cup {NoName}]

\* Faulty variant: labels are not looked at.
is_defined_section(name) ==
    \E k \in DOMAIN O : \E l \in DOMAIN O[k].obj.loc :
        is_sect_type(O[k].obj.loc[l].type) /\ O[k].obj.loc[l].name = name

\* is_defined: by any object loaded so far.
is_defined(name) == \E k \in DOMAIN O : Defines(O[k].obj, name)

\* member_conflicts: the member would define again a name that is defined.
member_conflicts(m) == \E name \in Strong(DeckOf(job, m)) : is_defined(name)

\* Archive order, then order in the archive.
Before(p, q) == p[1] < q[1] \/ (p[1] = q[1] /\ p[2] <= q[2])
First(S) == CHOOSE p \in S : \A q \in S : Before(p, q)

\* Faulty variant: the first hit, clean or not.
PreferFirst(hits) == HitMember(job, First(hits))

\* The first hit whose member does not conflict, else the first hit.
PreferClean(hits) ==
    LET clean == {h \in hits : ~member_conflicts(HitMember(job, h))}
    IN HitMember(job, First(IF clean # {} THEN clean ELSE hits))

\* pull_definer's candidate list: definers not pulled before.
Candidates(want) == {h \in IndexHits(job, want) : HitMember(job, h) \notin pulled}

\* find_include: by member name, else by a symbol, pulled before or not.
find_include(name) ==
    IF Named(job, name) # {} THEN First(Named(job, name)) ELSE PreferClean(IndexHits(job, name))

\* report_definers: one warning for passed-over decks in the pick's archive,
\* one for those in other archives when --warn-shadow asks for it.
Shadows(want, pick) ==
    LET others == {h \in Candidates(want) : DeckOf(job, HitMember(job, h)) # DeckOf(job, pick)}
    IN (IF \E h \in others : h[1] = pick[1] THEN 1 ELSE 0)
       + (IF job.warnShadow /\ \E h \in others : h[1] # pick[1] THEN 1 ELSE 0)

pull_member(m, kind, why) ==
    /\ O' = Append(O, [obj |-> parse_object(DeckOf(job, m)), kind |-> kind, src |-> m, why |-> why])
    /\ pulled' = pulled \cup {m}

pull_definer(want) ==
    LET pick == PreferClean(Candidates(want))
    IN /\ Candidates(want) # {}
       /\ pull_member(pick, "autocall", want)
       /\ nwarn' = nwarn + Shadows(want, pick)

\* --------------------------------------------------------------------------
Init ==
    /\ job \in Jobs
    /\ pc = "include"
    /\ O = [k \in DOMAIN job.explicit |->
              [obj |-> parse_object(job.explicit[k]), kind |-> "explicit",
               src |-> << >>, why |-> NoName]]
    /\ pulled = {}
    /\ n = 1
    /\ i = 1 /\ j = 1 /\ cur = 0
    /\ changed = TRUE
    /\ seeded = FALSE
    /\ nwarn = 0

\* Faulty variant: a name nothing provides is passed over.
IncludeSkipped ==
    /\ pc = "include" /\ n \in DOMAIN job.include
    /\ Includable(job, job.include[n]) = {}
    /\ n' = n + 1
    /\ UNCHANGED <<job, pc, O, pulled, i, j, cur, changed, seeded, nwarn>>

IncludeMissing ==
    /\ pc = "include" /\ n \in DOMAIN job.include
    /\ Includable(job, job.include[n]) = {}
    /\ pc' = "failed"
    /\ UNCHANGED <<job, O, pulled, n, i, j, cur, changed, seeded, nwarn>>

IncludeAgain ==
    /\ pc = "include" /\ n \in DOMAIN job.include
    /\ Includable(job, job.include[n]) # {}
    /\ find_include(job.include[n]) \in pulled
    /\ n' = n + 1
    /\ UNCHANGED <<job, pc, O, pulled, i, j, cur, changed, seeded, nwarn>>

\* Faulty variant: a member that is in the link is included again.
IncludeTwice ==
    /\ pc = "include" /\ n \in DOMAIN job.include
    /\ Includable(job, job.include[n]) # {}
    /\ pull_member(find_include(job.include[n]), "include", job.include[n])
    /\ n' = n + 1
    /\ UNCHANGED <<job, pc, i, j, cur, changed, seeded, nwarn>>

IncludeMember ==
    /\ pc = "include" /\ n \in DOMAIN job.include
    /\ Includable(job, job.include[n]) # {}
    /\ find_include(job.include[n]) \notin pulled
    /\ pull_member(find_include(job.include[n]), "include", job.include[n])
    /\ n' = n + 1
    /\ UNCHANGED <<job, pc, i, j, cur, changed, seeded, nwarn>>

\* With no archive neither autocall nor the entry lookup runs.
IncludesDone ==
    /\ pc = "include" /\ n \notin DOMAIN job.include
    /\ pc' = IF job.ar = << >> THEN "done" ELSE "sweep"
    /\ UNCHANGED <<job, O, pulled, n, i, j, cur, changed, seeded, nwarn>>

\* Faulty variant: the flag is not cleared for the new sweep.
StartSweepDirty ==
    /\ pc = "sweep" /\ changed
    /\ cur' = Len(O) /\ i' = 1 /\ j' = 1
    /\ pc' = "scan"
    /\ UNCHANGED <<job, O, pulled, n, changed, seeded, nwarn>>

StartSweep ==
    /\ pc = "sweep" /\ changed
    /\ cur' = Len(O) /\ changed' = FALSE /\ i' = 1 /\ j' = 1
    /\ pc' = "scan"
    /\ UNCHANGED <<job, O, pulled, n, seeded, nwarn>>

AtLocal == pc = "scan" /\ i <= cur /\ j < MAXESD

\* Faulty variant: a weak reference is searched for too.
SearchingWeak ==
    /\ used(O[i].obj, j)
    /\ O[i].obj.loc[j].type \in {T_ER, T_WX}
    /\ ~is_defined(O[i].obj.loc[j].name)

\* The reference at (i, j) is strong and nothing loaded defines it.
Searching ==
    /\ used(O[i].obj, j)
    /\ O[i].obj.loc[j].type = T_ER
    /\ ~is_defined(O[i].obj.loc[j].name)

SkipLocal ==
    /\ AtLocal
    /\ Searching => Candidates(O[i].obj.loc[j].name) = {}
    /\ j' = j + 1
    /\ UNCHANGED <<job, pc, O, pulled, n, i, cur, changed, seeded, nwarn>>

PullForLocal ==
    /\ AtLocal /\ Searching
    /\ pull_definer(O[i].obj.loc[j].name)
    /\ changed' = TRUE
    /\ j' = j + 1
    /\ UNCHANGED <<job, pc, n, i, cur, seeded>>

NextObject ==
    /\ pc = "scan" /\ i <= cur /\ j >= MAXESD
    /\ i' = i + 1 /\ j' = 1
    /\ UNCHANGED <<job, pc, O, pulled, n, cur, changed, seeded, nwarn>>

\* Faulty variant: one sweep only.
EndOnlySweep ==
    /\ pc = "scan" /\ i > cur
    /\ pc' = "entry"
    /\ UNCHANGED <<job, O, pulled, n, i, j, cur, changed, seeded, nwarn>>

EndSweep ==
    /\ pc = "scan" /\ i > cur
    /\ pc' = IF changed THEN "sweep" ELSE "entry"
    /\ UNCHANGED <<job, O, pulled, n, i, j, cur, changed, seeded, nwarn>>

\* The fixpoint is reached; the entry point is a reference too.
EntryMissing == ~seeded /\ job.entry # NoName /\ ~is_defined(job.entry)

SeedEntry ==
    /\ pc = "entry" /\ EntryMissing
    /\ pull_definer(job.entry)
    /\ seeded' = TRUE /\ changed' = TRUE
    /\ pc' = "sweep"
    /\ UNCHANGED <<job, n, i, j, cur>>

EntrySettled ==
    /\ pc = "entry"
    /\ EntryMissing => Candidates(job.entry) = {}
    /\ pc' = "done"
    /\ UNCHANGED <<job, O, pulled, n, i, j, cur, changed, seeded, nwarn>>

Finished == pc \in {"done", "failed"} /\ UNCHANGED vars

Step ==
    \/ IncludeMissing \/ IncludeAgain \/ IncludeMember \/ IncludesDone
    \/ StartSweep \/ SkipLocal \/ PullForLocal \/ NextObject \/ EndSweep
    \/ SeedEntry \/ EntrySettled

Next == Step \/ Finished

Spec == Init /\ [][Next]_vars

\* ld370 is one sequential process: a step that can be taken is taken.
FairSpec == Spec /\ WF_vars(Step)

-----------------------------------------------------------------------------
\* Properties.

\* Every variable has the shape the C program gives it.
TypeOK ==
    /\ job \in Jobs
    /\ pc \in {"include", "sweep", "scan", "entry", "done", "failed"}
    /\ O \in Seq(Loaded)
    /\ pulled \subseteq Nat \X Nat
    /\ n \in Nat \ {0} /\ i \in Nat \ {0} /\ j \in Nat \ {0} /\ cur \in Nat
    /\ changed \in BOOLEAN /\ seeded \in BOOLEAN
    /\ nwarn \in Nat

WantedBy(k, name) == \E l \in DOMAIN O[k].obj.loc :
    O[k].obj.loc[l].type = T_ER /\ O[k].obj.loc[l].name = name

\* When the library search ends, no library still holds an unpulled definer of
\* a strong reference or entry point that is undefined: the sweeps really
\* reached a fixpoint, although members were appended to O behind the snapshot
\* a sweep ran to and although the entry member is pulled after the fixpoint.
SearchClosed ==
    pc = "done" =>
        \A name \in Names :
            /\ ~is_defined(name)
            /\ name = job.entry \/ \E k \in DOMAIN O : WantedBy(k, name)
            => Candidates(name) = {}

\* A name is defined by one of the first k objects.
DefinedBefore(k, name) == \E l \in 1..k : Defines(O[l].obj, name)

\* A library member is linked by autocall only when nothing loaded before it
\* defined the name it was pulled for, when that name was an entry point or a
\* strong (not a weak) reference of an object loaded before it, and when it is
\* a definer of it: nothing an explicit or included object defines is searched.
OnlyNeeded ==
    \A k \in DOMAIN O : O[k].kind = "autocall" =>
        /\ O[k].src \in Definers(job, O[k].why)
        /\ ~DefinedBefore(k - 1, O[k].why)
        /\ O[k].why = job.entry \/ \E l \in 1..(k - 1) : WantedBy(l, O[k].why)

\* One member is never linked twice, whether --include or autocall asks for it,
\* under one name or several; pulled[] is exactly the members in O[].
NeverTwice ==
    /\ \A k, l \in DOMAIN O :
           O[k].kind # "explicit" /\ O[k].src = O[l].src => k = l
    /\ pulled = {O[k].src : k \in {l \in DOMAIN O : O[l].kind # "explicit"}}

\* Objects keep the order the composite ESD relies on: the command line's, then
\* the --include members, then the autocalled ones.
LoadOrder ==
    /\ Len(O) >= Len(job.explicit)
    /\ \A k \in DOMAIN O :
           (O[k].kind = "explicit") <=> (k <= Len(job.explicit))
    /\ \A k, l \in DOMAIN O : k < l /\ O[k].kind = "autocall" => O[l].kind = "autocall"

\* The strong names of O[k]'s member that the objects before it define.
ConflictsBefore(k, m) == \E name \in Strong(DeckOf(job, m)) : DefinedBefore(k - 1, name)

\* A member that defines again what is defined already is autocalled only when
\* every other definer of the name sought did too, or was in the link before.
CleanDefinerPreferred ==
    \A k \in DOMAIN O :
        O[k].kind = "autocall" /\ ConflictsBefore(k, O[k].src) =>
            \A m \in Definers(job, O[k].why) :
                ConflictsBefore(k, m) \/ \E l \in 1..(k - 1) : O[l].src = m

\* The sweeps end: the link leaves PASS 1 or reports the missing --include.
Termination == <>(pc \in {"done", "failed"})

\* The search implements the order-free promise of LibraryCall.
Abs == INSTANCE LibraryCall WITH
    linked <- pulled,
    status <- IF pc = "done" THEN "closed" ELSE IF pc = "failed" THEN "failed" ELSE "open"
ImplementsLibraryCall == Abs!AbsSpec
=============================================================================
