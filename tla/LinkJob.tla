------------------------------ MODULE LinkJob ------------------------------
(***************************************************************************)
(* What one ld370 command line gives the link: object decks, archives, the *)
(* --include names, the --entry name and --warn-shadow.  An archive is its *)
(* symbol index and its members; a member's header offset is represented   *)
(* by its position.  base is a member's file name as --include compares it *)
(* (suffix .o dropped, letter case folded).                                *)
(***************************************************************************)
EXTENDS ObjectDeck

CONSTANTS
    Decks,      \* the object decks that exist
    Jobs,       \* the command lines considered
    NoName      \* no --entry given

Member == [base : Names, deck : Decks]
IndexEntry == [name : Names, off : Nat]
Archive == [sym : Seq(IndexEntry), mem : Seq(Member)]
Job == [explicit : Seq(Decks), ar : Seq(Archive), include : Seq(Names),
        entry : Names \cup {NoName}, warnShadow : BOOLEAN]

ASSUME DecksAssumption == Decks \subseteq {d \in Deck : WellNumbered(d)}
ASSUME NoNameAssumption == NoName \notin Names
ASSUME JobsAssumption == Jobs \subseteq Job

(***************************************************************************)
(* The index is the one ar370 writes: every entry points at a member, and  *)
(* the member, once parsed, defines the entry's name.                      *)
(***************************************************************************)
IndexSound(job) ==
    \A a \in DOMAIN job.ar : \A s \in DOMAIN job.ar[a].sym :
        LET e == job.ar[a].sym[s]
        IN /\ e.off \in DOMAIN job.ar[a].mem
           /\ Defines(parse_object(job.ar[a].mem[e.off].deck), e.name)

ASSUME IndexAssumption == \A job \in Jobs : IndexSound(job)

\* A member of job's libraries is <<archive, offset>>.
DeckOf(job, m) == job.ar[m[1]].mem[m[2]].deck

\* Index positions <<archive, s>> that list name, and the member each gives.
IndexHits(job, name) ==
    UNION {{<<a, s>> : s \in {t \in DOMAIN job.ar[a].sym : job.ar[a].sym[t].name = name}} :
           a \in DOMAIN job.ar}
HitMember(job, h) == <<h[1], job.ar[h[1]].sym[h[2]].off>>

\* Every member the indexes list for name.
Definers(job, name) == {HitMember(job, h) : h \in IndexHits(job, name)}

\* Every member with that base name.
Named(job, name) ==
    UNION {{<<a, m>> : m \in {k \in DOMAIN job.ar[a].mem : job.ar[a].mem[k].base = name}} :
           a \in DOMAIN job.ar}

\* What --include name may bring in: members of that name, else definers.
Includable(job, name) ==
    IF Named(job, name) # {} THEN Named(job, name) ELSE Definers(job, name)

ObjDefined(objs, name) == \E o \in objs : Defines(o, name)
ObjWants(objs, name) ==
    \E o \in objs : \E j \in DOMAIN o.loc : o.loc[j].type = T_ER /\ o.loc[j].name = name
=============================================================================
