---------------------------- MODULE LibraryCall ----------------------------
(***************************************************************************)
(* What inclusion and automatic library call promise, with no order in it: *)
(* a set of library members grows, each one brought in because --include   *)
(* names it or because it defines a strong reference (or the entry point)  *)
(* that nothing linked defines, and the link closes only when no library   *)
(* member is left that defines such a name.                                *)
(***************************************************************************)
EXTENDS LinkJob

VARIABLES
    job,        \* the command line
    linked,     \* library members in the link
    status      \* "open", "closed", or "failed"

absvars == <<job, linked, status>>

Objects == {parse_object(job.explicit[k]) : k \in DOMAIN job.explicit}
           \cup {parse_object(DeckOf(job, m)) : m \in linked}

\* A name the link still lacks: a strong reference, or the entry point.
Lacking(name) ==
    /\ name \in Names
    /\ ~ObjDefined(Objects, name)
    /\ ObjWants(Objects, name) \/ name = job.entry

AbsInit ==
    /\ job \in Jobs
    /\ linked = {}
    /\ status = "open"

Include ==
    /\ status = "open"
    /\ \E n \in DOMAIN job.include : \E m \in Includable(job, job.include[n]) \ linked :
           linked' = linked \cup {m}
    /\ UNCHANGED <<job, status>>

Call ==
    /\ status = "open"
    /\ \E name \in Names :
           /\ Lacking(name)
           /\ \E m \in Definers(job, name) \ linked : linked' = linked \cup {m}
    /\ UNCHANGED <<job, status>>

Close ==
    /\ status = "open"
    /\ \A n \in DOMAIN job.include : Includable(job, job.include[n]) \cap linked # {}
    /\ \A name \in Names : Lacking(name) => Definers(job, name) \subseteq linked
    /\ status' = "closed"
    /\ UNCHANGED <<job, linked>>

Fail ==
    /\ status = "open"
    /\ \E n \in DOMAIN job.include : Includable(job, job.include[n]) = {}
    /\ status' = "failed"
    /\ UNCHANGED <<job, linked>>

AbsNext == Include \/ Call \/ Close \/ Fail

AbsSpec == AbsInit /\ [][AbsNext]_absvars
=============================================================================
