-------------------------------- MODULE Link --------------------------------
(***************************************************************************)
(* ld370 from the loaded command line to the resolved composite ESD: PASS  *)
(* 1's inclusion and automatic library call (Autocall), then PASS 2        *)
(* (CompositeEsd) over the objects it left, in the order it left them.     *)
(* The search decides from what the objects define as they are read; PASS  *)
(* 2 drops duplicate sections with their labels afterwards.                *)
(***************************************************************************)
EXTENDS Autocall

\* The decks are as370's: labels have their section in the deck, and only private
\* code is unnamed.
ASSUME ObjectsAssumption ==
    \A d \in Decks : IsObject(parse_object(d)) /\ PrivateIsBlank(parse_object(d))

\* ar370 lists no unnamed symbol.
ASSUME IndexNamesAssumption ==
    \A line \in Jobs : \A a \in DOMAIN line.ar : \A s \in DOMAIN line.ar[a].sym :
        line.ar[a].sym[s].name # Blank

VARIABLES
    G, loc_g, dropped, gi, gj, ncomerr,     \* PASS 2, see CompositeEsd
    gpc                                     \* "idle" until PASS 1 is over

searchvars == <<job, pc, O, pulled, n, i, j, cur, changed, seeded>>
linkvars == <<vars, G, loc_g, dropped, gi, gj, ncomerr, gpc>>

\* PASS 2 goes through the same object array and counts the same warnings.
P2 == INSTANCE CompositeEsd WITH
    O <- [k \in DOMAIN O |-> O[k].obj], i <- gi, j <- gj, pc <- gpc,
    Inputs <- {}, AllowUnresolved <- FALSE

LinkInit ==
    /\ Init
    /\ G = << >> /\ loc_g = << >> /\ dropped = {}
    /\ gi = 1 /\ gj = 1 /\ ncomerr = 0
    /\ gpc = "idle"

Pass1 ==
    /\ Step
    /\ UNCHANGED <<G, loc_g, dropped, gi, gj, ncomerr, gpc>>

StartPass2 ==
    /\ pc = "done" /\ gpc = "idle"
    /\ gpc' = "loc"
    /\ loc_g' = [k \in DOMAIN O |-> << >>]
    /\ UNCHANGED <<vars, G, dropped, gi, gj, ncomerr>>

Pass2 == UNCHANGED searchvars /\ P2!EsdStep

Over == pc = "failed" \/ gpc \in {"failed", "resolved"}

LinkNext == Pass1 \/ StartPass2 \/ Pass2 \/ (Over /\ UNCHANGED linkvars)

LinkSpec == LinkInit /\ [][LinkNext]_linkvars

-----------------------------------------------------------------------------
\* Properties.

Checked == gpc \in {"failed", "resolved"}
NoMixed == \A name \in Names : ~P2!Mixed(name)

\* Some object's label of that name went with a duplicate section.
LabelLost(name) ==
    \E a \in DOMAIN O : \E x \in DOMAIN O[a].obj.ld :
        O[a].obj.ld[x].name = name /\ <<a, O[a].obj.ld[x].len>> \in dropped

\* What the table holds of name is object a's section or label, or the common
\* area a contributes to.
DefinedIn(a, name) ==
    LET g == G[P2!g_find(G, name)]
        loc == O[a].obj.loc
        ld == O[a].obj.ld
    IN \/ \E id \in DOMAIN loc : /\ loc[id].type = T_SD /\ loc[id].name = name
                                /\ P2!IsSection(g, <<a, id>>)
       \/ g.is_sect /\ \E id \in DOMAIN loc : loc[id].type = T_CM /\ loc[id].name = name
       \/ \E x \in DOMAIN ld : ld[x].name = name /\ P2!IsLabel(g, <<a, x>>)

\* What a member was autocalled for is what the link takes from it: of all the
\* definitions of the name, in objects loaded before and after, the reference
\* binds to the member's, so is_defined and PASS 2 agree on who defines what.
\* (Except names of labels that went with a duplicate section.  A name that is
\* a label here and a section there disturbs others too: its later sections are
\* not dropped, and their labels stay.)
DefinerUsed ==
    Checked /\ NoMixed =>
        \A k \in DOMAIN O :
            O[k].kind = "autocall" /\ ~LabelLost(O[k].why) => DefinedIn(k, O[k].why)

\* The references for which the link is refused.
Missing == {G[k].name : k \in {m \in DOMAIN G : P2!Unresolved(G[m])}}

\* A link is refused for a reference only when no library on the command line
\* could have defined it, or the definition that was there when the library was
\* searched went with a duplicate section.
RefusedWithReason ==
    gpc = "failed" =>
        \A name \in Missing : Definers(job, name) = {} \/ LabelLost(name)

\* A link that is not refused leaves no strong reference of any object without
\* an address, in whatever order the search loaded the objects and weak and
\* strong references, sections, commons and labels of the name were met.
StrongDiagnosed == P2!StrongDiagnosed

\* The first definition of a name is kept, section or label, whatever was
\* referenced, dropped or merged before it, and the sections dropped are
\* exactly the later duplicates, explicit, included or autocalled.  (Links in
\* which a name is used both as a label and as a section are left out.)
FirstKept == P2!FirstKept

\* The link is refused exactly when a common outgrows the section of its name
\* or a strong reference has no definition.  (Links in which a name is used both
\* as a label and as a section are left out.)
RefusalExact == P2!RefusalExact

\* A composite symbol keeps name and place, a section stays one, a reference
\* once strong never turns weak again, a common area never shrinks.
OnlyHardens ==
    [][\A k \in DOMAIN G :
          /\ k \in DOMAIN G' /\ G'[k].name = G[k].name
          /\ G[k].is_sect => G'[k].is_sect
          /\ G[k].type # T_WX => G'[k].type # T_WX
          /\ P2!CommonOf(G[k]) /\ P2!CommonOf(G'[k]) => G'[k].len >= G[k].len]_linkvars
=============================================================================
