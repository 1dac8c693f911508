----------------------------- MODULE ObjectDeck -----------------------------
(***************************************************************************)
(* OS/360 object decks as ld370 and ar370 read them.                       *)
(*                                                                         *)
(* A deck's ESD cards are a sequence of items in card order.  An item's    *)
(* bytes 13-15 are one field: the length of a section, or the ESDID of the *)
(* section that owns a label definition (LD).  Section contents appear     *)
(* only as relocation items and an END-card entry; byte values do not      *)
(* matter to the link's control flow.                                      *)
(***************************************************************************)
EXTENDS Integers, Sequences

CONSTANTS
    Names,      \* external names, blank included
    Blank,      \* the eight-blank name of private code
    MAXESD      \* parse_object keeps local ESDIDs 1 .. MAXESD-1

ASSUME NamesAssumption == Blank \in Names
ASSUME MaxEsdAssumption == MAXESD \in Nat \ {0}

\* ESD item types (low four bits of byte 8), plus LR, the composite label.
T_SD == "SD"
T_LD == "LD"
T_LR == "LR"
T_ER == "ER"
T_PC == "PC"
T_CM == "CM"
T_WX == "WX"
DeckTypes == {T_SD, T_LD, T_ER, T_PC, T_CM, T_WX}

is_sect_type(t) == t \in {T_SD, T_PC, T_CM}
is_obj_sect(t) == t \in {T_SD, T_PC}

EsdItem == [id : Nat, type : DeckTypes, name : Names, addr : Nat, len : Nat]
\* An address constant: its symbol R, the section P it lies in, its address and
\* how far beyond its symbol it points.
RldItem == [R : Nat, P : Nat, addr : Nat, off : Nat]
NoEnd == [id |-> 0, off |-> 0]
IsLD(e) == e.type = T_LD

\* A deck: an ESD card gives the ESDID of its first numbered item and the ones
\* behind it count up, so each item but an LD has an ESDID, no two the same.
Deck == [esd : Seq(EsdItem), rld : Seq(RldItem), end : [id : Nat, off : Nat]]
Numbered(deck) == {k \in DOMAIN deck.esd : ~IsLD(deck.esd[k])}
WellNumbered(deck) ==
    \A k, m \in Numbered(deck) : deck.esd[k].id = deck.esd[m].id => k = m

(***************************************************************************)
(* The deck reader.  Items go to the local ESD table by ESDID; one whose   *)
(* ESDID the table has no room for is skipped without a word.  LD items    *)
(* are kept apart, in card order.                                          *)
(***************************************************************************)
parse_object(deck) ==
    [loc |-> [id \in {deck.esd[k].id : k \in Numbered(deck)} \cap 1..(MAXESD - 1) |->
                deck.esd[CHOOSE k \in Numbered(deck) : deck.esd[k].id = id]],
     ld  |-> SelectSeq(deck.esd, IsLD),
     rld |-> deck.rld,
     end |-> deck.end]

\* What parse_object makes of a deck an assembler wrote: a label definition
\* names a section of its own deck as its owner.
IsObject(o) ==
    /\ DOMAIN o.loc \subseteq 1..(MAXESD - 1)
    /\ \A id \in DOMAIN o.loc : o.loc[id] \in EsdItem
    /\ o.ld \in Seq(EsdItem)
    /\ \A k \in DOMAIN o.ld : o.ld[k].len \in DOMAIN o.loc /\ is_sect_type(o.loc[o.ld[k].len].type)

\* The blank name is private code's alone (as370 has no unnamed COM).
PrivateIsBlank(o) ==
    /\ \A id \in DOMAIN o.loc : o.loc[id].name = Blank <=> o.loc[id].type = T_PC
    /\ \A k \in DOMAIN o.ld : o.ld[k].name # Blank

\* Local ESDID id of object o names something.
used(o, id) == id \in DOMAIN o.loc

\* Object o defines name: a section of that name or a label.
Defines(o, name) ==
    \/ \E j \in DOMAIN o.loc : is_sect_type(o.loc[j].type) /\ o.loc[j].name = name
    \/ \E k \in DOMAIN o.ld : o.ld[k].name = name

\* The ones a second definition of which would be a conflict: member_conflicts.
Strong(deck) ==
    {deck.esd[k].name : k \in {m \in DOMAIN deck.esd :
        deck.esd[m].type \in {T_SD, T_LD, T_CM} /\ deck.esd[m].name # Blank}}
=============================================================================
