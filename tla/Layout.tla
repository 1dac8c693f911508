------------------------------- MODULE Layout -------------------------------
(***************************************************************************)
(* ld370 after PASS 2: objects are stacked at doubleword bases, dropped    *)
(* duplicates are compacted out of theirs, common areas follow, ESDIDs and *)
(* origins are assigned, the entry point is found and the module image is  *)
(* copied together.  A byte of an object's text is represented by where it *)
(* comes from, <<object, address in the object>>.                          *)
(***************************************************************************)
EXTENDS CompositeEsd, FiniteSetsExt

CONSTANTS
    EntryNames,         \* --entry arguments considered
    NoName,             \* no --entry given
    MOD_ARCH_MAX        \* 24-bit addressing

ASSUME EntryAssumption == EntryNames \subseteq Names \cup {NoName} /\ NoName \notin Names
ASSUME ArchAssumption == MOD_ARCH_MAX \in Nat

VARIABLES
    stage,          \* "objects", "commons", "entry", "reserve", "copy", "relocate", "built", "failed"
    at,             \* object or composite symbol the stage is at
    entryname,
    newaddr,        \* newaddr[a][id]: origin within object a once compacted
    object_base,    \* base of each object placed so far
    running, textend, modlen,
    gid, org,       \* per composite symbol
    entry_addr,
    mod,            \* the image: module address -> source byte
    ri,             \* relocation item of object at
    adcon           \* adcon[<<a, r>>]: the value of a constant once relocated

layvars == <<stage, at, entryname, newaddr, object_base, running, textend, modlen,
             gid, org, entry_addr, mod, ri, adcon>>
vars == <<esdvars, layvars>>

roundup8(v) == ((v + 7) \div 8) * 8
Gap == <<0, 0>>

LayInit ==
    /\ Init
    /\ entryname \in EntryNames
    /\ stage = "objects" /\ at = 1
    /\ newaddr = [a \in DOMAIN O |-> [id \in DOMAIN O[a].loc |-> O[a].loc[id].addr]]
    /\ object_base = << >>
    /\ running = 0 /\ textend = 0 /\ modlen = 0
    /\ gid = << >> /\ org = << >>
    /\ entry_addr = 0
    /\ mod = << >> /\ ri = 1 /\ adcon = << >>

ObjSections(a) == {id \in DOMAIN O[a].loc : is_obj_sect(O[a].loc[id].type)}
Kept(a, id) == <<a, id>> \notin dropped
has_drop(a) == \E d \in dropped : d[1] = a

\* The section that speaks for an origin: the lowest ESDID there.
Origins(a) == {O[a].loc[id].addr : id \in ObjSections(a)}
Speaker(a, x) == Min({id \in ObjSections(a) : O[a].loc[id].addr = x})

\* Byte y lies in the span of a dropped section, which reaches from the origin
\* the section speaks for to the next one.
InDropped(a, y) ==
    \E x \in Origins(a) :
        x <= y /\ ~Kept(a, Speaker(a, x)) /\ \A z \in Origins(a) : z <= y => z <= x

\* What compaction has taken out before origin x.
Removed(a, x) == Cardinality({y \in 0..(x - 1) : InDropped(a, y)})
Compacted(a, id) ==
    LET x == O[a].loc[id].addr
    IN IF has_drop(a) /\ id \in ObjSections(a) THEN x - Removed(a, x) ELSE x

osize(a, new) ==
    Max({0} \cup {new[id] + O[a].loc[id].len : id \in {x \in ObjSections(a) : Kept(a, x)}})

\* Faulty variant: the table keeps the origins from before compaction.
MovesForgotten(a) == {}

\* Sections whose table entry this object still defines.
Moves(a) == {id \in ObjSections(a) : Kept(a, id) /\ G[loc_g[a][id]].def_obj = a}

PlaceObject ==
    /\ pc = "resolved" /\ stage = "objects" /\ at <= Len(O)
    /\ LET new == [id \in DOMAIN O[at].loc |-> Compacted(at, id)]
       IN /\ newaddr' = [newaddr EXCEPT ![at] = new]
          /\ G' = [k \in DOMAIN G |->
                     IF has_drop(at) /\ \E id \in Moves(at) : loc_g[at][id] = k
                     THEN [G[k] EXCEPT !.in_addr =
                             new[Max({id \in Moves(at) : loc_g[at][id] = k})]]
                     ELSE G[k]]
          /\ object_base' = Append(object_base, running)
          /\ running' = running + roundup8(osize(at, new))
    /\ at' = at + 1
    /\ UNCHANGED <<O, loc_g, dropped, i, j, pc, ncomerr, nwarn,
                   stage, entryname, textend, modlen, gid, org, entry_addr, mod, ri, adcon>>

ObjectsPlaced ==
    /\ pc = "resolved" /\ stage = "objects" /\ at > Len(O)
    /\ textend' = roundup8(running)
    /\ stage' = "commons" /\ at' = 1
    /\ UNCHANGED <<esdvars, entryname, newaddr, object_base, running, modlen, gid, org, entry_addr, mod, ri, adcon>>

\* Faulty variant: commons end to end, not on doublewords.
PlaceCommonUnaligned ==
    /\ stage = "commons" /\ at <= Len(G)
    /\ IF CommonOf(G[at])
       THEN /\ G' = [G EXCEPT ![at].in_addr = running]
            /\ running' = running + G[at].len
       ELSE UNCHANGED <<G, running>>
    /\ at' = at + 1
    /\ UNCHANGED <<O, loc_g, dropped, i, j, pc, ncomerr, nwarn,
                   stage, entryname, newaddr, object_base, textend, modlen, gid, org, entry_addr, mod, ri, adcon>>

PlaceCommon ==
    /\ stage = "commons" /\ at <= Len(G)
    /\ IF CommonOf(G[at])
       THEN /\ G' = [G EXCEPT ![at].in_addr = roundup8(running)]
            /\ running' = roundup8(running) + G[at].len
       ELSE UNCHANGED <<G, running>>
    /\ at' = at + 1
    /\ UNCHANGED <<O, loc_g, dropped, i, j, pc, ncomerr, nwarn,
                   stage, entryname, newaddr, object_base, textend, modlen, gid, org, entry_addr, mod, ri, adcon>>

\* Sections are numbered first, in table order, then everything else.
Sects == {k \in DOMAIN G : G[k].is_sect}
UpTo(S, k) == Cardinality({m \in S : m <= k})

AssignIds ==
    /\ stage = "commons" /\ at > Len(G)
    /\ modlen' = roundup8(running)
    /\ gid' = [k \in DOMAIN G |-> IF k \in Sects THEN UpTo(Sects, k)
                                  ELSE Cardinality(Sects) + UpTo(DOMAIN G \ Sects, k)]
    /\ org' = [k \in DOMAIN G |->
                 IF k \notin Sects THEN 0
                 ELSE G[k].in_addr + (IF G[k].def_obj # NoSym THEN object_base[G[k].def_obj] ELSE 0)]
    /\ stage' = "entry"
    /\ UNCHANGED <<esdvars, at, entryname, newaddr, object_base, running, textend, entry_addr, mod, ri, adcon>>

\* The address of composite symbol k.
AddrOf(k) == IF G[k].is_sect THEN org[k] ELSE org[G[k].owner] + G[k].in_addr

\* find_symbol: the first entry of that name that has an address.
Found(name) == {k \in DOMAIN G : G[k].name = name /\ Resolved(G[k])}
\* Objects whose END card names an entry.
WithEnd == {a \in DOMAIN O : used(O[a], O[a].end.id)}
\* Faulty variant: counted from the object's base, wherever the section is.
EndEntryOfObject(a) == object_base[a] + O[a].end.off

EndEntry(a) == org[loc_g[a][O[a].end.id]] + O[a].end.off

FindEntry ==
    /\ stage = "entry" /\ (entryname # NoName => Found(entryname) # {})
    /\ entry_addr' = IF entryname # NoName THEN AddrOf(Min(Found(entryname)))
                     ELSE IF WithEnd # {} THEN EndEntry(Min(WithEnd)) ELSE 0
    /\ stage' = "reserve"
    /\ UNCHANGED <<esdvars, at, entryname, newaddr, object_base, running, textend, modlen, gid, org, mod, ri, adcon>>

NoEntry ==
    /\ stage = "entry" /\ entryname # NoName /\ Found(entryname) = {}
    /\ stage' = "failed"
    /\ UNCHANGED <<esdvars, at, entryname, newaddr, object_base, running, textend, modlen, gid, org, entry_addr, mod, ri, adcon>>

mod_reserve ==
    /\ stage = "reserve"
    /\ IF modlen > MOD_ARCH_MAX
       THEN stage' = "failed" /\ UNCHANGED <<at, mod>>
       ELSE stage' = "copy" /\ at' = 1 /\ mod' = [x \in 0..(modlen - 1) |-> Gap]
    /\ UNCHANGED <<esdvars, entryname, newaddr, object_base, running, textend, modlen, gid, org, entry_addr, ri, adcon>>

\* The text of an object reaches the end of its last section.
textlen(a) == Max({0} \cup {O[a].loc[id].addr + O[a].loc[id].len : id \in ObjSections(a)})

\* Section id of object a, copied when the object is not copied whole: commons
\* are copied too, and of overlapping copies the highest ESDID is the last.
Copied(a) == {id \in DOMAIN O[a].loc :
    is_sect_type(O[a].loc[id].type) /\ Kept(a, id) /\ O[a].loc[id].addr < textlen(a)}
CopyLen(a, id) == Min({O[a].loc[id].len, textlen(a) - O[a].loc[id].addr})
Writers(a, x) == {id \in Copied(a) :
    LET b == object_base[a] + newaddr[a][id] IN x >= b /\ x < b + CopyLen(a, id)}

CopyObject ==
    /\ stage = "copy" /\ at <= Len(O)
    /\ mod' = [x \in DOMAIN mod |->
                IF ~has_drop(at)
                THEN IF x >= object_base[at] /\ x < object_base[at] + textlen(at)
                     THEN <<at, x - object_base[at]>> ELSE mod[x]
                ELSE IF Writers(at, x) # {}
                THEN LET id == Max(Writers(at, x))
                     IN <<at, x - object_base[at] - newaddr[at][id] + O[at].loc[id].addr>>
                ELSE mod[x]]
    /\ at' = at + 1
    /\ UNCHANGED <<esdvars, stage, entryname, newaddr, object_base, running, textend, modlen, gid, org, entry_addr, ri, adcon>>

ImageBuilt ==
    /\ stage = "copy" /\ at > Len(O)
    /\ stage' = "relocate" /\ at' = 1
    /\ UNCHANGED <<esdvars, entryname, newaddr, object_base, running, textend, modlen,
                   gid, org, entry_addr, mod, ri, adcon>>

\* RLD item r of object a: dropped with its section, or at this module address.
local_to_g(a, id) == IF used(O[a], id) THEN loc_g[a][id] ELSE NoSym
rld_dropped(a, r) == <<a, O[a].rld[r].P>> \in dropped

\* Faulty variant: where the item lay before compaction.
rld_modaddr_uncompacted(a, r) == object_base[a] + O[a].rld[r].addr

rld_modaddr(a, r) ==
    LET P == O[a].rld[r].P
    IN object_base[a] + O[a].rld[r].addr
       + (IF used(O[a], P) THEN newaddr[a][P] - O[a].loc[P].addr ELSE 0)

\* The constant holds the input value of its symbol plus off (AdconsRight is
\* why it is this one that is read); it is moved by as much as its symbol was,
\* or left as it is when the symbol has no address.
InputValue(a, id) == IF used(O[a], id) THEN O[a].loc[id].addr ELSE 0
Relocated(a, r) ==
    LET R == O[a].rld[r].R
        k == local_to_g(a, R)
        held == InputValue(a, R) + O[a].rld[r].off
    IN IF k # NoSym /\ Resolved(G[k]) THEN held + AddrOf(k) - InputValue(a, R) ELSE held

\* It points past the start of a section that was dropped.
Astray(a, r) == <<a, O[a].rld[r].R>> \in dropped /\ O[a].rld[r].off # 0

\* Faulty variant: warned of also when the constant went with its section.
RelocateWarns ==
    /\ stage = "relocate" /\ at <= Len(O) /\ ri <= Len(O[at].rld)
    /\ adcon' = IF rld_dropped(at, ri) THEN adcon
                ELSE [c \in DOMAIN adcon \cup {<<at, ri>>} |->
                        IF c = <<at, ri>> THEN Relocated(at, ri) ELSE adcon[c]]
    /\ nwarn' = IF Astray(at, ri) THEN nwarn + 1 ELSE nwarn
    /\ ri' = ri + 1
    /\ UNCHANGED <<O, G, loc_g, dropped, i, j, pc, ncomerr, stage, at, entryname, newaddr,
                   object_base, running, textend, modlen, gid, org, entry_addr, mod>>

RelocateItem ==
    /\ stage = "relocate" /\ at <= Len(O) /\ ri <= Len(O[at].rld)
    /\ adcon' = IF rld_dropped(at, ri) THEN adcon
                ELSE [c \in DOMAIN adcon \cup {<<at, ri>>} |->
                        IF c = <<at, ri>> THEN Relocated(at, ri) ELSE adcon[c]]
    /\ nwarn' = IF ~rld_dropped(at, ri) /\ Astray(at, ri) THEN nwarn + 1 ELSE nwarn
    /\ ri' = ri + 1
    /\ UNCHANGED <<O, G, loc_g, dropped, i, j, pc, ncomerr, stage, at, entryname, newaddr,
                   object_base, running, textend, modlen, gid, org, entry_addr, mod>>

ObjectRelocated ==
    /\ stage = "relocate" /\ at <= Len(O) /\ ri > Len(O[at].rld)
    /\ at' = at + 1 /\ ri' = 1
    /\ UNCHANGED <<esdvars, stage, entryname, newaddr, object_base, running, textend, modlen,
                   gid, org, entry_addr, mod, adcon>>

ModuleBuilt ==
    /\ stage = "relocate" /\ at > Len(O)
    /\ stage' = "built"
    /\ UNCHANGED <<esdvars, at, entryname, newaddr, object_base, running, textend, modlen,
                   gid, org, entry_addr, mod, ri, adcon>>

LayStep ==
    \/ PlaceObject \/ ObjectsPlaced \/ PlaceCommon \/ AssignIds \/ FindEntry \/ NoEntry
    \/ mod_reserve \/ CopyObject \/ ImageBuilt
    \/ RelocateItem \/ ObjectRelocated \/ ModuleBuilt

LayDone == (pc = "failed" \/ stage \in {"built", "failed"}) /\ UNCHANGED vars

LayNext == (EsdStep /\ UNCHANGED layvars) \/ LayStep \/ LayDone

LaySpec == LayInit /\ [][LayNext]_vars

-----------------------------------------------------------------------------
\* Properties.

LayTypeOK ==
    /\ stage \in {"objects", "commons", "entry", "reserve", "copy", "relocate", "built", "failed"}
    /\ at \in Nat \ {0} /\ running \in Nat /\ textend \in Nat /\ modlen \in Nat
    /\ Len(object_base) <= Len(O)
    /\ entry_addr \in Nat
    /\ stage \in {"entry", "reserve", "copy", "relocate", "built"} =>
           {gid[k] : k \in DOMAIN G} = 1..Len(G) /\ \A k \in DOMAIN G : org[k] \in 0..modlen
    /\ stage \in {"copy", "relocate", "built"} => DOMAIN mod = 0..(modlen - 1)

\* Every kept control section and piece of private code is in the image whole,
\* at the origin the CESD will give it: no section was laid over another, no
\* compaction moved one apart from its text, nothing was copied from a dropped
\* duplicate.
TextInPlace ==
    stage = "built" =>
        \A a \in DOMAIN O : \A id \in ObjSections(a) :
            Kept(a, id) =>
                LET k == loc_g[a][id]
                IN \A off \in 0..(O[a].loc[id].len - 1) :
                       /\ org[k] + off \in DOMAIN mod
                       /\ mod[org[k] + off] = <<a, O[a].loc[id].addr + off>>

\* What a name stands for, read off the objects: the byte off beyond the start
\* of the section kept under it, or beyond the label kept.
ByteNamed(name, off) ==
    LET S == Items(T_SD, name)
        L == Labels(name)
    IN IF S # {} THEN <<Earliest(S)[1], LocOf(Earliest(S)).addr + off>>
       ELSE <<Earliest(L)[1], O[Earliest(L)[1]].ld[Earliest(L)[2]].addr + off>>
RoomAt(name) == IF Items(T_SD, name) # {} THEN LocOf(Earliest(Items(T_SD, name))).len ELSE 1

\* An address constant of a kept section is relocated where that section's copy
\* of it lies.  It then points at the byte it pointed at in its own deck: the
\* same byte of its own section when that was kept, however far compaction
\* moved it, or off bytes into what its external name stands for.
AdconsRight ==
    stage = "built" =>
        /\ \A a \in DOMAIN O : \A r \in DOMAIN O[a].rld :
              ~rld_dropped(a, r) =>
                  /\ rld_modaddr(a, r) \in DOMAIN mod
                  /\ mod[rld_modaddr(a, r)] = <<a, O[a].rld[r].addr>>
        /\ \A c \in DOMAIN adcon :
              LET a == c[1]
                  r == O[a].rld[c[2]]
                  e == O[a].loc[r.R]
              IN /\ is_obj_sect(e.type) /\ Kept(a, r.R) /\ r.off < e.len =>
                      adcon[c] \in DOMAIN mod /\ mod[adcon[c]] = <<a, e.addr + r.off>>
                 /\ /\ e.type = T_ER /\ ~Mixed(e.name) /\ Items(T_SD, e.name) \cup Labels(e.name) # {}
                    /\ r.off < RoomAt(e.name)
                    => adcon[c] \in DOMAIN mod /\ mod[adcon[c]] = ByteNamed(e.name, r.off)

\* The return code tells of warnings exactly when some entry is doubly defined
\* by kept sections or a constant that is still in the module points past the
\* start of a section that is not.
WarnedExactly ==
    stage = "built" /\ (\A name \in Names : ~Mixed(name)) =>
        (nwarn > 0 <=>
            \/ \E name \in Names : Cardinality(Labels(name)) > 1
            \/ \E c \in DOMAIN adcon : Astray(c[1], c[2]))

\* Common areas start on doublewords behind all text, one after the other, and
\* the module is long enough for them.
CommonsApart ==
    stage = "built" =>
        \A k \in DOMAIN G : CommonOf(G[k]) =>
            /\ org[k] % 8 = 0 /\ org[k] >= textend /\ org[k] + G[k].len <= modlen
            /\ \A m \in DOMAIN G : m < k /\ CommonOf(G[m]) => org[m] + G[m].len <= org[k]

\* The section an END card names, and whether the card names a byte of it that
\* is in the module: a dropped duplicate is entered in the section kept instead.
\* The card's address is its deck's, like those of text and labels.
EndSection(a) == O[a].loc[O[a].end.id]
EndInside(a) ==
    LET e == EndSection(a)
    IN /\ is_obj_sect(e.type) /\ O[a].end.off \in e.addr..(e.addr + e.len - 1)
       /\ Kept(a, O[a].end.id) \/ (~Mixed(e.name) /\ O[a].end.off - e.addr < RoomAt(e.name))
EndByte(a) ==
    IF Kept(a, O[a].end.id) THEN <<a, O[a].end.off>>
    ELSE ByteNamed(EndSection(a).name, O[a].end.off - EndSection(a).addr)

\* Without --entry the first object with an END entry decides.
EnteredByEnd(a) == stage = "built" /\ entryname = NoName /\ WithEnd # {} /\ a = Min(WithEnd)
Entered(byte) == entry_addr \in DOMAIN mod /\ mod[entry_addr] = byte

\* Without --entry the program is entered at the byte the first END card named,
\* when that lies in the section its deck begins with: wherever the object was
\* placed, and in the section kept when this one is a dropped duplicate.
EndEntryInPlace ==
    \A a \in DOMAIN O : EnteredByEnd(a) /\ EndInside(a) /\ EndSection(a).addr = 0 => Entered(EndByte(a))
=============================================================================
