------------------------------ MODULE AsmDeck ------------------------------
(***************************************************************************)
(* What as370 keeps of a program between its passes and its object deck:   *)
(* the ESDIDs of the external symbols, the emission log of pass 2 with the *)
(* REPRO cards in it, and the relocations; the deck emit_obj writes from   *)
(* them, card by card; and that deck as ld370's parse_object reads it.     *)
(*                                                                         *)
(* A byte of text is its number in the emission log.  An assembly is the   *)
(* ESD in declaration order, what pass 1 found out about the symbols, and  *)
(* what pass 2's statements emit.                                          *)
(***************************************************************************)
EXTENDS Integers, Sequences, FiniteSets

CONSTANTS
    Assemblies,  \* the programs
    NoSym,       \* no symbol: an END without operand, a symbol in no section
    ESDCARD,     \* ESD entries on a card (3)
    TXTCARD,     \* bytes of text on a card (56)
    RLDCARD      \* bytes of relocation items on a card (56)

ASSUME CardsAssumption ==
    /\ ESDCARD \in Nat \ {0} /\ TXTCARD \in Nat \ {0}
    /\ RLDCARD \in Nat /\ RLDCARD >= 8

\* What pass 1 leaves: a name has a section, a common or a pseudo register as its
\* kind says; text is in a control section; what a constant or an entry point needs
\* of its symbol was declared.
Declared(a, s, roles) == \E m \in DOMAIN a.esd : a.esd[m].sym = s /\ a.esd[m].role \in roles
Text(a) == [op : {"PUT"}, sect : DOMAIN a.def, at : Nat, n : Nat,
            target : DOMAIN a.def \union {NoSym}, isV : BOOLEAN]
EntrySound(a, e) ==
    LET d == a.def[e.sym] IN
    /\ e.role = "SECT" => d.kind \in {"SD", "PC"}
    /\ e.role \in {"CM", "XD"} => d.kind = e.role
    /\ e.role = "LD" /\ d.kind = "label" => Declared(a, d.sect, {"SECT", "CM"})
AdconSound(a, s) ==
    LET d == a.def[s.target] IN
    /\ s.isV \/ d.kind = "external" => Declared(a, s.target, {"ER"})
    /\ ~s.isV /\ d.kind \in {"label", "SD", "PC"} => Declared(a, d.sect, {"SECT", "CM"})
    /\ d.kind \in {"SD", "PC"} => d.sect = s.target
IsAssembly(a) ==
    /\ a.esd \in Seq([sym : DOMAIN a.def, role : {"SECT", "CM", "XD", "ER", "LD"}])
    /\ a.stmts \in Seq({[op |-> "CSECT"], [op |-> "REPRO"]} \union Text(a))
    /\ \A m \in DOMAIN a.esd : EntrySound(a, a.esd[m])
    /\ \A m \in DOMAIN a.stmts : a.stmts[m].op = "PUT" =>
          /\ Declared(a, a.stmts[m].sect, {"SECT"})
          /\ a.stmts[m].target # NoSym => AdconSound(a, a.stmts[m])
ASSUME AssembliesAssumption == \A a \in Assemblies : IsAssembly(a)

VARIABLES
    asm,      \* the assembly
    pc,       \* "pass2", "early", "esd", "txt", "sort", "rld", "end", "done"
    k,        \* statement of pass 2; next punch, ESD entry, log event, relocation
    seen,     \* g_sect_seen
    log,      \* txl_*: the emission log, contiguous bytes of a section merged
    blen,     \* txl_blen: bytes logged
    punches,  \* REPRO cards: their statement, before_esd, at_bytes (-1: punched)
    rels,     \* relocations
    pos,      \* bytes of event k already on cards
    done,     \* bytes of the log already on cards
    card,     \* the card being filled
    deck      \* the cards written

vars == <<asm, pc, k, seen, log, blen, punches, rels, pos, done, card, deck>>

NoCard == [open |-> FALSE]

(***************************************************************************)
(* ESDIDs.  Everything but an LD is numbered in declaration order; a       *)
(* symbol's own ESDID is its first entry's, unless it names a section.     *)
(***************************************************************************)
Entries(a) == DOMAIN a.esd
IsNumbered(a, m) == a.esd[m].role # "LD"
IsSect(a, m) == a.esd[m].role \in {"SECT", "CM"}
Esdid(a, m) == Cardinality({j \in 1..m : IsNumbered(a, j)})

Lowest(S) == CHOOSE x \in S : \A y \in S : x <= y
EntriesOf(a, s) == {m \in Entries(a) : a.esd[m].sym = s /\ IsNumbered(a, m)}
\* Faulty variant: the first entry, whatever it is.
FirstEsdid(a, s) == IF EntriesOf(a, s) = {} THEN 0 ELSE Esdid(a, Lowest(EntriesOf(a, s)))
SymEsdid(a, s) ==
    LET sects == {m \in EntriesOf(a, s) : IsSect(a, m)}
    IN IF sects # {} THEN Esdid(a, Lowest(sects))
       ELSE IF EntriesOf(a, s) # {} THEN Esdid(a, Lowest(EntriesOf(a, s))) ELSE 0

\* sect_esdid_of: the section with that id, or 0.
SectEsdidOf(a, s) == IF \E m \in Entries(a) : IsSect(a, m) /\ a.esd[m].sym = s THEN SymEsdid(a, s) ELSE 0

\* main_sect_esdid: the first named control section, else the first.
MainEsdid(a) ==
    LET sects == {m \in Entries(a) : a.esd[m].role = "SECT"}
        named == {m \in sects : a.def[a.esd[m].sym].kind = "SD"}
    IN IF named # {} THEN SymEsdid(a, a.esd[Lowest(named)].sym)
       ELSE IF sects # {} THEN SymEsdid(a, a.esd[Lowest(sects)].sym) ELSE 0

sect_esdid(a, s) == IF SectEsdidOf(a, s) # 0 THEN SectEsdidOf(a, s) ELSE MainEsdid(a)

\* add_reloc: R, for a constant in section cur.  A V-con names the external, an
\* A-con the definition.  Faulty variant: both go by the symbol's own ESDID.
OwnEsdid(a, s, isV, cur) == IF SymEsdid(a, s) # 0 THEN SymEsdid(a, s)
                         ELSE IF SectEsdidOf(a, a.def[s].sect) # 0 THEN SectEsdidOf(a, a.def[s].sect)
                         ELSE SymEsdid(a, cur)
RelEsdid(a, s, isV, cur) ==
    LET ers == {m \in EntriesOf(a, s) : a.esd[m].role = "ER"}
        own == SectEsdidOf(a, a.def[s].sect)
    IN IF isV /\ ers # {} THEN Esdid(a, Lowest(ers))
       ELSE IF ~isV /\ a.def[s].kind = "label" /\ own # 0 THEN own
       ELSE IF SymEsdid(a, s) # 0 THEN SymEsdid(a, s)
       ELSE IF own # 0 THEN own
       ELSE SymEsdid(a, cur)

(***************************************************************************)
(* Pass 2, as far as the deck is concerned.                                *)
(***************************************************************************)
Init ==
    /\ asm \in Assemblies
    /\ pc = "pass2" /\ k = 1 /\ seen = FALSE
    /\ log = << >> /\ blen = 0 /\ punches = << >> /\ rels = << >>
    /\ pos = 0 /\ done = 0 /\ card = NoCard /\ deck = << >>

At(op) == pc = "pass2" /\ k <= Len(asm.stmts) /\ asm.stmts[k].op = op

\* CSECT or START.
Section ==
    /\ At("CSECT")
    /\ seen' = TRUE /\ k' = k + 1
    /\ UNCHANGED <<asm, pc, log, blen, punches, rels, pos, done, card, deck>>

\* put: contiguous bytes of one section extend the last event.
Extends(l, at, id) ==
    /\ l # << >>
    /\ l[Len(l)].at + l[Len(l)].n = at
    /\ l[Len(l)].id = id

Put ==
    /\ At("PUT")
    /\ LET s == asm.stmts[k]
           id == SymEsdid(asm, s.sect)
       IN /\ log' = IF Extends(log, s.at, id)
                    THEN [log EXCEPT ![Len(log)].n = @ + s.n]
                    ELSE Append(log, [at |-> s.at, n |-> s.n, id |-> id, off |-> blen])
          /\ blen' = blen + s.n
          /\ rels' = IF s.target = NoSym THEN rels
                     ELSE Append(rels, [pos |-> id, rel |-> RelEsdid(asm, s.target, s.isV, s.sect),
                                        addr |-> s.at, by |-> k])
    /\ k' = k + 1
    /\ UNCHANGED <<asm, pc, seen, punches, pos, done, card, deck>>

\* REPRO and PUNCH.
Repro ==
    /\ At("REPRO")
    /\ punches' = Append(punches, [by |-> k, before_esd |-> ~seen, at_bytes |-> blen])
    /\ k' = k + 1
    /\ UNCHANGED <<asm, pc, seen, log, blen, rels, pos, done, card, deck>>

PassDone ==
    /\ pc = "pass2" /\ k > Len(asm.stmts)
    /\ pc' = "early" /\ k' = 1
    /\ UNCHANGED <<asm, seen, log, blen, punches, rels, pos, done, card, deck>>

(***************************************************************************)
(* emit_obj.                                                               *)
(***************************************************************************)
ReproCard(p) == [kind |-> "REPRO", by |-> p.by]

\* REPRO cards ahead of the first control section come before everything else.
PunchEarly ==
    /\ pc = "early" /\ k <= Len(punches)
    /\ deck' = IF punches[k].before_esd THEN Append(deck, ReproCard(punches[k])) ELSE deck
    /\ k' = k + 1
    /\ UNCHANGED <<asm, pc, seen, log, blen, punches, rels, pos, done, card>>

EarlyDone ==
    /\ pc = "early" /\ k > Len(punches)
    /\ pc' = "esd" /\ k' = 1
    /\ UNCHANGED <<asm, seen, log, blen, punches, rels, pos, done, card, deck>>

\* An ENTRY that names a section, or what cannot be linked, gets no LD.
unlinkable(a, s) == a.def[s].kind \in {"absolute", "undefined"}
Kept(a, m) ==
    a.esd[m].role = "LD" =>
        /\ ~ \E q \in Entries(a) : a.esd[q].sym = a.esd[m].sym /\ a.esd[q].role = "SECT"
        /\ ~unlinkable(a, a.esd[m].sym)

\* esd_ent: the last field of an LD is its section's ESDID, of others a length.
EsdEntry(a, m) ==
    LET s == a.esd[m].sym
        d == a.def[s]
    IN CASE a.esd[m].role = "SECT" -> [type |-> d.kind, name |-> s, addr |-> d.addr, len |-> d.len]
         [] a.esd[m].role = "CM" -> [type |-> "CM", name |-> s, addr |-> 0, len |-> d.len]
         [] a.esd[m].role = "XD" -> [type |-> "XD", name |-> s, addr |-> 0, len |-> d.len]
         [] a.esd[m].role = "ER" -> [type |-> IF d.weak THEN "WX" ELSE "ER", name |-> s, addr |-> 0, len |-> 0]
         [] OTHER -> [type |-> "LD", name |-> s, addr |-> d.addr, len |-> sect_esdid(a, d.sect)]

\* The card being filled with entry k.
EsdHeld == IF card.open THEN card ELSE [open |-> TRUE, first |-> 0, items |-> << >>]

\* The card's ESDID field is that of its first numbered entry.  Faulty variant:
\* of its first entry.
CardFirstAny(first) == IF EsdHeld.items = << >> THEN Esdid(asm, k) ELSE first
CardFirst(first) == IF first = 0 /\ IsNumbered(asm, k) THEN Esdid(asm, k) ELSE first

\* The next entry, dropped or put on the card.
EsdEnt ==
    /\ pc = "esd" /\ k <= Len(asm.esd) /\ Len(EsdHeld.items) < ESDCARD
    /\ card' = IF Kept(asm, k) THEN [open |-> TRUE, first |-> CardFirst(EsdHeld.first),
                                items |-> Append(EsdHeld.items, EsdEntry(asm, k))]
               ELSE EsdHeld
    /\ k' = k + 1
    /\ UNCHANGED <<asm, pc, seen, log, blen, punches, rels, pos, done, deck>>

EsdCard == [kind |-> "ESD", first |-> card.first, items |-> card.items]
EsdFlush ==
    /\ pc = "esd" /\ card.open
    /\ k > Len(asm.esd) \/ Len(card.items) = ESDCARD
    /\ deck' = Append(deck, EsdCard) /\ card' = NoCard
    /\ UNCHANGED <<asm, pc, k, seen, log, blen, punches, rels, pos, done>>

EsdDone ==
    /\ pc = "esd" /\ k > Len(asm.esd) /\ ~card.open
    /\ pc' = "txt" /\ k' = 1
    /\ UNCHANGED <<asm, seen, log, blen, punches, rels, pos, done, card, deck>>

TxtCard == [kind |-> "TXT", addr |-> card.addr, id |-> card.id, from |-> card.from, n |-> card.n]
Flushed == IF card.open THEN Append(deck, TxtCard) ELSE deck

\* A REPRO at this point of the log ends the open card.
Due == {p \in DOMAIN punches : ~punches[p].before_esd /\ punches[p].at_bytes = done}

TxtPunch ==
    /\ pc = "txt" /\ Due # {}
    /\ deck' = Append(Flushed, ReproCard(punches[Lowest(Due)]))
    /\ punches' = [punches EXCEPT ![Lowest(Due)].at_bytes = -1]
    /\ card' = NoCard
    /\ UNCHANGED <<asm, pc, k, seen, log, blen, rels, pos, done>>

\* A gap or an overlay, a full card, another section or the end of the log.
Breaks == ~ /\ k <= Len(log)
            /\ log[k].at + pos = card.addr + card.n
            /\ card.n < TXTCARD
            /\ log[k].id = card.id

TxtFlush ==
    /\ pc = "txt" /\ Due = {} /\ card.open /\ Breaks
    /\ deck' = Flushed /\ card' = NoCard
    /\ UNCHANGED <<asm, pc, k, seen, log, blen, punches, rels, pos, done>>

\* As much of the event as the card holds, up to the next REPRO.  Faulty
\* variant: up to the end of the event.
Least(a, b) == IF a < b THEN a ELSE b
TakeAll(room) == Least(room, log[k].n - pos)
Take(room) ==
    LET marks == {punches[p].at_bytes - done : p \in {q \in DOMAIN punches :
                    ~punches[q].before_esd /\ punches[q].at_bytes > done}}
        most == Least(room, log[k].n - pos)
    IN Lowest(marks \union {most})

TxtTake ==
    /\ pc = "txt" /\ Due = {} /\ k <= Len(log)
    /\ card.open => ~Breaks
    /\ LET held == IF card.open THEN card
                   ELSE [open |-> TRUE, addr |-> log[k].at + pos, id |-> log[k].id,
                         from |-> done + 1, n |-> 0]
           take == Take(TXTCARD - held.n)
           ends == pos + take = log[k].n
       IN /\ card' = [held EXCEPT !.n = @ + take]
          /\ done' = done + take
          /\ pos' = IF ends THEN 0 ELSE pos + take
          /\ k' = IF ends THEN k + 1 ELSE k
    /\ UNCHANGED <<asm, pc, seen, log, blen, punches, rels, deck>>

TxtDone ==
    /\ pc = "txt" /\ Due = {} /\ ~card.open /\ k > Len(log)
    /\ pc' = "sort"
    /\ UNCHANGED <<asm, k, seen, log, blen, punches, rels, pos, done, card, deck>>

\* Relocations by position, target and address, equal ones as they were met.
Before(a, b) ==
    \/ a.pos < b.pos
    \/ a.pos = b.pos /\ a.rel < b.rel
    \/ a.pos = b.pos /\ a.rel = b.rel /\ a.addr < b.addr
Ahead(rs, m, n) == Before(rs[m], rs[n]) \/ (~Before(rs[n], rs[m]) /\ m < n)
Rank(rs, n) == Cardinality({m \in DOMAIN rs : Ahead(rs, m, n)}) + 1
Sorted(rs) == [x \in DOMAIN rs |-> rs[CHOOSE m \in DOMAIN rs : Rank(rs, m) = x]]

SortRelocations ==
    /\ pc = "sort"
    /\ rels' = Sorted(rels)
    /\ pc' = "rld" /\ k' = 1
    /\ UNCHANGED <<asm, seen, log, blen, punches, pos, done, card, deck>>

\* An item omits its R and P when the one before it on the card has them too.
SamePair(a, b) == a.rel = b.rel /\ a.pos = b.pos
RldHeld == IF card.open THEN card ELSE [open |-> TRUE, used |-> 0, items |-> << >>]
Reuses == RldHeld.items # << >> /\ SamePair(rels[k], rels[k - 1])
Need == IF Reuses THEN 4 ELSE 8
Fits == k <= Len(rels) /\ RldHeld.used + Need <= RLDCARD

\* The predecessor is told that R and P are omitted.
Promised(items) == IF Reuses THEN [items EXCEPT ![Len(items)].same = TRUE] ELSE items
RldItem == [lead |-> IF Reuses THEN << >> ELSE <<rels[k].rel, rels[k].pos>>,
            addr |-> rels[k].addr, by |-> rels[k].by, same |-> FALSE]

RldEnt ==
    /\ pc = "rld" /\ Fits
    /\ card' = [open |-> TRUE, used |-> RldHeld.used + Need,
                items |-> Append(Promised(RldHeld.items), RldItem)]
    /\ k' = k + 1
    /\ UNCHANGED <<asm, pc, seen, log, blen, punches, rels, pos, done, deck>>

RldCard == [kind |-> "RLD", count |-> card.used, items |-> card.items]
RldFlush ==
    /\ pc = "rld" /\ card.open /\ ~Fits
    /\ deck' = Append(deck, RldCard) /\ card' = NoCard
    /\ UNCHANGED <<asm, pc, k, seen, log, blen, punches, rels, pos, done>>

RldDone ==
    /\ pc = "rld" /\ k > Len(rels) /\ ~card.open
    /\ pc' = "end"
    /\ UNCHANGED <<asm, k, seen, log, blen, punches, rels, pos, done, card, deck>>

\* The END card: the symbol's own ESDID, or its section's.
EndEsdid(a, s) == IF SymEsdid(a, s) # 0 THEN SymEsdid(a, s) ELSE sect_esdid(a, a.def[s].sect)

EndCard ==
    /\ pc = "end"
    /\ deck' = Append(deck, IF asm.entry = NoSym THEN [kind |-> "END", has |-> FALSE]
                            ELSE [kind |-> "END", has |-> TRUE, addr |-> asm.def[asm.entry].addr,
                                  id |-> EndEsdid(asm, asm.entry)])
    /\ pc' = "done"
    /\ UNCHANGED <<asm, k, seen, log, blen, punches, rels, pos, done, card>>

Done == pc = "done" /\ UNCHANGED vars

Next == \/ Section \/ Put \/ Repro \/ PassDone
        \/ PunchEarly \/ EarlyDone \/ EsdEnt \/ EsdFlush \/ EsdDone
        \/ TxtPunch \/ TxtFlush \/ TxtTake \/ TxtDone
        \/ SortRelocations \/ RldEnt \/ RldFlush \/ RldDone \/ EndCard \/ Done

Spec == Init /\ [][Next]_vars

(***************************************************************************)
(* The deck as parse_object reads it.                                      *)
(***************************************************************************)
Cards(d, kind) == {c \in DOMAIN d : d[c].kind = kind}

\* Numbered entries take the card's ESDID and count up; LDs are listed apart.
ReadId(first, items, m) == first + Cardinality({q \in 1..(m - 1) : items[q].type # "LD"})
ReadLocals(d) ==
    UNION {{<<ReadId(d[c].first, d[c].items, m), d[c].items[m]>> :
              m \in {q \in DOMAIN d[c].items : d[c].items[q].type # "LD"}} : c \in Cards(d, "ESD")}
\* Where a label is read: its card, and its place on it.
ReadLabels(d) ==
    UNION {{c} \X {m \in DOMAIN d[c].items : d[c].items[m].type = "LD"} : c \in Cards(d, "ESD")}

\* A later card overlays an earlier one.
Covers(d, c, b) == b \in d[c].addr..(d[c].addr + d[c].n - 1)
LastOver(d, b) == CHOOSE c \in Cards(d, "TXT") :
                      Covers(d, c, b) /\ \A y \in Cards(d, "TXT") : Covers(d, y, b) => y <= c
ReadText(d) ==
    [b \in UNION {d[c].addr..(d[c].addr + d[c].n - 1) : c \in Cards(d, "TXT")} |->
        LET c == LastOver(d, b) IN <<d[c].from + b - d[c].addr, d[c].id>>]

\* An item whose predecessor has the continuation bit takes its R and P; the
\* others, and the first of a card, bring their own.
Fresh(items, m) == m = 1 \/ ~items[m - 1].same
Leads(items, q, m) == Fresh(items, q) /\ \A x \in (q + 1)..m : ~Fresh(items, x)
ReadRld(d) == UNION {{c} \X DOMAIN d[c].items : c \in Cards(d, "RLD")}
ReadItem(d, p) == d[p[1]].items[p[2]]
ReadReloc(d, p) ==
    LET items == d[p[1]].items
        lead == items[CHOOSE q \in 1..p[2] : Leads(items, q, p[2])].lead
    IN [rel |-> lead[1], pos |-> lead[2], addr |-> items[p[2]].addr, by |-> items[p[2]].by]

-----------------------------------------------------------------------------
\* Properties.

Finished == pc = "done"
Puts(a) == {m \in DOMAIN a.stmts : a.stmts[m].op = "PUT"}
Repros(a) == {m \in DOMAIN a.stmts : a.stmts[m].op = "REPRO"}
Reaches(a, m, b) == b \in a.stmts[m].at..(a.stmts[m].at + a.stmts[m].n - 1)
LastPut(a, b) == CHOOSE m \in Puts(a) : Reaches(a, m, b) /\ \A y \in Puts(a) : Reaches(a, y, b) => y <= m
Total(f, n) == LET sum[x \in 0..n] == IF x = 0 THEN 0 ELSE sum[x - 1] + f[x] IN sum[n]
Sizes(a) == [m \in DOMAIN a.stmts |-> IF m \in Puts(a) THEN a.stmts[m].n ELSE 0]
BytesBefore(a, m) == Total(Sizes(a), m - 1)

\* The linkage editor knows a symbol of one of these types by this ESDID.
Known(d, id, s, types) == \E p \in ReadLocals(d) : p[1] = id /\ p[2].name = s /\ p[2].type \in types

\* The linkage editor finds every external symbol under the ESDID the assembler
\* knows it by, whatever LDs were dropped or share its card, and every label
\* with the section it lies in as its owner.
SymbolsReadBack ==
    Finished =>
        /\ ReadLocals(deck) = {<<Esdid(asm, m), EsdEntry(asm, m)>> : m \in {q \in Entries(asm) : IsNumbered(asm, q)}}
        /\ Cardinality(ReadLabels(deck)) = Cardinality({m \in Entries(asm) : ~IsNumbered(asm, m) /\ Kept(asm, m)})
        /\ \A x \in ReadLabels(deck) :
              LET l == deck[x[1]].items[x[2]] IN
              /\ \A p \in ReadLocals(deck) : p[2].type \in {"SD", "PC"} => p[2].name # l.name
              /\ asm.def[l.name].kind = "label" => Known(deck, l.len, asm.def[l.name].sect, {"SD", "PC", "CM"})

\* Every byte reads back as the last statement that wrote it left it, on a card
\* of that statement's section, through gaps, overlays, full cards, section
\* changes and REPRO cards that break the text.
TextReadBack ==
    Finished =>
        /\ DOMAIN ReadText(deck) = UNION {asm.stmts[m].at..(asm.stmts[m].at + asm.stmts[m].n - 1) : m \in Puts(asm)}
        /\ \A b \in DOMAIN ReadText(deck) :
              LET m == LastPut(asm, b)
              IN /\ ReadText(deck)[b][1] = BytesBefore(asm, m) + 1 + b - asm.stmts[m].at
                 /\ Known(deck, ReadText(deck)[b][2], asm.stmts[m].sect, {"SD", "PC"})

\* The relocations read back are those of pass 2, each once, grouped by section
\* and target, with two at one address in the order of the source; R and P are
\* read where they were written; the target of an A-con is the section that holds
\* its symbol, or the external itself.
Earlier(p, q) == p[1] < q[1] \/ (p[1] = q[1] /\ p[2] < q[2])
RelocationsReadBack ==
    Finished =>
        /\ {ReadItem(deck, p).by : p \in ReadRld(deck)} = {m \in Puts(asm) : asm.stmts[m].target # NoSym}
        /\ \A p, q \in ReadRld(deck) : p # q => ReadItem(deck, p).by # ReadItem(deck, q).by
        /\ \A p \in ReadRld(deck) : Fresh(deck[p[1]].items, p[2]) <=> ReadItem(deck, p).lead # << >>
        /\ \A p, q \in ReadRld(deck) : Earlier(p, q) =>
              /\ ~Before(ReadReloc(deck, q), ReadReloc(deck, p))
              /\ ~Before(ReadReloc(deck, p), ReadReloc(deck, q)) => ReadItem(deck, p).by < ReadItem(deck, q).by
        /\ \A p \in ReadRld(deck) :
              LET x == ReadReloc(deck, p)
                  st == asm.stmts[x.by]
                  d == asm.def[st.target]
              IN /\ x.addr = st.at /\ Known(deck, x.pos, st.sect, {"SD", "PC"})
                 /\ ~st.isV /\ d.kind \in {"label", "SD", "PC"} => Known(deck, x.rel, d.sect, {"SD", "PC", "CM"})
                 /\ st.isV \/ d.kind = "external" => Known(deck, x.rel, st.target, {"ER", "WX"})

\* Every REPRO card is in the deck exactly once and in the order of the source;
\* the text cards ahead of it carry exactly what was assembled ahead of it.
TextAhead(d, c) == UNION {d[x].from..(d[x].from + d[x].n - 1) : x \in {y \in Cards(d, "TXT") : y < c}}
PunchedInPlace ==
    Finished =>
        /\ {deck[c].by : c \in Cards(deck, "REPRO")} = Repros(asm)
        /\ \A c, d \in Cards(deck, "REPRO") : c < d => deck[c].by < deck[d].by
        /\ \A c \in Cards(deck, "REPRO") : TextAhead(deck, c) = 1..BytesBefore(asm, deck[c].by)

\* The END card's ESDID is that of the section its entry point is in.
EndNamesSection ==
    Finished /\ asm.entry # NoSym /\ asm.def[asm.entry].kind \in {"label", "SD", "PC"} =>
        Known(deck, deck[Len(deck)].id, asm.def[asm.entry].sect, {"SD", "PC"})
=============================================================================
