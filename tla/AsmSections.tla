---------------------------- MODULE AsmSections ----------------------------
(***************************************************************************)
(* The two passes of as370 over the statements that move the location      *)
(* counter: control, dummy and common sections, storage, instructions with *)
(* literals, ORG, CNOP, LTORG and END (do_pass), the literal pools, and    *)
(* the chaining of the sections between the passes (assign_origins).       *)
(*                                                                         *)
(* Pass 1 addresses every statement relative to its own section and        *)
(* measures the sections; assign_origins places them one behind the other; *)
(* pass 2 walks the same statements again and emits text.  A section is    *)
(* named by its symbol; a byte of text is the statement or the literal     *)
(* that wrote it.                                                          *)
(***************************************************************************)
EXTENDS Integers, Sequences, FiniteSets

CONSTANTS
    Programs,    \* the statement lists to assemble
    CsectNames,  \* names of control sections
    DsectNames,  \* names of dummy sections
    ComNames,    \* names of common sections
    PrivateCode, \* the section of the blank name
    NoSect,      \* cur_sect_id = 0: no section opened yet
    Literals,    \* literal texts
    LitSize,     \* their size in bytes
    LitAlgn,     \* and the boundary their type asks for
    NoLit        \* an instruction without a literal operand

Sections == CsectNames \union DsectNames \union ComNames \union {PrivateCode}

ASSUME NamesApart ==
    /\ CsectNames \intersect (DsectNames \union ComNames) = {}
    /\ DsectNames \intersect ComNames = {}
    /\ PrivateCode \notin CsectNames \union DsectNames \union ComNames
    /\ NoSect \notin Sections /\ NoLit \notin Literals

ASSUME LiteralsSized ==
    /\ LitSize \in [Literals -> Nat \ {0}]
    /\ LitAlgn \in [Literals -> {1, 2, 4, 8}]

VARIABLES
    prog,         \* the statements
    pass,         \* 1, 2, and 3 when both passes are over
    i,            \* the statement about to be processed
    lc,           \* the location counter
    cur,          \* cur_sect_id
    mode,         \* "csect", "dsect" (in_dsect) or "com" (in_com)
    main,         \* main_lc, main_sect_id: where END returns from a dummy section
    orgHwm,       \* org_hwm: what a bare ORG returns to
    hwm,          \* sect_hwm: the extent of each section in this pass
    rel,          \* sect_rel: the parked counter of each section
    opened,       \* the sections opened by a statement in this pass
    ord,          \* sect_ord: control sections in chaining order
    org,          \* sect_org
    len1,         \* sect_len1: pass 1's extents
    startBase,    \* start_base: the operand of START
    extrns,       \* names declared EXTRN before any definition
    first,        \* first_ctl_sect
    firstContent, \* first_content: its extent without the pool
    pool,         \* the END pool's reservation
    litpool,      \* number of the pool now open
    endPoolSeq,   \* the pool END will flush
    lits,         \* the literal table
    label,        \* pass 1's <<section, address>> of each storage statement
    loc,          \* pass 2's
    refs,         \* <<statement, literal, address>> as pass 2's operands read it
    text          \* the bytes put in pass 2

counter == <<lc, cur, mode, main, orgHwm>>
tables == <<hwm, rel, opened, first, firstContent, pool>>
chain == <<ord, org, len1, startBase>>
output == <<label, loc, refs, text>>
vars == <<prog, pass, i, counter, tables, chain, extrns, litpool, endPoolSeq,
          lits, output>>

(***************************************************************************)
(* Arithmetic of addresses.                                                *)
(***************************************************************************)
Align(a, b) == ((a + b - 1) \div b) * b
Larger(a, b) == IF a > b THEN a ELSE b

\* The origin an address of section s carries in this pass.
Base(s) == IF pass = 2 /\ s # NoSect THEN org[s] ELSE 0

\* The boundary a length implies: a literal's pool segment.
LenAlgn(n) ==
    CASE n % 8 = 0 -> 8 [] n % 4 = 0 -> 4 [] n % 2 = 0 -> 2 [] OTHER -> 1

(***************************************************************************)
(* Literals.                                                               *)
(***************************************************************************)

\* Where lit_get finds a literal of the open pool.
LitIndex(table, t, seq) ==
    CHOOSE k \in DOMAIN table : table[k].lit = t /\ table[k].seq = seq
HasLit(table, t, seq) == \E k \in DOMAIN table : table[k].lit = t /\ table[k].seq = seq

LitGet(table, t, seq) ==
    IF t = NoLit \/ HasLit(table, t, seq) THEN table
    ELSE Append(table, [lit |-> t, seq |-> seq, psect |-> NoSect, loc |-> 0,
                        placed |-> FALSE])

\* The pre-scan: every literal in its pool, and the number of LTORGs.
Prescan(p) ==
    LET scan[k \in 0..Len(p)] ==
            IF k = 0 THEN [lits |-> <<>>, seq |-> 0]
            ELSE LET r == scan[k - 1] IN
                 CASE p[k].op = "INS" -> [r EXCEPT !.lits = LitGet(@, p[k].lit, r.seq)]
                   [] p[k].op = "LTORG" -> [r EXCEPT !.seq = @ + 1]
                   [] OTHER -> r
    IN scan[Len(p)]

\* Unplaced literals of one pool, doublewords first, each segment in order of
\* first reference.
PoolGather(seq) ==
    LET segment(a) == SelectSeq([k \in 1..Len(lits) |-> k],
                                LAMBDA k : /\ ~lits[k].placed /\ lits[k].seq = seq
                                           /\ LenAlgn(LitSize[lits[k].lit]) = a)
    IN segment(8) \o segment(4) \o segment(2) \o segment(1)

\* The address of each member of a gathered pool laid out from base, and (at
\* index 0 for an empty pool) where the pool ends.
PoolPlaces(mem, base) ==
    LET place[n \in 0..Len(mem)] ==
            IF n = 0 THEN [at |-> base, end |-> Align(base, 8)]
            ELSE LET t == lits[mem[n]].lit
                     a == Align(place[n - 1].end, LitAlgn[t])
                 IN [at |-> a, end |-> a + LitSize[t]]
    IN place

PoolExtent(mem, base) == PoolPlaces(mem, base)[Len(mem)].end

(***************************************************************************)
(* Section extents (sect_lc_of), and the reservation of the END pool at    *)
(* the end of the first control section (pool_reserve).                    *)
(***************************************************************************)
HwmAfter(h, s, end) ==
    IF s # NoSect /\ end > h[s] THEN [h EXCEPT ![s] = end] ELSE h

ContentAfter(f, s, end) ==
    IF s # NoSect /\ s = f THEN Larger(firstContent, end) ELSE firstContent

\* Faulty variant: a reservation stands however the section grows.
ReserveOnce ==
    /\ first # NoSect
    /\ ~pool.defer
    /\ PoolGather(endPoolSeq) # <<>>

\* A reservation stands while the section has not grown past it.
ReserveDue ==
    /\ first # NoSect
    /\ ~(pool.defer /\ firstContent <= pool.hwm0)
    /\ PoolGather(endPoolSeq) # <<>>

ReservedEnd == PoolExtent(PoolGather(endPoolSeq), Align(firstContent, 8))

PoolReserve == IF ReserveDue
               THEN [defer |-> TRUE, org |-> Align(firstContent, 8), hwm0 |-> firstContent]
               ELSE pool

ReservedHwm == IF ReserveDue THEN HwmAfter(hwm, first, ReservedEnd) ELSE hwm

NoPool == [defer |-> FALSE, org |-> 0, hwm0 |-> 0]

(***************************************************************************)
(* The state each pass starts from.                                        *)
(***************************************************************************)
PassStart ==
    [lc |-> 0, cur |-> NoSect, mode |-> "csect",
     zero |-> [s \in Sections |-> 0]]

Init ==
    /\ prog \in Programs
    /\ pass = 1 /\ i = 1
    /\ lc = PassStart.lc /\ cur = PassStart.cur /\ mode = PassStart.mode
    /\ main = [lc |-> 0, sect |-> NoSect] /\ orgHwm = 0
    /\ hwm = PassStart.zero /\ rel = PassStart.zero /\ opened = {}
    /\ first = NoSect /\ firstContent = 0 /\ pool = NoPool
    /\ ord = <<>> /\ org = PassStart.zero /\ len1 = PassStart.zero /\ startBase = 0
    /\ extrns = {} /\ litpool = 0
    /\ endPoolSeq = Prescan(prog).seq /\ lits = Prescan(prog).lits
    /\ label = [k \in 1..Len(prog) |-> <<NoSect, 0>>]
    /\ loc = [k \in 1..Len(prog) |-> <<NoSect, 0>>]
    /\ refs = {} /\ text = {}

Stmt == prog[i]
At(ops) == pass \in {1, 2} /\ i <= Len(prog) /\ Stmt.op \in ops
Advance == i' = i + 1 /\ UNCHANGED <<prog, pass, endPoolSeq>>

\* A storage statement before any section opens the private code.
Opening == cur = NoSect
Here == IF Opening THEN PrivateCode ELSE cur
FirstHere == IF first = NoSect /\ Opening THEN PrivateCode ELSE first
Chained(s) == IF pass = 1 /\ s \notin {ord[k] : k \in DOMAIN ord} THEN Append(ord, s) ELSE ord
Open == /\ cur' = Here
        /\ first' = FirstHere
        /\ ord' = IF Opening THEN Chained(PrivateCode) ELSE ord

\* put: text only in a control section, filed under an ESD entry.  The faulty
\* variant files what opens the private code under no section.
Image(a, n, by, under) == {[at |-> b, by |-> by, under |-> under] : b \in a..(a + n - 1)}
BytesUnderCur(a, n) ==
    IF pass = 2 /\ mode = "csect" THEN Image(a, n, <<"stmt", i>>, cur) ELSE {}
Bytes(a, n) ==
    IF pass = 2 /\ mode = "csect" THEN Image(a, n, <<"stmt", i>>, Here) ELSE {}

\* The counter moves to `end'; a dummy section's extent is not measured.
MoveTo(end) ==
    /\ lc' = end
    /\ hwm' = IF mode = "dsect" THEN hwm ELSE HwmAfter(hwm, Here, end)
    /\ firstContent' = IF mode = "dsect" THEN firstContent ELSE ContentAfter(FirstHere, Here, end)

Located(a) ==
    /\ label' = IF pass = 1 THEN [label EXCEPT ![i] = <<Here, a>>] ELSE label
    /\ loc' = IF pass = 2 THEN [loc EXCEPT ![i] = <<Here, a>>] ELSE loc

(***************************************************************************)
(* Section statements: the section being left parks its counter, the one   *)
(* entered begins at zero the first time and is resumed afterwards.        *)
(***************************************************************************)
\* Faulty variant: parked with its origin.
ParkedAbsolute == IF cur = NoSect THEN rel ELSE [rel EXCEPT ![cur] = lc]
Parked == IF cur = NoSect THEN rel ELSE [rel EXCEPT ![cur] = lc - Base(cur)]

\* A name declared EXTRN may not name a section: private code instead.
SectionNamed(n) ==
    IF n \in extrns THEN PrivateCode ELSE n

\* CSECT and START.  Private code that has content is resumed however it was
\* opened.  Opening another section than the first reserves the END pool.
Csect ==
    /\ At({"CSECT"})
    /\ LET s == SectionNamed(Stmt.name)
           begins == s \notin opened /\ ~(s = PrivateCode /\ hwm[s] > 0)
           closes == first # NoSect /\ s # first
       IN /\ rel' = IF begins THEN [Parked EXCEPT ![s] = 0] ELSE Parked
          /\ lc' = Base(s) + rel'[s]
          /\ cur' = s
          /\ opened' = opened \union {s}
          /\ ord' = IF s \in opened THEN ord ELSE Chained(s)
          /\ first' = IF first = NoSect THEN s ELSE first
          /\ pool' = IF closes THEN PoolReserve ELSE pool
          /\ hwm' = IF closes THEN ReservedHwm ELSE hwm
    /\ startBase' = IF first = NoSect /\ Stmt.start > 0 THEN Align(Stmt.start, 8) ELSE startBase
    /\ mode' = "csect" /\ orgHwm' = 0
    /\ UNCHANGED <<main, firstContent, org, len1, extrns, litpool, lits, output>>
    /\ Advance

\* DSECT and COM: the control section left is remembered for END.
Dummy ==
    /\ At({"DSECT", "COM"})
    /\ main' = IF mode = "csect" THEN [lc |-> lc, sect |-> cur] ELSE main
    /\ rel' = IF Stmt.name \in opened THEN Parked ELSE [Parked EXCEPT ![Stmt.name] = 0]
    /\ lc' = rel'[Stmt.name]
    /\ cur' = Stmt.name
    /\ mode' = IF Stmt.op = "DSECT" THEN "dsect" ELSE "com"
    /\ orgHwm' = 0
    /\ opened' = opened \union {Stmt.name}
    /\ UNCHANGED <<hwm, first, firstContent, pool, chain, extrns, litpool, lits, output>>
    /\ Advance

\* EXTRN of a name not defined so far.
Extrn ==
    /\ At({"EXTRN"})
    /\ extrns' = IF pass = 1 /\ Stmt.name \notin opened
                 THEN extrns \union {Stmt.name} ELSE extrns
    /\ UNCHANGED <<counter, tables, chain, litpool, lits, output>>
    /\ Advance

(***************************************************************************)
(* Statements that occupy storage.                                         *)
(***************************************************************************)

\* DC and DS: DC puts its bytes, DS only moves the counter.
Storage ==
    /\ At({"DC", "DS"})
    /\ Open
    /\ LET a == Align(lc, Stmt.algn) IN
       /\ MoveTo(a + Stmt.len)
       /\ Located(a)
       /\ text' = IF Stmt.op = "DC" THEN text \union Bytes(a, Stmt.len) ELSE text
    /\ UNCHANGED <<mode, main, orgHwm, rel, opened, pool, org, len1, startBase,
                   extrns, litpool, lits, refs>>
    /\ Advance

\* Whether an instruction raises the extent: pass 1 always does, pass 2 by what
\* it puts, which in a COM is nothing.  Faulty variant: only what is put.
MeasuredByPut == mode = "csect" /\ pass = 2
Measured == mode = "csect" \/ (mode = "com" /\ pass = 1)

\* A machine instruction, halfword aligned.  Pass 2's operand reads the
\* address pass 1 gave the literal.
Instruction ==
    /\ At({"INS"})
    /\ Open
    /\ LET a == Align(lc, 2)
           end == a + Stmt.len
           table == LitGet(lits, Stmt.lit, litpool)
           k == LitIndex(table, Stmt.lit, litpool)
       IN /\ lc' = end
          /\ hwm' = IF Measured THEN HwmAfter(hwm, Here, end) ELSE hwm
          /\ firstContent' = IF Measured THEN ContentAfter(FirstHere, Here, end) ELSE firstContent
          /\ Located(a)
          /\ text' = text \union Bytes(lc, end - lc)
          /\ lits' = table
          /\ refs' = IF pass = 2 /\ Stmt.lit # NoLit
                     THEN refs \union {<<i, k, table[k].loc>>} ELSE refs
    /\ UNCHANGED <<mode, main, orgHwm, rel, opened, pool, org, len1, startBase,
                   extrns, litpool>>
    /\ Advance

\* ORG to an offset of the current section, or back to the highest counter.
Org ==
    /\ At({"ORG"})
    /\ LET top == Larger(orgHwm, lc)
           to == IF Stmt.to = "top" THEN top ELSE Base(cur) + Stmt.offset
       IN /\ orgHwm' = Larger(top, to)
          /\ lc' = to
          /\ hwm' = IF mode = "dsect" THEN hwm ELSE HwmAfter(hwm, cur, orgHwm')
          /\ firstContent' = IF mode = "dsect" THEN firstContent
                             ELSE ContentAfter(first, cur, orgHwm')
    /\ UNCHANGED <<cur, mode, main, rel, opened, first, pool, chain, extrns,
                   litpool, lits, output>>
    /\ Advance

\* CNOP b,w: no-ops up to b modulo w.  They are put in pass 2 only, and only
\* put raises the extent: pass 1 moves the counter and measures nothing.
Cnop ==
    /\ At({"CNOP"})
    /\ LET a == Align(lc, 2)
           end == a + ((Stmt.b - a) % Stmt.w)
           noted == pass = 2 /\ mode = "csect" /\ end > lc
       IN /\ lc' = end
          /\ hwm' = IF noted THEN HwmAfter(hwm, cur, end) ELSE hwm
          /\ firstContent' = IF noted THEN ContentAfter(first, cur, end) ELSE firstContent
          /\ text' = text \union Bytes(lc, end - lc)
          /\ Located(a)
    /\ UNCHANGED <<cur, mode, main, orgHwm, rel, opened, first, pool, chain, extrns,
                   litpool, lits, refs>>
    /\ Advance

(***************************************************************************)
(* LTORG and END flush the open pool.  END leaves a dummy or common        *)
(* section first, and puts its pool into the room reserved in the first    *)
(* control section, whichever section is current.                          *)
(***************************************************************************)
AtEnd == Stmt.op = "END"
Back == AtEnd /\ mode # "csect"
FlushPool == IF AtEnd /\ pass = 1 THEN PoolReserve ELSE pool
FlushHwm == IF AtEnd /\ pass = 1 THEN ReservedHwm ELSE hwm
FlushLc == IF AtEnd /\ pass = 1 /\ ReserveDue THEN ReservedEnd
           ELSE IF Back THEN main.lc ELSE lc
FlushCur == IF Back THEN main.sect ELSE IF AtEnd THEN cur ELSE Here

\* main_sect_esdid: the first named control section, else the first.
MainEsd ==
    LET named == SelectSeq(ord, LAMBDA s : s \in CsectNames)
    IN IF named # <<>> THEN named[1] ELSE IF ord # <<>> THEN ord[1] ELSE NoSect

Flush ==
    /\ At({"LTORG", "END"})
    /\ LET mem == PoolGather(litpool)
           defer == FlushPool.defer /\ AtEnd /\ mem # <<>>
           s == IF defer THEN first ELSE FlushCur
           under == IF ~defer /\ Back THEN MainEsd ELSE s
           start == IF defer THEN FlushPool.org ELSE FlushLc
           places == PoolPlaces(mem, start)
           end == IF AtEnd /\ mem = <<>> THEN start ELSE places[Len(mem)].end
           puts == pass = 2 /\ (AtEnd \/ mode = "csect")
           PutEnd(n) == lits[mem[n]].loc + LitSize[lits[mem[n]].lit]
           \* the counter, and in pass 2 the literals put
           reached == CHOOSE m \in {end} \union {PutEnd(n) : n \in {k \in DOMAIN mem : puts}} :
                          m >= end /\ (puts => \A n \in DOMAIN mem : PutEnd(n) <= m)
           noted == AtEnd \/ mode # "dsect"
       IN /\ lits' = [k \in DOMAIN lits |->
                         IF \E n \in DOMAIN mem : mem[n] = k
                         THEN LET n == CHOOSE m \in DOMAIN mem : mem[m] = k IN
                              IF pass = 1
                              THEN [lits[k] EXCEPT !.loc = places[n].at, !.psect = s, !.placed = TRUE]
                              ELSE [lits[k] EXCEPT !.placed = TRUE]
                         ELSE lits[k]]
          /\ text' = IF puts
                     THEN text \union UNION {Image(lits[mem[n]].loc, LitSize[lits[mem[n]].lit],
                                                   <<"lit", mem[n]>>, under) : n \in DOMAIN mem}
                     ELSE text
          /\ hwm' = IF noted THEN HwmAfter(FlushHwm, s, reached) ELSE FlushHwm
          /\ firstContent' = IF noted THEN ContentAfter(FirstHere, s, reached) ELSE firstContent
          /\ lc' = IF defer THEN FlushLc ELSE end
    /\ pool' = FlushPool
    /\ cur' = FlushCur
    /\ mode' = IF AtEnd THEN "csect" ELSE mode
    /\ first' = IF AtEnd THEN first ELSE FirstHere
    /\ ord' = IF ~AtEnd /\ Opening THEN Chained(PrivateCode) ELSE ord
    /\ litpool' = litpool + 1
    /\ UNCHANGED <<main, orgHwm, rel, opened, org, len1, startBase, extrns, label, loc, refs>>
    /\ Advance

(***************************************************************************)
(* Between the passes the control sections are chained, each on the next   *)
(* doubleword behind the finished length of the one before, and every      *)
(* pass-1 address of a label or a literal becomes absolute.                *)
(***************************************************************************)
AssignOrigins ==
    LET start[k \in 1..Len(ord) + 1] ==
            IF k = 1 THEN startBase ELSE Align(start[k - 1] + hwm[ord[k - 1]], 8)
    IN [s \in Sections |->
           IF \E k \in DOMAIN ord : ord[k] = s
           THEN start[CHOOSE k \in DOMAIN ord : ord[k] = s] ELSE 0]

Moved(p) == IF p[1] = NoSect THEN p ELSE <<p[1], p[2] + org'[p[1]]>>

BetweenPasses ==
    /\ pass = 1 /\ i > Len(prog)
    /\ pass' = 2 /\ i' = 1
    /\ org' = AssignOrigins
    /\ len1' = hwm
    /\ label' = [k \in DOMAIN label |-> Moved(label[k])]
    /\ lits' = [k \in DOMAIN lits |->
                   [lits[k] EXCEPT !.placed = FALSE,
                                   !.loc = Moved(<<lits[k].psect, @>>)[2]]]
    /\ lc' = PassStart.lc /\ cur' = PassStart.cur /\ mode' = PassStart.mode
    /\ orgHwm' = 0 /\ hwm' = PassStart.zero /\ rel' = PassStart.zero /\ opened' = {}
    /\ first' = NoSect /\ firstContent' = 0 /\ pool' = NoPool /\ litpool' = 0
    /\ UNCHANGED <<prog, main, ord, startBase, extrns, endPoolSeq, loc, refs, text>>

Finish ==
    /\ pass = 2 /\ i > Len(prog)
    /\ pass' = 3
    /\ UNCHANGED <<prog, i, counter, tables, chain, extrns, litpool, endPoolSeq, lits, output>>

Done == pass = 3 /\ UNCHANGED vars

Next == \/ Csect \/ Dummy \/ Extrn \/ Storage \/ Instruction \/ Org \/ Cnop
        \/ Flush \/ BetweenPasses \/ Finish \/ Done

Spec == Init /\ [][Next]_vars

(***************************************************************************)
(* Properties.                                                             *)
(***************************************************************************)
Control == {ord[k] : k \in DOMAIN ord}

\* sect_length: the ESD length of a section, from pass 2's extent.
SectLength(s) == IF hwm[s] > org[s] THEN hwm[s] - org[s] ELSE 0

\* Pass 2 meets every statement at the address pass 1 gave its label, so every
\* reference resolved from pass 1's symbol table points at what it names --
\* across parked and resumed sections, dummy sections and moved pools.
PassesAgree ==
    pass >= 2 => \A k \in 1..Len(prog) : loc[k][1] # NoSect => loc[k] = label[k]

\* No two control sections of the finished deck overlap.
SectionsApart ==
    pass = 3 =>
        \A s, t \in Control :
            s # t => \/ org[s] + SectLength(s) <= org[t]
                     \/ org[t] + SectLength(t) <= org[s]

\* Every byte of text lies inside the section its TXT card is filed under,
\* within the length the ESD gives it.
TextInSection ==
    pass = 3 =>
        \A b \in text : /\ b.under \in Control
                        /\ b.at \in org[b.under]..(org[b.under] + SectLength(b.under) - 1)

\* A literal referenced in pass 2 whose pool went into a control section (an
\* LTORG in a dummy section puts nothing) is emitted at the address the
\* reference used.  In a program without an ORG no two statements or literals
\* write the same byte, so nothing is written over a literal; with one, that is
\* not claimed, for the program itself may go back over what it wrote.
NothingOverwritten ==
    pass = 3 =>
        /\ \A r \in refs : lits[r[2]].psect \in Control =>
              \E b \in text : b.by = <<"lit", r[2]>> /\ b.at = r[3]
        /\ \A b, c \in text :
              (b.at = c.at /\ b.by # c.by) =>
                  \E k \in 1..Len(prog) : prog[k].op = "ORG"

=============================================================================
