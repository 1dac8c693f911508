-------------------------- MODULE LoadModuleProofs --------------------------
(***************************************************************************)
(* Proofs about the records of a load module: the RLD records for every    *)
(* table of items, every set of pairs and every record limit of at least   *)
(* eight bytes, then the others for every placed module, every number of   *)
(* symbols and every record limit.                                         *)
(***************************************************************************)
EXTENDS LoadModule, FiniteSetTheorems, TLAPS

(***************************************************************************)
(* The RLD records.                                                        *)
(***************************************************************************)
\* What holds between items: records and cells begin together, the newest cell
\* is in the newest record, promises nothing yet, and prev is its item's pair.
TailInv ==
    /\ pc = "emit" => items # << >>
    /\ hdr = << >> <=> cells = << >>
    /\ cells # << >> => /\ cells[Len(cells)].rec = Len(hdr)
                        /\ prev = items[Len(cells)].pair
                        /\ cells[Len(cells)].more = 0
    /\ \A n \in DOMAIN cells : cells[n].rec \in 1..Len(hdr)

\* An item was written: one cell in record r behind the others, of which only
\* the newest may have got its continuation bit, and that when no prefix was
\* written.
Wrote(r, rp) ==
    LET L == Len(cells) IN
    /\ L < Len(items)
    /\ Len(cells') = L + 1
    /\ cells' \in Seq(CellType)
    /\ cells'[L + 1] = Cell(r, rp)
    /\ \A n \in 1..L : /\ cells'[n].rec = cells[n].rec /\ cells'[n].rp = cells[n].rp
                       /\ cells'[n].pair = cells[n].pair /\ cells'[n].addr = cells[n].addr
                       /\ n # L => cells'[n].more = cells[n].more
    /\ L > 0 /\ rp = 4 => cells'[L].more = 0
    /\ rp = 0 => cells'[L].more = 1
    /\ Len(hdr') = r /\ hdr' \in Seq(Nat) /\ hdr' # << >>
    /\ prev' = next.pair
    /\ rp = 0 => L > 0 /\ r = Len(hdr) /\ next.pair = prev
    /\ r = Len(hdr) \/ r = Len(hdr) + 1

LEMMA SeqElement ==
    ASSUME NEW T, NEW s \in Seq(T), NEW m \in 1..Len(s)
    PROVE  s[m] \in T
OBVIOUS

LEMMA NextTyped ==
    ASSUME TypeOK, Len(cells) < Len(items)
    PROVE  next \in Item /\ next.pair \in Pairs /\ next.addr \in Nat
<1>1. Len(cells) \in Nat /\ Len(items) \in Nat /\ items \in Seq(Item)
  BY DEF TypeOK
<1>2. Len(cells) + 1 \in 1..Len(items)
  BY <1>1
<1>3. items[Len(cells) + 1] \in Item
  BY <1>1, <1>2
<1> QED BY <1>3 DEF next, Item

LEMMA SameWrote ==
    ASSUME TypeOK, TailInv, SamePair
    PROVE  Wrote(Len(hdr), 0)
<1> DEFINE L == Len(cells)
           C == [cells EXCEPT ![L].more = 1]
<1>1. L \in Nat /\ L < Len(items) /\ hdr # << >> /\ cells # << >> /\ L > 0 /\ next.pair = prev
  BY DEF TypeOK, TailInv, SamePair, More, Full, same
<1>2. next.pair \in Pairs /\ next.addr \in Nat
  BY <1>1, NextTyped
<1> DEFINE e == [cells[L] EXCEPT !.more = 1]
<1>3. cells \in Seq(CellType) /\ L \in 1..L /\ cells[L] \in CellType
  <2>1. cells \in Seq(CellType) /\ L \in 1..L
    BY <1>1 DEF TypeOK
  <2> QED BY <2>1, SeqElement
<1>4. /\ e \in CellType /\ e.rec = cells[L].rec /\ e.rp = cells[L].rp
      /\ e.pair = cells[L].pair /\ e.addr = cells[L].addr /\ e.more = 1
  BY <1>3 DEF CellType
<1> HIDE DEF e
<1>5. C = [cells EXCEPT ![L] = e]
  BY DEF e
<1>6. /\ C \in Seq(CellType) /\ Len(C) = L
      /\ \A n \in 1..L : C[n] = IF n = L THEN e ELSE cells[n]
  <2>1. cells \in Seq(CellType) /\ L \in 1..L /\ e \in CellType
    BY <1>3, <1>4
  <2> HIDE DEF C
  <2> QED BY <1>5, <2>1
<1> DEFINE x == Cell(Len(hdr), 0)
<1>7. x \in CellType
  BY <1>2 DEF Cell, CellType, TypeOK
<1>8. /\ cells' \in Seq(CellType) /\ Len(cells') = L + 1
      /\ cells'[L + 1] = x
      /\ \A n \in 1..L : cells'[n] = C[n]
  <2>1. cells' = Append(C, x)
    BY DEF SamePair
  <2> HIDE DEF C, x
  <2> QED BY <1>6, <1>7, <2>1
<1>9. hdr' = hdr /\ prev' = prev /\ hdr \in Seq(Nat)
  BY DEF SamePair, TypeOK
<1>10. \A n \in 1..L : cells'[n] = IF n = L THEN e ELSE cells[n]
  BY <1>6, <1>8
<1>11. cells'[L].more = 1
  BY <1>3, <1>4, <1>10
<1> HIDE DEF C
<1> QED
  <2>1. \A n \in 1..L : /\ cells'[n].rec = cells[n].rec /\ cells'[n].rp = cells[n].rp
                        /\ cells'[n].pair = cells[n].pair /\ cells'[n].addr = cells[n].addr
                        /\ n # L => cells'[n].more = cells[n].more
    BY <1>4, <1>10, Zenon
  <2> QED BY <1>1, <1>8, <1>9, <1>11, <2>1 DEF Wrote

\* A cell with its prefix in record r, the open one or a new one.
Prefixed(r) ==
    /\ More
    /\ cells' = Append(cells, Cell(r, 4)) /\ prev' = next.pair
    /\ Len(hdr') = r /\ hdr' \in Seq(Nat) /\ hdr' # << >>
    /\ r = Len(hdr) \/ r = Len(hdr) + 1

LEMMA NewWrote ==
    ASSUME TypeOK, TailInv, NEW r \in Nat, Prefixed(r)
    PROVE  Wrote(r, 4)
<1> DEFINE L == Len(cells)
<1>1. L \in Nat /\ L < Len(items)
  BY DEF TypeOK, More, Prefixed
<1>2. next.pair \in Pairs /\ next.addr \in Nat
  BY <1>1, NextTyped
<1> DEFINE x == Cell(r, 4)
<1>3. x \in CellType
  BY <1>2 DEF Cell, CellType
<1>4. /\ cells' \in Seq(CellType) /\ Len(cells') = L + 1
      /\ cells'[L + 1] = x
      /\ \A n \in 1..L : cells'[n] = cells[n]
  <2>1. cells \in Seq(CellType) /\ cells' = Append(cells, x)
    BY DEF TypeOK, Prefixed
  <2> HIDE DEF x
  <2> QED BY <1>3, <2>1
<1>5. L > 0 => cells'[L].more = 0
  <2> SUFFICES ASSUME L > 0 PROVE cells'[L].more = 0
    OBVIOUS
  <2>0. cells \in Seq(CellType) /\ L \in 1..L /\ cells # << >>
    BY <1>1 DEF TypeOK
  <2>1. cells # << >> /\ L \in 1..L /\ cells'[L] = cells[L] /\ cells[L] \in CellType
    <3>1. cells[L] \in CellType
      BY <2>0
    <3> QED BY <2>0, <3>1, <1>4, Zenon
  <2>2. cells[L].more = 0
    BY <2>1 DEF TailInv, CellType
  <2> QED BY <2>1, <2>2
<1> QED
  <2>1. /\ Len(hdr') = r /\ hdr' \in Seq(Nat) /\ hdr' # << >> /\ prev' = next.pair
        /\ r = Len(hdr) \/ r = Len(hdr) + 1
    BY DEF Prefixed
  <2>2. \A n \in 1..L : /\ cells'[n].rec = cells[n].rec /\ cells'[n].rp = cells[n].rp
                        /\ cells'[n].pair = cells[n].pair /\ cells'[n].addr = cells[n].addr
                        /\ n # L => cells'[n].more = cells[n].more
    BY <1>4, Zenon
  <2> QED BY <1>1, <1>4, <1>5, <2>1, <2>2 DEF Wrote

LEMMA NewPairWrote ==
    ASSUME TypeOK, TailInv, NewPair
    PROVE  Wrote(Len(hdr), 4)
<1>1. Len(hdr) \in Nat /\ hdr \in Seq(Nat) /\ hdr # << >> /\ hdr' = hdr
  BY DEF NewPair, TypeOK, Full
<1>2. Prefixed(Len(hdr))
  BY <1>1, Zenon DEF NewPair, Prefixed
<1> QED BY <1>1, <1>2, NewWrote

LEMMA ClosedTyped ==
    ASSUME TypeOK
    PROVE  Closed \in Seq(Nat) /\ Len(Closed) = Len(hdr)
           /\ \A r \in 1..Len(hdr) : Closed[r] = IF r = Len(hdr) THEN rec_data ELSE hdr[r]
<1>1. CASE hdr = << >>
  BY <1>1 DEF TypeOK, Closed
<1>2. CASE hdr # << >>
  <2>1. Len(hdr) \in DOMAIN hdr
    BY <1>2 DEF TypeOK
  <2>2. Closed = [hdr EXCEPT ![Len(hdr)] = rec_data] /\ hdr \in Seq(Nat) /\ rec_data \in Nat
    BY <1>2 DEF TypeOK, Closed
  <2> QED BY <2>1, <2>2
<1> QED BY <1>1, <1>2

LEMMA NewRecordWrote ==
    ASSUME TypeOK, TailInv, NewRecord
    PROVE  Wrote(Len(hdr) + 1, 4)
<1>1. Closed \in Seq(Nat) /\ Len(Closed) = Len(hdr)
  BY ClosedTyped
<1>2. hdr' \in Seq(Nat) /\ Len(hdr') = Len(hdr) + 1 /\ hdr' # << >>
  BY <1>1 DEF NewRecord
<1>3. Len(hdr) \in Nat /\ Len(hdr) + 1 \in Nat
  BY DEF TypeOK
<1>4. Prefixed(Len(hdr) + 1)
  BY <1>2, Zenon DEF NewRecord, Prefixed
<1> QED
  BY <1>3, <1>4, NewWrote

\* Every step but the last one writes an item.
LEMMA EveryStep ==
    ASSUME TypeOK, TailInv, Next
    PROVE  \/ \E r \in Nat, rp \in {0, 4} : Wrote(r, rp) /\ UNCHANGED <<items, last, pc>>
           \/ Finish
           \/ UNCHANGED vars
<1>1. CASE SamePair
  BY <1>1, SameWrote DEF TypeOK, SamePair
<1>2. CASE NewPair
  BY <1>2, NewPairWrote DEF TypeOK, NewPair
<1>3. CASE NewRecord
  BY <1>3, NewRecordWrote DEF TypeOK, NewRecord
<1> QED BY <1>1, <1>2, <1>3 DEF Next, Step

LEMMA TypeStep ==
    ASSUME TypeOK, TailInv, [Next]_vars
    PROVE  TypeOK'
<1>1. CASE UNCHANGED vars
  BY <1>1 DEF vars, TypeOK
<1>2. rec_data' \in Nat
  BY DEF Next, Step, SamePair, NewPair, NewRecord, Finish, TypeOK, vars
<1>3. CASE Finish
  BY <1>2, <1>3, ClosedTyped DEF Finish, TypeOK
<1>4. ASSUME NEW r \in Nat, NEW rp \in {0, 4}, Wrote(r, rp), UNCHANGED <<items, last, pc>>
      PROVE  TypeOK'
  <2>1. next.pair \in Pairs
    BY <1>4, NextTyped DEF Wrote
  <2> QED BY <1>2, <1>4, <2>1 DEF Wrote, TypeOK
<1> QED BY <1>1, <1>3, <1>4, EveryStep

LEMMA TailStep ==
    ASSUME TypeOK, TailInv, [Next]_vars
    PROVE  TailInv'
<1>1. CASE UNCHANGED vars
  BY <1>1 DEF vars, TailInv
<1>2. CASE Finish
  <2>1. Closed \in Seq(Nat) /\ Len(Closed) = Len(hdr)
    BY ClosedTyped
  <2> QED BY <1>2, <2>1 DEF Finish, TailInv, TypeOK
<1>3. ASSUME NEW r \in Nat, NEW rp \in {0, 4}, Wrote(r, rp), UNCHANGED <<items, last, pc>>
      PROVE  TailInv'
  <2> DEFINE L == Len(cells)
  <2>1. L \in Nat /\ DOMAIN cells = 1..L /\ DOMAIN cells' = 1..(L + 1)
    BY <1>3 DEF Wrote, TypeOK
  <2>2. /\ cells'[L + 1].rec = r /\ cells'[L + 1].more = 0
        /\ prev' = items'[L + 1].pair /\ Len(hdr') = r /\ hdr' # << >> /\ cells' # << >>
    <3>1. cells'[L + 1] = Cell(r, rp) /\ prev' = next.pair /\ Len(hdr') = r /\ hdr' # << >>
      BY <1>3 DEF Wrote
    <3>2. Cell(r, rp).rec = r /\ Cell(r, rp).more = 0
      BY DEF Cell
    <3>3. next = items'[L + 1] /\ cells' # << >>
      BY <1>3, <2>1 DEF next
    <3> QED BY <3>1, <3>2, <3>3
  <2>3. \A n \in 1..L : cells'[n].rec \in 1..r
    <3>1. Len(hdr) \in Nat /\ (r = Len(hdr) \/ r = Len(hdr) + 1)
      BY <1>3 DEF Wrote, TypeOK
    <3>2. \A n \in 1..L : cells[n].rec \in 1..Len(hdr) /\ cells'[n].rec = cells[n].rec
      BY <1>3, <2>1, Zenon DEF Wrote, TailInv
    <3> QED BY <3>1, <3>2
  <2>4. r >= 1
    BY <1>3 DEF Wrote
  <2>5. \A n \in DOMAIN cells' : cells'[n].rec \in 1..Len(hdr')
    BY <2>1, <2>2, <2>3, <2>4
  <2> QED BY <1>3, <2>1, <2>2, <2>5 DEF Wrote, TailInv
<1> QED BY <1>1, <1>2, <1>3, EveryStep

LEMMA Start ==
    ASSUME Init
    PROVE  TypeOK /\ TailInv
<1>1. items \in Seq(Item)
  BY TablesAssumption DEF Init, Begin
<1>2. cells = << >> /\ hdr = << >> /\ rec_data = 0 /\ prev = NoPair /\ last = 0
  BY DEF Init, Begin
<1>3. pc \in {"emit", "done"} /\ (pc = "emit" => items # << >>)
  BY DEF Init, Begin
<1>4. cells \in Seq(CellType) /\ hdr \in Seq(Nat) /\ Len(cells) <= Len(items)
  BY <1>1, <1>2
<1>5. TypeOK
  BY <1>1, <1>2, <1>3, <1>4 DEF TypeOK
<1>6. TailInv
  BY <1>2, <1>3 DEF TailInv
<1> QED BY <1>5, <1>6

\* The record writer's variables keep their types, whatever the items are.
THEOREM TypeCorrect == Spec => []TypeOK
<1>1. TypeOK /\ TailInv /\ [Next]_vars => TypeOK' /\ TailInv'
  BY TypeStep, TailStep
<1> QED BY <1>1, Start, PTL DEF Spec

-----------------------------------------------------------------------------
\* An item written leaves what a reader makes of the older cells alone.
LEMMA OlderCells ==
    ASSUME TypeOK, TailInv, NEW r \in Nat, NEW rp \in {0, 4}, Wrote(r, rp),
           NEW n \in 1..Len(cells)
    PROVE  /\ Fresh(n)' <=> Fresh(n)
           /\ \A m \in 1..n : HeldFrom(m, n)' <=> HeldFrom(m, n)
<1> DEFINE L == Len(cells)
<1>1. L \in Nat /\ n \in Nat /\ n <= L
  BY DEF TypeOK
<1>2. \A k \in 1..L : cells'[k].rec = cells[k].rec /\ cells'[k].rp = cells[k].rp
  BY DEF Wrote
<1>3. \A k \in 1..L : k # L => cells'[k].more = cells[k].more
  BY DEF Wrote
<1>4. Fresh(n)' <=> Fresh(n)
  <2>1. CASE n = 1
    BY <2>1 DEF Fresh
  <2>2. CASE n # 1
    <3>1. n - 1 \in 1..L /\ n - 1 # L
      BY <1>1, <2>2
    <3> QED BY <1>2, <1>3, <2>2, <3>1 DEF Fresh
  <2> QED BY <2>1, <2>2
<1>5. ASSUME NEW m \in 1..n
      PROVE  HeldFrom(m, n)' <=> HeldFrom(m, n)
  <2>1. m \in 1..L /\ \A q \in (m + 1)..n : q \in 1..L
    BY <1>1
  <2> QED BY <1>2, <2>1 DEF HeldFrom
<1> QED BY <1>4, <1>5

LEMMA ReadStep ==
    ASSUME TypeOK, TailInv, ItemsRead, [Next]_vars
    PROVE  ItemsRead'
<1>0. ASSUME UNCHANGED <<items, cells>> PROVE ItemsRead'
  <2>1. cells' = cells /\ items' = items
    BY <1>0
  <2>2. ASSUME NEW n PROVE Fresh(n)' <=> Fresh(n)
    BY <2>1 DEF Fresh
  <2>3. ASSUME NEW n, NEW m PROVE HeldFrom(m, n)' <=> HeldFrom(m, n)
    BY <2>1 DEF HeldFrom
  <2> QED BY <2>1, <2>2, <2>3 DEF ItemsRead
<1>1. CASE UNCHANGED vars
  BY <1>0, <1>1 DEF vars
<1>2. CASE Finish
  BY <1>0, <1>2 DEF Finish
<1>3. ASSUME NEW r \in Nat, NEW rp \in {0, 4}, Wrote(r, rp), UNCHANGED <<items, last, pc>>
      PROVE  ItemsRead'
  <2> DEFINE L == Len(cells)
  <2>1. L \in Nat /\ DOMAIN cells = 1..L /\ DOMAIN cells' = 1..(L + 1) /\ Len(cells') = L + 1
    BY <1>3 DEF Wrote, TypeOK
  <2>2. \A k \in 1..L : /\ cells'[k].rec = cells[k].rec /\ cells'[k].rp = cells[k].rp
                        /\ cells'[k].pair = cells[k].pair /\ cells'[k].addr = cells[k].addr
    BY <1>3 DEF Wrote
  <2>3. \A k \in 1..L : k # L => cells'[k].more = cells[k].more
    BY <1>3 DEF Wrote
  <2>4. /\ cells'[L + 1].rec = r /\ cells'[L + 1].rp = rp /\ cells'[L + 1].more = 0
        /\ cells'[L + 1].addr = items[L + 1].addr
        /\ rp = 4 => cells'[L + 1].pair = items[L + 1].pair
    <3>1. cells'[L + 1] = Cell(r, rp)
      BY <1>3 DEF Wrote
    <3> QED BY <3>1 DEF Cell, next
  <2>5. /\ L > 0 /\ rp = 4 => cells'[L].more = 0
        /\ rp = 0 => /\ cells'[L].more = 1 /\ L > 0
                     /\ r = cells[L].rec /\ items[L + 1].pair = items[L].pair
    <3>1. /\ L > 0 /\ rp = 4 => cells'[L].more = 0
          /\ rp = 0 => /\ cells'[L].more = 1 /\ L > 0
                       /\ r = Len(hdr) /\ items[L + 1].pair = prev
      BY <1>3 DEF Wrote, next
    <3>2. L > 0 => cells[L].rec = Len(hdr) /\ prev = items[L].pair
      BY <2>1 DEF TailInv, TypeOK
    <3> QED BY <3>1, <3>2
  <2>6. ASSUME NEW n \in 1..L
        PROVE  /\ cells'[n].rp = 4 <=> Fresh(n)'
               /\ cells'[n].addr = items'[n].addr
               /\ \E m \in DOMAIN cells' : HeldFrom(m, n)'
               /\ \A m \in DOMAIN cells' : HeldFrom(m, n)' =>
                      cells'[m].rec = cells'[n].rec /\ cells'[m].pair = items'[n].pair
               /\ cells'[n].more = 1 => n < Len(cells') /\ cells'[n + 1].rec = cells'[n].rec
    <3>1. /\ Fresh(n)' <=> Fresh(n)
          /\ \A m \in 1..n : HeldFrom(m, n)' <=> HeldFrom(m, n)
      BY <1>3, OlderCells
    <3>2. /\ cells[n].rp = 4 <=> Fresh(n)
          /\ cells[n].addr = items[n].addr
          /\ \E m \in 1..L : HeldFrom(m, n)
          /\ \A m \in 1..L : HeldFrom(m, n) =>
                 cells[m].rec = cells[n].rec /\ cells[m].pair = items[n].pair
          /\ cells[n].more = 1 => n < L /\ cells[n + 1].rec = cells[n].rec
      BY <2>1 DEF ItemsRead
    <3>3. /\ \A m \in 1..L : HeldFrom(m, n) => m \in 1..n
          /\ \A m \in 1..(L + 1) : HeldFrom(m, n)' => m \in 1..n
      BY <2>1 DEF HeldFrom
    <3>4. items' = items
      BY <1>3
    <3>5. \E m \in DOMAIN cells' : HeldFrom(m, n)'
      <4>1. PICK m \in 1..L : HeldFrom(m, n)
        BY <3>2
      <4>2. HeldFrom(m, n)' /\ m \in 1..(L + 1)
        BY <2>1, <3>1, <3>3, <4>1
      <4> QED BY <2>1, <4>2
    <3>6. \A m \in DOMAIN cells' : HeldFrom(m, n)' =>
              cells'[m].rec = cells'[n].rec /\ cells'[m].pair = items'[n].pair
      <4> SUFFICES ASSUME NEW m \in 1..(L + 1), HeldFrom(m, n)'
                   PROVE  cells'[m].rec = cells'[n].rec /\ cells'[m].pair = items'[n].pair
        BY <2>1
      <4>1. m \in 1..n /\ m \in 1..L /\ HeldFrom(m, n)
        BY <2>1, <3>1, <3>3
      <4> QED BY <2>2, <3>2, <3>4, <4>1
    <3>7. cells'[n].more = 1 => n < Len(cells') /\ cells'[n + 1].rec = cells'[n].rec
      <4>1. CASE n = L
        <5>1. cells'[n].more = 1 => rp = 0
          BY <2>1, <2>5, <4>1
        <5> QED BY <2>1, <2>2, <2>4, <2>5, <4>1, <5>1
      <4>2. CASE n # L
        <5>1. n \in Nat /\ 1 <= n /\ n + 1 <= L /\ n + 1 \in 1..L
          <6>1. n \in Nat /\ L \in Nat /\ 1 <= n /\ n <= L
            BY <2>1
          <6> QED BY <6>1, <4>2
        <5>2. cells'[n].more = cells[n].more /\ cells'[n + 1].rec = cells[n + 1].rec
              /\ cells'[n].rec = cells[n].rec
          BY <2>2, <2>3, <4>2, <5>1
        <5>3. cells[n].more = 1 => cells[n + 1].rec = cells[n].rec
          BY <3>2
        <5>4. n < Len(cells')
          BY <2>1
        <5> QED BY <5>2, <5>3, <5>4
      <4> QED BY <4>1, <4>2
    <3> QED BY <2>2, <3>1, <3>2, <3>4, <3>5, <3>6, <3>7
  <2>n. PICK N \in Nat : N = L + 1
    BY <2>1
  <2>7. cells'[N].rp = 4 <=> Fresh(N)'
    <3>1. CASE rp = 4
      <4>1. CASE L = 0
        BY <2>4, <2>n, <3>1, <4>1 DEF Fresh
      <4>2. CASE L > 0
        <5>1. cells'[N - 1].more = 0
          BY <2>1, <2>n, <2>5, <3>1, <4>2
        <5> QED BY <2>4, <2>n, <3>1, <5>1 DEF Fresh
      <4> QED BY <2>1, <2>n, <4>1, <4>2
    <3>2. CASE rp = 0
      <4>1. N - 1 = L /\ L \in 1..L /\ N # 1
        BY <2>1, <2>n, <2>5, <3>2
      <4>2. cells'[L].more = 1 /\ cells'[L].rec = cells'[N].rec
        BY <2>2, <2>4, <2>n, <2>5, <3>2, <4>1
      <4> QED BY <2>4, <2>n, <3>2, <4>1, <4>2 DEF Fresh
    <3> QED BY <3>1, <3>2
  <2>8. \A m \in 1..N : HeldFrom(m, N)' <=>
            IF rp = 4 THEN m = N ELSE m \in 1..L /\ HeldFrom(m, L)
    <3> SUFFICES ASSUME NEW m \in 1..N
                 PROVE  HeldFrom(m, N)' <=> IF rp = 4 THEN m = N ELSE m \in 1..L /\ HeldFrom(m, L)
      OBVIOUS
    <3>0. HeldFrom(m, N)' <=> m <= N /\ cells'[m].rp = 4 /\ \A q \in (m + 1)..N : cells'[q].rp = 0
      BY DEF HeldFrom
    <3>1. CASE rp = 4
      <4>1. m # N => N \in (m + 1)..N
        BY <2>1, <2>n
      <4>2. m = N => \A q \in (m + 1)..N : cells'[q].rp = 0
        BY <2>1, <2>n
      <4> QED BY <2>1, <2>n, <2>4, <3>0, <3>1, <4>1, <4>2
    <3>2. CASE rp = 0
      <4>1. m = N => cells'[m].rp # 4
        BY <2>4, <2>n, <3>2
      <4>2. ASSUME m \in 1..L
            PROVE  HeldFrom(m, N)' <=> HeldFrom(m, L)
        <5>1. (m + 1)..N = ((m + 1)..L) \cup {N}
          BY <2>1, <2>n, <4>2
        <5>2. \A q \in (m + 1)..L : q \in 1..L
          BY <2>1, <2>n, <4>2
        <5>3. m <= N /\ m <= L
          BY <2>1, <2>n, <4>2
        <5> QED BY <2>2, <2>4, <2>n, <3>0, <3>2, <4>2, <5>1, <5>2, <5>3 DEF HeldFrom
      <4>3. m \in 1..L \/ m = N
        BY <2>1, <2>n
      <4> QED BY <3>0, <3>2, <4>1, <4>2, <4>3
    <3> QED BY <3>1, <3>2
  <2>9. /\ \E m \in DOMAIN cells' : HeldFrom(m, N)'
        /\ \A m \in DOMAIN cells' : HeldFrom(m, N)' =>
               cells'[m].rec = cells'[N].rec /\ cells'[m].pair = items'[N].pair
    <3>1. CASE rp = 4
      BY <1>3, <2>1, <2>n, <2>4, <2>8, <3>1
    <3>2. CASE rp = 0
      <4>1. L \in 1..L
        BY <2>1, <2>n, <2>5, <3>2
      <4>2. /\ \E m \in 1..L : HeldFrom(m, L)
            /\ \A m \in 1..L : HeldFrom(m, L) =>
                   cells[m].rec = cells[L].rec /\ cells[m].pair = items[L].pair
        BY <2>1, <2>n, <4>1 DEF ItemsRead
      <4>3. \A m \in 1..L : m \in 1..N
        BY <2>1, <2>n
      <4> QED BY <1>3, <2>1, <2>n, <2>2, <2>4, <2>5, <2>8, <3>2, <4>2, <4>3
    <3> QED BY <3>1, <3>2
  <2> QED
    <3> SUFFICES ASSUME NEW n \in DOMAIN cells'
                 PROVE  /\ cells'[n].rp = 4 <=> Fresh(n)'
                        /\ cells'[n].addr = items'[n].addr
                        /\ \E m \in DOMAIN cells' : HeldFrom(m, n)'
                        /\ \A m \in DOMAIN cells' : HeldFrom(m, n)' =>
                               cells'[m].rec = cells'[n].rec /\ cells'[m].pair = items'[n].pair
                        /\ cells'[n].more = 1 => n < Len(cells') /\ cells'[n + 1].rec = cells'[n].rec
      BY DEF ItemsRead
    <3>1. n \in 1..L \/ n = N
      BY <2>1, <2>n
    <3>2. CASE n \in 1..L
      BY <2>6, <3>2
    <3>3. CASE n = N
      BY <1>3, <2>n, <2>4, <2>1, <2>7, <2>9, <3>3
    <3> QED BY <3>1, <3>2, <3>3
<1> QED BY <1>1, <1>2, <1>3, EveryStep

-----------------------------------------------------------------------------
LEMMA EndStep ==
    ASSUME TypeOK, TailInv, ModuleEnded, [Next]_vars
    PROVE  ModuleEnded'
<1>1. CASE UNCHANGED vars
  BY <1>1 DEF vars, ModuleEnded
<1>2. CASE Finish
  <2>1. /\ Len(cells) = Len(items) /\ cells' = cells /\ items' = items
        /\ last' = Len(hdr) /\ hdr' = Closed
    BY <1>2 DEF Finish
  <2>2. Len(hdr') = Len(hdr)
    BY <2>1, ClosedTyped
  <2>3. items # << >> => cells # << >>
    BY <2>1 DEF TypeOK
  <2> QED BY <2>1, <2>2, <2>3 DEF ModuleEnded, TailInv
<1>3. ASSUME NEW r \in Nat, NEW rp \in {0, 4}, Wrote(r, rp), UNCHANGED <<items, last, pc>>
      PROVE  ModuleEnded'
  <2>1. Len(cells) < Len(items) /\ Len(cells) \in Nat /\ Len(items) \in Nat
    BY <1>3 DEF Wrote, TypeOK
  <2>2. pc # "done"
    BY <2>1 DEF ModuleEnded
  <2> QED BY <1>3, <2>2 DEF ModuleEnded
<1> QED BY <1>1, <1>2, <1>3, EveryStep

\* RLD emission: when the loop is over every item is in a record and the record
\* patched to RLD + MODEND is the last one, the one that holds the last item.
THEOREM EndsModule == Spec => []ModuleEnded
<1>1. Init => ModuleEnded
  <2> SUFFICES ASSUME Init PROVE ModuleEnded
    OBVIOUS
  <2>1. pc = "done" => items = << >>
    BY DEF Init, Begin
  <2>2. cells = << >>
    BY DEF Init, Begin
  <2> QED BY <2>1, <2>2 DEF ModuleEnded
<1>2. TypeOK /\ TailInv /\ ModuleEnded /\ [Next]_vars
        => TypeOK' /\ TailInv' /\ ModuleEnded'
  BY TypeStep, TailStep, EndStep
<1> QED BY <1>1, <1>2, Start, PTL DEF Spec

(***************************************************************************)
(* The CESD records.                                                       *)
(***************************************************************************)
USE CesdMaxAssumption

CesdRecord == [first : Nat, bytes : Nat, ids : Seq(Nat)]

\* The first ESDID behind those of a record.
Behind(e) == e.first + Len(e.ids)

\* Records c with w entries in the open one, before entry g of n: the records
\* number on from each other, every ESDID below g is in one of them, and all
\* but the open one have their byte count.
Numbering(c, w, g, n) ==
    /\ c \in Seq(CesdRecord) /\ n \in Nat /\ g \in Nat \ {0} /\ w \in Nat /\ w < CESDMAX
    /\ g > n => w = 0
    /\ w > 0 => c # << >> /\ Len(c[Len(c)].ids) = w /\ Behind(c[Len(c)]) = g
    /\ \A r \in 1..Len(c) :
          /\ Len(c[r].ids) \in 1..CESDMAX /\ Behind(c[r]) <= g
          /\ \A k \in 1..Len(c[r].ids) : c[r].ids[k] = c[r].first + k - 1
          /\ r < Len(c) \/ w = 0 => c[r].bytes = 16 * Len(c[r].ids)
    /\ \A r, q \in 1..Len(c) : r < q => Behind(c[r]) <= c[q].first
    /\ \A x \in 1..(g - 1) : \E r \in 1..Len(c) : x >= c[r].first /\ x < Behind(c[r])

CesdInv == Numbering(cesd, in_rec, id, nG)

LEMMA CesdTyped ==
    ASSUME NEW e \in CesdRecord
    PROVE  e.first \in Nat /\ e.bytes \in Nat /\ e.ids \in Seq(Nat) /\ Len(e.ids) \in Nat /\ Behind(e) \in Nat
<1>1. e.first \in Nat /\ e.bytes \in Nat /\ e.ids \in Seq(Nat)
  BY DEF CesdRecord
<1> QED BY <1>1 DEF Behind

\* The record the next entry leaves behind.
Entered ==
    [first |-> Open.first, bytes |-> IF Closes THEN 16 * (in_rec + 1) ELSE Open.bytes,
     ids |-> Append(Open.ids, id)]

LEMMA EnteredRecord ==
    ASSUME CesdInv, id <= nG
    PROVE  /\ Entered \in CesdRecord /\ Len(Entered.ids) = in_rec + 1
           /\ Entered.first + in_rec = id
           /\ \A k \in 1..(in_rec + 1) : Entered.ids[k] = Entered.first + k - 1
           /\ Closes => Entered.bytes = 16 * (in_rec + 1)
           /\ in_rec > 0 => Entered.first = cesd[Len(cesd)].first
<1>1. in_rec \in Nat /\ id \in Nat
  BY DEF CesdInv, Numbering
<1>2. /\ Open \in CesdRecord /\ Len(Open.ids) = in_rec /\ Open.first + in_rec = id
      /\ \A k \in 1..in_rec : Open.ids[k] = Open.first + k - 1
      /\ in_rec > 0 => Open = cesd[Len(cesd)]
  <2>1. CASE in_rec = 0
    BY <1>1, <2>1 DEF Open, CesdRecord
  <2>2. CASE in_rec > 0
    <3>1. cesd # << >> /\ Len(cesd) \in Nat /\ Len(cesd) \in 1..Len(cesd)
      BY <2>2 DEF CesdInv, Numbering
    <3>2. cesd[Len(cesd)] \in CesdRecord
      BY <3>1 DEF CesdInv, Numbering
    <3>3. Open = cesd[Len(cesd)]
      BY <1>1, <2>2 DEF Open
    <3>4. Len(cesd[Len(cesd)].ids) = in_rec /\ Behind(cesd[Len(cesd)]) = id
      BY <2>2 DEF CesdInv, Numbering
    <3>5. \A k \in 1..Len(cesd[Len(cesd)].ids) : cesd[Len(cesd)].ids[k] = cesd[Len(cesd)].first + k - 1
      BY <3>1 DEF CesdInv, Numbering
    <3> QED BY <3>2, <3>3, <3>4, <3>5, CesdTyped DEF Behind
  <2> QED BY <1>1, <2>1, <2>2
<1>3. Open.ids \in Seq(Nat) /\ Open.first \in Nat /\ Open.bytes \in Nat
  BY <1>2, CesdTyped
<1>4. /\ Append(Open.ids, id) \in Seq(Nat) /\ Len(Append(Open.ids, id)) = in_rec + 1
      /\ \A k \in 1..in_rec : Append(Open.ids, id)[k] = Open.ids[k]
      /\ Append(Open.ids, id)[in_rec + 1] = id
  BY <1>1, <1>2, <1>3
<1>5. /\ Entered.first = Open.first /\ Entered.ids = Append(Open.ids, id)
      /\ Entered.bytes = IF Closes THEN 16 * (in_rec + 1) ELSE Open.bytes
  BY DEF Entered
<1>6. Entered \in CesdRecord
  BY <1>1, <1>3, <1>4 DEF Entered, CesdRecord
<1>7. \A k \in 1..(in_rec + 1) : Entered.ids[k] = Entered.first + k - 1
  <2> TAKE k \in 1..(in_rec + 1)
  <2>1. CASE k = in_rec + 1
    <3>1. Entered.ids[k] = id
      BY <1>4, <1>5, <2>1
    <3>2. Open.first + k - 1 = id
      BY <1>1, <1>2, <1>3, <2>1
    <3> QED BY <1>5, <3>1, <3>2
  <2>2. CASE k \in 1..in_rec
    BY <1>2, <1>4, <1>5, <2>2
  <2> QED BY <1>1, <2>1, <2>2
<1> QED BY <1>2, <1>4, <1>5, <1>6, <1>7

\* Record e is put behind c, or in the place of its last, the open one.
LEMMA Numbered ==
    ASSUME NEW c, NEW w, NEW g, NEW n, Numbering(c, w, g, n), g <= n,
           NEW e \in CesdRecord, Len(e.ids) = w + 1, e.first + w = g,
           \A k \in 1..(w + 1) : e.ids[k] = e.first + k - 1,
           w > 0 => e.first = c[Len(c)].first,
           NEW v \in Nat, v = 0 \/ v = w + 1, v < CESDMAX, g + 1 > n => v = 0,
           v = 0 => e.bytes = 16 * (w + 1),
           NEW d, d = IF w = 0 THEN Append(c, e) ELSE [c EXCEPT ![Len(c)] = e]
    PROVE  Numbering(d, v, g + 1, n)
<1> DEFINE L == IF w = 0 THEN Len(c) + 1 ELSE Len(c)
<1>1. w \in Nat /\ g \in Nat \ {0} /\ n \in Nat /\ c \in Seq(CesdRecord) /\ Len(c) \in Nat /\ w < CESDMAX
  BY DEF Numbering
<1>2. w > 0 => Len(c) \in 1..Len(c)
  BY <1>1 DEF Numbering
<1>3. e.first \in Nat /\ Len(e.ids) \in Nat /\ Behind(e) = g + 1
  <2>1. e.first \in Nat /\ Len(e.ids) \in Nat
    BY CesdTyped
  <2> QED BY <1>1, <2>1 DEF Behind
<1>4. /\ d \in Seq(CesdRecord) /\ Len(d) = L /\ L \in 1..L
      /\ d[L] = e /\ \A r \in 1..(L - 1) : d[r] = c[r]
  <2>1. CASE w = 0
    BY <1>1, <2>1
  <2>2. CASE w > 0
    BY <1>1, <1>2, <2>2
  <2> QED BY <1>1, <2>1, <2>2
<1>5. \A r \in 1..(L - 1) : r \in 1..Len(c) /\ (r < Len(c) \/ w = 0) /\ d[r] = c[r] /\ Behind(c[r]) \in Nat
  <2>1. \A r \in 1..Len(c) : c[r] \in CesdRecord
    BY <1>1
  <2> QED BY <1>1, <1>2, <1>4, <2>1, CesdTyped, SMTT(30)
<1>6. \A r \in 1..(L - 1) : Behind(c[r]) <= e.first
  <2>1. CASE w = 0
    BY <1>1, <1>3, <1>5, <2>1 DEF Numbering
  <2>2. CASE w > 0
    BY <1>1, <1>2, <1>5, <2>2 DEF Numbering
  <2> QED BY <1>1, <2>1, <2>2
<1>7. \A r \in 1..L : r = L \/ r \in 1..(L - 1)
  BY <1>4
<1> HIDE DEF L
<1>8. \A r \in 1..Len(d) :
          /\ Len(d[r].ids) \in 1..CESDMAX /\ Behind(d[r]) <= g + 1
          /\ \A k \in 1..Len(d[r].ids) : d[r].ids[k] = d[r].first + k - 1
          /\ r < Len(d) \/ v = 0 => d[r].bytes = 16 * Len(d[r].ids)
  <2> TAKE r \in 1..Len(d)
  <2>1. CASE r = L
    <3>1. d[r] = e /\ ~(r < Len(d))
      BY <1>4, <2>1
    <3>2. w + 1 \in 1..CESDMAX
      BY <1>1
    <3>3. Len(e.ids) \in 1..CESDMAX /\ Behind(e) <= g + 1
      BY <1>1, <1>3, <3>2
    <3> QED BY <3>1, <3>3
  <2>2. CASE r \in 1..(L - 1)
    <3>1. d[r] = c[r] /\ r \in 1..Len(c) /\ (r < Len(c) \/ w = 0) /\ Behind(c[r]) \in Nat
      BY <1>5, <2>2
    <3>2. /\ Len(c[r].ids) \in 1..CESDMAX /\ Behind(c[r]) <= g
          /\ \A k \in 1..Len(c[r].ids) : c[r].ids[k] = c[r].first + k - 1
          /\ c[r].bytes = 16 * Len(c[r].ids)
      BY <3>1 DEF Numbering
    <3>3. Behind(c[r]) <= g + 1
      BY <1>1, <3>1, <3>2
    <3> QED BY <3>1, <3>2, <3>3
  <2> QED BY <1>4, <1>7, <2>1, <2>2
<1>9. \A r, q \in 1..Len(d) : r < q => Behind(d[r]) <= d[q].first
  <2> SUFFICES ASSUME NEW r \in 1..Len(d), NEW q \in 1..Len(d), r < q
               PROVE  Behind(d[r]) <= d[q].first
    OBVIOUS
  <2>1. r \in 1..(L - 1)
    BY <1>4
  <2>2. CASE q = L
    BY <1>4, <1>5, <1>6, <2>1, <2>2
  <2>3. CASE q \in 1..(L - 1)
    BY <1>5, <2>1, <2>3 DEF Numbering
  <2> QED BY <1>4, <1>7, <2>2, <2>3
<1>10. \A x \in 1..g : \E r \in 1..Len(d) : x >= d[r].first /\ x < Behind(d[r])
  <2> TAKE x \in 1..g
  <2>1. CASE x >= e.first
    BY <1>1, <1>3, <1>4, <2>1
  <2>2. CASE x < e.first
    <3>1. x \in 1..(g - 1)
      BY <1>1, <1>3, <2>2
    <3>2. PICK r \in 1..Len(c) : x >= c[r].first /\ x < Behind(c[r])
      BY <3>1 DEF Numbering
    <3>3. r \in 1..(L - 1)
      <4>1. CASE w = 0
        BY <1>1, <4>1 DEF L
      <4>2. CASE w > 0
        <5>1. r # Len(c)
          BY <1>3, <3>1, <2>2, <3>2, <4>2
        <5> QED BY <1>1, <4>2, <5>1 DEF L
      <4> QED BY <1>1, <4>1, <4>2
    <3>4. d[r] = c[r] /\ r \in 1..Len(d)
      BY <1>4, <1>5, <3>3
    <3> QED BY <3>2, <3>4
  <2> QED BY <1>1, <1>3, <2>1, <2>2
<1>11. v > 0 => d # << >> /\ Len(d[Len(d)].ids) = v /\ Behind(d[Len(d)]) = g + 1
  BY <1>1, <1>3, <1>4
<1>12. /\ d \in Seq(CesdRecord) /\ n \in Nat /\ g + 1 \in Nat \ {0} /\ v \in Nat /\ v < CESDMAX
       /\ g + 1 > n => v = 0
  BY <1>1, <1>4
<1>13. ASSUME NEW h, h = g + 1 PROVE Numbering(d, v, h, n)
  <2>1. /\ d \in Seq(CesdRecord) /\ n \in Nat /\ h \in Nat \ {0} /\ v \in Nat /\ v < CESDMAX
        /\ h > n => v = 0
    BY <1>12, <1>13
  <2>2. \A x \in 1..(h - 1) : \E r \in 1..Len(d) : x >= d[r].first /\ x < Behind(d[r])
    <3>1. h - 1 = g
      BY <1>1, <1>13
    <3> QED BY <1>10, <3>1
  <2>3. v > 0 => d # << >> /\ Len(d[Len(d)].ids) = v /\ Behind(d[Len(d)]) = h
    BY <1>11, <1>13
  <2>4. \A r \in 1..Len(d) :
          /\ Len(d[r].ids) \in 1..CESDMAX /\ Behind(d[r]) <= h
          /\ \A k \in 1..Len(d[r].ids) : d[r].ids[k] = d[r].first + k - 1
          /\ r < Len(d) \/ v = 0 => d[r].bytes = 16 * Len(d[r].ids)
    BY <1>8, <1>13
  <2> QED BY <1>9, <2>1, <2>2, <2>3, <2>4 DEF Numbering
<1> QED BY <1>13

LEMMA CesdStep ==
    ASSUME CesdInv, CesdEntry
    PROVE  CesdInv'
<1>1. /\ in_rec \in Nat /\ id \in Nat \ {0} /\ nG \in Nat /\ nG' = nG /\ id <= nG /\ id' = id + 1
      /\ in_rec' = IF Closes THEN 0 ELSE in_rec + 1
      /\ in_rec < CESDMAX
  BY DEF CesdInv, CesdEntry, Numbering
<1>2. /\ Entered \in CesdRecord /\ Len(Entered.ids) = in_rec + 1 /\ Entered.first + in_rec = id
      /\ \A k \in 1..(in_rec + 1) : Entered.ids[k] = Entered.first + k - 1
      /\ Closes => Entered.bytes = 16 * (in_rec + 1)
      /\ in_rec > 0 => Entered.first = cesd[Len(cesd)].first
  BY <1>1, EnteredRecord
<1>3. cesd' = IF in_rec = 0 THEN Append(cesd, Entered) ELSE [cesd EXCEPT ![Len(cesd)] = Entered]
  BY DEF CesdEntry, Entered
<1>4. /\ in_rec' \in Nat /\ in_rec' < CESDMAX /\ (id + 1 > nG => in_rec' = 0)
      /\ in_rec' = 0 \/ in_rec' = in_rec + 1
      /\ in_rec' = 0 => Closes
  BY <1>1 DEF Closes
<1>5. Numbering(cesd', in_rec', id + 1, nG)
  BY <1>1, <1>2, <1>3, <1>4, Numbered DEF CesdInv
<1> QED BY <1>1, <1>5 DEF CesdInv

\* The records a finished CESD consists of carry each ESDID exactly once.
LEMMA NumbersRead ==
    ASSUME CesdInv, id > nG
    PROVE  CesdReadsBack
<1>1. /\ cesd \in Seq(CesdRecord) /\ in_rec = 0 /\ id \in Nat /\ nG \in Nat
      /\ DOMAIN cesd = 1..Len(cesd) /\ Len(cesd) \in Nat
  BY DEF CesdInv, Numbering
<1>2. \A r \in DOMAIN cesd :
          /\ cesd[r].bytes = 16 * Len(cesd[r].ids) /\ Len(cesd[r].ids) \in 1..CESDMAX
          /\ cesd[r].first \in Nat /\ DOMAIN cesd[r].ids = 1..Len(cesd[r].ids)
          /\ \A k \in DOMAIN cesd[r].ids : cesd[r].ids[k] = cesd[r].first + k - 1
  <2> TAKE r \in DOMAIN cesd
  <2>1. cesd[r] \in CesdRecord
    BY <1>1
  <2>2. cesd[r].first \in Nat /\ cesd[r].ids \in Seq(Nat)
    BY <2>1, CesdTyped
  <2>3. /\ Len(cesd[r].ids) \in 1..CESDMAX /\ cesd[r].bytes = 16 * Len(cesd[r].ids)
        /\ \A k \in 1..Len(cesd[r].ids) : cesd[r].ids[k] = cesd[r].first + k - 1
    BY <1>1 DEF CesdInv, Numbering
  <2> QED BY <2>2, <2>3, SMTT(30)
<1> DEFINE Holds(g) == {r \in DOMAIN cesd : g \in cesd[r].first..(cesd[r].first + (cesd[r].bytes \div 16) - 1)}
<1>3. \A r \in DOMAIN cesd : cesd[r].bytes \div 16 = Len(cesd[r].ids)
  BY <1>2
<1>4. ASSUME NEW g \in 1..nG PROVE Cardinality(Holds(g)) = 1
  <2>1. PICK r \in 1..Len(cesd) : g >= cesd[r].first /\ g < Behind(cesd[r])
    <3>1. g \in 1..(id - 1)
      BY <1>1
    <3> QED BY <3>1 DEF CesdInv, Numbering
  <2>2. r \in Holds(g)
    BY <1>1, <1>2, <1>3, <2>1 DEF Behind
  <2>3. ASSUME NEW q \in Holds(g) PROVE q = r
    <3>1. q \in 1..Len(cesd) /\ g >= cesd[q].first /\ g < Behind(cesd[q])
      BY <1>1, <1>2, <1>3 DEF Behind
    <3>0. /\ g \in Nat /\ cesd[q].first \in Nat /\ cesd[r].first \in Nat
          /\ Behind(cesd[q]) \in Nat /\ Behind(cesd[r]) \in Nat
      <4>1. cesd[q] \in CesdRecord /\ cesd[r] \in CesdRecord /\ g \in Nat
        BY <1>1, <2>1, <3>1
      <4> QED BY <4>1, CesdTyped
    <3>2. ~(q < r)
      <4>1. q < r => Behind(cesd[q]) <= cesd[r].first
        BY <2>1, <3>1 DEF CesdInv, Numbering
      <4> QED BY <2>1, <3>0, <3>1, <4>1
    <3>3. ~(r < q)
      <4>1. r < q => Behind(cesd[r]) <= cesd[q].first
        BY <2>1, <3>1 DEF CesdInv, Numbering
      <4> QED BY <2>1, <3>0, <3>1, <4>1
    <3> QED BY <1>1, <2>1, <3>1, <3>2, <3>3
  <2>4. Holds(g) = {r}
    BY <2>2, <2>3
  <2> QED BY <2>4, FS_Singleton
<1> QED BY <1>2, <1>4 DEF CesdReadsBack

(***************************************************************************)
(* The text sections by origin.                                            *)
(***************************************************************************)
USE MaxTextAssumption

LEMMA LeastNumber ==
    ASSUME NEW X, X \subseteq Nat, X # {}
    PROVE  \E x \in X : \A y \in X : x <= y
<1>1. PICK x \in X : \A y \in X : ~(<<y, x>> \in OpToRel(<, Nat))
  BY WFMin, NatLessThanWellFounded, Zenon
<1>2. \A y \in X : ~(y < x)
  BY <1>1 DEF OpToRel
<1> QED BY <1>2

LEMMA UpToCount ==
    ASSUME NEW n \in Nat
    PROVE  IsFiniteSet(1..n) /\ Cardinality(1..n) = n
<1>1. IsFiniteSet(1..n) /\ Cardinality(1..n) = IF 1 > n THEN 0 ELSE n - 1 + 1
  BY FS_Interval
<1> QED BY <1>1

\* g lists the sections of l by origin, each once, the text sections first.
NT(l) == Cardinality(Texts(l))
ByOrigin(l, g) ==
    LET D == 1..Len(l.sect) IN
    /\ g \in [D -> D] /\ \A k \in D : \E q \in D : g[q] = k
    /\ \A q, s \in D : q < s => g[q] # g[s] /\ l.sect[g[q]].org <= l.sect[g[s]].org
    /\ NT(l) \in 0..Len(l.sect)
    /\ \A q \in D : q <= NT(l) <=> g[q] \in Texts(l)

LEMMA LayoutTyped ==
    ASSUME NEW l, IsLayout(l)
    PROVE  /\ Len(l.sect) \in Nat /\ DOMAIN l.sect = 1..Len(l.sect) /\ l.textend \in Nat
           /\ l.defined \subseteq Nat /\ l.rld \in BOOLEAN /\ l.sparse \in BOOLEAN
           /\ \A k \in 1..Len(l.sect) : l.sect[k].org \in Nat /\ l.sect[k].len \in Nat
           /\ IsFiniteSet(1..Len(l.sect)) /\ Cardinality(1..Len(l.sect)) = Len(l.sect)
           /\ Texts(l) \subseteq 1..Len(l.sect) /\ IsFiniteSet(Texts(l)) /\ NT(l) \in 0..Len(l.sect)
<1>1. /\ Len(l.sect) \in Nat /\ DOMAIN l.sect = 1..Len(l.sect) /\ l.textend \in Nat
      /\ l.defined \subseteq Nat /\ l.rld \in BOOLEAN /\ l.sparse \in BOOLEAN
      /\ \A k \in 1..Len(l.sect) : l.sect[k] \in Section
  BY DEF IsLayout
<1>2. \A k \in 1..Len(l.sect) : l.sect[k].org \in Nat /\ l.sect[k].len \in Nat
  BY <1>1 DEF Section
<1>3. IsFiniteSet(1..Len(l.sect)) /\ Cardinality(1..Len(l.sect)) = Len(l.sect)
  BY <1>1, UpToCount
<1>4. Texts(l) \subseteq 1..Len(l.sect)
  BY <1>1 DEF Texts
<1>5. IsFiniteSet(Texts(l)) /\ Cardinality(Texts(l)) <= Len(l.sect)
  BY <1>3, <1>4, FS_Subset
<1>6. Cardinality(Texts(l)) \in Nat
  BY <1>5, FS_CardinalityType
<1>7. NT(l) \in 0..Len(l.sect)
  BY <1>1, <1>5, <1>6 DEF NT
<1> QED BY <1>1, <1>2, <1>3, <1>4, <1>5, <1>7

\* The sections that sort before k, and k.
UpToPlace(k) == {m \in DOMAIN lay.sect : SortsBefore(m, k)}

LEMMA PlacesTyped ==
    ASSUME IsLayout(lay), NEW k \in 1..Len(lay.sect)
    PROVE  /\ IsFiniteSet(UpToPlace(k)) /\ k \in UpToPlace(k) /\ UpToPlace(k) \subseteq 1..Len(lay.sect)
           /\ Place(k) = Cardinality(UpToPlace(k)) /\ Place(k) \in 1..Len(lay.sect)
<1>1. /\ Len(lay.sect) \in Nat /\ DOMAIN lay.sect = 1..Len(lay.sect)
      /\ IsFiniteSet(1..Len(lay.sect)) /\ Cardinality(1..Len(lay.sect)) = Len(lay.sect)
      /\ lay.sect[k].org \in Nat
  BY LayoutTyped
<1>2. UpToPlace(k) \subseteq 1..Len(lay.sect) /\ k \in UpToPlace(k)
  BY <1>1 DEF UpToPlace, SortsBefore
<1>3. IsFiniteSet(UpToPlace(k)) /\ Cardinality(UpToPlace(k)) <= Len(lay.sect)
  BY <1>1, <1>2, FS_Subset
<1>4. Cardinality(UpToPlace(k)) \in Nat /\ Cardinality(UpToPlace(k)) # 0
  BY <1>2, <1>3, FS_CardinalityType, FS_EmptySet
<1>5. Place(k) = Cardinality(UpToPlace(k))
  BY DEF Place, UpToPlace
<1> QED BY <1>1, <1>2, <1>3, <1>4, <1>5

LEMMA PlacesApart ==
    ASSUME IsLayout(lay), NEW k \in 1..Len(lay.sect), NEW m \in 1..Len(lay.sect), k # m,
           SortsBefore(k, m)
    PROVE  Place(k) < Place(m)
<1>1. /\ DOMAIN lay.sect = 1..Len(lay.sect) /\ Len(lay.sect) \in Nat
      /\ \A x \in 1..Len(lay.sect) : lay.sect[x].org \in Nat
  BY LayoutTyped
<1>2. UpToPlace(k) \subseteq UpToPlace(m) /\ m \notin UpToPlace(k) /\ m \in UpToPlace(m)
  BY <1>1 DEF UpToPlace, SortsBefore
<1>3. /\ IsFiniteSet(UpToPlace(m)) /\ Place(k) = Cardinality(UpToPlace(k))
      /\ Place(m) = Cardinality(UpToPlace(m)) /\ Place(k) \in Nat /\ Place(m) \in Nat
  BY <1>1, PlacesTyped
<1>4. Cardinality(UpToPlace(k)) <= Cardinality(UpToPlace(m))
      /\ (Cardinality(UpToPlace(m)) = Cardinality(UpToPlace(k)) => UpToPlace(m) = UpToPlace(k))
  BY <1>2, <1>3, FS_Subset
<1>5. UpToPlace(m) # UpToPlace(k)
  BY <1>2
<1> QED BY <1>3, <1>4, <1>5

LEMMA EitherBefore ==
    ASSUME IsLayout(lay), NEW k \in 1..Len(lay.sect), NEW m \in 1..Len(lay.sect)
    PROVE  SortsBefore(k, m) \/ SortsBefore(m, k)
<1>1. lay.sect[k].org \in Nat /\ lay.sect[m].org \in Nat /\ k \in Nat /\ m \in Nat
  BY LayoutTyped
<1> QED BY <1>1 DEF SortsBefore

LEMMA EveryPlace ==
    ASSUME IsLayout(lay), NEW q \in 1..Len(lay.sect)
    PROVE  \E k \in 1..Len(lay.sect) : Place(k) = q
<1> DEFINE D == 1..Len(lay.sect)
           f == [k \in D |-> Place(k)]
<1>1. f \in [D -> D]
  BY PlacesTyped
<1>2. \A k, m \in D : k # m => Place(k) # Place(m)
  <2> SUFFICES ASSUME NEW k \in D, NEW m \in D, k # m PROVE Place(k) # Place(m)
    OBVIOUS
  <2>1. Place(k) \in Nat /\ Place(m) \in Nat
    BY PlacesTyped, LayoutTyped, SMTT(30)
  <2>2. SortsBefore(k, m) => Place(k) < Place(m)
    BY PlacesApart
  <2>3. SortsBefore(m, k) => Place(m) < Place(k)
    BY PlacesApart
  <2> QED BY <2>1, <2>2, <2>3, EitherBefore
<1>3. f \in Injection(D, D)
  BY <1>1, <1>2 DEF Injection, IsInjective
<1>4. f \in Surjection(D, D)
  <2>1. IsFiniteSet(D)
    BY LayoutTyped
  <2> HIDE DEF f, D
  <2> QED BY <1>3, <2>1, FS_Injection
<1> QED BY <1>4 DEF Surjection

\* Commons sort behind the text, so the text sections have the first places.
LEMMA TextFirst ==
    ASSUME IsLayout(lay), Apart(lay), NEW k \in 1..Len(lay.sect)
    PROVE  Place(k) <= NT(lay) <=> k \in Texts(lay)
<1>1. /\ DOMAIN lay.sect = 1..Len(lay.sect) /\ Len(lay.sect) \in Nat /\ lay.textend \in Nat
      /\ \A x \in 1..Len(lay.sect) : lay.sect[x].org \in Nat /\ lay.sect[x].len \in Nat
      /\ IsFiniteSet(Texts(lay)) /\ Texts(lay) \subseteq 1..Len(lay.sect) /\ NT(lay) \in Nat
  BY LayoutTyped
<1>2. /\ IsFiniteSet(UpToPlace(k)) /\ k \in UpToPlace(k) /\ Place(k) = Cardinality(UpToPlace(k))
      /\ Place(k) \in Nat /\ UpToPlace(k) \subseteq 1..Len(lay.sect)
  BY <1>1, PlacesTyped
<1>3. \A x \in Texts(lay) : lay.sect[x].org < lay.textend
  BY <1>1 DEF Apart
<1>4. \A x \in 1..Len(lay.sect) : x \notin Texts(lay) => lay.sect[x].org >= lay.textend
  BY <1>1 DEF Apart, Texts
<1>5. ASSUME k \in Texts(lay) PROVE Place(k) <= NT(lay)
  <2>1. UpToPlace(k) \subseteq Texts(lay)
    BY <1>1, <1>3, <1>4, <1>5 DEF UpToPlace, SortsBefore
  <2> QED BY <1>1, <1>2, <2>1, FS_Subset DEF NT
<1>6. ASSUME k \notin Texts(lay) PROVE Place(k) > NT(lay)
  <2>1. Texts(lay) \subseteq UpToPlace(k)
    BY <1>1, <1>3, <1>4, <1>6 DEF UpToPlace, SortsBefore
  <2>2. Texts(lay) # UpToPlace(k)
    BY <1>2, <1>6
  <2>3. Cardinality(Texts(lay)) <= Cardinality(UpToPlace(k))
        /\ (Cardinality(UpToPlace(k)) = Cardinality(Texts(lay)) => UpToPlace(k) = Texts(lay))
    BY <1>2, <2>1, FS_Subset
  <2> QED BY <1>1, <1>2, <2>2, <2>3 DEF NT
<1> QED BY <1>1, <1>2, <1>5, <1>6

LEMMA SortOrders ==
    ASSUME IsLayout(lay), Apart(lay), Sort
    PROVE  ByOrigin(lay, gidx')
<1> DEFINE D == 1..Len(lay.sect)
<1>1. Len(lay.sect) \in Nat /\ DOMAIN lay.sect = D /\ NT(lay) \in 0..Len(lay.sect)
      /\ \A k \in D : lay.sect[k].org \in Nat
  BY LayoutTyped
<1>2. gidx' = [q \in D |-> CHOOSE k \in D : Place(k) = q]
  BY <1>1 DEF Sort
<1>3. \A q \in D : gidx'[q] \in D /\ Place(gidx'[q]) = q
  <2> TAKE q \in D
  <2>1. \E k \in D : Place(k) = q
    BY EveryPlace
  <2>2. gidx'[q] = CHOOSE k \in D : Place(k) = q
    BY <1>2
  <2> QED BY <2>1, <2>2
<1>4. gidx' \in [D -> D]
  BY <1>2, <1>3
<1>5. \A k \in D : \E q \in D : gidx'[q] = k
  <2> TAKE k \in D
  <2>1. Place(k) \in D
    BY PlacesTyped
  <2>2. gidx'[Place(k)] \in D /\ Place(gidx'[Place(k)]) = Place(k)
    BY <1>3, <2>1
  <2>3. ASSUME NEW m \in D, Place(m) = Place(k) PROVE m = k
    <3>1. Place(k) \in Nat /\ Place(m) \in Nat
      BY PlacesTyped, <1>1
    <3>2. SortsBefore(m, k) /\ m # k => Place(m) < Place(k)
      BY PlacesApart
    <3>3. SortsBefore(k, m) /\ m # k => Place(k) < Place(m)
      BY PlacesApart
    <3> QED BY <2>3, <3>1, <3>2, <3>3, EitherBefore
  <2> QED BY <2>1, <2>2, <2>3
<1>6. ASSUME NEW q \in D, NEW s \in D, q < s
      PROVE  gidx'[q] # gidx'[s] /\ lay.sect[gidx'[q]].org <= lay.sect[gidx'[s]].org
  <2>1. PICK k \in D : k = gidx'[q] /\ Place(k) = q
    BY <1>3
  <2>2. PICK m \in D : m = gidx'[s] /\ Place(m) = s
    BY <1>3
  <2>3. k # m
    BY <1>1, <1>6, <2>1, <2>2
  <2>4. ~SortsBefore(m, k)
    <3>1. SortsBefore(m, k) => Place(m) < Place(k)
      BY <2>3, PlacesApart
    <3> QED BY <1>1, <1>6, <2>1, <2>2, <3>1
  <2>5. SortsBefore(k, m)
    BY <2>4, EitherBefore
  <2>6. lay.sect[k].org <= lay.sect[m].org
    BY <1>1, <2>5 DEF SortsBefore
  <2> QED BY <2>1, <2>2, <2>3, <2>6
<1>7. \A q \in D : q <= NT(lay) <=> gidx'[q] \in Texts(lay)
  BY <1>3, TextFirst
<1> QED BY <1>1, <1>4, <1>5, <1>6, <1>7 DEF ByOrigin

(***************************************************************************)
(* Chunks and records.                                                     *)
(***************************************************************************)

\* The k-th section by origin: its origin, its length and its padded end.
OrgAt(l, g, k) == l.sect[g[k]].org
LenAt(l, g, k) == l.sect[g[k]].len
EndAt(l, g, k) == IF k < NT(l) THEN OrgAt(l, g, k) + roundup8(LenAt(l, g, k)) ELSE l.textend

LEMMA Rounds ==
    ASSUME NEW v \in Nat
    PROVE  roundup8(v) \in Nat /\ v <= roundup8(v) /\ roundup8(v) < v + 8 /\ roundup8(v) % 8 = 0
BY DEF roundup8

LEMMA Stacked ==
    ASSUME NEW l, IsLayout(l), Apart(l), NEW g, ByOrigin(l, g)
    PROVE  /\ NT(l) \in Nat
           /\ \A k \in 1..NT(l) :
                 /\ g[k] \in Texts(l) /\ g[k] \in Nat
                 /\ OrgAt(l, g, k) \in Nat /\ LenAt(l, g, k) \in Nat \ {0} /\ EndAt(l, g, k) \in Nat
                 /\ OrgAt(l, g, k) + LenAt(l, g, k) <= EndAt(l, g, k)
           /\ \A k, m \in 1..NT(l) : k < m => EndAt(l, g, k) <= OrgAt(l, g, m)
<1>1. /\ Len(l.sect) \in Nat /\ NT(l) \in 0..Len(l.sect) /\ l.textend \in Nat
      /\ \A k \in 1..Len(l.sect) : l.sect[k].org \in Nat /\ l.sect[k].len \in Nat
      /\ Texts(l) \subseteq 1..Len(l.sect)
  BY LayoutTyped
<1>2. \A k \in 1..NT(l) : k \in 1..Len(l.sect) /\ g[k] \in Texts(l) /\ g[k] \in 1..Len(l.sect)
  BY <1>1, SMTT(30) DEF ByOrigin
<1>3. \A k \in 1..NT(l) : /\ OrgAt(l, g, k) \in Nat /\ LenAt(l, g, k) \in Nat \ {0}
                           /\ OrgAt(l, g, k) + LenAt(l, g, k) <= l.textend
  BY <1>1, <1>2 DEF OrgAt, LenAt, Apart
<1>4. \A k \in 1..NT(l) : EndAt(l, g, k) \in Nat /\ OrgAt(l, g, k) + LenAt(l, g, k) <= EndAt(l, g, k)
  <2> TAKE k \in 1..NT(l)
  <2>1. roundup8(LenAt(l, g, k)) \in Nat /\ LenAt(l, g, k) <= roundup8(LenAt(l, g, k))
    BY <1>3, Rounds
  <2> QED BY <1>1, <1>3, <2>1 DEF EndAt
<1>5. ASSUME NEW k \in 1..NT(l), NEW m \in 1..NT(l), k < m PROVE EndAt(l, g, k) <= OrgAt(l, g, m)
  <2>1. g[k] # g[m] /\ l.sect[g[k]].org <= l.sect[g[m]].org
    BY <1>2, <1>5 DEF ByOrigin
  <2>2. l.sect[g[k]].org + roundup8(l.sect[g[k]].len) <= l.sect[g[m]].org
    BY <1>2, <2>1 DEF Apart
  <2>3. k < NT(l)
    BY <1>1, <1>5
  <2> QED BY <2>2, <2>3 DEF EndAt, OrgAt, LenAt
<1>6. NT(l) \in Nat /\ \A k \in 1..NT(l) : g[k] \in Nat
  BY <1>1, <1>2
<1> QED BY <1>2, <1>3, <1>4, <1>5, <1>6

LEMMA Gapless ==
    ASSUME NEW l, IsLayout(l), Apart(l), NEW g, ByOrigin(l, g), Adjoining(l), NEW k \in 1..NT(l)
    PROVE  /\ EndAt(l, g, k) = OrgAt(l, g, k) + roundup8(LenAt(l, g, k))
           /\ k < NT(l) => EndAt(l, g, k) = OrgAt(l, g, k + 1)
<1> DEFINE e == OrgAt(l, g, k) + roundup8(LenAt(l, g, k))
<1>1. /\ NT(l) \in Nat
      /\ \A m \in 1..NT(l) :
            /\ g[m] \in Texts(l) /\ OrgAt(l, g, m) \in Nat /\ LenAt(l, g, m) \in Nat \ {0}
            /\ EndAt(l, g, m) \in Nat /\ OrgAt(l, g, m) + LenAt(l, g, m) <= EndAt(l, g, m)
      /\ \A m, n \in 1..NT(l) : m < n => EndAt(l, g, m) <= OrgAt(l, g, n)
  BY Stacked
<1>2. l.textend \in Nat /\ Len(l.sect) \in Nat /\ Texts(l) \subseteq 1..Len(l.sect)
      /\ NT(l) \in 0..Len(l.sect)
  BY LayoutTyped
<1>3. e \in Nat /\ OrgAt(l, g, k) < e
  <2>1. roundup8(LenAt(l, g, k)) \in Nat /\ LenAt(l, g, k) <= roundup8(LenAt(l, g, k))
    BY <1>1, Rounds
  <2> QED BY <1>1, <2>1
<1>4. e = l.textend \/ \E m \in Texts(l) : l.sect[m].org = e
  BY <1>1 DEF Adjoining, OrgAt, LenAt
<1> HIDE DEF e
<1>5. \A m \in Texts(l) : \E q \in 1..NT(l) : g[q] = m
  <2> TAKE m \in Texts(l)
  <2>1. PICK q \in 1..Len(l.sect) : g[q] = m
    BY <1>2 DEF ByOrigin
  <2>2. q <= NT(l)
    BY <2>1 DEF ByOrigin
  <2> QED BY <1>2, <2>1, <2>2
<1>6. e = l.textend \/ \E q \in 1..NT(l) : OrgAt(l, g, q) = e
  BY <1>4, <1>5 DEF OrgAt
<1>7. \A q \in 1..NT(l) : OrgAt(l, g, q) = e => k < q
  <2> SUFFICES ASSUME NEW q \in 1..NT(l), OrgAt(l, g, q) = e PROVE k < q
    OBVIOUS
  <2>1. q # k
    BY <1>1, <1>3
  <2>2. ~(q < k)
    <3>1. q < k => EndAt(l, g, q) <= OrgAt(l, g, k)
      BY <1>1
    <3>2. OrgAt(l, g, q) < EndAt(l, g, q)
      BY <1>1
    <3> QED BY <1>1, <1>3, <3>1, <3>2
  <2> QED BY <1>1, <2>1, <2>2
<1>8. CASE k = NT(l)
  <2>1. EndAt(l, g, k) = l.textend
    BY <1>8, <1>1 DEF EndAt
  <2>2. ~\E q \in 1..NT(l) : OrgAt(l, g, q) = e
    BY <1>1, <1>7, <1>8
  <2> QED BY <1>1, <1>6, <1>8, <2>1, <2>2 DEF e
<1>9. CASE k < NT(l)
  <2>1. EndAt(l, g, k) = e
    BY <1>9 DEF EndAt, e
  <2>2. k + 1 \in 1..NT(l)
    BY <1>1, <1>9
  <2>3. e <= OrgAt(l, g, k + 1)
    BY <1>1, <2>1, <2>2
  <2>4. e # l.textend
    <3>1. OrgAt(l, g, k + 1) + LenAt(l, g, k + 1) <= l.textend
      BY <1>1, <2>2 DEF Apart, OrgAt, LenAt
    <3>2. OrgAt(l, g, k + 1) \in Nat /\ LenAt(l, g, k + 1) \in Nat \ {0}
      BY <1>1, <2>2
    <3> QED BY <1>2, <1>3, <2>3, <3>1, <3>2
  <2>5. PICK q \in 1..NT(l) : OrgAt(l, g, q) = e
    BY <1>6, <2>4
  <2>6. k < q
    BY <1>7, <2>5
  <2>7. CASE q = k + 1
    BY <2>1, <2>5, <2>7 DEF e
  <2>8. CASE q > k + 1
    <3>1. EndAt(l, g, k + 1) <= OrgAt(l, g, q)
      BY <1>1, <2>2, <2>8
    <3>2. OrgAt(l, g, k + 1) < EndAt(l, g, k + 1) /\ OrgAt(l, g, k + 1) \in Nat /\ EndAt(l, g, k + 1) \in Nat
      BY <1>1, <2>2
    <3> QED BY <1>3, <2>3, <2>5, <3>1, <3>2
  <2> QED BY <1>1, <2>6, <2>7, <2>8
<1> QED BY <1>1, <1>8, <1>9

TextRecord == [at : Nat, len : Nat, ids : Seq([sect : Nat, span : Nat]), modend : BOOLEAN]

\* In the middle of a chunk that begins with section f and ends before section s:
\* at a place x, a whole number of doublewords into it, and at its start when
\* it has several sections, which then fit one record.
InChunk(l, g, s, f, x, e) ==
    /\ f \in 1..(s - 1) /\ e = EndAt(l, g, s - 1)
    /\ OrgAt(l, g, f) <= x /\ x < e /\ (x - OrgAt(l, g, f)) % 8 = 0
    /\ s - f > 1 => x = OrgAt(l, g, f) /\ e - x <= MAXTEXT

\* Records rs bring in what is wanted of l below x.
UpTo(l, x, rs) ==
    /\ rs \in Seq(TextRecord)
    /\ \A k \in 1..Len(rs) : rs[k].len <= MAXTEXT /\ rs[k].at + rs[k].len <= x
    /\ \A k, m \in 1..Len(rs) : k < m => rs[k].at + rs[k].len <= rs[m].at
    /\ \A y \in Wanted(l) : y < x => \E r \in 1..Len(rs) : y \in Bytes(rs[r])
    /\ Adjoining(l) => \A k \in 1..Len(rs) : Accounts(l, rs[k])

\* The text writer at st, before section s, at x: everything below x is dealt
\* with, and nothing of the sections in front of s lies behind x between chunks.
Writing(l, g, st, s, f, x, e, rs) ==
    /\ IsLayout(l) /\ Apart(l)
    /\ st \in {"sort", "pack", "emit", "done"} /\ s \in 1..(NT(l) + 1) /\ x \in Nat
    /\ st = "sort" => s = 1 /\ x = 0 /\ rs = << >>
    /\ st # "sort" => ByOrigin(l, g)
    /\ st = "emit" => InChunk(l, g, s, f, x, e)
    /\ st = "pack" /\ s <= NT(l) => x <= OrgAt(l, g, s)
    /\ st \in {"pack", "done"} /\ s > 1 => EndAt(l, g, s - 1) <= x
    /\ st = "done" => s > NT(l)
    /\ UpTo(l, x, rs)

TextInv == Writing(lay, gidx, tpc, sg, first, p, cend, recs)

\* A byte wanted is one of a text section.
LEMMA WantedAt ==
    ASSUME NEW l, IsLayout(l), Apart(l), NEW g, ByOrigin(l, g), NEW y \in Wanted(l)
    PROVE  /\ y \in Nat /\ (l.sparse => y \in l.defined)
           /\ \E k \in 1..NT(l) : OrgAt(l, g, k) <= y /\ y < EndAt(l, g, k)
<1>1. /\ NT(l) \in Nat
      /\ \A k \in 1..NT(l) :
            /\ OrgAt(l, g, k) \in Nat /\ LenAt(l, g, k) \in Nat \ {0} /\ EndAt(l, g, k) \in Nat
            /\ OrgAt(l, g, k) + LenAt(l, g, k) <= EndAt(l, g, k)
  BY Stacked
<1>2. /\ l.sparse => y \in l.defined
      /\ \E m \in Texts(l) : y \in l.sect[m].org..(l.sect[m].org + l.sect[m].len - 1)
  BY DEF Wanted
<1>3. PICK m \in Texts(l) : y \in l.sect[m].org..(l.sect[m].org + l.sect[m].len - 1)
  BY <1>2
<1>4. PICK k \in 1..NT(l) : g[k] = m
  <2>1. Texts(l) \subseteq 1..Len(l.sect) /\ Len(l.sect) \in Nat /\ NT(l) \in Nat
    BY <1>1, LayoutTyped
  <2>2. PICK q \in 1..Len(l.sect) : g[q] = m
    BY <2>1 DEF ByOrigin
  <2>3. q <= NT(l)
    BY <2>2 DEF ByOrigin
  <2> QED BY <2>1, <2>2, <2>3
<1>5. y \in OrgAt(l, g, k)..(OrgAt(l, g, k) + LenAt(l, g, k) - 1)
  BY <1>3, <1>4 DEF OrgAt, LenAt
<1>6. y \in Nat /\ OrgAt(l, g, k) <= y /\ y < EndAt(l, g, k)
  BY <1>1, <1>5
<1> QED BY <1>2, <1>6

\* Behind the sections in front of s nothing is wanted before section s.
LEMMA NothingBetween ==
    ASSUME NEW l, IsLayout(l), Apart(l), NEW g, ByOrigin(l, g), NEW y \in Wanted(l),
           NEW s \in 1..(NT(l) + 1), NEW x \in Nat, s > 1 => EndAt(l, g, s - 1) <= x,
           s > NT(l) \/ y < OrgAt(l, g, s)
    PROVE  y < x
<1>1. /\ NT(l) \in Nat
      /\ \A k \in 1..NT(l) :
            /\ OrgAt(l, g, k) \in Nat /\ LenAt(l, g, k) \in Nat \ {0} /\ EndAt(l, g, k) \in Nat
            /\ OrgAt(l, g, k) + LenAt(l, g, k) <= EndAt(l, g, k)
      /\ \A k, m \in 1..NT(l) : k < m => EndAt(l, g, k) <= OrgAt(l, g, m)
  BY Stacked
<1>2. y \in Nat
  BY WantedAt
<1>3. PICK k \in 1..NT(l) : OrgAt(l, g, k) <= y /\ y < EndAt(l, g, k)
  BY WantedAt
<1>4. k < s
  <2>1. CASE s > NT(l)
    BY <1>1, <2>1
  <2>2. CASE s <= NT(l)
    <3>1. s \in 1..NT(l) /\ y < OrgAt(l, g, s)
      BY <1>1, <2>2
    <3>2. s < k => OrgAt(l, g, s) < OrgAt(l, g, k)
      <4>1. s < k => EndAt(l, g, s) <= OrgAt(l, g, k)
        BY <1>1, <3>1
      <4>2. OrgAt(l, g, s) < EndAt(l, g, s)
        BY <1>1, <3>1
      <4> QED BY <1>1, <3>1, <4>1, <4>2
    <3> QED BY <1>1, <1>2, <1>3, <3>1, <3>2
  <2> QED BY <1>1, <2>1, <2>2
<1>5. s - 1 \in 1..NT(l) /\ s > 1
  BY <1>1, <1>4
<1>6. EndAt(l, g, k) <= EndAt(l, g, s - 1)
  <2>1. CASE k = s - 1
    BY <1>1, <1>5, <2>1
  <2>2. CASE k < s - 1
    <3>1. EndAt(l, g, k) <= OrgAt(l, g, s - 1)
      BY <1>1, <1>5, <2>2
    <3>2. OrgAt(l, g, s - 1) <= EndAt(l, g, s - 1)
      BY <1>1, <1>5
    <3> QED BY <1>1, <1>5, <3>1, <3>2
  <2> QED BY <1>1, <1>4, <2>1, <2>2
<1>7. EndAt(l, g, k) \in Nat /\ EndAt(l, g, s - 1) \in Nat
  BY <1>1, <1>5
<1> QED BY <1>2, <1>3, <1>5, <1>6, <1>7

\* A chunk from section s up to section t: x moves to its start.
LEMMA Packs ==
    ASSUME NEW l, NEW g, NEW s, NEW f, NEW x, NEW e, NEW rs,
           Writing(l, g, "pack", s, f, x, e, rs), s <= NT(l),
           NEW t \in (s + 1)..(NT(l) + 1),
           t - s > 1 => EndAt(l, g, t - 1) - OrgAt(l, g, s) <= MAXTEXT
    PROVE  Writing(l, g, "emit", t, s, OrgAt(l, g, s), EndAt(l, g, t - 1), rs)
<1>1. /\ IsLayout(l) /\ Apart(l) /\ ByOrigin(l, g) /\ s \in 1..(NT(l) + 1) /\ x \in Nat
      /\ x <= OrgAt(l, g, s) /\ (s > 1 => EndAt(l, g, s - 1) <= x) /\ UpTo(l, x, rs)
  BY DEF Writing
<1>2. /\ NT(l) \in Nat
      /\ \A k \in 1..NT(l) :
            /\ OrgAt(l, g, k) \in Nat /\ LenAt(l, g, k) \in Nat \ {0} /\ EndAt(l, g, k) \in Nat
            /\ OrgAt(l, g, k) + LenAt(l, g, k) <= EndAt(l, g, k)
      /\ \A k, m \in 1..NT(l) : k < m => EndAt(l, g, k) <= OrgAt(l, g, m)
  BY <1>1, Stacked
<1>3. s \in 1..NT(l) /\ t - 1 \in 1..NT(l) /\ t \in 1..(NT(l) + 1) /\ s \in 1..(t - 1)
  BY <1>1, <1>2
<1>4. OrgAt(l, g, s) < EndAt(l, g, t - 1)
  <2>1. OrgAt(l, g, s) < EndAt(l, g, s)
    BY <1>2, <1>3
  <2>2. CASE s = t - 1
    BY <2>1, <2>2
  <2>3. CASE s < t - 1
    <3>1. EndAt(l, g, s) <= OrgAt(l, g, t - 1) /\ OrgAt(l, g, t - 1) < EndAt(l, g, t - 1)
      BY <1>2, <1>3, <2>3
    <3> QED BY <1>2, <1>3, <2>1, <3>1
  <2> QED BY <1>2, <1>3, <2>2, <2>3
<1> DEFINE y0 == OrgAt(l, g, s)
<1>5. y0 \in Nat /\ x <= y0 /\ y0 < EndAt(l, g, t - 1) /\ y0 - y0 = 0 /\ (y0 - y0) % 8 = 0
  BY <1>1, <1>2, <1>3, <1>4
<1>6. InChunk(l, g, t, s, y0, EndAt(l, g, t - 1))
  BY <1>3, <1>5 DEF InChunk
<1>7. UpTo(l, y0, rs)
  <2> HIDE DEF y0
  <2>1. /\ rs \in Seq(TextRecord)
        /\ \A k \in 1..Len(rs) : rs[k].len <= MAXTEXT /\ rs[k].at + rs[k].len <= x
        /\ \A k, m \in 1..Len(rs) : k < m => rs[k].at + rs[k].len <= rs[m].at
        /\ \A y \in Wanted(l) : y < x => \E r \in 1..Len(rs) : y \in Bytes(rs[r])
        /\ Adjoining(l) => \A k \in 1..Len(rs) : Accounts(l, rs[k])
    BY <1>1 DEF UpTo
  <2>2. \A k \in 1..Len(rs) : rs[k].at + rs[k].len <= y0
    <3> TAKE k \in 1..Len(rs)
    <3>1. rs[k] \in TextRecord
      BY <2>1
    <3>2. rs[k].at \in Nat /\ rs[k].len \in Nat
      BY <3>1 DEF TextRecord
    <3>3. rs[k].at + rs[k].len <= x
      BY <2>1
    <3> QED BY <1>1, <1>5, <3>2, <3>3
  <2>3. \A y \in Wanted(l) : y < y0 => y < x
    BY <1>1, NothingBetween DEF y0
  <2> QED BY <2>1, <2>2, <2>3 DEF UpTo
<1>8. Writing(l, g, "emit", t, s, y0, EndAt(l, g, t - 1), rs)
  <2> HIDE DEF y0
  <2> QED BY <1>1, <1>3, <1>5, <1>6, <1>7 DEF Writing
<1> QED BY <1>8

LEMMA Slides ==
    ASSUME NEW a \in Nat, NEW b \in Nat, NEW n \in Nat, b <= a
    PROVE  a - b \in Nat /\ a + n - b = (a - b) + n
OBVIOUS

LEMMA Eights ==
    ASSUME NEW a \in Nat, NEW b \in Nat, a % 8 = 0, b % 8 = 0
    PROVE  (a + b) % 8 = 0
OBVIOUS

\* One record of n bytes further, written as record R or left out.
LEMMA Advances ==
    ASSUME NEW l, NEW g, NEW s, NEW f, NEW x, NEW e, NEW rs,
           Writing(l, g, "emit", s, f, x, e, rs),
           NEW n, n = IF e - x > MAXTEXT THEN MAXTEXT ELSE e - x,
           NEW st, st = IF x + n < e THEN "emit" ELSE "pack",
           NEW R \in TextRecord, R.at = x, R.len = n, Adjoining(l) => Accounts(l, R),
           NEW new, \/ new = Append(rs, R)
                    \/ new = rs /\ l.sparse /\ \A y \in x..(x + n - 1) : y \notin l.defined
    PROVE  Writing(l, g, st, s, f, x + n, e, new)
<1>1. /\ IsLayout(l) /\ Apart(l) /\ ByOrigin(l, g) /\ s \in 1..(NT(l) + 1) /\ x \in Nat
      /\ InChunk(l, g, s, f, x, e) /\ UpTo(l, x, rs)
  BY DEF Writing
<1>2. /\ NT(l) \in Nat
      /\ \A k \in 1..NT(l) : OrgAt(l, g, k) \in Nat /\ EndAt(l, g, k) \in Nat
      /\ \A k, m \in 1..NT(l) : k < m => EndAt(l, g, k) <= OrgAt(l, g, m)
  BY <1>1, Stacked
<1>3. /\ f \in 1..(s - 1) /\ s - 1 \in 1..NT(l) /\ s > 1 /\ f \in 1..NT(l)
      /\ e = EndAt(l, g, s - 1) /\ e \in Nat /\ x < e /\ OrgAt(l, g, f) <= x
      /\ OrgAt(l, g, f) \in Nat
  BY <1>1, <1>2 DEF InChunk
<1>4. /\ n \in Nat /\ n > 0 /\ n <= MAXTEXT /\ x + n <= e /\ x + n \in Nat
      /\ x + n < e => n = MAXTEXT
  BY <1>1, <1>3
<1>5. st = "emit" => InChunk(l, g, s, f, x + n, e)
  <2> SUFFICES ASSUME st = "emit" PROVE InChunk(l, g, s, f, x + n, e)
    OBVIOUS
  <2>1. x + n < e /\ n = MAXTEXT
    BY <1>4
  <2>2. ~(s - f > 1)
    <3>1. s - f > 1 => e - x <= MAXTEXT
      BY <1>1 DEF InChunk
    <3> QED BY <1>1, <1>3, <2>1, <3>1
  <2>3. (x - OrgAt(l, g, f)) % 8 = 0
    BY <1>1 DEF InChunk
  <2>4. ASSUME NEW o \in Nat, o <= x, (x - o) % 8 = 0 PROVE (x + n - o) % 8 = 0
    <3>1. MAXTEXT \in Nat /\ MAXTEXT % 8 = 0
      BY MaxTextAssumption
    <3>2. x \in Nat /\ o \in Nat /\ o <= x
      BY <1>1, <2>4
    <3>3. x - o \in Nat /\ x + MAXTEXT - o = (x - o) + MAXTEXT
      BY <3>1, <3>2, Slides
    <3>4. ((x - o) + MAXTEXT) % 8 = 0
      BY <2>4, <3>1, <3>3, Eights
    <3> QED BY <2>1, <3>3, <3>4
  <2>5. (x + n - OrgAt(l, g, f)) % 8 = 0
    BY <1>3, <2>3, <2>4
  <2>6. OrgAt(l, g, f) <= x + n
    BY <1>1, <1>3, <1>4
  <2>7. ASSUME NEW xn, xn = x + n PROVE InChunk(l, g, s, f, xn, e)
    <3>1. OrgAt(l, g, f) <= xn /\ xn < e /\ (xn - OrgAt(l, g, f)) % 8 = 0
      BY <1>1, <1>3, <1>4, <2>1, <2>5, <2>6, <2>7
    <3> QED BY <1>3, <2>2, <3>1 DEF InChunk
  <2> QED BY <2>7
<1>6. st = "pack" => x + n = e
  BY <1>1, <1>3, <1>4
<1>7. st = "pack" /\ s <= NT(l) => x + n <= OrgAt(l, g, s)
  <2> SUFFICES ASSUME st = "pack", s <= NT(l) PROVE x + n <= OrgAt(l, g, s)
    OBVIOUS
  <2>1. s \in 1..NT(l) /\ s - 1 < s
    BY <1>1, <1>2
  <2> QED BY <1>2, <1>3, <1>6, <2>1
<1>8. st = "pack" => EndAt(l, g, s - 1) <= x + n
  BY <1>3, <1>6
<1>9. UpTo(l, x + n, new)
  <2>1. /\ rs \in Seq(TextRecord)
        /\ \A k \in 1..Len(rs) : rs[k].len <= MAXTEXT /\ rs[k].at + rs[k].len <= x
        /\ \A k, m \in 1..Len(rs) : k < m => rs[k].at + rs[k].len <= rs[m].at
        /\ \A y \in Wanted(l) : y < x => \E r \in 1..Len(rs) : y \in Bytes(rs[r])
        /\ Adjoining(l) => \A k \in 1..Len(rs) : Accounts(l, rs[k])
    BY <1>1 DEF UpTo
  <2>2. \A y \in Wanted(l) : y \in Nat /\ (l.sparse => y \in l.defined)
    BY <1>1, WantedAt
  <2>3. \A k \in 1..Len(rs) : rs[k].at + rs[k].len <= x + n
    <3> TAKE k \in 1..Len(rs)
    <3>1. rs[k] \in TextRecord
      BY <2>1
    <3>2. rs[k].at \in Nat /\ rs[k].len \in Nat
      BY <3>1 DEF TextRecord
    <3>3. rs[k].at + rs[k].len <= x
      BY <2>1
    <3> QED BY <1>1, <1>4, <3>2, <3>3, SMTT(30)
  <2>4. CASE new = rs /\ l.sparse /\ \A y \in x..(x + n - 1) : y \notin l.defined
    <3>1. \A y \in Wanted(l) : y < x + n => y < x
      <4> TAKE y \in Wanted(l)
      <4>1. y \in Nat /\ y \in l.defined
        BY <2>2, <2>4
      <4>2. y \notin x..(x + n - 1)
        BY <2>4, <4>1
      <4> QED BY <1>1, <1>4, <4>1, <4>2
    <3> QED BY <2>1, <2>3, <2>4, <3>1 DEF UpTo
  <2>5. CASE new = Append(rs, R)
    <3>1. /\ new \in Seq(TextRecord) /\ Len(new) = Len(rs) + 1 /\ Len(rs) \in Nat
          /\ new[Len(rs) + 1] = R /\ \A k \in 1..Len(rs) : new[k] = rs[k]
      BY <2>1, <2>5
    <3>2. \A k \in 1..Len(new) : k = Len(rs) + 1 \/ k \in 1..Len(rs)
      BY <3>1
    <3>3. \A k \in 1..Len(new) : new[k].len <= MAXTEXT /\ new[k].at + new[k].len <= x + n
      <4> TAKE k \in 1..Len(new)
      <4>1. CASE k = Len(rs) + 1
        BY <1>1, <1>4, <3>1, <4>1
      <4>2. CASE k \in 1..Len(rs)
        BY <2>1, <2>3, <3>1, <4>2
      <4> QED BY <3>2, <4>1, <4>2
    <3>4. \A k, m \in 1..Len(new) : k < m => new[k].at + new[k].len <= new[m].at
      <4> SUFFICES ASSUME NEW k \in 1..Len(new), NEW m \in 1..Len(new), k < m
                   PROVE  new[k].at + new[k].len <= new[m].at
        OBVIOUS
      <4>1. k \in 1..Len(rs) /\ new[k] = rs[k]
        BY <3>1
      <4>2. CASE m = Len(rs) + 1
        BY <2>1, <3>1, <4>1, <4>2
      <4>3. CASE m \in 1..Len(rs)
        BY <2>1, <3>1, <4>1, <4>3
      <4> QED BY <3>2, <4>2, <4>3
    <3>5. ASSUME NEW y \in Wanted(l), y < x + n PROVE \E r \in 1..Len(new) : y \in Bytes(new[r])
      <4>1. y \in Nat
        BY <2>2
      <4>2. CASE y < x
        <5>1. PICK r \in 1..Len(rs) : y \in Bytes(rs[r])
          BY <2>1, <4>2
        <5>2. new[r] = rs[r] /\ r \in 1..Len(new)
          BY <3>1
        <5> QED BY <5>1, <5>2
      <4>3. CASE ~(y < x)
        <5>1. y \in Bytes(R)
          BY <1>1, <1>4, <3>5, <4>1, <4>3 DEF Bytes
        <5>2. Len(rs) + 1 \in 1..Len(new)
          BY <3>1
        <5> QED BY <3>1, <5>1, <5>2
      <4> QED BY <4>2, <4>3
    <3>6. Adjoining(l) => \A k \in 1..Len(new) : Accounts(l, new[k])
      BY <2>1, <3>1, <3>2
    <3> QED BY <3>1, <3>3, <3>4, <3>5, <3>6 DEF UpTo
  <2> QED BY <2>4, <2>5
<1>10. st \in {"pack", "emit"} /\ (st = "emit" => x + n < e)
  OBVIOUS
<1>11. ASSUME NEW xn, xn = x + n PROVE Writing(l, g, st, s, f, xn, e, new)
  <2>1. /\ xn \in Nat /\ (st = "emit" => InChunk(l, g, s, f, xn, e))
        /\ (st = "pack" /\ s <= NT(l) => xn <= OrgAt(l, g, s))
        /\ (st = "pack" => EndAt(l, g, s - 1) <= xn) /\ UpTo(l, xn, new)
    BY <1>4, <1>5, <1>7, <1>8, <1>9, <1>11
  <2> QED BY <1>1, <1>10, <2>1 DEF Writing
<1> QED BY <1>11

\* The record the writer is at is a record, and its list accounts for it.
LEMMA RecordFacts ==
    ASSUME TextInv, tpc = "emit"
    PROVE  /\ Record \in TextRecord /\ Record.at = p /\ Record.len = rlen
           /\ Adjoining(lay) => Accounts(lay, Record)
<1>1. /\ IsLayout(lay) /\ Apart(lay) /\ ByOrigin(lay, gidx) /\ sg \in 1..(NT(lay) + 1) /\ p \in Nat
      /\ InChunk(lay, gidx, sg, first, p, cend)
  BY DEF TextInv, Writing
<1>2. /\ NT(lay) \in Nat
      /\ \A k \in 1..NT(lay) :
            /\ gidx[k] \in Nat
            /\ OrgAt(lay, gidx, k) \in Nat /\ LenAt(lay, gidx, k) \in Nat \ {0} /\ EndAt(lay, gidx, k) \in Nat
            /\ OrgAt(lay, gidx, k) + LenAt(lay, gidx, k) <= EndAt(lay, gidx, k)
  BY <1>1, Stacked
<1>3. /\ first \in 1..(sg - 1) /\ first \in 1..NT(lay) /\ sg - 1 \in 1..NT(lay)
      /\ cend = EndAt(lay, gidx, sg - 1) /\ cend \in Nat
      /\ OrgAt(lay, gidx, first) <= p /\ p < cend /\ (p - OrgAt(lay, gidx, first)) % 8 = 0
      /\ sg - first > 1 => p = OrgAt(lay, gidx, first) /\ cend - p <= MAXTEXT
  BY <1>1, <1>2 DEF InChunk
<1>4. rlen \in Nat /\ (cend - p <= MAXTEXT => rlen = cend - p)
  BY <1>1, <1>3 DEF rlen
<1>5. \A k \in 1..NT(lay) : /\ send(k) = EndAt(lay, gidx, k) /\ S(k).org = OrgAt(lay, gidx, k)
                             /\ S(k).len = LenAt(lay, gidx, k)
  BY DEF send, S, EndAt, OrgAt, LenAt, ntext, NT
<1> DEFINE n == sg - first
           T == [sect : Nat, span : Nat]
<1>6. n \in Nat \ {0} /\ (multi <=> n > 1)
  BY <1>1, <1>3 DEF multi
<1>7. CASE multi
  <2>1. Ids = [q \in 1..n |-> [sect |-> gidx[first + q - 1],
                               span |-> send(first + q - 1) - S(first + q - 1).org]]
    BY <1>7 DEF Ids
  <2>2. \A q \in 1..n : first + q - 1 \in 1..NT(lay)
    BY <1>1, <1>2, <1>3
  <2>3. \A q \in 1..n :
            /\ Ids[q].sect = gidx[first + q - 1]
            /\ Ids[q].span = EndAt(lay, gidx, first + q - 1) - OrgAt(lay, gidx, first + q - 1)
    BY <1>5, <2>1, <2>2
  <2>4. \A q \in 1..n : Ids[q] \in T
    <3> TAKE q \in 1..n
    <3>1. PICK k \in 1..NT(lay) : k = first + q - 1
      BY <2>2
    <3>2. gidx[k] \in Nat /\ EndAt(lay, gidx, k) - OrgAt(lay, gidx, k) \in Nat
      BY <1>2, <3>1
    <3>3. Ids[q] = [sect |-> gidx[k], span |-> EndAt(lay, gidx, k) - OrgAt(lay, gidx, k)]
      BY <1>5, <2>1, <3>1
    <3> QED BY <3>2, <3>3
  <2>5. Ids \in Seq(T) /\ Len(Ids) = n
    <3>1. Ids \in [1..n -> T]
      BY <2>1, <2>4
    <3> HIDE DEF T, n
    <3> QED BY <1>6, <3>1
  <2>6. Record \in TextRecord /\ Record.at = p /\ Record.len = rlen /\ Record.ids = Ids
    BY <1>1, <1>4, <2>5 DEF Record, TextRecord, modend, is_last
  <2>7. ASSUME Adjoining(lay) PROVE Accounts(lay, Record)
    <3>1. p = OrgAt(lay, gidx, first) /\ rlen = cend - p
      BY <1>3, <1>4, <1>6, <1>7
    <3>2. \A q \in 1..n : lay.sect[Ids[q].sect].org = OrgAt(lay, gidx, first + q - 1)
      BY <2>3 DEF OrgAt
    <3>3. lay.sect[Ids[1].sect].org = p
      BY <1>3, <1>6, <3>1, <3>2
    <3>4. lay.sect[Ids[n].sect].org + Ids[n].span = p + rlen
      <4>1. first + n - 1 = sg - 1 /\ n \in 1..n
        BY <1>1, <1>3, <1>6
      <4>2. lay.sect[Ids[n].sect].org = OrgAt(lay, gidx, sg - 1)
        BY <3>2, <4>1
      <4>3. Ids[n].span = EndAt(lay, gidx, sg - 1) - OrgAt(lay, gidx, sg - 1)
        BY <2>3, <4>1
      <4> QED BY <1>1, <1>2, <1>3, <3>1, <4>2, <4>3
    <3>5. ASSUME NEW q \in 1..(n - 1)
          PROVE  lay.sect[Ids[q + 1].sect].org = lay.sect[Ids[q].sect].org + Ids[q].span
      <4>1. PICK k : k = first + q - 1
        OBVIOUS
      <4>2. q \in 1..n /\ q + 1 \in 1..n /\ first + (q + 1) - 1 = k + 1 /\ k \in 1..NT(lay) /\ k < NT(lay)
        BY <1>1, <1>2, <1>3, <1>6, <4>1
      <4>3. lay.sect[Ids[q + 1].sect].org = OrgAt(lay, gidx, k + 1)
        BY <3>2, <4>2
      <4>4. lay.sect[Ids[q].sect].org = OrgAt(lay, gidx, k) /\ Ids[q].span = EndAt(lay, gidx, k) - OrgAt(lay, gidx, k)
        BY <2>3, <3>2, <4>1, <4>2
      <4>5. EndAt(lay, gidx, k) = OrgAt(lay, gidx, k + 1)
        BY <1>1, <2>7, <4>2, Gapless
      <4> QED BY <1>2, <4>2, <4>3, <4>4, <4>5
    <3>6. n > 1 /\ n # 1
      BY <1>6, <1>7
    <3> HIDE DEF n
    <3> QED BY <1>1, <2>5, <2>6, <3>3, <3>4, <3>5, <3>6, SMTT(30) DEF Accounts
  <2> QED BY <2>6, <2>7
<1>8. CASE ~multi
  <2>1. n = 1 /\ first = sg - 1
    BY <1>1, <1>3, <1>6, <1>8
  <2>2. Ids = <<[sect |-> gidx[first], span |-> rlen]>>
    BY <1>8 DEF Ids
  <2>3. Ids \in Seq(T) /\ Len(Ids) = 1 /\ Ids[1].sect = gidx[first] /\ Ids[1].span = rlen
    BY <1>2, <1>3, <1>4, <2>2
  <2>4. Record \in TextRecord /\ Record.at = p /\ Record.len = rlen /\ Record.ids = Ids
    BY <1>1, <1>4, <2>3 DEF Record, TextRecord, modend, is_last
  <2>5. ASSUME Adjoining(lay) PROVE Accounts(lay, Record)
    <3>1. lay.sect[Ids[1].sect].org = OrgAt(lay, gidx, first) /\ lay.sect[Ids[1].sect].len = LenAt(lay, gidx, first)
      BY <2>3 DEF OrgAt, LenAt
    <3>2. cend = OrgAt(lay, gidx, first) + roundup8(LenAt(lay, gidx, first))
      BY <1>1, <1>3, <2>1, <2>5, Gapless
    <3>3. ASSUME NEW o \in Nat, NEW v \in Nat, o <= p, (p - o) % 8 = 0, p < o + roundup8(v)
          PROVE  p < o + v
      BY <1>1, <3>3 DEF roundup8
    <3>4. p < OrgAt(lay, gidx, first) + LenAt(lay, gidx, first)
      BY <1>2, <1>3, <3>2, <3>3
    <3>5. /\ Len(Record.ids) = 1 /\ Record.ids[1].span = Record.len
          /\ lay.sect[Record.ids[1].sect].org <= Record.at
          /\ Record.at < lay.sect[Record.ids[1].sect].org + lay.sect[Record.ids[1].sect].len
      BY <1>3, <2>3, <2>4, <3>1, <3>4
    <3>6. 1..(1 - 1) = {}
      OBVIOUS
    <3> QED BY <3>5, <3>6 DEF Accounts
  <2> QED BY <2>4, <2>5
<1> QED BY <1>7, <1>8


\* Where the greedy loop stops: behind at least one section, and when behind
\* several these fit one record.
LEMMA StopFacts ==
    ASSUME TextInv, tpc = "pack", sg <= ntext
    PROVE  /\ Stop \in (sg + 1)..(NT(lay) + 1)
           /\ Stop - sg > 1 => EndAt(lay, gidx, Stop - 1) - OrgAt(lay, gidx, sg) <= MAXTEXT
<1>1. IsLayout(lay) /\ Apart(lay) /\ ByOrigin(lay, gidx) /\ sg \in 1..(NT(lay) + 1) /\ ntext = NT(lay)
  BY DEF TextInv, Writing, NT, ntext
<1>2. NT(lay) \in Nat
  BY <1>1, Stacked
<1>3. \A k \in 1..NT(lay) : send(k) = EndAt(lay, gidx, k) /\ S(k).org = OrgAt(lay, gidx, k)
  BY DEF send, S, EndAt, OrgAt, LenAt, ntext, NT
<1> DEFINE breaks == {k \in sg..ntext : Breaks(k)}
           least == CHOOSE k \in breaks : \A m \in breaks : k <= m
<1>4. Stop = IF breaks = {} THEN ntext + 1 ELSE least
  BY DEF Stop
<1>5. \A k \in (sg + 1)..NT(lay) : k \notin breaks => EndAt(lay, gidx, k) - OrgAt(lay, gidx, sg) <= MAXTEXT
  <2> TAKE k \in (sg + 1)..NT(lay)
  <2>1. k \in 1..NT(lay) /\ k \in sg..ntext /\ k > sg /\ sg \in 1..NT(lay)
    BY <1>1, <1>2
  <2>2. k \notin breaks => ~(send(k) - S(sg).org > MAXTEXT)
    BY <2>1 DEF Breaks
  <2>3. send(k) = EndAt(lay, gidx, k) /\ S(sg).org = OrgAt(lay, gidx, sg)
        /\ EndAt(lay, gidx, k) \in Nat /\ OrgAt(lay, gidx, sg) \in Nat
    BY <1>1, <1>3, <2>1, Stacked
  <2> QED BY <2>2, <2>3
<1>6. CASE breaks = {}
  <2>1. Stop = NT(lay) + 1
    BY <1>1, <1>4, <1>6
  <2>2. Stop - sg > 1 => Stop - 1 \in (sg + 1)..NT(lay)
    BY <1>1, <1>2, <2>1
  <2> QED BY <1>1, <1>2, <1>5, <1>6, <2>1, <2>2
<1>7. CASE breaks # {}
  <2>1. breaks \subseteq (sg + 1)..NT(lay)
    BY <1>1, <1>2 DEF Breaks
  <2>2. \E k \in breaks : \A m \in breaks : k <= m
    <3>1. breaks \subseteq Nat
      BY <1>1, <1>2, <2>1
    <3> HIDE DEF breaks
    <3> QED BY <1>7, <3>1, LeastNumber
  <2>3. least \in breaks /\ \A m \in breaks : least <= m
    <3> HIDE DEF breaks
    <3> QED BY <2>2
  <2>4. Stop = least
    BY <1>4, <1>7
  <2>5. Stop \in breaks /\ \A m \in breaks : Stop <= m
    BY <2>3, <2>4
  <2>6. Stop \in (sg + 1)..NT(lay)
    BY <2>1, <2>5
  <2>7. Stop - 1 \notin breaks
    BY <1>2, <2>5, <2>6
  <2>8. Stop - sg > 1 => Stop - 1 \in (sg + 1)..NT(lay)
    BY <1>1, <1>2, <2>6
  <2> QED BY <1>1, <1>2, <1>5, <2>6, <2>7, <2>8
<1> QED BY <1>6, <1>7

\* The end mark: on the last record, when no RLD records follow, and then only
\* when all text is written.
Marked(l, st, s, rs) ==
    /\ \A k \in 1..Len(rs) :
          rs[k].modend => k = Len(rs) /\ ~l.rld /\ s > NT(l) /\ st \in {"pack", "done"}
    /\ rs # << >> => NT(l) > 0
    /\ ~l.rld /\ s > NT(l) /\ NT(l) > 0 /\ st \in {"pack", "done"} =>
          rs # << >> /\ rs[Len(rs)].modend

MarkInv == Marked(lay, tpc, sg, recs)

LEMMA EmitMoves ==
    ASSUME TextInv, MarkInv, EmitRecord \/ SkipRecord
    PROVE  TextInv' /\ MarkInv'
<1>1. /\ tpc = "emit" /\ p' = p + rlen /\ lay' = lay /\ gidx' = gidx /\ sg' = sg /\ first' = first
      /\ cend' = cend /\ tpc' = IF p + rlen < cend THEN "emit" ELSE "pack"
  BY DEF EmitRecord, SkipRecord, Advance
<1>2. recs' = Append(recs, Record) \/ (Sparse /\ recs' = recs)
  BY DEF EmitRecord, SkipRecord
<1>3. /\ Record \in TextRecord /\ Record.at = p /\ Record.len = rlen
      /\ Adjoining(lay) => Accounts(lay, Record)
  BY <1>1, RecordFacts
<1>4. Writing(lay, gidx, "emit", sg, first, p, cend, recs)
  BY <1>1 DEF TextInv
<1>5. rlen = IF cend - p > MAXTEXT THEN MAXTEXT ELSE cend - p
  BY DEF rlen
<1>6. recs' = Append(recs, Record)
      \/ (recs' = recs /\ lay.sparse /\ \A y \in p..(p + rlen - 1) : y \notin lay.defined)
  BY <1>2 DEF Sparse
<1>7. Writing(lay, gidx, tpc', sg, first, p + rlen, cend, recs')
  BY <1>1, <1>3, <1>4, <1>5, <1>6, Advances
<1>8. TextInv'
  BY <1>1, <1>7 DEF TextInv
<1>9. /\ recs \in Seq(TextRecord) /\ p \in Nat /\ sg \in 1..(NT(lay) + 1) /\ NT(lay) \in Nat
      /\ sg > 1 /\ cend \in Nat /\ rlen \in Nat /\ lay.rld \in BOOLEAN
  <2>1. /\ IsLayout(lay) /\ Apart(lay) /\ ByOrigin(lay, gidx) /\ sg \in 1..(NT(lay) + 1) /\ p \in Nat
        /\ InChunk(lay, gidx, sg, first, p, cend) /\ UpTo(lay, p, recs)
    BY <1>4 DEF Writing
  <2>2. NT(lay) \in Nat /\ \A k \in 1..NT(lay) : EndAt(lay, gidx, k) \in Nat
    BY <2>1, Stacked
  <2>3. sg > 1 /\ sg - 1 \in 1..NT(lay)
    BY <2>1, <2>2 DEF InChunk
  <2>4. cend \in Nat /\ p < cend
    BY <2>1, <2>2, <2>3 DEF InChunk
  <2>5. rlen \in Nat
    BY <2>1, <2>4 DEF rlen
  <2> QED BY <2>1, <2>2, <2>3, <2>4, <2>5, LayoutTyped DEF UpTo
<1>10. Record.modend = modend
  BY DEF Record
<1>11. modend <=> sg > NT(lay) /\ ~(p + rlen < cend) /\ ~lay.rld
  BY <1>9 DEF modend, is_last, ntext, NT
<1>12. \A k \in 1..Len(recs) : ~recs[k].modend
  BY <1>1 DEF MarkInv, Marked
<1>13. Marked(lay, tpc', sg, recs')
  <2>1. NT(lay) > 0
    BY <1>9
  <2>2. CASE recs' = Append(recs, Record)
    <3>1. /\ Len(recs') = Len(recs) + 1 /\ Len(recs) \in Nat /\ recs'[Len(recs) + 1] = Record
          /\ \A k \in 1..Len(recs) : recs'[k] = recs[k]
      BY <1>3, <1>9, <2>2
    <3>2. recs' # << >> /\ recs'[Len(recs')].modend = modend
      BY <1>10, <3>1
    <3>3. ASSUME NEW k \in 1..Len(recs'), recs'[k].modend
          PROVE  k = Len(recs') /\ ~lay.rld /\ sg > NT(lay) /\ tpc' \in {"pack", "done"}
      <4>1. k = Len(recs')
        BY <1>12, <3>1, <3>3
      <4>2. modend
        BY <3>2, <3>3, <4>1
      <4> QED BY <1>1, <1>11, <4>1, <4>2
    <3>4. ~lay.rld /\ sg > NT(lay) /\ tpc' \in {"pack", "done"} => modend
      BY <1>1, <1>11
    <3> QED BY <2>1, <3>2, <3>3, <3>4 DEF Marked
  <2>3. CASE Sparse /\ recs' = recs
    <3>1. ~modend
      BY <2>3 DEF Sparse
    <3>2. ~(~lay.rld /\ sg > NT(lay) /\ tpc' \in {"pack", "done"})
      BY <1>1, <1>11, <3>1
    <3> QED BY <1>12, <2>1, <2>3, <3>2 DEF Marked
  <2> QED BY <1>2, <2>2, <2>3
<1> QED BY <1>1, <1>8, <1>13 DEF MarkInv

LEMMA TextMoves ==
    ASSUME TextInv, MarkInv, TextStep
    PROVE  TextInv' /\ MarkInv'
<1>1. CASE EmitRecord \/ SkipRecord
  BY <1>1, EmitMoves
<1>2. CASE Sort
  <2>1. /\ tpc = "sort" /\ tpc' = "pack" /\ lay' = lay /\ sg' = sg /\ first' = first /\ p' = p
        /\ cend' = cend /\ recs' = recs
    BY <1>2 DEF Sort
  <2>2. IsLayout(lay) /\ Apart(lay) /\ sg = 1 /\ p = 0 /\ recs = << >> /\ UpTo(lay, p, recs)
        /\ sg \in 1..(NT(lay) + 1)
    BY <2>1 DEF TextInv, Writing
  <2>3. ByOrigin(lay, gidx')
    BY <1>2, <2>2, SortOrders
  <2>4. NT(lay) \in Nat /\ (1 <= NT(lay) => OrgAt(lay, gidx', 1) \in Nat)
    BY <2>2, <2>3, Stacked
  <2>5. Writing(lay, gidx', "pack", sg, first, p, cend, recs)
    BY <2>2, <2>3, <2>4 DEF Writing
  <2>6. Marked(lay, "pack", sg, recs)
    BY <2>2, <2>4 DEF Marked
  <2> QED BY <2>1, <2>5, <2>6 DEF TextInv, MarkInv
<1>3. CASE PackChunk
  <2>1. /\ tpc = "pack" /\ sg <= ntext /\ first' = sg /\ sg' = Stop /\ p' = S(sg).org
        /\ cend' = send(Stop - 1) /\ tpc' = "emit" /\ lay' = lay /\ gidx' = gidx /\ recs' = recs
    BY <1>3 DEF PackChunk
  <2>2. /\ Stop \in (sg + 1)..(NT(lay) + 1)
        /\ Stop - sg > 1 => EndAt(lay, gidx, Stop - 1) - OrgAt(lay, gidx, sg) <= MAXTEXT
    BY <2>1, StopFacts
  <2>3. Writing(lay, gidx, "pack", sg, first, p, cend, recs) /\ sg <= NT(lay)
    BY <2>1 DEF TextInv, ntext, NT
  <2>4. Writing(lay, gidx, "emit", Stop, sg, OrgAt(lay, gidx, sg), EndAt(lay, gidx, Stop - 1), recs)
    BY <2>2, <2>3, Packs
  <2>5. p' = OrgAt(lay, gidx, sg) /\ cend' = EndAt(lay, gidx, Stop - 1)
    BY <2>1 DEF send, S, EndAt, OrgAt, LenAt, ntext, NT
  <2>6. TextInv'
    BY <2>1, <2>4, <2>5 DEF TextInv
  <2>7. \A k \in 1..Len(recs) : ~recs[k].modend
    <3>1. sg \in 1..(NT(lay) + 1) /\ NT(lay) \in Nat
      BY <2>3, LayoutTyped DEF Writing
    <3> QED BY <2>3, <3>1 DEF MarkInv, Marked
  <2>8. NT(lay) > 0
    <3>1. sg \in 1..(NT(lay) + 1) /\ NT(lay) \in Nat
      BY <2>3, LayoutTyped DEF Writing
    <3> QED BY <2>3, <3>1
  <2>9. Marked(lay, "emit", Stop, recs)
    BY <2>7, <2>8 DEF Marked
  <2> QED BY <2>1, <2>6, <2>9 DEF MarkInv
<1>4. CASE PackDone
  <2>1. /\ tpc = "pack" /\ sg > ntext /\ tpc' = "done" /\ lay' = lay /\ gidx' = gidx /\ sg' = sg
        /\ first' = first /\ p' = p /\ cend' = cend /\ recs' = recs
    BY <1>4 DEF PackDone
  <2>2. Writing(lay, gidx, "done", sg, first, p, cend, recs)
    BY <2>1 DEF TextInv, Writing, ntext, NT
  <2>3. Marked(lay, "done", sg, recs)
    BY <2>1 DEF MarkInv, Marked
  <2> QED BY <2>1, <2>2, <2>3 DEF TextInv, MarkInv
<1> QED BY <1>1, <1>2, <1>3, <1>4 DEF TextStep

LEMMA TextStarts ==
    ASSUME TextBegin, lay \in Layouts
    PROVE  TextInv /\ MarkInv
<1>1. /\ tpc = "sort" /\ sg = 1 /\ p = 0 /\ recs = << >>
  BY DEF TextBegin
<1>2. IsLayout(lay) /\ Apart(lay)
  BY LayoutsAssumption
<1>3. NT(lay) \in Nat /\ Wanted(lay) \subseteq Nat
  <2>1. /\ NT(lay) \in 0..Len(lay.sect) /\ Len(lay.sect) \in Nat /\ Texts(lay) \subseteq 1..Len(lay.sect)
        /\ \A k \in 1..Len(lay.sect) : lay.sect[k].org \in Nat /\ lay.sect[k].len \in Nat
    BY <1>2, LayoutTyped
  <2> QED BY <2>1 DEF Wanted
<1>4. UpTo(lay, 0, << >>)
  BY <1>3 DEF UpTo
<1>5. Writing(lay, gidx, tpc, sg, first, p, cend, recs)
  BY <1>1, <1>2, <1>3, <1>4 DEF Writing
<1>6. Marked(lay, tpc, sg, recs)
  BY <1>1 DEF Marked
<1> QED BY <1>5, <1>6 DEF TextInv, MarkInv

(***************************************************************************)
(* The module: CESD, text, relocation.                                     *)
(***************************************************************************)

\* What the text and the RLD writer share: whether there are items.
ItemsInv == lay.rld = (items # << >>) /\ (items = << >> => last = 0)

ModInv ==
    /\ CesdInv /\ TextInv /\ MarkInv
    /\ TypeOK /\ TailInv /\ ItemsRead /\ ModuleEnded
    /\ ItemsInv

LEMMA ModStarts ==
    ASSUME ModInit
    PROVE  ModInv
<1>1. PICK b \in Builds : lay = b[1] /\ items = b[2] /\ nG = b[3]
  BY DEF ModInit
<1>2. lay \in Layouts /\ items \in Tables /\ nG \in Nat
  BY <1>1, BuildsAssumption
<1>3. TextInv /\ MarkInv
  BY <1>2, TextStarts DEF ModInit
<1>4. Init
  BY <1>2 DEF ModInit, Init
<1>5. TypeOK /\ TailInv
  BY <1>4, Start
<1>6. ItemsRead
  BY <1>4 DEF Init, Begin, ItemsRead
<1>7. ModuleEnded
  <2>1. pc = "done" => items = << >>
    BY <1>4 DEF Init, Begin
  <2> QED BY <1>4, <2>1 DEF Init, Begin, ModuleEnded
<1>8. CesdInv
  BY <1>2 DEF ModInit, CesdInv, Numbering
<1>9. ItemsInv
  BY DEF ModInit, Begin, ItemsInv
<1> QED BY <1>3, <1>5, <1>6, <1>7, <1>8, <1>9 DEF ModInv

LEMMA RldMoves ==
    ASSUME TypeOK, TailInv, ItemsRead, ModuleEnded, ItemsInv, [Next]_vars, lay' = lay
    PROVE  (TypeOK /\ TailInv /\ ItemsRead /\ ModuleEnded /\ ItemsInv)'
<1>1. TypeOK' /\ TailInv' /\ ItemsRead' /\ ModuleEnded'
  BY TypeStep, TailStep, ReadStep, EndStep
<1>2. items' = items
  BY DEF Next, Step, SamePair, NewPair, NewRecord, Finish, vars
<1>3. items = << >> => last' = last
  <2>1. items = << >> => pc = "done"
    BY DEF TypeOK, TailInv
  <2>2. (~More /\ ~Finish) \/ pc # "done"
    BY DEF More, Finish
  <2> QED BY <2>1, <2>2 DEF Next, Step, SamePair, NewPair, NewRecord, vars
<1> QED BY <1>1, <1>2, <1>3 DEF ItemsInv

LEMMA ModMoves ==
    ASSUME ModInv, [ModNext]_modvars
    PROVE  ModInv'
<1> USE DEF ModInv
<1>1. CASE CesdEntry
  <2>1. UNCHANGED textvars /\ UNCHANGED vars
    BY <1>1 DEF CesdEntry
  <2>2. CesdInv'
    BY <1>1, CesdStep
  <2>3. TextInv' /\ MarkInv' /\ lay' = lay
    BY <2>1 DEF textvars, TextInv, MarkInv
  <2> QED BY <2>1, <2>2, <2>3, RldMoves
<1>2. CASE WriteText
  <2>1. TextStep /\ UNCHANGED vars /\ UNCHANGED cesdvars
    BY <1>2 DEF WriteText
  <2>2. TextInv' /\ MarkInv'
    BY <2>1, TextMoves
  <2>3. CesdInv'
    BY <2>1 DEF cesdvars, CesdInv
  <2>4. lay' = lay
    BY <2>1 DEF TextStep, Sort, PackChunk, PackDone, EmitRecord, SkipRecord, Advance
  <2> QED BY <2>1, <2>2, <2>3, <2>4, RldMoves
<1>3. CASE WriteRld
  <2>1. Step /\ UNCHANGED textvars /\ UNCHANGED cesdvars
    BY <1>3 DEF WriteRld
  <2>2. TextInv' /\ MarkInv' /\ lay' = lay
    BY <2>1 DEF textvars, TextInv, MarkInv
  <2>3. CesdInv'
    BY <2>1 DEF cesdvars, CesdInv
  <2>4. [Next]_vars
    BY <2>1 DEF Next
  <2> QED BY <2>2, <2>3, <2>4, RldMoves
<1>4. CASE UNCHANGED modvars
  <2>1. UNCHANGED textvars /\ UNCHANGED cesdvars /\ UNCHANGED vars
    BY <1>4 DEF modvars
  <2>2. TextInv' /\ MarkInv' /\ lay' = lay
    BY <2>1 DEF textvars, TextInv, MarkInv
  <2>3. CesdInv'
    BY <2>1 DEF cesdvars, CesdInv
  <2> QED BY <2>1, <2>2, <2>3, RldMoves
<1> QED BY <1>1, <1>2, <1>3, <1>4 DEF ModNext, ModStep

LEMMA ModInvariant == ModSpec => []ModInv
<1>1. ModInit => ModInv
  BY ModStarts
<1>2. ModInv /\ [ModNext]_modvars => ModInv'
  BY ModMoves
<1> QED BY <1>1, <1>2, PTL DEF ModSpec

\* Whatever the number of symbols, a reader of the CESD records finds each under
\* its ESDID, none missing and none twice (2842-2870).
THEOREM SymbolsNumbered == ModSpec => []CesdReadsBack
<1>1. ModInv => CesdReadsBack
  <2>1. ModInv /\ id > nG => CesdReadsBack
    BY NumbersRead DEF ModInv
  <2>2. ~(id > nG) => CesdReadsBack
    BY DEF CesdReadsBack, Written
  <2> QED BY <2>1, <2>2
<1> QED BY <1>1, ModInvariant, PTL

\* Whatever the sections, their order in the table and the record limit, the text
\* records fit, load behind each other and bring in every byte wanted, gaps and
\* --sparse-text included (2897-2957).
THEOREM TextBroughtIn == ModSpec => []TextWritten
<1>1. ModInv => TextWritten
  <2> SUFFICES ASSUME ModInv PROVE TextWritten
    OBVIOUS
  <2>1. /\ IsLayout(lay) /\ Apart(lay) /\ sg \in 1..(NT(lay) + 1) /\ p \in Nat /\ UpTo(lay, p, recs)
        /\ tpc # "sort" => ByOrigin(lay, gidx)
        /\ tpc = "done" => sg > NT(lay) /\ (sg > 1 => EndAt(lay, gidx, sg - 1) <= p)
    BY DEF ModInv, TextInv, Writing
  <2>2. recs \in Seq(TextRecord) /\ DOMAIN recs = 1..Len(recs) /\ Len(recs) \in Nat
    BY <2>1 DEF UpTo
  <2>3. RecordFits
    BY <2>1, <2>2 DEF UpTo, RecordFits
  <2>4. Ascending
    <3> SUFFICES ASSUME NEW k \in 1..Len(recs), k > 1
                 PROVE  recs[k - 1].at + recs[k - 1].len <= recs[k].at
      BY <2>2 DEF Ascending
    <3>1. k - 1 \in 1..Len(recs) /\ k - 1 < k
      BY <2>2
    <3> QED BY <2>1, <3>1 DEF UpTo
  <2>5. ASSUME tpc = "done", NEW x \in Wanted(lay) PROVE \E r \in DOMAIN recs : x \in Bytes(recs[r])
    <3>1. x < p
      BY <2>1, <2>5, NothingBetween
    <3> QED BY <2>1, <2>2, <3>1 DEF UpTo
  <2> QED BY <2>3, <2>4, <2>5 DEF TextWritten
<1> QED BY <1>1, ModInvariant, PTL

\* When the padded sections leave no gap, the ID/length list of every control
\* record accounts for every byte of its text record (2926-2940).
THEOREM ListsAccount == ModSpec => []IdsAccount
<1>1. ModInv => IdsAccount
  <2> SUFFICES ASSUME ModInv PROVE IdsAccount
    OBVIOUS
  <2>1. UpTo(lay, p, recs)
    BY DEF ModInv, TextInv, Writing
  <2>2. DOMAIN recs = 1..Len(recs)
    BY <2>1 DEF UpTo
  <2> QED BY <2>1, <2>2 DEF UpTo, IdsAccount
<1> QED BY <1>1, ModInvariant, PTL

\* A module with text has one end mark, on its last record (2924, 2996).
THEOREM EndMarkedOnce == ModSpec => []EndedOnce
<1>1. ModInv => EndedOnce
  <2> SUFFICES ASSUME ModInv, Written, recs # << >> PROVE EndMarks = {Len(recs) + Len(hdr)}
    BY DEF EndedOnce
  <2>1. /\ tpc = "done" /\ pc = "done" /\ sg > NT(lay) /\ NT(lay) > 0
        /\ \A k \in 1..Len(recs) : recs[k].modend => k = Len(recs) /\ ~lay.rld
        /\ ~lay.rld => recs[Len(recs)].modend
        /\ recs \in Seq(TextRecord)
    BY DEF ModInv, TextInv, Writing, MarkInv, Marked, UpTo, Written
  <2>2. DOMAIN recs = 1..Len(recs) /\ Len(recs) \in Nat /\ Len(recs) \in 1..Len(recs)
    BY <2>1
  <2>3. CASE items = << >>
    <3>1. ~lay.rld /\ last = 0
      BY <2>3 DEF ModInv, ItemsInv
    <3>2. hdr = << >>
      BY <2>3 DEF ModInv, TypeOK, TailInv
    <3>3. {k \in DOMAIN recs : recs[k].modend} = {Len(recs)}
      BY <2>1, <2>2, <3>1
    <3> QED BY <2>2, <3>1, <3>2, <3>3 DEF EndMarks
  <2>4. CASE items # << >>
    <3>1. lay.rld
      BY <2>4 DEF ModInv, ItemsInv
    <3>2. last = Len(hdr) /\ last = cells[Len(cells)].rec /\ Len(cells) = Len(items)
      BY <2>1, <2>4 DEF ModInv, ModuleEnded
    <3>3. items \in Seq(Item) /\ Len(items) \in Nat \ {0}
      BY <2>4 DEF ModInv, TypeOK
    <3>4. Len(cells) \in DOMAIN cells
      BY <3>2, <3>3 DEF ModInv, TypeOK
    <3>5. last \in 1..Len(hdr)
      BY <3>2, <3>4 DEF ModInv, TailInv
    <3>6. last # 0
      BY <3>5
    <3>7. {k \in DOMAIN recs : recs[k].modend} = {}
      BY <2>1, <2>2, <3>1
    <3> QED BY <3>2, <3>6, <3>7 DEF EndMarks
  <2> QED BY <2>3, <2>4
<1> QED BY <1>1, ModInvariant, PTL

(***************************************************************************)
(* The RLD records' headers.  Before the end the open record's count is in *)
(* rec_data and the closed ones' are in their headers.                     *)
(***************************************************************************)
Fits(n) == n \in 8..RLDMAX
HdrInv ==
    /\ pc = "emit" =>
          /\ \A r \in 1..Len(hdr) : r # Len(hdr) => hdr[r] = DataOf(r) /\ Fits(hdr[r])
          /\ hdr # << >> => rec_data = DataOf(Len(hdr)) /\ Fits(rec_data)
    /\ pc = "done" => \A r \in 1..Len(hdr) : hdr[r] = DataOf(r) /\ Fits(hdr[r])

\* An item written adds itself, and its prefix if it has one, to its record.
LEMMA DataGrows ==
    ASSUME TypeOK, TailInv, NEW r \in Nat, NEW rp \in {0, 4}, Wrote(r, rp), NEW q \in Nat
    PROVE  DataOf(q) \in Nat /\ DataOf(q)' = IF q = r THEN DataOf(q) + 4 + rp ELSE DataOf(q)
<1> DEFINE L == Len(cells)
           N == L + 1
<1>1. L \in Nat /\ DOMAIN cells = 1..L /\ DOMAIN cells' = 1..N
  BY DEF Wrote, TypeOK
<1>2. \A n \in 1..L : cells'[n].rec = cells[n].rec /\ cells'[n].rp = cells[n].rp
  BY DEF Wrote
<1>3. cells'[N].rec = r /\ cells'[N].rp = rp
  <2>1. cells'[N] = Cell(r, rp)
    BY DEF Wrote
  <2> QED BY <2>1 DEF Cell
<1>4. \A n : n \in 1..N <=> n \in 1..L \/ n = N
  BY <1>1
<1>5. N \notin 1..L
  BY <1>1
<1>6. InRecord(q)' = IF q = r THEN InRecord(q) \cup {N} ELSE InRecord(q)
  BY <1>1, <1>2, <1>3, <1>4 DEF InRecord
<1>7. PrefixesIn(q)' = IF q = r /\ rp = 4 THEN PrefixesIn(q) \cup {N} ELSE PrefixesIn(q)
  BY <1>1, <1>2, <1>3, <1>4, <1>5, <1>6 DEF PrefixesIn, InRecord
<1>8. IsFiniteSet(InRecord(q)) /\ IsFiniteSet(PrefixesIn(q)) /\ N \notin InRecord(q) /\ N \notin PrefixesIn(q)
  <2>1. IsFiniteSet(1..L)
    BY <1>1, FS_Interval
  <2>2. InRecord(q) \subseteq 1..L /\ PrefixesIn(q) \subseteq 1..L
    BY <1>1 DEF InRecord, PrefixesIn
  <2> QED BY <1>5, <2>1, <2>2, FS_Subset
<1>9. PICK x \in Nat, y \in Nat : x = Cardinality(InRecord(q)) /\ y = Cardinality(PrefixesIn(q))
  BY <1>8, FS_CardinalityType
<1>10. /\ Cardinality(InRecord(q)') = IF q = r THEN x + 1 ELSE x
       /\ Cardinality(PrefixesIn(q)') = IF q = r /\ rp = 4 THEN y + 1 ELSE y
  <2>1. Cardinality(InRecord(q) \cup {N}) = x + 1 /\ Cardinality(PrefixesIn(q) \cup {N}) = y + 1
    BY <1>8, <1>9, FS_AddElement
  <2> QED BY <1>6, <1>7, <1>9, <2>1
<1>11. DataOf(q) = 4 * x + 4 * y
  BY <1>9 DEF DataOf
<1>12. DataOf(q)' = 4 * (IF q = r THEN x + 1 ELSE x) + 4 * (IF q = r /\ rp = 4 THEN y + 1 ELSE y)
  BY <1>10 DEF DataOf
<1> QED BY <1>11, <1>12

\* A record not yet begun has no data.
LEMMA NoData ==
    ASSUME TypeOK, TailInv
    PROVE  DataOf(Len(hdr) + 1) = 0
<1>1. Len(hdr) \in Nat /\ \A n \in DOMAIN cells : cells[n].rec \in 1..Len(hdr)
  BY DEF TypeOK, TailInv
<1>2. InRecord(Len(hdr) + 1) = {} /\ PrefixesIn(Len(hdr) + 1) = {}
  BY <1>1 DEF InRecord, PrefixesIn
<1>3. Cardinality({}) = 0
  BY FS_EmptySet
<1>4. DataOf(Len(hdr) + 1) = 4 * 0 + 4 * 0
  BY <1>2, <1>3, Zenon DEF DataOf
<1> QED BY <1>4

\* An item in the open record.
LEMMA OpenGrows ==
    ASSUME TypeOK, TailInv, HdrInv, pc = "emit", pc' = "emit", hdr' = hdr, hdr # << >>,
           NEW rp \in {0, 4}, Wrote(Len(hdr), rp), rec_data' = rec_data + 4 + rp, rec_data' <= RLDMAX
    PROVE  HdrInv'
<1>1. PICK H \in Nat : H = Len(hdr)
  BY DEF TypeOK
<1>2. H >= 1
  BY <1>1 DEF TypeOK
<1>3. \A q \in Nat : DataOf(q) \in Nat /\ DataOf(q)' = IF q = H THEN DataOf(q) + 4 + rp ELSE DataOf(q)
  BY <1>1, DataGrows
<1>4. \A r \in 1..H : r # H => hdr'[r] = DataOf(r)' /\ Fits(hdr'[r])
  BY <1>1, <1>3 DEF HdrInv
<1>5. rec_data = DataOf(H) /\ Fits(rec_data)
  BY <1>1 DEF HdrInv
<1>6. DataOf(H)' = DataOf(H) + 4 + rp
  BY <1>1, <1>3
<1>7. rec_data' = DataOf(H)'
  BY <1>5, <1>6
<1>8. Fits(rec_data')
  BY <1>5, RldMaxAssumption DEF Fits
<1> QED
  BY <1>1, <1>4, <1>7, <1>8 DEF HdrInv, Fits

LEMMA HdrStep ==
    ASSUME TypeOK, TailInv, HdrInv, [Next]_vars
    PROVE  HdrInv'
<1>1. CASE UNCHANGED vars
  <2>1. UNCHANGED <<cells, hdr, rec_data, pc>>
    BY <1>1 DEF vars
  <2>2. \A r : DataOf(r)' = DataOf(r)
    BY <2>1 DEF DataOf, InRecord, PrefixesIn
  <2> QED BY <2>1, <2>2 DEF HdrInv, Fits
<1>2. CASE SamePair
  <2>1. /\ pc = "emit" /\ pc' = "emit" /\ hdr' = hdr /\ hdr # << >> /\ rec_data' = rec_data + 4
        /\ rec_data + 4 <= RLDMAX
    BY <1>2, RldMaxAssumption DEF SamePair, More, Full, isize, TypeOK
  <2>2. rec_data' = rec_data + 4 + 0 /\ rec_data' <= RLDMAX
    BY <2>1 DEF TypeOK
  <2> QED BY <1>2, <2>1, <2>2, SameWrote, OpenGrows
<1>3. CASE NewPair
  <2>1. /\ pc = "emit" /\ pc' = "emit" /\ hdr' = hdr /\ hdr # << >> /\ rec_data' = rec_data + 8
        /\ rec_data + 8 <= RLDMAX
    BY <1>3, RldMaxAssumption DEF NewPair, More, Full, isize, TypeOK
  <2>2. rec_data' = rec_data + 4 + 4 /\ rec_data' <= RLDMAX
    BY <2>1 DEF TypeOK
  <2> QED BY <1>3, <2>1, <2>2, NewPairWrote, OpenGrows
<1>4. CASE NewRecord
  <2>1. PICK H \in Nat : H = Len(hdr)
    BY DEF TypeOK
  <2>2. pc = "emit" /\ pc' = "emit" /\ rec_data' = 8 /\ hdr' = Append(Closed, 0)
    BY <1>4 DEF NewRecord, More
  <2>3. Closed \in Seq(Nat) /\ Len(Closed) = H /\ \A r \in 1..H : Closed[r] = IF r = H THEN rec_data ELSE hdr[r]
    BY <2>1, ClosedTyped
  <2>4. Len(hdr') = H + 1 /\ \A r \in 1..H : hdr'[r] = Closed[r]
    BY <2>2, <2>3
  <2>5. \A q \in Nat : DataOf(q) \in Nat /\ DataOf(q)' = IF q = H + 1 THEN DataOf(q) + 4 + 4 ELSE DataOf(q)
    <3>1. Wrote(H + 1, 4) /\ H + 1 \in Nat /\ 4 \in {0, 4}
      BY <1>4, <2>1, NewRecordWrote
    <3> QED BY <3>1, DataGrows, Zenon
  <2>6. DataOf(H + 1)' = 8
    BY <2>1, <2>5, NoData
  <2>7. ASSUME NEW r \in 1..H PROVE hdr'[r] = DataOf(r)' /\ Fits(hdr'[r])
    <3>1. DataOf(r)' = DataOf(r) /\ hdr'[r] = IF r = H THEN rec_data ELSE hdr[r]
      <4>1. r \in Nat /\ r # H + 1
        OBVIOUS
      <4> QED BY <2>3, <2>4, <2>5, <4>1, Zenon
    <3>2. r = H => rec_data = DataOf(r) /\ Fits(rec_data)
      BY <2>1, <2>2 DEF HdrInv, TypeOK
    <3>3. r # H => hdr[r] = DataOf(r) /\ Fits(hdr[r])
      BY <2>1, <2>2 DEF HdrInv
    <3> QED BY <3>1, <3>2, <3>3
  <2>8. Fits(rec_data')
    BY <2>2, RldMaxAssumption DEF Fits
  <2>9. \A r \in 1..(H + 1) : r # H + 1 => r \in 1..H
    BY <2>1
  <2> QED BY <2>2, <2>4, <2>6, <2>7, <2>8, <2>9 DEF HdrInv, Fits
<1>5. CASE Finish
  <2>1. pc = "emit" /\ pc' = "done" /\ hdr' = Closed /\ cells' = cells
    BY <1>5 DEF Finish
  <2>2. \A r : DataOf(r)' = DataOf(r)
    BY <2>1 DEF DataOf, InRecord, PrefixesIn
  <2>3. PICK H \in Nat : H = Len(hdr)
    BY DEF TypeOK
  <2>4. Len(hdr') = H /\ \A r \in 1..H : hdr'[r] = IF r = H THEN rec_data ELSE hdr[r]
    BY <2>1, <2>3, ClosedTyped
  <2>5. ASSUME NEW r \in 1..H PROVE hdr'[r] = DataOf(r)' /\ Fits(hdr'[r])
    <3>1. r = H => rec_data = DataOf(r) /\ Fits(rec_data)
      BY <2>1, <2>3 DEF HdrInv, TypeOK
    <3>2. r # H => hdr[r] = DataOf(r) /\ Fits(hdr[r])
      BY <2>1, <2>3 DEF HdrInv
    <3> QED BY <2>2, <2>4, <3>1, <3>2
  <2> QED BY <2>1, <2>4, <2>5 DEF HdrInv, Fits
<1> QED BY <1>1, <1>2, <1>3, <1>4, <1>5 DEF Next, Step

LEMMA Readable ==
    ASSUME TypeOK, ItemsRead, HdrInv
    PROVE  FetchReadsItems
<1>1. DOMAIN hdr = 1..Len(hdr)
  BY DEF TypeOK
<1>2. HeadersRight
  BY <1>1 DEF HdrInv, HeadersRight, Fits
<1> QED BY <1>2 DEF FetchReadsItems

\* RLD emission (ld370.c, the RLD loop): whatever the relocation items and
\* wherever a record fills up, the suppressed R/P prefixes and continuation bits
\* give a record-at-a-time reader back exactly the items that were linked, in
\* records whose headers count their data and which keep to the limit.
THEOREM ReadsBack == Spec => []FetchReadsItems
<1>1. Init => ItemsRead /\ HdrInv
  BY DEF Init, Begin, ItemsRead, HdrInv
<1>2. TypeOK /\ TailInv /\ ItemsRead /\ HdrInv /\ [Next]_vars
        => TypeOK' /\ TailInv' /\ ItemsRead' /\ HdrInv'
  BY TypeStep, TailStep, ReadStep, HdrStep
<1>3. TypeOK /\ ItemsRead /\ HdrInv => FetchReadsItems
  BY Readable
<1> QED BY <1>1, <1>2, <1>3, Start, PTL DEF Spec

\* The same of the RLD records of the whole module (2961-3003).
THEOREM ItemsReadBack == ModSpec => []FetchReadsItems
<1>1. ModInit => HdrInv
  <2> SUFFICES ASSUME ModInit PROVE HdrInv
    OBVIOUS
  <2>1. hdr = << >>
    BY DEF ModInit, Begin
  <2> QED BY <2>1 DEF HdrInv
<1>2. ModInv /\ HdrInv /\ [ModNext]_modvars => HdrInv'
  <2>1. [ModNext]_modvars => [Next]_vars
    BY DEF ModNext, ModStep, CesdEntry, WriteText, WriteRld, Next, modvars
  <2> QED BY <2>1, HdrStep DEF ModInv
<1>3. ModInv /\ HdrInv => FetchReadsItems
  BY Readable DEF ModInv
<1> QED BY <1>1, <1>2, <1>3, ModInvariant, PTL DEF ModSpec
=============================================================================
