---------------------------- MODULE MsgbufProofs ----------------------------
(***************************************************************************)
(* Theorems about MsgbufTx, MsgbufRx and TcpAck.  For any number of flow   *)
(* rings and packet ids and any size of ring, a transmit id in use is in   *)
(* one place and every descriptor the dongle is told about is one of the   *)
(* lap it is on, except after a failed mapping with phase nibbles; for any *)
(* ring and any burst, the receive buffers posted never run short while    *)
(* ids are left; for any table and any bus queue, the newest               *)
(* acknowledgement of each stream is not lost.                             *)
(***************************************************************************)
EXTENDS MsgbufTx, MsgbufRx, TcpAck, FiniteSetTheorems, SequenceTheorems,
        WellFoundedInduction, TLAPS

(***************************************************************************)
(* Transmit descriptors.                                                   *)
(***************************************************************************)
Slots == 0 .. TXITEMS - 1
After(i) == IF i = TXITEMS - 1 THEN 0 ELSE i + 1

\* From one slot forward to another.
Dist(a, b) == IF a <= b THEN b - a ELSE b - a + TXITEMS

Phases == {0, 1, NIBBLE_WRAP}
Descriptor == [id : TxPktid \cup {NoId}, phase : Phases]
RingRecord == [wr : Slots, rd : Slots, phase : Phases]

MsgTxTypes ==
  /\ txat \in [Flow -> {"rest", "next", "stop", "flag", "reserve", "alloc", "unreserve", "fail"}]
  /\ txid \in [Flow -> TxPktid \cup {NoId}]
  /\ txring \in [Flow -> RingRecord]
  /\ told \in [Flow -> Slots] /\ drd \in [Flow -> Slots] /\ lap \in [Flow -> Phases]
  /\ even \in {0, NIBBLE_WRAP}
  /\ desc \in [Flow -> [Slots -> Descriptor]]
  /\ busy \subseteq TxPktid /\ taken \subseteq TxPktid /\ statuses \subseteq TxPktid

\* An actor has an id from the moment it reserves one until it has posted it
\* or given it back.
ReservesInPlace == \A f \in Flow : txid[f] /= NoId <=> txat[f] \in {"alloc", "unreserve"}

\* Going around the ring: what the host knows the dongle has read, what it
\* has read, what it has been told of, what is written.
InOrder(r, q, t, w) == Dist(r, q) + Dist(q, t) + Dist(t, w) = Dist(r, w)

RingOrdered == \A f \in Flow : InOrder(txring[f].rd, drd[f], told[f], txring[f].wr)

\* The phase of the item that is written next.
NextPhase(ring, ev) == IF ring.wr = 0 THEN FlowFlipped(ring.phase, ev) ELSE ring.phase

PhasesAgree ==
  \A f \in Flow \ misphased :
    /\ NextPhase(txring[f], even) = FlowExpected(txring[f].wr, drd[f], lap[f], even)
    /\ \A i \in Unread(f) : desc[f][i].phase = FlowExpected(i, drd[f], lap[f], even)

ToldAtRest == \A f \in Flow : txat[f] = "rest" => told[f] = txring[f].wr

RingInv == MsgTxTypes /\ ReservesInPlace /\ RingOrdered
DescInv == PhasesAgree /\ ToldAtRest
(***************************************************************************)
(* The arithmetic of the ring.                                             *)
(***************************************************************************)
LEMMA ItemsNat == TXITEMS \in Nat /\ TXITEMS > 1
  BY TxAssumption

LEMMA SlotInt == Slots \subseteq Int
  BY ItemsNat DEF Slots

LEMMA AfterSlot ==
  ASSUME NEW i \in Slots
  PROVE  After(i) \in Slots /\ (i + 1) % TXITEMS = After(i)
<1>1. CASE i = TXITEMS - 1
  BY <1>1, ItemsNat DEF Slots, After
<1>2. CASE i /= TXITEMS - 1
  BY <1>2, ItemsNat DEF Slots, After
<1> QED
  BY <1>1, <1>2

LEMMA DistNat ==
  ASSUME NEW a \in Slots, NEW b \in Slots
  PROVE  Dist(a, b) \in 0 .. TXITEMS - 1 /\ (Dist(a, b) = 0 <=> a = b)
  BY ItemsNat DEF Slots, Dist

LEMMA SpanSlots ==
  ASSUME NEW a \in Slots, NEW b \in Slots
  PROVE  /\ Span(a, b, TXITEMS) \subseteq Slots
         /\ b \notin Span(a, b, TXITEMS)
         /\ a \in Span(a, b, TXITEMS) <=> a /= b
  BY ItemsNat DEF Slots, Span

\* A slot more: there is room for it as long as one more slot stays empty.
LEMMA SpanPosted ==
  ASSUME NEW q \in Slots, NEW w \in Slots, Dist(q, w) <= TXITEMS - 2
  PROVE  Span(q, After(w), TXITEMS) = Span(q, w, TXITEMS) \cup {w}
<1>1. CASE q <= w /\ w < TXITEMS - 1
  BY <1>1, ItemsNat DEF Slots, Dist, Span, After
<1>2. CASE q <= w /\ w = TXITEMS - 1
  BY <1>2, ItemsNat DEF Slots, Dist, Span, After
<1>3. CASE w < q
  BY <1>3, ItemsNat DEF Slots, Dist, Span, After
<1> QED
  BY <1>1, <1>2, <1>3, ItemsNat DEF Slots

LEMMA SpanRead ==
  ASSUME NEW q \in Slots, NEW w \in Slots, q /= w
  PROVE  Span(After(q), w, TXITEMS) = Span(q, w, TXITEMS) \ {q}
<1>1. CASE q < w
  BY <1>1, ItemsNat DEF Slots, Span, After
<1>2. CASE w < q /\ q < TXITEMS - 1
  BY <1>2, ItemsNat DEF Slots, Span, After
<1>3. CASE w < q /\ q = TXITEMS - 1
  BY <1>3, ItemsNat DEF Slots, Span, After
<1> QED
  BY <1>1, <1>2, <1>3, ItemsNat DEF Slots

\* What the dongle has been told of is part of what it has not read.
LEMMA SpanTold ==
  ASSUME NEW q \in Slots, NEW t \in Slots, NEW w \in Slots,
         Dist(q, t) + Dist(t, w) = Dist(q, w)
  PROVE  Span(q, t, TXITEMS) \subseteq Span(q, w, TXITEMS)
  BY ItemsNat DEF Slots, Dist, Span

LEMMA OrderSeen ==
  ASSUME NEW r \in Slots, NEW q \in Slots, NEW t \in Slots, NEW w \in Slots,
         InOrder(r, q, t, w)
  PROVE  /\ InOrder(q, q, t, w) /\ InOrder(r, q, w, w)
         /\ Dist(q, w) <= Dist(r, w)
         /\ Dist(q, t) + Dist(t, w) = Dist(q, w)
  BY ItemsNat DEF Slots, Dist, InOrder

LEMMA OrderPosted ==
  ASSUME NEW r \in Slots, NEW q \in Slots, NEW t \in Slots, NEW w \in Slots,
         InOrder(r, q, t, w), Dist(r, w) <= TXITEMS - 2
  PROVE  InOrder(r, q, t, After(w)) /\ InOrder(r, q, After(w), After(w))
<1>1. Dist(r, After(w)) = Dist(r, w) + 1
  BY ItemsNat DEF Slots, Dist, After
<1>2. Dist(t, w) <= TXITEMS - 2 /\ Dist(q, w) <= TXITEMS - 2
  BY ItemsNat DEF Slots, Dist, InOrder
<1>3. Dist(t, After(w)) = Dist(t, w) + 1 /\ Dist(q, After(w)) = Dist(q, w) + 1
  BY <1>2, ItemsNat DEF Slots, Dist, After
<1>4. Dist(q, t) + Dist(t, w) = Dist(q, w) /\ Dist(After(w), After(w)) = 0
  BY OrderSeen, AfterSlot, DistNat
<1> QED
  BY <1>1, <1>3, <1>4, DistNat, SlotInt, ItemsNat DEF InOrder

LEMMA OrderRead ==
  ASSUME NEW r \in Slots, NEW q \in Slots, NEW t \in Slots, NEW w \in Slots,
         InOrder(r, q, t, w), q /= t
  PROVE  InOrder(r, After(q), t, w) /\ q /= w
<1>1. Dist(After(q), t) = Dist(q, t) - 1
  BY ItemsNat DEF Slots, Dist, After
<1>2. q /= w /\ Dist(r, After(q)) = Dist(r, q) + 1
  BY ItemsNat DEF Slots, Dist, InOrder, After
<1> QED
  BY <1>1, <1>2, DistNat, ItemsNat DEF InOrder

\* CHECK_WRITE_SPACE leaves one slot empty, whatever the copy of the read index.
LEMMA RoomLeft ==
  ASSUME NEW r \in Slots, NEW w \in Slots, WriteSpaceFrom(r, w, TXITEMS) >= 1
  PROVE  Dist(r, w) <= TXITEMS - 2
  BY ItemsNat DEF Slots, Dist, WriteSpaceFrom

LEMMA MinOfTwo == \A a, b \in Int : Min({a, b}) = IF a <= b THEN a ELSE b
<1>1. ASSUME NEW a \in Int, NEW b \in Int PROVE Min({a, b}) = IF a <= b THEN a ELSE b
  <2>1. \E x \in {a, b} : \A y \in {a, b} : x <= y
    BY <1>1
  <2>2. Min({a, b}) \in {a, b} /\ \A y \in {a, b} : Min({a, b}) <= y
    BY <2>1, Zenon DEF Min
  <2> QED
    BY <2>2
<1> QED
  BY <1>1

LEMMA SpaceNat ==
  ASSUME NEW r \in Slots, NEW w \in Slots
  PROVE  WriteSpaceFrom(r, w, TXITEMS) \in Nat
  BY ItemsNat DEF Slots, WriteSpaceFrom
(***************************************************************************)
(* Allocating a slot, and giving it back.                                  *)
(***************************************************************************)
LEMMA NextPhaseIn ==
  ASSUME NEW ring \in RingRecord, NEW ev \in {0, NIBBLE_WRAP}
  PROVE  NextPhase(ring, ev) \in Phases
  BY DEF RingRecord, NextPhase, FlowFlipped, Phases

LEMMA AllocatedRing ==
  ASSUME NEW ring \in RingRecord, NEW ev
  PROVE  FlowAllocated(ring, 1, TXITEMS, ev)
           = [wr |-> After(ring.wr), rd |-> ring.rd, phase |-> NextPhase(ring, ev)]
<1>1. (ring.wr + 1) % TXITEMS = After(ring.wr)
  BY AfterSlot DEF RingRecord
<1>2. (IF 1 > 0 /\ ring.wr = 0 THEN FlowFlipped(ring.phase, ev) ELSE ring.phase)
        = NextPhase(ring, ev)
  BY DEF NextPhase
<1>3. FlowAllocated(ring, 1, TXITEMS, ev)
        = [ring EXCEPT !.wr = After(ring.wr), !.phase = NextPhase(ring, ev)]
  BY <1>1, <1>2 DEF FlowAllocated
<1> QED
  BY <1>3 DEF RingRecord

\* A failed DMA mapping leaves no trace in the ring, also at its seam, unless
\* the phase it gives back is the nibble of an even lap.
LEMMA RolledBackRing ==
  ASSUME NEW ring \in RingRecord, NEW ev \in {0, NIBBLE_WRAP}
  PROVE  LET r == RolledBack(FlowAllocated(ring, 1, TXITEMS, ev), 1, TXITEMS)
         IN /\ r \in RingRecord /\ r.wr = ring.wr /\ r.rd = ring.rd
            /\ \/ NextPhase(r, ev) = NextPhase(ring, ev)
               \/ ring.wr = 0 /\ NextPhase(ring, ev) = NIBBLE_WRAP
<1> DEFINE n == NextPhase(ring, ev)
           a == [wr |-> After(ring.wr), rd |-> ring.rd, phase |-> n]
           back == IF ring.wr /= 0 THEN n ELSE IF n = 0 THEN 1 ELSE 0
           r == [wr |-> ring.wr, rd |-> ring.rd, phase |-> back]
<1>0. a.wr = After(ring.wr) /\ a.rd = ring.rd /\ a.phase = n
  OBVIOUS
<1>1. RolledBack(a, 1, TXITEMS) = r
  <2>1. (IF After(ring.wr) < 1 THEN TXITEMS - 1 ELSE After(ring.wr) - 1) = ring.wr
    BY ItemsNat DEF RingRecord, Slots, After
  <2>2. RolledBack(a, 1, TXITEMS) = [a EXCEPT !.wr = ring.wr, !.phase = back]
    <3> HIDE DEF a, n
    <3> QED
      BY <1>0, <2>1 DEF RolledBack, back
  <2> QED
    BY <2>2
<1>2. n \in Phases
  BY NextPhaseIn
<1>3. back \in Phases
  BY <1>2 DEF Phases
<1>4. r \in RingRecord /\ r.wr = ring.wr /\ r.rd = ring.rd /\ r.phase = back
  BY <1>3 DEF RingRecord
<1>5. CASE ring.wr /= 0
  <2>1. NextPhase(r, ev) = back /\ back = n
    BY <1>4, <1>5 DEF NextPhase
  <2> QED
    BY <1>1, <1>4, <2>1, AllocatedRing
<1>6. CASE ring.wr = 0
  <2>1. n = FlowFlipped(ring.phase, ev) /\ NextPhase(r, ev) = FlowFlipped(back, ev)
    BY <1>4, <1>6 DEF NextPhase
  <2>2. n \in {1, ev}
    BY <2>1 DEF FlowFlipped
  <2>3. FlowFlipped(back, ev) = n \/ n = NIBBLE_WRAP
    BY <1>6, <2>2 DEF FlowFlipped, NIBBLE_WRAP
  <2> QED
    BY <1>1, <1>4, <1>6, <2>1, <2>3, AllocatedRing
<1> QED
  BY <1>5, <1>6

LEMMA SeenRing ==
  ASSUME RingInv, NEW f \in Flow
  PROVE  /\ Seen(f) \in RingRecord
         /\ Seen(f).wr = txring[f].wr /\ Seen(f).phase = txring[f].phase
         /\ InOrder(Seen(f).rd, drd[f], told[f], txring[f].wr)
<1>1. txring[f] \in RingRecord /\ drd[f] \in Slots /\ told[f] \in Slots
  BY DEF RingInv, MsgTxTypes
<1>2. txring[f].rd \in Slots /\ txring[f].wr \in Slots
  BY <1>1 DEF RingRecord
<1>3. InOrder(txring[f].rd, drd[f], told[f], txring[f].wr)
  BY DEF RingInv, RingOrdered
<1>4. InOrder(drd[f], drd[f], told[f], txring[f].wr)
  BY <1>1, <1>2, <1>3, OrderSeen
<1> QED
  BY <1>1, <1>2, <1>3, <1>4 DEF Seen, Refreshed, RingRecord

LEMMA SlotRoom ==
  ASSUME RingInv, NEW f \in Flow, HasSlot(f)
  PROVE  Dist(Seen(f).rd, txring[f].wr) <= TXITEMS - 2
<1>1. Seen(f).rd \in Slots /\ txring[f].wr \in Slots /\ Seen(f).wr = txring[f].wr
  BY SeenRing DEF RingRecord
<1> DEFINE room == WriteSpaceFrom(Seen(f).rd, txring[f].wr, TXITEMS)
<1>2. room \in Nat /\ Min({1, room}) = 1
  BY <1>1, SpaceNat DEF HasSlot, Granted
<1>3. room >= 1
  <2> HIDE DEF room
  <2> QED
    BY <1>2, MinOfTwo
<1> QED
  BY <1>1, <1>3, RoomLeft
(***************************************************************************)
(* The ring, step by step.                                                 *)
(***************************************************************************)
USE DEF ringPart, mapPart, stopPart, donglePart, actorPart

ActorAt == {"rest", "next", "stop", "flag", "reserve", "alloc", "unreserve", "fail"}

\* The steps of an actor that leave rings and ids alone.
Moves(f) ==
  \/ Enqueue(f) \/ DpcServes(f) \/ TakeDepletedMax(f) \/ TakeDepleted(f) \/ TakeAvail(f)
  \/ StopQueue(f) \/ StopFlag(f) \/ ReserveNone(f)

LEMMA MovesLeave ==
  ASSUME NEW f \in Flow, Moves(f)
  PROVE  /\ UNCHANGED <<txid, txring, told, desc, busy, drd, lap, even, misphased, taken, statuses>>
         /\ txat[f] \notin {"alloc", "unreserve"}
         /\ \E at \in ActorAt \ {"rest", "alloc", "unreserve"} : txat' = [txat EXCEPT ![f] = at]
<1>1. UNCHANGED <<txid, txring, told, desc, busy, drd, lap, even, misphased, taken, statuses>>
  BY DEF Moves, Enqueue, DpcServes, TakeDepletedMax, TakeDepleted, TakeAvail, StopQueue,
     StopFlag, ReserveNone, Dequeued
<1>2. txat[f] \notin {"alloc", "unreserve"}
  BY DEF Moves, Enqueue, DpcServes, TakeDepletedMax, TakeDepleted, TakeAvail, StopQueue,
     StopFlag, ReserveNone, Dequeued
<1>3. \E at \in ActorAt \ {"rest", "alloc", "unreserve"} : txat' = [txat EXCEPT ![f] = at]
  BY DEF Moves, Enqueue, DpcServes, TakeDepletedMax, TakeDepleted, TakeAvail, StopQueue,
     StopFlag, ReserveNone, Dequeued, Goto, ActorAt
<1> QED
  BY <1>1, <1>2, <1>3

LEMMA StatusLeaves ==
  ASSUME StatusAvail \/ StatusFlag \/ StatusStart \/ UNCHANGED msgtxVars
  PROVE  UNCHANGED <<txat, txid, txring, told, desc, busy, drd, lap, even, misphased, taken, statuses>>
  BY DEF StatusAvail, StatusFlag, StatusStart, msgtxVars

\* What a step of an actor on its ring f writes there.
LEMMA Written ==
  ASSUME RingInv, NEW f \in Flow, Post(f)
  PROVE  \E rd \in Slots :
           /\ InOrder(rd, drd[f], told[f], txring[f].wr)
           /\ Dist(rd, txring[f].wr) <= TXITEMS - 2
           /\ txring' = [txring EXCEPT ![f] = [wr |-> After(txring[f].wr), rd |-> rd,
                                             phase |-> NextPhase(txring[f], even)]]
           /\ desc' = [desc EXCEPT ![f][txring[f].wr] =
                         [id |-> txid[f], phase |-> NextPhase(txring[f], even)]]
           /\ told' \in {told, [told EXCEPT ![f] = After(txring[f].wr)]}
           /\ txid' = [txid EXCEPT ![f] = NoId]
           /\ txat[f] = "alloc" /\ txat' = [txat EXCEPT ![f] = "next"]
           /\ UNCHANGED <<busy, drd, lap, even, misphased, taken, statuses>>
<1> DEFINE seen == Seen(f)
<1>1. /\ seen \in RingRecord /\ seen.wr = txring[f].wr /\ seen.phase = txring[f].phase
      /\ InOrder(seen.rd, drd[f], told[f], txring[f].wr)
  BY SeenRing
<1>2. seen.rd \in Slots
  BY <1>1 DEF RingRecord
<1>3. Dist(seen.rd, txring[f].wr) <= TXITEMS - 2
  BY SlotRoom DEF Post
<1>4. NextPhase(seen, even) = NextPhase(txring[f], even)
  BY <1>1 DEF NextPhase
<1>5. FlowAllocated(seen, 1, TXITEMS, even)
        = [wr |-> After(txring[f].wr), rd |-> seen.rd, phase |-> NextPhase(txring[f], even)]
  BY <1>1, <1>4, AllocatedRing
<1>6. /\ txring' = [txring EXCEPT ![f] = FlowAllocated(seen, 1, TXITEMS, even)]
      /\ desc' = [desc EXCEPT ![f][txring[f].wr] =
                    [id |-> txid[f], phase |-> FlowAllocated(seen, 1, TXITEMS, even).phase]]
      /\ told' \in {told, [told EXCEPT ![f] = FlowAllocated(seen, 1, TXITEMS, even).wr]}
  BY DEF Post, SlotTaken
<1>7. /\ txid' = [txid EXCEPT ![f] = NoId]
      /\ txat[f] = "alloc" /\ txat' = [txat EXCEPT ![f] = "next"]
      /\ UNCHANGED <<busy, drd, lap, even, misphased, taken, statuses>>
  BY DEF Post, Goto
<1>8. /\ txring' = [txring EXCEPT ![f] = [wr |-> After(txring[f].wr), rd |-> seen.rd,
                                          phase |-> NextPhase(txring[f], even)]]
      /\ desc' = [desc EXCEPT ![f][txring[f].wr] =
                    [id |-> txid[f], phase |-> NextPhase(txring[f], even)]]
      /\ told' \in {told, [told EXCEPT ![f] = After(txring[f].wr)]}
  <2>1. /\ FlowAllocated(seen, 1, TXITEMS, even).wr = After(txring[f].wr)
        /\ FlowAllocated(seen, 1, TXITEMS, even).phase = NextPhase(txring[f], even)
    BY <1>5
  <2> HIDE DEF seen
  <2> QED
    BY <1>5, <1>6, <2>1
<1> HIDE DEF seen
<1> WITNESS seen.rd \in Slots
<1> QED
  BY <1>1, <1>3, <1>7, <1>8

\* A full ring and a failed mapping only read the read index again, and of a
\* ring they leave with a wrong phase the history keeps count.
LEMMA NotWritten ==
  ASSUME RingInv, NEW f \in Flow, PostFull(f) \/ PostMapFails(f)
  PROVE  \E r \in RingRecord :
           /\ txring' = [txring EXCEPT ![f] = r]
           /\ r.wr = txring[f].wr /\ InOrder(r.rd, drd[f], told[f], txring[f].wr)
           /\ f \notin misphased' => NextPhase(r, even) = NextPhase(txring[f], even)
           /\ txat[f] = "alloc" /\ txat' = [txat EXCEPT ![f] = "unreserve"]
           /\ misphased \subseteq misphased'
           /\ UNCHANGED <<txid, told, desc, busy, drd, lap, even, taken, statuses>>
<1>1. /\ Seen(f) \in RingRecord /\ even \in {0, NIBBLE_WRAP}
      /\ Seen(f).wr = txring[f].wr /\ Seen(f).phase = txring[f].phase
      /\ InOrder(Seen(f).rd, drd[f], told[f], txring[f].wr)
  BY SeenRing DEF RingInv, MsgTxTypes
<1>2. NextPhase(Seen(f), even) = NextPhase(txring[f], even)
  BY <1>1 DEF NextPhase
<1>3. /\ txat[f] = "alloc" /\ txat' = [txat EXCEPT ![f] = "unreserve"]
      /\ misphased \subseteq misphased'
      /\ UNCHANGED <<txid, told, desc, busy, drd, lap, even, taken, statuses>>
  BY DEF PostFull, PostMapFails, Goto
<1>4. CASE PostFull(f)
  <2>1. txring' = [txring EXCEPT ![f] = Seen(f)]
    BY <1>4 DEF PostFull
  <2> QED
    BY <1>1, <1>2, <1>3, <2>1
<1>5. CASE PostMapFails(f)
  <2> DEFINE r == RolledBack(SlotTaken(f), 1, TXITEMS)
  <2>1. /\ r \in RingRecord /\ r.wr = Seen(f).wr /\ r.rd = Seen(f).rd
        /\ \/ NextPhase(r, even) = NextPhase(Seen(f), even)
           \/ Seen(f).wr = 0 /\ NextPhase(Seen(f), even) = NIBBLE_WRAP
    BY <1>1, RolledBackRing DEF SlotTaken
  <2>2. SlotTaken(f).phase = NextPhase(Seen(f), even)
    BY <1>1, AllocatedRing DEF SlotTaken
  <2>3. txring' = [txring EXCEPT ![f] = r]
    BY <1>5 DEF PostMapFails
  <2>4. AtSeamOfEvenLap(f) => f \in misphased'
    BY <1>5 DEF PostMapFails
  <2>5. f \notin misphased' => NextPhase(r, even) = NextPhase(txring[f], even)
    <3> HIDE DEF r
    <3> QED
      BY <1>1, <1>2, <2>1, <2>2, <2>4 DEF AtSeamOfEvenLap
  <2>6. InOrder(r.rd, drd[f], told[f], txring[f].wr) /\ r.wr = txring[f].wr
    BY <1>1, <2>1
  <2> HIDE DEF r
  <2> QED
    BY <1>3, <2>1, <2>3, <2>5, <2>6
<1> QED
  BY <1>4, <1>5

LEMMA Flushed ==
  ASSUME NEW f \in Flow, Fail(f) \/ ServedAll(f)
  PROVE  /\ told' = [told EXCEPT ![f] = txring[f].wr]
         /\ txat[f] \in {"fail", "next"} /\ txat' = [txat EXCEPT ![f] = "rest"]
         /\ UNCHANGED <<txid, txring, desc, busy, drd, lap, even, misphased, taken, statuses>>
  BY DEF Fail, ServedAll, Flush, Leave, Goto

LEMMA Read ==
  ASSUME RingInv, NEW f \in Flow, DongleReads(f)
  PROVE  /\ drd[f] /= told[f] /\ drd[f] /= txring[f].wr
         /\ drd' = [drd EXCEPT ![f] = After(drd[f])]
         /\ lap' = [lap EXCEPT ![f] = FlowNextLap(drd[f], lap[f], even, TXITEMS)]
         /\ desc' = [desc EXCEPT ![f][drd[f]] = Blank]
         /\ taken' = taken \cup {desc[f][drd[f]].id}
         /\ UNCHANGED <<txat, txid, txring, told, busy, even, misphased, statuses>>
<1>1. /\ txring[f] \in RingRecord /\ drd[f] \in Slots /\ told[f] \in Slots
      /\ InOrder(txring[f].rd, drd[f], told[f], txring[f].wr)
  BY DEF RingInv, MsgTxTypes, RingOrdered
<1>2. drd[f] /= told[f] /\ txring[f].rd \in Slots /\ txring[f].wr \in Slots
  BY <1>1 DEF DongleReads, RingRecord
<1>3. drd[f] /= txring[f].wr
  BY <1>1, <1>2, OrderRead
<1>4. (drd[f] + 1) % TXITEMS = After(drd[f])
  BY <1>1, AfterSlot
<1>5. drd \in [Flow -> Slots]
  BY DEF RingInv, MsgTxTypes
<1>6. drd' = [drd EXCEPT ![f] = After(drd[f])]
  BY <1>4, <1>5 DEF DongleReads
<1> QED
  BY <1>2, <1>3, <1>6 DEF DongleReads

LEMMA Steps ==
  ASSUME [MsgTxNext]_msgtxVars
  PROVE  \/ \E f \in Flow : \/ Moves(f) \/ Reserve(f) \/ Post(f)
                           \/ PostFull(f) \/ PostMapFails(f) \/ Unreserve(f)
                           \/ Fail(f) \/ ServedAll(f) \/ DongleReads(f)
         \/ \E id \in TxPktid : StatusFree(id) \/ DongleAnswers(id)
         \/ StatusAvail \/ StatusFlag \/ StatusStart \/ UNCHANGED msgtxVars
<1>1. ASSUME NEW f \in Flow, Enqueue(f) \/ DpcServes(f) \/ TxServeStep(f)
      PROVE  \/ Moves(f) \/ Reserve(f) \/ Post(f) \/ PostFull(f) \/ PostMapFails(f)
             \/ Unreserve(f) \/ Fail(f) \/ ServedAll(f)
  BY <1>1 DEF TxServeStep, Moves
<1> QED
  BY <1>1 DEF MsgTxNext, TxStatusStep, TxDongleStep

LEMMA RingInvStays ==
  ASSUME RingInv, UNCHANGED <<txat, txid, txring, told, desc, drd, lap, even>>,
         busy' \subseteq TxPktid, taken' \subseteq TxPktid, statuses' \subseteq TxPktid
  PROVE  RingInv'
  BY DEF RingInv, MsgTxTypes, ReservesInPlace, RingOrdered, InOrder, Slots, RingRecord,
     Descriptor

\* The slot the dongle reads is one of those it has not read.
LEMMA ReadPosted ==
  ASSUME RingInv, NEW f \in Flow, DongleReads(f)
  PROVE  /\ drd[f] \in Unread(f) /\ desc[f][drd[f]].id \in PostedIds
         /\ Span(After(drd[f]), txring[f].wr, TXITEMS) = Unread(f) \ {drd[f]}
<1>1. drd[f] \in Slots /\ txring[f].wr \in Slots /\ drd[f] /= txring[f].wr
  BY Read DEF RingInv, MsgTxTypes, RingRecord
<1> QED
  BY <1>1, SpanSlots, SpanRead DEF Unread, PostedIds

LEMMA RingInvKept ==
  ASSUME RingInv, PktidOwned, [MsgTxNext]_msgtxVars
  PROVE  RingInv'
<1>0. /\ MsgTxTypes /\ NoId \notin TxPktid
      /\ txat \in [Flow -> ActorAt] /\ txid \in [Flow -> TxPktid \cup {NoId}]
      /\ txring \in [Flow -> RingRecord]
      /\ told \in [Flow -> Slots] /\ drd \in [Flow -> Slots]
  BY TxAssumption DEF RingInv, MsgTxTypes, ActorAt
<1>1. ASSUME NEW f \in Flow, Moves(f) PROVE RingInv'
  <2>1. PICK at \in ActorAt \ {"rest", "alloc", "unreserve"} : txat' = [txat EXCEPT ![f] = at]
    BY <1>1, MovesLeave
  <2>2. /\ UNCHANGED <<txid, txring, told, desc, busy, drd, lap, even, misphased, taken, statuses>>
        /\ txat[f] \notin {"alloc", "unreserve"}
    BY <1>1, MovesLeave
  <2>3. MsgTxTypes' /\ ReservesInPlace'
    BY <1>0, <2>1, <2>2 DEF RingInv, MsgTxTypes, ReservesInPlace, ActorAt
  <2> QED
    BY <2>2, <2>3 DEF RingInv, RingOrdered
<1>2. ASSUME NEW f \in Flow, Reserve(f) PROVE RingInv'
  <2>1. PICK id \in TxPktid : busy' = busy \cup {id} /\ txid' = [txid EXCEPT ![f] = id]
    BY <1>2 DEF Reserve
  <2>2. /\ UNCHANGED <<txring, told, desc, drd, lap, even, taken, statuses>>
        /\ txat' = [txat EXCEPT ![f] = "alloc"]
    BY <1>2 DEF Reserve, Goto
  <2>3. MsgTxTypes' /\ ReservesInPlace'
    BY <1>0, <2>1, <2>2 DEF RingInv, MsgTxTypes, ReservesInPlace, ActorAt
  <2> QED
    BY <2>2, <2>3 DEF RingInv, RingOrdered
<1>3. ASSUME NEW f \in Flow, Unreserve(f) PROVE RingInv'
  <2>1. /\ UNCHANGED <<txring, told, desc, drd, lap, even, taken, statuses>>
        /\ txid' = [txid EXCEPT ![f] = NoId] /\ busy' \subseteq busy
        /\ txat' = [txat EXCEPT ![f] = "fail"]
    BY <1>3 DEF Unreserve, Goto
  <2>2. MsgTxTypes' /\ ReservesInPlace'
    BY <1>0, <2>1 DEF RingInv, MsgTxTypes, ReservesInPlace, ActorAt
  <2> QED
    BY <2>1, <2>2 DEF RingInv, RingOrdered
<1>4. ASSUME NEW f \in Flow, Post(f) PROVE RingInv'
  <2>1. PICK rd \in Slots :
          /\ InOrder(rd, drd[f], told[f], txring[f].wr)
          /\ Dist(rd, txring[f].wr) <= TXITEMS - 2
          /\ txring' = [txring EXCEPT ![f] = [wr |-> After(txring[f].wr), rd |-> rd,
                                            phase |-> NextPhase(txring[f], even)]]
          /\ desc' = [desc EXCEPT ![f][txring[f].wr] =
                        [id |-> txid[f], phase |-> NextPhase(txring[f], even)]]
          /\ told' \in {told, [told EXCEPT ![f] = After(txring[f].wr)]}
          /\ txid' = [txid EXCEPT ![f] = NoId]
          /\ txat[f] = "alloc" /\ txat' = [txat EXCEPT ![f] = "next"]
          /\ UNCHANGED <<busy, drd, lap, even, misphased, taken, statuses>>
    BY <1>4, Written
  <2>2. /\ txring[f].wr \in Slots /\ drd[f] \in Slots /\ told[f] \in Slots
        /\ NextPhase(txring[f], even) \in Phases
    BY <1>0, NextPhaseIn DEF RingRecord, MsgTxTypes
  <2>3. After(txring[f].wr) \in Slots
    BY <2>2, AfterSlot
  <2>4. txring' \in [Flow -> RingRecord]
    <3>1. [wr |-> After(txring[f].wr), rd |-> rd, phase |-> NextPhase(txring[f], even)] \in RingRecord
      BY <2>2, <2>3 DEF RingRecord
    <3> QED
      BY <1>0, <2>1, <3>1
  <2>5. desc' \in [Flow -> [Slots -> Descriptor]]
    <3>1. [id |-> txid[f], phase |-> NextPhase(txring[f], even)] \in Descriptor
      BY <1>0, <2>2 DEF Descriptor
    <3>2. desc \in [Flow -> [Slots -> Descriptor]]
      BY <1>0 DEF MsgTxTypes
    <3> QED
      BY <2>1, <2>2, <3>1, <3>2
  <2>6. told' \in [Flow -> Slots]
    BY <1>0, <2>1, <2>3
  <2>7. /\ txat' \in [Flow -> ActorAt] /\ txid' \in [Flow -> TxPktid \cup {NoId}]
        /\ ReservesInPlace'
    BY <1>0, <2>1 DEF RingInv, ReservesInPlace, ActorAt
  <2>8. MsgTxTypes'
    BY <1>0, <2>1, <2>4, <2>5, <2>6, <2>7 DEF MsgTxTypes, ActorAt
  <2>9. RingOrdered'
    <3>1. ASSUME NEW g \in Flow, g /= f
          PROVE  /\ txring'[g] = txring[g] /\ told'[g] = told[g] /\ drd'[g] = drd[g]
                 /\ InOrder(txring[g].rd, drd[g], told[g], txring[g].wr)
      BY <1>0, <2>1, <3>1 DEF RingInv, RingOrdered
    <3>2. /\ txring'[f].wr = After(txring[f].wr) /\ txring'[f].rd = rd /\ drd'[f] = drd[f]
          /\ told'[f] \in {told[f], After(txring[f].wr)}
      BY <1>0, <2>1
    <3>3. /\ InOrder(rd, drd[f], told[f], After(txring[f].wr))
          /\ InOrder(rd, drd[f], After(txring[f].wr), After(txring[f].wr))
      BY <2>1, <2>2, OrderPosted
    <3>4. ASSUME NEW g \in Flow
          PROVE  InOrder(txring'[g].rd, drd'[g], told'[g], txring'[g].wr)
      BY <3>1, <3>2, <3>3
    <3> QED
      BY <3>4 DEF RingOrdered, InOrder
  <2> QED
    BY <2>7, <2>8, <2>9 DEF RingInv
<1>5. ASSUME NEW f \in Flow, PostFull(f) \/ PostMapFails(f) PROVE RingInv'
  <2>1. PICK r \in RingRecord :
          /\ txring' = [txring EXCEPT ![f] = r]
          /\ r.wr = txring[f].wr /\ InOrder(r.rd, drd[f], told[f], txring[f].wr)
          /\ f \notin misphased' => NextPhase(r, even) = NextPhase(txring[f], even)
          /\ txat[f] = "alloc" /\ txat' = [txat EXCEPT ![f] = "unreserve"]
          /\ misphased \subseteq misphased'
          /\ UNCHANGED <<txid, told, desc, busy, drd, lap, even, taken, statuses>>
    BY <1>5, NotWritten
  <2>2. MsgTxTypes' /\ ReservesInPlace'
    BY <1>0, <2>1 DEF RingInv, MsgTxTypes, ReservesInPlace, ActorAt
  <2>3. RingOrdered'
    <3>1. ASSUME NEW g \in Flow
          PROVE  InOrder(txring'[g].rd, drd[g], told[g], txring'[g].wr)
      BY <1>0, <2>1 DEF RingInv, RingOrdered
    <3> QED
      BY <2>1, <3>1 DEF RingOrdered, InOrder
  <2> QED
    BY <2>2, <2>3 DEF RingInv
<1>6. ASSUME NEW f \in Flow, Fail(f) \/ ServedAll(f) PROVE RingInv'
  <2>1. /\ told' = [told EXCEPT ![f] = txring[f].wr]
        /\ txat[f] \in {"fail", "next"} /\ txat' = [txat EXCEPT ![f] = "rest"]
        /\ UNCHANGED <<txid, txring, desc, busy, drd, lap, even, misphased, taken, statuses>>
    BY <1>6, Flushed
  <2>2. /\ txring[f].wr \in Slots /\ txring[f].rd \in Slots /\ drd[f] \in Slots
        /\ told[f] \in Slots
    BY <1>0 DEF RingRecord
  <2>3. MsgTxTypes' /\ ReservesInPlace'
    BY <1>0, <2>1, <2>2 DEF RingInv, MsgTxTypes, ReservesInPlace, ActorAt
  <2>4. RingOrdered'
    <3>1. InOrder(txring[f].rd, drd[f], txring[f].wr, txring[f].wr)
      BY <2>2, OrderSeen DEF RingInv, RingOrdered
    <3>2. ASSUME NEW g \in Flow
          PROVE  InOrder(txring[g].rd, drd[g], told'[g], txring[g].wr)
      BY <1>0, <2>1, <3>1 DEF RingInv, RingOrdered
    <3> QED
      BY <2>1, <3>2 DEF RingOrdered, InOrder
  <2> QED
    BY <2>3, <2>4 DEF RingInv
<1>7. ASSUME NEW f \in Flow, DongleReads(f) PROVE RingInv'
  <2>1. /\ drd[f] /= told[f]
        /\ drd' = [drd EXCEPT ![f] = After(drd[f])]
        /\ lap' = [lap EXCEPT ![f] = FlowNextLap(drd[f], lap[f], even, TXITEMS)]
        /\ desc' = [desc EXCEPT ![f][drd[f]] = Blank]
        /\ taken' = taken \cup {desc[f][drd[f]].id}
        /\ UNCHANGED <<txat, txid, txring, told, busy, even, misphased, statuses>>
    BY <1>7, Read
  <2>2. /\ txring[f].wr \in Slots /\ txring[f].rd \in Slots /\ drd[f] \in Slots
        /\ told[f] \in Slots
    BY <1>0 DEF RingRecord
  <2>3. After(drd[f]) \in Slots
    BY <2>2, AfterSlot
  <2>4. drd' \in [Flow -> Slots] /\ lap' \in [Flow -> Phases]
    BY <1>0, <2>1, <2>3 DEF MsgTxTypes, FlowNextLap, FlowFlipped, Phases
  <2>5. desc' \in [Flow -> [Slots -> Descriptor]]
    <3>1. Blank \in Descriptor /\ desc \in [Flow -> [Slots -> Descriptor]]
      BY <1>0 DEF Blank, Descriptor, Phases, MsgTxTypes
    <3> QED
      BY <2>1, <2>2, <3>1
  <2>6. desc[f][drd[f]].id \in TxPktid
    BY <1>0, <1>7, ReadPosted DEF MsgTxTypes, PktidOwned
  <2>7. MsgTxTypes'
    BY <1>0, <2>1, <2>4, <2>5, <2>6 DEF MsgTxTypes
  <2>8. RingOrdered'
    <3>1. InOrder(txring[f].rd, After(drd[f]), told[f], txring[f].wr)
      BY <2>1, <2>2, OrderRead DEF RingInv, RingOrdered
    <3>2. ASSUME NEW g \in Flow
          PROVE  InOrder(txring[g].rd, drd'[g], told[g], txring[g].wr)
      BY <1>0, <2>1, <3>1 DEF RingInv, RingOrdered
    <3> QED
      BY <2>1, <3>2 DEF RingOrdered, InOrder
  <2> QED
    BY <2>1, <2>7, <2>8 DEF RingInv, ReservesInPlace
<1>8. ASSUME NEW id \in TxPktid, StatusFree(id) \/ DongleAnswers(id) PROVE RingInv'
  <2>1. /\ UNCHANGED <<txat, txid, txring, told, desc, drd, lap, even>>
        /\ busy' \subseteq busy /\ taken' \subseteq taken /\ statuses' \subseteq statuses \cup {id}
    BY <1>8 DEF StatusFree, DongleAnswers
  <2> QED
    BY <1>0, <2>1, RingInvStays DEF MsgTxTypes
<1>9. CASE StatusAvail \/ StatusFlag \/ StatusStart \/ UNCHANGED msgtxVars
  BY <1>0, <1>9, StatusLeaves, RingInvStays DEF MsgTxTypes
<1> QED
  BY <1>1, <1>2, <1>3, <1>4, <1>5, <1>6, <1>7, <1>8, <1>9, Steps

(***************************************************************************)
(* Where the ids are.                                                      *)
(***************************************************************************)
ReservedOnce == \A f, g \in Flow : f /= g /\ txid[f] = txid[g] => txid[f] = NoId
PostedOnce ==
  \A f, g \in Flow : \A i \in Unread(f), j \in Unread(g) :
    desc[f][i].id = desc[g][j].id => f = g /\ i = j

Owned ==
  /\ busy = ReservedIds \cup PostedIds \cup taken \cup statuses
  /\ ReservedIds \cap PostedIds = {} /\ taken \cap statuses = {}
  /\ (ReservedIds \cup PostedIds) \cap (taken \cup statuses) = {}
  /\ ReservedOnce /\ PostedOnce

LEMMA OwnedParts == (PktidOwned <=> Owned) /\ (PktidOwned' <=> Owned')
  BY DEF PktidOwned, Owned, ReservedOnce, PostedOnce

\* What is in the rings stays as long as nobody writes or reads a slot.
LEMMA PostedStay ==
  ASSUME UNCHANGED <<desc, drd>>, \A g \in Flow : txring'[g].wr = txring[g].wr
  PROVE  /\ \A g \in Flow : Unread(g)' = Unread(g)
         /\ PostedIds' = PostedIds
         /\ PostedOnce => PostedOnce'
  BY DEF Unread, PostedIds, PostedOnce

LEMMA OwnedStay ==
  ASSUME PktidOwned, UNCHANGED <<txid, desc, drd, busy, taken, statuses>>,
         \A g \in Flow : txring'[g].wr = txring[g].wr
  PROVE  PktidOwned'
<1>1. ReservedIds' = ReservedIds /\ (ReservedOnce => ReservedOnce')
  BY DEF ReservedIds, ReservedOnce
<1> QED
  BY <1>1, PostedStay, OwnedParts DEF Owned

\* An actor has one id, and no other actor has it.
LEMMA GivesUp ==
  ASSUME RingInv, ReservedOnce, NEW f \in Flow, txid[f] /= NoId,
         txid' = [txid EXCEPT ![f] = NoId]
  PROVE  /\ ReservedIds' = ReservedIds \ {txid[f]} /\ txid[f] \in ReservedIds
         /\ ReservedOnce'
  BY DEF RingInv, MsgTxTypes, ReservedOnce, ReservedIds

LEMMA OwnedKept ==
  ASSUME RingInv, PktidOwned, [MsgTxNext]_msgtxVars
  PROVE  PktidOwned'
<1>0. /\ NoId \notin TxPktid /\ txid \in [Flow -> TxPktid \cup {NoId}]
      /\ busy = ReservedIds \cup PostedIds \cup taken \cup statuses
      /\ ReservedIds \cap PostedIds = {} /\ taken \cap statuses = {}
      /\ (ReservedIds \cup PostedIds) \cap (taken \cup statuses) = {}
      /\ ReservedOnce /\ PostedOnce
  BY TxAssumption, OwnedParts DEF RingInv, MsgTxTypes, Owned
<1>1. ASSUME NEW f \in Flow, Moves(f) \/ Fail(f) \/ ServedAll(f) PROVE PktidOwned'
  BY <1>1, MovesLeave, Flushed, OwnedStay
<1>2. ASSUME NEW f \in Flow, PostFull(f) \/ PostMapFails(f) PROVE PktidOwned'
  <2>1. PICK r \in RingRecord :
          /\ txring' = [txring EXCEPT ![f] = r]
          /\ r.wr = txring[f].wr /\ InOrder(r.rd, drd[f], told[f], txring[f].wr)
          /\ f \notin misphased' => NextPhase(r, even) = NextPhase(txring[f], even)
          /\ txat[f] = "alloc" /\ txat' = [txat EXCEPT ![f] = "unreserve"]
          /\ misphased \subseteq misphased'
          /\ UNCHANGED <<txid, told, desc, busy, drd, lap, even, taken, statuses>>
    BY <1>2, NotWritten
  <2>2. \A g \in Flow : txring'[g].wr = txring[g].wr
    BY <2>1 DEF RingInv, MsgTxTypes
  <2> QED
    BY <2>1, <2>2, OwnedStay
<1>3. ASSUME NEW f \in Flow, Reserve(f) PROVE PktidOwned'
  <2>1. PICK id \in TxPktid \ busy : busy' = busy \cup {id} /\ txid' = [txid EXCEPT ![f] = id]
    BY <1>3 DEF Reserve
  <2>2. UNCHANGED <<txring, desc, drd, taken, statuses>> /\ txid[f] = NoId
    BY <1>3 DEF Reserve, RingInv, ReservesInPlace
  <2>3. ReservedIds' = ReservedIds \cup {id} /\ id \notin ReservedIds
    BY <1>0, <2>1, <2>2 DEF ReservedIds
  <2>4. ReservedOnce'
    BY <1>0, <2>1, <2>2, <2>3 DEF ReservedOnce, ReservedIds
  <2>5. PostedIds' = PostedIds /\ PostedOnce'
    BY <1>0, <2>2, PostedStay
  <2> QED
    BY <1>0, <2>1, <2>2, <2>3, <2>4, <2>5, OwnedParts DEF Owned
<1>4. ASSUME NEW f \in Flow, Unreserve(f) PROVE PktidOwned'
  <2>1. /\ UNCHANGED <<txring, desc, drd, taken, statuses>> /\ txid[f] /= NoId
        /\ busy' = busy \ {txid[f]} /\ txid' = [txid EXCEPT ![f] = NoId]
    BY <1>4 DEF Unreserve, RingInv, ReservesInPlace
  <2>2. /\ ReservedIds' = ReservedIds \ {txid[f]} /\ txid[f] \in ReservedIds
        /\ ReservedOnce'
    BY <1>0, <2>1, GivesUp
  <2>3. PostedIds' = PostedIds /\ PostedOnce'
    BY <1>0, <2>1, PostedStay
  <2> QED
    BY <1>0, <2>1, <2>2, <2>3, OwnedParts DEF Owned
<1>5. ASSUME NEW f \in Flow, Post(f) PROVE PktidOwned'
  <2> DEFINE w == txring[f].wr
             id == txid[f]
  <2>1. PICK rd \in Slots :
          /\ InOrder(rd, drd[f], told[f], txring[f].wr)
          /\ Dist(rd, txring[f].wr) <= TXITEMS - 2
          /\ txring' = [txring EXCEPT ![f] = [wr |-> After(txring[f].wr), rd |-> rd,
                                            phase |-> NextPhase(txring[f], even)]]
          /\ desc' = [desc EXCEPT ![f][txring[f].wr] =
                        [id |-> txid[f], phase |-> NextPhase(txring[f], even)]]
          /\ told' \in {told, [told EXCEPT ![f] = After(txring[f].wr)]}
          /\ txid' = [txid EXCEPT ![f] = NoId]
          /\ txat[f] = "alloc" /\ txat' = [txat EXCEPT ![f] = "next"]
          /\ UNCHANGED <<busy, drd, lap, even, misphased, taken, statuses>>
    BY <1>5, Written
  <2>2. w \in Slots /\ drd[f] \in Slots /\ told[f] \in Slots /\ id /= NoId
    BY <2>1 DEF RingInv, MsgTxTypes, RingRecord, ReservesInPlace
  <2>3. Dist(drd[f], w) <= TXITEMS - 2
    BY <2>1, <2>2, OrderSeen, DistNat, ItemsNat
  <2>4. /\ Span(drd[f], After(w), TXITEMS) = Unread(f) \cup {w}
        /\ w \notin Unread(f) /\ Unread(f) \subseteq Slots
    BY <2>2, <2>3, SpanPosted, SpanSlots DEF Unread
  <2>5. /\ Unread(f)' = Unread(f) \cup {w}
        /\ \A g \in Flow \ {f} : Unread(g)' = Unread(g)
    BY <2>1, <2>4 DEF RingInv, MsgTxTypes, Unread
  <2>6. /\ desc'[f][w].id = id
        /\ \A i \in Unread(f) : desc'[f][i] = desc[f][i]
        /\ \A g \in Flow \ {f} : desc'[g] = desc[g]
    BY <2>1, <2>2, <2>4 DEF RingInv, MsgTxTypes
  <2>7. PostedIds' = PostedIds \cup {id}
    <3> HIDE DEF w, id
    <3> QED
      BY <2>5, <2>6 DEF PostedIds
  <2>8. ReservedIds' = ReservedIds \ {id} /\ id \in ReservedIds /\ ReservedOnce'
    BY <1>0, <2>1, <2>2, GivesUp
  <2>9. PostedOnce'
    <3>1. \A g \in Flow : \A i \in Unread(g) : desc[g][i].id /= id
      BY <1>0, <2>8 DEF PostedIds
    <3>2. ASSUME NEW g \in Flow, NEW h \in Flow, NEW i \in Unread(g)', NEW j \in Unread(h)',
                 desc'[g][i].id = desc'[h][j].id
          PROVE  g = h /\ i = j
      <4> HIDE DEF w, id
      <4> QED
        BY <1>0, <2>5, <2>6, <3>1, <3>2 DEF PostedOnce
    <3> QED
      BY <3>2 DEF PostedOnce
  <2> QED
    BY <1>0, <2>1, <2>7, <2>8, <2>9, OwnedParts DEF Owned
<1>6. ASSUME NEW f \in Flow, DongleReads(f) PROVE PktidOwned'
  <2> DEFINE q == drd[f]
             id == desc[f][q].id
  <2>1. /\ drd' = [drd EXCEPT ![f] = After(q)]
        /\ desc' = [desc EXCEPT ![f][q] = Blank]
        /\ taken' = taken \cup {id}
        /\ UNCHANGED <<txid, txring, busy, statuses>>
    BY <1>6, Read
  <2>2. /\ q \in Unread(f) /\ id \in PostedIds
        /\ Span(After(q), txring[f].wr, TXITEMS) = Unread(f) \ {q}
    BY <1>6, ReadPosted
  <2>3. /\ Unread(f)' = Unread(f) \ {q}
        /\ \A g \in Flow \ {f} : Unread(g)' = Unread(g)
    BY <2>1, <2>2 DEF RingInv, MsgTxTypes, Unread
  <2>4. /\ \A i \in Unread(f) \ {q} : desc'[f][i] = desc[f][i]
        /\ \A g \in Flow \ {f} : desc'[g] = desc[g]
    <3>1. Unread(f) \subseteq Slots
      BY SpanSlots DEF RingInv, MsgTxTypes, RingRecord, Unread
    <3> QED
      BY <2>1, <3>1 DEF RingInv, MsgTxTypes
  <2>5. PostedIds' = PostedIds \ {id}
    <3>1. PostedIds' \subseteq PostedIds \ {id}
      <4> HIDE DEF q
      <4> QED
        BY <1>0, <2>2, <2>3, <2>4 DEF PostedIds, PostedOnce
    <3>2. PostedIds \ {id} \subseteq PostedIds'
      <4> HIDE DEF q
      <4> QED
        BY <2>3, <2>4 DEF PostedIds
    <3> QED
      BY <3>1, <3>2
  <2>6. PostedOnce'
    <3>1. ASSUME NEW g \in Flow, NEW h \in Flow, NEW i \in Unread(g)', NEW j \in Unread(h)',
                 desc'[g][i].id = desc'[h][j].id
          PROVE  g = h /\ i = j
      <4> HIDE DEF q
      <4> QED
        BY <1>0, <2>3, <2>4, <3>1 DEF PostedOnce
    <3> QED
      BY <3>1 DEF PostedOnce
  <2>7. ReservedIds' = ReservedIds /\ ReservedOnce'
    BY <1>0, <2>1 DEF ReservedIds, ReservedOnce
  <2> HIDE DEF id
  <2> QED
    BY <1>0, <2>1, <2>2, <2>5, <2>6, <2>7, OwnedParts DEF Owned
<1>7. ASSUME NEW id \in TxPktid, StatusFree(id) \/ DongleAnswers(id) PROVE PktidOwned'
  <2>1. /\ UNCHANGED <<txid, txring, desc, drd>>
        /\ \/ /\ id \in statuses /\ statuses' = statuses \ {id} /\ busy' = busy \ {id}
              /\ taken' = taken
           \/ /\ id \in taken /\ taken' = taken \ {id} /\ statuses' = statuses \cup {id}
              /\ busy' = busy
    BY <1>7 DEF StatusFree, DongleAnswers
  <2>2. ReservedIds' = ReservedIds /\ ReservedOnce'
    BY <1>0, <2>1 DEF ReservedIds, ReservedOnce
  <2>3. PostedIds' = PostedIds /\ PostedOnce'
    BY <1>0, <2>1, PostedStay
  <2> QED
    BY <1>0, <2>1, <2>2, <2>3, OwnedParts DEF Owned
<1>8. CASE StatusAvail \/ StatusFlag \/ StatusStart \/ UNCHANGED msgtxVars
  BY <1>8, StatusLeaves, OwnedStay
<1> QED
  BY <1>1, <1>2, <1>3, <1>4, <1>5, <1>6, <1>7, <1>8, Steps

LEMMA OwnedInit == MsgTxInit => RingInv /\ PktidOwned
<1> SUFFICES ASSUME MsgTxInit PROVE RingInv /\ PktidOwned
  OBVIOUS
<1>1. NewRing \in RingRecord /\ Blank \in Descriptor /\ 0 \in Slots
  BY ItemsNat DEF NewRing, RingRecord, Blank, Descriptor, Phases, Slots
<1>2. MsgTxTypes
  BY <1>1 DEF MsgTxInit, MsgTxTypes, Phases, Slots
<1>3. ReservesInPlace
  BY DEF MsgTxInit, ReservesInPlace
<1>4. RingOrdered
  BY DEF MsgTxInit, RingOrdered, InOrder, Dist, NewRing
<1>5. \A f \in Flow : Unread(f) = {}
  BY DEF MsgTxInit, Unread, NewRing, Span
<1>6. PktidOwned
  BY <1>5 DEF MsgTxInit, PktidOwned, ReservedIds, PostedIds
<1> QED
  BY <1>2, <1>3, <1>4, <1>6 DEF RingInv

\* For any number of flow rings, ids and slots an id in use is in one place,
\* so dhd_pktid_map_free never meets a free locker and no id is lost when a
\* ring is full or a DMA mapping fails (dhd_prot_txdata).
THEOREM TxPktidOwned == MsgTxSpec => []PktidOwned
  BY OwnedInit, RingInvKept, OwnedKept, PTL DEF MsgTxSpec
(***************************************************************************)
(* The phases.                                                             *)
(***************************************************************************)

\* Reading one slot changes what is expected in no other.
LEMMA ExpectedRead ==
  ASSUME NEW q \in Slots, NEW i \in Slots, i /= q, NEW l, NEW ev
  PROVE  FlowExpected(i, After(q), FlowNextLap(q, l, ev, TXITEMS), ev)
           = FlowExpected(i, q, l, ev)
  BY ItemsNat DEF Slots, After, FlowExpected, FlowNextLap

\* The phase expected in the slot after one that may be written.
LEMMA ExpectedNext ==
  ASSUME NEW q \in Slots, NEW w \in Slots, Dist(q, w) <= TXITEMS - 2, NEW l, NEW ev
  PROVE  FlowExpected(After(w), q, l, ev)
           = IF After(w) = 0 THEN FlowFlipped(FlowExpected(w, q, l, ev), ev)
             ELSE FlowExpected(w, q, l, ev)
  BY ItemsNat DEF Slots, Dist, After, FlowExpected

LEMMA DescStays ==
  ASSUME DescInv, UNCHANGED <<txat, told, desc, drd, lap, even, misphased>>,
         UNCHANGED txring
  PROVE  DescInv'
  BY DEF DescInv, PhasesAgree, ToldAtRest, Unread, NextPhase

LEMMA DescKept ==
  ASSUME RingInv, DescInv, [MsgTxNext]_msgtxVars
  PROVE  DescInv'
<1>0. /\ txat \in [Flow -> ActorAt] /\ txring \in [Flow -> RingRecord]
      /\ told \in [Flow -> Slots] /\ drd \in [Flow -> Slots] /\ lap \in [Flow -> Phases]
      /\ desc \in [Flow -> [Slots -> Descriptor]]
  BY DEF RingInv, MsgTxTypes, ActorAt
<1>0a. \A f \in Flow : Unread(f) \subseteq Slots /\ txring[f].wr \notin Unread(f)
  BY <1>0, SpanSlots DEF RingRecord, Unread
<1>1. ASSUME NEW f \in Flow, Moves(f) PROVE DescInv'
  <2>1. PICK at \in ActorAt \ {"rest", "alloc", "unreserve"} : txat' = [txat EXCEPT ![f] = at]
    BY <1>1, MovesLeave
  <2>2. UNCHANGED <<txring, told, desc, drd, lap, even, misphased>>
    BY <1>1, MovesLeave
  <2>3. ToldAtRest'
    BY <1>0, <2>1, <2>2 DEF DescInv, ToldAtRest
  <2> QED
    BY <2>2, <2>3 DEF DescInv, PhasesAgree, Unread, NextPhase
<1>2. ASSUME NEW f \in Flow, Reserve(f) \/ Unreserve(f) PROVE DescInv'
  <2>1. /\ UNCHANGED <<txring, told, desc, drd, lap, even, misphased>>
        /\ txat' \in {[txat EXCEPT ![f] = "alloc"], [txat EXCEPT ![f] = "fail"]}
    BY <1>2 DEF Reserve, Unreserve, Goto
  <2>2. ToldAtRest'
    BY <1>0, <2>1 DEF DescInv, ToldAtRest
  <2> QED
    BY <2>1, <2>2 DEF DescInv, PhasesAgree, Unread, NextPhase
<1>3. ASSUME NEW f \in Flow, PostFull(f) \/ PostMapFails(f) PROVE DescInv'
  <2>1. PICK r \in RingRecord :
          /\ txring' = [txring EXCEPT ![f] = r]
          /\ r.wr = txring[f].wr /\ InOrder(r.rd, drd[f], told[f], txring[f].wr)
          /\ f \notin misphased' => NextPhase(r, even) = NextPhase(txring[f], even)
          /\ txat[f] = "alloc" /\ txat' = [txat EXCEPT ![f] = "unreserve"]
          /\ misphased \subseteq misphased'
          /\ UNCHANGED <<txid, told, desc, busy, drd, lap, even, taken, statuses>>
    BY <1>3, NotWritten
  <2>2. \A g \in Flow : txring'[g].wr = txring[g].wr
    BY <1>0, <2>1
  <2>3. ToldAtRest'
    BY <1>0, <2>1, <2>2 DEF DescInv, ToldAtRest
  <2>4. \A g \in Flow \ misphased' : NextPhase(txring'[g], even) = NextPhase(txring[g], even)
    BY <1>0, <2>1
  <2>5. \A g \in Flow : Unread(g)' = Unread(g)
    BY <2>1, <2>2 DEF Unread
  <2>6. PhasesAgree'
    <3>1. ASSUME NEW g \in Flow \ misphased'
          PROVE  /\ NextPhase(txring'[g], even)
                      = FlowExpected(txring'[g].wr, drd[g], lap[g], even)
                 /\ \A i \in Unread(g)' :
                      desc[g][i].phase = FlowExpected(i, drd[g], lap[g], even)
      BY <2>1, <2>2, <2>4, <2>5 DEF DescInv, PhasesAgree
    <3> QED
      BY <2>1, <3>1 DEF PhasesAgree, NextPhase
  <2> QED
    BY <2>3, <2>6 DEF DescInv
<1>4. ASSUME NEW f \in Flow, Fail(f) \/ ServedAll(f) PROVE DescInv'
  <2>1. /\ told' = [told EXCEPT ![f] = txring[f].wr]
        /\ txat' = [txat EXCEPT ![f] = "rest"]
        /\ UNCHANGED <<txring, desc, drd, lap, even, misphased>>
    BY <1>4, Flushed
  <2>2. ToldAtRest'
    BY <1>0, <2>1 DEF DescInv, ToldAtRest
  <2> QED
    BY <2>1, <2>2 DEF DescInv, PhasesAgree, Unread, NextPhase
<1>5. ASSUME NEW f \in Flow, Post(f) PROVE DescInv'
  <2> DEFINE w == txring[f].wr
             next == NextPhase(txring[f], even)
  <2>1. PICK rd \in Slots :
          /\ InOrder(rd, drd[f], told[f], txring[f].wr)
          /\ Dist(rd, txring[f].wr) <= TXITEMS - 2
          /\ txring' = [txring EXCEPT ![f] = [wr |-> After(txring[f].wr), rd |-> rd,
                                            phase |-> NextPhase(txring[f], even)]]
          /\ desc' = [desc EXCEPT ![f][txring[f].wr] =
                        [id |-> txid[f], phase |-> NextPhase(txring[f], even)]]
          /\ told' \in {told, [told EXCEPT ![f] = After(txring[f].wr)]}
          /\ txid' = [txid EXCEPT ![f] = NoId]
          /\ txat[f] = "alloc" /\ txat' = [txat EXCEPT ![f] = "next"]
          /\ UNCHANGED <<busy, drd, lap, even, misphased, taken, statuses>>
    BY <1>5, Written
  <2>2. w \in Slots /\ drd[f] \in Slots /\ told[f] \in Slots /\ lap[f] \in Phases
    BY <1>0 DEF RingRecord
  <2>3. Dist(drd[f], w) <= TXITEMS - 2
    BY <2>1, <2>2, OrderSeen, DistNat, ItemsNat
  <2>4. f \notin misphased => next = FlowExpected(w, drd[f], lap[f], even)
    BY DEF DescInv, PhasesAgree
  <2>5. /\ txring'[f].wr = After(w) /\ txring'[f].phase = next
        /\ \A g \in Flow \ {f} : txring'[g] = txring[g]
    BY <1>0, <2>1
  <2>6. f \notin misphased
          => NextPhase(txring'[f], even) = FlowExpected(txring'[f].wr, drd[f], lap[f], even)
    BY <2>2, <2>3, <2>4, <2>5, ExpectedNext DEF NextPhase
  <2>7. /\ Unread(f)' = Unread(f) \cup {w}
        /\ \A g \in Flow \ {f} : Unread(g)' = Unread(g)
    BY <2>1, <2>2, <2>3, <2>5, SpanPosted DEF Unread
  <2>8. /\ desc'[f][w].phase = next
        /\ \A i \in Unread(f) : desc'[f][i] = desc[f][i]
        /\ \A g \in Flow \ {f} : desc'[g] = desc[g]
    BY <1>0, <1>0a, <2>1, <2>2
  <2>9. PhasesAgree'
    <3>1. ASSUME NEW g \in Flow \ misphased, g /= f
          PROVE  /\ NextPhase(txring'[g], even)
                      = FlowExpected(txring'[g].wr, drd[g], lap[g], even)
                 /\ \A i \in Unread(g)' :
                      desc'[g][i].phase = FlowExpected(i, drd[g], lap[g], even)
      BY <2>5, <2>7, <2>8, <3>1 DEF DescInv, PhasesAgree
    <3>2. f \notin misphased
            => \A i \in Unread(f)' : desc'[f][i].phase = FlowExpected(i, drd[f], lap[f], even)
      <4> HIDE DEF w, next
      <4> QED
        BY <2>4, <2>7, <2>8 DEF DescInv, PhasesAgree
    <3>3. ASSUME NEW g \in Flow \ misphased
          PROVE  /\ NextPhase(txring'[g], even)
                      = FlowExpected(txring'[g].wr, drd[g], lap[g], even)
                 /\ \A i \in Unread(g)' :
                      desc'[g][i].phase = FlowExpected(i, drd[g], lap[g], even)
      BY <2>6, <3>1, <3>2
    <3> QED
      BY <2>1, <3>3 DEF PhasesAgree, NextPhase
  <2>10. ToldAtRest'
    BY <1>0, <2>1, <2>5 DEF DescInv, ToldAtRest
  <2> QED
    BY <2>9, <2>10 DEF DescInv
<1>6. ASSUME NEW f \in Flow, DongleReads(f) PROVE DescInv'
  <2> DEFINE q == drd[f]
             l == FlowNextLap(q, lap[f], even, TXITEMS)
  <2>1. /\ q /= txring[f].wr
        /\ drd' = [drd EXCEPT ![f] = After(q)]
        /\ lap' = [lap EXCEPT ![f] = l]
        /\ desc' = [desc EXCEPT ![f][q] = Blank]
        /\ UNCHANGED <<txat, txring, told, even, misphased>>
    BY <1>6, Read
  <2>2. q \in Slots /\ txring[f].wr \in Slots
    BY <1>0 DEF RingRecord
  <2>3. \A i \in Slots \ {q} :
          FlowExpected(i, After(q), l, even) = FlowExpected(i, q, lap[f], even)
    BY <2>2, ExpectedRead
  <2>4. /\ Unread(f)' = Unread(f) \ {q}
        /\ \A g \in Flow \ {f} : Unread(g)' = Unread(g)
    BY <1>0, <1>6, <2>1, ReadPosted DEF Unread
  <2>5. /\ \A i \in Unread(f) \ {q} : desc'[f][i] = desc[f][i]
        /\ \A g \in Flow \ {f} : desc'[g] = desc[g] /\ drd'[g] = drd[g] /\ lap'[g] = lap[g]
        /\ drd'[f] = After(q) /\ lap'[f] = l
    <3> HIDE DEF q, l
    <3> QED
      BY <1>0, <1>0a, <2>1
  <2>6. PhasesAgree'
    <3>1. ASSUME NEW g \in Flow \ misphased, g /= f
          PROVE  /\ NextPhase(txring[g], even)
                      = FlowExpected(txring[g].wr, drd'[g], lap'[g], even)
                 /\ \A i \in Unread(g)' :
                      desc'[g][i].phase = FlowExpected(i, drd'[g], lap'[g], even)
      <4> HIDE DEF q, l
      <4> QED
        BY <2>4, <2>5, <3>1 DEF DescInv, PhasesAgree
    <3>2. f \notin misphased
            => NextPhase(txring[f], even) = FlowExpected(txring[f].wr, After(q), l, even)
      <4> HIDE DEF l
      <4> QED
        BY <2>1, <2>2, <2>3 DEF DescInv, PhasesAgree
    <3>3. f \notin misphased
            => \A i \in Unread(f)' : desc'[f][i].phase = FlowExpected(i, After(q), l, even)
      <4> HIDE DEF l
      <4> QED
        BY <1>0a, <2>3, <2>4, <2>5 DEF DescInv, PhasesAgree
    <3>4. ASSUME NEW g \in Flow \ misphased
          PROVE  /\ NextPhase(txring[g], even)
                      = FlowExpected(txring[g].wr, drd'[g], lap'[g], even)
                 /\ \A i \in Unread(g)' :
                      desc'[g][i].phase = FlowExpected(i, drd'[g], lap'[g], even)
      <4> HIDE DEF q, l
      <4> QED
        BY <2>5, <3>1, <3>2, <3>3
    <3> QED
      BY <2>1, <3>4 DEF PhasesAgree, NextPhase
  <2>7. ToldAtRest'
    BY <2>1 DEF DescInv, ToldAtRest
  <2> QED
    BY <2>6, <2>7 DEF DescInv
<1>7. ASSUME NEW id \in TxPktid, StatusFree(id) \/ DongleAnswers(id) PROVE DescInv'
  BY <1>7, DescStays DEF StatusFree, DongleAnswers
<1>8. CASE StatusAvail \/ StatusFlag \/ StatusStart \/ UNCHANGED msgtxVars
  BY <1>8, StatusLeaves, DescStays
<1> QED
  BY <1>1, <1>2, <1>3, <1>4, <1>5, <1>6, <1>7, <1>8, Steps

\* Every descriptor the dongle is told of carries an id in use and nothing
\* posted is left untold when the actor drops the lock of the ring, for any
\* sizes (dhd_prot_txdata, dhd_prot_txdata_write_flush).  With the phase bit it
\* has the phase of the lap it is read on; with phase nibbles it has as long
\* as no mapping fails at the seam of an even lap, where the rollback leaves a
\* wrong one (dhd_prot_alloc_ring_space, dhd_msgbuf.c:10067 and 8192).
THEOREM TxDescriptorsCurrent == MsgTxSpec => []DescriptorsCurrent
<1>1. MsgTxInit => DescInv
  <2> SUFFICES ASSUME MsgTxInit PROVE DescInv
    OBVIOUS
  <2>1. \A f \in Flow : Unread(f) = {}
    BY DEF MsgTxInit, Unread, NewRing, Span
  <2> QED
    BY <2>1 DEF MsgTxInit, DescInv, PhasesAgree, ToldAtRest, NextPhase, NewRing, FlowExpected,
       FlowFlipped
<1>2. RingInv /\ PktidOwned /\ DescInv => DescriptorsCurrent
  <2> SUFFICES ASSUME RingInv, PktidOwned, DescInv, NEW f \in Flow
               PROVE  /\ \A i \in Span(drd[f], told[f], TXITEMS) :
                           /\ desc[f][i].id \in busy
                           /\ f \notin misphased
                                => desc[f][i].phase = FlowExpected(i, drd[f], lap[f], even)
                      /\ txat[f] = "rest" => told[f] = txring[f].wr
    BY DEF DescriptorsCurrent
  <2>1. /\ txring[f].rd \in Slots /\ txring[f].wr \in Slots /\ drd[f] \in Slots
        /\ told[f] \in Slots /\ InOrder(txring[f].rd, drd[f], told[f], txring[f].wr)
    BY DEF RingInv, MsgTxTypes, RingRecord, RingOrdered
  <2>2. Span(drd[f], told[f], TXITEMS) \subseteq Unread(f)
    <3>1. Dist(drd[f], told[f]) + Dist(told[f], txring[f].wr) = Dist(drd[f], txring[f].wr)
      BY <2>1, OrderSeen
    <3> QED
      BY <2>1, <3>1, SpanTold DEF Unread
  <2>3. \A i \in Unread(f) : desc[f][i].id \in busy
    BY DEF PktidOwned, PostedIds
  <2> QED
    BY <2>2, <2>3 DEF DescInv, PhasesAgree, ToldAtRest
<1> QED
  BY <1>1, <1>2, OwnedInit, RingInvKept, OwnedKept, DescKept, PTL DEF MsgTxSpec

(***************************************************************************)
(* The receive buffers.                                                    *)
(***************************************************************************)
RxSlots == 0 .. RXITEMS - 1
RxAfter(i) == IF i = RXITEMS - 1 THEN 0 ELSE i + 1
RxDist(a, b) == IF a <= b THEN b - a ELSE b - a + RXITEMS
\* The slot k further on, as far as the first slot of the next lap.
RxMoved(w, k) == IF w + k = RXITEMS THEN 0 ELSE w + k
RxRing == [wr : RxSlots, rd : RxSlots, phase : 0 .. 1]
RxNextPhase(ring) == IF ring.wr = 0 THEN 1 - ring.phase ELSE ring.phase

RxTypes ==
  /\ rxat \in {"rest", "post"} /\ rxshort \in BOOLEAN
  /\ rxbufpost \in 0 .. MAX_RXBUFPOST
  /\ rxring \in RxRing /\ rxdrd \in RxSlots /\ rxlap \in 0 .. 1
  /\ rxdesc \in [RxSlots -> [id : RxPktid \cup {NoId}, phase : 0 .. 1]]
  /\ rxbusy \subseteq RxPktid /\ rxheld \subseteq RxPktid /\ rxcpl \subseteq RxPktid

\* A buffer is in one place and in one slot.
BuffersApart ==
  /\ \A i \in RxUnread : rxdesc[i].id \in rxbusy \ (rxheld \cup rxcpl)
  /\ \A i, j \in RxUnread : rxdesc[i].id = rxdesc[j].id => i = j
  /\ rxheld \cap rxcpl = {}

\* The lap of the next item is the one the dongle will be on there.
RxNextAgrees == RxNextPhase(rxring) = Expected(rxring.wr, rxdrd, rxlap)

RxInv == RxTypes /\ BuffersApart /\ RxNextAgrees /\ RxProvisioned

LEMMA RxNumbers ==
  /\ RXITEMS \in Nat /\ RXITEMS > 1
  /\ MAX_RXBUFPOST \in Nat /\ MAX_RXBUFPOST < RXITEMS
  /\ RX_BUF_BURST \in Nat /\ RX_BUF_BURST >= 1 /\ RX_BUF_BURST <= MAX_RXBUFPOST
  /\ RX_THRESHOLD \in Nat /\ RX_THRESHOLD >= 1
  /\ NoId \notin RxPktid
<1>1. RXITEMS \in Nat \ {0} /\ MAX_RXBUFPOST \in Nat \ {0}
      /\ RX_BUF_BURST \in Nat \ {0} /\ RX_THRESHOLD \in Nat \ {0}
  BY RxAssumption
<1> QED
  BY <1>1, RxAssumption

LEMMA MaxOfTwo == \A a, b \in Int : Max({a, b}) = IF a >= b THEN a ELSE b
<1>1. ASSUME NEW a \in Int, NEW b \in Int PROVE Max({a, b}) = IF a >= b THEN a ELSE b
  <2>1. \E x \in {a, b} : \A y \in {a, b} : x >= y
    BY <1>1
  <2>2. Max({a, b}) \in {a, b} /\ \A y \in {a, b} : Max({a, b}) >= y
    BY <2>1, Zenon DEF Max
  <2> QED
    BY <2>2
<1> QED
  BY <1>1

\* Sets of buffers can be counted.
LEMMA RxFinite ==
  ASSUME NEW S, S \subseteq RxPktid
  PROVE  IsFiniteSet(S) /\ Cardinality(S) \in Nat
  BY RxAssumption, FS_Subset, FS_CardinalityType

\* The slots from one to another are as many as the distance says.
LEMMA RxSpanSize ==
  ASSUME NEW q \in RxSlots, NEW w \in RxSlots
  PROVE  /\ Span(q, w, RXITEMS) \subseteq RxSlots
         /\ IsFiniteSet(Span(q, w, RXITEMS))
         /\ Cardinality(Span(q, w, RXITEMS)) = RxDist(q, w)
         /\ RxDist(q, w) \in Nat
<1>0. RXITEMS \in Nat /\ q \in Int /\ w \in Int /\ 0 \in Int /\ w - 1 \in Int /\ RXITEMS - 1 \in Int
  BY RxNumbers DEF RxSlots
<1>1. CASE q <= w
  <2>1. Span(q, w, RXITEMS) = q .. w - 1
    BY <1>1 DEF Span
  <2>2. IsFiniteSet(q .. w - 1)
        /\ Cardinality(q .. w - 1) = IF q > w - 1 THEN 0 ELSE w - 1 - q + 1
    BY <1>0, FS_Interval
  <2>3. RxDist(q, w) = w - q
    BY <1>1 DEF RxDist
  <2>4. q .. w - 1 \subseteq RxSlots
    BY <1>0, <1>1, RxNumbers DEF RxSlots
  <2> QED
    BY <2>1, <2>2, <2>3, <2>4, <1>0, <1>1
<1>2. CASE w < q
  <2>1. Span(q, w, RXITEMS) = (q .. RXITEMS - 1) \cup (0 .. w - 1)
    BY <1>0, <1>2 DEF Span
  <2>2. IsFiniteSet(q .. RXITEMS - 1)
        /\ Cardinality(q .. RXITEMS - 1) = IF q > RXITEMS - 1 THEN 0 ELSE RXITEMS - 1 - q + 1
    BY <1>0, FS_Interval
  <2>3. IsFiniteSet(0 .. w - 1)
        /\ Cardinality(0 .. w - 1) = IF 0 > w - 1 THEN 0 ELSE w - 1 - 0 + 1
    BY <1>0, FS_Interval
  <2>4. (q .. RXITEMS - 1) \cap (0 .. w - 1) = {}
    BY <1>0, <1>2
  <2>5. Cardinality((q .. RXITEMS - 1) \cap (0 .. w - 1)) = 0
    BY <2>4, FS_EmptySet
  <2>6. /\ IsFiniteSet((q .. RXITEMS - 1) \cup (0 .. w - 1))
        /\ Cardinality((q .. RXITEMS - 1) \cup (0 .. w - 1))
             = Cardinality(q .. RXITEMS - 1) + Cardinality(0 .. w - 1)
               - Cardinality((q .. RXITEMS - 1) \cap (0 .. w - 1))
    BY <2>2, <2>3, FS_Union
  <2>7. q <= RXITEMS - 1 /\ 0 <= w
    BY RxNumbers DEF RxSlots
  <2>8. RxDist(q, w) = w - q + RXITEMS
    BY <1>0, <1>2 DEF RxDist
  <2>9. (q .. RXITEMS - 1) \cup (0 .. w - 1) \subseteq RxSlots
    BY <1>0, <2>7 DEF RxSlots
  <2>10. Cardinality(q .. RXITEMS - 1) = RXITEMS - q
    BY <2>2, <2>7, <1>0
  <2>11. Cardinality(0 .. w - 1) = w
    BY <2>3, <2>7, <1>0
  <2> QED
    BY <2>1, <2>5, <2>6, <2>7, <2>8, <2>9, <2>10, <2>11, <1>0
<1> QED
  BY <1>0, <1>1, <1>2

\* Slots written after the last one, and the one read first.
LEMMA RxSpanMore ==
  ASSUME NEW q \in RxSlots, NEW w \in RxSlots, NEW k \in Nat,
         RxDist(q, w) + k <= RXITEMS - 1, w + k <= RXITEMS
  PROVE  /\ RxMoved(w, k) \in RxSlots
         /\ Span(q, RxMoved(w, k), RXITEMS) = Span(q, w, RXITEMS) \cup (w .. w + k - 1)
         /\ Span(q, w, RXITEMS) \cap (w .. w + k - 1) = {}
         /\ RxDist(q, RxMoved(w, k)) = RxDist(q, w) + k
<1>1. CASE w + k < RXITEMS /\ q <= w
  BY <1>1, RxNumbers DEF RxSlots, RxDist, RxMoved, Span
<1>2. CASE w + k < RXITEMS /\ w < q
  BY <1>2, RxNumbers DEF RxSlots, RxDist, RxMoved, Span
<1>3. CASE w + k = RXITEMS
  BY <1>3, RxNumbers DEF RxSlots, RxDist, RxMoved, Span
<1> QED
  BY <1>1, <1>2, <1>3, RxNumbers DEF RxSlots

LEMMA RxSpanLess ==
  ASSUME NEW q \in RxSlots, NEW w \in RxSlots, q /= w
  PROVE  /\ RxAfter(q) \in RxSlots /\ (q + 1) % RXITEMS = RxAfter(q)
         /\ q \in Span(q, w, RXITEMS)
         /\ Span(RxAfter(q), w, RXITEMS) = Span(q, w, RXITEMS) \ {q}
         /\ RxDist(RxAfter(q), w) = RxDist(q, w) - 1
<1>1. CASE q = RXITEMS - 1
  <2>1. RxAfter(q) = 0 /\ (q + 1) % RXITEMS = 0
    BY <1>1, RxNumbers DEF RxAfter
  <2> QED
    BY <1>1, <2>1, RxNumbers DEF RxSlots, RxDist, Span
<1>2. CASE q /= RXITEMS - 1
  <2>1. RxAfter(q) = q + 1 /\ q + 1 < RXITEMS /\ (q + 1) % RXITEMS = q + 1
    BY <1>2, RxNumbers DEF RxAfter, RxSlots
  <2>2. CASE q < w
    BY <2>1, <2>2, RxNumbers DEF RxSlots, RxDist, Span
  <2>3. CASE w < q
    BY <2>1, <2>3, RxNumbers DEF RxSlots, RxDist, Span
  <2> QED
    BY <2>1, <2>2, <2>3, RxNumbers DEF RxSlots
<1> QED
  BY <1>1, <1>2

\* Giving back the end of an allocation leaves what a smaller one would have
\* made, on either side of the seam.
LEMMA RxGivenBack ==
  ASSUME NEW ring \in RxRing, NEW s \in Nat, NEW k \in Nat, k <= s,
         ring.wr + s <= RXITEMS, s < RXITEMS
  PROVE  (IF k < s THEN RolledBack(Allocated(ring, s, RXITEMS), s - k, RXITEMS)
          ELSE Allocated(ring, s, RXITEMS))
           = [wr |-> RxMoved(ring.wr, k), rd |-> ring.rd,
              phase |-> IF k > 0 THEN RxNextPhase(ring) ELSE ring.phase]
<1> DEFINE a == [wr |-> RxMoved(ring.wr, s), rd |-> ring.rd,
                 phase |-> IF s > 0 THEN RxNextPhase(ring) ELSE ring.phase]
<1>0. ring = [wr |-> ring.wr, rd |-> ring.rd, phase |-> ring.phase]
      /\ ring.wr \in RxSlots /\ ring.phase \in 0 .. 1
  BY DEF RxRing
<1>1. Allocated(ring, s, RXITEMS) = a
  <2>1. (ring.wr + s) % RXITEMS = RxMoved(ring.wr, s)
    <3>1. CASE ring.wr + s = RXITEMS
      BY <3>1, RxNumbers DEF RxMoved
    <3>2. CASE ring.wr + s < RXITEMS
      BY <3>2, <1>0, RxNumbers DEF RxMoved, RxSlots
    <3> QED
      BY <3>1, <3>2, <1>0, RxNumbers DEF RxSlots
  <2>2. (IF s > 0 /\ ring.wr = 0 THEN 1 - ring.phase ELSE ring.phase) = a.phase
    BY <1>0 DEF RxNextPhase
  <2>3. Allocated(ring, s, RXITEMS) = [ring EXCEPT !.wr = RxMoved(ring.wr, s), !.phase = a.phase]
    BY <2>1, <2>2 DEF Allocated
  <2> QED
    BY <2>3, <1>0
<1>2. CASE k = s
  BY <1>1, <1>2
<1>3. CASE k < s
  <2>0. a.wr = RxMoved(ring.wr, s) /\ a.rd = ring.rd /\ a.phase = RxNextPhase(ring)
    BY <1>3
  <2>1. (IF a.wr < s - k THEN RXITEMS - (s - k) ELSE a.wr - (s - k)) = ring.wr + k
    BY <1>0, <1>3, <2>0, RxNumbers DEF RxMoved, RxSlots
  <2>2. RxMoved(ring.wr, k) = ring.wr + k
    BY <1>0, <1>3, RxNumbers DEF RxMoved, RxSlots
  <2>3. (IF ring.wr + k /= 0 THEN a.phase ELSE IF a.phase = 0 THEN 1 ELSE 0)
          = IF k > 0 THEN RxNextPhase(ring) ELSE ring.phase
    BY <1>0, <2>0, RxNumbers DEF RxNextPhase, RxSlots
  <2>4. RolledBack(a, s - k, RXITEMS)
          = [a EXCEPT !.wr = ring.wr + k,
                      !.phase = IF k > 0 THEN RxNextPhase(ring) ELSE ring.phase]
    <3> HIDE DEF a
    <3> QED
      BY <2>1, <2>3 DEF RolledBack
  <2> QED
    BY <1>1, <1>3, <2>2, <2>4
<1> QED
  BY <1>2, <1>3

\* What a burst may write, and the ring it looks at.
RxGrant(ring, have) == Granted(ring, have, TRUE, RXITEMS)
RxSeen(have) == Refreshed(rxring, rxdrd, have, TRUE, RXITEMS)

\* What is granted ends at the end of the ring at the latest.
LEMMA RxGranted ==
  ASSUME NEW ring \in RxRing, NEW have \in Nat
  PROVE  /\ Granted(ring, have, TRUE, RXITEMS) \in 0 .. have
         /\ ring.wr + Granted(ring, have, TRUE, RXITEMS) <= RXITEMS
         /\ Granted(ring, have, TRUE, RXITEMS) < RXITEMS
<1> DEFINE room == WriteSpaceFrom(ring.rd, ring.wr, RXITEMS)
<1>1. ring.wr \in RxSlots /\ ring.rd \in RxSlots
  BY DEF RxRing
<1>2. room \in Nat /\ ring.wr + room <= RXITEMS /\ room < RXITEMS
  BY <1>1, RxNumbers DEF RxSlots, WriteSpaceFrom
<1>3. Min({have, room}) = IF have <= room THEN have ELSE room
  BY <1>2, MinOfTwo
<1>4. Granted(ring, have, TRUE, RXITEMS) \in {0, Min({have, room})}
  BY DEF Granted
<1> DEFINE g == Granted(ring, have, TRUE, RXITEMS)
<1>5. g = 0 \/ g = (IF have <= room THEN have ELSE room)
  BY <1>3, <1>4
<1> HIDE DEF room, g
<1>6. g \in 0 .. have /\ ring.wr + g <= RXITEMS /\ g < RXITEMS
  BY <1>1, <1>2, <1>5, RxNumbers DEF RxSlots
<1> QED
  BY <1>6 DEF g

\* With room for "have" items as far as the dongle has read, some are granted.
LEMMA RxSomeGranted ==
  ASSUME NEW ring \in RxRing, NEW q \in RxSlots, NEW have \in Nat, have >= 1,
         RxDist(q, ring.wr) + have <= RXITEMS - 1
  PROVE  Granted(Refreshed(ring, q, have, TRUE, RXITEMS), have, TRUE, RXITEMS) >= 1
<1>1. CASE Granted(ring, have, TRUE, RXITEMS) /= 0
  <2>1. Refreshed(ring, q, have, TRUE, RXITEMS) = ring
    BY <1>1 DEF Refreshed
  <2>2. Granted(ring, have, TRUE, RXITEMS) \in 0 .. have
    BY RxGranted
  <2>3. Granted(ring, have, TRUE, RXITEMS) >= 1
    <3> DEFINE g == Granted(ring, have, TRUE, RXITEMS)
    <3>1. g /= 0 /\ g \in 0 .. have
      BY <1>1, <2>2
    <3> HIDE DEF g
    <3>2. g >= 1
      BY <3>1
    <3> QED
      BY <3>2 DEF g
  <2> QED
    BY <2>1, <2>3
<1>2. CASE Granted(ring, have, TRUE, RXITEMS) = 0
  <2> DEFINE new == [ring EXCEPT !.rd = q]
             room == WriteSpaceFrom(q, ring.wr, RXITEMS)
  <2>1. Refreshed(ring, q, have, TRUE, RXITEMS) = new
    BY <1>2 DEF Refreshed
  <2>2. ring.wr \in RxSlots /\ new.wr = ring.wr /\ new.rd = q
    BY DEF RxRing
  <2>3. room \in Nat /\ room >= 1 /\ (room < have => RXITEMS - ring.wr < have)
    BY <2>2, RxNumbers DEF RxSlots, WriteSpaceFrom, RxDist
  <2>4. Min({have, room}) >= 1
    <3> HIDE DEF room
    <3> QED
      BY <2>3, MinOfTwo
  <2>5. ~(room < have /\ RXITEMS - ring.wr >= have)
    <3> HIDE DEF room
    <3> QED
      BY <2>2, <2>3, RxNumbers DEF RxSlots
  <2>6. Granted(new, have, TRUE, RXITEMS) = Min({have, room})
    <3> HIDE DEF new
    <3> QED
      BY <2>2, <2>5 DEF Granted
  <2> HIDE DEF room
  <2> QED
    BY <2>1, <2>4, <2>6
<1> QED
  BY <1>1, <1>2
(***************************************************************************)
(* The receive ring, step by step.                                         *)
(***************************************************************************)
\* What a burst makes of the ring: n slots are written in all.
LEMMA RxBurstRing ==
  ASSUME RxTypes, NEW have \in 0 .. RX_BUF_BURST, NEW ring, NEW slots, NEW n \in Nat,
         ring = RxSeen(have),
         slots = RxGrant(ring, have), n <= slots,
         rxring' = IF have = 0 THEN rxring
                   ELSE IF n < slots
                        THEN RolledBack(Allocated(ring, slots, RXITEMS), slots - n, RXITEMS)
                        ELSE Allocated(ring, slots, RXITEMS)
  PROVE  /\ slots \in 0 .. have /\ rxring.wr + slots <= RXITEMS
         /\ ring \in RxRing /\ ring.wr = rxring.wr /\ ring.phase = rxring.phase
         /\ slots > 0 => Allocated(ring, slots, RXITEMS).phase = RxNextPhase(rxring)
         /\ rxring'.wr = RxMoved(rxring.wr, n)
         /\ rxring'.phase = IF n > 0 THEN RxNextPhase(rxring) ELSE rxring.phase
         /\ rxring' \in RxRing
<1>0. /\ rxring \in RxRing /\ rxdrd \in RxSlots /\ have \in Nat
      /\ rxring.wr \in RxSlots /\ rxring.phase \in 0 .. 1
  BY RxNumbers DEF RxTypes, RxRing
<1>1. ring \in RxRing /\ ring.wr = rxring.wr /\ ring.phase = rxring.phase
  BY <1>0 DEF Refreshed, RxRing, RxSeen
<1>2. slots \in 0 .. have /\ rxring.wr + slots <= RXITEMS /\ slots < RXITEMS
  BY <1>0, <1>1, RxGranted DEF RxGrant
<1>3. RxNextPhase(ring) = RxNextPhase(rxring) /\ RxNextPhase(rxring) \in 0 .. 1
  BY <1>0, <1>1 DEF RxNextPhase
<1>4. slots > 0 => Allocated(ring, slots, RXITEMS).phase = RxNextPhase(rxring)
  BY <1>0, <1>1 DEF Allocated, RxNextPhase, RxRing
<1>5. CASE have = 0
  <2>1. n = 0 /\ rxring' = rxring
    BY <1>2, <1>5
  <2>2. RxMoved(rxring.wr, 0) = rxring.wr
    BY <1>0, RxNumbers DEF RxMoved, RxSlots
  <2> QED
    BY <1>0, <1>1, <1>2, <1>4, <2>1, <2>2
<1>6. CASE have /= 0
  <2> DEFINE new == [wr |-> RxMoved(ring.wr, n), rd |-> ring.rd,
                     phase |-> IF n > 0 THEN RxNextPhase(ring) ELSE ring.phase]
  <2>1. rxring' = new
    BY <1>1, <1>2, <1>6, RxGivenBack
  <2>2. RxMoved(rxring.wr, n) \in RxSlots
    BY <1>0, <1>2, RxNumbers DEF RxMoved, RxSlots
  <2>3. new.wr \in RxSlots /\ new.rd \in RxSlots /\ new.phase \in 0 .. 1
    BY <1>0, <1>1, <1>3, <2>2 DEF RxRing
  <2>4. new \in RxRing
    BY <2>3 DEF RxRing
  <2>5. new.wr = RxMoved(rxring.wr, n)
        /\ new.phase = IF n > 0 THEN RxNextPhase(rxring) ELSE rxring.phase
    BY <1>1, <1>3
  <2> HIDE DEF new
  <2> QED
    BY <1>1, <1>2, <1>4, <2>1, <2>4, <2>5
<1> QED
  BY <1>5, <1>6

LEMMA RxBurstGrants ==
  ASSUME RxTypes, NEW have \in Nat
  PROVE  RxGrant(RxSeen(have), have) \in 0 .. have
<1>1. RxSeen(have) \in RxRing
  BY DEF Refreshed, RxRing, RxTypes, RxSeen
<1> QED
  BY <1>1, RxGranted DEF RxGrant

\* The ids of a burst of n buffers, written in some order.
RxWrites(n, ids, order) ==
  /\ n \in Nat /\ ids \in SUBSET (RxPktid \ rxbusy) /\ order \in [0 .. n - 1 -> ids]
  /\ rxbufpost + n <= MAX_RXBUFPOST /\ rxring.wr + n <= RXITEMS
  /\ Cardinality(ids) = n /\ {order[k] : k \in 0 .. n - 1} = ids
  /\ \A j, k \in 0 .. n - 1 : order[j] = order[k] => j = k
  /\ rxring' \in RxRing /\ rxring'.wr = RxMoved(rxring.wr, n)
  /\ rxring'.phase = IF n > 0 THEN RxNextPhase(rxring) ELSE rxring.phase
  /\ rxdesc' = [i \in RxSlots |->
       IF i - rxring.wr \in 0 .. n - 1
       THEN [id |-> order[i - rxring.wr], phase |-> RxNextPhase(rxring)] ELSE rxdesc[i]]
  /\ rxbusy' = rxbusy \cup ids /\ rxbufpost' = rxbufpost + n
  /\ rxtold' = rxring'.wr
  /\ rxat' = IF n > 0 THEN "post" ELSE "rest"
  /\ rxshort' \in BOOLEAN /\ (n = 0 => rxshort')
  /\ UNCHANGED <<rxdrd, rxlap, rxheld, rxcpl>>

\* As many different ids as slots are written, into the slots after the last
\* one; none only for want of buffers or ids.
LEMMA RxBurstMakes ==
  ASSUME RxInv, NEW have \in 0 .. RX_BUF_BURST, RxBurst(have)
  PROVE  \E n, ids, order : RxWrites(n, ids, order)
<1> DEFINE count == Min({Fill, RX_BUF_BURST})
           ring == RxSeen(have)
           slots == RxGrant(ring, have)
           got == Allocated(ring, slots, RXITEMS)
           free == RxPktid \ rxbusy
           n == Min({slots, Cardinality(free)})
<1>1. /\ Fill >= RX_BUF_BURST /\ have <= count
      /\ rxring' = IF have = 0 THEN rxring
                   ELSE IF n < slots THEN RolledBack(got, slots - n, RXITEMS) ELSE got
      /\ rxtold' = IF n > 0 THEN rxring'.wr ELSE rxtold
      /\ rxbufpost' = rxbufpost + n
      /\ rxat' = IF n > 0 THEN "post" ELSE "rest"
      /\ rxshort' = (n = 0 /\ (have = 0 \/ free = {}))
      /\ UNCHANGED <<rxdrd, rxlap, rxheld, rxcpl>>
  BY Zenon DEF RxBurst, RxGrant, RxSeen
<1>2. PICK ids \in kSubset(n, free) :
        /\ rxbusy' = rxbusy \cup ids
        /\ \E order \in [0 .. n - 1 -> ids] :
             /\ {order[k] : k \in 0 .. n - 1} = ids
             /\ rxdesc' = [i \in DOMAIN rxdesc |->
                  IF i - ring.wr \in 0 .. n - 1
                  THEN [id |-> order[i - ring.wr], phase |-> got.phase] ELSE rxdesc[i]]
  BY Zenon DEF RxBurst, RxGrant, RxSeen
<1>3. PICK order \in [0 .. n - 1 -> ids] :
        /\ {order[k] : k \in 0 .. n - 1} = ids
        /\ rxdesc' = [i \in DOMAIN rxdesc |->
             IF i - ring.wr \in 0 .. n - 1
             THEN [id |-> order[i - ring.wr], phase |-> got.phase] ELSE rxdesc[i]]
  BY <1>2
<1>4. /\ RxTypes /\ DOMAIN rxdesc = RxSlots /\ have \in Nat
      /\ rxring \in RxRing /\ rxring.wr \in RxSlots /\ rxdrd \in RxSlots
      /\ rxbufpost \in 0 .. MAX_RXBUFPOST /\ Fill \in Nat /\ Fill = MAX_RXBUFPOST - rxbufpost
  BY RxNumbers DEF RxInv, RxTypes, RxRing, Fill
<1>5. ids \subseteq free /\ Cardinality(ids) = n
  BY <1>2 DEF kSubset
<1>6. IsFiniteSet(free) /\ Cardinality(free) \in Nat /\ IsFiniteSet(ids)
      /\ (free /= {} => Cardinality(free) >= 1)
  <2>1. IsFiniteSet(free) /\ Cardinality(free) \in Nat /\ IsFiniteSet(ids)
    BY <1>5, RxFinite
  <2>2. Cardinality(free) = 0 <=> free = {}
    BY <2>1, FS_EmptySet
  <2> HIDE DEF free
  <2> QED
    BY <2>1, <2>2
<1>7. slots \in 0 .. have
  BY <1>4, RxBurstGrants
<1>8. n \in Nat /\ n <= slots /\ n = IF slots <= Cardinality(free) THEN slots ELSE Cardinality(free)
  <2>1. n = IF slots <= Cardinality(free) THEN slots ELSE Cardinality(free)
    BY <1>6, <1>7, MinOfTwo
  <2> HIDE DEF n, slots, free
  <2> QED
    BY <1>6, <1>7, <2>1, <1>4
<1>9. /\ rxring.wr + slots <= RXITEMS /\ ring.wr = rxring.wr
      /\ slots > 0 => got.phase = RxNextPhase(rxring)
      /\ rxring'.wr = RxMoved(rxring.wr, n)
      /\ rxring'.phase = IF n > 0 THEN RxNextPhase(rxring) ELSE rxring.phase
      /\ rxring' \in RxRing
  <2> HIDE DEF n
  <2> QED
    BY <1>1, <1>4, <1>8, RxBurstRing
<1>10. count <= RX_BUF_BURST /\ count <= Fill
  BY <1>4, RxNumbers, MinOfTwo
<1>11. ASSUME n = 0 PROVE rxshort'
  <2>1. SUFFICES ASSUME have /= 0, free /= {} PROVE FALSE
    BY <1>1, <1>11
  <2>2. RxDist(rxdrd, rxring.wr) + have <= RXITEMS - 1
    <3>1. RxDist(rxdrd, rxring.wr) = Cardinality(RxUnread) /\ RxDist(rxdrd, rxring.wr) \in Nat
      BY <1>4, RxSpanSize DEF RxUnread
    <3>2. rxbufpost = Cardinality(RxUnread) + Cardinality(rxheld) + Cardinality(rxcpl)
      BY DEF RxInv, RxProvisioned
    <3>3. Cardinality(rxheld) \in Nat /\ Cardinality(rxcpl) \in Nat
      BY RxFinite DEF RxInv, RxTypes
    <3> HIDE DEF count
    <3> QED
      BY <1>1, <1>4, <1>10, <3>1, <3>2, <3>3, RxNumbers
  <2>3. have >= 1
    BY <1>4, <2>1
  <2>4. slots >= 1
    BY <1>4, <2>2, <2>3, RxSomeGranted DEF RxGrant, RxSeen
  <2>5. Cardinality(free) >= 1
    BY <1>6, <2>1
  <2> HIDE DEF n, slots, free
  <2> QED
    BY <1>8, <1>11, <2>4, <2>5
<1>12. rxbufpost + n <= MAX_RXBUFPOST /\ rxring.wr + n <= RXITEMS
  <2>1. have <= Fill /\ n <= have /\ n \in Nat /\ have \in Nat /\ slots \in Nat
    <3>1. have <= count /\ count <= Fill
      BY <1>1, <1>10
    <3>2. count \in Int /\ Fill \in Int
      BY <1>4, RxNumbers, MinOfTwo
    <3>3. have \in Nat /\ slots \in 0 .. have
      BY <1>4, <1>7
    <3>4. n \in Nat /\ n <= slots
      BY <1>8
    <3> HIDE DEF n, slots, count
    <3>5. have <= Fill
      BY <3>1, <3>2, <3>3
    <3> QED
      BY <3>3, <3>4, <3>5
  <2>2. rxbufpost \in Nat /\ Fill = MAX_RXBUFPOST - rxbufpost /\ rxring.wr \in Nat
    BY <1>4, RxNumbers DEF RxSlots
  <2>3. n <= slots /\ rxring.wr + slots <= RXITEMS
    BY <1>8, <1>9
  <2> HIDE DEF n, slots, count
  <2> QED
    BY <2>1, <2>2, <2>3, RxNumbers
<1>13. \A j, k \in 0 .. n - 1 : order[j] = order[k] => j = k
  <2> HIDE DEF n
  <2>1. IsFiniteSet(0 .. n - 1) /\ Cardinality(0 .. n - 1) = n
    <3>1. 0 \in Int /\ n - 1 \in Int
      BY <1>8
    <3>2. IsFiniteSet(0 .. n - 1)
          /\ Cardinality(0 .. n - 1) = IF 0 > n - 1 THEN 0 ELSE n - 1 - 0 + 1
      BY <3>1, FS_Interval
    <3> QED
      BY <1>8, <3>2
  <2>2. order \in Surjection(0 .. n - 1, ids)
    BY <1>3 DEF Surjection
  <2>3. order \in Injection(0 .. n - 1, ids)
    BY <1>5, <2>1, <2>2, FS_SurjSameCardinalityImpliesInj
  <2> QED
    BY <2>3 DEF Injection, IsInjective
<1>14. rxdesc' = [i \in RxSlots |->
                IF i - rxring.wr \in 0 .. n - 1
                THEN [id |-> order[i - rxring.wr], phase |-> RxNextPhase(rxring)]
                ELSE rxdesc[i]]
  <2> HIDE DEF n, slots, got, ring
  <2>1. CASE slots > 0
    BY <1>3, <1>4, <1>9, <2>1
  <2>2. CASE slots = 0
    <3>1. n = 0
      <4> HIDE DEF free
      <4> QED
        BY <1>8, <2>2
    <3>2. 0 .. n - 1 = {}
      BY <3>1
    <3> QED
      BY <1>3, <1>4, <1>9, <3>2
  <2> QED
    BY <1>4, <1>7, <2>1, <2>2
<1>15. rxtold' = rxring'.wr
  <2>1. rxtold = rxring.wr
    BY DEF RxInv, RxProvisioned
  <2>2. n = 0 => RxMoved(rxring.wr, n) = rxring.wr
    BY <1>4, RxNumbers DEF RxMoved, RxSlots
  <2> HIDE DEF n
  <2> QED
    BY <1>1, <1>8, <1>9, <2>1, <2>2
<1>16. rxshort' \in BOOLEAN
  BY <1>1
<1>17. ids \in SUBSET (RxPktid \ rxbusy)
  BY <1>5
<1>18. n \in Nat
  BY <1>8, Zenon
<1> HIDE DEF n, slots, got, ring, free, count
<1>19. RxWrites(n, ids, order)
  BY <1>1, <1>2, <1>3, <1>5, <1>9, <1>11, <1>12, <1>13, <1>14, <1>15, <1>16, <1>17, <1>18
     DEF RxWrites
<1> QED
  BY <1>19
LEMMA RxPhaseMore ==
  ASSUME NEW q \in RxSlots, NEW w \in RxSlots, NEW k \in Nat, NEW l \in 0 .. 1,
         RxDist(q, w) + k <= RXITEMS - 1, w + k <= RXITEMS
  PROVE  /\ \A i \in w .. w + k - 1 : Expected(i, q, l) = Expected(w, q, l)
         /\ Expected(RxMoved(w, k), q, l)
              = IF k > 0 /\ RxMoved(w, k) = 0 THEN 1 - Expected(w, q, l) ELSE Expected(w, q, l)
<1>1. CASE w + k < RXITEMS
  BY <1>1, RxNumbers DEF RxSlots, RxDist, RxMoved, Expected
<1>2. CASE w + k = RXITEMS
  BY <1>2, RxNumbers DEF RxSlots, RxDist, RxMoved, Expected
<1> QED
  BY <1>1, <1>2, RxNumbers DEF RxSlots

LEMMA RxPhaseLess ==
  ASSUME NEW q \in RxSlots, NEW l \in 0 .. 1
  PROVE  /\ NextLap(q, l, RXITEMS) \in 0 .. 1
         /\ \A i \in RxSlots \ {q} :
              Expected(i, RxAfter(q), NextLap(q, l, RXITEMS)) = Expected(i, q, l)
<1>1. CASE q = RXITEMS - 1
  BY <1>1, RxNumbers DEF RxSlots, RxAfter, Expected, NextLap
<1>2. CASE q /= RXITEMS - 1
  BY <1>2, RxNumbers DEF RxSlots, RxAfter, Expected, NextLap
<1> QED
  BY <1>1, <1>2

LEMMA RxInvInit == RxInit => RxInv
<1> SUFFICES ASSUME RxInit PROVE RxInv
  OBVIOUS
<1>1. /\ rxat = "post" /\ rxbufpost = 0 /\ rxbusy = {} /\ rxshort = FALSE
      /\ rxring = [wr |-> 0, rd |-> 0, phase |-> 0] /\ rxtold = 0
      /\ rxdesc = [i \in RxSlots |-> [id |-> NoId, phase |-> 0]]
      /\ rxdrd = 0 /\ rxlap = 1 /\ rxheld = {} /\ rxcpl = {}
  BY DEF RxInit, NewRing, Blank, RxSlots
<1>2. RxTypes
  <2>1. 0 \in RxSlots /\ 0 \in 0 .. 1 /\ 1 \in 0 .. 1 /\ 0 \in 0 .. MAX_RXBUFPOST
    BY RxNumbers DEF RxSlots
  <2>2. rxring \in RxRing
    BY <1>1, <2>1 DEF RxRing
  <2>3. [id |-> NoId, phase |-> 0] \in [id : RxPktid \cup {NoId}, phase : 0 .. 1]
    BY <2>1
  <2>4. rxdesc \in [RxSlots -> [id : RxPktid \cup {NoId}, phase : 0 .. 1]]
    BY <1>1, <2>3
  <2> QED
    BY <1>1, <2>1, <2>2, <2>4 DEF RxTypes
<1>3. RxUnread = {}
  BY <1>1, RxNumbers DEF RxUnread, Span
<1>4. BuffersApart
  BY <1>1, <1>3 DEF BuffersApart
<1>5. RxNextAgrees
  BY <1>1 DEF RxNextAgrees, RxNextPhase, Expected
<1>6. Cardinality({}) = 0
  BY FS_EmptySet
<1>7. RxProvisioned
  <2>1. rxbufpost = Cardinality(rxbusy)
    BY <1>1, <1>6
  <2>2. rxbufpost = Cardinality(RxUnread) + Cardinality(rxheld) + Cardinality(rxcpl)
    BY <1>1, <1>3, <1>6
  <2>3. rxbusy = {rxdesc[i].id : i \in RxUnread} \cup rxheld \cup rxcpl
    BY <1>1, <1>3
  <2>4. rxtold = rxring.wr /\ rxat /= "rest"
    BY <1>1
  <2> QED
    BY <1>3, <2>1, <2>2, <2>3, <2>4 DEF RxProvisioned
<1> QED
  BY <1>2, <1>4, <1>5, <1>7 DEF RxInv

\* What is known before a step.
LEMMA RxKnown ==
  ASSUME RxInv
  PROVE  /\ rxring \in RxRing /\ rxring.wr \in RxSlots /\ rxring.phase \in 0 .. 1
         /\ rxdrd \in RxSlots /\ rxlap \in 0 .. 1 /\ rxtold = rxring.wr
         /\ rxbufpost \in 0 .. MAX_RXBUFPOST
         /\ RxUnread \subseteq RxSlots
         /\ IsFiniteSet(RxUnread) /\ Cardinality(RxUnread) = RxDist(rxdrd, rxring.wr)
         /\ RxDist(rxdrd, rxring.wr) \in Nat
         /\ IsFiniteSet(rxheld) /\ Cardinality(rxheld) \in Nat
         /\ IsFiniteSet(rxcpl) /\ Cardinality(rxcpl) \in Nat
         /\ IsFiniteSet(rxbusy)
         /\ rxbufpost = Cardinality(rxbusy)
         /\ rxbufpost = Cardinality(RxUnread) + Cardinality(rxheld) + Cardinality(rxcpl)
         /\ rxbusy = {rxdesc[i].id : i \in RxUnread} \cup rxheld \cup rxcpl
         /\ \A i \in RxUnread : rxdesc[i].phase = Expected(i, rxdrd, rxlap)
         /\ rxheld \subseteq RxPktid /\ rxcpl \subseteq RxPktid /\ rxbusy \subseteq RxPktid
<1>1. RxTypes /\ RxProvisioned
  BY DEF RxInv
<1>2. rxring \in RxRing /\ rxring.wr \in RxSlots /\ rxring.phase \in 0 .. 1 /\ rxdrd \in RxSlots
      /\ rxheld \subseteq RxPktid /\ rxcpl \subseteq RxPktid /\ rxbusy \subseteq RxPktid
  BY <1>1 DEF RxTypes, RxRing
<1> QED
  BY <1>1, <1>2, RxSpanSize, RxFinite DEF RxTypes, RxProvisioned, RxUnread

\* The host at rest has posted all but a burst or the threshold.
RxRested == rxat = "rest" /\ ~rxshort => Fill < Max({RX_BUF_BURST, RX_THRESHOLD})

LEMMA RxBurstKept ==
  ASSUME RxInv, NEW have \in 0 .. RX_BUF_BURST, RxBurst(have)
  PROVE  RxInv'
<1> DEFINE w == rxring.wr
<1>0. PICK n, ids, order : RxWrites(n, ids, order)
  BY RxBurstMakes
<1>1. /\ n \in Nat /\ ids \in SUBSET (RxPktid \ rxbusy) /\ order \in [0 .. n - 1 -> ids]
      /\ rxbufpost + n <= MAX_RXBUFPOST /\ w + n <= RXITEMS
      /\ Cardinality(ids) = n /\ {order[k] : k \in 0 .. n - 1} = ids
      /\ \A j, k \in 0 .. n - 1 : order[j] = order[k] => j = k
      /\ rxring' \in RxRing /\ rxring'.wr = RxMoved(w, n)
      /\ rxring'.phase = IF n > 0 THEN RxNextPhase(rxring) ELSE rxring.phase
      /\ rxdesc' = [i \in RxSlots |->
           IF i - w \in 0 .. n - 1
           THEN [id |-> order[i - w], phase |-> RxNextPhase(rxring)] ELSE rxdesc[i]]
      /\ rxbusy' = rxbusy \cup ids /\ rxbufpost' = rxbufpost + n
      /\ rxtold' = rxring'.wr
      /\ rxat' = IF n > 0 THEN "post" ELSE "rest"
      /\ rxshort' \in BOOLEAN /\ (n = 0 => rxshort')
      /\ UNCHANGED <<rxdrd, rxlap, rxheld, rxcpl>>
  BY <1>0 DEF RxWrites
<1>2. /\ rxring \in RxRing /\ w \in RxSlots /\ rxring.phase \in 0 .. 1
      /\ rxdrd \in RxSlots /\ rxlap \in 0 .. 1 /\ rxbufpost \in 0 .. MAX_RXBUFPOST
      /\ RxDist(rxdrd, w) \in Nat /\ Cardinality(RxUnread) = RxDist(rxdrd, w)
      /\ Cardinality(rxheld) \in Nat /\ Cardinality(rxcpl) \in Nat
      /\ rxbufpost = Cardinality(RxUnread) + Cardinality(rxheld) + Cardinality(rxcpl)
      /\ RxUnread \subseteq RxSlots
      /\ w \in Int /\ w >= 0 /\ w < RXITEMS
  BY RxKnown, RxNumbers DEF RxSlots
<1>3. n \in Nat /\ w + n <= RXITEMS
  BY <1>1
<1>4. ids \subseteq RxPktid /\ ids \cap rxbusy = {}
  BY <1>1
<1>5. RxDist(rxdrd, w) + n <= RXITEMS - 1
  BY <1>1, <1>2, RxNumbers
<1>6. /\ RxMoved(w, n) \in RxSlots
      /\ RxUnread' = RxUnread \cup (w .. w + n - 1)
      /\ RxUnread \cap (w .. w + n - 1) = {}
      /\ RxDist(rxdrd, RxMoved(w, n)) = RxDist(rxdrd, w) + n
  BY <1>1, <1>2, <1>5, RxSpanMore DEF RxUnread
<1>7. \A i \in w .. w + n - 1 : i \in RxSlots /\ i - w \in 0 .. n - 1
  <2> HIDE DEF w
  <2> QED
    BY <1>3, <1>2, RxNumbers DEF RxSlots
<1>8. \A i \in RxSlots : i \notin w .. w + n - 1 => i - w \notin 0 .. n - 1
  <2> HIDE DEF w
  <2> QED
    BY <1>3, <1>2, RxNumbers DEF RxSlots
<1>9. \A i \in w .. w + n - 1 :
        /\ rxdesc'[i].id = order[i - w] /\ rxdesc'[i].id \in ids
        /\ rxdesc'[i].phase = RxNextPhase(rxring)
  BY <1>1, <1>7
<1>10. \A i \in RxUnread : rxdesc'[i] = rxdesc[i] /\ i \notin w .. w + n - 1
  BY <1>1, <1>2, <1>6, <1>8
<1>11. RxNextPhase(rxring) \in 0 .. 1
  BY <1>2 DEF RxNextPhase
<1>12. RxTypes'
  <2>1. rxdesc' \in [RxSlots -> [id : RxPktid \cup {NoId}, phase : 0 .. 1]]
    <3>1. rxdesc \in [RxSlots -> [id : RxPktid \cup {NoId}, phase : 0 .. 1]]
      BY DEF RxInv, RxTypes
    <3> QED
      BY <1>1, <1>11, <3>1
  <2>2. rxbufpost' \in 0 .. MAX_RXBUFPOST
    BY <1>1, <1>2, RxNumbers
  <2> QED
    BY <1>1, <2>1, <2>2 DEF RxInv, RxTypes, RxSlots, RxRing
<1>13. BuffersApart'
  <2>1. \A i \in RxUnread' : rxdesc'[i].id \in rxbusy' \ (rxheld' \cup rxcpl')
    <3>1. \A i \in RxUnread : rxdesc[i].id \in rxbusy \ (rxheld \cup rxcpl)
      BY DEF RxInv, BuffersApart
    <3>2. ids \cap (rxheld \cup rxcpl) = {}
      <4>1. rxheld \subseteq rxbusy /\ rxcpl \subseteq rxbusy
        BY DEF RxInv, RxProvisioned
      <4> QED
        BY <4>1, <1>4
    <3>3. rxbusy' = rxbusy \cup ids /\ rxheld' = rxheld /\ rxcpl' = rxcpl
      BY <1>1
    <3>4. \A i \in RxUnread : rxdesc'[i].id \in rxbusy' \ (rxheld' \cup rxcpl')
      BY <1>10, <3>1, <3>3
    <3>5. \A i \in w .. w + n - 1 : rxdesc'[i].id \in rxbusy' \ (rxheld' \cup rxcpl')
      BY <1>9, <3>2, <3>3
    <3> QED
      BY <1>6, <3>4, <3>5
  <2>2. ASSUME NEW i \in RxUnread', NEW j \in RxUnread', rxdesc'[i].id = rxdesc'[j].id
        PROVE  i = j
    <3>1. CASE i \in RxUnread /\ j \in RxUnread
      BY <1>10, <2>2, <3>1 DEF RxInv, BuffersApart
    <3>2. \A k \in RxUnread : rxdesc'[k].id \notin ids
      BY <1>10, <1>4 DEF RxInv, BuffersApart
    <3>3. \A k \in w .. w + n - 1 : rxdesc'[k].id \in ids
      BY <1>9
    <3>4. CASE i \in RxUnread /\ j \in w .. w + n - 1
      BY <3>2, <3>3, <2>2, <3>4
    <3>5. CASE i \in w .. w + n - 1 /\ j \in RxUnread
      BY <3>2, <3>3, <2>2, <3>5
    <3>6. CASE i \in w .. w + n - 1 /\ j \in w .. w + n - 1
      <4>1. i - w = j - w
        BY <1>1, <1>7, <1>9, <2>2, <3>6
      <4> QED
        BY <3>6, <4>1, <1>2, <1>7, RxNumbers DEF RxSlots
    <3> QED
      BY <1>6, <3>1, <3>4, <3>5, <3>6
  <2>3. rxheld' \cap rxcpl' = {}
    BY <1>1 DEF RxInv, BuffersApart
  <2> QED
    BY <2>1, <2>2, <2>3 DEF BuffersApart
<1>14. RxNextAgrees'
  <2>1. RxNextPhase(rxring) = Expected(w, rxdrd, rxlap)
    BY DEF RxInv, RxNextAgrees
  <2>2. Expected(RxMoved(w, n), rxdrd, rxlap)
          = IF n > 0 /\ RxMoved(w, n) = 0 THEN 1 - Expected(w, rxdrd, rxlap)
            ELSE Expected(w, rxdrd, rxlap)
    BY <1>1, <1>2, <1>5, RxPhaseMore
  <2>3. n = 0 => RxMoved(w, n) = w
    BY <1>2, RxNumbers DEF RxMoved, RxSlots
  <2>4. RxNextPhase(rxring') = IF RxMoved(w, n) = 0 THEN 1 - rxring'.phase ELSE rxring'.phase
    BY <1>1 DEF RxNextPhase
  <2>5. RxNextPhase(rxring) = IF w = 0 THEN 1 - rxring.phase ELSE rxring.phase
    BY DEF RxNextPhase
  <2>6. RxNextPhase(rxring') = Expected(RxMoved(w, n), rxdrd, rxlap)
    BY <1>1, <2>1, <2>2, <2>3, <2>4, <2>5
  <2> QED
    BY <1>1, <2>6 DEF RxNextAgrees, RxNextPhase
<1>15. RxProvisioned'
  <2>1. rxbufpost' = Cardinality(rxbusy')
    <3>1. IsFiniteSet(ids) /\ IsFiniteSet(rxbusy) /\ rxbufpost = Cardinality(rxbusy)
      BY RxKnown, RxFinite, <1>4
    <3>2. rxbusy \cap ids = {}
      BY <1>4
    <3>3. Cardinality(rxbusy \cup ids) = Cardinality(rxbusy) + Cardinality(ids)
                                          - Cardinality(rxbusy \cap ids)
      BY <3>1, FS_Union
    <3>4. Cardinality(rxbusy \cap ids) = 0
      BY <3>2, FS_EmptySet
    <3> QED
      BY <1>1, <1>2, <3>1, <3>3, <3>4
  <2>2. rxbufpost' = Cardinality(RxUnread') + Cardinality(rxheld') + Cardinality(rxcpl')
    <3>1. Cardinality(RxUnread') = RxDist(rxdrd', rxring'.wr)
      BY <1>1, <1>2, <1>6, RxSpanSize DEF RxUnread
    <3> QED
      BY <1>1, <1>2, <1>6, <3>1
  <2>3. rxbusy' = {rxdesc'[i].id : i \in RxUnread'} \cup rxheld' \cup rxcpl'
    <3>1. {rxdesc'[i].id : i \in RxUnread'}
            = {rxdesc'[i].id : i \in RxUnread} \cup {rxdesc'[i].id : i \in w .. w + n - 1}
      BY <1>6
    <3>2. {rxdesc'[i].id : i \in RxUnread} = {rxdesc[i].id : i \in RxUnread}
      BY <1>10
    <3>3. {rxdesc'[i].id : i \in w .. w + n - 1} = ids
      <4>1. ASSUME NEW x \in ids PROVE \E i \in w .. w + n - 1 : rxdesc'[i].id = x
        <5>1. PICK k \in 0 .. n - 1 : order[k] = x
          BY <1>1
        <5>2. w + k \in w .. w + n - 1 /\ (w + k) - w = k
          <6> HIDE DEF w
          <6> QED
            BY <1>2, <1>3
        <5> QED
          BY <1>9, <5>1, <5>2
      <4> QED
        BY <1>9, <4>1
    <3>4. rxbusy = {rxdesc[i].id : i \in RxUnread} \cup rxheld \cup rxcpl
      BY RxKnown
    <3> QED
      BY <1>1, <3>1, <3>2, <3>3, <3>4
  <2>4. \A i \in RxUnread' : rxdesc'[i].phase = Expected(i, rxdrd', rxlap')
    <3>1. \A i \in w .. w + n - 1 : Expected(i, rxdrd, rxlap) = Expected(w, rxdrd, rxlap)
      BY <1>1, <1>2, <1>5, RxPhaseMore
    <3>2. RxNextPhase(rxring) = Expected(w, rxdrd, rxlap)
      BY DEF RxInv, RxNextAgrees
    <3>3. \A i \in RxUnread : rxdesc[i].phase = Expected(i, rxdrd, rxlap)
      BY RxKnown
    <3> QED
      BY <1>1, <1>6, <1>9, <1>10, <3>1, <3>2, <3>3
  <2>5. rxtold' = rxring'.wr /\ RxRested'
    BY <1>1 DEF RxRested
  <2> QED
    BY <2>1, <2>2, <2>3, <2>4, <2>5 DEF RxProvisioned, RxRested
<1> QED
  BY <1>12, <1>13, <1>14, <1>15 DEF RxInv

LEMMA RxPostEndKept ==
  ASSUME RxInv, RxPostEnd
  PROVE  RxInv'
<1>1. /\ rxat' = "rest" /\ rxshort' = FALSE /\ Fill < RX_BUF_BURST
      /\ UNCHANGED <<rxbufpost, rxbusy, rxring, rxtold, rxdesc, rxdrd, rxlap, rxheld, rxcpl>>
  BY DEF RxPostEnd
<1>2. RxTypes'
  BY <1>1 DEF RxInv, RxTypes, RxSlots, RxRing
<1>3. BuffersApart' /\ RxNextAgrees'
  BY <1>1 DEF RxInv, BuffersApart, RxNextAgrees, RxUnread, RxNextPhase
<1>4. RxRested'
  <2>1. Fill' = Fill /\ Fill \in Int
    BY <1>1, RxKnown, RxNumbers DEF Fill
  <2> QED
    BY <1>1, <2>1, RxNumbers, MaxOfTwo DEF RxRested
<1>5. RxProvisioned'
  BY <1>1, <1>4 DEF RxInv, RxProvisioned, RxRested, RxUnread
<1> QED
  BY <1>2, <1>3, <1>5 DEF RxInv

LEMMA RxReapKept ==
  ASSUME RxInv, NEW batch \in SUBSET RxPktid, RxReap(batch)
  PROVE  RxInv'
<1> DEFINE cnt == Cardinality(batch)
<1>1. /\ rxat = "rest" /\ batch \subseteq rxcpl
      /\ rxcpl' = rxcpl \ batch /\ rxbusy' = rxbusy \ batch
      /\ rxbufpost' = IF rxbufpost >= cnt THEN rxbufpost - cnt ELSE 0
      /\ rxat' = IF rxbufpost' <= MAX_RXBUFPOST - RX_THRESHOLD THEN "post" ELSE "rest"
      /\ UNCHANGED <<rxring, rxtold, rxdesc, rxdrd, rxlap, rxheld, rxshort>>
  BY DEF RxReap
<1>2. rxbusy = {rxdesc[i].id : i \in RxUnread} \cup rxheld \cup rxcpl
      /\ rxbufpost = Cardinality(rxbusy) /\ rxbufpost \in 0 .. MAX_RXBUFPOST
      /\ IsFiniteSet(rxbusy) /\ IsFiniteSet(rxcpl)
      /\ rxbufpost = Cardinality(RxUnread) + Cardinality(rxheld) + Cardinality(rxcpl)
      /\ Cardinality(rxheld) \in Nat /\ Cardinality(rxcpl) \in Nat /\ Cardinality(RxUnread) \in Nat
  BY RxKnown
<1>3. cnt \in Nat /\ cnt <= Cardinality(rxbusy)
      /\ Cardinality(rxbusy \ batch) = Cardinality(rxbusy) - cnt
      /\ Cardinality(rxcpl \ batch) = Cardinality(rxcpl) - cnt
  <2>1. batch \subseteq rxbusy /\ rxbusy \cap batch = batch /\ rxcpl \cap batch = batch
    BY <1>1, <1>2
  <2>2. cnt \in Nat /\ cnt <= Cardinality(rxbusy)
    BY <1>2, <2>1, FS_Subset, RxFinite
  <2>3. Cardinality(rxbusy \ batch) = Cardinality(rxbusy) - Cardinality(rxbusy \cap batch)
    BY <1>2, FS_Difference
  <2>4. Cardinality(rxcpl \ batch) = Cardinality(rxcpl) - Cardinality(rxcpl \cap batch)
    BY <1>2, FS_Difference
  <2> QED
    BY <2>1, <2>2, <2>3, <2>4
<1> HIDE DEF cnt
<1>4. rxbufpost' = rxbufpost - cnt /\ rxbufpost' \in 0 .. MAX_RXBUFPOST
  BY <1>1, <1>2, <1>3, RxNumbers
<1>5. RxTypes'
  BY <1>1, <1>4 DEF RxInv, RxTypes, RxSlots, RxRing
<1>6. RxUnread' = RxUnread
  BY <1>1 DEF RxUnread
<1>7. \A i \in RxUnread : rxdesc[i].id \notin batch
  BY <1>1 DEF RxInv, BuffersApart
<1>8. BuffersApart' /\ RxNextAgrees'
  BY <1>1, <1>6, <1>7 DEF RxInv, BuffersApart, RxNextAgrees, RxNextPhase
<1>9. RxRested'
  <2>1. rxat' = "rest" => MAX_RXBUFPOST - rxbufpost' < RX_THRESHOLD
    BY <1>1, <1>2, <1>3, <1>4, RxNumbers
  <2> QED
    BY <1>2, <1>4, <2>1, RxNumbers, MaxOfTwo DEF RxRested, Fill
<1>10. RxProvisioned'
  <2>1. rxbufpost' = Cardinality(rxbusy')
    BY <1>1, <1>2, <1>3, <1>4
  <2>2. rxbufpost' = Cardinality(RxUnread') + Cardinality(rxheld') + Cardinality(rxcpl')
    BY <1>1, <1>2, <1>3, <1>4, <1>6
  <2>3. rxbusy' = {rxdesc'[i].id : i \in RxUnread'} \cup rxheld' \cup rxcpl'
    <3>1. rxheld \cap batch = {}
      BY <1>1 DEF RxInv, BuffersApart
    <3> QED
      BY <1>1, <1>2, <1>6, <1>7, <3>1
  <2> QED
    BY <1>1, <1>6, <1>9, <2>1, <2>2, <2>3 DEF RxInv, RxProvisioned, RxRested
<1> QED
  BY <1>5, <1>8, <1>10 DEF RxInv

LEMMA RxTakenKept ==
  ASSUME RxInv, DongleTakesBuffer
  PROVE  RxInv'
<1> DEFINE id == rxdesc[rxdrd].id
<1>0. /\ rxring \in RxRing /\ rxring.wr \in RxSlots /\ rxdrd \in RxSlots /\ rxlap \in 0 .. 1
      /\ rxtold = rxring.wr /\ RxUnread \subseteq RxSlots
      /\ IsFiniteSet(rxheld) /\ Cardinality(rxheld) \in Nat
      /\ Cardinality(rxcpl) \in Nat
      /\ Cardinality(RxUnread) = RxDist(rxdrd, rxring.wr) /\ RxDist(rxdrd, rxring.wr) \in Nat
      /\ rxbusy \subseteq RxPktid
  BY RxKnown
<1>1. /\ rxdrd /= rxring.wr
      /\ rxheld' = rxheld \cup {id}
      /\ rxdesc' = [rxdesc EXCEPT ![rxdrd] = [id |-> NoId, phase |-> 0]]
      /\ rxdrd' = (rxdrd + 1) % RXITEMS /\ rxlap' = NextLap(rxdrd, rxlap, RXITEMS)
      /\ UNCHANGED <<rxat, rxbufpost, rxbusy, rxring, rxtold, rxcpl, rxshort>>
  BY <1>0 DEF DongleTakesBuffer, Blank
<1>2. /\ RxAfter(rxdrd) \in RxSlots /\ rxdrd' = RxAfter(rxdrd)
      /\ rxdrd \in RxUnread /\ RxUnread' = RxUnread \ {rxdrd}
      /\ RxDist(rxdrd', rxring'.wr) = RxDist(rxdrd, rxring.wr) - 1
  BY <1>0, <1>1, RxSpanLess DEF RxUnread
<1>3. id \in rxbusy \ (rxheld \cup rxcpl) /\ id \in RxPktid
  BY <1>0, <1>2 DEF RxInv, BuffersApart
<1>4. /\ rxlap' \in 0 .. 1
      /\ \A i \in RxSlots \ {rxdrd} : Expected(i, rxdrd', rxlap') = Expected(i, rxdrd, rxlap)
  BY <1>0, <1>1, <1>2, RxPhaseLess
<1>5. rxdesc \in [RxSlots -> [id : RxPktid \cup {NoId}, phase : 0 .. 1]]
  BY DEF RxInv, RxTypes
<1>6. \A i \in RxUnread' : i \in RxUnread /\ i \in RxSlots \ {rxdrd} /\ rxdesc'[i] = rxdesc[i]
  BY <1>0, <1>1, <1>2, <1>5
<1>7. RxTypes'
  <2>1. rxdesc' \in [RxSlots -> [id : RxPktid \cup {NoId}, phase : 0 .. 1]]
    <3>1. [id |-> NoId, phase |-> 0] \in [id : RxPktid \cup {NoId}, phase : 0 .. 1]
      OBVIOUS
    <3> HIDE DEF id
    <3> QED
      BY <1>1, <1>5, <3>1
  <2>2. rxheld' \subseteq RxPktid
    BY <1>1, <1>3 DEF RxInv, RxTypes
  <2> QED
    BY <1>1, <1>2, <1>4, <2>1, <2>2 DEF RxInv, RxTypes, RxSlots, RxRing
<1>8. BuffersApart'
  <2>1. \A i \in RxUnread' : rxdesc'[i].id /= id
    BY <1>2, <1>6 DEF RxInv, BuffersApart
  <2>2. \A i \in RxUnread' : rxdesc'[i].id \in rxbusy' \ (rxheld' \cup rxcpl')
    BY <1>1, <1>6, <2>1 DEF RxInv, BuffersApart
  <2>3. \A i, j \in RxUnread' : rxdesc'[i].id = rxdesc'[j].id => i = j
    BY <1>6 DEF RxInv, BuffersApart
  <2>4. rxheld' \cap rxcpl' = {}
    BY <1>1, <1>3 DEF RxInv, BuffersApart
  <2> QED
    BY <2>2, <2>3, <2>4 DEF BuffersApart
<1>9. RxNextAgrees'
  BY <1>0, <1>1, <1>4 DEF RxInv, RxNextAgrees, RxNextPhase
<1>10. RxProvisioned'
  <2>1. rxbufpost' = Cardinality(rxbusy')
    BY <1>1 DEF RxInv, RxProvisioned
  <2>2. rxbufpost' = Cardinality(RxUnread') + Cardinality(rxheld') + Cardinality(rxcpl')
    <3>1. Cardinality(RxUnread') = RxDist(rxdrd', rxring'.wr)
      BY <1>0, <1>1, <1>2, RxSpanSize DEF RxUnread
    <3>2. Cardinality(rxheld') = Cardinality(rxheld) + 1
      BY <1>0, <1>1, <1>3, FS_AddElement
    <3>3. rxbufpost = Cardinality(RxUnread) + Cardinality(rxheld) + Cardinality(rxcpl)
      BY DEF RxInv, RxProvisioned
    <3> QED
      BY <1>0, <1>1, <1>2, <3>1, <3>2, <3>3
  <2>3. rxbusy' = {rxdesc'[i].id : i \in RxUnread'} \cup rxheld' \cup rxcpl'
    <3>1. {rxdesc[i].id : i \in RxUnread} = {rxdesc'[i].id : i \in RxUnread'} \cup {id}
      BY <1>2, <1>6
    <3>2. rxbusy = {rxdesc[i].id : i \in RxUnread} \cup rxheld \cup rxcpl
      BY DEF RxInv, RxProvisioned
    <3> QED
      BY <1>1, <3>1, <3>2
  <2>4. \A i \in RxUnread' : rxdesc'[i].phase = Expected(i, rxdrd', rxlap')
    BY <1>4, <1>6 DEF RxInv, RxProvisioned
  <2>5. rxtold' = rxring'.wr /\ RxRested'
    BY <1>0, <1>1 DEF RxInv, RxProvisioned, RxRested, Fill
  <2> QED
    BY <2>1, <2>2, <2>3, <2>4, <2>5 DEF RxProvisioned, RxRested
<1> QED
  BY <1>7, <1>8, <1>9, <1>10 DEF RxInv

LEMMA RxFilledKept ==
  ASSUME RxInv, NEW id \in RxPktid, DongleFillsBuffer(id)
  PROVE  RxInv'
<1>1. /\ id \in rxheld /\ rxheld' = rxheld \ {id} /\ rxcpl' = rxcpl \cup {id}
      /\ UNCHANGED <<rxat, rxbufpost, rxbusy, rxring, rxtold, rxdesc, rxdrd, rxlap, rxshort>>
  BY DEF DongleFillsBuffer
<1>2. RxTypes'
  BY <1>1 DEF RxInv, RxTypes, RxSlots, RxRing
<1>3. RxUnread' = RxUnread
  BY <1>1 DEF RxUnread
<1>4. BuffersApart' /\ RxNextAgrees'
  BY <1>1, <1>3 DEF RxInv, BuffersApart, RxNextAgrees, RxNextPhase
<1>5. RxProvisioned'
  <2>1. /\ IsFiniteSet(rxheld) /\ Cardinality(rxheld) \in Nat
        /\ IsFiniteSet(rxcpl) /\ Cardinality(rxcpl) \in Nat /\ Cardinality(RxUnread) \in Nat
    BY RxKnown
  <2>2. Cardinality(rxheld') = Cardinality(rxheld) - 1
    BY <1>1, <2>1, FS_RemoveElement
  <2>3. id \notin rxcpl
    BY <1>1 DEF RxInv, BuffersApart
  <2>4. Cardinality(rxcpl') = Cardinality(rxcpl) + 1
    BY <1>1, <2>1, <2>3, FS_AddElement
  <2>5. rxbufpost = Cardinality(RxUnread) + Cardinality(rxheld) + Cardinality(rxcpl)
    BY DEF RxInv, RxProvisioned
  <2>6. rxbufpost' = Cardinality(RxUnread') + Cardinality(rxheld') + Cardinality(rxcpl')
    BY <1>1, <1>3, <2>1, <2>2, <2>4, <2>5
  <2>7. rxbusy' = {rxdesc'[i].id : i \in RxUnread'} \cup rxheld' \cup rxcpl'
    <3>1. rxbusy = {rxdesc[i].id : i \in RxUnread} \cup rxheld \cup rxcpl
      BY DEF RxInv, RxProvisioned
    <3> QED
      BY <1>1, <1>3, <3>1
  <2>8. RxRested'
    BY <1>1 DEF RxInv, RxProvisioned, RxRested, Fill
  <2> QED
    BY <1>1, <1>3, <2>6, <2>7, <2>8 DEF RxInv, RxProvisioned, RxRested
<1> QED
  BY <1>2, <1>4, <1>5 DEF RxInv

\* Theorem (dhd_msgbuf_rxbuf_post, dhd_prot_return_rxbuf): for every size of the
\* ring, of the burst and of the threshold the host's count of posted buffers is
\* exact, each is in one place, the dongle recognises every one it has yet to
\* read, and the seam of the ring never makes the host stop short.
THEOREM RxStaysProvisioned == RxSpec => []RxProvisioned
<1>1. RxInit => RxInv
  BY RxInvInit
<1>2. RxInv /\ [RxNext]_rxVars => RxInv'
  <2> SUFFICES ASSUME RxInv, [RxNext]_rxVars PROVE RxInv'
    OBVIOUS
  <2>1. CASE RxNext
    BY <2>1, RxBurstKept, RxPostEndKept, RxReapKept, RxTakenKept, RxFilledKept DEF RxNext
  <2>2. CASE UNCHANGED rxVars
    <3>1. UNCHANGED <<rxat, rxbufpost, rxbusy, rxring, rxtold, rxdesc, rxdrd, rxlap,
                      rxheld, rxcpl, rxshort>>
      BY <2>2 DEF rxVars
    <3>2. RxTypes'
      BY <3>1 DEF RxInv, RxTypes, RxSlots, RxRing
    <3>3. RxUnread' = RxUnread /\ Fill' = Fill
      BY <3>1 DEF RxUnread, Fill
    <3>4. BuffersApart' /\ RxNextAgrees'
      BY <3>1, <3>3 DEF RxInv, BuffersApart, RxNextAgrees, RxNextPhase
    <3>5. RxProvisioned'
      BY <3>1, <3>3 DEF RxInv, RxProvisioned
    <3> QED
      BY <3>2, <3>4, <3>5 DEF RxInv
  <2> QED
    BY <2>1, <2>2
<1>3. RxInv => RxProvisioned
  BY DEF RxInv
<1> QED
  BY <1>1, <1>2, <1>3, PTL DEF RxSpec

(***************************************************************************)
(* The suppression of acknowledgements.                                    *)
(***************************************************************************)
\* All numbers handed in are within half of the SEQ numbers that the code can
\* tell apart, wherever FIRST is, so across the wrap too: what IS_TCPSEQ_GE
\* takes for granted.
AckWindow == 2 * MaxAcks < SEQ

AckNo == FIRST .. FIRST + MaxAcks
InDriver == {"look", "out", "queued", "refused", "held", "untime"}
AckAt == InDriver \cup {"stack", "sent", "lost"}
ToBus == {"out", "queued", "refused"}

AckTypes ==
  /\ skbat \in [Skb -> AckAt]
  /\ strm \in [Skb -> Stream \cup {NoStream}] /\ ack \in [Skb -> AckNo]
  /\ newest \in [Stream -> AckNo] /\ gone \in [Stream -> AckNo]
  /\ handed \in 0 .. MaxAcks /\ \A s \in Stream : newest[s] <= FIRST + handed
  /\ tbl \in [Slot -> Skb \cup {NoSkb}] /\ tblcnt \in 0 .. INFO_MAX
  /\ ackq \in Seq(Skb) /\ chain \in Seq(Skb) /\ checked \in 0 .. Len(chain)

\* What belongs to the one bus and to the other.
BusRight ==
  /\ \/ ackbus = "sdio" /\ supmode \in {"REPLACE", "OFF"}
     \/ ackbus = "pcie" /\ supmode \in {"HOLD", "OFF"}
  /\ ackbus = "pcie" =>
       ackq = <<>> /\ chain = <<>> /\ \A p \in Skb : skbat[p] /= "refused"

\* A packet is once in the bus queue or in the chain; a chain goes as a whole.
QueueRight ==
  /\ \A j \in 1 .. Len(ackq) : skbat[ackq[j]] = "queued"
  /\ \A j, k \in 1 .. Len(ackq) : ackq[j] = ackq[k] => j = k
  /\ \/ \A k \in 1 .. Len(chain) : skbat[chain[k]] = "queued"
     \/ \A k \in 1 .. Len(chain) : skbat[chain[k]] = "sent"
  /\ \A j, k \in 1 .. Len(chain) : chain[j] = chain[k] => j = k
  /\ \A j \in 1 .. Len(ackq) : \A k \in 1 .. Len(chain) : ackq[j] /= chain[k]

\* The table lists packets that are not yet on the bus, each once.
TableRight ==
  /\ supmode /= "HOLD" => \A i \in Slot : tbl[i] /= NoSkb <=> i <= tblcnt
  /\ supmode = "OFF" => tblcnt = 0
  /\ \A i, j \in Slot : tbl[i] = tbl[j] /\ tbl[i] /= NoSkb => i = j
  /\ \A i \in Slot : tbl[i] /= NoSkb =>
       skbat[tbl[i]] \in IF supmode = "HOLD" THEN {"held"} ELSE ToBus

\* A packet that the DPC has looked up in the table is no longer there.
Unchecked ==
  \A i \in Slot, k \in 1 .. Len(chain) : tbl[i] = chain[k] => checked < k

Kept ==
  \A s \in Stream :
    \/ gone[s] >= newest[s]
    \/ \E p \in Skb : strm[p] = s /\ ack[p] >= newest[s] /\ skbat[p] \in InDriver

AckGood == AckTypes /\ BusRight /\ QueueRight /\ TableRight /\ Unchecked /\ Kept
AckInv == ~forgotten => AckGood

LEMMA AckNumbers ==
  /\ FIRST \in Nat /\ MaxAcks \in Nat /\ INFO_MAX \in Nat \ {0} /\ SEQ \in Nat \ {0}
  /\ ACKQ_LEN \in Nat \ {0} /\ NoSkb \notin Skb /\ NoStream \notin Stream
  BY AckAssumption

LEMMA SmallestMember ==
  ASSUME NEW T, T \subseteq Nat, T /= {}
  PROVE  Min(T) \in T /\ \A y \in T : Min(T) <= y
<1>1. PICK x \in T : \A y \in T : ~(<<y, x>> \in OpToRel(<, Nat))
  BY NatLessThanWellFounded, WFMin, Zenon
<1>2. \A y \in T : ~(y < x)
  BY <1>1, Zenon DEF OpToRel
<1>3. \A y \in T : x <= y
  BY <1>2
<1> QED
  BY <1>3 DEF Min

LEMMA LargestMember ==
  ASSUME NEW T, NEW a \in Int, NEW b \in Int, T \subseteq a .. b, T /= {}
  PROVE  Max(T) \in T /\ \A y \in T : Max(T) >= y
<1> DEFINE U == {b - x : x \in T}
<1>1. U \subseteq Nat /\ U /= {}
  <2>1. ASSUME NEW x \in T PROVE b - x \in Nat
    <3>1. x \in Int /\ x <= b
      OBVIOUS
    <3> QED
      BY <3>1
  <2>2. PICK x \in T : TRUE
    OBVIOUS
  <2>3. b - x \in U
    OBVIOUS
  <2> QED
    BY <2>1, <2>3
<1>2. PICK u \in U : \A y \in U : u <= y
  BY <1>1, SmallestMember
<1>3. PICK x \in T : u = b - x
  BY <1>2
<1>4. \A y \in T : x >= y
  <2> SUFFICES ASSUME NEW y \in T PROVE x >= y
    OBVIOUS
  <2>1. b - y \in U
    OBVIOUS
  <2>2. b - x <= b - y
    BY <1>2, <1>3, <2>1
  <2>3. x \in Int /\ y \in Int
    BY <1>3
  <2> QED
    BY <2>2, <2>3
<1> QED
  BY <1>4 DEF Max

\* Within the window the comparison of the code is that of the numbers.
LEMMA SeqCompare ==
  ASSUME AckWindow, NEW a \in AckNo, NEW b \in AckNo
  PROVE  SeqGE(a, b) <=> a >= b
<1>1. a - b \in Int /\ a - b <= MaxAcks /\ b - a <= MaxAcks /\ MaxAcks < SEQ
      /\ a \in Int /\ b \in Int
  BY AckNumbers DEF AckNo, AckWindow
<1>2. CASE a >= b
  <2>1. a - b \in 0 .. SEQ - 1
    BY <1>1, <1>2, AckNumbers
  <2>2. (a - b) % SEQ = a - b
    BY <2>1, AckNumbers
  <2> QED
    BY <1>1, <1>2, <2>2, AckNumbers DEF SeqGE, AckWindow
<1>3. CASE a < b
  <2>1. SEQ + (a - b) \in 0 .. SEQ - 1
    BY <1>1, <1>3, AckNumbers
  <2>2. (((0 - 1) * SEQ) + (SEQ + (a - b))) % SEQ = SEQ + (a - b)
    BY <2>1, AckNumbers
  <2>3. ((0 - 1) * SEQ) + (SEQ + (a - b)) = a - b
    BY <1>1, AckNumbers
  <2>4. (a - b) % SEQ = SEQ + (a - b)
    BY <2>2, <2>3
  <2> QED
    BY <1>1, <1>3, <2>4, AckNumbers DEF SeqGE, AckWindow
<1> QED
  BY <1>1, <1>2, <1>3

\* Packets that leave take with them what they carry.
LEMMA LeftGoes ==
  ASSUME AckTypes, NEW ps \in SUBSET Skb, LeftWith(ps)
  PROVE  /\ gone' \in [Stream -> AckNo]
         /\ \A s \in Stream : gone'[s] >= gone[s]
         /\ \A p \in ps, s \in Stream : strm[p] = s => gone'[s] >= ack[p]
<1> DEFINE T(s) == {gone[s]} \cup {ack[p] : p \in {q \in ps : strm[q] = s}}
<1>1. gone' = [s \in Stream |-> Max(T(s))]
  BY DEF LeftWith
<1>2. ASSUME NEW s \in Stream
      PROVE  Max(T(s)) \in T(s) /\ T(s) \subseteq AckNo /\ \A y \in T(s) : Max(T(s)) >= y
  <2>1. T(s) \subseteq FIRST .. FIRST + MaxAcks /\ T(s) /= {}
    BY DEF AckTypes, AckNo
  <2>2. FIRST \in Int /\ FIRST + MaxAcks \in Int
    BY AckNumbers
  <2>3. Max(T(s)) \in T(s) /\ \A y \in T(s) : Max(T(s)) >= y
    <3> HIDE DEF T
    <3> QED
      BY <2>1, <2>2, LargestMember
  <2> QED
    BY <2>1, <2>3 DEF AckNo
<1>3. gone' \in [Stream -> AckNo] /\ \A s \in Stream : gone'[s] = Max(T(s))
  BY <1>1, <1>2
<1>4. \A s \in Stream : gone[s] \in T(s)
  OBVIOUS
<1>5. \A p \in ps, s \in Stream : strm[p] = s => ack[p] \in T(s)
  OBVIOUS
<1> HIDE DEF T
<1> QED
  BY <1>2, <1>3, <1>4, <1>5

\* What leaves the table leaves it without a gap.
LEMMA Unlisted ==
  ASSUME AckTypes, TableRight, supmode /= "HOLD", NEW p \in Skb, Unlist(p)
  PROVE  /\ tbl' \in [Slot -> Skb \cup {NoSkb}] /\ tblcnt' \in 0 .. INFO_MAX
         /\ \A i \in Slot : tbl'[i] /= NoSkb <=> i <= tblcnt'
         /\ supmode = "OFF" => tblcnt' = 0
         /\ \A i, j \in Slot : tbl'[i] = tbl'[j] /\ tbl'[i] /= NoSkb => i = j
         /\ \A i \in Slot : tbl'[i] /= p
         /\ \A i \in Slot : tbl'[i] /= NoSkb => \E j \in Slot : tbl[j] = tbl'[i]
<1>0. /\ tbl \in [Slot -> Skb \cup {NoSkb}] /\ tblcnt \in 0 .. INFO_MAX /\ NoSkb \notin Skb
      /\ INFO_MAX \in Nat /\ Slot = 1 .. INFO_MAX
      /\ \A i \in Slot : tbl[i] /= NoSkb <=> i <= tblcnt
      /\ \A i, j \in Slot : tbl[i] = tbl[j] /\ tbl[i] /= NoSkb => i = j
      /\ supmode = "OFF" => tblcnt = 0
  BY AckNumbers DEF AckTypes, TableRight, Slot
<1>1. CASE \E i \in 1 .. tblcnt : tbl[i] = p
  <2> DEFINE m == Min({k \in 1 .. tblcnt : tbl[k] = p})
  <2>1. m \in 1 .. tblcnt /\ tbl[m] = p
    <3>1. {k \in 1 .. tblcnt : tbl[k] = p} \subseteq Nat
      BY <1>0
    <3> QED
      BY <1>1, <3>1, SmallestMember
  <2>2. tblcnt' = tblcnt - 1 /\ tbl' = [tbl EXCEPT ![m] = tbl[tblcnt], ![tblcnt] = NoSkb]
    BY <1>1 DEF Unlist
  <2> HIDE DEF m
  <2>3. m \in Slot /\ tblcnt \in Slot /\ tblcnt >= 1 /\ supmode /= "OFF"
    BY <1>0, <2>1
  <2>4. \A i \in Slot : tbl'[i] = IF i = tblcnt THEN NoSkb ELSE IF i = m THEN tbl[tblcnt] ELSE tbl[i]
    BY <1>0, <2>2, <2>3
  <2>5. tbl' \in [Slot -> Skb \cup {NoSkb}]
    BY <1>0, <2>2, <2>3
  <2>6. \A i \in Slot : tbl'[i] /= p
    <3> SUFFICES ASSUME NEW i \in Slot, tbl'[i] = p PROVE FALSE
      OBVIOUS
    <3>1. tbl[i] = p => i = m
      BY <1>0, <2>1, <2>3
    <3>2. tbl[tblcnt] = p => tblcnt = m
      BY <1>0, <2>1, <2>3
    <3> QED
      BY <1>0, <2>4, <3>1, <3>2
  <2>7. \A i \in Slot : tbl'[i] /= NoSkb <=> i <= tblcnt'
    <3> SUFFICES ASSUME NEW i \in Slot PROVE tbl'[i] /= NoSkb <=> i <= tblcnt - 1
      BY <2>2
    <3>1. tbl[tblcnt] /= NoSkb
      BY <1>0, <2>3
    <3> QED
      BY <1>0, <2>1, <2>3, <2>4, <3>1
  <2>8. \A i, j \in Slot : tbl'[i] = tbl'[j] /\ tbl'[i] /= NoSkb => i = j
    BY <1>0, <2>3, <2>4
  <2>9. \A i \in Slot : tbl'[i] /= NoSkb => \E j \in Slot : tbl[j] = tbl'[i]
    BY <2>3, <2>4
  <2>10. tblcnt' \in 0 .. INFO_MAX
    BY <1>0, <2>2, <2>3
  <2> QED
    BY <2>3, <2>5, <2>6, <2>7, <2>8, <2>9, <2>10
<1>2. CASE ~\E i \in 1 .. tblcnt : tbl[i] = p
  <2>1. tbl' = tbl /\ tblcnt' = tblcnt
    BY <1>2 DEF Unlist
  <2>2. \A i \in Slot : tbl[i] /= p
    BY <1>0, <1>2
  <2> QED
    BY <1>0, <2>1, <2>2
<1> QED
  BY <1>1, <1>2

\* What each packet carried is carried on, or has left the driver.
LEMMA KeptOn ==
  ASSUME AckTypes, Kept, AckTypes', newest' = newest,
         \A s \in Stream : gone'[s] >= gone[s],
         \A p \in Skb : skbat[p] \in InDriver =>
           \A s \in Stream : strm[p] = s =>
             \/ gone'[s] >= ack[p]
             \/ \E q \in Skb : strm'[q] = s /\ ack'[q] >= ack[p] /\ skbat'[q] \in InDriver
  PROVE  Kept'
<1> SUFFICES ASSUME NEW s \in Stream
             PROVE  \/ gone'[s] >= newest[s]
                    \/ \E q \in Skb : strm'[q] = s /\ ack'[q] >= newest[s] /\ skbat'[q] \in InDriver
  BY DEF Kept
<1>0. /\ newest[s] \in Int /\ gone[s] \in Int /\ gone'[s] \in Int
      /\ \A q \in Skb : ack[q] \in Int /\ ack'[q] \in Int
  BY AckNumbers DEF AckTypes, AckNo
<1>1. CASE gone[s] >= newest[s]
  BY <1>0, <1>1
<1>2. CASE \E p \in Skb : strm[p] = s /\ ack[p] >= newest[s] /\ skbat[p] \in InDriver
  <2>1. PICK p \in Skb : strm[p] = s /\ ack[p] >= newest[s] /\ skbat[p] \in InDriver
    BY <1>2
  <2>2. \/ gone'[s] >= ack[p]
        \/ \E q \in Skb : strm'[q] = s /\ ack'[q] >= ack[p] /\ skbat'[q] \in InDriver
    BY <2>1
  <2> QED
    BY <1>0, <2>1, <2>2
<1> QED
  BY <1>1, <1>2 DEF Kept

\* A packet that moves within the driver keeps what it carries.
LEMMA KeptMoving ==
  ASSUME AckTypes, Kept, AckTypes', UNCHANGED <<strm, ack, newest, gone>>,
         \A p \in Skb : skbat[p] \in InDriver => skbat'[p] \in InDriver
  PROVE  Kept'
<1>1. \A p \in Skb : skbat[p] \in InDriver =>
        \A s \in Stream : strm[p] = s =>
          \E q \in Skb : strm'[q] = s /\ ack'[q] >= ack[p] /\ skbat'[q] \in InDriver
  BY AckNumbers DEF AckTypes, AckNo
<1>2. \A s \in Stream : gone'[s] >= gone[s]
  BY AckNumbers DEF AckTypes, AckNo
<1> QED
  BY <1>1, <1>2, KeptOn

\* Packets that leave the driver for good.
LEMMA KeptLeaving ==
  ASSUME AckTypes, Kept, AckTypes', UNCHANGED <<strm, ack, newest>>,
         NEW ps \in SUBSET Skb, LeftWith(ps),
         \A p \in Skb \ ps : skbat[p] \in InDriver => skbat'[p] \in InDriver
  PROVE  Kept'
<1>1. /\ \A s \in Stream : gone'[s] >= gone[s]
      /\ \A p \in ps, s \in Stream : strm[p] = s => gone'[s] >= ack[p]
  BY LeftGoes
<1>2. \A p \in Skb : skbat[p] \in InDriver =>
        \A s \in Stream : strm[p] = s =>
          \/ gone'[s] >= ack[p]
          \/ \E q \in Skb : strm'[q] = s /\ ack'[q] >= ack[p] /\ skbat'[q] \in InDriver
  <2> SUFFICES ASSUME NEW p \in Skb, skbat[p] \in InDriver, p \notin ps
               PROVE  strm'[p] = strm[p] /\ ack'[p] >= ack[p] /\ skbat'[p] \in InDriver
    BY <1>1
  <2> QED
    BY AckNumbers DEF AckTypes, AckNo
<1> QED
  BY <1>1, <1>2, KeptOn

(***************************************************************************)
(* The parts of the invariant under steps that leave them alone.           *)
(***************************************************************************)
USE DEF skbVars, tblVars, timerVars, chainVars, ghostVars

LEMMA QueueStays ==
  ASSUME AckTypes, QueueRight, UNCHANGED <<ackq, chain>>,
         \A p \in Skb : skbat[p] \in {"queued", "sent"} => skbat'[p] = skbat[p]
  PROVE  QueueRight'
<1>1. /\ \A j \in 1 .. Len(ackq) : ackq[j] \in Skb
      /\ \A k \in 1 .. Len(chain) : chain[k] \in Skb
  BY ElementOfSeq DEF AckTypes
<1> QED
  BY <1>1 DEF QueueRight

LEMMA TableStays ==
  ASSUME AckTypes, TableRight, UNCHANGED <<supmode, tbl, tblcnt>>,
         \A p \in Skb : skbat[p] \in (IF supmode = "HOLD" THEN {"held"} ELSE ToBus) =>
           skbat'[p] \in IF supmode = "HOLD" THEN {"held"} ELSE ToBus
  PROVE  TableRight'
<1>1. \A i \in Slot : tbl[i] /= NoSkb => tbl[i] \in Skb
  BY DEF AckTypes
<1>2. \A i \in Slot : tbl[i] /= NoSkb =>
        skbat'[tbl[i]] \in IF supmode = "HOLD" THEN {"held"} ELSE ToBus
  BY <1>1 DEF TableRight
<1> QED
  BY <1>2 DEF TableRight, Slot

LEMMA UncheckedStays ==
  ASSUME AckTypes, Unchecked, UNCHANGED <<chain, checked>>,
         \A i \in Slot : tbl'[i] \in Skb => tbl'[i] \in {tbl[j] : j \in Slot}
                                         \/ skbat[tbl'[i]] \notin {"queued", "sent"},
         QueueRight
  PROVE  Unchecked'
<1>1. \A k \in 1 .. Len(chain) : chain[k] \in Skb /\ skbat[chain[k]] \in {"queued", "sent"}
  BY ElementOfSeq DEF AckTypes, QueueRight
<1> SUFFICES ASSUME NEW i \in Slot, NEW k \in 1 .. Len(chain), tbl'[i] = chain[k]
             PROVE  checked < k
  BY DEF Unchecked, Slot
<1>2. tbl'[i] \in {tbl[j] : j \in Slot}
  BY <1>1
<1>3. PICK j \in Slot : tbl[j] = chain[k]
  BY <1>2
<1> QED
  BY <1>3 DEF Unchecked

\* A packet that is not in a queue goes from one place in the driver to another.
LEMMA MovesKept ==
  ASSUME AckGood, NEW p \in Skb, NEW to \in {"out", "refused"},
         skbat[p] \in {"look", "out", "untime"},
         to = "refused" => ackbus = "sdio",
         skbat' = [skbat EXCEPT ![p] = to],
         UNCHANGED <<ackbus, supmode, strm, ack, tbl, tblcnt, chainVars, newest, gone, handed>>
  PROVE  AckGood'
<1>1. AckTypes' /\ BusRight'
  BY DEF AckGood, AckTypes, BusRight, AckAt, InDriver, Slot, AckNo
<1>2. QueueRight'
  BY QueueStays DEF AckGood, AckTypes
<1>3. TableRight'
  BY TableStays DEF AckGood, AckTypes, ToBus
<1>4. Unchecked'
  BY DEF AckGood, Unchecked, Slot
<1>5. Kept'
  <2>1. \A q \in Skb : skbat[q] \in InDriver => skbat'[q] \in InDriver
    BY DEF AckGood, AckTypes, InDriver
  <2> QED
    BY <1>1, <2>1, KeptMoving DEF AckGood
<1> QED
  BY <1>1, <1>2, <1>3, <1>4, <1>5 DEF AckGood

\* Timers, and steps after which the code has lost track of a packet.
LEMMA NothingMoves ==
  ASSUME AckGood,
         UNCHANGED <<ackbus, supmode, skbVars, tbl, tblcnt, chainVars, newest, gone, handed>>
  PROVE  AckGood'
<1>1. AckTypes' /\ BusRight'
  BY DEF AckGood, AckTypes, BusRight, Slot, AckNo
<1>2. QueueRight' /\ TableRight' /\ Unchecked' /\ Kept'
  BY DEF AckGood, QueueRight, TableRight, Unchecked, Kept, Slot
<1> QED
  BY <1>1, <1>2 DEF AckGood

\* No packet of the stack is in a queue or in the table.
LEMMA HandInKept ==
  ASSUME AckGood, NEW p \in Skb, NEW s \in Stream, NEW n, AckHandIn(p, s, n)
  PROVE  AckGood'
<1>1. /\ skbat[p] = "stack" /\ handed < MaxAcks /\ n \in {newest[s], newest[s] + 1}
      /\ strm' = [strm EXCEPT ![p] = s] /\ ack' = [ack EXCEPT ![p] = n]
      /\ newest' = [newest EXCEPT ![s] = n] /\ handed' = handed + 1
      /\ UNCHANGED <<ackbus, supmode, tbl, tblcnt, ackq, chain, checked, gone>>
  BY DEF AckHandIn
<1>2. PICK to \in {"out", "look"} : skbat' = [skbat EXCEPT ![p] = to]
  BY DEF AckHandIn, SkbTo
<1>3. /\ AckTypes /\ n \in AckNo /\ n >= newest[s] /\ n <= FIRST + handed'
      /\ newest[s] \in Int /\ handed \in Int
  BY <1>1, AckNumbers DEF AckGood, AckTypes, AckNo
<1>4. AckTypes'
  <2>1. skbat' \in [Skb -> AckAt]
    BY <1>2, <1>3 DEF AckTypes, AckAt, InDriver
  <2>2. strm' \in [Skb -> Stream \cup {NoStream}] /\ ack' \in [Skb -> AckNo]
        /\ newest' \in [Stream -> AckNo]
    BY <1>1, <1>3 DEF AckTypes
  <2>3. handed' \in 0 .. MaxAcks /\ \A t \in Stream : newest'[t] <= FIRST + handed'
    BY <1>1, <1>3, AckNumbers DEF AckTypes, AckNo
  <2> QED
    BY <1>1, <2>1, <2>2, <2>3, <1>3 DEF AckTypes, Slot, AckNo
<1>5. BusRight'
  BY <1>1, <1>2, <1>3 DEF AckGood, BusRight, AckTypes
<1>6. QueueRight'
  BY <1>1, <1>2, <1>3, QueueStays DEF AckGood, AckTypes
<1>7. TableRight'
  BY <1>1, <1>2, <1>3, TableStays DEF AckGood, AckTypes, ToBus
<1>8. Unchecked'
  BY <1>1 DEF AckGood, Unchecked, Slot
<1>9. Kept'
  <2> SUFFICES ASSUME NEW t \in Stream
               PROVE  \/ gone[t] >= newest'[t]
                      \/ \E q \in Skb : /\ strm'[q] = t /\ ack'[q] >= newest'[t]
                                        /\ skbat'[q] \in InDriver
    BY <1>1 DEF Kept
  <2>1. CASE t = s
    <3>1. newest'[t] = n /\ strm'[p] = t /\ ack'[p] = n /\ skbat'[p] = to
      BY <1>1, <1>2, <1>3, <2>1 DEF AckTypes
    <3>2. n >= n /\ to \in InDriver
      BY <1>3, AckNumbers DEF AckNo, InDriver
    <3> QED
      BY <3>1, <3>2
  <2>2. CASE t /= s
    <3>1. newest'[t] = newest[t]
      BY <1>1, <2>2, <1>3 DEF AckTypes
    <3>2. \A q \in Skb : skbat[q] \in InDriver =>
            strm'[q] = strm[q] /\ ack'[q] = ack[q] /\ skbat'[q] = skbat[q]
      BY <1>1, <1>2, <1>3 DEF AckTypes, InDriver
    <3> QED
      BY <3>1, <3>2 DEF AckGood, Kept
  <2> QED
    BY <2>1, <2>2
<1> QED
  BY <1>4, <1>5, <1>6, <1>7, <1>8, <1>9 DEF AckGood
(***************************************************************************)
(* dhd_tcpack_suppress.                                                    *)
(***************************************************************************)
LEMMA AddKept ==
  ASSUME AckGood, NEW p \in Skb, SuppressAdd(p)
  PROVE  AckGood'
<1>1. /\ supmode = "REPLACE" /\ skbat[p] = "look" /\ skbat' = [skbat EXCEPT ![p] = "out"]
      /\ UNCHANGED <<ackbus, supmode, strm, ack, ackq, chain, checked, newest, gone, handed>>
      /\ IF tblcnt < INFO_MAX
         THEN tblcnt' = tblcnt + 1 /\ tbl' = [tbl EXCEPT ![tblcnt + 1] = p]
         ELSE UNCHANGED <<tbl, tblcnt>>
  BY DEF SuppressAdd, SkbTo
<1>2. AckTypes /\ TableRight /\ QueueRight /\ Unchecked /\ Kept /\ BusRight
  BY DEF AckGood
<1>3. CASE tblcnt < INFO_MAX
  <2>0. /\ tbl \in [Slot -> Skb \cup {NoSkb}] /\ tblcnt \in Nat /\ INFO_MAX \in Nat
        /\ Slot = 1 .. INFO_MAX /\ NoSkb \notin Skb /\ skbat \in [Skb -> AckAt]
    BY <1>2, AckNumbers DEF AckTypes, Slot
  <2>1. tblcnt' = tblcnt + 1 /\ tbl' = [tbl EXCEPT ![tblcnt + 1] = p] /\ tblcnt + 1 \in Slot
    BY <1>1, <1>3, <2>0
  <2>2. \A i \in Slot : tbl'[i] = IF i = tblcnt + 1 THEN p ELSE tbl[i]
    BY <2>0, <2>1
  <2>3. \A i \in Slot : tbl[i] /= p
    BY <1>1, <1>2, <2>0 DEF TableRight, ToBus
  <2>4. AckTypes'
    <3>1. tbl' \in [Slot -> Skb \cup {NoSkb}] /\ tblcnt' \in 0 .. INFO_MAX
      BY <2>0, <2>1, <1>3
    <3>2. skbat' \in [Skb -> AckAt]
      BY <1>1, <2>0 DEF AckAt, InDriver
    <3> QED
      BY <1>1, <1>2, <3>1, <3>2 DEF AckTypes, AckNo
  <2>5. TableRight'
    <3>1. \A i \in Slot : tbl'[i] /= NoSkb <=> i <= tblcnt'
      BY <1>1, <1>2, <2>0, <2>1, <2>2 DEF TableRight
    <3>2. \A i, j \in Slot : tbl'[i] = tbl'[j] /\ tbl'[i] /= NoSkb => i = j
      BY <1>2, <2>2, <2>3 DEF TableRight
    <3>3. \A i \in Slot : tbl'[i] /= NoSkb => skbat'[tbl'[i]] \in ToBus
      BY <1>1, <1>2, <2>0, <2>2 DEF TableRight, ToBus
    <3> QED
      BY <1>1, <3>1, <3>2, <3>3 DEF TableRight, Slot
  <2>6. Unchecked'
    BY <1>1, <1>2, <2>2, UncheckedStays
  <2>7. QueueRight' /\ BusRight'
    BY <1>1, <1>2, <2>0, QueueStays DEF BusRight
  <2>8. Kept'
    <3>1. \A q \in Skb : skbat[q] \in InDriver => skbat'[q] \in InDriver
      BY <1>1, <2>0 DEF InDriver
    <3> QED
      BY <1>1, <1>2, <2>4, <3>1, KeptMoving
  <2> QED
    BY <2>4, <2>5, <2>6, <2>7, <2>8 DEF AckGood
<1>4. CASE ~(tblcnt < INFO_MAX)
  BY <1>1, <1>4, MovesKept
<1> QED
  BY <1>3, <1>4

\* The newer one is copied into a packet that is still on its way.
LEMMA ReplaceKept ==
  ASSUME AckWindow, AckGood, NEW p \in Skb, SuppressReplace(p)
  PROVE  AckGood'
<1>0. AckTypes /\ TableRight /\ QueueRight /\ Unchecked /\ Kept /\ BusRight
  BY DEF AckGood
<1> DEFINE i == Min(SameStream(p))
           old == tbl[i]
<1>1. /\ supmode = "REPLACE" /\ skbat[p] = "look" /\ SameStream(p) /= {}
      /\ SeqGT(ack[p], ack[old]) /\ ack' = [ack EXCEPT ![old] = ack[p]]
      /\ skbat' = [skbat EXCEPT ![p] = "stack"]
      /\ UNCHANGED <<ackbus, supmode, strm, tbl, tblcnt, ackq, chain, checked, newest, gone, handed>>
  BY DEF SuppressReplace, SkbTo
<1>2. i \in 1 .. tblcnt /\ strm[old] = strm[p]
  <2>1. SameStream(p) \subseteq Nat
    BY <1>0 DEF SameStream, AckTypes
  <2>2. i \in SameStream(p)
    BY <1>1, <2>1, SmallestMember
  <2> QED
    BY <2>2 DEF SameStream
<1> HIDE DEF i
<1>3. i \in Slot /\ old \in Skb /\ skbat[old] \in ToBus /\ old /= p
  <2>1. i \in Slot
    BY <1>0, <1>2, AckNumbers DEF AckTypes, Slot
  <2>2. old /= NoSkb
    BY <1>0, <1>1, <1>2, <2>1 DEF TableRight, AckTypes
  <2> QED
    BY <1>0, <1>1, <2>1, <2>2 DEF TableRight, AckTypes, ToBus
<1> HIDE DEF old
<1>4. ack[p] > ack[old]
  <2>1. ack[p] \in AckNo /\ ack[old] \in AckNo
    BY <1>0, <1>3 DEF AckTypes
  <2>2. ~(ack[old] >= ack[p])
    BY <1>1, <2>1, SeqCompare DEF SeqGT
  <2> QED
    BY <2>1, <2>2, AckNumbers DEF AckNo
<1>5. AckTypes'
  BY <1>0, <1>1, <1>3 DEF AckTypes, AckAt, Slot, AckNo
<1>6. BusRight' /\ QueueRight'
  BY <1>0, <1>1, QueueStays DEF BusRight, AckTypes
<1>7. TableRight'
  BY <1>0, <1>1, TableStays DEF AckTypes, ToBus
<1>8. Unchecked'
  BY <1>0, <1>1 DEF Unchecked, Slot
<1>9. Kept'
  <2>1. ASSUME NEW q \in Skb, skbat[q] \in InDriver, NEW s \in Stream, strm[q] = s
        PROVE  \E r \in Skb : strm'[r] = s /\ ack'[r] >= ack[q] /\ skbat'[r] \in InDriver
    <3>0. \A r \in Skb : ack[r] \in Int
      BY <1>0, AckNumbers DEF AckTypes, AckNo
    <3>1. /\ ack'[old] = ack[p] /\ skbat'[old] = skbat[old] /\ skbat[old] \in InDriver
          /\ strm'[old] = strm[p]
      BY <1>0, <1>1, <1>2, <1>3 DEF AckTypes, ToBus, InDriver, old
    <3>2. CASE q = p
      BY <1>3, <2>1, <3>0, <3>1, <3>2
    <3>3. CASE q = old
      BY <1>2, <1>3, <1>4, <2>1, <3>0, <3>1, <3>3 DEF old
    <3>4. CASE q /= p /\ q /= old
      <4>1. ack'[q] = ack[q] /\ skbat'[q] = skbat[q] /\ strm'[q] = strm[q]
        BY <1>0, <1>1, <1>3, <3>4 DEF AckTypes
      <4> QED
        BY <2>1, <3>0, <4>1
    <3> QED
      BY <3>2, <3>3, <3>4
  <2>2. \A s \in Stream : gone'[s] >= gone[s]
    BY <1>0, <1>1, AckNumbers DEF AckTypes, AckNo
  <2> QED
    BY <1>0, <1>1, <1>5, <2>1, <2>2, KeptOn
<1> QED
  BY <1>5, <1>6, <1>7, <1>8, <1>9 DEF AckGood

(***************************************************************************)
(* From the table to the SDIO bus.                                         *)
(***************************************************************************)
\* A packet that is in no queue is freed; it must not be in the table.
LEMMA FreedKept ==
  ASSUME AckGood, NEW p \in Skb, skbat[p] \in {"out", "refused"}, LeftWith({p}),
         skbat' = [skbat EXCEPT ![p] = "stack"],
         \A i \in Slot : tbl'[i] /= p,
         tbl' \in [Slot -> Skb \cup {NoSkb}], tblcnt' \in 0 .. INFO_MAX,
         supmode /= "HOLD" => \A i \in Slot : tbl'[i] /= NoSkb <=> i <= tblcnt',
         supmode = "OFF" => tblcnt' = 0,
         \A i, j \in Slot : tbl'[i] = tbl'[j] /\ tbl'[i] /= NoSkb => i = j,
         \A i \in Slot : tbl'[i] /= NoSkb => \E j \in Slot : tbl[j] = tbl'[i],
         UNCHANGED <<ackbus, supmode, strm, ack, ackq, chain, checked, newest, handed>>
  PROVE  AckGood'
<1>0. AckTypes /\ TableRight /\ QueueRight /\ Unchecked /\ Kept /\ BusRight
  BY DEF AckGood
<1>1. gone' \in [Stream -> AckNo]
  BY <1>0, LeftGoes
<1>2. AckTypes'
  BY <1>0, <1>1 DEF AckTypes, AckAt, Slot, AckNo
<1>3. BusRight' /\ QueueRight'
  BY <1>0, QueueStays DEF BusRight, AckTypes
<1>4. TableRight'
  <2>1. \A i \in Slot : tbl'[i] /= NoSkb =>
          skbat'[tbl'[i]] \in IF supmode = "HOLD" THEN {"held"} ELSE ToBus
    BY <1>0 DEF TableRight, AckTypes
  <2> QED
    BY <2>1 DEF TableRight, Slot
<1>5. Unchecked'
  <2>1. \A i \in Slot : tbl'[i] \in Skb => tbl'[i] \in {tbl[j] : j \in Slot}
    BY AckNumbers
  <2> QED
    BY <1>0, <2>1, UncheckedStays
<1>6. Kept'
  <2>1. \A q \in Skb \ {p} : skbat[q] \in InDriver => skbat'[q] \in InDriver
    BY <1>0 DEF AckTypes
  <2> QED
    BY <1>0, <1>2, <2>1, KeptLeaving
<1> QED
  BY <1>2, <1>3, <1>4, <1>5, <1>6 DEF AckGood

LEMMA DropKept ==
  ASSUME AckGood, NEW p \in Skb, DropEarly(p) \/ RingSend(p), ~forgotten'
  PROVE  AckGood'
<1>1. /\ skbat[p] = "out" /\ LeftWith({p}) /\ skbat' = [skbat EXCEPT ![p] = "stack"]
      /\ UNCHANGED <<ackbus, supmode, strm, ack, tbl, tblcnt, ackq, chain, checked, newest, handed>>
  BY DEF DropEarly, RingSend, SkbTo
<1>2. \A i \in Slot : tbl[i] /= p
  <2>1. CASE DropEarly(p)
    BY <2>1, AckNumbers DEF DropEarly, Listed
  <2>2. CASE RingSend(p)
    <3>1. supmode \in {"HOLD", "OFF"}
      BY <2>2 DEF RingSend, AckGood, BusRight
    <3>2. supmode = "OFF" => \A i \in Slot : tbl[i] = NoSkb
      BY AckNumbers DEF AckGood, TableRight, AckTypes, Slot
    <3>3. supmode = "HOLD" => \A i \in Slot : tbl[i] /= NoSkb => skbat[tbl[i]] = "held"
      BY DEF AckGood, TableRight
    <3> QED
      BY <1>1, <3>1, <3>2, <3>3, AckNumbers
  <2> QED
    BY <2>1, <2>2
<1> QED
  BY <1>1, <1>2, FreedKept DEF AckGood, AckTypes, TableRight

LEMMA OffTheBus ==
  ASSUME AckGood, ackbus = "sdio"
  PROVE  supmode /= "HOLD"
  BY DEF AckGood, BusRight

LEMMA RefusedKept ==
  ASSUME AckGood, NEW p \in Skb, AckRefused(p)
  PROVE  AckGood'
<1>1. /\ skbat[p] = "refused" /\ Unlist(p) /\ LeftWith({p})
      /\ skbat' = [skbat EXCEPT ![p] = "stack"]
      /\ UNCHANGED <<ackbus, supmode, strm, ack, ackq, chain, checked, newest, handed>>
  BY DEF AckRefused, SkbTo
<1>2. supmode /= "HOLD"
  BY <1>1 DEF AckGood, BusRight
<1> QED
  BY <1>1, <1>2, Unlisted, FreedKept DEF AckGood

LEMMA EnqueueKept ==
  ASSUME AckGood, NEW p \in Skb, AckEnqueue(p)
  PROVE  AckGood'
<1>0. AckTypes /\ TableRight /\ QueueRight /\ Unchecked /\ Kept /\ BusRight
  BY DEF AckGood
<1>1. /\ ackbus = "sdio" /\ skbat[p] = "out" /\ ackq' = Append(ackq, p)
      /\ skbat' = [skbat EXCEPT ![p] = "queued"]
      /\ UNCHANGED <<ackbus, supmode, strm, ack, tbl, tblcnt, chain, checked, newest, gone, handed>>
  BY DEF AckEnqueue, SkbTo
<1> DEFINE n == Len(ackq)
<1>2. /\ ackq' \in Seq(Skb) /\ Len(ackq') = n + 1 /\ n \in Nat
      /\ \A j \in 1 .. n : ackq'[j] = ackq[j] /\ ackq[j] \in Skb
      /\ ackq'[n + 1] = p
  BY <1>0, <1>1, AppendProperties, ElementOfSeq DEF AckTypes
<1>3. AckTypes'
  BY <1>0, <1>1, <1>2 DEF AckTypes, AckAt, InDriver, Slot, AckNo
<1>4. BusRight'
  BY <1>0, <1>1 DEF BusRight
<1>5. QueueRight'
  <2>0. \A k \in 1 .. Len(chain) : chain[k] \in Skb /\ chain[k] /= p
    BY <1>0, <1>1, ElementOfSeq DEF AckTypes, QueueRight
  <2>1. \A j \in 1 .. n : ackq[j] /= p
    BY <1>0, <1>1 DEF QueueRight
  <2> HIDE DEF n
  <2>2. \A j \in 1 .. n + 1 : j \in 1 .. n \/ j = n + 1
    BY <1>2
  <2>3. \A j \in 1 .. n + 1 : skbat'[ackq'[j]] = "queued"
    BY <1>0, <1>1, <1>2, <2>1, <2>2 DEF QueueRight, AckTypes, n
  <2>4. \A j, k \in 1 .. n + 1 : ackq'[j] = ackq'[k] => j = k
    BY <1>0, <1>2, <2>1, <2>2 DEF QueueRight, n
  <2>5. \A k \in 1 .. Len(chain) : skbat'[chain[k]] = skbat[chain[k]]
    BY <1>0, <1>1, <2>0 DEF AckTypes
  <2>6. \A j \in 1 .. n + 1 : \A k \in 1 .. Len(chain) : ackq'[j] /= chain[k]
    BY <1>0, <1>2, <2>0, <2>2 DEF QueueRight, n
  <2> QED
    BY <1>0, <1>1, <1>2, <2>3, <2>4, <2>5, <2>6 DEF QueueRight
<1>6. TableRight'
  BY <1>0, <1>1, OffTheBus, TableStays DEF AckTypes, ToBus
<1>7. Unchecked'
  BY <1>0, <1>1 DEF Unchecked, Slot
<1>8. Kept'
  <2>1. \A q \in Skb : skbat[q] \in InDriver => skbat'[q] \in InDriver
    BY <1>0, <1>1 DEF AckTypes, InDriver
  <2> QED
    BY <1>0, <1>1, <1>3, <2>1, KeptMoving
<1> QED
  BY <1>3, <1>4, <1>5, <1>6, <1>7, <1>8 DEF AckGood

LEMMA EvictKept ==
  ASSUME AckGood, NEW p \in Skb, AckEvict(p)
  PROVE  AckGood'
<1>0. AckTypes /\ TableRight /\ QueueRight /\ Unchecked /\ Kept /\ BusRight
  BY DEF AckGood
<1> DEFINE h == Head(ackq)
           n == Len(ackq)
<1>1. /\ ackbus = "sdio" /\ skbat[p] = "out" /\ n >= ACKQ_LEN
      /\ Unlist(h) /\ LeftWith({h})
      /\ skbat' = [skbat EXCEPT ![h] = "stack", ![p] = "queued"]
      /\ ackq' = Append(Tail(ackq), p)
      /\ UNCHANGED <<ackbus, supmode, strm, ack, chain, checked, newest, handed>>
  BY DEF AckEvict
<1>2. n \in Nat /\ n >= 1 /\ ackq /= <<>> /\ ackq \in Seq(Skb)
      /\ \A j \in 1 .. n : ackq[j] \in Skb
  <2>1. ackq \in Seq(Skb) /\ n \in Nat
    BY <1>0 DEF AckTypes
  <2>2. n >= 1
    BY <1>1, <2>1, AckNumbers
  <2> QED
    BY <2>1, <2>2, ElementOfSeq, EmptySeq
<1>3. h = ackq[1] /\ h \in Skb /\ skbat[h] = "queued" /\ h /= p
  <2>1. h = ackq[1]
    BY <1>2
  <2> QED
    BY <1>0, <1>1, <1>2, <2>1 DEF QueueRight
<1>4. /\ ackq' \in Seq(Skb) /\ Len(ackq') = n
      /\ \A j \in 1 .. n - 1 : ackq'[j] = ackq[j + 1] /\ j + 1 \in 1 .. n
      /\ ackq'[n] = p
  <2>1. /\ Tail(ackq) \in Seq(Skb) /\ Len(Tail(ackq)) = n - 1
        /\ \A j \in 1 .. n - 1 : Tail(ackq)[j] = ackq[j + 1]
    BY <1>2, HeadTailProperties
  <2> DEFINE t == Tail(ackq)
  <2> HIDE DEF t
  <2>2. /\ Append(t, p) \in Seq(Skb) /\ Len(Append(t, p)) = Len(t) + 1
        /\ \A j \in 1 .. Len(t) : Append(t, p)[j] = t[j]
        /\ Append(t, p)[Len(t) + 1] = p
    BY <2>1, AppendProperties DEF t
  <2> HIDE DEF n
  <2> QED
    BY <1>1, <1>2, <2>1, <2>2 DEF t
<1> HIDE DEF h, n
<1>5. /\ tbl' \in [Slot -> Skb \cup {NoSkb}] /\ tblcnt' \in 0 .. INFO_MAX
      /\ \A i \in Slot : tbl'[i] /= NoSkb <=> i <= tblcnt'
      /\ supmode = "OFF" => tblcnt' = 0
      /\ \A i, j \in Slot : tbl'[i] = tbl'[j] /\ tbl'[i] /= NoSkb => i = j
      /\ \A i \in Slot : tbl'[i] /= h
      /\ \A i \in Slot : tbl'[i] /= NoSkb => \E j \in Slot : tbl[j] = tbl'[i]
      /\ supmode /= "HOLD"
  <2>1. supmode /= "HOLD"
    BY <1>1, OffTheBus
  <2> QED
    BY <1>0, <1>1, <1>3, <2>1, Unlisted
<1>6. gone' \in [Stream -> AckNo]
  BY <1>0, <1>1, <1>3, LeftGoes
<1>7. AckTypes'
  <2>1. skbat' \in [Skb -> AckAt]
    BY <1>0, <1>1 DEF AckTypes, AckAt, InDriver
  <2> QED
    BY <1>0, <1>1, <1>4, <1>5, <1>6, <2>1 DEF AckTypes, AckNo
<1>8. BusRight'
  BY <1>0, <1>1 DEF BusRight
<1>9. /\ skbat'[h] = "stack" /\ skbat'[p] = "queued"
      /\ \A q \in Skb : q /= h /\ q /= p => skbat'[q] = skbat[q]
  BY <1>0, <1>1, <1>3 DEF AckTypes
<1>10. QueueRight'
  <2>0. \A k \in 1 .. Len(chain) : chain[k] \in Skb /\ chain[k] /= p /\ chain[k] /= h
    <3>1. \A k \in 1 .. Len(chain) : chain[k] \in Skb /\ chain[k] /= p
      BY <1>0, <1>1, ElementOfSeq DEF AckTypes, QueueRight
    <3>2. \A k \in 1 .. Len(chain) : ackq[1] /= chain[k]
      BY <1>0, <1>2 DEF QueueRight, n
    <3> QED
      BY <1>3, <3>1, <3>2
  <2>1. \A j \in 1 .. n : ackq[j] /= p /\ (j > 1 => ackq[j] /= h)
    BY <1>0, <1>1, <1>2, <1>3 DEF QueueRight, n
  <2>2. \A j \in 1 .. n : j \in 1 .. n - 1 \/ j = n
    BY <1>2
  <2>3. \A j \in 1 .. n - 1 : ackq'[j] \in Skb /\ ackq'[j] /= h /\ ackq'[j] /= p
    BY <1>2, <1>4, <2>1
  <2>4. \A j \in 1 .. n : skbat'[ackq'[j]] = "queued"
    <3>1. \A j \in 1 .. n - 1 : skbat[ackq[j + 1]] = "queued"
      BY <1>0, <1>4 DEF QueueRight, n
    <3> QED
      BY <1>4, <1>9, <2>2, <2>3, <3>1
  <2>5. \A j, k \in 1 .. n : ackq'[j] = ackq'[k] => j = k
    <3>1. ASSUME NEW j \in 1 .. n - 1, NEW k \in 1 .. n - 1, ackq'[j] = ackq'[k] PROVE j = k
      <4>1. j + 1 = k + 1
        BY <1>0, <1>4, <3>1 DEF QueueRight, n
      <4> QED
        BY <4>1
    <3> QED
      BY <1>4, <2>2, <2>3, <3>1
  <2>6. \A j \in 1 .. n : \A k \in 1 .. Len(chain) : ackq'[j] /= chain[k]
    BY <1>0, <1>4, <2>0, <2>2 DEF QueueRight, n
  <2>7. \A k \in 1 .. Len(chain) : skbat'[chain[k]] = skbat[chain[k]]
    BY <1>9, <2>0
  <2>8. \/ \A k \in 1 .. Len(chain) : skbat'[chain[k]] = "queued"
        \/ \A k \in 1 .. Len(chain) : skbat'[chain[k]] = "sent"
    BY <1>0, <2>7 DEF QueueRight
  <2>9. \A j, k \in 1 .. Len(chain) : chain[j] = chain[k] => j = k
    BY <1>0 DEF QueueRight
  <2>10. chain' = chain /\ Len(ackq') = n
    BY <1>1, <1>4
  <2> QED
    BY <2>4, <2>5, <2>6, <2>8, <2>9, <2>10 DEF QueueRight
<1>11. TableRight'
  <2>1. \A i \in Slot : tbl'[i] /= NoSkb => skbat'[tbl'[i]] \in ToBus
    <3> SUFFICES ASSUME NEW i \in Slot, tbl'[i] /= NoSkb PROVE skbat'[tbl'[i]] \in ToBus
      OBVIOUS
    <3>1. tbl'[i] \in Skb /\ tbl'[i] /= h /\ skbat[tbl'[i]] \in ToBus
      BY <1>0, <1>5 DEF TableRight
    <3> QED
      BY <1>9, <3>1 DEF ToBus
  <2> QED
    BY <1>1, <1>5, <2>1 DEF TableRight, Slot
<1>12. Unchecked'
  <2>1. \A i \in Slot : tbl'[i] \in Skb => tbl'[i] \in {tbl[j] : j \in Slot}
    BY <1>5, AckNumbers
  <2> QED
    BY <1>0, <1>1, <2>1, UncheckedStays
<1>13. Kept'
  <2>1. \A q \in Skb \ {h} : skbat[q] \in InDriver => skbat'[q] \in InDriver
    BY <1>9 DEF InDriver
  <2> QED
    BY <1>0, <1>1, <1>3, <1>7, <2>1, KeptLeaving
<1> QED
  BY <1>7, <1>8, <1>10, <1>11, <1>12, <1>13 DEF AckGood

\* The chain takes the first packets of the queue.
LEMMA TakeKept ==
  ASSUME AckGood, NEW k \in 1 .. ACK_GLOM, ChainTake(k)
  PROVE  AckGood'
<1>0. AckTypes /\ TableRight /\ QueueRight /\ Unchecked /\ Kept /\ BusRight
  BY DEF AckGood
<1> DEFINE n == Len(ackq)
<1>1. /\ chain = <<>> /\ k <= n /\ checked' = 0
      /\ chain' = SubSeq(ackq, 1, k) /\ ackq' = SubSeq(ackq, k + 1, n)
      /\ UNCHANGED <<ackbus, supmode, skbat, strm, ack, tbl, tblcnt, newest, gone, handed>>
  BY DEF ChainTake
<1>2. /\ n \in Nat /\ k \in Nat /\ k >= 1 /\ k <= n
      /\ \A j \in 1 .. n : ackq[j] \in Skb
  <2>1. ackq \in Seq(Skb) /\ ACK_GLOM \in Nat
    BY <1>0, AckAssumption DEF AckTypes
  <2> QED
    BY <1>1, <2>1, ElementOfSeq
<1>3. /\ chain' \in Seq(Skb) /\ Len(chain') = k
      /\ \A j \in 1 .. k : chain'[j] = ackq[j] /\ j \in 1 .. n
  <2>1. \A j \in 1 .. k : ackq[j] \in Skb
    BY <1>2
  <2>2. /\ SubSeq(ackq, 1, k) \in Seq(Skb)
        /\ Len(SubSeq(ackq, 1, k)) = IF 1 <= k THEN k - 1 + 1 ELSE 0
        /\ \A j \in 1 .. k - 1 + 1 : SubSeq(ackq, 1, k)[j] = ackq[1 + j - 1]
    BY <1>2, <2>1, SubSeqProperties
  <2> HIDE DEF n
  <2> QED
    BY <1>1, <1>2, <2>2
<1>4. /\ ackq' \in Seq(Skb) /\ Len(ackq') = n - k
      /\ \A j \in 1 .. n - k : ackq'[j] = ackq[j + k] /\ j + k \in 1 .. n /\ j + k > k
  <2>1. \A j \in k + 1 .. n : ackq[j] \in Skb
    BY <1>2
  <2>2. /\ SubSeq(ackq, k + 1, n) \in Seq(Skb)
        /\ Len(SubSeq(ackq, k + 1, n)) = IF k + 1 <= n THEN n - (k + 1) + 1 ELSE 0
        /\ \A j \in 1 .. n - (k + 1) + 1 : SubSeq(ackq, k + 1, n)[j] = ackq[(k + 1) + j - 1]
    BY <1>2, <2>1, SubSeqProperties
  <2> HIDE DEF n
  <2>3. \A j \in 1 .. n - k : j \in 1 .. n - (k + 1) + 1 /\ (k + 1) + j - 1 = j + k
    BY <1>2
  <2>4. (IF k + 1 <= n THEN n - (k + 1) + 1 ELSE 0) = n - k
    BY <1>2
  <2>5. \A j \in 1 .. n - k : j + k \in 1 .. n /\ j + k > k
    BY <1>2
  <2> QED
    BY <1>1, <2>2, <2>3, <2>4, <2>5
<1>5. AckTypes'
  <2>1. checked' \in 0 .. Len(chain')
    BY <1>1, <1>2, <1>3
  <2> QED
    BY <1>0, <1>1, <1>3, <1>4, <2>1 DEF AckTypes, Slot, AckNo
<1>6. BusRight'
  <2>1. ackbus = "pcie" => n = 0
    BY <1>0 DEF BusRight
  <2> QED
    BY <1>0, <1>1, <1>2, <2>1 DEF BusRight
<1>7. QueueRight'
  <2>1. \A i, j \in 1 .. n : ackq[i] = ackq[j] => i = j
    BY <1>0 DEF QueueRight
  <2>2. \A j \in 1 .. n : skbat[ackq[j]] = "queued"
    BY <1>0 DEF QueueRight
  <2> HIDE DEF n
  <2>3. \A j \in 1 .. n - k : skbat'[ackq'[j]] = "queued"
    BY <1>1, <1>4, <2>2
  <2>4. \A j \in 1 .. k : skbat'[chain'[j]] = "queued"
    BY <1>1, <1>3, <2>2
  <2>5. \A i, j \in 1 .. k : chain'[i] = chain'[j] => i = j
    BY <1>3, <2>1
  <2>6. \A i, j \in 1 .. n - k : ackq'[i] = ackq'[j] => i = j
    <3> SUFFICES ASSUME NEW i \in 1 .. n - k, NEW j \in 1 .. n - k, ackq'[i] = ackq'[j]
                 PROVE  i = j
      OBVIOUS
    <3>1. i + k = j + k
      BY <1>4, <2>1
    <3> QED
      BY <1>2, <3>1
  <2>7. \A i \in 1 .. n - k, j \in 1 .. k : ackq'[i] /= chain'[j]
    <3> SUFFICES ASSUME NEW i \in 1 .. n - k, NEW j \in 1 .. k, ackq'[i] = chain'[j]
                 PROVE  FALSE
      OBVIOUS
    <3>1. i + k = j
      BY <1>3, <1>4, <2>1
    <3> QED
      BY <1>2, <3>1
  <2> QED
    BY <1>3, <1>4, <2>3, <2>4, <2>5, <2>6, <2>7 DEF QueueRight
<1>8. TableRight' /\ Kept'
  BY <1>0, <1>1 DEF TableRight, Kept, Slot
<1>9. Unchecked'
  BY <1>1, <1>2, <1>3 DEF Unchecked
<1> QED
  BY <1>5, <1>6, <1>7, <1>8, <1>9 DEF AckGood

\* What the chain looks like before it is sent or given up.
LEMMA ChainKnown ==
  ASSUME AckTypes, QueueRight, chain /= <<>>
  PROVE  /\ Len(chain) \in Nat /\ Len(chain) >= 1 /\ chain \in Seq(Skb)
         /\ checked \in 0 .. Len(chain)
         /\ \A k \in 1 .. Len(chain) : chain[k] \in Skb
         /\ Range(chain) = {chain[k] : k \in 1 .. Len(chain)} /\ Range(chain) \subseteq Skb
         /\ ChainUnsent => \A k \in 1 .. Len(chain) : skbat[chain[k]] = "queued"
         /\ ~ChainUnsent => \A k \in 1 .. Len(chain) : skbat[chain[k]] = "sent"
<1>1. /\ chain \in Seq(Skb) /\ checked \in 0 .. Len(chain) /\ Len(chain) \in Nat \ {0}
      /\ DOMAIN chain = 1 .. Len(chain)
  BY EmptySeq, LenProperties DEF AckTypes
<1>2. \A k \in 1 .. Len(chain) : chain[k] \in Skb
  BY <1>1, ElementOfSeq
<1>3. Range(chain) = {chain[k] : k \in 1 .. Len(chain)}
  BY <1>1 DEF Range
<1>4. Len(chain) >= 1 /\ 1 \in 1 .. Len(chain)
  BY <1>1
<1>5. Range(chain) \subseteq Skb
  BY <1>2, <1>3
<1> QED
  BY <1>1, <1>2, <1>3, <1>4, <1>5 DEF ChainUnsent, QueueRight

LEMMA CheckKept ==
  ASSUME AckGood, ChainCheck
  PROVE  AckGood'
<1>0. AckTypes /\ TableRight /\ QueueRight /\ Unchecked /\ Kept /\ BusRight
  BY DEF AckGood
<1> DEFINE p == chain[checked + 1]
<1>1. /\ chain /= <<>> /\ checked < Len(chain) /\ Unlist(p) /\ checked' = checked + 1
      /\ UNCHANGED <<ackbus, supmode, skbat, strm, ack, ackq, chain, newest, gone, handed>>
  BY DEF ChainCheck, ChainUnsent
<1>2. /\ Len(chain) \in Nat /\ checked \in 0 .. Len(chain)
      /\ \A k \in 1 .. Len(chain) : chain[k] \in Skb
  BY <1>0, <1>1, ChainKnown
<1>3. p \in Skb /\ supmode /= "HOLD"
  BY <1>0, <1>1, <1>2 DEF BusRight
<1> HIDE DEF p
<1>4. /\ tbl' \in [Slot -> Skb \cup {NoSkb}] /\ tblcnt' \in 0 .. INFO_MAX
      /\ \A i \in Slot : tbl'[i] /= NoSkb <=> i <= tblcnt'
      /\ supmode = "OFF" => tblcnt' = 0
      /\ \A i, j \in Slot : tbl'[i] = tbl'[j] /\ tbl'[i] /= NoSkb => i = j
      /\ \A i \in Slot : tbl'[i] /= p
      /\ \A i \in Slot : tbl'[i] /= NoSkb => \E j \in Slot : tbl[j] = tbl'[i]
  BY <1>0, <1>1, <1>3, Unlisted
<1>5. AckTypes'
  <2>1. checked' \in 0 .. Len(chain)
    BY <1>1, <1>2
  <2> QED
    BY <1>0, <1>1, <1>4, <2>1 DEF AckTypes, AckNo
<1>6. BusRight' /\ QueueRight' /\ Kept'
  BY <1>0, <1>1 DEF BusRight, QueueRight, Kept
<1>7. TableRight'
  <2>1. \A i \in Slot : tbl'[i] /= NoSkb => skbat[tbl'[i]] \in ToBus
    BY <1>0, <1>3, <1>4 DEF TableRight
  <2> QED
    BY <1>1, <1>3, <1>4, <2>1 DEF TableRight, Slot
<1>8. Unchecked'
  <2> SUFFICES ASSUME NEW i \in Slot, NEW k \in 1 .. Len(chain), tbl'[i] = chain[k]
               PROVE  checked + 1 < k
    BY <1>1 DEF Unchecked, Slot
  <2>1. tbl'[i] /= NoSkb
    BY <1>2, AckNumbers
  <2>2. PICK j \in Slot : tbl[j] = chain[k]
    BY <1>4, <2>1
  <2>3. checked < k
    BY <1>0, <2>2 DEF Unchecked
  <2>4. k /= checked + 1
    BY <1>4 DEF p
  <2> QED
    BY <1>2, <2>3, <2>4
<1> QED
  BY <1>5, <1>6, <1>7, <1>8 DEF AckGood

\* The packets of the chain leave the driver; none may still be listed.
LEMMA ChainGone ==
  ASSUME AckGood, chain /= <<>>, NEW to \in {"stack", "sent"},
         skbat' = [p \in Skb |-> IF p \in Range(chain) THEN to ELSE skbat[p]],
         to = "sent" => chain' = chain /\ checked' = checked,
         to = "stack" => chain' = <<>> /\ checked' = 0,
         \A i \in Slot : tbl[i] \notin Range(chain),
         LeftWith(Range(chain)) \/ (~ChainUnsent /\ gone' = gone),
         UNCHANGED <<ackbus, supmode, strm, ack, tbl, tblcnt, ackq, newest, handed>>
  PROVE  AckGood'
<1>0. AckTypes /\ TableRight /\ QueueRight /\ Unchecked /\ Kept /\ BusRight
  BY DEF AckGood
<1>1. /\ chain \in Seq(Skb)
      /\ \A k \in 1 .. Len(chain) : chain[k] \in Skb /\ chain[k] \in Range(chain)
      /\ Range(chain) = {chain[k] : k \in 1 .. Len(chain)} /\ Range(chain) \subseteq Skb
      /\ ~ChainUnsent => \A k \in 1 .. Len(chain) : skbat[chain[k]] = "sent"
  BY <1>0, ChainKnown
<1>2. \A p \in Skb : skbat'[p] = IF p \in Range(chain) THEN to ELSE skbat[p]
  OBVIOUS
<1>3. gone' \in [Stream -> AckNo]
  BY <1>0, <1>1, LeftGoes DEF AckTypes
<1>4. AckTypes'
  <2>1. skbat' \in [Skb -> AckAt]
    BY <1>0 DEF AckTypes, AckAt
  <2>2. chain' \in Seq(Skb) /\ checked' \in 0 .. Len(chain')
    <3>1. CASE to = "sent"
      BY <1>0, <3>1 DEF AckTypes
    <3>2. CASE to = "stack"
      BY <3>2, EmptySeq
    <3> QED
      BY <3>1, <3>2
  <2> QED
    BY <1>0, <1>3, <2>1, <2>2 DEF AckTypes, Slot, AckNo
<1>5. BusRight'
  BY <1>0, <1>2 DEF BusRight
<1>6. QueueRight'
  <2>1. \A j \in 1 .. Len(ackq) : ackq[j] \in Skb /\ ackq[j] \notin Range(chain)
    BY <1>0, <1>1, ElementOfSeq DEF QueueRight, AckTypes
  <2>2. \A j \in 1 .. Len(ackq) : skbat'[ackq[j]] = "queued"
    BY <1>0, <1>2, <2>1 DEF QueueRight
  <2>3. CASE to = "sent"
    <3>1. \A k \in 1 .. Len(chain) : skbat'[chain[k]] = "sent"
      BY <1>1, <1>2, <2>3
    <3> QED
      BY <1>0, <2>2, <2>3, <3>1 DEF QueueRight
  <2>4. CASE to = "stack"
    <3>1. chain' = <<>> /\ 1 .. Len(chain') = {}
      BY <2>4
    <3> QED
      BY <1>0, <2>2, <3>1 DEF QueueRight
  <2> QED
    BY <2>3, <2>4
<1>7. TableRight'
  <2>1. \A i \in Slot : tbl[i] /= NoSkb => skbat'[tbl[i]] = skbat[tbl[i]]
    BY <1>0, <1>2 DEF AckTypes
  <2> QED
    BY <1>0, <2>1 DEF TableRight, Slot
<1>8. Unchecked'
  <2>1. CASE to = "sent"
    BY <1>0, <2>1 DEF Unchecked, Slot
  <2>2. CASE to = "stack"
    <3>1. 1 .. Len(chain') = {}
      BY <2>2
    <3> QED
      BY <3>1 DEF Unchecked
  <2> QED
    BY <2>1, <2>2
<1>9. Kept'
  <2>1. CASE LeftWith(Range(chain))
    <3>1. \A q \in Skb \ Range(chain) : skbat[q] \in InDriver => skbat'[q] \in InDriver
      BY <1>2
    <3> QED
      BY <1>0, <1>1, <1>4, <2>1, <3>1, KeptLeaving
  <2>2. CASE ~ChainUnsent /\ gone' = gone
    <3>1. \A q \in Skb : skbat[q] \in InDriver => skbat'[q] \in InDriver
      BY <1>1, <1>2, <2>2 DEF InDriver
    <3> QED
      BY <1>0, <1>4, <2>2, <3>1, KeptMoving
  <2> QED
    BY <2>1, <2>2
<1> QED
  BY <1>4, <1>5, <1>6, <1>7, <1>8, <1>9 DEF AckGood

LEMMA ChainKept ==
  ASSUME AckGood, ChainFails \/ ChainSend \/ ChainFree, ~forgotten'
  PROVE  AckGood'
<1>0. AckTypes /\ TableRight /\ QueueRight /\ Unchecked /\ BusRight
  BY DEF AckGood
<1>1. chain /= <<>>
  BY DEF ChainFails, ChainSend, ChainFree, ChainUnsent
<1>2. /\ Range(chain) = {chain[k] : k \in 1 .. Len(chain)} /\ Range(chain) \subseteq Skb
      /\ Len(chain) \in Nat
      /\ ~ChainUnsent => \A k \in 1 .. Len(chain) : skbat[chain[k]] = "sent"
  BY <1>0, <1>1, ChainKnown
<1>3. CASE ChainFails
  <2>1. \A i \in Slot : tbl[i] \notin Range(chain)
    BY <1>2, <1>3, AckNumbers DEF ChainFails, Listed
  <2> QED
    BY <1>1, <1>3, <2>1, ChainGone DEF ChainFails
<1>4. CASE ChainSend
  <2>1. \A i \in Slot : tbl[i] \notin Range(chain)
    <3> SUFFICES ASSUME NEW i \in Slot, NEW k \in 1 .. Len(chain), tbl[i] = chain[k]
                 PROVE  FALSE
      BY <1>2
    <3>1. checked < k /\ checked = Len(chain)
      BY <1>0, <1>4 DEF Unchecked, ChainSend
    <3> QED
      BY <1>2, <3>1
  <2> QED
    BY <1>1, <1>4, <2>1, ChainGone DEF ChainSend
<1>5. CASE ChainFree
  <2>1. \A i \in Slot : tbl[i] \notin Range(chain)
    <3> SUFFICES ASSUME NEW i \in Slot, NEW k \in 1 .. Len(chain), tbl[i] = chain[k]
                 PROVE  FALSE
      BY <1>2
    <3>1. chain[k] \in Skb /\ skbat[chain[k]] = "sent"
      BY <1>2, <1>5 DEF ChainFree
    <3>2. tbl[i] /= NoSkb
      BY <3>1, AckNumbers
    <3> QED
      BY <1>0, <3>1, <3>2 DEF TableRight, ToBus
  <2> QED
    BY <1>1, <1>5, <2>1, ChainGone DEF ChainFree
<1> QED
  BY <1>3, <1>4, <1>5

(***************************************************************************)
(* dhd_tcpack_hold and its timers.                                         *)
(***************************************************************************)
\* On PCIe there is no queue; what is said of the table is enough.
LEMMA HeldTable ==
  ASSUME AckGood, supmode = "HOLD",
         UNCHANGED <<ackbus, supmode, strm, ack, tblcnt, ackq, chain, checked, newest, handed>>,
         skbat' \in [Skb -> AckAt], \A p \in Skb : skbat'[p] /= "refused",
         gone' \in [Stream -> AckNo], tbl' \in [Slot -> Skb \cup {NoSkb}],
         \A i, j \in Slot : tbl'[i] = tbl'[j] /\ tbl'[i] /= NoSkb => i = j,
         \A i \in Slot : tbl'[i] /= NoSkb => skbat'[tbl'[i]] = "held"
  PROVE  AckTypes' /\ BusRight' /\ QueueRight' /\ TableRight' /\ Unchecked'
<1>1. ackbus = "pcie" /\ ackq = <<>> /\ chain = <<>>
  BY DEF AckGood, BusRight
<1>2. 1 .. Len(chain) = {} /\ 1 .. Len(ackq) = {}
  BY <1>1
<1>3. AckTypes'
  BY DEF AckGood, AckTypes, Slot, AckNo
<1>4. BusRight'
  BY DEF AckGood, BusRight
<1>5. QueueRight' /\ Unchecked'
  BY <1>2 DEF QueueRight, Unchecked
<1>6. TableRight'
  BY DEF TableRight, Slot
<1> QED
  BY <1>3, <1>4, <1>5, <1>6

\* What is in the table while packets are held back.
LEMMA HeldKnown ==
  ASSUME AckGood, supmode = "HOLD"
  PROVE  /\ AckTypes /\ Kept /\ ackbus = "pcie"
         /\ skbat \in [Skb -> AckAt] /\ tbl \in [Slot -> Skb \cup {NoSkb}]
         /\ gone \in [Stream -> AckNo] /\ NoSkb \notin Skb /\ Slot \subseteq Nat
         /\ \A p \in Skb : skbat[p] /= "refused" /\ ack[p] \in Int
         /\ \A i \in Slot : tbl[i] /= NoSkb => tbl[i] \in Skb /\ skbat[tbl[i]] = "held"
         /\ \A i, j \in Slot : tbl[i] = tbl[j] /\ tbl[i] /= NoSkb => i = j
         /\ \A s \in Stream : gone[s] >= gone[s]
<1>1. AckTypes /\ Kept /\ BusRight /\ TableRight
  BY DEF AckGood
<1>2. \A i \in Slot : tbl[i] /= NoSkb => skbat[tbl[i]] = "held"
  BY <1>1 DEF TableRight
<1>3. \A i, j \in Slot : tbl[i] = tbl[j] /\ tbl[i] /= NoSkb => i = j
  BY <1>1 DEF TableRight
<1>4. /\ \A s \in Stream : gone[s] >= gone[s]
      /\ \A p \in Skb : ack[p] \in Int
  BY <1>1, AckNumbers DEF AckTypes, AckNo
<1> QED
  BY <1>1, <1>2, <1>3, <1>4, AckNumbers DEF AckTypes, BusRight, Slot

LEMMA FirstKept ==
  ASSUME AckGood, NEW p \in Skb, HoldFirst(p)
  PROVE  AckGood'
<1> DEFINE i == Min(Free)
<1>1. /\ skbat[p] = "look" /\ supmode = "HOLD" /\ Free /= {}
      /\ tbl' = [tbl EXCEPT ![i] = p] /\ skbat' = [skbat EXCEPT ![p] = "held"]
      /\ UNCHANGED <<ackbus, supmode, strm, ack, tblcnt, ackq, chain, checked, newest, gone, handed>>
  BY DEF HoldFirst, Holding, SkbTo
<1>2. i \in Slot
  BY <1>1, AckNumbers, SmallestMember DEF Free, Slot
<1> HIDE DEF i
<1>3. \A j \in Slot : tbl'[j] = IF j = i THEN p ELSE tbl[j]
  BY <1>1, <1>2, HeldKnown
<1>4. \A j \in Slot : tbl[j] /= p
  BY <1>1, HeldKnown
<1>5. AckTypes' /\ BusRight' /\ QueueRight' /\ TableRight' /\ Unchecked'
  <2>1. skbat' \in [Skb -> AckAt] /\ \A q \in Skb : skbat'[q] /= "refused"
    BY <1>1, HeldKnown DEF AckAt, InDriver
  <2>2. tbl' \in [Slot -> Skb \cup {NoSkb}]
    BY <1>1, <1>2, HeldKnown
  <2>3. \A j \in Slot : tbl'[j] /= NoSkb => skbat'[tbl'[j]] = "held"
    BY <1>1, <1>3, HeldKnown
  <2>4. \A j, k \in Slot : tbl'[j] = tbl'[k] /\ tbl'[j] /= NoSkb => j = k
    BY <1>1, <1>3, <1>4, HeldKnown
  <2> QED
    BY <1>1, <2>1, <2>2, <2>3, <2>4, HeldTable, HeldKnown
<1>6. Kept'
  <2>1. \A q \in Skb : skbat[q] \in InDriver => skbat'[q] \in InDriver
    BY <1>1, HeldKnown DEF InDriver
  <2> QED
    BY <1>1, <1>5, <2>1, KeptMoving, HeldKnown
<1> QED
  BY <1>5, <1>6 DEF AckGood

\* The first slot that holds a packet of the stream.
LEMMA HeldSlot ==
  ASSUME AckGood, NEW p \in Skb, Holding(p), Held(p) /= {}
  PROVE  /\ Min(Held(p)) \in Slot /\ tbl[Min(Held(p))] \in Skb \ {p}
         /\ strm[tbl[Min(Held(p))]] = strm[p] /\ skbat[tbl[Min(Held(p))]] = "held"
<1> DEFINE i == Min(Held(p))
<1>1. supmode = "HOLD" /\ skbat[p] = "look"
  BY DEF Holding
<1>2. i \in Held(p)
  <2>1. Held(p) \subseteq Nat
    BY <1>1, HeldKnown DEF Held
  <2> QED
    BY <2>1, SmallestMember
<1>3. i \in Slot /\ tbl[i] /= NoSkb /\ strm[tbl[i]] = strm[p]
  BY <1>2 DEF Held, Free
<1> HIDE DEF i
<1>4. tbl[i] \in Skb \ {p} /\ skbat[tbl[i]] = "held"
  BY <1>1, <1>3, HeldKnown
<1> QED
  BY <1>3, <1>4 DEF i

\* The one held before is freed; the newer one takes its place or goes.
LEMMA NewerKept ==
  ASSUME AckWindow, AckGood, NEW p \in Skb, HoldNewer(p)
  PROVE  AckGood'
<1> DEFINE i == Min(Held(p))
           old == tbl[i]
<1>1. Holding(p) /\ Held(p) /= {}
  BY DEF HoldNewer
<1>2. i \in Slot /\ old \in Skb /\ old /= p /\ strm[old] = strm[p] /\ skbat[old] = "held"
  BY <1>1, HeldSlot
<1>3. PICK last \in BOOLEAN :
        /\ tbl' = [tbl EXCEPT ![i] = IF last THEN NoSkb ELSE p]
        /\ skbat' = [skbat EXCEPT ![old] = "stack", ![p] = IF last THEN "untime" ELSE "held"]
  <2>1. (supp[i] + 1 >= RATIO) \in BOOLEAN
    OBVIOUS
  <2> QED
    BY <2>1, Zenon DEF HoldNewer
<1>4. /\ SeqGE(ack[p], ack[old])
      /\ UNCHANGED <<ackbus, supmode, strm, ack, tblcnt, ackq, chain, checked, newest, gone, handed>>
  BY DEF HoldNewer
<1> HIDE DEF i, old
<1>5. skbat[p] = "look" /\ supmode = "HOLD"
  BY <1>1 DEF Holding
<1>6. \A j \in Slot : tbl'[j] = IF j = i THEN (IF last THEN NoSkb ELSE p) ELSE tbl[j]
  BY <1>2, <1>3, <1>5, HeldKnown
<1>7. /\ skbat'[old] = "stack" /\ skbat'[p] = IF last THEN "untime" ELSE "held"
      /\ \A q \in Skb : q /= old /\ q /= p => skbat'[q] = skbat[q]
  BY <1>2, <1>3, <1>5, HeldKnown
<1>8. \A j \in Slot : tbl[j] /= p /\ (j /= i => tbl[j] /= old)
  BY <1>2, <1>5, HeldKnown DEF old
<1>9. ack[p] >= ack[old]
  <2>1. ack[p] \in AckNo /\ ack[old] \in AckNo
    BY <1>2 DEF AckGood, AckTypes
  <2> QED
    BY <1>4, <2>1, SeqCompare
<1>10. AckTypes' /\ BusRight' /\ QueueRight' /\ TableRight' /\ Unchecked'
  <2>1. skbat' \in [Skb -> AckAt] /\ \A q \in Skb : skbat'[q] /= "refused"
    <3>1. skbat' \in [Skb -> AckAt]
      BY <1>3, <1>5, HeldKnown DEF AckAt, InDriver
    <3> QED
      BY <1>5, <1>7, <3>1, HeldKnown
  <2>2. tbl' \in [Slot -> Skb \cup {NoSkb}]
    BY <1>3, <1>5, HeldKnown
  <2>3. \A j \in Slot : tbl'[j] /= NoSkb => skbat'[tbl'[j]] = "held"
    <3> SUFFICES ASSUME NEW j \in Slot, tbl'[j] /= NoSkb PROVE skbat'[tbl'[j]] = "held"
      OBVIOUS
    <3>1. CASE j = i
      BY <1>6, <1>7, <3>1
    <3>2. CASE j /= i
      BY <1>5, <1>6, <1>7, <1>8, <3>2, HeldKnown
    <3> QED
      BY <3>1, <3>2
  <2>4. \A j, k \in Slot : tbl'[j] = tbl'[k] /\ tbl'[j] /= NoSkb => j = k
    BY <1>5, <1>6, <1>8, HeldKnown
  <2> QED
    BY <1>4, <1>5, <2>1, <2>2, <2>3, <2>4, HeldTable, HeldKnown
<1>11. Kept'
  <2>1. ASSUME NEW q \in Skb, skbat[q] \in InDriver, NEW s \in Stream, strm[q] = s
        PROVE  \E r \in Skb : strm'[r] = s /\ ack'[r] >= ack[q] /\ skbat'[r] \in InDriver
    <3>1. skbat'[p] \in InDriver /\ strm' = strm /\ ack' = ack
      BY <1>4, <1>7 DEF InDriver
    <3>2. CASE q = old
      BY <1>2, <1>9, <2>1, <3>1, <3>2
    <3>3. CASE q = p
      BY <1>5, <2>1, <3>1, <3>3, HeldKnown
    <3>4. CASE q /= old /\ q /= p
      BY <1>5, <1>7, <2>1, <3>1, <3>4, HeldKnown
    <3> QED
      BY <3>2, <3>3, <3>4
  <2>2. \A s \in Stream : gone'[s] >= gone[s]
    BY <1>4, <1>5, HeldKnown
  <2> QED
    BY <1>4, <1>5, <1>10, <2>1, <2>2, KeptOn, HeldKnown
<1> QED
  BY <1>10, <1>11 DEF AckGood

\* An older one is freed at once.
LEMMA OlderKept ==
  ASSUME AckWindow, AckGood, NEW p \in Skb, HoldOlder(p)
  PROVE  AckGood'
<1> DEFINE old == tbl[Min(Held(p))]
<1>1. /\ Holding(p) /\ Held(p) /= {} /\ ~SeqGE(ack[p], ack[old])
      /\ skbat' = [skbat EXCEPT ![p] = "stack"]
      /\ UNCHANGED <<ackbus, supmode, strm, ack, tbl, tblcnt, ackq, chain, checked, newest, gone, handed>>
  BY DEF HoldOlder, SkbTo
<1>2. old \in Skb /\ old /= p /\ strm[old] = strm[p] /\ skbat[old] = "held"
  BY <1>1, HeldSlot
<1> HIDE DEF old
<1>3. skbat[p] = "look" /\ supmode = "HOLD"
  BY <1>1 DEF Holding
<1>4. ack[old] >= ack[p]
  <2>1. ack[p] \in AckNo /\ ack[old] \in AckNo
    BY <1>2 DEF AckGood, AckTypes
  <2>2. ~(ack[p] >= ack[old])
    BY <1>1, <2>1, SeqCompare
  <2> QED
    BY <1>2, <1>3, <2>2, HeldKnown
<1>5. AckTypes' /\ BusRight' /\ QueueRight' /\ TableRight' /\ Unchecked'
  <2>1. skbat' \in [Skb -> AckAt] /\ \A q \in Skb : skbat'[q] /= "refused"
    BY <1>1, <1>3, HeldKnown DEF AckAt
  <2>2. \A j \in Slot : tbl[j] /= NoSkb => skbat'[tbl[j]] = "held"
    BY <1>1, <1>3, HeldKnown
  <2> QED
    BY <1>1, <1>3, <2>1, <2>2, HeldTable, HeldKnown
<1>6. Kept'
  <2>1. ASSUME NEW q \in Skb, skbat[q] \in InDriver, NEW s \in Stream, strm[q] = s
        PROVE  \E r \in Skb : strm'[r] = s /\ ack'[r] >= ack[q] /\ skbat'[r] \in InDriver
    <3>1. CASE q = p
      <4>1. skbat'[old] \in InDriver
        BY <1>1, <1>2, <1>3, HeldKnown DEF InDriver
      <4> QED
        BY <1>1, <1>2, <1>4, <2>1, <3>1, <4>1
    <3>2. CASE q /= p
      BY <1>1, <1>3, <2>1, <3>2, HeldKnown
    <3> QED
      BY <3>1, <3>2
  <2>2. \A s \in Stream : gone'[s] >= gone[s]
    BY <1>1, <1>3, HeldKnown
  <2> QED
    BY <1>1, <1>3, <1>5, <2>1, <2>2, KeptOn, HeldKnown
<1> QED
  BY <1>5, <1>6 DEF AckGood

LEMMA TimerKept ==
  ASSUME AckGood, NEW i \in Slot, TimerSend(i)
  PROVE  AckGood'
<1>1. UNCHANGED <<ackbus, supmode, strm, ack, tblcnt, ackq, chain, checked, newest, gone, handed>>
  BY DEF TimerSend
<1>2. CASE supmode = "HOLD" /\ tbl[i] /= NoSkb
  <2> DEFINE p == tbl[i]
  <2>1. /\ skbat' = [skbat EXCEPT ![p] = "out"] /\ tbl' = [tbl EXCEPT ![i] = NoSkb]
        /\ p \in Skb /\ skbat[p] = "held"
    BY <1>2, HeldKnown DEF TimerSend, SkbTo
  <2>2. \A j \in Slot : j /= i => tbl[j] /= p
    BY <1>2, HeldKnown
  <2> HIDE DEF p
  <2>3. \A j \in Slot : tbl'[j] = IF j = i THEN NoSkb ELSE tbl[j]
    BY <1>2, <2>1, HeldKnown
  <2>4. skbat' \in [Skb -> AckAt] /\ \A q \in Skb : skbat'[q] /= "refused"
    BY <1>2, <2>1, HeldKnown DEF AckAt, InDriver
  <2>5. tbl' \in [Slot -> Skb \cup {NoSkb}]
    BY <1>2, <2>1, HeldKnown
  <2>6. \A j \in Slot : tbl'[j] /= NoSkb => skbat'[tbl'[j]] = "held"
    BY <1>2, <2>1, <2>2, <2>3, HeldKnown
  <2>7. \A j, k \in Slot : tbl'[j] = tbl'[k] /\ tbl'[j] /= NoSkb => j = k
    BY <1>2, <2>3, HeldKnown
  <2>8. AckTypes' /\ BusRight' /\ QueueRight' /\ TableRight' /\ Unchecked'
    BY <1>1, <1>2, <2>4, <2>5, <2>6, <2>7, HeldTable, HeldKnown
  <2>9. Kept'
    <3>1. \A q \in Skb : skbat[q] \in InDriver => skbat'[q] \in InDriver
      BY <1>2, <2>1, HeldKnown DEF InDriver
    <3> QED
      BY <1>1, <1>2, <2>8, <3>1, KeptMoving, HeldKnown
  <2> QED
    BY <2>8, <2>9 DEF AckGood
<1>3. CASE ~(supmode = "HOLD" /\ tbl[i] /= NoSkb)
  <2>1. UNCHANGED <<skbat, tbl>>
    BY <1>3 DEF TimerSend
  <2> QED
    BY <1>1, <2>1, NothingMoves
<1> QED
  BY <1>2, <1>3

LEMMA ListedHeld ==
  ASSUME AckGood
  PROVE  Listed \subseteq Skb
  BY DEF AckGood, AckTypes, Listed

LEMMA CleanKept ==
  ASSUME AckGood, TblClean
  PROVE  AckGood'
<1>1. /\ supmode = "HOLD" /\ LeftWith(Listed) /\ tbl' = [i \in Slot |-> NoSkb]
      /\ skbat' = [p \in Skb |-> IF p \in Listed THEN "stack" ELSE skbat[p]]
      /\ UNCHANGED <<ackbus, supmode, strm, ack, tblcnt, ackq, chain, checked, newest, handed>>
  BY DEF TblClean
<1>2. gone' \in [Stream -> AckNo]
  BY <1>1, ListedHeld, LeftGoes, HeldKnown
<1>3. AckTypes' /\ BusRight' /\ QueueRight' /\ TableRight' /\ Unchecked'
  <2>1. skbat' \in [Skb -> AckAt] /\ \A q \in Skb : skbat'[q] /= "refused"
    BY <1>1, HeldKnown DEF AckAt
  <2>2. tbl' \in [Slot -> Skb \cup {NoSkb}] /\ \A i \in Slot : tbl'[i] = NoSkb
    BY <1>1
  <2> QED
    BY <1>1, <1>2, <2>1, <2>2, HeldTable
<1>4. Kept'
  <2>1. \A q \in Skb \ Listed : skbat[q] \in InDriver => skbat'[q] \in InDriver
    BY <1>1
  <2> QED
    BY <1>1, <1>3, <2>1, ListedHeld, KeptLeaving, HeldKnown
<1> QED
  BY <1>3, <1>4 DEF AckGood

LEMMA OffKept ==
  ASSUME AckGood, SuppressOff
  PROVE  AckGood'
<1>0. AckTypes /\ TableRight /\ QueueRight /\ Unchecked /\ Kept /\ BusRight
  BY DEF AckGood
<1>1. /\ supmode /= "OFF" /\ supmode' = "OFF" /\ tbl' = [i \in Slot |-> NoSkb] /\ tblcnt' = 0
      /\ UNCHANGED <<ackbus, strm, ack, ackq, chain, checked, newest, handed>>
  BY DEF SuppressOff
<1>2. \/ supmode = "HOLD" /\ LeftWith(Listed)
         /\ skbat' = [p \in Skb |-> IF p \in Listed THEN "stack" ELSE skbat[p]]
      \/ UNCHANGED <<gone, skbat>>
  BY DEF SuppressOff
<1>3. AckTypes'
  <2>1. gone' \in [Stream -> AckNo]
    BY <1>0, <1>2, ListedHeld, LeftGoes DEF AckTypes
  <2>2. skbat' \in [Skb -> AckAt]
    BY <1>0, <1>2 DEF AckTypes, AckAt
  <2>3. tbl' \in [Slot -> Skb \cup {NoSkb}] /\ tblcnt' \in 0 .. INFO_MAX
    BY <1>1, AckNumbers
  <2> QED
    BY <1>0, <1>1, <2>1, <2>2, <2>3 DEF AckTypes, AckNo
<1>4. BusRight'
  BY <1>0, <1>1, <1>2 DEF BusRight
<1>5. QueueRight'
  <2>1. CASE UNCHANGED <<gone, skbat>>
    BY <1>0, <1>1, <2>1 DEF QueueRight
  <2>2. CASE supmode = "HOLD"
    <3>1. 1 .. Len(ackq) = {} /\ 1 .. Len(chain) = {}
      BY <1>0, <2>2 DEF BusRight
    <3> QED
      BY <1>1, <3>1 DEF QueueRight
  <2> QED
    BY <1>2, <2>1, <2>2
<1>6. TableRight'
  <2>1. \A i \in Slot : tbl'[i] = NoSkb /\ ~(i <= 0)
    BY <1>1 DEF Slot
  <2> QED
    BY <1>1, <2>1 DEF TableRight, Slot
<1>7. Unchecked'
  <2>1. \A k \in 1 .. Len(chain) : chain[k] \in Skb
    BY <1>0, ElementOfSeq DEF AckTypes
  <2> QED
    BY <1>1, <2>1, AckNumbers DEF Unchecked, Slot
<1>8. Kept'
  <2>1. CASE UNCHANGED <<gone, skbat>>
    BY <1>0, <1>1, <1>3, <2>1, KeptMoving
  <2>2. CASE /\ LeftWith(Listed)
             /\ skbat' = [p \in Skb |-> IF p \in Listed THEN "stack" ELSE skbat[p]]
    <3>1. \A q \in Skb \ Listed : skbat[q] \in InDriver => skbat'[q] \in InDriver
      BY <2>2
    <3> QED
      BY <1>0, <1>1, <1>3, <2>2, <3>1, ListedHeld, KeptLeaving
  <2> QED
    BY <1>2, <2>1, <2>2
<1> QED
  BY <1>3, <1>4, <1>5, <1>6, <1>7, <1>8 DEF AckGood

(***************************************************************************)
(* All steps together.                                                     *)
(***************************************************************************)
LEMMA AckStarts ==
  ASSUME AckInit
  PROVE  AckInv
<1>1. AckTypes
  <2>1. FIRST \in AckNo /\ 0 \in 0 .. MaxAcks /\ 0 \in 0 .. INFO_MAX
    BY AckNumbers DEF AckNo
  <2>2. <<>> \in Seq(Skb) /\ 0 \in 0 .. Len(<<>>)
    BY EmptySeq
  <2>3. \A s \in Stream : newest[s] <= FIRST + handed
    BY AckNumbers DEF AckInit
  <2> QED
    BY <2>1, <2>2, <2>3 DEF AckInit, AckTypes, AckAt
<1>2. BusRight
  BY DEF AckInit, BusRight
<1>3. QueueRight /\ Unchecked
  <2>1. 1 .. Len(ackq) = {} /\ 1 .. Len(chain) = {}
    BY DEF AckInit
  <2> QED
    BY <2>1 DEF QueueRight, Unchecked
<1>4. TableRight
  <2>1. \A i \in Slot : tbl[i] = NoSkb /\ ~(i <= tblcnt)
    BY DEF AckInit, Slot
  <2> QED
    BY <2>1 DEF AckInit, TableRight
<1>5. Kept
  BY AckNumbers DEF AckInit, Kept
<1> QED
  BY <1>1, <1>2, <1>3, <1>4, <1>5 DEF AckInv, AckGood

\* What the code has lost track of it does not find again.
LEMMA StaysForgotten ==
  ASSUME [AckNext]_ackVars, ~forgotten'
  PROVE  ~forgotten
<1>1. CASE UNCHANGED ackVars
  BY <1>1 DEF ackVars
<1>2. ASSUME NEW p \in Skb, NEW s \in Stream, NEW n, AckHandIn(p, s, n) PROVE ~forgotten
  BY <1>2 DEF AckHandIn
<1>3. ASSUME NEW p \in Skb,
             \/ SuppressNoModule(p) \/ SuppressAdd(p) \/ SuppressReplace(p) \/ SuppressPass(p)
             \/ DropEarly(p) \/ AckEnqueue(p) \/ AckEvict(p) \/ AckRefuse(p) \/ AckRefused(p)
             \/ SeesOff(p) \/ RingSend(p)
      PROVE  ~forgotten
  BY <1>3 DEF SuppressNoModule, SuppressAdd, SuppressReplace, SuppressPass, DropEarly,
     AckEnqueue, AckEvict, AckRefuse, AckRefused, SeesOff, RingSend
<1>4. ASSUME NEW p \in Skb,
             HoldFirst(p) \/ HoldFull(p) \/ HoldNewer(p) \/ HoldOlder(p) \/ HoldUntime(p)
      PROVE  ~forgotten
  BY <1>4 DEF HoldFirst, HoldFull, HoldNewer, HoldOlder, HoldUntime
<1>5. ASSUME NEW k, ChainTake(k) PROVE ~forgotten
  BY <1>5 DEF ChainTake
<1>6. CASE ChainCheck \/ ChainFails \/ ChainSend \/ ChainFree
  BY <1>6 DEF ChainCheck, ChainFails, ChainSend, ChainFree
<1>7. ASSUME NEW i \in Slot, TimerFires(i) \/ TimerSend(i) PROVE ~forgotten
  BY <1>7 DEF TimerFires, TimerSend
<1>8. CASE TblClean \/ TblUntime \/ SuppressOff
  BY <1>8 DEF TblClean, TblUntime, SuppressOff
<1> QED
  BY <1>1, <1>2, <1>3, <1>4, <1>5, <1>6, <1>7, <1>8 DEF AckNext

LEMMA AckStep ==
  ASSUME AckWindow, AckInv, [AckNext]_ackVars
  PROVE  AckInv'
<1> SUFFICES ASSUME AckGood, ~forgotten' PROVE AckGood'
  BY StaysForgotten DEF AckInv
<1>1. CASE UNCHANGED ackVars
  BY <1>1, NothingMoves DEF ackVars
<1>2. ASSUME NEW p \in Skb, NEW s \in Stream,
             AckHandIn(p, s, newest[s]) \/ AckHandIn(p, s, newest[s] + 1)
      PROVE  AckGood'
  BY <1>2, HandInKept
<1>3. ASSUME NEW p \in Skb, SeesOff(p) \/ SuppressPass(p) \/ AckRefuse(p) \/ HoldUntime(p)
      PROVE  AckGood'
  <2>1. UNCHANGED <<ackbus, supmode, strm, ack, tbl, tblcnt, chainVars, newest, gone, handed>>
    BY <1>3 DEF SeesOff, SuppressPass, AckRefuse, HoldUntime
  <2>2. CASE SeesOff(p) \/ SuppressPass(p) \/ HoldUntime(p)
    <3>1. skbat[p] \in {"look", "out", "untime"} /\ skbat' = [skbat EXCEPT ![p] = "out"]
      BY <2>2 DEF SeesOff, SuppressPass, HoldUntime, SkbTo
    <3> QED
      BY <2>1, <3>1, MovesKept
  <2>3. CASE AckRefuse(p)
    <3>1. ackbus = "sdio" /\ skbat[p] = "out" /\ skbat' = [skbat EXCEPT ![p] = "refused"]
      BY <2>3 DEF AckRefuse, SkbTo
    <3> QED
      BY <2>1, <3>1, MovesKept
  <2> QED
    BY <1>3, <2>2, <2>3
<1>4. ASSUME NEW p \in Skb, SuppressNoModule(p) \/ HoldFull(p) PROVE AckGood'
  BY <1>4 DEF SuppressNoModule, HoldFull
<1>5. ASSUME NEW p \in Skb, SuppressAdd(p) \/ SuppressReplace(p) PROVE AckGood'
  BY <1>5, AddKept, ReplaceKept
<1>6. ASSUME NEW p \in Skb,
             DropEarly(p) \/ RingSend(p) \/ AckEnqueue(p) \/ AckEvict(p) \/ AckRefused(p)
      PROVE  AckGood'
  BY <1>6, DropKept, EnqueueKept, EvictKept, RefusedKept
<1>7. ASSUME NEW p \in Skb, HoldFirst(p) \/ HoldNewer(p) \/ HoldOlder(p) PROVE AckGood'
  BY <1>7, FirstKept, NewerKept, OlderKept
<1>8. ASSUME NEW k \in 1 .. ACK_GLOM, ChainTake(k) PROVE AckGood'
  BY <1>8, TakeKept
<1>9. CASE ChainCheck
  BY <1>9, CheckKept
<1>10. CASE ChainFails \/ ChainSend \/ ChainFree
  BY <1>10, ChainKept
<1>11. ASSUME NEW i \in Slot, TimerFires(i) PROVE AckGood'
  BY <1>11, NothingMoves DEF TimerFires
<1>12. ASSUME NEW i \in Slot, TimerSend(i) PROVE AckGood'
  BY <1>12, TimerKept
<1>13. CASE TblClean
  BY <1>13, CleanKept
<1>14. CASE TblUntime
  BY <1>14, NothingMoves DEF TblUntime
<1>15. CASE SuppressOff
  BY <1>15, OffKept
<1> QED
  BY <1>1, <1>2, <1>3, <1>4, <1>5, <1>6, <1>7, <1>8, <1>9, <1>10, <1>11, <1>12, <1>13,
     <1>14, <1>15 DEF AckNext

\* Code: a newer acknowledgement is copied into a packet that another CPU or
\* the DPC has in hand, or takes the place of one that is held back, and one
\* of the two is freed (dhd_ip.c).  As long as the code does not lose track
\* of a packet, and while the numbers that are compared are within half of
\* the sequence numbers, the newest acknowledgement of each stream has left
\* the driver or is in a packet that will, in every order of the CPUs, the
\* DPC and the timers.
THEOREM NewestAckNotLost ==
  ASSUME AckWindow
  PROVE  AckSpec => []NewestAckKept
<1>1. AckInit => AckInv
  BY AckStarts
<1>2. AckInv /\ [AckNext]_ackVars => AckInv'
  BY AckStep
<1>3. AckInv => NewestAckKept
  BY DEF AckInv, AckGood, Kept, NewestAckKept, InDriver
<1> QED
  BY <1>1, <1>2, <1>3, PTL DEF AckSpec
=============================================================================
