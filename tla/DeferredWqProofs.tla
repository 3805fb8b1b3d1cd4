-------------------------- MODULE DeferredWqProofs ---------------------------
(***************************************************************************)
(* Theorems about DeferredWq for every number of callers, every length of  *)
(* the FIFOs and of their records: although callers look for room before   *)
(* they take the lock, and kfifo_in copies bytes, every event accepted is  *)
(* handled whole, once and in order.                                       *)
(***************************************************************************)
EXTENDS DeferredWq, FiniteSetTheorems, TLAPS

-----------------------------------------------------------------------------
(* Whole numbers of records.                                               *)

LEMMA Division ==
  ASSUME NEW w \in Nat \ {0}, NEW a \in Nat
  PROVE  a \div w \in Nat /\ a % w \in 0 .. w - 1 /\ a = ((a \div w) * w) + (a % w)
OBVIOUS

LEMMA Multiple ==
  ASSUME NEW w \in Nat \ {0}, NEW k \in Nat
  PROVE  (k * w) \div w = k /\ (k * w) % w = 0 /\ k * w \in Nat
OBVIOUS

LEMMA MultipleOrder ==
  ASSUME NEW w \in Nat \ {0}, NEW j \in Int, NEW k \in Int
  PROVE  /\ j <= k => j * w <= k * w
         /\ j * w < k * w => j < k
         /\ (j + 1) * w = (j * w) + w
         /\ (k - j) * w = (k * w) - (j * w)
         /\ j * w \in Int
<1>1. j <= k => j * w <= k * w
  OBVIOUS
<1>2. j * w < k * w => j < k
  OBVIOUS
<1>3. (j + 1) * w = (j * w) + w
  OBVIOUS
<1>4. (k - j) * w = (k * w) - (j * w)
  OBVIOUS
<1>5. QED
  BY <1>1, <1>2, <1>3, <1>4

LEMMA RecordsIn ==
  ASSUME NEW w \in Nat \ {0}, NEW a \in Nat, a % w = 0
  PROVE  \E k \in Nat : a = k * w /\ a \div w = k
BY Division

LEMMA MinOfTwo ==
  ASSUME NEW a \in Int, NEW b \in Int
  PROVE  Min({a, b}) = IF a <= b THEN a ELSE b
<1>1. \E x \in {a, b} : \A y \in {a, b} : x =< y
  OBVIOUS
<1>2. Min({a, b}) \in {a, b} /\ \A y \in {a, b} : Min({a, b}) =< y
  BY <1>1 DEF Min
<1>3. QED
  BY <1>2

\* What kfifo_in finds room for is a whole record or nothing.
LEMMA RoomWhole ==
  ASSUME NEW len \in Nat, len <= FIFO_SIZE, len % REC = 0
  PROVE  Min({REC, FIFO_SIZE - len}) \in {0, REC}
           /\ (len + Min({REC, FIFO_SIZE - len})) % REC = 0
           /\ len + Min({REC, FIFO_SIZE - len}) <= FIFO_SIZE
<1>1. REC \in Nat \ {0} /\ FIFO_SIZE \in Nat /\ FIFO_SIZE % REC = 0
  BY WqAssumption, WholeRecords
<1>2. PICK k \in Nat : len = k * REC
  BY <1>1, RecordsIn
<1>3. PICK m \in Nat : FIFO_SIZE = m * REC
  BY <1>1, RecordsIn
<1>4. CASE m <= k
  <2>1. FIFO_SIZE <= len
    BY <1>1, <1>2, <1>3, <1>4, MultipleOrder
  <2>2. Min({REC, FIFO_SIZE - len}) = 0
    BY <1>1, <2>1, MinOfTwo
  <2>3. QED
    BY <1>1, <2>2
<1>5. CASE k + 1 <= m
  <2>1. (k + 1) * REC <= m * REC
    BY <1>1, <1>5, MultipleOrder
  <2>2. len + REC = (k + 1) * REC
    BY <1>1, <1>2, MultipleOrder
  <2>3. Min({REC, FIFO_SIZE - len}) = REC
    BY <1>1, <1>3, <2>1, <2>2, MinOfTwo
  <2>4. (len + REC) % REC = 0
    BY <1>1, <2>2, k + 1 \in Nat, Multiple
  <2>5. QED
    BY <1>1, <1>3, <2>1, <2>2, <2>3, <2>4
<1>6. QED
  BY <1>4, <1>5

LEMMA AppendLast ==
  ASSUME NEW a \in Seq(Nat), NEW b \in Seq(Nat), NEW e \in Nat
  PROVE  a \o Append(b, e) = Append(a \o b, e)
OBVIOUS

LEMMA AppendEarlier ==
  ASSUME NEW a \in Seq(Nat), NEW e \in Nat, NEW i \in 1 .. Len(a)
  PROVE  Append(a, e)[i] = a[i]
OBVIOUS

LEMMA MoveIntoHand ==
  ASSUME NEW a \in Seq(Nat), NEW b \in Seq(Nat), NEW e \in Nat
  PROVE  (a \o <<>>) \o (<<e>> \o b) = (a \o <<e>>) \o b
<1>1. a \o <<>> = a /\ a \o <<e>> = Append(a, e)
  OBVIOUS
<1>2. a \o (<<e>> \o b) = Append(a, e) \o b
  OBVIOUS
<1>3. QED
  BY <1>1, <1>2

LEMMA MoveOutOfHand ==
  ASSUME NEW a \in Seq(Nat), NEW b \in Seq(Nat), NEW e \in Nat
  PROVE  (a \o <<e>>) \o b = (Append(a, e) \o <<>>) \o b
<1>1. Append(a, e) \in Seq(Nat) /\ Append(a, e) = a \o <<e>>
  OBVIOUS
<1>2. Append(a, e) \o <<>> = Append(a, e)
  BY <1>1
<1>3. QED
  BY <1>1, <1>2

-----------------------------------------------------------------------------
(* The events whose records a FIFO holds.                                  *)

Unit == Nat \X Nat
EventsIn(f) == [i \in 1 .. Len(f) \div REC |-> f[(i - 1) * REC + 1][1]]
RecordOf(ev) == [i \in 1 .. REC |-> <<ev, i>>]

LEMMA EventsInSeq ==
  ASSUME NEW f \in Seq(Unit), Len(f) % REC = 0
  PROVE  EventsIn(f) \in Seq(Nat) /\ Len(EventsIn(f)) = Len(f) \div REC
<1>1. REC \in Nat \ {0}
  BY WqAssumption
<1>2. PICK k \in Nat : Len(f) = k * REC /\ Len(f) \div REC = k
  BY <1>1, Len(f) \in Nat, RecordsIn
<1>3. ASSUME NEW i \in 1 .. k PROVE f[(i - 1) * REC + 1][1] \in Nat
  <2>1. 0 * REC <= (i - 1) * REC /\ (i - 1) * REC + REC <= k * REC /\ (i - 1) * REC \in Int
    BY <1>1, i - 1 \in Int, i - 1 + 1 <= k, MultipleOrder
  <2>2. (i - 1) * REC + 1 \in 1 .. Len(f)
    BY <1>1, <1>2, <2>1
  <2>3. QED
    BY <2>2 DEF Unit
<1>4. QED
  BY <1>2, <1>3 DEF EventsIn

\* A record put into a FIFO is behind the others.
LEMMA RecordPut ==
  ASSUME NEW f \in Seq(Unit), Len(f) % REC = 0, NEW ev \in Nat
  PROVE  /\ f \o RecordOf(ev) \in Seq(Unit)
         /\ Len(f \o RecordOf(ev)) = Len(f) + REC
         /\ EventsIn(f \o RecordOf(ev)) = Append(EventsIn(f), ev)
<1> DEFINE g == f \o RecordOf(ev)
<1>1. REC \in Nat \ {0}
  BY WqAssumption
<1>2. RecordOf(ev) \in Seq(Unit) /\ Len(RecordOf(ev)) = REC
  BY <1>1 DEF RecordOf, Unit
<1>3. g \in Seq(Unit) /\ Len(g) = Len(f) + REC
  BY <1>2
<1>4. PICK k \in Nat : Len(f) = k * REC /\ Len(f) \div REC = k
  BY <1>1, Len(f) \in Nat, RecordsIn
<1>5. Len(g) = (k + 1) * REC /\ Len(g) % REC = 0 /\ Len(g) \div REC = k + 1
  <2>1. (k + 1) * REC = (k * REC) + REC
    BY <1>1, k \in Int, MultipleOrder
  <2>2. Len(g) = (k + 1) * REC
    BY <1>3, <1>4, <2>1
  <2> HIDE DEF g
  <2>3. QED
    BY <1>1, <2>2, k + 1 \in Nat, Multiple
<1>6. ASSUME NEW i \in 1 .. k PROVE g[(i - 1) * REC + 1] = f[(i - 1) * REC + 1]
  <2>1. 0 * REC <= (i - 1) * REC /\ (i - 1) * REC + REC <= k * REC /\ (i - 1) * REC \in Int
    BY <1>1, i - 1 \in Int, i - 1 + 1 <= k, MultipleOrder
  <2>2. (i - 1) * REC + 1 \in 1 .. Len(f)
    BY <1>1, <1>4, <2>1
  <2>3. QED
    BY <1>2, <2>2
<1>7. g[k * REC + 1] = <<ev, 1>>
  <2>1. Len(f) + 1 \in 1 .. Len(f) + REC /\ 1 \in 1 .. REC
    BY <1>1
  <2>2. g[Len(f) + 1] = RecordOf(ev)[1]
    BY <1>2, <2>1
  <2>3. QED
    BY <1>4, <2>1, <2>2 DEF RecordOf
<1>8. EventsIn(f) \in Seq(Nat) /\ Len(EventsIn(f)) = k
  BY <1>4, EventsInSeq
<1>9. EventsIn(g) \in Seq(Nat) /\ Len(EventsIn(g)) = k + 1
  BY <1>3, <1>5, EventsInSeq
<1> HIDE DEF g
<1>10. ASSUME NEW i \in 1 .. k + 1 PROVE EventsIn(g)[i] = Append(EventsIn(f), ev)[i]
  <2>0. i \in 1 .. k \/ i = k + 1
    BY <1>4
  <2>1. CASE i \in 1 .. k
    <3>1. EventsIn(f)[i] = f[(i - 1) * REC + 1][1]
      BY <1>4, <2>1 DEF EventsIn
    <3>2. EventsIn(g)[i] = g[(i - 1) * REC + 1][1]
      BY <1>5 DEF EventsIn
    <3>3. Append(EventsIn(f), ev)[i] = EventsIn(f)[i]
      BY <1>8, <2>1, AppendEarlier
    <3>4. g[(i - 1) * REC + 1] = f[(i - 1) * REC + 1]
      BY <1>6, <2>1
    <3>5. QED
      BY <3>1, <3>2, <3>3, <3>4
  <2>2. CASE i = k + 1
    BY <1>4, <1>5, <1>7, <1>8, <2>2 DEF EventsIn
  <2>3. QED
    BY <2>0, <2>1, <2>2
<1>11. EventsIn(g) = Append(EventsIn(f), ev)
  BY <1>8, <1>9, <1>10
<1>12. QED
  BY <1>3, <1>11 DEF g

\* The record taken out is that of the first event.
LEMMA RecordTaken ==
  ASSUME NEW f \in Seq(Unit), Len(f) % REC = 0, Len(f) >= REC
  PROVE  LET g == SubSeq(f, REC + 1, Len(f))
         IN  /\ g \in Seq(Unit) /\ Len(g) = Len(f) - REC /\ Len(g) % REC = 0
             /\ \A i \in 1 .. Len(g) : i + REC \in 1 .. Len(f) /\ g[i] = f[i + REC]
             /\ f[1][1] \in Nat
             /\ EventsIn(f) = <<f[1][1]>> \o EventsIn(g)
<1> DEFINE g == SubSeq(f, REC + 1, Len(f))
<1>1. REC \in Nat \ {0}
  BY WqAssumption
<1>2. g \in Seq(Unit) /\ Len(g) = Len(f) - REC
      /\ \A i \in 1 .. Len(g) : i + REC \in 1 .. Len(f) /\ g[i] = f[i + REC]
  BY <1>1
<1>3. PICK k \in Nat : Len(f) = k * REC /\ Len(f) \div REC = k
  BY <1>1, Len(f) \in Nat, RecordsIn
<1>4. 0 * REC < k * REC /\ k >= 1
  BY <1>1, <1>3, MultipleOrder
<1>5. Len(g) = (k - 1) * REC /\ Len(g) % REC = 0 /\ Len(g) \div REC = k - 1
  <2>1. k - 1 \in Nat /\ (k - 1) + 1 = k
    BY <1>4
  <2>2. k * REC = ((k - 1) * REC) + REC /\ (k - 1) * REC \in Int
    BY <1>1, <2>1, k - 1 \in Int, MultipleOrder
  <2>3. Len(g) = (k - 1) * REC
    BY <1>1, <1>2, <1>3, <2>2
  <2> HIDE DEF g
  <2>4. QED
    BY <1>1, <2>1, <2>3, Multiple
<1>6. ASSUME NEW i \in 1 .. k - 1 PROVE g[(i - 1) * REC + 1] = f[i * REC + 1]
  <2>1. 0 * REC <= (i - 1) * REC /\ (i - 1) * REC + REC <= (k - 1) * REC
        /\ (i - 1) * REC \in Int /\ i * REC = (i - 1) * REC + REC
    BY <1>1, <1>4, i - 1 \in Int, k - 1 \in Int, i \in Int, i - 1 + 1 = i, i <= k - 1, MultipleOrder
  <2>2. (i - 1) * REC + 1 \in 1 .. Len(g)
    BY <1>1, <1>5, <2>1
  <2>3. QED
    BY <1>1, <1>2, <2>1, <2>2
<1>7. EventsIn(f) \in Seq(Nat) /\ Len(EventsIn(f)) = k /\ EventsIn(g) \in Seq(Nat) /\ Len(EventsIn(g)) = k - 1
  BY <1>2, <1>3, <1>5, EventsInSeq
<1>8. EventsIn(f)[1] = f[1][1] /\ f[1][1] \in Nat
  <2>1. (1 - 1) * REC + 1 = 1
    BY <1>1
  <2>2. 1 \in 1 .. k /\ 1 \in 1 .. Len(f)
    BY <1>1, <1>4
  <2>3. QED
    BY <1>3, <2>1, <2>2 DEF EventsIn, Unit
<1> HIDE DEF g
<1>9. ASSUME NEW i \in 1 .. k PROVE EventsIn(f)[i] = (<<f[1][1]>> \o EventsIn(g))[i]
  <2>0. i = 1 \/ i > 1
    BY <1>3
  <2>1. CASE i = 1
    BY <1>7, <1>8, <2>1
  <2>2. CASE i > 1
    <3>1. i - 1 \in 1 .. k - 1 /\ EventsIn(f)[i] = f[(i - 1) * REC + 1][1]
      BY <1>3, <2>2 DEF EventsIn
    <3>2. EventsIn(g)[i - 1] = g[((i - 1) - 1) * REC + 1][1]
      BY <1>5, <3>1 DEF EventsIn
    <3>3. EventsIn(g)[i - 1] = EventsIn(f)[i]
      BY <1>6, <3>1, <3>2
    <3>4. QED
      BY <1>7, <1>8, <2>2, <3>1, <3>3
  <2>3. QED
    BY <2>0, <2>1, <2>2
<1>10. EventsIn(f) = <<f[1][1]>> \o EventsIn(g)
  BY <1>4, <1>7, <1>8, <1>9
<1>11. QED
  BY <1>2, <1>5, <1>8, <1>10 DEF g
-----------------------------------------------------------------------------
(* The invariant.  Each FIFO holds a whole number of records, of events of *)
(* its priority; what is not yet handled of the accepted ones is in the    *)
(* hands of the work item or in the FIFO.                                  *)

Kind == {"IF_ADD", "IF_DEL", "SET_MAC", "UPD_FEATURES"}
EventsOf(p) == {ev \in 1 .. Len(posted) : PrioOf(posted[ev]) = p}

WqTypes ==
  /\ posted \in Seq(Kind)
  /\ fifo \in [Prio -> Seq(Unit)]
  /\ caller \in [Caller -> [at : {"idle", "copy", "schedule"}, ev : Nat]]
  /\ accepted \in [Prio -> Seq(Nat)] /\ handled \in [Prio -> Seq(Nat)]
  /\ handler \in [at : {"idle", "get", "call"}, ev : Nat]

EventsPosted ==
  /\ \A c \in Caller : caller[c].at = "copy" => caller[c].ev \in 1 .. Len(posted)
  /\ handler.at = "call" => handler.ev \in 1 .. Len(posted)

FifoWhole(p) ==
  /\ Len(fifo[p]) % REC = 0 /\ Len(fifo[p]) <= FIFO_SIZE
  /\ \A i \in 1 .. Len(fifo[p]) : fifo[p][i][1] \in EventsOf(p)
  /\ accepted[p] = handled[p] \o InHand(p) \o EventsIn(fifo[p])

WqInv == WqTypes /\ EventsPosted /\ \A p \in Prio : FifoWhole(p)

LEMMA WqStart == WqInit => WqInv
<1> SUFFICES ASSUME WqInit PROVE WqInv
  OBVIOUS
<1>1. WqTypes /\ EventsPosted
  BY DEF WqInit, WqTypes, EventsPosted, Idle
<1>2. ASSUME NEW p \in Prio PROVE FifoWhole(p)
  <2>1. fifo[p] = <<>> /\ accepted[p] = <<>> /\ handled[p] = <<>> /\ InHand(p) = <<>>
    BY DEF WqInit, InHand, Idle
  <2>2. REC \in Nat \ {0} /\ FIFO_SIZE \in Nat
    BY WqAssumption
  <2>3. 0 % REC = 0 /\ 0 \div REC = 0
    BY <2>2
  <2>4. EventsIn(fifo[p]) = <<>>
    BY <2>1, <2>3 DEF EventsIn
  <2>5. QED
    BY <2>1, <2>2, <2>3, <2>4 DEF FifoWhole
<1>3. QED
  BY <1>1, <1>2 DEF WqInv

\* A step that leaves the queue of a priority alone, and what is posted.
LEMMA QueueKept ==
  ASSUME WqInv, NEW p \in Prio, fifo'[p] = fifo[p], accepted'[p] = accepted[p],
         handled'[p] = handled[p], InHand(p)' = InHand(p), UNCHANGED posted
  PROVE  FifoWhole(p)'
BY DEF WqInv, FifoWhole, EventsOf, EventsIn

LEMMA PostKeeps ==
  ASSUME WqInv, NEW c \in Caller, NEW kind \in Kind, Post(c, kind)
  PROVE  WqInv'
<1>1. posted' = Append(posted, kind) /\ posted \in Seq(Kind)
      /\ UNCHANGED <<fifo, accepted, handled, handler>>
  BY DEF Post, WqInv, WqTypes
<1>2. posted' \in Seq(Kind) /\ Len(posted') = Len(posted) + 1 /\ Len(posted) \in Nat
      /\ \A ev \in 1 .. Len(posted) : posted'[ev] = posted[ev] /\ ev \in 1 .. Len(posted')
  BY <1>1
<1>3. WqTypes' /\ EventsPosted'
  <2>1. caller' \in [Caller -> [at : {"idle", "copy", "schedule"}, ev : Nat]]
    BY <1>2 DEF Post, WqInv, WqTypes
  <2>2. EventsPosted'
    BY <1>1, <1>2 DEF Post, WqInv, WqTypes, EventsPosted
  <2>3. QED
    BY <1>1, <1>2, <2>1, <2>2 DEF WqInv, WqTypes
<1>4. ASSUME NEW p \in Prio PROVE FifoWhole(p)'
  <2>1. InHand(p)' = InHand(p)
    BY <1>1, <1>2 DEF InHand, WqInv, EventsPosted
  <2>2. \A ev \in EventsOf(p) : ev \in EventsOf(p)'
    BY <1>2 DEF EventsOf
  <2>3. QED
    BY <1>1, <2>1, <2>2 DEF WqInv, FifoWhole, EventsIn
<1>5. QED
  BY <1>3, <1>4 DEF WqInv

LEMMA CopyKeeps ==
  ASSUME WqInv, NEW c \in Caller, Copy(c)
  PROVE  WqInv'
<1>a. PICK ev \in 1 .. Len(posted), p \in Prio : ev = caller[c].ev /\ p = PrioOf(posted[ev])
  BY DEF Copy, WqInv, WqTypes, EventsPosted, PrioOf, Prio
<1>b. PICK n : n = Min({REC, Room(p)})
  OBVIOUS
<1>0. ev = caller[c].ev /\ p = PrioOf(posted[ev]) /\ n = Min({REC, Room(p)})
  BY <1>a, <1>b
<1> DEFINE part == [i \in 1 .. n |-> <<ev, i>>]
<1>1. ev \in 1 .. Len(posted) /\ ev \in Nat /\ p \in Prio /\ ev \in EventsOf(p)
  BY <1>0 DEF WqInv, WqTypes, EventsOf
<1>2. /\ fifo' = [fifo EXCEPT ![p] = fifo[p] \o part]
      /\ accepted' = [accepted EXCEPT ![p] = IF n = REC THEN Append(accepted[p], ev) ELSE accepted[p]]
      /\ caller' = [caller EXCEPT ![c] = IF n = REC THEN [at |-> "schedule", ev |-> 0] ELSE Idle]
      /\ UNCHANGED <<posted, handled, handler>>
  BY <1>0 DEF Copy
<1>3. REC \in Nat \ {0}
  BY WqAssumption
<1>4. fifo[p] \in Seq(Unit) /\ Len(fifo[p]) % REC = 0 /\ Len(fifo[p]) <= FIFO_SIZE
      /\ Len(fifo[p]) \in Nat
  BY <1>1 DEF WqInv, WqTypes, FifoWhole
<1>5. n \in {0, REC} /\ (Len(fifo[p]) + n) % REC = 0 /\ Len(fifo[p]) + n <= FIFO_SIZE
  BY <1>0, <1>4, RoomWhole DEF Room
<1>6. ASSUME NEW q \in Prio, q /= p PROVE FifoWhole(q)'
  <2>1. fifo'[q] = fifo[q] /\ accepted'[q] = accepted[q] /\ handled'[q] = handled[q]
        /\ InHand(q)' = InHand(q)
    BY <1>2, <1>6 DEF WqInv, WqTypes, InHand
  <2>2. QED
    BY <1>2, <2>1, QueueKept
<1>7. CASE n = 0
  <2>1. part = <<>> /\ fifo[p] \o <<>> = fifo[p]
    BY <1>4, <1>7
  <2>2. fifo'[p] = fifo[p] /\ accepted'[p] = accepted[p] /\ handled'[p] = handled[p]
        /\ InHand(p)' = InHand(p) /\ fifo' \in [Prio -> Seq(Unit)] /\ accepted' \in [Prio -> Seq(Nat)]
    BY <1>1, <1>2, <1>3, <1>4, <1>7, <2>1 DEF WqInv, WqTypes, InHand
  <2>3. FifoWhole(p)'
    BY <1>1, <1>2, <2>2, QueueKept
  <2>4. WqTypes' /\ EventsPosted'
    BY <1>2, <2>2 DEF WqInv, WqTypes, EventsPosted, Idle
  <2>5. QED
    BY <1>6, <2>3, <2>4 DEF WqInv
<1>8. CASE n = REC
  <2>1. part = RecordOf(ev)
    BY <1>8 DEF RecordOf
  <2>2. /\ fifo[p] \o RecordOf(ev) \in Seq(Unit)
        /\ Len(fifo[p] \o RecordOf(ev)) = Len(fifo[p]) + REC
        /\ EventsIn(fifo[p] \o RecordOf(ev)) = Append(EventsIn(fifo[p]), ev)
    BY <1>1, <1>4, RecordPut
  <2>3. fifo'[p] = fifo[p] \o RecordOf(ev) /\ accepted'[p] = Append(accepted[p], ev)
        /\ handled'[p] = handled[p] /\ InHand(p)' = InHand(p)
    BY <1>1, <1>2, <1>8, <2>1 DEF WqInv, WqTypes, InHand
  <2>4. \A i \in 1 .. Len(fifo'[p]) : fifo'[p][i][1] \in EventsOf(p)
    <3>1. \A i \in 1 .. Len(fifo[p]) : fifo[p][i][1] \in EventsOf(p)
      BY <1>1 DEF WqInv, FifoWhole
    <3>2. RecordOf(ev) \in Seq(Unit) /\ Len(RecordOf(ev)) = REC
          /\ \A i \in 1 .. REC : RecordOf(ev)[i][1] = ev
      BY <1>1, <1>3 DEF RecordOf, Unit
    <3>3. QED
      BY <1>1, <1>3, <1>4, <2>3, <3>1, <3>2
  <2>5. accepted'[p] = handled'[p] \o InHand(p)' \o EventsIn(fifo'[p])
    <3>1. accepted[p] = handled[p] \o InHand(p) \o EventsIn(fifo[p])
      BY <1>1 DEF WqInv, FifoWhole
    <3>2. handled[p] \in Seq(Nat) /\ InHand(p) \in Seq(Nat) /\ EventsIn(fifo[p]) \in Seq(Nat)
      BY <1>1, <1>4, EventsInSeq DEF WqInv, WqTypes, InHand
    <3>3. Append(handled[p] \o InHand(p) \o EventsIn(fifo[p]), ev)
            = handled[p] \o InHand(p) \o Append(EventsIn(fifo[p]), ev)
      BY <1>1, <3>2, handled[p] \o InHand(p) \in Seq(Nat), AppendLast
    <3>4. QED
      BY <2>2, <2>3, <3>1, <3>3
  <2>6. FifoWhole(p)'
    BY <1>2, <1>5, <1>8, <2>2, <2>3, <2>4, <2>5 DEF FifoWhole, EventsOf, EventsIn
  <2>7. WqTypes' /\ EventsPosted'
    <3>1. Append(accepted[p], ev) \in Seq(Nat)
      BY <1>1 DEF WqInv, WqTypes
    <3>2. QED
      BY <1>1, <1>2, <1>8, <2>1, <2>2, <3>1 DEF WqInv, WqTypes, EventsPosted, Idle
  <2>8. QED
    BY <1>6, <2>6, <2>7 DEF WqInv
<1>9. QED
  BY <1>5, <1>7, <1>8

LEMMA GetKeeps ==
  ASSUME WqInv, Get
  PROVE  WqInv'
<1>1. PICK p \in Ready :
        /\ fifo' = [fifo EXCEPT ![p] = SubSeq(fifo[p], REC + 1, Len(fifo[p]))]
        /\ handler' = [at |-> "call", ev |-> fifo[p][1][1]]
  BY DEF Get, Ready, Prio
<1>2. handler.at = "get" /\ UNCHANGED <<posted, accepted, handled, caller>>
  BY DEF Get
<1>3. p \in Prio /\ fifo[p] \in Seq(Unit) /\ Len(fifo[p]) % REC = 0 /\ Len(fifo[p]) >= REC
  BY <1>1 DEF Ready, WqInv, WqTypes, FifoWhole
<1>4. REC \in Nat \ {0} /\ 1 \in 1 .. Len(fifo[p]) /\ FIFO_SIZE \in Nat
  BY <1>3, WqAssumption
<1> DEFINE g == SubSeq(fifo[p], REC + 1, Len(fifo[p]))
           ev == fifo[p][1][1]
<1>5. /\ g \in Seq(Unit) /\ Len(g) = Len(fifo[p]) - REC /\ Len(g) % REC = 0
      /\ \A i \in 1 .. Len(g) : i + REC \in 1 .. Len(fifo[p]) /\ g[i] = fifo[p][i + REC]
      /\ ev \in Nat /\ EventsIn(fifo[p]) = <<ev>> \o EventsIn(g)
  BY <1>3, RecordTaken
<1>6. fifo' = [fifo EXCEPT ![p] = g] /\ handler' = [at |-> "call", ev |-> ev]
  BY <1>1
<1>7. ev \in EventsOf(p) /\ ev \in 1 .. Len(posted) /\ PrioOf(posted[ev]) = p
  BY <1>3, <1>4 DEF WqInv, FifoWhole, EventsOf
<1> HIDE DEF g, ev
<1>8. ASSUME NEW q \in Prio, q /= p PROVE FifoWhole(q)'
  <2>1. fifo'[q] = fifo[q] /\ accepted'[q] = accepted[q] /\ handled'[q] = handled[q]
        /\ InHand(q)' = InHand(q)
    BY <1>2, <1>6, <1>7, <1>8 DEF WqInv, WqTypes, InHand
  <2>2. QED
    BY <1>2, <2>1, QueueKept
<1>9. FifoWhole(p)'
  <2>1. fifo'[p] = g /\ accepted'[p] = accepted[p] /\ handled'[p] = handled[p]
        /\ InHand(p) = <<>> /\ InHand(p)' = <<ev>>
    BY <1>2, <1>3, <1>6, <1>7 DEF WqInv, WqTypes, InHand
  <2>2. Len(g) <= FIFO_SIZE /\ \A i \in 1 .. Len(g) : g[i][1] \in EventsOf(p)
    <3>1. Len(fifo[p]) <= FIFO_SIZE /\ \A i \in 1 .. Len(fifo[p]) : fifo[p][i][1] \in EventsOf(p)
      BY <1>3 DEF WqInv, FifoWhole
    <3>2. Len(g) <= FIFO_SIZE
      BY <1>3, <1>4, <1>5, <3>1
    <3>3. QED
      BY <1>5, <3>1, <3>2
  <2>3. accepted[p] = handled[p] \o <<ev>> \o EventsIn(g)
    <3>1. handled[p] \in Seq(Nat) /\ <<ev>> \in Seq(Nat) /\ EventsIn(g) \in Seq(Nat)
      BY <1>3, <1>5, EventsInSeq DEF WqInv, WqTypes
    <3>2. (handled[p] \o <<>>) \o (<<ev>> \o EventsIn(g)) = (handled[p] \o <<ev>>) \o EventsIn(g)
      BY <1>5, <3>1, MoveIntoHand
    <3>3. QED
      BY <1>3, <1>5, <2>1, <3>2 DEF WqInv, FifoWhole
  <2>4. QED
    BY <1>2, <1>5, <2>1, <2>2, <2>3 DEF FifoWhole, EventsOf, EventsIn
<1>10. WqTypes' /\ EventsPosted'
  BY <1>2, <1>3, <1>5, <1>6, <1>7 DEF WqInv, WqTypes, EventsPosted
<1>11. QED
  BY <1>8, <1>9, <1>10 DEF WqInv

LEMMA CallKeeps ==
  ASSUME WqInv, Call
  PROVE  WqInv'
<1>0. PICK ev \in 1 .. Len(posted), p \in Prio : ev = handler.ev /\ p = PrioOf(posted[ev])
  BY DEF Call, WqInv, WqTypes, EventsPosted, PrioOf, Prio
<1>1. /\ handler.at = "call" /\ handled' = [handled EXCEPT ![p] = Append(handled[p], ev)]
      /\ handler' = [at |-> "get", ev |-> 0] /\ UNCHANGED <<fifo, posted, accepted, caller>>
  BY <1>0 DEF Call
<1>2. ev \in 1 .. Len(posted) /\ ev \in Nat /\ p \in Prio
  BY <1>0 DEF WqInv, WqTypes
<1>3. handled' \in [Prio -> Seq(Nat)]
  BY <1>1, <1>2 DEF WqInv, WqTypes
<1>4. WqTypes' /\ EventsPosted'
  BY <1>1, <1>3 DEF WqInv, WqTypes, EventsPosted
<1>5. ASSUME NEW q \in Prio, q /= p PROVE FifoWhole(q)'
  <2>1. fifo'[q] = fifo[q] /\ accepted'[q] = accepted[q] /\ handled'[q] = handled[q]
        /\ InHand(q)' = InHand(q)
    BY <1>0, <1>1, <1>2, <1>5 DEF WqInv, WqTypes, InHand
  <2>2. QED
    BY <1>1, <2>1, QueueKept
<1>6. FifoWhole(p)'
  <2>1. handled'[p] = Append(handled[p], ev) /\ InHand(p) = <<ev>> /\ InHand(p)' = <<>>
    BY <1>0, <1>1, <1>2 DEF WqInv, WqTypes, InHand
  <2>2. handled[p] \in Seq(Nat) /\ EventsIn(fifo[p]) \in Seq(Nat)
    BY <1>2, EventsInSeq DEF WqInv, WqTypes, FifoWhole
  <2>3. (handled[p] \o <<ev>>) \o EventsIn(fifo[p]) = (Append(handled[p], ev) \o <<>>) \o EventsIn(fifo[p])
    BY <1>2, <2>2, MoveOutOfHand
  <2>4. QED
    BY <1>1, <1>2, <2>1, <2>3 DEF WqInv, FifoWhole, EventsOf, EventsIn
<1>7. QED
  BY <1>4, <1>5, <1>6 DEF WqInv

LEMMA WqStep == WqInv /\ [WqNext]_wqVars => WqInv'
<1> SUFFICES ASSUME WqInv, [WqNext]_wqVars PROVE WqInv'
  OBVIOUS
<1>1. CASE PostIfEvent
  BY <1>1, PostKeeps DEF PostIfEvent, Kind, Caller
<1>2. ASSUME NEW c \in Stack, PostSetMac(c) \/ PostFeatures(c) PROVE WqInv'
  BY <1>2, PostKeeps DEF PostSetMac, PostFeatures, Kind, Caller
<1>3. ASSUME NEW c \in Caller, Copy(c) PROVE WqInv'
  BY <1>3, CopyKeeps
<1>4. ASSUME UNCHANGED <<fifo, posted, accepted, handled, InHand("HIGH"), InHand("LOW")>>
      PROVE  \A p \in Prio : FifoWhole(p)'
  BY <1>4, QueueKept DEF Prio
<1>5. ASSUME NEW c \in Caller, Schedule(c) PROVE WqInv'
  <2>1. WqTypes' /\ EventsPosted'
    BY <1>5 DEF Schedule, WqInv, WqTypes, EventsPosted, Idle
  <2>2. QED
    BY <1>4, <1>5, <2>1 DEF Schedule, WqInv, InHand
<1>6. CASE WorkStarts
  <2>1. WqTypes' /\ EventsPosted'
    BY <1>6 DEF WorkStarts, WqInv, WqTypes, EventsPosted
  <2>2. UNCHANGED <<InHand("HIGH"), InHand("LOW")>>
    BY <1>6 DEF WorkStarts, WqInv, WqTypes, InHand
  <2>3. QED
    BY <1>4, <1>6, <2>1, <2>2 DEF WorkStarts, WqInv
<1>7. CASE GetNothing
  <2>1. WqTypes' /\ EventsPosted'
    BY <1>7 DEF GetNothing, queueVars, WqInv, WqTypes, EventsPosted, Idle
  <2>2. UNCHANGED <<InHand("HIGH"), InHand("LOW")>>
    BY <1>7 DEF GetNothing, queueVars, InHand, Idle
  <2>3. QED
    BY <1>4, <1>7, <2>1, <2>2 DEF GetNothing, queueVars, WqInv
<1>8. CASE UNCHANGED wqVars
  <2>1. WqTypes' /\ EventsPosted'
    BY <1>8 DEF wqVars, queueVars, WqInv, WqTypes, EventsPosted
  <2>2. QED
    BY <1>4, <1>8, <2>1 DEF wqVars, queueVars, WqInv, InHand
<1>9. ASSUME UNCHANGED <<queueVars, caller, handler>> PROVE WqInv'
  <2>1. WqTypes' /\ EventsPosted'
    BY <1>9 DEF queueVars, WqInv, WqTypes, EventsPosted
  <2>2. QED
    BY <1>4, <1>9, <2>1 DEF queueVars, WqInv, InHand
<1>10. ASSUME NEW c \in Stack, SetMacDirect(c) PROVE WqInv'
  BY <1>9, <1>10 DEF SetMacDirect
<1>11. CASE IfEventNotPosted \/ ListChanged
  BY <1>9, <1>11 DEF IfEventNotPosted, ListChanged
<1>12. QED
  BY <1>1, <1>2, <1>3, <1>5, <1>6, <1>7, <1>8, <1>10, <1>11, GetKeeps, CallKeeps
     DEF WqNext, WqHandlerStep

\* However many threads post events, and although they look for room without the
\* lock: an event for which dhd_deferred_schedule_work has returned DHD_WQ_STS_OK
\* reaches its handler whole, once, and after those of its priority before it.
THEOREM WqNothingLost == WqSpec => []NothingLost
<1>1. WqInv => NothingLost
  BY DEF WqInv, FifoWhole, NothingLost, Queued, EventsIn
<1>2. QED
  BY <1>1, WqStart, WqStep, PTL DEF WqSpec

-----------------------------------------------------------------------------
(* The interface list follows the firmware.                                *)

IfEvents == {ev \in 1 .. Len(posted) : posted[ev] \in {"IF_ADD", "IF_DEL"}}
EventsAccepted(p) == {accepted[p][i] : i \in 1 .. Len(accepted[p])}
EventsHandedOn(p) == {handled[p][i] : i \in 1 .. Len(handled[p])}
AllAccepted == EventsAccepted("LOW") \cup EventsAccepted("HIGH")

\* An event is accepted once.
AcceptedOnce ==
  /\ \A p \in Prio : EventsAccepted(p) \subseteq EventsOf(p)
  /\ \A c \in Caller : caller[c].at = "copy" => caller[c].ev \notin AllAccepted
  /\ \A c, d \in Caller : c /= d /\ caller[c].at = "copy" /\ caller[d].at = "copy"
                          => caller[c].ev /= caller[d].ev

\* Somebody is about to look into a FIFO that is not empty.
Woken ==
  (\E p \in Prio : fifo[p] /= <<>>) =>
    work_pending \/ handler.at /= "idle" \/ \E c \in Caller : caller[c].at = "schedule"

\* The event thread posts the interface events, one after the other.
IfInOrder ==
  /\ \A c \in Caller : caller[c].at = "copy" /\ caller[c].ev \in IfEvents
                       => c = EventThread /\ \A ev \in IfEvents : ev <= caller[c].ev
  /\ \A i, j \in 1 .. Len(accepted["LOW"]) :
       i < j /\ accepted["LOW"][i] \in IfEvents /\ accepted["LOW"][j] \in IfEvents
         => accepted["LOW"][i] < accepted["LOW"][j]

\* The event the list is to follow is the last one, and says what the firmware has.
FirmwareLast ==
  last_if /= 0 =>
    /\ last_if \in IfEvents /\ \A ev \in IfEvents : ev <= last_if
    /\ fw_if <=> posted[last_if] = "IF_ADD"

\* What the events that were handled have left.
ListLast == last_if \in EventsHandedOn("LOW") => (if_present <=> fw_if)
MacLast == set_mac => last_mac \notin EventsHandedOn("LOW")

IfTypes ==
  /\ fw_if \in BOOLEAN /\ if_present \in BOOLEAN
  /\ last_if \in 0 .. Len(posted) /\ last_mac \in 0 .. Len(posted)
  /\ last_mac /= 0 => posted[last_mac] = "SET_MAC"

SettleInv == IfTypes /\ AcceptedOnce /\ Woken /\ IfInOrder /\ FirmwareLast /\ ListLast /\ MacLast

LEMMA SettleStart == WqInit => SettleInv
<1> SUFFICES ASSUME WqInit PROVE SettleInv
  OBVIOUS
<1>1. posted = <<>> /\ IfEvents = {}
  BY DEF WqInit, IfEvents
<1>2. \A p \in Prio : EventsAccepted(p) = {} /\ EventsHandedOn(p) = {}
                      /\ accepted[p] = <<>> /\ fifo[p] = <<>>
  BY DEF WqInit, EventsAccepted, EventsHandedOn
<1>3. AllAccepted = {}
  BY <1>2 DEF AllAccepted, Prio
<1>4. AcceptedOnce
  BY <1>2, <1>3 DEF AcceptedOnce, WqInit, Prio, Idle
<1>5. IfInOrder /\ Woken
  BY <1>2 DEF IfInOrder, Woken, WqInit, Prio, Idle
<1>6. FirmwareLast /\ ListLast /\ MacLast /\ IfTypes
  <2>1. /\ last_if = 0 /\ last_mac = 0 /\ fw_if \in BOOLEAN /\ if_present \in BOOLEAN /\ ~set_mac
    BY DEF WqInit
  <2>2. EventsHandedOn("LOW") = {} /\ Len(posted) = 0
    BY <1>1, <1>2 DEF Prio
  <2>3. QED
    BY <2>1, <2>2 DEF FirmwareLast, ListLast, MacLast, IfTypes
<1>7. QED
  BY <1>4, <1>5, <1>6 DEF SettleInv

\* The events that are there keep their kind when one is posted.
LEMMA PostedGrows ==
  ASSUME WqInv, NEW c \in Caller, NEW kind \in Kind, Post(c, kind)
  PROVE  /\ Len(posted') = Len(posted) + 1 /\ Len(posted) \in Nat
         /\ \A ev \in 1 .. Len(posted) : posted'[ev] = posted[ev]
         /\ posted'[Len(posted) + 1] = kind
         /\ UNCHANGED <<fifo, accepted, handled, handler, work_pending>>
BY DEF Post, WqInv, WqTypes

LEMMA IfEventsGrow ==
  ASSUME WqInv, NEW c \in Caller, NEW kind \in Kind, Post(c, kind)
  PROVE  /\ IfEvents' = IF kind \in {"IF_ADD", "IF_DEL"}
                        THEN IfEvents \cup {Len(posted) + 1} ELSE IfEvents
         /\ IfEvents \subseteq 1 .. Len(posted)
BY PostedGrows DEF IfEvents

LEMMA CallerPosts ==
  ASSUME WqInv, NEW c \in Caller, NEW kind \in Kind, Post(c, kind)
  PROVE  /\ caller[c].at = "idle"
         /\ caller'[c].at = "copy" => caller'[c].ev = Len(posted) + 1
         /\ caller'[c].at /= "schedule"
         /\ \A d \in Caller : d /= c => caller'[d] = caller[d]
BY DEF Post, WqInv, WqTypes

LEMMA SettlePost ==
  ASSUME WqInv, SettleInv, NEW c \in Caller, NEW kind \in Kind, Post(c, kind),
         kind \in {"IF_ADD", "IF_DEL"} <=> c = EventThread
  PROVE  AcceptedOnce' /\ Woken' /\ IfInOrder'
<1>1. /\ Len(posted') = Len(posted) + 1 /\ Len(posted) \in Nat
      /\ \A ev \in 1 .. Len(posted) : posted'[ev] = posted[ev]
      /\ UNCHANGED <<fifo, accepted, handled, handler, work_pending>>
  BY PostedGrows
<1>2. \A p \in Prio : EventsOf(p) \subseteq EventsOf(p)' /\ EventsAccepted(p)' = EventsAccepted(p)
                      /\ EventsAccepted(p) \subseteq 1 .. Len(posted)
  BY <1>1 DEF EventsOf, EventsAccepted, SettleInv, AcceptedOnce
<1>3. AllAccepted' = AllAccepted /\ AllAccepted \subseteq 1 .. Len(posted)
  BY <1>2 DEF AllAccepted, Prio
<1>4. AcceptedOnce'
  <2>1. \A p \in Prio : EventsAccepted(p)' \subseteq EventsOf(p)'
    BY <1>2 DEF SettleInv, AcceptedOnce
  <2>2. \A d \in Caller : caller'[d].at = "copy" => caller'[d].ev \notin AllAccepted'
    BY <1>1, <1>3, CallerPosts DEF SettleInv, AcceptedOnce
  <2>3. \A d \in Caller : caller[d].at = "copy" => caller[d].ev /= Len(posted) + 1
    BY <1>1 DEF WqInv, EventsPosted
  <2>4. \A d, e \in Caller : d /= e /\ caller'[d].at = "copy" /\ caller'[e].at = "copy"
                           => caller'[d].ev /= caller'[e].ev
    BY <2>3, CallerPosts DEF SettleInv, AcceptedOnce
  <2>5. QED
    BY <1>1, <1>3, <2>1, <2>2, <2>4 DEF SettleInv, AcceptedOnce
<1>5. Woken'
  BY <1>1, CallerPosts DEF SettleInv, Woken
<1>6. /\ IfEvents' = IF kind \in {"IF_ADD", "IF_DEL"}
                     THEN IfEvents \cup {Len(posted) + 1} ELSE IfEvents
      /\ IfEvents \subseteq 1 .. Len(posted)
  BY IfEventsGrow
<1>7. IfInOrder'
  <2>1. ASSUME NEW d \in Caller, caller'[d].at = "copy", caller'[d].ev \in IfEvents'
        PROVE  d = EventThread /\ \A ev \in IfEvents' : ev <= caller'[d].ev
    <3>1. CASE d = c
      <4>1. caller'[d].ev = Len(posted) + 1
        BY <2>1, <3>1, CallerPosts
      <4>2. Len(posted) + 1 \notin IfEvents
        BY <1>1, <1>6
      <4>3. kind \in {"IF_ADD", "IF_DEL"}
        BY <1>6, <2>1, <4>1, <4>2
      <4>4. QED
        BY <1>1, <1>6, <3>1, <4>1, <4>3
    <3>2. CASE d /= c
      <4>1. caller'[d] = caller[d] /\ caller[d].at = "copy" /\ caller[d].ev \in 1 .. Len(posted)
        BY <2>1, <3>2, CallerPosts DEF WqInv, EventsPosted
      <4>2. caller[d].ev \in IfEvents
        BY <1>1, <1>6, <2>1, <4>1
      <4>3. d = EventThread /\ \A ev \in IfEvents : ev <= caller[d].ev
        BY <4>1, <4>2 DEF SettleInv, IfInOrder
      <4>4. IfEvents' = IfEvents
        BY <1>6, <3>2, <4>3
      <4>5. QED
        BY <4>1, <4>3, <4>4
    <3>3. QED
      BY <3>1, <3>2
  <2>2. ASSUME NEW i \in 1 .. Len(accepted'["LOW"]), NEW j \in 1 .. Len(accepted'["LOW"]), i < j,
               accepted'["LOW"][i] \in IfEvents', accepted'["LOW"][j] \in IfEvents'
        PROVE  accepted'["LOW"][i] < accepted'["LOW"][j]
    <3>1. accepted["LOW"][i] \in 1 .. Len(posted) /\ accepted["LOW"][j] \in 1 .. Len(posted)
      BY <1>1, <1>2, <2>2 DEF EventsAccepted, Prio
    <3>2. accepted["LOW"][i] \in IfEvents /\ accepted["LOW"][j] \in IfEvents
      BY <1>1, <1>6, <2>2, <3>1
    <3>3. QED
      BY <1>1, <2>2, <3>2 DEF SettleInv, IfInOrder
  <2>3. QED
    BY <2>1, <2>2 DEF IfInOrder
<1>8. QED
  BY <1>4, <1>5, <1>7

\* What a step of Copy does to what has been accepted.
LEMMA CopyAccepts ==
  ASSUME WqInv, NEW c \in Caller, Copy(c)
  PROVE  LET ev == caller[c].ev
             p == PrioOf(posted[ev])
         IN  /\ ev \in 1 .. Len(posted) /\ p \in Prio /\ ev \in EventsOf(p)
             /\ caller[c].at = "copy" /\ caller'[c].at /= "copy"
             /\ \A d \in Caller : d /= c => caller'[d] = caller[d]
             /\ \/ /\ fifo' = fifo /\ accepted' = accepted
                \/ /\ caller'[c].at = "schedule"
                   /\ accepted' = [accepted EXCEPT ![p] = Append(@, ev)]
<1> DEFINE ev == caller[c].ev
           p == PrioOf(posted[ev])
           n == Min({REC, Room(p)})
<1>1. ev \in 1 .. Len(posted) /\ p \in Prio /\ ev \in EventsOf(p) /\ caller[c].at = "copy"
  BY DEF Copy, WqInv, EventsPosted, EventsOf, PrioOf, Prio
<1>2. n \in {0, REC}
  <2>1. fifo[p] \in Seq(Unit) /\ Len(fifo[p]) % REC = 0 /\ Len(fifo[p]) <= FIFO_SIZE
    BY <1>1 DEF WqInv, WqTypes, FifoWhole
  <2>2. QED
    BY <2>1, Len(fifo[p]) \in Nat, RoomWhole DEF Room
<1>3. /\ fifo' = [fifo EXCEPT ![p] = @ \o [i \in 1 .. n |-> <<ev, i>>]]
      /\ accepted' = [accepted EXCEPT ![p] = IF n = REC THEN Append(@, ev) ELSE @]
      /\ caller' = [caller EXCEPT ![c] = IF n = REC THEN [at |-> "schedule", ev |-> 0] ELSE Idle]
  BY DEF Copy
<1> HIDE DEF n, ev, p
<1>4. REC \in Nat \ {0} /\ fifo \in [Prio -> Seq(Unit)] /\ accepted \in [Prio -> Seq(Nat)]
      /\ caller \in [Caller -> [at : {"idle", "copy", "schedule"}, ev : Nat]]
  BY WqAssumption DEF WqInv, WqTypes
<1>5. caller'[c].at = (IF n = REC THEN "schedule" ELSE "idle")
      /\ \A d \in Caller : d /= c => caller'[d] = caller[d]
  BY <1>3, <1>4 DEF Idle
<1>6. CASE n = 0
  <2>1. [i \in 1 .. n |-> <<ev, i>>] = <<>> /\ fifo[p] \o <<>> = fifo[p]
    BY <1>1, <1>4, <1>6
  <2>2. fifo' = fifo /\ accepted' = accepted
    BY <1>1, <1>3, <1>4, <1>6, <2>1
  <2>3. QED
    BY <1>1, <1>5, <2>2 DEF ev, p
<1>7. CASE n = REC
  BY <1>1, <1>3, <1>5, <1>7 DEF ev, p
<1>8. QED
  BY <1>2, <1>6, <1>7

LEMMA SettleCopy ==
  ASSUME WqInv, SettleInv, NEW c \in Caller, Copy(c)
  PROVE  AcceptedOnce' /\ Woken' /\ IfInOrder'
<1>1. PICK ev \in 1 .. Len(posted), p \in Prio :
        /\ ev = caller[c].ev /\ p = PrioOf(posted[ev]) /\ ev \in EventsOf(p)
        /\ caller[c].at = "copy" /\ caller'[c].at /= "copy"
        /\ \A d \in Caller : d /= c => caller'[d] = caller[d]
        /\ \/ /\ fifo' = fifo /\ accepted' = accepted
           \/ /\ caller'[c].at = "schedule"
              /\ accepted' = [accepted EXCEPT ![p] = Append(@, ev)]
  BY CopyAccepts
<1>2. UNCHANGED <<posted, handled, handler, work_pending, IfEvents, EventsOf("LOW"), EventsOf("HIGH")>>
  BY DEF Copy, IfEvents, EventsOf
<1>3. accepted \in [Prio -> Seq(Nat)] /\ "LOW" \in Prio /\ "HIGH" \in Prio
  BY DEF WqInv, WqTypes, Prio
<1>4. CASE fifo' = fifo /\ accepted' = accepted
  <2>1. UNCHANGED <<EventsAccepted("LOW"), EventsAccepted("HIGH"), AllAccepted>>
    BY <1>4 DEF EventsAccepted, AllAccepted
  <2>2. AcceptedOnce'
    BY <1>1, <1>2, <1>4, <2>1 DEF SettleInv, AcceptedOnce, Prio
  <2>3. Woken'
    BY <1>1, <1>2, <1>4 DEF SettleInv, Woken
  <2>4. IfInOrder'
    BY <1>1, <1>2, <1>4 DEF SettleInv, IfInOrder
  <2>5. QED
    BY <2>2, <2>3, <2>4
<1>5. CASE caller'[c].at = "schedule" /\ accepted' = [accepted EXCEPT ![p] = Append(@, ev)]
  <2>1. /\ accepted'[p] = Append(accepted[p], ev) /\ Len(accepted'[p]) = Len(accepted[p]) + 1
        /\ accepted'[p][Len(accepted[p]) + 1] = ev /\ Len(accepted[p]) \in Nat
        /\ \A i \in 1 .. Len(accepted[p]) : accepted'[p][i] = accepted[p][i]
        /\ \A q \in Prio : q /= p => accepted'[q] = accepted[q]
    BY <1>3, <1>5
  <2>2. EventsAccepted(p)' = EventsAccepted(p) \cup {ev}
        /\ \A q \in Prio : q /= p => EventsAccepted(q)' = EventsAccepted(q)
    <3>1. 1 .. Len(accepted'[p]) = 1 .. Len(accepted[p]) \cup {Len(accepted[p]) + 1}
      BY <2>1
    <3>2. EventsAccepted(p)' = EventsAccepted(p) \cup {ev}
      BY <2>1, <3>1 DEF EventsAccepted
    <3>3. ASSUME NEW q \in Prio, q /= p PROVE EventsAccepted(q)' = EventsAccepted(q)
      <4>1. accepted'[q] = accepted[q]
        BY <2>1, <3>3
      <4>2. QED
        BY <4>1 DEF EventsAccepted
    <3>4. QED
      BY <3>2, <3>3
  <2>3. AllAccepted' = AllAccepted \cup {ev}
    BY <2>2 DEF AllAccepted, Prio
  <2>4. ev \notin AllAccepted
    BY <1>1 DEF SettleInv, AcceptedOnce
  <2>5. AcceptedOnce'
    <3>3. \A q \in Prio : EventsAccepted(q)' \subseteq EventsOf(q)'
      BY <1>1, <1>2, <2>2 DEF SettleInv, AcceptedOnce, Prio
    <3>4. \A d \in Caller : caller'[d].at = "copy" => caller'[d].ev \notin AllAccepted'
      BY <1>1, <2>3 DEF SettleInv, AcceptedOnce
    <3>5. \A d, e \in Caller : d /= e /\ caller'[d].at = "copy" /\ caller'[e].at = "copy"
                           => caller'[d].ev /= caller'[e].ev
      BY <1>1 DEF SettleInv, AcceptedOnce
    <3>6. QED
      BY <3>3, <3>4, <3>5 DEF AcceptedOnce
  <2>6. Woken'
    BY <1>5 DEF Woken
  <2>7. IfInOrder'
    <3>1. \A d \in Caller : caller'[d].at = "copy" /\ caller'[d].ev \in IfEvents'
                       => d = EventThread /\ \A e \in IfEvents' : e <= caller'[d].ev
      BY <1>1, <1>2 DEF SettleInv, IfInOrder
    <3>2. ASSUME NEW i \in 1 .. Len(accepted'["LOW"]), NEW j \in 1 .. Len(accepted'["LOW"]), i < j,
                 accepted'["LOW"][i] \in IfEvents, accepted'["LOW"][j] \in IfEvents
          PROVE  accepted'["LOW"][i] < accepted'["LOW"][j]
      <4>1. CASE p /= "LOW" \/ j <= Len(accepted[p])
        <5>1. i \in 1 .. Len(accepted["LOW"]) /\ j \in 1 .. Len(accepted["LOW"])
              /\ accepted'["LOW"][i] = accepted["LOW"][i] /\ accepted'["LOW"][j] = accepted["LOW"][j]
          <6>1. CASE p /= "LOW"
            BY <1>3, <2>1, <3>2, <6>1
          <6>2. CASE p = "LOW" /\ j <= Len(accepted[p])
            <7>1. i \in 1 .. Len(accepted[p]) /\ j \in 1 .. Len(accepted[p])
              BY <2>1, <3>2, <6>2
            <7>2. QED
              BY <2>1, <6>2, <7>1
          <6>3. QED
            BY <4>1, <6>1, <6>2
        <5>2. QED
          BY <3>2, <5>1 DEF SettleInv, IfInOrder
      <4>2. CASE p = "LOW" /\ j > Len(accepted[p])
        <5>1. j = Len(accepted["LOW"]) + 1 /\ i \in 1 .. Len(accepted["LOW"])
          BY <2>1, <3>2, <4>2
        <5>2. accepted'["LOW"][j] = ev /\ accepted'["LOW"][i] = accepted["LOW"][i]
          BY <2>1, <4>2, <5>1
        <5>3. accepted["LOW"][i] <= ev
          BY <1>1, <3>2, <5>2 DEF SettleInv, IfInOrder
        <5>4. accepted["LOW"][i] \in AllAccepted
          BY <5>1 DEF AllAccepted, EventsAccepted
        <5>5. accepted["LOW"][i] \in Nat
          BY <1>3, <5>1
        <5>6. QED
          BY <1>1, <2>4, <5>2, <5>3, <5>4, <5>5
      <4>3. QED
        BY <2>1, <3>2, <4>1, <4>2
    <3>3. QED
      BY <1>2, <3>1, <3>2 DEF IfInOrder
  <2>8. QED
    BY <2>5, <2>6, <2>7
<1>6. QED
  BY <1>1, <1>4, <1>5

\* What the work item does with the event in its hands.
LEMMA CallHandles ==
  ASSUME WqInv, Call
  PROVE  LET ev == handler.ev
             p == PrioOf(posted[ev])
         IN  /\ ev \in 1 .. Len(posted) /\ p \in Prio
             /\ handled' = [handled EXCEPT ![p] = Append(@, ev)]
             /\ UNCHANGED <<fifo, posted, accepted, caller, work_pending, fw_if>>
             /\ Done(posted[ev]) \/ Failed(posted[ev])
             /\ handler'.at = "get"
BY DEF Call, WqInv, EventsPosted, PrioOf, Prio

\* What was handled is at the head of what was accepted, and had been posted.
LEMMA HandledFirst ==
  ASSUME WqInv, SettleInv, NEW p \in Prio
  PROVE  /\ handled[p] \in Seq(Nat) /\ accepted[p] \in Seq(Nat)
         /\ Len(handled[p]) + Len(InHand(p)) <= Len(accepted[p])
         /\ \A i \in 1 .. Len(handled[p]) : accepted[p][i] = handled[p][i]
         /\ InHand(p) /= <<>> => accepted[p][Len(handled[p]) + 1] = handler.ev
         /\ EventsHandedOn(p) \subseteq EventsOf(p)
<1> DEFINE h == handled[p]
           g == InHand(p)
           f == EventsIn(fifo[p])
           a == accepted[p]
<1>1. /\ a = (h \o g) \o f /\ a \in Seq(Nat)
      /\ h \in Seq(Nat) /\ g \in Seq(Nat) /\ f \in Seq(Nat)
  <2>1. fifo[p] \in Seq(Unit) /\ Len(fifo[p]) % REC = 0 /\ h \in Seq(Nat) /\ a \in Seq(Nat)
    BY DEF WqInv, WqTypes, FifoWhole
  <2>2. g \in Seq(Nat)
    BY DEF WqInv, WqTypes, InHand
  <2>3. f \in Seq(Nat)
    BY <2>1, EventsInSeq
  <2>4. QED
    BY <2>1, <2>2, <2>3 DEF WqInv, FifoWhole
<1>2. g /= <<>> => g = <<handler.ev>>
  BY DEF InHand
<1>3. EventsHandedOn(p) = {h[i] : i \in 1 .. Len(h)} /\ EventsAccepted(p) = {a[i] : i \in 1 .. Len(a)}
  BY DEF EventsHandedOn, EventsAccepted
<1> HIDE DEF a, f, g, h
<1>4. Len(h) + Len(g) <= Len(a) /\ \A i \in 1 .. Len(h) : i \in 1 .. Len(a) /\ a[i] = h[i]
  BY <1>1
<1>5. g /= <<>> => a[Len(h) + 1] = handler.ev
  BY <1>1, <1>2
<1>6. EventsHandedOn(p) \subseteq EventsAccepted(p)
  BY <1>3, <1>4
<1>7. EventsHandedOn(p) \subseteq EventsOf(p)
  BY <1>6 DEF SettleInv, AcceptedOnce
<1>8. QED
  BY <1>1, <1>4, <1>5, <1>7 DEF a, g, h

LEMMA HandledPosted ==
  ASSUME WqInv, SettleInv
  PROVE  EventsHandedOn("LOW") \subseteq 1 .. Len(posted) /\ 0 \notin EventsHandedOn("LOW")
<1>1. EventsHandedOn("LOW") \subseteq 1 .. Len(posted)
  BY HandledFirst DEF Prio, EventsOf
<1>2. QED
  BY <1>1

\* An interface event in the hands of the work item comes after those handled.
LEMMA HandledInOrder ==
  ASSUME WqInv, SettleInv, handler.at = "call", handler.ev \in IfEvents,
         NEW e \in EventsHandedOn("LOW") \cap IfEvents
  PROVE  e < handler.ev
<1>1. InHand("LOW") = <<handler.ev>> /\ "LOW" \in Prio
  BY DEF InHand, IfEvents, PrioOf, Prio
<1>2. PICK i \in 1 .. Len(handled["LOW"]) : e = handled["LOW"][i]
  BY DEF EventsHandedOn
<1>3. /\ Len(handled["LOW"]) \in Nat /\ Len(accepted["LOW"]) \in Nat
      /\ Len(handled["LOW"]) + 1 <= Len(accepted["LOW"])
      /\ accepted["LOW"][i] = e /\ accepted["LOW"][Len(handled["LOW"]) + 1] = handler.ev
  <2>1. Len(<<handler.ev>>) = 1 /\ <<handler.ev>> /= <<>>
    OBVIOUS
  <2>2. /\ handled["LOW"] \in Seq(Nat) /\ accepted["LOW"] \in Seq(Nat)
        /\ Len(handled["LOW"]) + Len(InHand("LOW")) <= Len(accepted["LOW"])
        /\ \A j \in 1 .. Len(handled["LOW"]) : accepted["LOW"][j] = handled["LOW"][j]
        /\ InHand("LOW") /= <<>> => accepted["LOW"][Len(handled["LOW"]) + 1] = handler.ev
    BY <1>1, HandledFirst
  <2>3. InHand("LOW") /= <<>> /\ Len(InHand("LOW")) = 1
    BY <1>1, <2>1
  <2>4. QED
    BY <1>2, <2>2, <2>3
<1>4. /\ i \in 1 .. Len(accepted["LOW"]) /\ Len(handled["LOW"]) + 1 \in 1 .. Len(accepted["LOW"])
      /\ i < Len(handled["LOW"]) + 1
  BY <1>3
<1>5. QED
  BY <1>3, <1>4 DEF SettleInv, IfInOrder

\* The handler of the last change leaves the list as the firmware has it, or is
\* known to have failed; those of earlier changes have been called before it.
LEMMA SettleCall ==
  ASSUME WqInv, SettleInv, Call
  PROVE  FirmwareLast' /\ ListLast' /\ MacLast'
<1> DEFINE ev == handler.ev
           kind == posted[handler.ev]
<1>1. /\ ev \in 1 .. Len(posted) /\ posted' = posted /\ (fw_if' = fw_if) /\ handler.at = "call"
      /\ handled' = [handled EXCEPT ![PrioOf(kind)] = Append(@, ev)]
      /\ Done(kind) \/ Failed(kind)
  BY CallHandles DEF Call
<1>2. IfEvents' = IfEvents /\ kind \in Kind /\ (ev \in IfEvents <=> kind \in {"IF_ADD", "IF_DEL"})
      /\ ev /= 0 /\ Len(posted) \in Nat
  BY <1>1 DEF IfEvents, WqInv, WqTypes
<1>3. (last_if' = last_if \/ last_if' = 0) /\ (last_mac' = last_mac \/ last_mac' = 0)
  BY <1>1 DEF Done, Failed, historyVars
<1>4. EventsHandedOn("LOW")' \subseteq EventsHandedOn("LOW") \cup {ev}
      /\ (kind = "UPD_FEATURES" => EventsHandedOn("LOW")' = EventsHandedOn("LOW"))
  <2>1. handled \in [Prio -> Seq(Nat)] /\ "LOW" \in Prio /\ "HIGH" \in Prio /\ ev \in Nat
    BY DEF WqInv, WqTypes, Prio
  <2>2. CASE PrioOf(kind) = "HIGH"
    <3>1. handled'["LOW"] = handled["LOW"]
      BY <1>1, <2>1, <2>2
    <3>2. QED
      BY <3>1 DEF EventsHandedOn
  <2>3. CASE PrioOf(kind) = "LOW" /\ kind /= "UPD_FEATURES"
    <3>1. handled'["LOW"] = Append(handled["LOW"], ev) /\ handled["LOW"] \in Seq(Nat)
      BY <1>1, <2>1, <2>3
    <3>2. \A i \in 1 .. Len(handled'["LOW"]) :
             \/ handled'["LOW"][i] = ev
             \/ i \in 1 .. Len(handled["LOW"]) /\ handled'["LOW"][i] = handled["LOW"][i]
      BY <2>1, <3>1
    <3>3. QED
      BY <2>3, <3>2 DEF EventsHandedOn
  <2>4. QED
    BY <2>2, <2>3 DEF PrioOf
<1>5. 0 \notin EventsHandedOn("LOW")'
  BY <1>2, <1>4, HandledPosted
<1>6. IfTypes /\ FirmwareLast /\ ListLast /\ MacLast
  BY DEF SettleInv
<1>7. FirmwareLast'
  BY <1>1, <1>2, <1>3, <1>6 DEF FirmwareLast
<1>8. ListLast'
  <2> SUFFICES ASSUME last_if' \in EventsHandedOn("LOW")' PROVE if_present' <=> fw_if'
    BY DEF ListLast
  <2>1. last_if' = last_if /\ last_if /= 0
    BY <1>3, <1>5
  <2>2. last_if \in IfEvents /\ (\A e \in IfEvents : e <= last_if)
        /\ (fw_if <=> posted[last_if] = "IF_ADD")
    BY <1>6, <2>1 DEF FirmwareLast
  <2>3. CASE last_if = ev
    <3>1. Done(kind)
      BY <1>1, <1>2, <2>1, <2>3 DEF Failed
    <3>2. kind \in {"IF_ADD", "IF_DEL"} /\ (if_present' <=> kind = "IF_ADD")
      BY <1>2, <2>2, <2>3, <3>1 DEF Done
    <3>3. QED
      BY <1>1, <2>2, <2>3, <3>2
  <2>4. CASE last_if /= ev
    <3>1. last_if \in EventsHandedOn("LOW")
      BY <1>4, <2>1, <2>4
    <3>2. ev \notin IfEvents
      <4>1. last_if \in Nat /\ ev \in Nat
        BY <1>1, <1>2, <1>6 DEF IfTypes
      <4>2. ev \in IfEvents => last_if < ev /\ ev <= last_if
        BY <1>1, <2>2, <3>1, HandledInOrder
      <4>3. QED
        BY <4>1, <4>2
    <3>3. kind \notin {"IF_ADD", "IF_DEL"}
      BY <1>2, <3>2
    <3>4. if_present' <=> if_present
      <4>1. Done(kind) => (if_present' <=> if_present)
        BY <3>3, Zenon DEF Done
      <4>2. Failed(kind) => if_present' = if_present
        BY <3>3 DEF Failed
      <4>3. QED
        BY <1>1, <4>1, <4>2
    <3>5. QED
      BY <1>1, <1>6, <3>1, <3>4 DEF ListLast
  <2>5. QED
    BY <2>3, <2>4
<1>9. MacLast'
  <2> SUFFICES ASSUME set_mac', last_mac' \in EventsHandedOn("LOW")' PROVE FALSE
    BY DEF MacLast
  <2>1. last_mac' = last_mac /\ last_mac /= 0
    BY <1>3, <1>5
  <2>2. posted[last_mac] = "SET_MAC"
    BY <1>6, <2>1 DEF IfTypes
  <2>3. set_mac
    BY <1>1 DEF Done, Failed
  <2>4. last_mac \notin EventsHandedOn("LOW")
    BY <1>6, <2>3 DEF MacLast
  <2>5. last_mac = ev /\ kind = "SET_MAC"
    BY <1>4, <2>1, <2>2, <2>4
  <2>6. ~Done(kind)
    BY <2>5 DEF Done
  <2>7. QED
    BY <1>1, <1>2, <2>1, <2>5, <2>6 DEF Failed
<1>10. QED
  BY <1>7, <1>8, <1>9

LEMMA Settled ==
  ASSUME WqInv, SettleInv
  PROVE  InterfacesSettle
<1> SUFFICES ASSUME \A c \in Caller : caller[c].at = "idle", handler.at = "idle", ~work_pending
             PROVE  /\ Accepted(last_if) => (if_present <=> fw_if)
                    /\ Accepted(last_mac) => ~set_mac
  BY DEF InterfacesSettle, Quiet, SettleInv, IfTypes
<1>1. ASSUME NEW p \in Prio PROVE handled[p] = accepted[p]
  <2>1. fifo[p] = <<>> /\ InHand(p) = <<>>
    BY DEF SettleInv, Woken, InHand
  <2>2. EventsIn(fifo[p]) = <<>>
    <3>1. REC \in Nat \ {0} /\ 0 \div REC = 0
      BY WqAssumption
    <3>2. QED
      BY <2>1, <3>1 DEF EventsIn
  <2>3. accepted[p] = handled[p] \o <<>> \o <<>> /\ handled[p] \in Seq(Nat)
    BY <2>1, <2>2 DEF WqInv, WqTypes, FifoWhole
  <2>4. QED
    BY <2>3
<1>2. ASSUME NEW ev \in 0 .. Len(posted), Accepted(ev),
             ev /= 0 => posted[ev] \in {"IF_ADD", "IF_DEL", "SET_MAC"}
      PROVE  ev \in EventsHandedOn("LOW")
  <2>1. PICK p \in Prio : ev \in ToSet(accepted[p])
    BY <1>2 DEF Accepted
  <2>2. ev \in EventsHandedOn(p)
    BY <1>1, <2>1 DEF ToSet, EventsHandedOn
  <2>3. ev \in EventsOf(p)
    BY <2>2, HandledFirst
  <2>4. ev /= 0
    BY <2>3 DEF EventsOf, WqInv, WqTypes
  <2>5. p = "LOW"
    BY <1>2, <2>3, <2>4 DEF EventsOf, PrioOf
  <2>6. QED
    BY <2>2, <2>5
<1>3. Accepted(last_if) => (if_present <=> fw_if)
  <2>1. last_if /= 0 => posted[last_if] \in {"IF_ADD", "IF_DEL"}
    BY DEF SettleInv, FirmwareLast, IfEvents
  <2>2. QED
    BY <1>2, <2>1 DEF SettleInv, IfTypes, ListLast
<1>4. Accepted(last_mac) => ~set_mac
  BY <1>2 DEF SettleInv, IfTypes, MacLast
<1>5. QED
  BY <1>3, <1>4

\* Nothing is ready only when both FIFOs are empty.
LEMMA NothingReady ==
  ASSUME WqInv, GetNothing
  PROVE  \A p \in Prio : fifo[p] = <<>>
<1> SUFFICES ASSUME NEW p \in Prio PROVE fifo[p] = <<>>
  OBVIOUS
<1>1. REC \in Nat \ {0} /\ fifo[p] \in Seq(Unit) /\ Len(fifo[p]) \in Nat
      /\ Len(fifo[p]) % REC = 0 /\ Len(fifo[p]) < REC
  BY WqAssumption DEF GetNothing, Ready, WqInv, WqTypes, FifoWhole
<1>2. PICK k \in Nat : Len(fifo[p]) = k * REC
  BY <1>1, RecordsIn
<1>3. k * REC < 1 * REC
  BY <1>1, <1>2
<1>4. k = 0
  BY <1>1, <1>3, k \in Int, 1 \in Int, MultipleOrder
<1>5. Len(fifo[p]) = 0
  BY <1>1, <1>2, <1>4
<1>6. QED
  BY <1>1, <1>5


\* The interface list agrees in the end with the firmware, and no address waits,
\* however the events of the stack fall between those of the firmware and whatever
\* handlers failed, when the event of the last change was posted and accepted and
\* its own handler did its work.
THEOREM WqInterfacesSettle == WqSpec => []InterfacesSettle
<1>1. WqInv /\ SettleInv /\ [WqNext]_wqVars => SettleInv'
  <2> SUFFICES ASSUME WqInv, SettleInv, [WqNext]_wqVars PROVE SettleInv'
    OBVIOUS
  <2>0. IfTypes /\ FirmwareLast /\ ListLast /\ MacLast /\ Len(posted) \in Nat
    BY DEF SettleInv, WqInv, WqTypes
  <2>1. CASE PostIfEvent
    <3> DEFINE kind == IF fw_if THEN "IF_DEL" ELSE "IF_ADD"
    <3>1. /\ Post(EventThread, kind) /\ kind \in {"IF_ADD", "IF_DEL"} /\ kind \in Kind
          /\ fw_if' = ~fw_if /\ UNCHANGED <<if_present, set_mac, last_mac>>
          /\ last_if' = Len(posted) + 1 /\ EventThread \in Caller
      BY <2>1 DEF PostIfEvent, Kind, Caller
    <3>a. fw_if' \in BOOLEAN /\ (kind = "IF_ADD" <=> fw_if')
      BY <2>0, <2>1 DEF PostIfEvent, IfTypes
    <3> HIDE DEF kind
    <3>2. AcceptedOnce' /\ Woken' /\ IfInOrder'
      BY <3>1, SettlePost
    <3>3. /\ Len(posted') = Len(posted) + 1
          /\ \A ev \in 1 .. Len(posted) : posted'[ev] = posted[ev]
          /\ posted'[Len(posted) + 1] = kind /\ handled' = handled
          /\ IfEvents' = IfEvents \cup {Len(posted) + 1} /\ IfEvents \subseteq 1 .. Len(posted)
      BY <3>1, PostedGrows, IfEventsGrow
    <3>4. FirmwareLast'
      <4>1. \A ev \in IfEvents' : ev <= Len(posted) + 1
        BY <2>0, <3>3
      <4>2. QED
        BY <3>1, <3>a, <3>3, <4>1 DEF FirmwareLast
    <3>5. ListLast' /\ MacLast'
      <4>1. EventsHandedOn("LOW")' = EventsHandedOn("LOW") /\ last_if' \notin EventsHandedOn("LOW")
        BY <2>0, <3>1, <3>3, HandledPosted DEF EventsHandedOn
      <4>2. QED
        BY <2>0, <3>1, <4>1 DEF ListLast, MacLast
    <3>6. IfTypes'
      BY <2>0, <3>1, <3>a, <3>3 DEF IfTypes
    <3>7. QED
      BY <3>2, <3>4, <3>5, <3>6 DEF SettleInv
  <2>2. ASSUME NEW c \in Stack, PostSetMac(c) \/ PostFeatures(c) PROVE SettleInv'
    <3>1. PICK kind \in {"SET_MAC", "UPD_FEATURES"} :
            /\ Post(c, kind)
            /\ \/ set_mac' = set_mac /\ last_mac' = last_mac
               \/ set_mac' = TRUE /\ last_mac' = Len(posted) + 1 /\ kind = "SET_MAC"
      BY <2>2 DEF PostSetMac, PostFeatures, ifVars, historyVars
    <3>2. c \in Caller /\ c /= EventThread /\ kind \in Kind /\ kind \notin {"IF_ADD", "IF_DEL"}
          /\ UNCHANGED <<fw_if, if_present, last_if>>
      BY <2>2, <3>1, WqAssumption DEF Caller, Kind, PostSetMac, PostFeatures, ifVars, historyVars
    <3>3. AcceptedOnce' /\ Woken' /\ IfInOrder'
      BY <3>1, <3>2, SettlePost
    <3>4. /\ IfEvents' = IfEvents /\ IfEvents \subseteq 1 .. Len(posted)
          /\ \A ev \in 1 .. Len(posted) : posted'[ev] = posted[ev]
          /\ Len(posted') = Len(posted) + 1 /\ posted'[Len(posted) + 1] = kind /\ handled' = handled
      BY <3>1, <3>2, PostedGrows, IfEventsGrow
    <3>5. FirmwareLast'
      BY <2>0, <3>2, <3>4 DEF FirmwareLast
    <3>6. EventsHandedOn("LOW")' = EventsHandedOn("LOW") /\ Len(posted) + 1 \notin EventsHandedOn("LOW")
      BY <2>0, <3>4, HandledPosted DEF EventsHandedOn
    <3>7. ListLast' /\ MacLast'
      BY <2>0, <3>1, <3>2, <3>6 DEF ListLast, MacLast
    <3>8. IfTypes'
      BY <2>0, <3>1, <3>2, <3>4 DEF IfTypes
    <3>9. QED
      BY <3>3, <3>5, <3>7, <3>8 DEF SettleInv
  <2>3. ASSUME UNCHANGED <<posted, handled, ifVars>>
        PROVE  FirmwareLast' /\ ListLast' /\ MacLast' /\ IfTypes'
    BY <2>0, <2>3 DEF ifVars, historyVars, IfTypes, FirmwareLast, ListLast, MacLast, IfEvents, EventsHandedOn
  <2>4. ASSUME UNCHANGED <<posted, accepted>>,
               \A c \in Caller : caller'[c].at = "copy" => caller'[c] = caller[c]
        PROVE  AcceptedOnce' /\ IfInOrder'
    <3>1. UNCHANGED <<EventsOf("LOW"), EventsOf("HIGH"), EventsAccepted("LOW"), EventsAccepted("HIGH"),
                      AllAccepted, IfEvents>>
      BY <2>4 DEF EventsOf, EventsAccepted, AllAccepted, IfEvents
    <3>2. AcceptedOnce'
      BY <2>4, <3>1 DEF SettleInv, AcceptedOnce, Prio
    <3>3. IfInOrder'
      BY <2>4, <3>1 DEF SettleInv, IfInOrder
    <3>4. QED
      BY <3>2, <3>3
  <2>5. ASSUME NEW c \in Caller, Copy(c) PROVE SettleInv'
    <3>1. UNCHANGED <<posted, handled, ifVars>>
      BY <2>5 DEF Copy
    <3>2. AcceptedOnce' /\ Woken' /\ IfInOrder'
      BY <2>5, SettleCopy
    <3>3. QED
      BY <2>3, <3>1, <3>2 DEF SettleInv
  <2>6. ASSUME NEW c \in Caller, Schedule(c) PROVE SettleInv'
    <3>1. UNCHANGED <<posted, accepted, handled, ifVars>> /\ work_pending'
      BY <2>6 DEF Schedule
    <3>2. \A d \in Caller : caller'[d].at = "copy" => caller'[d] = caller[d]
      BY <2>6 DEF Schedule, WqInv, WqTypes, Idle
    <3>3. Woken'
      BY <3>1 DEF Woken
    <3>4. QED
      BY <2>3, <2>4, <3>1, <3>2, <3>3 DEF SettleInv
  <2>7. CASE WorkStarts
    <3>1. UNCHANGED <<posted, accepted, handled, caller, ifVars>>
      BY <2>7 DEF WorkStarts
    <3>2. Woken'
      BY <2>7 DEF WorkStarts, Woken, WqInv, WqTypes
    <3>3. QED
      BY <2>3, <2>4, <3>1, <3>2 DEF SettleInv
  <2>8. CASE Get
    <3>1. UNCHANGED <<posted, accepted, handled, caller, ifVars>>
      BY <2>8 DEF Get
    <3>2. Woken'
      BY <2>8 DEF Get, Woken
    <3>3. QED
      BY <2>3, <2>4, <3>1, <3>2 DEF SettleInv
  <2>9. CASE GetNothing
    <3>1. UNCHANGED <<fifo, posted, accepted, handled, caller, ifVars>>
      BY <2>9 DEF GetNothing, queueVars
    <3>2. \A p \in Prio : fifo[p] = <<>>
      BY <2>9, NothingReady
    <3>3. Woken'
      BY <3>1, <3>2 DEF Woken
    <3>4. QED
      BY <2>3, <2>4, <3>1, <3>3 DEF SettleInv
  <2>10. CASE Call
    <3>1. UNCHANGED <<posted, accepted, caller, fw_if>> /\ handler'.at = "get"
          /\ (Done(posted[handler.ev]) \/ Failed(posted[handler.ev]))
      BY <2>10 DEF Call
    <3>2. Woken'
      BY <3>1 DEF Woken
    <3>3. IfTypes'
      <4>1. Done(posted[handler.ev]) => if_present' \in BOOLEAN
        BY Zenon DEF Done
      <4>2. Failed(posted[handler.ev]) => if_present' = if_present \/ if_present' = FALSE
        BY DEF Failed
      <4>3. (last_if' = last_if \/ last_if' = 0) /\ (last_mac' = last_mac \/ last_mac' = 0)
        BY <3>1 DEF Done, Failed, historyVars
      <4>4. fw_if' \in BOOLEAN /\ if_present' \in BOOLEAN
        BY <2>0, <3>1, <4>1, <4>2 DEF IfTypes
      <4>5. /\ last_if' \in 0 .. Len(posted') /\ last_mac' \in 0 .. Len(posted')
            /\ last_mac' /= 0 => posted'[last_mac'] = "SET_MAC"
        BY <2>0, <3>1, <4>3 DEF IfTypes
      <4>6. QED
        BY <4>4, <4>5 DEF IfTypes
    <3>4. QED
      BY <2>4, <2>10, <3>1, <3>2, <3>3, SettleCall DEF SettleInv
  <2>11. ASSUME UNCHANGED <<queueVars, caller, handler>>
         PROVE  AcceptedOnce' /\ Woken' /\ IfInOrder'
    <3>1. UNCHANGED <<fifo, posted, accepted, handled, caller, work_pending, handler>>
      BY <2>11 DEF queueVars
    <3>2. Woken'
      BY <3>1 DEF SettleInv, Woken
    <3>3. QED
      BY <2>4, <3>1, <3>2
  <2>12. ASSUME UNCHANGED <<queueVars, caller, handler>>, last_if' = 0, last_mac' = last_mac,
                set_mac' = set_mac \/ set_mac' = FALSE,
                fw_if' \in BOOLEAN, if_present' \in BOOLEAN
         PROVE  SettleInv'
    <3>1. UNCHANGED <<posted, handled>> /\ UNCHANGED EventsHandedOn("LOW")
      BY <2>12 DEF queueVars, EventsHandedOn
    <3>2. IfTypes' /\ FirmwareLast' /\ MacLast'
      BY <2>0, <2>12, <3>1 DEF IfTypes, FirmwareLast, MacLast
    <3>3. ListLast'
      BY <2>12, <3>1, HandledPosted DEF ListLast
    <3>4. QED
      BY <2>11, <2>12, <3>2, <3>3 DEF SettleInv
  <2>13. CASE IfEventNotPosted
    BY <2>0, <2>12, <2>13 DEF IfEventNotPosted, IfTypes
  <2>14. CASE ListChanged
    BY <2>0, <2>12, <2>14 DEF ListChanged, IfTypes
  <2>15. ASSUME NEW c \in Stack, SetMacDirect(c) PROVE SettleInv'
    <3>1. UNCHANGED <<posted, handled, fw_if, if_present, last_if>> /\ last_mac' = 0
          /\ UNCHANGED EventsHandedOn("LOW") /\ UNCHANGED IfEvents
      BY <2>15 DEF SetMacDirect, queueVars, EventsHandedOn, IfEvents
    <3>2. IfTypes' /\ FirmwareLast' /\ ListLast'
      BY <2>0, <3>1 DEF IfTypes, FirmwareLast, ListLast
    <3>3. MacLast'
      BY <3>1, HandledPosted DEF MacLast
    <3>4. QED
      BY <2>11, <2>15, <3>2, <3>3 DEF SettleInv, SetMacDirect
  <2>16. CASE UNCHANGED wqVars
    BY <2>3, <2>11, <2>16 DEF wqVars, queueVars, SettleInv
  <2>17. QED
    BY <2>1, <2>2, <2>5, <2>6, <2>7, <2>8, <2>9, <2>10, <2>13, <2>14, <2>15, <2>16
       DEF WqNext, WqHandlerStep
<1>2. WqInv /\ SettleInv => InterfacesSettle
  BY Settled
<1>3. QED
  BY <1>1, <1>2, WqStart, WqStep, SettleStart, PTL DEF WqSpec
=============================================================================
