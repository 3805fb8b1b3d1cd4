---------------------------- MODULE WlfcTxProofs ----------------------------
(***************************************************************************)
(* Theorems about WlfcTx for every number of packets, destinations and     *)
(* hanger slots: its type invariant, and the ownership of packets in the   *)
(* at-firmware-queue mode that SDIO builds negotiate, tear-down included.  *)
(***************************************************************************)
EXTENDS WlfcTx, FiniteSetTheorems, TLAPS

Item == [state : ItemState, pkt : Pkt \cup {NoPkt}, pkt_state : SUBSET Complete]

-----------------------------------------------------------------------------
(* The counters stay natural numbers whatever happens to an entry. *)

LEMMA LessNat == \A n, k \in Nat : Less(n, k) \in Nat
  BY DEF Less

LEMMA MacOps ==
  ASSUME NEW m \in MacRecord
  PROVE  /\ EntryAdded(m) \in MacRecord
         /\ BusDone(m) \in MacRecord
         /\ BusFailed(m) \in MacRecord
         /\ \A n \in Nat : TransitDone(m, n) \in MacRecord
         /\ \A g \in 0 .. 1 : Suppress(m, g) \in MacRecord
         /\ \A g \in 0 .. 1 : Committed(m, g) \in MacRecord
         /\ \A n \in Nat : TakenBack(m, n) \in MacRecord
<1>1. EntryAdded(m) \in MacRecord
  BY DEF MacRecord, EntryAdded, EntryUnused
<1>2. \A x \in MacRecord : BusDone(x) \in MacRecord
  BY LessNat DEF MacRecord, BusDone, ResumeIfDrained
<1>2a. BusFailed(m) \in MacRecord
  <2>1. [m EXCEPT !.transit_count = Less(@, 1),
                  !.suppr_transit_count = Less(@, 1)] \in MacRecord
    BY LessNat DEF MacRecord
  <2>2. QED
    BY <1>2, <2>1 DEF BusFailed
<1>3. ASSUME NEW n \in Nat PROVE TransitDone(m, n) \in MacRecord
  BY LessNat DEF MacRecord, TransitDone
<1>4. ASSUME NEW g \in 0 .. 1 PROVE Suppress(m, g) \in MacRecord
  BY DEF MacRecord, Suppress
<1>5. ASSUME NEW g \in 0 .. 1 PROVE Committed(m, g) \in MacRecord
  <2>1. /\ m.transit_count + 1 \in Nat
        /\ m.onbus_pkts_count + 1 \in Nat
        /\ m.suppr_transit_count + 1 \in Nat
    BY DEF MacRecord
  <2>2. CASE g = m.generation
    BY <2>1, <2>2 DEF MacRecord, Committed
  <2>3. CASE g # m.generation
    BY <2>1, <2>3 DEF MacRecord, Committed
  <2>4. QED
    BY <2>2, <2>3
<1>6. ASSUME NEW n \in Nat PROVE TakenBack(m, n) \in MacRecord
  BY LessNat DEF MacRecord, TakenBack
<1>7. QED
  BY <1>1, <1>2, <1>3, <1>4, <1>5, <1>6, <1>2a

LEMMA CountNat == \A S \in SUBSET Pkt, e \in Entry : Count(S, e) \in Nat
<1>1. SUFFICES ASSUME NEW S \in SUBSET Pkt, NEW e \in Entry
               PROVE  Count(S, e) \in Nat
  OBVIOUS
<1>2. IsFiniteSet({p \in S : dst[p] = e})
  BY FS_Subset, PktAssumption
<1>3. QED
  BY <1>2, FS_CardinalityType DEF Count

-----------------------------------------------------------------------------
(* The operations on the hanger keep its items well formed. *)

LEMMA HangerOps ==
  ASSUME NEW its \in [Slot -> Item], NEW s \in Slot, NEW p \in Pkt,
         NEW flags \in SUBSET Complete, NEW S
  PROVE  /\ PushPkt(its, s, p) \in [Slot -> Item]
         /\ Reuse(its, s) \in [Slot -> Item]
         /\ PopPkt(its, s) \in [Slot -> Item]
         /\ FreePkt(its, s, flags) \in [Slot -> Item]
         /\ RemoveReferences(its, S) \in [Slot -> Item]
         /\ Flushed(its, S) \in [Slot -> Item]
         /\ DropItems(its, S) \in [Slot -> Item]
         /\ MarkSuppressed(its, s) \in [Slot -> Item]
         /\ Freed(its, s, flags) \in SUBSET Pkt
<1>0. FreeItem \in Item
  BY DEF FreeItem, Item, ItemState
<1>1. PushPkt(its, s, p) \in [Slot -> Item]
  BY DEF PushPkt, Item, ItemState
<1>2. Reuse(its, s) \in [Slot -> Item]
  BY DEF Reuse, Item, ItemState
<1>3. PopPkt(its, s) \in [Slot -> Item]
  BY <1>0 DEF PopPkt
<1>4. FreePkt(its, s, flags) \in [Slot -> Item]
  BY <1>3 DEF FreePkt, Item
<1>5. RemoveReferences(its, S) \in [Slot -> Item]
  BY <1>0 DEF RemoveReferences
<1>6. Flushed(its, S) \in [Slot -> Item]
  BY DEF Flushed, Item, ItemState
<1>7. DropItems(its, S) \in [Slot -> Item]
  BY <1>0 DEF DropItems
<1>8. MarkSuppressed(its, s) \in [Slot -> Item]
  BY DEF MarkSuppressed, Item, ItemState
<1>9. Freed(its, s, flags) \in SUBSET Pkt
  BY DEF Freed, Item
<1>10. QED
  BY <1>1, <1>2, <1>3, <1>4, <1>5, <1>6, <1>7, <1>8, <1>9

-----------------------------------------------------------------------------
LEMMA TypeInit == Init => TypeOK
<1>1. SUFFICES ASSUME Init PROVE TypeOK
  OBVIOUS
<1>2. 0 \in Slot
  BY BoundAssumption DEF Slot
<1>3. FreeItem \in Item
  BY DEF FreeItem, Item, ItemState
<1>4. EntryAdded(EntryUnused) \in MacRecord
  <2>1. EntryUnused \in MacRecord
    BY DEF EntryUnused, MacRecord
  <2>2. QED
    BY <2>1 DEF EntryAdded, EntryUnused, MacRecord
<1>5. QED
  BY <1>1, <1>2, <1>3, <1>4, EntryAssumption DEF Init, TypeOK, Item

\* What tear-down leaves of the hanger and of the entries.
LEMMA CleanupTypes ==
  ASSUME TypeOK, NEW E
  PROVE  /\ TxqItems(E) \in [Slot -> Item]
         /\ CleanupItems(E) \in [Slot -> Item]
         /\ TxqMac(E) \in [Entry -> MacRecord]
         /\ CleanupMac(E) \in [Entry -> MacRecord]
<1>1. item \in [Slot -> Item] /\ mac \in [Entry -> MacRecord]
  BY DEF TypeOK, Item
<1>2. /\ TxqFlushed(E) \in SUBSET Pkt
      /\ AfqFlushed(E) \in SUBSET Pkt
  BY DEF TypeOK, TxqFlushed, AfqFlushed, Of
<1>3. \A S : \A its \in [Slot -> Item] :
        /\ RemoveReferences(its, S) \in [Slot -> Item]
        /\ Flushed(its, S) \in [Slot -> Item]
  <2>1. 0 \in Slot /\ {} \in SUBSET Complete
    BY BoundAssumption DEF Slot
  <2>2. ASSUME NEW its \in [Slot -> Item], NEW S
        PROVE  /\ RemoveReferences(its, S) \in [Slot -> Item]
               /\ Flushed(its, S) \in [Slot -> Item]
    <3>1. FreeItem \in Item
      BY DEF FreeItem, Item, ItemState
    <3>2. RemoveReferences(its, S) \in [Slot -> Item]
      BY <3>1 DEF RemoveReferences
    <3>3. Flushed(its, S) \in [Slot -> Item]
      BY DEF Flushed, Item, ItemState
    <3>4. QED
      BY <3>2, <3>3
  <2>3. QED
    BY <2>2
<1>4. TxqItems(E) \in [Slot -> Item]
  BY <1>1, <1>3 DEF TxqItems
<1>5. CleanupItems(E) \in [Slot -> Item]
  BY <1>1, <1>3, <1>4 DEF CleanupItems
<1>6. \A m \in MacRecord, n \in Nat : TransitDone(m, n) \in MacRecord
  BY MacOps
<1>7. TxqMac(E) \in [Entry -> MacRecord]
  <2>1. \A e \in Entry : Count(TxqFlushed(E), e) \in Nat
    BY <1>2, CountNat
  <2>2. \A e \in Entry : TransitDone(mac[e], Count(TxqFlushed(E), e)) \in MacRecord
    BY <1>1, <1>6, <2>1
  <2>3. QED
    BY <2>2 DEF TxqMac
<1>8. CleanupMac(E) \in [Entry -> MacRecord]
  <2>1. \A e \in Entry : Count(AfqFlushed(E), e) \in Nat
    BY <1>2, CountNat
  <2>2. \A e \in Entry :
          TransitDone(TxqMac(E)[e], Count(AfqFlushed(E), e)) \in MacRecord
    BY <1>6, <1>7, <2>1
  <2>3. QED
    BY <2>2 DEF CleanupMac
<1>9. QED
  BY <1>4, <1>5, <1>7, <1>8

\* A slot and a generation a packet may travel with exist in range.
LEMMA TagTypes ==
  ASSUME TypeOK, NEW p \in Pkt
  PROVE  SlotFor(p) \subseteq Slot /\ GenFor(p) \in 0 .. 1
<1>1. SlotFor(p) \subseteq Slot
  BY DEF SlotFor, NextFree, FreeSlots, TypeOK
<1>2. GenFor(p) \in 0 .. 1
  BY DEF GenFor, TypeOK, MacRecord
<1>3. QED
  BY <1>1, <1>2

-----------------------------------------------------------------------------
(* Every action keeps the types. *)

LEMMA TypeTransfer ==
  ASSUME TypeOK, NEW e \in Entry, TransferPacket(e) \/ TransferRollback(e)
  PROVE  TypeOK'
<1>0. Dequeued(e) \subseteq Pkt /\ \A p \in Pkt : SlotFor(p) \subseteq Slot
  BY TagTypes DEF Dequeued, TypeOK
<1>1. CASE TransferPacket(e)
  <2>1. PICK p \in Pkt, s \in Slot :
          /\ p \in Dequeued(e)
          /\ item' = IF AFQ THEN item
                     ELSE IF p \in delayq THEN PushPkt(item, s, p) ELSE Reuse(item, s)
          /\ slot_pos' = IF ~AFQ /\ p \in delayq THEN s ELSE slot_pos
          /\ hslot' = [hslot EXCEPT ![p] = s]
          /\ gen' = [gen EXCEPT ![p] = GenFor(p)]
          /\ mac' = [mac EXCEPT ![e] = Committed(@, GenFor(p))]
          /\ delayq' = delayq \ {p}
          /\ suppq' = suppq \ {p}
          /\ txq' = IF USB THEN txq ELSE txq \cup {p}
          /\ bus' = IF USB THEN bus \cup {p} ELSE bus
    BY <1>1, <1>0 DEF TransferPacket
  <2>3. GenFor(p) \in 0 .. 1
    BY TagTypes
  <2>4. item' \in [Slot -> Item]
    <3>1. s \in Slot /\ item \in [Slot -> Item] /\ {} \in SUBSET Complete
      BY <2>1 DEF TypeOK, Item
    <3>2. PushPkt(item, s, p) \in [Slot -> Item] /\ Reuse(item, s) \in [Slot -> Item]
      BY <3>1, HangerOps
    <3>3. QED
      BY <2>1, <3>1, <3>2
  <2>5. mac' \in [Entry -> MacRecord]
    <3>1. mac[e] \in MacRecord
      BY DEF TypeOK
    <3>2. Committed(mac[e], GenFor(p)) \in MacRecord
      BY <2>3, <3>1, MacOps
    <3>3. QED
      BY <2>1, <3>2 DEF TypeOK
  <2>6. hslot' \in [Pkt -> Slot] /\ slot_pos' \in Slot /\ gen' \in [Pkt -> 0 .. 1]
    BY <2>1, <2>3 DEF TypeOK
  <2>7. QED
    BY <1>1, <2>1, <2>4, <2>5, <2>6 DEF TypeOK, TransferPacket, Item
<1>2. CASE TransferRollback(e)
  <2>1. PICK p \in Pkt, s \in Slot :
          /\ p \in Dequeued(e)
          /\ item' = IF AFQ \/ p \in delayq THEN item ELSE Reuse(item, s)
          /\ slot_pos' = IF ~AFQ /\ p \in delayq THEN s ELSE slot_pos
          /\ hslot' = [hslot EXCEPT ![p] = s]
          /\ gen' = [gen EXCEPT ![p] = GenFor(p)]
    BY <1>2, <1>0 DEF TransferRollback
  <2>3. GenFor(p) \in 0 .. 1
    BY TagTypes
  <2>4. item' \in [Slot -> Item]
    <3>1. s \in Slot /\ item \in [Slot -> Item] /\ {} \in SUBSET Complete
      BY <2>1 DEF TypeOK, Item
    <3>2. PushPkt(item, s, p) \in [Slot -> Item] /\ Reuse(item, s) \in [Slot -> Item]
      BY <3>1, HangerOps
    <3>3. QED
      BY <2>1, <3>1, <3>2
  <2>5. hslot' \in [Pkt -> Slot] /\ slot_pos' \in Slot /\ gen' \in [Pkt -> 0 .. 1]
    BY <2>1, <2>3 DEF TypeOK
  <2>6. QED
    BY <1>2, <2>1, <2>4, <2>5 DEF TypeOK, TransferRollback, Item, queues, wires
<1>3. QED
  BY <1>1, <1>2

LEMMA TypeTxComplete ==
  ASSUME TypeOK, NEW p \in Pkt, TxCompleteOk(p) \/ TxCompleteFail(p)
  PROVE  TypeOK'
<1>1. /\ mac[dst[p]] \in MacRecord /\ dst[p] \in Entry
      /\ hslot[p] \in Slot
      /\ {"BUSRETURNED"} \in SUBSET Complete
  BY DEF TypeOK, Complete
<1>2. BusDone(mac[dst[p]]) \in MacRecord
  BY <1>1, MacOps
<1>3. BusFailed(mac[dst[p]]) \in MacRecord
  BY <1>1, MacOps
<1>4. /\ FreePkt(item, hslot[p], {"BUSRETURNED"}) \in [Slot -> Item]
      /\ PopPkt(item, hslot[p]) \in [Slot -> Item]
  BY <1>1, HangerOps DEF TypeOK, Item
<1>5. CASE TxCompleteOk(p)
  <2>1. item' \in [Slot -> Item] /\ mac' \in [Entry -> MacRecord]
    BY <1>1, <1>2, <1>4, <1>5 DEF TxCompleteOk, TypeOK, Item
  <2>2. QED
    BY <1>5, <2>1 DEF TxCompleteOk, TypeOK, Item, tags
<1>6. CASE TxCompleteFail(p)
  <2>1. item' \in [Slot -> Item]
    BY <1>4, <1>6 DEF TxCompleteFail, TypeOK, Item
  <2>2. mac' \in [Entry -> MacRecord]
    BY <1>1, <1>3, <1>6 DEF TxCompleteFail, TypeOK
  <2>3. QED
    BY <1>6, <2>1, <2>2 DEF TxCompleteFail, TypeOK, Item, tags, queues
<1>7. QED
  BY <1>5, <1>6

LEMMA TypeTxStatus ==
  ASSUME TypeOK, NEW p \in Pkt,
         TxStatusStale(p) \/ TxStatusDone(p) \/ TxStatusSuppressAcked(p)
  PROVE  TypeOK'
<1>1. /\ hslot[p] \in Slot
      /\ {"TXSTATUS"} \in SUBSET Complete
      /\ item \in [Slot -> Item]
  BY DEF TypeOK, Complete, Item
<1>2. FreePkt(item, hslot[p], {"TXSTATUS"}) \in [Slot -> Item]
  BY <1>1, HangerOps
<1>3. \A m \in MacRecord : TransitDone(m, 1) \in MacRecord
  BY MacOps
<1>4. CASE TxStatusStale(p)
  BY <1>1, <1>2, <1>4 DEF TxStatusStale, TypeOK, Item, tags, queues, wires
<1>5. CASE TxStatusDone(p)
  <2>1. item' \in [Slot -> Item]
    BY <1>1, <1>2, <1>5 DEF TxStatusDone
  <2>2. Found(p) \in Pkt
    BY <1>1, <1>5 DEF TxStatusDone, Found, Item
  <2>3. dst[Found(p)] \in Entry /\ TransitDone(mac[dst[Found(p)]], 1) \in MacRecord
    BY <1>3, <2>2 DEF TypeOK
  <2>4. mac' \in [Entry -> MacRecord]
    BY <1>5, <2>3 DEF TxStatusDone, TypeOK
  <2>5. QED
    BY <1>5, <2>1, <2>4 DEF TxStatusDone, TypeOK, Item, tags, wires
<1>6. CASE TxStatusSuppressAcked(p)
  <2>1. dst[p] \in Entry /\ mac[dst[p]] \in MacRecord
    BY DEF TypeOK
  <2>2. [mac[dst[p]] EXCEPT !.transit_count = @ + 1] \in MacRecord
    BY <2>1 DEF MacRecord
  <2>3. SentAfterAll(mac[dst[p]]) \in MacRecord
    BY <1>3, <2>2 DEF SentAfterAll
  <2>4. mac' \in [Entry -> MacRecord]
    BY <1>6, <2>1, <2>3 DEF TxStatusSuppressAcked, TypeOK
  <2>5. QED
    BY <1>6, <2>4 DEF TxStatusSuppressAcked, TypeOK, tags, wires, hang
<1>7. QED
  BY <1>4, <1>5, <1>6

\* A suppress status: one packet, and what suppress_txq takes back with it.
LEMMA TypeSuppress ==
  ASSUME TypeOK, NEW p \in Pkt, NEW g \in 0 .. 1, TxStatusSuppress(p, g)
  PROVE  TypeOK'
<1> DEFINE q == Found(p)
           e == dst[q]
           back == IF REORDERSUPP /\ ~USB /\ ~mac[e].suppressed
                   THEN InTxq(e) ELSE {}
           marked == [s \in Slot |-> IF ~AFQ /\ \E x \in back \cup {q} : hslot[x] = s
                                     THEN MarkSuppressed(item, s)[s] ELSE item[s]]
<1>1. PICK V \in Victims(e, "sup", back \cup {q}) :
        /\ suppq' = (suppq \cup back \cup {q}) \ V
        /\ delayq' = delayq \ V
        /\ live' = live \ V
        /\ item' = DropItems(marked, V \ delayq)
        /\ mac' = [mac EXCEPT ![e] = TakenBack(TransitDone(Suppress(@, g), 1),
                                               Cardinality(back))]
  BY DEF TxStatusSuppress
<1>2. item \in [Slot -> Item] /\ hslot[p] \in Slot
  BY DEF TypeOK, Item
<1>3. q \in Pkt /\ e \in Entry
  BY <1>2 DEF TxStatusSuppress, Found, TypeOK, Item
<1>4. back \in SUBSET Pkt
  BY DEF InTxq, TypeOK
<1>5. mac' \in [Entry -> MacRecord]
  <2>1. Cardinality(back) \in Nat
    BY <1>4, FS_Subset, FS_CardinalityType, PktAssumption
  <2>2. mac[e] \in MacRecord
    BY <1>3 DEF TypeOK
  <2>3. Suppress(mac[e], g) \in MacRecord
    BY <2>2, MacOps
  <2>4. TransitDone(Suppress(mac[e], g), 1) \in MacRecord
    BY <2>3, MacOps
  <2>5. TakenBack(TransitDone(Suppress(mac[e], g), 1), Cardinality(back)) \in MacRecord
    BY <2>1, <2>4, MacOps
  <2>6. QED
    BY <1>1, <1>3, <2>5 DEF TypeOK
<1>6. item' \in [Slot -> Item]
  <2>1. \A s \in Slot : MarkSuppressed(item, s) \in [Slot -> Item]
    BY <1>2, <1>3, HangerOps
  <2>2. marked \in [Slot -> Item]
    BY <1>2, <2>1
  <2>3. DropItems(marked, V \ delayq) \in [Slot -> Item]
    BY <1>2, <1>3, <2>2, HangerOps
  <2>4. QED
    BY <1>1, <2>3
<1>7. gen' \in [Pkt -> 0 .. 1]
  BY DEF TxStatusSuppress, TypeOK
<1>8. suppq' \in SUBSET Pkt /\ delayq' \in SUBSET Pkt /\ live' \in SUBSET Pkt
  BY <1>1, <1>3, <1>4 DEF TypeOK
<1>9. txq' \in SUBSET Pkt /\ dongle' \in SUBSET Pkt /\ afq' \in SUBSET Pkt
  BY DEF TxStatusSuppress, TypeOK
<1>10. UNCHANGED <<up, dst, hslot, bus, sent, slot_pos>>
  BY DEF TxStatusSuppress
<1>11. QED
  BY <1>5, <1>6, <1>7, <1>8, <1>9, <1>10 DEF TypeOK, Item

\* Tear-down, and an entry that is added again.
LEMMA TypeTeardown ==
  ASSUME TypeOK, NEW e \in Entry,
         CleanupTxq \/ Cleanup \/ Deinit \/ MacDel(e) \/ MacAdd(e)
  PROVE  TypeOK'
<1>1. \A ms \in [Entry -> MacRecord] : Vacated(ms) \in [Entry -> MacRecord]
  BY DEF Vacated, MacRecord
<1>2. CASE CleanupTxq
  BY <1>2, CleanupTypes DEF CleanupTxq, TypeOK, Item, tags, queues
<1>3. CASE Cleanup
  <2>1. item' \in [Slot -> Item] /\ mac' \in [Entry -> MacRecord]
    BY <1>1, <1>3, CleanupTypes DEF Cleanup
  <2>2. QED
    BY <1>3, <2>1 DEF Cleanup, CleanupQueues, TypeOK, Item, tags
<1>4. CASE Deinit
  <2>1. item' \in [Slot -> Item]
    BY <1>4 DEF Deinit, FreeItem, Item, ItemState
  <2>2. mac' \in [Entry -> MacRecord]
    BY <1>1, <1>4, CleanupTypes DEF Deinit
  <2>3. QED
    BY <1>4, <2>1, <2>2 DEF Deinit, CleanupQueues, TypeOK, Item, tags
<1>5. CASE MacDel(e)
  <2>1. item' \in [Slot -> Item]
    BY <1>5, CleanupTypes DEF MacDel
  <2>2. CleanupMac({e}) \in [Entry -> MacRecord]
    BY CleanupTypes
  <2>3. [CleanupMac({e})[e] EXCEPT !.occupied = FALSE] \in MacRecord
    BY <2>2 DEF MacRecord
  <2>4. mac' \in [Entry -> MacRecord]
    BY <1>5, <2>2, <2>3 DEF MacDel
  <2>5. QED
    BY <1>5, <2>1, <2>4 DEF MacDel, CleanupQueues, TypeOK, Item, tags
<1>6. CASE MacAdd(e)
  <2>1. EntryAdded(mac[e]) \in MacRecord
    BY MacOps DEF TypeOK
  <2>2. mac' \in [Entry -> MacRecord]
    BY <1>6, <2>1 DEF MacAdd, TypeOK
  <2>3. QED
    BY <1>6, <2>2 DEF MacAdd, Of, TypeOK, tags, wires, hang
<1>7. QED
  BY <1>2, <1>3, <1>4, <1>5, <1>6

LEMMA TypeNext == TypeOK /\ [Next]_vars => TypeOK'
<1>1. SUFFICES ASSUME TypeOK, [Next]_vars
               PROVE  TypeOK'
  OBVIOUS
<1>2. ASSUME NEW p \in Pkt, NEW e \in Entry, CommitPackets(p, e)
      PROVE  TypeOK'
  BY <1>1, <1>2 DEF CommitPackets, TypeOK, wires, hang
<1>3. ASSUME NEW p \in Pkt, SendFromQ(p) \/ BusArrive(p)
      PROVE  TypeOK'
  BY <1>1, <1>3 DEF SendFromQ, BusArrive, TypeOK, tags, queues, hang
<1>4. CASE UNCHANGED vars
  BY <1>1, <1>4 DEF vars, TypeOK, tags, queues, wires, hang
<1>5. CleanupTxq \/ Cleanup \/ Deinit => TypeOK'
  BY <1>1, TypeTeardown, EntryAssumption
<1>6. \A e \in Entry : MacDel(e) \/ MacAdd(e) => TypeOK'
  BY <1>1, TypeTeardown
<1>7. \A e \in Entry : TransferPacket(e) \/ TransferRollback(e) => TypeOK'
  BY <1>1, TypeTransfer
<1>8. \A p \in Pkt : TxCompleteOk(p) \/ TxCompleteFail(p) => TypeOK'
  BY <1>1, TypeTxComplete
<1>9. \A p \in Pkt :
        TxStatusStale(p) \/ TxStatusDone(p) \/ TxStatusSuppressAcked(p) => TypeOK'
  BY <1>1, TypeTxStatus
<1>10. \A p \in Pkt, g \in 0 .. 1 : TxStatusSuppress(p, g) => TypeOK'
  BY <1>1, TypeSuppress
<1>11. QED
  BY <1>1, <1>2, <1>3, <1>4, <1>5, <1>6, <1>7, <1>8, <1>9, <1>10 DEF Next

\* Every variable keeps the shape of the field it stands for; in particular
\* the counters that dhd_wlfc.c decrements never become negative and a slot
\* number never leaves the hanger.
THEOREM TypeCorrect == Spec => []TypeOK
  BY TypeInit, TypeNext, PTL DEF Spec

-----------------------------------------------------------------------------
(* Who owns a packet in the at-firmware-queue mode.  The hanger is unused,   *)
(* so every pointer to a packet is in one of the queues or with the bus.     *)

\* The inductive invariant: the places a packet can be in exclude one another,
\* a transfer that awaits its completion is known to the dongle, and what is
\* still on the way there is not.
AfqOwned ==
  /\ \A s \in Slot : item[s] = FreeItem
  /\ delayq \cup suppq \cup afq \cup OnBus \subseteq live
  /\ delayq \cap (suppq \cup afq \cup OnBus \cup dongle) = {}
  /\ suppq \cap (afq \cup OnBus \cup dongle) = {}
  /\ afq \cap OnBus = {}
  /\ txq \cap (bus \cup sent) = {} /\ bus \cap sent = {}
  /\ dongle \cap (txq \cup bus) = {}
  /\ sent \subseteq dongle

\* A full precedence queue sheds delayed, suppressed or arriving packets only.
LEMMA VictimsQueued ==
  ASSUME NEW e, NEW q, NEW N, NEW V \in Victims(e, q, N)
  PROVE  V \subseteq delayq \cup suppq \cup N
  BY DEF Victims

\* In this mode no action touches the hanger.
LEMMA AfqHanger ==
  ASSUME AFQ, TypeOK, AfqOwned, [Next]_vars
  PROVE  \A s \in Slot : item'[s] = FreeItem
<1>1. item \in [Slot -> Item] /\ \A s \in Slot : item[s] = FreeItem
  BY DEF TypeOK, Item, AfqOwned
<1>2. \A E : CleanupItems(E) = item /\ TxqItems(E) = item
  BY <1>1 DEF CleanupItems, TxqItems, Flushed
<1>3. \A V : DropItems(item, V) = item
  BY <1>1 DEF DropItems
<1>4. ASSUME NEW p \in Pkt, NEW g \in 0 .. 1, TxStatusSuppress(p, g)
      PROVE  item' = item
  <2> DEFINE q == Found(p)
             e == dst[q]
             back == IF REORDERSUPP /\ ~USB /\ ~mac[e].suppressed
                     THEN InTxq(e) ELSE {}
             marked == [s \in Slot |-> IF ~AFQ /\ \E x \in back \cup {q} : hslot[x] = s
                                       THEN MarkSuppressed(item, s)[s] ELSE item[s]]
  <2>1. marked = item
    BY <1>1
  <2>2. \E V : item' = DropItems(marked, V)
    BY <1>4 DEF TxStatusSuppress
  <2>3. QED
    BY <1>3, <2>1, <2>2
<1>5. ASSUME NEW p \in Pkt, \/ \E e \in Entry : CommitPackets(p, e)
                            \/ SendFromQ(p) \/ BusArrive(p)
                            \/ TxCompleteOk(p) \/ TxCompleteFail(p)
                            \/ TxStatusStale(p) \/ TxStatusDone(p)
                            \/ TxStatusSuppressAcked(p)
      PROVE  \A s \in Slot : item'[s] = FreeItem
  BY <1>1, <1>5 DEF CommitPackets, SendFromQ, BusArrive, TxCompleteOk, TxCompleteFail,
                    TxStatusStale, TxStatusDone, TxStatusSuppressAcked, hang
<1>6. ASSUME NEW e \in Entry, \/ TransferPacket(e) \/ TransferRollback(e)
                              \/ MacDel(e) \/ MacAdd(e)
      PROVE  item' = item
  BY <1>2, <1>6 DEF TransferPacket, TransferRollback, MacDel, MacAdd, hang
<1>7. CleanupTxq \/ Cleanup => item' = item
  BY <1>2 DEF CleanupTxq, Cleanup
<1>8. Deinit => \A s \in Slot : item'[s] = FreeItem
  BY DEF Deinit
<1>9. UNCHANGED vars => item' = item
  BY DEF vars, hang
<1>10. QED
  BY <1>1, <1>4, <1>5, <1>6, <1>7, <1>8, <1>9 DEF Next

\* Each way a packet moves keeps the places apart.
LEMMA AfqNext ==
  ASSUME AFQ, TypeOK, AfqOwned, [Next]_vars
  PROVE  AfqOwned'
<1>0. ~USB
  BY ModeAssumption
<1>1. \A s \in Slot : item'[s] = FreeItem
  BY AfqHanger
<1>2. ASSUME NEW p \in Pkt, NEW e \in Entry, CommitPackets(p, e)
      PROVE  AfqOwned'
  <2>1. PICK V \in Victims(e, "dly", {p}) :
          delayq' = (delayq \cup {p}) \ V /\ live' = (live \cup {p}) \ V
    BY <1>2 DEF CommitPackets
  <2>2. V \subseteq delayq \cup {p}
    BY <2>1 DEF Victims
  <2>3. QED
    BY <1>1, <1>2, <2>1, <2>2 DEF CommitPackets, AfqOwned, OnBus, wires
<1>3. ASSUME NEW e \in Entry, TransferPacket(e)
      PROVE  AfqOwned'
  <2>1. PICK p \in delayq \cup suppq :
          /\ delayq' = delayq \ {p} /\ suppq' = suppq \ {p}
          /\ txq' = txq \cup {p} /\ bus' = bus
    BY <1>0, <1>3 DEF TransferPacket, Dequeued
  <2>2. QED
    BY <1>1, <1>3, <2>1 DEF TransferPacket, AfqOwned, OnBus
<1>4. ASSUME NEW e \in Entry, TransferRollback(e)
      PROVE  AfqOwned'
  BY <1>1, <1>4 DEF TransferRollback, AfqOwned, OnBus, queues, wires
<1>5. ASSUME NEW p \in Pkt, SendFromQ(p) \/ BusArrive(p)
      PROVE  AfqOwned'
  BY <1>1, <1>5 DEF SendFromQ, BusArrive, AfqOwned, OnBus, queues
<1>6. ASSUME NEW p \in Pkt, TxCompleteOk(p) \/ TxCompleteFail(p)
      PROVE  AfqOwned'
  <2>1. Freed(item, hslot[p], {"BUSRETURNED"}) = {}
    BY DEF Freed, AfqOwned, FreeItem, TypeOK
  <2>2. CASE TxCompleteOk(p)
    BY <1>1, <2>1, <2>2 DEF TxCompleteOk, AfqOwned, OnBus
  <2>3. CASE TxCompleteFail(p)
    BY <1>1, <2>3 DEF TxCompleteFail, AfqOwned, OnBus, queues
  <2>4. QED
    BY <1>6, <2>2, <2>3
<1>7. ASSUME NEW p \in Pkt, TxStatusStale(p) \/ TxStatusDone(p)
      PROVE  AfqOwned'
  <2>1. CASE TxStatusStale(p)
    BY <1>0, <1>1, <2>1 DEF TxStatusStale, StatusReady, AfqOwned, OnBus, queues, wires
  <2>2. CASE TxStatusDone(p)
    BY <1>0, <1>1, <2>2 DEF TxStatusDone, StatusReady, Found, AfqOwned, OnBus, wires
  <2>3. QED
    BY <1>7, <2>1, <2>2
<1>8. ASSUME NEW p \in Pkt, NEW g \in 0 .. 1, TxStatusSuppress(p, g)
      PROVE  AfqOwned'
  <2>1. p \in afq /\ p \notin sent /\ Found(p) = p
    BY <1>0, <1>8 DEF TxStatusSuppress, StatusReady, Found
  <2>2. PICK back, V :
          /\ back \in SUBSET txq
          /\ V \in Victims(dst[p], "sup", back \cup {p})
          /\ suppq' = (suppq \cup back \cup {p}) \ V
          /\ delayq' = delayq \ V
          /\ live' = live \ V
          /\ txq' = txq \ back
    <3> DEFINE b == IF REORDERSUPP /\ ~USB /\ ~mac[dst[Found(p)]].suppressed
                    THEN InTxq(dst[Found(p)]) ELSE {}
    <3>1. b \in SUBSET txq
      BY DEF InTxq
    <3>2. \E V \in Victims(dst[Found(p)], "sup", b \cup {Found(p)}) :
            /\ suppq' = (suppq \cup b \cup {Found(p)}) \ V
            /\ delayq' = delayq \ V
            /\ live' = live \ V
            /\ txq' = txq \ b
      BY <1>8 DEF TxStatusSuppress
    <3>3. QED
      BY <2>1, <3>1, <3>2
  <2>3. V \subseteq delayq \cup suppq \cup back \cup {p}
    BY <2>2, VictimsQueued
  <2>4. /\ dongle' = dongle \ {p} /\ afq' = afq \ {p}
        /\ bus' = bus /\ sent' = sent
    BY <1>8, <2>1 DEF TxStatusSuppress
  <2>5. QED
    BY <1>1, <2>1, <2>2, <2>3, <2>4 DEF AfqOwned, OnBus
<1>9. ASSUME NEW p \in Pkt, TxStatusSuppressAcked(p)
      PROVE  AfqOwned'
  BY <1>1, <1>9 DEF TxStatusSuppressAcked, AfqOwned, OnBus, wires
<1>10. ASSUME NEW E, CleanupQueues(E), live' = live \ CleanupFrees(E),
              UNCHANGED <<bus, sent, dongle>>
       PROVE  AfqOwned'
  BY <1>1, <1>10 DEF CleanupQueues, CleanupFrees, TxqFlushed, PsqFlushed, AfqFlushed, Of,
                     AfqOwned, OnBus
<1>11. CleanupTxq => AfqOwned'
  BY <1>1 DEF CleanupTxq, TxqFlushed, Of, AfqOwned, OnBus, queues
<1>12. Cleanup => AfqOwned'
  BY <1>10 DEF Cleanup
<1>13. Deinit => AfqOwned'
  <2>1. ASSUME Deinit PROVE live' = live \ CleanupFrees(Entry)
    <3>1. \A s \in Slot : CleanupItems(Entry)[s].pkt = NoPkt
      BY DEF CleanupItems, TxqItems, Flushed, AfqOwned, FreeItem
    <3>2. NoPkt \notin live
      BY PktAssumption DEF TypeOK
    <3>3. QED
      BY <2>1, <3>1, <3>2 DEF Deinit
  <2>2. QED
    BY <1>10, <2>1 DEF Deinit
<1>14. ASSUME NEW e \in Entry, MacDel(e) \/ MacAdd(e)
       PROVE  AfqOwned'
  <2>1. CASE MacDel(e)
    BY <1>10, <2>1 DEF MacDel
  <2>2. CASE MacAdd(e)
    BY <1>1, <2>2 DEF MacAdd, Of, AfqOwned, OnBus, wires
  <2>3. QED
    BY <1>14, <2>1, <2>2
<1>15. UNCHANGED vars => AfqOwned'
  BY <1>1 DEF vars, queues, wires, AfqOwned, OnBus
<1>16. QED
  BY <1>2, <1>3, <1>4, <1>5, <1>6, <1>7, <1>8, <1>9, <1>11, <1>12, <1>13, <1>14, <1>15
     DEF Next

\* In the at-firmware-queue mode, with every kind of tear-down at any moment,
\* no queue and no transfer keeps a freed packet and no packet is in two
\* places: none of the many PKTFREE calls of dhd_wlfc.c can free one twice.
THEOREM AfqOwnership == AFQ => (Spec => [](NoDanglingPacket /\ QueuedOnce))
<1>1. SUFFICES ASSUME AFQ PROVE Spec => [](NoDanglingPacket /\ QueuedOnce)
  OBVIOUS
<1>2. Init => AfqOwned
  BY DEF Init, AfqOwned, OnBus
<1>3. TypeOK /\ AfqOwned /\ [Next]_vars => AfqOwned'
  BY <1>1, AfqNext
<1>4. AfqOwned => NoDanglingPacket /\ QueuedOnce
  BY DEF AfqOwned, NoDanglingPacket, QueuedOnce, OnBus, Hung, FreeItem
<1>5. QED
  BY <1>2, <1>3, <1>4, TypeCorrect, PTL DEF Spec

-----------------------------------------------------------------------------
(* While no tear-down happens: who owns a packet in every mode, and what     *)
(* the counters of a destination count.                                      *)

\* On USB a precedence queue that overflows with suppressed packets would drop
\* packets that the bus still has, so it has to hold all there are.
Serving == Teardown = {} /\ (USB => Cardinality(Pkt) <= PSQ_LEN)

\* What is on its way to the dongle or at it.
InTransit == txq \cup bus \cup dongle

PlacesApart ==
  /\ up /\ \A e \in Entry : mac[e].occupied
  /\ live = delayq \cup suppq \cup OnBus \cup dongle
  /\ afq = IF AFQ THEN dongle \ sent ELSE {}
  /\ delayq \cap (suppq \cup OnBus \cup dongle) = {}
  /\ suppq \cap InTransit = {}
  /\ txq \cap (bus \cup sent) = {} /\ bus \cap sent = {}
  /\ dongle \cap (txq \cup bus) = {}
  /\ IF USB THEN txq = {} ELSE suppq \cap sent = {} /\ sent \subseteq dongle

\* A hanger item names a packet that the bus, the dongle or the suppressed
\* queue has, and says which of its two answers have come.
ItemRight(s) ==
  \/ item[s] = FreeItem
  \/ LET p == item[s].pkt
     IN  /\ item[s].state \in {"INUSE", "INUSE_SUPPRESSED"}
         /\ p \in OnBus \cup dongle \cup suppq /\ hslot[p] = s
         /\ "TXSTATUS" \in item[s].pkt_state <=> p \in sent \ (dongle \cup suppq)
         /\ "BUSRETURNED" \in item[s].pkt_state => p \notin OnBus
         /\ p \in dongle \ OnBus => "BUSRETURNED" \in item[s].pkt_state

ItemsRight ==
  IF AFQ THEN \A s \in Slot : item[s] = FreeItem
  ELSE SlotMatchesPacket /\ \A s \in Slot : ItemRight(s)

\* A suppressed entry has something on the bus or in transit to wait for.
EntryRight(m) ==
  /\ m.suppr_transit_count <= m.transit_count
  /\ m.suppressed => m.onbus_pkts_count > 0 \/ m.suppr_transit_count > 0

EntriesRight == CountersExact /\ \A e \in Entry : EntryRight(mac[e])

\* A suppressed packet that the bus still has is held back with its entry.
HeldBack == \A p \in suppq \cap OnBus : mac[dst[p]].suppressed

ServeInv == PlacesApart /\ ItemsRight /\ EntriesRight /\ HeldBack

LEMMA ServeInit == Init => ServeInv
<1>1. SUFFICES ASSUME Init PROVE ServeInv
  OBVIOUS
<1>2. PlacesApart
  BY <1>1 DEF Init, PlacesApart, OnBus, InTransit, EntryAdded, EntryUnused
<1>3. ItemsRight
  BY <1>1 DEF Init, ItemsRight, ItemRight, SlotMatchesPacket, OnBus
<1>4. EntriesRight
  <2>1. OnBus = {} /\ txq \cup bus \cup dongle = {}
    BY <1>1 DEF Init, OnBus
  <2>2. \A e \in Entry : Count({}, e) = 0
    BY FS_EmptySet DEF Count
  <2>3. \A e \in Entry : /\ mac[e].transit_count = 0 /\ mac[e].onbus_pkts_count = 0
                         /\ mac[e].suppr_transit_count = 0 /\ mac[e].suppressed = FALSE
    BY <1>1 DEF Init, EntryAdded, EntryUnused
  <2>4. QED
    BY <2>1, <2>2, <2>3 DEF EntriesRight, EntryRight, CountersExact, OnbusCounted, TransitCounted
<1>5. HeldBack
  BY <1>1 DEF Init, HeldBack
<1>6. QED
  BY <1>2, <1>3, <1>4, <1>5 DEF ServeInv

-----------------------------------------------------------------------------
(* Counting the packets of an entry.                                         *)

LEMMA CountAdd ==
  ASSUME NEW S \in SUBSET Pkt, NEW p \in Pkt, NEW e, p \notin S
  PROVE  Count(S \cup {p}, e) = Count(S, e) + (IF dst[p] = e THEN 1 ELSE 0)
<1>1. IsFiniteSet({x \in S : dst[x] = e})
  BY FS_Subset, PktAssumption
<1>2. CASE dst[p] = e
  <2>1. {x \in S \cup {p} : dst[x] = e} = {x \in S : dst[x] = e} \cup {p}
    BY <1>2
  <2>2. QED
    BY <1>1, <1>2, <2>1, FS_AddElement DEF Count
<1>3. CASE dst[p] # e
  <2>1. {x \in S \cup {p} : dst[x] = e} = {x \in S : dst[x] = e}
    BY <1>3
  <2>2. Cardinality({x \in S : dst[x] = e}) \in Nat
    BY <1>1, FS_CardinalityType
  <2>3. Count(S \cup {p}, e) = Count(S, e) /\ Count(S, e) \in Nat
    BY <2>1, <2>2 DEF Count
  <2>4. QED
    BY <1>3, <2>3
<1>4. QED
  BY <1>2, <1>3

LEMMA CountOut ==
  ASSUME NEW S \in SUBSET Pkt, NEW p \in S, NEW e
  PROVE  Count(S, e) = Count(S \ {p}, e) + (IF dst[p] = e THEN 1 ELSE 0)
<1>1. S \ {p} \in SUBSET Pkt /\ p \in Pkt /\ p \notin S \ {p} /\ (S \ {p}) \cup {p} = S
  OBVIOUS
<1>2. QED
  BY <1>1, CountAdd

LEMMA CountOutMany ==
  ASSUME NEW S \in SUBSET Pkt, NEW B \in SUBSET S, NEW e, \A p \in B : dst[p] = e
  PROVE  Count(S, e) = Count(S \ B, e) + Cardinality(B) /\ Cardinality(B) \in Nat
<1> DEFINE C == {p \in S : dst[p] = e}
<1>1. IsFiniteSet(C) /\ B \in SUBSET C /\ {p \in S \ B : dst[p] = e} = C \ B
  BY FS_Subset, PktAssumption
<1>2. IsFiniteSet(B) /\ C \cap B = B
  BY <1>1, FS_Subset
<1>3. Cardinality(C \ B) = Cardinality(C) - Cardinality(B)
  BY <1>1, <1>2, FS_Difference
<1>4. Cardinality(C) \in Nat /\ Cardinality(B) \in Nat
  BY <1>1, <1>2, FS_CardinalityType
<1>5. PICK c \in Nat, b \in Nat : c = Cardinality(C) /\ b = Cardinality(B)
  BY <1>4
<1>6. Cardinality(C \ B) = c - b
  BY <1>3, <1>5
<1>7. c = (c - b) + b
  OBVIOUS
<1>8. Count(S, e) = c /\ Count(S \ B, e) = c - b
  BY <1>1, <1>5, <1>6 DEF Count
<1>9. QED
  BY <1>5, <1>7, <1>8

LEMMA CountPositive ==
  ASSUME NEW S \in SUBSET Pkt, NEW e \in Entry
  PROVE  Count(S, e) > 0 <=> \E p \in S : dst[p] = e
<1>1. IsFiniteSet({p \in S : dst[p] = e})
  BY FS_Subset, PktAssumption
<1>2. Cardinality({p \in S : dst[p] = e}) = 0 <=> {p \in S : dst[p] = e} = {}
  BY <1>1, FS_EmptySet
<1>3. QED
  BY <1>2, CountNat DEF Count

-----------------------------------------------------------------------------
(* What an operation makes of an entry.                                      *)

\* Entry m became b: a suppression ends only when the bus has nothing of it.
Follows(m, b) ==
  /\ b \in MacRecord /\ (b.occupied <=> m.occupied) /\ EntryRight(b)
  /\ m.suppressed /\ b.onbus_pkts_count > 0 => b.suppressed

LEMMA LessOne == \A n \in Nat : n > 0 => Less(n, 1) = n - 1 /\ n - 1 \in Nat
  BY DEF Less

LEMMA LessMonotone == \A i, j, n \in Nat : i <= j => Less(i, n) <= Less(j, n)
  BY DEF Less

LEMMA BusDoneFollows ==
  ASSUME NEW m \in MacRecord, m.suppr_transit_count <= m.transit_count, m.onbus_pkts_count > 0
  PROVE  /\ Follows(m, BusDone(m))
         /\ BusDone(m).onbus_pkts_count = m.onbus_pkts_count - 1
         /\ BusDone(m).transit_count = m.transit_count
<1> DEFINE b == BusDone(m)
<1>1. /\ m.onbus_pkts_count \in Nat /\ m.transit_count \in Nat /\ m.suppr_transit_count \in Nat
      /\ m.suppressed \in BOOLEAN /\ m.occupied \in BOOLEAN
  BY DEF MacRecord
<1>2. Less(m.onbus_pkts_count, 1) = m.onbus_pkts_count - 1
  BY <1>1, LessOne
<1>3. b \in MacRecord
  BY MacOps
<1>4. /\ b.onbus_pkts_count = m.onbus_pkts_count - 1 /\ b.transit_count = m.transit_count
      /\ b.suppr_transit_count = m.suppr_transit_count /\ b.occupied = m.occupied
  BY <1>2 DEF BusDone, ResumeIfDrained, MacRecord
<1>5. b.suppressed <=> (m.suppressed /\ ~(b.onbus_pkts_count = 0 /\ b.suppr_transit_count = 0))
  BY <1>2, <1>4 DEF BusDone, ResumeIfDrained, MacRecord
<1> HIDE DEF b
<1>6. b.onbus_pkts_count \in Nat /\ b.suppr_transit_count \in Nat
  BY <1>3 DEF MacRecord
<1>7. EntryRight(b)
  BY <1>1, <1>4, <1>5, <1>6 DEF EntryRight
<1>8. QED
  BY <1>1, <1>3, <1>4, <1>5, <1>6, <1>7 DEF Follows, b

LEMMA BusFailedFollows ==
  ASSUME NEW m \in MacRecord, EntryRight(m), m.onbus_pkts_count > 0, m.transit_count > 0
  PROVE  /\ Follows(m, BusFailed(m))
         /\ BusFailed(m).onbus_pkts_count = m.onbus_pkts_count - 1
         /\ BusFailed(m).transit_count = m.transit_count - 1
<1> DEFINE x == [m EXCEPT !.transit_count = Less(@, 1), !.suppr_transit_count = Less(@, 1)]
<1>1. /\ m.onbus_pkts_count \in Nat /\ m.transit_count \in Nat /\ m.suppr_transit_count \in Nat
  BY DEF MacRecord
<1>2. /\ Less(m.transit_count, 1) = m.transit_count - 1
      /\ Less(m.transit_count, 1) \in Nat /\ Less(m.suppr_transit_count, 1) \in Nat
      /\ Less(m.suppr_transit_count, 1) <= Less(m.transit_count, 1)
  BY <1>1, LessOne, LessNat, LessMonotone DEF EntryRight
<1>3. /\ x \in MacRecord /\ x.transit_count = m.transit_count - 1
      /\ x.onbus_pkts_count = m.onbus_pkts_count /\ x.suppr_transit_count <= x.transit_count
      /\ x.suppressed = m.suppressed /\ x.occupied = m.occupied
  BY <1>2 DEF MacRecord
<1> HIDE DEF x
<1>4. /\ Follows(x, BusDone(x)) /\ BusDone(x).onbus_pkts_count = m.onbus_pkts_count - 1
      /\ BusDone(x).transit_count = m.transit_count - 1
  BY <1>3, BusDoneFollows
<1>5. BusFailed(m) = BusDone(x)
  BY DEF BusFailed, x
<1>6. QED
  BY <1>3, <1>4, <1>5 DEF Follows

LEMMA TransitDoneFollows ==
  ASSUME NEW m \in MacRecord, EntryRight(m), m.transit_count > 0
  PROVE  /\ Follows(m, TransitDone(m, 1))
         /\ TransitDone(m, 1).onbus_pkts_count = m.onbus_pkts_count
         /\ TransitDone(m, 1).transit_count = m.transit_count - 1
<1> DEFINE b == TransitDone(m, 1)
<1>1. /\ m.onbus_pkts_count \in Nat /\ m.transit_count \in Nat /\ m.suppr_transit_count \in Nat
      /\ m.suppressed \in BOOLEAN /\ m.occupied \in BOOLEAN
  BY DEF MacRecord
<1>2. Less(m.transit_count, 1) = m.transit_count - 1
  BY <1>1, LessOne
<1>3. b \in MacRecord
  BY MacOps
<1>4. /\ b.onbus_pkts_count = m.onbus_pkts_count /\ b.transit_count = m.transit_count - 1
      /\ b.suppr_transit_count = Less(m.suppr_transit_count, 1) /\ b.occupied = m.occupied
  BY <1>2 DEF TransitDone, MacRecord
<1>5. b.suppressed <=> (m.suppressed /\ ~(m.suppr_transit_count \in 1 .. 1 /\ m.onbus_pkts_count = 0))
  BY <1>1 DEF TransitDone, MacRecord
<1> HIDE DEF b
<1>6. EntryRight(b)
  <2>1. b.suppr_transit_count <= b.transit_count
    BY <1>1, <1>2, <1>4, LessMonotone DEF EntryRight
  <2>2. ASSUME b.suppressed, b.onbus_pkts_count = 0 PROVE b.suppr_transit_count > 0
    <3>1. m.suppr_transit_count > 0 /\ ~(m.suppr_transit_count \in 1 .. 1)
      BY <1>4, <1>5, <2>2, <1>1 DEF EntryRight
    <3>2. Less(m.suppr_transit_count, 1) = m.suppr_transit_count - 1
      BY <1>1, <3>1, LessOne
    <3>3. QED
      BY <1>1, <1>4, <3>1, <3>2
  <2>3. QED
    BY <1>1, <1>4, <2>1, <2>2 DEF EntryRight
<1>7. QED
  BY <1>1, <1>3, <1>4, <1>5, <1>6 DEF Follows, b

LEMMA CommittedFollows ==
  ASSUME NEW m \in MacRecord, EntryRight(m), NEW g \in 0 .. 1
  PROVE  /\ Follows(m, Committed(m, g))
         /\ Committed(m, g).onbus_pkts_count = m.onbus_pkts_count + 1
         /\ Committed(m, g).transit_count = m.transit_count + 1
<1> DEFINE b == Committed(m, g)
<1>1. /\ m.onbus_pkts_count \in Nat /\ m.transit_count \in Nat /\ m.suppr_transit_count \in Nat
      /\ m.suppressed \in BOOLEAN /\ m.occupied \in BOOLEAN
  BY DEF MacRecord
<1>2. b \in MacRecord
  BY MacOps
<1>3. /\ b.onbus_pkts_count = m.onbus_pkts_count + 1 /\ b.transit_count = m.transit_count + 1
      /\ b.suppr_transit_count = (IF g # m.generation THEN m.suppr_transit_count + 1
                                  ELSE m.suppr_transit_count)
      /\ b.occupied = m.occupied
  BY DEF Committed, MacRecord
<1>4. b.suppressed <=> (m.suppressed \/ g # m.generation)
  BY DEF Committed, MacRecord
<1> HIDE DEF b
<1>5. b.suppr_transit_count <= b.transit_count
  BY <1>1, <1>3 DEF EntryRight
<1>6. b.onbus_pkts_count > 0
  BY <1>1, <1>3
<1>7. QED
  BY <1>2, <1>3, <1>4, <1>5, <1>6 DEF Follows, EntryRight, b

LEMMA SentAfterAllFollows ==
  ASSUME NEW m \in MacRecord, EntryRight(m)
  PROVE  /\ Follows(m, SentAfterAll(m))
         /\ SentAfterAll(m).onbus_pkts_count = m.onbus_pkts_count
         /\ SentAfterAll(m).transit_count = m.transit_count
<1> DEFINE x == [m EXCEPT !.transit_count = @ + 1]
<1>1. /\ m.onbus_pkts_count \in Nat /\ m.transit_count \in Nat /\ m.suppr_transit_count \in Nat
  BY DEF MacRecord
<1>2. /\ x \in MacRecord /\ x.transit_count = m.transit_count + 1 /\ x.transit_count > 0
      /\ x.onbus_pkts_count = m.onbus_pkts_count /\ x.suppr_transit_count = m.suppr_transit_count
      /\ x.suppressed = m.suppressed /\ x.occupied = m.occupied
  BY <1>1 DEF MacRecord
<1> HIDE DEF x
<1>3. EntryRight(x)
  BY <1>1, <1>2 DEF EntryRight
<1>4. /\ Follows(x, TransitDone(x, 1)) /\ TransitDone(x, 1).onbus_pkts_count = x.onbus_pkts_count
      /\ TransitDone(x, 1).transit_count = x.transit_count - 1
  BY <1>2, <1>3, TransitDoneFollows
<1>5. SentAfterAll(m) = TransitDone(x, 1)
  BY DEF SentAfterAll, x
<1>6. x.transit_count - 1 = m.transit_count
  BY <1>1, <1>2
<1>7. QED
  BY <1>2, <1>4, <1>5, <1>6 DEF Follows

\* The first suppression of an entry takes n packets back from bus->txq.
LEMMA SuppressFollows ==
  ASSUME NEW m \in MacRecord, EntryRight(m), NEW g \in 0 .. 1, m.transit_count > 0,
         NEW n \in Nat, n <= m.transit_count - 1, n <= m.onbus_pkts_count
  PROVE  LET b == TakenBack(TransitDone(Suppress(m, g), 1), n)
         IN  /\ b \in MacRecord /\ (b.occupied <=> m.occupied) /\ EntryRight(b)
             /\ b.onbus_pkts_count > 0 => b.suppressed
             /\ b.onbus_pkts_count = m.onbus_pkts_count - n
             /\ b.transit_count = m.transit_count - 1 - n
<1> DEFINE x == Suppress(m, g)
           y == TransitDone(x, 1)
           b == TakenBack(y, n)
<1>1. /\ m.onbus_pkts_count \in Nat /\ m.transit_count \in Nat /\ m.suppr_transit_count \in Nat
  BY DEF MacRecord
<1>2. /\ x \in MacRecord /\ x.suppressed /\ x.occupied = m.occupied
      /\ x.onbus_pkts_count = m.onbus_pkts_count /\ x.transit_count = m.transit_count
      /\ x.suppr_transit_count = IF m.suppressed THEN m.suppr_transit_count ELSE m.transit_count
  BY MacOps DEF Suppress, MacRecord
<1> HIDE DEF x
<1>3. EntryRight(x)
  BY <1>1, <1>2 DEF EntryRight
<1>4. /\ Follows(x, y) /\ y.onbus_pkts_count = m.onbus_pkts_count
      /\ y.transit_count = m.transit_count - 1
  BY <1>2, <1>3, TransitDoneFollows
<1> HIDE DEF y
<1>5. y \in MacRecord /\ (y.occupied <=> m.occupied) /\ EntryRight(y)
      /\ (y.onbus_pkts_count > 0 => y.suppressed)
  BY <1>2, <1>4 DEF Follows
<1>6. CASE n = 0
  <2>1. b = y
    BY <1>6 DEF TakenBack
  <2>2. m.onbus_pkts_count - n = m.onbus_pkts_count /\ m.transit_count - 1 - n = m.transit_count - 1
    BY <1>1, <1>6
  <2>3. QED
    BY <1>4, <1>5, <2>1, <2>2 DEF y, x
<1>7. CASE n # 0
  <2>1. /\ y.onbus_pkts_count \in Nat /\ y.transit_count \in Nat
        /\ y.suppressed \in BOOLEAN /\ y.occupied \in BOOLEAN
    BY <1>5 DEF MacRecord
  <2>2. /\ Less(y.onbus_pkts_count, n) = m.onbus_pkts_count - n
        /\ Less(y.transit_count, n) = m.transit_count - 1 - n
    BY <1>1, <1>4 DEF Less
  <2>3. b \in MacRecord
    BY <1>5, MacOps
  <2>4. /\ b.onbus_pkts_count = m.onbus_pkts_count - n /\ b.transit_count = m.transit_count - 1 - n
        /\ b.suppr_transit_count = m.transit_count - 1 - n /\ b.occupied = y.occupied
    BY <1>5, <1>7, <2>2 DEF TakenBack, MacRecord
  <2>5. b.suppressed <=> ~(y.transit_count = n /\ y.onbus_pkts_count <= n)
    BY <1>5, <1>7 DEF TakenBack, MacRecord
  <2> HIDE DEF b
  <2>6. b.onbus_pkts_count > 0 => b.suppressed
    BY <1>1, <1>4, <2>4, <2>5
  <2>7. EntryRight(b)
    <3>1. b.suppressed => b.onbus_pkts_count > 0 \/ b.suppr_transit_count > 0
      BY <1>1, <1>4, <2>4, <2>5
    <3>2. QED
      BY <1>1, <2>4, <3>1 DEF EntryRight
  <2>8. QED
    BY <1>5, <2>3, <2>4, <2>6, <2>7 DEF b, y, x
<1>8. QED
  BY <1>6, <1>7

\* Packets of one entry have moved and its counters have followed.
LEMMA EntryStep ==
  ASSUME TypeOK, TypeOK', EntriesRight, UNCHANGED dst, NEW e \in Entry, NEW m \in MacRecord,
         mac' = [mac EXCEPT ![e] = m], EntryRight(m),
         \A p \in Pkt : dst[p] # e => /\ p \in OnBus' <=> p \in OnBus
                                      /\ p \in InTransit' <=> p \in InTransit,
         m.onbus_pkts_count = Count(OnBus', e), m.transit_count = Count(InTransit', e)
  PROVE  EntriesRight'
<1>1. mac \in [Entry -> MacRecord] /\ dst \in [Pkt -> Entry]
      /\ OnBus \in SUBSET Pkt /\ OnBus' \in SUBSET Pkt
      /\ InTransit \in SUBSET Pkt /\ InTransit' \in SUBSET Pkt
  BY DEF TypeOK, OnBus, InTransit
<1>2. ASSUME NEW f \in Entry
      PROVE  /\ mac'[f].transit_count = Count(InTransit, f)'
             /\ mac'[f].onbus_pkts_count = Count(OnBus, f)' /\ EntryRight(mac[f])'
  <2>1. CASE f = e
    <3>1. mac'[f] = m
      BY <1>1, <2>1
    <3>2. Count(InTransit, f)' = Count(InTransit', e) /\ Count(OnBus, f)' = Count(OnBus', e)
      BY <2>1 DEF Count
    <3>3. QED
      BY <3>1, <3>2 DEF EntryRight
  <2>2. CASE f # e
    <3>1. mac'[f] = mac[f]
      BY <1>1, <2>2
    <3>2. {p \in OnBus' : dst[p] = f} = {p \in OnBus : dst[p] = f}
          /\ {p \in InTransit' : dst[p] = f} = {p \in InTransit : dst[p] = f}
      BY <1>1, <2>2
    <3>3. Count(InTransit, f)' = Count(InTransit, f) /\ Count(OnBus, f)' = Count(OnBus, f)
      BY <3>2 DEF Count
    <3>4. QED
      BY <3>1, <3>3 DEF EntriesRight, EntryRight, CountersExact, OnbusCounted, TransitCounted, InTransit
  <2>3. QED
    BY <2>1, <2>2
<1>3. QED
  BY <1>2 DEF EntriesRight, CountersExact, OnbusCounted, TransitCounted, InTransit

\* Nothing of an entry has moved.
LEMMA EntriesKept ==
  ASSUME TypeOK, EntriesRight, UNCHANGED <<OnBus, InTransit, mac>>,
         \A p \in OnBus \cup InTransit : dst'[p] = dst[p]
  PROVE  EntriesRight'
<1>1. ASSUME NEW f \in Entry
      PROVE  /\ mac'[f].transit_count = Count(InTransit, f)'
             /\ mac'[f].onbus_pkts_count = Count(OnBus, f)' /\ EntryRight(mac[f])'
  <2>1. {p \in OnBus' : dst'[p] = f} = {p \in OnBus : dst[p] = f}
        /\ {p \in InTransit' : dst'[p] = f} = {p \in InTransit : dst[p] = f}
    OBVIOUS
  <2>2. Count(InTransit, f)' = Count(InTransit, f) /\ Count(OnBus, f)' = Count(OnBus, f)
    BY <2>1 DEF Count
  <2>3. QED
    BY <2>2 DEF EntriesRight, EntryRight, CountersExact, OnbusCounted, TransitCounted, InTransit
<1>2. QED
  BY <1>1 DEF EntriesRight, CountersExact, OnbusCounted, TransitCounted, InTransit

\* An entry is held back while the bus has something of it.
LEMMA HeldStep ==
  ASSUME TypeOK, TypeOK', EntriesRight', HeldBack, UNCHANGED dst, NEW e \in Entry,
         \A f \in Entry \ {e} : mac'[f] = mac[f], Follows(mac[e], mac'[e]),
         \A p \in suppq' \cap OnBus' : p \in suppq \cap OnBus
  PROVE  HeldBack'
<1> SUFFICES ASSUME NEW p \in suppq' \cap OnBus' PROVE mac'[dst[p]].suppressed
  BY DEF HeldBack
<1>1. p \in Pkt /\ dst[p] \in Entry /\ mac[dst[p]].suppressed /\ OnBus' \in SUBSET Pkt
  BY DEF HeldBack, TypeOK, OnBus
<1>2. CASE dst[p] # e
  BY <1>1, <1>2
<1>3. CASE dst[p] = e
  <2>1. mac'[e].onbus_pkts_count = Count(OnBus', e)
    BY DEF EntriesRight, CountersExact, OnbusCounted, Count
  <2>2. Count(OnBus', e) > 0
    BY <1>1, <1>3, CountPositive
  <2>3. QED
    BY <1>1, <1>3, <2>1, <2>2 DEF Follows
<1>4. QED
  BY <1>2, <1>3

-----------------------------------------------------------------------------
(* The hanger.                                                               *)

\* The packets that have an item.
Hanging == OnBus \cup dongle \cup suppq

LEMMA ItemsKept ==
  ASSUME ItemsRight, UNCHANGED <<item, OnBus, dongle, suppq, sent>>,
         \A p \in Hanging : hslot'[p] = hslot[p]
  PROVE  ItemsRight'
BY DEF ItemsRight, ItemRight, SlotMatchesPacket, Hanging

\* One packet has moved; its slot had nothing else and has followed.
LEMMA ItemsStep ==
  ASSUME TypeOK, TypeOK', ~AFQ, ItemsRight, NEW p \in Pkt, NEW s \in Slot, hslot'[p] = s,
         \A x \in Pkt : x # p => /\ hslot'[x] = hslot[x]
                                 /\ x \in OnBus' <=> x \in OnBus
                                 /\ x \in dongle' <=> x \in dongle
                                 /\ x \in suppq' <=> x \in suppq
                                 /\ x \in sent' <=> x \in sent,
         \A t \in Slot : t # s => item'[t] = item[t] /\ item[t].pkt # p,
         item[s] = FreeItem \/ item[s].pkt = p,
         IF p \in Hanging' THEN item'[s].pkt = p /\ ItemRight(s)' ELSE item'[s] = FreeItem
  PROVE  ItemsRight'
<1>1. /\ hslot \in [Pkt -> Slot] /\ hslot' \in [Pkt -> Slot] /\ Hanging \in SUBSET Pkt
      /\ Hanging' \in SUBSET Pkt /\ NoPkt \notin Pkt
  BY PktAssumption DEF TypeOK, OnBus, Hanging
<1>2. ASSUME NEW x \in Hanging' PROVE item'[hslot'[x]].pkt = x
  <2>1. CASE x = p
    BY <1>2, <2>1
  <2>2. CASE x # p
    <3>1. x \in Pkt /\ x \in Hanging /\ hslot'[x] = hslot[x]
      BY <1>1, <1>2, <2>2 DEF Hanging
    <3>2. item[hslot[x]].pkt = x
      BY <3>1 DEF ItemsRight, SlotMatchesPacket, Hanging
    <3>3. hslot[x] # s
      BY <1>1, <2>2, <3>1, <3>2 DEF FreeItem
    <3>4. QED
      BY <1>1, <3>1, <3>2, <3>3
  <2>3. QED
    BY <2>1, <2>2
<1>3. ASSUME NEW t \in Slot PROVE ItemRight(t)'
  <2>1. CASE t = s
    BY <2>1 DEF ItemRight
  <2>2. CASE t # s
    <3>1. item'[t] = item[t] /\ item[t].pkt # p /\ ItemRight(t)
      BY <2>2 DEF ItemsRight
    <3>2. CASE item[t] = FreeItem
      BY <3>1, <3>2 DEF ItemRight
    <3>3. CASE item[t] # FreeItem
      <4>1. item[t].pkt \in Pkt
        BY <1>1, <3>1, <3>3 DEF ItemRight, Hanging
      <4>2. QED
        BY <3>1, <3>3, <4>1 DEF ItemRight
    <3>4. QED
      BY <3>2, <3>3
  <2>3. QED
    BY <2>1, <2>2
<1>4. QED
  BY <1>2, <1>3 DEF ItemsRight, SlotMatchesPacket, Hanging

\* Where the item of a packet is.
LEMMA ItemOf ==
  ASSUME TypeOK, ~AFQ, ItemsRight, NEW p \in Hanging
  PROVE  LET its == item[hslot[p]]
         IN  /\ p \in Pkt /\ hslot[p] \in Slot /\ its.pkt = p /\ p # NoPkt
             /\ \A t \in Slot : t # hslot[p] => item[t].pkt # p
             /\ its.state \in {"INUSE", "INUSE_SUPPRESSED"}
             /\ its.pkt_state \in SUBSET Complete
             /\ "TXSTATUS" \in its.pkt_state <=> p \in sent \ (dongle \cup suppq)
             /\ "BUSRETURNED" \in its.pkt_state => p \notin OnBus
             /\ p \in dongle \ OnBus => "BUSRETURNED" \in its.pkt_state
<1>1. p \in Pkt /\ hslot[p] \in Slot /\ p # NoPkt /\ NoPkt \notin Pkt
  BY PktAssumption DEF TypeOK, Hanging, OnBus
<1>2. item[hslot[p]].pkt = p
  BY DEF ItemsRight, SlotMatchesPacket, Hanging
<1>3. ItemRight(hslot[p]) /\ item[hslot[p]] # FreeItem
  BY <1>1, <1>2 DEF ItemsRight, FreeItem
<1>4. ASSUME NEW t \in Slot, t # hslot[p] PROVE item[t].pkt # p
  BY <1>1, <1>4 DEF ItemsRight, ItemRight, FreeItem
<1>5. item[hslot[p]].pkt_state \in SUBSET Complete
  BY <1>1 DEF TypeOK
<1>6. QED
  BY <1>1, <1>2, <1>3, <1>4, <1>5 DEF ItemRight

-----------------------------------------------------------------------------
(* Every action keeps the invariant.                                         *)

LEMMA ServeCommit ==
  ASSUME TypeOK, TypeOK', ServeInv, NEW p \in Pkt, NEW e \in Entry, CommitPackets(p, e)
  PROVE  ServeInv'
<1>1. PICK V \in Victims(e, "dly", {p}) :
        delayq' = (delayq \cup {p}) \ V /\ live' = (live \cup {p}) \ V
  BY DEF CommitPackets
<1>2. V \subseteq delayq \cup {p}
  BY <1>1 DEF Victims
<1>3. p \notin live /\ p \notin dongle
      /\ dst' = [dst EXCEPT ![p] = e] /\ UNCHANGED <<up, hslot, suppq, afq, txq, bus, sent, dongle, item, mac>>
  BY DEF CommitPackets, wires, hang
<1>4. UNCHANGED <<OnBus, InTransit>>
  BY <1>3 DEF OnBus, InTransit
<1>5. PlacesApart'
  BY <1>1, <1>2, <1>3, <1>4 DEF ServeInv, PlacesApart
<1>6. ItemsRight'
  BY <1>3, <1>4, ItemsKept DEF ServeInv
<1>7. \A x \in OnBus \cup InTransit \cup suppq : dst'[x] = dst[x]
  BY <1>3 DEF ServeInv, PlacesApart, TypeOK, OnBus, InTransit
<1>8. EntriesRight'
  BY <1>3, <1>4, <1>7, EntriesKept DEF ServeInv
<1>9. HeldBack'
  BY <1>3, <1>4, <1>7 DEF ServeInv, HeldBack
<1>10. QED
  BY <1>5, <1>6, <1>8, <1>9 DEF ServeInv

\* What the transfer loop dequeues is not with the bus any more.
LEMMA DequeuedOff ==
  ASSUME TypeOK, ServeInv, NEW e \in Entry, Ready(e), NEW p \in Dequeued(e)
  PROVE  /\ p \in Pkt /\ dst[p] = e /\ p \notin OnBus /\ p \notin InTransit
         /\ p \in suppq \/ p \in delayq
         /\ p \in delayq => p \notin suppq
<1>1. p \in Pkt /\ dst[p] = e /\ (p \in suppq \/ p \in delayq)
  BY DEF Dequeued, TypeOK
<1>2. p \notin OnBus
  BY <1>1 DEF ServeInv, PlacesApart, HeldBack, Ready
<1>3. p \notin InTransit
  BY <1>1, <1>2 DEF ServeInv, PlacesApart, InTransit, OnBus
<1>4. QED
  BY <1>1, <1>2, <1>3 DEF ServeInv, PlacesApart

LEMMA ServeTransfer ==
  ASSUME TypeOK, TypeOK', ServeInv, NEW e \in Entry, TransferPacket(e)
  PROVE  ServeInv'
<1> Dequeued(e) \subseteq Pkt /\ \A p \in Pkt : SlotFor(p) \subseteq Slot
  BY TagTypes DEF Dequeued, TypeOK
<1>1. PICK p \in Pkt, s \in Slot :
        /\ p \in Dequeued(e) /\ s \in SlotFor(p)
        /\ item' = IF AFQ THEN item
                   ELSE IF p \in delayq THEN PushPkt(item, s, p) ELSE Reuse(item, s)
        /\ hslot' = [hslot EXCEPT ![p] = s]
        /\ mac' = [mac EXCEPT ![e] = Committed(@, GenFor(p))]
        /\ delayq' = delayq \ {p}
        /\ suppq' = suppq \ {p}
        /\ txq' = IF USB THEN txq ELSE txq \cup {p}
        /\ bus' = IF USB THEN bus \cup {p} ELSE bus
  BY DEF TransferPacket
<1>2. Ready(e) /\ UNCHANGED <<up, live, dst, afq, sent, dongle>>
  BY DEF TransferPacket
<1>3. /\ p \in Pkt /\ dst[p] = e /\ p \notin OnBus /\ p \notin InTransit
      /\ p \in suppq \/ p \in delayq
      /\ p \in delayq => p \notin suppq
  BY <1>1, <1>2, DequeuedOff
<1>4. OnBus' = OnBus \cup {p} /\ InTransit' = InTransit \cup {p}
  BY <1>1, <1>2 DEF OnBus, InTransit
<1>5. s \in Slot /\ GenFor(p) \in 0 .. 1
  BY <1>3, TagTypes
<1>6. mac[e] \in MacRecord /\ EntryRight(mac[e])
  BY DEF TypeOK, ServeInv, EntriesRight
<1>7. /\ Follows(mac[e], Committed(mac[e], GenFor(p)))
      /\ Committed(mac[e], GenFor(p)).onbus_pkts_count = mac[e].onbus_pkts_count + 1
      /\ Committed(mac[e], GenFor(p)).transit_count = mac[e].transit_count + 1
  BY <1>5, <1>6, CommittedFollows
<1>8. /\ mac'[e] = Committed(mac[e], GenFor(p))
      /\ \A f \in Entry \ {e} : mac'[f] = mac[f]
  BY <1>1 DEF TypeOK
<1>9. PlacesApart'
  <2>1. up' /\ \A f \in Entry : mac'[f].occupied
    BY <1>2, <1>7, <1>8 DEF ServeInv, PlacesApart, Follows
  <2>2. live' = (delayq \cup suppq \cup OnBus \cup dongle)'
    BY <1>1, <1>2, <1>3, <1>4 DEF ServeInv, PlacesApart
  <2>3. /\ (delayq \cap (suppq \cup OnBus \cup dongle))' = {}
        /\ (suppq \cap InTransit)' = {}
    BY <1>1, <1>2, <1>3, <1>4 DEF ServeInv, PlacesApart
  <2>4. /\ (txq \cap (bus \cup sent))' = {} /\ (bus \cap sent)' = {}
        /\ (dongle \cap (txq \cup bus))' = {}
    BY <1>1, <1>2, <1>3 DEF ServeInv, PlacesApart, OnBus, InTransit
  <2>5. IF USB THEN txq' = {} ELSE suppq' \cap sent' = {} /\ sent' \subseteq dongle'
    BY <1>1, <1>2 DEF ServeInv, PlacesApart
  <2>6. QED
    BY <1>2, <2>1, <2>2, <2>3, <2>4, <2>5 DEF ServeInv, PlacesApart
<1>10. ItemsRight'
  <2>1. CASE AFQ
    BY <1>1, <2>1 DEF ServeInv, ItemsRight
  <2>2. CASE ~AFQ
    <3>1. hslot'[p] = s /\ \A x \in Pkt : x # p => hslot'[x] = hslot[x]
      BY <1>1, <1>3 DEF TypeOK
    <3>2. /\ item[s] = FreeItem \/ item[s].pkt = p
          /\ \A t \in Slot : t # s => item'[t] = item[t] /\ item[t].pkt # p
          /\ item'[s].pkt = p /\ item'[s].state = "INUSE" /\ item'[s].pkt_state = {}
      <4>1. CASE p \in delayq
        <5>1. s \in NextFree /\ item' = PushPkt(item, s, p)
          BY <1>1, <2>2, <4>1 DEF SlotFor
        <5>2. item[s].state = "FREE"
          BY <5>1 DEF NextFree, FreeSlots
        <5>3. item[s] = FreeItem
          BY <1>5, <2>2, <5>2 DEF ServeInv, ItemsRight, ItemRight
        <5>4. item' = [item EXCEPT ![s] = [state |-> "INUSE", pkt |-> p, pkt_state |-> {}]]
          BY <5>1, <5>2 DEF PushPkt
        <5>5. p \notin dongle /\ p \notin OnBus /\ p \notin suppq /\ p # NoPkt
          BY <1>3, <4>1, PktAssumption DEF ServeInv, PlacesApart
        <5>6. \A t \in Slot : item[t].pkt # p
          BY <2>2, <5>5 DEF ServeInv, ItemsRight, ItemRight, FreeItem
        <5>7. QED
          BY <1>5, <5>3, <5>4, <5>6 DEF TypeOK
      <4>2. CASE p \notin delayq
        <5>1. s = hslot[p] /\ item' = Reuse(item, s) /\ p \in Hanging
          BY <1>1, <1>3, <2>2, <4>2 DEF SlotFor, Hanging
        <5>2. item[s].pkt = p /\ \A t \in Slot : t # s => item[t].pkt # p
          BY <2>2, <5>1, ItemOf DEF ServeInv
        <5>3. QED
          BY <1>5, <5>1, <5>2 DEF Reuse, TypeOK
      <4>3. QED
        BY <4>1, <4>2
    <3>3. p \in OnBus' /\ p \notin sent' /\ p \notin dongle'
      BY <1>2, <1>3, <1>4 DEF OnBus, InTransit
    <3>4. item'[s].pkt = p /\ ItemRight(s)'
      BY <3>1, <3>2, <3>3 DEF ItemRight
    <3>5. \A x \in Pkt : x # p => /\ hslot'[x] = hslot[x]
                                  /\ x \in OnBus' <=> x \in OnBus
                                  /\ x \in dongle' <=> x \in dongle
                                  /\ x \in suppq' <=> x \in suppq
                                  /\ x \in sent' <=> x \in sent
      BY <1>1, <1>2, <1>4, <3>1
    <3>6. p \in Hanging'
      BY <3>3 DEF Hanging
    <3> HIDE DEF Hanging
    <3>7. QED
      BY <1>3, <1>5, <2>2, <3>1, <3>2, <3>4, <3>5, <3>6, ItemsStep DEF ServeInv
  <2>3. QED
    BY <2>1, <2>2
<1>11. EntriesRight'
  <2>1. OnBus \in SUBSET Pkt /\ InTransit \in SUBSET Pkt
    BY DEF TypeOK, OnBus, InTransit
  <2>2. Count(OnBus', e) = Count(OnBus, e) + 1 /\ Count(InTransit', e) = Count(InTransit, e) + 1
    BY <1>3, <1>4, <2>1, CountAdd
  <2>3. mac[e].onbus_pkts_count = Count(OnBus, e) /\ mac[e].transit_count = Count(InTransit, e)
    BY DEF ServeInv, EntriesRight, CountersExact, OnbusCounted, TransitCounted, InTransit
  <2>4. QED
    BY <1>1, <1>2, <1>3, <1>4, <1>7, <2>2, <2>3, EntryStep DEF ServeInv, Follows
<1>12. HeldBack'
  <2>1. \A x \in suppq' \cap OnBus' : x \in suppq \cap OnBus
    BY <1>1, <1>4
  <2>2. QED
    BY <1>2, <1>7, <1>8, <1>11, <2>1, HeldStep DEF ServeInv
<1>13. QED
  BY <1>9, <1>10, <1>11, <1>12 DEF ServeInv

LEMMA ServeRollback ==
  ASSUME TypeOK, TypeOK', ServeInv, NEW e \in Entry, TransferRollback(e)
  PROVE  ServeInv'
<1> Dequeued(e) \subseteq Pkt /\ \A p \in Pkt : SlotFor(p) \subseteq Slot
  BY TagTypes DEF Dequeued, TypeOK
<1>1. PICK p \in Pkt, s \in Slot :
        /\ p \in Dequeued(e) /\ s \in SlotFor(p)
        /\ item' = IF AFQ \/ p \in delayq THEN item ELSE Reuse(item, s)
        /\ hslot' = [hslot EXCEPT ![p] = s]
  BY DEF TransferRollback
<1>2. Ready(e) /\ UNCHANGED <<up, live, dst, delayq, suppq, afq, txq, bus, sent, dongle, mac>>
  BY DEF TransferRollback, queues, wires
<1>3. /\ p \in Pkt /\ p \notin OnBus /\ p \notin InTransit
      /\ p \in suppq \/ p \in delayq
      /\ p \in delayq => p \notin suppq
  BY <1>1, <1>2, DequeuedOff
<1>4. UNCHANGED <<OnBus, InTransit>>
  BY <1>2 DEF OnBus, InTransit
<1>5. PlacesApart' /\ HeldBack'
  BY <1>2, <1>4 DEF ServeInv, PlacesApart, HeldBack
<1>6. EntriesRight'
  BY <1>2, <1>4, EntriesKept DEF ServeInv
<1>7. ItemsRight'
  <2>1. CASE AFQ
    BY <1>1, <2>1 DEF ServeInv, ItemsRight
  <2>2. CASE ~AFQ /\ p \in delayq
    <3>1. p \notin Hanging
      BY <1>3, <2>2 DEF Hanging, InTransit
    <3>2. \A x \in Hanging : hslot'[x] = hslot[x]
      BY <1>1, <3>1 DEF Hanging, OnBus, TypeOK
    <3>3. QED
      BY <1>1, <1>2, <1>4, <2>2, <3>2, ItemsKept DEF ServeInv
  <2>3. CASE ~AFQ /\ p \notin delayq
    <3>1. s = hslot[p] /\ item' = Reuse(item, s) /\ p \in Hanging /\ hslot' = hslot /\ s \in Slot
      BY <1>1, <1>3, <2>3 DEF SlotFor, Hanging, TypeOK
    <3>2. item[s].pkt = p /\ \A t \in Slot : t # s => item[t].pkt # p
      BY <2>3, <3>1, ItemOf DEF ServeInv
    <3>3. /\ item'[s].pkt = p /\ item'[s].state = "INUSE" /\ item'[s].pkt_state = {}
          /\ \A t \in Slot : t # s => item'[t] = item[t]
      BY <3>1, <3>2 DEF Reuse, TypeOK
    <3>4. p \notin sent /\ p \notin dongle
      BY <1>3 DEF OnBus, InTransit
    <3>5. ItemRight(s)'
      BY <1>2, <1>3, <1>4, <2>3, <3>1, <3>3, <3>4 DEF ItemRight
    <3>6. p \in Hanging'
      BY <1>2, <1>4, <3>1 DEF Hanging
    <3>7. QED
      BY <1>2, <1>3, <1>4, <2>3, <3>1, <3>2, <3>3, <3>5, <3>6, ItemsStep DEF ServeInv
  <2>4. QED
    BY <2>1, <2>2, <2>3
<1>8. QED
  BY <1>5, <1>6, <1>7 DEF ServeInv

\* The bus takes a packet to the dongle.
LEMMA ServeBus ==
  ASSUME TypeOK, TypeOK', ServeInv, NEW p \in Pkt, SendFromQ(p) \/ BusArrive(p)
  PROVE  ServeInv'
<1>1. UNCHANGED <<up, live, dst, hslot, delayq, suppq, afq, item, mac>>
  BY DEF SendFromQ, BusArrive, tags, queues, hang
<1>2. UNCHANGED <<OnBus, InTransit>> /\ p \in OnBus
  BY DEF SendFromQ, BusArrive, OnBus, InTransit
<1>3. PlacesApart'
  <2>1. CASE SendFromQ(p)
    BY <1>1, <1>2, <2>1 DEF SendFromQ, ServeInv, PlacesApart
  <2>2. CASE BusArrive(p)
    <3>1. afq' = IF AFQ THEN dongle' \ sent' ELSE {}
      BY <1>1, <2>2 DEF BusArrive, ServeInv, PlacesApart
    <3>2. live' = (delayq \cup suppq \cup OnBus \cup dongle)'
      BY <1>1, <1>2, <2>2 DEF BusArrive, ServeInv, PlacesApart
    <3>3. /\ (delayq \cap (suppq \cup OnBus \cup dongle))' = {} /\ (suppq \cap InTransit)' = {}
      BY <1>1, <1>2, <2>2 DEF BusArrive, ServeInv, PlacesApart
    <3>4. IF USB THEN txq' = {} ELSE suppq' \cap sent' = {} /\ sent' \subseteq dongle'
      BY <1>1, <2>2 DEF BusArrive, ServeInv, PlacesApart, InTransit
    <3>5. /\ (txq \cap (bus \cup sent))' = {} /\ (bus \cap sent)' = {}
          /\ (dongle \cap (txq \cup bus))' = {}
      BY <2>2 DEF BusArrive, ServeInv, PlacesApart
    <3>6. QED
      BY <1>1, <3>1, <3>2, <3>3, <3>4, <3>5 DEF ServeInv, PlacesApart
  <2>3. QED
    BY <2>1, <2>2
<1>4. EntriesRight'
  BY <1>1, <1>2, EntriesKept DEF ServeInv
<1>5. HeldBack'
  BY <1>1, <1>2 DEF ServeInv, HeldBack
<1>6. ItemsRight'
  <2>1. CASE SendFromQ(p)
    BY <1>1, <1>2, <2>1, ItemsKept DEF SendFromQ, ServeInv
  <2>2. CASE BusArrive(p) /\ AFQ
    BY <1>1, <2>2 DEF ServeInv, ItemsRight
  <2>3. CASE BusArrive(p) /\ ~AFQ
    <3>0. PICK s \in Slot : s = hslot[p]
      BY DEF TypeOK
    <3>1. p \in Hanging /\ p \notin sent /\ p \notin dongle /\ p \in sent' /\ p \in dongle'
      BY <1>2, <2>3 DEF BusArrive, Hanging, ServeInv, PlacesApart
    <3>2. /\ s \in Slot /\ item[s].pkt = p /\ \A t \in Slot : t # s => item[t].pkt # p
          /\ item[s].state \in {"INUSE", "INUSE_SUPPRESSED"}
          /\ "TXSTATUS" \notin item[s].pkt_state /\ "BUSRETURNED" \notin item[s].pkt_state
      BY <1>2, <2>3, <3>0, <3>1, ItemOf DEF ServeInv
    <3>3. \A x \in Pkt : x # p => /\ hslot'[x] = hslot[x]
                                  /\ x \in OnBus' <=> x \in OnBus
                                  /\ x \in dongle' <=> x \in dongle
                                  /\ x \in suppq' <=> x \in suppq
                                  /\ x \in sent' <=> x \in sent
      BY <1>1, <1>2, <2>3 DEF BusArrive
    <3>4. p \in OnBus' /\ hslot'[p] = s /\ item' = item
      BY <1>1, <1>2, <3>0
    <3>5. ItemRight(s)'
      BY <3>1, <3>2, <3>4 DEF ItemRight
    <3>6. p \in Hanging'
      BY <3>4 DEF Hanging
    <3>7. \A t \in Slot : t # s => item'[t] = item[t] /\ item[t].pkt # p
      BY <3>2, <3>4
    <3>8. ItemsRight /\ hslot'[p] = s /\ item'[s].pkt = p
      BY <3>2, <3>4 DEF ServeInv
    <3>9. QED
      BY <2>3, <3>2, <3>3, <3>5, <3>6, <3>7, <3>8, ItemsStep
  <2>4. QED
    BY <2>1, <2>2, <2>3
<1>7. QED
  BY <1>3, <1>4, <1>5, <1>6 DEF ServeInv

\* hanger_free_pkt at the slot of packet p: the second answer empties it.
LEMMA FlagItem ==
  ASSUME TypeOK, ~AFQ, ItemsRight, NEW p \in Hanging, NEW s \in Slot, s = hslot[p],
         NEW o \in Complete, NEW F \in SUBSET Complete, \A x \in Complete : x \in F <=> x # o,
         NEW its, its = FreePkt(item, s, F), NEW freed, freed = Freed(item, s, F)
  PROVE  /\ \A t \in Slot : t # s => its[t] = item[t] /\ item[t].pkt # p
         /\ o \in item[s].pkt_state => its[s] = FreeItem /\ freed = {p}
         /\ o \notin item[s].pkt_state =>
              /\ freed = {}
              /\ its[s].pkt = p /\ its[s].state = item[s].state
              /\ its[s].pkt_state = item[s].pkt_state \cup F
<1>1. /\ item[s].pkt = p /\ p # NoPkt /\ item[s].pkt_state \in SUBSET Complete
      /\ \A t \in Slot : t # s => item[t].pkt # p
  BY ItemOf
<1>2. item[s].pkt_state \cup F = Complete <=> o \in item[s].pkt_state
  BY <1>1 DEF Complete
<1>3. item \in [Slot -> [state : ItemState, pkt : Pkt \cup {NoPkt}, pkt_state : SUBSET Complete]]
  BY DEF TypeOK
<1>4. CASE o \in item[s].pkt_state
  <2>1. its = [item EXCEPT ![s] = FreeItem] /\ freed = {p}
    BY <1>1, <1>2, <1>4 DEF FreePkt, PopPkt, Freed
  <2>2. QED
    BY <1>1, <1>3, <1>4, <2>1
<1>5. CASE o \notin item[s].pkt_state
  <2>1. its = [item EXCEPT ![s].pkt_state = @ \cup F] /\ freed = {}
    BY <1>1, <1>2, <1>5 DEF FreePkt, Freed
  <2>2. /\ its[s].pkt = p /\ its[s].state = item[s].state
        /\ its[s].pkt_state = item[s].pkt_state \cup F
    <3>1. its[s] = [item[s] EXCEPT !.pkt_state = item[s].pkt_state \cup F]
      BY <1>3, <2>1
    <3>2. item[s] \in [state : ItemState, pkt : Pkt \cup {NoPkt}, pkt_state : SUBSET Complete]
      BY <1>3
    <3>3. QED
      BY <1>1, <3>1, <3>2
  <2>3. \A t \in Slot : t # s => its[t] = item[t]
    BY <1>3, <2>1
  <2>4. QED
    BY <1>1, <1>5, <2>1, <2>2, <2>3
<1>6. QED
  BY <1>4, <1>5

LEMMA ServeCompleteOk ==
  ASSUME TypeOK, TypeOK', ServeInv, NEW p \in Pkt, TxCompleteOk(p)
  PROVE  ServeInv'
<1>0. PICK e \in Entry : e = dst[p]
  BY DEF TypeOK
<1>1. /\ up /\ p \in sent /\ sent' = sent \ {p}
      /\ UNCHANGED <<up, dst, hslot, delayq, suppq, txq, bus, dongle>>
      /\ mac' = [mac EXCEPT ![e] = BusDone(@)]
  BY <1>0 DEF TxCompleteOk, ServeInv, PlacesApart, tags
<1>2. /\ p \in OnBus /\ p \notin txq /\ p \notin bus /\ p \notin delayq
      /\ OnBus' = OnBus \ {p} /\ InTransit' = InTransit
  BY <1>1 DEF OnBus, InTransit, ServeInv, PlacesApart
<1>3. e \in Entry /\ mac[e] \in MacRecord /\ EntryRight(mac[e])
  BY DEF TypeOK, ServeInv, EntriesRight
<1>4. /\ mac[e].onbus_pkts_count = Count(OnBus, e) /\ mac[e].transit_count = Count(InTransit, e)
      /\ OnBus \in SUBSET Pkt
  BY <1>3 DEF ServeInv, EntriesRight, CountersExact, OnbusCounted, TransitCounted, InTransit,
              TypeOK, OnBus
<1>5. Count(OnBus, e) = Count(OnBus', e) + 1 /\ Count(OnBus', e) \in Nat
  BY <1>0, <1>2, <1>3, <1>4, CountOut, CountNat
<1>6. /\ Follows(mac[e], BusDone(mac[e]))
      /\ BusDone(mac[e]).onbus_pkts_count = mac[e].onbus_pkts_count - 1
      /\ BusDone(mac[e]).transit_count = mac[e].transit_count
  BY <1>3, <1>4, <1>5, BusDoneFollows DEF EntryRight
<1>7. mac'[e] = BusDone(mac[e]) /\ \A f \in Entry \ {e} : mac'[f] = mac[f]
  BY <1>1, <1>3 DEF TypeOK
<1>8. EntriesRight'
  <2>0. PICK m \in MacRecord : m = BusDone(mac[e])
    BY <1>6 DEF Follows
  <2>1. m.onbus_pkts_count = Count(OnBus', e) /\ m.transit_count = Count(InTransit', e)
    BY <1>2, <1>4, <1>5, <1>6, <2>0
  <2>2. \A x \in Pkt : dst[x] # e => /\ x \in OnBus' <=> x \in OnBus
                                    /\ x \in InTransit' <=> x \in InTransit
    BY <1>0, <1>2
  <2>3. mac' = [mac EXCEPT ![e] = m] /\ UNCHANGED dst /\ EntryRight(m)
    BY <1>1, <1>6, <2>0 DEF Follows
  <2>4. QED
    <3>1. EntriesRight /\ TypeOK /\ TypeOK' /\ e \in Entry /\ m \in MacRecord
      BY DEF ServeInv
    <3>2. QED
      BY <1>1, <1>0, <1>2, <2>1, <2>3, <3>1, EntryStep
<1>9. HeldBack'
  BY <1>1, <1>2, <1>3, <1>6, <1>7, <1>8, HeldStep DEF ServeInv
<1>10. up' /\ \A f \in Entry : mac'[f].occupied
  BY <1>1, <1>6, <1>7 DEF ServeInv, PlacesApart, Follows
<1>11. /\ (delayq \cap (suppq \cup OnBus \cup dongle))' = {} /\ (suppq \cap InTransit)' = {}
       /\ (txq \cap (bus \cup sent))' = {} /\ (bus \cap sent)' = {}
       /\ (dongle \cap (txq \cup bus))' = {}
       /\ IF USB THEN txq' = {} ELSE suppq' \cap sent' = {} /\ sent' \subseteq dongle'
  BY <1>1, <1>2 DEF ServeInv, PlacesApart
<1>12. CASE AFQ
  <2>1. afq' = afq \cup {p} /\ live' = live /\ item' = item
    BY <1>1, <1>12 DEF TxCompleteOk
  <2>2. p \in dongle
    BY <1>1, <1>12, ModeAssumption DEF ServeInv, PlacesApart
  <2>3. PlacesApart'
    <3>1. afq' = dongle' \ sent'
      BY <1>1, <1>12, <2>1, <2>2 DEF ServeInv, PlacesApart
    <3>2. live' = (delayq \cup suppq \cup OnBus \cup dongle)'
      BY <1>1, <1>2, <2>1, <2>2 DEF ServeInv, PlacesApart
    <3>3. QED
      BY <1>10, <1>11, <1>12, <3>1, <3>2 DEF PlacesApart
  <2>4. ItemsRight'
    BY <1>12, <2>1 DEF ServeInv, ItemsRight
  <2>5. QED
    BY <1>8, <1>9, <2>3, <2>4 DEF ServeInv
<1>13. CASE ~AFQ
  <2>1. PICK s \in Slot : s = hslot[p]
    BY DEF TypeOK
  <2>2. /\ afq' = afq /\ item' = FreePkt(item, s, {"BUSRETURNED"})
        /\ live' = live \ Freed(item, s, {"BUSRETURNED"})
    BY <1>1, <1>13, <2>1 DEF TxCompleteOk
  <2>3. ItemsRight /\ p \in Hanging
    BY <1>2 DEF ServeInv, Hanging
  <2>4. /\ item[s].pkt = p
        /\ item[s].state \in {"INUSE", "INUSE_SUPPRESSED"}
        /\ "TXSTATUS" \in item[s].pkt_state <=> p \notin dongle \cup suppq
    BY <1>1, <1>13, <2>1, <2>3, ItemOf
  <2>5. /\ \A t \in Slot : t # s => item'[t] = item[t] /\ item[t].pkt # p
        /\ "TXSTATUS" \in item[s].pkt_state => item'[s] = FreeItem /\ live' = live \ {p}
        /\ "TXSTATUS" \notin item[s].pkt_state =>
             /\ live' = live
             /\ item'[s].pkt = p /\ item'[s].state = item[s].state
             /\ item'[s].pkt_state = item[s].pkt_state \cup {"BUSRETURNED"}
    <3>1. PICK F \in SUBSET Complete : F = {"BUSRETURNED"}
      BY DEF Complete
    <3>2. PICK its, freed : /\ its = item' /\ its = FreePkt(item, s, F)
                           /\ freed = Freed(item, s, F) /\ live' = live \ freed
      BY <2>2, <3>1
    <3>3. "TXSTATUS" \in Complete /\ \A x \in Complete : x \in F <=> x # "TXSTATUS"
      BY <3>1 DEF Complete
    <3>4. /\ \A t \in Slot : t # s => its[t] = item[t] /\ item[t].pkt # p
          /\ "TXSTATUS" \in item[s].pkt_state => its[s] = FreeItem /\ freed = {p}
          /\ "TXSTATUS" \notin item[s].pkt_state =>
               /\ freed = {}
               /\ its[s].pkt = p /\ its[s].state = item[s].state
               /\ its[s].pkt_state = item[s].pkt_state \cup F
      BY <1>13, <2>1, <2>3, <3>2, <3>3, FlagItem
    <3>5. QED
      BY <3>1, <3>2, <3>4
  <2>6. \A x \in Pkt : x # p => /\ hslot'[x] = hslot[x]
                                /\ x \in OnBus' <=> x \in OnBus
                                /\ x \in dongle' <=> x \in dongle
                                /\ x \in suppq' <=> x \in suppq
                                /\ x \in sent' <=> x \in sent
    BY <1>1, <1>2
  <2>7. hslot'[p] = s /\ p \notin OnBus' /\ p \notin sent'
    BY <1>1, <1>2, <2>1
  <2>8. PlacesApart'
    <3>1. afq' = {}
      BY <1>13, <2>2 DEF ServeInv, PlacesApart
    <3>2. live' = (delayq \cup suppq \cup OnBus \cup dongle)'
      BY <1>1, <1>2, <2>4, <2>5 DEF ServeInv, PlacesApart
    <3>3. QED
      BY <1>10, <1>11, <1>13, <3>1, <3>2 DEF PlacesApart
  <2>9. CASE "TXSTATUS" \in item[s].pkt_state
    <3>1. p \notin Hanging'
      BY <1>1, <2>4, <2>7, <2>9 DEF Hanging
    <3>2. ItemsRight'
      BY <1>13, <2>3, <2>4, <2>5, <2>6, <2>7, <2>9, <3>1, ItemsStep
    <3>3. QED
      BY <1>8, <1>9, <2>8, <3>2 DEF ServeInv
  <2>10. CASE "TXSTATUS" \notin item[s].pkt_state
    <3>1. p \in Hanging' /\ p \in dongle' \cup suppq'
      BY <1>1, <2>4, <2>10 DEF Hanging
    <3>2. item'[s].pkt = p /\ "TXSTATUS" \notin item'[s].pkt_state
          /\ "BUSRETURNED" \in item'[s].pkt_state /\ item'[s].state \in {"INUSE", "INUSE_SUPPRESSED"}
      BY <2>4, <2>5, <2>10
    <3>3. ItemRight(s)'
      BY <2>7, <3>1, <3>2 DEF ItemRight
    <3>4. ItemsRight'
      BY <1>13, <2>3, <2>4, <2>5, <2>6, <2>7, <3>1, <3>2, <3>3, ItemsStep
    <3>5. QED
      BY <1>8, <1>9, <2>8, <3>4 DEF ServeInv
  <2>11. QED
    BY <2>9, <2>10
<1>14. QED
  BY <1>12, <1>13

LEMMA ServeCompleteFail ==
  ASSUME TypeOK, TypeOK', ServeInv, NEW p \in Pkt, TxCompleteFail(p)
  PROVE  ServeInv'
<1>0. PICK e \in Entry : e = dst[p]
  BY DEF TypeOK
<1>1. /\ up /\ p \in bus /\ bus' = bus \ {p} /\ live' = live \ {p}
      /\ UNCHANGED <<up, dst, hslot, delayq, suppq, afq, txq, sent, dongle>>
      /\ item' = IF AFQ THEN item ELSE PopPkt(item, hslot[p])
      /\ mac' = [mac EXCEPT ![e] = BusFailed(@)]
  BY <1>0 DEF TxCompleteFail, ServeInv, PlacesApart, tags, queues
<1>2. /\ p \in OnBus /\ p \in InTransit
      /\ p \notin txq /\ p \notin sent /\ p \notin delayq /\ p \notin suppq /\ p \notin dongle
      /\ OnBus' = OnBus \ {p} /\ InTransit' = InTransit \ {p}
  BY <1>1 DEF OnBus, InTransit, ServeInv, PlacesApart
<1>3. mac[e] \in MacRecord /\ EntryRight(mac[e])
  BY DEF TypeOK, ServeInv, EntriesRight
<1>4. /\ mac[e].onbus_pkts_count = Count(OnBus, e) /\ mac[e].transit_count = Count(InTransit, e)
      /\ OnBus \in SUBSET Pkt /\ InTransit \in SUBSET Pkt
  BY DEF ServeInv, EntriesRight, CountersExact, OnbusCounted, TransitCounted, InTransit, TypeOK, OnBus
<1>5. /\ Count(OnBus, e) = Count(OnBus', e) + 1 /\ Count(OnBus', e) \in Nat
      /\ Count(InTransit, e) = Count(InTransit', e) + 1 /\ Count(InTransit', e) \in Nat
  BY <1>0, <1>2, <1>4, CountOut, CountNat
<1>6. PICK m \in MacRecord :
        /\ m = BusFailed(mac[e]) /\ Follows(mac[e], m)
        /\ m.onbus_pkts_count = mac[e].onbus_pkts_count - 1
        /\ m.transit_count = mac[e].transit_count - 1
  BY <1>3, <1>4, <1>5, BusFailedFollows DEF Follows
<1>7. mac' = [mac EXCEPT ![e] = m] /\ mac'[e] = m /\ \A f \in Entry \ {e} : mac'[f] = mac[f]
  BY <1>1, <1>6 DEF TypeOK
<1>8. EntriesRight'
  <2>1. m.onbus_pkts_count = Count(OnBus', e) /\ m.transit_count = Count(InTransit', e)
    BY <1>4, <1>5, <1>6
  <2>2. EntriesRight /\ EntryRight(m)
    BY <1>6 DEF ServeInv, Follows
  <2>3. QED
    BY <1>0, <1>1, <1>2, <1>7, <2>1, <2>2, EntryStep
<1>9. HeldBack'
  BY <1>1, <1>2, <1>6, <1>7, <1>8, HeldStep DEF ServeInv
<1>10. up' /\ \A f \in Entry : mac'[f].occupied
  BY <1>1, <1>6, <1>7 DEF ServeInv, PlacesApart, Follows
<1>11. PlacesApart'
  <2>1. live' = (delayq \cup suppq \cup OnBus \cup dongle)'
    BY <1>1, <1>2 DEF ServeInv, PlacesApart
  <2>2. QED
    BY <1>1, <1>2, <1>10, <2>1 DEF ServeInv, PlacesApart
<1>12. ItemsRight'
  <2>1. CASE AFQ
    BY <1>1, <2>1 DEF ServeInv, ItemsRight
  <2>2. CASE ~AFQ
    <3>1. PICK s \in Slot : s = hslot[p]
      BY DEF TypeOK
    <3>2. p \in Hanging /\ p \notin Hanging'
      BY <1>1, <1>2 DEF Hanging
    <3>3. item[s].pkt = p /\ \A t \in Slot : t # s => item[t].pkt # p
      BY <2>2, <3>1, <3>2, ItemOf DEF ServeInv
    <3>4. item'[s] = FreeItem /\ \A t \in Slot : t # s => item'[t] = item[t]
      BY <1>1, <2>2, <3>1 DEF PopPkt, TypeOK
    <3>5. \A x \in Pkt : x # p => /\ hslot'[x] = hslot[x]
                                  /\ x \in OnBus' <=> x \in OnBus
                                  /\ x \in dongle' <=> x \in dongle
                                  /\ x \in suppq' <=> x \in suppq
                                  /\ x \in sent' <=> x \in sent
      BY <1>1, <1>2
    <3>6. hslot'[p] = s /\ ItemsRight
      BY <1>1, <3>1 DEF ServeInv
    <3>7. QED
      BY <2>2, <3>2, <3>3, <3>4, <3>5, <3>6, ItemsStep
  <2>3. QED
    BY <2>1, <2>2
<1>13. QED
  BY <1>8, <1>9, <1>11, <1>12 DEF ServeInv

\* While nothing is torn down a status always finds its packet.
LEMMA FoundIt ==
  ASSUME TypeOK, ServeInv, NEW p \in Pkt, StatusReady(p)
  PROVE  Found(p) = p /\ p # NoPkt
<1>1. p \in dongle /\ p \in Hanging /\ p # NoPkt
  BY PktAssumption DEF StatusReady, Hanging
<1>2. CASE AFQ
  <2>1. p \in afq
    BY <1>1, <1>2, ModeAssumption DEF StatusReady, ServeInv, PlacesApart
  <2>2. QED
    BY <1>1, <1>2, <2>1 DEF Found
<1>3. CASE ~AFQ
  BY <1>1, <1>3, ItemOf DEF Found, ServeInv
<1>4. QED
  BY <1>2, <1>3

LEMMA ServeDone ==
  ASSUME TypeOK, TypeOK', ServeInv, NEW p \in Pkt, TxStatusDone(p)
  PROVE  ServeInv'
<1>0. PICK e \in Entry : e = dst[p]
  BY DEF TypeOK
<1>1. /\ up /\ p \in dongle /\ (~USB => p \notin sent) /\ dongle' = dongle \ {p}
      /\ live' = live \ (IF AFQ THEN {p} ELSE Freed(item, hslot[p], {"TXSTATUS"}))
      /\ item' = IF AFQ THEN item ELSE FreePkt(item, hslot[p], {"TXSTATUS"})
      /\ afq' = afq \ {p}
      /\ mac' = [mac EXCEPT ![e] = TransitDone(@, 1)]
      /\ UNCHANGED <<up, dst, hslot, delayq, suppq, txq, bus, sent>>
  BY <1>0, FoundIt DEF TxStatusDone, StatusReady, tags, wires
<1>2. /\ p \in InTransit /\ p \notin txq /\ p \notin bus /\ p \notin delayq /\ p \notin suppq
      /\ OnBus' = OnBus /\ InTransit' = InTransit \ {p}
      /\ ~USB => p \notin OnBus
  BY <1>1 DEF OnBus, InTransit, ServeInv, PlacesApart
<1>3. mac[e] \in MacRecord /\ EntryRight(mac[e])
  BY DEF TypeOK, ServeInv, EntriesRight
<1>4. /\ mac[e].onbus_pkts_count = Count(OnBus, e) /\ mac[e].transit_count = Count(InTransit, e)
      /\ InTransit \in SUBSET Pkt
  BY DEF ServeInv, EntriesRight, CountersExact, OnbusCounted, TransitCounted, InTransit, TypeOK, OnBus
<1>5. Count(InTransit, e) = Count(InTransit', e) + 1 /\ Count(InTransit', e) \in Nat
  BY <1>0, <1>2, <1>4, CountOut, CountNat
<1>6. PICK m \in MacRecord :
        /\ m = TransitDone(mac[e], 1) /\ Follows(mac[e], m)
        /\ m.onbus_pkts_count = mac[e].onbus_pkts_count
        /\ m.transit_count = mac[e].transit_count - 1
  BY <1>3, <1>4, <1>5, TransitDoneFollows DEF Follows
<1>7. mac' = [mac EXCEPT ![e] = m] /\ mac'[e] = m /\ \A f \in Entry \ {e} : mac'[f] = mac[f]
  BY <1>1, <1>6 DEF TypeOK
<1>8. EntriesRight'
  <2>1. m.onbus_pkts_count = Count(OnBus', e) /\ m.transit_count = Count(InTransit', e)
    BY <1>2, <1>4, <1>5, <1>6
  <2>2. EntriesRight /\ EntryRight(m)
    BY <1>6 DEF ServeInv, Follows
  <2>3. QED
    BY <1>0, <1>1, <1>2, <1>7, <2>1, <2>2, EntryStep
<1>9. HeldBack'
  BY <1>1, <1>2, <1>6, <1>7, <1>8, HeldStep DEF ServeInv
<1>10. up' /\ \A f \in Entry : mac'[f].occupied
  BY <1>1, <1>6, <1>7 DEF ServeInv, PlacesApart, Follows
<1>11. /\ (delayq \cap (suppq \cup OnBus \cup dongle))' = {} /\ (suppq \cap InTransit)' = {}
       /\ (txq \cap (bus \cup sent))' = {} /\ (bus \cap sent)' = {}
       /\ (dongle \cap (txq \cup bus))' = {}
       /\ IF USB THEN txq' = {} ELSE suppq' \cap sent' = {} /\ sent' \subseteq dongle'
  BY <1>1, <1>2 DEF ServeInv, PlacesApart
<1>12. afq' = IF AFQ THEN dongle' \ sent' ELSE {}
  BY <1>1 DEF ServeInv, PlacesApart
<1>13. CASE AFQ
  <2>1. live' = live \ {p} /\ item' = item /\ p \notin OnBus
    BY <1>1, <1>2, <1>13, ModeAssumption
  <2>2. live' = (delayq \cup suppq \cup OnBus \cup dongle)'
    BY <1>1, <1>2, <2>1 DEF ServeInv, PlacesApart
  <2>3. PlacesApart'
    BY <1>10, <1>11, <1>12, <2>2 DEF PlacesApart
  <2>4. ItemsRight'
    BY <1>13, <2>1 DEF ServeInv, ItemsRight
  <2>5. QED
    BY <1>8, <1>9, <2>3, <2>4 DEF ServeInv
<1>14. CASE ~AFQ
  <2>1. PICK s \in Slot : s = hslot[p]
    BY DEF TypeOK
  <2>2. ItemsRight /\ p \in Hanging
    BY <1>1 DEF ServeInv, Hanging
  <2>3. /\ item[s].pkt = p /\ item[s].state \in {"INUSE", "INUSE_SUPPRESSED"}
        /\ "BUSRETURNED" \in item[s].pkt_state <=> p \notin OnBus
    BY <1>1, <1>14, <2>1, <2>2, ItemOf
  <2>4. /\ \A t \in Slot : t # s => item'[t] = item[t] /\ item[t].pkt # p
        /\ "BUSRETURNED" \in item[s].pkt_state => item'[s] = FreeItem /\ live' = live \ {p}
        /\ "BUSRETURNED" \notin item[s].pkt_state =>
             /\ live' = live
             /\ item'[s].pkt = p /\ item'[s].state = item[s].state
             /\ item'[s].pkt_state = item[s].pkt_state \cup {"TXSTATUS"}
    <3>1. PICK F \in SUBSET Complete : F = {"TXSTATUS"}
      BY DEF Complete
    <3>2. PICK its, freed : /\ its = item' /\ its = FreePkt(item, s, F)
                           /\ freed = Freed(item, s, F) /\ live' = live \ freed
      BY <1>1, <1>14, <2>1, <3>1
    <3>3. "BUSRETURNED" \in Complete /\ \A x \in Complete : x \in F <=> x # "BUSRETURNED"
      BY <3>1 DEF Complete
    <3>4. /\ \A t \in Slot : t # s => its[t] = item[t] /\ item[t].pkt # p
          /\ "BUSRETURNED" \in item[s].pkt_state => its[s] = FreeItem /\ freed = {p}
          /\ "BUSRETURNED" \notin item[s].pkt_state =>
               /\ freed = {}
               /\ its[s].pkt = p /\ its[s].state = item[s].state
               /\ its[s].pkt_state = item[s].pkt_state \cup F
      BY <1>14, <2>1, <2>2, <3>1, <3>2, <3>3, FlagItem, SMTT(60)
    <3>5. QED
      BY <3>1, <3>2, <3>4
  <2>5. \A x \in Pkt : x # p => /\ hslot'[x] = hslot[x]
                                /\ x \in OnBus' <=> x \in OnBus
                                /\ x \in dongle' <=> x \in dongle
                                /\ x \in suppq' <=> x \in suppq
                                /\ x \in sent' <=> x \in sent
    BY <1>1, <1>2
  <2>6. hslot'[p] = s /\ p \notin dongle' /\ p \notin suppq'
    BY <1>1, <1>2, <2>1
  <2>7. live' = (delayq \cup suppq \cup OnBus \cup dongle)'
    BY <1>1, <1>2, <2>3, <2>4 DEF ServeInv, PlacesApart
  <2>8. PlacesApart'
    BY <1>10, <1>11, <1>12, <2>7 DEF PlacesApart
  <2>9. CASE p \notin OnBus
    <3>1. p \notin Hanging' /\ item'[s] = FreeItem
      BY <1>2, <2>3, <2>4, <2>6, <2>9 DEF Hanging
    <3>2. ItemsRight'
      BY <1>14, <2>2, <2>3, <2>4, <2>5, <2>6, <3>1, ItemsStep
    <3>3. QED
      BY <1>8, <1>9, <2>8, <3>2 DEF ServeInv
  <2>10. CASE p \in OnBus
    <3>1. p \in OnBus' /\ p \in sent' /\ p \in Hanging'
      BY <1>1, <1>2, <2>10 DEF Hanging, OnBus
    <3>2. item'[s].pkt = p /\ "TXSTATUS" \in item'[s].pkt_state
          /\ "BUSRETURNED" \notin item'[s].pkt_state /\ item'[s].state \in {"INUSE", "INUSE_SUPPRESSED"}
      BY <2>3, <2>4, <2>10
    <3>3. ItemRight(s)'
      BY <2>6, <3>1, <3>2 DEF ItemRight
    <3>4. ItemsRight'
      BY <1>14, <2>2, <2>3, <2>4, <2>5, <2>6, <3>1, <3>2, <3>3, ItemsStep
    <3>5. QED
      BY <1>8, <1>9, <2>8, <3>4 DEF ServeInv
  <2>11. QED
    BY <2>9, <2>10
<1>15. QED
  BY <1>13, <1>14

LEMMA ServeAcked ==
  ASSUME TypeOK, TypeOK', ServeInv, NEW p \in Pkt, TxStatusSuppressAcked(p)
  PROVE  ServeInv'
<1>0. PICK e \in Entry : e = dst[p]
  BY DEF TypeOK
<1>1. /\ up /\ AFQ /\ p \in suppq /\ suppq' = suppq \ {p} /\ live' = live \ {p}
      /\ mac' = [mac EXCEPT ![e] = SentAfterAll(@)]
      /\ UNCHANGED <<up, dst, delayq, afq, txq, bus, sent, dongle, item>>
  BY <1>0 DEF TxStatusSuppressAcked, tags, wires, hang
<1>2. /\ ~USB /\ OnBus' = OnBus /\ InTransit' = InTransit
      /\ p \notin OnBus /\ p \notin InTransit /\ p \notin delayq
  BY <1>1, ModeAssumption DEF OnBus, InTransit, ServeInv, PlacesApart
<1>3. mac[e] \in MacRecord /\ EntryRight(mac[e])
  BY DEF TypeOK, ServeInv, EntriesRight
<1>4. mac[e].onbus_pkts_count = Count(OnBus, e) /\ mac[e].transit_count = Count(InTransit, e)
  BY DEF ServeInv, EntriesRight, CountersExact, OnbusCounted, TransitCounted, InTransit
<1>5. PICK m \in MacRecord :
        /\ m = SentAfterAll(mac[e]) /\ Follows(mac[e], m)
        /\ m.onbus_pkts_count = mac[e].onbus_pkts_count
        /\ m.transit_count = mac[e].transit_count
  BY <1>3, SentAfterAllFollows DEF Follows
<1>6. mac' = [mac EXCEPT ![e] = m] /\ mac'[e] = m /\ \A f \in Entry \ {e} : mac'[f] = mac[f]
  BY <1>1, <1>5 DEF TypeOK
<1>7. EntriesRight'
  <2>1. m.onbus_pkts_count = Count(OnBus', e) /\ m.transit_count = Count(InTransit', e)
    BY <1>2, <1>4, <1>5
  <2>2. EntriesRight /\ EntryRight(m)
    BY <1>5 DEF ServeInv, Follows
  <2>3. QED
    BY <1>0, <1>1, <1>2, <1>6, <2>1, <2>2, EntryStep
<1>8. HeldBack'
  BY <1>1, <1>2, <1>5, <1>6, <1>7, HeldStep DEF ServeInv
<1>9. PlacesApart'
  <2>1. up' /\ \A f \in Entry : mac'[f].occupied
    BY <1>1, <1>5, <1>6 DEF ServeInv, PlacesApart, Follows
  <2>2. live' = (delayq \cup suppq \cup OnBus \cup dongle)'
    BY <1>1, <1>2 DEF ServeInv, PlacesApart, InTransit
  <2>3. QED
    BY <1>1, <1>2, <2>1, <2>2 DEF ServeInv, PlacesApart
<1>10. ItemsRight'
  BY <1>1 DEF ServeInv, ItemsRight
<1>11. QED
  BY <1>7, <1>8, <1>9, <1>10 DEF ServeInv

\* What a full precedence queue may drop for the suppressed packets N.
LEMMA SuppressVictims ==
  ASSUME TypeOK, Serving, NEW e \in Entry, NEW N \in SUBSET Pkt, N # {},
         N \cap (delayq \cup suppq) = {}, NEW V \in Victims(e, "sup", N)
  PROVE  V \subseteq delayq \cup suppq \cup N /\ (USB => V = {})
<1> DEFINE over == Cardinality(Psq(e)) + Cardinality(N)
           prey == (IF {v \in suppq : dst[v] = e} = {} THEN {v \in delayq : dst[v] = e}
                    ELSE {v \in suppq : dst[v] = e}) \cup N
<1>1. V \in IF over <= PSQ_LEN THEN {{}} ELSE {W \in SUBSET prey : /\ Cardinality(W) + PSQ_LEN = over
                                                                /\ ~(N \subseteq W)}
  BY DEF Victims
<1>2. V \subseteq delayq \cup suppq \cup N
  BY <1>1
<1>3. ASSUME USB PROVE V = {}
  <2>1. /\ IsFiniteSet(Pkt) /\ Psq(e) \in SUBSET Pkt /\ Psq(e) \cap N = {}
    BY PktAssumption DEF Psq, TypeOK
  <2>2. IsFiniteSet(Psq(e)) /\ IsFiniteSet(N)
    BY <2>1, FS_Subset
  <2>3. /\ Cardinality(Psq(e) \cup N) = Cardinality(Psq(e)) + Cardinality(N) - Cardinality({})
        /\ Cardinality({}) = 0
    BY <2>1, <2>2, FS_Union, FS_EmptySet
  <2>4. Cardinality(Psq(e) \cup N) <= Cardinality(Pkt)
    BY <2>1, FS_Subset
  <2>5. PICK a \in Nat, b \in Nat : a = Cardinality(Psq(e)) /\ b = Cardinality(N)
    BY <2>2, FS_CardinalityType
  <2>6. PICK c \in Nat : c = Cardinality(Pkt) /\ PSQ_LEN \in Nat /\ c <= PSQ_LEN
    BY <1>3, <2>1, FS_CardinalityType, BoundAssumption DEF Serving
  <2>7. over = a + b /\ a + b <= c
    BY <2>3, <2>4, <2>5, <2>6
  <2>8. over <= PSQ_LEN
    BY <2>6, <2>7
  <2> HIDE DEF over, prey
  <2>9. QED
    BY <1>1, <2>8
<1>4. QED
  BY <1>2, <1>3

\* Packet p and those of N in bus->txq become suppressed, and V is dropped.
SuppressMoves(p, N, back, V) ==
  /\ back \subseteq txq /\ V \subseteq delayq \cup suppq \cup N
  /\ \A x \in Pkt : x \in N <=> x \in back \/ x = p
  /\ p \in dongle /\ txq \cap (sent \cup dongle) = {} /\ delayq \cap Hanging = {}
  /\ OnBus' = OnBus \ back /\ dongle' = dongle \ {p} /\ suppq' = (suppq \cup N) \ V
  /\ OnBus' \cap V = {} /\ dongle' \cap V = {}
  /\ UNCHANGED <<hslot, sent>>
  /\ \A s \in Slot :
       item'[s] = IF \E v \in V \ delayq : hslot[v] = s THEN FreeItem
                  ELSE IF \E x \in N : hslot[x] = s THEN MarkSuppressed(item, s)[s] ELSE item[s]

LEMMA SuppressItems ==
  ASSUME TypeOK, ~AFQ, ItemsRight, NEW p \in Pkt, NEW N \in SUBSET Pkt, NEW back \in SUBSET Pkt,
         NEW V \in SUBSET Pkt, SuppressMoves(p, N, back, V)
  PROVE  ItemsRight'
<1> USE DEF SuppressMoves
<1>1. /\ hslot \in [Pkt -> Slot] /\ Hanging \in SUBSET Pkt /\ NoPkt \notin Pkt
      /\ item \in [Slot -> [state : ItemState, pkt : Pkt \cup {NoPkt}, pkt_state : SUBSET Complete]]
  BY PktAssumption DEF TypeOK, OnBus, Hanging
<1>2. Hanging' = Hanging \ V /\ V \ delayq \subseteq Hanging
  <2>1. back \subseteq OnBus /\ txq \subseteq Pkt
    BY DEF OnBus, TypeOK
  <2>2. QED
    BY <1>1, <2>1 DEF Hanging
<1>3. ASSUME NEW s \in Slot
      PROVE  IF \E v \in V \ delayq : hslot[v] = s THEN item'[s] = FreeItem
             ELSE /\ item'[s].pkt = item[s].pkt /\ item'[s].pkt_state = item[s].pkt_state
                  /\ item[s] = FreeItem => item'[s] = FreeItem
                  /\ item[s].state = "INUSE_SUPPRESSED" => item'[s].state = item[s].state
                  /\ item[s].state = "INUSE" => item'[s].state \in {"INUSE", "INUSE_SUPPRESSED"}
  <2> DEFINE mk == MarkSuppressed(item, s)[s]
  <2>1. item'[s] = IF \E v \in V \ delayq : hslot[v] = s THEN FreeItem
                   ELSE IF \E x \in N : hslot[x] = s THEN mk ELSE item[s]
    OBVIOUS
  <2>2. item[s] \in [state : ItemState, pkt : Pkt \cup {NoPkt}, pkt_state : SUBSET Complete]
    BY <1>1
  <2>3. CASE item[s].state = "INUSE"
    <3>1. mk = [item[s] EXCEPT !.state = "INUSE_SUPPRESSED"]
      BY <1>1, <2>3 DEF MarkSuppressed
    <3>2. mk.pkt = item[s].pkt /\ mk.pkt_state = item[s].pkt_state /\ mk.state = "INUSE_SUPPRESSED"
      BY <2>2, <3>1
    <3>3. item[s] # FreeItem
      BY <2>3 DEF FreeItem
    <3> HIDE DEF mk
    <3>4. QED
      BY <2>1, <2>3, <3>2, <3>3
  <2>4. CASE item[s].state # "INUSE"
    <3>1. mk = item[s]
      BY <2>4 DEF MarkSuppressed
    <3> HIDE DEF mk
    <3>2. QED
      BY <2>1, <2>4, <3>1
  <2>5. QED
    BY <2>3, <2>4
<1>4. ASSUME NEW x \in Hanging' PROVE item'[hslot'[x]].pkt = x
  <2>1. x \in Hanging /\ x \notin V /\ hslot'[x] = hslot[x] /\ hslot[x] \in Slot
    BY <1>1, <1>2, <1>4
  <2>2. item[hslot[x]].pkt = x /\ \A v \in V \ delayq : item[hslot[v]].pkt = v
    BY <1>2, <2>1 DEF ItemsRight, SlotMatchesPacket, Hanging
  <2>3. ~ \E v \in V \ delayq : hslot[v] = hslot[x]
    BY <2>1, <2>2
  <2>4. QED
    BY <1>3, <2>1, <2>2, <2>3
<1>5. ASSUME NEW s \in Slot PROVE ItemRight(s)'
  <2>1. CASE item'[s] = FreeItem
    BY <2>1 DEF ItemRight
  <2>2. CASE item'[s] # FreeItem
    <3>1. /\ ~ \E v \in V \ delayq : hslot[v] = s
          /\ item'[s].pkt = item[s].pkt /\ item'[s].pkt_state = item[s].pkt_state
          /\ item[s] # FreeItem
      BY <1>3, <2>2
    <3>2. PICK x \in Pkt :
            /\ x = item[s].pkt /\ x \in Hanging /\ hslot[x] = s
            /\ item[s].state \in {"INUSE", "INUSE_SUPPRESSED"}
            /\ "TXSTATUS" \in item[s].pkt_state <=> x \in sent \ (dongle \cup suppq)
            /\ "BUSRETURNED" \in item[s].pkt_state => x \notin OnBus
            /\ x \in dongle \ OnBus => "BUSRETURNED" \in item[s].pkt_state
      BY <1>1, <3>1 DEF ItemsRight, ItemRight, Hanging
    <3>3. x \notin V /\ x \in Hanging' /\ hslot'[x] = s
      BY <1>2, <3>1, <3>2
    <3>4. item'[s].state \in {"INUSE", "INUSE_SUPPRESSED"}
      BY <1>3, <3>1, <3>2
    <3>5. x \in sent' \ (dongle' \cup suppq') <=> x \in sent \ (dongle \cup suppq)
      BY <3>3
    <3>6. x \in OnBus' => x \in OnBus
      OBVIOUS
    <3>7. x \in dongle' \ OnBus' => x \in dongle \ OnBus
      OBVIOUS
    <3>8. QED
      BY <3>1, <3>2, <3>3, <3>4, <3>5, <3>6, <3>7 DEF ItemRight, Hanging
  <2>3. QED
    BY <2>1, <2>2
<1>6. QED
  BY <1>4, <1>5 DEF ItemsRight, SlotMatchesPacket, Hanging

LEMMA ServeSuppress ==
  ASSUME TypeOK, TypeOK', Serving, ServeInv, NEW p \in Pkt, NEW g \in 0 .. 1, TxStatusSuppress(p, g)
  PROVE  ServeInv'
<1> DEFINE q == Found(p)
           e == dst[q]
           back == IF REORDERSUPP /\ ~USB /\ ~mac[e].suppressed THEN InTxq(e) ELSE {}
           N == back \cup {q}
<1>0. q = p /\ e = dst[p] /\ e \in Entry
  BY FoundIt DEF TxStatusSuppress, TypeOK
<1>2. PICK V \in Victims(e, "sup", N) :
        /\ suppq' = (suppq \cup N) \ V
        /\ delayq' = delayq \ V
        /\ live' = live \ V
        /\ \A s \in Slot :
             item'[s] = IF \E v \in V \ delayq : ~AFQ /\ hslot[v] = s THEN FreeItem
                        ELSE IF \E x \in N : ~AFQ /\ hslot[x] = s THEN MarkSuppressed(item, s)[s]
                        ELSE item[s]
        /\ txq' = txq \ back
        /\ mac' = [mac EXCEPT ![e] = TakenBack(TransitDone(Suppress(@, g), 1), Cardinality(back))]
  <2>1. PICK V \in Victims(e, "sup", N) :
        /\ suppq' = (suppq \cup back \cup {q}) \ V
        /\ delayq' = delayq \ V
        /\ live' = live \ V
        /\ item' = DropItems([s \in Slot |-> IF ~AFQ /\ \E x \in N : hslot[x] = s
                                             THEN MarkSuppressed(item, s)[s] ELSE item[s]],
                             V \ delayq)
        /\ txq' = txq \ back
        /\ mac' = [mac EXCEPT ![e] = TakenBack(TransitDone(Suppress(@, g), 1), Cardinality(back))]
    BY DEF TxStatusSuppress
  <2>2. (suppq \cup back \cup {q}) \ V = (suppq \cup N) \ V
    OBVIOUS
  <2> HIDE DEF N, back, e, q
  <2>3. \A s \in Slot :
          item'[s] = IF \E v \in V \ delayq : ~AFQ /\ hslot[v] = s THEN FreeItem
                     ELSE IF \E x \in N : ~AFQ /\ hslot[x] = s THEN MarkSuppressed(item, s)[s]
                     ELSE item[s]
    BY <2>1 DEF DropItems
  <2>4. QED
    BY <2>1, <2>2, <2>3
<1>1. /\ back = IF REORDERSUPP /\ ~USB /\ ~mac[e].suppressed THEN InTxq(e) ELSE {}
      /\ N = back \cup {p}
  BY <1>0
<1> HIDE DEF N, back, e, q
<1>3. /\ up /\ p \in dongle /\ (~USB => p \notin sent) /\ dongle' = dongle \ {p} /\ afq' = afq \ {p}
      /\ UNCHANGED <<up, dst, hslot, bus, sent>>
  BY <1>0, FoundIt DEF TxStatusSuppress, StatusReady
<1>4. /\ back \subseteq txq /\ \A x \in back : dst[x] = e
      /\ back \in SUBSET Pkt /\ (USB => back = {})
  BY <1>0, <1>1 DEF InTxq, TypeOK
<1>5. /\ p \notin txq /\ p \notin bus /\ p \notin delayq /\ p \notin suppq
      /\ (back \cup {p}) \cap (delayq \cup suppq) = {}
      /\ back \cap (bus \cup sent \cup dongle) = {}
  BY <1>3, <1>4 DEF ServeInv, PlacesApart, OnBus, InTransit
<1>6. V \subseteq delayq \cup suppq \cup back \cup {p} /\ (USB => V = {})
  <2>1. N \in SUBSET Pkt /\ N # {} /\ N \cap (delayq \cup suppq) = {} /\ e \in Entry
    <3>1. N \in SUBSET Pkt /\ p \in N
      BY <1>1, <1>4
    <3>2. N \cap (delayq \cup suppq) = {}
      BY <1>1, <1>5
    <3>3. QED
      BY <1>0, <3>1, <3>2
  <2>2. V \subseteq delayq \cup suppq \cup N /\ (USB => V = {})
    BY <1>2, <2>1, SuppressVictims
  <2>3. QED
    BY <1>1, <2>2
<1>7. OnBus' = OnBus \ back /\ InTransit' = InTransit \ (back \cup {p})
  BY <1>2, <1>3, <1>5 DEF OnBus, InTransit
<1>8. (OnBus \ back) \cap V = {} /\ (dongle \ {p}) \cap V = {}
  <2>1. CASE USB
    BY <1>6, <2>1
  <2>2. CASE ~USB
    BY <1>3, <1>5, <1>6, <2>2 DEF ServeInv, PlacesApart, OnBus, InTransit
  <2>3. QED
    BY <2>1, <2>2
<1>9. PICK m \in MacRecord :
        /\ mac' = [mac EXCEPT ![e] = m] /\ (m.occupied <=> mac[e].occupied) /\ EntryRight(m)
        /\ m.onbus_pkts_count > 0 => m.suppressed
        /\ m.onbus_pkts_count = Count(OnBus', e) /\ m.transit_count = Count(InTransit', e)
  <2>1. OnBus \in SUBSET Pkt /\ InTransit \in SUBSET Pkt /\ p \in InTransit /\ back \in SUBSET OnBus
        /\ back \in SUBSET (InTransit \ {p}) /\ InTransit \ {p} \in SUBSET Pkt
    BY <1>3, <1>4, <1>5 DEF TypeOK, OnBus, InTransit
  <2>2. Count(OnBus, e) = Count(OnBus \ back, e) + Cardinality(back) /\ Cardinality(back) \in Nat
    BY <1>4, <2>1, CountOutMany
  <2>3. Count(InTransit \ {p}, e) = Count((InTransit \ {p}) \ back, e) + Cardinality(back)
    BY <1>4, <2>1, CountOutMany
  <2>4. Count(InTransit, e) = Count(InTransit \ {p}, e) + 1
    BY <1>0, <2>1, CountOut
  <2>5. (InTransit \ {p}) \ back = InTransit \ (back \cup {p})
    OBVIOUS
  <2>6. PICK n \in Nat, a \in Nat, b \in Nat :
          /\ n = Cardinality(back) /\ a = Count(OnBus', e) /\ b = Count(InTransit', e)
          /\ Count(OnBus, e) = a + n /\ Count(InTransit, e) = (b + n) + 1
    <3>1. OnBus \ back \in SUBSET Pkt /\ InTransit \ (back \cup {p}) \in SUBSET Pkt
      BY <2>1
    <3>2. Count(OnBus', e) \in Nat /\ Count(InTransit', e) \in Nat
      BY <1>0, <1>7, <3>1, CountNat
    <3>3. QED
      BY <1>7, <2>2, <2>3, <2>4, <2>5, <3>2
  <2>7. /\ mac[e] \in MacRecord /\ EntryRight(mac[e])
        /\ mac[e].onbus_pkts_count = a + n /\ mac[e].transit_count = (b + n) + 1
    BY <1>0, <2>6 DEF TypeOK, ServeInv, EntriesRight, CountersExact, OnbusCounted, TransitCounted, InTransit
  <2>8. mac[e].transit_count > 0 /\ n <= mac[e].transit_count - 1 /\ n <= mac[e].onbus_pkts_count
    BY <2>6, <2>7
  <2>9. PICK m : m = TakenBack(TransitDone(Suppress(mac[e], g), 1), n)
    OBVIOUS
  <2>10. /\ m \in MacRecord /\ (m.occupied <=> mac[e].occupied) /\ EntryRight(m)
         /\ m.onbus_pkts_count > 0 => m.suppressed
         /\ m.onbus_pkts_count = mac[e].onbus_pkts_count - n
         /\ m.transit_count = mac[e].transit_count - 1 - n
    BY <2>6, <2>7, <2>8, <2>9, SuppressFollows
  <2>11. m.onbus_pkts_count = a /\ m.transit_count = b
    BY <2>6, <2>7, <2>10
  <2>12. mac' = [mac EXCEPT ![e] = m]
    BY <1>2, <2>6, <2>9
  <2>13. QED
    BY <2>6, <2>10, <2>11, <2>12
<1>10. mac'[e] = m /\ \A f \in Entry \ {e} : mac'[f] = mac[f]
  BY <1>0, <1>9 DEF TypeOK
<1>11. \A x \in Pkt : dst[x] # e => x \notin back /\ x # p
  BY <1>0, <1>4
<1>12. EntriesRight'
  <2>1. EntriesRight /\ UNCHANGED dst
    BY <1>3 DEF ServeInv
  <2>2. QED
    BY <1>0, <1>7, <1>9, <1>11, <2>1, EntryStep
<1>13. HeldBack'
  <2>1. SUFFICES ASSUME NEW x \in suppq' \cap OnBus' PROVE mac'[dst[x]].suppressed
    BY <1>3 DEF HeldBack
  <2>2. x \in Pkt /\ dst[x] \in Entry /\ OnBus' \in SUBSET Pkt
    BY DEF TypeOK, OnBus
  <2>3. CASE dst[x] = e
    <3>1. Count(OnBus', e) > 0
      BY <2>1, <2>2, <2>3, CountPositive
    <3>2. QED
      BY <1>9, <1>10, <2>3, <3>1
  <2>4. CASE dst[x] # e
    BY <1>1, <1>2, <1>7, <1>10, <1>11, <2>1, <2>2, <2>4 DEF ServeInv, HeldBack
  <2>5. QED
    BY <2>3, <2>4
<1>14. PlacesApart'
  <2>1. up' /\ \A f \in Entry : mac'[f].occupied
    BY <1>3, <1>9, <1>10 DEF ServeInv, PlacesApart
  <2>2. live' = (delayq \cup suppq \cup OnBus \cup dongle)'
    <3>1. back \subseteq OnBus
      BY <1>4 DEF OnBus
    <3>2. QED
      BY <1>1, <1>2, <1>3, <1>7, <1>8, <3>1 DEF ServeInv, PlacesApart
  <2>3. (delayq \cap (suppq \cup OnBus \cup dongle))' = {}
    BY <1>1, <1>2, <1>3, <1>5, <1>7 DEF ServeInv, PlacesApart
  <2>4. (suppq \cap InTransit)' = {}
    BY <1>1, <1>2, <1>7 DEF ServeInv, PlacesApart
  <2>5. /\ (txq \cap (bus \cup sent))' = {} /\ (bus \cap sent)' = {}
        /\ (dongle \cap (txq \cup bus))' = {}
    BY <1>2, <1>3 DEF ServeInv, PlacesApart
  <2>6. IF USB THEN txq' = {} ELSE suppq' \cap sent' = {} /\ sent' \subseteq dongle'
    BY <1>1, <1>2, <1>3, <1>5 DEF ServeInv, PlacesApart
  <2>7. afq' = IF AFQ THEN dongle' \ sent' ELSE {}
    BY <1>3 DEF ServeInv, PlacesApart
  <2>8. QED
    BY <2>1, <2>2, <2>3, <2>4, <2>5, <2>6, <2>7 DEF PlacesApart
<1>15. ItemsRight'
  <2>1. CASE AFQ
    <3>1. \A s \in Slot : item'[s] = item[s]
      BY <1>2, <2>1
    <3>2. QED
      BY <2>1, <3>1 DEF ServeInv, ItemsRight
  <2>2. CASE ~AFQ
    <3>1. /\ txq \cap (sent \cup dongle) = {} /\ delayq \cap Hanging = {} /\ V \in SUBSET Pkt
      BY <1>4, <1>6 DEF ServeInv, PlacesApart, Hanging, TypeOK
    <3>2. OnBus' \cap V = {} /\ dongle' \cap V = {} /\ ItemsRight
      BY <1>3, <1>7, <1>8 DEF ServeInv
    <3>3. /\ N \in SUBSET Pkt /\ \A x \in Pkt : x \in N <=> x \in back \/ x = p
          /\ V \subseteq delayq \cup suppq \cup N
      BY <1>1, <1>4, <1>6
    <3>4. \A s \in Slot :
            item'[s] = IF \E v \in V \ delayq : hslot[v] = s THEN FreeItem
                       ELSE IF \E x \in N : hslot[x] = s THEN MarkSuppressed(item, s)[s] ELSE item[s]
      BY <1>2, <2>2
    <3>5. QED
      <4>1. /\ p \in dongle /\ back \in SUBSET txq /\ OnBus' = OnBus \ back
            /\ suppq' = (suppq \cup N) \ V /\ UNCHANGED <<hslot, sent>>
        BY <1>2, <1>3, <1>4, <1>7
      <4>2. SuppressMoves(p, N, back, V)
        BY <1>3, <3>1, <3>2, <3>3, <3>4, <4>1 DEF SuppressMoves
      <4>3. N \in SUBSET Pkt /\ back \in SUBSET Pkt /\ V \in SUBSET Pkt
        BY <1>4, <3>1, <3>3
      <4>4. QED
        BY <2>2, <3>2, <4>2, <4>3, SuppressItems
  <2>3. QED
    BY <2>1, <2>2
<1>16. QED
  BY <1>12, <1>13, <1>14, <1>15 DEF ServeInv

LEMMA ServeNext == Serving /\ TypeOK /\ TypeOK' /\ ServeInv /\ [Next]_vars => ServeInv'
<1> SUFFICES ASSUME Serving, TypeOK, TypeOK', ServeInv, [Next]_vars PROVE ServeInv'
  OBVIOUS
<1>1. ASSUME NEW p \in Pkt, TxStatusStale(p) PROVE FALSE
  BY <1>1, FoundIt DEF TxStatusStale, ServeInv, PlacesApart
<1>2. ASSUME NEW e \in Entry, MacDel(e) \/ MacAdd(e) PROVE FALSE
  BY <1>2 DEF MacDel, MacAdd, Serving, ServeInv, PlacesApart
<1>3. ~CleanupTxq /\ ~Cleanup /\ ~Deinit
  BY DEF CleanupTxq, Cleanup, Deinit, Serving
<1>4. CASE UNCHANGED vars
  <2> USE <1>4 DEF vars, tags, queues, wires, hang
  <2>1. PlacesApart'
    BY DEF ServeInv, PlacesApart, OnBus, InTransit
  <2>2. ItemsRight'
    BY DEF ServeInv, ItemsRight, ItemRight, SlotMatchesPacket, OnBus
  <2>3. UNCHANGED <<OnBus, InTransit, mac>> /\ \A x \in OnBus \cup InTransit : dst'[x] = dst[x]
    BY DEF OnBus, InTransit
  <2>4. EntriesRight'
    BY <2>3, EntriesKept DEF ServeInv
  <2>5. HeldBack'
    BY <2>3 DEF ServeInv, HeldBack
  <2>6. QED
    BY <2>1, <2>2, <2>4, <2>5 DEF ServeInv
<1>5. ASSUME NEW p \in Pkt,
             \/ \E e \in Entry : CommitPackets(p, e)
             \/ SendFromQ(p) \/ BusArrive(p) \/ TxCompleteOk(p) \/ TxCompleteFail(p)
             \/ TxStatusStale(p) \/ TxStatusDone(p)
             \/ \E g \in 0 .. 1 : TxStatusSuppress(p, g)
             \/ TxStatusSuppressAcked(p)
      PROVE  ServeInv'
  BY <1>1, <1>5, ServeCommit, ServeBus, ServeCompleteOk, ServeCompleteFail, ServeDone, ServeSuppress,
     ServeAcked
<1>6. ASSUME NEW e \in Entry, TransferPacket(e) \/ TransferRollback(e) \/ MacDel(e) \/ MacAdd(e)
      PROVE  ServeInv'
  BY <1>2, <1>6, ServeTransfer, ServeRollback
<1>7. QED
  BY <1>3, <1>4, <1>5, <1>6 DEF Next

LEMMA ServeAlways == Serving => (Spec => [](TypeOK /\ ServeInv))
<1> SUFFICES ASSUME Serving PROVE Spec => [](TypeOK /\ ServeInv)
  OBVIOUS
<1>1. TypeOK /\ TypeOK' /\ ServeInv /\ [Next]_vars => ServeInv'
  BY ServeNext
<1>2. Init => ServeInv
  BY ServeInit
<1>3. QED
  BY <1>1, <1>2, TypeCorrect, PTL DEF Spec

LEMMA ServeOwns ==
  ASSUME TypeOK, ServeInv
  PROVE  NoDanglingPacket /\ NoLostPacket /\ QueuedOnce /\ SlotMatchesPacket
<1>1. SlotMatchesPacket
  BY DEF ServeInv, ItemsRight, SlotMatchesPacket
<1>2. Hung \subseteq Hanging
  BY DEF ServeInv, ItemsRight, ItemRight, Hung, Hanging, FreeItem
<1>3. dongle \subseteq afq \cup sent \cup Hung
  <2>1. CASE AFQ
    BY <2>1 DEF ServeInv, PlacesApart
  <2>2. CASE ~AFQ
    BY <2>2, ItemOf DEF ServeInv, Hanging, Hung
  <2>3. QED
    BY <2>1, <2>2
<1>4. NoDanglingPacket
  BY <1>2 DEF NoDanglingPacket, ServeInv, PlacesApart, Hanging
<1>5. NoLostPacket
  BY <1>3 DEF NoLostPacket, ServeInv, PlacesApart, OnBus
<1>6. QueuedOnce
  BY ModeAssumption DEF QueuedOnce, ServeInv, PlacesApart, OnBus, InTransit
<1>7. QED
  BY <1>1, <1>4, <1>5, <1>6

\* Every PKTFREE is the right one, in every mode of the firmware and on both
\* buses: nothing points at a freed packet, and what the driver has and has not
\* freed is in a queue, with the bus or hung, however bus completions
\* (dhd_wlfc_txcomplete) and statuses (compressed_txstatus_update) interleave.
THEOREM ServingOwnership == Serving => (Spec => [](NoDanglingPacket /\ NoLostPacket))
<1>1. TypeOK /\ ServeInv => NoDanglingPacket /\ NoLostPacket
  BY ServeOwns
<1>2. QED
  BY <1>1, ServeAlways, PTL

\* No packet is queued twice: suppression, rollback and what suppress_txq takes
\* back from bus->txq leave each packet in one queue.
THEOREM ServingQueues == Serving => (Spec => []QueuedOnce)
<1>1. TypeOK /\ ServeInv => QueuedOnce
  BY ServeOwns
<1>2. QED
  BY <1>1, ServeAlways, PTL

\* The slot search of the hanger never gives away the slot of a packet that the
\* bus or the dongle will still answer for.
THEOREM ServingSlots == Serving => (Spec => []SlotMatchesPacket)
<1>1. TypeOK /\ ServeInv => SlotMatchesPacket
  BY ServeOwns
<1>2. QED
  BY <1>1, ServeAlways, PTL

\* onbus_pkts_count and transit_count count exactly what the bus and the dongle
\* still owe, so the gates of the transfer loop neither open early nor stay shut.
THEOREM ServingCounters == Serving => (Spec => []CountersExact)
<1>1. ServeInv => CountersExact
  BY DEF ServeInv, EntriesRight
<1>2. QED
  BY <1>1, ServeAlways, PTL

\* A suppressed entry waits for a bus completion or a status that is on its way,
\* the only events that resume it.
THEOREM ServingSuppression == Serving => (Spec => []SuppressionPending)
<1>1. ASSUME TypeOK, ServeInv PROVE SuppressionPending
  <2>1. SUFFICES ASSUME NEW e \in Entry, mac[e].suppressed
                 PROVE  \/ Count(OnBus, e) > 0
                        \/ mac[e].suppr_transit_count \in 1 .. Count(txq \cup bus \cup dongle, e)
    BY DEF SuppressionPending
  <2>2. /\ mac[e].suppr_transit_count \in Nat /\ mac[e].transit_count \in Nat
        /\ mac[e].transit_count = Count(txq \cup bus \cup dongle, e)
        /\ mac[e].onbus_pkts_count = Count(OnBus, e) /\ EntryRight(mac[e])
    BY <1>1 DEF TypeOK, MacRecord, ServeInv, EntriesRight, CountersExact, OnbusCounted, TransitCounted
  <2>3. QED
    BY <2>1, <2>2 DEF EntryRight
<1>2. QED
  BY <1>1, ServeAlways, PTL

\* The transfer loop never hands the bus a packet that the bus still has, because
\* its entry is suppressed until the bus has completed it.
THEOREM ServingNoResubmit == Serving => (Spec => NoResubmit)
<1> SUFFICES ASSUME Serving PROVE Spec => NoResubmit
  OBVIOUS
<1> DEFINE Kept == \A p \in suppq \cap OnBus : p \in live' => p \in suppq'
<1>1. ASSUME TypeOK, ServeInv, [Next]_vars PROVE [Kept]_vars
  <2>1. SUFFICES ASSUME Next, NEW p \in suppq \cap OnBus PROVE p \in suppq'
    BY <1>1
  <2>2. /\ p \in Pkt /\ USB /\ ~AFQ /\ up /\ mac[dst[p]].suppressed
        /\ \A e \in Entry : mac[e].occupied
    BY <1>1, <2>1, ModeAssumption DEF TypeOK, ServeInv, PlacesApart, HeldBack, OnBus, InTransit
  <2>3. ASSUME NEW e \in Entry, TransferPacket(e) PROVE p \in suppq'
    <3>1. PICK x \in Dequeued(e) : suppq' = suppq \ {x}
      BY <2>3 DEF TransferPacket
    <3>2. Ready(e)
      BY <2>3 DEF TransferPacket
    <3>3. x \notin OnBus
      BY <1>1, <3>1, <3>2, DequeuedOff
    <3>4. QED
      BY <2>1, <3>1, <3>3
  <2>4. ASSUME NEW x \in Pkt, NEW g \in 0 .. 1, TxStatusSuppress(x, g) PROVE p \in suppq'
    <3> DEFINE e == dst[Found(x)]
               back == IF REORDERSUPP /\ ~USB /\ ~mac[e].suppressed THEN InTxq(e) ELSE {}
               N == back \cup {Found(x)}
    <3>1. PICK V \in Victims(e, "sup", N) : suppq' = (suppq \cup back \cup {Found(x)}) \ V
      BY <2>4 DEF TxStatusSuppress
    <3>2. Found(x) = x /\ x \in dongle /\ e \in Entry /\ back = {}
      BY <1>1, <2>2, <2>4, FoundIt DEF TxStatusSuppress, StatusReady, TypeOK
    <3>3. x \notin delayq \cup suppq
      BY <1>1, <3>2 DEF ServeInv, PlacesApart, InTransit
    <3>4. N \in SUBSET Pkt /\ N # {} /\ N \cap (delayq \cup suppq) = {}
      BY <2>4, <3>2, <3>3
    <3> HIDE DEF e, back, N
    <3>5. V = {}
      BY <1>1, <2>2, <3>1, <3>2, <3>4, SuppressVictims
    <3>6. QED
      BY <2>1, <3>1, <3>5
  <2>5. ASSUME NEW x \in Pkt,
               \/ \E e \in Entry : CommitPackets(x, e)
               \/ SendFromQ(x) \/ BusArrive(x) \/ TxCompleteOk(x) \/ TxCompleteFail(x)
               \/ TxStatusStale(x) \/ TxStatusDone(x)
        PROVE  p \in suppq'
    BY <2>1, <2>5 DEF CommitPackets, SendFromQ, BusArrive, TxCompleteOk, TxCompleteFail,
                      TxStatusStale, TxStatusDone, queues
  <2>6. ASSUME NEW x \in Pkt, TxStatusSuppressAcked(x) PROVE FALSE
    BY <2>2, <2>6 DEF TxStatusSuppressAcked
  <2>7. ASSUME NEW e \in Entry, TransferRollback(e) PROVE p \in suppq'
    BY <2>1, <2>7 DEF TransferRollback, queues
  <2>8. ASSUME NEW e \in Entry, MacDel(e) \/ MacAdd(e) PROVE FALSE
    BY <1>1, <2>2, <2>8 DEF MacDel, MacAdd, Serving
  <2>9. ~CleanupTxq /\ ~Cleanup /\ ~Deinit
    BY <1>1 DEF CleanupTxq, Cleanup, Deinit, Serving
  <2>10. QED
    BY <2>1, <2>3, <2>4, <2>5, <2>6, <2>7, <2>8, <2>9 DEF Next
<1>2. Spec => [](TypeOK /\ ServeInv)
  BY ServeAlways
<1>3. QED
  BY <1>1, <1>2, PTL DEF Spec, NoResubmit

=============================================================================
