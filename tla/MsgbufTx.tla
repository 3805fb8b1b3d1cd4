------------------------------ MODULE MsgbufTx ------------------------------
(***************************************************************************)
(* Transmit descriptors of the PCIe protocol (dhd_msgbuf.c): packets leave *)
(* the queue of a flow ring, get a packet id from a map shared by all the  *)
(* rings, and are written to the ring as a descriptor; the dongle is told  *)
(* the new write index once for several descriptors; it answers each with  *)
(* a status, which frees the id.  When the ids run out the network queues  *)
(* are stopped, and the status that frees the id number MIN_AVAIL starts   *)
(* them again.                                                             *)
(*                                                                         *)
(* A flow ring is served by one actor at a time (it holds the lock of the  *)
(* ring): a sender that has just queued a packet or the DPC.  Each step    *)
(* ends where the code takes or drops the lock of the map of ids, reads    *)
(* its count or touches a flag without a lock.  Which free id the stack    *)
(* keys[] hands out is left open, and so is whether the dongle asks for    *)
(* phase nibbles (fr_phase_nibble).  Not modelled: DMA addresses, headers, *)
(* metadata, the aggregated doorbell (AGG_H2D_DB), the reset of the map.   *)
(* The definitions marked as slips are faulty variants that nobody uses.   *)
(***************************************************************************)
EXTENDS MsgbufRing, FiniteSets

CONSTANTS
  Flow,           \* flow rings
  TxPktid,        \* ids of the map
  TXITEMS,        \* slots of a flow ring, h2d_max_txpost
  TXP_THRESHOLD,  \* txp_threshold
  TX_POST_BOUND,  \* packets the DPC takes from one queue
  MIN_AVAIL,      \* DHD_PKTID_MIN_AVAIL_COUNT
  DEPLETED_MAX,   \* DHD_PKTID_DEPLETED_MAX_COUNT
  TXQ_LEN,        \* bound on the queue of a flow ring
  MAP_FAILS       \* whether DMA_MAP may return address 0

ASSUME TxAssumption ==
  /\ {TXITEMS, TXP_THRESHOLD, TX_POST_BOUND, MIN_AVAIL, TXQ_LEN} \subseteq Nat \ {0}
  /\ TXITEMS > 1 /\ DEPLETED_MAX \in Nat /\ MAP_FAILS \in BOOLEAN
  /\ NoId \notin TxPktid

VARIABLES
  txq,        \* [flow -> packets in its queue]
  txat,       \* [flow -> where the actor that serves it is]
  txby,       \* [flow -> "sender" or "dpc"]
  txcnt,      \* [flow -> packets that actor has dequeued, if it is the DPC]
  txid,       \* [flow -> the id that actor has reserved]
  txring,     \* [flow -> msgbuf_ring_t]
  pend,       \* [flow -> pend_items_count]
  told,       \* [flow -> the write index the dongle has been told]
  desc,       \* [flow -> [slot -> descriptor]]
  misphased,  \* history: rings a rollback has left with a wrong phase
  busy,       \* lockers in state LOCKER_IS_BUSY
  depleted,   \* pktid_depleted_cnt
  stopped,    \* the network queues are stopped
  noRes,      \* no_tx_resource
  txsAt,      \* where the DPC is in dhd_prot_txstatus_process
  drd,        \* [flow -> the dongle's read index]
  lap,        \* [flow -> the phase it expects there]
  even,       \* the phase of the even laps: NIBBLE_WRAP with fr_phase_nibble
  taken,      \* ids of the descriptors it has read
  statuses    \* ids of its statuses that the DPC has not read

ringPart == <<txring, pend, told, desc, misphased>>
mapPart == <<busy, depleted>>
stopPart == <<stopped, noRes>>
donglePart == <<drd, lap, even, taken, statuses>>
actorPart == <<txat, txby, txcnt, txid>>
msgtxVars == <<txq, actorPart, ringPart, mapPart, stopPart, txsAt, donglePart>>

Avail == Cardinality(TxPktid \ busy)

MsgTxInit ==
  /\ txq = [f \in Flow |-> 0]
  /\ txat = [f \in Flow |-> "rest"] /\ txby = [f \in Flow |-> "sender"]
  /\ txcnt = [f \in Flow |-> 0] /\ txid = [f \in Flow |-> NoId]
  /\ txring = [f \in Flow |-> NewRing] /\ pend = [f \in Flow |-> 0]
  /\ told = [f \in Flow |-> 0]
  /\ desc = [f \in Flow |-> [i \in 0 .. TXITEMS - 1 |-> Blank]] /\ misphased = {}
  /\ busy = {} /\ depleted = 0 /\ stopped = FALSE /\ noRes = FALSE /\ txsAt = "idle"
  /\ drd = [f \in Flow |-> 0] /\ lap = [f \in Flow |-> 1]
  /\ even \in {0, NIBBLE_WRAP}
  /\ taken = {} /\ statuses = {}

-----------------------------------------------------------------------------
(* Serving a flow ring: dhd_bus_schedule_queue and dhd_prot_txdata.         *)

Goto(f, at) == txat' = [txat EXCEPT ![f] = at]

\* The stack hands the driver a packet, which goes to the queue of its ring.
Enqueue(f) ==
  /\ txat[f] = "rest" /\ ~stopped /\ txq[f] < TXQ_LEN
  /\ txq' = [txq EXCEPT ![f] = @ + 1]
  /\ Goto(f, "next")
  /\ UNCHANGED <<txby, txcnt, txid, ringPart, mapPart, stopPart, txsAt, donglePart>>

\* dhd_update_txflowrings of the DPC comes to this ring.
DpcServes(f) ==
  /\ txsAt = "idle" /\ \A g \in Flow : txat[g] /= "rest" => txby[g] = "sender"
  /\ txat[f] = "rest" /\ txq[f] > 0
  /\ Goto(f, "next")
  /\ txby' = [txby EXCEPT ![f] = "dpc"]
  /\ UNCHANGED <<txq, txcnt, txid, ringPart, mapPart, stopPart, txsAt, donglePart>>

Served(f) == txq[f] = 0 \/ (txby[f] = "dpc" /\ txcnt[f] >= TX_POST_BOUND)

Dequeued(f) ==
  /\ txat[f] = "next" /\ ~Served(f)
  /\ txq' = [txq EXCEPT ![f] = @ - 1]
  /\ txcnt' = [txcnt EXCEPT ![f] = IF txby[f] = "dpc" THEN @ + 1 ELSE @]
  /\ UNCHANGED <<txby, txid, ringPart, busy, stopPart, txsAt, donglePart>>

\* The first look at the map: no id, seen for the time DEPLETED_MAX + 1.
TakeDepletedMax(f) ==
  /\ Dequeued(f) /\ Avail = 0 /\ depleted = DEPLETED_MAX
  /\ Goto(f, "stop")
  /\ UNCHANGED depleted

\* depleted goes no further than DEPLETED_MAX + 1, past which it decides nothing.
TakeDepleted(f) ==
  /\ Dequeued(f) /\ Avail = 0 /\ depleted /= DEPLETED_MAX
  /\ depleted' = Min({depleted + 1, DEPLETED_MAX + 1})
  /\ Goto(f, "fail")

TakeAvail(f) ==
  /\ Dequeued(f) /\ Avail > 0
  /\ depleted' = 0
  /\ Goto(f, "reserve")

StopQueue(f) ==
  /\ txat[f] = "stop"
  /\ stopped' = TRUE
  /\ Goto(f, "flag")
  /\ UNCHANGED <<txq, txby, txcnt, txid, ringPart, mapPart, noRes, txsAt, donglePart>>

StopFlag(f) ==
  /\ txat[f] = "flag"
  /\ noRes' = TRUE
  /\ depleted' = Min({depleted + 1, DEPLETED_MAX + 1})
  /\ Goto(f, "fail")
  /\ UNCHANGED <<txq, txby, txcnt, txid, ringPart, busy, stopped, txsAt, donglePart>>

Reserve(f) ==
  /\ txat[f] = "reserve"
  /\ \E id \in TxPktid \ busy :
       /\ busy' = busy \cup {id}
       /\ txid' = [txid EXCEPT ![f] = id]
  /\ Goto(f, "alloc")
  /\ UNCHANGED <<txq, txby, txcnt, ringPart, depleted, stopPart, txsAt, donglePart>>

ReserveNone(f) ==
  /\ txat[f] = "reserve" /\ Avail = 0
  /\ Goto(f, "fail")
  /\ UNCHANGED <<txq, txby, txcnt, txid, ringPart, mapPart, stopPart, txsAt, donglePart>>

\* The ring as dhd_prot_alloc_ring_space finds it, and whether it has a slot.
Seen(f) == Refreshed(txring[f], drd[f], 1, FALSE, TXITEMS)
HasSlot(f) == Granted(Seen(f), 1, FALSE, TXITEMS) = 1
SlotTaken(f) == FlowAllocated(Seen(f), 1, TXITEMS, even)

\* Telling the dongle: now if enough are pending or the slot is the last one.
Flush(f) == /\ told' = [told EXCEPT ![f] = txring[f].wr]
            /\ pend' = [pend EXCEPT ![f] = 0]

Post(f) ==
  /\ txat[f] = "alloc" /\ HasSlot(f)
  /\ LET next == SlotTaken(f)
         slot == txring[f].wr
         flush == pend[f] + 1 = TXP_THRESHOLD \/ slot = TXITEMS - 1
     IN /\ txring' = [txring EXCEPT ![f] = next]
        /\ desc' = [desc EXCEPT ![f][slot] = [id |-> txid[f], phase |-> next.phase]]
        /\ pend' = [pend EXCEPT ![f] = IF flush THEN 0 ELSE @ + 1]
        /\ told' = IF flush THEN [told EXCEPT ![f] = next.wr] ELSE told
  /\ txid' = [txid EXCEPT ![f] = NoId]
  /\ Goto(f, "next")
  /\ UNCHANGED <<txq, txby, txcnt, misphased, mapPart, stopPart, txsAt, donglePart>>

PostFull(f) ==
  /\ txat[f] = "alloc" /\ ~HasSlot(f)
  /\ txring' = [txring EXCEPT ![f] = Seen(f)]
  /\ Goto(f, "unreserve")
  /\ UNCHANGED <<txq, txby, txcnt, txid, pend, told, desc, misphased, mapPart, stopPart,
                 txsAt, donglePart>>

\* The rollback undoes the flip of a bit.  Of the nibbles it leaves 0, for
\* which the next allocation of the slot writes that of an odd lap.
AtSeamOfEvenLap(f) == txring[f].wr = 0 /\ SlotTaken(f).phase = NIBBLE_WRAP

PostMapFails(f) ==
  /\ MAP_FAILS /\ txat[f] = "alloc" /\ HasSlot(f)
  /\ txring' = [txring EXCEPT ![f] = RolledBack(SlotTaken(f), 1, TXITEMS)]
  /\ misphased' = misphased \cup (IF AtSeamOfEvenLap(f) THEN {f} ELSE {})
  /\ Goto(f, "unreserve")
  /\ UNCHANGED <<txq, txby, txcnt, txid, pend, told, desc, mapPart, stopPart, txsAt, donglePart>>

\* A slip: the id is forgotten, not freed.
UnreserveKept(f) ==
  /\ txat[f] = "unreserve"
  /\ txid' = [txid EXCEPT ![f] = NoId]
  /\ Goto(f, "fail")
  /\ UNCHANGED <<txq, txby, txcnt, ringPart, mapPart, stopPart, txsAt, donglePart>>

\* dhd_prot_txdata frees the id it had reserved.
Unreserve(f) ==
  /\ txat[f] = "unreserve"
  /\ busy' = busy \ {txid[f]}
  /\ txid' = [txid EXCEPT ![f] = NoId]
  /\ Goto(f, "fail")
  /\ UNCHANGED <<txq, txby, txcnt, ringPart, depleted, stopPart, txsAt, donglePart>>

\* The actor drops the lock of the ring, and its count with it.
Leave(f) == /\ Goto(f, "rest")
            /\ txby' = [txby EXCEPT ![f] = "sender"] /\ txcnt' = [txcnt EXCEPT ![f] = 0]

\* A slip: what is pending is not announced.
FailUnflushed(f) ==
  /\ txat[f] = "fail"
  /\ txq' = [txq EXCEPT ![f] = @ + 1]
  /\ Leave(f)
  /\ UNCHANGED <<txid, ringPart, mapPart, stopPart, txsAt, donglePart>>

\* The packet goes back to the head of the queue.
Fail(f) ==
  /\ txat[f] = "fail"
  /\ Flush(f)
  /\ txq' = [txq EXCEPT ![f] = @ + 1]
  /\ Leave(f)
  /\ UNCHANGED <<txid, txring, desc, misphased, mapPart, stopPart, txsAt, donglePart>>

ServedAll(f) ==
  /\ txat[f] = "next" /\ Served(f)
  /\ Flush(f)
  /\ Leave(f)
  /\ UNCHANGED <<txq, txid, txring, desc, misphased, mapPart, stopPart, txsAt, donglePart>>

-----------------------------------------------------------------------------
(* The DPC: dhd_prot_txstatus_process.                                      *)

StatusFree(id) ==
  /\ txsAt = "idle" /\ \A f \in Flow : txat[f] /= "rest" => txby[f] = "sender"
  /\ id \in statuses
  /\ statuses' = statuses \ {id}
  /\ busy' = busy \ {id}
  /\ txsAt' = "avail"
  /\ UNCHANGED <<txq, actorPart, ringPart, depleted, stopPart, drd, lap, even, taken>>

\* The count is read under a later hold of the lock than the one that freed.
StatusAvail ==
  /\ txsAt = "avail"
  /\ txsAt' = IF Avail = MIN_AVAIL THEN "flag" ELSE "idle"
  /\ UNCHANGED <<txq, actorPart, ringPart, mapPart, stopPart, donglePart>>

StatusFlag ==
  /\ txsAt = "flag"
  /\ noRes' = FALSE
  /\ txsAt' = "start"
  /\ UNCHANGED <<txq, actorPart, ringPart, mapPart, stopped, donglePart>>

StatusStart ==
  /\ txsAt = "start"
  /\ stopped' = (stopped /\ noRes)
  /\ txsAt' = "idle"
  /\ UNCHANGED <<txq, actorPart, ringPart, mapPart, noRes, donglePart>>

-----------------------------------------------------------------------------
(* The dongle.  A slot it has read is forgotten.                            *)

DongleReads(f) ==
  /\ drd[f] /= told[f]
  /\ taken' = taken \cup {desc[f][drd[f]].id}
  /\ desc' = [desc EXCEPT ![f][drd[f]] = Blank]
  /\ drd' = [drd EXCEPT ![f] = (@ + 1) % TXITEMS]
  /\ lap' = [lap EXCEPT ![f] = FlowNextLap(drd[f], @, even, TXITEMS)]
  /\ UNCHANGED <<txq, actorPart, txring, pend, told, misphased, mapPart, stopPart, txsAt,
                 even, statuses>>

DongleAnswers(id) ==
  /\ id \in taken
  /\ taken' = taken \ {id} /\ statuses' = statuses \cup {id}
  /\ UNCHANGED <<txq, actorPart, ringPart, mapPart, stopPart, txsAt, drd, lap, even>>

-----------------------------------------------------------------------------
TxServeStep(f) ==
  \/ TakeDepletedMax(f) \/ TakeDepleted(f) \/ TakeAvail(f) \/ StopQueue(f) \/ StopFlag(f)
  \/ Reserve(f) \/ ReserveNone(f) \/ Post(f) \/ PostFull(f) \/ PostMapFails(f)
  \/ Unreserve(f) \/ Fail(f) \/ ServedAll(f)

TxStatusStep == (\E id \in TxPktid : StatusFree(id)) \/ StatusAvail \/ StatusFlag \/ StatusStart

TxDongleStep == \/ \E f \in Flow : DongleReads(f)
                \/ \E id \in TxPktid : DongleAnswers(id)

MsgTxNext ==
  \/ \E f \in Flow : Enqueue(f) \/ DpcServes(f) \/ TxServeStep(f)
  \/ TxStatusStep \/ TxDongleStep

MsgTxSpec == MsgTxInit /\ [][MsgTxNext]_msgtxVars

-----------------------------------------------------------------------------
\* An id in use is in exactly one place: reserved by one actor, in one slot
\* that the dongle has not read, with the dongle, or in one status; a free id
\* is nowhere.  So no status frees an id twice (the driver takes that for a
\* fatal error, dhd_msgbuf.c:3063), and no failure of the ring or of the DMA
\* mapping loses one.
Unread(f) == Span(drd[f], txring[f].wr, TXITEMS)
PostedIds == UNION {{desc[f][i].id : i \in Unread(f)} : f \in Flow}
ReservedIds == {txid[f] : f \in Flow} \ {NoId}

PktidOwned ==
  /\ busy = ReservedIds \cup PostedIds \cup taken \cup statuses
  /\ ReservedIds \cap PostedIds = {} /\ taken \cap statuses = {}
  /\ (ReservedIds \cup PostedIds) \cap (taken \cup statuses) = {}
  /\ \A f, g \in Flow :
       /\ f /= g /\ txid[f] = txid[g] => txid[f] = NoId
       /\ \A i \in Unread(f), j \in Unread(g) :
            desc[f][i].id = desc[g][j].id => f = g /\ i = j

\* Every descriptor the dongle has been told about is one with an id in use
\* and of this lap, also after allocations that were rolled back at the seam
\* of the ring, and when nobody serves the ring the dongle knows of every
\* descriptor in it.  Of the laps there is an exception: with fr_phase_nibble
\* the rollback (dhd_msgbuf.c:8192) flips the phase as if it were a bit, so
\* one at the seam of an even lap leaves the phase of an odd one behind.
DescriptorsCurrent ==
  \A f \in Flow :
    /\ \A i \in Span(drd[f], told[f], TXITEMS) :
         /\ desc[f][i].id \in busy
         /\ f \notin misphased => desc[f][i].phase = FlowExpected(i, drd[f], lap[f], even)
    /\ txat[f] = "rest" => told[f] = txring[f].wr
=============================================================================
