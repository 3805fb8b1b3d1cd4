------------------------------- MODULE WlfcTx -------------------------------
(***************************************************************************)
(* The life of a transmit packet in the host/dongle flow control layer     *)
(* (src/src/dhd_wlfc.c) between dhd_wlfc_commit_packets and PKTFREE.       *)
(*                                                                         *)
(* Every public function of dhd_wlfc.c holds dhd_os_wlfc_block for its     *)
(* whole body, so each is one action here.  What runs beside that lock is  *)
(* the bus (it takes packets off bus->txq and completes them later) and    *)
(* the dongle.  One execution of the loop of dhd_wlfc_transfer_packets is  *)
(* a sequence of TransferPacket steps: the credit that ends the loop is    *)
(* the subject of module WlfcCredit and is nondeterministic here.          *)
(*                                                                         *)
(* The queues are sets: no property of this module depends on their order. *)
(* A packet stands for the pair (hslot, free running counter) that the     *)
(* dongle echoes: transit_count < WL_TXSTATUS_FREERUNCTR_MASK keeps that   *)
(* pair unique, so a packet's name is reused only when the dongle has      *)
(* answered for its last use.                                              *)
(*                                                                         *)
(* The definitions nobody uses (TransitDoneStuck, FreedNever, ...) are     *)
(* faulty variants of the one that follows them: with one of them in its   *)
(* place a property below fails.                                           *)
(***************************************************************************)
EXTENDS Naturals, FiniteSets

CONSTANTS
  Pkt,            \* packet buffers
  NoPkt,          \* the NULL packet pointer
  Entry,          \* destination_entries: nodes, interfaces and other
  Other,          \* destination_entries.other, never deleted
  MaxItems,       \* hanger->max_items
  PSQ_LEN,        \* WLFC_PSQ_LEN
  TRANSIT_MAX,    \* entry->transit_maxcount
  ONBUS_MAX,      \* bound of the model: no transfer is started beyond this onbus_pkts_count
  AFQ,            \* WLFC_GET_AFQ(wlfc_mode): packets at the dongle are kept in afq, not the hanger
  REORDERSUPP,    \* WLFC_GET_REORDERSUPP(wlfc_mode)
  USB,            \* BCMDBUS build: no bus->txq, completions are callbacks of their own
  Teardown        \* which tear-down calls the environment makes

TeardownCalls == {"MacDel", "CleanupTxq", "Cleanup", "Deinit"}

ASSUME PktAssumption == IsFiniteSet(Pkt) /\ NoPkt \notin Pkt
ASSUME EntryAssumption == Other \in Entry
ASSUME BoundAssumption == /\ MaxItems \in Nat \ {0}
                          /\ PSQ_LEN \in Nat \ {0}
                          /\ TRANSIT_MAX \in Nat
                          /\ ONBUS_MAX \in Nat
ASSUME ModeAssumption == /\ {AFQ, REORDERSUPP, USB} \subseteq BOOLEAN
                         /\ USB => ~AFQ
                         /\ Teardown \subseteq TeardownCalls

VARIABLES
  up,        \* dhd->wlfc_state is allocated
  live,      \* packets owned by the driver: handed in and not freed
  dst,       \* DHD_PKTTAG_ENTRY: the destination cached in each packet
  hslot,     \* the hanger slot in the packet's H2DTAG
  gen,       \* the generation bit in the packet's H2DTAG
  delayq,    \* packets in the delayed sub-queues of the psq's
  suppq,     \* packets in the suppressed sub-queues of the psq's
  afq,       \* packets in the at-firmware queues
  txq,       \* bus->txq (SDIO)
  bus,       \* submitted to the bus, not yet at the dongle
  sent,      \* at the dongle, bus completion not yet delivered
  dongle,    \* at the dongle, no txstatus yet
  item,      \* hanger->items
  slot_pos,  \* hanger->slot_pos
  mac        \* the wlfc_mac_descriptor_t of each destination

tags   == <<dst, hslot, gen>>
queues == <<delayq, suppq, afq>>
wires  == <<txq, bus, sent>>
hang   == <<item, slot_pos>>
vars   == <<up, live, tags, queues, wires, dongle, hang, mac>>

Slot == 0 .. MaxItems - 1
FreeItem == [state |-> "FREE", pkt |-> NoPkt, pkt_state |-> {}]
Complete == {"TXSTATUS", "BUSRETURNED"}

\* Packets the bus layer holds a pointer to.
OnBus == txq \cup bus \cup sent
Psq(e) == {p \in delayq \cup suppq : dst[p] = e}

-----------------------------------------------------------------------------
(* The counters of a destination entry. *)

\* The counters stop at 0.
LessUnguarded(n, k) == n - k
Less(n, k) == IF n > k THEN n - k ELSE 0

EntryUnused == [occupied |-> FALSE, generation |-> 0, suppressed |-> FALSE,
                transit_count |-> 0, suppr_transit_count |-> 0,
                onbus_pkts_count |-> 0]
EntryAdded(m) == [EntryUnused EXCEPT !.occupied = TRUE,
                                     !.generation = m.generation]

ResumeIfDrained(m) ==
  [m EXCEPT !.suppressed = @ /\ ~(m.onbus_pkts_count = 0
                                  /\ m.suppr_transit_count = 0)]

TransitDoneBusBlind(m, n) ==
  [m EXCEPT !.transit_count = Less(@, n),
            !.suppr_transit_count = Less(@, n),
            !.suppressed = @ /\ ~(m.suppr_transit_count \in 1 .. n)]
TransitDoneStuck(m, n) == [m EXCEPT !.transit_count = Less(@, n),
                                    !.suppr_transit_count = Less(@, n)]
\* n packets of the entry have left the dongle, one after the other.
TransitDone(m, n) ==
  [m EXCEPT !.transit_count = Less(@, n),
            !.suppr_transit_count = Less(@, n),
            !.suppressed = @ /\ ~(m.suppr_transit_count \in 1 .. n
                                 /\ m.onbus_pkts_count = 0)]

\* A suppressed packet counts as committed again and done at once.
SentAfterAll(m) == TransitDone([m EXCEPT !.transit_count = @ + 1], 1)

BusDoneStuck(m) == [m EXCEPT !.onbus_pkts_count = Less(@, 1)]
BusDone(m) == ResumeIfDrained([m EXCEPT !.onbus_pkts_count = Less(@, 1)])
\* The transfer failed, so the packet is not in transit either.
BusFailed(m) == BusDone([m EXCEPT !.transit_count = Less(@, 1),
                                  !.suppr_transit_count = Less(@, 1)])

\* A suppress status with generation g: the first one counts what is in transit.
Suppress(m, g) ==
  [m EXCEPT !.suppr_transit_count = IF m.suppressed THEN @ ELSE m.transit_count,
            !.suppressed = TRUE,
            !.generation = g]

CommittedStaleOffBus(m, g) ==
  IF g # m.generation
  THEN [m EXCEPT !.suppressed = TRUE, !.suppr_transit_count = @ + 1,
                 !.transit_count = @ + 1]
  ELSE [m EXCEPT !.transit_count = @ + 1, !.onbus_pkts_count = @ + 1]
\* A packet of generation g was handed to the bus.
Committed(m, g) ==
  LET stale == g # m.generation
  IN  [m EXCEPT !.suppressed = @ \/ stale,
                !.suppr_transit_count = IF stale THEN @ + 1 ELSE @,
                !.transit_count = @ + 1,
                !.onbus_pkts_count = @ + 1]

TakenBackOnBus(m, n) ==
  IF n = 0 THEN m
  ELSE [m EXCEPT !.transit_count = Less(@, n),
                 !.suppr_transit_count = Less(m.transit_count, n),
                 !.suppressed = ~(m.transit_count = n /\ m.onbus_pkts_count <= n)]
\* suppress_txq takes n packets of a freshly suppressed entry back: for each a
\* bus return and a fake suppress status, which keeps the two transit counts
\* equal.
TakenBack(m, n) ==
  IF n = 0 THEN m
  ELSE [m EXCEPT !.onbus_pkts_count = Less(@, n),
                 !.transit_count = Less(@, n),
                 !.suppr_transit_count = Less(m.transit_count, n),
                 !.suppressed = ~(m.transit_count = n /\ m.onbus_pkts_count <= n)]

Count(S, e) == Cardinality({p \in S : dst[p] = e})

-----------------------------------------------------------------------------
(* The hanger. *)

\* The scan starts after slot_pos and stops before it comes back to it.
Distance(s) == (s + MaxItems - slot_pos) % MaxItems
FreeSlotsNotInUse == {s \in Slot : item[s].state # "INUSE" /\ s # slot_pos}
FreeSlots == {s \in Slot : item[s].state = "FREE" /\ s # slot_pos}
NextFree == {s \in FreeSlots : \A t \in FreeSlots : Distance(s) <= Distance(t)}

\* The slot the packet travels with: a new one only if it has no header yet.
SlotFor(p) == IF ~AFQ /\ p \in delayq THEN NextFree ELSE {hslot[p]}
GenFor(p) == IF p \in delayq \/ REORDERSUPP THEN mac[dst[p]].generation ELSE gen[p]

PushPkt(its, s, p) ==
  IF its[s].state = "FREE"
  THEN [its EXCEPT ![s] = [state |-> "INUSE", pkt |-> p, pkt_state |-> {}]]
  ELSE its
\* A suppressed packet that is sent again keeps its slot.
Reuse(its, s) == [its EXCEPT ![s].state = "INUSE", ![s].pkt_state = {}]
PopPkt(its, s) == [its EXCEPT ![s] = FreeItem]
MarkSuppressed(its, s) ==
  IF its[s].state = "INUSE"
  THEN [its EXCEPT ![s].state = "INUSE_SUPPRESSED"] ELSE its

\* remove_reference for every packet in S: only suppressed items let go.
RemoveReferences(its, S) ==
  [s \in Slot |-> IF its[s].pkt \in S /\ hslot[its[s].pkt] = s
                     /\ its[s].state = "INUSE_SUPPRESSED"
                  THEN FreeItem ELSE its[s]]

FreedOnStatus(its, s, flags) ==
  IF its[s].pkt # NoPkt /\ "TXSTATUS" \in its[s].pkt_state \cup flags
  THEN {its[s].pkt} ELSE {}
FreedNever(its, s, flags) == {}
\* hanger_free_pkt: the item after flags are added, and the packets it frees.
Freed(its, s, flags) ==
  IF its[s].pkt # NoPkt /\ its[s].pkt_state \cup flags = Complete
  THEN {its[s].pkt} ELSE {}
FreePktOnStatus(its, s, flags) ==
  IF its[s].pkt = NoPkt \/ "TXSTATUS" \in its[s].pkt_state \cup flags THEN PopPkt(its, s)
  ELSE [its EXCEPT ![s].pkt_state = @ \cup flags]
FreePkt(its, s, flags) ==
  IF its[s].pkt = NoPkt \/ its[s].pkt_state \cup flags = Complete THEN PopPkt(its, s)
  ELSE [its EXCEPT ![s].pkt_state = @ \cup flags]

-----------------------------------------------------------------------------
(* prec_enq_with_drop: the sets of packets a full psq may drop so that the *)
(* packets N fit into its sub-queue q.  A delayed packet never displaces a   *)
(* suppressed one: with none but suppressed packets there it is itself lost. *)

Victims(e, q, N) ==
  LET lower  == {v \in delayq : dst[v] = e}
      higher == {v \in suppq : dst[v] = e}
      over   == Cardinality(Psq(e)) + Cardinality(N)
      prey   == IF q = "dly" THEN lower
                ELSE (IF higher = {} THEN lower ELSE higher) \cup N
  IN  IF over <= PSQ_LEN THEN {{}}
      ELSE IF prey = {} THEN {N}
      ELSE {V \in SUBSET prey : /\ Cardinality(V) + PSQ_LEN = over
                                /\ ~(N \subseteq V)}

DropItemsKept(its, V) == its
\* The hanger once prec_drop has popped the dropped suppressed packets V.
DropItems(its, V) ==
  [s \in Slot |-> IF ~AFQ /\ \E v \in V : hslot[v] = s THEN FreeItem ELSE its[s]]

-----------------------------------------------------------------------------
Init ==
  /\ up = TRUE
  /\ live = {}
  /\ dst = [p \in Pkt |-> Other]
  /\ hslot = [p \in Pkt |-> 0]
  /\ gen = [p \in Pkt |-> 0]
  /\ delayq = {} /\ suppq = {} /\ afq = {}
  /\ txq = {} /\ bus = {} /\ sent = {} /\ dongle = {}
  /\ item = [s \in Slot |-> FreeItem]
  /\ slot_pos = 0
  /\ mac = [e \in Entry |-> EntryAdded(EntryUnused)]

\* The stack hands packet p for destination e to the driver: enque_delayq.
CommitPackets(p, e) ==
  /\ up /\ mac[e].occupied
  /\ p \notin live \cup dongle
  /\ \E V \in Victims(e, "dly", {p}) :
       /\ delayq' = (delayq \cup {p}) \ V
       /\ live' = (live \cup {p}) \ V
       /\ dst' = [dst EXCEPT ![p] = e]
  /\ UNCHANGED <<up, hslot, gen, suppq, afq, wires, dongle, hang, mac>>

\* deque_delayedq: what the next round of the transfer loop picks for e.
Dequeued(e) ==
  LET sup == {p \in suppq : dst[p] = e}
  IN  IF sup # {} THEN sup ELSE {p \in delayq : dst[p] = e}

Ready(e) == /\ up /\ mac[e].occupied /\ ~mac[e].suppressed
            /\ mac[e].transit_count < TRANSIT_MAX
            /\ mac[e].onbus_pkts_count < ONBUS_MAX

\* handle_packet_commit when pretx and the bus accept the packet.
TransferPacket(e) ==
  /\ Ready(e)
  /\ \E p \in Dequeued(e) : \E s \in SlotFor(p) :
       /\ item' = IF AFQ THEN item
                  ELSE IF p \in delayq THEN PushPkt(item, s, p) ELSE Reuse(item, s)
       /\ slot_pos' = IF ~AFQ /\ p \in delayq THEN s ELSE slot_pos
       /\ hslot' = [hslot EXCEPT ![p] = s]
       /\ gen' = [gen EXCEPT ![p] = GenFor(p)]
       /\ mac' = [mac EXCEPT ![e] = Committed(@, GenFor(p))]
       /\ delayq' = delayq \ {p}
       /\ suppq' = suppq \ {p}
       /\ txq' = IF USB THEN txq ELSE txq \cup {p}
       /\ bus' = IF USB THEN bus \cup {p} ELSE bus
  /\ UNCHANGED <<up, live, dst, afq, sent, dongle>>

\* The bus refuses the packet (txq full, txoff): rollback_packet_toq.  A new
\* packet leaves the hanger; a suppressed one stays in it, no longer marked.
TransferRollback(e) ==
  /\ Ready(e)
  /\ \E p \in Dequeued(e) : \E s \in SlotFor(p) :
       /\ item' = IF AFQ \/ p \in delayq THEN item ELSE Reuse(item, s)
       /\ slot_pos' = IF ~AFQ /\ p \in delayq THEN s ELSE slot_pos
       /\ hslot' = [hslot EXCEPT ![p] = s]
       /\ gen' = [gen EXCEPT ![p] = GenFor(p)]
  /\ UNCHANGED <<up, live, dst, queues, wires, dongle, mac>>

\* The SDIO DPC takes a packet off bus->txq under the txq lock only.
SendFromQ(p) ==
  /\ p \in txq
  /\ txq' = txq \ {p}
  /\ bus' = bus \cup {p}
  /\ UNCHANGED <<up, live, tags, queues, sent, dongle, hang, mac>>

\* The transfer reaches the dongle.
BusArrive(p) ==
  /\ p \in bus
  /\ bus' = bus \ {p}
  /\ sent' = sent \cup {p}
  /\ dongle' = dongle \cup {p}
  /\ UNCHANGED <<up, live, tags, queues, txq, hang, mac>>

\* dhd_wlfc_txcomplete(p, TRUE), or the caller's PKTFREE when it says
\* WLFC_UNSUPPORTED.
TxCompleteOk(p) ==
  /\ p \in sent
  /\ sent' = sent \ {p}
  /\ IF ~up
     THEN /\ live' = live \ {p}
          /\ UNCHANGED <<afq, item, mac>>
     ELSE /\ afq' = IF AFQ THEN afq \cup {p} ELSE afq
          /\ item' = IF AFQ THEN item ELSE FreePkt(item, hslot[p], {"BUSRETURNED"})
          /\ live' = IF AFQ THEN live
                     ELSE live \ Freed(item, hslot[p], {"BUSRETURNED"})
          /\ mac' = [mac EXCEPT ![dst[p]] = BusDone(@)]
  /\ UNCHANGED <<up, tags, delayq, suppq, txq, bus, dongle, slot_pos>>

\* dhd_wlfc_txcomplete(p, FALSE): the transfer never reached the dongle.
TxCompleteFail(p) ==
  /\ p \in bus
  /\ bus' = bus \ {p}
  /\ live' = live \ {p}
  /\ IF ~up THEN UNCHANGED <<item, mac>>
     ELSE /\ item' = IF AFQ THEN item ELSE PopPkt(item, hslot[p])
          /\ mac' = [mac EXCEPT ![dst[p]] = BusFailed(@)]
  /\ UNCHANGED <<up, tags, queues, txq, sent, dongle, slot_pos>>

-----------------------------------------------------------------------------
(* compressed_txstatus_update for one packet.  On SDIO the DPC thread that  *)
(* reads the status is the one that completes the transfers it has sent.    *)

StatusReady(p) == p \in dongle /\ (~USB => p \notin sent)

\* The packet a status for p finds on the host, if any.
Found(p) == IF AFQ THEN IF p \in afq THEN p ELSE NoPkt ELSE item[hslot[p]].pkt

\* The host has no packet for the status (or no flow control at all).
TxStatusStale(p) ==
  /\ StatusReady(p)
  /\ ~up \/ Found(p) = NoPkt
  /\ dongle' = dongle \ {p}
  /\ item' = IF up /\ ~AFQ THEN FreePkt(item, hslot[p], {"TXSTATUS"}) ELSE item
  /\ UNCHANGED <<up, live, tags, queues, wires, slot_pos, mac>>

\* The dongle is done with the packet; a flushed packet counts as done
\* whatever the status says.
TxStatusDone(p) ==
  /\ up /\ StatusReady(p) /\ Found(p) # NoPkt
  /\ dongle' = dongle \ {p}
  /\ LET q == Found(p)
     IN  /\ live' = live \ (IF AFQ THEN {q} ELSE Freed(item, hslot[p], {"TXSTATUS"}))
         /\ item' = IF AFQ THEN item ELSE FreePkt(item, hslot[p], {"TXSTATUS"})
         /\ afq' = afq \ {q}
         /\ mac' = [mac EXCEPT ![dst[q]] = TransitDone(@, 1)]
  /\ UNCHANGED <<up, tags, delayq, suppq, wires, slot_pos>>

InTxqOrSending(e) == {p \in txq \cup bus : dst[p] = e}
\* What suppress_txq finds with entrypkt_fn.
InTxq(e) == {p \in txq : dst[p] = e}

\* The dongle suppresses the packet with generation g: it goes to the
\* suppressed queue.  The first suppression of an entry also takes back, with
\* REORDERSUPP, what is still in bus->txq for it.
TxStatusSuppress(p, g) ==
  /\ up /\ StatusReady(p) /\ Found(p) # NoPkt
  /\ ~AFQ => item[hslot[p]].state # "FLUSHED"
  /\ dongle' = dongle \ {p}
  /\ LET q == Found(p)
         e == dst[q]
         back == IF REORDERSUPP /\ ~USB /\ ~mac[e].suppressed
                 THEN InTxq(e) ELSE {}
         marked == [s \in Slot |-> IF ~AFQ /\ \E x \in back \cup {q} : hslot[x] = s
                                   THEN MarkSuppressed(item, s)[s] ELSE item[s]]
     IN  \E V \in Victims(e, "sup", back \cup {q}) :
           /\ suppq' = (suppq \cup back \cup {q}) \ V
           /\ delayq' = delayq \ V
           /\ live' = live \ V
           /\ item' = DropItems(marked, V \ delayq)
           /\ txq' = txq \ back
           /\ gen' = [x \in Pkt |-> IF x \in back \cup {q} THEN g ELSE gen[x]]
           /\ mac' = [mac EXCEPT ![e] = TakenBack(TransitDone(Suppress(@, g), 1),
                                                  Cardinality(back))]
  /\ afq' = afq \ {Found(p)}
  /\ UNCHANGED <<up, dst, hslot, bus, sent, slot_pos>>

\* suppressed_acked_update: a packet the dongle had suppressed went out after
\* all.  It passes through afq within the call (AFQ mode only: the handler
\* reads the slot number as an entry index).
TxStatusSuppressAcked(p) ==
  /\ up /\ AFQ
  /\ p \in suppq
  /\ suppq' = suppq \ {p}
  /\ live' = live \ {p}
  /\ mac' = [mac EXCEPT ![dst[p]] = SentAfterAll(@)]
  /\ UNCHANGED <<up, tags, delayq, afq, wires, dongle, hang>>

-----------------------------------------------------------------------------
(* Tear-down.  E is the set of destinations whose packets the filter         *)
(* function fn accepts (all of them when fn is NULL).                        *)

Of(S, E) == {p \in S : dst[p] \in E}
Occupied == {e \in Entry : mac[e].occupied}

\* cleanup_txq: what it frees and what it leaves of hanger and entries.
TxqFlushed(E) == IF USB THEN {} ELSE Of(txq, E)
TxqItems(E) == IF AFQ THEN item ELSE RemoveReferences(item, TxqFlushed(E))
TxqMac(E) == [e \in Entry |-> TransitDone(mac[e], Count(TxqFlushed(E), e))]

\* cleanup: txq, then psq and afq of the occupied entries, then the hanger.
PsqFlushed(E) == Of(delayq \cup suppq, E \cap Occupied)
AfqFlushed(E) == Of(afq, E \cap Occupied)
Flushed(its, E) ==
  [s \in Slot |-> IF ~AFQ /\ its[s].state \in {"INUSE", "INUSE_SUPPRESSED"}
                     /\ dst[its[s].pkt] \in E
                  THEN [its[s] EXCEPT !.state = "FLUSHED"] ELSE its[s]]
CleanupItems(E) ==
  Flushed(IF AFQ THEN item
          ELSE RemoveReferences(TxqItems(E), PsqFlushed(E) \cap suppq), E)

CleanupKeepsAfq(E) ==
  /\ txq' = txq \ TxqFlushed(E)
  /\ delayq' = delayq \ PsqFlushed(E)
  /\ suppq' = suppq \ PsqFlushed(E)
  /\ afq' = afq
CleanupQueues(E) ==
  /\ txq' = txq \ TxqFlushed(E)
  /\ delayq' = delayq \ PsqFlushed(E)
  /\ suppq' = suppq \ PsqFlushed(E)
  /\ afq' = afq \ AfqFlushed(E)
CleanupFrees(E) == TxqFlushed(E) \cup PsqFlushed(E) \cup AfqFlushed(E)
CleanupMac(E) ==
  [e \in Entry |-> TransitDone(TxqMac(E)[e], Count(AfqFlushed(E), e))]

\* dhd_wlfc_cleanup_txq(NULL): the bus stops or is flushed.
CleanupTxq ==
  /\ "CleanupTxq" \in Teardown /\ up
  /\ txq' = txq \ TxqFlushed(Entry)
  /\ live' = live \ TxqFlushed(Entry)
  /\ item' = TxqItems(Entry)
  /\ mac' = TxqMac(Entry)
  /\ UNCHANGED <<up, tags, queues, bus, sent, dongle, slot_pos>>

Vacated(ms) == [e \in Entry |-> [ms[e] EXCEPT !.occupied = @ /\ e = Other]]

\* dhd_wlfc_cleanup(NULL): the interface is stopped.
Cleanup ==
  /\ "Cleanup" \in Teardown /\ up
  /\ CleanupQueues(Entry)
  /\ live' = live \ CleanupFrees(Entry)
  /\ item' = CleanupItems(Entry)
  /\ mac' = Vacated(CleanupMac(Entry))
  /\ UNCHANGED <<up, tags, bus, sent, dongle, slot_pos>>

\* mac_entry_update(DEL), from a TLV or an interface event.
MacDel(e) ==
  /\ "MacDel" \in Teardown /\ up
  /\ e # Other /\ mac[e].occupied
  /\ CleanupQueues({e})
  /\ live' = live \ CleanupFrees({e})
  /\ item' = CleanupItems({e})
  /\ mac' = [CleanupMac({e}) EXCEPT ![e].occupied = FALSE]
  /\ UNCHANGED <<up, tags, bus, sent, dongle, slot_pos>>

\* mac_entry_update(ADD): counters restart, pktq_init forgets psq and afq.
MacAdd(e) ==
  /\ up /\ ~mac[e].occupied
  /\ mac' = [mac EXCEPT ![e] = EntryAdded(@)]
  /\ delayq' = delayq \ Of(delayq, {e})
  /\ suppq' = suppq \ Of(suppq, {e})
  /\ afq' = IF AFQ THEN afq \ Of(afq, {e}) ELSE afq
  /\ UNCHANGED <<up, live, tags, wires, dongle, hang>>

\* dhd_wlfc_deinit: cleanup, then every item that is left frees its packet.
Deinit ==
  /\ "Deinit" \in Teardown /\ up
  /\ up' = FALSE
  /\ CleanupQueues(Entry)
  /\ live' = live \ (CleanupFrees(Entry)
                      \cup {CleanupItems(Entry)[s].pkt : s \in Slot})
  /\ item' = [s \in Slot |-> FreeItem]
  /\ mac' = Vacated(CleanupMac(Entry))
  /\ UNCHANGED <<tags, bus, sent, dongle, slot_pos>>

-----------------------------------------------------------------------------
Next ==
  \/ \E p \in Pkt : \/ \E e \in Entry : CommitPackets(p, e)
                     \/ SendFromQ(p) \/ BusArrive(p)
                     \/ TxCompleteOk(p) \/ TxCompleteFail(p)
                     \/ TxStatusStale(p) \/ TxStatusDone(p)
                     \/ \E g \in 0 .. 1 : TxStatusSuppress(p, g)
                     \/ TxStatusSuppressAcked(p)
  \/ \E e \in Entry : \/ TransferPacket(e) \/ TransferRollback(e)
                       \/ MacDel(e) \/ MacAdd(e)
  \/ CleanupTxq \/ Cleanup \/ Deinit

Spec == Init /\ [][Next]_vars

\* Transfers end, transfers are completed, and the dongle answers.
FairSpec ==
  /\ Spec
  /\ \A p \in Pkt : /\ WF_vars(SendFromQ(p))
                   /\ WF_vars(BusArrive(p) \/ TxCompleteFail(p))
                   /\ WF_vars(TxCompleteOk(p))
                   /\ WF_vars(\/ TxStatusStale(p) \/ TxStatusDone(p)
                              \/ \E g \in 0 .. 1 : TxStatusSuppress(p, g))

-----------------------------------------------------------------------------
(* Properties. *)

ItemState == {"FREE", "INUSE", "INUSE_SUPPRESSED", "FLUSHED"}
MacRecord == [occupied : BOOLEAN, generation : 0 .. 1, suppressed : BOOLEAN,
              transit_count : Nat, suppr_transit_count : Nat,
              onbus_pkts_count : Nat]

\* Every variable keeps the shape of the field it stands for.
TypeOK ==
  /\ up \in BOOLEAN
  /\ dst \in [Pkt -> Entry] /\ hslot \in [Pkt -> Slot] /\ gen \in [Pkt -> 0 .. 1]
  /\ live \in SUBSET Pkt /\ dongle \in SUBSET Pkt
  /\ delayq \in SUBSET Pkt /\ suppq \in SUBSET Pkt /\ afq \in SUBSET Pkt
  /\ txq \in SUBSET Pkt /\ bus \in SUBSET Pkt /\ sent \in SUBSET Pkt
  /\ item \in [Slot -> [state : ItemState, pkt : Pkt \cup {NoPkt},
                        pkt_state : SUBSET Complete]]
  /\ slot_pos \in Slot
  /\ mac \in [Entry -> MacRecord]

Hung == {item[s].pkt : s \in Slot} \ {NoPkt}

\* No queue, bus or hanger slot keeps a pointer to a packet after PKTFREE: a
\* completion, a status or a flush would otherwise free it a second time.
NoDanglingPacket == delayq \cup suppq \cup afq \cup OnBus \cup Hung \subseteq live

\* No packet is lost: what the driver has accepted and not freed is always in
\* a queue, with the bus or hung, so some later event can free it.
NoLostPacket == live \subseteq delayq \cup suppq \cup afq \cup OnBus \cup Hung

\* A packet is queued, at the firmware or with the bus, in one place at a
\* time; only a packet the dongle suppressed before its bus completion came
\* (USB) may be queued again while the bus still has it.
QueuedOnce ==
  /\ delayq \cap (suppq \cup afq \cup OnBus \cup dongle) = {}
  /\ afq \cap (suppq \cup OnBus) = {}
  /\ suppq \cap dongle = {}
  /\ ~USB => suppq \cap OnBus = {}

\* The transfer loop never hands the bus a packet that the bus still has: the
\* entry stays suppressed until its bus completions are in.
NoResubmit == [][\A p \in suppq \cap OnBus : p \in live' => p \in suppq']_vars

\* In hanger mode a slot is reused only when neither the bus nor the dongle
\* will mention it again, so a completion or status always meets its packet.
SlotMatchesPacket ==
  ~AFQ => \A p \in OnBus \cup dongle \cup suppq : item[hslot[p]].pkt = p

\* onbus_pkts_count is the number of packets "sent to bus but no bus TX complete
\* yet", and transit_count the number on the way to the dongle and at it: the two
\* counters that gate the transfer loop and the end of a suppression.
OnbusCounted == \A e \in Entry : mac[e].onbus_pkts_count = Count(OnBus, e)
TransitCounted ==
  \A e \in Entry : mac[e].transit_count = Count(txq \cup bus \cup dongle, e)
CountersExact == TransitCounted /\ OnbusCounted

\* A suppressed entry is always waiting for something that is on its way:
\* nothing else would ever resume it.
SuppressionPending ==
  \A e \in Entry : mac[e].suppressed =>
    Count(OnBus, e) > 0 \/ mac[e].suppr_transit_count \in 1 .. Count(txq \cup bus \cup dongle, e)

\* A suppressed destination is eventually resumed.
SuppressionEnds == \A e \in Entry : mac[e].suppressed ~> ~mac[e].suppressed
=============================================================================
