------------------------------ MODULE FlowRing ------------------------------
(***************************************************************************)
(* The flow rings of the PCIe bus (dhd_flowring.c, dhd_pcie.c,             *)
(* dhd_msgbuf.c): for an access point a ring to the dongle for each        *)
(* station that packets go to, for a station one ring, to its access       *)
(* point.  The first packet for a peer takes a flow id and asks the dongle *)
(* to create the ring; packets wait in the ring's queue until there is     *)
(* room in the ring; a peer that leaves, or the deletion of the interface, *)
(* asks the dongle to delete it; the answers come to the DPC, in order.    *)
(*                                                                         *)
(* An action is a stretch of code under one lock (flowid_lock, the lock of *)
(* a flow ring, the list's, the control ring's) or an unlocked access.     *)
(* Packets are counted.  One priority, an interface that keeps its role; no *)
(* TDLS peers, high throughput rings, idle flow management, flush (an      *)
(* iovar) or lossless roaming.  The definitions marked as slips are faulty *)
(* variants that nobody uses.                                              *)
(***************************************************************************)
EXTENDS Integers, Sequences, FiniteSets, SequencesExt, FiniteSetsExt

CONSTANTS
  NumPeers,    \* the most stations there are
  NumIds,      \* the most flow ids there are
  MaxSetup,    \* bound on the stations and flow ids together
  Sender,      \* threads in dhd_start_xmit or dhd_sendpkt
  QUEUE,       \* the packets a queue holds
  RING,        \* the items a ring holds
  BOUND,       \* tx_post_bound
  CTRL,        \* the messages the control ring holds
  MaxPackets,  \* bound on the packets sent
  MaxGone      \* bound on the deletions asked for

ASSUME FlowAssumption ==
  /\ NumPeers \in Nat /\ NumIds \in Nat /\ MaxSetup \in Nat /\ QUEUE \in Nat \ {0} /\ RING \in Nat \ {0} /\ BOUND \in Nat \ {0}
  /\ CTRL \in Nat \ {0}
  /\ MaxPackets \in Nat /\ MaxGone \in Nat

Id == 1 .. NumIds
Peer == 1 .. NumPeers
Deleter == {"event", "user"}

VARIABLES
  free_ids,     \* the stack of flowid_allocator
  fl_hash,      \* the flow ids in the hash bucket of each peer
  node,         \* status, active and the peer of each flow ring
  inited,       \* the msgbuf ring is fetched from the pool
  qlen,         \* queue.len
  on_ring,      \* the items the dongle has not taken yet
  active_list,  \* flowring_active_list
  station,      \* is each peer in the interface's list of stations
  max_flowid,   \* the flow ids the dongle has room for
  role,         \* of the interface, "AP" or "STA"
  sender,       \* where each sender is
  deleter,      \* where the two threads that delete rings are
  ctrl,         \* the control messages the host has not seen answered
  dev,          \* the rings the dongle has
  dpc,          \* where the DPC is
  intr_pend,    \* it has been scheduled
  sent, gone,   \* the packets and deletions so far
  overwritten   \* history: the ids whose entry in the hash table was overwritten

ringVars == <<node, inited, qlen, on_ring, active_list>>
idVars == <<free_ids, fl_hash, overwritten>>
ctrlVars == <<ctrl, dev>>
dpcVars == <<dpc, intr_pend>>
setupVars == <<station, max_flowid, role>>
boundVars == <<sent, gone>>
flowVars == <<idVars, ringVars, setupVars, sender, deleter, ctrlVars, dpcVars, boundVars>>

NoPeer == 0
AtRest == [at |-> "idle", peer |-> NoPeer, id |-> 0, pend |-> FALSE]

FlowInit ==
  /\ max_flowid \in Id
  /\ role \in {"AP", "STA"}
  /\ \E n \in Peer :
       /\ max_flowid + n = MaxSetup /\ (role = "STA" => n = 1)
       /\ station = [p \in Peer |-> IF p <= n THEN "associated" ELSE "absent"]
  /\ free_ids = [i \in 1 .. max_flowid |-> i]
  /\ fl_hash = [p \in Peer |-> <<>>] /\ overwritten = {}
  /\ node = [i \in Id |-> [status |-> "CLOSED", active |-> FALSE, peer |-> NoPeer]]
  /\ inited = [i \in Id |-> FALSE]
  /\ qlen = [i \in Id |-> 0] /\ on_ring = [i \in Id |-> 0]
  /\ active_list = <<>>
  /\ sender = [s \in Sender |-> AtRest]
  /\ deleter = [d \in Deleter |-> [at |-> "idle", todo |-> {}, peers |-> {}, id |-> 0]]
  /\ ctrl = <<>> /\ dev = {}
  /\ dpc = [at |-> "idle", id |-> 0, todo |-> <<>>, more |-> FALSE]
  /\ intr_pend = FALSE
  /\ sent = 0 /\ gone = 0

----------------------------------------------------------------------------
(* dhd_bus_schedule_queue: from the queue to the ring, at most bound.      *)

Open(i) == node[i].status = "OPEN"
Posted(i, bound) ==
  IF Open(i) THEN Min({qlen[i], RING - on_ring[i], bound}) ELSE 0

Push(i, bound) ==
  /\ qlen' = [qlen EXCEPT ![i] = @ - Posted(i, bound)]
  /\ on_ring' = [on_ring EXCEPT ![i] = @ + Posted(i, bound)]

\* The caller's 0 is no bound.
NoBound == QUEUE

----------------------------------------------------------------------------
(* A packet: dhd_flowid_lookup, then dhd_bus_txdata.                       *)

SenderTo(s, at) == sender' = [sender EXCEPT ![s].at = at]
SenderDone(s) == sender' = [sender EXCEPT ![s] = AtRest]

\* dhd_flowid_find.  No ring is made for a station that is not associated, nor
\* without a link.
FindFlow(s, p) ==
  /\ sender[s].at = "idle" /\ sent < MaxPackets
  /\ sent' = sent + 1
  /\ sender' = [sender EXCEPT ![s] =
       CASE fl_hash[p] /= <<>> -> [AtRest EXCEPT !.at = "found", !.peer = p, !.id = Head(fl_hash[p])]
         [] fl_hash[p] = <<>> /\ station[p] = "associated" -> [AtRest EXCEPT !.at = "alloc", !.peer = p]
         [] OTHER -> AtRest]
  /\ UNCHANGED <<idVars, ringVars, setupVars, deleter, ctrlVars, dpcVars, gone>>

AllocId(s) ==
  /\ sender[s].at = "alloc"
  /\ IF free_ids = <<>>
     THEN SenderDone(s) /\ UNCHANGED free_ids
     ELSE /\ sender' = [sender EXCEPT ![s].at = "insert", ![s].id = Last(free_ids)]
          /\ free_ids' = Front(free_ids)
  /\ UNCHANGED <<fl_hash, overwritten, ringVars, setupVars, deleter, ctrlVars, dpcVars, boundVars>>

\* A second hold of flowid_lock: the end of the bucket's list, of a station
\* the bucket itself, whatever another sender has entered meanwhile.
InsertId(s) ==
  LET p == sender[s].peer
  IN  /\ sender[s].at = "insert"
      /\ \/ /\ role = "AP"
            /\ fl_hash' = [fl_hash EXCEPT ![p] = Append(@, sender[s].id)]
            /\ UNCHANGED overwritten
         \/ /\ role = "STA"
            /\ fl_hash' = [fl_hash EXCEPT ![p] = <<sender[s].id>>]
            /\ overwritten' = overwritten \cup ToSet(fl_hash[p])
      /\ SenderTo(s, "init")
      /\ UNCHANGED <<free_ids, ringVars, setupVars, deleter, ctrlVars, dpcVars, boundVars>>

InitNode(s) ==
  /\ sender[s].at = "init"
  /\ node' = [node EXCEPT ![sender[s].id] =
       [status |-> "CREATE_PENDING", active |-> TRUE, peer |-> sender[s].peer]]
  /\ SenderTo(s, "create")
  /\ UNCHANGED <<idVars, inited, qlen, on_ring, active_list, setupVars, deleter,
                 ctrlVars, dpcVars, boundVars>>

\* dhd_prot_flow_ring_create; the message waits in the control ring.
CreateRequest(s) ==
  /\ sender[s].at = "create" /\ Len(ctrl) < CTRL
  /\ inited' = [inited EXCEPT ![sender[s].id] = TRUE]
  /\ on_ring' = [on_ring EXCEPT ![sender[s].id] = 0]
  /\ ctrl' = Append(ctrl, <<"CREATE", sender[s].id>>)
  /\ SenderTo(s, "txdata")
  /\ UNCHANGED <<idVars, node, qlen, active_list, setupVars, deleter, dev, dpcVars,
                 boundVars>>

\* No room in the control ring: the msgbuf ring goes back to the pool.
CreateNoSpace(s) ==
  /\ sender[s].at = "create" /\ Len(ctrl) >= CTRL
  /\ inited' = [inited EXCEPT ![sender[s].id] = FALSE]
  /\ on_ring' = [on_ring EXCEPT ![sender[s].id] = 0]
  /\ SenderTo(s, "failed")
  /\ UNCHANGED <<idVars, node, qlen, active_list, setupVars, deleter, ctrlVars,
                 dpcVars, boundVars>>

\* A slip: the id goes back to the stack too.
CreateFailedFreed(s) ==
  /\ sender[s].at = "failed"
  /\ node' = [node EXCEPT ![sender[s].id].status = "CLOSED",
                          ![sender[s].id].active = FALSE]
  /\ free_ids' = Append(free_ids, sender[s].id)
  /\ SenderDone(s)
  /\ UNCHANGED <<fl_hash, overwritten, inited, qlen, on_ring, active_list, setupVars, deleter,
                 ctrlVars, dpcVars, boundVars>>

\* The flow id stays in the hash table.
CreateFailed(s) ==
  /\ sender[s].at = "failed"
  /\ node' = [node EXCEPT ![sender[s].id].status = "CLOSED",
                          ![sender[s].id].active = FALSE]
  /\ SenderDone(s)
  /\ UNCHANGED <<idVars, inited, qlen, on_ring, active_list, setupVars, deleter,
                 ctrlVars, dpcVars, boundVars>>

LookupStatus(s) ==
  /\ sender[s].at = "found"
  /\ IF node[sender[s].id].status \in {"DELETE_PENDING", "CLOSED"}
     THEN SenderDone(s) ELSE SenderTo(s, "txdata")
  /\ UNCHANGED <<idVars, ringVars, setupVars, deleter, ctrlVars, dpcVars, boundVars>>

\* The status is checked once more, and the packet queued if it may be.
TxData(s) ==
  LET i == sender[s].id
      full == qlen[i] >= QUEUE
  IN  /\ sender[s].at = "txdata"
      /\ IF ~node[i].active \/ node[i].status = "DELETE_PENDING"
         THEN SenderDone(s) /\ UNCHANGED qlen
         ELSE /\ qlen' = [qlen EXCEPT ![i] = IF full THEN @ ELSE @ + 1]
              /\ sender' = [sender EXCEPT ![s].at = "look", ![s].pend = full]
      /\ UNCHANGED <<idVars, node, inited, on_ring, active_list, setupVars, deleter,
                     ctrlVars, dpcVars, boundVars>>

\* Without the lock: a ring that is not open is left to the DPC.
LookStatus(s) ==
  /\ sender[s].at = "look"
  /\ IF Open(sender[s].id) THEN SenderTo(s, "push") ELSE SenderDone(s)
  /\ UNCHANGED <<idVars, ringVars, setupVars, deleter, ctrlVars, dpcVars, boundVars>>

PushQueue(s) ==
  /\ sender[s].at = "push"
  /\ Push(sender[s].id, NoBound)
  /\ IF sender[s].pend THEN SenderTo(s, "again") ELSE SenderDone(s)
  /\ UNCHANGED <<idVars, node, inited, active_list, setupVars, deleter, ctrlVars,
                 dpcVars, boundVars>>

\* A packet the full queue had refused is queued now, whatever the status.
QueueAgain(s) ==
  /\ sender[s].at = "again"
  /\ qlen' = [qlen EXCEPT ![sender[s].id] = Min({@ + 1, QUEUE})]
  /\ SenderDone(s)
  /\ UNCHANGED <<idVars, node, inited, on_ring, active_list, setupVars, deleter,
                 ctrlVars, dpcVars, boundVars>>

FlowSenderStep(s) ==
  \/ AllocId(s) \/ InsertId(s) \/ InitNode(s)
  \/ CreateRequest(s) \/ CreateNoSpace(s) \/ CreateFailed(s)
  \/ LookupStatus(s) \/ TxData(s) \/ LookStatus(s) \/ PushQueue(s) \/ QueueAgain(s)

----------------------------------------------------------------------------
(* Deletion: an event of the dongle, in the DPC, when a peer leaves        *)
(* (dhd_flow_rings_delete_for_peer, of a station dhd_flow_rings_delete),   *)
(* or a thread that deletes the interface (dhd_flow_rings_delete).         *)

DeleterTo(d, at) == deleter' = [deleter EXCEPT ![d].at = at]
DeleterBack(d) == deleter' = [deleter EXCEPT ![d].at = "scan", ![d].id = 0]

PeerGone(p) ==
  /\ dpc.at = "idle" /\ station[p] = "associated" /\ gone < MaxGone
  /\ station' = [station EXCEPT ![p] = "left"]
  /\ deleter' = [deleter EXCEPT !["event"] =
       [at |-> "scan", todo |-> Id, peers |-> {p}, id |-> 0]]
  /\ dpc' = [dpc EXCEPT !.at = "event"]
  /\ gone' = gone + 1
  /\ UNCHANGED <<idVars, ringVars, max_flowid, role, sender, ctrlVars, intr_pend, sent>>

PeerBack(p) ==
  /\ dpc.at = "idle" /\ station[p] = "left"
  /\ station' = [station EXCEPT ![p] = "associated"]
  /\ UNCHANGED <<idVars, ringVars, max_flowid, role, sender, deleter, ctrlVars, dpcVars, boundVars>>

IfaceDelete ==
  /\ deleter["user"].at = "idle" /\ gone < MaxGone
  /\ deleter' = [deleter EXCEPT !["user"] =
       [at |-> "scan", todo |-> Id, peers |-> Peer, id |-> 0]]
  /\ gone' = gone + 1
  /\ UNCHANGED <<idVars, ringVars, setupVars, sender, ctrlVars, dpcVars, sent>>

\* The table is read without a lock.
Doomed(d, i) ==
  /\ node[i].active /\ node[i].peer \in deleter[d].peers
  /\ node[i].status \in IF d = "event" /\ role = "AP" THEN {"OPEN", "CREATE_PENDING"} ELSE {"OPEN"}

ScanRing(d) ==
  /\ deleter[d].at = "scan" /\ deleter[d].todo /= {}
  /\ LET i == Min(deleter[d].todo)
     IN  deleter' = [deleter EXCEPT ![d].todo = @ \ {i},
                       ![d].id = IF Doomed(d, i) THEN i ELSE 0,
                       ![d].at = IF Doomed(d, i) THEN "request" ELSE "scan"]
  /\ UNCHANGED <<idVars, ringVars, setupVars, sender, ctrlVars, dpcVars, boundVars>>

ScanEnd(d) ==
  /\ deleter[d].at = "scan" /\ deleter[d].todo = {}
  /\ deleter' = [deleter EXCEPT ![d] = [at |-> "idle", todo |-> {}, peers |-> {}, id |-> 0]]
  /\ dpc' = IF d = "event" THEN [dpc EXCEPT !.at = "idle"] ELSE dpc
  /\ UNCHANGED <<idVars, ringVars, setupVars, sender, ctrlVars, intr_pend, boundVars>>

\* dhd_bus_flow_ring_delete_request, under the ring's lock.
DeletePending(d) ==
  LET i == deleter[d].id
  IN  /\ deleter[d].at = "request"
      /\ IF node[i].status = "DELETE_PENDING"
         THEN DeleterBack(d) /\ UNCHANGED <<node, qlen>>
         ELSE /\ node' = [node EXCEPT ![i].status = "DELETE_PENDING"]
              /\ qlen' = [qlen EXCEPT ![i] = 0]
              /\ DeleterTo(d, "send")
      /\ UNCHANGED <<idVars, inited, on_ring, active_list, setupVars, sender, ctrlVars,
                     dpcVars, boundVars>>

SendDelete(d) ==
  /\ deleter[d].at = "send" /\ Len(ctrl) < CTRL
  /\ ctrl' = Append(ctrl, <<"DELETE", deleter[d].id>>)
  /\ DeleterBack(d)
  /\ UNCHANGED <<idVars, ringVars, setupVars, sender, dev, dpcVars, boundVars>>

\* No room in the control ring; nobody looks at the result.
SendDeleteNoSpace(d) ==
  /\ deleter[d].at = "send" /\ Len(ctrl) >= CTRL
  /\ DeleterBack(d)
  /\ UNCHANGED <<idVars, ringVars, setupVars, sender, ctrlVars, dpcVars, boundVars>>

FlowDeleterStep(d) ==
  ScanRing(d) \/ ScanEnd(d) \/ DeletePending(d) \/ SendDelete(d) \/ SendDeleteNoSpace(d)

----------------------------------------------------------------------------
(* The dongle.  It answers the control messages in order, may fail to      *)
(* create a ring and refuses to delete one that it does not have; here it  *)
(* answers when the DPC reads the answer.                                  *)

Created(i) == ctrl /= <<>> /\ Head(ctrl) = <<"CREATE", i>>
Deleted(i) == ctrl /= <<>> /\ Head(ctrl) = <<"DELETE", i>>

DongleTakes(i) ==
  /\ i \in dev /\ on_ring[i] > 0
  /\ on_ring' = [on_ring EXCEPT ![i] = @ - 1]
  /\ intr_pend' = TRUE
  /\ UNCHANGED <<idVars, node, inited, qlen, active_list, setupVars, sender, deleter,
                 ctrlVars, dpc, boundVars>>

DongleStep == \E i \in Id : DongleTakes(i)

----------------------------------------------------------------------------
(* The DPC: the control completions, then the active rings.                *)

DpcTo(at) == dpc' = [dpc EXCEPT !.at = at]
DpcBack == dpc' = [dpc EXCEPT !.at = "ctrl", !.id = 0]

\* The places of an id in a list, and the list without the first of them.
At(list, i) == {k \in DOMAIN list : list[k] = i}
Without(list, i) == IF At(list, i) = {} THEN list ELSE RemoveAt(list, Min(At(list, i)))

FlowDpcBegin ==
  /\ dpc.at = "idle" /\ (intr_pend \/ ctrl /= <<>>)
  /\ intr_pend' = FALSE
  /\ DpcTo("ctrl")
  /\ UNCHANGED <<idVars, ringVars, setupVars, sender, deleter, ctrlVars, boundVars>>

\* dhd_bus_flow_ring_create_response.  A deletion asked for meanwhile is
\* forgotten until its own answer comes.
CreateResponse(i) ==
  /\ dpc.at = "ctrl" /\ Created(i)
  /\ node' = [node EXCEPT ![i].status = "OPEN"]
  /\ dpc' = [dpc EXCEPT !.at = "opened", !.id = i]
  /\ ctrl' = Tail(ctrl) /\ dev' = dev \cup {i}
  /\ UNCHANGED <<idVars, inited, qlen, on_ring, active_list, setupVars, sender, deleter,
                 intr_pend, boundVars>>

\* A slip: the ring that is open now is neither pushed nor listed.
PushOpenedLeft ==
  /\ dpc.at = "opened"
  /\ DpcBack
  /\ UNCHANGED <<idVars, ringVars, setupVars, sender, deleter, ctrlVars, intr_pend, boundVars>>

\* The active list is the DPC's own.
PushOpened ==
  /\ dpc.at = "opened"
  /\ active_list' = <<dpc.id>> \o active_list
  /\ Push(dpc.id, NoBound)
  /\ DpcBack
  /\ UNCHANGED <<idVars, node, inited, setupVars, sender, deleter, ctrlVars,
                 intr_pend, boundVars>>

DeleteRefused(i) ==
  /\ dpc.at = "ctrl" /\ Deleted(i) /\ i \notin dev
  /\ ctrl' = Tail(ctrl)
  /\ UNCHANGED <<idVars, ringVars, setupVars, sender, deleter, dev, dpcVars, boundVars>>

\* dhd_bus_clean_flow_ring: a ring that was deleted or could not be created.
CleanClose(i) ==
  /\ dpc.at = "ctrl"
  /\ Created(i) \/ (Deleted(i) /\ i \in dev)
  /\ qlen' = [qlen EXCEPT ![i] = 0]
  /\ node' = [node EXCEPT ![i].status = "CLOSED", ![i].active = FALSE]
  /\ dpc' = [dpc EXCEPT !.at = "closed", !.id = i]
  /\ ctrl' = Tail(ctrl) /\ dev' = dev \ {i}
  /\ UNCHANGED <<idVars, inited, on_ring, active_list, setupVars, sender, deleter,
                 intr_pend, boundVars>>

\* A slip: the ring stays listed.
CleanFreeListed ==
  /\ dpc.at = "closed"
  /\ inited' = [inited EXCEPT ![dpc.id] = FALSE]
  /\ on_ring' = [on_ring EXCEPT ![dpc.id] = 0]
  /\ fl_hash' = [p \in Peer |-> Without(fl_hash[p], dpc.id)]
  /\ free_ids' = Append(free_ids, dpc.id)
  /\ DpcBack
  /\ UNCHANGED <<overwritten, node, qlen, active_list, setupVars, sender, deleter, ctrlVars,
                 intr_pend, boundVars>>

\* Off the list, back to the pool, and dhd_flowid_free: out of the first
\* bucket that has the id, which is not freed if there is none.  The order
\* of the buckets comes from the addresses.
CleanFree ==
  LET found == {p \in Peer : At(fl_hash[p], dpc.id) /= {}}
  IN  /\ dpc.at = "closed"
      /\ active_list' = Without(active_list, dpc.id)
      /\ inited' = [inited EXCEPT ![dpc.id] = FALSE]
      /\ on_ring' = [on_ring EXCEPT ![dpc.id] = 0]
      /\ IF found = {}
         THEN UNCHANGED idVars
         ELSE /\ \E p \in found : fl_hash' = [fl_hash EXCEPT ![p] = Without(@, dpc.id)]
              /\ free_ids' = Append(free_ids, dpc.id)
              /\ UNCHANGED overwritten
      /\ DpcBack
      /\ UNCHANGED <<node, qlen, setupVars, sender, deleter, ctrlVars, intr_pend,
                     boundVars>>

CtrlEnd ==
  /\ dpc.at = "ctrl" /\ ctrl = <<>>
  /\ dpc' = [at |-> "rings", id |-> 0, todo |-> active_list, more |-> FALSE]
  /\ UNCHANGED <<idVars, ringVars, setupVars, sender, deleter, ctrlVars, intr_pend, boundVars>>

\* dhd_update_txflowrings: the last ring of the list alone says whether
\* there is more to do.
UpdateRing ==
  /\ dpc.at = "rings" /\ dpc.todo /= <<>>
  /\ LET i == Head(dpc.todo)
     IN  /\ Push(i, BOUND)
         /\ dpc' = [dpc EXCEPT !.todo = Tail(@), !.more = Open(i) /\ qlen'[i] > 0]
  /\ UNCHANGED <<idVars, node, inited, active_list, setupVars, sender, deleter,
                 ctrlVars, intr_pend, boundVars>>

FlowDpcEnd ==
  /\ dpc.at = "rings" /\ dpc.todo = <<>>
  /\ intr_pend' = (intr_pend \/ dpc.more)
  /\ dpc' = [at |-> "idle", id |-> 0, todo |-> <<>>, more |-> FALSE]
  /\ UNCHANGED <<idVars, ringVars, setupVars, sender, deleter, ctrlVars, boundVars>>

FlowDpcStep ==
  \/ \E i \in Id : CreateResponse(i) \/ DeleteRefused(i) \/ CleanClose(i)
  \/ FlowDpcBegin \/ PushOpened \/ CleanFree
  \/ CtrlEnd \/ UpdateRing \/ FlowDpcEnd

----------------------------------------------------------------------------
FlowNext ==
  \/ \E s \in Sender : (\E p \in Peer : FindFlow(s, p)) \/ FlowSenderStep(s)
  \/ \E p \in Peer : PeerGone(p) \/ PeerBack(p)
  \/ IfaceDelete
  \/ \E d \in Deleter : FlowDeleterStep(d)
  \/ DongleStep
  \/ FlowDpcStep

FlowSpec == FlowInit /\ [][FlowNext]_flowVars

\* Threads that have begun go on, and a dongle that works takes the items
\* of its rings.
FlowFairness ==
  /\ \A s \in Sender : WF_flowVars(FlowSenderStep(s))
  /\ WF_flowVars(FlowDeleterStep("user"))
  /\ WF_flowVars(FlowDpcStep \/ FlowDeleterStep("event"))
  /\ WF_flowVars(DongleStep)

FlowFairSpec == FlowSpec /\ FlowFairness

----------------------------------------------------------------------------
(* Properties.                                                             *)

\* Where an id is: on the stack, in the buckets, with senders.
OnStack(i) == {<<"stack", NoPeer, k>> : k \in At(free_ids, i)}
InBuckets(i) == UNION {{<<"bucket", p, k>> : k \in At(fl_hash[p], i)} : p \in Peer}
WithSenders(i) ==
  {<<"sender", NoPeer, s>> : s \in {t \in Sender : sender[t].at = "insert" /\ sender[t].id = i}}
Places(i) == OnStack(i) \cup InBuckets(i) \cup WithSenders(i)

\* Code: an id is taken, entered in the hash table and returned under
\* separate holds of flowid_lock, by any number of senders and by the DPC.
\* Each id is in one place: on the stack, once in one bucket, or with one
\* sender that is about to enter it.  The exception is a station's id that
\* another sender has overwritten: it is nowhere, and never comes back, since
\* dhd_flowid_free does not find it when its ring is deleted.
IdOwnership ==
  \A i \in 1 .. max_flowid :
    Cardinality(Places(i)) = IF role = "STA" /\ i \in overwritten THEN 0 ELSE 1

\* Code: dhd_bus_schedule_queue writes to the msgbuf ring of any flow ring
\* that is open, and dhd_update_txflowrings walks the active list, while the
\* DPC, the senders and those who delete take rings from the pool and give
\* them back.  An open or listed ring is fetched, and listed only once.
RingHeld ==
  \A i \in Id :
    /\ Open(i) => inited[i] /\ node[i].active
    /\ Cardinality(At(active_list, i)) <= 1
    /\ At(active_list, i) /= {} => inited[i]

\* Code: a packet is queued under the lock and the status read without it,
\* and a ring that fills is left to the DPC, which may stop although a ring
\* has more to send.  Still the queue of an open ring is sent, as long as no
\* packet is queued the second time, for which nobody looks again.
QueueDrains ==
  [](\A s \in Sender : sender[s].at /= "again") =>
    \A i \in Id : Open(i) /\ qlen[i] > 0 ~> ~Open(i) \/ qlen[i] = 0
=============================================================================
