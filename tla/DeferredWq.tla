----------------------------- MODULE DeferredWq -----------------------------
(***************************************************************************)
(* The deferred work queue (dhd_linux_wq.c) and the interface events that  *)
(* go through it (dhd_linux.c).  Callers put records into two byte FIFOs   *)
(* of the kernel, one per priority; one work item takes them out, the high *)
(* priority first, and calls their handlers.  A caller looks for room      *)
(* before it takes work_lock, so two of them may count on the same room;   *)
(* kfifo_in then copies what fits.                                         *)
(*                                                                         *)
(* The firmware's events add and delete an interface; the network stack    *)
(* asks for its MAC address to be set and for its features to be updated.  *)
(* A handler may fail, and no caller and nobody else tries again.  What    *)
(* the other threads that change the interface list do (the cfg80211       *)
(* commands that wait for an event themselves, dhd_stop) is one action.    *)
(* Not modelled: the skip mask and the release of the queue, and           *)
(* dhd->pub.up, which a handler may find either way.  The definitions      *)
(* marked as slips are faulty variants that nobody uses.                   *)
(***************************************************************************)
EXTENDS Integers, Sequences, FiniteSets, SequencesExt, FiniteSetsExt

CONSTANTS
  Stack,      \* threads of the network stack that post events
  REC,        \* DEFRD_EVT_SIZE, in units of which the FIFOs hold several
  FIFO_SIZE,  \* the units a FIFO holds
  MaxEvents   \* bound on the events posted; behind it nothing new is asked for

Prio == {"HIGH", "LOW"}
EventThread == "event thread"
Caller == Stack \cup {EventThread}

ASSUME WqAssumption ==
  /\ REC \in Nat \ {0} /\ FIFO_SIZE \in Nat \ {0} /\ MaxEvents \in Nat
  /\ EventThread \notin Stack

\* What the comment on dhd_deferred_event_t asks for, and its padding gives: a
\* FIFO, whose length is a power of 2, holds a whole number of records.
ASSUME WholeRecords == FIFO_SIZE % REC = 0

VARIABLES
  fifo,       \* the units in each FIFO: <<event, part of its record>>
  posted,     \* the kinds of the events posted so far
  caller,     \* where each caller is, and with which event
  accepted,   \* the events for which DHD_WQ_STS_OK was returned, by priority
  handled,    \* the events whose handler was called, by priority
  work_pending,       \* the work item is pending
  handler,    \* where dhd_deferred_work_handler is, and its event
  fw_if,      \* the firmware has the interface
  if_present, \* iflist has it
  set_mac     \* ifp->set_macaddress

\* History: what the properties have to know of earlier steps.
VARIABLES
  last_if,    \* the event that reports the firmware's last change, 0 when there is
              \* none, its handler has failed or another thread has changed the list
  last_mac    \* the event for the last address asked for, 0 when there is none or
              \* its handler has failed

queueVars == <<fifo, posted, accepted, handled, work_pending>>
historyVars == <<last_if, last_mac>>
ifVars == <<fw_if, if_present, set_mac, historyVars>>
wqVars == <<queueVars, caller, handler, ifVars>>

\* A slip: a deletion goes ahead of the addition before it.
PrioOfUrgent(kind) == IF kind \in {"UPD_FEATURES", "IF_DEL"} THEN "HIGH" ELSE "LOW"

PrioOf(kind) == IF kind = "UPD_FEATURES" THEN "HIGH" ELSE "LOW"
Room(p) == FIFO_SIZE - Len(fifo[p])
More == Len(posted) < MaxEvents
Idle == [at |-> "idle", ev |-> 0]

WqInit ==
  /\ fifo = [p \in Prio |-> <<>>]
  /\ posted = <<>>
  /\ caller = [c \in Caller |-> Idle]
  /\ accepted = [p \in Prio |-> <<>>] /\ handled = [p \in Prio |-> <<>>]
  /\ work_pending = FALSE
  /\ handler = Idle
  /\ fw_if = FALSE /\ if_present = FALSE /\ set_mac = FALSE
  /\ last_if = 0 /\ last_mac = 0

----------------------------------------------------------------------------
(* dhd_deferred_schedule_work.                                             *)

\* The look for room, without the lock.  A full FIFO ends the call.
Post(c, kind) ==
  /\ caller[c].at = "idle" /\ More
  /\ posted' = Append(posted, kind)
  /\ caller' = [caller EXCEPT ![c] =
       IF Room(PrioOf(kind)) >= REC THEN [at |-> "copy", ev |-> Len(posted) + 1] ELSE @]
  /\ UNCHANGED <<fifo, accepted, handled, work_pending, handler>>

\* dhd_event_ifadd and dhd_event_ifdel: the firmware has changed already.
PostIfEvent ==
  /\ fw_if' = ~fw_if
  /\ last_if' = Len(posted) + 1
  /\ Post(EventThread, IF fw_if THEN "IF_DEL" ELSE "IF_ADD")
  /\ UNCHANGED <<if_present, set_mac, last_mac>>

\* Their returns before the post: a cfg80211 command that waits for the event has
\* taken it, or there is no memory for its copy.
IfEventNotPosted ==
  /\ caller[EventThread].at = "idle" /\ More
  /\ fw_if' = ~fw_if
  /\ last_if' = 0
  /\ UNCHANGED <<queueVars, caller, handler, if_present, set_mac, last_mac>>

\* The command creates or removes the interface itself, and dhd_stop removes what
\* is there, all under dhd_net_if_lock.
ListChanged ==
  /\ More
  /\ if_present' = ~if_present
  /\ set_mac' = FALSE
  /\ last_if' = 0
  /\ UNCHANGED <<queueVars, caller, handler, fw_if, last_mac>>

\* dhd_set_mac_address, for an interface that is there.
PostSetMac(c) ==
  /\ if_present
  /\ set_mac' = TRUE
  /\ last_mac' = Len(posted) + 1
  /\ Post(c, "SET_MAC")
  /\ UNCHANGED <<fw_if, if_present, last_if>>

\* The same for a role whose address has to be set before the call returns: it is
\* set right away, and the mark stays.
SetMacDirect(c) ==
  /\ caller[c].at = "idle" /\ if_present /\ More
  /\ set_mac' = TRUE
  /\ last_mac' = 0
  /\ UNCHANGED <<queueVars, caller, handler, fw_if, if_present, last_if>>

PostFeatures(c) ==
  /\ Post(c, "UPD_FEATURES")
  /\ UNCHANGED ifVars

\* A slip: what kfifo_in has copied is not looked at.
CopyUnchecked(c) ==
  LET ev == caller[c].ev
      p == PrioOf(posted[ev])
      n == Min({REC, Room(p)})
  IN  /\ caller[c].at = "copy"
      /\ fifo' = [fifo EXCEPT ![p] = @ \o [i \in 1 .. n |-> <<ev, i>>]]
      /\ accepted' = [accepted EXCEPT ![p] = Append(@, ev)]
      /\ caller' = [caller EXCEPT ![c] = [at |-> "schedule", ev |-> 0]]
      /\ UNCHANGED <<posted, handled, work_pending, handler, ifVars>>

\* kfifo_in under work_lock.  Anything short of a record is refused.
Copy(c) ==
  LET ev == caller[c].ev
      p == PrioOf(posted[ev])
      n == Min({REC, Room(p)})
  IN  /\ caller[c].at = "copy"
      /\ fifo' = [fifo EXCEPT ![p] = @ \o [i \in 1 .. n |-> <<ev, i>>]]
      /\ accepted' = [accepted EXCEPT ![p] = IF n = REC THEN Append(@, ev) ELSE @]
      /\ caller' = [caller EXCEPT ![c] = IF n = REC THEN [at |-> "schedule", ev |-> 0] ELSE Idle]
      /\ UNCHANGED <<posted, handled, work_pending, handler, ifVars>>

\* schedule_work: no effect on an item that is pending.
Schedule(c) ==
  /\ caller[c].at = "schedule"
  /\ work_pending' = TRUE
  /\ caller' = [caller EXCEPT ![c] = Idle]
  /\ UNCHANGED <<fifo, posted, accepted, handled, handler, ifVars>>

----------------------------------------------------------------------------
(* dhd_deferred_work_handler.                                              *)

\* The kernel clears the pending mark before it calls the handler.
WorkStarts ==
  /\ work_pending /\ handler.at = "idle"
  /\ work_pending' = FALSE
  /\ handler' = [handler EXCEPT !.at = "get"]
  /\ UNCHANGED <<fifo, posted, accepted, handled, caller, ifVars>>

Ready == {p \in Prio : Len(fifo[p]) >= REC}

\* dhd_get_scheduled_work; it is the only reader.
Get ==
  /\ handler.at = "get" /\ Ready /= {}
  /\ LET p == IF "HIGH" \in Ready THEN "HIGH" ELSE "LOW"
     IN  /\ fifo' = [fifo EXCEPT ![p] = SubSeq(@, REC + 1, Len(@))]
         /\ handler' = [at |-> "call", ev |-> fifo[p][1][1]]
  /\ UNCHANGED <<posted, accepted, handled, work_pending, caller, ifVars>>

GetNothing ==
  /\ handler.at = "get" /\ Ready = {}
  /\ handler' = Idle
  /\ UNCHANGED <<queueVars, caller, ifVars>>

\* A handler that does its work, under dhd_net_if_lock.  A new interface starts
\* without an address to be set; the address goes to an interface that is there.
Done(kind) ==
  /\ if_present' = (kind = "IF_ADD" \/ (if_present /\ kind /= "IF_DEL"))
  /\ set_mac' = (set_mac /\ kind = "UPD_FEATURES")
  /\ UNCHANGED historyVars

\* One that does not: a failed deletion leaves the interface, a failed addition the
\* one that was there or, when it gets as far as the allocation, none; an address
\* waits on while the bus is down.
Failed(kind) ==
  /\ kind \in {"IF_ADD"} \cup (IF if_present THEN {"IF_DEL"} ELSE {})
                         \cup (IF set_mac THEN {"SET_MAC"} ELSE {})
  /\ last_if' = IF last_if = handler.ev THEN 0 ELSE last_if
  /\ last_mac' = IF last_mac = handler.ev THEN 0 ELSE last_mac
  /\ \/ UNCHANGED <<if_present, set_mac>>
     \/ kind = "IF_ADD" /\ if_present' = FALSE /\ set_mac' = FALSE

\* A slip: one event for each run of the work item.
CallOnce ==
  LET kind == posted[handler.ev]
  IN  /\ handler.at = "call"
      /\ handled' = [handled EXCEPT ![PrioOf(kind)] = Append(@, handler.ev)]
      /\ handler' = Idle
      /\ Done(kind) \/ Failed(kind)
      /\ UNCHANGED <<fifo, posted, accepted, work_pending, caller, fw_if>>

\* The work item calls the handler of the event and looks for the next one.
Call ==
  LET kind == posted[handler.ev]
  IN  /\ handler.at = "call"
      /\ handled' = [handled EXCEPT ![PrioOf(kind)] = Append(@, handler.ev)]
      /\ handler' = [at |-> "get", ev |-> 0]
      /\ Done(kind) \/ Failed(kind)
      /\ UNCHANGED <<fifo, posted, accepted, work_pending, caller, fw_if>>

WqHandlerStep == WorkStarts \/ Get \/ GetNothing \/ Call

WqNext ==
  \/ PostIfEvent \/ IfEventNotPosted \/ ListChanged
  \/ \E c \in Stack : PostSetMac(c) \/ SetMacDirect(c) \/ PostFeatures(c)
  \/ \E c \in Caller : Copy(c) \/ Schedule(c)
  \/ WqHandlerStep

WqSpec == WqInit /\ [][WqNext]_wqVars

\* Callers finish their call and the kernel runs the work item.
WqFairness ==
  /\ \A c \in Caller : WF_wqVars(Copy(c) \/ Schedule(c))
  /\ WF_wqVars(WqHandlerStep)

WqFairSpec == WqSpec /\ WqFairness

----------------------------------------------------------------------------
(* Properties.                                                             *)

\* The events whose records are in a FIFO, in order.
Queued(p) == [i \in 1 .. Len(fifo[p]) \div REC |-> fifo[p][(i - 1) * REC + 1][1]]
InHand(p) == IF handler.at = "call" /\ PrioOf(posted[handler.ev]) = p
             THEN <<handler.ev>> ELSE <<>>

\* Code: room is looked for outside the lock and bytes are copied as they
\* fit.  Still each FIFO is the sequence of the accepted events that are not
\* yet handled, whole and in order: none is lost, doubled, torn or overtaken
\* by another of its priority.
NothingLost == \A p \in Prio : accepted[p] = handled[p] \o InHand(p) \o Queued(p)

Quiet == (\A c \in Caller : caller[c].at = "idle") /\ handler.at = "idle" /\ ~work_pending

Accepted(ev) == \E p \in Prio : ev \in ToSet(accepted[p])

\* Code: the interface list and the MAC address follow through a queue what
\* the firmware and the user have done, with no second try.  Once the events
\* are handled, the list agrees with the firmware if the event of its last
\* change was posted and accepted, no other thread has changed the list since,
\* and the handler of that event has not failed, whatever became of the events
\* before it; and no address waits if the last one asked for was posted and
\* accepted and its handler found the bus up.
InterfacesSettle ==
  Quiet => /\ Accepted(last_if) => if_present = fw_if
           /\ Accepted(last_mac) => ~set_mac

\* Code: an event may be queued while the handler finds the FIFOs empty and
\* returns.  It is handled all the same.
EventsHandled == \A p \in Prio : fifo[p] /= <<>> ~> fifo[p] = <<>>
=============================================================================
