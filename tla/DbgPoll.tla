------------------------------- MODULE DbgPoll -------------------------------
(***************************************************************************)
(* How a debug ring is emptied (dhd_dbg_ring.c, dhd_debug.c and            *)
(* dhd_debug_linux.c): writers push entries and ask for a pull once the    *)
(* pending length reaches the threshold; the poll worker, a delayed work   *)
(* item, copies the entries out and re-arms itself when the ring is        *)
(* polled; the user starts, resets and triggers the logging; the driver is *)
(* detached.  The ring itself is the queue of module DbgFifo, with entries *)
(* of one byte, so that only their number matters here.                    *)
(*                                                                         *)
(* Each action is one stretch of code under ring->lock, or between two     *)
(* such stretches.  The work item is never run twice at the same time, and *)
(* it is not started while cancel_delayed_work_sync waits for it.          *)
(***************************************************************************)
EXTENDS Integers, FiniteSets, FiniteSetsExt

CONSTANTS
  Writer,         \* the threads that push entries
  CAP,            \* the entries the ring holds
  FLUSH,          \* DBGRING_FLUSH_THRESHOLD
  Threshold,      \* the thresholds the user sets; 0 is none
  BUF,            \* the entries the buffer of one pull holds
  ALLOC_FAILS,    \* the worker may fail to allocate its buffer
  Ops             \* the user's operations a run considers

ASSUME CapAssumption == CAP \in Nat \ {0} /\ BUF \in Nat \ {0} /\ FLUSH \in 1 .. CAP
ASSUME ThresholdAssumption == Threshold \subseteq Nat
ASSUME OpsAssumption ==
  /\ ALLOC_FAILS \in BOOLEAN
  /\ Ops \subseteq {"StartLogging", "ResetLogging", "Trigger", "Detach"}

VARIABLES
  stored,      \* the unread entries, written_bytes - read_bytes
  state,       \* RING_ACTIVE or RING_SUSPEND
  threshold,   \* ring->threshold
  sched_pull,  \* ring->sched_pull
  writer,      \* where each writer is
  pending_len, \* the pending length each writer has read
  interval,    \* ring_info->interval is not 0: the ring is polled
  work,        \* what armed the work item last: "poll", "pull" or "none"
  worker,      \* where the worker is
  unread,      \* ring_status.written_bytes - ring_status.read_bytes
  remain,      \* remain_buflen
  batch,       \* the entries in the worker's buffer
  conf,        \* where the user's operation is, and what follows its cancel
  freed        \* os_priv, with the work item in it, has been freed

ringVars == <<stored, state, threshold, sched_pull>>
writerVars == <<writer, pending_len>>
workerVars == <<worker, unread, remain, batch>>
userVars == <<interval, conf, freed>>
vars == <<ringVars, writerVars, workerVars, userVars, work>>

NoOp == [at |-> "idle", poll |-> FALSE, next |-> "none"]

\* A ring that logs, at any threshold, polled or not.
Init ==
  /\ stored = 0
  /\ state = "ACTIVE"
  /\ threshold \in {Min({th, FLUSH}) : th \in Threshold}
  /\ sched_pull = TRUE
  /\ writer = [w \in Writer |-> "idle"]
  /\ pending_len = [w \in Writer |-> 0]
  /\ interval \in BOOLEAN
  /\ work = IF interval THEN "poll" ELSE "none"
  /\ worker = "idle"
  /\ unread = 0 /\ remain = 0 /\ batch = 0
  /\ conf = NoOp
  /\ freed = FALSE

\* schedule_delayed_work does nothing to a work item that is armed already.
Armed(by) == IF work = "none" THEN by ELSE work

-----------------------------------------------------------------------------
(* dhd_dbg_push_to_ring: push, read the pending length, ask for a pull. *)
RingPush(w) ==
  /\ ~freed
  /\ writer[w] = "idle"
  /\ stored' = IF state = "ACTIVE" THEN Min({stored + 1, CAP}) ELSE stored
  /\ writer' = [writer EXCEPT ![w] = "pushed"]
  /\ UNCHANGED <<state, threshold, sched_pull, pending_len, work, workerVars, userVars>>

GetPendingLen(w) ==
  /\ writer[w] = "pushed"
  /\ pending_len' = [pending_len EXCEPT ![w] = stored]
  /\ writer' = [writer EXCEPT ![w] = "sched"]
  /\ UNCHANGED <<ringVars, work, workerVars, userVars>>

SchedPull(w) ==
  /\ writer[w] = "sched"
  /\ LET wanted == threshold > 0 /\ pending_len[w] >= threshold /\ sched_pull
     IN  /\ sched_pull' = (sched_pull /\ ~wanted)
         /\ writer' = [writer EXCEPT ![w] = IF wanted THEN "pull" ELSE "idle"]
  /\ pending_len' = [pending_len EXCEPT ![w] = 0]
  /\ UNCHANGED <<stored, state, threshold, work, workerVars, userVars>>

PullReq(w) ==
  /\ writer[w] = "pull"
  /\ work' = "pull"
  /\ writer' = [writer EXCEPT ![w] = "idle"]
  /\ UNCHANGED <<ringVars, pending_len, workerVars, userVars>>

-----------------------------------------------------------------------------
(* dbg_ring_poll_worker. *)
WorkerStart ==
  /\ work # "none"
  /\ worker = "idle"
  /\ conf.at # "cancel"
  /\ work' = "none"
  /\ worker' = "status"
  /\ UNCHANGED <<ringVars, writerVars, unread, remain, batch, userVars>>

WorkerStatus ==
  /\ worker = "status"
  /\ unread' = stored
  /\ worker' = "look"
  /\ UNCHANGED <<ringVars, writerVars, remain, batch, userVars, work>>

WorkerLook ==
  /\ worker = "look"
  /\ remain' = stored
  /\ worker' = IF stored = 0 THEN "exit" ELSE "alloc"
  /\ UNCHANGED <<ringVars, writerVars, unread, batch, userVars, work>>

WorkerAlloc ==
  /\ worker = "alloc"
  /\ worker' = "pull"
  /\ UNCHANGED <<ringVars, writerVars, unread, remain, batch, userVars, work>>

\* Without a buffer the worker neither sets sched_pull nor re-arms itself.
WorkerNoMem ==
  /\ ALLOC_FAILS
  /\ worker = "alloc"
  /\ worker' = "idle"
  /\ unread' = 0 /\ remain' = 0
  /\ UNCHANGED <<ringVars, writerVars, batch, userVars, work>>

\* A pull that does not compare the pointers first.
CanPullBlind == state = "ACTIVE" /\ batch < BUF

CanPull == stored > 0 /\ state = "ACTIVE" /\ batch < BUF

WorkerPull ==
  /\ worker = "pull"
  /\ CanPull
  /\ stored' = stored - 1
  /\ batch' = batch + 1
  /\ UNCHANGED <<state, threshold, sched_pull, writerVars, worker, unread, remain, userVars, work>>

\* A worker that reads on until it has seen the length it looked up.
ReadEnoughCounted == remain <= batch

ReadEnough == batch = 0 \/ remain <= batch

WorkerSend ==
  /\ worker = "pull"
  /\ ~CanPull
  /\ unread' = unread - batch
  /\ remain' = Max({remain - batch, 0})
  /\ batch' = 0
  /\ worker' = IF ReadEnough THEN "finish" ELSE "pull"
  /\ UNCHANGED <<ringVars, writerVars, userVars, work>>

WorkerFinish ==
  /\ worker = "finish"
  /\ sched_pull' = TRUE
  /\ worker' = "exit"
  /\ UNCHANGED <<stored, state, threshold, writerVars, unread, remain, batch, userVars, work>>

WorkerExit ==
  /\ worker = "exit"
  /\ work' = IF interval /\ unread = 0 THEN Armed("poll") ELSE work
  /\ worker' = "idle"
  /\ unread' = 0 /\ remain' = 0
  /\ UNCHANGED <<ringVars, writerVars, batch, userVars>>

-----------------------------------------------------------------------------
(* The user's operations, one at a time. *)
Idle == conf.at = "idle" /\ ~freed

\* A user whose cancel waits before the interval is cleared.
CancelFirst(op) == [op EXCEPT !.at = "cancel"]

\* dhd_os_start_logging: the ring is configured, then the interval is set.
Configured(op) == [op EXCEPT !.at = "interval"]

StartLogging(level, poll, th) ==
  /\ "StartLogging" \in Ops /\ Idle
  /\ state' = IF level = 0 THEN "SUSPEND" ELSE "ACTIVE"
  /\ threshold' = Min({th, FLUSH})
  /\ LET polled == poll /\ level # 0
     IN  conf' = Configured([at |-> "idle", poll |-> polled,
                             next |-> IF polled THEN "poll" ELSE "none"])
  /\ UNCHANGED <<stored, sched_pull, writerVars, workerVars, interval, freed, work>>

SetInterval ==
  /\ conf.at = "interval"
  /\ interval' = conf.poll
  /\ conf' = [conf EXCEPT !.at = "cancel"]
  /\ UNCHANGED <<ringVars, writerVars, workerVars, freed, work>>

\* cancel_delayed_work_sync: disarm the work item and wait for the worker.
CancelSync ==
  /\ conf.at = "cancel"
  /\ worker = "idle"
  /\ work' = "none"
  /\ conf' = IF conf.next = "none" THEN NoOp ELSE [conf EXCEPT !.at = "cancelled"]
  /\ UNCHANGED <<ringVars, writerVars, workerVars, interval, freed>>

Rearm ==
  /\ conf.at = "cancelled"
  /\ conf.next \in {"poll", "pull"}
  /\ work' = Armed(conf.next)
  /\ conf' = NoOp
  /\ UNCHANGED <<ringVars, writerVars, workerVars, interval, freed>>

\* dhd_os_reset_logging clears the interval before it stops the ring.
ResetLogging ==
  /\ "ResetLogging" \in Ops /\ Idle
  /\ interval' = FALSE
  /\ conf' = [NoOp EXCEPT !.at = "reset"]
  /\ UNCHANGED <<ringVars, writerVars, workerVars, freed, work>>

StopRing ==
  /\ conf.at = "reset"
  /\ state' = "SUSPEND"
  /\ threshold' = 0
  /\ conf' = [conf EXCEPT !.at = "cancel"]
  /\ UNCHANGED <<stored, sched_pull, writerVars, workerVars, interval, freed, work>>

\* dhd_os_trigger_get_ring_data.
Trigger ==
  /\ "Trigger" \in Ops /\ Idle
  /\ IF interval
     THEN conf' = [at |-> "cancel", poll |-> TRUE, next |-> "pull"] /\ UNCHANGED work
     ELSE work' = Armed("pull") /\ UNCHANGED conf
  /\ UNCHANGED <<ringVars, writerVars, workerVars, interval, freed>>

\* dhd_os_dbg_detach, after the writers have stopped.
Detach ==
  /\ "Detach" \in Ops /\ Idle
  /\ \A w \in Writer : writer[w] = "idle"
  /\ IF interval
     THEN conf' = [at |-> "cancel", poll |-> FALSE, next |-> "free"] /\ UNCHANGED freed
     ELSE freed' = TRUE /\ UNCHANGED conf
  /\ interval' = FALSE
  /\ UNCHANGED <<ringVars, writerVars, workerVars, work>>

FreePriv ==
  /\ conf.at = "cancelled"
  /\ conf.next = "free"
  /\ freed' = TRUE
  /\ conf' = NoOp
  /\ UNCHANGED <<ringVars, writerVars, workerVars, interval, work>>

-----------------------------------------------------------------------------
WriterStep(w) == RingPush(w) \/ GetPendingLen(w) \/ SchedPull(w) \/ PullReq(w)

WorkerStep ==
  \/ WorkerStatus \/ WorkerLook \/ WorkerAlloc \/ WorkerNoMem \/ WorkerPull
  \/ WorkerSend \/ WorkerFinish \/ WorkerExit

ConfStep == SetInterval \/ CancelSync \/ Rearm \/ StopRing \/ FreePriv

Next ==
  \/ \E w \in Writer : WriterStep(w)
  \/ WorkerStart
  \/ WorkerStep
  \/ ConfStep
  \/ \E level \in 0 .. 1, poll \in BOOLEAN, th \in Threshold : StartLogging(level, poll, th)
  \/ ResetLogging
  \/ Trigger
  \/ Detach

Spec == Init /\ [][Next]_vars

\* A worker and a user's operation that have begun are scheduled until they end.
FairSpec == Spec /\ WF_vars(WorkerStep) /\ WF_vars(ConfStep)

-----------------------------------------------------------------------------
(* The variables keep their types; the worker's count of what is left may  *)
(* fall below the count it took at its start, as the ring fills meanwhile. *)
TypeOK ==
  /\ stored \in 0 .. CAP
  /\ state \in {"ACTIVE", "SUSPEND"}
  /\ threshold \in 0 .. FLUSH
  /\ sched_pull \in BOOLEAN
  /\ writer \in [Writer -> {"idle", "pushed", "sched", "pull"}]
  /\ pending_len \in [Writer -> 0 .. CAP]
  /\ interval \in BOOLEAN
  /\ work \in {"none", "poll", "pull"}
  /\ worker \in {"idle", "status", "look", "alloc", "pull", "finish", "exit"}
  /\ unread \in -(CAP + BUF) .. CAP
  /\ remain \in 0 .. CAP
  /\ batch \in 0 .. BUF
  /\ conf \in [at : {"idle", "interval", "reset", "cancel", "cancelled"},
               poll : BOOLEAN, next : {"none", "poll", "pull", "free"}]
  /\ freed \in BOOLEAN

(* Once an operation that ends the polling has returned, no poll is armed: *)
(* a worker that was running saw the cleared interval or was waited for.   *)
NoPollAfterStop == conf.at = "idle" /\ ~interval => work # "poll"

(* The worker ends even if the writers keep the ring filled: it reads no   *)
(* more than the ring held when it looked, and one buffer.                 *)
WorkerEnds == worker # "idle" ~> worker = "idle"

(* cancel_delayed_work_sync, and the operation that called it, return.     *)
UserReturns == conf.at # "idle" ~> conf.at = "idle"
=============================================================================
