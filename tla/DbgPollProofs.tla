---------------------------- MODULE DbgPollProofs ----------------------------
(***************************************************************************)
(* Theorems about DbgPoll for every number of writers and every size of    *)
(* the ring and of the worker's buffer: its type invariant, and that       *)
(* stopping the polling of a ring really stops it.                         *)
(***************************************************************************)
EXTENDS DbgPoll, TLAPS

-----------------------------------------------------------------------------
(* The extrema of two numbers. *)

LEMMA MinOfTwo ==
  ASSUME NEW a \in Int, NEW b \in Int
  PROVE  Min({a, b}) = IF a <= b THEN a ELSE b
<1>1. \E x \in {a, b} : \A y \in {a, b} : x =< y
  OBVIOUS
<1>2. Min({a, b}) \in {a, b} /\ \A y \in {a, b} : Min({a, b}) =< y
  BY <1>1 DEF Min
<1>3. QED
  BY <1>2

LEMMA MaxOfTwo ==
  ASSUME NEW a \in Int, NEW b \in Int
  PROVE  Max({a, b}) = IF a >= b THEN a ELSE b
<1>1. \E x \in {a, b} : \A y \in {a, b} : x >= y
  OBVIOUS
<1>2. Max({a, b}) \in {a, b} /\ \A y \in {a, b} : Max({a, b}) >= y
  BY <1>1 DEF Max
<1>3. QED
  BY <1>2

-----------------------------------------------------------------------------
(* The type invariant.  How far the worker's count of what is left can fall  *)
(* needs a relation between the two lengths it keeps: both go down by what   *)
(* it sends, and they started at most CAP apart.                             *)

WorkerBounded ==
  /\ worker = "look" => unread >= 0
  /\ worker \in {"alloc", "pull"} => unread >= remain - CAP

TypeInv == TypeOK /\ WorkerBounded

Conf == [at : {"idle", "interval", "reset", "cancel", "cancelled"},
         poll : BOOLEAN, next : {"none", "poll", "pull", "free"}]

LEMMA TypeInit == Init => TypeInv
<1>1. \A th \in Threshold : Min({th, FLUSH}) \in 0 .. FLUSH
  BY MinOfTwo, ThresholdAssumption, CapAssumption
<1>2. ASSUME Init PROVE TypeOK
  <2>1. threshold \in 0 .. FLUSH
    BY <1>1, <1>2 DEF Init
  <2>2. conf \in Conf
    BY <1>2 DEF Init, NoOp, Conf
  <2>3. interval \in BOOLEAN /\ sched_pull \in BOOLEAN /\ freed \in BOOLEAN
    BY <1>2 DEF Init
  <2>4. work \in {"none", "poll", "pull"}
    BY <1>2 DEF Init
  <2>5. QED
    BY <1>2, <2>1, <2>2, <2>3, <2>4, CapAssumption DEF Init, TypeOK, Conf
<1>3. Init => WorkerBounded
  BY DEF Init, WorkerBounded
<1>4. QED
  BY <1>2, <1>3 DEF TypeInv

LEMMA TypeWriter ==
  ASSUME TypeInv, NEW w \in Writer, WriterStep(w)
  PROVE  TypeInv'
<1> USE CapAssumption DEF TypeInv, TypeOK, WorkerBounded, workerVars, userVars, ringVars
<1>1. CASE RingPush(w)
  <2>1. Min({stored + 1, CAP}) \in 0 .. CAP
    BY MinOfTwo
  <2>2. QED
    BY <1>1, <2>1 DEF RingPush
<1>2. CASE GetPendingLen(w)
  BY <1>2 DEF GetPendingLen
<1>3. CASE SchedPull(w)
  BY <1>3 DEF SchedPull
<1>4. CASE PullReq(w)
  BY <1>4 DEF PullReq
<1>5. QED
  BY <1>1, <1>2, <1>3, <1>4 DEF WriterStep

LEMMA TypeWorker ==
  ASSUME TypeInv, WorkerStart \/ WorkerStep
  PROVE  TypeInv'
<1> USE CapAssumption DEF TypeInv, TypeOK, WorkerBounded, writerVars, userVars, ringVars
<1>1. CASE WorkerStart
  BY <1>1 DEF WorkerStart
<1>2. CASE WorkerStatus
  BY <1>2 DEF WorkerStatus
<1>3. CASE WorkerLook
  BY <1>3 DEF WorkerLook
<1>4. CASE WorkerAlloc \/ WorkerNoMem
  BY <1>4 DEF WorkerAlloc, WorkerNoMem
<1>5. CASE WorkerPull
  BY <1>5 DEF WorkerPull, CanPull
<1>6. CASE WorkerSend
  <2>1. Max({remain - batch, 0}) = IF remain - batch >= 0 THEN remain - batch ELSE 0
    BY MaxOfTwo
  <2>2. worker = "pull" /\ unread' = unread - batch /\ batch' = 0
    BY <1>6 DEF WorkerSend
  <2>3. worker' = "pull" => remain' = remain - batch
    BY <1>6, <2>1 DEF WorkerSend, ReadEnough
  <2>4. remain' \in 0 .. CAP
    BY <1>6, <2>1 DEF WorkerSend
  <2>5. QED
    BY <1>6, <2>2, <2>3, <2>4 DEF WorkerSend
<1>7. CASE WorkerFinish
  BY <1>7 DEF WorkerFinish
<1>8. CASE WorkerExit
  <2>1. work' \in {"none", "poll", "pull"}
    BY <1>8 DEF WorkerExit, Armed
  <2>2. QED
    BY <1>8, <2>1 DEF WorkerExit
<1>9. QED
  BY <1>1, <1>2, <1>3, <1>4, <1>5, <1>6, <1>7, <1>8 DEF WorkerStep

LEMMA TypeUser ==
  ASSUME TypeInv,
         \/ ConfStep \/ ResetLogging \/ Trigger \/ Detach
         \/ \E level \in 0 .. 1, poll \in BOOLEAN, th \in Threshold :
              StartLogging(level, poll, th)
  PROVE  TypeInv'
<1>1. SetInterval \/ CancelSync \/ Rearm \/ StopRing \/ FreePriv => conf' \in Conf
  <2>1. conf \in Conf /\ NoOp \in Conf
    BY DEF TypeInv, TypeOK, Conf, NoOp
  <2>2. /\ [conf EXCEPT !.at = "cancel"] \in Conf
        /\ [conf EXCEPT !.at = "cancelled"] \in Conf
    BY <2>1 DEF Conf
  <2>3. QED
    BY <2>1, <2>2 DEF SetInterval, CancelSync, Rearm, StopRing, FreePriv
<1>2. ResetLogging \/ Trigger \/ Detach => conf' \in Conf
  <2>1. /\ conf \in Conf
        /\ [NoOp EXCEPT !.at = "reset"] \in Conf
        /\ [at |-> "cancel", poll |-> TRUE, next |-> "pull"] \in Conf
        /\ [at |-> "cancel", poll |-> FALSE, next |-> "free"] \in Conf
    BY DEF TypeInv, TypeOK, Conf, NoOp
  <2>2. QED
    BY <2>1 DEF ResetLogging, Trigger, Detach
<1> USE DEF TypeInv, TypeOK, WorkerBounded, writerVars, workerVars, ringVars
<1>3. CASE SetInterval
  BY <1>1, <1>3 DEF SetInterval, Conf
<1>4. CASE CancelSync
  BY <1>1, <1>4 DEF CancelSync, Conf
<1>5. CASE Rearm
  BY <1>1, <1>5 DEF Rearm, Armed, Conf
<1>6. CASE StopRing
  BY <1>1, <1>6, CapAssumption DEF StopRing, Conf
<1>7. CASE FreePriv
  BY <1>1, <1>7 DEF FreePriv, Conf
<1>8. CASE ResetLogging
  BY <1>2, <1>8 DEF ResetLogging, Conf
<1>9. CASE Trigger
  BY <1>2, <1>9 DEF Trigger, Armed, Conf
<1>10. CASE Detach
  BY <1>2, <1>10 DEF Detach, Conf
<1>11. ASSUME NEW level \in 0 .. 1, NEW poll \in BOOLEAN, NEW th \in Threshold,
             StartLogging(level, poll, th)
      PROVE  TypeInv'
  <2>1. Min({th, FLUSH}) \in 0 .. FLUSH
    BY MinOfTwo, ThresholdAssumption, CapAssumption
  <2>2. QED
    BY <1>11, <2>1, CapAssumption DEF StartLogging, Configured
<1>12. QED
  BY <1>3, <1>4, <1>5, <1>6, <1>7, <1>8, <1>9, <1>10, <1>11 DEF ConfStep

LEMMA TypeNext == TypeInv /\ [Next]_vars => TypeInv'
<1>1. TypeInv /\ UNCHANGED vars => TypeInv'
  BY DEF TypeInv, TypeOK, WorkerBounded, vars, ringVars, writerVars, workerVars, userVars
<1>2. QED
  BY <1>1, TypeWriter, TypeWorker, TypeUser DEF Next

\* The variables keep their types: the ring never holds more than fits, the
\* worker never reads more than its buffer takes, and the difference of the
\* counters in its copy of the ring's status stays within the ring's size and
\* one buffer although the writers go on.
THEOREM TypeCorrect == Spec => []TypeOK
<1>1. TypeInv => TypeOK
  BY DEF TypeInv
<1>2. QED
  BY <1>1, TypeInit, TypeNext, PTL DEF Spec

-----------------------------------------------------------------------------
(* Stopping the polling. *)

\* The inductive invariant: a poll may be armed on a ring without an interval
\* only while an operation is about to cancel it, and an operation that will
\* arm a poll has set the interval or is about to.
StopInv ==
  /\ ~interval /\ work = "poll" => conf.at \in {"reset", "cancel"}
  /\ conf.at = "interval" /\ conf.next = "poll" => conf.poll
  /\ conf.at \in {"cancel", "cancelled"} /\ conf.next = "poll" => interval
  /\ conf.at = "reset" => conf.next # "poll"

LEMMA StopNext == TypeOK /\ StopInv /\ [Next]_vars => StopInv'
<1> SUFFICES ASSUME TypeOK, StopInv, [Next]_vars PROVE StopInv'
  OBVIOUS
<1> USE DEF StopInv
<1>1. ASSUME NEW w \in Writer, WriterStep(w) PROVE StopInv'
  BY <1>1 DEF WriterStep, RingPush, GetPendingLen, SchedPull, PullReq, userVars
<1>2. CASE WorkerStart
  BY <1>2 DEF WorkerStart, userVars
<1>3. CASE WorkerStep
  <2>1. CASE WorkerExit
    BY <2>1 DEF WorkerExit, Armed, userVars
  <2>2. CASE ~WorkerExit
    BY <1>3, <2>2 DEF WorkerStep, WorkerStatus, WorkerLook, WorkerAlloc, WorkerNoMem,
                      WorkerPull, WorkerSend, WorkerFinish, userVars
  <2>3. QED
    BY <2>1, <2>2
<1>4. CASE ConfStep
  <2>1. CASE SetInterval
    BY <2>1 DEF SetInterval, TypeOK
  <2>2. CASE CancelSync
    BY <2>2 DEF CancelSync, NoOp, TypeOK
  <2>3. CASE Rearm
    BY <2>3 DEF Rearm, Armed, NoOp, TypeOK
  <2>4. CASE StopRing
    BY <2>4 DEF StopRing, TypeOK
  <2>5. CASE FreePriv
    BY <2>5 DEF FreePriv, NoOp
  <2>6. QED
    BY <1>4, <2>1, <2>2, <2>3, <2>4, <2>5 DEF ConfStep
<1>5. ASSUME NEW level \in 0 .. 1, NEW poll \in BOOLEAN, NEW th \in Threshold,
             StartLogging(level, poll, th)
      PROVE  StopInv'
  BY <1>5 DEF StartLogging, Configured, Idle
<1>6. CASE ResetLogging
  BY <1>6 DEF ResetLogging, NoOp, Idle
<1>7. CASE Trigger
  BY <1>7 DEF Trigger, Armed, Idle
<1>8. CASE Detach
  BY <1>8 DEF Detach, Idle
<1>9. CASE UNCHANGED vars
  BY <1>9 DEF vars, userVars
<1>10. QED
  BY <1>1, <1>2, <1>3, <1>4, <1>5, <1>6, <1>7, <1>8, <1>9 DEF Next

\* However many writers there are and whatever the worker was doing: once an
\* operation that ends the polling has returned, no poll is armed.  It rests on
\* the order of dhd_os_start_logging and dhd_os_reset_logging, which clear the
\* interval before they cancel the work item.
THEOREM PollingStops == Spec => []NoPollAfterStop
<1>1. Init => StopInv
  BY DEF Init, NoOp, StopInv
<1>2. StopInv => NoPollAfterStop
  BY DEF StopInv, NoPollAfterStop
<1>3. QED
  BY <1>1, <1>2, StopNext, TypeCorrect, PTL DEF Spec
=============================================================================
