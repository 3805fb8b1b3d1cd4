--------------------------- MODULE PciePmProofs ---------------------------
(***************************************************************************)
(* What PciePm promises for any number of transmitting CPUs and            *)
(* forwarding threads: the wake lock is exact, nobody is inside a          *)
(* suspended bus, and the interrupts and the low power state agree with    *)
(* the state of the bus between two calls.                                 *)
(***************************************************************************)
EXTENDS PciePm, FiniteSetTheorems, TLAPS

(***************************************************************************)
(* Where each party can be.                                                *)
(***************************************************************************)
PausePcs == {"wait", "wakelocks", "decide"}
QuietPcs == {"enter", "stop", "waive", "inform"} \cup PausePcs
SuspendPcs == {"busywait", "d0_inform", "restart", "no_ack", "latch"} \cup QuietPcs
WakingPcs == {"leave_lps", "hostready", "data"}
AwakePcs == {"watchdog", "resumed"}
Pcs == {"idle", "exit"} \cup SuspendPcs \cup WakingPcs \cup AwakePcs

PmTypes ==
  /\ busstate \in {"DATA", "SUSPEND"}
  /\ low_power \in {"NONE", "INFORM_SENT", "ACKED"}
  /\ d3_ack \in BOOLEAN /\ intr \in BOOLEAN /\ stopped \in BOOLEAN
  /\ watchdog \in BOOLEAN /\ bus_error \in BOOLEAN
  /\ waived \in BOOLEAN /\ wl_wifi \in BOOLEAN /\ mailbox \in BOOLEAN
  /\ holders \in Int /\ before \in Int
  /\ pm \in [pc : Pcs, active : BOOLEAN]
  /\ at \in [Sender -> {"idle", "entered", "sending", "sent", "unlock"}]
  /\ \A t \in Sender : at[t] = "unlock" => t \in Xmit
  /\ ioctl \in {"idle", "locked", "waiting", "check", "talking", "unlock"}
  /\ dpc \in {"idle", "scheduled", "running", "frames", "acking", "ending", "leaving"}
  /\ dongle \in {"awake", "told", "asleep"}

(***************************************************************************)
(* The wake lock.  Its holders are counted; the kernel's lock follows the  *)
(* count, or the count there was when the lock was waived.                 *)
(***************************************************************************)
Holding == {t \in Xmit : at[t] \in {"sending", "sent", "unlock"}}

HoldersCounted == holders = Cardinality(Holding) + (IF ioctl = "idle" THEN 0 ELSE 1)

LockFollows ==
  /\ waived <=> pm.pc \in {"inform", "wait"}
  /\ ~waived => (wl_wifi <=> holders > 0)
  /\ waived => before >= 0 /\ (wl_wifi <=> before > 0)

WakeInv == PmTypes /\ HoldersCounted /\ LockFollows

(***************************************************************************)
(* The busy bits and who is inside.                                        *)
(***************************************************************************)
Inside(t) == at[t] \in {"sending", "sent"}

BitsSet ==
  /\ pm.pc \in SuspendPcs => "SUSPEND" \in busy
  /\ ioctl \in {"waiting", "check", "talking"} => "IOVAR" \in busy
  /\ OneForwarder => \A f \in Fwd : at[f] /= "idle" => "SEND_PKT" \in busy

BusOfPc ==
  /\ pm.pc \in SuspendPcs \cup AwakePcs => busstate = "DATA"
  /\ pm.pc \in WakingPcs => busstate = "SUSPEND"
  /\ pm.pc = "exit" => "SUSPEND" \in busy

\* A suspend that has seen no other bit keeps the ioctl and the one
\* forwarder out; once it has seen the wake lock free, the transmits too.
KeptOut ==
  /\ pm.pc \in QuietPcs \/ busstate = "SUSPEND" =>
       /\ ioctl /= "talking"
       /\ OneForwarder => \A f \in Fwd : ~Inside(f)
  /\ (pm.pc = "decide" /\ ~pm.active) \/ busstate = "SUSPEND" =>
       Holding = {}

InsideInv == BitsSet /\ BusOfPc /\ KeptOut

(***************************************************************************)
(* The interrupts and the low power state, on a bus that has not been      *)
(* given up.                                                               *)
(***************************************************************************)
GivenUp == bus_error \/ pm.pc \in {"no_ack", "latch"}

LowPowerOfPc ==
  /\ pm.pc \in PausePcs => low_power \in {"INFORM_SENT", "ACKED"}
  /\ pm.pc \in {"idle", "exit"} => low_power = IF busstate = "SUSPEND" THEN "ACKED" ELSE "NONE"
  /\ pm.pc = "leave_lps" => low_power = "ACKED"
  /\ pm.pc \notin PausePcs \cup {"idle", "exit", "leave_lps"} => low_power = "NONE"

\* D3_INFORM is answered once, and its answer is for the suspend under way.
Handshake ==
  /\ dongle = "told" => ~mailbox
  /\ dongle = "told" \/ mailbox => pm.pc \in PausePcs /\ low_power = "INFORM_SENT"
  /\ dpc = "acking" => pm.pc \in PausePcs /\ low_power = "ACKED"
  /\ pm.pc \in PausePcs => (d3_ack <=> low_power = "ACKED" /\ dpc /= "acking")
  /\ pm.pc = "inform" => ~d3_ack

Silent == low_power = "ACKED" => ~intr

NotDeaf ==
  low_power /= "ACKED" /\ pm.pc \notin {"d0_inform", "hostready", "data"} =>
    intr \/ dpc \in {"scheduled", "running", "frames", "ending"}

Shut ==
  /\ busstate = "SUSPEND" \/ pm.pc \in {"waive", "inform"} \cup PausePcs => ~watchdog
  /\ pm.pc = "stop" => ~watchdog

BusInv == ~GivenUp => LowPowerOfPc /\ Handshake /\ NotDeaf /\ Shut

(***************************************************************************)
(* Types.                                                                  *)
(***************************************************************************)
USE DEF busVars, wakeVars, dongleVars

\* What the call does next; every step of it writes pm in one of these ways.
LEMMA GotoTypes ==
  ASSUME pm \in [pc : Pcs, active : BOOLEAN], NEW pc \in Pcs
  PROVE  /\ [pm EXCEPT !.pc = pc] \in [pc : Pcs, active : BOOLEAN]
         /\ [pm EXCEPT !.pc = pc].pc = pc
         /\ [pm EXCEPT !.pc = pc].active = pm.active
  OBVIOUS

LEMMA PcNames ==
  /\ QuietPcs \subseteq SuspendPcs /\ PausePcs \subseteq QuietPcs
  /\ Pcs = {"idle", "exit", "busywait", "enter", "stop", "waive", "inform", "wait",
            "wakelocks", "decide", "d0_inform", "restart", "no_ack", "latch",
            "leave_lps", "hostready", "data", "watchdog", "resumed"}
  BY DEF Pcs, SuspendPcs, QuietPcs, PausePcs, WakingPcs, AwakePcs

LEMMA SendTypes ==
  ASSUME PmTypes, NEW t \in Sender, SendBegin(t) \/ SendStep(t)
  PROVE  PmTypes'
<1>1. /\ at' \in [Sender -> {"idle", "entered", "sending", "sent", "unlock"}]
      /\ \A u \in Sender : at'[u] = "unlock" => u \in Xmit
  BY DEF PmTypes, SendBegin, SendStep, SendRefused, SendAllowed, SendPacket, SendEnd, SendUnlock
<1>2. CASE SendBegin(t)
  BY <1>1, <1>2 DEF PmTypes, SendBegin
<1>3. CASE SendRefused(t)
  BY <1>1, <1>3 DEF PmTypes, SendRefused
<1>4. CASE SendAllowed(t)
  <2>1. wl_wifi' \in BOOLEAN /\ holders' \in Int /\ UNCHANGED <<waived, before>>
    <3>1. CASE t \in Xmit
      BY <1>4, <3>1 DEF PmTypes, SendAllowed, WakeLock
    <3> QED
      BY <1>4, <3>1 DEF PmTypes, SendAllowed
  <2> QED
    BY <1>1, <1>4, <2>1 DEF PmTypes, SendAllowed
<1>5. CASE SendPacket(t)
  BY <1>1, <1>5 DEF PmTypes, SendPacket
<1>6. CASE SendEnd(t)
  BY <1>1, <1>6 DEF PmTypes, SendEnd
<1>7. CASE SendUnlock(t)
  BY <1>1, <1>7 DEF PmTypes, SendUnlock, WakeUnlock
<1> QED
  BY <1>2, <1>3, <1>4, <1>5, <1>6, <1>7 DEF SendStep

LEMMA IoctlTypes ==
  ASSUME PmTypes, IoctlBegin \/ IoctlStep
  PROVE  PmTypes'
<1>1. CASE IoctlBegin
  BY <1>1 DEF PmTypes, IoctlBegin, WakeLock
<1>2. CASE IoctlUnlock
  BY <1>2 DEF PmTypes, IoctlUnlock, WakeUnlock
<1>3. CASE IoctlBusy \/ IoctlWaited \/ IoctlTimeout \/ IoctlCheck \/ IoctlEnd
  BY <1>3 DEF PmTypes, IoctlBusy, IoctlWaited, IoctlTimeout, IoctlCheck, IoctlEnd
<1> QED
  BY <1>1, <1>2, <1>3 DEF IoctlStep

LEMMA DongleTypes ==
  ASSUME PmTypes, DongleAcks \/ Interrupt \/ DpcStep
  PROVE  PmTypes'
<1>1. CASE DongleAcks
  BY <1>1 DEF PmTypes, DongleAcks
<1>2. CASE Interrupt
  <2>1. intr' \in BOOLEAN /\ dpc' = "scheduled"
    BY <1>2 DEF Interrupt
  <2> QED
    BY <1>2, <2>1 DEF PmTypes, Interrupt
<1>3. CASE DpcBegin
  BY <1>3 DEF PmTypes, DpcBegin
<1>4. CASE DpcAck
  <2>1. intr' \in BOOLEAN /\ mailbox' \in BOOLEAN
    BY <1>4 DEF DpcAck, PmTypes
  <2>2. low_power' \in {"NONE", "INFORM_SENT", "ACKED"} /\ dpc' \in {"ending", "acking"}
    BY <1>4 DEF DpcAck, PmTypes
  <2> QED
    BY <1>4, <2>1, <2>2 DEF PmTypes, DpcAck
<1>5. CASE DpcWake
  BY <1>5 DEF PmTypes, DpcWake
<1>6. CASE DpcFrames
  BY <1>6 DEF PmTypes, DpcFrames
<1>6a. CASE DpcTxStatus
  <2>1. stopped' \in BOOLEAN /\ dpc' = "ending"
    BY <1>6a DEF DpcTxStatus, PmTypes
  <2> QED
    BY <1>6a, <2>1 DEF PmTypes, DpcTxStatus
<1>7. CASE DpcEnable
  <2>1. intr' \in BOOLEAN /\ dpc' = "leaving"
    BY <1>7 DEF DpcEnable, IntrEnable, PmTypes
  <2> QED
    BY <1>7, <2>1 DEF PmTypes, DpcEnable
<1>8. CASE DpcEnd
  BY <1>8 DEF PmTypes, DpcEnd
<1> QED
  BY <1>1, <1>2, <1>3, <1>4, <1>5, <1>6, <1>6a, <1>7, <1>8 DEF DpcStep
LEMMA PmStepTypes ==
  ASSUME PmTypes, SuspendBegin \/ ResumeBegin \/ PmStep
  PROVE  PmTypes'
<1> USE PcNames, GotoTypes DEF PmTypes, Goto
<1>1. CASE SuspendBegin
  <2>1. pm' \in [pc : Pcs, active : BOOLEAN]
    BY <1>1 DEF SuspendBegin
  <2> QED
    BY <1>1, <2>1 DEF SuspendBegin
<1>2. CASE SuspendIdle
  <2>1. pm' \in [pc : Pcs, active : BOOLEAN]
    BY <1>2 DEF SuspendIdle
  <2> QED
    BY <1>2, <2>1 DEF SuspendIdle
<1>3. CASE SuspendTimeout
  <2>1. pm' \in [pc : Pcs, active : BOOLEAN]
    BY <1>3 DEF SuspendTimeout
  <2> QED
    BY <1>3, <2>1 DEF SuspendTimeout
<1>4. CASE SuspendEnter
  <2>1. pm' \in [pc : Pcs, active : BOOLEAN]
    BY <1>4 DEF SuspendEnter
  <2> QED
    BY <1>4, <2>1 DEF SuspendEnter
<1>5. CASE SuspendStop
  <2>1. pm' \in [pc : Pcs, active : BOOLEAN]
    BY <1>5 DEF SuspendStop
  <2> QED
    BY <1>5, <2>1 DEF SuspendStop
<1>6. CASE SuspendWaive
  <2>1. pm' \in [pc : Pcs, active : BOOLEAN]
    BY <1>6 DEF SuspendWaive
  <2>2. waived' \in BOOLEAN /\ d3_ack' \in BOOLEAN
    BY <1>6 DEF SuspendWaive, Waive
  <2> QED
    BY <1>6, <2>1, <2>2 DEF SuspendWaive, Waive
<1>7. CASE SuspendInform
  <2>1. pm' \in [pc : Pcs, active : BOOLEAN]
    BY <1>7 DEF SuspendInform
  <2> QED
    BY <1>7, <2>1 DEF SuspendInform
<1>8. CASE SuspendRestore
  <2>1. pm' \in [pc : Pcs, active : BOOLEAN]
    BY <1>8 DEF SuspendRestore
  <2>2. waived' \in BOOLEAN /\ wl_wifi' \in BOOLEAN
    BY <1>8 DEF SuspendRestore, Restore
  <2>3. before' \in Int /\ UNCHANGED holders
    BY <1>8 DEF SuspendRestore, Restore
  <2> QED
    BY <1>8, <2>1, <2>2, <2>3 DEF SuspendRestore
<1>9. CASE SuspendWakelocks
  <2>1. pm' \in [pc : Pcs, active : BOOLEAN]
    BY <1>9 DEF SuspendWakelocks
  <2> QED
    BY <1>9, <2>1 DEF SuspendWakelocks
<1>10. CASE SuspendDone
  <2>1. pm' \in [pc : Pcs, active : BOOLEAN]
    BY <1>10 DEF SuspendDone
  <2> QED
    BY <1>10, <2>1 DEF SuspendDone
<1>11. CASE SuspendBackOut
  <2>1. pm' \in [pc : Pcs, active : BOOLEAN]
    BY <1>11 DEF SuspendBackOut
  <2>2. watchdog' \in BOOLEAN /\ d3_ack' \in BOOLEAN
    BY <1>11 DEF SuspendBackOut
  <2> QED
    BY <1>11, <2>1, <2>2 DEF SuspendBackOut
<1>12. CASE SuspendD0Inform
  <2>1. pm' \in [pc : Pcs, active : BOOLEAN]
    BY <1>12 DEF SuspendD0Inform
  <2> QED
    BY <1>12, <2>1 DEF SuspendD0Inform, IntrEnable
<1>13. CASE SuspendNoAck
  <2>1. pm' \in [pc : Pcs, active : BOOLEAN]
    BY <1>13 DEF SuspendNoAck
  <2> QED
    BY <1>13, <2>1 DEF SuspendNoAck
<1>14. CASE SuspendRestart
  <2>1. pm' \in [pc : Pcs, active : BOOLEAN]
    BY <1>14 DEF SuspendRestart
  <2>2. stopped' \in BOOLEAN /\ busstate' \in {"DATA", "SUSPEND"}
    BY <1>14 DEF SuspendRestart
  <2> QED
    BY <1>14, <2>1, <2>2 DEF SuspendRestart
<1>15. CASE SuspendLatch
  <2>1. pm' \in [pc : Pcs, active : BOOLEAN]
    BY <1>15 DEF SuspendLatch
  <2> QED
    BY <1>15, <2>1 DEF SuspendLatch
<1>16. CASE SuspendExit
  <2>1. pm' \in [pc : Pcs, active : BOOLEAN]
    BY <1>16 DEF SuspendExit
  <2> QED
    BY <1>16, <2>1 DEF SuspendExit
<1>17. CASE ResumeBegin
  <2>1. pm' \in [pc : Pcs, active : BOOLEAN]
    BY <1>17 DEF ResumeBegin
  <2> QED
    BY <1>17, <2>1 DEF ResumeBegin
<1>18. CASE ResumeLeaveLps
  <2>1. pm' \in [pc : Pcs, active : BOOLEAN]
    BY <1>18 DEF ResumeLeaveLps
  <2> QED
    BY <1>18, <2>1 DEF ResumeLeaveLps
<1>19. CASE ResumeHostready
  <2>1. pm' \in [pc : Pcs, active : BOOLEAN]
    BY <1>19 DEF ResumeHostready
  <2> QED
    BY <1>19, <2>1 DEF ResumeHostready
<1>20. CASE ResumeData
  <2>1. pm' \in [pc : Pcs, active : BOOLEAN]
    BY <1>20 DEF ResumeData
  <2>2. stopped' \in BOOLEAN /\ intr' \in BOOLEAN
    BY <1>20 DEF ResumeData, IntrEnable
  <2> QED
    BY <1>20, <2>1, <2>2 DEF ResumeData
<1>21. CASE ResumeWatchdog
  <2>1. pm' \in [pc : Pcs, active : BOOLEAN]
    BY <1>21 DEF ResumeWatchdog
  <2> QED
    BY <1>21, <2>1 DEF ResumeWatchdog
<1>22. CASE ResumeEnd
  <2>1. pm' \in [pc : Pcs, active : BOOLEAN]
    BY <1>22 DEF ResumeEnd
  <2> QED
    BY <1>22, <2>1 DEF ResumeEnd
<1> QED
  BY <1>1, <1>2, <1>3, <1>4, <1>5, <1>6, <1>7, <1>8, <1>9, <1>10, <1>11,
     <1>12, <1>13, <1>14, <1>15, <1>16, <1>17, <1>18, <1>19, <1>20, <1>21, <1>22 DEF PmStep
LEMMA TypesKept ==
  ASSUME PmTypes, [PmNext]_pmVars
  PROVE  PmTypes'
<1>1. CASE UNCHANGED pmVars
  BY <1>1 DEF PmTypes, pmVars
<1> QED
  BY <1>1, SendTypes, IoctlTypes, DongleTypes, PmStepTypes DEF PmNext

(***************************************************************************)
(* The wake lock.                                                          *)
(***************************************************************************)
LEMMA HoldingFinite == IsFiniteSet(Holding) /\ Cardinality(Holding) \in Nat
  BY PmAssumption, FS_Subset, FS_CardinalityType DEF Holding

\* A step that moves no transmit into or out of the wake lock.
LEMMA CountStays ==
  ASSUME HoldersCounted, Holding' = Holding, UNCHANGED holders,
         (ioctl = "idle") <=> (ioctl' = "idle")
  PROVE  HoldersCounted'
  BY DEF HoldersCounted

LEMMA FollowsStays ==
  ASSUME LockFollows, UNCHANGED wakeVars,
         pm.pc \in {"inform", "wait"} <=> pm'.pc \in {"inform", "wait"}
  PROVE  LockFollows'
  BY DEF LockFollows

\* dhd_os_wake_lock and dhd_os_wake_unlock keep the kernel's lock in step.
LEMMA LockTaken ==
  ASSUME PmTypes, LockFollows, holders >= 0, WakeLock, UNCHANGED pm
  PROVE  LockFollows'
<1>1. holders' > 0 /\ waived' = waived /\ before' = before
  BY DEF PmTypes, WakeLock
<1>2. CASE waived
  BY <1>1, <1>2 DEF LockFollows, WakeLock
<1>3. CASE ~waived
  <2>1. wl_wifi'
    <3>1. wl_wifi \/ holders = 0
      BY <1>3 DEF PmTypes, LockFollows
    <3> QED
      BY <1>3, <3>1 DEF WakeLock
  <2> QED
    BY <1>1, <1>3, <2>1 DEF LockFollows
<1> QED
  BY <1>2, <1>3

LEMMA LockReleased ==
  ASSUME PmTypes, LockFollows, holders > 0, WakeUnlock, UNCHANGED pm
  PROVE  LockFollows'
  BY DEF PmTypes, LockFollows, WakeUnlock
LEMMA SendWake ==
  ASSUME WakeInv, NEW t \in Sender, SendBegin(t) \/ SendStep(t)
  PROVE  HoldersCounted' /\ LockFollows'
<1> USE DEF WakeInv
<1>0. at \in [Sender -> {"idle", "entered", "sending", "sent", "unlock"}] /\ Xmit \subseteq Sender
  BY DEF PmTypes, Sender
<1>1. CASE (SendBegin(t) \/ SendRefused(t) \/ SendPacket(t) \/ SendEnd(t))
  <2>1. UNCHANGED wakeVars /\ UNCHANGED pm /\ UNCHANGED ioctl
    BY <1>1 DEF SendBegin, SendRefused, SendPacket, SendEnd
  <2>2. Holding' = Holding
    BY <1>0, <1>1 DEF Holding, SendBegin, SendRefused, SendPacket, SendEnd
  <2> QED
    BY <2>1, <2>2, CountStays, FollowsStays
<1>2. CASE SendAllowed(t)
  <2>1. CASE t \in Xmit
    <3>1. WakeLock /\ UNCHANGED pm /\ UNCHANGED ioctl
      BY <1>2, <2>1 DEF SendAllowed
    <3>2. Holding' = Holding \cup {t} /\ t \notin Holding
      BY <1>0, <1>2, <2>1 DEF Holding, SendAllowed
    <3>3. Cardinality(Holding') = Cardinality(Holding) + 1
      BY <3>2, HoldingFinite, FS_AddElement
    <3>4. HoldersCounted'
      BY <3>1, <3>3, HoldingFinite DEF HoldersCounted, WakeLock
    <3>5. holders >= 0
      BY HoldingFinite DEF HoldersCounted
    <3> QED
      BY <3>1, <3>4, <3>5, LockTaken
  <2>2. CASE t \notin Xmit
    <3>1. UNCHANGED wakeVars /\ UNCHANGED pm /\ UNCHANGED ioctl
      BY <1>2, <2>2 DEF SendAllowed
    <3>2. Holding' = Holding
      BY <1>0, <1>2, <2>2 DEF Holding, SendAllowed
    <3> QED
      BY <3>1, <3>2, CountStays, FollowsStays
  <2> QED
    BY <2>1, <2>2
<1>3. CASE SendUnlock(t)
  <2>0. t \in Xmit
    BY <1>3 DEF SendUnlock, PmTypes
  <2>1. WakeUnlock /\ UNCHANGED pm /\ UNCHANGED ioctl
    BY <1>3 DEF SendUnlock
  <2>2. Holding' = Holding \ {t} /\ t \in Holding
    BY <1>0, <1>3, <2>0 DEF Holding, SendUnlock
  <2>3. Cardinality(Holding') = Cardinality(Holding) - 1
    BY <2>2, HoldingFinite, FS_RemoveElement
  <2>4. Cardinality(Holding) > 0
    BY <2>2, HoldingFinite, FS_EmptySet
  <2>5. HoldersCounted' /\ holders > 0
    BY <2>1, <2>3, <2>4, HoldingFinite DEF HoldersCounted, WakeUnlock
  <2> QED
    BY <2>1, <2>5, LockReleased
<1> QED
  BY <1>1, <1>2, <1>3 DEF SendStep

LEMMA IoctlWake ==
  ASSUME WakeInv, IoctlBegin \/ IoctlStep
  PROVE  HoldersCounted' /\ LockFollows'
<1> USE DEF WakeInv
<1>0. Holding' = Holding /\ UNCHANGED pm
  BY DEF Holding, IoctlBegin, IoctlStep, IoctlBusy, IoctlWaited, IoctlTimeout, IoctlCheck,
         IoctlEnd, IoctlUnlock
<1>1. CASE IoctlBegin
  <2>1. HoldersCounted' /\ holders >= 0
    BY <1>0, <1>1, HoldingFinite DEF HoldersCounted, IoctlBegin, WakeLock
  <2> QED
    BY <1>0, <1>1, <2>1, LockTaken DEF IoctlBegin
<1>2. CASE IoctlUnlock
  <2>1. HoldersCounted' /\ holders > 0
    BY <1>0, <1>2, HoldingFinite DEF HoldersCounted, IoctlUnlock, WakeUnlock
  <2> QED
    BY <1>0, <1>2, <2>1, LockReleased DEF IoctlUnlock
<1>3. CASE IoctlBusy \/ IoctlWaited \/ IoctlTimeout \/ IoctlCheck \/ IoctlEnd
  <2>1. UNCHANGED wakeVars /\ ((ioctl = "idle") <=> (ioctl' = "idle"))
    BY <1>3 DEF IoctlBusy, IoctlWaited, IoctlTimeout, IoctlCheck, IoctlEnd
  <2> QED
    BY <1>0, <2>1, CountStays, FollowsStays
<1> QED
  BY <1>1, <1>2, <1>3 DEF IoctlStep

LEMMA SuspendWake ==
  ASSUME WakeInv, PmTypes', SuspendBegin \/ ResumeBegin \/ PmStep
  PROVE  HoldersCounted' /\ LockFollows'
<1> USE DEF WakeInv
<1>1. Holding' = Holding /\ UNCHANGED <<holders, ioctl>>
  BY DEF Holding, Waive, Restore, SuspendBegin, ResumeBegin, PmStep, SuspendIdle,
     SuspendTimeout, SuspendEnter, SuspendStop, SuspendWaive, SuspendInform, SuspendRestore,
     SuspendWakelocks, SuspendDone, SuspendBackOut, SuspendD0Inform, SuspendNoAck,
     SuspendRestart, SuspendLatch, SuspendExit, ResumeLeaveLps, ResumeHostready, ResumeData,
     ResumeWatchdog, ResumeEnd
<1>2. HoldersCounted'
  BY <1>1, CountStays
<1>3. holders >= 0
  BY HoldingFinite DEF HoldersCounted
<1>4. CASE SuspendWaive
  <2>1. pm'.pc = "inform" /\ pm.pc = "waive"
    BY <1>4 DEF SuspendWaive, Goto, PmTypes
  <2> QED
    BY <1>2, <1>3, <1>4, <2>1 DEF LockFollows, SuspendWaive, Waive
<1>5. CASE SuspendRestore
  <2>1. pm'.pc = "wakelocks" /\ pm.pc = "wait" /\ ~waived' /\ waived
    BY <1>5 DEF SuspendRestore, Restore, Goto, PmTypes, LockFollows
  <2>2. wl_wifi' <=> holders > 0
    BY <1>3, <1>5, <2>1 DEF SuspendRestore, Restore, LockFollows, PmTypes
  <2> QED
    BY <1>1, <1>2, <2>1, <2>2 DEF LockFollows
<1>6. CASE SuspendInform
  <2>1. pm.pc = "inform" /\ pm'.pc = "wait" /\ UNCHANGED wakeVars
    BY <1>6 DEF SuspendInform, Goto, PmTypes
  <2> QED
    BY <1>2, <2>1, FollowsStays
<1>7. CASE ~(SuspendWaive \/ SuspendRestore \/ SuspendInform)
  <2>1. UNCHANGED wakeVars
    BY <1>7 DEF SuspendBegin, ResumeBegin, PmStep, SuspendIdle, SuspendTimeout, SuspendEnter,
       SuspendStop, SuspendWakelocks, SuspendDone, SuspendBackOut, SuspendD0Inform,
       SuspendNoAck, SuspendRestart, SuspendLatch, SuspendExit, ResumeLeaveLps,
       ResumeHostready, ResumeData, ResumeWatchdog, ResumeEnd
  <2>2. pm.pc \notin {"inform", "wait"} /\ pm'.pc \notin {"inform", "wait"}
    BY <1>7 DEF SuspendBegin, ResumeBegin, PmStep, SuspendIdle, SuspendTimeout, SuspendEnter,
       SuspendStop, SuspendWakelocks, SuspendDone, SuspendBackOut, SuspendD0Inform,
       SuspendNoAck, SuspendRestart, SuspendLatch, SuspendExit, ResumeLeaveLps,
       ResumeHostready, ResumeData, ResumeWatchdog, ResumeEnd, Goto, PmTypes
  <2> QED
    BY <1>2, <2>1, <2>2, FollowsStays
<1> QED
  BY <1>4, <1>5, <1>6, <1>7

LEMMA WakeInit == PmInit => WakeInv
<1> SUFFICES ASSUME PmInit PROVE WakeInv
  OBVIOUS
<1>1. PmTypes
  <2>1. pm \in [pc : Pcs, active : BOOLEAN]
    BY PcNames DEF PmInit
  <2>2. /\ at \in [Sender -> {"idle", "entered", "sending", "sent", "unlock"}]
        /\ \A t \in Sender : at[t] = "unlock" => t \in Xmit
    BY DEF PmInit
  <2>3. holders \in Int /\ before \in Int
    BY DEF PmInit
  <2> QED
    BY <2>1, <2>2, <2>3, Zenon DEF PmInit, PmTypes
<1>2. Holding = {}
  BY DEF PmInit, Holding, Sender
<1>3. HoldersCounted
  BY <1>2, FS_EmptySet DEF PmInit, HoldersCounted
<1> QED
  BY <1>1, <1>3 DEF PmInit, WakeInv, LockFollows

LEMMA WakeKept ==
  ASSUME WakeInv, [PmNext]_pmVars
  PROVE  WakeInv'
<1>1. PmTypes'
  BY TypesKept DEF WakeInv
<1>2. CASE UNCHANGED pmVars
  BY <1>2 DEF WakeInv, pmVars, PmTypes, HoldersCounted, Holding, LockFollows
<1>3. CASE DongleAcks \/ Interrupt \/ DpcStep
  <2>1. UNCHANGED wakeVars /\ UNCHANGED <<pm, at, ioctl>>
    BY <1>3 DEF DongleAcks, Interrupt, DpcStep, DpcBegin, DpcAck, DpcWake, DpcFrames, DpcTxStatus,
       DpcEnable, DpcEnd
  <2>2. Holding' = Holding
    BY <2>1 DEF Holding
  <2> QED
    BY <1>1, <2>1, <2>2, CountStays, FollowsStays DEF WakeInv
<1> QED
  BY <1>1, <1>2, <1>3, SendWake, IoctlWake, SuspendWake DEF WakeInv, PmNext

\* However many transmits and ioctls come and go while the lock is waived,
\* the wake lock is held exactly when somebody counts on it
\* (dhd_os_wake_lock, dhd_os_wake_lock_waive, dhd_os_wake_lock_restore).
THEOREM PmWakeLock == PmSpec => []WakeLockExact
<1>1. WakeInv => WakeLockExact
  BY DEF WakeInv, LockFollows, WakeLockExact
<1> QED
  BY <1>1, WakeInit, WakeKept, PTL DEF PmSpec
(***************************************************************************)
(* Nobody inside a suspended bus.                                          *)
(***************************************************************************)
LEMMA SendInside ==
  ASSUME PmTypes, InsideInv, NEW t \in Sender, SendBegin(t) \/ SendStep(t)
  PROVE  InsideInv'
<1> USE DEF InsideInv
<1>0. at \in [Sender -> {"idle", "entered", "sending", "sent", "unlock"}]
      /\ Xmit \subseteq Sender /\ Fwd \subseteq Sender
  BY DEF PmTypes, Sender
<1>1. UNCHANGED <<pm, ioctl, busstate>> /\ busy \ busy' \subseteq {Bit(t)}
  BY DEF SendBegin, SendStep, SendRefused, SendAllowed, SendPacket, SendEnd, SendUnlock
<1>2. Bit(t) \in {"TX", "SEND_PKT"}
  BY DEF Bit
<1>3. ASSUME OneForwarder, NEW f \in Fwd, at'[f] /= "idle" PROVE "SEND_PKT" \in busy'
  <2>1. f \notin Xmit /\ at[f] /= "unlock"
    BY <1>0, PmAssumption DEF PmTypes
  <2>2. CASE t = f
    BY <1>0, <1>3, <2>1, <2>2 DEF BitsSet, Bit, SendBegin, SendStep, SendRefused, SendAllowed,
       SendPacket, SendEnd, SendUnlock
  <2>3. CASE t /= f
    <3>1. t \in Xmit /\ Bit(t) = "TX"
      BY <1>3, <2>3 DEF OneForwarder, Sender, Bit
    <3>2. at[f] /= "idle"
      BY <1>0, <1>3, <2>3 DEF SendBegin, SendStep, SendRefused, SendAllowed, SendPacket,
         SendEnd, SendUnlock
    <3> QED
      BY <1>1, <1>3, <3>1, <3>2 DEF BitsSet
  <2> QED
    BY <2>2, <2>3
<1>4. BitsSet'
  BY <1>1, <1>2, <1>3 DEF BitsSet, OneForwarder
<1>5. BusOfPc'
  BY <1>1, <1>2 DEF BusOfPc
<1>6. CASE SendAllowed(t)
  <2>1. busstate /= "SUSPEND" /\ pm.pc \notin QuietPcs
    BY <1>6, PcNames DEF SendAllowed, Suspending, BitsSet
  <2> QED
    BY <1>1, <1>4, <1>5, <2>1 DEF KeptOut, QuietPcs, PausePcs
<1>7. CASE ~SendAllowed(t)
  <2>1. (\A u \in Sender : Inside(u)' => Inside(u)) /\ Holding' \subseteq Holding
    BY <1>0, <1>7 DEF Inside, Holding, SendBegin, SendStep, SendRefused, SendPacket, SendEnd,
       SendUnlock
  <2> QED
    BY <1>0, <1>1, <1>4, <1>5, <2>1 DEF KeptOut, OneForwarder
<1> QED
  BY <1>6, <1>7

LEMMA IoctlInside ==
  ASSUME PmTypes, InsideInv, IoctlBegin \/ IoctlStep
  PROVE  InsideInv'
<1> USE DEF InsideInv
<1>1. UNCHANGED <<pm, at, busstate>> /\ busy \ busy' \subseteq {"IOVAR"}
  BY DEF IoctlBegin, IoctlStep, IoctlBusy, IoctlWaited, IoctlTimeout, IoctlCheck, IoctlEnd,
     IoctlUnlock
<1>2. ioctl' \in {"waiting", "check", "talking"} => "IOVAR" \in busy'
  BY DEF BitsSet, IoctlBegin, IoctlStep, IoctlBusy, IoctlWaited, IoctlTimeout, IoctlCheck,
     IoctlEnd, IoctlUnlock
<1>3. BitsSet' /\ BusOfPc'
  BY <1>1, <1>2 DEF BitsSet, BusOfPc, OneForwarder
<1>4. ioctl' = "talking" => busstate /= "SUSPEND" /\ pm.pc \notin QuietPcs
  BY PcNames DEF BitsSet, IoctlBegin, IoctlStep, IoctlBusy, IoctlWaited, IoctlTimeout,
     IoctlCheck, IoctlEnd, IoctlUnlock, Suspending
<1> QED
  BY <1>1, <1>3, <1>4 DEF KeptOut, Holding, Inside, OneForwarder

LEMMA DongleInside ==
  ASSUME InsideInv, DongleAcks \/ Interrupt \/ DpcStep
  PROVE  InsideInv'
<1>1. UNCHANGED <<pm, at, ioctl, busstate>> /\ busy \ busy' \subseteq {"DPC"}
  BY DEF DongleAcks, Interrupt, DpcStep, DpcBegin, DpcAck, DpcWake, DpcFrames, DpcTxStatus, DpcEnable, DpcEnd
<1> QED
  BY <1>1 DEF InsideInv, BitsSet, BusOfPc, KeptOut, Holding, Inside, OneForwarder

\* A step of the suspend or resume call that lets nobody new out of sight.
LEMMA KeptOutStays ==
  ASSUME KeptOut, UNCHANGED <<at, ioctl>>,
         pm'.pc \in QuietPcs \/ busstate' = "SUSPEND"
           => pm.pc \in QuietPcs \/ busstate = "SUSPEND",
         (pm'.pc = "decide" /\ ~pm'.active) \/ busstate' = "SUSPEND"
           => (pm.pc = "decide" /\ ~pm.active) \/ busstate = "SUSPEND"
  PROVE  KeptOut'
  BY DEF KeptOut, Holding, Inside, OneForwarder

\* The bits the suspend waits for are those of the ioctl and the forwarder.
LEMMA NoBitsNobody ==
  ASSUME InsideInv, busy \subseteq {"SUSPEND"}
  PROVE  /\ ioctl /= "talking"
         /\ OneForwarder => \A f \in Fwd : ~Inside(f)
  BY DEF InsideInv, BitsSet, Inside

LEMMA SuspendInside ==
  ASSUME WakeInv, InsideInv, PmTypes', SuspendBegin \/ ResumeBegin \/ PmStep
  PROVE  InsideInv'
<1> USE DEF InsideInv, SuspendPcs, QuietPcs, PausePcs, WakingPcs, AwakePcs
<1>0. pm \in [pc : Pcs, active : BOOLEAN] /\ busstate \in {"DATA", "SUSPEND"}
  BY DEF WakeInv, PmTypes
<1>1. CASE SuspendBegin
  <2>1. BitsSet' /\ BusOfPc' /\ UNCHANGED <<at, ioctl>>
    BY <1>0, <1>1 DEF SuspendBegin, Goto, BitsSet, BusOfPc, OneForwarder
  <2>2. busstate' = "DATA" /\ pm'.pc \in {"enter", "busywait"}
    BY <1>0, <1>1 DEF SuspendBegin, Goto, BusOfPc
  <2>3. CASE pm'.pc = "enter"
    <3>1. busy \subseteq {"SUSPEND"}
      BY <1>0, <1>1, <2>3 DEF SuspendBegin, Goto
    <3> QED
      BY <2>1, <2>2, <2>3, <3>1, NoBitsNobody DEF KeptOut, Holding, Inside, OneForwarder
  <2> QED
    BY <2>1, <2>2, <2>3 DEF KeptOut
<1>2. CASE SuspendIdle
  <2>1. BitsSet' /\ BusOfPc' /\ UNCHANGED <<at, ioctl>>
    BY <1>0, <1>2 DEF SuspendIdle, Goto, BitsSet, BusOfPc, OneForwarder
  <2>2. busstate' = "DATA" /\ pm'.pc \in {"enter", "busywait"}
    BY <1>0, <1>2 DEF SuspendIdle, Goto, BusOfPc
  <2>3. CASE pm'.pc = "enter"
    <3>1. busy \subseteq {"SUSPEND"}
      BY <1>0, <1>2, <2>3 DEF SuspendIdle, Goto
    <3> QED
      BY <2>1, <2>2, <2>3, <3>1, NoBitsNobody DEF KeptOut, Holding, Inside, OneForwarder
  <2> QED
    BY <2>1, <2>2, <2>3 DEF KeptOut
<1>3. CASE SuspendTimeout
  <2>1. BitsSet' /\ BusOfPc' /\ UNCHANGED <<at, ioctl>>
    BY <1>0, <1>3 DEF SuspendTimeout, Goto, BitsSet, BusOfPc, OneForwarder
  <2> QED
    BY <1>0, <1>3, <2>1, KeptOutStays DEF SuspendTimeout, Goto, BusOfPc
<1>4. CASE SuspendWakelocks
  <2>1. BitsSet' /\ BusOfPc' /\ UNCHANGED <<at, ioctl>>
    BY <1>0, <1>4 DEF SuspendWakelocks, Goto, BitsSet, BusOfPc, OneForwarder
  <2>2. busstate' = "DATA" /\ pm.pc = "wakelocks" /\ pm'.pc = "decide" /\ pm'.active = wl_wifi
    BY <1>0, <1>4 DEF SuspendWakelocks, BusOfPc
  <2>3. ASSUME ~wl_wifi PROVE Holding = {}
    <3>1. holders <= 0
      BY <2>2, <2>3 DEF WakeInv, LockFollows, PmTypes
    <3>2. Cardinality(Holding) = 0
      BY <3>1, HoldingFinite DEF WakeInv, HoldersCounted
    <3> QED
      BY <3>2, HoldingFinite, FS_EmptySet
  <2> QED
    BY <2>1, <2>2, <2>3 DEF KeptOut, Holding, Inside, OneForwarder
<1>5. CASE SuspendEnter
  <2>1. BitsSet' /\ BusOfPc' /\ UNCHANGED <<at, ioctl>>
    BY <1>0, <1>5 DEF SuspendEnter, Goto, BitsSet, BusOfPc, OneForwarder
  <2> QED
    BY <1>0, <1>5, <2>1, KeptOutStays DEF SuspendEnter, Goto, BusOfPc
<1>6. CASE SuspendStop
  <2>1. BitsSet' /\ BusOfPc' /\ UNCHANGED <<at, ioctl>>
    BY <1>0, <1>6 DEF SuspendStop, Goto, BitsSet, BusOfPc, OneForwarder
  <2> QED
    BY <1>0, <1>6, <2>1, KeptOutStays DEF SuspendStop, Goto, BusOfPc
<1>7. CASE SuspendWaive
  <2>1. BitsSet' /\ BusOfPc' /\ UNCHANGED <<at, ioctl>>
    BY <1>0, <1>7 DEF SuspendWaive, Goto, BitsSet, BusOfPc, OneForwarder
  <2> QED
    BY <1>0, <1>7, <2>1, KeptOutStays DEF SuspendWaive, Goto, BusOfPc
<1>8. CASE SuspendInform
  <2>1. BitsSet' /\ BusOfPc' /\ UNCHANGED <<at, ioctl>>
    BY <1>0, <1>8 DEF SuspendInform, Goto, BitsSet, BusOfPc, OneForwarder
  <2> QED
    BY <1>0, <1>8, <2>1, KeptOutStays DEF SuspendInform, Goto, BusOfPc
<1>9. CASE SuspendRestore
  <2>1. BitsSet' /\ BusOfPc' /\ UNCHANGED <<at, ioctl>>
    BY <1>0, <1>9 DEF SuspendRestore, Goto, BitsSet, BusOfPc, OneForwarder
  <2> QED
    BY <1>0, <1>9, <2>1, KeptOutStays DEF SuspendRestore, Goto, BusOfPc
<1>10. CASE SuspendDone
  <2>1. BitsSet' /\ BusOfPc' /\ UNCHANGED <<at, ioctl>>
    BY <1>0, <1>10 DEF SuspendDone, Goto, BitsSet, BusOfPc, OneForwarder
  <2> QED
    BY <1>0, <1>10, <2>1, KeptOutStays DEF SuspendDone, Goto, BusOfPc
<1>11. CASE SuspendBackOut
  <2>1. BitsSet' /\ BusOfPc' /\ UNCHANGED <<at, ioctl>>
    BY <1>0, <1>11 DEF SuspendBackOut, Goto, BitsSet, BusOfPc, OneForwarder
  <2> QED
    BY <1>0, <1>11, <2>1, KeptOutStays DEF SuspendBackOut, Goto, BusOfPc
<1>12. CASE SuspendD0Inform
  <2>1. BitsSet' /\ BusOfPc' /\ UNCHANGED <<at, ioctl>>
    BY <1>0, <1>12 DEF SuspendD0Inform, Goto, BitsSet, BusOfPc, OneForwarder
  <2> QED
    BY <1>0, <1>12, <2>1, KeptOutStays DEF SuspendD0Inform, Goto, BusOfPc
<1>13. CASE SuspendNoAck
  <2>1. BitsSet' /\ BusOfPc' /\ UNCHANGED <<at, ioctl>>
    BY <1>0, <1>13 DEF SuspendNoAck, Goto, BitsSet, BusOfPc, OneForwarder
  <2> QED
    BY <1>0, <1>13, <2>1, KeptOutStays DEF SuspendNoAck, Goto, BusOfPc
<1>14. CASE SuspendRestart
  <2>1. BitsSet' /\ BusOfPc' /\ UNCHANGED <<at, ioctl>>
    BY <1>0, <1>14 DEF SuspendRestart, Goto, BitsSet, BusOfPc, OneForwarder
  <2> QED
    BY <1>0, <1>14, <2>1, KeptOutStays DEF SuspendRestart, Goto, BusOfPc
<1>15. CASE SuspendLatch
  <2>1. BitsSet' /\ BusOfPc' /\ UNCHANGED <<at, ioctl>>
    BY <1>0, <1>15 DEF SuspendLatch, Goto, BitsSet, BusOfPc, OneForwarder
  <2> QED
    BY <1>0, <1>15, <2>1, KeptOutStays DEF SuspendLatch, Goto, BusOfPc
<1>16. CASE SuspendExit
  <2>1. BitsSet' /\ BusOfPc' /\ UNCHANGED <<at, ioctl>>
    BY <1>0, <1>16 DEF SuspendExit, Goto, BitsSet, BusOfPc, OneForwarder
  <2> QED
    BY <1>0, <1>16, <2>1, KeptOutStays DEF SuspendExit, Goto, BusOfPc
<1>17. CASE ResumeBegin
  <2>1. BitsSet' /\ BusOfPc' /\ UNCHANGED <<at, ioctl>>
    BY <1>0, <1>17 DEF ResumeBegin, Goto, BitsSet, BusOfPc, OneForwarder
  <2> QED
    BY <1>0, <1>17, <2>1, KeptOutStays DEF ResumeBegin, Goto, BusOfPc
<1>18. CASE ResumeLeaveLps
  <2>1. BitsSet' /\ BusOfPc' /\ UNCHANGED <<at, ioctl>>
    BY <1>0, <1>18 DEF ResumeLeaveLps, Goto, BitsSet, BusOfPc, OneForwarder
  <2> QED
    BY <1>0, <1>18, <2>1, KeptOutStays DEF ResumeLeaveLps, Goto, BusOfPc
<1>19. CASE ResumeHostready
  <2>1. BitsSet' /\ BusOfPc' /\ UNCHANGED <<at, ioctl>>
    BY <1>0, <1>19 DEF ResumeHostready, Goto, BitsSet, BusOfPc, OneForwarder
  <2> QED
    BY <1>0, <1>19, <2>1, KeptOutStays DEF ResumeHostready, Goto, BusOfPc
<1>20. CASE ResumeData
  <2>1. BitsSet' /\ BusOfPc' /\ UNCHANGED <<at, ioctl>>
    BY <1>0, <1>20 DEF ResumeData, Goto, BitsSet, BusOfPc, OneForwarder
  <2> QED
    BY <1>0, <1>20, <2>1, KeptOutStays DEF ResumeData, Goto, BusOfPc
<1>21. CASE ResumeWatchdog
  <2>1. BitsSet' /\ BusOfPc' /\ UNCHANGED <<at, ioctl>>
    BY <1>0, <1>21 DEF ResumeWatchdog, Goto, BitsSet, BusOfPc, OneForwarder
  <2> QED
    BY <1>0, <1>21, <2>1, KeptOutStays DEF ResumeWatchdog, Goto, BusOfPc
<1>22. CASE ResumeEnd
  <2>1. BitsSet' /\ BusOfPc' /\ UNCHANGED <<at, ioctl>>
    BY <1>0, <1>22 DEF ResumeEnd, Goto, BitsSet, BusOfPc, OneForwarder
  <2> QED
    BY <1>0, <1>22, <2>1, KeptOutStays DEF ResumeEnd, Goto, BusOfPc
<1> QED
  BY <1>1, <1>2, <1>3, <1>4, <1>5, <1>6, <1>7, <1>8, <1>9, <1>10, <1>11,
     <1>12, <1>13, <1>14, <1>15, <1>16, <1>17, <1>18, <1>19, <1>20, <1>21, <1>22 DEF PmStep

LEMMA InsideInit == PmInit => InsideInv
  BY PcNames DEF PmInit, InsideInv, BitsSet, BusOfPc, KeptOut, Holding, Inside, Sender, OneForwarder,
     SuspendPcs, QuietPcs, PausePcs, WakingPcs, AwakePcs

LEMMA InsideKept ==
  ASSUME WakeInv, InsideInv, [PmNext]_pmVars
  PROVE  InsideInv'
<1>1. PmTypes /\ PmTypes'
  BY TypesKept DEF WakeInv
<1>2. CASE UNCHANGED pmVars
  BY <1>2 DEF pmVars, InsideInv, BitsSet, BusOfPc, KeptOut, Holding, Inside, OneForwarder
<1> QED
  BY <1>1, <1>2, SendInside, IoctlInside, DongleInside, SuspendInside DEF PmNext

\* No transmit and no ioctl is past the check that lets it in when the bus
\* is suspended, nor is a forwarder who has the send bit to himself, for any
\* number of CPUs (dhd_start_xmit, dhd_sendpkt, dhd_wl_ioctl,
\* dhdpcie_pci_suspend).
THEOREM PmNobodyInside == PmSpec => []NobodyInside
<1>1. PmTypes /\ InsideInv => NobodyInside
  <2> SUFFICES ASSUME PmTypes, InsideInv, busstate = "SUSPEND" PROVE NobodyInside
    BY DEF NobodyInside
  <2>1. at \in [Sender -> {"idle", "entered", "sending", "sent", "unlock"}]
        /\ \A f \in Fwd : at[f] /= "unlock"
    BY PmAssumption DEF PmTypes, Sender
  <2> QED
    BY <2>1 DEF InsideInv, KeptOut, Holding, Inside, NobodyInside, Sender
<1> QED
  BY <1>1, WakeInit, WakeKept, InsideInit, InsideKept, PTL DEF PmSpec, WakeInv
(***************************************************************************)
(* The interrupts and the low power state.                                 *)
(***************************************************************************)
BusParts == LowPowerOfPc /\ Handshake /\ NotDeaf /\ Shut

LEMMA GivenUpStays ==
  ASSUME PmTypes, PmTypes', PmNext, GivenUp
  PROVE  GivenUp'
  BY DEF GivenUp, PmNext, PmTypes, Goto, SendStep, IoctlStep, DpcStep, PmStep,
      SendBegin, SendRefused, SendAllowed, SendPacket, SendEnd, SendUnlock, IoctlBegin,
      IoctlBusy, IoctlWaited, IoctlTimeout, IoctlCheck, IoctlEnd, IoctlUnlock,
      DongleAcks, Interrupt, DpcBegin, DpcAck, DpcWake, DpcFrames, DpcTxStatus, DpcEnable, DpcEnd,
      SuspendBegin, SuspendIdle, SuspendTimeout, SuspendEnter, SuspendStop,
      SuspendWaive, SuspendInform, SuspendRestore, SuspendWakelocks, SuspendDone,
      SuspendBackOut, SuspendD0Inform, SuspendNoAck, SuspendRestart, SuspendLatch,
      SuspendExit, ResumeBegin, ResumeLeaveLps, ResumeHostready, ResumeData,
      ResumeWatchdog, ResumeEnd

LEMMA OthersBus ==
  ASSUME BusParts,
         (\E t \in Sender : SendBegin(t) \/ SendStep(t)) \/ IoctlBegin \/ IoctlStep
  PROVE  BusParts'
<1>1. UNCHANGED <<busstate, low_power, d3_ack, intr, watchdog, bus_error, pm, dpc, dongle, mailbox>>
  BY DEF SendStep, IoctlStep,
      SendBegin, SendRefused, SendAllowed, SendPacket, SendEnd, SendUnlock, IoctlBegin,
      IoctlBusy, IoctlWaited, IoctlTimeout, IoctlCheck, IoctlEnd, IoctlUnlock
<1> QED
  BY <1>1 DEF BusParts, LowPowerOfPc, Handshake, NotDeaf, Shut

LEMMA DongleBus ==
  ASSUME PmTypes, ~bus_error, Silent, BusParts, DongleAcks \/ Interrupt \/ DpcStep
  PROVE  BusParts'
<1> USE DEF BusParts
<1>0. UNCHANGED <<pm, busstate, bus_error, watchdog>>
  BY DEF DpcStep,
      DongleAcks, Interrupt, DpcBegin, DpcAck, DpcWake, DpcFrames, DpcTxStatus, DpcEnable, DpcEnd
<1>1. Shut'
  BY <1>0 DEF Shut
<1>2. CASE DongleAcks
  BY <1>0, <1>1, <1>2 DEF PmTypes, LowPowerOfPc, Handshake, NotDeaf, DongleAcks
<1>3. CASE Interrupt
  BY <1>0, <1>1, <1>3 DEF PmTypes, LowPowerOfPc, Handshake, NotDeaf, Interrupt
<1>4. CASE DpcBegin
  BY <1>0, <1>1, <1>4 DEF PmTypes, LowPowerOfPc, Handshake, NotDeaf, DpcBegin
<1>5. CASE DpcAck
  BY <1>0, <1>1, <1>5 DEF PmTypes, LowPowerOfPc, Handshake, NotDeaf, DpcAck
<1>6. CASE DpcWake
  <2>1. d3_ack' /\ dpc = "acking" /\ dpc' = "ending" /\ UNCHANGED <<low_power, intr, dongle, mailbox>>
    BY <1>6 DEF DpcWake
  <2>2. LowPowerOfPc' /\ NotDeaf'
    BY <1>0, <2>1 DEF LowPowerOfPc, NotDeaf
  <2>3. Handshake'
    BY <1>0, <2>1 DEF Handshake, PausePcs
  <2> QED
    BY <1>1, <2>2, <2>3
<1>7. CASE DpcFrames
  BY <1>0, <1>1, <1>7 DEF PmTypes, LowPowerOfPc, Handshake, NotDeaf, DpcFrames
<1>7a. CASE DpcTxStatus
  BY <1>0, <1>1, <1>7a DEF PmTypes, LowPowerOfPc, Handshake, NotDeaf, DpcTxStatus
<1>8. CASE DpcEnable
  BY <1>0, <1>1, <1>8 DEF PmTypes, LowPowerOfPc, Handshake, NotDeaf, DpcEnable, IntrEnable
<1>9. CASE DpcEnd
  BY <1>0, <1>1, <1>9 DEF PmTypes, LowPowerOfPc, Handshake, NotDeaf, DpcEnd
<1> QED
  BY <1>2, <1>3, <1>4, <1>5, <1>6, <1>7, <1>7a, <1>8, <1>9 DEF DpcStep

LEMMA CallBus ==
  ASSUME PmTypes, InsideInv, ~GivenUp, ~GivenUp', BusParts, Silent,
         SuspendBegin \/ ResumeBegin \/ PmStep
  PROVE  BusParts'
<1> USE DEF BusParts, PausePcs
<1>0. BusOfPc /\ pm.pc \in Pcs
  BY DEF InsideInv, PmTypes
<1>1. CASE SuspendBegin
  <2>1. LowPowerOfPc' /\ Handshake'
    BY <1>0, <1>1 DEF PmTypes, GivenUp, Goto, BusOfPc, SuspendPcs, QuietPcs, WakingPcs, AwakePcs,
       LowPowerOfPc, Handshake, SuspendBegin
  <2>2. NotDeaf' /\ Shut'
    BY <1>0, <1>1 DEF PmTypes, GivenUp, Goto, BusOfPc, SuspendPcs, QuietPcs, WakingPcs, AwakePcs,
       LowPowerOfPc, Handshake, NotDeaf, Shut, SuspendBegin
  <2> QED
    BY <2>1, <2>2
<1>2. CASE SuspendIdle
  <2>1. LowPowerOfPc' /\ Handshake'
    BY <1>0, <1>2 DEF PmTypes, GivenUp, Goto, BusOfPc, SuspendPcs, QuietPcs, WakingPcs, AwakePcs,
       LowPowerOfPc, Handshake, SuspendIdle
  <2>2. NotDeaf' /\ Shut'
    BY <1>0, <1>2 DEF PmTypes, GivenUp, Goto, BusOfPc, SuspendPcs, QuietPcs, WakingPcs, AwakePcs,
       LowPowerOfPc, Handshake, NotDeaf, Shut, SuspendIdle
  <2> QED
    BY <2>1, <2>2
<1>3. CASE SuspendTimeout
  <2>1. LowPowerOfPc' /\ Handshake'
    BY <1>0, <1>3 DEF PmTypes, GivenUp, Goto, BusOfPc, SuspendPcs, QuietPcs, WakingPcs, AwakePcs,
       LowPowerOfPc, Handshake, SuspendTimeout
  <2>2. NotDeaf' /\ Shut'
    BY <1>0, <1>3 DEF PmTypes, GivenUp, Goto, BusOfPc, SuspendPcs, QuietPcs, WakingPcs, AwakePcs,
       LowPowerOfPc, Handshake, NotDeaf, Shut, SuspendTimeout
  <2> QED
    BY <2>1, <2>2
<1>4. CASE SuspendEnter
  <2>1. LowPowerOfPc' /\ Handshake'
    BY <1>0, <1>4 DEF PmTypes, GivenUp, Goto, BusOfPc, SuspendPcs, QuietPcs, WakingPcs, AwakePcs,
       LowPowerOfPc, Handshake, SuspendEnter
  <2>2. NotDeaf' /\ Shut'
    BY <1>0, <1>4 DEF PmTypes, GivenUp, Goto, BusOfPc, SuspendPcs, QuietPcs, WakingPcs, AwakePcs,
       LowPowerOfPc, Handshake, NotDeaf, Shut, SuspendEnter
  <2> QED
    BY <2>1, <2>2
<1>5. CASE SuspendStop
  <2>1. LowPowerOfPc' /\ Handshake'
    BY <1>0, <1>5 DEF PmTypes, GivenUp, Goto, BusOfPc, SuspendPcs, QuietPcs, WakingPcs, AwakePcs,
       LowPowerOfPc, Handshake, SuspendStop
  <2>2. NotDeaf' /\ Shut'
    BY <1>0, <1>5 DEF PmTypes, GivenUp, Goto, BusOfPc, SuspendPcs, QuietPcs, WakingPcs, AwakePcs,
       LowPowerOfPc, Handshake, NotDeaf, Shut, SuspendStop
  <2> QED
    BY <2>1, <2>2
<1>6. CASE SuspendWaive
  <2>1. LowPowerOfPc' /\ Handshake'
    BY <1>0, <1>6 DEF PmTypes, GivenUp, Goto, BusOfPc, SuspendPcs, QuietPcs, WakingPcs, AwakePcs,
       LowPowerOfPc, Handshake, SuspendWaive
  <2>2. NotDeaf' /\ Shut'
    BY <1>0, <1>6 DEF PmTypes, GivenUp, Goto, BusOfPc, SuspendPcs, QuietPcs, WakingPcs, AwakePcs,
       LowPowerOfPc, Handshake, NotDeaf, Shut, SuspendWaive
  <2> QED
    BY <2>1, <2>2
<1>7. CASE SuspendInform
  <2>1. LowPowerOfPc' /\ Handshake'
    BY <1>0, <1>7 DEF PmTypes, GivenUp, Goto, BusOfPc, SuspendPcs, QuietPcs, WakingPcs, AwakePcs,
       LowPowerOfPc, Handshake, SuspendInform
  <2>2. NotDeaf' /\ Shut'
    BY <1>0, <1>7 DEF PmTypes, GivenUp, Goto, BusOfPc, SuspendPcs, QuietPcs, WakingPcs, AwakePcs,
       LowPowerOfPc, Handshake, NotDeaf, Shut, SuspendInform
  <2> QED
    BY <2>1, <2>2
<1>8. CASE SuspendRestore
  <2>1. LowPowerOfPc' /\ Handshake'
    BY <1>0, <1>8 DEF PmTypes, GivenUp, Goto, BusOfPc, SuspendPcs, QuietPcs, WakingPcs, AwakePcs,
       LowPowerOfPc, Handshake, SuspendRestore
  <2>2. NotDeaf' /\ Shut'
    BY <1>0, <1>8 DEF PmTypes, GivenUp, Goto, BusOfPc, SuspendPcs, QuietPcs, WakingPcs, AwakePcs,
       LowPowerOfPc, Handshake, NotDeaf, Shut, SuspendRestore
  <2> QED
    BY <2>1, <2>2
<1>9. CASE SuspendWakelocks
  <2>1. LowPowerOfPc' /\ Handshake'
    BY <1>0, <1>9 DEF PmTypes, GivenUp, Goto, BusOfPc, SuspendPcs, QuietPcs, WakingPcs, AwakePcs,
       LowPowerOfPc, Handshake, SuspendWakelocks
  <2>2. NotDeaf' /\ Shut'
    BY <1>0, <1>9 DEF PmTypes, GivenUp, Goto, BusOfPc, SuspendPcs, QuietPcs, WakingPcs, AwakePcs,
       LowPowerOfPc, Handshake, NotDeaf, Shut, SuspendWakelocks
  <2> QED
    BY <2>1, <2>2
<1>10. CASE SuspendDone
  <2>1. LowPowerOfPc' /\ Handshake'
    BY <1>0, <1>10 DEF PmTypes, GivenUp, Goto, BusOfPc, SuspendPcs, QuietPcs, WakingPcs, AwakePcs,
       LowPowerOfPc, Handshake, SuspendDone
  <2>2. NotDeaf' /\ Shut'
    BY <1>0, <1>10 DEF PmTypes, GivenUp, Goto, BusOfPc, SuspendPcs, QuietPcs, WakingPcs, AwakePcs,
       LowPowerOfPc, Handshake, NotDeaf, Shut, SuspendDone
  <2> QED
    BY <2>1, <2>2
<1>11. CASE SuspendBackOut
  <2>1. LowPowerOfPc' /\ Handshake'
    BY <1>0, <1>11 DEF PmTypes, GivenUp, Goto, BusOfPc, SuspendPcs, QuietPcs, WakingPcs, AwakePcs,
       LowPowerOfPc, Handshake, SuspendBackOut
  <2>2. NotDeaf' /\ Shut'
    BY <1>0, <1>11 DEF PmTypes, GivenUp, Goto, BusOfPc, SuspendPcs, QuietPcs, WakingPcs, AwakePcs,
       LowPowerOfPc, Handshake, NotDeaf, Shut, SuspendBackOut
  <2> QED
    BY <2>1, <2>2
<1>12. CASE SuspendD0Inform
  <2>1. LowPowerOfPc' /\ Handshake'
    BY <1>0, <1>12 DEF PmTypes, GivenUp, Goto, BusOfPc, SuspendPcs, QuietPcs, WakingPcs, AwakePcs,
       LowPowerOfPc, Handshake, SuspendD0Inform, IntrEnable
  <2>2. NotDeaf' /\ Shut'
    BY <1>0, <1>12 DEF PmTypes, GivenUp, Goto, BusOfPc, SuspendPcs, QuietPcs, WakingPcs, AwakePcs,
       LowPowerOfPc, Handshake, NotDeaf, Shut, SuspendD0Inform, IntrEnable
  <2> QED
    BY <2>1, <2>2
<1>13. CASE SuspendNoAck
  <2>1. LowPowerOfPc' /\ Handshake'
    BY <1>0, <1>13 DEF PmTypes, GivenUp, Goto, BusOfPc, SuspendPcs, QuietPcs, WakingPcs, AwakePcs,
       LowPowerOfPc, Handshake, SuspendNoAck
  <2>2. NotDeaf' /\ Shut'
    BY <1>0, <1>13 DEF PmTypes, GivenUp, Goto, BusOfPc, SuspendPcs, QuietPcs, WakingPcs, AwakePcs,
       LowPowerOfPc, Handshake, NotDeaf, Shut, SuspendNoAck
  <2> QED
    BY <2>1, <2>2
<1>14. CASE SuspendRestart
  <2>1. LowPowerOfPc' /\ Handshake'
    BY <1>0, <1>14 DEF PmTypes, GivenUp, Goto, BusOfPc, SuspendPcs, QuietPcs, WakingPcs, AwakePcs,
       LowPowerOfPc, Handshake, SuspendRestart
  <2>2. NotDeaf' /\ Shut'
    BY <1>0, <1>14 DEF PmTypes, GivenUp, Goto, BusOfPc, SuspendPcs, QuietPcs, WakingPcs, AwakePcs,
       LowPowerOfPc, Handshake, NotDeaf, Shut, SuspendRestart
  <2> QED
    BY <2>1, <2>2
<1>15. CASE SuspendLatch
  <2>1. LowPowerOfPc' /\ Handshake'
    BY <1>0, <1>15 DEF PmTypes, GivenUp, Goto, BusOfPc, SuspendPcs, QuietPcs, WakingPcs, AwakePcs,
       LowPowerOfPc, Handshake, SuspendLatch
  <2>2. NotDeaf' /\ Shut'
    BY <1>0, <1>15 DEF PmTypes, GivenUp, Goto, BusOfPc, SuspendPcs, QuietPcs, WakingPcs, AwakePcs,
       LowPowerOfPc, Handshake, NotDeaf, Shut, SuspendLatch
  <2> QED
    BY <2>1, <2>2
<1>16. CASE SuspendExit
  <2>1. LowPowerOfPc' /\ Handshake'
    BY <1>0, <1>16 DEF PmTypes, GivenUp, Goto, BusOfPc, SuspendPcs, QuietPcs, WakingPcs, AwakePcs,
       LowPowerOfPc, Handshake, SuspendExit
  <2>2. NotDeaf' /\ Shut'
    BY <1>0, <1>16 DEF PmTypes, GivenUp, Goto, BusOfPc, SuspendPcs, QuietPcs, WakingPcs, AwakePcs,
       LowPowerOfPc, Handshake, NotDeaf, Shut, SuspendExit
  <2> QED
    BY <2>1, <2>2
<1>17. CASE ResumeBegin
  <2>1. LowPowerOfPc' /\ Handshake'
    BY <1>0, <1>17 DEF PmTypes, GivenUp, Goto, BusOfPc, SuspendPcs, QuietPcs, WakingPcs, AwakePcs,
       LowPowerOfPc, Handshake, ResumeBegin
  <2>2. NotDeaf' /\ Shut'
    BY <1>0, <1>17 DEF PmTypes, GivenUp, Goto, BusOfPc, SuspendPcs, QuietPcs, WakingPcs, AwakePcs,
       LowPowerOfPc, Handshake, NotDeaf, Shut, ResumeBegin
  <2> QED
    BY <2>1, <2>2
<1>18. CASE ResumeLeaveLps
  <2>1. LowPowerOfPc' /\ Handshake'
    BY <1>0, <1>18 DEF PmTypes, GivenUp, Goto, BusOfPc, SuspendPcs, QuietPcs, WakingPcs, AwakePcs,
       LowPowerOfPc, Handshake, ResumeLeaveLps
  <2>2. NotDeaf' /\ Shut'
    BY <1>0, <1>18 DEF PmTypes, GivenUp, Goto, BusOfPc, SuspendPcs, QuietPcs, WakingPcs, AwakePcs,
       LowPowerOfPc, Handshake, NotDeaf, Shut, ResumeLeaveLps
  <2> QED
    BY <2>1, <2>2
<1>19. CASE ResumeHostready
  <2>1. LowPowerOfPc' /\ Handshake'
    BY <1>0, <1>19 DEF PmTypes, GivenUp, Goto, BusOfPc, SuspendPcs, QuietPcs, WakingPcs, AwakePcs,
       LowPowerOfPc, Handshake, ResumeHostready
  <2>2. NotDeaf' /\ Shut'
    BY <1>0, <1>19 DEF PmTypes, GivenUp, Goto, BusOfPc, SuspendPcs, QuietPcs, WakingPcs, AwakePcs,
       LowPowerOfPc, Handshake, NotDeaf, Shut, ResumeHostready
  <2> QED
    BY <2>1, <2>2
<1>20. CASE ResumeData
  <2>1. LowPowerOfPc' /\ Handshake'
    BY <1>0, <1>20 DEF PmTypes, GivenUp, Goto, BusOfPc, SuspendPcs, QuietPcs, WakingPcs, AwakePcs,
       LowPowerOfPc, Handshake, ResumeData, IntrEnable
  <2>2. NotDeaf' /\ Shut'
    BY <1>0, <1>20 DEF PmTypes, GivenUp, Goto, BusOfPc, SuspendPcs, QuietPcs, WakingPcs, AwakePcs,
       LowPowerOfPc, Handshake, NotDeaf, Shut, ResumeData, IntrEnable
  <2> QED
    BY <2>1, <2>2
<1>21. CASE ResumeWatchdog
  <2>1. LowPowerOfPc' /\ Handshake'
    BY <1>0, <1>21 DEF PmTypes, GivenUp, Goto, BusOfPc, SuspendPcs, QuietPcs, WakingPcs, AwakePcs,
       LowPowerOfPc, Handshake, ResumeWatchdog
  <2>2. NotDeaf' /\ Shut'
    BY <1>0, <1>21 DEF PmTypes, GivenUp, Goto, BusOfPc, SuspendPcs, QuietPcs, WakingPcs, AwakePcs,
       LowPowerOfPc, Handshake, NotDeaf, Shut, ResumeWatchdog
  <2> QED
    BY <2>1, <2>2
<1>22. CASE ResumeEnd
  <2>1. LowPowerOfPc' /\ Handshake'
    BY <1>0, <1>22 DEF PmTypes, GivenUp, Goto, BusOfPc, SuspendPcs, QuietPcs, WakingPcs, AwakePcs,
       LowPowerOfPc, Handshake, ResumeEnd
  <2>2. NotDeaf' /\ Shut'
    BY <1>0, <1>22 DEF PmTypes, GivenUp, Goto, BusOfPc, SuspendPcs, QuietPcs, WakingPcs, AwakePcs,
       LowPowerOfPc, Handshake, NotDeaf, Shut, ResumeEnd
  <2> QED
    BY <2>1, <2>2
<1> QED
  BY <1>1, <1>2, <1>3, <1>4, <1>5, <1>6, <1>7, <1>8, <1>9, <1>10, <1>11,
     <1>12, <1>13, <1>14, <1>15, <1>16, <1>17, <1>18, <1>19, <1>20, <1>21, <1>22 DEF PmStep

LEMMA SilentKept ==
  ASSUME PmTypes, Silent, PmNext
  PROVE  Silent'
<1>1. CASE low_power' = low_power
  <2>1. ASSUME low_power = "ACKED" PROVE ~intr'
    BY <1>1, <2>1 DEF Silent, PmNext, PmTypes, IntrEnable, SendStep, IoctlStep, DpcStep, PmStep,
      SendBegin, SendRefused, SendAllowed, SendPacket, SendEnd, SendUnlock, IoctlBegin,
      IoctlBusy, IoctlWaited, IoctlTimeout, IoctlCheck, IoctlEnd, IoctlUnlock,
      DongleAcks, Interrupt, DpcBegin, DpcAck, DpcWake, DpcFrames, DpcTxStatus, DpcEnable, DpcEnd,
      SuspendBegin, SuspendIdle, SuspendTimeout, SuspendEnter, SuspendStop,
      SuspendWaive, SuspendInform, SuspendRestore, SuspendWakelocks, SuspendDone,
      SuspendBackOut, SuspendD0Inform, SuspendNoAck, SuspendRestart, SuspendLatch,
      SuspendExit, ResumeBegin, ResumeLeaveLps, ResumeHostready, ResumeData,
      ResumeWatchdog, ResumeEnd
  <2> QED
    BY <1>1, <2>1 DEF Silent
<1>2. CASE low_power' /= low_power
  BY <1>2 DEF Silent, PmNext, SendStep, IoctlStep, DpcStep, PmStep,
      SendBegin, SendRefused, SendAllowed, SendPacket, SendEnd, SendUnlock, IoctlBegin,
      IoctlBusy, IoctlWaited, IoctlTimeout, IoctlCheck, IoctlEnd, IoctlUnlock,
      DongleAcks, Interrupt, DpcBegin, DpcAck, DpcWake, DpcFrames, DpcTxStatus, DpcEnable, DpcEnd,
      SuspendBegin, SuspendIdle, SuspendTimeout, SuspendEnter, SuspendStop,
      SuspendWaive, SuspendInform, SuspendRestore, SuspendWakelocks, SuspendDone,
      SuspendBackOut, SuspendD0Inform, SuspendNoAck, SuspendRestart, SuspendLatch,
      SuspendExit, ResumeBegin, ResumeLeaveLps, ResumeHostready, ResumeData,
      ResumeWatchdog, ResumeEnd
<1> QED
  BY <1>1, <1>2

LEMMA BusKept ==
  ASSUME WakeInv, InsideInv, Silent, BusInv, [PmNext]_pmVars
  PROVE  Silent' /\ BusInv'
<1>1. PmTypes /\ PmTypes'
  BY TypesKept DEF WakeInv
<1>2. CASE UNCHANGED pmVars
  BY <1>2 DEF pmVars, Silent, BusInv, GivenUp, LowPowerOfPc, Handshake, NotDeaf, Shut
<1>3. CASE PmNext
  <2>1. Silent'
    BY <1>1, <1>3, SilentKept
  <2>2. ASSUME ~GivenUp' PROVE BusParts'
    <3>1. ~GivenUp /\ BusParts /\ ~bus_error
      BY <1>1, <1>3, <2>2, GivenUpStays DEF BusInv, BusParts, GivenUp
    <3> QED
      BY <1>1, <1>3, <2>2, <3>1, OthersBus, DongleBus, CallBus DEF PmNext
  <2> QED
    BY <2>1, <2>2 DEF BusInv, BusParts
<1> QED
  BY <1>2, <1>3

\* Between two calls a bus that has not been given up is silent when it is
\* suspended and listening when it is not, whichever of the suspend call,
\* the DPC and the interrupt handler touched the interrupts last
\* (dhdpcie_bus_suspend, dhd_bus_handle_d3_ack, dhdpcie_bus_intr_enable).
THEOREM PmBusMatches == PmSpec => []BusStateMatches
<1>1. PmInit => Silent /\ BusInv
  BY DEF PmInit, Silent, BusInv, GivenUp, LowPowerOfPc, Handshake, NotDeaf, Shut, PausePcs
<1>2. Silent /\ BusInv => BusStateMatches
  BY DEF BusInv, GivenUp, LowPowerOfPc, NotDeaf, Shut, BusStateMatches, Silent
<1> QED
  BY <1>1, <1>2, WakeInit, WakeKept, InsideInit, InsideKept, BusKept, PTL DEF PmSpec
=============================================================================
