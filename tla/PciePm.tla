------------------------------- MODULE PciePm -------------------------------
(***************************************************************************)
(* System suspend and resume of the PCIe bus against everything that may   *)
(* be using it: transmits (dhd_start_xmit), forwarded packets              *)
(* (dhd_sendpkt), ioctls (dhd_wl_ioctl) and the DPC that handles the       *)
(* dongle's messages.  Each of them announces itself in                    *)
(* dhd_bus_busy_state, one bit for all transmits together, and transmits   *)
(* and ioctls hold the wake lock as well.  pci_suspend waits for the bits, *)
(* sends D3_INFORM, waits for D3_ACK and backs out when the wake lock is   *)
(* held.                                                                   *)
(*                                                                         *)
(* An action is one stretch of code under the general lock, under the low  *)
(* power lock or under the wake lock's spin lock, or one unlocked access.  *)
(* Builds: Android, PCIe full dongle, wake locks, no runtime PM, no device *)
(* wake; the throughput test does not run.  The stop of the queues when    *)
(* packet ids run out is left out.  The definitions marked as slips are    *)
(* faulty variants that nobody uses.                                       *)
(***************************************************************************)
EXTENDS Integers, FiniteSets

CONSTANTS
  Xmit,   \* the CPUs that may be in dhd_start_xmit
  Fwd     \* the threads that may be in dhd_sendpkt

\* A CPU or thread is named for the call it is in.
ASSUME PmAssumption == IsFiniteSet(Xmit) /\ Xmit \cap Fwd = {}

VARIABLES
  busstate,  \* DATA or SUSPEND
  busy,      \* the bits of dhd_bus_busy_state
  low_power, \* bus_low_power_state
  d3_ack,    \* wait_for_d3_ack
  intr,      \* the dongle's interrupt mask is open
  stopped,   \* the network queues are stopped
  watchdog,  \* the watchdog timer is armed
  bus_error, \* d3ack_timeout_occured
  holders,   \* wakelock_counter
  waived,    \* waive_wakelock
  before,    \* wakelock_before_waive
  wl_wifi,   \* the kernel's wake lock is held
  pm,        \* where the suspend or resume call is, and what it has read
  at,        \* where each transmit is
  ioctl,     \* where the ioctl is
  dpc,       \* where the DPC is
  dongle,    \* awake, told to sleep by D3_INFORM, or asleep
  mailbox    \* a D3_ACK waits for the host

busVars == <<busstate, low_power, d3_ack, intr, stopped, watchdog, bus_error>>
wakeVars == <<holders, waived, before, wl_wifi>>
dongleVars == <<dongle, mailbox>>
pmVars == <<busVars, busy, wakeVars, pm, at, ioctl, dpc, dongleVars>>

Sender == Xmit \cup Fwd
Bit(t) == IF t \in Xmit THEN "TX" ELSE "SEND_PKT"

PmInit ==
  /\ busstate = "DATA" /\ busy = {} /\ low_power = "NONE" /\ d3_ack = FALSE
  /\ intr = TRUE /\ stopped = FALSE /\ watchdog = TRUE /\ bus_error = FALSE
  /\ holders = 0 /\ waived = FALSE /\ before = 0 /\ wl_wifi = FALSE
  /\ pm = [pc |-> "idle", active |-> FALSE]
  /\ at = [t \in Sender |-> "idle"]
  /\ ioctl = "idle" /\ dpc = "idle" /\ dongle = "awake" /\ mailbox = FALSE

----------------------------------------------------------------------------
(* The wake lock: a count of holders, backed by one lock of the kernel.    *)

WakeLock ==
  /\ holders' = holders + 1
  /\ wl_wifi' = (wl_wifi \/ (holders = 0 /\ ~waived))
  /\ UNCHANGED <<waived, before>>

WakeUnlock ==
  /\ holders' = holders - 1
  /\ wl_wifi' = (wl_wifi /\ ~(holders = 1 /\ ~waived))
  /\ UNCHANGED <<waived, before>>

Waive ==
  /\ waived' = TRUE
  /\ before' = holders
  /\ UNCHANGED <<holders, wl_wifi>>

\* A slip: only the waiver ends.
RestoreNoMakeUp ==
  waived' = FALSE /\ before' = 0 /\ UNCHANGED <<holders, wl_wifi>>

\* Makes up for the locks taken and released while waived.
Restore ==
  /\ waived' = FALSE
  /\ before' = 0
  /\ wl_wifi' = CASE before = 0 /\ holders > 0 -> TRUE
                  [] before > 0 /\ holders = 0 -> FALSE
                  [] OTHER -> wl_wifi
  /\ UNCHANGED holders

----------------------------------------------------------------------------
(* Transmits.                                                              *)

Suspending == busstate = "SUSPEND" \/ "SUSPEND" \in busy

\* The first hold of the general lock.  The network stack calls for a
\* queue that is not stopped.
SendBegin(t) ==
  /\ at[t] = "idle"
  /\ t \in Xmit => ~stopped /\ ~bus_error
  /\ busy' = busy \cup {Bit(t)}
  /\ at' = [at EXCEPT ![t] = "entered"]
  /\ UNCHANGED <<busVars, wakeVars, pm, ioctl, dpc, dongleVars>>

\* The second hold: refuse, and stop the queues, or take the wake lock.
SendRefused(t) ==
  /\ at[t] = "entered" /\ Suspending
  /\ busy' = busy \ {Bit(t)}
  /\ stopped' = (stopped \/ (t \in Xmit /\ ("SUSPEND" \in busy \/ "RESUME" \notin busy)))
  /\ at' = [at EXCEPT ![t] = "idle"]
  /\ UNCHANGED <<busstate, low_power, d3_ack, intr, watchdog, bus_error, wakeVars,
                 pm, ioctl, dpc, dongleVars>>

SendAllowed(t) ==
  /\ at[t] = "entered" /\ ~Suspending
  /\ IF t \in Xmit THEN WakeLock ELSE UNCHANGED wakeVars
  /\ at' = [at EXCEPT ![t] = "sending"]
  /\ UNCHANGED <<busVars, busy, pm, ioctl, dpc, dongleVars>>

\* __dhd_sendpkt looks at busstate once more, without the lock, and drops
\* the packet or writes it to its ring; the doorbell is left out in low power.
SendPacket(t) ==
  /\ at[t] = "sending"
  /\ at' = [at EXCEPT ![t] = "sent"]
  /\ UNCHANGED <<busVars, busy, wakeVars, pm, ioctl, dpc, dongleVars>>

\* The bit is cleared whoever else has set it.
SendEnd(t) ==
  /\ at[t] = "sent"
  /\ busy' = busy \ {Bit(t)}
  /\ at' = [at EXCEPT ![t] = IF t \in Xmit THEN "unlock" ELSE "idle"]
  /\ UNCHANGED <<busVars, wakeVars, pm, ioctl, dpc, dongleVars>>

SendUnlock(t) ==
  /\ at[t] = "unlock"
  /\ WakeUnlock
  /\ at' = [at EXCEPT ![t] = "idle"]
  /\ UNCHANGED <<busVars, busy, pm, ioctl, dpc, dongleVars>>

SendStep(t) ==
  \/ SendRefused(t) \/ SendAllowed(t) \/ SendPacket(t)
  \/ SendEnd(t) \/ SendUnlock(t)

----------------------------------------------------------------------------
(* An ioctl.  dhd_os_proto_block lets one in at a time.                    *)

IoctlBegin ==
  /\ ioctl = "idle"
  /\ WakeLock
  /\ ioctl' = "locked"
  /\ UNCHANGED <<busVars, busy, pm, at, dpc, dongleVars>>

IoctlBusy ==
  /\ ioctl = "locked"
  /\ busy' = busy \cup {"IOVAR"}
  /\ ioctl' = IF "SUSPEND" \in busy THEN "waiting" ELSE "check"
  /\ UNCHANGED <<busVars, wakeVars, pm, at, dpc, dongleVars>>

\* Until the suspend has bailed out, or DHD_BUS_BUSY_TIMEOUT.
IoctlWaited ==
  /\ ioctl = "waiting"
  /\ "SUSPEND" \notin busy
  /\ ioctl' = "check"
  /\ UNCHANGED <<busVars, busy, wakeVars, pm, at, dpc, dongleVars>>

IoctlTimeout ==
  /\ ioctl = "waiting"
  /\ ioctl' = "check"
  /\ UNCHANGED <<busVars, busy, wakeVars, pm, at, dpc, dongleVars>>

IoctlCheck ==
  /\ ioctl = "check"
  /\ IF Suspending
     THEN busy' = busy \ {"IOVAR"} /\ ioctl' = "unlock"
     ELSE ioctl' = "talking" /\ UNCHANGED busy
  /\ UNCHANGED <<busVars, wakeVars, pm, at, dpc, dongleVars>>

\* The request and its answer, or its timeout.
IoctlEnd ==
  /\ ioctl = "talking"
  /\ busy' = busy \ {"IOVAR"}
  /\ ioctl' = "unlock"
  /\ UNCHANGED <<busVars, wakeVars, pm, at, dpc, dongleVars>>

IoctlUnlock ==
  /\ ioctl = "unlock"
  /\ WakeUnlock
  /\ ioctl' = "idle"
  /\ UNCHANGED <<busVars, busy, pm, at, dpc, dongleVars>>

IoctlStep ==
  \/ IoctlBusy \/ IoctlWaited \/ IoctlTimeout \/ IoctlCheck \/ IoctlEnd \/ IoctlUnlock

----------------------------------------------------------------------------
(* The dongle and the DPC.                                                 *)

\* The dongle answers D3_INFORM, if it is alive, in its own time.
DongleAcks ==
  /\ dongle = "told"
  /\ dongle' = "asleep"
  /\ mailbox' = TRUE
  /\ UNCHANGED <<busVars, busy, wakeVars, pm, at, ioctl, dpc>>

\* A slip: the acknowledgement is not looked at.
IntrEnableAlways == intr' = TRUE

\* dhdpcie_bus_intr_enable: never after the acknowledgement.
IntrEnable == intr' = (intr \/ low_power /= "ACKED")

\* An interrupt, for the acknowledgement or for data, schedules the DPC.
Interrupt ==
  /\ intr /\ dpc = "idle" /\ low_power /= "ACKED"
  /\ mailbox \/ dongle = "awake"
  /\ intr' = FALSE
  /\ dpc' = "scheduled"
  /\ UNCHANGED <<busstate, low_power, d3_ack, stopped, watchdog, bus_error, busy,
                 wakeVars, pm, at, ioctl, dongleVars>>

DpcBegin ==
  /\ dpc = "scheduled"
  /\ busy' = busy \cup {"DPC"}
  /\ dpc' = "running"
  /\ UNCHANGED <<busVars, wakeVars, pm, at, ioctl, dongleVars>>

\* dhd_bus_handle_d3_ack closes the interrupts and marks the bus, in this
\* order, before it wakes the suspend call.
DpcAck ==
  /\ dpc = "running" /\ mailbox /\ low_power /= "ACKED"
  /\ mailbox' = FALSE
  /\ IF d3_ack THEN dpc' = "ending" /\ UNCHANGED <<intr, low_power>>
               ELSE dpc' = "acking" /\ intr' = FALSE /\ low_power' = "ACKED"
  /\ UNCHANGED <<busstate, d3_ack, stopped, watchdog, bus_error, busy, wakeVars,
                 pm, at, ioctl, dongle>>

DpcWake ==
  /\ dpc = "acking"
  /\ d3_ack' = TRUE
  /\ dpc' = "ending"
  /\ UNCHANGED <<busstate, low_power, intr, stopped, watchdog, bus_error, busy,
                 wakeVars, pm, at, ioctl, dongleVars>>

\* No acknowledgement among the control messages.  The other rings are read
\* only on a bus that is out of low power at this look, without a lock.
DpcFrames ==
  /\ dpc = "running" /\ (~mailbox \/ low_power = "ACKED")
  /\ dpc' = IF low_power = "NONE" /\ ~bus_error THEN "frames" ELSE "ending"
  /\ UNCHANGED <<busVars, busy, wakeVars, pm, at, ioctl, dongleVars>>

\* A transmit status that brings the free packet ids to a certain number
\* starts the network queues (dhd_bus_start_queue), whatever stopped them.
DpcTxStatus ==
  /\ dpc = "frames"
  /\ stopped' \in {stopped, FALSE}
  /\ dpc' = "ending"
  /\ UNCHANGED <<busstate, low_power, d3_ack, intr, watchdog, bus_error, busy,
                 wakeVars, pm, at, ioctl, dongleVars>>

DpcEnable ==
  /\ dpc = "ending"
  /\ IF bus_error THEN UNCHANGED intr ELSE IntrEnable
  /\ dpc' = "leaving"
  /\ UNCHANGED <<busstate, low_power, d3_ack, stopped, watchdog, bus_error, busy,
                 wakeVars, pm, at, ioctl, dongleVars>>

DpcEnd ==
  /\ dpc = "leaving"
  /\ busy' = busy \ {"DPC"}
  /\ dpc' = "idle"
  /\ UNCHANGED <<busVars, wakeVars, pm, at, ioctl, dongleVars>>

DpcStep ==
  DpcBegin \/ DpcAck \/ DpcWake \/ DpcFrames \/ DpcTxStatus \/ DpcEnable \/ DpcEnd

----------------------------------------------------------------------------
(* Suspend: dhdpcie_pci_suspend and dhdpcie_bus_suspend(bus, TRUE).        *)

Goto(pc) == pm' = [pm EXCEPT !.pc = pc]

SuspendBegin ==
  /\ pm.pc = "idle" /\ busstate = "DATA"
  /\ busy' = busy \cup {"SUSPEND"}
  /\ Goto(IF busy = {} THEN "enter" ELSE "busywait")
  /\ UNCHANGED <<busVars, wakeVars, at, ioctl, dpc, dongleVars>>

\* dhd_os_busbusy_wait_bitmask: only the suspend's own bit is left.
SuspendIdle ==
  /\ pm.pc = "busywait" /\ busy = {"SUSPEND"}
  /\ Goto("enter")
  /\ UNCHANGED <<busVars, busy, wakeVars, at, ioctl, dpc, dongleVars>>

\* A slip: the wait has no end of its own.
SuspendTimeoutIdle ==
  /\ pm.pc = "busywait" /\ busy = {"SUSPEND"}
  /\ Goto("exit")
  /\ UNCHANGED <<busVars, busy, wakeVars, at, ioctl, dpc, dongleVars>>

SuspendTimeout ==
  /\ pm.pc = "busywait"
  /\ Goto("exit")
  /\ UNCHANGED <<busVars, busy, wakeVars, at, ioctl, dpc, dongleVars>>

\* Nothing is tried on a bus with an error; else the watchdog stops.
SuspendEnter ==
  /\ pm.pc = "enter"
  /\ watchdog' = (watchdog /\ bus_error)
  /\ Goto(IF bus_error THEN "exit" ELSE "stop")
  /\ UNCHANGED <<busstate, low_power, d3_ack, intr, stopped, bus_error, busy,
                 wakeVars, at, ioctl, dpc, dongleVars>>

\* A transmit that has come in since: -EBUSY, with the watchdog off.
SuspendStop ==
  /\ pm.pc = "stop"
  /\ stopped' = (stopped \/ "TX" \notin busy)
  /\ Goto(IF "TX" \in busy THEN "exit" ELSE "waive")
  /\ UNCHANGED <<busstate, low_power, d3_ack, intr, watchdog, bus_error, busy,
                 wakeVars, at, ioctl, dpc, dongleVars>>

SuspendWaive ==
  /\ pm.pc = "waive"
  /\ Waive
  /\ d3_ack' = FALSE
  /\ Goto("inform")
  /\ UNCHANGED <<busstate, low_power, intr, stopped, watchdog, bus_error, busy,
                 at, ioctl, dpc, dongleVars>>

\* The message, its doorbell and the mark go out under the low power lock.
SuspendInform ==
  /\ pm.pc = "inform"
  /\ low_power' = "INFORM_SENT"
  /\ dongle' = "told"
  /\ Goto("wait")
  /\ UNCHANGED <<busstate, d3_ack, intr, stopped, watchdog, bus_error, busy,
                 wakeVars, at, ioctl, dpc, mailbox>>

\* Woken by the DPC, or D3_ACK_RESP_TIMEOUT.
SuspendRestore ==
  /\ pm.pc = "wait"
  /\ Restore
  /\ Goto("wakelocks")
  /\ UNCHANGED <<busVars, busy, at, ioctl, dpc, dongleVars>>

\* At most MAX_WKLK_IDLE_CHECK looks at the wake lock.
SuspendWakelocks ==
  /\ pm.pc = "wakelocks"
  /\ pm' = [pc |-> "decide", active |-> wl_wifi]
  /\ UNCHANGED <<busVars, busy, wakeVars, at, ioctl, dpc, dongleVars>>

\* A slip: the wake lock does not turn the suspend back.
SuspendDoneAnyway ==
  /\ pm.pc = "decide" /\ d3_ack
  /\ busstate' = "SUSPEND"
  /\ Goto("exit")
  /\ UNCHANGED <<low_power, d3_ack, intr, stopped, watchdog, bus_error, busy,
                 wakeVars, at, ioctl, dpc, dongleVars>>

SuspendDone ==
  /\ pm.pc = "decide" /\ d3_ack /\ ~pm.active
  /\ busstate' = "SUSPEND"
  /\ Goto("exit")
  /\ UNCHANGED <<low_power, d3_ack, intr, stopped, watchdog, bus_error, busy,
                 wakeVars, at, ioctl, dpc, dongleVars>>

\* Somebody holds the wake lock: bring the dongle back.
SuspendBackOut ==
  /\ pm.pc = "decide" /\ d3_ack /\ pm.active
  /\ watchdog' = TRUE
  /\ d3_ack' = FALSE
  /\ low_power' = "NONE"
  /\ Goto("d0_inform")
  /\ UNCHANGED <<busstate, intr, stopped, bus_error, busy, wakeVars, at, ioctl,
                 dpc, dongleVars>>

SuspendD0Inform ==
  /\ pm.pc = "d0_inform"
  /\ IntrEnable
  /\ dongle' = "awake"
  /\ Goto("restart")
  /\ UNCHANGED <<busstate, low_power, d3_ack, stopped, watchdog, bus_error, busy,
                 wakeVars, at, ioctl, dpc, mailbox>>

\* No acknowledgement: the bus is given up.
SuspendNoAck ==
  /\ pm.pc = "decide" /\ ~d3_ack
  /\ low_power' = "NONE"
  /\ Goto("no_ack")
  /\ UNCHANGED <<busstate, d3_ack, intr, stopped, watchdog, bus_error, busy,
                 wakeVars, at, ioctl, dpc, dongleVars>>

SuspendRestart ==
  /\ pm.pc \in {"restart", "no_ack"}
  /\ busstate' = "DATA"
  /\ stopped' = FALSE
  /\ Goto(IF pm.pc = "restart" THEN "exit" ELSE "latch")
  /\ UNCHANGED <<low_power, d3_ack, intr, watchdog, bus_error, busy, wakeVars, at,
                 ioctl, dpc, dongleVars>>

SuspendLatch ==
  /\ pm.pc = "latch"
  /\ bus_error' = TRUE
  /\ Goto("exit")
  /\ UNCHANGED <<busstate, low_power, d3_ack, intr, stopped, watchdog, busy,
                 wakeVars, at, ioctl, dpc, dongleVars>>

SuspendExit ==
  /\ pm.pc = "exit"
  /\ busy' = busy \ {"SUSPEND"}
  /\ pm' = [pc |-> "idle", active |-> FALSE]
  /\ UNCHANGED <<busVars, wakeVars, at, ioctl, dpc, dongleVars>>

----------------------------------------------------------------------------
(* Resume: dhdpcie_pci_resume and dhdpcie_bus_suspend(bus, FALSE).  The    *)
(* kernel resumes a device it has suspended.                               *)

ResumeBegin ==
  /\ pm.pc = "idle" /\ busstate = "SUSPEND"
  /\ busy' = busy \cup {"RESUME"}
  /\ Goto("leave_lps")
  /\ UNCHANGED <<busVars, wakeVars, at, ioctl, dpc, dongleVars>>

ResumeLeaveLps ==
  /\ pm.pc = "leave_lps"
  /\ low_power' = "NONE"
  /\ Goto("hostready")
  /\ UNCHANGED <<busstate, d3_ack, intr, stopped, watchdog, bus_error, busy,
                 wakeVars, at, ioctl, dpc, dongleVars>>

ResumeHostready ==
  /\ pm.pc = "hostready"
  /\ dongle' = "awake"
  /\ Goto("data")
  /\ UNCHANGED <<busVars, busy, wakeVars, at, ioctl, dpc, mailbox>>

ResumeData ==
  /\ pm.pc = "data"
  /\ busstate' = "DATA"
  /\ stopped' = FALSE
  /\ IntrEnable
  /\ Goto("watchdog")
  /\ UNCHANGED <<low_power, d3_ack, watchdog, bus_error, busy, wakeVars, at, ioctl,
                 dpc, dongleVars>>

ResumeWatchdog ==
  /\ pm.pc = "watchdog"
  /\ watchdog' = TRUE
  /\ Goto("resumed")
  /\ UNCHANGED <<busstate, low_power, d3_ack, intr, stopped, bus_error, busy,
                 wakeVars, at, ioctl, dpc, dongleVars>>

ResumeEnd ==
  /\ pm.pc = "resumed"
  /\ busy' = busy \ {"RESUME"}
  /\ Goto("idle")
  /\ UNCHANGED <<busVars, wakeVars, at, ioctl, dpc, dongleVars>>

PmStep ==
  \/ SuspendIdle \/ SuspendTimeout \/ SuspendEnter \/ SuspendStop \/ SuspendWaive
  \/ SuspendInform \/ SuspendRestore \/ SuspendWakelocks \/ SuspendDone
  \/ SuspendBackOut \/ SuspendD0Inform \/ SuspendNoAck \/ SuspendRestart
  \/ SuspendLatch \/ SuspendExit
  \/ ResumeLeaveLps \/ ResumeHostready \/ ResumeData \/ ResumeWatchdog \/ ResumeEnd

PmNext ==
  \/ \E t \in Sender : SendBegin(t) \/ SendStep(t)
  \/ IoctlBegin \/ IoctlStep
  \/ DongleAcks \/ Interrupt \/ DpcStep
  \/ SuspendBegin \/ ResumeBegin \/ PmStep

PmSpec == PmInit /\ [][PmNext]_pmVars

\* Every thread that has entered the driver goes on, and its waits time
\* out; the dongle, the network stack and the user owe nothing.
PmFairness ==
  /\ \A t \in Sender : WF_pmVars(SendStep(t))
  /\ WF_pmVars(IoctlStep) /\ WF_pmVars(DpcStep) /\ WF_pmVars(PmStep)

PmFairSpec == PmSpec /\ PmFairness

----------------------------------------------------------------------------
(* Properties.                                                             *)

\* Code: wakelock_counter and the kernel's lock are kept apart while the
\* lock is waived; after dhd_os_wake_lock_restore the lock is held exactly
\* when somebody counts on it.
WakeLockExact == ~waived => (wl_wifi <=> holders > 0)

OneForwarder == \A f, g \in Fwd : f = g

\* Code: the transmit bit is shared, so it may be clear while a transmit is
\* on its way; the wake lock still has to turn the suspend back.  On a
\* suspended bus nobody is past the check that lets him in.  dhd_sendpkt
\* shares a bit as well and takes no wake lock: the code keeps this promise
\* to a forwarder only while no other one can clear the bit under him.
NobodyInside ==
  busstate = "SUSPEND" =>
    /\ \A t \in Xmit : at[t] \in {"idle", "entered"}
    /\ OneForwarder => \A t \in Fwd : at[t] \in {"idle", "entered"}
    /\ ioctl /= "talking"

\* Code: the suspend call, the DPC and the interrupt handler each switch
\* the interrupts and the low power state.  Between two calls a suspended
\* bus is silent, and one in use is out of low power with its interrupts
\* on, unless a DPC is still to switch them on.  That the network queues of
\* a suspended bus are stopped is not promised: a transmit status handled
\* between the stop and D3_ACK starts them.
BusStateMatches ==
  pm.pc = "idle" /\ ~bus_error =>
    IF busstate = "SUSPEND"
    THEN low_power = "ACKED" /\ ~intr /\ ~watchdog
    ELSE low_power = "NONE" /\ (intr \/ dpc \in {"scheduled", "running", "frames", "ending"})

\* Code: a suspend waits for the busy bits and an ioctl that has set one of
\* them waits for the suspend; both return, if only by their timeouts.
CallsReturn ==
  /\ pm.pc /= "idle" ~> pm.pc = "idle"
  /\ ioctl /= "idle" ~> ioctl = "idle"
=============================================================================
