------------------------------ MODULE SdioTx --------------------------------
(***************************************************************************)
(* Transmission over SDIO (dhd_sdio.c): senders put packets into the bus   *)
(* queue, and dhdsdio_dpc, run by the DPC thread and by the thread of the  *)
(* SDIO interrupt, takes them out as far as the dongle's window of         *)
(* sequence numbers allows.  A control frame that finds no room in the     *)
(* window waits for the DPC to send it.                                    *)
(*                                                                         *)
(* The DPC and the control call hold sdlock, the senders only the lock of  *)
(* the queue, so they look at dpc_sched and at the length of the queue     *)
(* while the DPC changes them.  An action is what a thread does under the  *)
(* queue's lock or in one unlocked access.                                 *)
(*                                                                         *)
(* One precedence; proptxstatus off; the bus up and awake, its clock on;   *)
(* the dongle's flow control bits are left out, and the queue has room for *)
(* all packets.  Packets are counted.  The definitions marked as slips are *)
(* faulty variants that nobody uses.                                       *)
(***************************************************************************)
EXTENDS Integers, Sequences, FiniteSets, FiniteSetsExt

CONSTANTS
  TxThread,    \* threads in dhd_bus_txdata
  SEQ_WRAP,    \* SDPCM_SEQUENCE_WRAP
  CREDIT,      \* the window at the start, 4 in the code
  WINDOW,      \* the frames the dongle has room for
  FCHI, FCLOW, \* lengths at which the network queues stop and start
  GLOM,        \* the packets of one chain
  TXBOUND, RXBOUND,
  TXINRX,      \* conf->txinrx_thres
  MaxSends,    \* bound on the packets
  MaxCtl,      \* bound on the control frames
  MaxRx        \* bound on the frames the dongle has for the host

ASSUME SdioAssumption ==
  /\ SEQ_WRAP \in Nat \ {0, 1} /\ CREDIT \in Nat /\ WINDOW \in Nat
  /\ FCHI \in Nat \ {0} /\ FCLOW \in Nat \ {0}
  /\ GLOM \in Nat \ {0} /\ TXBOUND \in Nat \ {0} /\ RXBOUND \in Nat \ {0}

\* The dongle has room for the frames it lets the host send before its first grant.
ASSUME CreditAssumption == CREDIT <= WINDOW

VARIABLES
  txq,        \* the length of bus->txq
  netif_off,  \* the network queues are stopped
  tx,         \* where each sender is
  dpc_sched,
  dpc_sema,   \* the DPC thread's semaphore is up
  runner,     \* is each of the two threads about to run dhdsdio_dpc
  run,        \* dhdsdio_dpc: who runs it, where it is, its local variables
  ipend, intdis, intstatus,
  tx_seq, tx_max,
  ctl,        \* where dhd_bus_txctl is
  ctrl_frame_stat,
  rx,         \* the frames the dongle has for the host
  dev_int,    \* the dongle raises its interrupt
  offered,    \* the end of the window in the dongle's last frame
  sends, ctls \* the packets and control frames so far

txqVars == <<txq, netif_off>>
schedVars == <<dpc_sched, dpc_sema>>
intVars == <<ipend, intdis, intstatus>>
windowVars == <<tx_seq, tx_max>>
ctlVars == <<ctl, ctrl_frame_stat, ctls>>
devVars == <<rx, dev_int, offered>>
sdioVars == <<txqVars, tx, sends, schedVars, runner, run, intVars, windowVars,
              ctlVars, devVars>>

SeqRoom == (tx_max - tx_seq) % SEQ_WRAP
Ahead == 2 * SeqRoom < SEQ_WRAP
TXCTLOK == SeqRoom /= 0 /\ Ahead
DATAOK == SeqRoom > 1 /\ Ahead
DATABUFCNT == SeqRoom - 1

Runner == {"thread", "isr"}
NotRunning == [by |-> "nobody", at |-> "none", rxleft |-> 0, rxdone |-> TRUE,
               txleft |-> 0, back |-> "none", resched |-> FALSE]
Unlocked == run.by = "nobody"

\* A bus that has sent some of its first frames.
SdioInit ==
  /\ txq = 0 /\ netif_off = FALSE
  /\ tx = [t \in TxThread |-> "idle"]
  /\ dpc_sched = FALSE /\ dpc_sema = FALSE
  /\ runner = [r \in Runner |-> "idle"] /\ run = NotRunning
  /\ ipend = FALSE /\ intdis = FALSE /\ intstatus = FALSE
  /\ tx_seq = SEQ_WRAP - 2
  /\ tx_max \in {(tx_seq + left) % SEQ_WRAP : left \in 0 .. CREDIT}
  /\ ctl = "idle" /\ ctrl_frame_stat = FALSE
  /\ rx = <<>> /\ dev_int = FALSE /\ offered = tx_max
  /\ sends = 0 /\ ctls = 0

----------------------------------------------------------------------------
(* A sender: dhd_bus_txdata, which always defers to the DPC.               *)

TxTo(t, at) == tx' = [tx EXCEPT ![t] = at]

\* The network stack sends while its queue runs.
TxEnq(t) ==
  /\ tx[t] = "idle" /\ ~netif_off /\ sends < MaxSends
  /\ txq' = txq + 1
  /\ sends' = sends + 1
  /\ TxTo(t, "length")
  /\ UNCHANGED <<netif_off, schedVars, runner, run, intVars, windowVars, ctlVars, devVars>>

TxLength(t) ==
  /\ tx[t] = "length"
  /\ TxTo(t, IF txq >= FCHI THEN "stop" ELSE "look")
  /\ UNCHANGED <<txqVars, sends, schedVars, runner, run, intVars, windowVars,
                 ctlVars, devVars>>

\* dhd_txflowcontrol(ON), on the length as it was.
TxStop(t) ==
  /\ tx[t] = "stop"
  /\ netif_off' = TRUE
  /\ TxTo(t, "look")
  /\ UNCHANGED <<txq, sends, schedVars, runner, run, intVars, windowVars, ctlVars, devVars>>

TxLook(t) ==
  /\ tx[t] = "look"
  /\ dpc_sched' = TRUE
  /\ TxTo(t, IF dpc_sched THEN "idle" ELSE "up")
  /\ UNCHANGED <<txqVars, sends, dpc_sema, runner, run, intVars, windowVars,
                 ctlVars, devVars>>

\* dhd_sched_dpc.
TxUp(t) ==
  /\ tx[t] = "up"
  /\ dpc_sema' = TRUE
  /\ TxTo(t, "idle")
  /\ UNCHANGED <<txqVars, sends, dpc_sched, runner, run, intVars, windowVars,
                 ctlVars, devVars>>

TxStep(t) == TxLength(t) \/ TxStop(t) \/ TxLook(t) \/ TxUp(t)

----------------------------------------------------------------------------
(* A control frame: dhd_bus_txctl, one at a time.                          *)

SchedIfNot ==
  /\ dpc_sched' = TRUE
  /\ dpc_sema' = (dpc_sema \/ ~dpc_sched)

\* Without room it lets go of sdlock until there is, or txctl_tmo_fix ends.
CtlNoRoom ==
  /\ ctl = "idle" /\ ctls < MaxCtl /\ Unlocked /\ ~TXCTLOK
  /\ ctl' = "room"
  /\ ctls' = ctls + 1
  /\ UNCHANGED <<txqVars, tx, sends, schedVars, runner, run, intVars, windowVars,
                 ctrl_frame_stat, devVars>>

\* A slip: after the wait the room is taken for granted.
CtlSendUnchecked ==
  /\ \/ ctl = "idle" /\ TXCTLOK /\ ctls < MaxCtl /\ ctls' = ctls + 1
     \/ ctl = "room" /\ UNCHANGED ctls
  /\ Unlocked
  /\ tx_seq' \in {tx_seq, (tx_seq + 1) % SEQ_WRAP}
  /\ ctl' = "idle"
  /\ UNCHANGED <<txqVars, tx, sends, schedVars, runner, run, intVars, tx_max,
                 ctrl_frame_stat, devVars>>

\* The frame may be lost on the bus.
CtlSend ==
  /\ \/ ctl = "idle" /\ ctls < MaxCtl /\ ctls' = ctls + 1
     \/ ctl = "room" /\ UNCHANGED ctls
  /\ Unlocked /\ TXCTLOK
  /\ tx_seq' \in {tx_seq, (tx_seq + 1) % SEQ_WRAP}
  /\ ctl' = "idle"
  /\ UNCHANGED <<txqVars, tx, sends, schedVars, runner, run, intVars, tx_max,
                 ctrl_frame_stat, devVars>>

\* Still no room: the DPC is to send it.
CtlLeave ==
  /\ ctl = "room" /\ Unlocked /\ ~TXCTLOK
  /\ ctrl_frame_stat' = TRUE
  /\ SchedIfNot
  /\ ctl' = "left"
  /\ UNCHANGED <<txqVars, tx, sends, runner, run, intVars, windowVars, ctls, devVars>>

\* A slip: the caller goes without calling off its frame.
CtlReturnOnly ==
  /\ ctl = "left" /\ Unlocked
  /\ ctl' = "idle"
  /\ UNCHANGED <<txqVars, tx, sends, schedVars, runner, run, intVars, windowVars,
                 ctrl_frame_stat, ctls, devVars>>

\* Woken by the DPC, or IOCTL_RESP_TIMEOUT.
CtlReturn ==
  /\ ctl = "left" /\ Unlocked
  /\ ctrl_frame_stat' = FALSE
  /\ ctl' = "idle"
  /\ UNCHANGED <<txqVars, tx, sends, schedVars, runner, run, intVars, windowVars,
                 ctls, devVars>>

CtlStep == CtlNoRoom \/ CtlSend \/ CtlLeave \/ CtlReturn

----------------------------------------------------------------------------
(* Who runs the DPC.                                                       *)

\* dhdsdio_isr, in the thread of the SDIO interrupt, runs the DPC itself.
Isr ==
  /\ dev_int /\ ~intdis /\ runner["isr"] = "idle"
  /\ ipend' = TRUE
  /\ intdis' = TRUE
  /\ runner' = [runner EXCEPT !["isr"] = "ready"]
  /\ UNCHANGED <<txqVars, tx, sends, schedVars, run, intstatus, windowVars,
                 ctlVars, devVars>>

DpcThreadWakes ==
  /\ dpc_sema /\ runner["thread"] = "idle"
  /\ dpc_sema' = FALSE
  /\ runner' = [runner EXCEPT !["thread"] = "ready"]
  /\ UNCHANGED <<txqVars, tx, sends, dpc_sched, run, intVars, windowVars,
                 ctlVars, devVars>>

\* A slip: the watchdog looks after the dongle only.
WatchdogPoll ==
  /\ Unlocked /\ ~dpc_sched /\ dev_int
  /\ dpc_sched' = TRUE
  /\ dpc_sema' = TRUE
  /\ UNCHANGED <<txqVars, tx, sends, runner, run, intVars, windowVars, ctlVars, devVars>>

\* dhd_bus_watchdog: packets that nobody is going to send.
WatchdogTick ==
  /\ Unlocked /\ ~dpc_sched /\ txq > 0
  /\ dpc_sched' = TRUE
  /\ dpc_sema' = TRUE
  /\ UNCHANGED <<txqVars, tx, sends, runner, run, intVars, windowVars, ctlVars, devVars>>

----------------------------------------------------------------------------
(* dhdsdio_dpc, from sdlock to sdunlock.                                   *)

RunTo(at) == run' = [run EXCEPT !.at = at]

\* The status is read and acknowledged after an interrupt only.
DpcLock(r) ==
  /\ runner[r] = "ready" /\ Unlocked
  /\ runner' = [runner EXCEPT ![r] = "running"]
  /\ ipend' = FALSE
  /\ intstatus' = (intstatus \/ (ipend /\ dev_int))
  /\ dev_int' = (dev_int /\ ~ipend)
  /\ run' = [NotRunning EXCEPT !.by = r, !.rxleft = RXBOUND,
               !.at = IF intstatus' THEN "rx" ELSE "enable"]
  /\ UNCHANGED <<txqVars, tx, sends, schedVars, intdis, windowVars, ctlVars, rx, offered>>

\* dhdsdio_sendpendctl; whatever becomes of the frame it is done with.
SendPendCtl ==
  /\ TXCTLOK /\ ctrl_frame_stat
  /\ tx_seq' \in {tx_seq, (tx_seq + 1) % SEQ_WRAP}
  /\ ctrl_frame_stat' = FALSE
  /\ UNCHANGED tx_max

\* Between two frames: a control frame, or many packets, go out first.
RxSendCtl ==
  /\ run.at = "rx" /\ SendPendCtl
  /\ RunTo("frame")
  /\ UNCHANGED <<txqVars, tx, sends, schedVars, runner, intVars, ctl, ctls, devVars>>

RxSendData ==
  /\ run.at = "rx" /\ ~(TXCTLOK /\ ctrl_frame_stat)
  /\ DATAOK /\ txq > TXINRX
  /\ run' = [run EXCEPT !.at = "send", !.back = "frame", !.txleft = TXBOUND]
  /\ UNCHANGED <<txqVars, tx, sends, schedVars, runner, intVars, windowVars,
                 ctlVars, devVars>>

\* An unlikely window is not taken over.
Unlikely(max) == 16 * ((max - tx_seq) % SEQ_WRAP) > 7 * SEQ_WRAP

RxFrame ==
  /\ \/ run.at = "frame"
     \/ run.at = "rx" /\ ~(TXCTLOK /\ ctrl_frame_stat)
  /\ rx /= <<>>
  /\ tx_max' = IF Unlikely(Head(rx)) THEN tx_max ELSE Head(rx)
  /\ rx' = Tail(rx)
  /\ run' = [run EXCEPT !.at = IF run.rxleft > 1 THEN "rx" ELSE "enable",
                        !.rxleft = @ - 1, !.rxdone = FALSE]
  /\ UNCHANGED <<txqVars, tx, sends, schedVars, runner, intVars, tx_seq, ctlVars,
                 dev_int, offered>>

RxNoFrame ==
  /\ run.at \in {"rx", "frame"} /\ rx = <<>>
  /\ run' = [run EXCEPT !.at = "enable", !.rxdone = TRUE]
  /\ UNCHANGED <<txqVars, tx, sends, schedVars, runner, intVars, windowVars,
                 ctlVars, devVars>>

\* What is still to be read is kept for the next run.
EnableIntr ==
  /\ run.at = "enable"
  /\ intdis' = FALSE
  /\ intstatus' = ~run.rxdone

DpcSendCtl ==
  /\ EnableIntr /\ SendPendCtl
  /\ RunTo("more")
  /\ UNCHANGED <<txqVars, tx, sends, schedVars, runner, ipend, ctl, ctls, devVars>>

Sendable == txq > 0 /\ DATAOK

DpcSendData ==
  /\ EnableIntr /\ ~(TXCTLOK /\ ctrl_frame_stat) /\ Sendable
  /\ run' = [run EXCEPT !.at = "send", !.back = "more",
               !.txleft = IF run.rxdone THEN TXBOUND ELSE Min({TXBOUND, DATABUFCNT})]
  /\ UNCHANGED <<txqVars, tx, sends, schedVars, runner, ipend, windowVars, ctlVars, devVars>>

DpcSendNothing ==
  /\ EnableIntr /\ ~(TXCTLOK /\ ctrl_frame_stat) /\ ~Sendable
  /\ RunTo("more")
  /\ UNCHANGED <<txqVars, tx, sends, schedVars, runner, ipend, windowVars, ctlVars, devVars>>

----------------------------------------------------------------------------
(* dhdsdio_sendfromq.                                                      *)

\* The packets of a chain are freed also when the bus has failed to take it.
SendChain ==
  LET n == Min({GLOM, txq, DATABUFCNT})
  IN  /\ run.at = "send" /\ run.txleft > 0 /\ txq > 0 /\ DATAOK
      /\ txq' = txq - n
      /\ tx_seq' \in {tx_seq, (tx_seq + n) % SEQ_WRAP}
      /\ run' = [run EXCEPT !.txleft = Max({@ - n, 0})]
      /\ UNCHANGED <<netif_off, tx, sends, schedVars, runner, intVars, tx_max,
                     ctlVars, devVars>>

\* A slip: packets sent between two received frames do not count.
SendLengthInDpc ==
  /\ run.at = "send" /\ ~(run.txleft > 0 /\ txq > 0 /\ DATAOK)
  /\ run' = [run EXCEPT !.txleft = 0,
       !.at = IF txq < FCLOW /\ netif_off /\ run.back = "more" THEN "restart" ELSE run.back]
  /\ UNCHANGED <<txqVars, tx, sends, schedVars, runner, intVars, windowVars,
                 ctlVars, devVars>>

\* The length is read under the queue's lock, and used after it.
SendLength ==
  /\ run.at = "send" /\ ~(run.txleft > 0 /\ txq > 0 /\ DATAOK)
  /\ run' = [run EXCEPT !.at = IF txq < FCLOW /\ netif_off THEN "restart" ELSE run.back,
                        !.txleft = 0]
  /\ UNCHANGED <<txqVars, tx, sends, schedVars, runner, intVars, windowVars,
                 ctlVars, devVars>>

SendRestart ==
  /\ run.at = "restart"
  /\ netif_off' = FALSE
  /\ RunTo(run.back)
  /\ UNCHANGED <<txq, tx, sends, schedVars, runner, intVars, windowVars, ctlVars, devVars>>

----------------------------------------------------------------------------
(* The end of dhdsdio_dpc.                                                 *)

\* Is there more to do that does not wait for the dongle?
DpcMore ==
  /\ run.at = "more"
  /\ run' = [NotRunning EXCEPT !.by = run.by, !.at = "mark",
               !.resched = ctrl_frame_stat \/ intstatus \/ ipend \/ Sendable]
  /\ UNCHANGED <<txqVars, tx, sends, schedVars, runner, intVars, windowVars,
                 ctlVars, devVars>>

\* A slip: the thread of the interrupt does not care about the rest.
DpcMarkForgets ==
  /\ run.at = "mark"
  /\ dpc_sched' = run.resched
  /\ runner' = [runner EXCEPT ![run.by] =
                  IF run.resched /\ run.by = "thread" THEN "ready" ELSE "idle"]
  /\ run' = NotRunning
  /\ UNCHANGED <<txqVars, tx, sends, dpc_sema, intVars, windowVars, ctlVars, devVars>>

\* Whatever a sender has put into dpc_sched meanwhile.  Then sdunlock, and
\* the DPC thread goes round again.
DpcMark ==
  /\ run.at = "mark"
  /\ dpc_sched' = run.resched
  /\ runner' = [runner EXCEPT ![run.by] =
       IF ~run.resched THEN "idle" ELSE IF run.by = "isr" THEN "again" ELSE "ready"]
  /\ run' = NotRunning
  /\ UNCHANGED <<txqVars, tx, sends, dpc_sema, intVars, windowVars, ctlVars, devVars>>

\* The thread of the interrupt leaves the rest to the DPC thread.
IsrAgain ==
  /\ runner["isr"] = "again"
  /\ dpc_sched' = TRUE
  /\ dpc_sema' = TRUE
  /\ runner' = [runner EXCEPT !["isr"] = "idle"]
  /\ UNCHANGED <<txqVars, tx, sends, run, intVars, windowVars, ctlVars, devVars>>

DpcStep ==
  \/ \E r \in Runner : DpcLock(r)
  \/ RxSendCtl \/ RxSendData \/ RxFrame \/ RxNoFrame
  \/ DpcSendCtl \/ DpcSendData \/ DpcSendNothing \/ SendChain \/ SendLength \/ SendRestart
  \/ DpcMore \/ DpcMark

----------------------------------------------------------------------------
(* The dongle (external) offers all the room it has, in a frame of its own *)
(* or in one it sends anyway.                                              *)

DongleGrant ==
  /\ Len(rx) < MaxRx /\ (offered - tx_seq) % SEQ_WRAP < WINDOW
  /\ offered' = (tx_seq + WINDOW) % SEQ_WRAP
  /\ rx' = Append(rx, offered')
  /\ dev_int' = TRUE
  /\ UNCHANGED <<txqVars, tx, sends, schedVars, runner, run, intVars, windowVars, ctlVars>>

SdioNext ==
  \/ \E t \in TxThread : TxEnq(t) \/ TxStep(t)
  \/ CtlStep
  \/ Isr \/ IsrAgain \/ DpcThreadWakes \/ WatchdogTick
  \/ DpcStep
  \/ DongleGrant

SdioSpec == SdioInit /\ [][SdioNext]_sdioVars

\* Threads go on, the semaphore sdlock is first come first served, the watchdog's
\* timer runs, and the dongle makes room in the end while packets wait for it.
SdioFairness ==
  /\ \A t \in TxThread : WF_sdioVars(TxStep(t))
  /\ WF_sdioVars(Isr \/ IsrAgain) /\ WF_sdioVars(DpcThreadWakes) /\ WF_sdioVars(WatchdogTick)
  /\ WF_sdioVars(DpcStep) /\ \A r \in Runner : SF_sdioVars(DpcLock(r))
  /\ WF_sdioVars(txq > 0 /\ DongleGrant)

SdioFairSpec == SdioSpec /\ SdioFairness

----------------------------------------------------------------------------
(* Properties.                                                             *)

\* Code: dpc_sched keeps the senders from waking the DPC.  So whenever it is
\* set somebody is going to run the DPC, or a sender to wake its thread.
RunOwed ==
  dpc_sched => \/ dpc_sema
               \/ \E r \in Runner : runner[r] /= "idle"
               \/ \E t \in TxThread : tx[t] = "up"

\* Code: the frame that waits for the DPC lies in the buffer of the caller
\* of dhd_bus_txctl.  It never waits after that call has returned.
CtlFrameLive == ctrl_frame_stat => ctl = "left"

\* Code: packets and control frames, sent by three threads, take sequence
\* numbers from one window, which the dongle moves while they do.  The host
\* never sends more than the dongle has room for.
WindowKept == (offered - tx_seq) % SEQ_WRAP <= WINDOW

\* Code: a sender may find dpc_sched set by a DPC that has looked at the
\* queue already, and leave.  The packets in the queue are sent all the same.
TxDrains == txq > 0 ~> txq = 0

\* Code: a sender stops the network queues on a length it has read before, and
\* the DPC starts them on another.  Queues that are stopped while the bus queue
\* is not short are started again.
StackRestarts == netif_off /\ txq >= FCLOW ~> ~netif_off
=============================================================================
