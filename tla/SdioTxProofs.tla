---------------------------- MODULE SdioTxProofs -----------------------------
(***************************************************************************)
(* Theorems about SdioTx for every number of senders, every size of the    *)
(* window and of the sequence numbers: the flag dpc_sched never keeps the  *)
(* senders away from a DPC that nobody runs, a control frame never waits   *)
(* without its caller, and the host stays within the dongle's window.      *)
(***************************************************************************)
EXTENDS SdioTx, TLAPS

-----------------------------------------------------------------------------
(* Types, and who holds sdlock: a run has a runner until it is over.       *)

RunAt == {"none", "rx", "frame", "enable", "send", "restart", "more", "mark"}
SeqNo == 0 .. SEQ_WRAP - 1

RunSet == [by : Runner \cup {"nobody"}, at : RunAt, rxleft : Int, rxdone : BOOLEAN,
           txleft : Nat, back : {"none", "frame", "more"}, resched : BOOLEAN]

RunOK == run \in RunSet

FlagsOK ==
  /\ netif_off \in BOOLEAN /\ dpc_sched \in BOOLEAN /\ dpc_sema \in BOOLEAN
  /\ ipend \in BOOLEAN /\ intdis \in BOOLEAN /\ intstatus \in BOOLEAN
  /\ ctrl_frame_stat \in BOOLEAN /\ dev_int \in BOOLEAN

ThreadsOK ==
  /\ tx \in [TxThread -> {"idle", "length", "stop", "look", "up"}]
  /\ runner \in [Runner -> {"idle", "ready", "running", "again"}]
  /\ ctl \in {"idle", "room", "left"}

CountsOK ==
  /\ txq \in Nat
  /\ tx_seq \in SeqNo /\ tx_max \in SeqNo /\ offered \in SeqNo
  /\ rx \in Seq(SeqNo)

RunHeld ==
  /\ run.by = "nobody" <=> run.at = "none"
  /\ run.at \in {"send", "restart"} => run.back /= "none"

SdioTypeInv == RunOK /\ FlagsOK /\ ThreadsOK /\ CountsOK /\ RunHeld

-----------------------------------------------------------------------------
(* Numbers modulo SEQ_WRAP, and the least of a few.                        *)

LEMMA Division ==
  ASSUME NEW w \in Nat \ {0}, NEW a \in Int
  PROVE  /\ a \div w \in Int
         /\ a % w \in 0 .. w - 1
         /\ a = ((a \div w) * w) + (a % w)
OBVIOUS

LEMMA RemainderUnique ==
  ASSUME NEW w \in Nat \ {0}, NEW q \in Int, NEW r \in 0 .. w - 1
  PROVE  ((q * w) + r) % w = r
OBVIOUS

LEMMA RemainderInt ==
  ASSUME NEW w \in Nat \ {0}, NEW a \in Int, NEW q \in Int, NEW r \in 0 .. w - 1,
         a = (q * w) + r
  PROVE  a % w = r
BY RemainderUnique

\* A sender that goes forward within the room before x loses as much of it.
LEMMA RoomTaken ==
  ASSUME NEW w \in Nat \ {0}, NEW x \in Int, NEW s \in Int,
         NEW n \in Nat, n <= (x - s) % w
  PROVE  (x - ((s + n) % w)) % w = ((x - s) % w) - n
<1> DEFINE q1 == (x - s) \div w
           q2 == (s + n) \div w
           r  == ((x - s) % w) - n
           a  == x - ((s + n) % w)
<1>1. x - s \in Int /\ s + n \in Int
  OBVIOUS
<1>2. q1 \in Int /\ q2 \in Int /\ q1 + q2 \in Int /\ r \in 0 .. w - 1 /\ a \in Int
  BY <1>1, Division
<1>3. x - s = (q1 * w) + ((x - s) % w)
  BY <1>1, Division
<1>4. s + n = (q2 * w) + ((s + n) % w)
  BY <1>1, Division
<1>5. a = ((q1 + q2) * w) + r
  BY <1>1, <1>2, <1>3, <1>4
<1>6. a % w = r
  <2> HIDE DEF q1, q2, r, a
  <2> QED
    BY <1>2, <1>5, RemainderInt
<1>7. QED
  BY <1>6

\* A window of n numbers from s on has the room n.
LEMMA RoomGiven ==
  ASSUME NEW w \in Nat \ {0}, NEW s \in Int, NEW n \in 0 .. w - 1
  PROVE  (((s + n) % w) - s) % w = n
<1> DEFINE q == (s + n) \div w
           a == ((s + n) % w) - s
<1>1. s + n \in Int /\ q \in Int /\ 0 - q \in Int /\ a \in Int
  BY Division
<1>2. s + n = (q * w) + ((s + n) % w)
  BY <1>1, Division
<1>3. a = ((0 - q) * w) + n
  BY <1>1, <1>2
<1>4. a % w = n
  <2> HIDE DEF q, a
  <2> QED
    BY <1>1, <1>3, RemainderInt
<1>5. QED
  BY <1>4

LEMMA MinOfThree ==
  ASSUME NEW a \in Int, NEW b \in Int, NEW c \in Int
  PROVE  Min({a, b, c}) \in {a, b, c} /\ Min({a, b, c}) <= a
           /\ Min({a, b, c}) <= b /\ Min({a, b, c}) <= c
<1>1. \E x \in {a, b, c} : \A y \in {a, b, c} : x =< y
  <2>1. CASE a <= b /\ a <= c
    BY <2>1
  <2>2. CASE b <= a /\ b <= c
    BY <2>2
  <2>3. CASE c <= a /\ c <= b
    BY <2>3
  <2>4. QED
    BY <2>1, <2>2, <2>3
<1>2. Min({a, b, c}) \in {a, b, c} /\ \A y \in {a, b, c} : Min({a, b, c}) =< y
  BY <1>1 DEF Min
<1>3. QED
  BY <1>2

LEMMA MinOfTwo ==
  ASSUME NEW a \in Int, NEW b \in Int
  PROVE  Min({a, b}) \in {a, b} /\ Min({a, b}) <= a /\ Min({a, b}) <= b
<1>1. \E x \in {a, b} : \A y \in {a, b} : x =< y
  OBVIOUS
<1>2. Min({a, b}) \in {a, b} /\ \A y \in {a, b} : Min({a, b}) =< y
  BY <1>1 DEF Min
<1>3. QED
  BY <1>2

LEMMA MaxOfTwo ==
  ASSUME NEW a \in Int, NEW b \in Int
  PROVE  Max({a, b}) \in {a, b} /\ Max({a, b}) >= a /\ Max({a, b}) >= b
<1>1. \E x \in {a, b} : \A y \in {a, b} : x >= y
  OBVIOUS
<1>2. Max({a, b}) \in {a, b} /\ \A y \in {a, b} : Max({a, b}) >= y
  BY <1>1 DEF Max
<1>3. QED
  BY <1>2

LEMMA RoomRange ==
  ASSUME NEW a \in Int, NEW b \in Int
  PROVE  (a - b) % SEQ_WRAP \in 0 .. SEQ_WRAP - 1 /\ a % SEQ_WRAP \in 0 .. SEQ_WRAP - 1
BY SdioAssumption, a - b \in Int, Division

-----------------------------------------------------------------------------
(* What dhdsdio_sendfromq takes from the queue fits into the window.       *)

LEMMA ChainFits ==
  ASSUME SdioTypeInv, txq > 0, DATAOK
  PROVE  /\ Min({GLOM, txq, DATABUFCNT}) \in Nat \ {0}
         /\ Min({GLOM, txq, DATABUFCNT}) <= txq
         /\ Min({GLOM, txq, DATABUFCNT}) < SeqRoom
<1>1. SeqRoom \in 0 .. SEQ_WRAP - 1 /\ SeqRoom > 1
  BY RoomRange DEF SdioTypeInv, CountsOK, SeqNo, SeqRoom, DATAOK
<1>2. GLOM \in Nat \ {0} /\ txq \in Nat \ {0} /\ DATABUFCNT \in Nat \ {0} /\ DATABUFCNT = SeqRoom - 1
  BY <1>1, SdioAssumption DEF SdioTypeInv, CountsOK, DATABUFCNT
<1>3. GLOM \in Int /\ txq \in Int /\ DATABUFCNT \in Int
  BY <1>2
<1>4. Min({GLOM, txq, DATABUFCNT}) \in {GLOM, txq, DATABUFCNT}
       /\ Min({GLOM, txq, DATABUFCNT}) <= txq /\ Min({GLOM, txq, DATABUFCNT}) <= DATABUFCNT
  BY <1>3, MinOfThree, Zenon
<1>5. QED
  BY <1>1, <1>2, <1>4

-----------------------------------------------------------------------------
(* The type invariant.                                                     *)

LEMMA RunStarts ==
  ASSUME NEW r \in Runner, NEW at \in RunAt, NEW n \in Int
  PROVE  [NotRunning EXCEPT !.by = r, !.rxleft = n, !.at = at] \in RunSet
BY DEF NotRunning, RunSet, RunAt

LEMMA RunMarks ==
  ASSUME NEW q \in RunSet, NEW r \in Runner, NEW more \in BOOLEAN
  PROVE  [q EXCEPT !.by = r, !.at = "mark", !.resched = more] \in RunSet
BY DEF RunSet, RunAt

LEMMA NotRunningSet == NotRunning \in RunSet
BY DEF NotRunning, RunSet, RunAt

LEMMA RunSends ==
  ASSUME NEW r \in RunSet, NEW back \in {"frame", "more"}, NEW n \in Nat
  PROVE  [r EXCEPT !.at = "send", !.back = back, !.txleft = n] \in RunSet
BY DEF RunSet, RunAt

LEMMA RunEndsSend ==
  ASSUME NEW r \in RunSet, NEW at \in RunAt
  PROVE  [r EXCEPT !.at = at, !.txleft = 0] \in RunSet
BY DEF RunSet, RunAt

LEMMA TypeInit == SdioInit => SdioTypeInv
<1> SUFFICES ASSUME SdioInit PROVE SdioTypeInv
  OBVIOUS
<1>1. tx_seq \in SeqNo
  BY SdioAssumption DEF SdioInit, SeqNo
<1>2. tx_max \in SeqNo
  <2>1. PICK left \in 0 .. CREDIT : tx_max = (tx_seq + left) % SEQ_WRAP
    BY DEF SdioInit
  <2>2. tx_seq + left \in Int
    BY <1>1, SdioAssumption DEF SeqNo
  <2>3. QED
    BY <2>1, <2>2, SdioAssumption, Division DEF SeqNo
<1>3. RunOK /\ RunHeld
  BY DEF SdioInit, RunOK, RunHeld, NotRunning, RunSet, RunAt
<1>4. FlagsOK /\ ThreadsOK
  BY DEF SdioInit, FlagsOK, ThreadsOK, Runner
<1>5. CountsOK
  BY <1>1, <1>2 DEF SdioInit, CountsOK
<1>6. QED
  BY <1>3, <1>4, <1>5 DEF SdioTypeInv

LEMMA TypeSenders ==
  ASSUME SdioTypeInv, NEW t \in TxThread, TxEnq(t) \/ TxStep(t)
  PROVE  SdioTypeInv'
<1> USE DEF SdioTypeInv, RunOK, FlagsOK, ThreadsOK, CountsOK, RunHeld, TxTo,
            schedVars, intVars, windowVars, ctlVars, devVars, txqVars
<1>1. CASE TxEnq(t)
  BY <1>1 DEF TxEnq
<1>2. CASE TxLength(t)
  BY <1>2 DEF TxLength
<1>3. CASE TxStop(t)
  BY <1>3 DEF TxStop
<1>4. CASE TxLook(t)
  BY <1>4 DEF TxLook
<1>5. CASE TxUp(t)
  BY <1>5 DEF TxUp
<1>6. QED
  BY <1>1, <1>2, <1>3, <1>4, <1>5 DEF TxStep

LEMMA SeqSent ==
  ASSUME SdioTypeInv, NEW n \in Nat, tx_seq' \in {tx_seq, (tx_seq + n) % SEQ_WRAP}
  PROVE  tx_seq' \in SeqNo
<1>1. tx_seq + n \in Int
  BY DEF SdioTypeInv, CountsOK, SeqNo
<1>2. (tx_seq + n) % SEQ_WRAP \in SeqNo
  BY <1>1, RoomRange DEF SeqNo
<1>3. QED
  BY <1>2 DEF SdioTypeInv, CountsOK

LEMMA TypeCtl ==
  ASSUME SdioTypeInv, CtlStep
  PROVE  SdioTypeInv'
<1> USE DEF SdioTypeInv, RunOK, FlagsOK, ThreadsOK, CountsOK, RunHeld, SchedIfNot,
            schedVars, intVars, windowVars, ctlVars, devVars, txqVars
<1>1. CASE CtlNoRoom
  BY <1>1 DEF CtlNoRoom
<1>2. CASE CtlSend
  <2>1. tx_seq' \in SeqNo
    BY <1>2, SeqSent DEF CtlSend
  <2>2. QED
    BY <1>2, <2>1 DEF CtlSend
<1>3. CASE CtlLeave
  BY <1>3 DEF CtlLeave
<1>4. CASE CtlReturn
  <2>1. FlagsOK'
    BY <1>4 DEF CtlReturn
  <2>2. ThreadsOK'
    BY <1>4 DEF CtlReturn
  <2>3. QED
    BY <1>4, <2>1, <2>2 DEF CtlReturn
<1>5. QED
  BY <1>1, <1>2, <1>3, <1>4 DEF CtlStep

LEMMA TypeWake ==
  ASSUME SdioTypeInv, Isr \/ IsrAgain \/ DpcThreadWakes \/ WatchdogTick
  PROVE  SdioTypeInv'
<1> USE DEF SdioTypeInv, RunOK, FlagsOK, ThreadsOK, CountsOK, RunHeld, Runner,
            schedVars, intVars, windowVars, ctlVars, devVars, txqVars
<1>1. CASE Isr
  BY <1>1 DEF Isr
<1>2. CASE IsrAgain
  BY <1>2 DEF IsrAgain
<1>3. CASE DpcThreadWakes
  <2>1. FlagsOK'
    BY <1>3 DEF DpcThreadWakes
  <2>2. ThreadsOK'
    BY <1>3 DEF DpcThreadWakes
  <2>3. QED
    BY <1>3, <2>1, <2>2 DEF DpcThreadWakes
<1>4. CASE WatchdogTick
  BY <1>4 DEF WatchdogTick
<1>5. QED
  BY <1>1, <1>2, <1>3, <1>4

LEMMA TypeReceive ==
  ASSUME SdioTypeInv,
         \/ \E r \in Runner : DpcLock(r)
         \/ RxSendCtl \/ RxSendData \/ RxFrame \/ RxNoFrame
  PROVE  SdioTypeInv'
<1> USE DEF SdioTypeInv, RunOK, FlagsOK, ThreadsOK, CountsOK, RunHeld, RunAt, RunTo,
            schedVars, intVars, windowVars, ctlVars, devVars, txqVars
<1>1. ASSUME NEW r \in Runner, DpcLock(r) PROVE SdioTypeInv'
  <2>1. intstatus' \in BOOLEAN /\ dev_int' \in BOOLEAN /\ ipend' \in BOOLEAN
    BY <1>1 DEF DpcLock
  <2>2. RunOK' /\ RunHeld'
    <3>1. PICK at \in {"rx", "enable"} :
            run' = [NotRunning EXCEPT !.by = r, !.rxleft = RXBOUND, !.at = at]
      BY <1>1 DEF DpcLock
    <3>2. RXBOUND \in Int
      BY SdioAssumption
    <3>3. RunOK'
      BY <3>1, <3>2, at \in RunAt, RunStarts
    <3>4. RunHeld'
      BY <3>1, <3>2 DEF NotRunning, Runner
    <3>5. QED
      BY <3>3, <3>4
  <2>3. QED
    BY <1>1, <2>1, <2>2 DEF DpcLock
<1>2. CASE RxSendCtl
  <2>1. tx_seq' \in SeqNo
    BY <1>2, SeqSent DEF RxSendCtl, SendPendCtl
  <2>2. FlagsOK'
    BY <1>2 DEF RxSendCtl, SendPendCtl
  <2>3. RunOK' /\ RunHeld'
    BY <1>2 DEF RxSendCtl, RunSet
  <2>4. QED
    BY <1>2, <2>1, <2>2, <2>3 DEF RxSendCtl, SendPendCtl
<1>3. CASE RxSendData
  <2>1. RunOK' /\ RunHeld'
    <3>0. TXBOUND \in Nat
      BY SdioAssumption
    <3>1. RunOK'
      BY <1>3, <3>0, RunSends, "frame" \in {"frame", "more"} DEF RxSendData
    <3>2. RunHeld'
      BY <1>3, SdioAssumption DEF RxSendData
    <3>3. QED
      BY <3>1, <3>2
  <2>2. QED
    BY <1>3, <2>1 DEF RxSendData
<1>4. CASE RxFrame
  <2>1. Head(rx) \in SeqNo /\ Tail(rx) \in Seq(SeqNo)
    BY <1>4 DEF RxFrame
  <2>2. RunOK' /\ RunHeld'
    <3>1. run.rxleft - 1 \in Int
      BY DEF RunSet
    <3>2. run' = [run EXCEPT !.at = IF run.rxleft > 1 THEN "rx" ELSE "enable",
                              !.rxleft = run.rxleft - 1, !.rxdone = FALSE]
      BY <1>4 DEF RxFrame
    <3>3. RunOK'
      BY <3>1, <3>2 DEF RunSet
    <3>4. RunHeld'
      BY <1>4, <3>2 DEF RxFrame
    <3>5. QED
      BY <3>3, <3>4
  <2>3. QED
    BY <1>4, <2>1, <2>2 DEF RxFrame
<1>5. CASE RxNoFrame
  <2>1. RunOK' /\ RunHeld'
    BY <1>5 DEF RxNoFrame, RunSet
  <2>2. QED
    BY <1>5, <2>1 DEF RxNoFrame
<1>6. QED
  BY <1>1, <1>2, <1>3, <1>4, <1>5

LEMMA TypeSend ==
  ASSUME SdioTypeInv,
         DpcSendCtl \/ DpcSendData \/ DpcSendNothing \/ SendChain \/ SendLength \/ SendRestart
  PROVE  SdioTypeInv'
<1> USE DEF SdioTypeInv, RunOK, FlagsOK, ThreadsOK, CountsOK, RunHeld, RunAt, RunTo,
            schedVars, intVars, windowVars, ctlVars, devVars, txqVars
<1>1. CASE DpcSendCtl
  <2>1. tx_seq' \in SeqNo
    BY <1>1, SeqSent DEF DpcSendCtl, SendPendCtl
  <2>2. FlagsOK'
    BY <1>1 DEF DpcSendCtl, SendPendCtl, EnableIntr
  <2>3. RunOK' /\ RunHeld'
    BY <1>1 DEF DpcSendCtl, EnableIntr, RunSet
  <2>4. QED
    BY <1>1, <2>1, <2>2, <2>3 DEF DpcSendCtl, SendPendCtl, EnableIntr
<1>2. CASE DpcSendData
  <2>1. SeqRoom \in 0 .. SEQ_WRAP - 1 /\ SeqRoom > 1
    <3>1. tx_max \in Int /\ tx_seq \in Int
      BY DEF SeqNo
    <3>2. SeqRoom \in 0 .. SEQ_WRAP - 1
      BY <3>1, RoomRange DEF SeqRoom
    <3>3. QED
      BY <1>2, <3>2 DEF DpcSendData, Sendable, DATAOK
  <2>2. TXBOUND \in Nat /\ DATABUFCNT \in Nat
    BY <2>1, SdioAssumption DEF DATABUFCNT
  <2>3. Min({TXBOUND, DATABUFCNT}) \in Nat
    BY <2>2, TXBOUND \in Int, DATABUFCNT \in Int, MinOfTwo
  <2>4. RunOK' /\ RunHeld'
    <3>1. PICK left \in Nat :
            run' = [run EXCEPT !.at = "send", !.back = "more", !.txleft = left]
      BY <1>2, <2>2, <2>3 DEF DpcSendData, EnableIntr
    <3>2. run.at = "enable"
      BY <1>2 DEF DpcSendData, EnableIntr
    <3>3. RunOK'
      BY <3>1, <3>2, RunSends
    <3>4. RunHeld'
      BY <3>1, <3>2 DEF RunSet
    <3>5. QED
      BY <3>3, <3>4
  <2>5. FlagsOK'
    BY <1>2 DEF DpcSendData, EnableIntr
  <2>6. QED
    BY <1>2, <2>4, <2>5 DEF DpcSendData, EnableIntr
<1>3. CASE DpcSendNothing
  <2>1. RunOK' /\ RunHeld'
    BY <1>3 DEF DpcSendNothing, EnableIntr, RunSet
  <2>2. FlagsOK'
    BY <1>3 DEF DpcSendNothing, EnableIntr
  <2>3. QED
    BY <1>3, <2>1, <2>2 DEF DpcSendNothing, EnableIntr
<1>4. CASE SendChain
  <2> DEFINE n == Min({GLOM, txq, DATABUFCNT})
  <2>1. n \in Nat \ {0} /\ n <= txq
    BY <1>4, ChainFits DEF SendChain
  <2>2. tx_seq' \in {tx_seq, (tx_seq + n) % SEQ_WRAP} /\ txq' = txq - n
        /\ run' = [run EXCEPT !.txleft = Max({run.txleft - n, 0})] /\ run.at = "send"
    BY <1>4 DEF SendChain
  <2> HIDE DEF n
  <2>3. tx_seq' \in SeqNo
    BY <2>1, <2>2, SeqSent
  <2>4. Max({run.txleft - n, 0}) \in Nat
    <3>1. run.txleft - n \in Int
      BY <2>1 DEF RunSet
    <3>2. Max({run.txleft - n, 0}) \in {run.txleft - n, 0} /\ Max({run.txleft - n, 0}) >= 0
      BY <3>1, 0 \in Int, MaxOfTwo, Zenon
    <3>3. QED
      BY <3>1, <3>2
  <2>5. RunOK' /\ RunHeld'
    BY <2>2, <2>4 DEF RunSet
  <2>6. txq' \in Nat
    BY <2>1, <2>2
  <2>7. QED
    BY <1>4, <2>3, <2>5, <2>6 DEF SendChain
<1>5. CASE SendLength
  <2>1. RunOK' /\ RunHeld'
    <3>1. PICK at \in {"restart", run.back} : run' = [run EXCEPT !.at = at, !.txleft = 0]
      BY <1>5 DEF SendLength
    <3>2. run.at = "send" /\ run.back \in {"frame", "more"}
      BY <1>5 DEF SendLength, RunSet
    <3>3. RunOK'
      BY <3>1, <3>2, at \in RunAt, RunEndsSend
    <3>4. RunHeld'
      BY <3>1, <3>2 DEF RunSet
    <3>5. QED
      BY <3>3, <3>4
  <2>2. QED
    BY <1>5, <2>1 DEF SendLength
<1>6. CASE SendRestart
  <2>1. RunOK' /\ RunHeld'
    BY <1>6 DEF SendRestart, RunSet
  <2>2. QED
    BY <1>6, <2>1 DEF SendRestart
<1>7. QED
  BY <1>1, <1>2, <1>3, <1>4, <1>5, <1>6

LEMMA TypeEnd ==
  ASSUME SdioTypeInv, DpcMore \/ DpcMark \/ DongleGrant
  PROVE  SdioTypeInv'
<1> USE DEF SdioTypeInv, RunOK, FlagsOK, ThreadsOK, CountsOK, RunHeld, RunAt,
            schedVars, intVars, windowVars, ctlVars, devVars, txqVars
<1>1. CASE DpcMore
  <2>1. RunOK' /\ RunHeld'
    <3>1. PICK more \in BOOLEAN :
            run' = [NotRunning EXCEPT !.by = run.by, !.at = "mark", !.resched = more]
      BY <1>1 DEF DpcMore, Sendable
    <3>2. run.by \in Runner
      BY <1>1 DEF DpcMore, RunSet
    <3>3. RunOK'
      BY <3>1, <3>2, RunMarks, NotRunningSet
    <3>4. RunHeld'
      BY <3>1, <3>2 DEF NotRunning, Runner
    <3>5. QED
      BY <3>3, <3>4
  <2>2. QED
    BY <1>1, <2>1 DEF DpcMore
<1>2. CASE DpcMark
  <2>1. RunOK' /\ RunHeld'
    BY <1>2 DEF DpcMark, NotRunning, RunSet
  <2>2. FlagsOK' /\ ThreadsOK'
    BY <1>2 DEF DpcMark, RunSet
  <2>3. QED
    BY <1>2, <2>1, <2>2 DEF DpcMark
<1>3. CASE DongleGrant
  <2>1. tx_seq + WINDOW \in Int
    BY SdioAssumption DEF SeqNo
  <2>2. offered' \in SeqNo
    BY <1>3, <2>1, RoomRange DEF DongleGrant, SeqNo
  <2>3. QED
    BY <1>3, <2>2 DEF DongleGrant
<1>4. QED
  BY <1>1, <1>2, <1>3

LEMMA SdioTypes == SdioSpec => []SdioTypeInv
<1>1. SdioTypeInv /\ [SdioNext]_sdioVars => SdioTypeInv'
  <2>1. CASE UNCHANGED sdioVars
    BY <2>1 DEF sdioVars, SdioTypeInv, RunOK, FlagsOK, ThreadsOK, CountsOK, RunHeld,
                schedVars, intVars, windowVars, ctlVars, devVars, txqVars
  <2>2. QED
    BY <2>1, TypeSenders, TypeCtl, TypeWake, TypeReceive, TypeSend, TypeEnd
    DEF SdioNext, DpcStep
<1>2. QED
  BY <1>1, TypeInit, PTL DEF SdioSpec

-----------------------------------------------------------------------------
(* The flag of the senders, and the frame of the control call.             *)

\* However many senders there are and whichever thread is in dhdsdio_dpc: while
\* dpc_sched keeps dhd_bus_txdata from waking the DPC, a run is owed.  It rests on
\* DpcMark, which writes what the run itself still has to do, and on the thread of
\* the interrupt, which wakes the DPC thread for what it leaves.
THEOREM SdioRunOwed == SdioSpec => []RunOwed
<1>1. SdioInit => RunOwed
  BY DEF SdioInit, RunOwed
<1>2. SdioTypeInv /\ RunOwed /\ [SdioNext]_sdioVars => RunOwed'
  <2> SUFFICES ASSUME SdioTypeInv, RunOwed, [SdioNext]_sdioVars
               PROVE  RunOwed'
    OBVIOUS
  <2> USE DEF RunOwed, schedVars
  <2>1. ASSUME NEW t \in TxThread, TxEnq(t) \/ TxStep(t) PROVE RunOwed'
    <3>1. tx \in [TxThread -> {"idle", "length", "stop", "look", "up"}]
      BY DEF SdioTypeInv, ThreadsOK
    <3>2. QED
      BY <2>1, <3>1 DEF TxStep, TxEnq, TxLength, TxStop, TxLook, TxUp, TxTo
  <2>2. CASE CtlStep
    BY <2>2 DEF CtlStep, CtlNoRoom, CtlSend, CtlLeave, CtlReturn, SchedIfNot
  <2>3. CASE Isr \/ IsrAgain \/ DpcThreadWakes \/ WatchdogTick
    BY <2>3 DEF SdioTypeInv, ThreadsOK, Runner, Isr, IsrAgain, DpcThreadWakes, WatchdogTick
  <2>4. ASSUME NEW r \in Runner, DpcLock(r) PROVE RunOwed'
    BY <2>4 DEF DpcLock, SdioTypeInv, ThreadsOK
  <2>5. CASE \/ RxSendCtl \/ RxSendData \/ RxFrame \/ RxNoFrame \/ DpcMore \/ DongleGrant
             \/ DpcSendCtl \/ DpcSendData \/ DpcSendNothing
             \/ SendChain \/ SendLength \/ SendRestart
    BY <2>5 DEF RxSendCtl, RxSendData, RxFrame, RxNoFrame, DpcSendCtl, DpcSendData,
                DpcSendNothing, SendChain, SendLength, SendRestart, DpcMore, DongleGrant
  <2>6. CASE DpcMark
    <3>1. run.by \in Runner
      BY <2>6 DEF DpcMark, SdioTypeInv, RunOK, RunHeld, RunSet
    <3>2. CASE run.resched
      <4>1. runner'[run.by] /= "idle"
        BY <2>6, <3>1, <3>2 DEF DpcMark, SdioTypeInv, ThreadsOK
      <4>2. QED
        BY <3>1, <4>1
    <3>3. CASE ~run.resched
      BY <2>6, <3>3 DEF DpcMark
    <3>4. QED
      BY <3>2, <3>3
  <2>7. CASE UNCHANGED sdioVars
    BY <2>7 DEF sdioVars
  <2>8. QED
    BY <2>1, <2>2, <2>3, <2>4, <2>5, <2>6, <2>7 DEF SdioNext, DpcStep
<1>3. QED
  BY <1>1, <1>2, SdioTypes, PTL DEF SdioSpec

\* A frame that dhd_bus_txctl has left to the DPC is called off before that call
\* returns, whether the DPC has sent it or the caller has given up waiting.
THEOREM SdioCtlFrame == SdioSpec => []CtlFrameLive
<1>1. SdioInit => CtlFrameLive
  BY DEF SdioInit, CtlFrameLive
<1>2. CtlFrameLive /\ [SdioNext]_sdioVars => CtlFrameLive'
  <2> SUFFICES ASSUME CtlFrameLive, [SdioNext]_sdioVars
               PROVE  CtlFrameLive'
    OBVIOUS
  <2> USE DEF CtlFrameLive, ctlVars
  <2>1. ASSUME NEW t \in TxThread, TxEnq(t) \/ TxStep(t) PROVE CtlFrameLive'
    BY <2>1 DEF TxStep, TxEnq, TxLength, TxStop, TxLook, TxUp
  <2>2. CASE CtlStep
    BY <2>2 DEF CtlStep, CtlNoRoom, CtlSend, CtlLeave, CtlReturn
  <2>3. CASE Isr \/ IsrAgain \/ DpcThreadWakes \/ WatchdogTick \/ DongleGrant
    BY <2>3 DEF Isr, IsrAgain, DpcThreadWakes, WatchdogTick, DongleGrant
  <2>4. CASE DpcStep
    BY <2>4 DEF DpcStep, DpcLock, RxSendCtl, RxSendData, RxFrame, RxNoFrame, SendPendCtl,
                DpcSendCtl, DpcSendData, DpcSendNothing, SendChain, SendLength,
                SendRestart, DpcMore, DpcMark
  <2>5. CASE UNCHANGED sdioVars
    BY <2>5 DEF sdioVars
  <2>6. QED
    BY <2>1, <2>2, <2>3, <2>4, <2>5 DEF SdioNext
<1>3. QED
  BY <1>1, <1>2, PTL DEF SdioSpec

-----------------------------------------------------------------------------
(* The dongle's window.  That the host stays within it needs to know that  *)
(* the grants on their way are in order: the one taken over last ends the  *)
(* shortest window, the dongle's newest one the longest.                   *)

Room(max) == (max - tx_seq) % SEQ_WRAP

WindowInv ==
  /\ Room(offered) <= WINDOW
  /\ Room(tx_max) <= Room(offered)
  /\ \A i \in 1 .. Len(rx) : Room(tx_max) <= Room(rx[i]) /\ Room(rx[i]) <= Room(offered)
  /\ \A i, j \in 1 .. Len(rx) : i <= j => Room(rx[i]) <= Room(rx[j])

LEMMA RoomNat ==
  ASSUME SdioTypeInv, NEW max \in SeqNo
  PROVE  Room(max) \in 0 .. SEQ_WRAP - 1
<1>1. max \in Int /\ tx_seq \in Int
  BY DEF SeqNo, SdioTypeInv, CountsOK
<1>2. QED
  BY <1>1, RoomRange DEF Room

\* The host sends n frames, no more than it has room for.
LEMMA WindowSent ==
  ASSUME SdioTypeInv, WindowInv, NEW n \in Nat, n <= SeqRoom,
         tx_seq' \in {tx_seq, (tx_seq + n) % SEQ_WRAP}, UNCHANGED <<tx_max, rx, offered>>
  PROVE  WindowInv'
<1>1. tx_seq \in Int /\ tx_max \in SeqNo /\ offered \in SeqNo
  BY DEF SdioTypeInv, CountsOK, SeqNo
<1>2. \A i \in 1 .. Len(rx) : rx[i] \in SeqNo
  BY DEF SdioTypeInv, CountsOK
<1>3. \A max \in SeqNo : Room(max) \in 0 .. SEQ_WRAP - 1
  BY <1>1, RoomRange DEF Room, SeqNo
<1>4. CASE tx_seq' = tx_seq
  BY <1>4 DEF WindowInv, Room
<1>5. CASE tx_seq' = (tx_seq + n) % SEQ_WRAP
  <2>1. ASSUME NEW max \in SeqNo, n <= Room(max)
        PROVE  (max - tx_seq') % SEQ_WRAP = Room(max) - n
    <3>1. max \in Int /\ SEQ_WRAP \in Nat \ {0} /\ n <= (max - tx_seq) % SEQ_WRAP
      BY <2>1, SdioAssumption DEF SeqNo, Room
    <3>2. QED
      BY <1>1, <1>5, <3>1, RoomTaken DEF Room
  <2>2. n <= Room(tx_max) /\ n <= Room(offered) /\ \A i \in 1 .. Len(rx) : n <= Room(rx[i])
    <3>1. n <= Room(tx_max)
      BY DEF SeqRoom, Room
    <3>2. QED
      BY <1>1, <1>2, <1>3, <3>1 DEF WindowInv
  <2>3. Room(tx_max)' = Room(tx_max) - n /\ Room(offered)' = Room(offered) - n
    BY <1>1, <2>1, <2>2 DEF Room
  <2>4. \A i \in 1 .. Len(rx) : (rx[i] - tx_seq') % SEQ_WRAP = Room(rx[i]) - n
    BY <1>2, <2>1, <2>2
  <2>5. (Room(offered) <= WINDOW)' /\ (Room(tx_max) <= Room(offered))'
    BY <1>1, <1>3, <2>3, SdioAssumption DEF WindowInv
  <2>6. \A i \in 1 .. Len(rx) :
          /\ Room(tx_max) - n <= Room(rx[i]) - n /\ Room(rx[i]) - n <= Room(offered) - n
          /\ \A j \in 1 .. Len(rx) : i <= j => Room(rx[i]) - n <= Room(rx[j]) - n
    BY <1>1, <1>2, <1>3 DEF WindowInv
  <2>7. QED
    BY <2>3, <2>4, <2>5, <2>6 DEF WindowInv, Room
<1>6. QED
  BY <1>4, <1>5

\* The host takes over the oldest grant, or leaves it aside.
LEMMA WindowMoved ==
  ASSUME SdioTypeInv, WindowInv, RxFrame
  PROVE  WindowInv'
<1>1. /\ rx \in Seq(SeqNo) /\ rx /= <<>> /\ rx' = Tail(rx)
      /\ tx_max' \in {tx_max, Head(rx)} /\ UNCHANGED <<tx_seq, offered>>
  BY DEF SdioTypeInv, CountsOK, RxFrame, devVars
<1>2. Len(rx) \in Nat /\ 1 \in 1 .. Len(rx) /\ Head(rx) = rx[1] /\ Len(rx') = Len(rx) - 1
  BY <1>1
<1>3. \A i \in 1 .. Len(rx') : i + 1 \in 1 .. Len(rx) /\ rx'[i] = rx[i + 1]
  BY <1>1, <1>2
<1>4. \A max : Room(max)' = (max' - tx_seq) % SEQ_WRAP
  BY <1>1 DEF Room
<1>5. Room(rx[1]) <= Room(offered) /\ Room(tx_max) <= Room(offered)
  BY <1>2 DEF WindowInv
<1>6. \A i \in 1 .. Len(rx') : Room(rx[1]) <= Room(rx[i + 1]) /\ Room(tx_max) <= Room(rx[i + 1])
                                 /\ Room(rx[i + 1]) <= Room(offered)
  BY <1>2, <1>3 DEF WindowInv
<1>7. \A i, j \in 1 .. Len(rx') : i <= j => Room(rx[i + 1]) <= Room(rx[j + 1])
  BY <1>2, <1>3 DEF WindowInv
<1>8. QED
  BY <1>1, <1>2, <1>3, <1>5, <1>6, <1>7 DEF WindowInv, Room

\* The dongle grants all it has room for.
LEMMA WindowGranted ==
  ASSUME SdioTypeInv, WindowInv, DongleGrant, WINDOW < SEQ_WRAP
  PROVE  WindowInv'
<1>1. /\ rx \in Seq(SeqNo) /\ rx' = Append(rx, offered') /\ UNCHANGED <<tx_seq, tx_max>>
      /\ offered' = (tx_seq + WINDOW) % SEQ_WRAP
  BY DEF SdioTypeInv, CountsOK, DongleGrant, windowVars
<1>2. (offered' - tx_seq) % SEQ_WRAP = WINDOW
  <2>1. tx_seq \in Int /\ SEQ_WRAP \in Nat \ {0} /\ WINDOW \in 0 .. SEQ_WRAP - 1
    BY SdioAssumption DEF SdioTypeInv, CountsOK, SeqNo
  <2>2. QED
    BY <1>1, <2>1, RoomGiven
<1>3. Len(rx) \in Nat /\ Len(rx') = Len(rx) + 1
  BY <1>1
<1>4. \A i \in 1 .. Len(rx') : rx'[i] = IF i = Len(rx) + 1 THEN offered' ELSE rx[i]
  BY <1>1
<1>5. \A max \in SeqNo : Room(max) \in Int
  BY RoomNat
<1>6. \A i \in 1 .. Len(rx) : rx[i] \in SeqNo
  BY <1>1
<1>7. Room(tx_max) <= WINDOW /\ \A i \in 1 .. Len(rx) : Room(rx[i]) <= WINDOW
  BY <1>5, <1>6, SdioAssumption DEF WindowInv, SdioTypeInv, CountsOK
<1>8. QED
  BY <1>1, <1>2, <1>3, <1>4, <1>7, SdioAssumption DEF WindowInv, Room

LEMMA WindowStart == SdioInit /\ WINDOW < SEQ_WRAP => WindowInv
<1> SUFFICES ASSUME SdioInit, WINDOW < SEQ_WRAP PROVE WindowInv
  OBVIOUS
<1>1. PICK left \in 0 .. CREDIT : tx_max = (tx_seq + left) % SEQ_WRAP
  BY DEF SdioInit
<1>2. left \in 0 .. SEQ_WRAP - 1 /\ left <= WINDOW
  BY SdioAssumption, CreditAssumption
<1>3. Room(tx_max) = left /\ offered = tx_max
  BY <1>1, <1>2, SdioAssumption, RoomGiven DEF SdioInit, Room
<1>4. Len(rx) = 0
  BY DEF SdioInit
<1>5. QED
  BY <1>2, <1>3, <1>4 DEF WindowInv

\* The DPC thread, the thread of the interrupt and dhd_bus_txctl together never
\* send beyond the dongle's window, for any width of the sequence numbers: each
\* sends within bus->tx_max as it finds it, and the grants come in order.
THEOREM SdioWindow == SdioSpec => []WindowKept
<1>1. CASE WINDOW < SEQ_WRAP
  <2>1. SdioTypeInv /\ WindowInv /\ [SdioNext]_sdioVars => WindowInv'
    <3> SUFFICES ASSUME SdioTypeInv, WindowInv, [SdioNext]_sdioVars
                 PROVE  WindowInv'
      OBVIOUS
    <3>1. SeqRoom \in Nat
      BY RoomNat DEF SdioTypeInv, CountsOK, SeqRoom, Room
    <3>2. CASE UNCHANGED <<tx_seq, tx_max, rx, offered>>
      BY <3>2 DEF WindowInv, Room
    <3>3. CASE CtlSend \/ RxSendCtl \/ DpcSendCtl
      <4>1. 1 <= SeqRoom
        BY <3>1, <3>3 DEF CtlSend, RxSendCtl, DpcSendCtl, SendPendCtl, TXCTLOK
      <4>2. /\ tx_seq' \in {tx_seq, (tx_seq + 1) % SEQ_WRAP}
            /\ UNCHANGED <<tx_max, rx, offered>>
        BY <3>3 DEF CtlSend, RxSendCtl, DpcSendCtl, SendPendCtl, devVars
      <4>3. QED
        BY <4>1, <4>2, WindowSent
    <3>4. CASE SendChain
      <4> DEFINE n == Min({GLOM, txq, DATABUFCNT})
      <4>1. n \in Nat /\ n <= SeqRoom
        BY <3>1, <3>4, ChainFits DEF SendChain
      <4>2. /\ tx_seq' \in {tx_seq, (tx_seq + n) % SEQ_WRAP}
            /\ UNCHANGED <<tx_max, rx, offered>>
        BY <3>4 DEF SendChain, devVars
      <4> HIDE DEF n
      <4>3. QED
        BY <4>1, <4>2, WindowSent
    <3>5. ASSUME NEW t \in TxThread, TxEnq(t) \/ TxStep(t)
          PROVE  UNCHANGED <<tx_seq, tx_max, rx, offered>>
      BY <3>5 DEF TxStep, TxEnq, TxLength, TxStop, TxLook, TxUp, windowVars, devVars
    <3>6. CASE \/ CtlNoRoom \/ CtlLeave \/ CtlReturn
               \/ Isr \/ IsrAgain \/ DpcThreadWakes \/ WatchdogTick \/ UNCHANGED sdioVars
      BY <3>2, <3>6 DEF CtlNoRoom, CtlLeave, CtlReturn, Isr, IsrAgain, DpcThreadWakes,
                        WatchdogTick, sdioVars, windowVars, devVars
    <3>7. ASSUME NEW r \in Runner, DpcLock(r)
          PROVE  UNCHANGED <<tx_seq, tx_max, rx, offered>>
      BY <3>7 DEF DpcLock, windowVars
    <3>8. CASE \/ RxSendData \/ RxNoFrame \/ DpcSendData \/ DpcSendNothing
               \/ SendLength \/ SendRestart \/ DpcMore \/ DpcMark
      BY <3>2, <3>8 DEF RxSendData, RxNoFrame, DpcSendData, DpcSendNothing, SendLength,
                        SendRestart, DpcMore, DpcMark, windowVars, devVars
    <3>9. QED
      BY <1>1, <3>2, <3>3, <3>4, <3>5, <3>6, <3>7, <3>8, WindowMoved, WindowGranted
      DEF SdioNext, CtlStep, DpcStep
  <2>2. WindowInv => WindowKept
    BY DEF WindowInv, WindowKept, Room
  <2>3. SdioInit => WindowInv
    BY <1>1, WindowStart
  <2>4. QED
    BY <2>1, <2>2, <2>3, SdioTypes, PTL DEF SdioSpec
<1>2. CASE ~(WINDOW < SEQ_WRAP)
  <2>1. SdioTypeInv => WindowKept
    <3>1. SdioTypeInv => (offered - tx_seq) % SEQ_WRAP \in 0 .. SEQ_WRAP - 1
      BY RoomNat DEF SdioTypeInv, CountsOK, Room
    <3>2. QED
      BY <1>2, <3>1, SdioAssumption DEF WindowKept
  <2>2. QED
    BY <2>1, SdioTypes, PTL
<1>3. QED
  BY <1>1, <1>2
=============================================================================
