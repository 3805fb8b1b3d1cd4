------------------------------ MODULE MCMsgbuf ------------------------------
(***************************************************************************)
(* Both directions of the data path of the PCIe protocol, and the          *)
(* suppression of acknowledgements in front of it, checked by one run.     *)
(* They share the ring operators and no state, so a behaviour is one of    *)
(* the three, as its initial state says.  The actions are listed one by    *)
(* one, so that TLC counts each.  Flow rings, packet ids, packets and      *)
(* streams are interchangeable: they stand for numbers and addresses that  *)
(* the code neither orders nor computes with.  The cfg gives streams the   *)
(* names of flow rings, and packets those of packet ids, and one more of   *)
(* each, so that the same few permutations serve both.  A behaviour in     *)
(* which the suppression has lost track of a packet is not followed, and   *)
(* with phase nibbles only one flow ring gets packets: the phases of two   *)
(* rings do not depend on each other.                                      *)
(***************************************************************************)
EXTENDS MsgbufTx, MsgbufRx, TcpAck, TLC

VARIABLE part

mcVars == <<part, msgtxVars, rxVars, ackVars>>

Symm == Permutations(Flow) \cup Permutations(TxPktid)

MCInit ==
  /\ part \in {"tx", "rx", "ack"}
  /\ MsgTxInit /\ RxInit /\ AckInit
  /\ part /= "ack" => ackbus = "pcie"
  /\ part /= "tx" => even = 0

InTx(A) == part = "tx" /\ A /\ UNCHANGED <<part, rxVars, ackVars>>
InRx(A) == part = "rx" /\ A /\ UNCHANGED <<part, msgtxVars, ackVars>>
InAck(A) == part = "ack" /\ ~forgotten /\ A /\ UNCHANGED <<part, msgtxVars, rxVars>>

Used(f) == even = 0 \/ \A g \in Flow \ {f} : txq[g] = 0 /\ txring[g] = NewRing

MCNext ==
  \/ \E f \in Flow :
       \/ InTx(Used(f) /\ Enqueue(f)) \/ InTx(DpcServes(f))
       \/ InTx(TakeDepletedMax(f)) \/ InTx(TakeDepleted(f)) \/ InTx(TakeAvail(f))
       \/ InTx(StopQueue(f)) \/ InTx(StopFlag(f)) \/ InTx(Reserve(f)) \/ InTx(ReserveNone(f))
       \/ InTx(Post(f)) \/ InTx(PostFull(f)) \/ InTx(PostMapFails(f))
       \/ InTx(Unreserve(f)) \/ InTx(Fail(f)) \/ InTx(ServedAll(f)) \/ InTx(DongleReads(f))
  \/ \E id \in TxPktid : InTx(StatusFree(id)) \/ InTx(DongleAnswers(id))
  \/ InTx(StatusAvail) \/ InTx(StatusFlag) \/ InTx(StatusStart)
  \/ \E have \in 0 .. RX_BUF_BURST : InRx(RxBurst(have))
  \/ InRx(RxPostEnd) \/ InRx(DongleTakesBuffer)
  \/ \E batch \in SUBSET RxPktid : InRx(RxReap(batch))
  \/ \E id \in RxPktid : InRx(DongleFillsBuffer(id))
  \/ \E p \in Skb :
       \/ \E s \in Stream : \E n \in {newest[s], newest[s] + 1} : InAck(AckHandIn(p, s, n))
       \/ InAck(SuppressNoModule(p)) \/ InAck(SuppressAdd(p))
       \/ InAck(SuppressReplace(p)) \/ InAck(SuppressPass(p))
       \/ InAck(DropEarly(p)) \/ InAck(AckEnqueue(p)) \/ InAck(AckEvict(p))
       \/ InAck(AckRefuse(p)) \/ InAck(AckRefused(p))
       \/ InAck(SeesOff(p)) \/ InAck(HoldFirst(p)) \/ InAck(HoldFull(p))
       \/ InAck(HoldNewer(p)) \/ InAck(HoldOlder(p)) \/ InAck(HoldUntime(p))
       \/ InAck(RingSend(p))
  \/ \E k \in 1 .. ACK_GLOM : InAck(ChainTake(k))
  \/ InAck(ChainCheck) \/ InAck(ChainFails) \/ InAck(ChainSend) \/ InAck(ChainFree)
  \/ \E i \in Slot : InAck(TimerFires(i)) \/ InAck(TimerSend(i))
  \/ InAck(TblClean) \/ InAck(TblUntime) \/ InAck(SuppressOff)

MCSpec == MCInit /\ [][MCNext]_mcVars
=============================================================================
