------------------------------ MODULE MCQueues ------------------------------
(***************************************************************************)
(* Three queues of the driver that share no state, checked by one run: the *)
(* debug ring with entries of one length, the deferred work queue, and the *)
(* transmit queue of SDIO.  A behaviour belongs to one of them, which is   *)
(* chosen in the initial state; the others stay in theirs, where none of   *)
(* the actions with fairness is enabled.  The actions are listed one by    *)
(* one, so that TLC counts each.                                           *)
(***************************************************************************)
EXTENDS DbgRing, DeferredWq, SdioTx

VARIABLE part

mcVars == <<part, vars, wqVars, sdioVars>>

MCInit ==
  /\ part \in {"ring", "wq", "sdio"}
  /\ Init /\ WqInit /\ SdioInit
  /\ part /= "sdio" => tx_max = tx_seq

InRing(A) == part = "ring" /\ A /\ UNCHANGED <<part, wqVars, sdioVars>>
InWq(A) == part = "wq" /\ A /\ UNCHANGED <<part, vars, sdioVars>>
InSdio(A) == part = "sdio" /\ A /\ UNCHANGED <<part, vars, wqVars>>

MCNext ==
  \/ InRing(Next)
  \/ InWq(PostIfEvent) \/ InWq(IfEventNotPosted) \/ InWq(ListChanged)
  \/ InWq(WorkStarts) \/ InWq(Get) \/ InWq(GetNothing) \/ InWq(Call)
  \/ \E c \in Stack : InWq(PostSetMac(c)) \/ InWq(SetMacDirect(c)) \/ InWq(PostFeatures(c))
  \/ \E c \in Caller : InWq(Copy(c)) \/ InWq(Schedule(c))
  \/ \E t \in TxThread :
       \/ InSdio(TxEnq(t)) \/ InSdio(TxLength(t)) \/ InSdio(TxStop(t))
       \/ InSdio(TxLook(t)) \/ InSdio(TxUp(t))
  \/ InSdio(CtlNoRoom) \/ InSdio(CtlSend) \/ InSdio(CtlLeave) \/ InSdio(CtlReturn)
  \/ InSdio(Isr) \/ InSdio(IsrAgain) \/ InSdio(DpcThreadWakes) \/ InSdio(WatchdogTick)
  \/ \E r \in Runner : InSdio(DpcLock(r))
  \/ InSdio(RxSendCtl) \/ InSdio(RxSendData) \/ InSdio(RxFrame) \/ InSdio(RxNoFrame)
  \/ InSdio(DpcSendCtl) \/ InSdio(DpcSendData) \/ InSdio(DpcSendNothing)
  \/ InSdio(SendChain) \/ InSdio(SendLength) \/ InSdio(SendRestart)
  \/ InSdio(DpcMore) \/ InSdio(DpcMark) \/ InSdio(DongleGrant)

MCSpec == MCInit /\ [][MCNext]_mcVars /\ WqFairness /\ SdioFairness
=============================================================================
