------------------------------ MODULE MsgbufRx ------------------------------
(***************************************************************************)
(* Receive buffers of the PCIe protocol (dhd_msgbuf.c): the host posts     *)
(* empty buffers in bursts, counts them in rxbufpost, and posts more only  *)
(* when completions have lowered the count; the dongle takes buffers from  *)
(* the ring, fills them and returns them in any order.                     *)
(*                                                                         *)
(* One actor, the DPC (at first the thread that opens the interface),      *)
(* posts and reaps.  Not modelled: a packet that cannot be allocated (the  *)
(* code as built goes on with a null pointer), the emergency queue of      *)
(* DHD_LB_RXP, a completion with an unknown id, what becomes of the        *)
(* packets received.                                                       *)
(***************************************************************************)
EXTENDS MsgbufRing, FiniteSets

CONSTANTS
  RxPktid,        \* ids of pktid_rx_map
  RXITEMS,        \* slots of the ring, h2d_max_rxpost
  MAX_RXBUFPOST,  \* max_rxbufpost
  RX_BUF_BURST,   \* rx_buf_burst
  RX_THRESHOLD    \* rx_bufpost_threshold

ASSUME RxAssumption ==
  /\ {RXITEMS, MAX_RXBUFPOST, RX_BUF_BURST, RX_THRESHOLD} \subseteq Nat \ {0}
  /\ MAX_RXBUFPOST < RXITEMS
  /\ RX_BUF_BURST <= MAX_RXBUFPOST /\ RX_THRESHOLD <= MAX_RXBUFPOST
  /\ IsFiniteSet(RxPktid) /\ NoId \notin RxPktid

VARIABLES
  rxat,       \* "rest", or "post" inside dhd_msgbuf_rxbuf_post
  rxbufpost,  \* buffers the host counts as posted
  rxbusy,     \* ids in use
  rxring,     \* msgbuf_ring_t of h2dring_rxp_subn
  rxtold,     \* the write index the dongle has been told
  rxdesc,     \* [slot -> descriptor]
  rxdrd,      \* the dongle's read index
  rxlap,      \* the phase it expects there
  rxheld,     \* ids of the buffers the dongle has taken from the ring
  rxcpl,      \* ids in completions not yet read
  rxshort     \* the last posting ended for want of buffers or ids

rxVars == <<rxat, rxbufpost, rxbusy, rxring, rxtold, rxdesc, rxdrd, rxlap, rxheld, rxcpl, rxshort>>

RxInit ==
  /\ rxat = "post" /\ rxbufpost = 0 /\ rxbusy = {}
  /\ rxring = NewRing /\ rxtold = 0 /\ rxdesc = [i \in 0 .. RXITEMS - 1 |-> Blank]
  /\ rxdrd = 0 /\ rxlap = 1 /\ rxheld = {} /\ rxcpl = {} /\ rxshort = FALSE

-----------------------------------------------------------------------------
(* The host.                                                                *)

Fill == MAX_RXBUFPOST - rxbufpost

\* One call of dhd_prot_rxbuf_post: "have" buffers of a burst could be allocated
\* and mapped.  Slots for which the map has no id are given back.
RxBurst(have) ==
  LET count == Min({Fill, RX_BUF_BURST})
      ring == Refreshed(rxring, rxdrd, have, TRUE, RXITEMS)
      slots == Granted(ring, have, TRUE, RXITEMS)
      got == Allocated(ring, slots, RXITEMS)
      free == RxPktid \ rxbusy
      n == Min({slots, Cardinality(free)})
  IN /\ rxat = "post" /\ Fill >= RX_BUF_BURST /\ have <= count
     /\ rxring' = IF have = 0 THEN rxring
                  ELSE IF n < slots THEN RolledBack(got, slots - n, RXITEMS) ELSE got
     /\ \E ids \in kSubset(n, free) :
          /\ rxbusy' = rxbusy \cup ids
          /\ \E order \in [0 .. n - 1 -> ids] :
               /\ {order[k] : k \in 0 .. n - 1} = ids
               /\ rxdesc' = [i \in DOMAIN rxdesc |->
                    IF i - ring.wr \in 0 .. n - 1
                    THEN [id |-> order[i - ring.wr], phase |-> got.phase] ELSE rxdesc[i]]
     /\ rxtold' = IF n > 0 THEN rxring'.wr ELSE rxtold
     /\ rxbufpost' = rxbufpost + n
     /\ rxat' = IF n > 0 THEN "post" ELSE "rest"
     /\ rxshort' = (n = 0 /\ (have = 0 \/ free = {}))
     /\ UNCHANGED <<rxdrd, rxlap, rxheld, rxcpl>>

RxPostEnd ==
  /\ rxat = "post" /\ Fill < RX_BUF_BURST
  /\ rxat' = "rest" /\ rxshort' = FALSE
  /\ UNCHANGED <<rxbufpost, rxbusy, rxring, rxtold, rxdesc, rxdrd, rxlap, rxheld, rxcpl>>

\* A batch of completions, then dhd_prot_return_rxbuf for as many buffers.
RxReap(batch) ==
  /\ rxat = "rest" /\ batch /= {} /\ batch \subseteq rxcpl
  /\ rxcpl' = rxcpl \ batch /\ rxbusy' = rxbusy \ batch
  /\ LET cnt == Cardinality(batch)
     IN rxbufpost' = IF rxbufpost >= cnt THEN rxbufpost - cnt ELSE 0
  /\ rxat' = IF rxbufpost' <= MAX_RXBUFPOST - RX_THRESHOLD THEN "post" ELSE "rest"
  /\ UNCHANGED <<rxring, rxtold, rxdesc, rxdrd, rxlap, rxheld, rxshort>>

-----------------------------------------------------------------------------
(* The dongle.                                                              *)

DongleTakesBuffer ==
  /\ rxdrd /= rxtold
  /\ rxheld' = rxheld \cup {rxdesc[rxdrd].id}
  /\ rxdesc' = [rxdesc EXCEPT ![rxdrd] = Blank]
  /\ rxdrd' = (rxdrd + 1) % RXITEMS /\ rxlap' = NextLap(rxdrd, rxlap, RXITEMS)
  /\ UNCHANGED <<rxat, rxbufpost, rxbusy, rxring, rxtold, rxcpl, rxshort>>

DongleFillsBuffer(id) ==
  /\ id \in rxheld
  /\ rxheld' = rxheld \ {id} /\ rxcpl' = rxcpl \cup {id}
  /\ UNCHANGED <<rxat, rxbufpost, rxbusy, rxring, rxtold, rxdesc, rxdrd, rxlap, rxshort>>

-----------------------------------------------------------------------------
RxNext ==
  \/ \E have \in 0 .. RX_BUF_BURST : RxBurst(have)
  \/ RxPostEnd
  \/ \E batch \in SUBSET RxPktid : RxReap(batch)
  \/ DongleTakesBuffer
  \/ \E id \in RxPktid : DongleFillsBuffer(id)

RxSpec == RxInit /\ [][RxNext]_rxVars

-----------------------------------------------------------------------------
\* The buffers the host counts are those that are in use, each in one place,
\* those in the ring written on the lap on which the dongle will read them.
\* When the host is at rest the dongle is short of less than a burst (or of
\* less than the threshold), unless buffers or ids had run out: no position of
\* the ring, in particular not its seam, makes it stop short of that.
RxUnread == Span(rxdrd, rxring.wr, RXITEMS)

RxProvisioned ==
  /\ rxbufpost = Cardinality(rxbusy)
  /\ rxbufpost = Cardinality(RxUnread) + Cardinality(rxheld) + Cardinality(rxcpl)
  /\ rxbusy = {rxdesc[i].id : i \in RxUnread} \cup rxheld \cup rxcpl
  /\ rxtold = rxring.wr
  /\ \A i \in RxUnread : rxdesc[i].phase = Expected(i, rxdrd, rxlap)
  /\ rxat = "rest" /\ ~rxshort => Fill < Max({RX_BUF_BURST, RX_THRESHOLD})
=============================================================================
