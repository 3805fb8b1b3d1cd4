------------------------------- MODULE TcpAck -------------------------------
(***************************************************************************)
(* TCP acknowledgements that wait in the driver (dhd_ip.c).  A table       *)
(* remembers one of each stream.  On SDIO the one remembered is on its way *)
(* through the bus queue, and a later one of its stream is copied into it  *)
(* and freed.  On PCIe the one remembered is held back until a timer, or a *)
(* number of later ones, lets the last of them go.                         *)
(*                                                                         *)
(* An action is a stretch of code under tcpack_lock, under the lock of the *)
(* bus queue (in which tcpack_lock nests), or an unlocked one.  A packet   *)
(* that has been freed keeps its contents until the stack uses its memory  *)
(* again.  Not modelled: DELAYTX and its table of received data, packets   *)
(* that are not acknowledgements, proptxstatus (it adds queues between the *)
(* table and the bus), bus stop, suppression being switched on again.  The *)
(* definition marked as a slip is a faulty variant that nobody uses.         *)
(***************************************************************************)
EXTENDS Integers, Sequences, FiniteSets, SequencesExt, FiniteSetsExt

CONSTANTS
  Skb,       \* packets, each carried by its own CPU
  Stream,    \* addresses and ports
  NoSkb, NoStream,
  INFO_MAX,  \* TCPACK_INFO_MAXNUM
  RATIO,     \* tcpack_sup_ratio
  SEQ,       \* acknowledgement numbers wrap at SEQ
  FIRST,     \* number of the last acknowledgement before
  ACKQ_LEN,  \* packets that bus->txq takes
  ACK_GLOM,  \* packets of one chain
  MaxAcks    \* bound on the acknowledgements handed in

ASSUME AckAssumption ==
  /\ {INFO_MAX, SEQ, ACKQ_LEN, ACK_GLOM} \subseteq Nat \ {0}
  /\ RATIO \in Nat \ {0, 1} /\ FIRST \in Nat /\ MaxAcks \in Nat
  /\ NoSkb \notin Skb /\ NoStream \notin Stream

VARIABLES
  ackbus,    \* "sdio" or "pcie"
  supmode,   \* tcpack_sup_mode: "REPLACE", "HOLD" or "OFF"
  skbat,     \* [packet -> where it is]
  strm, ack, \* [packet -> its stream, its number without the wrap]
  tbl,       \* [slot -> pkt_in_q]
  tblcnt,    \* tcpack_info_cnt (HOLD keeps it for a message only)
  supp,      \* [slot -> supp_cnt]
  armed,     \* slots whose timer is pending
  firing,    \* slots whose timer function runs
  cleaning,  \* slots whose timers tbl_clean has still to delete
  untime,    \* [packet -> the slot whose timer its CPU deletes]
  ackq,      \* bus->txq
  chain,     \* packets that the DPC has taken from it
  checked,   \* how many of them dhdsdio_txpkt_preprocess has seen
  newest,    \* [stream -> the highest number handed in]
  gone,      \* [stream -> the highest number sent or dropped]
  handed,    \* acknowledgements so far
  forgotten  \* the code has lost track of a packet

skbVars == <<skbat, strm, ack>>
tblVars == <<tbl, tblcnt, supp>>
timerVars == <<armed, firing, cleaning, untime>>
chainVars == <<ackq, chain, checked>>
ghostVars == <<newest, gone, handed, forgotten>>
ackVars == <<ackbus, supmode, skbVars, tblVars, timerVars, chainVars, ghostVars>>

Slot == 1 .. INFO_MAX

AckInit ==
  /\ ackbus \in {"sdio", "pcie"}
  /\ supmode = IF ackbus = "sdio" THEN "REPLACE" ELSE "HOLD"
  /\ skbat = [p \in Skb |-> "stack"]
  /\ strm = [p \in Skb |-> NoStream]
  /\ ack = [p \in Skb |-> FIRST]
  /\ tbl = [i \in Slot |-> NoSkb] /\ tblcnt = 0 /\ supp = [i \in Slot |-> 0]
  /\ armed = {} /\ firing = {} /\ cleaning = {} /\ untime = [p \in Skb |-> 0]
  /\ ackq = <<>> /\ chain = <<>> /\ checked = 0
  /\ newest = [s \in Stream |-> FIRST] /\ gone = newest
  /\ handed = 0 /\ forgotten = FALSE

-----------------------------------------------------------------------------
\* IS_TCPSEQ_GE, on numbers that wrap.
SeqGE(a, b) == 2 * ((a - b) % SEQ) < SEQ
SeqGT(a, b) == ~SeqGE(b, a)

Listed == {tbl[i] : i \in Slot} \ {NoSkb}
SkbTo(p, where) == skbat' = [skbat EXCEPT ![p] = where]

\* These packets leave the driver: nothing they carry now is kept.
LeftWith(ps) ==
  gone' = [s \in Stream |-> Max({gone[s]} \cup {ack[p] : p \in {q \in ps : strm[q] = s}})]

\* A slip: the last entry is cleared without taking the place of the other.
UnlistLast(p) ==
  IF \E i \in 1 .. tblcnt : tbl[i] = p
  THEN tblcnt' = tblcnt - 1 /\ tbl' = [tbl EXCEPT ![tblcnt] = NoSkb]
  ELSE UNCHANGED <<tbl, tblcnt>>

\* dhd_tcpack_check_xmit.
Unlist(p) ==
  IF \E i \in 1 .. tblcnt : tbl[i] = p
  THEN LET i == Min({k \in 1 .. tblcnt : tbl[k] = p})
       IN  /\ tblcnt' = tblcnt - 1
           /\ tbl' = [tbl EXCEPT ![i] = tbl[tblcnt], ![tblcnt] = NoSkb]
  ELSE UNCHANGED <<tbl, tblcnt>>

\* The stack hands in an acknowledgement, a new one or the last one again;
\* dhd_start_xmit looks at the mode without the lock.
AckHandIn(p, s, n) ==
  /\ skbat[p] = "stack" /\ handed < MaxAcks
  /\ n \in {newest[s], newest[s] + 1}
  /\ strm' = [strm EXCEPT ![p] = s] /\ ack' = [ack EXCEPT ![p] = n]
  /\ SkbTo(p, IF supmode = "OFF" THEN "out" ELSE "look")
  /\ newest' = [newest EXCEPT ![s] = n] /\ handed' = handed + 1
  /\ UNCHANGED <<ackbus, supmode, tblVars, timerVars, chainVars, gone, forgotten>>

\* The function called finds suppression off, or dhd_tcpack_hold no table.
SeesOff(p) ==
  /\ skbat[p] = "look" /\ supmode = "OFF"
  /\ SkbTo(p, "out")
  /\ UNCHANGED <<ackbus, supmode, strm, ack, tblVars, timerVars, chainVars, ghostVars>>

-----------------------------------------------------------------------------
(* dhd_tcpack_suppress.  The bus queue still takes the packets it passes.  *)

SameStream(p) == {i \in 1 .. tblcnt : strm[tbl[i]] = strm[p]}

\* Switched off since the look at the mode: the caller is told that the
\* packet has been freed.
SuppressNoModule(p) ==
  /\ ackbus = "sdio" /\ skbat[p] = "look" /\ supmode = "OFF"
  /\ SkbTo(p, "lost") /\ forgotten' = TRUE
  /\ UNCHANGED <<ackbus, supmode, strm, ack, tblVars, timerVars, chainVars, newest, gone, handed>>

SuppressAdd(p) ==
  /\ supmode = "REPLACE" /\ skbat[p] = "look" /\ SameStream(p) = {}
  /\ IF tblcnt < INFO_MAX
     THEN tblcnt' = tblcnt + 1 /\ tbl' = [tbl EXCEPT ![tblcnt + 1] = p]
     ELSE UNCHANGED <<tbl, tblcnt>>
  /\ SkbTo(p, "out")
  /\ UNCHANGED <<ackbus, supmode, strm, ack, supp, timerVars, chainVars, ghostVars>>

SuppressReplace(p) ==
  /\ supmode = "REPLACE" /\ skbat[p] = "look" /\ SameStream(p) /= {}
  /\ LET old == tbl[Min(SameStream(p))]
     IN  SeqGT(ack[p], ack[old]) /\ ack' = [ack EXCEPT ![old] = ack[p]]
  /\ SkbTo(p, "stack")
  /\ UNCHANGED <<ackbus, supmode, strm, tblVars, timerVars, chainVars, ghostVars>>

\* Not a higher number, or headers of another length (left open).
SuppressPass(p) ==
  /\ supmode = "REPLACE" /\ skbat[p] = "look" /\ SameStream(p) /= {}
  /\ SkbTo(p, "out")
  /\ UNCHANGED <<ackbus, supmode, strm, ack, tblVars, timerVars, chainVars, ghostVars>>

-----------------------------------------------------------------------------
(* From the table to the SDIO bus.                                         *)

\* __dhd_sendpkt frees the packet, for an interface that is being deleted;
\* an entry of the table that points to it stays.
DropEarly(p) ==
  /\ skbat[p] = "out"
  /\ LeftWith({p}) /\ SkbTo(p, "stack")
  /\ forgotten' = (forgotten \/ p \in Listed)
  /\ UNCHANGED <<ackbus, supmode, strm, ack, tblVars, timerVars, chainVars, newest, handed>>

\* dhd_prec_enq under the lock of the queue.
AckEnqueue(p) ==
  /\ ackbus = "sdio" /\ skbat[p] = "out" /\ Len(ackq) < ACKQ_LEN
  /\ ackq' = Append(ackq, p) /\ SkbTo(p, "queued")
  /\ UNCHANGED <<ackbus, supmode, strm, ack, tblVars, timerVars, chain, checked, ghostVars>>

\* wme_dp says that the oldest is discarded.
AckEvict(p) ==
  /\ ackbus = "sdio" /\ skbat[p] = "out" /\ Len(ackq) >= ACKQ_LEN
  /\ Unlist(Head(ackq)) /\ LeftWith({Head(ackq)})
  /\ skbat' = [skbat EXCEPT ![Head(ackq)] = "stack", ![p] = "queued"]
  /\ ackq' = Append(Tail(ackq), p)
  /\ UNCHANGED <<ackbus, supmode, strm, ack, supp, timerVars, chain, checked, newest, handed, forgotten>>

\* It does not: the lock is dropped before the new packet leaves the table.
AckRefuse(p) ==
  /\ ackbus = "sdio" /\ skbat[p] = "out" /\ Len(ackq) >= ACKQ_LEN
  /\ SkbTo(p, "refused")
  /\ UNCHANGED <<ackbus, supmode, strm, ack, tblVars, timerVars, chainVars, ghostVars>>

AckRefused(p) ==
  /\ skbat[p] = "refused"
  /\ Unlist(p) /\ LeftWith({p}) /\ SkbTo(p, "stack")
  /\ UNCHANGED <<ackbus, supmode, strm, ack, supp, timerVars, chainVars, newest, handed, forgotten>>

\* dhdsdio_sendfromq.
ChainTake(k) ==
  /\ chain = <<>> /\ k <= Len(ackq)
  /\ chain' = SubSeq(ackq, 1, k) /\ ackq' = SubSeq(ackq, k + 1, Len(ackq))
  /\ checked' = 0
  /\ UNCHANGED <<ackbus, supmode, skbVars, tblVars, timerVars, ghostVars>>

ChainUnsent == chain /= <<>> /\ skbat[chain[1]] = "queued"

\* dhdsdio_txpkt_preprocess, once for each packet.
ChainCheck ==
  /\ ChainUnsent /\ checked < Len(chain)
  /\ Unlist(chain[checked + 1]) /\ checked' = checked + 1
  /\ UNCHANGED <<ackbus, supmode, skbVars, supp, timerVars, ackq, chain, ghostVars>>

\* No memory to align the packet checked last: the whole chain is freed,
\* those included that have not been checked.
ChainFails ==
  /\ ChainUnsent /\ checked > 0
  /\ LeftWith(Range(chain))
  /\ skbat' = [p \in Skb |-> IF p \in Range(chain) THEN "stack" ELSE skbat[p]]
  /\ forgotten' = (forgotten \/ Range(chain) \cap Listed /= {})
  /\ chain' = <<>> /\ checked' = 0
  /\ UNCHANGED <<ackbus, supmode, strm, ack, tblVars, timerVars, ackq, newest, handed>>

\* On the bus, with success or not.
ChainSend ==
  /\ ChainUnsent /\ checked = Len(chain)
  /\ LeftWith(Range(chain))
  /\ skbat' = [p \in Skb |-> IF p \in Range(chain) THEN "sent" ELSE skbat[p]]
  /\ UNCHANGED <<ackbus, supmode, strm, ack, tblVars, timerVars, chainVars, newest, handed, forgotten>>

ChainFree ==
  /\ chain /= <<>> /\ ~ChainUnsent
  /\ skbat' = [p \in Skb |-> IF p \in Range(chain) THEN "stack" ELSE skbat[p]]
  /\ chain' = <<>> /\ checked' = 0
  /\ UNCHANGED <<ackbus, supmode, strm, ack, tblVars, timerVars, ackq, ghostVars>>

-----------------------------------------------------------------------------
(* dhd_tcpack_hold and its timers.                                         *)

Free == {i \in Slot : tbl[i] = NoSkb}
Held(p) == {i \in Slot \ Free : strm[tbl[i]] = strm[p]}
Holding(p) == ackbus = "pcie" /\ skbat[p] = "look" /\ supmode = "HOLD"

HoldFirst(p) ==
  /\ Holding(p) /\ Held(p) = {} /\ Free /= {}
  /\ LET i == Min(Free)
     IN  /\ tbl' = [tbl EXCEPT ![i] = p] /\ supp' = [supp EXCEPT ![i] = 1]
         /\ armed' = armed \cup {i}
  /\ SkbTo(p, "held")
  /\ UNCHANGED <<ackbus, supmode, strm, ack, tblcnt, firing, cleaning, untime, chainVars, ghostVars>>

\* No slot: the caller is told that the packet is held or has been freed.
HoldFull(p) ==
  /\ Holding(p) /\ Held(p) = {} /\ Free = {}
  /\ SkbTo(p, "lost") /\ forgotten' = TRUE
  /\ UNCHANGED <<ackbus, supmode, strm, ack, tblVars, timerVars, chainVars, newest, gone, handed>>

\* The last of RATIO goes, and its CPU deletes the timer after the lock.
HoldNewer(p) ==
  /\ Holding(p) /\ Held(p) /= {}
  /\ LET i == Min(Held(p))
         last == supp[i] + 1 >= RATIO
     IN  /\ SeqGE(ack[p], ack[tbl[i]])
         /\ tbl' = [tbl EXCEPT ![i] = IF last THEN NoSkb ELSE p]
         /\ supp' = [supp EXCEPT ![i] = IF last THEN 0 ELSE @ + 1]
         /\ skbat' = [skbat EXCEPT ![tbl[i]] = "stack", ![p] = IF last THEN "untime" ELSE "held"]
         /\ untime' = IF last THEN [untime EXCEPT ![p] = i] ELSE untime
  /\ UNCHANGED <<ackbus, supmode, strm, ack, tblcnt, armed, firing, cleaning, chainVars, ghostVars>>

HoldOlder(p) ==
  /\ Holding(p) /\ Held(p) /= {} /\ ~SeqGE(ack[p], ack[tbl[Min(Held(p))]])
  /\ SkbTo(p, "stack")
  /\ UNCHANGED <<ackbus, supmode, strm, ack, tblVars, timerVars, chainVars, ghostVars>>

\* del_timer_sync, also if the slot has been taken again.
HoldUntime(p) ==
  /\ skbat[p] = "untime" /\ untime[p] \notin firing
  /\ armed' = armed \ {untime[p]} /\ untime' = [untime EXCEPT ![p] = 0]
  /\ SkbTo(p, "out")
  /\ UNCHANGED <<ackbus, supmode, strm, ack, tblVars, firing, cleaning, chainVars, ghostVars>>

TimerFires(i) ==
  /\ i \in armed \ firing
  /\ armed' = armed \ {i} /\ firing' = firing \cup {i}
  /\ UNCHANGED <<ackbus, supmode, skbVars, tblVars, cleaning, untime, chainVars, ghostVars>>

\* dhd_tcpack_send.
TimerSend(i) ==
  /\ i \in firing
  /\ firing' = firing \ {i}
  /\ IF supmode = "HOLD" /\ tbl[i] /= NoSkb
     THEN /\ SkbTo(tbl[i], "out")
          /\ tbl' = [tbl EXCEPT ![i] = NoSkb] /\ supp' = [supp EXCEPT ![i] = 0]
     ELSE UNCHANGED <<skbat, tbl, supp>>
  /\ UNCHANGED <<ackbus, supmode, strm, ack, tblcnt, armed, cleaning, untime, chainVars, ghostVars>>

\* To a flow ring, which does not look at the table in HOLD.
RingSend(p) ==
  /\ ackbus = "pcie" /\ skbat[p] = "out"
  /\ LeftWith({p}) /\ SkbTo(p, "stack")
  /\ UNCHANGED <<ackbus, supmode, strm, ack, tblVars, timerVars, chainVars, newest, handed, forgotten>>

\* dhd_tcpack_info_tbl_clean when a flow ring is deleted, whose peer may be
\* another; the timers follow without the lock.
TblClean ==
  /\ ackbus = "pcie" /\ supmode = "HOLD" /\ cleaning = {} /\ Listed /= {}
  /\ LeftWith(Listed)
  /\ skbat' = [p \in Skb |-> IF p \in Listed THEN "stack" ELSE skbat[p]]
  /\ tbl' = [i \in Slot |-> NoSkb] /\ supp' = [i \in Slot |-> 0]
  /\ cleaning' = Slot
  /\ UNCHANGED <<ackbus, supmode, strm, ack, tblcnt, armed, firing, untime, chainVars, newest, handed, forgotten>>

TblUntime ==
  /\ cleaning /= {} /\ Min(cleaning) \notin firing
  /\ cleaning' = cleaning \ {Min(cleaning)} /\ armed' = armed \ {Min(cleaning)}
  /\ UNCHANGED <<ackbus, supmode, skbVars, tblVars, firing, untime, chainVars, ghostVars>>

-----------------------------------------------------------------------------
\* dhd_tcpack_suppress_set(OFF).  Timers are deleted without waiting.
SuppressOff ==
  /\ supmode /= "OFF" /\ cleaning = {}
  /\ supmode' = "OFF"
  /\ tbl' = [i \in Slot |-> NoSkb] /\ tblcnt' = 0 /\ supp' = [i \in Slot |-> 0]
  /\ armed' = {}
  /\ IF supmode = "HOLD"
     THEN /\ LeftWith(Listed)
          /\ skbat' = [p \in Skb |-> IF p \in Listed THEN "stack" ELSE skbat[p]]
     ELSE UNCHANGED <<gone, skbat>>
  /\ UNCHANGED <<ackbus, strm, ack, firing, cleaning, untime, chainVars, newest, handed, forgotten>>

AckNext ==
  \/ \E p \in Skb :
       \/ \E s \in Stream : AckHandIn(p, s, newest[s]) \/ AckHandIn(p, s, newest[s] + 1)
       \/ SuppressNoModule(p) \/ SuppressAdd(p) \/ SuppressReplace(p) \/ SuppressPass(p)
       \/ DropEarly(p) \/ AckEnqueue(p) \/ AckEvict(p) \/ AckRefuse(p) \/ AckRefused(p)
       \/ SeesOff(p) \/ HoldFirst(p) \/ HoldFull(p) \/ HoldNewer(p) \/ HoldOlder(p)
       \/ HoldUntime(p) \/ RingSend(p)
  \/ \E k \in 1 .. ACK_GLOM : ChainTake(k)
  \/ ChainCheck \/ ChainFails \/ ChainSend \/ ChainFree
  \/ \E i \in Slot : TimerFires(i) \/ TimerSend(i)
  \/ TblClean \/ TblUntime \/ SuppressOff

AckSpec == AckInit /\ [][AckNext]_ackVars

-----------------------------------------------------------------------------
\* Code: a CPU copies a newer acknowledgement into a packet that another CPU
\* or the DPC has in hand, and frees its own; the entry that led it there
\* must be gone before that packet is sent, dropped or freed.  The newest
\* acknowledgement of a stream has left the driver or is in a packet that is
\* still to leave it, unless the code has lost track of a packet on one of
\* the paths where it does (they set "forgotten").
NewestAckKept ==
  ~forgotten =>
    \A s \in Stream :
      \/ gone[s] >= newest[s]
      \/ \E p \in Skb : /\ strm[p] = s /\ ack[p] >= newest[s]
                        /\ skbat[p] \notin {"stack", "sent", "lost"}
=============================================================================
