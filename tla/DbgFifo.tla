------------------------------- MODULE DbgFifo -------------------------------
(***************************************************************************)
(* What a debug ring (dhd_dbg_ring.c) promises its two users.  Writers log *)
(* numbered entries, the poll worker takes them in the order they were     *)
(* logged, each at most once, and an entry is discarded unread only when   *)
(* it is the oldest one and the ring is at its capacity.  CAP counts       *)
(* entries: nothing is discarded from a ring that holds fewer.             *)
(***************************************************************************)
EXTENDS Naturals, Sequences

CONSTANTS
  CAP,     \* the ring discards nothing while it holds fewer entries
  MaxPush  \* bound of the model: how many entries are ever logged

VARIABLES
  q,      \* the entries logged and not yet read, oldest first
  seq,    \* the number of the last entry logged
  got     \* the number of the last entry read, 0 before the first

fifoVars == <<q, seq, got>>

Init ==
  /\ q = <<>>
  /\ seq = 0
  /\ got = 0

Log ==
  /\ seq < MaxPush
  /\ q' = Append(q, seq + 1)
  /\ seq' = seq + 1
  /\ UNCHANGED got

Discard ==
  /\ Len(q) >= CAP
  /\ q' = Tail(q)
  /\ UNCHANGED <<seq, got>>

Take ==
  /\ q # <<>>
  /\ got' = Head(q)
  /\ q' = Tail(q)
  /\ UNCHANGED seq

Next == Log \/ Discard \/ Take

Spec == Init /\ [][Next]_fifoVars
=============================================================================
