----------------------------- MODULE MsgbufRing -----------------------------
(***************************************************************************)
(* The host's side of a ring of work items that the dongle reads           *)
(* (dhd_msgbuf.c): how much of it may be written, and what an allocation   *)
(* and its rollback do to the write index and to the phase bit, which      *)
(* tells the dongle on which lap around the ring an item was written.      *)
(*                                                                         *)
(* A ring is a record: wr, the next slot to write; rd, the host's copy of  *)
(* the dongle's read index, which may be old; phase, the bit for the items *)
(* of this lap.  d is the number of slots; one of them always stays empty. *)
(*                                                                         *)
(* A phase is 0 or 1, which stands for the bit 0x80.  A dongle that asks   *)
(* for nibbles expects 0xA0, which 1 stands for as well, on the odd laps   *)
(* of a flow ring and 0x50, here 2, on the even ones.                      *)
(***************************************************************************)
EXTENDS Naturals, FiniteSetsExt

CONSTANT NoId   \* DHD_PKTID_INVALID

\* A slot of a ring with nothing in it that the dongle has yet to read.
Blank == [id |-> NoId, phase |-> 0]

NewRing == [wr |-> 0, rd |-> 0, phase |-> 0]

\* CHECK_WRITE_SPACE: the slots that may be written without going around.
WriteSpaceFrom(r, w, d) ==
  IF r > w THEN r - w - 1 ELSE IF r = 0 \/ w = 0 THEN d - w - 1 ELSE d - w

\* A slip: no exception at the end of the ring.
GrantedAllOrNone(ring, n, exact, d) ==
  LET room == WriteSpaceFrom(ring.rd, ring.wr, d)
  IN IF exact /\ room < n THEN 0 ELSE Min({n, room})

\* How many of n items may be written now.  With exact all of them or none, but
\* where the end of the ring is in the way the part before the end.
Granted(ring, n, exact, d) ==
  LET room == WriteSpaceFrom(ring.rd, ring.wr, d)
  IN IF exact /\ room < n /\ d - ring.wr >= n THEN 0 ELSE Min({n, room})

\* The dongle's read index is read again only if the copy leaves no room.
Refreshed(ring, drd, n, exact, d) ==
  IF Granted(ring, n, exact, d) = 0 THEN [ring EXCEPT !.rd = drd] ELSE ring

Allocated(ring, k, d) ==
  [ring EXCEPT !.wr = (@ + k) % d,
               !.phase = IF k > 0 /\ ring.wr = 0 THEN 1 - @ ELSE @]

\* In a flow ring the phase of the even laps is 0, or that of the nibbles.
NIBBLE_WRAP == 2

FlowFlipped(p, even) == IF p = 1 THEN even ELSE 1

FlowAllocated(ring, k, d, even) ==
  [ring EXCEPT !.wr = (@ + k) % d,
               !.phase = IF k > 0 /\ ring.wr = 0 THEN FlowFlipped(@, even) ELSE @]

\* A slip: the phase stays that of the next lap.
RolledBackPhaseKept(ring, k, d) ==
  [ring EXCEPT !.wr = IF @ < k THEN d - k ELSE @ - k]

\* The last k items are given back, and the phase if they began a lap: that
\* of the bit, also where nibbles are in use.
RolledBack(ring, k, d) ==
  LET wr == IF ring.wr < k THEN d - k ELSE ring.wr - k
  IN [ring EXCEPT !.wr = wr,
                  !.phase = IF wr /= 0 THEN @ ELSE IF @ = 0 THEN 1 ELSE 0]

-----------------------------------------------------------------------------
(* What the dongle does with the ring: it reads the items from its read     *)
(* index up to the write index it has been told, and on each lap it expects *)
(* the other phase.                                                         *)

\* The slots from "from" up to but not including "to".
Span(from, to, d) ==
  IF from <= to THEN from .. to - 1 ELSE (from .. d - 1) \cup (0 .. to - 1)

\* The phase the dongle, at slot drd of a lap of phase lap, expects in slot i.
Expected(i, drd, lap) == IF i >= drd THEN lap ELSE 1 - lap

NextLap(drd, lap, d) == IF drd = d - 1 THEN 1 - lap ELSE lap

FlowExpected(i, drd, lap, even) == IF i >= drd THEN lap ELSE FlowFlipped(lap, even)

FlowNextLap(drd, lap, even, d) == IF drd = d - 1 THEN FlowFlipped(lap, even) ELSE lap
=============================================================================
