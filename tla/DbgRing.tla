------------------------------- MODULE DbgRing -------------------------------
(***************************************************************************)
(* The debug ring of dhd_dbg_ring.c: variable length entries in a circular *)
(* buffer, written by dhd_dbg_ring_push and read by                        *)
(* dhd_dbg_ring_pull_single, both under ring->lock.  An entry never wraps: *)
(* when it does not fit before the end of the buffer the writer zero pads  *)
(* the tail (tail_padded, rem_len) and starts over at 0, and it frees room *)
(* by discarding the oldest entries.  The reader skips the padding.        *)
(*                                                                         *)
(* A cell of the buffer stands for one byte.  A header takes one cell, and *)
(* a cell knows the entry it belongs to and its place in that entry, so    *)
(* that an overwritten entry can be told from an intact one.  The "claim"  *)
(* loop of a push is one step per iteration; claim # 0 says that a push is *)
(* in the loop, that is, that it holds ring->lock.                         *)
(***************************************************************************)
EXTENDS Naturals, Sequences, FiniteSets, FiniteSetsExt, SequencesExt

CONSTANTS
  SIZE,           \* ring_size
  Lens,           \* the lengths of entries, header included
  MaxPush,        \* bound of the model: how many entries are ever logged
  COUNTER,        \* the byte counters are modulo COUNTER (2^32 in the code)
  PULL_INACTIVE   \* ring->pull_inactive

ASSUME SizeAssumption ==
  /\ SIZE \in Nat
  /\ Lens # {}
  /\ \A l \in Lens : l \in 1 .. SIZE      \* what push lets through
ASSUME BoundAssumption == MaxPush \in Nat /\ COUNTER \in Nat /\ COUNTER > SIZE
ASSUME PullAssumption == PULL_INACTIVE \in BOOLEAN

VARIABLES
  mem,            \* ring_buf
  rp, wp,         \* the read and the write pointer
  tail_padded,    \* the writer padded the tail and the reader is to skip it
  rem_len,        \* the length of that padding
  written, read,  \* stat.written_bytes and stat.read_bytes
  state,          \* RING_ACTIVE or RING_SUSPEND
  claim,          \* the length of the entry being pushed, 0 outside a push
  seq,            \* the number of entries logged so far
  got,            \* the entry the last pull copied out, 0 before the first
  overlong        \* history: push has let an entry as long as the ring through

vars ==
  <<mem, rp, wp, tail_padded, rem_len, written, read, state, claim, seq, got, overlong>>

Cell == [id : 0 .. MaxPush, len : 1 .. SIZE, off : 0 .. SIZE]

\* A zeroed cell read as a header says payload length 0: one header cell long.
Zero == [id |-> 0, len |-> 1, off |-> 0]

Init ==
  /\ mem = [p \in 0 .. SIZE - 1 |-> Zero]
  /\ rp = 0 /\ wp = 0
  /\ tail_padded = FALSE
  /\ rem_len = 0
  /\ written = 0 /\ read = 0
  /\ state = "ACTIVE"
  /\ claim = 0
  /\ seq = 0
  /\ got = 0
  /\ overlong = FALSE

-----------------------------------------------------------------------------
(* TXACTIVESZ and DBG_RING_CHECK_WRITE_SPACE: the free bytes, of which     *)
(* only those up to the end of the buffer or the read pointer are usable.  *)
ActiveSize == IF rp <= wp THEN wp - rp ELSE SIZE - rp + wp

\* A writer that forgets that an entry may not wrap.
WriteSpaceTotal == SIZE - ActiveSize

\* A writer that forgets the unread entries ahead of it.
WriteSpaceToEnd == SIZE - wp

WriteSpace ==
  LET contiguous == IF wp >= rp THEN SIZE - wp ELSE rp - wp
  IN  Min({SIZE - ActiveSize, contiguous})

\* A pending length with the wrapped counters exchanged.
PendingLenSwapped ==
  IF written >= read THEN written - read ELSE (COUNTER - 1) - written + read

\* dhd_dbg_ring_get_pending_len, with the wrap of the counters as written.
PendingLen ==
  IF written >= read THEN written - read ELSE (COUNTER - 1) - read + written

\* The cells of [first, last) become the entry numbered id, or zero padding.
Stamped(first, len, id) ==
  [p \in DOMAIN mem |->
    IF p \in first .. first + len - 1
    THEN [id |-> id, len |-> len, off |-> p - first]
    ELSE mem[p]]

Padded(first) == [p \in DOMAIN mem |-> IF p >= first THEN Zero ELSE mem[p]]

\* The padding is next for a reader at p: it starts over at 0.
AtPadding(p) == tail_padded /\ p + rem_len = SIZE

\* A reader that does not look for the padding.
PastPaddingNever(p) == FALSE

PastPadding(p) == tail_padded /\ p + rem_len >= SIZE

-----------------------------------------------------------------------------
(* dhd_dbg_ring_push, on an active ring, up to the claim loop.  Only an     *)
(* entry longer than the ring is turned away.                              *)
Push(len) ==
  /\ claim = 0
  /\ state = "ACTIVE"
  /\ seq < MaxPush
  /\ claim' = len
  /\ overlong' = (overlong \/ len = SIZE)
  /\ UNCHANGED <<mem, rp, wp, tail_padded, rem_len, written, read, state, seq, got>>

\* A wrap that pads the tail and leaves the write pointer behind the padding.
WrapWriterStays ==
  /\ claim # 0
  /\ WriteSpace <= claim
  /\ rp <= wp
  /\ tail_padded' = TRUE
  /\ rem_len' = SIZE - wp
  /\ mem' = Padded(wp)
  /\ UNCHANGED <<rp, wp, written, read, state, claim, seq, got, overlong>>

(* An iteration of the loop that finds too little room before the end of   *)
(* the buffer: pad it, discard the entry at 0 if the reader is still       *)
(* there, and start over at 0.                                             *)
WrapWriter ==
  /\ claim # 0
  /\ WriteSpace <= claim
  /\ rp <= wp
  /\ tail_padded' = TRUE
  /\ rem_len' = SIZE - wp
  /\ mem' = Padded(wp)
  /\ LET freed == IF rp = 0 THEN mem'[0].len ELSE 0
     IN  /\ rp' = IF rp + freed = wp THEN 0 ELSE rp + freed
         /\ read' = (read + freed) % COUNTER
  /\ wp' = 0
  /\ UNCHANGED <<written, state, claim, seq, got, overlong>>

(* An iteration that finds too little room before the read pointer:        *)
(* discard the oldest entry and skip the padding behind it.                *)
DiscardOldest ==
  /\ claim # 0
  /\ WriteSpace <= claim
  /\ rp > wp
  /\ LET len == mem[rp].len
         next == rp + len
     IN  /\ next < SIZE
         /\ rp' = IF AtPadding(next) THEN 0 ELSE next
         /\ tail_padded' = (tail_padded /\ ~AtPadding(next))
         /\ rem_len' = IF AtPadding(next) THEN 0 ELSE rem_len
         /\ read' = (read + len) % COUNTER
  /\ UNCHANGED <<mem, wp, written, state, claim, seq, got, overlong>>

(* The ASSERT(0) of the loop and the return behind it (BCME_BUFTOOSHORT):   *)
(* the oldest entry reaches to the end of the buffer.                      *)
GiveUp ==
  /\ claim # 0
  /\ WriteSpace <= claim
  /\ rp > wp
  /\ rp + mem[rp].len >= SIZE
  /\ claim' = 0
  /\ UNCHANGED <<mem, rp, wp, tail_padded, rem_len, written, read, state, seq, got, overlong>>

(* The loop has claimed the room: store the entry. *)
Store ==
  /\ claim # 0
  /\ WriteSpace > claim
  /\ wp + claim < SIZE
  /\ mem' = Stamped(wp, claim, seq + 1)
  /\ wp' = wp + claim
  /\ written' = (written + claim) % COUNTER
  /\ seq' = seq + 1
  /\ claim' = 0
  /\ UNCHANGED <<rp, tail_padded, rem_len, read, state, got, overlong>>

(* dhd_dbg_ring_pull_single, with a buffer the entry fits in. *)
PullSingle ==
  /\ claim = 0
  /\ state = "ACTIVE" \/ PULL_INACTIVE
  /\ rp # wp
  /\ LET len == mem[rp].len
         next == rp + len
         skip == next # wp /\ PastPadding(next)
     IN  /\ next <= SIZE
         /\ rp' = IF skip THEN 0 ELSE next
         /\ tail_padded' = (tail_padded /\ ~skip)
         /\ rem_len' = IF skip THEN 0 ELSE rem_len
         /\ read' = (read + len) % COUNTER
  /\ got' = mem[rp].id
  /\ UNCHANGED <<mem, wp, written, state, claim, seq, overlong>>

(* dhd_dbg_ring_config: log level 0 suspends the ring. *)
Config(s) ==
  /\ claim = 0
  /\ state # s
  /\ state' = s
  /\ UNCHANGED <<mem, rp, wp, tail_padded, rem_len, written, read, claim, seq, got, overlong>>

ClaimStep == WrapWriter \/ DiscardOldest \/ GiveUp \/ Store

Next ==
  \/ \E len \in Lens : Push(len)
  \/ WrapWriter
  \/ DiscardOldest
  \/ GiveUp
  \/ Store
  \/ PullSingle
  \/ \E s \in {"ACTIVE", "SUSPEND"} : Config(s)

Spec == Init /\ [][Next]_vars

\* A push runs to its end: the loop spins on one processor, the lock held.
FairSpec == Spec /\ WF_vars(ClaimStep)

-----------------------------------------------------------------------------
(* The bytes between the read and the write pointer, in reading order. *)
Window ==
  IF rp <= wp
  THEN [i \in 1 .. wp - rp |-> rp + i - 1]
  ELSE [i \in 1 .. SIZE - rp + wp |-> (rp + i - 1) % SIZE]

IsHeader(p) == mem[p].id # 0 /\ mem[p].off = 0

StoredBytes == Cardinality({i \in DOMAIN Window : mem[Window[i]].id # 0})

\* With entries of one length each starts at a multiple of it, and Top is where
\* the tail starts that is too short for one more.
EntryLen == Max(Lens)
Top == ((SIZE - 1) \div EntryLen) * EntryLen

\* The entries the reader would then still be given, oldest first.
Stored ==
  [i \in 1 .. StoredBytes \div EntryLen |-> mem[(rp + (i - 1) * EntryLen) % Top].id]

-----------------------------------------------------------------------------
(* The pointers stay inside the buffer and the variables keep their types. *)
TypeOK ==
  /\ mem \in [0 .. SIZE - 1 -> Cell]
  /\ rp \in 0 .. SIZE - 1 /\ wp \in 0 .. SIZE - 1
  /\ tail_padded \in BOOLEAN
  /\ rem_len \in 0 .. SIZE
  /\ written \in 0 .. COUNTER - 1 /\ read \in 0 .. COUNTER - 1
  /\ state \in {"ACTIVE", "SUSPEND"}
  /\ claim \in Lens \cup {0}
  /\ seq \in 0 .. MaxPush
  /\ got \in 0 .. MaxPush
  /\ overlong \in BOOLEAN

(* The read pointer of a ring that is not empty is at the header of an     *)
(* entry, and no entry between the pointers has been overwritten by a push *)
(* or cut by the padding: what a pull copies out is what a push stored.    *)
(* This is said of a ring no push has given up on, see AssertsHold.        *)
EntriesIntact ==
  ~overlong =>
    /\ rp # wp => IsHeader(rp)
    /\ \A i \in DOMAIN Window :
         LET p == Window[i]
         IN  IsHeader(p) =>
               \A k \in 0 .. mem[p].len - 1 :
                 /\ i + k \in DOMAIN Window
                 /\ Window[i + k] = p + k
                 /\ mem[p + k] = [mem[p] EXCEPT !.off = k]

(* The ASSERT(0)s of push and pull are not reached by entries shorter than *)
(* the ring: the writer that discards an entry, the writer that has        *)
(* claimed its room and the reader that passes an entry all stay inside    *)
(* the buffer.  The check of push (w_len > ring_size) also lets an entry   *)
(* through that is exactly as long as the ring; that one does reach the    *)
(* ASSERT(0) of the loop and leaves a ring of padding behind.              *)
AssertsHold ==
  ~overlong =>
    /\ claim # 0 /\ WriteSpace <= claim /\ rp > wp => rp + mem[rp].len < SIZE
    /\ claim # 0 /\ WriteSpace > claim => wp + claim < SIZE
    /\ claim = 0 /\ rp # wp => rp + mem[rp].len < SIZE

(* The loop of a push, which spins with the ring lock held, comes to an    *)
(* end for every entry the size check lets through, the one as long as the *)
(* ring included, although that one finds room nowhere.                    *)
ClaimEnds == claim # 0 ~> claim = 0

(* The pending length that decides whether the reader is woken is the      *)
(* number of unread bytes, or one less once written_bytes has wrapped      *)
(* around and read_bytes has not, as long as no entry filled the ring.     *)
PendingExact == ~overlong => PendingLen \in {StoredBytes, StoredBytes - 1}

(* With entries of one length the ring is the queue of DbgFifo: entries    *)
(* are read in the order they were pushed, each once, and one is discarded *)
(* only if it is the oldest and the ring holds at most one entry less than *)
(* fit in it.                                                              *)
Fifo ==
  INSTANCE DbgFifo WITH q <- Stored, CAP <- ((SIZE - 1) \div EntryLen) - 1

IsFifo == Fifo!Spec

(* "don't pass wp but skip padding if there is one": a reader that starts  *)
(* over at 0 leaves nothing but padding behind.                            *)
SkipsOnlyPadding ==
  [][PullSingle /\ rp' < rp =>
       \A p \in rp + mem[rp].len .. SIZE - 1 : mem[p] = Zero]_vars
=============================================================================
