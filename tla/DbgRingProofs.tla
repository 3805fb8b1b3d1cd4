--------------------------- MODULE DbgRingProofs ----------------------------
(***************************************************************************)
(* Theorems about DbgRing for every size of the ring and every set of      *)
(* lengths: an entry a reader is given is whole and was stored by one push *)
(* and the assertions of dhd_dbg_ring_push and dhd_dbg_ring_pull_single    *)
(* hold, until the one entry comes that the check of push lets through and *)
(* the ring has no room for: one exactly as long as the ring.              *)
(***************************************************************************)
EXTENDS DbgRing, FiniteSetTheorems, SequenceTheorems, TLAPS

-----------------------------------------------------------------------------
(* The cells of [a, b) are whole entries of m, one after the other.        *)

Owns(m, p, a, b) ==
  LET first == p - m[p].off
  IN  /\ m[p].id # 0
      /\ m[p].off < m[p].len
      /\ a <= first /\ first + m[p].len <= b
      /\ \A k \in 0 .. m[p].len - 1 : m[first + k] = [m[p] EXCEPT !.off = k]

Tiled(m, a, b) == \A p \in a .. b - 1 : Owns(m, p, a, b)

\* Entries are stored from 0 to the write pointer.  The reader is behind the
\* writer, or it is in the entries before the padding that the writer has left.
RingInv ==
  /\ claim < SIZE
  /\ claim # 0 => seq < MaxPush
  /\ Tiled(mem, 0, wp)
  /\ rp <= wp => Tiled(mem, rp, wp)
  /\ rp > wp =>
       /\ tail_padded
       /\ rp < SIZE - rem_len
       /\ Tiled(mem, rp, SIZE - rem_len)
       /\ \A p \in SIZE - rem_len .. SIZE - 1 : mem[p] = Zero
       /\ rem_len > 0

-----------------------------------------------------------------------------
(* Lemmas about the operators.                                             *)

LEMMA MinOfTwo ==
  ASSUME NEW a \in Int, NEW b \in Int
  PROVE  /\ Min({a, b}) \in {a, b}
         /\ Min({a, b}) <= a /\ Min({a, b}) <= b
         /\ b <= a => Min({a, b}) = b
<1>1. \E x \in {a, b} : \A y \in {a, b} : x =< y
  OBVIOUS
<1>2. Min({a, b}) \in {a, b} /\ \A y \in {a, b} : Min({a, b}) =< y
  BY <1>1 DEF Min
<1>3. QED
  BY <1>2

\* The free room is in front of the writer, up to the reader or to the end.
LEMMA RoomAhead ==
  ASSUME TypeOK
  PROVE  WriteSpace = IF wp >= rp THEN SIZE - wp ELSE rp - wp
<1>1. CASE wp >= rp
  <2> DEFINE a == SIZE - (wp - rp)
             b == SIZE - wp
  <2>1. a \in Int /\ b \in Int /\ b <= a
    BY SizeAssumption DEF TypeOK
  <2>2. WriteSpace = Min({a, b})
    BY <1>1 DEF WriteSpace, ActiveSize, TypeOK
  <2> HIDE DEF a, b
  <2>3. Min({a, b}) = b
    BY <2>1, MinOfTwo
  <2>4. QED
    BY <1>1, <2>2, <2>3 DEF b
<1>2. CASE wp < rp
  <2> DEFINE b == rp - wp
  <2>1. b \in Int
    BY DEF TypeOK
  <2>2. WriteSpace = Min({b, b})
    <3>1. SIZE - ActiveSize = b
      BY <1>2, SizeAssumption DEF ActiveSize, TypeOK
    <3>2. ~(wp >= rp)
      BY <1>2 DEF TypeOK
    <3>3. QED
      BY <3>1, <3>2 DEF WriteSpace
  <2> HIDE DEF b
  <2>3. Min({b, b}) = b
    BY <2>1, MinOfTwo
  <2>4. QED
    BY <1>2, <2>2, <2>3 DEF b, TypeOK
<1>3. QED
  BY <1>1, <1>2 DEF TypeOK

LEMMA CellAt ==
  ASSUME TypeOK, NEW p \in 0 .. SIZE - 1
  PROVE  /\ mem[p] \in Cell
         /\ mem[p].id \in Nat /\ mem[p].off \in Nat /\ mem[p].len \in Nat \ {0}
<1>1. mem[p] \in [id : 0 .. MaxPush, len : 1 .. SIZE, off : 0 .. SIZE]
  BY DEF TypeOK, Cell
<1>2. QED
  BY <1>1, SizeAssumption, BoundAssumption DEF Cell

\* A reader at the first entry finds its header, and behind it whole entries.
LEMMA NextEntry ==
  ASSUME TypeOK, NEW a \in 0 .. SIZE - 1, NEW b \in 0 .. SIZE, a < b, Tiled(mem, a, b)
  PROVE  /\ IsHeader(a)
         /\ a + mem[a].len \in Nat /\ a + mem[a].len > a
         /\ a + mem[a].len <= b
         /\ Tiled(mem, a + mem[a].len, b)
<1> mem[a].id \in Nat /\ mem[a].off \in Nat /\ mem[a].len \in Nat \ {0}
  BY CellAt
<1>1. Owns(mem, a, a, b)
  BY DEF Tiled
<1>2. mem[a].off = 0 /\ mem[a].id # 0
  BY <1>1 DEF Owns
<1>3. /\ a + mem[a].len <= b
      /\ a + mem[a].len \in Nat /\ a + mem[a].len > a
      /\ \A k \in 0 .. mem[a].len - 1 : mem[a + k] = [mem[a] EXCEPT !.off = k]
  <2>1. a - mem[a].off = a
    BY <1>2
  <2>2. QED
    BY <1>1, <2>1 DEF Owns
<1>4. ASSUME NEW p \in a + mem[a].len .. b - 1
      PROVE  Owns(mem, p, a + mem[a].len, b)
  <2>1. p \in 0 .. SIZE - 1 /\ p \in a .. b - 1
    BY <1>3, SizeAssumption
  <2>2. Owns(mem, p, a, b)
    BY <2>1 DEF Tiled
  <2>3. mem[p].off \in Nat /\ mem[p].len \in Nat \ {0}
    BY <2>1, CellAt
  <2> DEFINE first == p - mem[p].off
  <2>4. first \in a .. p /\ mem[first].off = 0 /\ mem[first].len = mem[p].len
    <3>1. first \in a .. p
      BY <2>1, <2>2, <2>3 DEF Owns
    <3>2. mem[first + 0] = [mem[p] EXCEPT !.off = 0]
      BY <2>2, <2>3 DEF Owns
    <3>3. first + 0 = first
      BY <3>1
    <3>4. QED
      BY <2>1, <3>1, <3>2, <3>3, CellAt DEF Cell
  <2>5. first >= a + mem[a].len
    <3>1. CASE first = a
      BY <3>1, <2>1, <2>2, <2>3, <2>4, <1>3 DEF Owns
    <3>2. CASE first > a /\ first < a + mem[a].len
      <4>1. first - a \in 0 .. mem[a].len - 1 /\ a + (first - a) = first /\ first - a > 0
        BY <3>2, <2>4, <1>3
      <4>2. mem[first] = [mem[a] EXCEPT !.off = first - a]
        BY <4>1, <1>3
      <4>3. mem[first].off = first - a
        BY <4>2, CellAt DEF Cell
      <4>4. QED
        BY <4>1, <4>3, <2>4
    <3>3. QED
      BY <3>1, <3>2, <2>4, <1>3
  <2>6. QED
    BY <2>2, <2>5 DEF Owns
<1>5. QED
  BY <1>2, <1>3, <1>4 DEF Tiled, IsHeader

\* What is outside [a, b) does not matter to the entries in it.
LEMMA TiledKept ==
  ASSUME TypeOK, NEW m, NEW a \in 0 .. SIZE, NEW b \in 0 .. SIZE, Tiled(mem, a, b),
         \A p \in a .. b - 1 : m[p] = mem[p]
  PROVE  Tiled(m, a, b)
<1> SUFFICES ASSUME NEW p \in a .. b - 1
             PROVE  Owns(m, p, a, b)
  BY DEF Tiled
<1>1. p \in 0 .. SIZE - 1 /\ m[p] = mem[p]
  BY SizeAssumption
<1>2. Owns(mem, p, a, b)
  BY DEF Tiled
<1>3. mem[p].off \in Nat /\ mem[p].len \in Nat \ {0}
  BY <1>1, CellAt
<1>4. ASSUME NEW k \in 0 .. mem[p].len - 1
      PROVE  m[p - mem[p].off + k] = [mem[p] EXCEPT !.off = k]
  <2>1. p - mem[p].off + k \in a .. b - 1
    BY <1>1, <1>2, <1>3 DEF Owns
  <2>2. QED
    BY <1>2, <1>3, <2>1 DEF Owns
<1>5. QED
  BY <1>1, <1>2, <1>4 DEF Owns

\* An entry stored behind the entries of [a, b).
LEMMA TiledStored ==
  ASSUME TypeOK, NEW a \in 0 .. SIZE, NEW b \in 0 .. SIZE, a <= b, Tiled(mem, a, b),
         NEW len \in Nat \ {0}, NEW id \in Nat \ {0}, b + len <= SIZE
  PROVE  Tiled(Stamped(b, len, id), a, b + len)
<1> DEFINE m == Stamped(b, len, id)
<1>1. DOMAIN mem = 0 .. SIZE - 1
  BY DEF TypeOK
<1>2. ASSUME NEW p \in b .. b + len - 1
      PROVE  m[p] = [id |-> id, len |-> len, off |-> p - b]
  <2>1. p \in DOMAIN mem
    BY <1>1, SizeAssumption
  <2>2. QED
    BY <2>1 DEF Stamped
<1>3. ASSUME NEW p \in a .. b - 1
      PROVE  m[p] = mem[p]
  <2>1. p \in DOMAIN mem /\ p \notin b .. b + len - 1
    BY <1>1, SizeAssumption
  <2>2. QED
    BY <2>1 DEF Stamped
<1> HIDE DEF m
<1>4. Tiled(m, a, b)
  BY <1>3, TiledKept
<1>5. ASSUME NEW p \in a .. b + len - 1
      PROVE  Owns(m, p, a, b + len)
  <2>1. CASE p < b
    <3>1. p \in a .. b - 1 /\ p \in 0 .. SIZE - 1
      BY <2>1, SizeAssumption
    <3>2. Owns(m, p, a, b) /\ m[p] = mem[p]
      BY <3>1, <1>3, <1>4 DEF Tiled
    <3>3. mem[p].off \in Nat /\ mem[p].len \in Nat
      BY <3>1, CellAt
    <3>4. QED
      BY <3>2, <3>3 DEF Owns
  <2>2. CASE p >= b
    <3>1. p \in b .. b + len - 1
      BY <2>2
    <3>2. m[p] = [id |-> id, len |-> len, off |-> p - b]
      BY <3>1, <1>2
    <3>3. p - m[p].off = b
      BY <3>1, <3>2
    <3>4. ASSUME NEW k \in 0 .. len - 1
          PROVE  m[b + k] = [m[p] EXCEPT !.off = k]
      <4>1. b + k \in b .. b + len - 1 /\ (b + k) - b = k
        OBVIOUS
      <4>2. m[b + k] = [id |-> id, len |-> len, off |-> k]
        BY <4>1, <1>2
      <4>3. QED
        BY <3>2, <4>2
    <3>5. m[p].id = id /\ m[p].len = len /\ m[p].off = p - b
      BY <3>2
    <3>6. QED
      BY <3>1, <3>3, <3>4, <3>5 DEF Owns
  <2>3. QED
    BY <2>1, <2>2
<1>6. QED
  BY <1>5 DEF Tiled, m

-----------------------------------------------------------------------------
(* The two parts of the invariant are preserved together.                  *)

LEMMA RingStarts == Init => TypeOK /\ RingInv
<1> SUFFICES ASSUME Init
             PROVE  TypeOK /\ RingInv
  OBVIOUS
<1>1. SIZE \in Nat /\ SIZE > 0
  BY SizeAssumption
<1>2. Zero \in Cell
  BY <1>1, BoundAssumption DEF Zero, Cell
<1>3. TypeOK
  <2>1. mem \in [0 .. SIZE - 1 -> Cell]
    BY <1>2 DEF Init
  <2>2. COUNTER > 0 /\ COUNTER \in Nat /\ MaxPush \in Nat
    BY <1>1, BoundAssumption
  <2>3. tail_padded \in BOOLEAN /\ state \in {"ACTIVE", "SUSPEND"} /\ claim \in Lens \cup {0}
        /\ overlong \in BOOLEAN
    BY DEF Init
  <2>4. QED
    BY <1>1, <2>1, <2>2, <2>3 DEF Init, TypeOK
<1>4. RingInv
  BY <1>1 DEF Init, RingInv, Tiled
<1>5. QED
  BY <1>3, <1>4

LEMMA CountersWrap ==
  ASSUME NEW a \in Nat, NEW b \in Nat
  PROVE  (a + b) % COUNTER \in 0 .. COUNTER - 1
<1> DEFINE c == a + b
<1>1. c \in Nat /\ COUNTER \in Nat /\ COUNTER > 0
  BY BoundAssumption, SizeAssumption
<1> HIDE DEF c
<1>2. c % COUNTER \in 0 .. COUNTER - 1
  BY <1>1
<1>3. QED
  BY <1>2 DEF c

LEMMA StoreKeeps ==
  ASSUME TypeOK, RingInv, Store
  PROVE  TypeOK' /\ RingInv'
<1>1. /\ claim \in 1 .. SIZE - 1
      /\ wp \in 0 .. SIZE - 1 /\ rp \in 0 .. SIZE - 1
      /\ wp + claim \in 0 .. SIZE - 1 /\ wp' = wp + claim
      /\ rp' = rp /\ tail_padded' = tail_padded /\ rem_len' = rem_len
      /\ claim' = 0 /\ rem_len \in 0 .. SIZE
  BY SizeAssumption DEF Store, TypeOK, RingInv
<1>2. seq + 1 \in 1 .. MaxPush /\ seq + 1 \in Nat \ {0} /\ MaxPush \in Nat /\ SIZE \in Nat
      /\ claim \in Nat \ {0} /\ wp \in 0 .. SIZE /\ rp \in 0 .. SIZE /\ wp + claim <= SIZE
  BY <1>1, SizeAssumption, BoundAssumption DEF Store, RingInv, TypeOK
<1>3. mem' = Stamped(wp, claim, seq + 1)
  BY DEF Store
<1>4. mem' \in [0 .. SIZE - 1 -> Cell]
  <2>1. ASSUME NEW p \in 0 .. SIZE - 1, p \in wp .. wp + claim - 1
        PROVE  [id |-> seq + 1, len |-> claim, off |-> p - wp] \in Cell
    BY <1>1, <1>2, <2>1 DEF Cell
  <2>2. QED
    BY <1>3, <2>1 DEF Stamped, TypeOK
<1>5. written' \in 0 .. COUNTER - 1
  BY <1>1, CountersWrap DEF Store, TypeOK
<1>6. TypeOK'
  BY <1>1, <1>2, <1>4, <1>5 DEF Store, TypeOK
<1>7. Tiled(mem', 0, wp')
  BY <1>1, <1>2, <1>3, 0 \in 0 .. SIZE, TiledStored DEF RingInv
<1>8. ASSUME rp' <= wp'
      PROVE  Tiled(mem', rp', wp')
  <2>1. rp <= wp
    BY <1>1, <1>8, RoomAhead DEF Store
  <2>2. QED
    BY <1>1, <1>2, <1>3, <2>1, TiledStored DEF RingInv
<1>9. ASSUME rp' > wp'
      PROVE  /\ tail_padded'
             /\ rp' < SIZE - rem_len'
             /\ Tiled(mem', rp', SIZE - rem_len')
             /\ \A p \in SIZE - rem_len' .. SIZE - 1 : mem'[p] = Zero
             /\ rem_len' > 0
  <2>1. /\ rp > wp /\ tail_padded /\ rp < SIZE - rem_len /\ rem_len > 0
        /\ Tiled(mem, rp, SIZE - rem_len)
        /\ \A p \in SIZE - rem_len .. SIZE - 1 : mem[p] = Zero
    BY <1>1, <1>9 DEF RingInv
  <2>2. ASSUME NEW p \in rp .. SIZE - 1
        PROVE  mem'[p] = mem[p]
    <3>1. p \in DOMAIN mem /\ p \notin wp .. wp + claim - 1
      BY <1>1, <1>9 DEF TypeOK
    <3>2. QED
      BY <1>3, <3>1 DEF Stamped
  <2>3. Tiled(mem', rp, SIZE - rem_len)
    <3>1. SIZE - rem_len \in 0 .. SIZE /\ rp .. SIZE - rem_len - 1 \subseteq rp .. SIZE - 1
      BY <1>1, SizeAssumption
    <3> DEFINE end == SIZE - rem_len
    <3> HIDE DEF end
    <3>2. end \in 0 .. SIZE /\ rp \in 0 .. SIZE /\ Tiled(mem, rp, end)
          /\ \A p \in rp .. end - 1 : mem'[p] = mem[p]
      BY <1>2, <2>1, <2>2, <3>1 DEF end
    <3>3. Tiled(mem', rp, end)
      BY <3>2, TiledKept
    <3>4. QED
      BY <3>3 DEF end
  <2>4. \A p \in SIZE - rem_len .. SIZE - 1 : mem'[p] = Zero
    <3>1. SIZE - rem_len .. SIZE - 1 \subseteq rp .. SIZE - 1
      BY <1>1, <2>1, SizeAssumption
    <3>2. QED
      BY <2>1, <2>2, <3>1
  <2>5. QED
    BY <1>1, <2>1, <2>3, <2>4
<1>10. QED
  BY <1>1, <1>2, <1>6, <1>7, <1>8, <1>9 DEF RingInv

LEMMA WrapKeeps ==
  ASSUME TypeOK, RingInv, WrapWriter
  PROVE  TypeOK' /\ RingInv'
<1> DEFINE freed == IF rp = 0 THEN mem'[0].len ELSE 0
<1>1. /\ claim \in 1 .. SIZE - 1
      /\ wp \in 0 .. SIZE - 1 /\ rp \in 0 .. SIZE - 1 /\ rp <= wp
      /\ mem' = Padded(wp)
      /\ tail_padded' = TRUE /\ rem_len' = SIZE - wp /\ wp' = 0
      /\ rp' = IF rp + freed = wp THEN 0 ELSE rp + freed
      /\ read' = (read + freed) % COUNTER
      /\ claim' = claim /\ seq' = seq
  BY SizeAssumption DEF WrapWriter, TypeOK, RingInv
<1>2. wp > 0
  <2>1. WriteSpace <= claim /\ WriteSpace = SIZE - wp
    BY <1>1, RoomAhead DEF WrapWriter
  <2>2. QED
    BY <1>1, <2>1, SizeAssumption
<1>3. /\ \A p \in 0 .. wp - 1 : mem'[p] = mem[p]
      /\ \A p \in wp .. SIZE - 1 : mem'[p] = Zero
  BY <1>1, SizeAssumption DEF Padded, TypeOK
<1>4. mem' \in [0 .. SIZE - 1 -> Cell]
  <2>1. Zero \in Cell
    BY SizeAssumption, BoundAssumption DEF Zero, Cell
  <2>2. QED
    BY <1>1, <2>1 DEF Padded, TypeOK
<1>5. Tiled(mem', rp, wp) /\ Tiled(mem, rp, wp)
  <2>1. rp .. wp - 1 \subseteq 0 .. wp - 1 /\ wp \in 0 .. SIZE /\ rp \in 0 .. SIZE
    BY <1>1, SizeAssumption
  <2>2. QED
    BY <1>1, <1>3, <2>1, TiledKept DEF RingInv
<1>6. /\ freed \in Nat /\ rp + freed <= wp
      /\ Tiled(mem', rp + freed, wp)
      /\ rp + freed = 0 => FALSE
  <2>1. CASE rp = 0
    <3>1. mem'[0] = mem[0] /\ freed = mem[0].len
      <4>1. 0 \in 0 .. wp - 1
        BY <1>1, <1>2
      <4>2. mem'[0] = mem[0]
        BY <1>3, <4>1
      <4>3. QED
        BY <2>1, <4>2
    <3>2. /\ 0 + mem[0].len \in Nat /\ 0 + mem[0].len > 0 /\ 0 + mem[0].len <= wp
          /\ Tiled(mem, 0 + mem[0].len, wp)
      <4>1. 0 \in 0 .. SIZE - 1 /\ wp \in 0 .. SIZE /\ 0 < wp
        BY <1>1, <1>2, SizeAssumption
      <4>2. QED
        BY <1>5, <2>1, <4>1, NextEntry
    <3> DEFINE n == mem[0].len
    <3>3. n \in Nat /\ n > 0 /\ n <= wp /\ Tiled(mem, n, wp)
      <4>1. mem[0].len \in Nat
        BY <1>1, CellAt, SizeAssumption
      <4>2. 0 + mem[0].len = mem[0].len
        BY <4>1
      <4>3. QED
        BY <3>2, <4>1, <4>2
    <3> HIDE DEF n
    <3>4. Tiled(mem', n, wp)
      <4>1. n .. wp - 1 \subseteq 0 .. wp - 1 /\ wp \in 0 .. SIZE /\ n \in 0 .. SIZE
        BY <1>1, <3>3, SizeAssumption
      <4>2. QED
        BY <1>3, <3>3, <4>1, TiledKept
    <3>5. freed = n /\ rp + freed = n
      BY <2>1, <3>1, <3>3 DEF n
    <3>6. QED
      BY <3>3, <3>4, <3>5
  <2>2. CASE rp # 0
    BY <1>1, <1>5, <2>2
  <2>3. QED
    BY <2>1, <2>2
<1> HIDE DEF freed
<1>7. /\ rp' \in 0 .. SIZE - 1 /\ rem_len' \in 0 .. SIZE /\ rem_len' > 0
      /\ SIZE - rem_len' = wp
      /\ rp' > wp' => rp' < wp /\ rp' = rp + freed
      /\ rp' <= wp' => rp' = 0
  BY <1>1, <1>2, <1>6, SizeAssumption
<1>8. read' \in 0 .. COUNTER - 1
  BY <1>1, <1>6, CountersWrap DEF TypeOK
<1>9. TypeOK'
  <2>1. tail_padded' \in BOOLEAN
    BY <1>1
  <2>2. QED
    BY <1>1, <1>4, <1>7, <1>8, <2>1, SizeAssumption DEF WrapWriter, TypeOK
<1>10. Tiled(mem', 0, 0)
  BY DEF Tiled
<1>11. QED
  BY <1>1, <1>3, <1>6, <1>7, <1>9, <1>10 DEF RingInv

LEMMA DiscardKeeps ==
  ASSUME TypeOK, RingInv, DiscardOldest
  PROVE  TypeOK' /\ RingInv'
<1> DEFINE len == mem[rp].len
           next == rp + len
           end == SIZE - rem_len
<1>1. /\ wp \in 0 .. SIZE - 1 /\ rp \in 0 .. SIZE - 1 /\ rp > wp /\ rem_len \in 0 .. SIZE
      /\ tail_padded /\ rp < end /\ Tiled(mem, rp, end) /\ rem_len > 0
      /\ \A p \in end .. SIZE - 1 : mem[p] = Zero
      /\ mem' = mem /\ wp' = wp /\ claim' = claim /\ seq' = seq
      /\ end \in 0 .. SIZE
  BY SizeAssumption DEF DiscardOldest, TypeOK, RingInv
<1>2. /\ next \in Nat /\ next > rp /\ next <= end /\ Tiled(mem, next, end)
      /\ len \in Nat
  <2>1. next \in Nat /\ next > rp /\ next <= end /\ Tiled(mem, next, end)
    BY <1>1, NextEntry
  <2>2. len \in Nat
    BY <1>1, CellAt
  <2>3. QED
    BY <2>1, <2>2
<1>3. /\ rp' = IF AtPadding(next) THEN 0 ELSE next
      /\ tail_padded' = (tail_padded /\ ~AtPadding(next))
      /\ rem_len' = IF AtPadding(next) THEN 0 ELSE rem_len
      /\ read' = (read + len) % COUNTER
  BY DEF DiscardOldest
<1>4. AtPadding(next) <=> next = end
  BY <1>1, <1>2, SizeAssumption DEF AtPadding
<1>5. read' \in 0 .. COUNTER - 1
  BY <1>2, <1>3, CountersWrap DEF TypeOK
<1> HIDE DEF len, next
<1>6. CASE next = end
  <2>1. rp' = 0 /\ rem_len' = 0 /\ tail_padded' = FALSE
    BY <1>3, <1>4, <1>6
  <2>2. TypeOK'
    BY <1>1, <1>5, <2>1, SizeAssumption DEF DiscardOldest, TypeOK
  <2>3. QED
    BY <1>1, <2>1, <2>2 DEF RingInv
<1>7. CASE next # end
  <2>1. rp' = next /\ rem_len' = rem_len /\ tail_padded'
    BY <1>1, <1>3, <1>4, <1>7
  <2>2. tail_padded' \in BOOLEAN /\ rp' \in 0 .. SIZE - 1 /\ rp' < end
    <3>1. tail_padded' \in BOOLEAN
      BY <1>3
    <3>2. QED
      BY <1>1, <1>2, <1>7, <2>1, <3>1, SizeAssumption
  <2>3. TypeOK'
    BY <1>1, <1>5, <2>1, <2>2 DEF DiscardOldest, TypeOK
  <2>4. SIZE - rem_len' = end /\ ~(rp' <= wp')
    BY <1>1, <1>2, <2>1, <2>2
  <2>5. QED
    BY <1>1, <1>2, <2>1, <2>2, <2>3, <2>4 DEF RingInv
<1>8. QED
  BY <1>6, <1>7

\* Where a reader stands, and where the entry in front of it ends.
LEMMA ReaderAtEntry ==
  ASSUME TypeOK, RingInv, rp # wp
  PROVE  LET next == rp + mem[rp].len
         IN  /\ IsHeader(rp) /\ next \in Nat /\ next > rp
             /\ rp < wp => next <= wp /\ Tiled(mem, next, wp)
             /\ rp > wp => next <= SIZE - rem_len /\ Tiled(mem, next, SIZE - rem_len)
<1>1. wp \in 0 .. SIZE - 1 /\ rp \in 0 .. SIZE - 1 /\ rem_len \in 0 .. SIZE /\ SIZE \in Nat
  BY SizeAssumption DEF TypeOK
<1>2. CASE rp < wp
  <2>1. wp \in 0 .. SIZE /\ Tiled(mem, rp, wp) /\ ~(rp > wp)
    BY <1>1, <1>2 DEF RingInv
  <2>2. QED
    BY <1>1, <1>2, <2>1, NextEntry
<1>3. CASE rp > wp
  <2> DEFINE end == SIZE - rem_len
  <2>1. end \in 0 .. SIZE /\ Tiled(mem, rp, end) /\ rp < end /\ ~(rp < wp)
    BY <1>1, <1>3 DEF RingInv
  <2> HIDE DEF end
  <2>2. /\ IsHeader(rp) /\ rp + mem[rp].len \in Nat /\ rp + mem[rp].len > rp
        /\ rp + mem[rp].len <= end /\ Tiled(mem, rp + mem[rp].len, end)
    BY <1>1, <2>1, NextEntry
  <2>3. QED
    BY <1>3, <2>1, <2>2 DEF end
<1>4. QED
  BY <1>1, <1>2, <1>3

LEMMA PullKeeps ==
  ASSUME TypeOK, RingInv, PullSingle
  PROVE  TypeOK' /\ RingInv'
<1> DEFINE len == mem[rp].len
           next == rp + len
           skip == next # wp /\ PastPadding(next)
<1>1. /\ wp \in 0 .. SIZE - 1 /\ rp \in 0 .. SIZE - 1 /\ rem_len \in 0 .. SIZE
      /\ SIZE \in Nat /\ rp # wp
      /\ mem' = mem /\ wp' = wp /\ claim' = claim /\ seq' = seq
      /\ Tiled(mem, 0, wp)
  BY SizeAssumption DEF PullSingle, TypeOK, RingInv
<1>2. len \in Nat /\ mem[rp].id \in 0 .. MaxPush
  BY <1>1, CellAt DEF TypeOK, Cell
<1>3. /\ rp' = IF skip THEN 0 ELSE next
      /\ tail_padded' = (tail_padded /\ ~skip)
      /\ rem_len' = IF skip THEN 0 ELSE rem_len
      /\ read' = (read + len) % COUNTER
      /\ got' = mem[rp].id
  BY DEF PullSingle
<1>4. read' \in 0 .. COUNTER - 1
  BY <1>2, <1>3, CountersWrap DEF TypeOK
<1>5. /\ next \in Nat /\ next > rp
      /\ rp < wp => next <= wp /\ Tiled(mem, next, wp)
      /\ rp > wp => next <= SIZE - rem_len /\ Tiled(mem, next, SIZE - rem_len)
  BY <1>1, ReaderAtEntry
<1>6. rp > wp => /\ tail_padded /\ rp < SIZE - rem_len /\ rem_len > 0
                 /\ \A p \in SIZE - rem_len .. SIZE - 1 : mem[p] = Zero
  BY DEF RingInv
<1>7. rp > wp => (skip <=> next = SIZE - rem_len)
  BY <1>1, <1>5, <1>6 DEF PastPadding
<1> HIDE DEF len, next, skip
<1>8. rp' \in 0 .. SIZE - 1 /\ rem_len' \in 0 .. SIZE /\ tail_padded' \in BOOLEAN
  <2>1. rp' \in 0 .. SIZE - 1
    BY <1>1, <1>3, <1>5, <1>6, <1>7
  <2>2. rem_len' \in 0 .. SIZE
    BY <1>1, <1>3
  <2>3. tail_padded' \in BOOLEAN
    BY <1>3
  <2>4. QED
    BY <2>1, <2>2, <2>3
<1>9. TypeOK'
  BY <1>1, <1>2, <1>3, <1>4, <1>8 DEF PullSingle, TypeOK
<1>10. CASE skip
  <2>1. rp' = 0 /\ ~(rp' > wp')
    BY <1>1, <1>3, <1>10
  <2>2. QED
    BY <1>1, <1>9, <2>1 DEF RingInv
<1>11. CASE ~skip /\ rp < wp
  <2>1. rp' = next /\ ~(rp' > wp') /\ Tiled(mem, rp', wp)
    BY <1>1, <1>3, <1>5, <1>11
  <2>2. QED
    BY <1>1, <1>9, <2>1 DEF RingInv
<1>12. CASE ~skip /\ rp > wp
  <2>1. /\ rp' = next /\ rem_len' = rem_len /\ ~(rp' <= wp')
        /\ tail_padded' /\ rp' < SIZE - rem_len /\ Tiled(mem, rp', SIZE - rem_len)
    <3>1. rp' = next /\ rem_len' = rem_len /\ (tail_padded' <=> tail_padded)
      BY <1>3, <1>12
    <3>2. next # SIZE - rem_len /\ next <= SIZE - rem_len /\ tail_padded
          /\ Tiled(mem, next, SIZE - rem_len)
      BY <1>5, <1>6, <1>7, <1>12
    <3>3. QED
      BY <1>1, <1>5, <1>12, <3>1, <3>2
  <2>2. QED
    BY <1>1, <1>6, <1>9, <1>12, <2>1 DEF RingInv
<1>13. QED
  BY <1>1, <1>10, <1>11, <1>12

\* Short of an entry as long as the ring, no push gives up.
LEMMA NeverGivesUp ==
  ASSUME TypeOK, RingInv
  PROVE  ~GiveUp
<1> SUFFICES ASSUME GiveUp
             PROVE  FALSE
  OBVIOUS
<1>1. /\ wp \in 0 .. SIZE - 1 /\ rp \in 0 .. SIZE - 1 /\ SIZE \in Nat /\ rem_len \in 0 .. SIZE
      /\ rp > wp /\ rem_len > 0 /\ rp + mem[rp].len >= SIZE
  BY SizeAssumption DEF GiveUp, TypeOK, RingInv
<1>2. QED
  BY <1>1, ReaderAtEntry

LEMMA RingNext == TypeOK /\ RingInv /\ [Next]_vars /\ ~overlong' => TypeOK' /\ RingInv'
<1> SUFFICES ASSUME TypeOK, RingInv, [Next]_vars, ~overlong'
             PROVE  TypeOK' /\ RingInv'
  OBVIOUS
<1>1. ASSUME NEW len \in Lens, Push(len)
      PROVE  TypeOK' /\ RingInv'
  <2>1. TypeOK'
    BY <1>1 DEF Push, TypeOK
  <2>2. claim' = len /\ len # SIZE
    BY <1>1, Zenon DEF Push
  <2>3. RingInv'
    BY <1>1, <2>2, SizeAssumption DEF Push, RingInv
  <2>4. QED
    BY <2>1, <2>3
<1>2. ASSUME NEW s \in {"ACTIVE", "SUSPEND"}, Config(s)
      PROVE  TypeOK' /\ RingInv'
  <2>1. TypeOK'
    BY <1>2 DEF Config, TypeOK
  <2>2. RingInv'
    BY <1>2 DEF Config, RingInv
  <2>3. QED
    BY <2>1, <2>2
<1>3. CASE UNCHANGED vars
  <2>1. TypeOK'
    BY <1>3 DEF vars, TypeOK
  <2>2. RingInv'
    BY <1>3 DEF vars, RingInv
  <2>3. QED
    BY <2>1, <2>2
<1>4. QED
  BY <1>1, <1>2, <1>3, NeverGivesUp, StoreKeeps, WrapKeeps, DiscardKeeps, PullKeeps DEF Next

\* Once an entry as long as the ring has been let through, that is not taken back.
LEMMA OverlongStays == overlong /\ [Next]_vars => overlong'
BY DEF Next, Push, WrapWriter, DiscardOldest, GiveUp, Store, PullSingle, Config, vars

LEMMA RingAlways == Spec => [](overlong \/ (TypeOK /\ RingInv))
<1>1. Init => TypeOK /\ RingInv
  BY RingStarts
<1>2. (overlong \/ (TypeOK /\ RingInv)) /\ [Next]_vars => (overlong \/ (TypeOK /\ RingInv))'
  BY RingNext, OverlongStays
<1>3. QED
  BY <1>1, <1>2, PTL DEF Spec

-----------------------------------------------------------------------------
(* What the invariant says of the code.                                    *)

\* An entry found by its header, with the place of each of its cells.
LEMMA WholeFrom ==
  ASSUME TypeOK, NEW a \in 0 .. SIZE, NEW b \in 0 .. SIZE, Tiled(mem, a, b),
         NEW p \in a .. b - 1, IsHeader(p), NEW k \in 0 .. mem[p].len - 1
  PROVE  p + k \in p .. b - 1 /\ mem[p + k] = [mem[p] EXCEPT !.off = k]
<1>1. p \in 0 .. SIZE - 1
  BY SizeAssumption
<1>2. mem[p].off = 0 /\ mem[p].len \in Nat /\ p - mem[p].off = p
  BY <1>1, CellAt DEF IsHeader
<1>3. Owns(mem, p, a, b)
  BY DEF Tiled
<1>4. QED
  BY <1>1, <1>2, <1>3, SizeAssumption DEF Owns

LEMMA AroundOnce ==
  ASSUME NEW w \in Nat, NEW n \in Nat, n < 2 * w
  PROVE  /\ n < w => n % w = n
         /\ n >= w => n % w = n - w
<1>1. CASE n < w
  BY <1>1
<1>2. CASE n >= w
  BY <1>2
<1>3. QED
  BY <1>1, <1>2

LEMMA AroundRing ==
  ASSUME NEW n \in Nat, n < 2 * SIZE
  PROVE  /\ n < SIZE => n % SIZE = n
         /\ n >= SIZE => n % SIZE = n - SIZE
BY SizeAssumption, AroundOnce

LEMMA IntactFollows == TypeOK /\ RingInv => EntriesIntact
<1> SUFFICES ASSUME TypeOK, RingInv
             PROVE  EntriesIntact
  OBVIOUS
<1>1. wp \in 0 .. SIZE - 1 /\ rp \in 0 .. SIZE - 1 /\ SIZE \in Nat /\ rem_len \in 0 .. SIZE
  BY SizeAssumption DEF TypeOK
<1>2. rp # wp => IsHeader(rp)
  BY ReaderAtEntry
<1>3. ASSUME NEW i \in DOMAIN Window, IsHeader(Window[i]), NEW k \in 0 .. mem[Window[i]].len - 1
      PROVE  /\ i + k \in DOMAIN Window
             /\ Window[i + k] = Window[i] + k
             /\ mem[Window[i] + k] = [mem[Window[i]] EXCEPT !.off = k]
  <2>1. CASE rp <= wp
    <3>1. i \in 1 .. wp - rp /\ Window[i] = rp + i - 1 /\ Window[i] \in rp .. wp - 1
      BY <1>1, <2>1 DEF Window
    <3>2. Tiled(mem, rp, wp) /\ rp \in 0 .. SIZE /\ wp \in 0 .. SIZE
      BY <1>1, <2>1 DEF RingInv
    <3>3. /\ Window[i] + k \in Window[i] .. wp - 1
          /\ mem[Window[i] + k] = [mem[Window[i]] EXCEPT !.off = k]
      BY <1>3, <3>1, <3>2, WholeFrom
    <3>4. mem[Window[i]].len \in Nat
      BY <1>1, <3>1, CellAt
    <3>5. i + k \in 1 .. wp - rp /\ rp + (i + k) - 1 = Window[i] + k
      BY <1>1, <3>1, <3>3, <3>4
    <3>6. QED
      BY <2>1, <3>3, <3>5 DEF Window
  <2>2. CASE rp > wp
    <3> DEFINE end == SIZE - rem_len
    <3>1. /\ end \in 0 .. SIZE /\ Tiled(mem, rp, end) /\ Tiled(mem, 0, wp)
          /\ \A p \in end .. SIZE - 1 : mem[p] = Zero
          /\ ~(rp <= wp)
      BY <1>1, <2>2 DEF RingInv
    <3> HIDE DEF end
    <3>2. DOMAIN Window = 1 .. SIZE - rp + wp
          /\ \A j \in DOMAIN Window : Window[j] = (rp + j - 1) % SIZE
      BY <3>1 DEF Window
    <3>3. i \in 1 .. SIZE - rp + wp /\ rp + i - 1 \in Nat /\ rp + i - 1 < 2 * SIZE
      <4>1. i \in 1 .. SIZE - rp + wp
        BY <3>2
      <4>2. QED
        BY <1>1, <2>2, <4>1
    <3>4. CASE rp + i - 1 < SIZE
      <4>1. Window[i] = rp + i - 1
        BY <3>2, <3>3, <3>4, AroundRing
      <4>2. Window[i] < end
        <5>1. CASE Window[i] \in end .. SIZE - 1
          <6>1. mem[Window[i]].id = 0
            BY <5>1, <3>1 DEF Zero
          <6>2. QED
            BY <6>1, <1>3 DEF IsHeader
        <5>2. QED
          BY <5>1, <4>1, <3>1, <3>3, <3>4, <1>1
      <4>3. Window[i] \in rp .. end - 1 /\ rp \in 0 .. SIZE /\ Window[i] \in 0 .. SIZE - 1
        BY <1>1, <3>1, <3>3, <4>1, <4>2
      <4>4. /\ Window[i] + k \in Window[i] .. end - 1
            /\ mem[Window[i] + k] = [mem[Window[i]] EXCEPT !.off = k]
        BY <1>3, <3>1, <4>3, WholeFrom
      <4>5. mem[Window[i]].len \in Nat
        BY <4>3, CellAt
      <4>6. /\ i + k \in 1 .. SIZE - rp + wp /\ rp + (i + k) - 1 = Window[i] + k
            /\ rp + (i + k) - 1 \in Nat /\ rp + (i + k) - 1 < SIZE
        BY <1>1, <3>1, <3>3, <4>1, <4>4, <4>5
      <4>7. Window[i + k] = Window[i] + k
        <5>1. (rp + (i + k) - 1) % SIZE = rp + (i + k) - 1
          BY <4>6, AroundRing, <1>1
        <5>2. Window[i + k] = (rp + (i + k) - 1) % SIZE
          BY <3>2, <4>6
        <5>3. QED
          BY <4>6, <5>1, <5>2
      <4>8. QED
        BY <3>2, <4>4, <4>6, <4>7
    <3>5. CASE rp + i - 1 >= SIZE
      <4>1. Window[i] = rp + i - 1 - SIZE
        <5> DEFINE n == rp + i - 1
        <5>1. (rp + i - 1) % SIZE = rp + i - 1 - SIZE
          <6>1. n \in Nat /\ n < 2 * SIZE /\ n >= SIZE
            BY <3>3, <3>5
          <6> HIDE DEF n
          <6>2. n % SIZE = n - SIZE
            BY <6>1, AroundRing
          <6>3. QED
            BY <1>1, <3>3, <6>2 DEF n
        <5>2. QED
          BY <3>2, <5>1
      <4>2. Window[i] \in 0 .. wp - 1 /\ 0 \in 0 .. SIZE /\ wp \in 0 .. SIZE
            /\ Window[i] \in 0 .. SIZE - 1
        BY <1>1, <3>3, <3>5, <4>1
      <4>3. /\ Window[i] + k \in Window[i] .. wp - 1
            /\ mem[Window[i] + k] = [mem[Window[i]] EXCEPT !.off = k]
        BY <1>3, <3>1, <4>2, WholeFrom
      <4>4. mem[Window[i]].len \in Nat
        BY <4>2, CellAt
      <4>5. /\ i + k \in 1 .. SIZE - rp + wp /\ rp + (i + k) - 1 - SIZE = Window[i] + k
            /\ rp + (i + k) - 1 \in Nat /\ rp + (i + k) - 1 < 2 * SIZE
            /\ rp + (i + k) - 1 >= SIZE
        BY <1>1, <2>2, <3>3, <3>5, <4>1, <4>3, <4>4
      <4>6. Window[i + k] = Window[i] + k
        BY <1>1, <3>2, <4>5, AroundRing
      <4>7. QED
        BY <3>2, <4>3, <4>5, <4>6
    <3>6. QED
      BY <1>1, <3>3, <3>4, <3>5
  <2>3. QED
    BY <1>1, <2>1, <2>2
<1>4. QED
  BY <1>2, <1>3 DEF EntriesIntact

\* What dhd_dbg_ring_pull_single copies out is one entry, as one
\* dhd_dbg_ring_push has stored it, whatever was padded, discarded or skipped
\* in between, until an entry exactly as long as the ring is pushed.
THEOREM RingIntact == Spec => []EntriesIntact
<1>1. overlong => EntriesIntact
  BY DEF EntriesIntact
<1>2. QED
  BY <1>1, IntactFollows, RingAlways, PTL

\* Until an entry exactly as long as the ring is pushed, none of the ASSERT(0)s that
\* look for a pointer beyond the end is reached.
THEOREM RingAsserts == Spec => []AssertsHold
<1>1. TypeOK /\ RingInv => AssertsHold
  <2> SUFFICES ASSUME TypeOK, RingInv
               PROVE  AssertsHold
    OBVIOUS
  <2>1. wp \in 0 .. SIZE - 1 /\ rp \in 0 .. SIZE - 1 /\ SIZE \in Nat /\ rem_len \in 0 .. SIZE
        /\ claim \in 0 .. SIZE - 1
    BY SizeAssumption DEF TypeOK, RingInv
  <2>2. rp # wp => rp + mem[rp].len < SIZE
    <3>1. CASE rp < wp
      BY <2>1, <3>1, ReaderAtEntry
    <3>2. CASE rp > wp
      <4>1. rem_len > 0
        BY <3>2 DEF RingInv
      <4>2. QED
        BY <2>1, <3>2, <4>1, ReaderAtEntry
    <3>3. QED
      BY <2>1, <3>1, <3>2
  <2>3. claim # 0 /\ WriteSpace > claim => wp + claim < SIZE
    BY <2>1, RoomAhead
  <2>4. QED
    BY <2>1, <2>2, <2>3 DEF AssertsHold
<1>2. overlong => AssertsHold
  BY DEF AssertsHold
<1>3. QED
  BY <1>1, <1>2, RingAlways, PTL

-----------------------------------------------------------------------------
(* Entries of one length, shorter than the ring.                           *)

OneLength == \E l \in Lens : Lens = {l} /\ l < SIZE

Multiple(x) == \E n \in Nat : x = n * EntryLen

\* The unread bytes, without the padding.
Bytes == IF rp <= wp THEN wp - rp ELSE Top - rp + wp

\* The entries from the header h to the writer, left of them to be written.
Numbered(m, s, h, left) == left = (s + 1 - m[h].id) * EntryLen

PlacesEven ==
  /\ Multiple(wp) /\ Multiple(rp) /\ wp <= Top /\ rp <= Top
  /\ tail_padded => rem_len = SIZE - Top
  /\ \A p \in 0 .. SIZE - 1 : mem[p].id # 0 => mem[p].len = EntryLen

InOrder ==
  /\ \A h \in 0 .. wp - 1 : IsHeader(h) => Numbered(mem, seq, h, wp - h)
  /\ rp > wp => \A h \in rp .. Top - 1 : IsHeader(h) => Numbered(mem, seq, h, Top - h + wp)

Counted == written = read + Bytes \/ written = read + Bytes - COUNTER

OneInv == PlacesEven /\ InOrder /\ Counted

LEMMA OneLengthIs ==
  ASSUME OneLength
  PROVE  Lens = {EntryLen} /\ EntryLen \in Nat \ {0} /\ EntryLen \in 1 .. SIZE - 1
<1>1. PICK l \in Lens : Lens = {l} /\ l < SIZE
  BY DEF OneLength
<1>2. l \in 1 .. SIZE - 1 /\ l \in Nat \ {0}
  BY <1>1, SizeAssumption
<1>3. Max({l}) = l
  <2>1. \E x \in {l} : \A y \in {l} : x >= y
    BY <1>2
  <2>2. QED
    BY <2>1 DEF Max
<1>4. QED
  BY <1>1, <1>2, <1>3 DEF EntryLen

\* Multiples of l have l between them.
LEMMA Apart ==
  ASSUME NEW l \in Nat \ {0}, NEW a \in Nat, NEW b \in Nat, a < b
  PROVE  (a * l) + l <= b * l
<1>1. (a + 1) * l = (a * l) + l
  OBVIOUS
<1>2. PICK d \in Nat : b = (a + 1) + d
  BY b - (a + 1) \in Nat
<1>3. d * l \in Nat /\ b * l = ((a + 1) * l) + (d * l)
  BY <1>2
<1>4. QED
  BY <1>1, <1>3

LEMMA MultiplesApart ==
  ASSUME OneLength, NEW x, NEW y, Multiple(x), Multiple(y), x < y
  PROVE  x + EntryLen <= y
<1>1. PICK a \in Nat : x = a * EntryLen
  BY DEF Multiple
<1>2. PICK b \in Nat : y = b * EntryLen
  BY DEF Multiple
<1>3. EntryLen \in Nat \ {0}
  BY OneLengthIs
<1>4. a < b
  <2>1. CASE b <= a
    <3>1. b = a \/ b < a
      BY <2>1
    <3>2. b < a => (b * EntryLen) + EntryLen <= a * EntryLen
      BY <1>3, Apart
    <3>3. QED
      BY <1>1, <1>2, <1>3, <3>1, <3>2
  <2>2. QED
    BY <2>1
<1>5. QED
  BY <1>1, <1>2, <1>3, <1>4, Apart

LEMMA MultipleNat ==
  ASSUME OneLength, NEW x, Multiple(x)
  PROVE  x \in Nat /\ Multiple(x + EntryLen) /\ Multiple(0)
<1>1. PICK a \in Nat : x = a * EntryLen
  BY DEF Multiple
<1>2. EntryLen \in Nat \ {0}
  BY OneLengthIs
<1>3. x \in Nat /\ x + EntryLen = (a + 1) * EntryLen /\ 0 = 0 * EntryLen /\ a + 1 \in Nat
  BY <1>1, <1>2
<1>4. QED
  BY <1>3 DEF Multiple

LEMMA TopIs ==
  ASSUME OneLength
  PROVE  /\ Top \in 1 .. SIZE - 1 /\ Multiple(Top) /\ SIZE - Top <= EntryLen
         /\ (SIZE - 1) \div EntryLen \in Nat \ {0}
<1> DEFINE l == EntryLen
           k == (SIZE - 1) \div l
<1>1. l \in Nat \ {0} /\ l <= SIZE - 1 /\ SIZE - 1 \in Nat /\ SIZE \in Nat
  BY OneLengthIs, SizeAssumption
<1> HIDE DEF l
<1>2. k \in Nat /\ SIZE - 1 = (k * l) + ((SIZE - 1) % l) /\ (SIZE - 1) % l \in 0 .. l - 1
  BY <1>1
<1> HIDE DEF k
<1>3. k # 0
  <2>1. CASE k = 0
    BY <1>1, <1>2, <2>1
  <2>2. QED
    BY <2>1
<1>4. k * l \in Nat /\ k * l >= l
  <2>1. PICK j \in Nat : k = j + 1
    BY <1>2, <1>3, k - 1 \in Nat
  <2>2. k * l = (j * l) + l /\ j * l \in Nat
    BY <1>1, <2>1
  <2>3. QED
    BY <1>1, <2>2
<1>5. k * l <= SIZE - 1 /\ SIZE - (k * l) <= l
  BY <1>1, <1>2, <1>4
<1>6. Top = k * l
  BY DEF Top, k, l
<1>7. QED
  BY <1>1, <1>2, <1>3, <1>4, <1>5, <1>6 DEF Multiple, k, l

\* An entry more is an EntryLen more.
LEMMA NumberedOn ==
  ASSUME NEW l \in Nat, NEW s \in Int, NEW i \in Int, NEW left \in Int, left = (s + 1 - i) * l
  PROVE  left + l = (s + 2 - i) * l
<1> DEFINE d == s + 1 - i
<1>1. d \in Int /\ s + 2 - i = d + 1
  OBVIOUS
<1> HIDE DEF d
<1>2. (d + 1) * l = (d * l) + l
  BY <1>1
<1>3. left = d * l
  BY DEF d
<1>4. QED
  BY <1>1, <1>2, <1>3

LEMMA CounterSteps ==
  ASSUME NEW a \in 0 .. COUNTER - 1, NEW n \in 0 .. SIZE
  PROVE  (a + n) % COUNTER \in {a + n, (a + n) - COUNTER} /\ (a + n) % COUNTER \in 0 .. COUNTER - 1
<1> DEFINE c == a + n
<1>1. c \in Nat /\ c < 2 * COUNTER /\ COUNTER \in Nat
  BY BoundAssumption, SizeAssumption
<1> HIDE DEF c
<1>2. /\ c < COUNTER => c % COUNTER = c
      /\ c >= COUNTER => c % COUNTER = c - COUNTER
  BY <1>1, AroundOnce
<1>3. c % COUNTER \in {c, c - COUNTER} /\ c % COUNTER \in 0 .. COUNTER - 1
  BY <1>1, <1>2
<1>4. QED
  BY <1>3 DEF c

\* Where the two pointers are to each other.
LEMMA OneFacts ==
  ASSUME OneLength, TypeOK, RingInv, OneInv
  PROVE  /\ EntryLen \in Nat \ {0} /\ EntryLen <= SIZE - 1
         /\ rp \in Nat /\ wp \in Nat /\ Top \in Nat /\ SIZE \in Nat /\ COUNTER \in Nat
         /\ rp <= Top /\ wp <= Top /\ Top < SIZE /\ SIZE < COUNTER /\ SIZE - Top <= EntryLen
         /\ wp < Top => wp + EntryLen <= Top
         /\ rp < wp => rp + EntryLen <= wp
         /\ rp > wp => /\ wp + EntryLen <= rp /\ tail_padded /\ SIZE - rem_len = Top
                       /\ rp + EntryLen <= Top
         /\ read \in 0 .. COUNTER - 1 /\ written \in 0 .. COUNTER - 1
         /\ claim \in {0, EntryLen} /\ seq \in Nat
<1>1. /\ EntryLen \in Nat \ {0} /\ EntryLen <= SIZE - 1 /\ Lens = {EntryLen}
      /\ SIZE \in Nat /\ SIZE < COUNTER /\ COUNTER \in Nat /\ MaxPush \in Nat
  BY OneLengthIs, SizeAssumption, BoundAssumption
<1>2. Top \in Nat /\ Top < SIZE /\ Multiple(Top) /\ SIZE - Top <= EntryLen
  BY <1>1, TopIs
<1>3. /\ Multiple(wp) /\ Multiple(rp) /\ wp <= Top /\ rp <= Top
      /\ tail_padded => rem_len = SIZE - Top
  BY DEF OneInv, PlacesEven
<1>4. rp \in Nat /\ wp \in Nat
  BY <1>3, MultipleNat
<1>5. rp > wp => /\ tail_padded /\ SIZE - rem_len = Top /\ rp < Top
  BY <1>1, <1>2, <1>3 DEF RingInv
<1>6. /\ wp < Top => wp + EntryLen <= Top
      /\ rp < wp => rp + EntryLen <= wp
      /\ rp > wp => wp + EntryLen <= rp
      /\ rp < Top => rp + EntryLen <= Top
  <2>1. rp > wp => wp < rp
    BY <1>4
  <2>2. QED
    BY <2>1, <1>2, <1>3, MultiplesApart
<1>7. read \in 0 .. COUNTER - 1 /\ written \in 0 .. COUNTER - 1 /\ claim \in {0, EntryLen}
      /\ seq \in Nat
  BY <1>1 DEF TypeOK
<1>8. QED
  BY <1>1, <1>2, <1>3, <1>4, <1>5, <1>6, <1>7

LEMMA OneStarts == OneLength /\ Init => OneInv
<1> SUFFICES ASSUME OneLength, Init
             PROVE  OneInv
  OBVIOUS
<1>1. Top \in Nat /\ Multiple(0)
  BY TopIs, MultipleNat, SizeAssumption
<1>2. PlacesEven
  BY <1>1 DEF Init, PlacesEven, Zero
<1>3. InOrder /\ Counted
  BY <1>1 DEF Init, InOrder, Counted, Bytes
<1>4. QED
  BY <1>2, <1>3 DEF OneInv

LEMMA StoreOne ==
  ASSUME OneLength, TypeOK, RingInv, OneInv, Store
  PROVE  OneInv' /\ Bytes' = Bytes + EntryLen
<1> DEFINE l == EntryLen
<1>1. /\ l \in Nat \ {0} /\ l <= SIZE - 1
      /\ rp \in Nat /\ wp \in Nat /\ Top \in Nat /\ SIZE \in Nat /\ COUNTER \in Nat
      /\ rp <= Top /\ wp <= Top /\ Top < SIZE /\ SIZE < COUNTER /\ SIZE - Top <= l
      /\ wp < Top => wp + l <= Top
      /\ rp < wp => rp + l <= wp
      /\ rp > wp => wp + l <= rp /\ tail_padded
      /\ read \in 0 .. COUNTER - 1 /\ written \in 0 .. COUNTER - 1
      /\ seq \in Nat
  BY OneFacts
<1>2. /\ claim = l
      /\ wp' = wp + l /\ rp' = rp /\ tail_padded' = tail_padded /\ rem_len' = rem_len
      /\ read' = read /\ written' = (written + l) % COUNTER /\ seq' = seq + 1
      /\ mem' = Stamped(wp, l, seq + 1)
  <2>1. claim = EntryLen
    BY OneFacts DEF Store
  <2>2. QED
    BY <2>1 DEF Store
<1>3. (rp <= wp => wp + l <= Top) /\ (rp > wp => wp + l < rp)
  <2>1. WriteSpace > l /\ WriteSpace = IF wp >= rp THEN SIZE - wp ELSE rp - wp
    BY <1>2, RoomAhead DEF Store
  <2>2. QED
    BY <1>1, <2>1
<1>4. Multiple(wp') /\ Multiple(rp') /\ wp' <= Top /\ rp' <= Top
  BY <1>1, <1>2, <1>3, MultipleNat DEF OneInv, PlacesEven
<1>5. /\ \A p \in 0 .. SIZE - 1 : p \notin wp .. wp + l - 1 => mem'[p] = mem[p]
      /\ \A p \in wp .. wp + l - 1 : mem'[p] = [id |-> seq + 1, len |-> l, off |-> p - wp]
  <2>1. wp .. wp + l - 1 \subseteq 0 .. SIZE - 1
    BY <1>1, <1>3
  <2>2. QED
    BY <1>2, <2>1 DEF Stamped, TypeOK
<1>6. PlacesEven'
  <2>1. ASSUME NEW p \in 0 .. SIZE - 1, mem'[p].id # 0
        PROVE  mem'[p].len = l
    <3>1. CASE p \in wp .. wp + l - 1
      <4>1. mem'[p] = [id |-> seq + 1, len |-> l, off |-> p - wp]
        BY <1>5, <3>1
      <4>2. QED
        BY <4>1
    <3>2. CASE p \notin wp .. wp + l - 1
      <4>1. mem'[p] = mem[p]
        BY <1>5, <3>2
      <4>2. QED
        BY <2>1, <4>1 DEF OneInv, PlacesEven
    <3>3. QED
      BY <3>1, <3>2
  <2>2. tail_padded' => rem_len' = SIZE - Top
    BY <1>2 DEF OneInv, PlacesEven
  <2>3. QED
    BY <1>4, <2>1, <2>2 DEF PlacesEven, Multiple
<1>7. ASSUME NEW h \in 0 .. SIZE - 1, h \notin wp .. wp + l - 1, IsHeader(h)',
             NEW left \in Int, IsHeader(h) => Numbered(mem, seq, h, left)
      PROVE  Numbered(mem', seq', h, left + l)
  <2>1. mem'[h] = mem[h] /\ mem[h].id \in Nat
    BY <1>5, <1>7, CellAt
  <2>2. IsHeader(h)
    BY <1>7, <2>1 DEF IsHeader
  <2>3. left = (seq + 1 - mem[h].id) * l
    BY <1>7, <2>2 DEF Numbered
  <2>4. left + l = (seq + 2 - mem[h].id) * l
    BY <1>1, <2>1, <2>3, NumberedOn
  <2>5. seq' + 1 - mem'[h].id = seq + 2 - mem[h].id
    BY <1>1, <1>2, <2>1
  <2>6. QED
    BY <2>4, <2>5 DEF Numbered
<1>8. InOrder'
  <2>1. ASSUME NEW h \in 0 .. wp' - 1, IsHeader(h)'
        PROVE  Numbered(mem', seq', h, wp' - h)
    <3>1. CASE h < wp
      <4>1. h \in 0 .. wp - 1 /\ h \in 0 .. SIZE - 1 /\ h \notin wp .. wp + l - 1 /\ wp - h \in Int
            /\ (wp - h) + l = wp' - h
        BY <1>1, <1>2, <3>1
      <4>2. IsHeader(h) => Numbered(mem, seq, h, wp - h)
        BY <4>1 DEF OneInv, InOrder
      <4>3. Numbered(mem', seq', h, (wp - h) + l)
        BY <1>7, <2>1, <4>1, <4>2
      <4>4. QED
        BY <4>1, <4>3 DEF Numbered
    <3>2. CASE h >= wp
      <4>1. h \in wp .. wp + l - 1
        BY <1>1, <1>2, <3>2
      <4>2. mem'[h].id = seq + 1 /\ mem'[h].off = h - wp
        <5>1. mem'[h] = [id |-> seq + 1, len |-> l, off |-> h - wp]
          BY <1>5, <4>1
        <5>2. QED
          BY <5>1
      <4>3. h = wp /\ wp' - h = l
        BY <1>1, <1>2, <2>1, <4>1, <4>2 DEF IsHeader
      <4>4. seq' + 1 - mem'[h].id = 1
        BY <1>1, <1>2, <4>2
      <4>5. QED
        BY <1>1, <4>3, <4>4 DEF Numbered
    <3>3. QED
      BY <1>1, <1>2, <3>1, <3>2
  <2>2. ASSUME rp' > wp', NEW h \in rp' .. Top - 1, IsHeader(h)'
        PROVE  Numbered(mem', seq', h, Top - h + wp')
    <3>1. /\ h \in rp .. Top - 1 /\ h \in 0 .. SIZE - 1 /\ h \notin wp .. wp + l - 1
          /\ rp > wp /\ (Top - h + wp) \in Int /\ (Top - h + wp) + l = Top - h + wp'
      BY <1>1, <1>2, <2>2
    <3>2. IsHeader(h) => Numbered(mem, seq, h, Top - h + wp)
      BY <3>1 DEF OneInv, InOrder
    <3>3. Numbered(mem', seq', h, (Top - h + wp) + l)
      BY <1>7, <2>2, <3>1, <3>2
    <3>4. QED
      BY <3>1, <3>3 DEF Numbered
  <2>3. QED
    BY <2>1, <2>2 DEF InOrder
<1>9. Bytes' = Bytes + l
  BY <1>1, <1>2, <1>3 DEF Bytes
<1>10. Counted'
  <2>1. Bytes \in Nat /\ Bytes + l <= Top
    BY <1>1, <1>2, <1>3 DEF Bytes
  <2>2. l \in 0 .. SIZE /\ written' \in {written + l, (written + l) - COUNTER}
    BY <1>1, <1>2, CounterSteps
  <2>3. written' \in 0 .. COUNTER - 1
    BY <1>1, <1>2, <2>2, CounterSteps
  <2>4. written = read + Bytes \/ written = read + Bytes - COUNTER
    BY DEF OneInv, Counted
  <2>5. written' = read + (Bytes + l) \/ written' = read + (Bytes + l) - COUNTER
    BY <1>1, <2>1, <2>2, <2>3, <2>4
  <2>6. QED
    BY <1>2, <1>9, <2>5 DEF Counted
<1>11. QED
  BY <1>6, <1>8, <1>9, <1>10 DEF OneInv

\* An entry in front of the reader is gone: taken, or discarded by DiscardOldest.
TakesEntry ==
  /\ rp # wp
  /\ mem' = mem /\ wp' = wp /\ seq' = seq /\ written' = written
  /\ rp' = IF rp > wp /\ rp + EntryLen = Top THEN 0 ELSE rp + EntryLen
  /\ tail_padded' => tail_padded /\ rem_len' = rem_len
  /\ read' = (read + EntryLen) % COUNTER

LEMMA CountersFollow ==
  ASSUME NEW r \in 0 .. COUNTER - 1, NEW w \in 0 .. COUNTER - 1, NEW b \in Nat, NEW n \in 0 .. b,
         NEW s \in 0 .. COUNTER - 1, (s = r + n \/ s = (r + n) - COUNTER),
         w = r + b \/ w = r + b - COUNTER
  PROVE  w = s + (b - n) \/ w = s + (b - n) - COUNTER
<1>1. COUNTER \in Nat
  BY BoundAssumption
<1>2. CASE s = r + n
  BY <1>1, <1>2
<1>3. CASE s = (r + n) - COUNTER
  BY <1>1, <1>3
<1>4. QED
  BY <1>2, <1>3

LEMMA TakeOne ==
  ASSUME OneLength, TypeOK, RingInv, OneInv, TakesEntry
  PROVE  OneInv' /\ Bytes' = Bytes - EntryLen /\ Bytes >= EntryLen
<1> DEFINE l == EntryLen
<1>1. /\ l \in Nat \ {0} /\ l <= SIZE - 1
      /\ rp \in Nat /\ wp \in Nat /\ Top \in Nat /\ SIZE \in Nat /\ COUNTER \in Nat
      /\ rp <= Top /\ wp <= Top /\ Top < SIZE /\ SIZE < COUNTER
      /\ rp < wp => rp + l <= wp
      /\ rp > wp => rp + l <= Top
      /\ read \in 0 .. COUNTER - 1 /\ written \in 0 .. COUNTER - 1
  BY OneFacts
<1>2. /\ rp # wp
      /\ mem' = mem /\ wp' = wp /\ seq' = seq /\ written' = written
      /\ rp' = IF rp > wp /\ rp + l = Top THEN 0 ELSE rp + l
      /\ tail_padded' => tail_padded /\ rem_len' = rem_len
      /\ read' = (read + l) % COUNTER
  BY DEF TakesEntry
<1>3. Multiple(rp + l) /\ Multiple(0)
  BY MultipleNat DEF OneInv, PlacesEven
<1>4. PlacesEven'
  <2>1. Multiple(wp') /\ Multiple(rp') /\ wp' <= Top /\ rp' <= Top
    BY <1>1, <1>2, <1>3 DEF OneInv, PlacesEven
  <2>2. tail_padded' => rem_len' = SIZE - Top
    BY <1>2 DEF OneInv, PlacesEven
  <2>3. \A p \in 0 .. SIZE - 1 : mem'[p].id # 0 => mem'[p].len = l
    BY <1>2 DEF OneInv, PlacesEven
  <2>4. QED
    BY <2>1, <2>2, <2>3 DEF PlacesEven, Multiple
<1>5. InOrder'
  <2>1. ASSUME NEW h \in 0 .. wp' - 1, IsHeader(h)'
        PROVE  Numbered(mem', seq', h, wp' - h)
    BY <1>2, <2>1 DEF OneInv, InOrder, IsHeader
  <2>2. ASSUME rp' > wp', NEW h \in rp' .. Top - 1, IsHeader(h)'
        PROVE  Numbered(mem', seq', h, Top - h + wp')
    <3>1. rp > wp /\ h \in rp .. Top - 1 /\ IsHeader(h)
      BY <1>1, <1>2, <2>2 DEF IsHeader
    <3>2. QED
      BY <1>2, <3>1 DEF OneInv, InOrder
  <2>3. QED
    BY <2>1, <2>2 DEF InOrder
<1>6. Bytes' = Bytes - l /\ Bytes >= l /\ Bytes \in Nat /\ Bytes <= Top
  <2>1. CASE rp < wp
    BY <1>1, <1>2, <2>1 DEF Bytes
  <2>2. CASE rp > wp
    BY <1>1, <1>2, <2>2 DEF Bytes
  <2>3. QED
    BY <1>1, <1>2, <2>1, <2>2
<1>7. Counted'
  <2>1. l \in 0 .. SIZE
    BY <1>1
  <2>2. read' \in {read + l, (read + l) - COUNTER} /\ read' \in 0 .. COUNTER - 1
    BY <1>1, <1>2, <2>1, CounterSteps
  <2>3. written = read + Bytes \/ written = read + Bytes - COUNTER
    BY DEF OneInv, Counted
  <2>4. written = read' + (Bytes - l) \/ written = read' + (Bytes - l) - COUNTER
    <3> DEFINE b == Bytes
    <3>1. b \in Nat /\ l \in 0 .. b /\ (written = read + b \/ written = read + b - COUNTER)
      BY <1>1, <1>6, <2>3
    <3> HIDE DEF l, b
    <3>2. PICK s \in 0 .. COUNTER - 1 : s = read'
      BY <2>2
    <3>3. s = read + l \/ s = (read + l) - COUNTER
      BY <2>2, <3>2
    <3>4. written = s + (b - l) \/ written = s + (b - l) - COUNTER
      BY <1>1, <3>1, <3>3, CountersFollow
    <3>5. QED
      BY <3>2, <3>4 DEF b
  <2>5. QED
    BY <1>2, <1>6, <2>4 DEF Counted
<1>8. QED
  BY <1>4, <1>5, <1>6, <1>7 DEF OneInv

\* The entry in front of the reader has the length of all.
LEMMA EntryInFront ==
  ASSUME OneLength, TypeOK, RingInv, OneInv, rp # wp
  PROVE  mem[rp].len = EntryLen
<1>1. rp \in 0 .. SIZE - 1 /\ IsHeader(rp)
  BY ReaderAtEntry DEF TypeOK
<1>2. QED
  BY <1>1 DEF IsHeader, OneInv, PlacesEven

LEMMA DiscardTakes ==
  ASSUME OneLength, TypeOK, RingInv, OneInv, DiscardOldest
  PROVE  TakesEntry
<1>1. /\ rp > wp /\ rp \in Nat /\ wp \in Nat /\ Top \in Nat /\ SIZE \in Nat
      /\ EntryLen \in Nat /\ tail_padded /\ SIZE - rem_len = Top /\ rem_len \in Nat
  BY OneFacts DEF DiscardOldest, TypeOK
<1>2. rp # wp /\ mem[rp].len = EntryLen
  BY <1>1, EntryInFront
<1>3. AtPadding(rp + EntryLen) <=> rp + EntryLen = Top
  BY <1>1 DEF AtPadding
<1>4. QED
  BY <1>1, <1>2, <1>3 DEF DiscardOldest, TakesEntry

LEMMA PullTakes ==
  ASSUME OneLength, TypeOK, RingInv, OneInv, PullSingle
  PROVE  TakesEntry
<1> DEFINE next == rp + EntryLen
<1>1. /\ rp \in Nat /\ wp \in Nat /\ Top \in Nat /\ SIZE \in Nat /\ EntryLen \in Nat
      /\ wp <= Top /\ rem_len \in Nat
      /\ rp < wp => next <= wp
      /\ rp > wp => next <= Top /\ tail_padded
      /\ EntryLen > 0
  BY OneFacts DEF TypeOK
<1>2. rp # wp /\ mem[rp].len = EntryLen
  BY EntryInFront DEF PullSingle
<1>3. tail_padded => rem_len = SIZE - Top
  BY DEF OneInv, PlacesEven
<1>4. (next # wp /\ PastPadding(next)) <=> (rp > wp /\ next = Top)
  <2>1. CASE tail_padded
    <3>1. PastPadding(next) <=> next >= Top
      BY <1>1, <1>3, <2>1 DEF PastPadding
    <3>2. QED
      BY <1>1, <1>2, <3>1
  <2>2. CASE ~tail_padded
    BY <1>1, <2>2 DEF PastPadding
  <2>3. QED
    BY <2>1, <2>2
<1>5. QED
  BY <1>2, <1>4 DEF PullSingle, TakesEntry

\* With entries of one length the writer is at the Top when it starts over.
LEMMA WrapOne ==
  ASSUME OneLength, TypeOK, RingInv, OneInv, WrapWriter
  PROVE  /\ OneInv'
         /\ wp = Top
         /\ \/ rp = 0 /\ Bytes = Top /\ Bytes' = Bytes - EntryLen
            \/ rp # 0 /\ Bytes' = Bytes
<1> DEFINE l == EntryLen
           freed == IF rp = 0 THEN mem'[0].len ELSE 0
<1>1. /\ l \in Nat \ {0} /\ l <= SIZE - 1
      /\ rp \in Nat /\ wp \in Nat /\ Top \in Nat /\ SIZE \in Nat /\ COUNTER \in Nat
      /\ rp <= Top /\ wp <= Top /\ Top < SIZE /\ SIZE < COUNTER /\ SIZE - Top <= l
      /\ wp < Top => wp + l <= Top
      /\ rp < wp => rp + l <= wp
      /\ read \in 0 .. COUNTER - 1 /\ written \in 0 .. COUNTER - 1
  BY OneFacts
<1>2. /\ claim = l
      /\ rp <= wp /\ wp' = 0 /\ rem_len' = SIZE - wp /\ mem' = Padded(wp)
      /\ rp' = IF rp + freed = wp THEN 0 ELSE rp + freed
      /\ read' = (read + freed) % COUNTER
      /\ written' = written /\ seq' = seq
  <2>1. claim = EntryLen
    BY OneFacts DEF WrapWriter
  <2>2. QED
    BY <2>1 DEF WrapWriter
<1>3. wp = Top
  <2>1. WriteSpace <= l /\ WriteSpace = IF wp >= rp THEN SIZE - wp ELSE rp - wp
    BY <1>2, RoomAhead DEF WrapWriter
  <2>2. QED
    BY <1>1, <1>2, <2>1
<1>4. /\ \A p \in 0 .. Top - 1 : mem'[p] = mem[p]
      /\ \A p \in Top .. SIZE - 1 : mem'[p] = Zero
  BY <1>1, <1>2, <1>3 DEF Padded, TypeOK
<1>5. Top > 0
  BY TopIs
<1>6. freed = (IF rp = 0 THEN l ELSE 0)
  <2>1. CASE rp = 0
    <3>1. mem'[0] = mem[0]
      <4>1. 0 \in 0 .. Top - 1
        BY <1>1, <1>5
      <4>2. QED
        BY <1>4, <4>1
    <3>2. mem[0].len = l
      BY <1>1, <1>3, <1>5, <2>1, EntryInFront
    <3>3. QED
      BY <2>1, <3>1, <3>2
  <2>2. QED
    BY <2>1
<1> HIDE DEF freed
<1>7. /\ rp' <= Top /\ (rp' = 0 \/ rp' = rp + freed) /\ Multiple(rp')
      /\ rp' \in Nat /\ rp + freed <= Top /\ freed \in Nat /\ (rp' = 0 => rp + freed = Top)
      /\ (rp' # 0 => rp' = rp + freed)
  <2>1. Multiple(0) /\ Multiple(rp) /\ Multiple(rp + l)
    BY MultipleNat DEF OneInv, PlacesEven
  <2>2. rp + freed <= Top /\ freed \in Nat
    BY <1>1, <1>2, <1>3, <1>5, <1>6
  <2>3. Multiple(rp + freed)
    <3>1. rp + freed = rp \/ rp + freed = rp + l
      BY <1>1, <1>6
    <3>2. QED
      BY <2>1, <3>1
  <2>4. rp + freed # 0
    BY <1>1, <1>6
  <2>5. QED
    BY <1>1, <1>2, <1>3, <1>5, <2>1, <2>2, <2>3, <2>4
<1>8. PlacesEven'
  <2>1. ASSUME NEW p \in 0 .. SIZE - 1, mem'[p].id # 0
        PROVE  mem'[p].len = l
    <3>1. CASE p < Top
      <4>1. mem'[p] = mem[p]
        BY <1>1, <1>4, <3>1
      <4>2. QED
        BY <2>1, <4>1 DEF OneInv, PlacesEven
    <3>2. CASE p >= Top
      <4>1. mem'[p] = Zero
        BY <1>1, <1>4, <3>2
      <4>2. QED
        BY <2>1, <4>1 DEF Zero
    <3>3. QED
      BY <1>1, <3>1, <3>2
  <2>2. Multiple(wp') /\ wp' <= Top
    BY <1>1, <1>2, MultipleNat DEF OneInv, PlacesEven
  <2>3. rem_len' = SIZE - Top
    BY <1>2, <1>3
  <2>4. QED
    BY <1>7, <2>1, <2>2, <2>3 DEF PlacesEven, Multiple
<1>9. InOrder'
  <2>1. wp' - 1 = 0 - 1 /\ 0 .. wp' - 1 = {}
    BY <1>2
  <2>2. ASSUME NEW h \in rp' .. Top - 1, IsHeader(h)'
        PROVE  Numbered(mem', seq', h, Top - h + wp')
    <3>1. h \in 0 .. Top - 1 /\ h \in 0 .. wp - 1 /\ Top - h + wp' = wp - h
      BY <1>1, <1>2, <1>3, <1>7
    <3>2. mem'[h] = mem[h]
      BY <1>4, <3>1
    <3>3. Numbered(mem, seq, h, wp - h)
      BY <2>2, <3>1, <3>2 DEF OneInv, InOrder, IsHeader
    <3>4. QED
      BY <1>2, <3>1, <3>2, <3>3 DEF Numbered
  <2>3. QED
    BY <2>1, <2>2 DEF InOrder
<1>10. Bytes = Top - rp /\ Bytes' = Bytes - freed
  <2>1. Bytes = Top - rp
    BY <1>1, <1>2, <1>3 DEF Bytes
  <2>2. CASE rp' = 0
    BY <1>1, <1>2, <1>7, <2>1, <2>2 DEF Bytes
  <2>3. CASE rp' # 0
    BY <1>1, <1>2, <1>7, <2>1, <2>3 DEF Bytes
  <2>4. QED
    BY <2>1, <2>2, <2>3
<1>11. Counted'
  <2>1. freed \in 0 .. SIZE
    BY <1>1, <1>6
  <2>2. read' \in {read + freed, (read + freed) - COUNTER} /\ read' \in 0 .. COUNTER - 1
    BY <1>1, <1>2, <2>1, CounterSteps
  <2>3. written = read + Bytes \/ written = read + Bytes - COUNTER
    BY DEF OneInv, Counted
  <2>4. written = read' + (Bytes - freed) \/ written = read' + (Bytes - freed) - COUNTER
    <3> DEFINE b == Bytes
    <3>1. b \in Nat /\ freed \in 0 .. b /\ (written = read + b \/ written = read + b - COUNTER)
      BY <1>1, <1>7, <1>10, <2>3
    <3> HIDE DEF b
    <3>2. PICK s \in 0 .. COUNTER - 1 : s = read'
      BY <2>2
    <3>3. s = read + freed \/ s = (read + freed) - COUNTER
      BY <2>2, <3>2
    <3>4. written = s + (b - freed) \/ written = s + (b - freed) - COUNTER
      BY <1>1, <3>1, <3>3, CountersFollow
    <3>5. QED
      BY <3>2, <3>4 DEF b
  <2>5. QED
    BY <1>2, <1>10, <2>4 DEF Counted
<1>12. QED
  BY <1>1, <1>3, <1>6, <1>8, <1>9, <1>10, <1>11 DEF OneInv

LEMMA OneNext == OneLength /\ TypeOK /\ RingInv /\ OneInv /\ [Next]_vars => OneInv'
<1> SUFFICES ASSUME OneLength, TypeOK, RingInv, OneInv, [Next]_vars
             PROVE  OneInv'
  OBVIOUS
<1>1. ASSUME UNCHANGED <<mem, rp, wp, tail_padded, rem_len, written, read, seq>>
      PROVE  OneInv'
  BY <1>1 DEF OneInv, PlacesEven, Multiple, InOrder, Numbered, IsHeader, Counted, Bytes
<1>2. ASSUME NEW len \in Lens, Push(len)
      PROVE  OneInv'
  BY <1>1, <1>2 DEF Push
<1>3. ASSUME GiveUp \/ \E s \in {"ACTIVE", "SUSPEND"} : Config(s)
      PROVE  OneInv'
  BY <1>1, <1>3 DEF GiveUp, Config
<1>4. CASE UNCHANGED vars
  BY <1>1, <1>4 DEF vars
<1>5. CASE DiscardOldest \/ PullSingle
  BY <1>5, DiscardTakes, PullTakes, TakeOne
<1>6. QED
  BY <1>2, <1>3, <1>4, <1>5, WrapOne, StoreOne DEF Next

LEMMA OneAlways == OneLength => (Spec => [](TypeOK /\ RingInv /\ OneInv))
<1> SUFFICES ASSUME OneLength
             PROVE  Spec => [](TypeOK /\ RingInv /\ OneInv)
  OBVIOUS
<1>1. Init => OneInv
  BY OneStarts
<1>2. TypeOK /\ RingInv /\ OneInv /\ [Next]_vars => OneInv'
  BY OneNext
<1>3. Init => ~overlong
  BY DEF Init
<1>4. ~overlong /\ [Next]_vars => ~overlong'
  <2>1. ASSUME NEW len \in Lens, Push(len), ~overlong
        PROVE  ~overlong'
    <3>1. len # SIZE
      BY OneLengthIs, SizeAssumption
    <3>2. QED
      BY <2>1, <3>1, Zenon DEF Push
  <2>2. QED
    BY <2>1 DEF Next, WrapWriter, DiscardOldest, GiveUp, Store, PullSingle, Config, vars
<1>5. QED
  BY <1>1, <1>2, <1>3, <1>4, RingAlways, PTL DEF Spec

\* Every cell in front of the reader belongs to an entry, but for the padding.
LEMMA BytesStored ==
  ASSUME OneLength, TypeOK, RingInv, OneInv
  PROVE  StoredBytes = Bytes /\ Bytes \in Nat /\ Bytes <= Top
<1> DEFINE stored == {i \in DOMAIN Window : mem[Window[i]].id # 0}
<1>1. /\ rp \in Nat /\ wp \in Nat /\ Top \in Nat /\ SIZE \in Nat
      /\ rp <= Top /\ wp <= Top /\ Top < SIZE
      /\ rp > wp => SIZE - rem_len = Top /\ rp + EntryLen <= Top
      /\ EntryLen \in Nat \ {0}
      /\ rp > wp => wp + EntryLen <= rp
  BY OneFacts
<1>2. CASE rp <= wp
  <2>1. DOMAIN Window = 1 .. wp - rp /\ \A i \in 1 .. wp - rp : Window[i] = rp + i - 1
    BY <1>2 DEF Window
  <2>2. \A p \in rp .. wp - 1 : mem[p].id # 0
    BY <1>2 DEF RingInv, Tiled, Owns
  <2>3. \A i \in 1 .. wp - rp : mem[Window[i]].id # 0
    BY <1>1, <2>1, <2>2
  <2>4. stored = 1 .. wp - rp
    BY <2>1, <2>3
  <2>5. Cardinality(1 .. wp - rp) = wp - rp
    BY <1>1, <1>2, FS_Interval
  <2>6. StoredBytes = wp - rp
    BY <2>4, <2>5 DEF StoredBytes
  <2>7. Bytes = wp - rp
    BY <1>2 DEF Bytes
  <2>8. QED
    BY <1>1, <1>2, <2>6, <2>7
<1>3. CASE rp > wp
  <2> DEFINE low == 1 .. Top - rp
             high == SIZE - rp + 1 .. SIZE - rp + wp
  <2>1. /\ ~(rp <= wp)
        /\ \A p \in rp .. Top - 1 : mem[p].id # 0
        /\ \A p \in 0 .. wp - 1 : mem[p].id # 0
        /\ \A p \in Top .. SIZE - 1 : mem[p].id = 0
    <3>1. Tiled(mem, rp, Top) /\ Tiled(mem, 0, wp) /\ \A p \in Top .. SIZE - 1 : mem[p] = Zero
      BY <1>1, <1>3 DEF RingInv
    <3>2. QED
      BY <1>1, <1>3, <3>1 DEF Tiled, Owns, Zero
  <2>2. DOMAIN Window = 1 .. SIZE - rp + wp
        /\ \A i \in 1 .. SIZE - rp + wp : Window[i] = (rp + i - 1) % SIZE
    BY <2>1 DEF Window
  <2>3. ASSUME NEW i \in 1 .. SIZE - rp + wp
        PROVE  mem[Window[i]].id # 0 <=> i \in low \cup high
    <3> DEFINE n == rp + i - 1
    <3>1. n \in Nat /\ n < 2 * SIZE /\ Window[i] = n % SIZE
      BY <1>1, <1>3, <2>2
    <3>2. Window[i] = IF n < SIZE THEN n ELSE n - SIZE
      <4> HIDE DEF n
      <4>1. QED
        BY <1>1, <3>1, AroundRing
    <3>3. CASE n < Top
      <4>1. Window[i] \in rp .. Top - 1 /\ i \in low
        BY <1>1, <3>2, <3>3
      <4>2. QED
        BY <2>1, <4>1
    <3>4. CASE n >= Top /\ n < SIZE
      <4>1. Window[i] \in Top .. SIZE - 1 /\ i \notin low /\ i \notin high
        BY <1>1, <3>2, <3>4
      <4>2. QED
        BY <2>1, <4>1
    <3>5. CASE n >= SIZE
      <4>1. Window[i] \in 0 .. wp - 1 /\ i \in high
        BY <1>1, <3>2, <3>5
      <4>2. QED
        BY <2>1, <4>1
    <3>6. QED
      BY <1>1, <3>1, <3>3, <3>4, <3>5
  <2>4. low \cup high \subseteq 1 .. SIZE - rp + wp
    BY <1>1, <1>3
  <2>5. stored = low \cup high
    BY <2>2, <2>3, <2>4
  <2>6. IsFiniteSet(low) /\ Cardinality(low) = Top - rp
    <3> DEFINE n == Top - rp
    <3>1. n \in Nat /\ 1 \in Int /\ n > 0
      BY <1>1, <1>3
    <3> HIDE DEF n
    <3>2. IsFiniteSet(1 .. n) /\ Cardinality(1 .. n) = IF 1 > n THEN 0 ELSE n - 1 + 1
      BY <3>1, FS_Interval
    <3>3. QED
      BY <3>1, <3>2 DEF n
  <2>7. IsFiniteSet(high) /\ Cardinality(high) = wp
    <3> DEFINE a == SIZE - rp + 1
               b == SIZE - rp + wp
    <3>1. a \in Int /\ b \in Int /\ b - a + 1 = wp /\ (a > b => wp = 0)
      BY <1>1
    <3> HIDE DEF a, b
    <3>2. IsFiniteSet(a .. b) /\ Cardinality(a .. b) = IF a > b THEN 0 ELSE b - a + 1
      BY <3>1, FS_Interval
    <3>3. QED
      BY <3>1, <3>2 DEF a, b
  <2>8. low \cap high = {}
    BY <1>1
  <2>9. Cardinality({}) = 0
    BY FS_EmptySet
  <2> HIDE DEF low, high
  <2>10. Cardinality(low \cup high) = (Top - rp) + wp - 0
    BY <2>6, <2>7, <2>8, <2>9, FS_Union
  <2>11. QED
    <3>1. StoredBytes = (Top - rp) + wp - 0
      BY <2>5, <2>10 DEF StoredBytes
    <3>2. Bytes = Top - rp + wp
      BY <2>1 DEF Bytes
    <3>3. QED
      BY <1>1, <1>3, <3>1, <3>2
<1>4. QED
  BY <1>1, <1>2, <1>3

\* The pending length by which dhd_dbg_ring_push decides whether to wake the
\* reader is what the reader can still read, also after the 32 bit counters
\* have wrapped, up to the byte that dhd_dbg_ring_get_pending_len loses there.
THEOREM RingPending == OneLength => (Spec => []PendingExact)
<1> SUFFICES ASSUME OneLength
             PROVE  Spec => []PendingExact
  OBVIOUS
<1>1. TypeOK /\ RingInv /\ OneInv => PendingExact
  <2> SUFFICES ASSUME TypeOK, RingInv, OneInv
               PROVE  PendingExact
    OBVIOUS
  <2>1. StoredBytes = Bytes /\ Bytes \in Nat /\ Bytes < COUNTER
    BY BytesStored, OneFacts
  <2>2. written = read + Bytes \/ written = read + Bytes - COUNTER
    BY DEF OneInv, Counted
  <2>3. read \in 0 .. COUNTER - 1 /\ written \in 0 .. COUNTER - 1 /\ COUNTER \in Nat
    BY OneFacts
  <2> DEFINE b == Bytes
  <2>4. b \in Nat /\ b < COUNTER /\ (written = read + b \/ written = read + b - COUNTER)
    BY <2>1, <2>2
  <2> HIDE DEF b
  <2>5. PendingLen = b \/ PendingLen = b - 1
    BY <2>3, <2>4 DEF PendingLen
  <2>6. QED
    BY <2>1, <2>5 DEF PendingExact, b
<1>2. QED
  BY <1>1, OneAlways, PTL

-----------------------------------------------------------------------------
(* The ring is the queue of DbgFifo.                                       *)

LEMMA SameMultiple ==
  ASSUME NEW l \in Nat \ {0}, NEW x \in Int, NEW m \in Int, NEW d \in 0 .. l - 1,
         x * l = (m * l) + d
  PROVE  x = m
<1> DEFINE n == x - m
<1>1. n \in Int /\ x = m + n
  OBVIOUS
<1> HIDE DEF n
<1>2. x * l = (m * l) + (n * l)
  BY <1>1
<1>3. n * l = d
  BY <1>1, <1>2
<1>4. CASE n >= 1
  <2>1. PICK j \in Nat : n = j + 1
    BY <1>1, <1>4, n - 1 \in Nat
  <2>2. n * l = (j * l) + l /\ j * l \in Nat
    BY <2>1
  <2>3. QED
    BY <1>3, <2>2
<1>5. CASE n <= 0 - 1
  <2>1. PICK j \in Nat : n = 0 - (j + 1)
    BY <1>1, <1>5, (0 - n) - 1 \in Nat
  <2>2. n * l = 0 - ((j * l) + l) /\ j * l \in Nat
    BY <2>1
  <2>3. QED
    BY <1>3, <2>2
<1>6. QED
  BY <1>1, <1>4, <1>5

LEMMA MultiplesAdd ==
  ASSUME OneLength, NEW x, NEW y, Multiple(x), Multiple(y)
  PROVE  Multiple(x + y) /\ (x <= y => Multiple(y - x))
<1>1. PICK a \in Nat : x = a * EntryLen
  BY DEF Multiple
<1>2. PICK b \in Nat : y = b * EntryLen
  BY DEF Multiple
<1>3. EntryLen \in Nat \ {0}
  BY OneLengthIs
<1>4. x + y = (a + b) * EntryLen /\ a + b \in Nat
  BY <1>1, <1>2, <1>3
<1>5. ASSUME x <= y
      PROVE  Multiple(y - x)
  <2>1. x \in Nat /\ y \in Nat
    BY <1>1, <1>2, <1>3
  <2>2. a <= b
    <3>1. CASE b < a
      <4>1. (b * EntryLen) + EntryLen <= a * EntryLen
        BY <1>3, <3>1, Apart
      <4>2. QED
        BY <1>1, <1>2, <1>3, <1>5, <2>1, <4>1
    <3>2. QED
      BY <3>1
  <2>3. PICK d \in Nat : b = a + d
    BY <2>2, b - a \in Nat
  <2>4. b * EntryLen = (a * EntryLen) + (d * EntryLen) /\ d * EntryLen \in Nat
    BY <1>3, <2>3
  <2>5. y - x = d * EntryLen
    BY <1>1, <1>2, <2>1, <2>4
  <2>6. QED
    BY <2>5 DEF Multiple
<1>6. QED
  BY <1>4, <1>5 DEF Multiple

\* How many entries there are.
LEMMA EntriesCount ==
  ASSUME OneLength, TypeOK, RingInv, OneInv
  PROVE  \E n \in Nat : Bytes = n * EntryLen /\ StoredBytes \div EntryLen = n
<1>1. Multiple(wp) /\ Multiple(rp) /\ Multiple(Top) /\ EntryLen \in Nat \ {0}
  BY TopIs, OneLengthIs DEF OneInv, PlacesEven
<1>2. rp \in Nat /\ wp \in Nat /\ Top \in Nat /\ rp <= Top
  BY OneFacts
<1>3. Multiple(Bytes)
  <2>1. CASE rp <= wp
    BY <1>1, <2>1, MultiplesAdd DEF Bytes
  <2>2. CASE rp > wp
    <3>1. Multiple((Top - rp) + wp)
      BY <1>1, <1>2, MultiplesAdd
    <3>2. Bytes = (Top - rp) + wp
      BY <1>2, <2>2 DEF Bytes
    <3>3. QED
      BY <3>1, <3>2
  <2>3. QED
    BY <1>2, <2>1, <2>2
<1>4. PICK n \in Nat : Bytes = n * EntryLen
  BY <1>3 DEF Multiple
<1> DEFINE l == EntryLen
<1> HIDE DEF l
<1>5. l \in Nat \ {0}
  BY <1>1 DEF l
<1>6. (n * l) \div l = n
  <2> DEFINE q == (n * l) \div l
  <2>1. n * l \in Nat
    BY <1>5
  <2>2. q \in Int /\ (n * l) % l \in 0 .. l - 1 /\ n * l = (q * l) + ((n * l) % l)
    BY <1>5, <2>1
  <2> HIDE DEF q
  <2>3. n = q
    BY <1>5, <2>2, SameMultiple
  <2>4. QED
    BY <2>3 DEF q
<1>7. QED
  BY <1>4, <1>6, BytesStored DEF l

\* The entry that has m entries from it to the writer.
LEMMA IdOf ==
  ASSUME OneLength, TypeOK, OneInv, NEW a \in 0 .. SIZE, NEW b \in 0 .. SIZE, Tiled(mem, a, b),
         NEW p \in a .. b - 1, NEW far \in Int, NEW m \in Int, far - p = m * EntryLen,
         \A h \in a .. b - 1 : IsHeader(h) => Numbered(mem, seq, h, far - h)
  PROVE  mem[p].id = seq + 1 - m
<1> DEFINE l == EntryLen
           h == p - mem[p].off
           d == mem[p].off
<1>1. p \in 0 .. SIZE - 1 /\ l \in Nat \ {0} /\ seq \in Nat
  BY SizeAssumption, BoundAssumption, OneLengthIs DEF TypeOK
<1>2. d \in Nat /\ mem[p].id \in Nat
  BY <1>1, CellAt
<1>3. Owns(mem, p, a, b)
  BY DEF Tiled
<1>4. mem[p].len = l /\ mem[p].id # 0
  BY <1>1, <1>3 DEF Owns, OneInv, PlacesEven
<1>5. d \in 0 .. l - 1 /\ h \in a .. b - 1
  BY <1>1, <1>2, <1>3, <1>4 DEF Owns
<1>6. mem[h] = [mem[p] EXCEPT !.off = 0]
  <2>1. mem[h + 0] = [mem[p] EXCEPT !.off = 0]
    BY <1>1, <1>3, <1>4 DEF Owns
  <2>2. h + 0 = h
    BY <1>5
  <2>3. QED
    BY <2>1, <2>2
<1>7. mem[h].id = mem[p].id /\ mem[h].off = 0
  <2>1. mem[p] \in Cell
    BY <1>1, CellAt
  <2>2. QED
    BY <1>6, <2>1 DEF Cell
<1>8. far - h = (seq + 1 - mem[p].id) * l
  <2>1. IsHeader(h)
    BY <1>4, <1>7 DEF IsHeader
  <2>2. Numbered(mem, seq, h, far - h)
    BY <1>5, <2>1
  <2>3. QED
    BY <1>7, <2>2 DEF Numbered
<1>9. far - h = (m * l) + d
  BY <1>2, <1>5
<1> DEFINE x == seq + 1 - mem[p].id
<1>10. x \in Int /\ x * l = (m * l) + d
  BY <1>1, <1>2, <1>8, <1>9
<1>11. x = m
  <2> HIDE DEF x, l, d, h
  <2>1. QED
    BY <1>1, <1>5, <1>10, SameMultiple
<1>12. QED
  BY <1>1, <1>2, <1>11

\* n entries, the last of them numbered s.
Queue(s, n) == [i \in 1 .. n |-> s - n + i]

LEMMA StoredIs ==
  ASSUME OneLength, TypeOK, RingInv, OneInv, NEW n \in Nat, Bytes = n * EntryLen,
         StoredBytes \div EntryLen = n
  PROVE  Stored = Queue(seq, n)
<1> DEFINE l == EntryLen
<1>1. /\ rp \in Nat /\ wp \in Nat /\ Top \in Nat /\ SIZE \in Nat /\ seq \in Nat
      /\ rp <= Top /\ wp <= Top /\ Top < SIZE
      /\ rp > wp => SIZE - rem_len = Top
      /\ l \in Nat \ {0}
  BY OneFacts
<1>2. ASSUME NEW i \in 1 .. n
      PROVE  mem[(rp + (i - 1) * l) % Top].id = seq - n + i
  <2> DEFINE j == i - 1
             m == n - j
             x == rp + j * l
  <2>1. j \in Nat /\ m \in Nat \ {0} /\ n = j + m /\ seq + 1 - m = seq - n + i
    BY <1>1
  <2>2. n * l = (j * l) + (m * l) /\ j * l \in Nat /\ m * l \in Nat /\ m * l > 0
    <3> HIDE DEF j, m
    <3>1. n * l = (j * l) + (m * l) /\ j * l \in Nat /\ m * l \in Nat
      BY <1>1, <2>1
    <3>2. PICK c \in Nat : m = c + 1
      BY <2>1, m - 1 \in Nat
    <3>3. m * l = (c * l) + l /\ c * l \in Nat
      BY <1>1, <3>2
    <3>4. QED
      BY <1>1, <3>1, <3>3
  <2>3. x \in Nat /\ Bytes = (x - rp) + (m * l) /\ x >= rp
    BY <1>1, <2>2
  <2> HIDE DEF j
  <2>4. CASE rp <= wp
    <3>1. wp - x = m * l /\ x \in rp .. wp - 1 /\ x < Top /\ x < 2 * Top
      BY <1>1, <2>2, <2>3, <2>4 DEF Bytes
    <3>2. x % Top = x
      <4> HIDE DEF x
      <4>1. QED
        BY <1>1, <2>3, <3>1, AroundOnce
    <3>3. Tiled(mem, 0, wp) /\ \A h \in 0 .. wp - 1 : IsHeader(h) => Numbered(mem, seq, h, wp - h)
      BY DEF RingInv, OneInv, InOrder
    <3>4. x \in 0 .. wp - 1 /\ 0 \in 0 .. SIZE /\ wp \in 0 .. SIZE /\ wp \in Int /\ m \in Int
      BY <1>1, <2>1, <3>1
    <3>5. mem[x].id = seq + 1 - m
      <4> HIDE DEF x, m
      <4>1. QED
        BY <3>1, <3>3, <3>4, IdOf
    <3>6. QED
      BY <2>1, <3>2, <3>5 DEF j
  <2>5. CASE rp > wp
    <3> DEFINE far == Top + wp
    <3>1. far - x = m * l /\ x < far /\ x < 2 * Top /\ far \in Int /\ m \in Int
      BY <1>1, <2>1, <2>2, <2>3, <2>5 DEF Bytes
    <3>2. CASE x < Top
      <4>1. x % Top = x
        <5> HIDE DEF x
        <5>1. QED
          BY <1>1, <2>3, <3>1, <3>2, AroundOnce
      <4>2. x \in rp .. Top - 1 /\ rp \in 0 .. SIZE /\ Top \in 0 .. SIZE /\ Tiled(mem, rp, Top)
        BY <1>1, <2>3, <2>5, <3>2 DEF RingInv
      <4>3. ASSUME NEW h \in rp .. Top - 1, IsHeader(h)
            PROVE  Numbered(mem, seq, h, far - h)
        <5>1. Numbered(mem, seq, h, Top - h + wp)
          BY <2>5, <4>3 DEF OneInv, InOrder
        <5>2. Top - h + wp = far - h
          BY <1>1
        <5>3. QED
          BY <5>1, <5>2
      <4>4. mem[x].id = seq + 1 - m
        <5> HIDE DEF x, m, far
        <5>1. QED
          BY <3>1, <4>2, <4>3, IdOf
      <4>5. QED
        BY <2>1, <4>1, <4>4 DEF j
    <3>3. CASE x >= Top
      <4> DEFINE y == x - Top
      <4>1. x % Top = y
        <5> HIDE DEF x
        <5>1. QED
          BY <1>1, <2>3, <3>1, <3>3, AroundOnce
      <4>2. y \in 0 .. wp - 1 /\ 0 \in 0 .. SIZE /\ wp \in 0 .. SIZE /\ wp - y = m * l /\ wp \in Int
        BY <1>1, <2>3, <3>1, <3>3
      <4>3. Tiled(mem, 0, wp) /\ \A h \in 0 .. wp - 1 : IsHeader(h) => Numbered(mem, seq, h, wp - h)
        BY DEF RingInv, OneInv, InOrder
      <4>4. mem[y].id = seq + 1 - m
        <5> HIDE DEF y, x, m
        <5>1. QED
          BY <3>1, <4>2, <4>3, IdOf
      <4>5. QED
        BY <2>1, <4>1, <4>4 DEF j
    <3>4. QED
      BY <1>1, <2>3, <3>2, <3>3
  <2>6. QED
    BY <1>1, <2>4, <2>5
<1>3. QED
  BY <1>2 DEF Stored, Queue

LEMMA QueueOps ==
  ASSUME NEW s \in Int, NEW n \in Nat
  PROVE  /\ Queue(s, n) \in Seq(Int) /\ Len(Queue(s, n)) = n
         /\ Append(Queue(s, n), s + 1) = Queue(s + 1, n + 1)
         /\ n > 0 => /\ Queue(s, n) # <<>>
                     /\ Head(Queue(s, n)) = s - n + 1
                     /\ Tail(Queue(s, n)) = Queue(s, n - 1)
<1>1. ASSUME NEW m \in Nat, NEW r \in Int
      PROVE  /\ Queue(r, m) \in Seq(Int) /\ Len(Queue(r, m)) = m
             /\ \A i \in 1 .. m : Queue(r, m)[i] = r - m + i
  BY DEF Queue
<1> DEFINE q == Queue(s, n)
<1>2. Append(q, s + 1) = Queue(s + 1, n + 1)
  <2> DEFINE a == Append(q, s + 1)
             b == Queue(s + 1, n + 1)
  <2>1. /\ q \in Seq(Int) /\ Len(q) = n
        /\ \A i \in 1 .. n : q[i] = s - n + i
    BY <1>1
  <2>2. /\ b \in Seq(Int) /\ Len(b) = n + 1
        /\ \A i \in 1 .. n + 1 : b[i] = (s + 1) - (n + 1) + i
    BY <1>1
  <2>3. /\ a \in Seq(Int) /\ Len(a) = n + 1
        /\ \A i \in 1 .. n : a[i] = q[i]
        /\ a[n + 1] = s + 1
    <3> HIDE DEF q
    <3>1. s + 1 \in Int
      OBVIOUS
    <3>2. QED
      BY <2>1, <3>1, AppendProperties
  <2> HIDE DEF a, b, q
  <2>4. ASSUME NEW i \in 1 .. n + 1
        PROVE  a[i] = b[i]
    <3>1. CASE i = n + 1
      BY <2>2, <2>3, <3>1
    <3>2. CASE i # n + 1
      <4>1. i \in 1 .. n
        BY <3>2
      <4>2. a[i] = s - n + i /\ b[i] = (s + 1) - (n + 1) + i
        BY <2>1, <2>2, <2>3, <4>1
      <4>3. QED
        BY <4>2
    <3>3. QED
      BY <3>1, <3>2
  <2>5. a = b
    BY <2>2, <2>3, <2>4, SeqEqual
  <2>6. QED
    BY <2>5 DEF a, b
<1>3. ASSUME n > 0
      PROVE  q # <<>> /\ Head(q) = s - n + 1 /\ Tail(q) = Queue(s, n - 1)
  <2> DEFINE a == Tail(q)
             b == Queue(s, n - 1)
  <2>1. /\ q \in Seq(Int) /\ Len(q) = n
        /\ \A i \in 1 .. n : q[i] = s - n + i
    BY <1>1
  <2>2. /\ b \in Seq(Int) /\ Len(b) = n - 1
        /\ \A i \in 1 .. n - 1 : b[i] = s - (n - 1) + i
    BY <1>1, <1>3, n - 1 \in Nat
  <2> HIDE DEF q
  <2>3. q # <<>>
    BY <1>3, <2>1
  <2>4. Head(q) = s - n + 1
    BY <1>3, <2>1, <2>3
  <2>5. a \in Seq(Int) /\ Len(a) = n - 1 /\ \A i \in 1 .. n - 1 : a[i] = q[i + 1]
    BY <2>1, <2>3, HeadTailProperties
  <2> HIDE DEF a, b
  <2>6. ASSUME NEW i \in 1 .. n - 1
        PROVE  a[i] = b[i]
    <3>1. i + 1 \in 1 .. n
      OBVIOUS
    <3>2. a[i] = s - n + (i + 1) /\ b[i] = s - (n - 1) + i
      BY <2>1, <2>2, <2>5, <3>1
    <3>3. QED
      BY <3>2
  <2>7. a = b
    BY <2>2, <2>5, <2>6, SeqEqual
  <2>8. QED
    BY <2>3, <2>4, <2>7 DEF a, b
<1>4. QED
  BY <1>1, <1>2, <1>3

\* The queue of DbgFifo that a state of the ring stands for.
StoredQueue == \E n \in Nat : Bytes = n * EntryLen /\ Stored = Queue(seq, n)

LEMMA StoredAsQueue == OneLength /\ TypeOK /\ RingInv /\ OneInv => StoredQueue
BY EntriesCount, StoredIs DEF StoredQueue

\* Two numbers of entries whose bytes differ by as many entries.
LEMMA EntriesDiffer ==
  ASSUME NEW l \in Nat \ {0}, NEW a \in Nat, NEW b \in Nat
  PROVE  /\ a * l = b * l => a = b
         /\ a * l = (b * l) + l => a = b + 1
<1>1. ASSUME a * l = b * l
      PROVE  a = b
  <2>1. a * l = (b * l) + 0
    BY <1>1
  <2>2. QED
    BY <2>1, SameMultiple
<1>2. ASSUME a * l = (b * l) + l
      PROVE  a = b + 1
  <2>1. (b + 1) * l = (b * l) + l
    OBVIOUS
  <2>2. a * l = ((b + 1) * l) + 0 /\ b + 1 \in Nat
    BY <1>2, <2>1
  <2>3. QED
    BY <2>2, SameMultiple
<1>3. QED
  BY <1>1, <1>2

LEMMA FifoStart ==
  ASSUME OneLength, Init, StoredQueue
  PROVE  Fifo!Init
<1>1. PICK n \in Nat : Bytes = n * EntryLen /\ Stored = Queue(seq, n)
  BY DEF StoredQueue
<1>2. Bytes = 0
  BY DEF Init, Bytes
<1>3. n = 0
  <2>1. EntryLen \in Nat \ {0}
    BY OneLengthIs
  <2>2. n * EntryLen = 0 * EntryLen
    BY <1>1, <1>2, <2>1
  <2>3. QED
    BY <2>1, <2>2, EntriesDiffer
<1>4. Stored = <<>>
  BY <1>1, <1>3 DEF Queue
<1>5. QED
  BY <1>4 DEF Init, Fifo!Init

LEMMA FifoStep ==
  ASSUME OneLength, TypeOK, RingInv, OneInv, StoredQueue, StoredQueue', [Next]_vars
  PROVE  [Fifo!Next]_(Fifo!fifoVars)
<1> DEFINE l == EntryLen
<1>1. PICK n \in Nat : Bytes = n * EntryLen /\ Stored = Queue(seq, n)
  BY DEF StoredQueue
<1>2. PICK k \in Nat : Bytes' = k * EntryLen /\ Stored' = Queue(seq', k)
  BY DEF StoredQueue
<1>3. /\ l \in Nat \ {0} /\ seq \in Nat
      /\ rp \in Nat /\ wp \in Nat /\ Top \in Nat /\ rp <= Top /\ wp <= Top
  BY OneFacts
<1> DEFINE c == (SIZE - 1) \div EntryLen
<1>4. c \in Nat /\ Top = c * EntryLen
  BY TopIs DEF Top
<1> HIDE DEF c
<1>5. ASSUME Bytes' = Bytes - EntryLen, seq' = seq
      PROVE  /\ n = k + 1 /\ Stored # <<>>
             /\ Stored' = Tail(Stored) /\ Len(Stored) = n /\ Head(Stored) = seq - n + 1
  <2>1. n * l = (k * l) + l
    BY <1>1, <1>2, <1>3, <1>5
  <2>2. n = k + 1
    <3> HIDE DEF l
    <3>1. QED
      BY <1>3, <2>1, EntriesDiffer
  <2>3. Stored' = Queue(seq, n - 1) /\ n > 0
    BY <1>2, <1>5, <2>2
  <2>4. /\ Queue(seq, n) # <<>> /\ Len(Queue(seq, n)) = n
        /\ Head(Queue(seq, n)) = seq - n + 1 /\ Tail(Queue(seq, n)) = Queue(seq, n - 1)
    <3>1. PICK s \in Int : s = seq
      BY <1>3
    <3>2. /\ Queue(s, n) # <<>> /\ Len(Queue(s, n)) = n
          /\ Head(Queue(s, n)) = s - n + 1 /\ Tail(Queue(s, n)) = Queue(s, n - 1)
      BY <2>3, QueueOps
    <3>3. QED
      BY <3>1, <3>2
  <2>5. QED
    BY <1>1, <2>2, <2>3, <2>4
<1>6. ASSUME Bytes' = Bytes, seq' = seq, got' = got
      PROVE  UNCHANGED Fifo!fifoVars
  <2>1. n * l = k * l
    BY <1>1, <1>2, <1>6
  <2>2. n = k
    <3> HIDE DEF l
    <3>1. QED
      BY <1>3, <2>1, EntriesDiffer
  <2>3. Stored' = Stored
    BY <1>1, <1>2, <1>6, <2>2
  <2>4. QED
    BY <1>6, <2>3 DEF Fifo!fifoVars
<1>7. ASSUME Store
      PROVE  Fifo!Log
  <2>1. Bytes' = Bytes + EntryLen
    BY <1>7, StoreOne
  <2>2. seq' = seq + 1 /\ got' = got /\ seq < MaxPush
    BY <1>7 DEF Store, RingInv
  <2>3. k * l = (n * l) + l
    BY <1>1, <1>2, <1>3, <2>1
  <2>4. k = n + 1
    <3> HIDE DEF l
    <3>1. QED
      BY <1>3, <2>3, EntriesDiffer
  <2>5. Stored' = Append(Stored, seq + 1)
    <3>1. Append(Queue(seq, n), seq + 1) = Queue(seq + 1, n + 1)
      <4>1. PICK s \in Int : s = seq
        BY <1>3
      <4>2. Append(Queue(s, n), s + 1) = Queue(s + 1, n + 1)
        BY QueueOps
      <4>3. QED
        BY <4>1, <4>2
    <3>2. QED
      BY <1>1, <1>2, <2>2, <2>4, <3>1
  <2>6. QED
    BY <2>2, <2>5 DEF Fifo!Log
<1>8. ASSUME Bytes' = Bytes - EntryLen, seq' = seq, got' = got, Bytes + EntryLen >= Top
      PROVE  Fifo!Discard
  <2>1. n + 1 >= c
    <3> HIDE DEF l
    <3>1. n * l + l >= c * l
      BY <1>1, <1>4, <1>8 DEF l
    <3>2. CASE n + 1 < c
      <4>1. ((n + 1) * l) + l <= c * l
        BY <1>3, <1>4, <3>2, Apart
      <4>2. (n + 1) * l = (n * l) + l /\ n * l \in Nat /\ c * l \in Nat
        BY <1>3, <1>4
      <4>3. QED
        BY <1>3, <3>1, <4>1, <4>2
    <3>3. QED
      BY <1>4, <3>2
  <2>2. Len(Stored) >= c - 1
    BY <1>4, <1>5, <1>8, <2>1
  <2>3. QED
    BY <1>5, <1>8, <2>2 DEF Fifo!Discard, c
<1>9. ASSUME WrapWriter
      PROVE  [Fifo!Next]_(Fifo!fifoVars)
  <2>1. seq' = seq /\ got' = got
    BY <1>9 DEF WrapWriter
  <2>2. CASE rp = 0
    <3>1. Bytes = Top /\ Bytes' = Bytes - EntryLen
      BY <1>9, <2>2, WrapOne
    <3>2. QED
      BY <1>3, <1>8, <2>1, <3>1 DEF Fifo!Next
  <2>3. CASE rp # 0
    BY <1>6, <1>9, <2>1, <2>3, WrapOne
  <2>4. QED
    BY <2>2, <2>3
<1>10. ASSUME DiscardOldest
       PROVE  Fifo!Discard
  <2>1. Bytes' = Bytes - EntryLen /\ seq' = seq /\ got' = got
    BY <1>10, DiscardTakes, TakeOne DEF DiscardOldest
  <2>2. rp - wp <= l /\ rp > wp
    <3>1. claim = l /\ WriteSpace <= claim /\ rp > wp
      BY <1>10, OneFacts DEF DiscardOldest
    <3>2. QED
      BY <1>3, <3>1, RoomAhead
  <2>3. Bytes + EntryLen >= Top
    BY <1>3, <2>2 DEF Bytes
  <2>4. QED
    BY <1>8, <2>1, <2>3
<1>11. ASSUME PullSingle
       PROVE  Fifo!Take
  <2>1. Bytes' = Bytes - EntryLen /\ Bytes >= EntryLen /\ seq' = seq /\ rp # wp
    BY <1>11, PullTakes, TakeOne DEF PullSingle
  <2>2. got' = Head(Stored)
    <3>1. Head(Stored) = seq - n + 1 /\ n = k + 1
      BY <1>5, <2>1
    <3>2. Stored[1] = seq - n + 1 /\ 1 \in DOMAIN Stored
      BY <1>1, <1>3, <3>1 DEF Queue
    <3>3. Stored[1] = mem[(rp + (1 - 1) * EntryLen) % Top].id
      BY <3>2 DEF Stored
    <3>4. rp < Top /\ (1 - 1) * EntryLen = 0
      BY <1>3, <2>1, OneFacts
    <3>5. (rp + (1 - 1) * EntryLen) % Top = rp
      BY <1>3, <3>4, AroundOnce
    <3>6. QED
      BY <1>11, <3>1, <3>2, <3>3, <3>5 DEF PullSingle
  <2>3. QED
    BY <1>5, <2>1, <2>2 DEF Fifo!Take
<1>12. CASE UNCHANGED <<mem, rp, wp, seq, got>>
  <2>1. Bytes' = Bytes
    BY <1>12 DEF Bytes
  <2>2. QED
    BY <1>6, <1>12, <2>1
<1>13. ASSUME NEW len \in Lens, Push(len)
       PROVE  [Fifo!Next]_(Fifo!fifoVars)
  BY <1>12, <1>13 DEF Push
<1>14. ASSUME GiveUp \/ \E s \in {"ACTIVE", "SUSPEND"} : Config(s)
       PROVE  [Fifo!Next]_(Fifo!fifoVars)
  BY <1>12, <1>14 DEF GiveUp, Config
<1>15. CASE UNCHANGED vars
  BY <1>12, <1>15 DEF vars
<1>16. QED
  BY <1>7, <1>9, <1>10, <1>11, <1>13, <1>14, <1>15 DEF Next, Fifo!Next

\* dhd_dbg_ring_push and dhd_dbg_ring_pull_single implement a queue: every
\* entry is read at most once, in the order of the pushes, and only the oldest
\* is ever discarded, from a ring that has room for one entry at most.
THEOREM RingIsFifo == OneLength => (Spec => IsFifo)
<1> SUFFICES ASSUME OneLength
             PROVE  Spec => IsFifo
  OBVIOUS
<1>1. TypeOK /\ RingInv /\ OneInv => StoredQueue
  BY StoredAsQueue
<1>2. Init /\ StoredQueue => Fifo!Init
  BY FifoStart
<1>3. /\ TypeOK /\ RingInv /\ OneInv
      /\ StoredQueue /\ StoredQueue'
      /\ [Next]_vars
      => [Fifo!Next]_(Fifo!fifoVars)
  BY FifoStep
<1>4. QED
  BY <1>1, <1>2, <1>3, OneAlways, PTL DEF Spec, IsFifo, Fifo!Spec

=============================================================================
