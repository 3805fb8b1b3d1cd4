--------------------------- MODULE FlowRingProofs ---------------------------
(***************************************************************************)
(* Proofs about FlowRing: no flow id is ever lost or in two places, and a  *)
(* ring that is open or listed is backed by a msgbuf ring.  The argument   *)
(* follows an id through its life: on the stack, with the sender that      *)
(* enters it, in a bucket while the ring is made, asked for, with the      *)
(* dongle, or being cleaned.                                               *)
(***************************************************************************)
EXTENDS FlowRing, FiniteSetTheorems, SequenceTheorems, WellFoundedInduction, TLAPS

Known == 1 .. max_flowid

Has(list, e) == At(list, e) /= {}
Distinct(list) == \A j, k \in DOMAIN list : list[j] = list[k] => j = k
AskedOnce(list) ==
  \A j, k \in DOMAIN list : list[j] = list[k] /\ list[j][1] = "CREATE" => j = k
InBucket(i) == \E p \in Peer : Has(fl_hash[p], i)
Entered(i) == InBucket(i) \/ i \in overwritten
Entering(s) == sender[s].at = "insert"
Making(s) == sender[s].at \in {"init", "create", "failed"}
Enters(s, i) == Entering(s) /\ sender[s].id = i
Maker(s, i) == Making(s) /\ sender[s].id = i
Ask(i) == <<"CREATE", i>>
Asked(i) == Has(ctrl, Ask(i))
Closing(i) == dpc.at = "closed" /\ dpc.id = i

Stages == {"idle", "found", "alloc", "insert", "init", "create", "failed",
           "txdata", "look", "push", "again"}
SenderState == [at : Stages, peer : Peer \cup {NoPeer}, id : Known \cup {0}, pend : BOOLEAN]

DeleterState == [at : {"idle", "scan", "request", "send"}, todo : SUBSET Id,
                 peers : SUBSET Peer, id : Id \cup {0}]
DpcState == [at : {"idle", "event", "ctrl", "opened", "closed", "rings"},
             id : Known \cup {0}, todo : Seq(Known), more : BOOLEAN]

Status == {"CLOSED", "CREATE_PENDING", "OPEN", "DELETE_PENDING"}

FlowTypes ==
  /\ max_flowid \in Id
  /\ overwritten \subseteq Known /\ (overwritten /= {} => role = "STA")
  /\ free_ids \in Seq(Known)
  /\ fl_hash \in [Peer -> Seq(Known)]
  /\ node \in [Id -> [status : Status, active : BOOLEAN, peer : Peer \cup {NoPeer}]]
  /\ inited \in [Id -> BOOLEAN]
  /\ active_list \in Seq(Known)
  /\ sender \in [Sender -> SenderState]
  /\ \A s \in Sender :
       /\ sender[s].at \in {"alloc", "insert", "init"} => sender[s].peer \in Peer
       /\ Entering(s) \/ Making(s) => sender[s].id \in Known
  /\ deleter \in [Deleter -> DeleterState]
  /\ \A d \in Deleter : deleter[d].at \in {"request", "send"} => deleter[d].id \in Id
  /\ ctrl \in Seq({"CREATE", "DELETE"} \X Id)
  /\ dev \subseteq Known
  /\ dpc \in DpcState
  /\ dpc.at \in {"opened", "closed"} => dpc.id \in Known
  /\ deleter["event"].at /= "idle" => dpc.at = "event"

\* Each id is on the stack, entered in the hash table, where it may have been
\* overwritten, or with a sender that enters it.
IdInOnePlace ==
  /\ Distinct(free_ids)
  /\ \A p \in Peer : Distinct(fl_hash[p])
  /\ \A p, q \in Peer, i \in Known : Has(fl_hash[p], i) /\ Has(fl_hash[q], i) => p = q
  /\ \A i \in overwritten : ~InBucket(i)
  /\ \A i \in Known : Has(free_ids, i) => ~Entered(i)
  /\ \A s, t \in Sender, i \in Known : Enters(s, i) /\ Enters(t, i) => s = t
  /\ \A s \in Sender, i \in Known : Enters(s, i) => ~Has(free_ids, i) /\ ~Entered(i)
  /\ \A i \in Known : Has(free_ids, i) \/ Entered(i) \/ \E s \in Sender : Enters(s, i)

\* An id that was entered is with at most one of: a sender that makes the ring, a
\* request for it, the dongle, and the DPC that cleans it.
LifeMaking ==
  /\ \A s \in Sender, i \in Known : Maker(s, i) =>
       Entered(i) /\ ~Asked(i) /\ i \notin dev /\ ~Closing(i)
  /\ \A s \in Sender, i \in Known :
       Maker(s, i) /\ sender[s].at = "create" => node[i].active
  /\ \A s, t \in Sender, i \in Known : Maker(s, i) /\ Maker(t, i) => s = t

LifeAsked ==
  /\ \A i \in Id : Asked(i) =>
       Entered(i) /\ inited[i] /\ node[i].active /\ i \notin dev /\ ~Closing(i)
  /\ AskedOnce(ctrl)

LifeOpen ==
  /\ \A i \in dev : Entered(i) /\ inited[i] /\ node[i].active /\ ~Closing(i)
  /\ \A i \in Id : Closing(i) => Entered(i) /\ inited[i]
  /\ \A i \in Id : Open(i) => i \in dev

LifeListed ==
  /\ Distinct(active_list)
  /\ \A i \in Known : Has(active_list, i) => i \in dev \/ Closing(i)
  /\ dpc.at = "opened" => dpc.id \in dev /\ ~Has(active_list, dpc.id)

RingLife == LifeMaking /\ LifeAsked /\ LifeOpen /\ LifeListed

FlowInv == FlowTypes /\ IdInOnePlace /\ RingLife

----------------------------------------------------------------------------
(* Lists: what the operators on them do to membership.                     *)

\* Lemma: a set of numbers that is not empty has a smallest member.
LEMMA MinIsMember ==
  ASSUME NEW T, T \subseteq Nat, T /= {}
  PROVE  Min(T) \in T
<1>1. PICK x \in T : \A y \in T : ~(<<y, x>> \in OpToRel(<, Nat))
  BY NatLessThanWellFounded, WFMin, Zenon
<1>2. \A y \in T : ~(y < x)
  BY <1>1, Zenon DEF OpToRel
<1>3. \A y \in T : x <= y
  BY <1>2
<1> QED BY <1>3 DEF Min

\* Lemma: what a member of a list is.
LEMMA HasIndex ==
  ASSUME NEW list, NEW e
  PROVE  Has(list, e) <=> \E k \in DOMAIN list : list[k] = e
BY DEF Has, At

LEMMA HasMember ==
  ASSUME NEW S, NEW list \in Seq(S), NEW e, Has(list, e)
  PROVE  e \in S
BY HasIndex

LEMMA EmptyList ==
  ASSUME NEW S
  PROVE  <<>> \in Seq(S) /\ Distinct(<<>>) /\ \A e : ~Has(<<>>, e)
<1>1. \A e : ~Has(<<>>, e)
  BY HasIndex
<1> QED BY <1>1 DEF Distinct

\* Lemma: Append adds its element, and nothing twice if it is new.
LEMMA AppendHas ==
  ASSUME NEW S, NEW list \in Seq(S), NEW e \in S
  PROVE  /\ Append(list, e) \in Seq(S)
         /\ \A x : Has(Append(list, e), x) <=> Has(list, x) \/ x = e
         /\ Distinct(list) /\ ~Has(list, e) => Distinct(Append(list, e))
<1> DEFINE n == Len(list)
           new == Append(list, e)
<1>1. /\ n \in Nat /\ DOMAIN list = 1 .. n /\ new \in Seq(S)
      /\ DOMAIN new = 1 .. n + 1
      /\ \A k \in 1 .. n : new[k] = list[k]
      /\ new[n + 1] = e
  BY AppendProperties
<1> HIDE DEF n, new
<1>2. ASSUME NEW x
      PROVE  Has(new, x) <=> Has(list, x) \/ x = e
  <2>1. CASE x = e
    <3>1. n + 1 \in DOMAIN new
      BY <1>1
    <3> QED BY <3>1, <1>1, <2>1, HasIndex
  <2>2. CASE x /= e
    <3>1. ASSUME Has(new, x) PROVE Has(list, x)
      <4>1. PICK k \in 1 .. n + 1 : new[k] = x
        BY <3>1, <1>1, HasIndex
      <4>2. k \in 1 .. n
        BY <4>1, <1>1, <2>2
      <4> QED BY <4>1, <4>2, <1>1, HasIndex
    <3>2. ASSUME Has(list, x) PROVE Has(new, x)
      <4>1. PICK k \in 1 .. n : list[k] = x
        BY <3>2, <1>1, HasIndex
      <4>2. k \in 1 .. n + 1
        BY <1>1
      <4> QED BY <4>1, <4>2, <1>1, HasIndex
    <3> QED BY <3>1, <3>2, <2>2
  <2> QED BY <2>1, <2>2
<1>3. ASSUME Distinct(list), ~Has(list, e)
      PROVE  Distinct(new)
  <2>1. \A k \in 1 .. n : list[k] /= e
    BY <1>1, <1>3, HasIndex
  <2> QED BY <2>1, <1>1, <1>3 DEF Distinct
<1> QED BY <1>1, <1>2, <1>3 DEF new

\* Lemma: the element put before a list, likewise.
LEMMA PrependHas ==
  ASSUME NEW S, NEW list \in Seq(S), NEW e \in S
  PROVE  /\ <<e>> \o list \in Seq(S)
         /\ \A x : Has(<<e>> \o list, x) <=> Has(list, x) \/ x = e
         /\ Distinct(list) /\ ~Has(list, e) => Distinct(<<e>> \o list)
<1> DEFINE n == Len(list)
           new == <<e>> \o list
<1>0. <<e>> \in Seq(S) /\ Len(<<e>>) = 1 /\ <<e>>[1] = e
  OBVIOUS
<1>1. /\ n \in Nat /\ DOMAIN list = 1 .. n /\ new \in Seq(S)
      /\ DOMAIN new = 1 .. n + 1
      /\ \A k \in 1 .. n + 1 : new[k] = IF k <= 1 THEN e ELSE list[k - 1]
  BY <1>0, ConcatProperties
<1> HIDE DEF n, new
<1>2. ASSUME NEW x
      PROVE  Has(new, x) <=> Has(list, x) \/ x = e
  <2>1. CASE x = e
    <3>1. 1 \in DOMAIN new /\ new[1] = e
      BY <1>1
    <3> QED BY <3>1, <2>1, HasIndex
  <2>2. CASE x /= e
    <3>1. ASSUME Has(new, x) PROVE Has(list, x)
      <4>1. PICK k \in 1 .. n + 1 : new[k] = x
        BY <3>1, <1>1, HasIndex
      <4>2. k - 1 \in 1 .. n /\ list[k - 1] = x
        BY <4>1, <1>1, <2>2
      <4> QED BY <4>2, <1>1, HasIndex
    <3>2. ASSUME Has(list, x) PROVE Has(new, x)
      <4>1. PICK k \in 1 .. n : list[k] = x
        BY <3>2, <1>1, HasIndex
      <4>2. k + 1 \in 1 .. n + 1 /\ new[k + 1] = x
        BY <1>1, <4>1
      <4> QED BY <4>2, <1>1, HasIndex
    <3> QED BY <3>1, <3>2, <2>2
  <2> QED BY <2>1, <2>2
<1>3. ASSUME Distinct(list), ~Has(list, e)
      PROVE  Distinct(new)
  <2>1. \A k \in 1 .. n : list[k] /= e
    BY <1>1, <1>3, HasIndex
  <2> SUFFICES ASSUME NEW j \in 1 .. n + 1, NEW k \in 1 .. n + 1, new[j] = new[k]
               PROVE  j = k
    BY <1>1 DEF Distinct
  <2>2. CASE j = 1 \/ k = 1
    <3>1. j > 1 => j - 1 \in 1 .. n /\ new[j] = list[j - 1]
      BY <1>1
    <3>2. k > 1 => k - 1 \in 1 .. n /\ new[k] = list[k - 1]
      BY <1>1
    <3> QED BY <2>1, <2>2, <3>1, <3>2, <1>1
  <2>3. CASE j > 1 /\ k > 1
    <3>1. /\ j - 1 \in 1 .. n /\ new[j] = list[j - 1]
          /\ k - 1 \in 1 .. n /\ new[k] = list[k - 1]
      BY <1>1, <2>3
    <3>2. j - 1 = k - 1
      BY <3>1, <1>3, <1>1 DEF Distinct
    <3> QED BY <3>2
  <2> QED BY <2>2, <2>3
<1> QED BY <1>1, <1>2, <1>3 DEF new

\* Lemma: the last element taken off a list without repetitions.
LEMMA FrontHas ==
  ASSUME NEW S, NEW list \in Seq(S), list /= <<>>, Distinct(list)
  PROVE  /\ Last(list) \in S /\ Has(list, Last(list))
         /\ Front(list) \in Seq(S) /\ Distinct(Front(list))
         /\ \A x : Has(Front(list), x) <=> Has(list, x) /\ x /= Last(list)
<1> DEFINE n == Len(list)
           new == Front(list)
<1>1. n \in Nat /\ n >= 1 /\ DOMAIN list = 1 .. n /\ \A k \in 1 .. n : list[k] \in S
  BY EmptySeq
<1>2. Last(list) = list[n] /\ n \in DOMAIN list
  BY <1>1 DEF Last
<1>3. new = SubSeq(list, 1, n - 1)
  BY DEF Front
<1>4. new \in Seq(S) /\ DOMAIN new = 1 .. n - 1 /\ \A k \in 1 .. n - 1 : new[k] = list[k]
  BY <1>1, <1>3, SubSeqProperties
<1> HIDE DEF n, new
<1>5. Distinct(new)
  BY <1>1, <1>4 DEF Distinct
<1>6. ASSUME NEW x
      PROVE  Has(new, x) <=> Has(list, x) /\ x /= list[n]
  <2>1. ASSUME Has(new, x) PROVE Has(list, x) /\ x /= list[n]
    <3>1. PICK k \in 1 .. n - 1 : new[k] = x
      BY <2>1, <1>4, HasIndex
    <3>2. k \in 1 .. n /\ k /= n /\ list[k] = x
      BY <3>1, <1>1, <1>4
    <3>3. x /= list[n]
      BY <3>2, <1>1, <1>2 DEF Distinct
    <3> QED BY <3>2, <3>3, <1>1, HasIndex
  <2>2. ASSUME Has(list, x), x /= list[n] PROVE Has(new, x)
    <3>1. PICK k \in 1 .. n : list[k] = x
      BY <2>2, <1>1, HasIndex
    <3>2. k \in 1 .. n - 1 /\ new[k] = x
      BY <3>1, <2>2, <1>1, <1>4
    <3> QED BY <3>2, <1>4, HasIndex
  <2> QED BY <2>1, <2>2
<1>7. Has(list, list[n])
  BY <1>2, HasIndex
<1> QED BY <1>1, <1>2, <1>4, <1>5, <1>6, <1>7 DEF new

\* Lemma: the head taken off a list of messages: the others stay, and a
\* message that was there once is gone with it.
LEMMA TailHas ==
  ASSUME NEW S, NEW list \in Seq(S), list /= <<>>
  PROVE  /\ Head(list) \in S /\ Has(list, Head(list))
         /\ Tail(list) \in Seq(S)
         /\ \A x : Has(Tail(list), x) => Has(list, x)
         /\ \A x : Has(list, x) /\ x /= Head(list) => Has(Tail(list), x)
         /\ Len(list) = Len(Tail(list)) + 1
         /\ \A k \in DOMAIN Tail(list) : k + 1 \in DOMAIN list /\ Tail(list)[k] = list[k + 1]
         /\ 1 \in DOMAIN list /\ Head(list) = list[1]
         /\ DOMAIN Tail(list) \subseteq Nat \ {0}
<1> DEFINE n == Len(list)
           new == Tail(list)
<1>1. n \in Nat /\ n >= 1 /\ DOMAIN list = 1 .. n /\ \A k \in 1 .. n : list[k] \in S
  BY EmptySeq
<1>2. Head(list) = list[1] /\ 1 \in DOMAIN list
  BY <1>1, HeadTailProperties
<1>3. /\ new \in Seq(S) /\ DOMAIN new = 1 .. n - 1 /\ Len(new) = n - 1
      /\ \A k \in 1 .. n - 1 : new[k] = list[k + 1]
  BY <1>1, HeadTailProperties
<1> HIDE DEF n, new
<1>4. ASSUME NEW x, Has(new, x) PROVE Has(list, x)
  <2>1. PICK k \in 1 .. n - 1 : new[k] = x
    BY <1>4, <1>3, HasIndex
  <2>2. k + 1 \in 1 .. n /\ list[k + 1] = x
    BY <2>1, <1>1, <1>3
  <2> QED BY <2>2, <1>1, HasIndex
<1>5. ASSUME NEW x, Has(list, x), x /= list[1] PROVE Has(new, x)
  <2>1. PICK k \in 1 .. n : list[k] = x
    BY <1>5, <1>1, HasIndex
  <2>2. k - 1 \in 1 .. n - 1 /\ new[k - 1] = x
    BY <2>1, <1>5, <1>1, <1>3
  <2> QED BY <2>2, <1>3, HasIndex
<1>6. Has(list, list[1])
  BY <1>2, HasIndex
<1>7. \A k \in 1 .. n - 1 : k + 1 \in 1 .. n
  BY <1>1
<1>8. n = Len(new) + 1 /\ 1 .. n - 1 \subseteq Nat \ {0}
  BY <1>1, <1>3
<1> QED BY <1>1, <1>2, <1>3, <1>4, <1>5, <1>6, <1>7, <1>8 DEF new, n

\* Lemma: Without takes an element out of a list without repetitions.
LEMMA WithoutHas ==
  ASSUME NEW S, NEW list \in Seq(S), NEW e, Distinct(list)
  PROVE  /\ Without(list, e) \in Seq(S) /\ Distinct(Without(list, e))
         /\ \A x : Has(Without(list, e), x) <=> Has(list, x) /\ x /= e
<1>1. CASE At(list, e) = {}
  <2>1. Without(list, e) = list /\ ~Has(list, e)
    BY <1>1 DEF Without, Has
  <2> QED BY <2>1
<1>2. CASE At(list, e) /= {}
  <2> DEFINE n == Len(list)
  <2>1. n \in Nat /\ DOMAIN list = 1 .. n /\ \A k \in 1 .. n : list[k] \in S
    OBVIOUS
  <2>2. PICK m \in 1 .. n : list[m] = e
    BY <1>2, <2>1 DEF At
  <2>3. At(list, e) = {m}
    BY <2>1, <2>2 DEF At, Distinct
  <2>4. Min({m}) = m
    BY <2>2 DEF Min
  <2> DEFINE left == SubSeq(list, 1, m - 1)
             right == SubSeq(list, m + 1, n)
             new == left \o right
  <2>5. Without(list, e) = new
    BY <1>2, <2>3, <2>4 DEF Without, RemoveAt
  <2>6. left \in Seq(S) /\ Len(left) = m - 1 /\ \A k \in 1 .. m - 1 : left[k] = list[k]
    BY <2>1, <2>2, SubSeqProperties
  <2>7. right \in Seq(S) /\ Len(right) = n - m
        /\ \A k \in 1 .. n - m : right[k] = list[m + k]
    <3>1. Len(right) = n - m
      <4>1. m + 1 \in Int /\ n \in Int /\ \A k \in m + 1 .. n : list[k] \in S
        BY <2>1, <2>2
      <4> HIDE DEF n
      <4>2. Len(right) = IF m + 1 <= n THEN n - (m + 1) + 1 ELSE 0
        BY <4>1, SubSeqProperties
      <4> QED BY <4>2, <2>1, <2>2
    <3>2. \A k \in 1 .. n - m : right[k] = list[m + k]
      <4> SUFFICES ASSUME NEW k \in 1 .. n - m PROVE right[k] = list[m + k]
        OBVIOUS
      <4>1. right[k] = list[(m + 1) + k - 1]
        BY <2>1, <2>2, SubSeqProperties
      <4>2. (m + 1) + k - 1 = m + k
        BY <2>1, <2>2
      <4> QED BY <4>1, <4>2
    <3>3. right \in Seq(S)
      BY <2>1, <2>2, SubSeqProperties
    <3> QED BY <3>1, <3>2, <3>3
  <2> HIDE DEF left, right
  <2>8. /\ new \in Seq(S) /\ DOMAIN new = 1 .. n - 1
        /\ \A k \in 1 .. n - 1 : new[k] = list[IF k < m THEN k ELSE k + 1]
    <3>1. /\ new \in Seq(S) /\ Len(new) = Len(left) + Len(right)
          /\ \A k \in 1 .. Len(left) + Len(right) :
               new[k] = IF k <= Len(left) THEN left[k] ELSE right[k - Len(left)]
      BY <2>6, <2>7, ConcatProperties
    <3>2. Len(left) + Len(right) = n - 1
      BY <2>1, <2>2, <2>6, <2>7
    <3>3. ASSUME NEW k \in 1 .. n - 1, k < m PROVE new[k] = list[k]
      BY <3>1, <3>2, <3>3, <2>1, <2>2, <2>6
    <3>4. ASSUME NEW k \in 1 .. n - 1, ~(k < m) PROVE new[k] = list[k + 1]
      <4>1. new[k] = right[k - (m - 1)]
        BY <3>1, <3>2, <3>4, <2>1, <2>2, <2>6
      <4>2. k - (m - 1) \in 1 .. n - m /\ m + (k - (m - 1)) = k + 1
        BY <3>4, <2>1, <2>2
      <4> QED BY <4>1, <4>2, <2>7
    <3>5. DOMAIN new = 1 .. n - 1
      BY <3>1, <3>2
    <3> QED BY <3>1, <3>3, <3>4, <3>5
  <2> HIDE DEF new, n
  <2>9. Distinct(new)
    <3> SUFFICES ASSUME NEW j \in 1 .. n - 1, NEW k \in 1 .. n - 1, new[j] = new[k]
                 PROVE  j = k
      BY <2>8 DEF Distinct
    <3> DEFINE old(q) == IF q < m THEN q ELSE q + 1
    <3>1. old(j) \in 1 .. n /\ old(k) \in 1 .. n
      BY <2>1, <2>2
    <3>2. list[old(j)] = list[old(k)]
      BY <2>8
    <3>3. old(j) = old(k)
      BY <3>1, <3>2, <2>1 DEF Distinct
    <3> QED BY <3>3, <2>1, <2>2
  <2>10. ASSUME NEW x, Has(new, x) PROVE Has(list, x) /\ x /= e
    <3>1. PICK k \in 1 .. n - 1 : new[k] = x
      BY <2>10, <2>8, HasIndex
    <3> DEFINE j == IF k < m THEN k ELSE k + 1
    <3>2. j \in 1 .. n /\ j /= m /\ list[j] = x
      BY <3>1, <2>1, <2>2, <2>8
    <3>3. x /= e
      BY <3>2, <2>1, <2>2 DEF Distinct
    <3> QED BY <3>2, <3>3, <2>1, HasIndex
  <2>11. ASSUME NEW x, Has(list, x), x /= e PROVE Has(new, x)
    <3>1. PICK j \in 1 .. n : list[j] = x
      BY <2>11, <2>1, HasIndex
    <3> DEFINE k == IF j < m THEN j ELSE j - 1
    <3>2. j /= m
      BY <3>1, <2>2, <2>11
    <3>3. k \in 1 .. n - 1 /\ (IF k < m THEN k ELSE k + 1) = j
      BY <3>2, <2>1, <2>2
    <3>4. new[k] = x
      BY <3>1, <3>3, <2>8
    <3> QED BY <3>3, <3>4, <2>8, HasIndex
  <2> QED BY <2>5, <2>8, <2>9, <2>10, <2>11
<1> QED BY <1>1, <1>2

\* Lemma: a message put behind the others, and the first one taken.
LEMMA AskedOnceAppend ==
  ASSUME NEW S, NEW list \in Seq(S), NEW e \in S, AskedOnce(list),
         e[1] = "CREATE" => ~Has(list, e)
  PROVE  AskedOnce(Append(list, e))
<1> DEFINE n == Len(list)
           new == Append(list, e)
<1>1. /\ n \in Nat /\ DOMAIN list = 1 .. n /\ DOMAIN new = 1 .. n + 1
      /\ \A k \in 1 .. n : new[k] = list[k]
      /\ new[n + 1] = e
  BY AppendProperties
<1> HIDE DEF n, new
<1>2. e[1] = "CREATE" => \A k \in 1 .. n : list[k] /= e
  BY <1>1, HasIndex
<1> QED BY <1>1, <1>2 DEF AskedOnce, new

LEMMA AskedOnceTail ==
  ASSUME NEW S, NEW list \in Seq(S), list /= <<>>, AskedOnce(list)
  PROVE  /\ AskedOnce(Tail(list))
         /\ Head(list)[1] = "CREATE" => ~Has(Tail(list), Head(list))
<1> DEFINE new == Tail(list)
<1>1. /\ \A k \in DOMAIN new : k + 1 \in DOMAIN list /\ new[k] = list[k + 1]
      /\ 1 \in DOMAIN list /\ Head(list) = list[1]
      /\ DOMAIN new \subseteq Nat \ {0}
  BY TailHas
<1> HIDE DEF new
<1>2. AskedOnce(new)
  <2> SUFFICES ASSUME NEW j \in DOMAIN new, NEW k \in DOMAIN new,
                      new[j] = new[k], new[j][1] = "CREATE"
               PROVE  j = k
    BY DEF AskedOnce
  <2>1. j + 1 = k + 1
    BY <1>1 DEF AskedOnce
  <2> QED BY <2>1, <1>1
<1>3. ASSUME Head(list)[1] = "CREATE", Has(new, Head(list))
      PROVE  FALSE
  <2>1. PICK k \in DOMAIN new : new[k] = Head(list)
    BY <1>3, HasIndex
  <2>2. k + 1 = 1
    BY <1>1, <1>3, <2>1 DEF AskedOnce
  <2> QED BY <2>1, <2>2, <1>1
<1> QED BY <1>2, <1>3 DEF new

----------------------------------------------------------------------------
(* The initial state.                                                      *)

\* Lemma: every id is on the stack, and no ring has begun its life.
LEMMA FlowInitInv == FlowInit => FlowInv
<1> SUFFICES ASSUME FlowInit PROVE FlowInv
  OBVIOUS
<1> USE DEF FlowInit
<1>0. max_flowid \in Nat /\ Known \subseteq Id
  BY FlowAssumption DEF Id, Known
<1>1. free_ids \in Seq(Known) /\ Distinct(free_ids) /\ \A i \in Known : Has(free_ids, i)
  <2>1. free_ids \in [1 .. max_flowid -> Known]
    BY DEF Known
  <2>2. free_ids \in Seq(Known)
    BY <2>1, <1>0
  <2>3. Distinct(free_ids)
    BY DEF Distinct
  <2>4. ASSUME NEW i \in Known PROVE Has(free_ids, i)
    BY HasIndex DEF Known
  <2> QED BY <2>2, <2>3, <2>4
<1>2. <<>> \in Seq(Known) /\ Distinct(<<>>) /\ \A e : ~Has(<<>>, e)
  BY EmptyList
<1>3. FlowTypes
  <2>1. ctrl \in Seq({"CREATE", "DELETE"} \X Id)
    OBVIOUS
  <2>2. sender \in [Sender -> SenderState]
    BY DEF AtRest, SenderState, Stages
  <2>3. \A s \in Sender : sender[s].at = "idle"
    BY DEF AtRest
  <2>4. node \in [Id -> [status : Status, active : BOOLEAN, peer : Peer \cup {NoPeer}]]
    BY DEF Status
  <2>5. /\ deleter \in [Deleter -> DeleterState] /\ "event" \in Deleter
        /\ \A d \in Deleter : deleter[d].at = "idle"
    BY DEF DeleterState, Deleter
  <2>6. dpc \in DpcState /\ dpc.at = "idle"
    BY <1>2 DEF DpcState
  <2>7. deleter["event"].at = "idle" /\ \A d \in Deleter : deleter[d].at \notin {"request", "send"}
    BY <2>5
  <2>8. \A s \in Sender : ~Entering(s) /\ ~Making(s)
    BY <2>3 DEF Entering, Making
  <2> QED BY <1>0, <1>1, <1>2, <2>1, <2>2, <2>3, <2>4, <2>5, <2>6, <2>7, <2>8 DEF FlowTypes
<1>4. IdInOnePlace
  BY <1>1, <1>2 DEF IdInOnePlace, Entered, InBucket, Enters, Entering, AtRest
<1>5. RingLife
  <2>1. \A i : ~Asked(i) /\ ~Closing(i)
    BY <1>2 DEF Asked, Closing
  <2>2. \A i \in Id : ~Open(i)
    BY DEF Open
  <2>3. AskedOnce(ctrl)
    BY DEF AskedOnce
  <2> QED BY <1>2, <2>1, <2>2, <2>3 DEF RingLife, LifeMaking, LifeAsked, LifeOpen, LifeListed, Maker, Making, AtRest
<1> QED BY <1>3, <1>4, <1>5 DEF FlowInv

----------------------------------------------------------------------------
(* The senders.                                                            *)

Elsewhere == {"idle", "found", "alloc", "txdata", "look", "push", "again"}

\* Lemma: only the ids that the dongle has room for are ever in a bucket.
LEMMA BucketKnown ==
  ASSUME FlowTypes
  PROVE  /\ \A i : Entered(i) => i \in Known
         /\ Known \subseteq Id
<1>1. ASSUME NEW i, Entered(i) PROVE i \in Known
  <2>1. CASE InBucket(i)
    <3>1. PICK p \in Peer : Has(fl_hash[p], i)
      BY <2>1 DEF InBucket
    <3>2. fl_hash[p] \in Seq(Known)
      BY DEF FlowTypes
    <3> QED BY <3>1, <3>2, HasMember
  <2>2. CASE i \in overwritten
    BY <2>2 DEF FlowTypes
  <2> QED BY <1>1, <2>1, <2>2 DEF Entered
<1>2. Known \subseteq Id
  BY FlowAssumption DEF FlowTypes, Known, Id
<1> QED BY <1>1, <1>2

\* Lemma: a sender moves on, with another id or with its own.
LEMMA SenderMovesWith ==
  ASSUME FlowTypes, NEW s \in Sender, NEW a \in Stages, NEW j \in Known \cup {0},
         sender' = [sender EXCEPT ![s].at = a, ![s].id = j]
  PROVE  /\ sender'[s].at = a /\ sender'[s].id = j /\ sender'[s].peer = sender[s].peer
         /\ \A t \in Sender : t /= s => sender'[t] = sender[t]
         /\ sender' \in [Sender -> SenderState]
<1> DEFINE r == [sender[s] EXCEPT !.at = a, !.id = j]
<1>1. sender[s] \in SenderState /\ sender \in [Sender -> SenderState]
  BY DEF FlowTypes
<1>2. r \in SenderState /\ r.at = a /\ r.id = j /\ r.peer = sender[s].peer
  BY <1>1 DEF SenderState
<1>3. sender' = [sender EXCEPT ![s] = r]
  OBVIOUS
<1> HIDE DEF r
<1> QED BY <1>1, <1>2, <1>3

LEMMA SenderMoves ==
  ASSUME FlowTypes, NEW s \in Sender, NEW a \in Stages, SenderTo(s, a)
  PROVE  /\ sender'[s].at = a /\ sender'[s].id = sender[s].id
         /\ sender'[s].peer = sender[s].peer
         /\ \A t \in Sender : t /= s => sender'[t] = sender[t]
         /\ sender' \in [Sender -> SenderState]
<1> DEFINE r == [sender[s] EXCEPT !.at = a]
<1>1. sender[s] \in SenderState /\ sender \in [Sender -> SenderState]
  BY DEF FlowTypes
<1>2. r \in SenderState /\ r.at = a /\ r.id = sender[s].id /\ r.peer = sender[s].peer
  BY <1>1 DEF SenderState
<1>3. sender' = [sender EXCEPT ![s] = r]
  BY DEF SenderTo
<1> HIDE DEF r
<1> QED BY <1>1, <1>2, <1>3

LEMMA SenderRests ==
  ASSUME FlowTypes, NEW s \in Sender, SenderDone(s)
  PROVE  /\ sender'[s].at = "idle"
         /\ \A t \in Sender : t /= s => sender'[t] = sender[t]
         /\ sender' \in [Sender -> SenderState]
<1>1. AtRest \in SenderState /\ AtRest.at = "idle"
  BY DEF AtRest, SenderState, Stages
<1> QED BY <1>1 DEF FlowTypes, SenderDone

\* Lemma: what a sender does outside the making of a ring leaves the rings
\* and the ids alone.
LEMMA SenderQuiet ==
  ASSUME FlowInv, NEW s \in Sender,
         ~Entering(s), ~Making(s),
         sender'[s].at \in Elsewhere,
         sender'[s].at = "alloc" => sender'[s].peer \in Peer,
         \A t \in Sender : t /= s => sender'[t] = sender[t],
         sender' \in [Sender -> SenderState],
         UNCHANGED <<idVars, node, inited, active_list, max_flowid, role, deleter, ctrl, dev, dpc>>
  PROVE  FlowInv'
<1> USE DEF idVars
<1>0. Known' = Known
  BY DEF Known
<1>1. \A t \in Sender : /\ Entering(t)' <=> Entering(t)
                        /\ Making(t)' <=> Making(t)
                        /\ Entering(t) \/ Making(t) => sender'[t] = sender[t]
                        /\ \A i : (Enters(t, i)' <=> Enters(t, i)) /\ (Maker(t, i)' <=> Maker(t, i))
  <2>1. \A t \in Sender : /\ Entering(t)' <=> Entering(t)
                          /\ Making(t)' <=> Making(t)
                          /\ Entering(t) \/ Making(t) => sender'[t] = sender[t]
    BY DEF Entering, Making, Elsewhere
  <2> QED BY <2>1 DEF Enters, Maker
<1>2. \A i : /\ Entered(i)' <=> Entered(i)
             /\ InBucket(i)' <=> InBucket(i)
             /\ Asked(i)' <=> Asked(i)
             /\ Closing(i)' <=> Closing(i)
             /\ Open(i)' <=> Open(i)
  BY DEF Entered, InBucket, Asked, Closing, Open
<1>3. FlowTypes'
  <2>1. \A t \in Sender :
          /\ sender'[t].at \in {"alloc", "insert", "init"} => sender'[t].peer \in Peer
          /\ Entering(t)' \/ Making(t)' => sender'[t].id \in Known
    BY <1>1 DEF FlowInv, FlowTypes, Elsewhere
  <2> QED BY <1>0, <2>1 DEF FlowInv, FlowTypes, SenderState, DpcState
<1>4. IdInOnePlace'
  BY <1>0, <1>1, <1>2 DEF FlowInv, IdInOnePlace
<1>5. RingLife'
  <2>1. LifeMaking'
    <3>1. \A t \in Sender : Making(t) => sender'[t] = sender[t]
      BY <1>1
    <3>2. \A t \in Sender, i \in Known : Maker(t, i)' /\ sender'[t].at = "create" => node'[i].active
      BY <1>1, <3>1 DEF FlowInv, RingLife, LifeMaking, Maker
    <3> QED BY <1>0, <1>1, <1>2, <3>2 DEF FlowInv, RingLife, LifeMaking
  <2>2. LifeAsked' /\ LifeOpen' /\ LifeListed'
    BY <1>0, <1>2 DEF FlowInv, RingLife, LifeAsked, LifeOpen, LifeListed
  <2> QED BY <2>1, <2>2 DEF RingLife
<1> QED BY <1>3, <1>4, <1>5 DEF FlowInv

\* Lemma: the steps of a sender that neither make a ring nor enter an id.
LEMMA QuietSteps ==
  ASSUME FlowInv, NEW s \in Sender,
         \/ \E p \in Peer : FindFlow(s, p)
         \/ AllocId(s) /\ free_ids = <<>>
         \/ LookupStatus(s) \/ TxData(s) \/ LookStatus(s) \/ PushQueue(s) \/ QueueAgain(s)
  PROVE  FlowInv'
<1> USE DEF ringVars, idVars, ctrlVars, dpcVars, setupVars, boundVars
<1>0. sender \in [Sender -> SenderState] /\ AtRest \in SenderState
  BY DEF FlowInv, FlowTypes, AtRest, SenderState, Stages
<1>1. CASE \E p \in Peer : FindFlow(s, p)
  <2>1. PICK p \in Peer : FindFlow(s, p)
    BY <1>1
  <2>2. fl_hash[p] /= <<>> => Head(fl_hash[p]) \in Known
    BY HeadTailProperties DEF FlowInv, FlowTypes
  <2>3. PICK r \in SenderState :
          /\ sender' = [sender EXCEPT ![s] = r]
          /\ r.at \in {"found", "alloc", "idle"}
          /\ r.at = "alloc" => r.peer \in Peer
    <3>1. CASE fl_hash[p] /= <<>>
      <4> DEFINE r == [AtRest EXCEPT !.at = "found", !.peer = p, !.id = Head(fl_hash[p])]
      <4>1. sender' = [sender EXCEPT ![s] = r]
        BY <3>1, <2>1 DEF FindFlow
      <4>2. r \in SenderState /\ r.at = "found"
        BY <3>1, <2>2 DEF AtRest, SenderState, Stages
      <4> QED BY <4>1, <4>2
    <3>2. CASE fl_hash[p] = <<>> /\ station[p] = "associated"
      <4> DEFINE r == [AtRest EXCEPT !.at = "alloc", !.peer = p]
      <4>1. sender' = [sender EXCEPT ![s] = r]
        BY <3>2, <2>1 DEF FindFlow
      <4>2. r \in SenderState /\ r.at = "alloc" /\ r.peer \in Peer
        BY DEF AtRest, SenderState, Stages
      <4> QED BY <4>1, <4>2
    <3>3. CASE fl_hash[p] = <<>> /\ station[p] /= "associated"
      BY <3>3, <2>1, <1>0 DEF FindFlow, AtRest
    <3> QED BY <3>1, <3>2, <3>3
  <2>4. sender' \in [Sender -> SenderState]
    BY <2>3, <1>0
  <2>5. /\ sender'[s].at \in Elsewhere
        /\ sender'[s].at = "alloc" => sender'[s].peer \in Peer
        /\ \A t \in Sender : t /= s => sender'[t] = sender[t]
        /\ ~Entering(s) /\ ~Making(s)
    BY <2>1, <2>3, <1>0 DEF Elsewhere, FindFlow, Entering, Making
  <2> QED BY <2>1, <2>4, <2>5, SenderQuiet DEF FindFlow
<1>2. CASE \/ AllocId(s) /\ free_ids = <<>>
           \/ LookupStatus(s) \/ TxData(s) \/ LookStatus(s) \/ PushQueue(s) \/ QueueAgain(s)
  <2>1. /\ ~Entering(s) /\ ~Making(s)
        /\ UNCHANGED <<idVars, node, inited, active_list, max_flowid, role, deleter, ctrl, dev, dpc>>
    BY <1>2 DEF AllocId, LookupStatus, TxData, LookStatus, PushQueue, QueueAgain, Entering,
                Making, Push
  <2>2. /\ sender'[s].at \in Elsewhere /\ sender'[s].at /= "alloc"
        /\ \A t \in Sender : t /= s => sender'[t] = sender[t]
        /\ sender' \in [Sender -> SenderState]
    <3>1. CASE SenderDone(s)
      BY <3>1, SenderRests DEF FlowInv, Elsewhere
    <3>2. CASE SenderTo(s, "txdata") \/ SenderTo(s, "push") \/ SenderTo(s, "again")
      <4>1. PICK a \in Stages : SenderTo(s, a) /\ a \in Elsewhere \ {"alloc"}
        BY <3>2 DEF Stages, Elsewhere
      <4> QED BY <4>1, SenderMoves DEF FlowInv
    <3>3. CASE \E b \in BOOLEAN : sender' = [sender EXCEPT ![s].at = "look", ![s].pend = b]
      <4>1. PICK b \in BOOLEAN : sender' = [sender EXCEPT ![s].at = "look", ![s].pend = b]
        BY <3>3
      <4> DEFINE r == [sender[s] EXCEPT !.at = "look", !.pend = b]
      <4>2. r \in SenderState /\ r.at = "look"
        BY <1>0 DEF SenderState, Stages
      <4>3. sender' = [sender EXCEPT ![s] = r]
        BY <4>1
      <4> HIDE DEF r
      <4> QED BY <1>0, <4>2, <4>3 DEF Elsewhere
    <3>4. TxData(s) => SenderDone(s)
            \/ \E b \in BOOLEAN : sender' = [sender EXCEPT ![s].at = "look", ![s].pend = b]
      <4> DEFINE full == qlen[sender[s].id] >= QUEUE
      <4>1. full \in BOOLEAN
        OBVIOUS
      <4>2. TxData(s) => SenderDone(s) \/ sender' = [sender EXCEPT ![s].at = "look", ![s].pend = full]
        BY Zenon DEF TxData
      <4> QED BY <4>1, <4>2, Zenon
    <3> QED
      BY <1>2, <3>1, <3>2, <3>3, <3>4 DEF AllocId, LookupStatus, LookStatus, PushQueue, QueueAgain
  <2> QED BY <2>1, <2>2, SenderQuiet
<1> QED BY <1>1, <1>2

\* Lemma: an id taken from the stack is with the sender alone.
LEMMA AllocStep ==
  ASSUME FlowInv, NEW s \in Sender, AllocId(s), free_ids /= <<>>
  PROVE  FlowInv'
<1> DEFINE i == Last(free_ids)
<1> USE DEF ringVars, idVars, ctrlVars, dpcVars, setupVars, boundVars
<1>0. /\ sender[s].at = "alloc"
      /\ sender' = [sender EXCEPT ![s].at = "insert", ![s].id = i]
      /\ free_ids' = Front(free_ids)
      /\ UNCHANGED <<fl_hash, overwritten, node, inited, active_list, max_flowid, role, deleter, ctrl, dev, dpc>>
      /\ Known' = Known
  BY DEF AllocId, Known
<1>1. /\ i \in Known /\ Has(free_ids, i)
      /\ free_ids' \in Seq(Known) /\ Distinct(free_ids')
      /\ \A x : Has(free_ids', x) <=> Has(free_ids, x) /\ x /= i
  BY <1>0, FrontHas DEF FlowInv, FlowTypes, IdInOnePlace
<1>2. /\ sender'[s].at = "insert" /\ sender'[s].id = i /\ sender'[s].peer = sender[s].peer
      /\ \A t \in Sender : t /= s => sender'[t] = sender[t]
      /\ sender' \in [Sender -> SenderState]
  <2>1. "insert" \in Stages /\ i \in Known \cup {0}
    BY <1>1 DEF Stages
  <2> QED BY <1>0, <2>1, SenderMovesWith DEF FlowInv
<1> HIDE DEF i
<1>3. \A t \in Sender :
        /\ Entering(t)' <=> Entering(t) \/ t = s
        /\ Making(t)' <=> Making(t)
        /\ \A x \in Known : Enters(t, x)' <=> Enters(t, x) \/ (t = s /\ x = i)
        /\ \A x \in Known : Maker(t, x)' <=> Maker(t, x)
        /\ Making(t) => t /= s
  <2>1. \A t \in Sender : /\ Entering(t)' <=> Entering(t) \/ t = s
                          /\ Making(t)' <=> Making(t)
                          /\ Making(t) => t /= s
                          /\ Entering(t) => t /= s
    BY <1>0, <1>2 DEF Entering, Making
  <2>2. \A t \in Sender, x \in Known : Enters(t, x)' <=> Enters(t, x) \/ (t = s /\ x = i)
    BY <2>1, <1>2 DEF Enters
  <2>3. \A t \in Sender, x \in Known : Maker(t, x)' <=> Maker(t, x)
    BY <2>1, <1>2 DEF Maker
  <2> QED BY <2>1, <2>2, <2>3
<1>4. \A x : /\ Entered(x)' <=> Entered(x)
             /\ InBucket(x)' <=> InBucket(x)
             /\ Asked(x)' <=> Asked(x)
             /\ Closing(x)' <=> Closing(x)
             /\ Open(x)' <=> Open(x)
  BY <1>0 DEF Entered, InBucket, Asked, Closing, Open
<1>5. FlowTypes'
  <2>1. \A t \in Sender :
          /\ sender'[t].at \in {"alloc", "insert", "init"} => sender'[t].peer \in Peer
          /\ Entering(t)' \/ Making(t)' => sender'[t].id \in Known
    BY <1>0, <1>1, <1>2, <1>3 DEF FlowInv, FlowTypes, Making
  <2> QED BY <1>0, <1>1, <1>2, <2>1 DEF FlowInv, FlowTypes, SenderState, DpcState
<1>6. IdInOnePlace'
  <2>1. \A t \in Sender : ~Enters(t, i)
    BY <1>1 DEF FlowInv, IdInOnePlace
  <2>2. \A t, u \in Sender, x \in Known : Enters(t, x)' /\ Enters(u, x)' => t = u
    BY <2>1, <1>3 DEF FlowInv, IdInOnePlace
  <2>3. \A t \in Sender, x \in Known : Enters(t, x)' => ~Has(free_ids', x) /\ ~Entered(x)
    BY <1>1, <1>3 DEF FlowInv, IdInOnePlace
  <2>4. \A x \in Known : Has(free_ids', x) => ~Entered(x)
    BY <1>1 DEF FlowInv, IdInOnePlace
  <2>5. \A x \in Known : Has(free_ids', x) \/ Entered(x) \/ \E t \in Sender : Enters(t, x)'
    BY <1>1, <1>3 DEF FlowInv, IdInOnePlace
  <2>6. /\ \A p \in Peer : Distinct(fl_hash[p])
        /\ \A p, q \in Peer, x \in Known : Has(fl_hash[p], x) /\ Has(fl_hash[q], x) => p = q
        /\ \A x \in overwritten : ~InBucket(x)
    BY DEF FlowInv, IdInOnePlace
  <2> QED BY <1>0, <1>1, <1>4, <2>2, <2>3, <2>4, <2>5, <2>6 DEF IdInOnePlace
<1>7. RingLife'
  <2>1. LifeMaking'
    <3>1. \A t \in Sender, x \in Known : Maker(t, x)' /\ sender'[t].at = "create" => node'[x].active
      BY <1>0, <1>2, <1>3 DEF FlowInv, RingLife, LifeMaking
    <3> QED BY <1>0, <1>3, <1>4, <3>1 DEF FlowInv, RingLife, LifeMaking
  <2>2. LifeAsked' /\ LifeOpen' /\ LifeListed'
    BY <1>0, <1>4 DEF FlowInv, RingLife, LifeAsked, LifeOpen, LifeListed
  <2> QED BY <2>1, <2>2 DEF RingLife
<1> QED BY <1>5, <1>6, <1>7 DEF FlowInv

\* Lemma: an id is entered: from a sender into one bucket, whose ids it may overwrite.
LEMMA InsertStep ==
  ASSUME FlowInv, NEW s \in Sender, InsertId(s)
  PROVE  FlowInv'
<1> DEFINE i == sender[s].id
           p == sender[s].peer
<1> USE DEF ringVars, ctrlVars, dpcVars, setupVars, boundVars
<1>0. /\ sender[s].at = "insert" /\ SenderTo(s, "init")
      /\ \/ /\ fl_hash' = [fl_hash EXCEPT ![p] = Append(@, i)]
            /\ overwritten' = overwritten
         \/ /\ role = "STA" /\ fl_hash' = [fl_hash EXCEPT ![p] = <<i>>]
            /\ overwritten' = overwritten \cup ToSet(fl_hash[p])
      /\ UNCHANGED <<free_ids, node, inited, active_list, max_flowid, role, deleter, ctrl, dev, dpc>>
      /\ Known' = Known
      /\ p \in Peer /\ i \in Known /\ Enters(s, i)
  BY DEF InsertId, Known, FlowInv, FlowTypes, Entering, Enters
<1>1. /\ ~Has(free_ids, i) /\ ~Entered(i) /\ ~InBucket(i) /\ i \notin overwritten
      /\ fl_hash \in [Peer -> Seq(Known)] /\ Distinct(fl_hash[p]) /\ ~Has(fl_hash[p], i)
  BY <1>0 DEF FlowInv, FlowTypes, IdInOnePlace, Entered, InBucket
<1>2. /\ sender'[s].at = "init" /\ sender'[s].id = i /\ sender'[s].peer = p
      /\ \A t \in Sender : t /= s => sender'[t] = sender[t]
      /\ sender' \in [Sender -> SenderState]
  <2>1. "init" \in Stages
    BY DEF Stages
  <2> QED BY <1>0, <2>1, SenderMoves DEF FlowInv
<1> HIDE DEF i, p
<1>3. /\ fl_hash' \in [Peer -> Seq(Known)]
      /\ \A q \in Peer : Distinct(fl_hash'[q])
      /\ Has(fl_hash'[p], i)
      /\ \A q \in Peer : \A x : Has(fl_hash'[q], x) => Has(fl_hash[q], x) \/ (q = p /\ x = i)
      /\ \A q \in Peer : \A x : Has(fl_hash[q], x) => Has(fl_hash'[q], x) \/ (q = p /\ x \in overwritten')
      /\ \A x : x \in overwritten' => x \in overwritten \/ (Has(fl_hash[p], x) /\ ~Has(fl_hash'[p], x))
      /\ overwritten \subseteq overwritten' /\ overwritten' \subseteq Known
      /\ overwritten' /= {} => role = "STA"
  <2>0. /\ fl_hash[p] \in Seq(Known) /\ \A q \in Peer : q /= p => fl_hash'[q] = fl_hash[q]
        /\ \A q \in Peer : Distinct(fl_hash[q])
        /\ overwritten \subseteq Known /\ (overwritten /= {} => role = "STA")
    BY <1>0, <1>1 DEF FlowInv, FlowTypes, IdInOnePlace
  <2>1. CASE fl_hash' = [fl_hash EXCEPT ![p] = Append(@, i)] /\ overwritten' = overwritten
    <3>1. fl_hash'[p] = Append(fl_hash[p], i)
      BY <1>0, <1>1, <2>1
    <3>2. /\ fl_hash'[p] \in Seq(Known) /\ Distinct(fl_hash'[p])
          /\ \A x : Has(fl_hash'[p], x) <=> Has(fl_hash[p], x) \/ x = i
      BY <1>0, <1>1, <2>0, <3>1, AppendHas
    <3> QED BY <1>0, <1>1, <2>0, <2>1, <3>2
  <2>2. CASE /\ role = "STA" /\ fl_hash' = [fl_hash EXCEPT ![p] = <<i>>]
             /\ overwritten' = overwritten \cup ToSet(fl_hash[p])
    <3>1. fl_hash'[p] = <<i>> /\ <<i>> \in Seq(Known) /\ DOMAIN <<i>> = {1} /\ <<i>>[1] = i
      BY <1>0, <1>1, <2>2
    <3>2. Distinct(<<i>>) /\ \A x : Has(<<i>>, x) <=> x = i
      BY <3>1, HasIndex DEF Distinct
    <3>3. \A x : x \in ToSet(fl_hash[p]) <=> Has(fl_hash[p], x)
      BY HasIndex DEF ToSet
    <3>4. \A x : Has(fl_hash[p], x) => x \in Known /\ x /= i
      BY <1>1, <2>0, HasMember
    <3>5. /\ fl_hash' \in [Peer -> Seq(Known)] /\ \A q \in Peer : Distinct(fl_hash'[q])
          /\ Has(fl_hash'[p], i)
      BY <1>0, <1>1, <2>0, <2>2, <3>1, <3>2
    <3>6. /\ \A q \in Peer : \A x : Has(fl_hash'[q], x) => Has(fl_hash[q], x) \/ (q = p /\ x = i)
          /\ \A q \in Peer : \A x : Has(fl_hash[q], x) => Has(fl_hash'[q], x) \/ (q = p /\ x \in overwritten')
      BY <2>0, <2>2, <3>1, <3>2, <3>3
    <3>7. /\ \A x : x \in overwritten' => x \in overwritten \/ (Has(fl_hash[p], x) /\ ~Has(fl_hash'[p], x))
          /\ overwritten \subseteq overwritten' /\ overwritten' \subseteq Known
      BY <2>0, <2>2, <3>1, <3>2, <3>3, <3>4
    <3> QED BY <2>2, <3>5, <3>6, <3>7
  <2> QED BY <1>0, <2>1, <2>2
<1>4. \A t \in Sender :
        /\ Entering(t)' <=> Entering(t) /\ t /= s
        /\ Making(t)' <=> Making(t) \/ t = s
        /\ \A x \in Known : Enters(t, x)' <=> Enters(t, x) /\ t /= s
        /\ \A x \in Known : Maker(t, x)' <=> Maker(t, x) \/ (t = s /\ x = i)
  <2>1. \A t \in Sender : /\ Entering(t)' <=> Entering(t) /\ t /= s
                          /\ Making(t)' <=> Making(t) \/ t = s
                          /\ Making(t) => t /= s
    BY <1>0, <1>2 DEF Entering, Making
  <2>2. \A t \in Sender, x \in Known : Enters(t, x)' <=> Enters(t, x) /\ t /= s
    BY <2>1, <1>2 DEF Enters
  <2>3. \A t \in Sender, x \in Known : Maker(t, x)' <=> Maker(t, x) \/ (t = s /\ x = i)
    BY <2>1, <1>2 DEF Maker
  <2> QED BY <2>1, <2>2, <2>3
<1>5. /\ \A x \in Known : Entered(x)' <=> Entered(x) \/ x = i
      /\ \A x : /\ Asked(x)' <=> Asked(x)
                /\ Closing(x)' <=> Closing(x)
                /\ Open(x)' <=> Open(x)
  <2>1. \A x : Entered(x)' => Entered(x) \/ x = i
    BY <1>0, <1>3 DEF Entered, InBucket
  <2>2. \A x : Entered(x) \/ x = i => Entered(x)'
    BY <1>0, <1>3 DEF Entered, InBucket
  <2> QED BY <1>0, <2>1, <2>2 DEF Asked, Closing, Open
<1>6. FlowTypes'
  <2>1. \A t \in Sender :
          /\ sender'[t].at \in {"alloc", "insert", "init"} => sender'[t].peer \in Peer
          /\ Entering(t)' \/ Making(t)' => sender'[t].id \in Known
    BY <1>0, <1>2, <1>4 DEF FlowInv, FlowTypes
  <2> QED BY <1>0, <1>2, <1>3, <2>1 DEF FlowInv, FlowTypes, SenderState, DpcState
<1>7. IdInOnePlace'
  <2>1. \A q, r \in Peer, x \in Known : Has(fl_hash'[q], x) /\ Has(fl_hash'[r], x) => q = r
    <3>1. \A q \in Peer : ~Has(fl_hash[q], i)
      BY <1>1 DEF InBucket
    <3> QED BY <1>3, <3>1 DEF FlowInv, IdInOnePlace
  <2>0. \A x \in overwritten' : ~InBucket(x)'
    <3> SUFFICES ASSUME NEW x \in overwritten', NEW q \in Peer, Has(fl_hash'[q], x) PROVE FALSE
      BY DEF InBucket
    <3>1. CASE x \in overwritten
      BY <1>1, <1>3, <3>1 DEF FlowInv, IdInOnePlace, InBucket
    <3>2. CASE Has(fl_hash[p], x) /\ ~Has(fl_hash'[p], x)
      <4>1. q /= p /\ Has(fl_hash[q], x) /\ x \in Known
        BY <1>3, <3>2
      <4> QED BY <1>0, <3>2, <4>1 DEF FlowInv, IdInOnePlace
    <3> QED BY <1>3, <3>1, <3>2
  <2>2. \A x \in Known : Has(free_ids, x) => ~Entered(x)'
    BY <1>1, <1>5 DEF FlowInv, IdInOnePlace
  <2>3. \A t, u \in Sender, x \in Known : Enters(t, x)' /\ Enters(u, x)' => t = u
    BY <1>4 DEF FlowInv, IdInOnePlace
  <2>4. \A t \in Sender, x \in Known : Enters(t, x)' => ~Has(free_ids, x) /\ ~Entered(x)'
    BY <1>0, <1>4, <1>5 DEF FlowInv, IdInOnePlace
  <2>5. \A x \in Known : Has(free_ids, x) \/ Entered(x)' \/ \E t \in Sender : Enters(t, x)'
    <3> SUFFICES ASSUME NEW x \in Known, ~Has(free_ids, x), ~Entered(x)'
                 PROVE  \E t \in Sender : Enters(t, x)'
      OBVIOUS
    <3>1. PICK t \in Sender : Enters(t, x)
      BY <1>5 DEF FlowInv, IdInOnePlace
    <3>2. t /= s
      BY <1>5, <3>1 DEF Enters, i
    <3> QED BY <1>4, <3>1, <3>2
  <2> QED BY <1>0, <1>3, <2>0, <2>1, <2>2, <2>3, <2>4, <2>5 DEF FlowInv, IdInOnePlace
<1>8. RingLife'
  <2>1. ~Asked(i) /\ i \notin dev /\ ~Closing(i)
    <3>1. i \in Id
      BY <1>0, BucketKnown DEF FlowInv
    <3> QED BY <1>1, <3>1 DEF FlowInv, RingLife, LifeAsked, LifeOpen
  <2>2. LifeMaking'
    <3>1. \A t \in Sender : ~Maker(t, i)
      BY <1>0, <1>1 DEF FlowInv, RingLife, LifeMaking
    <3>2. \A t \in Sender, x \in Known : Maker(t, x)' /\ sender'[t].at = "create" => node'[x].active
      BY <1>0, <1>2, <1>4 DEF FlowInv, RingLife, LifeMaking
    <3>3. \A t \in Sender, x \in Known : Maker(t, x)' =>
            Entered(x)' /\ ~Asked(x)' /\ x \notin dev' /\ ~Closing(x)'
      BY <1>0, <1>4, <1>5, <2>1 DEF FlowInv, RingLife, LifeMaking
    <3>4. \A t, u \in Sender, x \in Known : Maker(t, x)' /\ Maker(u, x)' => t = u
      BY <1>4, <3>1 DEF FlowInv, RingLife, LifeMaking
    <3> QED BY <1>0, <3>2, <3>3, <3>4 DEF LifeMaking
  <2>3. \A x \in Id : Asked(x) \/ x \in dev \/ Closing(x) => x \in Known
    BY BucketKnown DEF FlowInv, RingLife, LifeAsked, LifeOpen
  <2>4. LifeAsked' /\ LifeOpen' /\ LifeListed'
    BY <1>0, <1>5, <2>3 DEF FlowInv, FlowTypes, RingLife, LifeAsked, LifeOpen, LifeListed
  <2> QED BY <2>2, <2>4 DEF RingLife
<1> QED BY <1>6, <1>7, <1>8 DEF FlowInv

\* Lemma: the ids and the ring's stages when a sender goes on making its ring.
LEMMA MakerGoesOn ==
  ASSUME FlowInv, NEW s \in Sender, NEW a \in {"create", "failed"},
         Making(s), SenderTo(s, a), Known' = Known
  PROVE  /\ sender'[s].at = a /\ sender'[s].id = sender[s].id
         /\ \A t \in Sender : t /= s => sender'[t] = sender[t]
         /\ sender' \in [Sender -> SenderState]
         /\ \A t \in Sender : Entering(t)' \/ Making(t)' => sender'[t].id \in Known
         /\ \A t \in Sender : sender'[t].at \in {"alloc", "insert", "init"} => sender'[t].peer \in Peer
         /\ \A t \in Sender, x \in Known : (Enters(t, x)' <=> Enters(t, x)) /\ (Maker(t, x)' <=> Maker(t, x))
<1>1. a \in Stages
  BY DEF Stages
<1>2. /\ sender'[s].at = a /\ sender'[s].id = sender[s].id
      /\ \A t \in Sender : t /= s => sender'[t] = sender[t]
      /\ sender' \in [Sender -> SenderState]
  BY <1>1, SenderMoves DEF FlowInv
<1>3. \A t \in Sender : (Entering(t)' <=> Entering(t)) /\ (Making(t)' <=> Making(t)) /\ sender'[t].id = sender[t].id
  BY <1>2 DEF Entering, Making
<1>4. \A t \in Sender, x \in Known : (Enters(t, x)' <=> Enters(t, x)) /\ (Maker(t, x)' <=> Maker(t, x))
  BY <1>3 DEF Enters, Maker
<1>5. \A t \in Sender : Entering(t)' \/ Making(t)' => sender'[t].id \in Known
  BY <1>3 DEF FlowInv, FlowTypes
<1>6. \A t \in Sender : sender'[t].at \in {"alloc", "insert", "init"} => sender'[t].peer \in Peer
  BY <1>2 DEF FlowInv, FlowTypes
<1> QED BY <1>2, <1>4, <1>5, <1>6

\* Lemma: when a sender leaves the making of its ring.
LEMMA MakerLeaves ==
  ASSUME FlowInv, NEW s \in Sender, Making(s), Known' = Known,
         SenderTo(s, "txdata") \/ SenderDone(s)
  PROVE  /\ \A t \in Sender : t /= s => sender'[t] = sender[t]
         /\ sender' \in [Sender -> SenderState]
         /\ sender'[s].at \in {"txdata", "idle"}
         /\ \A t \in Sender : Entering(t)' \/ Making(t)' => sender'[t].id \in Known
         /\ \A t \in Sender : sender'[t].at \in {"alloc", "insert", "init"} => sender'[t].peer \in Peer
         /\ \A t \in Sender, x \in Known : /\ Enters(t, x)' <=> Enters(t, x)
                                           /\ Maker(t, x)' <=> Maker(t, x) /\ t /= s
<1>1. "txdata" \in Stages
  BY DEF Stages
<1>2. /\ sender'[s].at \in {"txdata", "idle"}
      /\ \A t \in Sender : t /= s => sender'[t] = sender[t]
      /\ sender' \in [Sender -> SenderState]
  BY <1>1, SenderMoves, SenderRests DEF FlowInv
<1>3. \A t \in Sender : /\ Entering(t)' <=> Entering(t)
                        /\ Making(t)' <=> Making(t) /\ t /= s
  BY <1>2 DEF Entering, Making
<1>4. \A t \in Sender, x \in Known : Maker(t, x)' <=> Maker(t, x) /\ t /= s
  BY <1>2, <1>3 DEF Maker
<1>5. \A t \in Sender, x \in Known : Enters(t, x)' <=> Enters(t, x)
  BY <1>2, <1>3 DEF Enters, Entering, Making
<1>6. \A t \in Sender : Entering(t)' \/ Making(t)' => sender'[t].id \in Known
  BY <1>2, <1>3 DEF FlowInv, FlowTypes, Entering, Making
<1>7. \A t \in Sender : sender'[t].at \in {"alloc", "insert", "init"} => sender'[t].peer \in Peer
  BY <1>2 DEF FlowInv, FlowTypes
<1> QED BY <1>2, <1>4, <1>5, <1>6, <1>7

\* Lemma: the ids where no list changes and no sender enters or takes one.
LEMMA IdsKept ==
  ASSUME IdInOnePlace, Known' = Known, UNCHANGED <<free_ids, fl_hash, overwritten>>,
         \A t \in Sender, x \in Known : Enters(t, x)' <=> Enters(t, x)
  PROVE  IdInOnePlace' /\ \A x : Entered(x)' <=> Entered(x)
<1>1. \A x : (Entered(x)' <=> Entered(x)) /\ (InBucket(x)' <=> InBucket(x))
  BY DEF Entered, InBucket
<1> QED BY <1>1 DEF IdInOnePlace

\* Lemma: a node is prepared while its ring is made.
LEMMA InitNodeStep ==
  ASSUME FlowInv, NEW s \in Sender, InitNode(s)
  PROVE  FlowInv'
<1> DEFINE i == sender[s].id
<1> USE DEF idVars, ctrlVars, dpcVars, setupVars, boundVars
<1>0. /\ sender[s].at = "init" /\ SenderTo(s, "create")
      /\ node' = [node EXCEPT ![i] =
           [status |-> "CREATE_PENDING", active |-> TRUE, peer |-> sender[s].peer]]
      /\ UNCHANGED <<free_ids, fl_hash, overwritten, inited, active_list, max_flowid, role, deleter, ctrl, dev, dpc>>
      /\ Known' = Known /\ Making(s) /\ i \in Known /\ i \in Id /\ sender[s].peer \in Peer
  BY BucketKnown DEF InitNode, Known, FlowInv, FlowTypes, Making
<1>1. /\ sender'[s].at = "create" /\ sender'[s].id = i
      /\ \A t \in Sender : t /= s => sender'[t] = sender[t]
      /\ sender' \in [Sender -> SenderState]
      /\ \A t \in Sender : Entering(t)' \/ Making(t)' => sender'[t].id \in Known
      /\ \A t \in Sender : sender'[t].at \in {"alloc", "insert", "init"} => sender'[t].peer \in Peer
      /\ \A t \in Sender, x \in Known : (Enters(t, x)' <=> Enters(t, x)) /\ (Maker(t, x)' <=> Maker(t, x))
  BY <1>0, MakerGoesOn
<1>2. Maker(s, i)
  BY <1>0 DEF Maker
<1>3. IdInOnePlace' /\ \A x : Entered(x)' <=> Entered(x)
  BY <1>0, <1>1, IdsKept DEF FlowInv
<1>4. \A x : (Asked(x)' <=> Asked(x)) /\ (Closing(x)' <=> Closing(x))
  BY <1>0 DEF Asked, Closing
<1>5. /\ node'[i].active /\ node'[i].status = "CREATE_PENDING"
      /\ \A x \in Id : x /= i => node'[x] = node[x]
      /\ node' \in [Id -> [status : Status, active : BOOLEAN, peer : Peer \cup {NoPeer}]]
  BY <1>0 DEF FlowInv, FlowTypes, Status
<1> HIDE DEF i
<1>6. FlowTypes'
  BY <1>0, <1>1, <1>5 DEF FlowInv, FlowTypes, SenderState, DpcState
<1>7. LifeMaking'
  <2>1. \A t \in Sender, x \in Known : Maker(t, x)' /\ sender'[t].at = "create" => node'[x].active
    <3> SUFFICES ASSUME NEW t \in Sender, NEW x \in Known, Maker(t, x)', sender'[t].at = "create", x /= i
                 PROVE  node'[x].active
      BY <1>5
    <3>1. Maker(t, x) /\ t /= s
      BY <1>1, <1>2 DEF Maker, i
    <3>2. node[x].active
      BY <1>1, <3>1 DEF FlowInv, RingLife, LifeMaking
    <3> QED BY <1>5, <3>2, BucketKnown DEF FlowInv
  <2> QED BY <1>0, <1>1, <1>3, <1>4, <2>1 DEF FlowInv, RingLife, LifeMaking
<1>8. LifeAsked'
  BY <1>0, <1>3, <1>4, <1>5 DEF FlowInv, RingLife, LifeAsked
<1>9. LifeOpen'
  <2>1. \A x \in Id : Open(x)' => Open(x)
    BY <1>5 DEF Open
  <2>2. \A x \in dev : x \in Id
    BY BucketKnown DEF FlowInv, FlowTypes
  <2> QED BY <1>0, <1>3, <1>4, <1>5, <2>1, <2>2 DEF FlowInv, RingLife, LifeOpen
<1>10. LifeListed'
  BY <1>0, <1>4 DEF FlowInv, RingLife, LifeListed
<1> QED BY <1>3, <1>6, <1>7, <1>8, <1>9, <1>10 DEF FlowInv, RingLife

\* Lemma: a ring is fetched and asked for.
LEMMA CreateRequestStep ==
  ASSUME FlowInv, NEW s \in Sender, CreateRequest(s)
  PROVE  FlowInv'
<1> DEFINE i == sender[s].id
<1> USE DEF idVars, dpcVars, setupVars, boundVars
<1>0. /\ sender[s].at = "create" /\ SenderTo(s, "txdata")
      /\ inited' = [inited EXCEPT ![i] = TRUE]
      /\ ctrl' = Append(ctrl, Ask(i))
      /\ UNCHANGED <<free_ids, fl_hash, overwritten, node, active_list, max_flowid, role, deleter, dev, dpc>>
      /\ Known' = Known /\ Making(s) /\ i \in Known /\ i \in Id
  BY BucketKnown DEF CreateRequest, Known, FlowInv, FlowTypes, Making, Ask
<1>1. /\ \A t \in Sender : t /= s => sender'[t] = sender[t]
      /\ sender' \in [Sender -> SenderState]
      /\ sender'[s].at \in {"txdata", "idle"}
      /\ \A t \in Sender : Entering(t)' \/ Making(t)' => sender'[t].id \in Known
      /\ \A t \in Sender : sender'[t].at \in {"alloc", "insert", "init"} => sender'[t].peer \in Peer
      /\ \A t \in Sender, x \in Known : /\ Enters(t, x)' <=> Enters(t, x)
                                        /\ Maker(t, x)' <=> Maker(t, x) /\ t /= s
  BY <1>0, MakerLeaves
<1>2. /\ Maker(s, i)
      /\ Entered(i) /\ ~Asked(i) /\ i \notin dev /\ ~Closing(i) /\ node[i].active
      /\ \A t \in Sender : Maker(t, i) => t = s
  BY <1>0 DEF Maker, FlowInv, RingLife, LifeMaking
<1>3. IdInOnePlace' /\ \A x : Entered(x)' <=> Entered(x)
  BY <1>0, <1>1, IdsKept DEF FlowInv
<1>4. /\ ctrl' \in Seq({"CREATE", "DELETE"} \X Id)
      /\ AskedOnce(ctrl')
      /\ \A x : Asked(x)' <=> Asked(x) \/ x = i
  <2> DEFINE Message == {"CREATE", "DELETE"} \X Id
  <2>1. Ask(i) \in Message /\ ctrl \in Seq(Message) /\ AskedOnce(ctrl) /\ ~Has(ctrl, Ask(i))
    BY <1>0, <1>2 DEF Ask, Asked, FlowInv, FlowTypes, RingLife, LifeAsked
  <2> HIDE DEF Message
  <2>2. /\ ctrl' \in Seq(Message)
        /\ \A m : Has(ctrl', m) <=> Has(ctrl, m) \/ m = Ask(i)
    BY <1>0, <2>1, AppendHas
  <2>3. AskedOnce(ctrl')
    BY <1>0, <2>1, AskedOnceAppend
  <2>4. \A x : Ask(x) = Ask(i) <=> x = i
    BY DEF Ask
  <2> QED BY <2>2, <2>3, <2>4 DEF Asked, Message
<1>5. /\ \A x : Closing(x)' <=> Closing(x)
      /\ \A x : Open(x)' <=> Open(x)
  BY <1>0 DEF Closing, Open
<1>6. /\ inited' \in [Id -> BOOLEAN] /\ inited'[i]
      /\ \A x \in Id : x /= i => inited'[x] = inited[x]
  BY <1>0 DEF FlowInv, FlowTypes
<1> HIDE DEF i
<1>7. FlowTypes'
  BY <1>0, <1>1, <1>4, <1>6 DEF FlowInv, FlowTypes, SenderState, DpcState
<1>8. LifeMaking'
  <2>1. \A t \in Sender, x \in Known : Maker(t, x)' => x /= i /\ Maker(t, x) /\ t /= s
    BY <1>1, <1>2
  <2>2. \A t \in Sender, x \in Known : Maker(t, x)' =>
          Entered(x)' /\ ~Asked(x)' /\ x \notin dev' /\ ~Closing(x)'
    BY <1>0, <1>3, <1>4, <1>5, <2>1 DEF FlowInv, RingLife, LifeMaking
  <2>3. \A t \in Sender, x \in Known : Maker(t, x)' /\ sender'[t].at = "create" => node'[x].active
    BY <1>0, <1>1, <2>1 DEF FlowInv, RingLife, LifeMaking
  <2>4. \A t, u \in Sender, x \in Known : Maker(t, x)' /\ Maker(u, x)' => t = u
    BY <2>1 DEF FlowInv, RingLife, LifeMaking
  <2> QED BY <1>0, <2>2, <2>3, <2>4 DEF LifeMaking
<1>9. LifeAsked'
  BY <1>0, <1>2, <1>3, <1>4, <1>5, <1>6 DEF FlowInv, RingLife, LifeAsked
<1>10. LifeOpen'
  <2>1. \A x \in dev : x \in Id
    BY BucketKnown DEF FlowInv, FlowTypes
  <2> QED BY <1>0, <1>3, <1>5, <1>6, <2>1 DEF FlowInv, RingLife, LifeOpen
<1>11. LifeListed'
  BY <1>0, <1>5 DEF FlowInv, RingLife, LifeListed
<1> QED BY <1>3, <1>7, <1>8, <1>9, <1>10, <1>11 DEF FlowInv, RingLife

\* Lemma: the control ring is full: the ring goes back.
LEMMA CreateNoSpaceStep ==
  ASSUME FlowInv, NEW s \in Sender, CreateNoSpace(s)
  PROVE  FlowInv'
<1> DEFINE i == sender[s].id
<1> USE DEF idVars, ctrlVars, dpcVars, setupVars, boundVars
<1>0. /\ sender[s].at = "create" /\ SenderTo(s, "failed")
      /\ inited' = [inited EXCEPT ![i] = FALSE]
      /\ UNCHANGED <<free_ids, fl_hash, overwritten, node, active_list, max_flowid, role, deleter, ctrl, dev, dpc>>
      /\ Known' = Known /\ Making(s) /\ i \in Known /\ i \in Id
  BY BucketKnown DEF CreateNoSpace, Known, FlowInv, FlowTypes, Making
<1>1. /\ sender'[s].at = "failed" /\ sender'[s].id = i
      /\ \A t \in Sender : t /= s => sender'[t] = sender[t]
      /\ sender' \in [Sender -> SenderState]
      /\ \A t \in Sender : Entering(t)' \/ Making(t)' => sender'[t].id \in Known
      /\ \A t \in Sender : sender'[t].at \in {"alloc", "insert", "init"} => sender'[t].peer \in Peer
      /\ \A t \in Sender, x \in Known : (Enters(t, x)' <=> Enters(t, x)) /\ (Maker(t, x)' <=> Maker(t, x))
  BY <1>0, MakerGoesOn
<1>2. Maker(s, i) /\ ~Asked(i) /\ i \notin dev /\ ~Closing(i)
  BY <1>0 DEF Maker, FlowInv, RingLife, LifeMaking
<1>3. IdInOnePlace' /\ \A x : Entered(x)' <=> Entered(x)
  BY <1>0, <1>1, IdsKept DEF FlowInv
<1>4. \A x : (Asked(x)' <=> Asked(x)) /\ (Closing(x)' <=> Closing(x)) /\ (Open(x)' <=> Open(x))
  BY <1>0 DEF Asked, Closing, Open
<1>5. /\ inited' \in [Id -> BOOLEAN]
      /\ \A x \in Id : x /= i => inited'[x] = inited[x]
  BY <1>0 DEF FlowInv, FlowTypes
<1> HIDE DEF i
<1>6. FlowTypes'
  BY <1>0, <1>1, <1>5 DEF FlowInv, FlowTypes, SenderState, DpcState
<1>7. LifeMaking'
  <2>1. \A t \in Sender, x \in Known : Maker(t, x)' /\ sender'[t].at = "create" => node'[x].active
    BY <1>0, <1>1 DEF FlowInv, RingLife, LifeMaking
  <2> QED BY <1>0, <1>1, <1>3, <1>4, <2>1 DEF FlowInv, RingLife, LifeMaking
<1>8. LifeAsked'
  BY <1>0, <1>2, <1>3, <1>4, <1>5 DEF FlowInv, RingLife, LifeAsked
<1>9. LifeOpen'
  <2>1. \A x \in dev : x \in Id
    BY BucketKnown DEF FlowInv, FlowTypes
  <2> QED BY <1>0, <1>2, <1>3, <1>4, <1>5, <2>1 DEF FlowInv, RingLife, LifeOpen
<1>10. LifeListed'
  BY <1>0, <1>4 DEF FlowInv, RingLife, LifeListed
<1> QED BY <1>3, <1>6, <1>7, <1>8, <1>9, <1>10 DEF FlowInv, RingLife

\* Lemma: the status of one node is set, or the node closed.
LEMMA NodeStatus ==
  ASSUME FlowTypes, NEW i \in Id, NEW st \in Status,
         \/ node' = [node EXCEPT ![i].status = st]
         \/ node' = [node EXCEPT ![i].status = st, ![i].active = FALSE]
  PROVE  /\ node'[i].status = st
         /\ node' = [node EXCEPT ![i].status = st] => node'[i].active = node[i].active
         /\ \A x \in Id : x /= i => node'[x] = node[x]
         /\ node' \in [Id -> [status : Status, active : BOOLEAN, peer : Peer \cup {NoPeer}]]
<1> DEFINE State == [status : Status, active : BOOLEAN, peer : Peer \cup {NoPeer}]
<1>1. node \in [Id -> State] /\ node[i] \in State
  BY DEF FlowTypes
<1>2. PICK r \in State : /\ node' = [node EXCEPT ![i] = r] /\ r.status = st
                         /\ node' = [node EXCEPT ![i].status = st] => r.active = node[i].active
  <2>1. CASE node' = [node EXCEPT ![i].status = st]
    <3> DEFINE r == [node[i] EXCEPT !.status = st]
    <3>1. r \in State /\ r.status = st /\ r.active = node[i].active
      BY <1>1
    <3>2. node' = [node EXCEPT ![i] = r]
      BY <2>1
    <3> HIDE DEF r
    <3> QED BY <3>1, <3>2
  <2>2. CASE /\ node' = [node EXCEPT ![i].status = st, ![i].active = FALSE]
             /\ node' /= [node EXCEPT ![i].status = st]
    <3> DEFINE r == [node[i] EXCEPT !.status = st, !.active = FALSE]
    <3>1. r \in State /\ r.status = st
      BY <1>1
    <3>2. node' = [node EXCEPT ![i] = r]
      BY <1>1, <2>2
    <3> HIDE DEF r
    <3> QED BY <2>2, <3>1, <3>2
  <2> QED BY <2>1, <2>2
<1> HIDE DEF State
<1>3. node' \in [Id -> State] /\ node'[i] = r /\ \A x \in Id : x /= i => node'[x] = node[x]
  BY <1>1, <1>2
<1> QED BY <1>2, <1>3 DEF State

\* Lemma: the node of a ring that was not made is closed; the id stays where
\* it is.
LEMMA CreateFailedStep ==
  ASSUME FlowInv, NEW s \in Sender, CreateFailed(s)
  PROVE  FlowInv'
<1> DEFINE i == sender[s].id
<1> USE DEF idVars, ctrlVars, dpcVars, setupVars, boundVars
<1>0. /\ sender[s].at = "failed" /\ SenderDone(s)
      /\ node' = [node EXCEPT ![i].status = "CLOSED", ![i].active = FALSE]
      /\ UNCHANGED <<free_ids, fl_hash, overwritten, inited, active_list, max_flowid, role, deleter, ctrl, dev, dpc>>
      /\ Known' = Known /\ Making(s) /\ i \in Known /\ i \in Id
  BY BucketKnown DEF CreateFailed, Known, FlowInv, FlowTypes, Making
<1>1. /\ \A t \in Sender : t /= s => sender'[t] = sender[t]
      /\ sender' \in [Sender -> SenderState]
      /\ sender'[s].at \in {"txdata", "idle"}
      /\ \A t \in Sender : Entering(t)' \/ Making(t)' => sender'[t].id \in Known
      /\ \A t \in Sender : sender'[t].at \in {"alloc", "insert", "init"} => sender'[t].peer \in Peer
      /\ \A t \in Sender, x \in Known : /\ Enters(t, x)' <=> Enters(t, x)
                                        /\ Maker(t, x)' <=> Maker(t, x) /\ t /= s
  BY <1>0, MakerLeaves
<1>2. /\ Maker(s, i) /\ ~Asked(i) /\ i \notin dev /\ ~Closing(i)
      /\ \A t \in Sender : Maker(t, i) => t = s
  BY <1>0 DEF Maker, FlowInv, RingLife, LifeMaking
<1>3. IdInOnePlace' /\ \A x : Entered(x)' <=> Entered(x)
  BY <1>0, <1>1, IdsKept DEF FlowInv
<1>4. \A x : (Asked(x)' <=> Asked(x)) /\ (Closing(x)' <=> Closing(x))
  BY <1>0 DEF Asked, Closing
<1>5. /\ node'[i].status = "CLOSED"
      /\ \A x \in Id : x /= i => node'[x] = node[x]
      /\ node' \in [Id -> [status : Status, active : BOOLEAN, peer : Peer \cup {NoPeer}]]
  <2>1. "CLOSED" \in Status
    BY DEF Status
  <2> QED BY <1>0, <2>1, NodeStatus DEF FlowInv
<1> HIDE DEF i
<1>6. FlowTypes'
  BY <1>0, <1>1, <1>5 DEF FlowInv, FlowTypes, SenderState, DpcState
<1>7. LifeMaking'
  <2>1. \A t \in Sender, x \in Known : Maker(t, x)' => x /= i /\ Maker(t, x) /\ t /= s
    BY <1>1, <1>2
  <2>2. \A t \in Sender, x \in Known : Maker(t, x)' /\ sender'[t].at = "create" => node'[x].active
    BY <1>0, <1>1, <1>5, <2>1, BucketKnown DEF FlowInv, RingLife, LifeMaking
  <2> QED BY <1>0, <1>3, <1>4, <2>1, <2>2 DEF FlowInv, RingLife, LifeMaking
<1>8. LifeAsked'
  BY <1>0, <1>2, <1>3, <1>4, <1>5 DEF FlowInv, RingLife, LifeAsked
<1>9. LifeOpen'
  <2>1. \A x \in Id : Open(x)' => Open(x)
    BY <1>5 DEF Open
  <2>2. \A x \in dev : x \in Id /\ x /= i
    BY <1>2, BucketKnown DEF FlowInv, FlowTypes
  <2> QED BY <1>0, <1>3, <1>4, <1>5, <2>1, <2>2 DEF FlowInv, RingLife, LifeOpen
<1>10. LifeListed'
  BY <1>0, <1>4 DEF FlowInv, RingLife, LifeListed
<1> QED BY <1>3, <1>6, <1>7, <1>8, <1>9, <1>10 DEF FlowInv, RingLife

----------------------------------------------------------------------------
(* Those who delete, the dongle, and the steps of the DPC between rings.   *)

\* Lemma: what moves a thread that deletes, or the DPC, without touching
\* rings, ids or messages.
LEMMA AsideQuiet ==
  ASSUME FlowInv,
         UNCHANGED <<idVars, node, inited, active_list, max_flowid, role, sender, ctrl, dev>>,
         deleter' \in [Deleter -> DeleterState],
         \A d \in Deleter : deleter'[d].at \in {"request", "send"} => deleter'[d].id \in Id,
         deleter'["event"].at /= "idle" => dpc'.at = "event",
         \/ dpc' = dpc
         \/ /\ dpc.at \notin {"opened", "closed"} /\ dpc'.at \notin {"opened", "closed"}
            /\ dpc' \in DpcState
  PROVE  FlowInv'
<1> USE DEF idVars
<1>0. Known' = Known
  BY DEF Known
<1>1. \A t \in Sender, x \in Known : (Enters(t, x)' <=> Enters(t, x)) /\ (Maker(t, x)' <=> Maker(t, x))
  BY DEF Enters, Entering, Maker, Making
<1>2. IdInOnePlace' /\ \A x : Entered(x)' <=> Entered(x)
  BY <1>0, <1>1, IdsKept DEF FlowInv
<1>3. \A x : (Asked(x)' <=> Asked(x)) /\ (Closing(x)' <=> Closing(x)) /\ (Open(x)' <=> Open(x))
  BY DEF Asked, Closing, Open
<1>4. FlowTypes'
  <2>1. dpc' \in DpcState /\ (dpc'.at \in {"opened", "closed"} => dpc'.id \in Known)
    BY DEF FlowInv, FlowTypes
  <2>2. \A t \in Sender : (Entering(t)' <=> Entering(t)) /\ (Making(t)' <=> Making(t))
    BY DEF Entering, Making
  <2> QED BY <1>0, <2>1, <2>2 DEF FlowInv, FlowTypes, SenderState, DpcState
<1>5. LifeMaking' /\ LifeAsked' /\ LifeOpen'
  BY <1>0, <1>1, <1>2, <1>3 DEF FlowInv, RingLife, LifeMaking, LifeAsked, LifeOpen
<1>6. LifeListed'
  BY <1>0, <1>3 DEF FlowInv, RingLife, LifeListed
<1> QED BY <1>2, <1>4, <1>5, <1>6 DEF FlowInv, RingLife

\* Lemma: one of them moves on.
LEMMA DeleterMoves ==
  ASSUME FlowTypes, NEW d \in Deleter, NEW e \in DeleterState,
         e.at \in {"request", "send"} => e.id \in Id,
         deleter' = [deleter EXCEPT ![d] = e],
         d = "event" /\ e.at /= "idle" => dpc'.at = "event",
         d /= "event" => dpc'.at = dpc.at
  PROVE  /\ deleter' \in [Deleter -> DeleterState]
         /\ \A b \in Deleter : deleter'[b].at \in {"request", "send"} => deleter'[b].id \in Id
         /\ deleter'["event"].at /= "idle" => dpc'.at = "event"
<1>1. "event" \in Deleter
  BY DEF Deleter
<1> QED BY <1>1 DEF FlowTypes

\* Lemma: a thread that deletes goes through the table.
LEMMA ScanSteps ==
  ASSUME FlowInv,
         \/ \E p \in Peer : PeerGone(p) \/ PeerBack(p)
         \/ IfaceDelete
         \/ \E d \in Deleter : ScanRing(d) \/ ScanEnd(d) \/ SendDeleteNoSpace(d)
         \/ \E d \in Deleter : DeletePending(d) /\ DeleterBack(d) /\ node' = node
  PROVE  FlowInv'
<1> USE DEF idVars, ringVars, ctrlVars, dpcVars, setupVars, boundVars
<1>0. /\ deleter \in [Deleter -> DeleterState] /\ dpc \in DpcState
      /\ \A d \in Deleter : deleter[d].at \in {"request", "send"} => deleter[d].id \in Id
      /\ "event" \in Deleter /\ "user" \in Deleter
      /\ deleter["event"].at /= "idle" => dpc.at = "event"
  BY DEF FlowInv, FlowTypes, Deleter
<1>1. UNCHANGED <<idVars, node, inited, active_list, max_flowid, role, sender, ctrl, dev>>
  BY DEF PeerGone, PeerBack, IfaceDelete, ScanRing, ScanEnd, SendDeleteNoSpace, DeletePending
<1>2. CASE \E p \in Peer : PeerGone(p)
  <2>1. PICK p \in Peer : PeerGone(p)
    BY <1>2
  <2> DEFINE e == [at |-> "scan", todo |-> Id, peers |-> {p}, id |-> 0]
  <2>2. deleter' = [deleter EXCEPT !["event"] = e] /\ e \in DeleterState /\ e.at = "scan"
    BY <2>1 DEF PeerGone, DeleterState
  <2> HIDE DEF e
  <2>3. dpc.at = "idle" /\ dpc'.at = "event" /\ dpc' \in DpcState
    BY <1>0, <2>1 DEF PeerGone, DpcState
  <2> QED BY <1>0, <1>1, <2>2, <2>3, DeleterMoves, AsideQuiet DEF FlowInv
<1>3. CASE \E p \in Peer : PeerBack(p)
  <2>1. UNCHANGED <<deleter, dpc>>
    BY <1>3 DEF PeerBack
  <2> QED BY <1>0, <1>1, <2>1, AsideQuiet
<1>4. CASE IfaceDelete
  <2> DEFINE e == [at |-> "scan", todo |-> Id, peers |-> Peer, id |-> 0]
  <2>1. deleter' = [deleter EXCEPT !["user"] = e] /\ e \in DeleterState /\ e.at = "scan" /\ dpc' = dpc
    BY <1>4 DEF IfaceDelete, DeleterState
  <2> HIDE DEF e
  <2> QED BY <1>0, <1>1, <2>1, DeleterMoves, AsideQuiet DEF FlowInv
<1>5. CASE \E d \in Deleter : ScanRing(d)
  <2>1. PICK d \in Deleter : ScanRing(d)
    BY <1>5
  <2> DEFINE i == Min(deleter[d].todo)
             e == [deleter[d] EXCEPT !.todo = @ \ {i}, !.id = IF Doomed(d, i) THEN i ELSE 0,
                                     !.at = IF Doomed(d, i) THEN "request" ELSE "scan"]
  <2>2. i \in Id
    <3>1. deleter[d].todo \subseteq Id /\ deleter[d].todo /= {} /\ Id \subseteq Nat
      <4>1. Id \subseteq Nat
        BY FlowAssumption DEF Id
      <4>2. deleter[d].todo /= {}
        BY <2>1 DEF ScanRing
      <4>3. deleter[d] \in DeleterState
        BY <1>0
      <4> QED BY <4>1, <4>2, <4>3 DEF DeleterState
    <3> QED BY <3>1, MinIsMember
  <2>3. deleter' = [deleter EXCEPT ![d] = e] /\ dpc' = dpc /\ deleter[d].at = "scan"
    BY <2>1 DEF ScanRing
  <2> HIDE DEF i
  <2>4. e \in DeleterState /\ e.at \in {"request", "scan"} /\ (e.at = "request" => e.id \in Id)
    <3>1. deleter[d] \in DeleterState /\ deleter[d].todo \ {i} \in SUBSET Id
      BY <1>0 DEF DeleterState
    <3>2. CASE Doomed(d, i)
      BY <2>2, <3>1, <3>2 DEF DeleterState
    <3>3. CASE ~Doomed(d, i)
      BY <3>1, <3>3 DEF DeleterState
    <3> QED BY <3>2, <3>3
  <2> HIDE DEF e
  <2> QED BY <1>0, <1>1, <2>3, <2>4, DeleterMoves, AsideQuiet DEF FlowInv
<1>6. CASE \E d \in Deleter : ScanEnd(d)
  <2>1. PICK d \in Deleter : ScanEnd(d)
    BY <1>6
  <2> DEFINE e == [at |-> "idle", todo |-> {}, peers |-> {}, id |-> 0]
  <2>2. deleter' = [deleter EXCEPT ![d] = e] /\ e \in DeleterState /\ e.at = "idle"
    BY <2>1 DEF ScanEnd, DeleterState
  <2> HIDE DEF e
  <2>3. CASE d = "event"
    <3>1. dpc.at = "event" /\ dpc'.at = "idle" /\ dpc' \in DpcState
      BY <1>0, <2>1, <2>3 DEF ScanEnd, DpcState
    <3> QED BY <1>0, <1>1, <2>2, <2>3, <3>1, DeleterMoves, AsideQuiet DEF FlowInv
  <2>4. CASE d /= "event"
    <3>1. dpc' = dpc
      BY <2>1, <2>4 DEF ScanEnd
    <3> QED BY <1>0, <1>1, <2>2, <2>4, <3>1, DeleterMoves, AsideQuiet DEF FlowInv
  <2> QED BY <2>3, <2>4
<1>7. CASE \E d \in Deleter : SendDeleteNoSpace(d) \/ (DeletePending(d) /\ DeleterBack(d))
  <2>1. PICK d \in Deleter : SendDeleteNoSpace(d) \/ (DeletePending(d) /\ DeleterBack(d))
    BY <1>7
  <2> DEFINE e == [deleter[d] EXCEPT !.at = "scan", !.id = 0]
  <2>2. deleter' = [deleter EXCEPT ![d] = e] /\ dpc' = dpc
    <3>1. DeleterBack(d) /\ dpc' = dpc
      BY <2>1 DEF SendDeleteNoSpace, DeletePending
    <3> QED BY <3>1, <1>0 DEF DeleterBack
  <2>3. e \in DeleterState /\ e.at = "scan"
    BY <1>0 DEF DeleterState
  <2>4. deleter[d].at /= "idle"
    BY <2>1 DEF SendDeleteNoSpace, DeletePending
  <2> HIDE DEF e
  <2> QED BY <1>0, <1>1, <2>2, <2>3, <2>4, DeleterMoves, AsideQuiet DEF FlowInv
<1>8. CASE \E d \in Deleter : ScanRing(d) \/ ScanEnd(d) \/ SendDeleteNoSpace(d)
  <2>1. PICK d \in Deleter : ScanRing(d) \/ ScanEnd(d) \/ SendDeleteNoSpace(d)
    BY <1>8
  <2>2. CASE ScanRing(d)
    BY <2>2, <1>5
  <2>3. CASE ScanEnd(d)
    BY <2>3, <1>6
  <2>4. CASE SendDeleteNoSpace(d)
    BY <2>4, <1>7
  <2> QED BY <2>1, <2>2, <2>3, <2>4
<1>10. CASE \E d \in Deleter : DeletePending(d) /\ DeleterBack(d) /\ node' = node
  BY <1>7, <1>10
<1>9. CASE \E p \in Peer : PeerGone(p) \/ PeerBack(p)
  <2>1. PICK p \in Peer : PeerGone(p) \/ PeerBack(p)
    BY <1>9
  <2> QED BY <2>1, <1>2, <1>3
<1> QED BY <1>4, <1>8, <1>9, <1>10

\* Lemma: a ring is marked, whatever stage it is in.
LEMMA MarkStep ==
  ASSUME FlowInv, NEW d \in Deleter, DeletePending(d), node' /= node
  PROVE  FlowInv'
<1> DEFINE i == deleter[d].id
<1> USE DEF idVars, ctrlVars, dpcVars, setupVars, boundVars
<1>0. /\ deleter[d].at = "request" /\ DeleterTo(d, "send")
      /\ node' = [node EXCEPT ![i].status = "DELETE_PENDING"]
      /\ UNCHANGED <<free_ids, fl_hash, overwritten, inited, active_list, max_flowid, role, sender, ctrl, dev, dpc>>
      /\ Known' = Known /\ i \in Id
  BY DEF DeletePending, Known, FlowInv, FlowTypes
<1>1. /\ deleter' \in [Deleter -> DeleterState]
      /\ \A b \in Deleter : deleter'[b].at \in {"request", "send"} => deleter'[b].id \in Id
      /\ deleter'["event"].at /= "idle" => dpc'.at = "event"
  <2> DEFINE e == [deleter[d] EXCEPT !.at = "send"]
  <2>1. e \in DeleterState /\ e.at = "send" /\ e.id = i
    BY DEF FlowInv, FlowTypes, DeleterState
  <2>2. deleter' = [deleter EXCEPT ![d] = e]
    BY <1>0 DEF DeleterTo
  <2>3. d = "event" => dpc'.at = "event"
    BY <1>0 DEF FlowInv, FlowTypes
  <2> HIDE DEF e
  <2> QED BY <1>0, <2>1, <2>2, <2>3, DeleterMoves DEF FlowInv
<1>2. \A t \in Sender, x \in Known : (Enters(t, x)' <=> Enters(t, x)) /\ (Maker(t, x)' <=> Maker(t, x))
  BY <1>0 DEF Enters, Entering, Maker, Making
<1>3. IdInOnePlace' /\ \A x : Entered(x)' <=> Entered(x)
  BY <1>0, <1>2, IdsKept DEF FlowInv
<1>4. \A x : (Asked(x)' <=> Asked(x)) /\ (Closing(x)' <=> Closing(x))
  BY <1>0 DEF Asked, Closing
<1>5. /\ node'[i].status = "DELETE_PENDING"
      /\ \A x \in Id : node'[x].active = node[x].active /\ (x /= i => node'[x] = node[x])
      /\ node' \in [Id -> [status : Status, active : BOOLEAN, peer : Peer \cup {NoPeer}]]
  <2>1. "DELETE_PENDING" \in Status
    BY DEF Status
  <2> QED BY <1>0, <2>1, NodeStatus DEF FlowInv
<1> HIDE DEF i
<1>6. FlowTypes'
  <2>1. \A t \in Sender : (Entering(t)' <=> Entering(t)) /\ (Making(t)' <=> Making(t))
    BY <1>0 DEF Entering, Making
  <2> QED BY <1>0, <1>1, <1>5, <2>1 DEF FlowInv, FlowTypes, SenderState, DpcState
<1>7. LifeMaking'
  BY <1>0, <1>2, <1>3, <1>4, <1>5, BucketKnown DEF FlowInv, RingLife, LifeMaking
<1>8. LifeAsked'
  BY <1>0, <1>3, <1>4, <1>5 DEF FlowInv, RingLife, LifeAsked
<1>9. LifeOpen'
  <2>1. \A x \in Id : Open(x)' => Open(x)
    BY <1>5 DEF Open
  <2>2. \A x \in dev : x \in Id
    BY BucketKnown DEF FlowInv, FlowTypes
  <2> QED BY <1>0, <1>3, <1>4, <1>5, <2>1, <2>2 DEF FlowInv, RingLife, LifeOpen
<1>10. LifeListed'
  BY <1>0, <1>4 DEF FlowInv, RingLife, LifeListed
<1> QED BY <1>3, <1>6, <1>7, <1>8, <1>9, <1>10 DEF FlowInv, RingLife

\* Lemma: the control ring changes, and no creation is in it that was not.
LEMMA MessagesQuiet ==
  ASSUME FlowInv,
         UNCHANGED <<idVars, node, inited, active_list, max_flowid, role, sender, dev, dpc>>,
         deleter' \in [Deleter -> DeleterState],
         \A d \in Deleter : deleter'[d].at \in {"request", "send"} => deleter'[d].id \in Id,
         deleter'["event"].at /= "idle" => dpc'.at = "event",
         ctrl' \in Seq({"CREATE", "DELETE"} \X Id),
         AskedOnce(ctrl'),
         \A x : Asked(x)' => Asked(x)
  PROVE  FlowInv'
<1> USE DEF idVars
<1>0. Known' = Known
  BY DEF Known
<1>1. \A t \in Sender, x \in Known : (Enters(t, x)' <=> Enters(t, x)) /\ (Maker(t, x)' <=> Maker(t, x))
  BY DEF Enters, Entering, Maker, Making
<1>2. IdInOnePlace' /\ \A x : Entered(x)' <=> Entered(x)
  BY <1>0, <1>1, IdsKept DEF FlowInv
<1>3. \A x : (Closing(x)' <=> Closing(x)) /\ (Open(x)' <=> Open(x))
  BY DEF Closing, Open
<1>4. FlowTypes'
  <2>1. \A t \in Sender : (Entering(t)' <=> Entering(t)) /\ (Making(t)' <=> Making(t))
    BY DEF Entering, Making
  <2> QED BY <1>0, <2>1 DEF FlowInv, FlowTypes, SenderState, DpcState
<1>5. LifeMaking' /\ LifeAsked' /\ LifeOpen'
  BY <1>0, <1>1, <1>2, <1>3 DEF FlowInv, RingLife, LifeMaking, LifeAsked, LifeOpen
<1>6. LifeListed'
  BY <1>0, <1>3 DEF FlowInv, RingLife, LifeListed
<1> QED BY <1>2, <1>4, <1>5, <1>6 DEF FlowInv, RingLife

\* Lemma: a deletion is asked for, or refused by the dongle.
LEMMA MessageSteps ==
  ASSUME FlowInv,
         (\E d \in Deleter : SendDelete(d)) \/ (\E i \in Id : DeleteRefused(i))
  PROVE  FlowInv'
<1> USE DEF idVars, ringVars, dpcVars, setupVars, boundVars
<1> DEFINE Message == {"CREATE", "DELETE"} \X Id
<1>0. /\ ctrl \in Seq(Message) /\ AskedOnce(ctrl)
      /\ deleter \in [Deleter -> DeleterState]
      /\ \A d \in Deleter : deleter[d].at \in {"request", "send"} => deleter[d].id \in Id
      /\ deleter["event"].at /= "idle" => dpc.at = "event"
  BY DEF FlowInv, FlowTypes, RingLife, LifeAsked
<1>1. CASE \E d \in Deleter : SendDelete(d)
  <2>1. PICK d \in Deleter : SendDelete(d)
    BY <1>1
  <2>2. /\ deleter[d].at = "send" /\ DeleterBack(d)
        /\ ctrl' = Append(ctrl, <<"DELETE", deleter[d].id>>)
        /\ UNCHANGED <<idVars, node, inited, active_list, max_flowid, role, sender, dev, dpc>>
    BY <2>1 DEF SendDelete
  <2>3. PICK m \in Message : ctrl' = Append(ctrl, m) /\ m[1] = "DELETE"
    <3>1. PICK x \in Id : x = deleter[d].id
      BY <1>0, <2>1, <2>2
    <3>2. <<"DELETE", x>> \in Message
      OBVIOUS
    <3>3. ctrl' = Append(ctrl, <<"DELETE", x>>)
      BY <2>2, <3>1
    <3> QED BY <3>2, <3>3
  <2> HIDE DEF Message
  <2>4. /\ ctrl' \in Seq(Message) /\ \A x : Has(ctrl', x) <=> Has(ctrl, x) \/ x = m
        /\ AskedOnce(ctrl')
    <3>1. m[1] /= "CREATE"
      BY <2>3
    <3>2. AskedOnce(Append(ctrl, m))
      BY <1>0, <3>1, AskedOnceAppend
    <3>3. Append(ctrl, m) \in Seq(Message) /\ \A x : Has(Append(ctrl, m), x) <=> Has(ctrl, x) \/ x = m
      BY <1>0, AppendHas
    <3> QED BY <2>3, <3>2, <3>3
  <2>5. \A x : Asked(x)' => Asked(x)
    <3>1. \A x : Ask(x) /= m
      BY <2>3 DEF Ask
    <3> QED BY <2>4, <3>1 DEF Asked
  <2>6. /\ deleter' \in [Deleter -> DeleterState]
        /\ \A b \in Deleter : deleter'[b].at \in {"request", "send"} => deleter'[b].id \in Id
        /\ deleter'["event"].at /= "idle" => dpc'.at = "event"
    <3> DEFINE e == [deleter[d] EXCEPT !.at = "scan", !.id = 0]
    <3>1. e \in DeleterState /\ e.at = "scan"
      BY <1>0 DEF DeleterState
    <3>2. deleter' = [deleter EXCEPT ![d] = e]
      BY <1>0, <2>2 DEF DeleterBack
    <3>3. d = "event" => dpc'.at = "event"
      BY <1>0, <2>2
    <3> HIDE DEF e
    <3> QED BY <2>2, <3>1, <3>2, <3>3, DeleterMoves DEF FlowInv
  <2> QED BY <2>2, <2>4, <2>5, <2>6, MessagesQuiet DEF Message
<1>2. CASE \E i \in Id : DeleteRefused(i)
  <2>1. /\ ctrl /= <<>> /\ ctrl' = Tail(ctrl)
        /\ UNCHANGED <<idVars, node, inited, active_list, max_flowid, role, sender, deleter, dev, dpc>>
    BY <1>2 DEF DeleteRefused, Deleted
  <2> HIDE DEF Message
  <2>2. /\ ctrl' \in Seq(Message) /\ AskedOnce(ctrl')
        /\ \A x : Has(ctrl', x) => Has(ctrl, x)
    BY <1>0, <2>1, TailHas, AskedOnceTail
  <2>3. \A x : Asked(x)' => Asked(x)
    BY <2>2 DEF Asked
  <2> QED BY <1>0, <2>1, <2>2, <2>3, MessagesQuiet DEF Message
<1> QED BY <1>1, <1>2

\* Lemma: the DPC between the rings, and the dongle.
LEMMA DpcQuiet ==
  ASSUME FlowInv, FlowDpcBegin \/ CtrlEnd \/ UpdateRing \/ FlowDpcEnd \/ DongleStep
  PROVE  FlowInv'
<1> USE DEF idVars, ringVars, ctrlVars, dpcVars, setupVars, boundVars
<1>0. /\ deleter \in [Deleter -> DeleterState] /\ dpc \in DpcState /\ active_list \in Seq(Known)
      /\ \A d \in Deleter : deleter[d].at \in {"request", "send"} => deleter[d].id \in Id
      /\ deleter["event"].at /= "idle" => dpc.at = "event"
  BY DEF FlowInv, FlowTypes
<1>1. UNCHANGED <<idVars, node, inited, active_list, max_flowid, role, sender, ctrl, dev, deleter>>
  BY DEF FlowDpcBegin, CtrlEnd, UpdateRing, FlowDpcEnd, DongleStep, DongleTakes, Push
<1>2. CASE DongleStep
  <2>1. dpc' = dpc
    BY <1>2 DEF DongleStep, DongleTakes
  <2> QED BY <1>0, <1>1, <2>1, AsideQuiet
<1>3. CASE FlowDpcBegin \/ CtrlEnd \/ UpdateRing \/ FlowDpcEnd
  <2>1. dpc.at \in {"idle", "ctrl", "rings"}
    BY <1>3 DEF FlowDpcBegin, CtrlEnd, UpdateRing, FlowDpcEnd
  <2>2. dpc' \in DpcState /\ dpc'.at \in {"idle", "ctrl", "rings"}
    <3>1. CASE FlowDpcBegin
      BY <1>0, <3>1 DEF FlowDpcBegin, DpcTo, DpcState
    <3>2. CASE CtrlEnd
      BY <1>0, <3>2 DEF CtrlEnd, DpcState
    <3>3. CASE UpdateRing
      <4> DEFINE i == Head(dpc.todo)
                 b == Open(i) /\ qlen'[i] > 0
      <4>1. dpc' = [dpc EXCEPT !.todo = Tail(@), !.more = b] /\ dpc.todo /= <<>> /\ dpc.at = "rings"
        BY <3>3 DEF UpdateRing
      <4>2. Tail(dpc.todo) \in Seq(Known)
        BY <1>0, <4>1, HeadTailProperties DEF DpcState
      <4>3. b \in BOOLEAN
        OBVIOUS
      <4> HIDE DEF b
      <4> QED BY <1>0, <4>1, <4>2, <4>3 DEF DpcState
    <3>4. CASE FlowDpcEnd
      BY <1>0, <3>4, EmptyList DEF FlowDpcEnd, DpcState
    <3> QED BY <1>3, <3>1, <3>2, <3>3, <3>4
  <2>3. deleter'["event"].at /= "idle" => dpc'.at = "event"
    BY <1>0, <1>1, <2>1
  <2> QED BY <1>0, <1>1, <2>1, <2>2, <2>3, AsideQuiet
<1> QED BY <1>2, <1>3

----------------------------------------------------------------------------
(* The DPC: the answers of the dongle.                                     *)

\* Lemma: the answer to a creation leaves no other for the same ring.
LEMMA AnswerTaken ==
  ASSUME FlowInv, ctrl /= <<>>, ctrl' = Tail(ctrl)
  PROVE  /\ ctrl' \in Seq({"CREATE", "DELETE"} \X Id) /\ AskedOnce(ctrl')
         /\ \A x : Asked(x)' => Asked(x)
         /\ \A x : Head(ctrl) = Ask(x) => Asked(x) /\ ~Asked(x)'
<1> DEFINE Message == {"CREATE", "DELETE"} \X Id
<1>1. ctrl \in Seq(Message) /\ AskedOnce(ctrl)
  BY DEF FlowInv, FlowTypes, RingLife, LifeAsked
<1> HIDE DEF Message
<1>2. /\ ctrl' \in Seq(Message) /\ Has(ctrl, Head(ctrl))
      /\ \A x : Has(ctrl', x) => Has(ctrl, x)
  BY <1>1, TailHas
<1>3. AskedOnce(ctrl') /\ (Head(ctrl)[1] = "CREATE" => ~Has(ctrl', Head(ctrl)))
  BY <1>1, AskedOnceTail
<1>4. \A x : Ask(x)[1] = "CREATE"
  BY DEF Ask
<1> QED BY <1>2, <1>3, <1>4 DEF Asked, Message

\* Lemma: a ring is created: the dongle has it, and it may be written to.
LEMMA CreateResponseStep ==
  ASSUME FlowInv, NEW i \in Id, CreateResponse(i)
  PROVE  FlowInv'
<1> USE DEF idVars
<1>0. /\ dpc.at = "ctrl" /\ dpc' = [dpc EXCEPT !.at = "opened", !.id = i]
      /\ node' = [node EXCEPT ![i].status = "OPEN"]
      /\ ctrl /= <<>> /\ Head(ctrl) = Ask(i) /\ ctrl' = Tail(ctrl) /\ dev' = dev \cup {i}
      /\ UNCHANGED <<free_ids, fl_hash, overwritten, inited, active_list, max_flowid, role, sender, deleter>>
      /\ Known' = Known
  BY DEF CreateResponse, Created, Ask, setupVars, Known
<1>1. /\ ctrl' \in Seq({"CREATE", "DELETE"} \X Id) /\ AskedOnce(ctrl')
      /\ \A x : Asked(x)' => Asked(x)
      /\ Asked(i) /\ ~Asked(i)'
  BY <1>0, AnswerTaken
<1>2. /\ Entered(i) /\ inited[i] /\ node[i].active /\ i \notin dev /\ ~Closing(i) /\ i \in Known
      /\ ~Has(active_list, i)
      /\ \A t \in Sender : ~Maker(t, i)
  <2>1. Entered(i) /\ inited[i] /\ node[i].active /\ i \notin dev /\ ~Closing(i)
    BY <1>1 DEF FlowInv, RingLife, LifeAsked
  <2>2. i \in Known
    BY <2>1, BucketKnown DEF FlowInv
  <2> QED BY <1>1, <2>1, <2>2 DEF FlowInv, RingLife, LifeListed, LifeMaking
<1>3. \A t \in Sender, x \in Known : (Enters(t, x)' <=> Enters(t, x)) /\ (Maker(t, x)' <=> Maker(t, x))
  BY <1>0 DEF Enters, Entering, Maker, Making
<1>4. IdInOnePlace' /\ \A x : Entered(x)' <=> Entered(x)
  BY <1>0, <1>3, IdsKept DEF FlowInv
<1>5. /\ dpc' \in DpcState /\ dpc'.at = "opened" /\ dpc'.id = i
      /\ \A x : ~Closing(x)' /\ ~Closing(x)
      /\ deleter'["event"].at = "idle"
  <2>1. dpc' \in DpcState /\ dpc'.at = "opened" /\ dpc'.id = i
    BY <1>0, <1>2 DEF FlowInv, FlowTypes, DpcState
  <2> QED BY <1>0, <2>1 DEF Closing, FlowInv, FlowTypes
<1>6. /\ node'[i].active = node[i].active
      /\ \A x \in Id : x /= i => node'[x] = node[x]
      /\ node' \in [Id -> [status : Status, active : BOOLEAN, peer : Peer \cup {NoPeer}]]
  <2>1. "OPEN" \in Status
    BY DEF Status
  <2> QED BY <1>0, <2>1, NodeStatus DEF FlowInv
<1>7. FlowTypes'
  <2>1. \A t \in Sender : (Entering(t)' <=> Entering(t)) /\ (Making(t)' <=> Making(t))
    BY <1>0 DEF Entering, Making
  <2> QED BY <1>0, <1>1, <1>2, <1>5, <1>6, <2>1 DEF FlowInv, FlowTypes, SenderState, DpcState
<1>8. LifeMaking'
  BY <1>0, <1>1, <1>2, <1>3, <1>4, <1>5, <1>6, BucketKnown DEF FlowInv, RingLife, LifeMaking
<1>9. LifeAsked'
  BY <1>0, <1>1, <1>4, <1>5, <1>6 DEF FlowInv, RingLife, LifeAsked
<1>10. LifeOpen'
  <2>1. \A x \in Id : x /= i => (Open(x)' <=> Open(x))
    BY <1>6 DEF Open
  <2>2. \A x \in dev : x \in Id
    BY BucketKnown DEF FlowInv, FlowTypes
  <2> QED BY <1>0, <1>2, <1>4, <1>5, <1>6, <2>1, <2>2 DEF FlowInv, RingLife, LifeOpen
<1>11. LifeListed'
  BY <1>0, <1>2, <1>5 DEF FlowInv, RingLife, LifeListed
<1> QED BY <1>4, <1>7, <1>8, <1>9, <1>10, <1>11 DEF FlowInv, RingLife

\* Lemma: the created ring is listed.
LEMMA PushOpenedStep ==
  ASSUME FlowInv, PushOpened
  PROVE  FlowInv'
<1> DEFINE i == dpc.id
<1> USE DEF idVars, ctrlVars, setupVars, boundVars
<1>0. /\ dpc.at = "opened" /\ dpc' = [dpc EXCEPT !.at = "ctrl", !.id = 0]
      /\ active_list' = <<i>> \o active_list
      /\ UNCHANGED <<free_ids, fl_hash, overwritten, node, inited, max_flowid, role, sender, deleter, ctrl, dev>>
      /\ Known' = Known
  BY DEF PushOpened, DpcBack, Known
<1>1. i \in Known /\ i \in dev /\ ~Has(active_list, i)
  BY <1>0 DEF FlowInv, FlowTypes, RingLife, LifeListed
<1>2. \A t \in Sender, x \in Known : (Enters(t, x)' <=> Enters(t, x)) /\ (Maker(t, x)' <=> Maker(t, x))
  BY <1>0 DEF Enters, Entering, Maker, Making
<1>3. IdInOnePlace' /\ \A x : Entered(x)' <=> Entered(x)
  BY <1>0, <1>2, IdsKept DEF FlowInv
<1>4. /\ dpc' \in DpcState /\ dpc'.at = "ctrl"
      /\ \A x : ~Closing(x)' /\ ~Closing(x)
      /\ deleter'["event"].at = "idle"
  <2>1. dpc' \in DpcState /\ dpc'.at = "ctrl"
    BY <1>0 DEF FlowInv, FlowTypes, DpcState
  <2> QED BY <1>0, <2>1 DEF Closing, FlowInv, FlowTypes
<1>5. \A x : (Asked(x)' <=> Asked(x)) /\ (Open(x)' <=> Open(x))
  BY <1>0 DEF Asked, Open
<1> HIDE DEF i
<1>6. /\ active_list' \in Seq(Known) /\ Distinct(active_list')
      /\ \A x : Has(active_list', x) <=> Has(active_list, x) \/ x = i
  BY <1>0, <1>1, PrependHas DEF FlowInv, FlowTypes, RingLife, LifeListed
<1>7. FlowTypes'
  <2>1. \A t \in Sender : (Entering(t)' <=> Entering(t)) /\ (Making(t)' <=> Making(t))
    BY <1>0 DEF Entering, Making
  <2> QED BY <1>0, <1>4, <1>6, <2>1 DEF FlowInv, FlowTypes, SenderState, DpcState
<1>8. LifeMaking' /\ LifeAsked' /\ LifeOpen'
  BY <1>0, <1>2, <1>3, <1>4, <1>5 DEF FlowInv, RingLife, LifeMaking, LifeAsked, LifeOpen
<1>9. LifeListed'
  BY <1>0, <1>1, <1>4, <1>6 DEF FlowInv, RingLife, LifeListed
<1> QED BY <1>3, <1>7, <1>8, <1>9 DEF FlowInv, RingLife

\* Lemma: a ring that was deleted or not created is closed.
LEMMA CleanCloseStep ==
  ASSUME FlowInv, NEW i \in Id, CleanClose(i)
  PROVE  FlowInv'
<1> USE DEF idVars
<1>0. /\ dpc.at = "ctrl" /\ dpc' = [dpc EXCEPT !.at = "closed", !.id = i]
      /\ node' = [node EXCEPT ![i].status = "CLOSED", ![i].active = FALSE]
      /\ ctrl /= <<>> /\ ctrl' = Tail(ctrl) /\ dev' = dev \ {i}
      /\ Head(ctrl) = Ask(i) \/ i \in dev
      /\ UNCHANGED <<free_ids, fl_hash, overwritten, inited, active_list, max_flowid, role, sender, deleter>>
      /\ Known' = Known
  BY DEF CleanClose, Created, Deleted, Ask, setupVars, Known
<1>1. /\ ctrl' \in Seq({"CREATE", "DELETE"} \X Id) /\ AskedOnce(ctrl')
      /\ \A x : Asked(x)' => Asked(x)
      /\ Head(ctrl) = Ask(i) => Asked(i) /\ ~Asked(i)'
  BY <1>0, AnswerTaken
<1>2. /\ Entered(i) /\ inited[i] /\ i \in Known /\ ~Asked(i)'
      /\ \A t \in Sender : ~Maker(t, i)
  <2>1. Entered(i) /\ inited[i] /\ (Asked(i) => i \notin dev)
    BY <1>0, <1>1 DEF FlowInv, RingLife, LifeAsked, LifeOpen
  <2>2. i \in Known
    BY <2>1, BucketKnown DEF FlowInv
  <2>3. ~Asked(i)'
    BY <1>0, <1>1, <2>1
  <2> QED BY <1>0, <1>1, <2>1, <2>2, <2>3 DEF FlowInv, RingLife, LifeMaking
<1>3. \A t \in Sender, x \in Known : (Enters(t, x)' <=> Enters(t, x)) /\ (Maker(t, x)' <=> Maker(t, x))
  BY <1>0 DEF Enters, Entering, Maker, Making
<1>4. IdInOnePlace' /\ \A x : Entered(x)' <=> Entered(x)
  BY <1>0, <1>3, IdsKept DEF FlowInv
<1>5. /\ dpc' \in DpcState /\ dpc'.at = "closed" /\ dpc'.id = i
      /\ \A x : (Closing(x)' <=> x = i) /\ ~Closing(x)
      /\ deleter'["event"].at = "idle"
  <2>1. dpc' \in DpcState /\ dpc'.at = "closed" /\ dpc'.id = i
    BY <1>0, <1>2 DEF FlowInv, FlowTypes, DpcState
  <2> QED BY <1>0, <2>1 DEF Closing, FlowInv, FlowTypes
<1>6. /\ node'[i].status = "CLOSED"
      /\ \A x \in Id : x /= i => node'[x] = node[x]
      /\ node' \in [Id -> [status : Status, active : BOOLEAN, peer : Peer \cup {NoPeer}]]
  <2>1. "CLOSED" \in Status
    BY DEF Status
  <2> QED BY <1>0, <2>1, NodeStatus DEF FlowInv
<1>7. FlowTypes'
  <2>1. \A t \in Sender : (Entering(t)' <=> Entering(t)) /\ (Making(t)' <=> Making(t))
    BY <1>0 DEF Entering, Making
  <2> QED BY <1>0, <1>1, <1>2, <1>5, <1>6, <2>1 DEF FlowInv, FlowTypes, SenderState, DpcState
<1>8. LifeMaking'
  BY <1>0, <1>1, <1>2, <1>3, <1>4, <1>5, <1>6, BucketKnown DEF FlowInv, RingLife, LifeMaking
<1>9. LifeAsked'
  BY <1>0, <1>1, <1>2, <1>4, <1>5, <1>6 DEF FlowInv, RingLife, LifeAsked
<1>10. LifeOpen'
  <2>1. \A x \in Id : Open(x)' => Open(x) /\ x /= i
    BY <1>6 DEF Open
  <2>2. \A x \in dev : x \in Id
    BY BucketKnown DEF FlowInv, FlowTypes
  <2> QED BY <1>0, <1>2, <1>4, <1>5, <1>6, <2>1, <2>2 DEF FlowInv, RingLife, LifeOpen
<1>11. LifeListed'
  BY <1>0, <1>5 DEF FlowInv, RingLife, LifeListed
<1> QED BY <1>4, <1>7, <1>8, <1>9, <1>10, <1>11 DEF FlowInv, RingLife

\* Lemma: a closed ring goes back to the pool, and its id to the stack, unless
\* its entry was overwritten.
LEMMA CleanFreeStep ==
  ASSUME FlowInv, CleanFree
  PROVE  FlowInv'
<1> DEFINE i == dpc.id
<1> USE DEF ctrlVars, setupVars, boundVars
<1>0. /\ dpc.at = "closed" /\ dpc' = [dpc EXCEPT !.at = "ctrl", !.id = 0]
      /\ active_list' = Without(active_list, i)
      /\ inited' = [inited EXCEPT ![i] = FALSE]
      /\ UNCHANGED <<node, max_flowid, role, sender, deleter, ctrl, dev>>
      /\ Known' = Known
  BY DEF CleanFree, DpcBack, Known
<1>1. /\ i \in Known /\ i \in Id /\ Closing(i) /\ Entered(i)
      /\ ~Asked(i) /\ i \notin dev /\ ~Has(free_ids, i)
      /\ \A t \in Sender : ~Maker(t, i) /\ ~Enters(t, i)
  <2>1. i \in Known /\ i \in Id /\ Closing(i)
    BY <1>0, BucketKnown DEF FlowInv, FlowTypes, Closing
  <2>2. Entered(i) /\ ~Asked(i) /\ i \notin dev
    BY <2>1 DEF FlowInv, RingLife, LifeAsked, LifeOpen
  <2> QED BY <2>1, <2>2 DEF FlowInv, RingLife, LifeMaking, IdInOnePlace
<1>2. /\ fl_hash' \in [Peer -> Seq(Known)]
      /\ \A q \in Peer : Distinct(fl_hash'[q])
      /\ \A q \in Peer, x \in Known : Has(fl_hash'[q], x) <=> Has(fl_hash[q], x) /\ x /= i
      /\ free_ids' \in Seq(Known) /\ Distinct(free_ids') /\ overwritten' = overwritten
      /\ \/ (\A x : Has(free_ids', x) <=> Has(free_ids, x) \/ x = i) /\ i \notin overwritten
         \/ free_ids' = free_ids /\ i \in overwritten
  <2>1. CASE i \notin overwritten
    <3>1. PICK p \in Peer : /\ Has(fl_hash[p], i)
                            /\ fl_hash' = [fl_hash EXCEPT ![p] = Without(@, i)]
                            /\ free_ids' = Append(free_ids, i) /\ overwritten' = overwritten
      <4> DEFINE found == {q \in Peer : At(fl_hash[q], i) /= {}}
      <4>1. found /= {}
        BY <1>1, <2>1 DEF Entered, InBucket, Has
      <4>2. /\ \E q \in found : fl_hash' = [fl_hash EXCEPT ![q] = Without(@, i)]
            /\ free_ids' = Append(free_ids, i) /\ overwritten' = overwritten
        BY <4>1 DEF CleanFree
      <4> QED BY <4>2 DEF Has
    <3>2. /\ fl_hash \in [Peer -> Seq(Known)] /\ fl_hash[p] \in Seq(Known) /\ Distinct(fl_hash[p])
          /\ \A q \in Peer : Distinct(fl_hash[q])
      BY DEF FlowInv, FlowTypes, IdInOnePlace
    <3>3. /\ fl_hash'[p] = Without(fl_hash[p], i)
          /\ \A q \in Peer : q /= p => fl_hash'[q] = fl_hash[q]
      BY <3>1, <3>2
    <3> HIDE DEF i
    <3>4. /\ fl_hash'[p] \in Seq(Known) /\ Distinct(fl_hash'[p])
          /\ \A x : Has(fl_hash'[p], x) <=> Has(fl_hash[p], x) /\ x /= i
      BY <3>2, <3>3, WithoutHas
    <3>5. \A q \in Peer : q /= p => ~Has(fl_hash[q], i)
      BY <1>1, <3>1 DEF FlowInv, IdInOnePlace
    <3>6. /\ free_ids' \in Seq(Known) /\ Distinct(free_ids')
          /\ \A x : Has(free_ids', x) <=> Has(free_ids, x) \/ x = i
      BY <1>1, <3>1, AppendHas DEF FlowInv, FlowTypes, IdInOnePlace
    <3> QED BY <2>1, <3>1, <3>2, <3>3, <3>4, <3>5, <3>6
  <2>2. CASE i \in overwritten
    <3>1. \A q \in Peer : ~Has(fl_hash[q], i)
      BY <2>2 DEF FlowInv, IdInOnePlace, InBucket
    <3>2. {q \in Peer : At(fl_hash[q], i) /= {}} = {}
      BY <3>1 DEF Has
    <3>3. UNCHANGED idVars
      BY <3>2 DEF CleanFree
    <3> QED BY <2>2, <3>1, <3>3 DEF idVars, FlowInv, FlowTypes, IdInOnePlace
  <2> QED BY <2>1, <2>2
<1> HIDE DEF i
<1>5. /\ active_list' \in Seq(Known) /\ Distinct(active_list')
      /\ \A x : Has(active_list', x) <=> Has(active_list, x) /\ x /= i
  BY <1>0, WithoutHas DEF FlowInv, FlowTypes, RingLife, LifeListed
<1>6. \A t \in Sender, x \in Known : (Enters(t, x)' <=> Enters(t, x)) /\ (Maker(t, x)' <=> Maker(t, x))
  BY <1>0 DEF Enters, Entering, Maker, Making
<1>7. /\ \A x \in Known : Entered(x)' <=> Entered(x) /\ (x /= i \/ i \in overwritten)
      /\ \A x : (Asked(x)' <=> Asked(x)) /\ (Open(x)' <=> Open(x))
      /\ \A x \in overwritten' : ~InBucket(x)'
  <2>1. \A x \in Known : InBucket(x)' <=> InBucket(x) /\ x /= i
    BY <1>0, <1>2 DEF InBucket
  <2>2. \A x \in overwritten : x \in Known /\ ~InBucket(x)
    BY DEF FlowInv, FlowTypes, IdInOnePlace
  <2>3. \A x \in Known : Entered(x)' <=> Entered(x) /\ (x /= i \/ i \in overwritten)
    BY <1>2, <2>1 DEF Entered
  <2> QED BY <1>0, <1>2, <2>1, <2>2, <2>3 DEF Asked, Open
<1>8. /\ dpc' \in DpcState /\ dpc'.at = "ctrl"
      /\ \A x : ~Closing(x)' /\ (Closing(x) <=> x = i)
      /\ deleter'["event"].at = "idle"
  <2>1. dpc' \in DpcState /\ dpc'.at = "ctrl"
    BY <1>0 DEF FlowInv, FlowTypes, DpcState
  <2> QED BY <1>0, <2>1 DEF Closing, FlowInv, FlowTypes, i
<1>9. inited' \in [Id -> BOOLEAN] /\ \A x \in Id : x /= i => inited'[x] = inited[x]
  BY <1>0, <1>1 DEF FlowInv, FlowTypes
<1>10. FlowTypes'
  <2>1. \A t \in Sender : (Entering(t)' <=> Entering(t)) /\ (Making(t)' <=> Making(t))
    BY <1>0 DEF Entering, Making
  <2> QED BY <1>0, <1>2, <1>5, <1>8, <1>9, <2>1 DEF FlowInv, FlowTypes, SenderState, DpcState
<1>11. IdInOnePlace'
  <2>1. \A q, r \in Peer, x \in Known : Has(fl_hash'[q], x) /\ Has(fl_hash'[r], x) => q = r
    BY <1>2 DEF FlowInv, IdInOnePlace
  <2>2. \A x \in Known : Has(free_ids', x) => ~Entered(x)'
    BY <1>2, <1>7 DEF FlowInv, IdInOnePlace
  <2>3. \A t, u \in Sender, x \in Known : Enters(t, x)' /\ Enters(u, x)' => t = u
    BY <1>6 DEF FlowInv, IdInOnePlace
  <2>4. \A t \in Sender, x \in Known : Enters(t, x)' => ~Has(free_ids', x) /\ ~Entered(x)'
    BY <1>1, <1>2, <1>6, <1>7 DEF FlowInv, IdInOnePlace
  <2>5. \A x \in Known : Has(free_ids', x) \/ Entered(x)' \/ \E t \in Sender : Enters(t, x)'
    BY <1>1, <1>2, <1>6, <1>7 DEF FlowInv, IdInOnePlace
  <2> QED BY <1>0, <1>2, <1>7, <2>1, <2>2, <2>3, <2>4, <2>5 DEF IdInOnePlace
<1>12. LifeMaking'
  BY <1>0, <1>1, <1>6, <1>7, <1>8 DEF FlowInv, RingLife, LifeMaking
<1>13. LifeAsked'
  <2>1. \A x \in Id : Asked(x) => x \in Known /\ x /= i
    BY <1>1, BucketKnown DEF FlowInv, RingLife, LifeAsked
  <2> QED BY <1>0, <1>7, <1>8, <1>9, <2>1 DEF FlowInv, RingLife, LifeAsked
<1>14. LifeOpen'
  <2>1. \A x \in dev : x \in Id /\ x \in Known /\ x /= i
    BY <1>1, BucketKnown DEF FlowInv, FlowTypes
  <2> QED BY <1>0, <1>7, <1>8, <1>9, <2>1 DEF FlowInv, RingLife, LifeOpen
<1>15. LifeListed'
  BY <1>0, <1>5, <1>8 DEF FlowInv, RingLife, LifeListed
<1> QED BY <1>10, <1>11, <1>12, <1>13, <1>14, <1>15 DEF FlowInv, RingLife

----------------------------------------------------------------------------
(* The invariant, and what it says.                                        *)

\* Lemma: every step keeps the invariant.
LEMMA FlowStepInv == FlowInv /\ [FlowNext]_flowVars => FlowInv'
<1> SUFFICES ASSUME FlowInv, [FlowNext]_flowVars
             PROVE  FlowInv'
  OBVIOUS
<1>1. CASE UNCHANGED flowVars
  <2>1. UNCHANGED <<idVars, node, inited, active_list, max_flowid, role, sender, ctrl, dev, deleter, dpc>>
    BY <1>1 DEF flowVars, ringVars, setupVars, ctrlVars, dpcVars
  <2>2. /\ deleter \in [Deleter -> DeleterState]
        /\ \A d \in Deleter : deleter[d].at \in {"request", "send"} => deleter[d].id \in Id
        /\ deleter["event"].at /= "idle" => dpc.at = "event"
    BY DEF FlowInv, FlowTypes
  <2> QED BY <2>1, <2>2, AsideQuiet
<1>2. CASE \E s \in Sender : (\E p \in Peer : FindFlow(s, p)) \/ FlowSenderStep(s)
  <2>1. PICK s \in Sender : (\E p \in Peer : FindFlow(s, p)) \/ FlowSenderStep(s)
    BY <1>2
  <2>2. CASE AllocId(s)
    BY <2>2, AllocStep, QuietSteps
  <2>3. CASE InsertId(s)
    BY <2>3, InsertStep
  <2>4. CASE InitNode(s)
    BY <2>4, InitNodeStep
  <2>5. CASE CreateRequest(s)
    BY <2>5, CreateRequestStep
  <2>6. CASE CreateNoSpace(s)
    BY <2>6, CreateNoSpaceStep
  <2>7. CASE CreateFailed(s)
    BY <2>7, CreateFailedStep
  <2>8. CASE \/ \E p \in Peer : FindFlow(s, p)
             \/ LookupStatus(s) \/ TxData(s) \/ LookStatus(s) \/ PushQueue(s) \/ QueueAgain(s)
    BY <2>8, QuietSteps
  <2> QED BY <2>1, <2>2, <2>3, <2>4, <2>5, <2>6, <2>7, <2>8 DEF FlowSenderStep
<1>3. CASE (\E p \in Peer : PeerGone(p) \/ PeerBack(p)) \/ IfaceDelete
  BY <1>3, ScanSteps
<1>4. CASE \E d \in Deleter : FlowDeleterStep(d)
  <2>1. PICK d \in Deleter : FlowDeleterStep(d)
    BY <1>4
  <2>2. CASE ScanRing(d) \/ ScanEnd(d) \/ SendDeleteNoSpace(d)
    BY <2>2, ScanSteps
  <2>3. CASE SendDelete(d)
    BY <2>3, MessageSteps
  <2>4. CASE DeletePending(d)
    <3>1. CASE node' = node
      <4>1. CASE DeleterBack(d)
        BY <2>4, <3>1, <4>1, ScanSteps
      <4>2. CASE ~DeleterBack(d)
        <5>1. node' = [node EXCEPT ![deleter[d].id].status = "DELETE_PENDING"]
              /\ node[deleter[d].id].status /= "DELETE_PENDING"
          BY <2>4, <4>2 DEF DeletePending
        <5>2. deleter[d].id \in Id
          BY <2>4 DEF DeletePending, FlowInv, FlowTypes
        <5>3. "DELETE_PENDING" \in Status
          BY DEF Status
        <5>4. node'[deleter[d].id].status = "DELETE_PENDING"
          BY <5>1, <5>2, <5>3, NodeStatus DEF FlowInv
        <5> QED BY <3>1, <5>1, <5>4
      <4> QED BY <4>1, <4>2
    <3>2. CASE node' /= node
      BY <2>4, <3>2, MarkStep
    <3> QED BY <3>1, <3>2
  <2> QED BY <2>1, <2>2, <2>3, <2>4 DEF FlowDeleterStep
<1>5. CASE DongleStep
  BY <1>5, DpcQuiet
<1>6. CASE FlowDpcStep
  <2>1. CASE \E i \in Id : CreateResponse(i) \/ DeleteRefused(i) \/ CleanClose(i)
    <3>1. PICK i \in Id : CreateResponse(i) \/ DeleteRefused(i) \/ CleanClose(i)
      BY <2>1
    <3>2. CASE CreateResponse(i)
      BY <3>2, CreateResponseStep
    <3>3. CASE DeleteRefused(i)
      BY <3>3, MessageSteps
    <3>4. CASE CleanClose(i)
      BY <3>4, CleanCloseStep
    <3> QED BY <3>1, <3>2, <3>3, <3>4
  <2>2. CASE FlowDpcBegin \/ CtrlEnd \/ UpdateRing \/ FlowDpcEnd
    BY <2>2, DpcQuiet
  <2>3. CASE PushOpened
    BY <2>3, PushOpenedStep
  <2>4. CASE CleanFree
    BY <2>4, CleanFreeStep
  <2> QED BY <1>6, <2>1, <2>2, <2>3, <2>4 DEF FlowDpcStep
<1> QED BY <1>1, <1>2, <1>3, <1>4, <1>5, <1>6 DEF FlowNext

\* Lemma: the invariant holds in every state.
LEMMA FlowAlways == FlowSpec => []FlowInv
<1>1. FlowInit => FlowInv
  BY FlowInitInv
<1>2. FlowInv /\ [FlowNext]_flowVars => FlowInv'
  BY FlowStepInv
<1> QED BY <1>1, <1>2, PTL DEF FlowSpec

\* Theorem (dhd_flowid_alloc, dhd_flowid_free): the separate holds of
\* flowid_lock put no flow id in two places, and lose none but those of a
\* station that another sender overwrote, with any number of senders, peers
\* and ids.
THEOREM FlowIdsOwned == FlowSpec => []IdOwnership
<1>1. ASSUME FlowInv PROVE IdOwnership
  <2> SUFFICES ASSUME NEW i \in Known
               PROVE  Cardinality(Places(i)) = IF i \in overwritten THEN 0 ELSE 1
    BY <1>1 DEF IdOwnership, Known, FlowInv, FlowTypes
  <2>1. ~Has(free_ids, i) => OnStack(i) = {}
    BY DEF Has, OnStack
  <2>2. ~InBucket(i) => InBuckets(i) = {}
    BY DEF InBucket, Has, InBuckets
  <2>3. (\A t \in Sender : ~Enters(t, i)) => WithSenders(i) = {}
    BY DEF Enters, Entering, WithSenders
  <2>4. CASE Has(free_ids, i)
    <3>1. PICK k \in DOMAIN free_ids : free_ids[k] = i
      BY <2>4, HasIndex
    <3>2. At(free_ids, i) = {k}
      BY <1>1, <3>1 DEF At, FlowInv, IdInOnePlace, Distinct
    <3>3. ~InBucket(i) /\ i \notin overwritten /\ \A t \in Sender : ~Enters(t, i)
      BY <1>1, <2>4 DEF FlowInv, IdInOnePlace, Entered
    <3>4. OnStack(i) = {<<"stack", NoPeer, k>>}
      BY <3>2 DEF OnStack
    <3>5. Places(i) = {<<"stack", NoPeer, k>>}
      BY <2>2, <2>3, <3>3, <3>4 DEF Places
    <3> QED BY <3>3, <3>5, FS_Singleton
  <2>5. CASE InBucket(i)
    <3>1. PICK p \in Peer : Has(fl_hash[p], i)
      BY <2>5 DEF InBucket
    <3>2. PICK k \in DOMAIN fl_hash[p] : fl_hash[p][k] = i
      BY <3>1, HasIndex
    <3>3. At(fl_hash[p], i) = {k}
      BY <1>1, <3>2 DEF At, FlowInv, IdInOnePlace, Distinct
    <3>4. \A q \in Peer : q /= p => At(fl_hash[q], i) = {}
      BY <1>1, <3>1 DEF FlowInv, IdInOnePlace, Has
    <3>5. InBuckets(i) = {<<"bucket", p, k>>}
      BY <3>3, <3>4 DEF InBuckets
    <3>6. /\ ~Has(free_ids, i) /\ i \notin overwritten
          /\ \A t \in Sender : ~Enters(t, i)
      BY <1>1, <2>5 DEF FlowInv, IdInOnePlace, Entered
    <3>7. Places(i) = {<<"bucket", p, k>>}
      BY <2>1, <2>3, <3>5, <3>6 DEF Places
    <3> QED BY <3>6, <3>7, FS_Singleton
  <2>6. CASE \E s \in Sender : Enters(s, i)
    <3>1. PICK s \in Sender : Enters(s, i)
      BY <2>6
    <3>2. {t \in Sender : sender[t].at = "insert" /\ sender[t].id = i} = {s}
      BY <1>1, <3>1 DEF FlowInv, IdInOnePlace, Enters, Entering
    <3>3. WithSenders(i) = {<<"sender", NoPeer, s>>}
      BY <3>2 DEF WithSenders
    <3>4. ~Has(free_ids, i) /\ ~InBucket(i) /\ i \notin overwritten
      BY <1>1, <3>1 DEF FlowInv, IdInOnePlace, Entered
    <3>5. Places(i) = {<<"sender", NoPeer, s>>}
      BY <2>1, <2>2, <3>3, <3>4 DEF Places
    <3> QED BY <3>4, <3>5, FS_Singleton
  <2>7. CASE i \in overwritten
    <3>1. ~InBucket(i) /\ ~Has(free_ids, i) /\ \A t \in Sender : ~Enters(t, i)
      BY <1>1, <2>7 DEF FlowInv, IdInOnePlace, Entered
    <3>2. Places(i) = {}
      BY <2>1, <2>2, <2>3, <3>1 DEF Places
    <3> QED BY <2>7, <3>2, FS_EmptySet
  <2> QED BY <1>1, <2>4, <2>5, <2>6, <2>7 DEF FlowInv, IdInOnePlace, Entered
<1>2. FlowInv => IdOwnership
  BY <1>1
<1> QED BY <1>2, FlowAlways, PTL

\* Theorem (dhd_bus_schedule_queue, dhd_update_txflowrings): the host writes
\* only to rings that are fetched from the pool, whoever makes, marks and
\* deletes rings meanwhile; the active list holds no ring twice and none that
\* has gone back.
THEOREM FlowRingsHeld == FlowSpec => []RingHeld
<1>1. ASSUME FlowInv PROVE RingHeld
  <2> SUFFICES ASSUME NEW i \in Id
               PROVE  /\ Open(i) => inited[i] /\ node[i].active
                      /\ Cardinality(At(active_list, i)) <= 1
                      /\ At(active_list, i) /= {} => inited[i]
    BY DEF RingHeld
  <2>1. Open(i) => inited[i] /\ node[i].active
    BY <1>1 DEF FlowInv, RingLife, LifeOpen
  <2>2. At(active_list, i) /= {} => inited[i]
    <3>1. Has(active_list, i) => i \in Known
      BY <1>1, HasMember DEF FlowInv, FlowTypes
    <3> QED BY <1>1, <3>1 DEF FlowInv, RingLife, LifeOpen, LifeListed, Has
  <2>3. Cardinality(At(active_list, i)) <= 1
    <3>1. CASE At(active_list, i) = {}
      <4>1. Cardinality(At(active_list, i)) = 0
        BY <3>1, FS_EmptySet
      <4> QED BY <4>1
    <3>2. CASE At(active_list, i) /= {}
      <4>1. PICK k \in DOMAIN active_list : active_list[k] = i
        BY <3>2 DEF At
      <4>2. At(active_list, i) = {k}
        BY <1>1, <4>1 DEF At, FlowInv, RingLife, LifeListed, Distinct
      <4>3. Cardinality(At(active_list, i)) = 1
        BY <4>2, FS_Singleton
      <4> QED BY <4>3
    <3> QED BY <3>1, <3>2
  <2> QED BY <2>1, <2>2, <2>3
<1>2. FlowInv => RingHeld
  BY <1>1
<1> QED BY <1>2, FlowAlways, PTL

=============================================================================
