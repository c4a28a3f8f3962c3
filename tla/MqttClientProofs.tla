------------------------ MODULE MqttClientProofs ------------------------
(***************************************************************************)
(* The engine for every value of the constants.                            *)
(*                                                                         *)
(* Its bookkeeping: its variables keep their types, the tries of a packet  *)
(* and its DUP flag are right, the keep-alive is honoured, and a session   *)
(* gets one CONNECT.                                                       *)
(*                                                                         *)
(* What it does with a published message: with at least two tries for a    *)
(* packet (the code has three) the queue loses and doubles none, however   *)
(* long a turn of the main loop takes; of a completed message the broker   *)
(* has a copy, as long as the identifier counter has not wrapped; the      *)
(* engine of a publisher that makes fewer calls than there are identifiers *)
(* implements the contract Delivery; and first copies leave in the order   *)
(* of the calls.                                                           *)
(*                                                                         *)
(* And what becomes of an exchange on its way along the queue, the batch,  *)
(* the connection, the broker and back: no answer comes unasked, no        *)
(* acknowledgement reaches a session that does not wait for it, and a      *)
(* session passes no message of QoS 0 or 2 on twice.                       *)
(***************************************************************************)
EXTENDS MqttClient, FiniteSetTheorems, SequenceTheorems, TLAPS

-----------------------------------------------------------------------------
(* What deleting nodes in one walk over the queue preserves: for every     *)
(* queue s and every set K of indices that stay, KeepAt(s, K) has one      *)
(* element for each index of K, and keeps their order.                     *)

(* Every set of positions of a queue is finite.                            *)
LEMMA IndexSetFinite ==
  ASSUME NEW n \in Nat, NEW K \in SUBSET (1..n)
  PROVE  IsFiniteSet(K) /\ Cardinality(K) \in Nat
<1>1. IsFiniteSet(1..n)
  BY FS_Interval
<1> QED
  BY <1>1, FS_Subset, FS_CardinalityType

LEMMA IndexInt ==
  ASSUME NEW n \in Nat, NEW K \in SUBSET (1..n), NEW i \in K
  PROVE  i \in Int /\ i >= 1
<1>1. i \in 1..n
  OBVIOUS
<1> QED
  BY <1>1

(* Ranks are positions of the new queue, and grow with the old position.   *)
LEMMA RankType ==
  ASSUME NEW n \in Nat, NEW K \in SUBSET (1..n), NEW i \in K
  PROVE  Rank(K, i) \in 1..Cardinality(K)
<1> DEFINE B == {k \in K : k <= i}
<1>1. IsFiniteSet(K) /\ Cardinality(K) \in Nat
  BY IndexSetFinite
<1>2. B \in SUBSET K /\ i \in B
  OBVIOUS
<1>3. IsFiniteSet(B) /\ Cardinality(B) <= Cardinality(K)
  BY <1>1, <1>2, FS_Subset
<1>4. Cardinality(B) \in Nat
  BY <1>3, FS_CardinalityType
<1>5. Cardinality(B) # 0
  BY <1>2, <1>3, FS_EmptySet
<1> QED
  BY <1>1, <1>3, <1>4, <1>5 DEF Rank

LEMMA RankMonotone ==
  ASSUME NEW n \in Nat, NEW K \in SUBSET (1..n), NEW i \in K, NEW j \in K, i < j
  PROVE  Rank(K, i) < Rank(K, j)
<1> DEFINE A == {k \in K : k <= i}
           B == {k \in K : k <= j}
<1>1. IsFiniteSet(K)
  BY IndexSetFinite
<1>2. IsFiniteSet(A) /\ IsFiniteSet(B)
  BY <1>1, FS_Subset
<1>3. A \in SUBSET B /\ j \in B /\ j \notin A
  <2>1. i \in Int /\ j \in Int /\ \A k \in K : k \in Int
    BY IndexInt
  <2>2. \A k \in K : k <= i => k <= j
    BY <2>1
  <2>3. ~(j <= i)
    BY <2>1
  <2>4. j <= j
    BY <2>1
  <2> QED
    BY <2>2, <2>3, <2>4
<1>4. Cardinality(A) <= Cardinality(B) /\ Cardinality(A) # Cardinality(B)
  BY <1>2, <1>3, FS_Subset
<1>5. Cardinality(A) \in Nat /\ Cardinality(B) \in Nat
  BY <1>2, FS_CardinalityType
<1> QED
  BY <1>4, <1>5 DEF Rank

(* Every position of the new queue is the rank of a kept one: by the       *)
(* pigeonhole principle, since different positions have different ranks.   *)
LEMMA RankOnto ==
  ASSUME NEW n \in Nat, NEW K \in SUBSET (1..n), NEW j \in 1..Cardinality(K)
  PROVE  \E i \in K : Rank(K, i) = j
<1> DEFINE T == (1..Cardinality(K)) \ {j}
           f == [i \in K |-> Rank(K, i)]
<1> SUFFICES ASSUME \A i \in K : Rank(K, i) # j
             PROVE  FALSE
  OBVIOUS
<1>1. IsFiniteSet(K) /\ Cardinality(K) \in Nat
  BY IndexSetFinite
<1>2. /\ IsFiniteSet(1..Cardinality(K))
      /\ Cardinality(1..Cardinality(K)) = Cardinality(K)
  <2>1. Cardinality(K) >= 1
    BY <1>1
  <2> QED
    BY <1>1, <2>1, FS_Interval
<1>3. IsFiniteSet(T) /\ Cardinality(T) = Cardinality(K) - 1
  BY <1>2, FS_RemoveElement
<1>4. Cardinality(T) < Cardinality(K)
  BY <1>1, <1>3
<1>5. f \in [K -> T]
  BY RankType
<1>6. PICK x, y \in K : x # y /\ f[x] = f[y]
  <2> HIDE DEF f, T
  <2> QED
    BY <1>1, <1>3, <1>4, <1>5, FS_PigeonHole
<1>7. Rank(K, x) = Rank(K, y)
  BY <1>6
<1>8. x \in Int /\ y \in Int /\ Rank(K, x) \in Int /\ Rank(K, y) \in Int
  <2>1. Rank(K, x) \in 1..Cardinality(K) /\ Rank(K, y) \in 1..Cardinality(K)
    BY RankType
  <2> QED
    BY <2>1
<1>9. CASE x < y
  <2>1. Rank(K, x) < Rank(K, y)
    BY <1>9, RankMonotone
  <2> QED
    BY <1>7, <1>8, <2>1
<1>10. CASE y < x
  <2>1. Rank(K, y) < Rank(K, x)
    BY <1>10, RankMonotone
  <2> QED
    BY <1>7, <1>8, <2>1
<1> QED
  BY <1>6, <1>8, <1>9, <1>10

LEMMA NthInKept ==
  ASSUME NEW n \in Nat, NEW K \in SUBSET (1..n), NEW j \in 1..Cardinality(K)
  PROVE  Nth(K, j) \in K /\ Rank(K, Nth(K, j)) = j
BY RankOnto DEF Nth

LEMMA NthOfRank ==
  ASSUME NEW n \in Nat, NEW K \in SUBSET (1..n), NEW i \in K
  PROVE  Nth(K, Rank(K, i)) = i
<1> DEFINE k == Nth(K, Rank(K, i))
<1>1. Rank(K, i) \in 1..Cardinality(K)
  BY RankType
<1>2. k \in K /\ Rank(K, k) = Rank(K, i)
  BY <1>1, NthInKept
<1> HIDE DEF k
<1>3. k \in Int /\ i \in Int /\ Rank(K, i) \in Int
  BY <1>1, <1>2, IndexInt
<1>4. ~(k < i)
  <2> SUFFICES ASSUME k < i PROVE FALSE
    OBVIOUS
  <2>1. Rank(K, k) < Rank(K, i)
    BY <1>2, RankMonotone
  <2> QED
    BY <1>2, <1>3, <2>1
<1>5. ~(i < k)
  <2> SUFFICES ASSUME i < k PROVE FALSE
    OBVIOUS
  <2>1. Rank(K, i) < Rank(K, k)
    BY <1>2, RankMonotone
  <2> QED
    BY <1>2, <1>3, <2>1
<1> QED
  BY <1>3, <1>4, <1>5 DEF k

(* The walk keeps the order of what stays.                                 *)
LEMMA NthMonotone ==
  ASSUME NEW n \in Nat, NEW K \in SUBSET (1..n),
         NEW i \in 1..Cardinality(K), NEW j \in 1..Cardinality(K), i < j
  PROVE  Nth(K, i) < Nth(K, j)
<1> DEFINE x == Nth(K, i)
           y == Nth(K, j)
<1>1. x \in K /\ y \in K /\ Rank(K, x) = i /\ Rank(K, y) = j
  BY NthInKept
<1> HIDE DEF x, y
<1>2. x \in Int /\ y \in Int
  BY <1>1, IndexInt
<1>3. x # y
  BY <1>1
<1>4. ~(y < x)
  <2> SUFFICES ASSUME y < x PROVE FALSE
    OBVIOUS
  <2>1. Rank(K, y) < Rank(K, x)
    BY <1>1, RankMonotone
  <2>2. i \in Int /\ j \in Int
    BY IndexSetFinite
  <2> QED
    BY <1>1, <2>1, <2>2
<1> QED
  BY <1>2, <1>3, <1>4 DEF x, y

(* What a walk leaves: as many nodes as indices kept, each of them an old  *)
(* node, and every kept node at the position of its rank                   *)
(* (mqtt_cli_outgoing, _erase_padding).                                    *)
THEOREM KeepAtProperties ==
  ASSUME NEW S, NEW s \in Seq(S), NEW K \in SUBSET (DOMAIN s)
  PROVE  /\ KeepAt(s, K) \in Seq(S)
         /\ Len(KeepAt(s, K)) = Cardinality(K)
         /\ \A j \in DOMAIN KeepAt(s, K) :
              Nth(K, j) \in K /\ KeepAt(s, K)[j] = s[Nth(K, j)]
         /\ \A i \in K : /\ Rank(K, i) \in DOMAIN KeepAt(s, K)
                         /\ KeepAt(s, K)[Rank(K, i)] = s[i]
<1> DEFINE n == Len(s)
           c == Cardinality(K)
           t == KeepAt(s, K)
<1>1. n \in Nat /\ DOMAIN s = 1..n
  OBVIOUS
<1>2. K \in SUBSET (1..n)
  BY <1>1
<1>3. c \in Nat
  BY <1>1, <1>2, IndexSetFinite
<1>4. \A j \in 1..c : Nth(K, j) \in K
  BY <1>1, <1>2, NthInKept
<1>5. t = [j \in 1..c |-> s[Nth(K, j)]]
  BY DEF KeepAt
<1>6. \A j \in 1..c : s[Nth(K, j)] \in S
  BY <1>1, <1>4
<1>7. t \in Seq(S) /\ Len(t) = c /\ DOMAIN t = 1..c
  <2> HIDE DEF c, t
  <2>1. t \in [1..c -> S]
    BY <1>5, <1>6
  <2> QED
    BY <1>3, <2>1
<1>8. \A i \in K : Rank(K, i) \in 1..c /\ Nth(K, Rank(K, i)) = i
  BY <1>1, <1>2, RankType, NthOfRank
<1> QED
  BY <1>4, <1>5, <1>7, <1>8

(* The walk that removes nodes keeps the others once.                      *)
LEMMA KeepAtOnce ==
  ASSUME NEW S, NEW s \in Seq(S), NEW K \in SUBSET (DOMAIN s)
  PROVE  /\ \A j \in DOMAIN KeepAt(s, K) :
              Nth(K, j) \in K /\ KeepAt(s, K)[j] = s[Nth(K, j)]
         /\ \A i, j \in DOMAIN KeepAt(s, K) : Nth(K, i) = Nth(K, j) => i = j
         /\ \A i \in K : \E j \in DOMAIN KeepAt(s, K) : KeepAt(s, K)[j] = s[i]
<1>1. Len(s) \in Nat /\ K \in SUBSET (1..Len(s))
  OBVIOUS
<1>2. DOMAIN KeepAt(s, K) = 1..Cardinality(K) /\ Cardinality(K) \in Nat
  BY <1>1, IndexSetFinite DEF KeepAt
<1>3. ASSUME NEW i \in 1..Cardinality(K), NEW j \in 1..Cardinality(K),
             Nth(K, i) = Nth(K, j)
      PROVE  i = j
  <2>1. Nth(K, i) \in Int /\ Nth(K, j) \in Int
    BY <1>1, NthInKept, IndexInt
  <2>2. i < j => Nth(K, i) < Nth(K, j)
    BY <1>1, NthMonotone
  <2>3. j < i => Nth(K, j) < Nth(K, i)
    BY <1>1, NthMonotone
  <2>4. ~(i < j) /\ ~(j < i)
    BY <1>3, <2>1, <2>2, <2>3
  <2> QED
    BY <1>2, <2>4
<1>4. \A j \in DOMAIN KeepAt(s, K) :
        Nth(K, j) \in K /\ KeepAt(s, K)[j] = s[Nth(K, j)]
  BY KeepAtProperties
<1>5. ASSUME NEW i \in K PROVE \E j \in DOMAIN KeepAt(s, K) : KeepAt(s, K)[j] = s[i]
  <2>1. Rank(K, i) \in DOMAIN KeepAt(s, K) /\ KeepAt(s, K)[Rank(K, i)] = s[i]
    BY KeepAtProperties
  <2> QED
    BY <2>1
<1> QED
  BY <1>2, <1>3, <1>4, <1>5

-----------------------------------------------------------------------------
(* Types, and lemmas about the operations on the queue.                    *)

(* A non-empty set of positions has a first one.                           *)
LEMMA FirstOfProperties ==
  ASSUME NEW n \in Nat, NEW K \in SUBSET (1..n), K # {}
  PROVE  FirstOf(K) \in K /\ \A j \in K : FirstOf(K) <= j
<1>1. PICK k \in K : TRUE
  OBVIOUS
<1>2. 1 \in 1..Cardinality(K)
  <2>1. Rank(K, k) \in 1..Cardinality(K)
    BY RankType
  <2>2. Cardinality(K) \in Nat
    BY IndexSetFinite
  <2> QED
    BY <2>1, <2>2
<1> DEFINE f == Nth(K, 1)
<1>3. f \in K /\ Rank(K, f) = 1
  BY <1>2, NthInKept
<1> HIDE DEF f
<1>4. ASSUME NEW j \in K
      PROVE  f <= j
  <2>1. f \in Int /\ j \in Int
    BY <1>3, IndexInt
  <2>2. ~(j < f)
    <3> SUFFICES ASSUME j < f PROVE FALSE
      OBVIOUS
    <3>1. Rank(K, j) < Rank(K, f)
      BY <1>3, RankMonotone
    <3>2. Rank(K, j) \in 1..Cardinality(K) /\ Cardinality(K) \in Nat
      BY RankType, IndexSetFinite
    <3> QED
      BY <1>3, <3>1, <3>2
  <2> QED
    BY <2>1, <2>2
<1> QED
  BY <1>3, <1>4 DEF FirstOf

(* The elements of a sequence, and of what is made of it.                  *)
Elems(s) == {s[i] : i \in DOMAIN s}

LEMMA ElemsType ==
  ASSUME NEW S, NEW s \in Seq(S)
  PROVE  Elems(s) \subseteq S
BY ElementOfSeq DEF Elems

LEMMA ElemsTail ==
  ASSUME NEW S, NEW s \in Seq(S), s # <<>>
  PROVE  Elems(Tail(s)) \subseteq Elems(s) /\ Head(s) \in Elems(s)
<1>1. Len(s) \in Nat /\ Len(s) >= 1 /\ Len(Tail(s)) = Len(s) - 1
      /\ \A i \in 1..Len(s) - 1 : Tail(s)[i] = s[i + 1]
  OBVIOUS
<1>2. DOMAIN Tail(s) = 1..Len(s) - 1 /\ DOMAIN s = 1..Len(s) /\ Head(s) = s[1]
  BY <1>1
<1>3. \A i \in 1..Len(s) - 1 : i + 1 \in 1..Len(s)
  BY <1>1
<1>4. 1 \in DOMAIN s
  BY <1>1, <1>2
<1> QED
  BY <1>1, <1>2, <1>3, <1>4 DEF Elems

LEMMA ElemsConcat ==
  ASSUME NEW S, NEW s \in Seq(S), NEW t \in Seq(S)
  PROVE  Elems(s \o t) \subseteq Elems(s) \cup Elems(t)
<1>1. Len(s) \in Nat /\ Len(t) \in Nat
      /\ DOMAIN (s \o t) = 1..Len(s) + Len(t) /\ DOMAIN t = 1..Len(t) /\ DOMAIN s = 1..Len(s)
  OBVIOUS
<1>2. \A i \in 1..Len(s) + Len(t) :
        (s \o t)[i] = IF i <= Len(s) THEN s[i] ELSE t[i - Len(s)]
  OBVIOUS
<1>3. \A i \in 1..Len(s) + Len(t) : i <= Len(s) \/ i - Len(s) \in 1..Len(t)
  BY <1>1
<1>4. \A i \in 1..Len(s) + Len(t) : i <= Len(s) => i \in 1..Len(s)
  BY <1>1
<1> QED
  BY <1>1, <1>2, <1>3, <1>4 DEF Elems

LEMMA ElemsSub ==
  ASSUME NEW S, NEW s \in Seq(S), NEW k \in 1..Len(s)
  PROVE  /\ SubSeq(s, 1, k) \in Seq(S) /\ Elems(SubSeq(s, 1, k)) \subseteq Elems(s)
         /\ SubSeq(s, k + 1, Len(s)) \in Seq(S)
         /\ Elems(SubSeq(s, k + 1, Len(s))) \subseteq Elems(s)
<1>1. /\ SubSeq(s, 1, k) \in Seq(S) /\ DOMAIN SubSeq(s, 1, k) = 1..k
      /\ \A i \in 1..k : SubSeq(s, 1, k)[i] = s[i]
  OBVIOUS
<1>2. /\ SubSeq(s, k + 1, Len(s)) \in Seq(S)
      /\ DOMAIN SubSeq(s, k + 1, Len(s)) = 1..Len(s) - k
      /\ \A i \in 1..Len(s) - k : SubSeq(s, k + 1, Len(s))[i] = s[k + i]
  OBVIOUS
<1>3. DOMAIN s = 1..Len(s) /\ (\A i \in 1..k : i \in 1..Len(s))
      /\ \A i \in 1..Len(s) - k : k + i \in 1..Len(s)
  OBVIOUS
<1> QED
  BY <1>1, <1>2, <1>3 DEF Elems

LEMMA ElemsOne ==
  ASSUME NEW S, NEW s \in Seq(S), NEW e \in S
  PROVE  Elems(Append(s, e)) \subseteq Elems(s) \cup {e}
<1>1. DOMAIN Append(s, e) = 1..Len(s) + 1 /\ DOMAIN s = 1..Len(s) /\ Len(s) \in Nat
      /\ Append(s, e)[Len(s) + 1] = e /\ \A i \in 1..Len(s) : Append(s, e)[i] = s[i]
  OBVIOUS
<1>2. \A i \in 1..Len(s) + 1 : i \in 1..Len(s) \/ i = Len(s) + 1
  BY <1>1
<1> QED
  BY <1>1, <1>2 DEF Elems

LEMMA ElemsSingle ==
  ASSUME NEW S, NEW e \in S
  PROVE  <<e>> \in Seq(S) /\ Elems(<<e>>) = {e}
<1>1. <<e>> \in Seq(S) /\ DOMAIN <<e>> = {1} /\ <<e>>[1] = e
  OBVIOUS
<1> QED
  BY <1>1 DEF Elems

(* Changing a queue node by node.                                          *)
LEMMA MapType ==
  ASSUME NEW S, NEW T, NEW s \in Seq(S), NEW f \in [DOMAIN s -> T]
  PROVE  f \in Seq(T) /\ DOMAIN f = DOMAIN s /\ Len(f) = Len(s)
<1>1. Len(s) \in Nat /\ DOMAIN s = 1..Len(s)
  OBVIOUS
<1> QED
  BY <1>1

LEMMA NextIdType ==
  ASSUME packet_id \in Ids
  PROVE  NextId \in Ids /\ NextId \in Nat \ {0}
<1> DEFINE a == (packet_id + 1) % IdSpace
<1>1. IdSpace \in Nat /\ IdSpace >= 2 /\ packet_id \in Nat
  BY SizeAssumption DEF Ids
<1>2. a \in 0..(IdSpace - 1)
  BY <1>1
<1> QED
  BY <1>1, <1>2 DEF NextId, Ids

LEMMA PktType ==
  ASSUME NEW type \in PacketTypes, NEW id \in Nat
  PROVE  Pkt(type, id) \in Packet
BY SizeAssumption DEF Pkt, Packet, NoMsg

LEMMA NewNodeType ==
  ASSUME NEW b \in Packet
  PROVE  NewNode(b) \in Node
BY SizeAssumption, TimeAssumption DEF NewNode, Node

LEMMA AppendPaddingType ==
  ASSUME NEW s \in Seq(Node), NEW b \in Packet
  PROVE  AppendPadding(s, b) \in Seq(Node)
BY NewNodeType, AppendProperties DEF AppendPadding

LEMMA OlderType ==
  ASSUME NEW a \in 0..MaxAge, NEW t \in 0..MaxDelta
  PROVE  Older(a, t) \in 0..MaxAge
BY TimeAssumption DEF Older

LEMMA AgeAllType ==
  ASSUME NEW s \in Seq(Node), NEW t \in 0..MaxDelta
  PROVE  AgeAll(s, t) \in Seq(Node)
<1>1. ASSUME NEW i \in DOMAIN s
      PROVE  [s[i] EXCEPT !.age = Older(@, t)] \in Node
  <2>1. s[i] \in Node
    BY ElementOfSeq
  <2>2. Older(s[i].age, t) \in 0..MaxAge
    BY <2>1, OlderType DEF Node
  <2> QED
    BY <2>1, <2>2 DEF Node
<1> QED
  BY <1>1 DEF AgeAll

LEMMA RetryType ==
  ASSUME NEW n \in Node, n.ttl > 0
  PROVE  Retry(n) \in Node
<1>1. n.ttl \in 0..PacketTTL /\ n.b \in Packet /\ n.b.dup \in BOOLEAN
  BY DEF Node, Packet
<1>2. n.ttl - 1 \in 0..PacketTTL
  BY <1>1, SizeAssumption
<1>3. [n.b EXCEPT !.dup = @ \/ n.b.type = "PUBLISH"] \in Packet
  BY <1>1 DEF Packet
<1>4. CASE n.ttl = 1
  BY <1>4, SizeAssumption DEF Retry, Node
<1>5. CASE n.ttl # 1
  BY <1>2, <1>3, <1>5 DEF Retry, Node
<1> QED
  BY <1>4, <1>5

LEMMA CheckPaddingType ==
  ASSUME NEW s \in Seq(Node)
  PROVE  CheckPadding(s) \in Seq(Node)
<1>1. \A i \in DOMAIN s : s[i] \in Node
  BY ElementOfSeq
<1>2. \A i \in DOMAIN s : TimedOut(s[i]) => Retry(s[i]) \in Node
  BY <1>1, RetryType DEF TimedOut
<1> QED
  BY <1>1, <1>2 DEF CheckPadding

LEMMA MarkSentType ==
  ASSUME NEW s \in Seq(Node)
  PROVE  MarkSent(s) \in Seq(Node) /\ DOMAIN MarkSent(s) = DOMAIN s
<1>1. \A i \in DOMAIN s : s[i] \in Node
  BY ElementOfSeq
<1>2. ASSUME NEW n \in Node
      PROVE  [n EXCEPT !.wait_ack = TRUE, !.age = 0, !.tx = @ + 1] \in Node
  <2>1. 0 \in 0..MaxAge /\ n.tx + 1 \in Nat
    BY TimeAssumption DEF Node
  <2> QED
    BY <2>1 DEF Node
<1>3. MarkSent(s) \in [DOMAIN s -> Node]
  BY <1>1, <1>2 DEF MarkSent
<1> QED
  BY <1>3, MapType

LEMMA RemainingType ==
  ASSUME NEW s \in Seq(Node)
  PROVE  Remaining(s) \in Seq(Node)
BY MarkSentType, KeepAtProperties DEF Remaining

LEMMA BatchType ==
  ASSUME NEW s \in Seq(Node)
  PROVE  Batch(s) \in Seq(Packet)
<1> DEFINE u == KeepAt(s, Unsent(s))
<1>1. u \in Seq(Node)
  BY KeepAtProperties DEF Unsent
<1>2. \A i \in DOMAIN u : u[i].b \in Packet
  <2>1. \A n \in Node : n.b \in Packet
    BY DEF Node
  <2> HIDE DEF u
  <2> QED
    BY <1>1, <2>1, ElementOfSeq
<1> HIDE DEF u
<1>3. [i \in DOMAIN u |-> u[i].b] \in Seq(Packet)
  BY <1>1, <1>2
<1> QED
  BY <1>3 DEF Batch, u

LEMMA ErasePaddingType ==
  ASSUME NEW s \in Seq(Node), NEW type, NEW id
  PROVE  ErasePadding(s, type, id) \in Seq(Node)
BY KeepAtProperties DEF ErasePadding

(* The first match is a node of the queue with this type and identifier.   *)
LEMMA FirstMatch ==
  ASSUME NEW s \in Seq(Node), NEW type, NEW id, Matching(s, type, id) # {}
  PROVE  /\ FirstOf(Matching(s, type, id)) \in DOMAIN s
         /\ s[FirstOf(Matching(s, type, id))] \in Node
         /\ s[FirstOf(Matching(s, type, id))].b.type = type
         /\ s[FirstOf(Matching(s, type, id))].b.id = id
<1> DEFINE K == Matching(s, type, id)
<1>1. K \in SUBSET (1..Len(s)) /\ Len(s) \in Nat
  BY DEF Matching
<1>2. FirstOf(K) \in K
  <2> HIDE DEF K
  <2> QED
    BY <1>1, FirstOfProperties DEF K
<1>3. FirstOf(K) \in DOMAIN s /\ s[FirstOf(K)].b.type = type /\ s[FirstOf(K)].b.id = id
  BY <1>2 DEF Matching
<1> QED
  BY <1>3, ElementOfSeq
-----------------------------------------------------------------------------
(* Type correctness, one step per action.                                  *)

LEMMA InitType == Init => TypeOK
<1> SUFFICES ASSUME Init PROVE TypeOK
  OBVIOUS
<1>1. 0 \in Ids /\ 0 \in 0..MaxAge /\ 0 \in 0..MaxUnsub /\ 0 \in 0..MaxIn
      /\ 0 \in 0..MaxDrops /\ MaxMsgs \in Nat
  BY SizeAssumption, TimeAssumption DEF Ids
<1>2. Len(<<>>) = 0 /\ \A T : <<>> \in Seq(T)
  OBVIOUS
<1>3. inflight \in [1..MaxIn -> {"nothing", "puback", "pubrec", "pubcomp"}]
      /\ onward \in [Msgs -> 0..2]
  BY DEF Init
<1>4. padding \in Seq(Node) /\ out \in Seq(Packet) /\ inb \in Seq(Packet)
      /\ c2s \in Seq(Packet) /\ s2c \in Seq(Packet)
      /\ accepted \in Seq(QosUsed) /\ Len(accepted) <= MaxMsgs
  BY <1>1, <1>2 DEF Init
<1>5. held \subseteq Nat /\ got \subseteq 0..MaxMsgs /\ confirmed \subseteq 0..MaxMsgs
      /\ wire \subseteq PacketTypes \X Nat /\ again \subseteq PacketTypes \X Nat
  BY DEF Init
<1> QED
  BY <1>1, <1>3, <1>4, <1>5 DEF Init, TypeOK, NoPing

LEMMA PublishType ==
  ASSUME TypeOK, NEW q \in QosUsed, Publish(q)
  PROVE  TypeOK'
<1> DEFINE id == IF q > 0 THEN NextId ELSE 0
           b  == [type |-> "PUBLISH", id |-> id, msg |-> Len(accepted) + 1,
                  qos |-> q, dup |-> FALSE]
<1>1. id \in Nat /\ id \in Ids
  BY NextIdType, SizeAssumption DEF TypeOK, Ids
<1>2. Len(accepted) \in Nat /\ Len(accepted) + 1 \in 0..MaxMsgs /\ q \in 0..2
  BY SizeAssumption DEF TypeOK, Publish
<1>3. b \in Packet
  BY <1>1, <1>2 DEF Packet, PacketTypes
<1>4. padding' \in Seq(Node)
  <2>1. padding' = AppendPadding(padding, b)
    BY DEF Publish
  <2> HIDE DEF b
  <2> QED
    BY <1>3, <2>1, AppendPaddingType DEF TypeOK
<1>5. packet_id' \in Ids /\ wrapped' \in BOOLEAN
  BY <1>1 DEF Publish, TypeOK
<1>6. accepted' \in Seq(QosUsed) /\ Len(accepted') = Len(accepted) + 1
  BY AppendProperties DEF Publish, TypeOK
<1> QED
  BY <1>2, <1>4, <1>5, <1>6 DEF Publish, TypeOK, loop, broker, bounds

LEMMA UnsubscribeType ==
  ASSUME TypeOK, Unsubscribe
  PROVE  TypeOK'
<1>1. NextId \in Nat /\ NextId \in Ids
  BY NextIdType DEF TypeOK
<1>2. Pkt("UNSUBSCRIBE", NextId) \in Packet
  BY <1>1, PktType DEF PacketTypes
<1>3. padding' \in Seq(Node)
  BY <1>2, AppendPaddingType DEF TypeOK, Unsubscribe
<1>4. unsubs' \in 0..MaxUnsub
  BY SizeAssumption DEF TypeOK, Unsubscribe
<1>5. packet_id' \in Ids /\ wrapped' \in BOOLEAN
  BY <1>1 DEF Unsubscribe, TypeOK
<1> QED
  BY <1>3, <1>4, <1>5 DEF TypeOK, Unsubscribe, loop, broker

LEMMA TcpConnectType ==
  ASSUME TypeOK, TcpConnect
  PROVE  TypeOK'
BY DEF TypeOK, TcpConnect, client, bounds

LEMMA HelloType ==
  ASSUME TypeOK, Hello
  PROVE  TypeOK'
<1>1. Pkt("CONNECT", 0) \in Packet
  BY PktType DEF PacketTypes
<1>2. padding' \in Seq(Node)
  BY <1>1, AppendPaddingType DEF TypeOK, Hello
<1> QED
  BY <1>2 DEF TypeOK, Hello, broker, ghosts, bounds

LEMMA OutgoingType ==
  ASSUME TypeOK, Outgoing
  PROVE  TypeOK'
<1>1. out' \in Seq(Packet) /\ padding' \in Seq(Node)
  BY BatchType, RemainingType DEF TypeOK, Outgoing
<1>2. sendAge' \in 0..MaxAge
  BY TimeAssumption DEF TypeOK, Outgoing
<1>3. \A i \in DOMAIN padding : <<padding[i].b.type, padding[i].b.id>> \in PacketTypes \X Nat
  <2>1. \A n \in Node : n.b.type \in PacketTypes /\ n.b.id \in Nat
    BY DEF Node, Packet
  <2> QED
    BY <2>1, ElementOfSeq DEF TypeOK
<1>4. wire' \subseteq PacketTypes \X Nat /\ again' \subseteq PacketTypes \X Nat
  BY <1>3 DEF TypeOK, Outgoing, Unsent
<1> QED
  BY <1>1, <1>2, <1>4 DEF TypeOK, Outgoing, broker, bounds

LEMMA SendType ==
  ASSUME TypeOK, Send
  PROVE  TypeOK'
<1>1. c2s' \in Seq(Packet)
  <2>1. c2s \in Seq(Packet) /\ out \in Seq(Packet)
    BY DEF TypeOK
  <2>2. c2s \o out \in Seq(Packet)
    BY <2>1, ConcatProperties
  <2> QED
    BY <2>1, <2>2 DEF Send
<1> QED
  BY <1>1 DEF TypeOK, Send, client, broker, ghosts, bounds

LEMMA RecvType ==
  ASSUME TypeOK, RecvData \/ RecvTimeout \/ RecvEnd
  PROVE  TypeOK'
<1>1. CASE RecvData
  <2>1. PICK k \in 1..Len(s2c) : /\ inb' = SubSeq(s2c, 1, k)
                                 /\ s2c' = SubSeq(s2c, k + 1, Len(s2c))
    BY <1>1 DEF RecvData
  <2>2. inb' \in Seq(Packet) /\ s2c' \in Seq(Packet)
    <3>1. s2c \in Seq(Packet) /\ Len(s2c) \in Nat
      BY DEF TypeOK
    <3>2. (\A i \in 1..k : s2c[i] \in Packet) /\ (\A i \in (k+1)..Len(s2c) : s2c[i] \in Packet)
      BY <3>1
    <3>3. 1 \in Int /\ k \in Int /\ k + 1 \in Int /\ Len(s2c) \in Int
      BY <3>1
    <3>4. SubSeq(s2c, 1, k) \in Seq(Packet)
      BY <3>2, <3>3, SubSeqProperties
    <3>5. SubSeq(s2c, k + 1, Len(s2c)) \in Seq(Packet)
      BY <3>2, <3>3, SubSeqProperties
    <3> QED
      BY <2>1, <3>4, <3>5
  <2> QED
    BY <1>1, <2>2 DEF TypeOK, RecvData, client, broker, ghosts, bounds
<1>2. CASE RecvTimeout
  BY <1>2 DEF TypeOK, RecvTimeout, client, broker, ghosts, bounds
<1>3. CASE RecvEnd
  BY <1>3 DEF TypeOK, RecvEnd, client, broker, ghosts, bounds
<1> QED
  BY <1>1, <1>2, <1>3

(* What every handler of a packet leaves well-typed, and the packet itself. *)
LEMMA HandleType ==
  ASSUME TypeOK, NEW types, Handle(types)
  PROVE  /\ Head(inb) \in Packet /\ inb' \in Seq(Packet)
         /\ packet_id' \in Ids /\ padding' \in Seq(Node)
              /\ pingAge' \in {NoPing} \cup 0..MaxAge
              /\ confirmed' \subseteq 0..MaxMsgs /\ wrapped' \in BOOLEAN
            => TypeOK'
<1>1. Head(inb) \in Packet /\ inb' \in Seq(Packet)
  BY HeadTailProperties DEF TypeOK, Handle
<1> QED
  BY <1>1 DEF TypeOK, Handle, broker, bounds

LEMMA OnConnackType ==
  ASSUME TypeOK, OnConnack
  PROVE  TypeOK'
<1>1. NextId \in Nat /\ NextId \in Ids
  BY NextIdType DEF TypeOK
<1>2. AppendPadding(padding, Pkt("SUBSCRIBE", NextId)) \in Seq(Node)
  <2>1. Pkt("SUBSCRIBE", NextId) \in Packet
    BY <1>1, PktType DEF PacketTypes
  <2> QED
    BY <2>1, AppendPaddingType DEF TypeOK
<1> QED
  BY <1>1, <1>2, HandleType DEF TypeOK, OnConnack

LEMMA OnPublishType ==
  ASSUME TypeOK, OnPublish
  PROVE  TypeOK'
<1> DEFINE p == Head(inb)
<1>1. p \in Packet
  BY HandleType DEF OnPublish
<1>2. ASSUME p.qos # 0
      PROVE  AppendPadding(padding, Pkt(Reply[p.qos], p.id)) \in Seq(Node)
  <2>1. p.qos = 1 \/ p.qos = 2
    BY <1>1, <1>2 DEF Packet
  <2>2. Reply[p.qos] \in PacketTypes /\ p.id \in Nat
    BY <1>1, <2>1 DEF Reply, PacketTypes, Packet
  <2>3. Pkt(Reply[p.qos], p.id) \in Packet
    BY <2>2, PktType
  <2> QED
    BY <2>3, AppendPaddingType DEF TypeOK
<1>3. padding' \in Seq(Node)
  BY <1>2 DEF TypeOK, OnPublish
<1> QED
  BY <1>3, HandleType DEF TypeOK, OnPublish

(* The exchange an acknowledgement belongs to.                             *)
LEMMA AckedType ==
  ASSUME TypeOK, inb # <<>>, Head(inb).type \in DOMAIN Answers, ~Unmatched(Head(inb))
  PROVE  Acked \in Packet
<1> DEFINE ty == Answers[Head(inb).type]
           id == Head(inb).id
<1>1. Matching(padding, ty, id) # {} /\ padding \in Seq(Node)
  BY DEF Unmatched, TypeOK
<1>2. padding[FirstOf(Matching(padding, ty, id))] \in Node
  <2> HIDE DEF ty, id
  <2> QED
    BY <1>1, FirstMatch
<1> QED
  BY <1>2 DEF Acked, Node

LEMMA OnAckType ==
  ASSUME TypeOK, OnAck
  PROVE  TypeOK'
<1>1. padding' \in Seq(Node)
  BY ErasePaddingType DEF TypeOK, OnAck
<1>2. Acked \in Packet
  BY AckedType DEF OnAck, Handle, Answers
<1>3. confirmed' \subseteq 0..MaxMsgs
  BY <1>2 DEF TypeOK, OnAck, Packet
<1> QED
  BY <1>1, <1>3, HandleType DEF TypeOK, OnAck

LEMMA OnPubrecType ==
  ASSUME TypeOK, OnPubrec
  PROVE  TypeOK'
<1> DEFINE b == [Pkt("PUBREL", Head(inb).id) EXCEPT !.msg = Acked.msg]
<1>1. Acked \in Packet
  BY AckedType DEF OnPubrec, Handle, Answers
<1>2. Head(inb) \in Packet
  BY HandleType DEF OnPubrec
<1>3. Pkt("PUBREL", Head(inb).id) \in Packet
  BY <1>2, PktType DEF Packet, PacketTypes
<1>4. b \in Packet
  BY <1>1, <1>3 DEF Packet
<1>5. ErasePadding(padding, "PUBLISH", Head(inb).id) \in Seq(Node)
  BY ErasePaddingType DEF TypeOK
<1>6. padding' \in Seq(Node)
  <2>1. padding' = AppendPadding(ErasePadding(padding, "PUBLISH", Head(inb).id), b)
    BY DEF OnPubrec
  <2> HIDE DEF b
  <2> QED
    BY <1>4, <1>5, <2>1, AppendPaddingType
<1> QED
  BY <1>6, HandleType DEF TypeOK, OnPubrec

LEMMA OnPubrelType ==
  ASSUME TypeOK, OnPubrel
  PROVE  TypeOK'
<1>1. Head(inb) \in Packet
  BY HandleType DEF OnPubrel
<1>2. Pkt("PUBCOMP", Head(inb).id) \in Packet
  BY <1>1, PktType DEF Packet, PacketTypes
<1>3. padding' \in Seq(Node)
  BY <1>2, AppendPaddingType DEF TypeOK, OnPubrel
<1> QED
  BY <1>3, HandleType DEF TypeOK, OnPubrel

LEMMA OnUnsubackType ==
  ASSUME TypeOK, OnUnsuback
  PROVE  TypeOK'
<1>1. Pkt("DISCONNECT", 0) \in Packet
  BY PktType DEF PacketTypes
<1>2. padding' \in Seq(Node)
  BY <1>1, AppendPaddingType DEF TypeOK, OnUnsuback
<1> QED
  BY <1>2, HandleType DEF TypeOK, OnUnsuback

LEMMA HandlePacketType ==
  ASSUME TypeOK, HandlePacket
  PROVE  TypeOK'
<1>1. CASE OnSuback
  BY <1>1, HandleType DEF TypeOK, OnSuback
<1>2. CASE OnPingresp
  BY <1>2, HandleType DEF TypeOK, OnPingresp
<1>3. CASE Rejected
  BY <1>3 DEF TypeOK, Rejected, client, broker, ghosts, bounds
<1> QED
  BY <1>1, <1>2, <1>3, OnConnackType, OnPublishType, OnAckType, OnPubrecType,
     OnPubrelType, OnUnsubackType DEF HandlePacket

LEMMA ElapsedType ==
  ASSUME TypeOK, Elapsed
  PROVE  TypeOK'
<1>1. PICK t \in Durations : ElapsedPingLost(t) \/ ElapsedCheck(t)
  BY DEF Elapsed
<1>2. t \in 0..MaxDelta
  BY <1>1, TimeAssumption DEF Durations
<1>3. AgeAll(padding, t) \in Seq(Node) /\ Older(sendAge, t) \in 0..MaxAge
  BY <1>2, AgeAllType, OlderType DEF TypeOK
<1>4. CASE ElapsedPingLost(t)
  BY <1>3, <1>4 DEF TypeOK, ElapsedPingLost, broker, ghosts, bounds
<1>5. CASE ElapsedCheck(t)
  <2> DEFINE aged == AgeAll(padding, t)
             s == IF PingDue(t) THEN AppendPadding(aged, Pkt("PINGREQ", 0)) ELSE aged
  <2>1. Pkt("PINGREQ", 0) \in Packet
    BY PktType DEF PacketTypes
  <2>2. s \in Seq(Node)
    BY <1>3, <2>1, AppendPaddingType
  <2>3. padding' = CheckPadding(s)
    BY <1>5 DEF ElapsedCheck
  <2>4. padding' \in Seq(Node)
    <3> HIDE DEF s
    <3> QED
      BY <2>2, <2>3, CheckPaddingType
  <2>5. pingAge' \in {NoPing} \cup 0..MaxAge
    <3>1. pingAge # NoPing => Older(pingAge, t) \in 0..MaxAge
      BY <1>2, OlderType DEF TypeOK
    <3>2. 0 \in 0..MaxAge
      BY TimeAssumption
    <3> QED
      BY <1>5, <3>1, <3>2 DEF ElapsedCheck
  <2>6. pc' \in {"outgoing", "close"}
    BY <1>5 DEF ElapsedCheck
  <2> QED
    BY <1>3, <1>5, <2>4, <2>5, <2>6 DEF TypeOK, ElapsedCheck, broker, ghosts, bounds
<1> QED
  BY <1>1, <1>4, <1>5

LEMMA MainLoopType ==
  ASSUME TypeOK, MainLoop
  PROVE  TypeOK'
<1>1. CASE IncomingEnd
  BY <1>1 DEF TypeOK, IncomingEnd, client, broker, ghosts, bounds
<1>2. CASE Close
  BY <1>2 DEF TypeOK, Close, client, broker, ghosts, bounds
<1> QED
  BY <1>1, <1>2, TcpConnectType, HelloType, OutgoingType, SendType, RecvType,
     HandlePacketType, ElapsedType DEF MainLoop

(* The broker replies to the packet at the head of c2s.                    *)
LEMMA RepliesType ==
  ASSUME TypeOK, c2s # <<>>, NEW r \in Seq(Packet), Replies(r)
  PROVE  c2s' \in Seq(Packet) /\ s2c' \in Seq(Packet) /\ Head(c2s) \in Packet
<1>1. c2s \in Seq(Packet) /\ s2c \in Seq(Packet)
  BY DEF TypeOK
<1>2. Head(c2s) \in Packet /\ Tail(c2s) \in Seq(Packet)
  BY <1>1, HeadTailProperties
<1>3. s2c \o r \in Seq(Packet)
  BY <1>1, ConcatProperties
<1> QED
  BY <1>2, <1>3 DEF Replies

LEMMA OneReplyType ==
  ASSUME NEW type \in PacketTypes, NEW id \in Nat
  PROVE  <<Pkt(type, id)>> \in Seq(Packet)
<1>1. Pkt(type, id) \in Packet
  BY PktType
<1> QED
  BY <1>1

LEMMA HeadType ==
  ASSUME TypeOK, c2s # <<>>
  PROVE  Head(c2s) \in Packet /\ Head(c2s).id \in Nat
<1>1. Head(c2s) \in Packet
  BY HeadTailProperties DEF TypeOK
<1> QED
  BY <1>1 DEF Packet

LEMMA BrokerPublishedType ==
  ASSUME TypeOK, BrokerPublished
  PROVE  TypeOK'
<1> DEFINE p == Head(c2s)
           r == CASE p.qos = 0 -> <<>>
                  [] p.qos = 1 -> <<Pkt("PUBACK", p.id)>>
                  [] p.qos = 2 -> <<Pkt("PUBREC", p.id)>>
<1>1. c2s # <<>> /\ Replies(r)
  BY DEF BrokerPublished, InSession, BrokerGets
<1>2. p \in Packet /\ p.id \in Nat /\ p.qos \in 0..2 /\ p.msg \in 0..MaxMsgs
  BY <1>1, HeadType DEF Packet
<1>3. r \in Seq(Packet)
  <2>1. <<Pkt("PUBACK", p.id)>> \in Seq(Packet) /\ <<Pkt("PUBREC", p.id)>> \in Seq(Packet)
    BY <1>2, OneReplyType DEF PacketTypes
  <2>2. p.qos = 0 \/ p.qos = 1 \/ p.qos = 2
    BY <1>2
  <2> QED
    BY <2>1, <2>2
<1>4. c2s' \in Seq(Packet) /\ s2c' \in Seq(Packet)
  <2> HIDE DEF r
  <2> QED
    BY <1>1, <1>3, RepliesType
<1>5. held' \subseteq Nat /\ got' \subseteq 0..MaxMsgs
  BY <1>2 DEF TypeOK, BrokerPublished
<1>6. onward' \in [Msgs -> 0..2]
  <2>1. \A k \in 0..2 : (IF k = 2 THEN 2 ELSE k + 1) \in 0..2
    OBVIOUS
  <2>2. [onward EXCEPT ![p.msg] = IF @ = 2 THEN 2 ELSE @ + 1] \in [Msgs -> 0..2]
    BY <2>1 DEF TypeOK
  <2> QED
    BY <2>2 DEF TypeOK, BrokerPublished
<1> QED
  BY <1>4, <1>5, <1>6 DEF TypeOK, BrokerPublished, client, loop, bounds

LEMMA BrokerAckedType ==
  ASSUME TypeOK, BrokerAcked
  PROVE  TypeOK'
<1> DEFINE p == Head(c2s)
           r == IF p.type = "PUBREC" THEN <<Pkt("PUBREL", p.id)>> ELSE <<>>
<1>1. c2s # <<>> /\ Replies(r)
  BY DEF BrokerAcked
<1>2. p.id \in Nat
  BY <1>1, HeadType
<1>3. r \in Seq(Packet)
  BY <1>2, OneReplyType DEF PacketTypes
<1>4. c2s' \in Seq(Packet) /\ s2c' \in Seq(Packet)
  <2> HIDE DEF r
  <2> QED
    BY <1>1, <1>3, RepliesType
<1>5. inflight' \in [1..MaxIn -> {"nothing", "puback", "pubrec", "pubcomp"}]
  BY DEF TypeOK, BrokerAcked
<1> QED
  BY <1>4, <1>5 DEF TypeOK, BrokerAcked, client, loop, ghosts, bounds

LEMMA BrokerRecvType ==
  ASSUME TypeOK, BrokerRecv
  PROVE  TypeOK'
<1>1. CASE BrokerAccept
  <2>1. <<Pkt("CONNACK", 0)>> \in Seq(Packet)
    BY OneReplyType DEF PacketTypes
  <2>2. c2s' \in Seq(Packet) /\ s2c' \in Seq(Packet)
    BY <1>1, <2>1, RepliesType DEF BrokerAccept, BrokerGets
  <2> QED
    BY <1>1, <2>2 DEF TypeOK, BrokerAccept, client, loop, ghosts, bounds
<1>2. CASE BrokerRefuse
  <2>1. Pkt("REFUSED", 0) \in Packet
    BY PktType DEF PacketTypes
  <2>2. s2c' \in Seq(Packet)
    BY <1>2, <2>1, AppendProperties DEF TypeOK, BrokerRefuse
  <2>3. drops' \in 0..MaxDrops
    BY <1>2, SizeAssumption DEF TypeOK, BrokerRefuse
  <2>4. c2s' \in Seq(Packet)
    BY <1>2, EmptySeq DEF BrokerRefuse
  <2> QED
    BY <1>2, <2>2, <2>3, <2>4 DEF TypeOK, BrokerRefuse, client, loop, broker, ghosts
<1>3. CASE BrokerClose
  <2>1. c2s' \in Seq(Packet)
    BY <1>3, EmptySeq DEF BrokerClose
  <2> QED
    BY <1>3, <2>1 DEF TypeOK, BrokerClose, client, loop, broker, ghosts, bounds
<1>4. CASE BrokerReleased
  <2>1. c2s # <<>> /\ <<Pkt("PUBCOMP", Head(c2s).id)>> \in Seq(Packet)
    BY <1>4, HeadType, OneReplyType DEF PacketTypes, BrokerReleased, InSession, BrokerGets
  <2>2. c2s' \in Seq(Packet) /\ s2c' \in Seq(Packet)
    BY <1>4, <2>1, RepliesType DEF BrokerReleased
  <2> QED
    BY <1>4, <2>2 DEF TypeOK, BrokerReleased, client, loop, ghosts, bounds
<1>5. CASE BrokerPinged
  <2>1. c2s # <<>> /\ <<Pkt("PINGRESP", 0)>> \in Seq(Packet)
    BY <1>5, OneReplyType DEF PacketTypes, BrokerPinged, InSession, BrokerGets
  <2>2. c2s' \in Seq(Packet) /\ s2c' \in Seq(Packet)
    BY <1>5, <2>1, RepliesType DEF BrokerPinged
  <2> QED
    BY <1>5, <2>2 DEF TypeOK, BrokerPinged, client, loop, broker, ghosts, bounds
<1>6. CASE BrokerSubscribed
  <2>1. c2s # <<>> /\ <<Pkt("SUBACK", Head(c2s).id)>> \in Seq(Packet)
    BY <1>6, HeadType, OneReplyType DEF PacketTypes, BrokerSubscribed, InSession, BrokerGets
  <2>2. c2s' \in Seq(Packet) /\ s2c' \in Seq(Packet)
    BY <1>6, <2>1, RepliesType DEF BrokerSubscribed
  <2> QED
    BY <1>6, <2>2 DEF TypeOK, BrokerSubscribed, client, loop, ghosts, bounds
<1>7. CASE BrokerUnsubscribed
  <2>1. c2s # <<>> /\ <<Pkt("UNSUBACK", Head(c2s).id)>> \in Seq(Packet)
    BY <1>7, HeadType, OneReplyType DEF PacketTypes, BrokerUnsubscribed, InSession, BrokerGets
  <2>2. c2s' \in Seq(Packet) /\ s2c' \in Seq(Packet)
    BY <1>7, <2>1, RepliesType DEF BrokerUnsubscribed
  <2> QED
    BY <1>7, <2>2 DEF TypeOK, BrokerUnsubscribed, client, loop, ghosts, bounds
<1> QED
  BY <1>1, <1>2, <1>3, <1>4, <1>5, <1>6, <1>7, BrokerPublishedType, BrokerAckedType
  DEF BrokerRecv

LEMMA BrokerSendType ==
  ASSUME TypeOK, NEW q \in InQos, BrokerSend(q)
  PROVE  TypeOK'
<1> DEFINE id == IF q = 0 THEN 0 ELSE ins + 1
           b == [Pkt("PUBLISH", id) EXCEPT !.qos = q]
<1>1. q \in 0..2 /\ id \in Nat /\ ins + 1 \in 0..MaxIn
  BY SizeAssumption DEF TypeOK, BrokerSend
<1>2. Pkt("PUBLISH", id) \in Packet
  BY <1>1, PktType DEF PacketTypes
<1>3. b \in Packet
  <2> HIDE DEF id
  <2> QED
    BY <1>1, <1>2 DEF Packet
<1>4. s2c' \in Seq(Packet)
  <2>1. s2c' = Append(s2c, b)
    BY DEF BrokerSend
  <2> HIDE DEF b
  <2> QED
    BY <1>3, <2>1, AppendProperties DEF TypeOK
<1>5. inflight' \in [1..MaxIn -> {"nothing", "puback", "pubrec", "pubcomp"}]
  <2>1. <<"nothing", "puback", "pubrec">>[q + 1] \in {"nothing", "puback", "pubrec", "pubcomp"}
    <3>1. q = 0 \/ q = 1 \/ q = 2
      BY <1>1
    <3> QED
      BY <3>1
  <2> QED
    BY <2>1 DEF TypeOK, BrokerSend
<1> QED
  BY <1>1, <1>4, <1>5 DEF TypeOK, BrokerSend, client, loop, ghosts

LEMMA EnvironmentType ==
  ASSUME TypeOK, Environment
  PROVE  TypeOK'
<1>1. CASE Drop
  <2>1. drops' \in 0..MaxDrops
    BY <1>1, SizeAssumption DEF TypeOK, Drop
  <2>2. s2c' \in Seq(Packet) /\ c2s' \in Seq(Packet)
    BY <1>1, EmptySeq DEF TypeOK, Drop
  <2> QED
    BY <1>1, <2>1, <2>2 DEF TypeOK, Drop, client, loop, broker, ghosts
<1> QED
  BY <1>1, PublishType, UnsubscribeType, BrokerRecvType, BrokerSendType DEF Environment

LEMMA TypeStep ==
  ASSUME TypeOK, [Next]_vars
  PROVE  TypeOK'
<1>1. CASE Next
  BY <1>1, MainLoopType, EnvironmentType DEF Next
<1>2. CASE UNCHANGED vars
  BY <1>2 DEF TypeOK, vars, client, loop, broker, ghosts, bounds
<1> QED
  BY <1>1, <1>2

(* Type correctness holds whatever the identifier space, the timers, the   *)
(* bounds and the QoS levels are.                                          *)
THEOREM TypeCorrect == Spec => []TypeOK
<1>1. Init => TypeOK
  BY InitType
<1>2. TypeOK /\ [Next]_vars => TypeOK'
  BY TypeStep
<1> QED
  BY <1>1, <1>2, PTL DEF Spec

-----------------------------------------------------------------------------
(* Tries, the DUP flag, the keep-alive and CONNECT.                        *)

(* The main loop is inside a turn, after mqtt_cli_outgoing.                *)
InTurn == pc \in {"send", "recv", "incoming", "elapsed"}

LEMMA TurnStep ==
  ASSUME [Next]_vars
  PROVE  InTurn' => InTurn \/ Outgoing
<1>1. CASE MainLoop
  BY <1>1 DEF MainLoop, TcpConnect, Hello, Send, RecvData, RecvTimeout, RecvEnd,
     IncomingEnd, HandlePacket, OnConnack, OnPublish, OnAck, OnPubrec, OnPubrel,
     OnUnsuback, OnSuback, OnPingresp, Handle, Rejected, Elapsed, ElapsedPingLost,
     ElapsedCheck, Close, InTurn
<1>2. CASE Environment
  BY <1>2 DEF Environment, Publish, Unsubscribe, BrokerRecv, BrokerAccept,
     BrokerRefuse, BrokerClose, BrokerPublished, BrokerReleased, BrokerPinged,
     BrokerSubscribed, BrokerUnsubscribed, BrokerAcked, BrokerSend, Drop, loop, InTurn
<1>3. CASE UNCHANGED vars
  BY <1>3 DEF vars, loop, InTurn
<1> QED
  BY <1>1, <1>2, <1>3 DEF Next

(* What is true of every node of a queue is true of what a walk leaves.    *)
LEMMA KeepAtElement ==
  ASSUME NEW S, NEW s \in Seq(S), NEW K \in SUBSET (DOMAIN s),
         NEW j \in DOMAIN KeepAt(s, K)
  PROVE  \E i \in K : KeepAt(s, K)[j] = s[i]
BY KeepAtProperties

LEMMA AppendPaddingElement ==
  ASSUME NEW s \in Seq(Node), NEW b,
         NEW i \in DOMAIN AppendPadding(s, b)
  PROVE  \/ i \in DOMAIN s /\ AppendPadding(s, b)[i] = s[i]
         \/ AppendPadding(s, b)[i] = NewNode(b)
BY DEF AppendPadding

LEMMA AppendPaddingKeeps ==
  ASSUME NEW s \in Seq(Node), NEW b
  PROVE  /\ \A i \in DOMAIN s : i \in DOMAIN AppendPadding(s, b)
                              /\ AppendPadding(s, b)[i] = s[i]
         /\ \E i \in DOMAIN AppendPadding(s, b) : AppendPadding(s, b)[i] = NewNode(b)
<1>1. Len(s) \in Nat /\ Len(s) + 1 \in DOMAIN Append(s, NewNode(b))
  OBVIOUS
<1>2. Append(s, NewNode(b))[Len(s) + 1] = NewNode(b)
  OBVIOUS
<1> QED
  BY <1>1, <1>2 DEF AppendPadding

(* The packet mqtt_cli_publish appends.                                    *)
LEMMA PublishPacket ==
  ASSUME TypeOK, NEW q \in QosUsed, Publish(q)
  PROVE  \E b \in Packet :
           /\ padding' = AppendPadding(padding, b)
           /\ b.type = "PUBLISH" /\ b.qos = q /\ b.msg = Len(accepted) + 1 /\ ~b.dup
           /\ b.id = IF q > 0 THEN NextId ELSE 0
<1> DEFINE id == IF q > 0 THEN NextId ELSE 0
           b == [type |-> "PUBLISH", id |-> id, msg |-> Len(accepted) + 1,
                 qos |-> q, dup |-> FALSE]
<1>1. id \in Nat
  BY NextIdType, SizeAssumption DEF TypeOK, Ids
<1>2. Len(accepted) + 1 \in 0..MaxMsgs /\ q \in 0..2
  BY SizeAssumption DEF TypeOK, Publish
<1>3. b \in Packet
  BY <1>1, <1>2 DEF Packet, PacketTypes
<1>4. padding' = AppendPadding(padding, b)
  BY DEF Publish
<1> QED
  BY <1>3, <1>4

(* The PUBREL that takes the place of a PUBLISH.                           *)
LEMMA PubrelPacket ==
  ASSUME TypeOK, OnPubrec
  PROVE  \E b \in Packet :
           /\ padding' = AppendPadding(ErasePadding(padding, "PUBLISH", Head(inb).id), b)
           /\ b.type = "PUBREL" /\ b.id = Head(inb).id /\ b.msg = Acked.msg /\ ~b.dup
<1> DEFINE b == [Pkt("PUBREL", Head(inb).id) EXCEPT !.msg = Acked.msg]
<1>1. Acked \in Packet
  BY AckedType DEF OnPubrec, Handle, Answers
<1>2. Head(inb) \in Packet
  BY HandleType DEF OnPubrec
<1>3. Pkt("PUBREL", Head(inb).id) \in Packet
  BY <1>2, PktType DEF Packet, PacketTypes
<1>4. b \in Packet
  BY <1>1, <1>3 DEF Packet
<1>5. b.type = "PUBREL" /\ b.id = Head(inb).id /\ b.msg = Acked.msg /\ ~b.dup
  BY DEF Pkt
<1>6. padding' = AppendPadding(ErasePadding(padding, "PUBLISH", Head(inb).id), b)
  BY DEF OnPubrec
<1> QED
  BY <1>4, <1>5, <1>6

(* Every action leaves the queue as it is, appends a fresh node, erases    *)
(* nodes (and may append one), marks the batch as sent, or lets time pass. *)
LEMMA QueueSteps ==
  ASSUME TypeOK, [Next]_vars
  PROVE  \/ UNCHANGED padding
         \/ \E b \in Packet : ~b.dup /\ padding' = AppendPadding(padding, b)
         \/ \E K \in SUBSET (DOMAIN padding) : padding' = KeepAt(padding, K)
         \/ \E K \in SUBSET (DOMAIN padding), b \in Packet :
              ~b.dup /\ padding' = AppendPadding(KeepAt(padding, K), b)
         \/ Outgoing
         \/ \E t \in 0..MaxDelta : ElapsedPingLost(t) \/ ElapsedCheck(t)
<1> DEFINE Fresh == \E b \in Packet : ~b.dup /\ padding' = AppendPadding(padding, b)
<1>1. \A type \in PacketTypes, id \in Nat : Pkt(type, id) \in Packet /\ ~Pkt(type, id).dup
  BY PktType DEF Pkt
<1>2. ASSUME NEW q \in QosUsed, Publish(q)
      PROVE  Fresh
  BY <1>2, PublishPacket
<1>3. ASSUME Unsubscribe PROVE Fresh
  <2>1. NextId \in Nat
    BY NextIdType DEF TypeOK
  <2> QED
    BY <1>1, <1>3, <2>1 DEF Unsubscribe, PacketTypes
<1>4. ASSUME Hello PROVE Fresh
  BY <1>1, <1>4 DEF Hello, PacketTypes
<1>5. ASSUME OnConnack PROVE Fresh \/ UNCHANGED padding
  <2>1. NextId \in Nat
    BY NextIdType DEF TypeOK
  <2> QED
    BY <1>1, <1>5, <2>1 DEF OnConnack, PacketTypes
<1>6. ASSUME OnPublish PROVE Fresh \/ UNCHANGED padding
  <2>1. Head(inb) \in Packet
    BY <1>6, HandleType DEF OnPublish
  <2>2. Head(inb).qos \in {0, 1, 2} /\ Head(inb).id \in Nat
    BY <2>1 DEF Packet
  <2>3. Head(inb).qos # 0 => Reply[Head(inb).qos] \in PacketTypes
    BY <2>2 DEF Reply, PacketTypes
  <2> QED
    BY <1>1, <1>6, <2>2, <2>3 DEF OnPublish
<1>7. ASSUME OnPubrel PROVE Fresh
  <2>1. Head(inb).id \in Nat
    BY <1>7, HandleType DEF OnPubrel, Packet
  <2> QED
    BY <1>1, <1>7, <2>1 DEF OnPubrel, PacketTypes
<1>8. ASSUME OnUnsuback PROVE Fresh \/ UNCHANGED padding
  BY <1>1, <1>8 DEF OnUnsuback, PacketTypes
<1>9. ASSUME OnAck
      PROVE  \E K \in SUBSET (DOMAIN padding) : padding' = KeepAt(padding, K)
  BY <1>9 DEF OnAck, ErasePadding
<1>10. ASSUME OnPubrec
       PROVE  \E K \in SUBSET (DOMAIN padding), b \in Packet :
                ~b.dup /\ padding' = AppendPadding(KeepAt(padding, K), b)
  BY <1>10, PubrelPacket DEF ErasePadding
<1>11. ASSUME Elapsed
       PROVE  \E t \in 0..MaxDelta : ElapsedPingLost(t) \/ ElapsedCheck(t)
  <2>1. \A t \in Durations : t \in 0..MaxDelta
    BY TimeAssumption DEF Durations
  <2> QED
    BY <1>11, <2>1 DEF Elapsed
<1>12. ASSUME \/ TcpConnect \/ Send \/ RecvData \/ RecvTimeout \/ RecvEnd
              \/ IncomingEnd \/ OnSuback \/ OnPingresp \/ Rejected \/ Close
       PROVE  UNCHANGED padding
  BY <1>12 DEF TcpConnect, Send, RecvData, RecvTimeout, RecvEnd, IncomingEnd,
     OnSuback, OnPingresp, Rejected, Close, client
<1>13. ASSUME BrokerRecv \/ Drop \/ (\E q \in InQos : BrokerSend(q)) \/ UNCHANGED vars
       PROVE  UNCHANGED padding
  BY <1>13 DEF BrokerRecv, BrokerAccept, BrokerRefuse, BrokerClose, BrokerPublished,
     BrokerReleased, BrokerPinged, BrokerSubscribed, BrokerUnsubscribed, BrokerAcked,
     BrokerSend, Drop, client, vars
<1> HIDE DEF Fresh
<1>14. CASE MainLoop
  BY <1>4, <1>5, <1>6, <1>7, <1>8, <1>9, <1>10, <1>11, <1>12, <1>14
  DEF MainLoop, HandlePacket, Fresh
<1>15. CASE Environment
  BY <1>2, <1>3, <1>13, <1>15 DEF Environment, Fresh
<1> QED
  BY <1>13, <1>14, <1>15 DEF Next
-----------------------------------------------------------------------------
(* The tries of a packet.  TriesCounted is not inductive: a node could     *)
(* expire unsent.  It cannot because an unsent node is at most one turn    *)
(* old when _check_padding sees it, and a turn is shorter than the packet  *)
(* timeout.                                                                *)

NodeOK(n) ==
  IF Acknowledged(n.b)
  THEN /\ n.tx = PacketTTL - n.ttl + IF n.wait_ack /\ n.ttl > 0 THEN 1 ELSE 0
       /\ n.ttl = 0 => n.wait_ack
       /\ n.ttl > 0 => (n.b.dup <=> (n.b.type = "PUBLISH" /\ n.ttl < PacketTTL))
  ELSE n.ttl = 0 /\ n.tx = 0 /\ ~n.wait_ack /\ ~n.b.dup

Recent(n) == ~n.wait_ack => n.age = 0

TriesInv ==
  /\ \A i \in DOMAIN padding : NodeOK(padding[i])
  /\ InTurn => \A i \in DOMAIN padding : Recent(padding[i])

LEMMA NewNodeOK ==
  ASSUME NEW b \in Packet, ~b.dup
  PROVE  NodeOK(NewNode(b)) /\ Recent(NewNode(b))
<1>1. NewNode(b).b = b /\ ~NewNode(b).wait_ack /\ NewNode(b).age = 0 /\ NewNode(b).tx = 0
      /\ NewNode(b).ttl = IF Acknowledged(b) THEN PacketTTL ELSE 0
  BY DEF NewNode
<1>2. PacketTTL \in Nat /\ PacketTTL >= 1
  BY SizeAssumption
<1> QED
  BY <1>1, <1>2 DEF NodeOK, Recent

LEMMA MarkedOK ==
  ASSUME NEW n \in Node, NodeOK(n), ~n.wait_ack, n.ttl > 0
  PROVE  LET k == [n EXCEPT !.wait_ack = TRUE, !.age = 0, !.tx = @ + 1]
         IN  NodeOK(k) /\ Recent(k)
<1> DEFINE k == [n EXCEPT !.wait_ack = TRUE, !.age = 0, !.tx = @ + 1]
<1>1. k.b = n.b /\ k.ttl = n.ttl /\ k.wait_ack /\ k.tx = n.tx + 1
  BY DEF Node
<1>2. n.ttl \in Nat /\ n.tx \in Nat /\ PacketTTL \in Nat
  BY SizeAssumption DEF Node
<1> HIDE DEF k
<1>3. NodeOK(k) /\ Recent(k)
  BY <1>1, <1>2 DEF NodeOK, Recent
<1> QED
  BY <1>3 DEF k

LEMMA RetriedOK ==
  ASSUME NEW n \in Node, NodeOK(n), n.wait_ack, n.ttl > 0
  PROVE  NodeOK(Retry(n))
<1>1. n.ttl \in 0..PacketTTL /\ n.tx \in Nat /\ PacketTTL \in Nat /\ PacketTTL >= 1
      /\ n.b.dup \in BOOLEAN
  BY SizeAssumption DEF Node, Packet
<1>2. Acknowledged(n.b) /\ n.tx = PacketTTL - n.ttl + 1
      /\ (n.b.dup <=> (n.b.type = "PUBLISH" /\ n.ttl < PacketTTL))
  BY DEF NodeOK
<1>3. CASE n.ttl = 1
  <2>1. Retry(n).b = n.b /\ Retry(n).ttl = 0 /\ Retry(n).wait_ack /\ Retry(n).tx = n.tx
    BY <1>3 DEF Retry, Node
  <2> QED
    BY <1>1, <1>2, <1>3, <2>1 DEF NodeOK
<1>4. CASE n.ttl # 1
  <2> DEFINE k == Retry(n)
  <2>1. /\ k.ttl = n.ttl - 1 /\ ~k.wait_ack /\ k.tx = n.tx
        /\ k.b = [n.b EXCEPT !.dup = @ \/ n.b.type = "PUBLISH"]
    BY <1>4 DEF Retry, Node
  <2>2. k.b.type = n.b.type /\ k.b.qos = n.b.qos /\ (k.b.dup <=> (n.b.dup \/ n.b.type = "PUBLISH"))
    BY <2>1 DEF Node, Packet
  <2>3. Acknowledged(k.b)
    BY <1>2, <2>2 DEF Acknowledged
  <2>4. k.ttl > 0 /\ k.ttl < PacketTTL /\ k.tx = PacketTTL - k.ttl
    BY <1>1, <1>2, <1>4, <2>1
  <2>5. k.b.dup <=> (k.b.type = "PUBLISH")
    BY <1>2, <2>2
  <2> HIDE DEF k
  <2>6. NodeOK(k)
    BY <1>1, <2>1, <2>3, <2>4, <2>5 DEF NodeOK
  <2> QED
    BY <2>6 DEF k
<1> QED
  BY <1>3, <1>4

LEMMA OutgoingTries ==
  ASSUME TypeOK, TriesInv, Outgoing
  PROVE  \A i \in DOMAIN padding' : NodeOK(padding'[i]) /\ Recent(padding'[i])
<1> DEFINE s == MarkSent(padding)
           K == {i \in DOMAIN padding : padding[i].wait_ack \/ padding[i].ttl > 0}
<1>1. padding' = KeepAt(s, K)
  BY DEF Outgoing, Remaining
<1>2. s \in Seq(Node) /\ K \in SUBSET (DOMAIN s)
  BY MarkSentType DEF TypeOK
<1>3. ASSUME NEW i \in K
      PROVE  NodeOK(s[i]) /\ Recent(s[i])
  <2>1. i \in DOMAIN padding /\ padding[i] \in Node /\ NodeOK(padding[i])
    BY ElementOfSeq DEF TypeOK, TriesInv
  <2>2. CASE padding[i].wait_ack
    <3>1. s[i] = padding[i]
      BY <2>1, <2>2 DEF MarkSent
    <3> QED
      BY <2>1, <2>2, <3>1 DEF Recent
  <2>3. CASE ~padding[i].wait_ack
    <3>1. s[i] = [padding[i] EXCEPT !.wait_ack = TRUE, !.age = 0, !.tx = @ + 1]
      BY <2>1, <2>3 DEF MarkSent
    <3>2. padding[i].ttl > 0
      BY <2>3
    <3> QED
      BY <2>1, <2>3, <3>1, <3>2, MarkedOK
  <2> QED
    BY <2>2, <2>3
<1> HIDE DEF s, K
<1>4. ASSUME NEW j \in DOMAIN KeepAt(s, K)
      PROVE  NodeOK(KeepAt(s, K)[j]) /\ Recent(KeepAt(s, K)[j])
  BY <1>2, <1>3, KeepAtElement
<1> QED
  BY <1>1, <1>4

LEMMA AgedOK ==
  ASSUME TypeOK, TriesInv, NEW t \in 0..MaxDelta
  PROVE  \A i \in DOMAIN AgeAll(padding, t) :
           /\ i \in DOMAIN padding
           /\ AgeAll(padding, t)[i] \in Node
           /\ NodeOK(AgeAll(padding, t)[i])
           /\ AgeAll(padding, t)[i].wait_ack = padding[i].wait_ack
           /\ AgeAll(padding, t)[i].age = Older(padding[i].age, t)
<1> TAKE i \in DOMAIN AgeAll(padding, t)
<1> DEFINE n == padding[i]
           k == AgeAll(padding, t)[i]
<1>1. i \in DOMAIN padding /\ k = [n EXCEPT !.age = Older(@, t)]
  BY DEF AgeAll
<1>2. n \in Node /\ NodeOK(n)
  BY <1>1, ElementOfSeq DEF TypeOK, TriesInv
<1>3. k \in Node
  BY AgeAllType, ElementOfSeq DEF TypeOK
<1>4. k.b = n.b /\ k.ttl = n.ttl /\ k.wait_ack = n.wait_ack /\ k.tx = n.tx
      /\ k.age = Older(n.age, t)
  BY <1>1, <1>2 DEF Node
<1>5. NodeOK(k)
  BY <1>2, <1>4 DEF NodeOK
<1> QED
  BY <1>1, <1>3, <1>4, <1>5

LEMMA ElapsedTries ==
  ASSUME MaxDelta < PacketTimeout, TypeOK, TriesInv,
         NEW t \in 0..MaxDelta, ElapsedCheck(t)
  PROVE  \A i \in DOMAIN padding' : NodeOK(padding'[i])
<1> DEFINE aged == AgeAll(padding, t)
           ping == Pkt("PINGREQ", 0)
           s == IF PingDue(t) THEN AppendPadding(aged, ping) ELSE aged
<1>1. padding' = CheckPadding(s)
  BY DEF ElapsedCheck
<1>2. aged \in Seq(Node)
  BY AgeAllType DEF TypeOK
<1>3. ping \in Packet /\ ~ping.dup
  BY PktType DEF PacketTypes, Pkt
<1>4. NewNode(ping) \in Node /\ NodeOK(NewNode(ping)) /\ NewNode(ping).ttl = 0
  BY <1>3, NewNodeOK, NewNodeType DEF NewNode, Acknowledged, Pkt
<1>5. ASSUME NEW i \in DOMAIN s
      PROVE  s[i] \in Node /\ NodeOK(s[i]) /\ (TimedOut(s[i]) => s[i].wait_ack)
  <2>1. CASE s[i] = NewNode(ping)
    BY <1>4, <2>1 DEF TimedOut
  <2>2. CASE i \in DOMAIN aged /\ s[i] = aged[i]
    <3>1. s[i] \in Node /\ NodeOK(s[i]) /\ i \in DOMAIN padding
          /\ s[i].wait_ack = padding[i].wait_ack /\ s[i].age = Older(padding[i].age, t)
      BY <2>2, AgedOK
    <3>2. ~padding[i].wait_ack => padding[i].age = 0
      BY <3>1 DEF ElapsedCheck, TriesInv, InTurn, Recent
    <3>3. ~padding[i].wait_ack => s[i].age < PacketTimeout
      BY <3>1, <3>2, TimeAssumption DEF Older
    <3>4. s[i].age \in Nat /\ PacketTimeout \in Nat
      BY <3>1, TimeAssumption DEF Node
    <3> QED
      BY <3>1, <3>3, <3>4 DEF TimedOut
  <2> HIDE DEF aged, ping
  <2> QED
    BY <1>2, <2>1, <2>2, AppendPaddingElement
<1>6. ASSUME NEW i \in DOMAIN s
      PROVE  NodeOK(CheckPadding(s)[i])
  <2>1. TimedOut(s[i]) => NodeOK(Retry(s[i]))
    BY <1>5, RetriedOK DEF TimedOut
  <2> HIDE DEF s
  <2> QED
    BY <1>5, <2>1 DEF CheckPadding
<1>7. DOMAIN CheckPadding(s) = DOMAIN s
  BY DEF CheckPadding
<1> HIDE DEF s
<1> QED
  BY <1>1, <1>6, <1>7

LEMMA TriesStep ==
  ASSUME MaxDelta < PacketTimeout, TypeOK, TriesInv, [Next]_vars
  PROVE  TriesInv'
<1> DEFINE All(s) == \A i \in DOMAIN s :
                       NodeOK(s[i]) /\ (InTurn => Recent(s[i]))
<1>1. padding \in Seq(Node) /\ All(padding)
  BY DEF TypeOK, TriesInv
<1>2. InTurn' => InTurn \/ Outgoing
  BY TurnStep
<1>3. ASSUME All(padding'), ~Outgoing
      PROVE  TriesInv'
  BY <1>2, <1>3 DEF TriesInv
<1>4. ASSUME NEW s \in Seq(Node), All(s), NEW b \in Packet, ~b.dup
      PROVE  All(AppendPadding(s, b))
  BY <1>4, AppendPaddingElement, NewNodeOK
<1>5. ASSUME NEW K \in SUBSET (DOMAIN padding)
      PROVE  KeepAt(padding, K) \in Seq(Node) /\ All(KeepAt(padding, K))
  BY <1>1, KeepAtElement, KeepAtProperties
<1> HIDE DEF All
<1>6. CASE Outgoing
  BY <1>6, OutgoingTries DEF TriesInv
<1>7. CASE ~Outgoing /\ UNCHANGED padding
  BY <1>1, <1>3, <1>7
<1>8. ASSUME ~Outgoing, NEW b \in Packet, ~b.dup, padding' = AppendPadding(padding, b)
      PROVE  TriesInv'
  BY <1>1, <1>3, <1>4, <1>8
<1>9. ASSUME ~Outgoing, NEW K \in SUBSET (DOMAIN padding), padding' = KeepAt(padding, K)
      PROVE  TriesInv'
  BY <1>3, <1>5, <1>9
<1>10. ASSUME ~Outgoing, NEW K \in SUBSET (DOMAIN padding), NEW b \in Packet, ~b.dup,
              padding' = AppendPadding(KeepAt(padding, K), b)
       PROVE  TriesInv'
  BY <1>3, <1>4, <1>5, <1>10
<1>11. ASSUME NEW t \in 0..MaxDelta, ElapsedPingLost(t)
       PROVE  TriesInv'
  BY <1>11, AgedOK DEF TriesInv, ElapsedPingLost, InTurn
<1>12. ASSUME NEW t \in 0..MaxDelta, ElapsedCheck(t)
       PROVE  TriesInv'
  <2>1. ~InTurn'
    BY <1>12 DEF ElapsedCheck, InTurn
  <2> QED
    BY <1>12, <2>1, ElapsedTries DEF TriesInv
<1> QED
  BY <1>6, <1>7, <1>8, <1>9, <1>10, <1>11, <1>12, QueueSteps

LEMMA TriesInvariant ==
  ASSUME MaxDelta < PacketTimeout
  PROVE  Spec => []TriesInv
<1>1. Init => TriesInv
  BY DEF Init, TriesInv
<1>2. TypeOK /\ TriesInv /\ [Next]_vars => TriesInv'
  BY TriesStep
<1> QED
  BY <1>1, <1>2, TypeCorrect, PTL DEF Spec

(* If a turn of the loop is shorter than the packet timeout, the tries a   *)
(* packet has left always account for the copies sent, for every time to   *)
(* live, every timeout and any number of messages.                         *)
THEOREM TriesAreCounted ==
  ASSUME MaxDelta < PacketTimeout
  PROVE  Spec => []TriesCounted
<1>1. TriesInv => TriesCounted
  BY DEF TriesInv, TriesCounted, NodeOK
<1> QED
  BY <1>1, TriesInvariant, PTL

(* Under the same condition the DUP flag is set on a packet about to be    *)
(* sent exactly when an earlier batch held it.                             *)
THEOREM DupIsTrue ==
  ASSUME MaxDelta < PacketTimeout
  PROVE  Spec => []DupMeansSentBefore
<1>1. TypeOK /\ TriesInv => DupMeansSentBefore
  <2> SUFFICES ASSUME TypeOK, TriesInv, NEW i \in Unsent(padding)
               PROVE  padding[i].b.dup <=> (padding[i].b.type = "PUBLISH" /\ padding[i].tx > 0)
    BY DEF DupMeansSentBefore
  <2>1. padding[i] \in Node /\ ~padding[i].wait_ack /\ NodeOK(padding[i])
    BY ElementOfSeq DEF TypeOK, TriesInv, Unsent
  <2>2. padding[i].ttl \in 0..PacketTTL /\ padding[i].tx \in Nat /\ PacketTTL \in Nat
        /\ padding[i].b.dup \in BOOLEAN
    BY <2>1, SizeAssumption DEF Node, Packet
  <2> QED
    BY <2>1, <2>2 DEF NodeOK
<1> QED
  BY <1>1, TriesInvariant, TypeCorrect, PTL
-----------------------------------------------------------------------------
(* Without that condition a packet may lose tries it never used, but it is *)
(* never sent more often than it has tries.                                *)

Spared(n) ==
  Acknowledged(n.b) =>
    /\ n.tx + n.ttl <= PacketTTL + IF n.wait_ack /\ n.ttl > 0 THEN 1 ELSE 0
    /\ n.wait_ack /\ n.ttl > 0 => n.tx > 0

LEMMA NewSpared ==
  ASSUME NEW b
  PROVE  Spared(NewNode(b))
<1>1. NewNode(b).b = b /\ ~NewNode(b).wait_ack /\ NewNode(b).tx = 0
      /\ NewNode(b).ttl = IF Acknowledged(b) THEN PacketTTL ELSE 0
  BY DEF NewNode
<1> QED
  BY <1>1, SizeAssumption DEF Spared

LEMMA RetriedSpared ==
  ASSUME NEW n \in Node, Spared(n), n.ttl > 0
  PROVE  Spared(Retry(n))
<1>1. n.ttl \in Nat /\ n.tx \in Nat /\ PacketTTL \in Nat /\ n.wait_ack \in BOOLEAN
  BY SizeAssumption DEF Node
<1>2. CASE n.ttl = 1
  <2>1. Retry(n).b = n.b /\ Retry(n).ttl = 0 /\ Retry(n).tx = n.tx
    BY <1>2 DEF Retry, Node
  <2> QED
    BY <1>1, <1>2, <2>1 DEF Spared
<1>3. CASE n.ttl # 1
  <2>1. /\ Retry(n).ttl = n.ttl - 1 /\ ~Retry(n).wait_ack /\ Retry(n).tx = n.tx
        /\ Retry(n).b = [n.b EXCEPT !.dup = @ \/ n.b.type = "PUBLISH"]
    BY <1>3 DEF Retry, Node
  <2>2. Acknowledged(Retry(n).b) => Acknowledged(n.b)
    BY <2>1 DEF Acknowledged, Node, Packet
  <2> QED
    BY <1>1, <2>1, <2>2 DEF Spared
<1> QED
  BY <1>2, <1>3

LEMMA OutgoingSpared ==
  ASSUME TypeOK, \A i \in DOMAIN padding : Spared(padding[i]), Outgoing
  PROVE  \A i \in DOMAIN padding' : Spared(padding'[i])
<1> DEFINE s == MarkSent(padding)
           K == {i \in DOMAIN padding : padding[i].wait_ack \/ padding[i].ttl > 0}
<1>1. padding' = KeepAt(s, K)
  BY DEF Outgoing, Remaining
<1>2. s \in Seq(Node) /\ K \in SUBSET (DOMAIN s)
  BY MarkSentType DEF TypeOK
<1>3. ASSUME NEW i \in K PROVE Spared(s[i])
  <2> DEFINE n == padding[i]
  <2>1. i \in DOMAIN padding /\ n \in Node /\ Spared(n)
    BY ElementOfSeq DEF TypeOK
  <2>2. CASE n.wait_ack
    BY <2>1, <2>2 DEF MarkSent
  <2>3. CASE ~n.wait_ack
    <3>1. s[i].b = n.b /\ s[i].wait_ack /\ s[i].ttl = n.ttl /\ s[i].tx = n.tx + 1
      BY <2>1, <2>3 DEF MarkSent, Node
    <3>2. n.ttl \in Nat /\ n.ttl > 0 /\ n.tx \in Nat /\ PacketTTL \in Nat
      BY <2>1, <2>3, SizeAssumption DEF Node
    <3> QED
      BY <2>1, <2>3, <3>1, <3>2 DEF Spared
  <2> QED
    BY <2>2, <2>3
<1> HIDE DEF s, K
<1> QED
  BY <1>1, <1>2, <1>3, KeepAtElement

LEMMA ElapsedSpared ==
  ASSUME TypeOK, \A i \in DOMAIN padding : Spared(padding[i]),
         NEW t \in 0..MaxDelta, ElapsedPingLost(t) \/ ElapsedCheck(t)
  PROVE  \A i \in DOMAIN padding' : Spared(padding'[i])
<1> DEFINE aged == AgeAll(padding, t)
           ping == Pkt("PINGREQ", 0)
           s == IF PingDue(t) THEN AppendPadding(aged, ping) ELSE aged
<1>1. padding' = aged \/ padding' = CheckPadding(s)
  BY DEF ElapsedPingLost, ElapsedCheck
<1>2. aged \in Seq(Node) /\ ping \in Packet
  BY AgeAllType, PktType DEF TypeOK, PacketTypes
<1>3. ASSUME NEW i \in DOMAIN aged
      PROVE  Spared(aged[i])
  <2>1. i \in DOMAIN padding /\ aged[i] = [padding[i] EXCEPT !.age = Older(@, t)]
    BY DEF AgeAll
  <2>2. padding[i] \in Node /\ Spared(padding[i])
    BY <2>1, ElementOfSeq DEF TypeOK
  <2>3. /\ aged[i].b = padding[i].b /\ aged[i].ttl = padding[i].ttl
        /\ aged[i].wait_ack = padding[i].wait_ack /\ aged[i].tx = padding[i].tx
    BY <2>1, <2>2 DEF Node
  <2> HIDE DEF aged
  <2> QED
    BY <2>2, <2>3 DEF Spared
<1>4. s \in Seq(Node) /\ \A i \in DOMAIN s : Spared(s[i])
  <2> HIDE DEF aged, ping
  <2> QED
    BY <1>2, <1>3, AppendPaddingType, AppendPaddingElement, NewSpared
<1> HIDE DEF s
<1>5. ASSUME NEW i \in DOMAIN CheckPadding(s)
      PROVE  Spared(CheckPadding(s)[i])
  <2>1. i \in DOMAIN s /\ s[i] \in Node /\ Spared(s[i])
    BY <1>4, ElementOfSeq DEF CheckPadding
  <2>2. CheckPadding(s)[i] = s[i] \/ (s[i].ttl > 0 /\ CheckPadding(s)[i] = Retry(s[i]))
    BY <2>1 DEF CheckPadding, TimedOut
  <2> QED
    BY <2>1, <2>2, RetriedSpared
<1> QED
  BY <1>1, <1>3, <1>5

(* However long a turn takes, no packet is sent more than PacketTTL times  *)
(* and no packet waits for an answer to something that was never sent, for *)
(* any number of tries and messages.                                       *)
THEOREM TriesAreBounded == Spec => []TriesBounded
<1> DEFINE All(s) == \A i \in DOMAIN s : Spared(s[i])
           Inv == All(padding)
<1>1. Init => Inv
  BY DEF Init
<1>2. TypeOK /\ Inv /\ [Next]_vars => Inv'
  <2> SUFFICES ASSUME TypeOK, Inv, [Next]_vars PROVE All(padding')
    OBVIOUS
  <2>1. padding \in Seq(Node)
    BY DEF TypeOK
  <2>2. ASSUME NEW s \in Seq(Node), All(s), NEW b \in Packet
        PROVE  All(AppendPadding(s, b))
    BY <2>2, AppendPaddingElement, NewSpared
  <2>3. ASSUME NEW K \in SUBSET (DOMAIN padding)
        PROVE  KeepAt(padding, K) \in Seq(Node) /\ All(KeepAt(padding, K))
    BY <2>1, KeepAtElement, KeepAtProperties
  <2>4. CASE Outgoing
    BY <2>4, OutgoingSpared
  <2>5. ASSUME NEW t \in 0..MaxDelta, ElapsedPingLost(t) \/ ElapsedCheck(t)
        PROVE  All(padding')
    BY <2>5, ElapsedSpared
  <2>6. CASE UNCHANGED padding
    BY <2>6
  <2> HIDE DEF All
  <2> QED
    BY <2>1, <2>2, <2>3, <2>4, <2>5, <2>6, QueueSteps
<1>3. Inv => TriesBounded
  BY DEF TriesBounded, Spared
<1> HIDE DEF Inv
<1> QED
  BY <1>1, <1>2, <1>3, TypeCorrect, PTL DEF Spec
-----------------------------------------------------------------------------
(* The keep-alive.  Inside a turn the last batch is not older than the     *)
(* ping that waits for its answer, and a turn that begins with a long      *)
(* silence begins with something to send: the PINGREQ that was due, or the *)
(* CONNECT of a new connection.                                            *)

Quiet == sendAge <= KeepAlive /\ (pingAge # NoPing => sendAge <= pingAge)

SomethingToSend == \E i \in DOMAIN padding : ~padding[i].wait_ack

KeepAliveInv ==
  KeepAlive > 0 =>
    /\ pingAge <= KeepAlive
    /\ sendAge <= KeepAlive + MaxDelta
    /\ InTurn => Quiet
    /\ pc = "outgoing" => Quiet \/ SomethingToSend

(* Who touches m->t.                                                       *)
LEMMA TimerSteps ==
  ASSUME [Next]_vars
  PROVE  Outgoing \/ OnPingresp \/ Elapsed \/ UNCHANGED <<pingAge, sendAge>>
<1>1. CASE MainLoop
  BY <1>1 DEF MainLoop, TcpConnect, Hello, Send, RecvData, RecvTimeout, RecvEnd,
     IncomingEnd, HandlePacket, OnConnack, OnPublish, OnAck, OnPubrec, OnPubrel,
     OnUnsuback, OnSuback, Handle, Rejected, Close, client
<1>2. CASE Environment
  BY <1>2 DEF Environment, Publish, Unsubscribe, BrokerRecv, BrokerAccept,
     BrokerRefuse, BrokerClose, BrokerPublished, BrokerReleased, BrokerPinged,
     BrokerSubscribed, BrokerUnsubscribed, BrokerAcked, BrokerSend, Drop, client
<1>3. CASE UNCHANGED vars
  BY <1>3 DEF vars, client
<1> QED
  BY <1>1, <1>2, <1>3 DEF Next

(* How a turn comes to begin.                                              *)
LEMMA OutgoingNext ==
  ASSUME TypeOK, [Next]_vars, pc' = "outgoing", ~Hello, ~Elapsed
  PROVE  /\ pc = "outgoing"
         /\ UNCHANGED padding \/ \E b \in Packet : padding' = AppendPadding(padding, b)
<1>1. CASE MainLoop
  BY <1>1 DEF MainLoop, TcpConnect, Outgoing, Send, RecvData, RecvTimeout, RecvEnd,
     IncomingEnd, HandlePacket, OnConnack, OnPublish, OnAck, OnPubrec, OnPubrel,
     OnUnsuback, OnSuback, OnPingresp, Handle, Rejected, Close
<1>2. ASSUME NEW q \in QosUsed, Publish(q)
      PROVE  pc = "outgoing" /\ \E b \in Packet : padding' = AppendPadding(padding, b)
  BY <1>2, PublishPacket DEF Publish, loop
<1>3. CASE Unsubscribe
  <2>1. Pkt("UNSUBSCRIBE", NextId) \in Packet
    BY NextIdType, PktType DEF TypeOK, PacketTypes
  <2> QED
    BY <1>3, <2>1 DEF Unsubscribe, loop
<1>4. CASE BrokerRecv \/ Drop \/ \E q \in InQos : BrokerSend(q)
  BY <1>4 DEF BrokerRecv, BrokerAccept, BrokerRefuse, BrokerClose, BrokerPublished,
     BrokerReleased, BrokerPinged, BrokerSubscribed, BrokerUnsubscribed, BrokerAcked,
     BrokerSend, Drop, client, loop
<1>5. CASE UNCHANGED vars
  BY <1>5 DEF vars, client, loop
<1> QED
  BY <1>1, <1>2, <1>3, <1>4, <1>5 DEF Next, Environment

LEMMA AppendSomething ==
  ASSUME NEW s \in Seq(Node), NEW b
  PROVE  \E i \in DOMAIN AppendPadding(s, b) : ~AppendPadding(s, b)[i].wait_ack
<1>1. ~NewNode(b).wait_ack
  BY DEF NewNode
<1> QED
  BY <1>1, AppendPaddingKeeps

(* _check_padding never marks a node as waiting.                           *)
LEMMA CheckKeepsUnsent ==
  ASSUME NEW s \in Seq(Node), \E i \in DOMAIN s : ~s[i].wait_ack
  PROVE  \E i \in DOMAIN CheckPadding(s) : ~CheckPadding(s)[i].wait_ack
<1>1. PICK i \in DOMAIN s : ~s[i].wait_ack
  OBVIOUS
<1>2. s[i] \in Node
  BY ElementOfSeq
<1>3. ~Retry(s[i]).wait_ack
  BY <1>1, <1>2 DEF Retry, Node
<1>4. i \in DOMAIN CheckPadding(s) /\ ~CheckPadding(s)[i].wait_ack
  BY <1>1, <1>3 DEF CheckPadding
<1> QED
  BY <1>4

LEMMA TimesAreNumbers ==
  ASSUME TypeOK
  PROVE  /\ KeepAlive \in Nat /\ MaxDelta \in Nat /\ MaxAge \in Nat
         /\ MaxAge > KeepAlive + MaxDelta
         /\ sendAge \in 0..MaxAge /\ (pingAge = -1 \/ pingAge \in 0..MaxAge)
BY TimeAssumption DEF TypeOK, NoPing

LEMMA OutgoingKeepAlive ==
  ASSUME TypeOK, KeepAliveInv, KeepAlive > 0, Outgoing
  PROVE  KeepAliveInv'
<1>1. InTurn' /\ pc' # "outgoing" /\ pingAge' = pingAge /\ pc = "outgoing"
  BY DEF Outgoing, InTurn
<1>2. CASE Unsent(padding) = {}
  <2>1. sendAge' = sendAge /\ Quiet
    BY <1>1, <1>2 DEF Outgoing, KeepAliveInv, SomethingToSend, Unsent
  <2> QED
    BY <1>1, <2>1 DEF KeepAliveInv, Quiet
<1>3. CASE Unsent(padding) # {}
  <2>1. sendAge' = 0
    BY <1>3 DEF Outgoing
  <2> QED
    BY <1>1, <2>1, TimesAreNumbers DEF KeepAliveInv, Quiet, NoPing
<1> QED
  BY <1>2, <1>3

LEMMA ElapsedKeepAlive ==
  ASSUME TypeOK, KeepAliveInv, KeepAlive > 0, NEW t \in 0..MaxDelta,
         ElapsedPingLost(t) \/ ElapsedCheck(t)
  PROVE  KeepAliveInv'
<1>1. pc = "elapsed" /\ InTurn /\ ~InTurn' /\ sendAge' = Older(sendAge, t)
  BY DEF ElapsedPingLost, ElapsedCheck, InTurn
<1>2. Quiet /\ pingAge <= KeepAlive
  BY <1>1 DEF KeepAliveInv
<1>3. sendAge' <= KeepAlive + MaxDelta
  BY <1>1, <1>2, TimesAreNumbers DEF Quiet, Older
<1>4. CASE ElapsedPingLost(t)
  BY <1>1, <1>3, <1>4, TimesAreNumbers DEF ElapsedPingLost, KeepAliveInv, NoPing
<1>5. CASE ElapsedCheck(t) /\ PingDue(t)
  <2> DEFINE s == AppendPadding(AgeAll(padding, t), Pkt("PINGREQ", 0))
  <2>1. pingAge' = 0 /\ padding' = CheckPadding(s)
    BY <1>5 DEF ElapsedCheck
  <2>2. s \in Seq(Node) /\ \E i \in DOMAIN s : ~s[i].wait_ack
    <3>1. AgeAll(padding, t) \in Seq(Node)
      BY AgeAllType DEF TypeOK
    <3>2. Pkt("PINGREQ", 0) \in Packet
      BY PktType DEF PacketTypes
    <3> QED
      BY <3>1, <3>2, AppendPaddingType, AppendSomething
  <2>3. SomethingToSend'
    <3> HIDE DEF s
    <3> QED
      BY <2>1, <2>2, CheckKeepsUnsent DEF SomethingToSend
  <2> QED
    BY <1>1, <1>3, <2>1, <2>3, TimesAreNumbers DEF KeepAliveInv
<1>6. CASE ElapsedCheck(t) /\ ~PingDue(t)
  <2>1. pingAge' = IF pingAge = NoPing THEN NoPing ELSE Older(pingAge, t)
    BY <1>6 DEF ElapsedCheck
  <2>2. CASE pingAge = NoPing
    <3>1. sendAge' < KeepAlive
      BY <1>1, <1>6, <2>2, TimesAreNumbers DEF PingDue, Older
    <3>2. pingAge' = -1
      BY <2>1, <2>2 DEF NoPing
    <3>3. sendAge' \in Int
      BY <1>1, TimesAreNumbers DEF Older
    <3>4. Quiet' /\ pingAge' <= KeepAlive
      BY <3>1, <3>2, <3>3, TimesAreNumbers DEF Quiet, NoPing
    <3> QED
      BY <1>1, <1>3, <3>4 DEF KeepAliveInv
  <2>3. CASE pingAge # NoPing
    <3>1. Older(pingAge, t) <= KeepAlive /\ pingAge' = Older(pingAge, t)
      BY <1>6, <2>1, <2>3, TimesAreNumbers DEF ElapsedCheck, PingLost, Older, NoPing
    <3>2. Older(sendAge, t) <= Older(pingAge, t)
      BY <1>2, <2>3, TimesAreNumbers DEF Quiet, Older, NoPing
    <3>3. Quiet' /\ pingAge' <= KeepAlive
      BY <1>1, <3>1, <3>2, TimesAreNumbers DEF Quiet, Older, NoPing
    <3> QED
      BY <1>1, <1>3, <3>3 DEF KeepAliveInv
  <2> QED
    BY <2>2, <2>3
<1> QED
  BY <1>4, <1>5, <1>6

LEMMA KeepAliveStep ==
  ASSUME TypeOK, KeepAliveInv, [Next]_vars
  PROVE  KeepAliveInv'
<1> SUFFICES ASSUME KeepAlive > 0 PROVE KeepAliveInv'
  BY DEF KeepAliveInv
<1>1. CASE Outgoing
  BY <1>1, OutgoingKeepAlive
<1>2. CASE Elapsed
  <2>1. \A t \in Durations : t \in 0..MaxDelta
    BY TimeAssumption DEF Durations
  <2> QED
    BY <1>2, <2>1, ElapsedKeepAlive DEF Elapsed
<1>3. CASE ~Outgoing /\ ~Elapsed
  <2>1. sendAge' = sendAge /\ (pingAge' = pingAge \/ pingAge' = NoPing)
    BY <1>3, TimerSteps DEF OnPingresp, Handle
  <2>2. InTurn' => InTurn
    BY <1>3, TurnStep
  <2>3. Quiet => Quiet'
    BY <2>1 DEF Quiet
  <2>4. pingAge' <= KeepAlive /\ sendAge' <= KeepAlive + MaxDelta
    BY <2>1, TimesAreNumbers DEF KeepAliveInv, NoPing
  <2>5. ASSUME pc' = "outgoing" PROVE Quiet' \/ SomethingToSend'
    <3>1. CASE Hello
      BY <3>1, AppendSomething DEF Hello, SomethingToSend, TypeOK
    <3>2. CASE ~Hello
      <4>1. pc = "outgoing" /\ (UNCHANGED padding \/ \E b \in Packet : padding' = AppendPadding(padding, b))
        BY <1>3, <2>5, <3>2, OutgoingNext
      <4>2. CASE UNCHANGED padding
        BY <2>3, <4>1, <4>2 DEF KeepAliveInv, SomethingToSend
      <4>3. CASE \E b \in Packet : padding' = AppendPadding(padding, b)
        BY <4>3, AppendSomething DEF SomethingToSend, TypeOK
      <4> QED
        BY <4>1, <4>2, <4>3
    <3> QED
      BY <3>1, <3>2
  <2> QED
    BY <2>2, <2>3, <2>4, <2>5 DEF KeepAliveInv
<1> QED
  BY <1>1, <1>2, <1>3

(* For every keep-alive and every length of a turn: the client is never    *)
(* silent for longer than the keep-alive while a turn is under way, nor    *)
(* for longer than the keep-alive and one turn at any time, and a ping is  *)
(* never unanswered for longer than the keep-alive.                        *)
THEOREM KeepAliveIsHonoured == Spec => []KeepAliveHonoured
<1>1. Init => KeepAliveInv
  <2> SUFFICES ASSUME Init PROVE KeepAliveInv
    OBVIOUS
  <2>1. sendAge = 0 /\ pingAge = -1 /\ pc = "connect"
    BY DEF Init, NoPing
  <2> QED
    BY <2>1, TimeAssumption DEF KeepAliveInv, InTurn
<1>2. TypeOK /\ KeepAliveInv /\ [Next]_vars => KeepAliveInv'
  BY KeepAliveStep
<1>3. KeepAliveInv => KeepAliveHonoured
  BY DEF KeepAliveInv, KeepAliveHonoured, InTurn, Quiet
<1> QED
  BY <1>1, <1>2, <1>3, TypeCorrect, PTL DEF Spec
-----------------------------------------------------------------------------
(* One CONNECT a session.  The CONNECT that mqtt_cli_connect appends is in *)
(* the queue until the next mqtt_cli_outgoing, in the batch until it is    *)
(* sent, and in flight until the broker opens the session with it.  It     *)
(* does not survive a connection: a node that nobody acknowledges has no   *)
(* tries and is freed when it is sent.                                     *)

(* A node of the queue one turn later, before _check_padding looks at it.  *)
LEMMA AgedNode ==
  ASSUME TypeOK, NEW t \in 0..MaxDelta, NEW i \in DOMAIN AgeAll(padding, t)
  PROVE  /\ i \in DOMAIN padding
         /\ AgeAll(padding, t)[i] \in Node
         /\ AgeAll(padding, t)[i].b = padding[i].b
         /\ AgeAll(padding, t)[i].ttl = padding[i].ttl
         /\ AgeAll(padding, t)[i].wait_ack = padding[i].wait_ack
<1>1. i \in DOMAIN padding
      /\ AgeAll(padding, t)[i] = [padding[i] EXCEPT !.age = Older(@, t)]
  BY DEF AgeAll
<1>2. padding[i] \in Node
  BY <1>1, ElementOfSeq DEF TypeOK
<1>3. AgeAll(padding, t)[i] \in Node
  BY AgeAllType, ElementOfSeq DEF TypeOK
<1> QED
  BY <1>1, <1>2, <1>3 DEF Node

(* What a timeout changes.                                                 *)
LEMMA RetriedNode ==
  ASSUME NEW n \in Node, n.ttl > 0
  PROVE  /\ Retry(n).b.type = n.b.type /\ Retry(n).b.qos = n.b.qos
         /\ Retry(n).b.msg = n.b.msg
         /\ n.ttl = 1 => Retry(n).ttl = 0 /\ Retry(n).wait_ack = n.wait_ack
         /\ n.ttl # 1 => Retry(n).ttl = n.ttl - 1
<1>1. CASE n.ttl = 1
  BY <1>1 DEF Retry, Node, Packet
<1>2. CASE n.ttl # 1
  BY <1>2 DEF Retry, Node, Packet
<1> QED
  BY <1>1, <1>2

Plain(n) == ~Acknowledged(n.b) => n.ttl = 0 /\ ~n.wait_ack

(* Where the CONNECT is, in a queue and in a sequence of packets.          *)
Connecting(s) == {i \in DOMAIN s : s[i].b.type = "CONNECT"}
Greetings(s)  == {i \in DOMAIN s : s[i].type = "CONNECT"}

AtMostOne(S) == \A i, j \in S : i = j

ConnectInv ==
  /\ \A i \in DOMAIN padding : Plain(padding[i])
  /\ AtMostOne(Connecting(padding)) /\ AtMostOne(Greetings(out))
  /\ AtMostOne(Greetings(c2s))
  /\ Connecting(padding) # {}
       => pc = "outgoing" /\ session = "new" /\ Greetings(c2s) = {}
  /\ Greetings(out) # {} => pc = "send" /\ session = "new" /\ Greetings(c2s) = {}
  /\ Greetings(c2s) # {} => session = "new"
  /\ pc = "hello" => session = "new" /\ Greetings(c2s) = {}

LEMMA PlainNew ==
  ASSUME NEW b
  PROVE  Plain(NewNode(b)) /\ NewNode(b).b = b
BY DEF Plain, NewNode

LEMMA PlainRetry ==
  ASSUME NEW n \in Node, Plain(n), n.ttl > 0
  PROVE  Plain(Retry(n))
<1>1. Acknowledged(n.b)
  BY DEF Plain
<1>2. Acknowledged(Retry(n).b)
  BY <1>1, RetriedNode DEF Acknowledged
<1> QED
  BY <1>2 DEF Plain

(* What a batch leaves behind waits for an acknowledgement.                *)
LEMMA OutgoingPlain ==
  ASSUME TypeOK, \A i \in DOMAIN padding : Plain(padding[i]), Outgoing
  PROVE  \A j \in DOMAIN padding' : Acknowledged(padding'[j].b)
<1> DEFINE s == MarkSent(padding)
           K == {i \in DOMAIN padding : padding[i].wait_ack \/ padding[i].ttl > 0}
<1>1. padding' = KeepAt(s, K)
  BY DEF Outgoing, Remaining
<1>2. s \in Seq(Node) /\ K \in SUBSET (DOMAIN s)
  BY MarkSentType DEF TypeOK
<1>3. ASSUME NEW i \in K PROVE Acknowledged(s[i].b)
  <2>1. i \in DOMAIN padding /\ padding[i] \in Node
    BY ElementOfSeq DEF TypeOK
  <2>2. s[i].b = padding[i].b
    BY <2>1 DEF MarkSent, Node
  <2>3. Acknowledged(padding[i].b)
    BY <2>1 DEF Plain
  <2> QED
    BY <2>2, <2>3
<1> HIDE DEF s, K
<1> QED
  BY <1>1, <1>2, <1>3, KeepAtElement

(* A turn of the loop: the nodes keep their packets, and a PINGREQ may     *)
(* join them.                                                              *)
LEMMA ElapsedPlain ==
  ASSUME TypeOK, \A i \in DOMAIN padding : Plain(padding[i]),
         NEW t \in 0..MaxDelta, ElapsedPingLost(t) \/ ElapsedCheck(t)
  PROVE  /\ \A i \in DOMAIN padding' : Plain(padding'[i])
         /\ Connecting(padding)' \subseteq Connecting(padding)
<1> DEFINE aged == AgeAll(padding, t)
           ping == Pkt("PINGREQ", 0)
           s == IF PingDue(t) THEN AppendPadding(aged, ping) ELSE aged
<1>1. padding' = aged \/ padding' = CheckPadding(s)
  BY DEF ElapsedPingLost, ElapsedCheck
<1>2. aged \in Seq(Node) /\ ping \in Packet /\ ping.type # "CONNECT"
  BY AgeAllType, PktType DEF TypeOK, PacketTypes, Pkt
<1>3. ASSUME NEW i \in DOMAIN aged
      PROVE  Plain(aged[i]) /\ (aged[i].b.type = "CONNECT" => i \in Connecting(padding))
  <2>1. i \in DOMAIN padding /\ aged[i].b = padding[i].b
        /\ aged[i].ttl = padding[i].ttl /\ aged[i].wait_ack = padding[i].wait_ack
    BY <1>3, AgedNode
  <2>2. Plain(padding[i])
    BY <2>1
  <2> HIDE DEF aged
  <2> QED
    BY <2>1, <2>2 DEF Plain, Connecting
<1>4. ASSUME NEW i \in DOMAIN s
      PROVE  /\ s[i] \in Node /\ Plain(s[i])
             /\ s[i].b.type = "CONNECT" => i \in Connecting(padding)
  <2>1. CASE s[i] = NewNode(ping)
    BY <1>2, <2>1, PlainNew, NewNodeType
  <2>2. CASE i \in DOMAIN aged /\ s[i] = aged[i]
    <3>1. aged[i] \in Node
      BY <1>2, <2>2, ElementOfSeq
    <3> QED
      BY <1>3, <2>2, <3>1
  <2> HIDE DEF aged, ping
  <2> QED
    BY <1>2, <2>1, <2>2, AppendPaddingElement
<1> HIDE DEF s, aged
<1>5. ASSUME NEW i \in DOMAIN CheckPadding(s)
      PROVE  /\ Plain(CheckPadding(s)[i])
             /\ CheckPadding(s)[i].b.type = "CONNECT" => i \in Connecting(padding)
  <2>1. i \in DOMAIN s
    BY DEF CheckPadding
  <2>2. TimedOut(s[i]) => /\ Plain(Retry(s[i]))
                          /\ Retry(s[i]).b.type = s[i].b.type
    BY <1>4, <2>1, PlainRetry, RetriedNode DEF TimedOut
  <2>3. CheckPadding(s)[i] = s[i] \/ (TimedOut(s[i]) /\ CheckPadding(s)[i] = Retry(s[i]))
    BY <2>1 DEF CheckPadding
  <2> QED
    BY <1>4, <2>1, <2>2, <2>3
<1> QED
  BY <1>1, <1>3, <1>5 DEF Connecting

LEMMA PlainStep ==
  ASSUME TypeOK, \A i \in DOMAIN padding : Plain(padding[i]), [Next]_vars
  PROVE  \A i \in DOMAIN padding' : Plain(padding'[i])
<1> DEFINE All(s) == \A i \in DOMAIN s : Plain(s[i])
<1>1. padding \in Seq(Node) /\ All(padding)
  BY DEF TypeOK
<1>2. ASSUME NEW s \in Seq(Node), All(s), NEW b \in Packet
      PROVE  All(AppendPadding(s, b))
  BY <1>2, AppendPaddingElement, PlainNew
<1>3. ASSUME NEW K \in SUBSET (DOMAIN padding)
      PROVE  KeepAt(padding, K) \in Seq(Node) /\ All(KeepAt(padding, K))
  BY <1>1, KeepAtElement, KeepAtProperties
<1>4. CASE Outgoing
  BY <1>4, OutgoingPlain DEF Plain
<1>5. ASSUME NEW t \in 0..MaxDelta, ElapsedPingLost(t) \/ ElapsedCheck(t)
      PROVE  All(padding')
  BY <1>5, ElapsedPlain
<1> HIDE DEF All
<1>6. All(padding')
  BY <1>1, <1>2, <1>3, <1>5, QueueSteps, <1>4 DEF All
<1> QED
  BY <1>6 DEF All

(* A queue in which fewer nodes, or the same, hold a CONNECT.              *)
Fewer(s, t) ==
  /\ AtMostOne(Connecting(s)) => AtMostOne(Connecting(t))
  /\ Connecting(t) # {} => Connecting(s) # {}

LEMMA FewerAppend ==
  ASSUME NEW s \in Seq(Node), NEW b, b.type # "CONNECT"
  PROVE  Connecting(AppendPadding(s, b)) \subseteq Connecting(s)
<1>1. ASSUME NEW i \in DOMAIN AppendPadding(s, b),
             AppendPadding(s, b)[i].b.type = "CONNECT"
      PROVE  i \in DOMAIN s /\ s[i].b.type = "CONNECT"
  <2>1. AppendPadding(s, b)[i] # NewNode(b)
    BY <1>1, PlainNew
  <2> QED
    BY <1>1, <2>1, AppendPaddingElement
<1> QED
  BY <1>1 DEF Connecting

LEMMA FewerKeep ==
  ASSUME NEW s \in Seq(Node), NEW K \in SUBSET (DOMAIN s)
  PROVE  Fewer(s, KeepAt(s, K))
<1> DEFINE p == KeepAt(s, K)
<1>1. /\ \A j \in DOMAIN p : Nth(K, j) \in K /\ p[j] = s[Nth(K, j)]
      /\ \A i, j \in DOMAIN p : Nth(K, i) = Nth(K, j) => i = j
  BY KeepAtOnce
<1> HIDE DEF p
<1>2. \A j \in Connecting(p) : Nth(K, j) \in Connecting(s)
  BY <1>1 DEF Connecting
<1>3. \A j \in Connecting(p) : j \in DOMAIN p
  BY DEF Connecting
<1>4. Fewer(s, p)
  BY <1>1, <1>2, <1>3 DEF Fewer, AtMostOne
<1> QED
  BY <1>4 DEF p

(* Only mqtt_cli_connect appends a CONNECT.                                *)
LEMMA ConnectingStep ==
  ASSUME TypeOK, [Next]_vars, ~Hello, ~Outgoing, ~Elapsed
  PROVE  Fewer(padding, padding')
<1>1. ASSUME UNCHANGED padding PROVE Fewer(padding, padding')
  BY <1>1 DEF Fewer
<1>2. ASSUME NEW b, b.type # "CONNECT", padding' = AppendPadding(padding, b)
      PROVE  Fewer(padding, padding')
  BY <1>2, FewerAppend DEF Fewer, AtMostOne, TypeOK
<1>3. ASSUME OnAck PROVE Fewer(padding, padding')
  BY <1>3, FewerKeep DEF OnAck, ErasePadding, TypeOK
<1>4. ASSUME OnPubrec PROVE Fewer(padding, padding')
  <2> DEFINE K == DOMAIN padding \ {FirstOf(Matching(padding, "PUBLISH", Head(inb).id))}
  <2>1. PICK b \in Packet : b.type = "PUBREL" /\ padding' = AppendPadding(KeepAt(padding, K), b)
    BY <1>4, PubrelPacket DEF ErasePadding
  <2>2. K \in SUBSET (DOMAIN padding)
    OBVIOUS
  <2> HIDE DEF K
  <2>3. Fewer(padding, KeepAt(padding, K)) /\ KeepAt(padding, K) \in Seq(Node)
    BY <2>2, FewerKeep, KeepAtProperties DEF TypeOK
  <2>4. Connecting(padding') \subseteq Connecting(KeepAt(padding, K))
    BY <2>1, <2>3, FewerAppend
  <2> QED
    BY <2>3, <2>4 DEF Fewer, AtMostOne
<1>5. ASSUME NEW q \in QosUsed, Publish(q) PROVE Fewer(padding, padding')
  BY <1>2, <1>5, PublishPacket
<1>6. ASSUME Unsubscribe PROVE Fewer(padding, padding')
  BY <1>2, <1>6 DEF Unsubscribe, Pkt
<1>7. ASSUME OnConnack \/ OnPubrel \/ OnUnsuback PROVE Fewer(padding, padding')
  BY <1>1, <1>2, <1>7 DEF OnConnack, OnPubrel, OnUnsuback, Pkt
<1>8. ASSUME OnPublish PROVE Fewer(padding, padding')
  <2>1. Head(inb) \in Packet
    BY <1>8, HandleType DEF OnPublish
  <2>2. Head(inb).qos \in {0, 1, 2}
    BY <2>1 DEF Packet
  <2>3. Head(inb).qos # 0 => Reply[Head(inb).qos] # "CONNECT"
    BY <2>2 DEF Reply
  <2> QED
    BY <1>1, <1>2, <1>8, <2>2, <2>3 DEF OnPublish, Pkt
<1>9. ASSUME \/ TcpConnect \/ Send \/ RecvData \/ RecvTimeout \/ RecvEnd
             \/ IncomingEnd \/ OnSuback \/ OnPingresp \/ Rejected \/ Close
      PROVE  UNCHANGED padding
  BY <1>9 DEF TcpConnect, Send, RecvData, RecvTimeout, RecvEnd, IncomingEnd,
     OnSuback, OnPingresp, Rejected, Close, client
<1>10. ASSUME BrokerRecv \/ Drop \/ (\E q \in InQos : BrokerSend(q)) \/ UNCHANGED vars
       PROVE  UNCHANGED padding
  BY <1>10 DEF BrokerRecv, BrokerAccept, BrokerRefuse, BrokerClose, BrokerPublished,
     BrokerReleased, BrokerPinged, BrokerSubscribed, BrokerUnsubscribed, BrokerAcked,
     BrokerSend, Drop, client, vars
<1>11. CASE MainLoop
  BY <1>1, <1>3, <1>4, <1>7, <1>8, <1>9, <1>11 DEF MainLoop, HandlePacket
<1>12. CASE Environment
  BY <1>1, <1>5, <1>6, <1>10, <1>12 DEF Environment
<1> QED
  BY <1>1, <1>10, <1>11, <1>12 DEF Next

(* Who moves packets to the broker, and who begins and opens a session.    *)
LEMMA LineSteps ==
  ASSUME [Next]_vars
  PROVE  /\ Outgoing \/ out' = out \/ out' = <<>>
         /\ Send \/ c2s' = c2s \/ c2s' = <<>> \/ (c2s # <<>> /\ c2s' = Tail(c2s))
         /\ TcpConnect \/ BrokerAccept \/ session' = session
         /\ pc = "outgoing" => Outgoing \/ pc' = pc
         /\ pc = "send" => Send \/ pc' = pc
         /\ pc' = "hello" => TcpConnect \/ pc = "hello"
<1>1. CASE MainLoop /\ ~HandlePacket /\ ~Elapsed
  BY <1>1 DEF MainLoop, TcpConnect, Hello, Outgoing, Send, RecvData, RecvTimeout, RecvEnd,
     IncomingEnd, Close, broker
<1>2. CASE HandlePacket
  BY <1>2 DEF HandlePacket, OnConnack, OnPublish, OnAck, OnPubrec, OnPubrel,
     OnUnsuback, OnSuback, OnPingresp, Handle, Rejected, broker
<1>3. CASE Elapsed
  BY <1>3 DEF Elapsed, ElapsedPingLost, ElapsedCheck, broker
<1>4. CASE Environment
  BY <1>4 DEF Environment, Publish, Unsubscribe, BrokerRecv, BrokerAccept,
     BrokerRefuse, BrokerClose, BrokerPublished, BrokerReleased, BrokerPinged,
     BrokerSubscribed, BrokerUnsubscribed, BrokerAcked, BrokerSend, Drop, loop,
     broker, Replies, InSession, BrokerGets
<1>5. CASE UNCHANGED vars
  BY <1>5 DEF vars, loop, broker
<1> QED
  BY <1>1, <1>2, <1>3, <1>4, <1>5 DEF Next

LEMMA GreetingsTail ==
  ASSUME NEW s \in Seq(Packet), s # <<>>, AtMostOne(Greetings(s))
  PROVE  /\ AtMostOne(Greetings(Tail(s)))
         /\ Greetings(Tail(s)) # {} => Greetings(s) # {} /\ Head(s).type # "CONNECT"
<1>1. Len(s) \in Nat /\ Len(s) >= 1 /\ DOMAIN s = 1..Len(s)
      /\ DOMAIN Tail(s) = 1..Len(s) - 1 /\ Head(s) = s[1]
      /\ \A i \in 1..Len(s) - 1 : Tail(s)[i] = s[i + 1]
  OBVIOUS
<1>2. \A i \in 1..Len(s) - 1 : i + 1 \in 1..Len(s) /\ i + 1 # 1 /\ i \in Nat
  BY <1>1
<1>3. 1 \in 1..Len(s)
  BY <1>1
<1>4. \A i \in Greetings(Tail(s)) : i + 1 \in Greetings(s) /\ i + 1 # 1 /\ i \in Nat
  BY <1>1, <1>2 DEF Greetings
<1>5. Head(s).type = "CONNECT" => 1 \in Greetings(s)
  BY <1>1, <1>3 DEF Greetings
<1>6. \A i, j \in Nat : i + 1 = j + 1 => i = j
  OBVIOUS
<1> QED
  BY <1>4, <1>5, <1>6 DEF AtMostOne

LEMMA GreetingsConcat ==
  ASSUME NEW s \in Seq(Packet), NEW t \in Seq(Packet),
         AtMostOne(Greetings(s)), AtMostOne(Greetings(t)),
         Greetings(s) = {} \/ Greetings(t) = {}
  PROVE  /\ AtMostOne(Greetings(s \o t))
         /\ Greetings(s \o t) # {} => Greetings(s) # {} \/ Greetings(t) # {}
<1>1. Len(s) \in Nat /\ Len(t) \in Nat /\ DOMAIN s = 1..Len(s) /\ DOMAIN t = 1..Len(t)
      /\ DOMAIN (s \o t) = 1..Len(s) + Len(t)
  OBVIOUS
<1>2. \A i \in 1..Len(s) + Len(t) :
        (s \o t)[i] = IF i <= Len(s) THEN s[i] ELSE t[i - Len(s)]
  OBVIOUS
<1>3. \A i \in 1..Len(s) + Len(t) : \/ i <= Len(s) /\ i \in 1..Len(s)
                                    \/ ~(i <= Len(s)) /\ i - Len(s) \in 1..Len(t)
  BY <1>1
<1>4. \A i \in Greetings(s \o t) : \/ i \in Greetings(s)
                                   \/ i \in Nat /\ i - Len(s) \in Greetings(t)
  <2> TAKE i \in Greetings(s \o t)
  <2>1. i \in 1..Len(s) + Len(t) /\ (s \o t)[i].type = "CONNECT"
    BY <1>1 DEF Greetings
  <2>2. CASE i <= Len(s)
    BY <1>1, <1>2, <1>3, <2>1, <2>2 DEF Greetings
  <2>3. CASE ~(i <= Len(s))
    <3>1. (s \o t)[i] = t[i - Len(s)] /\ i - Len(s) \in 1..Len(t) /\ i \in Nat
      BY <1>2, <1>3, <2>1, <2>3
    <3> QED
      BY <1>1, <2>1, <3>1 DEF Greetings
  <2> QED
    BY <2>2, <2>3
<1>5. \A i, j \in Nat : i - Len(s) = j - Len(s) => i = j
  BY <1>1
<1> QED
  BY <1>4, <1>5 DEF AtMostOne

(* The batch holds the CONNECT of the queue.                               *)
LEMMA BatchGreetings ==
  ASSUME NEW s \in Seq(Node), AtMostOne(Connecting(s))
  PROVE  /\ AtMostOne(Greetings(Batch(s)))
         /\ Greetings(Batch(s)) # {} => Connecting(s) # {}
<1> DEFINE U == Unsent(s)
           u == KeepAt(s, U)
<1>1. U \in SUBSET (DOMAIN s)
  BY DEF Unsent
<1>2. Fewer(s, u)
  <2> HIDE DEF U
  <2> QED
    BY <1>1, FewerKeep
<1>3. Batch(s) = [i \in DOMAIN u |-> u[i].b]
  BY DEF Batch
<1> HIDE DEF u
<1>4. Greetings(Batch(s)) = Connecting(u)
  BY <1>3 DEF Greetings, Connecting
<1> QED
  BY <1>2, <1>4 DEF Fewer

LEMMA HelloConnect ==
  ASSUME TypeOK, ConnectInv, Hello
  PROVE  ConnectInv'
<1>1. /\ pc = "hello" /\ pc' = "outgoing" /\ out' = out /\ c2s' = c2s /\ session' = session
      /\ padding' = Append(padding, NewNode(Pkt("CONNECT", 0)))
  BY DEF Hello, AppendPadding, broker
<1>2. Connecting(padding) = {} /\ Greetings(out) = {} /\ Greetings(c2s) = {}
      /\ session = "new"
  BY <1>1 DEF ConnectInv
<1>3. \A i \in DOMAIN padding' : Plain(padding'[i])
  BY PlainStep DEF Next, MainLoop, ConnectInv
<1>4. Connecting(padding') \subseteq {Len(padding) + 1}
  <2>1. DOMAIN padding' = 1..Len(padding) + 1 /\ DOMAIN padding = 1..Len(padding)
        /\ Len(padding) \in Nat
        /\ \A i \in 1..Len(padding) : padding'[i] = padding[i]
    BY <1>1 DEF TypeOK
  <2>2. \A i \in 1..Len(padding) + 1 : i \in 1..Len(padding) \/ i = Len(padding) + 1
    BY <2>1
  <2> QED
    BY <1>2, <2>1, <2>2 DEF Connecting
<1> QED
  BY <1>1, <1>2, <1>3, <1>4 DEF ConnectInv, AtMostOne

LEMMA OutgoingConnect ==
  ASSUME TypeOK, ConnectInv, Outgoing
  PROVE  ConnectInv'
<1>1. pc = "outgoing" /\ pc' = "send" /\ out' = Batch(padding) /\ c2s' = c2s
      /\ session' = session
  BY DEF Outgoing, broker
<1>2. \A j \in DOMAIN padding' : Acknowledged(padding'[j].b)
  BY OutgoingPlain DEF ConnectInv
<1>3. Connecting(padding') = {} /\ \A j \in DOMAIN padding' : Plain(padding'[j])
  BY <1>2 DEF Connecting, Acknowledged, Plain
<1>4. AtMostOne(Greetings(out')) /\ (Greetings(out') # {} => Connecting(padding) # {})
  BY <1>1, BatchGreetings DEF TypeOK, ConnectInv
<1> QED
  BY <1>1, <1>3, <1>4 DEF ConnectInv, AtMostOne

LEMMA SendConnect ==
  ASSUME TypeOK, ConnectInv, Send
  PROVE  ConnectInv'
<1>1. pc = "send" /\ pc' \in {"recv", "close"} /\ out' = <<>> /\ session' = session
      /\ padding' = padding /\ (c2s' = c2s \/ c2s' = c2s \o out)
  BY DEF Send, broker, client
<1>2. Connecting(padding) = {}
  BY <1>1 DEF ConnectInv
<1>3. Greetings(out') = {}
  BY <1>1 DEF Greetings
<1>4. /\ AtMostOne(Greetings(c2s \o out))
      /\ Greetings(c2s \o out) # {} => session = "new"
  BY GreetingsConcat DEF TypeOK, ConnectInv
<1> QED
  BY <1>1, <1>2, <1>3, <1>4 DEF ConnectInv, AtMostOne

LEMMA ConnectStep ==
  ASSUME TypeOK, ConnectInv, [Next]_vars
  PROVE  ConnectInv'
<1> DEFINE Line == /\ AtMostOne(Greetings(c2s'))
                   /\ Greetings(c2s') # {} => Greetings(c2s) # {}
<1>1. CASE Hello \/ Outgoing \/ Send
  BY <1>1, HelloConnect, OutgoingConnect, SendConnect
<1>2. CASE ~Hello /\ ~Outgoing /\ ~Send
  <2>1. /\ AtMostOne(Connecting(padding')) /\ (Connecting(padding') # {} => Connecting(padding) # {})
    <3>1. CASE Elapsed
      <4>1. \A t \in Durations : t \in 0..MaxDelta
        BY TimeAssumption DEF Durations
      <4>2. Connecting(padding)' \subseteq Connecting(padding)
        BY <3>1, <4>1, ElapsedPlain DEF Elapsed, ConnectInv
      <4> QED
        BY <4>2 DEF ConnectInv, AtMostOne
    <3>2. CASE ~Elapsed
      BY <1>2, <3>2, ConnectingStep DEF Fewer, ConnectInv
    <3> QED
      BY <3>1, <3>2
  <2>2. \A i \in DOMAIN padding' : Plain(padding'[i])
    BY PlainStep DEF ConnectInv
  <2>3. AtMostOne(Greetings(out')) /\ (Greetings(out') # {} => out' = out)
    <3>1. Greetings(<<>>) = {}
      BY DEF Greetings
    <3> QED
      BY <1>2, <3>1, LineSteps DEF ConnectInv, AtMostOne
  <2>4. Line
    <3>1. Greetings(<<>>) = {}
      BY DEF Greetings
    <3>2. c2s \in Seq(Packet) /\ AtMostOne(Greetings(c2s))
      BY DEF TypeOK, ConnectInv
    <3>3. c2s # <<>> /\ c2s' = Tail(c2s) => Line
      BY <3>2, GreetingsTail
    <3> QED
      BY <1>2, <3>1, <3>2, <3>3, LineSteps DEF AtMostOne
  <2>5. CASE TcpConnect
    <3>1. pc = "connect" /\ c2s' = <<>> /\ session' = "new" /\ padding' = padding /\ out' = out
      BY <2>5 DEF TcpConnect, client
    <3>2. Connecting(padding) = {} /\ Greetings(out) = {} /\ Greetings(c2s') = {}
      BY <3>1 DEF ConnectInv, Greetings
    <3> QED
      BY <2>1, <2>2, <2>3, <2>4, <3>1, <3>2 DEF ConnectInv
  <2>6. CASE BrokerAccept
    <3>1. /\ session = "new" /\ c2s # <<>> /\ Head(c2s).type = "CONNECT" /\ c2s' = Tail(c2s)
          /\ padding' = padding /\ out' = out /\ pc' = pc
      BY <2>6 DEF BrokerAccept, BrokerGets, Replies, client, loop
    <3>2. Greetings(c2s) # {}
      <4>1. 1 \in DOMAIN c2s /\ Head(c2s) = c2s[1]
        BY <3>1 DEF TypeOK
      <4> QED
        BY <3>1, <4>1 DEF Greetings
    <3>3. Greetings(c2s') = {}
      BY <3>1, GreetingsTail DEF TypeOK, ConnectInv
    <3> QED
      BY <2>1, <2>2, <2>3, <2>4, <3>1, <3>2, <3>3 DEF ConnectInv
  <2>7. CASE ~TcpConnect /\ ~BrokerAccept
    <3>1. session' = session /\ (pc = "outgoing" => pc' = pc) /\ (pc = "send" => pc' = pc)
          /\ (pc' = "hello" => pc = "hello")
      BY <1>2, <2>7, LineSteps
    <3> QED
      BY <2>1, <2>2, <2>3, <2>4, <3>1 DEF ConnectInv
  <2> QED
    BY <2>5, <2>6, <2>7
<1> QED
  BY <1>1, <1>2

(* For any number of messages, connections and retries, and any timing: a  *)
(* session the broker has opened never sees a second CONNECT, which would  *)
(* make the broker end it.                                                 *)
THEOREM OneConnectASession == Spec => []OneConnect
<1>1. Init => ConnectInv
  BY DEF Init, ConnectInv, Connecting, Greetings, AtMostOne
<1>2. TypeOK /\ ConnectInv /\ [Next]_vars => ConnectInv'
  BY ConnectStep
<1>3. ConnectInv => OneConnect
  BY DEF ConnectInv, OneConnect, Connecting, Greetings
<1> QED
  BY <1>1, <1>2, <1>3, TypeCorrect, PTL DEF Spec
-----------------------------------------------------------------------------
(* mqtt_cli_outgoing frees a node that it sends with ttl 0.  No node that  *)
(* waits for an acknowledgement is among them: the batch before a turn     *)
(* took all the others, so a node that is still to be sent when            *)
(* _check_padding runs is new and has all its tries.                       *)

Waiting(n) == Acknowledged(n.b) /\ ~n.wait_ack
Awake(n)   == Waiting(n) => n.ttl > 0
Fresh(n)   == Waiting(n) => n.ttl = PacketTTL

AwakeInv ==
  /\ \A i \in DOMAIN padding : Awake(padding[i])
  /\ InTurn => \A i \in DOMAIN padding : Fresh(padding[i])

LEMMA NewNodeAwake ==
  ASSUME NEW b \in Packet
  PROVE  Awake(NewNode(b)) /\ Fresh(NewNode(b))
<1>1. NewNode(b).b = b /\ NewNode(b).ttl = IF Acknowledged(b) THEN PacketTTL ELSE 0
  BY DEF NewNode
<1> QED
  BY <1>1, SizeAssumption DEF Awake, Fresh, Waiting

LEMMA OutgoingAwake ==
  ASSUME TypeOK, Outgoing
  PROVE  \A j \in DOMAIN padding' : padding'[j].wait_ack
<1> DEFINE s == MarkSent(padding)
           K == {i \in DOMAIN padding : padding[i].wait_ack \/ padding[i].ttl > 0}
<1>1. padding' = KeepAt(s, K)
  BY DEF Outgoing, Remaining
<1>2. s \in Seq(Node) /\ K \in SUBSET (DOMAIN s)
  BY MarkSentType DEF TypeOK
<1>3. ASSUME NEW i \in K PROVE s[i].wait_ack
  <2>1. i \in DOMAIN padding /\ padding[i] \in Node
    BY ElementOfSeq DEF TypeOK
  <2> QED
    BY <2>1 DEF MarkSent, Node
<1> HIDE DEF s, K
<1> QED
  BY <1>1, <1>2, <1>3, KeepAtElement

LEMMA RetriedAwake ==
  ASSUME PacketTTL >= 2, NEW n \in Node, n.ttl > 0, Fresh(n)
  PROVE  Awake(Retry(n))
<1>1. n.ttl \in Nat /\ PacketTTL \in Nat
  BY SizeAssumption DEF Node
<1>2. Acknowledged(Retry(n).b) <=> Acknowledged(n.b)
  BY RetriedNode DEF Acknowledged
<1>3. CASE n.ttl = 1
  BY <1>1, <1>2, <1>3, RetriedNode DEF Awake, Fresh, Waiting
<1>4. CASE n.ttl # 1
  <2>1. Retry(n).ttl > 0
    BY <1>1, <1>4, RetriedNode
  <2> QED
    BY <2>1 DEF Awake
<1> QED
  BY <1>3, <1>4

LEMMA ElapsedAwake ==
  ASSUME PacketTTL >= 2, TypeOK, AwakeInv, NEW t \in 0..MaxDelta, ElapsedCheck(t)
  PROVE  \A i \in DOMAIN padding' : Awake(padding'[i])
<1> DEFINE aged == AgeAll(padding, t)
           ping == Pkt("PINGREQ", 0)
           s == IF PingDue(t) THEN AppendPadding(aged, ping) ELSE aged
<1>1. padding' = CheckPadding(s)
  BY DEF ElapsedCheck
<1>2. aged \in Seq(Node) /\ ping \in Packet
  BY AgeAllType, PktType DEF TypeOK, PacketTypes
<1>3. ASSUME NEW i \in DOMAIN s
      PROVE  s[i] \in Node /\ Awake(s[i]) /\ Fresh(s[i])
  <2>1. CASE s[i] = NewNode(ping)
    BY <1>2, <2>1, NewNodeAwake, NewNodeType
  <2>2. CASE i \in DOMAIN aged /\ s[i] = aged[i]
    <3>1. s[i] \in Node /\ i \in DOMAIN padding /\ s[i].b = padding[i].b
          /\ s[i].ttl = padding[i].ttl /\ s[i].wait_ack = padding[i].wait_ack
      BY <2>2, AgedNode
    <3>2. Awake(padding[i]) /\ Fresh(padding[i])
      BY <3>1 DEF AwakeInv, ElapsedCheck, InTurn
    <3> QED
      BY <3>1, <3>2 DEF Awake, Fresh, Waiting
  <2> HIDE DEF aged, ping
  <2> QED
    BY <1>2, <2>1, <2>2, AppendPaddingElement
<1> HIDE DEF s
<1>4. ASSUME NEW i \in DOMAIN s
      PROVE  Awake(CheckPadding(s)[i])
  <2>1. TimedOut(s[i]) => Awake(Retry(s[i]))
    BY <1>3, RetriedAwake DEF TimedOut
  <2> QED
    BY <1>3, <2>1 DEF CheckPadding
<1>5. DOMAIN CheckPadding(s) = DOMAIN s
  BY DEF CheckPadding
<1> QED
  BY <1>1, <1>4, <1>5

LEMMA AwakeStep ==
  ASSUME PacketTTL >= 2, TypeOK, AwakeInv, [Next]_vars
  PROVE  AwakeInv'
<1> DEFINE All(s) == \A i \in DOMAIN s :
                       Awake(s[i]) /\ (InTurn => Fresh(s[i]))
<1>1. padding \in Seq(Node) /\ All(padding)
  BY DEF TypeOK, AwakeInv
<1>2. InTurn' => InTurn \/ Outgoing
  BY TurnStep
<1>3. ASSUME All(padding'), ~Outgoing
      PROVE  AwakeInv'
  BY <1>2, <1>3 DEF AwakeInv
<1>4. ASSUME NEW s \in Seq(Node), All(s), NEW b \in Packet
      PROVE  All(AppendPadding(s, b))
  BY <1>4, AppendPaddingElement, NewNodeAwake
<1>5. ASSUME NEW K \in SUBSET (DOMAIN padding)
      PROVE  KeepAt(padding, K) \in Seq(Node) /\ All(KeepAt(padding, K))
  BY <1>1, KeepAtElement, KeepAtProperties
<1> HIDE DEF All
<1>6. CASE Outgoing
  BY <1>6, OutgoingAwake DEF AwakeInv, Awake, Fresh, Waiting
<1>7. CASE ~Outgoing /\ UNCHANGED padding
  BY <1>1, <1>3, <1>7
<1>8. ASSUME ~Outgoing, NEW b \in Packet, padding' = AppendPadding(padding, b)
      PROVE  AwakeInv'
  BY <1>1, <1>3, <1>4, <1>8
<1>9. ASSUME ~Outgoing, NEW K \in SUBSET (DOMAIN padding), padding' = KeepAt(padding, K)
      PROVE  AwakeInv'
  BY <1>3, <1>5, <1>9
<1>10. ASSUME ~Outgoing, NEW K \in SUBSET (DOMAIN padding), NEW b \in Packet,
              padding' = AppendPadding(KeepAt(padding, K), b)
       PROVE  AwakeInv'
  BY <1>3, <1>4, <1>5, <1>10
<1>11. ASSUME NEW t \in 0..MaxDelta, ElapsedPingLost(t)
       PROVE  AwakeInv'
  <2>1. ~InTurn' /\ padding' = AgeAll(padding, t)
    BY <1>11 DEF ElapsedPingLost, InTurn
  <2>2. ASSUME NEW i \in DOMAIN AgeAll(padding, t)
        PROVE  Awake(AgeAll(padding, t)[i])
    <3>1. Awake(padding[i])
      BY AgedNode DEF AwakeInv
    <3> QED
      BY <3>1, AgedNode DEF Awake, Waiting
  <2> QED
    BY <2>1, <2>2 DEF AwakeInv
<1>12. ASSUME NEW t \in 0..MaxDelta, ElapsedCheck(t)
       PROVE  AwakeInv'
  <2>1. ~InTurn'
    BY <1>12 DEF ElapsedCheck, InTurn
  <2> QED
    BY <1>12, <2>1, ElapsedAwake DEF AwakeInv
<1> QED
  BY <1>6, <1>7, <1>8, <1>9, <1>10, <1>11, <1>12, QueueSteps
-----------------------------------------------------------------------------
(* The messages, the queue and the exchanges that are complete, together.  *)
(* A PUBLISH or a PUBREL stands for a message, whatever its QoS.           *)

Standing(n) == n.b.type \in {"PUBLISH", "PUBREL"}

(* What mqtt_cli_publish took is in the queue once until it is complete.   *)
Accounted(s, taken, done) ==
  /\ done \subseteq DOMAIN taken
  /\ \A i \in DOMAIN s : Standing(s[i]) =>
       /\ s[i].b.msg \in DOMAIN taken /\ s[i].b.msg \notin done
       /\ s[i].b.type = "PUBLISH" => s[i].b.qos = taken[s[i].b.msg]
  /\ \A i, j \in DOMAIN s :
       Standing(s[i]) /\ Standing(s[j]) /\ s[i].b.msg = s[j].b.msg => i = j
  /\ \A m \in DOMAIN taken : taken[m] > 0 /\ m \notin done =>
       \E i \in DOMAIN s : Standing(s[i]) /\ s[i].b.msg = m

(* A packet that stands for nothing makes no difference.                   *)
LEMMA AppendOther ==
  ASSUME NEW s \in Seq(Node), NEW taken, NEW done, Accounted(s, taken, done),
         NEW b \in Packet, b.type \notin {"PUBLISH", "PUBREL"}
  PROVE  Accounted(AppendPadding(s, b), taken, done)
<1>1. ~Standing(NewNode(b))
  BY DEF Standing, NewNode
<1>2. \A i \in DOMAIN AppendPadding(s, b) :
        Standing(AppendPadding(s, b)[i]) => i \in DOMAIN s /\ AppendPadding(s, b)[i] = s[i]
  BY <1>1, AppendPaddingElement
<1>3. \A i \in DOMAIN s : i \in DOMAIN AppendPadding(s, b) /\ AppendPadding(s, b)[i] = s[i]
  BY AppendPaddingKeeps
<1> QED
  BY <1>2, <1>3 DEF Accounted

(* A new message, or the PUBREL of one that is in the queue no more.       *)
LEMMA AppendStanding ==
  ASSUME NEW s \in Seq(Node), NEW b \in Packet, b.type \in {"PUBLISH", "PUBREL"},
         NEW i \in DOMAIN AppendPadding(s, b), NEW j \in DOMAIN AppendPadding(s, b),
         \A k \in DOMAIN s : Standing(s[k]) => s[k].b.msg # b.msg,
         \A k, l \in DOMAIN s :
           Standing(s[k]) /\ Standing(s[l]) /\ s[k].b.msg = s[l].b.msg => k = l,
         Standing(AppendPadding(s, b)[i]), Standing(AppendPadding(s, b)[j]),
         AppendPadding(s, b)[i].b.msg = AppendPadding(s, b)[j].b.msg
  PROVE  i = j
<1> DEFINE p == AppendPadding(s, b)
           n == Len(s) + 1
<1>1. /\ \A k \in DOMAIN p : k \in DOMAIN s \/ k = n
      /\ \A k \in DOMAIN s : p[k] = s[k]
      /\ p[n] = NewNode(b)
  BY DEF AppendPadding
<1>2. NewNode(b).b = b
  BY DEF NewNode
<1> HIDE DEF p, n
<1>3. CASE i \in DOMAIN s /\ j \in DOMAIN s
  BY <1>1, <1>3 DEF p
<1>4. CASE i \in DOMAIN s /\ j = n
  BY <1>1, <1>2, <1>4 DEF p
<1>5. CASE i = n /\ j \in DOMAIN s
  BY <1>1, <1>2, <1>5 DEF p
<1>6. CASE i = n /\ j = n
  BY <1>6
<1> QED
  BY <1>1, <1>3, <1>4, <1>5, <1>6 DEF p

(* Nodes leave: those of messages that are complete now, and those of      *)
(* messages nobody acknowledges.                                           *)
LEMMA KeepAccounted ==
  ASSUME NEW s \in Seq(Node), NEW taken, NEW done, NEW more, Accounted(s, taken, done),
         NEW K \in SUBSET (DOMAIN s), more \subseteq DOMAIN taken,
         \A i \in K : Standing(s[i]) => s[i].b.msg \notin more,
         \A i \in DOMAIN s : i \notin K /\ Standing(s[i])
           => s[i].b.msg \in more \/ ~(taken[s[i].b.msg] > 0)
  PROVE  Accounted(KeepAt(s, K), taken, done \cup more)
<1> DEFINE p == KeepAt(s, K)
<1>1. /\ \A j \in DOMAIN p : Nth(K, j) \in K /\ p[j] = s[Nth(K, j)]
      /\ \A i, j \in DOMAIN p : Nth(K, i) = Nth(K, j) => i = j
      /\ \A i \in K : \E j \in DOMAIN p : p[j] = s[i]
  BY KeepAtOnce
<1> HIDE DEF p
<1>2. done \cup more \subseteq DOMAIN taken
  BY DEF Accounted
<1>3. ASSUME NEW i \in DOMAIN p, Standing(p[i])
      PROVE  /\ p[i].b.msg \in DOMAIN taken /\ p[i].b.msg \notin done \cup more
             /\ p[i].b.type = "PUBLISH" => p[i].b.qos = taken[p[i].b.msg]
  BY <1>1, <1>3 DEF Accounted
<1>4. ASSUME NEW i \in DOMAIN p, NEW j \in DOMAIN p, Standing(p[i]), Standing(p[j]),
             p[i].b.msg = p[j].b.msg
      PROVE  i = j
  <2>1. Nth(K, i) = Nth(K, j)
    BY <1>1, <1>4 DEF Accounted
  <2> QED
    BY <1>1, <2>1
<1>5. ASSUME NEW m \in DOMAIN taken, taken[m] > 0, m \notin done \cup more
      PROVE  \E i \in DOMAIN p : Standing(p[i]) /\ p[i].b.msg = m
  <2>1. PICK i \in DOMAIN s : Standing(s[i]) /\ s[i].b.msg = m
    BY <1>5 DEF Accounted
  <2>2. i \in K
    BY <1>5, <2>1
  <2> QED
    BY <1>1, <2>1, <2>2
<1>6. Accounted(p, taken, done \cup more)
  BY <1>2, <1>3, <1>4, <1>5 DEF Accounted
<1> QED
  BY <1>6 DEF p

(* The node changes its counters only.                                     *)
LEMMA MapAccounted ==
  ASSUME NEW s \in Seq(Node), NEW p, NEW taken, NEW done, Accounted(s, taken, done),
         DOMAIN p = DOMAIN s,
         \A i \in DOMAIN s : /\ p[i].b.type = s[i].b.type /\ p[i].b.qos = s[i].b.qos
                             /\ p[i].b.msg = s[i].b.msg
  PROVE  Accounted(p, taken, done)
<1>1. \A i \in DOMAIN s : Standing(p[i]) <=> Standing(s[i])
  BY DEF Standing
<1> QED
  BY <1>1 DEF Accounted

(* mqtt_cli_publish.                                                       *)
LEMMA PublishAccounted ==
  ASSUME TypeOK, Accounted(padding, accepted, confirmed), NEW q \in QosUsed, Publish(q)
  PROVE  Accounted(padding', accepted', confirmed')
<1> DEFINE n == Len(accepted)
<1>1. n \in Nat /\ DOMAIN accepted = 1..n /\ padding \in Seq(Node)
  BY DEF TypeOK
<1>2. accepted' = Append(accepted, q) /\ confirmed' = confirmed
  BY DEF Publish
<1>3. /\ DOMAIN accepted' = 1..(n + 1) /\ accepted'[n + 1] = q
      /\ \A m \in 1..n : accepted'[m] = accepted[m]
  BY <1>1, <1>2 DEF TypeOK
<1>4. PICK b \in Packet : /\ padding' = AppendPadding(padding, b)
                          /\ b.type = "PUBLISH" /\ b.qos = q /\ b.msg = n + 1
  BY PublishPacket
<1> HIDE DEF n
<1>5. n + 1 \notin 1..n /\ 1..n \subseteq 1..(n + 1)
  BY <1>1
<1>6. \A k \in DOMAIN padding : Standing(padding[k]) =>
        /\ padding[k].b.msg \in 1..n /\ padding[k].b.msg \notin confirmed
        /\ padding[k].b.type = "PUBLISH" => padding[k].b.qos = accepted[padding[k].b.msg]
  BY <1>1 DEF Accounted
<1>7. confirmed \subseteq 1..n
  BY <1>1 DEF Accounted
<1>8. NewNode(b).b = b /\ Standing(NewNode(b))
  BY <1>4 DEF NewNode, Standing
<1>9. confirmed' \subseteq DOMAIN accepted'
  BY <1>2, <1>3, <1>5, <1>7
<1>10. ASSUME NEW i \in DOMAIN padding', Standing(padding'[i])
       PROVE  /\ padding'[i].b.msg \in DOMAIN accepted' /\ padding'[i].b.msg \notin confirmed'
              /\ padding'[i].b.type = "PUBLISH"
                   => padding'[i].b.qos = accepted'[padding'[i].b.msg]
  <2>1. CASE i \in DOMAIN padding /\ padding'[i] = padding[i]
    BY <1>2, <1>3, <1>5, <1>6, <1>10, <2>1
  <2>2. CASE padding'[i] = NewNode(b)
    <3>1. n + 1 \in 1..(n + 1) /\ n + 1 \notin confirmed
      BY <1>1, <1>5, <1>7
    <3> QED
      BY <1>2, <1>3, <1>4, <1>8, <2>2, <3>1
  <2> QED
    BY <1>1, <1>4, <2>1, <2>2, AppendPaddingElement
<1>11. ASSUME NEW i \in DOMAIN padding', NEW j \in DOMAIN padding',
              Standing(padding'[i]), Standing(padding'[j]),
              padding'[i].b.msg = padding'[j].b.msg
       PROVE  i = j
  <2>1. \A k \in DOMAIN padding : Standing(padding[k]) => padding[k].b.msg # b.msg
    BY <1>4, <1>5, <1>6
  <2>2. \A k, l \in DOMAIN padding :
          Standing(padding[k]) /\ Standing(padding[l])
            /\ padding[k].b.msg = padding[l].b.msg => k = l
    BY DEF Accounted
  <2> QED
    BY <1>1, <1>4, <1>11, <2>1, <2>2, AppendStanding
<1>12. ASSUME NEW m \in DOMAIN accepted', accepted'[m] > 0, m \notin confirmed'
       PROVE  \E i \in DOMAIN padding' : Standing(padding'[i]) /\ padding'[i].b.msg = m
  <2>1. CASE m \in 1..n
    <3>1. PICK i \in DOMAIN padding : Standing(padding[i]) /\ padding[i].b.msg = m
      BY <1>1, <1>2, <1>3, <1>12, <2>1 DEF Accounted
    <3> QED
      BY <1>1, <1>4, <3>1, AppendPaddingKeeps
  <2>2. CASE m = n + 1
    BY <1>1, <1>4, <1>8, <2>2, AppendPaddingKeeps
  <2>3. m \in 1..n \/ m = n + 1
    BY <1>1, <1>3
  <2> QED
    BY <2>1, <2>2, <2>3
<1> QED
  BY <1>9, <1>10, <1>11, <1>12 DEF Accounted

(* mqtt_cli_outgoing: who leaves is not acknowledged, by QoS or because    *)
(* somebody who is still has a try.                                        *)
LEMMA OutgoingAccounted ==
  ASSUME TypeOK, AwakeInv, Accounted(padding, accepted, confirmed), Outgoing
  PROVE  Accounted(padding', accepted', confirmed')
<1> DEFINE s == MarkSent(padding)
           K == {i \in DOMAIN padding : padding[i].wait_ack \/ padding[i].ttl > 0}
<1>1. padding' = KeepAt(s, K) /\ accepted' = accepted /\ confirmed' = confirmed
  BY DEF Outgoing, Remaining
<1>2. s \in Seq(Node) /\ DOMAIN s = DOMAIN padding /\ padding \in Seq(Node)
      /\ K \in SUBSET (DOMAIN s)
  BY MarkSentType DEF TypeOK
<1>3. ASSUME NEW i \in DOMAIN padding
      PROVE  padding[i] \in Node /\ s[i].b = padding[i].b
  <2>1. padding[i] \in Node
    BY <1>2, ElementOfSeq
  <2> QED
    BY <2>1 DEF MarkSent, Node
<1>4. ASSUME NEW i \in DOMAIN padding, i \notin K, Standing(padding[i])
      PROVE  ~(accepted[padding[i].b.msg] > 0)
  <2>1. ~padding[i].wait_ack /\ ~(padding[i].ttl > 0)
    BY <1>4
  <2>2. ~Acknowledged(padding[i].b)
    BY <2>1 DEF AwakeInv, Awake, Waiting
  <2>3. padding[i].b.type = "PUBLISH" /\ ~(padding[i].b.qos > 0)
    BY <1>4, <2>2 DEF Acknowledged, Standing
  <2> QED
    BY <1>4, <2>3 DEF Accounted
<1> HIDE DEF s, K
<1>5. Accounted(s, accepted, confirmed)
  BY <1>2, <1>3, MapAccounted
<1>6. \A i \in DOMAIN s : i \notin K /\ Standing(s[i])
        => s[i].b.msg \in {} \/ ~(accepted[s[i].b.msg] > 0)
  BY <1>2, <1>3, <1>4 DEF Standing
<1>7. Accounted(KeepAt(s, K), accepted, confirmed \cup {})
  BY <1>2, <1>5, <1>6, KeepAccounted
<1>8. confirmed \cup {} = confirmed
  OBVIOUS
<1> QED
  BY <1>1, <1>7, <1>8

(* _erase_padding after PUBACK or PUBCOMP.                                 *)
LEMMA OnAckAccounted ==
  ASSUME TypeOK, Accounted(padding, accepted, confirmed), OnAck
  PROVE  Accounted(padding', accepted', confirmed')
<1> DEFINE type == Answers[Head(inb).type]
           k == FirstOf(Matching(padding, type, Head(inb).id))
<1>1. Head(inb).type \in {"PUBACK", "PUBCOMP"} /\ ~Unmatched(Head(inb))
      /\ padding' = ErasePadding(padding, type, Head(inb).id)
      /\ confirmed' = confirmed \cup {padding[k].b.msg} /\ accepted' = accepted
  BY DEF OnAck, Handle, Acked
<1>2. type \in {"PUBLISH", "PUBREL"} /\ Head(inb).type \in DOMAIN Answers
  BY <1>1 DEF Answers
<1>3. Matching(padding, type, Head(inb).id) # {} /\ padding \in Seq(Node)
  BY <1>1, <1>2 DEF Unmatched, TypeOK
<1> HIDE DEF type
<1>4. k \in DOMAIN padding /\ padding[k].b.type = type
  BY <1>3, FirstMatch
<1>5. padding' = KeepAt(padding, DOMAIN padding \ {k})
  BY <1>1 DEF ErasePadding
<1> HIDE DEF k
<1>6. Standing(padding[k])
  BY <1>2, <1>4 DEF Standing
<1>7. {padding[k].b.msg} \subseteq DOMAIN accepted
  BY <1>4, <1>6 DEF Accounted
<1>8. \A i \in DOMAIN padding \ {k} : Standing(padding[i])
        => padding[i].b.msg \notin {padding[k].b.msg}
  BY <1>4, <1>6 DEF Accounted
<1>9. DOMAIN padding \ {k} \in SUBSET (DOMAIN padding)
  OBVIOUS
<1>10. Accounted(KeepAt(padding, DOMAIN padding \ {k}), accepted,
                 confirmed \cup {padding[k].b.msg})
  BY <1>3, <1>7, <1>8, <1>9, KeepAccounted
<1> QED
  BY <1>1, <1>5, <1>10

(* PUBREC: a PUBREL takes the place of the PUBLISH.                        *)
LEMMA OnPubrecAccounted ==
  ASSUME TypeOK, Accounted(padding, accepted, confirmed), OnPubrec
  PROVE  Accounted(padding', accepted', confirmed')
<1> DEFINE k == FirstOf(Matching(padding, "PUBLISH", Head(inb).id))
           s == KeepAt(padding, DOMAIN padding \ {k})
<1>1. Head(inb).type = "PUBREC" /\ ~Unmatched(Head(inb))
      /\ accepted' = accepted /\ confirmed' = confirmed
  BY DEF OnPubrec, Handle
<1>2. Answers[Head(inb).type] = "PUBLISH" /\ Head(inb).type \in DOMAIN Answers
  BY <1>1 DEF Answers
<1>3. Matching(padding, "PUBLISH", Head(inb).id) # {} /\ padding \in Seq(Node)
  BY <1>1, <1>2 DEF Unmatched, TypeOK
<1>4. Acked = padding[k].b
  BY <1>2 DEF Acked
<1>5. PICK b \in Packet : /\ padding' = AppendPadding(s, b)
                          /\ b.type = "PUBREL" /\ b.msg = padding[k].b.msg
  BY <1>4, PubrelPacket DEF ErasePadding
<1>6. k \in DOMAIN padding /\ padding[k].b.type = "PUBLISH"
  BY <1>3, FirstMatch
<1> HIDE DEF k
<1>7. DOMAIN padding \ {k} \in SUBSET (DOMAIN padding)
  OBVIOUS
<1>8. /\ s \in Seq(Node)
      /\ \A j \in DOMAIN s : \E i \in DOMAIN padding \ {k} : s[j] = padding[i]
  BY <1>3, <1>7, KeepAtElement, KeepAtProperties
<1>9. /\ \A j \in DOMAIN s : Nth(DOMAIN padding \ {k}, j) \in DOMAIN padding \ {k}
                             /\ s[j] = padding[Nth(DOMAIN padding \ {k}, j)]
      /\ \A i, j \in DOMAIN s :
           Nth(DOMAIN padding \ {k}, i) = Nth(DOMAIN padding \ {k}, j) => i = j
      /\ \A i \in DOMAIN padding \ {k} : \E j \in DOMAIN s : s[j] = padding[i]
  <2> DEFINE K == DOMAIN padding \ {k}
  <2>1. K \in SUBSET (DOMAIN padding) /\ padding \in Seq(Node)
    BY <1>3, <1>7
  <2> HIDE DEF K
  <2>2. /\ \A j \in DOMAIN KeepAt(padding, K) :
             Nth(K, j) \in K /\ KeepAt(padding, K)[j] = padding[Nth(K, j)]
        /\ \A i, j \in DOMAIN KeepAt(padding, K) : Nth(K, i) = Nth(K, j) => i = j
        /\ \A i \in K : \E j \in DOMAIN KeepAt(padding, K) :
             KeepAt(padding, K)[j] = padding[i]
    BY <2>1, KeepAtOnce
  <2> QED
    BY <2>2 DEF K
<1> HIDE DEF s
<1>10. Standing(padding[k]) /\ Standing(NewNode(b)) /\ NewNode(b).b = b
  BY <1>5, <1>6 DEF Standing, NewNode
<1>11. \A j \in DOMAIN s : Standing(s[j]) => s[j].b.msg # b.msg
  BY <1>5, <1>6, <1>8, <1>10 DEF Accounted
<1>12. ASSUME NEW i \in DOMAIN s, NEW j \in DOMAIN s, Standing(s[i]), Standing(s[j]),
              s[i].b.msg = s[j].b.msg
       PROVE  i = j
  <2> DEFINE f(x) == Nth(DOMAIN padding \ {k}, x)
  <2>1. f(i) \in DOMAIN padding /\ f(j) \in DOMAIN padding
        /\ s[i] = padding[f(i)] /\ s[j] = padding[f(j)]
    BY <1>9
  <2>2. f(i) = f(j)
    BY <1>12, <2>1 DEF Accounted
  <2> QED
    BY <1>9, <2>2
<1>13. confirmed \subseteq DOMAIN accepted
  BY DEF Accounted
<1>14. ASSUME NEW i \in DOMAIN padding', Standing(padding'[i])
       PROVE  /\ padding'[i].b.msg \in DOMAIN accepted /\ padding'[i].b.msg \notin confirmed
              /\ padding'[i].b.type = "PUBLISH"
                   => padding'[i].b.qos = accepted[padding'[i].b.msg]
  <2>1. CASE i \in DOMAIN s /\ padding'[i] = s[i]
    BY <1>8, <1>14, <2>1 DEF Accounted
  <2>2. CASE padding'[i] = NewNode(b)
    BY <1>5, <1>6, <1>10, <2>2 DEF Accounted
  <2> QED
    BY <1>5, <1>8, <2>1, <2>2, AppendPaddingElement
<1>15. ASSUME NEW i \in DOMAIN padding', NEW j \in DOMAIN padding',
              Standing(padding'[i]), Standing(padding'[j]),
              padding'[i].b.msg = padding'[j].b.msg
       PROVE  i = j
  BY <1>5, <1>8, <1>11, <1>12, <1>15, AppendStanding
<1>16. ASSUME NEW m \in DOMAIN accepted, accepted[m] > 0, m \notin confirmed
       PROVE  \E i \in DOMAIN padding' : Standing(padding'[i]) /\ padding'[i].b.msg = m
  <2>1. PICK i \in DOMAIN padding : Standing(padding[i]) /\ padding[i].b.msg = m
    BY <1>16 DEF Accounted
  <2>2. CASE i = k
    BY <1>5, <1>8, <1>10, <2>1, <2>2, AppendPaddingKeeps
  <2>3. CASE i # k
    <3>1. PICK j \in DOMAIN s : s[j] = padding[i]
      BY <1>9, <2>3
    <3> QED
      BY <1>5, <1>8, <2>1, <3>1, AppendPaddingKeeps
  <2> QED
    BY <2>2, <2>3
<1> QED
  BY <1>1, <1>13, <1>14, <1>15, <1>16 DEF Accounted

(* mqtt_cli_elapsed.                                                       *)
LEMMA ElapsedAccounted ==
  ASSUME TypeOK, Accounted(padding, accepted, confirmed), NEW t \in 0..MaxDelta,
         ElapsedPingLost(t) \/ ElapsedCheck(t)
  PROVE  Accounted(padding', accepted', confirmed')
<1> DEFINE aged == AgeAll(padding, t)
           ping == Pkt("PINGREQ", 0)
           s == IF PingDue(t) THEN AppendPadding(aged, ping) ELSE aged
<1>1. accepted' = accepted /\ confirmed' = confirmed
  BY DEF ElapsedPingLost, ElapsedCheck, ghosts
<1>2. aged \in Seq(Node) /\ ping \in Packet /\ padding \in Seq(Node)
  BY AgeAllType, PktType DEF TypeOK, PacketTypes
<1>3. DOMAIN aged = DOMAIN padding /\ \A i \in DOMAIN aged : aged[i].b = padding[i].b
  <2>1. DOMAIN aged = DOMAIN padding
    BY DEF AgeAll
  <2> QED
    BY <2>1, AgedNode
<1>4. ping.type \notin {"PUBLISH", "PUBREL"}
  BY DEF Pkt
<1> HIDE DEF aged, ping
<1>5. Accounted(aged, accepted, confirmed)
  BY <1>2, <1>3, MapAccounted
<1>6. Accounted(s, accepted, confirmed) /\ s \in Seq(Node)
  BY <1>2, <1>4, <1>5, AppendOther, AppendPaddingType
<1>7. CASE ElapsedPingLost(t)
  BY <1>1, <1>5, <1>7 DEF ElapsedPingLost, aged
<1>8. CASE ElapsedCheck(t)
  <2>1. padding' = CheckPadding(s)
    BY <1>8 DEF ElapsedCheck, aged, ping
  <2> HIDE DEF s
  <2>2. DOMAIN CheckPadding(s) = DOMAIN s
    BY DEF CheckPadding
  <2>3. ASSUME NEW i \in DOMAIN s
        PROVE  LET n == CheckPadding(s)[i] IN
               n.b.type = s[i].b.type /\ n.b.qos = s[i].b.qos /\ n.b.msg = s[i].b.msg
    <3>1. s[i] \in Node
      BY <1>6, ElementOfSeq
    <3> QED
      BY <3>1, RetriedNode DEF CheckPadding, TimedOut
  <2> QED
    BY <1>1, <1>6, <2>1, <2>2, <2>3, MapAccounted
<1> QED
  BY <1>7, <1>8

(* What each step does to the queue and to the messages accounted for.     *)
Other(b) == b \in Packet /\ b.type \notin {"PUBLISH", "PUBREL"}

LEMMA QueueCases ==
  ASSUME TypeOK, [Next]_vars
  PROVE  \/ \E q \in QosUsed : Publish(q)
         \/ Outgoing \/ OnAck \/ OnPubrec
         \/ \E t \in 0..MaxDelta : ElapsedPingLost(t) \/ ElapsedCheck(t)
         \/ /\ \/ UNCHANGED padding
               \/ \E b : Other(b) /\ padding' = AppendPadding(padding, b)
            /\ UNCHANGED <<accepted, confirmed>>
<1> DEFINE Adds == \E b : Other(b) /\ padding' = AppendPadding(padding, b)
           Keeps == UNCHANGED <<accepted, confirmed>>
<1>1. \A type \in PacketTypes \ {"PUBLISH", "PUBREL"}, id \in Nat : Other(Pkt(type, id))
  BY PktType DEF Pkt, Other
<1>2. ASSUME Unsubscribe PROVE Adds /\ Keeps
  <2>1. NextId \in Nat
    BY NextIdType DEF TypeOK
  <2> QED
    BY <1>1, <1>2, <2>1 DEF Unsubscribe, PacketTypes
<1>3. ASSUME Hello PROVE Adds /\ Keeps
  BY <1>1, <1>3 DEF Hello, PacketTypes, ghosts
<1>4. ASSUME OnConnack PROVE (Adds \/ UNCHANGED padding) /\ Keeps
  <2>1. NextId \in Nat
    BY NextIdType DEF TypeOK
  <2> QED
    BY <1>1, <1>4, <2>1 DEF OnConnack, Handle, PacketTypes
<1>5. ASSUME OnPublish PROVE (Adds \/ UNCHANGED padding) /\ Keeps
  <2>1. Head(inb) \in Packet
    BY <1>5, HandleType DEF OnPublish
  <2>2. Head(inb).qos \in {0, 1, 2} /\ Head(inb).id \in Nat
    BY <2>1 DEF Packet
  <2>3. Head(inb).qos # 0 => Reply[Head(inb).qos] \in PacketTypes \ {"PUBLISH", "PUBREL"}
    BY <2>2 DEF Reply, PacketTypes
  <2> QED
    BY <1>1, <1>5, <2>2, <2>3 DEF OnPublish, Handle
<1>6. ASSUME OnPubrel PROVE Adds /\ Keeps
  <2>1. Head(inb).id \in Nat
    BY <1>6, HandleType DEF OnPubrel, Packet
  <2> QED
    BY <1>1, <1>6, <2>1 DEF OnPubrel, Handle, PacketTypes
<1>7. ASSUME OnUnsuback PROVE (Adds \/ UNCHANGED padding) /\ Keeps
  BY <1>1, <1>7 DEF OnUnsuback, Handle, PacketTypes
<1>8. ASSUME Elapsed PROVE \E t \in 0..MaxDelta : ElapsedPingLost(t) \/ ElapsedCheck(t)
  <2>1. \A t \in Durations : t \in 0..MaxDelta
    BY TimeAssumption DEF Durations
  <2> QED
    BY <1>8, <2>1 DEF Elapsed
<1>9. ASSUME \/ TcpConnect \/ Send \/ RecvData \/ RecvTimeout \/ RecvEnd
             \/ IncomingEnd \/ OnSuback \/ OnPingresp \/ Rejected \/ Close
      PROVE  UNCHANGED padding /\ Keeps
  BY <1>9 DEF TcpConnect, Send, RecvData, RecvTimeout, RecvEnd, IncomingEnd,
     OnSuback, OnPingresp, Rejected, Close, Handle, client, ghosts
<1>10. ASSUME BrokerRecv \/ Drop \/ (\E q \in InQos : BrokerSend(q)) \/ UNCHANGED vars
       PROVE  UNCHANGED padding /\ Keeps
  BY <1>10 DEF BrokerRecv, BrokerAccept, BrokerRefuse, BrokerClose, BrokerPublished,
     BrokerReleased, BrokerPinged, BrokerSubscribed, BrokerUnsubscribed, BrokerAcked,
     BrokerSend, Drop, client, ghosts, vars
<1> HIDE DEF Adds, Keeps
<1>11. CASE MainLoop
  BY <1>3, <1>4, <1>5, <1>6, <1>7, <1>8, <1>9, <1>11
  DEF MainLoop, HandlePacket, Adds, Keeps
<1>12. CASE Environment
  BY <1>2, <1>10, <1>12 DEF Environment, Adds, Keeps
<1> QED
  BY <1>10, <1>11, <1>12 DEF Next, Adds, Keeps

LEMMA AccountedStep ==
  ASSUME TypeOK, AwakeInv, Accounted(padding, accepted, confirmed), [Next]_vars
  PROVE  Accounted(padding', accepted', confirmed')
<1>1. ASSUME \/ UNCHANGED padding
             \/ \E b : Other(b) /\ padding' = AppendPadding(padding, b),
             UNCHANGED <<accepted, confirmed>>
      PROVE  Accounted(padding', accepted', confirmed')
  BY <1>1, AppendOther DEF TypeOK, Other
<1> QED
  BY <1>1, QueueCases, PublishAccounted, OutgoingAccounted, OnAckAccounted,
     OnPubrecAccounted, ElapsedAccounted

(* What is accounted for is in the queue as NothingLost counts it.         *)
LEMMA AccountedCarries ==
  ASSUME TypeOK, Accounted(padding, accepted, confirmed)
  PROVE  NothingLost
<1> SUFFICES ASSUME NEW m \in DOMAIN accepted, accepted[m] > 0
             PROVE  Cardinality(Carries(m)) = IF m \in confirmed THEN 0 ELSE 1
  BY DEF NothingLost
<1>1. \A i \in DOMAIN padding : Acknowledged(padding[i].b) => Standing(padding[i])
  BY DEF Acknowledged, Standing
<1>2. ASSUME NEW i \in DOMAIN padding, Standing(padding[i]), padding[i].b.msg = m
      PROVE  Acknowledged(padding[i].b)
  BY <1>2 DEF Accounted, Standing, Acknowledged
<1>3. CASE m \in confirmed
  <2>1. Carries(m) = {}
    BY <1>1, <1>3 DEF Carries, Accounted
  <2> QED
    BY <1>3, <2>1, FS_EmptySet
<1>4. CASE m \notin confirmed
  <2>1. PICK i \in DOMAIN padding : Standing(padding[i]) /\ padding[i].b.msg = m
    BY <1>4 DEF Accounted
  <2>2. Carries(m) = {i}
    BY <1>1, <1>2, <2>1 DEF Carries, Accounted
  <2> QED
    BY <1>4, <2>2, FS_Singleton
<1> QED
  BY <1>3, <1>4

(* No message of QoS 1 or 2 is forgotten or doubled by the engine if a     *)
(* packet has at least two tries: whatever the answers, the identifiers,   *)
(* the length of the turns and the number of connections, one node of      *)
(* m->padding stands for it until its exchange completes, none afterwards. *)
THEOREM NothingIsLost ==
  ASSUME PacketTTL >= 2
  PROVE  Spec => []NothingLost
<1> DEFINE Inv == AwakeInv /\ Accounted(padding, accepted, confirmed)
<1>1. Init => Inv
  BY DEF Init, AwakeInv, Accounted
<1>2. TypeOK /\ Inv /\ [Next]_vars => Inv'
  BY AwakeStep, AccountedStep
<1>3. TypeOK /\ Inv => NothingLost
  BY AccountedCarries
<1> QED
  BY <1>1, <1>2, <1>3, TypeCorrect, PTL DEF Spec

-----------------------------------------------------------------------------
(* Identifiers.  AckedWasReceived alone is not inductive: that an answer   *)
(* is about the message of the node it matches depends on the packets on   *)
(* their way in both directions.                                           *)

(* The client's packets, wherever they are.                                *)
Queued   == {padding[i].b : i \in DOMAIN padding}
Underway == Queued \cup Elems(out) \cup Elems(c2s)

(* Identifiers of which the broker has said, or will say, that it has the  *)
(* message.                                                                *)
Told == held \cup {p.id : p \in {p \in Elems(s2c) \cup Elems(inb) : p.type \in DOMAIN Answers}}

(* A retry is the same packet but for its DUP flag.                        *)
Same(a, b) == a.type = b.type /\ a.id = b.id /\ a.msg = b.msg /\ a.qos = b.qos

(* Every exchange has an identifier of its own; a PUBREL is sent, and an   *)
(* answer given, only for a message that has arrived.                      *)
Honest ==
  /\ \A b \in Underway : Acknowledged(b) => b.id >= 1 /\ b.id <= packet_id
  /\ \A b \in Underway : b.type = "PUBLISH" /\ ~Acknowledged(b) => b.id = 0
  /\ \A a, b \in Underway :
       Acknowledged(a) /\ Acknowledged(b) /\ a.id = b.id => a.msg = b.msg
  /\ \A b \in Underway : b.type = "PUBLISH" => b.msg \in DOMAIN accepted
  /\ \A b \in Underway : b.type = "PUBREL" => b.msg \in got
  /\ \A b \in Underway : Acknowledged(b) => b.msg \in Taken
  /\ \A x \in Told : x >= 1 /\ x <= packet_id
  /\ \A x \in Told, b \in Underway : Acknowledged(b) /\ b.id = x => b.msg \in got
  /\ got \subseteq DOMAIN accepted
  /\ confirmed \subseteq got

HonestInv == ~wrapped => Honest

LEMMA UnderwayType ==
  ASSUME TypeOK
  PROVE  /\ Underway \subseteq Packet /\ Queued \subseteq Underway
         /\ Elems(out) \subseteq Underway /\ Elems(c2s) \subseteq Underway
         /\ Told \subseteq Nat /\ packet_id \in Nat
<1>1. Queued \subseteq Packet
  <2>1. \A i \in DOMAIN padding : padding[i] \in Node
    BY ElementOfSeq DEF TypeOK
  <2> QED
    BY <2>1 DEF Queued, Node
<1>2. Elems(out) \subseteq Packet /\ Elems(c2s) \subseteq Packet
      /\ Elems(s2c) \subseteq Packet /\ Elems(inb) \subseteq Packet
  BY ElemsType DEF TypeOK
<1>3. \A p \in Packet : p.id \in Nat
  BY DEF Packet
<1>4. packet_id \in Nat /\ held \subseteq Nat
  BY SizeAssumption DEF TypeOK, Ids
<1>5. \A x \in Told : x \in Nat
  BY <1>2, <1>3, <1>4 DEF Told
<1> QED
  BY <1>1, <1>2, <1>4, <1>5 DEF Underway

(* A packet that begins no exchange: it takes no part in one, is on its    *)
(* way already, or is the PUBREL of a message that has arrived.            *)
Derived(b) ==
  \/ b.type \notin {"PUBLISH", "PUBREL"}
  \/ \E a \in Underway : Same(a, b)
  \/ /\ b.type = "PUBREL" /\ b.msg \in got
     /\ \E a \in Underway : Acknowledged(a) /\ a.id = b.id /\ a.msg = b.msg

LEMMA DerivedStep ==
  ASSUME TypeOK, Honest, packet_id' \in Nat, packet_id' >= packet_id,
         \A b \in Underway' : Derived(b),
         \A x \in Told' : \/ x \in Told
                          \/ /\ x \in Nat /\ x >= 1 /\ x <= packet_id
                             /\ \A b \in Underway : Acknowledged(b) /\ b.id = x => b.msg \in got',
         got \subseteq got', got' \subseteq DOMAIN accepted', confirmed' \subseteq got',
         UNCHANGED accepted
  PROVE  Honest'
<1>1. Underway \subseteq Packet /\ Told \subseteq Nat /\ packet_id \in Nat
  BY UnderwayType
<1>2. \A a, b : Same(a, b) => (Acknowledged(a) <=> Acknowledged(b))
  BY DEF Same, Acknowledged
<1>3. \A b \in Underway' : Acknowledged(b) => b.type \in {"PUBLISH", "PUBREL"}
  BY DEF Acknowledged
<1>4. \A b \in Packet : b.id \in Nat
  BY DEF Packet
<1>5. ASSUME NEW b \in Underway', Acknowledged(b)
      PROVE  \E a \in Underway : Acknowledged(a) /\ a.id = b.id /\ a.msg = b.msg
  BY <1>2, <1>3, <1>5 DEF Derived, Same
<1>6. ASSUME NEW b \in Underway', Acknowledged(b)
      PROVE  b.id >= 1 /\ b.id <= packet_id'
  <2>1. PICK a \in Underway : Acknowledged(a) /\ a.id = b.id
    BY <1>5, <1>6
  <2>2. a.id \in Nat /\ a.id >= 1 /\ a.id <= packet_id
    BY <1>1, <1>4, <2>1 DEF Honest
  <2> QED
    BY <1>1, <2>1, <2>2
<1>7. ASSUME NEW b \in Underway', b.type = "PUBLISH"
      PROVE  (~Acknowledged(b) => b.id = 0) /\ b.msg \in DOMAIN accepted
  <2>1. PICK a \in Underway : Same(a, b)
    BY <1>7 DEF Derived
  <2> QED
    BY <1>2, <1>7, <2>1 DEF Same, Honest
<1>8. ASSUME NEW b \in Underway', b.type = "PUBREL"
      PROVE  b.msg \in got
  BY <1>8 DEF Derived, Same, Honest
<1>9. ASSUME NEW a \in Underway', NEW b \in Underway',
             Acknowledged(a), Acknowledged(b), a.id = b.id
      PROVE  a.msg = b.msg
  <2>1. PICK c \in Underway : Acknowledged(c) /\ c.id = a.id /\ c.msg = a.msg
    BY <1>5, <1>9
  <2>2. PICK d \in Underway : Acknowledged(d) /\ d.id = b.id /\ d.msg = b.msg
    BY <1>5, <1>9
  <2>3. c.msg = d.msg
    BY <1>9, <2>1, <2>2 DEF Honest
  <2> QED
    BY <2>1, <2>2, <2>3
<1>10. ASSUME NEW x \in Told'
       PROVE  x >= 1 /\ x <= packet_id'
  <2>1. x \in Nat /\ x >= 1 /\ x <= packet_id
    BY <1>1 DEF Honest
  <2> QED
    BY <1>1, <2>1
<1>11. ASSUME NEW x \in Told', NEW b \in Underway', Acknowledged(b), b.id = x
       PROVE  b.msg \in got'
  <2>1. PICK a \in Underway : Acknowledged(a) /\ a.id = x /\ a.msg = b.msg
    BY <1>5, <1>11
  <2> QED
    BY <2>1 DEF Honest
<1>12. ASSUME NEW b \in Underway', Acknowledged(b)
       PROVE  b.msg \in Taken'
  <2>1. PICK a \in Underway : Acknowledged(a) /\ a.msg = b.msg
    BY <1>5, <1>12
  <2>2. Taken' = Taken
    BY DEF Taken
  <2> QED
    BY <2>1, <2>2 DEF Honest
<1> QED
  BY <1>6, <1>7, <1>8, <1>9, <1>10, <1>11, <1>12 DEF Honest

(* Only the queue gets new packets.                                        *)
LEMMA UnderwayMoves ==
  ASSUME TypeOK, [Next]_vars
  PROVE  Elems(out') \cup Elems(c2s') \subseteq Underway
<1>1. /\ padding \in Seq(Node) /\ out \in Seq(Packet) /\ c2s \in Seq(Packet)
      /\ Elems(out) \subseteq Underway /\ Elems(c2s) \subseteq Underway
      /\ Queued \subseteq Underway
  BY DEF TypeOK, Underway
<1>2. c2s # <<>> => Elems(Tail(c2s)) \subseteq Underway
  BY <1>1, ElemsTail
<1>3. Elems(<<>>) = {}
  BY DEF Elems
<1>4. CASE UNCHANGED <<out, c2s>>
  BY <1>1, <1>4
<1>5. CASE UNCHANGED out /\ c2s' = <<>>
  BY <1>1, <1>3, <1>5
<1>6. CASE UNCHANGED out /\ c2s # <<>> /\ c2s' = Tail(c2s)
  BY <1>1, <1>2, <1>6
<1>7. CASE Send
  <2>1. Elems(c2s \o out) \subseteq Underway
    BY <1>1, ElemsConcat
  <2> QED
    BY <1>1, <1>3, <1>7, <2>1 DEF Send
<1>8. CASE Outgoing
  <2> DEFINE u == KeepAt(padding, Unsent(padding))
  <2>1. out' = [i \in DOMAIN u |-> u[i].b] /\ c2s' = c2s
    BY <1>8 DEF Outgoing, Batch
  <2>2. Unsent(padding) \in SUBSET (DOMAIN padding)
    BY DEF Unsent
  <2>3. \A i \in DOMAIN u : \E j \in DOMAIN padding : u[i] = padding[j]
    BY <1>1, <2>2, KeepAtElement
  <2> HIDE DEF u
  <2>4. Elems(out') \subseteq Queued
    BY <2>1, <2>3 DEF Elems, Queued
  <2> QED
    BY <1>1, <2>1, <2>4
<1>9. ASSUME \/ Hello \/ RecvData \/ RecvTimeout \/ RecvEnd \/ IncomingEnd
             \/ HandlePacket \/ Elapsed \/ Close \/ UNCHANGED vars
             \/ Unsubscribe \/ (\E q \in QosUsed : Publish(q)) \/ (\E q \in InQos : BrokerSend(q))
      PROVE  UNCHANGED <<out, c2s>>
  BY <1>9 DEF Hello, RecvData, RecvTimeout, RecvEnd, IncomingEnd, HandlePacket,
     OnConnack, OnPublish, OnAck, OnPubrec, OnPubrel, OnUnsuback, OnSuback, OnPingresp,
     Handle, Rejected, Elapsed, ElapsedPingLost, ElapsedCheck, Close, vars, loop,
     Unsubscribe, Publish, BrokerSend
<1>10. ASSUME TcpConnect \/ Drop \/ BrokerRefuse \/ BrokerClose
       PROVE  UNCHANGED out /\ c2s' = <<>>
  BY <1>10 DEF TcpConnect, Drop, BrokerRefuse, BrokerClose, loop
<1>11. ASSUME \/ BrokerAccept \/ BrokerPublished \/ BrokerReleased \/ BrokerPinged
              \/ BrokerSubscribed \/ BrokerUnsubscribed \/ BrokerAcked
       PROVE  UNCHANGED out /\ c2s # <<>> /\ c2s' = Tail(c2s)
  BY <1>11 DEF BrokerAccept, BrokerPublished, BrokerReleased, BrokerPinged,
     BrokerSubscribed, BrokerUnsubscribed, BrokerAcked, InSession, BrokerGets, Replies, loop
<1> QED
  BY <1>4, <1>5, <1>6, <1>7, <1>8, <1>9, <1>10, <1>11
  DEF Next, MainLoop, Environment, BrokerRecv

(* Only a PUBLISH or a PUBREL that the broker reads makes it say something *)
(* about a message.                                                        *)
LEMMA AnswersDomain ==
  DOMAIN Answers = {"PUBACK", "PUBREC", "PUBCOMP"}
BY DEF Answers

News(x) ==
  x = Head(c2s).id /\ ((BrokerPublished /\ Head(c2s).qos > 0) \/ BrokerReleased)

LEMMA RepliesMoves ==
  ASSUME TypeOK, NEW r \in Seq(Packet), s2c' = s2c \o r, inb' = inb, held' \subseteq held,
         \A p \in Elems(r) : p.type \notin DOMAIN Answers
  PROVE  Told' \subseteq Told
<1>1. Elems(s2c') \subseteq Elems(s2c) \cup Elems(r)
  BY ElemsConcat DEF TypeOK
<1> QED
  BY <1>1 DEF Told

LEMMA AnswerMoves ==
  ASSUME TypeOK, NEW type \in PacketTypes, NEW id \in Nat, inb' = inb,
         s2c' = s2c \o <<Pkt(type, id)>>, held' \subseteq held \cup {id}
  PROVE  Told' \subseteq Told \cup {id}
<1>1. Pkt(type, id) \in Packet /\ Pkt(type, id).id = id
  BY PktType DEF Pkt
<1>2. Elems(<<Pkt(type, id)>>) = {Pkt(type, id)} /\ <<Pkt(type, id)>> \in Seq(Packet)
  BY <1>1, ElemsSingle
<1>3. Elems(s2c') \subseteq Elems(s2c) \cup {Pkt(type, id)}
  BY <1>2, ElemsConcat DEF TypeOK
<1> QED
  BY <1>1, <1>3 DEF Told

LEMMA ToldMoves ==
  ASSUME TypeOK, [Next]_vars
  PROVE  \A x \in Told' : x \in Told \/ News(x)
<1>1. /\ s2c \in Seq(Packet) /\ inb \in Seq(Packet) /\ c2s \in Seq(Packet)
      /\ Elems(<<>>) = {} /\ <<>> \in Seq(Packet)
  BY DEF TypeOK, Elems
<1>2. ASSUME Elems(s2c') \subseteq Elems(s2c) \cup Elems(inb),
             Elems(inb') \subseteq Elems(s2c) \cup Elems(inb), held' \subseteq held
      PROVE  Told' \subseteq Told
  BY <1>2 DEF Told
<1>3. inb # <<>> => Elems(Tail(inb)) \subseteq Elems(inb)
  BY <1>1, ElemsTail
<1>4. CASE RecvData
  <2>1. held' = held
    BY <1>4 DEF RecvData, broker
  <2>2. PICK k \in 1..Len(s2c) : /\ inb' = SubSeq(s2c, 1, k)
                                 /\ s2c' = SubSeq(s2c, k + 1, Len(s2c))
    BY <1>4 DEF RecvData
  <2>3. Elems(inb') \subseteq Elems(s2c) /\ Elems(s2c') \subseteq Elems(s2c)
    BY <1>1, <2>2, ElemsSub
  <2> QED
    BY <1>2, <2>1, <2>3
<1>5. CASE HandlePacket
  <2>1. s2c' = s2c /\ held' = held /\ inb # <<>> /\ inb' \in {Tail(inb), <<>>}
    BY <1>5 DEF HandlePacket, OnConnack, OnPublish, OnAck, OnPubrec, OnPubrel, OnUnsuback,
       OnSuback, OnPingresp, Handle, Rejected, broker
  <2> QED
    BY <1>1, <1>2, <1>3, <2>1
<1>6. ASSUME \/ TcpConnect \/ Hello \/ Outgoing \/ Send \/ RecvTimeout \/ RecvEnd
             \/ IncomingEnd \/ Elapsed \/ Close \/ Drop \/ BrokerClose \/ UNCHANGED vars
             \/ Unsubscribe \/ \E q \in QosUsed : Publish(q)
      PROVE  s2c' \in {s2c, <<>>} /\ inb' \in {inb, <<>>} /\ held' = held
  BY <1>6 DEF TcpConnect, Hello, Outgoing, Send, RecvTimeout, RecvEnd, IncomingEnd,
     Elapsed, ElapsedPingLost, ElapsedCheck, Close, Drop, BrokerClose, vars, loop, broker,
     Unsubscribe, Publish
<1>7. CASE s2c' \in {s2c, <<>>} /\ inb' \in {inb, <<>>} /\ held' = held
  BY <1>1, <1>2, <1>7
<1>8. CASE BrokerRefuse \/ \E q \in InQos : BrokerSend(q)
  <2>1. PICK e \in Packet : e.type \notin DOMAIN Answers /\ s2c' = Append(s2c, e)
    <3>1. CASE BrokerRefuse
      <4>1. Pkt("REFUSED", 0) \in Packet /\ Pkt("REFUSED", 0).type = "REFUSED"
        BY PktType DEF PacketTypes, Pkt
      <4> QED
        BY <3>1, <4>1, AnswersDomain DEF BrokerRefuse
    <3>2. ASSUME NEW q \in InQos, BrokerSend(q)
          PROVE  \E e \in Packet : e.type \notin DOMAIN Answers /\ s2c' = Append(s2c, e)
      <4> DEFINE id == IF q = 0 THEN 0 ELSE ins + 1
                 e  == [Pkt("PUBLISH", id) EXCEPT !.qos = q]
      <4>1. id \in Nat /\ q \in 0..2
        BY SizeAssumption DEF TypeOK
      <4>2. s2c' = Append(s2c, e)
        BY <3>2 DEF BrokerSend
      <4> HIDE DEF id
      <4>3. Pkt("PUBLISH", id) \in Packet
        BY <4>1, PktType DEF PacketTypes
      <4>4. e \in Packet
        BY <4>1, <4>3 DEF Packet
      <4>5. e.type = "PUBLISH"
        BY DEF Pkt
      <4> QED
        BY <4>2, <4>4, <4>5, AnswersDomain
    <3> QED
      BY <1>8, <3>1, <3>2
  <2>2. inb' = inb /\ held' = held
    BY <1>8 DEF BrokerRefuse, BrokerSend, loop, broker
  <2>3. Elems(s2c') \subseteq Elems(s2c) \cup {e}
    BY <1>1, <2>1, ElemsOne
  <2> QED
    BY <2>1, <2>2, <2>3 DEF Told
<1>9. CASE BrokerAccept \/ BrokerPinged \/ BrokerSubscribed \/ BrokerUnsubscribed \/ BrokerAcked
  <2> DEFINE types == {"CONNACK", "PINGRESP", "SUBACK", "UNSUBACK", "PUBREL"}
  <2>1. Head(c2s).id \in Nat
    BY <1>9, HeadType DEF BrokerAccept, BrokerPinged, BrokerSubscribed,
       BrokerUnsubscribed, BrokerAcked, InSession, BrokerGets
  <2>2. held' \subseteq held /\ inb' = inb
    BY <1>9 DEF BrokerAccept, BrokerPinged, BrokerSubscribed,
       BrokerUnsubscribed, BrokerAcked, loop, broker
  <2>3. \/ s2c' = s2c \o <<>>
        \/ \E type \in types, id \in Nat : s2c' = s2c \o <<Pkt(type, id)>>
    <3>1. CASE BrokerAcked
      BY <2>1, <3>1 DEF BrokerAcked, Replies
    <3>2. CASE BrokerAccept
      <4>1. s2c' = s2c \o <<Pkt("CONNACK", 0)>> /\ 0 \in Nat
        BY <3>2 DEF BrokerAccept, Replies
      <4> QED
        BY <4>1
    <3>3. CASE BrokerPinged
      <4>1. s2c' = s2c \o <<Pkt("PINGRESP", 0)>> /\ 0 \in Nat
        BY <3>3 DEF BrokerPinged, Replies
      <4> QED
        BY <4>1
    <3>4. CASE BrokerSubscribed
      BY <2>1, <3>4 DEF BrokerSubscribed, Replies
    <3>5. CASE BrokerUnsubscribed
      BY <2>1, <3>5 DEF BrokerUnsubscribed, Replies
    <3> QED
      BY <1>9, <3>1, <3>2, <3>3, <3>4, <3>5
  <2>4. ASSUME NEW type \in types, NEW id \in Nat, s2c' = s2c \o <<Pkt(type, id)>>
        PROVE  Told' \subseteq Told
    <3>1. Pkt(type, id) \in Packet /\ Pkt(type, id).type = type
      BY PktType DEF PacketTypes, Pkt
    <3>2. <<Pkt(type, id)>> \in Seq(Packet) /\ Elems(<<Pkt(type, id)>>) = {Pkt(type, id)}
      BY <3>1, ElemsSingle
    <3>3. \A p \in Elems(<<Pkt(type, id)>>) : p.type \notin DOMAIN Answers
      BY <3>1, <3>2, AnswersDomain
    <3> QED
      BY <2>2, <2>4, <3>2, <3>3, RepliesMoves
  <2>5. CASE s2c' = s2c \o <<>>
    BY <1>1, <2>2, <2>5, RepliesMoves
  <2> HIDE DEF types
  <2> QED
    BY <2>3, <2>4, <2>5
<1>10. CASE BrokerPublished
  <2> DEFINE p == Head(c2s)
  <2>1. p \in Packet /\ p.id \in Nat /\ p.qos \in {0, 1, 2} /\ inb' = inb
    BY <1>10, HeadType DEF BrokerPublished, InSession, BrokerGets, loop, Packet
  <2> DEFINE r == CASE p.qos = 0 -> <<>>
                    [] p.qos = 1 -> <<Pkt("PUBACK", p.id)>>
                    [] p.qos = 2 -> <<Pkt("PUBREC", p.id)>>
  <2>2. s2c' = s2c \o r /\ held' = IF p.qos = 2 THEN held \cup {p.id} ELSE held
    BY <1>10 DEF BrokerPublished, Replies
  <2>3. CASE p.qos = 0
    <3>1. r = <<>> /\ held' = held
      BY <2>2, <2>3
    <3> QED
      BY <1>1, <2>1, <2>2, <3>1, RepliesMoves
  <2>4. CASE p.qos # 0
    <3>1. r = <<Pkt("PUBACK", p.id)>> \/ r = <<Pkt("PUBREC", p.id)>>
      BY <2>1, <2>4
    <3>2. held' \subseteq held \cup {p.id}
      BY <2>2
    <3>3. "PUBACK" \in PacketTypes /\ "PUBREC" \in PacketTypes
      BY DEF PacketTypes
    <3> HIDE DEF r
    <3>4. Told' \subseteq Told \cup {p.id}
      BY <2>1, <2>2, <3>1, <3>2, <3>3, AnswerMoves
    <3>5. p.qos > 0
      BY <2>1, <2>4
    <3> QED
      BY <1>10, <3>4, <3>5 DEF News
  <2> QED
    BY <2>3, <2>4
<1>11. CASE BrokerReleased
  <2>1. Head(c2s).id \in Nat /\ inb' = inb
        /\ s2c' = s2c \o <<Pkt("PUBCOMP", Head(c2s).id)>> /\ held' \subseteq held
    BY <1>11, HeadType DEF BrokerReleased, InSession, BrokerGets, loop, Replies
  <2> QED
    BY <1>11, <2>1, AnswerMoves DEF PacketTypes, News
<1> QED
  BY <1>4, <1>5, <1>6, <1>7, <1>8, <1>9, <1>10, <1>11
  DEF Next, MainLoop, Environment, BrokerRecv

(* Retries, timeouts and the end of a batch begin no exchange.             *)
LEMMA QueuedMoves ==
  ASSUME TypeOK, [Next]_vars, ~OnPubrec, \A q \in QosUsed : ~Publish(q)
  PROVE  \A b \in Queued' : Derived(b)
<1>1. padding \in Seq(Node) /\ \A i \in DOMAIN padding : padding[i] \in Node
  BY ElementOfSeq DEF TypeOK
<1>2. ASSUME NEW i \in DOMAIN padding, NEW b,
             b.type = padding[i].b.type, b.id = padding[i].b.id,
             b.msg = padding[i].b.msg, b.qos = padding[i].b.qos
      PROVE  Derived(b)
  <2>1. padding[i].b \in Underway
    BY DEF Underway, Queued
  <2> QED
    BY <1>2, <2>1 DEF Derived, Same
<1>3. ASSUME \A i \in DOMAIN padding' : Derived(padding'[i].b)
      PROVE  \A b \in Queued' : Derived(b)
  BY <1>3 DEF Queued
<1>4. CASE Outgoing
  <2> DEFINE s == MarkSent(padding)
             K == {i \in DOMAIN padding : padding[i].wait_ack \/ padding[i].ttl > 0}
  <2>1. padding' = KeepAt(s, K)
    BY <1>4 DEF Outgoing, Remaining
  <2>2. s \in Seq(Node) /\ K \in SUBSET (DOMAIN s)
    BY <1>1, MarkSentType
  <2>3. ASSUME NEW i \in K PROVE Derived(s[i].b)
    <3>1. i \in DOMAIN padding /\ s[i].b = padding[i].b
      BY <1>1 DEF MarkSent, Node
    <3> QED
      BY <1>2, <3>1
  <2> HIDE DEF s, K
  <2>4. ASSUME NEW j \in DOMAIN KeepAt(s, K) PROVE Derived(KeepAt(s, K)[j].b)
    BY <2>2, <2>3, KeepAtElement
  <2> QED
    BY <1>3, <2>1, <2>4
<1>5. CASE OnAck
  <2>1. PICK K \in SUBSET (DOMAIN padding) : padding' = KeepAt(padding, K)
    BY <1>5 DEF OnAck, ErasePadding
  <2>2. ASSUME NEW j \in DOMAIN KeepAt(padding, K) PROVE Derived(KeepAt(padding, K)[j].b)
    BY <1>1, <1>2, KeepAtElement
  <2> QED
    BY <1>3, <2>1, <2>2
<1>6. ASSUME NEW s \in Seq(Node), \A i \in DOMAIN s : Derived(s[i].b), NEW b, Other(b),
             NEW j \in DOMAIN AppendPadding(s, b)
      PROVE  Derived(AppendPadding(s, b)[j].b)
  <2>1. NewNode(b).b = b /\ Derived(b)
    BY <1>6 DEF NewNode, Other, Derived
  <2> QED
    BY <1>6, <2>1, AppendPaddingElement
<1>7. CASE UNCHANGED padding
  BY <1>2, <1>3, <1>7
<1>8. ASSUME NEW b, Other(b), padding' = AppendPadding(padding, b)
      PROVE  \A c \in Queued' : Derived(c)
  BY <1>1, <1>2, <1>3, <1>6, <1>8
<1>9. ASSUME NEW t \in 0..MaxDelta, ElapsedPingLost(t) \/ ElapsedCheck(t)
      PROVE  \A b \in Queued' : Derived(b)
  <2> DEFINE aged == AgeAll(padding, t)
             ping == Pkt("PINGREQ", 0)
             s == IF PingDue(t) THEN AppendPadding(aged, ping) ELSE aged
  <2>1. aged \in Seq(Node) /\ Other(ping)
    BY AgeAllType, PktType DEF TypeOK, PacketTypes, Other, Pkt
  <2>2. \A i \in DOMAIN aged : Derived(aged[i].b)
    BY <1>2, AgedNode
  <2>3. padding' = aged \/ padding' = CheckPadding(s)
    BY <1>9 DEF ElapsedPingLost, ElapsedCheck
  <2> HIDE DEF aged, ping
  <2>4. s \in Seq(Node) /\ \A i \in DOMAIN s : Derived(s[i].b)
    BY <1>6, <2>1, <2>2, AppendPaddingType DEF Other
  <2> HIDE DEF s
  <2>5. ASSUME NEW i \in DOMAIN s PROVE Derived(CheckPadding(s)[i].b)
    <3>1. s[i] \in Node /\ Derived(s[i].b)
      BY <2>4, ElementOfSeq
    <3>2. s[i].ttl > 0 => Retry(s[i]).b.id = s[i].b.id
      BY <3>1 DEF Retry, Node, Packet
    <3>3. s[i].ttl > 0 => Derived(Retry(s[i]).b)
      BY <3>1, <3>2, RetriedNode DEF Derived, Same
    <3> QED
      BY <3>1, <3>3 DEF CheckPadding, TimedOut
  <2>6. DOMAIN CheckPadding(s) = DOMAIN s
    BY DEF CheckPadding
  <2> QED
    BY <1>3, <2>2, <2>3, <2>5, <2>6
<1> QED
  BY <1>4, <1>5, <1>7, <1>8, <1>9, QueueCases

(* The counter grows until it wraps, and that is remembered.               *)
LEMMA CounterStep ==
  ASSUME TypeOK, [Next]_vars, ~wrapped'
  PROVE  ~wrapped /\ packet_id' \in Nat /\ packet_id' >= packet_id
<1>1. packet_id \in Nat /\ NextId \in Nat
  BY NextIdType, SizeAssumption DEF TypeOK, Ids
<1>2. CASE UNCHANGED <<packet_id, wrapped>>
  BY <1>1, <1>2
<1>3. ASSUME packet_id' = NextId, wrapped' = (wrapped \/ NextId <= packet_id)
      PROVE  ~wrapped /\ packet_id' \in Nat /\ packet_id' >= packet_id
  <2>1. ~wrapped /\ ~(NextId <= packet_id)
    BY <1>3, Zenon
  <2> QED
    BY <1>1, <1>3, <2>1
<1>4. ASSUME NEW q \in QosUsed, Publish(q)
      PROVE  ~wrapped /\ packet_id' \in Nat /\ packet_id' >= packet_id
  <2> DEFINE id == IF q > 0 THEN NextId ELSE 0
  <2>1. packet_id' = (IF q > 0 THEN id ELSE packet_id)
        /\ wrapped' = (wrapped \/ (q > 0 /\ id <= packet_id))
    BY <1>4 DEF Publish
  <2>2. ~wrapped /\ ~(q > 0 /\ id <= packet_id)
    BY <2>1, Zenon
  <2> QED
    BY <1>1, <2>1, <2>2
<1>5. CASE Unsubscribe
  BY <1>3, <1>5 DEF Unsubscribe
<1>6. CASE MainLoop
  BY <1>2, <1>3, <1>6 DEF MainLoop, TcpConnect, Hello, Outgoing, Send, RecvData, RecvTimeout,
     RecvEnd, IncomingEnd, HandlePacket, OnConnack, OnPublish, OnAck, OnPubrec, OnPubrel,
     OnUnsuback, OnSuback, OnPingresp, Handle, Rejected, Elapsed, ElapsedPingLost,
     ElapsedCheck, Close, client, ghosts
<1>7. CASE BrokerRecv \/ Drop \/ (\E q \in InQos : BrokerSend(q)) \/ UNCHANGED vars
  BY <1>2, <1>7 DEF BrokerRecv, BrokerAccept, BrokerRefuse, BrokerClose, BrokerPublished,
     BrokerReleased, BrokerPinged, BrokerSubscribed, BrokerUnsubscribed, BrokerAcked,
     BrokerSend, Drop, client, ghosts, vars
<1> QED
  BY <1>4, <1>5, <1>6, <1>7 DEF Next, Environment

(* An answer is about the message of the node it matches.                  *)
LEMMA AnswerIsRight ==
  ASSUME TypeOK, Honest, inb # <<>>, Head(inb).type \in DOMAIN Answers,
         ~Unmatched(Head(inb))
  PROVE  /\ Acked \in Underway /\ Acknowledged(Acked)
         /\ Acked.id = Head(inb).id /\ Acked.msg \in got
<1> DEFINE type == Answers[Head(inb).type]
           k == FirstOf(Matching(padding, type, Head(inb).id))
<1>1. Matching(padding, type, Head(inb).id) # {} /\ padding \in Seq(Node)
      /\ inb \in Seq(Packet)
  BY DEF Unmatched, TypeOK
<1>2. type \in {"PUBLISH", "PUBREL"}
  BY DEF Answers
<1> HIDE DEF type
<1>3. k \in DOMAIN padding /\ padding[k].b.type = type /\ padding[k].b.id = Head(inb).id
  BY <1>1, FirstMatch
<1>4. Acked = padding[k].b
  BY DEF Acked, type
<1> HIDE DEF k
<1>5. Acked \in Underway /\ Acked.type = type /\ Acked.id = Head(inb).id
  BY <1>3, <1>4 DEF Underway, Queued
<1>6. Head(inb).id \in Told
  <2>1. Head(inb) \in Elems(inb)
    BY <1>1, ElemsTail
  <2> QED
    BY <2>1 DEF Told
<1>7. Head(inb).id >= 1
  BY <1>6 DEF Honest
<1>8. Head(inb).id # 0
  BY <1>7
<1>9. Acknowledged(Acked)
  BY <1>2, <1>5, <1>8 DEF Honest, Acknowledged
<1> QED
  BY <1>5, <1>6, <1>9 DEF Honest

LEMMA PublishUnderway ==
  ASSUME TypeOK, NEW q \in QosUsed, Publish(q)
  PROVE  \E b \in Packet :
           /\ b.type = "PUBLISH" /\ b.qos = q /\ b.msg = Len(accepted) + 1
           /\ b.id = IF q > 0 THEN NextId ELSE 0
           /\ \A a \in Underway' : a \in Underway \/ a = b
<1>1. PICK new \in Packet :
        /\ padding' = AppendPadding(padding, new)
        /\ new.type = "PUBLISH" /\ new.qos = q /\ new.msg = Len(accepted) + 1
        /\ new.id = IF q > 0 THEN NextId ELSE 0
  BY PublishPacket
<1>2. padding \in Seq(Node) /\ UNCHANGED <<out, c2s>>
  BY DEF TypeOK, Publish, loop
<1>3. \A j \in DOMAIN padding' : padding'[j].b \in Queued \/ padding'[j].b = new
  <2>1. NewNode(new).b = new
    BY DEF NewNode
  <2>2. \A i \in DOMAIN padding : padding[i].b \in Queued
    BY DEF Queued
  <2> QED
    BY <1>1, <1>2, <2>1, <2>2, AppendPaddingElement
<1>4. \A b \in Queued' : b \in Queued \/ b = new
  BY <1>3 DEF Queued
<1>5. \A b \in Underway' : b \in Underway \/ b = new
  BY <1>2, <1>4 DEF Underway, Elems
<1> QED
  BY <1>1, <1>5

LEMMA HonestStep ==
  ASSUME TypeOK, HonestInv, [Next]_vars
  PROVE  HonestInv'
<1> SUFFICES ASSUME ~wrapped' PROVE Honest'
  BY DEF HonestInv
<1>1. ~wrapped /\ packet_id' \in Nat /\ packet_id' >= packet_id
  BY CounterStep
<1>2. Honest
  BY <1>1 DEF HonestInv
<1>3. Underway \subseteq Packet /\ Told \subseteq Nat /\ packet_id \in Nat
      /\ Queued \subseteq Underway
  BY UnderwayType
<1>4. \A b \in Elems(out') \cup Elems(c2s') : b \in Underway
  BY UnderwayMoves
<1>5. \A b \in Underway : Derived(b)
  BY DEF Derived, Same
<1>6. ASSUME ~OnPubrec, \A q \in QosUsed : ~Publish(q)
      PROVE  \A b \in Underway' : Derived(b)
  BY <1>4, <1>5, <1>6, QueuedMoves DEF Underway
<1>7. \A x \in Told' : x \in Told \/ News(x)
  BY ToldMoves
<1>8. got \subseteq DOMAIN accepted /\ confirmed \subseteq got
  BY <1>2 DEF Honest
<1>9. ASSUME NEW q \in QosUsed, Publish(q)
      PROVE  Honest'
  <2> DEFINE n == Len(accepted)
  <2>1. n \in Nat /\ DOMAIN accepted = 1..n /\ padding \in Seq(Node)
    BY DEF TypeOK
  <2>2. DOMAIN accepted' = 1..(n + 1) /\ UNCHANGED <<got, confirmed, s2c, inb, held, out, c2s>>
    BY <1>9, <2>1 DEF Publish, TypeOK, loop, broker
  <2>3. PICK new \in Packet :
          /\ new.type = "PUBLISH" /\ new.qos = q /\ new.msg = n + 1
          /\ new.id = IF q > 0 THEN NextId ELSE 0
          /\ \A b \in Underway' : b \in Underway \/ b = new
    BY <1>9, PublishUnderway
  <2> HIDE DEF n
  <2>4. q > 0 => NextId > packet_id
    <3> DEFINE id == IF q > 0 THEN NextId ELSE 0
    <3>1. wrapped' = (wrapped \/ (q > 0 /\ id <= packet_id))
      BY <1>9 DEF Publish
    <3>2. ~(q > 0 /\ id <= packet_id)
      BY <3>1, Zenon
    <3>3. NextId \in Nat
      BY NextIdType DEF TypeOK
    <3> QED
      BY <1>3, <3>2, <3>3
  <2>5. packet_id' = IF q > 0 THEN NextId ELSE packet_id
    BY <1>9 DEF Publish
  <2>6. \A b \in Underway' : b \in Underway \/ b = new
    BY <2>3
  <2>7. Told' = Told
    BY <2>2 DEF Told
  <2>8. Acknowledged(new) <=> q > 0
    BY <2>3 DEF Acknowledged
  <2>9. NextId \in Nat
    BY NextIdType DEF TypeOK
  <2>10. Acknowledged(new) => new.id > packet_id /\ new.id = packet_id' /\ new.id >= 1
    BY <1>3, <2>3, <2>4, <2>5, <2>8, <2>9
  <2>11. ~Acknowledged(new) => new.id = 0
    BY <2>3, <2>8
  <2>12. \A b \in Packet : b.id \in Nat
    BY DEF Packet
  <2>13. ASSUME NEW b \in Underway, Acknowledged(b)
         PROVE  b.id >= 1 /\ b.id <= packet_id' /\ (Acknowledged(new) => b.id # new.id)
    <3>1. b.id \in Nat /\ b.id >= 1 /\ b.id <= packet_id
      BY <1>2, <1>3, <2>12, <2>13 DEF Honest
    <3>2. Acknowledged(new) => new.id \in Nat
      BY <2>12
    <3> QED
      BY <1>1, <1>3, <2>10, <3>1, <3>2
  <2>14. ASSUME NEW x \in Told'
         PROVE  x >= 1 /\ x <= packet_id' /\ (Acknowledged(new) => new.id # x)
    <3>1. x \in Nat /\ x >= 1 /\ x <= packet_id
      BY <1>2, <1>3, <2>7 DEF Honest
    <3>2. Acknowledged(new) => new.id \in Nat
      BY <2>12
    <3> QED
      BY <1>1, <1>3, <2>10, <3>1, <3>2
  <2>15. new.msg \in DOMAIN accepted' /\ DOMAIN accepted \subseteq DOMAIN accepted'
    BY <2>1, <2>2, <2>3
  <2>16. \A b \in Underway' : Acknowledged(b) => b.id >= 1 /\ b.id <= packet_id'
    <3>1. Acknowledged(new) => new.id >= 1 /\ new.id <= packet_id'
      BY <1>1, <2>10
    <3> QED
      BY <2>6, <2>13, <3>1
  <2>17. \A a, b \in Underway' :
           Acknowledged(a) /\ Acknowledged(b) /\ a.id = b.id => a.msg = b.msg
    BY <1>2, <2>6, <2>13 DEF Honest
  <2>18. \A x \in Told', b \in Underway' : Acknowledged(b) /\ b.id = x => b.msg \in got'
    BY <1>2, <2>2, <2>6, <2>7, <2>14 DEF Honest
  <2>19. \A b \in Underway' : /\ b.type = "PUBLISH" /\ ~Acknowledged(b) => b.id = 0
                              /\ b.type = "PUBLISH" => b.msg \in DOMAIN accepted'
                              /\ b.type = "PUBREL" => b.msg \in got'
    BY <1>2, <2>2, <2>3, <2>6, <2>11, <2>15 DEF Honest
  <2>20. \A b \in Underway' : Acknowledged(b) => b.msg \in Taken'
    <3>1. accepted' = Append(accepted, q) /\ accepted \in Seq(QosUsed) /\ n = Len(accepted)
      BY <1>9 DEF Publish, TypeOK, n
    <3>2. accepted'[n + 1] = q /\ \A m \in DOMAIN accepted : accepted'[m] = accepted[m]
      BY <2>1, <3>1
    <3>3. Taken \subseteq Taken'
      BY <2>15, <3>2 DEF Taken
    <3>4. Acknowledged(new) => new.msg \in Taken'
      BY <2>3, <2>8, <2>15, <3>2 DEF Taken
    <3> QED
      BY <1>2, <2>6, <3>3, <3>4 DEF Honest
  <2> QED
    BY <1>8, <2>2, <2>14, <2>15, <2>16, <2>17, <2>18, <2>19, <2>20 DEF Honest
<1>10. ASSUME OnPubrec, ~BrokerPublished, ~BrokerReleased
       PROVE  Honest'
  <2>1. inb # <<>> /\ Head(inb).type = "PUBREC" /\ ~Unmatched(Head(inb))
        /\ UNCHANGED <<got, accepted, confirmed, c2s>>
    BY <1>10 DEF OnPubrec, Handle
  <2>2. Head(inb).type \in DOMAIN Answers
    BY <2>1 DEF Answers
  <2>3. /\ Acked \in Underway /\ Acknowledged(Acked)
        /\ Acked.id = Head(inb).id /\ Acked.msg \in got
    BY <1>2, <2>1, <2>2, AnswerIsRight
  <2>4. PICK new \in Packet :
          /\ padding' = AppendPadding(ErasePadding(padding, "PUBLISH", Head(inb).id), new)
          /\ new.type = "PUBREL" /\ new.id = Head(inb).id /\ new.msg = Acked.msg
    BY <1>10, PubrelPacket
  <2> DEFINE s == ErasePadding(padding, "PUBLISH", Head(inb).id)
  <2>5. NewNode(new).b = new /\ Derived(new)
    BY <2>3, <2>4 DEF Derived, NewNode
  <2>6. s \in Seq(Node) /\ \A j \in DOMAIN s : \E i \in DOMAIN padding : s[j] = padding[i]
    <3>1. padding \in Seq(Node)
      BY DEF TypeOK
    <3>2. PICK K \in SUBSET (DOMAIN padding) : s = KeepAt(padding, K)
      BY DEF ErasePadding
    <3> QED
      BY <3>1, <3>2, KeepAtElement, ErasePaddingType
  <2>7. \A i \in DOMAIN padding : Derived(padding[i].b)
    BY <1>5 DEF Underway, Queued
  <2> HIDE DEF s
  <2>8. \A j \in DOMAIN padding' : Derived(padding'[j].b)
    BY <2>4, <2>5, <2>6, <2>7, AppendPaddingElement DEF s
  <2>9. \A b \in Underway' : Derived(b)
    BY <1>4, <1>5, <2>8 DEF Underway, Queued
  <2> QED
    BY <1>1, <1>2, <1>7, <1>8, <1>10, <2>1, <2>9, DerivedStep DEF News
<1>11. ASSUME OnAck, ~OnPubrec, \A q \in QosUsed : ~Publish(q),
              ~BrokerPublished, ~BrokerReleased
       PROVE  Honest'
  <2>1. inb # <<>> /\ Head(inb).type \in {"PUBACK", "PUBCOMP"} /\ ~Unmatched(Head(inb))
        /\ UNCHANGED <<got, accepted>> /\ confirmed' = confirmed \cup {Acked.msg}
    BY <1>11 DEF OnAck, Handle
  <2>2. Head(inb).type \in DOMAIN Answers
    BY <2>1 DEF Answers
  <2>3. Acked.msg \in got
    BY <1>2, <2>1, <2>2, AnswerIsRight
  <2>4. \A b \in Underway' : Derived(b)
    BY <1>6, <1>11
  <2> QED
    BY <1>1, <1>2, <1>7, <1>8, <1>11, <2>1, <2>3, <2>4, DerivedStep DEF News
<1>12. ASSUME BrokerPublished \/ BrokerReleased
       PROVE  c2s # <<>> /\ Head(c2s) \in Underway /\ Head(c2s).id \in Nat
              /\ (\A b \in Underway' : Derived(b)) /\ UNCHANGED <<accepted, confirmed>>
  <2>1. c2s # <<>> /\ UNCHANGED <<padding, accepted, confirmed>>
    BY <1>12 DEF BrokerPublished, BrokerReleased, InSession, BrokerGets, client, ghosts
  <2>2. Head(c2s) \in Underway
    BY <2>1, ElemsTail DEF TypeOK, Underway
  <2>3. \A b \in Underway' : Derived(b)
    BY <1>4, <1>5, <2>1 DEF Underway, Queued
  <2> QED
    BY <2>1, <2>2, <2>3, HeadType
<1>13. CASE BrokerPublished
  <2> DEFINE p == Head(c2s)
  <2>1. p \in Underway /\ p.id \in Nat /\ p.type = "PUBLISH"
    BY <1>12, <1>13 DEF BrokerPublished, InSession, BrokerGets
  <2>2. got' = got \cup {p.msg} \/ (p.qos = 2 /\ p.id \in held /\ got' = got)
    BY <1>13 DEF BrokerPublished
  <2>3. p.msg \in DOMAIN accepted
    BY <1>2, <2>1 DEF Honest
  <2>4. ASSUME p.qos > 0
        PROVE  /\ p.id >= 1 /\ p.id <= packet_id /\ p.msg \in got'
               /\ \A b \in Underway : Acknowledged(b) /\ b.id = p.id => b.msg = p.msg
    <3>1. Acknowledged(p)
      BY <2>1, <2>4 DEF Acknowledged
    <3>2. p.id \in held => p.msg \in got
      BY <1>2, <2>1, <3>1 DEF Honest, Told
    <3> QED
      BY <1>2, <2>1, <2>2, <3>1, <3>2 DEF Honest
  <2>5. \A x \in Told' : \/ x \in Told
                         \/ /\ x \in Nat /\ x >= 1 /\ x <= packet_id
                            /\ \A b \in Underway : Acknowledged(b) /\ b.id = x => b.msg \in got'
    <3>1. \A x : News(x) => x = p.id /\ (p.qos > 0 \/ BrokerReleased)
      BY DEF News
    <3>2. BrokerReleased => p.type = "PUBREL"
      BY DEF BrokerReleased, InSession, BrokerGets
    <3> QED
      BY <1>7, <2>1, <2>4, <3>1, <3>2
  <2> QED
    BY <1>1, <1>2, <1>8, <1>12, <1>13, <2>2, <2>3, <2>5, DerivedStep
<1>14. CASE BrokerReleased
  <2> DEFINE p == Head(c2s)
  <2>1. p \in Underway /\ p.id \in Nat /\ p.type = "PUBREL" /\ got' = got
    BY <1>12, <1>14 DEF BrokerReleased, InSession, BrokerGets, ghosts
  <2>2. Acknowledged(p)
    BY <2>1 DEF Acknowledged
  <2>3. /\ p.id >= 1 /\ p.id <= packet_id
        /\ \A b \in Underway : Acknowledged(b) /\ b.id = p.id => b.msg \in got'
    BY <1>2, <2>1, <2>2 DEF Honest
  <2>4. \A x \in Told' : \/ x \in Told
                         \/ /\ x \in Nat /\ x >= 1 /\ x <= packet_id
                            /\ \A b \in Underway : Acknowledged(b) /\ b.id = x => b.msg \in got'
    BY <1>7, <2>1, <2>3 DEF News
  <2> QED
    BY <1>1, <1>2, <1>8, <1>12, <1>14, <2>1, <2>4, DerivedStep
<1>15. ASSUME ~OnPubrec, \A q \in QosUsed : ~Publish(q), ~OnAck,
              ~BrokerPublished, ~BrokerReleased
       PROVE  Honest'
  <2>1. UNCHANGED <<got, accepted, confirmed>>
    <3>1. CASE MainLoop
      BY <1>15, <3>1 DEF MainLoop, TcpConnect, Hello, Outgoing, Send, RecvData, RecvTimeout,
         RecvEnd, IncomingEnd, HandlePacket, OnConnack, OnPublish, OnPubrel,
         OnUnsuback, OnSuback, OnPingresp, Handle, Rejected, Elapsed, ElapsedPingLost,
         ElapsedCheck, Close, ghosts
    <3>2. CASE Environment \/ UNCHANGED vars
      BY <1>15, <3>2 DEF Environment, BrokerRecv, BrokerAccept, BrokerRefuse, BrokerClose,
         BrokerPinged, BrokerSubscribed, BrokerUnsubscribed, BrokerAcked,
         BrokerSend, Drop, Unsubscribe, ghosts, vars
    <3> QED
      BY <3>1, <3>2 DEF Next
  <2>2. \A b \in Underway' : Derived(b)
    BY <1>6, <1>15
  <2> QED
    BY <1>1, <1>2, <1>7, <1>8, <1>15, <2>1, <2>2, DerivedStep DEF News
<1> QED
  BY <1>9, <1>10, <1>11, <1>13, <1>14, <1>15

(* As long as the identifier counter has not wrapped, an exchange that the *)
(* client completes is that of a message the broker has received: no       *)
(* answer to another message, a retry or an earlier connection completes   *)
(* it, whatever is lost, doubled by retries or late.                       *)
THEOREM AckedIsReceived == Spec => []AckedWasReceived
<1>1. Init => HonestInv
  <2> SUFFICES ASSUME Init PROVE Honest
    BY DEF HonestInv
  <2>1. Underway = {} /\ Told = {}
    BY DEF Init, Underway, Told, Queued, Elems
  <2> QED
    BY <2>1 DEF Init, Honest
<1>2. TypeOK /\ HonestInv /\ [Next]_vars => HonestInv'
  BY HonestStep
<1>3. HonestInv => AckedWasReceived
  BY DEF HonestInv, Honest, AckedWasReceived
<1> QED
  BY <1>1, <1>2, <1>3, TypeCorrect, PTL DEF Spec
-----------------------------------------------------------------------------
(* Refinement of Delivery, for the programs that draw identifiers for      *)
(* their own calls only and make fewer of them than there are identifiers. *)

Few == ~Subscriber /\ MaxMsgs + MaxUnsub < IdSpace

CountInv == ~wrapped /\ packet_id <= Len(accepted) + unsubs

LEMMA CountStep ==
  ASSUME Few, TypeOK, CountInv, [Next]_vars
  PROVE  CountInv'
<1>1. /\ packet_id \in Nat /\ Len(accepted) \in Nat /\ unsubs \in Nat /\ IdSpace \in Nat
      /\ unsubs <= MaxUnsub /\ Len(accepted) <= MaxMsgs /\ MaxUnsub \in Nat /\ MaxMsgs \in Nat
  BY SizeAssumption DEF TypeOK, Ids
<1>2. packet_id + 1 < IdSpace => NextId = packet_id + 1
  <2>1. packet_id + 1 < IdSpace => (packet_id + 1) % IdSpace = packet_id + 1
    BY <1>1
  <2> QED
    BY <1>1, <2>1 DEF NextId
<1>3. CASE UNCHANGED <<packet_id, wrapped, accepted, unsubs>>
  BY <1>3 DEF CountInv
<1>4. ASSUME NEW q \in QosUsed, Publish(q)
      PROVE  CountInv'
  <2> DEFINE id == IF q > 0 THEN NextId ELSE 0
  <2>1. /\ packet_id' = (IF q > 0 THEN id ELSE packet_id)
        /\ wrapped' = (wrapped \/ (q > 0 /\ id <= packet_id))
        /\ accepted' = Append(accepted, q) /\ unsubs' = unsubs /\ Len(accepted) < MaxMsgs
    BY <1>4 DEF Publish, bounds
  <2>2. Len(accepted') = Len(accepted) + 1
    BY <2>1 DEF TypeOK
  <2>3. packet_id + 1 < IdSpace /\ packet_id <= Len(accepted) + unsubs
    BY <1>1, <2>1 DEF CountInv, Few
  <2>4. q > 0 => id = packet_id + 1
    BY <1>2, <2>3
  <2> HIDE DEF id
  <2>5. ~(q > 0 /\ id <= packet_id)
    BY <1>1, <2>4
  <2>6. ~wrapped'
    BY <2>1, <2>5, Zenon DEF CountInv
  <2>7. packet_id' <= Len(accepted') + unsubs'
    BY <1>1, <2>1, <2>2, <2>3, <2>4
  <2> QED
    BY <2>6, <2>7 DEF CountInv
<1>5. CASE Unsubscribe
  <2>1. /\ packet_id' = NextId /\ wrapped' = (wrapped \/ NextId <= packet_id)
        /\ accepted' = accepted /\ unsubs' = unsubs + 1 /\ unsubs < MaxUnsub
    BY <1>5 DEF Unsubscribe
  <2>2. packet_id + 1 < IdSpace /\ packet_id <= Len(accepted) + unsubs
    BY <1>1, <2>1 DEF CountInv, Few
  <2>3. NextId = packet_id + 1
    BY <1>2, <2>2
  <2>4. ~(NextId <= packet_id)
    BY <1>1, <2>3
  <2>5. ~wrapped'
    BY <2>1, <2>4, Zenon DEF CountInv
  <2>6. packet_id' <= Len(accepted') + unsubs'
    BY <1>1, <2>1, <2>2, <2>3
  <2> QED
    BY <2>5, <2>6 DEF CountInv
<1>6. CASE MainLoop
  <2>1. ~Subscriber
    BY DEF Few
  <2> QED
    BY <1>3, <1>6, <2>1 DEF MainLoop, TcpConnect, Hello, Outgoing, Send, RecvData, RecvTimeout,
     RecvEnd, IncomingEnd, HandlePacket, OnConnack, OnPublish, OnAck, OnPubrec, OnPubrel,
     OnUnsuback, OnSuback, OnPingresp, Handle, Rejected, Elapsed, ElapsedPingLost,
     ElapsedCheck, Close, client, ghosts, bounds
<1>7. CASE BrokerRecv \/ Drop \/ (\E q \in InQos : BrokerSend(q)) \/ UNCHANGED vars
  BY <1>3, <1>7 DEF BrokerRecv, BrokerAccept, BrokerRefuse, BrokerClose, BrokerPublished,
     BrokerReleased, BrokerPinged, BrokerSubscribed, BrokerUnsubscribed, BrokerAcked,
     BrokerSend, Drop, client, ghosts, vars, bounds
<1> QED
  BY <1>4, <1>5, <1>6, <1>7 DEF Next, Environment

(* GivenUp, of any queue.                                                  *)
Spent(s, m) ==
  \E i \in DOMAIN s : Acknowledged(s[i].b) /\ s[i].b.msg = m /\ s[i].ttl = 0

Gone == {m \in Taken : GivenUp(m)}

LEMMA SpentAppend ==
  ASSUME NEW s \in Seq(Node), NEW b, NEW m
  PROVE  Spent(AppendPadding(s, b), m) <=> Spent(s, m)
<1>1. Acknowledged(NewNode(b).b) => NewNode(b).ttl # 0
  BY SizeAssumption DEF NewNode
<1> QED
  BY <1>1, AppendPaddingElement, AppendPaddingKeeps DEF Spent

LEMMA SpentKeep ==
  ASSUME NEW s \in Seq(Node), NEW K \in SUBSET (DOMAIN s), NEW m
  PROVE  Spent(KeepAt(s, K), m)
           <=> \E i \in K : Acknowledged(s[i].b) /\ s[i].b.msg = m /\ s[i].ttl = 0
BY KeepAtOnce DEF Spent

LEMMA SpentMap ==
  ASSUME NEW s, NEW p, NEW m, DOMAIN p = DOMAIN s,
         \A i \in DOMAIN s : /\ p[i].b.type = s[i].b.type /\ p[i].b.qos = s[i].b.qos
                             /\ p[i].b.msg = s[i].b.msg /\ p[i].ttl = s[i].ttl
  PROVE  Spent(p, m) <=> Spent(s, m)
<1>1. \A i \in DOMAIN s : Acknowledged(p[i].b) <=> Acknowledged(s[i].b)
  BY DEF Acknowledged
<1> QED
  BY <1>1 DEF Spent

(* A batch takes away nobody who has been given up.                        *)
LEMMA OutgoingGone ==
  ASSUME TypeOK, AwakeInv, Outgoing, NEW m
  PROVE  Spent(padding', m) <=> Spent(padding, m)
<1> DEFINE s == MarkSent(padding)
           K == {i \in DOMAIN padding : padding[i].wait_ack \/ padding[i].ttl > 0}
<1>1. padding' = KeepAt(s, K)
  BY DEF Outgoing, Remaining
<1>2. s \in Seq(Node) /\ K \in SUBSET (DOMAIN s) /\ DOMAIN s = DOMAIN padding
  BY MarkSentType DEF TypeOK
<1>3. \A i \in DOMAIN padding : s[i].b = padding[i].b /\ s[i].ttl = padding[i].ttl
  <2>1. \A i \in DOMAIN padding : padding[i] \in Node
    BY ElementOfSeq DEF TypeOK
  <2> QED
    BY <2>1 DEF MarkSent, Node
<1>4. \A i \in DOMAIN padding : Acknowledged(padding[i].b) => i \in K
  BY DEF AwakeInv, Awake, Waiting
<1> HIDE DEF s, K
<1>5. Spent(KeepAt(s, K), m)
        <=> \E i \in K : Acknowledged(s[i].b) /\ s[i].b.msg = m /\ s[i].ttl = 0
  BY <1>2, SpentKeep
<1> QED
  BY <1>1, <1>2, <1>3, <1>4, <1>5 DEF Spent

(* _check_padding gives up one packet at most: it stops there.             *)
LEMMA ElapsedGone ==
  ASSUME TypeOK, AwakeInv, Accounted(padding, accepted, confirmed), Honest,
         NEW t \in 0..MaxDelta, ElapsedPingLost(t) \/ ElapsedCheck(t)
  PROVE  \/ \A m \in Taken : Spent(padding', m) <=> Spent(padding, m)
         \/ \E m \in Taken \ confirmed :
              /\ ~Spent(padding, m) /\ Spent(padding', m)
              /\ \A n \in Taken \ {m} : Spent(padding', n) <=> Spent(padding, n)
<1> DEFINE aged == AgeAll(padding, t)
           ping == Pkt("PINGREQ", 0)
           s == IF PingDue(t) THEN AppendPadding(aged, ping) ELSE aged
<1>1. aged \in Seq(Node) /\ ping \in Packet /\ DOMAIN aged = DOMAIN padding
  <2>1. aged \in Seq(Node) /\ ping \in Packet
    BY AgeAllType, PktType DEF TypeOK, PacketTypes
  <2>2. DOMAIN aged = DOMAIN padding
    BY DEF AgeAll
  <2> QED
    BY <2>1, <2>2
<1>2. \A m : Spent(aged, m) <=> Spent(padding, m)
  BY <1>1, AgedNode, SpentMap
<1>3. padding' = aged \/ padding' = CheckPadding(s)
  BY DEF ElapsedPingLost, ElapsedCheck
<1>4. \A i \in DOMAIN s : \/ i \in DOMAIN padding /\ s[i].b = padding[i].b
                          \/ ~Acknowledged(s[i].b)
  <2>1. ~Acknowledged(NewNode(ping).b)
    BY DEF NewNode, Acknowledged, Pkt
  <2>2. \A i \in DOMAIN aged : i \in DOMAIN padding /\ aged[i].b = padding[i].b
    BY AgedNode
  <2> HIDE DEF aged, ping
  <2> QED
    BY <1>1, <2>1, <2>2, AppendPaddingElement
<1> HIDE DEF aged, ping
<1>5. s \in Seq(Node) /\ \A m : Spent(s, m) <=> Spent(padding, m)
  BY <1>1, <1>2, SpentAppend, AppendPaddingType
<1> HIDE DEF s
<1> DEFINE c == CheckPadding(s)
           Hit(i) == TimedOut(s[i]) /\ \A j \in LastTimedOut(s) : i <= j
<1>6. /\ DOMAIN c = DOMAIN s
      /\ \A i \in DOMAIN s : c[i] = IF Hit(i) THEN Retry(s[i]) ELSE s[i]
  BY DEF CheckPadding
<1>7. \A i \in DOMAIN s : s[i] \in Node
  BY <1>5, ElementOfSeq
<1> HIDE DEF c
<1>8. ASSUME NEW i \in DOMAIN s
      PROVE  /\ Acknowledged(c[i].b) <=> Acknowledged(s[i].b)
             /\ c[i].b.msg = s[i].b.msg
             /\ s[i].ttl = 0 => c[i].ttl = 0
             /\ c[i].ttl = 0 => s[i].ttl = 0 \/ (Hit(i) /\ s[i].ttl = 1)
             /\ Hit(i) /\ s[i].ttl = 1 => c[i].ttl = 0
  <2>1. CASE Hit(i)
    <3>1. s[i].ttl > 0 /\ s[i].ttl \in Nat /\ c[i] = Retry(s[i])
      BY <1>6, <1>7, <2>1 DEF TimedOut, Node
    <3>2. s[i].ttl # 1 => s[i].ttl - 1 # 0
      BY <3>1
    <3> QED
      BY <1>7, <2>1, <3>1, <3>2, RetriedNode DEF Acknowledged
  <2>2. CASE ~Hit(i)
    BY <1>6, <2>2
  <2> QED
    BY <2>1, <2>2
<1>9. ASSUME NEW i \in DOMAIN s, NEW j \in DOMAIN s,
             Hit(i), s[i].ttl = 1, Hit(j), s[j].ttl = 1
      PROVE  i = j
  <2>1. i \in LastTimedOut(s) /\ j \in LastTimedOut(s)
    BY <1>9 DEF LastTimedOut
  <2>2. i <= j /\ j <= i /\ i \in Int /\ j \in Int
    BY <1>5, <1>9, <2>1
  <2> QED
    BY <2>2
<1>10. CASE \E i \in DOMAIN s : Hit(i) /\ s[i].ttl = 1 /\ Acknowledged(s[i].b)
  <2>1. PICK i \in DOMAIN s : Hit(i) /\ s[i].ttl = 1 /\ Acknowledged(s[i].b)
    BY <1>10
  <2> DEFINE m == s[i].b.msg
  <2>2. i \in DOMAIN padding /\ s[i].b = padding[i].b
    BY <1>4, <2>1
  <2>3. Standing(padding[i]) /\ m \in Taken /\ m \notin confirmed
    <3>1. Standing(padding[i]) /\ padding[i].b \in Underway
      BY <2>1, <2>2 DEF Standing, Acknowledged, Underway, Queued
    <3> QED
      BY <2>1, <2>2, <3>1 DEF Accounted, Honest
  <2>4. \A j \in DOMAIN s : Acknowledged(s[j].b) /\ s[j].b.msg = m => j = i
    <3>1. \A j \in DOMAIN padding : Acknowledged(padding[j].b) => Standing(padding[j])
      BY DEF Standing, Acknowledged
    <3> QED
      BY <1>4, <2>2, <2>3, <3>1 DEF Accounted
  <2>5. ~Spent(s, m)
    BY <2>1, <2>4 DEF Spent
  <2>6. Spent(c, m)
    BY <1>6, <1>8, <2>1 DEF Spent
  <2>7. \A n \in Taken \ {m} : Spent(c, n) <=> Spent(s, n)
    BY <1>6, <1>8, <1>9, <2>1 DEF Spent
  <2> QED
    BY <1>2, <1>3, <1>5, <2>3, <2>5, <2>6, <2>7 DEF c
<1>11. CASE ~ \E i \in DOMAIN s : Hit(i) /\ s[i].ttl = 1 /\ Acknowledged(s[i].b)
  <2>1. \A m : Spent(c, m) <=> Spent(s, m)
    BY <1>6, <1>8, <1>11 DEF Spent
  <2> QED
    BY <1>2, <1>3, <1>5, <2>1 DEF c
<1> QED
  BY <1>10, <1>11

LEMMA GivenUpIsSpent ==
  /\ Gone = {m \in Taken : Spent(padding, m)}
  /\ Gone' = {m \in Taken' : Spent(padding', m)}
BY DEF Gone, GivenUp, Carries, Spent

LEMMA GotMoves ==
  ASSUME [Next]_vars
  PROVE  BrokerPublished \/ UNCHANGED got
<1>1. CASE MainLoop
  BY <1>1 DEF MainLoop, TcpConnect, Hello, Outgoing, Send, RecvData, RecvTimeout,
     RecvEnd, IncomingEnd, HandlePacket, OnConnack, OnPublish, OnAck, OnPubrec, OnPubrel,
     OnUnsuback, OnSuback, OnPingresp, Handle, Rejected, Elapsed, ElapsedPingLost,
     ElapsedCheck, Close, ghosts
<1>2. CASE Environment \/ UNCHANGED vars
  BY <1>2 DEF Environment, BrokerRecv, BrokerAccept, BrokerRefuse, BrokerClose,
     BrokerReleased, BrokerPinged, BrokerSubscribed, BrokerUnsubscribed, BrokerAcked,
     BrokerSend, Drop, Unsubscribe, Publish, ghosts, vars
<1> QED
  BY <1>1, <1>2 DEF Next

(* The node whose exchange goes on or is over was the only one.            *)
LEMMA ErasedGone ==
  ASSUME TypeOK, Accounted(padding, accepted, confirmed), Honest,
         inb # <<>>, Head(inb).type \in DOMAIN Answers, ~Unmatched(Head(inb))
  PROVE  LET s == ErasePadding(padding, Answers[Head(inb).type], Head(inb).id) IN
         /\ s \in Seq(Node) /\ Acked.msg \in (got \cap Taken) \ confirmed
         /\ ~Spent(s, Acked.msg)
         /\ \A m : m # Acked.msg => (Spent(s, m) <=> Spent(padding, m))
<1> DEFINE type == Answers[Head(inb).type]
           s == ErasePadding(padding, type, Head(inb).id)
           k == FirstOf(Matching(padding, type, Head(inb).id))
           K == DOMAIN padding \ {k}
<1>1. Matching(padding, type, Head(inb).id) # {} /\ padding \in Seq(Node)
  BY DEF Unmatched, TypeOK
<1>2. Acked = padding[k].b /\ s = KeepAt(padding, K)
  BY DEF Acked, ErasePadding
<1> HIDE DEF type
<1>3. k \in DOMAIN padding
  BY <1>1, FirstMatch
<1> HIDE DEF k
<1>4. Acked \in Underway /\ Acknowledged(Acked) /\ Acked.msg \in got
  BY AnswerIsRight
<1>5. \A i \in DOMAIN padding : Acknowledged(padding[i].b) => Standing(padding[i])
  BY DEF Acknowledged, Standing
<1>6. Acked.msg \in Taken /\ Acked.msg \notin confirmed
  BY <1>2, <1>3, <1>4, <1>5 DEF Honest, Accounted
<1>7. \A i \in K : Acknowledged(padding[i].b) => padding[i].b.msg # Acked.msg
  BY <1>2, <1>3, <1>4, <1>5 DEF Accounted
<1>8. K \in SUBSET (DOMAIN padding)
  OBVIOUS
<1> HIDE DEF s
<1>9. \A m : Spent(s, m) <=> \E i \in K : /\ Acknowledged(padding[i].b)
                                           /\ padding[i].b.msg = m /\ padding[i].ttl = 0
  BY <1>1, <1>2, <1>8, SpentKeep
<1>10. s \in Seq(Node)
  BY <1>1, ErasePaddingType DEF s
<1>11. ~Spent(s, Acked.msg)
  BY <1>7, <1>9
<1>12. \A m : m # Acked.msg => (Spent(s, m) <=> Spent(padding, m))
  BY <1>2, <1>9 DEF Spent
<1> QED
  BY <1>4, <1>6, <1>10, <1>11, <1>12 DEF s, type

LEMMA DeliveryStep ==
  ASSUME TypeOK, AwakeInv, Accounted(padding, accepted, confirmed), Honest,
         [Next]_vars
  PROVE  Contract!Next \/ UNCHANGED <<Taken, got \cap Taken, confirmed, Gone>>
<1>1. Taken \subseteq Msgs
  BY SizeAssumption DEF Taken, Msgs, TypeOK
<1>2. Gone = {m \in Taken : Spent(padding, m)} /\ Gone' = {m \in Taken' : Spent(padding', m)}
  BY GivenUpIsSpent
<1>3. UNCHANGED accepted => UNCHANGED Taken
  BY DEF Taken
<1>4. BrokerPublished \/ UNCHANGED got
  BY GotMoves
<1>5. \A m \in Msgs : Contract!Take(m) \/ Contract!Arrive(m) \/ Contract!Hear(m)
                        \/ Contract!Abandon(m) => Contract!Next
  BY DEF Contract!Next
<1>6. CASE BrokerPublished
  <2> DEFINE p == Head(c2s)
  <2>1. UNCHANGED <<accepted, padding, confirmed>> /\ got' \in {got, got \cup {p.msg}}
    BY <1>6 DEF BrokerPublished, client
  <2>2. UNCHANGED Taken /\ Gone' = Gone
    BY <1>2, <1>3, <2>1
  <2>3. CASE got' = got \/ p.msg \in got \/ p.msg \notin Taken
    <3>1. got' \cap Taken' = got \cap Taken
      BY <2>1, <2>2, <2>3
    <3> QED
      BY <2>1, <2>2, <3>1
  <2>4. CASE got' = got \cup {p.msg} /\ p.msg \notin got /\ p.msg \in Taken
    <3>1. Contract!Arrive(p.msg)
      BY <2>1, <2>2, <2>4 DEF Contract!Arrive, Gone
    <3> QED
      BY <1>1, <1>5, <2>4, <3>1
  <2> QED
    BY <2>1, <2>3, <2>4
<1>7. ASSUME UNCHANGED <<accepted, got, confirmed>>,
             \A m \in Taken : Spent(padding', m) <=> Spent(padding, m)
      PROVE  UNCHANGED <<Taken, got \cap Taken, confirmed, Gone>>
  BY <1>2, <1>3, <1>7
<1>8. ASSUME NEW q \in QosUsed, Publish(q)
      PROVE  Contract!Next \/ UNCHANGED <<Taken, got \cap Taken, confirmed, Gone>>
  <2> DEFINE m == Len(accepted) + 1
  <2>1. /\ accepted' = Append(accepted, q) /\ UNCHANGED <<got, confirmed>>
        /\ \E b : padding' = AppendPadding(padding, b)
    BY <1>8 DEF Publish
  <2>2. accepted \in Seq(QosUsed) /\ padding \in Seq(Node) /\ Len(accepted) < MaxMsgs
    BY <1>8 DEF TypeOK, Publish
  <2>3. /\ DOMAIN accepted' = DOMAIN accepted \cup {m} /\ m \notin DOMAIN accepted
        /\ m \in Msgs /\ accepted'[m] = q
        /\ \A n \in DOMAIN accepted : accepted'[n] = accepted[n]
    BY <2>1, <2>2, SizeAssumption DEF Msgs
  <2> HIDE DEF m
  <2>4. Taken' = IF q > 0 THEN Taken \cup {m} ELSE Taken
    BY <2>3 DEF Taken
  <2>5. \A n : Spent(padding', n) <=> Spent(padding, n)
    BY <2>1, <2>2, SpentAppend
  <2>6. ~Spent(padding, m)
    <3>1. \A i \in DOMAIN padding : Acknowledged(padding[i].b) => Standing(padding[i])
      BY DEF Acknowledged, Standing
    <3> QED
      BY <2>3, <3>1 DEF Spent, Accounted
  <2>7. m \notin got
    BY <2>3 DEF Honest
  <2>8. Gone' = Gone
    BY <1>2, <2>4, <2>5, <2>6
  <2>9. got' \cap Taken' = got \cap Taken
    BY <2>1, <2>4, <2>7
  <2>10. m \notin Taken
    BY <2>3 DEF Taken
  <2>11. CASE q > 0
    <3>1. Contract!Take(m)
      BY <2>1, <2>4, <2>8, <2>9, <2>10, <2>11 DEF Contract!Take, Gone
    <3> QED
      BY <1>5, <2>3, <3>1
  <2> QED
    BY <2>1, <2>4, <2>8, <2>9, <2>11
<1>9. CASE Outgoing
  <2>1. UNCHANGED <<accepted, got, confirmed>>
    BY <1>9 DEF Outgoing
  <2> QED
    BY <1>7, <1>9, <2>1, OutgoingGone
<1>10. CASE OnAck
  <2>1. /\ inb # <<>> /\ Head(inb).type \in {"PUBACK", "PUBCOMP"} /\ ~Unmatched(Head(inb))
        /\ padding' = ErasePadding(padding, Answers[Head(inb).type], Head(inb).id)
        /\ confirmed' = confirmed \cup {Acked.msg} /\ UNCHANGED <<accepted, got>>
    BY <1>10 DEF OnAck, Handle
  <2>2. Head(inb).type \in DOMAIN Answers
    BY <2>1, AnswersDomain
  <2>3. /\ Acked.msg \in (got \cap Taken) \ confirmed /\ ~Spent(padding', Acked.msg)
        /\ \A m : m # Acked.msg => (Spent(padding', m) <=> Spent(padding, m))
    BY <2>1, <2>2, ErasedGone
  <2>4. UNCHANGED <<Taken, got \cap Taken>>
    BY <1>3, <2>1
  <2>5. Gone' = Gone \ {Acked.msg}
    BY <1>2, <2>3, <2>4
  <2>6. Contract!Hear(Acked.msg)
    BY <2>1, <2>3, <2>4, <2>5 DEF Contract!Hear, Gone
  <2> QED
    BY <1>1, <1>5, <2>3, <2>6
<1>11. CASE OnPubrec
  <2>1. /\ inb # <<>> /\ Head(inb).type = "PUBREC" /\ ~Unmatched(Head(inb))
        /\ UNCHANGED <<accepted, got, confirmed>>
        /\ \E b : padding' = AppendPadding(ErasePadding(padding, "PUBLISH", Head(inb).id), b)
    BY <1>11 DEF OnPubrec, Handle
  <2>2. Head(inb).type \in DOMAIN Answers /\ Answers[Head(inb).type] = "PUBLISH"
    BY <2>1 DEF Answers
  <2> DEFINE s == ErasePadding(padding, "PUBLISH", Head(inb).id)
  <2>3. /\ s \in Seq(Node)
        /\ Acked.msg \in (got \cap Taken) \ confirmed /\ ~Spent(s, Acked.msg)
        /\ \A m : m # Acked.msg => (Spent(s, m) <=> Spent(padding, m))
    BY <2>1, <2>2, ErasedGone
  <2>4. \A m : Spent(padding', m) <=> Spent(s, m)
    BY <2>1, <2>3, SpentAppend
  <2> HIDE DEF s
  <2>5. UNCHANGED <<Taken, got \cap Taken>>
    BY <1>3, <2>1
  <2>6. Gone' = Gone \ {Acked.msg}
    BY <1>2, <2>3, <2>4, <2>5
  <2>7. Contract!Hear(Acked.msg)
    BY <2>1, <2>3, <2>5, <2>6 DEF Contract!Hear, Gone
  <2> QED
    BY <1>1, <1>5, <2>3, <2>7
<1>12. ASSUME NEW t \in 0..MaxDelta, ElapsedPingLost(t) \/ ElapsedCheck(t)
       PROVE  Contract!Next \/ UNCHANGED <<Taken, got \cap Taken, confirmed, Gone>>
  <2>1. UNCHANGED <<accepted, got, confirmed>>
    BY <1>12 DEF ElapsedPingLost, ElapsedCheck, ghosts
  <2>2. CASE \A m \in Taken : Spent(padding', m) <=> Spent(padding, m)
    BY <1>7, <2>1, <2>2
  <2>3. ASSUME NEW m \in Taken \ confirmed, ~Spent(padding, m), Spent(padding', m),
               \A n \in Taken \ {m} : Spent(padding', n) <=> Spent(padding, n)
        PROVE  Contract!Next
    <3>1. UNCHANGED <<Taken, got \cap Taken>>
      BY <1>3, <2>1
    <3>2. Gone' = Gone \cup {m} /\ m \notin Gone
      BY <1>2, <2>3, <3>1
    <3>3. Contract!Abandon(m)
      BY <2>1, <3>1, <3>2 DEF Contract!Abandon, Gone
    <3> QED
      BY <1>1, <1>5, <3>3
  <2> QED
    BY <1>12, <2>2, <2>3, ElapsedGone
<1>13. ASSUME UNCHANGED <<accepted, confirmed, got>>,
              \/ UNCHANGED padding
              \/ \E b : Other(b) /\ padding' = AppendPadding(padding, b)
       PROVE  UNCHANGED <<Taken, got \cap Taken, confirmed, Gone>>
  <2>1. padding \in Seq(Node)
    BY DEF TypeOK
  <2>2. \A m : Spent(padding', m) <=> Spent(padding, m)
    BY <1>13, <2>1, SpentAppend
  <2> QED
    BY <1>7, <1>13, <2>2
<1> QED
  BY <1>4, <1>6, <1>8, <1>9, <1>10, <1>11, <1>12, <1>13, QueueCases

(* The engine of a publisher that makes fewer calls than there are         *)
(* identifiers implements Delivery: a message is taken once, completed     *)
(* after it has arrived and for good, given up only while it is not        *)
(* complete, and a late answer takes that back.                            *)
THEOREM PublisherDelivers ==
  ASSUME ~Subscriber, MaxMsgs + MaxUnsub < IdSpace, PacketTTL >= 2
  PROVE  Spec => Delivers
<1> DEFINE Inv == AwakeInv /\ Accounted(padding, accepted, confirmed) /\ HonestInv /\ CountInv
<1>1. Init => Inv
  <2> SUFFICES ASSUME Init PROVE Inv
    OBVIOUS
  <2>1. Underway = {} /\ Told = {}
    BY DEF Init, Underway, Told, Queued, Elems
  <2>2. HonestInv
    BY <2>1 DEF Init, Honest, HonestInv
  <2>3. AwakeInv /\ Accounted(padding, accepted, confirmed)
    BY DEF Init, AwakeInv, Accounted
  <2>4. CountInv
    BY DEF Init, CountInv
  <2> QED
    BY <2>2, <2>3, <2>4
<1>2. TypeOK /\ Inv /\ [Next]_vars => Inv'
  BY AwakeStep, AccountedStep, HonestStep, CountStep DEF Few
<1>3. Spec => []Inv
  BY <1>1, <1>2, TypeCorrect, PTL DEF Spec
<1>4. Init => Contract!Init
  BY DEF Init, Contract!Init, Taken, GivenUp, Carries
<1>5. TypeOK /\ Inv /\ [Next]_vars => [Contract!Next]_Contract!vars
  <2> SUFFICES ASSUME TypeOK, Inv, [Next]_vars
               PROVE  Contract!Next \/ UNCHANGED Contract!vars
    OBVIOUS
  <2>1. Honest
    BY DEF HonestInv, CountInv
  <2> QED
    BY <2>1, DeliveryStep DEF Contract!vars, Gone
<1> QED
  BY <1>3, <1>4, <1>5, TypeCorrect, PTL DEF Spec, Delivers, Contract!Spec
-----------------------------------------------------------------------------
(* The order of first copies.  What mqtt_cli_publish appends is the last   *)
(* of the queue, a walk of the queue keeps the order, and a node that is   *)
(* sent a second time carries DUP; so the messages of the first copies     *)
(* increase from the connection to the batch to the queue.                 *)

First(b) == b.type = "PUBLISH" /\ ~b.dup

Sorted(s) ==
  \A i, j \in DOMAIN s : i < j /\ First(s[i]) /\ First(s[j]) => s[i].msg < s[j].msg

(* The nodes whose first copy is still to be sent.                         *)
Due(s) == {i \in DOMAIN s : ~s[i].wait_ack /\ First(s[i].b)}

SortedQueue(s) == \A i, j \in Due(s) : i < j => s[i].b.msg < s[j].b.msg

DueMsgs(s)   == {s[i].b.msg : i \in Due(s)}
FirstMsgs(s) == {s[i].msg : i \in {j \in DOMAIN s : First(s[j])}}

Below(S, T) == \A x \in S, y \in T : x < y

OrderInv ==
  /\ Sorted(c2s) /\ Sorted(out) /\ SortedQueue(padding)
  /\ Below(FirstMsgs(c2s), FirstMsgs(out))
  /\ Below(FirstMsgs(c2s) \cup FirstMsgs(out), DueMsgs(padding))
  /\ \A x \in FirstMsgs(c2s) \cup FirstMsgs(out) \cup DueMsgs(padding) : x <= Len(accepted)

(* A walk that frees nodes.                                                *)
LEMMA KeepOrder ==
  ASSUME NEW s \in Seq(Node), NEW K \in SUBSET (DOMAIN s), SortedQueue(s)
  PROVE  SortedQueue(KeepAt(s, K)) /\ DueMsgs(KeepAt(s, K)) \subseteq DueMsgs(s)
<1> DEFINE p == KeepAt(s, K)
<1>1. \A j \in DOMAIN p : Nth(K, j) \in K /\ p[j] = s[Nth(K, j)]
  BY KeepAtOnce
<1>2. DOMAIN p = 1..Cardinality(K) /\ Len(s) \in Nat /\ K \in SUBSET (1..Len(s))
  BY DEF KeepAt
<1>3. \A i, j \in DOMAIN p : i < j => Nth(K, i) < Nth(K, j)
  BY <1>2, NthMonotone
<1> HIDE DEF p
<1>4. \A j \in Due(p) : j \in DOMAIN p /\ Nth(K, j) \in Due(s) /\ p[j] = s[Nth(K, j)]
  BY <1>1 DEF Due
<1>5. SortedQueue(p) /\ DueMsgs(p) \subseteq DueMsgs(s)
  BY <1>3, <1>4 DEF SortedQueue, DueMsgs
<1> QED
  BY <1>5 DEF p

(* A queue whose nodes are due only where those of another queue are.      *)
LEMMA SameOrder ==
  ASSUME NEW s, NEW t, SortedQueue(s),
         \A i \in Due(t) : i \in Due(s) /\ t[i].b.msg = s[i].b.msg
  PROVE  SortedQueue(t) /\ DueMsgs(t) \subseteq DueMsgs(s)
BY DEF SortedQueue, DueMsgs

LEMMA AppendOrder ==
  ASSUME NEW s \in Seq(Node), NEW b, ~First(b), SortedQueue(s)
  PROVE  SortedQueue(AppendPadding(s, b)) /\ DueMsgs(AppendPadding(s, b)) \subseteq DueMsgs(s)
<1> DEFINE t == AppendPadding(s, b)
<1>1. \A i \in DOMAIN t : (i \in DOMAIN s /\ t[i] = s[i]) \/ t[i] = NewNode(b)
  BY AppendPaddingElement
<1>2. NewNode(b).b = b
  BY DEF NewNode
<1> HIDE DEF t
<1>3. \A i \in Due(t) : i \in Due(s) /\ t[i].b.msg = s[i].b.msg
  BY <1>1, <1>2 DEF Due
<1>4. SortedQueue(t) /\ DueMsgs(t) \subseteq DueMsgs(s)
  BY <1>3, SameOrder
<1> QED
  BY <1>4 DEF t

LEMMA PublishOrder ==
  ASSUME TypeOK, OrderInv, NEW q \in QosUsed, Publish(q)
  PROVE  OrderInv'
<1>1. PICK b \in Packet : padding' = Append(padding, NewNode(b)) /\ b.msg = Len(accepted) + 1
  BY PublishPacket DEF AppendPadding
<1>2. /\ c2s' = c2s /\ out' = out /\ Len(accepted') = Len(accepted) + 1 /\ Len(accepted) \in Nat
  BY DEF Publish, loop, TypeOK
<1>3. /\ DOMAIN padding' = 1..Len(padding) + 1 /\ DOMAIN padding = 1..Len(padding)
      /\ Len(padding) \in Nat /\ padding'[Len(padding) + 1] = NewNode(b)
      /\ \A i \in 1..Len(padding) : padding'[i] = padding[i]
  BY <1>1 DEF TypeOK
<1>4. \A i \in 1..Len(padding) + 1 : i \in 1..Len(padding) \/ i = Len(padding) + 1
  BY <1>3
<1>5. padding'[Len(padding) + 1].b.msg = Len(accepted) + 1
  BY <1>1, <1>3 DEF NewNode
<1>6. \A i \in Due(padding') :
        \/ i \in Due(padding) /\ padding'[i].b.msg = padding[i].b.msg
             /\ padding'[i].b.msg \in DueMsgs(padding)
        \/ i = Len(padding) + 1 /\ padding'[i].b.msg = Len(accepted) + 1
  BY <1>3, <1>4, <1>5 DEF Due, DueMsgs
<1>7. \A x \in FirstMsgs(c2s) \cup FirstMsgs(out) \cup DueMsgs(padding) :
        x \in Nat /\ x < Len(accepted) + 1 /\ x <= Len(accepted) + 1
  <2>1. ASSUME NEW x \in FirstMsgs(c2s) \cup FirstMsgs(out) \cup DueMsgs(padding)
        PROVE  x \in Nat
    <3>1. \A p \in Packet : p.msg \in Nat
      BY SizeAssumption DEF Packet
    <3>2. \A i \in DOMAIN c2s : c2s[i] \in Packet
      BY ElementOfSeq DEF TypeOK
    <3>3. \A i \in DOMAIN out : out[i] \in Packet
      BY ElementOfSeq DEF TypeOK
    <3>4. \A i \in DOMAIN padding : padding[i].b \in Packet
      <4>1. \A i \in DOMAIN padding : padding[i] \in Node
        BY ElementOfSeq DEF TypeOK
      <4> QED
        BY <4>1 DEF Node
    <3> QED
      BY <3>1, <3>2, <3>3, <3>4 DEF FirstMsgs, DueMsgs, Due
  <2>2. \A x \in FirstMsgs(c2s) \cup FirstMsgs(out) \cup DueMsgs(padding) : x <= Len(accepted)
    BY DEF OrderInv
  <2> QED
    BY <1>2, <2>1, <2>2
<1>8. \A i, j \in Due(padding') : i < j => i # Len(padding) + 1
  BY <1>3, <1>4 DEF Due
<1>9. SortedQueue(padding')
  BY <1>6, <1>7, <1>8 DEF SortedQueue, OrderInv
<1>10. DueMsgs(padding') \subseteq DueMsgs(padding) \cup {Len(accepted) + 1}
  BY <1>6 DEF DueMsgs
<1>11. Below(FirstMsgs(c2s) \cup FirstMsgs(out), DueMsgs(padding'))
  BY <1>7, <1>10 DEF Below, OrderInv
<1>12. \A x \in FirstMsgs(c2s) \cup FirstMsgs(out) \cup DueMsgs(padding') : x <= Len(accepted')
  BY <1>2, <1>7, <1>10
<1> QED
  BY <1>2, <1>9, <1>11, <1>12 DEF OrderInv

LEMMA OutgoingOrder ==
  ASSUME TypeOK, OrderInv, Outgoing
  PROVE  OrderInv'
<1> DEFINE U == Unsent(padding)
           u == KeepAt(padding, U)
<1>1. out' = [i \in DOMAIN u |-> u[i].b] /\ c2s' = c2s /\ accepted' = accepted
  BY DEF Outgoing, Batch
<1>2. padding \in Seq(Node) /\ U \in SUBSET (DOMAIN padding)
  BY DEF Unsent, TypeOK
<1>3. SortedQueue(u) /\ DueMsgs(u) \subseteq DueMsgs(padding)
  <2> HIDE DEF U
  <2> QED
    BY <1>2, KeepOrder DEF OrderInv
<1>4. \A j \in DOMAIN u : ~u[j].wait_ack
  <2>1. \A i \in U : ~padding[i].wait_ack
    BY DEF Unsent
  <2> HIDE DEF U
  <2> QED
    BY <1>2, <2>1, KeepAtElement
<1>5. Due(padding') = {}
  BY OutgoingAwake DEF Due
<1> HIDE DEF u
<1>6. \A i \in DOMAIN out' : First(out'[i]) => i \in Due(u) /\ out'[i].msg = u[i].b.msg
  BY <1>1, <1>4 DEF Due
<1>7. Sorted(out') /\ FirstMsgs(out') \subseteq DueMsgs(u)
  BY <1>3, <1>6 DEF Sorted, SortedQueue, FirstMsgs, DueMsgs
<1>8. SortedQueue(padding') /\ DueMsgs(padding') = {}
  BY <1>5 DEF SortedQueue, DueMsgs
<1> QED
  BY <1>1, <1>3, <1>7, <1>8 DEF OrderInv, Below

LEMMA ConcatOrder ==
  ASSUME TypeOK, Sorted(c2s), Sorted(out), Below(FirstMsgs(c2s), FirstMsgs(out))
  PROVE  /\ Sorted(c2s \o out)
         /\ FirstMsgs(c2s \o out) \subseteq FirstMsgs(c2s) \cup FirstMsgs(out)
<1> DEFINE t == c2s \o out
<1>1. /\ Len(c2s) \in Nat /\ Len(out) \in Nat
      /\ DOMAIN c2s = 1..Len(c2s) /\ DOMAIN out = 1..Len(out)
      /\ DOMAIN t = 1..Len(c2s) + Len(out)
      /\ \A i \in 1..Len(c2s) + Len(out) :
           t[i] = IF i <= Len(c2s) THEN c2s[i] ELSE out[i - Len(c2s)]
  BY DEF TypeOK
<1>2. \A i \in 1..Len(c2s) + Len(out) :
        \/ i <= Len(c2s) /\ i \in 1..Len(c2s)
        \/ ~(i <= Len(c2s)) /\ i - Len(c2s) \in 1..Len(out)
  BY <1>1
<1> HIDE DEF t
<1>3. \A i \in DOMAIN t : First(t[i]) =>
        \/ /\ i <= Len(c2s) /\ i \in DOMAIN c2s /\ t[i] = c2s[i]
           /\ t[i].msg \in FirstMsgs(c2s)
        \/ /\ ~(i <= Len(c2s)) /\ i - Len(c2s) \in DOMAIN out /\ t[i] = out[i - Len(c2s)]
           /\ t[i].msg \in FirstMsgs(out)
  BY <1>1, <1>2 DEF FirstMsgs
<1>4. FirstMsgs(t) \subseteq FirstMsgs(c2s) \cup FirstMsgs(out)
  BY <1>3 DEF FirstMsgs
<1>5. ASSUME NEW i \in DOMAIN t, NEW j \in DOMAIN t, i < j, First(t[i]), First(t[j])
      PROVE  t[i].msg < t[j].msg
  <2>1. (j <= Len(c2s) => i <= Len(c2s)) /\ i - Len(c2s) < j - Len(c2s)
    BY <1>1, <1>5
  <2>2. CASE j <= Len(c2s)
    <3>1. i \in DOMAIN c2s /\ j \in DOMAIN c2s /\ t[i] = c2s[i] /\ t[j] = c2s[j]
      BY <1>3, <1>5, <2>1, <2>2
    <3> QED
      BY <1>5, <3>1 DEF Sorted
  <2>3. CASE ~(j <= Len(c2s)) /\ i <= Len(c2s)
    <3>1. t[i].msg \in FirstMsgs(c2s) /\ t[j].msg \in FirstMsgs(out)
      BY <1>3, <1>5, <2>3
    <3> QED
      BY <3>1 DEF Below
  <2>4. CASE ~(j <= Len(c2s)) /\ ~(i <= Len(c2s))
    <3>1. i - Len(c2s) \in DOMAIN out /\ j - Len(c2s) \in DOMAIN out
          /\ t[i] = out[i - Len(c2s)] /\ t[j] = out[j - Len(c2s)]
      BY <1>3, <1>5, <2>4
    <3> QED
      BY <1>5, <2>1, <3>1 DEF Sorted
  <2> QED
    BY <2>2, <2>3, <2>4
<1>6. Sorted(t)
  BY <1>5 DEF Sorted
<1> QED
  BY <1>4, <1>6 DEF t

LEMMA SendOrder ==
  ASSUME TypeOK, OrderInv, Send
  PROVE  OrderInv'
<1>1. out' = <<>> /\ padding' = padding /\ accepted' = accepted
      /\ (c2s' = c2s \/ c2s' = c2s \o out)
  BY DEF Send, client, ghosts
<1>2. FirstMsgs(out') = {} /\ Sorted(out')
  BY <1>1 DEF FirstMsgs, Sorted
<1>3. Sorted(c2s \o out) /\ FirstMsgs(c2s \o out) \subseteq FirstMsgs(c2s) \cup FirstMsgs(out)
  BY ConcatOrder DEF OrderInv
<1>4. Sorted(c2s') /\ FirstMsgs(c2s') \subseteq FirstMsgs(c2s) \cup FirstMsgs(out)
  BY <1>1, <1>3 DEF OrderInv
<1> QED
  BY <1>1, <1>2, <1>4 DEF OrderInv, Below

LEMMA RetriedFirst ==
  ASSUME NEW n \in Node, n.ttl > 0, ~Retry(n).wait_ack, First(Retry(n).b)
  PROVE  ~n.wait_ack /\ First(n.b) /\ Retry(n).b.msg = n.b.msg
<1>1. CASE n.ttl = 1
  <2>1. Retry(n).b = n.b /\ Retry(n).wait_ack = n.wait_ack
    BY <1>1 DEF Retry, Node
  <2> QED
    BY <2>1
<1>2. CASE n.ttl # 1
  <2>1. Retry(n).b = [n.b EXCEPT !.dup = @ \/ n.b.type = "PUBLISH"]
    BY <1>2 DEF Retry, Node
  <2>2. Retry(n).b.type = n.b.type /\ (n.b.type = "PUBLISH" => Retry(n).b.dup)
    BY <2>1 DEF Node, Packet
  <2> QED
    BY <2>2 DEF First
<1> QED
  BY <1>1, <1>2

(* A turn of the loop makes no node due.                                   *)
LEMMA ElapsedOrder ==
  ASSUME TypeOK, OrderInv, NEW t \in 0..MaxDelta, ElapsedPingLost(t) \/ ElapsedCheck(t)
  PROVE  SortedQueue(padding') /\ DueMsgs(padding') \subseteq DueMsgs(padding)
<1> DEFINE aged == AgeAll(padding, t)
           ping == Pkt("PINGREQ", 0)
           s == IF PingDue(t) THEN AppendPadding(aged, ping) ELSE aged
<1>1. padding' = aged \/ padding' = CheckPadding(s)
  BY DEF ElapsedPingLost, ElapsedCheck
<1>2. aged \in Seq(Node) /\ ping \in Packet /\ ~First(ping)
  BY AgeAllType, PktType DEF TypeOK, PacketTypes, Pkt, First
<1>3. \A i \in DOMAIN aged : i \in DOMAIN padding /\ aged[i].b = padding[i].b
                             /\ aged[i].wait_ack = padding[i].wait_ack
  BY AgedNode
<1> HIDE DEF aged
<1>4. \A i \in Due(aged) : i \in Due(padding) /\ aged[i].b.msg = padding[i].b.msg
  BY <1>3 DEF Due
<1>5. SortedQueue(aged) /\ DueMsgs(aged) \subseteq DueMsgs(padding)
  BY <1>4, SameOrder DEF OrderInv
<1>6. SortedQueue(s) /\ DueMsgs(s) \subseteq DueMsgs(padding)
  <2> HIDE DEF ping
  <2>1. SortedQueue(AppendPadding(aged, ping))
        /\ DueMsgs(AppendPadding(aged, ping)) \subseteq DueMsgs(aged)
    BY <1>2, <1>5, AppendOrder
  <2> QED
    BY <1>5, <2>1
<1>7. s \in Seq(Node)
  BY <1>2, AppendPaddingType
<1> HIDE DEF s
<1>8. ASSUME NEW i \in Due(CheckPadding(s))
      PROVE  i \in Due(s) /\ CheckPadding(s)[i].b.msg = s[i].b.msg
  <2>1. i \in DOMAIN s /\ ~CheckPadding(s)[i].wait_ack /\ First(CheckPadding(s)[i].b)
    BY DEF Due, CheckPadding
  <2>2. s[i] \in Node
    BY <1>7, <2>1, ElementOfSeq
  <2>3. CheckPadding(s)[i] = s[i] \/ (s[i].ttl > 0 /\ CheckPadding(s)[i] = Retry(s[i]))
    BY <2>1 DEF CheckPadding, TimedOut
  <2>4. CASE CheckPadding(s)[i] = s[i]
    BY <2>1, <2>4 DEF Due
  <2>5. CASE s[i].ttl > 0 /\ CheckPadding(s)[i] = Retry(s[i])
    BY <2>1, <2>2, <2>5, RetriedFirst DEF Due
  <2> QED
    BY <2>3, <2>4, <2>5
<1>9. SortedQueue(CheckPadding(s)) /\ DueMsgs(CheckPadding(s)) \subseteq DueMsgs(s)
  BY <1>6, <1>8, SameOrder
<1> QED
  BY <1>1, <1>5, <1>6, <1>9

(* Packets leave the batch and the connection from the front.              *)
LEMMA LineOrder ==
  ASSUME TypeOK, OrderInv, [Next]_vars, ~Outgoing, ~Send
  PROVE  /\ Sorted(c2s') /\ FirstMsgs(c2s') \subseteq FirstMsgs(c2s)
         /\ Sorted(out') /\ FirstMsgs(out') \subseteq FirstMsgs(out)
<1>1. Sorted(<<>>) /\ FirstMsgs(<<>>) = {}
  BY DEF Sorted, FirstMsgs
<1>2. ASSUME c2s # <<>>
      PROVE  Sorted(Tail(c2s)) /\ FirstMsgs(Tail(c2s)) \subseteq FirstMsgs(c2s)
  <2>1. Len(c2s) \in Nat /\ DOMAIN c2s = 1..Len(c2s) /\ DOMAIN Tail(c2s) = 1..Len(c2s) - 1
        /\ \A i \in 1..Len(c2s) - 1 : Tail(c2s)[i] = c2s[i + 1]
    BY <1>2 DEF TypeOK
  <2>2. \A i \in 1..Len(c2s) - 1 : i + 1 \in 1..Len(c2s)
    BY <2>1
  <2>3. \A i, j \in 1..Len(c2s) - 1 : i < j => i + 1 < j + 1
    BY <2>1
  <2>4. \A i \in DOMAIN Tail(c2s) : i + 1 \in DOMAIN c2s /\ Tail(c2s)[i] = c2s[i + 1]
    BY <2>1, <2>2
  <2>5. Sorted(Tail(c2s))
    BY <2>1, <2>3, <2>4 DEF Sorted, OrderInv
  <2>6. FirstMsgs(Tail(c2s)) \subseteq FirstMsgs(c2s)
    BY <2>4 DEF FirstMsgs
  <2> QED
    BY <2>5, <2>6
<1> QED
  BY <1>1, <1>2, LineSteps DEF OrderInv

LEMMA OrderStep ==
  ASSUME TypeOK, OrderInv, [Next]_vars
  PROVE  OrderInv'
<1>1. padding \in Seq(Node) /\ SortedQueue(padding)
  BY DEF TypeOK, OrderInv
<1>2. ASSUME ~Outgoing, ~Send, accepted' = accepted, SortedQueue(padding'),
             DueMsgs(padding') \subseteq DueMsgs(padding)
      PROVE  OrderInv'
  BY <1>2, LineOrder DEF OrderInv, Below
<1>3. CASE Outgoing \/ Send \/ \E q \in QosUsed : Publish(q)
  BY <1>3, OutgoingOrder, SendOrder, PublishOrder
<1>4. ASSUME ~Outgoing, ~Send, OnAck PROVE OrderInv'
  <2>1. accepted' = accepted
    BY <1>4 DEF OnAck, Handle
  <2>2. SortedQueue(padding') /\ DueMsgs(padding') \subseteq DueMsgs(padding)
    BY <1>1, <1>4, KeepOrder DEF OnAck, ErasePadding
  <2> QED
    BY <1>2, <1>4, <2>1, <2>2
<1>5. ASSUME ~Outgoing, ~Send, OnPubrec PROVE OrderInv'
  <2> DEFINE K == DOMAIN padding \ {FirstOf(Matching(padding, "PUBLISH", Head(inb).id))}
             p == KeepAt(padding, K)
  <2>1. PICK b \in Packet : b.type = "PUBREL" /\ padding' = AppendPadding(p, b)
    BY <1>5, PubrelPacket DEF ErasePadding
  <2>2. K \in SUBSET (DOMAIN padding)
    OBVIOUS
  <2> HIDE DEF K
  <2>3. p \in Seq(Node) /\ SortedQueue(p) /\ DueMsgs(p) \subseteq DueMsgs(padding)
    BY <1>1, <2>2, KeepOrder, KeepAtProperties
  <2> HIDE DEF p
  <2>4. SortedQueue(padding') /\ DueMsgs(padding') \subseteq DueMsgs(p)
    BY <2>1, <2>3, AppendOrder DEF First
  <2>5. accepted' = accepted
    BY <1>5 DEF OnPubrec, Handle
  <2> QED
    BY <1>2, <1>5, <2>3, <2>4, <2>5
<1>6. ASSUME ~Outgoing, ~Send, NEW t \in 0..MaxDelta, ElapsedPingLost(t) \/ ElapsedCheck(t)
      PROVE  OrderInv'
  <2>1. accepted' = accepted
    BY <1>6 DEF ElapsedPingLost, ElapsedCheck, ghosts
  <2> QED
    BY <1>2, <1>6, <2>1, ElapsedOrder
<1>7. ASSUME ~Outgoing, ~Send, accepted' = accepted,
             UNCHANGED padding \/ \E b : Other(b) /\ padding' = AppendPadding(padding, b)
      PROVE  OrderInv'
  <2>1. SortedQueue(padding') /\ DueMsgs(padding') \subseteq DueMsgs(padding)
    BY <1>1, <1>7, AppendOrder DEF Other, First
  <2> QED
    BY <1>2, <1>7, <2>1
<1> QED
  BY <1>3, <1>4, <1>5, <1>6, <1>7, QueueCases

(* With no assumption on the timing, the identifiers or the connections:   *)
(* the first copies of messages leave in the order of the calls of         *)
(* mqtt_cli_publish.                                                       *)
THEOREM FirstCopiesAreInOrder == Spec => []FirstCopiesInOrder
<1>1. Init => OrderInv
  BY DEF Init, OrderInv, Sorted, SortedQueue, Due, DueMsgs, FirstMsgs, Below
<1>2. TypeOK /\ OrderInv /\ [Next]_vars => OrderInv'
  BY OrderStep
<1>3. TypeOK /\ OrderInv => FirstCopiesInOrder
  <2> SUFFICES ASSUME TypeOK, OrderInv PROVE FirstCopiesInOrder
    OBVIOUS
  <2>1. Sorted(c2s \o out)
    BY ConcatOrder DEF OrderInv
  <2> QED
    BY <2>1 DEF FirstCopiesInOrder, Sorted, First
<1> QED
  BY <1>1, <1>2, <1>3, TypeCorrect, PTL DEF Spec

-----------------------------------------------------------------------------
(***************************************************************************)
(* What becomes of an exchange on its way along the queue, the batch, the  *)
(* connection, the broker and back.                                        *)
(***************************************************************************)
(* Packets of a set A in a sequence.                                       *)
Has(s, A)  == \E i \in DOMAIN s : s[i] \in A
Lone(s, A) == \A i, j \in DOMAIN s : s[i] \in A /\ s[j] \in A => i = j

(* No packet of A is ahead of one of B.                                    *)
NotBefore(s, A, B) == \A i, j \in DOMAIN s : s[i] \in A /\ s[j] \in B => ~(i < j)

(* s is a contiguous part of t.                                            *)
Chunk(s, t) ==
  \E d \in Nat : d + Len(s) <= Len(t) /\ \A i \in DOMAIN s : s[i] = t[i + d]

LEMMA ChunkProperties ==
  ASSUME NEW S, NEW s \in Seq(S), NEW t \in Seq(S), Chunk(s, t), NEW A, NEW B
  PROVE  /\ Elems(s) \subseteq Elems(t)
         /\ Has(s, A) => Has(t, A)
         /\ Lone(t, A) => Lone(s, A)
         /\ NotBefore(t, A, B) => NotBefore(s, A, B)
<1>1. PICK d \in Nat : d + Len(s) <= Len(t) /\ \A i \in DOMAIN s : s[i] = t[i + d]
  BY DEF Chunk
<1>2. DOMAIN s = 1..Len(s) /\ DOMAIN t = 1..Len(t) /\ Len(s) \in Nat /\ Len(t) \in Nat
  OBVIOUS
<1>3. \A i \in DOMAIN s : i \in Int /\ i + d \in DOMAIN t /\ s[i] = t[i + d]
  BY <1>1, <1>2
<1>4. Elems(s) \subseteq Elems(t) /\ (Has(s, A) => Has(t, A))
  BY <1>3 DEF Elems, Has
<1>5. ASSUME Lone(t, A), NEW i \in DOMAIN s, NEW j \in DOMAIN s, s[i] \in A, s[j] \in A
      PROVE  i = j
  <2>1. i + d = j + d
    BY <1>3, <1>5 DEF Lone
  <2> QED
    BY <1>3, <2>1
<1>6. ASSUME NotBefore(t, A, B), NEW i \in DOMAIN s, NEW j \in DOMAIN s,
             s[i] \in A, s[j] \in B
      PROVE  ~(i < j)
  <2>1. ~(i + d < j + d)
    BY <1>3, <1>6 DEF NotBefore
  <2> QED
    BY <1>3, <2>1
<1> QED
  BY <1>4, <1>5, <1>6 DEF Lone, NotBefore

(* Where the elements of a concatenation come from.                        *)
LEMMA ConcatElement ==
  ASSUME NEW S, NEW s \in Seq(S), NEW t \in Seq(S)
  PROVE  /\ Len(s) \in Nat
         /\ \A i \in DOMAIN s : i \in DOMAIN (s \o t) /\ i \in Int /\ i <= Len(s)
                               /\ (s \o t)[i] = s[i]
         /\ \A i \in DOMAIN t : Len(s) + i \in DOMAIN (s \o t)
                               /\ (s \o t)[Len(s) + i] = t[i]
         /\ \A i \in DOMAIN (s \o t) : i \in Int /\
              \/ i \in DOMAIN s /\ (s \o t)[i] = s[i]
              \/ /\ i - Len(s) \in DOMAIN t /\ i > Len(s)
                 /\ (s \o t)[i] = t[i - Len(s)]
<1>1. /\ DOMAIN (s \o t) = 1..(Len(s) + Len(t))
      /\ Len(s) \in Nat /\ Len(t) \in Nat
      /\ DOMAIN s = 1..Len(s) /\ DOMAIN t = 1..Len(t)
  OBVIOUS
<1>2. \A i \in 1..Len(s) : (s \o t)[i] = s[i]
  OBVIOUS
<1>3. \A i \in 1..Len(t) : (s \o t)[Len(s) + i] = t[i]
  OBVIOUS
<1>4. ASSUME NEW i \in DOMAIN (s \o t)
      PROVE  \/ i \in DOMAIN s /\ (s \o t)[i] = s[i]
             \/ /\ i - Len(s) \in DOMAIN t /\ i > Len(s)
                /\ (s \o t)[i] = t[i - Len(s)]
  <2>1. i \in Int /\ 1 <= i /\ i <= Len(s) + Len(t)
    BY <1>1
  <2>2. CASE i <= Len(s)
    BY <1>1, <1>2, <2>1, <2>2
  <2>3. CASE i > Len(s)
    <3>1. i - Len(s) \in 1..Len(t) /\ Len(s) + (i - Len(s)) = i
      BY <1>1, <2>1, <2>3
    <3> QED
      BY <1>1, <1>3, <2>3, <3>1
  <2> QED
    BY <1>1, <2>1, <2>2, <2>3
<1>5. \A i \in DOMAIN s : i \in DOMAIN (s \o t) /\ i \in Int /\ i <= Len(s)
  BY <1>1
<1>6. \A i \in DOMAIN t : Len(s) + i \in DOMAIN (s \o t)
  BY <1>1
<1>7. \A i \in DOMAIN (s \o t) : i \in Int
  BY <1>1
<1> QED
  BY <1>1, <1>2, <1>3, <1>4, <1>5, <1>6, <1>7

LEMMA ConcatHas ==
  ASSUME NEW S, NEW s \in Seq(S), NEW t \in Seq(S), NEW A
  PROVE  Has(s \o t, A) <=> Has(s, A) \/ Has(t, A)
<1>1. Has(s \o t, A) => Has(s, A) \/ Has(t, A)
  BY ConcatElement DEF Has
<1>2. Has(s, A) => Has(s \o t, A)
  BY ConcatElement DEF Has
<1>3. ASSUME NEW i \in DOMAIN t, t[i] \in A
      PROVE  Has(s \o t, A)
  <2>1. Len(s) + i \in DOMAIN (s \o t) /\ (s \o t)[Len(s) + i] = t[i]
    BY ConcatElement
  <2> QED
    BY <1>3, <2>1 DEF Has
<1>4. Has(t, A) => Has(s \o t, A)
  BY <1>3 DEF Has
<1> QED
  BY <1>1, <1>2, <1>4

LEMMA ConcatLone ==
  ASSUME NEW S, NEW s \in Seq(S), NEW t \in Seq(S), NEW A,
         Lone(s, A), Lone(t, A), ~(Has(s, A) /\ Has(t, A))
  PROVE  Lone(s \o t, A)
<1> SUFFICES ASSUME NEW i \in DOMAIN (s \o t), NEW j \in DOMAIN (s \o t),
                    (s \o t)[i] \in A, (s \o t)[j] \in A
             PROVE  i = j
  BY DEF Lone
<1>1. CASE i \in DOMAIN s /\ (s \o t)[i] = s[i]
  <2>1. j \in DOMAIN s /\ (s \o t)[j] = s[j]
    BY <1>1, ConcatElement DEF Has
  <2> QED
    BY <1>1, <2>1 DEF Lone
<1>2. CASE i - Len(s) \in DOMAIN t /\ (s \o t)[i] = t[i - Len(s)]
  <2>1. j - Len(s) \in DOMAIN t /\ (s \o t)[j] = t[j - Len(s)]
    BY <1>2, ConcatElement DEF Has
  <2>2. i - Len(s) = j - Len(s)
    BY <1>2, <2>1 DEF Lone
  <2>3. i \in Int /\ j \in Int /\ Len(s) \in Nat
    BY ConcatElement
  <2> QED
    BY <2>2, <2>3
<1> QED
  BY <1>1, <1>2, ConcatElement

LEMMA ConcatNotBefore ==
  ASSUME NEW S, NEW s \in Seq(S), NEW t \in Seq(S), NEW A, NEW B,
         NotBefore(s, A, B), NotBefore(t, A, B), ~(Has(s, A) /\ Has(t, B))
  PROVE  NotBefore(s \o t, A, B)
<1> SUFFICES ASSUME NEW i \in DOMAIN (s \o t), NEW j \in DOMAIN (s \o t),
                    (s \o t)[i] \in A, (s \o t)[j] \in B, i < j
             PROVE  FALSE
  BY DEF NotBefore
<1>1. i \in Int /\ j \in Int /\ Len(s) \in Nat
  BY ConcatElement
<1>2. CASE i \in DOMAIN s /\ (s \o t)[i] = s[i]
  <2>1. j \in DOMAIN s /\ (s \o t)[j] = s[j]
    BY <1>2, ConcatElement DEF Has
  <2> QED
    BY <1>2, <2>1 DEF NotBefore
<1>3. CASE i - Len(s) \in DOMAIN t /\ i > Len(s) /\ (s \o t)[i] = t[i - Len(s)]
  <2>1. ~(j \in DOMAIN s)
    <3>1. j \in DOMAIN s => j <= Len(s)
      BY ConcatElement
    <3> QED
      BY <1>1, <1>3, <3>1
  <2>2. j - Len(s) \in DOMAIN t /\ (s \o t)[j] = t[j - Len(s)]
    BY <2>1, ConcatElement
  <2>3. i - Len(s) < j - Len(s)
    BY <1>1
  <2> QED
    BY <1>3, <2>2, <2>3 DEF NotBefore
<1> QED
  BY <1>2, <1>3, ConcatElement

(* The first packet of A is the only one.                                  *)
LEMMA TailProperties ==
  ASSUME NEW S, NEW s \in Seq(S), s # <<>>
  PROVE  /\ Tail(s) \in Seq(S) /\ Chunk(Tail(s), s) /\ Head(s) \in S
         /\ Head(s) \in Elems(s)
         /\ \A A : Lone(s, A) /\ Head(s) \in A => ~Has(Tail(s), A)
         /\ \A A, B : NotBefore(s, A, B) /\ Head(s) \in A => ~Has(Tail(s), B)
<1>1. /\ DOMAIN s = 1..Len(s) /\ Len(s) \in Nat /\ Len(s) >= 1
      /\ Tail(s) \in Seq(S) /\ DOMAIN Tail(s) = 1..(Len(s) - 1) /\ Len(Tail(s)) = Len(s) - 1
      /\ Head(s) = s[1] /\ s[1] \in S
  OBVIOUS
<1>2. \A i \in 1..(Len(s) - 1) : Tail(s)[i] = s[i + 1]
  OBVIOUS
<1>3. Chunk(Tail(s), s)
  <2>1. 1 \in Nat /\ 1 + Len(Tail(s)) <= Len(s)
        /\ \A i \in DOMAIN Tail(s) : Tail(s)[i] = s[i + 1]
    BY <1>1, <1>2
  <2> QED
    BY <2>1 DEF Chunk
<1>4. \A i \in DOMAIN Tail(s) : i + 1 \in DOMAIN s /\ i + 1 # 1 /\ 1 < i + 1
                                /\ 1 \in DOMAIN s
  BY <1>1
<1>5. \A A : Lone(s, A) /\ Head(s) \in A => ~Has(Tail(s), A)
  BY <1>1, <1>2, <1>4 DEF Lone, Has
<1>6. \A A, B : NotBefore(s, A, B) /\ Head(s) \in A => ~Has(Tail(s), B)
  BY <1>1, <1>2, <1>4 DEF NotBefore, Has
<1>7. Head(s) \in Elems(s)
  BY <1>1 DEF Elems
<1> QED
  BY <1>1, <1>3, <1>5, <1>6, <1>7

LEMMA EmptyProperties ==
  ASSUME NEW A, NEW B
  PROVE  ~Has(<<>>, A) /\ Lone(<<>>, A) /\ NotBefore(<<>>, A, B) /\ Elems(<<>>) = {}
BY DEF Has, Lone, NotBefore, Elems

LEMMA SingleProperties ==
  ASSUME NEW S, NEW e \in S, NEW A, NEW B
  PROVE  /\ <<e>> \in Seq(S) /\ Lone(<<e>>, A) /\ NotBefore(<<e>>, A, B)
         /\ Has(<<e>>, A) <=> e \in A
<1>1. <<e>> \in Seq(S) /\ DOMAIN <<e>> = {1} /\ <<e>>[1] = e
  OBVIOUS
<1> QED
  BY <1>1 DEF Lone, NotBefore, Has

LEMMA ChunkOfConcat ==
  ASSUME NEW S, NEW s \in Seq(S), NEW t \in Seq(S)
  PROVE  /\ Chunk(s, s) /\ Chunk(<<>>, s)
         /\ Chunk(s, s \o t) /\ Chunk(t, s \o t)
<1>1. Len(s) \in Nat /\ DOMAIN s = 1..Len(s) /\ Len(t) \in Nat /\ DOMAIN t = 1..Len(t)
      /\ Len(s \o t) = Len(s) + Len(t)
  OBVIOUS
<1>2. \A i \in 1..Len(s) : (s \o t)[i] = s[i] /\ i + 0 = i
  OBVIOUS
<1>3. \A i \in 1..Len(t) : (s \o t)[Len(s) + i] = t[i] /\ Len(s) + i = i + Len(s)
  OBVIOUS
<1>4. Chunk(s, s)
  <2>1. 0 + Len(s) <= Len(s) /\ \A i \in DOMAIN s : s[i] = s[i + 0]
    BY <1>1, <1>2
  <2> QED
    BY <2>1 DEF Chunk
<1>5. Chunk(<<>>, s)
  <2>1. 0 + Len(<<>>) <= Len(s) /\ \A i \in DOMAIN <<>> : <<>>[i] = s[i + 0]
    BY <1>1
  <2> QED
    BY <2>1 DEF Chunk
<1>6. Chunk(s, s \o t)
  <2>1. 0 + Len(s) <= Len(s \o t) /\ \A i \in DOMAIN s : s[i] = (s \o t)[i + 0]
    BY <1>1, <1>2
  <2> QED
    BY <2>1 DEF Chunk
<1>7. Chunk(t, s \o t)
  <2>1. Len(s) + Len(t) <= Len(s \o t)
        /\ \A i \in DOMAIN t : t[i] = (s \o t)[i + Len(s)]
    BY <1>1, <1>3
  <2> QED
    BY <1>1, <2>1 DEF Chunk
<1> QED
  BY <1>4, <1>5, <1>6, <1>7

LEMMA ConcatTail ==
  ASSUME NEW S, NEW s \in Seq(S), NEW t \in Seq(S), s # <<>>
  PROVE  /\ s \o t \in Seq(S) /\ s \o t # <<>>
         /\ Head(s \o t) = Head(s) /\ Tail(s \o t) = Tail(s) \o t
<1>1. /\ Len(s) \in Nat /\ Len(s) >= 1 /\ Len(t) \in Nat /\ s \o t \in Seq(S)
      /\ Len(s \o t) = Len(s) + Len(t)
      /\ \A i \in 1..(Len(s) + Len(t)) :
           (s \o t)[i] = IF i <= Len(s) THEN s[i] ELSE t[i - Len(s)]
  OBVIOUS
<1>2. s \o t # <<>>
  BY <1>1
<1>3. Head(s \o t) = Head(s)
  BY <1>1, <1>2
<1>4. /\ Tail(s \o t) \in Seq(S) /\ Len(Tail(s \o t)) = Len(s) + Len(t) - 1
      /\ \A i \in 1..(Len(s) + Len(t) - 1) : Tail(s \o t)[i] = (s \o t)[i + 1]
  BY <1>1, <1>2
<1>5. /\ Tail(s) \in Seq(S) /\ Len(Tail(s)) = Len(s) - 1
      /\ \A i \in 1..(Len(s) - 1) : Tail(s)[i] = s[i + 1]
  BY <1>1
<1>6. /\ Tail(s) \o t \in Seq(S) /\ Len(Tail(s) \o t) = Len(s) + Len(t) - 1
      /\ \A i \in 1..(Len(s) + Len(t) - 1) :
           (Tail(s) \o t)[i] = IF i <= Len(s) - 1 THEN Tail(s)[i] ELSE t[i - (Len(s) - 1)]
  BY <1>1, <1>5
<1>7. ASSUME NEW i \in 1..(Len(s) + Len(t) - 1)
      PROVE  Tail(s \o t)[i] = (Tail(s) \o t)[i]
  <2>1. i \in Int /\ 1 <= i /\ i <= Len(s) + Len(t) - 1
        /\ i + 1 \in 1..(Len(s) + Len(t)) /\ (i + 1) - Len(s) = i - (Len(s) - 1)
    BY <1>1
  <2>2. CASE i <= Len(s) - 1
    <3>1. i + 1 <= Len(s) /\ i \in 1..(Len(s) - 1)
      BY <1>1, <2>1, <2>2
    <3> QED
      BY <1>1, <1>4, <1>5, <1>6, <2>1, <2>2, <3>1
  <2>3. CASE ~(i <= Len(s) - 1)
    <3>1. ~(i + 1 <= Len(s))
      BY <1>1, <2>1, <2>3
    <3> QED
      BY <1>1, <1>4, <1>6, <2>1, <2>3, <3>1
  <2> QED
    BY <2>2, <2>3
<1>8. Tail(s \o t) = Tail(s) \o t
  BY <1>1, <1>4, <1>6, <1>7
<1> QED
  BY <1>1, <1>2, <1>3, <1>8

-----------------------------------------------------------------------------
(* The line.  What the client sends passes from the batch to the           *)
(* connection; what the broker answers, from the connection to the chunk.  *)

Upward   == c2s \o out
Downward == inb \o s2c

(* The packets of the queue.                                               *)
Packets(s) == [i \in DOMAIN s |-> s[i].b]

(* There is a batch only while it is sent, a chunk only while it is        *)
(* handled.                                                                *)
AtRest ==
  /\ pc # "incoming" => inb = <<>>
  /\ pc # "send" => out = <<>>

LEMMA AtRestStep ==
  ASSUME AtRest, [Next]_vars
  PROVE  AtRest'
<1>1. CASE MainLoop
  BY <1>1 DEF AtRest, MainLoop, TcpConnect, Hello, Outgoing, Send, RecvData, RecvTimeout,
     RecvEnd, IncomingEnd, HandlePacket, OnConnack, OnPublish, OnAck, OnPubrec, OnPubrel,
     OnUnsuback, OnSuback, OnPingresp, Handle, Rejected, Elapsed, ElapsedPingLost,
     ElapsedCheck, Close
<1>2. CASE Environment
  BY <1>2 DEF AtRest, Environment, Publish, Unsubscribe, BrokerRecv, BrokerAccept,
     BrokerRefuse, BrokerClose, BrokerPublished, BrokerReleased, BrokerPinged,
     BrokerSubscribed, BrokerUnsubscribed, BrokerAcked, BrokerSend, Drop, loop
<1>3. CASE UNCHANGED vars
  BY <1>3 DEF AtRest, vars, loop
<1> QED
  BY <1>1, <1>2, <1>3 DEF Next

LEMMA LineType ==
  ASSUME TypeOK
  PROVE  /\ Upward \in Seq(Packet) /\ Downward \in Seq(Packet)
         /\ Packets(padding) \in Seq(Packet) /\ DOMAIN Packets(padding) = DOMAIN padding
         /\ \A i \in DOMAIN padding : Packets(padding)[i] = padding[i].b
                                      /\ padding[i] \in Node /\ padding[i].b \in Packet
<1>1. \A i \in DOMAIN padding : padding[i] \in Node /\ padding[i].b \in Packet
  <2>1. \A i \in DOMAIN padding : padding[i] \in Node
    BY ElementOfSeq DEF TypeOK
  <2> QED
    BY <2>1 DEF Node
<1>2. Packets(padding) \in [DOMAIN padding -> Packet]
  BY <1>1 DEF Packets
<1>3. Packets(padding) \in Seq(Packet)
  BY <1>2, MapType DEF TypeOK
<1>4. Upward \in Seq(Packet) /\ Downward \in Seq(Packet)
  BY DEF Upward, Downward, TypeOK
<1> QED
  BY <1>1, <1>3, <1>4 DEF Packets

(* The broker reads the next packet and answers.                           *)
Reads ==
  \/ BrokerAccept \/ BrokerPublished \/ BrokerReleased \/ BrokerPinged
  \/ BrokerSubscribed \/ BrokerUnsubscribed \/ BrokerAcked

(* Packets of three places of the line, one after the other.              *)
LEMMA PacketsInARow ==
  ASSUME NEW s \in Seq(Packet), NEW t \in Seq(Packet), NEW u \in Seq(Packet)
  PROVE  s \o (t \o u) = (s \o t) \o u
  BY ConcatAssociative

LEMMA ReadMoves ==
  ASSUME TypeOK, c2s # <<>>, NEW r \in Seq(Packet), Replies(r), UNCHANGED <<out, inb>>
  PROVE  /\ Upward # <<>> /\ Head(Upward) = Head(c2s) /\ Upward' = Tail(Upward)
         /\ Downward' = Downward \o r
<1>1. c2s \in Seq(Packet) /\ out \in Seq(Packet) /\ inb \in Seq(Packet) /\ s2c \in Seq(Packet)
  BY DEF TypeOK
<1>2. c2s' = Tail(c2s) /\ s2c' = s2c \o r /\ out' = out /\ inb' = inb
  BY DEF Replies
<1>3. inb \o (s2c \o r) = (inb \o s2c) \o r
  BY <1>1, PacketsInARow
<1> QED
  BY <1>1, <1>2, <1>3, ConcatTail DEF Upward, Downward

(* mqtt_cli_incoming handles the next packet of the chunk.                 *)
LEMMA HandleMoves ==
  ASSUME TypeOK, NEW types, Handle(types)
  PROVE  /\ Downward # <<>> /\ Head(Downward) = Head(inb) /\ Downward' = Tail(Downward)
         /\ Upward' = Upward /\ Head(inb) \in Packet
<1>1. inb \in Seq(Packet) /\ s2c \in Seq(Packet) /\ inb # <<>>
  BY DEF TypeOK, Handle
<1>2. inb' = Tail(inb) /\ s2c' = s2c /\ c2s' = c2s /\ out' = out
  BY DEF Handle
<1> QED
  BY <1>1, <1>2, ConcatTail DEF Upward, Downward

LEMMA OutgoingMoves ==
  ASSUME TypeOK, AtRest, Outgoing
  PROVE  /\ Upward' = Upward \o Batch(padding) /\ Batch(padding) \in Seq(Packet)
         /\ Downward' = Downward
<1>1. c2s \in Seq(Packet) /\ out = <<>> /\ Batch(padding) \in Seq(Packet)
  BY BatchType DEF TypeOK, AtRest, Outgoing
<1>2. out' = Batch(padding) /\ c2s' = c2s /\ inb' = inb /\ s2c' = s2c
  BY DEF Outgoing
<1>3. c2s \o out = c2s
  BY <1>1, ConcatEmptySeq
<1> QED
  BY <1>1, <1>2, <1>3 DEF Upward, Downward

LEMMA PartsAreChunks ==
  ASSUME NEW S, NEW s \in Seq(S), NEW t \in Seq(S),
         NEW u \in {s, <<>>}, NEW v \in {t, <<>>}
  PROVE  u \o v \in Seq(S) /\ Chunk(u \o v, s \o t)
<1>1. /\ <<>> \in Seq(S) /\ s \o t \in Seq(S)
      /\ s \o <<>> = s /\ <<>> \o t = t /\ <<>> \o <<>> = <<>>
  BY ConcatEmptySeq
<1>2. Chunk(s \o t, s \o t) /\ Chunk(<<>>, s \o t) /\ Chunk(s, s \o t) /\ Chunk(t, s \o t)
  BY <1>1, ChunkOfConcat
<1>3. (u = s \/ u = <<>>) /\ (v = t \/ v = <<>>)
  OBVIOUS
<1> QED
  BY <1>1, <1>2, <1>3

(* Every other step moves packets on, or loses some.                       *)
Speaks == BrokerRefuse \/ \E q \in InQos : BrokerSend(q)

LEMMA LineLoses ==
  ASSUME TypeOK, AtRest, [Next]_vars, ~Outgoing, ~Reads, ~Speaks,
         \A types : ~Handle(types)
  PROVE  Chunk(Upward', Upward) /\ Chunk(Downward', Downward)
<1>1. c2s \in Seq(Packet) /\ out \in Seq(Packet) /\ inb \in Seq(Packet) /\ s2c \in Seq(Packet)
  BY DEF TypeOK
<1>2. Upward \in Seq(Packet) /\ Downward \in Seq(Packet)
  BY LineType
<1>3. Chunk(Upward, Upward) /\ Chunk(Downward, Downward)
  BY <1>2, ChunkOfConcat
<1>4. CASE Send
  <2>1. Downward' = Downward
    BY <1>4 DEF Send, Downward
  <2>2. out' = <<>> /\ c2s' \in {c2s \o out, c2s}
    BY <1>4 DEF Send
  <2>3. Upward' \in {Upward, c2s}
    BY <1>1, <1>2, <2>2, ConcatEmptySeq DEF Upward
  <2>4. Chunk(c2s, Upward)
    BY <1>1, ChunkOfConcat DEF Upward
  <2> QED
    BY <1>3, <2>1, <2>3, <2>4
<1>5. CASE RecvData
  <2>1. Upward' = Upward
    BY <1>5 DEF RecvData, Upward
  <2>2. PICK k \in 1..Len(s2c) : /\ inb' = SubSeq(s2c, 1, k)
                                 /\ s2c' = SubSeq(s2c, k + 1, Len(s2c))
    BY <1>5 DEF RecvData
  <2>3. Len(s2c) \in Nat /\ 1 \in 1..Len(s2c) + 1 /\ k \in 1 - 1..Len(s2c)
        /\ Len(s2c) \in k..Len(s2c)
    BY <1>1
  <2>4. SubSeq(s2c, 1, k) \o SubSeq(s2c, k + 1, Len(s2c)) = SubSeq(s2c, 1, Len(s2c))
    BY <1>1, <2>3, ConcatAdjacentSubSeq
  <2>5. inb' \o s2c' = s2c
    BY <1>1, <2>2, <2>4, SubSeqFull
  <2>6. inb = <<>> /\ inb \o s2c = s2c
    BY <1>1, <1>5, ConcatEmptySeq DEF AtRest, RecvData
  <2> QED
    BY <1>3, <2>1, <2>5, <2>6 DEF Downward
<1>6. ASSUME c2s' \in {c2s, <<>>}, out' \in {out, <<>>},
             s2c' \in {s2c, <<>>}, inb' \in {inb, <<>>}
      PROVE  Chunk(Upward', Upward) /\ Chunk(Downward', Downward)
  <2>1. Chunk(c2s' \o out', c2s \o out)
    BY <1>1, <1>6, PartsAreChunks
  <2>2. Chunk(inb' \o s2c', inb \o s2c)
    BY <1>1, <1>6, PartsAreChunks
  <2> QED
    BY <2>1, <2>2 DEF Upward, Downward
<1>7. ~HandlePacket \/ Rejected
  BY DEF HandlePacket, OnConnack, OnPublish, OnAck, OnPubrec, OnPubrel, OnUnsuback,
     OnSuback, OnPingresp
<1>8. CASE \/ TcpConnect \/ Hello \/ RecvTimeout \/ RecvEnd \/ IncomingEnd \/ Rejected
           \/ Elapsed \/ Close
  BY <1>6, <1>8 DEF TcpConnect, Hello, RecvTimeout, RecvEnd, IncomingEnd, Rejected, Elapsed,
     ElapsedPingLost, ElapsedCheck, Close
<1>9. CASE \/ (\E q \in QosUsed : Publish(q)) \/ Unsubscribe \/ BrokerClose \/ Drop
           \/ UNCHANGED vars
  BY <1>6, <1>9 DEF Publish, Unsubscribe, BrokerClose, Drop, vars, loop
<1> QED
  BY <1>4, <1>5, <1>7, <1>8, <1>9 DEF Next, MainLoop, Environment, BrokerRecv, Reads, Speaks

(* A message for the subscriber, or a refusal.                             *)
LEMMA SpeaksMoves ==
  ASSUME TypeOK, Speaks
  PROVE  /\ Chunk(Upward', Upward)
         /\ \E p \in Packet :
              /\ Downward' = Downward \o <<p>>
              /\ \/ BrokerRefuse /\ p.type = "REFUSED"
                 \/ \E q \in InQos : /\ BrokerSend(q)
                                     /\ p.type = "PUBLISH" /\ p.qos = q
                                     /\ p.id = IF q = 0 THEN 0 ELSE ins + 1
<1>1. c2s \in Seq(Packet) /\ out \in Seq(Packet) /\ inb \in Seq(Packet) /\ s2c \in Seq(Packet)
  BY DEF TypeOK
<1>2. c2s' \in {c2s, <<>>} /\ out' = out /\ inb' = inb
  BY DEF Speaks, BrokerRefuse, BrokerSend, loop
<1>3. Chunk(Upward', Upward)
  <2>1. Chunk(c2s' \o out', c2s \o out)
    BY <1>1, <1>2, PartsAreChunks
  <2> QED
    BY <2>1 DEF Upward
<1>4. ASSUME NEW p \in Packet, s2c' = Append(s2c, p)
      PROVE  Downward' = Downward \o <<p>>
  <2>1. s2c' = s2c \o <<p>> /\ <<p>> \in Seq(Packet)
    BY <1>1, <1>4, AppendIsConcat
  <2>2. (inb \o s2c) \o <<p>> = inb \o (s2c \o <<p>>)
    BY <1>1, <2>1, PacketsInARow
  <2> QED
    BY <1>2, <2>1, <2>2 DEF Downward
<1>5. CASE BrokerRefuse
  <2>1. Pkt("REFUSED", 0) \in Packet /\ Pkt("REFUSED", 0).type = "REFUSED"
    BY PktType DEF PacketTypes, Pkt
  <2>2. s2c' = Append(s2c, Pkt("REFUSED", 0))
    BY <1>5 DEF BrokerRefuse
  <2> QED
    BY <1>3, <1>4, <1>5, <2>1, <2>2
<1>6. ASSUME NEW q \in InQos, BrokerSend(q)
      PROVE  \E p \in Packet : /\ Downward' = Downward \o <<p>>
                               /\ p.type = "PUBLISH" /\ p.qos = q
                               /\ p.id = IF q = 0 THEN 0 ELSE ins + 1
  <2> DEFINE id == IF q = 0 THEN 0 ELSE ins + 1
             p  == [Pkt("PUBLISH", id) EXCEPT !.qos = q]
  <2>1. id \in Nat /\ q \in 0..2
    BY SizeAssumption DEF TypeOK
  <2>2. s2c' = Append(s2c, p)
    BY <1>6 DEF BrokerSend
  <2>3. id = IF q = 0 THEN 0 ELSE ins + 1
    OBVIOUS
  <2> HIDE DEF id
  <2>4. Pkt("PUBLISH", id) \in Packet
    BY <2>1, PktType DEF PacketTypes
  <2>5. p \in Packet
    BY <2>1, <2>4 DEF Packet
  <2>6. p.type = "PUBLISH" /\ p.qos = q /\ p.id = id
    BY DEF Pkt
  <2> HIDE DEF p
  <2> QED
    BY <1>4, <2>2, <2>3, <2>5, <2>6
<1> QED
  BY <1>3, <1>5, <1>6 DEF Speaks

-----------------------------------------------------------------------------
(* The queue.  Whatever a step does to the packets that are there already, *)
(* it drops some and may set DUP, and keeps their order.                   *)
Thins(s, t) ==
  \E f \in [DOMAIN s -> DOMAIN t] :
    /\ \A i \in DOMAIN s : Same(s[i], t[f[i]])
    /\ \A i, j \in DOMAIN s : i < j => f[i] < f[j]

(* A set of packets that has a packet whatever its DUP flag.               *)
DupBlind(A) == \A a, b \in Packet : Same(a, b) => (a \in A <=> b \in A)

LEMMA ThinsProperties ==
  ASSUME NEW s \in Seq(Packet), NEW t \in Seq(Packet), Thins(s, t),
         NEW A, NEW B, DupBlind(A), DupBlind(B)
  PROVE  /\ Has(s, A) => Has(t, A)
         /\ Lone(t, A) => Lone(s, A)
         /\ NotBefore(t, A, B) => NotBefore(s, A, B)
<1>1. PICK f \in [DOMAIN s -> DOMAIN t] :
        /\ \A i \in DOMAIN s : Same(s[i], t[f[i]])
        /\ \A i, j \in DOMAIN s : i < j => f[i] < f[j]
  BY DEF Thins
<1>2. \A i \in DOMAIN s : s[i] \in Packet /\ f[i] \in DOMAIN t /\ i \in Int /\ f[i] \in Int
  <2>1. DOMAIN s = 1..Len(s) /\ DOMAIN t = 1..Len(t)
    OBVIOUS
  <2> QED
    BY <1>1, <2>1, ElementOfSeq
<1>3. \A i \in DOMAIN t : t[i] \in Packet
  BY ElementOfSeq
<1>4. \A i \in DOMAIN s : (s[i] \in A => t[f[i]] \in A) /\ (s[i] \in B => t[f[i]] \in B)
  BY <1>1, <1>2, <1>3 DEF DupBlind
<1>5. Has(s, A) => Has(t, A)
  BY <1>2, <1>4 DEF Has
<1>6. ASSUME Lone(t, A), NEW i \in DOMAIN s, NEW j \in DOMAIN s, s[i] \in A, s[j] \in A
      PROVE  i = j
  <2>1. f[i] = f[j]
    BY <1>2, <1>4, <1>6 DEF Lone
  <2>2. ~(i < j) /\ ~(j < i)
    BY <1>1, <1>2, <2>1
  <2> QED
    BY <1>2, <2>2
<1>7. ASSUME NotBefore(t, A, B), NEW i \in DOMAIN s, NEW j \in DOMAIN s,
             s[i] \in A, s[j] \in B, i < j
      PROVE  FALSE
  <2>1. f[i] < f[j]
    BY <1>1, <1>7
  <2> QED
    BY <1>2, <1>4, <1>7, <2>1 DEF NotBefore
<1>8. Lone(t, A) => Lone(s, A)
  BY <1>6 DEF Lone
<1>9. NotBefore(t, A, B) => NotBefore(s, A, B)
  BY <1>7 DEF NotBefore
<1> QED
  BY <1>5, <1>8, <1>9

LEMMA ThinsTransitive ==
  ASSUME NEW s, NEW t, NEW u, Thins(s, t), Thins(t, u)
  PROVE  Thins(s, u)
<1>1. PICK f \in [DOMAIN s -> DOMAIN t] :
        /\ \A i \in DOMAIN s : Same(s[i], t[f[i]])
        /\ \A i, j \in DOMAIN s : i < j => f[i] < f[j]
  BY DEF Thins
<1>2. PICK g \in [DOMAIN t -> DOMAIN u] :
        /\ \A i \in DOMAIN t : Same(t[i], u[g[i]])
        /\ \A i, j \in DOMAIN t : i < j => g[i] < g[j]
  BY DEF Thins
<1> DEFINE h == [i \in DOMAIN s |-> g[f[i]]]
<1>3. h \in [DOMAIN s -> DOMAIN u] /\ \A i \in DOMAIN s : h[i] = g[f[i]]
  BY <1>1, <1>2
<1>4. \A i \in DOMAIN s : Same(s[i], u[h[i]])
  BY <1>1, <1>2, <1>3 DEF Same
<1>5. \A i, j \in DOMAIN s : i < j => h[i] < h[j]
  BY <1>1, <1>2, <1>3
<1> HIDE DEF h
<1> QED
  BY <1>3, <1>4, <1>5 DEF Thins

LEMMA PacketsType ==
  ASSUME NEW s \in Seq(Node)
  PROVE  /\ Packets(s) \in Seq(Packet) /\ DOMAIN Packets(s) = DOMAIN s
         /\ \A i \in DOMAIN s : Packets(s)[i] = s[i].b
<1>1. \A i \in DOMAIN s : s[i].b \in Packet
  <2>1. \A i \in DOMAIN s : s[i] \in Node
    BY ElementOfSeq
  <2> QED
    BY <2>1 DEF Node
<1>2. Packets(s) \in [DOMAIN s -> Packet]
  BY <1>1 DEF Packets
<1> QED
  BY <1>2, MapType DEF Packets

LEMMA ThinsKeep ==
  ASSUME NEW s \in Seq(Node), NEW K \in SUBSET (DOMAIN s)
  PROVE  Thins(Packets(KeepAt(s, K)), Packets(s))
<1> DEFINE u == KeepAt(s, K)
           f == [j \in DOMAIN u |-> Nth(K, j)]
<1>1. /\ u \in Seq(Node) /\ DOMAIN u = 1..Cardinality(K)
      /\ \A j \in DOMAIN u : Nth(K, j) \in K /\ u[j] = s[Nth(K, j)]
  <2>1. u \in Seq(Node) /\ Len(u) = Cardinality(K)
    BY KeepAtProperties
  <2>2. \A j \in DOMAIN u : Nth(K, j) \in K /\ u[j] = s[Nth(K, j)]
    BY KeepAtProperties
  <2> HIDE DEF u
  <2> QED
    BY <2>1, <2>2
<1>2. \A i, j \in DOMAIN u : i < j => Nth(K, i) < Nth(K, j)
  <2>1. Len(s) \in Nat /\ K \in SUBSET (1..Len(s))
    OBVIOUS
  <2> HIDE DEF u
  <2> QED
    BY <1>1, <2>1, NthMonotone
<1> HIDE DEF u
<1>3. /\ DOMAIN Packets(u) = DOMAIN u /\ DOMAIN Packets(s) = DOMAIN s
      /\ \A i \in DOMAIN u : Packets(u)[i] = u[i].b
      /\ \A i \in DOMAIN s : Packets(s)[i] = s[i].b
  BY <1>1, PacketsType
<1>4. f \in [DOMAIN u -> DOMAIN s] /\ \A j \in DOMAIN u : f[j] = Nth(K, j)
  BY <1>1
<1> HIDE DEF f
<1>5. \A j \in DOMAIN u : Same(Packets(u)[j], Packets(s)[f[j]])
  BY <1>1, <1>3, <1>4 DEF Same
<1>6. Thins(Packets(u), Packets(s))
  BY <1>2, <1>3, <1>4, <1>5 DEF Thins
<1> QED
  BY <1>6 DEF u

LEMMA ThinsMap ==
  ASSUME NEW s \in Seq(Node), NEW p \in Seq(Node), DOMAIN p = DOMAIN s,
         \A i \in DOMAIN s : Same(p[i].b, s[i].b)
  PROVE  Thins(Packets(p), Packets(s))
<1> DEFINE f == [i \in DOMAIN s |-> i]
<1>1. /\ DOMAIN Packets(p) = DOMAIN s /\ DOMAIN Packets(s) = DOMAIN s
      /\ \A i \in DOMAIN s : Packets(p)[i] = p[i].b /\ Packets(s)[i] = s[i].b
  BY PacketsType
<1>2. f \in [DOMAIN s -> DOMAIN s] /\ \A i \in DOMAIN s : f[i] = i
  OBVIOUS
<1> HIDE DEF f
<1> QED
  BY <1>1, <1>2 DEF Thins

LEMMA ConcatOne ==
  ASSUME NEW S, NEW q \in Seq(S), NEW e \in S
  PROVE  /\ q \o <<e>> \in Seq(S) /\ Len(q \o <<e>>) = Len(q) + 1
         /\ (q \o <<e>>)[Len(q) + 1] = e
         /\ \A i \in 1..Len(q) : (q \o <<e>>)[i] = q[i]
OBVIOUS

LEMMA PacketsAppend ==
  ASSUME NEW s \in Seq(Node), NEW b \in Packet
  PROVE  Packets(AppendPadding(s, b)) = Packets(s) \o <<b>>
<1> DEFINE u == AppendPadding(s, b)
<1>1. /\ u \in Seq(Node) /\ Len(u) = Len(s) + 1 /\ u[Len(s) + 1] = NewNode(b)
      /\ \A i \in 1..Len(s) : u[i] = s[i]
  BY AppendPaddingType DEF AppendPadding
<1>2. NewNode(b).b = b
  BY PlainNew
<1> DEFINE q == Packets(s)
           r == Packets(u)
<1> HIDE DEF u
<1>3. /\ r \in Seq(Packet) /\ DOMAIN r = DOMAIN u /\ \A i \in DOMAIN u : r[i] = u[i].b
      /\ q \in Seq(Packet) /\ DOMAIN q = DOMAIN s /\ \A i \in DOMAIN s : q[i] = s[i].b
  BY <1>1, PacketsType
<1> HIDE DEF q, r
<1>4. Len(s) \in Nat /\ DOMAIN s = 1..Len(s) /\ DOMAIN u = 1..(Len(s) + 1)
      /\ Len(q) = Len(s) /\ Len(r) = Len(s) + 1
  BY <1>1, <1>3
<1>5. /\ q \o <<b>> \in Seq(Packet) /\ Len(q \o <<b>>) = Len(s) + 1
      /\ (q \o <<b>>)[Len(s) + 1] = b
      /\ \A i \in 1..Len(s) : (q \o <<b>>)[i] = q[i]
  <2>1. /\ q \o <<b>> \in Seq(Packet) /\ Len(q \o <<b>>) = Len(q) + 1
        /\ (q \o <<b>>)[Len(q) + 1] = b
        /\ \A i \in 1..Len(q) : (q \o <<b>>)[i] = q[i]
    <3>1. q \in Seq(Packet)
      BY <1>3
    <3> QED
      BY ONLY <3>1, ConcatOne, b \in Packet
  <2> QED
    BY <1>4, <2>1
<1>6. ASSUME NEW i \in 1..(Len(s) + 1)
      PROVE  r[i] = (q \o <<b>>)[i]
  <2>1. i \in 1..Len(s) \/ i = Len(s) + 1
    BY <1>4
  <2> QED
    BY <1>1, <1>2, <1>3, <1>4, <1>5, <2>1
<1>7. r = q \o <<b>>
  BY <1>3, <1>4, <1>5, <1>6
<1> QED
  BY <1>7 DEF u, q, r

(* What a step may add to the queue, always at its end.                    *)
Exchanging == {"PUBLISH", "PUBREL", "PUBACK", "PUBREC", "PUBCOMP"}

Newcomer(b) ==
  \/ \E q \in QosUsed : /\ Publish(q) /\ b.type = "PUBLISH" /\ b.qos = q /\ ~b.dup
                        /\ b.msg = Len(accepted) + 1
                        /\ b.id = IF q > 0 THEN NextId ELSE 0
  \/ OnPubrec /\ b.type = "PUBREL" /\ b.id = Head(inb).id
  \/ OnPublish /\ Head(inb).qos > 0 /\ b.type = Reply[Head(inb).qos] /\ b.id = Head(inb).id
  \/ OnPubrel /\ b.type = "PUBCOMP" /\ b.id = Head(inb).id
  \/ Hello /\ b.type = "CONNECT"
  \/ b.type \notin Exchanging \cup {"CONNECT"}

(* Every step but OnAck, OnPubrec, Outgoing and Elapsed.                   *)
LEMMA QueueAdds ==
  ASSUME TypeOK, [Next]_vars, ~OnAck, ~OnPubrec, ~Outgoing, ~Elapsed
  PROVE  \/ UNCHANGED padding
         \/ \E b \in Packet : Newcomer(b) /\ padding' = AppendPadding(padding, b)
<1> DEFINE Adds == \E b \in Packet : Newcomer(b) /\ padding' = AppendPadding(padding, b)
<1>1. \A type \in PacketTypes, id \in Nat :
        Pkt(type, id) \in Packet /\ Pkt(type, id).type = type /\ Pkt(type, id).id = id
  BY PktType DEF Pkt
<1>2. \A type \in PacketTypes \ (Exchanging \cup {"CONNECT"}), id \in Nat :
        Pkt(type, id) \in Packet /\ Newcomer(Pkt(type, id))
  BY <1>1 DEF Newcomer
<1>3. NextId \in Nat
  BY NextIdType DEF TypeOK
<1>4. ASSUME NEW q \in QosUsed, Publish(q) PROVE Adds
  <2>1. PICK b \in Packet :
          /\ padding' = AppendPadding(padding, b)
          /\ b.type = "PUBLISH" /\ b.qos = q /\ b.msg = Len(accepted) + 1 /\ ~b.dup
          /\ b.id = IF q > 0 THEN NextId ELSE 0
    BY <1>4, PublishPacket
  <2>2. Newcomer(b)
    BY <1>4, <2>1 DEF Newcomer
  <2> QED
    BY <2>1, <2>2
<1>5. ASSUME Unsubscribe PROVE Adds
  BY <1>2, <1>3, <1>5 DEF Unsubscribe, PacketTypes, Exchanging
<1>6. ASSUME Hello PROVE Adds
  <2>1. Pkt("CONNECT", 0) \in Packet /\ Newcomer(Pkt("CONNECT", 0))
    BY <1>1, <1>6 DEF Newcomer, PacketTypes
  <2> QED
    BY <1>6, <2>1 DEF Hello
<1>7. ASSUME OnConnack PROVE Adds \/ UNCHANGED padding
  BY <1>2, <1>3, <1>7 DEF OnConnack, PacketTypes, Exchanging
<1>8. ASSUME OnPublish PROVE Adds \/ UNCHANGED padding
  <2>1. Head(inb) \in Packet
    BY <1>8, HandleType DEF OnPublish
  <2>2. Head(inb).qos \in {0, 1, 2} /\ Head(inb).id \in Nat
    BY <2>1 DEF Packet
  <2>3. Head(inb).qos # 0 => Reply[Head(inb).qos] \in PacketTypes
    BY <2>2 DEF Reply, PacketTypes
  <2>4. CASE Head(inb).qos # 0
    <3> DEFINE b == Pkt(Reply[Head(inb).qos], Head(inb).id)
    <3>1. b \in Packet /\ b.type = Reply[Head(inb).qos] /\ b.id = Head(inb).id
      BY <1>1, <2>2, <2>3, <2>4
    <3>2. padding' = AppendPadding(padding, b)
      BY <1>8, <2>4 DEF OnPublish
    <3> HIDE DEF b
    <3>3. Newcomer(b)
      BY <1>8, <2>2, <2>4, <3>1 DEF Newcomer
    <3> QED
      BY <3>1, <3>2, <3>3
  <2> QED
    BY <1>8, <2>4 DEF OnPublish
<1>9. ASSUME OnPubrel PROVE Adds
  <2>1. Head(inb).id \in Nat
    BY <1>9, HandleType DEF OnPubrel, Packet
  <2> DEFINE b == Pkt("PUBCOMP", Head(inb).id)
  <2>2. b \in Packet /\ b.type = "PUBCOMP" /\ b.id = Head(inb).id
    BY <1>1, <2>1 DEF PacketTypes
  <2>3. padding' = AppendPadding(padding, b)
    BY <1>9 DEF OnPubrel
  <2> HIDE DEF b
  <2> QED
    BY <1>9, <2>2, <2>3 DEF Newcomer
<1>10. ASSUME OnUnsuback PROVE Adds \/ UNCHANGED padding
  BY <1>2, <1>10 DEF OnUnsuback, PacketTypes, Exchanging
<1>11. ASSUME \/ TcpConnect \/ Send \/ RecvData \/ RecvTimeout \/ RecvEnd
              \/ IncomingEnd \/ OnSuback \/ OnPingresp \/ Rejected \/ Close
       PROVE  UNCHANGED padding
  BY <1>11 DEF TcpConnect, Send, RecvData, RecvTimeout, RecvEnd, IncomingEnd,
     OnSuback, OnPingresp, Rejected, Close, client
<1>12. ASSUME BrokerRecv \/ Drop \/ (\E q \in InQos : BrokerSend(q)) \/ UNCHANGED vars
       PROVE  UNCHANGED padding
  BY <1>12 DEF BrokerRecv, BrokerAccept, BrokerRefuse, BrokerClose, BrokerPublished,
     BrokerReleased, BrokerPinged, BrokerSubscribed, BrokerUnsubscribed, BrokerAcked,
     BrokerSend, Drop, client, vars
<1> HIDE DEF Adds
<1>13. CASE MainLoop
  BY <1>6, <1>7, <1>8, <1>9, <1>10, <1>11, <1>13 DEF MainLoop, HandlePacket, Adds
<1>14. CASE Environment
  BY <1>4, <1>5, <1>12, <1>14 DEF Environment, Adds
<1> QED
  BY <1>12, <1>13, <1>14 DEF Next, Adds

(* mqtt_cli_elapsed: the packets that were there, and perhaps a PINGREQ.   *)
LEMMA ElapsedPackets ==
  ASSUME TypeOK, Elapsed
  PROVE  \E s \in Seq(Node) :
           /\ \/ s = padding
              \/ \E b \in Packet : Newcomer(b) /\ s = AppendPadding(padding, b)
           /\ padding' \in Seq(Node) /\ DOMAIN padding' = DOMAIN s
           /\ \A i \in DOMAIN s : Same(padding'[i].b, s[i].b)
<1>1. PICK t \in 0..MaxDelta : ElapsedPingLost(t) \/ ElapsedCheck(t)
  <2>1. \A t \in Durations : t \in 0..MaxDelta
    BY TimeAssumption DEF Durations
  <2> QED
    BY <2>1 DEF Elapsed
<1> DEFINE aged == AgeAll(padding, t)
           ping == Pkt("PINGREQ", 0)
           s == IF PingDue(t) THEN AppendPadding(padding, ping) ELSE padding
           a == IF PingDue(t) THEN AppendPadding(aged, ping) ELSE aged
<1>2. aged \in Seq(Node) /\ ping \in Packet /\ Newcomer(ping) /\ padding \in Seq(Node)
  <2>1. ping \in Packet /\ ping.type = "PINGREQ"
    BY PktType DEF PacketTypes, Pkt
  <2> QED
    BY <2>1, AgeAllType DEF TypeOK, Newcomer, Exchanging
<1>3. DOMAIN aged = DOMAIN padding /\ \A i \in DOMAIN aged : aged[i].b = padding[i].b
  <2>1. DOMAIN aged = DOMAIN padding
    BY DEF AgeAll
  <2> QED
    BY <2>1, AgedNode
<1>4. padding' = aged \/ padding' = CheckPadding(a)
  BY <1>1 DEF ElapsedPingLost, ElapsedCheck
<1> HIDE DEF aged, ping
<1>5. a \in Seq(Node) /\ s \in Seq(Node)
      /\ (s = padding \/ \E b \in Packet : Newcomer(b) /\ s = AppendPadding(padding, b))
  BY <1>2, AppendPaddingType
<1>6. DOMAIN a = DOMAIN s /\ \A i \in DOMAIN a : a[i].b = s[i].b
  <2>1. CASE PingDue(t)
    <3>1. Len(aged) = Len(padding) /\ Len(aged) \in Nat
      BY <1>2, <1>3
    <3>2. AppendPadding(aged, ping) = Append(aged, NewNode(ping))
          /\ AppendPadding(padding, ping) = Append(padding, NewNode(ping))
      BY DEF AppendPadding
    <3> DEFINE n == NewNode(ping)
    <3> HIDE DEF n
    <3>3. DOMAIN Append(aged, n) = DOMAIN Append(padding, n)
          /\ \A i \in DOMAIN Append(aged, n) : Append(aged, n)[i].b = Append(padding, n)[i].b
      BY <1>2, <1>3, <3>1
    <3> QED
      BY <2>1, <3>2, <3>3 DEF n
  <2>2. CASE ~PingDue(t)
    BY <1>3, <2>2
  <2> QED
    BY <2>1, <2>2
<1> HIDE DEF s, a
<1>7. ASSUME NEW i \in DOMAIN a PROVE Same(CheckPadding(a)[i].b, a[i].b)
  <2>1. a[i] \in Node
    BY <1>5, ElementOfSeq
  <2>2. a[i].ttl > 0 => Retry(a[i]).b.id = a[i].b.id
    BY <2>1 DEF Retry, Node, Packet
  <2> QED
    BY <2>1, <2>2, RetriedNode DEF CheckPadding, TimedOut, Same
<1>8. DOMAIN CheckPadding(a) = DOMAIN a /\ CheckPadding(a) \in Seq(Node)
  BY <1>5, CheckPaddingType DEF CheckPadding
<1>9. CASE padding' = aged
  <2>1. \A i \in DOMAIN padding : Same(padding'[i].b, padding[i].b)
    BY <1>3, <1>9 DEF Same
  <2> QED
    BY <1>2, <1>3, <1>9, <2>1
<1>10. CASE padding' = CheckPadding(a)
  <2>1. DOMAIN padding' = DOMAIN s /\ padding' \in Seq(Node)
        /\ \A i \in DOMAIN s : Same(padding'[i].b, s[i].b)
    BY <1>6, <1>7, <1>8, <1>10
  <2> QED
    BY <1>5, <2>1
<1> QED
  BY <1>4, <1>9, <1>10

LEMMA ThinsSelf ==
  ASSUME NEW s \in Seq(Packet)
  PROVE  Thins(s, s)
<1> DEFINE f == [i \in DOMAIN s |-> i]
<1>1. f \in [DOMAIN s -> DOMAIN s] /\ \A i \in DOMAIN s : f[i] = i /\ Same(s[i], s[f[i]])
  BY DEF Same
<1> HIDE DEF f
<1> QED
  BY <1>1 DEF Thins

LEMMA ThinsAppend ==
  ASSUME NEW s \in Seq(Packet), NEW t \in Seq(Packet), Thins(s, t), NEW b \in Packet
  PROVE  Thins(s \o <<b>>, t \o <<b>>)
<1>1. PICK f \in [DOMAIN s -> DOMAIN t] :
        /\ \A i \in DOMAIN s : Same(s[i], t[f[i]])
        /\ \A i, j \in DOMAIN s : i < j => f[i] < f[j]
  BY DEF Thins
<1> DEFINE u == s \o <<b>>
           v == t \o <<b>>
           g == [i \in DOMAIN u |-> IF i \in DOMAIN s THEN f[i] ELSE Len(t) + 1]
<1>2. /\ u \in Seq(Packet) /\ Len(u) = Len(s) + 1 /\ u[Len(s) + 1] = b
      /\ \A i \in 1..Len(s) : u[i] = s[i]
  BY ConcatOne
<1>3. /\ v \in Seq(Packet) /\ Len(v) = Len(t) + 1 /\ v[Len(t) + 1] = b
      /\ \A i \in 1..Len(t) : v[i] = t[i]
  BY ConcatOne
<1> HIDE DEF u, v
<1>4. /\ Len(s) \in Nat /\ DOMAIN s = 1..Len(s) /\ DOMAIN u = 1..(Len(s) + 1)
      /\ Len(t) \in Nat /\ DOMAIN t = 1..Len(t) /\ DOMAIN v = 1..(Len(t) + 1)
  BY <1>2, <1>3
<1>5. \A i \in DOMAIN u : i \in DOMAIN s \/ (i = Len(s) + 1 /\ i \notin DOMAIN s)
  BY <1>4
<1>6. /\ \A i \in DOMAIN s : f[i] \in DOMAIN t /\ f[i] \in DOMAIN v /\ i \in DOMAIN u
      /\ Len(t) + 1 \in DOMAIN v
      /\ \A k \in DOMAIN t : k < Len(t) + 1
      /\ \A k \in DOMAIN s : ~(Len(s) + 1 < k)
      /\ ~(Len(s) + 1 < Len(s) + 1)
  BY <1>1, <1>4
<1>7. g \in [DOMAIN u -> DOMAIN v]
      /\ \A i \in DOMAIN u : g[i] = IF i \in DOMAIN s THEN f[i] ELSE Len(t) + 1
  BY <1>6
<1> HIDE DEF g
<1>8. ASSUME NEW i \in DOMAIN u PROVE Same(u[i], v[g[i]])
  <2>1. CASE i \in DOMAIN s
    <3>1. g[i] = f[i] /\ u[i] = s[i] /\ v[f[i]] = t[f[i]] /\ Same(s[i], t[f[i]])
      BY <1>1, <1>2, <1>3, <1>4, <1>6, <1>7, <2>1
    <3> QED
      BY <3>1
  <2>2. CASE i \notin DOMAIN s
    <3>1. u[i] = b /\ v[g[i]] = b
      BY <1>2, <1>3, <1>5, <1>7, <2>2
    <3> QED
      BY <3>1 DEF Same
  <2> QED
    BY <2>1, <2>2
<1>9. ASSUME NEW i \in DOMAIN u, NEW j \in DOMAIN u, i < j PROVE g[i] < g[j]
  <2>1. CASE j \in DOMAIN s
    <3>1. i \in DOMAIN s
      BY <1>5, <1>6, <1>9, <2>1
    <3> QED
      BY <1>1, <1>7, <1>9, <2>1, <3>1
  <2>2. CASE j \notin DOMAIN s
    <3>1. i \in DOMAIN s
      BY <1>5, <1>6, <1>9, <2>2
    <3> QED
      BY <1>6, <1>7, <2>2, <3>1
  <2> QED
    BY <2>1, <2>2
<1>10. Thins(u, v)
  BY <1>7, <1>8, <1>9 DEF Thins
<1> QED
  BY <1>10 DEF u, v

(* Sending the queue only loses packets of it.                             *)
LEMMA OutgoingThins ==
  ASSUME TypeOK, Outgoing
  PROVE  Thins(Packets(padding'), Packets(padding))
<1>0. padding \in Seq(Node) /\ Packets(padding) \in Seq(Packet)
  BY LineType DEF TypeOK
<1> DEFINE s == MarkSent(padding)
           K == {i \in DOMAIN padding : padding[i].wait_ack \/ padding[i].ttl > 0}
<1>1. padding' = KeepAt(s, K)
  BY DEF Outgoing, Remaining
<1>2. s \in Seq(Node) /\ DOMAIN s = DOMAIN padding /\ K \in SUBSET (DOMAIN s)
  BY <1>0, MarkSentType
<1>3. \A i \in DOMAIN padding : Same(s[i].b, padding[i].b)
  <2> SUFFICES ASSUME NEW i \in DOMAIN padding PROVE Same(s[i].b, padding[i].b)
    OBVIOUS
  <2>1. padding[i] \in Node
    BY <1>0, ElementOfSeq
  <2> QED
    BY <2>1 DEF MarkSent, Node, Same
<1> HIDE DEF s, K
<1>4. Thins(Packets(s), Packets(padding)) /\ Thins(Packets(padding'), Packets(s))
  BY <1>0, <1>1, <1>2, <1>3, ThinsMap, ThinsKeep
<1> QED
  BY <1>4, ThinsTransitive

(* Every step thins the queue, after adding at most one packet.            *)
LEMMA QueueThins ==
  ASSUME TypeOK, [Next]_vars
  PROVE  \/ Thins(Packets(padding'), Packets(padding))
         \/ \E b \in Packet : /\ Newcomer(b)
                              /\ Thins(Packets(padding'), Packets(padding) \o <<b>>)
<1>1. padding \in Seq(Node) /\ Packets(padding) \in Seq(Packet)
  BY LineType DEF TypeOK
<1>2. CASE ~OnAck /\ ~OnPubrec /\ ~Outgoing /\ ~Elapsed
  <2>1. CASE UNCHANGED padding
    BY <1>1, <2>1, ThinsSelf
  <2>2. ASSUME NEW b \in Packet, Newcomer(b), padding' = AppendPadding(padding, b)
        PROVE  Thins(Packets(padding'), Packets(padding) \o <<b>>)
    <3>1. Packets(padding') = Packets(padding) \o <<b>>
      BY <1>1, <2>2, PacketsAppend
    <3>2. Packets(padding) \o <<b>> \in Seq(Packet)
      BY <1>1, ConcatOne
    <3> QED
      BY <3>1, <3>2, ThinsSelf
  <2> QED
    BY <1>2, <2>1, <2>2, QueueAdds
<1>3. CASE OnAck
  <2>1. PICK K \in SUBSET (DOMAIN padding) : padding' = KeepAt(padding, K)
    BY <1>3 DEF OnAck, ErasePadding
  <2> QED
    BY <1>1, <2>1, ThinsKeep
<1>4. CASE OnPubrec
  <2>1. PICK b \in Packet :
          /\ padding' = AppendPadding(ErasePadding(padding, "PUBLISH", Head(inb).id), b)
          /\ b.type = "PUBREL" /\ b.id = Head(inb).id /\ b.msg = Acked.msg /\ ~b.dup
    BY <1>4, PubrelPacket
  <2>2. PICK K \in SUBSET (DOMAIN padding) :
          ErasePadding(padding, "PUBLISH", Head(inb).id) = KeepAt(padding, K)
    BY DEF ErasePadding
  <2>3. KeepAt(padding, K) \in Seq(Node)
    BY <1>1, KeepAtProperties
  <2>4. Packets(padding') = Packets(KeepAt(padding, K)) \o <<b>>
    BY <2>1, <2>2, <2>3, PacketsAppend
  <2>5. Packets(KeepAt(padding, K)) \in Seq(Packet)
        /\ Thins(Packets(KeepAt(padding, K)), Packets(padding))
    BY <1>1, <2>3, PacketsType, ThinsKeep
  <2>6. Thins(Packets(padding'), Packets(padding) \o <<b>>)
    BY <1>1, <2>4, <2>5, ThinsAppend
  <2>7. Newcomer(b)
    BY <1>4, <2>1 DEF Newcomer
  <2> QED
    BY <2>6, <2>7
<1>5. CASE Outgoing
  BY <1>5, OutgoingThins
<1>6. CASE Elapsed
  <2>1. PICK s \in Seq(Node) :
           /\ \/ s = padding
              \/ \E b \in Packet : Newcomer(b) /\ s = AppendPadding(padding, b)
           /\ padding' \in Seq(Node) /\ DOMAIN padding' = DOMAIN s
           /\ \A i \in DOMAIN s : Same(padding'[i].b, s[i].b)
    BY <1>6, ElapsedPackets
  <2>2. Thins(Packets(padding'), Packets(s))
    BY <2>1, ThinsMap
  <2> QED
    BY <1>1, <2>1, <2>2, PacketsAppend
<1> QED
  BY <1>2, <1>3, <1>4, <1>5, <1>6

-----------------------------------------------------------------------------
(* Answers.  An exchange k, a type with an identifier, has been sent once  *)
(* on this connection unless it is in `again'.  AcksMatch alone is not     *)
(* inductive: the request, or else the answer to it, is followed along the *)
(* line, with the node of the queue that waits for it.                     *)

(* The packets that open the exchange k, and those that answer it.         *)
Asked(k)     == {b \in Packet : Acknowledged(b) /\ <<b.type, b.id>> = k}
Answering(k) == {p \in Packet : p.type \in DOMAIN Answers /\ <<Answers[p.type], p.id>> = k}

Matched(k) ==
  /\ Lone(Upward, Asked(k)) /\ Lone(Downward, Answering(k))
  /\ ~(Has(Upward, Asked(k)) /\ Has(Downward, Answering(k)))
  /\ Has(Upward, Asked(k)) \/ Has(Downward, Answering(k))
       => k \in wire /\ Has(Packets(padding), Asked(k))

MatchInv == \A k \in (PacketTypes \X Nat) \ again : Matched(k)

LEMMA AskedBlind ==
  ASSUME NEW k
  PROVE  DupBlind(Asked(k))
BY DEF DupBlind, Asked, Same, Acknowledged

(* _erase_padding removes one packet, of the type and identifier given.    *)
LEMMA EraseOther ==
  ASSUME TypeOK, NEW type, NEW id, Matching(padding, type, id) # {},
         NEW k, k # <<type, id>>, Has(Packets(padding), Asked(k))
  PROVE  /\ ErasePadding(padding, type, id) \in Seq(Node)
         /\ Has(Packets(ErasePadding(padding, type, id)), Asked(k))
<1> DEFINE first == FirstOf(Matching(padding, type, id))
           K == DOMAIN padding \ {first}
           s == KeepAt(padding, K)
<1>1. padding \in Seq(Node) /\ K \in SUBSET (DOMAIN padding)
      /\ ErasePadding(padding, type, id) = s
  BY DEF TypeOK, ErasePadding
<1>2. PICK i \in DOMAIN padding : padding[i].b \in Asked(k)
  BY LineType DEF Has
<1>3. padding[first].b.type = type /\ padding[first].b.id = id
  BY <1>1, FirstMatch
<1>4. i \in K
  BY <1>2, <1>3 DEF Asked
<1> HIDE DEF first, K
<1>5. s \in Seq(Node) /\ Rank(K, i) \in DOMAIN s /\ s[Rank(K, i)] = padding[i]
  BY <1>1, <1>4, KeepAtProperties
<1> HIDE DEF s
<1>6. Has(Packets(s), Asked(k))
  BY <1>2, <1>5, PacketsType DEF Has
<1> QED
  BY <1>1, <1>5, <1>6

LEMMA AppendHas ==
  ASSUME NEW s \in Seq(Node), NEW b \in Packet, NEW A
  PROVE  Has(Packets(AppendPadding(s, b)), A) <=> (Has(Packets(s), A) \/ b \in A)
<1> DEFINE q == Packets(s)
<1>1. q \in Seq(Packet) /\ Packets(AppendPadding(s, b)) = q \o <<b>> /\ <<b>> \in Seq(Packet)
  BY PacketsType, PacketsAppend, SingleProperties
<1> HIDE DEF q
<1>2. Has(<<b>>, A) <=> b \in A
  BY SingleProperties
<1>3. Has(q \o <<b>>, A) <=> (Has(q, A) \/ Has(<<b>>, A))
  BY <1>1, ConcatHas
<1> QED
  BY <1>1, <1>2, <1>3 DEF q

(* The node of an exchange waits until an answer is handled.               *)
LEMMA OutgoingKeeps ==
  ASSUME TypeOK, AwakeInv, Outgoing, NEW i \in DOMAIN padding, Acknowledged(padding[i].b)
  PROVE  \E j \in DOMAIN padding' : padding'[j].b = padding[i].b
<1> DEFINE s == MarkSent(padding)
           K == {l \in DOMAIN padding : padding[l].wait_ack \/ padding[l].ttl > 0}
<1>1. padding' = KeepAt(s, K)
  BY DEF Outgoing, Remaining
<1>2. s \in Seq(Node) /\ K \in SUBSET (DOMAIN s) /\ padding \in Seq(Node)
  BY MarkSentType DEF TypeOK
<1>3. i \in K
  BY DEF AwakeInv, Awake, Waiting
<1>4. s[i].b = padding[i].b
  <2>1. padding[i] \in Node
    BY <1>2, ElementOfSeq
  <2> QED
    BY <2>1 DEF MarkSent, Node
<1> HIDE DEF s, K
<1>5. Rank(K, i) \in DOMAIN KeepAt(s, K) /\ KeepAt(s, K)[Rank(K, i)] = s[i]
  BY <1>2, <1>3, KeepAtProperties
<1> QED
  BY <1>1, <1>4, <1>5

LEMMA QueueKeeps ==
  ASSUME TypeOK, AwakeInv, [Next]_vars, NEW k, Has(Packets(padding), Asked(k)),
         ~((OnAck \/ OnPubrec) /\ Head(inb) \in Answering(k))
  PROVE  Has(Packets(padding'), Asked(k))
<1>1. padding \in Seq(Node) /\ Packets(padding) \in Seq(Packet)
  BY LineType DEF TypeOK
<1>2. CASE OnAck
  <2>1. /\ padding' = ErasePadding(padding, Answers[Head(inb).type], Head(inb).id)
        /\ Head(inb).type \in DOMAIN Answers /\ ~Unmatched(Head(inb)) /\ Head(inb) \in Packet
    BY <1>2, HandleMoves, AnswersDomain DEF OnAck, Handle
  <2>2. Matching(padding, Answers[Head(inb).type], Head(inb).id) # {}
        /\ k # <<Answers[Head(inb).type], Head(inb).id>>
    BY <1>2, <2>1 DEF Unmatched, Answering
  <2> QED
    BY <2>1, <2>2, EraseOther
<1>3. CASE OnPubrec
  <2>1. PICK b \in Packet :
          padding' = AppendPadding(ErasePadding(padding, "PUBLISH", Head(inb).id), b)
    BY <1>3, PubrelPacket
  <2>2. /\ Head(inb).type = "PUBREC" /\ ~Unmatched(Head(inb)) /\ Head(inb) \in Packet
    BY <1>3, HandleMoves DEF OnPubrec, Handle
  <2>3. Head(inb).type \in DOMAIN Answers /\ Answers[Head(inb).type] = "PUBLISH"
    BY <2>2 DEF Answers
  <2>4. Matching(padding, "PUBLISH", Head(inb).id) # {} /\ k # <<"PUBLISH", Head(inb).id>>
    BY <1>3, <2>2, <2>3 DEF Unmatched, Answering
  <2> QED
    BY <2>1, <2>4, EraseOther, AppendHas
<1>4. CASE Outgoing
  <2>1. PICK i \in DOMAIN padding : padding[i].b \in Asked(k)
    BY LineType DEF Has
  <2>2. PICK j \in DOMAIN padding' : padding'[j].b = padding[i].b
    BY <1>4, <2>1, OutgoingKeeps DEF Asked
  <2>3. padding' \in Seq(Node)
    BY <1>4, OutgoingType DEF TypeOK
  <2> QED
    BY <2>1, <2>2, <2>3, PacketsType DEF Has
<1>5. CASE Elapsed
  <2>1. PICK s \in Seq(Node) :
           /\ \/ s = padding
              \/ \E b \in Packet : Newcomer(b) /\ s = AppendPadding(padding, b)
           /\ padding' \in Seq(Node) /\ DOMAIN padding' = DOMAIN s
           /\ \A i \in DOMAIN s : Same(padding'[i].b, s[i].b)
    BY <1>5, ElapsedPackets
  <2>2. Has(Packets(s), Asked(k))
    BY <1>1, <2>1, AppendHas
  <2>3. PICK i \in DOMAIN s : s[i].b \in Asked(k)
    BY <2>1, <2>2, PacketsType DEF Has
  <2>4. padding'[i].b \in Packet /\ s[i].b \in Packet
    <3>1. padding'[i] \in Node /\ s[i] \in Node
      BY <2>1, <2>3, ElementOfSeq
    <3> QED
      BY <3>1 DEF Node
  <2>5. padding'[i].b \in Asked(k)
    BY <2>1, <2>3, <2>4, AskedBlind DEF DupBlind
  <2> QED
    BY <2>1, <2>3, <2>5, PacketsType DEF Has
<1>6. CASE ~OnAck /\ ~OnPubrec /\ ~Outgoing /\ ~Elapsed
  BY <1>1, <1>6, QueueAdds, AppendHas
<1> QED
  BY <1>2, <1>3, <1>4, <1>5, <1>6

(* The batch is the packets of the nodes not sent yet, in their order.     *)
LEMMA BatchProperties ==
  ASSUME NEW s \in Seq(Node)
  PROVE  /\ Batch(s) \in Seq(Packet) /\ Thins(Batch(s), Packets(s))
         /\ \A A : Has(Batch(s), A) => \E i \in Unsent(s) : s[i].b \in A
         /\ \A A : (\A i, j \in Unsent(s) : s[i].b \in A /\ s[j].b \in A => i = j)
                     => Lone(Batch(s), A)
<1> DEFINE K == Unsent(s)
           u == KeepAt(s, K)
<1>1. K \in SUBSET (DOMAIN s) /\ Batch(s) = Packets(u)
  BY DEF Unsent, Batch, Packets
<1>2. Batch(s) \in Seq(Packet) /\ Thins(Batch(s), Packets(s))
  BY <1>1, BatchType, ThinsKeep
<1> HIDE DEF K
<1>3. /\ u \in Seq(Node)
      /\ \A j \in DOMAIN u : Nth(K, j) \in K /\ u[j] = s[Nth(K, j)]
      /\ \A i, j \in DOMAIN u : Nth(K, i) = Nth(K, j) => i = j
  <2>1. u \in Seq(Node) /\ \A j \in DOMAIN u : Nth(K, j) \in K /\ u[j] = s[Nth(K, j)]
    BY <1>1, KeepAtProperties
  <2>2. \A i, j \in DOMAIN u : Nth(K, i) = Nth(K, j) => i = j
    BY <1>1, KeepAtOnce
  <2> HIDE DEF u
  <2> QED
    BY <2>1, <2>2
<1> HIDE DEF u
<1>4. DOMAIN Batch(s) = DOMAIN u /\ \A j \in DOMAIN u : Batch(s)[j] = s[Nth(K, j)].b
  BY <1>1, <1>3, PacketsType
<1>5. \A A : Has(Batch(s), A) => \E i \in K : s[i].b \in A
  BY <1>3, <1>4 DEF Has
<1>6. \A A : (\A i, j \in K : s[i].b \in A /\ s[j].b \in A => i = j) => Lone(Batch(s), A)
  BY <1>3, <1>4 DEF Lone
<1> QED
  BY <1>2, <1>5, <1>6 DEF K

(* What mqtt_cli_outgoing enters in the history.                           *)
LEMMA OutgoingHistory ==
  ASSUME Outgoing, NEW k
  PROVE  /\ wire \subseteq wire' /\ again \subseteq again'
         /\ \A i \in Unsent(padding) : padding[i].b \in Asked(k)
              => k \in wire' /\ (k \in wire => k \in again')
         /\ \A i, j \in Unsent(padding) :
              padding[i].b \in Asked(k) /\ padding[j].b \in Asked(k) /\ i # j
                => k \in again'
<1> DEFINE new == {<<padding[i].b.type, padding[i].b.id>> :
                     i \in {j \in Unsent(padding) : Acknowledged(padding[j].b)}}
           two == {x \in new : \E i, j \in Unsent(padding) :
                     i # j /\ x = <<padding[i].b.type, padding[i].b.id>>
                           /\ x = <<padding[j].b.type, padding[j].b.id>>}
<1>1. wire' = wire \cup new /\ again' = again \cup (wire \cap new) \cup two
  BY DEF Outgoing
<1>2. \A i \in Unsent(padding) : padding[i].b \in Asked(k) => k \in new
  BY DEF Asked
<1>3. \A i, j \in Unsent(padding) :
        padding[i].b \in Asked(k) /\ padding[j].b \in Asked(k) /\ i # j => k \in two
  BY <1>2 DEF Asked
<1> HIDE DEF new, two
<1> QED
  BY <1>1, <1>2, <1>3

(* A step that brings neither a request nor an answer of the exchange.     *)
LEMMA MatchedMoves ==
  ASSUME TypeOK, AwakeInv, [Next]_vars, NEW k, Matched(k), wire \subseteq wire',
         Has(Upward', Asked(k)) => Has(Upward, Asked(k)),
         Lone(Upward', Asked(k)),
         Has(Downward', Answering(k)) => Has(Downward, Answering(k)),
         Lone(Downward', Answering(k)),
         ~((OnAck \/ OnPubrec) /\ Head(inb) \in Answering(k))
  PROVE  Matched(k)'
<1>1. ASSUME Has(Packets(padding), Asked(k)) PROVE Has(Packets(padding'), Asked(k))
  BY <1>1, QueueKeeps
<1> QED
  BY <1>1 DEF Matched

LEMMA OutgoingMatched ==
  ASSUME TypeOK, AwakeInv, AtRest, Outgoing, NEW k, Matched(k), k \notin again'
  PROVE  Matched(k)'
<1> DEFINE b == Batch(padding)
<1>1. padding \in Seq(Node) /\ Upward \in Seq(Packet) /\ Upward' = Upward \o b
      /\ b \in Seq(Packet) /\ Downward' = Downward /\ [Next]_vars
  BY LineType, OutgoingMoves DEF TypeOK, Next, MainLoop
<1>2. wire \subseteq wire' /\ ~OnAck /\ ~OnPubrec
  BY OutgoingHistory DEF Outgoing, OnAck, OnPubrec, Handle
<1>3. Has(b, Asked(k)) => \E i \in Unsent(padding) : padding[i].b \in Asked(k)
  BY <1>1, BatchProperties
<1>4. Lone(b, Asked(k))
  <2>1. \A i, j \in Unsent(padding) :
           padding[i].b \in Asked(k) /\ padding[j].b \in Asked(k) => i = j
    BY OutgoingHistory
  <2> QED
    BY <1>1, <2>1, BatchProperties
<1> HIDE DEF b
<1>5. Has(Upward', Asked(k)) <=> (Has(Upward, Asked(k)) \/ Has(b, Asked(k)))
  BY <1>1, ConcatHas
<1>6. Has(b, Asked(k)) => ~Has(Upward, Asked(k)) /\ ~Has(Downward, Answering(k))
                          /\ k \in wire' /\ Has(Packets(padding'), Asked(k))
  <2> SUFFICES ASSUME Has(b, Asked(k))
               PROVE  k \notin wire /\ k \in wire' /\ Has(Packets(padding'), Asked(k))
    BY DEF Matched
  <2>1. PICK i \in Unsent(padding) : padding[i].b \in Asked(k)
    BY <1>3
  <2>2. i \in DOMAIN padding
    BY DEF Unsent
  <2>3. Has(Packets(padding), Asked(k))
    BY <2>1, <2>2, LineType DEF Has
  <2> QED
    BY <1>1, <1>2, <2>1, <2>3, OutgoingHistory, QueueKeeps
<1>7. Lone(Upward', Asked(k))
  BY <1>1, <1>4, <1>6, ConcatLone DEF Matched
<1>8. CASE Has(b, Asked(k))
  BY <1>1, <1>6, <1>7, <1>8 DEF Matched
<1>9. CASE ~Has(b, Asked(k))
  BY <1>1, <1>2, <1>5, <1>7, <1>9, MatchedMoves DEF Matched
<1> QED
  BY <1>8, <1>9

(* The client handles a packet.                                            *)
LEMMA HandleMatched ==
  ASSUME TypeOK, AwakeInv, [Next]_vars, NEW types, Handle(types), NEW k, Matched(k)
  PROVE  Matched(k)'
<1>1. /\ Downward \in Seq(Packet) /\ Downward # <<>> /\ Head(Downward) = Head(inb)
      /\ Downward' = Tail(Downward) /\ Upward' = Upward
  BY LineType, HandleMoves
<1>2. Chunk(Tail(Downward), Downward) /\ Tail(Downward) \in Seq(Packet)
  BY <1>1, TailProperties
<1>3. /\ Has(Downward', Answering(k)) => Has(Downward, Answering(k))
      /\ Lone(Downward', Answering(k))
  BY <1>1, <1>2, ChunkProperties DEF Matched
<1>4. CASE Head(inb) \in Answering(k)
  <2>1. ~Has(Downward', Answering(k))
    BY <1>1, <1>4, TailProperties DEF Matched
  <2>2. Has(Downward, Answering(k))
    BY <1>1, <1>4, TailProperties DEF Has, Elems
  <2> QED
    BY <1>1, <1>3, <2>1, <2>2 DEF Matched
<1>5. CASE Head(inb) \notin Answering(k)
  <2>1. wire \subseteq wire'
    BY DEF Handle
  <2> QED
    BY <1>1, <1>3, <1>5, <2>1, MatchedMoves DEF Matched
<1> QED
  BY <1>4, <1>5

(* What the broker answers to the packet it reads.                         *)
Answer(p) ==
  \/ /\ p.type \in DOMAIN Answers /\ Acknowledged(Head(c2s))
     /\ Head(c2s).type = Answers[p.type] /\ p.id = Head(c2s).id
  \/ BrokerAcked /\ Head(c2s).type = "PUBREC" /\ p.type = "PUBREL" /\ p.id = Head(c2s).id
  \/ p.type \notin Exchanging

LEMMA ReadAnswer ==
  ASSUME TypeOK, Reads
  PROVE  /\ up /\ c2s # <<>> /\ UNCHANGED <<padding, out, inb, wire, again>>
         /\ Head(c2s) \in Packet
         /\ \E r \in Seq(Packet) : /\ Replies(r)
                                   /\ r = <<>> \/ \E p \in Packet : r = <<p>> /\ Answer(p)
<1> DEFINE Replied == \E r \in Seq(Packet) :
                        /\ Replies(r)
                        /\ r = <<>> \/ \E p \in Packet : r = <<p>> /\ Answer(p)
<1>1. up /\ c2s # <<>> /\ UNCHANGED <<padding, out, inb, wire, again>>
  BY DEF Reads, BrokerAccept, BrokerPublished, BrokerReleased, BrokerPinged,
     BrokerSubscribed, BrokerUnsubscribed, BrokerAcked, InSession, BrokerGets, client,
     loop, ghosts
<1>2. Head(c2s) \in Packet /\ Head(c2s).id \in Nat
  BY <1>1, HeadType
<1>3. <<>> \in Seq(Packet)
  OBVIOUS
<1>4. ASSUME NEW type \in PacketTypes, NEW id \in Nat, Replies(<<Pkt(type, id)>>),
             \A p \in Packet : p.type = type /\ p.id = id => Answer(p)
      PROVE  Replied
  <2>1. Pkt(type, id) \in Packet /\ Pkt(type, id).type = type /\ Pkt(type, id).id = id
    BY PktType DEF Pkt
  <2>2. <<Pkt(type, id)>> \in Seq(Packet)
    BY <2>1, SingleProperties
  <2> QED
    BY <1>4, <2>1, <2>2
<1>5. ASSUME Replies(<<>>) PROVE Replied
  BY <1>3, <1>5
<1> HIDE DEF Replied
<1>6. ASSUME NEW type \in PacketTypes \ Exchanging, NEW id \in Nat, Replies(<<Pkt(type, id)>>)
      PROVE  Replied
  BY <1>4, <1>6 DEF Answer
<1>7. ASSUME BrokerAccept PROVE Replied
  <2>1. Replies(<<Pkt("CONNACK", 0)>>)
    BY <1>7 DEF BrokerAccept
  <2> QED
    BY <1>6, <2>1 DEF PacketTypes, Exchanging
<1>8. ASSUME BrokerPublished PROVE Replied
  <2>1. Head(c2s).type = "PUBLISH" /\ Head(c2s).qos \in {0, 1, 2}
    BY <1>2, <1>8 DEF BrokerPublished, InSession, BrokerGets, Packet
  <2>2. CASE Head(c2s).qos = 0
    BY <1>5, <1>8, <2>2 DEF BrokerPublished
  <2>3. CASE Head(c2s).qos = 1
    <3>1. Replies(<<Pkt("PUBACK", Head(c2s).id)>>)
      BY <1>8, <2>3 DEF BrokerPublished
    <3>2. \A p \in Packet : p.type = "PUBACK" /\ p.id = Head(c2s).id => Answer(p)
      BY <2>1, <2>3 DEF Answer, Answers, Acknowledged
    <3> QED
      BY <1>2, <1>4, <3>1, <3>2 DEF PacketTypes
  <2>4. CASE Head(c2s).qos = 2
    <3>1. Replies(<<Pkt("PUBREC", Head(c2s).id)>>)
      BY <1>8, <2>4 DEF BrokerPublished
    <3>2. \A p \in Packet : p.type = "PUBREC" /\ p.id = Head(c2s).id => Answer(p)
      BY <2>1, <2>4 DEF Answer, Answers, Acknowledged
    <3> QED
      BY <1>2, <1>4, <3>1, <3>2 DEF PacketTypes
  <2> QED
    BY <2>1, <2>2, <2>3, <2>4
<1>9. ASSUME BrokerReleased PROVE Replied
  <2>1. Head(c2s).type = "PUBREL" /\ Replies(<<Pkt("PUBCOMP", Head(c2s).id)>>)
    BY <1>9 DEF BrokerReleased, InSession, BrokerGets
  <2>2. \A p \in Packet : p.type = "PUBCOMP" /\ p.id = Head(c2s).id => Answer(p)
    BY <2>1 DEF Answer, Answers, Acknowledged
  <2> QED
    BY <1>2, <1>4, <2>1, <2>2 DEF PacketTypes
<1>10. ASSUME BrokerPinged PROVE Replied
  <2>1. Replies(<<Pkt("PINGRESP", 0)>>)
    BY <1>10 DEF BrokerPinged
  <2> QED
    BY <1>6, <2>1 DEF PacketTypes, Exchanging
<1>11. ASSUME BrokerSubscribed PROVE Replied
  <2>1. Replies(<<Pkt("SUBACK", Head(c2s).id)>>)
    BY <1>11 DEF BrokerSubscribed
  <2> QED
    BY <1>2, <1>6, <2>1 DEF PacketTypes, Exchanging
<1>12. ASSUME BrokerUnsubscribed PROVE Replied
  <2>1. Replies(<<Pkt("UNSUBACK", Head(c2s).id)>>)
    BY <1>12 DEF BrokerUnsubscribed
  <2> QED
    BY <1>2, <1>6, <2>1 DEF PacketTypes, Exchanging
<1>13. ASSUME BrokerAcked PROVE Replied
  <2>1. CASE Head(c2s).type = "PUBREC"
    <3>1. Replies(<<Pkt("PUBREL", Head(c2s).id)>>)
      BY <1>13, <2>1 DEF BrokerAcked
    <3>2. \A p \in Packet : p.type = "PUBREL" /\ p.id = Head(c2s).id => Answer(p)
      BY <1>13, <2>1 DEF Answer
    <3> QED
      BY <1>2, <1>4, <3>1, <3>2 DEF PacketTypes
  <2>2. CASE Head(c2s).type # "PUBREC"
    BY <1>5, <1>13, <2>2 DEF BrokerAcked
  <2> QED
    BY <2>1, <2>2
<1>14. Replied
  BY <1>7, <1>8, <1>9, <1>10, <1>11, <1>12, <1>13 DEF Reads
<1> QED
  BY <1>1, <1>2, <1>14 DEF Replied

LEMMA ReadMatched ==
  ASSUME TypeOK, AwakeInv, [Next]_vars, Reads, NEW k, Matched(k)
  PROVE  Matched(k)'
<1>1. PICK r \in Seq(Packet) : /\ Replies(r)
                               /\ r = <<>> \/ \E p \in Packet : r = <<p>> /\ Answer(p)
  BY ReadAnswer
<1>2. /\ c2s # <<>> /\ Head(c2s) \in Packet /\ UNCHANGED <<padding, out, inb, wire, again>>
      /\ Upward \in Seq(Packet) /\ Downward \in Seq(Packet)
  BY ReadAnswer, LineType
<1>3. /\ Upward # <<>> /\ Head(Upward) = Head(c2s) /\ Upward' = Tail(Upward)
      /\ Downward' = Downward \o r
  BY <1>1, <1>2, ReadMoves
<1>4. Chunk(Tail(Upward), Upward) /\ Tail(Upward) \in Seq(Packet)
      /\ Head(Upward) \in Elems(Upward)
  BY <1>2, <1>3, TailProperties
<1>5. /\ Has(Upward', Asked(k)) => Has(Upward, Asked(k))
      /\ Lone(Upward', Asked(k))
  BY <1>2, <1>3, <1>4, ChunkProperties DEF Matched
<1>6. Lone(r, Answering(k)) /\ (Has(r, Answering(k)) => Head(c2s) \in Asked(k))
  <2>1. CASE r = <<>>
    BY <2>1, EmptyProperties
  <2>2. ASSUME NEW p \in Packet, r = <<p>>, Answer(p)
        PROVE  Lone(r, Answering(k)) /\ (Has(r, Answering(k)) => Head(c2s) \in Asked(k))
    <3>1. Lone(<<p>>, Answering(k)) /\ (Has(<<p>>, Answering(k)) <=> p \in Answering(k))
      BY SingleProperties
    <3>2. p \in Answering(k) => Head(c2s) \in Asked(k)
      BY <1>2, <2>2, AnswersDomain DEF Answer, Answering, Asked, Exchanging
    <3> QED
      BY <2>2, <3>1, <3>2
  <2> QED
    BY <1>1, <2>1, <2>2
<1>7. Has(Downward', Answering(k)) <=> (Has(Downward, Answering(k)) \/ Has(r, Answering(k)))
  BY <1>2, <1>3, ConcatHas
<1>8. CASE Has(r, Answering(k))
  <2>1. Head(Upward) \in Asked(k) /\ Has(Upward, Asked(k))
    BY <1>3, <1>4, <1>6, <1>8 DEF Has, Elems
  <2>2. ~Has(Upward', Asked(k)) /\ ~Has(Downward, Answering(k))
    BY <1>2, <1>3, <2>1, TailProperties DEF Matched
  <2>3. Lone(Downward', Answering(k))
    BY <1>2, <1>3, <1>6, <2>2, ConcatLone DEF Matched
  <2> QED
    BY <1>2, <1>5, <2>1, <2>2, <2>3 DEF Matched
<1>9. CASE ~Has(r, Answering(k))
  <2>1. Lone(Downward', Answering(k))
    BY <1>2, <1>3, <1>6, <1>9, ConcatLone DEF Matched
  <2> QED
    BY <1>2, <1>5, <1>7, <1>9, <2>1 DEF Matched
<1> QED
  BY <1>8, <1>9

(* A new connection has seen nothing yet.                                  *)
LEMMA ConnectEmpty ==
  ASSUME AtRest, TcpConnect
  PROVE  Upward' = <<>> /\ Downward' = <<>> /\ ~OnAck /\ ~OnPubrec /\ UNCHANGED padding
<1>1. c2s' = <<>> /\ out' = <<>> /\ s2c' = <<>> /\ inb' = <<>>
  BY DEF AtRest, TcpConnect
<1> QED
  BY <1>1 DEF Upward, Downward, TcpConnect, OnAck, OnPubrec, Handle, client

LEMMA MatchStep ==
  ASSUME TypeOK, AwakeInv, AtRest, MatchInv, [Next]_vars
  PROVE  MatchInv'
<1>1. \A k \in (PacketTypes \X Nat) \ again : Matched(k)
  BY DEF MatchInv
<1>2. /\ Upward \in Seq(Packet) /\ Downward \in Seq(Packet)
      /\ Upward' \in Seq(Packet) /\ Downward' \in Seq(Packet)
  <2>1. TypeOK'
    BY TypeStep
  <2> QED
    BY <2>1, LineType DEF Upward, Downward, TypeOK
<1>3. CASE TcpConnect
  <2>1. ~Has(<<>>, {}) /\ \A A : ~Has(<<>>, A) /\ Lone(<<>>, A)
    BY EmptyProperties
  <2>2. \A k \in PacketTypes \X Nat : Matched(k)'
    BY <1>3, <2>1, ConnectEmpty DEF Matched
  <2> QED
    BY <2>2 DEF MatchInv
<1>4. ASSUME ~TcpConnect, NEW k \in (PacketTypes \X Nat) \ again' PROVE Matched(k)'
  <2>1. again \subseteq again' /\ wire \subseteq wire'
    <3>1. Outgoing \/ UNCHANGED <<wire, again>>
      BY <1>4 DEF Next, MainLoop, Hello, Send, RecvData, RecvTimeout, RecvEnd, IncomingEnd,
         HandlePacket, OnConnack, OnPublish, OnAck, OnPubrec, OnPubrel, OnUnsuback, OnSuback,
         OnPingresp, Handle, Rejected, Elapsed, ElapsedPingLost, ElapsedCheck, Close,
         Environment, Publish, Unsubscribe, BrokerRecv, BrokerAccept, BrokerRefuse,
         BrokerClose, BrokerPublished, BrokerReleased, BrokerPinged, BrokerSubscribed,
         BrokerUnsubscribed, BrokerAcked, BrokerSend, Drop, vars, ghosts
    <3> QED
      BY <3>1, OutgoingHistory
  <2>2. Matched(k)
    BY <1>1, <1>4, <2>1
  <2>3. CASE Outgoing
    BY <1>4, <2>2, <2>3, OutgoingMatched
  <2>4. ASSUME NEW types, Handle(types) PROVE Matched(k)'
    BY <2>2, <2>4, HandleMatched
  <2>5. CASE Reads
    BY <2>2, <2>5, ReadMatched
  <2>6. ASSUME Chunk(Upward', Upward), Lone(Downward', Answering(k)),
               Has(Downward', Answering(k)) => Has(Downward, Answering(k)), ~OnAck, ~OnPubrec
        PROVE  Matched(k)'
    <3>1. /\ Has(Upward', Asked(k)) => Has(Upward, Asked(k))
          /\ Lone(Upward, Asked(k)) => Lone(Upward', Asked(k))
      BY <1>2, <2>6, ChunkProperties
    <3> QED
      BY <2>1, <2>2, <2>6, <3>1, MatchedMoves DEF Matched
  <2>7. CASE Speaks /\ \A types : ~Handle(types)
    <3>1. ~OnAck /\ ~OnPubrec
      BY <2>7 DEF OnAck, OnPubrec
    <3>2. PICK p \in Packet :
            /\ Downward' = Downward \o <<p>>
            /\ p.type \in {"REFUSED", "PUBLISH"}
      BY <2>7, SpeaksMoves
    <3>3. p \notin Answering(k)
      BY <3>2, AnswersDomain DEF Answering
    <3>4. <<p>> \in Seq(Packet) /\ Lone(<<p>>, Answering(k)) /\ ~Has(<<p>>, Answering(k))
      BY <3>3, SingleProperties
    <3>5. /\ Lone(Downward', Answering(k))
          /\ Has(Downward', Answering(k)) => Has(Downward, Answering(k))
      BY <1>2, <2>2, <3>2, <3>4, ConcatLone, ConcatHas DEF Matched
    <3> QED
      BY <2>6, <2>7, <3>1, <3>5, SpeaksMoves
  <2>8. CASE ~Outgoing /\ ~Reads /\ ~Speaks /\ \A types : ~Handle(types)
    <3>1. ~OnAck /\ ~OnPubrec
      BY <2>8 DEF OnAck, OnPubrec
    <3>2. Chunk(Upward', Upward) /\ Chunk(Downward', Downward)
      BY <2>8, LineLoses
    <3>3. /\ Has(Downward', Answering(k)) => Has(Downward, Answering(k))
          /\ Lone(Downward, Answering(k)) => Lone(Downward', Answering(k))
      BY <1>2, <3>2, ChunkProperties
    <3> QED
      BY <2>2, <2>6, <3>1, <3>2, <3>3 DEF Matched
  <2> QED
    BY <2>3, <2>4, <2>5, <2>7, <2>8
<1> QED
  BY <1>3, <1>4 DEF MatchInv

LEMMA EmptyLine ==
  ASSUME Init
  PROVE  Upward = <<>> /\ Downward = <<>> /\ Packets(padding) = <<>> /\ AtRest
<1>1. Packets(padding) = <<>>
  BY DEF Init, Packets
<1>2. Upward = <<>> /\ Downward = <<>> /\ AtRest
  BY DEF Init, Upward, Downward, AtRest
<1> QED
  BY <1>1, <1>2

LEMMA MatchedHead ==
  ASSUME TypeOK, MatchInv
  PROVE  AcksMatch
<1> SUFFICES ASSUME inb # <<>>, Unmatched(Head(inb)),
                    <<Answers[Head(inb).type], Head(inb).id>> \notin again
             PROVE  FALSE
  BY DEF AcksMatch
<1> DEFINE p == Head(inb)
           k == <<Answers[p.type], p.id>>
<1>1. inb \in Seq(Packet) /\ s2c \in Seq(Packet) /\ Downward \in Seq(Packet)
  BY LineType DEF TypeOK
<1>2. p \in Packet /\ p \in Elems(Downward)
  <2>1. Downward # <<>> /\ Head(Downward) = p
    BY <1>1, ConcatTail DEF Downward
  <2> QED
    BY <1>1, <2>1, TailProperties
<1>3. p.type \in DOMAIN Answers /\ Matching(padding, Answers[p.type], p.id) = {}
  BY DEF Unmatched
<1> HIDE DEF p
<1>4. k \in PacketTypes \X Nat
  BY <1>2, <1>3, AnswersDomain DEF Answers, PacketTypes, Packet
<1>5. Matched(k)
  BY <1>4 DEF MatchInv, p
<1>6. Has(Downward, Answering(k))
  BY <1>2, <1>3 DEF Has, Elems, Answering
<1>7. PICK i \in DOMAIN padding : padding[i].b \in Asked(k)
  BY <1>5, <1>6, LineType DEF Matched, Has
<1>8. i \in Matching(padding, Answers[p.type], p.id)
  BY <1>7 DEF Asked, Matching
<1> QED
  BY <1>3, <1>8

(* An answer that matches nothing in m->padding, for which _handle_packet  *)
(* gives the connection up, is always one to a packet that was sent twice  *)
(* on this connection: whatever is lost, late, retried or left from an     *)
(* earlier connection, if a packet has at least two tries.                 *)
THEOREM AnswersMatch ==
  ASSUME PacketTTL >= 2
  PROVE  Spec => []AcksMatch
<1> DEFINE Inv == AwakeInv /\ AtRest /\ MatchInv
<1>1. Init => Inv
  <2> SUFFICES ASSUME Init PROVE Inv
    OBVIOUS
  <2>1. AwakeInv
    BY DEF Init, AwakeInv
  <2>2. \A A : ~Has(<<>>, A) /\ Lone(<<>>, A)
    BY EmptyProperties
  <2> QED
    BY <2>1, <2>2, EmptyLine DEF MatchInv, Matched
<1>2. TypeOK /\ Inv /\ [Next]_vars => Inv'
  BY AwakeStep, AtRestStep, MatchStep
<1>3. TypeOK /\ Inv => AcksMatch
  BY MatchedHead
<1> QED
  BY <1>1, <1>2, <1>3, TypeCorrect, PTL DEF Spec

-----------------------------------------------------------------------------
(* The way to the broker: the batch and the connection, then the queue.    *)
Line == Upward \o Packets(padding)

LEMMA ThinsConcat ==
  ASSUME NEW s \in Seq(Packet), NEW t \in Seq(Packet), Thins(s, t),
         NEW p \in Seq(Packet), NEW q \in Seq(Packet), Thins(p, q)
  PROVE  Thins(s \o p, t \o q)
<1>1. PICK f \in [DOMAIN s -> DOMAIN t] :
        /\ \A i \in DOMAIN s : Same(s[i], t[f[i]])
        /\ \A i, j \in DOMAIN s : i < j => f[i] < f[j]
  BY DEF Thins
<1>2. PICK h \in [DOMAIN p -> DOMAIN q] :
        /\ \A i \in DOMAIN p : Same(p[i], q[h[i]])
        /\ \A i, j \in DOMAIN p : i < j => h[i] < h[j]
  BY DEF Thins
<1> DEFINE u == s \o p
           v == t \o q
           g == [i \in DOMAIN u |-> IF i \in DOMAIN s THEN f[i]
                                    ELSE Len(t) + h[i - Len(s)]]
<1>3. /\ Len(s) \in Nat
      /\ \A i \in DOMAIN s : i \in DOMAIN u /\ i \in Int /\ i <= Len(s) /\ u[i] = s[i]
      /\ \A i \in DOMAIN u : i \in Int /\
           \/ i \in DOMAIN s
           \/ i - Len(s) \in DOMAIN p /\ i > Len(s) /\ u[i] = p[i - Len(s)]
  BY ConcatElement
<1>4. /\ Len(t) \in Nat
      /\ \A i \in DOMAIN t : i \in DOMAIN v /\ i \in Int /\ i <= Len(t) /\ v[i] = t[i]
      /\ \A i \in DOMAIN q : Len(t) + i \in DOMAIN v /\ v[Len(t) + i] = q[i]
  BY ConcatElement
<1>5. \A i \in DOMAIN q : i \in Int /\ i >= 1
  <2>1. DOMAIN q = 1..Len(q)
    OBVIOUS
  <2> QED
    BY <2>1
<1> HIDE DEF u, v
<1>6. \A i \in DOMAIN u : i \notin DOMAIN s =>
        i - Len(s) \in DOMAIN p /\ i > Len(s) /\ u[i] = p[i - Len(s)]
        /\ h[i - Len(s)] \in DOMAIN q
  BY <1>2, <1>3
<1>7. g \in [DOMAIN u -> DOMAIN v]
      /\ \A i \in DOMAIN u : g[i] = IF i \in DOMAIN s THEN f[i]
                                    ELSE Len(t) + h[i - Len(s)]
  BY <1>1, <1>4, <1>6
<1> HIDE DEF g
<1>8. ASSUME NEW i \in DOMAIN u PROVE Same(u[i], v[g[i]])
  <2>1. CASE i \in DOMAIN s
    <3>1. g[i] = f[i] /\ u[i] = s[i] /\ v[f[i]] = t[f[i]] /\ Same(s[i], t[f[i]])
      BY <1>1, <1>3, <1>4, <1>7, <2>1
    <3> QED
      BY <3>1
  <2>2. CASE i \notin DOMAIN s
    <3>1. /\ g[i] = Len(t) + h[i - Len(s)] /\ u[i] = p[i - Len(s)]
          /\ v[Len(t) + h[i - Len(s)]] = q[h[i - Len(s)]]
          /\ Same(p[i - Len(s)], q[h[i - Len(s)]])
      BY <1>2, <1>4, <1>6, <1>7, <2>2
    <3> QED
      BY <3>1
  <2> QED
    BY <2>1, <2>2
<1>9. ASSUME NEW i \in DOMAIN u, NEW j \in DOMAIN u, i < j PROVE g[i] < g[j]
  <2>1. CASE j \in DOMAIN s
    <3>1. i \in DOMAIN s
      BY <1>3, <1>6, <1>9, <2>1
    <3> QED
      BY <1>1, <1>7, <1>9, <2>1, <3>1
  <2>2. CASE i \in DOMAIN s /\ j \notin DOMAIN s
    <3>1. f[i] \in Int /\ f[i] <= Len(t) /\ g[i] = f[i]
      BY <1>1, <1>4, <1>7, <2>2
    <3>2. h[j - Len(s)] \in Int /\ h[j - Len(s)] >= 1 /\ g[j] = Len(t) + h[j - Len(s)]
      BY <1>5, <1>6, <1>7, <2>2
    <3> QED
      BY <1>4, <3>1, <3>2
  <2>3. CASE i \notin DOMAIN s /\ j \notin DOMAIN s
    <3>1. i - Len(s) < j - Len(s)
      BY <1>3, <1>9
    <3>2. h[i - Len(s)] < h[j - Len(s)]
      BY <1>2, <1>6, <2>3, <3>1
    <3>3. h[i - Len(s)] \in Int /\ h[j - Len(s)] \in Int
      BY <1>5, <1>6, <2>3
    <3> QED
      BY <1>4, <1>7, <2>3, <3>2, <3>3
  <2> QED
    BY <2>1, <2>2, <2>3
<1>10. Thins(u, v)
  BY <1>7, <1>8, <1>9 DEF Thins
<1> QED
  BY <1>10 DEF u, v

LEMMA ChunkThins ==
  ASSUME NEW s \in Seq(Packet), NEW t \in Seq(Packet), Chunk(s, t)
  PROVE  Thins(s, t)
<1>1. PICK d \in Nat : d + Len(s) <= Len(t) /\ \A i \in DOMAIN s : s[i] = t[i + d]
  BY DEF Chunk
<1> DEFINE f == [i \in DOMAIN s |-> i + d]
<1>2. DOMAIN s = 1..Len(s) /\ DOMAIN t = 1..Len(t) /\ Len(s) \in Nat /\ Len(t) \in Nat
  OBVIOUS
<1>3. \A i \in DOMAIN s : i \in Int /\ i + d \in DOMAIN t
  BY <1>1, <1>2
<1>4. f \in [DOMAIN s -> DOMAIN t] /\ \A i \in DOMAIN s : f[i] = i + d
  BY <1>3
<1> HIDE DEF f
<1>5. \A i \in DOMAIN s : Same(s[i], t[f[i]])
  BY <1>1, <1>4 DEF Same
<1>6. \A i, j \in DOMAIN s : i < j => f[i] < f[j]
  BY <1>3, <1>4
<1> QED
  BY <1>4, <1>5, <1>6 DEF Thins

(* Every step but Outgoing loses packets of the line, or adds one at its   *)
(* end; where the broker reads, it loses the first.                        *)
LEMMA UpwardLoses ==
  ASSUME TypeOK, AtRest, [Next]_vars, ~Outgoing
  PROVE  Thins(Upward', Upward)
<1>1. Upward \in Seq(Packet)
  BY LineType
<1>2. Upward' \in Seq(Packet)
  BY TypeStep DEF TypeOK, Upward
<1>3. Chunk(Upward', Upward)
  <2>1. CASE Reads
    <3>1. PICK r \in Seq(Packet) : Replies(r)
      BY <2>1, ReadAnswer
    <3>2. Upward # <<>> /\ Upward' = Tail(Upward)
      BY <2>1, <3>1, ReadAnswer, ReadMoves
    <3> QED
      BY <1>1, <3>2, TailProperties
  <2>2. CASE Speaks
    BY <2>2, SpeaksMoves
  <2>3. ASSUME NEW types, Handle(types) PROVE Chunk(Upward', Upward)
    <3>1. Upward' = Upward
      BY <2>3, HandleMoves
    <3> QED
      BY <1>1, <3>1, ChunkOfConcat
  <2> QED
    BY <2>1, <2>2, <2>3, LineLoses
<1> QED
  BY <1>1, <1>2, <1>3, ChunkThins

LEMMA LineMoves ==
  ASSUME TypeOK, AtRest, [Next]_vars, ~Outgoing
  PROVE  /\ Line \in Seq(Packet) /\ Line' \in Seq(Packet)
         /\ \/ Thins(Line', Line)
            \/ \E b \in Packet : Newcomer(b) /\ Thins(Line', Line \o <<b>>)
<1> DEFINE q == Packets(padding)
           r == Packets(padding')
<1>1. Upward \in Seq(Packet) /\ q \in Seq(Packet) /\ Line = Upward \o q
  BY LineType DEF Line
<1>2. Upward' \in Seq(Packet) /\ r \in Seq(Packet) /\ Line' = Upward' \o r
  <2>1. TypeOK'
    BY TypeStep
  <2> QED
    BY <2>1, PacketsType DEF TypeOK, Upward, Line, Packets
<1>3. Thins(Upward', Upward)
  BY UpwardLoses
<1>4. \/ Thins(r, q)
      \/ \E b \in Packet : Newcomer(b) /\ Thins(r, q \o <<b>>)
  BY QueueThins
<1> HIDE DEF q, r
<1>5. CASE Thins(r, q)
  BY <1>1, <1>2, <1>3, <1>5, ThinsConcat
<1>6. ASSUME NEW b \in Packet, Newcomer(b), Thins(r, q \o <<b>>)
      PROVE  Thins(Line', Line \o <<b>>)
  <2>1. q \o <<b>> \in Seq(Packet) /\ <<b>> \in Seq(Packet)
    BY <1>1, ConcatOne, SingleProperties
  <2>2. Thins(Upward' \o r, Upward \o (q \o <<b>>))
    BY <1>1, <1>2, <1>3, <1>6, <2>1, ThinsConcat
  <2>3. Upward \o (q \o <<b>>) = (Upward \o q) \o <<b>>
    BY <1>1, <2>1, PacketsInARow
  <2> QED
    BY <1>1, <1>2, <2>2, <2>3
<1>7. Line \in Seq(Packet) /\ Line' \in Seq(Packet)
  BY <1>1, <1>2
<1>8. \/ Thins(Line', Line)
      \/ \E b \in Packet : Newcomer(b) /\ Thins(Line', Line \o <<b>>)
  BY <1>4, <1>5, <1>6
<1> QED
  BY <1>7, <1>8

(* mqtt_cli_outgoing moves what is not acknowledged to the batch.          *)
LEMMA OutgoingLine ==
  ASSUME TypeOK, ConnectInv, AtRest, Outgoing,
         NEW A, NEW B, DupBlind(A), DupBlind(B),
         \A b \in A \cup B : ~Acknowledged(b)
  PROVE  /\ Has(Line', A) => Has(Line, A)
         /\ Lone(Line, A) => Lone(Line', A)
         /\ NotBefore(Line, A, B) => NotBefore(Line', A, B)
         /\ Line \in Seq(Packet) /\ Line' \in Seq(Packet)
<1> DEFINE q == Packets(padding)
           r == Packets(padding')
           b == Batch(padding)
           u == Upward \o b
<1>1. /\ Upward \in Seq(Packet) /\ q \in Seq(Packet) /\ Line = Upward \o q
      /\ padding \in Seq(Node)
  BY LineType DEF Line, TypeOK
<1>2. Upward' = u /\ b \in Seq(Packet) /\ u \in Seq(Packet)
  BY <1>1, OutgoingMoves
<1>3. padding' \in Seq(Node)
  BY OutgoingType DEF TypeOK
<1>4. r \in Seq(Packet) /\ Line' = u \o r
  BY <1>2, <1>3, PacketsType DEF Line, Packets
<1>5. Thins(u, Line)
  <2>1. Thins(b, q) /\ Thins(Upward, Upward)
    BY <1>1, BatchProperties, ThinsSelf
  <2> HIDE DEF q, b
  <2> QED
    BY <1>1, <1>2, <2>1, ThinsConcat
<1>6. \A X : X \in {A, B} => ~Has(r, X)
  <2>1. \A j \in DOMAIN padding' : Acknowledged(padding'[j].b)
    BY OutgoingPlain DEF ConnectInv
  <2>2. DOMAIN r = DOMAIN padding' /\ \A j \in DOMAIN r : r[j] = padding'[j].b
    BY <1>3, PacketsType
  <2> HIDE DEF r
  <2> QED
    BY <2>1, <2>2 DEF Has
<1> HIDE DEF q, r, b, u
<1>7. Line \in Seq(Packet) /\ Line' \in Seq(Packet)
  BY <1>1, <1>2, <1>4
<1>8. /\ Has(u, A) => Has(Line, A)
      /\ Lone(Line, A) => Lone(u, A)
      /\ NotBefore(Line, A, B) => NotBefore(u, A, B)
  BY <1>2, <1>5, <1>7, ThinsProperties
<1>9. Lone(r, A) /\ NotBefore(r, A, B) /\ ~Has(r, A) /\ ~Has(r, B)
  BY <1>6 DEF Lone, NotBefore, Has
<1>10. Has(u \o r, A) => Has(Line, A)
  BY <1>2, <1>4, <1>8, <1>9, ConcatHas
<1>11. Lone(Line, A) => Lone(u \o r, A)
  BY <1>2, <1>4, <1>8, <1>9, ConcatLone
<1>12. NotBefore(Line, A, B) => NotBefore(u \o r, A, B)
  BY <1>2, <1>4, <1>8, <1>9, ConcatNotBefore
<1> QED
  BY <1>4, <1>7, <1>10, <1>11, <1>12

-----------------------------------------------------------------------------
(* Sessions.  In an open session the broker waits, for each of its own     *)
(* messages, for one packet at most: either it is on its way to the        *)
(* client's answer (an offer), or the answer is on its way.  Before the    *)
(* session opens no answer is behind the CONNECT.                          *)
AckTypes    == {"PUBACK", "PUBREC", "PUBCOMP"}
AllAcks     == {b \in Packet : b.type \in AckTypes}
Connects    == {b \in Packet : b.type = "CONNECT"}
AllOffers   == {p \in Packet : Acknowledged(p)}
Acks(k)     == {b \in AllAcks : b.id = k}
Offers(k)   == {p \in AllOffers : p.id = k}

Expected(p) == IF p.type = "PUBREL" THEN "pubcomp"
               ELSE IF p.qos = 1 THEN "puback" ELSE "pubrec"

WrongAcks(k, st)   == {b \in Acks(k) : Awaited[b.type] # st}
WrongOffers(k, st) == {p \in Offers(k) : Expected(p) # st}

Settled(k) ==
  /\ Lone(Line, Acks(k)) /\ Lone(Downward, Offers(k))
  /\ ~(Has(Line, Acks(k)) /\ Has(Downward, Offers(k)))
  /\ Has(Line, Acks(k)) \/ Has(Downward, Offers(k)) => k \in 1..ins
  /\ ~Has(Line, WrongAcks(k, inflight[k]))
  /\ ~Has(Downward, WrongOffers(k, inflight[k]))

SessionInv ==
  /\ session = "open" => \A k \in Nat : Settled(k)
  /\ session = "new" => /\ ~Has(Downward, AllOffers)
                        /\ NotBefore(Line, Connects, AllAcks)

LEMMA AcksBlind ==
  ASSUME NEW k, NEW st
  PROVE  /\ DupBlind(AllAcks) /\ DupBlind(Connects) /\ DupBlind(Acks(k))
         /\ DupBlind(WrongAcks(k, st))
         /\ Acks(k) \subseteq AllAcks /\ WrongAcks(k, st) \subseteq Acks(k)
         /\ Offers(k) \subseteq AllOffers /\ WrongOffers(k, st) \subseteq Offers(k)
         /\ \A b \in AllAcks \cup Connects : ~Acknowledged(b)
<1>1. DupBlind(AllAcks) /\ DupBlind(Connects)
  BY DEF DupBlind, AllAcks, Connects, Same
<1>2. DupBlind(Acks(k))
  BY DEF DupBlind, Acks, AllAcks, Same
<1>3. DupBlind(WrongAcks(k, st))
  BY DEF DupBlind, WrongAcks, Acks, AllAcks, Same
<1>4. \A b \in AllAcks \cup Connects : ~Acknowledged(b)
  BY DEF AllAcks, Connects, AckTypes, Acknowledged
<1> QED
  BY <1>1, <1>2, <1>3, <1>4 DEF Acks, WrongAcks, Offers, WrongOffers

LEMMA HasMore ==
  ASSUME NEW s, NEW A, NEW B, A \subseteq B, Has(s, A)
  PROVE  Has(s, B)
BY DEF Has

LEMMA NoneIsLone ==
  ASSUME NEW s, NEW A, ~Has(s, A)
  PROVE  Lone(s, A)
BY DEF Has, Lone

(* A step that brings neither an answer nor an offer for message k.        *)
LEMMA SettledMoves ==
  ASSUME NEW k \in Nat, Settled(k),
         Lone(Line', Acks(k)), Lone(Downward', Offers(k)),
         \A A \in {Acks(k), WrongAcks(k, inflight[k])} : Has(Line', A) => Has(Line, A),
         \A A \in {Offers(k), WrongOffers(k, inflight[k])} :
           Has(Downward', A) => Has(Downward, A),
         k \in 1..ins => k \in 1..ins' /\ inflight'[k] = inflight[k]
  PROVE  Settled(k)'
<1>1. CASE k \in 1..ins
  BY <1>1 DEF Settled
<1>2. CASE k \notin 1..ins
  <2>1. ~Has(Line', Acks(k)) /\ ~Has(Downward', Offers(k))
    BY <1>2 DEF Settled
  <2>2. /\ ~Has(Line', WrongAcks(k, inflight'[k]))
        /\ ~Has(Downward', WrongOffers(k, inflight'[k]))
    BY <2>1, AcksBlind, HasMore
  <2> QED
    BY <2>1, <2>2, NoneIsLone DEF Settled
<1> QED
  BY <1>1, <1>2

(* What a step adds at the end of the line changes nothing for a set       *)
(* it is not in.                                                           *)
LEMMA LineKeeps ==
  ASSUME TypeOK, AtRest, ConnectInv, [Next]_vars,
         NEW A, NEW B, DupBlind(A), DupBlind(B), \A b \in A \cup B : ~Acknowledged(b),
         \A b \in Packet : Newcomer(b) => b \notin B
  PROVE  NotBefore(Line, A, B) => NotBefore(Line', A, B)
<1>1. CASE Outgoing
  BY <1>1, OutgoingLine
<1>2. CASE ~Outgoing
  <2>1. Line \in Seq(Packet) /\ Line' \in Seq(Packet)
    BY <1>2, LineMoves
  <2>2. ASSUME Thins(Line', Line), NotBefore(Line, A, B) PROVE NotBefore(Line', A, B)
    BY <2>1, <2>2, ThinsProperties
  <2>3. ASSUME NEW b \in Packet, Newcomer(b), Thins(Line', Line \o <<b>>),
               NotBefore(Line, A, B)
        PROVE  NotBefore(Line', A, B)
    <3>1. <<b>> \in Seq(Packet) /\ NotBefore(<<b>>, A, B) /\ ~Has(<<b>>, B)
      BY <2>3, SingleProperties
    <3>2. NotBefore(Line \o <<b>>, A, B) /\ Line \o <<b>> \in Seq(Packet)
      BY <2>1, <2>3, <3>1, ConcatNotBefore, ConcatOne
    <3> QED
      BY <2>1, <2>3, <3>2, ThinsProperties
  <2> QED
    BY <1>2, <2>2, <2>3, LineMoves
<1> QED
  BY <1>1, <1>2

LEMMA LineHas ==
  ASSUME TypeOK, AtRest, ConnectInv, [Next]_vars,
         NEW A, DupBlind(A), \A b \in A : ~Acknowledged(b),
         \A b \in Packet : Newcomer(b) => b \notin A
  PROVE  /\ Has(Line', A) => Has(Line, A)
         /\ Lone(Line, A) => Lone(Line', A)
<1>1. CASE Outgoing
  BY <1>1, OutgoingLine
<1>2. CASE ~Outgoing
  <2>1. Line \in Seq(Packet) /\ Line' \in Seq(Packet)
    BY <1>2, LineMoves
  <2>2. CASE Thins(Line', Line)
    BY <2>1, <2>2, ThinsProperties
  <2>3. ASSUME NEW b \in Packet, Newcomer(b), Thins(Line', Line \o <<b>>)
        PROVE  /\ Has(Line', A) => Has(Line, A)
               /\ Lone(Line, A) => Lone(Line', A)
    <3>1. <<b>> \in Seq(Packet) /\ Lone(<<b>>, A) /\ ~Has(<<b>>, A)
      BY <2>3, SingleProperties
    <3>2. /\ Lone(Line, A) => Lone(Line \o <<b>>, A)
          /\ Has(Line \o <<b>>, A) => Has(Line, A)
          /\ Line \o <<b>> \in Seq(Packet)
      BY <2>1, <2>3, <3>1, ConcatLone, ConcatHas, ConcatOne
    <3> QED
      BY <2>1, <2>3, <3>2, ThinsProperties
  <2> QED
    BY <1>2, <2>2, <2>3, LineMoves
<1> QED
  BY <1>1, <1>2

(* An acknowledgement is queued only for an offer being handled.           *)
LEMMA NewAck ==
  ASSUME TypeOK, NEW b \in AllAcks, Newcomer(b)
  PROVE  /\ \E types : Handle(types)
         /\ Head(inb) \in Offers(b.id) /\ Expected(Head(inb)) = Awaited[b.type]
<1>1. b.type \in {"PUBACK", "PUBREC", "PUBCOMP"}
  BY DEF AllAcks, AckTypes
<1>2. \/ /\ OnPublish /\ Head(inb).qos > 0 /\ b.type = Reply[Head(inb).qos]
         /\ b.id = Head(inb).id
      \/ OnPubrel /\ b.type = "PUBCOMP" /\ b.id = Head(inb).id
  <2>1. /\ b.type # "PUBLISH" /\ b.type # "PUBREL" /\ b.type # "CONNECT"
        /\ b.type \in Exchanging \cup {"CONNECT"}
    BY <1>1 DEF Exchanging
  <2> QED
    BY <2>1 DEF Newcomer
<1>3. CASE OnPublish /\ Head(inb).qos > 0 /\ b.type = Reply[Head(inb).qos]
           /\ b.id = Head(inb).id
  <2>1. Handle({"PUBLISH"}) /\ Head(inb) \in Packet /\ Head(inb).type = "PUBLISH"
    BY <1>3, HandleMoves DEF OnPublish, Handle
  <2>2. Head(inb).qos \in {1, 2}
    BY <1>3, <2>1 DEF Packet
  <2>3. Expected(Head(inb)) = Awaited[b.type]
    BY <1>3, <2>1, <2>2 DEF Expected, Awaited, Reply
  <2> QED
    BY <1>3, <2>1, <2>3 DEF Offers, AllOffers, Acknowledged
<1>4. CASE OnPubrel /\ b.type = "PUBCOMP" /\ b.id = Head(inb).id
  <2>1. Handle({"PUBREL"}) /\ Head(inb) \in Packet /\ Head(inb).type = "PUBREL"
    BY <1>4, HandleMoves DEF OnPubrel, Handle
  <2> QED
    BY <1>4, <2>1 DEF Offers, AllOffers, Acknowledged, Expected, Awaited
<1> QED
  BY <1>2, <1>3, <1>4

(* The broker offers nothing but its own messages, and PUBRELs.            *)
LEMMA OffersMove ==
  ASSUME TypeOK, AtRest, [Next]_vars, ~BrokerAcked, \A q \in InQos : ~BrokerSend(q),
         NEW A \in SUBSET AllOffers
  PROVE  /\ Has(Downward', A) => Has(Downward, A)
         /\ Lone(Downward, A) => Lone(Downward', A)
<1>1. Downward \in Seq(Packet)
  BY LineType
<1>2. Downward' \in Seq(Packet)
  BY TypeStep DEF TypeOK, Downward
<1>3. ASSUME Chunk(Downward', Downward)
      PROVE  /\ Has(Downward', A) => Has(Downward, A)
             /\ Lone(Downward, A) => Lone(Downward', A)
  BY <1>1, <1>2, <1>3, ChunkProperties
<1>4. ASSUME NEW r \in Seq(Packet), Downward' = Downward \o r, ~Has(r, A)
      PROVE  /\ Has(Downward', A) => Has(Downward, A)
             /\ Lone(Downward, A) => Lone(Downward', A)
  BY <1>1, <1>4, NoneIsLone, ConcatHas, ConcatLone
<1>5. ASSUME NEW p \in Packet, p.type \notin {"PUBLISH", "PUBREL"}
      PROVE  <<p>> \in Seq(Packet) /\ ~Has(<<p>>, A)
  <2>1. p \notin A
    BY <1>5 DEF AllOffers, Acknowledged
  <2> QED
    BY <2>1, SingleProperties
<1>6. CASE Outgoing
  <2>1. Downward' = Downward
    BY <1>6, OutgoingMoves
  <2> QED
    BY <1>1, <1>3, <2>1, ChunkOfConcat
<1>7. CASE Reads
  <2>1. PICK r \in Seq(Packet) : /\ Replies(r)
                                 /\ r = <<>> \/ \E p \in Packet : r = <<p>> /\ Answer(p)
    BY <1>7, ReadAnswer
  <2>2. Downward' = Downward \o r
    BY <1>7, <2>1, ReadAnswer, ReadMoves
  <2>3. ~Has(r, A)
    <3>1. CASE r = <<>>
      BY <3>1, EmptyProperties
    <3>2. ASSUME NEW p \in Packet, r = <<p>>, Answer(p) PROVE ~Has(r, A)
      BY <1>5, <3>2, AnswersDomain DEF Answer, Exchanging
    <3> QED
      BY <2>1, <3>1, <3>2
  <2> QED
    BY <1>4, <2>2, <2>3
<1>8. CASE Speaks
  <2>1. PICK p \in Packet : Downward' = Downward \o <<p>> /\ p.type = "REFUSED"
    BY <1>8, SpeaksMoves
  <2> QED
    BY <1>4, <1>5, <2>1
<1>9. ASSUME NEW types, Handle(types)
      PROVE  Chunk(Downward', Downward)
  <2>1. Downward # <<>> /\ Downward' = Tail(Downward)
    BY <1>9, HandleMoves
  <2> QED
    BY <1>1, <2>1, TailProperties
<1> QED
  BY <1>3, <1>6, <1>7, <1>8, <1>9, LineLoses

LEMMA ReadLine ==
  ASSUME TypeOK, Reads
  PROVE  /\ Line \in Seq(Packet) /\ Line # <<>> /\ Head(Line) = Head(c2s)
         /\ Line' = Tail(Line) /\ Head(c2s) \in Elems(Line)
<1>1. PICK r \in Seq(Packet) : Replies(r)
  BY ReadAnswer
<1>2. /\ c2s # <<>> /\ UNCHANGED <<padding, out, inb>>
      /\ Upward \in Seq(Packet) /\ Packets(padding) \in Seq(Packet)
  BY ReadAnswer, LineType
<1>3. Upward # <<>> /\ Head(Upward) = Head(c2s) /\ Upward' = Tail(Upward)
  BY <1>1, <1>2, ReadMoves
<1>4. Packets(padding') = Packets(padding) /\ Line' = Upward' \o Packets(padding')
  BY <1>2 DEF Line, Packets
<1>5. /\ Line \in Seq(Packet) /\ Line # <<>> /\ Head(Line) = Head(c2s)
      /\ Line' = Tail(Line)
  BY <1>2, <1>3, <1>4, ConcatTail DEF Line
<1> QED
  BY <1>5, TailProperties

LEMMA AckedSettled ==
  ASSUME TypeOK, BrokerAcked, NEW k \in Nat, Settled(k)
  PROVE  Settled(k)'
<1> DEFINE h == Head(c2s)
           r == IF h.type = "PUBREC" THEN <<Pkt("PUBREL", h.id)>> ELSE <<>>
<1>1. /\ Reads /\ Replies(r) /\ c2s # <<>> /\ UNCHANGED <<out, inb, ins>>
      /\ h.type \in DOMAIN Awaited
      /\ inflight' = [inflight EXCEPT ![h.id] =
                        IF h.type = "PUBREC" THEN "pubcomp" ELSE "nothing"]
  BY DEF Reads, BrokerAcked, loop, bounds
<1>2. h \in Packet /\ h.id \in Nat /\ h \in Acks(h.id)
  <2>1. h \in Packet
    BY <1>1, HeadType
  <2> QED
    BY <1>1, <2>1 DEF Awaited, Acks, AllAcks, AckTypes, Packet
<1>3. /\ Line \in Seq(Packet) /\ Line # <<>> /\ Head(Line) = h /\ Line' = Tail(Line)
      /\ h \in Elems(Line) /\ Downward \in Seq(Packet)
  BY <1>1, ReadLine, LineType
<1>4. Chunk(Tail(Line), Line) /\ Tail(Line) \in Seq(Packet)
  BY <1>3, TailProperties
<1>5. r \in Seq(Packet)
      /\ \A A : Lone(r, A) /\ (Has(r, A) => h.type = "PUBREC" /\ Pkt("PUBREL", h.id) \in A)
  <2>1. Pkt("PUBREL", h.id) \in Packet
    BY <1>2, PktType DEF PacketTypes
  <2>2. \A A : ~Has(<<>>, A) /\ Lone(<<>>, A)
    BY EmptyProperties
  <2> DEFINE p == Pkt("PUBREL", h.id)
  <2> HIDE DEF p
  <2>3. /\ <<p>> \in Seq(Packet) /\ <<>> \in Seq(Packet)
        /\ \A A : Lone(<<p>>, A) /\ (Has(<<p>>, A) <=> p \in A)
    BY <2>1, SingleProperties DEF p
  <2>4. CASE h.type = "PUBREC"
    BY <2>3, <2>4 DEF p
  <2>5. CASE h.type # "PUBREC"
    BY <2>2, <2>3, <2>5
  <2> QED
    BY <2>4, <2>5
<1>6. Pkt("PUBREL", h.id).id = h.id /\ Pkt("PUBREL", h.id).type = "PUBREL"
  BY DEF Pkt
<1> DEFINE p == Pkt("PUBREL", h.id)
<1> HIDE DEF r, h, p
<1>7. Downward' = Downward \o r
  BY <1>1, <1>5, ReadMoves DEF h
<1>8. CASE h.id # k
  <2>1. ~Has(r, Offers(k)) /\ ~Has(r, WrongOffers(k, inflight[k]))
    BY <1>5, <1>6, <1>8 DEF Offers, WrongOffers
  <2>2. /\ Lone(Downward', Offers(k))
        /\ \A A \in {Offers(k), WrongOffers(k, inflight[k])} :
             Has(Downward', A) => Has(Downward, A)
    BY <1>3, <1>5, <1>7, <2>1, ConcatLone, ConcatHas DEF Settled
  <2>3. /\ Lone(Line', Acks(k))
        /\ \A A \in {Acks(k), WrongAcks(k, inflight[k])} : Has(Line', A) => Has(Line, A)
    BY <1>3, <1>4, ChunkProperties DEF Settled
  <2>4. ins' = ins /\ inflight'[k] = inflight[k]
    BY <1>1, <1>8 DEF TypeOK
  <2> QED
    BY <2>2, <2>3, <2>4, SettledMoves
<1>9. CASE h.id = k
  <2>1. Has(Line, Acks(k))
    BY <1>2, <1>3, <1>9 DEF Has, Elems
  <2>2. ~Has(Line', Acks(k)) /\ ~Has(Line', WrongAcks(k, inflight'[k]))
    <3>1. ~Has(Line', Acks(k))
      BY <1>2, <1>3, <1>9, TailProperties DEF Settled
    <3> QED
      BY <3>1, AcksBlind, HasMore
  <2>3. ~Has(Downward, Offers(k)) /\ k \in 1..ins
    BY <2>1 DEF Settled
  <2>4. inflight'[k] = IF h.type = "PUBREC" THEN "pubcomp" ELSE "nothing"
    <3>1. k \in 1..MaxIn
      BY <2>3, SizeAssumption DEF TypeOK
    <3> QED
      BY <1>1, <1>9, <3>1 DEF TypeOK
  <2>5. Lone(Downward', Offers(k))
    BY <1>3, <1>5, <1>7, <2>3, NoneIsLone, ConcatLone
  <2>6. ~Has(r, WrongOffers(k, inflight'[k]))
    <3>1. h.type = "PUBREC" => p \notin WrongOffers(k, inflight'[k])
      BY <1>6, <2>4 DEF WrongOffers, Expected, p
    <3> QED
      BY <1>5, <3>1 DEF p
  <2>7. ~Has(Downward', WrongOffers(k, inflight'[k]))
    <3>1. ~Has(Downward, WrongOffers(k, inflight'[k]))
      BY <2>3, AcksBlind, HasMore
    <3> QED
      BY <1>3, <1>5, <1>7, <2>6, <3>1, ConcatHas
  <2>8. Lone(Line', Acks(k)) /\ ins' = ins
    BY <1>1, <2>2, NoneIsLone
  <2> QED
    BY <2>2, <2>3, <2>5, <2>7, <2>8 DEF Settled
<1> QED
  BY <1>8, <1>9

LEMMA SendSettled ==
  ASSUME TypeOK, NEW q \in InQos, BrokerSend(q), NEW k \in Nat, Settled(k)
  PROVE  Settled(k)'
<1>1. PICK p \in Packet :
        /\ Downward' = Downward \o <<p>>
        /\ \/ BrokerRefuse /\ p.type = "REFUSED"
           \/ \E x \in InQos : /\ BrokerSend(x)
                               /\ p.type = "PUBLISH" /\ p.qos = x
                               /\ p.id = IF x = 0 THEN 0 ELSE ins + 1
  BY SpeaksMoves DEF Speaks
<1>2. PICK x \in InQos : /\ BrokerSend(x)
                         /\ p.type = "PUBLISH" /\ p.qos = x
                         /\ p.id = IF x = 0 THEN 0 ELSE ins + 1
  <2>1. ~BrokerRefuse
    BY DEF BrokerRefuse, BrokerSend
  <2> QED
    BY <1>1, <2>1
<1>3. ins \in 0..MaxIn /\ MaxIn \in Nat /\ x \in 0..2 /\ ins < MaxIn /\ ins' = ins + 1
      /\ inflight' = [inflight EXCEPT ![ins + 1] = <<"nothing", "puback", "pubrec">>[x + 1]]
  BY <1>2, SizeAssumption DEF TypeOK, BrokerSend
<1>4. Line' = Line /\ Downward \in Seq(Packet)
  <2>1. UNCHANGED <<c2s, out, padding>>
    BY DEF BrokerSend, client, loop
  <2> QED
    BY <2>1, LineType DEF Line, Upward, Packets
<1>5. \A A : <<p>> \in Seq(Packet) /\ Lone(<<p>>, A) /\ (Has(<<p>>, A) <=> p \in A)
  BY SingleProperties
<1>6. CASE k # ins + 1
  <2>1. p \notin Offers(k) /\ p \notin WrongOffers(k, inflight[k])
    BY <1>2, <1>6 DEF WrongOffers, Offers, AllOffers, Acknowledged
  <2>2. /\ Lone(Downward', Offers(k))
        /\ \A A \in {Offers(k), WrongOffers(k, inflight[k])} :
             Has(Downward', A) => Has(Downward, A)
    BY <1>1, <1>4, <1>5, <2>1, ConcatLone, ConcatHas DEF Settled
  <2>3. k \in 1..ins => k \in 1..ins' /\ inflight'[k] = inflight[k]
    BY <1>3, <1>6 DEF TypeOK
  <2> QED
    BY <1>4, <2>2, <2>3, SettledMoves DEF Settled
<1>7. CASE k = ins + 1
  <2>1. ~Has(Line, Acks(k)) /\ ~Has(Downward, Offers(k)) /\ k \in 1..ins'
    <3>1. k \notin 1..ins /\ k \in 1..ins'
      BY <1>3, <1>7
    <3> QED
      BY <3>1 DEF Settled
  <2>2. ~Has(Line', WrongAcks(k, inflight'[k])) /\ ~Has(Downward, WrongOffers(k, inflight'[k]))
    BY <1>4, <2>1, AcksBlind, HasMore
  <2>3. p \notin WrongOffers(k, inflight'[k])
    <3>1. inflight'[k] = <<"nothing", "puback", "pubrec">>[x + 1]
      BY <1>3, <1>7 DEF TypeOK
    <3>2. CASE x = 0
      BY <1>2, <3>2 DEF WrongOffers, Offers, AllOffers, Acknowledged
    <3>3. CASE x = 1
      BY <1>2, <3>1, <3>3 DEF WrongOffers, Expected
    <3>4. CASE x = 2
      BY <1>2, <3>1, <3>4 DEF WrongOffers, Expected
    <3> QED
      BY <1>3, <3>2, <3>3, <3>4
  <2>4. Lone(Downward', Offers(k)) /\ ~Has(Downward', WrongOffers(k, inflight'[k]))
    BY <1>1, <1>4, <1>5, <2>1, <2>2, <2>3, NoneIsLone, ConcatLone, ConcatHas
  <2> QED
    BY <1>4, <2>1, <2>2, <2>4 DEF Settled
<1> QED
  BY <1>6, <1>7

(* The client handles an offer and queues the answer.                      *)
LEMMA AnsweredSettled ==
  ASSUME TypeOK, AtRest, [Next]_vars, NEW k \in Nat, Settled(k),
         NEW b \in Acks(k), Newcomer(b)
  PROVE  Settled(k)'
<1>1. b \in AllAcks /\ b.id = k /\ b \in Packet
  BY DEF Acks, AllAcks
<1>2. PICK types : Handle(types)
  BY <1>1, NewAck
<1>3. Head(inb) \in Offers(k) /\ Expected(Head(inb)) = Awaited[b.type]
  BY <1>1, NewAck
<1>4. /\ Downward \in Seq(Packet) /\ Downward # <<>> /\ Head(Downward) = Head(inb)
      /\ Downward' = Tail(Downward) /\ Head(Downward) \in Elems(Downward)
  BY <1>2, LineType, HandleMoves, TailProperties
<1>5. Has(Downward, Offers(k))
  BY <1>3, <1>4 DEF Has, Elems
<1>6. /\ ~Has(Downward', Offers(k)) /\ ~Has(Line, Acks(k)) /\ k \in 1..ins
      /\ Expected(Head(inb)) = inflight[k]
  <2>1. ~Has(Downward', Offers(k))
    BY <1>3, <1>4, TailProperties DEF Settled
  <2>2. Head(inb) \notin WrongOffers(k, inflight[k])
    BY <1>4 DEF Settled, Has, Elems
  <2> QED
    BY <1>3, <1>5, <2>1, <2>2 DEF Settled, WrongOffers
<1>7. ins' = ins /\ inflight' = inflight /\ ~Outgoing
  BY <1>2 DEF Handle, bounds, broker, Outgoing
<1>8. ~Has(Downward', WrongOffers(k, inflight[k])) /\ Lone(Downward', Offers(k))
  BY <1>6, AcksBlind, HasMore, NoneIsLone
<1>9. /\ Line \in Seq(Packet) /\ Line' \in Seq(Packet)
      /\ \/ Thins(Line', Line)
         \/ \E c \in Packet : Newcomer(c) /\ Thins(Line', Line \o <<c>>)
  BY <1>7, LineMoves
<1>10. Lone(Line', Acks(k)) /\ ~Has(Line', WrongAcks(k, inflight[k]))
  <2> DEFINE W == WrongAcks(k, inflight[k])
  <2>1. DupBlind(Acks(k)) /\ DupBlind(W) /\ W \subseteq Acks(k) /\ ~Has(Line, W)
    BY AcksBlind DEF Settled
  <2>2. ASSUME NEW c \in Packet, Newcomer(c)
        PROVE  c \notin W
    <3>1. c \in Acks(k) => Awaited[c.type] = inflight[k]
      BY <1>6, <2>2, NewAck DEF Acks
    <3> QED
      BY <3>1 DEF WrongAcks
  <2> HIDE DEF W
  <2>3. CASE Thins(Line', Line)
    <3>1. ~Has(Line', Acks(k)) /\ ~Has(Line', W)
      BY <1>6, <1>9, <2>1, <2>3, ThinsProperties
    <3> QED
      BY <3>1, NoneIsLone DEF W
  <2>4. ASSUME NEW c \in Packet, Newcomer(c), Thins(Line', Line \o <<c>>)
        PROVE  Lone(Line', Acks(k)) /\ ~Has(Line', W)
    <3>1. <<c>> \in Seq(Packet) /\ Lone(<<c>>, Acks(k)) /\ ~Has(<<c>>, W)
      BY <2>2, <2>4, SingleProperties
    <3>2. /\ Line \o <<c>> \in Seq(Packet)
          /\ Lone(Line \o <<c>>, Acks(k)) /\ ~Has(Line \o <<c>>, W)
      BY <1>6, <1>9, <2>1, <2>4, <3>1, NoneIsLone, ConcatOne, ConcatLone, ConcatHas
    <3> QED
      BY <1>9, <2>1, <2>4, <3>2, ThinsProperties
  <2> QED
    BY <1>9, <2>3, <2>4 DEF W
<1> QED
  BY <1>6, <1>7, <1>8, <1>10 DEF Settled

LEMMA OpenStep ==
  ASSUME TypeOK, AtRest, ConnectInv, [Next]_vars, ~TcpConnect, ~BrokerAccept,
         NEW k \in Nat, Settled(k)
  PROVE  Settled(k)'
<1>1. CASE BrokerAcked
  BY <1>1, AckedSettled
<1>2. CASE \E q \in InQos : BrokerSend(q)
  BY <1>2, SendSettled
<1>3. CASE \E b \in Acks(k) : Newcomer(b)
  BY <1>3, AnsweredSettled
<1>4. CASE /\ ~BrokerAcked /\ \A q \in InQos : ~BrokerSend(q)
           /\ \A b \in Acks(k) : ~Newcomer(b)
  <2>1. \A A \in {Acks(k), WrongAcks(k, inflight[k])} :
          /\ Has(Line', A) => Has(Line, A)
          /\ Lone(Line, A) => Lone(Line', A)
    <3> DEFINE W == WrongAcks(k, inflight[k])
    <3>1. /\ DupBlind(Acks(k)) /\ DupBlind(W) /\ W \subseteq Acks(k)
          /\ \A b \in Acks(k) : ~Acknowledged(b)
      BY AcksBlind
    <3> HIDE DEF W
    <3>2. ASSUME NEW A, DupBlind(A), A \subseteq Acks(k)
          PROVE  (Has(Line', A) => Has(Line, A)) /\ (Lone(Line, A) => Lone(Line', A))
      BY <1>4, <3>1, <3>2, LineHas
    <3> QED
      BY <3>1, <3>2 DEF W
  <2>2. \A A \in {Offers(k), WrongOffers(k, inflight[k])} :
          /\ Has(Downward', A) => Has(Downward, A)
          /\ Lone(Downward, A) => Lone(Downward', A)
    BY <1>4, AcksBlind, OffersMove
  <2>3. ins' = ins /\ inflight' = inflight
    BY <1>4 DEF Next, MainLoop, Hello, Outgoing, Send, RecvData, RecvTimeout, RecvEnd,
       IncomingEnd, HandlePacket, OnConnack, OnPublish, OnAck, OnPubrec, OnPubrel,
       OnUnsuback, OnSuback, OnPingresp, Handle, Rejected, Elapsed, ElapsedPingLost,
       ElapsedCheck, Close, Environment, Publish, Unsubscribe, BrokerRecv, BrokerRefuse,
       BrokerClose, BrokerPublished, BrokerReleased, BrokerPinged, BrokerSubscribed,
       BrokerUnsubscribed, Drop, vars, broker, bounds
  <2> QED
    BY <2>1, <2>2, <2>3, SettledMoves DEF Settled
<1> QED
  BY <1>1, <1>2, <1>3, <1>4

LEMMA NewStep ==
  ASSUME TypeOK, AtRest, ConnectInv, [Next]_vars, ~TcpConnect, ~BrokerAccept,
         session = "new", ~Has(Downward, AllOffers), NotBefore(Line, Connects, AllAcks)
  PROVE  ~Has(Downward', AllOffers) /\ NotBefore(Line', Connects, AllAcks)
<1>1. ~BrokerAcked /\ \A q \in InQos : ~BrokerSend(q)
  BY DEF BrokerAcked, BrokerSend
<1>2. ~Has(Downward', AllOffers)
  BY <1>1, OffersMove
<1>3. ASSUME NEW b \in AllAcks, Newcomer(b) PROVE FALSE
  <2>1. PICK types : Handle(types)
    BY <1>3, NewAck
  <2>2. /\ Downward \in Seq(Packet) /\ Downward # <<>> /\ Head(Downward) = Head(inb)
        /\ Head(Downward) \in Elems(Downward)
    BY <2>1, LineType, HandleMoves, TailProperties
  <2>3. Head(inb) \in AllOffers
    BY <1>3, NewAck DEF Offers
  <2> QED
    BY <2>2, <2>3 DEF Has, Elems
<1>4. DupBlind(AllAcks) /\ DupBlind(Connects) /\ \A b \in Connects \cup AllAcks : ~Acknowledged(b)
  BY AcksBlind
<1>5. NotBefore(Line', Connects, AllAcks)
  BY <1>3, <1>4, LineKeeps
<1> QED
  BY <1>2, <1>5

(* A new connection: nothing is left of the answers to the one before but  *)
(* what waits in the queue, ahead of the CONNECT.                          *)
LEMMA ConnectNew ==
  ASSUME TypeOK, AtRest, ConnectInv, TcpConnect
  PROVE  /\ session' = "new" /\ ~Has(Downward', AllOffers)
         /\ NotBefore(Line', Connects, AllAcks)
<1> DEFINE q == Packets(padding)
<1>1. Upward' = <<>> /\ Downward' = <<>> /\ padding' = padding /\ q \in Seq(Packet)
  BY ConnectEmpty, LineType
<1>2. Line' = q
  <2>1. Line' = <<>> \o q
    BY <1>1 DEF Line, Packets
  <2> HIDE DEF q
  <2> QED
    BY <1>1, <2>1, ConcatEmptySeq
<1>3. ~Has(q, Connects)
  <2>1. Connecting(padding) = {}
    BY DEF ConnectInv, TcpConnect
  <2> QED
    BY <2>1, LineType DEF Has, Connects, Connecting
<1> HIDE DEF q
<1>4. NotBefore(q, Connects, AllAcks)
  BY <1>3 DEF Has, NotBefore
<1>5. ~Has(<<>>, AllOffers)
  BY EmptyProperties
<1> QED
  BY <1>1, <1>2, <1>4, <1>5 DEF TcpConnect

LEMMA AcceptSettled ==
  ASSUME TypeOK, BrokerAccept, ~Has(Downward, AllOffers),
         NotBefore(Line, Connects, AllAcks), NEW k \in Nat
  PROVE  Settled(k)'
<1>1. /\ Reads /\ c2s # <<>> /\ Head(c2s).type = "CONNECT" /\ UNCHANGED <<out, inb>>
      /\ Replies(<<Pkt("CONNACK", 0)>>)
  BY DEF Reads, BrokerAccept, BrokerGets, loop
<1>2. Head(c2s) \in Connects
  BY <1>1, HeadType DEF Connects
<1>3. /\ Line \in Seq(Packet) /\ Line # <<>> /\ Head(Line) = Head(c2s) /\ Line' = Tail(Line)
      /\ Downward \in Seq(Packet)
  BY <1>1, ReadLine, LineType
<1>4. ~Has(Line', AllAcks)
  BY <1>2, <1>3, TailProperties
<1>5. Pkt("CONNACK", 0) \in Packet /\ Pkt("CONNACK", 0) \notin AllOffers
  BY PktType DEF PacketTypes, Pkt, AllOffers, Acknowledged
<1> DEFINE p == Pkt("CONNACK", 0)
<1> HIDE DEF p
<1>6. <<p>> \in Seq(Packet) /\ ~Has(<<p>>, AllOffers)
  BY <1>5, SingleProperties DEF p
<1>7. Downward' = Downward \o <<p>>
  BY <1>1, <1>6, ReadMoves DEF p
<1>8. ~Has(Downward', AllOffers)
  BY <1>3, <1>6, <1>7, ConcatHas
<1>9. \A st : /\ ~Has(Line', Acks(k)) /\ ~Has(Line', WrongAcks(k, st))
              /\ ~Has(Downward', Offers(k)) /\ ~Has(Downward', WrongOffers(k, st))
  <2> SUFFICES ASSUME NEW st
               PROVE  /\ ~Has(Line', Acks(k)) /\ ~Has(Line', WrongAcks(k, st))
                      /\ ~Has(Downward', Offers(k)) /\ ~Has(Downward', WrongOffers(k, st))
    OBVIOUS
  <2>1. /\ Acks(k) \subseteq AllAcks /\ WrongAcks(k, st) \subseteq AllAcks
        /\ Offers(k) \subseteq AllOffers /\ WrongOffers(k, st) \subseteq AllOffers
    BY AcksBlind
  <2> QED
    BY <1>4, <1>8, <2>1, HasMore
<1> QED
  BY <1>9, NoneIsLone DEF Settled

LEMMA SessionStep ==
  ASSUME TypeOK, AtRest, ConnectInv, SessionInv, [Next]_vars
  PROVE  SessionInv'
<1>1. CASE TcpConnect
  BY <1>1, ConnectNew DEF SessionInv
<1>2. CASE BrokerAccept
  <2>1. session = "new" /\ session' = "open"
    BY <1>2 DEF BrokerAccept
  <2> QED
    BY <1>2, <2>1, AcceptSettled DEF SessionInv
<1>3. CASE ~TcpConnect /\ ~BrokerAccept
  <2>1. session' = session
    BY <1>3 DEF Next, MainLoop, Hello, Outgoing, Send, RecvData, RecvTimeout, RecvEnd,
       IncomingEnd, HandlePacket, OnConnack, OnPublish, OnAck, OnPubrec, OnPubrel,
       OnUnsuback, OnSuback, OnPingresp, Handle, Rejected, Elapsed, ElapsedPingLost,
       ElapsedCheck, Close, Environment, Publish, Unsubscribe, BrokerRecv, BrokerRefuse,
       BrokerClose, BrokerPublished, BrokerReleased, BrokerPinged, BrokerSubscribed,
       BrokerUnsubscribed, BrokerAcked, BrokerSend, Drop, vars, broker
  <2>2. ASSUME session = "open" PROVE \A k \in Nat : Settled(k)'
    BY <1>3, <2>2, OpenStep DEF SessionInv
  <2>3. ASSUME session = "new"
        PROVE  ~Has(Downward', AllOffers) /\ NotBefore(Line', Connects, AllAcks)
    BY <1>3, <2>3, NewStep DEF SessionInv
  <2> QED
    BY <2>1, <2>2, <2>3 DEF SessionInv
<1> QED
  BY <1>1, <1>2, <1>3

(* Whatever the client still had to acknowledge when a connection failed,  *)
(* and whatever is late, retried or lost: an acknowledgement the broker    *)
(* reads in a session is one that session waits for.  Those of an earlier  *)
(* connection leave the queue ahead of the CONNECT (mqtt_cli_connect       *)
(* appends it), and a broker that reads one there opens no session.        *)
THEOREM AcksAreForThisSession == Spec => []AcksAnswerThisSession
<1> DEFINE Inv == AtRest /\ ConnectInv /\ SessionInv
<1>1. Init => Inv
  <2> SUFFICES ASSUME Init PROVE Inv
    OBVIOUS
  <2>1. ConnectInv
    BY DEF Init, ConnectInv, Connecting, Greetings, AtMostOne
  <2>2. AtRest /\ Downward = <<>> /\ Line = <<>>
    <3>1. Upward = <<>> /\ Packets(padding) = <<>> /\ <<>> \o <<>> = <<>>
      BY EmptyLine, ConcatEmptySeq
    <3> QED
      BY <3>1, EmptyLine DEF Line
  <2>3. session = "new" /\ ~Has(<<>>, AllOffers) /\ NotBefore(<<>>, Connects, AllAcks)
    BY EmptyProperties DEF Init
  <2> QED
    BY <2>1, <2>2, <2>3 DEF SessionInv
<1>2. TypeOK /\ Inv /\ [Next]_vars => Inv'
  BY AtRestStep, ConnectStep, SessionStep
<1>3. TypeOK /\ Inv => AcksAnswerThisSession
  <2> SUFFICES ASSUME TypeOK, SessionInv, session = "open", c2s # <<>>,
                      Head(c2s).type \in DOMAIN Awaited,
                      inflight[Head(c2s).id] # Awaited[Head(c2s).type]
               PROVE  FALSE
    BY DEF AcksAnswerThisSession
  <2> DEFINE h == Head(c2s)
  <2>1. h \in Packet /\ h.id \in Nat
    BY HeadType
  <2>2. Line \in Seq(Packet) /\ h \in Elems(Line)
    <3>1. /\ c2s \in Seq(Packet) /\ out \in Seq(Packet) /\ Upward \in Seq(Packet)
          /\ Packets(padding) \in Seq(Packet)
      BY LineType DEF TypeOK
    <3>2. Upward # <<>> /\ Head(Upward) = h
      BY <3>1, ConcatTail DEF Upward
    <3>3. Line \in Seq(Packet) /\ Line # <<>> /\ Head(Line) = h
      BY <3>1, <3>2, ConcatTail DEF Line
    <3> QED
      BY <3>3, TailProperties
  <2>3. h \in WrongAcks(h.id, inflight[h.id])
    BY <2>1 DEF WrongAcks, Acks, AllAcks, AckTypes, Awaited
  <2>4. Settled(h.id)
    BY <2>1 DEF SessionInv
  <2> QED
    BY <2>2, <2>3, <2>4 DEF Settled, Has, Elems
<1> QED
  BY <1>1, <1>2, <1>3, TypeCorrect, PTL DEF Spec

-----------------------------------------------------------------------------
(* Passing a message on once.  While the identifier counter has not        *)
(* wrapped, every copy of a PUBLISH of QoS 2 in the queue or on the line   *)
(* of an open session has an identifier that the broker holds, once the    *)
(* message has been passed on: the PUBREL that makes the broker forget it  *)
(* is behind all the copies.  A PUBLISH of QoS 0 has no copy.              *)
Publishes == {b \in Packet : b.type = "PUBLISH"}
Pubs(k)   == {b \in Publishes : b.qos > 0 /\ b.id = k}
Rels(k)   == {b \in Packet : b.type = "PUBREL" /\ b.id = k}
Zeros(m)  == {b \in Publishes : b.qos = 0 /\ b.msg = m}

Ordered(k) ==
  /\ Lone(Packets(padding), Pubs(k))
  /\ ~(Has(Packets(padding), Rels(k)) /\ Has(Packets(padding), Pubs(k)))
  /\ NotBefore(Line, Rels(k), Pubs(k))

Counted ==
  /\ \A b \in Underway : b.type = "PUBLISH" => accepted[b.msg] = b.qos
  /\ \A a, b \in Underway :
       a.type = "PUBLISH" /\ b.type = "PUBLISH" /\ a.msg = b.msg => a.id = b.id
  /\ \A m \in Msgs : onward[m] > 0 => m \in DOMAIN accepted
  /\ session = "new" => \A m \in Msgs : onward[m] = 0
  /\ session = "open" => \A b \in Underway :
       b.type = "PUBLISH" /\ onward[b.msg] > 0
         => b.qos = 1 \/ (b.qos = 2 /\ b.id \in held)
  /\ \A m \in DOMAIN accepted : accepted[m] # 1 => onward[m] <= 1

OnceInv ==
  /\ \A k \in Nat : Ordered(k)
  /\ \A m \in Nat : Lone(Line, Zeros(m))
  /\ Counted

LEMMA PubsBlind ==
  ASSUME NEW k
  PROVE  /\ DupBlind(Publishes) /\ DupBlind(Pubs(k)) /\ DupBlind(Rels(k)) /\ DupBlind(Zeros(k))
         /\ \A b \in Zeros(k) : ~Acknowledged(b)
<1>1. DupBlind(Publishes)
  BY DEF DupBlind, Publishes, Same
<1>2. DupBlind(Pubs(k)) /\ DupBlind(Zeros(k))
  BY DEF DupBlind, Pubs, Zeros, Publishes, Same
<1>3. DupBlind(Rels(k))
  BY DEF DupBlind, Rels, Same
<1>4. \A b \in Zeros(k) : ~Acknowledged(b)
  BY DEF Zeros, Publishes, Acknowledged
<1> QED
  BY <1>1, <1>2, <1>3, <1>4

LEMMA ConcatApart ==
  ASSUME NEW S, NEW s \in Seq(S), NEW t \in Seq(S), NEW A, NEW B,
         NotBefore(s \o t, A, B), Has(s, A)
  PROVE  ~Has(t, B)
<1> SUFFICES ASSUME Has(t, B) PROVE FALSE
  OBVIOUS
<1>1. PICK i \in DOMAIN s : s[i] \in A
  BY DEF Has
<1>2. PICK j \in DOMAIN t : t[j] \in B
  BY DEF Has
<1>3. /\ Len(s) \in Nat /\ i \in DOMAIN (s \o t) /\ i \in Int /\ i <= Len(s)
      /\ (s \o t)[i] = s[i]
      /\ Len(s) + j \in DOMAIN (s \o t) /\ (s \o t)[Len(s) + j] = t[j]
  BY ConcatElement
<1>4. j \in Int /\ j >= 1
  <2>1. DOMAIN t = 1..Len(t)
    OBVIOUS
  <2> QED
    BY <2>1
<1>5. i < Len(s) + j
  BY <1>3, <1>4
<1> QED
  BY <1>1, <1>2, <1>3, <1>5 DEF NotBefore

LEMMA ElemsOfConcat ==
  ASSUME NEW S, NEW s \in Seq(S), NEW t \in Seq(S)
  PROVE  Elems(s \o t) = Elems(s) \cup Elems(t)
<1>1. Elems(s \o t) \subseteq Elems(s) \cup Elems(t)
  BY ElemsConcat
<1>2. Elems(s) \subseteq Elems(s \o t)
  BY ConcatElement DEF Elems
<1>3. \A i \in DOMAIN t : t[i] \in Elems(s \o t)
  <2> SUFFICES ASSUME NEW i \in DOMAIN t PROVE t[i] \in Elems(s \o t)
    OBVIOUS
  <2>1. Len(s) + i \in DOMAIN (s \o t) /\ (s \o t)[Len(s) + i] = t[i]
    BY ConcatElement
  <2> QED
    BY <2>1 DEF Elems
<1> QED
  BY <1>1, <1>2, <1>3 DEF Elems

LEMMA ElemsOfAppend ==
  ASSUME NEW s \in Seq(Packet), NEW b \in Packet
  PROVE  s \o <<b>> \in Seq(Packet) /\ Elems(s \o <<b>>) = Elems(s) \cup {b}
<1>1. <<b>> \in Seq(Packet) /\ Elems(<<b>>) = {b} /\ s \o <<b>> \in Seq(Packet)
  BY ElemsSingle
<1> DEFINE u == <<b>>
<1>2. u \in Seq(Packet) /\ Elems(u) = {b}
  BY <1>1
<1> HIDE DEF u
<1>3. Elems(s \o u) = Elems(s) \cup Elems(u)
  BY <1>2, ElemsOfConcat
<1> QED
  BY <1>1, <1>2, <1>3 DEF u

LEMMA UnderwayIsLine ==
  ASSUME TypeOK
  PROVE  /\ Underway = Elems(Line) /\ Line \in Seq(Packet)
         /\ \A A : Has(Line, A) <=> \E b \in Underway : b \in A
<1>1. /\ c2s \in Seq(Packet) /\ out \in Seq(Packet) /\ Upward \in Seq(Packet)
      /\ Packets(padding) \in Seq(Packet)
  BY LineType DEF TypeOK
<1>2. Elems(Packets(padding)) = Queued
  BY LineType DEF Elems, Queued
<1>3. Elems(Upward) = Elems(c2s) \cup Elems(out)
  BY <1>1, ElemsOfConcat DEF Upward
<1>4. Elems(Line) = Elems(Upward) \cup Elems(Packets(padding))
  BY <1>1, ElemsOfConcat DEF Line
<1>5. Underway = Elems(Line)
  BY <1>2, <1>3, <1>4 DEF Underway
<1>6. Line \in Seq(Packet)
  BY <1>1 DEF Line
<1>7. \A A : Has(Line, A) <=> \E b \in Elems(Line) : b \in A
  BY DEF Has, Elems
<1> QED
  BY <1>5, <1>6, <1>7

LEMMA UnderwayLine == TypeOK => Underway = Elems(Line)
  BY UnderwayIsLine

LEMMA ThinsElems ==
  ASSUME NEW s \in Seq(Packet), NEW t \in Seq(Packet), Thins(s, t), NEW b \in Elems(s)
  PROVE  \E a \in Elems(t) : Same(b, a)
BY DEF Thins, Elems

(* Every packet of the line is one that was there, or has been added.      *)
LEMMA LineElements ==
  ASSUME TypeOK, AtRest, [Next]_vars, NEW b \in Underway'
  PROVE  \/ \E a \in Underway : Same(b, a)
         \/ \E a \in Packet : Newcomer(a) /\ Same(b, a)
<1>1. Underway = Elems(Line) /\ Line \in Seq(Packet) /\ Underway \subseteq Packet
  BY UnderwayIsLine, UnderwayType
<1>2. TypeOK' /\ Underway' = Elems(Line')
  <2>1. TypeOK'
    BY TypeStep
  <2>2. (TypeOK => Underway = Elems(Line))'
    BY UnderwayLine, PTL
  <2> QED
    BY <2>1, <2>2
<1>3. CASE Outgoing
  <2>1. b \in Elems(out') \cup Elems(c2s') \/ b \in Queued'
    BY DEF Underway
  <2>2. Elems(out') \cup Elems(c2s') \subseteq Underway
    BY UnderwayMoves
  <2>3. ASSUME b \in Queued' PROVE \E a \in Queued : Same(b, a)
    <3>1. Thins(Packets(padding'), Packets(padding))
      BY <1>3, OutgoingThins
    <3>2. padding \in Seq(Node) /\ padding' \in Seq(Node)
      BY <1>2 DEF TypeOK
    <3>3. /\ Packets(padding) \in Seq(Packet) /\ Elems(Packets(padding)) = Queued
          /\ Packets(padding') \in Seq(Packet) /\ Elems(Packets(padding')) = Queued'
      BY <3>2, PacketsType DEF Elems, Queued
    <3> QED
      BY <2>3, <3>1, <3>3, ThinsElems
  <2> QED
    BY <2>1, <2>2, <2>3 DEF Underway, Same
<1>4. CASE ~Outgoing
  <2>1. Line' \in Seq(Packet) /\ b \in Elems(Line')
    BY <1>2, <1>4, LineMoves
  <2>2. CASE Thins(Line', Line)
    BY <1>1, <2>1, <2>2, ThinsElems
  <2>3. ASSUME NEW a \in Packet, Newcomer(a), Thins(Line', Line \o <<a>>)
        PROVE  (\E c \in Underway : Same(b, c)) \/ Same(b, a)
    <3>1. Line \o <<a>> \in Seq(Packet) /\ Elems(Line \o <<a>>) = Underway \cup {a}
      BY <1>1, ElemsOfAppend
    <3>2. PICK c \in Elems(Line \o <<a>>) : Same(b, c)
      BY ONLY <2>1, <2>3, <3>1, ThinsElems
    <3> QED
      BY <3>1, <3>2
  <2> QED
    BY <1>4, <2>2, <2>3, LineMoves
<1> QED
  BY <1>3, <1>4

(* While the counter has not wrapped, a PUBLISH brings an identifier and   *)
(* a message of its own.                                                   *)
LEMMA FreshPublish ==
  ASSUME TypeOK, Honest, ~wrapped', NEW q \in QosUsed, Publish(q), NEW b \in Underway
  PROVE  /\ q > 0 /\ Acknowledged(b) => b.id # NextId
         /\ b.type = "PUBLISH" => b.msg # Len(accepted) + 1
<1>1. b \in Packet /\ packet_id \in Nat /\ NextId \in Nat /\ b.id \in Nat
  BY UnderwayType, NextIdType DEF TypeOK, Packet
<1>2. ASSUME q > 0, Acknowledged(b) PROVE b.id # NextId
  <2> DEFINE id == IF q > 0 THEN NextId ELSE 0
  <2>1. wrapped' = (wrapped \/ (q > 0 /\ id <= packet_id))
    BY DEF Publish
  <2>2. ~(q > 0 /\ id <= packet_id)
    BY <2>1, Zenon
  <2>3. b.id <= packet_id
    BY <1>2 DEF Honest
  <2> QED
    BY <1>1, <1>2, <2>2, <2>3
<1>3. ASSUME b.type = "PUBLISH" PROVE b.msg # Len(accepted) + 1
  <2>1. b.msg \in DOMAIN accepted /\ Len(accepted) \in Nat /\ DOMAIN accepted = 1..Len(accepted)
    BY <1>3 DEF Honest, TypeOK
  <2> QED
    BY <2>1
<1> QED
  BY <1>2, <1>3

LEMMA NewPublish ==
  ASSUME TypeOK, Honest, ~wrapped', NEW b \in Packet, Newcomer(b), b.type = "PUBLISH"
  PROVE  /\ b.qos > 0 => \A a \in Underway : ~Has(<<a>>, Pubs(b.id)) /\ ~Has(<<a>>, Rels(b.id))
         /\ \A a \in Underway : a.type = "PUBLISH" => a.msg # b.msg
         /\ \E q \in QosUsed : Publish(q) /\ b.qos = q /\ b.msg = Len(accepted) + 1
<1>0. ASSUME OnPublish, Head(inb).qos > 0 PROVE Reply[Head(inb).qos] \in {"PUBACK", "PUBREC"}
  BY <1>0, HandleType DEF OnPublish, Packet, Reply
<1>1. PICK q \in QosUsed : /\ Publish(q) /\ b.qos = q /\ b.msg = Len(accepted) + 1
                           /\ b.id = IF q > 0 THEN NextId ELSE 0
  BY <1>0 DEF Newcomer, Exchanging
<1>2. \A a \in Underway : b.qos > 0 => ~Has(<<a>>, Pubs(b.id)) /\ ~Has(<<a>>, Rels(b.id))
  <2> SUFFICES ASSUME NEW a \in Underway, b.qos > 0
               PROVE  a \notin Pubs(b.id) /\ a \notin Rels(b.id)
    BY DEF Has
  <2>1. Acknowledged(a) => a.id # b.id
    BY <1>1, FreshPublish
  <2> QED
    BY <2>1 DEF Acknowledged, Pubs, Rels, Publishes
<1>3. \A a \in Underway : a.type = "PUBLISH" => a.msg # b.msg
  BY <1>1, FreshPublish
<1> QED
  BY <1>1, <1>2, <1>3

(* The PUBLISH that a PUBREC answers is the last copy in the queue.        *)
LEMMA PubrecTakes ==
  ASSUME TypeOK, Honest, OnPubrec, Lone(Packets(padding), Pubs(Head(inb).id))
  PROVE  ~Has(Packets(padding'), Pubs(Head(inb).id))
<1> DEFINE id == Head(inb).id
           first == FirstOf(Matching(padding, "PUBLISH", id))
           K == DOMAIN padding \ {first}
           s == KeepAt(padding, K)
<1>1. inb # <<>> /\ Head(inb).type = "PUBREC" /\ ~Unmatched(Head(inb)) /\ padding \in Seq(Node)
  BY DEF OnPubrec, Handle, TypeOK
<1>2. Answers[Head(inb).type] = "PUBLISH" /\ Head(inb).type \in DOMAIN Answers
  BY <1>1 DEF Answers
<1>3. Acked = padding[first].b /\ Matching(padding, "PUBLISH", id) # {}
  BY <1>1, <1>2 DEF Acked, Unmatched
<1>4. Acknowledged(Acked)
  BY <1>1, <1>2, AnswerIsRight
<1>5. first \in DOMAIN padding /\ padding[first].b.type = "PUBLISH" /\ padding[first].b.id = id
  BY <1>1, <1>3, FirstMatch
<1>6. padding[first].b \in Packet
  BY <1>5, LineType
<1> HIDE DEF first
<1>7. padding[first].b \in Pubs(id)
  BY <1>3, <1>4, <1>5, <1>6 DEF Acknowledged, Pubs, Publishes
<1>8. \A i \in DOMAIN padding : padding[i].b \in Pubs(id) => i = first
  BY <1>5, <1>7, LineType DEF Lone
<1>9. s \in Seq(Node) /\ \A j \in DOMAIN s : \E i \in K : s[j] = padding[i]
  <2>1. K \in SUBSET (DOMAIN padding)
    OBVIOUS
  <2> HIDE DEF K
  <2>2. \A j \in DOMAIN s : \E i \in K : s[j] = padding[i]
    BY <1>1, <2>1, KeepAtElement
  <2> QED
    BY <1>1, <2>1, <2>2, KeepAtProperties
<1>10. PICK b \in Packet :
         padding' = AppendPadding(ErasePadding(padding, "PUBLISH", id), b) /\ b.type = "PUBREL"
  BY PubrelPacket
<1>11. ErasePadding(padding, "PUBLISH", id) = s
  BY DEF ErasePadding, first
<1> HIDE DEF s
<1>12. ~Has(Packets(s), Pubs(id))
  <2>1. \A j \in DOMAIN s : s[j].b \notin Pubs(id)
    BY <1>8, <1>9
  <2> QED
    BY <1>9, <2>1, PacketsType DEF Has
<1> HIDE DEF id
<1>13. b \notin Pubs(id)
  BY <1>10 DEF Pubs, Publishes
<1> QED
  BY <1>9, <1>10, <1>11, <1>12, <1>13, AppendHas DEF id

LEMMA NewRelease ==
  ASSUME TypeOK, NEW b \in Packet, Newcomer(b), b.type = "PUBREL"
  PROVE  OnPubrec /\ Head(inb).id = b.id
<1>1. ASSUME OnPublish, Head(inb).qos > 0 PROVE Reply[Head(inb).qos] \in {"PUBACK", "PUBREC"}
  BY <1>1, HandleType DEF OnPublish, Packet, Reply
<1> QED
  BY <1>1 DEF Newcomer, Exchanging

LEMMA UpwardType == TypeOK => Upward \in Seq(Packet)
  BY LineType

LEMMA OrderedStep ==
  ASSUME TypeOK, AtRest, Honest, [Next]_vars, ~wrapped', NEW k \in Nat, Ordered(k)
  PROVE  Ordered(k)'
<1> DEFINE Q == Packets(padding)
           R == Packets(padding')
<1>1. /\ padding \in Seq(Node) /\ padding' \in Seq(Node) /\ TypeOK'
      /\ Q \in Seq(Packet) /\ R \in Seq(Packet) /\ Line \in Seq(Packet) /\ Line' \in Seq(Packet)
      /\ Line = Upward \o Q /\ Line' = Upward' \o R /\ Upward \in Seq(Packet)
  <2>1. TypeOK'
    BY TypeStep
  <2>2. padding \in Seq(Node) /\ padding' \in Seq(Node)
    BY <2>1 DEF TypeOK
  <2>3. (TypeOK => Upward \in Seq(Packet))'
    BY UpwardType, PTL
  <2>4. Q \in Seq(Packet) /\ R \in Seq(Packet)
    BY <2>2, PacketsType
  <2>5. Upward \in Seq(Packet)
    BY LineType
  <2> QED
    BY <2>1, <2>2, <2>3, <2>4, <2>5 DEF Line
<1>2. DupBlind(Pubs(k)) /\ DupBlind(Rels(k))
  BY PubsBlind
<1>3. /\ Lone(Q, Pubs(k)) /\ ~(Has(Q, Rels(k)) /\ Has(Q, Pubs(k)))
      /\ NotBefore(Line, Rels(k), Pubs(k))
  BY DEF Ordered
<1>4. Has(Line, Pubs(k)) \/ Has(Line, Rels(k))
        => \A b \in Packet : Newcomer(b) => b \notin Pubs(k)
  <2> SUFFICES ASSUME NEW a \in Underway, a \in Pubs(k) \/ a \in Rels(k),
                      NEW b \in Packet, Newcomer(b), b \in Pubs(k)
               PROVE  FALSE
    BY UnderwayIsLine
  <2>1. b.type = "PUBLISH" /\ b.qos > 0 /\ b.id = k
    BY DEF Pubs, Publishes
  <2>2. ~Has(<<a>>, Pubs(k)) /\ ~Has(<<a>>, Rels(k))
    BY <2>1, NewPublish
  <2> QED
    BY <2>2 DEF Has
<1> HIDE DEF Q, R
<1>5. \A A : Has(Q, A) => Has(Line, A)
  BY <1>1, ConcatHas
<1>6. \A b \in Packet : /\ <<b>> \in Seq(Packet)
                        /\ \A A : Lone(<<b>>, A) /\ (Has(<<b>>, A) <=> b \in A)
                        /\ \A A, B : NotBefore(<<b>>, A, B)
  BY SingleProperties
<1>7. ASSUME NEW b \in Packet, Newcomer(b)
      PROVE  /\ Q \o <<b>> \in Seq(Packet) /\ Line \o <<b>> \in Seq(Packet)
             /\ Lone(Q \o <<b>>, Pubs(k)) /\ NotBefore(Line \o <<b>>, Rels(k), Pubs(k))
             /\ \A A : Has(Q \o <<b>>, A) <=> Has(Q, A) \/ b \in A
  <2>1. Q \o <<b>> \in Seq(Packet) /\ Line \o <<b>> \in Seq(Packet)
    BY <1>1, <1>6
  <2>2. ~(Has(Q, Pubs(k)) /\ Has(<<b>>, Pubs(k)))
    BY <1>4, <1>5, <1>6, <1>7
  <2>3. Lone(Q \o <<b>>, Pubs(k))
    BY <1>1, <1>3, <1>6, <2>2, ConcatLone
  <2>4. ~(Has(Line, Rels(k)) /\ Has(<<b>>, Pubs(k)))
    BY <1>4, <1>6, <1>7
  <2>5. NotBefore(Line \o <<b>>, Rels(k), Pubs(k))
    BY <1>1, <1>3, <1>6, <2>4, ConcatNotBefore
  <2>6. \A A : Has(Q \o <<b>>, A) <=> Has(Q, A) \/ b \in A
    BY <1>1, <1>6, ConcatHas
  <2> QED
    BY <2>1, <2>3, <2>5, <2>6
<1>8. Lone(R, Pubs(k)) /\ ~(Has(R, Rels(k)) /\ Has(R, Pubs(k)))
  <2>1. CASE Thins(R, Q)
    BY <1>1, <1>2, <1>3, <2>1, ThinsProperties
  <2>2. ASSUME NEW b \in Packet, Newcomer(b), Thins(R, Q \o <<b>>)
        PROVE  Lone(R, Pubs(k)) /\ ~(Has(R, Rels(k)) /\ Has(R, Pubs(k)))
    <3>1. /\ Lone(R, Pubs(k))
          /\ Has(R, Pubs(k)) => Has(Q, Pubs(k)) \/ b \in Pubs(k)
          /\ Has(R, Rels(k)) => Has(Q, Rels(k)) \/ b \in Rels(k)
      BY <1>1, <1>2, <1>7, <2>2, ThinsProperties
    <3>2. CASE b \in Pubs(k)
      <4>1. ~Has(Q, Rels(k)) /\ b \notin Rels(k)
        BY <1>4, <1>5, <2>2, <3>2 DEF Pubs, Rels, Publishes
      <4> QED
        BY <3>1, <4>1
    <3>3. CASE b \in Rels(k)
      <4>1. OnPubrec /\ Head(inb).id = k
        BY <2>2, <3>3, NewRelease DEF Rels
      <4>2. ~Has(R, Pubs(k))
        BY <1>3, <4>1, PubrecTakes DEF Q, R
      <4> QED
        BY <3>1, <4>2
    <3> QED
      BY <1>3, <3>1, <3>2, <3>3
  <2> QED
    BY <2>1, <2>2, QueueThins DEF Q, R
<1>9. NotBefore(Line', Rels(k), Pubs(k))
  <2>1. CASE ~Outgoing
    <3>1. CASE Thins(Line', Line)
      BY <1>1, <1>2, <1>3, <3>1, ThinsProperties
    <3>2. ASSUME NEW b \in Packet, Newcomer(b), Thins(Line', Line \o <<b>>)
          PROVE  NotBefore(Line', Rels(k), Pubs(k))
      BY <1>1, <1>2, <1>7, <3>2, ThinsProperties
    <3> QED
      BY <2>1, <3>1, <3>2, LineMoves
  <2>2. CASE Outgoing
    <3> DEFINE B == Batch(padding)
    <3>1. Upward' = Upward \o B /\ B \in Seq(Packet) /\ Thins(B, Q) /\ Thins(R, Q)
      BY <1>1, <2>2, OutgoingMoves, BatchProperties, OutgoingThins DEF Q, R
    <3> HIDE DEF B
    <3>2. Thins(Upward \o B, Line) /\ Upward \o B \in Seq(Packet)
      BY <1>1, <3>1, ThinsSelf, ThinsConcat
    <3>3. NotBefore(Upward \o B, Rels(k), Pubs(k))
      BY <1>1, <1>2, <1>3, <3>2, ThinsProperties
    <3>4. ~(Has(Upward \o B, Rels(k)) /\ Has(R, Pubs(k)))
      <4>1. Has(R, Pubs(k)) => Has(Q, Pubs(k))
        BY <1>1, <1>2, <3>1, ThinsProperties
      <4>2. Has(B, Rels(k)) => Has(Q, Rels(k))
        BY <1>1, <1>2, <3>1, ThinsProperties
      <4>3. Has(Upward \o B, Rels(k)) => Has(Upward, Rels(k)) \/ Has(B, Rels(k))
        BY <1>1, <3>1, ConcatHas
      <4>4. Has(Upward, Rels(k)) => ~Has(Q, Pubs(k))
        BY <1>1, <1>3, ConcatApart
      <4> QED
        BY <1>3, <4>1, <4>2, <4>3, <4>4
    <3>5. NotBefore(R, Rels(k), Pubs(k))
      <4>1. ~(Has(R, Rels(k)) /\ Has(R, Pubs(k)))
        BY <1>8
      <4> QED
        BY <4>1 DEF NotBefore, Has
    <3>6. Line' = (Upward \o B) \o R
      BY <1>1, <3>1
    <3> QED
      BY <1>1, <3>2, <3>3, <3>4, <3>5, <3>6, ConcatNotBefore
  <2> QED
    BY <2>1, <2>2
<1>10. Ordered(k)' = (/\ Lone(R, Pubs(k)) /\ ~(Has(R, Rels(k)) /\ Has(R, Pubs(k)))
                      /\ NotBefore(Line', Rels(k), Pubs(k)))
  BY DEF Ordered, R
<1> QED
  BY <1>8, <1>9, <1>10

LEMMA ZerosStep ==
  ASSUME TypeOK, AtRest, ConnectInv, Honest, [Next]_vars, ~wrapped', NEW m \in Nat,
         Lone(Line, Zeros(m))
  PROVE  Lone(Line', Zeros(m))
<1>1. DupBlind(Zeros(m)) /\ \A b \in Zeros(m) : ~Acknowledged(b)
  BY PubsBlind
<1>2. CASE Outgoing
  BY <1>1, <1>2, OutgoingLine
<1>3. CASE ~Outgoing
  <2>1. Line \in Seq(Packet) /\ Line' \in Seq(Packet)
    BY <1>3, LineMoves
  <2>2. CASE Thins(Line', Line)
    BY <1>1, <2>1, <2>2, ThinsProperties
  <2>3. ASSUME NEW b \in Packet, Newcomer(b), Thins(Line', Line \o <<b>>)
        PROVE  Lone(Line', Zeros(m))
    <3>1. /\ <<b>> \in Seq(Packet) /\ Lone(<<b>>, Zeros(m))
          /\ Has(<<b>>, Zeros(m)) <=> b \in Zeros(m)
          /\ Line \o <<b>> \in Seq(Packet)
      BY <2>1, SingleProperties
    <3>2. ~(Has(Line, Zeros(m)) /\ b \in Zeros(m))
      <4> SUFFICES ASSUME NEW a \in Underway, a \in Zeros(m), b \in Zeros(m) PROVE FALSE
        BY UnderwayIsLine
      <4>1. a.type = "PUBLISH" /\ b.type = "PUBLISH" /\ a.msg = b.msg
        BY DEF Zeros, Publishes
      <4> QED
        BY <2>3, <4>1, NewPublish
    <3>3. Lone(Line \o <<b>>, Zeros(m))
      BY <2>1, <3>1, <3>2, ConcatLone
    <3> QED
      BY <1>1, <2>1, <2>3, <3>1, <3>3, ThinsProperties
  <2> QED
    BY <1>3, <2>2, <2>3, LineMoves
<1> QED
  BY <1>2, <1>3

LEMMA PublishesMove ==
  ASSUME TypeOK, AtRest, [Next]_vars, \A q \in QosUsed : ~Publish(q),
         NEW b \in Underway', b.type = "PUBLISH"
  PROVE  \E a \in Underway : Same(b, a)
<1>1. ASSUME NEW a \in Packet, Newcomer(a), Same(b, a) PROVE FALSE
  <2>1. a.type = "PUBLISH"
    BY <1>1 DEF Same
  <2>2. ASSUME OnPublish, Head(inb).qos > 0 PROVE Reply[Head(inb).qos] \in {"PUBACK", "PUBREC"}
    BY <2>2, HandleType DEF OnPublish, Packet, Reply
  <2> QED
    BY <1>1, <2>1, <2>2 DEF Newcomer, Exchanging
<1> QED
  BY <1>1, LineElements

LEMMA BooksMove ==
  ASSUME [Next]_vars
  PROVE  /\ (\A q \in QosUsed : ~Publish(q)) => UNCHANGED accepted
         /\ ~TcpConnect /\ ~BrokerAccept => UNCHANGED session
         /\ ~TcpConnect /\ ~BrokerPublished => UNCHANGED onward
         /\ ~BrokerAccept /\ ~BrokerPublished /\ ~BrokerReleased => UNCHANGED held
<1>1. CASE MainLoop
  BY <1>1 DEF MainLoop, TcpConnect, Hello, Outgoing, Send, RecvData, RecvTimeout,
     RecvEnd, IncomingEnd, HandlePacket, OnConnack, OnPublish, OnAck, OnPubrec, OnPubrel,
     OnUnsuback, OnSuback, OnPingresp, Handle, Rejected, Elapsed, ElapsedPingLost,
     ElapsedCheck, Close, ghosts, broker
<1>2. CASE Environment
  BY <1>2 DEF Environment, Publish, Unsubscribe, BrokerRecv, BrokerAccept, BrokerRefuse,
     BrokerClose, BrokerPublished, BrokerReleased, BrokerPinged, BrokerSubscribed,
     BrokerUnsubscribed, BrokerAcked, BrokerSend, Drop, ghosts, broker
<1>3. CASE UNCHANGED vars
  BY <1>3 DEF vars, ghosts, broker
<1> QED
  BY <1>1, <1>2, <1>3 DEF Next

LEMMA PublishCounted ==
  ASSUME TypeOK, AtRest, Honest, Counted, [Next]_vars, ~wrapped', NEW q \in QosUsed, Publish(q)
  PROVE  Counted'
<1> DEFINE n == Len(accepted)
<1>1. /\ n \in Nat /\ DOMAIN accepted = 1..n /\ accepted' = Append(accepted, q)
      /\ UNCHANGED <<onward, session, held>> /\ n + 1 \in Msgs
      /\ accepted \in Seq(QosUsed)
  BY SizeAssumption DEF TypeOK, Publish, broker, Msgs
<1>2. /\ DOMAIN accepted' = 1..(n + 1) /\ accepted'[n + 1] = q
      /\ \A m \in DOMAIN accepted : accepted'[m] = accepted[m]
  BY <1>1
<1>3. PICK new \in Packet :
        /\ new.type = "PUBLISH" /\ new.qos = q /\ new.msg = n + 1
        /\ \A b \in Underway' : b \in Underway \/ b = new
  BY PublishUnderway
<1> HIDE DEF n
<1>4. \A b \in Underway : b.type = "PUBLISH" => b.msg \in DOMAIN accepted /\ b.msg # n + 1
  BY <1>1 DEF Honest
<1>5. onward \in [Msgs -> 0..2] /\ onward[n + 1] = 0
  <2>1. n + 1 \notin DOMAIN accepted
    BY <1>1
  <2>2. ~(onward[n + 1] > 0)
    BY <1>1, <2>1 DEF Counted
  <2>3. onward \in [Msgs -> 0..2] /\ onward[n + 1] \in 0..2
    BY <1>1 DEF TypeOK
  <2> QED
    BY <2>2, <2>3
<1>6. \A b \in Underway' : b.type = "PUBLISH" => accepted'[b.msg] = b.qos
  BY <1>2, <1>3, <1>4 DEF Counted
<1>7. \A a, b \in Underway' :
        a.type = "PUBLISH" /\ b.type = "PUBLISH" /\ a.msg = b.msg => a.id = b.id
  BY <1>3, <1>4 DEF Counted
<1>8. \A m \in Msgs : onward'[m] > 0 => m \in DOMAIN accepted'
  BY <1>1, <1>2 DEF Counted
<1>9. session' = "new" => \A m \in Msgs : onward'[m] = 0
  BY <1>1 DEF Counted
<1>10. session' = "open" => \A b \in Underway' :
         b.type = "PUBLISH" /\ onward'[b.msg] > 0
           => b.qos = 1 \/ (b.qos = 2 /\ b.id \in held')
  <2> SUFFICES ASSUME session = "open", NEW b \in Underway', b.type = "PUBLISH", onward[b.msg] > 0
               PROVE  b.qos = 1 \/ (b.qos = 2 /\ b.id \in held)
    BY <1>1
  <2>1. b # new
    BY <1>3, <1>5
  <2> QED
    BY <1>3, <2>1 DEF Counted
<1>11. \A m \in DOMAIN accepted' : accepted'[m] # 1 => onward'[m] <= 1
  <2>1. \A m \in DOMAIN accepted' : m \in DOMAIN accepted \/ m = n + 1
    BY <1>1, <1>2
  <2>2. onward'[n + 1] <= 1
    BY <1>1, <1>5
  <2> QED
    BY <1>1, <1>2, <2>1, <2>2 DEF Counted
<1> QED
  BY <1>6, <1>7, <1>8, <1>9, <1>10, <1>11 DEF Counted

(* No step but Publish adds a message to what is on its way.               *)
LEMMA CopiesCounted ==
  ASSUME TypeOK, AtRest, Counted, [Next]_vars, \A q \in QosUsed : ~Publish(q)
  PROVE  /\ UNCHANGED accepted
         /\ \A b \in Underway' : b.type = "PUBLISH" => accepted'[b.msg] = b.qos
         /\ \A a, b \in Underway' :
              a.type = "PUBLISH" /\ b.type = "PUBLISH" /\ a.msg = b.msg => a.id = b.id
<1>1. UNCHANGED accepted
  BY BooksMove
<1>2. \A b \in Underway' : b.type = "PUBLISH" => \E c \in Underway : Same(b, c)
  BY PublishesMove
<1>3. \A b \in Underway' : b.type = "PUBLISH" => accepted'[b.msg] = b.qos
  BY <1>1, <1>2 DEF Counted, Same
<1>4. ASSUME NEW a \in Underway', NEW b \in Underway',
             a.type = "PUBLISH", b.type = "PUBLISH", a.msg = b.msg
      PROVE  a.id = b.id
  <2>1. PICK c \in Underway : Same(a, c)
    BY <1>2, <1>4
  <2>2. PICK d \in Underway : Same(b, d)
    BY <1>2, <1>4
  <2> QED
    BY <1>4, <2>1, <2>2 DEF Counted, Same
<1> QED
  BY <1>1, <1>3, <1>4

(* The broker reads h: what is still on its way is behind h.               *)
LEMMA ReadUnderway ==
  ASSUME TypeOK, AtRest, [Next]_vars, Reads
  PROVE  /\ Head(c2s) \in Underway /\ Head(c2s) \in Packet
         /\ \A b \in Underway' : b \in Underway /\ b \in Packet
         /\ \A A : Lone(Line, A) /\ Head(c2s) \in A => \A b \in Underway' : b \notin A
         /\ \A A, B : NotBefore(Line, A, B) /\ Head(c2s) \in A => \A b \in Underway' : b \notin B
<1>1. /\ Line \in Seq(Packet) /\ Line # <<>> /\ Head(Line) = Head(c2s) /\ Line' = Tail(Line)
      /\ Head(c2s) \in Elems(Line)
  BY ReadLine
<1>2. Underway = Elems(Line) /\ Underway \subseteq Packet
  BY UnderwayIsLine, UnderwayType
<1>3. Underway' = Elems(Line')
  <2>1. TypeOK'
    BY TypeStep
  <2>2. (TypeOK => Underway = Elems(Line))'
    BY UnderwayLine, PTL
  <2> QED
    BY <2>1, <2>2
<1>4. Elems(Line') \subseteq Elems(Line)
  BY <1>1, ElemsTail
<1>5. \A A : ~Has(Line', A) => \A b \in Elems(Line') : b \notin A
  BY DEF Has, Elems
<1>6. /\ \A A : Lone(Line, A) /\ Head(Line) \in A => ~Has(Line', A)
      /\ \A A, B : NotBefore(Line, A, B) /\ Head(Line) \in A => ~Has(Line', B)
  BY <1>1, TailProperties
<1> QED
  BY <1>1, <1>2, <1>3, <1>4, <1>5, <1>6

LEMMA PassOnCounted ==
  ASSUME TypeOK, AtRest, Honest, Counted, [Next]_vars, BrokerPublished,
         \A m \in Nat : Lone(Line, Zeros(m))
  PROVE  Counted'
<1> DEFINE h == Head(c2s)
<1>1. /\ h.type = "PUBLISH" /\ session = "open" /\ UNCHANGED <<session, accepted>> /\ Reads
      /\ held' = IF h.qos = 2 THEN held \cup {h.id} ELSE held
      /\ \/ h.qos = 2 /\ h.id \in held /\ onward' = onward
         \/ /\ ~(h.qos = 2 /\ h.id \in held)
            /\ onward' = [onward EXCEPT ![h.msg] = IF @ = 2 THEN 2 ELSE @ + 1]
  <2>1. UNCHANGED accepted /\ Reads /\ session = "open" /\ UNCHANGED session /\ h.type = "PUBLISH"
    BY DEF BrokerPublished, InSession, BrokerGets, Reads
  <2> QED
    BY <2>1 DEF BrokerPublished
<1>2. /\ h \in Underway /\ h \in Packet
      /\ \A b \in Underway' : b \in Underway /\ b \in Packet
      /\ h \in Zeros(h.msg) => \A b \in Underway' : b \notin Zeros(h.msg)
  <2>1. h \in Underway /\ h \in Packet /\ \A b \in Underway' : b \in Underway /\ b \in Packet
    BY <1>1, ReadUnderway
  <2>2. h.msg \in Nat
    BY <2>1, SizeAssumption DEF Packet
  <2>3. h \in Zeros(h.msg) => \A b \in Underway' : b \notin Zeros(h.msg)
    BY <1>1, <2>2, ReadUnderway
  <2> QED
    BY <2>1, <2>3
<1> HIDE DEF h
<1>3. /\ h.msg \in DOMAIN accepted /\ accepted[h.msg] = h.qos /\ h.qos \in 0..2
      /\ DOMAIN accepted \subseteq Msgs /\ h.msg \in Msgs
      /\ onward \in [Msgs -> 0..2]
  <2>1. h.msg \in DOMAIN accepted /\ accepted[h.msg] = h.qos /\ h.qos \in 0..2
    BY <1>1, <1>2 DEF Honest, Counted, Packet
  <2>2. DOMAIN accepted \subseteq Msgs
    BY SizeAssumption DEF TypeOK, Msgs
  <2>3. onward \in [Msgs -> 0..2]
    BY DEF TypeOK
  <2> QED
    BY <2>1, <2>2, <2>3
<1>4. \A m \in Msgs : m # h.msg => onward'[m] = onward[m]
  BY <1>1, <1>3
<1>5. h.qos # 1 => onward'[h.msg] <= 1
  <2> SUFFICES ASSUME h.qos # 1 PROVE onward'[h.msg] <= 1
    OBVIOUS
  <2>1. CASE h.qos = 2 /\ h.id \in held
    BY <1>1, <1>3, <2>1 DEF Counted
  <2>2. CASE ~(h.qos = 2 /\ h.id \in held)
    <3>1. ~(onward[h.msg] > 0)
      BY <1>1, <1>2, <2>2 DEF Counted
    <3>2. onward[h.msg] = 0
      BY <1>3, <3>1
    <3> QED
      BY <1>1, <1>3, <2>2, <3>2
  <2> QED
    BY <2>1, <2>2
<1>6. \A m \in Msgs : onward'[m] > 0 => m \in DOMAIN accepted'
  <2>1. \A m \in Msgs : onward'[m] > 0 => m \in DOMAIN accepted
    BY <1>3, <1>4 DEF Counted
  <2> QED
    BY <1>1, <2>1
<1>7. \A m \in DOMAIN accepted' : accepted'[m] # 1 => onward'[m] <= 1
  <2>1. \A m \in DOMAIN accepted : accepted[m] # 1 => onward'[m] <= 1
    BY <1>3, <1>4, <1>5 DEF Counted
  <2> QED
    BY <1>1, <2>1
<1>8. ASSUME NEW b \in Underway', b.type = "PUBLISH", onward'[b.msg] > 0
      PROVE  b.qos = 1 \/ (b.qos = 2 /\ b.id \in held')
  <2>1. b \in Underway /\ b \in Packet /\ b.msg \in Msgs
    BY <1>2, <1>3, <1>8 DEF Honest
  <2>2. CASE b.msg # h.msg
    BY <1>1, <1>4, <1>8, <2>1, <2>2 DEF Counted
  <2>3. CASE b.msg = h.msg
    <3>1. b.qos = h.qos /\ b.id = h.id
      BY <1>1, <1>2, <1>3, <1>8, <2>1, <2>3 DEF Counted
    <3>2. h.qos # 0
      <4> SUFFICES ASSUME h.qos = 0 PROVE FALSE
        OBVIOUS
      <4>1. h \in Zeros(h.msg) /\ b \in Zeros(h.msg)
        BY <1>1, <1>2, <1>8, <2>1, <2>3, <3>1 DEF Zeros, Publishes
      <4> QED
        BY <1>2, <1>8, <4>1
    <3> QED
      BY <1>1, <1>3, <3>1, <3>2
  <2> QED
    BY <2>2, <2>3
<1>9. session' = "open"
  BY <1>1
<1>10. \A q \in QosUsed : ~Publish(q)
  <2> SUFFICES ASSUME NEW q \in QosUsed, Publish(q) PROVE FALSE
    OBVIOUS
  <2>1. accepted' = Append(accepted, q) /\ accepted \in Seq(QosUsed) /\ accepted' = accepted
    BY <1>1 DEF Publish, TypeOK
  <2>2. ASSUME NEW s \in Seq(QosUsed) PROVE Append(s, q) # s
    <3>1. Len(Append(s, q)) = Len(s) + 1 /\ Len(s) \in Nat
      BY ONLY s \in Seq(QosUsed)
    <3> QED
      BY <3>1
  <2> QED
    BY <2>1, <2>2
<1>11. /\ \A b \in Underway' : b.type = "PUBLISH" => accepted'[b.msg] = b.qos
       /\ \A a, b \in Underway' :
            a.type = "PUBLISH" /\ b.type = "PUBLISH" /\ a.msg = b.msg => a.id = b.id
  BY <1>10, CopiesCounted
<1> QED
  BY <1>6, <1>7, <1>8, <1>9, <1>11 DEF Counted

LEMMA ReleaseCounted ==
  ASSUME TypeOK, AtRest, Honest, Counted, [Next]_vars, BrokerReleased,
         \A k \in Nat : Ordered(k)
  PROVE  Counted'
<1> DEFINE h == Head(c2s)
<1>1. /\ h.type = "PUBREL" /\ session = "open" /\ UNCHANGED <<session, accepted, onward>>
      /\ held' = held \ {h.id} /\ Reads
  BY DEF BrokerReleased, InSession, BrokerGets, Reads, ghosts
<1>2. /\ \A b \in Underway' : b \in Underway /\ b \in Packet
      /\ \A b \in Underway' : b \notin Pubs(h.id)
  <2>1. h \in Packet /\ \A b \in Underway' : b \in Underway /\ b \in Packet
    BY <1>1, ReadUnderway
  <2>2. h.id \in Nat /\ h \in Rels(h.id)
    BY <1>1, <2>1 DEF Packet, Rels
  <2>3. NotBefore(Line, Rels(h.id), Pubs(h.id))
    BY <2>2 DEF Ordered
  <2>4. \A b \in Underway' : b \notin Pubs(h.id)
    BY <1>1, <2>2, <2>3, ReadUnderway
  <2> QED
    BY <2>1, <2>4
<1> HIDE DEF h
<1>3. \A b \in Underway' : b.type = "PUBLISH" /\ b.qos = 2 => b.id # h.id
  BY <1>2 DEF Pubs, Publishes
<1> QED
  BY <1>1, <1>2, <1>3 DEF Counted

LEMMA CountedStep ==
  ASSUME TypeOK, AtRest, Honest, Counted, [Next]_vars, ~wrapped',
         \A k \in Nat : Ordered(k), \A m \in Nat : Lone(Line, Zeros(m))
  PROVE  Counted'
<1>1. ASSUME NEW q \in QosUsed, Publish(q) PROVE Counted'
  BY <1>1, PublishCounted
<1>2. CASE BrokerPublished
  BY <1>2, PassOnCounted
<1>3. CASE BrokerReleased
  BY <1>3, ReleaseCounted
<1>4. ASSUME \A q \in QosUsed : ~Publish(q), ~BrokerPublished, ~BrokerReleased
      PROVE  Counted'
  <2>1. /\ UNCHANGED accepted
        /\ \A b \in Underway' : b.type = "PUBLISH" => accepted'[b.msg] = b.qos
        /\ \A a, b \in Underway' :
             a.type = "PUBLISH" /\ b.type = "PUBLISH" /\ a.msg = b.msg => a.id = b.id
    BY <1>4, CopiesCounted
  <2>2. \A b \in Underway' : b.type = "PUBLISH"
          => \E a \in Underway : Same(b, a) /\ a.msg \in Msgs /\ a.msg \in DOMAIN accepted
    <3>1. DOMAIN accepted \subseteq Msgs
      BY SizeAssumption DEF TypeOK, Msgs
    <3>2. \A a \in Underway : a.type = "PUBLISH" => a.msg \in DOMAIN accepted
      BY DEF Honest
    <3> QED
      BY <1>4, <3>1, <3>2, PublishesMove DEF Same
  <2>3. CASE TcpConnect
    <3>1. session' = "new" /\ \A m \in Msgs : onward'[m] = 0
      BY <2>3 DEF TcpConnect
    <3>2. \A m \in DOMAIN accepted' : m \in Msgs
      BY <2>1, SizeAssumption DEF TypeOK, Msgs
    <3> QED
      BY <2>1, <3>1, <3>2 DEF Counted
  <2>4. CASE BrokerAccept
    <3>1. session' = "open" /\ session = "new" /\ onward' = onward
      BY <2>4 DEF BrokerAccept, ghosts
    <3>2. \A b \in Underway' : b.type = "PUBLISH" => onward'[b.msg] = 0
      BY <2>2, <3>1 DEF Counted, Same
    <3> QED
      BY <2>1, <3>1, <3>2 DEF Counted
  <2>5. CASE ~TcpConnect /\ ~BrokerAccept
    <3>1. UNCHANGED <<session, onward, held>>
      BY <1>4, <2>5, BooksMove
    <3>2. session' = "open" => \A b \in Underway' :
            b.type = "PUBLISH" /\ onward'[b.msg] > 0
              => b.qos = 1 \/ (b.qos = 2 /\ b.id \in held')
      BY <2>2, <3>1 DEF Counted, Same
    <3> QED
      BY <2>1, <3>1, <3>2 DEF Counted
  <2> QED
    BY <2>3, <2>4, <2>5
<1> QED
  BY <1>1, <1>2, <1>3, <1>4

LEMMA OnceStep ==
  ASSUME TypeOK, AtRest, ConnectInv, HonestInv, ~wrapped => OnceInv, [Next]_vars
  PROVE  ~wrapped' => OnceInv'
<1> SUFFICES ASSUME ~wrapped' PROVE OnceInv'
  OBVIOUS
<1>1. Honest /\ OnceInv
  BY CounterStep DEF HonestInv
<1>2. \A k \in Nat : Ordered(k)'
  BY <1>1, OrderedStep DEF OnceInv
<1>3. \A m \in Nat : Lone(Line', Zeros(m))
  BY <1>1, ZerosStep DEF OnceInv
<1>4. Counted'
  BY <1>1, CountedStep DEF OnceInv
<1> QED
  BY <1>2, <1>3, <1>4 DEF OnceInv

(* However often a PUBLISH is retried, and whatever is late or lost: as    *)
(* long as the identifier counter has not wrapped, a session passes a      *)
(* message of QoS 2 on at most once, and one of QoS 0 too.  The broker     *)
(* forgets an identifier with the PUBREL, and _handle_packet has erased    *)
(* the PUBLISH from the queue before it queues the PUBREL behind it.       *)
THEOREM PassedOnAtMostOnce == Spec => []PassedOnOnce
<1> DEFINE Inv == AtRest /\ ConnectInv /\ HonestInv /\ (~wrapped => OnceInv)
<1>1. Init => Inv
  <2> SUFFICES ASSUME Init PROVE Inv
    OBVIOUS
  <2>1. ConnectInv
    BY DEF Init, ConnectInv, Connecting, Greetings, AtMostOne
  <2>2. Underway = {} /\ Told = {}
    BY DEF Init, Underway, Told, Queued, Elems
  <2>3. HonestInv
    BY <2>2 DEF Init, HonestInv, Honest
  <2>4. AtRest /\ Line = <<>> /\ Packets(padding) = <<>>
    <3>1. Upward = <<>> /\ Packets(padding) = <<>> /\ <<>> \o <<>> = <<>>
      BY EmptyLine, ConcatEmptySeq
    <3> QED
      BY <3>1, EmptyLine DEF Line
  <2>5. \A k \in Nat : Ordered(k) /\ Lone(Line, Zeros(k))
    BY <2>4, EmptyProperties DEF Ordered
  <2>6. Counted
    BY <2>2 DEF Init, Counted
  <2> QED
    BY <2>1, <2>3, <2>4, <2>5, <2>6 DEF OnceInv
<1>2. TypeOK /\ Inv /\ [Next]_vars => Inv'
  <2> SUFFICES ASSUME TypeOK, Inv, [Next]_vars PROVE Inv'
    OBVIOUS
  <2>1. AtRest' /\ HonestInv'
    BY AtRestStep, HonestStep
  <2>2. ConnectInv'
    BY ConnectStep
  <2>3. ~wrapped' => OnceInv'
    BY OnceStep
  <2> QED
    BY <2>1, <2>2, <2>3
<1>3. Inv => PassedOnOnce
  BY DEF OnceInv, Counted, PassedOnOnce
<1> QED
  BY <1>1, <1>2, <1>3, TypeCorrect, PTL DEF Spec
=============================================================================
