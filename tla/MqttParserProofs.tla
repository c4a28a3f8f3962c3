--------------------------- MODULE MqttParserProofs ---------------------------
(***************************************************************************)
(* Proofs about MqttParser, for every radix, number of length digits and   *)
(* set of bytes: the domains of its variables, what a length with too many *)
(* digits does, and that the packets are those of the stream, however it   *)
(* is cut.                                                                 *)
(*                                                                         *)
(* For the last, the recursive functions of the model (Power, LengthAt,    *)
(* DecodeFrom) are shown to satisfy the equations that define them, by an  *)
(* induction that rests on < being well-founded; Follows says what a part  *)
(* of the stream means whatever follows it; and StreamInv says which part  *)
(* of the stream the parser's state stands for.                            *)
(***************************************************************************)
EXTENDS MqttParser, SequenceTheorems, WellFoundedInduction, TLAPS

Packets == [flags : Headers \ Malformed, body : Seq(Byte)]

(* While a packet is being read its first byte was a packet type, and      *)
(* nothing of a body has been copied before there is a length.             *)
PacketInv ==
  /\ state # "FIXED" => flags \in Headers
  /\ state = "LENGTH" => body = <<>>

PInv == TypeOK /\ PacketInv
-----------------------------------------------------------------------------
(* The bytes are numbers, and so is what a digit adds to a length.         *)
LEMMA Numbers ==
  /\ Radix \in Nat /\ Radix >= 2
  /\ Byte \subseteq Nat /\ Headers \subseteq Byte /\ Alphabet \subseteq Byte
BY ParserAssumption DEF Byte

LEMMA DigitIsNat == ASSUME NEW k \in Byte PROVE Digit(k) \in Nat
BY Numbers DEF Digit

LEMMA ProductIsNat == ASSUME NEW a \in Nat, NEW b \in Nat PROVE a * b \in Nat
OBVIOUS

(* Pieces of a sequence of bytes.                                          *)
LEMMA HeadTail ==
  ASSUME NEW s \in Seq(Byte), s # <<>>
  PROVE  Head(s) \in Byte /\ Tail(s) \in Seq(Byte)
OBVIOUS

LEMMA Pieces ==
  ASSUME NEW s \in Seq(Byte), NEW k \in Nat, k <= Len(s)
  PROVE  /\ SubSeq(s, 1, k) \in Seq(Byte) /\ Len(SubSeq(s, 1, k)) = k
         /\ SubSeq(s, k + 1, Len(s)) \in Seq(Byte)
OBVIOUS

(* What a fragment of the alphabet is.                                     *)
LEMMA Fragment ==
  ASSUME NEW m \in Nat, NEW c \in [1..m -> Alphabet]
  PROVE  c \in Seq(Byte) /\ Len(c) = m
<1>1. c \in [1..m -> Byte]  BY Numbers
<1> QED  BY <1>1
-----------------------------------------------------------------------------
(* A packet that is complete, or is not.                                   *)
LEMMA ProcessType ==
  ASSUME TypeOK, NEW b \in Seq(Byte), NEW rest \in Seq(Byte), flags \in Headers,
         Process([flags |-> flags, body |-> b], rest)
  PROVE  /\ pc' \in {"failed", "handle"} /\ chunk' \in Seq(Byte)
         /\ delivered' \in Seq(Packets)
<1>1. delivered \in Seq(Packets)  BY DEF TypeOK, Packets
<1>2. CASE flags \in Malformed  BY <1>1, <1>2 DEF Process, Fail
<1>3. CASE flags \notin Malformed
  <2>1. [flags |-> flags, body |-> b] \in Packets  BY <1>3 DEF Packets
  <2>2. /\ pc' = "handle" /\ chunk' = rest
        /\ delivered' = Append(delivered, [flags |-> flags, body |-> b])
    BY <1>3 DEF Process
  <2>3. delivered' \in Seq(Packets)  BY <1>1, <2>1, <2>2, AppendProperties
  <2> QED  BY <2>2, <2>3
<1> QED  BY <1>2, <1>3

LEMMA InitInv == Init => PInv
<1> SUFFICES ASSUME Init PROVE PInv  OBVIOUS
<1>1. 0 \in Byte  BY Numbers DEF Byte
<1> QED  BY <1>1, ParserAssumption DEF Init, PInv, TypeOK, PacketInv, AtFirst

LEMMA NextInv == PInv /\ [Next]_vars => PInv'
<1> SUFFICES ASSUME TypeOK, PacketInv, [Next]_vars PROVE TypeOK' /\ PacketInv'
  BY DEF PInv
<1>t. /\ state \in {"FIXED", "LENGTH", "REMAIN"} /\ flags \in Byte /\ n \in Nat
      /\ multiplier \in Nat /\ require \in Nat /\ body \in Seq(Byte)
      /\ chunk \in Seq(Byte) /\ received \in Seq(Byte) /\ delivered \in Seq(Packets)
      /\ mode \in Modes
  BY DEF TypeOK, Packets
<1>1. CASE Recv
  <2>1. PICK c \in Chunks : chunk' = c /\ received' = received \o c  BY <1>1 DEF Recv
  <2>2. c \in Seq(Byte)  BY Fragment, ParserAssumption DEF Chunks
  <2> QED  BY <1>1, <1>t, <2>1, <2>2 DEF Recv, parser, TypeOK, PacketInv
<1>2. CASE Fetch
  <2>1. PICK c \in [1..require -> Alphabet] : chunk' = c /\ received' = received \o c
    BY <1>2 DEF Fetch
  <2>2. c \in Seq(Byte)  BY <1>t, Fragment
  <2> QED  BY <1>2, <1>t, <2>1, <2>2 DEF Fetch, parser, TypeOK, PacketInv
<1>3. CASE FetchShort
  <2>1. PICK m \in 1..(require - 1) : \E c \in [1..m -> Alphabet] : received' = received \o c
    BY <1>3 DEF FetchShort
  <2>2. PICK c \in [1..m -> Alphabet] : received' = received \o c  BY <2>1
  <2>3. c \in Seq(Byte)  BY <1>t, Fragment
  <2> QED  BY <1>3, <1>t, <2>2, <2>3 DEF FetchShort, parser, TypeOK, PacketInv
<1>4. CASE Fixed
  <2>1. Head(chunk) \in Byte /\ Tail(chunk) \in Seq(Byte)
    BY <1>4, <1>t, HeadTail DEF Fixed, Parse
  <2>2. flags' = Head(chunk) /\ n' = 0 /\ body' = <<>> /\ UNCHANGED <<mode, received>>
    BY <1>4 DEF Fixed
  <2>3. CASE Head(chunk) \in Headers
    <3>1. /\ state' = "LENGTH" /\ multiplier' = 1 /\ require' = 1 /\ chunk' = Tail(chunk)
          /\ UNCHANGED <<pc, delivered>>
      BY <1>4, <2>3 DEF Fixed
    <3> QED  BY <1>t, <2>1, <2>2, <2>3, <3>1 DEF TypeOK, PacketInv
  <2>4. CASE Head(chunk) \notin Headers
    <3>1. /\ pc' = "failed" /\ chunk' = <<>> /\ state = "FIXED"
          /\ UNCHANGED <<delivered, state, multiplier, require>>
      BY <1>4, <2>4 DEF Fixed, Fail, Parse
    <3> QED  BY <1>t, <2>1, <2>2, <3>1 DEF TypeOK, PacketInv
  <2> QED  BY <2>3, <2>4
<1>5. CASE Length
  <2>1. Head(chunk) \in Byte /\ Tail(chunk) \in Seq(Byte)
    BY <1>5, <1>t, HeadTail DEF Length, Parse
  <2>2. /\ state = "LENGTH" /\ flags \in Headers /\ body = <<>> /\ pc = "parse"
        /\ UNCHANGED <<mode, flags, body, received>>
    BY <1>5 DEF Length, Parse, PacketInv
  <2>3. CASE TooLong
    <3>1. /\ n' = n /\ pc' = "failed" /\ chunk' = <<>>
          /\ UNCHANGED <<delivered, state, multiplier, require>>
      BY <1>5, <2>3 DEF Length, Fail
    <3> QED  BY <1>t, <2>2, <3>1 DEF TypeOK, PacketInv
  <2>4. CASE ~TooLong
    <3>1. n' = n + Digit(Head(chunk)) * multiplier /\ multiplier' = multiplier * Radix
      BY <1>5, <2>4 DEF Length
    <3>2. n' \in Nat
      <4>1. Digit(Head(chunk)) * multiplier \in Nat  BY <1>t, <2>1, DigitIsNat, ProductIsNat
      <4> QED  BY <3>1, <1>t, <4>1
    <3>3. multiplier' \in Nat  BY <3>1, <1>t, Numbers, ProductIsNat
    <3>4. CASE Continues(Head(chunk))
      <4>1. chunk' = Tail(chunk) /\ UNCHANGED <<state, require, pc, delivered>>
        BY <1>5, <2>4, <3>4 DEF Length
      <4> QED  BY <1>t, <2>1, <2>2, <3>2, <3>3, <4>1 DEF TypeOK, PacketInv
    <3>5. CASE ~Continues(Head(chunk)) /\ n' > 0
      <4>1. /\ state' = "REMAIN" /\ require' = n' /\ chunk' = Tail(chunk)
            /\ UNCHANGED <<pc, delivered>>
        BY <1>5, <2>4, <3>5 DEF Length
      <4>2. require' > 0 /\ Len(body') + require' = n'
        <5>1. Len(body') = 0  BY <2>2
        <5>2. require' = n' /\ n' > 0  BY <3>5, <4>1
        <5>3. \A k \in Nat : 0 + k = k  OBVIOUS
        <5>4. Len(body') + require' = 0 + n'  BY <5>1, <5>2
        <5> QED  BY <3>2, <5>2, <5>3, <5>4
      <4>3. TypeOK'
        BY <1>t, <2>1, <2>2, <3>2, <3>3, <4>1, <4>2, TypeOK DEF TypeOK, Packets
      <4> QED  BY <2>2, <4>1, <4>3 DEF PacketInv
    <3>6. CASE ~Continues(Head(chunk)) /\ ~(n' > 0)
      <4>1. /\ state' = StateAfter /\ require' = 0
            /\ Process([flags |-> flags, body |-> <<>>], Tail(chunk))
        BY <1>5, <2>4, <3>6 DEF Length
      <4>2. /\ pc' \in {"failed", "handle"} /\ chunk' \in Seq(Byte)
            /\ delivered' \in Seq(Packets)
        BY <1>t, <2>1, <2>2, <4>1, ProcessType
      <4> QED  BY <1>t, <2>2, <3>2, <3>3, <4>1, <4>2
               DEF TypeOK, PacketInv, StateAfter, Packets
    <3> QED  BY <3>4, <3>5, <3>6
  <2> QED  BY <2>3, <2>4
<1>6. CASE RemainSome
  <2>1. /\ state = "REMAIN" /\ Len(chunk) < require /\ body' = body \o chunk
        /\ require' = require - Len(chunk) /\ chunk' = <<>>
        /\ UNCHANGED <<mode, state, flags, n, multiplier, pc, received, delivered>>
    BY <1>6 DEF RemainSome, Parse
  <2>2. body' \in Seq(Byte) /\ Len(body') = Len(body) + Len(chunk) /\ Len(chunk) \in Nat
    BY <1>t, <2>1
  <2>3. require' \in Nat /\ require' > 0  BY <1>t, <2>1, <2>2
  <2>4. mode = "parse" => Len(body) + require = n /\ Len(body) \in Nat  BY <1>t, <2>1 DEF TypeOK
  <2>5. ASSUME mode = "parse" PROVE Len(body') + require' = n
    <3>1. \A a, b, c \in Nat : a + c + (b - c) = a + b  OBVIOUS
    <3>2. Len(body') = Len(body) + Len(chunk) /\ require' = require - Len(chunk)
      BY <2>1, <2>2
    <3>3. Len(body) + Len(chunk) + (require - Len(chunk)) = Len(body) + require
      BY <1>t, <2>2, <2>4, <2>5, <3>1
    <3> QED  BY <2>4, <2>5, <3>2, <3>3
  <2> QED  BY <1>t, <2>1, <2>2, <2>3, <2>5 DEF TypeOK, PacketInv
<1>7. CASE RemainAll
  <2>1. /\ state = "REMAIN" /\ Len(chunk) >= require /\ body' = body \o SubSeq(chunk, 1, require)
        /\ state' = StateAfter
        /\ Process([flags |-> flags, body |-> body'], SubSeq(chunk, require + 1, Len(chunk)))
        /\ UNCHANGED <<mode, flags, n, multiplier, require, received>>
    BY <1>7 DEF RemainAll, Parse
  <2>2. /\ SubSeq(chunk, 1, require) \in Seq(Byte)
        /\ SubSeq(chunk, require + 1, Len(chunk)) \in Seq(Byte)
    BY <1>t, <2>1, Pieces
  <2>3. body' \in Seq(Byte) /\ flags \in Headers  BY <1>t, <2>1, <2>2 DEF PacketInv
  <2>4. /\ pc' \in {"failed", "handle"} /\ chunk' \in Seq(Byte) /\ delivered' \in Seq(Packets)
    BY <2>1, <2>2, <2>3, ProcessType
  <2>5. state' = "FIXED" \/ (state' = "REMAIN" /\ mode # "parse")  BY <2>1 DEF StateAfter
  <2> QED  BY <1>t, <2>1, <2>3, <2>4, <2>5 DEF TypeOK, PacketInv, Packets
<1>8. CASE Handle
  <2>1. /\ pc' \in {"parse", "closed"} /\ (chunk' = chunk \/ chunk' = <<>>)
        /\ UNCHANGED <<mode, parser, received, delivered>>
    BY <1>8 DEF Handle
  <2>2. chunk' \in Seq(Byte)
    <3>1. chunk' = chunk \/ chunk' = <<>>  BY <2>1
    <3>2. chunk \in Seq(Byte) /\ <<>> \in Seq(Byte)  BY <1>t
    <3> QED  BY <3>1, <3>2
  <2>3. UNCHANGED <<state, flags, n, multiplier, require, body>>  BY <2>1 DEF parser
  <2> QED  BY <1>t, <2>1, <2>2, <2>3 DEF TypeOK, PacketInv
<1>9. CASE ReadNext  BY <1>9, <1>t DEF ReadNext, TypeOK, PacketInv
<1>10. CASE ChunkEnd  BY <1>10, <1>t DEF ChunkEnd, parser, TypeOK, PacketInv
<1>11. CASE End  BY <1>11, <1>t DEF End, parser, TypeOK, PacketInv
<1>12. CASE Reconnect
  <2>1. /\ pc' = "recv" /\ received' = <<>> /\ delivered' = <<>>
        /\ UNCHANGED <<mode, flags, n, multiplier, body, chunk>>
        /\ \/ state' = "FIXED" /\ require' = 1
           \/ UNCHANGED <<state, require>>
    BY <1>12 DEF Reconnect
  <2> QED  BY <1>t, <2>1 DEF TypeOK, PacketInv
<1>13. CASE UNCHANGED vars  BY <1>13, <1>t DEF vars, parser, TypeOK, PacketInv
<1> QED  BY <1>1, <1>2, <1>3, <1>4, <1>5, <1>6, <1>7, <1>8, <1>9, <1>10, <1>11, <1>12, <1>13
         DEF Next

LEMMA Invariance == Spec => []PInv
<1> QED  BY InitInv, NextInv, PTL DEF Spec

(* The variables of the parser keep their domains whatever arrives; while  *)
(* a body is awaited, mqtt_parse has copied exactly the bytes that are not *)
(* required any more.                                                      *)
THEOREM TypeCorrect == Spec => []TypeOK
<1>1. PInv => TypeOK  BY DEF PInv
<1> QED  BY Invariance, <1>1, PTL

(* A length with too many digits disables mqtt_parse for good: no step     *)
(* ends the state it leaves, none parses another packet.                   *)
THEOREM TooLongIsForEver == Spec => StuckForEver
<1>1. PInv /\ [Next]_vars => [Stuck => Stuck' /\ Len(delivered') <= Len(delivered)]_vars
  <2> SUFFICES ASSUME PInv, Next, Stuck PROVE Stuck' /\ Len(delivered') <= Len(delivered)
    OBVIOUS
  <2>1. mode = "parse" /\ state = "LENGTH" /\ TooLong /\ Len(delivered) \in Nat
    BY DEF Stuck, PInv, TypeOK
  <2>2. CASE Length
    <3>1. UNCHANGED <<mode, state, multiplier, delivered>>
      BY <2>1, <2>2 DEF Length, Fail
    <3> QED  BY <2>1, <3>1 DEF Stuck, TooLong
  <2>3. CASE Reconnect
    <3>1. UNCHANGED <<mode, state, multiplier>> /\ delivered' = <<>>
      BY <2>1, <2>3 DEF Reconnect
    <3> QED  BY <2>1, <3>1 DEF Stuck, TooLong
  <2>4. CASE Recv \/ Handle \/ ChunkEnd \/ End
    <3>1. UNCHANGED <<mode, state, multiplier, delivered>>
      BY <2>4 DEF Recv, Handle, ChunkEnd, End, parser
    <3> QED  BY <2>1, <3>1 DEF Stuck, TooLong
  <2>5. ~(Fetch \/ FetchShort \/ Fixed \/ RemainSome \/ RemainAll \/ ReadNext)
    BY <2>1 DEF Fetch, FetchShort, Fixed, RemainSome, RemainAll, ReadNext, Parse
  <2> QED  BY <2>2, <2>3, <2>4, <2>5 DEF Next
<1> QED  BY Invariance, <1>1, PTL DEF Spec, StuckForEver

(* Induction over the natural numbers, from the well-foundedness of <.     *)
Below == {ss \in Nat \X Nat : ss[1] < ss[2]}

LEMMA BelowIsWellFounded == IsWellFoundedOn(Below, Nat)
<1>1. IsWellFoundedOn(OpToRel(<, Nat), Nat)  BY NatLessThanWellFounded
<1>2. Below = OpToRel(<, Nat)  BY DEF Below, OpToRel
<1> QED  BY <1>1, <1>2

LEMMA Least ==
  ASSUME NEW T, T \subseteq Nat, T # {}
  PROVE  \E x \in T : \A y \in T : x <= y
<1>1. PICK x \in T : \A y \in T : <<y, x>> \notin Below
  BY BelowIsWellFounded, WFMin
<1>2. ASSUME NEW y \in T PROVE x <= y
  <2>1. <<y, x>> \notin Below /\ x \in Nat /\ y \in Nat  BY <1>1
  <2> QED  BY <2>1 DEF Below
<1> QED  BY <1>2

LEMMA Induction ==
  ASSUME NEW S, 0 \in S, \A k \in Nat : k \in S => k + 1 \in S
  PROVE  \A k \in Nat : k \in S
<1> SUFFICES ASSUME NEW T, T = {k \in Nat : k \notin S}, T # {} PROVE FALSE
  OBVIOUS
<1>1. PICK x \in T : \A y \in T : x <= y  BY Least
<1>2. x \in Nat /\ x # 0 /\ x - 1 \in Nat  OBVIOUS
<1>3. x - 1 \in S  BY <1>1, <1>2
<1> QED  BY <1>2, <1>3
-----------------------------------------------------------------------------
(* A function may be defined by recursion along J, which lowers the rank R *)
(* where it is used at all: the equation has a solution.                   *)
Solves(f, D, Good, J, C, G) ==
  \A i \in D : f[i] = IF i \in Good THEN G[i][f[J[i]]] ELSE C[i]
Lowers(J, R, D, Good) == \A i \in D : i \in Good => R[J[i]] < R[i]

LEMMA Recursion ==
  ASSUME NEW D, NEW V, NEW N \in Nat, NEW R \in [D -> 0..N], NEW Good,
         NEW J \in [D -> D], NEW C \in [D -> V], NEW G \in [D -> [V -> V]],
         Lowers(J, R, D, Good)
  PROVE  \E f \in [D -> V] : Solves(f, D, Good, J, C, G)
<1>l. \A i \in D : i \in Good => R[J[i]] < R[i]  BY DEF Lowers
<1> DEFINE S == {j \in Nat : \E f \in [D -> V] : \A i \in D :
                   R[i] < j => f[i] = IF i \in Good THEN G[i][f[J[i]]] ELSE C[i]}
<1>1. 0 \in S
  <2>1. \A i \in D : ~(R[i] < 0)  OBVIOUS
  <2> QED  BY <2>1
<1>2. ASSUME NEW j \in Nat, j \in S PROVE j + 1 \in S
  <2>1. PICK f \in [D -> V] : \A i \in D :
          R[i] < j => f[i] = IF i \in Good THEN G[i][f[J[i]]] ELSE C[i]
    BY <1>2
  <2> DEFINE g == [i \in D |-> IF R[i] < j THEN f[i]
                               ELSE IF i \in Good THEN G[i][f[J[i]]] ELSE C[i]]
  <2>2. g \in [D -> V]
    <3>1. ASSUME NEW i \in D PROVE g[i] \in V
      <4>1. J[i] \in D /\ f[J[i]] \in V /\ G[i] \in [V -> V] /\ C[i] \in V /\ f[i] \in V
        OBVIOUS
      <4> QED  BY <4>1
    <3> QED  BY <3>1
  <2>3. ASSUME NEW i \in D, R[i] < j + 1
        PROVE  g[i] = IF i \in Good THEN G[i][g[J[i]]] ELSE C[i]
    <3>1. R[i] \in Nat /\ J[i] \in D /\ R[J[i]] \in Nat  OBVIOUS
    <3>2. i \in Good => g[J[i]] = f[J[i]]
      <4>1. i \in Good => R[J[i]] < j  BY <1>l, <2>3, <3>1
      <4> QED  BY <3>1, <4>1
    <3>3. g[i] = IF i \in Good THEN G[i][f[J[i]]] ELSE C[i]  BY <2>1
    <3> QED  BY <3>2, <3>3
  <2> HIDE DEF g
  <2> QED  BY <2>2, <2>3
<1>3. N + 1 \in S
  <2> HIDE DEF S
  <2> QED  BY <1>1, <1>2, Induction
<1>4. PICK f \in [D -> V] : \A i \in D :
        R[i] < N + 1 => f[i] = IF i \in Good THEN G[i][f[J[i]]] ELSE C[i]
  BY <1>3
<1>5. \A i \in D : R[i] < N + 1  OBVIOUS
<1> QED  BY <1>4, <1>5 DEF Solves

(* The powers of the radix.                                                *)
LEMMA PowerDef ==
  /\ Power = [k \in 0..MaxDigits |-> IF k = 0 THEN 1 ELSE Radix * Power[k - 1]]
  /\ Power[0] = 1
  /\ \A k \in 1..MaxDigits : Power[k] = Radix * Power[k - 1]
<1> DEFINE D == 0..MaxDigits
           J == [k \in D |-> IF k = 0 THEN 0 ELSE k - 1]
           C == [k \in D |-> 1]
           G == [k \in D |-> [v \in Nat |-> Radix * v]]
           R == [k \in D |-> k]
           V == Nat
           Good == 1..MaxDigits
<1>n. MaxDigits \in Nat /\ Radix \in Nat  BY ParserAssumption
<1>1. PICK f \in [D -> V] : Solves(f, D, Good, J, C, G)
  <2>1. J \in [D -> D] /\ C \in [D -> V] /\ R \in [D -> 0..MaxDigits]  BY <1>n
  <2>2. G \in [D -> [V -> V]]  BY <1>n
  <2>3. Lowers(J, R, D, Good)  BY <1>n DEF Lowers
  <2> HIDE DEF D, J, C, G, R, V, Good
  <2> QED  BY <2>1, <2>2, <2>3, <1>n, Recursion
<1>2. f = [k \in D |-> IF k = 0 THEN 1 ELSE Radix * f[k - 1]]
  <2>1. ASSUME NEW k \in D PROVE f[k] = IF k = 0 THEN 1 ELSE Radix * f[k - 1]
    <3>1. CASE k = 0
      <4>1. k \notin Good /\ C[k] = 1  BY <3>1
      <4> QED  BY <1>1, <3>1, <4>1 DEF Solves
    <3>2. CASE k # 0
      <4>1. k \in 1..MaxDigits /\ J[k] = k - 1 /\ k - 1 \in D  BY <3>2, <1>n
      <4>2. f[k - 1] \in Nat  BY <4>1
      <4>3. f[k] = G[k][f[k - 1]]  BY <1>1, <4>1 DEF Solves
      <4>4. G[k][f[k - 1]] = Radix * f[k - 1]  BY <4>2
      <4> QED  BY <3>2, <4>3, <4>4
    <3> QED  BY <3>1, <3>2
  <2> QED  BY <2>1
<1>3. Power = [k \in 0..MaxDigits |-> IF k = 0 THEN 1 ELSE Radix * Power[k - 1]]
  BY <1>2 DEF Power
<1> QED  BY <1>3, <1>n

LEMMA PowerGrows ==
  /\ \A k \in 0..MaxDigits : Power[k] \in Nat /\ Power[k] > 0
  /\ \A k \in 0..(MaxDigits - 1) : Power[k] < Power[MaxDigits]
  /\ \A k \in 0..(MaxDigits - 1) : Power[k] <= Power[MaxDigits - 1]
<1>n. MaxDigits \in Nat /\ MaxDigits >= 1 /\ Radix \in Nat /\ Radix >= 2  BY ParserAssumption
<1> DEFINE S == {j \in Nat : j <= MaxDigits =>
                   /\ Power[j] \in Nat /\ Power[j] > 0
                   /\ \A k \in 0..MaxDigits : k < j => Power[k] \in Nat /\ Power[k] < Power[j]}
<1>1. 0 \in S  BY PowerDef, <1>n
<1>2. ASSUME NEW j \in Nat, j \in S PROVE j + 1 \in S
  <2> SUFFICES ASSUME j + 1 <= MaxDigits
               PROVE  /\ Power[j + 1] \in Nat /\ Power[j + 1] > 0
                      /\ \A k \in 0..MaxDigits : k < j + 1 => Power[k] \in Nat /\ Power[k] < Power[j + 1]
    OBVIOUS
  <2>1. /\ Power[j] \in Nat /\ Power[j] > 0
        /\ \A k \in 0..MaxDigits : k < j => Power[k] \in Nat /\ Power[k] < Power[j]
    BY <1>2, <1>n
  <2>2. Power[j + 1] = Radix * Power[j]
    <3>1. j + 1 \in 1..MaxDigits /\ (j + 1) - 1 = j  BY <1>n
    <3> QED  BY <3>1, PowerDef
  <2>3. \A p \in Nat : p > 0 => Radix * p \in Nat /\ Radix * p > p
    <3>1. ASSUME NEW p \in Nat, p > 0 PROVE Radix * p \in Nat /\ Radix * p > p
      <4>1. PICK r \in Nat : Radix = 2 + r
        <5>1. Radix - 2 \in Nat /\ Radix = 2 + (Radix - 2)  BY <1>n
        <5> QED  BY <5>1
      <4>2. r * p \in Nat /\ (2 + r) * p = 2 * p + r * p  OBVIOUS
      <4> QED  BY <3>1, <4>1, <4>2
    <3> QED  BY <3>1
  <2>4. Power[j + 1] \in Nat /\ Power[j + 1] > Power[j]  BY <2>1, <2>2, <2>3
  <2>5. ASSUME NEW k \in 0..MaxDigits, k < j + 1
               PROVE  Power[k] \in Nat /\ Power[k] < Power[j + 1]
    <3>1. CASE k = j  BY <2>1, <2>4, <3>1
    <3>2. CASE k < j
      <4>1. Power[k] \in Nat /\ Power[k] < Power[j]  BY <2>1, <3>2, <1>n
      <4> QED  BY <2>1, <2>4, <4>1
    <3> QED  BY <2>5, <3>1, <3>2, <1>n
  <2> QED  BY <2>1, <2>4, <2>5
<1>3. \A j \in Nat : j \in S
  <2> HIDE DEF S
  <2> QED  BY <1>1, <1>2, Induction
<1>4. ASSUME NEW j \in 0..MaxDigits
      PROVE  /\ Power[j] \in Nat /\ Power[j] > 0
             /\ \A k \in 0..MaxDigits : k < j => Power[k] \in Nat /\ Power[k] < Power[j]
  <2>1. j \in Nat /\ j \in S  BY <1>3, <1>n
  <2> QED  BY <2>1, <1>n
<1>5. ASSUME NEW k \in 0..(MaxDigits - 1) PROVE Power[k] < Power[MaxDigits]
  <2>1. k \in 0..MaxDigits /\ MaxDigits \in 0..MaxDigits /\ k < MaxDigits  BY <1>n
  <2> QED  BY <1>4, <2>1
<1>6. ASSUME NEW k \in 0..(MaxDigits - 1) PROVE Power[k] <= Power[MaxDigits - 1]
  <2>1. k \in 0..MaxDigits /\ MaxDigits - 1 \in 0..MaxDigits  BY <1>n
  <2>2. CASE k < MaxDigits - 1  BY <1>4, <2>1, <2>2
  <2>3. CASE k = MaxDigits - 1  BY <1>4, <2>1, <2>3
  <2> QED  BY <2>2, <2>3, <1>n
<1> QED  BY <1>4, <1>5, <1>6

(* What is subtracted from or added to a length.                           *)
Places(s, i) == {e \in 0..MaxDigits : i + e <= Len(s)}

LEMMA LengthDef ==
  ASSUME NEW s \in Seq(Byte), NEW i \in 1..(Len(s) + 1)
  PROVE  /\ i <= Len(s) => LengthAt(s, i, 0) = 0
         /\ \A d \in Places(s, i) \ {0} :
              LengthAt(s, i, d) = LengthAt(s, i, d - 1) + Digit(s[i + d]) * Power[d - 1]
<1> DEFINE D == Places(s, i)
           J == [e \in D |-> IF e = 0 THEN 0 ELSE e - 1]
           C == [e \in D |-> 0]
           G == [e \in D |-> [v \in Nat |-> IF e = 0 THEN 0 ELSE v + Digit(s[i + e]) * Power[e - 1]]]
           R == [e \in D |-> e]
           V == Nat
           Good == D \ {0}
<1>n. MaxDigits \in Nat /\ Radix \in Nat /\ Len(s) \in Nat  BY ParserAssumption
<1>d. \A e \in D : e \in 0..MaxDigits /\ (e # 0 => e - 1 \in D /\ 0 \in D)
  BY <1>n DEF Places
<1>g. \A e \in D : e # 0 => Digit(s[i + e]) * Power[e - 1] \in Nat
  <2> SUFFICES ASSUME NEW e \in D, e # 0 PROVE Digit(s[i + e]) * Power[e - 1] \in Nat
    OBVIOUS
  <2>1. i + e \in 1..Len(s)  BY <1>n DEF Places
  <2>2. Digit(s[i + e]) \in Nat  BY <2>1, DigitIsNat
  <2>3. e - 1 \in 0..MaxDigits  BY <1>n DEF Places
  <2>4. Power[e - 1] \in Nat  BY <2>3, PowerGrows
  <2> QED  BY <2>2, <2>4, ProductIsNat
<1>1. PICK f \in [D -> V] : Solves(f, D, Good, J, C, G)
  <2>1. J \in [D -> D] /\ C \in [D -> V] /\ R \in [D -> 0..MaxDigits]
    <3> HIDE DEF D
    <3> QED  BY <1>d
  <2>2. G \in [D -> [V -> V]]
    <3> HIDE DEF D
    <3>1. ASSUME NEW e \in D, NEW v \in Nat
          PROVE  (IF e = 0 THEN 0 ELSE v + Digit(s[i + e]) * Power[e - 1]) \in Nat
      BY <1>g
    <3> QED  BY <3>1
  <2>3. Lowers(J, R, D, Good)
    <3> HIDE DEF D
    <3> QED  BY <1>d DEF Lowers
  <2> HIDE DEF D, J, C, G, R, V, Good
  <2> QED  BY <2>1, <2>2, <2>3, <1>n, Recursion
<1>2. \A e \in D : f[e] = IF e = 0 THEN 0 ELSE f[e - 1] + Digit(s[i + e]) * Power[e - 1]
  <2> SUFFICES ASSUME NEW e \in D
               PROVE  f[e] = IF e = 0 THEN 0 ELSE f[e - 1] + Digit(s[i + e]) * Power[e - 1]
    OBVIOUS
  <2> HIDE DEF D
  <2>1. CASE e = 0
    <3>1. e \notin Good /\ C[e] = 0  BY <2>1
    <3> QED  BY <1>1, <2>1, <3>1 DEF Solves
  <2>2. CASE e # 0
    <3>1. e \in Good /\ J[e] = e - 1 /\ e - 1 \in D  BY <2>2, <1>d
    <3>2. f[e] = G[e][f[e - 1]]  BY <1>1, <3>1 DEF Solves
    <3>3. f[e - 1] \in V  BY <3>1
    <3> QED  BY <2>2, <3>2, <3>3
  <2> QED  BY <2>1, <2>2
<1> DEFINE value == CHOOSE g : g = [e \in D |-> IF e = 0 THEN 0 ELSE g[e - 1] + Digit(s[i + e]) * Power[e - 1]]
<1>3. value = [e \in D |-> IF e = 0 THEN 0 ELSE value[e - 1] + Digit(s[i + e]) * Power[e - 1]]
  <2> HIDE DEF D
  <2>1. f = [e \in D |-> IF e = 0 THEN 0 ELSE f[e - 1] + Digit(s[i + e]) * Power[e - 1]]
    BY <1>2
  <2> QED  BY <2>1
<1>4. \A d : LengthAt(s, i, d) = value[d]
  BY DEF LengthAt, Places
<1> HIDE DEF value
<1>5. i <= Len(s) => 0 \in D  BY <1>n DEF Places
<1>6. D = Places(s, i)  OBVIOUS
<1> HIDE DEF D
<1>7. 0 \in D => value[0] = 0  BY <1>3
<1>8. \A d \in D : d # 0 => value[d] = value[d - 1] + Digit(s[i + d]) * Power[d - 1]
  BY <1>3
<1> QED  BY <1>4, <1>5, <1>6, <1>7, <1>8

LEMMA LengthIsNat ==
  ASSUME NEW s \in Seq(Byte), NEW i \in 1..Len(s)
  PROVE  \A d \in Places(s, i) : LengthAt(s, i, d) \in Nat
<1> DEFINE S == {j \in Nat : j \in Places(s, i) => LengthAt(s, i, j) \in Nat}
<1>n. MaxDigits \in Nat /\ Len(s) \in Nat /\ i \in 1..(Len(s) + 1)  BY ParserAssumption
<1>1. 0 \in S  BY LengthDef, <1>n
<1>2. ASSUME NEW j \in Nat, j \in S PROVE j + 1 \in S
  <2> SUFFICES ASSUME j + 1 \in Places(s, i) PROVE LengthAt(s, i, j + 1) \in Nat  OBVIOUS
  <2>1. /\ j \in Places(s, i) /\ j \in 0..MaxDigits /\ i + (j + 1) \in 1..Len(s)
        /\ (j + 1) - 1 = j /\ j + 1 \in Places(s, i) \ {0}
    BY <1>n DEF Places
  <2>2. LengthAt(s, i, j) \in Nat  BY <1>2, <2>1
  <2>3. LengthAt(s, i, j + 1) = LengthAt(s, i, j) + Digit(s[i + (j + 1)]) * Power[j]
    BY <1>n, <2>1, LengthDef
  <2>4. Digit(s[i + (j + 1)]) \in Nat /\ Power[j] \in Nat
    BY <2>1, DigitIsNat, PowerGrows
  <2>5. Digit(s[i + (j + 1)]) * Power[j] \in Nat  BY <2>4, ProductIsNat
  <2> QED  BY <2>2, <2>3, <2>5
<1>3. \A j \in Nat : j \in S
  <2> HIDE DEF S
  <2> QED  BY <1>1, <1>2, Induction
<1> QED  BY <1>3, <1>n DEF Places

(* A length depends on nothing but its digits, wherever they stand.        *)
LEMMA LengthAgrees ==
  ASSUME NEW s \in Seq(Byte), NEW i \in 1..Len(s), NEW u \in Seq(Byte), NEW k \in 1..Len(u),
         NEW d \in Places(s, i), d \in Places(u, k), \A e \in 1..d : s[i + e] = u[k + e]
  PROVE  LengthAt(s, i, d) = LengthAt(u, k, d)
<1> DEFINE S == {j \in Nat : j <= d => LengthAt(s, i, j) = LengthAt(u, k, j)}
<1>n. /\ MaxDigits \in Nat /\ Len(s) \in Nat /\ i \in 1..(Len(s) + 1)
      /\ Len(u) \in Nat /\ k \in 1..(Len(u) + 1) /\ d \in Nat
  BY ParserAssumption DEF Places
<1>1. 0 \in S  BY LengthDef, <1>n
<1>2. ASSUME NEW j \in Nat, j \in S PROVE j + 1 \in S
  <2> SUFFICES ASSUME j + 1 <= d PROVE LengthAt(s, i, j + 1) = LengthAt(u, k, j + 1)
    OBVIOUS
  <2>1. j + 1 \in Places(s, i) \ {0} /\ j + 1 \in Places(u, k) \ {0} /\ (j + 1) - 1 = j
    BY <1>n DEF Places
  <2>2. s[i + (j + 1)] = u[k + (j + 1)]
    <3>1. j + 1 \in 1..d  BY <1>n
    <3> QED  BY <3>1
  <2>3. LengthAt(s, i, j + 1) = LengthAt(s, i, j) + Digit(s[i + (j + 1)]) * Power[j]
    BY <1>n, <2>1, LengthDef
  <2>4. LengthAt(u, k, j + 1) = LengthAt(u, k, j) + Digit(u[k + (j + 1)]) * Power[j]
    BY <1>n, <2>1, LengthDef
  <2>5. LengthAt(s, i, j) = LengthAt(u, k, j)  BY <1>2, <1>n
  <2> QED  BY <2>2, <2>3, <2>4, <2>5
<1>3. \A j \in Nat : j \in S
  <2> HIDE DEF S
  <2> QED  BY <1>1, <1>2, Induction
<1> QED  BY <1>3, <1>n

(* The length of the packet at s[b] has d digits.                          *)
HasDigits(s, b, d) ==
  /\ d \in 1..MaxDigits /\ b + d <= Len(s) /\ ~Continues(s[b + d])
  /\ \A e \in 1..(d - 1) : Continues(s[b + e])

LEMMA DigitsAreOne ==
  ASSUME NEW s \in Seq(Byte), NEW b \in 1..Len(s), NEW d, HasDigits(s, b, d)
  PROVE  DigitsAt(s, b) = {d} /\ Digits(s, b) = d
<1>n. MaxDigits \in Nat  BY ParserAssumption
<1>1. d \in DigitsAt(s, b)  BY DEF DigitsAt, HasDigits
<1>2. ASSUME NEW c \in DigitsAt(s, b) PROVE c = d
  <2>1. /\ c \in 1..MaxDigits /\ d \in 1..MaxDigits
        /\ ~Continues(s[b + c]) /\ ~Continues(s[b + d])
        /\ \A e \in 1..(c - 1) : Continues(s[b + e])
        /\ \A e \in 1..(d - 1) : Continues(s[b + e])
    BY DEF DigitsAt, HasDigits
  <2>2. ~(c < d) /\ ~(d < c)
    <3>1. c < d => c \in 1..(d - 1)  BY <2>1, <1>n
    <3>2. d < c => d \in 1..(c - 1)  BY <2>1, <1>n
    <3> QED  BY <2>1, <3>1, <3>2
  <2> QED  BY <2>1, <2>2, <1>n
<1>3. DigitsAt(s, b) = {d}  BY <1>1, <1>2
<1> QED  BY <1>3 DEF Digits

Good(s, i) == Complete(s, i) /\ s[i] \in Headers \ Malformed

LEMMA PacketType ==
  ASSUME NEW s \in Seq(Byte), NEW i \in 1..(Len(s) + 1), Good(s, i)
  PROVE  /\ i \in 1..Len(s) /\ LastAt(s, i) \in (i + 1)..Len(s)
         /\ PacketAt(s, i) \in Packets
<1>n. MaxDigits \in Nat /\ Len(s) \in Nat /\ i \in 1..Len(s)
  BY ParserAssumption DEF Good, Complete
<1>1. Digits(s, i) \in DigitsAt(s, i)  BY DEF Good, Complete, Digits
<1>2. Digits(s, i) \in 1..MaxDigits /\ i + Digits(s, i) <= Len(s)
  BY <1>1 DEF DigitsAt
<1>3. Digits(s, i) \in Places(s, i)  BY <1>2, <1>n DEF Places
<1>4. LengthAt(s, i, Digits(s, i)) \in Nat  BY <1>3, <1>n, LengthIsNat
<1>5. LastAt(s, i) \in Int /\ LastAt(s, i) >= i + Digits(s, i)  BY <1>2, <1>4, <1>n DEF LastAt
<1>6. LastAt(s, i) <= Len(s)  BY DEF Good, Complete
<1>7. SubSeq(s, i + Digits(s, i) + 1, LastAt(s, i)) \in Seq(Byte)
  <2>1. i + Digits(s, i) + 1 \in 1..(Len(s) + 1) /\ LastAt(s, i) \in 0..Len(s)
    BY <1>2, <1>5, <1>6, <1>n
  <2> QED  BY <2>1, SubSeqProperties
<1>8. s[i] \in Headers \ Malformed  BY DEF Good
<1> QED  BY <1>2, <1>5, <1>6, <1>7, <1>8, <1>n DEF PacketAt, Packets

Decoded(s) == [packets : Seq(Packets), next : 1..(Len(s) + 1)]

LEMMA DecodeDef ==
  ASSUME NEW s \in Seq(Byte), NEW i \in 1..(Len(s) + 1)
  PROVE  DecodeFrom(s, i) =
           IF Good(s, i)
           THEN [packets |-> <<PacketAt(s, i)>> \o DecodeFrom(s, LastAt(s, i) + 1).packets,
                 next    |-> DecodeFrom(s, LastAt(s, i) + 1).next]
           ELSE [packets |-> <<>>, next |-> i]
<1> DEFINE D == 1..(Len(s) + 1)
           Goods == {k \in D : Good(s, k)}
           J == [k \in D |-> IF Good(s, k) THEN LastAt(s, k) + 1 ELSE k]
           C == [k \in D |-> [packets |-> <<>>, next |-> k]]
           V == Decoded(s)
           G == [k \in D |-> [v \in V |-> IF Good(s, k) THEN
                                [packets |-> <<PacketAt(s, k)>> \o v.packets, next |-> v.next] ELSE v]]
           R == [k \in D |-> Len(s) + 1 - k]
<1>n. Len(s) \in Nat /\ Len(s) + 1 \in Nat  OBVIOUS
<1>d. ASSUME NEW k \in D, Good(s, k)
      PROVE  /\ PacketAt(s, k) \in Packets /\ LastAt(s, k) \in Int
             /\ LastAt(s, k) + 1 \in D /\ LastAt(s, k) + 1 > k
  <2>1. LastAt(s, k) \in (k + 1)..Len(s) /\ PacketAt(s, k) \in Packets
    BY <1>d, PacketType
  <2> QED  BY <2>1, <1>n
<1>1. PICK f \in [D -> V] : Solves(f, D, Goods, J, C, G)
  <2>1. J \in [D -> D] /\ R \in [D -> 0..(Len(s) + 1)]
    <3>1. \A k \in D : (IF Good(s, k) THEN LastAt(s, k) + 1 ELSE k) \in D  BY <1>d
    <3>2. \A k \in D : Len(s) + 1 - k \in 0..(Len(s) + 1)  BY <1>n
    <3> HIDE DEF D
    <3> QED  BY <3>1, <3>2
  <2>2. C \in [D -> V]
    <3>1. <<>> \in Seq(Packets)  BY EmptySeq
    <3> QED  BY <3>1 DEF Decoded
  <2>3. G \in [D -> [V -> V]]
    <3>1. ASSUME NEW k \in D, NEW v \in V, Good(s, k)
          PROVE  [packets |-> <<PacketAt(s, k)>> \o v.packets, next |-> v.next] \in V
      <4>1. v.packets \in Seq(Packets) /\ v.next \in 1..(Len(s) + 1)  BY DEF Decoded
      <4>2. <<PacketAt(s, k)>> \in Seq(Packets)  BY <1>d, <3>1
      <4>3. <<PacketAt(s, k)>> \o v.packets \in Seq(Packets)  BY <4>1, <4>2, ConcatProperties
      <4> QED  BY <4>1, <4>3 DEF Decoded
    <3> HIDE DEF D, V
    <3> QED  BY <3>1
  <2>4. Lowers(J, R, D, Goods)
    <3> SUFFICES ASSUME NEW k \in D, Good(s, k) PROVE R[J[k]] < R[k]  BY DEF Lowers
    <3>1. J[k] = LastAt(s, k) + 1 /\ J[k] \in D /\ J[k] > k  BY <1>d
    <3> QED  BY <3>1, <1>n
  <2> HIDE DEF D, J, C, G, R, V, Goods
  <2> QED  BY <2>1, <2>2, <2>3, <2>4, <1>n, Recursion
<1> DEFINE from == CHOOSE g : g = [k \in D |->
             IF Complete(s, k) /\ s[k] \in Headers \ Malformed
             THEN LET rest == g[LastAt(s, k) + 1] IN
                  [packets |-> <<PacketAt(s, k)>> \o rest.packets, next |-> rest.next]
             ELSE [packets |-> <<>>, next |-> k]]
           Eqn(g) == [k \in D |->
             IF Good(s, k)
             THEN [packets |-> <<PacketAt(s, k)>> \o g[LastAt(s, k) + 1].packets,
                   next |-> g[LastAt(s, k) + 1].next]
             ELSE [packets |-> <<>>, next |-> k]]
<1>2. f = Eqn(f)
  <2> SUFFICES ASSUME NEW k \in D
               PROVE f[k] = IF Good(s, k)
                            THEN [packets |-> <<PacketAt(s, k)>> \o f[LastAt(s, k) + 1].packets,
                                  next |-> f[LastAt(s, k) + 1].next]
                            ELSE [packets |-> <<>>, next |-> k]
    OBVIOUS
  <2> HIDE DEF D, V
  <2>1. CASE ~Good(s, k)
    <3>1. k \notin Goods /\ C[k] = [packets |-> <<>>, next |-> k]  BY <2>1
    <3> QED  BY <1>1, <2>1, <3>1 DEF Solves
  <2>2. CASE Good(s, k)
    <3>1. k \in Goods /\ J[k] = LastAt(s, k) + 1 /\ J[k] \in D  BY <2>2, <1>d
    <3>2. f[k] = G[k][f[J[k]]]  BY <1>1, <3>1 DEF Solves
    <3>3. f[J[k]] \in V  BY <3>1
    <3>4. G[k][f[J[k]]] = [packets |-> <<PacketAt(s, k)>> \o f[J[k]].packets, next |-> f[J[k]].next]
      BY <2>2, <3>3
    <3> QED  BY <2>2, <3>1, <3>2, <3>4
  <2> QED  BY <2>1, <2>2
<1>3. from = Eqn(from)
  <2>1. from = CHOOSE g : g = Eqn(g)  BY DEF Good
  <2> HIDE DEF from, Eqn
  <2> QED  BY <1>2, <2>1
<1>4. \A k : DecodeFrom(s, k) = from[k]  BY DEF DecodeFrom
<1> HIDE DEF from
<1>5. from[i] = IF Good(s, i)
                THEN [packets |-> <<PacketAt(s, i)>> \o from[LastAt(s, i) + 1].packets,
                      next |-> from[LastAt(s, i) + 1].next]
                ELSE [packets |-> <<>>, next |-> i]
  BY <1>3
<1> QED  BY <1>4, <1>5

LEMMA DecodeType ==
  ASSUME NEW s \in Seq(Byte)
  PROVE  \A i \in 1..(Len(s) + 1) :
           /\ DecodeFrom(s, i).packets \in Seq(Packets)
           /\ DecodeFrom(s, i).next \in 1..(Len(s) + 1)
<1> DEFINE Typed(i) == /\ DecodeFrom(s, i).packets \in Seq(Packets)
                       /\ DecodeFrom(s, i).next \in 1..(Len(s) + 1)
           S == {j \in Nat : \A i \in 1..(Len(s) + 1) : Len(s) + 1 - i <= j => Typed(i)}
<1>n. Len(s) \in Nat  OBVIOUS
<1>b. ASSUME NEW i \in 1..(Len(s) + 1), ~Good(s, i) PROVE Typed(i)
  <2>1. DecodeFrom(s, i) = [packets |-> <<>>, next |-> i]  BY <1>b, DecodeDef
  <2> QED  BY <2>1
<1>g. ASSUME NEW i \in 1..(Len(s) + 1), Good(s, i), Typed(LastAt(s, i) + 1) PROVE Typed(i)
  <2>1. DecodeFrom(s, i) =
          [packets |-> <<PacketAt(s, i)>> \o DecodeFrom(s, LastAt(s, i) + 1).packets,
           next    |-> DecodeFrom(s, LastAt(s, i) + 1).next]
    BY <1>g, DecodeDef
  <2>2. <<PacketAt(s, i)>> \in Seq(Packets)  BY <1>g, PacketType
  <2>3. <<PacketAt(s, i)>> \o DecodeFrom(s, LastAt(s, i) + 1).packets \in Seq(Packets)
    BY <1>g, <2>2, ConcatProperties
  <2> QED  BY <1>g, <2>1, <2>3
<1>l. ASSUME NEW i \in 1..(Len(s) + 1), Good(s, i)
      PROVE  LastAt(s, i) + 1 \in 1..(Len(s) + 1) /\ LastAt(s, i) \in Int /\ LastAt(s, i) > i
  <2>1. LastAt(s, i) \in (i + 1)..Len(s)  BY <1>l, PacketType
  <2> QED  BY <2>1, <1>n
<1> HIDE DEF Typed
<1>1. 0 \in S
  <2>1. ASSUME NEW i \in 1..(Len(s) + 1), Len(s) + 1 - i <= 0 PROVE Typed(i)
    <3>1. ~Good(s, i)  BY <2>1, <1>l, <1>n
    <3> QED  BY <3>1, <1>b
  <2> QED  BY <2>1
<1>2. ASSUME NEW j \in Nat, j \in S PROVE j + 1 \in S
  <2>1. ASSUME NEW i \in 1..(Len(s) + 1), Len(s) + 1 - i <= j + 1 PROVE Typed(i)
    <3>1. CASE Good(s, i)
      <4>1. Len(s) + 1 - (LastAt(s, i) + 1) <= j  BY <2>1, <3>1, <1>l, <1>n
      <4>2. Typed(LastAt(s, i) + 1)  BY <1>2, <4>1, <3>1, <1>l
      <4> QED  BY <4>2, <3>1, <1>g
    <3>2. CASE ~Good(s, i)  BY <3>2, <1>b
    <3> QED  BY <3>1, <3>2
  <2> QED  BY <2>1
<1>3. \A j \in Nat : j \in S
  <2> HIDE DEF S
  <2> QED  BY <1>1, <1>2, Induction
<1>4. ASSUME NEW i \in 1..(Len(s) + 1) PROVE Typed(i)
  <2>1. Len(s) \in Nat /\ Len(s) \in S  BY <1>3, <1>n
  <2>2. Len(s) + 1 - i <= Len(s)  BY <1>n
  <2> QED  BY <2>1, <2>2
<1> QED  BY <1>4 DEF Typed
-----------------------------------------------------------------------------
(* The first h bytes of s are those of u as well; and they contain the     *)
(* packets p, and after them begins what is at b, whatever follows.        *)
Agrees(u, s, h) == Len(u) >= h /\ \A i \in 1..h : u[i] = s[i]

Follows(s, h, p, b) ==
  \A u \in Seq(Byte) : Agrees(u, s, h) =>
    /\ Decode(u).packets = p \o DecodeFrom(u, b).packets
    /\ Decode(u).next = DecodeFrom(u, b).next

LEMMA FollowsNothing == \A s, h : Follows(s, h, <<>>, 1)
<1> SUFFICES ASSUME NEW u \in Seq(Byte)
             PROVE  Decode(u).packets = <<>> \o DecodeFrom(u, 1).packets
  BY DEF Follows, Decode
<1>1. 1 \in 1..(Len(u) + 1)  OBVIOUS
<1>2. DecodeFrom(u, 1).packets \in Seq(Packets)  BY <1>1, DecodeType
<1> QED  BY <1>2, ConcatEmptySeq DEF Decode

LEMMA FollowsLonger ==
  ASSUME NEW s, NEW h \in Nat, NEW p, NEW b, Follows(s, h, p, b),
         NEW t, NEW g \in Nat, h <= g, \A i \in 1..h : t[i] = s[i]
  PROVE  Follows(t, g, p, b)
<1>1. ASSUME NEW u, Agrees(u, t, g), u \in Seq(Byte) PROVE Agrees(u, s, h)
  <2>1. Len(u) >= g /\ Len(u) \in Nat /\ \A i \in 1..g : u[i] = t[i]  BY <1>1 DEF Agrees
  <2>2. \A i \in 1..h : i \in 1..g  OBVIOUS
  <2> QED  BY <2>1, <2>2 DEF Agrees
<1> QED  BY <1>1 DEF Follows

(* One packet more.                                                        *)
LEMMA FollowsPacket ==
  ASSUME NEW s \in Seq(Byte), NEW h \in 0..Len(s), NEW p \in Seq(Packets), NEW b \in 1..h,
         NEW d, Follows(s, h, p, b), HasDigits(s, b, d), b + d <= h,
         h = b + d + LengthAt(s, b, d), s[b] \in Headers \ Malformed
  PROVE  Follows(s, h, Append(p, [flags |-> s[b], body |-> SubSeq(s, b + d + 1, h)]), h + 1)
<1> DEFINE k == [flags |-> s[b], body |-> SubSeq(s, b + d + 1, h)]
<1>n. Len(s) \in Nat /\ MaxDigits \in Nat /\ d \in 1..MaxDigits /\ h \in Nat
  BY ParserAssumption DEF HasDigits
<1> SUFFICES ASSUME NEW u \in Seq(Byte), Agrees(u, s, h)
             PROVE  /\ Decode(u).packets = Append(p, k) \o DecodeFrom(u, h + 1).packets
                    /\ Decode(u).next = DecodeFrom(u, h + 1).next
  BY DEF Follows
<1>1. Len(u) \in Nat /\ Len(u) >= h /\ \A i \in 1..h : u[i] = s[i]  BY DEF Agrees
<1>2. b \in 1..Len(u) /\ b \in 1..Len(s) /\ b \in 1..(Len(u) + 1)  BY <1>1, <1>n
<1>3. \A e \in 1..d : u[b + e] = s[b + e]
  <2>1. \A e \in 1..d : b + e \in 1..h  BY <1>n
  <2> QED  BY <1>1, <2>1
<1>4. HasDigits(u, b, d)
  <2>1. u[b + d] = s[b + d] /\ \A e \in 1..(d - 1) : u[b + e] = s[b + e]
    <3>1. d \in 1..d /\ \A e \in 1..(d - 1) : e \in 1..d  BY <1>n
    <3> QED  BY <1>3, <3>1
  <2> QED  BY <1>1, <1>n, <2>1 DEF HasDigits
<1>5. DigitsAt(u, b) = {d} /\ Digits(u, b) = d  BY <1>2, <1>4, DigitsAreOne
<1>6. LengthAt(u, b, d) = LengthAt(s, b, d)
  <2>1. d \in Places(u, b) /\ d \in Places(s, b)  BY <1>1, <1>n DEF Places
  <2> QED  BY <1>2, <1>3, <2>1, LengthAgrees
<1>7. LastAt(u, b) = h  BY <1>5, <1>6 DEF LastAt
<1>8. u[b] = s[b]  BY <1>1
<1>9. Good(u, b)  BY <1>1, <1>2, <1>5, <1>7, <1>8 DEF Good, Complete
<1>10. PacketAt(u, b) = k
  <2>1. \A i \in (b + d + 1)..h : u[i] = s[i] /\ s[i] \in Byte
    <3>1. \A i \in (b + d + 1)..h : i \in 1..h /\ i \in 1..Len(s)  BY <1>n
    <3> QED  BY <1>1, <3>1
  <2>2. b + d + 1 \in Int /\ h \in Int  BY <1>n
  <2>3. SubSeq(u, b + d + 1, h) = SubSeq(s, b + d + 1, h)
    <3> DEFINE v == SubSeq(u, b + d + 1, h)
               w == SubSeq(s, b + d + 1, h)
    <3>1. /\ v \in Seq(Byte) /\ w \in Seq(Byte) /\ Len(v) = Len(w)
          /\ Len(v) = IF b + d + 1 <= h THEN h - (b + d + 1) + 1 ELSE 0
          /\ \A i \in 1..(h - (b + d + 1) + 1) : v[i] = u[b + d + 1 + i - 1]
          /\ \A i \in 1..(h - (b + d + 1) + 1) : w[i] = s[b + d + 1 + i - 1]
      BY <2>1, <2>2, SubSeqProperties
    <3>2. ASSUME NEW i \in 1..Len(v) PROVE v[i] = w[i]
      <4>1. i \in 1..(h - (b + d + 1) + 1)  BY <3>1, <1>n
      <4>2. b + d + 1 + i - 1 \in (b + d + 1)..h  BY <4>1, <1>n
      <4> QED  BY <3>1, <4>1, <4>2, <2>1
    <3> HIDE DEF v, w
    <3>3. v = w  BY <3>1, <3>2, SeqEqual
    <3> QED  BY <3>3 DEF v, w
  <2> QED  BY <1>5, <1>7, <1>8, <2>3 DEF PacketAt
<1>11. k \in Packets  BY <1>2, <1>9, <1>10, PacketType
<1>12. DecodeFrom(u, b) = [packets |-> <<PacketAt(u, b)>> \o DecodeFrom(u, h + 1).packets,
                           next    |-> DecodeFrom(u, h + 1).next]
  BY <1>2, <1>7, <1>9, DecodeDef
<1>13. DecodeFrom(u, h + 1).packets \in Seq(Packets)
  <2>1. h + 1 \in 1..(Len(u) + 1)  BY <1>1, <1>n
  <2> QED  BY <2>1, DecodeType
<1> DEFINE q == DecodeFrom(u, h + 1).packets
<1>14. /\ DecodeFrom(u, b).packets = <<PacketAt(u, b)>> \o q
       /\ DecodeFrom(u, b).next = DecodeFrom(u, h + 1).next
  BY <1>12
<1>15. /\ Decode(u).packets = p \o DecodeFrom(u, b).packets
       /\ Decode(u).next = DecodeFrom(u, b).next
  BY DEF Follows
<1> HIDE DEF k, q
<1>16. Decode(u).packets = p \o (<<k>> \o q)  BY <1>10, <1>14, <1>15
<1>17. <<k>> \in Seq(Packets) /\ Append(p, k) = p \o <<k>>  BY <1>11, AppendIsConcat
<1>18. q \in Seq(Packets)  BY <1>13 DEF q
<1>19. (p \o <<k>>) \o q = p \o (<<k>> \o q)  BY <1>17, <1>18, ConcatAssociative
<1>20. Decode(u).packets = Append(p, k) \o q  BY <1>16, <1>17, <1>19
<1> QED  BY <1>14, <1>15, <1>20 DEF q

(* What comes after the last packet.                                       *)
LEMMA FollowsRest ==
  ASSUME NEW s \in Seq(Byte), NEW h \in 0..Len(s), NEW p \in Seq(Packets),
         NEW b \in 1..(Len(s) + 1), Follows(s, h, p, b)
  PROVE  /\ IsPrefix(p, Decode(s).packets)
         /\ Decode(s).next = DecodeFrom(s, b).next
         /\ ~Good(s, b) => Decode(s).packets = p /\ Decode(s).next = b
<1>1. Agrees(s, s, h)  BY DEF Agrees
<1>2. /\ Decode(s).packets = p \o DecodeFrom(s, b).packets
      /\ Decode(s).next = DecodeFrom(s, b).next
  BY <1>1 DEF Follows
<1>3. DecodeFrom(s, b).packets \in Seq(Packets)  BY DecodeType
<1>4. ASSUME NEW q \in Seq(Packets) PROVE IsPrefix(p, p \o q)
  <2>1. Len(p) \in Nat /\ Len(q) \in Nat /\ Len(p \o q) = Len(p) + Len(q)
        /\ p \o q \in Seq(Packets)
    BY ConcatProperties
  <2>2. SubSeq(p, 1, Len(p)) = p  BY SubSeqFull
  <2>3. SubSeq(p \o q, 1, Len(p)) = p
    <3>1. CASE Len(p) = 0
      <4>1. p = <<>>  BY <3>1, EmptySeq
      <4>2. SubSeq(p \o q, 1, Len(p)) = <<>>  BY <3>1, SubSeqEmpty
      <4> QED  BY <4>1, <4>2
    <3>2. CASE Len(p) # 0
      <4>1. 1 \in 1..Len(p) /\ Len(p) \in 1..Len(p)  BY <2>1, <3>2
      <4> QED  BY <4>1, <2>2, SubSeqOfConcat1
    <3> QED  BY <3>1, <3>2
  <2> QED  BY <2>1, <2>2, <2>3 DEF IsPrefix
<1>5. ASSUME ~Good(s, b) PROVE Decode(s).packets = p /\ Decode(s).next = b
  <2>1. DecodeFrom(s, b) = [packets |-> <<>>, next |-> b]  BY <1>5, DecodeDef
  <2>2. p \o <<>> = p  BY ConcatEmptySeq
  <2> QED  BY <1>2, <2>1, <2>2
<1> QED  BY <1>2, <1>3, <1>4, <1>5
-----------------------------------------------------------------------------
(* The parser's state stands for the bytes of s from b to h.               *)
InLength(s, h, b) ==
  /\ b <= h /\ flags = s[b] /\ flags \in Headers /\ h - b <= MaxDigits
  /\ \A e \in 1..(h - b) : Continues(s[b + e])
  /\ multiplier = Power[h - b] /\ n = LengthAt(s, b, h - b)

InBody(s, h, b) ==
  \E d \in 1..MaxDigits :
    /\ b <= h /\ flags = s[b] /\ flags \in Headers
    /\ HasDigits(s, b, d) /\ n = LengthAt(s, b, d)
    /\ h = b + d + Len(body) /\ body = SubSeq(s, b + d + 1, h)
    /\ require > 0 /\ Len(body) + require = n

InPacket(s, h, b) ==
  /\ state = "FIXED"  => b = h + 1
  /\ state = "LENGTH" => InLength(s, h, b)
  /\ state = "REMAIN" => InBody(s, h, b)

(* A packet with too many digits, and one that is not whole.               *)
TooLongAt(s, b) ==
  /\ b + MaxDigits < Len(s) /\ s[b] \in Headers
  /\ \A e \in 1..MaxDigits : Continues(s[b + e])

LEMMA TooLongIsWrong ==
  ASSUME NEW s \in Seq(Byte), NEW b \in 1..Len(s), TooLongAt(s, b)
  PROVE  ~Good(s, b) /\ (Decode(s).next = b => Wrong(s))
<1>1. DigitsAt(s, b) = {}  BY ParserAssumption DEF DigitsAt, TooLongAt
<1>2. ~Complete(s, b)  BY <1>1 DEF Complete
<1> QED  BY <1>2 DEF Good, Wrong, TooLongAt

LEMMA Waiting ==
  ASSUME TypeOK, NEW s \in Seq(Byte), NEW b \in 1..(Len(s) + 1), InPacket(s, Len(s), b)
  PROVE  ~Good(s, b) /\ (Decode(s).next = b => ~Wrong(s))
<1>n. Len(s) \in Nat /\ MaxDigits \in Nat /\ MaxDigits >= 1
      /\ state \in {"FIXED", "LENGTH", "REMAIN"}
  BY ParserAssumption DEF TypeOK
<1>1. CASE state = "FIXED"
  <2>1. b = Len(s) + 1  BY <1>1 DEF InPacket
  <2> QED  BY <2>1, <1>n DEF Good, Complete, Wrong
<1>2. CASE state = "LENGTH"
  <2>1. InLength(s, Len(s), b)  BY <1>2 DEF InPacket
  <2>2. b <= Len(s) /\ s[b] \in Headers /\ Len(s) - b <= MaxDigits  BY <2>1 DEF InLength
  <2>3. DigitsAt(s, b) = {}
    <3>1. ASSUME NEW d \in DigitsAt(s, b) PROVE FALSE
      <4>1. d \in 1..MaxDigits /\ b + d <= Len(s) /\ ~Continues(s[b + d])  BY DEF DigitsAt
      <4>2. d \in 1..(Len(s) - b)  BY <4>1, <1>n
      <4> QED  BY <2>1, <4>1, <4>2 DEF InLength
    <3> QED  BY <3>1
  <2>4. ~Complete(s, b)  BY <2>3 DEF Complete
  <2>5. ~(b + MaxDigits < Len(s))  BY <2>2, <1>n
  <2> QED  BY <2>2, <2>4, <2>5 DEF Good, Wrong
<1>3. CASE state = "REMAIN"
  <2>1. InBody(s, Len(s), b)  BY <1>3 DEF InPacket
  <2>2. PICK d \in 1..MaxDigits :
          /\ b <= Len(s) /\ s[b] \in Headers /\ HasDigits(s, b, d) /\ n = LengthAt(s, b, d)
          /\ Len(s) = b + d + Len(body) /\ require > 0 /\ Len(body) + require = n
    BY <2>1 DEF InBody
  <2>3. b \in 1..Len(s)  BY <2>2, <1>n
  <2>4. DigitsAt(s, b) = {d} /\ Digits(s, b) = d  BY <2>2, <2>3, DigitsAreOne
  <2>5. LastAt(s, b) = b + d + n  BY <2>2, <2>4 DEF LastAt
  <2>6. Len(body) \in Nat /\ require \in Nat /\ n \in Nat  BY DEF TypeOK
  <2>7. ~(LastAt(s, b) <= Len(s))  BY <2>2, <2>5, <2>6, <1>n
  <2>8. ~Complete(s, b)  BY <2>7 DEF Complete
  <2>9. ~(\A e \in 1..MaxDigits : Continues(s[b + e]))  BY <2>2 DEF HasDigits
  <2> QED  BY <2>2, <2>8, <2>9 DEF Good, Wrong
<1> QED  BY <1>n, <1>1, <1>2, <1>3

(* The bytes of a torn packet, taken out of the stream.                    *)
LEMMA Shift ==
  ASSUME NEW s \in Seq(Byte), NEW b \in 1..Len(s), NEW r, r = SubSeq(s, b, Len(s))
  PROVE  /\ r \in Seq(Byte) /\ Len(r) = Len(s) - b + 1
         /\ \A i \in 1..(Len(s) - b + 1) : r[i] = s[b + i - 1]
         /\ \A e \in 0..(Len(s) - b) : r[1 + e] = s[b + e]
         /\ \A d \in Places(s, b) : LengthAt(r, 1, d) = LengthAt(s, b, d)
<1>n. Len(s) \in Nat /\ MaxDigits \in Nat  BY ParserAssumption
<1>1. \A i \in b..Len(s) : s[i] \in Byte
  <2>1. \A i \in b..Len(s) : i \in 1..Len(s)  BY <1>n
  <2> QED  BY <2>1
<1>2. /\ r \in Seq(Byte) /\ Len(r) = Len(s) - b + 1
      /\ \A i \in 1..(Len(s) - b + 1) : r[i] = s[b + i - 1]
  <2>1. b <= Len(s)  BY <1>n
  <2> QED  BY <1>1, <1>n, <2>1, SubSeqProperties
<1>3. ASSUME NEW e \in 0..(Len(s) - b) PROVE r[1 + e] = s[b + e]
  <2>1. 1 + e \in 1..(Len(s) - b + 1) /\ b + (1 + e) - 1 = b + e  BY <1>n
  <2> QED  BY <1>2, <2>1
<1>4. ASSUME NEW d \in Places(s, b) PROVE LengthAt(r, 1, d) = LengthAt(s, b, d)
  <2>1. d \in Places(r, 1) /\ d \in 0..MaxDigits /\ b + d <= Len(s)
    BY <1>2, <1>n DEF Places
  <2>2. \A e \in 1..d : s[b + e] = r[1 + e]
    <3>1. \A e \in 1..d : e \in 0..(Len(s) - b)  BY <2>1, <1>n
    <3> QED  BY <1>3, <3>1
  <2>3. 1 \in 1..Len(r)  BY <1>2, <1>n
  <2> QED  BY <1>2, <2>1, <2>2, <2>3, LengthAgrees
<1> QED  BY <1>2, <1>3, <1>4

LEMMA ShiftPacket ==
  ASSUME TypeOK, NEW s \in Seq(Byte), NEW b \in 1..Len(s), state # "FIXED",
         InPacket(s, Len(s), b), NEW r, r = SubSeq(s, b, Len(s))
  PROVE  InPacket(r, Len(r), 1)
<1>n. Len(s) \in Nat /\ MaxDigits \in Nat /\ MaxDigits >= 1
      /\ state \in {"FIXED", "LENGTH", "REMAIN"}
  BY ParserAssumption DEF TypeOK
<1>s. /\ r \in Seq(Byte) /\ Len(r) = Len(s) - b + 1 /\ Len(r) >= 1
      /\ \A i \in 1..(Len(s) - b + 1) : r[i] = s[b + i - 1]
      /\ \A e \in 0..(Len(s) - b) : r[1 + e] = s[b + e]
      /\ \A d \in Places(s, b) : LengthAt(r, 1, d) = LengthAt(s, b, d)
  <2>1. /\ r \in Seq(Byte) /\ Len(r) = Len(s) - b + 1
        /\ \A i \in 1..(Len(s) - b + 1) : r[i] = s[b + i - 1]
        /\ \A e \in 0..(Len(s) - b) : r[1 + e] = s[b + e]
        /\ \A d \in Places(s, b) : LengthAt(r, 1, d) = LengthAt(s, b, d)
    BY Shift
  <2>2. Len(s) - b + 1 >= 1  BY <1>n
  <2> QED  BY <2>1, <2>2
<1>b. r[1] = s[b]
  <2>1. 0 \in 0..(Len(s) - b) /\ 1 + 0 = 1 /\ b + 0 = b  BY <1>n
  <2> QED  BY <1>s, <2>1
<1>1. CASE state = "LENGTH"
  <2>1. InLength(s, Len(s), b)  BY <1>1 DEF InPacket
  <2>2. Len(r) - 1 = Len(s) - b  BY <1>s, <1>n
  <2>3. \A e \in 1..(Len(s) - b) : Continues(r[1 + e])
    <3>1. \A e \in 1..(Len(s) - b) : e \in 0..(Len(s) - b)  BY <1>n
    <3> QED  BY <1>s, <2>1, <3>1 DEF InLength
  <2>4. LengthAt(r, 1, Len(s) - b) = LengthAt(s, b, Len(s) - b)
    <3>1. Len(s) - b \in Places(s, b)  BY <1>n, <2>1 DEF Places, InLength
    <3> QED  BY <1>s, <3>1
  <2>5. InLength(r, Len(r), 1)  BY <1>s, <1>b, <2>1, <2>2, <2>3, <2>4 DEF InLength
  <2> QED  BY <1>1, <2>5 DEF InPacket
<1>2. CASE state = "REMAIN"
  <2>1. InBody(s, Len(s), b)  BY <1>2 DEF InPacket
  <2>2. PICK d \in 1..MaxDigits :
          /\ b <= Len(s) /\ flags = s[b] /\ flags \in Headers
          /\ HasDigits(s, b, d) /\ n = LengthAt(s, b, d)
          /\ Len(s) = b + d + Len(body) /\ body = SubSeq(s, b + d + 1, Len(s))
          /\ require > 0 /\ Len(body) + require = n
    BY <2>1 DEF InBody
  <2>a. b <= Len(s) /\ Len(s) = b + d + Len(body) /\ Len(body) \in Nat /\ d \in Nat
    <3>1. b <= Len(s) /\ Len(s) = b + d + Len(body)  BY <2>2
    <3>2. Len(body) \in Nat /\ d \in Nat  BY <1>n DEF TypeOK
    <3> QED  BY <3>1, <3>2
  <2>3. d \in 0..(Len(s) - b) /\ d \in Places(s, b)
    <3>1. d \in 0..(Len(s) - b) /\ b + d <= Len(s) /\ d \in 0..MaxDigits  BY <2>a, <1>n
    <3> QED  BY <3>1 DEF Places
  <2>4. HasDigits(r, 1, d)
    <3>1. \A e \in 1..(d - 1) : e \in 0..(Len(s) - b)  BY <2>3, <1>n
    <3>2. r[1 + d] = s[b + d] /\ \A e \in 1..(d - 1) : r[1 + e] = s[b + e]
      BY <1>s, <2>3, <3>1
    <3>3. 1 + d <= Len(r)  BY <1>s, <2>3, <1>n
    <3> QED  BY <2>2, <3>2, <3>3 DEF HasDigits
  <2>5. Len(body) \in Nat /\ body \in Seq(Byte)  BY DEF TypeOK
  <2>6. Len(r) = 1 + d + Len(body)
    <3>1. Len(r) = Len(s) - b + 1  BY <1>s
    <3> QED  BY <2>a, <3>1, <1>n
  <2>7. SubSeq(r, 1 + d + 1, Len(r)) = body
    <3> DEFINE v == SubSeq(r, 1 + d + 1, Len(r))
    <3>1. \A i \in (1 + d + 1)..Len(r) : r[i] \in Byte
      <4>1. \A i \in (1 + d + 1)..Len(r) : i \in 1..Len(r)  BY <1>n
      <4> QED  BY <1>s, <4>1
    <3>2. 1 + d + 1 \in Int /\ Len(r) \in Int  BY <1>s, <1>n
    <3>3. /\ v \in Seq(Byte)
          /\ Len(v) = IF 1 + d + 1 <= Len(r) THEN Len(r) - (1 + d + 1) + 1 ELSE 0
          /\ \A i \in 1..(Len(r) - (1 + d + 1) + 1) : v[i] = r[1 + d + 1 + i - 1]
      BY <3>1, <3>2, SubSeqProperties
    <3>4. Len(v) = Len(body)  BY <3>3, <2>5, <2>6
    <3>5. ASSUME NEW i \in 1..Len(v) PROVE v[i] = body[i]
      <4>1. i \in 1..(Len(r) - (1 + d + 1) + 1) /\ i \in 1..(Len(s) - (b + d + 1) + 1)
        BY <3>4, <2>a, <2>6, <1>n
      <4>2. v[i] = r[1 + d + 1 + i - 1]  BY <3>3, <4>1
      <4>3. 1 + d + 1 + i - 1 = 1 + (d + i) /\ d + i \in 0..(Len(s) - b)
        BY <3>4, <2>a, <1>n
      <4>4. r[1 + (d + i)] = s[b + (d + i)]  BY <1>s, <4>3
      <4>5. \A j \in (b + d + 1)..Len(s) : s[j] \in Byte
        <5>1. \A j \in (b + d + 1)..Len(s) : j \in 1..Len(s)  BY <1>n
        <5> QED  BY <5>1
      <4>6. b + d + 1 \in Int /\ Len(s) \in Int  BY <1>n
      <4>7. SubSeq(s, b + d + 1, Len(s))[i] = s[b + d + 1 + i - 1]
        BY <4>1, <4>5, <4>6, SubSeqProperties
      <4>8. b + d + 1 + i - 1 = b + (d + i)  BY <4>1, <1>n
      <4> QED  BY <2>2, <4>2, <4>3, <4>4, <4>7, <4>8
    <3> HIDE DEF v
    <3>6. v = body  BY <3>3, <3>4, <3>5, <2>5, SeqEqual
    <3> QED  BY <3>6 DEF v
  <2>8. LengthAt(r, 1, d) = LengthAt(s, b, d)  BY <1>s, <2>3
  <2>9. InBody(r, Len(r), 1)  BY <1>s, <1>b, <2>2, <2>4, <2>6, <2>7, <2>8 DEF InBody
  <2> QED  BY <1>2, <2>9 DEF InPacket
<1> QED  BY <1>n, <1>1, <1>2

(* A whole packet that is refused.                                         *)
LEMMA RefusedIsWrong ==
  ASSUME NEW s \in Seq(Byte), NEW b \in 1..Len(s), NEW d, HasDigits(s, b, d),
         b + d + LengthAt(s, b, d) <= Len(s), s[b] \in Malformed
  PROVE  ~Good(s, b) /\ (Decode(s).next = b => Wrong(s))
<1>1. DigitsAt(s, b) = {d} /\ Digits(s, b) = d  BY DigitsAreOne
<1>2. LastAt(s, b) = b + d + LengthAt(s, b, d)  BY <1>1 DEF LastAt
<1>3. Complete(s, b)  BY <1>1, <1>2 DEF Complete
<1> QED  BY <1>3 DEF Good, Wrong
-----------------------------------------------------------------------------
(* What is not parsed yet is the end of the stream.                        *)
Stream == left \o received
Here   == Len(Stream) - Len(chunk)

ChunkInv ==
  /\ left \in Seq(Byte)
  /\ Len(chunk) <= Len(Stream)
  /\ \A i \in 1..Len(chunk) : Stream[Here + i] = chunk[i]
  /\ pc \in {"recv", "failed", "closed"} => chunk = <<>>

(* mqtt_read never has a byte more than it asked for.                      *)
ReadInv ==
  mode = "read" =>
    /\ left = <<>>
    /\ pc \in {"recv", "parse"} =>
         Len(chunk) <= require /\ require > 0 /\ (state # "REMAIN" => require = 1)
    /\ pc = "handle" => chunk = <<>>

(* A stream that begins with a packet with too many digits.                *)
Doomed == Len(left) > 0 /\ TooLongAt(left, 1)

DoomInv ==
  /\ Doomed => /\ state = "LENGTH" /\ multiplier = Power[MaxDigits]
               /\ delivered = <<>> /\ mode = "parse" /\ pc # "handle"
  /\ ~Doomed => ~Wrong(left)

(* Where the parser is in the stream.                                      *)
Partial == pc \in {"recv", "parse"} \/ (pc = "closed" /\ mode = "parse" /\ state # "FIXED")

PlaceInv ==
  /\ IsPrefix(delivered, Decode(Stream).packets)
  /\ pc = "failed" => Wrong(Stream)
  /\ Partial /\ ~Doomed =>
       \E b \in 1..(Here + 1) : Follows(Stream, Here, delivered, b) /\ InPacket(Stream, Here, b)
  /\ pc = "handle" =>
       Follows(Stream, Here, delivered, Here + 1) /\ (mode = "parse" => state = "FIXED")
  /\ pc = "failed" /\ mode = "parse" /\ state # "FIXED" /\ ~Doomed =>
       /\ state = "LENGTH" /\ multiplier = Power[MaxDigits]
       /\ \E b \in 1..Len(Stream) : TooLongAt(Stream, b) /\ Decode(Stream).next = b

StreamInv == ChunkInv /\ ReadInv /\ DoomInv /\ PlaceInv
-----------------------------------------------------------------------------
LEMMA StreamType ==
  ASSUME TypeOK, ChunkInv
  PROVE  /\ Stream \in Seq(Byte) /\ Len(Stream) \in Nat /\ Len(chunk) \in Nat
         /\ Here \in 0..Len(Stream) /\ Here + Len(chunk) = Len(Stream)
<1>1. left \in Seq(Byte) /\ received \in Seq(Byte) /\ chunk \in Seq(Byte)
  BY DEF TypeOK, ChunkInv
<1>2. Stream \in Seq(Byte)  BY <1>1, ConcatProperties DEF Stream
<1>3. Len(Stream) \in Nat /\ Len(chunk) \in Nat /\ Len(chunk) <= Len(Stream)
  BY <1>1, <1>2 DEF ChunkInv
<1> QED  BY <1>2, <1>3 DEF Here

(* Some bytes of the chunk are used up.                                    *)
LEMMA Consume ==
  ASSUME TypeOK, ChunkInv, NEW m \in 0..Len(chunk), UNCHANGED <<left, received>>,
         chunk' = SubSeq(chunk, m + 1, Len(chunk)), pc \in {"parse", "handle"},
         pc' \in {"recv", "failed", "closed"} => chunk' = <<>>
  PROVE  /\ Stream' = Stream /\ Here' = Here + m /\ Here + m \in 0..Len(Stream)
         /\ ChunkInv' /\ (Doomed <=> Doomed')
<1>t. /\ Stream \in Seq(Byte) /\ Len(Stream) \in Nat /\ Len(chunk) \in Nat
      /\ Here \in 0..Len(Stream) /\ Here + Len(chunk) = Len(Stream)
  BY StreamType
<1>c. chunk \in Seq(Byte) /\ left \in Seq(Byte)  BY DEF TypeOK, ChunkInv
<1>1. Stream' = Stream  BY DEF Stream
<1>2. /\ Len(chunk') = Len(chunk) - m
      /\ \A i \in 1..(Len(chunk) - m) : chunk'[i] = chunk[m + i]
  <2> DEFINE v == SubSeq(chunk, m + 1, Len(chunk))
  <2>1. \A i \in (m + 1)..Len(chunk) : chunk[i] \in Byte
    <3>1. \A i \in (m + 1)..Len(chunk) : i \in 1..Len(chunk)  BY <1>t
    <3> QED  BY <3>1, <1>c
  <2>2. m + 1 \in Int /\ Len(chunk) \in Int  BY <1>t
  <2>3. /\ Len(v) = IF m + 1 <= Len(chunk) THEN Len(chunk) - (m + 1) + 1 ELSE 0
        /\ \A i \in 1..(Len(chunk) - (m + 1) + 1) : v[i] = chunk[m + 1 + i - 1]
    BY <2>1, <2>2, SubSeqProperties
  <2>4. chunk' = v  OBVIOUS
  <2> HIDE DEF v
  <2>5. Len(v) = Len(chunk) - m  BY <2>3, <1>t
  <2>6. ASSUME NEW i \in 1..(Len(chunk) - m) PROVE v[i] = chunk[m + i]
    <3>1. i \in 1..(Len(chunk) - (m + 1) + 1) /\ m + 1 + i - 1 = m + i  BY <1>t
    <3> QED  BY <2>3, <3>1
  <2> QED  BY <2>4, <2>5, <2>6
<1>3. Here' = Here + m /\ Here + m \in 0..Len(Stream)
  <2>1. Here' = Len(Stream) - (Len(chunk) - m)  BY <1>1, <1>2 DEF Here
  <2> QED  BY <2>1, <1>t
<1>4. ASSUME NEW i \in 1..Len(chunk') PROVE Stream'[Here' + i] = chunk'[i]
  <2>1. m + i \in 1..Len(chunk) /\ Here' + i = Here + (m + i) /\ i \in 1..(Len(chunk) - m)
    BY <1>2, <1>3, <1>t
  <2>2. Stream[Here + (m + i)] = chunk[m + i]  BY <2>1 DEF ChunkInv
  <2> QED  BY <1>1, <1>2, <2>1, <2>2
<1>5. Len(chunk') <= Len(Stream')  BY <1>1, <1>2, <1>t
<1>6. ChunkInv'  BY <1>c, <1>4, <1>5 DEF ChunkInv
<1> QED  BY <1>1, <1>3, <1>6 DEF Doomed

LEMMA ConsumeHead ==
  ASSUME TypeOK, ChunkInv, chunk # <<>>
  PROVE  /\ 1 \in 0..Len(chunk) /\ Tail(chunk) = SubSeq(chunk, 1 + 1, Len(chunk))
         /\ Head(chunk) = Stream[Here + 1] /\ Head(chunk) \in Byte
         /\ Here + 1 \in 1..Len(Stream)
<1>t. /\ Len(Stream) \in Nat /\ Len(chunk) \in Nat
      /\ Here \in 0..Len(Stream) /\ Here + Len(chunk) = Len(Stream)
  BY StreamType
<1>c. chunk \in Seq(Byte)  BY DEF TypeOK
<1>1. Len(chunk) >= 1  BY <1>c, <1>t, EmptySeq
<1>2. Head(chunk) = chunk[1] /\ Head(chunk) \in Byte  BY <1>c, <1>1
<1>3. Stream[Here + 1] = chunk[1]  BY <1>1, <1>t DEF ChunkInv
<1>4. Tail(chunk) = SubSeq(chunk, 2, Len(chunk)) /\ 1 + 1 = 2  BY <1>c, TailIsSubSeq
<1> QED  BY <1>1, <1>2, <1>3, <1>4, <1>t

(* The bytes dropped with an error.                                        *)
LEMMA ConsumeAll ==
  ASSUME TypeOK, ChunkInv, chunk' = <<>>
  PROVE  chunk' = SubSeq(chunk, Len(chunk) + 1, Len(chunk)) /\ Len(chunk) \in 0..Len(chunk)
<1>t. Len(chunk) \in Nat  BY StreamType
<1>1. Len(chunk) + 1 \in Int /\ Len(chunk) \in Int /\ Len(chunk) < Len(chunk) + 1  BY <1>t
<1>2. SubSeq(chunk, Len(chunk) + 1, Len(chunk)) = <<>>  BY <1>1, SubSeqEmpty
<1> QED  BY <1>2, <1>t

(* The packets found so far come first, whatever follows.                  *)
LEMMA FoundFirst ==
  ASSUME TypeOK, StreamInv, Partial, ~Doomed
  PROVE  \E b \in 1..(Here + 1) :
           /\ Follows(Stream, Here, delivered, b) /\ InPacket(Stream, Here, b)
           /\ b \in 1..(Len(Stream) + 1)
<1>1. PICK b \in 1..(Here + 1) :
        Follows(Stream, Here, delivered, b) /\ InPacket(Stream, Here, b)
  BY DEF StreamInv, PlaceInv
<1>2. Here \in 0..Len(Stream) /\ Len(Stream) \in Nat  BY StreamType DEF StreamInv
<1>3. b \in 1..(Len(Stream) + 1)  BY <1>2
<1> QED  BY <1>1, <1>3

(* Where the parser is after a step, by what the step leaves in pc.        *)
LEMMA PlaceParse ==
  ASSUME NEW s \in Seq(Byte), NEW h \in 0..Len(s), NEW p \in Seq(Packets), NEW b \in 1..(h + 1),
         Stream' = s, Here' = h, delivered' = p, pc' \in {"recv", "parse"},
         Follows(s, h, p, b), InPacket(Stream, Here, b)'
  PROVE  PlaceInv'
<1>1. b \in 1..(Len(s) + 1)  OBVIOUS
<1>2. IsPrefix(p, Decode(s).packets)  BY <1>1, FollowsRest
<1>3. Follows(Stream, Here, delivered, b)'  BY DEF Follows
<1>4. \E c \in 1..(Here' + 1) : Follows(Stream, Here, delivered, c)' /\ InPacket(Stream, Here, c)'
  BY <1>3
<1>5. IsPrefix(delivered, Decode(Stream).packets)'  BY <1>2
<1> QED  BY <1>4, <1>5 DEF PlaceInv

LEMMA PlaceHandle ==
  ASSUME NEW s \in Seq(Byte), NEW h \in 0..Len(s), NEW p \in Seq(Packets),
         Stream' = s, Here' = h, delivered' = p, pc' = "handle",
         Follows(s, h, p, h + 1), mode' = "parse" => state' = "FIXED"
  PROVE  PlaceInv'
<1>1. h + 1 \in 1..(Len(s) + 1)  OBVIOUS
<1>2. IsPrefix(p, Decode(s).packets)  BY <1>1, FollowsRest
<1>3. Follows(Stream, Here, delivered, Here + 1)'  BY DEF Follows
<1>4. IsPrefix(delivered, Decode(Stream).packets)'  BY <1>2
<1> QED  BY <1>3, <1>4 DEF PlaceInv, Partial

LEMMA PlaceFailed ==
  ASSUME NEW s, NEW p, Stream' = s, delivered' = p, pc' = "failed",
         Wrong(s), IsPrefix(p, Decode(s).packets),
         mode' = "parse" /\ state' # "FIXED" /\ ~Doomed' =>
           /\ state' = "LENGTH" /\ multiplier' = Power[MaxDigits]
           /\ \E b \in 1..Len(s) : TooLongAt(s, b) /\ Decode(s).next = b
  PROVE  PlaceInv'
<1>1. IsPrefix(delivered, Decode(Stream).packets)' /\ Wrong(Stream)'  OBVIOUS
<1> QED  BY <1>1 DEF PlaceInv, Partial

LEMMA PlaceClosed ==
  ASSUME NEW s, NEW p, Stream' = s, delivered' = p, pc' = "closed",
         IsPrefix(p, Decode(s).packets), ~Partial'
  PROVE  PlaceInv'
<1>1. IsPrefix(delivered, Decode(Stream).packets)'  OBVIOUS
<1> QED  BY <1>1 DEF PlaceInv

LEMMA FixedStream ==
  ASSUME PInv, StreamInv, Fixed
  PROVE  StreamInv'
<1>i. TypeOK /\ PacketInv /\ ChunkInv /\ ReadInv /\ DoomInv /\ PlaceInv
  BY DEF PInv, StreamInv
<1>t. /\ Stream \in Seq(Byte) /\ Len(Stream) \in Nat /\ Len(chunk) \in Nat
      /\ Here \in 0..Len(Stream) /\ Here + Len(chunk) = Len(Stream)
  BY <1>i, StreamType
<1>f. /\ pc = "parse" /\ chunk # <<>> /\ state = "FIXED"
      /\ flags' = Head(chunk) /\ n' = 0 /\ body' = <<>>
      /\ mode' = mode /\ received' = received /\ left' = left
  BY DEF Fixed, Parse
<1>d. delivered' = delivered /\ delivered \in Seq(Packets)
  BY <1>i DEF Fixed, Fail, TypeOK, Packets
<1>u. ~Doomed /\ Partial  BY <1>i, <1>f DEF DoomInv, Partial
<1>h. /\ 1 \in 0..Len(chunk) /\ Tail(chunk) = SubSeq(chunk, 1 + 1, Len(chunk))
      /\ Head(chunk) = Stream[Here + 1] /\ Here + 1 \in 1..Len(Stream)
  BY <1>i, <1>f, ConsumeHead
<1>p. PICK b \in 1..(Here + 1) :
        /\ Follows(Stream, Here, delivered, b) /\ InPacket(Stream, Here, b)
        /\ b \in 1..(Len(Stream) + 1)
  BY <1>i, <1>u, FoundFirst DEF StreamInv
<1>b. b = Here + 1  BY <1>p, <1>f DEF InPacket
<1>1. CASE Head(chunk) \in Headers
  <2>1. /\ state' = "LENGTH" /\ multiplier' = 1 /\ require' = 1 /\ chunk' = Tail(chunk)
        /\ pc' = "parse"
    BY <1>1, <1>f DEF Fixed
  <2>2. Stream' = Stream /\ Here' = Here + 1 /\ ChunkInv' /\ (Doomed <=> Doomed')
    <3>1. pc' \in {"recv", "failed", "closed"} => chunk' = <<>>  BY <2>1
    <3> QED  BY <1>i, <1>f, <1>h, <2>1, <3>1, Consume
  <2>3. ReadInv'
    <3>1. mode = "read" => Len(chunk) <= require /\ require = 1 /\ left = <<>>
      BY <1>i, <1>f DEF ReadInv
    <3>2. Len(chunk) >= 1  BY <1>h, <1>t
    <3>3. mode = "read" => Len(chunk) = 1
      <4>1. \A k, r \in Nat : 1 <= k /\ k <= r /\ r = 1 => k = 1  OBVIOUS
      <4>2. require \in Nat  BY <1>i DEF TypeOK
      <4> QED  BY <3>1, <3>2, <4>1, <4>2, <1>t
    <3>4. SubSeq(chunk, 2, 1) = <<>>  BY SubSeqEmpty
    <3>5. mode = "read" => chunk' = <<>>
      <4>1. chunk' = SubSeq(chunk, 2, Len(chunk))
        <5>1. 1 + 1 = 2  OBVIOUS
        <5> QED  BY <2>1, <1>h, <5>1
      <4> QED  BY <3>3, <3>4, <4>1
    <3>6. mode = "read" => Len(chunk') = 0  BY <3>5, EmptySeq
    <3> QED  BY <1>f, <2>1, <3>1, <3>6 DEF ReadInv
  <2>4. DoomInv'  BY <1>u, <1>i, <1>f, <2>2 DEF DoomInv
  <2>5. Follows(Stream, Here + 1, delivered, b)
    <3>1. Here \in Nat /\ Here + 1 \in Nat /\ Here <= Here + 1  BY <1>t
    <3> QED  BY <1>p, <3>1, FollowsLonger
  <2>6. InPacket(Stream, Here, b)'
    <3>1. Here' - b = 0 /\ b <= Here'  BY <1>b, <1>t, <2>2
    <3>2. LengthAt(Stream, b, 0) = 0
      <4>1. b \in 1..(Len(Stream) + 1) /\ b <= Len(Stream)  BY <1>b, <1>h, <1>t
      <4> QED  BY <4>1, <1>t, LengthDef
    <3>3. \A e \in 1..(Here' - b) : Continues(Stream'[b + e])  BY <3>1
    <3>4. MaxDigits \in Nat /\ Power[0] = 1  BY ParserAssumption, PowerDef
    <3>5. Here' - b <= MaxDigits /\ multiplier' = Power[Here' - b]
      <4>1. 0 <= MaxDigits  BY <3>4
      <4> QED  BY <2>1, <3>1, <3>4, <4>1
    <3>6. n' = LengthAt(Stream', b, Here' - b)  BY <1>f, <2>2, <3>1, <3>2
    <3>7. flags' = Stream'[b] /\ flags' \in Headers  BY <1>1, <1>b, <1>f, <1>h, <2>2
    <3>8. InLength(Stream, Here, b)'  BY <3>1, <3>3, <3>5, <3>6, <3>7 DEF InLength
    <3> QED  BY <2>1, <3>8 DEF InPacket
  <2>7. PlaceInv'
    <3>1. b \in 1..((Here + 1) + 1) /\ Here + 1 \in 0..Len(Stream)  BY <1>b, <1>h, <1>t
    <3> QED  BY <1>d, <1>t, <2>1, <2>2, <2>5, <2>6, <3>1, PlaceParse
  <2> QED  BY <2>2, <2>3, <2>4, <2>7 DEF StreamInv
<1>2. CASE Head(chunk) \notin Headers
  <2>1. state' = "FIXED" /\ pc' = "failed" /\ chunk' = <<>>
    BY <1>2, <1>f DEF Fixed, Fail
  <2>2. Stream' = Stream /\ ChunkInv' /\ (Doomed <=> Doomed')
    <3>1. chunk' = SubSeq(chunk, Len(chunk) + 1, Len(chunk)) /\ Len(chunk) \in 0..Len(chunk)
      BY <1>i, <2>1, ConsumeAll
    <3> QED  BY <1>i, <1>f, <2>1, <3>1, Consume
  <2>3. ReadInv'  BY <1>i, <1>f, <2>1 DEF ReadInv
  <2>4. DoomInv'  BY <1>u, <1>i, <1>f, <2>2 DEF DoomInv
  <2>5. Wrong(Stream)
    <3>1. Stream[b] \notin Headers /\ b <= Len(Stream)  BY <1>2, <1>b, <1>h
    <3>2. ~Good(Stream, b)
      <4>1. Headers \ Malformed \subseteq Headers  OBVIOUS
      <4> QED  BY <3>1, <4>1 DEF Good
    <3>3. Decode(Stream).next = b
      BY <1>d, <1>t, <1>p, <3>2, FollowsRest
    <3> QED  BY <3>1, <3>3 DEF Wrong
  <2>6. PlaceInv'
    <3>1. IsPrefix(delivered, Decode(Stream).packets)  BY <1>i DEF PlaceInv
    <3> QED  BY <1>d, <2>1, <2>2, <2>5, <3>1, PlaceFailed
  <2> QED  BY <2>2, <2>3, <2>4, <2>6 DEF StreamInv
<1> QED  BY <1>1, <1>2

(* mqtt_read has asked for the one byte it looks at.                       *)
LEMMA ReadHead ==
  ASSUME TypeOK, ChunkInv, ReadInv, pc = "parse", chunk # <<>>, state # "REMAIN", mode = "read"
  PROVE  left = <<>> /\ Tail(chunk) = <<>>
<1>1. Len(chunk) <= require /\ require = 1 /\ left = <<>>  BY DEF ReadInv
<1>2. 1 \in 0..Len(chunk) /\ Len(chunk) \in Nat /\ Tail(chunk) = SubSeq(chunk, 1 + 1, Len(chunk))
  BY ConsumeHead, StreamType
<1>3. Len(chunk) = 1
  <2>1. \A k, r \in Nat : 1 \in 0..k /\ k <= r /\ r = 1 => k = 1  OBVIOUS
  <2>2. require \in Nat  BY DEF TypeOK
  <2> QED  BY <1>1, <1>2, <2>1, <2>2
<1>4. SubSeq(chunk, 2, 1) = <<>> /\ 1 + 1 = 2  BY SubSeqEmpty
<1> QED  BY <1>1, <1>2, <1>3, <1>4

(* What begins with too many digits stays wrong whatever follows.          *)
LEMMA DoomedIsWrong ==
  ASSUME NEW l \in Seq(Byte), NEW r \in Seq(Byte), Len(l) > 0, TooLongAt(l, 1)
  PROVE  Wrong(l \o r) /\ IsPrefix(<<>>, Decode(l \o r).packets)
<1> DEFINE s == l \o r
<1>n. MaxDigits \in Nat  BY ParserAssumption
<1>1. /\ s \in Seq(Byte) /\ Len(s) = Len(l) + Len(r) /\ Len(l) \in Nat /\ Len(r) \in Nat
      /\ \A i \in 1..Len(l) : s[i] = l[i]
  BY ConcatProperties
<1> HIDE DEF s
<1>2. 1 + MaxDigits < Len(l) /\ l[1] \in Headers /\ \A e \in 1..MaxDigits : Continues(l[1 + e])
  BY DEF TooLongAt
<1>3. TooLongAt(s, 1)
  <2>1. 1 + MaxDigits < Len(s)  BY <1>1, <1>2, <1>n
  <2>2. s[1] = l[1]
    <3>1. 1 \in 1..Len(l)  BY <1>1
    <3> QED  BY <1>1, <3>1
  <2>3. ASSUME NEW e \in 1..MaxDigits PROVE Continues(s[1 + e])
    <3>1. 1 + e \in 1..Len(l)  BY <1>1, <1>2, <1>n
    <3> QED  BY <1>1, <1>2, <3>1
  <2> QED  BY <1>2, <2>1, <2>2, <2>3 DEF TooLongAt
<1>4. 1 \in 1..Len(s) /\ 1 \in 1..(Len(s) + 1) /\ 0 \in 0..Len(s)  BY <1>1
<1>5. ~Good(s, 1) /\ (Decode(s).next = 1 => Wrong(s))  BY <1>1, <1>3, <1>4, TooLongIsWrong
<1>6. Follows(s, 0, <<>>, 1)  BY FollowsNothing
<1>7. <<>> \in Seq(Packets)  BY EmptySeq
<1>8. IsPrefix(<<>>, Decode(s).packets) /\ Decode(s).next = 1
  BY <1>1, <1>4, <1>5, <1>6, <1>7, FollowsRest
<1> QED  BY <1>5, <1>8 DEF s

(* The multiplier is too large exactly after the last digit allowed.       *)
LEMMA TooLongMeans ==
  ASSUME NEW d \in 0..MaxDigits, multiplier = Power[d]
  PROVE  TooLong <=> d = MaxDigits
<1>n. MaxDigits \in Nat /\ MaxDigits >= 1  BY ParserAssumption
<1>1. MaxDigits - 1 \in 0..(MaxDigits - 1) /\ MaxDigits - 1 \in 0..MaxDigits /\ MaxDigits \in 0..MaxDigits
  BY <1>n
<1>2. /\ Power[MaxDigits - 1] \in Nat /\ Power[MaxDigits] \in Nat /\ Power[d] \in Nat
      /\ Power[MaxDigits - 1] < Power[MaxDigits]
  BY <1>1, PowerGrows
<1>3. CASE d = MaxDigits  BY <1>2, <1>3 DEF TooLong
<1>4. CASE d # MaxDigits
  <2>1. d \in 0..(MaxDigits - 1)  BY <1>4, <1>n
  <2>2. Power[d] <= Power[MaxDigits - 1]  BY <2>1, PowerGrows
  <2> QED  BY <1>2, <1>4, <2>2 DEF TooLong
<1> QED  BY <1>3, <1>4

LEMMA LengthDoomed ==
  ASSUME PInv, StreamInv, Length, Doomed
  PROVE  StreamInv'
<1>i. TypeOK /\ PacketInv /\ ChunkInv /\ ReadInv /\ DoomInv /\ PlaceInv
  BY DEF PInv, StreamInv
<1>f. /\ pc = "parse" /\ chunk # <<>> /\ state = "LENGTH"
      /\ mode' = mode /\ received' = received /\ left' = left
  BY DEF Length, Parse
<1>d. multiplier = Power[MaxDigits] /\ delivered = <<>> /\ mode = "parse"
  BY <1>i DEF DoomInv
<1>1. TooLong
  <2>1. MaxDigits \in 0..MaxDigits  BY ParserAssumption
  <2> QED  BY <1>d, <2>1, TooLongMeans
<1>2. /\ pc' = "failed" /\ chunk' = <<>> /\ delivered' = delivered
      /\ state' = state /\ multiplier' = multiplier /\ require' = require
  BY <1>1 DEF Length, Fail
<1>3. Stream' = Stream /\ ChunkInv' /\ (Doomed <=> Doomed')
  <2>1. chunk' = SubSeq(chunk, Len(chunk) + 1, Len(chunk)) /\ Len(chunk) \in 0..Len(chunk)
    BY <1>i, <1>2, ConsumeAll
  <2> QED  BY <1>i, <1>f, <1>2, <2>1, Consume
<1>4. Wrong(Stream) /\ IsPrefix(<<>>, Decode(Stream).packets)
  <2>1. left \in Seq(Byte) /\ received \in Seq(Byte)  BY <1>i DEF TypeOK, ChunkInv
  <2> QED  BY <2>1, DoomedIsWrong DEF Doomed, Stream
<1>5. ReadInv'  BY <1>d, <1>f DEF ReadInv
<1>6. DoomInv'  BY <1>i, <1>d, <1>f, <1>2, <1>3 DEF DoomInv
<1>7. PlaceInv'  BY <1>2, <1>d, <1>3, <1>4, PlaceFailed
<1> QED  BY <1>3, <1>5, <1>6, <1>7 DEF StreamInv

(* What every step of Length finds in a stream that is not doomed.         *)
LEMMA LengthFinds ==
  ASSUME PInv, StreamInv, Length, ~Doomed
  PROVE  /\ Stream \in Seq(Byte) /\ Here \in Nat /\ Here + 1 \in 1..Len(Stream)
         /\ Len(Stream) \in Nat /\ delivered \in Seq(Packets) /\ body = <<>>
         /\ mode' = mode /\ left' = left /\ flags' = flags /\ body' = body
         /\ state = "LENGTH" /\ pc = "parse" /\ chunk # <<>> /\ received' = received
         /\ Head(chunk) = Stream[Here + 1]
         /\ \E b \in 1..Here :
              /\ Follows(Stream, Here, delivered, b) /\ InLength(Stream, Here, b)
              /\ Here - b \in 0..MaxDigits /\ (TooLong <=> Here - b = MaxDigits)
<1>i. TypeOK /\ PacketInv /\ ChunkInv /\ ReadInv /\ DoomInv /\ PlaceInv
  BY DEF PInv, StreamInv
<1>t. /\ Stream \in Seq(Byte) /\ Len(Stream) \in Nat /\ Here \in 0..Len(Stream)
  BY <1>i, StreamType
<1>f. /\ pc = "parse" /\ chunk # <<>> /\ state = "LENGTH" /\ flags' = flags /\ body' = body
      /\ mode' = mode /\ received' = received /\ left' = left
  BY DEF Length, Parse
<1>d. delivered \in Seq(Packets) /\ body = <<>>  BY <1>i, <1>f DEF TypeOK, Packets, PacketInv
<1>h. Head(chunk) = Stream[Here + 1] /\ Here + 1 \in 1..Len(Stream)
  BY <1>i, <1>f, ConsumeHead
<1>p. PICK b \in 1..(Here + 1) : Follows(Stream, Here, delivered, b) /\ InPacket(Stream, Here, b)
  <2>1. Partial  BY <1>f DEF Partial
  <2> QED  BY <1>i, <2>1, FoundFirst DEF StreamInv
<1>1. InLength(Stream, Here, b)  BY <1>p, <1>f DEF InPacket
<1>2. b <= Here /\ Here - b <= MaxDigits /\ multiplier = Power[Here - b]
  BY <1>1 DEF InLength
<1>3. b \in 1..Here /\ Here - b \in 0..MaxDigits  BY <1>2, <1>t, ParserAssumption
<1>4. TooLong <=> Here - b = MaxDigits  BY <1>2, <1>3, TooLongMeans
<1> QED  BY <1>t, <1>f, <1>d, <1>h, <1>p, <1>1, <1>3, <1>4

LEMMA LengthTooLong ==
  ASSUME PInv, StreamInv, Length, ~Doomed, TooLong
  PROVE  StreamInv'
<1>i. TypeOK /\ PacketInv /\ ChunkInv /\ ReadInv /\ DoomInv /\ PlaceInv
  BY DEF PInv, StreamInv
<1>f. /\ Stream \in Seq(Byte) /\ Here \in Nat /\ Here + 1 \in 1..Len(Stream)
      /\ Len(Stream) \in Nat /\ delivered \in Seq(Packets)
      /\ mode' = mode /\ left' = left
      /\ state = "LENGTH" /\ pc = "parse" /\ chunk # <<>> /\ received' = received
  BY LengthFinds
<1>p. PICK b \in 1..Here :
         /\ Follows(Stream, Here, delivered, b) /\ InLength(Stream, Here, b)
         /\ Here - b \in 0..MaxDigits /\ Here - b = MaxDigits
  BY LengthFinds
<1>n. MaxDigits \in Nat  BY ParserAssumption
<1>2. /\ pc' = "failed" /\ chunk' = <<>> /\ delivered' = delivered
      /\ state' = state /\ multiplier' = multiplier /\ require' = require
  BY DEF Length, Fail
<1>3. Stream' = Stream /\ ChunkInv' /\ (Doomed <=> Doomed')
  <2>1. chunk' = SubSeq(chunk, Len(chunk) + 1, Len(chunk)) /\ Len(chunk) \in 0..Len(chunk)
    BY <1>i, <1>2, ConsumeAll
  <2> QED  BY <1>i, <1>f, <1>2, <2>1, Consume
<1>4. TooLongAt(Stream, b)
  <2>1. flags = Stream[b] /\ flags \in Headers /\ \A e \in 1..(Here - b) : Continues(Stream[b + e])
    BY <1>p DEF InLength
  <2>2. b + MaxDigits < Len(Stream)  BY <1>p, <1>f, <1>n
  <2>3. \A e \in 1..MaxDigits : Continues(Stream[b + e])  BY <1>p, <2>1
  <2> QED  BY <2>1, <2>2, <2>3 DEF TooLongAt
<1>5. b \in 1..Len(Stream) /\ b \in 1..(Len(Stream) + 1) /\ Here \in 0..Len(Stream)  BY <1>f
<1>6. ~Good(Stream, b) /\ (Decode(Stream).next = b => Wrong(Stream))
  BY <1>f, <1>4, <1>5, TooLongIsWrong
<1>7. IsPrefix(delivered, Decode(Stream).packets) /\ Decode(Stream).next = b
  BY <1>f, <1>p, <1>5, <1>6, FollowsRest
<1>8. multiplier = Power[MaxDigits]  BY <1>p DEF InLength
<1>9. ReadInv'  BY <1>i, <1>f, <1>2 DEF ReadInv
<1>10. DoomInv'  BY <1>i, <1>f, <1>3 DEF DoomInv
<1>11. PlaceInv'
  <2>1. /\ state' = "LENGTH" /\ multiplier' = Power[MaxDigits]
        /\ \E c \in 1..Len(Stream) : TooLongAt(Stream, c) /\ Decode(Stream).next = c
    BY <1>2, <1>4, <1>5, <1>7, <1>8, <1>f
  <2> QED  BY <1>2, <1>3, <1>6, <1>7, <2>1, PlaceFailed
<1> QED  BY <1>3, <1>9, <1>10, <1>11 DEF StreamInv

(* One digit more.                                                         *)
LEMMA LengthDigit ==
  ASSUME PInv, StreamInv, Length, NEW b \in 1..Here, InLength(Stream, Here, b),
         Here - b \in 0..MaxDigits, Here - b # MaxDigits, ~TooLong, Here \in Nat,
         Stream \in Seq(Byte), Head(chunk) = Stream[Here + 1], Here + 1 \in 1..Len(Stream)
  PROVE  /\ Here + 1 - b \in 1..MaxDigits /\ b + (Here + 1 - b) = Here + 1
         /\ flags = Stream[b] /\ flags \in Headers
         /\ n' = LengthAt(Stream, b, Here + 1 - b) /\ n' \in Nat
         /\ multiplier' = Power[Here + 1 - b]
         /\ \A e \in 1..((Here + 1 - b) - 1) : Continues(Stream[b + e])
<1> DEFINE d == Here - b
<1>n. /\ MaxDigits \in Nat /\ Radix \in Nat /\ Len(Stream) \in Nat
  BY ParserAssumption
<1>1. /\ flags = Stream[b] /\ flags \in Headers /\ multiplier = Power[d]
      /\ n = LengthAt(Stream, b, d) /\ \A e \in 1..d : Continues(Stream[b + e])
  BY DEF InLength
<1>2. /\ d \in 0..MaxDigits /\ d # MaxDigits /\ Here + 1 - b = d + 1 /\ d + 1 \in 1..MaxDigits
      /\ b + (d + 1) = Here + 1 /\ d + 1 - 1 = d /\ b \in 1..Len(Stream) /\ b \in 1..(Len(Stream) + 1)
  BY <1>n
<1>3. d + 1 \in Places(Stream, b) \ {0} /\ d \in Places(Stream, b)
  BY <1>2, <1>n DEF Places
<1> HIDE DEF d
<1>4. n' = n + Digit(Head(chunk)) * multiplier /\ multiplier' = multiplier * Radix
  BY DEF Length
<1>5. n' = LengthAt(Stream, b, d + 1)
  <2>1. LengthAt(Stream, b, d + 1) = LengthAt(Stream, b, d) + Digit(Stream[b + (d + 1)]) * Power[d]
    BY <1>2, <1>3, LengthDef
  <2> QED  BY <1>1, <1>2, <1>4, <2>1
<1>6. multiplier' = Power[d + 1]
  <2>1. Power[d + 1] = Radix * Power[d]  BY <1>2, PowerDef
  <2>2. Power[d] \in Nat  BY <1>2, PowerGrows
  <2>3. \A x, y \in Nat : x * y = y * x  OBVIOUS
  <2> QED  BY <1>1, <1>4, <1>n, <2>1, <2>2, <2>3
<1>7. n' \in Nat  BY <1>2, <1>3, <1>5, LengthIsNat
<1>8. Here + 1 - b \in 1..MaxDigits /\ b + (Here + 1 - b) = Here + 1  BY <1>2
<1>9. n' = LengthAt(Stream, b, Here + 1 - b) /\ multiplier' = Power[Here + 1 - b]
  BY <1>2, <1>5, <1>6
<1>10. \A e \in 1..((Here + 1 - b) - 1) : Continues(Stream[b + e])
  <2>1. (Here + 1 - b) - 1 = d  BY <1>2
  <2> QED  BY <1>1, <2>1
<1> QED  BY <1>1, <1>7, <1>8, <1>9, <1>10

LEMMA LengthStream ==
  ASSUME PInv, StreamInv, Length
  PROVE  StreamInv'
<1>1. CASE Doomed  BY <1>1, LengthDoomed
<1>2. CASE ~Doomed /\ TooLong  BY <1>2, LengthTooLong
<1>3. CASE ~Doomed /\ ~TooLong
  <2>i. TypeOK /\ PacketInv /\ ChunkInv /\ ReadInv /\ DoomInv /\ PlaceInv
    BY DEF PInv, StreamInv
  <2>f. /\ Stream \in Seq(Byte) /\ Here \in Nat /\ Here + 1 \in 1..Len(Stream)
        /\ Len(Stream) \in Nat /\ delivered \in Seq(Packets) /\ body = <<>>
        /\ mode' = mode /\ left' = left /\ flags' = flags /\ body' = body
        /\ state = "LENGTH" /\ pc = "parse" /\ chunk # <<>> /\ received' = received
        /\ Head(chunk) = Stream[Here + 1]
    BY <1>3, LengthFinds
  <2>p. PICK b \in 1..Here :
           /\ Follows(Stream, Here, delivered, b) /\ InLength(Stream, Here, b)
           /\ Here - b \in 0..MaxDigits /\ Here - b # MaxDigits
    BY <1>3, LengthFinds
  <2>h. PICK h : h = Here + 1  OBVIOUS
  <2>e. PICK d : d = Here + 1 - b  OBVIOUS
  <2>n. /\ d \in 1..MaxDigits /\ b + d = h
        /\ flags = Stream[b] /\ flags \in Headers
        /\ n' = LengthAt(Stream, b, d) /\ n' \in Nat
        /\ multiplier' = Power[d]
        /\ \A e \in 1..(d - 1) : Continues(Stream[b + e])
    <3>1. /\ Here + 1 - b \in 1..MaxDigits /\ b + (Here + 1 - b) = Here + 1
          /\ flags = Stream[b] /\ flags \in Headers
          /\ n' = LengthAt(Stream, b, Here + 1 - b) /\ n' \in Nat
          /\ multiplier' = Power[Here + 1 - b]
          /\ \A e \in 1..((Here + 1 - b) - 1) : Continues(Stream[b + e])
      BY <1>3, <2>f, <2>p, LengthDigit, Zenon
    <3> QED  BY <2>h, <2>e, <3>1, Zenon
  <2>r. /\ b <= h /\ b \in 1..(h + 1) /\ h \in 0..Len(Stream) /\ h \in Nat /\ h - b = d /\ Here <= h
        /\ b \in 1..Len(Stream) /\ b \in 1..(Len(Stream) + 1) /\ b \in 1..h /\ MaxDigits \in Nat
    BY <2>f, <2>h, <2>e, ParserAssumption
  <2>w. Follows(Stream, h, delivered, b)  BY <2>f, <2>p, <2>r, FollowsLonger
  <2>c. ASSUME chunk' = Tail(chunk), pc' \in {"parse", "handle"}
        PROVE  /\ Stream' = Stream /\ Here' = h /\ ChunkInv' /\ (Doomed <=> Doomed')
               /\ mode = "read" => left = <<>> /\ chunk' = <<>>
    <3>1. 1 \in 0..Len(chunk) /\ chunk' = SubSeq(chunk, 1 + 1, Len(chunk))
      BY <2>c, <2>i, <2>f, ConsumeHead
    <3>2. Stream' = Stream /\ Here' = Here + 1 /\ ChunkInv' /\ (Doomed <=> Doomed')
      BY <2>c, <2>i, <2>f, <3>1, Consume
    <3>3. mode = "read" => left = <<>> /\ chunk' = <<>>
      BY <2>c, <2>i, <2>f, ReadHead
    <3> QED  BY <2>h, <3>2, <3>3
  <2>d. ASSUME Doomed <=> Doomed' PROVE DoomInv'
    BY <1>3, <2>d, <2>i, <2>f DEF DoomInv
  <2>s. Head(chunk) = Stream[b + d]  BY <2>f, <2>h, <2>n
  <2>b. b + d + 1 = h + 1 /\ SubSeq(Stream, h + 1, h) = <<>>
    <3>1. h + 1 \in Int /\ h \in Int /\ h < h + 1  BY <2>r
    <3> QED  BY <2>n, <3>1, SubSeqEmpty
  <2>4. CASE Continues(Head(chunk))
    <3>1. chunk' = Tail(chunk) /\ state' = "LENGTH" /\ require' = require /\ pc' = "parse"
          /\ delivered' = delivered
      BY <1>3, <2>4, <2>f DEF Length
    <3>2. /\ Stream' = Stream /\ Here' = h /\ ChunkInv' /\ (Doomed <=> Doomed')
          /\ mode = "read" => left = <<>> /\ chunk' = <<>>
      BY <2>c, <3>1
    <3>3. ReadInv'
      <4>1. mode = "read" => require = 1  BY <2>i, <2>f DEF ReadInv
      <4>2. mode = "read" => Len(chunk') = 0  BY <3>2, EmptySeq
      <4>3. 0 <= 1 /\ 1 > 0  OBVIOUS
      <4>4. mode = "read" => Len(chunk') <= require' /\ require' > 0 /\ require' = 1 /\ left' = <<>>
        BY <2>f, <3>1, <3>2, <4>1, <4>2, <4>3
      <4> QED  BY <2>f, <3>1, <4>4 DEF ReadInv
    <3>4. InPacket(Stream, Here, b)'
      <4>1. \A e \in 1..d : Continues(Stream[b + e])
        <5>1. \A e \in 1..d : e \in 1..(d - 1) \/ e = d  BY <2>n, <2>r
        <5> QED  BY <2>4, <2>n, <2>s, <5>1
      <4>2. d <= MaxDigits  BY <2>n, <2>r
      <4>3. InLength(Stream, Here, b)'  BY <2>f, <2>n, <2>r, <3>2, <4>1, <4>2 DEF InLength
      <4> QED  BY <3>1, <4>3 DEF InPacket
    <3>5. PlaceInv'  BY <2>f, <2>r, <2>w, <3>1, <3>2, <3>4, PlaceParse
    <3> QED  BY <2>d, <3>2, <3>3, <3>5 DEF StreamInv
  <2>g. ASSUME ~Continues(Head(chunk)) PROVE HasDigits(Stream, b, d)
    <3>1. b + d <= Len(Stream)  BY <2>n, <2>r
    <3> QED  BY <2>g, <2>n, <2>s, <3>1 DEF HasDigits
  <2>5. CASE ~Continues(Head(chunk)) /\ n' > 0
    <3>1. chunk' = Tail(chunk) /\ state' = "REMAIN" /\ require' = n' /\ pc' = "parse"
          /\ delivered' = delivered
      BY <1>3, <2>5, <2>f DEF Length
    <3>2. /\ Stream' = Stream /\ Here' = h /\ ChunkInv' /\ (Doomed <=> Doomed')
          /\ mode = "read" => left = <<>> /\ chunk' = <<>>
      BY <2>c, <3>1
    <3>3. ReadInv'
      <4>1. mode = "read" => Len(chunk') = 0  BY <3>2, EmptySeq
      <4>2. 0 <= n'  BY <2>n
      <4> QED  BY <2>5, <2>f, <3>1, <3>2, <4>1, <4>2 DEF ReadInv
    <3>4. InPacket(Stream, Here, b)'
      <4>1. Len(body') = 0  BY <2>f, EmptySeq
      <4>2. h = b + d + Len(body') /\ Len(body') + require' = n'
        <5>1. b + d + 0 = b + d /\ 0 + n' = n'  BY <2>n, <2>r
        <5> QED  BY <2>n, <3>1, <4>1, <5>1
      <4>3. body' = SubSeq(Stream, b + d + 1, h)  BY <2>f, <2>b
      <4>4. HasDigits(Stream, b, d)  BY <2>5, <2>g
      <4>5. /\ b <= Here' /\ flags' = Stream'[b] /\ flags' \in Headers
            /\ HasDigits(Stream', b, d) /\ n' = LengthAt(Stream', b, d)
            /\ Here' = b + d + Len(body') /\ body' = SubSeq(Stream', b + d + 1, Here')
            /\ require' > 0 /\ Len(body') + require' = n'
        BY <2>5, <2>f, <2>n, <2>r, <3>1, <3>2, <4>2, <4>3, <4>4
      <4>6. InBody(Stream, Here, b)'
        <5>1. d \in 1..MaxDigits  BY <2>n
        <5> QED  BY <4>5, <5>1 DEF InBody, HasDigits
      <4> QED  BY <3>1, <4>6 DEF InPacket
    <3>5. PlaceInv'  BY <2>f, <2>r, <2>w, <3>1, <3>2, <3>4, PlaceParse
    <3> QED  BY <2>d, <3>2, <3>3, <3>5 DEF StreamInv
  <2>6. CASE ~Continues(Head(chunk)) /\ ~(n' > 0)
    <3>1. state' = StateAfter /\ require' = 0 /\ Process([flags |-> flags, body |-> <<>>], Tail(chunk))
      BY <1>3, <2>6 DEF Length
    <3>s. mode' = "parse" => state' = "FIXED"  BY <2>f, <3>1 DEF StateAfter
    <3>g. HasDigits(Stream, b, d)  BY <2>6, <2>g
    <3>l. n' = 0 /\ LengthAt(Stream, b, d) = 0 /\ b + d + LengthAt(Stream, b, d) = h
      <4>1. n' = 0  BY <2>6, <2>n
      <4>2. b + d + 0 = b + d  BY <2>n, <2>r
      <4> QED  BY <2>n, <4>1, <4>2
    <3>2. CASE flags \in Malformed
      <4>1. pc' = "failed" /\ chunk' = <<>> /\ delivered' = delivered
        BY <3>1, <3>2 DEF Process, Fail
      <4>2. Stream' = Stream /\ ChunkInv' /\ (Doomed <=> Doomed')
        <5>1. chunk' = SubSeq(chunk, Len(chunk) + 1, Len(chunk)) /\ Len(chunk) \in 0..Len(chunk)
          BY <2>i, <4>1, ConsumeAll
        <5> QED  BY <2>i, <2>f, <4>1, <5>1, Consume
      <4>3. ReadInv'  BY <2>i, <2>f, <4>1 DEF ReadInv
      <4>4. ~Good(Stream, b) /\ (Decode(Stream).next = b => Wrong(Stream))
        <5>1. b + d + LengthAt(Stream, b, d) <= Len(Stream)  BY <3>l, <2>r
        <5>2. Stream[b] \in Malformed  BY <3>2, <2>n
        <5> QED  BY <2>f, <2>r, <3>g, <5>1, <5>2, RefusedIsWrong
      <4>5. IsPrefix(delivered, Decode(Stream).packets) /\ Decode(Stream).next = b
        BY <2>f, <2>r, <2>w, <4>4, FollowsRest
      <4>6. PlaceInv'  BY <3>s, <4>1, <4>2, <4>4, <4>5, PlaceFailed
      <4> QED  BY <2>d, <4>2, <4>3, <4>6 DEF StreamInv
    <3>3. CASE flags \notin Malformed
      <4>1. /\ pc' = "handle" /\ chunk' = Tail(chunk)
            /\ delivered' = Append(delivered, [flags |-> flags, body |-> <<>>])
        BY <3>1, <3>3 DEF Process
      <4>2. /\ Stream' = Stream /\ Here' = h /\ ChunkInv' /\ (Doomed <=> Doomed')
            /\ mode = "read" => left = <<>> /\ chunk' = <<>>
        BY <2>c, <4>1
      <4>3. ReadInv'  BY <2>f, <4>1, <4>2 DEF ReadInv
      <4>4. Follows(Stream, h, delivered', h + 1)
        <5>1. b + d <= h /\ Stream[b] \in Headers \ Malformed  BY <2>n, <2>r, <3>3
        <5>2. delivered' = Append(delivered, [flags |-> Stream[b], body |-> SubSeq(Stream, b + d + 1, h)])
          BY <2>n, <2>b, <4>1
        <5> QED  BY <2>f, <2>r, <2>w, <3>g, <3>l, <5>1, <5>2, FollowsPacket
      <4>5. delivered' \in Seq(Packets)
        <5>1. [flags |-> flags, body |-> <<>>] \in Packets
          <6>1. <<>> \in Seq(Byte)  BY EmptySeq
          <6> QED  BY <2>n, <3>3, <6>1 DEF Packets
        <5> QED  BY <2>f, <4>1, <5>1, AppendProperties
      <4>6. PlaceInv'  BY <2>f, <2>r, <3>s, <4>1, <4>2, <4>4, <4>5, PlaceHandle
      <4> QED  BY <2>d, <4>2, <4>3, <4>6 DEF StreamInv
    <3> QED  BY <3>2, <3>3
  <2> QED  BY <2>4, <2>5, <2>6
<1> QED  BY <1>1, <1>2, <1>3

(* The first bytes of the chunk are the next of the stream.                *)
LEMMA ChunkPiece ==
  ASSUME TypeOK, ChunkInv, NEW m \in 0..Len(chunk)
  PROVE  SubSeq(chunk, 1, m) = SubSeq(Stream, Here + 1, Here + m)
<1>t. /\ Stream \in Seq(Byte) /\ Len(Stream) \in Nat /\ Len(chunk) \in Nat
      /\ Here \in Nat /\ Here + Len(chunk) = Len(Stream)
  BY StreamType
<1>c. chunk \in Seq(Byte) /\ m \in Nat  BY <1>t DEF TypeOK
<1> DEFINE v == SubSeq(chunk, 1, m)
           w == SubSeq(Stream, Here + 1, Here + m)
<1>1. /\ v \in Seq(Byte) /\ Len(v) = m
      /\ \A i \in 1..m : v[i] = chunk[i]
  <2>1. \A i \in 1..m : chunk[i] \in Byte
    <3>1. \A i \in 1..m : i \in 1..Len(chunk)  BY <1>t
    <3> QED  BY <1>c, <3>1
  <2>2. /\ v \in Seq(Byte) /\ Len(v) = IF 1 <= m THEN m - 1 + 1 ELSE 0
        /\ \A i \in 1..(m - 1 + 1) : v[i] = chunk[1 + i - 1]
    BY <1>c, <2>1, SubSeqProperties
  <2> HIDE DEF v
  <2>3. (IF 1 <= m THEN m - 1 + 1 ELSE 0) = m /\ m - 1 + 1 = m  BY <1>c
  <2>4. \A i \in 1..m : 1 + i - 1 = i  BY <1>c
  <2> QED  BY <2>2, <2>3, <2>4
<1>2. /\ w \in Seq(Byte) /\ Len(w) = m
      /\ \A i \in 1..m : w[i] = Stream[Here + i]
  <2>1. \A i \in (Here + 1)..(Here + m) : Stream[i] \in Byte
    <3>1. \A i \in (Here + 1)..(Here + m) : i \in 1..Len(Stream)  BY <1>t
    <3> QED  BY <1>t, <3>1
  <2>2. Here + 1 \in Int /\ Here + m \in Int  BY <1>t, <1>c
  <2>3. /\ w \in Seq(Byte)
        /\ Len(w) = IF Here + 1 <= Here + m THEN (Here + m) - (Here + 1) + 1 ELSE 0
        /\ \A i \in 1..((Here + m) - (Here + 1) + 1) : w[i] = Stream[(Here + 1) + i - 1]
    BY <2>1, <2>2, SubSeqProperties
  <2> HIDE DEF w
  <2>4. /\ (IF Here + 1 <= Here + m THEN (Here + m) - (Here + 1) + 1 ELSE 0) = m
        /\ (Here + m) - (Here + 1) + 1 = m
    BY <1>t, <1>c
  <2>5. \A i \in 1..m : (Here + 1) + i - 1 = Here + i  BY <1>t, <1>c
  <2> QED  BY <2>3, <2>4, <2>5
<1>3. ASSUME NEW i \in 1..m PROVE v[i] = w[i]
  <2>1. i \in 1..Len(chunk)  BY <1>t
  <2>2. Stream[Here + i] = chunk[i]  BY <2>1 DEF ChunkInv
  <2> QED  BY <1>1, <1>2, <2>2
<1> HIDE DEF v, w
<1>4. v = w  BY <1>1, <1>2, <1>3, SeqEqual
<1> QED  BY <1>4 DEF v, w

(* What has been copied, with the next bytes.                              *)
LEMMA Copied ==
  ASSUME TypeOK, ChunkInv, NEW m \in 0..Len(chunk), NEW a \in Nat, a >= 1,
         Here + 1 = a + Len(body), body = SubSeq(Stream, a, Here)
  PROVE  /\ body \o SubSeq(chunk, 1, m) = SubSeq(Stream, a, Here + m)
         /\ Len(body \o SubSeq(chunk, 1, m)) = Len(body) + m
         /\ body \o SubSeq(chunk, 1, m) \in Seq(Byte)
<1>t. /\ Stream \in Seq(Byte) /\ Len(Stream) \in Nat /\ Len(chunk) \in Nat
      /\ Here \in Nat /\ Here + Len(chunk) = Len(Stream)
  BY StreamType
<1>b. body \in Seq(Byte) /\ Len(body) \in Nat /\ chunk \in Seq(Byte)  BY DEF TypeOK
<1>1. SubSeq(chunk, 1, m) = SubSeq(Stream, Here + 1, Here + m)  BY ChunkPiece
<1>2. /\ a \in 1..(Len(Stream) + 1) /\ Here \in (a - 1)..Len(Stream)
      /\ Here + m \in Here..Len(Stream)
  <2>1. m \in Nat /\ m <= Len(chunk) /\ Here + m <= Here + Len(chunk)  BY <1>t
  <2>2. a <= Here + 1 /\ Here <= Len(Stream)  BY <1>t, <1>b
  <2> QED  BY <2>1, <2>2, <1>t
<1>3. SubSeq(Stream, a, Here) \o SubSeq(Stream, Here + 1, Here + m) = SubSeq(Stream, a, Here + m)
  BY <1>t, <1>2, ConcatAdjacentSubSeq
<1>4. SubSeq(chunk, 1, m) \in Seq(Byte) /\ Len(SubSeq(chunk, 1, m)) = m
  <2>1. m \in Nat /\ m <= Len(chunk)  BY <1>t
  <2> QED  BY <1>b, <2>1, Pieces
<1>5. /\ body \o SubSeq(chunk, 1, m) \in Seq(Byte)
      /\ Len(body \o SubSeq(chunk, 1, m)) = Len(body) + m
  BY <1>b, <1>4, ConcatProperties
<1> QED  BY <1>1, <1>3, <1>5

LEMMA RemainFinds ==
  ASSUME PInv, StreamInv, RemainSome \/ RemainAll
  PROVE  /\ Stream \in Seq(Byte) /\ Here \in Nat /\ Len(Stream) \in Nat /\ Len(chunk) \in Nat
         /\ Here + Len(chunk) = Len(Stream) /\ delivered \in Seq(Packets) /\ ~Doomed
         /\ mode' = mode /\ left' = left /\ flags' = flags /\ received' = received /\ n' = n
         /\ state = "REMAIN" /\ pc = "parse" /\ chunk # <<>> /\ Len(body) \in Nat
         /\ require \in Nat /\ require > 0
         /\ \E b \in 1..Here : \E d \in 1..MaxDigits :
              /\ Follows(Stream, Here, delivered, b)
              /\ flags = Stream[b] /\ flags \in Headers
              /\ HasDigits(Stream, b, d) /\ n = LengthAt(Stream, b, d)
              /\ Here = b + d + Len(body) /\ body = SubSeq(Stream, b + d + 1, Here)
              /\ Len(body) + require = n
<1>i. TypeOK /\ PacketInv /\ ChunkInv /\ ReadInv /\ DoomInv /\ PlaceInv
  BY DEF PInv, StreamInv
<1>t. /\ Stream \in Seq(Byte) /\ Here \in 0..Len(Stream) /\ Len(Stream) \in Nat /\ Len(chunk) \in Nat
      /\ Here + Len(chunk) = Len(Stream)
  BY <1>i, StreamType
<1>f. /\ pc = "parse" /\ chunk # <<>> /\ state = "REMAIN" /\ flags' = flags
      /\ mode' = mode /\ received' = received /\ left' = left /\ n' = n
  BY DEF RemainSome, RemainAll, Parse
<1>d. delivered \in Seq(Packets) /\ Len(body) \in Nat /\ require \in Nat
  BY <1>i DEF TypeOK, Packets
<1>u. ~Doomed /\ Partial  BY <1>i, <1>f DEF DoomInv, Partial
<1>p. PICK b \in 1..(Here + 1) : Follows(Stream, Here, delivered, b) /\ InPacket(Stream, Here, b)
  BY <1>i, <1>u, FoundFirst DEF StreamInv
<1>1. PICK d \in 1..MaxDigits :
         /\ b <= Here /\ flags = Stream[b] /\ flags \in Headers
         /\ HasDigits(Stream, b, d) /\ n = LengthAt(Stream, b, d)
         /\ Here = b + d + Len(body) /\ body = SubSeq(Stream, b + d + 1, Here)
         /\ require > 0 /\ Len(body) + require = n
  BY <1>p, <1>f DEF InPacket, InBody
<1>2. b \in 1..Here /\ require > 0 /\ Here \in Nat
  <2>1. b <= Here /\ require > 0  BY <1>1, Zenon
  <2>2. Here \in Nat  BY <1>t
  <2> QED  BY <2>1, <2>2
<1>3. \E c \in 1..Here : \E e \in 1..MaxDigits :
         /\ Follows(Stream, Here, delivered, c)
         /\ flags = Stream[c] /\ flags \in Headers
         /\ HasDigits(Stream, c, e) /\ n = LengthAt(Stream, c, e)
         /\ Here = c + e + Len(body) /\ body = SubSeq(Stream, c + e + 1, Here)
         /\ Len(body) + require = n
  BY <1>p, <1>1, <1>2, Zenon
<1> QED  BY <1>t, <1>f, <1>d, <1>u, <1>2, <1>3, Zenon

LEMMA RemainSomeStream ==
  ASSUME PInv, StreamInv, RemainSome
  PROVE  StreamInv'
<1>i. TypeOK /\ PacketInv /\ ChunkInv /\ ReadInv /\ DoomInv /\ PlaceInv
  BY DEF PInv, StreamInv
<1>f. /\ Stream \in Seq(Byte) /\ Here \in Nat /\ Len(Stream) \in Nat /\ Len(chunk) \in Nat
      /\ Here + Len(chunk) = Len(Stream) /\ delivered \in Seq(Packets) /\ ~Doomed
      /\ mode' = mode /\ left' = left /\ flags' = flags /\ received' = received /\ n' = n
      /\ state = "REMAIN" /\ pc = "parse" /\ chunk # <<>> /\ Len(body) \in Nat
      /\ require \in Nat /\ require > 0
  BY RemainFinds
<1>p. PICK b \in 1..Here : \E d \in 1..MaxDigits :
         /\ Follows(Stream, Here, delivered, b)
         /\ flags = Stream[b] /\ flags \in Headers
         /\ HasDigits(Stream, b, d) /\ n = LengthAt(Stream, b, d)
         /\ Here = b + d + Len(body) /\ body = SubSeq(Stream, b + d + 1, Here)
         /\ Len(body) + require = n
  BY RemainFinds
<1>q. PICK d \in 1..MaxDigits :
         /\ Follows(Stream, Here, delivered, b)
         /\ flags = Stream[b] /\ flags \in Headers
         /\ HasDigits(Stream, b, d) /\ n = LengthAt(Stream, b, d)
         /\ Here = b + d + Len(body) /\ body = SubSeq(Stream, b + d + 1, Here)
         /\ Len(body) + require = n
  BY <1>p
<1>h. PICK h : h = Here + Len(chunk)  OBVIOUS
<1>1. /\ Len(chunk) < require /\ body' = body \o chunk /\ require' = require - Len(chunk)
      /\ chunk' = <<>> /\ state' = state /\ pc' = pc /\ delivered' = delivered
  BY DEF RemainSome
<1>2. Stream' = Stream /\ Here' = h /\ ChunkInv' /\ (Doomed <=> Doomed')
  <2>1. chunk' = SubSeq(chunk, Len(chunk) + 1, Len(chunk)) /\ Len(chunk) \in 0..Len(chunk)
    BY <1>i, <1>1, ConsumeAll
  <2> QED  BY <1>i, <1>f, <1>h, <1>1, <2>1, Consume
<1>3. body' = SubSeq(Stream, b + d + 1, h) /\ Len(body') = Len(body) + Len(chunk)
  <2>1. SubSeq(chunk, 1, Len(chunk)) = chunk  BY <1>i, SubSeqFull DEF TypeOK
  <2>2. PICK a : a = b + d + 1  OBVIOUS
  <2>3. a \in Nat /\ a >= 1 /\ Here + 1 = a + Len(body)
    <3>1. Here = b + d + Len(body)  BY <1>q
    <3>2. MaxDigits \in Nat  BY ParserAssumption
    <3> QED  BY <2>2, <3>1, <3>2, <1>f
  <2>4. body = SubSeq(Stream, a, Here)  BY <1>q, <2>2
  <2>5. Len(chunk) \in 0..Len(chunk)  BY <1>f
  <2>6. /\ body \o SubSeq(chunk, 1, Len(chunk)) = SubSeq(Stream, a, Here + Len(chunk))
        /\ Len(body \o SubSeq(chunk, 1, Len(chunk))) = Len(body) + Len(chunk)
    BY <1>i, <2>3, <2>4, <2>5, Copied
  <2> QED  BY <1>1, <1>h, <2>1, <2>2, <2>6
<1>4. /\ h = b + d + Len(body') /\ require' > 0 /\ Len(body') + require' = n
      /\ b <= h /\ Here <= h /\ h \in Nat /\ h \in 0..Len(Stream) /\ b \in 1..(h + 1)
  <2>1. Here = b + d + Len(body) /\ Len(body) + require = n  BY <1>q
  <2>2. MaxDigits \in Nat  BY ParserAssumption
  <2>3. Len(chunk) < require /\ require' = require - Len(chunk)  BY <1>1
  <2>4. Len(body') = Len(body) + Len(chunk)  BY <1>3
  <2>5. Len(body) \in Nat /\ Len(chunk) \in Nat /\ require \in Nat /\ Here \in Nat
        /\ Here + Len(chunk) = Len(Stream)
    BY <1>f
  <2>6. h = b + d + Len(body')  BY <1>h, <2>1, <2>2, <2>4, <2>5
  <2>7. require' > 0 /\ Len(body') + require' = n  BY <2>1, <2>3, <2>4, <2>5
  <2>8. b <= h /\ Here <= h /\ h \in Nat /\ h \in 0..Len(Stream) /\ b \in 1..(h + 1)
    BY <1>h, <2>5
  <2> QED  BY <2>6, <2>7, <2>8
<1>5. ReadInv'
  <2>1. Len(chunk') = 0  BY <1>1, EmptySeq
  <2>2. require' \in Nat /\ 0 <= require'
    <3>1. \A x, y \in Nat : x < y => y - x \in Nat /\ 0 <= y - x  OBVIOUS
    <3>2. Len(chunk) \in Nat /\ require \in Nat  BY <1>f
    <3> QED  BY <1>1, <3>1, <3>2
  <2>3. mode = "read" => left = <<>>  BY <1>i DEF ReadInv
  <2> QED  BY <1>f, <1>1, <1>4, <2>1, <2>2, <2>3 DEF ReadInv
<1>6. DoomInv'  BY <1>i, <1>f, <1>2 DEF DoomInv
<1>7. InPacket(Stream, Here, b)'
  <2>1. /\ b <= Here' /\ flags' = Stream'[b] /\ flags' \in Headers
        /\ HasDigits(Stream', b, d) /\ n' = LengthAt(Stream', b, d)
        /\ Here' = b + d + Len(body') /\ body' = SubSeq(Stream', b + d + 1, Here')
        /\ require' > 0 /\ Len(body') + require' = n'
    BY <1>q, <1>f, <1>2, <1>3, <1>4, Zenon
  <2>2. InBody(Stream, Here, b)'  BY <2>1 DEF InBody, HasDigits
  <2> QED  BY <1>1, <1>f, <2>2 DEF InPacket
<1>8. PlaceInv'
  <2>1. Follows(Stream, h, delivered, b)  BY <1>q, <1>f, <1>4, FollowsLonger
  <2>2. pc' \in {"recv", "parse"}  BY <1>1, <1>f
  <2> QED  BY <1>f, <1>1, <1>2, <1>4, <1>7, <2>1, <2>2, PlaceParse
<1> QED  BY <1>2, <1>5, <1>6, <1>8 DEF StreamInv

LEMMA RemainAllStream ==
  ASSUME PInv, StreamInv, RemainAll
  PROVE  StreamInv'
<1>i. TypeOK /\ PacketInv /\ ChunkInv /\ ReadInv /\ DoomInv /\ PlaceInv
  BY DEF PInv, StreamInv
<1>f. /\ Stream \in Seq(Byte) /\ Here \in Nat /\ Len(Stream) \in Nat /\ Len(chunk) \in Nat
      /\ Here + Len(chunk) = Len(Stream) /\ delivered \in Seq(Packets) /\ ~Doomed
      /\ mode' = mode /\ left' = left /\ flags' = flags /\ received' = received /\ n' = n
      /\ state = "REMAIN" /\ pc = "parse" /\ chunk # <<>> /\ Len(body) \in Nat
      /\ require \in Nat /\ require > 0
  BY RemainFinds
<1>p. PICK b \in 1..Here : \E d \in 1..MaxDigits :
         /\ Follows(Stream, Here, delivered, b)
         /\ flags = Stream[b] /\ flags \in Headers
         /\ HasDigits(Stream, b, d) /\ n = LengthAt(Stream, b, d)
         /\ Here = b + d + Len(body) /\ body = SubSeq(Stream, b + d + 1, Here)
         /\ Len(body) + require = n
  BY RemainFinds
<1>q. PICK d \in 1..MaxDigits :
         /\ Follows(Stream, Here, delivered, b)
         /\ flags = Stream[b] /\ flags \in Headers
         /\ HasDigits(Stream, b, d) /\ n = LengthAt(Stream, b, d)
         /\ Here = b + d + Len(body) /\ body = SubSeq(Stream, b + d + 1, Here)
         /\ Len(body) + require = n
  BY <1>p
<1>h. PICK h : h = Here + require  OBVIOUS
<1>1. /\ Len(chunk) >= require /\ body' = body \o SubSeq(chunk, 1, require)
      /\ state' = StateAfter
      /\ Process([flags |-> flags, body |-> body'], SubSeq(chunk, require + 1, Len(chunk)))
  BY DEF RemainAll
<1>m. require \in 0..Len(chunk)  BY <1>1, <1>f
<1>s. mode' = "parse" => state' = "FIXED"  BY <1>f, <1>1 DEF StateAfter
<1>3. body' = SubSeq(Stream, b + d + 1, h) /\ body' \in Seq(Byte)
  <2>2. PICK a : a = b + d + 1  OBVIOUS
  <2>3. a \in Nat /\ a >= 1 /\ Here + 1 = a + Len(body)
    <3>1. Here = b + d + Len(body)  BY <1>q
    <3>2. MaxDigits \in Nat  BY ParserAssumption
    <3> QED  BY <2>2, <3>1, <3>2, <1>f
  <2>4. body = SubSeq(Stream, a, Here)  BY <1>q, <2>2
  <2>6. /\ body \o SubSeq(chunk, 1, require) = SubSeq(Stream, a, Here + require)
        /\ body \o SubSeq(chunk, 1, require) \in Seq(Byte)
    BY <1>i, <1>m, <2>3, <2>4, Copied
  <2> QED  BY <1>1, <1>h, <2>2, <2>6
<1>4. /\ h = b + d + LengthAt(Stream, b, d) /\ h \in 0..Len(Stream) /\ b \in 1..Len(Stream)
      /\ b \in 1..h /\ b + d <= h /\ Here <= h /\ h \in Nat /\ h <= Len(Stream)
      /\ b \in 1..(Len(Stream) + 1)
  <2>1. Here = b + d + Len(body) /\ Len(body) + require = n /\ n = LengthAt(Stream, b, d)  BY <1>q
  <2>2. MaxDigits \in Nat  BY ParserAssumption
  <2>3. require <= Len(chunk)  BY <1>1, <1>f
  <2>4. PICK l : l = LengthAt(Stream, b, d)  OBVIOUS
  <2>5. Len(body) + require = l /\ l \in Nat  BY <2>1, <2>4, <1>f
  <2>6. /\ Len(body) \in Nat /\ Len(chunk) \in Nat /\ require \in Nat /\ Here \in Nat
        /\ Here + Len(chunk) = Len(Stream) /\ Len(Stream) \in Nat
    BY <1>f
  <2>7. Here = b + d + Len(body)  BY <2>1
  <2>8. h = b + d + l /\ h <= Len(Stream)  BY <1>h, <2>2, <2>3, <2>5, <2>6, <2>7
  <2>9. b + d <= h /\ h \in Nat /\ Here <= h /\ b <= h  BY <1>h, <2>2, <2>5, <2>6, <2>7, <2>8
  <2> QED  BY <2>4, <2>6, <2>8, <2>9
<1>w. Follows(Stream, h, delivered, b)  BY <1>q, <1>f, <1>4, FollowsLonger
<1>g. flags = Stream[b] /\ flags \in Headers /\ HasDigits(Stream, b, d)  BY <1>q
<1>5. CASE flags \in Malformed
  <2>1. pc' = "failed" /\ chunk' = <<>> /\ delivered' = delivered
    BY <1>1, <1>5 DEF Process, Fail
  <2>2. Stream' = Stream /\ ChunkInv' /\ (Doomed <=> Doomed')
    <3>1. chunk' = SubSeq(chunk, Len(chunk) + 1, Len(chunk)) /\ Len(chunk) \in 0..Len(chunk)
      BY <1>i, <2>1, ConsumeAll
    <3> QED  BY <1>i, <1>f, <2>1, <3>1, Consume
  <2>3. ReadInv'  BY <1>i, <1>f, <2>1 DEF ReadInv
  <2>4. DoomInv'  BY <1>i, <1>f, <2>2 DEF DoomInv
  <2>5. ~Good(Stream, b) /\ (Decode(Stream).next = b => Wrong(Stream))
    <3>1. b + d + LengthAt(Stream, b, d) <= Len(Stream)  BY <1>4, Zenon
    <3>2. Stream[b] \in Malformed  BY <1>5, <1>g
    <3> QED  BY <1>f, <1>4, <1>g, <3>1, <3>2, RefusedIsWrong
  <2>6. IsPrefix(delivered, Decode(Stream).packets) /\ Decode(Stream).next = b
    BY <1>f, <1>4, <1>w, <2>5, FollowsRest
  <2>7. PlaceInv'  BY <1>s, <2>1, <2>2, <2>5, <2>6, PlaceFailed
  <2> QED  BY <2>2, <2>3, <2>4, <2>7 DEF StreamInv
<1>6. CASE flags \notin Malformed
  <2>1. /\ pc' = "handle" /\ chunk' = SubSeq(chunk, require + 1, Len(chunk))
        /\ delivered' = Append(delivered, [flags |-> flags, body |-> body'])
    BY <1>1, <1>6 DEF Process
  <2>2. Stream' = Stream /\ Here' = h /\ ChunkInv' /\ (Doomed <=> Doomed')
    <3>1. pc' \in {"recv", "failed", "closed"} => chunk' = <<>>  BY <2>1
    <3> QED  BY <1>i, <1>f, <1>h, <1>m, <2>1, <3>1, Consume
  <2>3. ReadInv'
    <3>1. mode = "read" => left = <<>> /\ Len(chunk) <= require  BY <1>i, <1>f DEF ReadInv
    <3>2. mode = "read" => Len(chunk) < require + 1  BY <3>1, <1>f
    <3>3. require + 1 \in Int /\ Len(chunk) \in Int  BY <1>f
    <3>4. mode = "read" => chunk' = <<>>  BY <2>1, <3>2, <3>3, SubSeqEmpty
    <3> QED  BY <1>f, <2>1, <3>1, <3>4 DEF ReadInv
  <2>4. DoomInv'  BY <1>i, <1>f, <2>2 DEF DoomInv
  <2>5. Follows(Stream, h, delivered', h + 1)
    <3>1. Stream[b] \in Headers \ Malformed  BY <1>g, <1>6
    <3>2. delivered' = Append(delivered, [flags |-> Stream[b], body |-> SubSeq(Stream, b + d + 1, h)])
      BY <1>g, <1>3, <2>1
    <3> QED  BY <1>f, <1>4, <1>w, <1>g, <3>1, <3>2, FollowsPacket
  <2>6. delivered' \in Seq(Packets)
    <3>1. [flags |-> flags, body |-> body'] \in Packets  BY <1>g, <1>3, <1>6 DEF Packets
    <3> QED  BY <1>f, <2>1, <3>1, AppendProperties
  <2>7. PlaceInv'  BY <1>f, <1>4, <1>s, <2>1, <2>2, <2>5, <2>6, PlaceHandle
  <2> QED  BY <2>2, <2>3, <2>4, <2>7 DEF StreamInv
<1> QED  BY <1>5, <1>6

(* Only what has been received counts for the place of the parser.         *)
LEMMA SamePlace ==
  ASSUME NEW s \in Seq(Byte), NEW u \in Seq(Byte), NEW h \in 0..Len(s), NEW b \in 1..(h + 1),
         Len(u) >= h, \A i \in 1..h : u[i] = s[i], InPacket(s, h, b)
  PROVE  InPacket(u, h, b)
<1>n. MaxDigits \in Nat /\ Len(s) \in Nat /\ Len(u) \in Nat /\ h \in Nat  BY ParserAssumption
<1>1. ASSUME InLength(s, h, b) PROVE InLength(u, h, b)
  <2>1. /\ b <= h /\ flags = s[b] /\ flags \in Headers /\ h - b <= MaxDigits
        /\ \A e \in 1..(h - b) : Continues(s[b + e])
        /\ multiplier = Power[h - b] /\ n = LengthAt(s, b, h - b)
    BY <1>1 DEF InLength
  <2>2. b \in 1..h /\ b \in 1..Len(s) /\ b \in 1..Len(u) /\ h - b \in 0..MaxDigits
        /\ b + (h - b) = h
    BY <2>1, <1>n
  <2>3. \A e \in 1..(h - b) : b + e \in 1..h  BY <2>2, <1>n
  <2>4. \A e \in 1..(h - b) : s[b + e] = u[b + e]  BY <2>3
  <2>5. h - b \in Places(s, b) /\ h - b \in Places(u, b)  BY <2>2, <1>n DEF Places
  <2>6. LengthAt(u, b, h - b) = LengthAt(s, b, h - b)  BY <2>2, <2>4, <2>5, LengthAgrees
  <2>7. u[b] = s[b]  BY <2>2
  <2> QED  BY <2>1, <2>4, <2>6, <2>7 DEF InLength
<1>2. ASSUME InBody(s, h, b) PROVE InBody(u, h, b)
  <2>1. PICK d \in 1..MaxDigits :
          /\ b <= h /\ flags = s[b] /\ flags \in Headers
          /\ HasDigits(s, b, d) /\ n = LengthAt(s, b, d)
          /\ h = b + d + Len(body) /\ body = SubSeq(s, b + d + 1, h)
          /\ require > 0 /\ Len(body) + require = n
    BY <1>2 DEF InBody
  <2>2. b + d <= h
    <3>1. Len(body) \in Nat
      <4>1. body = SubSeq(s, b + d + 1, h)  BY <2>1
      <4>2. b + d + 1 \in 1..(Len(s) + 1) \/ b + d + 1 > h  BY <1>n
      <4>3. \A i \in (b + d + 1)..h : s[i] \in Byte
        <5>1. \A i \in (b + d + 1)..h : i \in 1..Len(s)  BY <1>n
        <5> QED  BY <5>1
      <4>4. b + d + 1 \in Int /\ h \in Int  BY <1>n
      <4>5. SubSeq(s, b + d + 1, h) \in Seq(Byte)  BY <4>3, <4>4, SubSeqProperties
      <4> QED  BY <4>1, <4>5
    <3>2. h = b + d + Len(body)  BY <2>1
    <3> QED  BY <3>1, <3>2, <1>n
  <2>3. b \in 1..h /\ b \in 1..Len(s) /\ b \in 1..Len(u)
        /\ d \in Places(s, b) /\ d \in Places(u, b)
    BY <2>2, <1>n DEF Places
  <2>4. \A e \in 1..d : s[b + e] = u[b + e]
    <3>1. \A e \in 1..d : b + e \in 1..h  BY <2>2, <1>n
    <3> QED  BY <3>1
  <2>5. LengthAt(u, b, d) = LengthAt(s, b, d)  BY <2>3, <2>4, LengthAgrees
  <2>6. HasDigits(u, b, d)
    <3>1. u[b + d] = s[b + d] /\ \A e \in 1..(d - 1) : u[b + e] = s[b + e]
      <4>1. d \in 1..d /\ \A e \in 1..(d - 1) : e \in 1..d  BY <1>n
      <4> QED  BY <2>4, <4>1
    <3>2. b + d <= Len(u)  BY <2>2, <1>n
    <3> QED  BY <2>1, <3>1, <3>2 DEF HasDigits
  <2>7. SubSeq(u, b + d + 1, h) = SubSeq(s, b + d + 1, h)
    <3> DEFINE v == SubSeq(u, b + d + 1, h)
               w == SubSeq(s, b + d + 1, h)
    <3>1. \A i \in (b + d + 1)..h : u[i] = s[i] /\ s[i] \in Byte
      <4>1. \A i \in (b + d + 1)..h : i \in 1..h /\ i \in 1..Len(s)  BY <1>n
      <4> QED  BY <4>1
    <3>2. b + d + 1 \in Int /\ h \in Int  BY <1>n
    <3>3. /\ v \in Seq(Byte) /\ w \in Seq(Byte) /\ Len(v) = Len(w)
          /\ Len(v) = IF b + d + 1 <= h THEN h - (b + d + 1) + 1 ELSE 0
          /\ \A i \in 1..(h - (b + d + 1) + 1) : v[i] = u[b + d + 1 + i - 1]
          /\ \A i \in 1..(h - (b + d + 1) + 1) : w[i] = s[b + d + 1 + i - 1]
      BY <3>1, <3>2, SubSeqProperties
    <3>4. ASSUME NEW i \in 1..Len(v) PROVE v[i] = w[i]
      <4>1. i \in 1..(h - (b + d + 1) + 1)  BY <3>3, <1>n
      <4>2. b + d + 1 + i - 1 \in (b + d + 1)..h  BY <4>1, <1>n
      <4> QED  BY <3>3, <4>1, <4>2, <3>1
    <3> HIDE DEF v, w
    <3>5. v = w  BY <3>3, <3>4, SeqEqual
    <3> QED  BY <3>5 DEF v, w
  <2>8. u[b] = s[b]  BY <2>3
  <2> QED  BY <2>1, <2>5, <2>6, <2>7, <2>8 DEF InBody
<1> QED  BY <1>1, <1>2 DEF InPacket

(* More bytes have arrived.                                                *)
LEMMA Grow ==
  ASSUME TypeOK, ChunkInv, chunk = <<>>, NEW c \in Seq(Byte),
         received' = received \o c, left' = left
  PROVE  /\ Stream' \in Seq(Byte) /\ Len(Stream') = Len(Stream) + Len(c)
         /\ \A i \in 1..Len(Stream) : Stream'[i] = Stream[i]
         /\ \A i \in 1..Len(c) : Stream'[Len(Stream) + i] = c[i]
         /\ Here = Len(Stream) /\ Len(Stream) \in Nat /\ Len(c) \in Nat
<1>1. left \in Seq(Byte) /\ received \in Seq(Byte)  BY DEF TypeOK, ChunkInv
<1>2. Stream' = Stream \o c
  <2>1. Stream' = left \o (received \o c)  BY DEF Stream
  <2> QED  BY <1>1, <2>1, ConcatAssociative DEF Stream
<1>3. Stream \in Seq(Byte) /\ Len(Stream) \in Nat  BY StreamType
<1>4. /\ Stream \o c \in Seq(Byte) /\ Len(Stream \o c) = Len(Stream) + Len(c)
      /\ \A i \in 1..Len(Stream) : (Stream \o c)[i] = Stream[i]
      /\ \A i \in 1..Len(c) : (Stream \o c)[Len(Stream) + i] = c[i]
  <2>1. /\ Stream \o c \in Seq(Byte) /\ Len(Stream \o c) = Len(Stream) + Len(c)
        /\ \A i \in 1..Len(Stream) + Len(c) :
             (Stream \o c)[i] = IF i <= Len(Stream) THEN Stream[i] ELSE c[i - Len(Stream)]
    BY <1>3, ConcatProperties
  <2>2. Len(c) \in Nat  OBVIOUS
  <2>3. ASSUME NEW i \in 1..Len(Stream) PROVE (Stream \o c)[i] = Stream[i]
    <3>1. i \in 1..Len(Stream) + Len(c) /\ i <= Len(Stream)  BY <1>3, <2>2
    <3> QED  BY <2>1, <3>1
  <2>4. ASSUME NEW i \in 1..Len(c) PROVE (Stream \o c)[Len(Stream) + i] = c[i]
    <3>1. Len(Stream) + i \in 1..Len(Stream) + Len(c) /\ ~(Len(Stream) + i <= Len(Stream))
          /\ (Len(Stream) + i) - Len(Stream) = i
      BY <1>3, <2>2
    <3> QED  BY <2>1, <3>1
  <2> QED  BY <2>1, <2>3, <2>4
<1>5. Here = Len(Stream)
  <2>1. Len(chunk) = 0  BY EmptySeq
  <2> QED  BY <1>3, <2>1 DEF Here
<1> QED  BY <1>2, <1>3, <1>4, <1>5

(* A stream begins anew.                                                   *)
LEMMA Fresh ==
  ASSUME NEW l \in Seq(Byte), left' = l, received' = <<>>, chunk' = <<>>
  PROVE  Stream' = l /\ Here' = Len(l) /\ ChunkInv' /\ Len(l) \in Nat
<1>1. l \o <<>> = l  BY ConcatEmptySeq
<1>2. Stream' = l  BY <1>1 DEF Stream
<1>3. Len(chunk') = 0 /\ Len(l) \in Nat  BY EmptySeq
<1>4. Here' = Len(l)  BY <1>2, <1>3 DEF Here
<1> QED  BY <1>2, <1>3, <1>4 DEF ChunkInv

(* The steps that leave the stream and the parser alone.                   *)
LEMMA SameStream ==
  ASSUME UNCHANGED <<left, received, chunk>>
  PROVE  /\ Stream' = Stream /\ Here' = Here /\ (Doomed <=> Doomed')
         /\ (ChunkInv /\ (pc' \in {"recv", "failed", "closed"} => chunk = <<>>) => ChunkInv')
BY DEF Stream, Here, Doomed, ChunkInv

LEMMA HandleStream ==
  ASSUME PInv, StreamInv, Handle
  PROVE  StreamInv'
<1>i. TypeOK /\ ChunkInv /\ ReadInv /\ DoomInv /\ PlaceInv
  BY DEF PInv, StreamInv
<1>t. /\ Stream \in Seq(Byte) /\ Here \in 0..Len(Stream) /\ Len(Stream) \in Nat
  BY <1>i, StreamType
<1>f. /\ pc = "handle" /\ mode = "parse" /\ mode' = mode /\ state' = state /\ left' = left
      /\ received' = received /\ delivered' = delivered /\ delivered \in Seq(Packets)
  BY <1>i DEF Handle, parser, TypeOK, Packets
<1>p. /\ Follows(Stream, Here, delivered, Here + 1) /\ state = "FIXED"
      /\ IsPrefix(delivered, Decode(Stream).packets) /\ ~Doomed
  BY <1>i, <1>f DEF PlaceInv, DoomInv
<1>3. ReadInv'  BY <1>f DEF ReadInv
<1>1. CASE pc' = "parse" /\ chunk' = chunk
  <2>1. Stream' = Stream /\ Here' = Here /\ (Doomed <=> Doomed') /\ ChunkInv'
    BY <1>1, <1>i, <1>f, SameStream
  <2>2. DoomInv'  BY <1>p, <1>i, <1>f, <2>1 DEF DoomInv
  <2>3. InPacket(Stream, Here, Here + 1)'  BY <1>p, <1>f DEF InPacket
  <2>4. Here + 1 \in 1..(Here + 1) /\ Here' + 1 = Here + 1  BY <1>t, <2>1
  <2>5. PICK b : b = Here + 1  OBVIOUS
  <2>6. InPacket(Stream, Here, b)'  BY <1>p, <1>f, <2>1, <2>5 DEF InPacket
  <2>7. PlaceInv'  BY <1>1, <1>f, <1>p, <1>t, <2>1, <2>4, <2>5, <2>6, PlaceParse
  <2> QED  BY <1>3, <2>1, <2>2, <2>7 DEF StreamInv
<1>2. CASE pc' = "closed" /\ chunk' = <<>>
  <2>1. Stream' = Stream /\ ChunkInv' /\ (Doomed <=> Doomed')
    <3>1. chunk' = SubSeq(chunk, Len(chunk) + 1, Len(chunk)) /\ Len(chunk) \in 0..Len(chunk)
      BY <1>i, <1>2, ConsumeAll
    <3> QED  BY <1>i, <1>f, <1>2, <3>1, Consume
  <2>2. DoomInv'  BY <1>p, <1>i, <1>f, <2>1 DEF DoomInv
  <2>3. ~Partial'  BY <1>2, <1>f, <1>p DEF Partial
  <2>4. PlaceInv'  BY <1>2, <1>f, <1>p, <2>1, <2>3, PlaceClosed
  <2> QED  BY <1>3, <2>1, <2>2, <2>4 DEF StreamInv
<1> QED  BY <1>1, <1>2 DEF Handle

LEMMA ReadNextStream ==
  ASSUME PInv, StreamInv, ReadNext
  PROVE  StreamInv'
<1>i. TypeOK /\ ChunkInv /\ ReadInv /\ DoomInv /\ PlaceInv
  BY DEF PInv, StreamInv
<1>t. /\ Stream \in Seq(Byte) /\ Here \in 0..Len(Stream) /\ Len(Stream) \in Nat
  BY <1>i, StreamType
<1>f. /\ pc = "handle" /\ mode = "read" /\ state' = "FIXED" /\ require' = 1 /\ pc' = "recv"
      /\ mode' = mode /\ chunk' = chunk /\ left' = left
      /\ received' = received /\ delivered' = delivered /\ delivered \in Seq(Packets)
  BY <1>i DEF ReadNext, TypeOK, Packets
<1>p. /\ Follows(Stream, Here, delivered, Here + 1) /\ ~Doomed /\ chunk = <<>> /\ left = <<>>
  BY <1>i, <1>f DEF PlaceInv, DoomInv, ReadInv
<1>1. Stream' = Stream /\ Here' = Here /\ (Doomed <=> Doomed') /\ ChunkInv'
  BY <1>i, <1>f, <1>p, SameStream
<1>2. DoomInv'  BY <1>p, <1>i, <1>f, <1>1 DEF DoomInv
<1>3. ReadInv'
  <2>1. Len(chunk') = 0  BY <1>f, <1>p, EmptySeq
  <2>2. 0 <= 1 /\ 1 > 0  OBVIOUS
  <2> QED  BY <1>f, <1>p, <2>1, <2>2 DEF ReadInv
<1>4. PlaceInv'
  <2>1. PICK b : b = Here + 1  OBVIOUS
  <2>2. b \in 1..(Here + 1)  BY <1>t, <2>1
  <2>3. InPacket(Stream, Here, b)'  BY <1>f, <1>1, <2>1 DEF InPacket
  <2> QED  BY <1>f, <1>p, <1>t, <1>1, <2>1, <2>2, <2>3, PlaceParse
<1> QED  BY <1>1, <1>2, <1>3, <1>4 DEF StreamInv

LEMMA WaitStream ==
  ASSUME PInv, StreamInv, ChunkEnd \/ End \/ UNCHANGED vars
  PROVE  StreamInv'
<1>i. TypeOK /\ ChunkInv /\ ReadInv /\ DoomInv /\ PlaceInv
  BY DEF PInv, StreamInv
<1>f. /\ mode' = mode /\ state' = state /\ flags' = flags /\ n' = n /\ body' = body
      /\ multiplier' = multiplier /\ require' = require /\ left' = left /\ chunk' = chunk
      /\ received' = received /\ delivered' = delivered
  BY DEF ChunkEnd, End, vars, parser
<1>c. \/ pc = "parse" /\ chunk = <<>> /\ pc' = "recv"
      \/ pc = "recv" /\ pc' = "closed"
      \/ pc' = pc
  BY DEF ChunkEnd, End, vars
<1>1. Stream' = Stream /\ Here' = Here /\ (Doomed <=> Doomed') /\ ChunkInv'
  <2>1. pc' \in {"recv", "failed", "closed"} => chunk = <<>>  BY <1>i, <1>c DEF ChunkInv
  <2> QED  BY <1>i, <1>f, <2>1, SameStream
<1>2. DoomInv'  BY <1>i, <1>f, <1>c, <1>1 DEF DoomInv
<1>3. ReadInv'  BY <1>i, <1>f, <1>c DEF ReadInv
<1>4. PlaceInv'
  <2>1. Partial' => Partial  BY <1>c, <1>f DEF Partial
  <2>2. \A b : InPacket(Stream, Here, b) => InPacket(Stream, Here, b)'
    BY <1>f, <1>1 DEF InPacket, InLength, InBody, HasDigits
  <2>3. /\ IsPrefix(delivered', Decode(Stream').packets)
        /\ pc' = "failed" => Wrong(Stream')
    BY <1>i, <1>f, <1>c, <1>1 DEF PlaceInv
  <2>4. Partial' /\ ~Doomed' =>
          \E b \in 1..(Here' + 1) : Follows(Stream', Here', delivered', b) /\ InPacket(Stream, Here, b)'
    <3>1. Partial /\ ~Doomed =>
            \E b \in 1..(Here + 1) : Follows(Stream, Here, delivered, b) /\ InPacket(Stream, Here, b)
      BY <1>i DEF PlaceInv
    <3> QED  BY <1>f, <1>1, <2>1, <2>2, <3>1
  <2>5. pc' = "handle" =>
          Follows(Stream', Here', delivered', Here' + 1) /\ (mode' = "parse" => state' = "FIXED")
    BY <1>i, <1>f, <1>c, <1>1 DEF PlaceInv
  <2>6. pc' = "failed" /\ mode' = "parse" /\ state' # "FIXED" /\ ~Doomed' =>
          /\ state' = "LENGTH" /\ multiplier' = Power[MaxDigits]
          /\ \E b \in 1..Len(Stream') : TooLongAt(Stream', b) /\ Decode(Stream').next = b
    BY <1>i, <1>f, <1>c, <1>1 DEF PlaceInv
  <2>7. (Partial /\ ~Doomed =>
          \E b \in 1..(Here + 1) : Follows(Stream, Here, delivered, b) /\ InPacket(Stream, Here, b))'
    BY <2>4 DEF Follows
  <2>8. (pc = "handle" =>
          Follows(Stream, Here, delivered, Here + 1) /\ (mode = "parse" => state = "FIXED"))'
    BY <2>5 DEF Follows
  <2> QED  BY <2>3, <2>6, <2>7, <2>8 DEF PlaceInv
<1> QED  BY <1>1, <1>2, <1>3, <1>4 DEF StreamInv

(* Bytes arrive that are not parsed yet.                                   *)
LEMMA Arrive ==
  ASSUME PInv, StreamInv, pc = "recv", pc' = "parse", NEW c \in Seq(Byte), chunk' = c,
         received' = received \o c, UNCHANGED <<mode, parser, delivered, left>>,
         mode = "read" => Len(c) <= require
  PROVE  StreamInv'
<1>i. TypeOK /\ ChunkInv /\ ReadInv /\ DoomInv /\ PlaceInv
  BY DEF PInv, StreamInv
<1>t. Stream \in Seq(Byte) /\ Len(Stream) \in Nat  BY <1>i, StreamType
<1>f. /\ mode' = mode /\ state' = state /\ flags' = flags /\ n' = n /\ body' = body
      /\ multiplier' = multiplier /\ require' = require /\ left' = left
      /\ delivered' = delivered /\ chunk = <<>> /\ delivered \in Seq(Packets)
  BY <1>i DEF parser, ChunkInv, TypeOK, Packets
<1>1. /\ Stream' \in Seq(Byte) /\ Len(Stream') = Len(Stream) + Len(c)
      /\ \A i \in 1..Len(Stream) : Stream'[i] = Stream[i]
      /\ \A i \in 1..Len(c) : Stream'[Len(Stream) + i] = c[i]
      /\ Here = Len(Stream) /\ Len(Stream) \in Nat /\ Len(c) \in Nat
  BY <1>i, <1>f, Grow
<1>2. Here' = Here /\ Here \in Nat /\ Len(c) <= Len(Stream')
      /\ Here \in 0..Len(Stream) /\ Here \in 0..Len(Stream') /\ Len(Stream') >= Here
  <2>1. Here' = Len(Stream') - Len(c)  BY DEF Here
  <2> QED  BY <1>1, <2>1
<1>3. ChunkInv'
  <2>1. left' \in Seq(Byte)  BY <1>i, <1>f DEF ChunkInv
  <2>2. \A i \in 1..Len(chunk') : Stream'[Here' + i] = chunk'[i]  BY <1>1, <1>2
  <2> QED  BY <1>2, <2>1, <2>2 DEF ChunkInv
<1>4. ReadInv'  BY <1>i, <1>f DEF ReadInv
<1>d. Doomed <=> Doomed'  BY <1>f DEF Doomed
<1>5. DoomInv'  BY <1>i, <1>f, <1>d DEF DoomInv
<1>6. PlaceInv'
  <2>1. CASE Doomed
    <3>1. IsPrefix(<<>>, Decode(Stream').packets) /\ delivered = <<>>
      <4>1. left \in Seq(Byte) /\ received' \in Seq(Byte)
        <5>1. left \in Seq(Byte) /\ received \in Seq(Byte)  BY <1>i DEF ChunkInv, TypeOK
        <5> QED  BY <5>1, ConcatProperties
      <4>2. Stream' = left \o received'  BY <1>f DEF Stream
      <4>3. delivered = <<>>  BY <1>i, <2>1 DEF DoomInv
      <4> QED  BY <2>1, <4>1, <4>2, <4>3, DoomedIsWrong DEF Doomed
    <3>2. IsPrefix(delivered, Decode(Stream).packets)'  BY <3>1, <1>f
    <3> QED  BY <1>d, <2>1, <3>2 DEF PlaceInv
  <2>2. CASE ~Doomed
    <3>1. PICK b \in 1..(Here + 1) : Follows(Stream, Here, delivered, b) /\ InPacket(Stream, Here, b)
      <4>1. Partial  BY DEF Partial
      <4> QED  BY <1>i, <2>2, <4>1 DEF PlaceInv
    <3>2. PICK s : s = Stream'  OBVIOUS
    <3>3. s \in Seq(Byte) /\ Len(s) >= Here /\ Here \in 0..Len(s)
          /\ \A i \in 1..Here : s[i] = Stream[i]
      BY <1>1, <1>2, <3>2
    <3>4. InPacket(s, Here, b)  BY <1>t, <1>2, <3>1, <3>3, SamePlace
    <3>5. PICK h : h = Here  OBVIOUS
    <3>6. InPacket(Stream, Here, b)'
      <4>1. Stream' = s /\ Here' = h /\ InPacket(s, h, b)  BY <1>2, <3>2, <3>4, <3>5
      <4> QED  BY <1>f, <4>1 DEF InPacket, InLength, InBody, HasDigits
    <3>7. Follows(s, Here, delivered, b)
      <4>1. Here <= Here  BY <1>2
      <4> QED  BY <1>2, <3>1, <3>3, <4>1, FollowsLonger
    <3> QED  BY <1>f, <1>2, <3>2, <3>3, <3>6, <3>7, PlaceParse
  <2> QED  BY <2>1, <2>2
<1> QED  BY <1>3, <1>4, <1>5, <1>6 DEF StreamInv

LEMMA ArriveShort ==
  ASSUME PInv, StreamInv, FetchShort
  PROVE  StreamInv'
<1>i. TypeOK /\ ChunkInv /\ ReadInv /\ DoomInv /\ PlaceInv
  BY DEF PInv, StreamInv
<1>t. Stream \in Seq(Byte) /\ Len(Stream) \in Nat  BY <1>i, StreamType
<1>f. /\ pc = "recv" /\ mode = "read" /\ pc' = "closed" /\ chunk' = chunk /\ mode' = mode
      /\ left' = left /\ delivered' = delivered /\ chunk = <<>> /\ delivered \in Seq(Packets)
      /\ left = <<>> /\ ~Doomed
  BY <1>i DEF FetchShort, ChunkInv, TypeOK, Packets, ReadInv, DoomInv
<1>c. PICK c \in Seq(Byte) : received' = received \o c
  <2>1. PICK m \in 1..(require - 1) : \E c \in [1..m -> Alphabet] : received' = received \o c
    BY DEF FetchShort
  <2>2. PICK c \in [1..m -> Alphabet] : received' = received \o c  BY <2>1
  <2>3. m \in Nat
    <3>1. require \in Nat  BY <1>i DEF TypeOK
    <3> QED  BY <3>1
  <2>4. c \in Seq(Byte)  BY <2>3, Fragment
  <2> QED  BY <2>2, <2>4
<1>1. /\ Stream' \in Seq(Byte) /\ Len(Stream') = Len(Stream) + Len(c)
      /\ \A i \in 1..Len(Stream) : Stream'[i] = Stream[i]
      /\ Here = Len(Stream) /\ Len(Stream) \in Nat /\ Len(c) \in Nat
  BY <1>i, <1>f, <1>c, Grow
<1>3. ChunkInv'
  <2>1. left' \in Seq(Byte) /\ chunk' = <<>> /\ Len(chunk') = 0
    BY <1>i, <1>f, EmptySeq DEF ChunkInv
  <2> QED  BY <1>1, <2>1 DEF ChunkInv
<1>4. ReadInv'  BY <1>f DEF ReadInv
<1>5. DoomInv'
  <2>1. Doomed <=> Doomed'  BY <1>f DEF Doomed
  <2> QED  BY <1>i, <1>f, <2>1 DEF DoomInv
<1>6. PlaceInv'
  <2>1. PICK b \in 1..(Here + 1) : Follows(Stream, Here, delivered, b) /\ InPacket(Stream, Here, b)
    <3>1. Partial  BY <1>f DEF Partial
    <3> QED  BY <1>i, <1>f, <3>1 DEF PlaceInv
  <2>2. PICK s : s = Stream'  OBVIOUS
  <2>3. s \in Seq(Byte) /\ Here \in 0..Len(s) /\ b \in 1..(Len(s) + 1) /\ Here \in Nat
        /\ \A i \in 1..Here : s[i] = Stream[i]
    BY <1>1, <2>2
  <2>4. Follows(s, Here, delivered, b)
    <3>1. Here <= Here  BY <2>3
    <3> QED  BY <2>1, <2>3, <3>1, FollowsLonger
  <2>5. IsPrefix(delivered, Decode(s).packets)  BY <1>f, <2>3, <2>4, FollowsRest
  <2>6. ~Partial'  BY <1>f DEF Partial
  <2> QED  BY <1>f, <2>2, <2>5, <2>6, PlaceClosed
<1> QED  BY <1>3, <1>4, <1>5, <1>6 DEF StreamInv

LEMMA ArriveStream ==
  ASSUME PInv, StreamInv, Recv \/ Fetch
  PROVE  StreamInv'
<1>1. CASE Recv
  <2>1. PICK c \in Chunks : chunk' = c /\ received' = received \o c  BY <1>1 DEF Recv
  <2>2. c \in Seq(Byte)  BY Fragment, ParserAssumption DEF Chunks
  <2>3. mode = "parse" /\ pc = "recv" /\ pc' = "parse" /\ UNCHANGED <<mode, parser, delivered, left>>
    BY <1>1 DEF Recv
  <2> QED  BY <2>1, <2>2, <2>3, Arrive
<1>2. CASE Fetch
  <2>1. PICK c \in [1..require -> Alphabet] : chunk' = c /\ received' = received \o c
    BY <1>2 DEF Fetch
  <2>2. require \in Nat  BY DEF PInv, TypeOK
  <2>3. c \in Seq(Byte) /\ Len(c) = require  BY <2>2, Fragment
  <2>4. pc = "recv" /\ pc' = "parse" /\ UNCHANGED <<mode, parser, delivered, left>>
    BY <1>2 DEF Fetch
  <2>5. Len(c) <= require  BY <2>2, <2>3
  <2> QED  BY <2>1, <2>3, <2>4, <2>5, Arrive
<1> QED  BY <1>1, <1>2

(* A connection begins between two packets.                                *)
LEMMA Begin ==
  ASSUME left' = <<>>, received' = <<>>, chunk' = <<>>, delivered' = <<>>, state' = "FIXED",
         pc' = "recv", require' \in Nat, mode' = "read" => require' = 1
  PROVE  StreamInv'
<1>e. <<>> \in Seq(Byte) /\ <<>> \in Seq(Packets) /\ Len(<<>>) = 0  BY EmptySeq
<1>1. Stream' = <<>> /\ Here' = 0 /\ ChunkInv'
  <2>1. Stream' = <<>> /\ Here' = Len(<<>>) /\ ChunkInv'  BY <1>e, Fresh
  <2> QED  BY <1>e, <2>1
<1>2. ReadInv'
  <2>1. Len(chunk') = 0  BY <1>e
  <2>2. 0 <= 1 /\ 1 > 0  OBVIOUS
  <2> QED  BY <2>1, <2>2 DEF ReadInv
<1>3. DoomInv'
  <2>1. ~Doomed'  BY <1>e DEF Doomed
  <2>2. ~Wrong(<<>>)
    <3>1. 1 \in 1..(Len(<<>>) + 1)  BY <1>e
    <3>2. DecodeFrom(<<>>, 1).next \in 1..(Len(<<>>) + 1)  BY <1>e, <3>1, DecodeType
    <3>3. Decode(<<>>).next \in 1..1
      <4>1. Len(<<>>) + 1 = 1  BY <1>e
      <4> QED  BY <3>2, <4>1 DEF Decode
    <3>4. ~(Decode(<<>>).next <= Len(<<>>))  BY <1>e, <3>3
    <3> QED  BY <3>4 DEF Wrong
  <2> QED  BY <2>1, <2>2 DEF DoomInv
<1>4. PlaceInv'
  <2>1. Follows(<<>>, 0, <<>>, 1)  BY FollowsNothing
  <2>2. InPacket(Stream, Here, 1)'  BY <1>1 DEF InPacket
  <2>3. 0 \in 0..Len(<<>>) /\ 1 \in 1..(0 + 1)  BY <1>e
  <2> QED  BY <1>e, <1>1, <2>1, <2>2, <2>3, PlaceParse
<1> QED  BY <1>1, <1>2, <1>3, <1>4 DEF StreamInv

LEMMA InitStream == Init => StreamInv
<1> SUFFICES ASSUME Init PROVE StreamInv  OBVIOUS
<1>e. <<>> \in Seq(Byte) /\ <<>> \in Seq(Packets) /\ Len(<<>>) = 0  BY EmptySeq
<1>f. /\ left = <<>> /\ received = <<>> /\ chunk = <<>> /\ delivered = <<>>
      /\ state = "FIXED" /\ pc = "recv" /\ (mode = "read" => require = 1)
  BY DEF Init, AtFirst
<1>1. Stream = <<>> /\ Here = 0
  <2>1. <<>> \o <<>> = <<>>  BY <1>e, ConcatEmptySeq
  <2>2. Stream = <<>>  BY <1>f, <2>1 DEF Stream
  <2> QED  BY <1>e, <1>f, <2>2 DEF Here
<1>2. ChunkInv  BY <1>e, <1>f, <1>1 DEF ChunkInv
<1>3. ReadInv
  <2>1. 0 <= 1 /\ 1 > 0  OBVIOUS
  <2> QED  BY <1>e, <1>f, <2>1 DEF ReadInv
<1>4. DoomInv
  <2>1. ~Doomed  BY <1>e, <1>f DEF Doomed
  <2>2. 1 \in 1..(Len(<<>>) + 1) /\ Len(<<>>) + 1 = 1  BY <1>e
  <2>3. Decode(<<>>).next \in 1..1  BY <1>e, <2>2, DecodeType DEF Decode
  <2>4. ~(Decode(<<>>).next <= Len(<<>>))  BY <1>e, <2>3
  <2> QED  BY <1>f, <2>1, <2>4 DEF DoomInv, Wrong
<1>5. PlaceInv
  <2>1. Follows(<<>>, 0, <<>>, 1)  BY FollowsNothing
  <2>2. InPacket(<<>>, 0, 1)  BY <1>f DEF InPacket
  <2>3. 0 \in 0..Len(<<>>) /\ 1 \in 1..(0 + 1) /\ 1 \in 1..(Len(<<>>) + 1)  BY <1>e
  <2>4. IsPrefix(<<>>, Decode(<<>>).packets)  BY <1>e, <2>1, <2>3, FollowsRest
  <2> QED  BY <1>f, <1>1, <2>1, <2>2, <2>3, <2>4 DEF PlaceInv
<1> QED  BY <1>2, <1>3, <1>4, <1>5 DEF StreamInv

(* A connection begins in the middle of a packet, or after an error in its *)
(* length.                                                                 *)
LEMMA BeginDoomed ==
  ASSUME NEW l \in Seq(Byte), Len(l) > 0, TooLongAt(l, 1), left' = l, received' = <<>>,
         chunk' = <<>>, delivered' = <<>>, pc' = "recv", mode' = "parse",
         state' = "LENGTH", multiplier' = Power[MaxDigits]
  PROVE  StreamInv'
<1>1. Stream' = l /\ ChunkInv'  BY Fresh
<1>2. ReadInv'  BY DEF ReadInv
<1>3. Doomed'  BY DEF Doomed
<1>4. DoomInv'  BY <1>3 DEF DoomInv
<1>5. PlaceInv'
  <2>1. <<>> \in Seq(Byte) /\ l \o <<>> = l  BY EmptySeq, ConcatEmptySeq
  <2>2. IsPrefix(<<>>, Decode(l \o <<>>).packets)  BY <2>1, DoomedIsWrong
  <2>3. IsPrefix(delivered, Decode(Stream).packets)'  BY <1>1, <2>1, <2>2
  <2> QED  BY <1>3, <2>3 DEF PlaceInv
<1> QED  BY <1>1, <1>2, <1>4, <1>5 DEF StreamInv

LEMMA BeginPartial ==
  ASSUME TypeOK, NEW l \in Seq(Byte), Len(l) > 0, InPacket(l, Len(l), 1),
         UNCHANGED <<state, flags, n, multiplier, require, body>>,
         left' = l, received' = <<>>, chunk' = <<>>, delivered' = <<>>, pc' = "recv", mode' = "parse"
  PROVE  StreamInv'
<1>n. Len(l) \in Nat /\ 1 \in 1..Len(l) /\ 1 \in 1..(Len(l) + 1) /\ Len(l) \in 0..Len(l)
  OBVIOUS
<1>e. <<>> \in Seq(Packets)  BY EmptySeq
<1>1. Stream' = l /\ Here' = Len(l) /\ ChunkInv'  BY Fresh
<1>2. ReadInv'  BY DEF ReadInv
<1>3. ~Good(l, 1) /\ (Decode(l).next = 1 => ~Wrong(l))  BY <1>n, Waiting
<1>4. Follows(l, Len(l), <<>>, 1)  BY FollowsNothing
<1>5. Decode(l).next = 1  BY <1>n, <1>e, <1>3, <1>4, FollowsRest
<1>6. ~TooLongAt(l, 1)  BY <1>n, <1>3, <1>5, TooLongIsWrong
<1>7. DoomInv'  BY <1>3, <1>5, <1>6 DEF DoomInv, Doomed
<1>8. PlaceInv'
  <2>1. PICK h : h = Len(l)  OBVIOUS
  <2>2. InPacket(l, h, 1)  BY <2>1
  <2>3. Here' = h /\ Stream' = l  BY <1>1, <2>1
  <2>4. InPacket(Stream, Here, 1)'  BY <2>2, <2>3 DEF InPacket, InLength, InBody, HasDigits
  <2> QED  BY <1>n, <1>e, <1>1, <1>4, <2>4, PlaceParse
<1> QED  BY <1>1, <1>2, <1>7, <1>8 DEF StreamInv

LEMMA ReconnectStream ==
  ASSUME PInv, StreamInv, Reconnect
  PROVE  StreamInv'
<1>i. TypeOK /\ ChunkInv /\ ReadInv /\ DoomInv /\ PlaceInv
  BY DEF PInv, StreamInv
<1>t. Stream \in Seq(Byte) /\ Len(Stream) \in Nat /\ left \in Seq(Byte) /\ received \in Seq(Byte)
  BY <1>i, StreamType DEF ChunkInv, TypeOK
<1>f. /\ pc \in {"failed", "closed"} /\ pc' = "recv" /\ received' = <<>> /\ delivered' = <<>>
      /\ mode' = mode /\ flags' = flags /\ n' = n /\ multiplier' = multiplier /\ body' = body
      /\ chunk' = <<>> /\ delivered \in Seq(Packets) /\ chunk = <<>>
  BY <1>i DEF Reconnect, ChunkInv, TypeOK, Packets
<1>1. CASE mode = "read"
  <2>1. left' = <<>> /\ state' = "FIXED" /\ require' = 1
    BY <1>1, <1>i DEF Reconnect, ReadInv
  <2> QED  BY <1>1, <1>f, <2>1, Begin
<1>2. CASE mode # "read" /\ state = "FIXED"
  <2>1. left' = <<>> /\ state' = "FIXED" /\ require' = require  BY <1>2 DEF Reconnect
  <2>2. require \in Nat  BY <1>i DEF TypeOK
  <2> QED  BY <1>2, <1>f, <2>1, <2>2, Begin
<1>3. CASE mode # "read" /\ state # "FIXED"
  <2>m. mode = "parse"  BY <1>3, <1>i, ParserAssumption DEF TypeOK
  <2>r. state' = state /\ require' = require  BY <1>3 DEF Reconnect
  <2>1. CASE Doomed
    <3>1. Wrong(left)
      <4>1. <<>> \in Seq(Byte) /\ left \o <<>> = left  BY <1>t, EmptySeq, ConcatEmptySeq
      <4>2. Wrong(left \o <<>>)  BY <2>1, <1>t, <4>1, DoomedIsWrong DEF Doomed
      <4> QED  BY <4>1, <4>2
    <3>2. left' = left  BY <1>3, <3>1 DEF Reconnect
    <3>3. state' = "LENGTH" /\ multiplier' = Power[MaxDigits] /\ Len(left) > 0 /\ TooLongAt(left, 1)
      BY <1>i, <1>f, <2>1, <2>r DEF DoomInv, Doomed
    <3> QED  BY <1>t, <1>f, <2>m, <3>2, <3>3, BeginDoomed
  <2>2. CASE ~Doomed
    <3>1. left' = SubSeq(Stream, Decode(Stream).next, Len(Stream))
      <4>1. ~Wrong(left)  BY <1>i, <2>2 DEF DoomInv
      <4>2. left' = Rest(left \o received)  BY <1>3, <4>1 DEF Reconnect
      <4> QED  BY <4>2 DEF Rest, Stream
    <3>2. CASE pc = "failed"
      <4>1. PICK b \in 1..Len(Stream) : TooLongAt(Stream, b) /\ Decode(Stream).next = b
        BY <1>3, <1>i, <2>m, <2>2, <3>2 DEF PlaceInv
      <4>2. state' = "LENGTH" /\ multiplier' = Power[MaxDigits]
        BY <1>3, <1>i, <1>f, <2>m, <2>2, <2>r, <3>2 DEF PlaceInv
      <4>3. PICK l : l = SubSeq(Stream, b, Len(Stream))  OBVIOUS
      <4>4. /\ l \in Seq(Byte) /\ Len(l) = Len(Stream) - b + 1
            /\ \A e \in 0..(Len(Stream) - b) : l[1 + e] = Stream[b + e]
        BY <1>t, <4>3, Shift
      <4>5. TooLongAt(l, 1) /\ Len(l) > 0
        <5>n. MaxDigits \in Nat  BY ParserAssumption
        <5>1. /\ b + MaxDigits < Len(Stream) /\ Stream[b] \in Headers
              /\ \A e \in 1..MaxDigits : Continues(Stream[b + e])
          BY <4>1 DEF TooLongAt
        <5>2. 1 + MaxDigits < Len(l) /\ Len(l) > 0  BY <1>t, <4>4, <5>1, <5>n
        <5>3. l[1] = Stream[b]
          <6>1. 0 \in 0..(Len(Stream) - b) /\ 1 + 0 = 1 /\ b + 0 = b  BY <1>t
          <6> QED  BY <4>4, <6>1
        <5>4. \A e \in 1..MaxDigits : Continues(l[1 + e])
          <6>1. \A e \in 1..MaxDigits : e \in 0..(Len(Stream) - b)  BY <1>t, <5>1, <5>n
          <6> QED  BY <4>4, <5>1, <6>1
        <5> QED  BY <5>1, <5>2, <5>3, <5>4 DEF TooLongAt
      <4>6. left' = l  BY <3>1, <4>1, <4>3
      <4> QED  BY <1>f, <2>m, <4>2, <4>4, <4>5, <4>6, BeginDoomed
    <3>3. CASE pc = "closed"
      <4>1. PICK b \in 1..(Here + 1) :
              /\ Follows(Stream, Here, delivered, b) /\ InPacket(Stream, Here, b)
              /\ b \in 1..(Len(Stream) + 1)
        <5>1. Partial  BY <1>3, <2>m, <3>3 DEF Partial
        <5> QED  BY <1>i, <2>2, <5>1, FoundFirst DEF StreamInv
      <4>2. Here = Len(Stream) /\ Here \in 0..Len(Stream)
        <5>1. Len(chunk) = 0  BY <1>f, EmptySeq
        <5> QED  BY <1>t, <5>1 DEF Here
      <4>3. b <= Here
        BY <1>3, <1>i, <4>1 DEF InPacket, InLength, InBody, TypeOK
      <4>4. b \in 1..Len(Stream)  BY <1>t, <4>1, <4>2, <4>3
      <4>5. InPacket(Stream, Len(Stream), b)  BY <4>1, <4>2
      <4>6. ~Good(Stream, b)  BY <1>i, <1>t, <4>1, <4>5, Waiting
      <4>7. Decode(Stream).next = b  BY <1>t, <1>f, <4>1, <4>2, <4>6, FollowsRest
      <4>8. PICK l : l = SubSeq(Stream, b, Len(Stream))  OBVIOUS
      <4>9. l \in Seq(Byte) /\ Len(l) > 0
        <5>1. l \in Seq(Byte) /\ Len(l) = Len(Stream) - b + 1  BY <1>t, <4>4, <4>8, Shift
        <5>2. Len(Stream) - b + 1 > 0  BY <1>t, <4>4
        <5> QED  BY <5>1, <5>2
      <4>10. InPacket(l, Len(l), 1)  BY <1>3, <1>i, <1>t, <4>4, <4>5, <4>8, ShiftPacket
      <4>11. left' = l  BY <3>1, <4>7, <4>8
      <4> QED  BY <1>i, <1>f, <2>m, <2>r, <4>9, <4>10, <4>11, BeginPartial
    <3> QED  BY <1>f, <3>2, <3>3
  <2> QED  BY <2>1, <2>2
<1> QED  BY <1>1, <1>2, <1>3

LEMMA NextStream == PInv /\ StreamInv /\ [Next]_vars => StreamInv'
<1> SUFFICES ASSUME PInv, StreamInv, [Next]_vars PROVE StreamInv'  OBVIOUS
<1>1. CASE Recv \/ Fetch  BY <1>1, ArriveStream
<1>2. CASE FetchShort  BY <1>2, ArriveShort
<1>3. CASE Fixed  BY <1>3, FixedStream
<1>4. CASE Length  BY <1>4, LengthStream
<1>5. CASE RemainSome  BY <1>5, RemainSomeStream
<1>6. CASE RemainAll  BY <1>6, RemainAllStream
<1>7. CASE Handle  BY <1>7, HandleStream
<1>8. CASE ReadNext  BY <1>8, ReadNextStream
<1>9. CASE ChunkEnd \/ End \/ UNCHANGED vars  BY <1>9, WaitStream
<1>10. CASE Reconnect  BY <1>10, ReconnectStream
<1> QED  BY <1>1, <1>2, <1>3, <1>4, <1>5, <1>6, <1>7, <1>8, <1>9, <1>10 DEF Next

(* What the place of the parser says of the packets delivered.             *)
LEMMA StreamSays ==
  ASSUME PInv, StreamInv
  PROVE  ChunksDoNotMatter
<1>i. TypeOK /\ ChunkInv /\ ReadInv /\ DoomInv /\ PlaceInv
  BY DEF PInv, StreamInv
<1>t. /\ Stream \in Seq(Byte) /\ Len(Stream) \in Nat /\ left \in Seq(Byte)
      /\ received \in Seq(Byte) /\ delivered \in Seq(Packets)
  BY <1>i, StreamType DEF ChunkInv, TypeOK, Packets
<1>1. IsPrefix(delivered, Decode(Stream).packets) /\ (pc = "failed" => Wrong(Stream))
  BY <1>i DEF PlaceInv
<1>2. ASSUME pc = "recv", ~Wrong(left)
      PROVE  delivered = Decode(Stream).packets /\ ~Wrong(Stream)
  <2>1. ~Doomed
    <3>1. SUFFICES ASSUME Doomed PROVE Wrong(left)  BY <1>2
    <3>2. <<>> \in Seq(Byte) /\ left \o <<>> = left  BY <1>t, EmptySeq, ConcatEmptySeq
    <3>3. Wrong(left \o <<>>)  BY <3>1, <1>t, <3>2, DoomedIsWrong DEF Doomed
    <3> QED  BY <3>2, <3>3
  <2>2. PICK b \in 1..(Here + 1) :
          /\ Follows(Stream, Here, delivered, b) /\ InPacket(Stream, Here, b)
          /\ b \in 1..(Len(Stream) + 1)
    <3>1. Partial  BY <1>2 DEF Partial
    <3> QED  BY <1>i, <2>1, <3>1, FoundFirst DEF StreamInv
  <2>3. Here = Len(Stream) /\ Here \in 0..Len(Stream)
    <3>1. chunk = <<>>  BY <1>2, <1>i DEF ChunkInv
    <3>2. Len(chunk) = 0  BY <3>1, EmptySeq
    <3> QED  BY <1>t, <3>2 DEF Here
  <2>4. InPacket(Stream, Len(Stream), b)  BY <2>2, <2>3
  <2>5. ~Good(Stream, b) /\ (Decode(Stream).next = b => ~Wrong(Stream))
    BY <1>i, <1>t, <2>2, <2>4, Waiting
  <2> QED  BY <1>t, <2>2, <2>3, <2>5, FollowsRest
<1> QED  BY <1>1, <1>2 DEF ChunksDoNotMatter, Stream

LEMMA StreamInvariance == Spec => []StreamInv
<1> QED  BY Invariance, InitStream, NextStream, PTL DEF Spec

(* However its bytes are cut into chunks, and wherever connections end,    *)
(* the client gets the packets of the stream, in order and whole, and      *)
(* gives a connection up if and only if the stream is wrong.               *)
THEOREM ChunksMakeNoDifference == Spec => []ChunksDoNotMatter
<1>1. PInv /\ StreamInv => ChunksDoNotMatter  BY StreamSays
<1> QED  BY Invariance, StreamInvariance, <1>1, PTL
=============================================================================
