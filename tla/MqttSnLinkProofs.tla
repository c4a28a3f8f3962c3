--------------------------- MODULE MqttSnLinkProofs ---------------------------
(***************************************************************************)
(* Proofs about MqttSnLink, for strings of any length: the buffer that     *)
(* mqtt_sn_serialize allocates is the one it fills, but for the packets    *)
(* that BufferExact names.                                                 *)
(***************************************************************************)
EXTENDS MqttSnLink, SequenceTheorems, TLAPS

Byte == 0..255

(* What `length' is computed from, if the type keeps it in one byte.       *)
InOneByte == {"GWINFO", "CONNECT", "PINGREQ"}

(* All that the length counts is written.                                  *)
Whole(p) == ~Unwritten(p) /\ ~LeftOut(p)

(* The bytes of a body are there, and their number is the one that the     *)
(* length is computed from.                                                *)
LengthFits(p) ==
  /\ SnBody(p) \in Seq(Byte)
  /\ SnLength(p) = IF p.type \in InOneByte THEN U8(Counted(p) + 1) ELSE SnVbiLength(Counted(p))

Exact(p) ==
  (SnLength(p) = Len(SnSerialize(p).bytes)) <=>
    IF p.type \in InOneByte THEN Counted(p) < 255
    ELSE IF LeftOut(p) THEN JustTwo(Len(p.f.topic_name))
    ELSE Counted(p) < 65533 /\ (Unwritten(p) <=> Counted(p) = 255)
-----------------------------------------------------------------------------
(* Bytes written one after the other.                                      *)
LEMMA Together ==
  ASSUME NEW s \in Seq(Byte), NEW t \in Seq(Byte)
  PROVE  s \o t \in Seq(Byte) /\ Len(s \o t) = Len(s) + Len(t)
  OBVIOUS

LEMMA OneByte ==
  ASSUME NEW a \in Byte
  PROVE  <<a>> \in Seq(Byte) /\ Len(<<a>>) = 1
  OBVIOUS

LEMMA TwoBytes ==
  ASSUME NEW a \in Byte, NEW b \in Byte
  PROVE  <<a, b>> \in Seq(Byte) /\ Len(<<a, b>>) = 2
  OBVIOUS

LEMMA NoBytes == <<>> \in Seq(Byte) /\ Len(<<>>) = 0
  OBVIOUS

LEMMA Word ==
  ASSUME NEW n \in Nat
  PROVE  U16(n) \in Seq(Byte) /\ Len(U16(n)) = 2
  <1>1. (n \div 256) % 256 \in Byte /\ n % 256 \in Byte
    BY DEF Byte
  <1> QED
    BY <1>1, TwoBytes DEF U16

LEMMA ThenWord ==
  ASSUME NEW s \in Seq(Byte), NEW n \in Nat
  PROVE  s \o U16(n) \in Seq(Byte) /\ Len(s \o U16(n)) = Len(s) + 2
  <1>1. U16(n) \in Seq(Byte) /\ Len(U16(n)) = 2
    BY Word
  <1> HIDE DEF U16
  <1> DEFINE t == U16(n)
  <1> HIDE DEF t
  <1>2. t \in Seq(Byte) /\ Len(t) = 2
    BY <1>1 DEF t
  <1>3. s \o t \in Seq(Byte) /\ Len(s \o t) = Len(s) + 2
    BY <1>2, Together
  <1> QED
    BY <1>3 DEF t

LEMMA ThenByte ==
  ASSUME NEW s \in Seq(Byte), NEW a \in Byte
  PROVE  s \o <<a>> \in Seq(Byte) /\ Len(s \o <<a>>) = Len(s) + 1
  OBVIOUS

(* A byte and a word, two words, and either of them with more bytes.       *)
LEMMA ByteWord ==
  ASSUME NEW g \in Byte, NEW n \in Nat
  PROVE  <<g>> \o U16(n) \in Seq(Byte) /\ Len(<<g>> \o U16(n)) = 3
  <1> DEFINE s == <<g>>
  <1>1. s \in Seq(Byte) /\ Len(s) = 1
    BY OneByte
  <1> HIDE DEF s
  <1>2. s \o U16(n) \in Seq(Byte) /\ Len(s \o U16(n)) = Len(s) + 2
    BY <1>1, ThenWord
  <1>3. s \o U16(n) \in Seq(Byte) /\ Len(s \o U16(n)) = 3
    BY <1>1, <1>2
  <1> QED
    BY <1>3 DEF s

LEMMA TwoBytesWord ==
  ASSUME NEW g \in Byte, NEW h \in Byte, NEW n \in Nat
  PROVE  <<g, h>> \o U16(n) \in Seq(Byte) /\ Len(<<g, h>> \o U16(n)) = 4
  <1> DEFINE s == <<g, h>>
  <1>1. s \in Seq(Byte) /\ Len(s) = 2
    BY TwoBytes
  <1> HIDE DEF s
  <1>2. s \o U16(n) \in Seq(Byte) /\ Len(s \o U16(n)) = Len(s) + 2
    BY <1>1, ThenWord
  <1>3. s \o U16(n) \in Seq(Byte) /\ Len(s \o U16(n)) = 4
    BY <1>1, <1>2
  <1> QED
    BY <1>3 DEF s

LEMMA WordWord ==
  ASSUME NEW m \in Nat, NEW n \in Nat
  PROVE  U16(m) \o U16(n) \in Seq(Byte) /\ Len(U16(m) \o U16(n)) = 4
  <1> DEFINE s == U16(m)
  <1>1. s \in Seq(Byte) /\ Len(s) = 2
    BY Word
  <1> HIDE DEF s
  <1>2. s \o U16(n) \in Seq(Byte) /\ Len(s \o U16(n)) = Len(s) + 2
    BY <1>1, ThenWord
  <1>3. s \o U16(n) \in Seq(Byte) /\ Len(s \o U16(n)) = 4
    BY <1>1, <1>2
  <1> QED
    BY <1>3 DEF s

LEMMA WordWordByte ==
  ASSUME NEW m \in Nat, NEW n \in Nat, NEW k \in Byte
  PROVE  /\ U16(m) \o U16(n) \o <<k>> \in Seq(Byte)
         /\ Len(U16(m) \o U16(n) \o <<k>>) = 5
  <1> DEFINE s == U16(m) \o U16(n)
  <1>1. s \in Seq(Byte) /\ Len(s) = 4
    BY WordWord
  <1> HIDE DEF s
  <1>2. s \o <<k>> \in Seq(Byte) /\ Len(s \o <<k>>) = Len(s) + 1
    BY <1>1, ThenByte
  <1>3. s \o <<k>> \in Seq(Byte) /\ Len(s \o <<k>>) = 5
    BY <1>1, <1>2
  <1> QED
    BY <1>3 DEF s

LEMMA ByteWordWord ==
  ASSUME NEW g \in Byte, NEW m \in Nat, NEW n \in Nat
  PROVE  /\ <<g>> \o U16(m) \o U16(n) \in Seq(Byte)
         /\ Len(<<g>> \o U16(m) \o U16(n)) = 5
  <1> DEFINE s == <<g>> \o U16(m)
  <1>1. s \in Seq(Byte) /\ Len(s) = 3
    BY ByteWord
  <1> HIDE DEF s
  <1>2. s \o U16(n) \in Seq(Byte) /\ Len(s \o U16(n)) = Len(s) + 2
    BY <1>1, ThenWord
  <1>3. s \o U16(n) \in Seq(Byte) /\ Len(s \o U16(n)) = 5
    BY <1>1, <1>2
  <1> QED
    BY <1>3 DEF s

LEMMA ByteWordWordByte ==
  ASSUME NEW g \in Byte, NEW m \in Nat, NEW n \in Nat, NEW k \in Byte
  PROVE  /\ <<g>> \o U16(m) \o U16(n) \o <<k>> \in Seq(Byte)
         /\ Len(<<g>> \o U16(m) \o U16(n) \o <<k>>) = 6
  <1> DEFINE s == <<g>> \o U16(m) \o U16(n)
  <1>1. s \in Seq(Byte) /\ Len(s) = 5
    BY ByteWordWord
  <1> HIDE DEF s
  <1>2. s \o <<k>> \in Seq(Byte) /\ Len(s \o <<k>>) = Len(s) + 1
    BY <1>1, ThenByte
  <1>3. s \o <<k>> \in Seq(Byte) /\ Len(s \o <<k>>) = 6
    BY <1>1, <1>2
  <1> QED
    BY <1>3 DEF s
-----------------------------------------------------------------------------
(* The arithmetic of a length.                                             *)
LEMMA SixteenBits ==
  ASSUME NEW k \in Nat
  PROVE  k % 65536 \in Nat /\ k % 65536 < 65536
  OBVIOUS

LEMMA TooLong ==
  ASSUME NEW n \in Nat, 65537 <= n, NEW a \in Nat, NEW k, k = a % 65536
  PROVE  k \in Nat /\ k < n - 1 /\ ~(n <= 255) /\ ~(n < 65533)
  <1>1. k \in Nat /\ k < 65536
    BY SixteenBits
  <1> QED
    BY <1>1

LEMMA VbiLengthExact ==
  ASSUME NEW n \in Nat
  PROVE  /\ SnVbiLength(n) \in Nat
         /\ n <= 255 => SnVbiLength(n) = n + 1
         /\ 255 < n /\ n < 65533 => SnVbiLength(n) = n + 3
         /\ 65533 <= n => SnVbiLength(n) < n - 1
  <1>1. CASE n < 65533
    BY <1>1 DEF SnVbiLength
  <1>2. CASE 65533 <= n /\ n < 65537
    <2>1. n \in {65533, 65534, 65535, 65536}
      BY <1>2
    <2> QED
      BY <2>1 DEF SnVbiLength
  <1>3. CASE 65537 <= n
    <2> DEFINE k == SnVbiLength(n)
               a == IF n % 65536 > 255 THEN n + 3 ELSE n + 1
    <2>1. a \in Nat /\ k = a % 65536
      BY DEF SnVbiLength
    <2> HIDE DEF a, k
    <2>2. k \in Nat /\ k < n - 1 /\ ~(n <= 255) /\ ~(n < 65533)
      BY <1>3, <2>1, TooLong
    <2> QED
      BY <2>2 DEF k
  <1> QED
    BY <1>1, <1>2, <1>3

LEMMA Remainder ==
  ASSUME NEW q \in Nat, NEW m \in Nat, m < 65536
  PROVE  (65536 * q + m) % 65536 = m
  OBVIOUS

LEMMA Quotient ==
  ASSUME NEW n \in Nat
  PROVE  \E q, r \in Nat : r < 65536 /\ n = 65536 * q + r
  <1> DEFINE q == n \div 65536
             r == n % 65536
  <1>1. r \in Nat /\ r < 65536 /\ q \in Nat /\ n = 65536 * q + r
    OBVIOUS
  <1> HIDE DEF q, r
  <1> QED
    BY <1>1

(* The lengths that wrap to two or less.                                   *)
LEMMA WrapsToTwo ==
  ASSUME NEW n \in Nat
  PROVE  /\ SnVbiLength(2 + n) \in Nat
         /\ SnVbiLength(2 + n) <= 2 <=> AtMostTwo(n)
         /\ SnVbiLength(2 + n) = 2 <=> JustTwo(n)
  <1>1. PICK q, r \in Nat : r < 65536 /\ n = 65536 * q + r
    BY Quotient
  <1>2. n % 65536 = r
    BY <1>1, Remainder
  <1>3. AtMostTwo(n) <=> r >= 65531
    BY <1>2 DEF AtMostTwo
  <1>4. JustTwo(n) <=> r = 65533 \/ r = 65535
    BY <1>2 DEF JustTwo
  <1> DEFINE q1 == q + 1
  <1>5. q1 \in Nat /\ 65536 * q1 = 65536 * q + 65536
    OBVIOUS
  <1> HIDE DEF q1
  <1>6. \A m \in Nat : m < 65536 => (65536 * q + m) % 65536 = m
    BY Remainder
  <1>7. \A m \in Nat : m < 65536 => (65536 * q1 + m) % 65536 = m
    BY <1>5, Remainder
  <1>8. CASE r < 65531
    <2>1. 2 + r \in Nat /\ 2 + r < 65536 /\ 5 + r \in Nat /\ 5 + r < 65536
          /\ 3 + r \in Nat /\ 3 + r < 65536
      BY <1>1, <1>8
    <2>2. /\ (65536 * q + (2 + r)) % 65536 = 2 + r
          /\ (65536 * q + (5 + r)) % 65536 = 5 + r
          /\ (65536 * q + (3 + r)) % 65536 = 3 + r
      BY <1>6, <2>1
    <2>3. /\ 2 + n = 65536 * q + (2 + r)
          /\ 2 + n + 3 = 65536 * q + (5 + r)
          /\ 2 + n + 1 = 65536 * q + (3 + r)
      BY <1>1
    <2>4. SnVbiLength(2 + n) = IF 2 + r > 255 THEN 5 + r ELSE 3 + r
      BY <2>2, <2>3 DEF SnVbiLength
    <2> QED
      BY <1>1, <1>3, <1>4, <1>8, <2>4
  <1>9. CASE r = 65531
    <2>1. 2 + n = 65536 * q + 65533 /\ 2 + n + 3 = 65536 * q1 + 0
      BY <1>1, <1>5, <1>9
    <2>2. (2 + n) % 65536 = 65533 /\ (2 + n + 3) % 65536 = 0
      BY <1>6, <1>7, <2>1
    <2>3. SnVbiLength(2 + n) = 0
      BY <2>2 DEF SnVbiLength
    <2> QED
      BY <1>3, <1>4, <1>9, <2>3
  <1>10. CASE r = 65532
    <2>1. 2 + n = 65536 * q + 65534 /\ 2 + n + 3 = 65536 * q1 + 1
      BY <1>1, <1>5, <1>10
    <2>2. (2 + n) % 65536 = 65534 /\ (2 + n + 3) % 65536 = 1
      BY <1>6, <1>7, <2>1
    <2>3. SnVbiLength(2 + n) = 1
      BY <2>2 DEF SnVbiLength
    <2> QED
      BY <1>3, <1>4, <1>10, <2>3
  <1>11. CASE r = 65533
    <2>1. 2 + n = 65536 * q + 65535 /\ 2 + n + 3 = 65536 * q1 + 2
      BY <1>1, <1>5, <1>11
    <2>2. (2 + n) % 65536 = 65535 /\ (2 + n + 3) % 65536 = 2
      BY <1>6, <1>7, <2>1
    <2>3. SnVbiLength(2 + n) = 2
      BY <2>2 DEF SnVbiLength
    <2> QED
      BY <1>3, <1>4, <1>11, <2>3
  <1>12. CASE r = 65534
    <2>1. 2 + n = 65536 * q1 + 0 /\ 2 + n + 1 = 65536 * q1 + 1
      BY <1>1, <1>5, <1>12
    <2>2. (2 + n) % 65536 = 0 /\ (2 + n + 1) % 65536 = 1
      BY <1>7, <2>1
    <2>3. SnVbiLength(2 + n) = 1
      BY <2>2 DEF SnVbiLength
    <2> QED
      BY <1>3, <1>4, <1>12, <2>3
  <1>13. CASE r = 65535
    <2>1. 2 + n = 65536 * q1 + 1 /\ 2 + n + 1 = 65536 * q1 + 2
      BY <1>1, <1>5, <1>13
    <2>2. (2 + n) % 65536 = 1 /\ (2 + n + 1) % 65536 = 2
      BY <1>7, <2>1
    <2>3. SnVbiLength(2 + n) = 2
      BY <2>2 DEF SnVbiLength
    <2> QED
      BY <1>3, <1>4, <1>13, <2>3
  <1>14. r < 65531 \/ r = 65531 \/ r = 65532 \/ r = 65533 \/ r = 65534 \/ r = 65535
    BY <1>1
  <1> QED
    BY <1>8, <1>9, <1>10, <1>11, <1>12, <1>13, <1>14

(* An empty topic is not left out.                                         *)
LEMMA LeftOutTopic ==
  ASSUME NEW p, LeftOut(p)
  PROVE  p.type = "WILLTOPIC" /\ p.f.topic_name # <<>>
  <1>1. ~AtMostTwo(Len(<<>>))
    BY DEF AtMostTwo
  <1>2. p.type = "WILLTOPIC" /\ AtMostTwo(Len(p.f.topic_name))
    BY Zenon DEF LeftOut
  <1> QED
    BY <1>1, <1>2, Zenon

LEMMA OneByteLength ==
  ASSUME NEW n \in Nat
  PROVE  U8(n) \in Nat /\ U8(n) <= 255 /\ (n < 256 => U8(n) = n) /\ (n >= 256 => U8(n) < n)
  BY DEF U8

(* The length itself takes one byte or three.                              *)
LEMMA HeaderLength ==
  ASSUME NEW n \in Nat
  PROVE  /\ WriteLength(n) \in Seq(Nat)
         /\ Len(WriteLength(n)) = IF n > 255 THEN 3 ELSE 1
  <1>1. CASE n > 255
    <2>1. (n \div 256) % 256 \in Nat /\ n % 256 \in Nat
      OBVIOUS
    <2> DEFINE a == (n \div 256) % 256
               b == n % 256
    <2>2. U16(n) = <<a, b>>
      BY DEF U16
    <2>3. a \in Nat /\ b \in Nat
      BY <2>1
    <2> HIDE DEF a, b
    <2>4. <<1>> \o <<a, b>> \in Seq(Nat) /\ Len(<<1>> \o <<a, b>>) = 3
      BY <2>3
    <2> QED
      BY <1>1, <2>2, <2>4 DEF WriteLength
  <1>2. CASE ~(n > 255)
    BY <1>2 DEF WriteLength
  <1> QED
    BY <1>1, <1>2

LEMMA TypeIsAByte ==
  ASSUME NEW type \in SnTypes
  PROVE  TypeByte[type] \in Nat
  BY DEF SnTypes, TypeByte

(* So many bytes are written.                                              *)
LEMMA BytesWritten ==
  ASSUME NEW n \in Nat, NEW k \in Nat, NEW body \in Seq(Byte)
  PROVE  Len(WriteLength(n) \o <<k>> \o body) = (IF n > 255 THEN 3 ELSE 1) + 1 + Len(body)
  <1>1. body \in Seq(Nat) /\ Len(body) \in Nat
    <2>1. Byte \subseteq Nat
      BY DEF Byte
    <2>2. Seq(Byte) \subseteq Seq(Nat)
      BY <2>1, SeqMonotonic
    <2> QED
      BY <2>2, LenProperties
  <1>2. /\ WriteLength(n) \in Seq(Nat)
        /\ Len(WriteLength(n)) = IF n > 255 THEN 3 ELSE 1
    BY HeaderLength
  <1>3. \A w \in Seq(Nat) : Len(w \o <<k>> \o body) = Len(w) + 1 + Len(body)
    BY <1>1
  <1> QED
    BY <1>2, <1>3

LEMMA Arithmetic ==
  ASSUME NEW c \in Nat, NEW m \in Nat, NEW lost \in {0, 2}, c = 1 + m + lost,
         NEW n \in Nat
  PROVE  LET wrote_ == (IF n > 255 THEN 3 ELSE 1) + 1 + m IN
         /\ /\ n <= 255 /\ lost = 0
            /\ c + 1 < 256 => n = c + 1
            /\ c + 1 >= 256 => n < c + 1
            => (n = wrote_ <=> c < 255)
         /\ /\ c <= 255 => n = c + 1
            /\ 255 < c /\ c < 65533 => n = c + 3
            /\ 65533 <= c => n < c - 1
            => (n = wrote_ <=> c < 65533 /\ (lost = 2 <=> c = 255))
  <1>1. CASE lost = 0
    BY <1>1
  <1>2. CASE lost = 2
    BY <1>2
  <1> QED
    BY <1>1, <1>2

LEMMA ExactIfItFits ==
  ASSUME NEW p, p.type \in SnTypes, LengthFits(p), ~LeftOut(p)
  PROVE  Exact(p)
  <1> DEFINE n    == SnLength(p)
             c    == Counted(p)
             body == SnBody(p)
             m    == Len(body)
             lost == If(Unwritten(p), 2)
             all  == Len(SnSerialize(p).bytes)
  <1>1. body \in Seq(Byte)
    BY DEF LengthFits
  <1>2. m \in Nat
    BY <1>1, LenProperties
  <1>3. lost \in {0, 2} /\ (lost = 2 <=> Unwritten(p))
    BY DEF If
  <1>4. c = 1 + m + lost
    <2>1. c = 1 + m + lost + 0
      BY DEF Counted, If
    <2>2. 1 + m + lost + 0 = 1 + m + lost
      <3> HIDE DEF m, lost
      <3> QED
        BY <1>2, <1>3
    <2> QED
      BY <2>1, <2>2
  <1>5. Unwritten(p) => p.type \notin InOneByte
    BY DEF Unwritten, InOneByte
  <1>6. n = IF p.type \in InOneByte THEN U8(c + 1) ELSE SnVbiLength(c)
    BY DEF LengthFits
  <1>7. TypeByte[p.type] \in Nat
    BY TypeIsAByte
  <1>8. all = Len(WriteLength(n) \o <<TypeByte[p.type]>> \o body)
    BY DEF SnSerialize
  <1>9. Exact(p) <=> (n = all <=> IF p.type \in InOneByte THEN c < 255
                                  ELSE c < 65533 /\ (Unwritten(p) <=> c = 255))
    BY DEF Exact
  <1> HIDE DEF n, c, body, m, lost, all
  <1>10. c \in Nat /\ c + 1 \in Nat
    BY <1>2, <1>3, <1>4
  <1>11. n \in Nat
    <2>1. U8(c + 1) \in Nat
      BY <1>10, OneByteLength
    <2>2. SnVbiLength(c) \in Nat
      BY <1>10, VbiLengthExact
    <2> QED
      BY <1>6, <2>1, <2>2
  <1>12. all = (IF n > 255 THEN 3 ELSE 1) + 1 + m
    BY <1>1, <1>7, <1>8, <1>11, BytesWritten DEF m
  <1>13. CASE p.type \in InOneByte
    <2>1. n = U8(c + 1) /\ lost = 0
      BY <1>3, <1>5, <1>6, <1>13
    <2>2. n <= 255 /\ (c + 1 < 256 => n = c + 1) /\ (c + 1 >= 256 => n < c + 1)
      BY <1>10, <2>1, OneByteLength
    <2>3. n = all <=> c < 255
      BY <1>2, <1>3, <1>4, <1>10, <1>11, <1>12, <2>1, <2>2, Arithmetic
    <2> QED
      BY <1>9, <1>13, <2>3
  <1>14. CASE p.type \notin InOneByte
    <2>1. n = SnVbiLength(c)
      BY <1>6, <1>14
    <2>2. /\ c <= 255 => n = c + 1
          /\ 255 < c /\ c < 65533 => n = c + 3
          /\ 65533 <= c => n < c - 1
      BY <1>10, <2>1, VbiLengthExact
    <2>3. n = all <=> c < 65533 /\ (lost = 2 <=> c = 255)
      BY <1>2, <1>3, <1>4, <1>10, <1>11, <1>12, <2>2, Arithmetic
    <2> QED
      BY <1>3, <1>9, <1>14, <2>3
  <1> QED
    BY <1>13, <1>14

(* A WILLTOPIC whose topic is left out: one byte of length, and the type.  *)
LEMMA ExactIfLeftOut ==
  ASSUME NEW p, LeftOut(p), p.f.topic_name \in Seq(Byte)
  PROVE  SnBody(p) = <<>> /\ Exact(p)
  <1> DEFINE n == SnLength(p)
             t == Len(p.f.topic_name)
  <1>1. p.type = "WILLTOPIC" /\ p.f.topic_name # <<>>
    BY LeftOutTopic
  <1>2. t \in Nat /\ AtMostTwo(t)
    <2>1. AtMostTwo(t)
      BY Zenon DEF LeftOut
    <2>2. t \in Nat
      BY LenProperties
    <2> QED
      BY <2>1, <2>2, Zenon
  <1>3. n = SnVbiLength(2 + t)
    BY <1>1 DEF SnLength
  <1>4. n \in Nat /\ n <= 2 /\ (n = 2 <=> JustTwo(t))
    <2> HIDE DEF n, t
    <2> QED
      BY <1>2, <1>3, WrapsToTwo
  <1>5. SnBody(p) = <<>>
    BY <1>1, <1>4 DEF SnBody, WillTopicBody, When
  <1>6. TypeByte[p.type] \in Nat
    BY <1>1, TypeIsAByte DEF SnTypes, TypeByte
  <1>7. Len(SnSerialize(p).bytes) = 2
    <2>1. SnSerialize(p).bytes = WriteLength(n) \o <<TypeByte[p.type]>> \o <<>>
      BY <1>5 DEF SnSerialize
    <2> DEFINE none == <<>>
    <2>2. none \in Seq(Byte) /\ Len(none) = 0
      BY NoBytes
    <2> HIDE DEF n, none
    <2>3. Len(WriteLength(n) \o <<TypeByte[p.type]>> \o none) = 1 + 1 + 0
      BY <1>4, <1>6, <2>2, BytesWritten
    <2> QED
      BY <2>1, <2>3 DEF none
  <1>8. p.type \notin InOneByte
    BY <1>1 DEF InOneByte
  <1>9. n = Len(SnSerialize(p).bytes) <=> JustTwo(t)
    <2> HIDE DEF n, t
    <2> QED
      BY <1>4, <1>7, Zenon
  <1>10. Exact(p)
    <2> DEFINE e == n = Len(SnSerialize(p).bytes)
               f == p.type \in InOneByte
    <2>1. Exact(p) <=> (e <=> IF f THEN Counted(p) < 255 ELSE JustTwo(t))
      BY DEF Exact
    <2>2. ~f /\ (e <=> JustTwo(t))
      BY <1>8, <1>9, Zenon
    <2> HIDE DEF e, f, t
    <2> QED
      BY <2>1, <2>2
  <1> QED
    BY <1>5, <1>10
-----------------------------------------------------------------------------
(* What the applications fill in.                                          *)
LEMMA LinkInputs ==
  ASSUME NEW u \in DOMAIN Uses
  PROVE  /\ Uses[u].strings \subseteq Seq(0..255)
         /\ Uses[u].flags \union Uses[u].bytes \subseteq 0..255
         /\ Uses[u].words \subseteq Uint16 /\ Uses[u].codes \subseteq ReturnCodes
  BY LinkAssumption

LEMMA Inputs ==
  ASSUME use \in DOMAIN Uses
  PROVE  /\ U.strings \subseteq Seq(Byte)
         /\ U.flags \subseteq Byte /\ U.bytes \subseteq Byte /\ U.codes \subseteq Byte
         /\ U.words \subseteq Uint16
  <1>1. ReturnCodes \subseteq 0..255
    BY DEF ReturnCodes
  <1> QED
    BY <1>1, LinkInputs DEF U, Byte

LEMMA WordIsNat ==
  ASSUME NEW w \in Uint16
  PROVE  w \in Nat
  BY DEF Uint16
-----------------------------------------------------------------------------
(* The packets that are not a PUBLISH: all that is counted is written.     *)
LEMMA OtherPacket ==
  ASSUME NEW p, Whole(p), NEW b \in Seq(Byte), SnBody(p) = b,
         SnLength(p) = IF p.type \in InOneByte THEN U8(Len(b) + 2) ELSE SnVbiLength(Len(b) + 1)
  PROVE  LengthFits(p)
  <1>1. Len(b) \in Nat
    BY LenProperties
  <1>2. Counted(p) = 1 + Len(b) + 0 + 0
    BY DEF Counted, Whole, If
  <1>3. Counted(p) + 1 = Len(b) + 2 /\ Counted(p) = Len(b) + 1
    BY <1>1, <1>2
  <1> QED
    BY <1>3 DEF LengthFits

(* The ones of a fixed length.                                             *)
LEMMA FixedLength ==
  ASSUME NEW p, Whole(p), p.type \notin InOneByte, NEW b \in Seq(Byte), SnBody(p) = b,
         Len(b) < 7, SnLength(p) = Len(b) + 2
  PROVE  LengthFits(p)
  <1> DEFINE n == Len(b) + 1
  <1>1. Len(b) \in Nat
    BY LenProperties
  <1>2. n \in Nat /\ n <= 255 /\ Len(b) + 2 = n + 1
    BY <1>1
  <1> HIDE DEF n
  <1>3. SnVbiLength(n) = Len(b) + 2
    BY <1>2, VbiLengthExact
  <1> QED
    BY <1>3, OtherPacket DEF n

LEMMA EmptyFits ==
  ASSUME NEW p, p.type \in {"WILLTOPICREQ", "WILLMSGREQ", "PINGRESP"}
  PROVE  LengthFits(p)
  <1> DEFINE b == <<>>
  <1>1. SnBody(p) = b /\ SnLength(p) = 2
    BY DEF SnBody, SnLength
  <1>2. Whole(p) /\ p.type \notin InOneByte
    BY DEF InOneByte, Whole, Unwritten, LeftOut
  <1>3. b \in Seq(Byte) /\ Len(b) = 0
    BY NoBytes
  <1> HIDE DEF b
  <1>4. Len(b) < 7 /\ SnLength(p) = Len(b) + 2
    BY <1>1, <1>3
  <1> QED
    BY <1>1, <1>2, <1>3, <1>4, FixedLength

LEMMA SearchgwFits ==
  ASSUME NEW p, p.type = "SEARCHGW", p.f.radius \in Byte
  PROVE  LengthFits(p)
  <1> DEFINE b == <<p.f.radius>>
  <1>1. SnBody(p) = b /\ SnLength(p) = 3
    BY DEF SnBody, GatewayBody, SnLength
  <1>2. Whole(p) /\ p.type \notin InOneByte
    BY DEF InOneByte, Whole, Unwritten, LeftOut
  <1>3. b \in Seq(Byte) /\ Len(b) = 1
    BY OneByte
  <1> HIDE DEF b
  <1>4. Len(b) < 7 /\ SnLength(p) = Len(b) + 2
    BY <1>1, <1>3
  <1> QED
    BY <1>1, <1>2, <1>3, <1>4, FixedLength

LEMMA CodeFits ==
  ASSUME NEW p, p.type \in {"CONNACK", "WILLTOPICRESP", "WILLMSGRESP"}, p.f.code \in Byte
  PROVE  LengthFits(p)
  <1> DEFINE b == <<p.f.code>>
  <1>1. SnBody(p) = b /\ SnLength(p) = 3
    BY DEF SnBody, CodeBody, SnLength
  <1>2. Whole(p) /\ p.type \notin InOneByte
    BY DEF InOneByte, Whole, Unwritten, LeftOut
  <1>3. b \in Seq(Byte) /\ Len(b) = 1
    BY OneByte
  <1> HIDE DEF b
  <1>4. Len(b) < 7 /\ SnLength(p) = Len(b) + 2
    BY <1>1, <1>3
  <1> QED
    BY <1>1, <1>2, <1>3, <1>4, FixedLength

LEMMA MsgIdFits ==
  ASSUME NEW p, p.type \in {"PUBREC", "PUBREL", "PUBCOMP", "UNSUBACK"}, p.f.msg_id \in Nat
  PROVE  LengthFits(p)
  <1> DEFINE b == U16(p.f.msg_id)
  <1>1. SnBody(p) = b /\ SnLength(p) = 4
    BY DEF SnBody, MsgIdBody, SnLength
  <1>2. Whole(p) /\ p.type \notin InOneByte
    BY DEF InOneByte, Whole, Unwritten, LeftOut
  <1>3. b \in Seq(Byte) /\ Len(b) = 2
    BY Word
  <1> HIDE DEF b
  <1>4. Len(b) < 7 /\ SnLength(p) = Len(b) + 2
    BY <1>1, <1>3
  <1> QED
    BY <1>1, <1>2, <1>3, <1>4, FixedLength

LEMMA AdvertiseFits ==
  ASSUME NEW p, p.type = "ADVERTISE", p.f.gwid \in Byte, p.f.duration \in Nat
  PROVE  LengthFits(p)
  <1> DEFINE b == <<p.f.gwid>> \o U16(p.f.duration)
  <1>1. SnBody(p) = b /\ SnLength(p) = 5
    BY DEF SnBody, GatewayBody, SnLength
  <1>2. Whole(p) /\ p.type \notin InOneByte
    BY DEF InOneByte, Whole, Unwritten, LeftOut
  <1>3. b \in Seq(Byte) /\ Len(b) = 3
    BY ByteWord
  <1> HIDE DEF b
  <1>4. Len(b) < 7 /\ SnLength(p) = Len(b) + 2
    BY <1>1, <1>3
  <1> QED
    BY <1>1, <1>2, <1>3, <1>4, FixedLength

LEMMA TopicAckFits ==
  ASSUME NEW p, p.type \in {"REGACK", "PUBACK"},
         p.f.topic_id \in Nat, p.f.msg_id \in Nat, p.f.code \in Byte
  PROVE  LengthFits(p)
  <1> DEFINE b == U16(p.f.topic_id) \o U16(p.f.msg_id) \o <<p.f.code>>
  <1>1. SnBody(p) = b /\ SnLength(p) = 7
    BY DEF SnBody, TopicAckBody, SnLength
  <1>2. Whole(p) /\ p.type \notin InOneByte
    BY DEF InOneByte, Whole, Unwritten, LeftOut
  <1>3. b \in Seq(Byte) /\ Len(b) = 5
    BY WordWordByte
  <1> HIDE DEF b
  <1>4. Len(b) < 7 /\ SnLength(p) = Len(b) + 2
    BY <1>1, <1>3
  <1> QED
    BY <1>1, <1>2, <1>3, <1>4, FixedLength

LEMMA SubackFits ==
  ASSUME NEW p, p.type = "SUBACK", p.f.flags \in Byte,
         p.f.topic_id \in Nat, p.f.msg_id \in Nat, p.f.code \in Byte
  PROVE  LengthFits(p)
  <1> DEFINE b == <<p.f.flags>> \o U16(p.f.topic_id) \o U16(p.f.msg_id) \o <<p.f.code>>
  <1>1. SnBody(p) = b /\ SnLength(p) = 8
    BY DEF SnBody, SnSubackBody, SnLength
  <1>2. Whole(p) /\ p.type \notin InOneByte
    BY DEF InOneByte, Whole, Unwritten, LeftOut
  <1>3. b \in Seq(Byte) /\ Len(b) = 6
    BY ByteWordWordByte
  <1> HIDE DEF b
  <1>4. Len(b) < 7 /\ SnLength(p) = Len(b) + 2
    BY <1>1, <1>3
  <1> QED
    BY <1>1, <1>2, <1>3, <1>4, FixedLength

LEMMA DisconnectFits ==
  ASSUME NEW p, p.type = "DISCONNECT", p.f.duration \in Nat
  PROVE  LengthFits(p)
  <1> DEFINE b == IF p.f.duration > 0 THEN U16(p.f.duration) ELSE <<>>
             n == IF p.f.duration > 0 THEN 2 ELSE 0
  <1>1. SnBody(p) = b /\ SnLength(p) = n + 2
    BY DEF SnBody, DisconnectBody, When, SnLength, If
  <1>2. Whole(p) /\ p.type \notin InOneByte
    BY DEF InOneByte, Whole, Unwritten, LeftOut
  <1>3. b \in Seq(Byte) /\ Len(b) = n /\ n \in {0, 2}
    <2>1. CASE p.f.duration > 0
      <3>1. U16(p.f.duration) \in Seq(Byte) /\ Len(U16(p.f.duration)) = 2
        BY Word
      <3>2. b = U16(p.f.duration) /\ n = 2
        BY <2>1
      <3> QED
        BY <3>1, <3>2
    <2>2. CASE ~(p.f.duration > 0)
      <3>1. b = <<>> /\ n = 0
        BY <2>2
      <3> QED
        BY <3>1, NoBytes
    <2> QED
      BY <2>1, <2>2
  <1> HIDE DEF b, n
  <1>4. Len(b) < 7 /\ SnLength(p) = Len(b) + 2
    BY <1>1, <1>3
  <1> QED
    BY <1>1, <1>2, <1>3, <1>4, FixedLength

(* The ones that end with a string, behind a part of fixed length.         *)
LEMMA BeforeAString ==
  ASSUME NEW p, Whole(p), NEW a \in Seq(Byte), NEW s \in Seq(Byte),
         SnBody(p) = a \o s,
         SnLength(p) = IF p.type \in InOneByte THEN U8(Len(a) + 2 + Len(s))
                       ELSE SnVbiLength(Len(a) + 1 + Len(s))
  PROVE  LengthFits(p)
  <1> DEFINE b == a \o s
  <1>1. b \in Seq(Byte) /\ Len(b) = Len(a) + Len(s)
    BY Together
  <1>2. Len(a) \in Nat /\ Len(s) \in Nat
    BY LenProperties
  <1>3. SnBody(p) = b
    OBVIOUS
  <1> HIDE DEF b
  <1>4. Len(b) + 2 = Len(a) + 2 + Len(s) /\ Len(b) + 1 = Len(a) + 1 + Len(s)
    BY <1>1, <1>2
  <1> QED
    BY <1>1, <1>3, <1>4, OtherPacket

LEMMA GwinfoFits ==
  ASSUME NEW p, p.type = "GWINFO", p.f.gwid \in Byte, p.f.gwadd \in Seq(Byte)
  PROVE  LengthFits(p)
  <1> DEFINE a == <<p.f.gwid>>
             s == p.f.gwadd
  <1>1. SnBody(p) = a \o s /\ SnLength(p) = U8(3 + Len(s))
    BY DEF SnBody, GatewayBody, SnLength
  <1>2. Whole(p) /\ p.type \in InOneByte
    BY DEF InOneByte, Whole, Unwritten, LeftOut
  <1>3. a \in Seq(Byte) /\ Len(a) = 1
    BY OneByte
  <1>4. s \in Seq(Byte) /\ Len(s) \in Nat
    BY LenProperties
  <1> HIDE DEF a, s
  <1>5. 3 + Len(s) = Len(a) + 2 + Len(s)
    BY <1>3, <1>4
  <1> QED
    BY <1>1, <1>2, <1>3, <1>4, <1>5, BeforeAString

LEMMA EncapsulatedFits ==
  ASSUME NEW p, p.type = "ENCAPSULATED", p.f.ctrl \in Byte, p.f.wireless_node \in Seq(Byte)
  PROVE  LengthFits(p)
  <1> DEFINE a == <<p.f.ctrl>>
             s == p.f.wireless_node
  <1>1. SnBody(p) = a \o s /\ SnLength(p) = SnVbiLength(2 + Len(s))
    BY DEF SnBody, EncapsulatedBody, SnLength
  <1>2. Whole(p) /\ p.type \notin InOneByte
    BY DEF InOneByte, Whole, Unwritten, LeftOut
  <1>3. a \in Seq(Byte) /\ Len(a) = 1
    BY OneByte
  <1>4. s \in Seq(Byte) /\ Len(s) \in Nat
    BY LenProperties
  <1> HIDE DEF a, s
  <1>5. 2 + Len(s) = Len(a) + 1 + Len(s)
    BY <1>3, <1>4
  <1> QED
    BY <1>1, <1>2, <1>3, <1>4, <1>5, BeforeAString

LEMMA RegisterFits ==
  ASSUME NEW p, p.type = "REGISTER", p.f.topic_id \in Nat, p.f.msg_id \in Nat,
         p.f.topic_name \in Seq(Byte)
  PROVE  LengthFits(p)
  <1> DEFINE a == U16(p.f.topic_id) \o U16(p.f.msg_id)
             s == p.f.topic_name
  <1>1. SnBody(p) = a \o s /\ SnLength(p) = SnVbiLength(5 + Len(s))
    BY DEF SnBody, RegisterBody, SnLength
  <1>2. Whole(p) /\ p.type \notin InOneByte
    BY DEF InOneByte, Whole, Unwritten, LeftOut
  <1>3. a \in Seq(Byte) /\ Len(a) = 4
    BY WordWord
  <1>4. s \in Seq(Byte) /\ Len(s) \in Nat
    BY LenProperties
  <1> HIDE DEF a, s
  <1>5. 5 + Len(s) = Len(a) + 1 + Len(s)
    BY <1>3, <1>4
  <1> QED
    BY <1>1, <1>2, <1>3, <1>4, <1>5, BeforeAString

LEMMA ConnectFits ==
  ASSUME NEW p, p.type = "CONNECT", p.f.flags \in Byte, p.f.protocol_id \in Byte,
         p.f.duration \in Nat, p.f.client_id \in Seq(Byte)
  PROVE  LengthFits(p)
  <1> DEFINE a == <<p.f.flags, p.f.protocol_id>> \o U16(p.f.duration)
             s == p.f.client_id
  <1>1. SnBody(p) = a \o s /\ SnLength(p) = U8(6 + Len(s))
    BY DEF SnBody, SnConnectBody, SnLength
  <1>2. Whole(p) /\ p.type \in InOneByte
    BY DEF InOneByte, Whole, Unwritten, LeftOut
  <1>3. a \in Seq(Byte) /\ Len(a) = 4
    BY TwoBytesWord
  <1>4. s \in Seq(Byte) /\ Len(s) \in Nat
    BY LenProperties
  <1> HIDE DEF a, s
  <1>5. 6 + Len(s) = Len(a) + 2 + Len(s)
    BY <1>3, <1>4
  <1> QED
    BY <1>1, <1>2, <1>3, <1>4, <1>5, BeforeAString

LEMMA MessageFits ==
  ASSUME NEW p, p.type \in {"WILLMSG", "WILLMSGUPD"}, p.f.message \in Seq(Byte)
  PROVE  LengthFits(p)
  <1> DEFINE s == p.f.message
  <1>1. SnBody(p) = s /\ SnLength(p) = SnVbiLength(1 + Len(s))
    BY DEF SnBody, MessageBody, SnLength
  <1>2. Whole(p) /\ p.type \notin InOneByte
    BY DEF InOneByte, Whole, Unwritten, LeftOut
  <1>3. s \in Seq(Byte) /\ Len(s) \in Nat
    BY LenProperties
  <1> HIDE DEF s
  <1>4. 1 + Len(s) = Len(s) + 1
    BY <1>3
  <1> QED
    BY <1>1, <1>2, <1>3, <1>4, OtherPacket

LEMMA PingreqFits ==
  ASSUME NEW p, p.type = "PINGREQ", p.f.client_id \in Seq(Byte)
  PROVE  LengthFits(p)
  <1> DEFINE s == p.f.client_id
  <1>1. SnBody(p) = s /\ SnLength(p) = U8(2 + Len(s))
    BY DEF SnBody, PingreqBody, SnLength
  <1>2. Whole(p) /\ p.type \in InOneByte
    BY DEF InOneByte, Whole, Unwritten, LeftOut
  <1>3. s \in Seq(Byte) /\ Len(s) \in Nat
    BY LenProperties
  <1> HIDE DEF s
  <1>4. 2 + Len(s) = Len(s) + 2
    BY <1>3
  <1> QED
    BY <1>1, <1>2, <1>3, <1>4, OtherPacket

(* Without a topic the flags are not written, and not counted either; of   *)
(* a topic that is left out both are counted.                              *)
LEMMA WillTopicFits ==
  ASSUME NEW p, p.type \in {"WILLTOPIC", "WILLTOPICUPD"}, p.f.flags \in Byte,
         p.f.topic_name \in Seq(Byte)
  PROVE  LengthFits(p)
  <1>1. ~Unwritten(p) /\ p.type \notin InOneByte
    BY DEF InOneByte, Unwritten
  <1>2. CASE p.f.topic_name = <<>>
    <2> DEFINE b == <<>>
    <2>1. SnBody(p) = b /\ SnLength(p) = 2
      BY <1>2 DEF SnBody, WillTopicBody, When, SnLength
    <2>2. b \in Seq(Byte) /\ Len(b) = 0
      BY NoBytes
    <2>3. ~LeftOut(p)
      BY <1>2, LeftOutTopic
    <2> HIDE DEF b
    <2>4. Len(b) < 7 /\ SnLength(p) = Len(b) + 2
      BY <2>1, <2>2
    <2> QED
      BY <1>1, <2>1, <2>2, <2>3, <2>4, FixedLength DEF Whole
  <1>3. CASE LeftOut(p)
    <2> DEFINE b == <<>>
               t == Len(p.f.topic_name)
    <2>1. SnBody(p) = b
      BY <1>3, ExactIfLeftOut
    <2>2. b \in Seq(Byte) /\ Len(b) = 0 /\ t \in Nat
      BY NoBytes, LenProperties
    <2>3. p.f.topic_name # <<>>
      BY <1>3, LeftOutTopic
    <2>4. SnLength(p) = SnVbiLength(2 + t)
      BY <2>3 DEF SnLength
    <2>5. Counted(p) = 1 + Len(SnBody(p)) + 0 + (1 + t)
      BY <1>1, <1>3 DEF Counted, If
    <2> HIDE DEF b, t
    <2>6. Counted(p) = 2 + t
      BY <2>1, <2>2, <2>5
    <2> QED
      BY <1>1, <2>1, <2>2, <2>4, <2>6 DEF LengthFits
  <1>4. CASE p.f.topic_name # <<>> /\ ~LeftOut(p)
    <2> DEFINE a == <<p.f.flags>>
               s == p.f.topic_name
    <2>1. SnLength(p) = SnVbiLength(2 + Len(s)) /\ Len(s) \in Nat
      BY <1>4, LenProperties DEF SnLength
    <2>2. p.type = "WILLTOPIC" => SnLength(p) > 2
      <3> HIDE DEF s
      <3>1. p.type = "WILLTOPIC" => ~AtMostTwo(Len(s))
        BY <1>4, Zenon DEF LeftOut, s
      <3>2. SnVbiLength(2 + Len(s)) \in Nat
        BY <2>1, WrapsToTwo
      <3>3. p.type = "WILLTOPIC" => ~(SnVbiLength(2 + Len(s)) <= 2)
        BY <2>1, <3>1, WrapsToTwo
      <3> QED
        BY <2>1, <3>2, <3>3
    <2>3. SnBody(p) = a \o s
      BY <1>4, <2>2 DEF SnBody, WillTopicBody, When
    <2>4. a \in Seq(Byte) /\ Len(a) = 1
      BY OneByte
    <2>5. s \in Seq(Byte)
      OBVIOUS
    <2> HIDE DEF a, s
    <2>6. 2 + Len(s) = Len(a) + 1 + Len(s)
      BY <2>1, <2>4
    <2> QED
      BY <1>1, <1>4, <2>1, <2>3, <2>4, <2>5, <2>6, BeforeAString DEF Whole
  <1> QED
    BY <1>2, <1>3, <1>4

(* SUBSCRIBE and UNSUBSCRIBE: a topic of any of the four types.            *)
TopicOk(flags, topic) ==
  /\ TopicType(flags) = Normal     => topic \in Seq(Byte)
  /\ TopicType(flags) = Short      => topic \in Seq(Byte) /\ Len(topic) = 2
  /\ TopicType(flags) = Predefined => topic[1] \in Nat

LEMMA SubscribeFits ==
  ASSUME NEW p, p.type \in {"SUBSCRIBE", "UNSUBSCRIBE"}, p.f.flags \in Byte, p.f.msg_id \in Nat,
         TopicOk(p.f.flags, p.f.topic)
  PROVE  LengthFits(p)
  <1> DEFINE type == TopicType(p.f.flags)
             topic == p.f.topic
             id   == U16(topic[1])
             none == <<>>
             a    == <<p.f.flags>> \o U16(p.f.msg_id)
             x    == When(type \in {Normal, Short}, topic)
             y    == When(type = Predefined, id)
             n    == CASE type = Normal -> Len(topic)
                       [] type \in {Short, Predefined} -> 2
                       [] OTHER -> 0
  <1>1. SnBody(p) = a \o x \o y /\ SnLength(p) = SnVbiLength(4 + n)
    BY DEF SnBody, TopicBody, SnLength, TopicLength
  <1>2. Whole(p) /\ p.type \notin InOneByte
    BY DEF InOneByte, Whole, Unwritten, LeftOut
  <1>3. a \in Seq(Byte) /\ Len(a) = 3
    BY ByteWord
  <1>4. none \in Seq(Byte) /\ Len(none) = 0
    BY NoBytes
  <1>5. /\ type = Normal     => topic \in Seq(Byte)
        /\ type = Short      => topic \in Seq(Byte) /\ Len(topic) = 2
        /\ type = Predefined => topic[1] \in Nat
    BY DEF TopicOk
  <1>6. /\ x = IF type \in {Normal, Short} THEN topic ELSE none
        /\ y = IF type = Predefined THEN id ELSE none
    BY DEF When
  <1>7. type = Predefined => id \in Seq(Byte) /\ Len(id) = 2
    BY <1>5, Word
  <1> HIDE DEF type, topic, id, none, a, x, y
  <1>8. x \in Seq(Byte) /\ y \in Seq(Byte) /\ Len(x) + Len(y) = n /\ n \in Nat
    <2>1. CASE type = Normal
      <3>1. x = topic /\ y = none /\ n = Len(topic)
        BY <1>6, <2>1 DEF Normal, Predefined, Short
      <3> QED
        BY <1>4, <1>5, <2>1, <3>1
    <2>2. CASE type = Short
      <3>1. x = topic /\ y = none /\ n = 2
        BY <1>6, <2>2 DEF Normal, Predefined, Short
      <3> QED
        BY <1>4, <1>5, <2>2, <3>1
    <2>3. CASE type = Predefined
      <3>1. x = none /\ y = id /\ n = 2
        BY <1>6, <2>3 DEF Normal, Predefined, Short
      <3> QED
        BY <1>4, <1>7, <2>3, <3>1
    <2>4. CASE type \notin {Normal, Short, Predefined}
      <3>1. x = none /\ y = none /\ n = 0
        BY <1>6, <2>4
      <3> QED
        BY <1>4, <3>1
    <2> QED
      BY <2>1, <2>2, <2>3, <2>4
  <1> HIDE DEF n
  <1>9. x \o y \in Seq(Byte) /\ Len(x \o y) = n
    BY <1>8, Together
  <1>10. a \o x \o y = a \o (x \o y)
    BY <1>3, <1>8
  <1> DEFINE s == x \o y
  <1>11. s \in Seq(Byte) /\ Len(s) = n /\ SnBody(p) = a \o s
    BY <1>1, <1>9, <1>10
  <1> HIDE DEF s
  <1>12. 4 + n = Len(a) + 1 + Len(s)
    BY <1>3, <1>8, <1>11
  <1> QED
    BY <1>1, <1>2, <1>3, <1>11, <1>12, BeforeAString

(* PUBLISH: an identifier of a topic that is not written is counted.       *)
LEMMA PublishFits ==
  ASSUME NEW p, p.type = "PUBLISH", p.f.flags \in Byte, p.f.msg_id \in Nat,
         p.f.data \in Seq(Byte),
         TopicType(p.f.flags) = Short      => p.f.topic \in Seq(Byte) /\ Len(p.f.topic) = 2,
         TopicType(p.f.flags) = Predefined => p.f.topic[1] \in Nat
  PROVE  LengthFits(p)
  <1> DEFINE type == TopicType(p.f.flags)
             topic == p.f.topic
             id   == U16(topic[1])
             none == <<>>
             a    == <<p.f.flags>>
             x    == When(type = Short, topic)
             y    == When(type = Predefined, id)
             w    == U16(p.f.msg_id)
             data == p.f.data
             lost == If(Unwritten(p), 2)
  <1>1. SnBody(p) = a \o x \o y \o w \o data /\ SnLength(p) = SnVbiLength(6 + Len(data))
    BY DEF SnBody, SnPublishBody, SnLength
  <1>2. p.type \notin InOneByte
    BY DEF InOneByte
  <1>3. a \in Seq(Byte) /\ Len(a) = 1
    BY OneByte
  <1>4. none \in Seq(Byte) /\ Len(none) = 0
    BY NoBytes
  <1>5. w \in Seq(Byte) /\ Len(w) = 2
    BY Word
  <1>6. /\ type = Short      => topic \in Seq(Byte) /\ Len(topic) = 2
        /\ type = Predefined => id \in Seq(Byte) /\ Len(id) = 2
    BY Word
  <1>7. /\ x = IF type = Short THEN topic ELSE none
        /\ y = IF type = Predefined THEN id ELSE none
        /\ lost = IF type \notin {Predefined, Short} THEN 2 ELSE 0
    BY DEF When, Unwritten, If
  <1>8. data \in Seq(Byte) /\ Len(data) \in Nat
    BY LenProperties
  <1>9. Counted(p) = 1 + Len(SnBody(p)) + lost + 0
    BY DEF Counted, LeftOut, If
  <1> HIDE DEF type, topic, id, none, a, x, y, w, data, lost
  <1>10. x \in Seq(Byte) /\ y \in Seq(Byte) /\ lost \in {0, 2} /\ Len(x) + Len(y) + lost = 2
    <2>1. CASE type = Short
      <3>1. x = topic /\ y = none /\ lost = 0
        BY <1>7, <2>1 DEF Predefined, Short
      <3> QED
        BY <1>4, <1>6, <2>1, <3>1
    <2>2. CASE type = Predefined
      <3>1. x = none /\ y = id /\ lost = 0
        BY <1>7, <2>2 DEF Predefined, Short
      <3> QED
        BY <1>4, <1>6, <2>2, <3>1
    <2>3. CASE type \notin {Predefined, Short}
      <3>1. x = none /\ y = none /\ lost = 2
        BY <1>7, <2>3
      <3> QED
        BY <1>4, <3>1
    <2> QED
      BY <2>1, <2>2, <2>3
  <1> DEFINE b == a \o x
             c == b \o y
             d == c \o w
             e == d \o data
  <1>11. b \in Seq(Byte) /\ Len(b) = Len(a) + Len(x)
    BY <1>3, <1>10, Together
  <1> HIDE DEF b
  <1>12. c \in Seq(Byte) /\ Len(c) = Len(b) + Len(y)
    BY <1>10, <1>11, Together
  <1> HIDE DEF c
  <1>13. d \in Seq(Byte) /\ Len(d) = Len(c) + Len(w)
    BY <1>5, <1>12, Together
  <1> HIDE DEF d
  <1>14. e \in Seq(Byte) /\ Len(e) = Len(d) + Len(data)
    BY <1>8, <1>13, Together
  <1>15. SnBody(p) = e
    BY <1>1 DEF b, c, d
  <1> HIDE DEF e
  <1>16. Len(x) \in Nat /\ Len(y) \in Nat
    BY <1>10, LenProperties
  <1>17. Counted(p) = 6 + Len(data)
    BY <1>3, <1>5, <1>8, <1>9, <1>10, <1>11, <1>12, <1>13, <1>14, <1>15, <1>16
  <1> QED
    BY <1>1, <1>2, <1>14, <1>15, <1>17 DEF LengthFits
-----------------------------------------------------------------------------
(* All that an application can fill in.                                    *)
LEMMA TopicsFit ==
  ASSUME use \in DOMAIN Uses, NEW fl \in U.flags, NEW topic \in TopicsOf(fl)
  PROVE  TopicOk(fl, topic)
  <1>1. CASE TopicType(fl) = Short
    <2>1. topic = <<97, 98>>
      BY <1>1 DEF TopicsOf, Normal, Short, Predefined
    <2>2. topic \in Seq(Byte) /\ Len(topic) = 2
      BY <2>1 DEF Byte
    <2> QED
      BY <1>1, <2>2 DEF TopicOk, Normal, Short, Predefined
  <1>2. CASE TopicType(fl) = Predefined
    <2>1. PICK w \in U.words : topic = <<w>>
      BY <1>2 DEF TopicsOf, Normal, Short, Predefined
    <2>2. topic[1] \in Nat
      BY <2>1, Inputs, WordIsNat
    <2> QED
      BY <1>2, <2>2 DEF TopicOk, Normal, Short, Predefined
  <1>3. CASE TopicType(fl) = Normal
    <2>1. topic \in Seq(Byte)
      BY <1>3, Inputs DEF TopicsOf, Normal, Short, Predefined
    <2> QED
      BY <1>3, <2>1 DEF TopicOk, Normal, Short, Predefined
  <1>4. CASE TopicType(fl) \notin {Normal, Short, Predefined}
    BY <1>4 DEF TopicOk
  <1> QED
    BY <1>1, <1>2, <1>3, <1>4

LEMMA FillingFits ==
  ASSUME use \in DOMAIN Uses, NEW type \in SnTypes, NEW f \in Fillings(type),
         NEW p, p.type = type, p.f = f
  PROVE  LengthFits(p)
  <1>0. /\ U.strings \subseteq Seq(Byte)
        /\ U.flags \subseteq Byte /\ U.bytes \subseteq Byte /\ U.codes \subseteq Byte
        /\ \A w \in U.words : w \in Nat
    BY Inputs, WordIsNat
  <1> HIDE DEF U
  <1>1. CASE type \in {"WILLTOPICREQ", "WILLMSGREQ", "PINGRESP"}
    BY <1>1, EmptyFits
  <1>2. CASE type = "SEARCHGW"
    BY <1>0, <1>2, SearchgwFits DEF Fillings
  <1>3. CASE type \in {"CONNACK", "WILLTOPICRESP", "WILLMSGRESP"}
    BY <1>0, <1>3, CodeFits DEF Fillings
  <1>4. CASE type \in {"PUBREC", "PUBREL", "PUBCOMP", "UNSUBACK"}
    BY <1>0, <1>4, MsgIdFits DEF Fillings
  <1>5. CASE type = "ADVERTISE"
    BY <1>0, <1>5, AdvertiseFits DEF Fillings
  <1>6. CASE type \in {"REGACK", "PUBACK"}
    BY <1>0, <1>6, TopicAckFits DEF Fillings
  <1>7. CASE type = "SUBACK"
    BY <1>0, <1>7, SubackFits DEF Fillings
  <1>8. CASE type = "DISCONNECT"
    BY <1>0, <1>8, DisconnectFits DEF Fillings
  <1>9. CASE type = "GWINFO"
    BY <1>0, <1>9, GwinfoFits DEF Fillings
  <1>10. CASE type = "CONNECT"
    <2>1. f \in [flags : U.flags, protocol_id : {1}, duration : U.words, client_id : U.strings]
      BY <1>10 DEF Fillings
    <2>2. f.protocol_id \in Byte
      BY <2>1 DEF Byte
    <2> QED
      BY <1>0, <1>10, <2>1, <2>2, ConnectFits
  <1>11. CASE type = "PINGREQ"
    BY <1>0, <1>11, PingreqFits DEF Fillings
  <1>12. CASE type = "ENCAPSULATED"
    BY <1>0, <1>12, EncapsulatedFits DEF Fillings
  <1>13. CASE type = "REGISTER"
    BY <1>0, <1>13, RegisterFits DEF Fillings
  <1>14. CASE type \in {"WILLMSG", "WILLMSGUPD"}
    BY <1>0, <1>14, MessageFits DEF Fillings
  <1>15. CASE type \in {"WILLTOPIC", "WILLTOPICUPD"}
    BY <1>0, <1>15, WillTopicFits DEF Fillings
  <1>16. CASE type \in {"SUBSCRIBE", "UNSUBSCRIBE"}
    <2>1. PICK fl \in U.flags : f \in [flags : {fl}, msg_id : U.words, topic : TopicsOf(fl)]
      BY <1>16 DEF Fillings
    <2>2. f.flags = fl /\ f.msg_id \in U.words /\ f.topic \in TopicsOf(fl)
      BY <2>1
    <2>3. TopicOk(fl, f.topic)
      BY <2>2, TopicsFit
    <2> QED
      BY <1>0, <1>16, <2>2, <2>3, SubscribeFits
  <1>17. CASE type = "PUBLISH"
    <2>1. PICK fl \in U.flags :
            f \in [flags : {fl}, topic : IF TopicType(fl) = Normal THEN {<<w>> : w \in U.words}
                                         ELSE TopicsOf(fl),
                   msg_id : U.words, data : U.strings]
      BY <1>17 DEF Fillings
    <2>2. /\ f.flags = fl /\ f.msg_id \in U.words /\ f.data \in U.strings
          /\ TopicType(fl) # Normal => f.topic \in TopicsOf(fl)
      BY <2>1
    <2>3. TopicType(fl) # Normal => TopicOk(fl, f.topic)
      BY <2>2, TopicsFit
    <2>4. /\ TopicType(fl) = Short      => f.topic \in Seq(Byte) /\ Len(f.topic) = 2
          /\ TopicType(fl) = Predefined => f.topic[1] \in Nat
      BY <2>3 DEF TopicOk, Normal, Short, Predefined
    <2> QED
      BY <1>0, <1>17, <2>2, <2>4, PublishFits
  <1>18. SnTypes = {"ADVERTISE", "SEARCHGW", "GWINFO", "CONNECT", "CONNACK", "WILLTOPICREQ",
                    "WILLTOPIC", "WILLMSGREQ", "WILLMSG", "REGISTER", "REGACK", "PUBLISH",
                    "PUBACK", "PUBCOMP", "PUBREC", "PUBREL", "SUBSCRIBE", "SUBACK",
                    "UNSUBSCRIBE", "UNSUBACK", "PINGREQ", "PINGRESP", "DISCONNECT",
                    "WILLTOPICUPD", "WILLTOPICRESP", "WILLMSGUPD", "WILLMSGRESP",
                    "ENCAPSULATED"}
    BY DEF SnTypes, TypeByte
  <1> QED
    BY <1>1, <1>2, <1>3, <1>4, <1>5, <1>6, <1>7, <1>8, <1>9, <1>10, <1>11, <1>12, <1>13,
       <1>14, <1>15, <1>16, <1>17, <1>18
-----------------------------------------------------------------------------
(* A sequence stays one, and its last element is the one appended last.    *)
IsSeq(s) == s \in Seq(Range(s))

LEMMA EmptyIsSeq == IsSeq(<<>>)
  BY DEF IsSeq, Range

LEMMA AppendIsSeq ==
  ASSUME NEW s, IsSeq(s), NEW e
  PROVE  IsSeq(Append(s, e)) /\ Append(s, e)[Len(Append(s, e))] = e
  <1> DEFINE S == Range(s) \union {e}
             t == Append(s, e)
  <1>1. s \in Seq(S)
    <2>1. Range(s) \subseteq S
      OBVIOUS
    <2> HIDE DEF S
    <2> QED
      BY <2>1, SeqMonotonic DEF IsSeq
  <1>2. t \in Seq(S) /\ Len(t) = Len(s) + 1 /\ t[Len(t)] = e
    BY <1>1, AppendProperties
  <1>3. t \in Seq(Range(t))
    <2> HIDE DEF t, S
    <2>1. t \in [1..Len(t) -> S] /\ Len(t) \in Nat
      BY <1>2, LenProperties
    <2>2. t \in [1..Len(t) -> Range(t)]
      BY <2>1 DEF Range
    <2> QED
      BY <2>1, <2>2, SeqDef
  <1> QED
    BY <1>2, <1>3 DEF IsSeq

(* The inductive invariant: nothing but Send writes what it is about.      *)
ExactInv ==
  /\ use \in DOMAIN Uses
  /\ IsSeq(sent)
  /\ BufferExact

LEMMA ExactInit == Init => ExactInv
  <1> SUFFICES ASSUME Init PROVE ExactInv
    OBVIOUS
  <1>1. use \in DOMAIN Uses /\ sent = <<>>
    BY DEF Init
  <1> QED
    BY <1>1, EmptyIsSeq DEF ExactInv, BufferExact

LEMMA SendExact ==
  ASSUME ExactInv, Send
  PROVE  ExactInv'
  <1>1. PICK type \in U.types : \E f \in Fillings(type) :
          LET p == [SnPacketInit(type) EXCEPT !.f = f]
              s == SnSerialize(p)
          IN sent' = Append(sent, p) /\ size' = s.size /\ wrote' = Len(s.bytes)
    BY DEF Send
  <1>2. PICK f \in Fillings(type) :
          LET p == [SnPacketInit(type) EXCEPT !.f = f]
              s == SnSerialize(p)
          IN sent' = Append(sent, p) /\ size' = s.size /\ wrote' = Len(s.bytes)
    BY <1>1
  <1> DEFINE p == [SnPacketInit(type) EXCEPT !.f = f]
  <1>3. sent' = Append(sent, p) /\ size' = SnLength(p) /\ wrote' = Len(SnSerialize(p).bytes)
    BY <1>2 DEF SnSerialize
  <1>4. p.type = type /\ p.f = f
    BY DEF SnPacketInit
  <1> HIDE DEF p
  <1>5. use \in DOMAIN Uses /\ use' = use
    BY DEF ExactInv, Send
  <1>6. type \in SnTypes
    BY <1>5, LinkAssumption DEF U
  <1>7. Exact(p)
    <2>1. LeftOut(p) => p.f.topic_name \in Seq(Byte)
      BY <1>4, <1>5, Inputs DEF LeftOut, Fillings
    <2> QED
      BY <1>4, <1>5, <1>6, <2>1, FillingFits, ExactIfItFits, ExactIfLeftOut
  <1>8. IsSeq(sent') /\ sent'[Len(sent')] = p
    BY <1>3, AppendIsSeq DEF ExactInv
  <1>9. BufferExact'
    BY <1>3, <1>7, <1>8 DEF BufferExact, Exact, InOneByte
  <1> QED
    BY <1>5, <1>8, <1>9 DEF ExactInv

LEMMA OthersExact ==
  ASSUME ExactInv, Change \/ Parse \/ SnRead \/ UNCHANGED vars
  PROVE  ExactInv'
  <1>1. UNCHANGED <<use, size, wrote, sent>>
    <2>1. CASE Change
      BY <2>1 DEF Change
    <2>2. CASE Parse
      BY <2>2 DEF Parse, Return
    <2>3. CASE SnRead
      BY <2>3 DEF SnRead, Return
    <2>4. CASE UNCHANGED vars
      BY <2>4 DEF vars
    <2> QED
      BY <2>1, <2>2, <2>3, <2>4
  <1> QED
    BY <1>1 DEF ExactInv, BufferExact

(* mqtt_sn_serialize fills the buffer it has allocated, and writes the     *)
(* length of the packet first, for every packet that an application can    *)
(* make of strings of any length and words of sixteen bits, except in the  *)
(* cases that BufferExact names, and in all of those it does not.          *)
THEOREM BuffersAreExact == Spec => []BufferExact
  <1>1. ExactInv /\ [Next]_vars => ExactInv'
    BY SendExact, OthersExact DEF Next
  <1>2. ExactInv => BufferExact
    BY DEF ExactInv
  <1> QED
    BY ExactInit, <1>1, <1>2, PTL DEF Spec
=============================================================================
