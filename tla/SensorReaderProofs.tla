-------------------------- MODULE SensorReaderProofs --------------------------
(***************************************************************************)
(* The sensor thread for every value of the constants: any length of a     *)
(* frame, any readings, any noise, any number of damaged frames.  Its      *)
(* variables keep their types, and damage is paid for once: the intact     *)
(* frames it misses are no more than the frames that are damaged, cut or   *)
(* ambiguous and come before one of them.                                  *)
(*                                                                         *)
(* The argument for the second: every intact frame the reader has passed   *)
(* without publishing it has an excuse, an earlier frame whose bytes it    *)
(* was still taking for a frame when the first byte of the intact one came *)
(* by, and no two have the same, since what the reader takes for a frame   *)
(* is no longer than one and so covers the first byte of one intact frame  *)
(* at most.                                                                *)
(***************************************************************************)
EXTENDS SensorReader, SequenceTheorems, FiniteSetTheorems, WellFoundedInduction, TLAPS

-----------------------------------------------------------------------------
(* Induction over the natural numbers, from the well-foundedness of <.     *)
Below == {ss \in Nat \X Nat : ss[1] < ss[2]}

LEMMA BelowIsWellFounded == IsWellFoundedOn(Below, Nat)
<1>1. IsWellFoundedOn(OpToRel(<, Nat), Nat)  BY NatLessThanWellFounded
<1>2. Below = OpToRel(<, Nat)  BY DEF Below, OpToRel
<1> QED  BY <1>1, <1>2

LEMMA Least ==
  ASSUME NEW T, T \subseteq Nat, T # {}
  PROVE  \E x \in T : \A y \in T : x <= y
<1>1. PICK x \in T : \A y \in T : <<y, x>> \notin Below
  BY BelowIsWellFounded, WFMin
<1>2. ASSUME NEW y \in T PROVE x <= y
  <2>1. <<y, x>> \notin Below /\ x \in Nat /\ y \in Nat  BY <1>1
  <2> QED  BY <2>1 DEF Below
<1> QED  BY <1>2

LEMMA Induction ==
  ASSUME NEW S, 0 \in S, \A k \in Nat : k \in S => k + 1 \in S
  PROVE  \A k \in Nat : k \in S
<1> SUFFICES ASSUME NEW T, T = {k \in Nat : k \notin S}, T # {} PROVE FALSE
  OBVIOUS
<1>1. PICK x \in T : \A y \in T : x <= y  BY Least
<1>2. x \in Nat /\ x # 0 /\ x - 1 \in Nat  OBVIOUS
<1>3. x - 1 \in S  BY <1>1, <1>2
<1> QED  BY <1>2, <1>3
-----------------------------------------------------------------------------
(* The sum of a frame is a number of 16 bits.                              *)
Partial(s, n, f) == f = [i \in 0..n |-> IF i = 0 THEN 0 ELSE f[i - 1] + s[i]]

LEMMA PartialExists ==
  ASSUME NEW s \in Seq(Int)
  PROVE  \E f : Partial(s, Len(s), f)
<1> DEFINE S == {n \in Nat : \E f : Partial(s, n, f)}
<1>1. 0 \in S
  <2>1. PICK f : f = [i \in 0..0 |-> 0]  OBVIOUS
  <2>2. Partial(s, 0, f)  BY <2>1 DEF Partial
  <2> QED  BY <2>2
<1>2. ASSUME NEW n \in Nat, n \in S PROVE n + 1 \in S
  <2>1. PICK f : Partial(s, n, f)  BY <1>2
  <2>2. PICK g : g = [i \in 0..(n + 1) |-> IF i <= n THEN f[i] ELSE f[n] + s[n + 1]]  OBVIOUS
  <2>3. ASSUME NEW i \in 0..(n + 1)
        PROVE  g[i] = IF i = 0 THEN 0 ELSE g[i - 1] + s[i]
    <3>1. CASE i = 0  BY <2>1, <2>2, <3>1 DEF Partial
    <3>2. CASE i # 0 /\ i <= n
      <4>1. i - 1 \in 0..n /\ i \in 0..n /\ i - 1 \in 0..(n + 1)  BY <3>2
      <4>2. f[i] = f[i - 1] + s[i]  BY <2>1, <3>2, <4>1 DEF Partial
      <4> QED  BY <2>2, <3>2, <4>1, <4>2
    <3>3. CASE i = n + 1
      <4>1. n \in 0..(n + 1) /\ i - 1 = n /\ ~(i <= n)  BY <3>3
      <4> QED  BY <2>2, <3>3, <4>1
    <3> QED  BY <3>1, <3>2, <3>3
  <2>4. Partial(s, n + 1, g)  BY <2>2, <2>3 DEF Partial
  <2> QED  BY <2>4
<1> HIDE DEF S
<1>3. Len(s) \in S  BY <1>1, <1>2, Induction
<1> QED  BY <1>3 DEF S
LEMMA PartialIsInt ==
  ASSUME NEW s \in Seq(Int), NEW f, Partial(s, Len(s), f)
  PROVE  \A n \in 0..Len(s) : f[n] \in Int
<1> DEFINE S == {n \in Nat : n <= Len(s) => f[n] \in Int}
<1>1. 0 \in S  BY DEF Partial
<1>2. ASSUME NEW n \in Nat, n \in S PROVE n + 1 \in S
  <2> SUFFICES ASSUME n + 1 <= Len(s) PROVE f[n + 1] \in Int  OBVIOUS
  <2>1. n + 1 \in 1..Len(s) /\ n + 1 \in 0..Len(s) /\ n + 1 # 0 /\ (n + 1) - 1 = n  OBVIOUS
  <2>2. f[n] \in Int /\ s[n + 1] \in Int  BY <1>2, <2>1
  <2>3. f[n + 1] = f[n] + s[n + 1]  BY <2>1 DEF Partial
  <2> QED  BY <2>2, <2>3
<1> HIDE DEF S
<1>3. \A n \in Nat : n \in S  BY <1>1, <1>2, Induction
<1> QED  BY <1>3 DEF S

LEMMA ByteIsInt == Byte \subseteq Int
BY DEF Byte

(* The values of an unsigned short.                                        *)
Short == 0..65535

LEMMA Modulo ==
  ASSUME NEW x \in Int
  PROVE  x % 65536 \in Short
BY DEF Short

LEMMA BytesOfShort ==
  ASSUME NEW n \in Short
  PROVE  n \div 256 \in Byte /\ n % 256 \in Byte
<1>1. n \in Nat /\ n < 65536  BY DEF Short
<1>2. n \div 256 \in Nat /\ n % 256 \in 0..255  BY <1>1
<1>3. n \div 256 <= 255  BY <1>1
<1> QED  BY <1>2, <1>3 DEF Byte

LEMMA SumType ==
  ASSUME NEW s \in Seq(Byte)
  PROVE  Sum(s) \in Short
<1> DEFINE f == CHOOSE f : f = [i \in 0..Len(s) |-> IF i = 0 THEN 0 ELSE f[i - 1] + s[i]]
<1>1. s \in Seq(Int)  BY ByteIsInt, SeqMonotonic
<1>2. Partial(s, Len(s), f)  BY <1>1, PartialExists DEF Partial
<1>3. Sum(s) = f[Len(s)] % 65536  BY DEF Sum
<1> HIDE DEF f
<1>4. Len(s) \in 0..Len(s)  OBVIOUS
<1>5. PICK x \in Int : x = f[Len(s)]  BY <1>1, <1>2, <1>4, PartialIsInt
<1> QED  BY <1>3, <1>5, Modulo

LEMMA Pair ==
  ASSUME NEW S, NEW a \in S, NEW b \in S
  PROVE  <<a, b>> \in Seq(S) /\ Len(<<a, b>>) = 2 /\ <<a, b>>[1] = a /\ <<a, b>>[2] = b
OBVIOUS

LEMMA WordType ==
  ASSUME NEW n \in Short
  PROVE  \E a, b \in Byte : Word(n) = <<a, b>>
<1>1. PICK a, b : a = n \div 256 /\ b = n % 256  OBVIOUS
<1>2. a \in Byte /\ b \in Byte  BY <1>1, BytesOfShort
<1>3. Word(n) = <<a, b>>  BY <1>1 DEF Word
<1> QED  BY <1>2, <1>3
-----------------------------------------------------------------------------
(* The frames.                                                             *)
LEMMA WordsIsNat ==
  /\ Words \in Nat /\ Words > 0 /\ 2 * Words \in Nat /\ 2 * Words + 2 \in 0..255
  /\ Whole \in Nat /\ Whole = 6 + 2 * Words /\ Whole >= 8
BY FrameAssumption DEF Whole

LEMMA ReadingIsSeq ==
  ASSUME NEW r \in [1..(2 * Words) -> Byte]
  PROVE  r \in Seq(Byte) /\ Len(r) = 2 * Words
BY WordsIsNat

LEMMA HeadType ==
  /\ Head4 \in Seq(Byte) /\ Len(Head4) = 4
  /\ Head4[1] = START1 /\ Head4[2] = START2
  /\ <<Head4[3], Head4[4]>> = Word(2 * Words + 2)
<1>1. PICK a \in Byte, b \in Byte : Word(2 * Words + 2) = <<a, b>>
  <2>1. PICK n \in Short : n = 2 * Words + 2  BY WordsIsNat DEF Short
  <2>2. \E a, b \in Byte : Word(n) = <<a, b>>  BY WordType
  <2> QED  BY <2>1, <2>2, Zenon
<1>2. PICK w : w = <<a, b>>  OBVIOUS
<1>3. w \in Seq(Byte) /\ Len(w) = 2 /\ w[1] = a /\ w[2] = b  BY <1>2, Pair
<1>4. PICK s : s = <<START1, START2>>  OBVIOUS
<1>5. s \in Seq(Byte) /\ Len(s) = 2 /\ s[1] = START1 /\ s[2] = START2
  <2>1. START1 \in Byte /\ START2 \in Byte  BY DEF START1, START2, Byte
  <2> QED  BY <1>4, <2>1, Pair
<1>6. Head4 = s \o w  BY <1>1, <1>2, <1>4, Zenon DEF Head4
<1>7. /\ s \o w \in Seq(Byte) /\ Len(s \o w) = 4
      /\ (s \o w)[1] = s[1] /\ (s \o w)[2] = s[2] /\ (s \o w)[3] = w[1] /\ (s \o w)[4] = w[2]
  <2>1. /\ s \o w \in Seq(Byte) /\ Len(s \o w) = 2 + 2
        /\ \A i \in 1..(2 + 2) : (s \o w)[i] = IF i <= 2 THEN s[i] ELSE w[i - 2]
    <3>1. /\ s \o w \in Seq(Byte) /\ Len(s \o w) = Len(s) + Len(w)
          /\ \A i \in 1..(Len(s) + Len(w)) :
               (s \o w)[i] = IF i <= Len(s) THEN s[i] ELSE w[i - Len(s)]
      BY <1>3, <1>5, ConcatProperties
    <3> QED  BY <1>3, <1>5, <3>1
  <2> QED  BY <2>1
<1>8. <<Head4[3], Head4[4]>> = <<a, b>>
  <2>1. Head4[3] = a /\ Head4[4] = b  BY <1>3, <1>6, <1>7
  <2> QED  BY <2>1
<1>9. Head4[1] = START1 /\ Head4[2] = START2  BY <1>5, <1>6, <1>7
<1> QED  BY <1>1, <1>6, <1>7, <1>8, <1>9

(* A frame has its head, its data, and the sum of both.                    *)
LEMMA FrameParts ==
  ASSUME NEW r \in [1..(2 * Words) -> Byte]
  PROVE  LET f == Frame(r) IN
         /\ f \in Seq(Byte) /\ Len(f) = Whole
         /\ f[1] = START1 /\ f[2] = START2 /\ <<f[3], f[4]>> = Word(2 * Words + 2)
         /\ SubSeq(f, 5, 4 + 2 * Words) = r
         /\ <<f[Whole - 1], f[Whole]>> = Word(Sum(SubSeq(f, 1, Whole - 2)))
<1>1. PICK N \in Nat : N = 2 * Words  BY WordsIsNat
<1>2. r \in Seq(Byte) /\ Len(r) = N  BY <1>1, ReadingIsSeq
<1>3. PICK h : h = Head4  OBVIOUS
<1>4. h \in Seq(Byte) /\ Len(h) = 4  BY <1>3, HeadType
<1>5. PICK b : b = h \o r  OBVIOUS
<1>6. /\ b \in Seq(Byte) /\ Len(b) = 4 + N
      /\ \A i \in 1..(4 + N) : b[i] = IF i <= 4 THEN h[i] ELSE r[i - 4]
  <2>1. /\ b \in Seq(Byte) /\ Len(b) = Len(h) + Len(r)
        /\ \A i \in 1..(Len(h) + Len(r)) :
             b[i] = IF i <= Len(h) THEN h[i] ELSE r[i - Len(h)]
    BY <1>2, <1>4, <1>5, ConcatProperties
  <2> QED  BY <1>2, <1>4, <2>1
<1>7. PICK c \in Byte, d \in Byte : Word(Sum(b)) = <<c, d>>
  <2>1. PICK n : n = Sum(b)  OBVIOUS
  <2>2. n \in Short  BY <1>6, <2>1, SumType
  <2>3. \E c, d \in Byte : Word(n) = <<c, d>>  BY <2>2, WordType
  <2> QED  BY <2>1, <2>3, Zenon
<1> DEFINE w == <<c, d>>
<1>8. w \in Seq(Byte) /\ Len(w) = 2 /\ w[1] = c /\ w[2] = d  BY Pair
<1> HIDE DEF w
<1>9. PICK f : f = b \o w  OBVIOUS
<1>10. /\ f \in Seq(Byte) /\ Len(f) = 6 + N
       /\ \A i \in 1..(6 + N) : f[i] = IF i <= 4 + N THEN b[i] ELSE w[i - (4 + N)]
  <2>1. /\ f \in Seq(Byte) /\ Len(f) = Len(b) + Len(w)
        /\ \A i \in 1..(Len(b) + Len(w)) :
             f[i] = IF i <= Len(b) THEN b[i] ELSE w[i - Len(b)]
    BY <1>6, <1>8, <1>9, ConcatProperties
  <2>2. Len(b) = 4 + N /\ Len(b) + Len(w) = 6 + N  BY <1>6, <1>8
  <2> QED  BY <2>1, <2>2
<1>11. Frame(r) = f  BY <1>3, <1>5, <1>7, <1>9, Zenon DEF Frame, w
<1>12. Whole = 6 + N  BY <1>1, WordsIsNat
<1>13. f[1] = h[1] /\ f[2] = h[2] /\ f[3] = h[3] /\ f[4] = h[4]  BY <1>6, <1>10
<1>14. SubSeq(f, 5, 4 + N) = r
  <2>1. \A i \in 5..(4 + N) : f[i] \in Byte  BY <1>10
  <2>2. PICK t : t = SubSeq(f, 5, 4 + N)  OBVIOUS
  <2>3. t \in Seq(Byte) /\ Len(t) = N /\ \A i \in 1..N : t[i] = f[i + 4]
    <3>1. /\ t \in Seq(Byte) /\ Len(t) = IF 5 <= 4 + N THEN (4 + N) - 5 + 1 ELSE 0
          /\ \A i \in 1..((4 + N) - 5 + 1) : t[i] = f[5 + i - 1]
      BY <2>1, <2>2, SubSeqProperties
    <3>2. \A i \in 1..N : i \in 1..((4 + N) - 5 + 1) /\ 5 + i - 1 = i + 4  OBVIOUS
    <3>3. Len(t) = N  BY <3>1
    <3> QED  BY <3>1, <3>2, <3>3
  <2>4. ASSUME NEW i \in 1..N PROVE t[i] = r[i]
    <3>1. i + 4 \in 1..(6 + N) /\ i + 4 <= 4 + N /\ i + 4 \in 1..(4 + N) /\ ~(i + 4 <= 4)
          /\ (i + 4) - 4 = i
      OBVIOUS
    <3>2. f[i + 4] = b[i + 4]  BY <1>10, <3>1
    <3>3. b[i + 4] = r[i]  BY <1>6, <3>1
    <3> QED  BY <2>3, <3>2, <3>3
  <2>5. t = r  BY <1>2, <2>3, <2>4, SeqEqual
  <2> QED  BY <2>2, <2>5
<1>15. SubSeq(f, 1, 4 + N) = b
  <2>1. \A i \in 1..(4 + N) : f[i] \in Byte  BY <1>10
  <2>2. PICK t : t = SubSeq(f, 1, 4 + N)  OBVIOUS
  <2>3. t \in Seq(Byte) /\ Len(t) = 4 + N /\ \A i \in 1..(4 + N) : t[i] = f[i]
    BY <2>1, <2>2, SubSeqProperties
  <2>4. \A i \in 1..(4 + N) : t[i] = b[i]  BY <1>10, <2>3
  <2>5. t = b  BY <1>6, <2>3, <2>4, SeqEqual
  <2> QED  BY <2>2, <2>5
<1>16. f[5 + N] = c /\ f[6 + N] = d  BY <1>8, <1>10
<1>17. (6 + N) - 1 = 5 + N /\ (6 + N) - 2 = 4 + N  OBVIOUS
<1>18. <<f[Whole - 1], f[Whole]>> = Word(Sum(SubSeq(f, 1, Whole - 2)))
  <2>1. f[Whole - 1] = c /\ f[Whole] = d  BY <1>12, <1>16, <1>17
  <2>2. SubSeq(f, 1, Whole - 2) = b  BY <1>12, <1>15, <1>17
  <2> QED  BY <1>7, <2>1, <2>2, Zenon
<1>19. f[1] = START1 /\ f[2] = START2 /\ <<f[3], f[4]>> = Word(2 * Words + 2)
  BY <1>3, <1>13, HeadType
<1>20. SubSeq(f, 5, 4 + 2 * Words) = r /\ Len(f) = Whole  BY <1>1, <1>10, <1>12, <1>14
<1> QED  BY <1>10, <1>11, <1>18, <1>19, <1>20

LEMMA EncodedType ==
  ASSUME NEW n \in Frames
  PROVE  /\ Readings[n] \in [1..(2 * Words) -> Byte]
         /\ Encoded[n] \in Seq(Byte) /\ Len(Encoded[n]) = Whole
         /\ Encoded[n][1] = START1
         /\ \A k \in 1..Whole : Encoded[n][k] \in Byte
         /\ Data(Encoded[n]) = Readings[n]
<1>1. Readings[n] \in [1..(2 * Words) -> Byte]  BY FrameAssumption DEF Frames
<1>2. Encoded[n] = Frame(Readings[n])  BY DEF Encoded
<1> QED  BY <1>1, <1>2, FrameParts DEF Data

(* What the reader has of a frame at any point of it is acceptable.        *)
LEMMA PrefixAcceptable ==
  ASSUME NEW n \in Frames, NEW k \in 1..Whole
  PROVE  Acceptable(SubSeq(Encoded[n], 1, k))
<1>1. PICK e : e = Encoded[n]  OBVIOUS
<1>2. PICK r \in [1..(2 * Words) -> Byte] : e = Frame(r)
  BY <1>1, EncodedType DEF Encoded
<1>3. /\ e \in Seq(Byte) /\ Len(e) = Whole
      /\ e[1] = START1 /\ e[2] = START2 /\ <<e[3], e[4]>> = Word(2 * Words + 2)
      /\ <<e[Whole - 1], e[Whole]>> = Word(Sum(SubSeq(e, 1, Whole - 2)))
  BY <1>2, FrameParts
<1>4. PICK f : f = SubSeq(e, 1, k)  OBVIOUS
<1>5. f \in Seq(Byte) /\ Len(f) = k /\ \A i \in 1..k : f[i] = e[i]
  <2>1. \A i \in 1..k : e[i] \in Byte  BY <1>3
  <2> QED  BY <1>4, <2>1, WordsIsNat, SubSeqProperties
<1>6. ASSUME k = Whole
      PROVE  <<f[Whole - 1], f[Whole]>> = Word(Sum(SubSeq(f, 1, Whole - 2)))
  <2>1. f = e  BY <1>3, <1>4, <1>6, SubSeqFull
  <2> QED  BY <1>3, <2>1
<1>7. k = 1 => f[1] = START1  BY <1>3, <1>5
<1>8. k = 2 => f[2] = START2  BY <1>3, <1>5
<1>9. k = 4 => <<f[3], f[4]>> = Word(2 * Words + 2)
  <2>1. k = 4 => f[3] = e[3] /\ f[4] = e[4]  BY <1>5
  <2> QED  BY <1>3, <2>1
<1>10. Acceptable(f)  BY <1>5, <1>6, <1>7, <1>8, <1>9 DEF Acceptable
<1> QED  BY <1>1, <1>4, <1>10

(* A call of uart_read ends at the end of the frame at the latest, and     *)
(* the first is for one byte.                                              *)
LEMMA WantedType ==
  ASSUME NEW m \in Nat, Len(frame) = m, m < Whole
  PROVE  Wanted \in 1..(Whole - m) /\ (m = 0 => Wanted = 1)
<1> DEFINE T == {n \in Stops : n > Len(frame)}
<1>1. T \subseteq Nat /\ T # {} /\ Whole \in T /\ (m = 0 => 1 \in T)
  BY WordsIsNat DEF Stops
<1>2. PICK x \in T : \A y \in T : x <= y  BY <1>1, Least
<1>3. PICK z : z = Min(T)  OBVIOUS
<1>4. z \in T /\ \A y \in T : z <= y  BY <1>2, <1>3 DEF Min
<1>5. Wanted = z - m  BY <1>3 DEF Wanted
<1>6. z \in Nat /\ z > m /\ z <= Whole /\ (m = 0 => z <= 1)  BY <1>1, <1>4
<1> QED  BY <1>5, <1>6, WordsIsNat

LEMMA MinOfTwo ==
  ASSUME NEW a \in Int, NEW b \in Int
  PROVE  Min({a, b}) = IF a <= b THEN a ELSE b
<1>1. PICK z : z = Min({a, b})  OBVIOUS
<1>2. \E x \in {a, b} : \A y \in {a, b} : x <= y
  <2>1. CASE a <= b  BY <2>1
  <2>2. CASE ~(a <= b)  BY <2>2
  <2> QED  BY <2>1, <2>2
<1>3. z \in {a, b} /\ \A y \in {a, b} : z <= y  BY <1>1, <1>2 DEF Min
<1> QED  BY <1>1, <1>3
-----------------------------------------------------------------------------
(* The types.                                                              *)

(* The places of the bytes of the first s frames.                          *)
Places(s) == [of : 1..s, at : 0..Whole]

LEMMA PlacesGrow ==
  ASSUME NEW s \in Nat, NEW o \in Seq(Places(s))
  PROVE  o \in Seq(Places(s + 1))
<1>1. Places(s) \subseteq Places(s + 1)  BY DEF Places
<1> QED  BY <1>1, SeqMonotonic

LEMMA Dropped ==
  ASSUME NEW S, NEW s \in Seq(S), NEW n \in 0..Len(s)
  PROVE  /\ SubSeq(s, n + 1, Len(s)) \in Seq(S)
         /\ Len(SubSeq(s, n + 1, Len(s))) = Len(s) - n
         /\ \A i \in 1..(Len(s) - n) : SubSeq(s, n + 1, Len(s))[i] = s[n + i]
<1>1. PICK L \in Nat : L = Len(s)  OBVIOUS
<1>2. \A i \in (n + 1)..L : s[i] \in S  BY <1>1
<1>3. PICK t : t = SubSeq(s, n + 1, L)  OBVIOUS
<1>4. /\ t \in Seq(S) /\ Len(t) = IF n + 1 <= L THEN L - (n + 1) + 1 ELSE 0
      /\ \A i \in 1..(L - (n + 1) + 1) : t[i] = s[(n + 1) + i - 1]
  BY <1>1, <1>2, <1>3, SubSeqProperties
<1>5. Len(t) = L - n  BY <1>1, <1>4
<1>6. ASSUME NEW i \in 1..(L - n) PROVE t[i] = s[n + i]
  <2>1. i \in 1..(L - (n + 1) + 1) /\ (n + 1) + i - 1 = n + i  BY <1>1
  <2> QED  BY <1>4, <2>1
<1> QED  BY <1>1, <1>3, <1>4, <1>5, <1>6

LEMMA Taken ==
  ASSUME NEW S, NEW s \in Seq(S), NEW n \in 0..Len(s)
  PROVE  /\ SubSeq(s, 1, n) \in Seq(S) /\ Len(SubSeq(s, 1, n)) = n
         /\ \A i \in 1..n : SubSeq(s, 1, n)[i] = s[i]
<1>1. \A i \in 1..n : s[i] \in S  OBVIOUS
<1> QED  BY <1>1, SubSeqProperties

(* What Arrive puts behind the line: the first m bytes, and their places.  *)
Behind(bytes, whole, m) ==
  /\ Len(line') = Len(line) + m /\ Len(origin') = Len(origin) + m
  /\ \A i \in 1..Len(line) : line'[i] = line[i] /\ origin'[i] = origin[i]
  /\ \A k \in 1..m : /\ line'[Len(line) + k] = bytes[k]
                     /\ origin'[Len(line) + k] =
                          [of |-> sent + 1, at |-> IF whole THEN k ELSE 0]

LEMMA ArriveType ==
  ASSUME TypeOK, NEW bytes \in Seq(Byte), NEW whole \in BOOLEAN,
         whole => Len(bytes) = Whole, Arrive(bytes, whole)
  PROVE  /\ line' \in Seq(Byte) /\ Len(line') <= BufferSize
         /\ origin' \in Seq(Places(sent + 1)) /\ Len(origin') = Len(line')
         /\ \E m \in 0..Len(bytes) :
              /\ Behind(bytes, whole, m)
              /\ Len(line) + Len(bytes) <= BufferSize => m = Len(bytes)
<1>1. /\ line \in Seq(Byte) /\ Len(line) <= BufferSize /\ BufferSize \in Nat /\ sent \in Nat
      /\ origin \in Seq(Places(sent)) /\ Len(origin) = Len(line)
  BY FrameAssumption DEF TypeOK, Places
<1>2. PICK B \in Nat, L \in Nat : B = Len(bytes) /\ L = Len(line)  BY <1>1
<1>3. PICK m : m = Min({B, BufferSize - L})  OBVIOUS
<1>4. m \in 0..B /\ m <= BufferSize - L /\ (L + B <= BufferSize => m = B)
  <2>1. m = IF B <= BufferSize - L THEN B ELSE BufferSize - L  BY <1>1, <1>2, <1>3, MinOfTwo
  <2> QED  BY <1>1, <1>2, <2>1
<1>5. PICK kept : kept = SubSeq(bytes, 1, m)  OBVIOUS
<1>6. kept \in Seq(Byte) /\ Len(kept) = m /\ \A i \in 1..m : kept[i] = bytes[i]
  BY <1>2, <1>4, <1>5, Taken
<1>7. PICK o : o = [k \in 1..m |-> [of |-> sent + 1, at |-> IF whole THEN k ELSE 0]]
  OBVIOUS
<1>8. o \in Seq(Places(sent + 1)) /\ Len(o) = m
  <2>1. ASSUME NEW k \in 1..m PROVE o[k] \in Places(sent + 1)
    <3>1. sent + 1 \in 1..(sent + 1)  BY <1>1
    <3>2. (IF whole THEN k ELSE 0) \in 0..Whole  BY <1>2, <1>4, WordsIsNat
    <3> QED  BY <1>7, <3>1, <3>2 DEF Places
  <2>2. m \in Nat  BY <1>4
  <2>3. o \in [1..m -> Places(sent + 1)]  BY <1>7, <2>1
  <2> QED  BY <2>2, <2>3
<1>9. line' = line \o kept /\ origin' = origin \o o
  BY <1>2, <1>3, <1>5, <1>6, <1>7, Zenon DEF Arrive
<1>10. /\ line' \in Seq(Byte) /\ Len(line') = L + m
       /\ \A i \in 1..(L + m) : line'[i] = IF i <= L THEN line[i] ELSE kept[i - L]
  BY <1>1, <1>2, <1>6, <1>9, ConcatProperties
<1>11. /\ origin' \in Seq(Places(sent + 1)) /\ Len(origin') = L + m
       /\ \A i \in 1..(L + m) : origin'[i] = IF i <= L THEN origin[i] ELSE o[i - L]
  <2>1. origin \in Seq(Places(sent + 1)) /\ Len(origin) = L  BY <1>1, <1>2, PlacesGrow
  <2> QED  BY <1>8, <1>9, <2>1, ConcatProperties
<1>12. Behind(bytes, whole, m)
  <2>1. ASSUME NEW i \in 1..L PROVE line'[i] = line[i] /\ origin'[i] = origin[i]
    <3>1. i \in 1..(L + m) /\ i <= L  BY <1>4
    <3> QED  BY <1>10, <1>11, <3>1
  <2>2. ASSUME NEW k \in 1..m
        PROVE  /\ line'[L + k] = bytes[k]
               /\ origin'[L + k] = [of |-> sent + 1, at |-> IF whole THEN k ELSE 0]
    <3>1. L + k \in 1..(L + m) /\ ~(L + k <= L) /\ (L + k) - L = k  BY <1>4
    <3>2. line'[L + k] = kept[k] /\ origin'[L + k] = o[k]  BY <1>10, <1>11, <3>1
    <3> QED  BY <1>6, <1>7, <3>2
  <2>3. Len(line') = L + m /\ Len(origin') = L + m /\ Len(origin) = L
    BY <1>1, <1>2, <1>10, <1>11
  <2> QED  BY <1>2, <2>1, <2>2, <2>3, Zenon DEF Behind
<1>13. Len(line') <= BufferSize  BY <1>1, <1>4, <1>10
<1> QED  BY <1>2, <1>4, <1>10, <1>11, <1>12, <1>13

LEMMA Suffix ==
  ASSUME NEW n \in Frames, NEW k \in 2..Whole
  PROVE  SubSeq(Encoded[n], k, Whole) \in Seq(Byte)
<1>1. \A i \in k..Whole : Encoded[n][i] \in Byte  BY EncodedType, WordsIsNat
<1> QED  BY <1>1, WordsIsNat, SubSeqProperties

LEMMA DamagedType ==
  ASSUME NEW f \in Seq(Byte), NEW bytes \in Damaged(f)
  PROVE  bytes \in Seq(Byte)
<1> DEFINE Lost    == {Without(f, k, n) : k \in DOMAIN f, n \in DOMAIN f}
           Changed == {[f EXCEPT ![k] = b] : k \in DOMAIN f, b \in Noise}
           Added   == {<<b>> \o f : b \in Noise}
<1>1. bytes \in Lost \/ bytes \in Changed \/ bytes \in Added
  <2>1. Damaged(f) = (Lost \cup Changed) \cup Added  BY DEF Damaged
  <2> HIDE DEF Lost, Changed, Added
  <2> QED  BY <2>1
<1>2. CASE bytes \in Lost
  <2>1. PICK k \in DOMAIN f, n \in DOMAIN f : bytes = Without(f, k, n)
    BY <1>2
  <2> HIDE DEF Lost
  <2>2. PICK L \in Nat : L = Len(f) /\ k \in 1..L /\ n \in 1..L  OBVIOUS
  <2>3. SubSeq(f, 1, k - 1) \in Seq(Byte)
    <3>1. k - 1 \in 0..Len(f)  BY <2>2
    <3> QED  BY <3>1, Taken
  <2>4. SubSeq(f, k + n, Len(f)) \in Seq(Byte)
    <3>1. k + n \in Nat \ {0}  BY <2>2
    <3>2. \A i \in (k + n)..Len(f) : f[i] \in Byte  BY <2>2
    <3> QED  BY <2>2, <3>1, <3>2, SubSeqProperties
  <2> QED  BY <2>1, <2>3, <2>4, ConcatProperties DEF Without
<1>3. CASE bytes \in Changed
  <2>1. PICK k \in DOMAIN f, b \in Noise : bytes = [f EXCEPT ![k] = b]
    BY <1>3
  <2>2. b \in Byte  BY FrameAssumption
  <2> HIDE DEF Changed
  <2> QED  BY <2>1, <2>2
<1>4. CASE bytes \in Added
  <2>1. PICK b \in Noise : bytes = <<b>> \o f  BY <1>4
  <2>2. b \in Byte  BY FrameAssumption
  <2>3. <<b>> \in Seq(Byte)  BY <2>2
  <2> QED  BY <2>1, <2>3, ConcatProperties
<1> HIDE DEF Lost, Changed, Added
<1> QED  BY <1>1, <1>2, <1>3, <1>4

(* What a call of uart_read gets.                                          *)
Got == Min({Wanted, Len(line)})

LEMMA GotType ==
  ASSUME TypeOK, line # <<>>
  PROVE  /\ Len(frame) \in Nat /\ Len(line) \in Nat /\ Got \in 1..Len(line)
         /\ Len(frame) + Got <= Whole
         /\ frame = <<>> => Got = 1
<1>1. PICK m \in Nat, L \in Nat : m = Len(frame) /\ L = Len(line)  BY DEF TypeOK
<1>2. L # 0 /\ m < Whole /\ (frame = <<>> => m = 0)  BY <1>1 DEF TypeOK
<1>3. Wanted \in 1..(Whole - m) /\ (m = 0 => Wanted = 1)  BY <1>1, <1>2, WantedType
<1>4. PICK w \in Int : w = Wanted  BY <1>3
<1>5. Got = IF w <= L THEN w ELSE L  BY <1>1, <1>4, MinOfTwo DEF Got
<1>6. w \in 1..(Whole - m) /\ (m = 0 => w = 1)  BY <1>3, <1>4
<1> QED  BY <1>1, <1>2, <1>5, <1>6, WordsIsNat

(* The bytes of the frame after it.                                        *)
Longer == frame \o SubSeq(line, 1, Got)

LEMMA LongerType ==
  ASSUME TypeOK, line # <<>>
  PROVE  /\ Longer \in Seq(Byte) /\ Len(Longer) = Len(frame) + Got /\ Len(Longer) <= Whole
         /\ \A i \in 1..Len(frame) : Longer[i] = frame[i]
         /\ \A i \in 1..Got : Longer[Len(frame) + i] = line[i]
<1>1. PICK m \in Nat, L \in Nat, n \in Nat :
        m = Len(frame) /\ L = Len(line) /\ n = Got
  BY GotType
<1>2. n \in 1..L /\ n \in 0..L /\ m + n <= Whole  BY <1>1, GotType
<1>3. PICK t : t = SubSeq(line, 1, n)  OBVIOUS
<1>4. t \in Seq(Byte) /\ Len(t) = n /\ \A i \in 1..n : t[i] = line[i]
  BY <1>1, <1>2, <1>3, Taken DEF TypeOK
<1>5. Longer = frame \o t  BY <1>1, <1>3 DEF Longer
<1>6. frame \in Seq(Byte)  BY DEF TypeOK
<1>7. /\ Longer \in Seq(Byte) /\ Len(Longer) = m + n
      /\ \A i \in 1..(m + n) : Longer[i] = IF i <= m THEN frame[i] ELSE t[i - m]
  <2>1. /\ Longer \in Seq(Byte) /\ Len(Longer) = Len(frame) + Len(t)
        /\ \A i \in 1..(Len(frame) + Len(t)) :
             Longer[i] = IF i <= Len(frame) THEN frame[i] ELSE t[i - Len(frame)]
    BY <1>4, <1>5, <1>6, ConcatProperties
  <2> QED  BY <1>1, <1>4, <2>1
<1>8. ASSUME NEW i \in 1..m PROVE Longer[i] = frame[i]  BY <1>7
<1>9. ASSUME NEW i \in 1..n PROVE Longer[m + i] = line[i]
  <2>1. m + i \in 1..(m + n) /\ ~(m + i <= m) /\ (m + i) - m = i  OBVIOUS
  <2> QED  BY <1>4, <1>7, <2>1
<1> QED  BY <1>1, <1>2, <1>7, <1>8, <1>9

LEMMA DataType ==
  ASSUME NEW f \in Seq(Byte), Len(f) = Whole
  PROVE  Data(f) \in [1..(2 * Words) -> Byte]
<1>1. PICK N \in Nat : N = 2 * Words /\ Whole = 6 + N  BY WordsIsNat
<1>2. \A i \in 5..(4 + N) : f[i] \in Byte  BY <1>1
<1>3. PICK t : t = SubSeq(f, 5, 4 + N)  OBVIOUS
<1>4. t \in Seq(Byte) /\ Len(t) = IF 5 <= 4 + N THEN (4 + N) - 5 + 1 ELSE 0
  BY <1>2, <1>3, SubSeqProperties
<1>5. Len(t) = N  BY <1>4
<1>6. t \in [1..N -> Byte]  BY <1>4, <1>5
<1> QED  BY <1>1, <1>3, <1>6 DEF Data

LEMMA ReadIs ==
  ASSUME TypeOK, Read
  PROVE  /\ pc = "read" /\ line # <<>>
         /\ line' = SubSeq(line, Got + 1, Len(line))
         /\ origin' = SubSeq(origin, Got + 1, Len(origin))
         /\ \/ /\ Acceptable(Longer) /\ Len(Longer) < Whole
               /\ frame' = Longer /\ published' = published /\ pc' = pc
            \/ /\ Acceptable(Longer) /\ Len(Longer) = Whole
               /\ frame' = <<>> /\ published' = Append(published, Data(Longer))
               /\ pc' = "sleep"
            \/ /\ ~Acceptable(Longer)
               /\ frame' = <<>> /\ published' = published /\ pc' = pc
         /\ UNCHANGED <<gone, sent, intact, faults>>
<1>1. pc = "read" /\ line # <<>> /\ Consume(Got) /\ UNCHANGED <<gone, sent, intact, faults>>
  BY Zenon DEF Read, Got
<1>2. PICK f : f = Longer  OBVIOUS
<1>4. /\ line' = SubSeq(line, Got + 1, Len(line))
      /\ origin' = SubSeq(origin, Got + 1, Len(origin))
      /\ frame' = IF Acceptable(f) /\ Len(f) < Whole THEN f ELSE <<>>
      /\ IF Acceptable(f) /\ Len(f) = Whole
         THEN published' = Append(published, Data(f)) /\ pc' = "sleep"
         ELSE published' = published /\ pc' = pc
  BY <1>1, <1>2, Zenon DEF Consume, Longer
<1>5. Len(f) < Whole \/ Len(f) = Whole
  <2>1. PICK n \in Nat : n = Len(f)  BY <1>1, <1>2, LongerType
  <2> QED  BY <1>1, <1>2, <2>1, LongerType, WordsIsNat
<1>6. ~(Len(f) < Whole /\ Len(f) = Whole)
  <2>1. PICK n \in Nat : n = Len(f)  BY <1>1, <1>2, LongerType
  <2> QED  BY <2>1, WordsIsNat
<1> QED  BY <1>1, <1>2, <1>4, <1>5, <1>6, Zenon
LEMMA TypeStep ==
  ASSUME TypeOK, [Next]_vars
  PROVE  TypeOK'
<1>1. /\ line \in Seq(Byte) /\ Len(line) <= BufferSize /\ frame \in Seq(Byte)
      /\ Len(frame) < Whole /\ sent \in 0..Len(Readings) /\ intact \subseteq 1..sent
      /\ published \in Seq([1..(2 * Words) -> Byte]) /\ faults \in 0..MaxFaults
      /\ gone \in BOOLEAN /\ pc \in {"open", "read", "sleep"}
      /\ origin \in Seq(Places(sent)) /\ Len(origin) = Len(line)
  BY DEF TypeOK, Places
<1>2. Len(Readings) \in Nat /\ BufferSize \in Nat /\ MaxFaults \in Nat
  BY FrameAssumption
<1>3. /\ <<>> \in Seq(Byte) /\ Len(<<>>) = 0 /\ <<>> \in Seq(Places(sent)) /\ 0 < Whole
      /\ 0 <= BufferSize
  BY <1>2, EmptySeq, WordsIsNat
<1>4. ASSUME sent < Len(Readings)
      PROVE  /\ sent + 1 \in 0..Len(Readings) /\ sent + 1 \in Frames
             /\ intact \subseteq 1..(sent + 1) /\ intact \cup {sent + 1} \subseteq 1..(sent + 1)
  BY <1>1, <1>2, <1>4 DEF Frames
<1>5. CASE Open
  <2>1. /\ pc' = "read" /\ gone' = gone /\ frame' = frame /\ published' = published
        /\ intact' = intact /\ faults' = faults
    BY <1>5 DEF Open
  <2>2. CASE line' = <<>> /\ origin' = <<>> /\ sent' = sent
    BY <1>1, <1>3, <2>1, <2>2 DEF TypeOK, Places
  <2>3. CASE /\ sent < Len(Readings) /\ sent' = sent + 1
             /\ \E k \in 2..Whole : Arrive(SubSeq(Encoded[sent + 1], k, Whole), FALSE)
    <3>1. PICK k \in 2..Whole : Arrive(SubSeq(Encoded[sent + 1], k, Whole), FALSE)  BY <2>3
    <3>2. SubSeq(Encoded[sent + 1], k, Whole) \in Seq(Byte)  BY <1>4, <2>3, Suffix
    <3>3. /\ line' \in Seq(Byte) /\ Len(line') <= BufferSize
          /\ origin' \in Seq(Places(sent + 1)) /\ Len(origin') = Len(line')
      BY <3>1, <3>2, ArriveType
    <3> QED  BY <1>1, <1>4, <2>1, <2>3, <3>3 DEF TypeOK, Places
  <2> QED  BY <1>5, <2>2, <2>3 DEF Open
<1>6. CASE Read
  <2>1. PICK n \in Nat : n = Got /\ n \in 0..Len(line) /\ n \in 0..Len(origin)
    BY <1>1, <1>6, GotType, ReadIs
  <2>2. PICK L \in Nat : L = Len(line) /\ L = Len(origin)  BY <1>1
  <2>3. line' \in Seq(Byte) /\ Len(line') = L - n
    BY <1>1, <1>6, <2>1, <2>2, ReadIs, Dropped
  <2>4. origin' \in Seq(Places(sent)) /\ Len(origin') = L - n
    BY <1>1, <1>6, <2>1, <2>2, ReadIs, Dropped
  <2>5. Longer \in Seq(Byte)  BY <1>6, ReadIs, LongerType
  <2>6. Len(line') <= BufferSize /\ Len(origin') = Len(line')
    BY <1>1, <1>2, <2>1, <2>2, <2>3, <2>4
  <2>7. frame' \in Seq(Byte) /\ Len(frame') < Whole
    BY <1>3, <1>6, <2>5, ReadIs
  <2>8. published' \in Seq([1..(2 * Words) -> Byte])
    <3>1. ASSUME Len(Longer) = Whole
          PROVE  Append(published, Data(Longer)) \in Seq([1..(2 * Words) -> Byte])
      <4>1. Data(Longer) \in [1..(2 * Words) -> Byte]  BY <2>5, <3>1, DataType
      <4> QED  BY <1>1, <4>1, AppendProperties
    <3> QED  BY <1>1, <1>6, <3>1, ReadIs, Zenon
  <2>9. /\ gone' = gone /\ sent' = sent /\ intact' = intact /\ faults' = faults
        /\ pc' \in {"open", "read", "sleep"}
    BY <1>1, <1>6, ReadIs
  <2> QED  BY <1>1, <2>3, <2>4, <2>6, <2>7, <2>8, <2>9 DEF TypeOK, Places
<1>7. CASE ReadFails
  BY <1>1, <1>3, <1>7 DEF ReadFails, TypeOK, Places
<1>8. CASE Wake
  BY <1>1, <1>8 DEF Wake, TypeOK, Places
<1>9. CASE SensorSends
  <2>1. /\ sent < Len(Readings) /\ sent' = sent + 1
        /\ gone' = gone /\ pc' = pc /\ frame' = frame /\ published' = published
        /\ faults' = faults
    BY <1>9 DEF SensorSends
  <2>2. PICK whole \in BOOLEAN :
          /\ Arrive(Encoded[sent + 1], whole)
          /\ intact' = IF whole THEN intact \cup {sent + 1} ELSE intact
    <3>1. (Len(line) + Whole <= BufferSize) \in BOOLEAN  OBVIOUS
    <3> QED  BY <1>9, <3>1, Zenon DEF SensorSends
  <2>3. Encoded[sent + 1] \in Seq(Byte) /\ Len(Encoded[sent + 1]) = Whole
    BY <1>4, <2>1, EncodedType
  <2>4. /\ line' \in Seq(Byte) /\ Len(line') <= BufferSize
        /\ origin' \in Seq(Places(sent + 1)) /\ Len(origin') = Len(line')
    BY <2>2, <2>3, ArriveType
  <2>5. intact' \subseteq 1..(sent + 1)  BY <1>4, <2>1, <2>2
  <2> QED  BY <1>1, <1>4, <2>1, <2>4, <2>5 DEF TypeOK, Places
<1>10. CASE LineDamages
  <2>1. /\ sent < Len(Readings) /\ sent' = sent + 1
        /\ gone' = gone /\ pc' = pc /\ frame' = frame /\ published' = published
        /\ intact' = intact /\ faults < MaxFaults /\ faults' = faults + 1
    BY <1>10 DEF LineDamages
  <2>2. PICK bytes \in Damaged(Encoded[sent + 1]) : Arrive(bytes, FALSE)
    BY <1>10 DEF LineDamages
  <2>3. bytes \in Seq(Byte)  BY <1>4, <2>1, EncodedType, DamagedType
  <2>4. /\ line' \in Seq(Byte) /\ Len(line') <= BufferSize
        /\ origin' \in Seq(Places(sent + 1)) /\ Len(origin') = Len(line')
    BY <2>2, <2>3, ArriveType
  <2>5. faults' \in 0..MaxFaults  BY <1>1, <1>2, <2>1
  <2> QED  BY <1>1, <1>4, <2>1, <2>4, <2>5 DEF TypeOK, Places
<1>11. CASE Unplug
  <2>1. /\ gone' = TRUE /\ pc' = pc /\ frame' = frame /\ published' = published
        /\ sent' = sent /\ faults' = faults
        /\ \/ line' = line /\ origin' = origin /\ intact' = intact
           \/ line' = <<>> /\ origin' = <<>> /\ intact' = intact \ InLine
    BY <1>11 DEF Unplug
  <2> QED  BY <1>1, <1>3, <2>1 DEF TypeOK, Places
<1>12. CASE UNCHANGED vars
  BY <1>12 DEF vars, TypeOK
<1> QED
  BY <1>5, <1>6, <1>7, <1>8, <1>9, <1>10, <1>11, <1>12 DEF Next

(* Every variable keeps its type, the frame under way is shorter than a    *)
(* whole one and the kernel's buffer within its size, whatever arrives     *)
(* (pms5003st_read over uart_read).                                        *)
THEOREM TypeCorrect == Spec => []TypeOK
<1>1. Init => TypeOK
  <2> SUFFICES ASSUME Init PROVE TypeOK  OBVIOUS
  <2>1. /\ <<>> \in Seq(Byte) /\ <<>> \in Seq(Places(0)) /\ Len(<<>>) = 0
        /\ <<>> \in Seq([1..(2 * Words) -> Byte])
    BY EmptySeq
  <2>2. 0 < Whole /\ 0 <= BufferSize /\ 0 \in 0..Len(Readings) /\ 0 \in 0..MaxFaults
    BY WordsIsNat, FrameAssumption
  <2> QED  BY <2>1, <2>2 DEF Init, TypeOK, Places
<1>2. TypeOK /\ [Next]_vars => TypeOK'
  BY TypeStep
<1> QED  BY <1>1, <1>2, PTL DEF Spec
-----------------------------------------------------------------------------
(* What the reader has not read yet: the frames in the order they were     *)
(* sent, of an intact one every byte from some place to the last.          *)
Ordered == \A i, j \in 1..Len(line) : i < j => origin[i].of <= origin[j].of

Spoilt == \A i \in 1..Len(line) : origin[i].at = 0 => origin[i].of \notin intact

Faithful ==
  \A i \in 1..Len(line) : origin[i].at # 0 =>
    origin[i].of \in intact /\ line[i] = Encoded[origin[i].of][origin[i].at]

Complete ==
  \A i \in 1..Len(line), d \in 1..Whole :
    origin[i].at # 0 /\ origin[i].at + d <= Whole =>
      /\ i + d <= Len(line)
      /\ origin[i + d].of = origin[i].of /\ origin[i + d].at = origin[i].at + d

Once ==
  \A i, j \in 1..Len(line) :
    i < j /\ origin[i].of = origin[j].of => origin[j].at = 0 \/ origin[i].at < origin[j].at

Tidy == Ordered /\ Spoilt /\ Faithful /\ Complete /\ Once

(* Frames that can cost the reader a later one.                            *)
Bad(n) == n \notin intact \/ ~Clear(n)

(* The frames in D were passed because of the bad frames c names.          *)
Excuses(D, c) ==
  /\ D \subseteq 1..sent /\ c \in [D -> Nat]
  /\ \A n \in D : 1 <= c[n] /\ c[n] < n /\ Bad(c[n])
  /\ \A a, b \in D : c[a] = c[b] => a = b
  /\ \A n \in D, i \in 1..Len(line) : n <= origin[i].of

(* The reader has what comes before the next byte of the frame n.          *)
Following(n) ==
  /\ line # <<>> /\ origin[1].of = n /\ origin[1].at = Len(frame) + 1
  /\ \A k \in 1..Len(frame) : frame[k] = Encoded[n][k]

Reading(n) == frame # <<>> /\ Following(n)

Unread(n) == \E i \in 1..Len(line) : origin[i].of = n /\ origin[i].at = 1

Accounted(D) == \A n \in intact : n \in D \/ Published(n) \/ Reading(n) \/ Unread(n)

(* The reader has taken a byte of the bad frame u for a start byte, and no *)
(* first byte of an intact frame has come by since.                        *)
Astray(u, D) ==
  /\ u \in 1..sent /\ Bad(u) /\ frame # <<>>
  /\ \A n \in D : n <= u
  /\ \A i \in 1..Len(line) :
       u <= origin[i].of /\ (origin[i].of = u => origin[i].at # 1)

(* One has: the reader is in that frame, behind its first byte, and what   *)
(* it has read began before it.                                            *)
Overrun(D) ==
  /\ line # <<>> /\ frame # <<>> /\ origin[1].of \in D
  /\ origin[1].at >= 2 /\ Len(frame) >= origin[1].at

Idle == gone /\ line = <<>>

Position(D) ==
  frame = <<>> \/ (\E n : Reading(n)) \/ (\E u : Astray(u, D)) \/ Overrun(D) \/ Idle

Explained(D, c) == Excuses(D, c) /\ Accounted(D) /\ Position(D)

Opening == pc = "open" => line = <<>> /\ frame = <<>> /\ intact = {}

LossInv == Tidy /\ Opening /\ \E D, c : Explained(D, c)

LEMMA LineType ==
  ASSUME TypeOK
  PROVE  /\ Len(line) \in Nat /\ Len(origin) = Len(line) /\ sent \in Nat
         /\ Len(frame) \in Nat /\ Len(frame) < Whole
         /\ \A i \in 1..Len(line) :
              origin[i].of \in 1..sent /\ origin[i].at \in 0..Whole /\ line[i] \in Byte
         /\ line # <<>> <=> Len(line) >= 1
         /\ frame # <<>> <=> Len(frame) >= 1
<1>1. /\ line \in Seq(Byte) /\ frame \in Seq(Byte) /\ Len(frame) < Whole
      /\ origin \in Seq(Places(sent)) /\ Len(origin) = Len(line)
      /\ sent \in 0..Len(Readings)
  BY DEF TypeOK, Places
<1>2. sent \in Nat  BY <1>1, FrameAssumption
<1>3. ASSUME NEW i \in 1..Len(line)
      PROVE  origin[i].of \in 1..sent /\ origin[i].at \in 0..Whole /\ line[i] \in Byte
  <2>1. origin[i] \in Places(sent) /\ line[i] \in Byte  BY <1>1
  <2> QED  BY <2>1 DEF Places
<1>4. line # <<>> <=> Len(line) >= 1  BY <1>1
<1>5. frame # <<>> <=> Len(frame) >= 1  BY <1>1
<1> QED  BY <1>1, <1>2, <1>3, <1>4, <1>5

(* Every intact frame that is missed has an excuse of its own.             *)
LEMMA LossFromExcuses ==
  ASSUME TypeOK, LossInv
  PROVE  LossBounded
<1>1. PICK D, c : Excuses(D, c) /\ Accounted(D)  BY DEF LossInv, Explained
<1>2. sent \in Nat /\ intact \subseteq 1..sent  BY LineType DEF TypeOK
<1>3. PICK M : M = Missed  OBVIOUS
<1>4. ASSUME NEW n \in M PROVE n \in D
  <2>1. n \in intact /\ ~Published(n) /\ n \notin InLine  BY <1>3 DEF Missed
  <2>2. DOMAIN origin = 1..Len(line)  BY DEF TypeOK
  <2>3. ~Unread(n)  BY <2>1, <2>2 DEF Unread, InLine
  <2>4. ~Reading(n)
    <3>1. line # <<>> => 1 \in 1..Len(line)  BY LineType
    <3> QED  BY <2>1, <2>2, <3>1 DEF Reading, Following, InLine
  <2> QED  BY <1>1, <2>1, <2>3, <2>4 DEF Accounted
<1>5. PICK B : B = {n \in 1..sent : (n \notin intact \/ ~Clear(n)) /\ \E m \in M : n < m}
  OBVIOUS
<1>6. PICK g : g = [n \in M |-> c[n]]  OBVIOUS
<1>7. ASSUME NEW n \in M PROVE g[n] \in B
  <2>1. n \in 1..sent /\ c[n] \in Nat /\ 1 <= c[n] /\ c[n] < n /\ Bad(c[n])
    BY <1>1, <1>4 DEF Excuses
  <2>2. c[n] \in 1..sent  BY <1>2, <2>1
  <2> QED  BY <1>5, <1>6, <2>1, <2>2 DEF Bad
<1>8. ASSUME NEW a \in M, NEW b \in M, g[a] = g[b] PROVE a = b
  <2>1. a \in D /\ b \in D /\ c[a] = c[b]  BY <1>4, <1>6, <1>8
  <2> QED  BY <1>1, <2>1 DEF Excuses
<1>9. g \in Injection(M, B)
  <2>1. g \in [M -> B]  BY <1>6, <1>7
  <2> QED  BY <1>8, <2>1 DEF Injection, IsInjective
<1>10. IsFiniteSet(B)
  <2>1. IsFiniteSet(1..sent)  BY <1>2, FS_Interval
  <2>2. B \subseteq 1..sent  BY <1>5
  <2> QED  BY <2>1, <2>2, FS_Subset
<1>11. Cardinality(M) <= Cardinality(B)  BY <1>9, <1>10, FS_Injection
<1> QED  BY <1>3, <1>5, <1>11 DEF LossBounded
-----------------------------------------------------------------------------
(* Bytes come in.                                                          *)

(* What is behind the line, index by index.                                *)
Old(i, L) == i \in 1..L /\ line'[i] = line[i] /\ origin'[i].of = origin[i].of
             /\ origin'[i].at = origin[i].at
New(i, k, whole) ==
  /\ origin'[i].of = sent + 1 /\ origin'[i].at = (IF whole THEN k ELSE 0)
  /\ whole => line'[i] = Encoded[sent + 1][k]

(* A frame, whole or not, has come in.                                     *)
Arrived(L, m, whole) ==
  /\ L \in Nat /\ m \in Nat /\ L = Len(line) /\ L + m = Len(line') /\ whole \in BOOLEAN
  /\ \A i \in 1..L : Old(i, L)
  /\ \A k \in 1..m : New(L + k, k, whole)
  /\ whole => m = Whole
  /\ sent' = sent + 1 /\ gone' = gone /\ frame' = frame /\ published' = published
  /\ intact' = IF whole THEN intact \cup {sent + 1} ELSE intact

LEMMA ArrivedFromBehind ==
  ASSUME TypeOK, NEW bytes, NEW whole \in BOOLEAN, NEW m \in Nat, Behind(bytes, whole, m),
         whole => bytes = Encoded[sent + 1] /\ m = Whole,
         sent' = sent + 1, gone' = gone, frame' = frame, published' = published,
         intact' = IF whole THEN intact \cup {sent + 1} ELSE intact
  PROVE  Arrived(Len(line), m, whole)
<1>1. PICK L \in Nat : L = Len(line) /\ L = Len(origin)  BY LineType
<1>2. ASSUME NEW i \in 1..L PROVE Old(i, L)
  BY <1>1 DEF Behind, Old
<1>3. ASSUME NEW k \in 1..m PROVE New(L + k, k, whole)
  <2>1. /\ line'[L + k] = bytes[k]
        /\ origin'[L + k] = [of |-> sent + 1, at |-> IF whole THEN k ELSE 0]
    BY <1>1 DEF Behind
  <2> QED  BY <2>1 DEF New
<1>4. Len(line') = L + m  BY <1>1 DEF Behind
<1> QED  BY <1>1, <1>2, <1>3, <1>4 DEF Arrived

LEMMA ArrivedIndex ==
  ASSUME NEW L, NEW m, NEW whole, Arrived(L, m, whole), NEW i \in 1..Len(line')
  PROVE  \/ i \in 1..L /\ Old(i, L)
         \/ i \notin 1..L /\ i - L \in 1..m /\ New(i, i - L, whole)
<1>1. L \in Nat /\ m \in Nat /\ i \in 1..(L + m)  BY DEF Arrived
<1>2. CASE i \in 1..L  BY <1>2 DEF Arrived
<1>3. CASE i \notin 1..L
  <2>1. i - L \in 1..m /\ L + (i - L) = i  BY <1>1, <1>3
  <2>2. PICK k \in 1..m : k = i - L /\ L + k = i  BY <2>1
  <2>3. New(L + k, k, whole)  BY <2>2 DEF Arrived
  <2> QED  BY <1>3, <2>2, <2>3
<1> QED  BY <1>2, <1>3

LEMMA ArrivedTidy ==
  ASSUME TypeOK, Tidy, NEW L, NEW m, NEW whole, Arrived(L, m, whole)
  PROVE  Tidy'
<1>1. /\ L \in Nat /\ m \in Nat /\ L = Len(line) /\ Len(line') = L + m /\ whole \in BOOLEAN
      /\ whole => m = Whole
      /\ intact' = IF whole THEN intact \cup {sent + 1} ELSE intact
  BY DEF Arrived
<1>2. /\ sent \in Nat /\ intact \subseteq 1..sent /\ sent + 1 \notin intact /\ Whole \in Nat
      /\ \A i \in 1..L : origin[i].of \in 1..sent /\ origin[i].at \in 0..Whole
  BY <1>1, LineType, WordsIsNat DEF TypeOK
<1>3. ASSUME NEW i \in 1..(L + m)
      PROVE  /\ i <= L => /\ i \in 1..L /\ line'[i] = line[i]
                           /\ origin'[i].of = origin[i].of /\ origin'[i].at = origin[i].at
             /\ i > L => /\ i - L \in 1..m /\ origin'[i].of = sent + 1
                         /\ origin'[i].at = (IF whole THEN i - L ELSE 0)
                         /\ whole => line'[i] = Encoded[sent + 1][i - L]
  <2>1. i \in 1..Len(line')  BY <1>1
  <2>2. \/ i \in 1..L /\ Old(i, L)
        \/ i \notin 1..L /\ i - L \in 1..m /\ New(i, i - L, whole)
    BY <2>1, ArrivedIndex
  <2> QED  BY <1>1, <2>2 DEF Old, New
<1>4. Ordered'
  <2> SUFFICES ASSUME NEW i \in 1..(L + m), NEW j \in 1..(L + m), i < j
               PROVE  origin'[i].of <= origin'[j].of
    BY <1>1 DEF Ordered
  <2>1. CASE i <= L /\ j <= L
    <3>1. i \in 1..Len(line) /\ j \in 1..Len(line)  BY <1>1, <2>1
    <3>2. origin[i].of <= origin[j].of  BY <3>1 DEF Tidy, Ordered
    <3> QED  BY <1>3, <2>1, <3>2
  <2>2. CASE i <= L /\ j > L
    <3>1. i \in 1..L  BY <2>2
    <3>2. origin'[j].of = sent + 1 /\ origin'[i].of = origin[i].of  BY <1>3, <2>2
    <3>3. origin[i].of \in 1..sent  BY <1>2, <3>1
    <3> QED  BY <1>2, <3>2, <3>3
  <2>3. CASE i > L
    <3>1. j > L  BY <1>1, <2>3
    <3>2. origin'[j].of = sent + 1 /\ origin'[i].of = sent + 1  BY <1>3, <2>3, <3>1
    <3> QED  BY <1>2, <3>2
  <2> QED  BY <1>1, <2>1, <2>2, <2>3
<1>5. Spoilt'
  <2> SUFFICES ASSUME NEW i \in 1..(L + m), origin'[i].at = 0
               PROVE  origin'[i].of \notin intact'
    BY <1>1 DEF Spoilt
  <2>1. CASE i <= L
    <3>1. origin[i].of \in 1..sent /\ origin'[i].of = origin[i].of /\ origin[i].at = 0
          /\ i \in 1..Len(line)
      BY <1>1, <1>2, <1>3, <2>1
    <3>2. origin[i].of \notin intact  BY <3>1 DEF Tidy, Spoilt
    <3> QED  BY <1>1, <1>2, <3>1, <3>2
  <2>2. CASE i > L
    <3>1. origin'[i].of = sent + 1 /\ ~whole  BY <1>1, <1>3, <2>2
    <3> QED  BY <1>1, <1>2, <3>1
  <2> QED  BY <1>1, <2>1, <2>2
<1>6. Faithful'
  <2> SUFFICES ASSUME NEW i \in 1..(L + m), origin'[i].at # 0
               PROVE  /\ origin'[i].of \in intact'
                      /\ line'[i] = Encoded[origin'[i].of][origin'[i].at]
    BY <1>1 DEF Faithful
  <2>1. CASE i <= L
    <3>1. i \in 1..Len(line) /\ origin[i].at # 0  BY <1>1, <1>3, <2>1
    <3>2. origin[i].of \in intact /\ line[i] = Encoded[origin[i].of][origin[i].at]
      BY <3>1 DEF Tidy, Faithful
    <3>3. line'[i] = line[i] /\ origin'[i].of = origin[i].of /\ origin'[i].at = origin[i].at
      BY <1>3, <2>1
    <3>4. intact \subseteq intact'  BY <1>1
    <3> QED  BY <3>2, <3>3, <3>4
  <2>2. CASE i > L
    <3>1. whole /\ origin'[i].of = sent + 1 /\ origin'[i].at = i - L
          /\ line'[i] = Encoded[sent + 1][i - L]
      BY <1>1, <1>3, <2>2
    <3>2. sent + 1 \in intact'  BY <1>1, <3>1
    <3> QED  BY <3>1, <3>2
  <2> QED  BY <1>1, <2>1, <2>2
<1>7. Complete'
  <2> SUFFICES ASSUME NEW i \in 1..(L + m), NEW d \in 1..Whole,
                      origin'[i].at # 0, origin'[i].at + d <= Whole
               PROVE  /\ i + d <= L + m
                      /\ origin'[i + d].of = origin'[i].of
                      /\ origin'[i + d].at = origin'[i].at + d
    BY <1>1 DEF Complete
  <2>1. CASE i <= L
    <3>1. i \in 1..Len(line) /\ origin'[i].of = origin[i].of /\ origin'[i].at = origin[i].at
      BY <1>1, <1>3, <2>1
    <3>2. /\ i + d <= L /\ origin[i + d].of = origin[i].of
          /\ origin[i + d].at = origin[i].at + d
      BY <1>1, <3>1 DEF Tidy, Complete
    <3>3. i + d \in 1..(L + m) /\ i + d <= L /\ i + d <= L + m  BY <1>1, <3>2
    <3>4. origin'[i + d].of = origin[i + d].of /\ origin'[i + d].at = origin[i + d].at
      BY <1>3, <3>3
    <3> QED  BY <3>1, <3>2, <3>3, <3>4
  <2>2. CASE i > L
    <3>1. whole /\ m = Whole /\ origin'[i].of = sent + 1 /\ origin'[i].at = i - L
      BY <1>1, <1>3, <2>2
    <3>2. i + d \in 1..(L + m) /\ i + d > L /\ i + d <= L + m /\ (i + d) - L = (i - L) + d
      BY <1>1, <1>2, <2>2, <3>1
    <3>3. origin'[i + d].of = sent + 1 /\ origin'[i + d].at = (i + d) - L
      BY <1>3, <3>1, <3>2
    <3> QED  BY <3>1, <3>2, <3>3
  <2> QED  BY <1>1, <2>1, <2>2
<1>8. Once'
  <2> SUFFICES ASSUME NEW i \in 1..(L + m), NEW j \in 1..(L + m), i < j,
                      origin'[i].of = origin'[j].of
               PROVE  origin'[j].at = 0 \/ origin'[i].at < origin'[j].at
    BY <1>1 DEF Once
  <2>1. CASE i <= L /\ j <= L
    <3>1. /\ i \in 1..Len(line) /\ j \in 1..Len(line)
          /\ origin'[i].of = origin[i].of /\ origin'[i].at = origin[i].at
          /\ origin'[j].of = origin[j].of /\ origin'[j].at = origin[j].at
      BY <1>1, <1>3, <2>1
    <3>2. origin[j].at = 0 \/ origin[i].at < origin[j].at  BY <3>1 DEF Tidy, Once
    <3> QED  BY <3>1, <3>2
  <2>2. CASE i <= L /\ j > L
    <3>1. i \in 1..L  BY <2>2
    <3>2. origin'[j].of = sent + 1 /\ origin'[i].of = origin[i].of  BY <1>3, <2>2
    <3>3. origin[i].of \in 1..sent  BY <1>2, <3>1
    <3> QED  BY <1>2, <3>2, <3>3
  <2>3. CASE i > L
    <3>1. j > L  BY <1>1, <2>3
    <3>2. /\ origin'[j].at = (IF whole THEN j - L ELSE 0)
          /\ origin'[i].at = (IF whole THEN i - L ELSE 0)
      BY <1>3, <2>3, <3>1
    <3> QED  BY <1>1, <3>2
  <2> QED  BY <1>1, <2>1, <2>2, <2>3
<1> QED  BY <1>4, <1>5, <1>6, <1>7, <1>8 DEF Tidy

LEMMA ArrivedExplained ==
  ASSUME TypeOK, NEW D, NEW c, Explained(D, c), ~gone,
         NEW L, NEW m, NEW whole, Arrived(L, m, whole)
  PROVE  Explained(D, c)'
<1>1. /\ L \in Nat /\ m \in Nat /\ L = Len(line) /\ Len(line') = L + m /\ whole \in BOOLEAN
      /\ whole => m = Whole
      /\ intact' = IF whole THEN intact \cup {sent + 1} ELSE intact
      /\ sent' = sent + 1 /\ gone' = gone /\ frame' = frame /\ published' = published
  BY DEF Arrived
<1>2. /\ sent \in Nat /\ intact \subseteq 1..sent /\ sent + 1 \notin intact
      /\ Whole \in Nat /\ Whole >= 8
      /\ \A i \in 1..L : origin[i].of \in 1..sent
      /\ line # <<>> <=> L >= 1
  BY <1>1, LineType, WordsIsNat DEF TypeOK
<1>3. ASSUME NEW i \in 1..(L + m)
      PROVE  \/ /\ i \in 1..L
                /\ origin'[i].of = origin[i].of /\ origin'[i].at = origin[i].at
             \/ origin'[i].of = sent + 1
  <2>1. i \in 1..Len(line')  BY <1>1
  <2> QED  BY <1>1, <2>1, ArrivedIndex DEF Old, New
<1>4. ASSUME NEW i \in 1..L
      PROVE  /\ i \in 1..(L + m) /\ i \in 1..Len(line')
             /\ origin'[i].of = origin[i].of /\ origin'[i].at = origin[i].at
  <2>1. Old(i, L)  BY DEF Arrived
  <2>2. i \in 1..(L + m)  BY <1>1
  <2> QED  BY <1>1, <2>1, <2>2 DEF Old
<1>5. ASSUME NEW n \in 1..sent PROVE Bad(n) => Bad(n)'
  <2>1. n \notin intact => n \notin intact'  BY <1>1, <1>2
  <2>2. Clear(n)' <=> Clear(n)  BY DEF Clear, Encoded, Whole
  <2> QED  BY <2>1, <2>2 DEF Bad
<1>6. Excuses(D, c)'
  <2>1. /\ D \subseteq 1..sent /\ c \in [D -> Nat]
        /\ \A n \in D : 1 <= c[n] /\ c[n] < n /\ Bad(c[n])
        /\ \A a, b \in D : c[a] = c[b] => a = b
        /\ \A n \in D, i \in 1..L : n <= origin[i].of
    BY <1>1 DEF Explained, Excuses
  <2>2. D \subseteq 1..(sent + 1)  BY <1>2, <2>1
  <2>3. ASSUME NEW n \in D PROVE 1 <= c[n] /\ c[n] < n /\ Bad(c[n])'
    <3>1. c[n] \in Nat /\ n \in 1..sent  BY <2>1
    <3>2. c[n] \in 1..sent  BY <1>2, <2>1, <3>1
    <3> QED  BY <1>5, <2>1, <3>2
  <2>4. ASSUME NEW n \in D, NEW i \in 1..(L + m) PROVE n <= origin'[i].of
    <3>1. n \in 1..sent  BY <2>1
    <3>2. CASE i \in 1..L /\ origin'[i].of = origin[i].of  BY <2>1, <3>2
    <3>3. CASE origin'[i].of = sent + 1  BY <1>2, <3>1, <3>3
    <3> QED  BY <1>3, <3>2, <3>3
  <2> QED  BY <1>1, <2>1, <2>2, <2>3, <2>4 DEF Excuses
<1>7. ASSUME NEW n PROVE Reading(n) => Reading(n)'
  <2> SUFFICES ASSUME Reading(n) PROVE Reading(n)'  OBVIOUS
  <2>1. /\ frame # <<>> /\ line # <<>> /\ origin[1].of = n /\ origin[1].at = Len(frame) + 1
        /\ \A k \in 1..Len(frame) : frame[k] = Encoded[n][k]
    BY DEF Reading, Following
  <2>2. 1 \in 1..L  BY <1>2, <2>1
  <2>3. line' # <<>>
    <3>1. Len(line') # 0  BY <1>1, <2>2
    <3>2. Len(<<>>) = 0  BY EmptySeq
    <3> QED  BY <3>1, <3>2
  <2>4. origin'[1].of = n /\ origin'[1].at = Len(frame) + 1  BY <1>4, <2>1, <2>2
  <2> QED  BY <1>1, <2>1, <2>3, <2>4 DEF Reading, Following, Encoded
<1>8. ASSUME NEW n PROVE Unread(n) => Unread(n)'
  BY <1>1, <1>4 DEF Unread
<1>9. Accounted(D)'
  <2> SUFFICES ASSUME NEW n \in intact'
               PROVE  n \in D \/ Published(n)' \/ Reading(n)' \/ Unread(n)'
    BY DEF Accounted
  <2>1. CASE n \in intact
    <3>1. n \in D \/ Published(n) \/ Reading(n) \/ Unread(n)  BY <2>1 DEF Explained, Accounted
    <3>2. Published(n) => Published(n)'  BY <1>1 DEF Published
    <3> QED  BY <1>7, <1>8, <3>1, <3>2
  <2>2. CASE n \notin intact
    <3>1. whole /\ n = sent + 1 /\ m = Whole  BY <1>1, <2>2
    <3>2. 1 \in 1..m  BY <1>2, <3>1
    <3>3. New(L + 1, 1, whole)  BY <3>2 DEF Arrived
    <3>4. L + 1 \in 1..Len(line')  BY <1>1, <3>2
    <3> QED  BY <3>1, <3>3, <3>4 DEF New, Unread
  <2> QED  BY <2>1, <2>2
<1>10. Position(D)'
  <2>1. frame = <<>> \/ (\E n : Reading(n)) \/ (\E u : Astray(u, D)) \/ Overrun(D) \/ Idle
    BY DEF Explained, Position
  <2>2. CASE frame = <<>>  BY <1>1, <2>2 DEF Position
  <2>3. CASE \E n : Reading(n)
    <3>1. \E n : Reading(n)'  BY <1>7, <2>3
    <3> QED  BY <3>1 DEF Position
  <2>4. CASE \E u : Astray(u, D)
    <3>1. PICK u : Astray(u, D)  BY <2>4
    <3>2. /\ u \in 1..sent /\ Bad(u) /\ frame # <<>>
          /\ \A n \in D : n <= u
          /\ \A i \in 1..L :
               u <= origin[i].of /\ (origin[i].of = u => origin[i].at # 1)
      BY <1>1, <3>1 DEF Astray
    <3>3. ASSUME NEW i \in 1..(L + m)
          PROVE  u <= origin'[i].of /\ (origin'[i].of = u => origin'[i].at # 1)
      <4>1. CASE /\ i \in 1..L
                 /\ origin'[i].of = origin[i].of /\ origin'[i].at = origin[i].at
        BY <3>2, <4>1
      <4>2. CASE origin'[i].of = sent + 1  BY <1>2, <3>2, <4>2
      <4> QED  BY <1>3, <4>1, <4>2
    <3>4. u \in 1..(sent + 1)  BY <1>2, <3>2
    <3>5. Astray(u, D)'  BY <1>1, <1>5, <3>2, <3>3, <3>4 DEF Astray
    <3> QED  BY <3>5 DEF Position
  <2>5. CASE Overrun(D)
    <3>1. /\ line # <<>> /\ frame # <<>> /\ origin[1].of \in D
          /\ origin[1].at >= 2 /\ Len(frame) >= origin[1].at
      BY <2>5 DEF Overrun
    <3>2. 1 \in 1..L  BY <1>2, <3>1
    <3>3. line' # <<>>
      <4>1. Len(line') # 0  BY <1>1, <3>2
      <4>2. Len(<<>>) = 0  BY EmptySeq
      <4> QED  BY <4>1, <4>2
    <3>4. origin'[1].of = origin[1].of /\ origin'[1].at = origin[1].at  BY <1>4, <3>2
    <3>5. Overrun(D)'  BY <1>1, <3>1, <3>3, <3>4 DEF Overrun
    <3> QED  BY <3>5 DEF Position
  <2>6. CASE Idle  BY <2>6 DEF Idle
  <2> QED  BY <2>1, <2>2, <2>3, <2>4, <2>5, <2>6
<1> QED  BY <1>6, <1>9, <1>10 DEF Explained
-----------------------------------------------------------------------------
(* A call of uart_read takes n of the L bytes of the line; the frame has q *)
(* bytes before it.                                                        *)
Consumed(L, n, q) ==
  /\ L \in Nat /\ n \in Nat /\ q \in Nat /\ L = Len(line) /\ q = Len(frame)
  /\ 1 <= n /\ n <= L /\ q + n <= Whole /\ q < Whole /\ (frame = <<>> => n = 1)
  /\ Len(line') = L - n /\ (line' # <<>> <=> L - n >= 1)
  /\ \A i \in 1..(L - n) : line'[i] = line[n + i] /\ origin'[i] = origin[n + i]
  /\ sent' = sent /\ intact' = intact /\ gone' = gone /\ line # <<>>
  /\ Longer \in Seq(Byte) /\ Len(Longer) = q + n
  /\ \A i \in 1..q : Longer[i] = frame[i]
  /\ \A i \in 1..n : Longer[q + i] = line[i]

LEMMA ReadConsumes ==
  ASSUME TypeOK, Read
  PROVE  /\ \E L, n, q : Consumed(L, n, q)
         /\ \/ frame' = <<>>
            \/ frame' = Longer /\ Acceptable(Longer) /\ Len(Longer) < Whole
         /\ \A n : Published(n) => Published(n)'
<1>1. PICK L \in Nat, n \in Nat, q \in Nat : L = Len(line) /\ n = Got /\ q = Len(frame)
  <2>1. Len(line) \in Nat /\ Len(frame) \in Nat  BY LineType
  <2>2. Got \in Nat  BY <2>1, ReadIs, GotType
  <2> QED  BY <2>1, <2>2
<1>2. 1 <= n /\ n <= L /\ q + n <= Whole /\ q < Whole /\ (frame = <<>> => n = 1) /\ line # <<>>
  BY <1>1, ReadIs, GotType, LineType
<1>3. line' = SubSeq(line, n + 1, L) /\ origin' = SubSeq(origin, n + 1, Len(origin))
  BY <1>1, ReadIs
<1>4. n \in 0..L /\ Len(origin) = L  BY <1>1, <1>2, LineType
<1>5. /\ line' \in Seq(Byte) /\ Len(line') = L - n
      /\ \A i \in 1..(L - n) : line'[i] = line[n + i]
  BY <1>1, <1>3, <1>4, Dropped DEF TypeOK
<1>6. \A i \in 1..(L - n) : origin'[i] = origin[n + i]
  <2>1. origin \in Seq(Places(sent))  BY DEF TypeOK, Places
  <2> QED  BY <1>1, <1>3, <1>4, <2>1, Dropped
<1>7. line' # <<>> <=> L - n >= 1
  <2>1. Len(<<>>) = 0 /\ (line' # <<>> => Len(line') \in Nat \ {0})  BY <1>5, EmptySeq
  <2>2. CASE line' # <<>>  BY <1>1, <1>5, <2>1, <2>2
  <2>3. CASE line' = <<>>  BY <1>1, <1>5, <2>1, <2>3
  <2> QED  BY <2>2, <2>3
<1>8. /\ Longer \in Seq(Byte) /\ Len(Longer) = q + n
      /\ \A i \in 1..q : Longer[i] = frame[i]
      /\ \A i \in 1..n : Longer[q + i] = line[i]
  BY <1>1, ReadIs, LongerType
<1>9. sent' = sent /\ intact' = intact /\ gone' = gone  BY ReadIs
<1>10. Consumed(L, n, q)
  BY <1>1, <1>2, <1>5, <1>6, <1>7, <1>8, <1>9 DEF Consumed
<1>11. \/ frame' = <<>>
       \/ frame' = Longer /\ Acceptable(Longer) /\ Len(Longer) < Whole
  BY ReadIs, Zenon
<1>12. ASSUME NEW k, Published(k) PROVE Published(k)'
  <2>1. PICK j \in DOMAIN published : published[j] = Readings[k]
    BY <1>12 DEF Published
  <2>2. \/ published' = published
        \/ Len(Longer) = Whole /\ published' = Append(published, Data(Longer))
    BY ReadIs, Zenon
  <2>3. CASE published' = published  BY <2>1, <2>3 DEF Published
  <2>4. CASE Len(Longer) = Whole /\ published' = Append(published, Data(Longer))
    <3>1. Data(Longer) \in [1..(2 * Words) -> Byte]  BY <1>8, <2>4, DataType
    <3>2. published \in Seq([1..(2 * Words) -> Byte])  BY DEF TypeOK
    <3>3. /\ published' \in Seq([1..(2 * Words) -> Byte])
          /\ Len(published') = Len(published) + 1
          /\ \A i \in 1..Len(published) : published'[i] = published[i]
      BY <2>4, <3>1, <3>2, AppendProperties
    <3>4. j \in 1..Len(published) /\ j \in DOMAIN published'  BY <2>1, <3>2, <3>3
    <3>5. published'[j] = Readings[k]  BY <2>1, <3>3, <3>4
    <3> QED  BY <3>4, <3>5 DEF Published
  <2> QED  BY <2>2, <2>3, <2>4
<1> QED  BY <1>10, <1>11, <1>12

LEMMA ReadTidy ==
  ASSUME TypeOK, Tidy, NEW L, NEW n, NEW q, Consumed(L, n, q)
  PROVE  Tidy'
<1>1. /\ L \in Nat /\ n \in Nat /\ L = Len(line) /\ 1 <= n /\ n <= L /\ Len(line') = L - n
      /\ \A i \in 1..(L - n) : line'[i] = line[n + i] /\ origin'[i] = origin[n + i]
      /\ intact' = intact
  BY DEF Consumed
<1>2. ASSUME NEW i \in 1..(L - n)
      PROVE  n + i \in 1..Len(line) /\ line'[i] = line[n + i] /\ origin'[i] = origin[n + i]
  BY <1>1
<1>3. Ordered'
  <2> SUFFICES ASSUME NEW i \in 1..(L - n), NEW j \in 1..(L - n), i < j
               PROVE  origin'[i].of <= origin'[j].of
    BY <1>1 DEF Ordered
  <2>1. n + i \in 1..Len(line) /\ n + j \in 1..Len(line) /\ n + i < n + j  BY <1>1, <1>2
  <2>2. origin[n + i].of <= origin[n + j].of  BY <2>1 DEF Tidy, Ordered
  <2> QED  BY <1>2, <2>2
<1>4. Spoilt'
  <2> SUFFICES ASSUME NEW i \in 1..(L - n), origin'[i].at = 0
               PROVE  origin'[i].of \notin intact'
    BY <1>1 DEF Spoilt
  <2>1. n + i \in 1..Len(line) /\ origin[n + i].at = 0  BY <1>2
  <2>2. origin[n + i].of \notin intact  BY <2>1 DEF Tidy, Spoilt
  <2> QED  BY <1>1, <1>2, <2>2
<1>5. Faithful'
  <2> SUFFICES ASSUME NEW i \in 1..(L - n), origin'[i].at # 0
               PROVE  /\ origin'[i].of \in intact'
                      /\ line'[i] = Encoded[origin'[i].of][origin'[i].at]
    BY <1>1 DEF Faithful
  <2>1. n + i \in 1..Len(line) /\ origin[n + i].at # 0  BY <1>2
  <2>2. /\ origin[n + i].of \in intact
        /\ line[n + i] = Encoded[origin[n + i].of][origin[n + i].at]
    BY <2>1 DEF Tidy, Faithful
  <2> QED  BY <1>1, <1>2, <2>2
<1>6. Complete'
  <2> SUFFICES ASSUME NEW i \in 1..(L - n), NEW d \in 1..Whole,
                      origin'[i].at # 0, origin'[i].at + d <= Whole
               PROVE  /\ i + d <= L - n
                      /\ origin'[i + d].of = origin'[i].of
                      /\ origin'[i + d].at = origin'[i].at + d
    BY <1>1 DEF Complete
  <2>1. /\ n + i \in 1..Len(line) /\ origin[n + i].at # 0 /\ origin[n + i].at + d <= Whole
        /\ origin'[i] = origin[n + i]
    BY <1>2
  <2>2. /\ (n + i) + d <= L /\ origin[(n + i) + d].of = origin[n + i].of
        /\ origin[(n + i) + d].at = origin[n + i].at + d
    BY <1>1, <2>1 DEF Tidy, Complete
  <2>3. i + d \in 1..(L - n) /\ n + (i + d) = (n + i) + d /\ i + d <= L - n
    BY <1>1, <2>2, WordsIsNat
  <2>4. origin'[i + d] = origin[(n + i) + d]  BY <1>2, <2>3
  <2> QED  BY <2>1, <2>2, <2>3, <2>4
<1>7. Once'
  <2> SUFFICES ASSUME NEW i \in 1..(L - n), NEW j \in 1..(L - n), i < j,
                      origin'[i].of = origin'[j].of
               PROVE  origin'[j].at = 0 \/ origin'[i].at < origin'[j].at
    BY <1>1 DEF Once
  <2>1. /\ n + i \in 1..Len(line) /\ n + j \in 1..Len(line) /\ n + i < n + j
        /\ origin[n + i].of = origin[n + j].of
    BY <1>1, <1>2
  <2>2. origin[n + j].at = 0 \/ origin[n + i].at < origin[n + j].at
    BY <2>1 DEF Tidy, Once
  <2> QED  BY <1>2, <2>2
<1> QED  BY <1>3, <1>4, <1>5, <1>6, <1>7 DEF Tidy

LEMMA BadKept ==
  ASSUME intact' \subseteq intact, NEW n
  PROVE  Bad(n) => Bad(n)'
<1>1. Clear(n)' <=> Clear(n)  BY DEF Clear, Encoded, Whole
<1> QED  BY <1>1 DEF Bad

LEMMA ReadExcuses ==
  ASSUME NEW D, NEW c, Excuses(D, c), NEW L, NEW n, NEW q, Consumed(L, n, q)
  PROVE  Excuses(D, c)'
<1>1. /\ L \in Nat /\ n \in Nat /\ L = Len(line) /\ 1 <= n /\ n <= L /\ Len(line') = L - n
      /\ \A i \in 1..(L - n) : line'[i] = line[n + i] /\ origin'[i] = origin[n + i]
      /\ intact' = intact /\ sent' = sent
  BY DEF Consumed
<1>2. ASSUME NEW k \in D, NEW i \in 1..(L - n) PROVE k <= origin'[i].of
  <2>1. n + i \in 1..Len(line)  BY <1>1
  <2> QED  BY <1>1, <2>1 DEF Excuses
<1>3. \A k \in D : Bad(c[k])'  BY <1>1, BadKept DEF Excuses
<1> QED  BY <1>1, <1>2, <1>3 DEF Excuses

(* An intact frame that the reader follows is published.                   *)
LEMMA FollowingOn ==
  ASSUME TypeOK, Tidy, Read, NEW f, Following(f), NEW L, NEW n, NEW q, Consumed(L, n, q)
  PROVE  /\ Reading(f)' \/ (frame' = <<>> /\ Published(f)')
         /\ \A i \in 1..n : origin[i].of = f
<1>1. /\ L \in Nat /\ n \in Nat /\ q \in Nat /\ L = Len(line) /\ q = Len(frame)
      /\ 1 <= n /\ n <= L /\ q + n <= Whole /\ q < Whole /\ Len(line') = L - n
      /\ \A i \in 1..(L - n) : line'[i] = line[n + i] /\ origin'[i] = origin[n + i]
      /\ Longer \in Seq(Byte) /\ Len(Longer) = q + n
      /\ \A i \in 1..q : Longer[i] = frame[i]
      /\ \A i \in 1..n : Longer[q + i] = line[i]
      /\ line' # <<>> <=> L - n >= 1
  BY DEF Consumed
<1>2. /\ origin[1].of = f /\ origin[1].at = q + 1
      /\ \A k \in 1..q : frame[k] = Encoded[f][k]
  BY <1>1 DEF Following
<1>3. 1 \in 1..Len(line) /\ origin[1].at # 0  BY <1>1, <1>2
<1>4. f \in Frames
  <2>1. f \in 1..sent /\ sent \in Nat  BY <1>2, <1>3, LineType
  <2>2. sent \in 0..Len(Readings)  BY DEF TypeOK
  <2>3. Len(Readings) \in Nat  BY FrameAssumption
  <2> QED  BY <2>1, <2>2, <2>3 DEF Frames
<1>5. ASSUME NEW i \in 1..(n + 1), q + i <= Whole
      PROVE  /\ i <= L /\ origin[i].of = f /\ origin[i].at = q + i
             /\ line[i] = Encoded[f][q + i]
  <2>1. i <= L /\ origin[i].of = f /\ origin[i].at = q + i
    <3>1. CASE i = 1  BY <1>1, <1>2, <3>1
    <3>2. CASE i # 1
      <4>1. PICK d \in Nat : d = i - 1 /\ i = 1 + d  BY <1>1, <3>2
      <4>2. d \in 1..Whole /\ origin[1].at + d <= Whole
        BY <1>1, <1>2, <1>5, <3>2, <4>1, WordsIsNat
      <4>3. /\ 1 + d <= Len(line) /\ origin[1 + d].of = origin[1].of
            /\ origin[1 + d].at = origin[1].at + d
        BY <1>3, <4>2 DEF Tidy, Complete
      <4> QED  BY <1>1, <1>2, <4>1, <4>3
    <3> QED  BY <3>1, <3>2
  <2>2. i \in 1..Len(line) /\ origin[i].at # 0  BY <1>1, <2>1
  <2>3. line[i] = Encoded[origin[i].of][origin[i].at]  BY <2>2 DEF Tidy, Faithful
  <2> QED  BY <2>1, <2>3
<1>6. ASSUME NEW i \in 1..n PROVE origin[i].of = f /\ line[i] = Encoded[f][q + i]
  <2>1. i \in 1..(n + 1) /\ q + i <= Whole  BY <1>1, WordsIsNat
  <2> QED  BY <1>5, <2>1
<1>7. ASSUME NEW k \in 1..(q + n) PROVE Longer[k] = Encoded[f][k]
  <2>1. CASE k <= q
    <3>1. k \in 1..q  BY <1>1, <2>1
    <3> QED  BY <1>1, <1>2, <3>1
  <2>2. CASE ~(k <= q)
    <3>1. k \in Int /\ k > q /\ k <= q + n  BY <1>1, <2>2
    <3>2. k - q \in 1..n /\ k = q + (k - q)  BY <1>1, <3>1
    <3>3. PICK i \in 1..n : k = q + i  BY <3>2
    <3> QED  BY <1>1, <1>6, <3>3
  <2> QED  BY <2>1, <2>2
<1>8. Longer = SubSeq(Encoded[f], 1, q + n)
  <2>1. PICK e : e = Encoded[f]  OBVIOUS
  <2>2. e \in Seq(Byte) /\ Len(e) = Whole  BY <1>4, <2>1, EncodedType
  <2>3. q + n \in 0..Len(e)  BY <1>1, <2>2, WordsIsNat
  <2>4. PICK t : t = SubSeq(e, 1, q + n)  OBVIOUS
  <2>5. t \in Seq(Byte) /\ Len(t) = q + n /\ \A i \in 1..(q + n) : t[i] = e[i]
    BY <2>2, <2>3, <2>4, Taken
  <2>6. \A i \in 1..Len(Longer) : Longer[i] = t[i]  BY <1>1, <1>7, <2>1, <2>5
  <2>7. Longer = t  BY <1>1, <2>5, <2>6, SeqEqual
  <2> QED  BY <2>1, <2>4, <2>7
<1>9. q + n \in 1..Whole  BY <1>1, WordsIsNat
<1>10. Acceptable(Longer)  BY <1>4, <1>8, <1>9, PrefixAcceptable
<1>11. CASE q + n < Whole
  <2>1. frame' = Longer
    <3>1. Len(Longer) # Whole  BY <1>1, <1>11, WordsIsNat
    <3> QED  BY <1>10, <3>1, ReadIs, Zenon
  <2>2. n + 1 \in 1..(n + 1) /\ q + (n + 1) <= Whole  BY <1>1, <1>11, WordsIsNat
  <2>3. n + 1 <= L /\ origin[n + 1].of = f /\ origin[n + 1].at = q + (n + 1)
    BY <1>5, <2>2
  <2>4. 1 \in 1..(L - n)  BY <1>1, <2>3
  <2>5. origin'[1] = origin[n + 1] /\ line' # <<>>  BY <1>1, <2>4
  <2>6. origin'[1].of = f /\ origin'[1].at = (q + n) + 1  BY <1>1, <2>3, <2>5
  <2>7. Longer # <<>>
    <3>1. Len(Longer) # 0  BY <1>1
    <3> QED  BY <3>1, EmptySeq
  <2>8. Reading(f)'
    BY <1>1, <1>7, <2>1, <2>5, <2>6, <2>7 DEF Reading, Following, Encoded
  <2> QED  BY <1>6, <2>8
<1>12. CASE q + n = Whole
  <2>1. Len(Longer) = Whole  BY <1>1, <1>12
  <2>2. frame' = <<>> /\ published' = Append(published, Data(Longer))
    <3>1. ~(Len(Longer) < Whole)  BY <2>1, WordsIsNat
    <3> QED  BY <1>10, <2>1, <3>1, ReadIs, Zenon
  <2>3. Longer = Encoded[f]
    <3>1. SubSeq(Encoded[f], 1, Len(Encoded[f])) = Encoded[f]  BY <1>4, EncodedType, SubSeqFull
    <3> QED  BY <1>4, <1>8, <1>12, <3>1, EncodedType
  <2>4. Data(Longer) = Readings[f] /\ Readings[f] \in [1..(2 * Words) -> Byte]
    BY <1>4, <2>3, EncodedType
  <2>5. published \in Seq([1..(2 * Words) -> Byte])  BY DEF TypeOK
  <2>6. /\ published' \in Seq([1..(2 * Words) -> Byte]) /\ Len(published') = Len(published) + 1
        /\ published'[Len(published) + 1] = Readings[f]
    BY <2>2, <2>4, <2>5, AppendProperties
  <2>7. Len(published) + 1 \in DOMAIN published'  BY <2>5, <2>6
  <2>8. Published(f)'  BY <2>6, <2>7 DEF Published
  <2> QED  BY <1>6, <2>2, <2>8
<1>13. q + n < Whole \/ q + n = Whole  BY <1>9, WordsIsNat
<1> QED  BY <1>11, <1>12, <1>13
LEMMA UnreadKept ==
  ASSUME NEW k, Unread(k), NEW L, NEW n, NEW q, Consumed(L, n, q),
         \A i \in 1..n : origin[i].of = k => origin[i].at # 1
  PROVE  Unread(k)'
<1>1. /\ L \in Nat /\ n \in Nat /\ L = Len(line) /\ Len(line') = L - n
      /\ \A i \in 1..(L - n) : origin'[i] = origin[n + i]
  BY DEF Consumed
<1>2. PICK i \in 1..L : origin[i].of = k /\ origin[i].at = 1  BY <1>1 DEF Unread
<1>3. i \notin 1..n  BY <1>2
<1>4. i - n \in 1..(L - n) /\ n + (i - n) = i  BY <1>1, <1>3
<1>5. PICK j \in 1..(L - n) : n + j = i  BY <1>4
<1>6. origin'[j].of = k /\ origin'[j].at = 1  BY <1>1, <1>2, <1>5
<1> QED  BY <1>1, <1>5, <1>6 DEF Unread

(* If the bytes that are taken hold no first byte of an intact frame, no   *)
(* frame needs a new excuse.                                               *)
LEMMA NoneOverrun ==
  ASSUME TypeOK, Read, NEW D, Accounted(D), \A k : ~Reading(k),
         NEW L, NEW n, NEW q, Consumed(L, n, q), \A i \in 1..n : origin[i].at # 1
  PROVE  Accounted(D)'
<1> SUFFICES ASSUME NEW k \in intact'
             PROVE  k \in D \/ Published(k)' \/ Reading(k)' \/ Unread(k)'
  BY DEF Accounted
<1>1. k \in intact  BY DEF Consumed
<1>2. k \in D \/ Published(k) \/ Unread(k)  BY <1>1 DEF Accounted
<1> QED  BY <1>2, ReadConsumes, UnreadKept

(* The reader follows an intact frame.                                     *)
LEMMA ReadFollowing ==
  ASSUME TypeOK, Tidy, Read, NEW D, NEW c, Excuses(D, c), Accounted(D),
         NEW f, Following(f)
  PROVE  Explained(D, c)'
<1>1. PICK L, n, q : Consumed(L, n, q)  BY ReadConsumes
<1>2. /\ Reading(f)' \/ (frame' = <<>> /\ Published(f)')
      /\ \A i \in 1..n : origin[i].of = f
  BY <1>1, FollowingOn
<1>3. Accounted(D)'
  <2> SUFFICES ASSUME NEW k \in intact', k # f
               PROVE  k \in D \/ Published(k)' \/ Reading(k)' \/ Unread(k)'
    BY <1>2 DEF Accounted
  <2>1. k \in intact  BY <1>1 DEF Consumed
  <2>2. k \in D \/ Published(k) \/ Reading(k) \/ Unread(k)  BY <2>1 DEF Accounted
  <2>3. ~Reading(k)  BY DEF Reading, Following
  <2>4. Unread(k) => Unread(k)'  BY <1>1, <1>2, UnreadKept
  <2> QED  BY <2>2, <2>3, <2>4, ReadConsumes
<1>4. Position(D)'  BY <1>2 DEF Position
<1>5. Excuses(D, c)'  BY <1>1, ReadExcuses
<1> QED  BY <1>3, <1>4, <1>5 DEF Explained

(* It looks for a start byte where none of an intact frame is.             *)
LEMMA ReadLooking ==
  ASSUME TypeOK, Tidy, Read, NEW D, NEW c, Excuses(D, c), Accounted(D),
         frame = <<>>, origin[1].at # 1
  PROVE  Explained(D, c)'
<1>1. PICK L, n, q : Consumed(L, n, q)  BY ReadConsumes
<1>2. /\ L \in Nat /\ n \in Nat /\ q \in Nat /\ L = Len(line) /\ q = Len(frame)
      /\ n = 1 /\ n <= L /\ Len(line') = L - n
      /\ \A i \in 1..(L - n) : origin'[i] = origin[n + i]
      /\ Longer \in Seq(Byte) /\ Len(Longer) = q + n
      /\ \A i \in 1..n : Longer[q + i] = line[i]
      /\ sent' = sent /\ intact' = intact
  BY <1>1 DEF Consumed
<1>3. q = 0
  <2>1. Len(<<>>) = 0  BY EmptySeq
  <2> QED  BY <1>2, <2>1
<1>4. \A k : ~Reading(k)  BY DEF Reading
<1>5. Accounted(D)'
  <2>1. \A i \in 1..n : origin[i].at # 1  BY <1>2
  <2> QED  BY <1>1, <1>4, <2>1, NoneOverrun
<1>6. Position(D)'
  <2>1. CASE frame' = <<>>  BY <2>1 DEF Position
  <2>2. CASE frame' = Longer /\ Acceptable(Longer)
    <3>1. Len(Longer) = 1 /\ Longer[1] = line[1]
      <4>1. 1 \in 1..n  BY <1>2
      <4> QED  BY <1>2, <1>3, <4>1
    <3>2. line[1] = START1  BY <2>2, <3>1 DEF Acceptable
    <3>3. PICK u : u = origin[1].of  OBVIOUS
    <3>4. 1 \in 1..Len(line) /\ u \in 1..sent /\ origin[1].at \in 0..Whole
      BY <1>2, <3>3, LineType
    <3>5. Bad(u)
      <4>1. CASE origin[1].at = 0  BY <3>3, <3>4, <4>1 DEF Tidy, Spoilt, Bad
      <4>2. CASE origin[1].at # 0
        <5>1. Encoded[u][origin[1].at] = START1
          BY <3>2, <3>3, <3>4, <4>2 DEF Tidy, Faithful
        <5>2. origin[1].at \in 2..Whole  BY <3>4, <4>2, WordsIsNat
        <5> QED  BY <5>1, <5>2 DEF Clear, Bad
      <4> QED  BY <4>1, <4>2
    <3>6. ASSUME NEW i \in 1..(L - n)
          PROVE  u <= origin'[i].of /\ (origin'[i].of = u => origin'[i].at # 1)
      <4>1. n + i \in 1..Len(line) /\ 1 < n + i /\ origin'[i] = origin[n + i]  BY <1>2
      <4>2. u <= origin[n + i].of  BY <3>3, <3>4, <4>1 DEF Tidy, Ordered
      <4>3. ASSUME origin[n + i].of = u PROVE origin[n + i].at # 1
        <5>1. origin[n + i].at = 0 \/ origin[1].at < origin[n + i].at
          BY <3>3, <3>4, <4>1, <4>3 DEF Tidy, Once
        <5>2. CASE origin[1].at = 0
          <6>1. u \notin intact  BY <3>3, <3>4, <5>2 DEF Tidy, Spoilt
          <6>2. origin[n + i].at = 0  BY <4>1, <4>3, <6>1 DEF Tidy, Faithful
          <6> QED  BY <6>2
        <5>3. CASE origin[1].at # 0
          <6>1. origin[1].at >= 2  BY <3>4, <5>3, WordsIsNat
          <6>2. origin[n + i].at \in Nat  BY <4>1, LineType, WordsIsNat
          <6> QED  BY <3>4, <5>1, <6>1, <6>2
        <5> QED  BY <5>2, <5>3
      <4> QED  BY <4>1, <4>2, <4>3
    <3>7. \A k \in D : k <= u  BY <3>3, <3>4 DEF Excuses
    <3>8. Bad(u)'  BY <1>2, <3>5, BadKept
    <3>9. Longer # <<>>
      <4>1. Len(<<>>) = 0  BY EmptySeq
      <4> QED  BY <3>1, <4>1
    <3>10. Astray(u, D)'
      BY <1>2, <2>2, <3>4, <3>6, <3>7, <3>8, <3>9 DEF Astray
    <3> QED  BY <3>10 DEF Position
  <2> QED  BY <2>1, <2>2, ReadConsumes
<1>7. Excuses(D, c)'  BY <1>1, ReadExcuses
<1> QED  BY <1>5, <1>6, <1>7 DEF Explained

(* It is in the middle of an intact frame that has its excuse.             *)
LEMMA ReadOverrun ==
  ASSUME TypeOK, Tidy, Read, NEW D, NEW c, Excuses(D, c), Accounted(D),
         \A k : ~Reading(k), Overrun(D)
  PROVE  Explained(D, c)'
<1>1. PICK L, n, q : Consumed(L, n, q)  BY ReadConsumes
<1>2. /\ L \in Nat /\ n \in Nat /\ q \in Nat /\ L = Len(line) /\ q = Len(frame)
      /\ 1 <= n /\ n <= L /\ q + n <= Whole /\ Len(line') = L - n
      /\ \A i \in 1..(L - n) : origin'[i] = origin[n + i]
      /\ Longer \in Seq(Byte) /\ Len(Longer) = q + n
      /\ (line' # <<>> <=> L - n >= 1)
  BY <1>1 DEF Consumed
<1>3. PICK m, k : m = origin[1].of /\ k = origin[1].at  OBVIOUS
<1>4. m \in D /\ k \in Nat /\ k >= 2 /\ q >= k /\ 1 \in 1..Len(line)
  <2>1. 1 \in 1..Len(line)  BY <1>2
  <2>2. k \in Nat  BY <1>3, <2>1, LineType, WordsIsNat
  <2> QED  BY <1>2, <1>3, <2>1, <2>2 DEF Overrun
<1>5. ASSUME NEW d \in 1..n
      PROVE  1 + d <= L /\ origin[1 + d].of = m /\ origin[1 + d].at = k + d
  <2>1. d \in 1..Whole /\ k + d <= Whole /\ k # 0  BY <1>2, <1>4, WordsIsNat
  <2> QED  BY <1>2, <1>3, <1>4, <2>1 DEF Tidy, Complete
<1>6. ASSUME NEW i \in 1..n PROVE origin[i].at # 1
  <2>1. CASE i = 1  BY <1>3, <1>4, <2>1
  <2>2. CASE i # 1
    <3>1. i - 1 \in 1..n /\ 1 + (i - 1) = i  BY <1>2, <2>2
    <3>2. PICK d \in 1..n : 1 + d = i  BY <3>1
    <3>3. origin[i].at = k + d  BY <1>5, <3>2
    <3> QED  BY <1>4, <3>3
  <2> QED  BY <2>1, <2>2
<1>7. Accounted(D)'  BY <1>1, <1>6, NoneOverrun
<1>8. Position(D)'
  <2>1. CASE frame' = <<>>  BY <2>1 DEF Position
  <2>2. CASE frame' = Longer
    <3>1. n \in 1..n  BY <1>2
    <3>2. 1 + n <= L /\ origin[1 + n].of = m /\ origin[1 + n].at = k + n  BY <1>5, <3>1
    <3>3. 1 \in 1..(L - n) /\ n + 1 = 1 + n  BY <1>2, <3>2
    <3>4. origin'[1] = origin[1 + n] /\ line' # <<>>  BY <1>2, <3>3
    <3>5. Longer # <<>>
      <4>1. Len(<<>>) = 0  BY EmptySeq
      <4> QED  BY <1>2, <4>1
    <3>6. origin'[1].of \in D /\ origin'[1].at >= 2 /\ Len(Longer) >= origin'[1].at
      BY <1>2, <1>4, <3>2, <3>4
    <3>7. Overrun(D)'  BY <2>2, <3>4, <3>5, <3>6 DEF Overrun
    <3> QED  BY <3>7 DEF Position
  <2> QED  BY <2>1, <2>2, ReadConsumes
<1>9. Excuses(D, c)'  BY <1>1, ReadExcuses
<1> QED  BY <1>7, <1>8, <1>9 DEF Explained
(* It reads on from a byte it took for a start byte.  If that takes it     *)
(* over the first byte of an intact frame, the frame it went astray in is  *)
(* the excuse of that one.                                                 *)
LEMMA ReadAstray ==
  ASSUME TypeOK, Tidy, Read, NEW D, NEW c, Excuses(D, c), Accounted(D),
         \A k : ~Reading(k), NEW u, Astray(u, D)
  PROVE  \E D2, c2 : Explained(D2, c2)'
<1>1. PICK L, n, q : Consumed(L, n, q)  BY ReadConsumes
<1>2. /\ L \in Nat /\ n \in Nat /\ q \in Nat /\ L = Len(line) /\ q = Len(frame)
      /\ 1 <= n /\ n <= L /\ q + n <= Whole /\ Len(line') = L - n
      /\ \A i \in 1..(L - n) : origin'[i] = origin[n + i]
      /\ Longer \in Seq(Byte) /\ Len(Longer) = q + n
      /\ (line' # <<>> <=> L - n >= 1)
      /\ sent' = sent /\ intact' = intact
  BY <1>1 DEF Consumed
<1>3. /\ u \in 1..sent /\ Bad(u) /\ frame # <<>>
      /\ \A k \in D : k <= u
      /\ \A i \in 1..L :
           u <= origin[i].of /\ (origin[i].of = u => origin[i].at # 1)
  BY <1>2 DEF Astray
<1>4. Excuses(D, c)'  BY <1>1, ReadExcuses
<1>5. Longer # <<>>
  <2>1. Len(<<>>) = 0  BY EmptySeq
  <2> QED  BY <1>2, <2>1
<1>6. CASE \A i \in 1..n : origin[i].at # 1
  <2>1. Accounted(D)'  BY <1>1, <1>6, NoneOverrun
  <2>2. Position(D)'
    <3>1. CASE frame' = <<>>  BY <3>1 DEF Position
    <3>2. CASE frame' = Longer
      <4>1. ASSUME NEW i \in 1..(L - n)
            PROVE  u <= origin'[i].of /\ (origin'[i].of = u => origin'[i].at # 1)
        <5>1. n + i \in 1..L /\ origin'[i] = origin[n + i]  BY <1>2
        <5> QED  BY <1>3, <5>1
      <4>2. Bad(u)'  BY <1>2, <1>3, BadKept
      <4>3. Astray(u, D)'  BY <1>2, <1>3, <1>5, <3>2, <4>1, <4>2 DEF Astray
      <4> QED  BY <4>3 DEF Position
    <3> QED  BY <3>1, <3>2, ReadConsumes
  <2> QED  BY <1>4, <2>1, <2>2 DEF Explained
<1>7. CASE \E i \in 1..n : origin[i].at = 1
  <2>1. PICK a \in 1..n : origin[a].at = 1  BY <1>7
  <2>2. PICK m : m = origin[a].of  OBVIOUS
  <2>3. a \in 1..L /\ a \in 1..Len(line) /\ m \in 1..sent  BY <1>2, <2>1, <2>2, LineType
  <2>4. m > u /\ m \notin D /\ u \in Nat
    <3>1. m \in Nat /\ u \in Nat /\ u <= m /\ m # u  BY <1>3, <2>1, <2>2, <2>3
    <3> QED  BY <1>3, <3>1
  <2>5. q >= 1 /\ n + 1 <= Whole /\ a + ((n + 1) - a) = n + 1
    BY <1>2, <1>3, <2>1, LineType, WordsIsNat
  <2>6. ASSUME NEW i \in (a + 1)..(n + 1)
        PROVE  i <= L /\ origin[i].of = m /\ origin[i].at = 1 + (i - a)
    <3>1. i - a \in 1..Whole /\ 1 + (i - a) <= Whole /\ a + (i - a) = i
      BY <1>2, <2>1, <2>5, WordsIsNat
    <3>2. PICK d \in 1..Whole : d = i - a /\ 1 + d <= Whole /\ a + d = i  BY <3>1
    <3>3. origin[a].at # 0 /\ origin[a].at + d <= Whole  BY <2>1, <3>2
    <3>4. /\ a + d <= Len(line) /\ origin[a + d].of = origin[a].of
          /\ origin[a + d].at = origin[a].at + d
      BY <2>3, <3>2, <3>3 DEF Tidy, Complete
    <3> QED  BY <1>2, <2>1, <2>2, <3>2, <3>4
  <2>7. ASSUME NEW i \in 1..n, origin[i].at = 1 PROVE i = a
    <3>1. CASE i > a
      <4>1. i \in (a + 1)..(n + 1)  BY <1>2, <3>1
      <4>2. origin[i].at = 1 + (i - a)  BY <2>6, <4>1
      <4> QED  BY <1>2, <2>1, <2>7, <3>1, <4>2
    <3>2. CASE i < a
      <4>1. a - i \in 1..Whole /\ 1 + (a - i) <= Whole /\ i + (a - i) = a /\ i \in 1..Len(line)
        BY <1>2, <2>1, <2>5, <3>2, WordsIsNat
      <4>2. PICK d \in 1..Whole : d = a - i /\ 1 + d <= Whole /\ i + d = a  BY <4>1
      <4>3. origin[i + d].at = origin[i].at + d
        BY <2>7, <4>1, <4>2 DEF Tidy, Complete
      <4> QED  BY <2>1, <2>7, <4>2, <4>3
    <3> QED  BY <1>2, <2>1, <3>1, <3>2
  <2>8. PICK E, e : E = D \cup {m} /\ e = [k \in D \cup {m} |-> IF k = m THEN u ELSE c[k]]
    OBVIOUS
  <2>9. /\ D \subseteq 1..sent /\ c \in [D -> Nat]
        /\ \A k \in D : 1 <= c[k] /\ c[k] < k /\ Bad(c[k])
        /\ \A x, y \in D : c[x] = c[y] => x = y
        /\ \A k \in D, i \in 1..L : k <= origin[i].of
    BY <1>2 DEF Excuses
  <2>10. Excuses(E, e)'
    <3>1. E \subseteq 1..sent /\ e \in [E -> Nat]  BY <2>3, <2>4, <2>8, <2>9
    <3>2. ASSUME NEW k \in E PROVE 1 <= e[k] /\ e[k] < k /\ Bad(e[k])'
      <4>1. CASE k = m
        <5>1. e[k] = u  BY <2>8, <4>1
        <5>2. Bad(u)'  BY <1>2, <1>3, BadKept
        <5> QED  BY <1>3, <2>4, <4>1, <5>1, <5>2
      <4>2. CASE k # m
        <5>1. k \in D /\ e[k] = c[k]  BY <2>8, <4>2
        <5>2. Bad(c[k])'  BY <1>2, <2>9, <5>1, BadKept
        <5> QED  BY <2>9, <5>1, <5>2
      <4> QED  BY <4>1, <4>2
    <3>3. ASSUME NEW k \in D PROVE c[k] # u
      <4>1. c[k] \in Nat /\ k \in Nat /\ c[k] < k /\ k <= u  BY <1>3, <2>9
      <4> QED  BY <2>4, <4>1
    <3>4. ASSUME NEW x \in E, NEW y \in E, e[x] = e[y] PROVE x = y
      <4>1. x = m \/ (x \in D /\ x # m)  BY <2>8
      <4>2. y = m \/ (y \in D /\ y # m)  BY <2>8
      <4>3. \A k \in E : e[k] = IF k = m THEN u ELSE c[k]  BY <2>8
      <4> QED  BY <2>9, <3>3, <3>4, <4>1, <4>2, <4>3
    <3>5. ASSUME NEW k \in E, NEW i \in 1..(L - n) PROVE k <= origin'[i].of
      <4>1. n + i \in 1..L /\ n + i \in 1..Len(line) /\ a < n + i /\ origin'[i] = origin[n + i]
        BY <1>2, <2>1
      <4>2. CASE k \in D  BY <2>9, <4>1, <4>2
      <4>3. CASE k = m  BY <2>2, <2>3, <4>1, <4>3 DEF Tidy, Ordered
      <4> QED  BY <2>8, <4>2, <4>3
    <3> QED  BY <1>2, <3>1, <3>2, <3>4, <3>5 DEF Excuses
  <2>11. Accounted(E)'
    <3> SUFFICES ASSUME NEW k \in intact', k # m
                 PROVE  k \in E \/ Published(k)' \/ Reading(k)' \/ Unread(k)'
      BY <2>8 DEF Accounted
    <3>1. k \in D \/ Published(k) \/ Unread(k)  BY <1>2 DEF Accounted
    <3>2. ASSUME NEW i \in 1..n, origin[i].of = k PROVE origin[i].at # 1
      BY <2>2, <2>7, <3>2
    <3>3. Unread(k) => Unread(k)'  BY <1>1, <3>2, UnreadKept
    <3> QED  BY <2>8, <3>1, <3>3, ReadConsumes
  <2>12. Position(E)'
    <3>1. CASE frame' = <<>>  BY <3>1 DEF Position
    <3>2. CASE frame' = Longer
      <4>1. n + 1 \in (a + 1)..(n + 1)  BY <1>2, <2>1
      <4>2. n + 1 <= L /\ origin[n + 1].of = m /\ origin[n + 1].at = 1 + ((n + 1) - a)
        BY <2>6, <4>1
      <4>3. 1 \in 1..(L - n)  BY <1>2, <4>2
      <4>4. origin'[1] = origin[n + 1] /\ line' # <<>>  BY <1>2, <4>3
      <4>5. origin'[1].of \in E  BY <2>8, <4>2, <4>4
      <4>6. origin'[1].at >= 2 /\ Len(Longer) >= origin'[1].at
        BY <1>2, <2>1, <2>5, <4>2, <4>4
      <4>7. Overrun(E)'  BY <1>5, <3>2, <4>4, <4>5, <4>6 DEF Overrun
      <4> QED  BY <4>7 DEF Position
    <3> QED  BY <3>1, <3>2, ReadConsumes
  <2>13. Explained(E, e)'  BY <2>10, <2>11, <2>12 DEF Explained
  <2> QED  BY <2>13
<1> QED  BY <1>6, <1>7

LEMMA ReadExplained ==
  ASSUME TypeOK, Tidy, Read, NEW D, NEW c, Explained(D, c)
  PROVE  \E D2, c2 : Explained(D2, c2)'
<1>1. Excuses(D, c) /\ Accounted(D) /\ Position(D)  BY DEF Explained
<1>2. line # <<>>  BY ReadIs
<1>3. CASE \E f : Following(f)
  <2>1. Explained(D, c)'  BY <1>1, <1>3, ReadFollowing
  <2> QED  BY <2>1
<1>4. CASE \A f : ~Following(f)
  <2>1. \A k : ~Reading(k)  BY <1>4 DEF Reading
  <2>2. CASE frame = <<>>
    <3>1. origin[1].at # 1
      <4> SUFFICES ASSUME origin[1].at = 1 PROVE FALSE  OBVIOUS
      <4>1. Len(frame) = 0  BY <2>2, EmptySeq
      <4>2. origin[1].at = Len(frame) + 1 /\ \A k : k \notin 1..Len(frame)  BY <4>1
      <4>3. Following(origin[1].of)  BY <1>2, <4>2 DEF Following
      <4> QED  BY <1>4, <4>3
    <3>2. Explained(D, c)'  BY <1>1, <2>2, <3>1, ReadLooking
    <3> QED  BY <3>2
  <2>3. CASE \E u : Astray(u, D)  BY <1>1, <2>1, <2>3, ReadAstray
  <2>4. CASE Overrun(D)
    <3>1. Explained(D, c)'  BY <1>1, <2>1, <2>4, ReadOverrun
    <3> QED  BY <3>1
  <2>5. ~Idle  BY <1>2 DEF Idle
  <2> QED  BY <1>1, <2>1, <2>2, <2>3, <2>4, <2>5 DEF Position
<1> QED  BY <1>3, <1>4
-----------------------------------------------------------------------------
(* The other steps.                                                        *)

(* Nothing the excuses are about has changed.                              *)
LEMMA Untouched ==
  ASSUME LossInv, UNCHANGED <<line, frame, published, sent, intact, origin>>,
         gone => gone', pc' # "open" \/ pc' = pc
  PROVE  LossInv'
<1>1. PICK D, c : Explained(D, c)  BY DEF LossInv
<1>2. Explained(D, c)'
  <2>1. Excuses(D, c)'
    BY <1>1 DEF Explained, Excuses, Bad, Clear, Encoded, Whole
  <2>2. \A n : (Reading(n) => Reading(n)') /\ (Unread(n) => Unread(n)')
               /\ (Published(n) => Published(n)')
    BY DEF Reading, Following, Unread, Published, Encoded
  <2>3. Accounted(D)'  BY <1>1, <2>2 DEF Explained, Accounted
  <2>4. \A u : Astray(u, D) => Astray(u, D)'
    BY DEF Astray, Bad, Clear, Encoded, Whole
  <2>5. (Overrun(D) => Overrun(D)') /\ (Idle => Idle')  BY DEF Overrun, Idle
  <2>6. Position(D)'  BY <1>1, <2>2, <2>4, <2>5 DEF Explained, Position
  <2> QED  BY <2>1, <2>3, <2>6 DEF Explained
<1>3. Tidy'
  BY DEF LossInv, Tidy, Ordered, Spoilt, Faithful, Complete, Once, Encoded, Whole
<1>4. Opening'  BY DEF LossInv, Opening
<1> QED  BY <1>2, <1>3, <1>4 DEF LossInv

(* The line is emptied.                                                    *)
LEMMA TidyOfNone ==
  ASSUME line' = <<>>
  PROVE  Tidy'
<1>1. \A i : i \notin 1..Len(line')  BY EmptySeq
<1> QED  BY <1>1 DEF Tidy, Ordered, Spoilt, Faithful, Complete, Once

LEMMA UnplugLoses ==
  ASSUME TypeOK, LossInv, gone', frame' = frame, published' = published, sent' = sent,
         line' = <<>>, intact' = intact \ InLine, pc' = pc, pc # "open"
  PROVE  LossInv'
<1>1. PICK D, c : Explained(D, c)  BY DEF LossInv
<1>2. \A i : i \notin 1..Len(line')  BY EmptySeq
<1>3. Excuses(D, c)'
  BY <1>1, <1>2, BadKept DEF Explained, Excuses
<1>4. Accounted(D)'
  <2> SUFFICES ASSUME NEW n \in intact'
               PROVE  n \in D \/ Published(n)'
    BY DEF Accounted
  <2>1. n \in intact /\ n \notin InLine  OBVIOUS
  <2>2. DOMAIN origin = 1..Len(line)  BY DEF TypeOK
  <2>3. ~Unread(n)  BY <2>1, <2>2 DEF Unread, InLine
  <2>4. ~Reading(n)
    <3>1. line # <<>> => 1 \in 1..Len(line)  BY LineType
    <3> QED  BY <2>1, <2>2, <3>1 DEF Reading, Following, InLine
  <2>5. n \in D \/ Published(n)  BY <1>1, <2>1, <2>3, <2>4 DEF Explained, Accounted
  <2> QED  BY <2>5 DEF Published
<1>5. Position(D)'  BY DEF Position, Idle
<1>6. Explained(D, c)'  BY <1>3, <1>4, <1>5 DEF Explained
<1>7. Tidy'  BY TidyOfNone
<1> QED  BY <1>6, <1>7 DEF LossInv, Opening

(* A call of uart_read fails.                                              *)
LEMMA ReadFailsKeeps ==
  ASSUME TypeOK, LossInv, ReadFails
  PROVE  LossInv'
<1>1. /\ gone /\ line = <<>> /\ frame' = <<>> /\ pc = "read"
      /\ UNCHANGED <<line, gone, pc, published, sent, intact, origin>>
  BY DEF ReadFails
<1>2. PICK D, c : Explained(D, c)  BY DEF LossInv
<1>3. Excuses(D, c)'
  BY <1>1, <1>2, BadKept DEF Explained, Excuses
<1>4. Accounted(D)'
  <2>1. \A n : ~Reading(n)  BY <1>1 DEF Reading, Following
  <2>2. \A n : (Unread(n) => Unread(n)') /\ (Published(n) => Published(n)')
    BY <1>1 DEF Unread, Published
  <2> QED  BY <1>1, <1>2, <2>1, <2>2 DEF Explained, Accounted
<1>5. Position(D)'  BY <1>1 DEF Position
<1>6. Explained(D, c)'  BY <1>3, <1>4, <1>5 DEF Explained
<1>7. Tidy'  BY <1>1, TidyOfNone
<1> QED  BY <1>1, <1>6, <1>7 DEF LossInv, Opening

LEMMA LossStep ==
  ASSUME TypeOK, LossInv, [Next]_vars
  PROVE  LossInv'
<1>1. PICK D, c : Explained(D, c)  BY DEF LossInv
<1>2. Tidy  BY DEF LossInv
<1>3. CASE Open
  <2>1. /\ pc = "open" /\ ~gone /\ pc' = "read" /\ gone' = gone /\ frame' = frame
        /\ published' = published /\ intact' = intact
    BY <1>3 DEF Open
  <2>2. line = <<>> /\ frame = <<>> /\ intact = {}  BY <2>1 DEF LossInv, Opening
  <2>3. CASE line' = <<>> /\ origin' = <<>> /\ sent' = sent
    <3>1. origin = <<>>
      <4>1. Len(origin) = 0  BY <2>2, LineType, EmptySeq
      <4>2. origin \in Seq(Places(sent))  BY DEF TypeOK, Places
      <4> QED  BY <4>1, <4>2, EmptySeq
    <3> QED  BY <2>1, <2>2, <2>3, <3>1, Untouched
  <2>4. CASE /\ sent < Len(Readings) /\ sent' = sent + 1
             /\ \E k \in 2..Whole : Arrive(SubSeq(Encoded[sent + 1], k, Whole), FALSE)
    <3>1. PICK k \in 2..Whole : Arrive(SubSeq(Encoded[sent + 1], k, Whole), FALSE)  BY <2>4
    <3>2. PICK b : b = SubSeq(Encoded[sent + 1], k, Whole)  OBVIOUS
    <3>3. sent + 1 \in Frames
      <4>1. sent \in Nat /\ Len(Readings) \in Nat  BY LineType, FrameAssumption
      <4> QED  BY <2>4, <4>1 DEF Frames
    <3>4. b \in Seq(Byte)  BY <3>2, <3>3, Suffix
    <3>5. PICK m \in 0..Len(b) : Behind(b, FALSE, m)  BY <3>1, <3>2, <3>4, ArriveType
    <3>6. m \in Nat  BY <3>4
    <3>7. Arrived(Len(line), m, FALSE)
      BY <2>1, <2>4, <3>5, <3>6, ArrivedFromBehind
    <3>8. Tidy'  BY <1>2, <3>7, ArrivedTidy
    <3>9. Explained(D, c)'  BY <1>1, <2>1, <3>7, ArrivedExplained
    <3> QED  BY <2>1, <3>8, <3>9 DEF LossInv, Opening
  <2> QED  BY <1>3, <2>3, <2>4 DEF Open
<1>4. CASE Read
  <2>1. PICK L, n, q : Consumed(L, n, q)  BY <1>4, ReadConsumes
  <2>2. Tidy'  BY <1>2, <2>1, ReadTidy
  <2>3. \E D2, c2 : Explained(D2, c2)'  BY <1>1, <1>2, <1>4, ReadExplained
  <2>4. pc' # "open"  BY <1>4, ReadIs
  <2> QED  BY <2>2, <2>3, <2>4 DEF LossInv, Opening
<1>5. CASE ReadFails  BY <1>5, ReadFailsKeeps
<1>6. CASE Wake
  <2>1. /\ pc' # "open" /\ gone' = gone
        /\ UNCHANGED <<line, frame, published, sent, intact, origin>>
    BY <1>6 DEF Wake
  <2> QED  BY <2>1, Untouched
<1>7. CASE SensorSends
  <2>1. /\ pc # "open" /\ ~gone /\ sent < Len(Readings) /\ sent' = sent + 1
        /\ gone' = gone /\ pc' = pc /\ frame' = frame /\ published' = published
    BY <1>7 DEF SensorSends
  <2>2. PICK whole \in BOOLEAN :
          /\ whole <=> Len(line) + Whole <= BufferSize
          /\ Arrive(Encoded[sent + 1], whole)
          /\ intact' = IF whole THEN intact \cup {sent + 1} ELSE intact
    <3>1. (Len(line) + Whole <= BufferSize) \in BOOLEAN  OBVIOUS
    <3> QED  BY <1>7, <3>1, Zenon DEF SensorSends
  <2>3. sent + 1 \in Frames
    <3>1. sent \in Nat /\ Len(Readings) \in Nat  BY LineType, FrameAssumption
    <3> QED  BY <2>1, <3>1 DEF Frames
  <2>4. PICK b : b = Encoded[sent + 1]  OBVIOUS
  <2>5. b \in Seq(Byte) /\ Len(b) = Whole  BY <2>3, <2>4, EncodedType
  <2>6. PICK m \in 0..Len(b) :
          Behind(b, whole, m) /\ (Len(line) + Len(b) <= BufferSize => m = Len(b))
    BY <2>2, <2>4, <2>5, ArriveType
  <2>7. m \in Nat /\ (whole => m = Whole)  BY <2>2, <2>5, <2>6
  <2>8. Arrived(Len(line), m, whole)
    BY <2>1, <2>2, <2>4, <2>6, <2>7, ArrivedFromBehind
  <2>9. Tidy'  BY <1>2, <2>8, ArrivedTidy
  <2>10. Explained(D, c)'  BY <1>1, <2>1, <2>8, ArrivedExplained
  <2> QED  BY <2>1, <2>9, <2>10 DEF LossInv, Opening
<1>8. CASE LineDamages
  <2>1. /\ pc # "open" /\ ~gone /\ sent < Len(Readings) /\ sent' = sent + 1
        /\ gone' = gone /\ pc' = pc /\ frame' = frame /\ published' = published
        /\ intact' = intact
    BY <1>8 DEF LineDamages
  <2>2. PICK b \in Damaged(Encoded[sent + 1]) : Arrive(b, FALSE)
    BY <1>8 DEF LineDamages
  <2>3. sent + 1 \in Frames
    <3>1. sent \in Nat /\ Len(Readings) \in Nat  BY LineType, FrameAssumption
    <3> QED  BY <2>1, <3>1 DEF Frames
  <2>4. b \in Seq(Byte)  BY <2>3, EncodedType, DamagedType
  <2>5. PICK m \in 0..Len(b) : Behind(b, FALSE, m)  BY <2>2, <2>4, ArriveType
  <2>6. m \in Nat  BY <2>4
  <2>7. Arrived(Len(line), m, FALSE)  BY <2>1, <2>5, <2>6, ArrivedFromBehind
  <2>8. Tidy'  BY <1>2, <2>7, ArrivedTidy
  <2>9. Explained(D, c)'  BY <1>1, <2>1, <2>7, ArrivedExplained
  <2> QED  BY <2>1, <2>8, <2>9 DEF LossInv, Opening
<1>9. CASE Unplug
  <2>1. /\ pc # "open" /\ gone' = TRUE /\ pc' = pc /\ frame' = frame
        /\ published' = published /\ sent' = sent
        /\ \/ line' = line /\ origin' = origin /\ intact' = intact
           \/ line' = <<>> /\ intact' = intact \ InLine
    BY <1>9 DEF Unplug
  <2>2. CASE line' = line /\ origin' = origin /\ intact' = intact
    BY <2>1, <2>2, Untouched
  <2>3. CASE line' = <<>> /\ intact' = intact \ InLine
    BY <2>1, <2>3, UnplugLoses
  <2> QED  BY <2>1, <2>2, <2>3
<1>10. CASE UNCHANGED vars
  <2>1. pc' = pc /\ gone' = gone /\ UNCHANGED <<line, frame, published, sent, intact, origin>>
    BY <1>10 DEF vars
  <2> QED  BY <2>1, Untouched
<1> QED
  BY <1>3, <1>4, <1>5, <1>6, <1>7, <1>8, <1>9, <1>10 DEF Next

(* Damage is paid for once: the intact frames that were read and not       *)
(* published are no more than the earlier ones that were damaged, cut or   *)
(* hold a byte that can be taken for a start byte (pms5003st_read, which   *)
(* starts again with the next byte whenever a comparison fails).           *)
THEOREM FewAreMissed == Spec => []LossBounded
<1>1. Init => LossInv
  <2> SUFFICES ASSUME Init PROVE LossInv  OBVIOUS
  <2>1. line = <<>> /\ frame = <<>> /\ intact = {} /\ sent = 0  BY DEF Init
  <2>2. \A i : i \notin 1..Len(line)  BY <2>1, EmptySeq
  <2>3. Tidy  BY <2>2 DEF Tidy, Ordered, Spoilt, Faithful, Complete, Once
  <2>4. PICK D, c : D = {} /\ c = [n \in {} |-> 0]  OBVIOUS
  <2>5. Excuses(D, c)  BY <2>4 DEF Excuses
  <2>6. Accounted(D) /\ Position(D)  BY <2>1 DEF Accounted, Position
  <2> QED  BY <2>1, <2>3, <2>5, <2>6 DEF LossInv, Opening, Explained
<1>2. TypeOK /\ LossInv /\ [Next]_vars => LossInv'
  BY LossStep
<1>3. TypeOK /\ LossInv => LossBounded
  BY LossFromExcuses
<1> QED  BY <1>1, <1>2, <1>3, TypeCorrect, PTL DEF Spec
=============================================================================
