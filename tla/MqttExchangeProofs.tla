-------------------------- MODULE MqttExchangeProofs --------------------------
(***************************************************************************)
(* Proofs about the codec of mqtt.h as MqttExchange uses it, for every     *)
(* application, every text and every number of properties: what            *)
(* mqtt_serialize allocates is what it writes, and the length kept beside  *)
(* a list of properties is that of its bytes.                              *)
(*                                                                         *)
(* The codec's recursive functions (sums, sequences joined, the digits of  *)
(* an integer of variable length) are first shown to satisfy the equations *)
(* they are defined by, by induction from the well-foundedness of <; then  *)
(* comes one lemma for each __serialize_ function, and what an application *)
(* can make of a packet (Senders).                                         *)
(***************************************************************************)
EXTENDS MqttExchange, SequenceTheorems, WellFoundedInduction, TLAPS

Byte == 0..255

-----------------------------------------------------------------------------
(* Induction over the natural numbers, from the well-foundedness of <.     *)
Below == {ss \in Nat \X Nat : ss[1] < ss[2]}

LEMMA BelowIsWellFounded == IsWellFoundedOn(Below, Nat)
<1>1. IsWellFoundedOn(OpToRel(<, Nat), Nat)  BY NatLessThanWellFounded
<1>2. Below = OpToRel(<, Nat)  BY DEF Below, OpToRel
<1> QED  BY <1>1, <1>2

LEMMA Least ==
  ASSUME NEW T, T \subseteq Nat, T # {}
  PROVE  \E x \in T : \A y \in T : x <= y
<1>1. PICK x \in T : \A y \in T : <<y, x>> \notin Below
  BY BelowIsWellFounded, WFMin
<1>2. ASSUME NEW y \in T PROVE x <= y
  <2>1. <<y, x>> \notin Below /\ x \in Nat /\ y \in Nat  BY <1>1
  <2> QED  BY <2>1 DEF Below
<1> QED  BY <1>2

LEMMA Induction ==
  ASSUME NEW S, 0 \in S, \A k \in Nat : k \in S => k + 1 \in S
  PROVE  \A k \in Nat : k \in S
<1> SUFFICES ASSUME NEW T, T = {k \in Nat : k \notin S}, T # {} PROVE FALSE
  OBVIOUS
<1>1. PICK x \in T : \A y \in T : x <= y  BY Least
<1>2. x \in Nat /\ x # 0 /\ x - 1 \in Nat  OBVIOUS
<1>3. x - 1 \in S  BY <1>1, <1>2
<1> QED  BY <1>2, <1>3
-----------------------------------------------------------------------------
(* A sum taken term by term.                                               *)
Partial(s, n, f) == f = [i \in 0..n |-> IF i = 0 THEN 0 ELSE f[i - 1] + s[i]]

LEMMA PartialExists ==
  ASSUME NEW s \in Seq(Int)
  PROVE  \E f : Partial(s, Len(s), f)
<1> DEFINE S == {n \in Nat : \E f : Partial(s, n, f)}
<1>1. 0 \in S
  <2>1. PICK f : f = [i \in 0..0 |-> 0]  OBVIOUS
  <2>2. Partial(s, 0, f)  BY <2>1 DEF Partial
  <2> QED  BY <2>2
<1>2. ASSUME NEW n \in Nat, n \in S PROVE n + 1 \in S
  <2>1. PICK f : Partial(s, n, f)  BY <1>2
  <2>2. PICK g : g = [i \in 0..(n + 1) |-> IF i <= n THEN f[i] ELSE f[n] + s[n + 1]]  OBVIOUS
  <2>3. ASSUME NEW i \in 0..(n + 1)
        PROVE  g[i] = IF i = 0 THEN 0 ELSE g[i - 1] + s[i]
    <3>1. CASE i = 0  BY <2>1, <2>2, <3>1 DEF Partial
    <3>2. CASE i # 0 /\ i <= n
      <4>1. i - 1 \in 0..n /\ i \in 0..n /\ i - 1 \in 0..(n + 1)  BY <3>2
      <4>2. f[i] = f[i - 1] + s[i]  BY <2>1, <3>2, <4>1 DEF Partial
      <4> QED  BY <2>2, <3>2, <4>1, <4>2
    <3>3. CASE i = n + 1
      <4>1. n \in 0..(n + 1) /\ i - 1 = n /\ ~(i <= n)  BY <3>3
      <4> QED  BY <2>2, <3>3, <4>1
    <3> QED  BY <3>1, <3>2, <3>3
  <2>4. Partial(s, n + 1, g)  BY <2>2, <2>3 DEF Partial
  <2> QED  BY <2>4
<1> HIDE DEF S
<1>3. Len(s) \in S  BY <1>1, <1>2, Induction
<1> QED  BY <1>3 DEF S

LEMMA SumIs ==
  ASSUME NEW s \in Seq(Int)
  PROVE  \E f : Partial(s, Len(s), f) /\ Sum(s) = f[Len(s)]
<1> DEFINE f == CHOOSE f : f = [i \in 0..Len(s) |-> IF i = 0 THEN 0 ELSE f[i - 1] + s[i]]
<1>1. Partial(s, Len(s), f)  BY PartialExists DEF Partial
<1>2. Sum(s) = f[Len(s)]  BY DEF Sum
<1> QED  BY <1>1, <1>2

(* The partial sums of two sequences that agree up to n are the same, and  *)
(* a sum is an integer, no smaller than zero if its terms are not.         *)
LEMMA PartialIsInt ==
  ASSUME NEW s \in Seq(Int), NEW f, Partial(s, Len(s), f)
  PROVE  \A n \in 0..Len(s) : f[n] \in Int
<1> DEFINE S == {n \in Nat : n <= Len(s) => f[n] \in Int}
<1>1. 0 \in S  BY DEF Partial
<1>2. ASSUME NEW n \in Nat, n \in S PROVE n + 1 \in S
  <2> SUFFICES ASSUME n + 1 <= Len(s) PROVE f[n + 1] \in Int  OBVIOUS
  <2>1. n + 1 \in 1..Len(s) /\ n + 1 \in 0..Len(s) /\ n + 1 # 0 /\ (n + 1) - 1 = n  OBVIOUS
  <2>2. f[n] \in Int /\ s[n + 1] \in Int  BY <1>2, <2>1
  <2>3. f[n + 1] = f[n] + s[n + 1]  BY <2>1 DEF Partial
  <2> QED  BY <2>2, <2>3
<1> HIDE DEF S
<1>3. \A n \in Nat : n \in S  BY <1>1, <1>2, Induction
<1> QED  BY <1>3 DEF S

LEMMA PartialAgree ==
  ASSUME NEW s \in Seq(Int), NEW t \in Seq(Int), NEW f, NEW g,
         Partial(s, Len(s), f), Partial(t, Len(t), g),
         NEW m \in Nat, m <= Len(s), m <= Len(t), \A i \in 1..m : s[i] = t[i]
  PROVE  f[m] = g[m]
<1> DEFINE S == {n \in Nat : n <= m => f[n] = g[n]}
<1>1. 0 \in S  BY DEF Partial
<1>2. ASSUME NEW n \in Nat, n \in S PROVE n + 1 \in S
  <2> SUFFICES ASSUME n + 1 <= m PROVE f[n + 1] = g[n + 1]  OBVIOUS
  <2>1. n + 1 \in 1..m /\ n + 1 \in 0..Len(s) /\ n + 1 \in 0..Len(t) /\ n + 1 # 0
        /\ (n + 1) - 1 = n
    OBVIOUS
  <2>2. f[n + 1] = f[n] + s[n + 1]  BY <2>1 DEF Partial
  <2>3. g[n + 1] = g[n] + t[n + 1]  BY <2>1 DEF Partial
  <2>4. f[n] = g[n] /\ s[n + 1] = t[n + 1]  BY <1>2, <2>1
  <2> QED  BY <2>2, <2>3, <2>4
<1> HIDE DEF S
<1>3. m \in S  BY <1>1, <1>2, Induction
<1> QED  BY <1>3 DEF S

LEMMA SumOfNone == Sum(<<>>) = 0
<1>1. PICK s \in Seq(Int) : s = <<>>  BY EmptySeq
<1>2. PICK f : Partial(s, Len(s), f) /\ Sum(s) = f[Len(s)]  BY SumIs
<1>3. Len(s) = 0  BY <1>1
<1> QED  BY <1>1, <1>2, <1>3 DEF Partial

LEMMA SumIsInt ==
  ASSUME NEW s \in Seq(Int)
  PROVE  Sum(s) \in Int
BY SumIs, PartialIsInt

LEMMA SumOfAppend ==
  ASSUME NEW s \in Seq(Int), NEW x \in Int
  PROVE  Sum(Append(s, x)) = Sum(s) + x
<1>1. PICK t : t = Append(s, x)  OBVIOUS
<1>2. t \in Seq(Int) /\ Len(t) = Len(s) + 1 /\ t[Len(s) + 1] = x
      /\ \A i \in 1..Len(s) : s[i] = t[i]
  BY <1>1
<1>3. PICK f : Partial(s, Len(s), f) /\ Sum(s) = f[Len(s)]  BY SumIs
<1>4. PICK g : Partial(t, Len(t), g) /\ Sum(t) = g[Len(t)]  BY <1>2, SumIs
<1>5. Len(s) \in Nat /\ Len(s) <= Len(t) /\ Len(s) <= Len(s)  BY <1>2
<1>6. f[Len(s)] = g[Len(s)]
  <2> DEFINE m == Len(s)
  <2>1. m \in Nat /\ m <= Len(s) /\ m <= Len(t) /\ \A i \in 1..m : s[i] = t[i]  BY <1>2, <1>5
  <2>2. Partial(s, Len(s), f) /\ Partial(t, Len(t), g)  BY <1>3, <1>4
  <2> HIDE DEF m
  <2>3. f[m] = g[m]  BY <1>2, <2>1, <2>2, PartialAgree
  <2> QED  BY <2>3 DEF m
<1>7. g[Len(s) + 1] = g[Len(s)] + t[Len(s) + 1]  BY <1>2, <1>4, <1>5 DEF Partial
<1> QED  BY <1>1, <1>2, <1>3, <1>4, <1>6, <1>7

LEMMA PrefixStep ==
  ASSUME NEW S, NEW t \in Seq(S), NEW n \in Nat, n + 1 <= Len(t)
  PROVE  /\ SubSeq(t, 1, n) \in Seq(S) /\ t[n + 1] \in S
         /\ SubSeq(t, 1, n + 1) = Append(SubSeq(t, 1, n), t[n + 1])
OBVIOUS

LEMMA SumOfConcat ==
  ASSUME NEW s \in Seq(Int), NEW t \in Seq(Int)
  PROVE  Sum(s \o t) = Sum(s) + Sum(t)
<1> DEFINE S == {n \in Nat : n <= Len(t) =>
                   Sum(s \o SubSeq(t, 1, n)) = Sum(s) + Sum(SubSeq(t, 1, n))}
<1>1. 0 \in S
  <2>1. SubSeq(t, 1, 0) = <<>> /\ s \o <<>> = s  OBVIOUS
  <2>2. PICK z : z = Sum(s)  OBVIOUS
  <2>3. z \in Int /\ z = z + 0  BY <2>2, SumIsInt
  <2>4. Sum(s \o SubSeq(t, 1, 0)) = Sum(s) + Sum(SubSeq(t, 1, 0))
    BY <2>1, <2>2, <2>3, SumOfNone, Zenon
  <2> QED  BY <2>4
<1>2. ASSUME NEW n \in Nat, n \in S PROVE n + 1 \in S
  <2> SUFFICES ASSUME n + 1 <= Len(t)
               PROVE  Sum(s \o SubSeq(t, 1, n + 1)) = Sum(s) + Sum(SubSeq(t, 1, n + 1))
    OBVIOUS
  <2>1. PICK u, x : u = SubSeq(t, 1, n) /\ x = t[n + 1]  OBVIOUS
  <2>2. u \in Seq(Int) /\ x \in Int /\ SubSeq(t, 1, n + 1) = Append(u, x)  BY <2>1, PrefixStep
  <2>3. n <= Len(t)  OBVIOUS
  <2>4. Sum(s \o u) = Sum(s) + Sum(u)  BY <1>2, <2>1, <2>3
  <2>5. s \o u \in Seq(Int) /\ s \o Append(u, x) = Append(s \o u, x)  BY <2>2
  <2>6. Sum(Append(s \o u, x)) = Sum(s \o u) + x  BY <2>2, <2>5, SumOfAppend
  <2>7. Sum(Append(u, x)) = Sum(u) + x  BY <2>2, SumOfAppend
  <2>8. PICK y, z : y = Sum(s) /\ z = Sum(u)  OBVIOUS
  <2>9. y \in Int /\ z \in Int /\ x \in Int  BY <2>2, <2>8, SumIsInt
  <2>10. (y + z) + x = y + (z + x)  BY <2>9
  <2> QED  BY <2>2, <2>4, <2>5, <2>6, <2>7, <2>8, <2>10, Zenon
<1> HIDE DEF S
<1>3. PICK n \in Nat : n = Len(t)  OBVIOUS
<1>4. n \in S  BY <1>1, <1>2, Induction
<1>7. n <= Len(t)  BY <1>3
<1>5. SubSeq(t, 1, n) = t  BY <1>3
<1>6. Sum(s \o SubSeq(t, 1, n)) = Sum(s) + Sum(SubSeq(t, 1, n))  BY <1>4, <1>7, Zenon DEF S
<1> QED  BY <1>5, <1>6, Zenon

LEMMA SumOfOne ==
  ASSUME NEW x \in Int
  PROVE  Sum(<<x>>) = x
<1>1. PICK s \in Seq(Int) : s = <<>>  BY EmptySeq
<1>2. <<x>> = Append(s, x)  BY <1>1
<1>3. Sum(Append(s, x)) = Sum(s) + x  BY SumOfAppend
<1> QED  BY <1>1, <1>2, <1>3, SumOfNone

LEMMA SumIsNat ==
  ASSUME NEW s \in Seq(Nat)
  PROVE  Sum(s) \in Nat
<1> DEFINE S == {n \in Nat : n <= Len(s) => Sum(SubSeq(s, 1, n)) \in Nat}
<1>1. 0 \in S
  <2>1. SubSeq(s, 1, 0) = <<>> /\ 0 \in Nat  OBVIOUS
  <2>2. Sum(SubSeq(s, 1, 0)) \in Nat  BY <2>1, SumOfNone, Zenon
  <2> QED  BY <2>2
<1>2. ASSUME NEW n \in Nat, n \in S PROVE n + 1 \in S
  <2> SUFFICES ASSUME n + 1 <= Len(s) PROVE Sum(SubSeq(s, 1, n + 1)) \in Nat  OBVIOUS
  <2>1. PICK u, x : u = SubSeq(s, 1, n) /\ x = s[n + 1]  OBVIOUS
  <2>2. u \in Seq(Nat) /\ x \in Nat /\ SubSeq(s, 1, n + 1) = Append(u, x)  BY <2>1, PrefixStep
  <2>3. Sum(u) \in Nat  BY <1>2, <2>1
  <2>4. u \in Seq(Int) /\ x \in Int  BY <2>2
  <2>5. Sum(Append(u, x)) = Sum(u) + x  BY <2>4, SumOfAppend
  <2>6. PICK y : y = Sum(u)  OBVIOUS
  <2>7. y + x \in Nat  BY <2>2, <2>3, <2>6
  <2> QED  BY <2>2, <2>5, <2>6, <2>7, Zenon
<1> HIDE DEF S
<1>3. PICK n \in Nat : n = Len(s)  OBVIOUS
<1>4. n \in S  BY <1>1, <1>2, Induction
<1>7. n <= Len(s)  BY <1>3
<1>5. SubSeq(s, 1, n) = s  BY <1>3
<1>6. Sum(SubSeq(s, 1, n)) \in Nat  BY <1>4, <1>7, Zenon DEF S
<1> QED  BY <1>5, <1>6, Zenon
-----------------------------------------------------------------------------
(* Sequences joined to one.                                                *)
Lengths(ss) == [i \in DOMAIN ss |-> Len(ss[i])]

JoinedTo(ss, n, f) == f = [i \in 1..n |-> IF i = 1 THEN ss[i] ELSE f[i - 1] \o ss[i]]

LEMMA JoinedExists ==
  ASSUME NEW ss, NEW m \in Nat
  PROVE  \E f : JoinedTo(ss, m, f)
<1> DEFINE S == {n \in Nat : \E f : JoinedTo(ss, n, f)}
<1>1. 0 \in S
  <2>1. PICK f : f = [i \in 1..0 |-> 0]  OBVIOUS
  <2>2. JoinedTo(ss, 0, f)  BY <2>1 DEF JoinedTo
  <2> QED  BY <2>2
<1>2. ASSUME NEW n \in Nat, n \in S PROVE n + 1 \in S
  <2>1. PICK f : JoinedTo(ss, n, f)  BY <1>2
  <2>2. PICK g : g = [i \in 1..(n + 1) |->
                        IF i <= n THEN f[i] ELSE IF i = 1 THEN ss[i] ELSE f[n] \o ss[n + 1]]
    OBVIOUS
  <2>3. ASSUME NEW i \in 1..(n + 1)
        PROVE  g[i] = IF i = 1 THEN ss[i] ELSE g[i - 1] \o ss[i]
    <3>1. CASE i <= n
      <4>1. i \in 1..n /\ g[i] = f[i] /\ (i # 1 => g[i - 1] = f[i - 1])  BY <2>2, <3>1
      <4>2. f[i] = IF i = 1 THEN ss[i] ELSE f[i - 1] \o ss[i]  BY <2>1, <4>1 DEF JoinedTo
      <4> QED  BY <4>1, <4>2
    <3>2. CASE i = n + 1 /\ i = 1  BY <2>2, <3>2
    <3>3. CASE i = n + 1 /\ i # 1
      <4>1. n \in 1..(n + 1) /\ i - 1 = n /\ n <= n /\ ~(i <= n)  BY <3>3
      <4>2. g[n] = f[n] /\ g[i] = f[n] \o ss[n + 1]  BY <2>2, <3>3, <4>1
      <4> QED  BY <3>3, <4>1, <4>2
    <3> QED  BY <3>1, <3>2, <3>3
  <2>4. JoinedTo(ss, n + 1, g)  BY <2>2, <2>3 DEF JoinedTo
  <2> QED  BY <2>4
<1> HIDE DEF S
<1>3. m \in S  BY <1>1, <1>2, Induction
<1> QED  BY <1>3 DEF S

LEMMA FlattenIs ==
  ASSUME NEW ss, Len(ss) \in Nat, Len(ss) # 0
  PROVE  \E f : JoinedTo(ss, Len(ss), f) /\ FlattenSeq(ss) = f[Len(ss)]
<1> DEFINE f == CHOOSE f : f = [i \in 1..Len(ss) |-> IF i = 1 THEN ss[i] ELSE f[i - 1] \o ss[i]]
<1>1. JoinedTo(ss, Len(ss), f)  BY JoinedExists DEF JoinedTo
<1>2. FlattenSeq(ss) = f[Len(ss)]  BY DEF FlattenSeq
<1> QED  BY <1>1, <1>2

LEMMA Singleton ==
  ASSUME NEW S, NEW s \in Seq(S), Len(s) = 1
  PROVE  s = <<s[1]>> /\ s[1] \in S
<1>1. s[1] \in S  OBVIOUS
<1>2. PICK t : t = <<s[1]>>  OBVIOUS
<1>3. t \in Seq(S) /\ Len(t) = 1 /\ t[1] = s[1]  BY <1>1, <1>2
<1>4. \A i \in 1..Len(s) : s[i] = t[i]  BY <1>3
<1>5. s = t  BY <1>3, <1>4, SeqEqual
<1> QED  BY <1>1, <1>2, <1>5

LEMMA Joined ==
  ASSUME NEW S, NEW s \in Seq(S), NEW t \in Seq(S)
  PROVE  s \o t \in Seq(S) /\ Len(s \o t) = Len(s) + Len(t)
OBVIOUS

LEMMA Headed ==
  ASSUME NEW S, NEW x \in S, NEW s \in Seq(S)
  PROVE  /\ <<x>> \o s \in Seq(S) /\ Len(<<x>> \o s) = Len(s) + 1 /\ (<<x>> \o s)[1] = x
         /\ \A j \in 1..Len(s) : (<<x>> \o s)[j + 1] = s[j]
<1>1. PICK h : h = <<x>>  OBVIOUS
<1>2. h \in Seq(S) /\ Len(h) = 1 /\ h[1] = x  BY <1>1
<1>3. h \o s \in Seq(S) /\ Len(h \o s) = Len(h) + Len(s)  BY <1>2, Joined
<1>4. \A i \in 1..Len(h) + Len(s) :
         (h \o s)[i] = IF i <= Len(h) THEN h[i] ELSE s[i - Len(h)]
  BY <1>2, ConcatProperties
<1>5. (h \o s)[1] = x
  <2>1. 1 \in 1..Len(h) + Len(s) /\ 1 <= Len(h)  BY <1>2
  <2> QED  BY <1>2, <1>4, <2>1
<1>6. ASSUME NEW j \in 1..Len(s) PROVE (h \o s)[j + 1] = s[j]
  <2>1. j + 1 \in 1..Len(h) + Len(s) /\ ~(j + 1 <= Len(h)) /\ (j + 1) - Len(h) = j  BY <1>2
  <2> QED  BY <1>4, <2>1
<1>7. Len(h \o s) = Len(s) + 1  BY <1>2, <1>3
<1> QED  BY <1>1, <1>3, <1>5, <1>6, <1>7

LEMMA Flatten ==
  ASSUME NEW S, NEW ss \in Seq(Seq(S))
  PROVE  FlattenSeq(ss) \in Seq(S) /\ Len(FlattenSeq(ss)) = Sum(Lengths(ss))
<1>1. CASE Len(ss) = 0
  <2>1. ss = <<>> /\ Lengths(ss) = <<>>  BY <1>1 DEF Lengths
  <2>2. FlattenSeq(ss) = <<>>  BY <1>1, <2>1 DEF FlattenSeq
  <2>3. <<>> \in Seq(S) /\ Len(<<>>) = 0  BY EmptySeq
  <2> QED  BY <2>1, <2>2, <2>3, SumOfNone
<1>2. CASE Len(ss) # 0
  <2>1. PICK f : JoinedTo(ss, Len(ss), f) /\ FlattenSeq(ss) = f[Len(ss)]  BY <1>2, FlattenIs
  <2>2. PICK l : l = Lengths(ss)  OBVIOUS
  <2>3. l \in Seq(Int) /\ Len(l) = Len(ss) /\ \A i \in 1..Len(ss) : l[i] = Len(ss[i])
    BY <2>2 DEF Lengths
  <2> DEFINE T == {n \in Nat : n + 1 <= Len(ss) =>
                     f[n + 1] \in Seq(S) /\ Len(f[n + 1]) = Sum(SubSeq(l, 1, n + 1))}
  <2>4. 0 \in T
    <3>1. 1 \in 1..Len(ss)  BY <1>2
    <3>2. f[1] = ss[1] /\ ss[1] \in Seq(S)  BY <2>1, <3>1 DEF JoinedTo
    <3>3. SubSeq(l, 1, 1) = <<l[1]>> /\ l[1] \in Int
      <4>1. 1 \in 1..Len(l) /\ 1 <= Len(l)  BY <2>3, <3>1
      <4>2. l[1] \in Int  BY <2>3, <4>1
      <4>3. Len(SubSeq(l, 1, 1)) = 1 /\ SubSeq(l, 1, 1)[1] = l[1] /\ SubSeq(l, 1, 1) \in Seq(Int)
        BY <2>3, <4>1
      <4> QED  BY <4>2, <4>3, Singleton
    <3>4. Sum(SubSeq(l, 1, 1)) = Len(ss[1])  BY <2>3, <3>1, <3>3, SumOfOne
    <3>5. f[0 + 1] = f[1] /\ SubSeq(l, 1, 0 + 1) = SubSeq(l, 1, 1)  OBVIOUS
    <3> QED  BY <3>2, <3>4, <3>5
  <2>5. ASSUME NEW n \in Nat, n \in T PROVE n + 1 \in T
    <3> SUFFICES ASSUME n + 2 <= Len(ss)
                 PROVE  f[n + 2] \in Seq(S) /\ Len(f[n + 2]) = Sum(SubSeq(l, 1, n + 2))
      BY (n + 1) + 1 = n + 2
    <3>1. n + 2 \in 1..Len(ss) /\ n + 2 # 1 /\ (n + 2) - 1 = n + 1 /\ n + 1 <= Len(ss)  OBVIOUS
    <3>2. f[n + 2] = f[n + 1] \o ss[n + 2]  BY <2>1, <3>1 DEF JoinedTo
    <3>3. f[n + 1] \in Seq(S) /\ Len(f[n + 1]) = Sum(SubSeq(l, 1, n + 1))  BY <2>5, <3>1
    <3>4. ss[n + 2] \in Seq(S) /\ l[n + 2] = Len(ss[n + 2])  BY <2>3, <3>1
    <3>5. PICK m \in Nat : m = n + 1  OBVIOUS
    <3>6. m + 1 = n + 2 /\ m + 1 <= Len(l)  BY <2>3, <3>1, <3>5
    <3>7. SubSeq(l, 1, m) \in Seq(Int) /\ l[m + 1] \in Int
          /\ SubSeq(l, 1, m + 1) = Append(SubSeq(l, 1, m), l[m + 1])
      BY <2>3, <3>6, PrefixStep
    <3>8. Sum(SubSeq(l, 1, n + 2)) = Sum(SubSeq(l, 1, n + 1)) + l[n + 2]
      BY <3>5, <3>6, <3>7, SumOfAppend
    <3>9. Len(f[n + 1] \o ss[n + 2]) = Len(f[n + 1]) + Len(ss[n + 2])
          /\ f[n + 1] \o ss[n + 2] \in Seq(S)
      BY <3>3, <3>4, Joined
    <3> QED  BY <3>2, <3>3, <3>4, <3>8, <3>9, Zenon
  <2> HIDE DEF T
  <2>6. PICK n \in Nat : n + 1 = Len(ss)  BY <1>2
  <2>7. n \in T  BY <2>4, <2>5, Induction
  <2>8. SubSeq(l, 1, n + 1) = l  BY <2>3, <2>6
  <2>9. f[n + 1] \in Seq(S) /\ Len(f[n + 1]) = Sum(SubSeq(l, 1, n + 1))
    BY <2>6, <2>7 DEF T
  <2> QED  BY <2>1, <2>2, <2>6, <2>8, <2>9, Zenon
<1> QED  BY <1>1, <1>2
-----------------------------------------------------------------------------
(* Integers of variable length: their digits.                              *)
FromDigit(k, d) == IF k < 128 THEN <<k>> ELSE <<(k % 128) + 128>> \o d[k \div 128]

DigitsTo(n, d) == d = [k \in 0..n |-> FromDigit(k, d)]

LEMMA Lower ==
  ASSUME NEW k \in Nat, k >= 128
  PROVE  k \div 128 \in Nat /\ k \div 128 < k /\ k \div 128 >= 1
OBVIOUS

LEMMA DigitsExist ==
  ASSUME NEW m \in Nat
  PROVE  \E d : DigitsTo(m, d)
<1> DEFINE S == {n \in Nat : \E d : DigitsTo(n, d)}
<1>1. 0 \in S
  <2>1. PICK d : d = [k \in 0..0 |-> <<k>>]  OBVIOUS
  <2>2. \A k \in 0..0 : k < 128  OBVIOUS
  <2>3. DigitsTo(0, d)  BY <2>1, <2>2 DEF DigitsTo, FromDigit
  <2> QED  BY <2>3
<1>2. ASSUME NEW n \in Nat, n \in S PROVE n + 1 \in S
  <2>1. PICK d : DigitsTo(n, d)  BY <1>2
  <2>2. PICK g : g = [k \in 0..(n + 1) |-> IF k <= n THEN d[k] ELSE FromDigit(k, d)]  OBVIOUS
  <2>3. ASSUME NEW k \in 0..(n + 1)
        PROVE  g[k] = FromDigit(k, g)
    <3>1. FromDigit(k, g) = FromDigit(k, d)
      <4>1. CASE k < 128  BY <4>1 DEF FromDigit
      <4>2. CASE k >= 128
        <5>1. k \in Nat  OBVIOUS
        <5>2. k \div 128 \in 0..n /\ k \div 128 \in 0..(n + 1) /\ k \div 128 <= n
          BY <4>2, <5>1, Lower
        <5>3. g[k \div 128] = d[k \div 128]  BY <2>2, <5>2
        <5> QED  BY <5>3 DEF FromDigit
      <4> QED  BY <4>1, <4>2
    <3>2. CASE k <= n
      <4>1. k \in 0..n /\ g[k] = d[k]  BY <2>2, <3>2
      <4>2. d[k] = FromDigit(k, d)  BY <2>1, <4>1 DEF DigitsTo
      <4> QED  BY <3>1, <4>1, <4>2
    <3>3. CASE ~(k <= n)
      <4>1. g[k] = FromDigit(k, d)  BY <2>2, <3>3
      <4> QED  BY <3>1, <4>1
    <3> QED  BY <3>2, <3>3
  <2>4. DigitsTo(n + 1, g)  BY <2>2, <2>3 DEF DigitsTo
  <2> QED  BY <2>4
<1> HIDE DEF S
<1>3. m \in S  BY <1>1, <1>2, Induction
<1> QED  BY <1>3 DEF S

LEMMA VbiIs ==
  ASSUME NEW n \in Nat
  PROVE  \E d : DigitsTo(n, d) /\ Vbi(n) = d[n]
<1> DEFINE d == CHOOSE d : d = [k \in 0..n |-> IF k < 128 THEN <<k>>
                                               ELSE <<(k % 128) + 128>> \o d[k \div 128]]
<1>1. DigitsTo(n, d)  BY DigitsExist DEF DigitsTo, FromDigit
<1>2. Vbi(n) = d[n]  BY DEF Vbi
<1> QED  BY <1>1, <1>2

LEMMA Digit ==
  ASSUME NEW k \in Nat
  PROVE  /\ k < 128 => k \in Byte
         /\ (k % 128) + 128 \in Byte
BY DEF Byte

LEMMA OneMore ==
  ASSUME NEW x \in Byte, NEW s \in Seq(Byte)
  PROVE  <<x>> \o s \in Seq(Byte) /\ Len(<<x>> \o s) = Len(s) + 1
OBVIOUS

(* The digits of a number are bytes, and up to 2^28 there are as many as   *)
(* mqtt_vbi_length says.                                                   *)
LEMMA OneDigit ==
  ASSUME NEW n \in Nat, NEW d, DigitsTo(n, d), NEW k \in 0..n, k < 128
  PROVE  d[k] \in Seq(Byte) /\ Len(d[k]) = 1
<1>1. d[k] = <<k>>  BY DEF DigitsTo, FromDigit
<1>2. k \in Byte  BY Digit
<1> QED  BY <1>1, <1>2

LEMMA MoreDigits ==
  ASSUME NEW n \in Nat, NEW d, DigitsTo(n, d), NEW k \in 0..n, k >= 128,
         d[k \div 128] \in Seq(Byte)
  PROVE  d[k] \in Seq(Byte) /\ Len(d[k]) = Len(d[k \div 128]) + 1
<1>1. ~(k < 128)  OBVIOUS
<1>2. d[k] = <<(k % 128) + 128>> \o d[k \div 128]  BY <1>1 DEF DigitsTo, FromDigit
<1>3. (k % 128) + 128 \in Byte  BY Digit
<1> QED  BY <1>2, <1>3, OneMore

LEMMA VbiIsBytes ==
  ASSUME NEW n \in Nat
  PROVE  Vbi(n) \in Seq(Byte)
<1>1. PICK d : DigitsTo(n, d) /\ Vbi(n) = d[n]  BY VbiIs
<1> DEFINE S == {m \in Nat : \A k \in 0..n : k <= m => d[k] \in Seq(Byte)}
<1>2. 0 \in S
  <2>1. \A k \in 0..n : k <= 0 => k < 128  OBVIOUS
  <2> QED  BY <1>1, <2>1, OneDigit
<1>3. ASSUME NEW m \in Nat, m \in S PROVE m + 1 \in S
  <2> SUFFICES ASSUME NEW k \in 0..n, k <= m + 1 PROVE d[k] \in Seq(Byte)  OBVIOUS
  <2>1. CASE k < 128  BY <1>1, <2>1, OneDigit
  <2>2. CASE k >= 128
    <3>1. k \div 128 \in 0..n /\ k \div 128 <= m  BY <2>2, Lower
    <3>2. d[k \div 128] \in Seq(Byte)  BY <1>3, <3>1
    <3> QED  BY <1>1, <2>2, <3>2, MoreDigits
  <2> QED  BY <2>1, <2>2
<1> HIDE DEF S
<1>4. n \in S  BY <1>2, <1>3, Induction
<1>5. n \in 0..n /\ n <= n  OBVIOUS
<1> QED  BY <1>1, <1>4, <1>5 DEF S

Limit2 == 128 * 128
Limit3 == 128 * 128 * 128

LEMMA Limits ==
  /\ Limit2 \in Nat /\ Limit3 \in Nat /\ VbiLimit \in Nat
  /\ 128 < Limit2 /\ Limit2 < Limit3 /\ Limit3 < VbiLimit
BY SMT DEF Limit2, Limit3, VbiLimit

LEMMA Quotients ==
  ASSUME NEW k \in Nat, k >= 128
  PROVE  /\ k < Limit2 => k \div 128 < 128
         /\ k >= Limit2 => k \div 128 >= 128
         /\ k < Limit3 => k \div 128 < Limit2
         /\ k >= Limit3 => k \div 128 >= Limit2
         /\ k < VbiLimit => k \div 128 < Limit3
BY SMT DEF Limit2, Limit3, VbiLimit

LEMMA VbiLengthIs ==
  ASSUME NEW n \in Nat
  PROVE  VbiLength(n) = IF n < 128 THEN 1 ELSE IF n < Limit2 THEN 2
                        ELSE IF n < Limit3 THEN 3 ELSE 4
BY SMT DEF VbiLength, Limit2, Limit3

LEMMA VbiFits ==
  ASSUME NEW n \in Nat, n < VbiLimit
  PROVE  Vbi(n) \in Seq(Byte) /\ Len(Vbi(n)) = VbiLength(n)
<1>1. PICK d : DigitsTo(n, d) /\ Vbi(n) = d[n]  BY VbiIs
<1>2. ASSUME NEW k \in 0..n, 128 <= k, k < Limit2
      PROVE  d[k] \in Seq(Byte) /\ Len(d[k]) = 2
  <2>1. k \div 128 \in 0..n /\ k \div 128 < 128  BY <1>2, Lower, Quotients, Limits
  <2>2. d[k \div 128] \in Seq(Byte) /\ Len(d[k \div 128]) = 1  BY <1>1, <2>1, OneDigit
  <2>3. d[k] \in Seq(Byte) /\ Len(d[k]) = Len(d[k \div 128]) + 1
    BY <1>1, <1>2, <2>2, MoreDigits
  <2> QED  BY <2>2, <2>3
<1>3. ASSUME NEW k \in 0..n, Limit2 <= k, k < Limit3
      PROVE  d[k] \in Seq(Byte) /\ Len(d[k]) = 3
  <2>0. k >= 128  BY <1>3, Limits
  <2>1. k \div 128 \in 0..n /\ 128 <= k \div 128 /\ k \div 128 < Limit2
    BY <1>3, <2>0, Lower, Quotients, Limits
  <2>2. d[k \div 128] \in Seq(Byte) /\ Len(d[k \div 128]) = 2  BY <1>2, <2>1
  <2>3. d[k] \in Seq(Byte) /\ Len(d[k]) = Len(d[k \div 128]) + 1
    BY <1>1, <2>0, <2>2, MoreDigits
  <2> QED  BY <2>2, <2>3
<1>4. ASSUME NEW k \in 0..n, Limit3 <= k, k < VbiLimit
      PROVE  d[k] \in Seq(Byte) /\ Len(d[k]) = 4
  <2>0. k >= 128  BY <1>4, Limits
  <2>1. k \div 128 \in 0..n /\ Limit2 <= k \div 128 /\ k \div 128 < Limit3
    BY <1>4, <2>0, Lower, Quotients, Limits
  <2>2. d[k \div 128] \in Seq(Byte) /\ Len(d[k \div 128]) = 3  BY <1>3, <2>1
  <2>3. d[k] \in Seq(Byte) /\ Len(d[k]) = Len(d[k \div 128]) + 1
    BY <1>1, <2>0, <2>2, MoreDigits
  <2> QED  BY <2>2, <2>3
<1>5. n \in 0..n  OBVIOUS
<1>6. CASE n < 128
  <2>1. d[n] \in Seq(Byte) /\ Len(d[n]) = 1  BY <1>1, <1>5, <1>6, OneDigit
  <2>2. VbiLength(n) = 1  BY <1>6, VbiLengthIs
  <2> QED  BY <1>1, <2>1, <2>2
<1>7. CASE 128 <= n /\ n < Limit2
  <2>1. VbiLength(n) = 2  BY <1>7, VbiLengthIs, Limits
  <2> QED  BY <1>1, <1>2, <1>5, <1>7, <2>1
<1>8. CASE Limit2 <= n /\ n < Limit3
  <2>1. VbiLength(n) = 3  BY <1>8, VbiLengthIs, Limits
  <2> QED  BY <1>1, <1>3, <1>5, <1>8, <2>1
<1>9. CASE Limit3 <= n
  <2>1. VbiLength(n) = 4  BY <1>9, VbiLengthIs, Limits
  <2> QED  BY <1>1, <1>4, <1>5, <1>9, <2>1
<1> QED  BY <1>6, <1>7, <1>8, <1>9, Limits
-----------------------------------------------------------------------------
(* A property whose strings and single bytes are of S: bytes for those     *)
(* that are sent, numbers for those that are read.                         *)
PropertyOf(S) ==
  [code : ByteProperties, int : S] \union [code : WordProperties, int : Nat]
    \union [code : LongProperties, long : Nat \X Nat]
    \union [code : VbiProperties, int : 0..(VbiLimit - 1)]
    \union [code : TextProperties, text : Seq(S)]
    \union [code : PairProperties, pair : Seq(S) \X Seq(S)]

(* Each code has one form.                                                 *)
FormOf(code) ==
  IF code \in VbiProperties THEN "vbi" ELSE IF code \in WordProperties THEN "word"
  ELSE IF code \in LongProperties THEN "long" ELSE IF code \in TextProperties THEN "text"
  ELSE IF code \in PairProperties THEN "pair" ELSE "byte"

LEMMA Forms ==
  ASSUME NEW c \in 0..LastProperty
  PROVE  /\ c \in VbiProperties  <=> FormOf(c) = "vbi"
         /\ c \in WordProperties <=> FormOf(c) = "word"
         /\ c \in LongProperties <=> FormOf(c) = "long"
         /\ c \in TextProperties <=> FormOf(c) = "text"
         /\ c \in PairProperties <=> FormOf(c) = "pair"
         /\ c \in ByteProperties <=> FormOf(c) = "byte"
BY DEF FormOf, LastProperty, VbiProperties, WordProperties, LongProperties, TextProperties,
       PairProperties, ByteProperties

LEMMA Codes ==
  /\ VbiProperties \subseteq 0..LastProperty /\ WordProperties \subseteq 0..LastProperty
  /\ LongProperties \subseteq 0..LastProperty /\ TextProperties \subseteq 0..LastProperty
  /\ PairProperties \subseteq 0..LastProperty /\ ByteProperties \subseteq 0..LastProperty
  /\ 0..LastProperty \subseteq Byte
BY DEF LastProperty, VbiProperties, WordProperties, LongProperties, TextProperties,
       PairProperties, ByteProperties, Byte

(* The value of a property of each form, its length and its bytes.         *)
FormFits(S, p) ==
  CASE FormOf(p.code) = "byte" -> p = [code |-> p.code, int |-> p.int] /\ p.int \in S
    [] FormOf(p.code) = "word" -> p = [code |-> p.code, int |-> p.int] /\ p.int \in Nat
    [] FormOf(p.code) = "long" -> p = [code |-> p.code, long |-> p.long] /\ p.long \in Nat \X Nat
    [] FormOf(p.code) = "vbi"  -> p = [code |-> p.code, int |-> p.int]
                                  /\ p.int \in 0..(VbiLimit - 1)
    [] FormOf(p.code) = "text" -> p = [code |-> p.code, text |-> p.text] /\ p.text \in Seq(S)
    [] FormOf(p.code) = "pair" -> p = [code |-> p.code, pair |-> p.pair]
                                  /\ p.pair \in Seq(S) \X Seq(S)

LEMMA PropertyForm ==
  ASSUME NEW S, NEW p \in PropertyOf(S)
  PROVE  p.code \in 0..LastProperty /\ FormFits(S, p)
<1>1. p.code \in 0..LastProperty  BY Codes DEF PropertyOf
<1> QED  BY <1>1, Forms, Zenon DEF PropertyOf, FormFits

LEMMA Pieces ==
  ASSUME NEW S, Byte \subseteq S
  PROVE  /\ \A n \in Nat : U16(n) \in Seq(S) /\ Len(U16(n)) = 2
         /\ \A s \in Seq(S) : Utf(s) \in Seq(S) /\ Len(Utf(s)) = Len(s) + 2
         /\ \A s \in Seq(S), t \in Seq(S) : s \o t \in Seq(S) /\ Len(s \o t) = Len(s) + Len(t)
         /\ \A c \in Byte : <<c>> \in Seq(S) /\ Len(<<c>>) = 1
         /\ \A s \in Seq(Byte) : s \in Seq(S)
<1>1. ASSUME NEW n \in Nat PROVE U16(n) \in Seq(S) /\ Len(U16(n)) = 2
  <2>1. (n \div 256) % 256 \in Byte /\ n % 256 \in Byte  BY DEF Byte
  <2>2. (n \div 256) % 256 \in S /\ n % 256 \in S  BY <2>1
  <2> QED  BY <2>2 DEF U16
<1>2. ASSUME NEW s \in Seq(S), NEW t \in Seq(S)
      PROVE  s \o t \in Seq(S) /\ Len(s \o t) = Len(s) + Len(t)
  OBVIOUS
<1>3. ASSUME NEW s \in Seq(S) PROVE Utf(s) \in Seq(S) /\ Len(Utf(s)) = Len(s) + 2
  <2>1. Len(s) \in Nat  OBVIOUS
  <2>2. U16(Len(s)) \in Seq(S) /\ Len(U16(Len(s))) = 2  BY <1>1, <2>1
  <2>3. Utf(s) \in Seq(S) /\ Len(Utf(s)) = Len(U16(Len(s))) + Len(s)  BY <1>2, <2>2 DEF Utf
  <2> QED  BY <2>1, <2>2, <2>3
<1>4. ASSUME NEW c \in Byte PROVE <<c>> \in Seq(S) /\ Len(<<c>>) = 1  OBVIOUS
<1>5. ASSUME NEW s \in Seq(Byte) PROVE s \in Seq(S)
  <2>1. \A i \in 1..Len(s) : s[i] \in S  OBVIOUS
  <2> QED  BY <2>1
<1> QED  BY <1>1, <1>2, <1>3, <1>4, <1>5, Zenon

(* A property takes one byte more than its value.                          *)
LEMMA PropertyBytesAre ==
  ASSUME NEW S, Byte \subseteq S, NEW p \in PropertyOf(S)
  PROVE  PropertyBytes(p) \in Seq(S) /\ Len(PropertyBytes(p)) = ValueLength(p) + 1
         /\ ValueLength(p) \in Nat
<1>1. PICK c : c = p.code  OBVIOUS
<1>2. c \in 0..LastProperty /\ FormFits(S, p) /\ c \in Byte  BY <1>1, PropertyForm, Codes
<1> DEFINE Fits(v) == PropertyBytes(p) = <<c>> \o v /\ v \in Seq(S) /\ Len(v) = ValueLength(p)
<1> HIDE DEF Fits
<1>3. ASSUME NEW v, Fits(v)
      PROVE  PropertyBytes(p) \in Seq(S) /\ Len(PropertyBytes(p)) = ValueLength(p) + 1
             /\ ValueLength(p) \in Nat
  <2>1. PropertyBytes(p) = <<c>> \o v /\ v \in Seq(S) /\ Len(v) = ValueLength(p)
    BY <1>3 DEF Fits
  <2>2. c \in S  BY <1>2
  <2> QED  BY <2>1, <2>2
<1>4. CASE FormOf(c) = "byte"
  <2>1. p.int \in S  BY <1>1, <1>2, <1>4 DEF FormFits
  <2>2. PropertyBytes(p) = <<c>> \o <<p.int>> /\ ValueLength(p) = 1
    BY <1>1, <1>2, <1>4, Forms DEF PropertyBytes, ValueLength
  <2>3. Fits(<<p.int>>)  BY <2>1, <2>2 DEF Fits
  <2> QED  BY <1>3, <2>3
<1>5. CASE FormOf(c) = "word"
  <2>1. p.int \in Nat  BY <1>1, <1>2, <1>5 DEF FormFits
  <2>2. PropertyBytes(p) = <<c>> \o U16(p.int) /\ ValueLength(p) = 2
    BY <1>1, <1>2, <1>5, Forms DEF PropertyBytes, ValueLength
  <2>3. Fits(U16(p.int))  BY <2>1, <2>2, Pieces DEF Fits
  <2> QED  BY <1>3, <2>3
<1>6. CASE FormOf(c) = "long"
  <2>1. p.long[1] \in Nat /\ p.long[2] \in Nat  BY <1>1, <1>2, <1>6 DEF FormFits
  <2>2. PropertyBytes(p) = <<c>> \o (U16(p.long[1]) \o U16(p.long[2])) /\ ValueLength(p) = 4
    BY <1>1, <1>2, <1>6, Forms DEF PropertyBytes, ValueLength
  <2>3. PICK u, w : u = U16(p.long[1]) /\ w = U16(p.long[2])  OBVIOUS
  <2>4. u \in Seq(S) /\ Len(u) = 2 /\ w \in Seq(S) /\ Len(w) = 2  BY <2>1, <2>3, Pieces
  <2>5. u \o w \in Seq(S) /\ Len(u \o w) = Len(u) + Len(w)  BY <2>4, Joined
  <2>7. Len(u \o w) = 4  BY <2>4, <2>5
  <2>6. Fits(u \o w)  BY <2>2, <2>3, <2>5, <2>7 DEF Fits
  <2> QED  BY <1>3, <2>6
<1>7. CASE FormOf(c) = "vbi"
  <2>1. p.int \in Nat /\ p.int < VbiLimit  BY <1>1, <1>2, <1>7, Limits DEF FormFits
  <2>2. PropertyBytes(p) = <<c>> \o Vbi(p.int) /\ ValueLength(p) = VbiLength(p.int)
    BY <1>1, <1>2, <1>7, Forms DEF PropertyBytes, ValueLength
  <2>3. Vbi(p.int) \in Seq(S) /\ Len(Vbi(p.int)) = VbiLength(p.int)  BY <2>1, VbiFits, Pieces
  <2>4. Fits(Vbi(p.int))  BY <2>2, <2>3 DEF Fits
  <2> QED  BY <1>3, <2>4
<1>8. CASE FormOf(c) = "text"
  <2>1. p.text \in Seq(S)  BY <1>1, <1>2, <1>8 DEF FormFits
  <2>2. PropertyBytes(p) = <<c>> \o Utf(p.text) /\ ValueLength(p) = 2 + Len(p.text)
    BY <1>1, <1>2, <1>8, Forms DEF PropertyBytes, ValueLength
  <2>3. Utf(p.text) \in Seq(S) /\ Len(Utf(p.text)) = Len(p.text) + 2  BY <2>1, Pieces
  <2>4. Fits(Utf(p.text))  BY <2>1, <2>2, <2>3 DEF Fits
  <2> QED  BY <1>3, <2>4
<1>9. CASE FormOf(c) = "pair"
  <2>1. p.pair[1] \in Seq(S) /\ p.pair[2] \in Seq(S)  BY <1>1, <1>2, <1>9 DEF FormFits
  <2>2. PropertyBytes(p) = <<c>> \o (Utf(p.pair[1]) \o Utf(p.pair[2]))
        /\ ValueLength(p) = 4 + Len(p.pair[1]) + Len(p.pair[2])
    BY <1>1, <1>2, <1>9, Forms DEF PropertyBytes, ValueLength
  <2>3. PICK u, w : u = Utf(p.pair[1]) /\ w = Utf(p.pair[2])  OBVIOUS
  <2>4. u \in Seq(S) /\ Len(u) = Len(p.pair[1]) + 2 /\ w \in Seq(S) /\ Len(w) = Len(p.pair[2]) + 2
    BY <2>1, <2>3, Pieces
  <2>5. u \o w \in Seq(S) /\ Len(u \o w) = Len(u) + Len(w)  BY <2>4, Joined
  <2>8. PICK i, j : i = Len(p.pair[1]) /\ j = Len(p.pair[2])  OBVIOUS
  <2>9. i \in Nat /\ j \in Nat  BY <2>1, <2>8
  <2>10. (i + 2) + (j + 2) = 4 + i + j  BY <2>9
  <2>6. Len(u \o w) = ValueLength(p)  BY <2>2, <2>4, <2>5, <2>8, <2>10, Zenon
  <2>7. Fits(u \o w)  BY <2>2, <2>3, <2>5, <2>6 DEF Fits
  <2> QED  BY <1>3, <2>7
<1>10. FormOf(c) \in {"byte", "word", "long", "vbi", "text", "pair"}  BY DEF FormOf
<1> QED  BY <1>4, <1>5, <1>6, <1>7, <1>8, <1>9, <1>10
-----------------------------------------------------------------------------
(* The bytes of a list of properties.                                      *)
Sizes(list) == [i \in DOMAIN list |-> Len(PropertyBytes(list[i]))]

PropertyList(S) == [list : Seq(PropertyOf(S)), length : Nat]

LEMMA SizesAre ==
  ASSUME NEW S, Byte \subseteq S, NEW list \in Seq(PropertyOf(S))
  PROVE  /\ Sizes(list) \in Seq(Nat) /\ Len(Sizes(list)) = Len(list)
         /\ \A i \in 1..Len(list) : Sizes(list)[i] = ValueLength(list[i]) + 1
                                    /\ ValueLength(list[i]) \in Nat
<1>1. ASSUME NEW i \in 1..Len(list)
      PROVE  Len(PropertyBytes(list[i])) = ValueLength(list[i]) + 1 /\ ValueLength(list[i]) \in Nat
  <2>1. list[i] \in PropertyOf(S)  OBVIOUS
  <2> QED  BY <2>1, PropertyBytesAre
<1>2. DOMAIN list = 1..Len(list) /\ Len(list) \in Nat  OBVIOUS
<1>3. Sizes(list) = [i \in 1..Len(list) |-> Len(PropertyBytes(list[i]))]  BY <1>2 DEF Sizes
<1>4. \A i \in 1..Len(list) : Len(PropertyBytes(list[i])) \in Nat  BY <1>1
<1> QED  BY <1>1, <1>2, <1>3, <1>4

LEMMA SizesOfConcat ==
  ASSUME NEW S, Byte \subseteq S, NEW a \in Seq(PropertyOf(S)), NEW b \in Seq(PropertyOf(S))
  PROVE  Sizes(a \o b) = Sizes(a) \o Sizes(b)
<1>1. a \o b \in Seq(PropertyOf(S)) /\ Len(a \o b) = Len(a) + Len(b)  OBVIOUS
<1>2. /\ Sizes(a) \in Seq(Nat) /\ Len(Sizes(a)) = Len(a)
      /\ Sizes(b) \in Seq(Nat) /\ Len(Sizes(b)) = Len(b)
      /\ Sizes(a \o b) \in Seq(Nat) /\ Len(Sizes(a \o b)) = Len(a \o b)
  BY <1>1, SizesAre
<1>3. ASSUME NEW i \in 1..(Len(a) + Len(b))
      PROVE  Sizes(a \o b)[i] = (Sizes(a) \o Sizes(b))[i]
  <2>1. Sizes(a \o b)[i] = Len(PropertyBytes((a \o b)[i]))  BY <1>1 DEF Sizes
  <2>2. CASE i <= Len(a)
    <3>1. (a \o b)[i] = a[i] /\ i \in DOMAIN a  BY <2>2
    <3>2. (Sizes(a) \o Sizes(b))[i] = Sizes(a)[i]  BY <1>2, <2>2
    <3> QED  BY <2>1, <3>1, <3>2 DEF Sizes
  <2>3. CASE i > Len(a)
    <3>1. (a \o b)[i] = b[i - Len(a)] /\ i - Len(a) \in DOMAIN b  BY <2>3
    <3>2. (Sizes(a) \o Sizes(b))[i] = Sizes(b)[i - Len(a)]  BY <1>2, <2>3
    <3> QED  BY <2>1, <3>1, <3>2 DEF Sizes
  <2>4. i \in Nat /\ Len(a) \in Nat  OBVIOUS
  <2>5. i <= Len(a) \/ i > Len(a)  BY <2>4
  <2> QED  BY <2>2, <2>3, <2>5
<1>4. PICK u, v, w : u = Sizes(a) /\ v = Sizes(b) /\ w = Sizes(a \o b)  OBVIOUS
<1>5. u \in Seq(Nat) /\ v \in Seq(Nat) /\ w \in Seq(Nat) /\ Len(w) = Len(u) + Len(v)
  BY <1>1, <1>2, <1>4
<1>6. \A i \in 1..Len(w) : w[i] = (u \o v)[i]  BY <1>1, <1>2, <1>3, <1>4
<1>7. u \o v \in Seq(Nat) /\ Len(u \o v) = Len(w)  BY <1>5, Joined
<1>8. w = u \o v  BY <1>5, <1>6, <1>7, SeqEqual
<1> QED  BY <1>4, <1>8

LEMMA BytesAre ==
  ASSUME NEW S, Byte \subseteq S, NEW ps, ps.list \in Seq(PropertyOf(S))
  PROVE  Bytes(ps) = Sum(Sizes(ps.list)) /\ Bytes(ps) \in Nat
<1>1. Bytes(ps) = Sum(Sizes(ps.list))  BY DEF Bytes, Sizes
<1>2. Sizes(ps.list) \in Seq(Nat)  BY SizesAre
<1> QED  BY <1>1, <1>2, SumIsNat

(* What mqtt_properties_add and mqtt_properties_remove count.              *)
LEMMA OneSize ==
  ASSUME NEW S, Byte \subseteq S, NEW p \in PropertyOf(S)
  PROVE  Sizes(<<p>>) = <<ValueLength(p) + 1>> /\ ValueLength(p) \in Nat
<1>1. <<p>> \in Seq(PropertyOf(S)) /\ Len(<<p>>) = 1 /\ <<p>>[1] = p  OBVIOUS
<1>2. PICK list : list = <<p>>  OBVIOUS
<1>3. list \in Seq(PropertyOf(S)) /\ Len(list) = 1 /\ list[1] = p /\ 1 \in 1..Len(list)
  BY <1>1, <1>2
<1>4. PICK l : l = Sizes(list)  OBVIOUS
<1>5. l \in Seq(Nat) /\ Len(l) = 1 /\ l[1] = ValueLength(p) + 1 /\ ValueLength(p) \in Nat
  BY <1>3, <1>4, SizesAre
<1>6. l = <<ValueLength(p) + 1>>  BY <1>5
<1> QED  BY <1>2, <1>4, <1>5, <1>6

LEMMA BytesOfAdd ==
  ASSUME NEW S, Byte \subseteq S, NEW ps \in PropertyList(S), NEW p \in PropertyOf(S)
  PROVE  /\ PropertiesAdd(ps, p) \in PropertyList(S)
         /\ Bytes(PropertiesAdd(ps, p)) = Bytes(ps) + (ValueLength(p) + 1)
         /\ PropertiesAdd(ps, p).length = ps.length + (ValueLength(p) + 1)
<1>1. ps.list \in Seq(PropertyOf(S)) /\ ps.length \in Nat  BY DEF PropertyList
<1>2. <<p>> \in Seq(PropertyOf(S))  OBVIOUS
<1>3. PICK l, new, q : l = <<p>> \o ps.list /\ new = PropertiesAdd(ps, p) /\ q = <<p>>  OBVIOUS
<1>4. new.list = l /\ new.length = ps.length + ValueLength(p) + 1 /\ new = [list |-> l, length |-> new.length]
  BY <1>3 DEF PropertiesAdd
<1>5. l \in Seq(PropertyOf(S))  BY <1>1, <1>2, <1>3, Joined
<1>6. Sizes(l) = Sizes(<<p>>) \o Sizes(ps.list)  BY <1>1, <1>2, <1>3, SizesOfConcat
<1>7. Sizes(<<p>>) = <<ValueLength(p) + 1>> /\ ValueLength(p) \in Nat  BY OneSize
<1>8. Sizes(ps.list) \in Seq(Int)
  <2>1. Sizes(ps.list) \in Seq(Nat)  BY <1>1, SizesAre
  <2> QED  BY <2>1
<1>9. PICK x \in Int : x = ValueLength(p) + 1  BY <1>7
<1>10. <<x>> \in Seq(Int)  OBVIOUS
<1>11. Sum(Sizes(l)) = Sum(<<x>>) + Sum(Sizes(ps.list))  BY <1>6, <1>7, <1>8, <1>9, <1>10, SumOfConcat
<1>12. Sum(<<x>>) = x  BY SumOfOne
<1>13. Bytes(new) = Sum(Sizes(l)) /\ Bytes(ps) = Sum(Sizes(ps.list)) /\ Bytes(ps) \in Nat
  BY <1>1, <1>4, <1>5, BytesAre
<1>14. Bytes(new) = x + Bytes(ps)  BY <1>11, <1>12, <1>13, Zenon
<1>15. new.length \in Nat /\ new.length = ps.length + (ValueLength(p) + 1)  BY <1>1, <1>4, <1>7
<1>16. new \in PropertyList(S)  BY <1>4, <1>5, <1>15 DEF PropertyList
<1>17. x + Bytes(ps) = Bytes(ps) + x  BY <1>13
<1> QED  BY <1>3, <1>9, <1>14, <1>15, <1>16, <1>17, Zenon

LEMMA Found ==
  ASSUME NEW S, NEW ps \in PropertyList(S), NEW code
  PROVE  PropertiesFind(ps, code) \in 0..Len(ps.list)
<1> DEFINE at == {i \in DOMAIN ps.list : ps.list[i].code = code}
<1>1. ps.list \in Seq(PropertyOf(S))  BY DEF PropertyList
<1>2. at \subseteq Nat /\ at \subseteq 1..Len(ps.list) /\ Len(ps.list) \in Nat  BY <1>1
<1>3. CASE at = {}
  <2>1. PropertiesFind(ps, code) = 0  BY <1>3 DEF PropertiesFind
  <2> QED  BY <1>2, <2>1
<1>4. CASE at # {}
  <2>1. PropertiesFind(ps, code) = Min(at)  BY <1>4 DEF PropertiesFind
  <2>2. \E x \in at : \A y \in at : x <= y  BY <1>2, <1>4, Least
  <2> HIDE DEF at
  <2>3. Min(at) \in at  BY <2>2 DEF Min
  <2>4. PICK i : i = Min(at)  OBVIOUS
  <2>5. i \in 1..Len(ps.list)  BY <1>2, <2>3, <2>4
  <2>6. i \in 0..Len(ps.list)  BY <1>2, <2>5
  <2> QED  BY <2>1, <2>4, <2>6
<1> QED  BY <1>3, <1>4

LEMMA Parted ==
  ASSUME NEW S, NEW s \in Seq(S), NEW i \in 1..Len(s)
  PROVE  /\ SubSeq(s, 1, i - 1) \in Seq(S) /\ SubSeq(s, i + 1, Len(s)) \in Seq(S) /\ s[i] \in S
         /\ s = SubSeq(s, 1, i - 1) \o (<<s[i]>> \o SubSeq(s, i + 1, Len(s)))
<1>1. PICK a, b : a = SubSeq(s, 1, i - 1) /\ b = SubSeq(s, i + 1, Len(s))  OBVIOUS
<1>2. a \in Seq(S) /\ Len(a) = i - 1 /\ \A j \in 1..(i - 1) : a[j] = s[j]  BY <1>1
<1>3. b \in Seq(S) /\ Len(b) = Len(s) - i /\ \A j \in 1..(Len(s) - i) : b[j] = s[i + j]
  <2>1. i + 1 \in 1..(Len(s) + 1) /\ Len(s) \in Nat  OBVIOUS
  <2> QED  BY <1>1, <2>1
<1>4. s[i] \in S  OBVIOUS
<1>5. PICK c : c = <<s[i]>> \o b  OBVIOUS
<1>6. c \in Seq(S) /\ Len(c) = (Len(s) - i) + 1 /\ c[1] = s[i]
      /\ \A j \in 1..(Len(s) - i) : c[j + 1] = b[j]
  <2>1. PICK x \in S : x = s[i]  BY <1>4
  <2>2. c = <<x>> \o b  BY <1>5, <2>1
  <2>3. c \in Seq(S) /\ Len(c) = Len(b) + 1 /\ c[1] = x
        /\ \A j \in 1..Len(b) : c[j + 1] = b[j]
    <3>1. b \in Seq(S)  BY <1>3
    <3>2. /\ <<x>> \o b \in Seq(S) /\ Len(<<x>> \o b) = Len(b) + 1 /\ (<<x>> \o b)[1] = x
          /\ \A j \in 1..Len(b) : (<<x>> \o b)[j + 1] = b[j]
      BY <2>1, <3>1, Headed
    <3> QED  BY <2>2, <3>2, Zenon
  <2> QED  BY <1>3, <2>1, <2>3
<1>7. a \o c \in Seq(S) /\ Len(a \o c) = Len(s)  BY <1>2, <1>6
<1>8. ASSUME NEW j \in 1..Len(s) PROVE s[j] = (a \o c)[j]
  <2>1. CASE j <= i - 1
    <3>1. (a \o c)[j] = a[j]  BY <1>2, <1>6, <2>1
    <3> QED  BY <1>2, <2>1, <3>1
  <2>2. CASE j = i
    <3>1. (a \o c)[j] = c[1]  BY <1>2, <1>6, <2>2
    <3> QED  BY <1>6, <2>2, <3>1
  <2>3. CASE j > i
    <3>1. PICK k : k = j - i  OBVIOUS
    <3>2. k \in 1..(Len(s) - i) /\ i + k = j /\ j - (i - 1) = k + 1  BY <2>3, <3>1
    <3>3. (a \o c)[j] = c[k + 1]  BY <1>2, <1>6, <2>3, <3>2
    <3>4. c[k + 1] = b[k] /\ b[k] = s[i + k]  BY <1>3, <1>6, <3>2
    <3> QED  BY <3>2, <3>3, <3>4
  <2>4. j <= i - 1 \/ j = i \/ j > i  OBVIOUS
  <2> QED  BY <2>1, <2>2, <2>3, <2>4
<1>9. s = a \o c  BY <1>7, <1>8, SeqEqual
<1> QED  BY <1>1, <1>2, <1>3, <1>4, <1>5, <1>9

LEMMA BytesOfRemove ==
  ASSUME NEW S, Byte \subseteq S, NEW ps \in PropertyList(S), NEW code,
         ps.length = Bytes(ps)
  PROVE  /\ PropertiesRemove(ps, code) \in PropertyList(S)
         /\ PropertiesRemove(ps, code).length = Bytes(PropertiesRemove(ps, code))
<1>1. PICK i : i = PropertiesFind(ps, code)  OBVIOUS
<1>2. i \in 0..Len(ps.list)  BY <1>1, Found
<1>3. CASE i = 0
  <2>1. PropertiesRemove(ps, code) = ps  BY <1>1, <1>3 DEF PropertiesRemove
  <2> QED  BY <2>1
<1>4. CASE i # 0
  <2>1. ps.list \in Seq(PropertyOf(S)) /\ ps.length \in Nat  BY DEF PropertyList
  <2>2. i \in 1..Len(ps.list)  BY <1>2, <1>4
  <2>3. PICK a, b, p, new : /\ a = SubSeq(ps.list, 1, i - 1) /\ b = SubSeq(ps.list, i + 1, Len(ps.list))
                            /\ p = ps.list[i] /\ new = PropertiesRemove(ps, code)
    OBVIOUS
  <2>4. a \in Seq(PropertyOf(S)) /\ b \in Seq(PropertyOf(S)) /\ p \in PropertyOf(S)
        /\ ps.list = a \o (<<p>> \o b)
    <3>1. PICK T, l : T = PropertyOf(S) /\ l = ps.list  OBVIOUS
    <3>2. l \in Seq(T) /\ i \in 1..Len(l)  BY <2>1, <2>2, <3>1
    <3>4. /\ SubSeq(l, 1, i - 1) \in Seq(T) /\ SubSeq(l, i + 1, Len(l)) \in Seq(T) /\ l[i] \in T
          /\ l = SubSeq(l, 1, i - 1) \o (<<l[i]>> \o SubSeq(l, i + 1, Len(l)))
      BY <3>2, Parted
    <3>3. a \in Seq(T) /\ b \in Seq(T) /\ p \in T /\ l = a \o (<<p>> \o b)
      BY <2>3, <3>1, <3>4, Zenon
    <3> QED  BY <3>1, <3>3
  <2>5. new = [list |-> a \o b, length |-> ps.length - (ValueLength(p) + 1)]
    BY <1>1, <1>4, <2>3 DEF PropertiesRemove, RemoveAt
  <2>6. <<p>> \in Seq(PropertyOf(S))  BY <2>4
  <2>7. <<p>> \o b \in Seq(PropertyOf(S)) /\ a \o b \in Seq(PropertyOf(S))  BY <2>4, <2>6, Joined
  <2>8. Sizes(ps.list) = Sizes(a) \o (<<ValueLength(p) + 1>> \o Sizes(b))
    <3>1. Sizes(a \o (<<p>> \o b)) = Sizes(a) \o Sizes(<<p>> \o b)
      BY <2>4, <2>7, SizesOfConcat, Zenon
    <3>2. Sizes(<<p>> \o b) = Sizes(<<p>>) \o Sizes(b)  BY <2>4, <2>6, SizesOfConcat, Zenon
    <3>3. Sizes(<<p>>) = <<ValueLength(p) + 1>>  BY <2>4, OneSize, Zenon
    <3> QED  BY <2>4, <3>1, <3>2, <3>3, Zenon
  <2>9. Sizes(a \o b) = Sizes(a) \o Sizes(b)  BY <2>4, SizesOfConcat
  <2>10. Sizes(a) \in Seq(Int) /\ Sizes(b) \in Seq(Int)
    <3>1. Sizes(a) \in Seq(Nat) /\ Sizes(b) \in Seq(Nat)  BY <2>4, SizesAre
    <3> QED  BY <3>1
  <2>11. PICK x \in Int : x = ValueLength(p) + 1  BY <2>4, OneSize
  <2>12. <<x>> \in Seq(Int) /\ <<x>> \o Sizes(b) \in Seq(Int)  BY <2>10
  <2>13. Sum(Sizes(ps.list)) = Sum(Sizes(a)) + (x + Sum(Sizes(b)))
    <3>1. Sum(Sizes(a) \o (<<x>> \o Sizes(b))) = Sum(Sizes(a)) + Sum(<<x>> \o Sizes(b))
      BY <2>10, <2>12, SumOfConcat, Zenon
    <3>2. Sum(<<x>> \o Sizes(b)) = Sum(<<x>>) + Sum(Sizes(b))  BY <2>10, <2>12, SumOfConcat, Zenon
    <3>3. Sum(<<x>>) = x  BY SumOfOne, Zenon
    <3> QED  BY <2>8, <2>11, <3>1, <3>2, <3>3, Zenon
  <2>14. Sum(Sizes(a \o b)) = Sum(Sizes(a)) + Sum(Sizes(b))  BY <2>9, <2>10, SumOfConcat
  <2>15. PICK y, z : y = Sum(Sizes(a)) /\ z = Sum(Sizes(b))  OBVIOUS
  <2>16. y \in Nat /\ z \in Nat  BY <2>4, <2>15, SizesAre, SumIsNat
  <2>17. new.list = a \o b /\ new.length = ps.length - x  BY <2>5, <2>11
  <2>18. Bytes(new) = y + z  BY <2>7, <2>14, <2>15, <2>17, BytesAre
  <2>19. ps.length = y + (x + z)  BY <2>1, <2>13, <2>15, BytesAre
  <2>20. new.length = y + z  BY <2>16, <2>17, <2>19
  <2>21. new \in PropertyList(S)
    <3>1. y + z \in Nat  BY <2>16
    <3>2. new = [list |-> a \o b, length |-> y + z]  BY <2>5, <2>20
    <3> QED  BY <2>7, <3>1, <3>2 DEF PropertyList
  <2> QED  BY <2>3, <2>18, <2>20, <2>21
<1> QED  BY <1>3, <1>4

LEMMA NoPropertiesAre ==
  ASSUME NEW S
  PROVE  NoProperties \in PropertyList(S) /\ NoProperties.length = 0 /\ Bytes(NoProperties) = 0
<1>1. <<>> \in Seq(PropertyOf(S))  BY EmptySeq
<1>2. NoProperties.list = <<>> /\ NoProperties.length = 0 /\ NoProperties \in PropertyList(S)
  BY <1>1 DEF NoProperties, PropertyList
<1>3. Bytes(NoProperties) = Sum(<<>>)
  <2>1. [i \in DOMAIN NoProperties.list |-> Len(PropertyBytes(NoProperties.list[i]))] = <<>>
    BY <1>2
  <2> QED  BY <2>1 DEF Bytes
<1> QED  BY <1>2, <1>3, SumOfNone

(* What __properties_len says of a list and what is written of it.         *)
LEMMA PropertiesBytesAre ==
  ASSUME NEW S, Byte \subseteq S, NEW ps \in PropertyList(S)
  PROVE  /\ PropertiesBytes(ps) \in Seq(S)
         /\ ps.length = Bytes(ps) /\ ps.length < VbiLimit =>
              Len(PropertiesBytes(ps)) = PropertiesLen(ps)
         /\ PropertiesLen(ps) \in Nat /\ PropertiesLen(ps) >= ps.length
<1>1. ps.list \in Seq(PropertyOf(S)) /\ ps.length \in Nat  BY DEF PropertyList
<1>2. PICK ss : ss = [i \in DOMAIN ps.list |-> PropertyBytes(ps.list[i])]  OBVIOUS
<1>3. ss \in Seq(Seq(S)) /\ Lengths(ss) = Sizes(ps.list)
  <2>1. \A i \in 1..Len(ps.list) : ps.list[i] \in PropertyOf(S)  BY <1>1
  <2>2. \A i \in 1..Len(ps.list) : PropertyBytes(ps.list[i]) \in Seq(S)
    BY <2>1, PropertyBytesAre
  <2>3. DOMAIN ps.list = 1..Len(ps.list) /\ Len(ps.list) \in Nat  BY <1>1
  <2>4. ss = [i \in 1..Len(ps.list) |-> PropertyBytes(ps.list[i])]  BY <1>2, <2>3
  <2>5. ss \in [1..Len(ps.list) -> Seq(S)] BY <2>2, <2>4
  <2>6. ss \in Seq(Seq(S))  BY <2>3, <2>5
  <2>7. DOMAIN ss = DOMAIN ps.list  BY <1>2
  <2>8. Lengths(ss) = Sizes(ps.list)  BY <1>2, <2>7 DEF Lengths, Sizes
  <2> QED  BY <2>6, <2>8
<1>4. FlattenSeq(ss) \in Seq(S) /\ Len(FlattenSeq(ss)) = Bytes(ps)
  BY <1>1, <1>3, Flatten, BytesAre
<1>5. Vbi(ps.length) \in Seq(S)  BY <1>1, VbiIsBytes, Pieces
<1>6. PropertiesBytes(ps) = Vbi(ps.length) \o FlattenSeq(ss)  BY <1>2 DEF PropertiesBytes
<1>7. PropertiesBytes(ps) \in Seq(S)
      /\ Len(PropertiesBytes(ps)) = Len(Vbi(ps.length)) + Len(FlattenSeq(ss))
  BY <1>4, <1>5, <1>6, Joined
<1>8. VbiLength(ps.length) \in 1..4  BY <1>1, VbiLengthIs
<1>9. PropertiesLen(ps) = ps.length + VbiLength(ps.length)
  <2>1. VbiLength(0) = 1  BY VbiLengthIs
  <2> QED  BY <1>1, <1>8, <2>1 DEF PropertiesLen
<1>10. PropertiesLen(ps) \in Nat /\ PropertiesLen(ps) >= ps.length  BY <1>1, <1>8, <1>9
<1>11. ASSUME ps.length = Bytes(ps), ps.length < VbiLimit
       PROVE  Len(PropertiesBytes(ps)) = PropertiesLen(ps)
  <2>1. Len(Vbi(ps.length)) = VbiLength(ps.length)  BY <1>1, <1>11, VbiFits
  <2> QED  BY <1>1, <1>4, <1>7, <1>8, <1>9, <1>11, <2>1
<1> QED  BY <1>7, <1>10, <1>11
-----------------------------------------------------------------------------
(* The packets that are sent: what the fields of each type hold.           *)
TrueLists == {ps \in PropertyList(Byte) : ps.length = Bytes(ps)}

Texts == Seq(Byte)

ConnectFields ==
  [protocol_name : Texts, protocol_version : Byte, flags : Byte, keep_alive : Nat,
   properties : TrueLists, client_id : Texts, will_properties : TrueLists,
   will_topic : Texts, will_message : Texts, username : Texts, password : Texts]

ConnackFields == [flags : Byte, code : Byte, properties : TrueLists]

PublishFields ==
  [packet_id : Nat, properties : TrueLists, topic_name : Texts, message : Texts]

AckFields == [packet_id : Nat, properties : TrueLists, code : Byte]

SubscribeFields ==
  [packet_id : Nat, properties : TrueLists, filters : Seq([topic : Texts, options : Byte])]

UnsubscribeFields == [packet_id : Nat, properties : TrueLists, topics : Seq(Texts)]

CodesFields == [packet_id : Nat, properties : TrueLists, codes : Texts]

CloseFields == [code : Byte, properties : TrueLists]

Acks == {PUBACK, PUBREC, PUBREL, PUBCOMP}

FieldsFit(type, f) ==
  /\ type = CONNECT => f \in ConnectFields
  /\ type = CONNACK => f \in ConnackFields
  /\ type = PUBLISH => f \in PublishFields
  /\ type \in Acks => f \in AckFields
  /\ type = SUBSCRIBE => f \in SubscribeFields
  /\ type = UNSUBSCRIBE => f \in UnsubscribeFields
  /\ type \in {SUBACK, UNSUBACK} => f \in CodesFields
  /\ type \in {DISCONNECT, AUTH} => f \in CloseFields
  /\ type \in {PINGREQ, PINGRESP} => f = [nothing |-> 0]

Header(p) ==
  /\ p = [ver |-> p.ver, type |-> p.type, dup |-> p.dup, qos |-> p.qos, retain |-> p.retain,
          f |-> p.f]
  /\ p.ver \in Versions /\ p.type \in PacketTypes
  /\ p.dup \in 0..1 /\ p.qos \in 0..3 /\ p.retain \in 0..1

Composed(p) == Header(p) /\ FieldsFit(p.type, p.f)

LEMMA Types ==
  ASSUME NEW type
  PROVE  type \in PacketTypes <=>
           type \in {CONNECT, CONNACK, PUBLISH, SUBSCRIBE, UNSUBSCRIBE, SUBACK, UNSUBACK,
                     DISCONNECT, AUTH, PINGREQ, PINGRESP} \union Acks
BY DEF PacketTypes, CONNECT, CONNACK, PUBLISH, PUBACK, PUBREC, PUBREL, PUBCOMP, SUBSCRIBE, SUBACK,
       UNSUBSCRIBE, UNSUBACK, PINGREQ, PINGRESP, DISCONNECT, AUTH, Acks

TypeCodes ==
  /\ CONNECT = 1 /\ CONNACK = 2 /\ PUBLISH = 3 /\ PUBACK = 4 /\ PUBREC = 5 /\ PUBREL = 6
  /\ PUBCOMP = 7 /\ SUBSCRIBE = 8 /\ SUBACK = 9 /\ UNSUBSCRIBE = 10 /\ UNSUBACK = 11
  /\ PINGREQ = 12 /\ PINGRESP = 13 /\ DISCONNECT = 14 /\ AUTH = 15
  /\ Acks = {PUBACK, PUBREC, PUBREL, PUBCOMP} /\ PacketTypes = 1..15

LEMMA TheTypes == TypeCodes
BY DEF TypeCodes, PacketTypes, CONNECT, CONNACK, PUBLISH, PUBACK, PUBREC, PUBREL, PUBCOMP, SUBSCRIBE,
       SUBACK, UNSUBSCRIBE, UNSUBACK, PINGREQ, PINGRESP, DISCONNECT, AUTH, Acks

(* mqtt_packet_init.                                                       *)
LEMMA Nothing ==
  /\ NoProperties \in TrueLists /\ <<>> \in Texts /\ 0 \in Byte /\ 0 \in Nat
  /\ <<>> \in Seq([topic : Texts, options : Byte]) /\ <<>> \in Seq(Texts)
<1>1. NoProperties \in TrueLists  BY NoPropertiesAre DEF TrueLists
<1>2. <<>> \in Texts /\ <<>> \in Seq([topic : Texts, options : Byte]) /\ <<>> \in Seq(Texts)
  BY EmptySeq DEF Texts
<1> QED  BY <1>1, <1>2 DEF Byte

LEMMA ZeroFits ==
  ASSUME NEW type \in PacketTypes
  PROVE  FieldsFit(type, Zero(type))
<1> USE TheTypes DEF TypeCodes
<1>1. CASE type = CONNECT
  <2>1. Zero(type) = ConnectZero  BY <1>1 DEF Zero
  <2>2. ConnectZero \in ConnectFields  BY Nothing DEF ConnectZero, ConnectFields
  <2> QED  BY <1>1, <2>1, <2>2 DEF FieldsFit
<1>2. CASE type = CONNACK
  <2>1. Zero(type) = ConnackZero  BY <1>2 DEF Zero
  <2>2. ConnackZero \in ConnackFields  BY Nothing DEF ConnackZero, ConnackFields
  <2> QED  BY <1>2, <2>1, <2>2 DEF FieldsFit
<1>3. CASE type = PUBLISH
  <2>1. Zero(type) = PublishZero  BY <1>3 DEF Zero
  <2>2. PublishZero \in PublishFields  BY Nothing DEF PublishZero, PublishFields
  <2> QED  BY <1>3, <2>1, <2>2 DEF FieldsFit
<1>4. CASE type \in Acks
  <2>1. Zero(type) = AckZero  BY <1>4 DEF Zero
  <2>2. AckZero \in AckFields  BY Nothing DEF AckZero, AckFields
  <2> QED  BY <1>4, <2>1, <2>2 DEF FieldsFit
<1>5. CASE type \in {SUBSCRIBE, UNSUBSCRIBE, SUBACK, UNSUBACK}
  <2>1. Zero(type) = ListZero(type)  BY <1>5 DEF Zero
  <2>2. CASE type = SUBSCRIBE
    <3>1. ListZero(type) \in SubscribeFields  BY <2>2, Nothing DEF ListZero, SubscribeFields
    <3> QED  BY <2>1, <2>2, <3>1 DEF FieldsFit
  <2>3. CASE type = UNSUBSCRIBE
    <3>1. ListZero(type) \in UnsubscribeFields  BY <2>3, Nothing DEF ListZero, UnsubscribeFields
    <3> QED  BY <2>1, <2>3, <3>1 DEF FieldsFit
  <2>4. CASE type \in {SUBACK, UNSUBACK}
    <3>1. ListZero(type) \in CodesFields  BY <2>4, Nothing DEF ListZero, CodesFields
    <3> QED  BY <2>1, <2>4, <3>1 DEF FieldsFit
  <2> QED  BY <1>5, <2>2, <2>3, <2>4
<1>6. CASE type \in {DISCONNECT, AUTH}
  <2>1. Zero(type) = CloseZero  BY <1>6 DEF Zero
  <2>2. CloseZero \in CloseFields  BY Nothing DEF CloseZero, CloseFields
  <2> QED  BY <1>6, <2>1, <2>2 DEF FieldsFit
<1>7. CASE type \in {PINGREQ, PINGRESP}
  <2>1. Zero(type) = [nothing |-> 0]  BY <1>7 DEF Zero
  <2> QED  BY <1>7, <2>1 DEF FieldsFit
<1> QED  BY <1>1, <1>2, <1>3, <1>4, <1>5, <1>6, <1>7

LEMMA InitFits ==
  ASSUME NEW v \in Versions, NEW type \in PacketTypes
  PROVE  Composed(PacketInit(v, type)) /\ PacketInit(v, type).ver = v
         /\ PacketInit(v, type).type = type
<1>1. PICK p : p = PacketInit(v, type)  OBVIOUS
<1>2. p = [ver |-> v, type |-> type, dup |-> 0, qos |-> 0, retain |-> 0, f |-> p.f]
      /\ p.f = IF type = CONNECT
               THEN [Zero(type) EXCEPT !.protocol_name = ProtocolName(v), !.protocol_version = v]
               ELSE Zero(type)
  BY <1>1 DEF PacketInit
<1>3. Header(p)  BY <1>2 DEF Header
<1>4. FieldsFit(type, p.f)
  <2>1. CASE type # CONNECT  BY <1>2, <2>1, ZeroFits
  <2>2. CASE type = CONNECT
    <3>1. Zero(type) \in ConnectFields  BY <2>2, ZeroFits DEF FieldsFit
    <3>2. ProtocolName(v) \in Texts /\ v \in Byte
      <4>1. v \in Byte  BY DEF Versions, Byte
      <4>2. <<77, 81, 73, 115, 100, 112>> \in Texts /\ <<77, 81, 84, 84>> \in Texts
        BY DEF Texts, Byte
      <4> QED  BY <4>1, <4>2 DEF ProtocolName
    <3>3. p.f = [Zero(type) EXCEPT !.protocol_name = ProtocolName(v), !.protocol_version = v]
      BY <1>2, <2>2
    <3>4. p.f \in ConnectFields  BY <3>1, <3>2, <3>3 DEF ConnectFields
    <3> QED  BY <2>2, <3>4, TheTypes DEF FieldsFit, TypeCodes
  <2> QED  BY <2>1, <2>2
<1> QED  BY <1>1, <1>2, <1>3, <1>4 DEF Composed

(* What an application writes.                                             *)
LEMMA App ==
  ASSUME use \in DOMAIN Uses
  PROVE  /\ U.types \subseteq PacketTypes /\ U.flags \subseteq Byte
         /\ U.given \subseteq 0..MaxReason /\ U.codes \subseteq 1..LastProperty
         /\ U.strings \subseteq Texts /\ U.texts \subseteq Texts
         /\ U.words \subseteq Nat /\ U.longs \subseteq Nat \X Nat
         /\ U.vbis \subseteq 0..(VbiLimit - 1)
         /\ U.lists \in Nat
         /\ Damage \subseteq Byte
<1>1. PICK app : app = U  OBVIOUS
<1>2. /\ app.types \subseteq PacketTypes /\ app.flags \subseteq 0..255
      /\ app.given \subseteq 0..MaxReason /\ app.codes \subseteq 1..LastProperty
      /\ (app.strings \union app.texts) \subseteq Seq(0..255)
      /\ app.words \subseteq Words /\ app.longs \subseteq Words \X Words
      /\ app.vbis \subseteq 0..(VbiLimit - 1) /\ app.lists \in Nat
  BY <1>1, ExchangeAssumption DEF U
<1>3. app.strings \subseteq Texts /\ app.texts \subseteq Texts  BY <1>2 DEF Texts, Byte
<1>4. app.words \subseteq Nat
  <2>1. Words \subseteq Nat  BY DEF Words
  <2> QED  BY <1>2, <2>1
<1>5. app.longs \subseteq Nat \X Nat
  <2>1. Words \subseteq Nat  BY DEF Words
  <2>2. \A l \in Words \X Words : l \in Nat \X Nat  BY <2>1
  <2> QED  BY <1>2, <2>2
<1>6. app.flags \subseteq Byte  BY <1>2 DEF Byte
<1>7. Damage \subseteq Byte  BY ExchangeAssumption DEF Byte
<1> QED  BY <1>1, <1>2, <1>3, <1>4, <1>5, <1>6, <1>7, Zenon

LEMMA Reasoned ==
  ASSUME use \in DOMAIN Uses, NEW type, NEW c \in ReasonsGiven(type)
  PROVE  c \in Byte
<1>1. c \in U.given  BY DEF ReasonsGiven
<1>2. U.given \subseteq 0..MaxReason  BY App, Zenon
<1> QED  BY <1>1, <1>2 DEF Byte, MaxReason

LEMMA OldCodes ==
  ConnectCodes \subseteq Byte /\ SubackCodes \subseteq Byte
BY DEF ConnectCodes, SubackCodes, Byte

LEMMA Listed ==
  ASSUME use \in DOMAIN Uses, NEW S, NEW T, S \subseteq T, NEW s \in Lists(S)
  PROVE  s \in Seq(T)
<1>1. U.lists \in Nat  BY App, Zenon
<1>2. PICK n \in 0..U.lists : s \in [1..n -> S]  BY Zenon DEF Lists
<1>3. n \in Nat /\ s \in [1..n -> T]  BY <1>1, <1>2
<1> QED  BY <1>3

LEMMA WithFields ==
  ASSUME NEW p, Header(p), NEW f, NEW q, q = [p EXCEPT !.f = f]
  PROVE  Header(q) /\ q.f = f /\ q.type = p.type /\ q.ver = p.ver
BY DEF Header

LEMMA FillFits ==
  ASSUME use \in DOMAIN Uses, NEW p, Composed(p), Fill(p)
  PROVE  Composed(pkt') /\ pkt'.type = p.type /\ pkt'.ver = p.ver
<1> USE TheTypes DEF TypeCodes
<1>1. Header(p) /\ FieldsFit(p.type, p.f)  BY DEF Composed
<1>2. p.type \in PacketTypes  BY <1>1 DEF Header
<1>3. PICK f, q : f = p.f /\ q = pkt'  OBVIOUS
<1> DEFINE Good(g) == q = [p EXCEPT !.f = g] /\ FieldsFit(p.type, g)
<1>4. ASSUME NEW g, Good(g) PROVE Composed(pkt') /\ pkt'.type = p.type /\ pkt'.ver = p.ver
  <2>1. Header(q) /\ q.f = g /\ q.type = p.type /\ q.ver = p.ver  BY <1>1, <1>4, WithFields
  <2> QED  BY <1>3, <1>4, <2>1 DEF Composed
<1>5. CASE p.type = CONNECT
  <2>0. FillConnect(p)  BY <1>5 DEF Fill
  <2>1. PICK flags \in U.flags, w \in U.words, c \in U.strings, t \in U.strings,
             m \in U.strings, u \in U.strings, s \in U.strings :
          pkt' = [p EXCEPT !.f = [@ EXCEPT !.flags = flags, !.keep_alive = w, !.client_id = c,
                                           !.will_topic = t, !.will_message = m,
                                           !.username = u, !.password = s]]
    BY <2>0, Zenon DEF FillConnect
  <2>2. PICK g : g = [f EXCEPT !.flags = flags, !.keep_alive = w, !.client_id = c,
                           !.will_topic = t, !.will_message = m,
                           !.username = u, !.password = s]
    OBVIOUS
  <2>3. /\ flags \in Byte /\ w \in Nat /\ c \in Texts /\ t \in Texts /\ m \in Texts
        /\ u \in Texts /\ s \in Texts
    BY App, Zenon
  <2>4. f \in ConnectFields  BY <1>1, <1>3, <1>5 DEF FieldsFit
  <2>5. g \in ConnectFields  BY <2>2, <2>3, <2>4 DEF ConnectFields
  <2>6. FieldsFit(p.type, g)  BY <1>5, <2>5 DEF FieldsFit
  <2>7. q = [p EXCEPT !.f = g]  BY <1>1, <1>3, <2>1, <2>2 DEF Header
  <2> QED  BY <1>4, <2>6, <2>7
<1>6. CASE p.type = CONNACK
  <2>0. FillConnack(p)  BY <1>6 DEF Fill
  <2>1. PICK b \in IF p.ver = 3 THEN {0} ELSE 0..1,
             c \in IF p.ver = 5 THEN ReasonsGiven(CONNACK) ELSE ConnectCodes :
          q = [p EXCEPT !.f = [@ EXCEPT !.flags = b, !.code = c]]
    BY <1>3, <2>0, Zenon DEF FillConnack
  <2>2. PICK g : g = [f EXCEPT !.flags = b, !.code = c]  OBVIOUS
  <2>3. c \in Byte /\ b \in Byte
    <3>1. c \in Byte  BY Reasoned, OldCodes
    <3> QED  BY <3>1 DEF Byte
  <2>4. f \in ConnackFields  BY <1>1, <1>3, <1>6 DEF FieldsFit
  <2>5. g \in ConnackFields  BY <2>2, <2>3, <2>4 DEF ConnackFields
  <2>6. FieldsFit(p.type, g)  BY <1>6, <2>5 DEF FieldsFit
  <2>7. q = [p EXCEPT !.f = g]  BY <1>1, <1>3, <2>1, <2>2 DEF Header
  <2> QED  BY <1>4, <2>6, <2>7
<1>7. CASE p.type = PUBLISH
  <2>0. FillPublish(p)  BY <1>7 DEF Fill
  <2>1. PICK d \in 0..1, k \in 0..3, r \in 0..1, t \in U.strings, m \in U.strings, w \in U.words :
          pkt' = [p EXCEPT !.dup = d, !.qos = k, !.retain = r,
                           !.f = [@ EXCEPT !.topic_name = t, !.message = m, !.packet_id = w]]
    BY <2>0, Zenon DEF FillPublish
  <2>2. PICK g : g = [f EXCEPT !.topic_name = t, !.message = m, !.packet_id = w]  OBVIOUS
  <2>3. t \in Texts /\ m \in Texts /\ w \in Nat  BY App, Zenon
  <2>4. f \in PublishFields  BY <1>1, <1>3, <1>7 DEF FieldsFit
  <2>5. g \in PublishFields  BY <2>2, <2>3, <2>4 DEF PublishFields
  <2>6. FieldsFit(p.type, g)  BY <1>7, <2>5 DEF FieldsFit
  <2>7. Header(q) /\ q.f = g /\ q.type = p.type /\ q.ver = p.ver  BY <1>1, <1>3, <2>1, <2>2 DEF Header
  <2> QED  BY <1>3, <2>6, <2>7 DEF Composed
<1>8. CASE p.type \in Acks
  <2>0. FillAck(p)  BY <1>8 DEF Fill
  <2>1. PICK w \in U.words, c \in IF p.ver = 5 THEN ReasonsGiven(p.type) ELSE {0} :
          q = [p EXCEPT !.f = [@ EXCEPT !.packet_id = w, !.code = c]]
    BY <1>3, <2>0, Zenon DEF FillAck
  <2>2. PICK g : g = [f EXCEPT !.packet_id = w, !.code = c]  OBVIOUS
  <2>3. w \in Nat /\ c \in Byte
    <3>1. 0 \in Byte  BY DEF Byte
    <3>2. c \in Byte  BY <3>1, Reasoned
    <3> QED  BY <3>2, App, Zenon
  <2>4. f \in AckFields  BY <1>1, <1>3, <1>8 DEF FieldsFit
  <2>5. g \in AckFields  BY <2>2, <2>3, <2>4 DEF AckFields
  <2>6. FieldsFit(p.type, g)  BY <1>8, <2>5 DEF FieldsFit
  <2>7. q = [p EXCEPT !.f = g]  BY <1>1, <1>3, <2>1, <2>2 DEF Header
  <2> QED  BY <1>4, <2>6, <2>7
<1>9. CASE p.type = SUBSCRIBE
  <2>0. FillSubscribe(p)  BY <1>9 DEF Fill
  <2>1. PICK w \in U.words, s \in Lists([topic : U.strings, options : 0..3]) :
          q = [p EXCEPT !.f = [@ EXCEPT !.packet_id = w, !.filters = s]]
    BY <1>3, <2>0, Zenon DEF FillSubscribe
  <2>2. PICK g : g = [f EXCEPT !.packet_id = w, !.filters = s]  OBVIOUS
  <2>3. w \in Nat /\ s \in Seq([topic : Texts, options : Byte])
    <3>1. w \in Nat /\ U.strings \subseteq Texts  BY App, Zenon
    <3>2. 0..3 \subseteq Byte  BY DEF Byte
    <3>3. [topic : U.strings, options : 0..3] \subseteq [topic : Texts, options : Byte]
      BY <3>1, <3>2
    <3> QED  BY <3>1, <3>3, Listed
  <2>4. f \in SubscribeFields  BY <1>1, <1>3, <1>9 DEF FieldsFit
  <2>5. g \in SubscribeFields  BY <2>2, <2>3, <2>4 DEF SubscribeFields
  <2>6. FieldsFit(p.type, g)  BY <1>9, <2>5 DEF FieldsFit
  <2>7. q = [p EXCEPT !.f = g]  BY <1>1, <1>3, <2>1, <2>2 DEF Header
  <2> QED  BY <1>4, <2>6, <2>7
<1>10. CASE p.type = UNSUBSCRIBE
  <2>0. FillUnsubscribe(p)  BY <1>10 DEF Fill
  <2>1. PICK w \in U.words, s \in Lists(U.strings) :
          q = [p EXCEPT !.f = [@ EXCEPT !.packet_id = w, !.topics = s]]
    BY <1>3, <2>0, Zenon DEF FillUnsubscribe
  <2>2. PICK g : g = [f EXCEPT !.packet_id = w, !.topics = s]  OBVIOUS
  <2>3. w \in Nat /\ s \in Seq(Texts)
    <3>1. w \in Nat /\ U.strings \subseteq Texts  BY App, Zenon
    <3> QED  BY <3>1, Listed
  <2>4. f \in UnsubscribeFields  BY <1>1, <1>3, <1>10 DEF FieldsFit
  <2>5. g \in UnsubscribeFields  BY <2>2, <2>3, <2>4 DEF UnsubscribeFields
  <2>6. FieldsFit(p.type, g)  BY <1>10, <2>5 DEF FieldsFit
  <2>7. q = [p EXCEPT !.f = g]  BY <1>1, <1>3, <2>1, <2>2 DEF Header
  <2> QED  BY <1>4, <2>6, <2>7
<1>11. CASE p.type \in {SUBACK, UNSUBACK}
  <2>1. PICK w \in U.words,
             s \in Lists(ReasonsGiven(p.type)) \union Lists(SubackCodes) \union {<<>>} :
          q = [p EXCEPT !.f = [@ EXCEPT !.packet_id = w, !.codes = s]]
    <3>1. CASE p.type = SUBACK
      <4>1. FillSuback(p)  BY <3>1 DEF Fill
      <4>2. PICK w \in U.words,
                 s \in Lists(IF p.ver = 5 THEN ReasonsGiven(SUBACK) ELSE SubackCodes) :
              q = [p EXCEPT !.f = [@ EXCEPT !.packet_id = w, !.codes = s]]
        BY <1>3, <4>1, Zenon DEF FillSuback
      <4>3. s \in Lists(ReasonsGiven(p.type)) \union Lists(SubackCodes) \union {<<>>}
        BY <3>1, <4>2
      <4> QED  BY <4>2, <4>3, Zenon
    <3>2. CASE p.type = UNSUBACK
      <4>1. FillUnsuback(p)  BY <3>2 DEF Fill
      <4>2. PICK w \in U.words, s \in IF p.ver = 5 THEN Lists(ReasonsGiven(UNSUBACK)) ELSE {<<>>} :
              q = [p EXCEPT !.f = [@ EXCEPT !.packet_id = w, !.codes = s]]
        BY <1>3, <4>1, Zenon DEF FillUnsuback
      <4>3. s \in Lists(ReasonsGiven(p.type)) \union Lists(SubackCodes) \union {<<>>}
        BY <3>2, <4>2
      <4> QED  BY <4>2, <4>3, Zenon
    <3> QED  BY <1>11, <3>1, <3>2
  <2>2. PICK g : g = [f EXCEPT !.packet_id = w, !.codes = s]  OBVIOUS
  <2>3. w \in Nat /\ s \in Texts
    <3>1. w \in Nat  BY App, Zenon
    <3>2. ReasonsGiven(p.type) \subseteq Byte  BY Reasoned
    <3>3. s \in Lists(ReasonsGiven(p.type)) \/ s \in Lists(SubackCodes) \/ s = <<>>
      BY <2>1
    <3>4. s \in Seq(Byte)  BY <3>2, <3>3, OldCodes, Listed, EmptySeq
    <3> QED  BY <3>1, <3>4 DEF Texts
  <2>4. f \in CodesFields  BY <1>1, <1>3, <1>11 DEF FieldsFit
  <2>5. g \in CodesFields  BY <2>2, <2>3, <2>4 DEF CodesFields
  <2>6. FieldsFit(p.type, g)  BY <1>11, <2>5 DEF FieldsFit
  <2>7. q = [p EXCEPT !.f = g]  BY <1>1, <1>3, <2>1, <2>2 DEF Header
  <2> QED  BY <1>4, <2>6, <2>7
<1>12. CASE p.type \in {DISCONNECT, AUTH}
  <2>0. FillClose(p)  BY <1>12 DEF Fill
  <2>1. PICK c \in IF p.ver = 5 THEN ReasonsGiven(p.type) ELSE {0} :
          q = [p EXCEPT !.f = [@ EXCEPT !.code = c]]
    BY <1>3, <2>0, Zenon DEF FillClose
  <2>2. PICK g : g = [f EXCEPT !.code = c]  OBVIOUS
  <2>3. c \in Byte
    <3>1. 0 \in Byte  BY DEF Byte
    <3> QED  BY <3>1, Reasoned
  <2>4. f \in CloseFields  BY <1>1, <1>3, <1>12 DEF FieldsFit
  <2>5. g \in CloseFields  BY <2>2, <2>3, <2>4 DEF CloseFields
  <2>6. FieldsFit(p.type, g)  BY <1>12, <2>5 DEF FieldsFit
  <2>7. q = [p EXCEPT !.f = g]  BY <1>1, <1>3, <2>1, <2>2 DEF Header
  <2> QED  BY <1>4, <2>6, <2>7
<1>13. CASE p.type \in {PINGREQ, PINGRESP}
  <2>1. q = p  BY <1>3, <1>13 DEF Fill
  <2> QED  BY <1>3, <2>1
<1> QED  BY <1>2, <1>5, <1>6, <1>7, <1>8, <1>9, <1>10, <1>11, <1>12, <1>13
-----------------------------------------------------------------------------
(* Properties added to a packet and removed.                               *)
LEMMA ValuesAre ==
  ASSUME use \in DOMAIN Uses, NEW code \in U.codes, NEW p \in Values(code)
  PROVE  p \in PropertyOf(Byte)
<1>1. code \in 0..LastProperty
  <2>1. code \in 1..LastProperty  BY App, Zenon
  <2> QED  BY <2>1 DEF LastProperty
<1>2. U.words \subseteq Nat /\ U.longs \subseteq Nat \X Nat /\ U.vbis \subseteq 0..(VbiLimit - 1)
      /\ U.texts \subseteq Seq(Byte)
  BY App, Zenon DEF Texts
<1>3. CASE FormOf(code) = "byte"
  <2>1. p \in {[code |-> code, int |-> n] : n \in 0..1}  BY <1>1, <1>3, Forms DEF Values
  <2>2. 0..1 \subseteq Byte /\ code \in ByteProperties  BY <1>1, <1>3, Forms DEF Byte
  <2> QED  BY <2>1, <2>2 DEF PropertyOf
<1>4. CASE FormOf(code) = "word"
  <2>1. p \in {[code |-> code, int |-> n] : n \in U.words}  BY <1>1, <1>4, Forms DEF Values
  <2>2. code \in WordProperties  BY <1>1, <1>4, Forms
  <2> QED  BY <1>2, <2>1, <2>2 DEF PropertyOf
<1>5. CASE FormOf(code) = "long"
  <2>1. p \in {[code |-> code, long |-> n] : n \in U.longs}  BY <1>1, <1>5, Forms DEF Values
  <2>2. code \in LongProperties  BY <1>1, <1>5, Forms
  <2> QED  BY <1>2, <2>1, <2>2 DEF PropertyOf
<1>6. CASE FormOf(code) = "vbi"
  <2>1. p \in {[code |-> code, int |-> n] : n \in U.vbis}  BY <1>1, <1>6, Forms DEF Values
  <2>2. code \in VbiProperties  BY <1>1, <1>6, Forms
  <2> QED  BY <1>2, <2>1, <2>2 DEF PropertyOf
<1>7. CASE FormOf(code) = "text"
  <2>1. p \in {[code |-> code, text |-> s] : s \in U.texts}  BY <1>1, <1>7, Forms DEF Values
  <2>2. code \in TextProperties  BY <1>1, <1>7, Forms
  <2> QED  BY <1>2, <2>1, <2>2 DEF PropertyOf
<1>8. CASE FormOf(code) = "pair"
  <2>1. p \in {[code |-> code, pair |-> st] : st \in U.texts \X U.texts}
    BY <1>1, <1>8, Forms DEF Values
  <2>2. code \in PairProperties  BY <1>1, <1>8, Forms
  <2>3. PICK st \in U.texts \X U.texts : p = [code |-> code, pair |-> st]  BY <2>1
  <2>4. st \in Seq(Byte) \X Seq(Byte)  BY <1>2, <2>3
  <2> QED  BY <2>2, <2>3, <2>4 DEF PropertyOf
<1> QED  BY <1>3, <1>4, <1>5, <1>6, <1>7, <1>8 DEF FormOf

PropertyNames == {"properties", "will_properties"}

LEMMA ListsFit ==
  ASSUME NEW type \in PacketTypes, NEW f, FieldsFit(type, f),
         NEW field \in DOMAIN f \intersect PropertyNames
  PROVE  f[field] \in TrueLists
<1> USE TheTypes DEF TypeCodes, PropertyNames
<1>1. CASE type = CONNECT
  <2>1. f \in ConnectFields  BY <1>1 DEF FieldsFit
  <2> QED  BY <2>1 DEF ConnectFields
<1>2. CASE type = CONNACK
  <2>1. f \in ConnackFields  BY <1>2 DEF FieldsFit
  <2> QED  BY <2>1 DEF ConnackFields
<1>3. CASE type = PUBLISH
  <2>1. f \in PublishFields  BY <1>3 DEF FieldsFit
  <2> QED  BY <2>1 DEF PublishFields
<1>4. CASE type \in Acks
  <2>1. f \in AckFields  BY <1>4 DEF FieldsFit
  <2> QED  BY <2>1 DEF AckFields
<1>5. CASE type = SUBSCRIBE
  <2>1. f \in SubscribeFields  BY <1>5 DEF FieldsFit
  <2> QED  BY <2>1 DEF SubscribeFields
<1>6. CASE type = UNSUBSCRIBE
  <2>1. f \in UnsubscribeFields  BY <1>6 DEF FieldsFit
  <2> QED  BY <2>1 DEF UnsubscribeFields
<1>7. CASE type \in {SUBACK, UNSUBACK}
  <2>1. f \in CodesFields  BY <1>7 DEF FieldsFit
  <2> QED  BY <2>1 DEF CodesFields
<1>8. CASE type \in {DISCONNECT, AUTH}
  <2>1. f \in CloseFields  BY <1>8 DEF FieldsFit
  <2> QED  BY <2>1 DEF CloseFields
<1>9. CASE type \in {PINGREQ, PINGRESP}
  <2>1. f = [nothing |-> 0]  BY <1>9 DEF FieldsFit
  <2> QED  BY <2>1
<1> QED  BY <1>1, <1>2, <1>3, <1>4, <1>5, <1>6, <1>7, <1>8, <1>9

LEMMA FieldsWithList ==
  ASSUME NEW type \in PacketTypes, NEW f, FieldsFit(type, f),
         NEW field \in DOMAIN f \intersect PropertyNames, NEW ps \in TrueLists
  PROVE  FieldsFit(type, [f EXCEPT ![field] = ps])
<1> USE TheTypes DEF TypeCodes, PropertyNames
<1>0. PICK g : g = [f EXCEPT ![field] = ps]  OBVIOUS
<1>1. CASE type = CONNECT
  <2>1. f \in ConnectFields  BY <1>1 DEF FieldsFit
  <2>2. g \in ConnectFields  BY <1>0, <2>1 DEF ConnectFields
  <2> QED  BY <1>0, <1>1, <2>2 DEF FieldsFit
<1>2. CASE type = CONNACK
  <2>1. f \in ConnackFields  BY <1>2 DEF FieldsFit
  <2>2. g \in ConnackFields  BY <1>0, <2>1 DEF ConnackFields
  <2> QED  BY <1>0, <1>2, <2>2 DEF FieldsFit
<1>3. CASE type = PUBLISH
  <2>1. f \in PublishFields  BY <1>3 DEF FieldsFit
  <2>2. g \in PublishFields  BY <1>0, <2>1 DEF PublishFields
  <2> QED  BY <1>0, <1>3, <2>2 DEF FieldsFit
<1>4. CASE type \in Acks
  <2>1. f \in AckFields  BY <1>4 DEF FieldsFit
  <2>2. g \in AckFields  BY <1>0, <2>1 DEF AckFields
  <2> QED  BY <1>0, <1>4, <2>2 DEF FieldsFit
<1>5. CASE type = SUBSCRIBE
  <2>1. f \in SubscribeFields  BY <1>5 DEF FieldsFit
  <2>2. g \in SubscribeFields  BY <1>0, <2>1 DEF SubscribeFields
  <2> QED  BY <1>0, <1>5, <2>2 DEF FieldsFit
<1>6. CASE type = UNSUBSCRIBE
  <2>1. f \in UnsubscribeFields  BY <1>6 DEF FieldsFit
  <2>2. g \in UnsubscribeFields  BY <1>0, <2>1 DEF UnsubscribeFields
  <2> QED  BY <1>0, <1>6, <2>2 DEF FieldsFit
<1>7. CASE type \in {SUBACK, UNSUBACK}
  <2>1. f \in CodesFields  BY <1>7 DEF FieldsFit
  <2>2. g \in CodesFields  BY <1>0, <2>1 DEF CodesFields
  <2> QED  BY <1>0, <1>7, <2>2 DEF FieldsFit
<1>8. CASE type \in {DISCONNECT, AUTH}
  <2>1. f \in CloseFields  BY <1>8 DEF FieldsFit
  <2>2. g \in CloseFields  BY <1>0, <2>1 DEF CloseFields
  <2> QED  BY <1>0, <1>8, <2>2 DEF FieldsFit
<1>9. CASE type \in {PINGREQ, PINGRESP}
  <2>1. f = [nothing |-> 0]  BY <1>9 DEF FieldsFit
  <2> QED  BY <2>1
<1> QED  BY <1>1, <1>2, <1>3, <1>4, <1>5, <1>6, <1>7, <1>8, <1>9

LEMMA ComposedWithList ==
  ASSUME NEW p, Composed(p), NEW field \in DOMAIN p.f \intersect PropertyNames,
         NEW ps \in TrueLists, NEW q, q = [p EXCEPT !.f = [@ EXCEPT ![field] = ps]]
  PROVE  Composed(q) /\ q.ver = p.ver
<1>1. Header(p) /\ FieldsFit(p.type, p.f) /\ p.type \in PacketTypes  BY DEF Composed, Header
<1>2. PICK g : g = [p.f EXCEPT ![field] = ps]  OBVIOUS
<1>3. FieldsFit(p.type, g)  BY <1>1, <1>2, FieldsWithList
<1>4. q = [p EXCEPT !.f = g]  BY <1>2
<1>5. Header(q) /\ q.f = g /\ q.type = p.type /\ q.ver = p.ver  BY <1>1, <1>4 DEF Header
<1> QED  BY <1>3, <1>5 DEF Composed

(* The sender's side.                                                      *)
Senders ==
  /\ use \in DOMAIN Uses
  /\ ver \in Versions
  /\ pc \in {"idle", "compose", "sent", "refused", "received"}
  /\ pc # "idle" => Composed(pkt)
  /\ pc \in {"idle", "compose"} => out = None
  /\ out # None /\ ~damaged => out = Serialize(pkt)
  /\ damaged \in BOOLEAN

LEMMA SendersInit == Init => Senders
BY DEF Init, Senders, None

LEMMA AddKeeps ==
  ASSUME Senders, AddProperty
  PROVE  Composed(pkt')
<1>1. PICK field \in PropertyFields, code \in U.codes :
        \E p \in Values(code) : pkt' = [pkt EXCEPT !.f = [@ EXCEPT ![field] = PropertiesAdd(pkt.f[field], p)]]
  BY Zenon DEF AddProperty
<1>2. PICK p \in Values(code) : pkt' = [pkt EXCEPT !.f = [@ EXCEPT ![field] = PropertiesAdd(pkt.f[field], p)]]
  BY <1>1
<1>3. Composed(pkt) /\ use \in DOMAIN Uses  BY DEF Senders, AddProperty
<1>4. p \in PropertyOf(Byte)  BY <1>1, <1>2, <1>3, ValuesAre
<1>5. field \in DOMAIN pkt.f \intersect PropertyNames  BY <1>1 DEF PropertyFields, PropertyNames
<1>6. FieldsFit(pkt.type, pkt.f) /\ pkt.type \in PacketTypes  BY <1>3 DEF Composed, Header
<1>7. PICK old, new : old = pkt.f[field] /\ new = PropertiesAdd(pkt.f[field], p)  OBVIOUS
<1>8. old \in TrueLists  BY <1>5, <1>6, <1>7, ListsFit
<1>9. old \in PropertyList(Byte) /\ old.length = Bytes(old)  BY <1>8 DEF TrueLists
<1>10. /\ PropertiesAdd(old, p) \in PropertyList(Byte)
       /\ Bytes(PropertiesAdd(old, p)) = Bytes(old) + (ValueLength(p) + 1)
       /\ PropertiesAdd(old, p).length = old.length + (ValueLength(p) + 1)
  BY <1>4, <1>9, BytesOfAdd
<1>13. new = PropertiesAdd(old, p)  BY <1>7
<1>14. new \in PropertyList(Byte) /\ new.length = Bytes(new)  BY <1>9, <1>10, <1>13, Zenon
<1>11. new \in TrueLists  BY <1>14 DEF TrueLists
<1>12. pkt' = [pkt EXCEPT !.f = [@ EXCEPT ![field] = new]]  BY <1>2, <1>7
<1> QED  BY <1>3, <1>5, <1>11, <1>12, ComposedWithList

LEMMA RemoveKeeps ==
  ASSUME Senders, RemoveProperty
  PROVE  Composed(pkt')
<1>1. PICK field \in PropertyFields, code \in U.codes :
        pkt' = [pkt EXCEPT !.f = [@ EXCEPT ![field] = PropertiesRemove(pkt.f[field], code)]]
  BY Zenon DEF RemoveProperty
<1>3. Composed(pkt)  BY DEF Senders, RemoveProperty
<1>5. field \in DOMAIN pkt.f \intersect PropertyNames  BY <1>1 DEF PropertyFields, PropertyNames
<1>6. FieldsFit(pkt.type, pkt.f) /\ pkt.type \in PacketTypes  BY <1>3 DEF Composed, Header
<1>7. PICK old, new : old = pkt.f[field] /\ new = PropertiesRemove(pkt.f[field], code)  OBVIOUS
<1>8. old \in TrueLists  BY <1>5, <1>6, <1>7, ListsFit
<1>9. old \in PropertyList(Byte) /\ old.length = Bytes(old)  BY <1>8 DEF TrueLists
<1>10. /\ PropertiesRemove(old, code) \in PropertyList(Byte)
       /\ PropertiesRemove(old, code).length = Bytes(PropertiesRemove(old, code))
  BY <1>9, BytesOfRemove
<1>13. new = PropertiesRemove(old, code)  BY <1>7
<1>14. new \in PropertyList(Byte) /\ new.length = Bytes(new)  BY <1>10, <1>13, Zenon
<1>11. new \in TrueLists  BY <1>14 DEF TrueLists
<1>12. pkt' = [pkt EXCEPT !.f = [@ EXCEPT ![field] = new]]  BY <1>1, <1>7
<1> QED  BY <1>3, <1>5, <1>11, <1>12, ComposedWithList

LEMMA SendersNext ==
  ASSUME Senders, [Next]_vars
  PROVE  Senders'
<1>1. CASE Compose
  <2>1. PICK type \in U.types : Fill(PacketInit(ver, type))  BY <1>1, Zenon DEF Compose
  <2>2. type \in PacketTypes /\ ver \in Versions /\ use \in DOMAIN Uses  BY <2>1, App DEF Senders
  <2>3. Composed(PacketInit(ver, type))  BY <2>2, InitFits
  <2>4. Composed(pkt')  BY <2>1, <2>2, <2>3, FillFits, Zenon
  <2> QED  BY <1>1, <2>4 DEF Senders, Compose
<1>2. CASE AddProperty
  <2>1. Composed(pkt')  BY <1>2, AddKeeps
  <2> QED  BY <1>2, <2>1 DEF Senders, AddProperty
<1>3. CASE RemoveProperty
  <2>1. Composed(pkt')  BY <1>3, RemoveKeeps
  <2> QED  BY <1>3, <2>1 DEF Senders, RemoveProperty
<1>4. CASE Send
  <2>1. Composed(pkt)  BY <1>4 DEF Senders, Send
  <2>2. out' = Serialize(pkt) /\ pkt' = pkt /\ pc' \in {"refused", "sent"}
        /\ UNCHANGED <<use, ver, damaged>>
    BY <1>4 DEF Send
  <2> QED  BY <2>1, <2>2 DEF Senders
<1>5. CASE Change
  <2>1. damaged' = TRUE /\ pc = "sent" /\ UNCHANGED <<use, ver, pc, pkt>>  BY <1>5 DEF Change
  <2> QED  BY <2>1 DEF Senders
<1>6. CASE Truncate
  <2>1. damaged' = TRUE /\ pc = "sent" /\ UNCHANGED <<use, ver, pc, pkt>>  BY <1>6 DEF Truncate
  <2> QED  BY <2>1 DEF Senders
<1>7. CASE Receive
  <2>1. pc = "sent" /\ pc' = "received" /\ UNCHANGED <<use, ver, pkt, out, damaged>>
    BY <1>7 DEF Receive
  <2> QED  BY <2>1 DEF Senders
<1>8. CASE UNCHANGED vars  BY <1>8 DEF Senders, vars
<1> QED  BY <1>1, <1>2, <1>3, <1>4, <1>5, <1>6, <1>7, <1>8 DEF Next
-----------------------------------------------------------------------------
(* The bytes of each packet type and their number.  A number is right for  *)
(* a text, if it is not too large to be said by a packet.                  *)
Fits(s, n) == s \in Texts /\ n \in Nat /\ (n < VbiLimit => Len(s) = n)

LEMMA FitPieces ==
  /\ \A n \in Nat : Fits(U16(n), 2)
  /\ \A s \in Texts : Len(s) \in Nat /\ Fits(s, Len(s)) /\ Fits(Utf(s), 2 + Len(s))
  /\ \A c \in Byte : Fits(<<c>>, 1)
  /\ \A c \in Byte, d \in Byte : Fits(<<c, d>>, 2)
  /\ Fits(<<>>, 0)
<1>1. ASSUME NEW n \in Nat PROVE Fits(U16(n), 2)  BY Pieces DEF Fits, Texts
<1>2. ASSUME NEW s \in Texts PROVE Len(s) \in Nat /\ Fits(s, Len(s)) /\ Fits(Utf(s), 2 + Len(s))
  <2>1. s \in Seq(Byte) /\ Len(s) \in Nat  BY DEF Texts
  <2>2. Utf(s) \in Seq(Byte) /\ Len(Utf(s)) = Len(s) + 2  BY <2>1, Pieces
  <2> QED  BY <2>1, <2>2 DEF Fits, Texts
<1>3. \A c \in Byte : Fits(<<c>>, 1)  BY DEF Fits, Texts
<1>4. \A c \in Byte, d \in Byte : Fits(<<c, d>>, 2)  BY DEF Fits, Texts
<1>5. Fits(<<>>, 0)  BY EmptySeq DEF Fits, Texts
<1> QED  BY <1>1, <1>2, <1>3, <1>4, <1>5

LEMMA FitJoined ==
  ASSUME NEW s, NEW m, NEW t, NEW n, Fits(s, m), Fits(t, n)
  PROVE  Fits(s \o t, m + n)
<1>1. s \in Seq(Byte) /\ t \in Seq(Byte) /\ m \in Nat /\ n \in Nat
      /\ (m < VbiLimit => Len(s) = m) /\ (n < VbiLimit => Len(t) = n)
  BY DEF Fits, Texts
<1>2. s \o t \in Seq(Byte) /\ Len(s \o t) = Len(s) + Len(t)  BY <1>1, Joined
<1>3. m + n < VbiLimit => m < VbiLimit /\ n < VbiLimit  BY <1>1, Limits
<1> QED  BY <1>1, <1>2, <1>3 DEF Fits, Texts

LEMMA FitWhen ==
  ASSUME NEW b \in BOOLEAN, NEW s, NEW n, b => Fits(s, n)
  PROVE  Fits(When(b, s), If(b, n))
<1>1. CASE b  BY <1>1 DEF When, If
<1>2. CASE ~b  BY <1>2, FitPieces DEF When, If
<1> QED  BY <1>1, <1>2

LEMMA FitLists ==
  ASSUME NEW ps \in TrueLists
  PROVE  Fits(PropertiesBytes(ps), PropertiesLen(ps))
<1>1. ps \in PropertyList(Byte) /\ ps.length = Bytes(ps)  BY DEF TrueLists
<1>2. ps.length \in Nat  BY <1>1 DEF PropertyList
<1>3. /\ PropertiesBytes(ps) \in Seq(Byte)
      /\ ps.length = Bytes(ps) /\ ps.length < VbiLimit =>
           Len(PropertiesBytes(ps)) = PropertiesLen(ps)
      /\ PropertiesLen(ps) \in Nat /\ PropertiesLen(ps) >= ps.length
  BY <1>1, PropertiesBytesAre
<1>4. VbiLimit \in Nat  BY Limits
<1> QED  BY <1>1, <1>2, <1>3, <1>4 DEF Fits, Texts

LEMMA Flags ==
  ASSUME NEW p
  PROVE  /\ WillFlag(p) \in BOOLEAN /\ UsernameFlag(p) \in BOOLEAN /\ PasswordFlag(p) \in BOOLEAN
         /\ (p.ver = 5) \in BOOLEAN
BY DEF Bit, WillFlag, UsernameFlag, PasswordFlag

LEMMA ConnectFits ==
  ASSUME NEW p, p.f \in ConnectFields
  PROVE  Fits(ConnectBody(p), ConnectLength(p))
<1>1. PICK f, v5, w, u, k : /\ f = p.f /\ v5 = (p.ver = 5) /\ w = WillFlag(p)
                            /\ u = UsernameFlag(p) /\ k = PasswordFlag(p)
  OBVIOUS
<1>2. /\ f.protocol_name \in Texts /\ f.protocol_version \in Byte /\ f.flags \in Byte
      /\ f.keep_alive \in Nat /\ f.properties \in TrueLists /\ f.client_id \in Texts
      /\ f.will_properties \in TrueLists /\ f.will_topic \in Texts /\ f.will_message \in Texts
      /\ f.username \in Texts /\ f.password \in Texts
  BY <1>1 DEF ConnectFields
<1>3. v5 \in BOOLEAN /\ w \in BOOLEAN /\ u \in BOOLEAN /\ k \in BOOLEAN
  BY <1>1, Flags, Zenon
<1>4. PICK nn, nc, nt, nm, nu, nk, np, nw :
        /\ nn = Len(f.protocol_name) /\ nc = Len(f.client_id) /\ nt = Len(f.will_topic)
        /\ nm = Len(f.will_message) /\ nu = Len(f.username) /\ nk = Len(f.password)
        /\ np = PropertiesLen(f.properties) /\ nw = PropertiesLen(f.will_properties)
  OBVIOUS
<1>5. PICK a, b, c, d, e, g, h, i :
        /\ a = Utf(f.protocol_name) /\ b = <<f.protocol_version, f.flags>>
        /\ c = U16(f.keep_alive) /\ d = When(v5, PropertiesBytes(f.properties))
        /\ e = Utf(f.client_id)
        /\ g = When(w, When(v5, PropertiesBytes(f.will_properties))
                       \o Utf(f.will_topic) \o Utf(f.will_message))
        /\ h = When(u, Utf(f.username)) /\ i = When(k, Utf(f.password))
  OBVIOUS
<1>6. Fits(a, 2 + nn) /\ Fits(b, 2) /\ Fits(c, 2) /\ Fits(e, 2 + nc)
  BY <1>2, <1>4, <1>5, FitPieces
<1>7. Fits(d, If(v5, np))  BY <1>2, <1>3, <1>4, <1>5, FitLists, FitWhen
<1>8. Fits(h, If(u, 2 + nu)) /\ Fits(i, If(k, 2 + nk))
  <2>1. Fits(Utf(f.username), 2 + nu) /\ Fits(Utf(f.password), 2 + nk)
    BY <1>2, <1>4, FitPieces
  <2> QED  BY <1>3, <1>5, <2>1, FitWhen
<1>9. Fits(g, If(w, (If(v5, nw) + (2 + nt)) + (2 + nm)))
  <2>1. Fits(When(v5, PropertiesBytes(f.will_properties)), If(v5, nw))
    BY <1>2, <1>3, <1>4, FitLists, FitWhen
  <2>2. Fits(Utf(f.will_topic), 2 + nt) /\ Fits(Utf(f.will_message), 2 + nm)
    BY <1>2, <1>4, FitPieces
  <2>3. Fits(When(v5, PropertiesBytes(f.will_properties)) \o Utf(f.will_topic),
             If(v5, nw) + (2 + nt))
    BY <2>1, <2>2, FitJoined
  <2>4. Fits(When(v5, PropertiesBytes(f.will_properties)) \o Utf(f.will_topic)
               \o Utf(f.will_message),
             (If(v5, nw) + (2 + nt)) + (2 + nm))
    BY <2>2, <2>3, FitJoined
  <2> QED  BY <1>3, <1>5, <2>4, FitWhen
<1>10. PICK nd, ng, nh, ni :
         /\ nd = If(v5, np) /\ ng = If(w, (If(v5, nw) + (2 + nt)) + (2 + nm))
         /\ nh = If(u, 2 + nu) /\ ni = If(k, 2 + nk)
  OBVIOUS
<1>11. Fits(d, nd) /\ Fits(g, ng) /\ Fits(h, nh) /\ Fits(i, ni)
  BY <1>7, <1>8, <1>9, <1>10
<1>12. Fits(a \o b \o c \o d \o e \o g \o h \o i,
            (((((((2 + nn) + 2) + 2) + nd) + (2 + nc)) + ng) + nh) + ni)
  <2>1. Fits(a \o b, (2 + nn) + 2)  BY <1>6, FitJoined
  <2>2. Fits(a \o b \o c, ((2 + nn) + 2) + 2)  BY <1>6, <2>1, FitJoined
  <2>3. Fits(a \o b \o c \o d, (((2 + nn) + 2) + 2) + nd)  BY <1>11, <2>2, FitJoined
  <2>4. Fits(a \o b \o c \o d \o e, ((((2 + nn) + 2) + 2) + nd) + (2 + nc))
    BY <1>6, <2>3, FitJoined
  <2>5. Fits(a \o b \o c \o d \o e \o g, (((((2 + nn) + 2) + 2) + nd) + (2 + nc)) + ng)
    BY <1>11, <2>4, FitJoined
  <2>6. Fits(a \o b \o c \o d \o e \o g \o h,
             ((((((2 + nn) + 2) + 2) + nd) + (2 + nc)) + ng) + nh)
    BY <1>11, <2>5, FitJoined
  <2> QED  BY <1>11, <2>6, FitJoined
<1>13. ConnectBody(p) = a \o b \o c \o d \o e \o g \o h \o i
  BY <1>1, <1>5, Zenon DEF ConnectBody
<1>14. ConnectLength(p) = 4 + 2 + nn + 2 + nc + If(u, 2 + nu) + If(k, 2 + nk)
                            + If(w, 2 + nt + 2 + nm) + If(v5, np + If(w, nw))
  BY <1>1, <1>4, Zenon DEF ConnectLength
<1>15. /\ nn \in Nat /\ nc \in Nat /\ nt \in Nat /\ nm \in Nat /\ nu \in Nat /\ nk \in Nat
       /\ np \in Nat /\ nw \in Nat
  BY <1>2, <1>4, FitPieces, FitLists DEF Fits
<1>16. ConnectLength(p) = (((((((2 + nn) + 2) + 2) + nd) + (2 + nc)) + ng) + nh) + ni
  BY <1>3, <1>10, <1>14, <1>15 DEF If
<1> QED  BY <1>12, <1>13, <1>16

(* What version 5 adds to the other packets.                               *)
LEMMA ListOf ==
  ASSUME NEW p, p.f.properties \in TrueLists
  PROVE  /\ Fits(When(p.ver = 5, PropertiesBytes(p.f.properties)),
                 If(p.ver = 5, PropertiesLen(p.f.properties)))
         /\ PropertiesLen(p.f.properties) \in Nat
<1>1. Fits(PropertiesBytes(p.f.properties), PropertiesLen(p.f.properties))  BY FitLists
<1>2. (p.ver = 5) \in BOOLEAN  BY Flags
<1> QED  BY <1>1, <1>2, FitWhen DEF Fits

LEMMA CodeAndList ==
  ASSUME NEW p, p.f.properties \in TrueLists, p.f.code \in Byte
  PROVE  /\ Fits(When(p.ver = 5, <<p.f.code>> \o PropertiesBytes(p.f.properties)),
                 If(p.ver = 5, 1 + PropertiesLen(p.f.properties)))
         /\ PropertiesLen(p.f.properties) \in Nat
<1>1. Fits(PropertiesBytes(p.f.properties), PropertiesLen(p.f.properties))  BY FitLists
<1>2. Fits(<<p.f.code>>, 1)  BY FitPieces
<1>3. Fits(<<p.f.code>> \o PropertiesBytes(p.f.properties), 1 + PropertiesLen(p.f.properties))
  BY <1>1, <1>2, FitJoined
<1>4. (p.ver = 5) \in BOOLEAN  BY Flags
<1> QED  BY <1>1, <1>3, <1>4, FitWhen DEF Fits

LEMMA ConnackFits ==
  ASSUME NEW p, p.f \in ConnackFields, p.ver \in Versions
  PROVE  Fits(ConnackBody(p), ConnackLength(p))
<1>1. p.f.flags \in Byte /\ p.f.code \in Byte /\ p.f.properties \in TrueLists
  BY DEF ConnackFields
<1>2. 0 \in Byte  BY Nothing
<1>3. CASE p.ver # 5
  <2>1. ConnackBody(p) \in {<<0, p.f.code>>, <<p.f.flags, p.f.code>>}
    BY <1>3 DEF ConnackBody, Versions
  <2>2. ConnackLength(p) = 2  BY <1>3 DEF ConnackLength, If
  <2>3. Fits(<<0, p.f.code>>, 2) /\ Fits(<<p.f.flags, p.f.code>>, 2)  BY <1>1, <1>2, FitPieces
  <2> QED  BY <2>1, <2>2, <2>3
<1>4. CASE p.ver = 5
  <2>1. ConnackBody(p) = <<p.f.flags, p.f.code>> \o PropertiesBytes(p.f.properties)
    BY <1>4 DEF ConnackBody
  <2>2. ConnackLength(p) = 2 + PropertiesLen(p.f.properties)  BY <1>4 DEF ConnackLength, If
  <2>3. Fits(<<p.f.flags, p.f.code>>, 2)  BY <1>1, FitPieces
  <2>4. Fits(PropertiesBytes(p.f.properties), PropertiesLen(p.f.properties))  BY <1>1, FitLists
  <2> QED  BY <2>1, <2>2, <2>3, <2>4, FitJoined
<1> QED  BY <1>3, <1>4

LEMMA CloseFits ==
  ASSUME NEW p, p.f \in CloseFields
  PROVE  Fits(CloseBody(p), CloseLength(p))
<1>1. p.f.code \in Byte /\ p.f.properties \in TrueLists  BY DEF CloseFields
<1> QED  BY <1>1, CodeAndList DEF CloseBody, CloseLength

LEMMA PublishFits ==
  ASSUME NEW p, p.f \in PublishFields, p.qos \in 0..3
  PROVE  Fits(PublishBody(p), PublishLength(p))
<1>1. /\ p.f.packet_id \in Nat /\ p.f.properties \in TrueLists /\ p.f.topic_name \in Texts
      /\ p.f.message \in Texts
  BY DEF PublishFields
<1>2. PICK a, b, c, d : /\ a = Utf(p.f.topic_name) /\ b = When(p.qos > 0, U16(p.f.packet_id))
                        /\ c = When(p.ver = 5, PropertiesBytes(p.f.properties)) /\ d = p.f.message
  OBVIOUS
<1>3. PICK na, nb, nc, nd :
        /\ na = Len(p.f.topic_name) /\ nb = If(p.qos > 0, 2)
        /\ nc = If(p.ver = 5, PropertiesLen(p.f.properties)) /\ nd = Len(p.f.message)
  OBVIOUS
<1>4. Fits(a, 2 + na) /\ na \in Nat /\ Fits(d, nd)  BY <1>1, <1>2, <1>3, FitPieces
<1>5. Fits(b, nb)
  <2>1. (p.qos > 0) \in BOOLEAN /\ Fits(U16(p.f.packet_id), 2)  BY <1>1, FitPieces
  <2> QED  BY <1>2, <1>3, <2>1, FitWhen
<1>6. Fits(c, nc)  BY <1>1, <1>2, <1>3, ListOf
<1>7. Fits(a \o b, (2 + na) + nb)  BY <1>4, <1>5, FitJoined
<1>8. Fits(a \o b \o c, ((2 + na) + nb) + nc)  BY <1>6, <1>7, FitJoined
<1>9. Fits(a \o b \o c \o d, (((2 + na) + nb) + nc) + nd)  BY <1>4, <1>8, FitJoined
<1>10. PublishBody(p) = a \o b \o c \o d  BY <1>2, Zenon DEF PublishBody
<1>11. PublishLength(p) = 2 + na + nd + nb + nc  BY <1>3, Zenon DEF PublishLength
<1>12. nb \in Nat /\ nc \in Nat /\ nd \in Nat  BY <1>4, <1>5, <1>6 DEF Fits
<1>13. 2 + na + nd + nb + nc = (((2 + na) + nb) + nc) + nd  BY <1>4, <1>12
<1> QED  BY <1>9, <1>10, <1>11, <1>13

LEMMA AckFits ==
  ASSUME NEW p, p.f \in AckFields
  PROVE  Fits(AckBody(p), AckLength(p))
<1>1. p.f.packet_id \in Nat /\ p.f.code \in Byte /\ p.f.properties \in TrueLists
  BY DEF AckFields
<1>2. PICK c, nc : /\ c = When(p.ver = 5, <<p.f.code>> \o PropertiesBytes(p.f.properties))
                   /\ nc = If(p.ver = 5, 1 + PropertiesLen(p.f.properties))
  OBVIOUS
<1>3. Fits(c, nc) /\ nc \in Nat  BY <1>1, <1>2, CodeAndList DEF Fits
<1>4. Fits(U16(p.f.packet_id), 2)  BY <1>1, FitPieces
<1>5. Fits(U16(p.f.packet_id) \o c, 2 + nc)  BY <1>3, <1>4, FitJoined
<1>6. AckBody(p) = U16(p.f.packet_id) \o c /\ AckLength(p) = nc + 2
  BY <1>2, Zenon DEF AckBody, AckLength
<1>7. nc + 2 = 2 + nc  BY <1>3
<1> QED  BY <1>5, <1>6, <1>7

(* The packet identifier and the properties, as three types begin.         *)
LEMMA Identified ==
  ASSUME NEW p, p.f.packet_id \in Nat, p.f.properties \in TrueLists, NEW s, NEW n, Fits(s, n)
  PROVE  /\ Fits(U16(p.f.packet_id) \o When(p.ver = 5, PropertiesBytes(p.f.properties)) \o s,
                 (2 + If(p.ver = 5, PropertiesLen(p.f.properties))) + n)
         /\ If(p.ver = 5, PropertiesLen(p.f.properties)) \in Nat
<1>1. PICK c, nc : /\ c = When(p.ver = 5, PropertiesBytes(p.f.properties))
                   /\ nc = If(p.ver = 5, PropertiesLen(p.f.properties))
  OBVIOUS
<1>2. Fits(c, nc) /\ nc \in Nat  BY <1>1, ListOf DEF Fits
<1>3. Fits(U16(p.f.packet_id), 2)  BY FitPieces
<1>4. Fits(U16(p.f.packet_id) \o c, 2 + nc)  BY <1>2, <1>3, FitJoined
<1>5. Fits(U16(p.f.packet_id) \o c \o s, (2 + nc) + n)  BY <1>4, FitJoined
<1> QED  BY <1>1, <1>2, <1>5

LEMMA FitFlat ==
  ASSUME NEW ss \in Seq(Texts)
  PROVE  Fits(FlattenSeq(ss), Sum(Lengths(ss)))
<1>1. ss \in Seq(Seq(Byte))  BY DEF Texts
<1>2. FlattenSeq(ss) \in Seq(Byte) /\ Len(FlattenSeq(ss)) = Sum(Lengths(ss))  BY <1>1, Flatten
<1>3. Len(FlattenSeq(ss)) \in Nat  BY <1>2
<1> QED  BY <1>2, <1>3 DEF Fits, Texts

LEMMA Element ==
  ASSUME NEW S, NEW s \in Seq(S), NEW i \in 1..Len(s)
  PROVE  s[i] \in S
OBVIOUS

LEMMA SubscribeFits ==
  ASSUME NEW p, p.f \in SubscribeFields
  PROVE  Fits(SubscribeBody(p), SubscribeLength(p))
<1>1. /\ p.f.packet_id \in Nat /\ p.f.properties \in TrueLists
      /\ p.f.filters \in Seq([topic : Texts, options : Byte])
  BY DEF SubscribeFields
<1>2. PICK list : list = p.f.filters  OBVIOUS
<1>3. PICK ss : ss = [i \in DOMAIN list |-> Utf(list[i].topic) \o <<list[i].options>>]  OBVIOUS
<1>4. DOMAIN list = 1..Len(list) /\ Len(list) \in Nat  BY <1>1, <1>2
<1>5. ASSUME NEW i \in 1..Len(list)
      PROVE  /\ Utf(list[i].topic) \o <<list[i].options>> \in Texts
             /\ Len(Utf(list[i].topic) \o <<list[i].options>>) = 2 + Len(list[i].topic) + 1
  <2>1. list[i] \in [topic : Texts, options : Byte]  BY <1>1, <1>2, Element, Zenon
  <2>2. PICK t, o : t = list[i].topic /\ o = list[i].options  OBVIOUS
  <2>3. t \in Seq(Byte) /\ o \in Byte  BY <2>1, <2>2 DEF Texts
  <2>4. PICK u, v : u = Utf(t) /\ v = <<o>>  OBVIOUS
  <2>5. u \in Seq(Byte) /\ Len(u) = Len(t) + 2 /\ v \in Seq(Byte) /\ Len(v) = 1
    BY <2>3, <2>4, Pieces
  <2>6. u \o v \in Seq(Byte) /\ Len(u \o v) = Len(u) + Len(v)  BY <2>5, Joined
  <2>7. Len(t) \in Nat  BY <2>3
  <2>8. Len(u \o v) = 2 + Len(t) + 1  BY <2>5, <2>6, <2>7
  <2> QED  BY <2>2, <2>4, <2>6, <2>8 DEF Texts
<1>6. ss \in Seq(Texts)
  <2>1. ss \in [1..Len(list) -> Texts]  BY <1>3, <1>4, <1>5
  <2> QED  BY <1>4, <2>1
<1>7. Lengths(ss) = [i \in DOMAIN list |-> 2 + Len(list[i].topic) + 1]
  <2>1. DOMAIN ss = DOMAIN list  BY <1>3
  <2>2. \A i \in DOMAIN list : Len(ss[i]) = 2 + Len(list[i].topic) + 1  BY <1>3, <1>4, <1>5
  <2> QED  BY <2>1, <2>2 DEF Lengths
<1>8. PICK s, n : s = FlattenSeq(ss) /\ n = Sum(Lengths(ss))  OBVIOUS
<1>9. Fits(s, n) /\ n \in Nat  BY <1>6, <1>8, FitFlat DEF Fits
<1>10. PICK nc : nc = If(p.ver = 5, PropertiesLen(p.f.properties))  OBVIOUS
<1>11. /\ Fits(U16(p.f.packet_id) \o When(p.ver = 5, PropertiesBytes(p.f.properties)) \o s,
               (2 + nc) + n)
       /\ nc \in Nat
  BY <1>1, <1>9, <1>10, Identified
<1>12. SubscribeBody(p) =
         U16(p.f.packet_id) \o When(p.ver = 5, PropertiesBytes(p.f.properties)) \o s
  BY <1>2, <1>3, <1>8, Zenon DEF SubscribeBody
<1>13. SubscribeLength(p) = 2 + n + nc  BY <1>2, <1>7, <1>8, <1>10, Zenon DEF SubscribeLength
<1>14. 2 + n + nc = (2 + nc) + n  BY <1>9, <1>11
<1> QED  BY <1>11, <1>12, <1>13, <1>14

LEMMA UnsubscribeFits ==
  ASSUME NEW p, p.f \in UnsubscribeFields
  PROVE  Fits(UnsubscribeBody(p), UnsubscribeLength(p))
<1>1. p.f.packet_id \in Nat /\ p.f.properties \in TrueLists /\ p.f.topics \in Seq(Texts)
  BY DEF UnsubscribeFields
<1>2. PICK list : list = p.f.topics  OBVIOUS
<1>3. PICK ss : ss = [i \in DOMAIN list |-> Utf(list[i])]  OBVIOUS
<1>4. DOMAIN list = 1..Len(list) /\ Len(list) \in Nat  BY <1>1, <1>2
<1>5. ASSUME NEW i \in 1..Len(list)
      PROVE  Utf(list[i]) \in Texts /\ Len(Utf(list[i])) = 2 + Len(list[i])
  <2>1. list[i] \in Seq(Byte)  BY <1>1, <1>2, <1>4 DEF Texts
  <2>2. Utf(list[i]) \in Seq(Byte) /\ Len(Utf(list[i])) = Len(list[i]) + 2  BY <2>1, Pieces
  <2>3. Len(list[i]) \in Nat  BY <2>1
  <2> QED  BY <2>2, <2>3 DEF Texts
<1>6. ss \in Seq(Texts)
  <2>1. ss \in [1..Len(list) -> Texts]  BY <1>3, <1>4, <1>5
  <2> QED  BY <1>4, <2>1
<1>7. Lengths(ss) = [i \in DOMAIN list |-> 2 + Len(list[i])]
  <2>1. DOMAIN ss = DOMAIN list  BY <1>3
  <2>2. \A i \in DOMAIN list : Len(ss[i]) = 2 + Len(list[i])  BY <1>3, <1>4, <1>5
  <2> QED  BY <2>1, <2>2 DEF Lengths
<1>8. PICK s, n : s = FlattenSeq(ss) /\ n = Sum(Lengths(ss))  OBVIOUS
<1>9. Fits(s, n) /\ n \in Nat  BY <1>6, <1>8, FitFlat DEF Fits
<1>10. PICK nc : nc = If(p.ver = 5, PropertiesLen(p.f.properties))  OBVIOUS
<1>11. /\ Fits(U16(p.f.packet_id) \o When(p.ver = 5, PropertiesBytes(p.f.properties)) \o s,
               (2 + nc) + n)
       /\ nc \in Nat
  BY <1>1, <1>9, <1>10, Identified
<1>12. UnsubscribeBody(p) =
         U16(p.f.packet_id) \o When(p.ver = 5, PropertiesBytes(p.f.properties)) \o s
  BY <1>2, <1>3, <1>8, Zenon DEF UnsubscribeBody
<1>13. UnsubscribeLength(p) = 2 + n + nc  BY <1>2, <1>7, <1>8, <1>10, Zenon DEF UnsubscribeLength
<1>14. 2 + n + nc = (2 + nc) + n  BY <1>9, <1>11
<1> QED  BY <1>11, <1>12, <1>13, <1>14

LEMMA SubackFits ==
  ASSUME NEW p, p.f \in CodesFields
  PROVE  Fits(SubackBody(p), SubackLength(p))
<1>1. p.f.packet_id \in Nat /\ p.f.properties \in TrueLists /\ p.f.codes \in Texts
  BY DEF CodesFields
<1>2. PICK n, nc : n = Len(p.f.codes) /\ nc = If(p.ver = 5, PropertiesLen(p.f.properties))
  OBVIOUS
<1>3. Fits(p.f.codes, n) /\ n \in Nat  BY <1>1, <1>2, FitPieces
<1>4. Fits(SubackBody(p), (2 + nc) + n) /\ nc \in Nat
  BY <1>1, <1>2, <1>3, Identified DEF SubackBody
<1>5. SubackLength(p) = n + 2 + nc  BY <1>2, Zenon DEF SubackLength
<1>6. n + 2 + nc = (2 + nc) + n  BY <1>3, <1>4
<1> QED  BY <1>4, <1>5, <1>6

LEMMA UnsubackFits ==
  ASSUME NEW p, p.f \in CodesFields
  PROVE  Fits(UnsubackBody(p), UnsubackLength(p))
<1>1. p.f.packet_id \in Nat /\ p.f.properties \in TrueLists /\ p.f.codes \in Texts
  BY DEF CodesFields
<1>2. Fits(U16(p.f.packet_id), 2)  BY <1>1, FitPieces
<1>3. Fits(p.f.codes, Len(p.f.codes))  BY <1>1, FitPieces
<1>4. Fits(PropertiesBytes(p.f.properties), PropertiesLen(p.f.properties))  BY <1>1, FitLists
<1>5. Fits(PropertiesBytes(p.f.properties) \o p.f.codes,
           PropertiesLen(p.f.properties) + Len(p.f.codes))
  BY <1>3, <1>4, FitJoined
<1>6. Fits(When(p.ver = 5, PropertiesBytes(p.f.properties) \o p.f.codes),
           If(p.ver = 5, PropertiesLen(p.f.properties) + Len(p.f.codes)))
  BY <1>5, Flags, FitWhen
<1> QED  BY <1>2, <1>6, FitJoined DEF UnsubackBody, UnsubackLength

(* mqtt_serialize.                                                         *)
LEMMA BodyFits ==
  ASSUME NEW p, Composed(p)
  PROVE  Fits(Body(p), Length(p))
<1> USE TheTypes DEF TypeCodes
<1>1. /\ Header(p) /\ FieldsFit(p.type, p.f) /\ p.type \in PacketTypes /\ p.ver \in Versions
      /\ p.qos \in 0..3
  BY DEF Composed, Header
<1>2. CASE p.type = CONNECT
  <2>1. Fits(ConnectBody(p), ConnectLength(p))  BY <1>1, <1>2, ConnectFits DEF FieldsFit
  <2>2. Body(p) = ConnectBody(p) /\ Length(p) = ConnectLength(p)  BY <1>2 DEF Body, Length
  <2> QED  BY <2>1, <2>2
<1>3. CASE p.type = CONNACK
  <2>1. Fits(ConnackBody(p), ConnackLength(p))  BY <1>1, <1>3, ConnackFits DEF FieldsFit
  <2>2. Body(p) = ConnackBody(p) /\ Length(p) = ConnackLength(p)  BY <1>3 DEF Body, Length
  <2> QED  BY <2>1, <2>2
<1>4. CASE p.type = PUBLISH
  <2>1. Fits(PublishBody(p), PublishLength(p))  BY <1>1, <1>4, PublishFits DEF FieldsFit
  <2>2. Body(p) = PublishBody(p) /\ Length(p) = PublishLength(p)  BY <1>4 DEF Body, Length
  <2> QED  BY <2>1, <2>2
<1>5. CASE p.type \in Acks
  <2>1. Fits(AckBody(p), AckLength(p))  BY <1>1, <1>5, AckFits DEF FieldsFit
  <2>2. Body(p) = AckBody(p) /\ Length(p) = AckLength(p)  BY <1>5 DEF Body, Length
  <2> QED  BY <2>1, <2>2
<1>6. CASE p.type = SUBSCRIBE
  <2>1. Fits(SubscribeBody(p), SubscribeLength(p))  BY <1>1, <1>6, SubscribeFits DEF FieldsFit
  <2>2. Body(p) = SubscribeBody(p) /\ Length(p) = SubscribeLength(p)  BY <1>6 DEF Body, Length
  <2> QED  BY <2>1, <2>2
<1>7. CASE p.type = UNSUBSCRIBE
  <2>1. Fits(UnsubscribeBody(p), UnsubscribeLength(p))
    BY <1>1, <1>7, UnsubscribeFits DEF FieldsFit
  <2>2. Body(p) = UnsubscribeBody(p) /\ Length(p) = UnsubscribeLength(p)
    BY <1>7 DEF Body, Length
  <2> QED  BY <2>1, <2>2
<1>8. CASE p.type = SUBACK
  <2>1. Fits(SubackBody(p), SubackLength(p))  BY <1>1, <1>8, SubackFits DEF FieldsFit
  <2>2. Body(p) = SubackBody(p) /\ Length(p) = SubackLength(p)  BY <1>8 DEF Body, Length
  <2> QED  BY <2>1, <2>2
<1>9. CASE p.type = UNSUBACK
  <2>1. Fits(UnsubackBody(p), UnsubackLength(p))  BY <1>1, <1>9, UnsubackFits DEF FieldsFit
  <2>2. Body(p) = UnsubackBody(p) /\ Length(p) = UnsubackLength(p)  BY <1>9 DEF Body, Length
  <2> QED  BY <2>1, <2>2
<1>10. CASE p.type \in {DISCONNECT, AUTH}
  <2>1. Fits(CloseBody(p), CloseLength(p))  BY <1>1, <1>10, CloseFits DEF FieldsFit
  <2>2. Body(p) = CloseBody(p) /\ Length(p) = CloseLength(p)  BY <1>10 DEF Body, Length
  <2> QED  BY <2>1, <2>2
<1>11. CASE p.type \in {PINGREQ, PINGRESP}
  <2>1. Body(p) = <<>> /\ Length(p) = 0  BY <1>11 DEF Body, Length
  <2> QED  BY <2>1, FitPieces
<1> QED  BY <1>1, <1>2, <1>3, <1>4, <1>5, <1>6, <1>7, <1>8, <1>9, <1>10, <1>11

LEMMA FixedFlagsFit ==
  ASSUME NEW p, Header(p)
  PROVE  FixedFlags(p) \in Byte
<1>1. p.type \in 1..15 /\ p.dup \in 0..1 /\ p.qos \in 0..3 /\ p.retain \in 0..1
  BY TheTypes DEF Header, TypeCodes
<1>2. PICK a, b : /\ a = If(p.type = PUBLISH, p.dup * 8 + p.qos * 2 + p.retain)
                  /\ b = If(p.type \in {PUBREL, SUBSCRIBE, UNSUBSCRIBE}, 2)
  OBVIOUS
<1>3. FixedFlags(p) = p.type * 16 + a + b  BY <1>2, Zenon DEF FixedFlags
<1>4. p.dup * 8 + p.qos * 2 + p.retain \in 0..15  BY <1>1
<1>5. p.type = PUBLISH => p.type \notin {PUBREL, SUBSCRIBE, UNSUBSCRIBE}
  BY TheTypes DEF TypeCodes
<1>6. a \in 0..15 /\ b \in 0..2 /\ (a = 0 \/ b = 0)  BY <1>2, <1>4, <1>5 DEF If
<1> QED  BY <1>1, <1>3, <1>6 DEF Byte

(* The bytes allocated and the bytes written.                              *)
LEMMA SerializeFits ==
  ASSUME NEW p, Composed(p)
  PROVE  /\ Serialize(p).bytes \in Seq(Byte)
         /\ Length(p) < VbiLimit => Serialize(p).size = Len(Serialize(p).bytes)
<1>1. PICK n, s : n = Length(p) /\ s = Body(p)  OBVIOUS
<1>2. s \in Seq(Byte) /\ n \in Nat /\ (n < VbiLimit => Len(s) = n)
  BY <1>1, BodyFits DEF Fits, Texts
<1>3. PICK h, v : h = FixedFlags(p) /\ v = Vbi(n)  OBVIOUS
<1>4. h \in Byte  BY <1>3, FixedFlagsFit DEF Composed
<1>5. v \in Seq(Byte) /\ (n < VbiLimit => Len(v) = VbiLength(n))
  BY <1>2, <1>3, VbiIsBytes, VbiFits
<1>6. PICK hv : hv = <<h>> \o v  OBVIOUS
<1>7. hv \in Seq(Byte) /\ Len(hv) = Len(v) + 1  BY <1>4, <1>5, <1>6, Headed
<1>8. hv \o s \in Seq(Byte) /\ Len(hv \o s) = Len(hv) + Len(s)  BY <1>2, <1>7, Joined
<1>9. n < VbiLimit => n + 1 + VbiLength(n) = Len(hv \o s)
  <2>1. VbiLength(n) \in Nat  BY <1>2, VbiLengthIs
  <2> QED  BY <1>2, <1>5, <1>7, <1>8, <2>1
<1>10. \/ Serialize(p).size = 0 /\ Serialize(p).bytes = <<>>
       \/ Serialize(p).size = n + 1 + VbiLength(n) /\ Serialize(p).bytes = hv \o s
  BY <1>1, <1>3, <1>6 DEF Serialize
<1>11. <<>> \in Seq(Byte) /\ Len(<<>>) = 0  BY EmptySeq
<1> QED  BY <1>1, <1>8, <1>9, <1>10, <1>11

LEMMA SendersExact == Senders => BufferExact
<1> SUFFICES ASSUME Senders, out # None, ~damaged, Length(pkt) < VbiLimit
             PROVE  out.size = Len(out.bytes) /\ out.bytes \in Seq(0..255)
  BY DEF BufferExact
<1>1. Composed(pkt) /\ out = Serialize(pkt)  BY DEF Senders
<1> QED  BY <1>1, SerializeFits DEF Byte

LEMMA SendersAlways == Spec => []Senders
<1>1. Init => Senders  BY SendersInit
<1>2. Senders /\ [Next]_vars => Senders'  BY SendersNext
<1> QED  BY <1>1, <1>2, PTL DEF Spec

(* mqtt_serialize allocates as many bytes as it writes, whatever packet an *)
(* application has filled in and however it added and removed properties.  *)
THEOREM EveryByteIsAllocated == Spec => []BufferExact
BY SendersAlways, SendersExact, PTL

(* The sender's half of LengthKept.                                        *)
LEMMA SendersLengths == Senders /\ pc # "idle" => LengthsTrue(pkt)
<1> SUFFICES ASSUME Senders, pc # "idle", NEW ps \in PropertyLists(pkt)
             PROVE  ps.length = Bytes(ps)
  BY DEF LengthsTrue
<1>1. FieldsFit(pkt.type, pkt.f) /\ pkt.type \in PacketTypes  BY DEF Senders, Composed, Header
<1>2. PICK field \in DOMAIN pkt.f \intersect PropertyNames : ps = pkt.f[field]
  BY DEF PropertyLists, PropertyNames
<1>3. ps \in TrueLists  BY <1>1, <1>2, ListsFit
<1> QED  BY <1>3 DEF TrueLists
-----------------------------------------------------------------------------
(* Reading: the bytes that arrive may be any, so they are numbers here.    *)
Digits == Seq(Nat)

LEMMA Rest ==
  ASSUME NEW b \in Digits, NEW n \in 0..Len(b)
  PROVE  SubSeq(b, n + 1, Len(b)) \in Digits /\ Len(SubSeq(b, n + 1, Len(b))) = Len(b) - n
BY DEF Digits

(* What a read returns: it took n bytes of b.                              *)
Took(r, b, n) ==
  /\ r.b \in Digits /\ n \in 0..Len(b) /\ Len(r.b) = Len(b) - n /\ r.len = n

LEMMA ReadTook ==
  ASSUME NEW b \in Digits, NEW n \in 0..Len(b), NEW v
  PROVE  Read(v, n, b).st = "ok" /\ Read(v, n, b).v = v /\ Took(Read(v, n, b), b, n)
BY Rest DEF Read, Took

LEMMA FailedIs == \A st : Failed(st).st = st
BY DEF Failed

LEMMA ReadU8Is ==
  ASSUME NEW b \in Digits, NEW r, r = ReadU8(b), r.st = "ok"
  PROVE  Took(r, b, 1) /\ r.v \in Nat
<1>1. b # <<>>
  <2>1. SUFFICES ASSUME b = <<>> PROVE FALSE  OBVIOUS
  <2>2. r = Failed("wild")  BY <2>1 DEF ReadU8
  <2> QED  BY <2>2, FailedIs
<1>2. r = Read(b[1], 1, b) /\ 1 \in 0..Len(b) /\ b[1] \in Nat  BY <1>1 DEF ReadU8, Digits
<1>3. PICK v, n : v = b[1] /\ n = 1  OBVIOUS
<1>4. Read(v, n, b).v = v /\ Took(Read(v, n, b), b, n)  BY <1>2, <1>3, ReadTook
<1> QED  BY <1>2, <1>3, <1>4

LEMMA ReadU16Is ==
  ASSUME NEW b \in Digits, Len(b) >= 2, NEW r, r = ReadU16(b)
  PROVE  r.st = "ok" /\ Took(r, b, 2) /\ r.v \in Nat
<1>1. r = Read(b[1] * 256 + b[2], 2, b)  BY DEF ReadU16, Digits
<1>2. 2 \in 0..Len(b) /\ b[1] \in Nat /\ b[2] \in Nat  BY DEF Digits
<1>3. PICK v, n : v = b[1] * 256 + b[2] /\ n = 2  OBVIOUS
<1>4. v \in Nat  BY <1>2, <1>3
<1>5. Read(v, n, b).st = "ok" /\ Read(v, n, b).v = v /\ Took(Read(v, n, b), b, n)
  BY <1>2, <1>3, ReadTook
<1> QED  BY <1>1, <1>3, <1>4, <1>5

(* A string that is skipped counts no byte.                                *)
LEMMA ReadUtfIs ==
  ASSUME NEW b \in Digits, NEW r, r = ReadUtf(b), r.st = "ok"
  PROVE  /\ r.v \in Digits
         /\ \E n \in 0..Len(b) : Took(r, b, n) /\ (r.v # <<>> => n = Len(r.v) + 2)
<1>1. Len(b) >= 2
  <2>1. SUFFICES ASSUME Len(b) < 2 PROVE FALSE  BY DEF Digits
  <2>2. r = Failed("wild")  BY <2>1 DEF ReadUtf
  <2> QED  BY <2>2, FailedIs
<1>2. PICK k : k = b[1] * 256 + b[2]  OBVIOUS
<1>3. k \in Nat /\ Len(b) \in Nat  BY <1>1, <1>2 DEF Digits
<1>4. r = IF k = 0 \/ Len(b) < k THEN Read(<<>>, 0, b)
          ELSE IF Len(b) < k + 2 THEN Failed("wild")
          ELSE Read(SubSeq(b, 3, k + 2), k + 2, b)
  BY <1>1, <1>2, <1>3 DEF ReadUtf
<1>5. CASE k = 0 \/ Len(b) < k
  <2>1. r = Read(<<>>, 0, b) /\ 0 \in 0..Len(b)  BY <1>3, <1>4, <1>5
  <2>2. PICK v, n : v = <<>> /\ n = 0  OBVIOUS
  <2>3. Read(v, n, b).v = v /\ Took(Read(v, n, b), b, n)  BY <2>1, <2>2, ReadTook
  <2>4. v \in Digits  BY <2>2, EmptySeq DEF Digits
  <2> QED  BY <2>1, <2>2, <2>3, <2>4
<1>6. CASE ~(k = 0 \/ Len(b) < k)
  <2>1. ~(Len(b) < k + 2)
    <3>1. SUFFICES ASSUME Len(b) < k + 2 PROVE FALSE  OBVIOUS
    <3>2. r = Failed("wild")  BY <1>4, <1>6, <3>1
    <3> QED  BY <3>2, FailedIs
  <2>2. PICK v, n : v = SubSeq(b, 3, k + 2) /\ n = k + 2  OBVIOUS
  <2>3. r = Read(v, n, b) /\ n \in 0..Len(b)  BY <1>3, <1>4, <1>6, <2>1, <2>2
  <2>4. v \in Digits /\ Len(v) = k
    <3>1. 3 \in 1..(k + 3) /\ k + 2 <= Len(b)  BY <1>3, <1>6, <2>1
    <3> QED  BY <1>3, <2>2, <3>1 DEF Digits
  <2>5. Read(v, n, b).v = v /\ Took(Read(v, n, b), b, n)  BY <2>3, ReadTook
  <2> QED  BY <2>2, <2>3, <2>4, <2>5
<1> QED  BY <1>5, <1>6

(* The number of at most four digits, the least significant first.         *)
Horner(b, n, w) ==
  w = [i \in 1..(n + 1) |-> IF i = n + 1 THEN 0 ELSE (b[i] % 128) + 128 * w[i + 1]]

LEMMA HornerExists ==
  ASSUME NEW b \in Digits, NEW n \in 0..4, n <= Len(b)
  PROVE  \E w : Horner(b, n, w)
<1>1. PICK d : d = [i \in 1..4 |-> b[i] % 128]  OBVIOUS
<1>2. \A i \in 1..n : i \in 1..4 /\ b[i] % 128 = d[i]  BY <1>1
<1>3. CASE n = 0
  <2>1. PICK w : w = [i \in 1..1 |-> 0]  OBVIOUS
  <2>2. Horner(b, n, w)  BY <1>3, <2>1 DEF Horner
  <2> QED  BY <2>2
<1>4. CASE n = 1
  <2>1. PICK w : w = [i \in 1..2 |-> IF i = 2 THEN 0 ELSE d[1] + 128 * 0]  OBVIOUS
  <2>2. Horner(b, n, w)  BY <1>2, <1>4, <2>1 DEF Horner
  <2> QED  BY <2>2
<1>5. CASE n = 2
  <2>1. PICK w : w = [i \in 1..3 |-> IF i = 3 THEN 0 ELSE IF i = 2 THEN d[2] + 128 * 0
                                     ELSE d[1] + 128 * (d[2] + 128 * 0)]
    OBVIOUS
  <2>2. Horner(b, n, w)  BY <1>2, <1>5, <2>1 DEF Horner
  <2> QED  BY <2>2
<1>6. CASE n = 3
  <2>1. PICK w : w = [i \in 1..4 |-> IF i = 4 THEN 0 ELSE IF i = 3 THEN d[3] + 128 * 0
                                     ELSE IF i = 2 THEN d[2] + 128 * (d[3] + 128 * 0)
                                     ELSE d[1] + 128 * (d[2] + 128 * (d[3] + 128 * 0))]
    OBVIOUS
  <2>2. Horner(b, n, w)  BY <1>2, <1>6, <2>1 DEF Horner
  <2> QED  BY <2>2
<1>7. CASE n = 4
  <2>1. PICK w : w = [i \in 1..5 |->
                        IF i = 5 THEN 0 ELSE IF i = 4 THEN d[4] + 128 * 0
                        ELSE IF i = 3 THEN d[3] + 128 * (d[4] + 128 * 0)
                        ELSE IF i = 2 THEN d[2] + 128 * (d[3] + 128 * (d[4] + 128 * 0))
                        ELSE d[1] + 128 * (d[2] + 128 * (d[3] + 128 * (d[4] + 128 * 0)))]
    OBVIOUS
  <2>2. Horner(b, n, w)  BY <1>2, <1>7, <2>1 DEF Horner
  <2> QED  BY <2>2
<1> QED  BY <1>3, <1>4, <1>5, <1>6, <1>7

LEMMA HornerTurn ==
  ASSUME NEW x \in Nat, NEW y \in Nat
  PROVE  /\ (x % 128) + 128 * y \in Nat
         /\ y = 0 => (x % 128) + 128 * y < 128
         /\ y < 128 => (x % 128) + 128 * y < Limit2
         /\ y < Limit2 => (x % 128) + 128 * y < Limit3
         /\ y < Limit3 => (x % 128) + 128 * y < VbiLimit
<1>1. PICK d : d = x % 128  OBVIOUS
<1>2. d \in 0..127  BY <1>1
<1>3. /\ d + 128 * y \in Nat
      /\ y = 0 => d + 128 * y < 128
      /\ y < 128 => d + 128 * y < Limit2
      /\ y < Limit2 => d + 128 * y < Limit3
      /\ y < Limit3 => d + 128 * y < VbiLimit
  BY <1>2, SMT DEF Limit2, Limit3, VbiLimit
<1> QED  BY <1>1, <1>3

(* As many digits as the shortest form has, or up to three more.           *)
LEMMA HornerBound ==
  ASSUME NEW b \in Digits, NEW n \in 0..4, n <= Len(b), NEW w, Horner(b, n, w)
  PROVE  /\ w[1] \in Nat /\ w[1] < VbiLimit
         /\ n # 0 => VbiLength(w[1]) \in 1..n
         /\ n = 0 => VbiLength(w[1]) = 1
<1>1. \A i \in 1..n : b[i] \in Nat  BY DEF Digits
<1>2. w[n + 1] = 0  BY DEF Horner
<1>3. \A i \in 1..n : w[i] = (b[i] % 128) + 128 * w[i + 1]  BY DEF Horner
<1> DEFINE Top(i, limit) == w[i] \in Nat /\ w[i] < limit
<1>4. n >= 1 => Top(n, 128)
  <2>1. SUFFICES ASSUME n >= 1 PROVE Top(n, 128)  OBVIOUS
  <2>2. n \in 1..n /\ w[n + 1] \in Nat  BY <1>2, <2>1
  <2> QED  BY <1>1, <1>2, <1>3, <2>2, HornerTurn
<1>5. n >= 2 => Top(n - 1, Limit2)
  <2>1. SUFFICES ASSUME n >= 2 PROVE Top(n - 1, Limit2)  OBVIOUS
  <2>2. PICK i : i = n - 1  OBVIOUS
  <2>3. i \in 1..n /\ i + 1 = n  BY <2>1, <2>2
  <2>4. PICK x, y : x = b[i] /\ y = w[i + 1]  OBVIOUS
  <2>5. y \in Nat /\ y < 128  BY <1>4, <2>1, <2>3, <2>4
  <2>6. w[i] = (x % 128) + 128 * y /\ x \in Nat  BY <1>1, <1>3, <2>3, <2>4
  <2>7. (x % 128) + 128 * y \in Nat /\ (x % 128) + 128 * y < Limit2  BY <2>5, <2>6, HornerTurn
  <2> QED  BY <2>2, <2>6, <2>7
<1>6. n >= 3 => Top(n - 2, Limit3)
  <2>1. SUFFICES ASSUME n >= 3 PROVE Top(n - 2, Limit3)  OBVIOUS
  <2>2. PICK i : i = n - 2  OBVIOUS
  <2>3. i \in 1..n /\ i + 1 = n - 1  BY <2>1, <2>2
  <2>4. PICK x, y : x = b[i] /\ y = w[i + 1]  OBVIOUS
  <2>5. y \in Nat /\ y < Limit2  BY <1>5, <2>1, <2>3, <2>4
  <2>6. w[i] = (x % 128) + 128 * y /\ x \in Nat  BY <1>1, <1>3, <2>3, <2>4
  <2>7. (x % 128) + 128 * y \in Nat /\ (x % 128) + 128 * y < Limit3  BY <2>5, <2>6, HornerTurn
  <2> QED  BY <2>2, <2>6, <2>7
<1>7. n >= 4 => Top(n - 3, VbiLimit)
  <2>1. SUFFICES ASSUME n >= 4 PROVE Top(n - 3, VbiLimit)  OBVIOUS
  <2>2. PICK i : i = n - 3  OBVIOUS
  <2>3. i \in 1..n /\ i + 1 = n - 2  BY <2>1, <2>2
  <2>4. PICK x, y : x = b[i] /\ y = w[i + 1]  OBVIOUS
  <2>5. y \in Nat /\ y < Limit3  BY <1>6, <2>1, <2>3, <2>4
  <2>6. w[i] = (x % 128) + 128 * y /\ x \in Nat  BY <1>1, <1>3, <2>3, <2>4
  <2>7. (x % 128) + 128 * y \in Nat /\ (x % 128) + 128 * y < VbiLimit  BY <2>5, <2>6, HornerTurn
  <2> QED  BY <2>2, <2>6, <2>7
<1> HIDE DEF Top
<1>8. PICK v : v = w[1]  OBVIOUS
<1>9. /\ n = 0 => v = 0
      /\ n = 1 => v \in Nat /\ v < 128
      /\ n = 2 => v \in Nat /\ v < Limit2
      /\ n = 3 => v \in Nat /\ v < Limit3
      /\ n = 4 => v \in Nat /\ v < VbiLimit
  BY <1>2, <1>4, <1>5, <1>6, <1>7, <1>8 DEF Top
<1>10. v \in Nat /\ v < VbiLimit  BY <1>9, Limits
<1>11. VbiLength(v) = IF v < 128 THEN 1 ELSE IF v < Limit2 THEN 2
                      ELSE IF v < Limit3 THEN 3 ELSE 4
  BY <1>10, VbiLengthIs
<1>12. (n # 0 => VbiLength(v) \in 1..n) /\ (n = 0 => VbiLength(v) = 1)
  BY <1>9, <1>10, <1>11, Limits
<1> QED  BY <1>8, <1>10, <1>12

(* The bytes of an integer of variable length against those of its value:  *)
(* three too many at most, and one too few if there were none.             *)
LEMMA ReadVbiIs ==
  ASSUME NEW b \in Digits, NEW r, r = ReadVbi(b), r.st = "ok"
  PROVE  /\ r.v \in Nat /\ r.v < VbiLimit
         /\ \E n \in 0..Len(b) : Took(r, b, n) /\ (n = 0 => b = <<>>)
                                 /\ n - VbiLength(r.v) \in (IF b = <<>> THEN -1 ELSE 0)..3
<1>1. PICK last : last = {i \in DOMAIN b : b[i] < 128}  OBVIOUS
<1>2. PICK n : n = IF last = {} THEN Len(b) ELSE Min(last)  OBVIOUS
<1>3. n \in 0..Len(b) /\ (n = 0 => b = <<>>)
  <2>1. CASE last = {}  BY <1>2, <2>1 DEF Digits
  <2>2. CASE last # {}
    <3>1. last \subseteq 1..Len(b) /\ last \subseteq Nat  BY <1>1 DEF Digits
    <3>2. \E x \in last : \A y \in last : x <= y  BY <2>2, <3>1, Least
    <3>3. Min(last) \in last  BY <3>2 DEF Min
    <3>4. n = Min(last)  BY <1>2, <2>2
    <3>5. n \in last  BY <3>3, <3>4, Zenon
    <3>6. n \in 1..Len(b)  BY <3>1, <3>5
    <3>7. Len(b) \in Nat  BY DEF Digits
    <3> QED  BY <3>6, <3>7
  <2> QED  BY <2>1, <2>2
<1> DEFINE w == CHOOSE w : w = [i \in 1..(n + 1) |->
                                  IF i = n + 1 THEN 0 ELSE (b[i] % 128) + 128 * w[i + 1]]
<1>4. r = IF n > 4 THEN Failed("wild") ELSE Read(w[1], n, b)  BY <1>1, <1>2 DEF ReadVbi
<1>5. n <= 4
  <2>1. SUFFICES ASSUME ~(n <= 4) PROVE FALSE  OBVIOUS
  <2>2. n > 4  BY <1>3, <2>1
  <2>3. r = Failed("wild")  BY <1>4, <2>2
  <2> QED  BY <2>3, FailedIs
<1>6. n \in 0..4 /\ n <= Len(b) /\ ~(n > 4)  BY <1>3, <1>5
<1>7. Horner(b, n, w)  BY <1>6, HornerExists DEF Horner
<1>8. PICK v : v = w[1]  OBVIOUS
<1>9. v \in Nat /\ v < VbiLimit /\ (n # 0 => VbiLength(v) \in 1..n) /\ (n = 0 => VbiLength(v) = 1)
  BY <1>6, <1>7, <1>8, HornerBound
<1>10. r = Read(v, n, b)  BY <1>4, <1>6, <1>8
<1>11. Read(v, n, b).v = v /\ Took(Read(v, n, b), b, n)  BY <1>3, ReadTook
<1>12. n - VbiLength(v) \in (IF b = <<>> THEN -1 ELSE 0)..3
  <2>1. b = <<>> => n = 0  BY <1>3
  <2> QED  BY <1>3, <1>6, <1>9, <2>1
<1> QED  BY <1>3, <1>9, <1>10, <1>11, <1>12

(* __property_parse: a property and the bytes it counts, against those it  *)
(* takes when it is written.                                               *)
Result(r) == r = [st |-> r.st, v |-> r.v, len |-> r.len, b |-> r.b]

LEMMA Results ==
  /\ \A v, n, b : Result(Read(v, n, b))
  /\ \A st : Result(Failed(st))
BY DEF Result, Read, Failed

LEMMA ReadResults ==
  ASSUME NEW b
  PROVE  Result(ReadU8(b)) /\ Result(ReadU16(b)) /\ Result(ReadUtf(b)) /\ Result(ReadVbi(b))
<1>1. Result(ReadU8(b))  BY Results DEF ReadU8
<1>2. Result(ReadU16(b))  BY Results DEF ReadU16
<1>3. Result(ReadUtf(b))  BY Results, Zenon DEF ReadUtf
<1>4. Result(ReadVbi(b))  BY Results, Zenon DEF ReadVbi
<1> QED  BY <1>1, <1>2, <1>3, <1>4

LEMMA AsIs ==
  ASSUME NEW r, Result(r), NEW p, NEW q, q = As(r, p), q.st = "ok"
  PROVE  r.st = "ok" /\ q.v = p /\ q.len = r.len + 1 /\ q.b = r.b
<1>1. r.st = "ok"  BY DEF As
<1>2. q = [r EXCEPT !.v = p, !.len = r.len + 1]  BY <1>1 DEF As
<1> QED  BY <1>1, <1>2 DEF Result

FullString(p) ==
  /\ p.code \in TextProperties => p.text # <<>>
  /\ p.code \in PairProperties => p.pair[1] # <<>> /\ p.pair[2] # <<>>

Over(p, n, b) ==
  n - (ValueLength(p) + 1) \in
    IF p.code \in VbiProperties THEN (IF b = <<>> THEN -1 ELSE 0)..3 ELSE {0}

ReadAs(r, b) ==
  /\ r.v \in PropertyOf(Nat) /\ r.b \in Digits /\ Len(r.b) < Len(b) /\ r.len \in Nat
  /\ FullString(r.v) => Over(r.v, r.len, r.b)

LEMMA ReadIsAs ==
  ASSUME NEW b \in Digits, NEW rest \in Digits, Len(rest) + 1 = Len(b),
         NEW x, Result(x), NEW p, NEW r, r = As(x, p), r.st = "ok",
         p \in PropertyOf(Nat), p.code \notin VbiProperties,
         NEW n \in 0..Len(rest), Took(x, rest, n),
         FullString(p) => n = ValueLength(p)
  PROVE  ReadAs(r, b)
<1>1. r.v = p /\ r.len = x.len + 1 /\ r.b = x.b  BY AsIs
<1>2. x.b \in Digits /\ Len(x.b) = Len(rest) - n /\ x.len = n  BY DEF Took
<1>3. Len(rest) \in Nat /\ Len(b) \in Nat  BY DEF Digits
<1>4. Len(r.b) < Len(b) /\ r.len \in Nat  BY <1>1, <1>2, <1>3
<1>5. FullString(p) => r.len - (ValueLength(p) + 1) = 0  BY <1>1, <1>2
<1>6. FullString(p) => Over(p, r.len, r.b)  BY <1>5 DEF Over
<1> QED  BY <1>1, <1>2, <1>4, <1>6 DEF ReadAs

LEMMA ReadPropertyIs ==
  ASSUME NEW b \in Digits, NEW r, r = ReadProperty(b), r.st = "ok"
  PROVE  b # <<>> /\ ReadAs(r, b)
<1>1. b # <<>>
  <2>1. SUFFICES ASSUME b = <<>> PROVE FALSE  OBVIOUS
  <2>2. r = Failed("bad")  BY <2>1 DEF ReadProperty
  <2> QED  BY <2>2, FailedIs
<1>2. PICK c, rest : c = b[1] /\ rest = Tail(b)  OBVIOUS
<1>3. c \in Nat /\ rest \in Digits /\ Len(rest) + 1 = Len(b) /\ Len(rest) \in Nat
  BY <1>1, <1>2 DEF Digits
<1>4. c \in 0..LastProperty
  <2>1. SUFFICES ASSUME c > LastProperty PROVE FALSE  BY <1>3 DEF LastProperty
  <2>2. c \notin 0..LastProperty  BY <1>3, <2>1 DEF LastProperty
  <2>3. /\ c \notin ByteProperties /\ c \notin WordProperties /\ c \notin LongProperties
        /\ c \notin VbiProperties /\ c \notin TextProperties /\ c \notin PairProperties
    BY <2>2, Codes
  <2>4. r = Failed("wild")  BY <1>1, <1>2, <2>1, <2>3 DEF ReadProperty
  <2> QED  BY <2>4, FailedIs
<1>5. ~(c > LastProperty)  BY <1>4 DEF LastProperty
<1>6. CASE FormOf(c) = "byte"
  <2>1. c \in ByteProperties /\ c \notin WordProperties /\ c \notin LongProperties
        /\ c \notin VbiProperties /\ c \notin TextProperties /\ c \notin PairProperties
    BY <1>4, <1>6, Forms
  <2>2. r = IF Len(rest) < 1 THEN Failed("bad") ELSE As(ReadU8(rest), [code |-> c, int |-> ReadU8(rest).v])
    BY <1>1, <1>2, <1>5, <2>1 DEF ReadProperty
  <2>3. ~(Len(rest) < 1)
    <3>1. SUFFICES ASSUME Len(rest) < 1 PROVE FALSE  OBVIOUS
    <3>2. r = Failed("bad")  BY <2>2, <3>1
    <3> QED  BY <3>2, FailedIs
  <2>4. PICK x, p : x = ReadU8(rest) /\ p = [code |-> c, int |-> x.v]  OBVIOUS
  <2>5. r = As(x, p) /\ Result(x)  BY <2>2, <2>3, <2>4, ReadResults
  <2>6. x.st = "ok"  BY <2>5, AsIs
  <2>7. Took(x, rest, 1) /\ x.v \in Nat  BY <1>3, <2>4, <2>6, ReadU8Is
  <2>8. p \in PropertyOf(Nat) /\ p.code = c  BY <2>1, <2>4, <2>7 DEF PropertyOf
  <2>9. ValueLength(p) = 1  BY <2>1, <2>8 DEF ValueLength
  <2>10. PICK n : n = 1  OBVIOUS
  <2>11. n \in 0..Len(rest) /\ Took(x, rest, n) /\ n = ValueLength(p)
    BY <1>3, <2>3, <2>7, <2>9, <2>10
  <2> QED  BY <1>1, <1>3, <2>1, <2>5, <2>8, <2>11, ReadIsAs
<1>7. CASE FormOf(c) = "word"
  <2>1. c \notin ByteProperties /\ c \in WordProperties /\ c \notin LongProperties
        /\ c \notin VbiProperties /\ c \notin TextProperties /\ c \notin PairProperties
    BY <1>4, <1>7, Forms
  <2>2. r = IF Len(rest) < 2 THEN Failed("bad") ELSE As(ReadU16(rest), [code |-> c, int |-> ReadU16(rest).v])
    BY <1>1, <1>2, <1>5, <2>1 DEF ReadProperty
  <2>3. ~(Len(rest) < 2)
    <3>1. SUFFICES ASSUME Len(rest) < 2 PROVE FALSE  OBVIOUS
    <3>2. r = Failed("bad")  BY <2>2, <3>1
    <3> QED  BY <3>2, FailedIs
  <2>4. PICK x, p : x = ReadU16(rest) /\ p = [code |-> c, int |-> x.v]  OBVIOUS
  <2>5. r = As(x, p) /\ Result(x)  BY <2>2, <2>3, <2>4, ReadResults
  <2>6. Len(rest) >= 2  BY <1>3, <2>3
  <2>7. Took(x, rest, 2) /\ x.v \in Nat  BY <1>3, <2>4, <2>6, ReadU16Is
  <2>8. p \in PropertyOf(Nat) /\ p.code = c  BY <2>1, <2>4, <2>7 DEF PropertyOf
  <2>9. ValueLength(p) = 2  BY <2>1, <2>8 DEF ValueLength
  <2>10. PICK n : n = 2  OBVIOUS
  <2>11. n \in 0..Len(rest) /\ Took(x, rest, n) /\ n = ValueLength(p)
    BY <1>3, <2>3, <2>7, <2>9, <2>10
  <2> QED  BY <1>1, <1>3, <2>1, <2>5, <2>8, <2>11, ReadIsAs
<1>8. CASE FormOf(c) = "long"
  <2>1. c \notin ByteProperties /\ c \notin WordProperties /\ c \in LongProperties
        /\ c \notin VbiProperties /\ c \notin TextProperties /\ c \notin PairProperties
    BY <1>4, <1>8, Forms
  <2>0. PICK hi, lo : hi = ReadU16(rest) /\ lo = ReadU16(hi.b)  OBVIOUS
  <2>2. r = IF Len(rest) < 4 THEN Failed("bad")
            ELSE As([lo EXCEPT !.len = 4], [code |-> c, long |-> <<hi.v, lo.v>>])
    BY <1>1, <1>2, <1>5, <2>0, <2>1 DEF ReadProperty
  <2>3. ~(Len(rest) < 4)
    <3>1. SUFFICES ASSUME Len(rest) < 4 PROVE FALSE  OBVIOUS
    <3>2. r = Failed("bad")  BY <2>2, <3>1
    <3> QED  BY <3>2, FailedIs
  <2>4. Took(hi, rest, 2) /\ hi.v \in Nat
    <3>1. Len(rest) >= 2  BY <1>3, <2>3
    <3> QED  BY <1>3, <2>0, <3>1, ReadU16Is
  <2>5. hi.b \in Digits /\ Len(hi.b) = Len(rest) - 2  BY <2>4 DEF Took
  <2>6. lo.st = "ok" /\ Took(lo, hi.b, 2) /\ lo.v \in Nat /\ Result(lo)
    <3>1. Len(hi.b) >= 2  BY <1>3, <2>3, <2>5
    <3> QED  BY <2>0, <2>5, <3>1, ReadU16Is, ReadResults
  <2>7. PICK x, p : x = [lo EXCEPT !.len = 4] /\ p = [code |-> c, long |-> <<hi.v, lo.v>>]
    OBVIOUS
  <2>8. r = As(x, p)  BY <2>2, <2>3, <2>7
  <2>9. Result(x) /\ x.b = lo.b /\ x.len = 4  BY <2>6, <2>7 DEF Result
  <2>10. PICK n : n = 4  OBVIOUS
  <2>11. n \in 0..Len(rest) /\ Took(x, rest, n)
    BY <1>3, <2>3, <2>5, <2>6, <2>9, <2>10 DEF Took
  <2>12. p \in PropertyOf(Nat) /\ p.code = c  BY <2>1, <2>4, <2>6, <2>7 DEF PropertyOf
  <2>13. ValueLength(p) = 4  BY <2>1, <2>12 DEF ValueLength
  <2> QED  BY <1>1, <1>3, <2>1, <2>8, <2>9, <2>10, <2>11, <2>12, <2>13, ReadIsAs
<1>9. CASE FormOf(c) = "text"
  <2>1. c \notin ByteProperties /\ c \notin WordProperties /\ c \notin LongProperties
        /\ c \notin VbiProperties /\ c \in TextProperties /\ c \notin PairProperties
    BY <1>4, <1>9, Forms
  <2>2. PICK x, p : x = ReadUtf(rest) /\ p = [code |-> c, text |-> x.v]  OBVIOUS
  <2>3. r = As(x, p) /\ Result(x)
    BY <1>1, <1>2, <1>5, <2>1, <2>2, ReadResults DEF ReadProperty
  <2>4. x.st = "ok"  BY <2>3, AsIs
  <2>5. x.v \in Digits /\ \E n \in 0..Len(rest) : Took(x, rest, n) /\ (x.v # <<>> => n = Len(x.v) + 2)
    BY <1>3, <2>2, <2>4, ReadUtfIs
  <2>6. PICK n \in 0..Len(rest) : Took(x, rest, n) /\ (x.v # <<>> => n = Len(x.v) + 2)
    BY <2>5
  <2>7. p \in PropertyOf(Nat) /\ p.code = c /\ p.text = x.v
    BY <2>1, <2>2, <2>5 DEF PropertyOf, Digits
  <2>8. ValueLength(p) = 2 + Len(p.text)  BY <2>1, <2>7 DEF ValueLength
  <2>9. FullString(p) => n = ValueLength(p)
    <3>1. Len(x.v) \in Nat  BY <2>5 DEF Digits
    <3> QED  BY <2>1, <2>6, <2>7, <2>8, <3>1 DEF FullString
  <2> QED  BY <1>1, <1>3, <2>1, <2>3, <2>6, <2>7, <2>9, ReadIsAs
<1>10. CASE FormOf(c) = "pair"
  <2>1. c \notin ByteProperties /\ c \notin WordProperties /\ c \notin LongProperties
        /\ c \notin VbiProperties /\ c \notin TextProperties /\ c \in PairProperties
    BY <1>4, <1>10, Forms
  <2>2. PICK x, y : x = ReadUtf(rest) /\ y = ReadUtf(x.b)  OBVIOUS
  <2>3. PICK z, p : z = [y EXCEPT !.len = @ + x.len] /\ p = [code |-> c, pair |-> <<x.v, y.v>>]
    OBVIOUS
  <2>4. r = IF x.st # "ok" THEN x ELSE As(z, p)
    BY <1>1, <1>2, <1>5, <2>1, <2>2, <2>3 DEF ReadProperty
  <2>5. x.st = "ok" /\ r = As(z, p)  BY <2>4
  <2>6. Result(y)  BY <2>2, ReadResults
  <2>7. Result(z) /\ z.st = y.st /\ z.b = y.b /\ z.len = y.len + x.len
    BY <2>3, <2>6 DEF Result
  <2>8. y.st = "ok"  BY <2>5, <2>7, AsIs
  <2>9. x.v \in Digits /\ \E n \in 0..Len(rest) : Took(x, rest, n) /\ (x.v # <<>> => n = Len(x.v) + 2)
    BY <1>3, <2>2, <2>5, ReadUtfIs
  <2>10. PICK m \in 0..Len(rest) : Took(x, rest, m) /\ (x.v # <<>> => m = Len(x.v) + 2)
    BY <2>9
  <2>11. x.b \in Digits /\ Len(x.b) = Len(rest) - m /\ x.len = m  BY <2>10 DEF Took
  <2>12. y.v \in Digits /\ \E n \in 0..Len(x.b) : Took(y, x.b, n) /\ (y.v # <<>> => n = Len(y.v) + 2)
    BY <2>2, <2>8, <2>11, ReadUtfIs
  <2>13. PICK k \in 0..Len(x.b) : Took(y, x.b, k) /\ (y.v # <<>> => k = Len(y.v) + 2)
    BY <2>12
  <2>14. y.b \in Digits /\ Len(y.b) = Len(x.b) - k /\ y.len = k  BY <2>13 DEF Took
  <2>15. PICK n : n = k + m  OBVIOUS
  <2>16. n \in 0..Len(rest) /\ Took(z, rest, n)
    <3>1. n \in 0..Len(rest) /\ Len(z.b) = Len(rest) - n /\ z.len = n /\ z.b \in Digits
      BY <1>3, <2>7, <2>11, <2>14, <2>15
    <3> QED  BY <3>1 DEF Took
  <2>17. p \in PropertyOf(Nat) /\ p.code = c /\ p.pair[1] = x.v /\ p.pair[2] = y.v
    BY <2>1, <2>3, <2>9, <2>12 DEF PropertyOf, Digits
  <2>18. ValueLength(p) = 4 + Len(x.v) + Len(y.v)  BY <2>1, <2>17 DEF ValueLength
  <2>19. FullString(p) => n = ValueLength(p)
    <3>1. PICK i, j : i = Len(x.v) /\ j = Len(y.v)  OBVIOUS
    <3>2. i \in Nat /\ j \in Nat  BY <2>9, <2>12, <3>1 DEF Digits
    <3>3. FullString(p) => m = i + 2 /\ k = j + 2
      BY <2>1, <2>10, <2>13, <2>17, <3>1 DEF FullString
    <3>4. ValueLength(p) = 4 + i + j  BY <2>18, <3>1
    <3>5. (j + 2) + (i + 2) = 4 + i + j  BY <3>2
    <3> QED  BY <2>15, <3>3, <3>4, <3>5, Zenon
  <2> QED  BY <1>1, <1>3, <2>1, <2>5, <2>7, <2>16, <2>17, <2>19, ReadIsAs
<1>11. CASE FormOf(c) = "vbi"
  <2>1. c \notin ByteProperties /\ c \notin WordProperties /\ c \notin LongProperties
        /\ c \in VbiProperties /\ c \notin TextProperties /\ c \notin PairProperties
    BY <1>4, <1>11, Forms
  <2>2. PICK x, p : x = ReadVbi(rest) /\ p = [code |-> c, int |-> x.v]  OBVIOUS
  <2>3. r = As(x, p) /\ Result(x)
    BY <1>1, <1>2, <1>5, <2>1, <2>2, ReadResults DEF ReadProperty
  <2>4. x.st = "ok" /\ r.v = p /\ r.len = x.len + 1 /\ r.b = x.b  BY <2>3, AsIs
  <2>5. /\ x.v \in Nat /\ x.v < VbiLimit
        /\ \E n \in 0..Len(rest) : Took(x, rest, n) /\ (n = 0 => rest = <<>>)
             /\ n - VbiLength(x.v) \in (IF rest = <<>> THEN -1 ELSE 0)..3
    BY <1>3, <2>2, <2>4, ReadVbiIs
  <2>6. PICK n \in 0..Len(rest) : Took(x, rest, n)
             /\ n - VbiLength(x.v) \in (IF rest = <<>> THEN -1 ELSE 0)..3
    BY <2>5
  <2>7. x.v \in 0..(VbiLimit - 1)  BY <2>5, Limits
  <2>8. p \in PropertyOf(Nat) /\ p.code = c /\ p.int = x.v  BY <2>1, <2>2, <2>7 DEF PropertyOf
  <2>9. ValueLength(p) = VbiLength(x.v)  BY <2>1, <2>8 DEF ValueLength
  <2>10. x.b \in Digits /\ Len(x.b) = Len(rest) - n /\ x.len = n  BY <2>6 DEF Took
  <2>11. rest = <<>> => x.b = <<>>
    <3>1. SUFFICES ASSUME rest = <<>> PROVE x.b = <<>>  OBVIOUS
    <3>2. Len(x.b) = 0  BY <1>3, <2>10, <3>1
    <3> QED  BY <2>10, <3>2 DEF Digits
  <2>12. VbiLength(x.v) \in Nat  BY <2>5, VbiLengthIs
  <2>13. r.len - (ValueLength(p) + 1) \in (IF x.b = <<>> THEN -1 ELSE 0)..3
    BY <2>4, <2>6, <2>9, <2>10, <2>11, <2>12
  <2>14. Over(p, r.len, r.b)  BY <2>1, <2>4, <2>8, <2>13 DEF Over
  <2>15. Len(r.b) < Len(b) /\ r.len \in Nat  BY <1>3, <2>4, <2>6, <2>10
  <2> QED  BY <1>1, <2>4, <2>8, <2>10, <2>14, <2>15 DEF ReadAs
<1>12. FormOf(c) \in {"byte", "word", "long", "vbi", "text", "pair"}  BY DEF FormOf
<1> QED  BY <1>6, <1>7, <1>8, <1>9, <1>10, <1>11, <1>12

(* __properties_parse: a list as it is read.                               *)
VbisOf(list) == [i \in DOMAIN list |-> If(list[i].code \in VbiProperties, 1)]

LEMMA VbisAre ==
  ASSUME NEW S, NEW list \in Seq(S)
  PROVE  /\ VbisOf(list) \in Seq(Nat) /\ Len(VbisOf(list)) = Len(list)
         /\ \A i \in 1..Len(list) : VbisOf(list)[i] = If(list[i].code \in VbiProperties, 1)
<1>1. DOMAIN list = 1..Len(list) /\ Len(list) \in Nat  OBVIOUS
<1>2. VbisOf(list) = [i \in 1..Len(list) |-> If(list[i].code \in VbiProperties, 1)]
  BY <1>1 DEF VbisOf
<1>3. \A i \in 1..Len(list) : If(list[i].code \in VbiProperties, 1) \in Nat  BY DEF If
<1> QED  BY <1>1, <1>2, <1>3

LEMMA HeadedIs ==
  ASSUME NEW S, NEW x \in S, NEW s \in Seq(S), NEW t, t = <<x>> \o s
  PROVE  /\ t \in Seq(S) /\ Len(t) = Len(s) + 1 /\ t[1] = x
         /\ \A j \in 1..Len(s) : t[j + 1] = s[j]
<1>1. /\ <<x>> \o s \in Seq(S) /\ Len(<<x>> \o s) = Len(s) + 1 /\ (<<x>> \o s)[1] = x
      /\ \A j \in 1..Len(s) : (<<x>> \o s)[j + 1] = s[j]
  BY Headed
<1> QED  BY <1>1, Zenon

LEMMA VbisOfHeaded ==
  ASSUME NEW S, NEW p \in S, NEW list \in Seq(S)
  PROVE  /\ Sum(VbisOf(<<p>> \o list)) = If(p.code \in VbiProperties, 1) + Sum(VbisOf(list))
         /\ Sum(VbisOf(list)) \in Nat
<1>1. PICK l, x : l = <<p>> \o list /\ x = If(p.code \in VbiProperties, 1)  OBVIOUS
<1>2. /\ l \in Seq(S) /\ Len(l) = Len(list) + 1 /\ l[1] = p
      /\ \A j \in 1..Len(list) : l[j + 1] = list[j]
  BY <1>1, HeadedIs
<1>3. PICK u, v : u = VbisOf(l) /\ v = VbisOf(list)  OBVIOUS
<1>4. /\ u \in Seq(Nat) /\ Len(u) = Len(l)
      /\ \A i \in 1..Len(l) : u[i] = If(l[i].code \in VbiProperties, 1)
  BY <1>2, <1>3, VbisAre, Zenon
<1>5. /\ v \in Seq(Nat) /\ Len(v) = Len(list)
      /\ \A i \in 1..Len(list) : v[i] = If(list[i].code \in VbiProperties, 1)
  BY <1>3, VbisAre, Zenon
<1>6. x \in Nat  BY <1>1 DEF If
<1>7. PICK w : w = <<x>> \o v  OBVIOUS
<1>8. /\ w \in Seq(Nat) /\ Len(w) = Len(v) + 1 /\ w[1] = x
      /\ \A j \in 1..Len(v) : w[j + 1] = v[j]
  BY <1>5, <1>6, <1>7, HeadedIs
<1>9. ASSUME NEW i \in 1..Len(u) PROVE u[i] = w[i]
  <2>1. i \in 1..Len(l) /\ Len(list) \in Nat /\ i \in Nat  BY <1>4
  <2>2. u[i] = If(l[i].code \in VbiProperties, 1)  BY <1>4, <2>1
  <2>3. CASE i = 1  BY <1>1, <1>2, <1>8, <2>2, <2>3
  <2>4. CASE i # 1
    <3>1. PICK j : j = i - 1  OBVIOUS
    <3>2. j \in 1..Len(list) /\ j + 1 = i  BY <1>2, <2>1, <2>4, <3>1
    <3>3. l[i] = list[j] /\ w[i] = v[j]  BY <1>2, <1>5, <1>8, <3>2
    <3> QED  BY <1>5, <2>2, <3>2, <3>3
  <2> QED  BY <2>3, <2>4
<1>10. Len(u) = Len(w)  BY <1>2, <1>4, <1>5, <1>8
<1>11. u = w  BY <1>4, <1>8, <1>9, <1>10, SeqEqual
<1>12. v \in Seq(Int) /\ <<x>> \in Seq(Int) /\ x \in Int  BY <1>5, <1>6
<1>13. Sum(w) = Sum(<<x>>) + Sum(v)  BY <1>7, <1>12, SumOfConcat
<1>14. Sum(<<x>>) = x  BY <1>12, SumOfOne
<1>15. Sum(v) \in Nat  BY <1>5, SumIsNat
<1> QED  BY <1>1, <1>3, <1>11, <1>13, <1>14, <1>15, Zenon

LEMMA SizesOfHeaded ==
  ASSUME NEW p \in PropertyOf(Nat), NEW list \in Seq(PropertyOf(Nat))
  PROVE  /\ Sum(Sizes(<<p>> \o list)) = Sum(Sizes(list)) + (ValueLength(p) + 1)
         /\ ValueLength(p) \in Nat /\ Sum(Sizes(list)) \in Nat
         /\ <<p>> \o list \in Seq(PropertyOf(Nat))
<1>0. Byte \subseteq Nat  BY DEF Byte
<1>1. PICK ps, new : ps = [list |-> list, length |-> 0] /\ new = PropertiesAdd(ps, p)  OBVIOUS
<1>2. ps.list = list /\ ps \in PropertyList(Nat)  BY <1>1 DEF PropertyList
<1>3. new \in PropertyList(Nat) /\ Bytes(new) = Bytes(ps) + (ValueLength(p) + 1)
  BY <1>0, <1>1, <1>2, BytesOfAdd
<1>4. new.list = <<p>> \o list  BY <1>1, <1>2 DEF PropertiesAdd
<1>5. <<p>> \o list \in Seq(PropertyOf(Nat))  BY <1>3, <1>4 DEF PropertyList
<1>6. Bytes(new) = Sum(Sizes(<<p>> \o list))  BY <1>0, <1>4, <1>5, BytesAre
<1>7. Bytes(ps) = Sum(Sizes(list)) /\ Bytes(ps) \in Nat  BY <1>0, <1>2, BytesAre
<1>8. ValueLength(p) \in Nat  BY <1>0, PropertyBytesAre
<1> QED  BY <1>3, <1>5, <1>6, <1>7, <1>8

FullList(list) == \A i \in DOMAIN list : FullString(list[i])

(* How far the bytes counted may be from the bytes of the list.            *)
Slack(v, d, b) == d \in IF v = 0 THEN {0} ELSE (IF b = <<>> THEN -1 ELSE 0)..(3 * v)

LEMMA SlackTurn ==
  ASSUME NEW v \in Nat, NEW d \in Int, NEW b, b # <<>>, Slack(v, d, b),
         NEW p, NEW n \in Nat, NEW rest, ValueLength(p) \in Nat, Over(p, n, rest)
  PROVE  Slack(If(p.code \in VbiProperties, 1) + v, d + (n - (ValueLength(p) + 1)), rest)
<1>1. d \in 0..(3 * v)  BY DEF Slack
<1>2. PICK e : e = n - (ValueLength(p) + 1)  OBVIOUS
<1>3. CASE p.code \in VbiProperties
  <2>1. e \in (IF rest = <<>> THEN -1 ELSE 0)..3  BY <1>2, <1>3 DEF Over
  <2>2. d + e \in (IF rest = <<>> THEN -1 ELSE 0)..(3 * (1 + v))  BY <1>1, <2>1
  <2>3. 1 + v # 0  OBVIOUS
  <2> QED  BY <1>2, <1>3, <2>2, <2>3 DEF Slack, If
<1>4. CASE p.code \notin VbiProperties
  <2>1. e = 0  BY <1>2, <1>4 DEF Over
  <2>2. d + e = d /\ 0 + v = v  BY <1>1, <2>1
  <2>3. Slack(v, d, rest)
    <3>1. v = 0 => d = 0  BY <1>1
    <3>2. d \in (IF rest = <<>> THEN -1 ELSE 0)..(3 * v)  BY <1>1
    <3> QED  BY <3>1, <3>2 DEF Slack
  <2> QED  BY <1>2, <1>4, <2>2, <2>3 DEF If
<1> QED  BY <1>3, <1>4

(* After k turns of the loop over `length' bytes of b.                     *)
Looped(a, length, b, k) ==
  a.st = "ok" =>
    /\ a = [st |-> a.st, list |-> a.list, left |-> a.left, b |-> a.b]
    /\ a.list \in Seq(PropertyOf(Nat)) /\ a.left \in Int /\ a.b \in Digits
    /\ FullList(a.list) =>
         Slack(Sum(VbisOf(a.list)), (length - a.left) - Sum(Sizes(a.list)), a.b)
    /\ a.left = 0 \/ Len(a.b) + k <= Len(b)

LEMMA LoopBegins ==
  ASSUME NEW length \in Nat, NEW b \in Digits
  PROVE  Looped([st |-> "ok", list |-> <<>>, left |-> length, b |-> b], length, b, 0)
<1>1. PICK list : list = <<>>  OBVIOUS
<1>2. list \in Seq(PropertyOf(Nat)) /\ DOMAIN list = {}  BY <1>1, EmptySeq
<1>3. VbisOf(list) = <<>> /\ Sizes(list) = <<>>  BY <1>2 DEF VbisOf, Sizes
<1>4. Sum(VbisOf(list)) = 0 /\ Sum(Sizes(list)) = 0  BY <1>3, SumOfNone
<1>5. Slack(0, 0, b)  BY DEF Slack
<1>6. (length - length) - 0 = 0 /\ Len(b) + 0 <= Len(b)  BY DEF Digits
<1>7. Slack(Sum(VbisOf(list)), (length - length) - Sum(Sizes(list)), b)
  BY <1>4, <1>5, <1>6, Zenon
<1>8. PICK a : a = [st |-> "ok", list |-> list, left |-> length, b |-> b]  OBVIOUS
<1>9. a.st = "ok" /\ a.list = list /\ a.left = length /\ a.b = b  BY <1>8
<1>10. Looped(a, length, b, 0)  BY <1>2, <1>6, <1>7, <1>8, <1>9 DEF Looped
<1> QED  BY <1>1, <1>8, <1>10

LEMMA LoopGoesOn ==
  ASSUME NEW length \in Nat, NEW b \in Digits, NEW k \in Nat, NEW a, Looped(a, length, b, k)
  PROVE  Looped(PropertyTurn(a), length, b, k + 1)
<1>1. CASE a.st # "ok"
  <2>1. PropertyTurn(a) = a  BY <1>1 DEF PropertyTurn
  <2> QED  BY <1>1, <2>1 DEF Looped
<1>2. CASE a.st = "ok" /\ a.left = 0
  <2>1. PropertyTurn(a) = a  BY <1>2 DEF PropertyTurn
  <2> QED  BY <1>2, <2>1 DEF Looped
<1>3. CASE a.st = "ok" /\ a.left # 0
  <2>1. /\ a = [st |-> a.st, list |-> a.list, left |-> a.left, b |-> a.b]
        /\ a.list \in Seq(PropertyOf(Nat)) /\ a.left \in Int /\ a.b \in Digits
        /\ FullList(a.list) =>
             Slack(Sum(VbisOf(a.list)), (length - a.left) - Sum(Sizes(a.list)), a.b)
        /\ Len(a.b) + k <= Len(b)
    BY <1>3 DEF Looped
  <2>2. PICK r, c : r = ReadProperty(a.b) /\ c = PropertyTurn(a)  OBVIOUS
  <2>3. c = IF r.st # "ok" THEN [a EXCEPT !.st = r.st]
            ELSE [a EXCEPT !.list = <<r.v>> \o @, !.left = @ - r.len, !.b = r.b]
    BY <1>3, <2>2 DEF PropertyTurn
  <2>4. CASE r.st # "ok"
    <3>1. c.st # "ok"  BY <2>1, <2>3, <2>4
    <3> QED  BY <2>2, <3>1 DEF Looped
  <2>5. CASE r.st = "ok"
    <3>1. a.b # <<>> /\ ReadAs(r, a.b)  BY <2>1, <2>2, <2>5, ReadPropertyIs
    <3>2. PICK p, n, list, left, x : /\ p = r.v /\ n = r.len /\ list = a.list /\ left = a.left
                                     /\ x = r.b
      OBVIOUS
    <3>3. /\ p \in PropertyOf(Nat) /\ x \in Digits /\ Len(x) < Len(a.b) /\ n \in Nat
          /\ FullString(p) => Over(p, n, x)
      BY <3>1, <3>2 DEF ReadAs
    <3>4. c = [st |-> "ok", list |-> <<p>> \o list, left |-> left - n, b |-> x]
      BY <1>3, <2>1, <2>3, <2>5, <3>2
    <3>5. PICK new : new = <<p>> \o list  OBVIOUS
    <3>6. /\ Sum(Sizes(new)) = Sum(Sizes(list)) + (ValueLength(p) + 1)
          /\ ValueLength(p) \in Nat /\ Sum(Sizes(list)) \in Nat
          /\ new \in Seq(PropertyOf(Nat))
      BY <2>1, <3>2, <3>3, <3>5, SizesOfHeaded
    <3>7. /\ Sum(VbisOf(new)) = If(p.code \in VbiProperties, 1) + Sum(VbisOf(list))
          /\ Sum(VbisOf(list)) \in Nat
      BY <2>1, <3>2, <3>3, <3>5, VbisOfHeaded, Zenon
    <3>8. FullList(new) => FullString(p) /\ FullList(list)
      <4>1. /\ Len(new) = Len(list) + 1 /\ new[1] = p
            /\ \A j \in 1..Len(list) : new[j + 1] = list[j]
        BY <2>1, <3>2, <3>3, <3>5, HeadedIs
      <4>2. SUFFICES ASSUME FullList(new) PROVE FullString(p) /\ FullList(list)  OBVIOUS
      <4>3. DOMAIN new = 1..Len(new) /\ DOMAIN list = 1..Len(list) /\ Len(list) \in Nat
        BY <2>1, <3>2, <3>6
      <4>4. 1 \in DOMAIN new  BY <4>1, <4>3
      <4>5. FullString(p)  BY <4>1, <4>2, <4>4, Zenon DEF FullList
      <4>6. ASSUME NEW j \in DOMAIN list PROVE FullString(list[j])
        <5>1. j + 1 \in DOMAIN new /\ j \in 1..Len(list)  BY <4>1, <4>3
        <5>2. FullString(new[j + 1])  BY <4>2, <5>1 DEF FullList
        <5>3. new[j + 1] = list[j]  BY <4>1, <5>1
        <5> QED  BY <5>2, <5>3
      <4> QED  BY <4>5, <4>6 DEF FullList
    <3>9. PICK d, e, s, t, l : /\ d = (length - left) - Sum(Sizes(list))
                               /\ e = (length - (left - n)) - Sum(Sizes(new))
                               /\ s = Sum(Sizes(list)) /\ t = Sum(Sizes(new)) /\ l = ValueLength(p)
      OBVIOUS
    <3>10. d \in Int /\ e = d + (n - (l + 1))
      <4>1. s \in Nat /\ l \in Nat /\ t = s + (l + 1)  BY <3>6, <3>9
      <4>2. left \in Int /\ n \in Nat  BY <2>1, <3>2, <3>3
      <4>3. d = (length - left) - s /\ e = (length - (left - n)) - t  BY <3>9
      <4> QED  BY <4>1, <4>2, <4>3
    <3>11. FullList(new) => Slack(Sum(VbisOf(new)), e, x)
      <4>1. SUFFICES ASSUME FullList(new) PROVE Slack(Sum(VbisOf(new)), e, x)  OBVIOUS
      <4>2. Slack(Sum(VbisOf(list)), d, a.b)  BY <2>1, <3>2, <3>8, <3>9, <4>1
      <4>3. Over(p, n, x)  BY <3>3, <3>8, <4>1
      <4>4. Slack(If(p.code \in VbiProperties, 1) + Sum(VbisOf(list)),
                  d + (n - (ValueLength(p) + 1)), x)
        BY <3>1, <3>3, <3>6, <3>7, <3>10, <4>2, <4>3, SlackTurn
      <4> QED  BY <3>7, <3>9, <3>10, <4>4
    <3>12. /\ c.st = "ok" /\ c.list = new /\ c.left = left - n /\ c.b = x
           /\ c = [st |-> c.st, list |-> c.list, left |-> c.left, b |-> c.b]
      BY <3>4, <3>5
    <3>13. left - n \in Int /\ Len(x) + (k + 1) <= Len(b)
      <4>1. Len(x) \in Nat /\ Len(a.b) \in Nat /\ Len(b) \in Nat  BY <2>1, <3>3 DEF Digits
      <4> QED  BY <2>1, <3>2, <3>3, <4>1
    <3>14. Looped(c, length, b, k + 1)
      BY <3>3, <3>6, <3>9, <3>11, <3>12, <3>13 DEF Looped
    <3> QED  BY <2>2, <3>14
  <2> QED  BY <2>4, <2>5
<1> QED  BY <1>1, <1>2, <1>3

TurnsTo(start, n, f) == f = [k \in 0..n |-> IF k = 0 THEN start ELSE PropertyTurn(f[k - 1])]

LEMMA TurnsExist ==
  ASSUME NEW start, NEW m \in Nat
  PROVE  \E f : TurnsTo(start, m, f)
<1> DEFINE S == {n \in Nat : \E f : TurnsTo(start, n, f)}
<1>1. 0 \in S
  <2>1. PICK f : f = [k \in 0..0 |-> start]  OBVIOUS
  <2>2. TurnsTo(start, 0, f)  BY <2>1 DEF TurnsTo
  <2> QED  BY <2>2
<1>2. ASSUME NEW n \in Nat, n \in S PROVE n + 1 \in S
  <2>1. PICK f : TurnsTo(start, n, f)  BY <1>2
  <2>2. PICK g : g = [k \in 0..(n + 1) |-> IF k <= n THEN f[k] ELSE PropertyTurn(f[n])]  OBVIOUS
  <2>3. ASSUME NEW k \in 0..(n + 1)
        PROVE  g[k] = IF k = 0 THEN start ELSE PropertyTurn(g[k - 1])
    <3>1. CASE k = 0  BY <2>1, <2>2, <3>1 DEF TurnsTo
    <3>2. CASE k # 0 /\ k <= n
      <4>1. k - 1 \in 0..n /\ k \in 0..n /\ k - 1 \in 0..(n + 1)  BY <3>2
      <4>2. f[k] = PropertyTurn(f[k - 1])  BY <2>1, <3>2, <4>1 DEF TurnsTo
      <4> QED  BY <2>2, <3>2, <4>1, <4>2
    <3>3. CASE k = n + 1
      <4>1. n \in 0..(n + 1) /\ k - 1 = n /\ ~(k <= n) /\ k # 0  BY <3>3
      <4> QED  BY <2>2, <3>3, <4>1
    <3> QED  BY <3>1, <3>2, <3>3
  <2>4. TurnsTo(start, n + 1, g)  BY <2>2, <2>3 DEF TurnsTo
  <2> QED  BY <2>4
<1> HIDE DEF S
<1>3. m \in S  BY <1>1, <1>2, Induction
<1> QED  BY <1>3 DEF S

(* The loop ends before it has taken a turn for each byte and one more.    *)
LEMMA LoopEnds ==
  ASSUME NEW length \in Nat, NEW b \in Digits, NEW a, a = PropertiesLoop(length, b), a.st = "ok"
  PROVE  /\ a.list \in Seq(PropertyOf(Nat)) /\ a.b \in Digits
         /\ FullList(a.list) => Slack(Sum(VbisOf(a.list)), length - Sum(Sizes(a.list)), a.b)
<1> DEFINE start == [st |-> "ok", list |-> <<>>, left |-> length, b |-> b]
           m == Len(b) + 1
           f == CHOOSE f : f = [k \in 0..m |-> IF k = 0 THEN start ELSE PropertyTurn(f[k - 1])]
<1>1. Len(b) \in Nat /\ m \in Nat  BY DEF Digits
<1>2. a = f[m]  BY DEF PropertiesLoop
<1>3. \E g : TurnsTo(start, m, g)  BY <1>1, TurnsExist
<1>4. TurnsTo(start, m, f)  BY <1>3 DEF TurnsTo
<1>5. Looped(start, length, b, 0)  BY LoopBegins
<1>6. PICK t, s0 : t = f /\ s0 = start  OBVIOUS
<1> HIDE DEF f, start
<1> DEFINE T == {k \in Nat : k <= m => Looped(t[k], length, b, k)}
<1>7. 0 \in T
  <2>1. 0 \in 0..m  BY <1>1
  <2>2. t[0] = s0  BY <1>4, <1>6, <2>1 DEF TurnsTo
  <2> QED  BY <1>5, <1>6, <2>2
<1>8. ASSUME NEW k \in Nat, k \in T PROVE k + 1 \in T
  <2> SUFFICES ASSUME k + 1 <= m PROVE Looped(t[k + 1], length, b, k + 1)  OBVIOUS
  <2>1. k <= m /\ k + 1 \in 0..m /\ k + 1 # 0 /\ (k + 1) - 1 = k  BY <1>1
  <2>2. t[k + 1] = PropertyTurn(t[k])  BY <1>4, <1>6, <2>1 DEF TurnsTo
  <2>3. Looped(t[k], length, b, k)  BY <1>8, <2>1
  <2> QED  BY <2>2, <2>3, LoopGoesOn
<1> HIDE DEF T
<1>9. m \in T  BY <1>1, <1>7, <1>8, Induction
<1>10. Looped(a, length, b, m)  BY <1>1, <1>2, <1>6, <1>9 DEF T
<1>11. /\ a.list \in Seq(PropertyOf(Nat)) /\ a.left \in Int /\ a.b \in Digits
       /\ FullList(a.list) =>
            Slack(Sum(VbisOf(a.list)), (length - a.left) - Sum(Sizes(a.list)), a.b)
       /\ a.left = 0 \/ Len(a.b) + m <= Len(b)
  BY <1>10 DEF Looped
<1>12. a.left = 0
  <2>1. PICK i, j : i = Len(a.b) /\ j = Len(b)  OBVIOUS
  <2>2. i \in Nat /\ j \in Nat  BY <1>1, <1>11, <2>1 DEF Digits
  <2>3. ~(i + (j + 1) <= j)  BY <2>2
  <2> QED  BY <1>11, <2>1, <2>3
<1>13. length - a.left = length  BY <1>12
<1> QED  BY <1>11, <1>13

Near(ps) ==
  ps.length - Bytes(ps) \in IF Vbis(ps) = 0 THEN {0} ELSE (-1)..(3 * Vbis(ps))

ReadLists == {ps \in PropertyList(Nat) : FullStrings(ps) => Near(ps)}

LEMMA SlackIsNear ==
  ASSUME NEW v \in Nat, NEW d \in Int, NEW b, Slack(v, d, b)
  PROVE  d \in IF v = 0 THEN {0} ELSE (-1)..(3 * v)
BY DEF Slack

LEMMA ReadPropertiesAre ==
  ASSUME NEW b \in Digits, NEW r, r = ReadProperties(b), r.st = "ok"
  PROVE  r.v \in ReadLists /\ r.b \in Digits
<1>1. PICK n : n = ReadVbi(b)  OBVIOUS
<1>2. PICK a : a = PropertiesLoop(n.v, n.b)  OBVIOUS
<1>3. r = IF n.st # "ok" THEN n
          ELSE IF Len(n.b) < n.v THEN Failed("bad")
          ELSE IF a.st # "ok" THEN Failed(a.st)
          ELSE Read([list |-> a.list, length |-> n.v], 0, a.b)
  BY <1>1, <1>2 DEF ReadProperties
<1>4. n.st = "ok"  BY <1>3
<1>5. ~(Len(n.b) < n.v)
  <2>1. SUFFICES ASSUME Len(n.b) < n.v PROVE FALSE  OBVIOUS
  <2>2. r = Failed("bad")  BY <1>3, <1>4, <2>1
  <2> QED  BY <2>2, FailedIs
<1>6. a.st = "ok"
  <2>1. SUFFICES ASSUME a.st # "ok" PROVE FALSE  OBVIOUS
  <2>2. r = Failed(a.st)  BY <1>3, <1>4, <1>5, <2>1
  <2> QED  BY <2>1, <2>2, FailedIs
<1>7. n.v \in Nat /\ \E k \in 0..Len(b) : Took(n, b, k)  BY <1>1, <1>4, ReadVbiIs
<1>8. n.b \in Digits  BY <1>7 DEF Took
<1>9. PICK list, length : list = a.list /\ length = n.v  OBVIOUS
<1>10. /\ list \in Seq(PropertyOf(Nat)) /\ a.b \in Digits /\ length \in Nat
       /\ FullList(list) => Slack(Sum(VbisOf(list)), length - Sum(Sizes(list)), a.b)
  BY <1>2, <1>6, <1>7, <1>8, <1>9, LoopEnds
<1>11. PICK ps : ps = [list |-> list, length |-> length]  OBVIOUS
<1>12. ps.list = list /\ ps.length = length /\ ps \in PropertyList(Nat)
  BY <1>10, <1>11 DEF PropertyList
<1>13. Byte \subseteq Nat  BY DEF Byte
<1>14. Bytes(ps) = Sum(Sizes(list)) /\ Bytes(ps) \in Nat  BY <1>10, <1>12, <1>13, BytesAre
<1>15. Vbis(ps) = Sum(VbisOf(list)) /\ Vbis(ps) \in Nat
  <2>1. Vbis(ps) = Sum(VbisOf(list))  BY <1>12 DEF Vbis, VbisOf
  <2>2. VbisOf(list) \in Seq(Nat)  BY <1>10, VbisAre
  <2> QED  BY <2>1, <2>2, SumIsNat
<1>16. FullStrings(ps) => FullList(list)  BY <1>12 DEF FullStrings, FullList, FullString
<1>17. FullStrings(ps) => Near(ps)
  <2>1. SUFFICES ASSUME FullStrings(ps) PROVE Near(ps)  OBVIOUS
  <2>2. PICK v, d : v = Vbis(ps) /\ d = ps.length - Bytes(ps)  OBVIOUS
  <2>3. v \in Nat /\ d \in Int  BY <1>10, <1>12, <1>14, <1>15, <2>2
  <2>4. Slack(v, d, a.b)  BY <1>10, <1>12, <1>14, <1>15, <1>16, <2>1, <2>2
  <2> QED  BY <2>2, <2>3, <2>4, SlackIsNear DEF Near
<1>18. ps \in ReadLists  BY <1>12, <1>17 DEF ReadLists
<1>19. r = Read(ps, 0, a.b)  BY <1>3, <1>4, <1>5, <1>6, <1>9, <1>11
<1>20. PICK z : z = 0  OBVIOUS
<1>21. z \in 0..Len(a.b)  BY <1>10, <1>20 DEF Digits
<1>22. Read(ps, z, a.b).v = ps /\ Took(Read(ps, z, a.b), a.b, z)  BY <1>10, <1>21, ReadTook
<1> QED  BY <1>18, <1>19, <1>20, <1>22 DEF Took
-----------------------------------------------------------------------------
(* The steps of a __parse_ function: every list of properties among the    *)
(* fields of a packet is one that __properties_parse has read.             *)
ListsRead(f) == \A field \in DOMAIN f \intersect PropertyNames : f[field] \in ReadLists

Reading(a) ==
  /\ a = [st |-> a.st, b |-> a.b, f |-> a.f, ver |-> a.ver]
  /\ a.b \in Digits /\ ListsRead(a.f)

FieldNames ==
  {"protocol_name", "protocol_version", "flags", "keep_alive", "client_id", "will_topic",
   "will_message", "username", "password", "code", "topic_name", "message", "packet_id", "codes",
   "filters", "topics"}

LEMMA NamesDiffer == \A field \in FieldNames : field \notin PropertyNames
BY DEF FieldNames, PropertyNames

Steps ==
  [op : {"need", "exactly"}, n : Nat] \union [op : {"check"}, ok : BOOLEAN]
    \union [op : {"notempty"}, field : FieldNames]
    \union [op : {"utf", "u8", "u16", "rest"}, field : FieldNames]
    \union [op : {"code", "codeifany"}, codes : SUBSET Nat] \union [op : {"version"}]
    \union [op : {"properties"}, field : PropertyNames, type : Nat, will : BOOLEAN]

LEMMA RequireReads ==
  ASSUME NEW a, Reading(a), NEW b
  PROVE  Reading(Require(a, b))
<1>1. CASE b  BY <1>1 DEF Require
<1>2. CASE ~b
  <2>1. PICK c : c = [a EXCEPT !.st = "bad"]  OBVIOUS
  <2>2. c = [st |-> "bad", b |-> a.b, f |-> a.f, ver |-> a.ver]  BY <2>1 DEF Reading
  <2>3. Reading(c)  BY <2>2 DEF Reading
  <2> QED  BY <1>2, <2>1, <2>3 DEF Require
<1> QED  BY <1>1, <1>2

LEMMA FieldKept ==
  ASSUME NEW f, ListsRead(f), NEW field, NEW v, field \in PropertyNames => v \in ReadLists
  PROVE  ListsRead([f EXCEPT ![field] = v])
BY DEF ListsRead

LEMMA AssignReads ==
  ASSUME NEW a, Reading(a), NEW field, NEW r,
         r.st = "ok" => r.b \in Digits /\ (field \in PropertyNames => r.v \in ReadLists)
  PROVE  Reading(Assign(a, field, r))
<1>1. CASE r.st # "ok"
  <2>1. PICK c : c = [a EXCEPT !.st = r.st]  OBVIOUS
  <2>2. c = [st |-> r.st, b |-> a.b, f |-> a.f, ver |-> a.ver]  BY <2>1 DEF Reading
  <2>3. Reading(c)  BY <2>2 DEF Reading
  <2> QED  BY <1>1, <2>1, <2>3 DEF Assign
<1>2. CASE r.st = "ok"
  <2>1. PICK g : g = [a.f EXCEPT ![field] = r.v]  OBVIOUS
  <2>2. ListsRead(g)  BY <1>2, <2>1, FieldKept DEF Reading
  <2>3. PICK c : c = Assign(a, field, r)  OBVIOUS
  <2>4. c = [st |-> a.st, b |-> r.b, f |-> g, ver |-> a.ver]
    BY <1>2, <2>1, <2>3 DEF Assign, Reading
  <2>5. Reading(c)  BY <1>2, <2>2, <2>4 DEF Reading
  <2> QED  BY <2>3, <2>5
<1> QED  BY <1>1, <1>2

(* A field is assigned even if the bytes left are not followed any more.   *)
LEMMA AssignKeepsLists ==
  ASSUME NEW a, Reading(a), NEW field \in FieldNames, NEW r
  PROVE  ListsRead(Assign(a, field, r).f)
<1>0. field \notin PropertyNames  BY NamesDiffer
<1>1. CASE r.st # "ok"  BY <1>1 DEF Assign, Reading
<1>2. CASE r.st = "ok"
  <2>1. PICK g : g = [a.f EXCEPT ![field] = r.v]  OBVIOUS
  <2>2. ListsRead(g)  BY <1>0, <2>1, FieldKept DEF Reading
  <2>3. Assign(a, field, r).f = g  BY <1>2, <2>1 DEF Assign, Reading
  <2> QED  BY <2>2, <2>3
<1> QED  BY <1>1, <1>2

LEMMA CodeReads ==
  ASSUME NEW a, Reading(a), NEW codes
  PROVE  Reading(Code(a, codes))
<1>1. PICK r : r = ReadU8(a.b)  OBVIOUS
<1>2. r.st = "ok" => r.b \in Digits  BY <1>1, ReadU8Is DEF Reading, Took
<1>3. "code" \notin PropertyNames  BY NamesDiffer DEF FieldNames
<1>4. Code(a, codes) \in {Require(a, FALSE), Assign(a, "code", r)}  BY <1>1 DEF Code
<1> QED  BY <1>2, <1>3, <1>4, RequireReads, AssignReads

LEMMA ActReads ==
  ASSUME NEW a, Reading(a), NEW s \in Steps
  PROVE  Reading(Act(a, s))
<1>0. a.b \in Digits  BY DEF Reading
<1>1. CASE s \in [op : {"need", "exactly"}, n : Nat] \union [op : {"check"}, ok : BOOLEAN]
             \union [op : {"notempty"}, field : FieldNames]
  <2>1. s.op \in {"need", "exactly", "check", "notempty"}  BY <1>1
  <2>2. Act(a, s) = ActPlain(a, s)  BY <2>1 DEF Act
  <2>3. \E b : ActPlain(a, s) = Require(a, b)  BY <2>1 DEF ActPlain
  <2> QED  BY <2>2, <2>3, RequireReads
<1>2. CASE s \in [op : {"utf", "u8", "u16", "rest"}, field : FieldNames]
  <2>1. s.field \notin PropertyNames  BY <1>2, NamesDiffer
  <2>2. CASE s.op = "utf"
    <3>1. PICK r : r = ReadUtf(a.b)  OBVIOUS
    <3>2. r.st = "ok" => r.b \in Digits  BY <1>0, <3>1, ReadUtfIs DEF Took
    <3>3. Act(a, s) = Assign(a, s.field, r)  BY <2>2, <3>1 DEF Act
    <3> QED  BY <2>1, <3>2, <3>3, AssignReads
  <2>3. CASE s.op = "u8"
    <3>1. PICK r : r = ReadU8(a.b)  OBVIOUS
    <3>2. r.st = "ok" => r.b \in Digits  BY <1>0, <3>1, ReadU8Is DEF Took
    <3>3. Act(a, s) = Assign(a, s.field, r)  BY <2>3, <3>1 DEF Act, ActPlain
    <3> QED  BY <2>1, <3>2, <3>3, AssignReads
  <2>4. CASE s.op = "u16"
    <3>1. PICK r : r = ReadU16(a.b)  OBVIOUS
    <3>2. r.st = "ok" => r.b \in Digits
      <4>1. SUFFICES ASSUME r.st = "ok" PROVE r.b \in Digits  OBVIOUS
      <4>2. Len(a.b) >= 2
        <5>1. SUFFICES ASSUME Len(a.b) < 2 PROVE FALSE  BY <1>0 DEF Digits
        <5>2. r = Failed("wild")  BY <3>1, <5>1 DEF ReadU16
        <5> QED  BY <4>1, <5>2, FailedIs
      <4> QED  BY <1>0, <3>1, <4>2, ReadU16Is DEF Took
    <3>3. Act(a, s) = Assign(a, s.field, r)  BY <2>4, <3>1 DEF Act, ActPlain
    <3> QED  BY <2>1, <3>2, <3>3, AssignReads
  <2>5. CASE s.op = "rest"
    <3>1. PICK n : n = Len(a.b)  OBVIOUS
    <3>2. PICK r : r = Read(a.b, n, a.b)  OBVIOUS
    <3>3. n \in 0..Len(a.b)  BY <1>0, <3>1 DEF Digits
    <3>4. r.b \in Digits  BY <1>0, <3>2, <3>3, ReadTook DEF Took
    <3>5. Act(a, s) = Assign(a, s.field, r)  BY <2>5, <3>1, <3>2 DEF Act, ActPlain
    <3> QED  BY <2>1, <3>4, <3>5, AssignReads
  <2> QED  BY <1>2, <2>2, <2>3, <2>4, <2>5
<1>3. CASE s \in [op : {"code", "codeifany"}, codes : SUBSET Nat]
  <2>1. Act(a, s) \in {a, Code(a, s.codes)}  BY <1>3 DEF Act, ActPlain
  <2> QED  BY <2>1, CodeReads
<1>4. CASE s \in [op : {"version"}]
  <2>1. PICK r, c : r = ReadU8(a.b) /\ c = Assign(a, "protocol_version", r)  OBVIOUS
  <2>2. r.st = "ok" => r.b \in Digits  BY <1>0, <2>1, ReadU8Is DEF Took
  <2>3. "protocol_version" \notin PropertyNames  BY NamesDiffer DEF FieldNames
  <2>4. Reading(c)  BY <2>1, <2>2, <2>3, AssignReads
  <2>5. PICK d : d = [c EXCEPT !.ver = r.v]  OBVIOUS
  <2>6. Act(a, s) = d  BY <1>4, <2>1, <2>5 DEF Act
  <2>7. d = [st |-> c.st, b |-> c.b, f |-> c.f, ver |-> r.v]  BY <2>4, <2>5 DEF Reading
  <2>8. Reading(d)  BY <2>4, <2>7 DEF Reading
  <2> QED  BY <2>6, <2>8
<1>5. CASE s \in [op : {"properties"}, field : PropertyNames, type : Nat, will : BOOLEAN]
  <2>1. PICK r : r = ReadProperties(a.b)  OBVIOUS
  <2>2. r.st = "ok" => r.b \in Digits /\ r.v \in ReadLists
    BY <1>0, <2>1, ReadPropertiesAre
  <2>3. Act(a, s) \in {Require(a, FALSE), Assign(a, s.field, r)}  BY <1>5, <2>1 DEF Act
  <2> QED  BY <2>2, <2>3, RequireReads, AssignReads
<1> QED  BY <1>1, <1>2, <1>3, <1>4, <1>5 DEF Steps

StepsTo(a, s, n, f) == f = [k \in 0..n |-> IF k = 0 THEN a ELSE Step(f[k - 1], s[k])]

LEMMA StepsExist ==
  ASSUME NEW a, NEW s, NEW m \in Nat
  PROVE  \E f : StepsTo(a, s, m, f)
<1> DEFINE S == {n \in Nat : \E f : StepsTo(a, s, n, f)}
<1>1. 0 \in S
  <2>1. PICK f : f = [k \in 0..0 |-> a]  OBVIOUS
  <2>2. StepsTo(a, s, 0, f)  BY <2>1 DEF StepsTo
  <2> QED  BY <2>2
<1>2. ASSUME NEW n \in Nat, n \in S PROVE n + 1 \in S
  <2>1. PICK f : StepsTo(a, s, n, f)  BY <1>2
  <2>2. PICK g : g = [k \in 0..(n + 1) |-> IF k <= n THEN f[k] ELSE Step(f[n], s[n + 1])]
    OBVIOUS
  <2>3. ASSUME NEW k \in 0..(n + 1)
        PROVE  g[k] = IF k = 0 THEN a ELSE Step(g[k - 1], s[k])
    <3>1. CASE k = 0  BY <2>1, <2>2, <3>1 DEF StepsTo
    <3>2. CASE k # 0 /\ k <= n
      <4>1. k - 1 \in 0..n /\ k \in 0..n /\ k - 1 \in 0..(n + 1)  BY <3>2
      <4>2. f[k] = Step(f[k - 1], s[k])  BY <2>1, <3>2, <4>1 DEF StepsTo
      <4> QED  BY <2>2, <3>2, <4>1, <4>2
    <3>3. CASE k = n + 1
      <4>1. n \in 0..(n + 1) /\ k - 1 = n /\ ~(k <= n) /\ k # 0  BY <3>3
      <4> QED  BY <2>2, <3>3, <4>1
    <3> QED  BY <3>1, <3>2, <3>3
  <2>4. StepsTo(a, s, n + 1, g)  BY <2>2, <2>3 DEF StepsTo
  <2> QED  BY <2>4
<1> HIDE DEF S
<1>3. m \in S  BY <1>1, <1>2, Induction
<1> QED  BY <1>3 DEF S

LEMMA RunReads ==
  ASSUME NEW a, Reading(a), NEW s \in Seq(Steps)
  PROVE  Reading(Run(a, s))
<1> DEFINE m == Len(s)
           f == CHOOSE f : f = [k \in 0..m |-> IF k = 0 THEN a ELSE Step(f[k - 1], s[k])]
<1>1. m \in Nat  OBVIOUS
<1>2. Run(a, s) = f[m]  BY DEF Run
<1>3. \E g : StepsTo(a, s, m, g)  BY <1>1, StepsExist
<1>4. StepsTo(a, s, m, f)  BY <1>3 DEF StepsTo
<1>5. PICK t : t = f  OBVIOUS
<1> HIDE DEF f
<1> DEFINE T == {k \in Nat : k <= m => Reading(t[k])}
<1>6. 0 \in T
  <2>1. 0 \in 0..m  BY <1>1
  <2>2. t[0] = a  BY <1>4, <1>5, <2>1 DEF StepsTo
  <2> QED  BY <2>2
<1>7. ASSUME NEW k \in Nat, k \in T PROVE k + 1 \in T
  <2> SUFFICES ASSUME k + 1 <= m PROVE Reading(t[k + 1])  OBVIOUS
  <2>1. k <= m /\ k + 1 \in 0..m /\ k + 1 # 0 /\ (k + 1) - 1 = k /\ k + 1 \in 1..Len(s)
    BY <1>1
  <2>2. t[k + 1] = Step(t[k], s[k + 1])  BY <1>4, <1>5, <2>1 DEF StepsTo
  <2>3. Reading(t[k]) /\ s[k + 1] \in Steps  BY <1>7, <2>1, Element
  <2>4. Step(t[k], s[k + 1]) \in {t[k], Act(t[k], s[k + 1])}  BY DEF Step
  <2> QED  BY <2>2, <2>3, <2>4, ActReads
<1> HIDE DEF T
<1>8. m \in T  BY <1>1, <1>6, <1>7, Induction
<1> QED  BY <1>1, <1>2, <1>5, <1>8 DEF T
-----------------------------------------------------------------------------
(* The __parse_ functions.                                                 *)
LEMMA Constructors ==
  /\ \A n \in Nat : Need(n) \in Steps /\ Exactly(n) \in Steps
  /\ \A b \in BOOLEAN : Check(b) \in Steps
  /\ \A field \in FieldNames : /\ NotEmpty(field) \in Steps /\ TakeUtf(field) \in Steps
                               /\ TakeU8(field) \in Steps /\ TakeU16(field) \in Steps
                               /\ TakeRest(field) \in Steps
  /\ \A codes \in SUBSET Nat : TakeCode(codes) \in Steps /\ CodeIfAny(codes) \in Steps
  /\ TakeVersion \in Steps
  /\ \A field \in PropertyNames, type \in Nat, will \in BOOLEAN :
       TakeProperties(field, type, will) \in Steps
<1>1. \A n \in Nat : Need(n) \in Steps /\ Exactly(n) \in Steps  BY DEF Need, Exactly, Steps
<1>2. \A b \in BOOLEAN : Check(b) \in Steps  BY DEF Check, Steps
<1>3. \A field \in FieldNames : /\ NotEmpty(field) \in Steps /\ TakeUtf(field) \in Steps
                                /\ TakeU8(field) \in Steps /\ TakeU16(field) \in Steps
                                /\ TakeRest(field) \in Steps
  BY DEF NotEmpty, TakeUtf, TakeU8, TakeU16, TakeRest, Steps
<1>4. \A codes \in SUBSET Nat : TakeCode(codes) \in Steps /\ CodeIfAny(codes) \in Steps
  BY DEF TakeCode, CodeIfAny, Steps
<1>5. TakeVersion \in Steps  BY DEF TakeVersion, Steps
<1>6. \A field \in PropertyNames, type \in Nat, will \in BOOLEAN :
        TakeProperties(field, type, will) \in Steps
  BY DEF TakeProperties, Steps
<1> QED  BY <1>1, <1>2, <1>3, <1>4, <1>5, <1>6, Zenon

LEMMA Named ==
  /\ "protocol_name" \in FieldNames /\ "flags" \in FieldNames /\ "keep_alive" \in FieldNames
  /\ "client_id" \in FieldNames /\ "will_topic" \in FieldNames /\ "will_message" \in FieldNames
  /\ "username" \in FieldNames /\ "password" \in FieldNames /\ "topic_name" \in FieldNames
  /\ "message" \in FieldNames /\ "packet_id" \in FieldNames /\ "codes" \in FieldNames
  /\ "filters" \in FieldNames /\ "topics" \in FieldNames
  /\ "properties" \in PropertyNames /\ "will_properties" \in PropertyNames
BY DEF FieldNames, PropertyNames

LEMMA Tuples ==
  ASSUME NEW S, NEW x1 \in S, NEW x2 \in S, NEW x3 \in S, NEW x4 \in S, NEW x5 \in S,
         NEW x6 \in S, NEW x7 \in S, NEW x8 \in S
  PROVE  /\ <<x1>> \in Seq(S) /\ <<x1, x2>> \in Seq(S) /\ <<x1, x2, x3>> \in Seq(S)
         /\ <<x1, x2, x3, x4>> \in Seq(S) /\ <<x1, x2, x3, x4, x5>> \in Seq(S)
         /\ <<x1, x2, x3, x4, x5, x6>> \in Seq(S) /\ <<x1, x2, x3, x4, x5, x6, x7>> \in Seq(S)
         /\ <<x1, x2, x3, x4, x5, x6, x7, x8>> \in Seq(S)
OBVIOUS

LEMMA WhenSteps ==
  ASSUME NEW b \in BOOLEAN, NEW s \in Seq(Steps)
  PROVE  When(b, s) \in Seq(Steps)
<1>1. <<>> \in Seq(Steps)  BY EmptySeq
<1> QED  BY <1>1 DEF When

LEMMA ReasonsAre ==
  ASSUME NEW type \in {CONNACK, PUBACK, PUBREC, PUBREL, PUBCOMP, SUBACK, UNSUBACK, DISCONNECT, AUTH}
  PROVE  Reasons(type) \in SUBSET Nat
<1> USE TheTypes DEF TypeCodes
<1>1. CASE type = CONNACK  BY <1>1 DEF Reasons, ConnackReasons
<1>2. CASE type \in {PUBACK, PUBREC}  BY <1>2 DEF Reasons, PubackReasons
<1>3. CASE type \in {PUBREL, PUBCOMP}  BY <1>3 DEF Reasons, PubrelReasons
<1>4. CASE type = SUBACK  BY <1>4 DEF Reasons, SubackReasons
<1>5. CASE type = UNSUBACK  BY <1>5 DEF Reasons, UnsubackReasons
<1>6. CASE type = DISCONNECT  BY <1>6 DEF Reasons, DisconnectReasons
<1>7. CASE type = AUTH  BY <1>7 DEF Reasons, AuthReasons
<1> QED  BY <1>1, <1>2, <1>3, <1>4, <1>5, <1>6, <1>7

LEMMA ConnectStepsAre ==
  ASSUME NEW v5 \in BOOLEAN, NEW flags
  PROVE  ConnectSteps(v5, flags) \in Seq(Steps)
<1>1. PICK w, u, k : w = Bit(flags, 2) /\ u = Bit(flags, 7) /\ k = Bit(flags, 6)  OBVIOUS
<1>2. w \in BOOLEAN /\ u \in BOOLEAN /\ k \in BOOLEAN  BY <1>1 DEF Bit
<1>3. PICK p, q, n2, n3, c, t, m, et, em, x, y, z :
        /\ p = TakeProperties("properties", CONNECT, FALSE)
        /\ q = TakeProperties("will_properties", RESERVED, TRUE)
        /\ n2 = Need(2) /\ n3 = Need(3) /\ c = TakeUtf("client_id") /\ t = TakeUtf("will_topic")
        /\ m = TakeUtf("will_message") /\ et = NotEmpty("will_topic")
        /\ em = NotEmpty("will_message") /\ x = Check(WillQos(flags) \in Qos)
        /\ y = TakeUtf("username") /\ z = TakeUtf("password")
  OBVIOUS
<1>4. /\ p \in Steps /\ q \in Steps /\ n2 \in Steps /\ n3 \in Steps /\ c \in Steps
      /\ t \in Steps /\ m \in Steps /\ et \in Steps /\ em \in Steps /\ x \in Steps
      /\ y \in Steps /\ z \in Steps
  <2>1. CONNECT \in Nat /\ RESERVED \in Nat  BY DEF CONNECT, RESERVED
  <2>2. (WillQos(flags) \in Qos) \in BOOLEAN  OBVIOUS
  <2>3. 2 \in Nat /\ 3 \in Nat /\ TRUE \in BOOLEAN /\ FALSE \in BOOLEAN  OBVIOUS
  <2>4. p \in Steps /\ q \in Steps  BY <1>3, <2>1, <2>3, Named, Constructors, Zenon
  <2>5. n2 \in Steps /\ n3 \in Steps  BY <1>3, <2>3, Constructors, Zenon
  <2>6. /\ c \in Steps /\ t \in Steps /\ m \in Steps /\ et \in Steps /\ em \in Steps
        /\ y \in Steps /\ z \in Steps
    BY <1>3, Named, Constructors, Zenon
  <2>7. x \in Steps  BY <1>3, <2>2, Constructors, Zenon
  <2> QED  BY <2>4, <2>5, <2>6, <2>7
<1>5. PICK s1, s2, s3, s4, s5, s6, s7 :
        /\ s1 = When(v5, <<p>>) /\ s2 = <<n2, c>> /\ s3 = When(v5, <<q>>)
        /\ s4 = <<n3, t, n3, m, et, em, x>> /\ s5 = <<n3, y>> /\ s6 = When(k, <<n2, z>>)
        /\ s7 = When(w, s3 \o s4)
  OBVIOUS
<1>6. /\ s1 \in Seq(Steps) /\ s2 \in Seq(Steps) /\ s3 \in Seq(Steps) /\ s4 \in Seq(Steps)
      /\ s5 \in Seq(Steps) /\ s6 \in Seq(Steps)
  <2>1. <<p>> \in Seq(Steps) /\ <<q>> \in Seq(Steps) /\ <<n2, c>> \in Seq(Steps)
        /\ <<n3, y>> \in Seq(Steps) /\ <<n2, z>> \in Seq(Steps)
    BY <1>4
  <2>2. <<n3, t, n3, m, et, em, x>> \in Seq(Steps)  BY <1>4, Tuples
  <2> QED  BY <1>2, <1>5, <2>1, <2>2, WhenSteps, Zenon
<1>7. s3 \o s4 \in Seq(Steps)  BY <1>6, Joined
<1>8. s7 \in Seq(Steps)  BY <1>2, <1>5, <1>7, WhenSteps
<1>9. s5 \o s6 \in Seq(Steps)  BY <1>6, Joined
<1>10. When(u, s5 \o s6) \in Seq(Steps)  BY <1>2, <1>9, WhenSteps
<1>11. s1 \o s2 \in Seq(Steps)  BY <1>6, Joined
<1>12. s1 \o s2 \o s7 \in Seq(Steps)  BY <1>8, <1>11, Joined
<1>13. s1 \o s2 \o s7 \o When(u, s5 \o s6) \in Seq(Steps)  BY <1>10, <1>12, Joined
<1>14. ConnectSteps(v5, flags) = s1 \o s2 \o s7 \o When(u, s5 \o s6)
  BY <1>1, <1>3, <1>5, Zenon DEF ConnectSteps
<1> QED  BY <1>13, <1>14

LEMMA ConnectReads ==
  ASSUME NEW a, Reading(a)
  PROVE  Reading(ParseConnect(a))
<1>1. PICK s : s = <<Need(3), TakeUtf("protocol_name"), Need(1), TakeVersion,
                     Need(1), TakeU8("flags"), Need(2), TakeU16("keep_alive")>>
  OBVIOUS
<1>2. s \in Seq(Steps)
  <2>1. PICK n1, n2, n3, p, f, k, v :
          /\ n1 = Need(1) /\ n2 = Need(2) /\ n3 = Need(3) /\ p = TakeUtf("protocol_name")
          /\ f = TakeU8("flags") /\ k = TakeU16("keep_alive") /\ v = TakeVersion
    OBVIOUS
  <2>2. 1 \in Nat /\ 2 \in Nat /\ 3 \in Nat  OBVIOUS
  <2>3. /\ n1 \in Steps /\ n2 \in Steps /\ n3 \in Steps /\ p \in Steps /\ f \in Steps
        /\ k \in Steps /\ v \in Steps
    BY <2>1, <2>2, Named, Constructors, Zenon
  <2>4. <<n3, p, n1, v, n1, f, n2, k>> \in Seq(Steps)  BY <2>3, Tuples
  <2> QED  BY <1>1, <2>1, <2>4
<1>3. PICK b : b = Run(a, s)  OBVIOUS
<1>4. Reading(b)  BY <1>2, <1>3, RunReads
<1>5. PICK c : c = ConnectSteps(b.ver = 5, b.f.flags)  OBVIOUS
<1>6. (b.ver = 5) \in BOOLEAN  OBVIOUS
<1>7. c \in Seq(Steps)  BY <1>5, <1>6, ConnectStepsAre
<1>8. ParseConnect(a) = Run(b, c)  BY <1>1, <1>3, <1>5, Zenon DEF ParseConnect
<1> QED  BY <1>4, <1>7, <1>8, RunReads

LEMMA ConnackReads ==
  ASSUME NEW a, Reading(a)
  PROVE  Reading(ParseConnack(a))
<1>1. PICK e, n, f, c, r, p :
        /\ e = Exactly(2) /\ n = Need(2) /\ f = TakeU8("flags") /\ c = TakeCode(ConnectCodes)
        /\ r = TakeCode(Reasons(CONNACK)) /\ p = TakeProperties("properties", CONNACK, FALSE)
  OBVIOUS
<1>2. /\ e \in Steps /\ n \in Steps /\ f \in Steps /\ c \in Steps /\ r \in Steps /\ p \in Steps
  <2>1. 2 \in Nat /\ CONNACK \in Nat /\ FALSE \in BOOLEAN  BY DEF CONNACK
  <2>2. ConnectCodes \in SUBSET Nat  BY DEF ConnectCodes
  <2>3. Reasons(CONNACK) \in SUBSET Nat  BY ReasonsAre
  <2> QED  BY <1>1, <2>1, <2>2, <2>3, Named, Constructors, Zenon
<1>3. <<e, f, c>> \in Seq(Steps) /\ <<n, f, r, p>> \in Seq(Steps)  BY <1>2, Tuples
<1>4. Reading(Run(a, <<e, f, c>>)) /\ Reading(Run(a, <<n, f, r, p>>))  BY <1>3, RunReads
<1>5. PICK b : b = Run(a, <<e, f, c>>)  OBVIOUS
<1>6. PICK d : d = [b EXCEPT !.f = [@ EXCEPT !.flags = 0]]  OBVIOUS
<1>7. Reading(d)
  <2>1. PICK g : g = [b.f EXCEPT !.flags = 0]  OBVIOUS
  <2>2. "flags" \notin PropertyNames  BY NamesDiffer, Named
  <2>3. ListsRead(g)  BY <1>4, <1>5, <2>1, <2>2, FieldKept DEF Reading
  <2>4. d = [st |-> b.st, b |-> b.b, f |-> g, ver |-> b.ver]
    BY <1>4, <1>5, <1>6, <2>1 DEF Reading
  <2> QED  BY <1>4, <1>5, <2>3, <2>4 DEF Reading
<1>8. \/ ParseConnack(a) = d \/ ParseConnack(a) = b
      \/ ParseConnack(a) = Run(a, <<n, f, r, p>>) \/ ParseConnack(a) = a
  <2>1. CASE a.ver = 3  BY <1>1, <1>5, <1>6, <2>1 DEF ParseConnack, Versions
  <2>2. CASE a.ver = 4  BY <1>1, <1>5, <2>2 DEF ParseConnack, Versions
  <2>3. CASE a.ver = 5  BY <1>1, <2>3 DEF ParseConnack, Versions
  <2>4. CASE a.ver \notin Versions  BY <2>4 DEF ParseConnack, Versions
  <2> QED  BY <2>1, <2>2, <2>3, <2>4 DEF Versions
<1> QED  BY <1>4, <1>5, <1>7, <1>8

LEMMA PublishReads ==
  ASSUME NEW a, Reading(a), NEW qos \in Nat
  PROVE  Reading(ParsePublish(a, qos))
<1>1. PICK c, d, n, t, e, m, i, p, r :
        /\ c = Check(qos \in Qos) /\ d = Check(a.ver \in Versions)
        /\ n = Need(IF a.ver = 5 THEN 4 ELSE 3) /\ t = TakeUtf("topic_name")
        /\ e = NotEmpty("topic_name") /\ m = Need(2) /\ i = TakeU16("packet_id")
        /\ p = TakeProperties("properties", PUBLISH, FALSE) /\ r = TakeRest("message")
  OBVIOUS
<1>2. /\ c \in Steps /\ d \in Steps /\ n \in Steps /\ t \in Steps /\ e \in Steps /\ m \in Steps
      /\ i \in Steps /\ p \in Steps /\ r \in Steps
  <2>1. 2 \in Nat /\ PUBLISH \in Nat /\ FALSE \in BOOLEAN /\ (qos \in Qos) \in BOOLEAN
        /\ (a.ver \in Versions) \in BOOLEAN
    BY DEF PUBLISH
  <2>2. (IF a.ver = 5 THEN 4 ELSE 3) \in Nat  OBVIOUS
  <2> QED  BY <1>1, <2>1, <2>2, Named, Constructors, Zenon
<1>3. PICK s1, s2, s3 : /\ s1 = <<c, d, n, t, e>> /\ s2 = When(qos > 0, <<m, i>>)
                        /\ s3 = When(a.ver = 5, <<p>>)
  OBVIOUS
<1>4. s1 \in Seq(Steps) /\ <<m, i>> \in Seq(Steps) /\ <<p>> \in Seq(Steps) /\ <<r>> \in Seq(Steps)
  BY <1>2, <1>3, Tuples
<1>5. s2 \in Seq(Steps) /\ s3 \in Seq(Steps)
  <2>1. (qos > 0) \in BOOLEAN /\ (a.ver = 5) \in BOOLEAN  OBVIOUS
  <2> QED  BY <1>3, <1>4, <2>1, WhenSteps, Zenon
<1>6. s1 \o s2 \in Seq(Steps)  BY <1>4, <1>5, Joined
<1>7. s1 \o s2 \o s3 \in Seq(Steps)  BY <1>5, <1>6, Joined
<1>8. s1 \o s2 \o s3 \o <<r>> \in Seq(Steps)  BY <1>4, <1>7, Joined
<1>9. ParsePublish(a, qos) = Run(a, s1 \o s2 \o s3 \o <<r>>)
  BY <1>1, <1>3, Zenon DEF ParsePublish
<1> QED  BY <1>8, <1>9, RunReads

LEMMA AckReads ==
  ASSUME NEW a, Reading(a), NEW type \in {PUBACK, PUBREC, PUBREL, PUBCOMP}
  PROVE  Reading(ParseAck(a, type))
<1>1. PICK e, n, i, r, p, c :
        /\ e = Exactly(2) /\ n = Need(2) /\ i = TakeU16("packet_id")
        /\ r = CodeIfAny(Reasons(type)) /\ p = TakeProperties("properties", type, FALSE)
        /\ c = Check(FALSE)
  OBVIOUS
<1>2. /\ e \in Steps /\ n \in Steps /\ i \in Steps /\ r \in Steps /\ p \in Steps /\ c \in Steps
  <2>1. 2 \in Nat /\ type \in Nat /\ FALSE \in BOOLEAN
    BY DEF PUBACK, PUBREC, PUBREL, PUBCOMP
  <2>2. Reasons(type) \in SUBSET Nat  BY ReasonsAre
  <2> QED  BY <1>1, <2>1, <2>2, Named, Constructors, Zenon
<1>3. <<e, i>> \in Seq(Steps) /\ <<n, i, r, p>> \in Seq(Steps) /\ <<c>> \in Seq(Steps)
  BY <1>2, Tuples
<1>4. \/ ParseAck(a, type) = Run(a, <<e, i>>) \/ ParseAck(a, type) = Run(a, <<n, i, r, p>>)
      \/ ParseAck(a, type) = Run(a, <<c>>)
  <2>1. CASE a.ver \in {3, 4}  BY <1>1, <2>1 DEF ParseAck, Versions
  <2>2. CASE a.ver = 5  BY <1>1, <2>2 DEF ParseAck, Versions
  <2>3. CASE a.ver \notin Versions  BY <1>1, <2>3 DEF ParseAck, Versions
  <2> QED  BY <2>1, <2>2, <2>3 DEF Versions
<1> QED  BY <1>3, <1>4, RunReads

LEMMA IdentifiedReads ==
  ASSUME NEW a, Reading(a), NEW type \in Nat
  PROVE  Reading(ParseIdentified(a, type))
<1>1. PICK n, m, i, p :
        /\ n = Need(3) /\ m = Need(1) /\ i = TakeU16("packet_id")
        /\ p = TakeProperties("properties", type, FALSE)
  OBVIOUS
<1>2. n \in Steps /\ m \in Steps /\ i \in Steps /\ p \in Steps
  <2>1. 1 \in Nat /\ 3 \in Nat /\ FALSE \in BOOLEAN  OBVIOUS
  <2> QED  BY <1>1, <2>1, Named, Constructors, Zenon
<1>3. <<n, i>> \in Seq(Steps) /\ <<m, p>> \in Seq(Steps)  BY <1>2, Tuples
<1>4. PICK s : s = When(a.ver = 5, <<m, p>>)  OBVIOUS
<1>5. s \in Seq(Steps)
  <2>1. (a.ver = 5) \in BOOLEAN  OBVIOUS
  <2> QED  BY <1>3, <1>4, <2>1, WhenSteps, Zenon
<1>6. <<n, i>> \o s \in Seq(Steps)  BY <1>3, <1>5, Joined
<1>7. ParseIdentified(a, type) = Run(a, <<n, i>> \o s)
  BY <1>1, <1>4, Zenon DEF ParseIdentified
<1> QED  BY <1>6, <1>7, RunReads

LEMMA StateKeepsLists ==
  ASSUME NEW a, Reading(a), NEW st
  PROVE  ListsRead([a EXCEPT !.st = st].f)
BY DEF Reading

LEMMA ListsOfReading ==
  ASSUME NEW a, Reading(a)
  PROVE  ListsRead(a.f)
BY DEF Reading

LEMMA SubscribeReads ==
  ASSUME NEW start, Reading(start)
  PROVE  ListsRead(ParseSubscribe(start).f)
<1>1. PICK a : a = ParseIdentified(start, SUBSCRIBE)  OBVIOUS
<1>2. Reading(a)
  <2>1. SUBSCRIBE \in Nat  BY DEF SUBSCRIBE
  <2> QED  BY <1>1, <2>1, IdentifiedReads
<1>3. PICK r : r = Filters(1, a.b)  OBVIOUS
<1>4. \/ ParseSubscribe(start) = a \/ ParseSubscribe(start) = [a EXCEPT !.st = r.st]
      \/ ParseSubscribe(start) = Require(a, FALSE)
      \/ ParseSubscribe(start) = [a EXCEPT !.st = "wild"]
      \/ ParseSubscribe(start) = Assign(a, "filters", r)
  BY <1>1, <1>3 DEF ParseSubscribe
<1>5. ListsRead(a.f)  BY <1>2, ListsOfReading
<1>6. ListsRead(Require(a, FALSE).f)  BY <1>2, RequireReads, ListsOfReading
<1>7. ListsRead(Assign(a, "filters", r).f)  BY <1>2, Named, AssignKeepsLists
<1>8. ListsRead([a EXCEPT !.st = r.st].f) /\ ListsRead([a EXCEPT !.st = "wild"].f)
  BY <1>2, StateKeepsLists
<1> QED  BY <1>4, <1>5, <1>6, <1>7, <1>8

LEMMA UnsubscribeReads ==
  ASSUME NEW start, Reading(start)
  PROVE  ListsRead(ParseUnsubscribe(start).f)
<1>1. PICK a : a = ParseIdentified(start, UNSUBSCRIBE)  OBVIOUS
<1>2. Reading(a)
  <2>1. UNSUBSCRIBE \in Nat  BY DEF UNSUBSCRIBE
  <2> QED  BY <1>1, <2>1, IdentifiedReads
<1>3. PICK r : r = LET q == Filters(0, a.b) IN
                   IF q.st = "ok" THEN [q EXCEPT !.v = [i \in DOMAIN q.v |-> q.v[i].topic]] ELSE q
  OBVIOUS
<1>4. ParseUnsubscribe(start) = a \/ ParseUnsubscribe(start) = Assign(a, "topics", r)
  BY <1>1, <1>3 DEF ParseUnsubscribe
<1>5. ListsRead(a.f)  BY <1>2, ListsOfReading
<1>6. ListsRead(Assign(a, "topics", r).f)  BY <1>2, Named, AssignKeepsLists
<1> QED  BY <1>4, <1>5, <1>6

LEMMA CheckedCodes ==
  ASSUME NEW a, Reading(a), NEW b \in BOOLEAN
  PROVE  Reading(Run(a, <<Check(b), TakeRest("codes")>>))
<1>1. PICK c, r : c = Check(b) /\ r = TakeRest("codes")  OBVIOUS
<1>2. c \in Steps /\ r \in Steps  BY <1>1, Named, Constructors, Zenon
<1>3. <<c, r>> \in Seq(Steps)  BY <1>2, Tuples
<1> QED  BY <1>1, <1>3, RunReads

LEMMA SubackReads ==
  ASSUME NEW start, Reading(start)
  PROVE  Reading(ParseSuback(start))
<1>1. PICK a : a = ParseIdentified(start, SUBACK)  OBVIOUS
<1>2. Reading(a)
  <2>1. SUBACK \in Nat  BY DEF SUBACK
  <2> QED  BY <1>1, <2>1, IdentifiedReads
<1>3. PICK b : b = \A i \in DOMAIN a.b : GrantedOk(a.ver, a.b[i])  OBVIOUS
<1>4. \/ ParseSuback(start) = a
      \/ ParseSuback(start) = Run(a, <<Check(b), TakeRest("codes")>>)
  BY <1>1, <1>3 DEF ParseSuback
<1>5. b \in BOOLEAN  BY <1>3
<1> QED  BY <1>2, <1>4, <1>5, CheckedCodes

LEMMA UnsubackReads ==
  ASSUME NEW a, Reading(a)
  PROVE  Reading(ParseUnsuback(a))
<1>1. PICK e, n, m, i, p :
        /\ e = Exactly(2) /\ n = Need(3) /\ m = Need(1) /\ i = TakeU16("packet_id")
        /\ p = TakeProperties("properties", UNSUBACK, FALSE)
  OBVIOUS
<1>2. e \in Steps /\ n \in Steps /\ m \in Steps /\ i \in Steps /\ p \in Steps
  <2>1. 1 \in Nat /\ 2 \in Nat /\ 3 \in Nat /\ FALSE \in BOOLEAN /\ UNSUBACK \in Nat
    BY DEF UNSUBACK
  <2> QED  BY <1>1, <2>1, Named, Constructors, Zenon
<1>3. <<e, i>> \in Seq(Steps) /\ <<n, i, m, p>> \in Seq(Steps)  BY <1>2, Tuples
<1>4. PICK r : r = Run(a, <<n, i, m, p>>)  OBVIOUS
<1>5. Reading(r) /\ Reading(Run(a, <<e, i>>))  BY <1>3, <1>4, RunReads
<1>6. PICK b : b = \A k \in DOMAIN r.b : r.b[k] \in Reasons(UNSUBACK)  OBVIOUS
<1>7. b \in BOOLEAN  BY <1>6
<1>8. \/ ParseUnsuback(a) = Run(a, <<e, i>>) \/ ParseUnsuback(a) = Require(a, FALSE)
      \/ ParseUnsuback(a) = Run(r, <<Check(b), TakeRest("codes")>>)
  <2>1. CASE a.ver \in {3, 4}
    <3>1. a.ver # 5 /\ ~(a.ver \notin Versions)  BY <2>1 DEF Versions
    <3>2. ParseUnsuback(a) = Run(a, <<Exactly(2), TakeU16("packet_id")>>)
      BY <2>1, <3>1 DEF ParseUnsuback
    <3> QED  BY <1>1, <3>2
  <2>2. CASE a.ver = 5
    <3>1. ParseUnsuback(a) = Run(r, <<Check(\A k \in DOMAIN r.b : r.b[k] \in Reasons(UNSUBACK)),
                                      TakeRest("codes")>>)
      <4>1. a.ver \notin {3, 4} /\ a.ver \in Versions  BY <2>2 DEF Versions
      <4> QED  BY <1>1, <1>4, <2>2, <4>1 DEF ParseUnsuback
    <3> QED  BY <1>6, <3>1
  <2>3. CASE a.ver \notin Versions
    <3>1. a.ver # 5 /\ a.ver \notin {3, 4}  BY <2>3 DEF Versions
    <3>2. ParseUnsuback(a) = Require(a, FALSE)  BY <2>3, <3>1 DEF ParseUnsuback
    <3> QED  BY <3>2
  <2>4. a.ver \in {3, 4} \/ a.ver = 5 \/ a.ver \notin Versions  BY DEF Versions
  <2> QED  BY <2>1, <2>2, <2>3, <2>4, Zenon
<1> QED  BY <1>5, <1>7, <1>8, RequireReads, CheckedCodes

LEMMA DisconnectReads ==
  ASSUME NEW a, Reading(a)
  PROVE  Reading(ParseDisconnect(a))
<1>1. PICK e, r, p :
        /\ e = Exactly(0) /\ r = CodeIfAny(Reasons(DISCONNECT))
        /\ p = TakeProperties("properties", DISCONNECT, FALSE)
  OBVIOUS
<1>2. e \in Steps /\ r \in Steps /\ p \in Steps
  <2>1. 0 \in Nat /\ FALSE \in BOOLEAN /\ DISCONNECT \in Nat  BY DEF DISCONNECT
  <2>2. Reasons(DISCONNECT) \in SUBSET Nat  BY ReasonsAre
  <2> QED  BY <1>1, <2>1, <2>2, Named, Constructors, Zenon
<1>3. <<e>> \in Seq(Steps) /\ <<r, p>> \in Seq(Steps)  BY <1>2, Tuples
<1>4. <<>> \in Seq(Steps)  BY EmptySeq
<1>5. \/ ParseDisconnect(a) = Run(a, <<e>>) \/ ParseDisconnect(a) = Run(a, <<r, p>>)
      \/ ParseDisconnect(a) = Run(a, <<>>)
  <2>1. CASE a.ver \in {3, 4}  BY <1>1, <2>1 DEF ParseDisconnect, Versions
  <2>2. CASE a.ver = 5  BY <1>1, <2>2 DEF ParseDisconnect, Versions
  <2>3. CASE a.ver \notin Versions  BY <2>3 DEF ParseDisconnect, Versions
  <2> QED  BY <2>1, <2>2, <2>3 DEF Versions
<1> QED  BY <1>3, <1>4, <1>5, RunReads

LEMMA AuthReads ==
  ASSUME NEW a, Reading(a)
  PROVE  Reading(ParseAuth(a))
<1>1. PICK c, n, r, p :
        /\ c = Check(a.ver = 5) /\ n = Need(2) /\ r = TakeCode(Reasons(AUTH))
        /\ p = TakeProperties("properties", AUTH, FALSE)
  OBVIOUS
<1>2. c \in Steps /\ n \in Steps /\ r \in Steps /\ p \in Steps
  <2>1. 2 \in Nat /\ FALSE \in BOOLEAN /\ AUTH \in Nat /\ (a.ver = 5) \in BOOLEAN
    BY DEF AUTH
  <2>2. Reasons(AUTH) \in SUBSET Nat  BY ReasonsAre
  <2> QED  BY <1>1, <2>1, <2>2, Named, Constructors, Zenon
<1>3. <<c, n, r, p>> \in Seq(Steps)  BY <1>2, Tuples
<1>4. ParseAuth(a) = Run(a, <<c, n, r, p>>)  BY <1>1, Zenon DEF ParseAuth
<1> QED  BY <1>3, <1>4, RunReads

LEMMA PingReads ==
  ASSUME NEW a, Reading(a)
  PROVE  Reading(Run(a, <<Exactly(0)>>))
<1>1. PICK e : e = Exactly(0)  OBVIOUS
<1>2. e \in Steps  BY <1>1, Constructors
<1>3. <<e>> \in Seq(Steps)  BY <1>2
<1> QED  BY <1>1, <1>3, RunReads

LEMMA ParsedReads ==
  ASSUME NEW a, Reading(a), NEW type \in PacketTypes, NEW low \in Nat
  PROVE  ListsRead(Parsed(a, type, low).f)
<1>1. CASE ~FixedValid(type, low)  BY <1>1, RequireReads, ListsOfReading DEF Parsed
<1>2. CASE FixedValid(type, low)
  <2> USE <1>2, TheTypes DEF TypeCodes
  <2>1. CASE type = CONNECT  BY <2>1, ConnectReads, ListsOfReading DEF Parsed
  <2>2. CASE type = CONNACK  BY <2>2, ConnackReads, ListsOfReading DEF Parsed
  <2>3. CASE type = PUBLISH
    <3>1. PICK q : q = (low \div 2) % 4  OBVIOUS
    <3>2. q \in Nat  BY <3>1
    <3>3. Parsed(a, type, low) = ParsePublish(a, q)  BY <2>3, <3>1 DEF Parsed
    <3> QED  BY <3>2, <3>3, PublishReads, ListsOfReading
  <2>4. CASE type \in {PUBACK, PUBREC, PUBREL, PUBCOMP}
    <3>1. Parsed(a, type, low) = ParseAck(a, type)  BY <2>4 DEF Parsed
    <3> QED  BY <2>4, <3>1, AckReads, ListsOfReading
  <2>5. CASE type = SUBSCRIBE  BY <2>5, SubscribeReads DEF Parsed
  <2>6. CASE type = SUBACK  BY <2>6, SubackReads, ListsOfReading DEF Parsed
  <2>7. CASE type = UNSUBSCRIBE  BY <2>7, UnsubscribeReads DEF Parsed
  <2>8. CASE type = UNSUBACK  BY <2>8, UnsubackReads, ListsOfReading DEF Parsed
  <2>9. CASE type \in {PINGREQ, PINGRESP}  BY <2>9, PingReads, ListsOfReading DEF Parsed
  <2>10. CASE type = DISCONNECT  BY <2>10, DisconnectReads, ListsOfReading DEF Parsed
  <2>11. CASE type = AUTH  BY <2>11, AuthReads, ListsOfReading DEF Parsed
  <2> QED  BY <2>1, <2>2, <2>3, <2>4, <2>5, <2>6, <2>7, <2>8, <2>9, <2>10, <2>11 DEF PacketTypes
<1> QED  BY <1>1, <1>2

(* A packet as it is before its body is read, and after.                   *)
LEMMA NoPropertiesRead == NoProperties \in ReadLists
<1>1. /\ NoProperties \in PropertyList(Nat) /\ NoProperties.length = 0
      /\ Bytes(NoProperties) = 0
  BY NoPropertiesAre
<1>2. Vbis(NoProperties) = 0
  <2>1. NoProperties.list = <<>>  BY DEF NoProperties
  <2>2. [i \in DOMAIN NoProperties.list |-> If(NoProperties.list[i].code \in VbiProperties, 1)]
          = <<>>
    BY <2>1
  <2> QED  BY <2>2, SumOfNone DEF Vbis
<1>3. Near(NoProperties)  BY <1>1, <1>2 DEF Near
<1> QED  BY <1>1, <1>3 DEF ReadLists

LEMMA ZeroRead ==
  ASSUME NEW type \in PacketTypes
  PROVE  ListsRead(Zero(type))
<1> USE TheTypes DEF TypeCodes
<1> SUFFICES ASSUME NEW field \in DOMAIN Zero(type) \intersect PropertyNames
             PROVE  Zero(type)[field] = NoProperties
  BY NoPropertiesRead DEF ListsRead
<1>0. field \in {"properties", "will_properties"}  BY DEF PropertyNames
<1>1. CASE type = CONNECT
  <2>1. Zero(type) = ConnectZero  BY <1>1 DEF Zero
  <2> QED  BY <1>0, <2>1 DEF ConnectZero
<1>2. CASE type = CONNACK
  <2>1. Zero(type) = ConnackZero  BY <1>2 DEF Zero
  <2> QED  BY <1>0, <2>1 DEF ConnackZero
<1>3. CASE type = PUBLISH
  <2>1. Zero(type) = PublishZero  BY <1>3 DEF Zero
  <2> QED  BY <1>0, <2>1 DEF PublishZero
<1>4. CASE type \in Acks
  <2>1. Zero(type) = AckZero  BY <1>4 DEF Zero
  <2> QED  BY <1>0, <2>1 DEF AckZero
<1>5. CASE type \in {SUBSCRIBE, UNSUBSCRIBE, SUBACK, UNSUBACK}
  <2>1. Zero(type) = ListZero(type)  BY <1>5 DEF Zero
  <2>2. CASE type = SUBSCRIBE  BY <1>0, <2>1, <2>2 DEF ListZero
  <2>3. CASE type = UNSUBSCRIBE  BY <1>0, <2>1, <2>3 DEF ListZero
  <2>4. CASE type \in {SUBACK, UNSUBACK}  BY <1>0, <2>1, <2>4 DEF ListZero
  <2> QED  BY <1>5, <2>2, <2>3, <2>4
<1>6. CASE type \in {DISCONNECT, AUTH}
  <2>1. Zero(type) = CloseZero  BY <1>6 DEF Zero
  <2> QED  BY <1>0, <2>1 DEF CloseZero
<1>7. CASE type \in {PINGREQ, PINGRESP}
  <2>1. Zero(type) = [nothing |-> 0]  BY <1>7 DEF Zero
  <2> QED  BY <1>0, <2>1
<1> QED  BY <1>1, <1>2, <1>3, <1>4, <1>5, <1>6, <1>7

LEMMA ProcessReads ==
  ASSUME NEW v, NEW flags \in Nat, flags \div 16 \in PacketTypes, NEW body \in Digits
  PROVE  ListsRead(Process(v, flags, body).pkt.f)
<1>1. PICK type, low : type = flags \div 16 /\ low = flags % 16  OBVIOUS
<1>2. type \in PacketTypes /\ low \in Nat  BY <1>1
<1>3. PICK start : start = [st |-> "ok", b |-> body, f |-> Zero(type), ver |-> v]  OBVIOUS
<1>4. Reading(start)
  <2>1. ListsRead(Zero(type))  BY <1>2, ZeroRead
  <2> QED  BY <1>3, <2>1 DEF Reading
<1>5. PICK a : a = Parsed(start, type, low)  OBVIOUS
<1>6. ListsRead(a.f)  BY <1>2, <1>4, <1>5, ParsedReads
<1>7. Process(v, flags, body).pkt.f = a.f  BY <1>1, <1>3, <1>5 DEF Process
<1> QED  BY <1>6, <1>7

LEMMA ParseReads ==
  ASSUME NEW v, NEW bytes \in Digits, bytes # <<>>, Parse(v, bytes).st = "ok"
  PROVE  ListsRead(Parse(v, bytes).pkt.f)
<1>1. Tail(bytes) \in Digits /\ bytes[1] \in Nat  BY DEF Digits
<1>2. PICK n, h : n = ReadVbi(Tail(bytes)) /\ h = bytes[1]  OBVIOUS
<1>3. h \div 16 \in PacketTypes /\ n.st = "ok" /\ Parse(v, bytes) = Process(v, h, n.b)
  BY <1>2 DEF Parse
<1>4. n.b \in Digits  BY <1>1, <1>2, <1>3, ReadVbiIs DEF Took
<1> QED  BY <1>1, <1>2, <1>3, <1>4, ProcessReads
-----------------------------------------------------------------------------
(* What is on its way is never nothing, and what was accepted was read.    *)
Arrives(o) == "bytes" \in DOMAIN o /\ o.bytes \in Digits /\ o.bytes # <<>>

Receivers ==
  /\ pc = "sent" => Arrives(out)
  /\ Accepted => ListsRead(in.pkt.f)

LEMMA ByteIsNat == \A x \in Byte : x \in Nat
BY DEF Byte

LEMMA BytesAreDigits ==
  ASSUME NEW s \in Seq(Byte)
  PROVE  s \in Digits
<1>1. Len(s) \in Nat /\ s = [i \in 1..Len(s) |-> s[i]]  OBVIOUS
<1>2. \A i \in 1..Len(s) : s[i] \in Nat
  <2>1. \A i \in 1..Len(s) : s[i] \in Byte  BY Element
  <2> QED  BY <2>1, ByteIsNat, Zenon
<1> QED  BY <1>1, <1>2 DEF Digits

LEMMA ReceivesRead ==
  ASSUME Arrives(out), Receive, in'.rc = 1, in' # Unknown
  PROVE  ListsRead(in'.pkt.f)
<1>1. PICK r : r = Parse(version, out.bytes)  OBVIOUS
<1>2. \/ r.st = "ok" /\ in' = [rc |-> 1, pkt |-> r.pkt]
      \/ in' \in {[rc |-> -1], Unknown}
  BY <1>1 DEF Receive
<1>3. r.st = "ok" /\ in' = [rc |-> 1, pkt |-> r.pkt]  BY <1>2
<1>4. ListsRead(r.pkt.f)  BY <1>1, <1>3, ParseReads DEF Arrives
<1> QED  BY <1>3, <1>4

LEMMA ReceiversNext ==
  ASSUME Senders, Receivers, [Next]_vars
  PROVE  Receivers'
<1>1. CASE Compose \/ AddProperty \/ RemoveProperty
  <2>1. pc' = "compose"  BY <1>1 DEF Compose, AddProperty, RemoveProperty
  <2> QED  BY <2>1 DEF Receivers, Accepted
<1>2. CASE Send
  <2>1. pc' = "sent" => Arrives(out')
    <3>1. SUFFICES ASSUME pc' = "sent" PROVE Arrives(out')  OBVIOUS
    <3>2. out' = Serialize(pkt) /\ out'.bytes # <<>> /\ Composed(pkt)
      BY <1>2, <3>1 DEF Send, Senders
    <3>3. Serialize(pkt).bytes \in Seq(Byte)  BY <3>2, SerializeFits
    <3>4. "bytes" \in DOMAIN Serialize(pkt)  BY DEF Serialize
    <3>5. out'.bytes \in Digits  BY <3>2, <3>3, BytesAreDigits
    <3> QED  BY <3>2, <3>4, <3>5 DEF Arrives
  <2>2. pc' # "received"  BY <1>2 DEF Send
  <2> QED  BY <2>1, <2>2 DEF Receivers, Accepted
<1>3. CASE Change
  <2>1. PICK i \in DOMAIN out.bytes, b \in Damage : out' = [out EXCEPT !.bytes[i] = b]
    BY <1>3 DEF Change
  <2>2. pc' = "sent" /\ Arrives(out)  BY <1>3 DEF Change, Receivers
  <2>3. b \in Nat  BY ExchangeAssumption
  <2>4. PICK s, t : s = out.bytes /\ t = [s EXCEPT ![i] = b]  OBVIOUS
  <2>5. s \in Digits /\ s # <<>>  BY <2>2, <2>4 DEF Arrives
  <2>6. t \in Digits /\ t # <<>>  BY <2>1, <2>3, <2>4, <2>5 DEF Digits
  <2>7. "bytes" \in DOMAIN out' /\ out'.bytes = t  BY <2>1, <2>2, <2>4 DEF Arrives
  <2> QED  BY <2>2, <2>6, <2>7 DEF Receivers, Accepted, Arrives
<1>4. CASE Truncate
  <2>1. PICK n \in 2..(Len(out.bytes) - 1) :
          out' = [out EXCEPT !.bytes = [SubSeq(out.bytes, 1, n) EXCEPT ![2] = n - 2]]
    BY <1>4 DEF Truncate
  <2>2. pc' = "sent" /\ Arrives(out)  BY <1>4 DEF Truncate, Receivers
  <2>3. PICK s, m, t, u :
          /\ s = out.bytes /\ m = Len(out.bytes) /\ t = SubSeq(s, 1, n) /\ u = [t EXCEPT ![2] = n - 2]
    OBVIOUS
  <2>4. s \in Digits /\ m \in Nat /\ m = Len(s)  BY <2>2, <2>3 DEF Arrives, Digits
  <2>5. n \in 2..(m - 1)  BY <2>3
  <2>6. t \in Seq(Nat) /\ Len(t) = n  BY <2>3, <2>4, <2>5 DEF Digits
  <2>7. n - 2 \in Nat /\ 2 \in 1..n /\ 1 \in 1..n  BY <2>4, <2>5
  <2>8. u \in Seq(Nat) /\ u # <<>>
    <3>1. PICK k : k = n - 2  OBVIOUS
    <3>2. u = [t EXCEPT ![2] = k] /\ k \in Nat  BY <2>3, <2>7, <3>1
    <3>3. u \in Seq(Nat) /\ Len(u) = Len(t)  BY <2>6, <3>2
    <3> QED  BY <2>6, <2>7, <3>3
  <2>9. "bytes" \in DOMAIN out' /\ out'.bytes = u  BY <2>1, <2>2, <2>3 DEF Arrives
  <2> QED  BY <2>2, <2>8, <2>9 DEF Receivers, Accepted, Arrives, Digits
<1>5. CASE Receive
  <2>1. pc = "sent" /\ pc' = "received"  BY <1>5 DEF Receive
  <2>2. Arrives(out)  BY <2>1 DEF Receivers
  <2>3. in'.rc = 1 /\ in' # Unknown => ListsRead(in'.pkt.f)  BY <1>5, <2>2, ReceivesRead
  <2> QED  BY <2>1, <2>3 DEF Receivers, Accepted, Unknown
<1>6. CASE UNCHANGED vars  BY <1>6 DEF Receivers, Accepted, Unknown, vars
<1> QED  BY <1>1, <1>2, <1>3, <1>4, <1>5, <1>6 DEF Next

LEMMA ListsKept == Senders /\ Receivers => LengthKept
<1> SUFFICES ASSUME Senders, Receivers PROVE LengthKept  OBVIOUS
<1>1. pc # "idle" => LengthsTrue(pkt)  BY SendersLengths
<1>2. ASSUME Accepted, ~Skipped(in.pkt), NEW ps \in PropertyLists(in.pkt)
      PROVE  ps.length - Bytes(ps) \in IF Vbis(ps) = 0 THEN {0} ELSE (-1)..(3 * Vbis(ps))
  <2>1. PICK field \in DOMAIN in.pkt.f \intersect PropertyNames : ps = in.pkt.f[field]
    BY DEF PropertyLists, PropertyNames
  <2>2. ps \in ReadLists  BY <1>2, <2>1 DEF Receivers, ListsRead
  <2>3. FullStrings(ps)  BY <1>2 DEF Skipped
  <2> QED  BY <2>2, <2>3 DEF ReadLists, Near
<1> QED  BY <1>1, <1>2, Zenon DEF LengthKept

(* The length kept beside a list of properties is that of its bytes,       *)
(* however mqtt_properties_add and mqtt_properties_remove were used, and   *)
(* so is the one __properties_parse keeps of whatever bytes it accepts, up *)
(* to the bytes an integer of variable length may have too many or lack.   *)
THEOREM LengthsAreKept == Spec => []LengthKept
<1>1. Init => Receivers  BY DEF Init, Receivers, Accepted
<1>2. Senders /\ Receivers /\ [Next]_vars => Receivers'  BY ReceiversNext
<1>3. Senders /\ Receivers => LengthKept  BY ListsKept
<1> QED  BY <1>1, <1>2, <1>3, SendersAlways, PTL DEF Spec
=============================================================================
