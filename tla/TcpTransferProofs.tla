--------------------------- MODULE TcpTransferProofs ---------------------------
(***************************************************************************)
(* Proofs about TcpTransfer, for every list of addresses, every size of a  *)
(* batch and of the kernel's buffer: its invariants, and that a transfer   *)
(* is one step of Batches.                                                 *)
(***************************************************************************)
EXTENDS TcpTransfer, FiniteSetTheorems, SequenceTheorems, TLAPS

Numbers(n) == [i \in 1..n |-> i]

(* The sockets: outside the address loop there is a descriptor just when   *)
(* there is a connection, and it is open; in a call of linux_tcp_connect   *)
(* the first address cannot have leaked one.                               *)
SocketInv ==
  /\ fd # NoFd => fd \in open
  /\ pc = "down" => fd = NoFd
  /\ Connected => fd # NoFd
  /\ pc = "try" /\ fd # NoFd => tried > 0

LeakLimit ==
  IF pc = "try"
  THEN (attempts - 1) * (MaxAddresses - 1) + (IF tried = 0 THEN 0 ELSE tried - 1)
  ELSE attempts * (MaxAddresses - 1)

LeakInv == Cardinality(open \ {fd}) <= LeakLimit

(* The loop of linux_tcp_send: pointer, count and stream agree.            *)
Accepted == base + (IF pc = "send" THEN totlen ELSE 0)

StreamInv ==
  /\ Connected /\ pc # "failed" => wire = Numbers(Accepted)
  /\ pc = "send" => /\ buf = base + totlen /\ totlen <= size /\ size \in Sizes

IInv == TypeOK /\ SocketInv /\ LeakInv /\ StreamInv
-----------------------------------------------------------------------------
(* The numbers after b, and the first numbers, are sequences.              *)
LEMMA ShiftedIsSeq ==
  ASSUME NEW b \in Nat, NEW n \in Nat
  PROVE  [i \in 1..n |-> b + i] \in Seq(Nat) /\ Len([i \in 1..n |-> b + i]) = n
<1>1. [i \in 1..n |-> b + i] \in [1..n -> Nat]  OBVIOUS
<1>2. [i \in 1..n |-> b + i] \in Seq(Nat)  BY <1>1
<1> QED  BY <1>2

LEMMA NumbersIsSeq ==
  ASSUME NEW n \in Nat
  PROVE  Numbers(n) \in Seq(Nat) /\ Len(Numbers(n)) = n
BY DEF Numbers

(* Appending the next numbers to the first ones.                           *)
LEMMA AppendNumbers ==
  ASSUME NEW m \in Nat, NEW n \in Nat
  PROVE  Numbers(m) \o [i \in 1..n |-> m + i] = Numbers(m + n)
<1> DEFINE t == [i \in 1..n |-> m + i]
           s == Numbers(m)
<1>1. s \in Seq(Nat) /\ Len(s) = m /\ \A i \in 1..m : s[i] = i  BY NumbersIsSeq DEF Numbers
<1>2. t \in Seq(Nat) /\ Len(t) = n /\ \A i \in 1..n : t[i] = m + i  BY ShiftedIsSeq
<1> HIDE DEF s, t
<1>3. /\ s \o t \in Seq(Nat) /\ Len(s \o t) = m + n
      /\ \A i \in 1..(m + n) : (s \o t)[i] = IF i <= m THEN s[i] ELSE t[i - m]
  BY <1>1, <1>2, ConcatProperties
<1>4. /\ Numbers(m + n) \in Seq(Nat) /\ Len(Numbers(m + n)) = m + n
      /\ \A i \in 1..(m + n) : Numbers(m + n)[i] = i
  BY NumbersIsSeq DEF Numbers
<1>5. ASSUME NEW i \in 1..(m + n) PROVE (s \o t)[i] = i
  <2>1. CASE i <= m  BY <2>1, <1>1, <1>3
  <2>2. CASE i > m
    <3>1. i - m \in 1..n  BY <2>2
    <3>2. t[i - m] = m + (i - m)  BY <3>1, <1>2
    <3>3. m + (i - m) = i  OBVIOUS
    <3>4. (s \o t)[i] = t[i - m]  BY <2>2, <1>1, <1>3
    <3> QED  BY <3>2, <3>3, <3>4
  <2>3. i \in Int /\ (i <= m \/ i > m)  OBVIOUS
  <2> QED  BY <2>1, <2>2, <2>3, Zenon
<1>6. s \o t = Numbers(m + n)
  <2>1. \A i \in 1..(m + n) : (s \o t)[i] = Numbers(m + n)[i]  BY <1>4, <1>5
  <2> QED  BY <2>1, <1>3, <1>4, SeqEqual
<1> QED  BY <1>6 DEF s, t

(* The beginning of the numbers.                                           *)
LEMMA SubNumbers ==
  ASSUME NEW m \in Nat, NEW n \in Nat, m <= n
  PROVE  SubSeq(Numbers(n), 1, m) = Numbers(m)
<1>1. SubSeq(Numbers(n), 1, m) = [i \in 1..m |-> Numbers(n)[i]]  BY DEF Numbers
<1>2. \A i \in 1..m : Numbers(n)[i] = i  BY DEF Numbers
<1> QED  BY <1>1, <1>2 DEF Numbers

-----------------------------------------------------------------------------
LEMMA OpenIsFinite ==
  ASSUME TypeOK, NEW S \in SUBSET open
  PROVE  IsFiniteSet(S) /\ Cardinality(S) \in Nat
<1>1. IsFiniteSet(0..(MaxFiles - 1))  BY FS_Interval, TcpAssumption
<1> QED  BY <1>1, FS_Subset, FS_CardinalityType DEF TypeOK

(* The invariant holds at first, and every step keeps each part of it.     *)
LEMMA InitInv == Init => IInv
<1> SUFFICES ASSUME Init PROVE IInv  OBVIOUS
<1> USE TcpAssumption DEF Init
<1>1. TypeOK
  <2>1. wire \in Seq(Nat)  OBVIOUS
  <2>2. open \subseteq 0..(MaxFiles - 1) /\ fd \in {NoFd} \union 0..(MaxFiles - 1)  OBVIOUS
  <2>3. found \in Nat /\ tried \in 0..found /\ found <= MaxAddresses  OBVIOUS
  <2> QED  BY <2>1, <2>2, <2>3 DEF TypeOK
<1>2. SocketInv  BY DEF SocketInv, Connected, NoFd
<1>3. LeakInv
  <2>1. Cardinality(open \ {fd}) = 0  BY FS_EmptySet
  <2> QED  BY <2>1 DEF LeakInv, LeakLimit
<1>4. StreamInv  BY DEF StreamInv, Connected
<1> QED  BY <1>1, <1>2, <1>3, <1>4 DEF IInv

LEMMA NextType ==
  ASSUME IInv, [Next]_vars
  PROVE  TypeOK'
<1> USE TcpAssumption DEF IInv, TypeOK, sockets, sending
<1>1. CASE Resolve  BY <1>1 DEF Resolve, NoFd
<1>2. CASE NameFails  BY <1>2 DEF NameFails, Address
<1>3. CASE SocketFails  BY <1>3 DEF SocketFails, Address
<1>4. CASE ConnectFails  BY <1>4 DEF ConnectFails, Address
<1>5. CASE Connects  BY <1>5 DEF Connects, Address, Free
<1>6. CASE EndOfList
  <2>1. CASE fd = NoFd  BY <1>6, <2>1 DEF EndOfList
  <2>2. CASE fd # NoFd
    <3>1. /\ pc' = "idle" /\ broken' = FALSE /\ read' = 0
          /\ size' = 0 /\ totlen' = 0 /\ buf' = 0 /\ base' = 0 /\ UNCHANGED sockets
      BY <1>6, <2>2 DEF EndOfList
    <3>2. wire' \in Seq(Nat)  BY <1>6, <2>2 DEF EndOfList
    <3> QED  BY <3>1, <3>2
  <2> QED  BY <2>1, <2>2
<1>7. CASE Transfer  BY <1>7 DEF Transfer
<1>8. CASE Send
  <2>1. PICK n \in 1..RoomLeft :
          /\ n <= size - totlen
          /\ wire' = Taken(n) /\ totlen' = totlen + n /\ buf' = buf + n
    BY <1>8 DEF Send
  <2>2. n \in Nat  BY <2>1 DEF RoomLeft
  <2>3. [i \in 1..n |-> buf + i] \in Seq(Nat)  BY <2>2, ShiftedIsSeq
  <2>4. wire' \in Seq(Nat)  BY <2>1, <2>3 DEF Taken
  <2> QED  BY <1>8, <2>1, <2>2, <2>4 DEF Send
<1>9. CASE Sent  BY <1>9 DEF Sent
<1>10. CASE SendFails  BY <1>10 DEF SendFails
<1>11. CASE Recv  BY <1>11 DEF Recv
<1>12. CASE Handle  BY <1>12 DEF Handle
<1>13. CASE Close  BY <1>13 DEF Close
<1>14. CASE BrokerReads  BY <1>14 DEF BrokerReads
<1>15. CASE Breaks  BY <1>15 DEF Breaks
<1>16. CASE UNCHANGED vars  BY <1>16 DEF vars
<1> QED  BY <1>1, <1>2, <1>3, <1>4, <1>5, <1>6, <1>7, <1>8, <1>9, <1>10, <1>11, <1>12,
            <1>13, <1>14, <1>15, <1>16 DEF Next

LEMMA NextSocket ==
  ASSUME IInv, [Next]_vars
  PROVE  SocketInv'
<1> USE TcpAssumption DEF IInv, SocketInv, sockets, Connected
<1> NoFd \notin open /\ tried \in Nat  BY DEF TypeOK, NoFd
<1>1. CASE Resolve  BY <1>1 DEF Resolve
<1>2. CASE NameFails  BY <1>2 DEF NameFails, Address, TypeOK
<1>3. CASE SocketFails  BY <1>3 DEF SocketFails, Address
<1>4. CASE ConnectFails  BY <1>4 DEF ConnectFails, Address
<1>5. CASE Connects  BY <1>5 DEF Connects, Address, TypeOK
<1>6. CASE EndOfList  BY <1>6 DEF EndOfList
<1>7. CASE Transfer  BY <1>7 DEF Transfer
<1>8. CASE Send  BY <1>8 DEF Send
<1>9. CASE Sent  BY <1>9 DEF Sent
<1>10. CASE SendFails  BY <1>10 DEF SendFails
<1>11. CASE Recv  BY <1>11 DEF Recv
<1>12. CASE Handle  BY <1>12 DEF Handle
<1>13. CASE Close  BY <1>13 DEF Close
<1>14. CASE BrokerReads  BY <1>14 DEF BrokerReads
<1>15. CASE Breaks  BY <1>15 DEF Breaks
<1>16. CASE UNCHANGED vars  BY <1>16 DEF vars
<1> QED  BY <1>1, <1>2, <1>3, <1>4, <1>5, <1>6, <1>7, <1>8, <1>9, <1>10, <1>11, <1>12,
            <1>13, <1>14, <1>15, <1>16 DEF Next

(* A step that drops the descriptor fd for another, or none, leaks at most *)
(* the one it drops.                                                       *)
Leaked == open \ {fd}

LEMMA LeaksOne ==
  ASSUME TypeOK, SocketInv, fd' # fd,
         open' = open \/ open' = open \union {fd'}, fd' \notin open
  PROVE  /\ Leaked' \subseteq open
         /\ Cardinality(Leaked') \in Nat /\ Cardinality(Leaked) \in Nat
         /\ fd = NoFd => Leaked' = Leaked
         /\ Cardinality(Leaked') <= Cardinality(Leaked) + 1
<1>1. Leaked' \subseteq open /\ Leaked \subseteq open  BY DEF Leaked
<1>2. /\ IsFiniteSet(Leaked') /\ IsFiniteSet(Leaked)
      /\ Cardinality(Leaked') \in Nat /\ Cardinality(Leaked) \in Nat
  BY <1>1, OpenIsFinite
<1>3. fd = NoFd => Leaked' = Leaked  BY DEF Leaked, TypeOK, NoFd
<1>4. Leaked' \subseteq Leaked \union {fd}  BY DEF Leaked
<1>5. /\ IsFiniteSet(Leaked \union {fd})
      /\ Cardinality(Leaked \union {fd}) <= Cardinality(Leaked) + 1
  <2>1. /\ IsFiniteSet(Leaked \union {fd})
        /\ Cardinality(Leaked \union {fd}) =
             IF fd \in Leaked THEN Cardinality(Leaked) ELSE Cardinality(Leaked) + 1
    BY <1>2, FS_AddElement
  <2> QED  BY <2>1, <1>2
<1>6. Cardinality(Leaked') <= Cardinality(Leaked \union {fd})  BY <1>4, <1>5, FS_Subset
<1>7. Cardinality(Leaked \union {fd}) \in Nat  BY <1>5, FS_CardinalityType
<1> QED  BY <1>1, <1>2, <1>3, <1>5, <1>6, <1>7

LEMMA NextLeak ==
  ASSUME IInv, [Next]_vars
  PROVE  LeakInv'
<1> USE DEF IInv
<1> DEFINE k == MaxAddresses - 1
<1>k. k \in Nat /\ attempts \in Nat /\ tried \in Nat /\ found \in Nat /\ tried <= found /\ found <= k + 1
  BY TcpAssumption DEF TypeOK
<1>p. /\ attempts * k \in Int /\ (attempts - 1) * k \in Int /\ attempts * k = (attempts - 1) * k + k
      /\ (attempts + 1 - 1) * k = attempts * k
  BY <1>k
<1>c. Cardinality(Leaked) \in Nat  BY OpenIsFinite DEF Leaked
<1>l. Cardinality(Leaked) <= LeakLimit  BY DEF LeakInv, Leaked
<1> SUFFICES Cardinality(Leaked') <= LeakLimit'  BY DEF LeakInv, Leaked
<1>1. CASE Resolve
  <2>1. Leaked' = Leaked /\ pc = "down" /\ pc' = "try" /\ tried' = 0 /\ attempts' = attempts + 1
    BY <1>1 DEF Resolve, Leaked, SocketInv
  <2> QED  BY <2>1, <1>k, <1>p, <1>l DEF LeakLimit
<1>2. CASE Address /\ fd' = fd /\ open' = open
  <2>1. Leaked' = Leaked /\ pc' = "try" /\ pc = "try" /\ tried' = tried + 1 /\ attempts' = attempts
    BY <1>2 DEF Address, Leaked
  <2> QED  BY <2>1, <1>k, <1>p, <1>l, <1>c DEF LeakLimit
<1>3. CASE /\ Address /\ fd' # fd /\ fd' \notin open
           /\ open' = open \/ open' = open \union {fd'}
  <2>1. pc' = "try" /\ pc = "try" /\ tried' = tried + 1 /\ attempts' = attempts
    BY <1>3 DEF Address
  <2>2. CASE fd = NoFd
    <3>1. Leaked' = Leaked  BY <2>2, <1>3, LeaksOne
    <3> QED  BY <3>1, <2>1, <1>k, <1>p, <1>l, <1>c DEF LeakLimit
  <2>3. CASE fd # NoFd
    <3>1. tried > 0  BY <2>3, <2>1 DEF SocketInv
    <3>2. Cardinality(Leaked') <= Cardinality(Leaked) + 1 /\ Cardinality(Leaked') \in Nat
      BY <1>3, LeaksOne
    <3> QED  BY <3>1, <3>2, <2>1, <1>k, <1>p, <1>l, <1>c DEF LeakLimit
  <2> QED  BY <2>2, <2>3
<1>4. CASE EndOfList
  <2>1. /\ Leaked' = Leaked /\ pc = "try" /\ pc' # "try" /\ attempts' = attempts
    BY <1>4 DEF EndOfList, Leaked, sockets
  <2> QED  BY <2>1, <1>k, <1>p, <1>l, <1>c DEF LeakLimit
<1>5. CASE Close
  <2>1. Leaked' = Leaked /\ pc = "failed" /\ pc' = "down" /\ attempts' = attempts
    BY <1>5 DEF Close, Leaked, TypeOK, NoFd
  <2> QED  BY <2>1, <1>l DEF LeakLimit
<1>6. CASE /\ pc = "try" <=> pc' = "try"
           /\ UNCHANGED sockets
  <2>1. Leaked' = Leaked /\ attempts' = attempts /\ tried' = tried  BY <1>6 DEF sockets, Leaked
  <2> QED  BY <2>1, <1>6, <1>l DEF LeakLimit
<1>7. CASE NameFails  BY <1>7, <1>2 DEF NameFails
<1>8. CASE SocketFails \/ ConnectFails
  <2>1. Address /\ fd' = NoFd /\ open' = open  BY <1>8 DEF SocketFails, ConnectFails
  <2>2. NoFd \notin open  BY DEF TypeOK, NoFd
  <2> QED  BY <2>1, <2>2, <1>2, <1>3
<1>9. CASE Connects
  <2>1. Address /\ fd' \notin open /\ open' = open \union {fd'}  BY <1>9 DEF Connects, Free
  <2>2. fd' # fd
    <3>1. fd' \in 0..(MaxFiles - 1)  BY <1>9 DEF Connects, Free
    <3> QED  BY <3>1, <2>1, TcpAssumption DEF SocketInv, NoFd
  <2> QED  BY <2>1, <2>2, <1>3
<1>10. CASE Transfer \/ Send \/ Sent \/ SendFails \/ Recv \/ Handle
  BY <1>10, <1>6 DEF Transfer, Send, Sent, SendFails, Recv, Handle, sockets
<1>11. CASE BrokerReads \/ Breaks  BY <1>11, <1>6 DEF BrokerReads, Breaks
<1>12. CASE UNCHANGED vars  BY <1>12, <1>6 DEF vars
<1> QED  BY <1>1, <1>4, <1>5, <1>7, <1>8, <1>9, <1>10, <1>11, <1>12 DEF Next

LEMMA NextStream ==
  ASSUME IInv, [Next]_vars
  PROVE  StreamInv'
<1> USE DEF IInv, StreamInv, Accepted
<1>n. base \in Nat /\ totlen \in Nat /\ size \in Nat  BY DEF TypeOK
<1>1. CASE Resolve  BY <1>1 DEF Resolve, Connected
<1>2. CASE NameFails \/ SocketFails \/ ConnectFails \/ Connects
  <2>1. pc = "try" /\ pc' = "try"
    BY <1>2 DEF NameFails, SocketFails, ConnectFails, Connects, Address
  <2> QED  BY <2>1 DEF Connected
<1>3. CASE EndOfList
  <2>1. pc' = "down" \/ (pc' = "idle" /\ wire' = <<>> /\ base' = 0)  BY <1>3 DEF EndOfList
  <2>2. Numbers(0) = <<>>  BY DEF Numbers
  <2> QED  BY <2>1, <2>2 DEF Connected
<1>4. CASE Transfer
  <2>1. /\ pc = "idle" /\ pc' \in {"recv", "send"} /\ wire' = wire /\ base' = base
        /\ totlen' = 0 /\ buf' = base /\ size' \in Sizes
    BY <1>4 DEF Transfer
  <2>2. wire = Numbers(base) /\ base + 0 = base /\ 0 <= size'  BY <2>1, <1>n, TcpAssumption DEF Connected
  <2> QED  BY <2>1, <2>2
<1>5. CASE Send
  <2>1. PICK n \in 1..RoomLeft :
          /\ n <= size - totlen
          /\ wire' = Taken(n) /\ totlen' = totlen + n /\ buf' = buf + n
    BY <1>5 DEF Send
  <2>2. /\ pc = "send" /\ pc' = "send" /\ UNCHANGED <<size, base>> /\ n \in Nat
    BY <1>5, <2>1 DEF Send, RoomLeft
  <2>3. /\ wire = Numbers(base + totlen) /\ buf = base + totlen
        /\ base + totlen \in Nat
    BY <2>2, <1>n DEF Connected
  <2>4. wire' = Numbers((base + totlen) + n)  BY <2>1, <2>2, <2>3, AppendNumbers DEF Taken
  <2>5. (base + totlen) + n = base' + totlen' /\ buf' = base' + totlen' /\ totlen' <= size'
    BY <2>1, <2>2, <2>3, <1>n
  <2>6. size' \in Sizes  BY <2>2
  <2> QED  BY <2>2, <2>4, <2>5, <2>6
<1>6. CASE Sent
  <2>1. /\ pc = "send" /\ pc' = "recv" /\ wire' = wire /\ base' = base + size /\ totlen = size
    BY <1>6 DEF Sent
  <2>2. wire = Numbers(base + size)  BY <2>1 DEF Connected
  <2>3. base' + 0 = base + size  BY <2>1, <1>n
  <2> QED  BY <2>1, <2>2, <2>3
<1>7. CASE SendFails  BY <1>7 DEF SendFails, Connected
<1>8. CASE Recv \/ Handle
  <2>1. /\ pc \in {"recv", "handle"} /\ pc' \in {"handle", "failed", "idle"}
        /\ UNCHANGED <<wire, base>>
    BY <1>8 DEF Recv, Handle, sending
  <2> QED  BY <2>1 DEF Connected
<1>9. CASE Close  BY <1>9 DEF Close, Connected
<1>10. CASE BrokerReads \/ Breaks \/ UNCHANGED vars
  <2>1. UNCHANGED <<pc, sending>>  BY <1>10 DEF BrokerReads, Breaks, vars
  <2> QED  BY <2>1 DEF sending, Connected
<1> QED  BY <1>1, <1>2, <1>3, <1>4, <1>5, <1>6, <1>7, <1>8, <1>9, <1>10 DEF Next
-----------------------------------------------------------------------------
(* The invariant of every behaviour.                                       *)
LEMMA Invariance == Spec => []IInv
<1>1. IInv /\ [Next]_vars => IInv'
  BY NextType, NextSocket, NextLeak, NextStream DEF IInv
<1> QED  BY InitInv, <1>1, PTL DEF Spec

(* Every variable of TcpTransfer stays in its domain.                      *)
THEOREM TypeCorrect == Spec => []TypeOK
<1>1. IInv => TypeOK  BY DEF IInv
<1> QED  BY Invariance, <1>1, PTL

(* The main loop never works with the number of a closed socket, whatever  *)
(* the addresses of the list do (linux_tcp_connect).                       *)
THEOREM AlwaysOpen == Spec => []NetIsOpen
<1>1. IInv => NetIsOpen  BY DEF IInv, SocketInv, NetIsOpen
<1> QED  BY Invariance, <1>1, PTL

(* A call of linux_tcp_connect leaks fewer sockets than it found addresses,*)
(* so a broker with one address costs none.                                *)
THEOREM BoundedLeaks == Spec => []LeaksBounded
<1>1. ASSUME IInv PROVE LeaksBounded
  <2> DEFINE k == MaxAddresses - 1
  <2>1. k \in Nat /\ attempts \in Nat /\ tried \in Nat /\ tried <= k + 1
    BY <1>1, TcpAssumption DEF IInv, TypeOK
  <2>2. attempts * k = (attempts - 1) * k + k /\ attempts * k \in Int /\ (attempts - 1) * k \in Int
    BY <2>1
  <2>3. LeakLimit <= attempts * k  BY <2>1, <2>2 DEF LeakLimit
  <2>4. Cardinality(open \ {fd}) \in Nat  BY <1>1, OpenIsFinite DEF IInv
  <2>5. Cardinality(open \ {fd}) <= LeakLimit /\ LeakLimit \in Int
    BY <1>1, <2>1, <2>2 DEF IInv, LeakInv, LeakLimit
  <2> QED  BY <2>2, <2>3, <2>4, <2>5 DEF LeaksBounded
<1> QED  BY Invariance, <1>1, PTL
-----------------------------------------------------------------------------
(* What Batches sees of a state of the loop.                               *)
Up      == Connected /\ pc # "failed"
Written == IF pc = "send" THEN SubSeq(wire, 1, base) ELSE wire

(* On a connection these are the bytes of the batches that are complete.   *)
LEMMA WrittenIsWhole ==
  IInv /\ Up => base \in Nat /\ Written = Numbers(base)
<1> SUFFICES ASSUME IInv, Up PROVE base \in Nat /\ Written = Numbers(base)  OBVIOUS
<1>1. base \in Nat /\ totlen \in Nat  BY DEF IInv, TypeOK
<1>2. CASE pc = "send"
  <2>1. wire = Numbers(base + totlen)  BY <1>2 DEF IInv, StreamInv, Accepted, Up
  <2> QED  BY <1>1, <1>2, <2>1, SubNumbers DEF Written
<1>3. CASE pc # "send"
  <2>1. wire = Numbers(base)  BY <1>1, <1>3 DEF IInv, StreamInv, Accepted, Up
  <2> QED  BY <1>1, <1>3, <2>1 DEF Written
<1> QED  BY <1>2, <1>3

(* More bytes after the complete batches.                                  *)
LEMMA ExtendedNumbers ==
  ASSUME NEW b \in Nat, NEW n \in Nat
  PROVE  Promised!Extended(Numbers(b), n) = Numbers(b + n)
BY NumbersIsSeq, AppendNumbers DEF Promised!Extended

(* Every step is a step of Batches, or changes nothing it sees.            *)
LEMMA StepMaps ==
  ASSUME IInv, IInv', [Next]_vars
  PROVE  Promised!Open \/ Promised!Write \/ Promised!Cut \/ UNCHANGED <<Up, Written>>
<1> USE DEF Promised!Open, Promised!Write, Promised!Cut
<1>n. base \in Nat /\ totlen \in Nat /\ size \in Nat  BY DEF IInv, TypeOK
<1>w. /\ Up => Written = Numbers(base)
      /\ Up' => Written' = Numbers(base')
  <2>1. Up => Written = Numbers(base)  BY WrittenIsWhole
  <2>2. (IInv /\ Up => base \in Nat /\ Written = Numbers(base))'  BY WrittenIsWhole, PTL
  <2> QED  BY <2>1, <2>2
<1>d. Written = IF pc = "send" THEN SubSeq(wire, 1, base) ELSE wire  BY DEF Written
<1>s. Sizes \subseteq Nat /\ 0 \in Sizes  BY TcpAssumption
<1>1. CASE Resolve \/ NameFails \/ SocketFails \/ ConnectFails \/ Connects \/ Close
  <2>1. /\ pc \in {"down", "try", "failed"} /\ pc' \in {"down", "try"} /\ wire' = wire
    BY <1>1 DEF Resolve, NameFails, SocketFails, ConnectFails, Connects, Close, Address, sending
  <2> QED  BY <2>1 DEF Up, Written, Connected
<1>2. CASE EndOfList
  <2>1. CASE fd = NoFd
    <3>1. pc = "try" /\ pc' = "down" /\ wire' = wire  BY <1>2, <2>1 DEF EndOfList, sending
    <3> QED  BY <3>1 DEF Up, Written, Connected
  <2>2. CASE fd # NoFd
    <3>1. pc = "try" /\ pc' = "idle" /\ wire' = <<>>  BY <1>2, <2>2 DEF EndOfList
    <3>2. Promised!Open  BY <3>1 DEF Up, Written, Connected
    <3> QED  BY <3>2
  <2> QED  BY <2>1, <2>2
(* The connection goes on and no batch becomes complete.                   *)
<1>3. CASE Transfer \/ Send \/ (Recv /\ pc' = "handle") \/ (Handle /\ pc' = "idle")
  <2>1. Up /\ Up' /\ base' = base
    BY <1>3 DEF Transfer, Send, Recv, Handle, sending, Up, Connected
  <2> QED  BY <2>1, <1>w
(* The last batch is cut, or was none.                                     *)
<1>4. CASE SendFails \/ (Recv /\ pc' = "failed") \/ (Handle /\ pc' = "failed")
  <2>1. Up /\ ~Up' /\ wire' = wire /\ pc' = "failed"
    BY <1>4 DEF SendFails, Recv, Handle, sending, Up, Connected
  <2>2. \E n \in Sizes : \E m \in 0..n : wire = Numbers(base + m)
    <3>1. CASE pc = "send"
      <4>1. /\ wire = Numbers(base + totlen) /\ totlen <= size /\ size \in Sizes
        BY <3>1, <2>1 DEF IInv, StreamInv, Accepted, Up
      <4> QED  BY <4>1, <1>n
    <3>2. CASE pc # "send"
      <4>1. wire = Numbers(base + 0)  BY <3>2, <2>1, <1>n DEF IInv, StreamInv, Accepted, Up
      <4> QED  BY <4>1, <1>s
    <3> QED  BY <3>1, <3>2
  <2>a. PICK n \in Sizes : \E m \in 0..n : wire = Numbers(base + m)  BY <2>2
  <2>b. PICK m \in 0..n : wire = Numbers(base + m)  BY <2>a
  <2>3. m \in Nat  BY <1>s
  <2>4. Written' = Promised!Extended(Written, m)
    <3>1. Written = Numbers(base) /\ Written' = wire  BY <2>1, <1>w DEF Written
    <3> QED  BY <3>1, <2>b, <2>3, <1>n, ExtendedNumbers
  <2>5. Promised!Cut  BY <2>1, <2>4 DEF Up, Written
  <2> QED  BY <2>5
(* A batch is complete.                                                    *)
<1>5. CASE Sent
  <2>1. Up /\ Up' /\ base' = base + size /\ size \in Sizes
    BY <1>5 DEF Sent, Up, Connected, IInv, StreamInv
  <2>2. Written' = Promised!Extended(Written, size)
    BY <2>1, <1>w, <1>n, ExtendedNumbers
  <2>3. Promised!Write  BY <2>1, <2>2 DEF Up, Written
  <2> QED  BY <2>3
<1>6. CASE BrokerReads \/ Breaks \/ UNCHANGED vars
  <2>1. UNCHANGED <<pc, wire, base>>  BY <1>6 DEF BrokerReads, Breaks, vars, sending
  <2> QED  BY <2>1 DEF Up, Written, Connected
<1>7. Recv => pc' \in {"handle", "failed"}  BY DEF Recv
<1>8. Handle => pc' \in {"idle", "failed"}  BY DEF Handle
<1> QED  BY <1>1, <1>2, <1>3, <1>4, <1>5, <1>6, <1>7, <1>8 DEF Next

(* linux_tcp_transfer implements Batches: whatever send takes at a time,   *)
(* the batches of a connection go out whole and in order.                  *)
THEOREM TransferIsAtomic == Spec => WholeBatches
<1>1. Init => Promised!Init  BY DEF Init, Promised!Init, Connected
<1>2. IInv /\ IInv' /\ [Next]_vars => [Promised!Next]_Promised!vars
  BY StepMaps DEF Promised!Next, Promised!vars, Up, Written
<1> QED  BY Invariance, <1>1, <1>2, PTL DEF Spec, WholeBatches, Promised!Spec
=============================================================================
