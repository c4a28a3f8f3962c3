--------------------------- MODULE PaddingRaceProofs ---------------------------
(***************************************************************************)
(* Proofs about PaddingRace, for any number of measurements and requests:  *)
(* what two threads can do to m->padding without a lock, and what they     *)
(* cannot.                                                                 *)
(***************************************************************************)
EXTENDS PaddingRace, FiniteSetTheorems, SequenceTheorems, TLAPS

AppendLabels == {"idle", "load", "set", "walk", "link"}
Labels == {"idle", "load", "set", "walk", "link", "size", "copy", "unlink", "next"}

OrNull(S) == S \cup {Null}

(* The variables are in their domains.                                     *)
Values ==
  /\ pc \in [Thread -> Labels] /\ pc[Sensor] \in AppendLabels
  /\ appended \subseteq Node /\ disturbed \subseteq Node /\ late \in Nat /\ size \in Nat
  /\ mp \in [Thread -> OrNull(Node)] /\ p \in [Thread -> OrNull(Node)]
  /\ padding \in OrNull(Node) /\ following \in OrNull(Node)
  /\ next \in [Node -> OrNull(Node)]
  /\ sent \in Seq(Node) /\ batch \in Seq(Node)

(* Only nodes whose append has returned are in the list or have been sent. *)
FromAppended ==
  /\ padding \in OrNull(appended)
  /\ \A y \in Node : next[y] # Null => y \in appended /\ next[y] \in appended
  /\ \A i \in DOMAIN sent : sent[i] \in appended
  /\ \A i \in DOMAIN batch : batch[i] \in appended

(* What a thread holds at each place: the node it appends is in no list    *)
(* yet, and every other pointer is one that the list had once.             *)
Pointers ==
  /\ \A t \in Thread :
       /\ Appending(t) => mp[t] \in OwnNodes(t) \ appended
       /\ pc[t] \in {"walk", "link"} => p[t] \in appended
       /\ pc[t] = "set" => p[t] = Null
  /\ pc[Main] \in {"size", "copy"} => p[Main] \in OrNull(appended)
  /\ pc[Main] \in {"unlink", "next"} => following \in OrNull(appended)
  /\ pc[Main] \notin {"copy", "unlink", "next"} => batch = <<>>

Shape == Values /\ FromAppended /\ Pointers
-----------------------------------------------------------------------------
(* A node is younger than the ones appended before it.  The links go from  *)
(* old to young however the threads interleave, and so do the batches.     *)
Out == sent \o batch

Rising(r, s) == \A i, j \in DOMAIN s : i < j => r[s[i]] < r[s[j]]

Ahead(r, x) == x # Null => \A i \in DOMAIN Out : r[Out[i]] < r[x]

Ranks(r, n) ==
  /\ \A y \in appended : r[y] < n
  /\ \A y \in Node : next[y] # Null => r[y] < r[next[y]]
  /\ Rising(r, Out)
  /\ pc[Main] # "unlink" => Ahead(r, padding)
  /\ pc[Main] = "copy" => Ahead(r, p[Main])
  /\ pc[Main] \in {"unlink", "next"} => Ahead(r, following)

(* The first pass has counted distinct nodes, all older than the one it is *)
(* at.                                                                     *)
Counted(r) ==
  \E C \in SUBSET appended :
    /\ size = Cardinality(C)
    /\ pc[Main] = "size" /\ p[Main] # Null => \A y \in C : r[y] < r[p[Main]]

(* The order the nodes were appended in, as a rank.                        *)
Ordered == \E r \in [Node -> Nat], n \in Nat : Ranks(r, n) /\ Counted(r)

(* The constants.                                                          *)
LEMMA Nodes ==
  /\ Null \notin Node /\ Node \subseteq Nat
  /\ Sensor \in Thread /\ Main \in Thread /\ Sensor # Main
  /\ \A t \in Thread : t = Sensor \/ t = Main
  /\ \A t \in Thread : OwnNodes(t) \subseteq Node
  /\ \A t, u \in Thread : t # u => OwnNodes(t) \cap OwnNodes(u) = {}
  BY CountAssumption DEF Null, Node, Sensor, Main, Thread, OwnNodes

LEMMA Others ==
  /\ Other(Sensor) = Main /\ Other(Main) = Sensor
  /\ \A t \in Thread : Other(t) \in Thread /\ Other(t) # t /\ Other(Other(t)) = t
<1>1. \A u \in Thread : u # Sensor => u = Main
  BY Nodes
<1>2. \E u \in Thread : u # Sensor
  BY Nodes
<1>3. Other(Sensor) = Main
  BY <1>1, <1>2 DEF Other
<1>4. \A u \in Thread : u # Main => u = Sensor
  BY Nodes
<1>5. \E u \in Thread : u # Main
  BY Nodes
<1>6. Other(Main) = Sensor
  BY <1>4, <1>5 DEF Other
<1>7. QED
  BY <1>3, <1>6, Nodes

LEMMA ShapeInit == Init => Shape
  BY Nodes DEF Init, Shape, Values, FromAppended, Pointers, OrNull, AppendLabels, Labels, Appending

(* Sequences: what is true of all elements of two is true of all elements  *)
(* of both together; an appended element is the last.                      *)
LEMMA ConcatElements ==
  ASSUME NEW S, NEW T, NEW s \in Seq(S), NEW u \in Seq(S),
         \A i \in DOMAIN s : s[i] \in T, \A i \in DOMAIN u : u[i] \in T
  PROVE  \A i \in DOMAIN (s \o u) : (s \o u)[i] \in T
<1> SUFFICES ASSUME NEW i \in 1..(Len(s) + Len(u)) PROVE (s \o u)[i] \in T
  BY ConcatProperties
<1>1. CASE i <= Len(s)
  BY <1>1, ConcatProperties
<1>2. CASE ~(i <= Len(s))
  BY <1>2, i - Len(s) \in DOMAIN u, ConcatProperties
<1>3. QED
  BY <1>1, <1>2

LEMMA AppendElements ==
  ASSUME NEW s \in Seq(Node), NEW x \in Node
  PROVE  \A i \in DOMAIN Append(s, x) :
           \/ i \in DOMAIN s /\ Append(s, x)[i] = s[i]
           \/ i = Len(s) + 1 /\ Append(s, x)[i] = x
<1>1. DOMAIN Append(s, x) = 1..(Len(s) + 1) /\ DOMAIN s = 1..Len(s) /\ Len(s) \in Nat
  OBVIOUS
<1>2. ASSUME NEW i \in 1..(Len(s) + 1) PROVE i \in 1..Len(s) \/ i = Len(s) + 1
  BY <1>1
<1>3. \A i \in 1..Len(s) : Append(s, x)[i] = s[i]
  OBVIOUS
<1>4. Append(s, x)[Len(s) + 1] = x
  OBVIOUS
<1>5. QED
  BY <1>1, <1>2, <1>3, <1>4

LEMMA WitnessShape ==
  ASSUME NEW t \in Thread, Shape, Witness(t)
  PROVE  disturbed' \subseteq Node
<1>1. \A u \in Thread : Appending(u) => mp[u] \in Node
  BY Nodes DEF Shape, Pointers
<1>2. disturbed \subseteq Node
  BY DEF Shape, Values
<1>3. QED
  BY <1>1, <1>2, Others DEF Witness

LEMMA ShapeStep ==
  ASSUME Shape, [Next]_vars
  PROVE  Shape'
<1> USE Nodes DEF Shape, Values, FromAppended, Pointers, OrNull, AppendLabels, Labels, Appending, Goto, list
<1>1. ASSUME NEW t \in Thread, Create(t) PROVE Shape'
  <2>1. PICK x \in OwnNodes(t) : x \notin appended /\ mp' = [mp EXCEPT ![t] = x]
    BY <1>1 DEF Create
  <2>a. mp' \in [Thread -> OrNull(Node)]
    BY <2>1
  <2>2. Values'
    BY <1>1, <2>a, WitnessShape DEF Create
  <2>3. FromAppended' /\ Pointers'
    BY <1>1, <2>1 DEF Create
  <2>4. QED
    BY <2>2, <2>3
<1>2. ASSUME NEW t \in Thread, LoadHead(t) PROVE Shape'
  BY <1>2, WitnessShape DEF LoadHead
<1>3. ASSUME NEW t \in Thread, SetHead(t) PROVE Shape'
  <2>1. mp[t] \in OwnNodes(t) \ appended /\ mp[t] \in Node
    BY <1>3 DEF SetHead
  <2>a. late' \in Nat /\ appended' \subseteq Node
    <3>1. late \in Nat /\ late' = late + 1 /\ appended' = appended \cup {mp[t]}
      BY <1>3 DEF SetHead, Return
    <3>2. appended' \subseteq Node
      BY <3>1, <2>1
    <3>3. QED
      BY <3>1, <3>2
  <2>b. pc' \in [Thread -> Labels] /\ pc'[Sensor] \in AppendLabels
    BY <1>3 DEF SetHead, Return
  <2>c. padding' \in OrNull(Node) /\ UNCHANGED <<size, mp, p, following, next, sent, batch>>
    BY <1>3, <2>1 DEF SetHead
  <2>d. disturbed' \subseteq Node
    BY <1>3, WitnessShape DEF SetHead
  <2>2. Values'
    BY <2>a, <2>b, <2>c, <2>d
  <2>3. FromAppended'
    BY <1>3, <2>1 DEF SetHead, Return
  <2>4. Pointers'
    BY <1>3, <2>1 DEF SetHead, Return
  <2>5. QED
    BY <2>2, <2>3, <2>4
<1>4. ASSUME NEW t \in Thread, Walk(t) PROVE Shape'
  <2>1. p[t] \in appended /\ next[p[t]] \in OrNull(appended)
    BY <1>4 DEF Walk
  <2>a. p' \in [Thread -> OrNull(Node)]
    <3>1. CASE next[p[t]] = Null
      BY <1>4, <3>1 DEF Walk
    <3>2. CASE next[p[t]] # Null
      <4>1. next[p[t]] \in Node /\ p' = [p EXCEPT ![t] = next[p[t]]]
        BY <1>4, <2>1, <3>2 DEF Walk
      <4>2. QED
        BY <4>1
    <3>3. QED
      BY <3>1, <3>2
  <2>2. Values'
    BY <1>4, <2>a, WitnessShape DEF Walk
  <2>3. FromAppended'
    BY <1>4, <2>1 DEF Walk
  <2>4. Pointers'
    BY <1>4, <2>1 DEF Walk
  <2>5. QED
    BY <2>2, <2>3, <2>4
<1>5. ASSUME NEW t \in Thread, Link(t) PROVE Shape'
  <2>1. mp[t] \in OwnNodes(t) \ appended /\ p[t] \in appended /\ mp[t] \in Node
    BY <1>5 DEF Link
  <2>a. late' \in Nat /\ appended' \subseteq Node
    <3>1. late \in Nat /\ late' = late + 1 /\ appended' = appended \cup {mp[t]}
      BY <1>5 DEF Link, Return
    <3>2. appended' \subseteq Node
      BY <3>1, <2>1
    <3>3. QED
      BY <3>1, <3>2
  <2>b. pc' \in [Thread -> Labels] /\ pc'[Sensor] \in AppendLabels
    BY <1>5 DEF Link, Return
  <2>c. next' \in [Node -> OrNull(Node)] /\ UNCHANGED <<size, mp, p, following, padding, sent, batch>>
    BY <1>5, <2>1 DEF Link
  <2>d. disturbed' \subseteq Node
    BY <1>5, WitnessShape DEF Link
  <2>2. Values'
    BY <2>a, <2>b, <2>c, <2>d
  <2>3. FromAppended'
    BY <1>5, <2>1 DEF Link, Return
  <2>4. Pointers'
    BY <1>5, <2>1 DEF Link, Return
  <2>5. QED
    BY <2>2, <2>3, <2>4
<1>6. CASE Outgoing
  BY <1>6, WitnessShape DEF Outgoing
<1>7. CASE SizeUp
  <2>1. p[Main] \in appended /\ next[p[Main]] \in OrNull(appended)
    BY <1>7 DEF SizeUp
  <2>a. p' \in [Thread -> OrNull(Node)] /\ size' \in Nat
    <3>1. next[p[Main]] \in OrNull(Node)
      BY <2>1
    <3>2. p' = [p EXCEPT ![Main] = next[p[Main]]] /\ size' = size + 1
      BY <1>7 DEF SizeUp
    <3>3. QED
      BY <3>1, <3>2
  <2>2. Values'
    BY <1>7, <2>a, WitnessShape DEF SizeUp
  <2>3. FromAppended' /\ Pointers'
    BY <1>7, <2>1 DEF SizeUp
  <2>4. QED
    BY <2>2, <2>3
<1>8. CASE Sized
  BY <1>8, WitnessShape DEF Sized
<1>9. CASE Copy
  <2>1. p[Main] \in appended /\ next[p[Main]] \in OrNull(appended)
    BY <1>9 DEF Copy
  <2>a. next[p[Main]] \in OrNull(Node)
    BY <2>1
  <2>b. Append(batch, p[Main]) \in Seq(Node)
    BY <2>1, p[Main] \in Node
  <2>2. Values'
    BY <1>9, <2>a, <2>b, WitnessShape DEF Copy
  <2>3. FromAppended' /\ Pointers'
    BY <1>9, <2>1 DEF Copy
  <2>4. QED
    BY <2>2, <2>3
<1>10. CASE Unlink
  BY <1>10, WitnessShape DEF Unlink
<1>11. CASE Advance
  BY <1>11, WitnessShape DEF Advance
<1>12. CASE Done
  <2>1. sent \o batch \in Seq(Node)
    OBVIOUS
  <2>2. \A i \in DOMAIN (sent \o batch) : (sent \o batch)[i] \in appended
    BY ConcatElements
  <2>3. Values'
    BY <1>12, <2>1, WitnessShape DEF Done
  <2>4. FromAppended'
    BY <1>12, <2>2 DEF Done
  <2>5. Pointers'
    BY <1>12 DEF Done
  <2>6. QED
    BY <2>3, <2>4, <2>5
<1>13. CASE UNCHANGED vars
  BY <1>13 DEF vars
<1>14. QED
  BY <1>1, <1>2, <1>3, <1>4, <1>5, <1>6, <1>7, <1>8, <1>9, <1>10, <1>11, <1>12, <1>13
     DEF Next, MainStep, Step, Wait
-----------------------------------------------------------------------------
(* The steps, and what those that are not at the head of the loop of       *)
(* mqtt_cli_outgoing leave alone.                                          *)
LEMMA StepCases ==
  ASSUME [Next]_vars
  PROVE  \/ \E t \in Thread : Create(t) \/ LoadHead(t) \/ SetHead(t) \/ Walk(t) \/ Link(t)
         \/ Outgoing \/ SizeUp \/ Sized \/ Copy \/ Unlink \/ Advance \/ Done
         \/ UNCHANGED vars
  BY Nodes DEF Next, Step, MainStep, Wait

Elsewhere ==
  /\ following' = following
  /\ pc'[Main] \in {"copy", "unlink", "next"} => pc[Main] = pc'[Main] /\ p'[Main] = p[Main]
  /\ pc[Main] \in {"unlink", "next"} => pc'[Main] = pc[Main]
  /\ padding' # padding => \E t \in Thread : SetHead(t)

LEMMA MainElsewhere ==
  ASSUME Shape, [Next]_vars, ~(Sized \/ Copy \/ Unlink \/ Advance)
  PROVE  Elsewhere
<1> USE Nodes DEF Shape, Values, Goto, list, Elsewhere
<1>1. ASSUME NEW t \in Thread, Create(t) PROVE Elsewhere
  BY <1>1 DEF Create
<1>2. ASSUME NEW t \in Thread, LoadHead(t) PROVE Elsewhere
  BY <1>2 DEF LoadHead
<1>3. ASSUME NEW t \in Thread, SetHead(t) PROVE Elsewhere
  <2>1. following' = following /\ p' = p /\ pc' = [pc EXCEPT ![t] = "idle"] /\ pc[t] = "set"
    BY <1>3 DEF SetHead, Return
  <2>2. \E u \in Thread : SetHead(u)
    BY <1>3
  <2>3. QED
    BY <2>1, <2>2
<1>4. ASSUME NEW t \in Thread, Walk(t) PROVE Elsewhere
  BY <1>4 DEF Walk
<1>5. ASSUME NEW t \in Thread, Link(t) PROVE Elsewhere
  BY <1>5 DEF Link, Return
<1>6. CASE Outgoing
  BY <1>6 DEF Outgoing
<1>7. CASE SizeUp
  BY <1>7 DEF SizeUp
<1>8. CASE Done
  BY <1>8 DEF Done
<1>9. CASE UNCHANGED vars
  BY <1>9 DEF vars
<1>10. QED
  BY <1>1, <1>2, <1>3, <1>4, <1>5, <1>6, <1>7, <1>8, <1>9, StepCases

(* Out grows by the node that is copied.                                   *)
LEMMA OutType ==
  ASSUME Shape
  PROVE  /\ Out \in Seq(Node)
         /\ \A i \in DOMAIN Out : Out[i] \in appended
<1>1. sent \in Seq(Node) /\ batch \in Seq(Node)
  BY DEF Shape, Values
<1>2. Out \in Seq(Node)
  BY <1>1 DEF Out
<1>3. \A i \in DOMAIN (sent \o batch) : (sent \o batch)[i] \in appended
  BY <1>1, ConcatElements DEF Shape, FromAppended
<1>4. QED
  BY <1>2, <1>3 DEF Out

LEMMA OutStep ==
  ASSUME Shape, [Next]_vars
  PROVE  /\ Copy => Out' = Append(Out, p[Main])
         /\ ~Copy => Out' = Out
<1>1. sent \in Seq(Node) /\ batch \in Seq(Node) /\ <<>> \in Seq(Node)
  BY DEF Shape, Values
<1>2. CASE Copy
  <2>1. p[Main] \in Node
    BY <1>2, Nodes DEF Copy, Shape, Pointers, OrNull, Values
  <2>2. sent' = sent /\ batch' = Append(batch, p[Main])
    BY <1>2 DEF Copy
  <2>3. sent \o Append(batch, p[Main]) = Append(sent \o batch, p[Main])
    BY <1>1, <2>1
  <2>4. QED
    BY <1>2, <2>2, <2>3 DEF Out
<1>d. ASSUME Done \/ Outgoing PROVE ~Copy
  BY <1>d DEF Done, Outgoing, Copy
<1>3. CASE Done
  <2>1. Out' = (sent \o batch) \o <<>>
    BY <1>3 DEF Done, Out
  <2>2. sent \o batch \in Seq(Node)
    BY <1>1
  <2>3. QED
    BY <2>1, <2>2, <1>d, <1>3, ConcatEmptySeq DEF Out
<1>4. CASE Outgoing
  <2>1. batch = <<>>
    BY <1>4 DEF Outgoing, Shape, Pointers
  <2>2. QED
    BY <1>d, <1>4, <2>1 DEF Outgoing, Out
<1>5. CASE ~(Copy \/ Done \/ Outgoing)
  <2>1. sent' = sent /\ batch' = batch /\ ~Copy
    BY <1>5 DEF Next, Step, MainStep, Create, LoadHead, SetHead, Walk, Link, SizeUp, Sized, Unlink,
                Advance, Wait, vars
  <2>2. QED
    BY <2>1 DEF Out
<1>6. QED
  BY <1>2, <1>3, <1>4, <1>5
-----------------------------------------------------------------------------
LEMMA OrderedInit == Init => Ordered
<1> SUFFICES ASSUME Init PROVE Ordered
  OBVIOUS
<1> DEFINE r == [y \in Node |-> 0]
<1>1. r \in [Node -> Nat]
  OBVIOUS
<1>2. Out = <<>>
  BY DEF Init, Out
<1>3. Ranks(r, 0)
  BY <1>2 DEF Init, Ranks, Rising, Ahead
<1>4. Counted(r)
  BY FS_EmptySet DEF Init, Counted
<1>5. QED
  BY <1>1, <1>3, <1>4 DEF Ordered

LEMMA RanksQuiet ==
  ASSUME Shape, [Next]_vars, UNCHANGED <<next, appended>>,
         NEW r \in [Node -> Nat], NEW n \in Nat, Ranks(r, n)
  PROVE  Ranks(r, n)'
<1>1. CASE Copy
  <2>1. p[Main] \in appended /\ p[Main] \in Node /\ p[Main] # Null /\ following' = next[p[Main]] /\ pc'[Main] = "unlink"
    BY <1>1, Nodes DEF Copy, Shape, Pointers, OrNull, Values, Goto
  <2>2. Out' = Append(Out, p[Main])
    BY <1>1, OutStep
  <2>3. \A i \in DOMAIN Out : r[Out[i]] < r[p[Main]] /\ Out[i] \in Node
    BY <1>1, <2>1, OutType DEF Copy, Ranks, Ahead
  <2>4. \A i \in DOMAIN Out' :
          \/ i \in DOMAIN Out /\ Out'[i] = Out[i]
          \/ i = Len(Out) + 1 /\ Out'[i] = p[Main]
    <3>1. Out \in Seq(Node)
      BY OutType
    <3>2. p[Main] \in Node
      BY <2>1
    <3>3. \A i \in DOMAIN Append(Out, p[Main]) :
            \/ i \in DOMAIN Out /\ Append(Out, p[Main])[i] = Out[i]
            \/ i = Len(Out) + 1 /\ Append(Out, p[Main])[i] = p[Main]
      BY <3>1, <3>2, AppendElements
    <3>4. QED
      BY <2>2, <3>3
  <2>5. Rising(r, Out)'
    BY <2>3, <2>4, OutType DEF Rising, Ranks
  <2>6. Ahead(r, following)'
    <3> SUFFICES ASSUME next[p[Main]] # Null, NEW i \in DOMAIN Out'
                 PROVE  r[Out'[i]] < r[next[p[Main]]]
      BY <2>1 DEF Ahead
    <3>1. next[p[Main]] \in Node /\ r[p[Main]] < r[next[p[Main]]]
      BY <2>1 DEF Ranks, Shape, FromAppended, Values
    <3>2. r[p[Main]] \in Nat /\ r[next[p[Main]]] \in Nat
      BY <3>1, <2>1
    <3>3. CASE i \in DOMAIN Out /\ Out'[i] = Out[i]
      <4>1. r[Out[i]] < r[p[Main]] /\ r[Out[i]] \in Nat
        BY <2>3, <3>3
      <4>2. QED
        BY <3>1, <3>2, <3>3, <4>1
    <3>4. CASE Out'[i] = p[Main]
      BY <3>1, <3>4
    <3>5. QED
      BY <2>4, <3>3, <3>4
  <2>7. QED
    BY <1>1, <2>1, <2>5, <2>6 DEF Ranks, Copy, Goto, list
<1>2. CASE ~Copy
  <2>1. Out' = Out
    BY <1>2, OutStep
  <2>2. \A x : Ahead(r, x)' <=> Ahead(r, x)
    BY <2>1 DEF Ahead
  <2>3. Rising(r, Out)'
    BY <2>1 DEF Ranks, Rising
  <2> USE DEF Goto, list, Shape, Values
  <2>4. CASE Sized
    BY <2>2, <2>3, <2>4 DEF Sized, Ranks
  <2>5. CASE Unlink
    BY <2>2, <2>3, <2>5 DEF Unlink, Ranks
  <2>6. CASE Advance
    BY <2>2, <2>3, <2>6 DEF Advance, Ranks
  <2>7. CASE ~(Sized \/ Unlink \/ Advance)
    <3>1. Elsewhere
      BY <1>2, <2>7, MainElsewhere
    <3>2. \A t \in Thread : ~SetHead(t)
      BY DEF SetHead, Return, Pointers, Appending, AppendLabels
    <3>3. QED
      BY <2>2, <2>3, <3>1, <3>2 DEF Ranks, Elsewhere
  <2>8. QED
    BY <2>4, <2>5, <2>6, <2>7
<1>3. QED
  BY <1>1, <1>2

(* The steps that put a node into the list.                                *)
Appends(t) == SetHead(t) \/ Link(t)

(* The new node gets the highest rank.                                     *)
LEMMA RanksAppended ==
  ASSUME Shape, [Next]_vars, NEW t \in Thread, Appends(t),
         NEW r \in [Node -> Nat], NEW n \in Nat, Ranks(r, n),
         NEW x, x = mp[t], NEW r2, r2 = [r EXCEPT ![x] = n]
  PROVE  Ranks(r2, n + 1)'
<1>1. /\ x \in Node \ appended /\ appended' = appended \cup {x} /\ appended \subseteq Node
      /\ p' = p /\ following' = following /\ pc' = [pc EXCEPT ![t] = "idle"] /\ Out' = Out
      /\ pc[t] \in {"set", "link"}
  <2>1. pc[t] \in {"set", "link"}
    BY DEF Appends, SetHead, Link
  <2>2. x \in Node \ appended /\ appended \subseteq Node
    BY <2>1, Nodes DEF Shape, Pointers, Appending, Values
  <2>3. Out' = Out
    BY DEF Out, Appends, SetHead, Link
  <2>4. QED
    BY <2>1, <2>2, <2>3 DEF Appends, SetHead, Link, Return, Goto
<1>2. r2 \in [Node -> Nat] /\ r2[x] = n /\ \A y \in appended : r2[y] = r[y]
  BY <1>1
<1>3. \A y \in appended' : r2[y] < n + 1
  BY <1>1, <1>2 DEF Ranks
<1>4. \A y \in Node : next'[y] # Null => r2[y] < r2[next'[y]]
  <2> SUFFICES ASSUME NEW y \in Node, next'[y] # Null PROVE r2[y] < r2[next'[y]]
    OBVIOUS
  <2>1. CASE next'[y] = next[y]
    BY <1>1, <1>2, <2>1 DEF Ranks, Shape, FromAppended
  <2>2. CASE next'[y] # next[y]
    <3>1. Link(t)
      BY <2>2 DEF Appends, SetHead
    <3>2. y = p[t] /\ next'[y] = x /\ p[t] \in appended
      BY <2>2, <3>1 DEF Link, Shape, Pointers, Values
    <3>3. r[y] < n
      BY <3>2 DEF Ranks
    <3>4. QED
      BY <1>2, <3>2, <3>3
  <2>3. QED
    BY <2>1, <2>2
<1>5. \A i \in DOMAIN Out : Out[i] \in appended /\ r2[Out[i]] = r[Out[i]]
  BY <1>2, OutType
<1>6. Rising(r2, Out)'
  BY <1>1, <1>5 DEF Ranks, Rising
<1>7. \A a \in OrNull(appended) : Ahead(r, a) => (\A i \in DOMAIN Out : a # Null => r2[Out[i]] < r2[a])
  BY <1>2, <1>5 DEF Ahead, OrNull
<1>8. \A i \in DOMAIN Out : r2[Out[i]] < r2[x]
  BY <1>2, <1>5 DEF Ranks
<1>9. pc'[Main] # "unlink" => Ahead(r2, padding)'
  <2>1. CASE padding' = x
    BY <1>1, <1>8, <2>1 DEF Ahead
  <2>2. CASE padding' # x
    <3>1. padding' = padding
      BY <2>2 DEF Appends, SetHead, Link
    <3>2. pc'[Main] # "unlink" => pc[Main] # "unlink"
      BY <1>1, Nodes DEF Shape, Values
    <3>3. padding \in OrNull(appended)
      BY DEF Shape, FromAppended
    <3>4. QED
      BY <1>1, <1>7, <3>1, <3>2, <3>3 DEF Ranks, Ahead
  <2>3. QED
    BY <2>1, <2>2
<1>10. pc'[Main] \in {"copy", "unlink", "next"} => pc[Main] = pc'[Main]
  BY <1>1, Nodes DEF Shape, Values
<1>11. pc'[Main] = "copy" => Ahead(r2, p[Main])'
  BY <1>1, <1>7, <1>10 DEF Ranks, Ahead, Shape, Pointers
<1>12. pc'[Main] \in {"unlink", "next"} => Ahead(r2, following)'
  BY <1>1, <1>7, <1>10 DEF Ranks, Ahead, Shape, Pointers
<1>13. QED
  BY <1>3, <1>4, <1>6, <1>9, <1>11, <1>12 DEF Ranks

LEMMA NodesFinite ==
  /\ IsFiniteSet(Node)
  /\ \A C \in SUBSET Node : IsFiniteSet(C) /\ Cardinality(C) \in 0..Cardinality(Node)
<1>1. IsFiniteSet(Node) /\ Cardinality(Node) \in Nat
  BY CountAssumption, FS_Interval, FS_CardinalityType DEF Node
<1>2. ASSUME NEW C \in SUBSET Node PROVE IsFiniteSet(C) /\ Cardinality(C) \in 0..Cardinality(Node)
  BY <1>1, FS_Subset, FS_CardinalityType
<1>3. QED
  BY <1>1, <1>2

(* What the steps outside the sizing pass do to it.                        *)
AtSize ==
  /\ size' = size /\ appended \subseteq appended'
  /\ pc'[Main] = "size" => pc[Main] = "size" /\ p'[Main] = p[Main]

LEMMA SizeElsewhere ==
  ASSUME Shape, [Next]_vars, ~(Outgoing \/ SizeUp \/ Done)
  PROVE  AtSize
<1> USE Nodes DEF Shape, Values, Goto, list, AtSize
<1>1. ASSUME NEW t \in Thread, Create(t) PROVE AtSize
  BY <1>1 DEF Create
<1>2. ASSUME NEW t \in Thread, LoadHead(t) PROVE AtSize
  BY <1>2 DEF LoadHead
<1>3. ASSUME NEW t \in Thread, SetHead(t) PROVE AtSize
  BY <1>3 DEF SetHead, Return
<1>4. ASSUME NEW t \in Thread, Walk(t) PROVE AtSize
  BY <1>4 DEF Walk
<1>5. ASSUME NEW t \in Thread, Link(t) PROVE AtSize
  BY <1>5 DEF Link, Return
<1>6. CASE Sized
  BY <1>6 DEF Sized
<1>7. CASE Copy
  BY <1>7 DEF Copy
<1>8. CASE Unlink
  BY <1>8 DEF Unlink
<1>9. CASE Advance
  BY <1>9 DEF Advance
<1>10. CASE UNCHANGED vars
  BY <1>10 DEF vars
<1>11. QED
  BY <1>1, <1>2, <1>3, <1>4, <1>5, <1>6, <1>7, <1>8, <1>9, <1>10, StepCases

LEMMA CountedStep ==
  ASSUME Shape, [Next]_vars, NEW r \in [Node -> Nat], NEW n \in Nat, Ranks(r, n), Counted(r),
         NEW r2 \in [Node -> Nat], \A y \in appended : r2[y] = r[y]
  PROVE  Counted(r2)'
<1>1. PICK C \in SUBSET appended :
        /\ size = Cardinality(C)
        /\ pc[Main] = "size" /\ p[Main] # Null => \A y \in C : r[y] < r[p[Main]]
  BY DEF Counted
<1>2. appended \subseteq Node
  BY DEF Shape, Values
<1>3. CASE Outgoing \/ Done
  <2>1. size' = 0
    BY <1>3 DEF Outgoing, Done
  <2>2. {} \in SUBSET appended' /\ Cardinality({}) = 0
    BY FS_EmptySet
  <2>3. QED
    BY <2>1, <2>2 DEF Counted
<1>4. CASE SizeUp
  <2>1. /\ p[Main] \in appended /\ size' = size + 1 /\ appended' = appended
        /\ pc' = pc /\ pc[Main] = "size" /\ p'[Main] = next[p[Main]] /\ p[Main] # Null
    BY <1>4, Nodes DEF SizeUp, Shape, Pointers, OrNull, Values
  <2>2. \A y \in C : r[y] < r[p[Main]] /\ r[y] \in Nat /\ r[p[Main]] \in Nat
    BY <1>1, <1>2, <2>1
  <2>3. p[Main] \notin C
    BY <2>2
  <2>4. Cardinality(C \cup {p[Main]}) = size + 1
    BY <1>1, <1>2, <2>3, NodesFinite, FS_AddElement
  <2>5. ASSUME p'[Main] # Null, NEW y \in C \cup {p[Main]}
        PROVE  r2[y] < r2[p'[Main]]
    <3>1. next[p[Main]] \in appended /\ r[p[Main]] < r[next[p[Main]]]
      BY <1>2, <2>1, <2>5 DEF Ranks, Shape, FromAppended
    <3>2. r[y] < r[next[p[Main]]]
      BY <1>2, <2>1, <2>2, <3>1
    <3>3. QED
      BY <1>2, <2>1, <3>1, <3>2
  <2>6. QED
    BY <2>1, <2>4, <2>5 DEF Counted
<1>5. CASE ~(Outgoing \/ SizeUp \/ Done)
  <2>1. AtSize
    BY <1>5, SizeElsewhere
  <2>2. pc[Main] = "size" => p[Main] \in OrNull(appended)
    BY DEF Shape, Pointers
  <2>3. QED
    BY <1>1, <2>1, <2>2 DEF AtSize, Counted, OrNull
<1>6. QED
  BY <1>3, <1>4, <1>5

LEMMA OrderedStep ==
  ASSUME Shape, Ordered, [Next]_vars
  PROVE  Ordered'
<1>1. PICK r \in [Node -> Nat], n \in Nat : Ranks(r, n) /\ Counted(r)
  BY DEF Ordered
<1>2. CASE \E t \in Thread : Appends(t)
  <2>1. PICK t \in Thread : Appends(t)
    BY <1>2
  <2>2. PICK x : x = mp[t]
    OBVIOUS
  <2>3. x \notin appended
    BY <2>1, <2>2, Nodes DEF Appends, SetHead, Link, Shape, Pointers, Appending
  <2>4. PICK r2 : r2 = [r EXCEPT ![x] = n]
    OBVIOUS
  <2>5. r2 \in [Node -> Nat] /\ \A y \in appended : r2[y] = r[y]
    BY <2>3, <2>4 DEF Shape, Values
  <2>6. Ranks(r2, n + 1)'
    BY <1>1, <2>1, <2>2, <2>4, RanksAppended
  <2>7. Counted(r2)'
    BY <1>1, <2>5, CountedStep
  <2>8. QED
    BY <2>5, <2>6, <2>7 DEF Ordered
<1>3. CASE ~\E t \in Thread : Appends(t)
  <2>1. UNCHANGED <<next, appended>>
    BY <1>3, StepCases DEF Appends, Create, LoadHead, Walk, Outgoing, SizeUp, Sized, Copy, Unlink,
                           Advance, Done, vars, list
  <2>2. Ranks(r, n)'
    BY <1>1, <2>1, RanksQuiet
  <2>3. Counted(r)'
    BY <1>1, CountedStep
  <2>4. QED
    BY <2>2, <2>3 DEF Ordered
<1>4. QED
  BY <1>2, <1>3

LEMMA OrderedSentOnce == Shape /\ Ordered => SentOnce
<1> SUFFICES ASSUME Shape, Ordered, NEW i \in DOMAIN Out, NEW j \in DOMAIN Out, i # j
             PROVE  Out[i] # Out[j]
  BY DEF SentOnce, Out
<1>1. PICK r \in [Node -> Nat], n \in Nat : Rising(r, Out)
  BY DEF Ordered, Ranks
<1>2. i \in Nat /\ j \in Nat /\ Out[i] \in Node /\ Out[j] \in Node
  BY OutType
<1>3. i < j \/ j < i
  BY <1>2
<1>4. r[Out[i]] < r[Out[j]] \/ r[Out[j]] < r[Out[i]]
  BY <1>1, <1>3 DEF Rising
<1>5. QED
  BY <1>2, <1>4

LEMMA OrderedTypeOK == Shape /\ Ordered => TypeOK
<1> SUFFICES ASSUME Shape, Ordered PROVE TypeOK
  OBVIOUS
<1>1. \E C \in SUBSET appended : size = Cardinality(C)
  BY DEF Ordered, Counted
<1>2. size \in 0..Cardinality(Node)
  BY <1>1, NodesFinite DEF Shape, Values
<1>3. \A t \in Thread : pc[t] \in {"set", "walk", "link"} =>
        mp[t] \in OwnNodes(t) /\ (p[t] = Null <=> pc[t] = "set")
  BY Nodes DEF Shape, Values, Pointers, Appending
<1>4. QED
  BY <1>2, <1>3 DEF TypeOK, Shape, Values, OrNull, AppendLabels
-----------------------------------------------------------------------------
(* The nodes from which w is reached along f: the least set that has w and *)
(* with a node all that have it as their next.                             *)
Gathers(f, S) == \A y \in Node : f[y] \in S => y \in S

Above(f, w) == {x \in Node : \A S \in SUBSET Node : w \in S /\ Gathers(f, S) => x \in S}

(* The number of nodes of a chain.  One exists because the list is no ring.*)
Heights(f, h) == h[Null] = 0 /\ \A y \in Node : h[y] = 1 + h[f[y]]

(* What is still to be copied fits into what has been or will be counted,  *)
(* but for the nodes appended since.  While the first pass is on its way,  *)
(* the nodes behind it are counted and those before it are not; if it has  *)
(* lost the list, the list is no longer than `late'.                       *)
Room(h) ==
  /\ pc[Main] = "size" =>
       \/ /\ p[Main] # Null /\ padding \in Above(next, p[Main])
          /\ h[padding] <= size + late + h[p[Main]]
       \/ h[padding] <= size + late
  /\ pc[Main] = "copy" => Len(batch) + h[p[Main]] <= size + late
  /\ pc[Main] \in {"unlink", "next"} => Len(batch) + h[following] <= size + late
  /\ pc[Main] = "next" => Len(batch) + h[padding] <= size + late

Fits == \E h \in [OrNull(Node) -> Nat] : Heights(next, h) /\ Room(h)

LEMMA AboveLeast ==
  ASSUME NEW f, NEW w, NEW S \in SUBSET Node, w \in S, Gathers(f, S)
  PROVE  Above(f, w) \subseteq S
  BY DEF Above

LEMMA AboveGathers ==
  ASSUME NEW f, NEW w \in Node
  PROVE  w \in Above(f, w) /\ Gathers(f, Above(f, w)) /\ Above(f, w) \subseteq Node
<1>1. w \in Above(f, w) /\ Above(f, w) \subseteq Node
  BY DEF Above
<1>2. ASSUME NEW y \in Node, f[y] \in Above(f, w), NEW S \in SUBSET Node, w \in S, Gathers(f, S)
      PROVE  y \in S
  BY <1>2, AboveLeast DEF Gathers
<1>3. QED
  BY <1>1, <1>2 DEF Above, Gathers

LEMMA AboveNext ==
  ASSUME NEW f, NEW w \in Node, NEW y \in Above(f, w), y # w
  PROVE  f[y] \in Above(f, w)
<1> DEFINE S == {z \in Above(f, w) : z = w \/ f[z] \in Above(f, w)}
<1>1. w \in S /\ S \in SUBSET Node /\ S \subseteq Above(f, w)
  BY AboveGathers
<1>2. Gathers(f, S)
  BY <1>1, AboveGathers DEF Gathers
<1>3. y \in S
  BY <1>1, <1>2, AboveLeast
<1>4. QED
  BY <1>3

LEMMA AboveFork ==
  ASSUME NEW f, NEW v \in Node, NEW w \in Node, NEW a \in Above(f, v) \cap Above(f, w)
  PROVE  v \in Above(f, w) \/ w \in Above(f, v)
<1> SUFFICES ASSUME v \notin Above(f, w), w \notin Above(f, v) PROVE FALSE
  OBVIOUS
<1> DEFINE S == Above(f, w) \ Above(f, v)
<1>1. w \in S /\ S \in SUBSET Node
  BY AboveGathers
<1>2. ASSUME NEW y \in Node, f[y] \in S PROVE y \in S
  <2>1. y \in Above(f, w)
    BY <1>2, AboveGathers DEF Gathers
  <2>2. y \notin Above(f, v)
    BY <1>2, <2>1, AboveNext
  <2>3. QED
    BY <2>1, <2>2
<1>3. Gathers(f, S)
  BY <1>2 DEF Gathers
<1>4. Above(f, w) \subseteq S
  BY <1>1, <1>3, AboveLeast
<1>5. QED
  BY <1>4

LEMMA HeightOf ==
  ASSUME NEW f \in [Node -> OrNull(Node)], NEW h \in [OrNull(Node) -> Nat], Heights(f, h),
         NEW w \in Node, NEW y \in Above(f, w)
  PROVE  h[y] >= h[w] /\ h[w] >= 1
<1> DEFINE S == {z \in Node : h[z] >= h[w]}
<1>1. w \in S /\ h[w] >= 1
  BY DEF OrNull, Heights
<1>2. ASSUME NEW z \in Node, f[z] \in S PROVE z \in S
  <2>1. h[z] = 1 + h[f[z]] /\ h[f[z]] \in Nat /\ h[w] \in Nat /\ h[f[z]] >= h[w]
    BY <1>2 DEF OrNull, Heights
  <2>2. QED
    BY <2>1
<1>3. y \in S
  BY <1>1, <1>2, AboveLeast DEF Gathers
<1>4. QED
  BY <1>1, <1>3

(* A link that puts x after w, whatever was there, and the heights then.   *)
Linked(f, w, x) == [f EXCEPT ![w] = x]

Raised(f, h, w) ==
  [y \in OrNull(Node) |-> IF y \in Above(f, w) THEN h[y] - h[w] + 2 ELSE h[y]]

LEMMA HeightsLinked ==
  ASSUME NEW f \in [Node -> OrNull(Node)], NEW h \in [OrNull(Node) -> Nat], Heights(f, h),
         NEW w \in Node, NEW x \in Node, x # w, f[x] = Null,
         NEW g, g = Linked(f, w, x),
         NEW k, k = Raised(f, h, w)
  PROVE  /\ k \in [OrNull(Node) -> Nat] /\ Heights(g, k)
         /\ \A y \in OrNull(Node) : k[y] <= h[y] + 1
<1> USE Nodes DEF OrNull, Linked, Raised
<1>1. \A y \in Above(f, w) : y \in Node /\ h[y] \in Nat /\ h[w] \in Nat /\ h[y] >= h[w] /\ h[w] >= 1
  BY HeightOf, AboveGathers
<1>2. k \in [OrNull(Node) -> Nat]
  <2>1. ASSUME NEW y \in OrNull(Node) PROVE k[y] \in Nat
    BY <1>1
  <2>2. QED
    BY <2>1
<1>3. ASSUME NEW y \in OrNull(Node) PROVE k[y] <= h[y] + 1
  BY <1>1
<1>4. Null \notin Above(f, w)
  BY <1>1
<1>5. x \notin Above(f, w)
  BY <1>4, AboveNext
<1>6. k[Null] = 0
  BY <1>4 DEF Heights
<1>7. ASSUME NEW y \in Node PROVE k[y] = 1 + k[g[y]]
  <2>1. CASE y = w
    <3>1. w \in Above(f, w) /\ g[w] = x
      BY AboveGathers
    <3>2. k[x] = 1 + 0
      BY <1>5 DEF Heights
    <3>3. k[w] = h[w] - h[w] + 2 /\ h[w] \in Nat
      BY <3>1
    <3>4. QED
      BY <2>1, <3>1, <3>2, <3>3
  <2>2. CASE y # w /\ y \in Above(f, w)
    <3>1. f[y] \in Above(f, w) /\ g[y] = f[y]
      BY <2>2, AboveNext
    <3>2. h[y] = 1 + h[f[y]] /\ h[f[y]] \in Nat /\ h[w] \in Nat
      BY <1>1, <3>1 DEF Heights
    <3>3. k[y] = h[y] - h[w] + 2 /\ k[f[y]] = h[f[y]] - h[w] + 2
      BY <1>1, <2>2, <3>1
    <3>4. QED
      BY <3>1, <3>2, <3>3
  <2>3. CASE y # w /\ y \notin Above(f, w)
    <3>1. f[y] \notin Above(f, w) /\ g[y] = f[y] /\ f[y] \in OrNull(Node)
      BY <2>3, AboveGathers DEF Gathers
    <3>2. QED
      BY <2>3, <3>1 DEF Heights
  <2>4. QED
    BY <2>1, <2>2, <2>3
<1>8. QED
  BY <1>2, <1>3, <1>6, <1>7 DEF Heights

(* A stale link may cut off the node the walk is at: the list is then as   *)
(* short as what had been counted.                                         *)
LEMMA LinkKeepsRoom ==
  ASSUME NEW f \in [Node -> OrNull(Node)], NEW h \in [OrNull(Node) -> Nat], Heights(f, h),
         NEW w \in Node, NEW x \in Node, x # w, f[x] = Null,
         NEW g, g = Linked(f, w, x),
         NEW k, k = Raised(f, h, w),
         NEW a \in Node, NEW q \in Node, NEW m \in Nat, a \in Above(f, q), h[a] <= m + h[q]
  PROVE  \/ a \in Above(g, q) /\ k[a] <= m + 1 + k[q]
         \/ k[a] <= m + 1
<1> USE Nodes DEF OrNull, Linked, Raised
<1>1. \A y \in Above(f, w) : y \in Node /\ h[y] \in Nat /\ h[w] \in Nat /\ h[y] >= h[w] /\ h[w] >= 1
  BY HeightOf, AboveGathers
<1>2. CASE q \in Above(f, w)
  <2>1. a \in Above(f, w)
    BY <1>2, AboveGathers, AboveLeast
  <2>2. k[a] = h[a] - h[w] + 2 /\ k[q] = h[q] - h[w] + 2
    BY <1>1, <1>2, <2>1
  <2>3. k[a] <= m + 1 + k[q]
    BY <1>1, <1>2, <2>1, <2>2
  <2>4. a \in Above(g, q)
    <3> SUFFICES ASSUME NEW S \in SUBSET Node, q \in S, Gathers(g, S) PROVE a \in S
      BY DEF Above
    <3> DEFINE T == S \cap Above(f, q)
    <3>1. T \in SUBSET Node /\ q \in T
      BY AboveGathers
    <3>2. ASSUME w \in Above(f, q) PROVE w = q
      <4> SUFFICES ASSUME w # q PROVE FALSE
        OBVIOUS
      <4>1. f[w] \in Above(f, q)
        BY <3>2, AboveNext
      <4>2. f[w] \in Node /\ h[f[w]] >= h[q] /\ h[w] = 1 + h[f[w]] /\ h[q] >= h[w]
        BY <1>1, <1>2, <4>1, AboveGathers, HeightOf DEF Heights
      <4>3. QED
        BY <4>2
    <3>3. ASSUME NEW y \in Node, f[y] \in T PROVE y \in T
      <4>1. y \in Above(f, q)
        BY <3>3, AboveGathers DEF Gathers
      <4>2. CASE y = w
        BY <3>1, <3>2, <4>1, <4>2
      <4>3. CASE y # w
        BY <3>3, <4>1, <4>3 DEF Gathers
      <4>4. QED
        BY <4>2, <4>3
    <3>4. Gathers(f, T)
      BY <3>3 DEF Gathers
    <3>5. a \in T
      BY <3>1, <3>4, AboveLeast
    <3>6. QED
      BY <3>5
  <2>5. QED
    BY <2>3, <2>4
<1>3. CASE q \notin Above(f, w) /\ a \notin Above(f, w)
  <2>1. k[a] = h[a] /\ k[q] = h[q]
    BY <1>3
  <2>2. a \in Above(g, q)
    <3> SUFFICES ASSUME NEW S \in SUBSET Node, q \in S, Gathers(g, S) PROVE a \in S
      BY DEF Above
    <3> DEFINE T == S \cup Above(f, w)
    <3>1. T \in SUBSET Node /\ q \in T
      BY AboveGathers
    <3>2. ASSUME NEW y \in Node, f[y] \in T PROVE y \in T
      BY <3>2, AboveGathers DEF Gathers
    <3>3. Gathers(f, T)
      BY <3>2 DEF Gathers
    <3>4. a \in T
      BY <3>1, <3>3, AboveLeast
    <3>5. QED
      BY <1>3, <3>4
  <2>3. QED
    BY <2>1, <2>2
<1>4. CASE q \notin Above(f, w) /\ a \in Above(f, w)
  <2>1. w \in Above(f, q) /\ w # q
    BY <1>4, AboveFork, AboveGathers
  <2>2. f[w] \in Above(f, q)
    BY <2>1, AboveNext
  <2>3. h[w] >= 1 + h[q] /\ h[w] \in Nat /\ h[q] \in Nat
    <3>1. f[w] \in Node /\ h[f[w]] >= h[q] /\ h[w] = 1 + h[f[w]]
      BY <2>2, AboveGathers, HeightOf DEF Heights
    <3>2. QED
      BY <3>1
  <2>4. k[a] = h[a] - h[w] + 2 /\ h[a] \in Nat
    BY <1>4
  <2>5. QED
    BY <2>3, <2>4
<1>5. QED
  BY <1>2, <1>3, <1>4

AtOutgoing == pc[Main] \in {"size", "copy", "unlink", "next"}

LEMMA FitsAppended ==
  ASSUME Shape, Fits, [Next]_vars, NEW t \in Thread, Appends(t)
  PROVE  Fits'
<1> USE Nodes
<1>1. PICK h \in [OrNull(Node) -> Nat] : Heights(next, h) /\ Room(h)
  BY DEF Fits
<1>2. PICK x : x = mp[t]
  OBVIOUS
<1>3. /\ x \in Node \ appended /\ late' = late + 1 /\ late \in Nat /\ size' = size /\ size \in Nat
      /\ p' = p /\ following' = following /\ batch' = batch /\ Len(batch) \in Nat
      /\ pc' = [pc EXCEPT ![t] = "idle"] /\ pc[t] \in {"set", "link"}
  <2>1. pc[t] \in {"set", "link"}
    BY DEF Appends, SetHead, Link
  <2>2. x \in Node \ appended
    BY <1>2, <2>1 DEF Shape, Pointers, Appending
  <2>3. late \in Nat /\ size \in Nat /\ batch \in Seq(Node)
    BY DEF Shape, Values
  <2>4. QED
    BY <2>1, <2>2, <2>3 DEF Appends, SetHead, Link, Return, Goto
<1>4. \A y \in OrNull(Node) : h[y] \in Nat
  OBVIOUS
<1>5. next \in [Node -> OrNull(Node)] /\ next[x] = Null
  BY <1>3 DEF Shape, Values, FromAppended
<1>6. AtOutgoing' => pc'[Main] = pc[Main]
  BY <1>3 DEF AtOutgoing, Shape, Values
<1>7. /\ padding \in OrNull(Node) /\ following \in OrNull(Node)
      /\ p[Main] \in OrNull(Node)
  BY DEF Shape, Values
<1>8. CASE SetHead(t)
  <2>1. padding' = x /\ next' = next
    BY <1>2, <1>8 DEF SetHead
  <2>2. h[x] = 1
    BY <1>1, <1>3, <1>5 DEF Heights
  <2>3. pc'[Main] = "size" => h[padding'] <= size' + late'
    BY <1>3, <2>1, <2>2
  <2>4. pc'[Main] = "copy" => Len(batch') + h[p'[Main]] <= size' + late'
    BY <1>1, <1>3, <1>4, <1>6, <1>7 DEF Room, AtOutgoing
  <2>5. pc'[Main] \in {"unlink", "next"} => Len(batch') + h[following'] <= size' + late'
    BY <1>1, <1>3, <1>4, <1>6, <1>7 DEF Room, AtOutgoing
  <2>6. pc'[Main] = "next" => Len(batch') + h[padding'] <= size' + late'
    BY <1>1, <1>3, <1>4, <1>6, <1>7, <2>1, <2>2 DEF Room, AtOutgoing
  <2>7. Room(h)'
    BY <2>3, <2>4, <2>5, <2>6 DEF Room
  <2>8. QED
    BY <1>1, <2>1, <2>7 DEF Fits
<1>9. CASE Link(t)
  <2>1. PICK w : w = p[t]
    OBVIOUS
  <2>2. w \in Node /\ w \in appended /\ x # w /\ next' = Linked(next, w, x) /\ padding' = padding
    BY <1>2, <1>3, <1>9, <2>1 DEF Linked, Link, Shape, Pointers, Values
  <2>3. PICK k : k = Raised(next, h, w)
    OBVIOUS
  <2>4. PICK g : g = Linked(next, w, x)
    OBVIOUS
  <2>5. /\ k \in [OrNull(Node) -> Nat] /\ Heights(g, k)
        /\ \A y \in OrNull(Node) : k[y] <= h[y] + 1
    BY <1>1, <1>3, <1>5, <2>2, <2>3, <2>4, HeightsLinked
  <2>6. \A y \in OrNull(Node) : k[y] \in Nat
    BY <2>5
  <2>7. pc'[Main] = "size" =>
          \/ /\ p'[Main] # Null /\ padding' \in Above(g, p'[Main])
             /\ k[padding'] <= size' + late' + k[p'[Main]]
          \/ k[padding'] <= size' + late'
    <3> SUFFICES ASSUME pc[Main] = "size"
                 PROVE  \/ /\ p[Main] # Null /\ padding \in Above(g, p[Main])
                           /\ k[padding] <= size + late + 1 + k[p[Main]]
                        \/ k[padding] <= size + late + 1
      BY <1>3, <1>4, <1>6, <1>7, <2>2, <2>6 DEF AtOutgoing
    <3>1. CASE h[padding] <= size + late
      BY <1>3, <1>4, <1>7, <2>5, <2>6, <3>1
    <3>2. CASE /\ p[Main] # Null /\ padding \in Above(next, p[Main])
               /\ h[padding] <= size + late + h[p[Main]]
      <4>1. p[Main] \in Node
        BY <1>7, <3>2 DEF OrNull
      <4>a. padding \in Node
        BY <3>2 DEF Above
      <4>b. size + late \in Nat
        BY <1>3
      <4>2. QED
        BY <1>1, <1>3, <1>5, <2>2, <2>3, <2>4, <3>2, <4>1, <4>a, <4>b, LinkKeepsRoom
    <3>3. QED
      BY <1>1, <3>1, <3>2 DEF Room
  <2>8. pc'[Main] = "copy" => Len(batch') + k[p'[Main]] <= size' + late'
    BY <1>1, <1>3, <1>4, <1>6, <1>7, <2>5, <2>6 DEF Room, AtOutgoing
  <2>9. pc'[Main] \in {"unlink", "next"} => Len(batch') + k[following'] <= size' + late'
    BY <1>1, <1>3, <1>4, <1>6, <1>7, <2>5, <2>6 DEF Room, AtOutgoing
  <2>10. pc'[Main] = "next" => Len(batch') + k[padding'] <= size' + late'
    BY <1>1, <1>3, <1>4, <1>6, <1>7, <2>2, <2>5, <2>6 DEF Room, AtOutgoing
  <2>11. Room(k)'
    BY <2>2, <2>4, <2>7, <2>8, <2>9, <2>10 DEF Room
  <2>12. QED
    BY <2>2, <2>4, <2>5, <2>11 DEF Fits
<1>10. QED
  BY <1>8, <1>9 DEF Appends

LEMMA FitsInit == Init => Fits
<1> SUFFICES ASSUME Init PROVE Fits
  OBVIOUS
<1> DEFINE h == [y \in OrNull(Node) |-> IF y = Null THEN 0 ELSE 1]
<1>1. h \in [OrNull(Node) -> Nat]
  OBVIOUS
<1>2. Heights(next, h)
  BY Nodes DEF Init, Heights, OrNull
<1>3. Room(h)
  BY Nodes DEF Init, Room
<1>4. QED
  BY <1>1, <1>2, <1>3 DEF Fits

LEMMA FitsQuiet ==
  ASSUME Shape, Fits, [Next]_vars, ~\E t \in Thread : Appends(t)
  PROVE  Fits'
<1> USE Nodes
<1>1. PICK h \in [OrNull(Node) -> Nat] : Heights(next, h) /\ Room(h)
  BY DEF Fits
<1>2. next' = next
  BY StepCases DEF Appends, Create, LoadHead, Walk, Outgoing, SizeUp, Sized, Copy, Unlink,
                   Advance, Done, vars, list
<1>3. /\ padding \in OrNull(Node) /\ following \in OrNull(Node) /\ p[Main] \in OrNull(Node)
      /\ \A y \in OrNull(Node) : h[y] \in Nat
      /\ next \in [Node -> OrNull(Node)] /\ p \in [Thread -> OrNull(Node)] /\ pc \in [Thread -> Labels]
  BY DEF Shape, Values
<1>4. size \in Nat /\ late \in Nat /\ batch \in Seq(Node) /\ Len(batch) \in Nat
  BY DEF Shape, Values
<1>5. SUFFICES Room(h)'
  BY <1>1, <1>2 DEF Fits
<1> USE DEF Goto, list
<1>6. CASE Outgoing
  <2>1. /\ pc'[Main] = "size" /\ p'[Main] = padding /\ padding # Null /\ padding' = padding
        /\ size' = 0 /\ late' = 0
    BY <1>3, <1>6 DEF Outgoing
  <2>2. padding \in Above(next, padding)
    BY <1>3, <2>1, AboveGathers DEF OrNull
  <2>3. QED
    BY <1>2, <1>3, <2>1, <2>2 DEF Room
<1>7. CASE SizeUp
  <2>1. /\ pc'[Main] = "size" /\ pc[Main] = "size" /\ p'[Main] = next[p[Main]] /\ p[Main] \in Node
        /\ padding' = padding /\ size' = size + 1 /\ late' = late
    BY <1>3, <1>7 DEF SizeUp, OrNull
  <2>2. /\ h[p[Main]] = 1 + h[next[p[Main]]] /\ next[p[Main]] \in OrNull(Node)
        /\ h[next[p[Main]]] \in Nat /\ h[padding] \in Nat /\ h[Null] = 0
    BY <1>1, <1>3, <2>1 DEF Heights
  <2>3. CASE h[padding] <= size + late
    <3>1. h[padding] <= size + 1 + late
      BY <1>4, <2>2, <2>3
    <3>2. QED
      BY <2>1, <3>1 DEF Room
  <2>4. CASE padding \in Above(next, p[Main]) /\ h[padding] <= size + late + h[p[Main]]
    <3>1. h[padding] <= size + 1 + late + h[next[p[Main]]]
      BY <1>4, <2>2, <2>4
    <3>2. CASE next[p[Main]] = Null
      <4>1. h[padding] <= size + 1 + late
        BY <1>4, <2>2, <3>1, <3>2
      <4>2. QED
        BY <2>1, <4>1 DEF Room
    <3>3. CASE next[p[Main]] # Null
      <4>1. next[p[Main]] \in Node
        BY <2>2, <3>3 DEF OrNull
      <4>2. p[Main] \in Above(next, next[p[Main]])
        BY <2>1, <4>1, AboveGathers DEF Gathers
      <4>3. Above(next, p[Main]) \subseteq Above(next, next[p[Main]])
        BY <4>1, <4>2, AboveGathers, AboveLeast
      <4>4. QED
        BY <1>2, <2>1, <2>4, <3>1, <3>3, <4>3 DEF Room
    <3>4. QED
      BY <3>2, <3>3
  <2>5. QED
    BY <1>1, <2>1, <2>3, <2>4 DEF Room
<1>8. CASE Sized
  <2>1. /\ pc'[Main] = "copy" /\ pc[Main] = "size" /\ p[Main] = Null /\ p'[Main] = padding
        /\ size' = size /\ late' = late /\ batch' = batch
    BY <1>3, <1>8 DEF Sized
  <2>2. Len(batch) = 0
    BY <2>1 DEF Shape, Pointers
  <2>3. h[padding] <= size + late
    BY <1>1, <2>1 DEF Room
  <2>4. QED
    BY <1>3, <1>4, <2>1, <2>2, <2>3 DEF Room
<1>9. CASE Copy
  <2>1. /\ pc'[Main] = "unlink" /\ pc[Main] = "copy" /\ p[Main] \in Node /\ following' = next[p[Main]]
        /\ size' = size /\ late' = late /\ batch' = Append(batch, p[Main])
    BY <1>3, <1>9 DEF Copy, OrNull
  <2>2. Len(batch') = Len(batch) + 1
    BY <1>4, <2>1
  <2>3. h[p[Main]] = 1 + h[next[p[Main]]] /\ h[next[p[Main]]] \in Nat
    BY <1>1, <1>3, <2>1 DEF Heights
  <2>4. Len(batch) + h[p[Main]] <= size + late
    BY <1>1, <2>1 DEF Room
  <2>5. QED
    BY <1>4, <2>1, <2>2, <2>3, <2>4 DEF Room
<1>10. CASE Unlink
  <2>1. /\ pc'[Main] = "next" /\ pc[Main] = "unlink" /\ padding' = following /\ following' = following
        /\ size' = size /\ late' = late /\ batch' = batch
    BY <1>3, <1>10 DEF Unlink
  <2>2. QED
    BY <1>1, <2>1 DEF Room
<1>11. CASE Advance
  <2>1. /\ pc'[Main] = "copy" /\ pc[Main] = "next" /\ p'[Main] \in {following, padding}
        /\ size' = size /\ late' = late /\ batch' = batch
    BY <1>3, <1>11 DEF Advance
  <2>2. QED
    BY <1>1, <2>1 DEF Room
<1>12. CASE Done
  <2>1. pc'[Main] = "idle"
    BY <1>3, <1>12 DEF Done
  <2>2. QED
    BY <2>1 DEF Room
<1>13. CASE ~(Outgoing \/ SizeUp \/ Sized \/ Copy \/ Unlink \/ Advance \/ Done)
  <2>1. UNCHANGED <<padding, size, late, batch, following>>
    BY <1>13, StepCases DEF Appends, Create, LoadHead, Walk, vars
  <2>2. AtOutgoing' => pc'[Main] = pc[Main] /\ p'[Main] = p[Main]
    BY <1>3, <1>13, StepCases DEF Appends, Create, LoadHead, Walk, vars, AtOutgoing
  <2>3. QED
    BY <1>1, <1>2, <2>1, <2>2 DEF Room, AtOutgoing
<1>14. QED
  BY <1>6, <1>7, <1>8, <1>9, <1>10, <1>11, <1>12, <1>13

LEMMA FitsEnough == Shape /\ Fits => FitsButForLate
<1> SUFFICES ASSUME Shape, Fits, pc[Main] \in {"copy", "unlink", "next"}
             PROVE  Len(batch) <= size + late
  BY DEF FitsButForLate
<1>1. PICK h \in [OrNull(Node) -> Nat] : Room(h)
  BY DEF Fits
<1>2. h[p[Main]] \in Nat /\ h[following] \in Nat
  BY Nodes DEF Shape, Values
<1>3. size \in Nat /\ late \in Nat /\ Len(batch) \in Nat
  BY DEF Shape, Values
<1>4. QED
  BY <1>1, <1>2, <1>3 DEF Room
-----------------------------------------------------------------------------
(* Reach is the least closed set.                                          *)
Closed(f, S) == \A y \in S : f[y] # Null => f[y] \in S

LEMMA ReachLeast ==
  ASSUME NEW f, NEW a, NEW S \in SUBSET Node, a # Null => a \in S, Closed(f, S)
  PROVE  Reach(f, a) \subseteq S
  BY DEF Reach, Closed

LEMMA ReachClosed ==
  ASSUME NEW f \in [Node -> OrNull(Node)], NEW a \in OrNull(Node)
  PROVE  /\ a # Null => a \in Reach(f, a)
         /\ Closed(f, Reach(f, a))
         /\ Reach(f, a) \in SUBSET Node
<1>1. Reach(f, a) \in SUBSET Node /\ (a # Null => a \in Reach(f, a))
  BY DEF Reach, OrNull
<1>2. ASSUME NEW y \in Reach(f, a), f[y] # Null PROVE f[y] \in Reach(f, a)
  <2>1. f[y] \in Node
    BY <1>1, <1>2 DEF OrNull
  <2>2. ASSUME NEW S \in SUBSET Node, a # Null => a \in S, Closed(f, S) PROVE f[y] \in S
    BY <1>2, <2>2, ReachLeast DEF Closed
  <2>3. QED
    BY <2>1, <2>2 DEF Reach, Closed
<1>3. QED
  BY <1>1, <1>2 DEF Closed

LEMMA ReachNull ==
  ASSUME NEW f PROVE Reach(f, Null) = {}
<1>1. Closed(f, {})
  BY DEF Closed
<1>2. QED
  BY <1>1, ReachLeast

LEMMA ReachRest ==
  ASSUME NEW f \in [Node -> OrNull(Node)], NEW a \in Node
  PROVE  Reach(f, a) \ {a} \subseteq Reach(f, f[a])
<1> DEFINE S == Reach(f, f[a]) \cup {a}
<1>1. f[a] \in OrNull(Node)
  OBVIOUS
<1>2. S \in SUBSET Node /\ Closed(f, S)
  BY <1>1, ReachClosed DEF Closed
<1>3. Reach(f, a) \subseteq S
  BY <1>2, ReachLeast
<1>4. QED
  BY <1>3

(* A link keeps all but what came after w, brings in x, and nothing else.  *)
LEMMA LinkedKeeps ==
  ASSUME NEW f \in [Node -> OrNull(Node)], NEW w \in Node, NEW x \in Node,
         NEW a \in OrNull(Node), NEW y \in Reach(f, a), y \notin Reach(f, f[w])
  PROVE  y \in Reach(Linked(f, w, x), a)
<1> DEFINE g == Linked(f, w, x)
<1>1. ASSUME NEW S \in SUBSET Node, a # Null => a \in S, Closed(g, S) PROVE y \in S
  <2> DEFINE T == S \cup Reach(f, f[w])
  <2>1. f[w] \in OrNull(Node)
    OBVIOUS
  <2>2. T \in SUBSET Node
    BY <2>1, ReachClosed
  <2>3. ASSUME NEW z \in T, f[z] # Null PROVE f[z] \in T
    <3>1. CASE z = w \/ z \in Reach(f, f[w])
      BY <2>1, <2>3, <3>1, ReachClosed DEF Closed
    <3>2. CASE z # w /\ z \in S
      <4>1. g[z] = f[z]
        BY <2>2, <3>2 DEF Linked
      <4>2. QED
        BY <1>1, <2>3, <3>2, <4>1 DEF Closed
    <3>3. QED
      BY <3>1, <3>2
  <2>a. Closed(f, T)
    BY <2>3 DEF Closed
  <2>4. Reach(f, a) \subseteq T
    BY <1>1, <2>2, <2>a, ReachLeast
  <2>5. QED
    BY <2>4
<1>2. y \in Node
  BY DEF Reach
<1>3. QED
  BY <1>1, <1>2 DEF Reach, Closed

LEMMA LinkedGains ==
  ASSUME NEW f \in [Node -> OrNull(Node)], NEW a \in OrNull(Node), NEW w \in Reach(f, a),
         NEW x \in Node
  PROVE  x \in Reach(Linked(f, w, x), a)
<1> DEFINE g == Linked(f, w, x)
<1>1. w \in Node
  BY DEF Reach
<1>2. ASSUME NEW S \in SUBSET Node, a # Null => a \in S, Closed(g, S) PROVE x \in S
  <2>1. w \in S
    <3> SUFFICES ASSUME w \notin S PROVE FALSE
      OBVIOUS
    <3>1. \A z \in S : g[z] = f[z]
      BY <1>1 DEF Linked
    <3>2. Closed(f, S)
      BY <1>2, <3>1 DEF Closed
    <3>3. QED
      BY <1>2, <3>2, ReachLeast
  <2>2. g[w] = x /\ x # Null
    BY <1>1, Nodes DEF Linked
  <2>3. QED
    BY <1>2, <2>1, <2>2 DEF Closed
<1>3. QED
  BY <1>2 DEF Reach, Closed

LEMMA LinkedAdds ==
  ASSUME NEW f \in [Node -> OrNull(Node)], NEW w \in Node, NEW x \in Node, x # w, f[x] = Null,
         NEW v \in Node
  PROVE  Reach(Linked(f, w, x), Linked(f, w, x)[v]) \subseteq Reach(f, f[v]) \cup {x}
<1> DEFINE g == Linked(f, w, x)
           S == Reach(f, f[v]) \cup {x}
<1>1. f[v] \in OrNull(Node)
  OBVIOUS
<1>2. S \in SUBSET Node
  BY <1>1, ReachClosed
<1>3. g[v] # Null => g[v] \in S
  BY <1>1, ReachClosed DEF Linked
<1>4. ASSUME NEW z \in S, g[z] # Null PROVE g[z] \in S
  <2>1. CASE z = w
    BY <1>2, <2>1 DEF Linked
  <2>2. CASE z = x
    BY <1>2, <1>4, <2>2 DEF Linked
  <2>3. CASE z # w /\ z # x
    <3>1. g[z] = f[z] /\ z \in Reach(f, f[v])
      BY <1>2, <2>3 DEF Linked
    <3>2. QED
      BY <1>1, <1>4, <3>1, ReachClosed DEF Closed
  <2>4. QED
    BY <2>1, <2>2, <2>3
<1>5. Closed(g, S)
  BY <1>4 DEF Closed
<1>6. QED
  BY <1>2, <1>3, <1>5, ReachLeast

(* The packets that must not be lost.                                      *)
Kept == appended \ (Sent \cup disturbed)

(* An append that is still undisturbed has the list to itself.             *)
Alone(t) ==
  pc[t] \in {"set", "walk", "link"} /\ mp[t] \notin disturbed =>
    pc[Other(t)] = "idle" /\ (pc[t] # "set" => p[t] \in Reach(next, padding))

(* The kept packets are in the list and in what mqtt_cli_outgoing has      *)
(* before it.  A thread that found the list empty finds nothing to lose    *)
(* when it sets the head, and one that found its end nothing after it.     *)
Held ==
  /\ Kept \subseteq Reach(next, padding)
  /\ pc[Main] = "copy" => Kept \subseteq Reach(next, p[Main])
  /\ pc[Main] \in {"unlink", "next"} => Kept \subseteq Reach(next, following)
  /\ \A t \in Thread :
       /\ pc[t] = "set" => Kept = {}
       /\ pc[t] = "link" => Kept \cap Reach(next, next[p[t]]) = {}
       /\ Alone(t)

LEMMA SentIsOut ==
  ASSUME Shape PROVE Sent = {Out[i] : i \in DOMAIN Out}
<1>1. sent \in Seq(Node) /\ batch \in Seq(Node)
  BY DEF Shape, Values
<1>2. /\ Out \in Seq(Node) /\ Len(Out) = Len(sent) + Len(batch)
      /\ \A i \in 1..(Len(sent) + Len(batch)) :
           Out[i] = IF i <= Len(sent) THEN sent[i] ELSE batch[i - Len(sent)]
  BY <1>1, ConcatProperties DEF Out
<1>3. /\ DOMAIN Out = 1..(Len(sent) + Len(batch)) /\ Len(sent) \in Nat /\ Len(batch) \in Nat
      /\ DOMAIN sent = 1..Len(sent) /\ DOMAIN batch = 1..Len(batch)
  BY <1>1, <1>2
<1>4. ASSUME NEW i \in DOMAIN sent PROVE i \in DOMAIN Out /\ Out[i] = sent[i]
  BY <1>2, <1>3
<1>5. ASSUME NEW i \in DOMAIN batch PROVE Len(sent) + i \in DOMAIN Out /\ Out[Len(sent) + i] = batch[i]
  BY <1>2, <1>3
<1>6. ASSUME NEW i \in DOMAIN Out PROVE Out[i] \in Sent
  <2>1. CASE i <= Len(sent)
    BY <1>2, <1>3, <2>1 DEF Sent
  <2>2. CASE ~(i <= Len(sent))
    <3>1. i - Len(sent) \in DOMAIN batch /\ Out[i] = batch[i - Len(sent)]
      BY <1>2, <1>3, <2>2
    <3>2. QED
      BY <3>1 DEF Sent
  <2>3. QED
    BY <2>1, <2>2
<1>7. QED
  BY <1>4, <1>5, <1>6 DEF Sent

LEMMA SentStep ==
  ASSUME Shape, [Next]_vars
  PROVE  Sent \subseteq Sent' /\ (Copy => p[Main] \in Sent')
<1>1. CASE Copy
  <2>1. batch' = Append(batch, p[Main]) /\ sent' = sent /\ p[Main] \in Node /\ batch \in Seq(Node)
    BY <1>1 DEF Copy, Shape, Pointers, Values, OrNull
  <2>2. Len(batch) + 1 \in DOMAIN batch' /\ batch'[Len(batch) + 1] = p[Main]
    BY <2>1
  <2>3. \A i \in DOMAIN batch : i \in DOMAIN batch' /\ batch'[i] = batch[i]
    BY <2>1
  <2>4. QED
    BY <2>1, <2>2, <2>3 DEF Sent
<1>2. CASE Done
  <2>1. Sent = {Out[i] : i \in DOMAIN Out} /\ sent' = Out
    BY <1>2, SentIsOut DEF Done, Out
  <2>2. {sent'[i] : i \in DOMAIN sent'} \subseteq Sent'
    BY DEF Sent
  <2>3. QED
    BY <1>2, <2>1, <2>2 DEF Done, Copy
<1>3. CASE ~(Copy \/ Done)
  <2>1. sent' = sent /\ batch' = batch
    BY <1>3, StepCases DEF Create, LoadHead, SetHead, Walk, Link, Outgoing, SizeUp, Sized, Unlink,
                           Advance, vars, Shape, Pointers
  <2>2. QED
    BY <1>3, <2>1 DEF Sent
<1>4. QED
  BY <1>1, <1>2, <1>3

(* Every step is one of a thread, which does not move the other.           *)
Acts(t) ==
  /\ Witness(t)
  /\ \A u \in Thread : u # t => pc'[u] = pc[u] /\ mp'[u] = mp[u] /\ p'[u] = p[u]

LEMMA Acting ==
  ASSUME Shape, [Next]_vars
  PROVE  (\E t \in Thread : Acts(t)) \/ UNCHANGED vars
<1> USE Nodes DEF Acts, Goto, Shape, Values, list
<1>1. ASSUME NEW t \in Thread, Create(t) PROVE Acts(t)
  BY <1>1 DEF Create
<1>2. ASSUME NEW t \in Thread, LoadHead(t) PROVE Acts(t)
  BY <1>2 DEF LoadHead
<1>3. ASSUME NEW t \in Thread, SetHead(t) PROVE Acts(t)
  BY <1>3 DEF SetHead, Return
<1>4. ASSUME NEW t \in Thread, Walk(t) PROVE Acts(t)
  BY <1>4 DEF Walk
<1>5. ASSUME NEW t \in Thread, Link(t) PROVE Acts(t)
  BY <1>5 DEF Link, Return
<1>6. CASE Outgoing \/ SizeUp \/ Sized \/ Copy \/ Unlink \/ Advance \/ Done
  <2>1. Acts(Main)
    BY <1>6 DEF Outgoing, SizeUp, Sized, Copy, Unlink, Advance, Done
  <2>2. QED
    BY <2>1
<1>7. QED
  BY <1>1, <1>2, <1>3, <1>4, <1>5, <1>6, StepCases

LEMMA Disturbs ==
  ASSUME NEW t \in Thread, Witness(t)
  PROVE  /\ disturbed \subseteq disturbed'
         /\ Appending(Other(t)) => mp[Other(t)] \in disturbed'
         /\ Appending(t) /\ pc[Other(t)] # "idle" => mp[t] \in disturbed'
  BY DEF Witness

LEMMA KeptStep ==
  ASSUME Shape, [Next]_vars
  PROVE  /\ disturbed \subseteq disturbed'
         /\ UNCHANGED appended => Kept' \subseteq Kept
         /\ Copy => p[Main] \notin Kept'
         /\ \A t \in Thread : Appends(t) => Kept' \subseteq Kept \cup ({mp[t]} \ disturbed')
<1>1. disturbed \subseteq disturbed'
  BY Acting, Disturbs DEF Acts, vars
<1>2. Sent \subseteq Sent' /\ (Copy => p[Main] \in Sent')
  BY SentStep
<1>3. ASSUME NEW t \in Thread, Appends(t) PROVE appended' = appended \cup {mp[t]}
  BY <1>3 DEF Appends, SetHead, Link, Return
<1>4. QED
  BY <1>1, <1>2, <1>3 DEF Kept

LEMMA HeldSetHead ==
  ASSUME Shape, Held, [Next]_vars, NEW t \in Thread, SetHead(t)
  PROVE  Held'
<1> USE Nodes, Others
<1>1. PICK x : x = mp[t]
  OBVIOUS
<1>2. PICK u : u = Other(t)
  OBVIOUS
<1>3. /\ x \in Node /\ pc[t] = "set" /\ pc' = [pc EXCEPT ![t] = "idle"] /\ Witness(t)
      /\ padding' = x /\ mp' = mp /\ next \in [Node -> OrNull(Node)] /\ next' = next
  BY <1>1 DEF SetHead, Return, Goto, Shape, Pointers, Appending, Values
<1>4. Kept' \subseteq {x} \ disturbed'
  BY <1>1, <1>3, KeptStep DEF Held, Appends
<1>5. x \in Reach(next, x)
  BY <1>3, ReachClosed DEF OrNull
<1>6. pc[u] # "idle" => Kept' = {}
  BY <1>1, <1>2, <1>3, <1>4, Disturbs DEF Appending
<1>7. \A v \in Thread : pc'[v] # "idle" => v = u /\ pc[u] = pc'[u]
  BY <1>2, <1>3 DEF Shape, Values
<1>8. \A v \in Thread : pc'[v] # "idle" => Kept' = {} /\ Alone(v)'
  <2>1. ASSUME NEW v \in Thread, pc'[v] # "idle", Appending(u) PROVE mp'[v] \in disturbed'
    BY <1>2, <1>3, <1>7, <2>1, Disturbs
  <2>2. QED
    BY <1>6, <1>7, <2>1 DEF Alone, Appending
<1>9. \A v \in Thread : pc'[v] = "idle" => Alone(v)'
  BY DEF Alone
<1>10. QED
  BY <1>3, <1>4, <1>5, <1>8, <1>9 DEF Held

LEMMA HeldLink ==
  ASSUME Shape, Held, [Next]_vars, NEW t \in Thread, Link(t)
  PROVE  Held'
<1> USE Nodes, Others
<1>1. PICK x, w, u : x = mp[t] /\ w = p[t] /\ u = Other(t)
  OBVIOUS
<1>2. /\ x \in Node /\ x \notin appended /\ w \in Node /\ w \in appended /\ x # w
      /\ next \in [Node -> OrNull(Node)] /\ next[x] = Null
      /\ pc[t] = "link" /\ pc' = [pc EXCEPT ![t] = "idle"] /\ Witness(t)
      /\ padding' = padding /\ following' = following /\ p' = p /\ mp' = mp /\ next' = Linked(next, w, x)
  BY <1>1 DEF Link, Return, Goto, Shape, Pointers, Appending, Values, Linked, FromAppended
<1>3. Kept' \subseteq Kept \cup ({x} \ disturbed')
  BY <1>1, KeptStep DEF Appends
<1>4. Kept \cap Reach(next, next[w]) = {}
  BY <1>1, <1>2 DEF Held
<1>5. ASSUME NEW a \in OrNull(Node), Kept \subseteq Reach(next, a)
      PROVE  Kept \subseteq Reach(next', a)
  BY <1>2, <1>4, <1>5, LinkedKeeps
<1>6. /\ padding \in OrNull(Node) /\ following \in OrNull(Node) /\ p[Main] \in OrNull(Node)
  BY DEF Shape, Values
<1>7. \A v \in Thread : pc'[v] # "idle" => v = u /\ pc[u] = pc'[u]
  BY <1>1, <1>2 DEF Shape, Values
<1>8. pc[u] # "idle" => x \in disturbed' /\ Kept' \subseteq Kept
  BY <1>1, <1>2, <1>3, Disturbs DEF Appending
<1>9. Kept' \subseteq Reach(next', padding')
  <2>1. Kept \subseteq Reach(next', padding)
    BY <1>5, <1>6 DEF Held
  <2>2. CASE x \in disturbed'
    BY <1>2, <1>3, <2>1, <2>2
  <2>3. CASE x \notin disturbed'
    <3>1. x \notin disturbed
      BY <2>3, KeptStep
    <3>2. w \in Reach(next, padding)
      BY <1>1, <1>2, <3>1 DEF Held, Alone
    <3>3. x \in Reach(next', padding)
      BY <1>2, <1>6, <3>2, LinkedGains
    <3>4. QED
      BY <1>2, <1>3, <2>1, <3>3
  <2>4. QED
    BY <2>2, <2>3
<1>10. pc'[Main] = "copy" => Kept' \subseteq Reach(next', p'[Main])
  BY <1>2, <1>5, <1>6, <1>7, <1>8 DEF Held
<1>11. pc'[Main] \in {"unlink", "next"} => Kept' \subseteq Reach(next', following')
  BY <1>2, <1>5, <1>6, <1>7, <1>8 DEF Held
<1>12. ASSUME NEW v \in Thread, pc'[v] = "set" PROVE Kept' = {}
  BY <1>7, <1>8, <1>12 DEF Held
<1>13. ASSUME NEW v \in Thread, pc'[v] = "link" PROVE Kept' \cap Reach(next', next'[p'[v]]) = {}
  <2>1. /\ Kept' \subseteq Kept /\ x \notin Kept' /\ pc[v] = "link" /\ p'[v] = p[v] /\ p[v] \in Node
    BY <1>2, <1>7, <1>8, <1>13 DEF Kept, Shape, Pointers, Values
  <2>2. Kept \cap Reach(next, next[p[v]]) = {}
    BY <2>1 DEF Held
  <2>3. Reach(next', next'[p[v]]) \subseteq Reach(next, next[p[v]]) \cup {x}
    BY <1>2, <2>1, LinkedAdds
  <2>4. QED
    BY <2>1, <2>2, <2>3
<1>14. ASSUME NEW v \in Thread PROVE Alone(v)'
  <2>1. Appending(u) => mp'[u] \in disturbed'
    BY <1>1, <1>2, Disturbs
  <2>2. QED
    BY <1>7, <2>1 DEF Alone, Appending
<1>15. QED
  BY <1>9, <1>10, <1>11, <1>12, <1>13, <1>14 DEF Held

(* What the steps that append nothing do to the pointers of a thread that  *)
(* appends.                                                                *)
Pace(v) ==
  /\ pc'[v] = "set"  => pc[v] = "set" \/ (LoadHead(v) /\ padding = Null)
  /\ pc'[v] = "walk" => \/ LoadHead(v) /\ p'[v] = padding
                        \/ pc[v] = "walk" /\ p'[v] = p[v]
                        \/ Walk(v) /\ next[p[v]] # Null /\ p'[v] = next[p[v]]
  /\ pc'[v] = "link" => \/ pc[v] = "link" /\ p'[v] = p[v]
                        \/ Walk(v) /\ next[p[v]] = Null /\ p'[v] = p[v]
  /\ pc'[v] \in {"set", "walk", "link"} => mp'[v] = mp[v] /\ Appending(v)

LEMMA Paces ==
  ASSUME Shape, [Next]_vars, ~\E t \in Thread : Appends(t), NEW v \in Thread
  PROVE  Pace(v)
<1> USE Nodes DEF Shape, Values, Goto, list, Pace, Appending
<1>1. ASSUME NEW t \in Thread, Create(t) PROVE Pace(v)
  BY <1>1 DEF Create
<1>2. ASSUME NEW t \in Thread, LoadHead(t) PROVE Pace(v)
  BY <1>2 DEF LoadHead
<1>3. ASSUME NEW t \in Thread, Walk(t) PROVE Pace(v)
  BY <1>3 DEF Walk
<1>4. CASE Outgoing
  BY <1>4 DEF Outgoing
<1>5. CASE SizeUp
  BY <1>5 DEF SizeUp
<1>6. CASE Sized
  BY <1>6 DEF Sized
<1>7. CASE Copy
  BY <1>7 DEF Copy
<1>8. CASE Unlink
  BY <1>8 DEF Unlink
<1>9. CASE Advance
  BY <1>9 DEF Advance
<1>10. CASE Done
  BY <1>10 DEF Done
<1>11. CASE UNCHANGED vars
  BY <1>11 DEF vars
<1>12. QED
  BY <1>1, <1>2, <1>3, <1>4, <1>5, <1>6, <1>7, <1>8, <1>9, <1>10, <1>11, StepCases DEF Appends

LEMMA AloneQuiet ==
  ASSUME Shape, Held, [Next]_vars, ~\E t \in Thread : Appends(t), NEW v \in Thread,
         next' = next, padding' = padding \/ Unlink
  PROVE  Alone(v)'
<1> USE Nodes, Others
<1> SUFFICES ASSUME pc'[v] \in {"set", "walk", "link"}, mp'[v] \notin disturbed'
             PROVE  /\ pc'[Other(v)] = "idle"
                    /\ pc'[v] # "set" => p'[v] \in Reach(next', padding')
  BY DEF Alone
<1>1. Pace(v)
  BY Paces
<1>2. mp'[v] = mp[v] /\ Appending(v) /\ mp[v] \notin disturbed
  BY <1>1, KeptStep DEF Pace
<1>3. Acts(v) \/ UNCHANGED vars
  <2>1. ASSUME NEW t \in Thread, Acts(t), t # v PROVE FALSE
    BY <1>2, <2>1, Disturbs DEF Acts
  <2>2. QED
    BY <2>1, Acting
<1>4. pc[Other(v)] = "idle" /\ pc'[Other(v)] = "idle"
  <2>1. CASE Acts(v)
    BY <1>2, <2>1, Disturbs DEF Acts
  <2>2. CASE UNCHANGED vars
    BY <1>2, <2>2 DEF vars, Held, Alone
  <2>3. QED
    BY <1>3, <2>1, <2>2
<1>5. padding' = padding
  <2>1. CASE Unlink
    <3>1. v # Main /\ Other(v) = Main
      BY <1>2, <2>1 DEF Unlink, Appending
    <3>2. QED
      BY <1>4, <2>1, <3>1 DEF Unlink
  <2>2. QED
    BY <2>1
<1>6. padding \in OrNull(Node) /\ next \in [Node -> OrNull(Node)] /\ p[v] \in OrNull(Node)
  BY DEF Shape, Values
<1>7. pc[v] \in {"walk", "link"} => p[v] \in Reach(next, padding)
  BY <1>2 DEF Held, Alone
<1>8. pc'[v] # "set" => p'[v] \in Reach(next, padding)
  <2>1. CASE LoadHead(v) /\ p'[v] = padding /\ pc'[v] = "walk"
    <3>1. padding # Null
      BY <2>1 DEF LoadHead, Goto, Shape, Values
    <3>2. QED
      BY <1>6, <2>1, <3>1, ReachClosed
  <2>2. CASE pc[v] \in {"walk", "link"} /\ p'[v] = p[v]
    BY <1>7, <2>2
  <2>3. CASE Walk(v) /\ p'[v] = p[v]
    BY <1>7, <2>3 DEF Walk
  <2>4. CASE Walk(v) /\ next[p[v]] # Null /\ p'[v] = next[p[v]]
    <3>1. p[v] \in Reach(next, padding)
      BY <1>7, <2>4 DEF Walk
    <3>2. QED
      BY <1>6, <2>4, <3>1, ReachClosed DEF Closed
  <2>5. QED
    BY <1>1, <2>1, <2>2, <2>3, <2>4 DEF Pace
<1>9. QED
  BY <1>4, <1>5, <1>8

LEMMA HeldQuiet ==
  ASSUME Shape, Held, [Next]_vars, ~\E t \in Thread : Appends(t)
  PROVE  Held'
<1> USE Nodes, Others
<1>1. next' = next /\ appended' = appended /\ (padding' = padding \/ Unlink)
  BY StepCases DEF Appends, Create, LoadHead, Walk, Outgoing, SizeUp, Sized, Copy, Unlink,
                   Advance, Done, vars, list
<1>2. Kept' \subseteq Kept
  BY <1>1, KeptStep
<1>3. /\ padding \in OrNull(Node) /\ following \in OrNull(Node) /\ p[Main] \in OrNull(Node)
      /\ next \in [Node -> OrNull(Node)] /\ pc \in [Thread -> Labels] /\ p \in [Thread -> OrNull(Node)]
  BY DEF Shape, Values
<1>4. /\ Kept' \subseteq Reach(next, padding')
      /\ pc'[Main] = "copy" => Kept' \subseteq Reach(next, p'[Main])
      /\ pc'[Main] \in {"unlink", "next"} => Kept' \subseteq Reach(next, following')
  <2> USE DEF Goto, list
  <2>1. CASE Sized
    BY <1>2, <1>3, <2>1 DEF Sized, Held
  <2>2. CASE Copy
    <3>1. /\ p[Main] \in Node /\ following' = next[p[Main]] /\ padding' = padding
          /\ pc[Main] = "copy" /\ pc'[Main] = "unlink"
      BY <1>3, <2>2 DEF Copy, OrNull
    <3>2. Kept' \subseteq Reach(next, p[Main]) \ {p[Main]}
      BY <1>2, <2>2, <3>1, KeptStep DEF Held
    <3>3. Kept' \subseteq Reach(next, following')
      BY <1>3, <3>1, <3>2, ReachRest
    <3>4. QED
      BY <1>2, <3>1, <3>3 DEF Held
  <2>3. CASE Unlink
    BY <1>2, <1>3, <2>3 DEF Unlink, Held
  <2>4. CASE Advance
    BY <1>2, <1>3, <2>4 DEF Advance, Held
  <2>5. CASE ~(Sized \/ Copy \/ Unlink \/ Advance)
    <3>1. Elsewhere /\ padding' = padding
      BY <1>1, <2>5, MainElsewhere
    <3>2. QED
      BY <1>2, <3>1 DEF Elsewhere, Held
  <2>6. QED
    BY <2>1, <2>2, <2>3, <2>4, <2>5
<1>5. ASSUME NEW v \in Thread, pc'[v] = "set" PROVE Kept' = {}
  <2>1. pc[v] = "set" \/ padding = Null
    BY <1>5, Paces DEF Pace
  <2>2. padding = Null => Kept = {}
    BY ReachNull DEF Held
  <2>3. QED
    BY <1>2, <2>1, <2>2 DEF Held
<1>6. ASSUME NEW v \in Thread, pc'[v] = "link" PROVE Kept' \cap Reach(next, next[p'[v]]) = {}
  <2>1. p'[v] = p[v] /\ (pc[v] = "link" \/ next[p[v]] = Null)
    BY <1>6, Paces DEF Pace
  <2>2. next[p[v]] = Null => Reach(next, next[p[v]]) = {}
    BY ReachNull
  <2>3. QED
    BY <1>2, <2>1, <2>2 DEF Held
<1>7. ASSUME NEW v \in Thread PROVE Alone(v)'
  BY <1>1, AloneQuiet
<1>8. QED
  BY <1>1, <1>4, <1>5, <1>6, <1>7 DEF Held

LEMMA HeldInit == Init => Held
<1> SUFFICES ASSUME Init PROVE Held
  OBVIOUS
<1>1. Kept = {}
  BY DEF Init, Kept
<1>2. \A t \in Thread : Alone(t) /\ pc[t] = "idle"
  BY DEF Init, Alone
<1>3. QED
  BY <1>1, <1>2 DEF Held

LEMMA HeldEnough == Held => LostOnlyIfDisturbed
  BY DEF Held, Kept, LostOnlyIfDisturbed, Listed
-----------------------------------------------------------------------------
(* Every variable stays in its domain: no walk of _append_padding is at a  *)
(* null pointer, and mqtt_cli_outgoing counts no more packets than exist.  *)
THEOREM TypeCorrect == Spec => []TypeOK
<1>1. Init => Shape /\ Ordered
  BY ShapeInit, OrderedInit
<1>2. Shape /\ Ordered /\ [Next]_vars => Shape' /\ Ordered'
  BY ShapeStep, OrderedStep
<1>3. QED
  BY <1>1, <1>2, OrderedTypeOK, PTL DEF Spec

(* No packet is copied into a batch twice: mqtt_cli_outgoing goes through  *)
(* the nodes in the order of their appends, also when a stale pointer of   *)
(* the other thread has changed the list under it.                         *)
THEOREM NeverSentTwice == Spec => []SentOnce
<1>1. Init => Shape /\ Ordered
  BY ShapeInit, OrderedInit
<1>2. Shape /\ Ordered /\ [Next]_vars => Shape' /\ Ordered'
  BY ShapeStep, OrderedStep
<1>3. QED
  BY <1>1, <1>2, OrderedSentOnce, PTL DEF Spec

(* The copying pass of mqtt_cli_outgoing exceeds the size of its first     *)
(* pass by no more than the packets appended since that pass began.        *)
THEOREM BatchFits == Spec => []FitsButForLate
<1>1. Init => Shape /\ Fits
  BY ShapeInit, FitsInit
<1>2. Shape /\ Fits /\ [Next]_vars => Shape' /\ Fits'
  BY ShapeStep, FitsAppended, FitsQuiet
<1>3. QED
  BY <1>1, <1>2, FitsEnough, PTL DEF Spec

(* A packet whose _append_padding was alone is in the list or has been     *)
(* sent, whatever later appends and batches do.                            *)
THEOREM LossNeedsARace == Spec => []LostOnlyIfDisturbed
<1>1. Init => Shape /\ Held
  BY ShapeInit, HeldInit
<1>2. Shape /\ Held /\ [Next]_vars => Shape' /\ Held'
  BY ShapeStep, HeldSetHead, HeldLink, HeldQuiet DEF Appends
<1>3. QED
  BY <1>1, <1>2, HeldEnough, PTL DEF Spec

(* The safety half of WalksEnd: no interleaving makes the list a ring.     *)
NoRing == \A y \in Node : y \notin Reach(next, next[y])

LEMMA FitsNoRing == Shape /\ Fits => NoRing
<1> SUFFICES ASSUME Shape, Fits, NEW y \in Node, y \in Reach(next, next[y]) PROVE FALSE
  BY DEF NoRing
<1>1. PICK h \in [OrNull(Node) -> Nat] : Heights(next, h)
  BY DEF Fits
<1>2. next \in [Node -> OrNull(Node)] /\ next[y] \in OrNull(Node)
  BY DEF Shape, Values
<1> DEFINE S == {z \in Node : h[z] <= h[next[y]]}
<1>3. next[y] # Null => next[y] \in S
  BY <1>2 DEF OrNull
<1>4. ASSUME NEW z \in S, next[z] # Null PROVE next[z] \in S
  <2>1. next[z] \in Node /\ h[next[z]] \in Nat /\ h[z] \in Nat /\ h[next[y]] \in Nat
    BY <1>2, <1>4 DEF OrNull
  <2>2. h[z] = 1 + h[next[z]]
    BY <1>1 DEF Heights
  <2>3. QED
    BY <2>1, <2>2
<1>5. Closed(next, S)
  BY <1>4 DEF Closed
<1>6. y \in S
  BY <1>3, <1>5, ReachLeast
<1>7. h[y] = 1 + h[next[y]] /\ h[next[y]] \in Nat
  BY <1>1, <1>2 DEF Heights
<1>8. QED
  BY <1>6, <1>7

(* Every node of m->padding is left behind by following `next': a walk of  *)
(* _append_padding or mqtt_cli_outgoing never comes to the same node again.*)
THEOREM NeverARing == Spec => []NoRing
<1>1. Init => Shape /\ Fits
  BY ShapeInit, FitsInit
<1>2. Shape /\ Fits /\ [Next]_vars => Shape' /\ Fits'
  BY ShapeStep, FitsAppended, FitsQuiet
<1>3. QED
  BY <1>1, <1>2, FitsNoRing, PTL DEF Spec
=============================================================================
