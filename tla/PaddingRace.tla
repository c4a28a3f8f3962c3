------------------------------ MODULE PaddingRace ------------------------------
(***************************************************************************)
(* The two threads of pms5003st_pub.c on m->padding, which no lock guards: *)
(* the sensor thread appends measurements, the main thread appends CONNECT *)
(* and PINGREQ and empties the list in mqtt_cli_outgoing.                  *)
(*                                                                         *)
(* An action makes at most one access to memory both threads use.  In this *)
(* program every packet has ttl 0, so mqtt_cli_outgoing frees each node it *)
(* copies and pmp stays &m->padding.  A node that was freed keeps its      *)
(* `next' and is not allocated again; its use by a thread that still has a *)
(* pointer to it is what the model looks at.                               *)
(***************************************************************************)
EXTENDS Integers, Sequences, FiniteSets

CONSTANTS
  Measurements,  \* bound: packets the sensor thread appends
  Requests       \* bound: packets the main thread appends

ASSUME CountAssumption == Measurements \in Nat /\ Requests \in Nat

Null   == 0
Sensor == "sensor"
Main   == "main"
Thread == {Sensor, Main}

Node == 1..(Measurements + Requests)

(* The packets of a thread, in the order of its calls.                     *)
OwnNodes(t) == IF t = Sensor THEN 1..Measurements
               ELSE (Measurements + 1)..(Measurements + Requests)

VARIABLES
  padding,   \* m->padding
  next,      \* mp->next of every node
  pc,        \* where each thread is
  mp,        \* the packet each thread appends
  p,         \* the node each thread's walk has come to
  size,      \* outgoing->n after the first pass, in packets
  batch,     \* the packets copied to outgoing->s
  following, \* mp->next as loaded before the node is unlinked
  appended,  \* history: packets whose append has returned
  sent,      \* history: packets in the batches so far, in order
  disturbed, \* history: packets whose append was not alone
  late       \* history: appends that have returned since the batch was sized

list == <<padding, next>>
vars == <<list, pc, mp, p, size, batch, following, appended, sent, disturbed, late>>

Appending(t) == pc[t] \in {"load", "set", "walk", "link"}
Other(t)     == CHOOSE u \in Thread : u # t

(* The appends that this step of thread t, or its being under way, is      *)
(* concurrent with.                                                        *)
Witness(t) ==
  disturbed' = disturbed
                 \cup (IF Appending(Other(t)) THEN {mp[Other(t)]} ELSE {})
                 \cup (IF Appending(t) /\ pc[Other(t)] # "idle" THEN {mp[t]} ELSE {})

Goto(t, l) == pc' = [pc EXCEPT ![t] = l]

Init ==
  /\ padding = Null /\ next = [x \in Node |-> Null]
  /\ pc = [t \in Thread |-> "idle"]
  /\ mp = [t \in Thread |-> Null] /\ p = [t \in Thread |-> Null]
  /\ size = 0 /\ batch = <<>> /\ following = Null
  /\ appended = {} /\ sent = <<>> /\ disturbed = {} /\ late = 0
-----------------------------------------------------------------------------
(* _append_padding.                                                        *)

(* The next packet of the thread is serialised into a new node.            *)
Create(t) ==
  /\ pc[t] = "idle"
  /\ \E x \in OwnNodes(t) :
       /\ x \notin appended /\ \A y \in OwnNodes(t) : y < x => y \in appended
       /\ mp' = [mp EXCEPT ![t] = x]
  /\ Goto(t, "load")
  /\ Witness(t)
  /\ UNCHANGED <<list, p, size, batch, following, appended, sent, late>>

(* m->padding is loaded: the list is empty, or its walk begins.            *)
(* Mutant: the walk to the last node is left out.                          *)
LoadHeadNoWalk(t) ==
  /\ pc[t] = "load"
  /\ p' = [p EXCEPT ![t] = padding]
  /\ Goto(t, IF padding = Null THEN "set" ELSE "link")
  /\ Witness(t)
  /\ UNCHANGED <<list, mp, size, batch, following, appended, sent, late>>

LoadHead(t) ==
  /\ pc[t] = "load"
  /\ p' = [p EXCEPT ![t] = padding]
  /\ Goto(t, IF padding = Null THEN "set" ELSE "walk")
  /\ Witness(t)
  /\ UNCHANGED <<list, mp, size, batch, following, appended, sent, late>>

(* The call returns.                                                       *)
Return(t) ==
  /\ Goto(t, "idle")
  /\ appended' = appended \cup {mp[t]}
  /\ late' = late + 1

SetHead(t) ==
  /\ pc[t] = "set"
  /\ padding' = mp[t]
  /\ Return(t) /\ Witness(t)
  /\ UNCHANGED <<next, mp, p, size, batch, following, sent>>

(* Mutant: the walk does not advance.                                      *)
WalkStays(t) ==
  /\ pc[t] = "walk"
  /\ IF next[p[t]] = Null
     THEN Goto(t, "link") /\ p' = p
     ELSE UNCHANGED <<pc, p>>
  /\ Witness(t)
  /\ UNCHANGED <<list, mp, size, batch, following, appended, sent, late>>

Walk(t) ==
  /\ pc[t] = "walk"
  /\ IF next[p[t]] = Null
     THEN Goto(t, "link") /\ p' = p
     ELSE p' = [p EXCEPT ![t] = next[p[t]]] /\ pc' = pc
  /\ Witness(t)
  /\ UNCHANGED <<list, mp, size, batch, following, appended, sent, late>>

Link(t) ==
  /\ pc[t] = "link"
  /\ next' = [next EXCEPT ![p[t]] = mp[t]]
  /\ Return(t) /\ Witness(t)
  /\ UNCHANGED <<padding, mp, p, size, batch, following, sent>>
-----------------------------------------------------------------------------
(* mqtt_cli_outgoing: a pass that adds up the sizes, and one that copies   *)
(* the packets into the buffer allocated for them.                         *)

Outgoing ==
  /\ pc[Main] = "idle" /\ padding # Null
  /\ p' = [p EXCEPT ![Main] = padding]
  /\ size' = 0 /\ batch' = <<>> /\ late' = 0
  /\ Goto(Main, "size")
  /\ Witness(Main)
  /\ UNCHANGED <<list, mp, following, appended, sent>>

(* Mutant: the pass ends at the last node without counting it.             *)
SizeUpShort ==
  /\ pc[Main] = "size" /\ p[Main] # Null
  /\ size' = IF next[p[Main]] = Null THEN size ELSE size + 1
  /\ p' = [p EXCEPT ![Main] = next[p[Main]]]
  /\ Witness(Main)
  /\ UNCHANGED <<list, pc, mp, batch, following, appended, sent, late>>

SizeUp ==
  /\ pc[Main] = "size" /\ p[Main] # Null
  /\ size' = size + 1
  /\ p' = [p EXCEPT ![Main] = next[p[Main]]]
  /\ Witness(Main)
  /\ UNCHANGED <<list, pc, mp, batch, following, appended, sent, late>>

Sized ==
  /\ pc[Main] = "size" /\ p[Main] = Null
  /\ p' = [p EXCEPT ![Main] = padding]
  /\ Goto(Main, "copy")
  /\ Witness(Main)
  /\ UNCHANGED <<list, mp, size, batch, following, appended, sent, late>>

(* mqtt_str_concat, and mp->next is loaded.                                *)
Copy ==
  /\ pc[Main] = "copy" /\ p[Main] # Null
  /\ batch' = Append(batch, p[Main])
  /\ following' = next[p[Main]]
  /\ Goto(Main, "unlink")
  /\ Witness(Main)
  /\ UNCHANGED <<list, mp, p, size, appended, sent, late>>

(* Mutant: *pmp keeps its value.                                           *)
UnlinkKeeps ==
  /\ pc[Main] = "unlink"
  /\ p' = [p EXCEPT ![Main] = following]
  /\ Goto(Main, "next")
  /\ Witness(Main)
  /\ UNCHANGED <<list, mp, size, batch, following, appended, sent, late>>

Unlink ==
  /\ pc[Main] = "unlink"
  /\ padding' = following
  /\ Goto(Main, "next")
  /\ Witness(Main)
  /\ UNCHANGED <<next, mp, p, size, batch, following, appended, sent, late>>

(* The test of the loop: the compiler may load *pmp again or use the value *)
(* it has just stored.                                                     *)
Advance ==
  /\ pc[Main] = "next"
  /\ \E x \in {following, padding} : p' = [p EXCEPT ![Main] = x]
  /\ Goto(Main, "copy")
  /\ Witness(Main)
  /\ UNCHANGED <<list, mp, size, batch, following, appended, sent, late>>

Done ==
  /\ pc[Main] = "copy" /\ p[Main] = Null
  /\ sent' = sent \o batch
  /\ batch' = <<>> /\ size' = 0 /\ late' = 0
  /\ Goto(Main, "idle")
  /\ Witness(Main)
  /\ UNCHANGED <<list, mp, p, following, appended>>

(* The main thread has nothing to send and waits for the network.          *)
Wait ==
  /\ pc[Main] = "idle" /\ padding = Null
  /\ UNCHANGED vars

Step(t) ==
  \/ Create(t) \/ LoadHead(t) \/ SetHead(t) \/ Walk(t) \/ Link(t)

MainStep ==
  \/ Step(Main)
  \/ Outgoing \/ SizeUp \/ Sized \/ Copy \/ Unlink \/ Advance \/ Done

Next == Step(Sensor) \/ MainStep \/ Wait

Spec == Init /\ [][Next]_vars

(* Both threads run.                                                       *)
FairSpec == Spec /\ WF_vars(Step(Sensor)) /\ WF_vars(MainStep)
-----------------------------------------------------------------------------
(* The nodes that can be reached from a along f, which maps each node to   *)
(* the next one: they are in every set that has a and is closed under f.   *)
Reach(f, a) ==
  {x \in Node : \A S \in SUBSET Node :
     (a # Null => a \in S) /\ (\A y \in S : f[y] # Null => f[y] \in S) => x \in S}

(* The nodes of the list.                                                  *)
Listed == Reach(next, padding)

Sent == {sent[i] : i \in DOMAIN sent} \cup {batch[i] : i \in DOMAIN batch}

(* Every variable is in its domain, and a walk is never at a null pointer. *)
TypeOK ==
  /\ padding \in Node \cup {Null} /\ next \in [Node -> Node \cup {Null}]
  /\ mp \in [Thread -> Node \cup {Null}] /\ p \in [Thread -> Node \cup {Null}]
  /\ following \in Node \cup {Null}
  /\ pc[Sensor] \in {"idle", "load", "set", "walk", "link"}
  /\ \A t \in Thread : pc[t] \in {"set", "walk", "link"} =>
       mp[t] \in OwnNodes(t) /\ (p[t] = Null <=> pc[t] = "set")
  /\ size \in 0..Cardinality(Node) /\ batch \in Seq(Node) /\ sent \in Seq(Node)
  /\ appended \subseteq Node /\ disturbed \subseteq Node /\ late \in Nat

(* The race loses a packet only if it was being appended while the other   *)
(* thread was at the list: one that was appended alone is in the list or   *)
(* has been sent, whatever happens to the ones appended after it.          *)
LostOnlyIfDisturbed == appended \subseteq Listed \cup Sent \cup disturbed

(* No packet is sent twice, however stale the pointers of the threads are. *)
SentOnce ==
  LET all == sent \o batch IN
  \A i, j \in DOMAIN all : i # j => all[i] # all[j]

(* The copying pass exceeds what the sizing pass has allocated by no more  *)
(* than the packets appended between the two; without a concurrent append  *)
(* it fits.                                                                *)
FitsButForLate == pc[Main] \in {"copy", "unlink", "next"} => Len(batch) <= size + late

(* No interleaving makes the list a ring: every walk ends.                 *)
WalksEnd == \A t \in Thread : pc[t] # "idle" ~> pc[t] = "idle"
=============================================================================
