------------------------------ MODULE MqttClient ------------------------------
(***************************************************************************)
(* The MQTT client engine of mqtt_cli.h inside the main loop of            *)
(* pms5003st_pub.c and pms5003st_sub.c, over TCP, with a broker that       *)
(* follows MQTT 3.1.1.                                                     *)
(*                                                                         *)
(* The queue m->padding holds both the packets that wait to be sent and    *)
(* the ones that wait for an acknowledgement; it survives a connection, as *)
(* do the timers m->t and the identifier counter.  A connection is one     *)
(* pass TcpConnect, Hello, (Outgoing, Send, Recv, Incoming*, Elapsed)*,    *)
(* Close.  Another thread publishes at any moment between two steps.       *)
(*                                                                         *)
(* A time stamp x of the code is kept as its age m->t.now - x, in ticks of *)
(* the receive timeout (one second), and stops growing at MaxAge, beyond   *)
(* every threshold.  Packets reach the client whole: how the bytes of a    *)
(* stream are cut into packets is another module's matter.                 *)
(***************************************************************************)
EXTENDS Integers, Sequences, FiniteSets, SeqKeep

CONSTANTS
  IdSpace,        \* number of values of a packet identifier (2^16)
  KeepAlive,      \* m->keep_alive, in ticks
  PacketTimeout,  \* MQTT_CLI_PACKET_TIMEOUT
  PacketTTL,      \* MQTT_CLI_PACKET_TTL
  MaxDelta,       \* longest time one turn of the main loop takes
  MaxAge,         \* ages saturate here
  QosUsed,        \* the QoS levels the application publishes with
  Subscriber,     \* the callbacks are those of pms5003st_sub.c (else _pub.c)
  InQos,          \* the QoS levels of the messages the broker sends
  MaxMsgs,        \* bound: messages the application publishes
  MaxUnsub,       \* bound: calls of mqtt_cli_unsubscribe
  MaxIn,          \* bound: messages the broker sends
  MaxDrops        \* bound: connections the network or the broker ends

ASSUME SizeAssumption ==
  /\ IdSpace \in Nat /\ IdSpace >= 2
  /\ PacketTTL \in Nat /\ PacketTTL >= 1
  /\ QosUsed \subseteq 0..2 /\ InQos \subseteq 0..2
  /\ Subscriber \in BOOLEAN
  /\ MaxMsgs \in Nat /\ MaxUnsub \in Nat /\ MaxIn \in Nat /\ MaxDrops \in Nat

(* m->keep_alive = 0 switches the keep-alive off.                          *)
ASSUME TimeAssumption ==
  /\ KeepAlive \in Nat
  /\ PacketTimeout \in Nat /\ PacketTimeout >= 1
  /\ MaxDelta \in Nat /\ MaxDelta >= 1
  /\ MaxAge \in Nat /\ MaxAge > KeepAlive + MaxDelta /\ MaxAge >= PacketTimeout

VARIABLES
  packet_id,      \* m->packet_id
  padding,        \* m->padding
  pingAge,        \* now - m->t.ping, NoPing when m->t.ping = 0
  sendAge,        \* now - m->t.send
  pc,             \* where the main loop is
  out,            \* `outgoing': the batch being sent
  inb,            \* `incoming': the packets of the chunk not yet handled
  idle,           \* this turn's recv returned nothing: it lasted a timeout
  up,             \* the connection is open
  c2s, s2c,       \* packets in flight
  session,        \* the broker's view of the connection: "new" or "open"
  held,           \* QoS 2 identifiers the broker has, not yet released
  inflight,       \* what the broker waits for, per message it has sent
  subscribed,     \* the broker has the client's subscription
  accepted,       \* history: the QoS of every message ever published
  got,            \* history: messages the broker has received
  onward,         \* history: times the session passed a message on
  confirmed,      \* history: messages whose exchange the client completed
  wire, again,    \* history: acknowledged packets sent, sent twice, on this
                  \* connection
  wrapped,        \* history: the identifier counter has wrapped
  unsubs, ins, drops   \* the bounds' counters

client == <<packet_id, padding, pingAge, sendAge>>
loop   == <<pc, out, inb, idle>>
broker == <<session, held, inflight, subscribed>>
ghosts == <<accepted, got, onward, confirmed, wire, again, wrapped>>
bounds == <<unsubs, ins, drops>>
vars   == <<client, loop, up, c2s, s2c, broker, ghosts, bounds>>

NoPing == -1
NoMsg  == 0
Msgs   == 1..MaxMsgs
Ids    == 0..(IdSpace - 1)

PacketTypes ==
  {"CONNECT", "CONNACK", "REFUSED", "PUBLISH", "PUBACK", "PUBREC", "PUBREL",
   "PUBCOMP", "SUBSCRIBE", "SUBACK", "UNSUBSCRIBE", "UNSUBACK", "PINGREQ",
   "PINGRESP", "DISCONNECT"}

(* A packet; "REFUSED" is a CONNACK with another return code than          *)
(* MQTT_CRC_ACCEPTED.  msg names the payload of a PUBLISH; on a PUBREL it  *)
(* only records which message the exchange is about.                       *)
Packet == [type : PacketTypes, id : Nat, msg : 0..MaxMsgs, qos : 0..2, dup : BOOLEAN]

Pkt(type, id) ==
  [type |-> type, id |-> id, msg |-> NoMsg, qos |-> 0, dup |-> FALSE]

(* mqtt_cli_packet_t.  tx counts the batches the packet has been part of.  *)
Node == [b : Packet, ttl : 0..PacketTTL, wait_ack : BOOLEAN, age : 0..MaxAge,
         tx : Nat]
-----------------------------------------------------------------------------
(* The queue.                                                              *)

(* _append_padding: only a PUBLISH with QoS > 0 and a PUBREL are kept for  *)
(* retransmission; every other node leaves the queue when it is sent.      *)
Acknowledged(b) == b.type = "PUBREL" \/ (b.type = "PUBLISH" /\ b.qos > 0)

(* Mutants: the PUBREL case, or QoS 1, forgotten; every packet kept.       *)
NewNodeNoPubrel(b) ==
  [b |-> b, ttl |-> IF b.type = "PUBLISH" /\ b.qos > 0 THEN PacketTTL ELSE 0,
   wait_ack |-> FALSE, age |-> 0, tx |-> 0]
NewNodeNoQos1(b) ==
  [b |-> b, ttl |-> IF Acknowledged(b) /\ b.qos # 1 THEN PacketTTL ELSE 0,
   wait_ack |-> FALSE, age |-> 0, tx |-> 0]
NewNodeAll(b) ==
  [b |-> b, ttl |-> PacketTTL, wait_ack |-> FALSE, age |-> 0, tx |-> 0]

NewNode(b) ==
  [b |-> b, ttl |-> IF Acknowledged(b) THEN PacketTTL ELSE 0,
   wait_ack |-> FALSE, age |-> 0, tx |-> 0]

(* Mutant: the node goes to the head of the list.                          *)
PushPadding(s, b) == <<NewNode(b)>> \o s

AppendPadding(s, b) == Append(s, NewNode(b))

(* _erase_padding removes the first node with this type and identifier.    *)
(* Mutant: the identifier is not compared.                                 *)
MatchingType(s, type, id) == {i \in DOMAIN s : s[i].b.type = type}

Matching(s, type, id) ==
  {i \in DOMAIN s : s[i].b.type = type /\ s[i].b.id = id}

FirstOf(I) == CHOOSE i \in I : \A j \in I : i <= j

ErasePadding(s, type, id) ==
  KeepAt(s, DOMAIN s \ {FirstOf(Matching(s, type, id))})

(* _check_padding walks the queue and stops at the first node whose last   *)
(* try has timed out.  It looks at every node, sent or not.                *)
TimedOut(n) == n.ttl > 0 /\ n.age >= PacketTimeout

LastTimedOut(s) == {i \in DOMAIN s : TimedOut(s[i]) /\ s[i].ttl = 1}

(* Mutants: wait_ack not reset; DUP on every packet; ttl not counted down. *)
RetryWaiting(n) ==
  IF n.ttl = 1 THEN [n EXCEPT !.ttl = 0]
  ELSE [n EXCEPT !.ttl = @ - 1, !.b.dup = @ \/ n.b.type = "PUBLISH"]
RetryDupAll(n) ==
  IF n.ttl = 1 THEN [n EXCEPT !.ttl = 0]
  ELSE [n EXCEPT !.ttl = @ - 1, !.wait_ack = FALSE, !.b.dup = TRUE]
RetryUncounted(n) ==
  [n EXCEPT !.wait_ack = FALSE, !.b.dup = @ \/ n.b.type = "PUBLISH"]

Retry(n) ==
  IF n.ttl = 1
  THEN [n EXCEPT !.ttl = 0]
  ELSE [n EXCEPT !.ttl = @ - 1, !.wait_ack = FALSE,
                 !.b.dup = @ \/ n.b.type = "PUBLISH"]

CheckPadding(s) ==
  [i \in DOMAIN s |->
     IF TimedOut(s[i]) /\ \A j \in LastTimedOut(s) : i <= j
     THEN Retry(s[i]) ELSE s[i]]

(* Time passes for a node, for a timer.                                    *)
Older(a, t) == IF a + t > MaxAge THEN MaxAge ELSE a + t
AgeAll(s, t) == [i \in DOMAIN s |-> [s[i] EXCEPT !.age = Older(@, t)]]

(* mqtt_cli_outgoing: the nodes of the batch, what they become, and which  *)
(* nodes stay in the queue.                                                *)
Unsent(s) == {i \in DOMAIN s : ~s[i].wait_ack}

(* Mutant: t_send is set on every node of the walk.                        *)
MarkSentAll(s) ==
  [i \in DOMAIN s |->
     IF s[i].wait_ack THEN [s[i] EXCEPT !.age = 0]
     ELSE [s[i] EXCEPT !.wait_ack = TRUE, !.age = 0, !.tx = @ + 1]]

MarkSent(s) ==
  [i \in DOMAIN s |->
     IF s[i].wait_ack THEN s[i]
     ELSE [s[i] EXCEPT !.wait_ack = TRUE, !.age = 0, !.tx = @ + 1]]

Batch(s) == LET u == KeepAt(s, Unsent(s)) IN [i \in DOMAIN u |-> u[i].b]

(* Mutant: a node with one try left is taken for one with none.            *)
RemainingTries(s) ==
  KeepAt(MarkSent(s), {i \in DOMAIN s : s[i].wait_ack \/ s[i].ttl > 1})

Remaining(s) == KeepAt(MarkSent(s), {i \in DOMAIN s : s[i].wait_ack \/ s[i].ttl > 0})

(* _generate_packet_id skips 0 when the counter wraps.                     *)
(* Mutant: the counter is not advanced.                                    *)
NextIdStuck == IF packet_id = 0 THEN 1 ELSE packet_id

NextId == LET id == (packet_id + 1) % IdSpace IN IF id = 0 THEN 1 ELSE id
-----------------------------------------------------------------------------
Init ==
  /\ packet_id = 0 /\ padding = <<>>
  /\ pingAge = NoPing /\ sendAge = 0
  /\ pc = "connect" /\ out = <<>> /\ inb = <<>> /\ idle = FALSE
  /\ up = FALSE /\ c2s = <<>> /\ s2c = <<>>
  /\ session = "new" /\ held = {} /\ inflight = [i \in 1..MaxIn |-> "nothing"]
  /\ subscribed = FALSE
  /\ accepted = <<>> /\ got = {} /\ onward = [m \in Msgs |-> 0]
  /\ confirmed = {} /\ wire = {} /\ again = {} /\ wrapped = FALSE
  /\ unsubs = 0 /\ ins = 0 /\ drops = 0

(* Application calls, from another thread or between two steps.            *)

(* mqtt_cli_publish: an identifier is drawn only when QoS > 0.             *)
Publish(q) ==
  /\ Len(accepted) < MaxMsgs
  /\ LET id == IF q > 0 THEN NextId ELSE 0
         b  == [type |-> "PUBLISH", id |-> id, msg |-> Len(accepted) + 1,
                qos |-> q, dup |-> FALSE]
     IN /\ padding' = AppendPadding(padding, b)
        /\ packet_id' = IF q > 0 THEN id ELSE packet_id
        /\ wrapped' = (wrapped \/ (q > 0 /\ id <= packet_id))
  /\ accepted' = Append(accepted, q)
  /\ UNCHANGED <<pingAge, sendAge, loop, up, c2s, s2c, broker, got, onward,
                 confirmed, wire, again, bounds>>

(* mqtt_cli_unsubscribe.                                                   *)
Unsubscribe ==
  /\ unsubs < MaxUnsub
  /\ unsubs' = unsubs + 1
  /\ packet_id' = NextId
  /\ wrapped' = (wrapped \/ NextId <= packet_id)
  /\ padding' = AppendPadding(padding, Pkt("UNSUBSCRIBE", NextId))
  /\ UNCHANGED <<pingAge, sendAge, loop, up, c2s, s2c, broker, accepted, got,
                 onward, confirmed, wire, again, ins, drops>>
-----------------------------------------------------------------------------
(* The main loop.                                                          *)

(* linux_tcp_connect succeeds.  A failure is retried after a second and    *)
(* changes nothing.                                                        *)
TcpConnect ==
  /\ pc = "connect"
  /\ pc' = "hello"
  /\ up' = TRUE /\ c2s' = <<>> /\ s2c' = <<>>
  /\ session' = "new"
  /\ wire' = {} /\ again' = {} /\ onward' = [m \in Msgs |-> 0]
  /\ UNCHANGED <<client, out, inb, idle, held, inflight, subscribed, accepted,
                 got, confirmed, wrapped, bounds>>

(* mqtt_cli_connect: CONNECT goes to the end of a queue that may hold      *)
(* packets of the time before.                                             *)
(* Mutants: CONNECT put first in the queue; queued only when it is empty.  *)
HelloFirst ==
  /\ pc = "hello"
  /\ pc' = "outgoing"
  /\ padding' = <<NewNode(Pkt("CONNECT", 0))>> \o padding
  /\ UNCHANGED <<packet_id, pingAge, sendAge, out, inb, idle, up, c2s, s2c,
                 broker, ghosts, bounds>>
HelloIfEmpty ==
  /\ pc = "hello"
  /\ pc' = "outgoing"
  /\ padding' = IF padding = <<>> THEN <<NewNode(Pkt("CONNECT", 0))>> ELSE padding
  /\ UNCHANGED <<packet_id, pingAge, sendAge, out, inb, idle, up, c2s, s2c,
                 broker, ghosts, bounds>>

Hello ==
  /\ pc = "hello"
  /\ pc' = "outgoing"
  /\ padding' = AppendPadding(padding, Pkt("CONNECT", 0))
  /\ UNCHANGED <<packet_id, pingAge, sendAge, out, inb, idle, up, c2s, s2c,
                 broker, ghosts, bounds>>

(* mqtt_cli_outgoing.                                                      *)
Outgoing ==
  /\ pc = "outgoing"
  /\ pc' = "send"
  /\ out' = Batch(padding)
  /\ padding' = Remaining(padding)
  /\ sendAge' = IF Unsent(padding) = {} THEN sendAge ELSE 0
  /\ LET new == {<<padding[i].b.type, padding[i].b.id>> :
                   i \in {j \in Unsent(padding) : Acknowledged(padding[j].b)}}
         two == {k \in new : \E i, j \in Unsent(padding) :
                   i # j /\ k = <<padding[i].b.type, padding[i].b.id>>
                         /\ k = <<padding[j].b.type, padding[j].b.id>>}
     IN /\ wire' = wire \cup new
        /\ again' = again \cup (wire \cap new) \cup two
  /\ UNCHANGED <<packet_id, pingAge, inb, idle, up, c2s, s2c, broker, accepted,
                 got, onward, confirmed, wrapped, bounds>>

(* linux_tcp_send, first half of linux_tcp_transfer.  On a connection that *)
(* is gone the bytes are lost and the call may fail or seem to succeed.    *)
Send ==
  /\ pc = "send"
  /\ out' = <<>>
  /\ \/ /\ up /\ c2s' = c2s \o out /\ pc' = "recv"
     \/ /\ ~up /\ c2s' = c2s /\ pc' = "recv"
     \/ /\ ~up /\ out # <<>> /\ c2s' = c2s /\ pc' = "close"
  /\ UNCHANGED <<client, inb, idle, up, s2c, broker, ghosts, bounds>>

(* linux_tcp_recv, second half: some bytes, none before the timeout, or    *)
(* the end of the stream.                                                  *)
RecvData ==
  /\ pc = "recv" /\ s2c # <<>>
  /\ \E k \in 1..Len(s2c) : /\ inb' = SubSeq(s2c, 1, k)
                            /\ s2c' = SubSeq(s2c, k + 1, Len(s2c))
  /\ idle' = FALSE /\ pc' = "incoming"
  /\ UNCHANGED <<client, out, up, c2s, broker, ghosts, bounds>>

RecvTimeout ==
  /\ pc = "recv" /\ up
  /\ inb' = <<>> /\ idle' = TRUE /\ pc' = "incoming"
  /\ UNCHANGED <<client, out, up, c2s, s2c, broker, ghosts, bounds>>

RecvEnd ==
  /\ pc = "recv" /\ ~up /\ s2c = <<>>
  /\ pc' = "close"
  /\ UNCHANGED <<client, out, inb, idle, up, c2s, s2c, broker, ghosts, bounds>>
-----------------------------------------------------------------------------
(* mqtt_cli_incoming hands the packets of the chunk to _handle_packet one  *)
(* by one until one of them returns an error; the rest is then dropped.    *)

IncomingEnd ==
  /\ pc = "incoming" /\ inb = <<>>
  /\ pc' = "elapsed"
  /\ UNCHANGED <<client, out, inb, idle, up, c2s, s2c, broker, ghosts, bounds>>

(* The packet an acknowledgement is for.                                   *)
Answers == [PUBACK |-> "PUBLISH", PUBREC |-> "PUBLISH", PUBCOMP |-> "PUBREL"]

Unmatched(p) ==
  p.type \in DOMAIN Answers /\ Matching(padding, Answers[p.type], p.id) = {}

HandledTypes == {"CONNACK", "REFUSED", "PUBLISH", "PUBACK", "PUBREC", "PUBREL",
                 "PUBCOMP", "SUBACK", "UNSUBACK", "PINGRESP"}

(* An acknowledgement of nothing, or a packet only a broker should get.    *)
Rejected ==
  /\ pc = "incoming" /\ inb # <<>>
  /\ ~(Head(inb).type \in HandledTypes /\ ~Unmatched(Head(inb)))
  /\ inb' = <<>> /\ pc' = "close"
  /\ UNCHANGED <<client, out, idle, up, c2s, s2c, broker, ghosts, bounds>>

(* The next packet of the chunk is p of one of these types, and is handled *)
(* without an error.                                                       *)
Handle(types) ==
  /\ pc = "incoming" /\ inb # <<>> /\ Head(inb).type \in types
  /\ inb' = Tail(inb)
  /\ UNCHANGED <<sendAge, pc, out, idle, up, c2s, s2c, broker, accepted, got,
                 onward, wire, again, bounds>>

(* _connack: pms5003st_sub.c subscribes; a refusal is only printed.        *)
(* Mutant: the subscription is made once, not once per session.            *)
OnConnackOnce ==
  /\ Handle({"CONNACK", "REFUSED"})
  /\ IF Subscriber /\ Head(inb).type = "CONNACK" /\ packet_id = 0
     THEN /\ packet_id' = NextId
          /\ wrapped' = (wrapped \/ NextId <= packet_id)
          /\ padding' = AppendPadding(padding, Pkt("SUBSCRIBE", NextId))
     ELSE UNCHANGED <<packet_id, padding, wrapped>>
  /\ UNCHANGED <<pingAge, confirmed>>

OnConnack ==
  /\ Handle({"CONNACK", "REFUSED"})
  /\ IF Subscriber /\ Head(inb).type = "CONNACK"
     THEN /\ packet_id' = NextId
          /\ wrapped' = (wrapped \/ NextId <= packet_id)
          /\ padding' = AppendPadding(padding, Pkt("SUBSCRIBE", NextId))
     ELSE UNCHANGED <<packet_id, padding, wrapped>>
  /\ UNCHANGED <<pingAge, confirmed>>

(* Every copy of a message goes to the callback and is answered: PUBACK    *)
(* for QoS 1, PUBREC for QoS 2.                                            *)
Reply == <<"PUBACK", "PUBREC">>

OnPublish ==
  /\ Handle({"PUBLISH"})
  /\ padding' = IF Head(inb).qos = 0 THEN padding
                ELSE AppendPadding(padding, Pkt(Reply[Head(inb).qos], Head(inb).id))
  /\ UNCHANGED <<packet_id, pingAge, confirmed, wrapped>>

(* The exchange of a QoS 1 or of a QoS 2 message is complete.              *)
Acked == padding[FirstOf(Matching(padding, Answers[Head(inb).type], Head(inb).id))].b

OnAck ==
  /\ Handle({"PUBACK", "PUBCOMP"})
  /\ ~Unmatched(Head(inb))
  /\ padding' = ErasePadding(padding, Answers[Head(inb).type], Head(inb).id)
  /\ confirmed' = confirmed \cup {Acked.msg}
  /\ UNCHANGED <<packet_id, pingAge, wrapped>>

(* Mutant: the PUBLISH stays in the queue beside the PUBREL.               *)
OnPubrecKeeps ==
  /\ Handle({"PUBREC"})
  /\ ~Unmatched(Head(inb))
  /\ padding' = AppendPadding(padding,
                              [Pkt("PUBREL", Head(inb).id) EXCEPT !.msg = Acked.msg])
  /\ UNCHANGED <<packet_id, pingAge, confirmed, wrapped>>

OnPubrec ==
  /\ Handle({"PUBREC"})
  /\ ~Unmatched(Head(inb))
  /\ padding' = AppendPadding(ErasePadding(padding, "PUBLISH", Head(inb).id),
                              [Pkt("PUBREL", Head(inb).id) EXCEPT !.msg = Acked.msg])
  /\ UNCHANGED <<packet_id, pingAge, confirmed, wrapped>>

OnPubrel ==
  /\ Handle({"PUBREL"})
  /\ padding' = AppendPadding(padding, Pkt("PUBCOMP", Head(inb).id))
  /\ UNCHANGED <<packet_id, pingAge, confirmed, wrapped>>

(* _unsuback: pms5003st_sub.c disconnects.                                 *)
OnUnsuback ==
  /\ Handle({"UNSUBACK"})
  /\ padding' = IF Subscriber THEN AppendPadding(padding, Pkt("DISCONNECT", 0))
                ELSE padding
  /\ UNCHANGED <<packet_id, pingAge, confirmed, wrapped>>

OnSuback ==
  /\ Handle({"SUBACK"})
  /\ UNCHANGED <<packet_id, padding, pingAge, confirmed, wrapped>>

OnPingresp ==
  /\ Handle({"PINGRESP"})
  /\ pingAge' = NoPing
  /\ UNCHANGED <<packet_id, padding, confirmed, wrapped>>

HandlePacket ==
  \/ OnConnack \/ OnPublish \/ OnAck \/ OnPubrec \/ OnPubrel
  \/ OnUnsuback \/ OnSuback \/ OnPingresp \/ Rejected
-----------------------------------------------------------------------------
(* mqtt_cli_elapsed, with the time t this turn took: _check_keepalive,     *)
(* then _check_padding.  A turn without data lasted at least one tick.     *)

Durations == (IF idle THEN 1 ELSE 0)..MaxDelta

PingLost(t) == KeepAlive > 0 /\ pingAge # NoPing /\ Older(pingAge, t) > KeepAlive

PingDue(t) == KeepAlive > 0 /\ pingAge = NoPing /\ Older(sendAge, t) >= KeepAlive

(* The answer to the last PINGREQ is overdue: give the connection up.      *)
(* Mutant: m->t.ping keeps its value.                                      *)
ElapsedPingLostKeeps(t) ==
  /\ pc = "elapsed" /\ PingLost(t)
  /\ sendAge' = Older(sendAge, t)
  /\ pingAge' = Older(pingAge, t)
  /\ padding' = AgeAll(padding, t)
  /\ pc' = "close" /\ idle' = FALSE
  /\ UNCHANGED <<packet_id, out, inb, up, c2s, s2c, broker, ghosts, bounds>>

ElapsedPingLost(t) ==
  /\ pc = "elapsed" /\ PingLost(t)
  /\ sendAge' = Older(sendAge, t)
  /\ pingAge' = NoPing
  /\ padding' = AgeAll(padding, t)
  /\ pc' = "close" /\ idle' = FALSE
  /\ UNCHANGED <<packet_id, out, inb, up, c2s, s2c, broker, ghosts, bounds>>

(* A PINGREQ if one is due, then the timeouts of the queue; the connection *)
(* is given up when a packet has used its last try.                        *)
ElapsedCheck(t) ==
  /\ pc = "elapsed" /\ ~PingLost(t)
  /\ sendAge' = Older(sendAge, t)
  /\ pingAge' = IF PingDue(t) THEN 0
                ELSE IF pingAge = NoPing THEN NoPing ELSE Older(pingAge, t)
  /\ LET aged == AgeAll(padding, t)
         s    == IF PingDue(t) THEN AppendPadding(aged, Pkt("PINGREQ", 0)) ELSE aged
     IN /\ padding' = CheckPadding(s)
        /\ pc' = IF LastTimedOut(s) = {} THEN "outgoing" ELSE "close"
  /\ idle' = FALSE
  /\ UNCHANGED <<packet_id, out, inb, up, c2s, s2c, broker, ghosts, bounds>>

Elapsed == \E t \in Durations : ElapsedPingLost(t) \/ ElapsedCheck(t)

(* linux_tcp_close.  What was sent may still reach the broker before the   *)
(* next connection replaces this one.                                      *)
Close ==
  /\ pc = "close"
  /\ pc' = "connect"
  /\ inb' = <<>> /\ s2c' = <<>>
  /\ UNCHANGED <<client, out, idle, up, c2s, broker, ghosts, bounds>>

MainLoop ==
  \/ TcpConnect \/ Hello \/ Outgoing \/ Send \/ RecvData \/ RecvTimeout
  \/ RecvEnd \/ IncomingEnd \/ HandlePacket \/ Elapsed \/ Close
-----------------------------------------------------------------------------
(* The broker and the network.                                             *)

BrokerGets(type) == up /\ c2s # <<>> /\ Head(c2s).type = type
InSession(type)  == session = "open" /\ BrokerGets(type)

Replies(packets) == c2s' = Tail(c2s) /\ s2c' = s2c \o packets

(* A clean session begins.                                                 *)
BrokerAccept ==
  /\ session = "new" /\ BrokerGets("CONNECT")
  /\ session' = "open"
  /\ held' = {} /\ inflight' = [i \in 1..MaxIn |-> "nothing"]
  /\ subscribed' = FALSE
  /\ Replies(<<Pkt("CONNACK", 0)>>)
  /\ UNCHANGED <<client, loop, up, ghosts, bounds>>

BrokerRefuse ==
  /\ session = "new" /\ BrokerGets("CONNECT")
  /\ drops < MaxDrops /\ drops' = drops + 1
  /\ s2c' = Append(s2c, Pkt("REFUSED", 0))
  /\ up' = FALSE /\ c2s' = <<>>
  /\ UNCHANGED <<client, loop, broker, ghosts, unsubs, ins>>

(* What ends a connection: anything before CONNECT, a second CONNECT, an   *)
(* acknowledgement of nothing, or DISCONNECT.                              *)
Awaited == [PUBACK |-> "puback", PUBREC |-> "pubrec", PUBCOMP |-> "pubcomp"]

Welcome(p) ==
  /\ p.type # "DISCONNECT"
  /\ (p.type = "CONNECT") = (session = "new")
  /\ p.type \in DOMAIN Awaited => inflight[p.id] = Awaited[p.type]

BrokerClose ==
  /\ up /\ c2s # <<>> /\ ~Welcome(Head(c2s))
  /\ up' = FALSE /\ c2s' = <<>>
  /\ UNCHANGED <<client, loop, s2c, broker, ghosts, bounds>>

BrokerPublished ==
  /\ InSession("PUBLISH")
  /\ LET p == Head(c2s) IN
     /\ Replies(CASE p.qos = 0 -> <<>>
                  [] p.qos = 1 -> <<Pkt("PUBACK", p.id)>>
                  [] p.qos = 2 -> <<Pkt("PUBREC", p.id)>>)
     /\ held' = IF p.qos = 2 THEN held \cup {p.id} ELSE held
     /\ IF p.qos = 2 /\ p.id \in held
        THEN UNCHANGED <<got, onward>>
        ELSE /\ got' = got \cup {p.msg}
             /\ onward' = [onward EXCEPT ![p.msg] = IF @ = 2 THEN 2 ELSE @ + 1]
  /\ UNCHANGED <<client, loop, up, session, inflight, subscribed, accepted,
                 confirmed, wire, again, wrapped, bounds>>

BrokerReleased ==
  /\ InSession("PUBREL")
  /\ held' = held \ {Head(c2s).id}
  /\ Replies(<<Pkt("PUBCOMP", Head(c2s).id)>>)
  /\ UNCHANGED <<client, loop, up, session, inflight, subscribed, ghosts, bounds>>

BrokerPinged ==
  /\ InSession("PINGREQ")
  /\ Replies(<<Pkt("PINGRESP", 0)>>)
  /\ UNCHANGED <<client, loop, up, broker, ghosts, bounds>>

BrokerSubscribed ==
  /\ InSession("SUBSCRIBE")
  /\ subscribed' = TRUE
  /\ Replies(<<Pkt("SUBACK", Head(c2s).id)>>)
  /\ UNCHANGED <<client, loop, up, session, held, inflight, ghosts, bounds>>

BrokerUnsubscribed ==
  /\ InSession("UNSUBSCRIBE")
  /\ subscribed' = FALSE
  /\ Replies(<<Pkt("UNSUBACK", Head(c2s).id)>>)
  /\ UNCHANGED <<client, loop, up, session, held, inflight, ghosts, bounds>>

(* The client acknowledges one of the broker's messages.                   *)
BrokerAcked ==
  /\ session = "open" /\ up /\ c2s # <<>>
  /\ LET p == Head(c2s) IN
     /\ p.type \in DOMAIN Awaited /\ Welcome(p)
     /\ inflight' = [inflight EXCEPT ![p.id] =
                       IF p.type = "PUBREC" THEN "pubcomp" ELSE "nothing"]
     /\ Replies(IF p.type = "PUBREC" THEN <<Pkt("PUBREL", p.id)>> ELSE <<>>)
  /\ UNCHANGED <<client, loop, up, session, held, subscribed, ghosts, bounds>>

BrokerRecv ==
  \/ BrokerAccept \/ BrokerRefuse \/ BrokerClose \/ BrokerPublished
  \/ BrokerReleased \/ BrokerPinged \/ BrokerSubscribed
  \/ BrokerUnsubscribed \/ BrokerAcked

(* A message for the subscriber.                                           *)
BrokerSend(q) ==
  /\ session = "open" /\ up /\ subscribed /\ ins < MaxIn
  /\ ins' = ins + 1
  /\ s2c' = Append(s2c, [Pkt("PUBLISH", IF q = 0 THEN 0 ELSE ins + 1) EXCEPT !.qos = q])
  /\ inflight' = [inflight EXCEPT ![ins + 1] = <<"nothing", "puback", "pubrec">>[q + 1]]
  /\ UNCHANGED <<client, loop, up, c2s, session, held, subscribed, ghosts,
                 unsubs, drops>>

(* The connection breaks; what was on its way to the client may be lost.   *)
Drop ==
  /\ up /\ drops < MaxDrops
  /\ drops' = drops + 1
  /\ up' = FALSE /\ c2s' = <<>>
  /\ s2c' \in {s2c, <<>>}
  /\ UNCHANGED <<client, loop, broker, ghosts, unsubs, ins>>

Environment ==
  \/ \E q \in QosUsed : Publish(q)
  \/ Unsubscribe
  \/ BrokerRecv
  \/ \E q \in InQos : BrokerSend(q)
  \/ Drop

Next == MainLoop \/ Environment

Spec == Init /\ [][Next]_vars

(* The main loop always goes on, data that has arrived is received in the  *)
(* end, and a broker that is offered packets again and again reads them.   *)
FairSpec ==
  /\ Spec
  /\ WF_vars(MainLoop)
  /\ SF_vars(RecvData)
  /\ SF_vars(BrokerRecv)
-----------------------------------------------------------------------------
(* Properties.                                                             *)

(* Every variable stays in its domain; in particular an age never exceeds  *)
(* the saturation bound and the queue holds well-formed nodes only.        *)
TypeOK ==
  /\ packet_id \in Ids
  /\ padding \in Seq(Node)
  /\ pingAge \in {NoPing} \cup 0..MaxAge /\ sendAge \in 0..MaxAge
  /\ pc \in {"connect", "hello", "outgoing", "send", "recv", "incoming",
             "elapsed", "close"}
  /\ out \in Seq(Packet) /\ inb \in Seq(Packet) /\ idle \in BOOLEAN
  /\ up \in BOOLEAN /\ c2s \in Seq(Packet) /\ s2c \in Seq(Packet)
  /\ session \in {"new", "open"} /\ held \subseteq Nat
  /\ inflight \in [1..MaxIn -> {"nothing", "puback", "pubrec", "pubcomp"}]
  /\ subscribed \in BOOLEAN
  /\ accepted \in Seq(QosUsed) /\ Len(accepted) <= MaxMsgs
  /\ got \subseteq 0..MaxMsgs /\ confirmed \subseteq 0..MaxMsgs
  /\ onward \in [Msgs -> 0..2]
  /\ wire \subseteq PacketTypes \X Nat /\ again \subseteq PacketTypes \X Nat
  /\ wrapped \in BOOLEAN
  /\ unsubs \in 0..MaxUnsub /\ ins \in 0..MaxIn /\ drops \in 0..MaxDrops

(* The nodes of the queue that carry message m's exchange.                 *)
Carries(m) == {i \in DOMAIN padding :
                 padding[i].b.msg = m /\ Acknowledged(padding[i].b)}

(* No published QoS 1 or 2 message is ever forgotten or doubled: until its *)
(* exchange completes exactly one node of the queue, its PUBLISH or its    *)
(* PUBREL, stands for it, and none afterwards, through lost connections,   *)
(* retries and failures (_append_padding, _erase_padding, outgoing).       *)
NothingLost ==
  \A m \in DOMAIN accepted :
    accepted[m] > 0 => Cardinality(Carries(m)) = IF m \in confirmed THEN 0 ELSE 1

(* The client completes an exchange only for a message the broker has      *)
(* received, as long as the identifier counter has not wrapped: an         *)
(* acknowledgement of another message, or of an earlier connection, never  *)
(* completes it (_generate_packet_id, _erase_padding, _handle_packet).     *)
AckedWasReceived == ~wrapped => confirmed \subseteq got

(* An acknowledgement that matches nothing in the queue, which costs the   *)
(* client its connection, only ever comes after the client has sent the    *)
(* packet it answers more than once on this connection.                    *)
AcksMatch ==
  pc = "incoming" /\ inb # <<>> /\ Unmatched(Head(inb))
    => <<Answers[Head(inb).type], Head(inb).id>> \in again

(* ttl counts the tries: a packet that has ttl tries left has been sent    *)
(* PacketTTL - ttl times (and once more when it waits for its answer), and *)
(* a packet that was given up has been sent exactly PacketTTL times.       *)
(* Nothing expires before it was sent.                                     *)
TriesCounted ==
  \A i \in DOMAIN padding : LET n == padding[i] IN
    Acknowledged(n.b) =>
      n.tx = PacketTTL - n.ttl + IF n.wait_ack /\ n.ttl > 0 THEN 1 ELSE 0

(* The DUP flag tells the truth: a packet about to be sent carries it if   *)
(* and only if it is a PUBLISH that was part of an earlier batch.          *)
DupMeansSentBefore ==
  \A i \in Unsent(padding) :
    padding[i].b.dup <=> (padding[i].b.type = "PUBLISH" /\ padding[i].tx > 0)

(* Within one session the broker passes a QoS 2 message on at most once,   *)
(* however often the PUBLISH was retried, and a QoS 0 message too.         *)
PassedOnOnce ==
  ~wrapped => \A m \in DOMAIN accepted : accepted[m] # 1 => onward[m] <= 1

(* First copies leave in the order of the calls of mqtt_cli_publish.       *)
FirstCopiesInOrder ==
  LET sent == c2s \o out IN
  \A i, j \in DOMAIN sent :
    i < j /\ sent[i].type = "PUBLISH" /\ sent[j].type = "PUBLISH"
          /\ ~sent[i].dup /\ ~sent[j].dup
      => sent[i].msg < sent[j].msg

(* While a turn of the loop is under way the client has been silent for at *)
(* most the keep-alive, and a ping has been unanswered for at most the     *)
(* keep-alive, whatever an earlier connection left behind in m->t; a turn  *)
(* adds at most its own length (_check_keepalive, mqtt_cli_outgoing).      *)
KeepAliveHonoured ==
  KeepAlive > 0 =>
    /\ pingAge <= KeepAlive
    /\ sendAge <= KeepAlive + MaxDelta
    /\ pc \in {"send", "recv", "incoming", "elapsed"} => sendAge <= KeepAlive

(* However long a turn lasts, no packet is sent more than PacketTTL times, *)
(* and one that waits for its answer has been sent at least once: a        *)
(* stalled turn may only cost tries, never add one.                        *)
TriesBounded ==
  \A i \in DOMAIN padding : LET n == padding[i] IN
    Acknowledged(n.b) =>
      /\ n.tx + n.ttl <= PacketTTL + IF n.wait_ack /\ n.ttl > 0 THEN 1 ELSE 0
      /\ n.wait_ack /\ n.ttl > 0 => n.tx > 0

(* Once the broker has opened the session, no second CONNECT is anywhere   *)
(* on its way: not in the queue, in the batch or in flight.                *)
OneConnect ==
  session = "open" =>
    /\ \A i \in DOMAIN padding : padding[i].b.type # "CONNECT"
    /\ \A i \in DOMAIN out : out[i].type # "CONNECT"
    /\ \A i \in DOMAIN c2s : c2s[i].type # "CONNECT"

(* An acknowledgement that the client queued on one connection and could   *)
(* not send never reaches the session of a later connection: what the      *)
(* broker reads in a session is something that session waits for.          *)
AcksAnswerThisSession ==
  session = "open" /\ c2s # <<>> /\ Head(c2s).type \in DOMAIN Awaited
    => inflight[Head(c2s).id] = Awaited[Head(c2s).type]

(* The message was given up after its last try; its node stays.            *)
GivenUp(m) == \E i \in Carries(m) : padding[i].ttl = 0

(* Every QoS 1 or 2 message is completed or given up in the end.           *)
Settles ==
  \A m \in Msgs : (m \in DOMAIN accepted /\ accepted[m] > 0)
                    ~> (m \in confirmed \/ GivenUp(m))

(* Whatever is left in the queue when a connection fails, a session is     *)
(* opened again and again: packets that go out before CONNECT cost one     *)
(* connection each, and are gone then.                                     *)
SessionOpens == []<>(session = "open")

(* pms5003st_sub.c: every session that lasts gets its subscription back.   *)
Resubscribes ==
  (session = "open" /\ unsubs = 0) ~> (subscribed \/ session # "open" \/ ~up \/ unsubs > 0)
-----------------------------------------------------------------------------
(* The messages with QoS > 0 that were published.                          *)
Taken == {m \in DOMAIN accepted : accepted[m] > 0}

Contract == INSTANCE Delivery WITH
  Message   <- Msgs,
  taken     <- Taken,
  arrived   <- got \cap Taken,
  complete  <- confirmed,
  abandoned <- {m \in Taken : GivenUp(m)}

(* The engine implements the delivery contract: a message is completed     *)
(* only after the broker has it, one at a time, for good, and is given up  *)
(* only while it is not complete; a late answer takes it back.             *)
Delivers == Contract!Spec
=============================================================================
