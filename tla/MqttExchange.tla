----------------------------- MODULE MqttExchange -----------------------------
(***************************************************************************)
(* Packets from one user of mqtt.h to another: an application fills in a   *)
(* packet and adds and removes properties, mqtt_serialize turns it into    *)
(* bytes, these may be damaged on their way, and a parser with a version   *)
(* of its own, which it keeps from packet to packet, reads them.           *)
(***************************************************************************)
EXTENDS MqttCodec

CONSTANTS
  Uses,     \* what applications do with the library: a function of records
  Damage    \* values a byte is changed to on the way

(* types: the packet types sent; strings: what goes in a topic, a payload, *)
(* a name, texts: in a property; given: reason codes; flags: connect_flags;*)
(* words, longs, vbis: integers of two bytes, of four (as halves), of one  *)
(* to four; codes: properties added; damage: packets are damaged;  *)
(* and the bounds: lists, the topic filters or return codes of a packet,   *)
(* properties added to it, and packets.                                    *)
Words == 0..(256 * 256 - 1)

ASSUME ExchangeAssumption ==
  /\ Damage \subseteq 0..255
  /\ \A u \in DOMAIN Uses :
       LET app == Uses[u] IN
       /\ app.types \subseteq PacketTypes /\ app.flags \subseteq 0..255
       /\ app.given \subseteq 0..MaxReason /\ app.codes \subseteq 1..LastProperty
       /\ (app.strings \union app.texts) \subseteq Seq(0..255)
       /\ app.words \subseteq Words /\ app.longs \subseteq Words \X Words
       /\ app.vbis \subseteq 0..(VbiLimit - 1) /\ app.damage \in BOOLEAN
       /\ app.lists \in Nat /\ app.properties \in Nat /\ app.packets \in Nat

VARIABLES
  use,       \* what the application does: Uses[use]
  ver,       \* the version the sender uses
  version,   \* parser->version of the receiver
  pc,        \* "idle", "compose", "sent", "refused", "received"
  pkt,       \* the packet the sender fills in
  out,       \* what mqtt_serialize returned, its bytes as they arrive
  in,        \* what mqtt_parse returned
  damaged,   \* history: the bytes were changed
  added,     \* counter of the bound
  sent       \* counter of the bound

vars == <<use, ver, version, pc, pkt, out, in, damaged, added, sent>>

None == [rc |-> 0]

U == Uses[use]

(* A parser that is told the version, as a client's is, or that is not and *)
(* waits for CONNECT, as a server's.                                       *)
Init ==
  /\ use \in DOMAIN Uses
  /\ ver \in Versions
  /\ version \in {0, ver}
  /\ pc = "idle" /\ pkt = None /\ out = None /\ in = None
  /\ damaged = FALSE /\ added = 0 /\ sent = 0
-----------------------------------------------------------------------------
(* What an application writes into a packet that mqtt_packet_init made;    *)
(* the lists come from mqtt_subscribe_generate and the like.               *)
ReasonsGiven(type) == Reasons(type) \intersect U.given

Lists(S) == UNION {[1..n -> S] : n \in 0..U.lists}

FillConnect(p) ==
  \E flags \in U.flags, w \in U.words, c \in U.strings, t \in U.strings,
     m \in U.strings, u \in U.strings, s \in U.strings :
    pkt' = [p EXCEPT !.f = [@ EXCEPT !.flags = flags, !.keep_alive = w, !.client_id = c,
                                     !.will_topic = t, !.will_message = m,
                                     !.username = u, !.password = s]]

FillConnack(p) ==
  \E b \in IF p.ver = 3 THEN {0} ELSE 0..1,
     c \in IF p.ver = 5 THEN ReasonsGiven(CONNACK) ELSE ConnectCodes :
    pkt' = [p EXCEPT !.f = [@ EXCEPT !.flags = b, !.code = c]]

FillPublish(p) ==
  \E d \in 0..1, q \in 0..3, r \in 0..1, t \in U.strings, m \in U.strings, w \in U.words :
    pkt' = [p EXCEPT !.dup = d, !.qos = q, !.retain = r,
                     !.f = [@ EXCEPT !.topic_name = t, !.message = m, !.packet_id = w]]

FillAck(p) ==
  \E w \in U.words, c \in IF p.ver = 5 THEN ReasonsGiven(p.type) ELSE {0} :
    pkt' = [p EXCEPT !.f = [@ EXCEPT !.packet_id = w, !.code = c]]

FillSubscribe(p) ==
  \E w \in U.words, s \in Lists([topic : U.strings, options : 0..3]) :
    pkt' = [p EXCEPT !.f = [@ EXCEPT !.packet_id = w, !.filters = s]]

FillUnsubscribe(p) ==
  \E w \in U.words, s \in Lists(U.strings) :
    pkt' = [p EXCEPT !.f = [@ EXCEPT !.packet_id = w, !.topics = s]]

FillSuback(p) ==
  \E w \in U.words, s \in Lists(IF p.ver = 5 THEN ReasonsGiven(SUBACK) ELSE SubackCodes) :
    pkt' = [p EXCEPT !.f = [@ EXCEPT !.packet_id = w, !.codes = s]]

FillUnsuback(p) ==
  \E w \in U.words, s \in IF p.ver = 5 THEN Lists(ReasonsGiven(UNSUBACK)) ELSE {<<>>} :
    pkt' = [p EXCEPT !.f = [@ EXCEPT !.packet_id = w, !.codes = s]]

FillClose(p) ==
  \E c \in IF p.ver = 5 THEN ReasonsGiven(p.type) ELSE {0} :
    pkt' = [p EXCEPT !.f = [@ EXCEPT !.code = c]]

Fill(p) ==
  \/ p.type = CONNECT /\ FillConnect(p)
  \/ p.type = CONNACK /\ FillConnack(p)
  \/ p.type = PUBLISH /\ FillPublish(p)
  \/ p.type \in {PUBACK, PUBREC, PUBREL, PUBCOMP} /\ FillAck(p)
  \/ p.type = SUBSCRIBE /\ FillSubscribe(p)
  \/ p.type = UNSUBSCRIBE /\ FillUnsubscribe(p)
  \/ p.type = SUBACK /\ FillSuback(p)
  \/ p.type = UNSUBACK /\ FillUnsuback(p)
  \/ p.type \in {DISCONNECT, AUTH} /\ FillClose(p)
  \/ p.type \in {PINGREQ, PINGRESP} /\ pkt' = p

Compose ==
  /\ pc \in {"idle", "refused", "received"} /\ sent < U.packets
  /\ \E type \in U.types : Fill(PacketInit(ver, type))
  /\ pc' = "compose" /\ sent' = sent + 1
  /\ out' = None /\ in' = None /\ damaged' = FALSE /\ added' = 0
  /\ UNCHANGED <<use, ver, version>>

(* mqtt_properties_add and mqtt_properties_remove, on the properties of a  *)
(* version 5 packet or on those of its will.                               *)
Values(code) ==
  CASE code \in ByteProperties -> {[code |-> code, int |-> n] : n \in 0..1}
    [] code \in WordProperties -> {[code |-> code, int |-> n] : n \in U.words}
    [] code \in LongProperties -> {[code |-> code, long |-> n] : n \in U.longs}
    [] code \in VbiProperties  -> {[code |-> code, int |-> n] : n \in U.vbis}
    [] code \in TextProperties -> {[code |-> code, text |-> s] : s \in U.texts}
    [] code \in PairProperties -> {[code |-> code, pair |-> st] : st \in U.texts \X U.texts}

PropertyFields == DOMAIN pkt.f \intersect {"properties", "will_properties"}

AddProperty ==
  /\ pc = "compose" /\ ver = 5 /\ added < U.properties
  /\ \E field \in PropertyFields, code \in U.codes :
       \E p \in Values(code) :
         pkt' = [pkt EXCEPT !.f = [@ EXCEPT ![field] = PropertiesAdd(pkt.f[field], p)]]
  /\ added' = added + 1
  /\ UNCHANGED <<use, ver, version, pc, out, in, damaged, sent>>

RemoveProperty ==
  /\ pc = "compose"
  /\ \E field \in PropertyFields, code \in U.codes :
       /\ PropertiesFind(pkt.f[field], code) # 0
       /\ pkt' = [pkt EXCEPT !.f = [@ EXCEPT ![field] = PropertiesRemove(pkt.f[field], code)]]
  /\ UNCHANGED <<use, ver, version, pc, out, in, damaged, added, sent>>

Send ==
  /\ pc = "compose"
  /\ out' = Serialize(pkt)
  /\ pc' = IF out'.rc = -1 \/ out'.bytes = <<>> THEN "refused" ELSE "sent"
  /\ UNCHANGED <<use, ver, version, pkt, in, damaged, added, sent>>

(* On the way a byte is changed, or the end of the body is lost and its    *)
(* length, one digit, corrected.                                           *)
Change ==
  /\ pc = "sent" /\ U.damage /\ ~damaged
  /\ \E i \in DOMAIN out.bytes, b \in Damage :
       out' = [out EXCEPT !.bytes[i] = b]
  /\ damaged' = TRUE
  /\ UNCHANGED <<use, ver, version, pc, pkt, in, added, sent>>

Truncate ==
  /\ pc = "sent" /\ U.damage /\ ~damaged
  /\ Len(out.bytes) > 2 /\ out.bytes[2] < \h80
  /\ \E n \in 2..(Len(out.bytes) - 1) :
       out' = [out EXCEPT !.bytes = [SubSeq(@, 1, n) EXCEPT ![2] = n - 2]]
  /\ damaged' = TRUE
  /\ UNCHANGED <<use, ver, version, pc, pkt, in, added, sent>>

(* mqtt_parse on the bytes.  After a stray read either result is possible, *)
(* and a packet then has fields nobody knows; if it was in CONNECT, so     *)
(* may the version be.                                                     *)
Unknown == [rc |-> 1]

Receive ==
  /\ pc = "sent"
  /\ LET Return(r) ==
           \/ r.st = "ok" /\ in' = [rc |-> 1, pkt |-> r.pkt] /\ version' = r.ver
           \/ r.st = "bad" /\ in' = [rc |-> -1] /\ version' = r.ver
           \/ /\ r.st = "wild" /\ in' \in {[rc |-> -1], Unknown}
              /\ version' \in IF r.pkt.type = CONNECT THEN Versions \union {0, r.ver}
                              ELSE {r.ver}
     IN Return(Parse(version, out.bytes))
  /\ pc' = "received"
  /\ UNCHANGED <<use, ver, pkt, out, damaged, added, sent>>

Next ==
  Compose \/ AddProperty \/ RemoveProperty \/ Send \/ Change \/ Truncate \/ Receive

Spec == Init /\ [][Next]_vars
-----------------------------------------------------------------------------
Accepted == pc = "received" /\ in.rc = 1 /\ in # Unknown

(* Two packets that differ at most in the order of their properties being  *)
(* turned round.                                                           *)
Turned(p) ==
  LET turn(ps) == [ps EXCEPT !.list = Reverse(@)]
      has(field) == field \in DOMAIN p.f
  IN [p EXCEPT !.f = IF has("will_properties")
                     THEN [@ EXCEPT !.properties = turn(@), !.will_properties = turn(@)]
                     ELSE IF has("properties") THEN [@ EXCEPT !.properties = turn(@)] ELSE @]

(* PUBREL, SUBSCRIBE and UNSUBSCRIBE get their QoS bit only on the wire.   *)
Same(p, q) ==
  /\ p.ver = q.ver /\ p.type = q.type /\ p.f = Turned(q).f
  /\ p.type = PUBLISH => p.dup = q.dup /\ p.qos = q.qos /\ p.retain = q.retain

(* The packets that the format, as the parser reads it, can express.       *)
FullStrings(ps) ==
  \A i \in DOMAIN ps.list :
    LET p == ps.list[i] IN
    /\ p.code \in TextProperties => p.text # <<>>
    /\ p.code \in PairProperties => p.pair[1] # <<>> /\ p.pair[2] # <<>>

Expressible(p) ==
  LET f == p.f IN
  /\ "properties" \in DOMAIN f =>
       FullStrings(f.properties) /\ PropertiesValid(f.properties, p.type, FALSE)
  /\ p.type = CONNECT =>
       /\ f.client_id # <<>>
       /\ IF WillFlag(p)
          THEN /\ f.will_topic # <<>> /\ f.will_message # <<>> /\ WillQos(f.flags) \in Qos
               /\ FullStrings(f.will_properties)
               /\ PropertiesValid(f.will_properties, RESERVED, TRUE)
          ELSE f.will_topic = <<>> /\ f.will_message = <<>> /\ f.will_properties = NoProperties
       /\ (f.username # <<>>) = UsernameFlag(p)
       /\ (f.password # <<>>) = PasswordFlag(p)
       /\ PasswordFlag(p) => UsernameFlag(p)
  /\ p.type = PUBLISH => /\ f.topic_name # <<>> /\ p.qos \in Qos
                         /\ p.qos = 0 => f.packet_id = 0
  /\ p.type = SUBSCRIBE =>
       /\ f.filters # <<>>
       /\ \A i \in DOMAIN f.filters : f.filters[i].topic # <<>> /\ f.filters[i].options % 4 \in Qos
  /\ p.type = UNSUBSCRIBE => f.topics # <<>> /\ \A i \in DOMAIN f.topics : f.topics[i] # <<>>
  /\ p.type = SUBACK => f.codes # <<>>
  /\ p.type = AUTH => p.ver = 5
-----------------------------------------------------------------------------
(* However properties are added and removed, the length kept beside the    *)
(* list is the length of its bytes: mqtt_properties_add and                *)
(* mqtt_properties_remove count the bytes __property_serialize writes.     *)
(* __properties_parse counts those it reads: the length it keeps of a list *)
(* it accepts is the same too, unless it skipped a string                  *)
(* (mqtt_str_read_utf then leaves even the length of the string to be read *)
(* as what follows); but for an integer of variable length, which may have *)
(* been written with up to three bytes too many, or with none at all at    *)
(* the end of the packet.                                                  *)
Bytes(ps) == Sum([i \in DOMAIN ps.list |-> Len(PropertyBytes(ps.list[i]))])
Vbis(ps)  == Sum([i \in DOMAIN ps.list |-> If(ps.list[i].code \in VbiProperties, 1)])

PropertyLists(p) == {p.f[field] : field \in DOMAIN p.f \intersect {"properties", "will_properties"}}

LengthsTrue(p) == \A ps \in PropertyLists(p) : ps.length = Bytes(ps)
Skipped(p)     == \E ps \in PropertyLists(p) : ~FullStrings(ps)

LengthKept ==
  /\ pc # "idle" => LengthsTrue(pkt)
  /\ Accepted /\ ~Skipped(in.pkt) =>
       \A ps \in PropertyLists(in.pkt) :
         ps.length - Bytes(ps) \in IF Vbis(ps) = 0 THEN {0} ELSE (-1)..(3 * Vbis(ps))

(* mqtt_serialize writes as many bytes as it allocated, in every packet it *)
(* does not refuse and whose length four digits can say, and each of them  *)
(* is a byte: each function's sum of lengths is that of its writes.        *)
BufferExact ==
  out # None /\ ~damaged /\ Length(pkt) < VbiLimit =>
    out.size = Len(out.bytes) /\ out.bytes \in Seq(0..255)

(* A packet comes out of the parser as it went into the serialiser,        *)
(* between two ends that use the same version, if and only if it is one    *)
(* the format can express.                                                 *)
RoundTrip ==
  pc \in {"refused", "received"} /\ ~damaged /\ (ver = version \/ pkt.type = CONNECT) =>
    ((pc = "received" /\ Accepted /\ Same(in.pkt, pkt)) <=> Expressible(pkt))

(* Once a packet has been accepted, be it damaged or not, it can be passed *)
(* on: serialised anew it is accepted again, as the same packet.  The      *)
(* exceptions are what the parser takes and the serialiser refuses or      *)
(* writes differently, an integer of variable length that was not written  *)
(* in its shortest form included.                                          *)
OnlyParsed(p) ==
  \/ Skipped(p) \/ ~LengthsTrue(p)
  \/ p.ver \notin Versions
  \/ p.type = SUBSCRIBE /\ p.f.filters = <<>>
  \/ p.type = UNSUBSCRIBE /\ p.f.topics = <<>>
  \/ p.type = SUBACK /\ p.f.codes = <<>>
  \/ p.type = CONNECT /\ PasswordFlag(p) /\ ~UsernameFlag(p)

PassedOn ==
  Accepted =>
    LET Accepts(r) == r.st = "ok" /\ Same(r.pkt, in.pkt)
        Passes(s)  == s.rc = 0 /\ Accepts(Parse(version, s.bytes))
    IN Passes(Serialize(in.pkt)) <=> ~OnlyParsed(in.pkt)
=============================================================================
