------------------------------ MODULE MqttCodec ------------------------------
(***************************************************************************)
(* mqtt_serialize and __process of mqtt.h: a packet of MQTT 3.1, 3.1.1 or  *)
(* 5 to bytes, and bytes to a packet.  The two directions are translated   *)
(* each from its own functions and share nothing but the tables.           *)
(*                                                                         *)
(* A packet is [ver, type, dup, qos, retain, f]; f is a record with the    *)
(* fields of v and p that its type uses.  A property is [code, <value>],   *)
(* the value under the name of its form; a list of them begins with the    *)
(* head.  A four-byte integer is its two halves.                           *)
(***************************************************************************)
EXTENDS MqttTables, Wire

NoProperties == [list |-> <<>>, length |-> 0]

(* memset: the fields of a packet of each type, all zero.                  *)
ConnectZero ==
  [protocol_name |-> <<>>, protocol_version |-> 0, flags |-> 0, keep_alive |-> 0,
   properties |-> NoProperties, client_id |-> <<>>, will_properties |-> NoProperties,
   will_topic |-> <<>>, will_message |-> <<>>, username |-> <<>>, password |-> <<>>]

ConnackZero == [flags |-> 0, code |-> 0, properties |-> NoProperties]

PublishZero ==
  [packet_id |-> 0, properties |-> NoProperties, topic_name |-> <<>>, message |-> <<>>]

AckZero == [packet_id |-> 0, properties |-> NoProperties, code |-> 0]

ListZero(type) ==
  CASE type = SUBSCRIBE   -> [packet_id |-> 0, properties |-> NoProperties, filters |-> <<>>]
    [] type = UNSUBSCRIBE -> [packet_id |-> 0, properties |-> NoProperties, topics |-> <<>>]
    [] type \in {SUBACK, UNSUBACK} ->
         [packet_id |-> 0, properties |-> NoProperties, codes |-> <<>>]

CloseZero == [code |-> 0, properties |-> NoProperties]

Zero(type) ==
  CASE type = CONNECT -> ConnectZero
    [] type = CONNACK -> ConnackZero
    [] type = PUBLISH -> PublishZero
    [] type \in {PUBACK, PUBREC, PUBREL, PUBCOMP} -> AckZero
    [] type \in {SUBSCRIBE, UNSUBSCRIBE, SUBACK, UNSUBACK} -> ListZero(type)
    [] type \in {DISCONNECT, AUTH} -> CloseZero
    [] type \in {PINGREQ, PINGRESP} -> [nothing |-> 0]

(* mqtt_packet_init.                                                       *)
ProtocolName(ver) == IF ver = 3 THEN <<77, 81, 73, 115, 100, 112>> ELSE <<77, 81, 84, 84>>

PacketInit(ver, type) ==
  [ver |-> ver, type |-> type, dup |-> 0, qos |-> 0, retain |-> 0,
   f |-> IF type = CONNECT
         THEN [Zero(type) EXCEPT !.protocol_name = ProtocolName(ver), !.protocol_version = ver]
         ELSE Zero(type)]

(* The bit-fields of CONNECT's flags.                                      *)
Bit(flags, k)   == (flags \div 2^k) % 2 = 1
WillFlag(p)     == Bit(p.f.flags, 2)
WillQos(flags)  == (flags \div 8) % 4
PasswordFlag(p) == Bit(p.f.flags, 6)
UsernameFlag(p) == Bit(p.f.flags, 7)
-----------------------------------------------------------------------------
(* The list of properties of a packet under construction: its length is    *)
(* kept by mqtt_properties_add and mqtt_properties_remove.                 *)
(* Mutant: 0x80 still counts as one byte.                                  *)
VbiLengthLate(n) ==
  CASE n <= \h80 -> 1 [] n > \h80 /\ n < \h4000 -> 2 [] OTHER -> 3

VbiLength(n) ==
  CASE n < \h80 -> 1
    [] n >= \h80 /\ n < \h4000 -> 2
    [] n >= \h4000 /\ n < \h200000 -> 3
    [] n >= \h200000 -> 4

(* The first number that four digits cannot say.                           *)
VbiLimit == \h80 * \h80 * \h80 * \h80

(* The code is a byte; what `len' is in both functions.                    *)
(* Mutant: one length for the two strings of a pair.                       *)
ValueLengthOfPair(p) ==
  CASE p.code \in ByteProperties -> 1
    [] p.code \in WordProperties -> 2
    [] p.code \in LongProperties -> 4
    [] p.code \in VbiProperties  -> VbiLength(p.int)
    [] p.code \in TextProperties -> 2 + Len(p.text)
    [] p.code \in PairProperties -> 2 + Len(p.pair[1]) + Len(p.pair[2])

ValueLength(p) ==
  CASE p.code \in ByteProperties -> 1
    [] p.code \in WordProperties -> 2
    [] p.code \in LongProperties -> 4
    [] p.code \in VbiProperties  -> VbiLength(p.int)
    [] p.code \in TextProperties -> 2 + Len(p.text)
    [] p.code \in PairProperties -> 4 + Len(p.pair[1]) + Len(p.pair[2])

PropertiesAdd(ps, p) ==
  [list |-> <<p>> \o ps.list, length |-> ps.length + ValueLength(p) + 1]

(* The first with this code, mqtt_properties_find; 0 if there is none.     *)
PropertiesFind(ps, code) ==
  LET at == {i \in DOMAIN ps.list : ps.list[i].code = code} IN
  IF at = {} THEN 0 ELSE Min(at)

PropertiesRemove(ps, code) ==
  LET i == PropertiesFind(ps, code) IN
  IF i = 0 THEN ps
  ELSE [list |-> RemoveAt(ps.list, i), length |-> ps.length - (ValueLength(ps.list[i]) + 1)]

PropertiesValid(ps, type, will) ==
  \A i \in DOMAIN ps.list : PropertyValid(ps.list[i].code, type, will)
-----------------------------------------------------------------------------
(* Writing.                                                                *)
Utf(s) == U16(Len(s)) \o s

Vbi(n) ==
  LET digits[k \in 0..n] == IF k < \h80 THEN <<k>>
                            ELSE <<(k % \h80) + \h80>> \o digits[k \div \h80]
  IN digits[n]

PropertyBytes(p) ==
  <<p.code>> \o
  CASE p.code \in ByteProperties -> <<p.int>>
    [] p.code \in WordProperties -> U16(p.int)
    [] p.code \in LongProperties -> U16(p.long[1]) \o U16(p.long[2])
    [] p.code \in VbiProperties  -> Vbi(p.int)
    [] p.code \in TextProperties -> Utf(p.text)
    [] p.code \in PairProperties -> Utf(p.pair[1]) \o Utf(p.pair[2])

PropertiesBytes(ps) ==
  Vbi(ps.length) \o FlattenSeq([i \in DOMAIN ps.list |-> PropertyBytes(ps.list[i])])

(* __properties_len.                                                       *)
PropertiesLen(ps) ==
  IF ps.length = 0 THEN 1 ELSE ps.length + VbiLength(ps.length)

(* The body of each __serialize_ function, and the `length' it computes    *)
(* beforehand for the fixed header and the allocation.                     *)
(* Mutant: the properties of the will after its topic.                     *)
ConnectBodyWillLate(p) ==
  LET f == p.f  v5 == p.ver = 5 IN
  Utf(f.protocol_name) \o <<f.protocol_version, f.flags>> \o U16(f.keep_alive)
    \o When(v5, PropertiesBytes(f.properties)) \o Utf(f.client_id)
    \o When(WillFlag(p), Utf(f.will_topic) \o When(v5, PropertiesBytes(f.will_properties))
                           \o Utf(f.will_message))
    \o When(UsernameFlag(p), Utf(f.username)) \o When(PasswordFlag(p), Utf(f.password))

ConnectBody(p) ==
  LET f == p.f  v5 == p.ver = 5 IN
  Utf(f.protocol_name) \o <<f.protocol_version, f.flags>> \o U16(f.keep_alive)
    \o When(v5, PropertiesBytes(f.properties))
    \o Utf(f.client_id)
    \o When(WillFlag(p), When(v5, PropertiesBytes(f.will_properties))
                           \o Utf(f.will_topic) \o Utf(f.will_message))
    \o When(UsernameFlag(p), Utf(f.username))
    \o When(PasswordFlag(p), Utf(f.password))

ConnectLength(p) ==
  LET f == p.f IN
  4 + 2 + Len(f.protocol_name) + 2 + Len(f.client_id)
    + If(UsernameFlag(p), 2 + Len(f.username))
    + If(PasswordFlag(p), 2 + Len(f.password))
    + If(WillFlag(p), 2 + Len(f.will_topic) + 2 + Len(f.will_message))
    + If(p.ver = 5, PropertiesLen(f.properties)
                      + If(WillFlag(p), PropertiesLen(f.will_properties)))

(* CONNACK, DISCONNECT and AUTH.                                           *)
ConnackBody(p) ==
  CASE p.ver = 3 -> <<0, p.f.code>>
    [] p.ver = 4 -> <<p.f.flags, p.f.code>>
    [] p.ver = 5 -> <<p.f.flags, p.f.code>> \o PropertiesBytes(p.f.properties)

ConnackLength(p) == 2 + If(p.ver = 5, PropertiesLen(p.f.properties))

CloseBody(p)   == When(p.ver = 5, <<p.f.code>> \o PropertiesBytes(p.f.properties))
CloseLength(p) == If(p.ver = 5, 1 + PropertiesLen(p.f.properties))

PublishBody(p) ==
  Utf(p.f.topic_name) \o When(p.qos > 0, U16(p.f.packet_id))
    \o When(p.ver = 5, PropertiesBytes(p.f.properties)) \o p.f.message

PublishLength(p) ==
  2 + Len(p.f.topic_name) + Len(p.f.message) + If(p.qos > 0, 2)
    + If(p.ver = 5, PropertiesLen(p.f.properties))

(* PUBACK, PUBREC, PUBREL and PUBCOMP.                                     *)
AckBody(p) ==
  U16(p.f.packet_id) \o When(p.ver = 5, <<p.f.code>> \o PropertiesBytes(p.f.properties))

AckLength(p) == If(p.ver = 5, 1 + PropertiesLen(p.f.properties)) + 2

SubscribeBody(p) ==
  U16(p.f.packet_id) \o When(p.ver = 5, PropertiesBytes(p.f.properties))
    \o FlattenSeq([i \in DOMAIN p.f.filters |->
                     Utf(p.f.filters[i].topic) \o <<p.f.filters[i].options>>])

SubscribeLength(p) ==
  2 + Sum([i \in DOMAIN p.f.filters |-> 2 + Len(p.f.filters[i].topic) + 1])
    + If(p.ver = 5, PropertiesLen(p.f.properties))

UnsubscribeBody(p) ==
  U16(p.f.packet_id) \o When(p.ver = 5, PropertiesBytes(p.f.properties))
    \o FlattenSeq([i \in DOMAIN p.f.topics |-> Utf(p.f.topics[i])])

UnsubscribeLength(p) ==
  2 + Sum([i \in DOMAIN p.f.topics |-> 2 + Len(p.f.topics[i])])
    + If(p.ver = 5, PropertiesLen(p.f.properties))

SubackBody(p) ==
  U16(p.f.packet_id) \o When(p.ver = 5, PropertiesBytes(p.f.properties)) \o p.f.codes

SubackLength(p) == Len(p.f.codes) + 2 + If(p.ver = 5, PropertiesLen(p.f.properties))

(* Before version 5 UNSUBACK has no payload.                               *)
UnsubackBody(p) ==
  U16(p.f.packet_id) \o When(p.ver = 5, PropertiesBytes(p.f.properties) \o p.f.codes)

UnsubackLength(p) == 2 + If(p.ver = 5, PropertiesLen(p.f.properties) + Len(p.f.codes))
-----------------------------------------------------------------------------
(* mqtt_serialize.  The type's function writes the fixed header itself:    *)
(* only PUBLISH takes the flags of the packet.                             *)
Body(p) ==
  CASE p.type = CONNECT                           -> ConnectBody(p)
    [] p.type = CONNACK                           -> ConnackBody(p)
    [] p.type = PUBLISH                           -> PublishBody(p)
    [] p.type \in {PUBACK, PUBREC, PUBREL, PUBCOMP} -> AckBody(p)
    [] p.type = SUBSCRIBE                         -> SubscribeBody(p)
    [] p.type = SUBACK                            -> SubackBody(p)
    [] p.type = UNSUBSCRIBE                       -> UnsubscribeBody(p)
    [] p.type = UNSUBACK                          -> UnsubackBody(p)
    [] p.type \in {PINGREQ, PINGRESP}             -> <<>>
    [] p.type \in {DISCONNECT, AUTH}              -> CloseBody(p)

Length(p) ==
  CASE p.type = CONNECT                           -> ConnectLength(p)
    [] p.type = CONNACK                           -> ConnackLength(p)
    [] p.type = PUBLISH                           -> PublishLength(p)
    [] p.type \in {PUBACK, PUBREC, PUBREL, PUBCOMP} -> AckLength(p)
    [] p.type = SUBSCRIBE                         -> SubscribeLength(p)
    [] p.type = SUBACK                            -> SubackLength(p)
    [] p.type = UNSUBSCRIBE                       -> UnsubscribeLength(p)
    [] p.type = UNSUBACK                          -> UnsubackLength(p)
    [] p.type \in {PINGREQ, PINGRESP}             -> 0
    [] p.type \in {DISCONNECT, AUTH}              -> CloseLength(p)

FixedFlags(p) ==
  p.type * 16 + If(p.type = PUBLISH, p.dup * 8 + p.qos * 2 + p.retain)
              + If(p.type \in {PUBREL, SUBSCRIBE, UNSUBSCRIBE}, 2)

(* What makes a __serialize_ function return -1 before it allocates.       *)
Refused(p) ==
  \/ p.ver \notin Versions \/ p.type \notin PacketTypes
  \/ /\ p.ver = 5 /\ p.type \notin {PINGREQ, PINGRESP}
     /\ \/ ~PropertiesValid(p.f.properties, p.type, FALSE)
        \/ p.type = CONNECT /\ ~PropertiesValid(p.f.will_properties, RESERVED, TRUE)
  \/ p.type = SUBSCRIBE   /\ (p.f.filters = <<>> \/ \E i \in DOMAIN p.f.filters : p.f.filters[i].topic = <<>>)
  \/ p.type = UNSUBSCRIBE /\ (p.f.topics = <<>> \/ \E i \in DOMAIN p.f.topics : p.f.topics[i] = <<>>)
  \/ p.type = SUBACK      /\ p.f.codes = <<>>

(* The result, the bytes allocated and those written.  AUTH of a version   *)
(* before 5 is not refused, and nothing is written.                        *)
Serialize(p) ==
  IF Refused(p) THEN [rc |-> -1, size |-> 0, bytes |-> <<>>]
  ELSE IF p.type = AUTH /\ p.ver # 5 THEN [rc |-> 0, size |-> 0, bytes |-> <<>>]
  ELSE [rc    |-> 0,
        size  |-> Length(p) + 1 + VbiLength(Length(p)),
        bytes |-> <<FixedFlags(p)>> \o Vbi(Length(p)) \o Body(p)]
-----------------------------------------------------------------------------
(* mqtt_str_read_utf: an empty string, or one said to be longer than what  *)
(* is left, is not read, and its length neither.                           *)
ReadUtf(b) ==
  IF Len(b) < 2 THEN Failed("wild")
  ELSE LET n == b[1] * 256 + b[2] IN
       IF n = 0 \/ Len(b) < n THEN Read(<<>>, 0, b)
       ELSE IF Len(b) < n + 2 THEN Failed("wild")
       ELSE Read(SubSeq(b, 3, n + 2), n + 2, b)

(* The number is over at the first byte without the top bit, or with the   *)
(* bytes; of a fifth byte the product overflows.                           *)
ReadVbi(b) ==
  LET last == {i \in DOMAIN b : b[i] < \h80}
      n    == IF last = {} THEN Len(b) ELSE Min(last)
      value[i \in 1..(n + 1)] == IF i = n + 1 THEN 0 ELSE (b[i] % \h80) + \h80 * value[i + 1]
  IN IF n > 4 THEN Failed("wild") ELSE Read(value[1], n, b)

(* __property_parse.                                                       *)
As(r, p) == IF r.st = "ok" THEN [r EXCEPT !.v = p, !.len = @ + 1] ELSE r

ReadProperty(b) ==
  LET code == b[1]  rest == Tail(b) IN
  CASE b = <<>> -> Failed("bad")
    [] b # <<>> /\ code > LastProperty -> Failed("wild")
    [] b # <<>> /\ code \in ByteProperties ->
         IF Len(rest) < 1 THEN Failed("bad")
         ELSE LET r == ReadU8(rest) IN As(r, [code |-> code, int |-> r.v])
    [] b # <<>> /\ code \in WordProperties ->
         IF Len(rest) < 2 THEN Failed("bad")
         ELSE LET r == ReadU16(rest) IN As(r, [code |-> code, int |-> r.v])
    [] b # <<>> /\ code \in LongProperties ->
         IF Len(rest) < 4 THEN Failed("bad")
         ELSE LET hi == ReadU16(rest)  lo == ReadU16(hi.b) IN
              As([lo EXCEPT !.len = 4], [code |-> code, long |-> <<hi.v, lo.v>>])
    [] b # <<>> /\ code \in VbiProperties ->
         LET r == ReadVbi(rest) IN As(r, [code |-> code, int |-> r.v])
    [] b # <<>> /\ code \in TextProperties ->
         LET r == ReadUtf(rest) IN As(r, [code |-> code, text |-> r.v])
    [] b # <<>> /\ code \in PairProperties ->
         LET name == ReadUtf(rest)  value == ReadUtf(name.b) IN
         IF name.st # "ok" THEN name
         ELSE As([value EXCEPT !.len = @ + name.len], [code |-> code, pair |-> <<name.v, value.v>>])

(* __properties_parse.  Each property becomes the head, so the list is     *)
(* that of the bytes backwards.  A property that goes past `length' makes  *)
(* the unsigned rest wrap: the loop then ends only with the bytes, of      *)
(* which every turn takes one at least.                                    *)
PropertyTurn(a) ==
  LET Add(r) == IF r.st # "ok" THEN [a EXCEPT !.st = r.st]
                ELSE [a EXCEPT !.list = <<r.v>> \o @, !.left = @ - r.len, !.b = r.b]
  IN IF a.st # "ok" \/ a.left = 0 THEN a ELSE Add(ReadProperty(a.b))

PropertiesLoop(length, b) ==
  LET turn[k \in 0..(Len(b) + 1)] ==
        IF k = 0 THEN [st |-> "ok", list |-> <<>>, left |-> length, b |-> b]
        ELSE PropertyTurn(turn[k - 1])
  IN turn[Len(b) + 1]

ReadProperties(b) ==
  LET Whole(a, n) == IF a.st # "ok" THEN Failed(a.st)
                     ELSE Read([list |-> a.list, length |-> n], 0, a.b)
      OfLength(n) == IF n.st # "ok" THEN n
                     ELSE IF Len(n.b) < n.v THEN Failed("bad")
                     ELSE Whole(PropertiesLoop(n.v, n.b), n.v)
  IN OfLength(ReadVbi(b))
-----------------------------------------------------------------------------
(* The reads that only MQTT has.                                           *)
TakeUtf(field) == [op |-> "utf", field |-> field]
TakeVersion    == [op |-> "version"]
CodeIfAny(codes) == [op |-> "codeifany", codes |-> codes]
TakeProperties(field, type, will) ==
  [op |-> "properties", field |-> field, type |-> type, will |-> will]

Act(a, s) ==
  CASE s.op = "utf"       -> Assign(a, s.field, ReadUtf(a.b))
    [] s.op = "version"   -> LET r == ReadU8(a.b) IN
                             [Assign(a, "protocol_version", r) EXCEPT !.ver = r.v]
    [] s.op = "codeifany" -> IF a.b = <<>> THEN a ELSE Code(a, s.codes)
    [] s.op = "properties" ->
         LET Take(r) == IF r.st = "ok" /\ ~PropertiesValid(r.v, s.type, s.will)
                        THEN Require(a, FALSE) ELSE Assign(a, s.field, r)
         IN Take(ReadProperties(a.b))
    [] s.op \notin {"utf", "version", "codeifany", "properties"} -> ActPlain(a, s)

Step(a, s)    == IF a.st = "ok" THEN Act(a, s) ELSE a

Run(a, steps) ==
  LET after[k \in 0..Len(steps)] == IF k = 0 THEN a ELSE Step(after[k - 1], steps[k])
  IN after[Len(steps)]
-----------------------------------------------------------------------------
(* The __parse_ functions.                                                 *)
ConnectSteps(v5, flags) ==
  When(v5, <<TakeProperties("properties", CONNECT, FALSE)>>)
    \o <<Need(2), TakeUtf("client_id")>>
    \o When(Bit(flags, 2),
         When(v5, <<TakeProperties("will_properties", RESERVED, TRUE)>>)
         \o <<Need(3), TakeUtf("will_topic"), Need(3), TakeUtf("will_message"),
              NotEmpty("will_topic"), NotEmpty("will_message"),
              Check(WillQos(flags) \in Qos)>>)
    \o When(Bit(flags, 7),
         <<Need(3), TakeUtf("username")>>
         \o When(Bit(flags, 6), <<Need(2), TakeUtf("password")>>))

ParseConnect(start) ==
  LET Rest(a) == Run(a, ConnectSteps(a.ver = 5, a.f.flags))
  IN Rest(Run(start, <<Need(3), TakeUtf("protocol_name"), Need(1), TakeVersion,
                       Need(1), TakeU8("flags"), Need(2), TakeU16("keep_alive")>>))

(* Version 3 reads the flags and drops them.                               *)
ParseConnack(a) ==
  CASE a.ver = 3 -> [Run(a, <<Exactly(2), TakeU8("flags"), TakeCode(ConnectCodes)>>)
                       EXCEPT !.f = [@ EXCEPT !.flags = 0]]
    [] a.ver = 4 -> Run(a, <<Exactly(2), TakeU8("flags"), TakeCode(ConnectCodes)>>)
    [] a.ver = 5 -> Run(a, <<Need(2), TakeU8("flags"), TakeCode(Reasons(CONNACK)),
                             TakeProperties("properties", CONNACK, FALSE)>>)
    [] a.ver \notin Versions -> a

(* Mutant: an empty topic is accepted.                                     *)
ParsePublishAnyTopic(a, qos) ==
  Run(a, <<Check(qos \in Qos), Check(a.ver \in Versions), Need(IF a.ver = 5 THEN 4 ELSE 3),
           TakeUtf("topic_name")>>
           \o When(qos > 0, <<Need(2), TakeU16("packet_id")>>)
           \o When(a.ver = 5, <<TakeProperties("properties", PUBLISH, FALSE)>>)
           \o <<TakeRest("message")>>)

ParsePublish(a, qos) ==
  Run(a, <<Check(qos \in Qos), Check(a.ver \in Versions), Need(IF a.ver = 5 THEN 4 ELSE 3),
           TakeUtf("topic_name"), NotEmpty("topic_name")>>
           \o When(qos > 0, <<Need(2), TakeU16("packet_id")>>)
           \o When(a.ver = 5, <<TakeProperties("properties", PUBLISH, FALSE)>>)
           \o <<TakeRest("message")>>)

ParseAck(a, type) ==
  Run(a, CASE a.ver \in {3, 4} -> <<Exactly(2), TakeU16("packet_id")>>
           [] a.ver = 5 -> <<Need(2), TakeU16("packet_id"), CodeIfAny(Reasons(type)),
                             TakeProperties("properties", type, FALSE)>>
           [] a.ver \notin Versions -> <<Check(FALSE)>>)

(* The start of SUBSCRIBE, SUBACK and UNSUBSCRIBE.                         *)
ParseIdentified(a, type) ==
  Run(a, <<Need(3), TakeU16("packet_id")>>
           \o When(a.ver = 5, <<Need(1), TakeProperties("properties", type, FALSE)>>))

(* The pass that counts the filters, each with `options' bytes after it: a *)
(* pass is over when fewer than two bytes are left.                        *)
FilterTurn(a, options) ==
  LET topic == ReadUtf(a.b)
      Add == IF topic.st # "ok" THEN topic
             ELSE IF topic.v = <<>> THEN Failed("bad")
             ELSE IF Len(topic.b) < options THEN Failed("wild")
             ELSE Read(Append(a.v, [topic   |-> topic.v,
                                    options |-> IF options = 0 THEN 0 ELSE topic.b[1]]),
                       options, topic.b)
  IN IF a.st # "ok" \/ Len(a.b) < 2 THEN a ELSE Add

Filters(options, b) ==
  LET turn[k \in 0..Len(b)] ==
        IF k = 0 THEN Read(<<>>, 0, b) ELSE FilterTurn(turn[k - 1], options)
  IN turn[Len(b)]

(* The second pass reads them, and checks the QoS; it goes on to the last  *)
(* byte, which may be one without a filter.                                *)
ParseSubscribe(start) ==
  LET Second(a, r) ==
        IF r.st # "ok" THEN [a EXCEPT !.st = r.st]
        ELSE IF \E i \in DOMAIN r.v : r.v[i].options % 4 \notin Qos THEN Require(a, FALSE)
        ELSE IF r.b # <<>> THEN [a EXCEPT !.st = "wild"]
        ELSE Assign(a, "filters", r)
      First(a) == IF a.st # "ok" THEN a ELSE Second(a, Filters(1, a.b))
  IN First(ParseIdentified(start, SUBSCRIBE))

ParseUnsubscribe(start) ==
  LET Topics(r) == IF r.st = "ok" THEN [r EXCEPT !.v = [i \in DOMAIN r.v |-> r.v[i].topic]] ELSE r
      Rest(a)   == IF a.st # "ok" THEN a ELSE Assign(a, "topics", Topics(Filters(0, a.b)))
  IN Rest(ParseIdentified(start, UNSUBSCRIBE))

(* Version 3 keeps a byte of flags per topic, of which two bits are a QoS. *)
GrantedOk(ver, code) ==
  CASE ver = 3 -> code % 4 \in Qos
    [] ver = 4 -> code \in SubackCodes
    [] ver = 5 -> code \in Reasons(SUBACK)

ParseSuback(start) ==
  LET Rest(a) == IF a.st # "ok" \/ a.ver \notin Versions THEN a
                 ELSE Run(a, <<Check(\A i \in DOMAIN a.b : GrantedOk(a.ver, a.b[i])),
                               TakeRest("codes")>>)
  IN Rest(ParseIdentified(start, SUBACK))

ParseUnsuback(a) ==
  CASE a.ver \in {3, 4} -> Run(a, <<Exactly(2), TakeU16("packet_id")>>)
    [] a.ver = 5 ->
         LET Rest(r) == Run(r, <<Check(\A i \in DOMAIN r.b : r.b[i] \in Reasons(UNSUBACK)),
                                 TakeRest("codes")>>)
         IN Rest(Run(a, <<Need(3), TakeU16("packet_id"), Need(1),
                          TakeProperties("properties", UNSUBACK, FALSE)>>))
    [] a.ver \notin Versions -> Require(a, FALSE)

ParseDisconnect(a) ==
  Run(a, CASE a.ver \in {3, 4} -> <<Exactly(0)>>
           [] a.ver = 5 -> <<CodeIfAny(Reasons(DISCONNECT)),
                             TakeProperties("properties", DISCONNECT, FALSE)>>
           [] a.ver \notin Versions -> <<>>)

ParseAuth(a) ==
  Run(a, <<Check(a.ver = 5), Need(2), TakeCode(Reasons(AUTH)),
           TakeProperties("properties", AUTH, FALSE)>>)

(* mqtt_fixed_valid: the four low bits; PUBLISH's may be any.              *)
FixedValid(type, low) ==
  \/ type = PUBLISH
  \/ low = IF type \in {PUBREL, SUBSCRIBE, UNSUBSCRIBE} THEN 2 ELSE 0

(* __process: of the first byte and the body, to a parser of this version; *)
(* `ver' of the result is the version the parser has afterwards.           *)
Parsed(a, type, low) ==
  IF ~FixedValid(type, low) THEN Require(a, FALSE)
  ELSE CASE type = CONNECT     -> ParseConnect(a)
         [] type = CONNACK     -> ParseConnack(a)
         [] type = PUBLISH     -> ParsePublish(a, (low \div 2) % 4)
         [] type \in {PUBACK, PUBREC, PUBREL, PUBCOMP} -> ParseAck(a, type)
         [] type = SUBSCRIBE   -> ParseSubscribe(a)
         [] type = SUBACK      -> ParseSuback(a)
         [] type = UNSUBSCRIBE -> ParseUnsubscribe(a)
         [] type = UNSUBACK    -> ParseUnsuback(a)
         [] type \in {PINGREQ, PINGRESP} -> Run(a, <<Exactly(0)>>)
         [] type = DISCONNECT  -> ParseDisconnect(a)
         [] type = AUTH        -> ParseAuth(a)

Process(version, flags, body) ==
  LET type == flags \div 16
      low  == flags % 16
      Outcome(a) == [st  |-> IF a.st = "ok" /\ a.b # <<>> THEN "bad" ELSE a.st, ver |-> a.ver,
                     pkt |-> [ver |-> a.ver, type |-> type, dup |-> low \div 8,
                              qos |-> (low \div 2) % 4, retain |-> low % 2, f |-> a.f]]
  IN Outcome(Parsed([st |-> "ok", b |-> body, f |-> Zero(type), ver |-> version], type, low))

(* mqtt_parse on bytes that claim to be one packet: a packet type, and a   *)
(* length that has ended and is that of the rest.  Of a length that has    *)
(* not ended, at most four bytes, mqtt_parse waits for more.               *)
Parse(version, bytes) ==
  LET n     == ReadVbi(Tail(bytes))
      ended == n.st = "ok" /\ n.len > 0 /\ bytes[1 + n.len] < \h80
  IN IF bytes[1] \div 16 \in PacketTypes /\ ended /\ Len(n.b) = n.v
     THEN Process(version, bytes[1], n.b)
     ELSE [st |-> "bad", ver |-> version]
=============================================================================
