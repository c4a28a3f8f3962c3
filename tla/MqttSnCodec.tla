----------------------------- MODULE MqttSnCodec -----------------------------
(***************************************************************************)
(* mqtt_sn_serialize and __sn_process of mqtt.h: a packet of MQTT-SN to    *)
(* bytes, and the bytes after its type to a packet.  A packet is           *)
(* [type, f], f a record with the fields of v that its type uses.  A topic *)
(* is its name, or the bytes of a short name, or an identifier alone in a  *)
(* sequence, as the two low bits of the flags say.                         *)
(***************************************************************************)
EXTENDS Wire

(* mqtt_sn_packet_type_t.                                                  *)
TypeByte ==
  [ADVERTISE |-> 0, SEARCHGW |-> 1, GWINFO |-> 2, CONNECT |-> 4, CONNACK |-> 5,
   WILLTOPICREQ |-> 6, WILLTOPIC |-> 7, WILLMSGREQ |-> 8, WILLMSG |-> 9, REGISTER |-> 10,
   REGACK |-> 11, PUBLISH |-> 12, PUBACK |-> 13, PUBCOMP |-> 14, PUBREC |-> 15, PUBREL |-> 16,
   SUBSCRIBE |-> 18, SUBACK |-> 19, UNSUBSCRIBE |-> 20, UNSUBACK |-> 21, PINGREQ |-> 22,
   PINGRESP |-> 23, DISCONNECT |-> 24, WILLTOPICUPD |-> 26, WILLTOPICRESP |-> 27,
   WILLMSGUPD |-> 28, WILLMSGRESP |-> 29, ENCAPSULATED |-> 254]

SnTypes == DOMAIN TypeByte

(* MQTT_SN_IS_PACKET_TYPE: the gaps are types too.                         *)
IsTypeByte(k) == k \in 0..29

ReturnCodes == 0..3

(* mqtt_sn_flags_t and mqtt_sn_topic_id_type_t.                            *)
Normal     == 0
Predefined == 1
Short      == 2

TopicType(flags) == flags % 4
SnQos(flags)     == (flags \div 32) % 4

(* The fields of a packet of this type, all zero.                          *)
SnZero(type) ==
  CASE type = "ADVERTISE" -> [gwid |-> 0, duration |-> 0]
    [] type = "SEARCHGW"  -> [radius |-> 0]
    [] type = "GWINFO"    -> [gwid |-> 0, gwadd |-> <<>>]
    [] type = "CONNECT"   -> [flags |-> 0, protocol_id |-> 0, duration |-> 0, client_id |-> <<>>]
    [] type \in {"CONNACK", "WILLTOPICRESP", "WILLMSGRESP"} -> [code |-> 0]
    [] type \in {"WILLTOPIC", "WILLTOPICUPD"} -> [flags |-> 0, topic_name |-> <<>>]
    [] type \in {"WILLMSG", "WILLMSGUPD"}     -> [message |-> <<>>]
    [] type = "REGISTER" -> [topic_id |-> 0, msg_id |-> 0, topic_name |-> <<>>]
    [] type \in {"REGACK", "PUBACK"} -> [topic_id |-> 0, msg_id |-> 0, code |-> 0]
    [] type = "PUBLISH"  -> [flags |-> 0, topic |-> <<>>, msg_id |-> 0, data |-> <<>>]
    [] type \in {"PUBREC", "PUBREL", "PUBCOMP", "UNSUBACK"} -> [msg_id |-> 0]
    [] type \in {"SUBSCRIBE", "UNSUBSCRIBE"} -> [flags |-> 0, msg_id |-> 0, topic |-> <<>>]
    [] type = "SUBACK"   -> [flags |-> 0, topic_id |-> 0, msg_id |-> 0, code |-> 0]
    [] type = "PINGREQ"  -> [client_id |-> <<>>]
    [] type = "DISCONNECT"   -> [duration |-> 0]
    [] type = "ENCAPSULATED" -> [ctrl |-> 0, wireless_node |-> <<>>]
    [] OTHER -> [nothing |-> 0]

(* mqtt_sn_packet_init.                                                    *)
SnPacketInit(type) ==
  [type |-> type,
   f |-> IF type = "CONNECT" THEN [SnZero(type) EXCEPT !.protocol_id = 1] ELSE SnZero(type)]
-----------------------------------------------------------------------------
(* mqtt_sn_vbi_length and mqtt_sn_write_length.                            *)
U8(n) == n % 256

SnVbiLength(n) == (IF n % 65536 > 255 THEN n + 3 ELSE n + 1) % 65536

WriteLength(n) == IF n > 255 THEN <<1>> \o U16(n) ELSE <<n>>

(* `length', the bytes allocated: most types keep it in a byte.            *)
TopicLength(p) ==
  LET type == TopicType(p.f.flags) IN
  SnVbiLength(4 + (CASE type = Normal -> Len(p.f.topic)
                     [] type \in {Short, Predefined} -> 2
                     [] OTHER -> 0))

SnLength(p) ==
  CASE p.type \in {"WILLTOPICREQ", "WILLMSGREQ", "PINGRESP"} -> 2
    [] p.type \in {"SEARCHGW", "CONNACK", "WILLTOPICRESP", "WILLMSGRESP"} -> 3
    [] p.type \in {"PUBREC", "PUBREL", "PUBCOMP", "UNSUBACK"} -> 4
    [] p.type = "ADVERTISE" -> 5
    [] p.type \in {"REGACK", "PUBACK"} -> 7
    [] p.type = "SUBACK"    -> 8
    [] p.type = "GWINFO"    -> U8(3 + Len(p.f.gwadd))
    [] p.type = "CONNECT"   -> U8(6 + Len(p.f.client_id))
    [] p.type = "PINGREQ"   -> U8(2 + Len(p.f.client_id))
    [] p.type = "DISCONNECT" -> 2 + If(p.f.duration > 0, 2)
    [] p.type \in {"WILLTOPIC", "WILLTOPICUPD"} ->
         IF p.f.topic_name = <<>> THEN 2 ELSE SnVbiLength(2 + Len(p.f.topic_name))
    [] p.type \in {"WILLMSG", "WILLMSGUPD"} -> SnVbiLength(1 + Len(p.f.message))
    [] p.type = "REGISTER"  -> SnVbiLength(5 + Len(p.f.topic_name))
    [] p.type = "PUBLISH"   -> SnVbiLength(6 + Len(p.f.data))
    [] p.type \in {"SUBSCRIBE", "UNSUBSCRIBE"} -> TopicLength(p)
    [] p.type = "ENCAPSULATED" -> SnVbiLength(2 + Len(p.f.wireless_node))
-----------------------------------------------------------------------------
(* What each __sn_serialize_ function writes after the type.               *)
GatewayBody(p) ==
  CASE p.type = "ADVERTISE" -> <<p.f.gwid>> \o U16(p.f.duration)
    [] p.type = "SEARCHGW"  -> <<p.f.radius>>
    [] p.type = "GWINFO"    -> <<p.f.gwid>> \o p.f.gwadd

SnConnectBody(p) == <<p.f.flags, p.f.protocol_id>> \o U16(p.f.duration) \o p.f.client_id

(* A topic whose length wraps to two or less is left out of a WILLTOPIC,   *)
(* not of a WILLTOPICUPD.                                                  *)
(* Mutant: the test of the length is forgotten.                            *)
WillTopicBodyAlways(p) == When(p.f.topic_name # <<>>, <<p.f.flags>> \o p.f.topic_name)

WillTopicBody(p) ==
  When(p.f.topic_name # <<>> /\ (p.type = "WILLTOPIC" => SnLength(p) > 2),
       <<p.f.flags>> \o p.f.topic_name)

RegisterBody(p) == U16(p.f.topic_id) \o U16(p.f.msg_id) \o p.f.topic_name

(* No identifier of a topic of the normal type.                            *)
SnPublishBody(p) ==
  LET type == TopicType(p.f.flags) IN
  <<p.f.flags>>
    \o When(type = Short, p.f.topic) \o When(type = Predefined, U16(p.f.topic[1]))
    \o U16(p.f.msg_id) \o p.f.data

(* REGACK and PUBACK.                                                      *)
TopicAckBody(p) == U16(p.f.topic_id) \o U16(p.f.msg_id) \o <<p.f.code>>

(* SUBSCRIBE and UNSUBSCRIBE.                                              *)
TopicBody(p) ==
  LET type == TopicType(p.f.flags) IN
  <<p.f.flags>> \o U16(p.f.msg_id)
    \o When(type \in {Normal, Short}, p.f.topic) \o When(type = Predefined, U16(p.f.topic[1]))

SnSubackBody(p) == <<p.f.flags>> \o U16(p.f.topic_id) \o U16(p.f.msg_id) \o <<p.f.code>>

DisconnectBody(p) == When(p.f.duration > 0, U16(p.f.duration))

(* The types with one field, or none.                                      *)
CodeBody(p)         == <<p.f.code>>
MessageBody(p)      == p.f.message
MsgIdBody(p)        == U16(p.f.msg_id)
PingreqBody(p)      == p.f.client_id
EncapsulatedBody(p) == <<p.f.ctrl>> \o p.f.wireless_node

SnBody(p) ==
  CASE p.type \in {"ADVERTISE", "SEARCHGW", "GWINFO"} -> GatewayBody(p)
    [] p.type = "CONNECT"                             -> SnConnectBody(p)
    [] p.type \in {"CONNACK", "WILLTOPICRESP", "WILLMSGRESP"} -> CodeBody(p)
    [] p.type \in {"WILLTOPIC", "WILLTOPICUPD"}       -> WillTopicBody(p)
    [] p.type \in {"WILLMSG", "WILLMSGUPD"}           -> MessageBody(p)
    [] p.type = "REGISTER"                            -> RegisterBody(p)
    [] p.type = "PUBLISH"                             -> SnPublishBody(p)
    [] p.type \in {"REGACK", "PUBACK"}                -> TopicAckBody(p)
    [] p.type \in {"PUBREC", "PUBREL", "PUBCOMP", "UNSUBACK"} -> MsgIdBody(p)
    [] p.type \in {"SUBSCRIBE", "UNSUBSCRIBE"}        -> TopicBody(p)
    [] p.type = "SUBACK"                              -> SnSubackBody(p)
    [] p.type = "PINGREQ"                             -> PingreqBody(p)
    [] p.type = "DISCONNECT"                          -> DisconnectBody(p)
    [] p.type = "ENCAPSULATED"                        -> EncapsulatedBody(p)
    [] p.type \in {"WILLTOPICREQ", "WILLMSGREQ", "PINGRESP"} -> <<>>
-----------------------------------------------------------------------------
(* mqtt_sn_serialize: the bytes allocated, the bytes written.              *)
SnSerialize(p) ==
  [size |-> SnLength(p), bytes |-> WriteLength(SnLength(p)) \o <<TypeByte[p.type]>> \o SnBody(p)]
-----------------------------------------------------------------------------
(* Reading: the __sn_parse_ functions, as steps on [st, b, f].             *)
TakeTopic(type, name) ==
  CASE type = Predefined -> <<TakeBytes("topic", 2)>>
    [] type = Short      -> <<TakeBytes("topic", 2)>>
    [] type = Normal     -> name
    [] OTHER             -> <<>>

(* An identifier is one number.                                            *)
AsId(a, types) ==
  IF a.st = "ok" /\ TopicType(a.f.flags) \in types
  THEN [a EXCEPT !.f.topic = <<@[1] * 256 + @[2]>>] ELSE a

GatewaySteps(type) ==
  CASE type = "ADVERTISE" -> <<Exactly(3), TakeU8("gwid"), TakeU16("duration")>>
    [] type = "SEARCHGW"  -> <<Exactly(1), TakeU8("radius")>>
    [] type = "GWINFO"    -> <<Need(1), TakeU8("gwid"), TakeRest("gwadd")>>

SnConnectSteps(n) ==
  <<Check(n \in 6..27), TakeU8("flags"), TakeU8("protocol_id"), TakeU16("duration"),
    TakeRest("client_id")>>

(* WILLTOPIC may be empty, WILLTOPICUPD may not.                           *)
WillTopicSteps(type, n) ==
  CASE type = "WILLTOPICUPD"       -> <<Need(1), TakeU8("flags"), TakeRest("topic_name")>>
    [] type = "WILLTOPIC" /\ n = 0 -> <<>>
    [] OTHER                       -> <<TakeU8("flags"), TakeRest("topic_name")>>

CodeSteps == <<Exactly(1), TakeCode(ReturnCodes)>>

RegisterSteps == <<Need(4), TakeU16("topic_id"), TakeU16("msg_id"), TakeRest("topic_name")>>

TopicAckSteps == <<Exactly(5), TakeU16("topic_id"), TakeU16("msg_id"), TakeCode(ReturnCodes)>>

MsgIdSteps == <<Exactly(2), TakeU16("msg_id")>>

MessageSteps == <<TakeRest("message")>>
PingreqSteps == <<TakeRest("client_id")>>
EmptySteps   == <<Exactly(0)>>

SnSubackSteps ==
  <<Need(6), TakeU8("flags"), TakeU16("topic_id"), TakeU16("msg_id"), TakeCode(ReturnCodes)>>

DisconnectSteps(n) == When(n > 0, <<Exactly(2), TakeU16("duration")>>)

StepSn(a, s)    == IF a.st = "ok" THEN ActPlain(a, s) ELSE a
RunSn(a, steps) == FoldLeft(StepSn, a, steps)

(* Mutant: one byte too few is asked for.                                  *)
SnParsePublishShort(start) ==
  LET Topic(a) == RunSn(a, TakeTopic(TopicType(a.f.flags), <<TakeBytes("topic", 2)>>)
                             \o <<TakeU16("msg_id")>>)
      Data(a)  == RunSn(a, <<Check(SnQos(a.f.flags) = 0 => a.f.msg_id = 0), TakeRest("data")>>)
  IN AsId(Data(Topic(RunSn(start, <<Need(4), TakeU8("flags")>>))), {Normal, Predefined})

SnParsePublish(start) ==
  LET Topic(a) == RunSn(a, TakeTopic(TopicType(a.f.flags), <<TakeBytes("topic", 2)>>)
                             \o <<TakeU16("msg_id")>>)
      Data(a)  == RunSn(a, <<Check(SnQos(a.f.flags) = 0 => a.f.msg_id = 0), TakeRest("data")>>)
  IN AsId(Data(Topic(RunSn(start, <<Need(5), TakeU8("flags")>>))), {Normal, Predefined})

(* SUBSCRIBE and UNSUBSCRIBE.                                              *)
SnParseTopic(start) ==
  LET Topic(a) == RunSn(a, TakeTopic(TopicType(a.f.flags), <<TakeRest("topic")>>))
  IN AsId(Topic(RunSn(start, <<Need(5), TakeU8("flags"), TakeU16("msg_id")>>)), {Predefined})

SnSteps(type, n) ==
  CASE type \in {"ADVERTISE", "SEARCHGW", "GWINFO"} -> GatewaySteps(type)
    [] type = "CONNECT"                       -> SnConnectSteps(n)
    [] type \in {"CONNACK", "WILLTOPICRESP", "WILLMSGRESP"} -> CodeSteps
    [] type \in {"WILLTOPIC", "WILLTOPICUPD"} -> WillTopicSteps(type, n)
    [] type \in {"WILLMSG", "WILLMSGUPD"}     -> MessageSteps
    [] type = "REGISTER"                      -> RegisterSteps
    [] type \in {"REGACK", "PUBACK"}          -> TopicAckSteps
    [] type \in {"PUBREC", "PUBREL", "PUBCOMP", "UNSUBACK"} -> MsgIdSteps
    [] type = "SUBACK"                        -> SnSubackSteps
    [] type = "PINGREQ"                       -> PingreqSteps
    [] type = "DISCONNECT"                    -> DisconnectSteps(n)
    [] type \in {"WILLTOPICREQ", "WILLMSGREQ", "PINGRESP"} -> EmptySteps

(* __sn_process: the packet, or why there is none.  What the fields hold   *)
(* before they are read is `before', if that is a packet of the type.      *)
TypesOf(k) == {type \in SnTypes : TypeByte[type] = k}

SnParsed(start, type) ==
  CASE type = "PUBLISH" -> SnParsePublish(start)
    [] type \in {"SUBSCRIBE", "UNSUBSCRIBE"} -> SnParseTopic(start)
    [] OTHER -> RunSn(start, SnSteps(type, Len(start.b)))

SnProcess(k, before, body) ==
  LET Start(type) == [st |-> "ok", b |-> body,
                      f  |-> IF before.type = type THEN before.f ELSE SnZero(type)]
      Outcome(a, type) == [st  |-> IF a.st = "ok" /\ a.b # <<>> THEN "bad" ELSE a.st,
                           pkt |-> [type |-> type, f |-> a.f]]
      As(type) == Outcome(SnParsed(Start(type), type), type)
  IN IF TypesOf(k) = {} THEN [st |-> "bad"] ELSE As(CHOOSE type \in TypesOf(k) : TRUE)
=============================================================================
