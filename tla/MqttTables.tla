------------------------------ MODULE MqttTables ------------------------------
(***************************************************************************)
(* The tables of mqtt.h that its codec consults: packet types, the reason  *)
(* codes and the properties a packet type allows (MQTT_RC_DEFS and         *)
(* MQTT_PROPERTY_DEFS, turned from a list of types per code into a set of  *)
(* codes per type), and the form of a property's value.                    *)
(***************************************************************************)
EXTENDS Integers

(* mqtt_packet_type_t.                                                     *)
RESERVED    == 0
CONNECT     == 1
CONNACK     == 2
PUBLISH     == 3
PUBACK      == 4
PUBREC      == 5
PUBREL      == 6
PUBCOMP     == 7
SUBSCRIBE   == 8
SUBACK      == 9
UNSUBSCRIBE == 10
UNSUBACK    == 11
PINGREQ     == 12
PINGRESP    == 13
DISCONNECT  == 14
AUTH        == 15

PacketTypes == CONNECT..AUTH
Versions    == 3..5
Qos         == 0..2

(* mqtt_crc_t and mqtt_src_t: the return codes of versions 3 and 4.        *)
ConnectCodes == 0..5
SubackCodes  == 0..2 \union {\h80}

MaxReason == \hA2

ConnackReasons ==
  {0} \union (\h80..\h8A) \union {\h8C, \h90, \h95, \h97} \union (\h99..\h9D) \union {\h9F}
PubackReasons  == {0, \h10, \h80, \h83, \h87, \h90, \h91, \h97, \h99}
PubrelReasons  == {0, \h92}
SubackReasons  == {0, 1, 2, \h80, \h83, \h87, \h8F, \h91, \h97, \h9E, \hA1, \hA2}
UnsubackReasons == {0, \h11, \h80, \h83, \h87, \h8F, \h91}
DisconnectReasons ==
  {0, 4} \union (\h80..\h83) \union {\h87, \h89} \union (\h8B..\h90)
    \union (\h93..\hA2)
AuthReasons == {0, \h18, \h19}

(* mqtt_rc_valid: the reasons a packet of this type may give.              *)
Reasons(type) ==
  CASE type = CONNACK            -> ConnackReasons
    [] type \in {PUBACK, PUBREC}  -> PubackReasons
    [] type \in {PUBREL, PUBCOMP} -> PubrelReasons
    [] type = SUBACK             -> SubackReasons
    [] type = UNSUBACK           -> UnsubackReasons
    [] type = DISCONNECT         -> DisconnectReasons
    [] type = AUTH               -> AuthReasons
    [] OTHER                     -> {}
-----------------------------------------------------------------------------
(* MQTT_PROPERTY_DEFS, by the form of the value.  The table has an entry   *)
(* for every code up to LastProperty; those the standard does not define   *)
(* are all zero: a byte, allowed nowhere.                                  *)
LastProperty == \h2A

VbiProperties  == {\h0B}
WordProperties == {\h13, \h21, \h22, \h23}
LongProperties == {\h02, \h11, \h18, \h27}
TextProperties == {\h03, \h08, \h09, \h12, \h15, \h16, \h1A, \h1C, \h1F}
PairProperties == {\h26}

ByteProperties ==
  (0..LastProperty) \ (VbiProperties \union WordProperties \union LongProperties
                         \union TextProperties \union PairProperties)

(* The `will' column, and the packet types of each property.               *)
WillProperties == {\h01, \h02, \h03, \h08, \h09, \h18, \h26}

ReasonAndUser == {\h1F, \h26}

PropertiesOf(type) ==
  CASE type = CONNECT     -> {\h11, \h15, \h16, \h17, \h19, \h21, \h22, \h26, \h27}
    [] type = CONNACK     -> (\h11..\h13) \union {\h15, \h16, \h1A, \h1C, \h1F, \h21, \h22}
                               \union (\h24..\h2A)
    [] type = PUBLISH     -> {\h01, \h02, \h03, \h08, \h09, \h0B, \h23, \h26}
    [] type = SUBSCRIBE   -> {\h0B, \h26}
    [] type = UNSUBSCRIBE -> {\h26}
    [] type = DISCONNECT  -> {\h11, \h1C} \union ReasonAndUser
    [] type = AUTH        -> {\h15, \h16} \union ReasonAndUser
    [] type \in {PUBACK, PUBREC, PUBREL, PUBCOMP, SUBACK, UNSUBACK} -> ReasonAndUser
    [] OTHER -> {}

(* mqtt_property_valid.                                                    *)
PropertyValid(code, type, will) ==
  IF will THEN code \in WillProperties ELSE code \in PropertiesOf(type)
=============================================================================
