------------------------------ MODULE MCExchange ------------------------------
(***************************************************************************)
(* MqttExchange with the values TLC sends, in six uses of the library.     *)
(***************************************************************************)
EXTENDS MqttExchange

A   == <<97>>
NUL == <<0, 0>>

Repeat(n)  == [i \in 1..n |-> 97]
Defined    == WillProperties \union UNION {PropertiesOf(type) : type \in PacketTypes}
Boundaries == {127, 128, 16383, 16384, 2097151, 2097152}

Plain ==
  [types |-> PacketTypes, strings |-> {A}, texts |-> {A}, given |-> {0}, flags |-> {2},
   words |-> {258}, longs |-> {<<0, 1>>, <<65535, 65534>>}, vbis |-> {1}, codes |-> {},
   damage |-> FALSE, lists |-> 1, properties |-> 0, packets |-> 1]

(* fields: every type, reason code and CONNECT flag, fields empty or not;  *)
(* props: every property in every type, and one that is not defined;       *)
(* pairs: properties two at a time; long: lengths on both sides of 128;    *)
(* damage: two packets, of which one may be damaged; misread: a payload    *)
(* that a parser of another version, which a damaged CONNECT has set, can  *)
(* take for properties.                                                    *)
MCUses ==
  [fields |-> [Plain EXCEPT !.strings = {<<>>, A}, !.texts = {}, !.given = 0..MaxReason,
                            !.flags = {fl \in 0..255 : fl % 4 = 2}, !.lists = 2],
   props  |-> [Plain EXCEPT !.texts = {<<>>, A, NUL}, !.flags = {2, 198},
                            !.vbis = Boundaries, !.codes = Defined \union {4},
                            !.properties = 1],
   pairs  |-> [Plain EXCEPT !.types = {CONNECT, PUBLISH, DISCONNECT},
                            !.texts = {<<>>, NUL}, !.flags = {198},
                            !.codes = Defined, !.properties = 2],
   long   |-> [Plain EXCEPT !.types = {PUBLISH, PUBACK, SUBSCRIBE},
                            !.strings = {A, Repeat(121), Repeat(122), Repeat(123)},
                            !.texts = {A, Repeat(124), Repeat(125)},
                            !.codes = {22, 38}, !.properties = 1],
   damage |-> [Plain EXCEPT !.flags = {2, 198}, !.codes = {1, 11, 31, 38},
                            !.vbis = {1, 128}, !.damage = TRUE, !.properties = 1, !.packets = 2],
   misread |-> [Plain EXCEPT !.types = {CONNECT, PUBLISH}, !.strings = {A, <<1, 11>>},
                             !.damage = TRUE, !.packets = 2]]
=============================================================================
