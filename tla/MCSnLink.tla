------------------------------- MODULE MCSnLink -------------------------------
(***************************************************************************)
(* MqttSnLink with the values TLC sends, in five uses of a link, and one   *)
(* for mqtt_sn_read alone.                                                 *)
(***************************************************************************)
EXTENDS MqttSnLink

AB        == <<97, 98>>
Repeat(n) == [i \in 1..n |-> 97]
Types(n)  == [i \in 1..n |-> TypeByte["WILLMSG"]]

Plain ==
  [modes |-> {"parse"}, types |-> SnTypes, strings |-> {AB}, flags |-> {1, 34},
   codes |-> {0}, bytes |-> {7}, words |-> {258}, damage |-> FALSE, pieces |-> {},
   packets |-> 2]

(* short: two packets of any type in any pieces; long: packets around the  *)
(* length where the three-byte form begins; after: packets on both sides   *)
(* of a long one, on both sides of the length that is refused, and bytes   *)
(* in them that can be taken for a type; huge: around the length where     *)
(* sixteen bits end; damage: a byte is changed.                            *)
MCUses ==
  [short  |-> [Plain EXCEPT !.modes = {"parse", "read"}, !.strings = {<<>>, AB},
                            !.flags = {0, 1, 2, 3, 33},
                            !.words = {0, 258}, !.pieces = {1, 3}],
   long   |-> [Plain EXCEPT !.strings = {Repeat(n) : n \in {0, 1, 2, 3, 23, 24, 300}
                                                           \union (246..256)},
                            !.flags = {0, 1, 2, 3, 33, 34}, !.codes = {0, 3},
                            !.pieces = {100}, !.packets = 1],
   after  |-> [Plain EXCEPT !.types = {"WILLMSG", "PINGRESP"},
                            !.strings = {Types(n) : n \in {1, 252, 379, 380, 400}},
                            !.packets = 4],
   huge   |-> [Plain EXCEPT !.types = {"WILLMSG", "PUBLISH", "PINGREQ", "WILLTOPIC",
                                       "WILLTOPICUPD"},
                            !.strings = {Repeat(n) : n \in {65526, 65527} \union (65530..65535)},
                            !.flags = {0, 1}, !.packets = 1],
   damage |-> [Plain EXCEPT !.modes = {"parse", "read"}, !.damage = TRUE]]

(* read: mqtt_sn_read alone.                                               *)
ReadAlone ==
  [read |-> [Plain EXCEPT !.modes = {"read"}, !.types = {"PINGRESP", "WILLMSG", "PUBLISH"},
                          !.words = {0, 258}]]
=============================================================================
