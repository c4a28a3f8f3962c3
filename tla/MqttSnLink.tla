------------------------------ MODULE MqttSnLink ------------------------------
(***************************************************************************)
(* A stream of MQTT-SN packets: mqtt_sn_serialize at one end, and at the   *)
(* other either mqtt_sn_parse, called on what arrives, in whatever pieces, *)
(* or mqtt_sn_read, which asks for the bytes itself.  Both keep a parser.  *)
(***************************************************************************)
EXTENDS MqttSnCodec

CONSTANTS
  Uses,    \* what happens on a link: a function of records
  Damage   \* values a byte is changed to on the way

Uint16 == 0..65535

(* modes: the receivers, "parse" and "read"; types: the packet types sent; *)
(* strings: names, payloads, addresses; flags: mqtt_sn_flags_t; codes:     *)
(* return codes; bytes, words: integers; damage: a byte may be changed;    *)
(* and the bounds: pieces, the sizes of what mqtt_sn_parse is given, but   *)
(* for all there is, and packets, those sent; one more may come out.       *)
ASSUME LinkAssumption ==
  /\ Damage \subseteq 0..255
  /\ \A u \in DOMAIN Uses :
       LET link == Uses[u] IN
       /\ link.modes \subseteq {"parse", "read"} /\ link.types \subseteq SnTypes
       /\ link.strings \subseteq Seq(0..255) /\ link.flags \union link.bytes \subseteq 0..255
       /\ link.words \subseteq Uint16 /\ link.codes \subseteq ReturnCodes
       /\ link.damage \in BOOLEAN /\ link.pieces \subseteq Nat \ {0} /\ link.packets \in Nat

VARIABLES
  use,     \* what happens on this link: Uses[use]
  mode,    \* which receiver
  parser,  \* its parser: state, multiplier, require, and type and body of pkt
  wire,    \* the bytes not yet received
  size,    \* what mqtt_sn_serialize allocated last
  wrote,   \* and wrote
  rc,      \* what the receiver returned last; 2: it went astray
  sent,    \* history: the packets sent
  got,     \* history: the packets received
  damaged  \* history: a byte was changed

vars == <<use, mode, parser, wire, size, wrote, rc, sent, got, damaged>>

NoPacket == [type |-> "none"]

(* mqtt_sn_parser_init and mqtt_sn_reader_init.                            *)
ParserInit == [state |-> "LENGTH", multiplier |-> 0, require |-> 0, type |-> 0, body |-> <<>>,
               rc |-> 0, used |-> 0, pkt |-> NoPacket]

U == Uses[use]

Init ==
  /\ use \in DOMAIN Uses /\ mode \in U.modes /\ parser = ParserInit
  /\ wire = <<>> /\ size = 0 /\ wrote = 0 /\ rc = 0
  /\ sent = <<>> /\ got = <<>> /\ damaged = FALSE
-----------------------------------------------------------------------------
(* What an application fills in: only the topic depends on the flags.      *)
TopicsOf(flags) ==
  CASE TopicType(flags) = Short      -> {<<97, 98>>}
    [] TopicType(flags) = Predefined -> {<<w>> : w \in U.words}
    [] TopicType(flags) = Normal     -> U.strings
    [] OTHER                         -> {<<>>}

Fillings(type) ==
  CASE type = "ADVERTISE" -> [gwid : U.bytes, duration : U.words]
    [] type = "SEARCHGW"  -> [radius : U.bytes]
    [] type = "GWINFO"    -> [gwid : U.bytes, gwadd : U.strings]
    [] type = "CONNECT"   -> [flags : U.flags, protocol_id : {1}, duration : U.words, client_id : U.strings]
    [] type \in {"CONNACK", "WILLTOPICRESP", "WILLMSGRESP"} -> [code : U.codes]
    [] type \in {"WILLTOPIC", "WILLTOPICUPD"} -> [flags : U.flags, topic_name : U.strings]
    [] type \in {"WILLMSG", "WILLMSGUPD"}     -> [message : U.strings]
    [] type = "REGISTER"  -> [topic_id : U.words, msg_id : U.words, topic_name : U.strings]
    [] type \in {"REGACK", "PUBACK"} -> [topic_id : U.words, msg_id : U.words, code : U.codes]
    [] type = "PUBLISH"   ->
         UNION {[flags : {fl}, topic : IF TopicType(fl) = Normal THEN {<<w>> : w \in U.words}
                                       ELSE TopicsOf(fl),
                 msg_id : U.words, data : U.strings] : fl \in U.flags}
    [] type \in {"PUBREC", "PUBREL", "PUBCOMP", "UNSUBACK"} -> [msg_id : U.words]
    [] type \in {"SUBSCRIBE", "UNSUBSCRIBE"} ->
         UNION {[flags : {fl}, msg_id : U.words, topic : TopicsOf(fl)] : fl \in U.flags}
    [] type = "SUBACK"    -> [flags : U.flags, topic_id : U.words, msg_id : U.words, code : U.codes]
    [] type = "PINGREQ"   -> [client_id : U.strings]
    [] type = "DISCONNECT"   -> [duration : U.words]
    [] type = "ENCAPSULATED" -> [ctrl : U.bytes, wireless_node : U.strings]
    [] OTHER -> {SnZero(type)}

Send ==
  /\ Len(sent) < U.packets /\ rc \in {0, 1}
  /\ \E type \in U.types : \E f \in Fillings(type) :
       LET p == [SnPacketInit(type) EXCEPT !.f = f]
           s == SnSerialize(p)
       IN /\ sent' = Append(sent, p)
          /\ size' = s.size /\ wrote' = Len(s.bytes)
          /\ wire' = wire \o s.bytes
  /\ UNCHANGED <<use, mode, parser, rc, got, damaged>>

Change ==
  /\ U.damage /\ ~damaged
  /\ \E i \in DOMAIN wire, k \in Damage : wire' = [wire EXCEPT ![i] = k]
  /\ damaged' = TRUE
  /\ UNCHANGED <<use, mode, parser, size, wrote, rc, sent, got>>
-----------------------------------------------------------------------------
(* A packet is complete: __sn_process.  The fields of the packet are those *)
(* of a zeroed one, or what an earlier packet left there.                  *)
Finish(s, state) ==
  LET done == [s EXCEPT !.state = state, !.body = <<>>]
      Done(r) == CASE r.st = "ok"   -> [done EXCEPT !.rc = 1, !.pkt = r.pkt]
                   [] r.st = "bad"  -> [done EXCEPT !.rc = -1]
                   [] r.st = "wild" -> [done EXCEPT !.rc = 2]
  IN Done(SnProcess(s.type, s.pkt, s.body))

(* `require' is unsigned: below zero it stands for a number too large to   *)
(* allocate, and the pointer is null.  The multiplier stays what it is     *)
(* after a long packet: the next length adds to what require is left at.   *)
LengthByte(s, k) ==
  CASE s.multiplier = 1 -> [s EXCEPT !.require = k * \h80, !.multiplier = 2]
    [] s.multiplier = 2 -> IF s.require + k < \h100 THEN [s EXCEPT !.rc = -1, !.require = @ + k]
                           ELSE [s EXCEPT !.require = @ + k - 3, !.state = "TYPE"]
    [] s.multiplier = 0 -> IF k = 1 THEN [s EXCEPT !.multiplier = 1]
                           ELSE [s EXCEPT !.require = k - 1, !.state = "TYPE"]

TypeByteRead(s, k) ==
  LET t == [s EXCEPT !.type = k, !.require = @ - 1] IN
  IF ~IsTypeByte(k) THEN [s EXCEPT !.type = k, !.rc = -1]
  ELSE IF t.require = 0 THEN Finish(t, "LENGTH") ELSE [t EXCEPT !.state = "REMAIN"]

(* The body is copied as far as it is there; what was required last stays  *)
(* required.  Only mqtt_sn_parse goes back to LENGTH after it.             *)
(* Mutant: require is counted down before it is compared.                  *)
BodyBytesCounted(s, b) ==
  LET n == Min({s.require, Len(b)})
      t == [s EXCEPT !.body = @ \o SubSeq(b, 1, n), !.require = @ - n, !.used = @ + n]
  IN CASE s.require < 0 -> [s EXCEPT !.rc = IF mode = "parse" THEN 2 ELSE -1]
       [] t.require = 0 -> Finish(t, IF mode = "parse" THEN "LENGTH" ELSE "REMAIN")
       [] OTHER         -> t

BodyBytes(s, b) ==
  LET n == Min({s.require, Len(b)})
      t == [s EXCEPT !.body = @ \o SubSeq(b, 1, n), !.used = @ + n]
  IN CASE s.require < 0           -> [s EXCEPT !.rc = IF mode = "parse" THEN 2 ELSE -1]
       [] s.require \in 0..Len(b) -> Finish(t, IF mode = "parse" THEN "LENGTH" ELSE "REMAIN")
       [] s.require > Len(b)      -> [t EXCEPT !.require = @ - n]

(* One turn of the loop, on the bytes b of a call.                         *)
Turn(s, b) ==
  LET rest == SubSeq(b, s.used + 1, Len(b))
      one  == [s EXCEPT !.used = @ + 1]
  IN CASE s.rc # 0 \/ rest = <<>> -> s
       [] s.rc = 0 /\ rest # <<>> /\ s.state = "LENGTH" ->
            LengthByte([one EXCEPT !.pkt = NoPacket], rest[1])
       [] s.rc = 0 /\ rest # <<>> /\ s.state = "TYPE"   -> TypeByteRead(one, rest[1])
       [] s.rc = 0 /\ rest # <<>> /\ s.state = "REMAIN" -> BodyBytes(s, rest)

(* Three bytes of length, one of type and the body are the longest way.    *)
Loop(s, b) == FoldLeft(LAMBDA t, i : Turn(t, b), s, <<1, 2, 3, 4, 5>>)

(* What a call leaves behind.                                              *)
Return(s) ==
  /\ rc' = s.rc
  /\ got' = IF s.rc = 1 THEN Append(got, s.pkt) ELSE got
  /\ wire' = SubSeq(wire, s.used + 1, Len(wire))
  /\ parser' = [s EXCEPT !.rc = 0, !.used = 0]
  /\ UNCHANGED <<use, mode, size, wrote, sent, damaged>>

Receiving == rc \in {0, 1} /\ wire # <<>> /\ Len(got) <= U.packets

(* mqtt_sn_parse on the next piece; what it does not use is given to it    *)
(* again.  After an error the receiver gives up.                           *)
Parse ==
  /\ mode = "parse" /\ Receiving
  /\ \E n \in {m \in U.pieces : m < Len(wire)} \union {Len(wire)} :
       Return(Loop(parser, SubSeq(wire, 1, n)))

(* mqtt_sn_read: the length starts anew with every call, the state does    *)
(* not.  A body that is due is asked for in the length that is due, zero.  *)
(* If the stream has less than is asked for the call fails.                *)
SnRead ==
  /\ mode = "read" /\ Receiving
  /\ LET start == [parser EXCEPT !.multiplier = 0, !.require = 0]
         Ended(s) == IF s.rc = 0 THEN [s EXCEPT !.rc = -1] ELSE s
     IN Return(Ended(IF start.state = "REMAIN" THEN Finish(start, "REMAIN")
                     ELSE Loop(start, wire)))

Next == Send \/ Change \/ Parse \/ SnRead

Spec == Init /\ [][Next]_vars
-----------------------------------------------------------------------------
(* What a length counts besides the bytes of the body: the type, the       *)
(* identifier of a topic that a PUBLISH of the normal type does not write, *)
(* and what a WILLTOPIC leaves out whose length wraps to two or less.      *)
Unwritten(p) == p.type = "PUBLISH" /\ TopicType(p.f.flags) \notin {Predefined, Short}
AtMostTwo(n) == n % 65536 >= 65531
JustTwo(n)   == n % 65536 \in {65533, 65535}
LeftOut(p)   == p.type = "WILLTOPIC" /\ AtMostTwo(Len(p.f.topic_name))

Counted(p) ==
  1 + Len(SnBody(p)) + If(Unwritten(p), 2) + If(LeftOut(p), 1 + Len(p.f.topic_name))

(* The packets that the format, as it is read, can express.                *)
SnExpressible(p) ==
  LET f == p.f IN
  /\ Counted(p) < 255 /\ p.type # "ENCAPSULATED"
  /\ p.type = "CONNECT"      => Len(f.client_id) \in 2..23
  /\ p.type = "WILLTOPIC"    => (f.topic_name = <<>> => f.flags = 0)
  /\ p.type = "WILLTOPICUPD" => f.topic_name # <<>>
  /\ p.type = "PUBLISH"      => /\ TopicType(f.flags) \in {Predefined, Short}
                                /\ (SnQos(f.flags) = 0 => f.msg_id = 0)
  /\ p.type \in {"SUBSCRIBE", "UNSUBSCRIBE"} =>
       CASE TopicType(f.flags) = Normal -> Len(f.topic) >= 2
         [] OTHER -> TopicType(f.flags) \in {Predefined, Short}

(* How many of the packets sent must come out: those before the first that *)
(* cannot be expressed, and for mqtt_sn_read none after one with a body.   *)
Reliable ==
  LET broken == {i \in DOMAIN sent : ~SnExpressible(sent[i])}
      ends   == {i \in DOMAIN sent : mode = "read" /\ SnBody(sent[i]) # <<>>}
  IN Min({Len(sent)} \union {i - 1 : i \in broken} \union ends)

(* The bytes of the packets sent from the i-th on.                         *)
StreamFrom(i) ==
  FoldLeft(LAMBDA b, p : b \o SnSerialize(p).bytes, <<>>, SubSeq(sent, i, Len(sent)))
-----------------------------------------------------------------------------
(* The packets come out as they went in, all of them, in their order and   *)
(* in whatever pieces they arrive, up to the first that the format cannot  *)
(* express; and that one never comes out as itself.                        *)
InStep ==
  LET n == Reliable IN
  /\ \A i \in 1..n : i <= Len(got) => got[i] = sent[i]
  /\ wire = <<>> \/ rc \in {-1, 2} => Len(got) >= n
  /\ mode = "parse" /\ n < Len(sent) /\ n < Len(got) => got[n + 1] # sent[n + 1]

(* From a packet with three bytes of length on, mqtt_sn_parse is out of    *)
(* step.  It takes `read' bytes for the packet, too few; and it adds the   *)
(* next of the others to what was required of the body, for the length of  *)
(* a packet that nobody has sent.  A sum below 256 makes the call fail.    *)
(* With a larger one all that is sent until so much has arrived disappears *)
(* in it, short packets too, and no call fails (if the packet came in one  *)
(* piece and the byte after that one is a type).                           *)
OutOfStep ==
  LET n    == Reliable
      b    == StreamFrom(n + 1)
      read == b[2] * \h80 + b[3]
      sum  == (read - 4) + b[read + 1]
      used == Len(b) - Len(wire) - read
  IN /\ n < Len(sent) /\ n < Len(got) /\ U.pieces = {}
     /\ b[1] = 1 /\ read <= Len(SnSerialize(sent[n + 1]).bytes)
     /\ used > 0 /\ (used > 1 => IsTypeByte(b[read + 2]))
     => (rc # -1 /\ Len(got) = n + 1 <=> sum >= \h100 /\ used < sum - 2)

(* The two ways a stream that nothing has changed comes out.               *)
InOrder == ~damaged => InStep /\ (mode = "parse" => OutOfStep)

(* The length written first is that of the packet, and all that was        *)
(* allocated is written and no more, except where one of two things is     *)
(* wrong: a PUBLISH that counts an identifier of its topic but writes none,*)
(* and a packet that needs three bytes of length only because of them; and *)
(* except for what is longer than its length can say, of one byte for      *)
(* three of the types and of two for the others.  A WILLTOPIC that leaves  *)
(* out a topic too long to be counted writes two bytes, and has allocated  *)
(* two only if the length has wrapped to that.                             *)
BufferExact ==
  sent # <<>> =>
    LET p == sent[Len(sent)] IN
    (size = wrote) <=>
      IF p.type \in {"GWINFO", "CONNECT", "PINGREQ"} THEN Counted(p) < 255
      ELSE IF LeftOut(p) THEN JustTwo(Len(p.f.topic_name))
      ELSE Counted(p) < 65533 /\ (Unwritten(p) <=> Counted(p) = 255)

(* No packet, damaged or not, makes a __sn_parse_ function read beyond its *)
(* body: the parser goes astray only after a length of zero.  What it      *)
(* accepts can be passed on if and only if it can be expressed, no matter  *)
(* where it came from.                                                     *)
PassedOn ==
  /\ rc = 2 => parser.require < 0
  /\ got # <<>> /\ mode = "parse" =>
       LET p == got[Len(got)]
           s == SnSerialize(p)
           r == Loop(ParserInit, s.bytes)
       IN (r.rc = 1 /\ r.used = Len(s.bytes) /\ r.pkt = p) <=> SnExpressible(p)

(* What the comment on mqtt_sn_read says: a packet it returns was read.    *)
ReadsAPacket == [][got' # got => wire' # wire]_vars
=============================================================================
