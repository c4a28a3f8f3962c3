------------------------------ MODULE MqttParser ------------------------------
(***************************************************************************)
(* The two ways mqtt.h has to take packets out of a stream: mqtt_parse, as *)
(* mqtt_cli_incoming calls it on the chunks that one connection after the  *)
(* other delivers, and mqtt_read, which asks for the bytes itself.  The    *)
(* parser outlives the connections: mqtt_read starts it anew with every    *)
(* call, and nothing does so for mqtt_parse.                               *)
(*                                                                         *)
(* A byte is a number below 2 * Radix, its lower part the seven bits of a  *)
(* length digit, its upper part the continuation bit.                      *)
(***************************************************************************)
EXTENDS Integers, Sequences, FiniteSets, SequencesExt

CONSTANTS
  Modes,       \* "parse", "read"
  Radix,       \* 0x80
  MaxDigits,   \* length digits the parser accepts (4)
  Headers,     \* first bytes with a packet type (MQTT_IS_PACKET_TYPE)
  Malformed,   \* those among them that __process rejects
  Alphabet,    \* the bytes the broker sends
  MaxChunk,    \* bound: bytes received at once
  MaxBytes     \* bound: bytes received on a connection

Byte == 0..(2 * Radix - 1)

ASSUME ParserAssumption ==
  /\ Modes \subseteq {"parse", "read"}
  /\ Radix \in Nat /\ Radix >= 2 /\ MaxDigits \in Nat /\ MaxDigits >= 1
  /\ Headers \subseteq Byte /\ Malformed \subseteq Headers /\ Alphabet \subseteq Byte
  /\ MaxChunk \in Nat /\ MaxBytes \in Nat

VARIABLES
  mode,        \* which of the two is used
  state,       \* parser->state
  flags,       \* parser->pkt.f.flags
  n,           \* parser->pkt.b.n
  multiplier,  \* parser->multiplier
  require,     \* parser->require, which mqtt_parse only uses in "REMAIN"
  body,        \* the bytes copied to parser->pkt.b.s
  chunk,       \* the bytes of `incoming' not yet parsed
  pc,          \* "recv", "parse", "handle", "failed" (-1 has been
               \* returned) or "closed"
  received,    \* history: bytes received on this connection
  delivered,   \* history: packets parsed on this connection
  left         \* history: bytes of the packet that the end of an earlier
               \* connection tore apart

parser == <<state, flags, n, multiplier, require, body>>
vars   == <<mode, parser, chunk, pc, received, delivered, left>>

Digit(k)     == k % Radix
Continues(k) == k >= Radix

Power[k \in 0..MaxDigits] == IF k = 0 THEN 1 ELSE Radix * Power[k - 1]

Chunks == UNION {[1..m -> Alphabet] : m \in 1..MaxChunk}

-----------------------------------------------------------------------------
(* What a stream means, by the standard's definition of a packet: a first  *)
(* byte, a length of at most MaxDigits digits, and that many bytes.        *)

(* The number of length digits of the packet that begins at s[i].          *)
DigitsAt(s, i) ==
  {d \in 1..MaxDigits :
     /\ i + d <= Len(s) /\ ~Continues(s[i + d])
     /\ \A e \in 1..(d - 1) : Continues(s[i + e])}

(* What d digits amount to.                                                *)
LengthAt(s, i, d) ==
  LET value[e \in {e \in 0..MaxDigits : i + e <= Len(s)}] ==
        IF e = 0 THEN 0 ELSE value[e - 1] + Digit(s[i + e]) * Power[e - 1]
  IN value[d]

(* The packet at s[i] ends at this position, if it has a length.           *)
Digits(s, i) == CHOOSE d \in DigitsAt(s, i) : TRUE
LastAt(s, i) == i + Digits(s, i) + LengthAt(s, i, Digits(s, i))

Complete(s, i) == i <= Len(s) /\ DigitsAt(s, i) # {} /\ LastAt(s, i) <= Len(s)

PacketAt(s, i) ==
  [flags |-> s[i], body |-> SubSeq(s, i + Digits(s, i) + 1, LastAt(s, i))]

(* The packets of s from here to the first that is incomplete or wrong,    *)
(* and where that one begins.                                              *)
DecodeFrom(s, k) ==
  LET from[i \in 1..(Len(s) + 1)] ==
        IF Complete(s, i) /\ s[i] \in Headers \ Malformed
        THEN LET rest == from[LastAt(s, i) + 1] IN
             [packets |-> <<PacketAt(s, i)>> \o rest.packets, next |-> rest.next]
        ELSE [packets |-> <<>>, next |-> i]
  IN from[k]

Decode(s) == DecodeFrom(s, 1)

Wrong(s) ==
  LET i == Decode(s).next IN
  /\ i <= Len(s)
  /\ \/ s[i] \notin Headers
     \/ i + MaxDigits < Len(s) /\ \A e \in 1..MaxDigits : Continues(s[i + e])
     \/ Complete(s, i)

(* What is not delivered of s: a packet that is torn, or wrong.            *)
Rest(s) == SubSeq(s, Decode(s).next, Len(s))
-----------------------------------------------------------------------------
(* parser->require when nothing has been read.                             *)
AtFirst == IF mode = "parse" THEN 0 ELSE 1

Init ==
  /\ mode \in Modes
  /\ state = "FIXED" /\ flags = 0 /\ n = 0 /\ multiplier = 0 /\ require = AtFirst
  /\ body = <<>> /\ chunk = <<>> /\ pc = "recv"
  /\ received = <<>> /\ delivered = <<>> /\ left = <<>>

(* linux_tcp_recv returned some bytes.                                     *)
Recv ==
  /\ pc = "recv" /\ mode = "parse"
  /\ \E c \in Chunks :
       /\ Len(received) + Len(c) <= MaxBytes
       /\ chunk' = c /\ received' = received \o c
  /\ pc' = "parse"
  /\ UNCHANGED <<mode, parser, delivered, left>>

(* mqtt_read calls reader->read, which returns all that was asked for, or  *)
(* less: then mqtt_read fails, and what was read is lost.                  *)
Fetch ==
  /\ pc = "recv" /\ mode = "read"
  /\ Len(received) + require <= MaxBytes
  /\ \E c \in [1..require -> Alphabet] : chunk' = c /\ received' = received \o c
  /\ pc' = "parse"
  /\ UNCHANGED <<mode, parser, delivered, left>>

FetchShort ==
  /\ pc = "recv" /\ mode = "read"
  /\ \E m \in 1..(require - 1) : \E c \in [1..m -> Alphabet] :
       Len(received) + m <= MaxBytes /\ received' = received \o c
  /\ pc' = "closed"
  /\ UNCHANGED <<mode, parser, chunk, delivered, left>>
-----------------------------------------------------------------------------
(* One turn of the loop of mqtt_parse, or of that of mqtt_read.            *)

Parse(s) == pc = "parse" /\ chunk # <<>> /\ state = s

(* The state after a packet; mqtt_read leaves it alone.                    *)
StateAfter == IF mode = "parse" THEN "FIXED" ELSE state

(* The call returns -1; mqtt_cli_incoming passes it on, the rest of the    *)
(* chunk is dropped and the connection closed.                             *)
Fail == pc' = "failed" /\ chunk' = <<>> /\ UNCHANGED delivered

(* __process, and the return of the call with its result.                  *)
Process(p, rest) ==
  IF p.flags \in Malformed
  THEN Fail
  ELSE pc' = "handle" /\ chunk' = rest /\ delivered' = Append(delivered, p)

Fixed ==
  /\ Parse("FIXED")
  /\ flags' = Head(chunk) /\ n' = 0 /\ body' = <<>>
  /\ IF Head(chunk) \in Headers
     THEN /\ state' = "LENGTH" /\ multiplier' = 1 /\ require' = 1
          /\ chunk' = Tail(chunk) /\ UNCHANGED <<pc, delivered>>
     ELSE Fail /\ UNCHANGED <<state, multiplier, require>>
  /\ UNCHANGED <<mode, received, left>>

(* Mutant: the last digit allowed is refused.                              *)
TooLongEarly == multiplier >= Power[MaxDigits - 1]

TooLong == multiplier > Power[MaxDigits - 1]

(* A digit too many leaves the parser in this state for good; the sum the  *)
(* code still adds it to is not read again.                                *)
(* Mutant: the parser is reset by the error.                               *)
LengthResets ==
  /\ Parse("LENGTH")
  /\ n' = IF TooLong THEN n ELSE n + Digit(Head(chunk)) * multiplier
  /\ IF TooLong
     THEN Fail /\ state' = "FIXED" /\ UNCHANGED <<multiplier, require>>
     ELSE /\ multiplier' = multiplier * Radix
          /\ CASE Continues(Head(chunk)) ->
                    chunk' = Tail(chunk) /\ UNCHANGED <<state, require, pc, delivered>>
               [] ~Continues(Head(chunk)) /\ n' > 0 ->
                    /\ state' = "REMAIN" /\ require' = n'
                    /\ chunk' = Tail(chunk) /\ UNCHANGED <<pc, delivered>>
               [] OTHER ->
                    /\ state' = StateAfter /\ require' = 0
                    /\ Process([flags |-> flags, body |-> <<>>], Tail(chunk))
  /\ UNCHANGED <<mode, flags, body, received, left>>

Length ==
  /\ Parse("LENGTH")
  /\ n' = IF TooLong THEN n ELSE n + Digit(Head(chunk)) * multiplier
  /\ IF TooLong
     THEN Fail /\ UNCHANGED <<state, multiplier, require>>
     ELSE /\ multiplier' = multiplier * Radix
          /\ CASE Continues(Head(chunk)) ->
                    chunk' = Tail(chunk) /\ UNCHANGED <<state, require, pc, delivered>>
               [] ~Continues(Head(chunk)) /\ n' > 0 ->
                    /\ state' = "REMAIN" /\ require' = n'
                    /\ chunk' = Tail(chunk) /\ UNCHANGED <<pc, delivered>>
               [] OTHER ->
                    /\ state' = StateAfter /\ require' = 0
                    /\ Process([flags |-> flags, body |-> <<>>], Tail(chunk))
  /\ UNCHANGED <<mode, flags, body, received, left>>

(* The rest of the body is in the chunk, or only a part of it.             *)
RemainSome ==
  /\ Parse("REMAIN") /\ Len(chunk) < require
  /\ body' = body \o chunk
  /\ require' = require - Len(chunk)
  /\ chunk' = <<>>
  /\ UNCHANGED <<mode, state, flags, n, multiplier, pc, received, delivered, left>>

RemainAll ==
  /\ Parse("REMAIN") /\ Len(chunk) >= require
  /\ body' = body \o SubSeq(chunk, 1, require)
  /\ state' = StateAfter
  /\ Process([flags |-> flags, body |-> body'], SubSeq(chunk, require + 1, Len(chunk)))
  /\ UNCHANGED <<mode, flags, n, multiplier, require, received, left>>

(* mqtt_cli_incoming: _handle_packet accepts the packet, and mqtt_parse is *)
(* called again, or it does not, and the rest of the chunk is dropped.     *)
Handle ==
  /\ pc = "handle" /\ mode = "parse"
  /\ \/ pc' = "parse" /\ chunk' = chunk
     \/ pc' = "closed" /\ chunk' = <<>>
  /\ UNCHANGED <<mode, parser, received, delivered, left>>

(* mqtt_read is called again.                                              *)
ReadNext ==
  /\ pc = "handle" /\ mode = "read"
  /\ state' = "FIXED" /\ require' = 1 /\ pc' = "recv"
  /\ UNCHANGED <<mode, flags, n, multiplier, body, chunk, received, delivered, left>>

(* The chunk is used up: mqtt_parse returns 0.                             *)
ChunkEnd ==
  /\ pc = "parse" /\ chunk = <<>>
  /\ pc' = "recv"
  /\ UNCHANGED <<mode, parser, chunk, received, delivered, left>>

(* The connection ends between two chunks, for any reason; and the next    *)
(* begins, for mqtt_read with a new call.                                  *)
End ==
  /\ pc = "recv"
  /\ pc' = "closed"
  /\ UNCHANGED <<mode, parser, chunk, received, delivered, left>>

Reconnect ==
  /\ pc \in {"failed", "closed"}
  /\ pc' = "recv"
  /\ received' = <<>> /\ delivered' = <<>>
  /\ IF mode = "read"
     THEN state' = "FIXED" /\ require' = 1 /\ left' = left
     ELSE /\ UNCHANGED <<state, require>>
          /\ left' = CASE state = "FIXED" -> <<>>
                       [] state # "FIXED" /\ Wrong(left) -> left
                       [] state # "FIXED" /\ ~Wrong(left) -> Rest(left \o received)
  /\ UNCHANGED <<mode, flags, n, multiplier, body, chunk>>

Next ==
  \/ Recv \/ Fetch \/ FetchShort \/ Fixed \/ Length \/ RemainSome \/ RemainAll
  \/ Handle \/ ReadNext \/ ChunkEnd \/ End \/ Reconnect

Spec == Init /\ [][Next]_vars
-----------------------------------------------------------------------------
(* Every variable is in its domain, and while a body is awaited, what was  *)
(* copied and what is required make up its length.  (`left' is a sequence  *)
(* by definition; ChunksDoNotMatter says of what.)                         *)
TypeOK ==
  /\ mode \in Modes
  /\ state \in {"FIXED", "LENGTH", "REMAIN"}
  /\ flags \in Byte /\ n \in Nat /\ multiplier \in Nat /\ require \in Nat
  /\ body \in Seq(Byte) /\ chunk \in Seq(Byte) /\ received \in Seq(Byte)
  /\ delivered \in Seq([flags : Headers \ Malformed, body : Seq(Byte)])
  /\ pc \in {"recv", "parse", "handle", "failed", "closed"}
  /\ state = "REMAIN" /\ mode = "parse" => require > 0 /\ Len(body) + require = n

(* How a connection's bytes are cut into chunks makes no difference, and   *)
(* the end of a connection in the middle of a packet does nothing but join *)
(* the bytes of the next one to it: the client gets the packets of the     *)
(* stream so composed, in order and whole; none is held back once its last *)
(* byte has been received; and the connection is given up if and only if   *)
(* the stream is wrong.  (mqtt_parse over the chunks of mqtt_cli_incoming, *)
(* where nothing resets the parser between two connections; mqtt_read,     *)
(* where `left' stays empty, joins nothing.)                               *)
ChunksDoNotMatter ==
  LET stream == left \o received IN
  /\ IsPrefix(delivered, Decode(stream).packets)
  /\ pc = "recv" /\ ~Wrong(left) =>
       delivered = Decode(stream).packets /\ ~Wrong(stream)
  /\ pc = "failed" => Wrong(stream)

(* A length with too many digits ends not only its connection: the parser  *)
(* fails on the first byte of every later one, and no packet is ever       *)
(* parsed again (the MQTT_ST_LENGTH case, whose error leaves the state).   *)
Stuck == mode = "parse" /\ state = "LENGTH" /\ TooLong

StuckForEver == [][Stuck => Stuck' /\ Len(delivered') <= Len(delivered)]_vars
=============================================================================
