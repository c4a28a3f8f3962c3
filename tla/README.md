# A verification development for pms5003st

The repository reads a Plantower PMS5003ST air sensor from a serial port and
publishes every measurement over MQTT (`pms5003st_pub`), prints what arrives
(`pms5003st_sub`), or prints the sensor directly (`pms5003st_print`). The MQTT
client is its own: a codec and parser (`mqtt.h`) and a client engine
(`mqtt_cli.h`). This directory holds TLA+ modules of that code, TLC
configurations that check them on small instances, and theorems checked with
TLAPS for every value of the constants.

    tlc -workers 2 -config Mqtt_publish.cfg MqttClient    # one run
    tlc -workers 2 -config Codec_uses.cfg MCExchange
    tlapm MqttClientProofs.tla                            # one proof module

## 1. Inventory

| Part | State it keeps | Operations | Talks to |
|---|---|---|---|
| Client engine, `mqtt_cli.h:86-606` | `padding` (one list for "to be sent" and "waiting for an answer"), `packet_id`, `parser` | `connect`, `publish`, `subscribe`, `unsubscribe`, `pingreq`, `disconnect`, `outgoing`, `incoming`, `elapsed` | the main loop calls it; it calls back `connack`, `suback`, `unsuback`, `puback`, `publish`, `pingresp` |
| The engine's clock, `mqtt_cli.h:182-200, 579-588` | `t.now`, `t.ping`, `t.send` | `elapsed`, `_check_keepalive` | the wall clock, the main loop |
| Linux TCP, `mqtt_cli.h:608-744` | a socket and a 4 KB buffer | connect (a loop over addresses), transfer (send all, then receive at most once for a second), close | the network |
| Main loops, `pms5003st_pub.c:79-146`, `pms5003st_sub.c:56-117` | one connection at a time | connect, then outgoing / transfer / incoming / elapsed until one of them fails, close, again for ever | engine, TCP |
| Sensor thread, `pms5003st_pub.c:36-67` | a file descriptor | open the port, read a frame, `mqtt_cli_publish`, sleep 3 s | serial port; the engine, from a second thread, without a lock |
| Subscriber callbacks, `pms5003st_sub.c:9-54` | none | subscribe on CONNACK, print on PUBLISH, disconnect on UNSUBACK | engine |
| Frame reader, `pms5003st.h:81-137` | position in the byte stream | `pms5003st_read` | `uart_read` |
| Serial port, `uart.h` | termios settings | open, close, read, write | kernel |
| MQTT parser and reader, `mqtt.h:2775-2946` | `parser.state`, the packet being assembled; survives a connection | `mqtt_parse` one chunk, `mqtt_read` one packet | engine |
| MQTT codec, `mqtt.h:1580-2773, 2948-3656` | a packet and its property lists with a length beside each | serialise and parse the packets of versions 3, 4, 5; add, remove and find properties | engine |
| MQTT-SN codec, `mqtt.h:3658-4812` | `parser.state`, `multiplier`, `require` | serialise, `mqtt_sn_parse`, `mqtt_sn_read` | nothing in the repository |
| HTTP server library, `libhttp.h`; URL and base64 codecs | request being assembled | callbacks of the parser | nothing in the repository |
| `http_parser.[ch]`, `web/`, `*.deprecated` | | vendored, static, not built | |

What is hard here:

* **Concurrency.** The sensor thread publishes while the main thread sends; they
  share `m->padding` and `m->packet_id`.
* **One list, two roles, many connections.** `padding`, the timers, the parser
  and the identifier counter outlive a connection. A queue with something in it
  at reconnection sends that before CONNECT, an answer owed to the old broker
  session may go to the new one, a ping may be awaited from nobody, and half a
  packet may wait for bytes that will never come.
* **Timeouts and retries.** A packet waits at most `MQTT_CLI_PACKET_TIMEOUT`,
  is sent again at most `MQTT_CLI_PACKET_TTL - 1` times, and late answers race
  those retries. The clock is the sum of differences of a wall clock that can
  be set, in unsigned arithmetic.
* **Ordering.** First copies, retries and PUBRELs are mixed in the same batch.
* **Wrap-around** of the 16-bit identifier, which is not compared with the
  identifiers in use.
* **Streams.** Both the sensor's and the broker's bytes are cut anywhere, and
  both readers must find the start of a frame again after an error.
* **Lengths kept twice.** The serialisers add up a length in one place and
  write the bytes in another; property lists carry their length along; the
  parsers trust lengths that come from the wire.

`PROJECT.json` lists these as hazards, each at the line where it bites, with
the property that watches it or the reason why none does.

What makes each part correct:

* engine: no QoS 1 or 2 message forgotten, doubled, confirmed without having
  arrived, retried after it was released or sent more than its tries; the
  keep-alive kept; a session opened again whatever the queue holds;
* clock: a broker that falls silent is noticed in bounded time, a healthy one
  is not given up, or only once for each disturbance of the clock;
* TCP: a transfer is one step for the engine, a connection in use has an open
  socket, descriptors do not leak without bound;
* parser: the packets found do not depend on how the stream was cut, and what a
  connection leaves in the parser does nothing but join the next bytes to it;
* frame reader: only frames with a right checksum are returned, damage costs
  little, and the reader finds the next good frame;
* sensor thread: the queue stays a list under two threads;
* codecs: what is parsed is what was serialised, at every boundary of a length;
  buffers are filled exactly; what was accepted can be passed on.

## 2. Modules and their correspondence to the code

| Module | Role |
|---|---|
| `MqttClient` | engine, main loops, callbacks of `pub.c` and `sub.c`, TCP as whole transfers, a broker and a network |
| `SeqKeep` | deleting nodes from a list in one walk, as an operator that can be proved about |
| `Delivery` | abstract contract: what `mqtt_cli_publish` promises |
| `KeepAlive`, `MCClock` | the engine's clock against a wall clock that may be set and a broker that falls silent |
| `TcpTransfer` | `linux_tcp_connect`, `_send`, `_transfer`, `_close`, socket by socket and byte by byte |
| `Batches` | abstract contract of a connection: it takes whole batches, in order |
| `PaddingRace` | the two threads of `pub.c` on `m->padding`, access by access |
| `MqttParser` | `mqtt_parse` over the chunks of one connection after the other, and `mqtt_read` |
| `MqttTables`, `Wire`, `MqttCodec` | the codec as operators: the tables of types, codes and properties; reads and writes of bytes; serialise and parse |
| `MqttExchange`, `MCExchange` | the codec in use: an application fills in a packet, the bytes may be damaged, a parser with a version of its own reads them |
| `MqttSnCodec`, `MqttSnLink`, `MCSnLink` | the same for MQTT-SN, with `mqtt_sn_parse` and `mqtt_sn_read` on a stream |
| `SensorReader`, `MCSensor` | the sensor thread: `pms5003st_read` over `uart_read` on a damaged line |
| `MqttClientProofs` | theorems about `MqttClient` |
| `PaddingRaceProofs`, `TcpTransferProofs`, `KeepAliveProofs`, `MqttParserProofs`, `MqttExchangeProofs`, `MqttSnLinkProofs`, `SensorReaderProofs` | theorems about the module of that name |

`MqttClient` is the composition: it treats a call as atomic, a transfer as one
step, a packet as whole and time as ages that grow by the length of a turn.
Four modules look below these abstractions: `PaddingRace` below the first,
`TcpTransfer` below the second (and shows it a refinement of `Batches`),
`MqttParser` and `MqttCodec` below the third, `KeepAlive` below the fourth.

The `Mqtt_*`, `Race_*`, `Parser_*` and `Tcp_*` files give constants their values
directly (messages are `1..MaxMsgs`; there are no model values). Frames, the
uses of a codec and the steps of a clock need an MC module.

### `MqttClient`: state

| Variable | Code |
|---|---|
| `packet_id`, `padding` | `m->packet_id`, `m->padding`; a node is `[b, ttl, wait_ack, age, tx]`, `b` being the packet with its DUP bit |
| `sendAge`, `pingAge`, `age` of a node | `m->t.now` minus `t.send`, `t.ping`, `mp->t_send`. `NoPing` is `t.ping == 0`. Ages stop at `MaxAge`, above all thresholds the code compares them with |
| `pc` | the position of the main loop between two calls |
| `out`, `inb` | the `outgoing` and `incoming` buffers, as packets |
| `idle` | the receive of this turn timed out, so the turn lasted at least a tick |
| `up`, `c2s`, `s2c` | the connection and what is in flight |
| `session`, `held`, `inflight`, `subscribed` | the broker (external: MQTT 3.1.1, clean session) |
| `accepted`, `got`, `onward`, `confirmed`, `wire`, `again`, `wrapped`, and `tx` of a node | history variables, read by properties only |
| `unsubs`, `ins`, `drops` | counters of the bounds |

### `MqttClient`: actions

Each action is one call of the main loop, or of another thread, in full.

| Action | Code |
|---|---|
| `TcpConnect`, `Hello` | `linux_tcp_connect`, `mqtt_cli_connect` |
| `Outgoing` | `mqtt_cli_outgoing`: the batch, the nodes that leave, the ages reset |
| `Send`, `RecvData`, `RecvTimeout`, `RecvEnd` | the two halves of `linux_tcp_transfer` and its outcomes |
| `OnConnack` ... `OnPingresp`, `Rejected`, `IncomingEnd` | `mqtt_cli_incoming` and `_handle_packet`, one packet at a time, with the callbacks of the two programs inside; an error drops the rest of the chunk and the connection |
| `Elapsed` | `mqtt_cli_elapsed`: `_check_keepalive`, then `_check_padding`, which stops at the first packet that used its last try |
| `Close` | `linux_tcp_close` |
| `Publish`, `Unsubscribe` | the application's calls, enabled at every moment |
| `Broker*`, `Drop` | the external side: it accepts or refuses, acknowledges, sends, closes on a violation; the network breaks and loses what was in flight |

Times are in ticks of the one-second receive timeout. A turn lasts `0..MaxDelta`
ticks, at least one if nothing was received.

### `KeepAlive`

`now`, `ping` and `send` are `m->t` as time stamps modulo `Width`, `Plus` and
`Minus` the unsigned arithmetic on them. Of the queue only the kinds of packets
are kept. `Transfer(d)` lets a turn last `d`; `ElapsedLost`, `ElapsedDue` and
`ElapsedOther` are the three outcomes of `_check_keepalive` in
`mqtt_cli_elapsed`, with the wall clock set by `s` between the two readings that
time the turn. `Silence` is a broker whose host goes away without closing the
connection; a broker that received something before CONNECT does not answer
either until it closes. `period` says how often the sensor thread publishes at
least. `since`, `skipped`, `back` measure how long the silence could have been
noticed, `alarms`, `steps`, `breaks` count.

### `TcpTransfer` and `Batches`

`fd` is the descriptor of `linux_tcp_connect` and then `net->fd`, `open` the
sockets the process really has. `NameFails`, `SocketFails`, `ConnectFails`,
`Connects` are the ways through the body of the address loop, which does not
stop at a success. `size`, `totlen` and `buf` are `linux_tcp_send`'s; a `Send`
takes as many bytes as the kernel has room for. `Batches` says what the engine
sees: a connection that opens, takes whole batches one after the other, and may
end in the middle of the last. `Promised` maps the bytes written, less those of
a batch still on its way, to it.

### `PaddingRace`

`padding` and `next` are `m->padding` and `mp->next`; each thread has a program
counter `pc[t]`, the node it appends `mp[t]` and its place in a walk `p[t]`.
`LoadHead`, `Walk`, `Link`, `SetHead` are the accesses of `_append_padding`,
`SizeUp`, `Copy`, `Unlink`, `Advance` those of the two passes of
`mqtt_cli_outgoing`; no action makes two accesses to shared memory. The Makefile
builds with `-O3`, so the test of `m->padding` and the start of the walk are one
load, and the loop of the second pass may or may not reload `*pmp`. A freed node
keeps its `next` and is not allocated again.

### `MqttParser`

`state`, `multiplier`, `require`, `flags`, `n` and `body` are the parser;
`Fixed`, `Length`, `RemainSome`, `RemainAll` are the cases of the switch, which
`mqtt_parse` and `mqtt_read` share but for what they leave in `state`
(`StateAfter`), `Process` is `__process` and the return. What `__process` finds
in a body is reduced to the set `Malformed` of first bytes. In mode `"parse"`
the bytes come in chunks (`Recv`) and `Reconnect` begins a new stream and leaves
the parser as it is, as the code does; in mode `"read"` the parser asks for what
it needs (`Fetch`, or `FetchShort` if the reader returns less) and every call
resets `state` and `require` (`ReadNext`, `Reconnect`). `Decode` and `Wrong` are
the reference: what a stream means by the definition of a packet. `left` is what
an earlier connection tore off.

### `MqttCodec` and `MqttExchange`

A packet is a record with the fields of its C structure. For each type there is
the sum of lengths the code allocates (`PublishLength`), the bytes it writes
(`PublishBody`) and the sequence of tests and reads of the `__parse_` function,
which `Run` carries out one after the other until one fails. The three results
of a read are a value, `"bad"` (the function returns -1) and `"wild"`: the code
reads beyond the body or a table, and what it finds is not determined. After a
wild read `Receive` allows either result and says nothing of the packet's
fields. `Serialize` has the refusals of `mqtt_serialize`, `Parse` those of
`mqtt_parse` and `__process`, including the version a CONNECT leaves in the
parser. `MqttExchange` adds the application (`Compose`, `AddProperty`,
`RemoveProperty`), the sender and the way (`Change`, `Truncate`). `Compose` makes
a packet with `mqtt_packet_init` and one of the `Fill` operators, one for each C
structure, writes the fields an application would. Loops are recursive functions
(`Vbi`, `ReadVbi`, `PropertiesLoop`, `Filters`, `Run`, `Sum`), of which
`PropertyTurn` and `FilterTurn` are one turn.

### `MqttSnCodec` and `MqttSnLink`

The same for MQTT-SN. The union of a topic name, a topic identifier and a short
name is a sequence of bytes or of one word. `Turn` is one turn of the loop of
`mqtt_sn_parse`, whose state survives a call; `SnRead` is a call of
`mqtt_sn_read`, which resets `multiplier` and `require` but not `state`.
`require` below zero stands for the unsigned number it wraps to.

### `SensorReader`

All of `pms5003st_read`'s position is `frame`, the bytes it has of a frame;
`Stops` are the five lengths at which a call of `uart_read` ends and a
comparison follows, `Consume` is one `read(2)` and what follows it. `Open` may
come in the middle of a frame. The line loses bytes
in a row, or changes or adds one (`LineDamages`), the kernel's buffer overflows
(`Arrive`), the port goes away (`Unplug`). A frame enters the buffer in one step,
so that an overflow cuts its tail; one that the reader drains meanwhile, which
loses a middle, is a damaged frame. `origin` is history: it says of every byte in the buffer which frame
it was sent in and where, so that `Missed` can tell a frame that has been read to
its end from one that still waits.

## 3. Runs

| Run | Instance | Question |
|---|---|---|
| `publish` | two messages of QoS 0, 1, 2, one lost or refused connection | Is anything lost, doubled, misattributed or reordered? Do tries, DUP and the keep-alive hold? Does the engine implement `Delivery`? |
| `subscribe` | two inbound messages of QoS 0, 1, 2, one UNSUBSCRIBE, one lost connection | Can leftovers of an old connection disturb a later session? |
| `stall` | turns of up to 2 ticks, as long as the packet timeout; two identifiers, of which 0 is skipped, so that all messages share one | What does a send that waits for buffer space cost? Does the queue's bookkeeping survive identifier reuse? |
| `live` | a subscriber that also publishes, one message each way, one lost connection, `FairSpec` | Does every message settle, does a session open again and again, is the subscription renewed? |
| `clock` | keep-alive 6, turns of at most 1, a broker that takes up to 4 to answer, a publisher that is idle or publishes every 4; the wall clock set twice by -6, -4 or +3, one other lost connection, 32 time stamps | How late can silence be noticed, and how often can a healthy broker be given up? |
| `tcp` | three addresses, three calls of `linux_tcp_connect`, batches of 0, 1 and 3 bytes, room for 2, `FairSpec` | Is a transfer one step for the engine? What do the sockets cost? |
| `race` | three measurements, two requests | What can the missing lock cost? |
| `chunks` | every stream of up to six bytes, in chunks of up to three or read packet by packet, connection after connection; radix 2, two length digits | Does the division into chunks, or the end of a connection in the middle of a packet, matter? |
| `codec` | six uses of the codec, see below | Do lengths and bytes agree? Is what is parsed what was serialised? |
| `sn` | five uses of an MQTT-SN link, see below | The same, and does the parser survive one packet after the other? |
| `sn_reader` | `mqtt_sn_read` alone | Expected to fail, see *Findings* |
| `sensor` | five frames, one of them containing and one ending in a start byte, one damaged, a buffer of three frames and a byte | Is what is published what was measured? What does damage cost? Are frames found again? |

Common bounds of the `Mqtt_*` runs: keep-alive 3 ticks, packet timeout 2,
`PacketTTL` 2 (one retry), ages up to 5 (6 in `stall`). The order *timeout < keep-alive* is
that of the code (5 s, 60 s); one retry is enough to meet first copy, retry,
last timeout, and late answers to each of them. Two messages are needed for
order, for confusion of identifiers and for a walk that stops early with
somebody behind it; one lost connection gives two sessions, so that state of the
first meets the second.

The six uses of `codec` are alternatives of one initial state: *fields* sends
every type of every version with every reason code, every combination of the
CONNECT flags, fields empty or not, lists of up to two; *props* puts every
property on every packet, and one that is not defined, with variable byte
integers on both sides of 2^7, 2^14 and 2^21, and takes it off again; *pairs*
does the same with two properties on a CONNECT with a will, a PUBLISH and a
DISCONNECT, so that the second can repeat the first, follow it or outlive it;
*long* has bodies and property lists on both sides of 128 bytes; *damage* sends
two packets one after the other to the same parser, one byte of one of them
changed to a value that means something, or its end cut off; *misread* does so
with a payload that reads as a property whose integer is missing, for a parser
that a damaged CONNECT has told another version. A packet of MQTT has no state but
the version that lasts from one to the next, so two packets suffice.

The five uses of `sn`: *short* sends two packets of any type through both
receivers, in pieces of one, three or all bytes; *long* has strings of each
length around the one at which a packet needs three bytes of length, and of 300,
in pieces of a hundred or all bytes; *after* sends four packets, of 2 and 3
bytes and of 256, 383, 384 and 404, in any order, so that what a long packet
leaves in the parser meets a next byte with which it is refused as too short, or
asks for less or for more than all that follows; *huge* has packets on both sides of the length at which sixteen
bits end, WILLTOPIC and WILLTOPICUPD among them; *damage* changes a byte of two
packets.

In `tcp`, three addresses are the fewest with a success in the middle; a batch
of three in a room of two needs at least two sends. In `clock` a step back of 6
exceeds every turn and makes `t2 - t1` wrap; the arithmetic is modulo 32, so the
wrapped values are reached. In `chunks`, six bytes hold the longest packet two
digits can describe in radix 2. In `sensor`, a buffer of 25 bytes, three frames
and a byte, overflows in the middle of the fourth. In `race`, three measurements let a loss be
followed by an append and a batch.

Deadlock is checked except in `codec`, `sn`, `sn_reader` and `tcp`, where a
behaviour is over when the packets or attempts of the bound are used up.

What the properties say (the comments in the modules give them in full):

* `NothingLost`: exactly one node stands for each unfinished QoS 1 or 2
  message, none for a finished one. It holds with reused identifiers and long
  turns too (`stall`).
* `AckedWasReceived`, `PassedOnOnce`: under the proviso that the identifier has
  not wrapped. Without the proviso both fail: with identifiers reused an
  acknowledgement of one message finishes another. This is the reason for the
  history variable `wrapped`, and a limit of the client the reader should know:
  a message that lies in the queue for 65535 further calls is no longer safe.
* `AcksMatch`: the client throws a connection away over an unexpected
  acknowledgement only if it had sent the packet twice on that connection.
* `TriesCounted`, `DupMeansSentBefore`: `ttl` and the DUP bit tell the truth as
  long as no turn is as long as the packet timeout. `_check_padding` ages
  packets that have not been sent as well, so in the `stall` instance a packet
  may carry DUP, or be given up, without having been sent; what remains true
  there is `TriesBounded`.
* `FirstCopiesInOrder`, `KeepAliveHonoured`, `OneConnect`,
  `AcksAnswerThisSession`: order, timers and leftovers.
* `Settles`, `SessionOpens`, `Resubscribes`: liveness.
* `Delivers`: refinement of `Delivery`. A message given up is not lost from the
  queue: its node stays with `ttl` 0, and an acknowledgement that arrives late
  still finishes it, which is why `Hear` of the contract takes `abandoned`
  back.
* `SilenceNoticed`, `FalseAlarms`, `BusyNeverPings`: the clock. Silence is
  noticed within two keep-alives and two turns, with three exceptions that the
  property spells out: time the clock was set back is added; `t.ping == 0`
  means that no ping is awaited, so a PINGREQ queued when `t.now` is 0 does not
  count and costs another keep-alive; and a publisher busier than the keep-alive
  never pings at all, so that nothing in the engine notices. That last one is
  how `pms5003st_pub` runs (a measurement every three seconds, keep-alive 60).
  A clock set back or forward, or a connection lost while a ping is awaited,
  costs at most one healthy connection.
* `NetIsOpen`, `LeaksBounded`, `WholeBatches`, `TransferEnds`: the address loop
  goes on after a success, so with several addresses it leaks sockets, at most
  one for every address but the first of every call, and it fails when the last
  address does; a batch is sent whole or the connection is given up.
* `LostOnlyIfDisturbed`, `SentOnce`, `FitsButForLate`, `WalksEnd`: the race of
  the two threads can lose a packet, the CONNECT included, and can copy a packet
  more into the outgoing buffer than was allocated for (TLC reaches both). It
  can harm only packets whose own append was not alone, only by as many packets
  as were appended meanwhile, never sends one twice and never makes the list a
  ring. A lock around `_append_padding` and `mqtt_cli_outgoing` would remove it.
* `ChunksDoNotMatter`: the packets are those of the stream that consists of what
  an earlier connection left torn and of what this one brings, and the
  connection is given up exactly if that stream is wrong. So the first packet of
  a new connection, CONNACK, may be swallowed as the end of an old one, and
  nothing worse happens: that connection is lost and the next is in step or lost
  in the same way. `StuckForEver` is worse: after a length with five digits no
  packet is ever parsed again, on any later connection, until the program is
  restarted. `mqtt_read` suffers neither.
* `LengthKept`, `BufferExact`, `RoundTrip`, `PassedOn`: the codec.
  `RoundTrip` is an equivalence: its right side, `Expressible`, lists exactly
  what the serialiser writes and the parser does not take as itself: empty
  strings where the flags announce one, a password without a user name, an empty
  client identifier, a packet identifier at QoS 0, and so on. Likewise
  `OnlyParsed` lists what the parser accepts from a damaged stream but the
  serialiser cannot write. One of these is an integer of variable length that is
  padded, `80 00` for 0, which `mqtt_str_read_vbi` takes, and one that is missing
  at the end of the packet, which it takes for 0: the length `__properties_parse`
  keeps of such a list is not the one that would be written. `LengthKept` bounds
  the difference by three bytes too many, or one too few, for each such integer;
  the values *damage* and *misread* send reach both ends of that.
* `InOrder`, `BufferExact`, `PassedOn` of `MqttSnLink`: the same for MQTT-SN.
  `SnExpressible` excludes every packet of 256 bytes or more: the two length
  bytes are written as eight and eight bits and read as seven and eight, so such
  a packet never comes out as itself. What comes after it is as exact (`OutOfStep`,
  a part of `InOrder`): `mqtt_sn_parse` takes fewer bytes for it than were written,
  leaves `multiplier` at 2 and `require` at the length of its body, and adds the
  next byte to that. Below 256 the sum is refused; otherwise everything sent
  disappears, without an error, into a body of that length, until so many bytes
  have come, and then a packet nobody sent comes out or a call fails. `BufferExact` says exactly which packets
  are written into a buffer of another size: those of 255 bytes with a length of
  one byte (`mqtt_sn_vbi_length` looks at the length without its own bytes), a
  PUBLISH with a topic of the normal type, and what is longer than its length can
  say: 255 bytes for three types, 65535 for the others. A WILLTOPIC whose length has
  wrapped to two or less leaves out flags and topic and writes two bytes
  (`LeftOut`): topics of 65531 to 65535 bytes, and those longer by a multiple of
  65536. The buffer is then right by accident for 65533 and 65535, where the
  length has wrapped to just two.
* `Genuine`, `LossBounded`, `Resyncs`: the frame reader. A damaged frame, a cut
  one, or one that contains the byte 0x42 beyond its start costs at most one
  intact frame after it.

Every property has a mutant in `PROJECT.json`: a plausible bug of one operation
(an operator next to the one it changes, commented as a mutant) with which TLC
finds the property violated under the configuration of its run.

### Findings

* `sn_reader`, `ReadsAPacket`: the comment at `mqtt.h:1948` says that
  `mqtt_sn_read` reads a packet. After a packet with a body it leaves
  `parser->state` at `MQTT_SN_ST_REMAIN`, and the next call, which does not
  reset it, asks for a body of no bytes and returns without having read
  anything. `mqtt_read` resets its state at `mqtt.h:2888`. No program of the
  repository calls `mqtt_sn_read`.

### Fairness

`FairSpec` of `MqttClient` assumes

* `WF(MainLoop)`: `recv` returns after one second at the latest, no call of the
  loop waits for another thread, and each has finite work. The exception is
  `linux_tcp_send`, which spins for as long as the peer takes nothing;
  `TransferEnds` shows that it ends while the broker goes on reading, and a
  peer that never reads again is outside this assumption;
* `SF(RecvData)`: what arrives again and again before a receive is received.
  Weak fairness does not say this, as the loop leaves the receive by a timeout;
* `SF(BrokerRecv)`: a broker that gets packets on connection after connection
  reads them. Connections may break before it does, but only `MaxDrops` times.

`TcpTransfer` assumes that the sending loop runs and that the broker goes on
reading, `SensorReader` that bytes that are there are read and that a sleep
ends, `PaddingRace` that each of the two threads gets to run. Nothing is assumed
of the application, of the broker's own messages or of `Drop`.

## 4. Proofs

All theorems hold for every value of the constants that satisfies the named
assumptions of the module (`SizeAssumption` and `TimeAssumption` of
`MqttClient`, and so on), and for runs of any length. What a theorem assumes
besides is in its statement.

### The engine

* `MqttClientProofs`: `KeepAt(s, K)` is a sequence of the elements of `s` at `K`,
  each once, in order (`KeepAtProperties`, `NthMonotone`), from a bijection
  between the ranks and the kept positions. Every walk of the queue that frees
  nodes is a `KeepAt`.
* `MqttClientProofs!TypeCorrect`: `Spec => []TypeOK`. One lemma per operator of
  the queue and one per action; `TypeOK` is inductive as it stands.
* `TriesAreCounted`, `DupIsTrue`, under
  `MaxDelta < PacketTimeout`: no turn is as long as the packet timeout.
  `TriesCounted` alone is not inductive: that a packet does not expire before it
  is sent depends on its age. `TriesInv` adds that while a turn is under way
  every unsent packet has age zero (the batch before the turn took all the
  others), and ties the DUP bit of a node to the tries it has left.
  `TriesAreBounded` is what is left without the assumption, and inductive.
* `KeepAliveIsHonoured`, with no assumption on the length of a turn. The bound
  on silence holds inside a turn because `_check_keepalive` runs at the end of
  the one before; `KeepAliveInv` states what it leaves: either the client was not
  silent for longer than the keep-alive (and no longer than a ping is
  unanswered), or a packet is waiting that the next `Outgoing` sends. For the
  first turn of a connection that packet is CONNECT.
* `OneConnectASession`. `ConnectInv` follows the CONNECT from the queue (only
  before the first batch of a connection) to the batch and to the connection,
  where there is at most one and the session is still new. It needs that a node
  nobody acknowledges has no tries and so never outlives its batch (`Plain`).
* `NothingIsLost`, for `PacketTTL >= 2`; the code has 3.
  The invariant `Accounted` says that every PUBLISH or PUBREL in the queue stands
  for a published message that is not complete, no two for the same, and that
  every unfinished message of QoS 1 or 2 has one. `mqtt_cli_outgoing` frees a
  node it sends with `ttl` 0, and `_check_padding` also counts down nodes that
  were not sent; `AwakeInv` shows that an unsent node still has a try left: it
  came after the batch of this turn, so it has all of them, and a turn takes one.
  With a single try that fails, and a message is lost.
* `AckedIsReceived`. That an answer is about the message of
  the node it matches depends on every packet on its way in both directions:
  `HonestInv` says, while the identifier has not wrapped, that every exchange has
  an identifier of its own, not above `packet_id`, and that the broker speaks
  of an identifier (`Told`) only if it has the message.
* `PublisherDelivers`: `Spec => Delivers`, a refinement of `Delivery`, for a
  publisher (`~Subscriber`, so that nothing else draws identifiers without a
  bound) with `MaxMsgs + MaxUnsub < IdSpace` and `PacketTTL >= 2`. Every step
  maps to `Take`, `Arrive`, `Hear`, `Abandon` or a stutter; it rests on the three
  invariants above.
* `FirstCopiesAreInOrder`, with no assumption. `OrderInv`: the messages of first
  copies increase along the connection, the batch and the unsent nodes of the
  queue, in this order; `Retry` turns a first copy into another (DUP).

The next three follow the packets of an exchange in order
along the line: the queue, the batch and the connection one way (`Line`), the
connection and the chunk the other (`Downward`). Every step either thins a part
of the line, keeping the order, or adds one packet at its end (`Thins`,
`LineMoves`, `QueueThins`), so a claim that no packet of a set `A` is ahead of
one of a set `B` (`NotBefore`), or that `A` has one packet at most (`Lone`),
survives every step but those that add to `A` or `B`. Only `Outgoing` copies: a
packet it sends and keeps is on the line twice from then on.

* `AnswersMatch`, for `PacketTTL >= 2`. An exchange is a type with an identifier.
  `MatchInv`: as long as its request has been sent once on this connection
  (`again`), there is one request or one answer of it on the line and not both,
  and the queue has the node that waits. With a single try `mqtt_cli_outgoing`
  could free that node.
* `AcksAreForThisSession`. `SessionInv`: in an open session, at most one of the
  broker's message and its acknowledgement is on its way for each identifier
  (`Settled`), and it is the one the broker waits for; before that, no
  acknowledgement is behind the CONNECT. That needs `mqtt_cli_connect` to append
  CONNECT to the queue: what an earlier connection left is ahead of it, and costs
  this connection its session before it opens.
* `PassedOnAtMostOnce`. `OnceInv`: while the identifier has not wrapped, the queue
  has one PUBLISH of an identifier at most and never beside its PUBREL, no PUBREL
  is ahead of a copy of its PUBLISH on the line (`Ordered`), a PUBLISH of QoS 0 is
  on the line once, and a copy of a message the session has passed on has an
  identifier the broker still holds (`Counted`). `Honest` makes a new identifier
  and a new message differ from all on the line.

### The other modules

* `PaddingRaceProofs`, for any number of packets appended by the two threads,
  access by access: `TypeCorrect`, `NeverSentTwice`, `BatchFits`,
  `LossNeedsARace`, `NeverARing`. `Shape` says where each thread's pointers may
  be: at nodes that are or were in the list. `Ordered` ranks the nodes so that
  every link leads from a lower rank to a higher one, and the batches rise;
  that the list is such, and a stale pointer cannot change it, is what forbids a
  second copy. `Fits` gives a node the height of what follows it: what is left
  of the copying walk is no higher than what was measured and the nodes that
  came late. `Held` follows the nodes that were appended undisturbed along
  every pointer that still leads to them.
* `TcpTransferProofs`, for any number of addresses and any sizes: `TypeCorrect`;
  `AlwaysOpen` (a connection in use has an open socket); `BoundedLeaks`;
  `TransferIsAtomic`, the refinement of `Batches`: the bytes on the connection
  are whole batches but for the one under way.
* `KeepAliveProofs`, for every keep-alive, length of a turn, width of a time
  stamp and setting of the wall clock: `TypeCorrect`; `AlarmsBounded`
  (`AlarmInv`: a ping nobody will answer has a cause that is not counted yet, see
  `Stale`); `NeverPings`; and `SilenceIsNoticed`. For that one `AgeInv` bounds the
  ages in a turn: the packet sent last is young, or its stamp is ahead of a clock
  that was set back, by no more than that (`Ahead`), and then either a ping is
  awaited or the next look at the clock queues one. `LateInv` bounds what was
  on its way when the broker fell silent, and `CountInv` ties the silence to the
  age of the last packet, then to that of the ping. `ClockAssumption` lets the
  clock be set by any amount that does not, with a keep-alive and a turn, wrap a
  time stamp of 64 bits.
* `MqttParserProofs`, for every alphabet, radix and number of length digits:
  `TypeCorrect`, whose invariant ties the bytes copied to the bytes still
  required; `TooLongIsForEver`, a step property; and `ChunksMakeNoDifference`:
  the chunks a stream comes in do not matter. `Decode` and the length before it
  are recursive functions, and what a recursive function is must itself be proved:
  `Recursion` gets it from induction over the numbers, which the module has from
  the well-foundedness of `<`. `Follows` says that the parser is where decoding
  the bytes consumed so far would be; `StreamInv` keeps it, in four parts: the
  chunk in hand (`ChunkInv`), the bytes asked for (`ReadInv`), the connection that
  is given up (`DoomInv`), the place in the packet (`PlaceInv`). It is stated with
  what an earlier connection left, or it would not survive `Reconnect`.
* `MqttExchangeProofs`, for every packet of every type and version an application
  can make, with strings, lists and properties of any number and length, and for
  every damage on the way: `EveryByteIsAllocated` and `LengthsAreKept`. The
  sender's side is the invariant `Senders`: a packet under construction is
  `Composed`, its fields what their types say and each list of properties one
  whose length is that of its bytes (`TrueLists`). `Fits` relates bytes and a
  number; one lemma for each type shows that the bytes of a body fit the number
  computed beforehand, from lemmas on flattening, summing and `VbiLength`, up to
  the number four digits cannot say. The receiver's side is `Receivers`: the
  bytes of a packet on its way may be any, so nothing is supposed of them but that
  there is one, and a packet that was accepted has only lists that
  `__properties_parse` has read (`ReadLists`). That one turn of its loop adds to
  the list what it takes from the bytes is `LoopGoesOn`; what integers of variable
  length may add or lack is `Slack`, where only the last can lack anything, as it
  must be at the end of the bytes. `Reading` carries this through the tests and
  reads of the `__parse_` function of each type.
* `MqttSnLinkProofs`, for every packet an application can make, with strings of
  any length: `BuffersAreExact`. `LengthFits`, one lemma for each type or family
  of types, says that the bytes a `__sn_serialize_` function writes are those its length counts;
  `VbiLengthExact` and `HeaderLength` are the arithmetic of the length itself,
  on both sides of 256 and of 65536, `WrapsToTwo` says which topics of a WILLTOPIC
  are left out, and `ExactIfLeftOut` what is written then; nothing but `Send`
  writes what the property is about.
* `SensorReaderProofs`, for frames of any length, any readings, noise, size of the
  buffer and number of damaged frames: `TypeCorrect` and `FewAreMissed`, that is
  `LossBounded`. Counting is not inductive. `LossInv` says instead that every
  intact frame whose first byte was read and that was neither published nor is
  being followed has an excuse (`Excuses`): an earlier frame that is bad, its own
  and no other's. The excuse is found when it happens: the reader is `Astray` from
  the moment it takes a byte of a bad frame for a start byte, and the first byte
  of an intact frame it then runs over makes it `Overrun`. What it takes for a
  frame is no longer than one, so that it ends inside the frame it has run over
  and costs no second one. `Tidy` says what the buffer holds: of an intact frame
  every byte from some place to its end. An injection from the frames missed to
  the bad ones then bounds their number.

### Only model-checked

* Liveness (`Settles`, `SessionOpens`, `Resubscribes`, `TransferEnds`, `Resyncs`,
  `WalksEnd`): out of the prover's reach.
* `Delivers` for a subscriber, `NothingLost` and `AcksMatch` for one try.
* `RoundTrip` and `PassedOn` of the codec: they compare every field of every
  packet through both directions, a case analysis over types, versions and
  damages that TLC does for the values that its tests tell apart.
* `InOrder` and `PassedOn` of MQTT-SN. `InOrder` holds for the values the run
  sends and not for all: a PUBLISH with a topic of the normal type counts two
  bytes it does not write, and whether what follows it on the stream happens to
  complete it to itself depends on the bytes that follow.
* `Genuine` of the frame reader: its checksum is a sum, and for some frames and
  damages a wrong frame has the right one. The run's frames have no such collision
  within the damages it allows; no assumption on the constants short of saying so
  would be true of the sensor.

## 5. Abstractions and limits

* In `MqttClient` packets reach the engine whole, and calls and transfers are
  atomic. `MqttParser`, `PaddingRace` and `TcpTransfer` show when that is so: on
  a connection that begins between two packets, while no append is concurrent
  with another use of the list, and for every transfer. What a packet torn by the
  end of a connection does to the next one is seen by the model of the parser,
  not carried into `MqttClient`; nor is a packet lost in the race.
* After `Close` the old connection's packets can reach the broker until the next
  connection replaces it; they do not arrive after that.
* A write to a connection reset by the peer raises SIGPIPE, which the programs
  do not ignore; the model lets the call fail or succeed.
* The broker is external: MQTT 3.1.1, clean session, no retries within a session.
  Retained messages and the will play no role.
* `MqttClient` abstracts payloads, topics and bodies to the name of a message.
  The codec's model has the bytes, with the few values of each field that its
  tests and boundaries tell apart.
* `PaddingRace` assumes that the threads see each other's writes in one order
  and that freed memory is not allocated again; reuse only adds to the harm.
* The age of a measurement is not modelled: the sensor sends about once a
  second, the thread reads every three, so the port's buffer is usually full.
* In the codecs a read beyond a body, or beyond a table, is an outcome of its
  own (`"wild"`), as is the use of a variable byte integer that does not fit
  four bytes. The scalars of a C packet that no packet of its type uses are left
  out, and so is the memory that a refused packet keeps.
* In `MqttSnLink` the reader delivers all it is asked for or fails, and the
  receiver gives up after an error.
* In `TcpTransfer` what arrives is the parser's matter and descriptor numbers
  are arbitrary.
* In `KeepAlive` a turn may have length zero, and `Width` is small: the sizes that
  matter are those of the thresholds to the steps of the clock. The theorems
  leave both open.

### Not modelled

* `libhttp.h`: nothing of the repository is built with it. It keeps one request,
  put together by the callbacks of the vendored `http_parser`, and only that
  parser's state machine would say in which order they come.
* `http_parser.[ch]` and `web/`: third-party code and a static page.
* `base64.h`, `urlcode.h`: included by no program; pure functions of one buffer,
  which a unit test reaches as well as a model does.
* The JSON and text output of a measurement: formatting of twelve numbers.
* `mqtt_cli_create` puts a configuration into memory; `mqtt_cli_destroy` follows
  an endless loop in `pms5003st_pub.c`. What a configuration makes of CONNECT is
  in the model of the codec.
* The settings of the serial line in `uart_open`, and `uart_write`, which no
  program calls.
* The `*.deprecated` programs, which are not built.

## 6. Plan

Done, in this order: the engine with its loop and its first proofs; the race on
the queue; the parser; the sensor thread; the codec and MQTT-SN; TCP; the clock;
then the proofs of the engine's bookkeeping, of TCP, of the clock and of the
parser; those of the race on the queue, of the order of an exchange's packets
along the line, and of the buffers of MQTT-SN; of the division of a stream into
chunks, of the buffers and lengths of MQTT, and of what damage costs the sensor's
reader.

Left, in order of use:

1. `MqttClient` over `PaddingRace`: what a lost CONNECT, or a lost PUBLISH, costs
   a session.
2. `libhttp.h`, if a program comes to use it.
