----------------------------- MODULE SensorReader -----------------------------
(***************************************************************************)
(* The sensor thread of pms5003st_pub.c: uart_open, pms5003st_read over    *)
(* uart_read, mqtt_cli_publish and three seconds of sleep, for ever, on a  *)
(* serial line whose bytes may be damaged and whose input buffer in the    *)
(* kernel is finite.                                                       *)
(*                                                                         *)
(* pms5003st_read takes a frame in five calls of uart_read: the two start  *)
(* bytes, the length, the words and the checksum.  Whatever is wrong, it   *)
(* forgets the bytes it has and starts again with the next one.  Its       *)
(* position is therefore the bytes of the frame it has so far, those of an *)
(* unfinished call of uart_read included.                                  *)
(***************************************************************************)
EXTENDS Integers, Sequences, FiniteSets, SequencesExt, FiniteSetsExt

CONSTANTS
  Words,      \* 16-bit words in a frame (17)
  Readings,   \* what the sensor measures: Readings[n] is the n-th frame's
              \* words, as bytes
  Noise,      \* the bytes a damaged or additional byte may have
  BufferSize, \* bytes the kernel keeps for the port
  MaxFaults   \* bound: damaged frames

Byte == 0..255

ASSUME FrameAssumption ==
  /\ Words \in Nat /\ Words > 0 /\ 2 * Words + 2 < 256
  /\ Readings \in Seq([1..(2 * Words) -> Byte])
  /\ Noise \subseteq Byte
  /\ BufferSize \in Nat /\ MaxFaults \in Nat

VARIABLES
  line,       \* the kernel's input buffer of the port
  gone,       \* the port the thread has open has been removed
  pc,         \* where the thread is: "open", "read", "sleep"
  frame,      \* bytes of the current frame that the reader has consumed
  published,  \* the readings handed to mqtt_cli_publish
  sent,       \* history: frames the sensor has sent
  intact,     \* history: those that reached the buffer whole and alone, and
              \* were not dropped from it
  origin,     \* history: for each byte of line, the frame it was sent in and,
              \* if that is intact, its place there, else 0
  faults      \* the bound's counter

vars == <<line, gone, pc, frame, published, sent, intact, origin, faults>>

Frames == 1..Len(Readings)

START1 == 66   \* 0x42
START2 == 77   \* 0x4d

Sum(bytes) ==
  LET total[k \in 0..Len(bytes)] == IF k = 0 THEN 0 ELSE total[k - 1] + bytes[k]
  IN total[Len(bytes)] % 65536

Word(n) == <<n \div 256, n % 256>>

(* The frame that carries these bytes of data, as the sensor builds it.    *)
Head4 == <<START1, START2>> \o Word(2 * Words + 2)
Frame(data) == Head4 \o data \o Word(Sum(Head4 \o data))
Encoded == [n \in Frames |-> Frame(Readings[n])]

-----------------------------------------------------------------------------
(* pms5003st_read.                                                         *)

(* The lengths of the frame at which a call of uart_read ends.             *)
Stops == {1, 2, 4, 4 + 2 * Words, 6 + 2 * Words}

Whole == 6 + 2 * Words

(* The argument len of the current call of uart_read.                      *)
Wanted == Min({n \in Stops : n > Len(frame)}) - Len(frame)

Data(f) == SubSeq(f, 5, 4 + 2 * Words)

(* The comparison that follows the call that ends at this length.          *)
(* Mutant: the sum is not compared.                                        *)
AcceptableUnchecked(f) ==
  /\ Len(f) = 1 => f[1] = START1
  /\ Len(f) = 2 => f[2] = START2
  /\ Len(f) = 4 => <<f[3], f[4]>> = Word(2 * Words + 2)

Acceptable(f) ==
  /\ Len(f) = 1 => f[1] = START1
  /\ Len(f) = 2 => f[2] = START2
  /\ Len(f) = 4 => <<f[3], f[4]>> = Word(2 * Words + 2)
  /\ Len(f) = Whole => <<f[Whole - 1], f[Whole]>> = Word(Sum(SubSeq(f, 1, Whole - 2)))
-----------------------------------------------------------------------------
Init ==
  /\ line = <<>> /\ gone = FALSE
  /\ pc = "open" /\ frame = <<>> /\ published = <<>>
  /\ sent = 0 /\ intact = {} /\ origin = <<>> /\ faults = 0

(* Bytes of the next frame that find the buffer full are lost.             *)
Arrive(bytes, whole) ==
  LET kept == SubSeq(bytes, 1, Min({Len(bytes), BufferSize - Len(line)})) IN
  /\ line' = line \o kept
  /\ origin' = origin \o [k \in 1..Len(kept) |->
                            [of |-> sent + 1, at |-> IF whole THEN k ELSE 0]]

(* uart_open succeeds and flushes the input.  The sensor may be in the     *)
(* middle of a frame, whose rest then comes in.  A failure is retried      *)
(* after a second and changes nothing.                                     *)
Open ==
  /\ pc = "open" /\ ~gone
  /\ pc' = "read"
  /\ \/ line' = <<>> /\ origin' = <<>> /\ sent' = sent
     \/ /\ sent < Len(Readings)
        /\ sent' = sent + 1
        /\ \E k \in 2..Whole : Arrive(SubSeq(Encoded[sent + 1], k, Whole), FALSE)
  /\ UNCHANGED <<gone, frame, published, intact, faults>>

(* uart_read has n more bytes of the line: the call goes on, or it is done *)
(* and pms5003st_read starts again, goes on, or returns a reading that is  *)
(* printed and published.                                                  *)
(* Mutants: what came before a bad call is kept; the frame that was        *)
(* returned is kept; the input is flushed when a frame is bad.             *)
ConsumeKeeps(n) ==
  LET f == frame \o SubSeq(line, 1, n) IN
  /\ line' = SubSeq(line, n + 1, Len(line)) /\ origin' = SubSeq(origin, n + 1, Len(origin))
  /\ frame' = CASE Len(f) = Whole -> <<>> [] Acceptable(f) -> f [] OTHER -> frame
  /\ IF Acceptable(f) /\ Len(f) = Whole
     THEN published' = Append(published, Data(f)) /\ pc' = "sleep"
     ELSE UNCHANGED <<published, pc>>
ConsumeNoReset(n) ==
  LET f == frame \o SubSeq(line, 1, n) IN
  /\ line' = SubSeq(line, n + 1, Len(line)) /\ origin' = SubSeq(origin, n + 1, Len(origin))
  /\ frame' = IF Acceptable(f) THEN f ELSE <<>>
  /\ IF Acceptable(f) /\ Len(f) = Whole
     THEN published' = Append(published, Data(f)) /\ pc' = "sleep"
     ELSE UNCHANGED <<published, pc>>
ConsumeFlushes(n) ==
  LET f == frame \o SubSeq(line, 1, n) IN
  /\ line' = IF Acceptable(f) THEN SubSeq(line, n + 1, Len(line)) ELSE <<>>
  /\ origin' = IF Acceptable(f) THEN SubSeq(origin, n + 1, Len(origin)) ELSE <<>>
  /\ frame' = IF Acceptable(f) /\ Len(f) < Whole THEN f ELSE <<>>
  /\ IF Acceptable(f) /\ Len(f) = Whole
     THEN published' = Append(published, Data(f)) /\ pc' = "sleep"
     ELSE UNCHANGED <<published, pc>>

Consume(n) ==
  LET f == frame \o SubSeq(line, 1, n) IN
  /\ line' = SubSeq(line, n + 1, Len(line)) /\ origin' = SubSeq(origin, n + 1, Len(origin))
  /\ frame' = IF Acceptable(f) /\ Len(f) < Whole THEN f ELSE <<>>
  /\ IF Acceptable(f) /\ Len(f) = Whole
     THEN published' = Append(published, Data(f)) /\ pc' = "sleep"
     ELSE UNCHANGED <<published, pc>>

Read ==
  /\ pc = "read" /\ line # <<>>
  /\ Consume(Min({Wanted, Len(line)}))
  /\ UNCHANGED <<gone, sent, intact, faults>>

(* The port is gone: uart_read returns an error, or fewer bytes than it    *)
(* was asked for, and pms5003st_read starts again.                         *)
ReadFails ==
  /\ pc = "read" /\ gone /\ line = <<>>
  /\ frame' = <<>>
  /\ UNCHANGED <<line, gone, pc, published, sent, intact, origin, faults>>

(* sleep(3) ends.                                                          *)
Wake ==
  /\ pc = "sleep"
  /\ pc' = "read"
  /\ UNCHANGED <<line, gone, frame, published, sent, intact, origin, faults>>
-----------------------------------------------------------------------------
(* The sensor and the line.                                                *)

SensorSends ==
  /\ pc # "open" /\ ~gone /\ sent < Len(Readings)
  /\ sent' = sent + 1
  /\ LET whole == Len(line) + Whole <= BufferSize IN
     /\ Arrive(Encoded[sent + 1], whole)
     /\ intact' = IF whole THEN intact \cup {sent + 1} ELSE intact
  /\ UNCHANGED <<gone, pc, frame, published, faults>>

Without(f, k, n) == SubSeq(f, 1, k - 1) \o SubSeq(f, k + n, Len(f))

(* Bytes in a row are lost, on the way or in a full buffer that the reader *)
(* drains meanwhile, or one is changed, or one too many.                   *)
Damaged(f) ==
  {Without(f, k, n) : k \in DOMAIN f, n \in DOMAIN f}
  \cup {[f EXCEPT ![k] = b] : k \in DOMAIN f, b \in Noise}
  \cup {<<b>> \o f : b \in Noise}

LineDamages ==
  /\ pc # "open" /\ ~gone /\ sent < Len(Readings) /\ faults < MaxFaults
  /\ faults' = faults + 1
  /\ sent' = sent + 1
  /\ \E bytes \in Damaged(Encoded[sent + 1]) : Arrive(bytes, FALSE)
  /\ UNCHANGED <<gone, pc, frame, published, intact>>

(* The frames of which there are bytes in the buffer.                      *)
InLine == {origin[i].of : i \in DOMAIN origin}

(* The port is removed; what it has buffered may be lost.                  *)
Unplug ==
  /\ pc # "open" /\ ~gone
  /\ gone' = TRUE
  /\ \/ UNCHANGED <<line, origin, intact>>
     \/ line' = <<>> /\ origin' = <<>> /\ intact' = intact \ InLine
  /\ UNCHANGED <<pc, frame, published, sent, faults>>

Next ==
  \/ Open \/ Read \/ ReadFails \/ Wake
  \/ SensorSends \/ LineDamages \/ Unplug

Spec == Init /\ [][Next]_vars

(* The thread runs; bytes that are there are read.                         *)
FairSpec == Spec /\ WF_vars(Read) /\ WF_vars(Wake)
-----------------------------------------------------------------------------
(* Every variable is in its domain; a frame under way is never whole, and  *)
(* the kernel's buffer never exceeds its size.                             *)
TypeOK ==
  /\ line \in Seq(Byte) /\ Len(line) <= BufferSize
  /\ gone \in BOOLEAN
  /\ pc \in {"open", "read", "sleep"}
  /\ frame \in Seq(Byte) /\ Len(frame) < Whole
  /\ published \in Seq([1..(2 * Words) -> Byte])
  /\ sent \in 0..Len(Readings)
  /\ intact \subseteq 1..sent /\ faults \in 0..MaxFaults
  /\ origin \in Seq([of : 1..sent, at : 0..Whole]) /\ Len(origin) = Len(line)

(* The frames that published[j] may come from.                             *)
Source(j) == {n \in 1..sent : Readings[n] = published[j]}

(* What is published was measured: every reading published is one the      *)
(* sensor has sent, and (for readings that differ, so that they tell the   *)
(* frames apart) each is published once, in the order in which they were   *)
(* sent, whatever was lost, changed or added on the line (the length and   *)
(* checksum comparisons of pms5003st_read).                                *)
Genuine ==
  /\ \A j \in DOMAIN published : Source(j) # {}
  /\ \A i, j \in DOMAIN published : i < j =>
       \A a \in Source(i), b \in Source(j) : a < b

(* No byte of the frame but its first can be taken for a start byte.       *)
Clear(n) == \A k \in 2..Whole : Encoded[n][k] # START1

Published(n) == \E j \in DOMAIN published : published[j] = Readings[n]

(* Frames the reader still owes: intact, not published, and directly after *)
(* an intact frame that is clear.                                          *)
Owed == {n \in Frames \ {1} : /\ {n - 1, n} \subseteq intact /\ Clear(n - 1)
                              /\ ~Published(n) /\ ~gone}

(* The reader finds the frames again after any damage: of two intact       *)
(* frames in a row the second is published, unless a byte of the first can *)
(* be taken for a start byte (pms5003st_read, which forgets the bytes of a *)
(* bad frame, a second 0x42 included, and starts again with the next one). *)
Resyncs == Owed # {} ~> Owed = {}

(* An intact frame is only ever missed, read to its end and not published, *)
(* because of what comes just before it: each damaged frame, the one cut   *)
(* by uart_open, and each intact one with a byte that can be taken for a   *)
(* start byte, costs one later intact frame at most.                       *)
Missed == {n \in intact : ~Published(n) /\ n \notin InLine}

LossBounded ==
  Cardinality(Missed) <=
    Cardinality({n \in 1..sent : (n \notin intact \/ ~Clear(n)) /\ \E m \in Missed : n < m})
=============================================================================
