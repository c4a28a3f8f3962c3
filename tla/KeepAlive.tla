------------------------------- MODULE KeepAlive -------------------------------
(***************************************************************************)
(* The clock of the client engine: m->t and _check_keepalive of mqtt_cli.h *)
(* in the main loop of pms5003st_pub.c.  A turn is timed by two looks at   *)
(* the wall clock, which somebody may set while it lasts; m->t.now is the  *)
(* sum of the turns, in unsigned arithmetic, and stands still while there  *)
(* is no connection.  The broker may fall silent without closing the       *)
(* connection.  Of the queue only the kinds of packets in it are kept.     *)
(***************************************************************************)
EXTENDS Integers

CONSTANTS
  Width,      \* number of values of a time stamp (2^64)
  KeepAlive,  \* m->keep_alive
  MaxTurn,    \* longest time one turn of the main loop takes
  Patience,   \* longest time the broker takes to answer a PINGREQ
  Periods,    \* how often the sensor thread publishes at least; 0: it may
              \* stop
  Shifts,     \* by how much the wall clock is set, 0 among them
  MaxSteps,   \* bound: times it is set
  MaxBreaks   \* bound: connections that end for another reason

ASSUME ClockAssumption ==
  /\ KeepAlive \in Nat \ {0} /\ MaxTurn \in Nat /\ Patience \in Nat /\ Periods \subseteq Nat
  /\ Patience + MaxTurn <= KeepAlive
  /\ Shifts \subseteq Int /\ 0 \in Shifts
  /\ Width \in Nat /\ Width > 2 * (KeepAlive + MaxTurn)
  /\ \A s \in Shifts : -Width < s /\ s + KeepAlive + MaxTurn < Width
  /\ MaxSteps \in Nat /\ MaxBreaks \in Nat

VARIABLES
  period,           \* one of Periods
  now, ping, send,  \* m->t
  padding,          \* the kinds of packets m->padding holds, none sent yet
  pc,               \* "offline", "outgoing", "transfer", "incoming", "elapsed"
  out,              \* the kinds in `outgoing'
  took,             \* how long this turn has lasted
  pong,             \* `incoming' holds a PINGRESP
  asked,            \* how long the broker has had a PINGREQ, or NotAsked
  silent,           \* the broker does not answer any more
  quiet,            \* time since the last call of mqtt_cli_publish
  since,            \* history: how long it could have been noticed
  skipped,          \* history: in that time, m->t.ping was set at time 0
  back,             \* history: how far the clock was set back by then
  alarms, steps, breaks   \* histories and bounds

engine  == <<now, ping, send, padding>>
network == <<asked, silent>>
count   == <<since, skipped, back>>
history == <<alarms, steps, breaks>>
vars    == <<period, engine, pc, out, took, pong, network, quiet, count, history>>

Kinds    == {"CONNECT", "PINGREQ", "PUBLISH"}
NotAsked == -1
Stamps   == 0..(Width - 1)

(* Unsigned arithmetic.                                                    *)
Plus(a, d) ==
  IF a + d >= Width THEN a + d - Width ELSE IF a + d < 0 THEN a + d + Width ELSE a + d
Minus(a, b) == IF a >= b THEN a - b ELSE a - b + Width

Init ==
  /\ period \in Periods
  /\ now = 0 /\ ping = 0 /\ send = 0 /\ padding = {}
  /\ pc = "offline" /\ out = {} /\ took = 0 /\ pong = FALSE
  /\ asked = NotAsked /\ silent = FALSE /\ quiet = 0
  /\ since = 0 /\ skipped = 0 /\ back = 0 /\ alarms = 0 /\ steps = 0 /\ breaks = 0
-----------------------------------------------------------------------------
(* mqtt_cli_publish, by the sensor thread, at any moment.                  *)
Publish ==
  /\ padding' = padding \union {"PUBLISH"} /\ quiet' = 0
  /\ UNCHANGED <<period, now, ping, send, pc, out, took, pong, network, count, history>>

(* linux_tcp_connect succeeds, mqtt_cli_connect.  Packets that stand       *)
(* before CONNECT in the queue make the broker close the connection; until *)
(* then it does not answer.                                                *)
Connect ==
  /\ pc = "offline"
  /\ pc' = "outgoing" /\ padding' = padding \union {"CONNECT"}
  /\ silent' = (padding # {}) /\ asked' = NotAsked
  /\ since' = 0 /\ skipped' = 0 /\ back' = 0
  /\ UNCHANGED <<period, now, ping, send, out, took, pong, quiet, history>>

(* mqtt_cli_outgoing.                                                      *)
(* Mutant: m->t.send is left alone.                                        *)
OutgoingUntimed ==
  /\ pc = "outgoing"
  /\ pc' = "transfer" /\ out' = padding /\ padding' = {}
  /\ UNCHANGED <<period, now, ping, send, took, pong, network, quiet, count, history>>

Outgoing ==
  /\ pc = "outgoing"
  /\ pc' = "transfer" /\ out' = padding /\ padding' = {}
  /\ send' = IF padding = {} THEN send ELSE now
  /\ UNCHANGED <<period, now, ping, took, pong, network, quiet, count, history>>

(* linux_tcp_transfer takes a time d: the batch goes out, an answer may    *)
(* come in.  Something sent other than a PINGREQ puts the next ping off.   *)
Asked == IF "PINGREQ" \in out /\ ~silent THEN 0 ELSE asked

Transfer(d) ==
  /\ pc = "transfer" /\ (period > 0 => quiet + d <= period)
  /\ pc' = "incoming" /\ out' = {} /\ took' = d
  /\ quiet' = IF period > 0 THEN quiet + d ELSE 0
  /\ pong' \in BOOLEAN
  /\ pong' => Asked # NotAsked
  /\ Asked # NotAsked /\ ~silent /\ ~pong' => Asked + d <= Patience
  /\ asked' = IF Asked = NotAsked \/ pong' \/ silent THEN NotAsked ELSE Asked + d
  /\ IF out \subseteq {"PINGREQ"}
     THEN since' = (IF silent THEN since + d ELSE 0) /\ UNCHANGED <<skipped, back>>
     ELSE since' = (IF silent THEN d ELSE 0) /\ skipped' = 0 /\ back' = 0
  /\ UNCHANGED <<period, engine, silent, history>>

(* mqtt_cli_incoming, as far as the clock is concerned.                    *)
Incoming ==
  /\ pc = "incoming"
  /\ pc' = "elapsed" /\ pong' = FALSE
  /\ ping' = IF pong THEN 0 ELSE ping
  /\ UNCHANGED <<period, now, send, padding, out, took, network, quiet, count, history>>
-----------------------------------------------------------------------------
(* mqtt_cli_elapsed with t2 - t1, the wall clock having been set by s, and *)
(* _check_keepalive.                                                       *)
(* Mutants: an answer is awaited for twice the time; m->t.ping survives.   *)
PingLostLate(t) == ping > 0 /\ Minus(t, ping) > 2 * KeepAlive

PingLost(t) == ping > 0 /\ Minus(t, ping) > KeepAlive
PingDue(t)  == ping = 0 /\ Minus(t, send) >= KeepAlive

(* A step of the clock starts the count anew.                              *)
Noted(s, skip) ==
  /\ steps' = IF s = 0 THEN steps ELSE steps + 1
  /\ since' = IF s = 0 THEN since ELSE 0
  /\ skipped' = IF skip THEN 1 ELSE IF s = 0 THEN skipped ELSE 0
  /\ back' = IF s < 0 THEN back - s ELSE back

ElapsedLostKeeps(s) ==
  LET t == Plus(now, took + s) IN
  /\ pc = "elapsed" /\ (s # 0 => steps < MaxSteps)
  /\ PingLost(t)
  /\ now' = t /\ ping' = ping /\ took' = 0 /\ pc' = "offline"
  /\ alarms' = IF silent THEN alarms ELSE alarms + 1
  /\ Noted(s, FALSE)
  /\ UNCHANGED <<period, send, padding, out, pong, network, quiet, breaks>>

ElapsedLost(s) ==
  LET t == Plus(now, took + s) IN
  /\ pc = "elapsed" /\ (s # 0 => steps < MaxSteps)
  /\ PingLost(t)
  /\ now' = t /\ ping' = 0 /\ took' = 0 /\ pc' = "offline"
  /\ alarms' = IF silent THEN alarms ELSE alarms + 1
  /\ Noted(s, FALSE)
  /\ UNCHANGED <<period, send, padding, out, pong, network, quiet, breaks>>

ElapsedDue(s) ==
  LET t == Plus(now, took + s) IN
  /\ pc = "elapsed" /\ (s # 0 => steps < MaxSteps)
  /\ ~PingLost(t) /\ PingDue(t)
  /\ now' = t /\ ping' = t /\ took' = 0 /\ pc' = "outgoing"
  /\ padding' = padding \union {"PINGREQ"}
  /\ Noted(s, t = 0)
  /\ UNCHANGED <<period, send, out, pong, network, quiet, alarms, breaks>>

ElapsedOther(s) ==
  LET t == Plus(now, took + s) IN
  /\ pc = "elapsed" /\ (s # 0 => steps < MaxSteps)
  /\ ~PingLost(t) /\ ~PingDue(t)
  /\ now' = t /\ took' = 0 /\ pc' = "outgoing"
  /\ Noted(s, FALSE)
  /\ UNCHANGED <<period, ping, send, padding, out, pong, network, quiet, alarms, breaks>>

(* linux_tcp_transfer, mqtt_cli_incoming or _check_padding ends the        *)
(* connection; what was in the batch is gone.                              *)
Break ==
  /\ pc \in {"transfer", "incoming", "elapsed"} /\ breaks < MaxBreaks
  /\ pc' = "offline" /\ out' = {} /\ took' = 0 /\ pong' = FALSE
  /\ breaks' = breaks + 1
  /\ UNCHANGED <<period, engine, network, quiet, count, alarms, steps>>

(* The broker's host goes away without a word.                             *)
Silence ==
  /\ pc # "offline" /\ ~silent
  /\ silent' = TRUE /\ since' = 0 /\ skipped' = 0
  /\ UNCHANGED <<period, engine, pc, out, took, pong, asked, quiet, back, history>>

Next ==
  \/ Publish \/ Connect \/ Outgoing \/ (\E d \in 0..MaxTurn : Transfer(d)) \/ Incoming
  \/ (\E s \in Shifts : ElapsedLost(s) \/ ElapsedDue(s) \/ ElapsedOther(s))
  \/ Break \/ Silence

Spec == Init /\ [][Next]_vars
-----------------------------------------------------------------------------
(* Every variable is in its domain.                                        *)
TypeOK ==
  /\ period \in Periods
  /\ now \in Stamps /\ ping \in Stamps /\ send \in Stamps /\ padding \subseteq Kinds
  /\ pc \in {"offline", "outgoing", "transfer", "incoming", "elapsed"}
  /\ out \subseteq Kinds /\ took \in 0..MaxTurn /\ pong \in BOOLEAN
  /\ asked \in {NotAsked} \union 0..Patience /\ silent \in BOOLEAN
  /\ quiet \in 0..period /\ since \in Nat /\ skipped \in 0..1 /\ back \in Nat
  /\ alarms \in Nat /\ steps \in 0..MaxSteps /\ breaks \in 0..MaxBreaks

(* A broker that falls silent is noticed within two keep-alives and two    *)
(* turns, counted from the last packet sent other than a PINGREQ or the    *)
(* last time the clock was set.  It takes longer only by what the clock    *)
(* was set back, and by one keep-alive and one turn if m->t.now happened   *)
(* to be 0 when the PINGREQ was queued: m->t.ping = 0 means that none is.  *)
SilenceNoticed ==
  pc # "offline" => since < (2 + skipped) * (KeepAlive + MaxTurn) + back

(* A connection to a broker that answers is given up for a missing answer  *)
(* only after the clock was set or another connection was lost while a     *)
(* ping was awaited, once each: t2 - t1 below zero, or a jump, costs one   *)
(* connection and does not leave m->t in a state that costs another.       *)
FalseAlarms == alarms <= steps + breaks

(* A publisher that is busier than the keep-alive never pings, so nothing  *)
(* but the kernel tells it that the broker is gone: what it publishes is   *)
(* lost without a word (_check_keepalive looks at what was sent only).     *)
BusyNeverPings ==
  period > 0 /\ period + MaxTurn < KeepAlive /\ steps = 0 => "PINGREQ" \notin padding \union out
=============================================================================
