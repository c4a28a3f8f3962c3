---------------------------- MODULE KeepAliveProofs ----------------------------
(***************************************************************************)
(* Proofs about KeepAlive, for every keep-alive, length of a turn, width   *)
(* of a time stamp and setting of the wall clock.                          *)
(***************************************************************************)
EXTENDS KeepAlive, TLAPS

K      == KeepAlive + MaxTurn
Age(x) == Minus(now, x)

(* took is the time that m->t.now does not have yet.                       *)
PcInv ==
  /\ pc \in {"offline", "outgoing", "transfer"} => took = 0
  /\ pong => pc = "incoming" /\ asked = NotAsked
  /\ pc # "transfer" => out = {}
  /\ "PINGREQ" \in padding => pc \in {"offline", "outgoing"}

(* The PINGREQ that m->t.ping stands for is on its way, in the queue, in   *)
(* the batch or with the broker, and m->t.now agrees with the time the     *)
(* broker has had it; or an answer has come.                               *)
Awaited ==
  CASE pc = "outgoing" -> IF "PINGREQ" \in padding THEN now = ping
                          ELSE asked # NotAsked /\ Age(ping) = asked
    [] pc = "transfer" -> IF "PINGREQ" \in out THEN now = ping
                          ELSE asked # NotAsked /\ Age(ping) = asked
    [] OTHER           -> pong \/ (asked # NotAsked /\ Age(ping) + took = asked)

(* Otherwise nobody will answer it: one alarm is due.                      *)
Stale ==
  /\ ping # 0
  /\ pc = "offline" \/ (~silent /\ ~Awaited)

AlarmInv ==
  /\ alarms <= steps + breaks
  /\ Stale => alarms + 1 <= steps + breaks

AInv == TypeOK /\ PcInv /\ AlarmInv
-----------------------------------------------------------------------------
(* The constants as numbers.                                               *)
LEMMA Numeric ==
  /\ KeepAlive \in Nat /\ KeepAlive > 0 /\ MaxTurn \in Nat /\ Patience \in Nat
  /\ Periods \subseteq Nat /\ Patience + MaxTurn <= KeepAlive
  /\ Width \in Nat /\ Width > KeepAlive + MaxTurn + KeepAlive + MaxTurn
  /\ MaxSteps \in Nat /\ MaxBreaks \in Nat
BY ClockAssumption

(* Unsigned arithmetic stays in range.                                     *)
LEMMA StampArithmetic ==
  ASSUME NEW a \in Stamps, NEW b \in Stamps, NEW d \in 0..MaxTurn, NEW s \in Shifts
  PROVE  Plus(a, d + s) \in Stamps /\ Minus(a, b) \in Stamps
BY ClockAssumption DEF Plus, Minus, Stamps

LEMMA NextType ==
  ASSUME TypeOK, [Next]_vars
  PROVE  TypeOK'
<1> USE Numeric DEF TypeOK, Kinds
<1>1. CASE Publish  BY <1>1 DEF Publish, network, count, history
<1>2. CASE Connect  BY <1>2 DEF Connect, history, NotAsked
<1>3. CASE Outgoing  BY <1>3 DEF Outgoing, network, count, history
<1>4. ASSUME NEW d \in 0..MaxTurn, Transfer(d) PROVE TypeOK'
  <2>1. Asked \in {NotAsked} \union 0..Patience  BY DEF Asked
  <2>2. asked' \in {NotAsked} \union 0..Patience
    BY <1>4, <2>1 DEF Transfer, NotAsked
  <2>3. quiet' \in 0..period' /\ period' = period  BY <1>4 DEF Transfer
  <2>4. since' \in Nat /\ skipped' \in 0..1 /\ back' \in Nat
    BY <1>4 DEF Transfer
  <2>5. /\ pc' = "incoming" /\ out' = {} /\ took' = d /\ pong' \in BOOLEAN
        /\ UNCHANGED <<period, engine, silent, history>>
    BY <1>4 DEF Transfer
  <2> QED  BY <2>2, <2>3, <2>4, <2>5 DEF engine, history
<1>5. CASE Incoming
  <2>1. 0 \in Stamps  BY DEF Stamps
  <2>2. ping' \in Stamps  BY <1>5, <2>1 DEF Incoming
  <2>3. /\ pc' = "elapsed" /\ pong' = FALSE
        /\ UNCHANGED <<period, now, send, padding, out, took, network, quiet, count, history>>
    BY <1>5 DEF Incoming
  <2> QED  BY <2>2, <2>3 DEF network, count, history
<1>6. ASSUME NEW s \in Shifts, ElapsedLost(s) \/ ElapsedDue(s) \/ ElapsedOther(s) PROVE TypeOK'
  <2>1. Plus(now, took + s) \in Stamps /\ 0 \in Stamps  BY StampArithmetic DEF Stamps
  <2>a. s \in Int /\ (s # 0 => steps < MaxSteps) /\ \E b \in BOOLEAN : Noted(s, b)
    BY <1>6, ClockAssumption DEF ElapsedLost, ElapsedDue, ElapsedOther
  <2>2. /\ steps' \in 0..MaxSteps /\ since' \in Nat /\ skipped' \in 0..1 /\ back' \in Nat
    BY <2>a DEF Noted
  <2> HIDE DEF Plus, Minus, Stamps
  <2>3. CASE ElapsedLost(s)
    <3>1. /\ now' \in Stamps /\ ping' = 0 /\ took' = 0 /\ pc' = "offline"
          /\ UNCHANGED <<period, send, padding, out, pong, asked, silent, quiet, breaks>>
      BY <2>1, <2>3 DEF ElapsedLost, network
    <3>2. alarms' \in Nat  BY <2>3 DEF ElapsedLost
    <3> QED  BY <2>1, <2>2, <3>1, <3>2
  <2>4. CASE ElapsedDue(s)
    <3>1. /\ now' \in Stamps /\ ping' = now' /\ took' = 0 /\ pc' = "outgoing"
          /\ padding' \subseteq Kinds
          /\ UNCHANGED <<period, send, out, pong, asked, silent, quiet, alarms, breaks>>
      BY <2>1, <2>4 DEF ElapsedDue, network
    <3> QED  BY <2>2, <3>1
  <2>5. CASE ElapsedOther(s)
    <3>1. /\ now' \in Stamps /\ took' = 0 /\ pc' = "outgoing"
          /\ UNCHANGED <<period, ping, send, padding, out, pong, asked, silent, quiet, alarms, breaks>>
      BY <2>1, <2>5 DEF ElapsedOther, network
    <3> QED  BY <2>2, <3>1
  <2> QED  BY <1>6, <2>3, <2>4, <2>5
<1>7. CASE Break
  <2>1. breaks' \in 0..MaxBreaks /\ took' \in 0..MaxTurn  BY <1>7 DEF Break
  <2>2. /\ pc' = "offline" /\ out' = {} /\ pong' = FALSE
        /\ UNCHANGED <<period, engine, network, quiet, count, alarms, steps>>
    BY <1>7 DEF Break
  <2> QED  BY <2>1, <2>2 DEF engine, network, count
<1>8. CASE Silence  BY <1>8 DEF Silence, engine, history
<1>9. CASE UNCHANGED vars  BY <1>9 DEF vars, engine, network, count, history
<1> QED  BY <1>1, <1>2, <1>3, <1>4, <1>5, <1>6, <1>7, <1>8, <1>9 DEF Next

LEMMA NextPc ==
  ASSUME TypeOK, PcInv, [Next]_vars
  PROVE  PcInv'
<1> USE DEF TypeOK, PcInv
<1>1. CASE Publish  BY <1>1 DEF Publish, network
<1>2. CASE Connect  BY <1>2 DEF Connect
<1>3. CASE Outgoing  BY <1>3 DEF Outgoing, network
<1>4. ASSUME NEW d \in 0..MaxTurn, Transfer(d) PROVE PcInv'
  BY <1>4 DEF Transfer, engine
<1>5. CASE Incoming  BY <1>5 DEF Incoming, network
<1>6. ASSUME NEW s \in Shifts, ElapsedLost(s) \/ ElapsedDue(s) \/ ElapsedOther(s) PROVE PcInv'
  <2>1. pc = "elapsed" /\ pc' \in {"offline", "outgoing"} /\ took' = 0
    BY <1>6 DEF ElapsedLost, ElapsedDue, ElapsedOther
  <2>2. pong' = pong /\ out' = out
    BY <1>6 DEF ElapsedLost, ElapsedDue, ElapsedOther
  <2> QED  BY <2>1, <2>2
<1>7. CASE Break  BY <1>7 DEF Break, engine, network
<1>8. CASE Silence  BY <1>8 DEF Silence, engine
<1>9. CASE UNCHANGED vars  BY <1>9 DEF vars, engine, network
<1> QED  BY <1>1, <1>2, <1>3, <1>4, <1>5, <1>6, <1>7, <1>8, <1>9 DEF Next

LEMMA AgeIsNat ==
  ASSUME NEW a \in Stamps, NEW b \in Stamps
  PROVE  Minus(a, b) \in Nat
BY Numeric DEF Minus, Stamps

LEMMA AgeOfNow ==
  ASSUME NEW a \in Stamps
  PROVE  Minus(a, a) = 0
BY Numeric DEF Minus, Stamps

(* A look at the clock adds the turn to the age of a stamp.                *)
LEMMA AgeGrows ==
  ASSUME NEW a \in Stamps, NEW b \in Stamps, NEW d \in 0..MaxTurn, Minus(a, b) + d < Width
  PROVE  Minus(Plus(a, d), b) = Minus(a, b) + d
BY Numeric DEF Plus, Minus, Stamps

LEMMA NextAlarm ==
  ASSUME AInv, [Next]_vars
  PROVE  AlarmInv'
<1> USE DEF AlarmInv
<1>t. /\ alarms \in Nat /\ steps \in Nat /\ breaks \in Nat /\ silent \in BOOLEAN /\ pong \in BOOLEAN
      /\ now \in Stamps /\ ping \in Stamps /\ took \in 0..MaxTurn
      /\ asked \in {NotAsked} \union 0..Patience
  BY Numeric DEF AInv, TypeOK
<1>p. PcInv  BY DEF AInv
<1>a. alarms <= steps + breaks /\ (Stale => alarms + 1 <= steps + breaks)  BY DEF AInv
(* A step that leaves the counts alone and makes no ping stale.            *)
<1>0. ASSUME UNCHANGED <<period, alarms, steps, breaks>>, Stale' => Stale
      PROVE  AlarmInv'
  BY <1>0, <1>a
<1>1. CASE Publish
  <2>1. Stale' => Stale  BY <1>1 DEF Publish, Stale, Awaited, Age, network
  <2> QED  BY <1>1, <2>1, <1>0 DEF Publish, history
<1>2. CASE Connect
  <2>1. Stale' => Stale  BY <1>2 DEF Connect, Stale
  <2> QED  BY <1>2, <2>1, <1>0 DEF Connect, history
<1>3. CASE Outgoing
  <2>1. Stale' => Stale  BY <1>3 DEF Outgoing, Stale, Awaited, Age, network
  <2> QED  BY <1>3, <2>1, <1>0 DEF Outgoing, history
<1>4. ASSUME NEW d \in 0..MaxTurn, Transfer(d) PROVE AlarmInv'
  <2>1. ASSUME Stale' PROVE Stale
    <3>1. /\ pc = "transfer" /\ pc' = "incoming" /\ took' = d
          /\ now' = now /\ ping' = ping /\ silent' = silent
          /\ (Asked = NotAsked \/ pong' \/ silent) \/ asked' = Asked + d
          /\ pong' => Asked # NotAsked
      BY <1>4 DEF Transfer, engine
    <3>2. ping # 0 /\ ~silent /\ ~Awaited'  BY <2>1, <3>1 DEF Stale
    <3>3. ~pong' /\ (asked' = NotAsked \/ Age(ping) + d # asked')
      BY <3>1, <3>2 DEF Awaited, Age
    <3>4. ASSUME Awaited PROVE FALSE
      <4>1. CASE "PINGREQ" \in out
        <5>1. now = ping  BY <3>1, <3>4, <4>1 DEF Awaited
        <5>2. Age(ping) = 0  BY <5>1, <1>t DEF Age, Minus, Stamps
        <5>3. Asked = 0  BY <4>1, <3>2 DEF Asked
        <5>4. asked' = d  BY <5>3, <3>1, <3>2, <3>3 DEF NotAsked
        <5> QED  BY <5>2, <5>4, <3>3 DEF NotAsked
      <4>2. CASE "PINGREQ" \notin out
        <5>1. asked # NotAsked /\ Age(ping) = asked  BY <3>1, <3>4, <4>2 DEF Awaited
        <5>2. Asked = asked  BY <4>2 DEF Asked
        <5>3. asked' = asked + d  BY <5>1, <5>2, <3>1, <3>2, <3>3
        <5> QED  BY <5>1, <5>3, <3>3, <1>t DEF NotAsked
      <4> QED  BY <4>1, <4>2
    <3> QED  BY <3>2, <3>4 DEF Stale
  <2> QED  BY <1>4, <2>1, <1>0 DEF Transfer, history
<1>5. CASE Incoming
  <2>1. Stale' => Stale  BY <1>5 DEF Incoming, Stale, Awaited, Age, network
  <2> QED  BY <1>5, <2>1, <1>0 DEF Incoming, history
<1>6. ASSUME NEW s \in Shifts, ElapsedLost(s) \/ ElapsedDue(s) \/ ElapsedOther(s)
      PROVE  AlarmInv'
  <2> DEFINE t == Plus(now, took + s)
  <2>0. /\ pc = "elapsed" /\ ~pong /\ "PINGREQ" \notin padding
        /\ s = 0 => steps' = steps
        /\ s # 0 => steps' = steps + 1
        /\ breaks' = breaks /\ silent' = silent /\ asked' = asked /\ now' = t
    BY <1>6, <1>p DEF ElapsedLost, ElapsedDue, ElapsedOther, Noted, PcInv, network
  (* A ping that is awaited is not overdue, unless the clock was set.      *)
  <2>1. ASSUME Awaited, s = 0
        PROVE  asked # NotAsked /\ Minus(t, ping) = asked /\ ~PingLost(t)
    <3>1. asked # NotAsked /\ Age(ping) + took = asked  BY <2>0, <2>1 DEF Awaited
    <3>2. asked <= Patience /\ Age(ping) + took < Width  BY <3>1, <1>t, Numeric
    <3>3. t = Plus(now, took)
      <4>1. took + s = took  BY <2>1, <1>t
      <4> QED  BY <4>1
    <3>4. Minus(t, ping) = asked  BY <3>1, <3>2, <3>3, <1>t, AgeGrows DEF Age
    <3>5. ~PingLost(t)  BY <3>2, <3>4, <3>1, <1>t, Numeric DEF PingLost
    <3> QED  BY <3>1, <3>4, <3>5
  <2>2. CASE ElapsedLost(s)
    <3>1. ping' = 0 /\ PingLost(t) /\ alarms' = IF silent THEN alarms ELSE alarms + 1
      BY <2>2 DEF ElapsedLost
    <3>2. ~Stale'  BY <3>1 DEF Stale
    <3>3. CASE silent \/ s # 0  BY <3>1, <3>2, <3>3, <2>0, <1>a, <1>t
    <3>4. CASE ~silent /\ s = 0
      <4>1. ~Awaited  BY <3>1, <3>4, <2>1
      <4>2. ping # 0  BY <3>1, <1>t DEF PingLost
      <4>3. Stale  BY <4>1, <4>2, <3>4 DEF Stale
      <4> QED  BY <4>3, <3>1, <3>2, <3>4, <2>0, <1>a, <1>t
    <3> QED  BY <3>3, <3>4, <1>t
  <2>3. CASE ElapsedDue(s)
    <3>1. ping' = t /\ pc' = "outgoing" /\ "PINGREQ" \in padding' /\ alarms' = alarms
      BY <2>3 DEF ElapsedDue
    <3>2. ~Stale'  BY <3>1, <2>0 DEF Stale, Awaited
    <3> QED  BY <3>1, <3>2, <2>0, <1>a, <1>t
  <2>4. CASE ElapsedOther(s)
    <3>1. ping' = ping /\ pc' = "outgoing" /\ padding' = padding /\ alarms' = alarms
      BY <2>4 DEF ElapsedOther
    <3>2. CASE s # 0  BY <3>1, <3>2, <2>0, <1>a, <1>t
    <3>3. CASE s = 0
      <4>1. ASSUME Stale' PROVE Stale
        <5>1. ping # 0 /\ ~silent /\ ~Awaited'  BY <4>1, <3>1, <2>0 DEF Stale
        <5>2. Awaited' <=> (asked # NotAsked /\ Minus(t, ping) = asked)
          BY <3>1, <2>0 DEF Awaited, Age
        <5> QED  BY <5>1, <5>2, <2>1, <3>3 DEF Stale
      <4> QED  BY <4>1, <3>1, <3>3, <2>0, <1>a
    <3> QED  BY <3>2, <3>3
  <2> QED  BY <1>6, <2>2, <2>3, <2>4
<1>7. CASE Break
  <2>1. alarms' = alarms /\ steps' = steps /\ breaks' = breaks + 1  BY <1>7 DEF Break
  <2> QED  BY <2>1, <1>a, <1>t
<1>8. CASE Silence
  <2>1. ~Stale'  BY <1>8 DEF Silence, Stale
  <2> QED  BY <2>1, <1>8, <1>0 DEF Silence, history
<1>9. CASE UNCHANGED vars
  <2>1. Stale' => Stale  BY <1>9 DEF vars, engine, network, Stale, Awaited, Age
  <2> QED  BY <1>9, <2>1, <1>0 DEF vars, history
<1> QED  BY <1>1, <1>2, <1>3, <1>4, <1>5, <1>6, <1>7, <1>8, <1>9 DEF Next

LEMMA InitType == Init => TypeOK /\ PcInv
<1> SUFFICES ASSUME Init PROVE TypeOK /\ PcInv  OBVIOUS
<1>1. now \in Stamps /\ ping \in Stamps /\ send \in Stamps  BY Numeric DEF Init, Stamps
<1>2. /\ took \in 0..MaxTurn /\ period \in Periods /\ quiet \in 0..period
      /\ steps \in 0..MaxSteps /\ breaks \in 0..MaxBreaks
  BY Numeric DEF Init
<1>a. pong \in BOOLEAN /\ silent \in BOOLEAN /\ padding \subseteq Kinds /\ out \subseteq Kinds
  BY DEF Init
<1>b. /\ pc = "offline" /\ asked = NotAsked /\ since \in Nat /\ back \in Nat /\ alarms \in Nat
      /\ skipped \in 0..1
  BY DEF Init
<1>3. TypeOK  BY <1>1, <1>2, <1>a, <1>b DEF TypeOK
<1>4. PcInv  BY DEF Init, PcInv
<1> QED  BY <1>3, <1>4

LEMMA AlarmInvariance == Spec => []AInv
<1>1. Init => AInv  BY InitType DEF Init, AInv, AlarmInv, Stale
<1>2. AInv /\ [Next]_vars => AInv'  BY NextType, NextPc, NextAlarm DEF AInv
<1> QED  BY <1>1, <1>2, PTL DEF Spec

(* Every variable of KeepAlive stays in its domain.                        *)
THEOREM TypeCorrect == Spec => []TypeOK
<1>1. AInv => TypeOK  BY DEF AInv
<1> QED  BY AlarmInvariance, <1>1, PTL

(* A healthy connection is given up only for a set clock or for a ping     *)
(* that an earlier connection left unanswered, one for each.               *)
THEOREM AlarmsBounded == Spec => []FalseAlarms
<1>1. AInv => FalseAlarms  BY DEF AInv, AlarmInv, FalseAlarms
<1> QED  BY AlarmInvariance, <1>1, PTL
-----------------------------------------------------------------------------
(* A busy publisher: on a connection, what was sent last is no older than  *)
(* what was published last, unless something waits to be sent.             *)
Online == pc \in {"transfer", "incoming", "elapsed"}
Busy   == period > 0 /\ period + MaxTurn < KeepAlive /\ steps = 0

BusyInv ==
  Busy => /\ ping = 0 /\ "PINGREQ" \notin padding \union out
          /\ Online => Age(send) <= period
          /\ Online /\ "PUBLISH" \notin padding => Age(send) + took <= quiet
          /\ pc = "outgoing" /\ padding = {} => Age(send) <= quiet

(* A silent broker.  The packet sent last is younger than the ping, and    *)
(* both are young; or its stamp is ahead of a clock that was set back, by  *)
(* no more than that, which lasts no longer than the ping is awaited.      *)
Sent     == Online \/ (pc = "outgoing" /\ padding = {})
Counting == pc # "offline" /\ silent
Settled  == /\ pc = "transfer" => out \subseteq {"PINGREQ"}
            /\ pc = "outgoing" => padding = {}
Skip     == IF skipped = 1 THEN K ELSE 0
Ahead    == Width - Age(send) <= back

AgeInv ==
  /\ ping # 0 => Age(ping) <= KeepAlive
  /\ Sent /\ ping # 0 => Age(send) <= Age(ping) \/ Ahead
  /\ Sent /\ ping = 0 => Age(send) <= KeepAlive \/ (pc = "elapsed" /\ Ahead)
  /\ pc = "transfer" /\ out # {} => send = now

(* An answer that was on its way when the broker fell silent comes within  *)
(* the turn.                                                               *)
LateInv ==
  /\ Counting /\ (asked # NotAsked \/ pong) => since <= took /\ (skipped = 1 => ping = 0)
  /\ Counting /\ pc \in {"incoming", "elapsed"} /\ asked # NotAsked
       => since = 0 /\ skipped = 0

(* The time counted is the age of the packet sent last until a ping is     *)
(* due, and the age of the ping from then on; a second ping if the first   *)
(* was not noted; and by as much more as the clock was set back.           *)
CountInv ==
  /\ ~silent => since = 0
  /\ Counting /\ ping # 0 => since <= K - 1 + Skip + back + Age(ping) + took
  /\ Counting /\ ping = 0 =>
       /\ since <= Skip + back + KeepAlive - 1 + took
       /\ Settled => since <= Skip + back + Age(send) + took
       /\ Settled /\ skipped = 1 => send = 0
       /\ pc = "outgoing" /\ "PINGREQ" \in padding /\ "CONNECT" \notin padding =>
            since <= Skip + back /\ (skipped = 1 => now = 0)
       /\ pc = "elapsed" /\ Age(send) > KeepAlive => since <= took

SInv == TypeOK /\ PcInv /\ AgeInv /\ LateInv /\ CountInv
-----------------------------------------------------------------------------
LEMMA SamePeriod == [Next]_vars => period' = period
BY DEF Next, vars, Publish, Connect, Outgoing, Transfer, Incoming, ElapsedLost, ElapsedDue,
       ElapsedOther, Break, Silence

LEMMA NextBusy ==
  ASSUME TypeOK, PcInv, BusyInv, [Next]_vars
  PROVE  BusyInv'
<1>p. period' = period  BY SamePeriod
<1> SUFFICES ASSUME Busy' PROVE
      /\ ping' = 0 /\ "PINGREQ" \notin padding' \union out'
      /\ Online' => Age(send)' <= period
      /\ Online' /\ "PUBLISH" \notin padding' => Age(send)' + took' <= quiet'
      /\ pc' = "outgoing" /\ padding' = {} => Age(send)' <= quiet'
  BY <1>p DEF BusyInv
<1>t. /\ now \in Stamps /\ send \in Stamps /\ took \in 0..MaxTurn /\ quiet \in 0..period
      /\ steps \in Nat /\ period \in Nat /\ pong \in BOOLEAN
  BY Numeric DEF TypeOK
<1>n. Age(send) \in Nat  BY <1>t, AgeIsNat DEF Age
<1>s. steps' = 0 /\ period > 0 /\ period + MaxTurn < KeepAlive  BY <1>p DEF Busy
<1>b. ASSUME steps = 0
      PROVE  /\ ping = 0 /\ "PINGREQ" \notin padding \union out
             /\ Online => Age(send) <= period
             /\ Online /\ "PUBLISH" \notin padding => Age(send) + took <= quiet
             /\ pc = "outgoing" /\ padding = {} => Age(send) <= quiet
  BY <1>b, <1>s DEF BusyInv, Busy
<1>1. CASE Publish
  <2>1. /\ steps = 0 /\ UNCHANGED <<period, now, ping, send, pc, out, took>> /\ "PUBLISH" \in padding'
        /\ "PINGREQ" \in padding' => "PINGREQ" \in padding
    BY <1>1, <1>s DEF Publish, history
  <2> QED  BY <2>1, <1>b DEF Online, Age
<1>2. CASE Connect
  <2>1. /\ steps = 0 /\ UNCHANGED <<period, ping, out>> /\ padding' # {} /\ pc' = "outgoing"
        /\ "PINGREQ" \in padding' => "PINGREQ" \in padding
    BY <1>2, <1>s DEF Connect, history
  <2> QED  BY <2>1, <1>b DEF Online
<1>3. CASE Outgoing
  <2>1. /\ steps = 0 /\ UNCHANGED <<period, now, ping, took, quiet>> /\ padding' = {} /\ out' = padding
        /\ pc = "outgoing" /\ pc' = "transfer" /\ send' = IF padding = {} THEN send ELSE now
        /\ took = 0
    BY <1>3, <1>s DEF Outgoing, history, count, PcInv
  <2>2. Age(now) = 0 /\ Age(now) \in Nat  BY <1>t DEF Age, Minus, Stamps
  <2>3. Age(send)' = IF padding = {} THEN Age(send) ELSE Age(now)  BY <2>1 DEF Age
  <2>4. Age(send)' <= quiet  BY <2>1, <2>2, <2>3, <1>b, <1>t
  <2>5. Age(send)' \in Nat  BY <2>1, <2>2, <2>3, <1>n
  <2> QED  BY <2>1, <2>4, <2>5, <1>b, <1>t DEF Online
<1>4. ASSUME NEW d \in 0..MaxTurn, Transfer(d)
      PROVE  /\ ping' = 0 /\ "PINGREQ" \notin padding' \union out'
             /\ Online' => Age(send)' <= period
             /\ Online' /\ "PUBLISH" \notin padding' => Age(send)' + took' <= quiet'
             /\ pc' = "outgoing" /\ padding' = {} => Age(send)' <= quiet'
  <2>1. /\ steps = 0 /\ UNCHANGED <<period, now, ping, send, padding>> /\ out' = {}
        /\ pc = "transfer" /\ pc' = "incoming" /\ took' = d /\ took = 0
    BY <1>4, <1>s DEF Transfer, history, engine, PcInv
  <2>2. quiet' = quiet + d  BY <1>4, <1>s DEF Transfer
  <2>3. Age(send) \in Nat /\ Age(send)' = Age(send)  BY <2>1, <1>n DEF Age
  <2> QED  BY <2>1, <2>2, <2>3, <1>b, <1>t DEF Online
<1>5. CASE Incoming
  <2>1. /\ steps = 0 /\ UNCHANGED <<period, now, send, padding, out, took, quiet>>
        /\ ping' = IF pong THEN 0 ELSE ping
        /\ pc = "incoming" /\ pc' = "elapsed"
    BY <1>5, <1>s DEF Incoming, history
  <2> QED  BY <2>1, <1>b DEF Online, Age
<1>6. ASSUME NEW s \in Shifts, ElapsedLost(s) \/ ElapsedDue(s) \/ ElapsedOther(s)
      PROVE  /\ ping' = 0 /\ "PINGREQ" \notin padding' \union out'
             /\ Online' => Age(send)' <= period
             /\ Online' /\ "PUBLISH" \notin padding' => Age(send)' + took' <= quiet'
             /\ pc' = "outgoing" /\ padding' = {} => Age(send)' <= quiet'
  <2> DEFINE t == Plus(now, took + s)
  <2>1. /\ pc = "elapsed" /\ pc' \in {"outgoing", "offline"} /\ now' = t
        /\ UNCHANGED <<period, send, out, quiet>>
        /\ s = 0 => steps' = steps
        /\ s # 0 => steps' = steps + 1
    BY <1>6 DEF ElapsedLost, ElapsedDue, ElapsedOther, Noted
  <2>2. s = 0 /\ steps = 0  BY <2>1, <1>s, <1>t
  <2>3. Age(send) \in Nat /\ Age(send) <= period  BY <2>1, <2>2, <1>b, <1>n DEF Online
  <2>4. Minus(t, send) = Age(send) + took
    <3>1. took + s = took  BY <2>2, <1>t
    <3>2. Age(send) + took < Width  BY <2>3, <1>s, <1>t, Numeric
    <3> QED  BY <3>1, <3>2, <1>t, AgeGrows DEF Age
  <2>5. ~PingLost(t) /\ ~PingDue(t)
    <3>1. Age(send) + took < KeepAlive  BY <2>3, <1>s, <1>t, Numeric
    <3>2. ping = 0  BY <2>2, <1>b
    <3> QED  BY <3>1, <3>2, <2>3, <2>4, <1>t, Numeric DEF PingLost, PingDue
  <2>6. UNCHANGED <<period, ping, padding>>  BY <2>5, <1>6 DEF ElapsedLost, ElapsedDue, ElapsedOther
  <2>7. Age(send)' = Age(send) + took  BY <2>1, <2>4 DEF Age
  <2> QED  BY <2>1, <2>2, <2>6, <2>7, <1>b DEF Online
<1>7. CASE Break
  <2>1. steps = 0 /\ UNCHANGED <<period, ping, padding>> /\ out' = {} /\ pc' = "offline"
    BY <1>7, <1>s DEF Break, engine
  <2> QED  BY <2>1, <1>b DEF Online
<1>8. CASE Silence
  <2>1. steps = 0 /\ UNCHANGED <<period, now, ping, send, padding, pc, out, took, quiet>>
    BY <1>8, <1>s DEF Silence, engine, history
  <2> QED  BY <2>1, <1>b DEF Online, Age
<1>9. CASE UNCHANGED vars
  <2>1. steps = 0 /\ UNCHANGED <<period, now, ping, send, padding, pc, out, took, quiet>>
    BY <1>9, <1>s DEF vars, engine, history
  <2> QED  BY <2>1, <1>b DEF Online, Age
<1> QED  BY <1>1, <1>2, <1>3, <1>4, <1>5, <1>6, <1>7, <1>8, <1>9 DEF Next

(* A publisher that is busier than the keep-alive never sends a PINGREQ,   *)
(* so nothing in the engine notices a broker that has fallen silent.       *)
THEOREM NeverPings == Spec => []BusyNeverPings
<1>1. Init => TypeOK /\ PcInv /\ BusyInv  BY InitType DEF Init, BusyInv, Online
<1>2. TypeOK /\ PcInv /\ BusyInv /\ [Next]_vars => (TypeOK /\ PcInv /\ BusyInv)'
  BY NextType, NextPc, NextBusy
<1>3. BusyInv => BusyNeverPings  BY DEF BusyInv, Busy, BusyNeverPings
<1> QED  BY <1>1, <1>2, <1>3, PTL DEF Spec
-----------------------------------------------------------------------------
(* What a look at the clock does, the clock having been set by s.          *)
LEMMA ElapsedStep ==
  ASSUME TypeOK, PcInv, NEW s \in Shifts,
         ElapsedLost(s) \/ ElapsedDue(s) \/ ElapsedOther(s)
  PROVE  /\ s \in Int /\ pc = "elapsed" /\ now' = Plus(now, took + s) /\ took' = 0 /\ ~pong
         /\ UNCHANGED <<period, send, out, pong, asked, silent>>
         /\ since' = IF s = 0 THEN since ELSE 0
         /\ back' = IF s < 0 THEN back - s ELSE back
         /\ \/ PingLost(now') /\ ping' = 0 /\ pc' = "offline"
            \/ /\ ~PingLost(now') /\ PingDue(now') /\ ping' = now' /\ pc' = "outgoing"
               /\ padding' = padding \union {"PINGREQ"}
               /\ skipped' = IF now' = 0 THEN 1 ELSE IF s = 0 THEN skipped ELSE 0
            \/ /\ ~PingLost(now') /\ ~PingDue(now') /\ pc' = "outgoing"
               /\ UNCHANGED <<period, ping, padding>>
               /\ skipped' = IF s = 0 THEN skipped ELSE 0
<1>1. s \in Int  BY ClockAssumption
<1>2. CASE ElapsedLost(s)  BY <1>1, <1>2 DEF ElapsedLost, Noted, PcInv, network
<1>3. CASE ElapsedDue(s)  BY <1>1, <1>3 DEF ElapsedDue, Noted, PcInv, network
<1>4. CASE ElapsedOther(s)  BY <1>1, <1>4 DEF ElapsedOther, Noted, PcInv, network
<1> QED  BY <1>2, <1>3, <1>4

(* A look at the clock changes the age of a stamp by as much as it changes *)
(* the time.                                                               *)
LEMMA AgeMoves ==
  ASSUME NEW a \in Stamps, NEW b \in Stamps, NEW n \in Int, -Width < n, n < Width
  PROVE  Minus(Plus(a, n), b) = Plus(Minus(a, b), n)
BY Numeric DEF Plus, Minus, Stamps

(* Two ages that move together.  The one of the ping stays young; that of  *)
(* the packet sent last stays below it, or ahead by what was set back.     *)
LEMMA AgesMove ==
  ASSUME NEW a \in Stamps, NEW b \in Stamps, NEW k \in Nat, NEW s \in Int, NEW d \in Nat,
         a <= KeepAlive, d <= MaxTurn, -Width < s, s + KeepAlive + MaxTurn < Width,
         b <= a \/ Width - b <= k
  PROVE  \/ Plus(b, d + s) <= Plus(a, d + s)
         \/ Width - Plus(b, d + s) <= IF s < 0 THEN k - s ELSE k
BY Numeric DEF Plus, Stamps

(* One that is young, or ahead.                                            *)
LEMMA YoungMoves ==
  ASSUME NEW b \in Stamps, NEW d \in 0..MaxTurn, b <= KeepAlive
  PROVE  Plus(b, d) = b + d
BY Numeric DEF Plus, Stamps

LEMMA AheadMoves ==
  ASSUME NEW b \in Stamps, NEW d \in 0..MaxTurn, NEW k \in Nat, Width - b <= k
  PROVE  d <= Plus(b, d) + k
BY Numeric DEF Plus, Stamps

LEMMA NextAge ==
  ASSUME TypeOK, PcInv, AgeInv, [Next]_vars
  PROVE  AgeInv'
<1> USE DEF AgeInv, Sent, Online, Ahead
<1>t. /\ now \in Stamps /\ send \in Stamps /\ ping \in Stamps /\ took \in 0..MaxTurn
      /\ pong \in BOOLEAN /\ back \in Nat
  BY DEF TypeOK
<1>n. /\ Age(send) \in Stamps /\ Age(ping) \in Stamps /\ Age(now) = 0
      /\ Age(send) \in Nat /\ Age(ping) \in Nat
  <2>1. \A a, b \in Stamps : Minus(a, b) \in Stamps  BY Numeric DEF Minus, Stamps
  <2> QED  BY <1>t, <2>1, AgeIsNat, AgeOfNow DEF Age
<1>1. CASE Publish  BY <1>1 DEF Publish, count, Age
<1>2. CASE Connect  BY <1>2 DEF Connect, Age
<1>3. CASE Outgoing
  <2>1. /\ UNCHANGED <<period, now, ping, back>> /\ pc = "outgoing" /\ pc' = "transfer"
        /\ send' = (IF padding = {} THEN send ELSE now) /\ out' = padding
    BY <1>3 DEF Outgoing, count
  <2>2. Age(ping)' = Age(ping) /\ Age(send)' = IF padding = {} THEN Age(send) ELSE 0
    BY <2>1, <1>n DEF Age
  <2> QED  BY <2>1, <2>2, <1>n, Numeric
<1>4. ASSUME NEW d \in 0..MaxTurn, Transfer(d) PROVE AgeInv'
  <2>1. /\ UNCHANGED <<period, now, ping, send>> /\ pc = "transfer" /\ pc' = "incoming"
        /\ out = {} => back' = back
    BY <1>4 DEF Transfer, engine
  <2>2. Age(send)' = Age(send) /\ Age(ping)' = Age(ping)  BY <2>1 DEF Age
  <2>3. CASE out = {}  BY <2>1, <2>2, <2>3
  <2>4. CASE out # {}
    <3>1. Age(send) = 0  BY <2>1, <2>4, <1>n DEF Age
    <3> QED  BY <2>1, <2>2, <3>1, <1>n, Numeric
  <2> QED  BY <2>3, <2>4
<1>5. CASE Incoming
  <2>1. /\ UNCHANGED <<period, now, send, back>> /\ pc = "incoming" /\ pc' = "elapsed"
        /\ ping' = IF pong THEN 0 ELSE ping
    BY <1>5 DEF Incoming, count
  <2>2. Age(send)' = Age(send) /\ (ping' # 0 => ping # 0 /\ Age(ping)' = Age(ping))
    BY <2>1 DEF Age
  <2>3. Age(send) <= KeepAlive \/ Ahead  BY <2>1, <1>n, Numeric
  <2> QED  BY <2>1, <2>2, <2>3
<1>6. ASSUME NEW s \in Shifts, ElapsedLost(s) \/ ElapsedDue(s) \/ ElapsedOther(s) PROVE AgeInv'
  <2>1. /\ s \in Int /\ pc = "elapsed" /\ now' = Plus(now, took + s) /\ send' = send
        /\ back' = IF s < 0 THEN back - s ELSE back
        /\ \/ ping' = 0 /\ pc' = "offline"
           \/ ping' = now' /\ pc' = "outgoing" /\ padding' # {}
           \/ /\ ~PingLost(now') /\ ~PingDue(now') /\ pc' = "outgoing" /\ ping' = ping
    BY <1>6, ElapsedStep
  <2>2. -Width < s /\ s + KeepAlive + MaxTurn < Width  BY ClockAssumption
  <2>3. took + s \in Int /\ -Width < took + s /\ took + s < Width
    BY <1>t, <2>1, <2>2, Numeric
  <2>4. now' \in Stamps  BY NextType DEF TypeOK
  <2>5. Age(send)' = Plus(Age(send), took + s)  BY <1>t, <2>1, <2>3, AgeMoves DEF Age
  <2>6. CASE ping' = 0 /\ pc' = "offline"  BY <2>6
  <2>7. CASE ping' = now' /\ pc' = "outgoing" /\ padding' # {}
    <3>1. Age(ping)' = 0  BY <2>7, <2>4, AgeOfNow DEF Age
    <3> QED  BY <2>7, <3>1, Numeric
  <2>8. CASE ~PingLost(now') /\ ~PingDue(now') /\ pc' = "outgoing" /\ ping' = ping
    <3>1. CASE ping # 0
      <4>1. Age(ping)' = Plus(Age(ping), took + s)
        BY <1>t, <2>1, <2>3, <2>8, AgeMoves DEF Age
      <4>2. Age(ping)' <= KeepAlive
        <5>1. ping > 0  BY <1>t, <3>1 DEF Stamps
        <5>2. ~(Minus(now', ping) > KeepAlive)  BY <5>1, <2>8 DEF PingLost
        <5>3. Minus(now', ping) \in Nat  BY <1>t, <2>4, AgeIsNat
        <5> QED  BY <2>8, <5>2, <5>3, Numeric DEF Age
      <4>3. Age(ping) <= KeepAlive /\ (Age(send) <= Age(ping) \/ Width - Age(send) <= back)
        BY <2>1, <3>1
      <4>4. \/ Plus(Age(send), took + s) <= Plus(Age(ping), took + s)
            \/ Width - Plus(Age(send), took + s) <= IF s < 0 THEN back - s ELSE back
        <5>1. took \in Nat /\ took <= MaxTurn  BY <1>t, Numeric
        <5> QED  BY <1>n, <1>t, <2>1, <2>2, <4>3, <5>1, AgesMove
      <4> QED  BY <2>1, <2>5, <2>8, <3>1, <4>1, <4>2, <4>4
    <3>2. CASE ping = 0
      <4>1. ~(Minus(now', send) >= KeepAlive)  BY <2>8, <3>2 DEF PingDue
      <4>2. Minus(now', send) \in Nat  BY <1>t, <2>4, AgeIsNat
      <4>3. Age(send)' <= KeepAlive  BY <2>1, <4>1, <4>2, Numeric DEF Age
      <4> QED  BY <2>8, <3>2, <4>3
    <3> QED  BY <3>1, <3>2
  <2> QED  BY <2>1, <2>6, <2>7, <2>8
<1>7. CASE Break  BY <1>7 DEF Break, engine, Age
<1>8. CASE Silence  BY <1>8 DEF Silence, engine, Age
<1>9. CASE UNCHANGED vars  BY <1>9 DEF vars, engine, count, Age
<1> QED  BY <1>1, <1>2, <1>3, <1>4, <1>5, <1>6, <1>7, <1>8, <1>9 DEF Next

LEMMA NextLate ==
  ASSUME TypeOK, PcInv, LateInv, CountInv, [Next]_vars
  PROVE  LateInv'
<1> USE DEF LateInv, Counting
<1>t. /\ took \in 0..MaxTurn /\ pong \in BOOLEAN /\ silent \in BOOLEAN /\ since \in Nat
  BY DEF TypeOK
<1>1. CASE Publish  BY <1>1 DEF Publish, network, count
<1>2. CASE Connect  BY <1>2 DEF Connect, PcInv
<1>3. CASE Outgoing
  <2>1. /\ UNCHANGED <<period, ping, took, pong, asked, silent, since, skipped>>
        /\ pc = "outgoing" /\ pc' = "transfer"
    BY <1>3 DEF Outgoing, network, count
  <2> QED  BY <2>1
<1>4. ASSUME NEW d \in 0..MaxTurn, Transfer(d) PROVE LateInv'
  <2>1. /\ pc = "transfer" /\ took' = d /\ took = 0 /\ silent' = silent /\ ping' = ping /\ ~pong
        /\ silent => asked' = NotAsked
        /\ pong' => Asked # NotAsked
        /\ \/ since' = (IF silent THEN since + d ELSE 0) /\ skipped' = skipped
           \/ since' = (IF silent THEN d ELSE 0) /\ skipped' = 0
    BY <1>4 DEF Transfer, engine, PcInv
  <2>2. ASSUME silent, pong'
        PROVE  since' <= took' /\ (skipped' = 1 => ping' = 0)
    <3>1. asked # NotAsked  BY <2>1, <2>2 DEF Asked
    <3>2. since <= 0 /\ (skipped = 1 => ping = 0)  BY <3>1, <2>1, <2>2
    <3>3. since = 0  BY <3>2, <1>t
    <3> QED  BY <3>2, <3>3, <2>1, <2>2
  <2> QED  BY <2>1, <2>2
<1>5. CASE Incoming
  <2>1. /\ UNCHANGED <<period, took, asked, silent, since, skipped>> /\ pong' = FALSE
        /\ pc = "incoming" /\ pc' = "elapsed" /\ ping' = IF pong THEN 0 ELSE ping
    BY <1>5 DEF Incoming, network, count
  <2> QED  BY <2>1
<1>6. ASSUME NEW s \in Shifts, ElapsedLost(s) \/ ElapsedDue(s) \/ ElapsedOther(s) PROVE LateInv'
  <2>1. /\ pc = "elapsed" /\ pc' \in {"offline", "outgoing"} /\ ~pong
        /\ UNCHANGED <<period, pong, asked, silent>> /\ took' = 0
        /\ since' = since \/ since' = 0
        /\ pc' = "outgoing" =>
             skipped' = skipped \/ skipped' = 0 \/ (skipped' = 1 /\ ping' = 0)
        /\ ping' = ping \/ pc' = "offline" \/ ping = 0
    BY <1>6, ElapsedStep DEF PingDue
  <2> QED  BY <2>1, <1>t
<1>7. CASE Break  BY <1>7 DEF Break
<1>8. CASE Silence
  <2>1. since' = 0 /\ skipped' = 0 /\ UNCHANGED <<period, took, pc>>  BY <1>8 DEF Silence
  <2> QED  BY <2>1, <1>t
<1>9. CASE UNCHANGED vars  BY <1>9 DEF vars, engine, network, count
<1> QED  BY <1>1, <1>2, <1>3, <1>4, <1>5, <1>6, <1>7, <1>8, <1>9 DEF Next

(* A count that has just started is within every bound.                    *)
LEMMA NextFresh ==
  ASSUME TypeOK', since' <= took', ~silent' => since' = 0,
         pc' = "outgoing" => since' = 0,
         skipped' = 1 => \/ pc' = "offline"
                         \/ pc' = "outgoing" /\ now' = 0 /\ padding' # {}
  PROVE  CountInv'
<1>1. /\ since' \in Nat /\ took' \in Nat /\ back' \in Nat /\ skipped' \in 0..1
      /\ now' \in Stamps /\ send' \in Stamps /\ ping' \in Stamps
  BY DEF TypeOK
<1>2. Age(send)' \in Nat /\ Age(ping)' \in Nat  BY <1>1, AgeIsNat DEF Age
<1>3. Skip' \in Nat  BY Numeric DEF Skip, K
<1>4. K - 1 \in Nat /\ KeepAlive - 1 \in Nat  BY Numeric DEF K
<1>5. \A k, p, b, g, t, n \in Nat : n <= t => n <= k + p + b + g + t  OBVIOUS
<1>6. since' <= (K - 1) + Skip' + back' + Age(ping)' + took'
  BY <1>1, <1>2, <1>3, <1>4, <1>5
<1>7. since' <= Skip' + back' + (KeepAlive - 1) + took'
  <2>1. \A p, b, g, t, n \in Nat : n <= t => n <= p + b + g + t  OBVIOUS
  <2> QED  BY <1>1, <1>3, <1>4, <2>1
<1>8. since' <= Skip' + back' + Age(send)' + took'
  <2>1. \A p, b, g, t, n \in Nat : n <= t => n <= p + b + g + t  OBVIOUS
  <2> QED  BY <1>1, <1>2, <1>3, <2>1
<1>9. pc' = "outgoing" => since' <= Skip' + back'
  <2>1. \A p, b \in Nat : 0 <= p + b  OBVIOUS
  <2> QED  BY <1>1, <1>3, <2>1
<1>10. Settled' => skipped' = 0 \/ pc' = "offline"  BY <1>1 DEF Settled
<1>11. Skip' + back' + KeepAlive - 1 = Skip' + back' + (KeepAlive - 1)
  BY <1>1, <1>3, Numeric
<1> QED
  <2>1. ~silent' => since' = 0  OBVIOUS
  <2>2. Counting' => pc' # "offline"  BY DEF Counting
  <2>3. skipped' \in 0..1  BY <1>1
  <2> QED  BY <2>1, <2>2, <2>3, <1>6, <1>7, <1>8, <1>9, <1>10, <1>11 DEF CountInv

LEMMA NextCount ==
  ASSUME SInv, [Next]_vars
  PROVE  CountInv'
<1> USE DEF CountInv, Counting, Settled
<1>i. TypeOK /\ PcInv /\ AgeInv /\ LateInv /\ CountInv  BY DEF SInv
<1>t. /\ now \in Stamps /\ send \in Stamps /\ ping \in Stamps /\ took \in 0..MaxTurn
      /\ pong \in BOOLEAN /\ silent \in BOOLEAN /\ since \in Nat /\ skipped \in 0..1
      /\ back \in Nat
  BY <1>i DEF TypeOK
<1>n. Age(send) \in Nat /\ Age(ping) \in Nat  BY <1>t, AgeIsNat DEF Age
<1>m. Age(send)' \in Nat /\ Age(ping)' \in Nat /\ back' \in Nat
  <2>1. now' \in Stamps /\ send' \in Stamps /\ ping' \in Stamps /\ back' \in Nat
    BY <1>i, NextType DEF TypeOK
  <2> QED  BY <2>1, AgeIsNat DEF Age
<1>k. /\ K \in Nat /\ KeepAlive \in Nat /\ KeepAlive > 0 /\ MaxTurn \in Nat
      /\ K = KeepAlive + MaxTurn
      /\ Skip \in Nat /\ (skipped = 0 => Skip = 0) /\ (skipped = 1 => Skip = K)
      /\ (skipped' = 0 => Skip' = 0) /\ (skipped' = 1 => Skip' = K)
      /\ (skipped' = skipped => Skip' = Skip)
  BY <1>t, Numeric DEF K, Skip
<1>z. TypeOK'  BY <1>i, NextType
<1>1. CASE Publish
  <2>1. /\ UNCHANGED <<period, now, ping, send, pc, out, took, silent, since, skipped, back>>
        /\ padding' # {}
        /\ "PINGREQ" \in padding' => "PINGREQ" \in padding
        /\ "CONNECT" \notin padding' => "CONNECT" \notin padding
    BY <1>1 DEF Publish, network, count
  <2>2. Age(send)' = Age(send) /\ Age(ping)' = Age(ping)  BY <2>1 DEF Age
  <2> QED  BY <1>i, <1>k, <1>t, <2>1, <2>2
<1>2. CASE Connect
  <2>1. /\ pc' = "outgoing" /\ "CONNECT" \in padding' /\ since' = 0 /\ skipped' = 0
        /\ took' = 0
    BY <1>2, <1>i DEF Connect, PcInv
  <2> QED  BY <1>z, <2>1, NextFresh
<1>3. CASE Outgoing
  <2>1. /\ UNCHANGED <<period, now, ping, took, silent, since, skipped, back>>
        /\ out' = padding
        /\ pc = "outgoing" /\ pc' = "transfer" /\ took = 0
        /\ send' = IF padding = {} THEN send ELSE now
    BY <1>3, <1>i DEF Outgoing, network, count, PcInv
  <2>2. Age(ping)' = Age(ping)  BY <2>1 DEF Age
  <2>3. CASE padding = {}
    <3>1. send' = send /\ Age(send)' = Age(send)  BY <2>1, <2>3 DEF Age
    <3> QED  BY <1>i, <1>k, <1>t, <2>1, <2>2, <2>3, <3>1
  <2>4. CASE padding = {"PINGREQ"}
    <3>1. send' = now  BY <2>1, <2>4
    <3>2. Counting /\ ping = 0 => since <= Skip + back /\ (skipped = 1 => now = 0)
      BY <1>i, <2>1, <2>4
    <3> QED  BY <1>i, <1>k, <1>m, <1>t, <2>1, <2>2, <3>1, <3>2
  <2>5. CASE ~(padding \subseteq {"PINGREQ"})
    BY <1>i, <1>k, <1>t, <2>1, <2>2, <2>5
  <2> QED  BY <2>3, <2>4, <2>5
<1>4. ASSUME NEW d \in 0..MaxTurn, Transfer(d) PROVE CountInv'
  <2>1. /\ UNCHANGED <<period, now, ping, send, silent>>
        /\ pc = "transfer" /\ pc' = "incoming" /\ took = 0 /\ took' = d /\ out' = {}
        /\ ~silent => since' = 0
        /\ silent /\ out \subseteq {"PINGREQ"} => since' = since + d /\ UNCHANGED <<skipped, back>>
        /\ silent /\ ~(out \subseteq {"PINGREQ"}) => since' = d /\ skipped' = 0
    BY <1>4, <1>i DEF Transfer, engine, PcInv
  <2>2. Age(send)' = Age(send) /\ Age(ping)' = Age(ping)  BY <2>1 DEF Age
  <2>3. CASE silent /\ out \subseteq {"PINGREQ"}
    BY <1>i, <1>k, <1>n, <1>t, <2>1, <2>2, <2>3
  <2>4. CASE silent /\ ~(out \subseteq {"PINGREQ"})
    <3>1. pc' = "incoming" /\ took' \in Nat /\ since' = took' /\ skipped' = 0 /\ silent'
      BY <2>1, <2>4, Numeric
    <3> QED  BY <1>z, <3>1, NextFresh
  <2>5. CASE ~silent  BY <2>1, <2>5
  <2> QED  BY <2>3, <2>4, <2>5, <1>t
<1>5. CASE Incoming
  <2>1. /\ UNCHANGED <<period, now, send, took, silent, since, skipped, back>>
        /\ pc = "incoming" /\ pc' = "elapsed" /\ ping' = IF pong THEN 0 ELSE ping
    BY <1>5 DEF Incoming, network, count
  <2>2. Age(send)' = Age(send)  BY <2>1 DEF Age
  <2>3. CASE ping' = ping
    <3>1. Age(ping)' = Age(ping)  BY <2>1, <2>3 DEF Age
    <3>2. ~silent => since' = 0  BY <1>i, <2>1
    <3>3. Settled  BY <2>1
    <3>4. ping = 0 => Age(send) <= KeepAlive  BY <1>i, <2>1 DEF AgeInv, Sent, Online
    <3> QED  BY <1>i, <1>k, <1>n, <1>t, <2>1, <2>2, <2>3, <3>1, <3>2, <3>3, <3>4
  <2>4. CASE ping' # ping
    <3>1. pong /\ ping # 0 /\ ping' = 0  BY <2>1, <2>4
    <3>2. silent => since <= took /\ skipped = 0  BY <1>i, <1>t, <2>1, <3>1 DEF LateInv
    <3> QED  BY <1>i, <1>k, <1>m, <1>t, <2>1, <3>1, <3>2
  <2> QED  BY <2>3, <2>4
<1>6. ASSUME NEW s \in Shifts, ElapsedLost(s) \/ ElapsedDue(s) \/ ElapsedOther(s)
      PROVE  CountInv'
  <2>1. /\ pc = "elapsed" /\ now' = Plus(now, took + s) /\ took' = 0
        /\ UNCHANGED <<period, send, out, silent>>
        /\ since' = (IF s = 0 THEN since ELSE 0) /\ (s = 0 => back' = back)
        /\ \/ pc' = "offline"
           \/ /\ PingDue(now') /\ ping' = now' /\ pc' = "outgoing" /\ "PINGREQ" \in padding'
              /\ skipped' = IF now' = 0 THEN 1 ELSE IF s = 0 THEN skipped ELSE 0
           \/ /\ ~PingDue(now') /\ pc' = "outgoing" /\ UNCHANGED <<period, ping, padding>>
              /\ skipped' = IF s = 0 THEN skipped ELSE 0
    BY <1>6, <1>i, ElapsedStep
  <2>2. CASE s # 0
    <3>1. since' = 0  BY <2>1, <2>2
    <3>2. pc' = "outgoing" /\ skipped' = 1 => now' = 0 /\ "PINGREQ" \in padding'
      BY <2>1, <2>2
    <3>3. pc' # "elapsed" /\ took' = 0  BY <2>1
    <3>4. pc' \in {"offline", "outgoing"}  BY <2>1
    <3> QED  BY <1>z, <3>1, <3>2, <3>3, <3>4, NextFresh
  <2>3. CASE s = 0
    <3>1. since' = since /\ back' = back /\ now' = Plus(now, took)
      BY <1>t, <2>1, <2>3
    <3>2. /\ ~silent => since = 0
          /\ silent /\ ping # 0 => since <= K - 1 + Skip + back + Age(ping) + took
          /\ silent /\ ping = 0 => /\ since <= Skip + back + KeepAlive - 1 + took
                                   /\ since <= Skip + back + Age(send) + took
                                   /\ skipped = 1 => send = 0
                                   /\ Age(send) > KeepAlive => since <= took
      BY <1>i, <2>1
    <3>3. /\ Minus(now', send) = Plus(Age(send), took)
          /\ Minus(now', ping) = Plus(Age(ping), took)
      <4>1. took \in Int /\ -Width < took /\ took < Width  BY <1>t, Numeric
      <4> QED  BY <1>t, <3>1, <4>1, AgeMoves DEF Age
    <3>4. Age(send) \in Stamps /\ Age(ping) \in Stamps
      <4>1. \A a, b \in Stamps : Minus(a, b) \in Stamps  BY Numeric DEF Minus, Stamps
      <4> QED  BY <1>t, <4>1 DEF Age
    <3>5. ping # 0 => Minus(now', ping) = Age(ping) + took
      BY <1>i, <1>t, <3>3, <3>4, YoungMoves DEF AgeInv
    (* The stamp of the packet sent last may be ahead of the clock.        *)
    <3>6. silent /\ ping = 0 => since <= Skip + back + Minus(now', send)
      <4>1. ping = 0 => Age(send) <= KeepAlive \/ Width - Age(send) <= back
        BY <1>i, <2>1 DEF AgeInv, Sent, Online, Ahead
      <4>2. CASE Age(send) <= KeepAlive
        <5>1. Minus(now', send) = Age(send) + took  BY <1>t, <3>3, <3>4, <4>2, YoungMoves
        <5> QED  BY <1>k, <1>n, <1>t, <3>2, <5>1
      <4>3. CASE Width - Age(send) <= back /\ ~(Age(send) <= KeepAlive)
        <5>1. took <= Minus(now', send) + back  BY <1>t, <3>3, <3>4, <4>3, AheadMoves
        <5>2. silent /\ ping = 0 => since <= took  BY <1>k, <1>n, <3>2, <4>3
        <5>3. Minus(now', send) \in Nat  BY <1>m, <2>1 DEF Age
        <5> QED  BY <1>k, <1>t, <5>1, <5>2, <5>3
      <4> QED  BY <4>1, <4>2, <4>3
    <3>7. CASE pc' = "offline"  BY <2>1, <3>1, <3>2, <3>7
    <3>8. CASE /\ PingDue(now') /\ ping' = now' /\ pc' = "outgoing" /\ "PINGREQ" \in padding'
               /\ skipped' = IF now' = 0 THEN 1 ELSE skipped
      <4>1. ping = 0 /\ Minus(now', send) >= KeepAlive  BY <3>8 DEF PingDue
      <4>2. CASE now' # 0
        BY <1>k, <1>m, <1>t, <2>1, <3>1, <3>2, <3>8, <4>1, <4>2
      <4>3. CASE now' = 0
        <5>1. send # 0
          <6>1. Minus(0, 0) = 0  BY AgeOfNow, Numeric DEF Stamps
          <6> QED  BY <6>1, <4>1, <4>3, <1>k
        <5>2. silent => skipped = 0  BY <5>1, <3>2, <4>1, <1>t
        <5>3. silent => since <= back + KeepAlive - 1 + took  BY <5>2, <3>2, <4>1, <1>k, <1>t
        <5> QED  BY <1>k, <1>t, <2>1, <3>1, <3>2, <3>8, <4>3, <5>3
      <4> QED  BY <4>2, <4>3
    <3>9. CASE /\ ~PingDue(now') /\ pc' = "outgoing" /\ UNCHANGED <<period, ping, padding>>
               /\ skipped' = skipped
      <4>1. /\ Age(send)' = Minus(now', send)
            /\ ping # 0 => Age(ping)' = Age(ping) + took
        BY <2>1, <3>5, <3>9 DEF Age
      <4>2. ping = 0 => Minus(now', send) <= KeepAlive - 1
        BY <3>9, <4>1, <1>m, <1>k DEF PingDue
      <4>3. "PINGREQ" \notin padding  BY <1>i, <2>1 DEF PcInv
      <4> QED  BY <1>k, <1>m, <1>n, <1>t, <2>1, <3>1, <3>2, <3>6, <3>9, <4>1, <4>2, <4>3
    <3> QED  BY <2>1, <2>3, <3>7, <3>8, <3>9
  <2> QED  BY <2>2, <2>3
<1>7. CASE Break
  <2>1. pc' = "offline" /\ UNCHANGED <<period, silent, since>>  BY <1>7 DEF Break, network, count
  <2> QED  BY <1>i, <2>1
<1>8. CASE Silence
  <2>1. silent' /\ since' = 0 /\ skipped' = 0 /\ 0 <= took'  BY <1>8, <1>t DEF Silence
  <2> QED  BY <1>z, <2>1, NextFresh
<1>9. CASE UNCHANGED vars
  <2>1. UNCHANGED <<period, now, ping, send, padding, pc, out, took, silent, since, skipped, back>>
    BY <1>9 DEF vars, engine, network, count
  <2>2. Age(send)' = Age(send) /\ Age(ping)' = Age(ping)  BY <2>1 DEF Age
  <2> QED  BY <1>i, <1>k, <2>1, <2>2
<1> QED  BY <1>1, <1>2, <1>3, <1>4, <1>5, <1>6, <1>7, <1>8, <1>9 DEF Next

(* A broker that has fallen silent is noticed within two keep-alives and   *)
(* two turns of the last packet sent other than a PINGREQ, or of the last  *)
(* time the clock was set; three of each if a PINGREQ was queued at time   *)
(* 0; and later than that by no more than the clock was set back.          *)
THEOREM SilenceIsNoticed == Spec => []SilenceNoticed
<1>1. Init => SInv
  <2> SUFFICES ASSUME Init PROVE SInv  OBVIOUS
  <2>1. TypeOK /\ PcInv  BY InitType
  <2>2. pc = "offline" /\ silent = FALSE /\ since = 0 /\ ping = 0  BY DEF Init
  <2> QED  BY <2>1, <2>2 DEF SInv, AgeInv, LateInv, CountInv, Sent, Online, Counting
<1>2. SInv /\ [Next]_vars => SInv'
  BY NextType, NextPc, NextAge, NextLate, NextCount DEF SInv
<1>3. SInv => SilenceNoticed
  <2> SUFFICES ASSUME SInv, pc # "offline"
               PROVE  since < (2 + skipped) * (KeepAlive + MaxTurn) + back
    BY DEF SilenceNoticed
  <2>1. /\ skipped \in 0..1 /\ took \in 0..MaxTurn /\ since \in Nat /\ back \in Nat
        /\ silent \in BOOLEAN /\ now \in Stamps /\ ping \in Stamps
    BY DEF SInv, TypeOK
  <2>2. K \in Nat /\ K > 0 /\ K = KeepAlive + MaxTurn /\ MaxTurn \in Nat /\ KeepAlive \in Nat
    BY Numeric DEF K
  <2>3. Age(ping) + took < K + 1 \/ ping = 0
    BY <2>1, <2>2, AgeIsNat DEF SInv, AgeInv, Age
  <2>4. since <= K - 1 + Skip + K + back
    <3>1. Skip \in Nat  BY <2>1, <2>2 DEF Skip
    <3>2. CASE silent /\ ping # 0
      <4>1. since <= K - 1 + Skip + back + Age(ping) + took  BY <3>2 DEF SInv, CountInv, Counting
      <4>2. Age(ping) \in Nat  BY <2>1, AgeIsNat DEF Age
      <4> QED  BY <4>1, <4>2, <3>1, <3>2, <2>1, <2>2, <2>3
    <3>3. CASE silent /\ ping = 0
      <4>1. since <= Skip + back + KeepAlive - 1 + took  BY <3>3 DEF SInv, CountInv, Counting
      <4> QED  BY <4>1, <3>1, <2>1, <2>2
    <3>4. CASE ~silent
      <4>1. since = 0  BY <3>4 DEF SInv, CountInv
      <4> QED  BY <4>1, <3>1, <2>1, <2>2
    <3> QED  BY <3>2, <3>3, <3>4, <2>1
  <2>5. CASE skipped = 0
    <3>1. Skip = 0 /\ 2 + skipped = 2  BY <2>5 DEF Skip
    <3>2. since < 2 * K + back  BY <3>1, <2>1, <2>2, <2>4
    <3> QED  BY <3>1, <3>2, <2>2
  <2>6. CASE skipped = 1
    <3>1. Skip = K /\ 2 + skipped = 3  BY <2>6 DEF Skip
    <3>2. since < 3 * K + back  BY <3>1, <2>1, <2>2, <2>4
    <3> QED  BY <3>1, <3>2, <2>2
  <2> QED  BY <2>1, <2>5, <2>6
<1> QED  BY <1>1, <1>2, <1>3, PTL DEF Spec
=============================================================================
