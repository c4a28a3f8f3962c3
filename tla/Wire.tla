--------------------------------- MODULE Wire ---------------------------------
(***************************************************************************)
(* What the codecs of MQTT and MQTT-SN in mqtt.h have in common: the       *)
(* mqtt_str_write_ and mqtt_str_read_ functions on bytes, and a __parse_   *)
(* function as the sequence of its tests and reads.                        *)
(***************************************************************************)
EXTENDS Integers, Sequences, SequencesExt

When(b, s) == IF b THEN s ELSE <<>>
If(b, n)   == IF b THEN n ELSE 0

Sum(s) ==
  LET total[i \in 0..Len(s)] == IF i = 0 THEN 0 ELSE total[i - 1] + s[i]
  IN total[Len(s)]

U16(n) == <<(n \div 256) % 256, n % 256>>
-----------------------------------------------------------------------------
(* Reading.  A read from the bytes b gives [st, v, len, b]: the state, the *)
(* value, the bytes it counts, the bytes left.  "bad" is a return of -1;   *)
(* "wild" a read past the end of the body or of a table, which the code    *)
(* does not prevent and the language leaves undefined.                     *)
Read(v, n, b) == [st |-> "ok", v |-> v, len |-> n, b |-> SubSeq(b, n + 1, Len(b))]
Failed(st)    == [st |-> st, v |-> 0, len |-> 0, b |-> <<>>]

ReadU8(b)  == IF b = <<>> THEN Failed("wild") ELSE Read(b[1], 1, b)
ReadU16(b) == IF Len(b) < 2 THEN Failed("wild") ELSE Read(b[1] * 256 + b[2], 2, b)

(* A memcpy of n bytes.                                                    *)
ReadBytes(n, b) == IF Len(b) < n THEN Failed("wild") ELSE Read(SubSeq(b, 1, n), n, b)
-----------------------------------------------------------------------------
(* The tests and reads of a __parse_ function, carried out on a record     *)
(* with the state st, the bytes left b and the fields f, until one fails.  *)
Need(n)          == [op |-> "need", n |-> n]
Exactly(n)       == [op |-> "exactly", n |-> n]
Check(b)         == [op |-> "check", ok |-> b]
NotEmpty(field)  == [op |-> "notempty", field |-> field]
TakeU8(field)    == [op |-> "u8", field |-> field]
TakeU16(field)   == [op |-> "u16", field |-> field]
TakeBytes(field, n) == [op |-> "bytes", field |-> field, n |-> n]
TakeRest(field)  == [op |-> "rest", field |-> field]
TakeCode(codes)  == [op |-> "code", codes |-> codes]

Require(a, b) == IF b THEN a ELSE [a EXCEPT !.st = "bad"]

Assign(a, field, r) ==
  IF r.st # "ok" THEN [a EXCEPT !.st = r.st]
  ELSE [a EXCEPT !.b = r.b, !.f = [@ EXCEPT ![field] = r.v]]

Code(a, codes) ==
  LET r == ReadU8(a.b) IN
  IF r.st = "ok" /\ r.v \notin codes THEN Require(a, FALSE) ELSE Assign(a, "code", r)

ActPlain(a, s) ==
  CASE s.op = "need"     -> Require(a, Len(a.b) >= s.n)
    [] s.op = "exactly"  -> Require(a, Len(a.b) = s.n)
    [] s.op = "check"    -> Require(a, s.ok)
    [] s.op = "notempty" -> Require(a, a.f[s.field] # <<>>)
    [] s.op = "u8"       -> Assign(a, s.field, ReadU8(a.b))
    [] s.op = "u16"      -> Assign(a, s.field, ReadU16(a.b))
    [] s.op = "bytes"    -> Assign(a, s.field, ReadBytes(s.n, a.b))
    [] s.op = "rest"     -> Assign(a, s.field, Read(a.b, Len(a.b), a.b))
    [] s.op = "code"     -> Code(a, s.codes)
=============================================================================
