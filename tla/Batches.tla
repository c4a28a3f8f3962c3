-------------------------------- MODULE Batches --------------------------------
(***************************************************************************)
(* What the client engine is promised by linux_tcp_transfer of mqtt_cli.h: *)
(* a connection takes its batches whole and in order, one step each; only  *)
(* the last before the connection ends may be cut.  The bytes of a         *)
(* connection are numbered from 1 as the engine hands them over.           *)
(***************************************************************************)
EXTENDS Integers, Sequences

CONSTANT Sizes     \* sizes of a batch

VARIABLES up, written

vars == <<up, written>>

(* n more bytes.                                                           *)
Extended(s, n) == s \o [i \in 1..n |-> Len(s) + i]

Init == up = FALSE /\ written = <<>>

Open == ~up /\ up' = TRUE /\ written' = <<>>

Write == /\ up /\ UNCHANGED up
         /\ \E n \in Sizes : written' = Extended(written, n)

Cut == /\ up /\ up' = FALSE
       /\ \E n \in Sizes : \E m \in 0..n : written' = Extended(written, m)

Next == Open \/ Write \/ Cut

Spec == Init /\ [][Next]_vars
=============================================================================
