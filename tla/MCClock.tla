------------------------------- MODULE MCClock -------------------------------
(***************************************************************************)
(* KeepAlive with a wall clock that is set back or forward.                *)
(***************************************************************************)
EXTENDS KeepAlive

StepsOfTheClock == {-6, -4, 0, 3}
=============================================================================
