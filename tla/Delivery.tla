------------------------------- MODULE Delivery -------------------------------
(***************************************************************************)
(* What the engine of mqtt_cli.h promises about the QoS 1 and QoS 2        *)
(* messages handed to mqtt_cli_publish, without queue, connection or time. *)
(***************************************************************************)
CONSTANT Message

VARIABLES
  taken,     \* messages the client is responsible for
  arrived,   \* messages the broker has received
  complete,  \* messages the client knows to have arrived
  abandoned  \* messages the client has stopped sending

vars == <<taken, arrived, complete, abandoned>>

TypeOK ==
  /\ taken \subseteq Message /\ arrived \subseteq taken
  /\ complete \subseteq arrived /\ abandoned \subseteq taken \ complete

Init == taken = {} /\ arrived = {} /\ complete = {} /\ abandoned = {}

(* mqtt_cli_publish.                                                       *)
Take(m) ==
  /\ m \notin taken
  /\ taken' = taken \cup {m}
  /\ UNCHANGED <<arrived, complete, abandoned>>

(* A copy of the message reaches the broker, perhaps after the client has  *)
(* stopped sending it.                                                     *)
Arrive(m) ==
  /\ m \in taken \ arrived
  /\ arrived' = arrived \cup {m}
  /\ UNCHANGED <<taken, complete, abandoned>>

(* The client hears of the arrival: the exchange completes, or (QoS 2) its *)
(* second half begins, with tries of its own.                              *)
Hear(m) ==
  /\ m \in arrived \ complete
  /\ abandoned' = abandoned \ {m}
  /\ complete' \in {complete, complete \cup {m}}
  /\ UNCHANGED <<taken, arrived>>

(* The last try has timed out.                                             *)
Abandon(m) ==
  /\ m \in taken \ (complete \cup abandoned)
  /\ abandoned' = abandoned \cup {m}
  /\ UNCHANGED <<taken, arrived, complete>>

Next == \E m \in Message : Take(m) \/ Arrive(m) \/ Hear(m) \/ Abandon(m)

Spec == Init /\ [][Next]_vars
=============================================================================
