----------------------------- MODULE TcpTransfer -----------------------------
(***************************************************************************)
(* The linux_tcp_ functions of mqtt_cli.h under the main loop of           *)
(* pms5003st_pub.c and pms5003st_sub.c: the sockets the address loop of    *)
(* linux_tcp_connect opens, and the way of a batch through the loop of     *)
(* linux_tcp_send.  The bytes of the batches of a connection are numbered  *)
(* from 1.  What is received is the parser's matter.                       *)
(***************************************************************************)
EXTENDS Integers, Sequences, FiniteSets

CONSTANTS
  MaxAddresses,  \* addresses getaddrinfo finds, at most
  Sizes,         \* sizes of `outgoing'; 0 if there is none
  Room,          \* bytes the kernel takes that the broker has not read
  MaxFiles,      \* sockets a process may have
  MaxAttempts,   \* bound: calls of linux_tcp_connect
  MaxOut         \* bound: bytes handed over on a connection

ASSUME TcpAssumption ==
  /\ MaxAddresses \in Nat \ {0} /\ Sizes \subseteq Nat /\ 0 \in Sizes
  /\ Room \in Nat \ {0} /\ MaxFiles \in Nat
  /\ MaxAttempts \in Nat /\ MaxOut \in Nat

VARIABLES
  pc,        \* "down", "try", "idle", "send", "recv", "handle", "failed"
  found,     \* addresses found
  tried,     \* and tried
  fd,        \* linux_tcp_connect's fd, then net->fd
  open,      \* the sockets the process has open
  size,      \* linux_tcp_send: size,
  totlen,    \* totlen,
  buf,       \* and buf, as the number of bytes before it
  base,      \* bytes of the batches sent completely
  wire,      \* bytes the kernel has accepted
  read,      \* how many of them the broker has read
  broken,    \* the connection is at its end
  attempts   \* history and bound: calls of linux_tcp_connect

sockets == <<found, tried, fd, open, attempts>>
sending == <<size, totlen, buf, base, wire>>
vars    == <<pc, sockets, sending, read, broken>>

NoFd == -1

(* The kernel gives out a number that is free, if there is one.            *)
Free == (0..(MaxFiles - 1)) \ open

Init ==
  /\ pc = "down" /\ found = 0 /\ tried = 0 /\ fd = NoFd /\ open = {} /\ attempts = 0
  /\ size = 0 /\ totlen = 0 /\ buf = 0 /\ base = 0 /\ wire = <<>>
  /\ read = 0 /\ broken = FALSE
-----------------------------------------------------------------------------
(* linux_tcp_connect.  If getaddrinfo fails nothing happens.               *)
Resolve ==
  /\ pc = "down" /\ attempts < MaxAttempts
  /\ pc' = "try" /\ found' \in 1..MaxAddresses /\ tried' = 0 /\ fd' = NoFd
  /\ attempts' = attempts + 1
  /\ UNCHANGED <<open, sending, read, broken>>

Address ==
  /\ pc = "try" /\ tried < found /\ tried' = tried + 1
  /\ UNCHANGED <<pc, found, attempts, sending, read, broken>>

(* getnameinfo fails: the descriptor stays what it was.                    *)
NameFails == Address /\ UNCHANGED <<fd, open>>

(* socket fails.                                                           *)
SocketFails == Address /\ fd' = NoFd /\ UNCHANGED open

(* connect fails: the socket is closed again.                              *)
(* Mutants: the descriptor is not reset; the socket is not closed.         *)
ConnectFailsKeeps ==
  Address /\ fd' \in Free /\ UNCHANGED open
ConnectFailsLeaks ==
  Address /\ fd' = NoFd /\ \E s \in Free : open' = open \union {s}

ConnectFails ==
  Address /\ Free # {} /\ fd' = NoFd /\ UNCHANGED open

(* The loop goes on to the next address even so.                           *)
Connects ==
  Address /\ fd' \in Free /\ open' = open \union {fd'}

(* The end of the list: net or null.  The stream of a new connection is    *)
(* empty.                                                                  *)
EndOfList ==
  /\ pc = "try" /\ tried = found
  /\ IF fd = NoFd
     THEN pc' = "down" /\ UNCHANGED <<sending, read, broken>>
     ELSE /\ pc' = "idle" /\ broken' = FALSE
          /\ size' = 0 /\ totlen' = 0 /\ buf' = 0 /\ base' = 0 /\ wire' = <<>> /\ read' = 0
  /\ UNCHANGED sockets
-----------------------------------------------------------------------------
(* linux_tcp_transfer, and in it linux_tcp_send unless there is nothing to *)
(* send.                                                                   *)
Transfer ==
  /\ pc = "idle"
  /\ \E n \in Sizes :
       /\ base + n <= MaxOut
       /\ size' = n
       /\ pc' = IF n = 0 THEN "recv" ELSE "send"
  /\ totlen' = 0 /\ buf' = base
  /\ UNCHANGED <<sockets, base, wire, read, broken>>

(* send takes some of the bytes, as many as there is room for; without     *)
(* room it fails with EAGAIN, after a second, and is called again.         *)
Taken(n) == wire \o [i \in 1..n |-> buf + i]

RoomLeft == Room - (Len(wire) - read)

(* Mutants: the pointer stays; the last byte is never asked for.           *)
SendStays ==
  /\ pc = "send" /\ totlen # size
  /\ \E n \in 1..RoomLeft :
       /\ n <= size - totlen
       /\ wire' = Taken(n) /\ totlen' = totlen + n
  /\ UNCHANGED <<pc, sockets, size, buf, base, read, broken>>
SendStops ==
  /\ pc = "send" /\ totlen # size
  /\ \E n \in 1..RoomLeft :
       /\ n < size - totlen
       /\ wire' = Taken(n) /\ totlen' = totlen + n /\ buf' = buf + n
  /\ UNCHANGED <<pc, sockets, size, base, read, broken>>

Send ==
  /\ pc = "send" /\ totlen # size
  /\ \E n \in 1..RoomLeft :
       /\ n <= size - totlen
       /\ wire' = Taken(n) /\ totlen' = totlen + n /\ buf' = buf + n
  /\ UNCHANGED <<pc, sockets, size, base, read, broken>>

(* The loop is over: the rest of linux_tcp_transfer.                       *)
Sent ==
  /\ pc = "send" /\ totlen = size
  /\ pc' = "recv" /\ base' = base + size
  /\ UNCHANGED <<sockets, size, totlen, buf, wire, read, broken>>

SendFails ==
  /\ pc = "send" /\ totlen # size /\ broken
  /\ pc' = "failed"
  /\ UNCHANGED <<sockets, sending, read, broken>>

(* recv gives some bytes or none; or the end of the connection.            *)
Recv ==
  /\ pc = "recv"
  /\ pc' = "handle" \/ (broken /\ pc' = "failed")
  /\ UNCHANGED <<sockets, sending, read, broken>>

(* mqtt_cli_incoming and mqtt_cli_elapsed: another turn, or not.           *)
Handle ==
  /\ pc = "handle"
  /\ pc' \in {"idle", "failed"}
  /\ UNCHANGED <<sockets, sending, read, broken>>

(* linux_tcp_close.                                                        *)
Close ==
  /\ pc = "failed"
  /\ pc' = "down" /\ open' = open \ {fd} /\ fd' = NoFd
  /\ UNCHANGED <<found, tried, attempts, sending, read, broken>>
-----------------------------------------------------------------------------
(* The broker and the network.                                             *)
BrokerReads ==
  /\ read < Len(wire) /\ ~broken
  /\ read' \in (read + 1)..Len(wire)
  /\ UNCHANGED <<pc, sockets, sending, broken>>

Breaks ==
  /\ pc \in {"idle", "send", "recv", "handle"} /\ ~broken
  /\ broken' = TRUE
  /\ UNCHANGED <<pc, sockets, sending, read>>

Next ==
  \/ Resolve \/ NameFails \/ SocketFails \/ ConnectFails \/ Connects \/ EndOfList
  \/ Transfer \/ Send \/ Sent \/ SendFails \/ Recv \/ Handle \/ Close
  \/ BrokerReads \/ Breaks

Spec == Init /\ [][Next]_vars

(* The client runs; the broker goes on reading.                            *)
Fairness == WF_vars(Send \/ Sent \/ SendFails) /\ WF_vars(BrokerReads)

FairSpec == Spec /\ Fairness
-----------------------------------------------------------------------------
(* Every variable is in its domain.                                        *)
TypeOK ==
  /\ pc \in {"down", "try", "idle", "send", "recv", "handle", "failed"}
  /\ found \in Nat /\ tried \in 0..found /\ found <= MaxAddresses
  /\ fd \in {NoFd} \union 0..(MaxFiles - 1) /\ open \subseteq 0..(MaxFiles - 1)
  /\ attempts \in Nat /\ (pc = "try" => attempts > 0)
  /\ size \in Nat /\ totlen \in Nat /\ buf \in Nat /\ base \in Nat
  /\ wire \in Seq(Nat) /\ read \in Nat /\ broken \in BOOLEAN

(* A connection the main loop works with has a socket that is open: no     *)
(* address of the list leaves the number of a closed one behind.           *)
Connected == pc \in {"idle", "send", "recv", "handle", "failed"}

NetIsOpen == Connected => fd \in open

(* The address loop leaks sockets, since it does not stop at a success,    *)
(* but at most one for every address of a call but the first: a name with  *)
(* one address leaks none, however often the connection is lost, refused   *)
(* or made again.                                                          *)
LeaksBounded == Cardinality(open \ {fd}) <= attempts * (MaxAddresses - 1)

(* Whatever send takes at a time, the batches of a connection go out whole *)
(* and in order, and only the last may be cut, by the end of the           *)
(* connection: linux_tcp_transfer is one step for the client engine.       *)
Promised == INSTANCE Batches WITH
  up      <- Connected /\ pc # "failed",
  written <- IF pc = "send" THEN SubSeq(wire, 1, base) ELSE wire

WholeBatches == Promised!Spec

(* While the broker goes on reading, a transfer comes to its end: however  *)
(* often the kernel has no room, and although linux_tcp_send has no limit  *)
(* of its own.                                                             *)
TransferEnds == pc = "send" ~> pc # "send"
=============================================================================
