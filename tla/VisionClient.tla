---------------------------- MODULE VisionClient ----------------------------
(***************************************************************************)
(* RoboCupSSLClient (net/robocup_ssl_client.cpp) on top of its Net::UDP    *)
(* member mc.  open() is several kernel calls: datagrams arrive and other  *)
(* descriptors come and go between them.                                   *)
(***************************************************************************)
EXTENDS Integers, Sequences

CONSTANTS
  mc, Foreign, Free, Fds, Lengths, QueueBound, CounterMod,  \* of UdpSocket
  Port,        \* _port
  Group,       \* _net_address
  HandedBound  \* datagrams one opening hands out in the model

ASSUME VisionAssumption == Port \in Nat \ {0} /\ HandedBound \in Nat

VARIABLES
  fd, table, stats, got,  \* of UdpSocket
  pc,       \* where open() is: "idle", "opening" or "joining"
  opened,   \* what the last open() returned; FALSE after close()
  handed    \* what receive() took since the last close, not wrapped (history)

vars == <<fd, table, stats, got, pc, opened, handed>>
clientVars == <<pc, opened, handed>>

Net == INSTANCE UdpSocket WITH Sockets <- {mc}, Ports <- {Port}, Groups <- {Group}

ASSUME NetAssumption == Net!UdpAssumption

(* Datagrams with and without content, those with content, and their length. *)
Nothing == [datagrams |-> 0, packets |-> 0, bytes |-> 0]

Init ==
  /\ Net!Init
  /\ pc = "idle"
  /\ opened = FALSE
  /\ handed = Nothing

-----------------------------------------------------------------------------
close ==
  /\ pc = "idle"
  /\ Net!Close(mc)
  /\ opened' = FALSE
  /\ handed' = Nothing
  /\ UNCHANGED pc

(* Mutated: the socket is left to mc.open() to replace. *)
BeginOpenKeeping ==
  /\ pc = "idle"
  /\ opened' = FALSE
  /\ handed' = Nothing
  /\ pc' = "opening"
  /\ UNCHANGED <<fd, table, stats, got>>

(* open() closes whatever was open first. *)
BeginOpen ==
  /\ pc = "idle"
  /\ Net!Close(mc)
  /\ opened' = FALSE
  /\ handed' = Nothing
  /\ pc' = "opening"

Return(value) == opened' = value /\ pc' = "idle" /\ UNCHANGED handed

(* mc.open(_port, true, true, blocking) returns false; its socket, if it   *)
(* has one, stays open.                                                    *)
OpenRefused ==
  /\ pc = "opening"
  /\ Net!OpenNoSocket(mc) \/ Net!OpenNoTtl(mc, TRUE)
  /\ Return(FALSE)

OpenAccepted ==
  /\ pc = "opening"
  /\ \E bound \in BOOLEAN : Net!OpenSocket(mc, Port, TRUE, bound)
  /\ pc' = "joining"
  /\ UNCHANGED <<opened, handed>>

(* The membership is taken.  A net_interface that could not be resolved    *)
(* has left the address at 0.0.0.0, which is any interface; the output     *)
(* interface may still be refused.                                         *)
Join ==
  /\ pc = "joining"
  /\ Net!AddMulticast(mc, Group)
  /\ \E outputSet \in BOOLEAN : Return(outputSet)

(* Mutated: the result of addMulticast is ignored, as that of bind is. *)
JoinIgnored ==
  /\ pc = "joining"
  /\ Return(TRUE)
  /\ UNCHANGED <<fd, table, stats, got>>

(* The group could not be resolved or the kernel refuses the membership:   *)
(* false is returned and the socket stays open and bound.                  *)
JoinRefused ==
  /\ pc = "joining"
  /\ Return(FALSE)
  /\ UNCHANGED <<fd, table, stats, got>>

(* receive() takes a datagram whatever open() returned; with nothing to    *)
(* take it returns false and changes nothing.                              *)
receive ==
  /\ pc = "idle"
  /\ handed.datagrams < HandedBound
  /\ Net!Recv(mc)
  /\ LET length == Head(table[fd[mc]].queue) IN
       handed' = [datagrams |-> handed.datagrams + 1,
                  packets   |-> handed.packets + (IF length > 0 THEN 1 ELSE 0),
                  bytes     |-> handed.bytes + length]
  /\ UNCHANGED <<pc, opened>>

Client == close \/ BeginOpen \/ OpenRefused \/ OpenAccepted
            \/ Join \/ JoinRefused \/ receive

Next == Client \/ (Net!Environment /\ UNCHANGED clientVars)

Spec == Init /\ [][Next]_vars

-----------------------------------------------------------------------------
(* Properties. *)

(* Type invariant of the client. *)
TypeOK ==
  /\ Net!TypeOK
  /\ pc \in {"idle", "opening", "joining"}
  /\ opened \in BOOLEAN
  /\ handed \in [datagrams : 0 .. HandedBound, packets : Nat, bytes : Nat]

(* While open() has answered true the client holds a live socket that is a *)
(* member of the group: no failure on the way to the membership is hidden, *)
(* whatever descriptors are reused afterwards.                             *)
MemberWhileOpened ==
  opened =>
    /\ Net!Live(mc)
    /\ table[fd[mc]].owner = mc
    /\ Group \in table[fd[mc]].groups

(* The counters of mc tell what was received on the socket in use, and not *)
(* what an earlier opening received: mc.open() itself does not reset them. *)
StatsOfThisSocket ==
  /\ stats[mc].recv_packets = handed.packets % CounterMod
  /\ stats[mc].recv_bytes = handed.bytes % CounterMod

(* "bind socket to port if nonzero": an open() that answers true has bound *)
(* the port it was asked for.  The result of bind is not looked at, so     *)
(* this does not hold.                                                     *)
BoundWhileOpened == opened => table[fd[mc]].port = Port

=============================================================================
