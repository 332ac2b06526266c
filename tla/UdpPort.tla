------------------------------ MODULE UdpPort -------------------------------
(***************************************************************************)
(* A Net::UDP object as its owner sees it: UdpSocket implements the        *)
(* DatagramPort of any one of its objects.                                 *)
(***************************************************************************)
EXTENDS UdpSocket

CONSTANT me  \* the object observed

ASSUME UdpPortAssumption == me \in Sockets

Waiting(s) == IF Live(s) THEN table[fd[s]].queue ELSE <<>>

Port == INSTANCE DatagramPort
  WITH Datagrams <- Lengths, Nothing <- None,
       open <- isOpen(me), inbox <- Waiting(me), got <- got[me]

(* What the owner of an object receives is what arrived since it last      *)
(* opened it, once each and in order, whatever the other objects and the   *)
(* rest of the process do to the descriptor table in the meantime.         *)
ImplementsPort == Port!Spec
=============================================================================
