---------------------------- MODULE DatagramPort ----------------------------
(***************************************************************************)
(* What a datagram socket object promises its owner: while it is open it   *)
(* is an inbox.  Datagrams are received once each, in the order in which   *)
(* they arrived, never from before the last open; a full inbox drops the   *)
(* newest; closing or reopening forgets what was waiting.                  *)
(***************************************************************************)
EXTENDS Naturals, Sequences

CONSTANTS
  Datagrams,   \* what may arrive
  Nothing,     \* no datagram
  QueueBound   \* datagrams the inbox holds

VARIABLES
  open,   \* is the object usable
  inbox,  \* datagrams arrived and not yet received
  got     \* the datagram received last, or Nothing

vars == <<open, inbox, got>>

Init == ~open /\ inbox = <<>> /\ got = Nothing

(* A (re)open that succeeds or fails, or a close. *)
Renew == open' \in BOOLEAN /\ inbox' = <<>> /\ UNCHANGED got

Arrive ==
  /\ open
  /\ Len(inbox) < QueueBound
  /\ \E d \in Datagrams : inbox' = Append(inbox, d)
  /\ UNCHANGED <<open, got>>

Receive ==
  /\ open
  /\ inbox # <<>>
  /\ got' = Head(inbox)
  /\ inbox' = Tail(inbox)
  /\ UNCHANGED open

Next == Renew \/ Arrive \/ Receive

Spec == Init /\ [][Next]_vars
=============================================================================
