----------------------------- MODULE UdpSocket ------------------------------
(***************************************************************************)
(* Net::UDP (net/netraw.h, net/netraw.cpp): objects that own a kernel      *)
(* socket through an integer descriptor, next to the descriptors the rest  *)
(* of the process holds (GrSim_Client's socket, stdio).                    *)
(*                                                                         *)
(* The kernel is external: a table from descriptors to open descriptions.  *)
(* Any call on it may fail where the code tests or ignores its result.  A  *)
(* datagram is its length; 0 is the empty datagram.                        *)
(***************************************************************************)
EXTENDS Integers, Sequences

CONSTANTS
  Sockets,     \* the Net::UDP objects of the process
  Foreign,     \* owner of every descriptor opened elsewhere in the process
  Free,        \* an unused slot of the descriptor table
  Fds,         \* the descriptors the process may have
  Ports,       \* UDP ports asked for or handed out; 0 asks for none
  Groups,      \* multicast groups
  Lengths,     \* lengths of the datagrams sent and received
  QueueBound,  \* datagrams a kernel receive queue holds
  CounterMod   \* 2^32: unsigned counters wrap

(* What the kernel keeps for a descriptor. *)
Descriptions ==
  [owner : Sockets \cup {Foreign}, port : Ports \cup {0}, share : BOOLEAN,
   groups : SUBSET Groups, queue : Seq(Lengths)]

ASSUME UdpAssumption ==
  /\ Fds \subseteq Nat
  /\ Foreign \notin Sockets
  /\ Free \notin Descriptions
  /\ Ports \subseteq Nat \ {0}
  /\ Lengths \subseteq Nat
  /\ QueueBound \in Nat
  /\ CounterMod \in Nat \ {0}

VARIABLES
  fd,     \* the member fd of each object, -1 when it has none
  table,  \* the kernel's descriptor table
  stats,  \* the four public counters of each object
  got     \* the datagram its last successful recv returned, None before

vars == <<fd, table, stats, got>>

None == -1

FreshSocket(owner, share) ==
  [owner |-> owner, port |-> 0, share |-> share, groups |-> {}, queue |-> <<>>]

Zeroed == [sent_packets |-> 0, sent_bytes |-> 0, recv_packets |-> 0, recv_bytes |-> 0]

Init ==
  /\ fd = [s \in Sockets |-> None]
  /\ table = [f \in Fds |-> Free]
  /\ stats = [s \in Sockets |-> Zeroed]
  /\ got = [s \in Sockets |-> None]

-----------------------------------------------------------------------------
(* open, close, addMulticast. *)

isOpen(s) == fd[s] >= 0

(* The kernel knows the number: other calls on it fail with EBADF. *)
Live(s) == isOpen(s) /\ table[fd[s]] # Free

(* The table after `if(fd >= 0) ::close(fd)`: whatever the number names    *)
(* now is closed.                                                          *)
Released(s) == IF isOpen(s) THEN [table EXCEPT ![fd[s]] = Free] ELSE table

(* A port is refused when somebody in this process holds it and one of the *)
(* two did not ask for sharing (programs elsewhere may hold it as well).   *)
PortTaken(tbl, port, share) ==
  \E f \in Fds : tbl[f] # Free /\ tbl[f].port = port /\ ~(share /\ tbl[f].share)

(* socket() fails: every later call of open works on -1 and the TTL one    *)
(* makes it return false.                                                  *)
OpenNoSocket(s) ==
  /\ table' = Released(s)
  /\ fd' = [fd EXCEPT ![s] = None]
  /\ UNCHANGED <<stats, got>>

(* Setting the TTL fails: false is returned with a socket left open. *)
OpenNoTtl(s, share) ==
  \E f \in Fds :
    /\ Released(s)[f] = Free
    /\ table' = [Released(s) EXCEPT ![f] = FreshSocket(s, share)]
    /\ fd' = [fd EXCEPT ![s] = f]
    /\ UNCHANGED <<stats, got>>

(* Mutated: the previous socket is not closed. *)
OpenSocketLeaking(s, port, share, bound) ==
  \E f \in Fds :
    /\ table[f] = Free
    /\ bound => port # 0 /\ ~PortTaken(table, port, share)
    /\ table' = [table EXCEPT ![f] =
         [FreshSocket(s, share) EXCEPT !.port = IF bound THEN port ELSE 0]]
    /\ fd' = [fd EXCEPT ![s] = f]
    /\ UNCHANGED <<stats, got>>

(* True is returned, whether bind succeeded, failed or was not tried. *)
OpenSocket(s, port, share, bound) ==
  \E f \in Fds :
    /\ Released(s)[f] = Free
    /\ bound => port # 0 /\ ~PortTaken(Released(s), port, share)
    /\ table' = [Released(s) EXCEPT ![f] =
         [FreshSocket(s, share) EXCEPT !.port = IF bound THEN port ELSE 0]]
    /\ fd' = [fd EXCEPT ![s] = f]
    /\ UNCHANGED <<stats, got>>

(* Mutated: the object keeps the number of the descriptor it closed. *)
CloseKeepingNumber(s) ==
  /\ table' = Released(s)
  /\ stats' = [stats EXCEPT ![s] = Zeroed]
  /\ UNCHANGED <<fd, got>>

Close(s) ==
  /\ table' = Released(s)
  /\ fd' = [fd EXCEPT ![s] = None]
  /\ stats' = [stats EXCEPT ![s] = Zeroed]
  /\ UNCHANGED got

(* IP_ADD_MEMBERSHIP took the group in; the output interface may still be  *)
(* refused, which returns false and keeps the membership.                  *)
AddMulticast(s, group) ==
  /\ Live(s)
  /\ group \notin table[fd[s]].groups
  /\ table' = [table EXCEPT ![fd[s]].groups = @ \cup {group}]
  /\ UNCHANGED <<fd, stats, got>>

-----------------------------------------------------------------------------
(* send, recv. *)

(* Mutated: the counters are wider than the unsigned of the code. *)
CountUnwrapped(s, packets, bytes, length) ==
  stats' = [stats EXCEPT ![s][packets] = @ + 1, ![s][bytes] = @ + length]

Count(s, packets, bytes, length) ==
  stats' = [stats EXCEPT ![s][packets] = (@ + 1) % CounterMod,
                         ![s][bytes] = (@ + length) % CounterMod]

(* The kernel gives a socket without a port one to send from. *)
PortGiven(f) ==
  IF table[f].port # 0 THEN UNCHANGED table
  ELSE \E port \in Ports :
         /\ ~PortTaken(table, port, table[f].share)
         /\ table' = [table EXCEPT ![f].port = port]

(* sendto takes the datagram, or fails once the socket has its port; an    *)
(* empty datagram is not counted.                                          *)
Send(s, length) ==
  /\ Live(s)
  /\ PortGiven(fd[s])
  /\ \/ length > 0 /\ Count(s, "sent_packets", "sent_bytes", length)
     \/ UNCHANGED stats
  /\ UNCHANGED <<fd, got>>

Pending(s) == Live(s) /\ table[fd[s]].queue # <<>>

(* Mutated: the datagram is only looked at, as with MSG_PEEK. *)
RecvPeeking(s) ==
  /\ Pending(s)
  /\ LET length == Head(table[fd[s]].queue) IN
       /\ got' = [got EXCEPT ![s] = length]
       /\ IF length > 0 THEN Count(s, "recv_packets", "recv_bytes", length)
                        ELSE UNCHANGED stats
  /\ UNCHANGED <<fd, table>>

(* recvfrom returns the oldest datagram; an empty one is not counted. *)
Recv(s) ==
  /\ Pending(s)
  /\ table' = [table EXCEPT ![fd[s]].queue = Tail(@)]
  /\ LET length == Head(table[fd[s]].queue) IN
       /\ got' = [got EXCEPT ![s] = length]
       /\ IF length > 0 THEN Count(s, "recv_packets", "recv_bytes", length)
                        ELSE UNCHANGED stats
  /\ UNCHANGED fd

-----------------------------------------------------------------------------
(* The rest of the process and the network (external).  The ports of       *)
(* foreign descriptors are none of Ports.                                  *)

ForeignOpen(f) ==
  /\ table[f] = Free
  /\ table' = [table EXCEPT ![f] = FreshSocket(Foreign, FALSE)]
  /\ UNCHANGED <<fd, stats, got>>

ForeignClose(f) ==
  /\ table[f] # Free
  /\ table[f].owner = Foreign
  /\ table' = [table EXCEPT ![f] = Free]
  /\ UNCHANGED <<fd, stats, got>>

(* A datagram reaches some of the sockets bound to its port (one if it is  *)
(* unicast, any number if multicast); a full queue drops it.               *)
Arrive(port, length, receivers) ==
  /\ receivers # {}
  /\ \A f \in receivers : /\ table[f] # Free
                          /\ table[f].port = port
                          /\ Len(table[f].queue) < QueueBound
  /\ table' = [f \in Fds |->
       IF f \in receivers
         THEN [table[f] EXCEPT !.queue = Append(@, length)]
         ELSE table[f]]
  /\ UNCHANGED <<fd, stats, got>>

Environment ==
  \/ \E f \in Fds : ForeignOpen(f) \/ ForeignClose(f)
  \/ \E port \in Ports, length \in Lengths, receivers \in SUBSET Fds :
       Arrive(port, length, receivers)

Call(s) ==
  \/ OpenNoSocket(s)
  \/ \E share \in BOOLEAN :
       \/ OpenNoTtl(s, share)
       \/ \E port \in Ports \cup {0}, bound \in BOOLEAN :
            OpenSocket(s, port, share, bound)
  \/ Close(s)
  \/ \E group \in Groups : AddMulticast(s, group)
  \/ \E length \in Lengths : Send(s, length)
  \/ Recv(s)

Next == Environment \/ \E s \in Sockets : Call(s)

Spec == Init /\ [][Next]_vars

-----------------------------------------------------------------------------
(* Properties. *)

Counters == 0 .. CounterMod - 1

(* Type invariant of the objects and of the descriptor table. *)
TypeOK ==
  /\ fd \in [Sockets -> Fds \cup {None}]
  /\ table \in [Fds -> Descriptions \cup {Free}]
  /\ stats \in [Sockets -> [sent_packets : Counters, sent_bytes : Counters,
                            recv_packets : Counters, recv_bytes : Counters]]
  /\ got \in [Sockets -> Lengths \cup {None}]

(* Every object that holds a number holds its own live descriptor, and     *)
(* every descriptor an object created is still held: no descriptor leaks,  *)
(* none is shared, none is used after it was closed, through any sequence  *)
(* of opens, failed opens, closes and descriptor reuse.                    *)
DescriptorsAccounted ==
  /\ \A s \in Sockets : isOpen(s) => Live(s) /\ table[fd[s]].owner = s
  /\ \A f \in Fds : table[f] # Free /\ table[f].owner # Foreign => fd[table[f].owner] = f

(* No call of an object ever touches a descriptor opened elsewhere in the  *)
(* process, though descriptor numbers are reused.                          *)
ForeignUntouched ==
  [][\A f \in Fds : table[f] # Free /\ table[f].owner = Foreign /\ table'[f] # table[f]
       => ForeignClose(f)]_vars
=============================================================================
