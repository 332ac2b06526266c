--------------------------- MODULE UdpPortProofs ----------------------------
(***************************************************************************)
(* Theorems about Net::UDP for any number of objects, descriptors, ports   *)
(* and groups, any queue and any counter width; the last part shows that   *)
(* an object implements the inbox its owner sees (DatagramPort).           *)
(***************************************************************************)
EXTENDS UdpPort, TLAPS

(* The table after a close is a table again. *)
LEMMA ReleasedType ==
  ASSUME TypeOK, NEW s \in Sockets
  PROVE  Released(s) \in [Fds -> Descriptions \cup {Free}]
BY DEF Released, TypeOK

(* A new description is not the mark of an unused slot, nor has it a queue. *)
LEMMA FreshType ==
  ASSUME NEW s \in Sockets \cup {Foreign}, NEW share \in BOOLEAN
  PROVE  FreshSocket(s, share) \in Descriptions /\ FreshSocket(s, share) # Free
<1>1. FreshSocket(s, share) \in Descriptions
  BY DEF FreshSocket, Descriptions
<1>. QED BY <1>1, UdpAssumption

(* A description with another queue, another port or more groups. *)
LEMMA QueueUpdated ==
  ASSUME NEW d \in Descriptions, NEW q \in Seq(Lengths)
  PROVE  /\ [d EXCEPT !.queue = q] \in Descriptions
         /\ [d EXCEPT !.queue = q].owner = d.owner
         /\ [d EXCEPT !.queue = q].queue = q
BY DEF Descriptions

LEMMA PortUpdated ==
  ASSUME NEW d \in Descriptions, NEW p \in Ports \cup {0}
  PROVE  /\ [d EXCEPT !.port = p] \in Descriptions
         /\ [d EXCEPT !.port = p].owner = d.owner
         /\ [d EXCEPT !.port = p].queue = d.queue
BY DEF Descriptions

(* Giving a socket a port changes nothing else in the table. *)
LEMMA PortGivenKeeps ==
  ASSUME TypeOK, NEW f \in Fds, table[f] # Free, PortGiven(f)
  PROVE  /\ table' \in [Fds -> Descriptions \cup {Free}]
         /\ \A g \in Fds : g # f => table'[g] = table[g]
         /\ table'[f] # Free
         /\ table'[f].owner = table[f].owner
         /\ table'[f].queue = table[f].queue
<1>1. table[f] \in Descriptions
  BY DEF TypeOK
<1>2. CASE table[f].port # 0
  BY <1>2 DEF PortGiven, TypeOK
<1>3. CASE table[f].port = 0
  <2>1. PICK p \in Ports : table' = [table EXCEPT ![f].port = p]
    BY <1>3 DEF PortGiven
  <2>. DEFINE d == [table[f] EXCEPT !.port = p]
  <2>2. d \in Descriptions /\ d.owner = table[f].owner /\ d.queue = table[f].queue
    BY <1>1, PortUpdated
  <2>3. table' = [table EXCEPT ![f] = d]
    BY <2>1
  <2>. HIDE DEF d
  <2>. QED BY <2>2, <2>3, UdpAssumption DEF TypeOK
<1>. QED BY <1>2, <1>3

(* The queue of a description is a sequence: what it becomes when a        *)
(* datagram arrives and when the oldest one is taken.                      *)
LEMMA QueueSteps ==
  ASSUME NEW d \in Descriptions
  PROVE  /\ d.queue \in Seq(Lengths)
         /\ \A n \in Lengths : Append(d.queue, n) \in Seq(Lengths)
         /\ d.queue # <<>> => Head(d.queue) \in Lengths /\ Tail(d.queue) \in Seq(Lengths)
<1>1. d.queue \in Seq(Lengths)
  BY DEF Descriptions
<1>2. \A q \in Seq(Lengths) : q # <<>> => Head(q) \in Lengths /\ Tail(q) \in Seq(Lengths)
  OBVIOUS
<1>3. \A q \in Seq(Lengths), n \in Lengths : Append(q, n) \in Seq(Lengths)
  OBVIOUS
<1>. QED BY <1>1, <1>2, <1>3

(* Counting stays within the counters' width. *)
LEMMA CountType ==
  ASSUME TypeOK, NEW s \in Sockets, NEW n \in Nat,
         Count(s, "recv_packets", "recv_bytes", n) \/ Count(s, "sent_packets", "sent_bytes", n)
  PROVE  stats' \in [Sockets -> [sent_packets : Counters, sent_bytes : Counters,
                                 recv_packets : Counters, recv_bytes : Counters]]
<1>1. CounterMod \in Nat \ {0}
  BY UdpAssumption
<1>2. \A c \in Counters : (c + 1) % CounterMod \in Counters /\ (c + n) % CounterMod \in Counters
  BY <1>1 DEF Counters
<1>. HIDE DEF Counters
<1>. QED BY <1>2 DEF Count, TypeOK

(* Type correctness of the objects and of the descriptor table. *)
THEOREM TypeCorrect == Spec => []TypeOK
<1>. USE UdpAssumption
<1>1. Init => TypeOK
  BY DEF Init, TypeOK, Zeroed, Counters, None
<1>2. TypeOK /\ [Next]_vars => TypeOK'
  <2>. SUFFICES ASSUME TypeOK, [Next]_vars PROVE TypeOK'
    OBVIOUS
  <2>1. ASSUME NEW f \in Fds, ForeignOpen(f) PROVE TypeOK'
    BY <2>1, FreshType DEF ForeignOpen, TypeOK
  <2>2. ASSUME NEW f \in Fds, ForeignClose(f) PROVE TypeOK'
    BY <2>2 DEF ForeignClose, TypeOK
  <2>3. ASSUME NEW port \in Ports, NEW length \in Lengths, NEW receivers \in SUBSET Fds,
               Arrive(port, length, receivers)
        PROVE  TypeOK'
    <3>1. \A f \in receivers : [table[f] EXCEPT !.queue = Append(@, length)] \in Descriptions
      <4>1. \A d \in Descriptions : [d EXCEPT !.queue = Append(@, length)] \in Descriptions
        BY QueueSteps, QueueUpdated
      <4>2. \A f \in receivers : table[f] \in Descriptions
        BY <2>3 DEF Arrive, TypeOK
      <4>. QED BY <4>1, <4>2
    <3>. QED BY <2>3, <3>1 DEF Arrive, TypeOK
  <2>4. ASSUME NEW s \in Sockets, OpenNoSocket(s) PROVE TypeOK'
    BY <2>4, ReleasedType DEF OpenNoSocket, TypeOK
  <2>5. ASSUME NEW s \in Sockets, NEW share \in BOOLEAN, OpenNoTtl(s, share) PROVE TypeOK'
    BY <2>5, ReleasedType, FreshType DEF OpenNoTtl, TypeOK
  <2>6. ASSUME NEW s \in Sockets, NEW share \in BOOLEAN, NEW port \in Ports \cup {0},
               NEW bound \in BOOLEAN, OpenSocket(s, port, share, bound)
        PROVE  TypeOK'
    <3>1. [FreshSocket(s, share) EXCEPT !.port = IF bound THEN port ELSE 0] \in Descriptions
      <4>. DEFINE p == IF bound THEN port ELSE 0
      <4>1. p \in Ports \cup {0}
        OBVIOUS
      <4>. HIDE DEF p
      <4>2. [FreshSocket(s, share) EXCEPT !.port = p] \in Descriptions
        BY <4>1, FreshType, PortUpdated
      <4>. QED BY <4>2 DEF p
    <3>. QED BY <2>6, <3>1, ReleasedType DEF OpenSocket, TypeOK
  <2>7. ASSUME NEW s \in Sockets, Close(s) PROVE TypeOK'
    <3>1. Zeroed \in [sent_packets : Counters, sent_bytes : Counters,
                      recv_packets : Counters, recv_bytes : Counters]
      BY DEF Zeroed, Counters
    <3>. QED BY <2>7, <3>1, ReleasedType DEF Close, TypeOK
  <2>8. ASSUME NEW s \in Sockets, NEW group \in Groups, AddMulticast(s, group) PROVE TypeOK'
    <3>1. fd[s] \in Fds /\ table[fd[s]] \in Descriptions
      BY <2>8 DEF AddMulticast, Live, isOpen, None, TypeOK
    <3>2. [table[fd[s]] EXCEPT !.groups = @ \cup {group}] \in Descriptions
      BY <3>1 DEF Descriptions
    <3>. QED BY <2>8, <3>1, <3>2 DEF AddMulticast, TypeOK
  <2>9. ASSUME NEW s \in Sockets, NEW length \in Lengths, Send(s, length) PROVE TypeOK'
    <3>1. stats' \in [Sockets -> [sent_packets : Counters, sent_bytes : Counters,
                                  recv_packets : Counters, recv_bytes : Counters]]
      BY <2>9, CountType DEF Send, TypeOK
    <3>2. fd[s] \in Fds /\ table[fd[s]] # Free /\ PortGiven(fd[s])
      BY <2>9 DEF Send, Live, isOpen, None, TypeOK
    <3>3. table' \in [Fds -> Descriptions \cup {Free}]
      BY <3>2, PortGivenKeeps
    <3>. QED BY <2>9, <3>1, <3>3 DEF Send, TypeOK
  <2>10. ASSUME NEW s \in Sockets, Recv(s) PROVE TypeOK'
    <3>. DEFINE d == table[fd[s]]
    <3>1. fd[s] \in Fds /\ d \in Descriptions /\ d.queue # <<>>
      BY <2>10 DEF Recv, Pending, Live, isOpen, None, TypeOK
    <3>2. d.queue \in Seq(Lengths) /\ Head(d.queue) \in Lengths /\ Tail(d.queue) \in Seq(Lengths)
      BY <3>1, QueueSteps
    <3>3. [d EXCEPT !.queue = Tail(@)] \in Descriptions
      BY <3>1, <3>2, QueueUpdated
    <3>4. stats' \in [Sockets -> [sent_packets : Counters, sent_bytes : Counters,
                                  recv_packets : Counters, recv_bytes : Counters]]
      BY <2>10, <3>2, CountType DEF Recv, TypeOK
    <3>. QED BY <2>10, <3>1, <3>2, <3>3, <3>4 DEF Recv, TypeOK
  <2>11. CASE UNCHANGED vars
    BY <2>11 DEF vars, TypeOK
  <2>. QED
    BY <2>1, <2>2, <2>3, <2>4, <2>5, <2>6, <2>7, <2>8, <2>9, <2>10, <2>11
    DEF Next, Environment, Call
<1>. QED BY <1>1, <1>2, PTL DEF Spec

-----------------------------------------------------------------------------
(* Descriptors. *)

(* What closing or opening an object leaves of the table: the numbers of   *)
(* the other objects and of foreign owners are as before, and nothing      *)
(* there is this object's any more.                                        *)
LEMMA ReleasedKeepsOthers ==
  ASSUME TypeOK, DescriptorsAccounted, NEW s \in Sockets, NEW f \in Fds
  PROVE  /\ Released(s)[f] = Free \/ Released(s)[f].owner # s
         /\ Released(s)[f] = table[f] \/ Released(s)[f] = Free
         /\ table[f] # Free /\ table[f].owner # s => Released(s)[f] = table[f]
<1>1. CASE isOpen(s)
  <2>1. fd[s] \in Fds /\ table[fd[s]] # Free /\ table[fd[s]].owner = s
    BY <1>1, UdpAssumption DEF TypeOK, DescriptorsAccounted, Live, isOpen, None
  <2>2. Released(s)[f] = IF f = fd[s] THEN Free ELSE table[f]
    BY <1>1, <2>1 DEF Released, TypeOK
  <2>3. table[f] # Free /\ table[f].owner = s => fd[s] = f
    BY UdpAssumption DEF DescriptorsAccounted
  <2>. QED BY <2>1, <2>2, <2>3
<1>2. CASE ~isOpen(s)
  <2>1. Released(s) = table
    BY <1>2 DEF Released
  <2>2. table[f] # Free /\ table[f].owner = s => fd[s] = f
    BY UdpAssumption DEF DescriptorsAccounted
  <2>3. ~(fd[s] = f)
    BY <1>2, UdpAssumption DEF isOpen
  <2>. QED BY <2>1, <2>2, <2>3
<1>. QED BY <1>1, <1>2

(* Giving up a number, on close or when socket() fails. *)
LEMMA AccountedAfterRelease ==
  ASSUME TypeOK, DescriptorsAccounted, NEW s \in Sockets,
         table' = Released(s), fd' = [fd EXCEPT ![s] = None]
  PROVE  DescriptorsAccounted'
<1>1. ASSUME NEW t \in Sockets, isOpen(t)'
      PROVE  Live(t)' /\ table'[fd'[t]].owner = t
  <2>1. t # s /\ fd'[t] = fd[t] /\ isOpen(t)
    BY <1>1 DEF TypeOK, isOpen, None
  <2>2. fd[t] \in Fds /\ table[fd[t]] # Free /\ table[fd[t]].owner = t
    BY <2>1, UdpAssumption DEF TypeOK, DescriptorsAccounted, Live, isOpen, None
  <2>3. Released(s)[fd[t]] = table[fd[t]]
    BY <2>1, <2>2, ReleasedKeepsOthers
  <2>. QED BY <1>1, <2>1, <2>2, <2>3 DEF Live
<1>2. ASSUME NEW f \in Fds, table'[f] # Free, table'[f].owner # Foreign
      PROVE  fd'[table'[f].owner] = f
  <2>1. table'[f] = table[f] /\ table[f].owner # s
    BY <1>2, ReleasedKeepsOthers
  <2>2. fd[table[f].owner] = f /\ table[f].owner \in Sockets
    BY <1>2, <2>1 DEF DescriptorsAccounted, TypeOK, Descriptions
  <2>. QED BY <2>1, <2>2 DEF TypeOK
<1>. QED BY <1>1, <1>2 DEF DescriptorsAccounted

(* Taking a number the kernel hands out. *)
LEMMA AccountedAfterOpen ==
  ASSUME TypeOK, DescriptorsAccounted, NEW s \in Sockets, NEW g \in Fds,
         NEW d \in Descriptions, d.owner = s, Released(s)[g] = Free,
         table' = [Released(s) EXCEPT ![g] = d], fd' = [fd EXCEPT ![s] = g]
  PROVE  DescriptorsAccounted'
<1>1. d # Free
  BY UdpAssumption
<1>2. \A f \in Fds : table'[f] = IF f = g THEN d ELSE Released(s)[f]
  BY ReleasedType
<1>3. \A t \in Sockets : fd'[t] = IF t = s THEN g ELSE fd[t]
  BY DEF TypeOK
<1>4. ASSUME NEW t \in Sockets, isOpen(t)'
      PROVE  Live(t)' /\ table'[fd'[t]].owner = t
  <2>1. CASE t = s
    BY <1>1, <1>2, <1>3, <1>4, <2>1 DEF Live
  <2>2. CASE t # s
    <3>1. fd'[t] = fd[t] /\ isOpen(t)
      BY <1>3, <1>4, <2>2 DEF isOpen
    <3>2. fd[t] \in Fds /\ table[fd[t]] # Free /\ table[fd[t]].owner = t
      BY <3>1, UdpAssumption DEF TypeOK, DescriptorsAccounted, Live, isOpen, None
    <3>3. Released(s)[fd[t]] = table[fd[t]] /\ fd[t] # g
      BY <2>2, <3>2, ReleasedKeepsOthers
    <3>. QED BY <1>2, <1>4, <3>1, <3>2, <3>3 DEF Live
  <2>. QED BY <2>1, <2>2
<1>5. ASSUME NEW f \in Fds, table'[f] # Free, table'[f].owner # Foreign
      PROVE  fd'[table'[f].owner] = f
  <2>1. CASE f = g
    BY <1>2, <1>3, <2>1
  <2>2. CASE f # g
    <3>1. table'[f] = table[f] /\ table[f].owner # s
      BY <1>2, <1>5, <2>2, ReleasedKeepsOthers
    <3>2. fd[table[f].owner] = f /\ table[f].owner \in Sockets
      BY <1>5, <3>1 DEF DescriptorsAccounted, TypeOK, Descriptions
    <3>. QED BY <1>3, <3>1, <3>2
  <2>. QED BY <2>1, <2>2
<1>. QED BY <1>4, <1>5 DEF DescriptorsAccounted

(* A step that keeps every owner where it is keeps the account. *)
LEMMA AccountedWhileOwnersStay ==
  ASSUME TypeOK, DescriptorsAccounted, UNCHANGED fd,
         \A f \in Fds : /\ table[f] = Free => table'[f] = Free
                        /\ table[f] # Free => /\ table'[f] # Free
                                              /\ table'[f].owner = table[f].owner
  PROVE  DescriptorsAccounted'
<1>1. \A s \in Sockets : isOpen(s) => fd[s] \in Fds
  BY UdpAssumption DEF TypeOK, isOpen, None
<1>. QED BY <1>1 DEF DescriptorsAccounted, Live, isOpen

(* No descriptor leaks, none is shared and none is used after it was       *)
(* closed, whatever is opened, fails, is closed and reused.                *)
THEOREM Accounted == Spec => []DescriptorsAccounted
<1>1. Init => DescriptorsAccounted
  BY DEF Init, DescriptorsAccounted, isOpen, None
<1>2. TypeOK /\ DescriptorsAccounted /\ [Next]_vars => DescriptorsAccounted'
  <2>. SUFFICES ASSUME TypeOK, DescriptorsAccounted, [Next]_vars PROVE DescriptorsAccounted'
    OBVIOUS
  <2>1. ASSUME NEW f \in Fds, ForeignOpen(f) PROVE DescriptorsAccounted'
    <3>1. \A s \in Sockets : isOpen(s) => fd[s] \in Fds /\ fd[s] # f
      BY <2>1, UdpAssumption DEF ForeignOpen, TypeOK, DescriptorsAccounted, Live, isOpen, None
    <3>2. FreshSocket(Foreign, FALSE).owner = Foreign
      BY DEF FreshSocket
    <3>. QED BY <2>1, <3>1, <3>2 DEF ForeignOpen, TypeOK, DescriptorsAccounted, Live, isOpen
  <2>2. ASSUME NEW f \in Fds, ForeignClose(f) PROVE DescriptorsAccounted'
    <3>1. \A s \in Sockets : isOpen(s) => fd[s] \in Fds /\ fd[s] # f
      BY <2>2, UdpAssumption DEF ForeignClose, TypeOK, DescriptorsAccounted, Live, isOpen, None
    <3>. QED BY <2>2, <3>1 DEF ForeignClose, TypeOK, DescriptorsAccounted, Live, isOpen
  <2>3. ASSUME NEW port \in Ports, NEW length \in Lengths, NEW receivers \in SUBSET Fds,
               Arrive(port, length, receivers)
        PROVE  DescriptorsAccounted'
    <3>1. ASSUME NEW f \in receivers
          PROVE  table'[f] # Free /\ table'[f].owner = table[f].owner
      <4>1. table[f] \in Descriptions /\ table'[f] = [table[f] EXCEPT !.queue = Append(@, length)]
        BY <2>3 DEF Arrive, TypeOK
      <4>2. table'[f] \in Descriptions /\ table'[f].owner = table[f].owner
        <5>. DEFINE q == Append(table[f].queue, length)
        <5>1. q \in Seq(Lengths)
          BY <4>1, QueueSteps
        <5>2. table'[f] = [table[f] EXCEPT !.queue = q]
          BY <4>1
        <5>. HIDE DEF q
        <5>. QED BY <4>1, <5>1, <5>2, QueueUpdated
      <4>. QED BY <4>2, UdpAssumption
    <3>2. \A f \in Fds \ receivers : table'[f] = table[f]
      BY <2>3 DEF Arrive
    <3>3. \A f \in receivers : table[f] # Free
      BY <2>3 DEF Arrive
    <3>. QED BY <2>3, <3>1, <3>2, <3>3, AccountedWhileOwnersStay DEF Arrive
  <2>4. ASSUME NEW s \in Sockets, OpenNoSocket(s) PROVE DescriptorsAccounted'
    BY <2>4, AccountedAfterRelease DEF OpenNoSocket
  <2>5. ASSUME NEW s \in Sockets, NEW share \in BOOLEAN, OpenNoTtl(s, share)
        PROVE  DescriptorsAccounted'
    <3>1. FreshSocket(s, share) \in Descriptions /\ FreshSocket(s, share).owner = s
      BY FreshType DEF FreshSocket
    <3>. QED BY <2>5, <3>1, AccountedAfterOpen DEF OpenNoTtl
  <2>6. ASSUME NEW s \in Sockets, NEW share \in BOOLEAN, NEW port \in Ports \cup {0},
               NEW bound \in BOOLEAN, OpenSocket(s, port, share, bound)
        PROVE  DescriptorsAccounted'
    <3>. DEFINE p == IF bound THEN port ELSE 0
                d == [FreshSocket(s, share) EXCEPT !.port = p]
    <3>1. p \in Ports \cup {0}
      OBVIOUS
    <3>. HIDE DEF p
    <3>2. d \in Descriptions /\ d.owner = s
      BY <3>1, FreshType, PortUpdated DEF FreshSocket
    <3>3. PICK g \in Fds : /\ Released(s)[g] = Free
                           /\ table' = [Released(s) EXCEPT ![g] = d]
                           /\ fd' = [fd EXCEPT ![s] = g]
      BY <2>6 DEF OpenSocket, p
    <3>. HIDE DEF d
    <3>. QED BY <3>2, <3>3, AccountedAfterOpen
  <2>7. ASSUME NEW s \in Sockets, Close(s) PROVE DescriptorsAccounted'
    BY <2>7, AccountedAfterRelease DEF Close
  <2>8. ASSUME NEW s \in Sockets, NEW group \in Groups, AddMulticast(s, group)
        PROVE  DescriptorsAccounted'
    <3>1. fd[s] \in Fds /\ table[fd[s]] \in Descriptions /\ table[fd[s]] # Free
      BY <2>8 DEF AddMulticast, Live, isOpen, None, TypeOK
    <3>2. [table[fd[s]] EXCEPT !.groups = @ \cup {group}] \in Descriptions
      BY <3>1 DEF Descriptions
    <3>3. [table[fd[s]] EXCEPT !.groups = @ \cup {group}].owner = table[fd[s]].owner
      BY <3>1 DEF Descriptions
    <3>. QED BY <2>8, <3>1, <3>2, <3>3, AccountedWhileOwnersStay, UdpAssumption
         DEF AddMulticast, TypeOK
  <2>9. ASSUME NEW s \in Sockets, NEW length \in Lengths, Send(s, length)
        PROVE  DescriptorsAccounted'
    <3>1. fd[s] \in Fds /\ table[fd[s]] # Free /\ PortGiven(fd[s]) /\ fd' = fd
      BY <2>9 DEF Send, Live, isOpen, None, TypeOK
    <3>2. \A f \in Fds : /\ table[f] = Free => table'[f] = Free
                         /\ table[f] # Free => /\ table'[f] # Free
                                               /\ table'[f].owner = table[f].owner
      BY <3>1, PortGivenKeeps
    <3>. QED BY <3>1, <3>2, AccountedWhileOwnersStay
  <2>10. ASSUME NEW s \in Sockets, Recv(s) PROVE DescriptorsAccounted'
    <3>1. fd[s] \in Fds /\ table[fd[s]] \in Descriptions /\ table[fd[s]] # Free
          /\ table[fd[s]].queue # <<>>
      BY <2>10 DEF Recv, Pending, Live, isOpen, None, TypeOK
    <3>2. /\ [table[fd[s]] EXCEPT !.queue = Tail(@)] \in Descriptions
          /\ [table[fd[s]] EXCEPT !.queue = Tail(@)].owner = table[fd[s]].owner
      BY <3>1, QueueSteps, QueueUpdated
    <3>. QED BY <2>10, <3>1, <3>2, AccountedWhileOwnersStay, UdpAssumption
         DEF Recv, TypeOK
  <2>11. CASE UNCHANGED vars
    BY <2>11 DEF vars, DescriptorsAccounted, Live, isOpen
  <2>. QED
    BY <2>1, <2>2, <2>3, <2>4, <2>5, <2>6, <2>7, <2>8, <2>9, <2>10, <2>11
    DEF Next, Environment, Call
<1>. QED BY <1>1, <1>2, TypeCorrect, PTL DEF Spec

-----------------------------------------------------------------------------
(* The descriptors of the rest of the process. *)

IsForeign(d) == d # Free /\ d.owner = Foreign

(* Nothing in this process binds a foreign descriptor to a port.           *)
ForeignUnbound == \A f \in Fds : IsForeign(table[f]) => table[f].port = 0

(* What a step may do to a slot of the table: nothing, a call of its       *)
(* foreign owner, or something that concerns no foreign owner.             *)
LEMMA SlotStep ==
  ASSUME TypeOK, DescriptorsAccounted, ForeignUnbound, Next, NEW f \in Fds
  PROVE  \/ table'[f] = table[f]
         \/ ForeignOpen(f)
         \/ ForeignClose(f)
         \/ ~IsForeign(table[f]) /\ ~IsForeign(table'[f])
<1>. DEFINE Goal == \/ table'[f] = table[f]
                    \/ ForeignOpen(f)
                    \/ ForeignClose(f)
                    \/ ~IsForeign(table[f]) /\ ~IsForeign(table'[f])
<1>a. ASSUME NEW s \in Sockets
      PROVE  \/ Released(s)[f] = table[f]
             \/ Released(s)[f] = Free /\ ~IsForeign(table[f])
  BY <1>a, ReleasedKeepsOthers, UdpAssumption DEF IsForeign
<1>b. ASSUME NEW s \in Sockets, Live(s)
      PROVE  fd[s] \in Fds /\ table[fd[s]] \in Descriptions /\ table[fd[s]].owner = s
  <2>1. fd[s] \in Fds
    BY <1>b DEF Live, isOpen, None, TypeOK
  <2>2. table[fd[s]] \in Descriptions
    BY <1>b, <2>1 DEF Live, TypeOK
  <2>. QED BY <1>b, <2>1, <2>2 DEF Live, DescriptorsAccounted
<1>1. ASSUME NEW g \in Fds, ForeignOpen(g) PROVE Goal
  BY <1>1 DEF ForeignOpen, TypeOK
<1>2. ASSUME NEW g \in Fds, ForeignClose(g) PROVE Goal
  BY <1>2 DEF ForeignClose, TypeOK
<1>3. ASSUME NEW port \in Ports, NEW length \in Lengths, NEW receivers \in SUBSET Fds,
             Arrive(port, length, receivers)
      PROVE  Goal
  <2>1. CASE f \in receivers
    <3>1. table[f] \in Descriptions /\ ~IsForeign(table[f])
      BY <1>3, <2>1, UdpAssumption DEF Arrive, TypeOK, ForeignUnbound
    <3>2. table'[f] = [table[f] EXCEPT !.queue = Append(@, length)]
      BY <1>3, <2>1 DEF Arrive
    <3>3. table'[f].owner = table[f].owner
      BY <3>1, <3>2, QueueSteps, QueueUpdated
    <3>. QED BY <3>1, <3>3, <1>3, <2>1 DEF IsForeign, Arrive
  <2>2. CASE f \notin receivers
    BY <1>3, <2>2 DEF Arrive
  <2>. QED BY <2>1, <2>2
<1>4. ASSUME NEW s \in Sockets, OpenNoSocket(s) \/ Close(s) PROVE Goal
  BY <1>4, <1>a DEF OpenNoSocket, Close, IsForeign
<1>5. ASSUME NEW s \in Sockets, NEW share \in BOOLEAN, OpenNoTtl(s, share) PROVE Goal
  <2>1. PICK g \in Fds : Released(s)[g] = Free
                         /\ table' = [Released(s) EXCEPT ![g] = FreshSocket(s, share)]
    BY <1>5 DEF OpenNoTtl
  <2>2. FreshSocket(s, share).owner = s
    BY DEF FreshSocket
  <2>. HIDE DEF FreshSocket
  <2>. QED BY <2>1, <2>2, <1>a, ReleasedType, UdpAssumption DEF IsForeign
<1>6. ASSUME NEW s \in Sockets, NEW share \in BOOLEAN, NEW port \in Ports \cup {0},
             NEW bound \in BOOLEAN, OpenSocket(s, port, share, bound)
      PROVE  Goal
  <2>. DEFINE d == [FreshSocket(s, share) EXCEPT !.port = IF bound THEN port ELSE 0]
  <2>1. PICK g \in Fds : Released(s)[g] = Free /\ table' = [Released(s) EXCEPT ![g] = d]
    BY <1>6 DEF OpenSocket
  <2>2. d.owner = s
    BY DEF FreshSocket
  <2>. HIDE DEF d
  <2>. QED BY <2>1, <2>2, <1>a, ReleasedType, UdpAssumption DEF IsForeign
<1>7. ASSUME NEW s \in Sockets, NEW group \in Groups, AddMulticast(s, group) PROVE Goal
  <2>1. fd[s] \in Fds /\ table[fd[s]] \in Descriptions /\ table[fd[s]].owner = s
    BY <1>7, <1>b DEF AddMulticast
  <2>2. [table[fd[s]] EXCEPT !.groups = @ \cup {group}].owner = s
    BY <2>1 DEF Descriptions
  <2>. QED BY <1>7, <2>1, <2>2, UdpAssumption DEF AddMulticast, TypeOK, IsForeign
<1>8. ASSUME NEW s \in Sockets, NEW length \in Lengths, Send(s, length) PROVE Goal
  <2>1. fd[s] \in Fds /\ table[fd[s]].owner = s /\ table[fd[s]] # Free /\ PortGiven(fd[s])
    BY <1>8, <1>b DEF Send, Live
  <2>2. CASE f = fd[s]
    BY <2>1, <2>2, PortGivenKeeps, UdpAssumption DEF IsForeign
  <2>3. CASE f # fd[s]
    BY <2>1, <2>3, PortGivenKeeps
  <2>. QED BY <2>2, <2>3
<1>9. ASSUME NEW s \in Sockets, Recv(s) PROVE Goal
  <2>1. fd[s] \in Fds /\ table[fd[s]] \in Descriptions /\ table[fd[s]].owner = s
        /\ table[fd[s]].queue # <<>>
    BY <1>9, <1>b DEF Recv, Pending
  <2>2. [table[fd[s]] EXCEPT !.queue = Tail(@)].owner = s
    BY <2>1, QueueSteps, QueueUpdated
  <2>. QED BY <1>9, <2>1, <2>2, UdpAssumption DEF Recv, TypeOK, IsForeign
<1>. QED BY <1>1, <1>2, <1>3, <1>4, <1>5, <1>6, <1>7, <1>8, <1>9
     DEF Next, Environment, Call

(* No call of an object touches a descriptor opened elsewhere in the       *)
(* process, whatever numbers are reused.                                   *)
THEOREM ForeignSafe == Spec => ForeignUntouched
<1>. DEFINE Act == \A f \in Fds : table[f] # Free /\ table[f].owner = Foreign /\ table'[f] # table[f]
                                   => ForeignClose(f)
<1>1. Init => ForeignUnbound
  BY DEF Init, ForeignUnbound, IsForeign
<1>2. TypeOK /\ DescriptorsAccounted /\ ForeignUnbound /\ [Next]_vars => ForeignUnbound'
  <2>. SUFFICES ASSUME TypeOK, DescriptorsAccounted, ForeignUnbound, [Next]_vars,
                       NEW f \in Fds, IsForeign(table'[f])
                PROVE  table'[f].port = 0
    BY DEF ForeignUnbound, IsForeign
  <2>1. CASE Next
    <3>1. ForeignOpen(f) => table'[f].port = 0
      BY DEF ForeignOpen, TypeOK, FreshSocket
    <3>2. ~ForeignClose(f)
      BY DEF ForeignClose, TypeOK, IsForeign
    <3>. QED BY <2>1, <3>1, <3>2, SlotStep DEF ForeignUnbound
  <2>2. CASE UNCHANGED vars
    BY <2>2 DEF vars, ForeignUnbound
  <2>. QED BY <2>1, <2>2
<1>3. TypeOK /\ DescriptorsAccounted /\ ForeignUnbound /\ [Next]_vars => [Act]_vars
  <2>. SUFFICES ASSUME TypeOK, DescriptorsAccounted, ForeignUnbound, Next PROVE Act
    OBVIOUS
  <2>. SUFFICES ASSUME NEW f \in Fds, IsForeign(table[f]), table'[f] # table[f]
                PROVE  ForeignClose(f)
    BY DEF IsForeign
  <2>1. ~ForeignOpen(f)
    BY DEF ForeignOpen, IsForeign
  <2>. QED BY <2>1, SlotStep
<1>. QED BY <1>1, <1>2, <1>3, TypeCorrect, Accounted, PTL DEF Spec, ForeignUntouched

-----------------------------------------------------------------------------
(* The refinement of DatagramPort. *)

(* An open object holds a description of its own. *)
LEMMA OwnDescription ==
  ASSUME TypeOK, DescriptorsAccounted, NEW s \in Sockets, isOpen(s)
  PROVE  /\ Live(s)
         /\ fd[s] \in Fds
         /\ table[fd[s]] \in Descriptions
         /\ table[fd[s]].owner = s
<1>1. fd[s] \in Fds
  BY DEF isOpen, None, TypeOK
<1>2. Live(s) /\ table[fd[s]].owner = s
  BY DEF DescriptorsAccounted
<1>3. table[fd[s]] \in Descriptions
  BY <1>1, <1>2 DEF Live, TypeOK
<1>. QED BY <1>1, <1>2, <1>3

(* The owner sees nothing of a step that leaves its number, what it last   *)
(* received and its queue alone.                                           *)
LEMMA Unseen ==
  ASSUME TypeOK, DescriptorsAccounted, fd'[me] = fd[me], got'[me] = got[me],
         isOpen(me) => /\ table'[fd[me]] # Free
                       /\ table'[fd[me]].queue = table[fd[me]].queue
  PROVE  UNCHANGED Port!vars
<1>. USE UdpPortAssumption
<1>1. CASE isOpen(me)
  BY <1>1, OwnDescription DEF Port!vars, Waiting, Live, isOpen
<1>2. CASE ~isOpen(me)
  BY <1>2 DEF Port!vars, Waiting, Live, isOpen
<1>. QED BY <1>1, <1>2

(* A step that gives the owner's object another socket, or none. *)
LEMMA Renewed ==
  ASSUME isOpen(me)' => table'[fd'[me]] = Free \/ table'[fd'[me]].queue = <<>>,
         got'[me] = got[me]
  PROVE  Port!Renew
<1>1. isOpen(me)' \in BOOLEAN
  BY DEF isOpen
<1>2. Waiting(me)' = <<>>
  BY DEF Waiting, Live, isOpen
<1>. QED BY <1>1, <1>2 DEF Port!Renew

(* A call of another object is not seen by the owner. *)
LEMMA OtherCall ==
  ASSUME TypeOK, DescriptorsAccounted, NEW s \in Sockets, s # me, Call(s)
  PROVE  UNCHANGED Port!vars
<1>. USE UdpPortAssumption
<1>. DEFINE Goal == UNCHANGED Port!vars
<1>a. isOpen(me) => /\ fd[me] \in Fds
                    /\ table[fd[me]] # Free
                    /\ Released(s)[fd[me]] = table[fd[me]]
  BY OwnDescription, ReleasedKeepsOthers DEF Live
<1>b. isOpen(me) /\ isOpen(s) => fd[s] # fd[me]
  BY OwnDescription
<1>1. ASSUME OpenNoSocket(s) \/ Close(s) PROVE Goal
  <2>1. fd'[me] = fd[me] /\ got' = got /\ table' = Released(s)
    BY <1>1 DEF OpenNoSocket, Close, TypeOK
  <2>. QED BY <2>1, <1>a, Unseen
<1>2. ASSUME NEW d, NEW g \in Fds, Released(s)[g] = Free,
             table' = [Released(s) EXCEPT ![g] = d],
             fd' = [fd EXCEPT ![s] = g], got' = got
      PROVE  Goal
  <2>1. fd'[me] = fd[me]
    BY <1>2 DEF TypeOK
  <2>2. isOpen(me) => table'[fd[me]] = table[fd[me]]
    BY <1>2, <1>a, ReleasedType
  <2>. QED BY <1>2, <2>1, <2>2, <1>a, Unseen
<1>3. ASSUME NEW share \in BOOLEAN, OpenNoTtl(s, share) PROVE Goal
  BY <1>3, <1>2 DEF OpenNoTtl
<1>4. ASSUME NEW share \in BOOLEAN, NEW port \in Ports \cup {0}, NEW bound \in BOOLEAN,
             OpenSocket(s, port, share, bound)
      PROVE  Goal
  BY <1>4, <1>2 DEF OpenSocket
<1>5. ASSUME NEW group \in Groups, AddMulticast(s, group) PROVE Goal
  <2>1. fd' = fd /\ got' = got /\ isOpen(s)
    BY <1>5 DEF AddMulticast, Live
  <2>2. isOpen(me) => table'[fd[me]] = table[fd[me]]
    BY <1>5, <2>1, <1>a, <1>b DEF AddMulticast, TypeOK
  <2>. QED BY <2>1, <2>2, <1>a, Unseen
<1>6. ASSUME NEW length \in Lengths, Send(s, length) PROVE Goal
  <2>1. fd' = fd /\ got' = got /\ isOpen(s) /\ PortGiven(fd[s])
    BY <1>6 DEF Send, Live
  <2>2. fd[s] \in Fds /\ table[fd[s]] # Free
    BY <2>1, OwnDescription DEF Live
  <2>3. isOpen(me) => table'[fd[me]] = table[fd[me]]
    BY <2>1, <2>2, <1>a, <1>b, PortGivenKeeps
  <2>. QED BY <2>1, <2>3, <1>a, Unseen
<1>7. ASSUME Recv(s) PROVE Goal
  <2>1. fd' = fd /\ isOpen(s)
    BY <1>7 DEF Recv, Pending, Live
  <2>2. got'[me] = got[me]
    BY <1>7 DEF Recv, TypeOK
  <2>3. isOpen(me) => table'[fd[me]] = table[fd[me]]
    BY <1>7, <2>1, <1>a, <1>b DEF Recv, TypeOK
  <2>. QED BY <2>1, <2>2, <2>3, <1>a, Unseen
<1>. QED BY <1>1, <1>3, <1>4, <1>5, <1>6, <1>7 DEF Call

(* A call of the owner renews the inbox, receives from it or is not seen. *)
LEMMA OwnCall ==
  ASSUME TypeOK, DescriptorsAccounted, Call(me)
  PROVE  [Port!Next]_Port!vars
<1>. USE UdpPortAssumption
<1>. DEFINE Goal == [Port!Next]_Port!vars
<1>a. Port!Renew => Goal
  BY DEF Port!Next
<1>1. ASSUME OpenNoSocket(me) \/ Close(me) PROVE Goal
  <2>1. fd'[me] = None /\ got' = got
    BY <1>1 DEF OpenNoSocket, Close, TypeOK
  <2>. QED BY <2>1, <1>a, Renewed DEF isOpen, None
<1>2. ASSUME NEW d, NEW g \in Fds, d.queue = <<>>,
             table' = [Released(me) EXCEPT ![g] = d],
             fd' = [fd EXCEPT ![me] = g], got' = got
      PROVE  Goal
  <2>1. fd'[me] = g /\ table'[g] = d
    BY <1>2, ReleasedType DEF TypeOK
  <2>2. table'[fd'[me]].queue = <<>> /\ got'[me] = got[me]
    BY <1>2, <2>1
  <2>3. Port!Renew
    BY <2>2, Renewed
  <2>. QED BY <2>3, <1>a
<1>3. ASSUME NEW share \in BOOLEAN, OpenNoTtl(me, share) PROVE Goal
  <2>. DEFINE d == FreshSocket(me, share)
  <2>1. d.queue = <<>>
    BY DEF FreshSocket
  <2>2. PICK g \in Fds : table' = [Released(me) EXCEPT ![g] = d]
                         /\ fd' = [fd EXCEPT ![me] = g] /\ got' = got
    BY <1>3 DEF OpenNoTtl
  <2>. HIDE DEF d, Goal
  <2>. QED BY <2>1, <2>2, <1>2
<1>4. ASSUME NEW share \in BOOLEAN, NEW port \in Ports \cup {0}, NEW bound \in BOOLEAN,
             OpenSocket(me, port, share, bound)
      PROVE  Goal
  <2>. DEFINE p == IF bound THEN port ELSE 0
              d == [FreshSocket(me, share) EXCEPT !.port = p]
  <2>1. d.queue = <<>>
    BY DEF FreshSocket
  <2>2. PICK g \in Fds : table' = [Released(me) EXCEPT ![g] = d]
                         /\ fd' = [fd EXCEPT ![me] = g] /\ got' = got
    BY <1>4 DEF OpenSocket
  <2>. HIDE DEF d, Goal
  <2>. QED BY <2>1, <2>2, <1>2
<1>5. ASSUME NEW group \in Groups, AddMulticast(me, group) PROVE Goal
  <2>1. isOpen(me) /\ fd' = fd /\ got' = got
    BY <1>5 DEF AddMulticast, Live
  <2>2. table'[fd[me]] = [table[fd[me]] EXCEPT !.groups = @ \cup {group}]
    BY <1>5, <2>1, OwnDescription DEF AddMulticast, TypeOK
  <2>3. table'[fd[me]] \in Descriptions /\ table'[fd[me]].queue = table[fd[me]].queue
    BY <2>1, <2>2, OwnDescription DEF Descriptions
  <2>. QED BY <2>1, <2>3, Unseen, UdpAssumption
<1>6. ASSUME NEW length \in Lengths, Send(me, length) PROVE Goal
  <2>1. fd' = fd /\ got' = got /\ isOpen(me) /\ PortGiven(fd[me])
    BY <1>6 DEF Send, Live
  <2>2. fd[me] \in Fds /\ table[fd[me]] # Free
    BY <2>1, OwnDescription DEF Live
  <2>3. table'[fd[me]] # Free /\ table'[fd[me]].queue = table[fd[me]].queue
    BY <2>1, <2>2, PortGivenKeeps
  <2>. QED BY <2>1, <2>3, Unseen
<1>7. ASSUME Recv(me) PROVE Goal
  <2>. DEFINE q == table[fd[me]].queue
  <2>1. isOpen(me) /\ Waiting(me) = q /\ q # <<>> /\ fd' = fd
    BY <1>7 DEF Recv, Pending, Live, Waiting
  <2>2. got'[me] = Head(q)
    BY <1>7 DEF Recv, TypeOK
  <2>3. table'[fd[me]] = [table[fd[me]] EXCEPT !.queue = Tail(q)]
    BY <1>7, <2>1, OwnDescription DEF Recv, TypeOK
  <2>4. table'[fd[me]] \in Descriptions /\ table'[fd[me]].queue = Tail(q)
    <3>1. Tail(q) \in Seq(Lengths)
      BY <2>1, OwnDescription, QueueSteps
    <3>2. table[fd[me]] \in Descriptions
      BY <2>1, OwnDescription
    <3>. DEFINE r == Tail(q)
    <3>3. table'[fd[me]] = [table[fd[me]] EXCEPT !.queue = r] /\ r \in Seq(Lengths)
      BY <2>3, <3>1
    <3>. HIDE DEF r
    <3>4. table'[fd[me]] \in Descriptions /\ table'[fd[me]].queue = r
      BY <3>2, <3>3, QueueUpdated
    <3>. QED BY <3>4 DEF r
  <2>5. isOpen(me)' /\ Waiting(me)' = Tail(q)
    BY <2>1, <2>4, UdpAssumption DEF isOpen, Waiting, Live
  <2>. QED BY <2>1, <2>2, <2>5 DEF Port!Receive, Port!Next, isOpen
<1>. QED BY <1>1, <1>3, <1>4, <1>5, <1>6, <1>7 DEF Call

(* A datagram that arrives reaches the inbox if the owner's socket is one  *)
(* of the receivers, and is not seen otherwise.                            *)
LEMMA Arrival ==
  ASSUME TypeOK, DescriptorsAccounted, NEW port \in Ports, NEW length \in Lengths,
         NEW receivers \in SUBSET Fds, Arrive(port, length, receivers)
  PROVE  [Port!Next]_Port!vars
<1>. USE UdpPortAssumption
<1>1. CASE isOpen(me) /\ fd[me] \in receivers
  <2>. DEFINE q == table[fd[me]].queue
  <2>1. Waiting(me) = q /\ fd' = fd /\ got' = got /\ Len(q) < QueueBound
    BY <1>1, OwnDescription DEF Arrive, Waiting
  <2>2. table'[fd[me]] = [table[fd[me]] EXCEPT !.queue = Append(q, length)]
    BY <1>1 DEF Arrive
  <2>3. table'[fd[me]] \in Descriptions /\ table'[fd[me]].queue = Append(q, length)
    <3>1. Append(q, length) \in Seq(Lengths)
      BY <1>1, OwnDescription, QueueSteps
    <3>2. table[fd[me]] \in Descriptions
      BY <1>1, OwnDescription
    <3>. DEFINE a == Append(q, length)
    <3>3. table'[fd[me]] = [table[fd[me]] EXCEPT !.queue = a] /\ a \in Seq(Lengths)
      BY <2>2, <3>1
    <3>. HIDE DEF a
    <3>4. table'[fd[me]] \in Descriptions /\ table'[fd[me]].queue = a
      BY <3>2, <3>3, QueueUpdated
    <3>. QED BY <3>4 DEF a
  <2>4. isOpen(me)' /\ Waiting(me)' = Append(q, length)
    BY <1>1, <2>1, <2>3, UdpAssumption DEF isOpen, Waiting, Live
  <2>. QED BY <1>1, <2>1, <2>4 DEF Port!Arrive, Port!Next, isOpen
<1>2. CASE ~(isOpen(me) /\ fd[me] \in receivers)
  BY <1>2, OwnDescription, Unseen DEF Arrive, Live
<1>. QED BY <1>1, <1>2

(* What the owner of an object receives is what arrived since it last      *)
(* opened it, once each and in order, whatever the other objects and the   *)
(* rest of the process do to the descriptor table in the meantime.         *)
THEOREM Implements == Spec => ImplementsPort
<1>. USE UdpPortAssumption
<1>1. Init => Port!Init
  BY DEF Init, Port!Init, Waiting, Live, isOpen, None
<1>2. TypeOK /\ DescriptorsAccounted /\ [Next]_vars => [Port!Next]_Port!vars
  <2>. SUFFICES ASSUME TypeOK, DescriptorsAccounted, [Next]_vars
                PROVE  [Port!Next]_Port!vars
    OBVIOUS
  <2>1. ASSUME NEW f \in Fds, ForeignOpen(f) PROVE UNCHANGED Port!vars
    BY <2>1, OwnDescription, Unseen DEF ForeignOpen, TypeOK, Live
  <2>2. ASSUME NEW f \in Fds, ForeignClose(f) PROVE UNCHANGED Port!vars
    BY <2>2, OwnDescription, Unseen, UdpAssumption DEF ForeignClose, TypeOK, Live
  <2>3. CASE UNCHANGED vars
    BY <2>3, OwnDescription, Unseen DEF vars, Live
  <2>. QED BY <2>1, <2>2, <2>3, Arrival, OwnCall, OtherCall DEF Next, Environment
<1>. QED BY <1>1, <1>2, TypeCorrect, Accounted, PTL DEF Spec, ImplementsPort, Port!Spec
=============================================================================
