------------------------- MODULE VisionClientProofs -------------------------
(***************************************************************************)
(* The client is one more user of Net::UDP: each of its steps is a step of *)
(* the socket, so what is proved of UdpSocket holds of the client's mc,    *)
(* and the promises of open() and of the counters rest on it.              *)
(***************************************************************************)
EXTENDS VisionClient, TLAPS

P == INSTANCE UdpPortProofs
       WITH Sockets <- {mc}, Ports <- {Port}, Groups <- {Group}, me <- mc

(* The assumptions of the socket's theorems, at the client's socket. *)
LEMMA SocketAssumptions == P!UdpAssumption /\ P!UdpPortAssumption
<1>1. P!UdpAssumption
  BY NetAssumption DEF Net!UdpAssumption, Net!Descriptions, P!UdpAssumption, P!Descriptions
<1>2. P!UdpPortAssumption
  BY DEF P!UdpPortAssumption
<1>. QED BY <1>1, <1>2

-----------------------------------------------------------------------------
(* Every step of the client is a step of Net::UDP or leaves it alone. *)

LEMMA OpenIsSocketStep ==
  ASSUME OpenRefused \/ OpenAccepted
  PROVE  P!Call(mc)
<1>1. ASSUME Net!OpenNoSocket(mc) PROVE P!Call(mc)
  BY <1>1 DEF P!Call, P!OpenNoSocket, Net!OpenNoSocket, Net!Released, P!Released,
              Net!isOpen, P!isOpen, Net!None, P!None
<1>2. ASSUME Net!OpenNoTtl(mc, TRUE) PROVE P!Call(mc)
  <2>1. P!OpenNoTtl(mc, TRUE)
    BY <1>2 DEF P!OpenNoTtl, Net!OpenNoTtl, Net!Released, P!Released, Net!isOpen, P!isOpen,
                Net!FreshSocket, P!FreshSocket
  <2>. QED BY <2>1 DEF P!Call
<1>3. ASSUME NEW bound \in BOOLEAN, Net!OpenSocket(mc, Port, TRUE, bound) PROVE P!Call(mc)
  <2>1. P!OpenSocket(mc, Port, TRUE, bound)
    BY <1>3 DEF P!OpenSocket, Net!OpenSocket, Net!Released, P!Released, Net!isOpen, P!isOpen,
                Net!FreshSocket, P!FreshSocket, Net!PortTaken, P!PortTaken
  <2>. QED BY <2>1 DEF P!Call
<1>. QED BY <1>1, <1>2, <1>3 DEF OpenRefused, OpenAccepted

LEMMA ClientIsSocketStep ==
  ASSUME Client
  PROVE  P!Call(mc) \/ UNCHANGED P!vars
<1>1. ASSUME Net!Close(mc) PROVE P!Call(mc)
  BY <1>1 DEF P!Call, P!Close, Net!Close, Net!Released, P!Released, Net!isOpen, P!isOpen,
              Net!None, P!None, Net!Zeroed, P!Zeroed
<1>2. ASSUME Net!AddMulticast(mc, Group) PROVE P!Call(mc)
  <2>1. P!AddMulticast(mc, Group)
    BY <1>2 DEF P!AddMulticast, Net!AddMulticast, Net!Live, P!Live, Net!isOpen, P!isOpen
  <2>. QED BY <2>1 DEF P!Call
<1>3. ASSUME Net!Recv(mc) PROVE P!Call(mc)
  BY <1>3 DEF P!Call, P!Recv, Net!Recv, Net!Pending, P!Pending, Net!Live, P!Live,
              Net!isOpen, P!isOpen, Net!Count, P!Count
<1>. QED BY <1>1, <1>2, <1>3, OpenIsSocketStep
         DEF Client, close, BeginOpen, Join, JoinRefused, receive, P!vars

LEMMA StepIsSocketStep == [Next]_vars => [P!Next]_(P!vars)
<1>1. ASSUME Net!Environment PROVE P!Next
  <2>1. P!Environment
    BY <1>1 DEF Net!Environment, P!Environment, Net!ForeignOpen, P!ForeignOpen,
                Net!ForeignClose, P!ForeignClose, Net!Arrive, P!Arrive,
                Net!FreshSocket, P!FreshSocket
  <2>. QED BY <2>1 DEF P!Next
<1>2. ASSUME Client PROVE [P!Next]_(P!vars)
  BY <1>2, ClientIsSocketStep DEF P!Next
<1>3. UNCHANGED vars => UNCHANGED P!vars
  BY DEF vars, P!vars
<1>. QED BY <1>1, <1>2, <1>3 DEF Next

(* The client's behaviours are behaviours of Net::UDP: the descriptor      *)
(* table and the object mc only ever change as its methods, the kernel and *)
(* the rest of the process change them.                                    *)
THEOREM ClientUsesSocket == Spec => P!Spec
<1>1. Init => P!Init
  BY DEF Init, Net!Init, P!Init, Net!None, P!None, Net!Zeroed, P!Zeroed
<1>. QED BY <1>1, StepIsSocketStep, PTL DEF Spec, P!Spec

(* What is proved of Net::UDP, as the client may use it. *)
THEOREM SocketInvariants == Spec => [](Net!TypeOK /\ Net!DescriptorsAccounted)
<1>1. P!UdpAssumption /\ P!UdpPortAssumption
  BY SocketAssumptions
<1>2. P!Spec => []P!TypeOK
  BY <1>1, P!TypeCorrect
<1>3. P!Spec => []P!DescriptorsAccounted
  BY <1>1, P!Accounted
<1>4. P!TypeOK /\ P!DescriptorsAccounted => Net!TypeOK /\ Net!DescriptorsAccounted
  BY DEF P!TypeOK, Net!TypeOK, P!DescriptorsAccounted, Net!DescriptorsAccounted,
         P!Descriptions, Net!Descriptions, P!Counters, Net!Counters, P!None, Net!None,
         P!Live, Net!Live, P!isOpen, Net!isOpen
<1>. QED BY <1>2, <1>3, <1>4, ClientUsesSocket, PTL

-----------------------------------------------------------------------------
(* Types. *)

(* The datagram receive() takes has a length, and what is left is a queue. *)
LEMMA OldestDatagram ==
  ASSUME Net!TypeOK, Net!Pending(mc)
  PROVE  /\ fd[mc] \in Fds
         /\ table[fd[mc]] \in Net!Descriptions
         /\ Head(table[fd[mc]].queue) \in Lengths
         /\ Head(table[fd[mc]].queue) \in Nat
<1>1. fd[mc] \in Fds
  BY DEF Net!TypeOK, Net!Pending, Net!Live, Net!isOpen, Net!None
<1>2. table[fd[mc]] \in Net!Descriptions
  BY <1>1 DEF Net!TypeOK, Net!Pending, Net!Live
<1>3. table[fd[mc]].queue \in Seq(Lengths) /\ table[fd[mc]].queue # <<>>
  BY <1>2 DEF Net!Descriptions, Net!Pending
<1>4. \A q \in Seq(Lengths) : q # <<>> => Head(q) \in Lengths
  OBVIOUS
<1>5. Lengths \subseteq Nat
  BY NetAssumption DEF Net!UdpAssumption
<1>. QED BY <1>1, <1>2, <1>3, <1>4, <1>5

ClientTypes ==
  /\ pc \in {"idle", "opening", "joining"}
  /\ opened \in BOOLEAN
  /\ handed \in [datagrams : 0 .. HandedBound, packets : Nat, bytes : Nat]

LEMMA NothingType ==
  Nothing \in [datagrams : 0 .. HandedBound, packets : Nat, bytes : Nat]
<1>1. 0 \in 0 .. HandedBound
  BY VisionAssumption
<1>. QED BY <1>1 DEF Nothing

LEMMA ClientTypesKept ==
  ASSUME Net!TypeOK, ClientTypes, [Next]_vars
  PROVE  ClientTypes'
<1>. USE VisionAssumption, NothingType DEF ClientTypes
<1>1. CASE close
  BY <1>1 DEF close
<1>2. CASE BeginOpen
  BY <1>2 DEF BeginOpen
<1>3. CASE OpenRefused
  BY <1>3 DEF OpenRefused, Return
<1>4. CASE OpenAccepted
  BY <1>4 DEF OpenAccepted
<1>5. CASE Join
  BY <1>5 DEF Join, Return
<1>6. CASE JoinRefused
  BY <1>6 DEF JoinRefused, Return
<1>7. CASE receive
  <2>1. Net!Pending(mc)
    BY <1>7 DEF receive, Net!Recv
  <2>2. PICK n \in Nat : n = Head(table[fd[mc]].queue)
    BY <2>1, OldestDatagram
  <2>3. handed' = [datagrams |-> handed.datagrams + 1,
                   packets   |-> handed.packets + (IF n > 0 THEN 1 ELSE 0),
                   bytes     |-> handed.bytes + n]
    BY <1>7, <2>2 DEF receive
  <2>4. handed.datagrams < HandedBound /\ UNCHANGED <<pc, opened>>
    BY <1>7 DEF receive
  <2>5. (IF n > 0 THEN 1 ELSE 0) \in Nat
    OBVIOUS
  <2>. QED BY <2>3, <2>4, <2>5
<1>8. CASE Net!Environment /\ UNCHANGED clientVars
  BY <1>8 DEF clientVars
<1>9. CASE UNCHANGED vars
  BY <1>9 DEF vars
<1>. QED BY <1>1, <1>2, <1>3, <1>4, <1>5, <1>6, <1>7, <1>8, <1>9 DEF Next, Client

(* Type correctness of the client and its socket. *)
THEOREM ClientTypeCorrect == Spec => []TypeOK
<1>1. Init => ClientTypes
  BY NothingType DEF Init, ClientTypes
<1>2. Net!TypeOK /\ ClientTypes => TypeOK
  BY DEF ClientTypes, TypeOK
<1>3. Net!TypeOK /\ ClientTypes /\ [Next]_vars => ClientTypes'
  BY ClientTypesKept
<1>. QED BY <1>1, <1>2, <1>3, SocketInvariants, PTL DEF Spec

-----------------------------------------------------------------------------
(* Membership. *)

(* open() answers true only when it is over, and the member it made stays. *)
Membership == opened => pc = "idle" /\ MemberWhileOpened

LEMMA MemberStays ==
  ASSUME Net!TypeOK, Net!DescriptorsAccounted, MemberWhileOpened, opened,
         fd' = fd, opened' = opened,
         \A f \in Fds : table[f] # Free /\ table[f].owner = mc =>
            table'[f] # Free /\ table'[f].owner = mc /\ table'[f].groups = table[f].groups
  PROVE  MemberWhileOpened'
<1>1. fd[mc] \in Fds
  BY DEF Net!TypeOK, MemberWhileOpened, Net!Live, Net!isOpen, Net!None
<1>. QED BY <1>1 DEF MemberWhileOpened, Net!Live, Net!isOpen

LEMMA EnvironmentKeepsMembers ==
  ASSUME Net!TypeOK, Net!Environment,
         NEW f \in Fds, table[f] # Free, table[f].owner = mc
  PROVE  table'[f] # Free /\ table'[f].owner = mc /\ table'[f].groups = table[f].groups
<1>1. Foreign # mc /\ Free \notin Net!Descriptions
  BY NetAssumption DEF Net!UdpAssumption
<1>2. table[f] \in Net!Descriptions
  BY DEF Net!TypeOK
<1>3. ASSUME NEW g \in Fds, Net!ForeignOpen(g) \/ Net!ForeignClose(g)
      PROVE  table'[f] = table[f]
  BY <1>1, <1>3 DEF Net!ForeignOpen, Net!ForeignClose, Net!TypeOK
<1>4. ASSUME NEW port \in {Port}, NEW length \in Lengths, NEW receivers \in SUBSET Fds,
             Net!Arrive(port, length, receivers)
      PROVE  table'[f] # Free /\ table'[f].owner = mc /\ table'[f].groups = table[f].groups
  <2>1. CASE f \in receivers
    <3>1. table'[f] = [table[f] EXCEPT !.queue = Append(@, length)]
      BY <1>4, <2>1 DEF Net!Arrive
    <3>2. Append(table[f].queue, length) \in Seq(Lengths)
      <4>1. \A q \in Seq(Lengths) : Append(q, length) \in Seq(Lengths)
        OBVIOUS
      <4>. QED BY <1>2, <4>1 DEF Net!Descriptions
    <3>3. table'[f] \in Net!Descriptions
      BY <1>2, <3>1, <3>2 DEF Net!Descriptions
    <3>. QED BY <1>1, <1>2, <3>1, <3>3 DEF Net!Descriptions
  <2>2. CASE f \notin receivers
    BY <1>4, <2>2 DEF Net!Arrive
  <2>. QED BY <2>1, <2>2
<1>. QED BY <1>3, <1>4 DEF Net!Environment

LEMMA MembershipKept ==
  ASSUME Net!TypeOK, Net!DescriptorsAccounted, Membership, [Next]_vars
  PROVE  Membership'
<1>. USE DEF Membership
<1>1. CASE close
  BY <1>1 DEF close
<1>2. CASE BeginOpen
  BY <1>2 DEF BeginOpen
<1>3. CASE OpenRefused
  BY <1>3 DEF OpenRefused, Return
<1>4. CASE OpenAccepted
  BY <1>4 DEF OpenAccepted
<1>5. CASE Join
  <2>1. Net!Live(mc) /\ fd' = fd /\ table[fd[mc]].owner = mc
    BY <1>5 DEF Join, Net!AddMulticast, Net!DescriptorsAccounted, Net!Live
  <2>2. fd[mc] \in Fds /\ table[fd[mc]] \in Net!Descriptions
    BY <2>1 DEF Net!TypeOK, Net!Live, Net!isOpen, Net!None
  <2>3. table'[fd[mc]] = [table[fd[mc]] EXCEPT !.groups = @ \cup {Group}]
    BY <1>5, <2>2 DEF Join, Net!AddMulticast, Net!TypeOK
  <2>4. /\ table'[fd[mc]] \in Net!Descriptions
        /\ table'[fd[mc]].owner = mc
        /\ Group \in table'[fd[mc]].groups
    BY <2>1, <2>2, <2>3 DEF Net!Descriptions
  <2>5. table'[fd[mc]] # Free
    BY <2>4, NetAssumption DEF Net!UdpAssumption
  <2>. QED BY <1>5, <2>1, <2>4, <2>5 DEF Join, Return, MemberWhileOpened, Net!Live, Net!isOpen
<1>6. CASE JoinRefused
  BY <1>6 DEF JoinRefused, Return
<1>7. CASE receive
  <2>1. Net!Pending(mc)
    BY <1>7 DEF receive, Net!Recv
  <2>2. /\ fd[mc] \in Fds
        /\ table[fd[mc]] \in Net!Descriptions
        /\ table[fd[mc]].queue # <<>>
    BY <2>1, OldestDatagram DEF Net!Pending
  <2>3. table' = [table EXCEPT ![fd[mc]].queue = Tail(@)]
    BY <1>7 DEF receive, Net!Recv
  <2>4. Tail(table[fd[mc]].queue) \in Seq(Lengths)
    <3>1. \A q \in Seq(Lengths) : q # <<>> => Tail(q) \in Seq(Lengths)
      OBVIOUS
    <3>. QED BY <2>2, <3>1 DEF Net!Descriptions
  <2>5. [table[fd[mc]] EXCEPT !.queue = Tail(@)] \in Net!Descriptions
    BY <2>2, <2>4 DEF Net!Descriptions
  <2>6. [table[fd[mc]] EXCEPT !.queue = Tail(@)] # Free
    BY <2>5, NetAssumption DEF Net!UdpAssumption
  <2>7. \A f \in Fds : table[f] # Free /\ table[f].owner = mc =>
          table'[f] # Free /\ table'[f].owner = mc /\ table'[f].groups = table[f].groups
    BY <2>2, <2>3, <2>6 DEF Net!TypeOK, Net!Descriptions
  <2>. QED BY <1>7, <2>7, MemberStays DEF receive, Net!Recv
<1>8. CASE Net!Environment /\ UNCHANGED clientVars
  <2>1. fd' = fd
    BY <1>8 DEF Net!Environment, Net!ForeignOpen, Net!ForeignClose, Net!Arrive
  <2>. QED BY <1>8, <2>1, MemberStays, EnvironmentKeepsMembers DEF clientVars
<1>9. CASE UNCHANGED vars
  BY <1>9 DEF vars, MemberWhileOpened, Net!Live, Net!isOpen
<1>. QED BY <1>1, <1>2, <1>3, <1>4, <1>5, <1>6, <1>7, <1>8, <1>9 DEF Next, Client

(* A true open() is a live member of the group, for any number of          *)
(* descriptors, datagrams and failures.                                    *)
THEOREM Member == Spec => []MemberWhileOpened
<1>1. Init => Membership
  BY DEF Init, Membership
<1>2. Net!TypeOK /\ Net!DescriptorsAccounted /\ Membership /\ [Next]_vars => Membership'
  BY MembershipKept
<1>3. Membership => MemberWhileOpened
  BY DEF Membership, MemberWhileOpened
<1>. QED BY <1>1, <1>2, <1>3, SocketInvariants, PTL DEF Spec

-----------------------------------------------------------------------------
(* The counters. *)

LEMMA Division ==
  ASSUME NEW m \in Nat \ {0}, NEW a \in Int
  PROVE  \E q \in Int, r \in 0 .. m - 1 : a % m = r /\ a = m * q + r
<1>1. a = m * (a \div m) + (a % m) /\ a % m \in 0 .. m - 1 /\ a \div m \in Int
  OBVIOUS
<1>. DEFINE q == a \div m
            r == a % m
<1>2. a % m = r /\ a = m * q + r /\ q \in Int /\ r \in 0 .. m - 1
  BY <1>1
<1>. HIDE DEF q, r
<1>. QED BY <1>2

LEMMA OneRemainder ==
  ASSUME NEW m \in Nat \ {0}, NEW p \in Int, NEW q \in Int,
         NEW r \in 0 .. m - 1, NEW s \in 0 .. m - 1, m * p + r = m * q + s
  PROVE  r = s
<1>. DEFINE d == p - q
<1>1. d \in Int /\ m * d = s - r
  OBVIOUS
<1>. HIDE DEF d
<1>2. d >= 1 => m * d >= m
  BY <1>1
<1>3. d <= -1 => m * d <= -m
  BY <1>1
<1>4. d = 0
  BY <1>1, <1>2, <1>3
<1>5. m * d = 0
  BY <1>4
<1>. QED BY <1>1, <1>5

(* A counter that wraps at every step holds the wrapped sum. *)
LEMMA WrappedSum ==
  ASSUME NEW m \in Nat \ {0}, NEW a \in Nat, NEW b \in Nat
  PROVE  ((a % m) + b) % m = (a + b) % m
<1>1. PICK q \in Int, r \in 0 .. m - 1 : a % m = r /\ a = m * q + r
  BY Division
<1>2. r + b \in Int /\ a + b \in Int
  OBVIOUS
<1>3. PICK u \in Int, s \in 0 .. m - 1 : (r + b) % m = s /\ r + b = m * u + s
  BY <1>2, Division
<1>4. PICK v \in Int, t \in 0 .. m - 1 : (a + b) % m = t /\ a + b = m * v + t
  BY <1>2, Division
<1>5. m * (q + u) = m * q + m * u
  OBVIOUS
<1>6. m * (q + u) + s = m * v + t
  BY <1>1, <1>3, <1>4, <1>5
<1>7. s = t
  BY <1>6, OneRemainder
<1>. QED BY <1>1, <1>3, <1>4, <1>7

(* A datagram with content is counted, an empty one is not. *)
LEMMA ReceiveCounts ==
  ASSUME Net!TypeOK, receive
  PROVE  \E n \in Nat :
           /\ handed' = [datagrams |-> handed.datagrams + 1,
                         packets   |-> handed.packets + (IF n > 0 THEN 1 ELSE 0),
                         bytes     |-> handed.bytes + n]
           /\ n > 0 => /\ stats'[mc].recv_packets = (stats[mc].recv_packets + 1) % CounterMod
                       /\ stats'[mc].recv_bytes = (stats[mc].recv_bytes + n) % CounterMod
           /\ n = 0 => stats' = stats
<1>1. Net!Pending(mc)
  BY DEF receive, Net!Recv
<1>2. PICK n \in Nat : n = Head(table[fd[mc]].queue)
  BY <1>1, OldestDatagram
<1>3. n > 0 => Net!Count(mc, "recv_packets", "recv_bytes", n)
  BY <1>2 DEF receive, Net!Recv
<1>4. n = 0 => stats' = stats
  BY <1>2 DEF receive, Net!Recv
<1>5. handed' = [datagrams |-> handed.datagrams + 1,
                 packets   |-> handed.packets + (IF n > 0 THEN 1 ELSE 0),
                 bytes     |-> handed.bytes + n]
  BY <1>2 DEF receive
<1>. QED BY <1>3, <1>4, <1>5 DEF Net!Count, Net!TypeOK

LEMMA StatsKept ==
  ASSUME Net!TypeOK, ClientTypes, StatsOfThisSocket, [Next]_vars
  PROVE  StatsOfThisSocket'
<1>m. CounterMod \in Nat \ {0}
  BY NetAssumption DEF Net!UdpAssumption
<1>0. ASSUME stats'[mc] = Net!Zeroed, handed' = Nothing PROVE StatsOfThisSocket'
  <2>1. 0 % CounterMod = 0
    BY <1>m
  <2>. QED BY <1>0, <2>1 DEF StatsOfThisSocket, Net!Zeroed, Nothing
<1>1. CASE close
  BY <1>0, <1>1 DEF close, Net!Close, Net!TypeOK
<1>2. CASE BeginOpen
  BY <1>0, <1>2 DEF BeginOpen, Net!Close, Net!TypeOK
<1>3. ASSUME stats' = stats, handed' = handed PROVE StatsOfThisSocket'
  BY <1>3 DEF StatsOfThisSocket
<1>4. CASE OpenRefused
  BY <1>3, <1>4 DEF OpenRefused, Return, Net!OpenNoSocket, Net!OpenNoTtl
<1>5. CASE OpenAccepted
  BY <1>3, <1>5 DEF OpenAccepted, Net!OpenSocket
<1>6. CASE Join \/ JoinRefused
  BY <1>3, <1>6 DEF Join, JoinRefused, Return, Net!AddMulticast
<1>7. CASE receive
  <2>1. PICK n \in Nat :
          /\ handed' = [datagrams |-> handed.datagrams + 1,
                        packets   |-> handed.packets + (IF n > 0 THEN 1 ELSE 0),
                        bytes     |-> handed.bytes + n]
          /\ n > 0 => /\ stats'[mc].recv_packets = (stats[mc].recv_packets + 1) % CounterMod
                      /\ stats'[mc].recv_bytes = (stats[mc].recv_bytes + n) % CounterMod
          /\ n = 0 => stats' = stats
    BY <1>7, ReceiveCounts
  <2>2. handed.packets \in Nat /\ handed.bytes \in Nat
    BY DEF ClientTypes
  <2>3. /\ ((handed.packets % CounterMod) + 1) % CounterMod = (handed.packets + 1) % CounterMod
        /\ ((handed.bytes % CounterMod) + n) % CounterMod = (handed.bytes + n) % CounterMod
    BY <1>m, <2>2, WrappedSum
  <2>4. CASE n > 0
    BY <2>1, <2>3, <2>4 DEF StatsOfThisSocket
  <2>5. CASE n = 0
    <3>1. handed'.packets = handed.packets /\ handed'.bytes = handed.bytes /\ stats' = stats
      BY <2>1, <2>2, <2>5
    <3>. QED BY <3>1 DEF StatsOfThisSocket
  <2>. QED BY <2>4, <2>5
<1>8. CASE Net!Environment /\ UNCHANGED clientVars
  BY <1>3, <1>8 DEF clientVars, Net!Environment, Net!ForeignOpen, Net!ForeignClose, Net!Arrive
<1>9. CASE UNCHANGED vars
  BY <1>3, <1>9 DEF vars
<1>. QED BY <1>1, <1>2, <1>4, <1>5, <1>6, <1>7, <1>8, <1>9 DEF Next, Client

(* The counters tell what this opening received, wrapped at any width,     *)
(* whatever earlier openings received.                                     *)
THEOREM StatsAreOfThisSocket == Spec => []StatsOfThisSocket
<1>1. Init => StatsOfThisSocket
  <2>1. 0 % CounterMod = 0
    BY NetAssumption DEF Net!UdpAssumption
  <2>. QED BY <2>1 DEF Init, Net!Init, Net!Zeroed, Nothing, StatsOfThisSocket
<1>2. TypeOK /\ StatsOfThisSocket /\ [Next]_vars => StatsOfThisSocket'
  BY StatsKept DEF TypeOK, ClientTypes
<1>. QED BY <1>1, <1>2, ClientTypeCorrect, PTL DEF Spec

=============================================================================
