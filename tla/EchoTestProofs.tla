--------------------------- MODULE EchoTestProofs ---------------------------
(***************************************************************************)
(* Proofs about the echo test programs, for any number of clients, lines   *)
(* and places in the queues.  A client's messages that are not lost form   *)
(* one sequence, Chain: an answer, a receive and a delivery move a message *)
(* from one part of it to the next and leave it as it is, sending appends  *)
(* to it and losing cuts an element out of it.                             *)
(***************************************************************************)
EXTENDS EchoTest, TLAPS

-----------------------------------------------------------------------------
(* Sequences of messages. *)

LEMMA Elements ==
  ASSUME NEW s \in Seq(Messages)
  PROVE  \A i \in 1 .. Len(s) : s[i] \in Messages /\ s[i].from \in Clients /\ s[i].line \in 1 .. Lines
<1>1. \A i \in 1 .. Len(s) : s[i] \in Messages OBVIOUS
<1> QED BY <1>1 DEF Messages

(* A sent line is one place further than all before.                       *)
LEMMA OrderlyAppend ==
  ASSUME NEW c \in Clients, NEW s \in Seq(Messages), NEW t \in 0 .. Lines - 1, NEW l \in Nat,
         Orderly(s, c, t, l)
  PROVE  Orderly(Append(s, [from |-> c, line |-> t + 1]), c, t + 1, l)
<1> DEFINE m == [from |-> c, line |-> t + 1]
           r == Append(s, m)
<1>1. m \in Messages BY EchoAssumption DEF Messages
<1>2. r \in Seq(Messages) /\ Len(r) = Len(s) + 1 BY <1>1
<1>3. r[Len(s) + 1] = m /\ \A i \in 1 .. Len(s) : r[i] = s[i] BY <1>1
<1>4. \A i \in 1 .. Len(s) : s[i].line \in 1 .. Lines BY Elements
<1>5. ASSUME NEW i \in 1 .. Len(r)
      PROVE  /\ r[i].from = c
             /\ i <= r[i].line /\ r[i].line <= i + l /\ r[i].line <= t + 1
             /\ \A j \in 1 .. i - 1 : r[j].line < r[i].line
  <2>1. CASE i \in 1 .. Len(s)
    <3>1. \A j \in 1 .. i - 1 : r[j] = s[j] BY <1>3, <2>1
    <3> QED BY <2>1, <3>1, <1>3, <1>4, EchoAssumption DEF Orderly
  <2>2. CASE i = Len(s) + 1
    <3>1. \A j \in 1 .. i - 1 : r[j].line <= t BY <1>3, <2>2 DEF Orderly
    <3>2. \A j \in 1 .. i - 1 : r[j].line \in Int BY <1>3, <1>4, <2>2
    <3> QED BY <2>2, <3>1, <3>2, <1>3, EchoAssumption DEF Orderly
  <2> QED BY <2>1, <2>2, <1>2
<1> HIDE DEF r
<1> QED BY <1>2, <1>5 DEF Orderly, r

(* A line lost on its way to the server leaves a gap of one.               *)
LEMMA OrderlySkip ==
  ASSUME NEW c \in Clients, NEW s \in Seq(Messages), NEW t \in Nat, NEW l \in Nat,
         Orderly(s, c, t, l)
  PROVE  Orderly(s, c, t + 1, l + 1)
<1>1. \A i \in 1 .. Len(s) : s[i].line \in Int BY Elements, EchoAssumption
<1>2. Len(s) \in Nat OBVIOUS
<1> QED BY <1>1, <1>2 DEF Orderly

(* So does one that is cut out of the middle.                              *)
LEMMA OrderlyCut ==
  ASSUME NEW c \in Clients, NEW a \in Seq(Messages), NEW b \in Seq(Messages), NEW m \in Messages,
         NEW t \in Nat, NEW l \in Nat,
         Orderly(a \o (<<m>> \o b), c, t, l)
  PROVE  Orderly(a \o b, c, t, l + 1)
<1> DEFINE s == a \o (<<m>> \o b)
           r == a \o b
           Old(i) == IF i <= Len(a) THEN i ELSE i + 1
<1>1. /\ s \in Seq(Messages) /\ Len(s) = Len(a) + 1 + Len(b)
      /\ r \in Seq(Messages) /\ Len(r) = Len(a) + Len(b)
  OBVIOUS
<1>2. \A i \in 1 .. Len(r) : r[i] = s[Old(i)] OBVIOUS
<1>3. Orderly(s, c, t, l) OBVIOUS
<1>4. Len(a) \in Nat /\ Len(b) \in Nat OBVIOUS
<1> HIDE DEF s, r
<1>5. \A i \in 1 .. Len(s) : s[i].line \in Int BY <1>1, Elements, EchoAssumption
<1>6. ASSUME NEW i \in 1 .. Len(r)
      PROVE  /\ r[i].from = c
             /\ i <= r[i].line /\ r[i].line <= i + (l + 1) /\ r[i].line <= t
             /\ \A j \in 1 .. i - 1 : r[j].line < r[i].line
  <2>1. Old(i) \in 1 .. Len(s) /\ i <= Old(i) /\ Old(i) <= i + 1 BY <1>1, <1>4
  <2>2. /\ s[Old(i)].from = c
        /\ Old(i) <= s[Old(i)].line /\ s[Old(i)].line <= Old(i) + l /\ s[Old(i)].line <= t
    BY <2>1, <1>3 DEF Orderly
  <2>3. ASSUME NEW j \in 1 .. i - 1 PROVE r[j].line < r[i].line
    <3>1. Old(j) \in 1 .. Old(i) - 1 /\ j \in 1 .. Len(r) BY <1>1, <1>4
    <3>2. s[Old(j)].line < s[Old(i)].line BY <3>1, <2>1, <1>3 DEF Orderly
    <3> QED BY <3>1, <3>2, <1>2
  <2> QED BY <2>1, <2>2, <2>3, <1>2, <1>5
<1>7. Len(r) <= t /\ t <= Len(r) + (l + 1) BY <1>1, <1>3 DEF Orderly
<1>8. Orderly(r, c, t, l + 1) BY <1>6, <1>7 DEF Orderly
<1> QED BY <1>8 DEF r

LEMMA ConcatAppend ==
  ASSUME NEW a \in Seq(Messages), NEW s \in Seq(Messages), NEW q \in Seq(Messages), NEW m \in Messages
  PROVE  a \o (s \o Append(q, m)) = Append(a \o (s \o q), m)
<1>1. s \o Append(q, m) = Append(s \o q, m) OBVIOUS
<1>2. a \o Append(s \o q, m) = Append(a \o (s \o q), m) OBVIOUS
<1> QED BY <1>1, <1>2

LEMMA ConcatRecv ==
  ASSUME NEW a \in Seq(Messages), NEW r \in Seq(Messages), r # <<>>
  PROVE  Append(a, Head(r)) \o Tail(r) = a \o r
OBVIOUS

LEMMA ConcatServe ==
  ASSUME NEW q \in Seq(Messages), q # <<>>
  PROVE  <<Head(q)>> \o Tail(q) = <<>> \o q
OBVIOUS

LEMMA ConcatAnswer ==
  ASSUME NEW a \in Seq(Messages), NEW r \in Seq(Messages), NEW q \in Seq(Messages), NEW m \in Messages
  PROVE  /\ (a \o Append(r, m)) \o (<<>> \o q) = (a \o r) \o (<<m>> \o q)
         /\ <<>> \o q = q
<1>1. <<>> \o q = q OBVIOUS
<1>2. a \o Append(r, m) = Append(a \o r, m) OBVIOUS
<1>3. a \o r \in Seq(Messages) OBVIOUS
<1> DEFINE u == a \o r
<1> HIDE DEF u
<1>4. u \in Seq(Messages) BY <1>3 DEF u
<1>5. Append(u, m) \o q = u \o (<<m>> \o q) BY <1>4
<1> QED BY <1>1, <1>2, <1>5 DEF u

-----------------------------------------------------------------------------
(* The invariant. *)

LEMMA LossType ==
  ASSUME NEW l \in [Clients -> Nat], NEW c \in Clients
  PROVE  [l EXCEPT ![c] = @ + 1] \in [Clients -> Nat]
OBVIOUS

LEMMA TypeStep == TypeOK /\ [Next]_vars => TypeOK'
<1> SUFFICES ASSUME TypeOK, [Next]_vars PROVE TypeOK'
  OBVIOUS
<1> USE EchoAssumption DEF TypeOK
<1>1. ASSUME NEW c \in Clients, SendLine(c) PROVE TypeOK'
  <2>1. typed[c] + 1 \in 1 .. Lines BY <1>1 DEF SendLine
  <2>2. [from |-> c, line |-> typed[c] + 1] \in Messages BY <2>1 DEF Messages
  <2>3. Append(requests[c], [from |-> c, line |-> typed[c] + 1]) \in Seq(Messages) BY <2>2
  <2>4. \/ requests' = [requests EXCEPT ![c] = Append(@, [from |-> c, line |-> typed[c] + 1])]
           /\ lost' = lost
        \/ requests' = requests /\ lost' = [lost EXCEPT ![c] = @ + 1]
    BY <1>1 DEF SendLine, Request
  <2>5. requests' \in [Clients -> Seq(Messages)] BY <2>3, <2>4
  <2>6. [lost EXCEPT ![c] = @ + 1] \in [Clients -> Nat] /\ lost \in [Clients -> Nat] BY LossType
  <2>7. lost' \in [Clients -> Nat] BY <2>4, <2>6
  <2>8. typed' \in [Clients -> 0 .. Lines] /\ pc' \in [Clients -> {"fgets", "wait", "recv", "ended"}]
    BY <1>1, <2>1 DEF SendLine
  <2> QED BY <1>1, <2>5, <2>7, <2>8 DEF SendLine
<1>2. ASSUME NEW c \in Clients, EndOfInput(c) \/ Wait(c) PROVE TypeOK'
  BY <1>2 DEF EndOfInput, Wait
<1>3. ASSUME NEW c \in Clients, Recv(c) PROVE TypeOK'
  <2>1. CASE replies[c] = <<>> BY <1>3, <2>1 DEF Recv
  <2>2. CASE replies[c] # <<>>
    <3>1. Head(replies[c]) \in Messages /\ Tail(replies[c]) \in Seq(Messages) BY <2>2
    <3>2. Append(answers[c], Head(replies[c])) \in Seq(Messages) BY <3>1
    <3>3. /\ answers' = [answers EXCEPT ![c] = Append(@, Head(replies[c]))]
          /\ replies' = [replies EXCEPT ![c] = Tail(@)]
      BY <1>3, <2>2 DEF Recv
    <3>4. answers' \in [Clients -> Seq(Messages)] BY <3>2, <3>3
    <3>5. replies' \in [Clients -> Seq(Messages)] BY <3>1, <3>3
    <3> QED BY <1>3, <3>4, <3>5 DEF Recv
  <2> QED BY <2>1, <2>2
<1>4. ASSUME Serve PROVE TypeOK'
  <2>1. PICK c \in Clients : /\ requests[c] # <<>>
                             /\ serving' = Head(requests[c])
                             /\ requests' = [requests EXCEPT ![c] = Tail(@)]
    BY <1>4 DEF Serve
  <2>2. Head(requests[c]) \in Messages /\ Tail(requests[c]) \in Seq(Messages) BY <2>1
  <2> QED BY <1>4, <2>1, <2>2 DEF Serve, client
<1>5. ASSUME Answer PROVE TypeOK'
  <2>1. serving \in Messages BY <1>5 DEF Answer
  <2>2. serving.from \in Clients BY <2>1 DEF Messages
  <2>3. replies' \in [Clients -> Seq(Messages)]
    <3>1. Append(replies[serving.from], serving) \in Seq(Messages) BY <2>1, <2>2
    <3> QED BY <1>5, <2>2, <3>1 DEF Answer, Reply
  <2>4. lost' = lost \/ lost' = [lost EXCEPT ![serving.from] = @ + 1] BY <1>5 DEF Answer, Reply
  <2>5. [lost EXCEPT ![serving.from] = @ + 1] \in [Clients -> Nat] /\ lost \in [Clients -> Nat]
    BY <2>2, LossType
  <2>6. lost' \in [Clients -> Nat] BY <2>4, <2>5
  <2> QED BY <1>5, <2>3, <2>6 DEF Answer, client
<1>6. CASE UNCHANGED vars BY <1>6 DEF vars, client
<1> QED BY <1>1, <1>2, <1>3, <1>4, <1>5, <1>6 DEF Next, EchoServer, EchoClient

(* A client's chain is a sequence of messages, and its parts are.          *)
LEMMA ChainType ==
  ASSUME TypeOK, NEW c \in Clients
  PROVE  /\ answers[c] \in Seq(Messages) /\ replies[c] \in Seq(Messages)
         /\ Served(c) \in Seq(Messages) /\ requests[c] \in Seq(Messages)
         /\ Chain(c) \in Seq(Messages)
<1>1. Served(c) \in Seq(Messages) BY EchoAssumption DEF TypeOK, Served, Idle
<1>2. answers[c] \in Seq(Messages) /\ replies[c] \in Seq(Messages) /\ requests[c] \in Seq(Messages)
  BY DEF TypeOK
<1> QED BY <1>1, <1>2 DEF Chain

LEMMA ChainStep == TypeOK /\ ChainIsOrderly /\ [Next]_vars => ChainIsOrderly'
<1> SUFFICES ASSUME TypeOK, ChainIsOrderly, [Next]_vars, NEW c \in Clients
             PROVE  Orderly(Chain(c)', c, typed'[c], lost'[c])
  BY DEF ChainIsOrderly
<1>1. Orderly(Chain(c), c, typed[c], lost[c]) BY DEF ChainIsOrderly
<1>2. typed[c] \in 0 .. Lines /\ typed[c] \in Nat /\ lost[c] \in Nat BY EchoAssumption DEF TypeOK
<1> DEFINE Same == Chain(c)' = Chain(c) /\ typed'[c] = typed[c] /\ lost'[c] = lost[c]
<1>3. ASSUME Same PROVE Orderly(Chain(c)', c, typed'[c], lost'[c]) BY <1>1, <1>3
<1>4. ASSUME NEW d \in Clients, SendLine(d) PROVE Orderly(Chain(c)', c, typed'[c], lost'[c])
  <2> USE <1>4 DEF TypeOK
  <2>1. CASE d # c
    <3>1. Same BY <2>1 DEF SendLine, Request, Chain, Served
    <3> QED BY <3>1, <1>3
  <2>2. CASE d = c /\ Len(requests[c]) < QueueBound /\ UNCHANGED lost
                 /\ requests' = [requests EXCEPT ![c] = Append(@, [from |-> c, line |-> typed[c] + 1])]
    <3> DEFINE m == [from |-> c, line |-> typed[c] + 1]
    <3>1. m \in Messages /\ typed[c] \in 0 .. Lines - 1 BY <2>2, EchoAssumption DEF SendLine, Messages
    <3>2. Chain(c)' = (answers[c] \o replies[c]) \o (Served(c) \o Append(requests[c], m))
      BY <2>2 DEF SendLine, Chain, Served
    <3>3. answers[c] \o replies[c] \in Seq(Messages) BY ChainType
    <3>4. Chain(c)' = Append((answers[c] \o replies[c]) \o (Served(c) \o requests[c]), m)
      <4> DEFINE a == answers[c] \o replies[c]
                 s == Served(c)
                 q == requests[c]
      <4>1. a \in Seq(Messages) /\ s \in Seq(Messages) /\ q \in Seq(Messages) BY <3>3, ChainType
      <4> HIDE DEF a, s, q, m
      <4>2. a \o (s \o Append(q, m)) = Append(a \o (s \o q), m) BY <3>1, <4>1, ConcatAppend
      <4> QED BY <4>2, <3>2 DEF a, s, q
    <3>6. Chain(c)' = Append(Chain(c), m) BY <3>4 DEF Chain
    <3>5. typed'[c] = typed[c] + 1 /\ lost'[c] = lost[c] BY <2>2 DEF SendLine
    <3> QED BY <3>1, <3>5, <3>6, <1>1, <1>2, ChainType, OrderlyAppend
  <2>3. CASE d = c /\ lost' = [lost EXCEPT ![c] = @ + 1] /\ UNCHANGED requests
    <3>1. Chain(c)' = Chain(c) /\ typed'[c] = typed[c] + 1 /\ lost'[c] = lost[c] + 1
      BY <2>3 DEF SendLine, Chain, Served
    <3> QED BY <3>1, <1>1, <1>2, ChainType, OrderlySkip
  <2> QED BY <2>1, <2>2, <2>3 DEF SendLine, Request
<1>5. ASSUME NEW d \in Clients, EndOfInput(d) \/ Wait(d) PROVE Orderly(Chain(c)', c, typed'[c], lost'[c])
  <2>1. Same BY <1>5 DEF EndOfInput, Wait, Chain, Served
  <2> QED BY <2>1, <1>3
<1>6. ASSUME NEW d \in Clients, Recv(d) PROVE Orderly(Chain(c)', c, typed'[c], lost'[c])
  <2>1. (answers[c] \o replies[c])' = answers[c] \o replies[c]
    <3>1. CASE d = c /\ replies[c] # <<>>
      <4>1. answers'[c] = Append(answers[c], Head(replies[c])) /\ replies'[c] = Tail(replies[c])
        BY <1>6, <3>1 DEF Recv, TypeOK
      <4> QED BY <4>1, <3>1, ChainType, ConcatRecv
    <3>2. CASE d # c \/ replies[c] = <<>> BY <1>6, <3>2 DEF Recv, TypeOK
    <3> QED BY <3>1, <3>2
  <2>2. Same BY <1>6, <2>1 DEF Recv, Chain, Served
  <2> QED BY <2>2, <1>3
<1>7. ASSUME Serve PROVE Orderly(Chain(c)', c, typed'[c], lost'[c])
  <2>1. PICK d \in Clients : /\ requests[d] # <<>>
                             /\ serving' = Head(requests[d])
                             /\ requests' = [requests EXCEPT ![d] = Tail(@)]
    BY <1>7 DEF Serve
  <2>2. serving'.from = d
    <3> DEFINE s == answers[d] \o replies[d]
               u == Served(d) \o requests[d]
    <3>1. Served(d) = <<>> BY <1>7, EchoAssumption DEF Serve, Served, Idle
    <3>2. s \in Seq(Messages) /\ requests[d] \in Seq(Messages) BY ChainType
    <3>3. u = requests[d] BY <3>1, <3>2
    <3>4. Chain(d) = s \o requests[d] BY <3>3 DEF Chain
    <3> HIDE DEF s
    <3>5. Len(s) + 1 \in 1 .. Len(s \o requests[d]) /\ (s \o requests[d])[Len(s) + 1] = Head(requests[d])
      BY <3>2, <2>1
    <3>6. Orderly(Chain(d), d, typed[d], lost[d]) BY DEF ChainIsOrderly
    <3> QED BY <3>4, <3>5, <3>6, <2>1 DEF Orderly
  <2>3. Served(c) = <<>> BY <1>7, EchoAssumption DEF Serve, Served, Idle
  <2>4. (Served(c) \o requests[c])' = Served(c) \o requests[c]
    <3>1. CASE d = c
      <4>1. Served(c)' = <<Head(requests[c])>> BY <2>1, <2>2, <3>1 DEF Served
      <4>2. requests'[c] = Tail(requests[c]) BY <2>1, <3>1 DEF TypeOK
      <4> QED BY <4>1, <4>2, <2>1, <2>3, <3>1, ChainType, ConcatServe
    <3>2. CASE d # c
      <4>1. Served(c)' = <<>> BY <2>2, <3>2 DEF Served
      <4>2. requests'[c] = requests[c] BY <2>1, <3>2 DEF TypeOK
      <4> QED BY <4>1, <4>2, <2>3
    <3> QED BY <3>1, <3>2
  <2>5. Same BY <1>7, <2>4 DEF Serve, client, Chain
  <2> QED BY <2>5, <1>3
<1>8. ASSUME Answer PROVE Orderly(Chain(c)', c, typed'[c], lost'[c])
  <2>1. serving \in Messages /\ serving.from \in Clients BY <1>8 DEF Answer, TypeOK, Messages
  <2>2. Served(c)' = <<>> /\ UNCHANGED <<answers, requests, typed>>
    BY <1>8, EchoAssumption DEF Answer, client, Served, Idle
  <2>3. CASE serving.from # c
    <3>1. Served(c) = <<>> /\ replies'[c] = replies[c] /\ lost'[c] = lost[c]
      BY <1>8, <2>1, <2>3 DEF Answer, Reply, Served, TypeOK
    <3>2. Same BY <2>2, <3>1 DEF Chain
    <3> QED BY <3>2, <1>3
  <2>4. CASE serving.from = c
    <3>1. Chain(c) = (answers[c] \o replies[c]) \o (<<serving>> \o requests[c]) BY <2>4 DEF Chain, Served
    <3>2. CASE replies' = [replies EXCEPT ![c] = Append(@, serving)] /\ UNCHANGED lost
      <4>1. Chain(c)' = (answers[c] \o Append(replies[c], serving)) \o (<<>> \o requests[c])
        BY <2>2, <3>2 DEF Chain, TypeOK
      <4>2. (answers[c] \o Append(replies[c], serving)) \o (<<>> \o requests[c])
              = (answers[c] \o replies[c]) \o (<<serving>> \o requests[c])
        <5> DEFINE a == answers[c]
                   r == replies[c]
                   q == requests[c]
        <5>1. a \in Seq(Messages) /\ r \in Seq(Messages) /\ q \in Seq(Messages) BY ChainType
        <5> HIDE DEF a, r, q
        <5>2. (a \o Append(r, serving)) \o (<<>> \o q) = (a \o r) \o (<<serving>> \o q)
          BY <2>1, <5>1, ConcatAnswer
        <5> QED BY <5>2 DEF a, r, q
      <4>3. Chain(c)' = Chain(c) BY <4>1, <4>2, <3>1
      <4> QED BY <4>3, <3>2, <2>2, <1>3
    <3>3. CASE lost' = [lost EXCEPT ![c] = @ + 1] /\ UNCHANGED replies
      <4>1. Chain(c)' = (answers[c] \o replies[c]) \o (<<>> \o requests[c]) BY <2>2, <3>3 DEF Chain
      <4>2. Chain(c)' = (answers[c] \o replies[c]) \o requests[c] BY <4>1, <2>1, ChainType, ConcatAnswer
      <4>3. answers[c] \o replies[c] \in Seq(Messages) BY ChainType
      <4>4. Orderly((answers[c] \o replies[c]) \o requests[c], c, typed[c], lost[c] + 1)
        BY <3>1, <4>3, <2>1, <1>1, <1>2, ChainType, OrderlyCut
      <4>5. typed'[c] = typed[c] /\ lost'[c] = lost[c] + 1 BY <2>2, <3>3 DEF TypeOK
      <4> QED BY <4>2, <4>4, <4>5
    <3> QED BY <1>8, <2>4, <3>2, <3>3 DEF Answer, Reply
  <2> QED BY <2>3, <2>4
<1>9. CASE UNCHANGED vars
  <2>1. Same BY <1>9 DEF vars, client, Chain, Served
  <2> QED BY <2>1, <1>3
<1> QED BY <1>4, <1>5, <1>6, <1>7, <1>8, <1>9 DEF Next, EchoServer, EchoClient

LEMMA EchoInit == Init => TypeOK /\ ChainIsOrderly
<1> SUFFICES ASSUME Init PROVE TypeOK /\ ChainIsOrderly OBVIOUS
<1>1. TypeOK BY EchoAssumption DEF Init, TypeOK
<1>2. ASSUME NEW c \in Clients PROVE Orderly(Chain(c), c, typed[c], lost[c])
  <2>1. Chain(c) = (<<>> \o <<>>) \o (<<>> \o <<>>)
    BY EchoAssumption DEF Init, Chain, Served, Idle
  <2>2. Len(Chain(c)) = 0 BY <2>1
  <2> QED BY <2>2 DEF Init, Orderly
<1> QED BY <1>1, <1>2 DEF ChainIsOrderly

-----------------------------------------------------------------------------
(* Theorems. *)

(* Type correctness, and the chains: no message of a client overtakes      *)
(* another, is doubled, or is missing without having been lost.            *)
THEOREM EchoTypes == Spec => []TypeOK
<1>1. Init => TypeOK BY EchoInit
<1> QED BY <1>1, TypeStep, PTL DEF Spec

THEOREM Chains == Spec => []ChainIsOrderly
<1>1. Init => TypeOK /\ ChainIsOrderly BY EchoInit
<1>2. TypeOK /\ ChainIsOrderly /\ [Next]_vars => (TypeOK /\ ChainIsOrderly)'
  BY TypeStep, ChainStep
<1> QED BY <1>1, <1>2, PTL DEF Spec

(* What a client got is the front of its chain.                            *)
LEMMA AnswersAreFront ==
  ASSUME TypeOK, NEW c \in Clients
  PROVE  /\ Len(answers[c]) \in Nat /\ Len(answers[c]) <= Len(Chain(c))
         /\ \A i \in 1 .. Len(answers[c]) : Chain(c)[i] = answers[c][i]
<1> DEFINE a == answers[c]
           r == replies[c]
           s == Served(c) \o requests[c]
<1>1. a \in Seq(Messages) /\ r \in Seq(Messages) /\ s \in Seq(Messages) BY ChainType
<1>2. Chain(c) = (a \o r) \o s BY DEF Chain
<1> HIDE DEF a, r, s
<1>3. /\ Len(a) \in Nat /\ Len(a) <= Len((a \o r) \o s)
      /\ \A i \in 1 .. Len(a) : ((a \o r) \o s)[i] = a[i]
  BY <1>1
<1> QED BY <1>2, <1>3 DEF a

(* EchoServer answers the sender of the very message: a client only gets   *)
(* its own lines back, in order and each once.                             *)
THEOREM OwnAnswers == Spec => []OwnAnswersInOrder
<1>1. ASSUME TypeOK, ChainIsOrderly PROVE OwnAnswersInOrder
  <2> SUFFICES ASSUME NEW c \in Clients, NEW i \in 1 .. Len(answers[c])
               PROVE  /\ answers[c][i].from = c
                      /\ answers[c][i].line \in 1 .. typed[c]
                      /\ \A j \in 1 .. i - 1 : answers[c][j].line < answers[c][i].line
    BY DEF OwnAnswersInOrder
  <2>1. Orderly(Chain(c), c, typed[c], lost[c]) BY <1>1 DEF ChainIsOrderly
  <2>2. i \in 1 .. Len(Chain(c)) /\ Chain(c)[i] = answers[c][i]
        /\ \A j \in 1 .. i - 1 : Chain(c)[j] = answers[c][j]
    BY <1>1, AnswersAreFront, ChainType
  <2>3. answers[c][i].line \in 1 .. Lines /\ typed[c] \in 0 .. Lines
    BY <1>1, ChainType, Elements DEF TypeOK
  <2>4. Chain(c)[i].from = c /\ Chain(c)[i].line <= typed[c] BY <2>1, <2>2 DEF Orderly
  <2>5. \A j \in 1 .. i - 1 : Chain(c)[j].line < Chain(c)[i].line BY <2>1, <2>2 DEF Orderly
  <2> QED BY <2>2, <2>3, <2>4, <2>5, EchoAssumption
<1> QED BY <1>1, EchoTypes, Chains, PTL

(* A client never catches up with a timeout: its last answer is as many    *)
(* lines behind as rounds went unanswered, less what was lost.             *)
THEOREM LateAnswers == Spec => []LateAnswersShift
<1>1. ASSUME TypeOK, ChainIsOrderly PROVE LateAnswersShift
  <2> SUFFICES ASSUME NEW c \in Clients, answers[c] # <<>>
               PROVE  LET n == answers[c][Len(answers[c])].line IN
                        /\ typed[c] - n <= typed[c] - Len(answers[c])
                        /\ (typed[c] - Len(answers[c])) - (typed[c] - n) <= lost[c]
    BY DEF LateAnswersShift
  <2>1. Orderly(Chain(c), c, typed[c], lost[c]) BY <1>1 DEF ChainIsOrderly
  <2> DEFINE k == Len(answers[c])
  <2>2. k \in 1 .. k BY <1>1, ChainType
  <2>3. k \in 1 .. Len(Chain(c)) /\ Chain(c)[k] = answers[c][k]
    BY <1>1, <2>2, AnswersAreFront, ChainType
  <2>4. answers[c][k].line \in Nat BY <1>1, <2>2, ChainType, Elements
  <2>5. typed[c] \in Nat /\ lost[c] \in Nat BY <1>1 DEF TypeOK
  <2>6. k <= answers[c][k].line /\ answers[c][k].line <= k + lost[c] BY <2>1, <2>3 DEF Orderly
  <2> HIDE DEF k
  <2>7. k \in Int BY <2>3
  <2>8. typed[c] - answers[c][k].line <= typed[c] - k
        /\ (typed[c] - k) - (typed[c] - answers[c][k].line) <= lost[c]
    BY <2>4, <2>5, <2>6, <2>7
  <2> QED BY <2>8 DEF k
<1> QED BY <1>1, EchoTypes, Chains, PTL
=============================================================================
