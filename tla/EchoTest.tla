------------------------------ MODULE EchoTest ------------------------------
(***************************************************************************)
(* The test programs at the end of net/netraw.cpp (NETRAW_TEST): EchoServer *)
(* sends every datagram back, EchoClient sends the lines of its input and  *)
(* waits a second for each answer.  Both use one non-blocking Net::UDP.    *)
(*                                                                         *)
(* The network is external: it may lose a datagram, and it delivers the    *)
(* rest of those between two sockets in order; those of different clients  *)
(* may overtake each other.  Any delay is that of the server.              *)
(***************************************************************************)
EXTENDS Integers, Sequences

CONSTANTS
  Clients,    \* the running EchoClients, each with an address of its own
  NoClient,   \* the server holds no message
  Lines,      \* lines on the input of each client
  QueueBound  \* datagrams on the way between two sockets and in the queue

ASSUME EchoAssumption ==
  NoClient \notin Clients /\ Lines \in Nat /\ QueueBound \in Nat \ {0}

VARIABLES
  pc,        \* where each client is in its loop
  typed,     \* lines each client has read
  answers,   \* what each client got out of its socket
  requests,  \* what is on the way from each client to the server's recv
  serving,   \* the message the server holds, with the address it came from
  replies,   \* what is on the way from the server to each client's recv
  lost       \* history: datagrams of each client's lines the network lost

client == <<pc, typed, answers>>
vars == <<pc, typed, answers, requests, serving, replies, lost>>

Idle == [from |-> NoClient, line |-> 0]

Init ==
  /\ pc = [c \in Clients |-> "fgets"]
  /\ typed = [c \in Clients |-> 0]
  /\ answers = [c \in Clients |-> <<>>]
  /\ requests = [c \in Clients |-> <<>>]
  /\ serving = Idle
  /\ replies = [c \in Clients |-> <<>>]
  /\ lost = [c \in Clients |-> 0]

-----------------------------------------------------------------------------
(* The network: a full queue drops, and so may anything on the way.        *)

Request(c, n) ==
  \/ /\ Len(requests[c]) < QueueBound
     /\ requests' = [requests EXCEPT ![c] = Append(@, [from |-> c, line |-> n])]
     /\ UNCHANGED lost
  \/ lost' = [lost EXCEPT ![c] = @ + 1] /\ UNCHANGED requests

Reply(m, c) ==
  \/ /\ Len(replies[c]) < QueueBound
     /\ replies' = [replies EXCEPT ![c] = Append(@, m)]
     /\ UNCHANGED lost
  \/ lost' = [lost EXCEPT ![m.from] = @ + 1] /\ UNCHANGED replies

-----------------------------------------------------------------------------
(* EchoClient. *)

(* Mutated: the end of the input is not noticed. *)
SendLinePastEnd(c) ==
  /\ pc[c] = "fgets"
  /\ typed[c] <= Lines
  /\ typed' = [typed EXCEPT ![c] = @ + 1]
  /\ pc' = [pc EXCEPT ![c] = "wait"]
  /\ Request(c, typed[c] + 1)
  /\ UNCHANGED <<answers, serving, replies>>

SendLine(c) ==
  /\ pc[c] = "fgets"
  /\ typed[c] < Lines
  /\ typed' = [typed EXCEPT ![c] = @ + 1]
  /\ pc' = [pc EXCEPT ![c] = "wait"]
  /\ Request(c, typed[c] + 1)
  /\ UNCHANGED <<answers, serving, replies>>

EndOfInput(c) ==
  /\ pc[c] = "fgets"
  /\ typed[c] = Lines
  /\ pc' = [pc EXCEPT ![c] = "ended"]
  /\ UNCHANGED <<typed, answers, requests, serving, replies, lost>>

(* Mutated: wait() without a timeout. *)
WaitForEver(c) ==
  /\ pc[c] = "wait"
  /\ replies[c] # <<>>
  /\ pc' = [pc EXCEPT ![c] = "recv"]
  /\ UNCHANGED <<typed, answers, requests, serving, replies, lost>>

(* A datagram is there or a second has passed: wait()'s result is ignored. *)
Wait(c) ==
  /\ pc[c] = "wait"
  /\ pc' = [pc EXCEPT ![c] = "recv"]
  /\ UNCHANGED <<typed, answers, requests, serving, replies, lost>>

(* Mutated: the datagram stays in the queue. *)
RecvPeeking(c) ==
  /\ pc[c] = "recv"
  /\ answers' = IF replies[c] # <<>> THEN [answers EXCEPT ![c] = Append(@, Head(replies[c]))] ELSE answers
  /\ pc' = [pc EXCEPT ![c] = "fgets"]
  /\ UNCHANGED <<typed, requests, serving, replies, lost>>

(* With an empty queue recv returns -1 and msg still holds the typed line, *)
(* which is printed.  msg[-1] = 0 then writes outside of the array, on the *)
(* top byte of a small unsigned (an addr_len or a counter), which is 0     *)
(* already wherever the compiler puts msg among the locals.                *)
Recv(c) ==
  /\ pc[c] = "recv"
  /\ \/ /\ replies[c] # <<>>
        /\ answers' = [answers EXCEPT ![c] = Append(@, Head(replies[c]))]
        /\ replies' = [replies EXCEPT ![c] = Tail(@)]
     \/ replies[c] = <<>> /\ UNCHANGED <<answers, replies>>
  /\ pc' = [pc EXCEPT ![c] = "fgets"]
  /\ UNCHANGED <<typed, requests, serving, lost>>

EchoClient(c) == SendLine(c) \/ EndOfInput(c) \/ Wait(c) \/ Recv(c)

-----------------------------------------------------------------------------
(* EchoServer: recv fills msg and addr, and send uses both. *)

Serve ==
  /\ serving = Idle
  /\ \E c \in Clients :
       /\ requests[c] # <<>>
       /\ serving' = Head(requests[c])
       /\ requests' = [requests EXCEPT ![c] = Tail(@)]
  /\ UNCHANGED <<client, replies, lost>>

(* Mutated: the address of the next message has replaced that of this one. *)
AnswerNextSender ==
  /\ serving # Idle
  /\ \E c \in Clients : requests[c] # <<>> /\ Reply(serving, c)
  /\ serving' = Idle
  /\ UNCHANGED <<client, requests>>

Answer ==
  /\ serving # Idle
  /\ Reply(serving, serving.from)
  /\ serving' = Idle
  /\ UNCHANGED <<client, requests>>

EchoServer == Serve \/ Answer

Next == EchoServer \/ \E c \in Clients : EchoClient(c)

(* fgets has input, wait() ends after a second and recv never blocks; of   *)
(* the server and the network nothing is assumed.                          *)
Spec == Init /\ [][Next]_vars /\ \A c \in Clients : WF_vars(EchoClient(c))

-----------------------------------------------------------------------------
(* Properties. *)

Messages == [from : Clients, line : 1 .. Lines]

TypeOK ==
  /\ pc \in [Clients -> {"fgets", "wait", "recv", "ended"}]
  /\ typed \in [Clients -> 0 .. Lines]
  /\ answers \in [Clients -> Seq(Messages)]
  /\ requests \in [Clients -> Seq(Messages)]
  /\ replies \in [Clients -> Seq(Messages)]
  /\ serving \in Messages \cup {Idle}
  /\ lost \in [Clients -> Nat]

(* The messages of a client that are not lost, the oldest first: answered, *)
(* on the way back, in the server, on the way there.                       *)
Served(c) == IF serving.from = c THEN <<serving>> ELSE <<>>
Chain(c) == (answers[c] \o replies[c]) \o (Served(c) \o requests[c])

(* Lines of s are those of client c, rise, and none of them is further     *)
(* behind its place than l lines that were lost out of t.                  *)
Orderly(s, c, t, l) ==
  /\ Len(s) <= t /\ t <= Len(s) + l
  /\ \A i \in 1 .. Len(s) :
       /\ s[i].from = c
       /\ i <= s[i].line /\ s[i].line <= i + l /\ s[i].line <= t
       /\ \A j \in 1 .. i - 1 : s[j].line < s[i].line

(* No message of a client overtakes another, is doubled, or is missing     *)
(* without having been lost: what the other two are proved from.           *)
ChainIsOrderly == \A c \in Clients : Orderly(Chain(c), c, typed[c], lost[c])

(* The answers a client gets are lines of its own, each at most once and   *)
(* in the order it sent them, however many clients the server has.         *)
OwnAnswersInOrder ==
  \A c \in Clients :
    LET got == answers[c] IN
      \A i \in 1 .. Len(got) :
        /\ got[i].from = c
        /\ got[i].line \in 1 .. typed[c]
        /\ \A j \in 1 .. i - 1 : got[j].line < got[i].line

(* A wait that timed out is never made up for: when a client is back at    *)
(* its prompt, its last answer is as many lines behind as it had rounds    *)
(* without an answer, less at most what the network lost.                  *)
LateAnswersShift ==
  \A c \in Clients :
    LET got == answers[c]
        missed == typed[c] - Len(got)
        lag == typed[c] - got[Len(got)].line
    IN  pc[c] = "fgets" /\ got # <<>> => lag <= missed /\ missed - lag <= lost[c]

(* Every client gets to the end of its input, even if the server never     *)
(* answers.                                                                *)
ClientsEnd == \A c \in Clients : <>(pc[c] = "ended")

(* "reply: %s": one line is printed per round, and it came from the        *)
(* server.  After a timeout the typed line itself is printed, so this does *)
(* not hold.                                                               *)
RepliesWereReceived ==
  \A c \in Clients : pc[c] = "fgets" => Len(answers[c]) = typed[c]
=============================================================================
