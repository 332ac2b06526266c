---------------------------- MODULE ControlLoop -----------------------------
(***************************************************************************)
(* main() of main.cpp between the simulator and its command port.          *)
(* Environment messages are sent to the group, by the simulator every step *)
(* or by any other sender: receive() asks for no source address.  The      *)
(* network may lose messages and, unless Ordered, duplicate and reorder    *)
(* them; the kernel queues what arrives.  The loop parses a datagram into  *)
(* the one packet object it has, copies the frame out of it, walks the     *)
(* blue robots and runs PID for index 0.  Senders and network are external.*)
(***************************************************************************)
EXTENDS MotorLaw, Sequences

CONSTANTS
  Frames,      \* blue robots of a frame, in the order of robots_blue
  NoFrame,     \* an Environment message whose frame is not set
  Ordered,     \* does the network keep the order of sending
  QueueBound,  \* datagrams the receive queue of the kernel holds
  MessageBound,  \* messages that are sent
  MyRobotsAreYellow  \* the team color defined at the top of main

(* A blue robot as PID sees it; bearing is that of the objective it got.   *)
(* Which robot a frame lists first may change from frame to frame.         *)
Robots == [orientation : Int, bearing : Angles]

ASSUME ControlLoopAssumption ==
  /\ \A f \in Frames : f \in Seq(Robots)
  /\ NoFrame \notin Frames
  /\ Ordered \in BOOLEAN
  /\ QueueBound \in Nat
  /\ MessageBound \in Nat
  /\ MyRobotsAreYellow \in BOOLEAN

VARIABLES
  emitted,    \* the messages sent to the group, in the order of sending
  delivered,  \* number of the latest of them the network delivered
  queue,      \* the kernel's receive queue: numbers of messages, or Junk
  pc,         \* "receive" or "robots"
  packet,     \* the Environment object every datagram is parsed into
  detection,  \* the copy of its frame
  i,          \* the loop index over robots_blue
  lastError,  \* static double lastError of PID
  command,    \* the command last handed to sendCommand
  acted       \* the message PID last ran for (history)

vars == <<emitted, delivered, queue, pc, packet, detection, i, lastError,
          command, acted>>

Junk == 0  \* a datagram that does not parse as an Environment message

EmptyPacket == [number |-> 0, frame |-> NoFrame]
NoCommand == [id |-> 0, yellowteam |-> FALSE, wheels |-> [left |-> 0, right |-> 0]]

Init ==
  /\ emitted = <<>>
  /\ delivered = 0
  /\ queue = <<>>
  /\ pc = "receive"
  /\ packet = EmptyPacket
  /\ detection = <<>>
  /\ i = 0
  /\ lastError = 0
  /\ command = NoCommand
  /\ acted = 0

-----------------------------------------------------------------------------
(* Senders and network. *)

clientVars == <<pc, packet, detection, i, lastError, command, acted>>

SendMessage ==
  /\ Len(emitted) < MessageBound
  /\ \E f \in Frames \cup {NoFrame} : emitted' = Append(emitted, f)
  /\ UNCHANGED <<delivered, queue, clientVars>>

Deliver(n) ==
  /\ Len(queue) < QueueBound
  /\ Ordered => n > delivered
  /\ queue' = Append(queue, n)
  /\ delivered' = IF n > delivered THEN n ELSE delivered
  /\ UNCHANGED <<emitted, clientVars>>

DeliverJunk ==
  /\ Len(queue) < QueueBound
  /\ queue' = Append(queue, Junk)
  /\ UNCHANGED <<emitted, delivered, clientVars>>

Network == DeliverJunk \/ \E n \in DOMAIN emitted : Deliver(n)

-----------------------------------------------------------------------------
(* The client. *)

(* Mutated: the packet is not cleared, so a message is merged into what    *)
(* the previous one left: repeated fields are appended, an absent frame    *)
(* leaves the old one.                                                     *)
ParsedMerging(n) ==
  [number |-> n,
   frame |-> CASE emitted[n] = NoFrame   -> packet.frame
               [] packet.frame = NoFrame -> emitted[n]
               [] OTHER                  -> packet.frame \o emitted[n]]

(* ParseFromArray clears the packet and merges the message into it. *)
Parsed(n) == [number |-> n, frame |-> emitted[n]]

(* Mutated: the index is not reset for the next frame. *)
StartFrameKeepingIndex(frame) ==
  /\ detection' = frame
  /\ UNCHANGED i
  /\ pc' = "robots"

(* The frame is copied and the loop over its blue robots begins. *)
StartFrame(frame) ==
  /\ detection' = frame
  /\ i' = 0
  /\ pc' = "robots"

(* mc.recv takes the datagram that came first. *)
Take(d) ==
  /\ queue # <<>>
  /\ d = Head(queue)
  /\ queue' = Tail(queue)

(* receive() returns true; a message without a frame is passed over. *)
ReceiveMessage(n) ==
  /\ pc = "receive"
  /\ Take(n)
  /\ packet' = Parsed(n)
  /\ IF packet'.frame # NoFrame
       THEN StartFrame(packet'.frame)
       ELSE UNCHANGED <<pc, detection, i>>
  /\ UNCHANGED <<emitted, delivered, lastError, command, acted>>

(* Mutated: main does not look at what receive() returned, so the frame of *)
(* a message that broke off is answered.                                   *)
ReceiveJunkUnchecked ==
  /\ pc = "receive"
  /\ Take(Junk)
  /\ \E f \in Frames \cup {NoFrame} :
       /\ packet' = [number |-> 0, frame |-> f]
       /\ IF f # NoFrame THEN StartFrame(f) ELSE UNCHANGED <<pc, detection, i>>
  /\ UNCHANGED <<emitted, delivered, lastError, command, acted>>

(* Parsing fails half way: receive() returns false and leaves in the       *)
(* packet what it had read.                                                *)
ReceiveJunk ==
  /\ pc = "receive"
  /\ Take(Junk)
  /\ \E f \in Frames \cup {NoFrame} : packet' = [number |-> 0, frame |-> f]
  /\ UNCHANGED <<emitted, delivered, pc, detection, i, lastError, command, acted>>

(* PID(robot, o, i, commandClient): the command carries the index and a    *)
(* literal false for the color.                                            *)
PID(robot, index) ==
  LET heading == to180range(robot.orientation) IN
    /\ lastError' = HeadingError(heading, robot.bearing)
    /\ command' = [id |-> index, yellowteam |-> FALSE,
                   wheels |-> PIDCommand(heading, robot.bearing, lastError)]
    /\ acted' = packet.number

(* Mutated: PID runs for every blue robot of the frame. *)
HandleEveryRobot ==
  /\ pc = "robots"
  /\ i < Len(detection)
  /\ PID(detection[i + 1], i)
  /\ i' = i + 1
  /\ UNCHANGED <<emitted, delivered, queue, pc, packet, detection>>

(* Mutated: the index only moves on after a robot was steered. *)
HandleRobotStuck ==
  /\ pc = "robots"
  /\ i < Len(detection)
  /\ IF i = 0 THEN PID(detection[i + 1], i) /\ i' = i + 1
              ELSE UNCHANGED <<i, lastError, command, acted>>
  /\ UNCHANGED <<emitted, delivered, queue, pc, packet, detection>>

HandleRobot ==
  /\ pc = "robots"
  /\ i < Len(detection)
  /\ IF i = 0 THEN PID(detection[i + 1], i)
              ELSE UNCHANGED <<lastError, command, acted>>
  /\ i' = i + 1
  /\ UNCHANGED <<emitted, delivered, queue, pc, packet, detection>>

EndFrame ==
  /\ pc = "robots"
  /\ i >= Len(detection)
  /\ pc' = "receive"
  /\ UNCHANGED <<emitted, delivered, queue, packet, detection, i, lastError,
                 command, acted>>

Client ==
  \/ \E n \in DOMAIN emitted : ReceiveMessage(n)
  \/ ReceiveJunk
  \/ HandleRobot
  \/ EndFrame

Next == SendMessage \/ Network \/ Client

(* while(true) polls a non-blocking socket: the loop always goes on.       *)
(* Nothing is assumed of the senders or the network.                       *)
Spec == Init /\ [][Next]_vars /\ WF_vars(Client)

-----------------------------------------------------------------------------
(* Properties. *)

(* Type invariant of the loop. *)
TypeOK ==
  /\ emitted \in Seq(Frames \cup {NoFrame}) /\ Len(emitted) <= MessageBound
  /\ delivered \in 0 .. Len(emitted)
  /\ queue \in Seq(Nat) /\ Len(queue) <= QueueBound
  /\ \A k \in DOMAIN queue : queue[k] \in 0 .. Len(emitted)
  /\ pc \in {"receive", "robots"}
  /\ packet \in [number : 0 .. Len(emitted), frame : Frames \cup {NoFrame}]
  /\ detection \in Frames \cup {<<>>}
  /\ i \in 0 .. Len(detection)
  /\ lastError \in Angles
  /\ command \in [id : Nat, yellowteam : BOOLEAN, wheels : [left : Speeds, right : Speeds]]
  /\ acted \in 0 .. Len(emitted)

(* While a frame is walked through, the copy is the frame of one message   *)
(* that was sent, the one last parsed: nothing of an earlier message, or   *)
(* of one that failed to parse, is left in it.                             *)
DetectionIsWhatWasSent ==
  pc = "robots" => packet.number \in DOMAIN emitted /\ detection = emitted[packet.number]

(* On a network that keeps the order the loop never answers an older frame *)
(* than one it answered before, though it never looks at a frame's step.   *)
AnswersNeverGoBack == [][acted' # acted => acted' > acted]_vars

(* lastError is static: it passes from the robot one frame lists first to  *)
(* the one the next frame answered lists first.  Whatever was remembered   *)
(* of another robot, the command in force turns the first robot of the     *)
(* frame it answers towards its objective, seen from the front that leads, *)
(* unless that front is within 11 degrees of it.                           *)
TurnsTheRobotItAnswers ==
  acted # 0 =>
    LET robot == emitted[acted][1]
    IN  TurnsTowards(command.wheels, robot.orientation, robot.bearing)

(* Every frame with a blue robot that reaches the queue is answered.       *)
FrameAnswered ==
  \A n \in 1 .. MessageBound :
    (/\ \E k \in DOMAIN queue : queue[k] = n
     /\ emitted[n] \notin {NoFrame, <<>>}) ~> acted = n

Follower == INSTANCE FrameFollower

(* The loop implements the abstract follower: buffering, loss, junk and    *)
(* messages without a frame never change what a command is computed from.  *)
ImplementsFollower == Follower!Spec

(* "define your team color here": commands go to robots of that color.     *)
(* PID passes a literal false, so this does not hold for yellow.           *)
CommandsMyTeam == acted # 0 => command.yellowteam = MyRobotsAreYellow

=============================================================================
