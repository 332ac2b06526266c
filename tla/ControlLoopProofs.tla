------------------------- MODULE ControlLoopProofs --------------------------
(***************************************************************************)
(* Theorems about the main loop of main.cpp, for any frames with any       *)
(* number of robots, any queue, any number of messages and any resolution. *)
(***************************************************************************)
EXTENDS ControlLoop, TLAPS

(* The lemmas about the steering law hold of the law this module extends;  *)
(* they do not depend on the variables and sets of the closed loop.        *)
Law == INSTANCE SteeringProofs
         WITH Orientations <- {}, Bearings <- {}, MaxTurn <- 1, MaxGap <- 1,
              pose <- 0, heading <- 0, bearing <- 0, gap <- 0

Messages == Frames \cup {NoFrame}

(* What taking the oldest element leaves of a sequence, and what appending *)
(* an element makes of it.                                                 *)
LEMMA TailSteps ==
  ASSUME NEW S, NEW q \in Seq(S), q # <<>>
  PROVE  /\ Tail(q) \in Seq(S) /\ Len(Tail(q)) = Len(q) - 1
         /\ 1 \in DOMAIN q /\ Head(q) = q[1]
         /\ \A k \in DOMAIN Tail(q) : k + 1 \in DOMAIN q /\ Tail(q)[k] = q[k + 1]
OBVIOUS

LEMMA AppendSteps ==
  ASSUME NEW S, NEW q \in Seq(S), NEW e \in S
  PROVE  /\ Append(q, e) \in Seq(S) /\ Len(Append(q, e)) = Len(q) + 1
         /\ \A k \in DOMAIN q : k \in DOMAIN Append(q, e) /\ Append(q, e)[k] = q[k]
         /\ \A k \in DOMAIN Append(q, e) :
              \/ k \in DOMAIN q /\ Append(q, e)[k] = q[k]
              \/ k = Len(q) + 1 /\ Append(q, e)[k] = e
OBVIOUS

(* The law of the lemmas is the one the loop calls. *)
LEMMA LawSame ==
  ASSUME NEW o \in Int, NEW b \in Angles, NEW l \in Int
  PROVE  /\ Law!MotorAssumption /\ Law!OrientationsAssumption /\ Law!HeadingLoopAssumption
         /\ Law!Angles = Angles /\ Law!Speeds = Speeds
         /\ Law!to180range(o) = to180range(o)
         /\ Law!HeadingError(to180range(o), b) = HeadingError(to180range(o), b)
         /\ Law!PIDCommand(to180range(o), b, l) = PIDCommand(to180range(o), b, l)
         /\ \A v : Law!Magnitude(v) = Magnitude(v)
<1>1. Law!MotorAssumption /\ Law!OrientationsAssumption /\ Law!HeadingLoopAssumption
  BY MotorAssumption DEF Law!MotorAssumption, Law!OrientationsAssumption, Law!HeadingLoopAssumption
<1>2. Law!Angles = Angles /\ Law!Speeds = Speeds
  BY DEF Law!Angles, Angles, Law!Speeds, Speeds
<1>3. \A a : Law!to180range(a) = to180range(a)
  BY DEF Law!to180range, to180range, Law!Fold, Fold, Law!Fmod, Fmod, Law!Turn, Turn
<1>4. \A a, c : Law!smallestAngleDiff(a, c) = smallestAngleDiff(a, c)
  BY DEF Law!smallestAngleDiff, smallestAngleDiff, Law!Fold, Fold, Law!Fmod, Fmod, Law!Turn, Turn
<1>5. \A a, c : Law!Reversed(a, c) <=> Reversed(a, c)
  BY <1>4 DEF Law!Reversed, Reversed, Law!Magnitude, Magnitude
<1>6. \A a, c : Law!HeadingError(a, c) = HeadingError(a, c)
  BY <1>3, <1>4, <1>5 DEF Law!HeadingError, HeadingError, Law!LeadingHeading, LeadingHeading
<1>7. \A a, c : Law!PIDCommand(a, c, l) = PIDCommand(a, c, l)
  <2>1. \A e : Law!motorSpeed(e, l) = motorSpeed(e, l)
    BY DEF Law!motorSpeed, motorSpeed, Law!Saturate, Saturate, Law!Kp, Kp, Law!Kd, Kd
  <2>2. \A v : Law!Wheels(v, TRUE) = Wheels(v, TRUE) /\ Law!Wheels(v, FALSE) = Wheels(v, FALSE)
    BY DEF Law!Wheels, Wheels
  <2>. TAKE a, c
  <2>3. Reversed(a, c) \in BOOLEAN /\ Law!Reversed(a, c) \in BOOLEAN
    BY DEF Reversed, Law!Reversed
  <2>4. Reversed(a, c) = Law!Reversed(a, c)
    BY <1>5, <2>3
  <2>5. Law!motorSpeed(Law!HeadingError(a, c), l) = motorSpeed(HeadingError(a, c), l)
    BY <1>6, <2>1
  <2>. QED BY <2>2, <2>3, <2>4, <2>5 DEF Law!PIDCommand, PIDCommand
<1>8. \A v : Law!Magnitude(v) = Magnitude(v)
  BY DEF Law!Magnitude, Magnitude
<1>. QED BY <1>1, <1>2, <1>3, <1>6, <1>7, <1>8

(* What the law gives PID() for any orientation a frame carries: types,    *)
(* the bound of what it remembers, and a turn the right way.               *)
LEMMA LawTypes ==
  ASSUME NEW o \in Int, NEW b \in Angles, NEW l \in Int
  PROVE  /\ to180range(o) \in Angles
         /\ HeadingError(to180range(o), b) \in Angles
         /\ 20 * Magnitude(HeadingError(to180range(o), b)) <= 11 * H
         /\ PIDCommand(to180range(o), b, l) \in [left : Speeds, right : Speeds]
<1>1. Law!to180range(o) \in Law!Angles
  BY LawSame, Law!NormalisedRange
<1>. DEFINE h == to180range(o)
<1>2. h \in Law!Angles /\ b \in Law!Angles
  BY <1>1, LawSame
<1>3. /\ Law!MotorAssumption /\ Law!OrientationsAssumption /\ Law!HeadingLoopAssumption
      /\ Law!Angles = Angles /\ Law!Speeds = Speeds
      /\ Law!HeadingError(h, b) = HeadingError(h, b)
      /\ Law!PIDCommand(h, b, l) = PIDCommand(h, b, l)
      /\ \A v : Law!Magnitude(v) = Magnitude(v)
  BY LawSame
<1>. HIDE DEF h
<1>4. /\ Law!HeadingError(h, b) \in Law!Angles
      /\ 20 * Law!Magnitude(Law!HeadingError(h, b)) <= 11 * H
      /\ Law!PIDCommand(h, b, l) \in [left : Law!Speeds, right : Law!Speeds]
  BY <1>2, <1>3, Law!ErrorBound, Law!PIDStep
<1>. QED BY <1>2, <1>3, <1>4 DEF h

LEMMA LawTurns ==
  ASSUME NEW o \in Int, NEW b \in Angles, NEW l \in Int, 20 * Magnitude(l) <= 11 * H
  PROVE  TurnsTowards(PIDCommand(to180range(o), b, l), o, b)
<1>1. /\ Law!MotorAssumption /\ Law!OrientationsAssumption /\ Law!HeadingLoopAssumption
      /\ Law!Angles = Angles
      /\ Law!to180range(o) = to180range(o)
      /\ Law!PIDCommand(to180range(o), b, l) = PIDCommand(to180range(o), b, l)
      /\ \A v : Law!Magnitude(v) = Magnitude(v)
  BY LawSame
<1>. DEFINE w == PIDCommand(to180range(o), b, l)
<1>2. Law!TurnsTowards(w, o, b)
  BY <1>1, Law!CommandTurns
<1>. HIDE DEF w
<1>3. TurnsTowards(w, o, b)
  BY <1>1, <1>2 DEF Law!TurnsTowards, TurnsTowards, Law!SameDirection, SameDirection,
                    Law!Steering, Steering, Law!Turn, Turn
<1>. QED BY <1>3 DEF w

(* A call of PID on a blue robot: its memory stays a normalised angle and  *)
(* the command is well formed.                                             *)
LEMMA PIDType ==
  ASSUME TypeOK, NEW robot \in Robots, NEW index \in Nat, PID(robot, index)
  PROVE  /\ lastError' \in Angles
         /\ command' \in [id : Nat, yellowteam : BOOLEAN,
                          wheels : [left : Speeds, right : Speeds]]
         /\ acted' = packet.number
<1>. DEFINE h == to180range(robot.orientation)
            w == PIDCommand(h, robot.bearing, lastError)
<1>1. robot.bearing \in Angles /\ robot.orientation \in Int
  BY DEF Robots
<1>2. lastError \in Int
  BY DEF TypeOK, Angles
<1>3. HeadingError(h, robot.bearing) \in Angles
  BY <1>1, <1>2, LawTypes
<1>4. w \in [left : Speeds, right : Speeds]
  BY <1>1, <1>2, LawTypes
<1>5. /\ lastError' = HeadingError(h, robot.bearing)
      /\ command' = [id |-> index, yellowteam |-> FALSE, wheels |-> w]
      /\ acted' = packet.number
  BY DEF PID
<1>. HIDE DEF h, w
<1>. QED BY <1>1, <1>3, <1>4, <1>5

(* Type correctness of the loop. *)
THEOREM TypeCorrect == Spec => []TypeOK
<1>. USE ControlLoopAssumption
<1>1. Init => TypeOK
  BY MotorAssumption DEF Init, TypeOK, EmptyPacket, NoCommand, Angles, Speeds
<1>2. TypeOK /\ [Next]_vars => TypeOK'
  <2>. SUFFICES ASSUME TypeOK, [Next]_vars PROVE TypeOK'
    OBVIOUS
  <2>1. ASSUME SendMessage PROVE TypeOK'
    <3>1. PICK f \in Messages : emitted' = Append(emitted, f)
      BY <2>1 DEF SendMessage, Messages
    <3>2. emitted' \in Seq(Messages) /\ Len(emitted') = Len(emitted) + 1
          /\ Len(emitted) \in Nat
      BY <3>1, AppendSteps DEF TypeOK, Messages
    <3>3. Len(emitted') <= MessageBound
      BY <2>1, <3>2 DEF SendMessage, TypeOK
    <3>4. UNCHANGED <<delivered, queue, pc, packet, detection, i, lastError, command, acted>>
      BY <2>1 DEF SendMessage, clientVars
    <3>5. \A n \in 0 .. Len(emitted) : n \in 0 .. Len(emitted')
      BY <3>2
    <3>6. /\ delivered' \in 0 .. Len(emitted') /\ acted' \in 0 .. Len(emitted')
          /\ \A k \in DOMAIN queue' : queue'[k] \in 0 .. Len(emitted')
      BY <3>4, <3>5 DEF TypeOK
    <3>7. packet' \in [number : 0 .. Len(emitted'), frame : Messages]
      <4>1. packet \in [number : 0 .. Len(emitted), frame : Messages]
        BY DEF TypeOK, Messages
      <4>. QED BY <3>4, <3>5, <4>1
    <3>. QED BY <3>2, <3>3, <3>4, <3>6, <3>7 DEF TypeOK, Messages
  <2>2. ASSUME NEW n \in 0 .. Len(emitted), Len(queue) < QueueBound,
               queue' = Append(queue, n), delivered' \in 0 .. Len(emitted),
               UNCHANGED <<emitted, clientVars>>
        PROVE  TypeOK'
    <3>1. n \in Nat /\ queue \in Seq(Nat) /\ Len(queue) \in Nat
      BY <2>2 DEF TypeOK
    <3>2. /\ Append(queue, n) \in Seq(Nat) /\ Len(Append(queue, n)) = Len(queue) + 1
          /\ \A k \in DOMAIN Append(queue, n) :
               \/ k \in DOMAIN queue /\ Append(queue, n)[k] = queue[k]
               \/ Append(queue, n)[k] = n
      BY <3>1, AppendSteps
    <3>3. \A k \in DOMAIN queue' : queue'[k] \in 0 .. Len(emitted)
      BY <2>2, <3>2 DEF TypeOK
    <3>4. Len(queue') <= QueueBound
      BY <2>2, <3>1, <3>2
    <3>. QED BY <2>2, <3>2, <3>3, <3>4 DEF clientVars, TypeOK
  <2>3. ASSUME NEW n \in DOMAIN emitted, Deliver(n) PROVE TypeOK'
    <3>1. n \in 0 .. Len(emitted) /\ delivered' \in 0 .. Len(emitted)
      BY <2>3 DEF Deliver, TypeOK
    <3>. QED BY <2>2, <2>3, <3>1 DEF Deliver
  <2>4. ASSUME DeliverJunk PROVE TypeOK'
    <3>1. Junk \in 0 .. Len(emitted) /\ delivered' \in 0 .. Len(emitted)
      BY <2>4 DEF DeliverJunk, Junk, TypeOK
    <3>. QED BY <2>2, <2>4, <3>1 DEF DeliverJunk
  <2>5. ASSUME NEW d, Take(d)
        PROVE  /\ queue' \in Seq(Nat) /\ Len(queue') <= QueueBound
               /\ \A k \in DOMAIN queue' : queue'[k] \in 0 .. Len(emitted)
    <3>1. queue \in Seq(Nat) /\ queue # <<>> /\ queue' = Tail(queue)
      BY <2>5 DEF Take, TypeOK
    <3>2. /\ queue' \in Seq(Nat) /\ Len(queue') = Len(queue) - 1
          /\ \A k \in DOMAIN queue' : k + 1 \in DOMAIN queue /\ queue'[k] = queue[k + 1]
      BY <3>1, TailSteps
    <3>. QED BY <3>1, <3>2 DEF TypeOK
  <2>6. ASSUME NEW n \in DOMAIN emitted, ReceiveMessage(n) PROVE TypeOK'
    <3>1. n \in 0 .. Len(emitted) /\ emitted[n] \in Messages
      BY <2>6 DEF TypeOK, Messages
    <3>2. packet' = [number |-> n, frame |-> emitted[n]]
      BY <2>6 DEF ReceiveMessage, Parsed
    <3>3. CASE emitted[n] # NoFrame
      <4>1. StartFrame(emitted[n]) /\ emitted[n] \in Frames
        BY <2>6, <3>1, <3>2, <3>3 DEF ReceiveMessage, Messages
      <4>2. detection' \in Frames /\ i' \in 0 .. Len(detection') /\ pc' = "robots"
        <5>1. detection' \in Frames /\ i' = 0 /\ pc' = "robots"
          BY <2>6, <4>1 DEF StartFrame, ReceiveMessage
        <5>2. Len(detection') \in Nat
          BY <5>1
        <5>. QED BY <5>1, <5>2
      <4>. QED BY <2>5, <2>6, <3>1, <3>2, <4>2 DEF ReceiveMessage, TypeOK, Messages
    <3>4. CASE emitted[n] = NoFrame
      BY <2>5, <2>6, <3>1, <3>2, <3>4 DEF ReceiveMessage, TypeOK, Messages
    <3>. QED BY <3>3, <3>4
  <2>7. ASSUME ReceiveJunk PROVE TypeOK'
    <3>1. PICK f \in Messages : packet' = [number |-> 0, frame |-> f]
      BY <2>7 DEF ReceiveJunk, Messages
    <3>. QED BY <2>5, <2>7, <3>1 DEF ReceiveJunk, TypeOK, Messages
  <2>8. ASSUME HandleRobot PROVE TypeOK'
    <3>1. /\ detection \in Frames /\ i \in Nat /\ i + 1 \in 1 .. Len(detection)
          /\ detection[i + 1] \in Robots
      BY <2>8 DEF HandleRobot, TypeOK
    <3>2. CASE i = 0
      <4>1. PID(detection[i + 1], i)
        BY <2>8, <3>2 DEF HandleRobot
      <4>2. /\ lastError' \in Angles
            /\ command' \in [id : Nat, yellowteam : BOOLEAN,
                             wheels : [left : Speeds, right : Speeds]]
            /\ acted' = packet.number
        BY <3>1, <4>1, PIDType
      <4>3. i' \in 0 .. Len(detection') /\ UNCHANGED <<emitted, delivered, queue, pc, packet, detection>>
        BY <2>8, <3>1 DEF HandleRobot, TypeOK
      <4>4. acted' \in 0 .. Len(emitted')
        BY <4>2, <4>3 DEF TypeOK
      <4>. QED BY <4>2, <4>3, <4>4 DEF TypeOK
    <3>3. CASE i # 0
      <4>1. i' \in 0 .. Len(detection')
        BY <2>8, <3>1 DEF HandleRobot
      <4>2. UNCHANGED <<emitted, delivered, queue, pc, packet, detection, lastError, command,
                        acted>>
        BY <2>8, <3>3 DEF HandleRobot
      <4>. QED BY <4>1, <4>2 DEF TypeOK
    <3>. QED BY <3>2, <3>3
  <2>9. ASSUME EndFrame PROVE TypeOK'
    BY <2>9 DEF EndFrame, TypeOK
  <2>10. CASE UNCHANGED vars
    BY <2>10 DEF vars, TypeOK
  <2>. QED BY <2>1, <2>3, <2>4, <2>6, <2>7, <2>8, <2>9, <2>10 DEF Next, Network, Client
<1>. QED BY <1>1, <1>2, PTL DEF Spec

-----------------------------------------------------------------------------
(* The frame in hand. *)

(* What was sent stays what it was.                                        *)
LEMMA EmittedStays ==
  ASSUME TypeOK, SendMessage, NEW n \in DOMAIN emitted
  PROVE  n \in DOMAIN emitted' /\ emitted'[n] = emitted[n]
<1>1. PICK f \in Messages : emitted' = Append(emitted, f)
  BY DEF SendMessage, Messages
<1>. QED BY <1>1, AppendSteps DEF TypeOK, Messages

(* While a frame is walked through, the copy is the frame of one message   *)
(* that was sent, the one last parsed: nothing of an earlier message, or   *)
(* of one that failed to parse, is left in it.                             *)
THEOREM DetectionSent == Spec => []DetectionIsWhatWasSent
<1>1. Init => DetectionIsWhatWasSent
  BY DEF Init, DetectionIsWhatWasSent
<1>2. TypeOK /\ DetectionIsWhatWasSent /\ [Next]_vars => DetectionIsWhatWasSent'
  <2>. SUFFICES ASSUME TypeOK, DetectionIsWhatWasSent, [Next]_vars
                PROVE  DetectionIsWhatWasSent'
    OBVIOUS
  <2>1. CASE SendMessage
    BY <2>1, EmittedStays DEF SendMessage, clientVars, DetectionIsWhatWasSent
  <2>2. CASE Network
    BY <2>2 DEF Network, Deliver, DeliverJunk, clientVars, DetectionIsWhatWasSent
  <2>3. ASSUME NEW n \in DOMAIN emitted, ReceiveMessage(n) PROVE DetectionIsWhatWasSent'
    <3>1. packet' = [number |-> n, frame |-> emitted[n]] /\ emitted' = emitted
      BY <2>3 DEF ReceiveMessage, Parsed
    <3>2. pc' = "robots" => detection' = emitted[n]
      BY <2>3, <3>1 DEF ReceiveMessage, StartFrame
    <3>. QED BY <3>1, <3>2 DEF DetectionIsWhatWasSent
  <2>4. CASE ReceiveJunk
    BY <2>4 DEF ReceiveJunk, DetectionIsWhatWasSent
  <2>5. CASE HandleRobot
    BY <2>5 DEF HandleRobot, DetectionIsWhatWasSent
  <2>6. CASE EndFrame
    BY <2>6 DEF EndFrame, DetectionIsWhatWasSent
  <2>7. CASE UNCHANGED vars
    BY <2>7 DEF vars, DetectionIsWhatWasSent
  <2>. QED BY <2>1, <2>2, <2>3, <2>4, <2>5, <2>6, <2>7 DEF Next, Client
<1>. QED BY <1>1, <1>2, TypeCorrect, PTL DEF Spec

-----------------------------------------------------------------------------
(* Order. *)

(* The message answered last and the one in hand are not beyond what was   *)
(* delivered, and one in hand that was not answered yet is newer.          *)
HandInOrder ==
  /\ acted <= delivered
  /\ pc = "robots" => /\ packet.number <= delivered
                      /\ acted <= packet.number
                      /\ i = 0 => acted < packet.number

(* What waits in the queue was delivered, and is newer than both.          *)
QueueAhead ==
  \A k \in DOMAIN queue :
    /\ queue[k] <= delivered
    /\ queue[k] # Junk => queue[k] > acted /\ (pc = "robots" => queue[k] > packet.number)

(* The messages that wait in the queue rise.                               *)
QueueRises ==
  \A k, l \in DOMAIN queue :
    k < l /\ queue[k] # Junk /\ queue[l] # Junk => queue[k] < queue[l]

InOrder == HandInOrder /\ QueueAhead /\ QueueRises

(* Order is kept by whatever joins the queue behind later messages.        *)
LEMMA OrderAppended ==
  ASSUME TypeOK, InOrder, NEW n \in Nat, n = Junk \/ n > delivered,
         queue' = Append(queue, n), delivered' = IF n > delivered THEN n ELSE delivered,
         UNCHANGED clientVars
  PROVE  InOrder'
<1>1. /\ Append(queue, n) \in Seq(Nat)
      /\ queue \in Seq(Nat)
      /\ \A k \in DOMAIN Append(queue, n) :
           \/ k \in DOMAIN queue /\ Append(queue, n)[k] = queue[k]
           \/ k = Len(queue) + 1 /\ Append(queue, n)[k] = n
  BY AppendSteps DEF TypeOK
<1>2. delivered \in Nat /\ delivered' \in Nat /\ delivered <= delivered' /\ n <= delivered'
  BY DEF TypeOK
<1>3. acted \in Nat /\ packet.number \in Nat
  BY DEF TypeOK
<1>4. \A k \in DOMAIN queue : k \in Nat /\ k <= Len(queue) /\ queue[k] \in Nat
  BY <1>1
<1>5. Len(queue) \in Nat
  BY <1>1
<1>. DEFINE q == Append(queue, n)
<1>6. \A k \in DOMAIN q : \/ k \in DOMAIN queue /\ q[k] = queue[k]
                          \/ k = Len(queue) + 1 /\ q[k] = n
  BY <1>1
<1>7. queue' = q
  OBVIOUS
<1>. HIDE DEF q
<1>8. acted' = acted /\ pc' = pc /\ packet' = packet /\ i' = i
  BY DEF clientVars
<1>9. HandInOrder'
  BY <1>2, <1>3, <1>8 DEF InOrder, HandInOrder
<1>10. \A k \in DOMAIN q : q[k] <= delivered'
  BY <1>2, <1>4, <1>6 DEF InOrder, HandInOrder, QueueAhead, QueueRises
<1>11. \A k \in DOMAIN q :
         q[k] # Junk => q[k] > acted /\ (pc = "robots" => q[k] > packet.number)
  BY <1>2, <1>3, <1>6 DEF InOrder, HandInOrder, QueueAhead, QueueRises
<1>12. ASSUME NEW k \in DOMAIN q, NEW l \in DOMAIN q, k < l, q[k] # Junk, q[l] # Junk
       PROVE  q[k] < q[l]
  <2>1. CASE l \in DOMAIN queue /\ q[l] = queue[l]
    <3>1. k \in DOMAIN queue /\ q[k] = queue[k]
      BY <1>4, <1>5, <1>6, <1>12, <2>1
    <3>. QED BY <1>12, <2>1, <3>1 DEF InOrder, HandInOrder, QueueAhead, QueueRises
  <2>2. CASE l = Len(queue) + 1 /\ q[l] = n
    <3>1. k \in DOMAIN queue /\ q[k] = queue[k]
      BY <1>5, <1>6, <1>12, <2>2
    <3>2. q[k] \in Nat /\ q[k] <= delivered /\ n > delivered
      BY <1>4, <1>12, <2>2, <3>1 DEF InOrder, HandInOrder, QueueAhead, QueueRises
    <3>. QED BY <1>2, <2>2, <3>2
  <2>. QED BY <1>6, <2>1, <2>2
<1>13. \A k, l \in DOMAIN q : k < l /\ q[k] # Junk /\ q[l] # Junk => q[k] < q[l]
  BY <1>12
<1>14. QueueAhead'
  BY <1>7, <1>8, <1>10, <1>11 DEF QueueAhead, Junk
<1>15. QueueRises'
  BY <1>7, <1>13 DEF QueueRises, Junk
<1>. QED BY <1>9, <1>14, <1>15 DEF InOrder

(* What is behind the datagram that is taken is newer than it.             *)
LEMMA OrderTaken ==
  ASSUME TypeOK, InOrder, NEW d, Take(d)
  PROVE  /\ d \in Nat /\ d <= delivered
         /\ d # Junk => d > acted
         /\ \A k \in DOMAIN queue' :
              /\ queue'[k] <= delivered
              /\ queue'[k] # Junk => queue'[k] > acted
              /\ queue'[k] # Junk /\ d # Junk => queue'[k] > d
         /\ \A k, l \in DOMAIN queue' :
              k < l /\ queue'[k] # Junk /\ queue'[l] # Junk => queue'[k] < queue'[l]
<1>1. queue \in Seq(Nat) /\ queue # <<>> /\ queue' = Tail(queue) /\ d = Head(queue)
  BY DEF Take, TypeOK
<1>2. /\ 1 \in DOMAIN queue /\ d = queue[1] /\ queue' \in Seq(Nat)
      /\ \A k \in DOMAIN queue' : k + 1 \in DOMAIN queue /\ queue'[k] = queue[k + 1]
  BY <1>1, TailSteps
<1>3. \A k \in DOMAIN queue' : k \in Nat /\ 1 < k + 1
  BY <1>2
<1>4. \A k, l \in DOMAIN queue' : k < l => k + 1 < l + 1
  BY <1>3
<1>5. d \in Nat
  BY <1>1, <1>2
<1>. QED BY <1>2, <1>3, <1>4, <1>5 DEF InOrder, HandInOrder, QueueAhead, QueueRises

(* Order is an invariant of the loop when the network keeps it.            *)
LEMMA OrderKept ==
  ASSUME Ordered
  PROVE  Spec => []InOrder
<1>1. Init => InOrder
  BY DEF Init, InOrder, HandInOrder, QueueAhead, QueueRises
<1>2. TypeOK /\ InOrder /\ [Next]_vars => InOrder'
  <2>. SUFFICES ASSUME TypeOK, InOrder, [Next]_vars PROVE InOrder'
    OBVIOUS
  <2>1. CASE SendMessage
    BY <2>1 DEF SendMessage, clientVars, InOrder, HandInOrder, QueueAhead, QueueRises
  <2>2. ASSUME NEW n \in DOMAIN emitted, Deliver(n) PROVE InOrder'
    <3>1. n \in Nat
      BY DEF TypeOK
    <3>. QED BY <2>2, <3>1, OrderAppended DEF Deliver
  <2>3. CASE DeliverJunk
    <3>1. delivered \in Nat
      BY DEF TypeOK
    <3>2. Junk \in Nat /\ delivered' = IF Junk > delivered THEN Junk ELSE delivered
      BY <2>3, <3>1 DEF DeliverJunk, Junk
    <3>. QED BY <2>3, <3>2, OrderAppended DEF DeliverJunk
  <2>4. ASSUME NEW n \in DOMAIN emitted, ReceiveMessage(n) PROVE InOrder'
    <3>1. /\ Take(n) /\ n # Junk /\ packet'.number = n
          /\ acted' = acted /\ delivered' = delivered
      BY <2>4 DEF ReceiveMessage, Parsed, Junk, TypeOK
    <3>2. acted \in Nat /\ delivered \in Nat /\ n \in Nat
      BY DEF TypeOK
    <3>3. n <= delivered /\ n > acted
      BY <3>1, OrderTaken
    <3>4. \A k \in DOMAIN queue' :
            /\ queue'[k] <= delivered
            /\ queue'[k] # Junk => queue'[k] > acted /\ queue'[k] > n
      BY <3>1, OrderTaken
    <3>5. \A k, l \in DOMAIN queue' :
            k < l /\ queue'[k] # Junk /\ queue'[l] # Junk => queue'[k] < queue'[l]
      BY <3>1, OrderTaken
    <3>. QED BY <3>1, <3>2, <3>3, <3>4, <3>5 DEF InOrder, HandInOrder, QueueAhead, QueueRises
  <2>5. CASE ReceiveJunk
    <3>1. Take(Junk) /\ pc' = "receive" /\ acted' = acted /\ delivered' = delivered
      BY <2>5 DEF ReceiveJunk
    <3>2. acted \in Nat /\ delivered \in Nat /\ acted <= delivered
      BY DEF TypeOK, InOrder, HandInOrder, QueueAhead, QueueRises
    <3>3. \A k \in DOMAIN queue' : /\ queue'[k] <= delivered
                                   /\ queue'[k] # Junk => queue'[k] > acted
      BY <3>1, OrderTaken
    <3>4. \A k, l \in DOMAIN queue' :
            k < l /\ queue'[k] # Junk /\ queue'[l] # Junk => queue'[k] < queue'[l]
      BY <3>1, OrderTaken
    <3>. QED BY <3>1, <3>2, <3>3, <3>4 DEF InOrder, HandInOrder, QueueAhead, QueueRises
  <2>6. CASE HandleRobot
    <3>1. i \in Nat /\ i' = i + 1 /\ i' # 0 /\ (acted' = acted \/ acted' = packet.number)
      BY <2>6 DEF HandleRobot, PID, TypeOK
    <3>2. packet.number \in Nat /\ acted \in Nat
      BY DEF TypeOK
    <3>. QED BY <2>6, <3>1, <3>2 DEF HandleRobot, InOrder, HandInOrder, QueueAhead, QueueRises
  <2>7. CASE EndFrame
    BY <2>7 DEF EndFrame, InOrder, HandInOrder, QueueAhead, QueueRises
  <2>8. CASE UNCHANGED vars
    BY <2>8 DEF vars, InOrder, HandInOrder, QueueAhead, QueueRises
  <2>. QED BY <2>1, <2>2, <2>3, <2>4, <2>5, <2>6, <2>7, <2>8 DEF Next, Network, Client
<1>. QED BY <1>1, <1>2, TypeCorrect, PTL DEF Spec

(* On a network that keeps the order the loop never answers an older frame *)
(* than one it answered before, though it never looks at a frame's step.   *)
THEOREM StepsForward ==
  ASSUME Ordered
  PROVE  Spec => AnswersNeverGoBack
<1>1. TypeOK /\ InOrder /\ [Next]_vars => [acted' # acted => acted' > acted]_vars
  <2>. SUFFICES ASSUME TypeOK, InOrder, Next PROVE acted' # acted => acted' > acted
    OBVIOUS
  <2>1. CASE SendMessage \/ Network
    BY <2>1 DEF SendMessage, Network, Deliver, DeliverJunk, clientVars
  <2>2. CASE \E n \in DOMAIN emitted : ReceiveMessage(n)
    BY <2>2 DEF ReceiveMessage
  <2>3. CASE HandleRobot
    BY <2>3 DEF HandleRobot, PID, InOrder, HandInOrder, QueueAhead, QueueRises, TypeOK
  <2>4. CASE ReceiveJunk \/ EndFrame
    BY <2>4 DEF ReceiveJunk, EndFrame
  <2>. QED BY <2>1, <2>2, <2>3, <2>4 DEF Next, Client
<1>. QED BY <1>1, TypeCorrect, OrderKept, PTL DEF Spec, AnswersNeverGoBack

-----------------------------------------------------------------------------
(* What a command is an answer to. *)

(* The follower's steering law is the loop's.                              *)
LEMMA SameLaw ==
  ASSUME NEW o, NEW h, NEW b, NEW l
  PROVE  /\ Follower!to180range(o) = to180range(o)
         /\ Follower!HeadingError(h, b) = HeadingError(h, b)
         /\ Follower!PIDCommand(h, b, l) = PIDCommand(h, b, l)
<1>1. \A a : Follower!to180range(a) = to180range(a)
  BY DEF Follower!to180range, Follower!Fold, Follower!Fmod, Follower!Turn,
         to180range, Fold, Fmod, Turn
<1>2. \A s, t : Follower!smallestAngleDiff(s, t) = smallestAngleDiff(s, t)
  BY DEF Follower!smallestAngleDiff, Follower!Fold, Follower!Fmod, Follower!Turn,
         smallestAngleDiff, Fold, Fmod, Turn
<1>3. Follower!Reversed(h, b) = Reversed(h, b)
  BY <1>2 DEF Follower!Reversed, Follower!Magnitude, Reversed, Magnitude
<1>4. Follower!HeadingError(h, b) = HeadingError(h, b)
  BY <1>1, <1>2, <1>3
  DEF Follower!HeadingError, Follower!LeadingHeading, HeadingError, LeadingHeading
<1>5. \A e : Follower!motorSpeed(e, l) = motorSpeed(e, l)
  BY DEF Follower!motorSpeed, Follower!Saturate, Follower!Kp, Follower!Kd,
         motorSpeed, Saturate, Kp, Kd
<1>6. \A v, r : Follower!Wheels(v, r) = Wheels(v, r)
  BY DEF Follower!Wheels, Wheels
<1>7. Follower!PIDCommand(h, b, l) = PIDCommand(h, b, l)
  BY <1>3, <1>4, <1>5, <1>6 DEF Follower!PIDCommand, PIDCommand
<1>. QED BY <1>1, <1>4, <1>7

(* A round of the loop over the robots that steers answers the frame in    *)
(* hand as the abstract follower does.                                     *)
LEMMA AnswerStep ==
  ASSUME TypeOK, DetectionIsWhatWasSent, Ordered => InOrder, HandleRobot, i = 0
  PROVE  packet.number \in DOMAIN emitted /\ Follower!Respond(packet.number)
<1>. DEFINE n == packet.number
            robot == detection[1]
            h == to180range(robot.orientation)
<1>1. n \in DOMAIN emitted /\ emitted[n] = detection /\ emitted' = emitted
  BY DEF HandleRobot, DetectionIsWhatWasSent
<1>2. detection \in Frames /\ detection # <<>>
  <2>1. Len(detection) > 0
    BY DEF HandleRobot
  <2>. QED BY <2>1 DEF TypeOK
<1>3. Follower!HasRobot(n)
  BY <1>1, <1>2, ControlLoopAssumption DEF Follower!HasRobot
<1>4. PID(robot, 0)
  BY DEF HandleRobot
<1>5. /\ acted' = n
      /\ lastError' = HeadingError(h, robot.bearing)
      /\ command' = [id |-> 0, yellowteam |-> FALSE,
                     wheels |-> PIDCommand(h, robot.bearing, lastError)]
  BY <1>4 DEF PID
<1>6. Ordered => n > acted
  BY <1>1 DEF InOrder, HandInOrder, HandleRobot, TypeOK
<1>7. emitted[n][1] = robot
  BY <1>1
<1>. HIDE DEF n, robot
<1>8. Follower!Respond(n)
  BY <1>1, <1>3, <1>5, <1>6, <1>7, SameLaw DEF Follower!Respond, h
<1>. QED BY <1>1, <1>8 DEF n

(* The loop implements the abstract follower: buffering, loss, junk and    *)
(* messages without a frame never change what a command is computed from.  *)
THEOREM Implements == Spec => ImplementsFollower
<1>1. Init => Follower!Init
  BY DEF Init, Follower!Init, NoCommand, Follower!NoCommand
<1>2. TypeOK /\ DetectionIsWhatWasSent /\ (Ordered => InOrder) /\ [Next]_vars
        => [Follower!Next]_Follower!vars
  <2>. SUFFICES ASSUME TypeOK, DetectionIsWhatWasSent, Ordered => InOrder, [Next]_vars
                PROVE  [Follower!Next]_Follower!vars
    OBVIOUS
  <2>1. CASE SendMessage
    BY <2>1 DEF SendMessage, clientVars, Follower!Next, Follower!Emit
  <2>2. CASE Network
    BY <2>2 DEF Network, Deliver, DeliverJunk, clientVars, Follower!vars
  <2>3. CASE ReceiveJunk \/ EndFrame \/ \E n \in DOMAIN emitted : ReceiveMessage(n)
    BY <2>3 DEF ReceiveJunk, EndFrame, ReceiveMessage, Follower!vars
  <2>4. CASE HandleRobot /\ i = 0
    BY <2>4, AnswerStep DEF Follower!Next
  <2>5. CASE HandleRobot /\ i # 0
    BY <2>5 DEF HandleRobot, Follower!vars
  <2>6. CASE UNCHANGED vars
    BY <2>6 DEF vars, Follower!vars
  <2>. QED BY <2>1, <2>2, <2>3, <2>4, <2>5, <2>6 DEF Next, Client
<1>3. Spec => [](Ordered => InOrder)
  <2>1. CASE Ordered
    <3>1. Spec => []InOrder
      BY <2>1, OrderKept
    <3>2. InOrder => (Ordered => InOrder)
      OBVIOUS
    <3>. QED BY <3>1, <3>2, PTL
  <2>2. CASE ~Ordered
    <3>1. Ordered => InOrder
      BY <2>2
    <3>. QED BY <3>1, PTL
  <2>. QED BY <2>1, <2>2
<1>. QED BY <1>1, <1>2, <1>3, TypeCorrect, DetectionSent, PTL
     DEF Spec, ImplementsFollower, Follower!Spec

-----------------------------------------------------------------------------
(* The robot that is answered. *)

(* What PID remembers is the error of a leading front, of whichever robot. *)
TurnsInv ==
  /\ 20 * Magnitude(lastError) <= 11 * H
  /\ TurnsTheRobotItAnswers

(* A round of the loop that steers. *)
LEMMA AnswerTurns ==
  ASSUME TypeOK, DetectionIsWhatWasSent, TurnsInv, HandleRobot, i = 0
  PROVE  TurnsInv'
<1>. DEFINE robot == detection[1]
            h == to180range(robot.orientation)
            w == PIDCommand(h, robot.bearing, lastError)
<1>1. emitted' = emitted /\ emitted[packet.number] = detection
  BY DEF HandleRobot, DetectionIsWhatWasSent
<1>2. detection \in Frames /\ Len(detection) > 0
  <2>1. Len(detection) > 0
    BY DEF HandleRobot
  <2>. QED BY <2>1 DEF TypeOK
<1>3. robot \in Robots
  BY <1>2, ControlLoopAssumption
<1>4. robot.orientation \in Int /\ robot.bearing \in Angles /\ lastError \in Int
  BY <1>3 DEF Robots, TypeOK, Angles
<1>5. acted' = packet.number /\ lastError' = HeadingError(h, robot.bearing)
      /\ command'.wheels = w
  BY DEF HandleRobot, PID
<1>6. TurnsTowards(w, robot.orientation, robot.bearing)
  BY <1>4, LawTurns DEF TurnsInv
<1>7. 20 * Magnitude(HeadingError(h, robot.bearing)) <= 11 * H
  BY <1>4, LawTypes
<1>. HIDE DEF w
<1>. QED BY <1>1, <1>5, <1>6, <1>7 DEF TurnsInv, TurnsTheRobotItAnswers

(* Nothing else in the loop changes the command, what it answers, or what  *)
(* PID remembers.                                                          *)
LEMMA AnswerStays ==
  ASSUME TypeOK, [Next]_vars, ~(HandleRobot /\ i = 0)
  PROVE  UNCHANGED <<lastError, command, acted>> /\ (SendMessage \/ emitted' = emitted)
<1>1. CASE SendMessage \/ Network
  BY <1>1 DEF SendMessage, Network, Deliver, DeliverJunk, clientVars
<1>2. CASE \E n \in DOMAIN emitted : ReceiveMessage(n)
  BY <1>2 DEF ReceiveMessage
<1>3. CASE ReceiveJunk \/ EndFrame
  BY <1>3 DEF ReceiveJunk, EndFrame
<1>4. CASE HandleRobot
  BY <1>4 DEF HandleRobot
<1>5. CASE UNCHANGED vars
  BY <1>5 DEF vars
<1>. QED BY <1>1, <1>2, <1>3, <1>4, <1>5 DEF Next, Client

(* Whichever robots are listed first from frame to frame, and whatever the *)
(* static error was left by, the command in force turns the first robot of *)
(* the frame it answers towards its objective unless it is within 11       *)
(* degrees of it: for any frames, any queue and any resolution.            *)
THEOREM TurnsFirstRobot == Spec => []TurnsTheRobotItAnswers
<1>1. Init => TurnsInv
  BY MotorAssumption DEF Init, TurnsInv, TurnsTheRobotItAnswers, Magnitude
<1>2. TypeOK /\ DetectionIsWhatWasSent /\ TurnsInv /\ [Next]_vars => TurnsInv'
  <2>. SUFFICES ASSUME TypeOK, DetectionIsWhatWasSent, TurnsInv, [Next]_vars
                PROVE  TurnsInv'
    OBVIOUS
  <2>1. CASE HandleRobot /\ i = 0
    BY <2>1, AnswerTurns
  <2>2. CASE ~(HandleRobot /\ i = 0)
    <3>1. UNCHANGED <<lastError, command, acted>> /\ (SendMessage \/ emitted' = emitted)
      BY <2>2, AnswerStays
    <3>2. acted # 0 => emitted'[acted] = emitted[acted]
      <4>1. acted # 0 => acted \in DOMAIN emitted
        BY DEF TypeOK
      <4>. QED BY <3>1, <4>1, EmittedStays
    <3>. QED BY <3>1, <3>2 DEF TurnsInv, TurnsTheRobotItAnswers
  <2>. QED BY <2>1, <2>2
<1>3. TurnsInv => TurnsTheRobotItAnswers
  BY DEF TurnsInv
<1>. QED BY <1>1, <1>2, <1>3, TypeCorrect, DetectionSent, PTL DEF Spec
=============================================================================
