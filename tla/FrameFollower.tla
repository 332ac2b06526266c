--------------------------- MODULE FrameFollower ----------------------------
(***************************************************************************)
(* What the client promises whoever sends to the group, without queue,     *)
(* packet buffer or loop: each command is the answer of PID to one frame   *)
(* that was sent, to the first blue robot in it, with the error of the     *)
(* previous answer as the only memory.  Frames may be skipped.             *)
(***************************************************************************)
EXTENDS MotorLaw, Sequences

CONSTANTS
  Frames,   \* blue robots of a frame, in the order of robots_blue
  NoFrame,  \* an Environment message whose frame is not set
  Ordered   \* does the network keep the order of sending

VARIABLES
  emitted,    \* the messages sent to the group, in the order of sending
  acted,      \* the message whose frame was last answered, 0 before the first
  lastError,  \* the error remembered from it
  command     \* the command it was answered with

vars == <<emitted, acted, lastError, command>>

NoCommand == [id |-> 0, yellowteam |-> FALSE, wheels |-> [left |-> 0, right |-> 0]]

Init == emitted = <<>> /\ acted = 0 /\ lastError = 0 /\ command = NoCommand

Emit == \E f \in Frames \cup {NoFrame} :
          emitted' = Append(emitted, f) /\ UNCHANGED <<acted, lastError, command>>

HasRobot(n) == emitted[n] # NoFrame /\ emitted[n] # <<>>

Respond(n) ==
  LET robot == emitted[n][1]
      heading == to180range(robot.orientation)
  IN  /\ HasRobot(n)
      /\ Ordered => n > acted
      /\ acted' = n
      /\ lastError' = HeadingError(heading, robot.bearing)
      /\ command' = [id |-> 0, yellowteam |-> FALSE,
                     wheels |-> PIDCommand(heading, robot.bearing, lastError)]
      /\ UNCHANGED emitted

Next == Emit \/ \E n \in DOMAIN emitted : Respond(n)

Spec == Init /\ [][Next]_vars
=============================================================================
