---------------------------- MODULE MotorControl ----------------------------
(***************************************************************************)
(* PID() of main.cpp as a state machine: its static lastError survives     *)
(* from call to call while the robot and the objective it is called with   *)
(* are arbitrary, as they are when frames are lost, the robot is moved by  *)
(* the referee, or defineObjective returns another point.                  *)
(***************************************************************************)
EXTENDS MotorLaw

CONSTANT Orientations  \* the orientations a vision frame may carry

ASSUME OrientationsAssumption == Orientations \subseteq Int

VARIABLES
  lastError,  \* static double lastError
  command,    \* the wheel speeds handed to sendCommand
  pose        \* heading and bearing of the last call (history)

vars == <<lastError, command, pose>>

Stopped == [left |-> 0, right |-> 0]

Init ==
  /\ lastError = 0
  /\ command = Stopped
  /\ pose = [heading |-> 0, bearing |-> 0]

(* One blue robot of a frame: main normalises the orientation, PID chooses *)
(* the front, keeps its error for the next call and mixes the wheels.      *)
Control(orientation, bearing) ==
  /\ pose' = [heading |-> to180range(orientation), bearing |-> bearing]
  /\ lastError' = HeadingError(pose'.heading, bearing)
  /\ command' = Wheels(motorSpeed(lastError', lastError), Reversed(pose'.heading, bearing))

Next == \E o \in Orientations, b \in Angles : Control(o, b)

Spec == Init /\ [][Next]_vars

-----------------------------------------------------------------------------
(* Properties. *)

(* Type invariant: angles are within half a turn of zero, and no wheel is  *)
(* ever asked for more than the base speed.                                *)
TypeOK ==
  /\ lastError \in Angles
  /\ command \in [left : Speeds, right : Speeds]
  /\ pose \in [heading : Angles, bearing : Angles]

(* The remembered error always belongs to the front the robot leads with,  *)
(* so it is within pi/2 + pi/20 of it: the derivative term of the next     *)
(* call is bounded whatever the next frame shows.                          *)
LastErrorFacesObjective == 20 * Magnitude(lastError) <= 11 * H

(* The remembered error is a true angle: adding the bearing gives back the *)
(* direction the robot is led by, its heading or the opposite one, and it  *)
(* is led backwards exactly when the heading is further off than 99        *)
(* degrees, measured the short way round.                                  *)
LedByTheNearerFront ==
  LET off == {d \in Angles : SameDirection(pose.heading - pose.bearing, d)}
      behind == \A d \in off : 20 * Magnitude(d) > 11 * H
  IN  SameDirection(lastError + pose.bearing,
                    IF behind THEN pose.heading + H ELSE pose.heading)

(* Whichever front leads, a call whose error is over a ninth of the        *)
(* remembered one turns the robot towards the objective: the derivative    *)
(* can hold the turn back but cannot reverse it.                           *)
SteersTowardObjective ==
  [][9 * Magnitude(lastError') > Magnitude(lastError) =>
       /\ lastError' > 0 => Steering(command') < 0
       /\ lastError' < 0 => Steering(command') > 0]_vars

(* A call commands one wheel at full base speed and never pivots the robot *)
(* on the spot: the wheels push forwards when the front leads and          *)
(* backwards when the back does.                                           *)
DrivesWithLeadingFront ==
  [][/\ BaseSpeed \in {Magnitude(command'.left), Magnitude(command'.right)}
     /\ IF SameDirection(lastError' + pose'.bearing, pose'.heading)
          THEN command'.left >= 0 /\ command'.right >= 0
          ELSE command'.left <= 0 /\ command'.right <= 0]_vars
=============================================================================
