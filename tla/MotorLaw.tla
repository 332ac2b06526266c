------------------------------ MODULE MotorLaw ------------------------------
(***************************************************************************)
(* The steering law of main.cpp as pure operators: angle normalisation     *)
(* (to180range, smallestAngleDiff), the choice of the robot's front, and   *)
(* the PD output and wheel mix of PID().                                   *)
(*                                                                         *)
(* Angles are integers in units of pi/H, so H is half a turn.  Wheel       *)
(* speeds are in units of Kd*pi/H = 2.5*pi/H, which makes the code's       *)
(* Kp = 20, Kd = 2.5 the integers 8 and 1; its base speed 30 is then       *)
(* 12*H/pi, rounded in the configurations.  No property depends on that    *)
(* ratio: BaseSpeed stays a parameter.                                     *)
(***************************************************************************)
EXTENDS CMath

CONSTANTS
  H,          \* half a turn (M_PI)
  BaseSpeed   \* baseSpeed, also the saturation bound of motorSpeed

ASSUME MotorAssumption == H \in Nat \ {0} /\ BaseSpeed \in Nat \ {0}

Turn == 2 * H
Angles == -H .. H  \* normalised angles; what atan2 returns
Speeds == -BaseSpeed .. BaseSpeed
Kp == 8
Kd == 1

-----------------------------------------------------------------------------
(* Angles.  The two operations bring a remainder or a difference of two    *)
(* remainders back to half a turn either side; Fold is that last step.     *)

(* Mutated: only the overshoot above half a turn is folded back. *)
FoldAboveOnly(a) == IF a > H THEN a - Turn ELSE a

Fold(a) ==
  IF a > H THEN a - Turn ELSE IF a < -H THEN a + Turn ELSE a

(* Mutated: the angle is used as it comes, without normalisation. *)
KeepAngle(angle) == angle

to180range(angle) == Fold(Fmod(angle, Turn))

smallestAngleDiff(target, source) ==
  Fold(Fmod(target + Turn, Turn) - Fmod(source + Turn, Turn))

(***************************************************************************)
(* The error as seen from the front that will lead.  When the objective    *)
(* is more than pi/2 + pi/20 off the front, the back leads: 20/11 turns    *)
(* the real bound 11*H/20 into an integer comparison.                      *)
(***************************************************************************)
(* Mutated: the front is chosen from the plain difference of the angles. *)
ReversedUnwrapped(heading, bearing) ==
  20 * Magnitude(heading - bearing) > 11 * H

Reversed(heading, bearing) ==
  20 * Magnitude(smallestAngleDiff(heading, bearing)) > 11 * H

(* Mutated: the error is not recomputed after the front was reversed. *)
LeadingHeadingUnflipped(heading, bearing) == heading

LeadingHeading(heading, bearing) ==
  IF Reversed(heading, bearing) THEN to180range(heading + H) ELSE heading

HeadingError(heading, bearing) ==
  smallestAngleDiff(LeadingHeading(heading, bearing), bearing)

-----------------------------------------------------------------------------
(* PD output, saturation and wheel mix. *)

(* Mutated: the lower bound is missing. *)
SaturateAbove(speed) == IF speed > BaseSpeed THEN BaseSpeed ELSE speed

Saturate(speed) ==
  IF speed > BaseSpeed THEN BaseSpeed
  ELSE IF speed < -BaseSpeed THEN -BaseSpeed ELSE speed

(* Mutated: the derivative is added with the wrong sign and the wrong gain. *)
motorSpeedSwapped(error, lastError) ==
  Saturate(Kd * error + Kp * (lastError - error))

(* Mutated: the gains are swapped, so the derivative outweighs the error. *)
motorSpeedDerivative(error, lastError) ==
  Saturate(Kd * error + Kp * (error - lastError))

motorSpeed(error, lastError) ==
  Saturate(Kp * error + Kd * (error - lastError))

(* Mutated: backwards, the forward mix is only negated, not mirrored. *)
WheelsUnmirrored(speed, reversed) ==
  LET s == IF reversed THEN -1 ELSE 1
  IN  IF speed > 0 THEN [left |-> s * BaseSpeed, right |-> s * (BaseSpeed - speed)]
                   ELSE [left |-> s * (BaseSpeed + speed), right |-> s * BaseSpeed]

Wheels(speed, reversed) ==
  CASE speed > 0 /\ ~reversed  -> [left |-> BaseSpeed,          right |-> BaseSpeed - speed]
    [] speed > 0 /\ reversed   -> [left |-> -BaseSpeed + speed, right |-> -BaseSpeed]
    [] speed <= 0 /\ ~reversed -> [left |-> BaseSpeed + speed,  right |-> BaseSpeed]
    [] speed <= 0 /\ reversed  -> [left |-> -BaseSpeed,         right |-> -BaseSpeed - speed]

(* Positive: the robot turns counterclockwise, its orientation grows. *)
Steering(wheels) == wheels.right - wheels.left

(* One call of PID: the wheel command for a normalised heading and the     *)
(* bearing of the objective, given the error the previous call left.       *)
PIDCommand(heading, bearing, lastError) ==
  Wheels(motorSpeed(HeadingError(heading, bearing), lastError),
         Reversed(heading, bearing))

-----------------------------------------------------------------------------
(* What the properties of the law speak of. *)

(* a and b are the same direction. *)
SameDirection(a, b) == (a - b) % Turn = 0

(* The wheels turn a robot towards its bearing, seen from the front they   *)
(* drive it with, whenever that front is more than 11 degrees off it.      *)
TurnsTowards(wheels, orientation, bearing) ==
  LET front == IF wheels.left + wheels.right < 0 THEN orientation + H ELSE orientation
  IN  \A d \in Angles :
        SameDirection(front - bearing, d) /\ 180 * Magnitude(d) > 11 * H
          => d * Steering(wheels) < 0

=============================================================================
