----------------------------- MODULE AngleUtil ------------------------------
(***************************************************************************)
(* The angle helpers of util/util.h, on integers in units of pi/H.         *)
(***************************************************************************)
EXTENDS CMath, HelperCalls

CONSTANT H  \* half a turn (M_PI)

ASSUME AngleAssumption == H \in Nat \ {0}

Turn == 2 * H  \* M_2PI

(* Mutated: rounded towards minus infinity instead of to the nearest. *)
angle_modFloor(angle) == angle - Turn * (angle \div Turn)

angle_mod(angle) == angle - Turn * Rint(angle, Turn)

angle_diff(a, b) == angle_mod(a - b)

angle_dist(a, b) == Magnitude(angle_mod(a - b))

angle_long(angle) == IF angle < 0 THEN Turn + angle ELSE -Turn + angle

angle_pos(angle) == Fmod(angle + Turn, Turn)

(* For angles whose sum is even: a unit is small enough to be halved. *)
avg_angle(left, right) ==
  LET l == IF left < right THEN left + Turn ELSE left
      result == (l + right) \div 2
  IN  IF result > H THEN result - Turn ELSE result

abs_bound(x, range) ==
  IF x < -range THEN -range ELSE IF x > range THEN range ELSE x

abs_bound_angle(bound_angle, tolerance, a) ==
  angle_mod(abs_bound(angle_mod(a - bound_angle), tolerance) + bound_angle)

-----------------------------------------------------------------------------
(* Properties, of every call. *)

SameDirection(p, q) == (p - q) % Turn = 0
Normal(p) == p \in -H .. H

(* The shortest way round from one angle to the other.                     *)
Nearest(p, q) == CHOOSE d \in 0 .. H : SameDirection(p - q, d) \/ SameDirection(q - p, d)

(* angle_mod and angle_diff return the same direction within [-PI,PI], and *)
(* angle_dist the shortest way round, whatever turns the arguments carry;  *)
(* angle_pos is within [0,2*PI] as its comment says, from minus one turn   *)
(* on (it adds no second turn).                                            *)
ShortestDifference ==
  /\ Normal(angle_mod(x1)) /\ SameDirection(angle_mod(x1), x1)
  /\ Normal(angle_diff(x1, x2)) /\ SameDirection(x2 + angle_diff(x1, x2), x1)
  /\ angle_dist(x1, x2) = Nearest(x1, x2)
  /\ SameDirection(angle_pos(x1), x1)
  /\ x1 >= -Turn => angle_pos(x1) \in 0 .. Turn

(* The secondary angle of a normalised one goes the other way round.       *)
LongWayRound ==
  Normal(x1) => LET long == angle_long(x1) IN
    /\ SameDirection(long, x1)
    /\ H <= Magnitude(long) /\ Magnitude(long) <= Turn
    /\ x1 # 0 => (long < 0) = (x1 > 0)

(* avg_angle returns the normalised angle in the middle of the arc that    *)
(* goes from right to left, also when that arc crosses the wrap.           *)
HalfwayBetween ==
  x1 \in -H + 1 .. H /\ x2 \in -H + 1 .. H /\ (x1 + x2) % 2 = 0 =>
    LET m == avg_angle(x1, x2) IN
      /\ m \in -H + 1 .. H
      /\ 2 * ((m - x2) % Turn) = (x1 - x2) % Turn

(* abs_bound_angle returns an angle within a tolerance below PI, the       *)
(* argument itself if it is within, and else the nearer end.               *)
WithinTolerance ==
  x3 \in 0 .. H - 1 =>
    LET r == abs_bound_angle(x2, x3, x1) IN
      /\ Normal(r)
      /\ Nearest(r, x2) <= x3
      /\ Nearest(x1, x2) <= x3 => SameDirection(r, x1)
      /\ Nearest(x1, x2) > x3 => Nearest(x1, r) = Nearest(x1, x2) - x3

(* The angle helpers of util.h are right for every angle, on both sides of *)
(* the wrap and at it.                                                     *)
AngleHelpers == ShortestDifference /\ LongWayRound /\ HalfwayBetween /\ WithinTolerance
=============================================================================
