--------------------------- MODULE SteeringProofs ---------------------------
(***************************************************************************)
(* Theorems about the steering of main.cpp, for every angular resolution   *)
(* H, every base speed and every set of orientations: lemmas about the     *)
(* operators of the law, PID() called with arbitrary poses, and the closed *)
(* loop of PID() and a robot.                                              *)
(***************************************************************************)
EXTENDS HeadingLoop, TLAPS

-----------------------------------------------------------------------------
(* Remainders: the facts about % that the angle arithmetic needs.          *)

(* C's fmod returns less than one divisor either side of zero. *)
LEMMA RemainderBounds ==
  ASSUME NEW v \in Int, NEW m \in Nat \ {0}
  PROVE  Fmod(v, m) \in Int /\ -m < Fmod(v, m) /\ Fmod(v, m) < m
BY DEF Fmod

(* Below two divisors, the remainder takes away at most one. *)
LEMMA RemainderOfOneTurn ==
  ASSUME NEW v \in Int, NEW m \in Nat \ {0}, 0 <= v, v < 2 * m
  PROVE  v % m = IF v < m THEN v ELSE v - m
<1>1. CASE v < m
  BY <1>1
<1>2. CASE ~(v < m)
  BY <1>2
<1>. QED BY <1>1, <1>2

(* A multiple of the divisor leaves no remainder. *)
LEMMA MultipleHasNoRemainder ==
  ASSUME NEW k \in Int, NEW m \in Nat \ {0}
  PROVE  (k * m) % m = 0
<1>1. PICK q \in Int : k * m = (q * m) + ((k * m) % m)
  OBVIOUS
<1>2. 0 <= (k * m) % m /\ (k * m) % m < m
  OBVIOUS
<1>3. DEFINE d == k - q
<1>4. d * m = (k * m) % m
  BY <1>1
<1>5. d = 0
  <2>1. CASE d >= 1
    BY <1>2, <1>4, <2>1
  <2>2. CASE d <= -1
    BY <1>2, <1>4, <2>2
  <2>. QED BY <2>1, <2>2
<1>. QED BY <1>4, <1>5

(* Within two divisors of zero, only five numbers leave no remainder. *)
LEMMA MultiplesNearZero ==
  ASSUME NEW v \in Int, NEW m \in Nat \ {0}, -2 * m <= v, v <= 2 * m
  PROVE  v % m = 0 <=> v \in {-2 * m, -m, 0, m, 2 * m}
<1>1. PICK q \in Int : v = (q * m) + (v % m)
  <2>1. v = ((v \div m) * m) + (v % m) /\ v \div m \in Int
    OBVIOUS
  <2>. QED BY <2>1
<1>2. 0 <= v % m /\ v % m < m
  OBVIOUS
<1>3. ASSUME v % m = 0
      PROVE  v \in {-2 * m, -m, 0, m, 2 * m}
  <2>1. v = q * m
    BY <1>1, <1>3
  <2>2. -2 <= q /\ q <= 2
    BY <2>1
  <2>. QED BY <2>1, <2>2
<1>4. ASSUME v \in {-2 * m, -m, 0, m, 2 * m}
      PROVE  v % m = 0
  <2>1. \A k \in Int : (k * m) % m = 0
    BY MultipleHasNoRemainder
  <2>2. \E k \in -2 .. 2 : v = k * m
    BY <1>4
  <2>. QED BY <2>1, <2>2
<1>. QED BY <1>3, <1>4

-----------------------------------------------------------------------------
(* Angles. *)

(* Whatever orientation a frame carries, to180range brings it within half  *)
(* a turn of zero.                                                         *)
LEMMA NormalisedRange ==
  ASSUME NEW a \in Int
  PROVE  to180range(a) \in Angles
<1>1. Turn \in Nat \ {0}
  BY MotorAssumption DEF Turn
<1>2. Fmod(a, Turn) \in Int /\ -Turn < Fmod(a, Turn) /\ Fmod(a, Turn) < Turn
  BY <1>1, RemainderBounds
<1>. QED BY <1>2, MotorAssumption DEF to180range, Fold, Turn, Angles

(* The first step of smallestAngleDiff makes a normalised angle positive.  *)
LEMMA ShiftedAngle ==
  ASSUME NEW a \in Angles
  PROVE  Fmod(a + Turn, Turn) = IF a < 0 THEN a + Turn ELSE a
<1>1. Turn \in Nat \ {0} /\ a + Turn \in Int /\ 0 <= a + Turn /\ a + Turn < 2 * Turn
  BY MotorAssumption DEF Turn, Angles
<1>2. (a + Turn) % Turn = IF a + Turn < Turn THEN a + Turn ELSE (a + Turn) - Turn
  BY <1>1, RemainderOfOneTurn
<1>. QED BY <1>1, <1>2 DEF Fmod, Angles

(* The difference of two normalised angles is the plain one, give or take  *)
(* a turn, and within half a turn of zero.                                 *)
LEMMA AngleDifference ==
  ASSUME NEW a \in Angles, NEW b \in Angles
  PROVE  /\ smallestAngleDiff(a, b) \in Angles
         /\ smallestAngleDiff(a, b) \in {a - b, a - b - Turn, a - b + Turn}
BY ShiftedAngle, MotorAssumption DEF smallestAngleDiff, Fold, Turn, Angles

(* Half a turn added to a normalised angle gives the opposite direction.   *)
LEMMA OppositeDirection ==
  ASSUME NEW a \in Angles
  PROVE  to180range(a + H) = IF a > 0 THEN a - H ELSE a + H
<1>1. Turn \in Nat \ {0} /\ a + H \in Int /\ 0 <= a + H /\ a + H < 2 * Turn
  BY MotorAssumption DEF Turn, Angles
<1>2. (a + H) % Turn = IF a + H < Turn THEN a + H ELSE (a + H) - Turn
  BY <1>1, RemainderOfOneTurn
<1>. QED BY <1>1, <1>2, MotorAssumption DEF Fmod, Fold, to180range, Turn, Angles

(* The leading front is a normalised direction: the heading or, when PID   *)
(* reverses, the opposite one.                                             *)
LEMMA LeadingFront ==
  ASSUME NEW h \in Angles, NEW b \in Angles
  PROVE  /\ LeadingHeading(h, b) \in Angles
         /\ LeadingHeading(h, b) \in
              IF Reversed(h, b) THEN {h - H, h + H} ELSE {h}
BY OppositeDirection, MotorAssumption DEF LeadingHeading, Angles

(* The error PID acts on is a normalised angle, and at most 11/20 of half  *)
(* a turn: choosing the other front really brings the objective nearer.    *)
LEMMA ErrorBound ==
  ASSUME NEW h \in Angles, NEW b \in Angles
  PROVE  HeadingError(h, b) \in Angles /\ 20 * Magnitude(HeadingError(h, b)) <= 11 * H
<1>1. HeadingError(h, b) \in Angles
  BY LeadingFront, AngleDifference DEF HeadingError
<1>2. CASE ~Reversed(h, b)
  BY <1>1, <1>2, AngleDifference, MotorAssumption
  DEF HeadingError, LeadingHeading, Reversed, Magnitude, Angles
<1>3. CASE Reversed(h, b)
  <2>1. smallestAngleDiff(h, b) \in {h - b, h - b - Turn, h - b + Turn}
        /\ smallestAngleDiff(h, b) \in Angles
    BY AngleDifference
  <2>2. HeadingError(h, b) \in {l - b : l \in {h - H, h + H}}
          \cup {l - b - Turn : l \in {h - H, h + H}}
          \cup {l - b + Turn : l \in {h - H, h + H}}
    BY <1>3, LeadingFront, AngleDifference DEF HeadingError
  <2>3. CASE smallestAngleDiff(h, b) > 0
    BY <1>1, <1>3, <2>1, <2>2, <2>3, MotorAssumption
    DEF Reversed, Magnitude, Turn, Angles
  <2>4. CASE smallestAngleDiff(h, b) <= 0
    BY <1>1, <1>3, <2>1, <2>2, <2>4, MotorAssumption
    DEF Reversed, Magnitude, Turn, Angles
  <2>. QED BY <2>1, <2>3, <2>4, MotorAssumption DEF Angles
<1>. QED BY <1>1, <1>2, <1>3

-----------------------------------------------------------------------------
(* Speeds. *)

(* A saturated speed keeps its sign and stays within the base speed. *)
LEMMA SaturatedSpeed ==
  ASSUME NEW v \in Int
  PROVE  /\ Saturate(v) \in Speeds
         /\ (Saturate(v) > 0 <=> v > 0) /\ (Saturate(v) < 0 <=> v < 0)
BY MotorAssumption DEF Saturate, Speeds

(* PID's motor speed is 9 times the error less the remembered one, before  *)
(* it is saturated.                                                        *)
LEMMA MotorSpeedSign ==
  ASSUME NEW e \in Int, NEW l \in Int
  PROVE  /\ motorSpeed(e, l) \in Speeds
         /\ (motorSpeed(e, l) > 0 <=> 9 * e > l)
         /\ (motorSpeed(e, l) < 0 <=> 9 * e < l)
<1>1. Kp * e + Kd * (e - l) = 9 * e - l
  BY DEF Kp, Kd
<1>2. 9 * e - l \in Int /\ (9 * e - l > 0 <=> 9 * e > l) /\ (9 * e - l < 0 <=> 9 * e < l)
  OBVIOUS
<1>3. motorSpeed(e, l) = Saturate(9 * e - l)
  BY <1>1 DEF motorSpeed
<1>. QED BY <1>2, <1>3, SaturatedSpeed

(* The wheel mix: both wheels within the base speed, one of them at it,    *)
(* both pushing the way the leading front faces, and the wheels' sum of    *)
(* turn the exact opposite of the motor speed, whichever front leads.      *)
LEMMA WheelMix ==
  ASSUME NEW v \in Speeds, NEW r \in BOOLEAN
  PROVE  /\ Wheels(v, r) \in [left : Speeds, right : Speeds]
         /\ Steering(Wheels(v, r)) = -v
         /\ BaseSpeed \in {Magnitude(Wheels(v, r).left), Magnitude(Wheels(v, r).right)}
         /\ r => Wheels(v, r).left <= 0 /\ Wheels(v, r).right <= 0
         /\ ~r => Wheels(v, r).left >= 0 /\ Wheels(v, r).right >= 0
<1>1. CASE v > 0 /\ ~r
  BY <1>1, MotorAssumption DEF Wheels, Steering, Speeds, Magnitude
<1>2. CASE v > 0 /\ r
  BY <1>2, MotorAssumption DEF Wheels, Steering, Speeds, Magnitude
<1>3. CASE v <= 0 /\ ~r
  BY <1>3, MotorAssumption DEF Wheels, Steering, Speeds, Magnitude
<1>4. CASE v <= 0 /\ r
  BY <1>4, MotorAssumption DEF Wheels, Steering, Speeds, Magnitude
<1>. QED BY <1>1, <1>2, <1>3, <1>4 DEF Speeds

(* What one call of PID commands, for any heading, bearing and remembered  *)
(* error: bounded wheels that push the way the leading front faces, and    *)
(* that turn the robot the way the sign of 9 * error - lastError tells.    *)
LEMMA PIDStep ==
  ASSUME NEW h \in Angles, NEW b \in Angles, NEW l \in Int
  PROVE  /\ PIDCommand(h, b, l) \in [left : Speeds, right : Speeds]
         /\ Steering(PIDCommand(h, b, l)) < 0 <=> 9 * HeadingError(h, b) > l
         /\ Steering(PIDCommand(h, b, l)) > 0 <=> 9 * HeadingError(h, b) < l
         /\ BaseSpeed \in {Magnitude(PIDCommand(h, b, l).left),
                           Magnitude(PIDCommand(h, b, l).right)}
         /\ Reversed(h, b) => PIDCommand(h, b, l).left <= 0 /\ PIDCommand(h, b, l).right <= 0
         /\ ~Reversed(h, b) => PIDCommand(h, b, l).left >= 0 /\ PIDCommand(h, b, l).right >= 0
<1>. DEFINE v == motorSpeed(HeadingError(h, b), l)
            r == Reversed(h, b)
<1>1. HeadingError(h, b) \in Int
  BY ErrorBound DEF Angles
<1>2. v \in Speeds /\ (v > 0 <=> 9 * HeadingError(h, b) > l)
                   /\ (v < 0 <=> 9 * HeadingError(h, b) < l)
  BY <1>1, MotorSpeedSign
<1>3. r \in BOOLEAN
  BY DEF Reversed
<1>4. PIDCommand(h, b, l) = Wheels(v, r)
  BY DEF PIDCommand
<1>5. v \in Int /\ (-v < 0 <=> v > 0) /\ (-v > 0 <=> v < 0)
  BY <1>2 DEF Speeds
<1>. HIDE DEF v, r
<1>6. /\ Wheels(v, r) \in [left : Speeds, right : Speeds]
      /\ Steering(Wheels(v, r)) = -v
      /\ BaseSpeed \in {Magnitude(Wheels(v, r).left), Magnitude(Wheels(v, r).right)}
      /\ r => Wheels(v, r).left <= 0 /\ Wheels(v, r).right <= 0
      /\ ~r => Wheels(v, r).left >= 0 /\ Wheels(v, r).right >= 0
  BY <1>2, <1>3, WheelMix
<1>7. r <=> Reversed(h, b)
  BY DEF r
<1>. QED BY <1>2, <1>4, <1>5, <1>6, <1>7

-----------------------------------------------------------------------------
(* PID() called with arbitrary poses: invariants. *)

(* What a call assigns. *)
LEMMA ControlIs ==
  ASSUME NEW o, NEW b, Control(o, b)
  PROVE  /\ pose' = [heading |-> to180range(o), bearing |-> b]
         /\ lastError' = HeadingError(to180range(o), b)
         /\ command' = PIDCommand(to180range(o), b, lastError)
BY DEF Control, PIDCommand

(* A call of PID leaves normalised angles and bounded wheels behind,       *)
(* whatever orientation the frame carries: type correctness of main.cpp's  *)
(* control step, for every H, BaseSpeed and set of orientations.           *)
THEOREM TypeCorrect == Spec => []TypeOK
<1>1. Init => TypeOK
  BY MotorAssumption DEF Init, TypeOK, Stopped, Angles, Speeds
<1>2. TypeOK /\ [Next]_vars => TypeOK'
  <2>1. ASSUME TypeOK, NEW o \in Orientations, NEW b \in Angles, Control(o, b)
        PROVE  TypeOK'
    <3>1. to180range(o) \in Angles
      BY NormalisedRange, OrientationsAssumption
    <3>2. HeadingError(to180range(o), b) \in Angles
      BY <3>1, ErrorBound
    <3>3. PIDCommand(to180range(o), b, lastError) \in [left : Speeds, right : Speeds]
      BY <2>1, <3>1, PIDStep DEF TypeOK, Angles
    <3>. QED BY <2>1, <3>1, <3>2, <3>3, ControlIs DEF TypeOK
  <2>2. CASE UNCHANGED vars
    BY <2>2 DEF vars, TypeOK
  <2>. QED BY <2>1, <2>2 DEF Next
<1>. QED BY <1>1, <1>2, PTL DEF Spec

(* The error PID remembers is within pi/2 + pi/20 of the front that led,   *)
(* so the derivative term of the next call is bounded whatever its frame   *)
(* shows.                                                                  *)
THEOREM BoundedError == Spec => []LastErrorFacesObjective
<1>1. Init => LastErrorFacesObjective
  BY MotorAssumption DEF Init, LastErrorFacesObjective, Magnitude
<1>2. LastErrorFacesObjective /\ [Next]_vars => LastErrorFacesObjective'
  <2>1. ASSUME NEW o \in Orientations, NEW b \in Angles, Control(o, b)
        PROVE  LastErrorFacesObjective'
    <3>1. to180range(o) \in Angles
      BY NormalisedRange, OrientationsAssumption
    <3>. QED BY <2>1, <3>1, ErrorBound, ControlIs DEF LastErrorFacesObjective
  <2>2. CASE UNCHANGED vars /\ LastErrorFacesObjective
    BY <2>2 DEF vars, LastErrorFacesObjective
  <2>. QED BY <2>1, <2>2 DEF Next
<1>. QED BY <1>1, <1>2, PTL DEF Spec

(* PID() called with arbitrary poses: steps. *)

(* Whenever the error is over a ninth of the remembered one, the wheels    *)
(* PID commands turn the robot towards the objective.                      *)
THEOREM Steers == Spec => SteersTowardObjective
<1>. DEFINE Act == 9 * Magnitude(lastError') > Magnitude(lastError) =>
                     /\ lastError' > 0 => Steering(command') < 0
                     /\ lastError' < 0 => Steering(command') > 0
<1>1. TypeOK /\ [Next]_vars => [Act]_vars
  <2>1. ASSUME TypeOK, NEW o \in Orientations, NEW b \in Angles, Control(o, b)
        PROVE  Act
    <3>. DEFINE e == HeadingError(to180range(o), b)
                w == PIDCommand(to180range(o), b, lastError)
    <3>1. to180range(o) \in Angles
      BY NormalisedRange, OrientationsAssumption
    <3>2. e \in Int /\ lastError \in Int
      BY <2>1, <3>1, ErrorBound DEF Angles, TypeOK
    <3>3. (Steering(w) < 0 <=> 9 * e > lastError) /\ (Steering(w) > 0 <=> 9 * e < lastError)
      BY <3>1, <3>2, PIDStep
    <3>4. lastError' = e /\ command' = w
      BY <2>1, ControlIs
    <3>. HIDE DEF e, w
    <3>. QED BY <3>2, <3>3, <3>4 DEF Magnitude
  <2>. HIDE DEF Act
  <2>. QED BY <2>1 DEF Next
<1>. QED BY <1>1, TypeCorrect, PTL DEF Spec, SteersTowardObjective

-----------------------------------------------------------------------------
(* Directions: the properties that speak of angles modulo a turn.          *)

(* Two angles at most two turns apart are the same direction when they are *)
(* a whole number of turns apart.                                          *)
LEMMA DirectionsApart ==
  ASSUME NEW a \in Int, NEW b \in Int, -2 * Turn <= a - b, a - b <= 2 * Turn
  PROVE  SameDirection(a, b) <=> a - b \in {-2 * Turn, -Turn, 0, Turn, 2 * Turn}
<1>1. Turn \in Nat \ {0} /\ a - b \in Int
  BY MotorAssumption DEF Turn
<1>. QED BY <1>1, MultiplesNearZero DEF SameDirection

(* The error, added to the bearing, gives back the direction of the        *)
(* leading front, and never the opposite one.                              *)
LEMMA ErrorDirection ==
  ASSUME NEW h \in Angles, NEW b \in Angles
  PROVE  /\ SameDirection(HeadingError(h, b) + b, IF Reversed(h, b) THEN h + H ELSE h)
         /\ SameDirection(HeadingError(h, b) + b, h) <=> ~Reversed(h, b)
<1>1. HeadingError(h, b) \in Angles
  BY ErrorBound
<1>2. CASE ~Reversed(h, b)
  <2>1. HeadingError(h, b) \in {h - b, h - b - Turn, h - b + Turn}
    BY <1>2, AngleDifference DEF HeadingError, LeadingHeading
  <2>2. SameDirection(HeadingError(h, b) + b, h)
    BY <1>1, <2>1, DirectionsApart, MotorAssumption DEF Angles, Turn
  <2>. QED BY <1>2, <2>2
<1>3. CASE Reversed(h, b)
  <2>1. HeadingError(h, b) \in {l - b : l \in {h - H, h + H}}
          \cup {l - b - Turn : l \in {h - H, h + H}}
          \cup {l - b + Turn : l \in {h - H, h + H}}
    BY <1>3, LeadingFront, AngleDifference DEF HeadingError
  <2>2. SameDirection(HeadingError(h, b) + b, h + H)
    BY <1>1, <2>1, DirectionsApart, MotorAssumption DEF Angles, Turn
  <2>3. ~SameDirection(HeadingError(h, b) + b, h)
    BY <1>1, <2>1, DirectionsApart, MotorAssumption DEF Angles, Turn
  <2>. QED BY <1>3, <2>2, <2>3
<1>. QED BY <1>2, <1>3

(* Normalising an angle takes whole turns away from it. *)
LEMMA NormalisedDirection ==
  ASSUME NEW a \in Int
  PROVE  \E k \in Int : to180range(a) = a + k * Turn
<1>1. Turn \in Nat \ {0}
  BY MotorAssumption DEF Turn
<1>2. PICK q \in Int : Fmod(a, Turn) = a + q * Turn
  <2>1. CASE a < 0
    <3>1. -a = ((-a) \div Turn) * Turn + ((-a) % Turn) /\ (-a) \div Turn \in Int
      BY <1>1
    <3>2. Fmod(a, Turn) = a + ((-a) \div Turn) * Turn
      BY <2>1, <1>1, <3>1 DEF Fmod
    <3>. QED BY <3>1, <3>2
  <2>2. CASE ~(a < 0)
    <3>1. a = (a \div Turn) * Turn + (a % Turn) /\ a \div Turn \in Int
      BY <1>1
    <3>2. Fmod(a, Turn) = a + (-(a \div Turn)) * Turn
      BY <2>2, <1>1, <3>1 DEF Fmod
    <3>. QED BY <3>1, <3>2
  <2>. QED BY <2>1, <2>2
<1>3. to180range(a) \in {a + q * Turn, a + (q - 1) * Turn, a + (q + 1) * Turn}
  BY <1>1, <1>2 DEF to180range, Fold
<1>. QED BY <1>3

(* Directions are not changed by whole turns. *)
LEMMA DirectionPlusTurns ==
  ASSUME NEW a \in Int, NEW b \in Int, NEW k \in Int, SameDirection(a, b)
  PROVE  SameDirection(a + k * Turn, b)
<1>1. Turn \in Nat \ {0} /\ a - b \in Int
  BY MotorAssumption DEF Turn
<1>2. a - b = ((a - b) \div Turn) * Turn /\ (a - b) \div Turn \in Int
  BY <1>1 DEF SameDirection
<1>3. PICK q \in Int : a - b = q * Turn
  BY <1>2
<1>4. (a + k * Turn) - b = (q + k) * Turn
  BY <1>1, <1>3
<1>5. ((q + k) * Turn) % Turn = 0
  BY <1>1, MultipleHasNoRemainder
<1>. QED BY <1>4, <1>5 DEF SameDirection

(* The sign of a product. *)
LEMMA OppositeSigns ==
  ASSUME NEW a \in Int, NEW b \in Int
  PROVE  a * b < 0 <=> (a < 0 /\ b > 0) \/ (a > 0 /\ b < 0)
OBVIOUS

(* Whatever PID remembers, as long as it is the error of a leading front,  *)
(* its command turns the robot it was called for towards its objective.    *)
LEMMA CommandTurns ==
  ASSUME NEW o \in Int, NEW b \in Angles, NEW l \in Int, 20 * Magnitude(l) <= 11 * H
  PROVE  TurnsTowards(PIDCommand(to180range(o), b, l), o, b)
<1>. DEFINE h == to180range(o)
            w == PIDCommand(h, b, l)
            e == HeadingError(h, b)
            r == Reversed(h, b)
            front == IF w.left + w.right < 0 THEN o + H ELSE o
            led == IF r THEN h + H ELSE h
<1>1. h \in Angles
  BY NormalisedRange
<1>2. PICK k \in Int : h = o + k * Turn
  BY NormalisedDirection
<1>3. e \in Angles /\ 20 * Magnitude(e) <= 11 * H /\ SameDirection(e + b, led)
  BY <1>1, ErrorBound, ErrorDirection
<1>4. /\ w \in [left : Speeds, right : Speeds]
      /\ Steering(w) < 0 <=> 9 * e > l
      /\ Steering(w) > 0 <=> 9 * e < l
      /\ BaseSpeed \in {Magnitude(w.left), Magnitude(w.right)}
      /\ r => w.left <= 0 /\ w.right <= 0
      /\ ~r => w.left >= 0 /\ w.right >= 0
  BY <1>1, PIDStep
<1>5. r \in BOOLEAN
  BY DEF Reversed
<1>. HIDE DEF h, w, e, r
<1>6. w.left + w.right < 0 <=> r
  BY <1>4, <1>5, MotorAssumption DEF Speeds, Magnitude
<1>7. front \in Int /\ led \in Int /\ led = front + k * Turn /\ -H <= led /\ led <= 2 * H
  <2>. DEFINE turns == k * Turn
  <2>1. turns \in Int /\ h = o + turns /\ H \in Nat \ {0} /\ -H <= h /\ h <= H /\ h \in Int
    BY <1>1, <1>2, MotorAssumption DEF Angles, Turn
  <2>. HIDE DEF turns
  <2>2. front \in Int /\ led \in Int /\ led = front + turns /\ -H <= led /\ led <= 2 * H
    <3>1. CASE r
      <4>1. front = o + H /\ led = h + H
        BY <1>6, <3>1
      <4>. QED BY <2>1, <4>1
    <3>2. CASE ~r
      <4>1. front = o /\ led = h
        BY <1>6, <3>2
      <4>. QED BY <2>1, <4>1
    <3>. QED BY <3>1, <3>2
  <2>. QED BY <2>2 DEF turns
<1>8. Steering(w) \in Int
  BY <1>4, MotorAssumption DEF Speeds, Steering
<1>. HIDE DEF front, led
<1>9. ASSUME NEW d \in Angles, SameDirection(front - b, d), 180 * Magnitude(d) > 11 * H
      PROVE  d * Steering(w) < 0
  <2>1. front - b \in Int /\ d \in Int /\ led - b = (front - b) + k * Turn
    BY <1>7, MotorAssumption DEF Angles, Turn
  <2>2. SameDirection(led - b, d)
    BY <1>9, <2>1, DirectionPlusTurns
  <2>3. led - b - d \in {-2 * Turn, -Turn, 0, Turn, 2 * Turn}
    BY <1>7, <2>1, <2>2, DirectionsApart, MotorAssumption DEF Angles, Turn
  <2>4. e + b - led \in {-2 * Turn, -Turn, 0, Turn, 2 * Turn}
    BY <1>3, <1>7, DirectionsApart, MotorAssumption DEF Angles, Turn
  <2>5. d = e
    BY <1>3, <1>7, <2>1, <2>3, <2>4, MotorAssumption DEF Angles, Turn, Magnitude
  <2>6. CASE d > 0
    <3>1. 9 * e > l
      BY <1>3, <1>9, <2>5, <2>6, MotorAssumption DEF Angles, Magnitude
    <3>. QED BY <1>4, <1>8, <2>1, <2>6, <3>1, OppositeSigns
  <2>7. CASE d < 0
    <3>1. 9 * e < l
      BY <1>3, <1>9, <2>5, <2>7, MotorAssumption DEF Angles, Magnitude
    <3>. QED BY <1>4, <1>8, <2>1, <2>7, <3>1, OppositeSigns
  <2>8. d # 0
    BY <1>9, MotorAssumption DEF Magnitude
  <2>. QED BY <2>1, <2>6, <2>7, <2>8
<1>10. TurnsTowards(w, o, b)
  BY <1>9 DEF TurnsTowards, front
<1>. QED BY <1>10 DEF w, h

(* PID reverses exactly when every angle that takes the bearing to the     *)
(* heading is more than 11/20 of half a turn, however it is measured.      *)
LEMMA ReversedByShortestWay ==
  ASSUME NEW h \in Angles, NEW b \in Angles
  PROVE  Reversed(h, b) <=>
           \A d \in {c \in Angles : SameDirection(h - b, c)} : 20 * Magnitude(d) > 11 * H
<1>. DEFINE e == smallestAngleDiff(h, b)
<1>1. e \in Angles /\ e \in {h - b, h - b - Turn, h - b + Turn}
  BY AngleDifference
<1>. HIDE DEF e
<1>2. SameDirection(h - b, e)
  BY <1>1, DirectionsApart, MotorAssumption DEF Angles, Turn
<1>3. ASSUME NEW d \in Angles, SameDirection(h - b, d)
      PROVE  Magnitude(d) = Magnitude(e)
  <2>1. h - b - d \in {-2 * Turn, -Turn, 0, Turn, 2 * Turn}
    BY <1>3, DirectionsApart, MotorAssumption DEF Angles, Turn
  <2>. QED BY <1>1, <2>1, MotorAssumption DEF Angles, Turn, Magnitude
<1>4. Reversed(h, b) <=> 20 * Magnitude(e) > 11 * H
  BY DEF Reversed, e
<1>. QED BY <1>1, <1>2, <1>3, <1>4 DEF Angles

(* The robot is led by the front nearer to the objective, and the error    *)
(* PID remembers is the angle from that front.                             *)
THEOREM LedByNearer == Spec => []LedByTheNearerFront
<1>1. Init => LedByTheNearerFront
  <2>1. 0 \in Angles /\ ~Reversed(0, 0) /\ HeadingError(0, 0) = 0
    <3>1. 0 \in Angles
      BY MotorAssumption DEF Angles
    <3>2. smallestAngleDiff(0, 0) = 0
      BY <3>1, ShiftedAngle, MotorAssumption DEF smallestAngleDiff, Fold
    <3>3. ~Reversed(0, 0)
      BY <3>2, MotorAssumption DEF Reversed, Magnitude
    <3>. QED BY <3>1, <3>2, <3>3 DEF HeadingError, LeadingHeading
  <2>2. ~\A d \in {c \in Angles : SameDirection(0 - 0, c)} : 20 * Magnitude(d) > 11 * H
    BY <2>1, ReversedByShortestWay
  <2>3. SameDirection(0 + 0, 0)
    BY <2>1, ErrorDirection
  <2>. QED BY <2>2, <2>3 DEF Init, LedByTheNearerFront
<1>2. LedByTheNearerFront /\ [Next]_vars => LedByTheNearerFront'
  <2>1. ASSUME NEW o \in Orientations, NEW b \in Angles, Control(o, b)
        PROVE  LedByTheNearerFront'
    <3>. DEFINE h == to180range(o)
    <3>1. h \in Angles
      BY NormalisedRange, OrientationsAssumption
    <3>2. pose'.heading = h /\ pose'.bearing = b /\ lastError' = HeadingError(h, b)
      BY <2>1, ControlIs
    <3>. HIDE DEF h
    <3>3. SameDirection(HeadingError(h, b) + b, IF Reversed(h, b) THEN h + H ELSE h)
      BY <3>1, ErrorDirection
    <3>4. Reversed(h, b) <=>
            \A d \in {c \in Angles : SameDirection(h - b, c)} : 20 * Magnitude(d) > 11 * H
      BY <3>1, ReversedByShortestWay
    <3>. QED BY <3>2, <3>3, <3>4 DEF LedByTheNearerFront
  <2>2. CASE UNCHANGED vars /\ LedByTheNearerFront
    BY <2>2 DEF vars, LedByTheNearerFront
  <2>. QED BY <2>1, <2>2 DEF Next
<1>. QED BY <1>1, <1>2, PTL DEF Spec

(* One wheel at base speed, forwards while the front leads, backwards      *)
(* while the back does: the reversed wheel mix is used exactly when the    *)
(* front was reversed, and saturation leaves neither wheel beyond zero.    *)
THEOREM DrivesWithFront == Spec => DrivesWithLeadingFront
<1>. DEFINE Act == /\ BaseSpeed \in {Magnitude(command'.left), Magnitude(command'.right)}
                   /\ IF SameDirection(lastError' + pose'.bearing, pose'.heading)
                        THEN command'.left >= 0 /\ command'.right >= 0
                        ELSE command'.left <= 0 /\ command'.right <= 0
<1>1. TypeOK /\ [Next]_vars => [Act]_vars
  <2>1. ASSUME TypeOK, NEW o \in Orientations, NEW b \in Angles, Control(o, b)
        PROVE  Act
    <3>. DEFINE h == to180range(o)
                w == PIDCommand(h, b, lastError)
    <3>1. h \in Angles /\ lastError \in Int
      BY <2>1, NormalisedRange, OrientationsAssumption DEF TypeOK, Angles
    <3>2. /\ BaseSpeed \in {Magnitude(w.left), Magnitude(w.right)}
          /\ Reversed(h, b) => w.left <= 0 /\ w.right <= 0
          /\ ~Reversed(h, b) => w.left >= 0 /\ w.right >= 0
      BY <3>1, PIDStep
    <3>3. SameDirection(HeadingError(h, b) + b, h) <=> ~Reversed(h, b)
      BY <3>1, ErrorDirection
    <3>4. /\ pose'.heading = h /\ pose'.bearing = b
          /\ lastError' = HeadingError(h, b) /\ command' = w
      BY <2>1, ControlIs
    <3>. HIDE DEF h, w
    <3>. QED BY <3>2, <3>3, <3>4
  <2>. HIDE DEF Act
  <2>. QED BY <2>1 DEF Next
<1>. QED BY <1>1, TypeCorrect, PTL DEF Spec, DrivesWithLeadingFront

-----------------------------------------------------------------------------
(* The closed loop. *)

(* An angle that is normalised is left as it is. *)
LEMMA NormalisedIsKept ==
  ASSUME NEW a \in Angles
  PROVE  to180range(a) = a
<1>1. Turn \in Nat \ {0} /\ -Turn < a /\ a < Turn /\ a \in Int
  BY MotorAssumption DEF Turn, Angles
<1>2. Fmod(a, Turn) = a
  BY <1>1 DEF Fmod
<1>. QED BY <1>2, MotorAssumption DEF to180range, Fold, Angles

(* A turn by less than half a turn goes over the wrap at most once. *)
LEMMA TurnedAngle ==
  ASSUME NEW a \in Angles, NEW k \in Int, -H < k, k < H
  PROVE  /\ to180range(a + k) \in Angles
         /\ to180range(a + k) \in {a + k, a + k - Turn, a + k + Turn}
<1>1. Turn \in Nat \ {0} /\ -Turn < a + k /\ a + k < Turn /\ a + k \in Int
  BY MotorAssumption DEF Turn, Angles
<1>2. Fmod(a + k, Turn) = a + k
  BY <1>1 DEF Fmod
<1>. QED BY <1>1, <1>2, MotorAssumption DEF to180range, Fold, Turn, Angles

(* The direction the robot is led by, when its front or its back leads. *)
Lead(h, back) == IF back THEN to180range(h + H) ELSE h

(* The error of the front that leads, which PID() computes for the front   *)
(* it chose and which TrueError is for the command in effect.              *)
LedError(h, back) == smallestAngleDiff(Lead(h, back), bearing)

(* The error of either front is the angle from it, give or take turns.     *)
LEMMA LedErrorRange ==
  ASSUME NEW h \in Angles, bearing \in Angles, NEW back \in BOOLEAN
  PROVE  /\ LedError(h, back) \in Angles
         /\ LedError(h, back) - (h - bearing) \in
              IF back THEN {-3 * H, -H, H, 3 * H} ELSE {-2 * H, 0, 2 * H}
<1>1. Lead(h, back) \in Angles /\ Lead(h, back) \in (IF back THEN {h - H, h + H} ELSE {h})
  BY OppositeDirection, MotorAssumption DEF Lead, Angles
<1>2. LedError(h, back) \in Angles
      /\ LedError(h, back) \in {Lead(h, back) - bearing, Lead(h, back) - bearing - Turn,
                                Lead(h, back) - bearing + Turn}
  BY <1>1, AngleDifference DEF LedError
<1>. DEFINE e == LedError(h, back)
            l == Lead(h, back)
<1>. HIDE DEF e, l
<1>3. e \in {l - bearing, l - bearing - Turn, l - bearing + Turn} /\ e \in Angles
  BY <1>2 DEF e, l
<1>4. l \in (IF back THEN {h - H, h + H} ELSE {h}) /\ l \in Angles
  BY <1>1 DEF l
<1>5. e - (h - bearing) \in IF back THEN {-3 * H, -H, H, 3 * H} ELSE {-2 * H, 0, 2 * H}
  BY <1>3, <1>4, MotorAssumption DEF Turn, Angles
<1>. QED BY <1>3, <1>5 DEF e

(* When the robot turns, the error turns with it, as long as it stays      *)
(* within half a turn.                                                     *)
LEMMA ErrorTurns ==
  ASSUME NEW h \in Angles, bearing \in Angles, NEW back \in BOOLEAN,
         NEW k \in Int, -H < k, k < H,
         -H < LedError(h, back) + k, LedError(h, back) + k < H
  PROVE  LedError(to180range(h + k), back) = LedError(h, back) + k
<1>. DEFINE g == to180range(h + k)
            e == LedError(h, back)
            f == LedError(g, back)
<1>1. g \in Angles /\ g \in {h + k, h + k - Turn, h + k + Turn}
  BY TurnedAngle
<1>2. e \in Angles
      /\ e - (h - bearing) \in IF back THEN {-3 * H, -H, H, 3 * H} ELSE {-2 * H, 0, 2 * H}
  BY LedErrorRange
<1>. HIDE DEF g
<1>3. f \in Angles
      /\ f - (g - bearing) \in IF back THEN {-3 * H, -H, H, 3 * H} ELSE {-2 * H, 0, 2 * H}
  BY <1>1, LedErrorRange
<1>. HIDE DEF e, f
<1>4. -H < e + k /\ e + k < H
  BY DEF e
<1>5. ASSUME back PROVE f = e + k
  BY <1>1, <1>2, <1>3, <1>4, <1>5, MotorAssumption DEF Angles, Turn
<1>6. ASSUME ~back PROVE f = e + k
  BY <1>1, <1>2, <1>3, <1>4, <1>6, MotorAssumption DEF Angles, Turn
<1>7. f = e + k
  BY <1>5, <1>6
<1>. QED BY <1>7 DEF e, f, g

(* How far the error of a leading front may be for PID() to choose the     *)
(* same front again: 99 degrees for the front, less than 81 for the back.  *)
KeepsFront(e, back) == IF back THEN 20 * Magnitude(e) < 9 * H ELSE 20 * Magnitude(e) <= 11 * H

(* PID() chooses the back exactly when the back's error is one it keeps.   *)
LEMMA ReversedWhenKept ==
  ASSUME NEW h \in Angles, bearing \in Angles, NEW back \in BOOLEAN
  PROVE  KeepsFront(LedError(h, back), back) <=> (Reversed(h, bearing) <=> back)
<1>. DEFINE d == smallestAngleDiff(h, bearing)
            e == LedError(h, TRUE)
<1>1. d \in Angles /\ d \in {h - bearing, h - bearing - Turn, h - bearing + Turn}
  BY AngleDifference
<1>2. e \in Angles /\ e - (h - bearing) \in {-3 * H, -H, H, 3 * H}
  BY LedErrorRange
<1>3. LedError(h, FALSE) = d
  BY DEF LedError, Lead
<1>4. Reversed(h, bearing) <=> 20 * Magnitude(d) > 11 * H
  BY DEF Reversed
<1>. HIDE DEF d, e
<1>5. Magnitude(d) + Magnitude(e) = H
  BY <1>1, <1>2, MotorAssumption DEF Magnitude, Turn, Angles
<1>6. Magnitude(d) \in Nat /\ Magnitude(e) \in Nat /\ H \in Nat
  BY <1>1, <1>2, MotorAssumption DEF Magnitude, Angles
<1>7. KeepsFront(e, TRUE) <=> Reversed(h, bearing)
  <2>1. KeepsFront(e, TRUE) <=> 20 * Magnitude(e) < 9 * H
    BY DEF KeepsFront
  <2>. DEFINE md == Magnitude(d)
              me == Magnitude(e)
  <2>2. md + me = H /\ md \in Nat /\ me \in Nat /\ H \in Nat
    BY <1>5, <1>6
  <2>. HIDE DEF md, me
  <2>3. 20 * me < 9 * H <=> 20 * md > 11 * H
    BY <2>2
  <2>. QED BY <1>4, <2>1, <2>3 DEF md, me
<1>8. KeepsFront(d, FALSE) <=> ~Reversed(h, bearing)
  <2>1. KeepsFront(d, FALSE) <=> 20 * Magnitude(d) <= 11 * H
    BY DEF KeepsFront
  <2>2. 20 * Magnitude(d) <= 11 * H <=> ~(20 * Magnitude(d) > 11 * H)
    BY <1>6
  <2>. QED BY <1>4, <2>1, <2>2
<1>9. CASE back = TRUE
  BY <1>7, <1>9 DEF e
<1>10. CASE back = FALSE
  BY <1>3, <1>8, <1>10
<1>. QED BY <1>9, <1>10


(* The invariant of the closed loop.  The error of the front in command is *)
(* one PID() keeps that front for; on the side the robot turns to it may   *)
(* grow, from at most a ninth of the greatest remembered error, by no more *)
(* than the robot turned since the frame.  It is the remembered error and  *)
(* what the robot turned since.                                            *)
LoopInv ==
  /\ heading \in Angles /\ bearing \in Angles /\ gap \in 0 .. MaxGap
  /\ lastError \in Angles /\ 20 * Magnitude(lastError) <= 11 * H
  /\ command \in [left : Speeds, right : Speeds]
  /\ Driving =>
       /\ KeepsFront(TrueError, Backing)
       /\ Steering(command) < 0 => 180 * TrueError >= -(11 * H) - 180 * (gap * MaxTurn)
       /\ Steering(command) > 0 => 180 * TrueError <= 11 * H + 180 * (gap * MaxTurn)
       /\ lastError - gap * MaxTurn <= TrueError /\ TrueError <= lastError + gap * MaxTurn
       /\ Steering(command) <= 0 => TrueError <= lastError
       /\ Steering(command) >= 0 => TrueError >= lastError

(* A frame: PID() chooses the front it chose before, and turns away from   *)
(* the objective only if the error is below a ninth of the remembered one. *)
LEMMA FrameStep ==
  ASSUME LoopInv, HandleFrame
  PROVE  /\ LoopInv' /\ Driving' /\ TrueError' = lastError'
         /\ Steering(command') < 0 <=> 9 * lastError' > lastError
         /\ Steering(command') > 0 <=> 9 * lastError' < lastError
         /\ Driving => Backing' = Backing /\ TrueError' = TrueError
<1>. DEFINE w == PIDCommand(heading, bearing, lastError)
            e == HeadingError(heading, bearing)
            r == Reversed(heading, bearing)
<1>1. heading \in Angles /\ bearing \in Angles /\ lastError \in Angles /\ lastError \in Int
  BY DEF LoopInv, Angles
<1>2. command' = w /\ lastError' = e /\ gap' = 0 /\ heading' = heading /\ bearing' = bearing
  BY <1>1, NormalisedIsKept, ControlIs DEF HandleFrame
<1>3. e \in Angles /\ e \in Int /\ 20 * Magnitude(e) <= 11 * H
  BY <1>1, ErrorBound DEF Angles
<1>4. /\ w \in [left : Speeds, right : Speeds]
      /\ Steering(w) < 0 <=> 9 * e > lastError
      /\ Steering(w) > 0 <=> 9 * e < lastError
      /\ BaseSpeed \in {Magnitude(w.left), Magnitude(w.right)}
      /\ r => w.left <= 0 /\ w.right <= 0
      /\ ~r => w.left >= 0 /\ w.right >= 0
  BY <1>1, PIDStep
<1>5. e = LedError(heading, r)
  BY DEF HeadingError, LeadingHeading, LedError, Lead
<1>6. r \in BOOLEAN
  BY DEF Reversed
<1>. HIDE DEF w, e
<1>7. w # Stopped /\ (w.left < 0 \/ w.right < 0 <=> r)
  BY <1>4, <1>6, MotorAssumption DEF Stopped, Speeds, Magnitude
<1>8. Driving' /\ Backing' = r
  BY <1>2, <1>6, <1>7 DEF Driving, Backing
<1>9. TrueError' = LedError(heading, r)
  BY <1>2, <1>8 DEF TrueError, LedError, Lead
<1>10. KeepsFront(TrueError', Backing')
  BY <1>1, <1>6, <1>8, <1>9, ReversedWhenKept
<1>11. /\ Steering(w) < 0 => 180 * e >= -(11 * H)
       /\ Steering(w) > 0 => 180 * e <= 11 * H
  BY <1>1, <1>3, <1>4, MotorAssumption DEF LoopInv, Magnitude
<1>12. gap' * MaxTurn = 0 /\ gap' \in 0 .. MaxGap
  BY <1>2, HeadingLoopAssumption
<1>13. LoopInv'
  <2>1. TrueError' = lastError' /\ lastError' - 0 <= TrueError' /\ TrueError' <= lastError' + 0
    BY <1>2, <1>3, <1>5, <1>9
  <2>. QED BY <1>1, <1>2, <1>3, <1>4, <1>5, <1>9, <1>10, <1>11, <1>12, <2>1, MotorAssumption
           DEF LoopInv
<1>14. ASSUME Driving PROVE Backing' = Backing /\ TrueError' = TrueError
  <2>1. Backing \in BOOLEAN
    BY DEF Backing
  <2>2. KeepsFront(LedError(heading, Backing), Backing)
    BY <1>14 DEF LoopInv, TrueError, LedError, Lead
  <2>3. r <=> Backing
    BY <1>1, <2>1, <2>2, ReversedWhenKept
  <2>4. r = Backing
    BY <1>6, <2>1, <2>3
  <2>. QED BY <1>8, <1>9, <2>4 DEF TrueError, LedError, Lead
<1>. QED BY <1>2, <1>4, <1>5, <1>8, <1>9, <1>13, <1>14

(* A step of the robot between two frames, which turn it by less than 70   *)
(* degrees, leaves the error where PID() keeps the front.                  *)
LEMMA TurnStep ==
  ASSUME 18 * Band < 7 * H, LoopInv, NEW amount \in 1 .. MaxTurn, Rotate(amount)
  PROVE  /\ LoopInv' /\ Driving /\ Driving' /\ Steering(command) # 0
         /\ command' = command /\ lastError' = lastError
         /\ TrueError' = TrueError + (IF Steering(command) > 0 THEN amount ELSE -amount)
<1>. DEFINE turned == gap * MaxTurn
            k == IF Steering(command) > 0 THEN amount ELSE -amount
            e == TrueError
<1>1. /\ heading \in Angles /\ bearing \in Angles /\ gap \in Nat /\ gap < MaxGap
      /\ gap' = gap + 1 /\ heading' = to180range(heading + k)
      /\ command' = command /\ bearing' = bearing /\ lastError' = lastError
      /\ Steering(command) # 0
  BY DEF LoopInv, Rotate, vars
<1>2. Steering(command) \in Int /\ Driving /\ Backing \in BOOLEAN
  BY <1>1, MotorAssumption DEF LoopInv, Driving, Stopped, Steering, Speeds, Backing
<1>3. e = LedError(heading, Backing) /\ e \in Angles
  BY <1>1, <1>2, LedErrorRange DEF TrueError, LedError, Lead
<1>4. turned \in Nat /\ gap' * MaxTurn = turned + MaxTurn /\ turned + MaxTurn <= Band
  <2>1. MaxTurn \in Nat /\ MaxGap \in Nat /\ gap + 1 <= MaxGap
    BY <1>1, HeadingLoopAssumption
  <2>2. turned \in Nat /\ (gap + 1) * MaxTurn = turned + MaxTurn
    BY <1>1, <2>1
  <2>3. (gap + 1) * MaxTurn <= MaxGap * MaxTurn
    BY <1>1, <2>1
  <2>. QED BY <1>1, <2>2, <2>3 DEF Band
<1>5. amount \in Nat /\ amount <= MaxTurn /\ MaxTurn \in Nat /\ H \in Nat /\ e \in Int
      /\ Band \in Int /\ 18 * Band < 7 * H
  BY <1>3, HeadingLoopAssumption, MotorAssumption DEF Angles, Band
<1>6. /\ KeepsFront(e, Backing)
      /\ Steering(command) < 0 => 180 * e >= -(11 * H) - 180 * turned
      /\ Steering(command) > 0 => 180 * e <= 11 * H + 180 * turned
      /\ lastError - turned <= e /\ e <= lastError + turned /\ lastError \in Int
      /\ Steering(command) <= 0 => e <= lastError
      /\ Steering(command) >= 0 => e >= lastError
  BY <1>2 DEF LoopInv, Angles
<1>. HIDE DEF turned, e
<1>7. IF Backing THEN 20 * e < 9 * H /\ -(9 * H) < 20 * e
                 ELSE 20 * e <= 11 * H /\ -(11 * H) <= 20 * e
  BY <1>5, <1>6 DEF KeepsFront, Magnitude
<1>8. /\ k \in Int /\ -H < k /\ k < H /\ -H < e + k /\ e + k < H
      /\ Steering(command) < 0 => 180 * (e + k) >= -(11 * H) - 180 * (turned + MaxTurn)
      /\ Steering(command) > 0 => 180 * (e + k) <= 11 * H + 180 * (turned + MaxTurn)
      /\ IF Backing THEN 20 * (e + k) < 9 * H /\ -(9 * H) < 20 * (e + k)
                    ELSE 20 * (e + k) <= 11 * H /\ -(11 * H) <= 20 * (e + k)
  <2>1. CASE Steering(command) < 0
    BY <1>2, <1>4, <1>5, <1>6, <1>7, <2>1
  <2>2. CASE Steering(command) > 0
    BY <1>2, <1>4, <1>5, <1>6, <1>7, <2>2
  <2>. QED BY <1>1, <1>2, <2>1, <2>2
<1>13. /\ lastError - (turned + MaxTurn) <= e + k /\ e + k <= lastError + (turned + MaxTurn)
       /\ Steering(command) <= 0 => e + k <= lastError
       /\ Steering(command) >= 0 => e + k >= lastError
  <2>1. CASE Steering(command) < 0
    BY <1>2, <1>4, <1>5, <1>6, <2>1
  <2>2. CASE Steering(command) > 0
    BY <1>2, <1>4, <1>5, <1>6, <2>2
  <2>. QED BY <1>1, <1>2, <2>1, <2>2
<1>. HIDE DEF k
<1>9. TrueError' = e + k
  <2>1. TrueError' = LedError(to180range(heading + k), Backing)
    BY <1>1 DEF TrueError, LedError, Lead, Backing
  <2>. QED BY <1>1, <1>2, <1>3, <1>8, <2>1, ErrorTurns
<1>10. KeepsFront(e + k, Backing)
  BY <1>5, <1>8 DEF KeepsFront, Magnitude
<1>11. heading' \in Angles /\ gap' \in 0 .. MaxGap
  BY <1>1, <1>8, TurnedAngle, HeadingLoopAssumption
<1>12. Backing' = Backing /\ Driving' = Driving
  BY <1>1 DEF Backing, Driving
<1>14. LoopInv'
  BY <1>1, <1>4, <1>8, <1>9, <1>10, <1>11, <1>12, <1>13 DEF LoopInv
<1>. QED BY <1>1, <1>2, <1>9, <1>12, <1>14 DEF e, k

LEMMA WithinOfItself ==
  ASSUME NEW x \in Int, NEW a \in Nat
  PROVE  x - a <= x /\ x <= x + a /\ x <= x /\ x >= x
OBVIOUS

(* A frame whose command is lost: what PID() keeps is the error of the     *)
(* front that is in command, and nothing of the robot changes.             *)
LEMMA LostStep ==
  ASSUME LoopInv, LoseCommand
  PROVE  /\ LoopInv'
         /\ TrueError' = TrueError /\ Backing' = Backing /\ Driving' = Driving
<1>1. heading \in Angles /\ bearing \in Angles /\ lastError \in Int
  BY DEF LoopInv, Angles
<1>2. lastError' = HeadingError(heading, bearing)
      /\ UNCHANGED <<command, heading, bearing, gap>>
  BY <1>1, NormalisedIsKept DEF LoseCommand
<1>3. lastError' \in Angles /\ 20 * Magnitude(lastError') <= 11 * H
  BY <1>1, <1>2, ErrorBound
<1>4. TrueError' = TrueError /\ Backing' = Backing /\ Driving' = Driving
  BY <1>2 DEF TrueError, Backing, Driving
<1>5. Backing \in BOOLEAN
  BY DEF Backing
<1>6. Driving => TrueError = lastError'
  <2>. SUFFICES ASSUME Driving PROVE TrueError = lastError'
    OBVIOUS
  <2>1. KeepsFront(LedError(heading, Backing), Backing)
    BY DEF LoopInv, TrueError, LedError, Lead
  <2>2. Reversed(heading, bearing) <=> Backing
    BY <1>1, <1>5, <2>1, ReversedWhenKept
  <2>. QED BY <1>2, <2>2 DEF TrueError, HeadingError, LeadingHeading
<1>7. gap * MaxTurn \in Nat
  BY HeadingLoopAssumption DEF LoopInv
<1>8. Driving => /\ lastError' - gap * MaxTurn <= TrueError
                 /\ TrueError <= lastError' + gap * MaxTurn
                 /\ TrueError <= lastError' /\ TrueError >= lastError'
  <2>. DEFINE turned == gap * MaxTurn
  <2>1. turned \in Nat /\ lastError' \in Int
    BY <1>3, <1>7 DEF Angles
  <2>. HIDE DEF turned
  <2>2. lastError' - turned <= lastError' /\ lastError' <= lastError' + turned
        /\ lastError' <= lastError' /\ lastError' >= lastError'
    BY <2>1, WithinOfItself
  <2>. QED BY <1>6, <2>2 DEF turned
<1>9. LoopInv'
  BY <1>2, <1>3, <1>4, <1>8 DEF LoopInv
<1>. QED BY <1>4, <1>9

LEMMA LoopInvariant ==
  ASSUME 18 * Band < 7 * H
  PROVE  /\ LoopInit => LoopInv
         /\ LoopInv /\ [LoopNext]_loopVars => LoopInv'
<1>1. LoopInit => LoopInv
  <2>1. Stopped \in [left : Speeds, right : Speeds]
    BY MotorAssumption DEF Stopped, Speeds
  <2>. QED BY <2>1, HeadingLoopAssumption DEF LoopInit, LoopInv, Driving
<1>2. LoopInv /\ [LoopNext]_loopVars => LoopInv'
  <2>1. ASSUME LoopInv, HandleFrame PROVE LoopInv'
    BY <2>1, FrameStep
  <2>2. ASSUME LoopInv, Move PROVE LoopInv'
    BY <2>2, TurnStep DEF Move
  <2>3. ASSUME LoopInv, LoseCommand PROVE LoopInv'
    BY <2>3, LostStep
  <2>4. ASSUME LoopInv, UNCHANGED loopVars PROVE LoopInv'
    BY <2>4 DEF LoopInv, loopVars, vars, Driving, TrueError, Backing
  <2>. QED BY <2>1, <2>2, <2>3, <2>4 DEF LoopNext
<1>. QED BY <1>1, <1>2

(* While the objective stands still a robot that turns by less than 70     *)
(* degrees between two frames never changes front once it drives, for any  *)
(* resolution, base speed, bearing and initial pose, although PID()        *)
(* chooses the front anew in every call.                                   *)
THEOREM FrontKept ==
  ASSUME 18 * Band < 7 * H
  PROVE  LoopSpec => FrontIsKept
<1>1. LoopInv /\ [LoopNext]_loopVars => [Driving => Backing' = Backing]_loopVars
  <2>1. ASSUME LoopInv, HandleFrame, Driving PROVE Backing' = Backing
    BY <2>1, FrameStep
  <2>2. ASSUME Move PROVE Backing' = Backing
    BY <2>2 DEF Move, Rotate, vars, Backing
  <2>3. ASSUME LoopInv, LoseCommand PROVE Backing' = Backing
    BY <2>3, LostStep
  <2>. QED BY <2>1, <2>2, <2>3 DEF LoopNext
<1>. QED BY <1>1, LoopInvariant, PTL DEF LoopSpec, FrontIsKept

-----------------------------------------------------------------------------
(* Homing in. *)

(* The invariant, for arithmetic. *)
LEMMA LoopNumbers ==
  ASSUME LoopInv
  PROVE  /\ lastError \in Int /\ TrueError \in Int /\ Steering(command) \in Int
         /\ Band \in Nat
         /\ Driving => /\ lastError - Band <= TrueError /\ TrueError <= lastError + Band
                       /\ Steering(command) <= 0 => TrueError <= lastError
                       /\ Steering(command) >= 0 => TrueError >= lastError
<1>. DEFINE turned == gap * MaxTurn
<1>1. lastError \in Int /\ Steering(command) \in Int
  BY MotorAssumption DEF LoopInv, Angles, Steering, Speeds
<1>2. TrueError \in Int
  <2>1. Backing \in BOOLEAN
    BY DEF Backing
  <2>. QED BY <2>1, LedErrorRange DEF LoopInv, TrueError, LedError, Lead, Angles
<1>3. turned \in Nat /\ Band \in Nat /\ turned <= Band
  <2>1. gap \in Nat /\ gap <= MaxGap /\ MaxGap \in Nat /\ MaxTurn \in Nat
    BY HeadingLoopAssumption DEF LoopInv
  <2>. QED BY <2>1 DEF Band
<1>4. Driving => /\ lastError - turned <= TrueError /\ TrueError <= lastError + turned
                 /\ Steering(command) <= 0 => TrueError <= lastError
                 /\ Steering(command) >= 0 => TrueError >= lastError
  BY DEF LoopInv
<1>. HIDE DEF turned
<1>. QED BY <1>1, <1>2, <1>3, <1>4

LEMMA WithinOrBeyond ==
  ASSUME NEW a \in Int, NEW b \in Nat
  PROVE  8 * a > b \/ 8 * a < -b \/ 8 * (Magnitude(a) + b) <= 9 * b
BY DEF Magnitude

LEMMA FullGap ==
  ASSUME NEW g \in Nat, NEW m \in Nat, NEW t \in Nat, g < m
  PROVE  /\ (m - (g + 1)) * t \in Nat
         /\ (m - g) * t = (m - (g + 1)) * t + t
         /\ (m - g) * t <= m * t
<1>1. PICK r \in Nat : m = g + 1 + r
  <2>1. m - (g + 1) \in Nat /\ m = g + 1 + (m - (g + 1))
    OBVIOUS
  <2>. QED BY <2>1
<1>2. m - (g + 1) = r /\ m - g = r + 1 /\ r * t \in Nat /\ g * t \in Nat
  BY <1>1
<1>3. (r + 1) * t = r * t + t /\ m * t = g * t + t + r * t
  BY <1>1
<1>. QED BY <1>2, <1>3

(* A frame whose command arrives at a driving robot leaves it homing. *)
LEMMA FrameHomes ==
  ASSUME LoopInv, LoopInv', HandleFrame, Driving
  PROVE  Homing' /\ TrueError' = TrueError
<1>1. /\ Driving' /\ TrueError' = lastError' /\ TrueError' = TrueError
      /\ Steering(command') < 0 <=> 9 * lastError' > lastError
      /\ Steering(command') > 0 <=> 9 * lastError' < lastError
  BY FrameStep
<1>2. /\ lastError \in Int /\ lastError' \in Int /\ Band \in Nat
      /\ lastError - Band <= lastError' /\ lastError' <= lastError + Band
  BY <1>1, LoopNumbers
<1>3. Steering(command)' \in Int /\ Steering(command)' = Steering(command')
  <2>1. Steering(command)' \in Int
    BY MotorAssumption DEF LoopInv, Steering, Speeds
  <2>. QED BY <2>1 DEF Steering
<1>4. CASE 8 * lastError' > Band
  <2>1. lastError' > 0 /\ Steering(command') < 0
    BY <1>1, <1>2, <1>4
  <2>. QED BY <1>1, <1>2, <1>3, <2>1, OppositeSigns DEF Homing
<1>5. CASE 8 * lastError' < -Band
  <2>1. lastError' < 0 /\ Steering(command') > 0
    BY <1>1, <1>2, <1>5
  <2>. QED BY <1>1, <1>2, <1>3, <2>1, OppositeSigns DEF Homing
<1>6. CASE 8 * (Magnitude(lastError') + Band) <= 9 * Band
  <2>1. (MaxGap - gap') * MaxTurn = Band
    BY HeadingLoopAssumption DEF HandleFrame, Band
  <2>2. Magnitude(TrueError)' = Magnitude(lastError') /\ Band' = Band
    BY <1>1 DEF Magnitude, Band
  <2>. QED BY <1>1, <1>6, <2>1, <2>2 DEF Homing
<1>. QED BY <1>1, <1>2, <1>4, <1>5, <1>6, WithinOrBeyond

(* A turn of a homing robot brings it nearer, or leaves it on the          *)
(* objective.                                                              *)
LEMMA TurnHomes ==
  ASSUME 18 * Band < 7 * H, LoopInv, Homing,
         NEW amount \in 1 .. MaxTurn, Rotate(amount)
  PROVE  /\ Homing'
         /\ OnObjective => OnObjective'
         /\ ~OnObjective => Magnitude(TrueError') < Magnitude(TrueError)
<1>. DEFINE s == Steering(command)
            e == TrueError
            f == TrueError'
            rest == (MaxGap - gap') * MaxTurn
<1>1. /\ command' = command /\ Driving /\ Driving' /\ s # 0
      /\ f = e + (IF s > 0 THEN amount ELSE -amount)
  BY TurnStep
<1>2. e \in Int /\ s \in Int /\ Band \in Nat
  BY LoopNumbers
<1>3. amount \in Nat /\ 0 < amount /\ amount <= MaxTurn /\ MaxTurn \in Nat
  BY HeadingLoopAssumption
<1>4. rest \in Nat /\ (MaxGap - gap) * MaxTurn = rest + MaxTurn /\ rest + MaxTurn <= Band
  <2>1. gap \in Nat /\ MaxGap \in Nat /\ gap < MaxGap /\ gap' = gap + 1
    BY HeadingLoopAssumption DEF LoopInv, Rotate
  <2>. QED BY <1>3, <2>1, FullGap DEF Band
<1>5. \/ e < 0 /\ s > 0
      \/ e > 0 /\ s < 0
      \/ 8 * (Magnitude(e) + (rest + MaxTurn)) <= 9 * Band
  BY <1>2, <1>4, OppositeSigns DEF Homing
<1>6. /\ OnObjective <=> 8 * Magnitude(e) <= 9 * Band
      /\ OnObjective' <=> 8 * Magnitude(f) <= 9 * Band
      /\ Homing' <=> (f * s < 0 \/ 8 * (Magnitude(f) + rest) <= 9 * Band)
  BY <1>1 DEF OnObjective, Homing, Band, Magnitude, Steering
<1>. HIDE DEF s, e, f, rest
<1>7. f \in Int
  BY <1>1, <1>2, <1>3
<1>8. /\ \/ f < 0 /\ s > 0
         \/ f > 0 /\ s < 0
         \/ 8 * (Magnitude(f) + rest) <= 9 * Band
      /\ 8 * Magnitude(e) <= 9 * Band => 8 * Magnitude(f) <= 9 * Band
      /\ ~(8 * Magnitude(e) <= 9 * Band) => Magnitude(f) < Magnitude(e)
  <2>. DEFINE most == MaxTurn
              b == Band
  <2>1. /\ e \in Int /\ s \in Int /\ f \in Int
        /\ amount \in Nat /\ most \in Nat /\ rest \in Nat /\ b \in Nat
        /\ 0 < amount /\ amount <= most /\ rest + most <= b /\ s # 0
        /\ f = e + (IF s > 0 THEN amount ELSE -amount)
        /\ \/ e < 0 /\ s > 0
           \/ e > 0 /\ s < 0
           \/ 8 * (Magnitude(e) + (rest + most)) <= 9 * b
    BY <1>1, <1>2, <1>3, <1>4, <1>5, <1>7
  <2>. HIDE DEF most, b
  <2>2. /\ \/ f < 0 /\ s > 0
           \/ f > 0 /\ s < 0
           \/ 8 * (Magnitude(f) + rest) <= 9 * b
        /\ 8 * Magnitude(e) <= 9 * b => 8 * Magnitude(f) <= 9 * b
        /\ ~(8 * Magnitude(e) <= 9 * b) => Magnitude(f) < Magnitude(e)
    <3>1. CASE e < 0 /\ s > 0
      BY <2>1, <3>1 DEF Magnitude
    <3>2. CASE e > 0 /\ s < 0
      BY <2>1, <3>2 DEF Magnitude
    <3>3. CASE 8 * (Magnitude(e) + (rest + most)) <= 9 * b
      <4>1. s > 0 \/ s < 0
        BY <2>1
      <4>. QED BY <2>1, <3>3, <4>1 DEF Magnitude
    <3>. QED BY <2>1, <3>1, <3>2, <3>3
  <2>. QED BY <2>2 DEF b
<1>9. ((f < 0 /\ s > 0) \/ (f > 0 /\ s < 0)) <=> f * s < 0
  BY <1>2, <1>7, OppositeSigns
<1>. QED BY <1>6, <1>8, <1>9 DEF e, f

(* From the second command that arrives after a change of objective on     *)
(* every turn brings the robot nearer until it is on its objective, and it *)
(* never leaves it again, for any resolution and any band below 70         *)
(* degrees, though frames and commands are lost: what fairness adds for it *)
(* to settle is only that commands keep arriving and turns go on.          *)
THEOREM Homes ==
  ASSUME 18 * Band < 7 * H
  PROVE  LoopSpec => HomesIn
<1>. DEFINE Act == /\ Driving /\ HandleFrame => Homing'
                   /\ Homing =>
                        /\ Homing'
                        /\ OnObjective => OnObjective'
                        /\ ~OnObjective => IF heading' = heading THEN TrueError' = TrueError
                                           ELSE Magnitude(TrueError') < Magnitude(TrueError)
<1>1. LoopInv /\ LoopInv' /\ [LoopNext]_loopVars => [Act]_loopVars
  <2>1. ASSUME LoopInv, LoopInv', HandleFrame, Driving PROVE Homing'
    BY <2>1, FrameHomes
  <2>2. ASSUME LoopInv, LoopInv', HandleFrame PROVE Act
    <3>1. heading' = heading /\ Driving'
      BY <2>2, FrameStep DEF HandleFrame
    <3>2. Driving => Homing' /\ TrueError' = TrueError
      BY <2>2, FrameHomes
    <3>. QED BY <3>1, <3>2 DEF Homing, OnObjective
  <2>3. ASSUME LoopInv, LoopInv', NEW amount \in 1 .. MaxTurn, Rotate(amount) PROVE Act
    <3>1. Homing => /\ Homing'
                    /\ OnObjective => OnObjective'
                    /\ ~OnObjective => Magnitude(TrueError') < Magnitude(TrueError)
      BY <2>3, TurnHomes
    <3>2. heading' # heading
      <4>1. /\ TrueError' = TrueError + (IF Steering(command) > 0 THEN amount ELSE -amount)
            /\ command' = command /\ bearing' = bearing
        BY <2>3, TurnStep DEF Rotate
      <4>2. TrueError' # TrueError
        BY <2>3, <4>1, LoopNumbers
      <4>3. heading' = heading => TrueError' = TrueError
        BY <4>1 DEF TrueError, Backing
      <4>. QED BY <4>2, <4>3
    <3>. QED BY <2>1, <2>3, <3>1, <3>2
  <2>4. ASSUME LoopInv, LoopInv', LoseCommand PROVE Act
    <3>1. TrueError' = TrueError /\ Driving' = Driving /\ command' = command
          /\ heading' = heading /\ gap' = gap
      BY <2>4, LostStep DEF LoseCommand
    <3>2. Homing' = Homing /\ OnObjective' = OnObjective
      BY <3>1 DEF Homing, OnObjective, Steering
    <3>. QED BY <2>1, <2>4, <3>1, <3>2
  <2>. QED BY <2>2, <2>3, <2>4 DEF LoopNext, Move
<1>. QED BY <1>1, LoopInvariant, PTL DEF LoopSpec, HomesIn
=============================================================================
