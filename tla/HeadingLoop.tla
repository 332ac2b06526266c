---------------------------- MODULE HeadingLoop -----------------------------
(***************************************************************************)
(* The closed loop of one robot: PID() of main.cpp turns it, the simulator *)
(* shows the new orientation, PID() is called again.  The objective stands *)
(* still, as it does while defineObjective returns the same point and the  *)
(* robot is far from it.                                                   *)
(*                                                                         *)
(* The robot's motion is external.  A robot whose wheels differ turns, in  *)
(* the direction of the faster wheel, by 1 to MaxTurn units per simulation *)
(* step, until a new command arrives; lost frames and lost commands let it *)
(* turn for up to MaxGap steps on the same one.                            *)
(***************************************************************************)
EXTENDS MotorControl

CONSTANTS
  Bearings, \* where the objective may stand
  MaxTurn,  \* the most the robot turns in a simulation step
  MaxGap    \* the most simulation steps between two commands that arrive

ASSUME HeadingLoopAssumption ==
  /\ Bearings \subseteq Angles
  /\ MaxTurn \in Nat \ {0}
  /\ MaxGap \in Nat \ {0}

VARIABLES
  heading,    \* true orientation of the robot, within half a turn
  bearing,    \* direction of the objective (constant)
  gap         \* simulation steps since the last command arrived

loopVars == <<vars, heading, bearing, gap>>

(* The static error is arbitrary: PID may have been driving the robot to   *)
(* another objective before.                                               *)
LoopInit ==
  /\ heading \in Angles
  /\ bearing \in Bearings
  /\ lastError \in {e \in Angles : 20 * Magnitude(e) <= 11 * H}
  /\ command = Stopped
  /\ pose = [heading |-> 0, bearing |-> 0]
  /\ gap = 0

(* A vision frame is handled and its command reaches the simulator. *)
HandleFrame ==
  /\ Control(heading, bearing)
  /\ gap' = 0
  /\ UNCHANGED <<heading, bearing>>

(* sendto fails, or the datagram is lost, when PID() has already kept the  *)
(* error of the frame: the robot goes on with the command it has.          *)
LoseCommand ==
  /\ pose' = [heading |-> to180range(heading), bearing |-> bearing]
  /\ lastError' = HeadingError(pose'.heading, bearing)
  /\ UNCHANGED <<command, heading, bearing, gap>>

Rotate(amount) ==
  /\ gap < MaxGap
  /\ Steering(command) # 0
  /\ heading' = to180range(heading + (IF Steering(command) > 0 THEN amount ELSE -amount))
  /\ gap' = gap + 1
  /\ UNCHANGED <<vars, bearing>>

Move == \E amount \in 1 .. MaxTurn : Rotate(amount)

LoopNext == HandleFrame \/ LoseCommand \/ Move

(* The simulator keeps stepping and sends a frame every step, so the loop  *)
(* `while(true)` that polls the socket keeps being handed frames; commands *)
(* may be lost, but not all of them from some point on.                    *)
LoopSpec ==
  LoopInit /\ [][LoopNext]_loopVars /\ WF_loopVars(HandleFrame) /\ WF_loopVars(Move)

-----------------------------------------------------------------------------
Driving == command # Stopped

(* The robot drives backwards. *)
Backing == command.left < 0 \/ command.right < 0

(* How far off the objective the direction the robot is led by is now. *)
TrueError ==
  smallestAngleDiff(IF Backing THEN to180range(heading + H) ELSE heading, bearing)

(* While the objective stands still the robot never changes front once it  *)
(* drives: turning towards the objective moves the error away from the     *)
(* reversal angle on both sides of it, although PID() remembers nothing    *)
(* about the front of its previous call.                                   *)
FrontIsKept == [][Driving => Backing' = Backing]_loopVars

(* What the robot can turn between two commands. *)
Band == MaxGap * MaxTurn

(* The direction the robot is led by is the objective's, but for the turn  *)
(* it can make on one command and the eighth of it that the derivative     *)
(* term adds, when it turns a robot away that came on too fast.            *)
OnObjective == Driving /\ 8 * Magnitude(TrueError) <= 9 * Band

(* The command turns the robot towards the objective, or whatever the      *)
(* robot can still turn on it leaves it on the objective.                  *)
Homing ==
  /\ Driving
  /\ \/ TrueError * Steering(command) < 0
     \/ 8 * (Magnitude(TrueError) + (MaxGap - gap) * MaxTurn) <= 9 * Band

(* From the second command to arrive after a change of objective on the    *)
(* robot homes in: every turn brings it nearer until it is on the          *)
(* objective, where it stays, overshooting and being turned back, though   *)
(* frames and commands are lost on the way.                                *)
HomesIn ==
  [][/\ Driving /\ HandleFrame => Homing'
     /\ Homing =>
          /\ Homing'
          /\ OnObjective => OnObjective'
          /\ ~OnObjective => IF heading' = heading THEN TrueError' = TrueError
                             ELSE Magnitude(TrueError') < Magnitude(TrueError)]_loopVars

(* The direction the robot is led by settles on the objective, forwards or *)
(* backwards.                                                              *)
SettlesOnObjective == <>[]OnObjective
=============================================================================
