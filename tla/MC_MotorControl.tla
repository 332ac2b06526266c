-------------------------- MODULE MC_MotorControl ---------------------------
(* Units of 9 degrees; orientations cover both sides of every boundary:    *)
(* zero, a quarter turn, the reversal angle 11, half a turn and a turn.    *)
EXTENDS MotorControl

MC_Orientations == {-45, -31, -20, -11, 0, 1, 12, 21, 40}
=============================================================================
