--------------------------- MODULE MC_ControlLoop ---------------------------
(* Units of 45 degrees.  Robots join and leave, so the robot listed first  *)
(* is not the same in every frame; its errors are 0, -90 and -45 degrees.  *)
EXTENDS ControlLoop

Robot(orientation, bearing) == [orientation |-> orientation, bearing |-> bearing]

MC_Frames == {
  <<>>,
  <<Robot(1, -3)>>,
  <<Robot(0, 2), Robot(1, -3)>>,
  <<Robot(-2, 3), Robot(0, 2)>>}

MC_TwoFrames == {<<>>, <<Robot(6, 2), Robot(0, 3)>>}
=============================================================================
