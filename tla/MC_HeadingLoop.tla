--------------------------- MODULE MC_HeadingLoop ---------------------------
(* Units of 7.5 degrees.  The loop only depends on the angle between       *)
(* heading and objective; the bearings put the wrap at half a turn, and    *)
(* the reversal angle, on different headings.  MaxGap turns of MaxTurn are *)
(* enough for the derivative term to turn a robot away that came on fast.  *)
EXTENDS HeadingLoop

MC_Orientations == Angles
MC_Bearings == {-24, 15}
=============================================================================
