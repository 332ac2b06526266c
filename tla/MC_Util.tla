------------------------------ MODULE MC_Util -------------------------------
(***************************************************************************)
(* util/util.h and util/timer.h: the angle and numeric helpers on every    *)
(* triple of small numbers, against what their comments say, the array     *)
(* helpers in every order of calls, and each kind of timer.  The initial   *)
(* state chooses the part, so that their state spaces add up.              *)
(***************************************************************************)
EXTENDS AngleUtil, NumericUtil, ArrayUtil, Timers

VARIABLE part

MC_Arguments == -12 .. 12

Init ==
  /\ part \in {"numbers", "arrays", "time of day", "cycles"}
  /\ IF part = "numbers" THEN NumbersInit ELSE x1 = 0 /\ x2 = 0 /\ x3 = 0
  /\ ArrayInit
  /\ WallInit /\ (part = "time of day" \/ timer.tv1 = 0)
  /\ CycleInit /\ (part = "cycles" \/ ReadsLowWord)

Next ==
  /\ UNCHANGED part
  /\ \/ part = "numbers" /\ NumbersNext /\ UNCHANGED <<arrayVars, wallVars, cycleVars>>
     \/ part = "arrays" /\ ArrayNext /\ UNCHANGED <<numbers, wallVars, cycleVars>>
     \/ part = "time of day" /\ WallNext /\ UNCHANGED <<numbers, arrayVars, cycleVars>>
     \/ part = "cycles" /\ CycleNext /\ UNCHANGED <<numbers, arrayVars, wallVars>>

Spec == Init /\ [][Next]_<<part, numbers, arrayVars, wallVars, cycleVars>>
=============================================================================
