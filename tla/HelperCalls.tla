---------------------------- MODULE HelperCalls -----------------------------
(***************************************************************************)
(* The arguments a caller hands to the pure helpers of util/util.h: any    *)
(* three numbers, one call after the other.                                *)
(***************************************************************************)
EXTENDS Integers

CONSTANT Arguments  \* the numbers helpers are called with

ASSUME ArgumentsAssumption == Arguments \subseteq Int

VARIABLES x1, x2, x3

numbers == <<x1, x2, x3>>

NumbersInit == x1 \in Arguments /\ x2 \in Arguments /\ x3 = x1

NumbersNext == x3' \in Arguments /\ UNCHANGED <<x1, x2>>

NumbersSpec == NumbersInit /\ [][NumbersNext]_numbers
=============================================================================
