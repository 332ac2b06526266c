---------------------------- MODULE MC_Messages -----------------------------
(***************************************************************************)
(* The messages: the stream they are parsed from, and the objects they are *)
(* parsed into.  The initial state chooses the part, so that their state   *)
(* spaces add up.                                                          *)
(***************************************************************************)
EXTENDS CodedInput, EnvironmentMessage, TLC

CONSTANTS p, q, a, b, r

VARIABLE part

MC_Objects == {p, q}
MC_Cells == {a, b}

(* One message: step 1 and a frame of two robots.  It comes with the frame *)
(* in two parts, a field of a later version between them, and the step     *)
(* last; cut within the frame; and cut before it.                          *)
step == StepField(1)
half == FrameField(1, <<r>>)
MC_Whole == {<<half, [field |-> "unknown"], half, step>>}
MC_Datagrams == MC_Whole \cup {<<step, FrameField(2, <<r>>)>>, <<step>>}
MC_Contents == [w \in MC_Datagrams |-> [step |-> 1, frame |-> <<r, r>>]]

Symmetry == Permutations(MC_Objects) \cup Permutations(MC_Cells)

Init ==
  /\ part \in {"stream", "objects"}
  /\ StreamInit
  /\ part = "objects" => size = 0 /\ flat
  /\ MessageInit

Next ==
  /\ UNCHANGED part
  /\ \/ part = "stream" /\ StreamNext /\ UNCHANGED messageVars
     \/ part = "objects" /\ MessageNext /\ UNCHANGED streamVars

Spec == Init /\ [][Next]_<<part, streamVars, messageVars>>
=============================================================================
