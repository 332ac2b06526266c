---------------------------- MODULE MessageValue ----------------------------
(***************************************************************************)
(* What the generated message classes promise: an Environment is a value.  *)
(* A method changes the object it is called on, Swap the two it names, and *)
(* no other object, nor a Frame somebody else owns, changes with it.       *)
(***************************************************************************)
EXTENDS Integers, Sequences

CONSTANTS
  Objects,  \* Environment objects
  Handles,  \* names for the Frames that belong to the caller
  Numbers,  \* values of step; 0 is the default and is not sent
  Robots,   \* elements of robots_blue
  Inputs,   \* what other programs' messages hold
  Absent    \* no frame

VARIABLES
  value,  \* step and frame of each object
  held,   \* the caller's Frames
  sent    \* the value last serialised

vars == <<value, held, sent>>

Values == [step : Numbers, frame : Seq(Robots) \cup {Absent}]

Blank == [step |-> 0, frame |-> Absent]

(* Repeated fields are concatenated, sub-messages merged, and a number     *)
(* that is not the default replaces the old one.                           *)
Merged(into, from) ==
  [step  |-> IF from.step # 0 THEN from.step ELSE into.step,
   frame |-> CASE from.frame = Absent -> into.frame
               [] into.frame = Absent -> from.frame
               [] OTHER -> into.frame \o from.frame]

Init ==
  /\ value = [o \in Objects |-> Blank]
  /\ held = [h \in Handles |-> Absent]
  /\ sent = Blank

Assign(o, v) == value' = [value EXCEPT ![o] = v] /\ UNCHANGED <<held, sent>>

(* The object takes a value; what it was merged with is left alone. *)
SetStep(o, n) == Assign(o, [value[o] EXCEPT !.step = n])
AddRobot(o, r) == Assign(o, Merged(value[o], [step |-> 0, frame |-> <<r>>]))
Clear(o) == Assign(o, Blank)
Merge(o, p) == Assign(o, Merged(value[o], value[p]))
Copy(o, p) == Assign(o, value[p])
Parse(o, v) == Assign(o, v)

ParseSent(o) == Parse(o, sent)

(* A message that breaks off has filled the object with the part before.   *)
ParseBroken(o, v) ==
  \E p \in {[step |-> n, frame |-> f] : n \in {0, v.step},
              f \in {Absent} \cup {SubSeq(v.frame, 1, k) : k \in 0 .. Len(v.frame)}} :
     Assign(o, p)

Swap(o, p) ==
  /\ value' = [value EXCEPT ![o] = value[p], ![p] = value[o]]
  /\ UNCHANGED <<held, sent>>

(* A Frame goes from the object to the caller and back, or is copied out.  *)
Release(o, h) ==
  /\ held[h] = Absent
  /\ value' = [value EXCEPT ![o].frame = Absent]
  /\ held' = [held EXCEPT ![h] = value[o].frame]
  /\ UNCHANGED sent
SetAllocated(o, h) ==
  /\ held[h] # Absent
  /\ value' = [value EXCEPT ![o].frame = held[h]]
  /\ held' = [held EXCEPT ![h] = Absent]
  /\ UNCHANGED sent
ClearFrame(o) == Assign(o, [value[o] EXCEPT !.frame = Absent])
CopyOut(o, h) ==
  /\ held[h] = Absent
  /\ held' = [held EXCEPT ![h] = IF value[o].frame = Absent THEN <<>> ELSE value[o].frame]
  /\ UNCHANGED <<value, sent>>
Drop(h) == held' = [held EXCEPT ![h] = Absent] /\ UNCHANGED <<value, sent>>

Serialize(o) == sent' = value[o] /\ UNCHANGED <<value, held>>

Next ==
  \/ \E o \in Objects :
       \/ \E n \in Numbers : SetStep(o, n)
       \/ \E r \in Robots : AddRobot(o, r)
       \/ Clear(o) \/ ClearFrame(o) \/ Serialize(o)
       \/ \E v \in Inputs : Parse(o, v) \/ ParseBroken(o, v)
       \/ ParseSent(o)
       \/ \E p \in Objects : Merge(o, p) \/ Copy(o, p) \/ Swap(o, p)
       \/ \E h \in Handles : Release(o, h) \/ SetAllocated(o, h) \/ CopyOut(o, h)
  \/ \E h \in Handles : Drop(h)

Spec == Init /\ [][Next]_vars
=============================================================================
