------------------------- MODULE EnvironmentMessage -------------------------
(***************************************************************************)
(* The generated class Environment (net/pb/common.pb.cc): step_ by value, *)
(* frame_ a pointer to a Frame the object owns, made when first written to *)
(* and deleted by Clear.  field_ is kept as frame_ is and the goals as     *)
(* step_; of the Frame only robots_blue_ is represented.  Packet and its   *)
(* Commands have the same shape.                                           *)
(*                                                                         *)
(* A message on the wire is a sequence of fields.  A sub-message carries   *)
(* the length that was written before it: the cached one.                  *)
(***************************************************************************)
EXTENDS Integers, Sequences, FiniteSets

CONSTANTS
  Objects,     \* Environment objects
  Cells,       \* addresses of Frames
  Numbers,     \* values of step
  Robots,      \* values of a Robot
  RobotBound,  \* robots a Frame holds in the model
  Datagrams,   \* messages of other programs, whole and broken
  Contents,    \* what they hold, or held before they were cut
  Whole,       \* those that were not
  NULL, Free,  \* no pointer; an address not in use
  Absent       \* no frame in a parsed message

Frames == [robots : Seq(Robots), cached : Nat]

ASSUME MessageAssumption ==
  /\ NULL \notin Cells /\ Free \notin Frames /\ Absent \notin Seq(Robots)
  /\ "caller" \notin Objects
  /\ 0 \in Numbers

VARIABLES
  env,     \* members of the objects
  heap,    \* the Frames
  caller,  \* addresses of the Frames the caller owns
  wire     \* what the last SerializeToArray wrote

messageVars == <<env, heap, caller, wire>>

(* What the constructor makes. *)
Constructed == [step |-> 0, frame |-> NULL]

MessageInit ==
  /\ env = [o \in Objects |-> Constructed]
  /\ heap = [c \in Cells |-> Free]
  /\ caller = {}
  /\ wire = <<>>

-----------------------------------------------------------------------------
(* Frames. *)

has_frame(o) == env[o].frame # NULL

RobotsOf(c) == IF c = NULL THEN <<>> ELSE heap[c].robots

NewFrame(robots) == [robots |-> robots, cached |-> 0]

(* delete of the pointer p, which may be NULL. *)
Deleted(p) == IF p = NULL THEN heap ELSE [heap EXCEPT ![p] = Free]

(* mutable_frame() of o, with `add` appended to the robots of the Frame. *)
AppendTo(o, step, add) ==
  /\ Len(RobotsOf(env[o].frame)) + Len(add) <= RobotBound
  /\ IF has_frame(o)
       THEN /\ heap' = [heap EXCEPT ![env[o].frame].robots = @ \o add]
            /\ env' = [env EXCEPT ![o].step = step]
       ELSE \E c \in Cells :
              /\ heap[c] = Free
              /\ heap' = [heap EXCEPT ![c] = NewFrame(add)]
              /\ env' = [env EXCEPT ![o] = [step |-> step, frame |-> c]]
  /\ UNCHANGED <<caller, wire>>

set_step(o, n) ==
  /\ env' = [env EXCEPT ![o].step = n]
  /\ UNCHANGED <<heap, caller, wire>>

(* mutable_frame()->add_robots_blue() *)
add_robots_blue(o, r) == AppendTo(o, env[o].step, <<r>>)

(* The object becomes what was parsed or copied: Clear() deletes its       *)
(* frame, mutable_frame() makes a new one.                                 *)
Refill(o, step, frame) ==
  LET cleared == Deleted(env[o].frame)
  IN  /\ IF frame = Absent
           THEN heap' = cleared /\ env' = [env EXCEPT ![o] = [step |-> step, frame |-> NULL]]
           ELSE \E c \in Cells :
                  /\ cleared[c] = Free
                  /\ heap' = [cleared EXCEPT ![c] = NewFrame(frame)]
                  /\ env' = [env EXCEPT ![o] = [step |-> step, frame |-> c]]
      /\ UNCHANGED <<caller, wire>>

Clear(o) == Refill(o, 0, Absent)

(* The object goes out of scope, deleting its frame, and a new one is      *)
(* constructed in its place.                                               *)
Renew(o) ==
  /\ heap' = Deleted(env[o].frame)
  /\ env' = [env EXCEPT ![o] = Constructed]
  /\ UNCHANGED <<caller, wire>>

-----------------------------------------------------------------------------
(* Merge, copy, swap. *)

(* Merging an object into itself ends the program (MergeFromFail). *)
MergeFrom(o, from) ==
  /\ o # from
  /\ LET step == IF env[from].step # 0 THEN env[from].step ELSE env[o].step
     IN  IF has_frame(from)
           THEN AppendTo(o, step, RobotsOf(env[from].frame))
           ELSE set_step(o, step)

FrameOf(o) == IF has_frame(o) THEN RobotsOf(env[o].frame) ELSE Absent

CopyFrom(o, from) ==
  IF o = from THEN UNCHANGED messageVars ELSE Refill(o, env[from].step, FrameOf(from))

Swap(o, other) ==
  /\ env' = [env EXCEPT ![o] = env[other], ![other] = env[o]]
  /\ UNCHANGED <<heap, caller, wire>>

-----------------------------------------------------------------------------
(* Ownership passes to the caller and back; no frame may be given too. *)

release_frame(o) ==
  /\ env' = [env EXCEPT ![o].frame = NULL]
  /\ caller' = caller \cup ({env[o].frame} \ {NULL})
  /\ UNCHANGED <<heap, wire>>

(* Mutated: the old frame is not deleted. *)
set_allocated_frameLeaking(o, c) ==
  /\ c \in caller \cup {NULL}
  /\ env' = [env EXCEPT ![o].frame = c]
  /\ caller' = caller \ {c}
  /\ UNCHANGED <<heap, wire>>

set_allocated_frame(o, c) ==
  /\ c \in caller \cup {NULL}
  /\ heap' = Deleted(env[o].frame)
  /\ env' = [env EXCEPT ![o].frame = c]
  /\ caller' = caller \ {c}
  /\ UNCHANGED wire

(* Frame detection = packet.frame(): a copy, of the default instance if    *)
(* there is no frame.                                                      *)
CopyOut(o, c) ==
  /\ heap[c] = Free
  /\ heap' = [heap EXCEPT ![c] = NewFrame(RobotsOf(env[o].frame))]
  /\ caller' = caller \cup {c}
  /\ UNCHANGED <<env, wire>>

Drop(c) ==
  /\ c \in caller
  /\ heap' = Deleted(c)
  /\ caller' = caller \ {c}
  /\ UNCHANGED <<env, wire>>

-----------------------------------------------------------------------------
(* The wire. *)

StepField(n) == [field |-> "step", value |-> n]
FrameField(length, robots) == [field |-> "frame", length |-> length, robots |-> robots]

Unread == [step |-> 0, frame |-> Absent, ok |-> TRUE]

(* One round of MergePartialFromCodedStream: a number replaces, a frame is *)
(* merged, robot after robot until its length is used up or the data ends, *)
(* unknown fields are skipped.                                             *)
ReadField(m, f) ==
  CASE ~m.ok -> m
    [] f.field = "step" -> [m EXCEPT !.step = f.value]
    [] f.field = "frame" ->
         [m EXCEPT !.frame = (IF @ = Absent THEN <<>> ELSE @) \o
                               SubSeq(f.robots, 1, IF f.length < Len(f.robots)
                                                     THEN f.length ELSE Len(f.robots)),
                   !.ok = f.length = Len(f.robots)]
    [] OTHER -> m

MergePartialFromCodedStream(w) ==
  LET read[i \in 0 .. Len(w)] == IF i = 0 THEN Unread ELSE ReadField(read[i - 1], w[i])
  IN  read[Len(w)]

(* What the program that sent a datagram says it holds is what is read,    *)
(* and of a datagram that was cut a part of it.                            *)
ASSUME ContentsAssumption ==
  \A w \in Datagrams : LET m == MergePartialFromCodedStream(w)
                           v == Contents[w]
                       IN
    /\ v.step \in Numbers /\ v.frame \in Seq(Robots) \cup {Absent}
    /\ v = [step |-> v.step, frame |-> v.frame]
    /\ w \in Whole => v.step = m.step /\ v.frame = m.frame
    /\ w \notin Whole =>
         /\ v.frame # Absent /\ m.step \in {0, v.step}
         /\ m.frame = Absent \/ \E k \in 0 .. Len(v.frame) : m.frame = SubSeq(v.frame, 1, k)

(* Clear and merge; what was read before a failure stays in the object. *)
ParseFromArray(o, w) ==
  LET m == MergePartialFromCodedStream(w)
  IN  (m.frame # Absent => Len(m.frame) <= RobotBound) /\ Refill(o, m.step, m.frame)

(* ByteSize() leaves the size of the frame in its cache. *)
ByteSized(o) ==
  IF has_frame(o)
    THEN [heap EXCEPT ![env[o].frame].cached = Len(heap[env[o].frame].robots)]
    ELSE heap

(* SerializeWithCachedSizesToArray of o, with the Frames as in h: default  *)
(* numbers are left out, the frame is preceded by its cached size.         *)
Serialized(o, h) ==
  (IF env[o].step # 0 THEN <<StepField(env[o].step)>> ELSE <<>>) \o
  (IF has_frame(o)
     THEN <<FrameField(h[env[o].frame].cached, h[env[o].frame].robots)>> ELSE <<>>)

(* Mutated: the sizes cached by an earlier call are taken. *)
SerializeToArrayUnsized(o) ==
  /\ wire' = Serialized(o, heap)
  /\ UNCHANGED <<env, heap, caller>>

SerializeToArray(o) ==
  /\ heap' = ByteSized(o)
  /\ wire' = Serialized(o, heap')
  /\ UNCHANGED <<env, caller>>

(* There is less room for the bytes than ByteSize() says: false. *)
SerializeRefused(o) ==
  /\ env[o].step # 0 \/ has_frame(o)
  /\ heap' = ByteSized(o)
  /\ UNCHANGED <<env, caller, wire>>

MessageNext ==
  \/ \E o \in Objects :
       \/ \E n \in Numbers : set_step(o, n)
       \/ \E r \in Robots : add_robots_blue(o, r)
       \/ Clear(o) \/ Renew(o) \/ release_frame(o)
       \/ SerializeToArray(o) \/ SerializeRefused(o)
       \/ \E from \in Objects : MergeFrom(o, from) \/ CopyFrom(o, from) \/ Swap(o, from)
       \/ \E c \in Cells \cup {NULL} : set_allocated_frame(o, c)
       \/ \E c \in Cells : CopyOut(o, c)
       \/ \E w \in Datagrams \cup {wire} : ParseFromArray(o, w)
  \/ \E c \in Cells : Drop(c)

MessageSpec == MessageInit /\ [][MessageNext]_messageVars

-----------------------------------------------------------------------------
(* Properties. *)

(* How many objects and callers own the Frame at c. *)
Owners(c) == {o \in Objects : env[o].frame = c} \cup (IF c \in caller THEN {"caller"} ELSE {})

(* Every Frame has exactly one owner and every pointer a live Frame: none  *)
(* leaks, is deleted twice, or is shared by two messages, through parsing, *)
(* copying, swapping and passing frames around.                            *)
FramesOwnedOnce ==
  \A c \in Cells : Cardinality(Owners(c)) = (IF heap[c] = Free THEN 0 ELSE 1)

Value == INSTANCE MessageValue
           WITH Handles <- Cells,
                Inputs <- {Contents[w] : w \in Datagrams},
                value <- [o \in Objects |-> [step |-> env[o].step, frame |-> FrameOf(o)]],
                held <- [c \in Cells |-> IF c \in caller THEN heap[c].robots ELSE Absent],
                sent <- LET m == MergePartialFromCodedStream(wire)
                        IN  [step |-> m.step, frame |-> m.frame]

Simulated ==
  messageVars' # messageVars => \A o \in Objects :
    /\ Clear(o) => Value!Clear(o)
    /\ SerializeToArray(o) => Value!Serialize(o)
    /\ ParseFromArray(o, wire) => Value!ParseSent(o)
    /\ \A w \in Datagrams : ParseFromArray(o, w) =>
         IF w \in Whole THEN Value!Parse(o, Contents[w]) ELSE Value!ParseBroken(o, Contents[w])
    /\ \A r \in Robots : add_robots_blue(o, r) => Value!AddRobot(o, r)
    /\ \A from \in Objects : /\ MergeFrom(o, from) => Value!Merge(o, from)
                             /\ CopyFrom(o, from) => Value!Copy(o, from)
                             /\ Swap(o, from) => Value!Swap(o, from)

(* Each method does to the values what it promises and nothing else: a     *)
(* copy is deep, merging appends, a copy of an object to itself keeps it,  *)
(* what is serialised reads back as what was written although sizes are    *)
(* cached, and a broken message leaves part of what it held in this object *)
(* alone.                                                                  *)
MethodsImplementValue == Value!Spec /\ [][Simulated]_messageVars

=============================================================================
