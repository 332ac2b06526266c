---------------------- MODULE EnvironmentMessageProofs ----------------------
(***************************************************************************)
(* For any number of messages, Frames and robots: every Frame has exactly  *)
(* one owner, and the methods of the generated classes do to the values    *)
(* what MessageValue says.                                                 *)
(***************************************************************************)
EXTENDS EnvironmentMessage, FiniteSetTheorems, TLAPS

-----------------------------------------------------------------------------
(* Reading. *)

(* The loop of MergePartialFromCodedStream on a message of n fields. *)
Reads(read, w, n) ==
  read = [i \in 0 .. n |-> IF i = 0 THEN Unread ELSE ReadField(read[i - 1], w[i])]

LEMMA ReadNone ==
  ASSUME NEW w, Len(w) = 0
  PROVE  MergePartialFromCodedStream(w) = Unread
<1>. DEFINE read == CHOOSE f : Reads(f, w, Len(w))
            f == [i \in 0 .. 0 |-> Unread]
<1>1. Reads(f, w, 0)
  BY DEF Reads
<1>2. MergePartialFromCodedStream(w) = read[Len(w)]
  BY DEF MergePartialFromCodedStream, Reads
<1>. HIDE DEF f
<1>3. Reads(read, w, 0)
  BY <1>1
<1>. HIDE DEF read
<1>4. read[0] = Unread
  BY <1>3 DEF Reads
<1>. QED BY <1>2, <1>4

LEMMA ReadOne ==
  ASSUME NEW w, Len(w) = 1
  PROVE  MergePartialFromCodedStream(w) = ReadField(Unread, w[1])
<1>. DEFINE read == CHOOSE f : Reads(f, w, Len(w))
            f == [i \in 0 .. 1 |-> IF i = 0 THEN Unread ELSE ReadField(Unread, w[1])]
<1>1. Reads(f, w, 1)
  BY DEF Reads
<1>2. MergePartialFromCodedStream(w) = read[Len(w)]
  BY DEF MergePartialFromCodedStream, Reads
<1>. HIDE DEF f
<1>3. Reads(read, w, 1)
  BY <1>1
<1>. HIDE DEF read
<1>4. read[0] = Unread /\ read[1] = ReadField(read[0], w[1])
  BY <1>3 DEF Reads
<1>. QED BY <1>2, <1>4

LEMMA ReadTwo ==
  ASSUME NEW w, Len(w) = 2
  PROVE  MergePartialFromCodedStream(w) = ReadField(ReadField(Unread, w[1]), w[2])
<1>. DEFINE read == CHOOSE f : Reads(f, w, Len(w))
            first == ReadField(Unread, w[1])
            second == ReadField(first, w[2])
            f == [i \in 0 .. 2 |-> IF i = 0 THEN Unread ELSE IF i = 1 THEN first ELSE second]
<1>1. Reads(f, w, 2)
  BY DEF Reads
<1>2. MergePartialFromCodedStream(w) = read[Len(w)]
  BY DEF MergePartialFromCodedStream, Reads
<1>. HIDE DEF f
<1>3. Reads(read, w, 2)
  BY <1>1
<1>. HIDE DEF read
<1>4. /\ read[0] = Unread /\ read[1] = ReadField(read[0], w[1])
      /\ read[2] = ReadField(read[1], w[2])
  BY <1>3 DEF Reads
<1>. QED BY <1>2, <1>4

(* What SerializeToArray writes of a value. *)
Written(step, frame) ==
  (IF step # 0 THEN <<StepField(step)>> ELSE <<>>) \o
  (IF frame # Absent THEN <<FrameField(Len(frame), frame)>> ELSE <<>>)

(* What was written reads back, whatever was left out. *)
LEMMA ReadsBack ==
  ASSUME NEW step, NEW frame \in Seq(Robots) \cup {Absent}
  PROVE  LET m == MergePartialFromCodedStream(Written(step, frame))
         IN  m.step = step /\ m.frame = frame
<1>. DEFINE m == MergePartialFromCodedStream(Written(step, frame))
            a == StepField(step)
            b == FrameField(Len(frame), frame)
            number == [step |-> step, frame |-> Absent, ok |-> TRUE]
<1>1. ReadField(Unread, a) = number
  BY DEF ReadField, Unread, StepField
<1>2. ASSUME frame # Absent, NEW u, u.ok = TRUE, u.frame = Absent,
             u = [step |-> u.step, frame |-> u.frame, ok |-> u.ok]
      PROVE  ReadField(u, b) = [step |-> u.step, frame |-> frame, ok |-> TRUE]
  <2>1. Len(frame) \in Nat /\ frame \in Seq(Robots)
    BY <1>2
  <2>2. SubSeq(frame, 1, Len(frame)) = frame /\ <<>> \o frame = frame
    BY <2>1
  <2>. QED BY <1>2, <2>1, <2>2 DEF ReadField, FrameField
<1>3. CASE step = 0 /\ frame = Absent
  <2>1. Len(Written(step, frame)) = 0
    BY <1>3 DEF Written
  <2>. QED BY <1>3, <2>1, ReadNone DEF Unread
<1>4. CASE step # 0 /\ frame = Absent
  <2>1. Len(Written(step, frame)) = 1 /\ Written(step, frame)[1] = a
    BY <1>4 DEF Written
  <2>. QED BY <1>1, <1>4, <2>1, ReadOne
<1>5. CASE step = 0 /\ frame # Absent
  <2>1. Len(Written(step, frame)) = 1 /\ Written(step, frame)[1] = b
    BY <1>5 DEF Written
  <2>2. ReadField(Unread, b) = [step |-> 0, frame |-> frame, ok |-> TRUE]
    <3>1. /\ Unread.ok = TRUE /\ Unread.frame = Absent /\ Unread.step = 0
          /\ Unread = [step |-> Unread.step, frame |-> Unread.frame, ok |-> Unread.ok]
      BY DEF Unread
    <3>. HIDE DEF b
    <3>. QED BY <1>2, <1>5, <3>1
  <2>. QED BY <1>5, <2>1, <2>2, ReadOne
<1>6. CASE step # 0 /\ frame # Absent
  <2>1. /\ Len(Written(step, frame)) = 2
        /\ Written(step, frame)[1] = a /\ Written(step, frame)[2] = b
    <3>1. Written(step, frame) = <<a>> \o <<b>>
      BY <1>6 DEF Written
    <3>. HIDE DEF a, b
    <3>. QED BY <3>1
  <2>2. ReadField(number, b) = [step |-> step, frame |-> frame, ok |-> TRUE]
    <3>1. /\ number.ok = TRUE /\ number.frame = Absent /\ number.step = step
          /\ number = [step |-> number.step, frame |-> number.frame, ok |-> number.ok]
      OBVIOUS
    <3>. HIDE DEF b, number
    <3>. QED BY <1>2, <1>6, <3>1
  <2>3. MergePartialFromCodedStream(Written(step, frame)) = ReadField(number, b)
    <3>. HIDE DEF a, b, number
    <3>. QED BY <1>1, <2>1, ReadTwo
  <2>. HIDE DEF a, b
  <2>. QED BY <1>6, <2>2, <2>3
<1>. QED BY <1>3, <1>4, <1>5, <1>6

-----------------------------------------------------------------------------
(* Ownership. *)

MessageTypes ==
  /\ env = [o \in Objects |-> [step |-> env[o].step, frame |-> env[o].frame]]
  /\ \A o \in Objects : env[o].step \in Numbers /\ env[o].frame \in Cells \cup {NULL}
  /\ heap \in [Cells -> Frames \cup {Free}]
  /\ caller \in SUBSET Cells
  /\ \E n \in Numbers, f \in Seq(Robots) \cup {Absent} : wire = Written(n, f)

(* A frame in use belongs to the caller or to an object, not to both and   *)
(* to no second object; whatever somebody owns is in use.                  *)
Ownership ==
  /\ \A o \in Objects : env[o].frame # NULL =>
       heap[env[o].frame] # Free /\ env[o].frame \notin caller
  /\ \A o, p \in Objects : env[o].frame = env[p].frame => o = p \/ env[o].frame = NULL
  /\ \A c \in caller : heap[c] # Free
  /\ \A c \in Cells : heap[c] # Free => c \in caller \/ \E o \in Objects : env[o].frame = c

MessageInv == MessageTypes /\ Ownership

(* A Frame in use is no free cell, and a sequence of robots is a frame.    *)
LEMMA FrameTypes ==
  /\ \A f \in Frames : f.robots \in Seq(Robots) /\ f.cached \in Nat /\ f # Free
                       /\ f = [robots |-> f.robots, cached |-> f.cached]
  /\ \A s \in Seq(Robots) : NewFrame(s) \in Frames /\ s # Absent /\ Len(s) \in Nat
  /\ \A s \in Seq(Robots), n \in Nat : [robots |-> s, cached |-> n] \in Frames
  /\ <<>> \in Seq(Robots)
  /\ \A s, t \in Seq(Robots) : s \o t \in Seq(Robots)
  /\ NULL \notin Cells
BY MessageAssumption DEF Frames, NewFrame

LEMMA RobotTypes ==
  ASSUME MessageInv
  PROVE  /\ \A c \in Cells \cup {NULL} : (c # NULL => heap[c] # Free) => RobotsOf(c) \in Seq(Robots)
         /\ \A o \in Objects : /\ RobotsOf(env[o].frame) \in Seq(Robots)
                               /\ FrameOf(o) \in Seq(Robots) \cup {Absent}
                               /\ FrameOf(o) = Absent <=> env[o].frame = NULL
BY FrameTypes DEF MessageInv, MessageTypes, Ownership, RobotsOf, FrameOf, has_frame

LEMMA MessageStart == MessageInit => MessageInv
<1>. SUFFICES ASSUME MessageInit PROVE MessageInv
  OBVIOUS
<1>1. Len(Written(0, Absent)) = 0 /\ Written(0, Absent) = <<>>
  BY DEF Written
<1>. QED BY <1>1, MessageAssumption DEF MessageInit, Constructed, MessageInv, MessageTypes, Ownership

(* Ownership does not change when pointers and the use of cells do not.    *)
LEMMA KeptOwners ==
  ASSUME MessageInv,
         \A p \in Objects : env'[p].frame = env[p].frame,
         \A d \in Cells : heap'[d] = Free <=> heap[d] = Free,
         caller' = caller
  PROVE  Ownership'
<1>. USE DEF MessageInv, Ownership
<1>1. \A p \in Objects : env'[p].frame # NULL =>
        heap'[env'[p].frame] # Free /\ env'[p].frame \notin caller'
  <2>1. \A p \in Objects : env[p].frame # NULL =>
          heap'[env[p].frame] # Free /\ env[p].frame \notin caller'
    BY DEF MessageTypes
  <2>. QED BY <2>1
<1>2. ASSUME NEW p \in Objects, NEW q \in Objects, env'[p].frame = env'[q].frame
      PROVE  p = q \/ env'[p].frame = NULL
  <2>1. env[p].frame = env[q].frame
    BY <1>2
  <2>2. p = q \/ env[p].frame = NULL
    BY <2>1
  <2>. QED BY <2>2
<1>3. \A d \in caller' : heap'[d] # Free
  BY DEF MessageTypes
<1>4. \A d \in Cells : heap'[d] # Free => d \in caller' \/ \E p \in Objects : env'[p].frame = d
  BY DEF MessageTypes
<1>. QED BY <1>1, <1>2, <1>3, <1>4

(* The objects are records again when one of them is assigned. *)
LEMMA AssignedObject ==
  ASSUME MessageInv, NEW o \in Objects, NEW n, NEW c,
         env' = [env EXCEPT ![o] = [step |-> n, frame |-> c]]
  PROVE  /\ env'[o].step = n /\ env'[o].frame = c
         /\ \A p \in Objects \ {o} : env'[p] = env[p]
         /\ env' = [p \in Objects |-> [step |-> env'[p].step, frame |-> env'[p].frame]]
BY DEF MessageInv, MessageTypes

LEMMA SetStep ==
  ASSUME MessageInv, NEW o \in Objects, NEW n \in Numbers, set_step(o, n)
  PROVE  MessageInv'
<1>1. /\ env' = [env EXCEPT ![o] = [step |-> n, frame |-> env[o].frame]]
      /\ heap' = heap /\ caller' = caller /\ wire' = wire
  <2>1. /\ env' = [env EXCEPT ![o].step = n]
        /\ heap' = heap /\ caller' = caller /\ wire' = wire
    BY DEF set_step
  <2>2. env[o] = [step |-> env[o].step, frame |-> env[o].frame]
    BY DEF MessageInv, MessageTypes
  <2>3. [env[o] EXCEPT !.step = n] = [step |-> n, frame |-> env[o].frame]
    BY <2>2
  <2>. QED BY <2>1, <2>3
<1>2. /\ env'[o].step = n /\ env'[o].frame = env[o].frame
      /\ \A p \in Objects \ {o} : env'[p] = env[p]
      /\ env' = [p \in Objects |-> [step |-> env'[p].step, frame |-> env'[p].frame]]
  BY <1>1, AssignedObject
<1>3. MessageTypes'
  BY <1>1, <1>2 DEF MessageInv, MessageTypes
<1>4. \A p \in Objects : env'[p].frame = env[p].frame
  BY <1>2
<1>5. Ownership'
  BY <1>1, <1>4, KeptOwners
<1>. QED BY <1>3, <1>5 DEF MessageInv

(* Appending to a frame, made when there is none. *)
LEMMA AppendStep ==
  ASSUME MessageInv, NEW o \in Objects, NEW step \in Numbers, NEW add \in Seq(Robots),
         AppendTo(o, step, add)
  PROVE  MessageInv'
<1>. USE DEF MessageInv, MessageTypes, Ownership
<1>1. CASE has_frame(o)
  <2>. DEFINE c == env[o].frame
  <2>1. /\ c \in Cells /\ heap[c] \in Frames
        /\ heap' = [heap EXCEPT ![c].robots = @ \o add]
        /\ env' = [env EXCEPT ![o].step = step] /\ caller' = caller /\ wire' = wire
    BY <1>1 DEF AppendTo, has_frame
  <2>. HIDE DEF c
  <2>2. heap'[c] \in Frames /\ heap'[c] # Free
    <3>1. heap'[c] = [heap[c] EXCEPT !.robots = @ \o add]
      BY <2>1
    <3>2. /\ heap[c] = [robots |-> heap[c].robots, cached |-> heap[c].cached]
          /\ heap[c].robots \o add \in Seq(Robots) /\ heap[c].cached \in Nat
      BY <2>1, FrameTypes
    <3>3. heap'[c] = [robots |-> heap[c].robots \o add, cached |-> heap[c].cached]
      BY <3>1, <3>2
    <3>4. heap'[c] \in Frames
      BY <3>2, <3>3 DEF Frames
    <3>. QED BY <3>4, MessageAssumption
  <2>3. /\ heap' \in [Cells -> Frames \cup {Free}]
        /\ \A d \in Cells : heap'[d] = Free <=> heap[d] = Free
    BY <2>1, <2>2, FrameTypes
  <2>4. /\ \A p \in Objects : env'[p].frame = env[p].frame /\ env'[p].step \in Numbers
        /\ env' = [p \in Objects |-> [step |-> env'[p].step, frame |-> env'[p].frame]]
    <3>1. /\ env'[o] = [step |-> step, frame |-> env[o].frame]
          /\ \A p \in Objects \ {o} : env'[p] = env[p]
          /\ env' = [p \in Objects |-> env'[p]]
      BY <2>1
    <3>2. \A p \in Objects : env'[p] = [step |-> env'[p].step, frame |-> env'[p].frame]
      BY <3>1
    <3>. QED BY <3>1, <3>2
  <2>5. MessageTypes'
    BY <2>1, <2>3, <2>4
  <2>6. Ownership'
    BY <2>1, <2>3, <2>4, KeptOwners
  <2>. QED BY <2>5, <2>6
<1>2. CASE ~ has_frame(o)
  <2>1. PICK c \in Cells :
           /\ heap[c] = Free
           /\ heap' = [heap EXCEPT ![c] = NewFrame(add)]
           /\ env' = [env EXCEPT ![o] = [step |-> step, frame |-> c]]
           /\ caller' = caller /\ wire' = wire
    BY <1>2 DEF AppendTo
  <2>2. heap'[c] \in Frames /\ heap'[c] # Free /\ env[o].frame = NULL /\ c # NULL
    BY <1>2, <2>1, FrameTypes DEF has_frame
  <2>3. /\ heap' \in [Cells -> Frames \cup {Free}]
        /\ \A d \in Cells \ {c} : heap'[d] = heap[d]
    BY <2>1, <2>2
  <2>4. /\ env'[o].frame = c /\ env'[o].step = step
        /\ \A p \in Objects \ {o} : env'[p] = env[p]
        /\ env' = [p \in Objects |-> [step |-> env'[p].step, frame |-> env'[p].frame]]
    BY <2>1
  <2>5. MessageTypes'
    BY <2>1, <2>3, <2>4
  <2>6. Ownership'
    <3>1. \A p \in Objects : env'[p].frame # NULL =>
            heap'[env'[p].frame] # Free /\ env'[p].frame \notin caller'
      BY <2>1, <2>2, <2>3, <2>4
    <3>2. \A p \in Objects \ {o} : env[p].frame # c
      BY <2>1, <2>2
    <3>3. \A p, q \in Objects : env'[p].frame = env'[q].frame => p = q \/ env'[p].frame = NULL
      BY <2>4, <3>2
    <3>4. \A d \in caller' : heap'[d] # Free
      BY <2>1, <2>2, <2>3
    <3>5. ASSUME NEW d \in Cells, heap'[d] # Free, d \notin caller
          PROVE  \E p \in Objects : env'[p].frame = d
      <4>1. CASE d = c
        BY <2>4, <4>1
      <4>2. CASE d # c
        <5>1. heap[d] # Free
          BY <2>3, <3>5, <4>2
        <5>2. PICK p \in Objects : env[p].frame = d
          BY <3>5, <5>1
        <5>3. p # o
          BY <2>2, <5>1, <5>2, FrameTypes
        <5>. QED BY <2>4, <5>2, <5>3
      <4>. QED BY <4>1, <4>2
    <3>. QED BY <2>1, <3>1, <3>3, <3>4, <3>5
  <2>. QED BY <2>5, <2>6
<1>. QED BY <1>1, <1>2

(* Refilling an object: its frame is deleted, a new one may be made.       *)
LEMMA RefillStep ==
  ASSUME MessageInv, NEW o \in Objects, NEW step \in Numbers,
         NEW frame \in Seq(Robots) \cup {Absent}, Refill(o, step, frame)
  PROVE  MessageInv'
<1>. USE DEF MessageInv, MessageTypes, Ownership
<1>. DEFINE old == env[o].frame
            cleared == Deleted(old)
<1>1. /\ cleared \in [Cells -> Frames \cup {Free}]
      /\ \A d \in Cells : cleared[d] = IF d = old THEN Free ELSE heap[d]
      /\ caller' = caller /\ wire' = wire
  BY FrameTypes DEF Deleted, Refill
<1>2. Refill(o, step, frame) =
        (/\ IF frame = Absent
              THEN heap' = cleared /\ env' = [env EXCEPT ![o] = [step |-> step, frame |-> NULL]]
              ELSE \E c \in Cells :
                     /\ cleared[c] = Free
                     /\ heap' = [cleared EXCEPT ![c] = NewFrame(frame)]
                     /\ env' = [env EXCEPT ![o] = [step |-> step, frame |-> c]]
         /\ UNCHANGED <<caller, wire>>)
  BY DEF Refill
<1>. HIDE DEF cleared
<1>3. old \notin caller
  BY FrameTypes
<1>4. CASE frame = Absent
  <2>1. heap' = cleared /\ env' = [env EXCEPT ![o] = [step |-> step, frame |-> NULL]]
    BY <1>2, <1>4
  <2>2. /\ env'[o].frame = NULL /\ env'[o].step = step
        /\ \A p \in Objects \ {o} : env'[p] = env[p]
        /\ env' = [p \in Objects |-> [step |-> env'[p].step, frame |-> env'[p].frame]]
    BY <2>1
  <2>3. MessageTypes'
    BY <1>1, <2>1, <2>2
  <2>4. Ownership'
    <3>1. \A p \in Objects : env'[p].frame # NULL =>
            heap'[env'[p].frame] # Free /\ env'[p].frame \notin caller'
      BY <1>1, <2>1, <2>2
    <3>2. \A p, q \in Objects : env'[p].frame = env'[q].frame => p = q \/ env'[p].frame = NULL
      BY <2>2
    <3>3. \A d \in caller' : heap'[d] # Free
      BY <1>1, <1>3, <2>1
    <3>4. \A d \in Cells : heap'[d] # Free => d \in caller' \/ \E p \in Objects : env'[p].frame = d
      BY <1>1, <2>1, <2>2
    <3>. QED BY <3>1, <3>2, <3>3, <3>4
  <2>. QED BY <2>3, <2>4
<1>5. CASE frame # Absent
  <2>1. PICK c \in Cells :
           /\ cleared[c] = Free
           /\ heap' = [cleared EXCEPT ![c] = NewFrame(frame)]
           /\ env' = [env EXCEPT ![o] = [step |-> step, frame |-> c]]
    BY <1>2, <1>5
  <2>2. heap'[c] \in Frames /\ heap'[c] # Free /\ c # NULL
    BY <1>1, <1>5, <2>1, FrameTypes
  <2>3. /\ heap' \in [Cells -> Frames \cup {Free}]
        /\ \A d \in Cells \ {c} : heap'[d] = cleared[d]
    BY <1>1, <2>1, <2>2
  <2>4. /\ env'[o].frame = c /\ env'[o].step = step
        /\ \A p \in Objects \ {o} : env'[p] = env[p]
        /\ env' = [p \in Objects |-> [step |-> env'[p].step, frame |-> env'[p].frame]]
    BY <2>1
  <2>5. MessageTypes'
    BY <1>1, <2>1, <2>3, <2>4
  <2>6. \A p \in Objects \ {o} : env[p].frame # c
    BY <1>1, <2>1, <2>2
  <2>7. c \notin caller
    BY <1>1, <1>3, <2>1
  <2>8. Ownership'
    <3>1. \A p \in Objects : env'[p].frame # NULL =>
            heap'[env'[p].frame] # Free /\ env'[p].frame \notin caller'
      BY <1>1, <2>2, <2>3, <2>4, <2>6, <2>7
    <3>2. \A p, q \in Objects : env'[p].frame = env'[q].frame => p = q \/ env'[p].frame = NULL
      BY <2>4, <2>6
    <3>3. \A d \in caller' : heap'[d] # Free
      BY <1>1, <1>3, <2>2, <2>3, <2>7
    <3>4. ASSUME NEW d \in Cells, heap'[d] # Free, d \notin caller
          PROVE  \E p \in Objects : env'[p].frame = d
      <4>1. CASE d = c
        BY <2>4, <4>1
      <4>2. CASE d # c
        <5>1. d # old /\ heap[d] # Free
          BY <1>1, <2>3, <3>4, <4>2
        <5>2. PICK p \in Objects : env[p].frame = d
          BY <3>4, <5>1
        <5>3. p # o
          BY <5>1, <5>2
        <5>. QED BY <2>4, <5>2, <5>3
      <4>. QED BY <4>1, <4>2
    <3>. QED BY <1>1, <3>1, <3>2, <3>3, <3>4
  <2>. QED BY <2>5, <2>8
<1>. QED BY <1>4, <1>5

(* What a message reads to has the types of a value. *)
LEMMA ReadTypes ==
  ASSUME MessageInv, NEW w \in Datagrams \cup {wire}
  PROVE  LET m == MergePartialFromCodedStream(w)
         IN  m.step \in Numbers /\ m.frame \in Seq(Robots) \cup {Absent}
<1>1. CASE w \in Datagrams
  <2>. DEFINE m == MergePartialFromCodedStream(w)
              v == Contents[w]
  <2>1. /\ v.step \in Numbers /\ v.frame \in Seq(Robots) \cup {Absent}
        /\ w \in Whole => v.step = m.step /\ v.frame = m.frame
        /\ w \notin Whole =>
             /\ v.frame # Absent /\ m.step \in {0, v.step}
             /\ m.frame = Absent \/ \E k \in 0 .. Len(v.frame) : m.frame = SubSeq(v.frame, 1, k)
    BY <1>1, ContentsAssumption
  <2>. HIDE DEF m, v
  <2>2. v.frame # Absent => \A k \in 0 .. Len(v.frame) : SubSeq(v.frame, 1, k) \in Seq(Robots)
    BY <2>1
  <2>3. m.step \in Numbers /\ m.frame \in Seq(Robots) \cup {Absent}
    BY <2>1, <2>2, MessageAssumption
  <2>. QED BY <2>3 DEF m
<1>2. CASE w = wire
  BY <1>2, ReadsBack DEF MessageInv, MessageTypes
<1>. QED BY <1>1, <1>2

LEMMA ParseStep ==
  ASSUME MessageInv, NEW o \in Objects, NEW w \in Datagrams \cup {wire}, ParseFromArray(o, w)
  PROVE  MessageInv'
<1>. DEFINE m == MergePartialFromCodedStream(w)
<1>1. m.step \in Numbers /\ m.frame \in Seq(Robots) \cup {Absent}
  BY ReadTypes
<1>2. Refill(o, m.step, m.frame)
  BY DEF ParseFromArray
<1>. HIDE DEF m
<1>. QED BY <1>1, <1>2, RefillStep

LEMMA MergeStep ==
  ASSUME MessageInv, NEW o \in Objects, NEW from \in Objects, MergeFrom(o, from)
  PROVE  MessageInv'
<1>. DEFINE step == IF env[from].step # 0 THEN env[from].step ELSE env[o].step
<1>1. step \in Numbers
  BY DEF MessageInv, MessageTypes
<1>2. CASE has_frame(from)
  <2>1. AppendTo(o, step, RobotsOf(env[from].frame))
    BY <1>2 DEF MergeFrom
  <2>. HIDE DEF step
  <2>. QED BY <1>1, <2>1, RobotTypes, AppendStep
<1>3. CASE ~ has_frame(from)
  <2>1. set_step(o, step)
    BY <1>3 DEF MergeFrom
  <2>. HIDE DEF step
  <2>. QED BY <1>1, <2>1, SetStep
<1>. QED BY <1>2, <1>3

LEMMA CopyStep ==
  ASSUME MessageInv, NEW o \in Objects, NEW from \in Objects, CopyFrom(o, from)
  PROVE  MessageInv'
<1>1. CASE o = from
  <2>1. env' = env /\ heap' = heap /\ caller' = caller /\ wire' = wire
    BY <1>1 DEF CopyFrom, messageVars
  <2>2. Ownership'
    BY <2>1, KeptOwners
  <2>. QED BY <2>1, <2>2 DEF MessageInv, MessageTypes
<1>2. CASE o # from
  <2>1. Refill(o, env[from].step, FrameOf(from)) /\ env[from].step \in Numbers
    BY <1>2 DEF CopyFrom, MessageInv, MessageTypes
  <2>. QED BY <2>1, RobotTypes, RefillStep
<1>. QED BY <1>1, <1>2

LEMMA SwapStep ==
  ASSUME MessageInv, NEW o \in Objects, NEW other \in Objects, Swap(o, other)
  PROVE  MessageInv'
<1>. USE DEF MessageInv
<1>. DEFINE from(p) == IF p = o THEN other ELSE IF p = other THEN o ELSE p
<1>1. /\ heap' = heap /\ caller' = caller /\ wire' = wire
      /\ \A p \in Objects : from(p) \in Objects /\ env'[p] = env[from(p)] /\ from(from(p)) = p
      /\ env' = [p \in Objects |-> env'[p]]
  BY DEF Swap, MessageTypes
<1>. HIDE DEF from
<1>2. /\ \A p \in Objects : env'[p].frame = env[from(p)].frame /\ env'[p].step = env[from(p)].step
      /\ env' = [p \in Objects |-> [step |-> env'[p].step, frame |-> env'[p].frame]]
  <2>1. \A p \in Objects : env[p] = [step |-> env[p].step, frame |-> env[p].frame]
    BY DEF MessageTypes
  <2>2. ASSUME NEW p \in Objects
        PROVE  /\ env'[p] = [step |-> env'[p].step, frame |-> env'[p].frame]
               /\ env'[p].frame = env[from(p)].frame /\ env'[p].step = env[from(p)].step
    <3>1. /\ env'[p] = env[from(p)]
          /\ env[from(p)] = [step |-> env[from(p)].step, frame |-> env[from(p)].frame]
      BY <1>1, <2>1
    <3>. QED BY <3>1
  <2>. QED BY <1>1, <2>2
<1>3. MessageTypes'
  BY <1>1, <1>2 DEF MessageTypes
<1>4. Ownership'
  <2>1. \A p \in Objects : env'[p].frame # NULL =>
          heap'[env'[p].frame] # Free /\ env'[p].frame \notin caller'
    <3>1. \A p \in Objects : env[from(p)].frame # NULL =>
            heap'[env[from(p)].frame] # Free /\ env[from(p)].frame \notin caller'
      BY <1>1 DEF Ownership
    <3>2. \A p \in Objects : env'[p].frame = env[from(p)].frame
      BY <1>2
    <3>. QED BY <3>1, <3>2
  <2>2. ASSUME NEW p \in Objects, NEW q \in Objects, env'[p].frame = env'[q].frame
        PROVE  p = q \/ env'[p].frame = NULL
    <3>1. env[from(p)].frame = env[from(q)].frame /\ from(p) \in Objects /\ from(q) \in Objects
      BY <1>1, <1>2, <2>2
    <3>2. from(p) = from(q) \/ env[from(p)].frame = NULL
      BY <3>1 DEF Ownership
    <3>3. env'[p].frame = env[from(p)].frame /\ p = from(from(p)) /\ q = from(from(q))
      BY <1>1, <1>2
    <3>. QED BY <3>2, <3>3
  <2>3. ASSUME NEW d \in Cells, heap[d] # Free, d \notin caller
        PROVE  \E p \in Objects : env'[p].frame = d
    <3>1. PICK p \in Objects : env[p].frame = d
      BY <2>3 DEF Ownership
    <3>2. from(p) \in Objects /\ env'[from(p)].frame = d
      BY <1>1, <1>2, <3>1
    <3>. QED BY <3>2
  <2>. QED BY <1>1, <2>1, <2>2, <2>3 DEF Ownership
<1>. QED BY <1>3, <1>4

(* ByteSize() touches nothing but the cached size of the frame; with it    *)
(* the value is written.                                                   *)
LEMMA SizeCached ==
  ASSUME MessageInv, NEW o \in Objects, heap' = ByteSized(o)
  PROVE  /\ heap' \in [Cells -> Frames \cup {Free}]
         /\ \A d \in Cells : heap'[d] = Free <=> heap[d] = Free
         /\ \A d \in Cells : heap[d] # Free => heap'[d].robots = heap[d].robots
         /\ Serialized(o, heap') = Written(env[o].step, FrameOf(o))
<1>1. heap' = ByteSized(o)
  OBVIOUS
<1>2. heap \in [Cells -> Frames \cup {Free}]
  BY DEF MessageInv, MessageTypes
<1>3. CASE ~ has_frame(o)
  <2>1. heap' = heap
    BY <1>1, <1>3 DEF ByteSized
  <2>2. Serialized(o, heap') = Written(env[o].step, FrameOf(o))
    BY <1>3 DEF Serialized, Written, FrameOf
  <2>. QED BY <1>2, <2>1, <2>2
<1>4. CASE has_frame(o)
  <2>. DEFINE c == env[o].frame
              robots == heap[c].robots
  <2>1. c \in Cells /\ heap[c] \in Frames /\ c # NULL
    BY <1>4, <1>2, FrameTypes DEF MessageInv, MessageTypes, Ownership, has_frame
  <2>2. heap' = [heap EXCEPT ![c].cached = Len(robots)]
    BY <1>1, <1>4 DEF ByteSized
  <2>3. /\ heap[c] = [robots |-> robots, cached |-> heap[c].cached]
        /\ robots \in Seq(Robots) /\ robots # Absent /\ Len(robots) \in Nat
    BY <2>1, FrameTypes
  <2>4. heap'[c] = [robots |-> robots, cached |-> Len(robots)]
    BY <1>2, <2>1, <2>2, <2>3
  <2>5. \A d \in Cells \ {c} : heap'[d] = heap[d]
    BY <1>2, <2>2
  <2>6. heap'[c] \in Frames
    BY <2>3, <2>4 DEF Frames
  <2>7. FrameOf(o) = robots
    BY <1>4, <2>1 DEF FrameOf, RobotsOf
  <2>8. Serialized(o, heap') = Written(env[o].step, FrameOf(o))
    <3>1. Serialized(o, heap') =
            (IF env[o].step # 0 THEN <<StepField(env[o].step)>> ELSE <<>>) \o
              <<FrameField(heap'[c].cached, heap'[c].robots)>>
      BY <1>4 DEF Serialized
    <3>2. heap'[c].cached = Len(robots) /\ heap'[c].robots = robots
      BY <2>4
    <3>. HIDE DEF c, robots
    <3>. QED BY <2>3, <2>7, <3>1, <3>2 DEF Written
  <2>9. heap' = [d \in Cells |-> heap'[d]]
    BY <1>2, <2>2
  <2>10. heap' \in [Cells -> Frames \cup {Free}]
    BY <1>2, <2>5, <2>6, <2>9
  <2>11. \A d \in Cells : heap'[d] = Free <=> heap[d] = Free
    BY <2>1, <2>5, <2>6, MessageAssumption
  <2>12. \A d \in Cells : heap[d] # Free => heap'[d].robots = heap[d].robots
    BY <2>4, <2>5
  <2>. QED BY <2>8, <2>10, <2>11, <2>12
<1>. QED BY <1>3, <1>4

LEMMA Serialization ==
  ASSUME MessageInv, NEW o \in Objects, SerializeToArray(o)
  PROVE  /\ heap' \in [Cells -> Frames \cup {Free}]
         /\ \A d \in Cells : heap'[d] = Free <=> heap[d] = Free
         /\ \A d \in Cells : heap[d] # Free => heap'[d].robots = heap[d].robots
         /\ wire' = Written(env[o].step, FrameOf(o))
         /\ env' = env /\ caller' = caller
BY SizeCached DEF SerializeToArray

LEMMA SerializeStep ==
  ASSUME MessageInv, NEW o \in Objects, SerializeToArray(o)
  PROVE  MessageInv'
<1>1. Ownership'
  BY Serialization, KeptOwners
<1>2. MessageTypes'
  <2>1. env[o].step \in Numbers /\ FrameOf(o) \in Seq(Robots) \cup {Absent}
    BY RobotTypes DEF MessageInv, MessageTypes
  <2>2. \E n \in Numbers, f \in Seq(Robots) \cup {Absent} : wire' = Written(n, f)
    BY <2>1, Serialization
  <2>3. env' = env /\ caller' = caller /\ heap' \in [Cells -> Frames \cup {Free}]
    BY Serialization
  <2>. QED BY <2>2, <2>3 DEF MessageInv, MessageTypes
<1>. QED BY <1>1, <1>2 DEF MessageInv

LEMMA RefusedStep ==
  ASSUME MessageInv, NEW o \in Objects, SerializeRefused(o)
  PROVE  MessageInv'
<1>1. heap' = ByteSized(o) /\ env' = env /\ caller' = caller /\ wire' = wire
  BY DEF SerializeRefused
<1>2. Ownership'
  BY <1>1, SizeCached, KeptOwners
<1>3. heap' \in [Cells -> Frames \cup {Free}]
  BY <1>1, SizeCached
<1>. QED BY <1>1, <1>2, <1>3 DEF MessageInv, MessageTypes

(* A new object is one that was cleared, and giving it no frame clears its *)
(* frame.                                                                  *)
LEMMA RenewRefills ==
  ASSUME NEW o \in Objects, Renew(o)
  PROVE  Refill(o, 0, Absent)
BY DEF Renew, Refill, Constructed

LEMMA NoFrameRefills ==
  ASSUME MessageInv, NEW o \in Objects, set_allocated_frame(o, NULL)
  PROVE  env[o].step \in Numbers /\ Refill(o, env[o].step, Absent)
<1>1. /\ env[o] = [step |-> env[o].step, frame |-> env[o].frame]
      /\ env[o].step \in Numbers /\ caller \subseteq Cells
  BY DEF MessageInv, MessageTypes
<1>2. caller' = caller
  BY <1>1, MessageAssumption DEF set_allocated_frame
<1>3. [env[o] EXCEPT !.frame = NULL] = [step |-> env[o].step, frame |-> NULL]
  BY <1>1
<1>. QED BY <1>1, <1>2, <1>3 DEF set_allocated_frame, Refill

LEMMA ReleaseStep ==
  ASSUME MessageInv, NEW o \in Objects, release_frame(o)
  PROVE  MessageInv'
<1>. DEFINE c == env[o].frame
<1>1. /\ env' = [env EXCEPT ![o] = [step |-> env[o].step, frame |-> NULL]]
      /\ caller' = caller \cup ({c} \ {NULL}) /\ heap' = heap /\ wire' = wire
  <2>1. env[o] = [step |-> env[o].step, frame |-> env[o].frame]
    BY DEF MessageInv, MessageTypes
  <2>2. [env[o] EXCEPT !.frame = NULL] = [step |-> env[o].step, frame |-> NULL]
    BY <2>1
  <2>. QED BY <2>2 DEF release_frame
<1>2. /\ env'[o].step = env[o].step /\ env'[o].frame = NULL
      /\ \A p \in Objects \ {o} : env'[p] = env[p]
      /\ env' = [p \in Objects |-> [step |-> env'[p].step, frame |-> env'[p].frame]]
  BY <1>1, AssignedObject
<1>3. MessageTypes'
  <2>1. caller' \in SUBSET Cells
    BY <1>1 DEF MessageInv, MessageTypes
  <2>. QED BY <1>1, <1>2, <2>1 DEF MessageInv, MessageTypes
<1>4. Ownership'
  <2>. USE DEF MessageInv, Ownership
  <2>1. \A p \in Objects \ {o} : env[p].frame # NULL =>
          heap[env[p].frame] # Free /\ env[p].frame \notin caller'
    BY <1>1
  <2>2. \A p \in Objects : env'[p].frame # NULL =>
          heap'[env'[p].frame] # Free /\ env'[p].frame \notin caller'
    BY <1>1, <1>2, <2>1
  <2>3. \A p, q \in Objects : env'[p].frame = env'[q].frame => p = q \/ env'[p].frame = NULL
    BY <1>2
  <2>4. \A d \in caller' : heap'[d] # Free
    BY <1>1
  <2>5. ASSUME NEW d \in Cells, heap'[d] # Free, d \notin caller'
        PROVE  \E p \in Objects : env'[p].frame = d
    <3>1. PICK p \in Objects : env[p].frame = d
      BY <1>1, <2>5
    <3>2. p # o
      BY <1>1, <2>5, <3>1, FrameTypes
    <3>. QED BY <1>2, <3>1, <3>2
  <2>. QED BY <2>2, <2>3, <2>4, <2>5
<1>. QED BY <1>3, <1>4 DEF MessageInv

LEMMA SetAllocatedStep ==
  ASSUME MessageInv, NEW o \in Objects, NEW c \in Cells, set_allocated_frame(o, c)
  PROVE  MessageInv'
<1>. DEFINE old == env[o].frame
<1>1. /\ env' = [env EXCEPT ![o] = [step |-> env[o].step, frame |-> c]]
      /\ c \in caller /\ caller' = caller \ {c} /\ wire' = wire /\ heap' = Deleted(old)
  <2>1. env[o] = [step |-> env[o].step, frame |-> env[o].frame]
    BY DEF MessageInv, MessageTypes
  <2>2. [env[o] EXCEPT !.frame = c] = [step |-> env[o].step, frame |-> c]
    BY <2>1
  <2>. QED BY <2>2, MessageAssumption DEF set_allocated_frame
<1>2. /\ env'[o].step = env[o].step /\ env'[o].frame = c
      /\ \A p \in Objects \ {o} : env'[p] = env[p]
      /\ env' = [p \in Objects |-> [step |-> env'[p].step, frame |-> env'[p].frame]]
  BY <1>1, AssignedObject
<1>3. /\ heap' \in [Cells -> Frames \cup {Free}]
      /\ \A d \in Cells : heap'[d] = IF d = old THEN Free ELSE heap[d]
  BY <1>1, FrameTypes DEF MessageInv, MessageTypes, Deleted
<1>4. MessageTypes'
  BY <1>1, <1>2, <1>3 DEF MessageInv, MessageTypes
<1>5. c # old /\ heap[c] # Free /\ c # NULL /\ \A p \in Objects : env[p].frame # c
  BY <1>1, FrameTypes DEF MessageInv, Ownership
<1>6. Ownership'
  <2>. USE DEF MessageInv, Ownership
  <2>1. \A p \in Objects : env'[p].frame # NULL =>
          heap'[env'[p].frame] # Free /\ env'[p].frame \notin caller'
    <3>1. \A p \in Objects \ {o} : env[p].frame # NULL =>
            heap'[env[p].frame] # Free /\ env[p].frame \notin caller'
      BY <1>1, <1>3 DEF MessageTypes
    <3>. QED BY <1>1, <1>2, <1>3, <1>5, <3>1
  <2>2. \A p, q \in Objects : env'[p].frame = env'[q].frame => p = q \/ env'[p].frame = NULL
    BY <1>2, <1>5
  <2>3. \A d \in caller' : heap'[d] # Free
    <3>1. old \notin caller
      BY FrameTypes DEF MessageTypes
    <3>. QED BY <1>1, <1>3, <3>1 DEF MessageTypes
  <2>4. ASSUME NEW d \in Cells, heap'[d] # Free, d \notin caller'
        PROVE  \E p \in Objects : env'[p].frame = d
    <3>1. CASE d = c
      BY <1>2, <3>1
    <3>2. CASE d # c
      <4>1. d # old /\ heap[d] # Free /\ d \notin caller
        BY <1>1, <1>3, <2>4, <3>2
      <4>2. PICK p \in Objects : env[p].frame = d
        BY <4>1
      <4>. QED BY <1>2, <4>1, <4>2
    <3>. QED BY <3>1, <3>2
  <2>. QED BY <2>1, <2>2, <2>3, <2>4
<1>. QED BY <1>4, <1>6 DEF MessageInv

LEMMA CopyOutStep ==
  ASSUME MessageInv, NEW o \in Objects, NEW c \in Cells, CopyOut(o, c)
  PROVE  MessageInv'
<1>1. /\ heap[c] = Free /\ heap' = [heap EXCEPT ![c] = NewFrame(RobotsOf(env[o].frame))]
      /\ caller' = caller \cup {c} /\ env' = env /\ wire' = wire
  BY DEF CopyOut
<1>2. heap'[c] \in Frames /\ heap'[c] # Free /\ \A d \in Cells \ {c} : heap'[d] = heap[d]
  BY <1>1, RobotTypes, FrameTypes DEF MessageInv, MessageTypes
<1>3. heap' \in [Cells -> Frames \cup {Free}]
  BY <1>1, <1>2 DEF MessageInv, MessageTypes
<1>4. MessageTypes'
  BY <1>1, <1>3 DEF MessageInv, MessageTypes
<1>5. Ownership'
  <2>. USE DEF MessageInv, Ownership
  <2>1. \A p \in Objects : env[p].frame # NULL =>
          heap'[env[p].frame] # Free /\ env[p].frame \notin caller'
    BY <1>1, <1>2 DEF MessageTypes
  <2>2. \A d \in caller' : heap'[d] # Free
    BY <1>1, <1>2 DEF MessageTypes
  <2>3. \A d \in Cells : heap'[d] # Free => d \in caller' \/ \E p \in Objects : env[p].frame = d
    BY <1>1, <1>2
  <2>. QED BY <1>1, <2>1, <2>2, <2>3
<1>. QED BY <1>4, <1>5 DEF MessageInv

LEMMA DropStep ==
  ASSUME MessageInv, NEW c \in Cells, Drop(c)
  PROVE  MessageInv'
<1>1. /\ c \in caller /\ c # NULL /\ caller' = caller \ {c} /\ env' = env /\ wire' = wire
      /\ heap' = [heap EXCEPT ![c] = Free]
  BY FrameTypes DEF Drop, Deleted
<1>2. /\ heap' \in [Cells -> Frames \cup {Free}]
      /\ \A d \in Cells : heap'[d] = IF d = c THEN Free ELSE heap[d]
  BY <1>1 DEF MessageInv, MessageTypes
<1>3. MessageTypes'
  BY <1>1, <1>2 DEF MessageInv, MessageTypes
<1>4. Ownership'
  <2>. USE DEF MessageInv, Ownership
  <2>1. \A p \in Objects : env[p].frame # NULL =>
          heap'[env[p].frame] # Free /\ env[p].frame \notin caller'
    BY <1>1, <1>2 DEF MessageTypes
  <2>2. \A d \in caller' : heap'[d] # Free
    BY <1>1, <1>2 DEF MessageTypes
  <2>3. \A d \in Cells : heap'[d] # Free => d \in caller' \/ \E p \in Objects : env[p].frame = d
    BY <1>1, <1>2
  <2>. QED BY <1>1, <2>1, <2>2, <2>3
<1>. QED BY <1>3, <1>4 DEF MessageInv

LEMMA MessageStep == MessageInv /\ [MessageNext]_messageVars => MessageInv'
<1>. SUFFICES ASSUME MessageInv, [MessageNext]_messageVars PROVE MessageInv'
  OBVIOUS
<1>1. ASSUME NEW o \in Objects, NEW n \in Numbers, set_step(o, n) PROVE MessageInv'
  BY <1>1, SetStep
<1>2. ASSUME NEW o \in Objects, NEW r \in Robots, add_robots_blue(o, r) PROVE MessageInv'
  <2>1. <<r>> \in Seq(Robots) /\ env[o].step \in Numbers
    BY DEF MessageInv, MessageTypes
  <2>. QED BY <1>2, <2>1, AppendStep DEF add_robots_blue
<1>3. ASSUME NEW o \in Objects, Clear(o) PROVE MessageInv'
  BY <1>3, RefillStep, MessageAssumption DEF Clear
<1>4. ASSUME NEW o \in Objects, SerializeToArray(o) PROVE MessageInv'
  BY <1>4, SerializeStep
<1>5. ASSUME NEW o \in Objects, release_frame(o) PROVE MessageInv'
  BY <1>5, ReleaseStep
<1>6. ASSUME NEW o \in Objects, NEW from \in Objects, MergeFrom(o, from) PROVE MessageInv'
  BY <1>6, MergeStep
<1>7. ASSUME NEW o \in Objects, NEW from \in Objects, CopyFrom(o, from) PROVE MessageInv'
  BY <1>7, CopyStep
<1>8. ASSUME NEW o \in Objects, NEW from \in Objects, Swap(o, from) PROVE MessageInv'
  BY <1>8, SwapStep
<1>9. ASSUME NEW o \in Objects, NEW c \in Cells, set_allocated_frame(o, c) PROVE MessageInv'
  BY <1>9, SetAllocatedStep
<1>10. ASSUME NEW o \in Objects, NEW c \in Cells, CopyOut(o, c) PROVE MessageInv'
  BY <1>10, CopyOutStep
<1>11. ASSUME NEW o \in Objects, NEW w \in Datagrams \cup {wire}, ParseFromArray(o, w)
       PROVE  MessageInv'
  BY <1>11, ParseStep
<1>12. ASSUME NEW c \in Cells, Drop(c) PROVE MessageInv'
  BY <1>12, DropStep
<1>13. ASSUME NEW o \in Objects, Renew(o) PROVE MessageInv'
  BY <1>13, RenewRefills, RefillStep, MessageAssumption
<1>14. ASSUME NEW o \in Objects, SerializeRefused(o) PROVE MessageInv'
  BY <1>14, RefusedStep
<1>15. ASSUME NEW o \in Objects, set_allocated_frame(o, NULL) PROVE MessageInv'
  BY <1>15, NoFrameRefills, RefillStep
<1>16. ASSUME UNCHANGED messageVars PROVE MessageInv'
  BY <1>16, KeptOwners DEF messageVars, MessageInv, MessageTypes
<1>. QED BY <1>1, <1>2, <1>3, <1>4, <1>5, <1>6, <1>7, <1>8, <1>9, <1>10, <1>11, <1>12, <1>13,
            <1>14, <1>15, <1>16 DEF MessageNext

LEMMA MessageInvariant == MessageSpec => []MessageInv
BY MessageStart, MessageStep, PTL DEF MessageSpec

(* Every Frame has exactly one owner, an object or the caller, and a freed *)
(* one none, for any number of objects, Frames and robots: no method leaks *)
(* a Frame, deletes one twice or shares one.                               *)
THEOREM FramesHaveOneOwner == MessageSpec => []FramesOwnedOnce
<1>1. ASSUME MessageInv, NEW c \in Cells
      PROVE  Cardinality(Owners(c)) = (IF heap[c] = Free THEN 0 ELSE 1)
  <2>. USE <1>1 DEF MessageInv, Ownership
  <2>1. CASE heap[c] = Free
    <3>1. Owners(c) = {}
      BY <2>1, FrameTypes DEF Owners
    <3>. QED BY <2>1, <3>1, FS_EmptySet
  <2>2. CASE heap[c] # Free /\ c \in caller
    <3>1. Owners(c) = {"caller"}
      BY <2>2, FrameTypes DEF Owners
    <3>. QED BY <2>2, <3>1, FS_Singleton
  <2>3. CASE heap[c] # Free /\ c \notin caller
    <3>1. PICK o \in Objects : env[o].frame = c
      BY <2>3
    <3>2. Owners(c) = {o}
      BY <2>3, <3>1, FrameTypes DEF Owners
    <3>. QED BY <2>3, <3>2, FS_Singleton
  <2>. QED BY <2>1, <2>2, <2>3
<1>2. MessageInv => FramesOwnedOnce
  BY <1>1 DEF FramesOwnedOnce
<1>. QED BY <1>2, MessageInvariant, PTL

-----------------------------------------------------------------------------
(* The values. *)

(* An action leaves the values of all objects but o alone, the Frames of   *)
(* the caller and what was sent.                                           *)
Untouched(o) ==
  /\ \A p \in Objects \ {o} : env'[p].step = env[p].step /\ FrameOf(p)' = FrameOf(p)
  /\ caller' = caller /\ wire' = wire
  /\ \A c \in caller : heap'[c].robots = heap[c].robots

(* It does if it writes into no Frame in use but that of o. *)
LEMMA UntouchedOthers ==
  ASSUME MessageInv, NEW o \in Objects,
         \A p \in Objects \ {o} : env'[p].step = env[p].step /\ env'[p].frame = env[p].frame,
         caller' = caller, wire' = wire,
         \A d \in Cells : heap[d] # Free /\ d # env[o].frame => heap'[d].robots = heap[d].robots
  PROVE  Untouched(o)
<1>1. ASSUME NEW p \in Objects \ {o} PROVE FrameOf(p)' = FrameOf(p)
  <2>. DEFINE c == env[p].frame
  <2>1. CASE c = NULL
    BY <2>1 DEF FrameOf, has_frame
  <2>2. CASE c # NULL
    <3>1. c \in Cells /\ heap[c] # Free /\ c # env[o].frame
      BY <2>2 DEF MessageInv, MessageTypes, Ownership
    <3>2. heap'[c].robots = heap[c].robots
      BY <3>1
    <3>. QED BY <2>2, <3>2 DEF FrameOf, has_frame, RobotsOf
  <2>. QED BY <2>1, <2>2
<1>2. ASSUME NEW c \in caller PROVE heap'[c].robots = heap[c].robots
  <2>1. c \in Cells /\ heap[c] # Free /\ c # env[o].frame
    BY FrameTypes DEF MessageInv, MessageTypes, Ownership
  <2>. QED BY <2>1
<1>. QED BY <1>1, <1>2 DEF Untouched

(* The variables of MessageValue. *)
value == [o \in Objects |-> [step |-> env[o].step, frame |-> FrameOf(o)]]
held == [c \in Cells |-> IF c \in caller THEN heap[c].robots ELSE Absent]
sent == LET m == MergePartialFromCodedStream(wire)
        IN  [step |-> m.step, frame |-> m.frame]

(* What MessageValue calls assigning: the object has the new value, the    *)
(* others and the caller's Frames are as they were.                        *)
LEMMA AssignedValue ==
  ASSUME MessageInv, NEW o \in Objects, NEW n, NEW f, Untouched(o),
         env'[o].step = n, FrameOf(o)' = f
  PROVE  /\ value' = [value EXCEPT ![o] = [step |-> n, frame |-> f]]
         /\ held' = held /\ sent' = sent
<1>1. value' = [value EXCEPT ![o] = [step |-> n, frame |-> f]]
  <2>1. value'[o] = [step |-> n, frame |-> f]
    BY DEF value
  <2>2. \A p \in Objects \ {o} : value'[p] = value[p]
    BY DEF Untouched, value
  <2>. QED BY <2>1, <2>2 DEF value
<1>2. held' = held
  BY DEF Untouched, held
<1>3. sent' = sent
  BY DEF Untouched, sent
<1>. QED BY <1>1, <1>2, <1>3

LEMMA SetStepValue ==
  ASSUME MessageInv, NEW o \in Objects, NEW n, set_step(o, n)
  PROVE  Untouched(o) /\ env'[o].step = n /\ FrameOf(o)' = FrameOf(o)
<1>1. /\ heap' = heap /\ caller' = caller /\ wire' = wire
      /\ env'[o].step = n /\ env'[o].frame = env[o].frame
      /\ \A p \in Objects \ {o} : env'[p] = env[p]
  <2>1. env' = [env EXCEPT ![o].step = n] /\ heap' = heap /\ caller' = caller /\ wire' = wire
    BY DEF set_step
  <2>2. /\ env[o] = [step |-> env[o].step, frame |-> env[o].frame]
        /\ env = [p \in Objects |-> env[p]]
    BY DEF MessageInv, MessageTypes
  <2>3. [env[o] EXCEPT !.step = n] = [step |-> n, frame |-> env[o].frame]
    BY <2>2
  <2>4. env'[o] = [step |-> n, frame |-> env[o].frame]
    BY <2>1, <2>2, <2>3
  <2>. QED BY <2>1, <2>2, <2>4
<1>2. FrameOf(o)' = FrameOf(o)
  BY <1>1 DEF FrameOf, has_frame, RobotsOf
<1>. QED BY <1>1, <1>2, UntouchedOthers

LEMMA AppendValue ==
  ASSUME MessageInv, NEW o \in Objects, NEW step \in Numbers, NEW add \in Seq(Robots),
         AppendTo(o, step, add)
  PROVE  /\ Untouched(o) /\ env'[o].step = step
         /\ FrameOf(o)' = IF FrameOf(o) = Absent THEN add ELSE FrameOf(o) \o add
<1>1. CASE has_frame(o)
  <2>. DEFINE c == env[o].frame
  <2>1. /\ c \in Cells /\ c # NULL /\ heap[c] \in Frames /\ heap \in [Cells -> Frames \cup {Free}]
        /\ heap' = [heap EXCEPT ![c].robots = @ \o add]
        /\ env' = [env EXCEPT ![o].step = step] /\ caller' = caller /\ wire' = wire
    BY <1>1 DEF AppendTo, has_frame, MessageInv, MessageTypes, Ownership
  <2>2. heap'[c].robots = heap[c].robots \o add
    <3>1. heap[c] = [robots |-> heap[c].robots, cached |-> heap[c].cached]
      BY <2>1, FrameTypes
    <3>2. heap'[c] = [heap[c] EXCEPT !.robots = @ \o add]
      BY <2>1
    <3>3. [heap[c] EXCEPT !.robots = @ \o add].robots = heap[c].robots \o add
      BY <3>1
    <3>. QED BY <3>2, <3>3
  <2>3. \A d \in Cells : d # c => heap'[d] = heap[d]
    BY <2>1
  <2>4. /\ env'[o].step = step /\ env'[o].frame = c
        /\ \A p \in Objects \ {o} : env'[p] = env[p]
    <3>1. /\ env[o] = [step |-> env[o].step, frame |-> env[o].frame]
          /\ env = [p \in Objects |-> env[p]]
      BY DEF MessageInv, MessageTypes
    <3>2. [env[o] EXCEPT !.step = step] = [step |-> step, frame |-> env[o].frame]
      BY <3>1
    <3>3. env'[o] = [step |-> step, frame |-> env[o].frame]
      BY <2>1, <3>1, <3>2
    <3>. QED BY <2>1, <3>1, <3>3
  <2>5. Untouched(o)
    BY <2>1, <2>3, <2>4, UntouchedOthers
  <2>6. FrameOf(o) = heap[c].robots /\ FrameOf(o) # Absent /\ FrameOf(o)' = heap'[c].robots
    BY <1>1, <2>1, <2>4, FrameTypes DEF FrameOf, has_frame, RobotsOf
  <2>. QED BY <2>2, <2>4, <2>5, <2>6
<1>2. CASE ~ has_frame(o)
  <2>1. PICK c \in Cells :
           /\ heap[c] = Free
           /\ heap' = [heap EXCEPT ![c] = NewFrame(add)]
           /\ env' = [env EXCEPT ![o] = [step |-> step, frame |-> c]]
           /\ caller' = caller /\ wire' = wire
    BY <1>2 DEF AppendTo
  <2>2. /\ heap'[c] = NewFrame(add) /\ c # NULL
        /\ \A d \in Cells : d # c => heap'[d] = heap[d]
    BY <2>1, FrameTypes DEF MessageInv, MessageTypes
  <2>3. /\ env'[o].step = step /\ env'[o].frame = c
        /\ \A p \in Objects \ {o} : env'[p] = env[p]
    BY <2>1, AssignedObject
  <2>4. Untouched(o)
    BY <2>1, <2>2, <2>3, UntouchedOthers
  <2>5. FrameOf(o) = Absent /\ FrameOf(o)' = add
    BY <1>2, <2>2, <2>3 DEF FrameOf, has_frame, RobotsOf, NewFrame
  <2>. QED BY <2>3, <2>4, <2>5
<1>. QED BY <1>1, <1>2

LEMMA RefillValue ==
  ASSUME MessageInv, NEW o \in Objects, NEW step \in Numbers,
         NEW frame \in Seq(Robots) \cup {Absent}, Refill(o, step, frame)
  PROVE  Untouched(o) /\ env'[o].step = step /\ FrameOf(o)' = frame
<1>. DEFINE old == env[o].frame
            cleared == Deleted(old)
<1>1. /\ DOMAIN cleared = Cells /\ \A d \in Cells : d # old => cleared[d] = heap[d]
      /\ caller' = caller /\ wire' = wire
  BY FrameTypes DEF Deleted, Refill, MessageInv, MessageTypes
<1>2. CASE frame = Absent
  <2>1. heap' = cleared /\ env' = [env EXCEPT ![o] = [step |-> step, frame |-> NULL]]
    BY <1>2 DEF Refill
  <2>. HIDE DEF cleared
  <2>2. /\ env'[o].step = step /\ env'[o].frame = NULL
        /\ \A p \in Objects \ {o} : env'[p] = env[p]
    BY <2>1, AssignedObject
  <2>3. Untouched(o)
    BY <1>1, <2>1, <2>2, UntouchedOthers
  <2>. QED BY <1>2, <2>2, <2>3 DEF FrameOf, has_frame
<1>3. CASE frame # Absent
  <2>1. PICK c \in Cells :
           /\ cleared[c] = Free
           /\ heap' = [cleared EXCEPT ![c] = NewFrame(frame)]
           /\ env' = [env EXCEPT ![o] = [step |-> step, frame |-> c]]
    BY <1>3 DEF Refill
  <2>. HIDE DEF cleared
  <2>2. /\ env'[o].step = step /\ env'[o].frame = c
        /\ \A p \in Objects \ {o} : env'[p] = env[p]
    BY <2>1, AssignedObject
  <2>3. heap'[c] = NewFrame(frame) /\ c # NULL /\ \A d \in Cells : d # c => heap'[d] = cleared[d]
    BY <1>1, <2>1, FrameTypes
  <2>4. \A d \in Cells : heap[d] # Free /\ d # old => heap'[d].robots = heap[d].robots
    BY <1>1, <2>1, <2>3
  <2>5. Untouched(o)
    BY <1>1, <2>2, <2>4, UntouchedOthers
  <2>6. FrameOf(o)' = frame
    BY <2>2, <2>3 DEF FrameOf, has_frame, RobotsOf, NewFrame
  <2>. QED BY <2>2, <2>5, <2>6
<1>. QED BY <1>2, <1>3

(* Each method is the one of MessageValue of its name. *)

LEMMA ValueTypes ==
  ASSUME MessageInv, NEW o \in Objects
  PROVE  /\ env[o].step \in Numbers /\ FrameOf(o) \in Seq(Robots) \cup {Absent}
         /\ has_frame(o) <=> FrameOf(o) # Absent
         /\ has_frame(o) => RobotsOf(env[o].frame) = FrameOf(o)
BY RobotTypes DEF MessageInv, MessageTypes, FrameOf, has_frame

LEMMA SetStepMaps ==
  ASSUME MessageInv, NEW o \in Objects, NEW n \in Numbers, set_step(o, n)
  PROVE  Value!SetStep(o, n)
<1>1. /\ value' = [value EXCEPT ![o] = [step |-> n, frame |-> FrameOf(o)]]
      /\ held' = held /\ sent' = sent
  BY SetStepValue, AssignedValue
<1>2. [value[o] EXCEPT !.step = n] = [step |-> n, frame |-> FrameOf(o)]
  BY DEF value
<1>. QED BY <1>1, <1>2 DEF Value!SetStep, Value!Assign, value, held, sent

LEMMA AddRobotMaps ==
  ASSUME MessageInv, NEW o \in Objects, NEW r \in Robots, add_robots_blue(o, r)
  PROVE  Value!AddRobot(o, r)
<1>. DEFINE n == env[o].step
            f == FrameOf(o)
            g == <<r>>
            sum == IF f = Absent THEN g ELSE f \o g
<1>1. n \in Numbers /\ f \in Seq(Robots) \cup {Absent} /\ g \in Seq(Robots) /\ g # Absent
  <2>1. <<r>> \in Seq(Robots)
    OBVIOUS
  <2>. QED BY <2>1, ValueTypes, FrameTypes
<1>2. AppendTo(o, n, g)
  BY DEF add_robots_blue
<1>3. Untouched(o) /\ env'[o].step = n /\ FrameOf(o)' = sum
  <2>. HIDE DEF g
  <2>. QED BY <1>1, <1>2, AppendValue
<1>4. /\ value' = [value EXCEPT ![o] = [step |-> n, frame |-> sum]]
      /\ held' = held /\ sent' = sent
  <2>. HIDE DEF n, sum
  <2>. QED BY <1>3, AssignedValue
<1>5. Value!Merged(value[o], [step |-> 0, frame |-> g]) = [step |-> n, frame |-> sum]
  <2>1. value[o] = [step |-> n, frame |-> f]
    BY DEF value
  <2>. HIDE DEF n, f, g, value
  <2>. QED BY <1>1, <2>1 DEF Value!Merged
<1>. HIDE DEF n, sum
<1>. QED BY <1>4, <1>5 DEF Value!AddRobot, Value!Assign, value, held, sent

LEMMA ClearMaps ==
  ASSUME MessageInv, NEW o \in Objects, Clear(o) \/ Renew(o)
  PROVE  Value!Clear(o)
<1>1. Untouched(o) /\ env'[o].step = 0 /\ FrameOf(o)' = Absent
  BY RenewRefills, RefillValue, MessageAssumption DEF Clear
<1>2. /\ value' = [value EXCEPT ![o] = [step |-> 0, frame |-> Absent]]
      /\ held' = held /\ sent' = sent
  BY <1>1, AssignedValue
<1>. QED BY <1>2 DEF Value!Clear, Value!Blank, Value!Assign, value, held, sent

LEMMA ClearFrameMaps ==
  ASSUME MessageInv, NEW o \in Objects, set_allocated_frame(o, NULL)
  PROVE  Value!ClearFrame(o)
<1>. DEFINE blank == [step |-> env[o].step, frame |-> Absent]
<1>1. Untouched(o) /\ env'[o].step = env[o].step /\ FrameOf(o)' = Absent
  BY NoFrameRefills, RefillValue
<1>2. value' = [value EXCEPT ![o] = blank] /\ held' = held /\ sent' = sent
  BY <1>1, AssignedValue
<1>3. [value[o] EXCEPT !.frame = Absent] = blank
  BY DEF value
<1>. HIDE DEF blank
<1>4. value' = [value EXCEPT ![o] = [value[o] EXCEPT !.frame = Absent]]
  BY <1>2, <1>3
<1>. QED BY <1>2, <1>4 DEF Value!ClearFrame, Value!Assign, value, held, sent

LEMMA MergeMaps ==
  ASSUME MessageInv, NEW o \in Objects, NEW from \in Objects, MergeFrom(o, from)
  PROVE  Value!Merge(o, from)
<1>. DEFINE n == env[o].step
            m == env[from].step
            f == FrameOf(o)
            g == FrameOf(from)
            step == IF m # 0 THEN m ELSE n
            sum == IF g = Absent THEN f ELSE IF f = Absent THEN g ELSE f \o g
<1>1. /\ n \in Numbers /\ f \in Seq(Robots) \cup {Absent}
      /\ m \in Numbers /\ g \in Seq(Robots) \cup {Absent}
      /\ has_frame(from) <=> g # Absent
      /\ has_frame(from) => RobotsOf(env[from].frame) = g
  BY ValueTypes
<1>2. Untouched(o) /\ env'[o].step = step /\ FrameOf(o)' = sum
  <2>1. CASE has_frame(from)
    <3>1. AppendTo(o, step, g) /\ g \in Seq(Robots) /\ g # Absent /\ step \in Numbers
      BY <1>1, <2>1 DEF MergeFrom
    <3>2. /\ Untouched(o) /\ env'[o].step = step
          /\ FrameOf(o)' = IF FrameOf(o) = Absent THEN g ELSE FrameOf(o) \o g
      <4>. HIDE DEF g, step
      <4>. QED BY <3>1, AppendValue
    <3>. QED BY <3>1, <3>2
  <2>2. CASE ~ has_frame(from)
    <3>1. set_step(o, step) /\ g = Absent
      BY <1>1, <2>2 DEF MergeFrom
    <3>2. Untouched(o) /\ env'[o].step = step /\ FrameOf(o)' = f
      <4>. HIDE DEF step
      <4>. QED BY <3>1, SetStepValue
    <3>. QED BY <3>1, <3>2
  <2>. QED BY <2>1, <2>2
<1>3. /\ value' = [value EXCEPT ![o] = [step |-> step, frame |-> sum]]
      /\ held' = held /\ sent' = sent
  <2>. HIDE DEF step, sum
  <2>. QED BY <1>2, AssignedValue
<1>4. Value!Merged(value[o], value[from]) = [step |-> step, frame |-> sum]
  <2>1. value[o] = [step |-> n, frame |-> f] /\ value[from] = [step |-> m, frame |-> g]
    BY DEF value
  <2>2. /\ value[o].step = n /\ value[o].frame = f
        /\ value[from].step = m /\ value[from].frame = g
    BY <2>1
  <2>. HIDE DEF n, m, f, g, value
  <2>3. CASE g = Absent
    BY <2>2, <2>3 DEF Value!Merged
  <2>4. CASE g # Absent /\ f = Absent
    BY <2>2, <2>4 DEF Value!Merged
  <2>5. CASE g # Absent /\ f # Absent
    BY <2>2, <2>5 DEF Value!Merged
  <2>. QED BY <2>3, <2>4, <2>5
<1>. HIDE DEF step, sum
<1>. QED BY <1>3, <1>4 DEF Value!Merge, Value!Assign, value, held, sent

LEMMA CopyMaps ==
  ASSUME MessageInv, NEW o \in Objects, NEW from \in Objects, CopyFrom(o, from),
         messageVars' # messageVars
  PROVE  Value!Copy(o, from)
<1>1. Refill(o, env[from].step, FrameOf(from))
  BY DEF CopyFrom
<1>2. Untouched(o) /\ env'[o].step = env[from].step /\ FrameOf(o)' = FrameOf(from)
  BY <1>1, ValueTypes, RefillValue
<1>3. /\ value' = [value EXCEPT ![o] = [step |-> env[from].step, frame |-> FrameOf(from)]]
      /\ held' = held /\ sent' = sent
  BY <1>2, AssignedValue
<1>4. value[from] = [step |-> env[from].step, frame |-> FrameOf(from)]
  BY DEF value
<1>. QED BY <1>3, <1>4 DEF Value!Copy, Value!Assign, value, held, sent

(* A frame keeps its value with its pointer, while its robots are kept.    *)
LEMMA KeptFrame ==
  ASSUME NEW p \in Objects, NEW q \in Objects, env'[p].frame = env[q].frame,
         env[q].frame # NULL => heap'[env[q].frame].robots = heap[env[q].frame].robots
  PROVE  FrameOf(p)' = FrameOf(q)
BY DEF FrameOf, has_frame, RobotsOf

(* Sizes are not part of the values. *)
LEMMA SizesDoNotShow ==
  ASSUME MessageInv, env' = env, caller' = caller,
         \A d \in Cells : heap[d] # Free => heap'[d].robots = heap[d].robots
  PROVE  value' = value /\ held' = held
<1>1. \A p \in Objects : FrameOf(p)' = FrameOf(p)
  <2>1. \A p \in Objects : env[p].frame # NULL =>
          heap'[env[p].frame].robots = heap[env[p].frame].robots
    BY DEF MessageInv, MessageTypes, Ownership
  <2>. QED BY <2>1, KeptFrame
<1>2. value' = value
  BY <1>1 DEF value
<1>3. held' = held
  <2>1. \A c \in caller : heap'[c].robots = heap[c].robots
    BY DEF MessageInv, MessageTypes, Ownership
  <2>. QED BY <2>1 DEF held
<1>. QED BY <1>2, <1>3

LEMMA RefusedMaps ==
  ASSUME MessageInv, NEW o \in Objects, SerializeRefused(o)
  PROVE  value' = value /\ held' = held /\ sent' = sent
<1>1. heap' = ByteSized(o) /\ env' = env /\ caller' = caller /\ wire' = wire
  BY DEF SerializeRefused
<1>2. \A d \in Cells : heap[d] # Free => heap'[d].robots = heap[d].robots
  BY <1>1, SizeCached
<1>3. sent' = sent
  BY <1>1 DEF sent
<1>. QED BY <1>1, <1>2, <1>3, SizesDoNotShow

LEMMA SerializeMaps ==
  ASSUME MessageInv, NEW o \in Objects, SerializeToArray(o)
  PROVE  Value!Serialize(o)
<1>1. /\ \A d \in Cells : heap[d] # Free => heap'[d].robots = heap[d].robots
      /\ wire' = Written(env[o].step, FrameOf(o))
      /\ env' = env /\ caller' = caller
  BY Serialization
<1>2. value' = value /\ held' = held
  BY <1>1, SizesDoNotShow
<1>3. sent' = value[o]
  <2>. DEFINE m == MergePartialFromCodedStream(wire)
  <2>1. m'.step = env[o].step /\ m'.frame = FrameOf(o)
    BY <1>1, ValueTypes, ReadsBack
  <2>. HIDE DEF m
  <2>2. sent' = [step |-> m'.step, frame |-> m'.frame]
    BY DEF sent, m
  <2>. QED BY <2>1, <2>2 DEF value
<1>. QED BY <1>2, <1>3 DEF Value!Serialize, value, held, sent

LEMMA SwapMaps ==
  ASSUME MessageInv, NEW o \in Objects, NEW other \in Objects, Swap(o, other)
  PROVE  Value!Swap(o, other)
<1>1. /\ heap' = heap /\ caller' = caller /\ wire' = wire
      /\ env'[o] = env[other] /\ env'[other] = env[o]
      /\ \A p \in Objects \ {o, other} : env'[p] = env[p]
  BY DEF Swap, MessageInv, MessageTypes
<1>2. /\ FrameOf(o)' = FrameOf(other) /\ FrameOf(other)' = FrameOf(o)
      /\ \A p \in Objects \ {o, other} : FrameOf(p)' = FrameOf(p)
  BY <1>1, KeptFrame
<1>3. /\ value'[o] = value[other] /\ value'[other] = value[o]
      /\ \A p \in Objects \ {o, other} : value'[p] = value[p]
  BY <1>1, <1>2 DEF value
<1>4. value' = [value EXCEPT ![o] = value[other], ![other] = value[o]]
  BY <1>3 DEF value
<1>5. held' = held /\ sent' = sent
  BY <1>1 DEF held, sent
<1>. QED BY <1>4, <1>5 DEF Value!Swap, value, held, sent

(* Releasing the frame that is not there changes nothing. *)
LEMMA ReleaseMaps ==
  ASSUME MessageInv, NEW o \in Objects, release_frame(o), NEW c, c = env[o].frame
  PROVE  IF c = NULL THEN value' = value /\ held' = held /\ sent' = sent
                     ELSE Value!Release(o, c)
<1>1. /\ env' = [env EXCEPT ![o] = [step |-> env[o].step, frame |-> NULL]]
      /\ caller' = caller \cup ({c} \ {NULL}) /\ heap' = heap /\ wire' = wire
  <2>1. env[o] = [step |-> env[o].step, frame |-> env[o].frame]
    BY DEF MessageInv, MessageTypes
  <2>2. [env[o] EXCEPT !.frame = NULL] = [step |-> env[o].step, frame |-> NULL]
    BY <2>1
  <2>. QED BY <2>2 DEF release_frame
<1>2. /\ env'[o].step = env[o].step /\ env'[o].frame = NULL
      /\ \A p \in Objects \ {o} : env'[p] = env[p]
  BY <1>1, AssignedObject
<1>3. FrameOf(o)' = Absent /\ \A p \in Objects \ {o} : FrameOf(p)' = FrameOf(p)
  <2>1. \A p \in Objects \ {o} : FrameOf(p)' = FrameOf(p)
    BY <1>1, <1>2, KeptFrame
  <2>. QED BY <1>2, <2>1 DEF FrameOf, has_frame
<1>4. value' = [value EXCEPT ![o] = [step |-> env[o].step, frame |-> Absent]]
  <2>1. value'[o] = [step |-> env[o].step, frame |-> Absent]
    BY <1>2, <1>3 DEF value
  <2>2. \A p \in Objects \ {o} : value'[p] = value[p]
    BY <1>2, <1>3 DEF value
  <2>. QED BY <2>1, <2>2 DEF value
<1>5. value[o] = [step |-> env[o].step, frame |-> FrameOf(o)]
  BY DEF value
<1>6. CASE ~ has_frame(o)
  <2>1. FrameOf(o) = Absent /\ caller' = caller
    BY <1>1, <1>6 DEF FrameOf, has_frame
  <2>2. value' = value
    <3>1. DOMAIN value = Objects /\ value = [p \in Objects |-> value[p]]
      BY DEF value
    <3>. HIDE DEF value
    <3>. QED BY <1>4, <1>5, <2>1, <3>1
  <2>3. c = NULL /\ held' = held /\ sent' = sent
    BY <1>1, <1>6, <2>1 DEF has_frame, held, sent
  <2>. QED BY <2>2, <2>3
<1>7. CASE has_frame(o)
  <2>1. c \in Cells /\ c \notin caller /\ FrameOf(o) = heap[c].robots /\ caller' = caller \cup {c}
    BY <1>1, <1>7, FrameTypes
       DEF MessageInv, MessageTypes, Ownership, FrameOf, has_frame, RobotsOf
  <2>2. held[c] = Absent /\ held' = [held EXCEPT ![c] = FrameOf(o)] /\ sent' = sent
    <3>1. held[c] = Absent
      BY <2>1 DEF held
    <3>2. held'[c] = FrameOf(o) /\ \A d \in Cells \ {c} : held'[d] = held[d]
      BY <1>1, <2>1 DEF held
    <3>. QED BY <1>1, <2>1, <3>1, <3>2 DEF held, sent
  <2>3. value' = [value EXCEPT ![o].frame = Absent] /\ value[o].frame = FrameOf(o)
    <3>1. [value[o] EXCEPT !.frame = Absent] = [step |-> env[o].step, frame |-> Absent]
      BY <1>5
    <3>2. [value EXCEPT ![o].frame = Absent] =
            [value EXCEPT ![o] = [step |-> env[o].step, frame |-> Absent]]
      BY <3>1
    <3>3. value[o].frame = FrameOf(o)
      BY <1>5
    <3>. QED BY <1>4, <3>2, <3>3
  <2>4. Value!Release(o, c)
    BY <2>2, <2>3 DEF Value!Release, value, held, sent
  <2>. QED BY <1>7, <2>4 DEF has_frame
<1>. QED BY <1>6, <1>7

LEMMA SetAllocatedMaps ==
  ASSUME MessageInv, NEW o \in Objects, NEW c \in Cells, set_allocated_frame(o, c)
  PROVE  Value!SetAllocated(o, c)
<1>. DEFINE old == env[o].frame
            new == [step |-> env[o].step, frame |-> held[c]]
<1>1. /\ env' = [env EXCEPT ![o] = [step |-> env[o].step, frame |-> c]]
      /\ c \in caller /\ caller' = caller \ {c} /\ wire' = wire /\ heap' = Deleted(old)
  <2>1. env[o] = [step |-> env[o].step, frame |-> env[o].frame]
    BY DEF MessageInv, MessageTypes
  <2>2. [env[o] EXCEPT !.frame = c] = [step |-> env[o].step, frame |-> c]
    BY <2>1
  <2>. QED BY <2>2, MessageAssumption DEF set_allocated_frame
<1>2. /\ env'[o].step = env[o].step /\ env'[o].frame = c
      /\ \A p \in Objects \ {o} : env'[p] = env[p]
  BY <1>1, AssignedObject
<1>3. \A d \in Cells \ {old} : heap'[d] = heap[d]
  BY <1>1, FrameTypes DEF MessageInv, MessageTypes, Deleted
<1>4. /\ c # NULL /\ heap[c] \in Frames /\ \A d \in caller : d \in Cells \ {old}
  BY <1>1, FrameTypes DEF MessageInv, MessageTypes, Ownership
<1>5. held[c] = heap[c].robots /\ held[c] # Absent
  BY <1>1, <1>4, FrameTypes DEF held
<1>6. FrameOf(o)' = held[c] /\ \A p \in Objects \ {o} : FrameOf(p)' = FrameOf(p)
  <2>1. \A p \in Objects \ {o} : env[p].frame # NULL => env[p].frame \in Cells \ {old}
    BY DEF MessageInv, MessageTypes, Ownership
  <2>2. \A p \in Objects \ {o} : FrameOf(p)' = FrameOf(p)
    BY <1>2, <1>3, <2>1, KeptFrame
  <2>. QED BY <1>1, <1>2, <1>3, <1>4, <1>5, <2>2 DEF FrameOf, has_frame, RobotsOf
<1>7. value' = [value EXCEPT ![o] = new]
  <2>1. value'[o] = new
    BY <1>2, <1>6 DEF value
  <2>2. \A p \in Objects \ {o} : value'[p] = value[p]
    BY <1>2, <1>6 DEF value
  <2>. QED BY <2>1, <2>2 DEF value
<1>8. [value EXCEPT ![o].frame = held[c]] = [value EXCEPT ![o] = new]
  <2>1. [value[o] EXCEPT !.frame = held[c]] = new
    BY DEF value
  <2>. QED BY <2>1
<1>9. held' = [held EXCEPT ![c] = Absent] /\ sent' = sent
  <2>1. held'[c] = Absent
    BY <1>1 DEF held
  <2>2. \A d \in Cells \ {c} : held'[d] = held[d]
    BY <1>1, <1>3, <1>4 DEF held
  <2>. QED BY <1>1, <2>1, <2>2 DEF held, sent
<1>. HIDE DEF new
<1>10. value' = [value EXCEPT ![o].frame = held[c]]
  BY <1>7, <1>8
<1>. QED BY <1>5, <1>9, <1>10 DEF Value!SetAllocated, value, held, sent

LEMMA CopyOutMaps ==
  ASSUME MessageInv, NEW o \in Objects, NEW c \in Cells, CopyOut(o, c)
  PROVE  Value!CopyOut(o, c)
<1>. DEFINE copy == IF value[o].frame = Absent THEN <<>> ELSE value[o].frame
<1>1. /\ heap[c] = Free /\ heap' = [heap EXCEPT ![c] = NewFrame(RobotsOf(env[o].frame))]
      /\ caller' = caller \cup {c} /\ env' = env /\ wire' = wire
  BY DEF CopyOut
<1>2. /\ heap'[c].robots = RobotsOf(env[o].frame) /\ \A d \in Cells \ {c} : heap'[d] = heap[d]
      /\ c \notin caller /\ caller \subseteq Cells
      /\ \A p \in Objects : env[p].frame # NULL => env[p].frame \in Cells \ {c}
  BY <1>1 DEF MessageInv, MessageTypes, Ownership, NewFrame
<1>3. value' = value
  <2>1. \A p \in Objects : FrameOf(p)' = FrameOf(p)
    BY <1>1, <1>2, KeptFrame
  <2>. QED BY <1>1, <2>1 DEF value
<1>4. RobotsOf(env[o].frame) = copy
  <2>1. value[o].frame = FrameOf(o)
    BY DEF value
  <2>2. FrameOf(o) = Absent <=> env[o].frame = NULL
    BY RobotTypes
  <2>. QED BY <2>1, <2>2 DEF RobotsOf, FrameOf, has_frame
<1>5. held[c] = Absent /\ held' = [held EXCEPT ![c] = copy] /\ sent' = sent
  <2>. HIDE DEF copy
  <2>1. held[c] = Absent /\ held'[c] = copy
    BY <1>1, <1>2, <1>4 DEF held
  <2>2. \A d \in Cells \ {c} : held'[d] = held[d]
    BY <1>1, <1>2 DEF held
  <2>3. held' = [held EXCEPT ![c] = copy]
    BY <2>1, <2>2 DEF held
  <2>4. sent' = sent
    BY <1>1 DEF sent
  <2>. QED BY <2>1, <2>3, <2>4
<1>. QED BY <1>3, <1>5 DEF Value!CopyOut, value, held, sent

LEMMA DropMaps ==
  ASSUME MessageInv, NEW c \in Cells, Drop(c)
  PROVE  Value!Drop(c)
<1>1. /\ c \in caller /\ caller' = caller \ {c} /\ env' = env /\ wire' = wire
      /\ heap' = [heap EXCEPT ![c] = Free]
  BY FrameTypes DEF Drop, Deleted
<1>2. /\ \A d \in Cells \ {c} : heap'[d] = heap[d]
      /\ caller \subseteq Cells
      /\ \A p \in Objects : env[p].frame # NULL => env[p].frame \in Cells \ {c}
  BY <1>1 DEF MessageInv, MessageTypes, Ownership
<1>3. value' = value
  <2>1. \A p \in Objects : FrameOf(p)' = FrameOf(p)
    BY <1>1, <1>2, KeptFrame
  <2>. QED BY <1>1, <2>1 DEF value
<1>4. held' = [held EXCEPT ![c] = Absent] /\ sent' = sent
  <2>1. held'[c] = Absent /\ \A d \in Cells \ {c} : held'[d] = held[d]
    BY <1>1, <1>2 DEF held
  <2>. QED BY <1>1, <2>1 DEF held, sent
<1>. QED BY <1>3, <1>4 DEF Value!Drop, value, held, sent

(* Parsing assigns what was read. *)
LEMMA ParseValue ==
  ASSUME MessageInv, NEW o \in Objects, NEW w \in Datagrams \cup {wire}, ParseFromArray(o, w)
  PROVE  LET m == MergePartialFromCodedStream(w)
         IN  /\ value' = [value EXCEPT ![o] = [step |-> m.step, frame |-> m.frame]]
             /\ held' = held /\ sent' = sent
<1>. DEFINE m == MergePartialFromCodedStream(w)
<1>1. m.step \in Numbers /\ m.frame \in Seq(Robots) \cup {Absent}
  BY ReadTypes
<1>2. Refill(o, m.step, m.frame)
  BY DEF ParseFromArray
<1>. HIDE DEF m
<1>3. Untouched(o) /\ env'[o].step = m.step /\ FrameOf(o)' = m.frame
  BY <1>1, <1>2, RefillValue
<1>4. /\ value' = [value EXCEPT ![o] = [step |-> m.step, frame |-> m.frame]]
      /\ held' = held /\ sent' = sent
  BY <1>3, AssignedValue
<1>. QED BY <1>4 DEF m

LEMMA ParseSentMaps ==
  ASSUME MessageInv, NEW o \in Objects, ParseFromArray(o, wire)
  PROVE  Value!ParseSent(o)
<1>1. value' = [value EXCEPT ![o] = sent] /\ held' = held /\ sent' = sent
  BY ParseValue DEF sent
<1>. QED BY <1>1 DEF Value!ParseSent, Value!Parse, Value!Assign, value, held, sent

LEMMA ParseMaps ==
  ASSUME MessageInv, NEW o \in Objects, NEW w \in Datagrams, ParseFromArray(o, w)
  PROVE  IF w \in Whole THEN Value!Parse(o, Contents[w]) ELSE Value!ParseBroken(o, Contents[w])
<1>. DEFINE m == MergePartialFromCodedStream(w)
            v == Contents[w]
            p == [step |-> m.step, frame |-> m.frame]
<1>1. value' = [value EXCEPT ![o] = p] /\ held' = held /\ sent' = sent
  BY ParseValue
<1>2. Value!Assign(o, p)
  <2>. HIDE DEF p
  <2>. QED BY <1>1 DEF Value!Assign, value, held, sent
<1>3. /\ v = [step |-> v.step, frame |-> v.frame]
      /\ w \in Whole => v.step = m.step /\ v.frame = m.frame
      /\ w \notin Whole =>
           /\ m.step \in {0, v.step}
           /\ m.frame = Absent \/ \E k \in 0 .. Len(v.frame) : m.frame = SubSeq(v.frame, 1, k)
  BY ContentsAssumption
<1>. HIDE DEF m, v
<1>4. CASE w \in Whole
  <2>1. p = v
    BY <1>3, <1>4
  <2>. HIDE DEF p
  <2>. QED BY <1>2, <1>4, <2>1 DEF Value!Parse, v
<1>5. CASE w \notin Whole
  <2>. DEFINE parts == {Absent} \cup {SubSeq(v.frame, 1, k) : k \in 0 .. Len(v.frame)}
              some == {[step |-> n, frame |-> f] : n \in {0, v.step}, f \in parts}
  <2>1. m.frame \in parts /\ m.step \in {0, v.step}
    BY <1>3, <1>5
  <2>. HIDE DEF parts
  <2>2. p \in some
    BY <2>1
  <2>. HIDE DEF p
  <2>3. Value!ParseBroken(o, v)
    BY <1>2, <2>2 DEF Value!ParseBroken, parts
  <2>. QED BY <1>5, <2>3 DEF v
<1>. QED BY <1>4, <1>5

LEMMA ValueStart == MessageInit => Value!Init
<1>. SUFFICES ASSUME MessageInit PROVE Value!Init
  OBVIOUS
<1>1. value = [o \in Objects |-> [step |-> 0, frame |-> Absent]]
  BY DEF MessageInit, Constructed, value, FrameOf, has_frame
<1>2. held = [c \in Cells |-> Absent]
  BY DEF MessageInit, held
<1>3. sent = [step |-> 0, frame |-> Absent]
  BY ReadNone DEF MessageInit, sent, Unread
<1>. QED BY <1>1, <1>2, <1>3 DEF Value!Init, Value!Blank, value, held, sent

LEMMA ValueStep == MessageInv /\ [MessageNext]_messageVars => [Value!Next]_(Value!vars)
<1>. SUFFICES ASSUME MessageInv, [MessageNext]_messageVars PROVE [Value!Next]_(Value!vars)
  OBVIOUS
<1>1. ASSUME value' = value, held' = held, sent' = sent PROVE UNCHANGED Value!vars
  BY <1>1 DEF Value!vars, value, held, sent
<1>2. ASSUME UNCHANGED messageVars PROVE UNCHANGED Value!vars
  <2>1. value' = value /\ held' = held /\ sent' = sent
    BY <1>2 DEF messageVars, value, held, sent, FrameOf, has_frame, RobotsOf
  <2>. QED BY <1>1, <2>1
<1>3. ASSUME NEW o \in Objects, NEW n \in Numbers, set_step(o, n) PROVE Value!Next
  BY <1>3, SetStepMaps DEF Value!Next
<1>4. ASSUME NEW o \in Objects, NEW r \in Robots, add_robots_blue(o, r) PROVE Value!Next
  BY <1>4, AddRobotMaps DEF Value!Next
<1>5. ASSUME NEW o \in Objects, Clear(o) PROVE Value!Next
  BY <1>5, ClearMaps DEF Value!Next
<1>6. ASSUME NEW o \in Objects, SerializeToArray(o) PROVE Value!Next
  BY <1>6, SerializeMaps DEF Value!Next
<1>7. ASSUME NEW o \in Objects, release_frame(o) PROVE [Value!Next]_(Value!vars)
  <2>1. PICK c \in Cells \cup {NULL} : c = env[o].frame
    BY DEF MessageInv, MessageTypes
  <2>2. CASE c = NULL
    BY <1>1, <1>7, <2>1, <2>2, ReleaseMaps
  <2>3. CASE c # NULL
    <3>1. Value!Release(o, c) /\ c \in Cells
      BY <1>7, <2>1, <2>3, ReleaseMaps
    <3>. QED BY <3>1 DEF Value!Next
  <2>. QED BY <2>2, <2>3
<1>8. ASSUME NEW o \in Objects, NEW from \in Objects, MergeFrom(o, from) PROVE Value!Next
  BY <1>8, MergeMaps DEF Value!Next
<1>9. ASSUME NEW o \in Objects, NEW from \in Objects, CopyFrom(o, from)
      PROVE  [Value!Next]_(Value!vars)
  <2>1. CASE messageVars' # messageVars
    BY <1>9, <2>1, CopyMaps DEF Value!Next
  <2>. QED BY <1>2, <2>1
<1>10. ASSUME NEW o \in Objects, NEW from \in Objects, Swap(o, from) PROVE Value!Next
  BY <1>10, SwapMaps DEF Value!Next
<1>11. ASSUME NEW o \in Objects, NEW c \in Cells, set_allocated_frame(o, c) PROVE Value!Next
  BY <1>11, SetAllocatedMaps DEF Value!Next
<1>12. ASSUME NEW o \in Objects, NEW c \in Cells, CopyOut(o, c) PROVE Value!Next
  BY <1>12, CopyOutMaps DEF Value!Next
<1>13. ASSUME NEW o \in Objects, ParseFromArray(o, wire) PROVE Value!Next
  BY <1>13, ParseSentMaps DEF Value!Next
<1>14. ASSUME NEW o \in Objects, NEW w \in Datagrams, ParseFromArray(o, w) PROVE Value!Next
  <2>1. Contents[w] \in {Contents[d] : d \in Datagrams}
    OBVIOUS
  <2>2. Value!Parse(o, Contents[w]) \/ Value!ParseBroken(o, Contents[w])
    BY <1>14, ParseMaps
  <2>. QED BY <2>1, <2>2 DEF Value!Next
<1>15. ASSUME NEW c \in Cells, Drop(c) PROVE Value!Next
  BY <1>15, DropMaps DEF Value!Next
<1>16. ASSUME NEW o \in Objects, Renew(o) PROVE Value!Next
  BY <1>16, ClearMaps DEF Value!Next
<1>17. ASSUME NEW o \in Objects, SerializeRefused(o) PROVE UNCHANGED Value!vars
  BY <1>1, <1>17, RefusedMaps
<1>18. ASSUME NEW o \in Objects, set_allocated_frame(o, NULL) PROVE Value!Next
  BY <1>18, ClearFrameMaps DEF Value!Next
<1>. QED BY <1>2, <1>3, <1>4, <1>5, <1>6, <1>7, <1>8, <1>9, <1>10, <1>11, <1>12, <1>13, <1>14,
            <1>15, <1>16, <1>17, <1>18 DEF MessageNext

LEMMA SimulatedStep == MessageInv => Simulated
<1>. SUFFICES ASSUME MessageInv, messageVars' # messageVars, NEW o \in Objects
              PROVE  /\ Clear(o) => Value!Clear(o)
                     /\ SerializeToArray(o) => Value!Serialize(o)
                     /\ ParseFromArray(o, wire) => Value!ParseSent(o)
                     /\ \A w \in Datagrams : ParseFromArray(o, w) =>
                          IF w \in Whole THEN Value!Parse(o, Contents[w])
                                         ELSE Value!ParseBroken(o, Contents[w])
                     /\ \A r \in Robots : add_robots_blue(o, r) => Value!AddRobot(o, r)
                     /\ \A from \in Objects : /\ MergeFrom(o, from) => Value!Merge(o, from)
                                              /\ CopyFrom(o, from) => Value!Copy(o, from)
                                              /\ Swap(o, from) => Value!Swap(o, from)
  BY DEF Simulated
<1>1. Clear(o) => Value!Clear(o)
  BY ClearMaps
<1>2. SerializeToArray(o) => Value!Serialize(o)
  BY SerializeMaps
<1>3. ParseFromArray(o, wire) => Value!ParseSent(o)
  BY ParseSentMaps
<1>4. ASSUME NEW w \in Datagrams, ParseFromArray(o, w)
      PROVE  IF w \in Whole THEN Value!Parse(o, Contents[w]) ELSE Value!ParseBroken(o, Contents[w])
  BY <1>4, ParseMaps
<1>5. ASSUME NEW r \in Robots, add_robots_blue(o, r) PROVE Value!AddRobot(o, r)
  BY <1>5, AddRobotMaps
<1>6. ASSUME NEW from \in Objects
      PROVE  /\ MergeFrom(o, from) => Value!Merge(o, from)
             /\ CopyFrom(o, from) => Value!Copy(o, from)
             /\ Swap(o, from) => Value!Swap(o, from)
  <2>1. MergeFrom(o, from) => Value!Merge(o, from)
    BY MergeMaps
  <2>2. CopyFrom(o, from) => Value!Copy(o, from)
    BY CopyMaps
  <2>3. Swap(o, from) => Value!Swap(o, from)
    BY SwapMaps
  <2>. QED BY <2>1, <2>2, <2>3
<1>. QED BY <1>1, <1>2, <1>3, <1>4, <1>5, <1>6

(* The generated classes implement messages that are values: every method  *)
(* does to the values what MessageValue says of it and nothing else, a     *)
(* copy shares no frame, what was serialised reads back, whatever objects, *)
(* Frames, robots and datagrams there are.                                 *)
THEOREM MessagesAreValues == MessageSpec => MethodsImplementValue
<1>1. MessageSpec => Value!Spec
  BY ValueStart, ValueStep, MessageInvariant, PTL DEF MessageSpec, Value!Spec
<1>2. MessageInv /\ [MessageNext]_messageVars => [Simulated]_messageVars
  BY SimulatedStep
<1>3. MessageSpec => [][Simulated]_messageVars
  BY <1>2, MessageInvariant, PTL DEF MessageSpec
<1>. QED BY <1>1, <1>3 DEF MethodsImplementValue
=============================================================================
