-------------------------- MODULE CodedInputProofs --------------------------
(***************************************************************************)
(* For inputs, chunks and limits of every size: the counters of            *)
(* CodedInputStream agree with each other, it never asks an array for      *)
(* more, and it implements a position within limits.                       *)
(***************************************************************************)
EXTENDS CodedInput, TLAPS

(* Values. *)

BufferTypes ==
  /\ taken \in Nat /\ chunk \in Nat
  /\ buffer \in Int /\ buffer_end \in Int
  /\ total_bytes_read \in 0 .. IntMax
  /\ overflow_bytes \in Nat /\ buffer_size_after_limit \in Nat

LimitTypes ==
  /\ size \in Nat /\ flat \in BOOLEAN
  /\ current_limit \in 0 .. IntMax /\ total_bytes_limit \in 0 .. IntMax
  /\ saved \in Seq(0 .. IntMax)
  /\ legitimate_message_end \in BOOLEAN

CallTypes ==
  /\ pc \in {"new", "ready", "reading", "tag", "failed", "closed"}
  /\ begun \in Nat /\ need \in Int

-----------------------------------------------------------------------------
(* The inductive invariant. *)

(* The position is within both limits, and what the nearer one cuts off is *)
(* known.                                                                  *)
Limited ==
  /\ BufferSize >= 0
  /\ 0 <= CurrentPosition /\ CurrentPosition <= closest_limit
  /\ buffer_size_after_limit =
       IF closest_limit < total_bytes_read THEN total_bytes_read - closest_limit ELSE 0

(* A limit that will come back is no nearer than the one in force, nor     *)
(* than those that will come back before it.                               *)
Nested ==
  /\ \A i \in 1 .. Len(saved) : current_limit <= saved[i]
  /\ \A i, j \in 1 .. Len(saved) : i <= j => saved[i] <= saved[j]

(* An array is a buffer that was read at once. *)
Array ==
  flat => /\ taken = size /\ total_bytes_read = size
          /\ overflow_bytes = 0
          /\ current_limit <= size
          /\ \A i \in 1 .. Len(saved) : saved[i] <= size

Counted ==
  /\ BufferSize + buffer_size_after_limit > 0 => buffer = CurrentPosition
  /\ ~flat => BufferSize + buffer_size_after_limit + overflow_bytes <= chunk
  /\ taken <= size
  /\ overflow_bytes > 0 => total_bytes_read = IntMax

(* What was read from the input was counted, but for what overflows. *)
Reading == taken = total_bytes_read + overflow_bytes

(* After an error nothing is left to read. *)
Exhausted ==
  taken - (BufferSize + buffer_size_after_limit + overflow_bytes) = Least(closest_limit, size)

(* The constructor has not refreshed yet. *)
Fresh ==
  /\ BufferSize = 0 /\ total_bytes_read = 0 /\ overflow_bytes = 0
  /\ buffer_size_after_limit = 0 /\ ~flat /\ begun = 0

Calls ==
  /\ pc = "new" => Fresh
  /\ pc \notin {"failed", "closed"} => Reading
  /\ pc = "failed" => Exhausted
  /\ pc \in {"reading", "tag"} => begun <= CurrentPosition
                                  /\ CurrentPosition + need - begun \in 0 .. IntMax
                                  /\ need >= 0

(* A skip that ran into the end of the input has counted its bytes from    *)
(* elsewhere, but has nothing left to give back.                           *)
Strayed ==
  /\ LimitTypes /\ CallTypes /\ ~flat
  /\ pc \in {"failed", "closed"}
  /\ buffer = NoBuffer /\ buffer_end = NoBuffer
  /\ buffer_size_after_limit = 0 /\ overflow_bytes = 0 /\ chunk = 0
  /\ taken \in Nat /\ (pc = "failed" => taken = Least(closest_limit, size))

IInv ==
  /\ BufferTypes /\ LimitTypes /\ CallTypes
  /\ Limited /\ Nested /\ Array /\ Counted /\ Calls

-----------------------------------------------------------------------------
(* Refresh() and its failures. *)

(* The position a call is at when it has used the buffer up. *)
BufferEnd == CurrentPosition + BufferSize

Fixed == UNCHANGED <<size, flat, current_limit, total_bytes_limit, saved>>

LEMMA InitEstablished ==
  ASSUME StreamInit
  PROVE  IInv
<1>0. size \in Nat /\ IntMax \in Nat /\ saved \in Seq(0 .. IntMax)
  BY StreamAssumption DEF StreamInit
<1>1. BufferTypes /\ LimitTypes /\ CallTypes
  <2>1. flat \in BOOLEAN /\ legitimate_message_end \in BOOLEAN
    BY DEF StreamInit
  <2>2. CASE flat
    BY <1>0, <2>1, <2>2 DEF StreamInit, BufferTypes, LimitTypes, CallTypes
  <2>3. CASE ~flat
    BY <1>0, <2>1, <2>3 DEF StreamInit, BufferTypes, LimitTypes, CallTypes, NoBuffer
  <2>. QED BY <2>1, <2>2, <2>3
<1>2. Limited /\ Nested /\ Array /\ Counted /\ Calls
  BY StreamAssumption
     DEF StreamInit, Limited, Nested, Array, Counted, Calls, Fresh, Reading, Exhausted,
         BufferSize, CurrentPosition, closest_limit, Least, NoBuffer
<1>. QED BY <1>1, <1>2 DEF IInv

(* A refreshed buffer begins where the old one ended. *)
LEMMA Refreshed ==
  ASSUME BufferTypes, LimitTypes, Limited, Array, Counted, Reading, Refresh, Fixed
  PROVE  /\ BufferTypes' /\ Limited' /\ Array' /\ Counted' /\ Reading'
         /\ CurrentPosition' = BufferEnd
         /\ ~flat
<1>. USE DEF Fixed
<1>1. buffer_size_after_limit = 0 /\ overflow_bytes = 0 /\ taken = total_bytes_read /\ ~flat
  BY DEF Refresh, AtLimit, Reading, BufferTypes
<1>2. BufferEnd = total_bytes_read /\ total_bytes_read <= closest_limit
  BY <1>1 DEF BufferEnd, CurrentPosition, Limited, BufferSize, BufferTypes, closest_limit, Least,
              LimitTypes
<1>3. PICK k \in 1 .. size - taken :
        LET kept == Least(k, IntMax - total_bytes_read) IN
          /\ taken' = taken + k /\ chunk' = k
          /\ buffer' = taken
          /\ total_bytes_read' = total_bytes_read + kept
          /\ overflow_bytes' = k - kept
          /\ RecomputeBufferLimits(taken + kept, total_bytes_read + kept, closest_limit)
  BY DEF Refresh
<1>4. k \in Nat /\ k >= 1 /\ taken + k <= size
  BY <1>3 DEF BufferTypes, LimitTypes
<1>5. closest_limit' = closest_limit /\ closest_limit \in 0 .. IntMax
  BY DEF closest_limit, Least, LimitTypes
<1>6. BufferTypes'
  BY <1>1, <1>2, <1>3, <1>4, <1>5, StreamAssumption
     DEF BufferTypes, RecomputeBufferLimits, Least
<1>7. CurrentPosition' = BufferEnd /\ BufferSize' >= 0
  BY <1>1, <1>2, <1>3, <1>4, <1>5, StreamAssumption
     DEF BufferTypes, RecomputeBufferLimits, Least, CurrentPosition, BufferSize
<1>8. Limited'
  BY <1>1, <1>2, <1>3, <1>4, <1>5, <1>7, StreamAssumption
     DEF BufferTypes, RecomputeBufferLimits, Least, Limited
<1>9. Array' /\ Counted' /\ Reading'
  BY <1>1, <1>2, <1>3, <1>4, <1>5, <1>7, StreamAssumption
     DEF BufferTypes, RecomputeBufferLimits, Least, Array, Counted, Reading,
         BufferSize
<1>. QED BY <1>1, <1>6, <1>7, <1>8, <1>9

(* Where Refresh() fails nothing is left to read. *)
LEMMA RefreshFailed ==
  ASSUME BufferTypes, LimitTypes, Limited, Array, Counted, Reading, RefreshFails, Fixed
  PROVE  /\ BufferTypes' /\ Limited' /\ Array' /\ Counted' /\ Reading' /\ Exhausted'
         /\ CurrentPosition' = BufferEnd /\ BufferSize' = 0
         /\ BufferEnd = Least(closest_limit, size)
<1>. USE DEF Fixed
<1>0. closest_limit' = closest_limit /\ closest_limit \in 0 .. IntMax
  BY DEF closest_limit, Least, LimitTypes
<1>1. CASE StoppedByLimit
  <2>1. /\ taken' = taken /\ buffer' = buffer_end /\ buffer_end' = buffer_end
        /\ UNCHANGED <<chunk, total_bytes_read, overflow_bytes, buffer_size_after_limit>>
    BY <1>1 DEF StoppedByLimit, Advance, inputVars, BufferSize, BufferTypes
  <2>2. /\ CurrentPosition' = BufferEnd /\ BufferSize' = 0
        /\ BufferEnd = total_bytes_read - buffer_size_after_limit
    BY <2>1 DEF CurrentPosition, BufferSize, BufferEnd, BufferTypes
  <2>3. BufferEnd = closest_limit
    BY <1>1, <2>2, <1>0
       DEF StoppedByLimit, AtLimit, Limited, Counted, BufferTypes, LimitTypes, closest_limit, Least
  <2>4. closest_limit <= size
    BY <2>2, <2>3 DEF Reading, Array, Counted, BufferTypes, LimitTypes
  <2>5. BufferTypes' /\ Limited' /\ Array' /\ Counted' /\ Reading'
    BY <2>1, <2>2, <2>3, <1>0
       DEF BufferTypes, LimitTypes, Limited, Array, Counted, Reading, BufferSize, BufferEnd, CurrentPosition
  <2>6. Exhausted' /\ BufferEnd = Least(closest_limit, size)
    BY <2>1, <2>2, <2>3, <2>4, <1>0
       DEF Exhausted, Least, Reading, BufferTypes, LimitTypes
  <2>. QED BY <2>2, <2>5, <2>6
<1>2. CASE StoppedByEnd
  <2>1. /\ taken = size /\ taken' = taken /\ total_bytes_read = taken
        /\ buffer_size_after_limit = 0 /\ overflow_bytes = 0 /\ ~flat
        /\ chunk' = 0 /\ buffer' = NoBuffer /\ buffer_end' = NoBuffer
        /\ UNCHANGED <<total_bytes_read, overflow_bytes, buffer_size_after_limit>>
    BY <1>2 DEF StoppedByEnd, AtLimit, Reading, BufferTypes
  <2>2. CurrentPosition' = BufferEnd /\ BufferSize' = 0 /\ BufferEnd = size
    BY <2>1 DEF CurrentPosition, BufferSize, BufferEnd, BufferTypes, NoBuffer
  <2>3. size <= closest_limit
    BY <2>1, <1>0 DEF Limited, LimitTypes
  <2>4. BufferTypes' /\ Limited' /\ Array' /\ Counted' /\ Reading'
    BY <2>1, <2>2, <2>3, <1>0
       DEF BufferTypes, LimitTypes, Limited, Array, Counted, Reading, NoBuffer
  <2>5. Exhausted' /\ BufferEnd = Least(closest_limit, size)
    BY <2>1, <2>2, <2>3, <1>0
       DEF Exhausted, Least, Reading, BufferTypes, LimitTypes
  <2>. QED BY <2>2, <2>4, <2>5
<1>. QED BY <1>1, <1>2 DEF RefreshFails

-----------------------------------------------------------------------------
(* The actions that leave the limits alone. *)

LEMMA FixedKeeps ==
  ASSUME Fixed, LimitTypes, Nested, legitimate_message_end' \in BOOLEAN
  PROVE  LimitTypes' /\ Nested' /\ closest_limit' = closest_limit
BY DEF Fixed, LimitTypes, Nested, closest_limit, Least

(* The call is over, or goes on from where it is. *)
LEMMA CallOver ==
  ASSUME CallTypes, pc' = "ready", begun' \in Nat, need' \in Int, Reading'
  PROVE  CallTypes' /\ Calls'
BY DEF CallTypes, Calls

LEMMA CallFailed ==
  ASSUME CallTypes, pc' = "failed", begun' \in Nat, need' \in Int, Exhausted'
  PROVE  CallTypes' /\ Calls'
BY DEF CallTypes, Calls

(* A step of GetDirectBufferPointer, TagAtEnd or the constructor. *)
LEMMA RefreshStep ==
  ASSUME IInv, Fixed, RefreshFails \/ Refresh, legitimate_message_end' \in BOOLEAN,
         pc \in {"new", "ready"}, pc' = "ready", UNCHANGED <<begun, need>>
  PROVE  IInv'
<1>1. BufferTypes' /\ Limited' /\ Array' /\ Counted' /\ Reading'
  BY Refreshed, RefreshFailed DEF IInv, Calls
<1>2. CallTypes' /\ Calls'
  BY <1>1, CallOver DEF IInv, CallTypes
<1>. QED BY <1>1, <1>2, FixedKeeps DEF IInv

LEMMA ConstructKeeps == ASSUME IInv, Construct PROVE IInv'
BY RefreshStep
   DEF Construct, Return, unchangedButBuffer, limitVars, Fixed, IInv, LimitTypes

LEMMA PointerKeeps == ASSUME IInv, GetDirectBufferPointer PROVE IInv'
BY RefreshStep
   DEF GetDirectBufferPointer, unchangedButBuffer, limitVars, callVars, Fixed, IInv, LimitTypes

LEMMA TagAtEndKeeps == ASSUME IInv, TagAtEnd PROVE IInv'
BY RefreshStep DEF TagAtEnd, EndOfMessage, limitVars, callVars, Fixed, IInv, LimitTypes

(* Bytes are taken from the buffer. *)
LEMMA Advanced ==
  ASSUME IInv, Fixed, NEW amount \in 0 .. BufferSize, Advance(amount), UNCHANGED inputVars
  PROVE  /\ BufferTypes' /\ Limited' /\ Array' /\ Counted'
         /\ (Reading => Reading')
         /\ CurrentPosition' = CurrentPosition + amount
         /\ BufferSize' = BufferSize - amount
<1>0. closest_limit' = closest_limit /\ closest_limit \in 0 .. IntMax
  BY DEF Fixed, closest_limit, Least, IInv, LimitTypes
<1>1. amount \in Int /\ 0 <= amount /\ amount <= BufferSize /\ BufferSize \in Int
  BY DEF IInv, BufferTypes, BufferSize
<1>2. /\ buffer' = buffer + amount
      /\ UNCHANGED <<taken, chunk, buffer_end, total_bytes_read, overflow_bytes,
                     buffer_size_after_limit>>
  BY DEF Advance, inputVars
<1>3. CurrentPosition' = CurrentPosition + amount /\ BufferSize' = BufferSize - amount
  BY <1>1, <1>2 DEF CurrentPosition, BufferSize, IInv, BufferTypes
<1>4. CurrentPosition + BufferSize <= closest_limit /\ CurrentPosition \in Int
  BY <1>0 DEF IInv, Limited, BufferTypes, BufferSize, CurrentPosition
<1>5. BufferTypes' /\ Limited'
  BY <1>0, <1>1, <1>2, <1>3, <1>4 DEF IInv, BufferTypes, Limited
<1>6. Array' /\ (Reading => Reading')
  BY <1>2 DEF Fixed, IInv, Array, Reading
<1>7. Counted'
  BY <1>1, <1>2, <1>3, <1>4 DEF Fixed, IInv, Counted, BufferTypes
<1>. QED BY <1>3, <1>5, <1>6, <1>7

LEMMA ReadRestKeeps == ASSUME IInv, ReadRest PROVE IInv'
<1>1. Fixed /\ legitimate_message_end' \in BOOLEAN
  BY DEF ReadRest, unchangedButBuffer, limitVars, Fixed, IInv, LimitTypes
<1>2. need \in 0 .. BufferSize
  BY DEF ReadRest, IInv, Calls, CallTypes, BufferSize, BufferTypes
<1>3. BufferTypes' /\ Limited' /\ Array' /\ Counted' /\ Reading'
  BY <1>1, <1>2, Advanced DEF ReadRest, IInv, Calls
<1>. QED BY <1>1, <1>3, FixedKeeps, CallOver DEF ReadRest, Return, IInv, CallTypes

LEMMA ReadPartKeeps == ASSUME IInv, ReadPart PROVE IInv'
<1>1. Fixed /\ legitimate_message_end' \in BOOLEAN /\ LimitTypes' /\ Nested'
  BY FixedKeeps DEF ReadPart, unchangedButBuffer, limitVars, Fixed, IInv, LimitTypes
<1>2. Reading /\ BufferSize \in Nat /\ CurrentPosition \in Nat
  BY DEF ReadPart, IInv, Calls, Limited, BufferTypes, BufferSize, CurrentPosition
<1>3. CASE Refresh /\ need' = need - BufferSize /\ UNCHANGED <<pc, begun>>
  <2>1. BufferTypes' /\ Limited' /\ Array' /\ Counted' /\ Reading' /\ CurrentPosition' = BufferEnd
    BY <1>1, <1>2, <1>3, Refreshed DEF IInv
  <2>2. CallTypes' /\ Calls'
    BY <1>2, <1>3, <2>1 DEF ReadPart, IInv, CallTypes, Calls, BufferEnd
  <2>. QED BY <1>1, <2>1, <2>2 DEF IInv
<1>4. CASE RefreshFails /\ Return(IF pc = "tag" THEN "ready" ELSE "failed")
  <2>1. BufferTypes' /\ Limited' /\ Array' /\ Counted' /\ Reading' /\ Exhausted'
    BY <1>1, <1>2, <1>4, RefreshFailed DEF IInv
  <2>2. CallTypes' /\ Calls'
    BY <1>4, <2>1, CallOver, CallFailed DEF Return, IInv, CallTypes
  <2>. QED BY <1>1, <2>1, <2>2 DEF IInv
<1>. QED BY <1>3, <1>4 DEF ReadPart

LEMMA SkipInBufferKeeps ==
  ASSUME IInv, NEW count \in 0 .. IntMax, SkipInBuffer(count)
  PROVE  IInv'
<1>1. Fixed /\ legitimate_message_end' \in BOOLEAN
  BY DEF SkipInBuffer, unchangedButBuffer, limitVars, Fixed, IInv, LimitTypes
<1>2. count \in 0 .. BufferSize
  BY StreamAssumption DEF SkipInBuffer, IInv, BufferSize, BufferTypes
<1>3. BufferTypes' /\ Limited' /\ Array' /\ Counted' /\ Reading'
  BY <1>1, <1>2, Advanced DEF SkipInBuffer, IInv, Calls
<1>. QED BY <1>1, <1>3, FixedKeeps, CallOver DEF SkipInBuffer, callVars, IInv, CallTypes

LEMMA SkipToLimitKeeps ==
  ASSUME IInv, NEW count \in 0 .. IntMax, SkipToLimit(count)
  PROVE  IInv'
<1>1. Fixed /\ legitimate_message_end' \in BOOLEAN
  BY DEF SkipToLimit, unchangedButBuffer, limitVars, Fixed, IInv, LimitTypes
<1>2. StoppedByLimit
  BY DEF SkipToLimit, StoppedByLimit, AtLimit
<1>3. BufferTypes' /\ Limited' /\ Array' /\ Counted' /\ Exhausted'
  BY <1>1, <1>2, RefreshFailed DEF RefreshFails, SkipToLimit, IInv, Calls
<1>4. begun' \in Nat /\ need' \in Int
  BY StreamAssumption
     DEF SkipToLimit, Call, IInv, Limited, BufferTypes, CurrentPosition, BufferSize
<1>. QED BY <1>1, <1>3, <1>4, FixedKeeps, CallFailed DEF SkipToLimit, Call, IInv

(* Nothing is cut off, so that all that was counted can still be read. *)
LEMMA NothingCutOff ==
  ASSUME IInv, pc = "ready", buffer_size_after_limit = 0
  PROVE  /\ BufferEnd = total_bytes_read /\ total_bytes_read <= closest_limit
         /\ taken = total_bytes_read + overflow_bytes
         /\ closest_limit \in 0 .. IntMax /\ BufferSize \in Nat /\ CurrentPosition \in Nat
BY DEF IInv, BufferTypes, LimitTypes, Limited, Calls, Reading, BufferEnd, CurrentPosition,
       BufferSize, closest_limit, Least

LEMMA SkipPastLimitKeeps ==
  ASSUME IInv, NEW count \in 0 .. IntMax, SkipPastLimit(count)
  PROVE  IInv'
<1>0. Fixed /\ legitimate_message_end' \in BOOLEAN
  BY DEF SkipPastLimit, unchangedButBuffer, limitVars, Fixed, IInv, LimitTypes
<1>1. LimitTypes' /\ Nested' /\ closest_limit' = closest_limit
  BY <1>0, FixedKeeps DEF IInv
<1>2. pc = "ready" /\ buffer_size_after_limit = 0
  BY DEF SkipPastLimit
<1>3. /\ BufferEnd = total_bytes_read /\ total_bytes_read <= closest_limit
      /\ taken = total_bytes_read + overflow_bytes
      /\ closest_limit \in 0 .. IntMax /\ BufferSize \in Nat /\ CurrentPosition \in Nat
  BY <1>2, NothingCutOff
<1>4. BufferSize' = 0 /\ buffer_size_after_limit' = 0 /\ overflow_bytes' = overflow_bytes
  BY <1>2 DEF SkipPastLimit, EmptyBuffer, BufferSize, NoBuffer
<1>5. begun' \in Nat /\ need' \in Int /\ pc' = "failed" /\ CallTypes
  BY <1>3, StreamAssumption DEF SkipPastLimit, Call, IInv
<1>6. /\ closest_limit > total_bytes_read => total_bytes_read' = closest_limit
                                             /\ taken' = Least(size, taken + closest_limit - total_bytes_read)
                                             /\ chunk' = 0
      /\ ~(closest_limit > total_bytes_read) =>
           total_bytes_read' = total_bytes_read /\ taken' = taken /\ chunk' = chunk
      /\ buffer' = NoBuffer /\ buffer_end' = NoBuffer
  BY <1>3 DEF SkipPastLimit, EmptyBuffer, inputVars, IInv, BufferTypes
<1>7. CurrentPosition' = closest_limit /\ total_bytes_read' = closest_limit
  BY <1>3, <1>4, <1>6 DEF CurrentPosition, IInv, BufferTypes
<1>8. closest_limit > total_bytes_read => overflow_bytes = 0 /\ ~flat
  BY <1>3 DEF IInv, Counted, Array, BufferTypes, LimitTypes, closest_limit, Least
<1>9. BufferTypes' /\ Limited'
  BY <1>1, <1>3, <1>4, <1>6, <1>7 DEF IInv, BufferTypes, LimitTypes, Limited, Least, NoBuffer
<1>10. Array'
  BY <1>0, <1>6, <1>8, <1>4 DEF Fixed, IInv, Array
<1>11. Counted'
  BY <1>0, <1>3, <1>4, <1>6, <1>8
     DEF Fixed, IInv, Counted, BufferTypes, LimitTypes, Least
<1>12. Exhausted'
  BY <1>0, <1>1, <1>3, <1>4, <1>6, <1>7, <1>8
     DEF Fixed, IInv, Exhausted, Counted, BufferTypes, LimitTypes, Least
<1>. QED BY <1>1, <1>5, <1>9, <1>10, <1>11, <1>12, CallFailed DEF IInv

LEMMA SkipInputKeeps ==
  ASSUME IInv, NEW count \in 0 .. IntMax, SkipInput(count)
  PROVE  IInv' \/ Strayed'
<1>0. Fixed /\ legitimate_message_end' \in BOOLEAN
  BY DEF SkipInput, unchangedButBuffer, limitVars, Fixed, IInv, LimitTypes
<1>1. LimitTypes' /\ Nested' /\ closest_limit' = closest_limit
  BY <1>0, FixedKeeps DEF IInv
<1>2. pc = "ready" /\ buffer_size_after_limit = 0 /\ ~flat /\ ~flat'
  BY <1>0 DEF SkipInput, Fixed
<1>3. /\ BufferEnd = total_bytes_read /\ total_bytes_read <= closest_limit
      /\ taken = total_bytes_read + overflow_bytes
      /\ closest_limit \in 0 .. IntMax /\ BufferSize \in Nat /\ CurrentPosition \in Nat
  BY <1>2, NothingCutOff
<1>4. /\ count - BufferSize > 0 /\ count - BufferSize <= closest_limit - total_bytes_read
      /\ taken' = Least(size, taken + (count - BufferSize)) /\ chunk' = 0
      /\ BufferSize' = 0 /\ buffer_size_after_limit' = 0 /\ overflow_bytes' = overflow_bytes
      /\ buffer' = NoBuffer /\ buffer_end' = NoBuffer
  BY DEF SkipInput, EmptyBuffer, BufferSize, NoBuffer
<1>5. overflow_bytes = 0
  BY <1>3, <1>4, StreamAssumption DEF IInv, Counted, BufferTypes
<1>6. taken' \in Nat /\ taken' <= size /\ taken' <= closest_limit
  BY <1>3, <1>4, <1>5, StreamAssumption DEF Least, IInv, BufferTypes, LimitTypes
<1>8. begun' \in Nat /\ need' \in Int /\ CallTypes
  BY <1>3, StreamAssumption DEF SkipInput, Call, IInv
<1>9. CASE taken + (count - BufferSize) <= size
  <2>1. total_bytes_read' = taken' /\ CurrentPosition' = taken'
    <3>1. total_bytes_read' = total_bytes_read + (count - BufferSize)
      BY <1>9 DEF SkipInput
    <3>. QED BY <1>3, <1>4, <1>5, <1>6, <1>9, <3>1, StreamAssumption
             DEF CurrentPosition, Least, IInv, BufferTypes, LimitTypes
  <2>2. BufferTypes'
    BY <1>3, <1>4, <1>5, <1>6, <2>1, StreamAssumption DEF BufferTypes, NoBuffer
  <2>3. Limited'
    BY <1>1, <1>3, <1>4, <1>6, <2>1 DEF Limited
  <2>4. Array' /\ Counted' /\ Reading'
    BY <1>0, <1>2, <1>4, <1>5, <1>6, <2>1 DEF Fixed, Array, Counted, Reading
  <2>. QED BY <1>1, <1>8, <1>9, <2>2, <2>3, <2>4, CallOver DEF SkipInput, Call, IInv
<1>10. CASE ~(taken + (count - BufferSize) <= size)
  <2>1. taken' = size
    BY <1>3, <1>4, <1>10 DEF Least, IInv, BufferTypes, LimitTypes
  <2>2. taken' = Least(closest_limit, size)'
    BY <2>1, <1>0, <1>1, <1>3, <1>6 DEF Least, Fixed, IInv, LimitTypes
  <2>3. pc' = "failed"
    BY <1>10 DEF SkipInput, Call
  <2>4. CallTypes'
    BY <1>8, <2>3 DEF CallTypes
  <2>. QED BY <1>1, <1>2, <1>4, <1>5, <1>6, <2>2, <2>3, <2>4 DEF Strayed
<1>. QED BY <1>9, <1>10

LEMMA BeginReadKeeps ==
  ASSUME IInv, NEW n \in 0 .. IntMax, BeginRead(n)
  PROVE  IInv'
<1>1. /\ Fixed /\ legitimate_message_end' \in BOOLEAN
      /\ UNCHANGED <<inputVars, bufferVars>>
      /\ pc = "ready" /\ pc' = "reading" /\ begun' = CurrentPosition /\ need' = n
  BY DEF BeginRead, Call, unchangedButBuffer, limitVars, Fixed, IInv, LimitTypes
<1>2. CurrentPosition' = CurrentPosition /\ CurrentPosition \in Nat
  BY <1>1 DEF CurrentPosition, BufferSize, inputVars, bufferVars, IInv, Limited, BufferTypes
<1>3. BufferTypes' /\ Limited' /\ Array' /\ Counted' /\ Reading'
  BY <1>1, <1>2, FixedKeeps
     DEF inputVars, bufferVars, Fixed, IInv, BufferTypes, Limited, Array, Counted, Reading, Calls,
         BufferSize
<1>4. CallTypes' /\ Calls'
  BY <1>1, <1>2, <1>3, StreamAssumption DEF IInv, CallTypes, Calls
<1>. QED BY <1>1, <1>3, <1>4, FixedKeeps DEF IInv

LEMMA BeginTagKeeps ==
  ASSUME IInv, NEW n \in 0 .. IntMax, BeginTag(n)
  PROVE  IInv'
<1>1. /\ Fixed /\ legitimate_message_end' \in BOOLEAN
      /\ pc = "ready" /\ pc' = "tag" /\ begun' = CurrentPosition /\ need' = n
  BY DEF BeginTag, Call, unchangedButBuffer, limitVars, Fixed, IInv, LimitTypes
<1>2. CurrentPosition \in Nat /\ BufferSize \in Nat
  BY DEF CurrentPosition, BufferSize, IInv, Limited, BufferTypes
<1>3. CASE BufferSize > 0 /\ UNCHANGED <<inputVars, bufferVars>>
  <2>1. CurrentPosition' = CurrentPosition
    BY <1>3 DEF CurrentPosition, BufferSize, bufferVars
  <2>2. BufferTypes' /\ Limited' /\ Array' /\ Counted' /\ Reading'
    BY <1>1, <1>3, <2>1, FixedKeeps
       DEF inputVars, bufferVars, Fixed, IInv, BufferTypes, Limited, Array, Counted, Reading,
           Calls, BufferSize
  <2>3. CallTypes' /\ Calls'
    BY <1>1, <1>2, <2>1, <2>2, StreamAssumption DEF IInv, CallTypes, Calls
  <2>. QED BY <1>1, <2>2, <2>3, FixedKeeps DEF IInv
<1>4. CASE BufferSize = 0 /\ Refresh
  <2>1. /\ BufferTypes' /\ Limited' /\ Array' /\ Counted' /\ Reading'
        /\ CurrentPosition' = CurrentPosition
    BY <1>1, <1>2, <1>4, Refreshed DEF IInv, Calls, BufferEnd
  <2>2. CallTypes' /\ Calls'
    BY <1>1, <1>2, <2>1, StreamAssumption DEF IInv, CallTypes, Calls
  <2>. QED BY <1>1, <2>1, <2>2, FixedKeeps DEF IInv
<1>. QED BY <1>2, <1>3, <1>4 DEF BeginTag

(* TagAtLimit and ExpectAtEnd only note the end of the message. *)
LEMMA NoteKeeps ==
  ASSUME IInv, NEW value \in BOOLEAN, EndOfMessage(value), UNCHANGED <<inputVars, bufferVars>>
  PROVE  IInv'
<1>1. Fixed /\ legitimate_message_end' \in BOOLEAN
  BY DEF EndOfMessage, limitVars, Fixed
<1>2. CurrentPosition' = CurrentPosition /\ BufferSize' = BufferSize
  BY DEF CurrentPosition, BufferSize, bufferVars
<1>3. LimitTypes' /\ Nested' /\ closest_limit' = closest_limit
  BY <1>1, FixedKeeps DEF IInv
<1>4. BufferTypes' /\ Limited' /\ Array' /\ Counted'
  BY <1>1, <1>2, <1>3
     DEF inputVars, bufferVars, Fixed, IInv, BufferTypes, Limited, Array, Counted
<1>5. CallTypes' /\ Calls'
  BY <1>1, <1>2, <1>3
     DEF EndOfMessage, callVars, inputVars, bufferVars, Fixed, IInv, CallTypes, Calls, Fresh,
         Reading, Exhausted
<1>. QED BY <1>3, <1>4, <1>5 DEF IInv

LEMMA TagAtLimitKeeps == ASSUME IInv, TagAtLimit PROVE IInv'
BY NoteKeeps DEF TagAtLimit

LEMMA ExpectAtEndKeeps == ASSUME IInv, ExpectAtEnd PROVE IInv'
BY NoteKeeps DEF ExpectAtEnd

-----------------------------------------------------------------------------
(* The actions that change a limit. *)

LEMMA SeqElements ==
  ASSUME NEW S, NEW s \in Seq(S)
  PROVE  Len(s) \in Nat /\ \A i \in 1 .. Len(s) : s[i] \in S
OBVIOUS

LEMMA SeqPushed ==
  ASSUME NEW S, NEW s \in Seq(S), NEW e \in S
  PROVE  LET t == <<e>> \o s IN
           /\ t \in Seq(S) /\ Len(t) = Len(s) + 1 /\ t[1] = e
           /\ \A i \in 2 .. Len(t) : i - 1 \in 1 .. Len(s) /\ t[i] = s[i - 1]
OBVIOUS

LEMMA SeqPopped ==
  ASSUME NEW S, NEW s \in Seq(S), s # <<>>
  PROVE  /\ Len(s) >= 1 /\ Head(s) = s[1]
         /\ Tail(s) \in Seq(S) /\ Len(Tail(s)) = Len(s) - 1
         /\ \A i \in 1 .. Len(Tail(s)) : Tail(s)[i] = s[i + 1]
OBVIOUS

(* What RecomputeBufferLimits() does after a change of a limit. *)
Recomputed ==
  /\ buffer_size_after_limit' = IF closest_limit' < total_bytes_read
                                  THEN total_bytes_read - closest_limit' ELSE 0
  /\ buffer_end' = (buffer_end + buffer_size_after_limit) - buffer_size_after_limit'

LEMMA EnforceRecomputes ==
  ASSUME NEW closest, Enforce(closest), closest = closest_limit'
  PROVE  Recomputed
BY DEF Enforce, RecomputeBufferLimits, Recomputed

(* For limits at or after the current position it moves the end of the     *)
(* buffer, not its beginning.                                              *)
LEMMA Enforced ==
  ASSUME IInv, pc = "ready", unchangedButLimits,
         current_limit' \in 0 .. IntMax, total_bytes_limit' \in 0 .. IntMax,
         CurrentPosition <= closest_limit', Recomputed
  PROVE  /\ BufferTypes' /\ Limited' /\ Counted' /\ CallTypes' /\ Calls'
         /\ CurrentPosition' = CurrentPosition
<1>1. /\ UNCHANGED <<size, flat, taken, chunk, pc, begun, need, buffer, total_bytes_read,
                     overflow_bytes>>
  BY DEF unchangedButLimits, inputVars, callVars
<1>2. closest_limit' \in 0 .. IntMax
  BY DEF closest_limit, Least
<1>3. /\ buffer_size_after_limit' = IF closest_limit' < total_bytes_read
                                      THEN total_bytes_read - closest_limit' ELSE 0
      /\ buffer_end' = (buffer_end + buffer_size_after_limit) - buffer_size_after_limit'
  BY DEF Recomputed
<1>4. BufferTypes'
  <2>0. /\ closest_limit' \in Int /\ total_bytes_read \in Int
        /\ buffer_end \in Int /\ buffer_size_after_limit \in Int
    BY <1>2, StreamAssumption DEF IInv, BufferTypes
  <2>1. buffer_size_after_limit' \in Nat
    <3>1. \A t, c \in Int : (IF c < t THEN t - c ELSE 0) \in Nat
      OBVIOUS
    <3>. QED BY <1>3, <2>0, <3>1, Zenon
  <2>2. buffer_end' \in Int
    BY <1>3, <2>0, <2>1
  <2>. QED BY <1>1, <2>1, <2>2 DEF IInv, BufferTypes
<1>5. /\ CurrentPosition' = CurrentPosition
      /\ BufferSize' + buffer_size_after_limit' = BufferSize + buffer_size_after_limit
  BY <1>1, <1>3, <1>4 DEF CurrentPosition, BufferSize, IInv, BufferTypes
<1>6. BufferSize' >= 0 /\ BufferSize' \in Int /\ BufferSize \in Int /\ CurrentPosition \in Int
  BY <1>1, <1>2, <1>3, <1>4
     DEF BufferSize, CurrentPosition, IInv, BufferTypes, Limited
<1>7. Limited'
  BY <1>1, <1>3, <1>5, <1>6 DEF IInv, Limited
<1>8. Counted'
  BY <1>1, <1>4, <1>5, <1>6 DEF IInv, Counted, BufferTypes
<1>9. CallTypes' /\ Calls'
  BY <1>1 DEF IInv, CallTypes, Calls, Reading
<1>. QED BY <1>4, <1>5, <1>7, <1>8, <1>9

LEMMA PushLimitKeeps ==
  ASSUME IInv, NEW n \in -1 .. IntMax, PushLimit(n)
  PROVE  /\ IInv' /\ CurrentPosition' = CurrentPosition
         /\ current_limit' = IF n < 0 THEN current_limit ELSE Least(current_limit, CurrentPosition + n)
<1>1. /\ pc = "ready" /\ saved' = <<current_limit>> \o saved
      /\ UNCHANGED <<size, flat, taken, total_bytes_limit, legitimate_message_end,
                     total_bytes_read, overflow_bytes>>
      /\ unchangedButLimits
  BY DEF PushLimit, unchangedButLimits, inputVars
<1>2. /\ CurrentPosition \in Nat /\ CurrentPosition <= closest_limit
      /\ current_limit \in 0 .. IntMax /\ total_bytes_limit \in 0 .. IntMax
  BY DEF IInv, Limited, LimitTypes, BufferTypes, CurrentPosition, BufferSize
<1>3. n \in Int /\ IntMax \in Nat
  BY StreamAssumption
<1>4. /\ current_limit' = IF n < 0 THEN current_limit ELSE Least(current_limit, CurrentPosition + n)
      /\ current_limit' <= current_limit /\ current_limit' \in 0 .. IntMax
      /\ CurrentPosition <= closest_limit'
  BY <1>1, <1>2, <1>3 DEF PushLimit, closest_limit, Least
<1>5. /\ BufferTypes' /\ Limited' /\ Counted' /\ CallTypes' /\ Calls'
      /\ CurrentPosition' = CurrentPosition
  <2>1. CASE Recomputed
    BY <1>1, <1>2, <1>4, <2>1, Enforced
  <2>2. CASE UNCHANGED <<current_limit, buffer_end, buffer_size_after_limit>>
    <3>1. CurrentPosition' = CurrentPosition /\ BufferSize' = BufferSize
          /\ closest_limit' = closest_limit
      BY <1>1, <2>2 DEF unchangedButLimits, CurrentPosition, BufferSize, closest_limit
    <3>. QED
      BY <1>1, <2>2, <3>1
         DEF unchangedButLimits, inputVars, callVars, IInv, BufferTypes, Limited, Counted,
             CallTypes, Calls, Reading
  <2>3. CASE Enforce(Least(current_limit', total_bytes_limit))
    BY <1>1, <2>1, <2>3, EnforceRecomputes DEF closest_limit
  <2>. QED BY <2>2, <2>3 DEF PushLimit
<1>6. /\ saved' \in Seq(0 .. IntMax) /\ Len(saved') = Len(saved) + 1 /\ saved'[1] = current_limit
      /\ \A i \in 2 .. Len(saved') : i - 1 \in 1 .. Len(saved) /\ saved'[i] = saved[i - 1]
  BY <1>1, <1>2, SeqPushed DEF IInv, LimitTypes
<1>7. LimitTypes'
  BY <1>1, <1>2, <1>4, <1>6 DEF IInv, LimitTypes
<1>8. Len(saved) \in Nat /\ \A i \in 1 .. Len(saved) : saved[i] \in 0 .. IntMax
  BY SeqElements DEF IInv, LimitTypes
<1>9. Nested'
  <2>0. Nested
    BY DEF IInv
  <2>1. ASSUME NEW i \in 1 .. Len(saved')
        PROVE  current_limit <= saved'[i] /\ saved'[i] \in 0 .. IntMax
    <3>1. i = 1 \/ i \in 2 .. Len(saved')
      BY <1>6, <1>8
    <3>2. CASE i = 1
      BY <1>2, <1>6, <3>2
    <3>3. CASE i \in 2 .. Len(saved')
      BY <1>6, <1>8, <2>0, <3>3 DEF Nested
    <3>. QED BY <3>1, <3>2, <3>3
  <2>2. \A i \in 1 .. Len(saved') : current_limit' <= saved'[i]
    BY <1>2, <1>4, <2>1
  <2>3. ASSUME NEW i \in 1 .. Len(saved'), NEW j \in 1 .. Len(saved'), i <= j
        PROVE  saved'[i] <= saved'[j]
    <3>1. CASE i = 1
      BY <1>6, <2>1, <3>1
    <3>2. CASE i # 1
      <4>1. i \in 2 .. Len(saved') /\ j \in 2 .. Len(saved') /\ i - 1 <= j - 1
        BY <1>6, <1>8, <2>3, <3>2
      <4>. QED BY <1>6, <2>0, <4>1 DEF Nested
    <3>. QED BY <3>1, <3>2
  <2>. QED BY <2>2, <2>3 DEF Nested
<1>10. Array'
  BY <1>1, <1>2, <1>4, <1>6, <1>8 DEF IInv, Array, LimitTypes
<1>. QED BY <1>4, <1>5, <1>7, <1>9, <1>10 DEF IInv

LEMMA PopLimitKeeps ==
  ASSUME IInv, PopLimit
  PROVE  IInv' /\ CurrentPosition' = CurrentPosition
<1>1. /\ pc = "ready" /\ saved' = Tail(saved) /\ saved # <<>>
      /\ current_limit' = saved[1] /\ legitimate_message_end' = FALSE
      /\ UNCHANGED <<size, flat, taken, total_bytes_limit, total_bytes_read, overflow_bytes>>
      /\ unchangedButLimits
  BY SeqPopped DEF PopLimit, unchangedButLimits, inputVars, IInv, LimitTypes
<1>2. /\ Len(saved) \in Nat /\ Len(saved) >= 1
      /\ \A i \in 1 .. Len(saved) : saved[i] \in 0 .. IntMax
      /\ saved' \in Seq(0 .. IntMax) /\ Len(saved') = Len(saved) - 1
      /\ \A i \in 1 .. Len(saved') : saved'[i] = saved[i + 1]
  BY <1>1, SeqElements, SeqPopped DEF IInv, LimitTypes
<1>3. current_limit <= current_limit' /\ current_limit' \in 0 .. IntMax
  BY <1>1, <1>2 DEF IInv, Nested
<1>4. CurrentPosition <= closest_limit' /\ Recomputed
  <2>1. CurrentPosition <= closest_limit'
    BY <1>1, <1>3, StreamAssumption
       DEF closest_limit, Least, IInv, Limited, LimitTypes, CurrentPosition, BufferSize, BufferTypes
  <2>2. Enforce(Least(current_limit', total_bytes_limit))
    BY DEF PopLimit
  <2>. QED BY <1>1, <2>1, <2>2, EnforceRecomputes DEF closest_limit
<1>5. /\ BufferTypes' /\ Limited' /\ Counted' /\ CallTypes' /\ Calls'
      /\ CurrentPosition' = CurrentPosition
  BY <1>1, <1>3, <1>4, Enforced DEF IInv, LimitTypes
<1>6. LimitTypes'
  BY <1>1, <1>2, <1>3 DEF IInv, LimitTypes
<1>7. Nested'
  BY <1>1, <1>2 DEF IInv, Nested
<1>8. Array'
  BY <1>1, <1>2 DEF IInv, Array
<1>. QED BY <1>5, <1>6, <1>7, <1>8 DEF IInv

LEMMA SetTotalKeeps ==
  ASSUME IInv, NEW n \in -1 .. IntMax, SetTotalBytesLimit(n)
  PROVE  IInv' /\ CurrentPosition' = CurrentPosition
<1>1. /\ pc = "ready"
      /\ total_bytes_limit' = IF n < CurrentPosition THEN CurrentPosition ELSE n
      /\ UNCHANGED <<size, flat, taken, current_limit, saved, legitimate_message_end,
                     total_bytes_read, overflow_bytes>>
      /\ unchangedButLimits
  BY DEF SetTotalBytesLimit, unchangedButLimits, inputVars
<1>2. /\ CurrentPosition \in Nat /\ CurrentPosition <= closest_limit
      /\ current_limit \in 0 .. IntMax /\ closest_limit <= current_limit
      /\ closest_limit \in Int
      /\ n \in Int /\ n <= IntMax /\ IntMax \in Nat
  BY StreamAssumption
     DEF IInv, Limited, LimitTypes, BufferTypes, CurrentPosition, BufferSize, closest_limit, Least
<1>3. total_bytes_limit' \in 0 .. IntMax /\ CurrentPosition <= closest_limit'
  <2>1. CurrentPosition <= current_limit /\ CurrentPosition <= IntMax
    BY <1>2, StreamAssumption DEF closest_limit, Least
  <2>. QED BY <1>1, <1>2, <2>1 DEF closest_limit, Least
<1>4. Recomputed
  <2>1. Enforce(Least(current_limit, total_bytes_limit'))
    BY DEF SetTotalBytesLimit
  <2>. QED BY <1>1, <2>1, EnforceRecomputes DEF closest_limit
<1>5. /\ BufferTypes' /\ Limited' /\ Counted' /\ CallTypes' /\ Calls'
      /\ CurrentPosition' = CurrentPosition
  BY <1>1, <1>2, <1>3, <1>4, Enforced
<1>6. LimitTypes' /\ Nested' /\ Array'
  BY <1>1, <1>3 DEF IInv, LimitTypes, Nested, Array
<1>. QED BY <1>5, <1>6 DEF IInv

LEMMA DestroyKeeps ==
  ASSUME IInv, Destroy
  PROVE  IInv'
<1>1. /\ Fixed /\ legitimate_message_end' \in BOOLEAN /\ ~flat /\ ~flat'
      /\ pc' = "closed" /\ need' = need
  BY DEF Destroy, unchangedButBuffer, limitVars, Fixed, IInv, LimitTypes
<1>2. LimitTypes' /\ Nested' /\ closest_limit' = closest_limit
  BY <1>1, FixedKeeps DEF IInv
<1>3. /\ BufferSize \in Nat /\ CurrentPosition \in Nat /\ CurrentPosition <= closest_limit
      /\ closest_limit \in 0 .. IntMax
  BY DEF IInv, Limited, BufferTypes, LimitTypes, BufferSize, CurrentPosition, closest_limit, Least
<1>4. begun' \in Nat
  BY <1>3 DEF Destroy, IInv, CallTypes
<1>5. CallTypes' /\ Calls'
  BY <1>1, <1>4 DEF IInv, CallTypes, Calls
<1>6. CASE BufferSize + buffer_size_after_limit + overflow_bytes > 0
  <2>1. /\ taken' = taken - (BufferSize + buffer_size_after_limit + overflow_bytes)
        /\ chunk' = 0 /\ buffer' = buffer /\ buffer_end' = buffer
        /\ total_bytes_read' = CurrentPosition
        /\ buffer_size_after_limit' = 0 /\ overflow_bytes' = 0
    BY <1>6 DEF Destroy, BackUpInputToCurrentPosition, CurrentPosition, IInv, BufferTypes
  <2>2. taken' \in Nat /\ taken' <= size
    BY <1>1, <1>3, <2>1
       DEF Destroy, IInv, BufferTypes, LimitTypes, Counted, Calls, Reading, Exhausted, Least,
           CurrentPosition, BufferSize
  <2>3. BufferSize' = 0 /\ CurrentPosition' = CurrentPosition
    BY <1>3, <2>1 DEF BufferSize, CurrentPosition, IInv, BufferTypes
  <2>4. BufferTypes'
    BY <1>3, <2>1, <2>2, StreamAssumption DEF IInv, BufferTypes
  <2>5. Limited' /\ Array' /\ Counted'
    BY <1>1, <1>2, <1>3, <2>1, <2>2, <2>3 DEF Fixed, Limited, Array, Counted
  <2>. QED BY <1>2, <1>5, <2>4, <2>5 DEF IInv
<1>7. CASE ~(BufferSize + buffer_size_after_limit + overflow_bytes > 0)
  <2>1. UNCHANGED <<inputVars, bufferVars>>
    BY <1>7 DEF Destroy, BackUpInputToCurrentPosition
  <2>2. CurrentPosition' = CurrentPosition /\ BufferSize' = BufferSize
    BY <2>1 DEF CurrentPosition, BufferSize, bufferVars
  <2>3. BufferTypes' /\ Limited' /\ Array' /\ Counted'
    BY <1>1, <1>2, <2>1, <2>2
       DEF inputVars, bufferVars, Fixed, IInv, BufferTypes, Limited, Array, Counted
  <2>. QED BY <1>2, <1>5, <2>3 DEF IInv
<1>. QED BY <1>6, <1>7

-----------------------------------------------------------------------------
(* The invariant and what follows from it. *)

(* A stream that strayed can only be destroyed. *)
LEMMA StrayedStep ==
  ASSUME Strayed, [StreamNext]_streamVars
  PROVE  /\ Strayed'
         /\ \/ Destroy /\ pc = "failed" /\ UNCHANGED <<inputVars, bufferVars>>
            \/ UNCHANGED streamVars
<1>1. CASE Destroy
  <2>1. BufferSize + buffer_size_after_limit + overflow_bytes = 0
    BY DEF Strayed, BufferSize, NoBuffer
  <2>2. UNCHANGED <<inputVars, bufferVars>>
    BY <1>1, <2>1 DEF Destroy, BackUpInputToCurrentPosition
  <2>3. pc = "failed" /\ pc' = "closed" /\ begun' = begun /\ need' = need
        /\ UNCHANGED <<size, flat, limitVars, legitimate_message_end>>
    BY <1>1 DEF Destroy, Strayed, unchangedButBuffer
  <2>. QED BY <1>1, <2>2, <2>3 DEF Strayed, LimitTypes, CallTypes, inputVars, bufferVars, limitVars
<1>2. CASE UNCHANGED streamVars
  BY <1>2 DEF streamVars, inputVars, bufferVars, limitVars, callVars, Strayed, LimitTypes,
              CallTypes, closest_limit
<1>3. ~Destroy => ~StreamNext
  BY DEF Strayed, StreamNext, Construct, GetDirectBufferPointer, Skip, SkipInBuffer, SkipToLimit,
         SkipPastLimit, SkipInput, BeginRead, BeginTag, ReadPart, ReadRest, TagAtLimit, TagAtEnd,
         ExpectAtEnd, PushLimit, SetTotalBytesLimit, PopLimit
<1>. QED BY <1>1, <1>2, <1>3

LEMMA StepKeeps ==
  ASSUME IInv, [StreamNext]_streamVars
  PROVE  IInv' \/ Strayed'
<1>1. CASE StreamNext
  <2>1. CASE \E n \in 0 .. IntMax : Skip(n) \/ BeginRead(n) \/ BeginTag(n)
    BY <2>1, SkipInBufferKeeps, SkipToLimitKeeps, SkipPastLimitKeeps, SkipInputKeeps,
       BeginReadKeeps, BeginTagKeeps DEF Skip
  <2>2. CASE Construct \/ GetDirectBufferPointer \/ ReadPart \/ ReadRest
    BY <2>2, ConstructKeeps, PointerKeeps, ReadPartKeeps, ReadRestKeeps
  <2>3. CASE TagAtLimit \/ TagAtEnd \/ ExpectAtEnd
    BY <2>3, TagAtLimitKeeps, TagAtEndKeeps, ExpectAtEndKeeps
  <2>4. CASE \E n \in -1 .. IntMax : PushLimit(n) \/ SetTotalBytesLimit(n)
    BY <2>4, PushLimitKeeps, SetTotalKeeps
  <2>5. CASE PopLimit \/ Destroy
    BY <2>5, PopLimitKeeps, DestroyKeeps
  <2>. QED BY <1>1, <2>1, <2>2, <2>3, <2>4, <2>5 DEF StreamNext
<1>2. CASE UNCHANGED streamVars
  BY <1>2
     DEF streamVars, inputVars, bufferVars, limitVars, callVars, IInv, BufferTypes, LimitTypes,
         CallTypes, Limited, Nested, Array, Counted, Calls, Fresh, Reading, Exhausted,
         BufferSize, CurrentPosition, closest_limit
<1>. QED BY <1>1, <1>2

LEMMA Inductive == StreamSpec => [](IInv \/ Strayed)
<1>1. StreamInit => IInv
  BY InitEstablished
<1>2. (IInv \/ Strayed) /\ [StreamNext]_streamVars => (IInv \/ Strayed)'
  BY StepKeeps, StrayedStep
<1>. QED BY <1>1, <1>2, PTL DEF StreamSpec

(* The buffer is never negative, holds the input from the current position *)
(* on, and no more than the input gave is ever given back, for every       *)
(* INT_MAX, length of input and way of cutting it into chunks.             *)
THEOREM Buffer == StreamSpec => []BufferIsTheInput
<1>1. IInv \/ Strayed => BufferIsTheInput
  BY DEF IInv, Limited, Counted, Strayed, BufferSize, NoBuffer, BufferIsTheInput
<1>. QED BY <1>1, Inductive, PTL

(* Over an array of any length no limit a caller can push, pop or set      *)
(* leads to input_, which is NULL.                                         *)
THEOREM NeverAsks == StreamSpec => []ArrayNeverAsks
<1>1. IInv \/ Strayed => ArrayNeverAsks
  <2>1. SUFFICES ASSUME IInv, flat PROVE AtLimit /\ closest_limit <= total_bytes_read
    BY DEF ArrayNeverAsks, Strayed
  <2>2. total_bytes_read = size /\ current_limit <= size /\ current_limit \in Nat
        /\ total_bytes_limit \in Nat /\ size \in Nat
    BY <2>1 DEF IInv, Array, LimitTypes
  <2>. QED BY <2>1, <2>2 DEF IInv, Limited, AtLimit, closest_limit, Least
<1>. QED BY <1>1, Inductive, PTL

-----------------------------------------------------------------------------
(* Every step is one of a position within limits, or no step. *)

(* What the steps of the stream need to know. *)
LEMMA Within ==
  ASSUME IInv
  PROVE  /\ Stream!Bound = Least(closest_limit, size)
         /\ closest_limit = Stream!Least(current_limit, total_bytes_limit)
         /\ CurrentPosition \in Nat /\ BufferSize \in Nat /\ begun \in Nat /\ need \in Int
         /\ size \in Nat /\ IntMax \in Nat /\ closest_limit \in 0 .. IntMax
         /\ current_limit \in 0 .. IntMax /\ total_bytes_limit \in 0 .. IntMax
         /\ BufferEnd = CurrentPosition + BufferSize
         /\ BufferEnd = total_bytes_read - buffer_size_after_limit
         /\ BufferEnd <= closest_limit
         /\ Reading => BufferEnd <= size
<1>1. /\ Stream!Bound = Least(closest_limit, size)
      /\ closest_limit = Stream!Least(current_limit, total_bytes_limit)
  BY DEF Stream!Bound, Stream!Least, Least, closest_limit
<1>2. /\ CurrentPosition \in Nat /\ BufferSize \in Nat /\ begun \in Nat /\ need \in Int
      /\ size \in Nat /\ IntMax \in Nat /\ closest_limit \in 0 .. IntMax
      /\ current_limit \in 0 .. IntMax /\ total_bytes_limit \in 0 .. IntMax
  BY StreamAssumption
     DEF IInv, BufferTypes, LimitTypes, CallTypes, Limited, CurrentPosition, BufferSize,
         closest_limit, Least
<1>3. BufferEnd = total_bytes_read - buffer_size_after_limit
  BY DEF BufferEnd, CurrentPosition, BufferSize, IInv, BufferTypes
<1>4. BufferEnd <= closest_limit /\ (Reading => BufferEnd <= size)
  BY <1>2, <1>3 DEF IInv, Limited, Counted, Reading, BufferTypes
<1>. QED BY <1>1, <1>2, <1>3, <1>4 DEF BufferEnd

LEMMA InitMaps == StreamInit => Stream!Init
<1>1. SUFFICES ASSUME StreamInit PROVE Stream!Init
  OBVIOUS
<1>2. size \in Nat /\ IntMax \in Nat
  BY <1>1, StreamAssumption DEF StreamInit
<1>3. CurrentPosition = 0
  BY <1>1, <1>2 DEF StreamInit, CurrentPosition, BufferSize, NoBuffer
<1>4. current_limit \in {IntMax, Stream!Least(size, IntMax)}
  BY <1>1, <1>2 DEF StreamInit, Stream!Least
<1>. QED BY <1>1, <1>3, <1>4 DEF StreamInit, Stream!Init, Stream!Nowhere

(* Refresh() outside a call moves nothing. *)
LEMMA RefreshStutters ==
  ASSUME IInv, Fixed, RefreshFails \/ Refresh, pc \in {"new", "ready"}, BufferSize = 0
  PROVE  CurrentPosition' = CurrentPosition
BY Refreshed, RefreshFailed, Within DEF IInv, Calls

LEMMA ConstructMaps == ASSUME IInv, Construct PROVE UNCHANGED Stream!vars
<1>1. Fixed /\ BufferSize = 0
  BY DEF Construct, unchangedButBuffer, limitVars, Fixed, IInv, Calls, Fresh
<1>. QED BY <1>1, RefreshStutters DEF Construct, Return, unchangedButBuffer, Fixed, Stream!vars

LEMMA PointerMaps == ASSUME IInv, GetDirectBufferPointer PROVE UNCHANGED Stream!vars
<1>1. Fixed
  BY DEF GetDirectBufferPointer, unchangedButBuffer, limitVars, Fixed
<1>. QED BY <1>1, RefreshStutters
         DEF GetDirectBufferPointer, callVars, unchangedButBuffer, Fixed, Stream!vars

LEMMA SkipInBufferMaps ==
  ASSUME IInv, NEW count \in 0 .. IntMax, SkipInBuffer(count)
  PROVE  Stream!Take(count)
<1>1. Fixed /\ count \in 0 .. BufferSize /\ pc = "ready" /\ Reading
  BY StreamAssumption
     DEF SkipInBuffer, unchangedButBuffer, limitVars, Fixed, IInv, BufferSize, BufferTypes, Calls
<1>2. CurrentPosition' = CurrentPosition + count
  BY <1>1, Advanced DEF SkipInBuffer
<1>3. CurrentPosition + count <= Stream!Bound
  BY <1>1, Within DEF Least
<1>. QED BY <1>1, <1>2, <1>3
         DEF SkipInBuffer, callVars, unchangedButBuffer, Fixed, Stream!Take, Stream!Bound

(* A call that fails: it asked for more than there is. *)
LEMMA FailureMaps ==
  ASSUME Fixed, pc \notin {"failed", "closed"}, pc' = "failed",
         UNCHANGED legitimate_message_end, NEW n \in 0 .. IntMax,
         begun' = IF pc \in {"new", "ready"} THEN CurrentPosition ELSE begun,
         begun' + n > Stream!Bound
  PROVE  Stream!Break(n)
BY DEF Fixed, Stream!Break, Stream!Bound

LEMMA SkipToLimitMaps ==
  ASSUME IInv, NEW count \in 0 .. IntMax, SkipToLimit(count)
  PROVE  Stream!Break(count)
<1>1. Fixed /\ pc = "ready" /\ pc' = "failed" /\ begun' = CurrentPosition
      /\ UNCHANGED legitimate_message_end
  BY DEF SkipToLimit, unchangedButBuffer, limitVars, Fixed, Call
<1>2. BufferEnd = closest_limit /\ count > BufferSize
  BY Within DEF SkipToLimit, IInv, Limited, BufferTypes
<1>3. begun' + count > Stream!Bound
  BY <1>1, <1>2, Within, StreamAssumption DEF Least
<1>. QED BY <1>1, <1>3, FailureMaps

LEMMA SkipPastLimitMaps ==
  ASSUME IInv, NEW count \in 0 .. IntMax, SkipPastLimit(count)
  PROVE  Stream!Break(count)
<1>1. Fixed /\ pc = "ready" /\ pc' = "failed" /\ begun' = CurrentPosition
      /\ UNCHANGED legitimate_message_end
  BY DEF SkipPastLimit, unchangedButBuffer, limitVars, Fixed, Call
<1>2. begun' + count > Stream!Bound
  BY <1>1, Within, StreamAssumption DEF SkipPastLimit, Least, IInv, BufferTypes
<1>. QED BY <1>1, <1>2, FailureMaps

LEMMA SkipInputMaps ==
  ASSUME IInv, NEW count \in 0 .. IntMax, SkipInput(count)
  PROVE  Stream!Take(count) \/ Stream!Break(count)
<1>1. /\ Fixed /\ pc = "ready" /\ begun' = CurrentPosition /\ UNCHANGED legitimate_message_end
      /\ pc' = IF taken + (count - BufferSize) <= size THEN "ready" ELSE "failed"
      /\ count - BufferSize > 0 /\ count - BufferSize <= closest_limit - total_bytes_read
      /\ taken' = Least(size, taken + (count - BufferSize)) /\ buffer_size_after_limit = 0
      /\ taken + (count - BufferSize) <= size =>
           total_bytes_read' = total_bytes_read + (count - BufferSize)
      /\ BufferSize' = 0 /\ buffer_size_after_limit' = 0
  BY DEF SkipInput, unchangedButBuffer, limitVars, Fixed, Call, EmptyBuffer, BufferSize, NoBuffer
<1>2. /\ taken \in Nat /\ total_bytes_read \in Nat /\ overflow_bytes = 0
      /\ taken = total_bytes_read /\ BufferEnd = total_bytes_read /\ count \in Nat
  BY <1>1, Within, NothingCutOff, StreamAssumption DEF IInv, Counted, BufferTypes
<1>3. CASE taken + (count - BufferSize) <= size
  <2>1. taken' = CurrentPosition + count /\ taken' <= size /\ taken' <= closest_limit
    BY <1>1, <1>2, <1>3, Within DEF Least
  <2>2. CurrentPosition' = CurrentPosition + count /\ CurrentPosition + count <= Stream!Bound
    BY <1>1, <1>2, <2>1, Within DEF CurrentPosition, Least
  <2>. QED BY <1>1, <1>3, <2>2 DEF Fixed, Stream!Take, Stream!Bound
<1>4. CASE ~(taken + (count - BufferSize) <= size)
  <2>1. CurrentPosition + count > Stream!Bound
    BY <1>1, <1>2, <1>4, Within DEF Least
  <2>. QED BY <1>1, <1>4, <2>1, FailureMaps
<1>. QED BY <1>3, <1>4

LEMMA BeginReadMaps ==
  ASSUME IInv, NEW n \in 0 .. IntMax, BeginRead(n)
  PROVE  UNCHANGED Stream!vars
BY DEF BeginRead, Call, unchangedButBuffer, limitVars, CurrentPosition, Stream!vars

LEMMA BeginTagMaps ==
  ASSUME IInv, NEW n \in 0 .. IntMax, BeginTag(n)
  PROVE  UNCHANGED Stream!vars
BY DEF BeginTag, Call, unchangedButBuffer, limitVars, CurrentPosition, Stream!vars

LEMMA ReadRestMaps ==
  ASSUME IInv, ReadRest
  PROVE  \E n \in 0 .. IntMax : Stream!Take(n)
<1>1. /\ Fixed /\ need \in 0 .. BufferSize /\ pc \in {"reading", "tag"} /\ Reading
      /\ pc' = "ready" /\ UNCHANGED legitimate_message_end
  BY DEF ReadRest, Return, unchangedButBuffer, limitVars, Fixed, IInv, Calls, CallTypes,
         BufferSize, BufferTypes
<1>2. CurrentPosition' = CurrentPosition + need
  BY <1>1, Advanced DEF ReadRest
<1>3. CurrentPosition + need - begun \in 0 .. IntMax
  BY <1>1 DEF IInv, Calls
<1>4. CurrentPosition + need <= Stream!Bound
  BY <1>1, Within DEF Least
<1>5. CurrentPosition' = begun + (CurrentPosition + need - begun)
  BY <1>1, <1>2, Within
<1>6. Stream!Take(CurrentPosition + need - begun)
  BY <1>1, <1>2, <1>4, <1>5 DEF Fixed, Stream!Take, Stream!Bound
<1>. QED BY <1>3, <1>6

LEMMA ReadPartMaps ==
  ASSUME IInv, ReadPart
  PROVE  \/ UNCHANGED Stream!vars
         \/ Stream!CutTag
         \/ \E n \in 0 .. IntMax : Stream!Break(n)
<1>1. /\ Fixed /\ pc \in {"reading", "tag"} /\ Reading /\ BufferSize < need
      /\ UNCHANGED <<legitimate_message_end, begun>>
  BY DEF ReadPart, Return, unchangedButBuffer, limitVars, Fixed, IInv, Calls
<1>2. CASE UNCHANGED pc
  BY <1>1, <1>2 DEF Fixed, Stream!vars
<1>3. CASE RefreshFails /\ Return(IF pc = "tag" THEN "ready" ELSE "failed")
  <2>1. CurrentPosition' = Stream!Bound /\ BufferEnd = Stream!Bound
    BY <1>1, <1>3, RefreshFailed, Within DEF IInv
  <2>2. CASE pc = "tag"
    BY <1>1, <1>3, <2>1, <2>2 DEF Return, Fixed, Stream!CutTag, Stream!Bound
  <2>3. CASE pc = "reading"
    <3>1. CurrentPosition + need - begun \in 0 .. IntMax
      BY <1>1 DEF IInv, Calls
    <3>2. begun' + (CurrentPosition + need - begun) > Stream!Bound
      BY <1>1, <2>1, Within DEF Least
    <3>. QED BY <1>1, <1>3, <2>3, <3>1, <3>2, FailureMaps DEF Return
  <2>. QED BY <1>1, <2>2, <2>3
<1>. QED BY <1>2, <1>3 DEF ReadPart

LEMMA TagAtLimitMaps == ASSUME IInv, TagAtLimit PROVE Stream!NoTag
<1>1. /\ Fixed /\ pc = "ready" /\ Reading /\ BufferSize = 0
      /\ UNCHANGED <<inputVars, bufferVars, callVars>> /\ legitimate_message_end' = TRUE
      /\ buffer_size_after_limit > 0 \/ total_bytes_read = current_limit
      /\ total_bytes_read - buffer_size_after_limit < total_bytes_limit
  BY DEF TagAtLimit, EndOfMessage, limitVars, Fixed, IInv, Calls
<1>2. CurrentPosition' = CurrentPosition
  BY <1>1 DEF CurrentPosition, BufferSize, bufferVars
<1>3. CurrentPosition = Stream!Bound /\ CurrentPosition < total_bytes_limit
  BY <1>1, Within DEF Least, Stream!Least, IInv, Limited, BufferTypes
<1>. QED BY <1>1, <1>2, <1>3 DEF callVars, Fixed, Stream!NoTag, Stream!Bound

LEMMA TagAtEndMaps == ASSUME IInv, TagAtEnd PROVE Stream!NoTag
<1>1. /\ Fixed /\ pc = "ready" /\ Reading /\ BufferSize = 0 /\ RefreshFails
      /\ UNCHANGED callVars
      /\ legitimate_message_end' =
           (total_bytes_read - buffer_size_after_limit >= total_bytes_limit
              => current_limit = total_bytes_limit)
  BY DEF TagAtEnd, EndOfMessage, limitVars, Fixed, IInv, Calls
<1>2. /\ CurrentPosition' = CurrentPosition /\ CurrentPosition = Stream!Bound
      /\ CurrentPosition = total_bytes_read - buffer_size_after_limit
  BY <1>1, RefreshFailed, Within DEF IInv
<1>3. legitimate_message_end' =
        (CurrentPosition < total_bytes_limit \/ current_limit = total_bytes_limit)
  BY <1>1, <1>2, Within
<1>. QED BY <1>1, <1>2, <1>3 DEF callVars, Fixed, Stream!NoTag, Stream!Bound

LEMMA ExpectAtEndMaps == ASSUME IInv, ExpectAtEnd PROVE Stream!ExpectAtEnd
<1>1. /\ Fixed /\ pc = "ready" /\ Reading /\ BufferSize = 0
      /\ UNCHANGED <<inputVars, bufferVars, callVars>> /\ legitimate_message_end' = TRUE
      /\ buffer_size_after_limit # 0 \/ total_bytes_read = current_limit
  BY DEF ExpectAtEnd, EndOfMessage, limitVars, Fixed, IInv, Calls
<1>2. CurrentPosition' = CurrentPosition
  BY <1>1 DEF CurrentPosition, BufferSize, bufferVars
<1>3. CurrentPosition = closest_limit
  BY <1>1, Within DEF Stream!Least, IInv, Limited, BufferTypes
<1>. QED BY <1>1, <1>2, <1>3, Within DEF callVars, Fixed, Stream!ExpectAtEnd

LEMMA PushLimitMaps ==
  ASSUME IInv, NEW n \in -1 .. IntMax, PushLimit(n)
  PROVE  Stream!PushLimit(n)
<1>1. /\ pc = "ready" /\ saved' = <<current_limit>> \o saved
      /\ UNCHANGED <<size, callVars, total_bytes_limit, legitimate_message_end>>
  BY DEF PushLimit, unchangedButLimits
<1>2. /\ CurrentPosition' = CurrentPosition
      /\ current_limit' = IF n < 0 THEN current_limit ELSE Stream!Least(current_limit, CurrentPosition + n)
  BY PushLimitKeeps DEF Least, Stream!Least
<1>. QED BY <1>1, <1>2 DEF callVars, Stream!PushLimit

LEMMA PopLimitMaps == ASSUME IInv, PopLimit PROVE Stream!PopLimit
<1>1. /\ pc = "ready" /\ saved # <<>> /\ current_limit' = Head(saved) /\ saved' = Tail(saved)
      /\ UNCHANGED <<size, callVars, total_bytes_limit>> /\ legitimate_message_end' = FALSE
  BY DEF PopLimit, unchangedButLimits
<1>2. CurrentPosition' = CurrentPosition
  BY PopLimitKeeps
<1>. QED BY <1>1, <1>2 DEF callVars, Stream!PopLimit

LEMMA SetTotalMaps ==
  ASSUME IInv, NEW n \in -1 .. IntMax, SetTotalBytesLimit(n)
  PROVE  Stream!SetTotalBytesLimit(n)
<1>1. /\ pc = "ready"
      /\ total_bytes_limit' = IF n < CurrentPosition THEN CurrentPosition ELSE n
      /\ UNCHANGED <<size, callVars, current_limit, saved, legitimate_message_end>>
  BY DEF SetTotalBytesLimit, unchangedButLimits
<1>2. CurrentPosition' = CurrentPosition
  BY SetTotalKeeps
<1>. QED BY <1>1, <1>2 DEF callVars, Stream!SetTotalBytesLimit

LEMMA DestroyMaps == ASSUME IInv, Destroy PROVE Stream!Close
<1>1. /\ Fixed /\ pc \in {"ready", "failed"} /\ pc' = "closed"
      /\ begun' = IF pc = "ready" THEN CurrentPosition ELSE begun
      /\ UNCHANGED legitimate_message_end
  BY DEF Destroy, unchangedButBuffer, limitVars, Fixed
<1>2. taken' = taken - (BufferSize + buffer_size_after_limit + overflow_bytes)
  <2>1. BufferSize + buffer_size_after_limit + overflow_bytes >= 0
    BY Within DEF IInv, BufferTypes
  <2>. QED BY <2>1, Within
           DEF Destroy, BackUpInputToCurrentPosition, inputVars, IInv, BufferTypes
<1>3. pc = "ready" => taken' = CurrentPosition
  BY <1>2, Within DEF IInv, Calls, Reading, BufferTypes
<1>4. pc = "failed" => taken' = Stream!Bound
  BY <1>2, Within DEF IInv, Calls, Exhausted
<1>. QED BY <1>1, <1>3, <1>4 DEF Fixed, Stream!Close, Stream!Bound

LEMMA StrayedMaps ==
  ASSUME Strayed, [StreamNext]_streamVars
  PROVE  [Stream!Next]_(Stream!vars)
<1>1. CASE Destroy /\ pc = "failed" /\ UNCHANGED <<inputVars, bufferVars>>
  <2>1. taken' = Stream!Bound
    BY <1>1 DEF Strayed, inputVars, Stream!Bound, Stream!Least, Least, closest_limit
  <2>2. pc' = "closed" /\ begun' = begun
        /\ UNCHANGED <<size, flat, limitVars, legitimate_message_end>>
    BY <1>1 DEF Destroy, unchangedButBuffer
  <2>3. Stream!Close
    BY <1>1, <2>1, <2>2 DEF limitVars, Stream!Close, Stream!Bound
  <2>. QED BY <2>3 DEF Stream!Next
<1>2. CASE UNCHANGED streamVars
  BY <1>2 DEF streamVars, inputVars, bufferVars, limitVars, callVars, CurrentPosition,
              BufferSize, Stream!vars
<1>. QED BY <1>1, <1>2, StrayedStep

LEMMA StepMaps ==
  ASSUME IInv, [StreamNext]_streamVars
  PROVE  [Stream!Next]_(Stream!vars)
<1>1. CASE \E n \in 0 .. IntMax : Skip(n) \/ BeginRead(n) \/ BeginTag(n)
  BY <1>1, SkipInBufferMaps, SkipToLimitMaps, SkipPastLimitMaps, SkipInputMaps,
     BeginReadMaps, BeginTagMaps DEF Skip, Stream!Next
<1>2. CASE Construct \/ GetDirectBufferPointer
  BY <1>2, ConstructMaps, PointerMaps
<1>3. CASE ReadPart \/ ReadRest
  BY <1>3, ReadPartMaps, ReadRestMaps DEF Stream!Next
<1>4. CASE TagAtLimit \/ TagAtEnd \/ ExpectAtEnd
  BY <1>4, TagAtLimitMaps, TagAtEndMaps, ExpectAtEndMaps DEF Stream!Next
<1>5. CASE \E n \in -1 .. IntMax : PushLimit(n) \/ SetTotalBytesLimit(n)
  BY <1>5, PushLimitMaps, SetTotalMaps DEF Stream!Next
<1>6. CASE PopLimit \/ Destroy
  BY <1>6, PopLimitMaps, DestroyMaps DEF Stream!Next
<1>7. CASE UNCHANGED streamVars
  BY <1>7 DEF streamVars, inputVars, bufferVars, limitVars, callVars, CurrentPosition,
              BufferSize, Stream!vars
<1>. QED BY <1>1, <1>2, <1>3, <1>4, <1>5, <1>6, <1>7 DEF StreamNext

(* Whatever its chunks, limits and failures, the stream is one position    *)
(* within limits, and leaves its input at that position.                   *)
THEOREM Implements == StreamSpec => ImplementsStream
<1>1. StreamInit => Stream!Init
  BY InitMaps
<1>2. (IInv \/ Strayed) /\ [StreamNext]_streamVars => [Stream!Next]_(Stream!vars)
  BY StepMaps, StrayedMaps
<1>. QED BY <1>1, <1>2, Inductive, PTL DEF StreamSpec, ImplementsStream, Stream!Spec

=============================================================================
