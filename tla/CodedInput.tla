----------------------------- MODULE CodedInput -----------------------------
(***************************************************************************)
(* CodedInputStream (google/protobuf/io/coded_stream): reads an input that *)
(* comes in chunks, or a flat array, within limits.  buffer_ is the offset *)
(* in the input of the byte it points at.  A call that goes through        *)
(* several chunks is several steps.  Values are their number of bytes.     *)
(*                                                                         *)
(* The ZeroCopyInputStream underneath is external: Next() hands out the    *)
(* next chunk, of any size but none (NextNonEmpty), or finds the end.      *)
(***************************************************************************)
EXTENDS Integers, Sequences

CONSTANTS
  IntMax,     \* INT_MAX
  Sizes,      \* lengths an input may have; more than INT_MAX is possible
  Origins,    \* what it may have given before this stream was made
  LimitBound  \* limits pushed at a time in the model

ASSUME StreamAssumption ==
  /\ IntMax \in Nat \ {0}
  /\ Sizes \subseteq Nat
  /\ Origins \subseteq Nat /\ Origins # {}
  /\ LimitBound \in Nat

VARIABLES
  size, flat,             \* of the input; flat: an array, input_ is NULL
  taken,                  \* of the input, by this stream
  chunk,                  \* how much of the last Next() may be backed up
  buffer, buffer_end,     \* buffer_ and buffer_end_
  total_bytes_read, overflow_bytes, buffer_size_after_limit,
  current_limit, total_bytes_limit, legitimate_message_end,
  saved,                  \* what PushLimit returned, in the callers' frames
  pc,                     \* "new", "ready", "reading", "tag", "failed" or "closed"
  begun,                  \* where the call under way began
  need                    \* bytes it has still to read

inputVars == <<taken, chunk>>
bufferVars == <<buffer, buffer_end, total_bytes_read, overflow_bytes, buffer_size_after_limit>>
limitVars == <<current_limit, total_bytes_limit, saved>>
callVars == <<pc, begun, need>>
streamVars == <<size, flat, inputVars, bufferVars, limitVars, legitimate_message_end, callVars>>

NoBuffer == -1  \* NULL

Least(a, b) == IF a < b THEN a ELSE b

BufferSize == buffer_end - buffer
CurrentPosition == total_bytes_read - (BufferSize + buffer_size_after_limit)
closest_limit == Least(current_limit, total_bytes_limit)

StreamInit ==
  /\ size \in Sizes
  /\ flat \in BOOLEAN
  /\ flat => size <= IntMax
  /\ taken = (IF flat THEN size ELSE 0) /\ chunk = 0
  /\ buffer = (IF flat THEN 0 ELSE NoBuffer)
  /\ buffer_end = (IF flat THEN size ELSE NoBuffer)
  /\ total_bytes_read = (IF flat THEN size ELSE 0)
  /\ overflow_bytes = 0 /\ buffer_size_after_limit = 0
  /\ current_limit = (IF flat THEN size ELSE IntMax)
  /\ total_bytes_limit = IntMax
  /\ legitimate_message_end = FALSE
  /\ saved = <<>>
  /\ pc = (IF flat THEN "ready" ELSE "new")
  /\ begun = 0 /\ need = 0

-----------------------------------------------------------------------------
(* The buffer. *)

Advance(amount) ==
  /\ buffer' = buffer + amount
  /\ UNCHANGED <<buffer_end, total_bytes_read, overflow_bytes, buffer_size_after_limit>>

(* With `end` the end of the chunk as far as it was counted, `read` the    *)
(* bytes counted, and `closest` the nearer limit.                          *)
RecomputeBufferLimits(end, read, closest) ==
  /\ buffer_size_after_limit' = IF closest < read THEN read - closest ELSE 0
  /\ buffer_end' = end - buffer_size_after_limit'

(* A limit was hit: Refresh() does not ask the input. *)
AtLimit ==
  \/ buffer_size_after_limit > 0
  \/ overflow_bytes > 0
  \/ total_bytes_read = current_limit

StoppedByLimit ==
  /\ AtLimit
  /\ Advance(BufferSize)
  /\ UNCHANGED inputVars

StoppedByEnd ==
  /\ ~AtLimit /\ ~flat /\ taken = size
  /\ buffer' = NoBuffer /\ buffer_end' = NoBuffer
  /\ chunk' = 0
  /\ UNCHANGED <<taken, total_bytes_read, overflow_bytes, buffer_size_after_limit>>

(* What is left of the buffer is passed over, and Refresh() fails. *)
RefreshFails == StoppedByLimit \/ StoppedByEnd

(* Mutated: bytes beyond INT_MAX are forgotten. *)
RefreshForgetting ==
  /\ ~AtLimit /\ ~flat
  /\ \E k \in 1 .. size - taken :
       LET kept == Least(k, IntMax - total_bytes_read) IN
         /\ taken' = taken + k /\ chunk' = k
         /\ buffer' = taken
         /\ total_bytes_read' = total_bytes_read + kept
         /\ overflow_bytes' = 0
         /\ RecomputeBufferLimits(taken + kept, total_bytes_read + kept, closest_limit)

(* Refresh() gets a chunk of k bytes, of which those beyond INT_MAX are    *)
(* only remembered.                                                        *)
Refresh ==
  /\ ~AtLimit /\ ~flat
  /\ \E k \in 1 .. size - taken :
       LET kept == Least(k, IntMax - total_bytes_read) IN
         /\ taken' = taken + k /\ chunk' = k
         /\ buffer' = taken
         /\ total_bytes_read' = total_bytes_read + kept
         /\ overflow_bytes' = k - kept
         /\ RecomputeBufferLimits(taken + kept, total_bytes_read + kept, closest_limit)

Return(to) == pc' = to /\ UNCHANGED <<begun, need>>
Call(to, n) == pc' = to /\ begun' = CurrentPosition /\ need' = n
unchangedButBuffer == UNCHANGED <<size, flat, limitVars, legitimate_message_end>>

(* The constructor refreshes at once. *)
Construct ==
  /\ pc = "new"
  /\ RefreshFails \/ Refresh
  /\ Return("ready")
  /\ unchangedButBuffer

(* The pointer itself, which the model does not use, or an empty buffer.   *)
GetDirectBufferPointer ==
  /\ pc = "ready"
  /\ BufferSize = 0
  /\ RefreshFails \/ Refresh
  /\ UNCHANGED callVars
  /\ unchangedButBuffer

-----------------------------------------------------------------------------
(* Skip, ReadRaw, ReadString, and the varints read like them. *)

(* A negative count returns false at once. *)
SkipInBuffer(count) ==
  /\ pc = "ready" /\ count <= BufferSize
  /\ Advance(count)
  /\ UNCHANGED <<inputVars, callVars>> /\ unchangedButBuffer

SkipToLimit(count) ==
  /\ pc = "ready" /\ count > BufferSize /\ buffer_size_after_limit > 0
  /\ Advance(BufferSize)
  /\ Call("failed", count)
  /\ UNCHANGED inputVars /\ unchangedButBuffer

(* The rest of the input is skipped without reading it. *)
EmptyBuffer ==
  /\ buffer' = NoBuffer /\ buffer_end' = NoBuffer
  /\ UNCHANGED <<overflow_bytes, buffer_size_after_limit>>

(* Up to the limit and no further; whether the input had so much is not    *)
(* looked at.                                                              *)
SkipPastLimit(count) ==
  LET left == closest_limit - total_bytes_read IN
  /\ pc = "ready" /\ count > BufferSize /\ buffer_size_after_limit = 0
  /\ left < count - BufferSize
  /\ IF left > 0
       THEN /\ total_bytes_read' = closest_limit
            /\ taken' = Least(size, taken + left) /\ chunk' = 0
       ELSE UNCHANGED <<total_bytes_read, inputVars>>
  /\ EmptyBuffer
  /\ Call("failed", count)
  /\ unchangedButBuffer

(* An int64 as an int. *)
AsInt(n) == ((n + IntMax + 1) % (2 * (IntMax + 1))) - (IntMax + 1)

(* Where the input ends, total_bytes_read_ becomes its ByteCount(), which  *)
(* counts from the start of the input and not of this stream.              *)
SkipInput(count) ==
  LET rest == count - BufferSize IN
  /\ pc = "ready" /\ rest > 0 /\ buffer_size_after_limit = 0
  /\ rest <= closest_limit - total_bytes_read
  /\ ~flat
  /\ taken' = Least(size, taken + rest) /\ chunk' = 0
  /\ IF taken + rest <= size
       THEN /\ total_bytes_read' = total_bytes_read + rest
            /\ Call("ready", count)
       ELSE /\ \E origin \in Origins : total_bytes_read' = AsInt(origin + size)
            /\ Call("failed", count)
  /\ EmptyBuffer
  /\ unchangedButBuffer

Skip(count) ==
  SkipInBuffer(count) \/ SkipToLimit(count) \/ SkipPastLimit(count) \/ SkipInput(count)

BeginRead(n) ==
  /\ pc = "ready"
  /\ Call("reading", n)
  /\ UNCHANGED <<inputVars, bufferVars>> /\ unchangedButBuffer

(* A part of the value is in the buffer: it is taken, the rest comes next. *)
ReadPart ==
  /\ pc \in {"reading", "tag"} /\ BufferSize < need
  /\ \/ Refresh /\ need' = need - BufferSize /\ UNCHANGED <<pc, begun>>
     \/ RefreshFails /\ Return(IF pc = "tag" THEN "ready" ELSE "failed")
  /\ unchangedButBuffer

ReadRest ==
  /\ pc \in {"reading", "tag"} /\ need <= BufferSize
  /\ Advance(need)
  /\ Return("ready")
  /\ UNCHANGED inputVars /\ unchangedButBuffer

-----------------------------------------------------------------------------
(* Tags and ends. *)

EndOfMessage(value) ==
  /\ legitimate_message_end' = value
  /\ UNCHANGED <<size, flat, limitVars, callVars>>

(* ReadTagFallback: a limit that is not the total one. *)
TagAtLimit ==
  /\ pc = "ready" /\ BufferSize = 0
  /\ buffer_size_after_limit > 0 \/ total_bytes_read = current_limit
  /\ total_bytes_read - buffer_size_after_limit < total_bytes_limit
  /\ EndOfMessage(TRUE)
  /\ UNCHANGED <<inputVars, bufferVars>>

(* ReadTagSlow, when Refresh() fails. *)
TagAtEnd ==
  /\ pc = "ready" /\ BufferSize = 0
  /\ RefreshFails
  /\ EndOfMessage(total_bytes_read - buffer_size_after_limit >= total_bytes_limit
                    => current_limit = total_bytes_limit)

(* A tag of n bytes, from the buffer or from the next chunk on. *)
BeginTag(n) ==
  /\ pc = "ready" /\ n > 0
  /\ IF BufferSize > 0 THEN UNCHANGED <<inputVars, bufferVars>> ELSE Refresh
  /\ Call("tag", n)
  /\ unchangedButBuffer

ExpectAtEnd ==
  /\ pc = "ready" /\ BufferSize = 0
  /\ buffer_size_after_limit # 0 \/ total_bytes_read = current_limit
  /\ EndOfMessage(TRUE)
  /\ UNCHANGED <<inputVars, bufferVars>>

-----------------------------------------------------------------------------
(* Limits. *)

unchangedButLimits ==
  UNCHANGED <<size, flat, inputVars, callVars, buffer, total_bytes_read, overflow_bytes>>

(* Mutated: what the last limit cut off is not given back first. *)
EnforceAnew(closest) == RecomputeBufferLimits(buffer_end, total_bytes_read, closest)

Enforce(closest) ==
  RecomputeBufferLimits(buffer_end + buffer_size_after_limit, total_bytes_read, closest)

(* Mutated: the limit is taken as it comes. *)
PushLimitUnchecked(byte_limit) ==
  /\ pc = "ready" /\ Len(saved) < LimitBound
  /\ saved' = <<current_limit>> \o saved
  /\ IF byte_limit >= 0 /\ byte_limit <= IntMax - CurrentPosition
       THEN /\ current_limit' = CurrentPosition + byte_limit
            /\ Enforce(Least(current_limit', total_bytes_limit))
       ELSE UNCHANGED <<current_limit, buffer_end, buffer_size_after_limit>>
  /\ UNCHANGED <<total_bytes_limit, legitimate_message_end>> /\ unchangedButLimits

PushLimit(byte_limit) ==
  /\ pc = "ready" /\ Len(saved) < LimitBound
  /\ saved' = <<current_limit>> \o saved
  /\ IF /\ byte_limit >= 0
        /\ byte_limit <= IntMax - CurrentPosition
        /\ byte_limit < current_limit - CurrentPosition
       THEN /\ current_limit' = CurrentPosition + byte_limit
            /\ Enforce(Least(current_limit', total_bytes_limit))
       ELSE UNCHANGED <<current_limit, buffer_end, buffer_size_after_limit>>
  /\ UNCHANGED <<total_bytes_limit, legitimate_message_end>> /\ unchangedButLimits

PopLimit ==
  /\ pc = "ready" /\ saved # <<>>
  /\ current_limit' = Head(saved) /\ saved' = Tail(saved)
  /\ Enforce(Least(current_limit', total_bytes_limit))
  /\ legitimate_message_end' = FALSE
  /\ UNCHANGED total_bytes_limit /\ unchangedButLimits

SetTotalBytesLimit(n) ==
  /\ pc = "ready"
  /\ total_bytes_limit' = IF n < CurrentPosition THEN CurrentPosition ELSE n
  /\ Enforce(Least(current_limit, total_bytes_limit'))
  /\ UNCHANGED <<current_limit, saved, legitimate_message_end>> /\ unchangedButLimits

-----------------------------------------------------------------------------
(* The destructor: what was not read goes back to the input. *)
BackUpInputToCurrentPosition ==
  LET backup_bytes == BufferSize + buffer_size_after_limit + overflow_bytes IN
  IF backup_bytes > 0
    THEN /\ taken' = taken - backup_bytes /\ chunk' = 0
         /\ total_bytes_read' = total_bytes_read - (BufferSize + buffer_size_after_limit)
         /\ buffer_end' = buffer
         /\ buffer_size_after_limit' = 0 /\ overflow_bytes' = 0
         /\ UNCHANGED buffer
    ELSE UNCHANGED <<inputVars, bufferVars>>

Destroy ==
  /\ pc \in {"ready", "failed"} /\ ~flat
  /\ BackUpInputToCurrentPosition
  /\ pc' = "closed" /\ UNCHANGED need
  /\ begun' = IF pc = "ready" THEN CurrentPosition ELSE begun
  /\ unchangedButBuffer

(* Calls are made with any number an int can hold. *)
StreamNext ==
  \/ Construct \/ GetDirectBufferPointer
  \/ \E n \in 0 .. IntMax : Skip(n) \/ BeginRead(n) \/ BeginTag(n)
  \/ ReadPart \/ ReadRest
  \/ TagAtLimit \/ TagAtEnd \/ ExpectAtEnd
  \/ \E n \in -1 .. IntMax : PushLimit(n) \/ SetTotalBytesLimit(n)
  \/ PopLimit
  \/ Destroy

StreamSpec == StreamInit /\ [][StreamNext]_streamVars

-----------------------------------------------------------------------------
(* Properties. *)

(* The counters agree with the pointers: the buffer is never negative,     *)
(* what it holds, and what PopLimit may give back to it, is the input from *)
(* the current position on, and no more will be backed up than the last    *)
(* Next() gave, whatever limits, overflow and skips have done to the four  *)
(* sizes that say so.                                                      *)
BufferIsTheInput ==
  /\ BufferSize >= 0
  /\ BufferSize + buffer_size_after_limit > 0 => buffer = CurrentPosition
  /\ ~flat => BufferSize + buffer_size_after_limit + overflow_bytes <= chunk

(* "Note that setting current_limit_ == size is important to prevent some  *)
(* code paths from trying to access input_ and segfaulting": over an array *)
(* every Refresh() and Skip() stops before it asks the input.              *)
ArrayNeverAsks == flat => AtLimit /\ closest_limit <= total_bytes_read

Stream == INSTANCE LimitedStream
            WITH pos <- IF pc \in {"new", "ready"} THEN CurrentPosition ELSE begun,
                 limit <- current_limit,
                 total <- total_bytes_limit,
                 ended <- legitimate_message_end,
                 state <- CASE pc = "closed" -> "closed"
                            [] pc = "failed" -> "broken"
                            [] OTHER -> "open",
                 input <- IF pc = "closed" THEN taken ELSE -1

(* The stream is a position within limits: chunks, the two limits, the     *)
(* part of the buffer beyond them and the part beyond INT_MAX make no      *)
(* difference to what can be read, where a message ends, and where the     *)
(* input is left for the next one.                                         *)
ImplementsStream == Stream!Spec

=============================================================================
