--------------------------- MODULE LimitedStream ----------------------------
(***************************************************************************)
(* What CodedInputStream promises (io/coded_stream.h): one position in the *)
(* input, a stack of limits of which the shortest is enforced, and a total *)
(* limit.  How the input comes in pieces is not seen.                      *)
(***************************************************************************)
EXTENDS Integers, Sequences

CONSTANTS
  IntMax,  \* INT_MAX
  Sizes    \* lengths an input may have

VARIABLES
  size,   \* length of this input
  pos,    \* bytes read
  limit,  \* the limit in force
  saved,  \* the ones under it, the last pushed first
  total,  \* the limit on the whole
  ended,  \* ConsumedEntireMessage()
  state,  \* "open", "broken" after an error, "closed"
  input   \* where a closed stream has left its input, Nowhere before

vars == <<size, pos, limit, saved, total, ended, state, input>>

Nowhere == -1

Least(a, b) == IF a < b THEN a ELSE b
Bound == Least(Least(limit, total), size)

(* No limit, or the length of an array. *)
Init ==
  /\ size \in Sizes
  /\ limit \in {IntMax, Least(size, IntMax)}
  /\ pos = 0 /\ saved = <<>> /\ total = IntMax
  /\ ended = FALSE /\ state = "open" /\ input = Nowhere

(* n bytes are there before the bound, and are read or skipped. *)
Take(n) ==
  /\ state = "open" /\ pos + n <= Bound
  /\ pos' = pos + n
  /\ UNCHANGED <<size, limit, saved, total, ended, state, input>>

(* They are not: the stream is of no more use. *)
Break(n) ==
  /\ state = "open" /\ pos + n > Bound
  /\ state' = "broken"
  /\ UNCHANGED <<size, pos, limit, saved, total, ended, input>>

(* A tag that breaks off is no tag, and no end either. *)
CutTag ==
  /\ state = "open"
  /\ pos' = Bound
  /\ UNCHANGED <<size, limit, saved, total, ended, state, input>>

(* No tag is left.  The total limit is no place for a message to end,      *)
(* unless it is its limit as well.                                         *)
NoTag ==
  /\ state = "open" /\ pos = Bound
  /\ IF pos < total \/ limit = total THEN ended' = TRUE ELSE ended' \in {ended, FALSE}
  /\ UNCHANGED <<size, pos, limit, saved, total, state, input>>

(* The caller asks before reading a tag: any limit will do. *)
ExpectAtEnd ==
  /\ state = "open" /\ pos = Least(limit, total)
  /\ ended' = TRUE
  /\ UNCHANGED <<size, pos, limit, saved, total, state, input>>

(* A limit beyond the one in force, or a negative one, changes nothing. *)
PushLimit(n) ==
  /\ state = "open"
  /\ saved' = <<limit>> \o saved
  /\ limit' = IF n < 0 THEN limit ELSE Least(limit, pos + n)
  /\ UNCHANGED <<size, pos, total, ended, state, input>>

PopLimit ==
  /\ state = "open" /\ saved # <<>>
  /\ limit' = Head(saved) /\ saved' = Tail(saved)
  /\ ended' = FALSE
  /\ UNCHANGED <<size, pos, total, state, input>>

SetTotalBytesLimit(n) ==
  /\ state = "open"
  /\ total' = IF n < pos THEN pos ELSE n
  /\ UNCHANGED <<size, pos, limit, saved, ended, state, input>>

(* The input is left at the first byte not read; after an error, where     *)
(* nothing was left to read.                                               *)
Close ==
  /\ state # "closed"
  /\ state' = "closed"
  /\ input' = IF state = "open" THEN pos ELSE Bound
  /\ UNCHANGED <<size, pos, limit, saved, total, ended>>

Next ==
  \/ \E n \in 0 .. IntMax : Take(n) \/ Break(n)
  \/ \E n \in -1 .. IntMax : PushLimit(n) \/ SetTotalBytesLimit(n)
  \/ CutTag \/ NoTag \/ ExpectAtEnd \/ PopLimit \/ Close

Spec == Init /\ [][Next]_vars
=============================================================================
