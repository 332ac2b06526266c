------------------------------ MODULE BitUtil -------------------------------
(***************************************************************************)
(* The bit tests of util/util.h, on words of Width bits.  A number stands  *)
(* for its word, a negative one for its two's complement.                  *)
(***************************************************************************)
EXTENDS HelperCalls, FiniteSets

CONSTANT Width  \* bits of a number

ASSUME BitAssumption == Width \in Nat \ {0}

TwoTo[k \in Nat] == IF k = 0 THEN 1 ELSE 2 * TwoTo[k - 1]

Unsigned(n) == n % TwoTo[Width]

Bit(n, i) == (n \div TwoTo[i]) % 2

(* The word with a 1 where both have one: C's x & y. *)
And(x, y) ==
  LET low[k \in 0 .. Width] ==
        IF k = 0 THEN 0
        ELSE low[k - 1]
             + (IF Bit(x, k - 1) = 1 /\ Bit(y, k - 1) = 1 THEN TwoTo[k - 1] ELSE 0)
  IN  low[Width]

one_bit_set(n) == Unsigned(n) # 0 /\ And(-n, n) = Unsigned(n)

all_bits_set(x, m) == And(x, m) = Unsigned(m)

any_bits_set(x, m) == And(x, m) # 0

-----------------------------------------------------------------------------
(* Properties, of every call. *)

(* The bit tests, told apart by the set of bits that are 1.                *)
Bits(n) == {i \in 0 .. Width - 1 : Bit(n, i) = 1}
BitTests ==
  /\ one_bit_set(x1) <=> Cardinality(Bits(x1)) = 1
  /\ all_bits_set(x1, x2) <=> Bits(x2) \subseteq Bits(x1)
  /\ any_bits_set(x1, x2) <=> Bits(x1) \cap Bits(x2) # {}
=============================================================================
