------------------------------- MODULE CMath --------------------------------
(* The arithmetic of C that the sources rely on, on integers.              *)
EXTENDS Integers

Magnitude(v) == IF v < 0 THEN -v ELSE v

(* fmod, and % on ints, for m > 0: the remainder has the sign of v. *)
Fmod(v, m) == IF v < 0 THEN -((-v) % m) ELSE v % m

(* % and / on ints for any divisor but 0. *)
Remainder(v, m) == Fmod(v, Magnitude(m))

Quotient(v, m) ==
  LET q == Magnitude(v) \div Magnitude(m) IN IF (v < 0) = (m < 0) THEN q ELSE -q

(* rint(v / m) for m > 0: to the nearest integer, ties to the even one. *)
Rint(v, m) ==
  LET q == v \div m
      twice == 2 * (v % m)
  IN  IF twice < m \/ (twice = m /\ q % 2 = 0) THEN q ELSE q + 1
=============================================================================
