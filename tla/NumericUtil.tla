---------------------------- MODULE NumericUtil -----------------------------
(***************************************************************************)
(* The numeric helpers of util/util.h, for num = int within its range.     *)
(* An array is a function on 0 .. num - 1.                                 *)
(***************************************************************************)
EXTENDS CMath, BitUtil

bound(x, low, high) ==
  LET raised == IF x < low THEN low ELSE x IN IF raised > high THEN high ELSE raised

bool_sat_count(cnt, min, max, val) ==
  IF val THEN IF cnt < max THEN cnt + 1 ELSE max
         ELSE IF cnt > min THEN cnt - 1 ELSE min

-----------------------------------------------------------------------------
(* Comparisons and searches. *)

max3(a, b, c) == IF a > b THEN IF a > c THEN a ELSE c ELSE IF b > c THEN b ELSE c

min3(a, b, c) == IF a < b THEN IF a < c THEN a ELSE c ELSE IF b < c THEN b ELSE c

(* `if(t[i] > t[j]) swap(t[i],t[j])` *)
Ordered(t, i, j) == IF t[i] > t[j] THEN [t EXCEPT ![i] = t[j], ![j] = t[i]] ELSE t

sort(a, b, c) == Ordered(Ordered(Ordered(<<a, b, c>>, 1, 2), 2, 3), 1, 2)

max_idx(arr, num) ==
  LET mi[i \in 0 .. num - 1] ==
        IF i = 0 THEN 0 ELSE IF arr[i] > arr[mi[i - 1]] THEN i ELSE mi[i - 1]
  IN  mi[num - 1]

min_idx(arr, num) ==
  LET mi[i \in 0 .. num - 1] ==
        IF i = 0 THEN 0 ELSE IF arr[i] < arr[mi[i - 1]] THEN i ELSE mi[i - 1]
  IN  mi[num - 1]

find_item(arr, num, key) ==
  LET from[i \in 0 .. num] == IF i < num /\ arr[i] # key THEN from[i + 1] ELSE i
  IN  from[0]

-----------------------------------------------------------------------------
(* Divisors. *)

(* Mutated: the loop stops at a negative remainder. *)
gcdWhilePositive(x, y) ==
  LET euclid[p \in Int \X Int] ==
        IF p[2] > 0 THEN euclid[<<p[2], Remainder(p[1], p[2])>>] ELSE p[1]
  IN  euclid[<<x, y>>]

gcd(x, y) ==
  LET euclid[p \in Int \X Int] ==
        IF p[2] # 0 THEN euclid[<<p[2], Remainder(p[1], p[2])>>] ELSE p[1]
  IN  euclid[<<x, y>>]

lcm(x, y) == Quotient(x, gcd(x, y)) * Quotient(y, gcd(x, y))

mod(x, m) == Remainder(Remainder(x, m) + m, m)

(* On integers, where the quotient under floor is a fraction. *)
fmodt(x, m) == x - (x \div m) * m

-----------------------------------------------------------------------------
(* Properties, of every call. *)

Divides(d, n) == d # 0 /\ n % Magnitude(d) = 0

Array == [i \in 0 .. 2 |-> <<x1, x2, x3>>[i + 1]]

(* bound returns the point of the interval nearest to its argument, and    *)
(* bool_sat_count never leaves an interval it has once entered.            *)
NearestInRange ==
  x2 <= x3 =>
    LET b == bound(x1, x2, x3) IN
      /\ b \in x2 .. x3
      /\ \A p \in x2 .. x3 : Magnitude(x1 - b) <= Magnitude(x1 - p)
      /\ x1 \in x2 .. x3 => \A up \in BOOLEAN :
           bool_sat_count(x1, x2, x3, up) = bound(IF up THEN x1 + 1 ELSE x1 - 1, x2, x3)

(* sort puts three values in order and loses none, also when some are      *)
(* equal; its ends are what min3 and max3 return.                          *)
SortsThree ==
  LET s == sort(x1, x2, x3) IN
    /\ s[1] <= s[2] /\ s[2] <= s[3]
    /\ \A v \in {x1, x2, x3} :
         Cardinality({i \in 1 .. 3 : s[i] = v}) = Cardinality({i \in 0 .. 2 : Array[i] = v})
    /\ s[1] = min3(x1, x2, x3) /\ s[3] = max3(x1, x2, x3)

(* The searches return the first index that will do, and find_item the     *)
(* length of the array if none does.                                       *)
FirstIndex ==
  \A num \in 1 .. 3 : \A i \in 0 .. num - 1 :
    /\ Array[i] <= Array[max_idx(Array, num)]
    /\ Array[i] >= Array[min_idx(Array, num)]
    /\ Array[i] = Array[max_idx(Array, num)] => max_idx(Array, num) <= i
    /\ Array[i] = Array[min_idx(Array, num)] => min_idx(Array, num) <= i
    /\ LET f == find_item(Array, num, x3) IN
         /\ Array[i] = x3 => f <= i /\ Array[f] = x3
         /\ f < num \/ (f = num /\ Array[i] # x3)

(* "returns greatest common divisor of x,y": up to its sign, which follows *)
(* the operands.  lcm is the product of arguments without common divisor;  *)
(* of others it divides both and is no common multiple, whatever its       *)
(* comment says.                                                           *)
GcdIsGreatest ==
  x1 # 0 \/ x2 # 0 =>
    LET g == gcd(x1, x2) IN
      /\ Divides(g, x1) /\ Divides(g, x2)
      /\ \A d \in 1 .. Magnitude(x1) + Magnitude(x2) :
           Divides(d, x1) /\ Divides(d, x2) => d <= Magnitude(g)
      /\ Magnitude(g) = 1 => lcm(x1, x2) = x1 * x2

(* "returns x mod m, where x e [0,m-1]", and fmodt is the same on integers.*)
ModIsResidue ==
  x2 > 0 =>
    /\ mod(x1, x2) \in 0 .. x2 - 1 /\ Divides(x2, x1 - mod(x1, x2))
    /\ fmodt(x1, x2) = mod(x1, x2)

(* The numeric helpers and the bit tests are right, for negative numbers,  *)
(* equal ones and zero as well.                                            *)
NumbersAreRight ==
  /\ NearestInRange /\ SortsThree /\ FirstIndex /\ GcdIsGreatest /\ ModIsResidue
  /\ BitTests
=============================================================================
