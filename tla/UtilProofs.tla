----------------------------- MODULE UtilProofs -----------------------------
(***************************************************************************)
(* Theorems about the helpers of util/util.h and util/timer.h: the arrays  *)
(* for any heap and any lengths, the timers for any clock and any width of *)
(* the cycle counter, and the pure helpers for all integers.               *)
(***************************************************************************)
EXTENDS AngleUtil, NumericUtil, ArrayUtil, Timers, FiniteSetTheorems,
  WellFoundedInduction, TLAPS

-----------------------------------------------------------------------------
(* Induction over numbers, for the loops of the helpers.  The theorems of  *)
(* the library that take a predicate cannot be instantiated here; its      *)
(* theorem that < is well founded takes a set.                             *)

Below == {pair \in Nat \X Nat : pair[1] < pair[2]}

(* Every nonempty set of naturals has a least element. *)
LEMMA LeastNumber ==
  ASSUME NEW S, S \subseteq Nat, S # {}
  PROVE  \E n \in S : \A m \in S : n <= m
<1>1. IsWellFoundedOn(Below, Nat)
  BY NatLessThanWellFounded DEF OpToRel, Below
<1>2. PICK n \in S : \A m \in S : ~ (<<m, n>> \in Below)
  BY <1>1, WFMin
<1>3. ASSUME NEW m \in S, m < n PROVE FALSE
  <2>1. <<m, n>> \in Below
    BY <1>3 DEF Below
  <2>. QED BY <1>2, <2>1
<1>. QED BY <1>3

(* A set of naturals that has 0 and the successor of each of its elements  *)
(* has every natural.                                                      *)
LEMMA Induction ==
  ASSUME NEW S, 0 \in S, \A n \in Nat : n \in S => n + 1 \in S
  PROVE  \A n \in Nat : n \in S
<1>. DEFINE T == {n \in Nat : n \notin S}
<1>1. ASSUME T # {} PROVE FALSE
  <2>1. PICK n \in T : \A m \in T : n <= m
    BY <1>1, LeastNumber
  <2>2. n - 1 \in Nat /\ n - 1 \in S
    BY <2>1
  <2>. QED BY <2>1, <2>2
<1>. QED BY <1>1

-----------------------------------------------------------------------------
(* Remainders. *)

LEMMA Division ==
  ASSUME NEW m \in Nat \ {0}, NEW a \in Int
  PROVE  /\ a \div m \in Int /\ a % m \in 0 .. m - 1
         /\ a = m * (a \div m) + (a % m)
OBVIOUS

(* The remainder is the only one in its range. *)
LEMMA RemainderIs ==
  ASSUME NEW m \in Nat \ {0}, NEW q \in Int, NEW r \in 0 .. m - 1
  PROVE  (m * q + r) % m = r
<1>. DEFINE a == m * q + r
            p == a \div m
            t == a % m
            d == p - q
<1>1. p \in Int /\ t \in 0 .. m - 1 /\ m * q + r = m * p + t
  <2>1. a \in Int
    OBVIOUS
  <2>. HIDE DEF a
  <2>2. p \in Int /\ t \in 0 .. m - 1 /\ a = m * p + t
    BY <2>1, Division
  <2>. QED BY <2>2 DEF a
<1>. HIDE DEF p, t
<1>2. d \in Int /\ m * d = r - t
  BY <1>1
<1>. HIDE DEF d
<1>3. /\ d >= 1 => m * d >= m
      /\ d <= -1 => m * d <= -m
  BY <1>2
<1>4. d = 0
  BY <1>1, <1>2, <1>3
<1>5. m * d = 0
  BY <1>4
<1>6. r = t
  BY <1>1, <1>2, <1>5
<1>. QED BY <1>6 DEF t

LEMMA SmallRemainder ==
  ASSUME NEW m \in Nat \ {0}, NEW r \in 0 .. m - 1
  PROVE  r % m = r
<1>1. m * 0 + r = r
  OBVIOUS
<1>. QED BY <1>1, RemainderIs

(* Whole multiples of the divisor do not show in the remainder. *)
LEMMA ShiftedRemainder ==
  ASSUME NEW m \in Nat \ {0}, NEW a \in Int, NEW k \in Int
  PROVE  (a + m * k) % m = a % m
<1>. DEFINE q == a \div m
            r == a % m
<1>1. q \in Int /\ r \in 0 .. m - 1 /\ a = m * q + r
  BY Division
<1>. HIDE DEF q, r
<1>2. a + m * k = m * (q + k) + r
  BY <1>1
<1>3. (m * (q + k) + r) % m = r
  BY <1>1, RemainderIs
<1>. QED BY <1>2, <1>3 DEF r

-----------------------------------------------------------------------------
(* Arrays. *)

IsFunction(f) == f = [x \in DOMAIN f |-> f[x]]

(* The invariant: types, SizeIsTheTruth and OneOwner, and that a failed    *)
(* allocation has left its pointer dangling, no other.                     *)
ArrayInv ==
  /\ DOMAIN heap \subseteq Blocks
  /\ \A b \in DOMAIN heap : IsFunction(heap[b])
  /\ list.size \in Nat /\ grid.w \in Nat /\ grid.h \in Nat
  /\ list = [arr |-> list.arr, size |-> list.size]
  /\ grid = [arr |-> grid.arr, w |-> grid.w, h |-> grid.h]
  /\ list.arr # Null => list.arr # grid.arr
  /\ thrown = "alloc_array" => list.arr \notin DOMAIN heap
  /\ thrown = "alloc_array2" => grid.arr \notin DOMAIN heap
  /\ DOMAIN heap \subseteq {list.arr, grid.arr}
  /\ thrown # "alloc_array" => Names(list.arr, list.size)
  /\ thrown # "alloc_array2" => Names(grid.arr, grid.w * grid.h)
  /\ thrown \in {"none", "alloc_array", "resize_array", "alloc_array2"}

(* A deleted block is gone, the others keep their cells. *)
LEMMA DeletedBlock ==
  ASSUME NEW h, NEW b
  PROVE  /\ DOMAIN delete(h, b) = DOMAIN h \ {b}
         /\ \A a \in DOMAIN h \ {b} : delete(h, b)[a] = h[a]
BY DEF delete

LEMMA AllocStep ==
  ASSUME ArrayInv, NEW n \in Lengths, alloc_array(n)
  PROVE  ArrayInv'
<1>. DEFINE freed == delete(heap, list.arr)
<1>1. thrown = "none" /\ grid' = grid /\ n \in Nat /\ Null \notin Blocks
  BY ArrayAssumption DEF alloc_array, Lengths
<1>2. /\ DOMAIN freed = DOMAIN heap \ {list.arr}
      /\ \A a \in DOMAIN freed : freed[a] = heap[a]
  BY DeletedBlock
<1>3. ASSUME NEW b \in Blocks \ DOMAIN freed,
             heap' = new(freed, b, n), list' = [arr |-> b, size |-> n], thrown' = thrown
      PROVE  ArrayInv'
  <2>1. /\ DOMAIN heap' = DOMAIN freed \cup {b}
        /\ DOMAIN heap'[b] = 0 .. n - 1 /\ IsFunction(heap'[b])
        /\ \A a \in DOMAIN freed : a # b /\ heap'[a] = freed[a]
    BY <1>1, <1>3 DEF new, IsFunction
  <2>. HIDE DEF freed
  <2>. QED BY <1>1, <1>2, <1>3, <2>1 DEF ArrayInv, Names
<1>4. ASSUME heap' = freed, thrown' = "alloc_array", list' = list
      PROVE  ArrayInv'
  BY <1>1, <1>2, <1>4 DEF ArrayInv, Names
<1>. QED BY <1>3, <1>4 DEF alloc_array

LEMMA GridStep ==
  ASSUME ArrayInv, NEW w \in Lengths, NEW h \in Lengths, alloc_array2(w, h)
  PROVE  ArrayInv'
<1>. DEFINE freed == delete(heap, grid.arr)
            n == w * h
<1>1. thrown = "none" /\ list' = list /\ w \in Nat /\ h \in Nat /\ n \in Nat /\ Null \notin Blocks
  BY ArrayAssumption DEF alloc_array2, Lengths
<1>2. /\ DOMAIN freed = DOMAIN heap \ {grid.arr}
      /\ \A a \in DOMAIN freed : freed[a] = heap[a]
  BY DeletedBlock
<1>3. ASSUME NEW b \in Blocks \ DOMAIN freed,
             heap' = new(freed, b, n), grid' = [arr |-> b, w |-> w, h |-> h], thrown' = thrown
      PROVE  ArrayInv'
  <2>1. /\ DOMAIN heap' = DOMAIN freed \cup {b}
        /\ DOMAIN heap'[b] = 0 .. n - 1 /\ IsFunction(heap'[b])
        /\ \A a \in DOMAIN freed : a # b /\ heap'[a] = freed[a]
    BY <1>1, <1>3 DEF new, IsFunction
  <2>2. grid'.w * grid'.h = n
    BY <1>3
  <2>. HIDE DEF freed, n
  <2>. QED BY <1>1, <1>2, <1>3, <2>1, <2>2 DEF ArrayInv, Names
<1>4. ASSUME heap' = freed, thrown' = "alloc_array2", grid' = grid
      PROVE  ArrayInv'
  BY <1>1, <1>2, <1>4 DEF ArrayInv, Names
<1>. QED BY <1>3, <1>4 DEF alloc_array2

(* What resize_array leaves when it succeeds: one block in place of the    *)
(* old one, with the cells in use copied.                                  *)
LEMMA ResizedBlock ==
  ASSUME ArrayInv, NEW n \in Lengths, NEW used \in Lengths, resize_array(n, used),
         thrown' = thrown
  PROVE  \E b \in Blocks \ DOMAIN heap :
           /\ list' = [arr |-> b, size |-> n]
           /\ DOMAIN heap' = (DOMAIN heap \ {list.arr}) \cup {b}
           /\ DOMAIN heap'[b] = 0 .. n - 1 /\ IsFunction(heap'[b])
           /\ \A a \in DOMAIN heap \ {list.arr} : heap'[a] = heap[a]
           /\ \A i \in 0 .. used - 1 : heap'[b][i] = heap[list.arr][i]
<1>1. thrown = "none" /\ n \in Nat /\ used <= n /\ used \in Nat /\ used <= list.size
  BY ArrayAssumption DEF resize_array, Lengths
<1>. DEFINE copied(b) == [new(heap, b, n) EXCEPT
                            ![b] = [i \in DOMAIN @ |-> IF i < used THEN heap[list.arr][i] ELSE @[i]]]
<1>2. PICK b \in Blocks \ DOMAIN heap :
         heap' = delete(copied(b), list.arr) /\ list' = [arr |-> b, size |-> n]
  BY <1>1 DEF resize_array
<1>3. /\ DOMAIN new(heap, b, n) = DOMAIN heap \cup {b}
      /\ DOMAIN new(heap, b, n)[b] = 0 .. n - 1
      /\ \A a \in DOMAIN heap : a # b /\ new(heap, b, n)[a] = heap[a]
  BY <1>1 DEF new
<1>4. /\ DOMAIN copied(b) = DOMAIN heap \cup {b}
      /\ copied(b)[b] = [i \in 0 .. n - 1 |-> IF i < used THEN heap[list.arr][i] ELSE new(heap, b, n)[b][i]]
      /\ \A a \in DOMAIN heap : copied(b)[a] = heap[a]
  BY <1>3
<1>5. b # list.arr
  BY ArrayAssumption, <1>1 DEF ArrayInv, Names
<1>. HIDE DEF copied
<1>6. /\ DOMAIN heap' = (DOMAIN heap \cup {b}) \ {list.arr}
      /\ \A a \in (DOMAIN heap \cup {b}) \ {list.arr} : heap'[a] = copied(b)[a]
  <2>1. heap' = [a \in DOMAIN copied(b) \ {list.arr} |-> copied(b)[a]]
    BY <1>2 DEF delete
  <2>. QED BY <1>4, <2>1
<1>7. heap'[b] = [i \in 0 .. n - 1 |-> IF i < used THEN heap[list.arr][i] ELSE new(heap, b, n)[b][i]]
  BY <1>4, <1>5, <1>6
<1>8. \A i \in 0 .. used - 1 : heap'[b][i] = heap[list.arr][i]
  BY <1>1, <1>7
<1>9. /\ list' = [arr |-> b, size |-> n]
      /\ DOMAIN heap' = (DOMAIN heap \ {list.arr}) \cup {b}
      /\ DOMAIN heap'[b] = 0 .. n - 1 /\ IsFunction(heap'[b])
      /\ \A a \in DOMAIN heap \ {list.arr} : heap'[a] = heap[a]
  BY <1>2, <1>4, <1>5, <1>6, <1>7 DEF IsFunction
<1>. QED BY <1>8, <1>9

LEMMA ResizeStep ==
  ASSUME ArrayInv, NEW n \in Lengths, NEW used \in Lengths, resize_array(n, used)
  PROVE  ArrayInv'
<1>1. thrown = "none" /\ grid' = grid /\ n \in Nat /\ Null \notin Blocks
  BY ArrayAssumption DEF resize_array, Lengths
<1>2. ASSUME thrown' = thrown PROVE ArrayInv'
  <2>1. PICK b \in Blocks \ DOMAIN heap :
           /\ list' = [arr |-> b, size |-> n]
           /\ DOMAIN heap' = (DOMAIN heap \ {list.arr}) \cup {b}
           /\ DOMAIN heap'[b] = 0 .. n - 1 /\ IsFunction(heap'[b])
           /\ \A a \in DOMAIN heap \ {list.arr} : heap'[a] = heap[a]
    BY <1>2, ResizedBlock
  <2>. QED BY <1>1, <1>2, <2>1 DEF ArrayInv, Names
<1>3. ASSUME thrown' = "resize_array", heap' = heap, list' = list PROVE ArrayInv'
  BY <1>1, <1>3 DEF ArrayInv, Names
<1>. QED BY <1>2, <1>3 DEF resize_array

LEMMA FreeStep ==
  ASSUME ArrayInv, free_array
  PROVE  ArrayInv'
BY ArrayAssumption DEF ArrayInv, free_array, delete, Names

LEMMA CatchStep ==
  ASSUME ArrayInv, Catch
  PROVE  ArrayInv'
BY ArrayAssumption DEF ArrayInv, Catch, Names

LEMMA SetStep ==
  ASSUME ArrayInv, NEW from \in Lengths, NEW num \in Lengths, NEW val \in Values,
         set_range(from, num, val)
  PROVE  ArrayInv'
BY ArrayAssumption DEF ArrayInv, set_range, Names, IsFunction

(* The cell of the source that ends up i cells behind the start of the     *)
(* copy: going upwards reads again what was written dest - src cells ago.  *)
Origin(dest, src, i) == src + IF src < dest THEN i % (dest - src) ELSE i

(* The cells after k steps of the loop. *)
CopiedSoFar(cells, dest, src, k) ==
  [p \in DOMAIN cells |->
     IF dest <= p /\ p < dest + k THEN cells[Origin(dest, src, p - dest)] ELSE cells[p]]

(* dest[a] = src[b] within one block. *)
Assigned(cells, a, b) == [cells EXCEPT ![a] = cells[b]]

LEMMA OriginStep ==
  ASSUME NEW dest \in Nat, NEW src \in Nat, NEW i \in Nat
  PROVE  /\ Origin(dest, src, i) \in src .. src + i
         /\ dest <= src + i /\ src < dest =>
              /\ src + i - dest \in Nat
              /\ Origin(dest, src, i) = Origin(dest, src, src + i - dest)
         /\ ~ (dest <= src + i /\ src < dest) => Origin(dest, src, i) = src + i
<1>1. CASE src >= dest
  BY <1>1 DEF Origin
<1>2. ASSUME src < dest, src + i < dest PROVE Origin(dest, src, i) = src + i
  BY <1>2, SmallRemainder DEF Origin
<1>3. ASSUME src < dest, dest <= src + i
      PROVE  /\ src + i - dest \in Nat
             /\ Origin(dest, src, i) = Origin(dest, src, src + i - dest)
             /\ Origin(dest, src, i) \in src .. src + i
  <2>. DEFINE m == dest - src
              j == src + i - dest
  <2>1. m \in Nat \ {0} /\ j \in Nat /\ j + m * 1 = i /\ m <= i
    BY <1>3
  <2>2. dest - src = m /\ src + i - dest = j
    OBVIOUS
  <2>. HIDE DEF m, j
  <2>3. i % m = j % m
    <3>1. j \in Int /\ 1 \in Int
      BY <2>1
    <3>2. (j + m * 1) % m = j % m
      BY <2>1, <3>1, ShiftedRemainder, Zenon
    <3>. QED BY <2>1, <3>2
  <2>4. i % m \in 0 .. m - 1
    BY <2>1
  <2>. QED BY <1>3, <2>1, <2>2, <2>3, <2>4 DEF Origin
<1>. QED BY <1>1, <1>2, <1>3

LEMMA CopiedStep ==
  ASSUME NEW cells, DOMAIN cells \subseteq Int,
         NEW dest \in Nat, NEW src \in Nat, NEW i \in Nat,
         dest + i \in DOMAIN cells, src + i \in DOMAIN cells
  PROVE  CopiedSoFar(cells, dest, src, i + 1)
           = Assigned(CopiedSoFar(cells, dest, src, i), dest + i, src + i)
<1>. DEFINE now == CopiedSoFar(cells, dest, src, i)
            next == CopiedSoFar(cells, dest, src, i + 1)
<1>1. now[src + i] = cells[Origin(dest, src, i)]
  <2>1. src + i \in DOMAIN cells
    OBVIOUS
  <2>2. now[src + i] = IF dest <= src + i /\ src + i < dest + i
                         THEN cells[Origin(dest, src, src + i - dest)] ELSE cells[src + i]
    BY <2>1 DEF CopiedSoFar
  <2>. HIDE DEF now
  <2>3. CASE dest <= src + i /\ src < dest
    <3>1. Origin(dest, src, i) = Origin(dest, src, src + i - dest)
      BY <2>3, OriginStep
    <3>. QED BY <2>2, <2>3, <3>1
  <2>4. CASE ~ (dest <= src + i /\ src < dest)
    <3>1. Origin(dest, src, i) = src + i
      BY <2>4, OriginStep
    <3>. QED BY <2>2, <2>4, <3>1
  <2>. QED BY <2>3, <2>4
<1>2. next[dest + i] = cells[Origin(dest, src, i)]
  BY DEF CopiedSoFar
<1>3. ASSUME NEW p \in DOMAIN cells, p # dest + i PROVE next[p] = now[p]
  BY <1>3 DEF CopiedSoFar
<1>4. /\ DOMAIN now = DOMAIN cells /\ DOMAIN next = DOMAIN cells
      /\ now = [p \in DOMAIN now |-> now[p]] /\ next = [p \in DOMAIN next |-> next[p]]
  BY DEF CopiedSoFar
<1>. HIDE DEF now, next
<1>5. next = [now EXCEPT ![dest + i] = now[src + i]]
  BY <1>1, <1>2, <1>3, <1>4
<1>. QED BY <1>5 DEF now, next, Assigned

(* What mcopy leaves in a block, for any number of steps of its loop. *)
LEMMA CopiedCells ==
  ASSUME NEW cells, NEW size \in Nat, DOMAIN cells = 0 .. size - 1,
         cells = [p \in 0 .. size - 1 |-> cells[p]],
         NEW dest \in Nat, NEW src \in Nat, NEW num \in Nat,
         dest + num <= size, src + num <= size
  PROVE  Copied(cells, dest, src, num) = CopiedSoFar(cells, dest, src, num)
<1>. DEFINE Loop(f) ==
       [i \in 0 .. num |->
          IF i = 0 THEN cells ELSE Assigned(f[i - 1], dest + i - 1, src + i - 1)]
            sofar == [i \in 0 .. num |-> CopiedSoFar(cells, dest, src, i)]
            after == CHOOSE f : f = Loop(f)
<1>1. CopiedSoFar(cells, dest, src, 0) = cells
  BY DEF CopiedSoFar
<1>2. sofar = Loop(sofar)
  <2>1. ASSUME NEW i \in 1 .. num
        PROVE  sofar[i] = Assigned(sofar[i - 1], dest + i - 1, src + i - 1)
    <3>. DEFINE k == i - 1
    <3>1. /\ k \in Nat /\ dest \in Nat /\ src \in Nat /\ DOMAIN cells \subseteq Int
          /\ dest + k \in DOMAIN cells /\ src + k \in DOMAIN cells
      OBVIOUS
    <3>2. CopiedSoFar(cells, dest, src, k + 1)
            = Assigned(CopiedSoFar(cells, dest, src, k), dest + k, src + k)
      <4>. HIDE DEF k, Loop, sofar, after
      <4>. QED BY <3>1, CopiedStep
    <3>3. k + 1 = i /\ dest + k = dest + i - 1 /\ src + k = src + i - 1
      OBVIOUS
    <3>4. /\ sofar[i] = CopiedSoFar(cells, dest, src, k + 1)
          /\ sofar[i - 1] = CopiedSoFar(cells, dest, src, k)
      BY <3>3
    <3>. HIDE DEF k, sofar
    <3>. QED BY <3>2, <3>3, <3>4
  <2>2. sofar[0] = cells
    BY <1>1
  <2>3. \A i \in 0 .. num :
          sofar[i] = IF i = 0 THEN cells ELSE Assigned(sofar[i - 1], dest + i - 1, src + i - 1)
    <3>. HIDE DEF sofar
    <3>. QED BY <2>1, <2>2
  <2>4. sofar = [i \in 0 .. num |-> sofar[i]]
    OBVIOUS
  <2>. HIDE DEF sofar
  <2>. QED BY <2>3, <2>4
<1>3. after = Loop(after)
  <2>. HIDE DEF Loop
  <2>. QED BY <1>2
<1>4. Copied(cells, dest, src, num) = after[num]
  BY DEF Copied, Assigned
<1>. DEFINE S == {i \in Nat : i <= num => after[i] = CopiedSoFar(cells, dest, src, i)}
<1>. HIDE DEF after
<1>5. 0 \in S
  <2>1. after[0] = cells
    BY <1>3
  <2>. QED BY <1>1, <2>1
<1>6. ASSUME NEW i \in Nat, i \in S PROVE i + 1 \in S
  <2>1. SUFFICES ASSUME i + 1 <= num
                 PROVE  after[i + 1] = CopiedSoFar(cells, dest, src, i + 1)
    OBVIOUS
  <2>2. after[i + 1] = Assigned(after[i], dest + i, src + i)
    <3>1. i + 1 \in 0 .. num /\ i + 1 # 0 /\ (i + 1) - 1 = i
          /\ dest + (i + 1) - 1 = dest + i /\ src + (i + 1) - 1 = src + i
      BY <2>1
    <3>2. \A k \in 0 .. num :
            after[k] = IF k = 0 THEN cells ELSE Assigned(after[k - 1], dest + k - 1, src + k - 1)
      BY <1>3
    <3>3. after[i + 1] = Assigned(after[(i + 1) - 1], dest + (i + 1) - 1, src + (i + 1) - 1)
      BY <3>1, <3>2
    <3>. QED BY <3>1, <3>3
  <2>3. after[i] = CopiedSoFar(cells, dest, src, i)
    BY <1>6, <2>1
  <2>4. /\ DOMAIN cells \subseteq Int
        /\ dest + i \in DOMAIN cells /\ src + i \in DOMAIN cells
    BY <2>1
  <2>5. CopiedSoFar(cells, dest, src, i + 1)
          = Assigned(CopiedSoFar(cells, dest, src, i), dest + i, src + i)
    BY <2>4, CopiedStep
  <2>. QED BY <2>2, <2>3, <2>5
<1>7. num \in S
  <2>. HIDE DEF S
  <2>. QED BY <1>5, <1>6, Induction
<1>. QED BY <1>4, <1>7

LEMMA CopyStep ==
  ASSUME ArrayInv, NEW dest \in Lengths, NEW src \in Lengths, NEW num \in Lengths,
         mcopy(dest, src, num)
  PROVE  /\ ArrayInv'
         /\ \A i \in 0 .. num - 1 :
              heap'[list.arr][dest + i] = heap[list.arr][Origin(dest, src, i)]
<1>. DEFINE cells == heap[list.arr]
<1>1. /\ list.arr \in DOMAIN heap /\ DOMAIN cells = 0 .. list.size - 1 /\ list.size \in Nat
      /\ dest \in Nat /\ src \in Nat /\ num \in Nat
      /\ dest + num <= list.size /\ src + num <= list.size
      /\ list' = list /\ grid' = grid /\ thrown' = thrown
  BY ArrayAssumption DEF ArrayInv, mcopy, Names, Lengths
<1>2. cells = [p \in DOMAIN cells |-> cells[p]]
  BY <1>1 DEF ArrayInv, IsFunction
<1>3. heap' = [heap EXCEPT ![list.arr] = Copied(cells, dest, src, num)]
  BY DEF mcopy
<1>. HIDE DEF cells
<1>4. Copied(cells, dest, src, num) = CopiedSoFar(cells, dest, src, num)
  BY <1>1, <1>2, CopiedCells
<1>5. heap'[list.arr] = CopiedSoFar(cells, dest, src, num)
  BY <1>1, <1>3, <1>4
<1>6. /\ DOMAIN heap' = DOMAIN heap
      /\ \A b \in DOMAIN heap : DOMAIN heap'[b] = DOMAIN heap[b]
      /\ \A b \in DOMAIN heap : b # list.arr => heap'[b] = heap[b]
      /\ IsFunction(heap'[list.arr])
  BY <1>3, <1>5 DEF CopiedSoFar, cells, IsFunction
<1>7. ArrayInv'
  BY <1>1, <1>6 DEF ArrayInv, Names
<1>8. ASSUME NEW i \in 0 .. num - 1
      PROVE  heap'[list.arr][dest + i] = cells[Origin(dest, src, i)]
  <2>1. dest + i \in DOMAIN cells /\ (dest + i) - dest = i
        /\ dest <= dest + i /\ dest + i < dest + num
    BY <1>1
  <2>. QED BY <1>5, <2>1 DEF CopiedSoFar
<1>. QED BY <1>7, <1>8 DEF cells

LEMMA ArrayStart == ArrayInit => ArrayInv
BY ArrayAssumption DEF ArrayInit, ArrayInv, Names

LEMMA ArrayStep == ArrayInv /\ [ArrayNext]_arrayVars => ArrayInv'
<1>. SUFFICES ASSUME ArrayInv, [ArrayNext]_arrayVars PROVE ArrayInv'
  OBVIOUS
<1>1. ASSUME NEW n \in Lengths, alloc_array(n) PROVE ArrayInv'
  BY <1>1, AllocStep
<1>2. ASSUME NEW n \in Lengths, NEW used \in Lengths, resize_array(n, used) PROVE ArrayInv'
  BY <1>2, ResizeStep
<1>3. ASSUME free_array PROVE ArrayInv'
  BY <1>3, FreeStep
<1>4. ASSUME NEW w \in Lengths, NEW h \in Lengths, alloc_array2(w, h) PROVE ArrayInv'
  BY <1>4, GridStep
<1>5. ASSUME Catch PROVE ArrayInv'
  BY <1>5, CatchStep
<1>6. ASSUME NEW from \in Lengths, NEW num \in Lengths, NEW val \in Values,
             set_range(from, num, val)
      PROVE  ArrayInv'
  BY <1>6, SetStep
<1>7. ASSUME NEW dest \in Lengths, NEW src \in Lengths, NEW num \in Lengths,
             mcopy(dest, src, num)
      PROVE  ArrayInv'
  BY <1>7, CopyStep
<1>8. ASSUME UNCHANGED arrayVars PROVE ArrayInv'
  BY <1>8 DEF ArrayInv, Names, arrayVars
<1>. QED BY <1>1, <1>2, <1>3, <1>4, <1>5, <1>6, <1>7, <1>8 DEF ArrayNext

LEMMA ArrayInvariant == ArraySpec => []ArrayInv
BY ArrayStart, ArrayStep, PTL DEF ArraySpec

(* The caller's pointer, length and sides describe a live block that no    *)
(* other pointer names, whichever helper was called and wherever new threw *)
(* bad_alloc, for heaps and lengths of any size.                           *)
THEOREM HeapIsTheCallers == ArraySpec => []BlocksAccounted
<1>1. ArrayInv => BlocksAccounted
  BY DEF ArrayInv, BlocksAccounted, SizeIsTheTruth, OneOwner
<1>. QED BY <1>1, ArrayInvariant, PTL

(* resize_array keeps the cells in use of an array of any length, and all  *)
(* of them when its new throws.                                            *)
THEOREM ResizingIsSafe == ArraySpec => ResizeKeepsCells
<1>. DEFINE Keeps ==
       \A n, used \in Lengths : resize_array(n, used) => \A i \in 0 .. used - 1 :
         list'.arr \in DOMAIN heap' /\ heap'[list'.arr][i] = heap[list.arr][i]
<1>1. ASSUME ArrayInv, ArrayInv', NEW n \in Lengths, NEW used \in Lengths, resize_array(n, used),
             NEW i \in 0 .. used - 1
      PROVE  list'.arr \in DOMAIN heap' /\ heap'[list'.arr][i] = heap[list.arr][i]
  <2>1. CASE thrown' = thrown
    <3>1. PICK b \in Blocks \ DOMAIN heap :
             /\ list' = [arr |-> b, size |-> n]
             /\ DOMAIN heap' = (DOMAIN heap \ {list.arr}) \cup {b}
             /\ \A j \in 0 .. used - 1 : heap'[b][j] = heap[list.arr][j]
      BY <1>1, <2>1, ResizedBlock
    <3>. QED BY <1>1, <3>1
  <2>2. CASE heap' = heap /\ list' = list
    BY <1>1, <2>2, ArrayAssumption DEF ArrayInv, resize_array, Names, Lengths
  <2>. QED BY <1>1, <2>1, <2>2 DEF resize_array
<1>2. ArrayInv /\ ArrayInv' => Keeps
  BY <1>1
<1>. QED BY <1>2, ArrayInvariant, PTL DEF ResizeKeepsCells

(* mcopy within one block moves cells down and repeats them upwards, for   *)
(* any length and any overlap: its loop is followed by induction.          *)
THEOREM CopyingWithinOneBlock == ArraySpec => CopyGoesUpwards
<1>. DEFINE Goes ==
       \A dest, src, num \in Lengths : mcopy(dest, src, num) => \A i \in 0 .. num - 1 :
         heap'[list.arr][dest + i] =
           heap[list.arr][src + IF src < dest THEN i % (dest - src) ELSE i]
<1>1. ArrayInv => Goes
  BY CopyStep DEF Origin
<1>. QED BY <1>1, ArrayInvariant, PTL DEF CopyGoesUpwards

-----------------------------------------------------------------------------
(* The timers that read the time of day. *)

(* The invariant: while the time is taken, the total is short of the busy  *)
(* time by what passed since start().                                      *)
WallInv ==
  /\ time \in Nat /\ wall \in Int
  /\ timer = [tv1 |-> timer.tv1, tv2 |-> timer.tv2, total |-> timer.total]
  /\ timer.tv1 \in Int /\ timer.tv2 \in Int /\ timer.total \in Int
  /\ truth = [counted |-> truth.counted, running |-> truth.running,
               busy |-> truth.busy, paired |-> truth.paired]
  /\ truth.running \in BOOLEAN /\ truth.paired \in BOOLEAN /\ truth.busy \in Int
  /\ truth.counted = timer.tv1
  /\ truth.paired /\ ~truth.running => timer.total = truth.busy
  /\ truth.paired /\ truth.running => timer.total + wall - timer.tv1 = truth.busy

LEMMA WallStart == WallInit => WallInv
BY TimersAssumption DEF WallInit, WallInv

LEMMA WallStep == WallInv /\ [WallNext]_wallVars => WallInv'
<1>. SUFFICES ASSUME WallInv, [WallNext]_wallVars PROVE WallInv'
  OBVIOUS
<1>. USE DEF WallInv
<1>1. CASE Pass
  BY <1>1 DEF Pass
<1>2. CASE SetTimeOfDay
  <2>1. wall' \in Int
    BY <1>2, TimersAssumption DEF SetTimeOfDay
  <2>. QED BY <1>2, <2>1 DEF SetTimeOfDay
<1>3. CASE clear
  <2>1. /\ timer' = [tv1 |-> timer.tv1, tv2 |-> timer.tv2, total |-> 0]
        /\ time' = time /\ wall' = wall
    BY <1>3 DEF clear
  <2>2. /\ truth' = [counted |-> truth.counted, running |-> truth.running,
                    busy |-> 0, paired |-> truth'.paired]
        /\ truth'.paired \in BOOLEAN
        /\ truth'.paired => ~truth.running
    BY <1>3 DEF clear
  <2>. QED BY <2>1, <2>2
<1>4. CASE start
  <2>1. /\ timer' = [tv1 |-> wall, tv2 |-> timer.tv2, total |-> timer.total]
        /\ time' = time /\ wall' = wall
    BY <1>4 DEF start
  <2>2. /\ truth' = [counted |-> wall, running |-> TRUE,
                    busy |-> truth.busy, paired |-> truth'.paired]
        /\ truth'.paired \in BOOLEAN
        /\ truth'.paired => truth.paired /\ ~truth.running
    BY <1>4 DEF start
  <2>3. /\ timer'.tv1 \in Int /\ timer'.tv2 \in Int /\ timer'.total \in Int
        /\ truth'.busy \in Int /\ truth'.counted = timer'.tv1
    BY <2>1, <2>2
  <2>4. truth'.paired => timer'.total + wall' - timer'.tv1 = truth'.busy
    BY <2>1, <2>2
  <2>5. /\ timer' = [tv1 |-> timer'.tv1, tv2 |-> timer'.tv2, total |-> timer'.total]
        /\ truth' = [counted |-> truth'.counted, running |-> truth'.running,
                     busy |-> truth'.busy, paired |-> truth'.paired]
    BY <2>1, <2>2
  <2>6. truth'.running = TRUE
    BY <2>2
  <2>. QED BY <2>1, <2>2, <2>3, <2>4, <2>5, <2>6
<1>5. CASE stop
  <2>1. /\ timer' = [tv1 |-> timer.tv1, tv2 |-> wall, total |-> timer.total + wall - timer.tv1]
        /\ time' = time /\ wall' = wall
    BY <1>5 DEF stop
  <2>2. /\ truth' = [counted |-> truth.counted, running |-> FALSE,
                    busy |-> truth.busy, paired |-> truth'.paired]
        /\ truth'.paired \in BOOLEAN
        /\ truth'.paired => truth.paired /\ truth.running
    BY <1>5 DEF stop
  <2>3. /\ timer'.tv1 \in Int /\ timer'.tv2 \in Int /\ timer'.total \in Int
        /\ truth'.busy \in Int /\ truth'.counted = timer'.tv1
    BY <2>1, <2>2
  <2>4. truth'.paired => timer'.total = truth'.busy
    BY <2>1, <2>2
  <2>5. /\ timer' = [tv1 |-> timer'.tv1, tv2 |-> timer'.tv2, total |-> timer'.total]
        /\ truth' = [counted |-> truth'.counted, running |-> truth'.running,
                     busy |-> truth'.busy, paired |-> truth'.paired]
    BY <2>1, <2>2
  <2>6. truth'.running = FALSE
    BY <2>2
  <2>7. /\ truth'.running \in BOOLEAN /\ truth'.paired \in BOOLEAN
        /\ time' \in Nat /\ wall' \in Int
    BY <2>1, <2>2, <2>6
  <2>. QED BY <2>3, <2>4, <2>5, <2>6, <2>7
<1>6. CASE interval
  <2>1. /\ timer' = [tv1 |-> wall, tv2 |-> wall, total |-> timer.total]
        /\ time' = time /\ wall' = wall
    BY <1>6 DEF interval
  <2>2. /\ truth' = [counted |-> truth.counted + wall - timer.tv1, running |-> truth.running,
                    busy |-> truth.busy, paired |-> truth'.paired]
        /\ truth'.paired \in BOOLEAN
        /\ truth'.paired => truth.paired /\ ~truth.running
    BY <1>6 DEF interval
  <2>. QED BY <2>1, <2>2
<1>7. CASE UNCHANGED wallVars
  BY <1>7 DEF wallVars
<1>. QED BY <1>1, <1>2, <1>3, <1>4, <1>5, <1>6, <1>7 DEF WallNext

(* Timer loses no time between intervals and AccumulativeTimer adds up the *)
(* time between start() and stop(), for any run of the clock and any       *)
(* settings of it in between.                                              *)
THEOREM TimersTellTheTime == WallSpec => []TimersAreRight
<1>1. WallInv => TimersAreRight
  BY DEF WallInv, TimersAreRight, IntervalsTelescope, TotalIsBusyTime
<1>. QED BY <1>1, WallStart, WallStep, PTL DEF WallSpec

-----------------------------------------------------------------------------
(* The timers that read the cycle counter. *)

(* The invariant: a stage holds a word of the counter when it was taken,   *)
(* the low one if the compiler took eax, and those of this start() were    *)
(* taken one after the other.                                              *)
CycleInv ==
  /\ counter \in Nat
  /\ stages = [c |-> stages.c, n |-> stages.n]
  /\ stages.n \in 0 .. Stages
  /\ stages.c \in [0 .. Stages -> Int] /\ taken \in [0 .. Stages -> Nat]
  /\ \A i \in 0 .. stages.n : taken[i] <= counter
  /\ ReadsLowWord => \A i \in 0 .. stages.n : stages.c[i] = taken[i] % Word
  /\ \A i, j \in 0 .. stages.n : i <= j => taken[i] <= taken[j]

LEMMA CycleStart == CycleInit => CycleInv
<1>1. 0 % Word = 0
  BY TimersAssumption, SmallRemainder
<1>. QED BY <1>1, TimersAssumption DEF CycleInit, CycleInv, ReadsLowWord

(* What get_cycle returns. *)
LEMMA WordOfTheCounter ==
  ASSUME counter \in Nat, NEW use \in Uses
  PROVE  get_cycle(use) \in Int /\ (ReadsLowWord => get_cycle(use) = counter % Word)
<1>1. counter \div Word \in Int /\ Word \in Nat \ {0}
  BY TimersAssumption
<1>. QED BY <1>1 DEF get_cycle, ReadsLowWord

LEMMA CycleStep == CycleInv /\ [CycleNext]_cycleVars => CycleInv'
<1>. SUFFICES ASSUME CycleInv, [CycleNext]_cycleVars PROVE CycleInv'
  OBVIOUS
<1>. USE DEF CycleInv
<1>1. CASE Cycles
  <2>1. counter' \in Nat /\ counter <= counter' /\ stages' = stages /\ taken' = taken
        /\ ReadsLowWord' = ReadsLowWord
    BY <1>1, TimersAssumption DEF Cycles, ReadsLowWord
  <2>2. \A i \in 0 .. stages.n : taken[i] \in Nat /\ taken[i] <= counter'
    BY <2>1, TimersAssumption
  <2>. QED BY <2>1, <2>2
<1>2. CASE startStages
  <2>. DEFINE word == get_cycle("start")
  <2>1. word \in Int /\ (ReadsLowWord => word = counter % Word)
    BY WordOfTheCounter DEF Uses
  <2>2. /\ stages' = [c |-> [stages.c EXCEPT ![0] = word], n |-> 0]
        /\ taken' = [taken EXCEPT ![0] = counter] /\ counter' = counter
        /\ ReadsLowWord' = ReadsLowWord
    BY <1>2 DEF startStages, ReadsLowWord
  <2>. HIDE DEF word
  <2>. QED BY <2>1, <2>2, TimersAssumption
<1>3. CASE stage
  <2>. DEFINE word == get_cycle("stage")
  <2>1. word \in Int /\ (ReadsLowWord => word = counter % Word)
    BY WordOfTheCounter DEF Uses
  <2>2. /\ stages.n + 1 \in 0 .. Stages
        /\ stages'.n = stages.n + 1 /\ stages' = [c |-> stages'.c, n |-> stages'.n]
        /\ stages'.c = [stages.c EXCEPT ![stages.n + 1] = word]
        /\ taken' = [taken EXCEPT ![stages.n + 1] = counter] /\ counter' = counter
        /\ ReadsLowWord' = ReadsLowWord
    BY <1>3, TimersAssumption DEF stage, ReadsLowWord
  <2>. HIDE DEF word
  <2>3. \A i \in 0 .. stages.n : stages'.c[i] = stages.c[i] /\ taken'[i] = taken[i]
    BY <2>2
  <2>4. stages'.c[stages.n + 1] = word /\ taken'[stages.n + 1] = counter
    BY <2>2
  <2>5. \A i \in 0 .. stages'.n : i \in 0 .. stages.n \/ i = stages.n + 1
    BY <2>2
  <2>. QED BY <2>1, <2>2, <2>3, <2>4, <2>5
<1>4. CASE UNCHANGED cycleVars
  BY <1>4 DEF cycleVars, ReadsLowWord
<1>. QED BY <1>1, <1>2, <1>3, <1>4 DEF CycleNext

(* Subtracted modulo the word, two readings are as far apart as the times  *)
(* they were taken at, if those are less than a word apart.                *)
LEMMA WordsApart ==
  ASSUME NEW m \in Nat \ {0}, NEW a \in Nat, NEW b \in Nat, a <= b, b - a < m
  PROVE  ((b % m) - (a % m)) % m = b - a
<1>. DEFINE p == a \div m
            q == b \div m
            r == a % m
            s == b % m
            d == b - a
<1>1. p \in Int /\ q \in Int /\ r \in 0 .. m - 1 /\ s \in 0 .. m - 1
      /\ a = m * p + r /\ b = m * q + s
  BY Division
<1>2. d \in 0 .. m - 1 /\ d = b - a
  OBVIOUS
<1>. HIDE DEF p, q, r, s, d
<1>3. s - r = m * (p - q) + d
  BY <1>1, <1>2
<1>4. (m * (p - q) + d) % m = d
  <2>1. p - q \in Int
    BY <1>1
  <2>. QED BY <1>2, <2>1, RemainderIs
<1>. QED BY <1>2, <1>3, <1>4 DEF r, s

LEMMA StagesApart ==
  ASSUME CycleInv, ReadsLowWord, NEW i \in 0 .. stages.n, NEW j \in 0 .. stages.n, i <= j,
         taken[j] - taken[i] < Word
  PROVE  difference(stages.c, i, j) = taken[j] - taken[i]
<1>1. /\ taken[i] \in Nat /\ taken[j] \in Nat /\ taken[i] <= taken[j]
      /\ stages.c[i] = taken[i] % Word /\ stages.c[j] = taken[j] % Word
  BY TimersAssumption DEF CycleInv
<1>2. Word \in Nat \ {0}
  BY TimersAssumption
<1>3. ((taken[j] % Word) - (taken[i] % Word)) % Word = taken[j] - taken[i]
  BY <1>1, <1>2, WordsApart
<1>. QED BY <1>1, <1>3 DEF difference

(* The stages taken since start() are told exactly when the compiler took  *)
(* eax, for any number of stages and any width of the cycle counter,       *)
(* wherever it wraps.                                                      *)
THEOREM StagesTellTheCycles == CycleSpec => []StagesAreRight
<1>1. ASSUME CycleInv, ReadsLowWord PROVE StagesAreRight
  <2>. USE <1>1
  <2>1. ASSUME taken[stages.n] - taken[0] < Word,
               NEW i \in 0 .. stages.n, NEW j \in i .. stages.n
        PROVE  difference(stages.c, i, j) = taken[j] - taken[i]
    <3>1. /\ j \in 0 .. stages.n /\ i <= j /\ 0 \in 0 .. stages.n /\ stages.n \in 0 .. stages.n
          /\ \A k \in 0 .. stages.n : taken[k] \in Nat
      BY TimersAssumption DEF CycleInv
    <3>2. taken[j] <= taken[stages.n] /\ taken[0] <= taken[i]
      BY <3>1 DEF CycleInv
    <3>3. taken[j] - taken[i] < Word
      BY <2>1, <3>1, <3>2, TimersAssumption
    <3>. QED BY <3>1, <3>3, StagesApart
  <2>2. ASSUME NEW i \in 0 .. stages.n - 1, taken[i + 1] - taken[i] < Word \div 2
        PROVE  cycles(i) = taken[i + 1] - taken[i]
    <3>1. /\ i \in 0 .. stages.n /\ i + 1 \in 0 .. stages.n /\ i <= i + 1
          /\ taken[i] \in Nat /\ taken[i + 1] \in Nat
      BY TimersAssumption DEF CycleInv
    <3>2. taken[i + 1] - taken[i] < Word
      BY <2>2, <3>1, TimersAssumption
    <3>3. difference(stages.c, i, i + 1) = taken[i + 1] - taken[i]
      BY <3>1, <3>2, StagesApart
    <3>. QED BY <2>2, <3>3 DEF cycles, Signed
  <2>. QED BY <2>1, <2>2 DEF StagesAreRight
<1>2. CycleInv => StagesAreRight
  BY <1>1 DEF StagesAreRight
<1>. QED BY <1>2, CycleStart, CycleStep, PTL DEF CycleSpec

-----------------------------------------------------------------------------
(* The angle helpers, for all integers. *)

(* Whole turns either way. *)
Turns == {Turn * k : k \in Int}

LEMMA TurnSize == H \in Nat \ {0} /\ Turn \in Nat \ {0} /\ Turn = 2 * H
BY AngleAssumption DEF Turn

LEMMA TurnsAdd ==
  /\ 0 \in Turns /\ Turn \in Turns /\ Turns \subseteq Int
  /\ \A a, b \in Turns : a + b \in Turns /\ a - b \in Turns
  /\ \A a \in Turns : -a \in Turns
<1>. USE TurnSize
<1>1. \A k \in Int : Turn * k \in Turns /\ Turn * k \in Int
  BY DEF Turns
<1>2. 0 = Turn * 0 /\ Turn = Turn * 1
  OBVIOUS
<1>3. ASSUME NEW a \in Turns, NEW b \in Turns
      PROVE  a + b \in Turns /\ a - b \in Turns /\ a \in Int
  <2>1. PICK j \in Int : a = Turn * j
    BY DEF Turns
  <2>2. PICK k \in Int : b = Turn * k
    BY DEF Turns
  <2>3. a + b = Turn * (j + k) /\ a - b = Turn * (j - k)
    BY <2>1, <2>2
  <2>4. j + k \in Int /\ j - k \in Int
    OBVIOUS
  <2>. QED BY <1>1, <2>1, <2>3, <2>4
<1>4. 0 \in Turns /\ Turn \in Turns
  BY <1>1, <1>2
<1>5. ASSUME NEW a \in Turns PROVE -a \in Turns /\ a \in Int
  <2>1. 0 - a \in Turns /\ a \in Int
    BY <1>3, <1>4
  <2>2. 0 - a = -a
    BY <2>1
  <2>. QED BY <2>1, <2>2
<1>. QED BY <1>3, <1>4, <1>5

(* Less than a turn is a whole number of turns only if it is none. *)
LEMMA NoPartOfATurn ==
  ASSUME NEW a \in Turns
  PROVE  /\ -Turn < a /\ a < Turn => a = 0
         /\ 0 <= a /\ a <= Turn => a = 0 \/ a = Turn
<1>1. PICK k \in Int : a = Turn * k
  BY DEF Turns
<1>. USE TurnSize
<1>2. /\ k >= 2 => Turn * k >= Turn * 2
      /\ k <= -1 => Turn * k <= -Turn
      /\ k = 0 => Turn * k = 0
      /\ k = 1 => Turn * k = Turn
  OBVIOUS
<1>3. Turn * 2 = Turn + Turn
  OBVIOUS
<1>. QED BY <1>1, <1>2, <1>3

LEMMA Direction ==
  ASSUME NEW p \in Int, NEW q \in Int
  PROVE  SameDirection(p, q) <=> p - q \in Turns
<1>. DEFINE d == p - q
<1>1. d \in Int
  OBVIOUS
<1>. HIDE DEF d
<1>2. ASSUME d % Turn = 0 PROVE d \in Turns
  <2>1. d = Turn * (d \div Turn) + (d % Turn) /\ d \div Turn \in Int
    BY <1>1, TurnSize, Division
  <2>2. d = Turn * (d \div Turn)
    BY <1>2, <2>1, TurnSize
  <2>. QED BY <2>1, <2>2 DEF Turns
<1>3. ASSUME d \in Turns PROVE d % Turn = 0
  <2>1. PICK k \in Int : d = Turn * k
    BY <1>3 DEF Turns
  <2>2. d = Turn * k + 0 /\ 0 \in 0 .. Turn - 1
    BY <2>1, TurnSize
  <2>. QED BY <2>1, <2>2, TurnSize, RemainderIs
<1>. QED BY <1>2, <1>3 DEF SameDirection, d

(* angle_mod takes off whole turns until half a turn is left at most. *)
LEMMA AngleMod ==
  ASSUME NEW a \in Int
  PROVE  angle_mod(a) \in -H .. H /\ angle_mod(a) - a \in Turns
<1>. DEFINE q == a \div Turn
            r == a % Turn
<1>1. q \in Int /\ r \in 0 .. Turn - 1 /\ a = Turn * q + r
  BY TurnSize, Division
<1>2. Rint(a, Turn) \in {q, q + 1}
      /\ (Rint(a, Turn) = q => 2 * r <= Turn)
      /\ (Rint(a, Turn) # q => 2 * r >= Turn)
  <2>1. Rint(a, Turn) = IF 2 * r < Turn \/ (2 * r = Turn /\ q % 2 = 0) THEN q ELSE q + 1
    BY DEF Rint
  <2>. HIDE DEF q, r
  <2>. QED BY <1>1, <2>1, TurnSize
<1>. HIDE DEF q, r
<1>3. CASE Rint(a, Turn) = q
  <2>1. angle_mod(a) = r
    BY <1>1, <1>3, TurnSize DEF angle_mod
  <2>2. r - a = Turn * (-q) /\ -q \in Int
    BY <1>1, TurnSize
  <2>3. r - a \in Turns
    BY <2>2 DEF Turns
  <2>4. r \in -H .. H
    BY <1>1, <1>2, <1>3, TurnSize
  <2>. QED BY <2>1, <2>3, <2>4
<1>4. CASE Rint(a, Turn) = q + 1
  <2>1. Turn * (q + 1) = Turn * q + Turn
    BY <1>1, TurnSize
  <2>2. angle_mod(a) = r - Turn
    BY <1>1, <1>4, <2>1, TurnSize DEF angle_mod
  <2>3. (r - Turn) - a = Turn * (-(q + 1)) /\ -(q + 1) \in Int
    BY <1>1, <2>1, TurnSize
  <2>4. (r - Turn) - a \in Turns
    BY <2>3 DEF Turns
  <2>5. Rint(a, Turn) # q
    BY <1>1, <1>4
  <2>6. r - Turn \in -H .. H
    BY <1>1, <1>2, <2>5, TurnSize
  <2>. QED BY <2>2, <2>4, <2>6
<1>. QED BY <1>2, <1>3, <1>4

(* There is one way round of at most half a turn. *)
LEMMA NearestIs ==
  ASSUME NEW p \in Int, NEW q \in Int, NEW d \in -H .. H, (p - q) - d \in Turns
  PROVE  Nearest(p, q) = Magnitude(d)
<1>. DEFINE Way(e) == SameDirection(p - q, e) \/ SameDirection(q - p, e)
            m == Magnitude(d)
<1>1. m \in 0 .. H
  BY TurnSize DEF Magnitude
<1>2. ASSUME NEW e \in 0 .. H
      PROVE  Way(e) <=> (p - q) - e \in Turns \/ (q - p) - e \in Turns
  <2>1. p - q \in Int /\ q - p \in Int /\ e \in Int
    BY TurnSize
  <2>2. SameDirection(p - q, e) <=> (p - q) - e \in Turns
    BY <2>1, Direction
  <2>3. SameDirection(q - p, e) <=> (q - p) - e \in Turns
    BY <2>1, Direction
  <2>. QED BY <2>2, <2>3
<1>3. Way(m)
  <2>1. CASE d >= 0
    BY <1>1, <1>2, <2>1 DEF Magnitude
  <2>2. CASE d < 0
    <3>1. -((p - q) - d) \in Turns
      BY TurnsAdd
    <3>2. -((p - q) - d) = (q - p) - m
      BY <2>2 DEF Magnitude
    <3>. QED BY <1>1, <1>2, <3>1, <3>2
  <2>. QED BY <2>1, <2>2
<1>4. ASSUME NEW e \in 0 .. H, Way(e) PROVE e = m
  <2>1. CASE (p - q) - e \in Turns
    <3>1. ((p - q) - e) - ((p - q) - d) \in Turns
      BY <2>1, TurnsAdd
    <3>2. ((p - q) - e) - ((p - q) - d) = d - e
      BY TurnSize
    <3>3. -(d - e) \in Turns /\ -(d - e) = e - d
      BY <3>1, <3>2, TurnsAdd, TurnSize
    <3>. QED BY <3>3, NoPartOfATurn, TurnSize DEF Magnitude
  <2>2. CASE (q - p) - e \in Turns
    <3>1. ((q - p) - e) + ((p - q) - d) \in Turns
      BY <2>2, TurnsAdd
    <3>2. ((q - p) - e) + ((p - q) - d) = -(d + e)
      BY TurnSize
    <3>3. -(-(d + e)) \in Turns /\ -(-(d + e)) = d + e
      BY <3>1, <3>2, TurnsAdd, TurnSize
    <3>. QED BY <3>3, NoPartOfATurn, TurnSize DEF Magnitude
  <2>. QED BY <1>2, <1>4, <2>1, <2>2
<1>5. Nearest(p, q) = CHOOSE e \in 0 .. H : Way(e)
  BY DEF Nearest
<1>. HIDE DEF Way, m
<1>6. (CHOOSE e \in 0 .. H : Way(e)) = m
  BY <1>1, <1>3, <1>4
<1>. QED BY <1>5, <1>6 DEF m

(* angle_pos adds a turn and takes off whole turns, towards zero. *)
LEMMA AnglePos ==
  ASSUME NEW a \in Int
  PROVE  /\ angle_pos(a) \in Int /\ angle_pos(a) - a \in Turns
         /\ a >= -Turn => angle_pos(a) \in 0 .. Turn
<1>. DEFINE v == a + Turn
<1>1. v \in Int /\ a = v - Turn
  BY TurnSize
<1>2. angle_pos(a) = IF v < 0 THEN -((-v) % Turn) ELSE v % Turn
  BY DEF angle_pos, Fmod
<1>. HIDE DEF v
<1>3. ASSUME NEW b \in Int PROVE b % Turn \in 0 .. Turn - 1 /\ b - (b % Turn) \in Turns
  <2>1. /\ b \div Turn \in Int /\ b % Turn \in 0 .. Turn - 1
        /\ b = Turn * (b \div Turn) + (b % Turn)
    BY TurnSize, Division
  <2>2. b - (b % Turn) = Turn * (b \div Turn)
    BY <2>1, TurnSize
  <2>. QED BY <2>1, <2>2 DEF Turns
<1>4. CASE v < 0
  <2>1. -v \in Int
    BY <1>1
  <2>2. (-v) % Turn \in 0 .. Turn - 1 /\ (-v) - ((-v) % Turn) \in Turns
    BY <1>3, <2>1
  <2>. DEFINE r == (-v) % Turn
  <2>3. (-v - r) + Turn \in Turns
    BY <2>2, TurnsAdd
  <2>4. angle_pos(a) = -r
    BY <1>2, <1>4
  <2>5. r \in Int
    BY <2>2, TurnSize
  <2>. HIDE DEF r
  <2>6. -r - a = (-v - r) + Turn
    BY <1>1, <2>5, TurnSize
  <2>. QED BY <1>1, <1>4, <2>3, <2>4, <2>5, <2>6, TurnSize
<1>5. CASE v >= 0
  <2>. DEFINE r == v % Turn
  <2>1. r \in 0 .. Turn - 1 /\ v - r \in Turns
    BY <1>1, <1>3
  <2>2. angle_pos(a) = r
    BY <1>1, <1>2, <1>5
  <2>. HIDE DEF r
  <2>3. Turn - (v - r) \in Turns
    BY <2>1, TurnsAdd
  <2>4. r - a = Turn - (v - r)
    BY <1>1, <2>1, TurnSize
  <2>. QED BY <2>1, <2>2, <2>3, <2>4, TurnSize
<1>. QED BY <1>1, <1>4, <1>5

LEMMA ShortestDifferenceAlways ==
  ASSUME x1 \in Int, x2 \in Int
  PROVE  ShortestDifference
<1>. DEFINE d == x1 - x2
<1>1. d \in Int
  OBVIOUS
<1>2. angle_mod(x1) \in -H .. H /\ angle_mod(x1) - x1 \in Turns
  BY AngleMod
<1>3. angle_mod(d) \in -H .. H /\ angle_mod(d) - d \in Turns
  BY <1>1, AngleMod
<1>4. angle_mod(x1) \in Int /\ angle_mod(d) \in Int
  BY <1>2, <1>3, TurnSize
<1>5. Normal(angle_mod(x1)) /\ SameDirection(angle_mod(x1), x1)
  BY <1>2, <1>4, Direction DEF Normal
<1>6. Normal(angle_diff(x1, x2)) /\ SameDirection(x2 + angle_diff(x1, x2), x1)
  <2>1. angle_diff(x1, x2) = angle_mod(d)
    BY DEF angle_diff
  <2>. HIDE DEF d
  <2>2. x2 + angle_mod(d) \in Int
    BY <1>4
  <2>3. (x2 + angle_mod(d)) - x1 = angle_mod(d) - d
    BY <1>4 DEF d
  <2>4. SameDirection(x2 + angle_mod(d), x1)
    BY <1>3, <2>2, <2>3, Direction
  <2>. QED BY <1>3, <2>1, <2>4 DEF Normal
<1>7. angle_dist(x1, x2) = Nearest(x1, x2)
  <2>1. angle_dist(x1, x2) = Magnitude(angle_mod(d))
    BY DEF angle_dist
  <2>2. -(angle_mod(d) - d) \in Turns
    BY <1>3, TurnsAdd
  <2>3. -(angle_mod(d) - d) = (x1 - x2) - angle_mod(d)
    BY <1>4
  <2>4. Nearest(x1, x2) = Magnitude(angle_mod(d))
    <3>. HIDE DEF d
    <3>. QED BY <1>3, <2>2, <2>3, NearestIs
  <2>. QED BY <2>1, <2>4
<1>8. SameDirection(angle_pos(x1), x1) /\ (x1 >= -Turn => angle_pos(x1) \in 0 .. Turn)
  BY AnglePos, Direction
<1>. QED BY <1>5, <1>6, <1>7, <1>8 DEF ShortestDifference

LEMMA LongWayRoundAlways ==
  ASSUME x1 \in Int
  PROVE  LongWayRound
<1>. SUFFICES ASSUME x1 \in -H .. H
              PROVE  LET long == angle_long(x1) IN
                       /\ SameDirection(long, x1)
                       /\ H <= Magnitude(long) /\ Magnitude(long) <= Turn
                       /\ x1 # 0 => (long < 0) = (x1 > 0)
  BY DEF LongWayRound, Normal
<1>. DEFINE long == angle_long(x1)
<1>1. long = IF x1 < 0 THEN Turn + x1 ELSE x1 - Turn
  BY TurnSize DEF angle_long
<1>. HIDE DEF long
<1>2. long \in Int /\ long - x1 \in {Turn, -Turn}
  BY <1>1, TurnSize
<1>3. SameDirection(long, x1)
  BY <1>2, TurnsAdd, Direction
<1>4. H <= Magnitude(long) /\ Magnitude(long) <= Turn
  BY <1>1, TurnSize DEF Magnitude
<1>5. x1 # 0 => (long < 0 <=> x1 > 0)
  BY <1>1, TurnSize
<1>6. x1 # 0 => (long < 0) = (x1 > 0)
  BY <1>5
<1>. QED BY <1>3, <1>4, <1>6 DEF long

LEMMA DirectionWithinTurn ==
  ASSUME NEW a \in Int, NEW r \in 0 .. Turn - 1, a - r \in Turns
  PROVE  a % Turn = r
<1>1. PICK k \in Int : a - r = Turn * k
  BY DEF Turns
<1>2. a = Turn * k + r
  BY <1>1, TurnSize
<1>. QED BY <1>2, TurnSize, RemainderIs

LEMMA HalfwayBetweenAlways ==
  ASSUME x1 \in Int, x2 \in Int
  PROVE  HalfwayBetween
<1>. SUFFICES ASSUME x1 \in -H + 1 .. H, x2 \in -H + 1 .. H, (x1 + x2) % 2 = 0
              PROVE  LET m == avg_angle(x1, x2) IN
                       /\ m \in -H + 1 .. H
                       /\ 2 * ((m - x2) % Turn) = (x1 - x2) % Turn
  BY DEF HalfwayBetween
<1>. DEFINE m == avg_angle(x1, x2)
            l == IF x1 < x2 THEN x1 + Turn ELSE x1
            half == (l + x2) \div 2
<1>1. /\ l \in Int /\ l - x2 \in 0 .. Turn - 1
      /\ l = x1 \/ (l = x1 + Turn /\ x1 < x2)
  BY TurnSize
<1>2. half \in Int /\ 2 * half = l + x2
  BY TurnSize
<1>3. m = IF half > H THEN half - Turn ELSE half
  BY DEF avg_angle
<1>. HIDE DEF l, half, m
<1>4. m \in -H + 1 .. H
  BY <1>1, <1>2, <1>3, TurnSize
<1>5. (x1 - x2) % Turn = l - x2
  <2>1. (x1 - x2) - (l - x2) \in {0, -Turn} /\ x1 - x2 \in Int
    BY <1>1, TurnSize
  <2>2. (x1 - x2) - (l - x2) \in Turns
    BY <2>1, TurnsAdd
  <2>. QED BY <1>1, <2>1, <2>2, DirectionWithinTurn
<1>6. (m - x2) % Turn = half - x2
  <2>1. half - x2 \in 0 .. Turn - 1 /\ m - x2 \in Int
    BY <1>1, <1>2, <1>4, TurnSize
  <2>2. (m - x2) - (half - x2) \in {0, -Turn}
    BY <1>2, <1>3, TurnSize
  <2>3. (m - x2) - (half - x2) \in Turns
    BY <2>2, TurnsAdd
  <2>. QED BY <2>1, <2>3, DirectionWithinTurn
<1>7. 2 * (half - x2) = l - x2
  BY <1>1, <1>2
<1>. QED BY <1>4, <1>5, <1>6, <1>7 DEF m

LEMMA WithinToleranceAlways ==
  ASSUME x1 \in Int, x2 \in Int, x3 \in Int
  PROVE  WithinTolerance
<1>. SUFFICES ASSUME x3 \in 0 .. H - 1
              PROVE  LET r == abs_bound_angle(x2, x3, x1) IN
                       /\ Normal(r)
                       /\ Nearest(r, x2) <= x3
                       /\ Nearest(x1, x2) <= x3 => SameDirection(r, x1)
                       /\ Nearest(x1, x2) > x3 => Nearest(x1, r) = Nearest(x1, x2) - x3
  BY DEF WithinTolerance
<1>. DEFINE off == angle_mod(x1 - x2)
            kept == abs_bound(off, x3)
            r == angle_mod(kept + x2)
<1>1. off \in -H .. H /\ off - (x1 - x2) \in Turns
  BY AngleMod
<1>2. kept = IF off < -x3 THEN -x3 ELSE IF off > x3 THEN x3 ELSE off
  BY DEF abs_bound
<1>. HIDE DEF off
<1>3. kept \in -H .. H /\ Magnitude(kept) <= x3
  BY <1>1, <1>2, TurnSize DEF Magnitude
<1>4. abs_bound_angle(x2, x3, x1) = r
  BY DEF abs_bound_angle, off
<1>. HIDE DEF kept
<1>5. r \in -H .. H /\ r - (kept + x2) \in Turns
  <2>1. kept + x2 \in Int
    BY <1>3, TurnSize
  <2>. QED BY <2>1, AngleMod
<1>. HIDE DEF r
<1>6. r \in Int /\ off \in Int /\ kept \in Int
  BY <1>1, <1>3, <1>5, TurnSize
<1>7. Nearest(r, x2) = Magnitude(kept)
  <2>1. (r - x2) - kept = r - (kept + x2)
    BY <1>6
  <2>. QED BY <1>3, <1>5, <1>6, <2>1, NearestIs
<1>8. Nearest(x1, x2) = Magnitude(off)
  <2>1. -(off - (x1 - x2)) \in Turns
    BY <1>1, TurnsAdd
  <2>2. -(off - (x1 - x2)) = (x1 - x2) - off
    BY <1>6
  <2>. QED BY <1>1, <2>1, <2>2, NearestIs
<1>9. ASSUME Nearest(x1, x2) <= x3 PROVE SameDirection(r, x1)
  <2>1. kept = off
    BY <1>2, <1>6, <1>8, <1>9 DEF Magnitude
  <2>2. (r - (kept + x2)) + (off - (x1 - x2)) \in Turns
    BY <1>1, <1>5, TurnsAdd
  <2>3. (r - (kept + x2)) + (off - (x1 - x2)) = r - x1
    BY <1>6, <2>1
  <2>. QED BY <1>6, <2>2, <2>3, Direction
<1>10. ASSUME Nearest(x1, x2) > x3 PROVE Nearest(x1, r) = Nearest(x1, x2) - x3
  <2>. DEFINE d == off - kept
  <2>1. d \in -H .. H /\ Magnitude(d) = Magnitude(off) - x3
    BY <1>1, <1>2, <1>6, <1>8, <1>10, TurnSize DEF Magnitude
  <2>2. -((r - (kept + x2)) + (off - (x1 - x2))) \in Turns
    BY <1>1, <1>5, TurnsAdd
  <2>3. -((r - (kept + x2)) + (off - (x1 - x2))) = (x1 - r) - d
    BY <1>6
  <2>. HIDE DEF d
  <2>4. Nearest(x1, r) = Magnitude(d)
    BY <1>6, <2>1, <2>2, <2>3, NearestIs
  <2>. QED BY <1>8, <2>1, <2>4
<1>11. Normal(r) /\ Nearest(r, x2) <= x3
  BY <1>3, <1>5, <1>7 DEF Normal
<1>. QED BY <1>4, <1>9, <1>10, <1>11

-----------------------------------------------------------------------------
(* The numeric helpers. *)

(* The remainder of C is smaller than the divisor, whatever the signs. *)
LEMMA RemainderOfC ==
  ASSUME NEW u \in Int, NEW v \in Int \ {0}
  PROVE  /\ Remainder(u, v) \in Int /\ Magnitude(Remainder(u, v)) < Magnitude(v)
         /\ \E k \in Int : u = v * k + Remainder(u, v)
<1>. DEFINE m == Magnitude(v)
            s == Magnitude(u)
            q == s \div m
            r == s % m
<1>1. m \in Nat \ {0} /\ s \in Nat /\ (m = v \/ m = -v) /\ (u >= 0 => s = u) /\ (u < 0 => s = -u)
  BY DEF Magnitude
<1>2. Remainder(u, v) = IF u < 0 THEN -r ELSE r
  BY <1>1 DEF Remainder, Fmod, Magnitude
<1>. HIDE DEF m, s
<1>3. q \in Int /\ r \in 0 .. m - 1 /\ s = m * q + r
  BY <1>1, Division
<1>. HIDE DEF q, r
<1>4. \E k \in Int : u = v * k + Remainder(u, v)
  <2>1. m * q = v * q \/ m * q = v * (-q)
    BY <1>1, <1>3
  <2>2. u = m * q + Remainder(u, v) \/ u = -(m * q) + Remainder(u, v)
    BY <1>1, <1>2, <1>3
  <2>3. -(v * q) = v * (-q) /\ -(v * (-q)) = v * q /\ -q \in Int
    BY <1>3
  <2>. QED BY <1>3, <2>1, <2>2, <2>3
<1>5. Remainder(u, v) \in Int /\ Magnitude(Remainder(u, v)) < m
  BY <1>1, <1>2, <1>3 DEF Magnitude
<1>. QED BY <1>4, <1>5 DEF m

(* One round of the loop of gcd, and the loop on the pairs whose second    *)
(* number is at most n.                                                    *)
After(p) == <<p[2], Remainder(p[1], p[2])>>
Round(f, p) == IF p[2] # 0 THEN f[After(p)] ELSE p[1]
Pairs(n) == {p \in Int \X Int : Magnitude(p[2]) <= n}
Euclid(f, S) == f = [p \in S |-> Round(f, p)]

LEMMA RoundShrinks ==
  ASSUME NEW p \in Int \X Int
  PROVE  /\ Magnitude(p[2]) \in Nat /\ p \in Pairs(Magnitude(p[2]))
         /\ p[2] # 0 => /\ After(p) \in Int \X Int
                        /\ Magnitude(p[2]) # 0
                        /\ \A n \in Nat : Magnitude(p[2]) <= n + 1 => After(p) \in Pairs(n)
<1>1. Magnitude(p[2]) \in Nat /\ p \in Pairs(Magnitude(p[2])) /\ (p[2] # 0 => Magnitude(p[2]) # 0)
  BY DEF Magnitude, Pairs
<1>2. ASSUME p[2] # 0
      PROVE  /\ After(p) \in Int \X Int
             /\ \A n \in Nat : Magnitude(p[2]) <= n + 1 => After(p) \in Pairs(n)
  <2>. DEFINE r == Remainder(p[1], p[2])
  <2>1. r \in Int /\ Magnitude(r) < Magnitude(p[2])
    <3>1. p[1] \in Int /\ p[2] \in Int \ {0}
      BY <1>2
    <3>. QED BY <3>1, RemainderOfC
  <2>. HIDE DEF r
  <2>2. Magnitude(r) \in Nat
    BY <2>1 DEF Magnitude
  <2>3. After(p) = <<p[2], r>>
    BY DEF After, r
  <2>. QED BY <1>1, <2>1, <2>2, <2>3 DEF Pairs
<1>. QED BY <1>1, <1>2

(* The loop ends for each pair: there is a function that does what it says,*)
(* and only one.                                                           *)
LEMMA EuclidEnds ==
  ASSUME NEW n \in Nat
  PROVE  \E f : Euclid(f, Pairs(n))
<1>. DEFINE S == {k \in Nat : \E f : Euclid(f, Pairs(k))}
<1>1. 0 \in S
  <2>. DEFINE f == [p \in Pairs(0) |-> p[1]]
  <2>1. \A p \in Pairs(0) : p[2] = 0
    BY DEF Pairs, Magnitude
  <2>2. Euclid(f, Pairs(0))
    BY <2>1 DEF Euclid, Round
  <2>. QED BY <2>2
<1>2. ASSUME NEW k \in Nat, k \in S PROVE k + 1 \in S
  <2>1. PICK f : Euclid(f, Pairs(k))
    BY <1>2
  <2>. DEFINE g == [p \in Pairs(k + 1) |-> Round(f, p)]
  <2>2. \A p \in Pairs(k) : p \in Pairs(k + 1) /\ f[p] = Round(f, p)
    BY <2>1 DEF Euclid, Pairs, Magnitude
  <2>3. \A p \in Pairs(k) : g[p] = f[p]
    BY <2>2
  <2>4. ASSUME NEW p \in Pairs(k + 1) PROVE Round(f, p) = Round(g, p)
    <3>1. p[2] # 0 => After(p) \in Pairs(k)
      BY RoundShrinks DEF Pairs
    <3>. HIDE DEF g
    <3>. QED BY <2>3, <3>1 DEF Round
  <2>5. g = [p \in Pairs(k + 1) |-> Round(g, p)]
    BY <2>4
  <2>. HIDE DEF g
  <2>. QED BY <2>5 DEF Euclid
<1>. HIDE DEF S
<1>3. n \in S
  BY <1>1, <1>2, Induction
<1>. QED BY <1>3 DEF S

LEMMA EuclidAgrees ==
  ASSUME NEW f, NEW g, NEW n \in Nat, NEW m \in Nat,
         Euclid(f, Pairs(n)), Euclid(g, Pairs(m)),
         NEW q \in Int \X Int, Magnitude(q[2]) <= n, Magnitude(q[2]) <= m
  PROVE  f[q] = g[q]
<1>. DEFINE S == {k \in Nat : \A p \in Pairs(k) : p \in Pairs(n) /\ p \in Pairs(m) => f[p] = g[p]}
<1>1. \A p \in Pairs(n) : f[p] = Round(f, p)
  BY DEF Euclid
<1>2. \A p \in Pairs(m) : g[p] = Round(g, p)
  BY DEF Euclid
<1>3. 0 \in S
  <2>1. \A p \in Pairs(0) : p[2] = 0
    BY DEF Pairs, Magnitude
  <2>. QED BY <1>1, <1>2, <2>1 DEF Round
<1>4. ASSUME NEW k \in Nat, k \in S PROVE k + 1 \in S
  <2>1. SUFFICES ASSUME NEW p \in Pairs(k + 1), p \in Pairs(n), p \in Pairs(m)
                 PROVE  f[p] = g[p]
    OBVIOUS
  <2>2. CASE p[2] = 0
    BY <1>1, <1>2, <2>1, <2>2 DEF Round
  <2>3. CASE p[2] # 0
    <3>1. /\ p \in Int \X Int /\ Magnitude(p[2]) \in Nat
          /\ Magnitude(p[2]) <= k + 1 /\ Magnitude(p[2]) <= n /\ Magnitude(p[2]) <= m
      BY <2>1, RoundShrinks DEF Pairs
    <3>2. After(p) \in Pairs(k) /\ After(p) \in Pairs(n) /\ After(p) \in Pairs(m)
      <4>1. \A j \in Nat : Magnitude(p[2]) <= j + 1 => After(p) \in Pairs(j)
        BY <2>3, <3>1, RoundShrinks
      <4>2. Magnitude(p[2]) <= n + 1 /\ Magnitude(p[2]) <= m + 1
        BY <3>1
      <4>. QED BY <3>1, <4>1, <4>2
    <3>3. f[After(p)] = g[After(p)]
      BY <1>4, <3>2
    <3>. QED BY <1>1, <1>2, <2>1, <2>3, <3>3 DEF Round
  <2>. QED BY <2>2, <2>3
<1>. HIDE DEF S
<1>5. Magnitude(q[2]) \in S
  <2>1. Magnitude(q[2]) \in Nat
    BY RoundShrinks
  <2>. QED BY <1>3, <1>4, <2>1, Induction
<1>. QED BY <1>5 DEF S, Pairs

LEMMA GcdIsEuclid ==
  \E f : /\ Euclid(f, Int \X Int)
         /\ \A x, y \in Int : gcd(x, y) = f[<<x, y>>]
<1>. DEFINE h(p) == CHOOSE f : Euclid(f, Pairs(Magnitude(p[2])))
            g == [p \in Int \X Int |-> h(p)[p]]
            e == CHOOSE f : Euclid(f, Int \X Int)
<1>1. ASSUME NEW p \in Int \X Int
      PROVE  Euclid(h(p), Pairs(Magnitude(p[2])))
  <2>1. Magnitude(p[2]) \in Nat
    BY RoundShrinks
  <2>. QED BY <2>1, EuclidEnds
<1>. HIDE DEF h
<1>2. ASSUME NEW p \in Int \X Int PROVE g[p] = Round(g, p)
  <2>. DEFINE f == h(p)
              n == Magnitude(p[2])
  <2>1. Euclid(f, Pairs(n)) /\ n \in Nat /\ p \in Pairs(n)
    BY <1>1, RoundShrinks
  <2>. HIDE DEF n, f
  <2>2. f[p] = Round(f, p)
    BY <2>1 DEF Euclid
  <2>3. CASE p[2] = 0
    <3>1. g[p] = p[1]
      BY <2>2, <2>3 DEF Round, f
    <3>. QED BY <2>3, <3>1 DEF Round
  <2>4. CASE p[2] # 0
    <3>. DEFINE q == After(p)
    <3>1. q \in Int \X Int /\ q \in Pairs(n - 1) /\ n - 1 \in Nat
      BY <2>1, <2>4, RoundShrinks DEF n
    <3>2. q \in Int \X Int /\ Magnitude(q[2]) \in Nat /\ Magnitude(q[2]) <= n
      BY <2>1, <3>1, RoundShrinks DEF Pairs
    <3>. HIDE DEF q
    <3>3. Euclid(h(q), Pairs(Magnitude(q[2])))
      BY <1>1, <3>2
    <3>4. Magnitude(q[2]) <= Magnitude(q[2])
      BY <3>2
    <3>5. h(q)[q] = f[q]
      BY <2>1, <3>2, <3>3, <3>4, EuclidAgrees
    <3>6. g[p] = f[p] /\ g[q] = h(q)[q]
      BY <3>2 DEF f
    <3>. HIDE DEF g
    <3>. QED BY <2>2, <2>4, <3>5, <3>6 DEF Round, q
  <2>. QED BY <2>3, <2>4
<1>3. Euclid(g, Int \X Int)
  <2>1. g = [p \in Int \X Int |-> g[p]]
    OBVIOUS
  <2>. HIDE DEF g
  <2>. QED BY <1>2, <2>1 DEF Euclid
<1>. HIDE DEF g
<1>4. Euclid(e, Int \X Int)
  BY <1>3
<1>5. ASSUME NEW x \in Int, NEW y \in Int PROVE gcd(x, y) = e[<<x, y>>]
  BY DEF gcd, Euclid, Round, After
<1>. HIDE DEF e
<1>. QED BY <1>4, <1>5

-----------------------------------------------------------------------------
(* Divisors. *)

IsMultiple(n, d) == \E k \in Int : n = d * k

LEMMA DividesIs ==
  ASSUME NEW d \in Int \ {0}, NEW n \in Int
  PROVE  Divides(d, n) <=> IsMultiple(n, d)
<1>. DEFINE m == Magnitude(d)
<1>1. m \in Nat \ {0} /\ (m = d \/ m = -d)
  BY DEF Magnitude
<1>2. Divides(d, n) <=> n % m = 0
  BY DEF Divides
<1>. HIDE DEF m
<1>3. ASSUME n % m = 0 PROVE IsMultiple(n, d)
  <2>1. n \div m \in Int /\ n = m * (n \div m)
    BY <1>1, <1>3, Division
  <2>. DEFINE q == n \div m
  <2>. HIDE DEF q
  <2>2. q \in Int /\ n = m * q
    BY <2>1 DEF q
  <2>3. m * q = d * q \/ m * q = d * (-q)
    BY <1>1, <2>2
  <2>4. PICK k \in Int : n = d * k
    <3>1. -q \in Int
      BY <2>2
    <3>. QED BY <2>2, <2>3, <3>1
  <2>. QED BY <2>4 DEF IsMultiple
<1>4. ASSUME IsMultiple(n, d) PROVE n % m = 0
  <2>1. PICK k \in Int : n = d * k
    BY <1>4 DEF IsMultiple
  <2>2. d * k = m * k \/ d * k = m * (-k)
    BY <1>1
  <2>3. \A j \in Int : m * j + 0 = m * j /\ (m * j + 0) % m = 0
    BY <1>1, RemainderIs
  <2>. QED BY <2>1, <2>2, <2>3
<1>. QED BY <1>2, <1>3, <1>4

(* What divides two numbers divides their sum, and the multiples of both.  *)
LEMMA SumOfMultiples ==
  ASSUME NEW d \in Int, NEW a \in Int, NEW b \in Int, NEW k \in Int,
         IsMultiple(a, d), IsMultiple(b, d)
  PROVE  IsMultiple(a * k + b, d)
<1>1. PICK i \in Int : a = d * i
  BY DEF IsMultiple
<1>2. PICK j \in Int : b = d * j
  BY DEF IsMultiple
<1>. DEFINE s == i * k + j
<1>3. s \in Int /\ a * k + b = d * s
  BY <1>1, <1>2
<1>. HIDE DEF s
<1>. QED BY <1>3 DEF IsMultiple

(* A divisor is no greater than what it divides. *)
LEMMA DivisorIsSmaller ==
  ASSUME NEW d \in Nat \ {0}, NEW n \in Int \ {0}, IsMultiple(n, d)
  PROVE  d <= Magnitude(n)
<1>1. PICK k \in Int : n = d * k
  BY DEF IsMultiple
<1>2. k # 0
  BY <1>1
<1>3. k >= 1 => d * k >= d
  OBVIOUS
<1>4. k <= -1 => d * k <= -d
  OBVIOUS
<1>. QED BY <1>1, <1>2, <1>3, <1>4 DEF Magnitude

(* g divides both numbers, and every common divisor of them divides g. *)
Greatest(g, x, y) ==
  /\ g \in Int /\ IsMultiple(x, g) /\ IsMultiple(y, g)
  /\ x # 0 \/ y # 0 => g # 0
  /\ \A d \in Int : IsMultiple(x, d) /\ IsMultiple(y, d) => IsMultiple(g, d)

(* A round of the loop keeps the common divisors. *)
LEMMA GreatestKept ==
  ASSUME NEW x \in Int, NEW y \in Int \ {0}, NEW g, Greatest(g, y, Remainder(x, y))
  PROVE  Greatest(g, x, y)
<1>. DEFINE r == Remainder(x, y)
<1>1. r \in Int /\ \E k \in Int : x = y * k + r
  BY RemainderOfC
<1>2. /\ g \in Int /\ g # 0 /\ IsMultiple(y, g) /\ IsMultiple(r, g)
      /\ \A d \in Int : IsMultiple(y, d) /\ IsMultiple(r, d) => IsMultiple(g, d)
  BY DEF Greatest
<1>. HIDE DEF r
<1>3. PICK k \in Int : x = y * k + r
  BY <1>1
<1>4. IsMultiple(x, g)
  BY <1>1, <1>2, <1>3, SumOfMultiples
<1>5. ASSUME NEW d \in Int, IsMultiple(x, d), IsMultiple(y, d) PROVE IsMultiple(g, d)
  <2>1. -k \in Int /\ y * (-k) + x = r
    BY <1>1, <1>3
  <2>2. IsMultiple(r, d)
    BY <1>5, <2>1, SumOfMultiples
  <2>. QED BY <1>2, <1>5, <2>2
<1>. QED BY <1>2, <1>4, <1>5 DEF Greatest

LEMMA GcdGreatest ==
  ASSUME NEW x \in Int, NEW y \in Int
  PROVE  Greatest(gcd(x, y), x, y)
<1>1. PICK f : /\ Euclid(f, Int \X Int)
               /\ \A a, b \in Int : gcd(a, b) = f[<<a, b>>]
  BY GcdIsEuclid
<1>2. \A p \in Int \X Int : f[p] = Round(f, p)
  BY <1>1 DEF Euclid
<1>. DEFINE S == {n \in Nat : \A p \in Pairs(n) : Greatest(f[p], p[1], p[2])}
<1>3. ASSUME NEW p \in Int \X Int, p[2] = 0 PROVE Greatest(f[p], p[1], p[2])
  <2>. DEFINE g == p[1]
  <2>1. f[p] = g /\ g \in Int
    BY <1>2, <1>3 DEF Round
  <2>. HIDE DEF g
  <2>2. g = g * 1 /\ 0 = g * 0
    BY <2>1
  <2>3. IsMultiple(g, g) /\ IsMultiple(0, g)
    BY <2>2 DEF IsMultiple
  <2>. QED BY <1>3, <2>1, <2>3 DEF Greatest, g
<1>4. 0 \in S
  <2>1. \A p \in Pairs(0) : p \in Int \X Int /\ p[2] = 0
    BY DEF Pairs, Magnitude
  <2>. QED BY <1>3, <2>1
<1>5. ASSUME NEW n \in Nat, n \in S PROVE n + 1 \in S
  <2>1. ASSUME NEW p \in Pairs(n + 1), p[2] # 0 PROVE Greatest(f[p], p[1], p[2])
    <3>1. /\ p \in Int \X Int /\ p[1] \in Int /\ p[2] \in Int \ {0}
          /\ After(p) \in Pairs(n)
      BY <2>1, RoundShrinks DEF Pairs
    <3>2. Greatest(f[After(p)], p[2], Remainder(p[1], p[2]))
      BY <1>5, <3>1 DEF After
    <3>3. f[p] = f[After(p)]
      BY <1>2, <2>1, <3>1 DEF Round
    <3>. QED BY <3>1, <3>2, <3>3, GreatestKept
  <2>2. \A p \in Pairs(n + 1) : p \in Int \X Int
    BY DEF Pairs
  <2>. QED BY <1>3, <2>1, <2>2
<1>. HIDE DEF S
<1>6. Magnitude(y) \in Nat /\ <<x, y>> \in Pairs(Magnitude(y))
  BY DEF Magnitude, Pairs
<1>7. Magnitude(y) \in S
  BY <1>4, <1>5, <1>6, Induction
<1>8. Greatest(f[<<x, y>>], x, y)
  BY <1>6, <1>7 DEF S
<1>. QED BY <1>1, <1>8

LEMMA QuotientByOne ==
  ASSUME NEW a \in Int, NEW g \in Int, Magnitude(g) = 1
  PROVE  Quotient(a, g) = IF g < 0 THEN -a ELSE a
<1>. DEFINE m == Magnitude(a)
<1>1. m \in Nat /\ (a < 0 => m = -a) /\ (a >= 0 => m = a)
  BY DEF Magnitude
<1>2. Quotient(a, g) = IF (a < 0) = (g < 0) THEN m \div 1 ELSE -(m \div 1)
  BY DEF Quotient
<1>. HIDE DEF m
<1>3. m \div 1 = m
  BY <1>1
<1>. QED BY <1>1, <1>2, <1>3

LEMMA GcdIsGreatestAlways ==
  ASSUME x1 \in Int, x2 \in Int
  PROVE  GcdIsGreatest
<1>. DEFINE g == gcd(x1, x2)
<1>. SUFFICES ASSUME x1 # 0 \/ x2 # 0
              PROVE  /\ Divides(g, x1) /\ Divides(g, x2)
                     /\ \A d \in 1 .. Magnitude(x1) + Magnitude(x2) :
                          Divides(d, x1) /\ Divides(d, x2) => d <= Magnitude(g)
                     /\ Magnitude(g) = 1 => lcm(x1, x2) = x1 * x2
  BY DEF GcdIsGreatest
<1>1. Greatest(g, x1, x2)
  BY GcdGreatest
<1>2. lcm(x1, x2) = Quotient(x1, g) * Quotient(x2, g)
  BY DEF lcm
<1>. HIDE DEF g
<1>3. /\ g \in Int \ {0} /\ IsMultiple(x1, g) /\ IsMultiple(x2, g)
      /\ \A d \in Int : IsMultiple(x1, d) /\ IsMultiple(x2, d) => IsMultiple(g, d)
  BY <1>1 DEF Greatest
<1>4. Divides(g, x1) /\ Divides(g, x2)
  BY <1>3, DividesIs
<1>5. ASSUME NEW d \in 1 .. Magnitude(x1) + Magnitude(x2), Divides(d, x1), Divides(d, x2)
      PROVE  d <= Magnitude(g)
  <2>1. d \in Nat \ {0} /\ d \in Int \ {0}
    BY DEF Magnitude
  <2>2. IsMultiple(x1, d) /\ IsMultiple(x2, d)
    BY <1>5, <2>1, DividesIs
  <2>3. IsMultiple(g, d)
    BY <1>3, <2>1, <2>2
  <2>. QED BY <1>3, <2>1, <2>3, DivisorIsSmaller
<1>6. ASSUME Magnitude(g) = 1 PROVE lcm(x1, x2) = x1 * x2
  <2>1. /\ Quotient(x1, g) = IF g < 0 THEN -x1 ELSE x1
        /\ Quotient(x2, g) = IF g < 0 THEN -x2 ELSE x2
    BY <1>3, <1>6, QuotientByOne
  <2>2. (-x1) * (-x2) = x1 * x2
    OBVIOUS
  <2>. QED BY <1>2, <2>1, <2>2
<1>. QED BY <1>4, <1>5, <1>6

LEMMA ModIsResidueAlways ==
  ASSUME x1 \in Int, x2 \in Int
  PROVE  ModIsResidue
<1>. SUFFICES ASSUME x2 > 0
              PROVE  /\ mod(x1, x2) \in 0 .. x2 - 1 /\ Divides(x2, x1 - mod(x1, x2))
                     /\ fmodt(x1, x2) = mod(x1, x2)
  BY DEF ModIsResidue
<1>. DEFINE r == Remainder(x1, x2)
            q == x1 \div x2
            t == x1 % x2
<1>1. /\ x2 \in Nat \ {0} /\ x2 \in Int \ {0} /\ Magnitude(x2) = x2
  BY DEF Magnitude
<1>2. q \in Int /\ t \in 0 .. x2 - 1 /\ x1 = x2 * q + t
  BY <1>1, Division
<1>3. r \in Int /\ Magnitude(r) < x2 /\ \E k \in Int : x1 = x2 * k + r
  BY <1>1, RemainderOfC
<1>4. mod(x1, x2) = Remainder(r + x2, x2)
  BY DEF mod
<1>. HIDE DEF r, q, t
<1>5. PICK k \in Int : x1 = x2 * k + r
  BY <1>3
<1>6. r + x2 \in Nat /\ x1 = (r + x2) + x2 * (k - 1) /\ k - 1 \in Int
  BY <1>1, <1>3, <1>5 DEF Magnitude
<1>7. Remainder(r + x2, x2) = (r + x2) % x2
  BY <1>1, <1>6 DEF Remainder, Fmod
<1>8. ((r + x2) + x2 * (k - 1)) % x2 = (r + x2) % x2
  <2>. DEFINE u == r + x2
              j == k - 1
  <2>1. u \in Int /\ j \in Int /\ x2 \in Nat \ {0}
    BY <1>1, <1>6
  <2>. HIDE DEF u, j
  <2>2. (u + x2 * j) % x2 = u % x2
    BY <2>1, ShiftedRemainder
  <2>. QED BY <2>2 DEF u, j
<1>9. mod(x1, x2) = t
  BY <1>4, <1>6, <1>7, <1>8 DEF t
<1>10. fmodt(x1, x2) = x1 - q * x2
  BY DEF fmodt, q
<1>11. q * x2 = x2 * q
  BY <1>1, <1>2
<1>12. x1 - t \in Int /\ x1 - t = x2 * q
  BY <1>2
<1>13. Divides(x2, x1 - t)
  <2>1. IsMultiple(x1 - t, x2)
    BY <1>2, <1>12 DEF IsMultiple
  <2>. QED BY <1>1, <1>12, <2>1, DividesIs
<1>. QED BY <1>2, <1>9, <1>10, <1>11, <1>12, <1>13

LEMMA NearestInRangeAlways ==
  ASSUME x1 \in Int, x2 \in Int, x3 \in Int
  PROVE  NearestInRange
<1>. SUFFICES ASSUME x2 <= x3
              PROVE  LET b == bound(x1, x2, x3) IN
                       /\ b \in x2 .. x3
                       /\ \A p \in x2 .. x3 : Magnitude(x1 - b) <= Magnitude(x1 - p)
                       /\ x1 \in x2 .. x3 => \A up \in BOOLEAN :
                            bool_sat_count(x1, x2, x3, up)
                              = bound(IF up THEN x1 + 1 ELSE x1 - 1, x2, x3)
  BY DEF NearestInRange
<1>. DEFINE b == bound(x1, x2, x3)
<1>1. b = IF x1 < x2 THEN x2 ELSE IF x1 > x3 THEN x3 ELSE x1
  BY DEF bound
<1>. HIDE DEF b
<1>2. b \in x2 .. x3
  BY <1>1
<1>3. ASSUME NEW p \in x2 .. x3 PROVE Magnitude(x1 - b) <= Magnitude(x1 - p)
  BY <1>1 DEF Magnitude
<1>4. ASSUME x1 \in x2 .. x3
      PROVE  /\ bool_sat_count(x1, x2, x3, TRUE) = bound(x1 + 1, x2, x3)
             /\ bool_sat_count(x1, x2, x3, FALSE) = bound(x1 - 1, x2, x3)
  BY <1>4 DEF bool_sat_count, bound
<1>. QED BY <1>2, <1>3, <1>4 DEF b

(* How often v is among three numbers. *)
Times(v, a, b, c) ==
  (IF a = v THEN 1 ELSE 0) + (IF b = v THEN 1 ELSE 0) + (IF c = v THEN 1 ELSE 0)

(* T holds those of three places whose number is v. *)
Marks(T, v, i, a, j, b, k, c) ==
  /\ T \subseteq {i, j, k} /\ i # j /\ j # k /\ i # k
  /\ (i \in T <=> a = v) /\ (j \in T <=> b = v) /\ (k \in T <=> c = v)

LEMMA CountThree ==
  ASSUME NEW i, NEW j, NEW k,
         NEW v, NEW a, NEW b, NEW c,
         NEW T, Marks(T, v, i, a, j, b, k, c)
  PROVE  Cardinality(T) = Times(v, a, b, c)
<1>. DEFINE A == IF a = v THEN {i} ELSE {}
            B == IF b = v THEN A \cup {j} ELSE A
            C == IF c = v THEN B \cup {k} ELSE B
<1>1. IsFiniteSet(A) /\ Cardinality(A) = (IF a = v THEN 1 ELSE 0)
  BY FS_EmptySet, FS_Singleton
<1>2. j \notin A /\ k \notin B
  BY DEF Marks
<1>3. T = C
  BY DEF Marks
<1>. HIDE DEF A
<1>4. IsFiniteSet(B) /\ Cardinality(B) = Cardinality(A) + (IF b = v THEN 1 ELSE 0)
  <2>1. CASE b = v
    BY <1>1, <1>2, <2>1, FS_AddElement
  <2>2. CASE b # v
    BY <1>1, <2>2
  <2>. QED BY <2>1, <2>2
<1>. HIDE DEF B
<1>5. IsFiniteSet(C) /\ Cardinality(C) = Cardinality(B) + (IF c = v THEN 1 ELSE 0)
  <2>1. Cardinality(B) \in Int
    BY <1>1, <1>4
  <2>2. CASE c = v
    BY <1>2, <1>4, <2>2, FS_AddElement
  <2>3. CASE c # v
    BY <1>4, <2>1, <2>3
  <2>. QED BY <2>2, <2>3
<1>. HIDE DEF C
<1>. QED BY <1>1, <1>3, <1>4, <1>5 DEF Times

(* One comparison of the sorting network. *)
LEMMA FirstPair ==
  ASSUME NEW a \in Int, NEW b \in Int, NEW c \in Int
  PROVE  /\ a > b => Ordered(<<a, b, c>>, 1, 2) = <<b, a, c>>
         /\ ~ (a > b) => Ordered(<<a, b, c>>, 1, 2) = <<a, b, c>>
<1>. DEFINE t == <<a, b, c>>
<1>1. t \in [1 .. 3 -> Int] /\ t[1] = a /\ t[2] = b /\ t[3] = c
  OBVIOUS
<1>2. [t EXCEPT ![1] = t[2], ![2] = t[1]] = <<b, a, c>>
  OBVIOUS
<1>. QED BY <1>1, <1>2 DEF Ordered

LEMMA SecondPair ==
  ASSUME NEW a \in Int, NEW b \in Int, NEW c \in Int
  PROVE  /\ b > c => Ordered(<<a, b, c>>, 2, 3) = <<a, c, b>>
         /\ ~ (b > c) => Ordered(<<a, b, c>>, 2, 3) = <<a, b, c>>
<1>. DEFINE t == <<a, b, c>>
<1>1. t \in [1 .. 3 -> Int] /\ t[1] = a /\ t[2] = b /\ t[3] = c
  OBVIOUS
<1>2. [t EXCEPT ![2] = t[3], ![3] = t[2]] = <<a, c, b>>
  OBVIOUS
<1>. QED BY <1>1, <1>2 DEF Ordered

(* p, q and r are a, b and c in order. *)
SortedFrom(p, q, r, a, b, c) ==
  /\ p <= q /\ q <= r
  /\ \/ p = a /\ q = b /\ r = c
     \/ p = a /\ q = c /\ r = b
     \/ p = b /\ q = a /\ r = c
     \/ p = b /\ q = c /\ r = a
     \/ p = c /\ q = a /\ r = b
     \/ p = c /\ q = b /\ r = a

LEMMA SortIs ==
  ASSUME NEW a \in Int, NEW b \in Int, NEW c \in Int
  PROVE  \E p, q, r \in Int : sort(a, b, c) = <<p, q, r>> /\ SortedFrom(p, q, r, a, b, c)
<1>. DEFINE d == IF a > b THEN b ELSE a
            e == IF a > b THEN a ELSE b
            f == IF e > c THEN c ELSE e
            g == IF e > c THEN e ELSE c
            p == IF d > f THEN f ELSE d
            q == IF d > f THEN d ELSE f
<1>1. Ordered(<<a, b, c>>, 1, 2) = <<d, e, c>> /\ d \in Int /\ e \in Int
  BY FirstPair
<1>2. ((d = a /\ e = b) \/ (d = b /\ e = a)) /\ d <= e
  OBVIOUS
<1>. HIDE DEF d, e
<1>3. Ordered(<<d, e, c>>, 2, 3) = <<d, f, g>> /\ f \in Int /\ g \in Int
  BY <1>1, SecondPair
<1>4. ((f = e /\ g = c) \/ (f = c /\ g = e)) /\ f <= g /\ e <= g
  BY <1>1
<1>. HIDE DEF f, g
<1>5. Ordered(<<d, f, g>>, 1, 2) = <<p, q, g>> /\ p \in Int /\ q \in Int
  BY <1>1, <1>3, FirstPair
<1>6. ((p = d /\ q = f) \/ (p = f /\ q = d)) /\ p <= q
  BY <1>1, <1>3
<1>. HIDE DEF p, q
<1>7. sort(a, b, c) = <<p, q, g>>
  BY <1>1, <1>3, <1>5 DEF sort
<1>8. SortedFrom(p, q, g, a, b, c)
  BY <1>1, <1>2, <1>3, <1>4, <1>5, <1>6 DEF SortedFrom
<1>. QED BY <1>3, <1>5, <1>7, <1>8

LEMMA ArrayIs ==
  Array = [i \in 0 .. 2 |-> Array[i]] /\ Array[0] = x1 /\ Array[1] = x2 /\ Array[2] = x3
BY DEF Array

LEMMA SortsThreeAlways ==
  ASSUME x1 \in Int, x2 \in Int, x3 \in Int
  PROVE  SortsThree
<1>. DEFINE s == sort(x1, x2, x3)
<1>1. PICK p, q, r \in Int : s = <<p, q, r>> /\ SortedFrom(p, q, r, x1, x2, x3)
  BY SortIs
<1>. HIDE DEF s
<1>2. s[1] = p /\ s[2] = q /\ s[3] = r
  BY <1>1
<1>4. p = min3(x1, x2, x3) /\ r = max3(x1, x2, x3)
  BY <1>1 DEF SortedFrom, min3, max3
<1>5. ASSUME NEW v
      PROVE  Cardinality({i \in 1 .. 3 : s[i] = v}) = Cardinality({i \in 0 .. 2 : Array[i] = v})
  <2>. DEFINE T == {i \in 1 .. 3 : s[i] = v}
              U == {i \in 0 .. 2 : Array[i] = v}
  <2>1. Marks(T, v, 1, p, 2, q, 3, r)
    BY <1>2 DEF Marks
  <2>2. Marks(U, v, 0, x1, 1, x2, 2, x3)
    BY ArrayIs DEF Marks
  <2>. HIDE DEF T, U
  <2>4. Cardinality(T) = Times(v, p, q, r)
    BY <2>1, CountThree
  <2>5. Cardinality(U) = Times(v, x1, x2, x3)
    BY <2>2, CountThree
  <2>6. Times(v, p, q, r) = Times(v, x1, x2, x3)
    BY <1>1 DEF SortedFrom, Times
  <2>. QED BY <2>4, <2>5, <2>6 DEF T, U
<1>. QED BY <1>1, <1>2, <1>4, <1>5 DEF SortsThree, SortedFrom, s

-----------------------------------------------------------------------------
(* Searches. *)

(* The loops of max_idx, min_idx and find_item, as the functions that obey *)
(* their equations.                                                        *)
Larger(f, arr, num) ==
  f = [i \in 0 .. num - 1 |->
         IF i = 0 THEN 0 ELSE IF arr[i] > arr[f[i - 1]] THEN i ELSE f[i - 1]]

Smaller(f, arr, num) ==
  f = [i \in 0 .. num - 1 |->
         IF i = 0 THEN 0 ELSE IF arr[i] < arr[f[i - 1]] THEN i ELSE f[i - 1]]

Seeking(f, arr, num, key) ==
  f = [i \in 0 .. num |-> IF i < num /\ arr[i] # key THEN f[i + 1] ELSE i]

(* Each loop has a run on the first three places of an array. *)
LEMMA MaxLoop ==
  ASSUME NEW arr, NEW num \in 1 .. 3
  PROVE  \E f : Larger(f, arr, num) /\ max_idx(arr, num) = f[num - 1]
<1>. DEFINE m1 == IF arr[1] > arr[0] THEN 1 ELSE 0
            m2 == IF arr[2] > arr[m1] THEN 2 ELSE m1
            f == [i \in 0 .. num - 1 |-> IF i = 0 THEN 0 ELSE IF i = 1 THEN m1 ELSE m2]
            e == CHOOSE g : Larger(g, arr, num)
<1>1. \A i \in 0 .. num - 1 : f[i] = IF i = 0 THEN 0 ELSE IF i = 1 THEN m1 ELSE m2
  OBVIOUS
<1>2. \A i \in 0 .. num - 1 :
        f[i] = IF i = 0 THEN 0 ELSE IF arr[i] > arr[f[i - 1]] THEN i ELSE f[i - 1]
  <2>. SUFFICES ASSUME NEW i \in 0 .. num - 1
                PROVE  f[i] = IF i = 0 THEN 0 ELSE IF arr[i] > arr[f[i - 1]] THEN i ELSE f[i - 1]
    OBVIOUS
  <2>1. CASE i = 0
    BY <1>1, <2>1
  <2>2. CASE i = 1
    BY <1>1, <2>2
  <2>3. CASE i = 2
    BY <1>1, <2>3
  <2>. QED BY <2>1, <2>2, <2>3
<1>3. Larger(f, arr, num)
  BY <1>1, <1>2 DEF Larger
<1>. HIDE DEF f
<1>4. Larger(e, arr, num)
  BY <1>3
<1>5. max_idx(arr, num) = e[num - 1]
  BY DEF max_idx, Larger
<1>. HIDE DEF e
<1>. QED BY <1>4, <1>5

LEMMA MinLoop ==
  ASSUME NEW arr, NEW num \in 1 .. 3
  PROVE  \E f : Smaller(f, arr, num) /\ min_idx(arr, num) = f[num - 1]
<1>. DEFINE m1 == IF arr[1] < arr[0] THEN 1 ELSE 0
            m2 == IF arr[2] < arr[m1] THEN 2 ELSE m1
            f == [i \in 0 .. num - 1 |-> IF i = 0 THEN 0 ELSE IF i = 1 THEN m1 ELSE m2]
            e == CHOOSE g : Smaller(g, arr, num)
<1>1. \A i \in 0 .. num - 1 : f[i] = IF i = 0 THEN 0 ELSE IF i = 1 THEN m1 ELSE m2
  OBVIOUS
<1>2. \A i \in 0 .. num - 1 :
        f[i] = IF i = 0 THEN 0 ELSE IF arr[i] < arr[f[i - 1]] THEN i ELSE f[i - 1]
  <2>. SUFFICES ASSUME NEW i \in 0 .. num - 1
                PROVE  f[i] = IF i = 0 THEN 0 ELSE IF arr[i] < arr[f[i - 1]] THEN i ELSE f[i - 1]
    OBVIOUS
  <2>1. CASE i = 0
    BY <1>1, <2>1
  <2>2. CASE i = 1
    BY <1>1, <2>2
  <2>3. CASE i = 2
    BY <1>1, <2>3
  <2>. QED BY <2>1, <2>2, <2>3
<1>3. Smaller(f, arr, num)
  BY <1>1, <1>2 DEF Smaller
<1>. HIDE DEF f
<1>4. Smaller(e, arr, num)
  BY <1>3
<1>5. min_idx(arr, num) = e[num - 1]
  BY DEF min_idx, Smaller
<1>. HIDE DEF e
<1>. QED BY <1>4, <1>5

LEMMA FindLoop ==
  ASSUME NEW arr, NEW num \in 1 .. 3, NEW key
  PROVE  \E f : Seeking(f, arr, num, key) /\ find_item(arr, num, key) = f[0]
<1>. DEFINE t2 == IF num > 2 /\ arr[2] # key THEN 3 ELSE 2
            t1 == IF num > 1 /\ arr[1] # key THEN t2 ELSE 1
            t0 == IF arr[0] # key THEN t1 ELSE 0
            f == [i \in 0 .. num |->
                    IF i = 0 THEN t0 ELSE IF i = 1 THEN t1 ELSE IF i = 2 THEN t2 ELSE 3]
            e == CHOOSE g : Seeking(g, arr, num, key)
<1>1. \A i \in 0 .. num :
        f[i] = IF i = 0 THEN t0 ELSE IF i = 1 THEN t1 ELSE IF i = 2 THEN t2 ELSE 3
  OBVIOUS
<1>2. \A i \in 0 .. num : f[i] = IF i < num /\ arr[i] # key THEN f[i + 1] ELSE i
  <2>. SUFFICES ASSUME NEW i \in 0 .. num
                PROVE  f[i] = IF i < num /\ arr[i] # key THEN f[i + 1] ELSE i
    OBVIOUS
  <2>1. CASE i = 0
    BY <1>1, <2>1
  <2>2. CASE i = 1
    BY <1>1, <2>2
  <2>3. CASE i = 2
    BY <1>1, <2>3
  <2>4. CASE i = 3
    BY <1>1, <2>4
  <2>. QED BY <2>1, <2>2, <2>3, <2>4
<1>3. Seeking(f, arr, num, key)
  BY <1>1, <1>2 DEF Seeking
<1>. HIDE DEF f
<1>4. Seeking(e, arr, num, key)
  BY <1>3
<1>5. find_item(arr, num, key) = e[0]
  BY DEF find_item, Seeking
<1>. HIDE DEF e
<1>. QED BY <1>4, <1>5

LEMMA FirstIndexAlways ==
  ASSUME x1 \in Int, x2 \in Int, x3 \in Int
  PROVE  FirstIndex
<1>. SUFFICES ASSUME NEW num \in 1 .. 3, NEW i \in 0 .. num - 1
              PROVE  /\ Array[i] <= Array[max_idx(Array, num)]
                     /\ Array[i] >= Array[min_idx(Array, num)]
                     /\ Array[i] = Array[max_idx(Array, num)] => max_idx(Array, num) <= i
                     /\ Array[i] = Array[min_idx(Array, num)] => min_idx(Array, num) <= i
                     /\ LET f == find_item(Array, num, x3) IN
                          /\ Array[i] = x3 => f <= i /\ Array[f] = x3
                          /\ f < num \/ (f = num /\ Array[i] # x3)
  BY DEF FirstIndex
<1>. DEFINE arr == Array
<1>1. arr[0] \in Int /\ arr[1] \in Int /\ arr[2] \in Int
  BY ArrayIs
<1>. HIDE DEF arr
<1>2. /\ arr[i] <= arr[max_idx(arr, num)]
      /\ arr[i] = arr[max_idx(arr, num)] => max_idx(arr, num) <= i
  <2>1. PICK f : Larger(f, arr, num) /\ max_idx(arr, num) = f[num - 1]
    BY MaxLoop
  <2>2. /\ f[0] = 0
        /\ num > 1 => f[1] = IF arr[1] > arr[f[0]] THEN 1 ELSE f[0]
        /\ num > 2 => f[2] = IF arr[2] > arr[f[1]] THEN 2 ELSE f[1]
    BY <2>1 DEF Larger
  <2>3. CASE num = 1
    BY <1>1, <2>1, <2>2, <2>3
  <2>4. CASE num = 2
    BY <1>1, <2>1, <2>2, <2>4
  <2>5. CASE num = 3
    BY <1>1, <2>1, <2>2, <2>5
  <2>. QED BY <2>3, <2>4, <2>5
<1>3. /\ arr[i] >= arr[min_idx(arr, num)]
      /\ arr[i] = arr[min_idx(arr, num)] => min_idx(arr, num) <= i
  <2>1. PICK f : Smaller(f, arr, num) /\ min_idx(arr, num) = f[num - 1]
    BY MinLoop
  <2>2. /\ f[0] = 0
        /\ num > 1 => f[1] = IF arr[1] < arr[f[0]] THEN 1 ELSE f[0]
        /\ num > 2 => f[2] = IF arr[2] < arr[f[1]] THEN 2 ELSE f[1]
    BY <2>1 DEF Smaller
  <2>3. CASE num = 1
    BY <1>1, <2>1, <2>2, <2>3
  <2>4. CASE num = 2
    BY <1>1, <2>1, <2>2, <2>4
  <2>5. CASE num = 3
    BY <1>1, <2>1, <2>2, <2>5
  <2>. QED BY <2>3, <2>4, <2>5
<1>4. ASSUME NEW key
      PROVE  LET f == find_item(arr, num, key) IN
               /\ arr[i] = key => f <= i /\ arr[f] = key
               /\ f < num \/ (f = num /\ arr[i] # key)
  <2>1. PICK f : Seeking(f, arr, num, key) /\ find_item(arr, num, key) = f[0]
    BY FindLoop
  <2>2. /\ f[0] = IF arr[0] # key THEN f[1] ELSE 0
        /\ f[1] = IF num > 1 /\ arr[1] # key THEN f[2] ELSE 1
        /\ num > 1 => f[2] = IF num > 2 /\ arr[2] # key THEN f[3] ELSE 2
        /\ num > 2 => f[3] = 3
    BY <2>1 DEF Seeking
  <2>3. CASE num = 1
    BY <2>1, <2>2, <2>3
  <2>4. CASE num = 2
    BY <2>1, <2>2, <2>4
  <2>5. CASE num = 3
    BY <2>1, <2>2, <2>5
  <2>. QED BY <2>3, <2>4, <2>5
<1>. QED BY <1>2, <1>3, <1>4 DEF arr

-----------------------------------------------------------------------------
(* The bit tests. *)

(* The steps of a recursion, up to and including n. *)
Recurses(f, a, step, n) ==
  f[0] = a /\ \A k \in Nat : k < n => f[k + 1] = step[<<k, f[k]>>]

LEMMA RecursionAgrees ==
  ASSUME NEW a, NEW step, NEW f, NEW g, NEW m \in Nat, NEW n \in Nat,
         Recurses(f, a, step, m), Recurses(g, a, step, n)
  PROVE  \A k \in Nat : k <= m /\ k <= n => f[k] = g[k]
<1>. DEFINE S == {k \in Nat : k <= m /\ k <= n => f[k] = g[k]}
<1>1. 0 \in S
  BY DEF Recurses
<1>2. ASSUME NEW k \in Nat, k \in S PROVE k + 1 \in S
  <2>1. CASE k + 1 <= m /\ k + 1 <= n
    <3>1. k < m /\ k < n /\ f[k] = g[k]
      BY <1>2, <2>1
    <3>2. f[k + 1] = step[<<k, f[k]>>] /\ g[k + 1] = step[<<k, g[k]>>]
      BY <3>1 DEF Recurses
    <3>. QED BY <3>1, <3>2
  <2>. QED BY <2>1
<1>. HIDE DEF S
<1>3. \A k \in Nat : k \in S
  BY <1>1, <1>2, Induction
<1>. QED BY <1>3 DEF S

LEMMA RecursionEnds ==
  ASSUME NEW a, NEW step
  PROVE  \A n \in Nat : \E f : Recurses(f, a, step, n)
<1>. DEFINE S == {n \in Nat : \E f : Recurses(f, a, step, n)}
<1>1. 0 \in S
  <2>. DEFINE f == [k \in {0} |-> a]
  <2>1. Recurses(f, a, step, 0)
    BY DEF Recurses
  <2>. QED BY <2>1
<1>2. ASSUME NEW n \in Nat, n \in S PROVE n + 1 \in S
  <2>1. PICK f : Recurses(f, a, step, n)
    BY <1>2
  <2>. DEFINE g == [k \in 0 .. n + 1 |-> IF k <= n THEN f[k] ELSE step[<<n, f[n]>>]]
  <2>2. \A k \in 0 .. n : g[k] = f[k]
    OBVIOUS
  <2>3. g[n + 1] = step[<<n, f[n]>>]
    OBVIOUS
  <2>. HIDE DEF g
  <2>4. ASSUME NEW k \in Nat, k < n + 1 PROVE g[k + 1] = step[<<k, g[k]>>]
    <3>1. CASE k = n
      BY <2>2, <2>3, <3>1
    <3>2. CASE k < n
      BY <2>1, <2>2, <3>2 DEF Recurses
    <3>. QED BY <2>4, <3>1, <3>2
  <2>5. g[0] = a
    BY <2>1, <2>2 DEF Recurses
  <2>6. Recurses(g, a, step, n + 1)
    BY <2>4, <2>5 DEF Recurses
  <2>. QED BY <2>6
<1>. HIDE DEF S
<1>3. \A n \in Nat : n \in S
  BY <1>1, <1>2, Induction
<1>. QED BY <1>3 DEF S

(* A recursion over the naturals has a solution. *)
Solves(f, a, step) ==
  f = [k \in Nat |-> f[k]] /\ f[0] = a /\ \A k \in Nat : f[k + 1] = step[<<k, f[k]>>]

LEMMA Recursion ==
  ASSUME NEW a, NEW step
  PROVE  \E f : Solves(f, a, step)
<1>. DEFINE h(n) == CHOOSE f : Recurses(f, a, step, n)
            f == [k \in Nat |-> h(k)[k]]
<1>1. \A n \in Nat : Recurses(h(n), a, step, n)
  BY RecursionEnds
<1>. HIDE DEF h
<1>2. f[0] = a
  BY <1>1 DEF Recurses
<1>3. ASSUME NEW k \in Nat PROVE f[k + 1] = step[<<k, f[k]>>]
  <2>1. Recurses(h(k), a, step, k) /\ Recurses(h(k + 1), a, step, k + 1)
    BY <1>1
  <2>2. k + 1 \in Nat /\ k <= k /\ k <= k + 1
    OBVIOUS
  <2>3. h(k)[k] = h(k + 1)[k]
    BY <2>1, <2>2, RecursionAgrees
  <2>4. h(k + 1)[k + 1] = step[<<k, h(k + 1)[k]>>]
    BY <2>1 DEF Recurses
  <2>. QED BY <2>3, <2>4
<1>4. f = [k \in Nat |-> f[k]]
  OBVIOUS
<1>. HIDE DEF f
<1>. QED BY <1>2, <1>3, <1>4 DEF Solves

(* The powers of two. *)
LEMMA TwoToIs ==
  /\ TwoTo[0] = 1
  /\ \A k \in Nat : TwoTo[k] \in Nat \ {0} /\ TwoTo[k + 1] = 2 * TwoTo[k]
<1>. DEFINE step == [p \in Nat \X Nat |-> 2 * p[2]]
            e == CHOOSE g : g = [k \in Nat |-> IF k = 0 THEN 1 ELSE 2 * g[k - 1]]
<1>. HIDE DEF step
<1>0. PICK f : Solves(f, 1, step)
  BY Recursion
<1>1. f = [k \in Nat |-> f[k]] /\ f[0] = 1 /\ \A k \in Nat : f[k + 1] = step[<<k, f[k]>>]
  BY <1>0 DEF Solves
<1>. DEFINE S == {k \in Nat : f[k] \in Nat}
<1>2. \A k \in Nat : k \in S
  <2>1. 0 \in S
    BY <1>1
  <2>2. ASSUME NEW k \in Nat, k \in S PROVE k + 1 \in S
    <3>1. f[k] \in Nat /\ f[k + 1] = step[<<k, f[k]>>]
      BY <1>1, <2>2
    <3>2. step[<<k, f[k]>>] = 2 * f[k]
      BY <3>1 DEF step
    <3>. QED BY <3>1, <3>2
  <2>. HIDE DEF S
  <2>. QED BY <2>1, <2>2, Induction
<1>3. ASSUME NEW k \in Nat PROVE f[k + 1] = 2 * f[k]
  <2>1. f[k] \in Nat
    BY <1>2
  <2>2. step[<<k, f[k]>>] = 2 * f[k]
    BY <2>1 DEF step
  <2>. QED BY <1>1, <2>2
<1>4. \A k \in Nat : f[k] = IF k = 0 THEN 1 ELSE 2 * f[k - 1]
  <2>. SUFFICES ASSUME NEW k \in Nat PROVE f[k] = IF k = 0 THEN 1 ELSE 2 * f[k - 1]
    OBVIOUS
  <2>1. CASE k # 0
    <3>1. k - 1 \in Nat /\ (k - 1) + 1 = k
      BY <2>1
    <3>. QED BY <1>3, <2>1, <3>1
  <2>. QED BY <1>1, <2>1
<1>5. f = [k \in Nat |-> IF k = 0 THEN 1 ELSE 2 * f[k - 1]]
  BY <1>1, <1>4
<1>6. e = [k \in Nat |-> IF k = 0 THEN 1 ELSE 2 * e[k - 1]]
  BY <1>5
<1>7. TwoTo = e
  BY DEF TwoTo
<1>. HIDE DEF e
<1>8. TwoTo[0] = 1 /\ \A k \in Nat : TwoTo[k + 1] = 2 * TwoTo[k]
  BY <1>6, <1>7
<1>. DEFINE T == {k \in Nat : TwoTo[k] \in Nat \ {0}}
<1>9. \A k \in Nat : k \in T
  <2>1. 0 \in T
    BY <1>8
  <2>2. \A k \in Nat : k \in T => k + 1 \in T
    BY <1>8
  <2>. HIDE DEF T
  <2>. QED BY <2>1, <2>2, Induction
<1>. QED BY <1>8, <1>9

(* The weight of the places in D below k, in w[k]. *)
Weighs(w, D) ==
  /\ w \in [Nat -> Nat] /\ w[0] = 0
  /\ \A k \in Nat : w[k + 1] = w[k] + (IF k \in D THEN TwoTo[k] ELSE 0)

LEMMA WeightExists ==
  ASSUME NEW D
  PROVE  \E w : Weighs(w, D)
<1>. DEFINE step == [p \in Nat \X Nat |-> p[2] + (IF p[1] \in D THEN TwoTo[p[1]] ELSE 0)]
<1>. HIDE DEF step
<1>1. PICK f : Solves(f, 0, step)
  BY Recursion
<1>2. f = [k \in Nat |-> f[k]] /\ f[0] = 0 /\ \A k \in Nat : f[k + 1] = step[<<k, f[k]>>]
  BY <1>1 DEF Solves
<1>3. ASSUME NEW k \in Nat, f[k] \in Nat
      PROVE  f[k + 1] = f[k] + (IF k \in D THEN TwoTo[k] ELSE 0)
  BY <1>2, <1>3 DEF step
<1>. DEFINE S == {k \in Nat : f[k] \in Nat}
<1>4. \A k \in Nat : k \in S
  <2>1. 0 \in S
    BY <1>2
  <2>2. ASSUME NEW k \in Nat, k \in S PROVE k + 1 \in S
    BY <1>3, <2>2, TwoToIs
  <2>. HIDE DEF S
  <2>. QED BY <2>1, <2>2, Induction
<1>5. f \in [Nat -> Nat]
  BY <1>2, <1>4
<1>. QED BY <1>2, <1>3, <1>5 DEF Weighs

(* A weight below k is below the k-th power. *)
LEMMA WeightIsBelow ==
  ASSUME NEW D, NEW w, Weighs(w, D)
  PROVE  \A k \in Nat : w[k] \in Nat /\ w[k] < TwoTo[k]
<1>. DEFINE S == {k \in Nat : w[k] < TwoTo[k]}
<1>1. 0 \in S
  BY TwoToIs DEF Weighs
<1>2. ASSUME NEW k \in Nat, k \in S PROVE k + 1 \in S
  <2>1. w[k] \in Nat /\ w[k + 1] = w[k] + (IF k \in D THEN TwoTo[k] ELSE 0)
    BY DEF Weighs
  <2>2. TwoTo[k] \in Nat \ {0} /\ TwoTo[k + 1] = 2 * TwoTo[k] /\ w[k] < TwoTo[k]
    BY <1>2, TwoToIs
  <2>. QED BY <2>1, <2>2
<1>. HIDE DEF S
<1>3. \A k \in Nat : k \in S
  BY <1>1, <1>2, Induction
<1>. QED BY <1>3 DEF S, Weighs

(* A weight tells its places. *)
LEMMA WeightTells ==
  ASSUME NEW C, NEW D, NEW v, NEW w, Weighs(v, C), Weighs(w, D)
  PROVE  \A n \in Nat : v[n] = w[n] <=> \A i \in Nat : i < n => (i \in C <=> i \in D)
<1>. DEFINE S == {n \in Nat : v[n] = w[n] <=> \A i \in Nat : i < n => (i \in C <=> i \in D)}
<1>1. 0 \in S
  BY DEF Weighs
<1>2. ASSUME NEW n \in Nat, n \in S PROVE n + 1 \in S
  <2>1. /\ v[n] \in Nat /\ v[n + 1] = v[n] + (IF n \in C THEN TwoTo[n] ELSE 0)
        /\ w[n] \in Nat /\ w[n + 1] = w[n] + (IF n \in D THEN TwoTo[n] ELSE 0)
    BY DEF Weighs
  <2>2. v[n] < TwoTo[n] /\ w[n] < TwoTo[n] /\ TwoTo[n] \in Nat
    BY WeightIsBelow, TwoToIs
  <2>3. v[n + 1] = w[n + 1] <=> v[n] = w[n] /\ (n \in C <=> n \in D)
    BY <2>1, <2>2
  <2>4. v[n] = w[n] <=> \A i \in Nat : i < n => (i \in C <=> i \in D)
    BY <1>2
  <2>5. (\A i \in Nat : i < n + 1 => (i \in C <=> i \in D))
          <=> (\A i \in Nat : i < n => (i \in C <=> i \in D)) /\ (n \in C <=> n \in D)
    <3>1. \A i \in Nat : i < n + 1 <=> i < n \/ i = n
      OBVIOUS
    <3>. QED BY <3>1
  <2>. QED BY <2>3, <2>4, <2>5
<1>. HIDE DEF S
<1>3. \A n \in Nat : n \in S
  BY <1>1, <1>2, Induction
<1>. QED BY <1>3 DEF S

(* The places of the ones of a number, a negative one's without end. *)
Ones(n) == {i \in Nat : Bit(n, i) = 1}

(* One bit more of a number. *)
LEMMA NextBit ==
  ASSUME NEW n \in Int, NEW k \in Nat
  PROVE  n % TwoTo[k + 1] = (n % TwoTo[k]) + (IF k \in Ones(n) THEN TwoTo[k] ELSE 0)
<1>. DEFINE p == TwoTo[k]
            q == n \div p
            r == n % p
            h == q \div 2
            b == q % 2
<1>1. p \in Nat \ {0} /\ TwoTo[k + 1] = 2 * p
  BY TwoToIs
<1>2. k \in Ones(n) <=> b = 1
  BY DEF Ones, Bit
<1>. HIDE DEF p
<1>3. q \in Int /\ r \in 0 .. p - 1 /\ n = p * q + r
  BY <1>1, Division
<1>. HIDE DEF q
<1>4. h \in Int /\ b \in 0 .. 1 /\ q = 2 * h + b
  BY <1>3
<1>. HIDE DEF r, h, b
<1>5. n = (2 * p) * h + (p * b + r)
  BY <1>1, <1>3, <1>4
<1>6. p * b = IF b = 1 THEN p ELSE 0
  BY <1>1, <1>4
<1>. DEFINE m == 2 * p
            t == p * b + r
<1>7. m \in Nat \ {0} /\ t \in 0 .. m - 1
  BY <1>1, <1>3, <1>6
<1>8. n = m * h + t
  BY <1>5
<1>9. t = r + (IF b = 1 THEN p ELSE 0)
  BY <1>1, <1>3, <1>6
<1>. HIDE DEF m, t
<1>10. n % m = t
  BY <1>4, <1>7, <1>8, RemainderIs
<1>. QED BY <1>1, <1>2, <1>9, <1>10 DEF m, p, r

(* The low bits of a number are the weight of its ones. *)
LEMMA LowBitsWeigh ==
  ASSUME NEW n \in Int, NEW w, Weighs(w, Ones(n))
  PROVE  \A k \in Nat : n % TwoTo[k] = w[k]
<1>. DEFINE S == {k \in Nat : n % TwoTo[k] = w[k]}
<1>1. 0 \in S
  BY TwoToIs DEF Weighs
<1>2. ASSUME NEW k \in Nat, k \in S PROVE k + 1 \in S
  BY <1>2, NextBit DEF Weighs
<1>. HIDE DEF S
<1>3. \A k \in Nat : k \in S
  BY <1>1, <1>2, Induction
<1>. QED BY <1>3 DEF S

(* x & y is the weight of the places where both have a one. *)
LEMMA AndWeighs ==
  ASSUME NEW x \in Int, NEW y \in Int, NEW w, Weighs(w, Ones(x) \cap Ones(y))
  PROVE  And(x, y) = w[Width]
<1>. DEFINE Lows(f) == f = [k \in 0 .. Width |->
              IF k = 0 THEN 0
              ELSE f[k - 1]
                   + (IF Bit(x, k - 1) = 1 /\ Bit(y, k - 1) = 1 THEN TwoTo[k - 1] ELSE 0)]
            f == [k \in 0 .. Width |-> w[k]]
            e == CHOOSE g : Lows(g)
<1>0. Width \in Nat
  BY BitAssumption
<1>1. Lows(f)
  <2>1. ASSUME NEW k \in 0 .. Width, k # 0
        PROVE  w[k] = w[k - 1]
                 + (IF Bit(x, k - 1) = 1 /\ Bit(y, k - 1) = 1 THEN TwoTo[k - 1] ELSE 0)
    <3>1. k - 1 \in Nat /\ (k - 1) + 1 = k
      BY <1>0, <2>1
    <3>2. k - 1 \in Ones(x) \cap Ones(y) <=> Bit(x, k - 1) = 1 /\ Bit(y, k - 1) = 1
      BY <3>1 DEF Ones
    <3>. QED BY <3>1, <3>2 DEF Weighs
  <2>2. ASSUME NEW k \in 0 .. Width, k # 0 PROVE k - 1 \in 0 .. Width
    BY <1>0, <2>2
  <2>3. w[0] = 0
    BY DEF Weighs
  <2>. QED BY <2>1, <2>2, <2>3
<1>2. And(x, y) = e[Width]
  BY DEF And
<1>. HIDE DEF f
<1>3. Lows(e)
  BY <1>1
<1>. HIDE DEF e
<1>. DEFINE S == {k \in Nat : k <= Width => e[k] = w[k]}
<1>4. 0 \in S
  BY <1>0, <1>3 DEF Weighs
<1>5. ASSUME NEW k \in Nat, k \in S PROVE k + 1 \in S
  <2>1. CASE k + 1 <= Width
    <3>1. e[k] = w[k] /\ k + 1 \in 0 .. Width /\ k + 1 # 0 /\ (k + 1) - 1 = k
      BY <1>0, <1>5, <2>1
    <3>2. e[k + 1] = e[k] + (IF Bit(x, k) = 1 /\ Bit(y, k) = 1 THEN TwoTo[k] ELSE 0)
      BY <1>3, <3>1
    <3>. QED BY <3>1, <3>2 DEF Weighs, Ones
  <2>. QED BY <1>0, <2>1
<1>. HIDE DEF S
<1>6. Width \in S
  BY <1>0, <1>4, <1>5, Induction
<1>. QED BY <1>0, <1>2, <1>6 DEF S

LEMMA BitsAre ==
  ASSUME NEW n \in Int
  PROVE  \A i \in Nat : i \in Bits(n) <=> i < Width /\ i \in Ones(n)
BY BitAssumption DEF Bits, Ones

LEMMA AllBitsAlways ==
  ASSUME NEW x \in Int, NEW m \in Int
  PROVE  all_bits_set(x, m) <=> Bits(m) \subseteq Bits(x)
<1>1. PICK v : Weighs(v, Ones(x) \cap Ones(m))
  BY WeightExists
<1>2. PICK w : Weighs(w, Ones(m))
  BY WeightExists
<1>0. Width \in Nat
  BY BitAssumption
<1>3. all_bits_set(x, m) <=> v[Width] = w[Width]
  BY <1>0, <1>1, <1>2, AndWeighs, LowBitsWeigh DEF all_bits_set, Unsigned
<1>4. v[Width] = w[Width] <=>
        \A i \in Nat : i < Width => (i \in Ones(x) \cap Ones(m) <=> i \in Ones(m))
  BY <1>0, <1>1, <1>2, WeightTells
<1>5. Bits(m) \subseteq Nat
  BY BitAssumption DEF Bits
<1>. QED BY <1>3, <1>4, <1>5, BitsAre

LEMMA AnyBitsAlways ==
  ASSUME NEW x \in Int, NEW m \in Int
  PROVE  any_bits_set(x, m) <=> Bits(x) \cap Bits(m) # {}
<1>1. PICK v : Weighs(v, Ones(x) \cap Ones(m))
  BY WeightExists
<1>. DEFINE z == [k \in Nat |-> 0]
<1>2. Weighs(z, {})
  BY DEF Weighs
<1>0. Width \in Nat /\ z[Width] = 0
  BY BitAssumption
<1>. HIDE DEF z
<1>3. any_bits_set(x, m) <=> v[Width] # z[Width]
  BY <1>0, <1>1, AndWeighs DEF any_bits_set
<1>4. v[Width] = z[Width] <=>
        \A i \in Nat : i < Width => (i \in Ones(x) \cap Ones(m) <=> i \in {})
  BY <1>0, <1>1, <1>2, WeightTells
<1>5. Bits(m) \subseteq Nat
  BY BitAssumption DEF Bits
<1>. QED BY <1>3, <1>4, <1>5, BitsAre

(* The two's complement: the lowest one stays, the bits above it are       *)
(* inverted.                                                               *)
LEMMA NegatedBits ==
  ASSUME NEW n \in Int, NEW j \in Bits(n), \A i \in Bits(n) : j <= i
  PROVE  \A i \in Nat : i < Width => (i \in Ones(-n) <=> i = j \/ (i > j /\ i \notin Ones(n)))
<1>. DEFINE D == {i \in Nat : i = j \/ (i > j /\ i \notin Ones(n))}
            P == TwoTo[Width]
            q == n \div P
<1>0. Width \in Nat /\ j \in Nat /\ j < Width /\ j \in Ones(n) /\ P \in Nat \ {0} /\ -n \in Int
  BY BitAssumption, TwoToIs, BitsAre DEF Bits
<1>1. PICK u : Weighs(u, D)
  BY WeightExists
<1>2. PICK w : Weighs(w, Ones(n))
  BY WeightExists
<1>3. PICK v : Weighs(v, Ones(-n))
  BY WeightExists
<1>4. \A i \in Nat : i < j => i \notin Ones(n)
  <2>. SUFFICES ASSUME NEW i \in Nat, i < j, i \in Ones(n) PROVE FALSE
    OBVIOUS
  <2>1. i \in Bits(n)
    BY <1>0, BitsAre
  <2>. QED BY <1>0, <2>1
<1>5. \A i \in Nat : i \in D <=> i = j \/ (i > j /\ i \notin Ones(n))
  OBVIOUS
<1>. HIDE DEF D
<1>. DEFINE S == {k \in Nat : /\ k <= j => w[k] = 0 /\ u[k] = 0
                              /\ k > j => w[k] > 0 /\ w[k] + u[k] = TwoTo[k]}
<1>6. 0 \in S
  BY <1>0, <1>1, <1>2 DEF Weighs
<1>7. ASSUME NEW k \in Nat, k \in S PROVE k + 1 \in S
  <2>1. /\ w[k] \in Nat /\ w[k + 1] = w[k] + (IF k \in Ones(n) THEN TwoTo[k] ELSE 0)
        /\ u[k] \in Nat /\ u[k + 1] = u[k] + (IF k \in D THEN TwoTo[k] ELSE 0)
    BY <1>1, <1>2 DEF Weighs
  <2>2. TwoTo[k] \in Nat \ {0} /\ TwoTo[k + 1] = 2 * TwoTo[k]
    BY TwoToIs
  <2>3. CASE k < j
    <3>1. k \notin Ones(n) /\ k \notin D
      BY <1>0, <1>4, <1>5, <2>3
    <3>. QED BY <1>0, <1>7, <2>1, <2>3, <3>1
  <2>4. CASE k = j
    <3>1. k \in Ones(n) /\ k \in D
      BY <1>0, <1>5, <2>4
    <3>. QED BY <1>0, <1>7, <2>1, <2>2, <2>4, <3>1
  <2>5. CASE k > j
    <3>1. k \in Ones(n) <=> k \notin D
      BY <1>0, <1>5, <2>5
    <3>. QED BY <1>0, <1>7, <2>1, <2>2, <2>5, <3>1
  <2>. QED BY <1>0, <2>3, <2>4, <2>5
<1>. HIDE DEF S
<1>8. Width \in S
  BY <1>0, <1>6, <1>7, Induction
<1>9. w[Width] \in Nat /\ u[Width] \in Nat /\ w[Width] > 0 /\ w[Width] + u[Width] = P
  BY <1>0, <1>1, <1>2, <1>8 DEF S, Weighs
<1>10. n % P = w[Width] /\ (-n) % P = v[Width]
  BY <1>0, <1>2, <1>3, LowBitsWeigh
<1>. HIDE DEF P
<1>11. q \in Int /\ n = P * q + w[Width]
  BY <1>0, <1>10, Division
<1>. HIDE DEF q
<1>12. -n = P * (-q - 1) + u[Width] /\ -q - 1 \in Int /\ u[Width] \in 0 .. P - 1
  <2>1. P * (-q - 1) = -(P * q) - P
    BY <1>0, <1>11
  <2>. QED BY <1>0, <1>9, <1>11, <2>1
<1>13. (-n) % P = u[Width]
  <2>. DEFINE c == -q - 1
              r == u[Width]
  <2>1. c \in Int /\ r \in 0 .. P - 1 /\ -n = P * c + r
    BY <1>12
  <2>. HIDE DEF c, r
  <2>2. (P * c + r) % P = r
    BY <1>0, <2>1, RemainderIs
  <2>. QED BY <2>1, <2>2 DEF r
<1>14. v[Width] = u[Width]
  BY <1>10, <1>13
<1>15. \A i \in Nat : i < Width => (i \in Ones(-n) <=> i \in D)
  BY <1>0, <1>1, <1>3, <1>14, WeightTells
<1>. QED BY <1>5, <1>15

LEMMA OneBitAlways ==
  ASSUME NEW n \in Int
  PROVE  one_bit_set(n) <=> Cardinality(Bits(n)) = 1
<1>0. Width \in Nat /\ -n \in Int /\ Bits(n) \subseteq Nat
  BY BitAssumption DEF Bits
<1>1. one_bit_set(n) <=> Unsigned(n) # 0 /\ Bits(n) \subseteq Bits(-n)
  BY <1>0, AllBitsAlways DEF one_bit_set, all_bits_set
<1>2. Unsigned(n) = 0 <=> Bits(n) = {}
  <2>. DEFINE z == [k \in Nat |-> 0]
  <2>1. Weighs(z, {}) /\ z[Width] = 0
    BY <1>0 DEF Weighs
  <2>. HIDE DEF z
  <2>2. PICK w : Weighs(w, Ones(n))
    BY WeightExists
  <2>3. Unsigned(n) = w[Width]
    BY <1>0, <2>2, LowBitsWeigh DEF Unsigned
  <2>4. w[Width] = z[Width] <=> \A i \in Nat : i < Width => (i \in Ones(n) <=> i \in {})
    BY <1>0, <2>1, <2>2, WeightTells
  <2>. QED BY <1>0, <2>1, <2>3, <2>4, BitsAre
<1>3. CASE Bits(n) = {}
  BY <1>1, <1>2, <1>3, FS_EmptySet
<1>4. CASE Bits(n) # {}
  <2>1. PICK j \in Bits(n) : \A i \in Bits(n) : j <= i
    BY <1>0, <1>4, LeastNumber
  <2>2. \A i \in Nat : i < Width => (i \in Ones(-n) <=> i = j \/ (i > j /\ i \notin Ones(n)))
    BY <2>1, NegatedBits
  <2>3. \A i \in Nat : /\ i \in Bits(n) <=> i < Width /\ i \in Ones(n)
                       /\ i \in Bits(-n) <=> i < Width /\ i \in Ones(-n)
    BY <1>0, BitsAre
  <2>4. Bits(n) \subseteq Bits(-n) <=> Bits(n) = {j}
    BY <1>0, <2>1, <2>2, <2>3
  <2>5. Bits(n) = {j} => Cardinality(Bits(n)) = 1
    BY FS_Singleton
  <2>6. ASSUME Cardinality(Bits(n)) = 1 PROVE Bits(n) = {j}
    <3>1. IsFiniteSet(0 .. Width - 1) /\ Bits(n) \subseteq 0 .. Width - 1
      BY <1>0, FS_Interval DEF Bits
    <3>2. IsFiniteSet(Bits(n))
      BY <3>1, FS_Subset
    <3>3. \E i : Bits(n) = {i}
      BY <2>6, <3>2, FS_Singleton
    <3>. QED BY <3>3
  <2>. QED BY <1>1, <1>2, <1>4, <2>4, <2>5, <2>6
<1>. QED BY <1>3, <1>4

-----------------------------------------------------------------------------
(* The pure helpers, for any arguments. *)

NumbersInv == x1 \in Int /\ x2 \in Int /\ x3 \in Int

LEMMA NumbersInvariant == NumbersSpec => []NumbersInv
<1>1. NumbersInit => NumbersInv
  BY ArgumentsAssumption DEF NumbersInit, NumbersInv
<1>2. NumbersInv /\ [NumbersNext]_numbers => NumbersInv'
  BY ArgumentsAssumption DEF NumbersInv, NumbersNext, numbers
<1>. QED BY <1>1, <1>2, PTL DEF NumbersSpec

(* The angle helpers are right for every angle, whatever turns it carries, *)
(* and every resolution of the half turn.                                  *)
THEOREM AnglesAreRight == NumbersSpec => []AngleHelpers
<1>1. NumbersInv => AngleHelpers
  BY ShortestDifferenceAlways, LongWayRoundAlways, HalfwayBetweenAlways, WithinToleranceAlways
     DEF NumbersInv, AngleHelpers
<1>. QED BY <1>1, NumbersInvariant, PTL

(* For all integers: gcd's loop, which its comment calls untested, ends    *)
(* and returns a greatest common divisor, mod is the residue, sort orders  *)
(* its three numbers and loses none, bound is the nearest point, and the   *)
(* searches return the first index.  For words of any width, one_bit_set   *)
(* finds the powers of two, and the other bit tests compare sets of bits.  *)
THEOREM NumbersAreAlwaysRight == NumbersSpec => []NumbersAreRight
<1>1. NumbersInv => NumbersAreRight
  BY NearestInRangeAlways, SortsThreeAlways, FirstIndexAlways, GcdIsGreatestAlways,
     ModIsResidueAlways, AllBitsAlways, AnyBitsAlways, OneBitAlways
     DEF NumbersInv, NumbersAreRight, BitTests
<1>. QED BY <1>1, NumbersInvariant, PTL
=============================================================================
