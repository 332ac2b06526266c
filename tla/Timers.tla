------------------------------- MODULE Timers -------------------------------
(***************************************************************************)
(* The timers of util/timer.h.  Timer and AccumulativeTimer read the time  *)
(* of day, which an administrator or a time service may set back or on;    *)
(* CycleTimer and StageCycleTimer read a word of the cycle counter, which  *)
(* only goes up, and wraps.                                                *)
(***************************************************************************)
EXTENDS Integers

CONSTANTS MaxTime,  \* bound on the time that passes, in microseconds
          MaxCycles, \* and in cycles
          Settings, \* by how much the time of day may be set back or on
          Word,     \* values of cycle_t
          Stages    \* num of a StageCycleTimer

ASSUME TimersAssumption ==
  /\ MaxTime \in Nat /\ MaxCycles \in Nat /\ Settings \subseteq Nat
  /\ Word \in Nat /\ Word % 2 = 0 /\ Word > 0
  /\ Stages \in Nat

VARIABLES time,     \* that has passed, in microseconds
          wall,     \* the time of day
          timer,    \* tv1, tv2 and total
          truth,    \* what really happened, for the properties
          counter,  \* the cycles that have passed
          register, \* where the compiler looks for what rdtsc returns
          stages,   \* c and n of a StageCycleTimer
          taken     \* when each element of c was last taken (history)

wallVars == <<time, wall, timer, truth>>
cycleVars == <<counter, register, stages, taken>>

-----------------------------------------------------------------------------
(* Timer and AccumulativeTimer.  truth.counted is the time of day at the   *)
(* last start() and what interval() returned since, truth.busy the time    *)
(* that passed between start() and stop(), and truth.paired says that each *)
(* stop() had a start() of its own and nobody set the time of day          *)
(* meanwhile.  tv1 is indeterminate before start().                        *)

WallInit ==
  /\ time = 0 /\ wall = 0
  /\ timer \in [tv1 : {0, MaxTime}, tv2 : {0}, total : {0}]
  /\ truth = [counted |-> timer.tv1, running |-> FALSE, busy |-> 0, paired |-> TRUE]

Pass ==
  /\ time < MaxTime
  /\ time' = time + 1 /\ wall' = wall + 1
  /\ truth' = [truth EXCEPT !.busy = IF truth.running THEN @ + 1 ELSE @]
  /\ UNCHANGED timer

SetTimeOfDay ==
  /\ \E s \in Settings : wall' \in {wall - s, wall + s} \intersect (-MaxTime .. MaxTime)
  /\ truth' = [truth EXCEPT !.paired = @ /\ ~truth.running]
  /\ UNCHANGED <<time, timer>>

clear ==
  /\ timer' = [timer EXCEPT !.total = 0]
  /\ truth' = [truth EXCEPT !.busy = 0, !.paired = ~truth.running]
  /\ UNCHANGED <<time, wall>>

start ==
  /\ timer' = [timer EXCEPT !.tv1 = wall]
  /\ truth' = [truth EXCEPT !.counted = wall, !.running = TRUE, !.paired = @ /\ ~truth.running]
  /\ UNCHANGED <<time, wall>>

(* `gettimeofday(&tv2,NULL); total+=time();`; the bound is on the total of *)
(* a timer stopped again and again.                                        *)
stop ==
  /\ timer.total + wall - timer.tv1 \in -MaxTime .. MaxTime
  /\ timer' = [timer EXCEPT !.tv2 = wall, !.total = @ + wall - timer.tv1]
  /\ truth' = [truth EXCEPT !.running = FALSE, !.paired = @ /\ truth.running]
  /\ UNCHANGED <<time, wall>>

(* Mutated: the next interval starts where this one did. *)
intervalFromStart ==
  /\ timer' = [timer EXCEPT !.tv2 = wall]
  /\ truth' = [truth EXCEPT !.counted = @ + wall - timer.tv1, !.paired = @ /\ ~truth.running]
  /\ UNCHANGED <<time, wall>>

(* Returns the time since tv1 and moves tv1 on; total is not told.         *)
interval ==
  /\ timer' = [timer EXCEPT !.tv1 = wall, !.tv2 = wall]
  /\ truth' = [truth EXCEPT !.counted = @ + wall - timer.tv1, !.paired = @ /\ ~truth.running]
  /\ UNCHANGED <<time, wall>>

WallNext == Pass \/ SetTimeOfDay \/ clear \/ start \/ stop \/ interval

WallSpec == WallInit /\ [][WallNext]_wallVars

-----------------------------------------------------------------------------
(* CycleTimer and StageCycleTimer: start() and stop() of the first are     *)
(* start() and the only stage() of a StageCycleTimer<1>, but for its       *)
(* guard.  The caller begins with start(): n is indeterminate before.      *)

(* rdtsc leaves the low word of the counter in eax and the high word in    *)
(* edx.  The macro of i386 names eax; that of x86_64 says "=A", for which  *)
(* the compiler takes either, in each of the two functions that read.      *)
Uses == {"start", "stage"}
Registers == {"eax", "edx"}

get_cycle(use) ==
  IF register[use] = "eax" THEN counter % Word ELSE (counter \div Word) % Word

Signed(word) == IF word < Word \div 2 THEN word ELSE word - Word

CycleInit ==
  /\ counter = 0
  /\ register \in [Uses -> Registers]
  /\ stages = [c |-> [i \in 0 .. Stages |-> 0], n |-> 0] /\ taken = stages.c

Cycles ==
  \E d \in 1 .. Word :
    counter + d <= MaxCycles /\ counter' = counter + d /\ UNCHANGED <<register, stages, taken>>

startStages ==
  /\ stages' = [c |-> [stages.c EXCEPT ![0] = get_cycle("start")], n |-> 0]
  /\ taken' = [taken EXCEPT ![0] = counter]
  /\ UNCHANGED <<counter, register>>

(* `if(n<num){n++; get_cycle(c[n]);}` *)
stage ==
  /\ stages.n < Stages
  /\ stages' = [c |-> [stages.c EXCEPT ![stages.n + 1] = get_cycle("stage")], n |-> stages.n + 1]
  /\ taken' = [taken EXCEPT ![stages.n + 1] = counter]
  /\ UNCHANGED <<counter, register>>

CycleNext == Cycles \/ startStages \/ stage

CycleSpec == CycleInit /\ [][CycleNext]_cycleVars

(* Mutated: subtracted as signed numbers of more bits. *)
differenceWide(c, from, to) == c[to] - c[from]

(* Unsigned, as in CycleTimer::cycles and StageCycleTimer::print.          *)
difference(c, from, to) == (c[to] - c[from]) % Word

(* StageCycleTimer::cycles *)
cycles(s) == Signed(difference(stages.c, s, s + 1))

-----------------------------------------------------------------------------
(* Properties. *)

(* What the intervals returned adds up to the time of day from start() to  *)
(* the last of them, whatever the clock was set to in between: no time is  *)
(* counted twice or lost between one interval and the next.                *)
IntervalsTelescope == truth.counted = timer.tv1

(* The total of an AccumulativeTimer is the time that passed between       *)
(* start() and stop() if every stop() has a start() of its own and no      *)
(* interval() or setting of the clock comes between the two.               *)
TotalIsBusyTime == truth.paired /\ ~truth.running => timer.total = truth.busy

(* A Timer and an AccumulativeTimer tell the time that passed.             *)
TimersAreRight == IntervalsTelescope /\ TotalIsBusyTime

(* The compiler took eax in both functions, as it must on i386. *)
ReadsLowWord == \A use \in Uses : register[use] = "eax"

(* In a program whose compiler took eax in both functions the stages taken *)
(* since start() are told exactly, also when the counter wrapped in one:   *)
(* their shares of the whole add up to it as long as the whole is shorter  *)
(* than the counter, and cycles() is the length of the stage if that is    *)
(* less than half the counter.                                             *)
StagesAreRight ==
  LET Took(from, to) == taken[to] - taken[from] IN
  ReadsLowWord =>
    /\ Took(0, stages.n) < Word =>
         \A i \in 0 .. stages.n : \A j \in i .. stages.n :
            difference(stages.c, i, j) = Took(i, j)
    /\ \A i \in 0 .. stages.n - 1 : Took(i, i + 1) < Word \div 2 => cycles(i) = Took(i, i + 1)
=============================================================================
