------------------------------ MODULE AutoSchedule ------------------------------
(***************************************************************************)
(* The automatic signals of a race (auto-schedule.ts), with the intervals  *)
(* of the four races (content.ts).  Times are in units of 100 ms.          *)
(*                                                                         *)
(* A schedule is its green blocks; what lies between them is red.  The     *)
(* random draws are abstracted to the ends of their ranges: a drawn        *)
(* schedule repeats one green and one red length, and every second green   *)
(* may be a fake-out.                                                      *)
(***************************************************************************)
EXTENDS Integers, FiniteSets

Contents ==
  { [dur |-> 200, green |-> <<30, 50>>, red |-> <<15, 25>>, fake |-> {}],
    [dur |-> 800, green |-> <<25, 45>>, red |-> <<10, 20>>, fake |-> {}],
    [dur |-> 800, green |-> <<15, 35>>, red |-> <<9, 18>>,  fake |-> {6, 9}],
    [dur |-> 800, green |-> <<12, 30>>, red |-> <<8, 15>>,  fake |-> {6, 9}] }

MinGreenTime == 480         \* RLGL_AUTO_MIN_GREEN_MS
MinGreenOf(total) == IF 6 * total < 10 * MinGreenTime THEN (6 * total) \div 10 ELSE MinGreenTime

Clip(t, total) == IF t < total THEN t ELSE total

\* Green blocks of length `green' every `period', from `first' on.
Blocks(first, green, period, total) ==
  {[from |-> first + k * period, to |-> Clip(first + k * period + green, total)] :
     k \in {j \in 0..(IF total > 0 THEN total \div period ELSE 0) : first + j * period < total}}

\* Blocks never overlap: what they add up to is the units in which the light is green.
GreenTime(schedule) == Cardinality(UNION {b.from..b.to - 1 : b \in schedule})

Drawn(c, total) ==
  LET Plain(g, r) == Blocks(0, g, g + r, total)
      WithFakes(g, r, f) == Blocks(0, g, g + f + 2 * r, total) \cup Blocks(g + r, f, g + f + 2 * r, total)
      ends == {1, 2}
  IN {Plain(c.green[i], c.red[j]) : i \in ends, j \in ends}
     \cup {WithFakes(c.green[i], c.red[j], f) : i \in ends, j \in ends, f \in c.fake}

\* Mutant: short green blocks between long reds.
FallbackSwapped(c, total) == Blocks(0, c.green[1], c.green[1] + c.red[2], total)

\* Long green blocks separated by short reds.
Fallback(c, total) == Blocks(0, c.green[2], c.green[2] + c.red[1], total)

\* What may come out: any draw that has enough green, or, when 32 draws had too
\* little, the fallback.
buildAutoSchedule(c, total) ==
  {s \in Drawn(c, total) : GreenTime(s) >= MinGreenOf(total)} \cup {Fallback(c, total)}

\* What a race armed with `left' of its time gets, after the second of red it starts
\* with; from the start of a race, enough to run the track (333 units of 100 ms).
HasGreen(c, left) ==
  \A s \in buildAutoSchedule(c, left - 10) :
    /\ GreenTime(s) >= MinGreenOf(left - 10)
    /\ left = 800 => GreenTime(s) >= 333
================================================================================
