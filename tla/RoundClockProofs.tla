--------------------------- MODULE RoundClockProofs ---------------------------
(***************************************************************************)
(* For every duration, countdown and lateness of the timers: as long as    *)
(* rounds are paused, and the process dies, only while a round is active,  *)
(* lock times are exact and agree with the pause records, pauses keep the  *)
(* time that is left, and a later lock never gets a better time.           *)
(***************************************************************************)
EXTENDS RoundClock, FiniteSetTheorems, SequenceTheorems, TLAPS

\* The case the theorems are about; outside it a pause in the countdown is stored
\* as play time.
OnlyActive == PauseIn \subseteq {"RoundActive"} /\ RestartIn \subseteq {"RoundActive"}

Run == played + charged

\* Where the deadline stands, by where now stands.
DeadlineInv ==
  Live =>
    /\ countdownEnds <= deadline
    /\ now <= countdownEnds => deadline - countdownEnds = Duration - Run
    /\ countdownEnds < now /\ now <= deadline => deadline - now = Duration - Run
    /\ deadline < now => Run = Duration

ClockInv ==
  /\ TypeOK
  /\ state = "Ready" => up /\ ~paused /\ played = 0 /\ charged = 0 /\ lastLock = -1
  /\ paused => remaining = Duration - Run /\ remaining \in Nat
  /\ state = "RoundActive" /\ ~paused => countdownEnds <= now
  /\ ~up => state = "RoundActive"
  /\ DeadlineInv
  /\ lastLock <= Run

\* What a pause of an active round stores is the play time that is left.
LEMMA LeftIsUnplayed ==
  ASSUME ClockAssumption, ClockInv, Live, state = "RoundActive"
  PROVE  Left = Duration - Run /\ Left \in Nat
<1>1. countdownEnds <= now /\ DeadlineInv /\ TypeOK
  BY DEF ClockInv, Live
<1>2. now \in Nat /\ deadline \in Nat /\ countdownEnds \in Nat
      /\ played \in Nat /\ charged \in Nat /\ Duration \in Nat
  BY <1>1 DEF TypeOK, ClockAssumption
<1>3. CASE now <= deadline
  <2>1. deadline - now = Duration - Run
    BY <1>1, <1>2, <1>3 DEF DeadlineInv, Run, Live
  <2> QED
    BY <1>2, <1>3, <2>1 DEF Left, AtLeastZero
<1>4. CASE deadline < now
  <2>1. Run = Duration
    BY <1>1, <1>4 DEF DeadlineInv, Live
  <2> QED
    BY <1>2, <1>4, <2>1 DEF Left, AtLeastZero, Run
<1> QED
  BY <1>2, <1>3, <1>4

\* What a lock stores while input is open is the time the round has been running.
LEMMA ElapsedIsRun ==
  ASSUME ClockAssumption, ClockInv, InputOpen
  PROVE  ActiveElapsed(now) = Run
<1>1. /\ Live /\ countdownEnds <= now /\ now <= deadline
      /\ DeadlineInv /\ TypeOK
  BY DEF ClockInv, InputOpen, Live, TypeOK
<1>2. now \in Nat /\ deadline \in Nat /\ countdownEnds \in Nat
      /\ played \in Nat /\ charged \in Nat /\ Duration \in Nat
  BY <1>1 DEF TypeOK, ClockAssumption
<1>3. deadline - now = Duration - Run
  BY <1>1, <1>2 DEF DeadlineInv, Run
<1> QED
  BY <1>2, <1>3 DEF ActiveElapsed, AtLeastZero, Run

LEMMA StorePauseTypes ==
  ASSUME ClockAssumption, TypeOK, StorePause
  PROVE  remaining' \in Nat /\ records' \in Seq(PauseRecord) /\ paused' = TRUE
<1>1. Left \in Nat
  BY DEF TypeOK, Left, AtLeastZero
<1>2. [pausedAt |-> now, resumedAt |-> -1] \in PauseRecord
  BY DEF TypeOK, PauseRecord
<1> QED
  BY <1>1, <1>2 DEF StorePause, TypeOK

LEMMA ResumedTypes ==
  ASSUME TypeOK
  PROVE  RecordsResumed \in Seq(PauseRecord)
<1>1. CASE records = <<>>
  BY <1>1 DEF RecordsResumed
<1>2. CASE records # <<>>
  <2>1. Len(records) \in 1..Len(records) /\ records \in [1..Len(records) -> PauseRecord]
    BY <1>2 DEF TypeOK
  <2>2. [records[Len(records)] EXCEPT !.resumedAt = now] \in PauseRecord
    BY <2>1 DEF TypeOK, PauseRecord
  <2>3. RecordsResumed = [records EXCEPT ![Len(records)] = [records[Len(records)] EXCEPT !.resumedAt = now]]
    BY <1>2 DEF RecordsResumed
  <2> QED
    BY <2>1, <2>2, <2>3 DEF TypeOK
<1> QED
  BY <1>1, <1>2

LEMMA ClockInit == ASSUME ClockAssumption, Init PROVE ClockInv
<1>1. ~Live /\ Run = 0
  BY DEF Init, Live, LiveStages, Run
<1>2. records \in Seq(PauseRecord)
  BY DEF Init
<1>3. up \in BOOLEAN /\ paused \in BOOLEAN
  BY DEF Init
<1>4. TypeOK
  BY <1>2, <1>3 DEF Init, TypeOK
<1> QED
  BY <1>1, <1>4 DEF Init, ClockInv, DeadlineInv

LEMMA ClockNext ==
  ASSUME ClockAssumption, OnlyActive, ClockInv, [Next]_vars
  PROVE  ClockInv'
<1> USE DEF LiveStages
<1>1. TypeOK /\ Duration \in Nat \ {0} /\ Countdown \in Nat \ {0}
  BY DEF ClockInv, ClockAssumption
<1>2. CASE Begin
  <2>1. /\ countdownEnds' = now + Countdown /\ deadline' = now + Countdown + Duration
        /\ now' = now /\ now \in Nat /\ countdownEnds' \in Nat /\ deadline' \in Nat
        /\ Run = 0 /\ Run' = 0
    BY <1>1, <1>2 DEF Begin, ClockInv, TypeOK, DeadlineFor, Run
  <2>2. DeadlineInv'
    BY <1>1, <2>1 DEF DeadlineInv
  <2>3. TypeOK'
    BY <1>1, <1>2, <2>1 DEF Begin, TypeOK
  <2> QED
    BY <1>1, <1>2, <2>1, <2>2, <2>3 DEF Begin, ClockInv
<1>3. CASE GoActive
  BY <1>1, <1>3 DEF GoActive, ClockInv, TypeOK, DeadlineInv, Live, Run, attempt
<1>4. CASE Pause
  <2>1. state = "RoundActive" /\ Live /\ StorePause
    BY <1>4 DEF Pause, OnlyActive
  <2>2. Left = Duration - Run /\ Left \in Nat
    BY <2>1, LeftIsUnplayed
  <2>3. remaining' = Left /\ records' \in Seq(PauseRecord) /\ paused' = TRUE
    BY <1>1, <2>1, StorePauseTypes DEF StorePause
  <2> QED
    BY <1>1, <1>4, <2>1, <2>2, <2>3 DEF Pause, ClockInv, TypeOK, DeadlineInv, Live, Run
<1>5. CASE Resume
  <2>1. remaining = Duration - Run /\ remaining \in Nat /\ remaining # -1
    BY <1>5 DEF Resume, ClockInv
  <2>2. RecordsResumed \in Seq(PauseRecord)
    BY <1>1, ResumedTypes
  <2>3. /\ countdownEnds' = now + Countdown /\ deadline' = now + Countdown + (Duration - Run)
        /\ now' = now /\ now \in Nat /\ countdownEnds' \in Nat /\ deadline' \in Nat
        /\ Run' = Run /\ Run \in Nat
    BY <1>1, <1>5, <2>1 DEF Resume, TypeOK, DeadlineFor, Run
  <2>4. DeadlineInv'
    BY <1>1, <2>1, <2>3 DEF DeadlineInv
  <2>5. TypeOK'
    BY <1>1, <1>5, <2>2, <2>3 DEF Resume, TypeOK
  <2> QED
    BY <1>1, <1>5, <2>3, <2>4, <2>5 DEF Resume, ClockInv
<1>6. CASE CloseRound
  BY <1>1, <1>6 DEF CloseRound, ClockInv, TypeOK, DeadlineInv, Live, Run, attempt
<1>7. CASE Lock
  <2>1. lastLock' = Run
    BY <1>7, ElapsedIsRun DEF Lock
  <2> QED
    BY <1>1, <1>7, <2>1 DEF Lock, InputOpen, ClockInv, TypeOK, DeadlineInv, Live, Run, session, attempt
<1>8. CASE Crash
  BY <1>1, <1>8 DEF Crash, OnlyActive, ClockInv, TypeOK, DeadlineInv, Live, Run, session, attempt
<1>9. CASE Recover
  <2>1. state = "RoundActive"
    BY <1>9 DEF Recover, ClockInv
  <2>2. CASE Live
    <3>1. Left = Duration - Run /\ Left \in Nat
      BY <2>1, <2>2, LeftIsUnplayed
    <3>2. StorePause
      BY <1>9, <2>2 DEF Recover
    <3>3. remaining' = Left /\ records' \in Seq(PauseRecord) /\ paused' = TRUE
      BY <1>1, <3>2, StorePauseTypes DEF StorePause
    <3> QED
      BY <1>1, <1>9, <2>1, <3>1, <3>3 DEF Recover, ClockInv, TypeOK, DeadlineInv, Live, Run
  <2>3. CASE ~Live
    BY <1>1, <1>9, <2>1, <2>3 DEF Recover, ClockInv, TypeOK, DeadlineInv, Live, Run
  <2> QED
    BY <2>2, <2>3
<1>10. CASE Tick
  BY <1>1, <1>10 DEF Tick, InWindow, ClockInv, TypeOK, DeadlineInv, Live, Run, session, attempt
<1>11. CASE UNCHANGED vars
  BY <1>1, <1>11 DEF vars, ClockInv, TypeOK, DeadlineInv, Live, Run, session, attempt
<1> QED
  BY <1>2, <1>3, <1>4, <1>5, <1>6, <1>7, <1>8, <1>9, <1>10, <1>11 DEF Next
------------------------------------------------------------------------------
\* The facts above hold in every reachable state.
THEOREM ClockInvariant == ASSUME ClockAssumption, OnlyActive PROVE Spec => []ClockInv
<1>1. Init => ClockInv
  BY ClockInit
<1>2. ClockInv /\ [Next]_vars => ClockInv'
  BY ClockNext
<1> QED
  BY <1>1, <1>2, PTL DEF Spec

\* The time_ms of a locked answer is the time the round had been running, for
\* every duration, pauses and late timers included (ParticipationService.lockTime).
THEOREM LockTimeExactThm == ASSUME ClockAssumption, OnlyActive PROVE Spec => []LockTimeExact
<1>1. ClockInv => LockTimeExact
  BY ElapsedIsRun DEF LockTimeExact, Run
<1> QED
  BY <1>1, ClockInvariant, PTL

\* A pause stores exactly the play time that is left, and RESUME gives it back
\* (paused_remaining_ms of the PAUSE case and of restart recovery).
THEOREM PauseKeepsTimeThm == ASSUME ClockAssumption, OnlyActive PROVE Spec => []PauseKeepsTime
<1>1. ClockInv => PauseKeepsTime
  BY DEF ClockInv, PauseKeepsTime, Run
<1> QED
  BY <1>1, ClockInvariant, PTL

\* No answer is stored with a better time than an answer locked before it.
THEOREM LaterLockThm == ASSUME ClockAssumption, OnlyActive PROVE Spec => LaterLockNeverFaster
<1>1. ASSUME ClockInv, [Next]_vars PROVE [lastLock' >= lastLock]_vars
  <2>1. lastLock \in Nat \cup {-1} /\ lastLock <= Run /\ Run \in Nat
    BY <1>1 DEF ClockInv, TypeOK, Run
  <2>2. CASE Lock
    <3>1. lastLock' = Run
      BY <1>1, <2>2, ElapsedIsRun DEF Lock
    <3> QED
      BY <2>1, <3>1
  <2>3. CASE ~Lock
    <3>1. lastLock' = lastLock
      BY <1>1, <2>3 DEF Next, vars, Begin, GoActive, Pause, Resume, CloseRound, Crash, Recover, Tick
    <3> QED
      BY <2>1, <3>1
  <2> QED
    BY <2>2, <2>3
<1>2. ClockInv /\ [Next]_vars => [lastLock' >= lastLock]_vars
  BY <1>1
<1> QED
  BY <1>2, ClockInvariant, PTL DEF Spec, LaterLockNeverFaster

------------------------------------------------------------------------------
(***************************************************************************)
(* Sums over a finite set.                                                 *)
(***************************************************************************)

\* Induction over the subsets of a finite set, for the set of those that have a property.
LEMMA SubsetInduction ==
  ASSUME NEW S, IsFiniteSet(S), NEW Good, {} \in Good,
         \A T \in SUBSET S : T # {} /\ (\A a \in T : T \ {a} \in Good) => T \in Good
  PROVE  \A T \in SUBSET S : T \in Good
<1> DEFINE Bad == {T \in SUBSET S : T \notin Good}
           R == StrictSubsetOrdering(S)
<1>1. SUFFICES ASSUME Bad # {} PROVE FALSE
  OBVIOUS
<1>2. PICK T \in Bad : \A U \in Bad : ~(<<U, T>> \in R)
  <2>1. IsWellFoundedOn(R, FiniteSubsetsOf(S)) /\ Bad \subseteq FiniteSubsetsOf(S)
    BY FS_StrictSubsetOrderingWellFounded, FS_FiniteSubsetsOfFinite
  <2> HIDE DEF Bad, R
  <2>2. QED
    BY <1>1, <2>1, WFMin
<1>3. ASSUME NEW a \in T PROVE T \ {a} \in Good
  <2>1. T \ {a} \in SUBSET S /\ <<T \ {a}, T>> \in R
    BY <1>2 DEF StrictSubsetOrdering
  <2>2. QED
    BY <1>2, <2>1
<1>4. QED
  BY <1>2, <1>3

\* The sums of f over the subsets of S, whichever element is added last.
IsSumTable(C, f, S) ==
  /\ C \in [SUBSET S -> Int] /\ C[{}] = 0
  /\ \A T \in SUBSET S : \A x \in T : C[T] = f[x] + C[T \ {x}]

LEMMA TableGrows ==
  ASSUME NEW S, NEW f, NEW a \in S, f[a] \in Int, \A x \in S : f[x] \in Int, NEW C, IsSumTable(C, f, S \ {a})
  PROVE  \E D : IsSumTable(D, f, S)
<1> DEFINE D == [T \in SUBSET S |-> IF a \in T THEN f[a] + C[T \ {a}] ELSE C[T]]
<1>1. \A T \in SUBSET S : T \ {a} \in SUBSET (S \ {a}) /\ (a \notin T => T \in SUBSET (S \ {a}))
  OBVIOUS
<1>2. D \in [SUBSET S -> Int] /\ D[{}] = 0
  BY <1>1 DEF IsSumTable
<1>3. ASSUME NEW T \in SUBSET S, NEW x \in T PROVE D[T] = f[x] + D[T \ {x}]
  <2>0. T \ {x} \in SUBSET S
    OBVIOUS
  <2>1. CASE x = a
    BY <2>0, <2>1
  <2>2. CASE x # a /\ a \notin T
    <3>1. C[T] = f[x] + C[T \ {x}]
      BY <2>2 DEF IsSumTable
    <3>2. QED
      BY <2>0, <2>2, <3>1
  <2>3. CASE x # a /\ a \in T
    <3>1. T \ {a} \in SUBSET (S \ {a}) /\ x \in T \ {a} /\ (T \ {a}) \ {x} = (T \ {x}) \ {a}
      BY <2>3
    <3>2. C[T \ {a}] = f[x] + C[(T \ {x}) \ {a}]
      <4>1. \A U \in SUBSET (S \ {a}) : \A y \in U : C[U] = f[y] + C[U \ {y}]
        BY DEF IsSumTable
      <4>2. C[T \ {a}] = f[x] + C[(T \ {a}) \ {x}]
        <5> DEFINE U == T \ {a}
        <5>1. U \in SUBSET (S \ {a}) /\ x \in U
          BY <3>1
        <5> HIDE DEF U, D
        <5>2. C[U] = f[x] + C[U \ {x}]
          BY <4>1, <5>1
        <5>3. QED
          BY <5>2 DEF U
      <4>3. QED
        BY <3>1, <4>2
    <3>3. (T \ {x}) \ {a} \in SUBSET (S \ {a}) /\ C[(T \ {x}) \ {a}] \in Int /\ f[x] \in Int
      BY <3>1 DEF IsSumTable
    <3>4. D[T] = f[a] + C[T \ {a}] /\ D[T \ {x}] = f[a] + C[(T \ {x}) \ {a}]
      BY <2>0, <2>3
    <3> HIDE DEF D
    <3>5. QED
      BY <3>2, <3>3, <3>4
  <2>4. QED
    BY <2>1, <2>2, <2>3
<1>4. IsSumTable(D, f, S)
  <2> HIDE DEF D
  <2>1. QED
    BY <1>2, <1>3 DEF IsSumTable
<1>5. QED
  BY <1>4

\* There is such a table, built one element at a time.
LEMMA TableExists ==
  ASSUME NEW S, IsFiniteSet(S), NEW f, \A x \in S : f[x] \in Int
  PROVE  \E C : IsSumTable(C, f, S)
<1> DEFINE Good == {T \in SUBSET S : \E C : IsSumTable(C, f, T)}
<1>1. {} \in Good
  <2>1. IsSumTable([T \in SUBSET {} |-> 0], f, {})
    BY DEF IsSumTable
  <2>2. QED
    BY <2>1
<1>2. ASSUME NEW T \in SUBSET S, NEW a \in T, T \ {a} \in Good PROVE T \in Good
  <2>1. PICK C : IsSumTable(C, f, T \ {a})
    BY <1>2
  <2>2. \E D : IsSumTable(D, f, T)
    BY <2>1, TableGrows
  <2>3. QED
    BY <2>2
<1>3. ASSUME NEW T \in SUBSET S, T # {}, \A a \in T : T \ {a} \in Good PROVE T \in Good
  <2>1. PICK a \in T : T \ {a} \in Good
    BY <1>3
  <2> HIDE DEF Good
  <2>2. QED
    BY <1>2, <2>1
<1>4. S \in Good
  <2> HIDE DEF Good
  <2>1. S \in SUBSET S
    OBVIOUS
  <2>2. QED
    BY <1>1, <1>3, <2>1, SubsetInduction
<1>5. QED
  BY <1>4

\* What the fold computes: an element of its choice is added last.
IsFold(g, f, S) ==
  g = [T \in SUBSET S |-> IF T = {} THEN 0
                          ELSE f[CHOOSE x \in T : TRUE] + g[T \ {CHOOSE x \in T : TRUE}]]

LEMMA FoldIsTable ==
  ASSUME NEW S, IsFiniteSet(S), NEW f, NEW C, IsSumTable(C, f, S), NEW g, IsFold(g, f, S)
  PROVE  g = C
<1> DEFINE Good == {T \in SUBSET S : g[T] = C[T]}
           Pick(T) == CHOOSE x \in T : TRUE
<1>1. {} \in Good
  BY DEF IsSumTable, IsFold
<1>2. ASSUME NEW T \in SUBSET S, T # {}, \A b \in T : T \ {b} \in Good PROVE T \in Good
  <2>1. Pick(T) \in T
    BY <1>2
  <2>2. g[T] = f[Pick(T)] + g[T \ {Pick(T)}]
    BY <1>2 DEF IsFold
  <2> HIDE DEF Pick
  <2>3. QED
    BY <1>2, <2>1, <2>2 DEF IsSumTable
<1>3. \A T \in SUBSET S : g[T] = C[T]
  <2>1. \A T \in SUBSET S : T \in Good
    <3> HIDE DEF Good
    <3>1. QED
      BY <1>1, <1>2, SubsetInduction
  <2>2. QED
    BY <2>1
<1>4. g = [T \in SUBSET S |-> g[T]] /\ C = [T \in SUBSET S |-> C[T]]
  BY DEF IsSumTable, IsFold
<1>5. QED
  BY <1>3, <1>4

\* The sum of f over S, as the model writes it.
SumOver(f, S) == MapThenSumSet(LAMBDA i : f[i], S)

\* The fold adds up a function on a finite set, in whatever order it takes them.
LEMMA SumIsTable ==
  ASSUME NEW S, IsFiniteSet(S), NEW f, NEW C, IsSumTable(C, f, S)
  PROVE  SumOver(f, S) = C[S]
<1>1. IsFold(C, f, S)
  <2>1. ASSUME NEW T \in SUBSET S, T # {} PROVE (CHOOSE x \in T : TRUE) \in T
    BY <2>1
  <2>2. C = [T \in SUBSET S |-> C[T]]
    BY DEF IsSumTable
  <2>3. \A T \in SUBSET S : C[T] = IF T = {} THEN 0
                                ELSE f[CHOOSE x \in T : TRUE] + C[T \ {CHOOSE x \in T : TRUE}]
    BY <2>1 DEF IsSumTable
  <2>4. QED
    BY <2>2, <2>3 DEF IsFold
<1>2. IsFold(CHOOSE g : IsFold(g, f, S), f, S)
  BY <1>1
<1>3. (CHOOSE g : IsFold(g, f, S)) = C
  BY <1>2, FoldIsTable
<1>4. SumOver(f, S) = (CHOOSE g : IsFold(g, f, S))[S]
  BY DEF IsFold, SumOver, MapThenSumSet, MapThenFoldSet
<1>5. QED
  BY <1>3, <1>4

\* A sum over a finite set is an integer, and one element more adds its value.
LEMMA SumAdd ==
  ASSUME NEW S, IsFiniteSet(S), NEW f, \A x \in S : f[x] \in Int, NEW a, a \notin S, f[a] \in Int
  PROVE  SumOver(f, S \cup {a}) = f[a] + SumOver(f, S) /\ SumOver(f, S) \in Int
<1> DEFINE T == S \cup {a}
<1>1. IsFiniteSet(T) /\ \A x \in T : f[x] \in Int
  BY FS_AddElement
<1>2. PICK C : IsSumTable(C, f, T)
  <2> HIDE DEF T
  <2>1. QED
    BY <1>1, TableExists
<1>3. IsSumTable([U \in SUBSET S |-> C[U]], f, S)
  BY <1>2 DEF IsSumTable
<1>4. SumOver(f, S) = C[S]
  BY <1>3, SumIsTable
<1>5. SumOver(f, T) = C[T]
  <2> HIDE DEF T
  <2>1. QED
    BY <1>1, <1>2, SumIsTable
<1>6. C[T] = f[a] + C[S] /\ C[S] \in Int
  <2>1. T \ {a} = S /\ a \in T /\ T \in SUBSET T /\ S \in SUBSET T
    OBVIOUS
  <2> HIDE DEF T
  <2>2. QED
    BY <1>2, <2>1 DEF IsSumTable
<1>7. QED
  BY <1>4, <1>5, <1>6

LEMMA SumEmpty == ASSUME NEW f PROVE SumOver(f, {}) = 0
<1>1. IsSumTable([T \in SUBSET {} |-> 0], f, {})
  BY DEF IsSumTable
<1>2. QED
  BY <1>1, SumIsTable, FS_EmptySet

\* Only the values on the set matter.
LEMMA SumSame ==
  ASSUME NEW S, IsFiniteSet(S), NEW f, NEW h, \A x \in S : f[x] \in Int /\ h[x] = f[x]
  PROVE  SumOver(h, S) = SumOver(f, S)
<1>1. PICK C : IsSumTable(C, f, S)
  BY TableExists
<1>2. IsSumTable(C, h, S)
  BY <1>1 DEF IsSumTable
<1>3. QED
  BY <1>1, <1>2, SumIsTable

------------------------------------------------------------------------------
(***************************************************************************)
(* The pause records.                                                      *)
(***************************************************************************)

\* The time a pause that is over took from the round, with the countdown after it.
Lost(recs) == [i \in 1..Len(recs) |-> recs[i].resumedAt - recs[i].pausedAt + Countdown]

\* What the first n pauses took.
LostTime(recs, n) == SumOver(Lost(recs), 1..n)

\* The pauses that are over.
Resumed == IF paused THEN Len(records) - 1 ELSE Len(records)

\* Every record but that of the pause under way is complete, and the play time begins after
\* each.  Until the time is used up, the deadline lies after the first countdown by the
\* round's duration and what the pauses have taken; a pause keeps its distance to it.
RecordsInv ==
  /\ state = "Ready" => records = <<>>
  /\ \A i \in 1..Len(records) : records[i].pausedAt <= now
  /\ \A i \in 1..Resumed : /\ records[i].pausedAt <= records[i].resumedAt /\ records[i].resumedAt <= now
                           /\ ~paused => records[i].resumedAt + Countdown <= countdownEnds
  /\ paused => records # <<>> /\ records[Len(records)].resumedAt = -1
                              /\ (Run < Duration => remaining = deadline - records[Len(records)].pausedAt)
  /\ (Live \/ paused) /\ Run < Duration => deadline = began + Duration + LostTime(records, Resumed)

LEMMA LostTyped ==
  ASSUME ClockAssumption, NEW recs \in Seq(PauseRecord)
  PROVE  \A i \in 1..Len(recs) : Lost(recs)[i] \in Int /\ Lost(recs)[i] = recs[i].resumedAt - recs[i].pausedAt + Countdown
<1>1. \A i \in 1..Len(recs) : recs[i] \in PauseRecord
  OBVIOUS
<1>2. QED
  BY <1>1 DEF Lost, PauseRecord, ClockAssumption

\* What the first pauses took does not depend on later ones.
LEMMA LostOfPrefix ==
  ASSUME ClockAssumption, NEW recs \in Seq(PauseRecord), NEW more \in Seq(PauseRecord),
         NEW n \in Nat, n <= Len(recs), n <= Len(more), \A i \in 1..n : more[i] = recs[i]
  PROVE  LostTime(more, n) = LostTime(recs, n)
<1>1. \A i \in 1..n : Lost(recs)[i] \in Int /\ Lost(more)[i] = Lost(recs)[i]
  <2>1. ASSUME NEW i \in 1..n PROVE Lost(recs)[i] \in Int /\ Lost(more)[i] = Lost(recs)[i]
    <3>1. i \in 1..Len(recs) /\ i \in 1..Len(more) /\ more[i] = recs[i]
      OBVIOUS
    <3>2. QED
      BY <3>1, LostTyped
  <2>2. QED
    BY <2>1
<1>2. IsFiniteSet(1..n)
  BY FS_Interval
<1>3. QED
  BY <1>1, <1>2, SumSame DEF LostTime

LEMMA LostOfOneMore ==
  ASSUME ClockAssumption, NEW recs \in Seq(PauseRecord), NEW n \in Nat, n + 1 <= Len(recs)
  PROVE  /\ LostTime(recs, n + 1) = recs[n + 1].resumedAt - recs[n + 1].pausedAt + Countdown + LostTime(recs, n)
         /\ LostTime(recs, n) \in Int
<1>1. IsFiniteSet(1..n)
  BY FS_Interval
<1>2. n + 1 \notin 1..n /\ (1..n) \cup {n + 1} = 1..(n + 1)
  OBVIOUS
<1>3. /\ \A i \in 1..n : Lost(recs)[i] \in Int
      /\ Lost(recs)[n + 1] \in Int
      /\ Lost(recs)[n + 1] = recs[n + 1].resumedAt - recs[n + 1].pausedAt + Countdown
  BY LostTyped
<1>4. QED
  BY <1>1, <1>2, <1>3, SumAdd DEF LostTime

LEMMA NothingLost == ASSUME NEW recs PROVE LostTime(recs, 0) = 0
BY SumEmpty DEF LostTime

LEMMA LostInt ==
  ASSUME ClockAssumption, NEW recs \in Seq(PauseRecord), NEW n \in Nat, n <= Len(recs)
  PROVE  LostTime(recs, n) \in Int
<1>1. CASE n = 0
  BY <1>1, NothingLost
<1>2. CASE n # 0
  <2>1. n - 1 \in Nat /\ (n - 1) + 1 = n
    BY <1>2
  <2>2. /\ LostTime(recs, n) = recs[n].resumedAt - recs[n].pausedAt + Countdown + LostTime(recs, n - 1)
        /\ LostTime(recs, n - 1) \in Int
    BY <2>1, LostOfOneMore
  <2>3. recs[n] \in PauseRecord
    BY <1>2
  <2>4. QED
    BY <2>2, <2>3 DEF PauseRecord, ClockAssumption
<1>3. QED
  BY <1>1, <1>2

\* The numbers that the actions below compare.
LEMMA ClockNumbers ==
  ASSUME ClockAssumption, TypeOK
  PROVE  /\ now \in Nat /\ countdownEnds \in Nat /\ deadline \in Nat /\ began \in Nat /\ Run \in Nat
         /\ Duration \in Nat \ {0} /\ Countdown \in Nat \ {0} /\ Len(records) \in Nat
         /\ \A i \in 1..Len(records) :
              records[i] \in PauseRecord /\ records[i].pausedAt \in Nat /\ records[i].resumedAt \in Int
<1>1. \A i \in 1..Len(records) : records[i] \in PauseRecord
  BY DEF TypeOK
<1>2. QED
  BY <1>1 DEF TypeOK, ClockAssumption, Run, PauseRecord

\* A step that leaves the records and what they are compared with alone.
LEMMA RecordsAlone ==
  ASSUME RecordsInv, ClockInv, now <= now', now' \in Nat, now \in Nat,
         UNCHANGED <<records, paused, countdownEnds, deadline, remaining, began>>,
         Run' < Duration => Run < Duration, Live' => Live, state' # "Ready" \/ state = "Ready"
  PROVE  RecordsInv'
<1>1. \A i \in 1..Len(records) : records[i].pausedAt \in Int /\ records[i].resumedAt \in Int
  <2>1. \A i \in 1..Len(records) : records[i] \in PauseRecord
    BY DEF ClockInv, TypeOK
  <2>2. QED
    BY <2>1 DEF PauseRecord
<1>2. Resumed' = Resumed /\ Resumed <= Len(records) /\ Resumed \in Int
  BY DEF Resumed, ClockInv, TypeOK
<1>3. \A i \in 1..Len(records) : records[i].pausedAt <= now'
  BY <1>1 DEF RecordsInv
<1>4. \A i \in 1..Resumed : records[i].resumedAt <= now'
  BY <1>1, <1>2 DEF RecordsInv
<1>5. QED
  BY <1>2, <1>3, <1>4 DEF RecordsInv

\* A pause adds a record and stores how far the deadline is.
LEMMA PauseKeepsRecords ==
  ASSUME ClockAssumption, RecordsInv, ClockInv, Live, state = "RoundActive", StorePause,
         UNCHANGED <<now, state, countdownEnds, deadline, began, Run>>
  PROVE  RecordsInv'
<1> DEFINE n == Len(records)
           p == [pausedAt |-> now, resumedAt |-> -1]
<1>1. TypeOK /\ ~paused /\ Resumed = n /\ n \in Nat /\ now \in Nat /\ records \in Seq(PauseRecord)
  BY ClockNumbers DEF ClockInv, Live, Resumed, TypeOK
<1>2. p \in PauseRecord
  BY <1>1 DEF PauseRecord
<1>3. /\ records' = Append(records, p) /\ paused' = TRUE /\ records' \in Seq(PauseRecord)
      /\ Len(records') = n + 1 /\ records'[n + 1] = p /\ Resumed' = n
      /\ \A i \in 1..n : records'[i] = records[i]
  BY <1>1, <1>2 DEF StorePause, Resumed
<1>4. records' # <<>> /\ records'[Len(records')].resumedAt = -1 /\ records'[Len(records')].pausedAt = now
  BY <1>3
<1>5. LostTime(records', n) = LostTime(records, n)
  <2>1. n <= Len(records) /\ n <= Len(records')
    BY <1>1, <1>3
  <2> HIDE DEF n
  <2>2. QED
    BY <1>1, <1>3, <2>1, LostOfPrefix
<1>6. Run < Duration => remaining' = deadline - now /\ deadline = began + Duration + LostTime(records, n)
  <2>1. ASSUME Run < Duration PROVE now <= deadline
    BY <1>1, <2>1, ClockNumbers DEF ClockInv, DeadlineInv
  <2>2. QED
    BY <1>1, <2>1, ClockNumbers DEF StorePause, Left, AtLeastZero, RecordsInv
<1>7. \A i \in 1..n : records[i].pausedAt <= records[i].resumedAt /\ records[i].resumedAt <= now /\ records[i].pausedAt <= now
  BY <1>1 DEF RecordsInv
<1>8. \A i \in 1..(n + 1) : records'[i].pausedAt <= now'
  <2>1. ASSUME NEW i \in 1..(n + 1) PROVE records'[i].pausedAt <= now'
    <3>1. CASE i = n + 1
      BY <1>1, <1>3, <3>1
    <3>2. CASE i \in 1..n
      BY <1>3, <1>7, <3>2
    <3>3. QED
      BY <1>1, <3>1, <3>2
  <2>2. QED
    BY <2>1
<1> HIDE DEF n, p
<1>9. QED
  BY <1>1, <1>3, <1>4, <1>5, <1>6, <1>7, <1>8 DEF RecordsInv, ClockInv

\* A resume completes the last record and moves the deadline on by what it took.
LEMMA ResumeKeepsRecords ==
  ASSUME ClockAssumption, RecordsInv, ClockInv, Resume
  PROVE  RecordsInv'
<1> DEFINE n == Len(records)
           r == records[n]
           q == [r EXCEPT !.resumedAt = now]
<1>1. TypeOK /\ paused /\ records # <<>> /\ r.resumedAt = -1 /\ records \in Seq(PauseRecord) /\ Resumed = n - 1
  BY DEF Resume, RecordsInv, ClockInv, TypeOK, Resumed
<1>2. n \in Nat /\ n >= 1 /\ n \in 1..n /\ r \in PauseRecord /\ now \in Nat
  BY <1>1, ClockNumbers
<1>3. q \in PauseRecord /\ q.resumedAt = now /\ q.pausedAt = r.pausedAt
  BY <1>2 DEF PauseRecord
<1>4. records' = [records EXCEPT ![n] = q]
  BY <1>1 DEF Resume, RecordsResumed
<1>5. /\ records' \in Seq(PauseRecord) /\ Len(records') = n /\ records'[n] = q /\ records' # <<>>
      /\ \A i \in 1..(n - 1) : records'[i] = records[i]
  <2> HIDE DEF q
  <2>1. QED
    BY <1>1, <1>2, <1>3, <1>4
<1>6. /\ paused' = FALSE /\ state' = "Countdown" /\ countdownEnds' = now + Countdown /\ now' = now
      /\ deadline' = now + Countdown + (IF remaining = -1 THEN Duration ELSE remaining)
      /\ began' = began /\ Run' = Run /\ Resumed' = n
  BY <1>5 DEF Resume, DeadlineFor, Resumed, Run
<1>7. \A i \in 1..n : /\ records'[i].pausedAt <= records'[i].resumedAt /\ records'[i].resumedAt <= now
                      /\ records'[i].pausedAt <= now /\ records'[i].resumedAt + Countdown <= now + Countdown
  <2>1. ASSUME NEW i \in 1..(n - 1)
        PROVE  records'[i].pausedAt <= records'[i].resumedAt /\ records'[i].resumedAt <= now /\ records'[i].resumedAt \in Int
    BY <1>1, <1>2, <1>5, <2>1, ClockNumbers DEF RecordsInv
  <2>2. records'[n].pausedAt <= now /\ records'[n].resumedAt = now
    BY <1>2, <1>3, <1>5 DEF RecordsInv
  <2>3. \A i \in 1..n : records'[i].pausedAt \in Int
    <3>1. \A i \in 1..n : records'[i] \in PauseRecord
      <4> HIDE DEF n
      <4>1. QED
        BY <1>5
    <3>2. QED
      BY <3>1 DEF PauseRecord
  <2>4. QED
    BY <1>2, <2>1, <2>2, <2>3, ClockNumbers
<1>8. LostTime(records', n) = now - r.pausedAt + Countdown + LostTime(records, n - 1)
  <2>1. n - 1 \in Nat /\ (n - 1) + 1 = n
    BY <1>2
  <2>2. LostTime(records', n) = records'[n].resumedAt - records'[n].pausedAt + Countdown + LostTime(records', n - 1)
    <3> DEFINE m == n - 1
    <3>1. m \in Nat /\ m + 1 = n /\ m + 1 <= Len(records')
      BY <1>2, <1>5, <2>1
    <3> HIDE DEF m, n
    <3>2. LostTime(records', m + 1) = records'[m + 1].resumedAt - records'[m + 1].pausedAt + Countdown + LostTime(records', m)
      BY <1>5, <3>1, LostOfOneMore
    <3>3. QED
      BY <3>1, <3>2 DEF m
  <2>3. LostTime(records', n - 1) = LostTime(records, n - 1)
    <3> DEFINE m == n - 1
    <3>1. m \in Nat /\ m <= Len(records) /\ m <= Len(records') /\ \A i \in 1..m : records'[i] = records[i]
      BY <1>2, <1>5, <2>1
    <3> HIDE DEF m
    <3>2. LostTime(records', m) = LostTime(records, m)
      BY <1>1, <1>5, <3>1, LostOfPrefix
    <3>3. QED
      BY <3>2 DEF m
  <2>4. QED
    BY <1>3, <1>5, <2>2, <2>3
<1>9. Run < Duration => deadline' = began + Duration + LostTime(records', n)
  <2>1. SUFFICES ASSUME Run < Duration PROVE deadline' = began + Duration + LostTime(records', n)
    OBVIOUS
  <2>2. remaining = deadline - r.pausedAt /\ deadline = began + Duration + LostTime(records, n - 1)
    BY <1>1, <2>1 DEF RecordsInv
  <2>3. remaining \in Nat
    BY <1>1 DEF ClockInv
  <2>4. LostTime(records, n - 1) \in Int /\ r.pausedAt \in Int
    <3> DEFINE m == n - 1
    <3>1. m \in Nat /\ m <= Len(records)
      BY <1>2
    <3> HIDE DEF m
    <3>2. LostTime(records, m) \in Int
      BY <1>1, <3>1, LostInt
    <3>3. QED
      BY <1>2, <3>2 DEF m, PauseRecord
  <2>5. /\ deadline' = now + Countdown + remaining
        /\ now \in Int /\ Countdown \in Int /\ deadline \in Int /\ began \in Int /\ Duration \in Int
    BY <1>1, <1>6, <2>3, ClockNumbers
  <2> HIDE DEF n, r
  <2>6. QED
    BY <1>8, <2>2, <2>4, <2>5
<1> HIDE DEF n, r, q
<1>10. QED
  BY <1>1, <1>2, <1>5, <1>6, <1>7, <1>9 DEF RecordsInv

LEMMA RecordsStart == ASSUME ClockAssumption, Init PROVE RecordsInv
<1>1. records = <<>> /\ Len(records) = 0 /\ paused = FALSE /\ ~Live
  BY DEF Init, Live, LiveStages
<1>2. QED
  BY <1>1 DEF RecordsInv, Resumed

LEMMA RecordsStep ==
  ASSUME ClockAssumption, OnlyActive, ClockInv, RecordsInv, [Next]_vars
  PROVE  RecordsInv'
<1>1. TypeOK /\ now \in Nat /\ Run \in Nat /\ paused \in BOOLEAN
  BY ClockNumbers DEF ClockInv, TypeOK
<1>2. CASE Begin
  <2>1. records = <<>> /\ records' = <<>> /\ Len(records) = 0 /\ Len(records') = 0 /\ paused' = FALSE
    BY <1>2 DEF Begin, RecordsInv, ClockInv
  <2>2. LostTime(records', 0) = 0 /\ Resumed' = 0
    BY <2>1, NothingLost DEF Resumed
  <2>3. deadline' = began' + Duration /\ began' \in Nat /\ Duration \in Nat /\ state' = "Countdown"
    BY <1>1, <1>2, ClockNumbers DEF Begin, DeadlineFor
  <2>4. QED
    BY <2>1, <2>2, <2>3 DEF RecordsInv
<1>3. CASE Pause \/ (Recover /\ Live)
  <2>1. /\ Live /\ state = "RoundActive" /\ StorePause
        /\ UNCHANGED <<now, state, countdownEnds, deadline, began, Run>>
    BY <1>3 DEF Pause, Recover, OnlyActive, ClockInv, Run
  <2>2. QED
    BY <2>1, PauseKeepsRecords
<1>4. CASE Resume
  BY <1>4, ResumeKeepsRecords
<1>5. CASE GoActive \/ CloseRound \/ Lock \/ Crash \/ (Recover /\ ~Live) \/ UNCHANGED vars
  <2>1. UNCHANGED <<now, records, paused, countdownEnds, deadline, remaining, began, Run>>
    BY <1>5 DEF GoActive, CloseRound, Lock, Crash, Recover, vars, attempt, session, Run
  <2>2. (Live' => Live) /\ (state' # "Ready" \/ state = "Ready")
    BY <1>5 DEF GoActive, CloseRound, Lock, Crash, Recover, vars, attempt, session, Live, LiveStages
  <2>3. QED
    BY <1>1, <2>1, <2>2, RecordsAlone
<1>6. CASE Tick
  <2>1. /\ UNCHANGED <<state, paused, records, countdownEnds, deadline, remaining, began>>
        /\ now' = now + 1 /\ (Run' = Run \/ Run' = Run + 1)
    BY <1>1, <1>6 DEF Tick, attempt, session, Run, TypeOK
  <2>2. now <= now' /\ now' \in Nat /\ (Run' < Duration => Run < Duration)
    BY <1>1, <2>1, ClockNumbers
  <2>3. Live' => Live
    BY <2>1 DEF Live
  <2>4. QED
    BY <1>1, <2>1, <2>2, <2>3, RecordsAlone
<1>7. QED
  BY <1>2, <1>3, <1>4, <1>5, <1>6 DEF Next

\* The sum of the model, over what the records say now, is the time they took.
LEMMA DeadTimeIsLost ==
  ASSUME ClockAssumption, ClockInv, RecordsInv, InputOpen
  PROVE  ElapsedFromRecords(now) = AtLeastZero(now - began - LostTime(records, Len(records)))
<1> DEFINE S == DOMAIN records
           f == Lost(records)
           dead == [i \in S |-> DeadTime(records[i], now)]
           Sums(g) == g = [T \in SUBSET S |-> IF T = {} THEN 0
                             ELSE DeadTime(records[CHOOSE x \in T : TRUE], now) + g[T \ {CHOOSE x \in T : TRUE}]]
<1>1. TypeOK /\ Live /\ state = "RoundActive" /\ S = 1..Len(records) /\ countdownEnds <= now
  BY DEF ClockInv, InputOpen, Live, TypeOK
<1>2. ASSUME NEW i \in S PROVE DeadTime(records[i], now) = f[i] /\ f[i] \in Int
  <2>1. /\ records[i].pausedAt <= records[i].resumedAt /\ records[i].resumedAt <= now
        /\ records[i].resumedAt + Countdown <= countdownEnds
    BY <1>1, <1>2 DEF RecordsInv, Resumed, Live
  <2>2. records[i].pausedAt \in Nat /\ records[i].resumedAt \in Int /\ f[i] = records[i].resumedAt - records[i].pausedAt + Countdown
    BY <1>1, <1>2, ClockNumbers DEF Lost
  <2>3. records[i].resumedAt < now /\ records[i].resumedAt # -1 /\ now - records[i].resumedAt >= Countdown
    <3> HIDE DEF S, f, dead, Sums
    <3>1. \A p, r, c, e, n \in Int :
            0 <= p /\ p <= r /\ 0 < c /\ r + c <= e /\ e <= n => r < n /\ r # -1 /\ n - r >= c
      OBVIOUS
    <3>2. /\ records[i].pausedAt \in Int /\ records[i].resumedAt \in Int /\ 0 <= records[i].pausedAt
          /\ Countdown \in Int /\ 0 < Countdown /\ countdownEnds \in Int /\ now \in Int
      BY <1>1, <2>2, ClockNumbers DEF TypeOK
    <3>3. QED
      BY <1>1, <2>1, <3>1, <3>2
  <2> DEFINE a == records[i].pausedAt
             b == records[i].resumedAt
  <2>4. DeadTime(records[i], now) =
          AtLeastZero(Lesser(IF b = -1 THEN now ELSE b, now) - a)
            + (IF b # -1 /\ b < now THEN Lesser(Countdown, now - b) ELSE 0)
    BY DEF DeadTime
  <2>5. a \in Int /\ b \in Int /\ now \in Int /\ Countdown \in Int /\ f[i] = b - a + Countdown
    BY <1>1, <2>2, ClockNumbers
  <2> HIDE DEF a, b, f
  <2>6. QED
    BY <2>1, <2>3, <2>4, <2>5 DEF AtLeastZero, Lesser, a, b
<1>3. \A g : Sums(g) <=> IsFold(g, f, S)
  <2>1. ASSUME NEW T \in SUBSET S, T # {} PROVE (CHOOSE x \in T : TRUE) \in S
    BY <2>1
  <2>2. ASSUME NEW g, NEW T \in SUBSET S
        PROVE  (IF T = {} THEN 0 ELSE DeadTime(records[CHOOSE x \in T : TRUE], now) + g[T \ {CHOOSE x \in T : TRUE}])
               = (IF T = {} THEN 0 ELSE f[CHOOSE x \in T : TRUE] + g[T \ {CHOOSE x \in T : TRUE}])
    <3> HIDE DEF f, S
    <3>1. QED
      BY <1>2, <2>1
  <2> HIDE DEF f, S
  <2>3. QED
    BY <2>2 DEF IsFold
<1>4. (CHOOSE g : Sums(g)) = (CHOOSE g : IsFold(g, f, S))
  <2> HIDE DEF Sums, f, S
  <2>1. QED
    BY <1>3
<1>5. ElapsedFromRecords(now) = AtLeastZero(now - began - (CHOOSE g : Sums(g))[S])
  BY DEF ElapsedFromRecords, MapThenSumSet, MapThenFoldSet
<1>6. SumOver(f, S) = (CHOOSE g : IsFold(g, f, S))[S]
  BY DEF IsFold, SumOver, MapThenSumSet, MapThenFoldSet
<1>7. QED
  BY <1>1, <1>4, <1>5, <1>6 DEF LostTime

\* Whatever pauses, resumes and restarts come, all records but that of a pause under way are
\* complete, and what they took is how far the deadline has moved (pause and resume in
\* round-repo.ts, the recovery in rounds.service.ts).
THEOREM RecordsInvariant == ASSUME ClockAssumption, OnlyActive PROVE Spec => []RecordsInv
<1>1. Init => RecordsInv
  BY RecordsStart
<1>2. ClockInv /\ RecordsInv /\ [Next]_vars => RecordsInv'
  BY RecordsStep
<1>3. QED
  BY <1>1, <1>2, ClockInvariant, PTL DEF Spec

\* The deadline and the pause records tell the same story for every duration, any number of
\* pauses and restarts and however late the timers run: what timing.ts infers from the
\* deadline alone is what its tests add up from the records.
THEOREM RecordsAgreeThm == ASSUME ClockAssumption, OnlyActive PROVE Spec => []RecordsAgree
<1>1. ClockInv /\ RecordsInv => RecordsAgree
  <2>1. SUFFICES ASSUME ClockInv, RecordsInv, InputOpen, ActiveElapsed(now) < Duration
                 PROVE  ElapsedFromRecords(now) = ActiveElapsed(now)
    BY DEF RecordsAgree
  <2> DEFINE lost == LostTime(records, Len(records))
  <2>2. ActiveElapsed(now) = Run /\ TypeOK /\ Live
    BY <2>1, ElapsedIsRun DEF ClockInv, InputOpen
  <2>3. deadline = began + Duration + lost
    BY <2>1, <2>2 DEF RecordsInv, Resumed, Live
  <2>4. lost \in Int
    BY <2>2, ClockNumbers, LostInt DEF TypeOK
  <2>5. ElapsedFromRecords(now) = AtLeastZero(now - began - lost)
    BY <2>1, DeadTimeIsLost
  <2>6. ActiveElapsed(now) = AtLeastZero(Duration - (deadline - now))
    BY DEF ActiveElapsed
  <2> HIDE DEF lost
  <2>7. now - began - lost = Duration - (deadline - now)
    BY <2>2, <2>3, <2>4, ClockNumbers
  <2>8. QED
    BY <2>5, <2>6, <2>7
<1>2. QED
  BY <1>1, ClockInvariant, RecordsInvariant, PTL
==============================================================================
