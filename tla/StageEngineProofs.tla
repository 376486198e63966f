--------------------------- MODULE StageEngineProofs --------------------------
(***************************************************************************)
(* What the stage engine guarantees for every content, every bound and     *)
(* every combination of faults: its types, that the attempt on stage       *)
(* follows the session's cursor, that a round counts once, and that        *)
(* nothing is revealed before it is closed.                                *)
(***************************************************************************)
EXTENDS StageEngine, TLAPS

\* What appending a row does to the table.
LEMMA AppendFacts ==
  ASSUME NEW S, NEW s \in Seq(S), NEW e \in S
  PROVE  /\ Append(s, e) \in Seq(S)
         /\ Len(Append(s, e)) = Len(s) + 1
         /\ Append(s, e)[Len(s) + 1] = e
         /\ \A i \in 1..Len(s) : Append(s, e)[i] = s[i]
         /\ DOMAIN Append(s, e) = 1..Len(s) + 1
  OBVIOUS

LEMMA SeqIsFunction ==
  ASSUME NEW S, NEW s \in Seq(S)
  PROVE  s = [i \in 1..Len(s) |-> s[i]]
  OBVIOUS

LEMMA TailFacts ==
  ASSUME NEW S, NEW s \in Seq(S), s # <<>>
  PROVE  Head(s) \in S /\ Tail(s) \in Seq(S)
  OBVIOUS

\* A row that is created is a row of the table.
LEMMA CreateFacts ==
  ASSUME TypeOK, NEW k \in Kind, Create(k)
  PROVE  /\ attempts' \in Seq(Kind)
         /\ Len(attempts') = Len(attempts) + 1
         /\ DOMAIN attempts' = DOMAIN attempts \cup {NewAttempt}
         /\ NewAttempt \in 1..Len(attempts') /\ NewAttempt \notin DOMAIN attempts
         /\ attempts'[NewAttempt] = k
         /\ \A a \in DOMAIN attempts : attempts'[a] = attempts[a]
<1>1. attempts \in Seq(Kind) /\ attempts' = Append(attempts, k)
  BY DEF TypeOK, Create
<1>2. DOMAIN attempts = 1..Len(attempts) /\ Len(attempts) \in Nat
  BY <1>1
<1>3. QED
  BY <1>1, <1>2, AppendFacts DEF NewAttempt

\* The kinds of rows the engine creates.
LEMMA KindFacts ==
  ASSUME TypeOK
  PROVE  /\ \A r \in Nat, p \in BOOLEAN : RoundKind(r, p) \in Kind
         /\ TieKind \in Kind
         /\ \A a \in DOMAIN attempts : ReplayKind(a) \in Kind
<1>1. GameAt(gameIndex) \in Games
  BY EngineAssumption DEF TypeOK, GameAt, Games
<1>2. show \in Nat /\ \A a \in DOMAIN attempts : attempts[a] \in Kind
  BY DEF TypeOK
<1>3. QED
  BY <1>1, <1>2 DEF RoundKind, TieKind, ReplayKind, Kind

------------------------------------------------------------------------------
\* Types.

LEMMA TypeInit == Init => TypeOK
<1> SUFFICES ASSUME Init PROVE TypeOK
  OBVIOUS
<1>1. Len(GameOrder) \in Nat /\ Len(GameOrder) > 0
  BY EngineAssumption
<1>2. attempts = <<>> /\ <<>> \in Seq(Kind) /\ jobs = <<>> /\ <<>> \in Seq(Job)
  BY DEF Init
<1>3. Len(attempts) = 0 /\ gameIndex \in 0..Len(GameOrder) - 1
  BY <1>1, <1>2 DEF Init
<1>4. current \in 0..Len(attempts) /\ live \in 0..Len(attempts) /\ roundIndex \in Nat \cup {-1}
  BY <1>3 DEF Init
<1>5. attempts \in Seq(Kind) /\ jobs \in Seq(Job)
  BY <1>2
<1>6. QED
  BY <1>3, <1>4, <1>5 DEF Init, TypeOK, Stages

\* A step that creates a row and keeps everything else within its type.
LEMMA TypeCreate ==
  ASSUME TypeOK, NEW k \in Kind, Create(k),
         stage' \in Stages, paused' \in BOOLEAN, gameIndex' = gameIndex,
         roundIndex' \in Nat \cup {-1}, current' = NewAttempt, closedAt' = closedAt,
         closed' \subseteq DOMAIN attempts, revealed' = revealed, scored' = scored,
         voided' \subseteq DOMAIN attempts,
         timeLeft' \in BOOLEAN, live' \in {0, live, NewAttempt}, timers' \subseteq TimerNames,
         jobs' \in Seq(Job), late' = late, booting' = booting, crashes' = crashes, show' = show
  PROVE  TypeOK'
<1>1. /\ attempts' \in Seq(Kind) /\ Len(attempts') = Len(attempts) + 1
      /\ DOMAIN attempts' = DOMAIN attempts \cup {NewAttempt} /\ NewAttempt \in 1..Len(attempts')
  BY CreateFacts
<1>2. Len(attempts) \in Nat
  BY DEF TypeOK
<1>3. current' \in 0..Len(attempts') /\ live' \in 0..Len(attempts')
  BY <1>1, <1>2 DEF TypeOK, NewAttempt
<1>4. /\ closed' \subseteq DOMAIN attempts' /\ revealed' \subseteq DOMAIN attempts'
      /\ scored' \subseteq DOMAIN attempts' /\ voided' \subseteq DOMAIN attempts'
  BY <1>1 DEF TypeOK
<1>5. QED
  BY <1>1, <1>3, <1>4 DEF TypeOK

\* A host action, which creates at most one row, keeps the types.
LEMMA TypeHost == TypeOK /\ HostActions => TypeOK'
<1> SUFFICES ASSUME TypeOK, HostActions PROVE TypeOK'
  OBVIOUS
<1> USE EngineAssumption DEF TypeOK, Stages, LiveStages, TimerNames, table, runtime, process,
        ClearLive, ArmTimers
<1>1. CASE ShowInstructions
  <2>1. gameIndex' \in 0..Len(GameOrder) - 1
    BY <1>1 DEF ShowInstructions
  <2>2. show' \in Nat
    BY <1>1 DEF ShowInstructions
  <2>3. QED
    BY <1>1, <2>1, <2>2 DEF ShowInstructions
<1>2. CASE StartPractice
  <2>1. RoundKind(0, TRUE) \in Kind
    BY KindFacts
  <2>2. QED
    BY <1>2, <2>1, TypeCreate DEF StartPractice, Begin
<1>3. CASE StartGame
  <2>1. RoundKind(0, FALSE) \in Kind
    BY KindFacts
  <2>2. QED
    BY <1>3, <2>1, TypeCreate DEF StartGame
<1>4. CASE StartRound
  BY <1>4 DEF StartRound, Begin
<1>5. CASE Pause
  BY <1>5 DEF Pause, LeftAtPause
<1>6. CASE Resume
  BY <1>6 DEF Resume
<1>7. CASE Reveal
  BY <1>7 DEF Reveal
<1>8. CASE NextRound
  <2>1. NextRoundIndex \in Nat
    BY <1>8 DEF NextRoundIndex
  <2>2. RoundKind(NextRoundIndex, FALSE) \in Kind
    BY <2>1, KindFacts
  <2>3. QED
    BY <1>8, <2>1, <2>2, TypeCreate DEF NextRound
<1>9. CASE ShowGameResults
  BY <1>9 DEF ShowGameResults
<1>10. CASE NextGame
  BY <1>10 DEF NextGame
<1>11. CASE ShowFinalResults
  BY <1>11 DEF ShowFinalResults
<1>12. CASE VoidRound
  <2>1. current \in DOMAIN attempts
    BY <1>12 DEF VoidRound
  <2>2. PICK k \in Kind : Create(k)
    BY <1>12, <2>1, KindFacts DEF VoidRound
  <2>3. QED
    BY <1>12, <2>1, <2>2, TypeCreate DEF VoidRound, StageOfReplay
<1>13. CASE StartTiebreak
  BY <1>13, KindFacts, TypeCreate DEF StartTiebreak
<1>14. CASE CloseSession
  BY <1>14 DEF CloseSession
<1>15. QED
  BY <1>1, <1>2, <1>3, <1>4, <1>5, <1>6, <1>7, <1>8, <1>9, <1>10, <1>11, <1>12, <1>13, <1>14 DEF HostActions
\* What the rest of the system does keeps the types: queued jobs, timers,
\* inputs, restarts.
LEMMA TypeRest ==
  TypeOK /\ (RestClose \/ Timers \/ Inputs \/ Jobs \/ RecoverScan \/ Crash \/ Torn) => TypeOK'
<1> SUFFICES ASSUME TypeOK, RestClose \/ Timers \/ Inputs \/ Jobs \/ RecoverScan \/ Crash \/ Torn
             PROVE  TypeOK'
  OBVIOUS
<1>0. ASSUME NEW kind \in {"active", "close", "recover"}, NEW a \in Nat,
             jobs' = Append(jobs, [kind |-> kind, attempt |-> a])
      PROVE  jobs' \in Seq(Job)
  BY <1>0, AppendFacts DEF Job, TypeOK
<1>1. Len(attempts) \in Nat /\ current \in Nat /\ live \in Nat /\ (current # 0 => current \in DOMAIN attempts)
  BY DEF TypeOK
<1>2. jobs # <<>> => Head(jobs) \in Job /\ Tail(jobs) \in Seq(Job)
  BY TailFacts DEF TypeOK
<1>3. CASE RestClose
  BY <1>3 DEF RestClose, TypeOK, Stages, table, runtime, process
<1>4. CASE FireCountdown
  BY <1>0, <1>1, <1>4 DEF FireCountdown, Enqueue, TypeOK, row, table
<1>5. CASE FireDeadline
  BY <1>0, <1>1, <1>5 DEF FireDeadline, Enqueue, TypeOK, row, table
<1>6. CASE InputPasses
  BY <1>1, <1>6 DEF InputPasses, TypeOK, row, table, runtime
<1>7. CASE InputCloses
  <2>1. PICK a \in late \cup (IF InputOpen THEN {current} ELSE {}) : Enqueue("close", a) /\ late' = late \ {a}
    BY <1>7 DEF InputCloses
  <2>2. a \in Nat
    BY <1>1 DEF TypeOK
  <2>3. jobs' \in Seq(Job)
    BY <1>0, <2>1, <2>2 DEF Enqueue
  <2>4. QED
    BY <1>7, <2>1, <2>3 DEF InputCloses, TypeOK, row, table, runtime
<1>8. CASE RunActive
  BY <1>2, <1>8 DEF RunActive, Next1, TypeOK, Stages, table, runtime
<1>9. CASE RunClose
  <2>1. closed' \subseteq DOMAIN attempts /\ stage' \in Stages /\ timers' \subseteq TimerNames
    BY <1>1, <1>9 DEF RunClose, Closable, OnStage, TypeOK, Stages, LiveStages
  <2>2. jobs' \in Seq(Job)
    BY <1>2, <1>9 DEF RunClose, Next1
  <2>3. QED
    BY <1>9, <2>1, <2>2 DEF RunClose, TypeOK
<1>10. CASE RunRecover
  <2>1. jobs' \in Seq(Job)
    BY <1>2, <1>10 DEF RunRecover, Next1
  <2> DEFINE a == Head(jobs).attempt
  <2>2. CASE Recoverable(a) /\ IsRace(a) /\ RecoverRace(a)
    <3>1. a = current /\ a \in DOMAIN attempts
      BY <1>1, <2>2 DEF Recoverable, OnStage, RecoverRace, IsRace
    <3>2. ReplayKind(a) \in Kind
      BY <3>1, KindFacts
    <3>3. StageOfReplay(a) \in Stages
      BY DEF StageOfReplay, Stages
    <3>4. closed' \subseteq DOMAIN attempts /\ voided' \subseteq DOMAIN attempts
      BY <2>2, <3>1 DEF RecoverRace, TypeOK
    <3>5. QED
      BY <1>10, <2>1, <2>2, <3>2, <3>3, <3>4, TypeCreate DEF RunRecover, RecoverRace, ClearLive, TypeOK
  <2>3. CASE Recoverable(a) /\ ~IsRace(a) /\ ~paused /\ RecoverByPause
    BY <1>10, <2>1, <2>3 DEF RunRecover, RecoverByPause, LeftAtRestart, TypeOK, runtime
  <2>4. CASE UNCHANGED <<closed, voided, attempts, stage, paused, current, timeLeft, runtime>>
    BY <1>10, <2>1, <2>4 DEF RunRecover, TypeOK, runtime
  <2>5. QED
    BY <1>10, <2>2, <2>3, <2>4 DEF RunRecover
<1>11. CASE RecoverScan
  BY <1>0, <1>1, <1>11 DEF RecoverScan, TypeOK, row, table, runtime
<1>12. CASE Crash
  BY <1>12 DEF Crash, Restart, ClearLive, TypeOK, row, table
<1>13. CASE TornVoid
  BY <1>1, <1>13 DEF TornVoid, Restart, ClearLive, TypeOK, row
<1>14. CASE TornReveal
  BY <1>1, <1>14 DEF TornReveal, Restart, ClearLive, TypeOK, row
<1>15. CASE TornClose
  BY <1>1, <1>15 DEF TornClose, Closable, OnStage, Restart, ClearLive, TypeOK, row
<1>16. CASE TornRecover
  BY <1>1, <1>16 DEF TornRecover, Recoverable, OnStage, Restart, ClearLive, TypeOK, row
<1>17. QED
  BY <1>3, <1>4, <1>5, <1>6, <1>7, <1>8, <1>9, <1>10, <1>11, <1>12, <1>13, <1>14, <1>15, <1>16
     DEF Timers, Inputs, Jobs, Torn

LEMMA TypeStep == TypeOK /\ [Next]_vars => TypeOK'
<1>1. TypeOK /\ UNCHANGED vars => TypeOK'
  BY DEF vars, row, table, runtime, process, TypeOK
<1>2. QED
  BY <1>1, TypeHost, TypeRest DEF Next

\* Every reachable state of the engine is of the declared types, whatever the
\* content, the bounds and the faults.
THEOREM EngineTypes == Spec => []TypeOK
  BY TypeInit, TypeStep, PTL DEF Spec

------------------------------------------------------------------------------
\* The cursor and the count.

\* The fields of a row.
LEMMA RowFacts ==
  ASSUME TypeOK, NEW a \in DOMAIN attempts
  PROVE  /\ attempts[a] \in Kind
         /\ attempts[a].show \in Nat /\ attempts[a].round \in Nat
         /\ attempts[a].practice \in BOOLEAN /\ attempts[a].tie \in BOOLEAN
<1>1. attempts[a] \in Kind
  BY DEF TypeOK
<1>2. QED
  BY <1>1 DEF Kind

LEMMA InvInit == Init => EngineInv
  BY DEF Init, EngineInv, CursorInv, CountInv, CountedOnce, RoundStages, LiveStages

\* A step that keeps the rows, what counts, the cursor and the attempt on
\* stage can only break the part of the invariant that speaks of the stage.
LEMMA KeepInv ==
  ASSUME TypeOK, EngineInv,
         UNCHANGED <<attempts, gameIndex, roundIndex, current, show>>,
         revealed' \ voided' \subseteq revealed \ voided,
         stage' \in RoundStages => current # 0,
         stage' \in {"Lobby", "Instructions"} => roundIndex = -1
  PROVE  EngineInv'
<1>1. \A a : IsScored(a)' = IsScored(a)
  BY DEF IsScored
<1>2. \A a : Counts(a)' => Counts(a)
  BY <1>1 DEF Counts
<1>3. CursorInv'
  BY <1>1 DEF EngineInv, CursorInv, GameAt
<1>4. CountInv'
  BY <1>1, <1>2 DEF EngineInv, CountInv
<1>5. CountedOnce'
  BY <1>2 DEF EngineInv, CountedOnce
<1>6. QED
  BY <1>3, <1>4, <1>5 DEF EngineInv

\* So does a step that takes the attempt off the stage and keeps the cursor.
LEMMA LeaveInv ==
  ASSUME TypeOK, EngineInv,
         UNCHANGED <<attempts, roundIndex, show>>, current' = 0,
         revealed' = revealed, voided' = voided,
         stage' \notin RoundStages,
         stage' \in {"Lobby", "Instructions"} => roundIndex = -1
  PROVE  EngineInv'
<1>1. \A a : IsScored(a)' = IsScored(a) /\ Counts(a)' = Counts(a)
  BY DEF IsScored, Counts
<1>2. CursorInv'
  BY DEF EngineInv, CursorInv
<1>3. CountInv'
  BY <1>1 DEF EngineInv, CountInv
<1>4. CountedOnce'
  BY <1>1 DEF EngineInv, CountedOnce
<1>5. QED
  BY <1>2, <1>3, <1>4 DEF EngineInv

\* A new showing of a game starts with nothing that counts in it.
LEMMA NewShowInv ==
  ASSUME TypeOK, EngineInv, UNCHANGED attempts, current' = 0, show' = show + 1,
         roundIndex' = -1, revealed' = revealed, voided' = voided,
         stage' = "Instructions"
  PROVE  EngineInv'
<1>1. \A a : IsScored(a)' = IsScored(a) /\ Counts(a)' = Counts(a)
  BY DEF IsScored, Counts
<1>2. \A a \in DOMAIN attempts : attempts[a].show \in Nat /\ attempts[a].show < show + 1
  BY RowFacts DEF TypeOK, EngineInv, CountInv
<1>3. CursorInv'
  BY DEF CursorInv, RoundStages, LiveStages
<1>4. CountInv'
  BY <1>1, <1>2 DEF CountInv, TypeOK
<1>5. CountedOnce'
  BY <1>1 DEF EngineInv, CountedOnce
<1>6. QED
  BY <1>3, <1>4, <1>5 DEF EngineInv

\* A step that puts a new attempt of kind k on stage: a scored one must be of
\* the game and round the cursor points at, above all that stays counted.
LEMMA CreateInv ==
  ASSUME TypeOK, EngineInv, NEW k \in Kind, Create(k), NEW n, n = NewAttempt, current' = n,
         k.show = show, UNCHANGED <<gameIndex, show>>,
         revealed' = revealed, voided \subseteq voided',
         roundIndex' \in Nat \cup {-1}, roundIndex <= roundIndex',
         k.practice => roundIndex' = -1,
         ~k.practice /\ ~k.tie =>
           /\ k.game = GameAt(gameIndex) /\ k.round = roundIndex'
           /\ \A a \in DOMAIN attempts :
                Counts(a) /\ a \notin voided' /\ attempts[a].show = show
                  => attempts[a].round < roundIndex',
         stage' \in {"Lobby", "Instructions"} => roundIndex' = -1
  PROVE  EngineInv'
<1>1. /\ DOMAIN attempts' = DOMAIN attempts \cup {n}
      /\ n \in 1..Len(attempts') /\ n \notin DOMAIN attempts
      /\ attempts'[n] = k
      /\ \A a \in DOMAIN attempts : attempts'[a] = attempts[a]
  BY CreateFacts
<1>2. n \notin revealed /\ revealed \subseteq DOMAIN attempts /\ n # 0
  BY <1>1 DEF TypeOK
<1>3. \A a : Counts(a)' => a \in DOMAIN attempts /\ Counts(a) /\ a \notin voided'
  BY <1>1, <1>2 DEF Counts, IsScored
<1>4. IsScored(n)' = (~k.practice /\ ~k.tie)
  BY <1>1 DEF IsScored
<1>5. CursorInv'
  BY <1>1, <1>2, <1>4 DEF CursorInv, GameAt
<1>6. CountInv'
  <2>1. \A a \in DOMAIN attempts' : attempts'[a].show <= show
    BY <1>1 DEF EngineInv, CountInv, TypeOK
  <2>2. ASSUME NEW a \in DOMAIN attempts', Counts(a)', attempts'[a].show = show
        PROVE  /\ attempts'[a].round <= roundIndex'
               /\ IsScored(n)' => attempts'[a].round < roundIndex'
    <3>1. a \in DOMAIN attempts /\ Counts(a) /\ a \notin voided' /\ attempts'[a] = attempts[a]
      BY <1>1, <1>3, <2>2
    <3>2. attempts[a].round \in Nat /\ roundIndex \in Int /\ roundIndex' \in Int
      BY <3>1, RowFacts DEF TypeOK
    <3>3. attempts[a].round <= roundIndex
      BY <2>2, <3>1 DEF EngineInv, CountInv
    <3>4. attempts'[a].round <= roundIndex'
      BY <3>1, <3>2, <3>3
    <3>5. ASSUME IsScored(n)' PROVE attempts'[a].round < roundIndex'
      <4>1. ~k.practice /\ ~k.tie
        BY <1>4, <3>5
      <4>2. attempts[a].show = show
        BY <2>2, <3>1
      <4>3. QED
        BY <3>1, <4>1, <4>2
    <3>6. QED
      BY <3>4, <3>5
  <2>3. QED
    BY <2>1, <2>2 DEF CountInv
<1>7. CountedOnce'
  BY <1>1, <1>3 DEF EngineInv, CountedOnce
<1>8. QED
  BY <1>5, <1>6, <1>7 DEF EngineInv

\* Revealing the attempt on stage: if it is a scored one it is the only one of
\* its round, for everything that already counts lies below the cursor.
LEMMA RevealInv ==
  ASSUME TypeOK, EngineInv, current # 0,
         UNCHANGED <<attempts, gameIndex, roundIndex, current, show, voided>>,
         revealed' = revealed \cup {current},
         stage' \notin {"Lobby", "Instructions"}
  PROVE  EngineInv'
<1>1. \A a : IsScored(a)' = IsScored(a)
  BY DEF IsScored
<1>2. \A a : Counts(a)' => Counts(a) \/ (a = current /\ IsScored(current))
  BY <1>1 DEF Counts
<1>3. current \in DOMAIN attempts
  BY DEF TypeOK
<1>4. CursorInv'
  BY <1>1 DEF EngineInv, CursorInv, GameAt
<1>5. IsScored(current) => attempts[current].round = roundIndex /\ attempts[current].show = show
  BY DEF EngineInv, CursorInv
<1>6. roundIndex \in Int /\ \A a \in DOMAIN attempts : attempts[a].round \in Int
  BY RowFacts DEF TypeOK
<1>7. CountInv'
  BY <1>1, <1>2, <1>5, <1>6 DEF EngineInv, CountInv
<1>8. CountedOnce'
  <2>1. ASSUME NEW b \in DOMAIN attempts, Counts(b), IsScored(current), b # current,
               attempts[b].show = attempts[current].show
        PROVE  attempts[b].round # attempts[current].round
    <3>1. attempts[b].round < roundIndex
      BY <1>5, <2>1 DEF EngineInv, CountInv
    <3>2. QED
      BY <1>5, <1>6, <2>1, <3>1
  <2>2. QED
    BY <1>2, <2>1 DEF EngineInv, CountedOnce
<1>9. QED
  BY <1>4, <1>7, <1>8 DEF EngineInv

\* The replay of the attempt on stage, voided by the host or by recovery.
LEMMA ReplayInv ==
  ASSUME TypeOK, EngineInv, current # 0, NEW k,
         \/ k = ReplayKind(current)
         \/ attempts[current].tie /\ k = TieKind,
         Create(k), current' = NewAttempt, voided' = voided \cup {current},
         revealed' = revealed, UNCHANGED <<gameIndex, roundIndex, show>>,
         stage' = StageOfReplay(current)
  PROVE  EngineInv'
<1>1. current \in DOMAIN attempts /\ attempts[current] \in Kind /\ k \in Kind
  BY KindFacts, RowFacts DEF TypeOK
<1>2. k.show = show /\ (k.tie => ~k.practice \/ attempts[current].practice)
  BY <1>1 DEF ReplayKind, TieKind, Kind
<1>3. k.practice => roundIndex = -1
  BY <1>1 DEF ReplayKind, TieKind, Kind, EngineInv, CursorInv
<1>4. ~k.practice /\ ~k.tie =>
        /\ IsScored(current) /\ k.game = attempts[current].game
        /\ k.round = attempts[current].round
  BY <1>1 DEF ReplayKind, TieKind, Kind, IsScored
<1>5. ~k.practice /\ ~k.tie =>
        /\ k.game = GameAt(gameIndex) /\ k.round = roundIndex
        /\ \A a \in DOMAIN attempts :
             Counts(a) /\ a \notin voided' /\ attempts[a].show = show => attempts[a].round < roundIndex
  BY <1>4 DEF EngineInv, CursorInv, CountInv
<1>6. stage' \in {"Lobby", "Instructions"} => roundIndex = -1
  BY DEF StageOfReplay, EngineInv, CursorInv
<1>7. roundIndex \in Nat \cup {-1} /\ roundIndex <= roundIndex
  BY DEF TypeOK
<1>8. QED
  BY <1>1, <1>2, <1>3, <1>5, <1>6, <1>7, CreateInv

LEMMA InvHost == TypeOK /\ EngineInv /\ HostActions => EngineInv'
<1> SUFFICES ASSUME TypeOK, EngineInv, HostActions PROVE EngineInv'
  OBVIOUS
<1>0. roundIndex \in Nat \cup {-1} /\ (current # 0 => current \in DOMAIN attempts)
  BY DEF TypeOK
<1> USE DEF table, runtime, process, RoundStages, LiveStages
<1>1. CASE ShowInstructions
  <2>1. CASE stage = "GameResults"
    BY <1>1, <2>1, NewShowInv DEF ShowInstructions
  <2>2. CASE stage # "GameResults"
    <3>1. roundIndex = -1
      BY <1>1, <2>2 DEF ShowInstructions, CanTransition, ALLOWED, EngineInv, CursorInv
    <3>2. QED
      BY <1>1, <2>2, <3>1, LeaveInv DEF ShowInstructions
  <2>3. QED
    BY <2>1, <2>2
<1>2. CASE StartPractice
  <2>1. roundIndex = -1
    BY <1>2 DEF StartPractice, CanTransition, ALLOWED, EngineInv, CursorInv
  <2> DEFINE k == RoundKind(0, TRUE)
  <2>2. k \in Kind /\ k.show = show /\ k.practice
    BY KindFacts DEF RoundKind
  <2>3. Create(k) /\ current' = NewAttempt /\ stage' = "Countdown"
    BY <1>2 DEF StartPractice, Begin
  <2> HIDE DEF k
  <2>4. QED
    BY <1>0, <1>2, <2>1, <2>2, <2>3, CreateInv DEF StartPractice
<1>3. CASE StartGame
  <2>1. roundIndex = -1
    BY <1>3 DEF StartGame, StartGameAccepted, CanTransition, ALLOWED, EngineInv, CursorInv
  <2> DEFINE k == RoundKind(0, FALSE)
  <2>2. k \in Kind /\ k.show = show /\ ~k.practice /\ k.game = GameAt(gameIndex) /\ k.round = 0
    BY KindFacts DEF RoundKind
  <2>3. Create(k) /\ current' = NewAttempt /\ stage' = "Ready" /\ roundIndex' = 0
    BY <1>3 DEF StartGame
  <2>4. \A a \in DOMAIN attempts : Counts(a) /\ attempts[a].show = show => attempts[a].round < 0
    BY <2>1, RowFacts DEF EngineInv, CountInv
  <2> HIDE DEF k
  <2>5. QED
    BY <1>3, <2>1, <2>2, <2>3, <2>4, CreateInv DEF StartGame
<1>4. CASE StartRound
  BY <1>4, KeepInv DEF StartRound, Begin
<1>5. CASE Pause
  BY <1>5, KeepInv DEF Pause, EngineInv, CursorInv
<1>6. CASE Resume
  BY <1>6, KeepInv DEF Resume
<1>7. CASE Reveal
  BY <1>7, RevealInv DEF Reveal
<1>8. CASE NextRound
  <2>1. roundIndex <= NextRoundIndex /\ NextRoundIndex \in Nat
    BY <1>0, <1>8 DEF NextRound, CanTransition, ALLOWED, NextRoundIndex, EngineInv, CursorInv
  <2> DEFINE k == RoundKind(NextRoundIndex, FALSE)
  <2>2. k \in Kind /\ k.show = show /\ ~k.practice /\ k.game = GameAt(gameIndex) /\ k.round = NextRoundIndex
    BY <2>1, KindFacts DEF RoundKind
  <2>3. Create(k) /\ current' = NewAttempt /\ stage' = "Ready" /\ roundIndex' = NextRoundIndex
    BY <1>8 DEF NextRound
  <2>4. NextRoundIndex = roundIndex + 1
    BY <1>0, <1>8 DEF NextRound, CanTransition, ALLOWED, NextRoundIndex, EngineInv, CursorInv
  <2>5. \A a \in DOMAIN attempts :
          Counts(a) /\ attempts[a].show = show => attempts[a].round < NextRoundIndex
    BY <1>0, <2>4, RowFacts DEF EngineInv, CountInv
  <2> HIDE DEF k
  <2>6. roundIndex' \in Nat \cup {-1} /\ roundIndex <= roundIndex'
    BY <2>1, <2>3
  <2>7. QED
    BY <1>8, <2>2, <2>3, <2>5, <2>6, CreateInv DEF NextRound
<1>9. CASE ShowGameResults
  BY <1>9, LeaveInv DEF ShowGameResults
<1>10. CASE NextGame
  BY <1>10, NewShowInv DEF NextGame
<1>11. CASE ShowFinalResults
  BY <1>11, LeaveInv DEF ShowFinalResults
<1>12. CASE VoidRound
  BY <1>12, ReplayInv DEF VoidRound
<1>13. CASE StartTiebreak
  <2>1. TieKind \in Kind /\ TieKind.show = show /\ ~TieKind.practice /\ TieKind.tie
    BY KindFacts DEF TieKind
  <2>2. roundIndex \in Nat \cup {-1} /\ roundIndex <= roundIndex
    BY <1>0
  <2>3. QED
    BY <1>13, <2>1, <2>2, CreateInv DEF StartTiebreak
<1>14. CASE CloseSession
  BY <1>14, KeepInv DEF CloseSession
<1>15. QED
  BY <1>1, <1>2, <1>3, <1>4, <1>5, <1>6, <1>7, <1>8, <1>9, <1>10, <1>11, <1>12, <1>13, <1>14 DEF HostActions

LEMMA InvRest ==
  TypeOK /\ EngineInv /\ (RestClose \/ Timers \/ Inputs \/ Jobs \/ RecoverScan \/ Crash \/ Torn)
    => EngineInv'
<1> SUFFICES ASSUME TypeOK, EngineInv,
                    RestClose \/ Timers \/ Inputs \/ Jobs \/ RecoverScan \/ Crash \/ Torn
             PROVE  EngineInv'
  OBVIOUS
<1>0. /\ stage \in RoundStages => current # 0
      /\ stage \in {"Lobby", "Instructions"} => roundIndex = -1
  BY DEF EngineInv, CursorInv
<1> USE DEF row, table, runtime, process
<1>1. CASE RestClose
  BY <1>1, KeepInv DEF RestClose, RoundStages, LiveStages
<1>2. CASE Timers \/ Inputs \/ RecoverScan \/ Crash
  <2>1. UNCHANGED <<row, table>>
    BY <1>2 DEF Timers, FireCountdown, FireDeadline, Inputs, InputPasses, InputCloses, RecoverScan, Crash
  <2>2. QED
    BY <1>0, <2>1, KeepInv
<1>3. CASE RunActive
  BY <1>0, <1>3, KeepInv DEF RunActive, GoesActive, OnStage, RoundStages, LiveStages
<1>4. CASE RunClose
  BY <1>0, <1>4, KeepInv DEF RunClose, Closable, OnStage, RoundStages, LiveStages
<1>5. CASE RunRecover
  <2> DEFINE a == Head(jobs).attempt
  <2>1. CASE Recoverable(a) /\ IsRace(a) /\ RecoverRace(a)
    BY <1>5, <2>1, ReplayInv DEF RunRecover, RecoverRace, Recoverable, OnStage
  <2>2. CASE ~(Recoverable(a) /\ IsRace(a) /\ RecoverRace(a))
    <3>1. UNCHANGED <<voided, attempts, stage, current, gameIndex, roundIndex, show, revealed>>
      BY <1>5, <2>2 DEF RunRecover, RecoverByPause
    <3>2. QED
      BY <1>0, <3>1, KeepInv
  <2>3. QED
    BY <2>1, <2>2
<1>6. CASE TornVoid \/ TornClose \/ TornRecover
  <2>1. UNCHANGED <<row, attempts, revealed>> /\ voided \subseteq voided'
    BY <1>6 DEF TornVoid, TornClose, TornRecover
  <2>2. QED
    BY <1>0, <2>1, KeepInv
<1>7. CASE TornReveal
  BY <1>7, RevealInv DEF TornReveal, CanTransition, ALLOWED
<1>8. QED
  BY <1>1, <1>2, <1>3, <1>4, <1>5, <1>6, <1>7 DEF Jobs, Torn

LEMMA InvStep == TypeOK /\ EngineInv /\ [Next]_vars => EngineInv'
<1>1. TypeOK /\ EngineInv /\ UNCHANGED vars => EngineInv'
  BY KeepInv DEF vars, row, table, EngineInv, CursorInv
<1>2. QED
  BY <1>1, InvHost, InvRest DEF Next

\* The inductive invariant of the cursor and the count.
THEOREM EngineInvariant == Spec => []EngineInv
  BY InvInit, InvStep, EngineTypes, PTL DEF Spec

\* No round of a game counts twice, however host actions, timers, restarts
\* and half-done jobs interleave.
THEOREM CountedOnceThm == Spec => []CountedOnce
<1>1. EngineInv => CountedOnce
  BY DEF EngineInv
<1>2. QED
  BY <1>1, EngineInvariant, PTL

\* The attempt on stage is always the one of the session's game and round.
THEOREM CurrentFollowsCursorThm == Spec => []CurrentFollowsCursor
<1>1. EngineInv => CurrentFollowsCursor
  BY DEF EngineInv, CursorInv, CurrentFollowsCursor
<1>2. QED
  BY <1>1, EngineInvariant, PTL

------------------------------------------------------------------------------
\* Nothing is revealed before it is closed.

LEMMA LockedStep ==
  TypeOK /\ LockedAreClosed /\ RevealedAreClosed /\ [Next]_vars
    => LockedAreClosed' /\ RevealedAreClosed'
<1> SUFFICES ASSUME TypeOK, LockedAreClosed, RevealedAreClosed, [Next]_vars
             PROVE  LockedAreClosed' /\ RevealedAreClosed'
  OBVIOUS
<1> USE DEF LockedAreClosed, RevealedAreClosed, row, table, runtime, process
<1>1. CASE HostActions
  <2>1. closed' = closed
    BY <1>1 DEF HostActions, ShowInstructions, StartPractice, StartGame, StartRound, Pause, Resume, Reveal,
       NextRound, ShowGameResults, NextGame, ShowFinalResults, VoidRound, StartTiebreak, CloseSession
  <2>2. stage' # "InputLocked" \/ UNCHANGED <<stage, current>>
    BY <1>1 DEF HostActions, ShowInstructions, StartPractice, StartGame, StartRound, Begin, Pause, Resume,
       Reveal, NextRound, ShowGameResults, NextGame, ShowFinalResults, VoidRound, StageOfReplay,
       StartTiebreak, CloseSession
  <2>3. revealed' = revealed \/ (stage = "InputLocked" /\ revealed' = revealed \cup {current})
    BY <1>1 DEF HostActions, ShowInstructions, StartPractice, StartGame, StartRound, Pause, Resume, Reveal,
       NextRound, ShowGameResults, NextGame, ShowFinalResults, VoidRound, StartTiebreak, CloseSession,
       CanTransition, ALLOWED
  <2>4. QED
    BY <2>1, <2>2, <2>3
<1>2. CASE RestClose
  BY <1>2 DEF RestClose
<1>3. CASE Timers \/ Inputs \/ RecoverScan \/ Crash
  BY <1>3 DEF Timers, FireCountdown, FireDeadline, Inputs, InputPasses, InputCloses, RecoverScan, Crash
<1>4. CASE RunActive
  BY <1>4 DEF RunActive
<1>5. CASE RunClose
  BY <1>5 DEF RunClose, Closable, OnStage
<1>6. CASE RunRecover
  BY <1>6 DEF RunRecover, RecoverRace, RecoverByPause, StageOfReplay
<1>7. CASE Torn
  BY <1>7 DEF Torn, TornVoid, TornReveal, TornClose, TornRecover, CanTransition, ALLOWED
<1>8. CASE UNCHANGED vars
  BY <1>8 DEF vars
<1>9. QED
  BY <1>1, <1>2, <1>3, <1>4, <1>5, <1>6, <1>7, <1>8 DEF Next, Jobs

\* An attempt whose answer is on the screens had been closed before, also
\* when the process died half-way through closing or revealing.
THEOREM RevealedAreClosedThm == Spec => []RevealedAreClosed
<1>1. Init => LockedAreClosed /\ RevealedAreClosed
  BY DEF Init, LockedAreClosed, RevealedAreClosed
<1>2. QED
  BY <1>1, LockedStep, EngineTypes, PTL DEF Spec

------------------------------------------------------------------------------
\* The engine implements AttemptLifecycle, as long as no job is torn, the session
\* is closed by the host's action and not over REST, play time is left at a pause
\* and the queue is served within a countdown: the faults of the run that checks
\* it.  (Each of the others breaks it, which README.md describes.)

\* A countdown that is armed, and a countdown's job that waits, belong to a round
\* that is live or to an attempt that is not on stage any more; nothing is queued
\* before such a job.
CountdownInv ==
  /\ timeLeft
  /\ "countdown" \in timers => live = current /\ stage \in LiveStages
  /\ \A a \in late : a \in 0..Len(attempts)
  /\ \A i \in DOMAIN jobs :
       /\ jobs[i].attempt \in 0..Len(attempts)
       /\ jobs[i].kind = "active" /\ jobs[i].attempt = current /\ current # 0 =>
            i = 1 /\ stage \in LiveStages

\* Where the attempt on stage stands: fresh until it is live, without scores until
\* it is closed, closed from then on.
FreshInv ==
  /\ stage = "Ready" => current \notin closed \cup scored \cup voided
  /\ stage \in LiveStages => current \notin scored \cup voided
  /\ LockedAreClosed /\ RevealedAreClosed
  /\ stage = "Reveal" => current \in closed
  /\ current \notin voided

StageInv == CountdownInv /\ FreshInv

Orderly == Faults \subseteq {"late_input"}

LEMMA StageInit == Init => StageInv
<1> SUFFICES ASSUME Init PROVE StageInv
  OBVIOUS
<1>1. DOMAIN jobs = {}
  BY DEF Init
<1>2. QED
  BY <1>1 DEF Init, StageInv, CountdownInv, FreshInv, LockedAreClosed, RevealedAreClosed, LiveStages

\* A step that leaves the queue alone: what waits in it is about the past, or about
\* a round that goes on.
LEMMA CountdownKeep ==
  ASSUME TypeOK, CountdownInv, timeLeft', jobs' = jobs, late' = late,
         Len(attempts') \in Nat, Len(attempts) <= Len(attempts'),
         "countdown" \in timers' => live' = current' /\ stage' \in LiveStages,
         \/ current' \in {0, NewAttempt}
         \/ current' = current /\ (stage \in LiveStages => stage' \in LiveStages)
  PROVE  CountdownInv'
<1>1. Len(attempts) \in Nat
  BY DEF TypeOK
<1>2. ASSUME NEW i \in DOMAIN jobs
      PROVE  /\ jobs[i].attempt \in 0..Len(attempts')
             /\ jobs[i].kind = "active" /\ jobs[i].attempt = current' /\ current' # 0 =>
                  i = 1 /\ stage' \in LiveStages
  <2>1. /\ jobs[i].attempt \in 0..Len(attempts)
        /\ jobs[i].kind = "active" /\ jobs[i].attempt = current /\ current # 0 =>
             i = 1 /\ stage \in LiveStages
    BY DEF CountdownInv
  <2>2. jobs[i].attempt # NewAttempt
    BY <1>1, <2>1 DEF NewAttempt
  <2>3. QED
    BY <1>1, <2>1, <2>2
<1>3. \A a \in late : a \in 0..Len(attempts')
  BY <1>1 DEF CountdownInv
<1>4. QED
  BY <1>2, <1>3 DEF CountdownInv

\* A job is taken from the queue: no countdown's job of the attempt on stage is left.
LEMMA CountdownTake ==
  ASSUME TypeOK, CountdownInv, jobs # <<>>, jobs' = Tail(jobs), late' = late, timeLeft',
         Len(attempts') \in Nat, Len(attempts) <= Len(attempts'),
         "countdown" \in timers' => live' = current' /\ stage' \in LiveStages,
         current' \in {0, NewAttempt, current}
  PROVE  CountdownInv'
<1>1. Len(attempts) \in Nat /\ jobs \in Seq(Job)
  BY DEF TypeOK
<1>2. ASSUME NEW i \in DOMAIN Tail(jobs)
      PROVE  /\ Tail(jobs)[i].attempt \in 0..Len(attempts')
             /\ ~(Tail(jobs)[i].kind = "active" /\ Tail(jobs)[i].attempt = current' /\ current' # 0)
  <2>1. i \in 1..Len(jobs) - 1 /\ i + 1 \in DOMAIN jobs /\ Tail(jobs)[i] = jobs[i + 1] /\ i + 1 # 1
    BY <1>1
  <2>2. /\ jobs[i + 1].attempt \in 0..Len(attempts)
        /\ ~(jobs[i + 1].kind = "active" /\ jobs[i + 1].attempt = current /\ current # 0)
    BY <2>1 DEF CountdownInv
  <2>3. jobs[i + 1].attempt # NewAttempt
    BY <1>1, <2>2 DEF NewAttempt
  <2>4. QED
    BY <1>1, <2>1, <2>2, <2>3
<1>3. \A a \in late : a \in 0..Len(attempts')
  BY <1>1 DEF CountdownInv
<1>4. QED
  BY <1>2, <1>3 DEF CountdownInv

\* A job is queued: a countdown's only into an empty queue.
LEMMA CountdownPut ==
  ASSUME TypeOK, CountdownInv, UNCHANGED <<row, table, live>>, timers' \subseteq timers,
         late' \subseteq late \cup {current},
         NEW j \in Job, jobs' = Append(jobs, j), j.attempt \in 0..Len(attempts),
         j.kind = "active" => jobs = <<>> /\ j.attempt = current /\ stage \in LiveStages
  PROVE  CountdownInv'
<1>1. Len(attempts) \in Nat /\ jobs \in Seq(Job) /\ current \in 0..Len(attempts)
  BY DEF TypeOK
<1>2. DOMAIN jobs' = 1..Len(jobs) + 1 /\ jobs'[Len(jobs) + 1] = j /\ \A i \in 1..Len(jobs) : jobs'[i] = jobs[i]
  BY <1>1, AppendFacts
<1>3. ASSUME NEW i \in DOMAIN jobs'
      PROVE  /\ jobs'[i].attempt \in 0..Len(attempts)
             /\ jobs'[i].kind = "active" /\ jobs'[i].attempt = current /\ current # 0 =>
                  i = 1 /\ stage \in LiveStages
  <2>1. CASE i \in 1..Len(jobs)
    BY <1>1, <1>2, <2>1 DEF CountdownInv
  <2>2. CASE i = Len(jobs) + 1
    <3>1. j.kind = "active" => i = 1
      BY <1>1, <2>2
    <3>2. QED
      BY <1>2, <2>2, <3>1
  <2>3. QED
    BY <1>1, <1>2, <2>1, <2>2
<1>4. QED
  BY <1>1, <1>3 DEF CountdownInv, row, table

LEMMA CountdownStep == Orderly /\ TypeOK /\ CountdownInv /\ [Next]_vars => CountdownInv'
<1> SUFFICES ASSUME Orderly, TypeOK, CountdownInv, [Next]_vars PROVE CountdownInv'
  OBVIOUS
<1>0. /\ Len(attempts) \in Nat /\ current \in 0..Len(attempts) /\ live \in 0..Len(attempts)
      /\ jobs \in Seq(Job) /\ timeLeft /\ late \subseteq Nat
      /\ "countdown" \in timers => live = current /\ stage \in LiveStages
      /\ \A a \in late : a \in 0..Len(attempts)
  BY DEF TypeOK, CountdownInv
<1>a. ASSUME NEW k, Create(k) PROVE Len(attempts') = Len(attempts) + 1 /\ Len(attempts') \in Nat
  <2>1. attempts \in Seq(Kind) /\ attempts' = Append(attempts, k)
    BY <1>a DEF TypeOK, Create
  <2>2. Len(attempts') = Len(attempts) + 1
    BY <2>1
  <2>3. QED
    BY <1>0, <2>2
<1>1. CASE ShowInstructions \/ NextGame \/ ShowGameResults \/ ShowFinalResults \/ CloseSession
  <2>1. /\ UNCHANGED <<table, process>> /\ current' \in {0, current} /\ stage \notin LiveStages
        /\ timers' \subseteq timers
    BY <1>1 DEF ShowInstructions, NextGame, ShowGameResults, ShowFinalResults,
       CloseSession, CanTransition, ALLOWED, ClearLive, LiveStages, runtime
  <2>2. QED
    BY <1>0, <2>1, CountdownKeep DEF table, process
<1>2. CASE StartPractice
  <2>1. Len(attempts') = Len(attempts) + 1 /\ Len(attempts') \in Nat
    BY <1>2, <1>a DEF StartPractice
  <2>2. QED
    BY <1>0, <1>2, <2>1, CountdownKeep DEF StartPractice, Begin, ArmTimers, LiveStages, process
<1>3. CASE StartGame \/ NextRound
  <2>1. Len(attempts') = Len(attempts) + 1 /\ Len(attempts') \in Nat
    BY <1>3, <1>a DEF StartGame, NextRound
  <2>2. UNCHANGED <<timeLeft, process>> /\ current' = NewAttempt /\ timers' = {}
    BY <1>3 DEF StartGame, NextRound, ClearLive
  <2>3. QED
    BY <1>0, <2>1, <2>2, CountdownKeep DEF process
<1>4. CASE StartRound
  BY <1>0, <1>4, CountdownKeep DEF StartRound, Begin, ArmTimers, LiveStages, process
<1>5. CASE Pause
  <2>1. timeLeft'
    BY <1>5 DEF Pause, LeftAtPause, Orderly
  <2>2. QED
    BY <1>0, <1>5, <2>1, CountdownKeep DEF Pause, process
<1>6. CASE Resume
  BY <1>0, <1>6, CountdownKeep DEF Resume, ArmTimers, CanTransition, ALLOWED, LiveStages, table, process
<1>7. CASE Reveal
  BY <1>0, <1>7, CountdownKeep DEF Reveal, CanTransition, ALLOWED, LiveStages, runtime, process
<1>8. CASE VoidRound
  BY <1>0, <1>8, <1>a, CountdownKeep DEF VoidRound, ClearLive, process
<1>9. CASE StartTiebreak
  BY <1>0, <1>9, <1>a, CountdownKeep DEF StartTiebreak, CanTransition, ALLOWED, LiveStages, runtime, process
<1>10. CASE RestClose \/ Torn
  BY <1>10 DEF RestClose, Torn, TornVoid, TornReveal, TornClose, TornRecover, Orderly
<1>11. CASE FireCountdown
  <2> DEFINE j == [kind |-> "active", attempt |-> live]
  <2>1. jobs = <<>> /\ live = current /\ stage \in LiveStages /\ j \in Job
    BY <1>0, <1>11 DEF FireCountdown, QueueServed, Orderly, Job
  <2>2. QED
    BY <1>0, <1>11, <2>1, CountdownPut DEF FireCountdown, Enqueue
<1>12. CASE FireDeadline
  <2> DEFINE j == [kind |-> "close", attempt |-> live]
  <2>1. j \in Job
    BY <1>0 DEF Job
  <2>2. QED
    BY <1>0, <1>12, <2>1, CountdownPut DEF FireDeadline, Enqueue
<1>13. CASE InputPasses
  <2>1. \A a \in late' : a \in 0..Len(attempts)
    BY <1>0, <1>13 DEF InputPasses
  <2>2. QED
    BY <1>13, <2>1 DEF InputPasses, CountdownInv, row, table, runtime
<1>14. CASE InputCloses
  <2>1. PICK a \in late \cup (IF InputOpen THEN {current} ELSE {}) : Enqueue("close", a) /\ late' = late \ {a}
    BY <1>14 DEF InputCloses
  <2> DEFINE j == [kind |-> "close", attempt |-> a]
  <2>2. a \in 0..Len(attempts) /\ j \in Job
    BY <1>0 DEF Job
  <2>3. QED
    BY <1>0, <1>14, <2>1, <2>2, CountdownPut DEF InputCloses, Enqueue, runtime
<1>15. CASE RunActive
  BY <1>0, <1>15, CountdownTake DEF RunActive, Next1, LiveStages, table, runtime
<1>16. CASE RunClose
  <2>1. jobs # <<>> /\ jobs' = Tail(jobs) /\ late' = late /\ attempts' = attempts
        /\ current' = current /\ live' = live /\ timeLeft' = timeLeft
    BY <1>16 DEF RunClose, Next1
  <2>2. "countdown" \in timers' => live' = current' /\ stage' \in LiveStages
    BY <1>0, <1>16, <2>1 DEF RunClose
  <2>3. QED
    BY <1>0, <2>1, <2>2, CountdownTake
<1>17. CASE RunRecover
  <2> DEFINE a == Head(jobs).attempt
  <2>0. jobs # <<>> /\ jobs' = Tail(jobs) /\ late' = late
    BY <1>17 DEF RunRecover, Next1
  <2>1. CASE Recoverable(a) /\ IsRace(a) /\ RecoverRace(a)
    BY <1>0, <1>a, <2>0, <2>1, CountdownTake DEF RecoverRace, ClearLive
  <2>2. CASE Recoverable(a) /\ ~IsRace(a) /\ ~paused /\ RecoverByPause
    <3>1. timeLeft'
      BY <2>2 DEF RecoverByPause, LeftAtRestart, Orderly
    <3>2. QED
      BY <1>0, <2>0, <2>2, <3>1, CountdownTake DEF RecoverByPause, runtime
  <2>3. CASE UNCHANGED <<closed, voided, attempts, stage, paused, current, timeLeft, runtime>>
    BY <1>0, <2>0, <2>3, CountdownTake DEF runtime
  <2>4. QED
    BY <1>17, <2>1, <2>2, <2>3 DEF RunRecover
<1>18. CASE RecoverScan
  <2> DEFINE j == [kind |-> "recover", attempt |-> current]
  <2>1. CASE jobs' = jobs
    BY <1>0, <1>18, <2>1, CountdownKeep DEF RecoverScan, row, table, runtime
  <2>2. CASE jobs' = Append(jobs, j)
    <3>1. j \in Job
      BY <1>0 DEF Job
    <3>2. QED
      BY <1>0, <1>18, <2>2, <3>1, CountdownPut DEF RecoverScan, runtime
  <2>3. QED
    BY <1>18, <2>1, <2>2 DEF RecoverScan
<1>19. CASE Crash
  <2>1. DOMAIN jobs' = {}
    BY <1>19 DEF Crash, Restart
  <2>2. QED
    BY <1>0, <1>19, <2>1 DEF Crash, Restart, ClearLive, CountdownInv, row, table
<1>20. CASE UNCHANGED vars
  BY <1>20 DEF vars, row, table, runtime, process, CountdownInv
<1>21. QED
  BY <1>1, <1>2, <1>3, <1>4, <1>5, <1>6, <1>7, <1>8, <1>9, <1>10, <1>11, <1>12, <1>13, <1>14, <1>15, <1>16,
     <1>17, <1>18, <1>19, <1>20 DEF Next, HostActions, Timers, Inputs, Jobs

\* What a row that is created changes for the other rows: nothing.
LEMMA FreshRow ==
  ASSUME TypeOK
  PROVE  /\ NewAttempt \notin closed \cup revealed \cup scored \cup voided
         /\ current # NewAttempt /\ NewAttempt # 0
         /\ 0 \notin closed \cup revealed \cup scored \cup voided
BY DEF TypeOK, NewAttempt

LEMMA FreshStep ==
  Orderly /\ TypeOK /\ StageInv /\ [Next]_vars => FreshInv'
<1> SUFFICES ASSUME Orderly, TypeOK, StageInv, [Next]_vars PROVE FreshInv'
  OBVIOUS
<1>0. LockedAreClosed' /\ RevealedAreClosed'
  BY LockedStep DEF StageInv, FreshInv
<1> USE FreshRow DEF LiveStages, row, table, runtime, process
<1>1. CASE ShowInstructions \/ ShowGameResults \/ NextGame \/ ShowFinalResults
  BY <1>0, <1>1 DEF ShowInstructions, ShowGameResults, NextGame, ShowFinalResults, StageInv, FreshInv
<1>2. CASE StartPractice \/ StartGame \/ NextRound \/ StartTiebreak
  BY <1>0, <1>2 DEF StartPractice, StartGame, NextRound, StartTiebreak, Begin, StageInv, FreshInv
<1>3. CASE StartRound
  BY <1>0, <1>3 DEF StartRound, Begin, CanTransition, ALLOWED, StageInv, FreshInv
<1>4. CASE Pause \/ Resume
  BY <1>0, <1>4 DEF Pause, Resume, CanTransition, ALLOWED, StageInv, FreshInv
<1>5. CASE Reveal
  BY <1>0, <1>5 DEF Reveal, CanTransition, ALLOWED, StageInv, FreshInv, LockedAreClosed
<1>6. CASE VoidRound
  BY <1>0, <1>6 DEF VoidRound, StageOfReplay, StageInv, FreshInv
<1>7. CASE CloseSession
  BY <1>0, <1>7 DEF CloseSession, StageInv, FreshInv
<1>8. CASE RestClose \/ Torn
  BY <1>8 DEF RestClose, Torn, TornVoid, TornReveal, TornClose, TornRecover, Orderly
<1>9. CASE Timers \/ Inputs \/ RecoverScan \/ Crash
  BY <1>0, <1>9 DEF Timers, FireCountdown, FireDeadline, Inputs, InputPasses, InputCloses, RecoverScan, Crash,
     StageInv, FreshInv
<1>10. CASE RunActive
  <2>1. Len(jobs) \in Nat /\ jobs # <<>> => 1 \in DOMAIN jobs /\ Head(jobs) = jobs[1]
    BY DEF TypeOK
  <2>2. jobs # <<>> /\ Head(jobs).kind = "active" /\ OnStage(Head(jobs).attempt) => stage \in LiveStages
    BY <2>1 DEF StageInv, CountdownInv, OnStage, TypeOK
  <2>3. QED
    BY <1>0, <1>10, <2>2 DEF RunActive, Next1, GoesActive, StageInv, FreshInv
<1>11. CASE RunClose
  BY <1>0, <1>11 DEF RunClose, Closable, OnStage, StageInv, FreshInv
<1>12. CASE RunRecover
  BY <1>0, <1>12 DEF RunRecover, RecoverRace, RecoverByPause, StageOfReplay, Recoverable, OnStage,
     StageInv, FreshInv
<1>13. CASE UNCHANGED vars
  BY <1>0, <1>13 DEF vars, StageInv, FreshInv
<1>14. QED
  BY <1>1, <1>2, <1>3, <1>4, <1>5, <1>6, <1>7, <1>8, <1>9, <1>10, <1>11, <1>12, <1>13
     DEF Next, HostActions, Jobs

Ledger == [a \in DOMAIN attempts |-> PhaseOf(a)]

\* The ledger is a sequence, as long as the table.
LEMMA LedgerFacts ==
  ASSUME TypeOK
  PROVE  /\ DOMAIN attempts = 1..Len(attempts) /\ Len(attempts) \in Nat
         /\ Ledger \in Seq(Lifecycle!Phases) /\ Len(Ledger) = Len(attempts)
         /\ DOMAIN Ledger = DOMAIN attempts
         /\ \A a \in DOMAIN attempts : Ledger[a] = PhaseOf(a)
         /\ \A a \in DOMAIN attempts : PhaseOf(a) = "open" => a = current /\ stage \in LiveStages
<1>1. DOMAIN attempts = 1..Len(attempts) /\ Len(attempts) \in Nat
  BY DEF TypeOK
<1>2. \A a \in DOMAIN attempts : PhaseOf(a) \in Lifecycle!Phases
  BY DEF PhaseOf, Lifecycle!Phases
<1>3. Ledger \in [1..Len(attempts) -> Lifecycle!Phases]
  BY <1>1, <1>2 DEF Ledger
<1>4. Ledger \in Seq(Lifecycle!Phases) /\ Len(Ledger) = Len(attempts)
  BY <1>1, <1>3
<1>5. QED
  BY <1>1, <1>4 DEF Ledger, PhaseOf

\* No row is created and at most one attempt's phase changes.
LEMMA LedgerMove ==
  ASSUME TypeOK, attempts' = attempts, NEW i \in DOMAIN attempts,
         \A a \in DOMAIN attempts : a # i => PhaseOf(a)' = PhaseOf(a)
  PROVE  Ledger' = [Ledger EXCEPT ![i] = PhaseOf(i)']
BY DEF Ledger

\* A row is created and at most one earlier attempt's phase changes.
LEMMA LedgerAppend ==
  ASSUME TypeOK, NEW k \in Kind, Create(k), NEW L \in Seq(Lifecycle!Phases), Len(L) = Len(attempts),
         \A a \in DOMAIN attempts : PhaseOf(a)' = L[a],
         NEW p \in Lifecycle!Phases, \A n : n = NewAttempt => PhaseOf(n)' = p
  PROVE  Ledger' = Append(L, p)
<1>1. /\ Len(attempts) \in Nat /\ DOMAIN attempts = 1..Len(attempts)
      /\ DOMAIN attempts' = 1..Len(attempts) + 1 /\ NewAttempt = Len(attempts) + 1
  <2>1. attempts \in Seq(Kind) /\ attempts' = Append(attempts, k)
    BY DEF TypeOK, Create
  <2>2. QED
    BY <2>1, AppendFacts DEF NewAttempt
<1>2. /\ Append(L, p)[Len(L) + 1] = p
      /\ \A i \in 1..Len(L) : Append(L, p)[i] = L[i]
      /\ DOMAIN Append(L, p) = 1..Len(L) + 1
      /\ Append(L, p) \in Seq(Lifecycle!Phases)
  BY AppendFacts
<1>3. Ledger' = [a \in 1..Len(attempts) + 1 |-> PhaseOf(a)']
  BY <1>1 DEF Ledger
<1>4. \A a \in 1..Len(attempts) + 1 : PhaseOf(a)' = Append(L, p)[a]
  <2> TAKE a \in 1..Len(attempts) + 1
  <2>2. CASE a = Len(attempts) + 1
    BY <1>1, <1>2, <2>2
  <2>3. CASE a # Len(attempts) + 1
    <3>1. a \in 1..Len(attempts)
      BY <1>1, <2>3
    <3>2. QED
      BY <1>1, <1>2, <3>1
  <2>4. QED
    BY <2>2, <2>3
<1>5. Append(L, p) = [a \in 1..Len(attempts) + 1 |-> Append(L, p)[a]]
  <2>1. Append(L, p) \in Seq(Lifecycle!Phases) /\ Len(Append(L, p)) = Len(attempts) + 1
    BY AppendFacts
  <2>2. QED
    BY <2>1, SeqIsFunction
<1>6. QED
  BY <1>3, <1>4, <1>5

\* Every step of the engine is a step of the abstract specification, or none.
LEMMA LedgerStep == Orderly /\ TypeOK /\ StageInv /\ [Next]_vars => [Lifecycle!Next]_Ledger
<1> SUFFICES ASSUME Orderly, TypeOK, StageInv, [Next]_vars
             PROVE  Lifecycle!Next \/ Ledger' = Ledger
  OBVIOUS
<1>0. /\ DOMAIN attempts = 1..Len(attempts) /\ Len(attempts) \in Nat /\ current \in 0..Len(attempts)
      /\ DOMAIN Ledger = DOMAIN attempts /\ Len(Ledger) = Len(attempts)
      /\ \A a \in DOMAIN attempts : Ledger[a] = PhaseOf(a)
      /\ current # 0 => current \in DOMAIN attempts
      /\ closed \cup revealed \cup scored \cup voided \subseteq DOMAIN attempts
  BY LedgerFacts DEF TypeOK
<1>i. /\ stage = "Ready" => current \notin closed \cup scored \cup voided
      /\ stage \in LiveStages => current \notin scored \cup voided
      /\ stage \in {"InputLocked", "Reveal"} => current \in closed
      /\ current \notin voided
  BY DEF StageInv, FreshInv, LockedAreClosed
\* Whether the stage moves while nothing is open, or stays live about one attempt.
<1>a. ASSUME UNCHANGED <<attempts, closed, scored, voided>>,
             \/ current' = current /\ (stage \in LiveStages <=> stage' \in LiveStages)
             \/ stage \notin LiveStages /\ stage' \notin LiveStages
      PROVE  Ledger' = Ledger
  <2>1. \A a \in DOMAIN attempts : PhaseOf(a)' = PhaseOf(a)
    BY <1>a DEF PhaseOf
  <2>2. QED
    BY <1>a, <2>1 DEF Ledger
<1>b. stage \notin LiveStages => \A i \in DOMAIN Ledger : Ledger[i] # "open"
  BY <1>0, LedgerFacts
\* A new attempt while nothing is open.
<1>c. ASSUME NEW k \in Kind, Create(k), stage \notin LiveStages, current' = NewAttempt,
             UNCHANGED <<closed, scored, voided>>
      PROVE  Lifecycle!Next
  <2>1. \A a \in DOMAIN attempts : PhaseOf(a)' = Ledger[a]
    BY <1>0, <1>c DEF PhaseOf, NewAttempt
  <2>2. \A n : n = NewAttempt => PhaseOf(n)' = IF stage' \in LiveStages THEN "open" ELSE "prepared"
    BY <1>c, FreshRow DEF PhaseOf
  <2>3. Ledger \in Seq(Lifecycle!Phases) /\ {"open", "prepared"} \subseteq Lifecycle!Phases
    BY LedgerFacts DEF Lifecycle!Phases
  <2>4. Ledger' = Append(Ledger, IF stage' \in LiveStages THEN "open" ELSE "prepared")
    BY <1>0, <1>c, <2>1, <2>2, <2>3, LedgerAppend
  <2>5. QED
    BY <1>b, <1>c, <2>4 DEF Lifecycle!Next, Lifecycle!Prepare, Lifecycle!PrepareOpen, Lifecycle!NoneOpen, Ledger
\* The attempt on stage is voided, with its replay.
<1>d. ASSUME NEW k \in Kind, Create(k), stage \in LiveStages \cup {"InputLocked", "Reveal"}, current # 0,
             stage' \notin LiveStages, current' = NewAttempt, voided' = voided \cup {current},
             closed' \in {closed, closed \cup {current}}, scored' = scored
      PROVE  Lifecycle!Next
  <2> DEFINE L == [Ledger EXCEPT ![current] = "void"]
  <2>1. \A a \in DOMAIN attempts : PhaseOf(a)' = L[a]
    BY <1>0, <1>d DEF PhaseOf, NewAttempt
  <2>2. \A n : n = NewAttempt => PhaseOf(n)' = "prepared"
    BY <1>d, FreshRow DEF PhaseOf
  <2>3. L \in Seq(Lifecycle!Phases) /\ Len(L) = Len(attempts) /\ "prepared" \in Lifecycle!Phases
    <3>1. Ledger \in [1..Len(attempts) -> Lifecycle!Phases] /\ {"void", "prepared"} \subseteq Lifecycle!Phases
      BY LedgerFacts DEF Lifecycle!Phases
    <3>2. L \in [1..Len(attempts) -> Lifecycle!Phases]
      BY <1>0, <1>d, <3>1
    <3>3. QED
      BY <1>0, <3>1, <3>2
  <2>4. Ledger' = Append(L, "prepared")
    BY <1>d, <2>1, <2>2, <2>3, LedgerAppend
  <2>5. Ledger[current] \in {"open", "closed", "published"} /\ current \in DOMAIN Ledger
    BY <1>0, <1>d, <1>i DEF PhaseOf
  <2>6. QED
    BY <2>4, <2>5 DEF Lifecycle!Next, Lifecycle!VoidAndReplay, Ledger
<1>1. CASE ShowInstructions \/ ShowGameResults \/ NextGame \/ ShowFinalResults \/ CloseSession
  BY <1>1, <1>a DEF ShowInstructions, ShowGameResults, NextGame, ShowFinalResults, CloseSession,
     CanTransition, ALLOWED, LiveStages, table
<1>2. CASE StartPractice \/ StartGame \/ NextRound \/ StartTiebreak
  <2>1. PICK k \in Kind : Create(k)
    <3>1. CASE StartPractice
      BY <3>1, KindFacts DEF StartPractice
    <3>2. CASE StartGame
      BY <3>2, KindFacts DEF StartGame
    <3>3. CASE NextRound
      <4>1. NextRoundIndex \in Nat
        BY <3>3 DEF NextRound, CanTransition, ALLOWED, NextRoundIndex, TypeOK
      <4>2. QED
        BY <3>3, <4>1, KindFacts DEF NextRound
    <3>4. CASE StartTiebreak
      BY <3>4, KindFacts DEF StartTiebreak
    <3>5. QED
      BY <1>2, <3>1, <3>2, <3>3, <3>4
  <2>2. stage \notin LiveStages /\ current' = NewAttempt /\ UNCHANGED <<closed, scored, voided>>
    BY <1>2 DEF StartPractice, StartGame, NextRound, StartTiebreak, Begin, CanTransition, ALLOWED, LiveStages
  <2>3. QED
    BY <1>c, <2>1, <2>2
<1>3. CASE StartRound
  <2>1. /\ stage = "Ready" /\ current # 0 /\ stage' = "Countdown" /\ current' = current
        /\ UNCHANGED <<attempts, closed, scored, voided>>
    BY <1>3 DEF StartRound, Begin, CanTransition, ALLOWED
  <2>2. PhaseOf(current) = "prepared" /\ PhaseOf(current)' = "open"
    BY <1>i, <2>1 DEF PhaseOf, LiveStages
  <2>3. \A a \in DOMAIN attempts : a # current => PhaseOf(a)' = PhaseOf(a)
    BY <2>1 DEF PhaseOf
  <2>4. Ledger' = [Ledger EXCEPT ![current] = "open"]
    BY <1>0, <2>1, <2>2, <2>3, LedgerMove
  <2>5. QED
    BY <1>0, <1>b, <2>1, <2>2, <2>4
       DEF Lifecycle!Next, Lifecycle!Open, Lifecycle!Move, Lifecycle!NoneOpen, Ledger, LiveStages
<1>4. CASE Pause \/ Resume
  BY <1>4, <1>a DEF Pause, Resume, CanTransition, ALLOWED, LiveStages, table
<1>5. CASE Reveal
  <2>1. /\ stage = "InputLocked" /\ current # 0 /\ stage' \notin LiveStages /\ current' = current
        /\ UNCHANGED <<attempts, closed, voided>> /\ scored' \in {scored, scored \cup {current}}
    BY <1>5 DEF Reveal, CanTransition, ALLOWED, LiveStages
  <2>2. CASE scored' = scored
    BY <1>a, <2>1, <2>2 DEF LiveStages
  <2>3. CASE current \notin scored /\ scored' = scored \cup {current}
    <3>1. PhaseOf(current) = "closed" /\ PhaseOf(current)' = "published"
      BY <1>i, <2>1, <2>3 DEF PhaseOf, LiveStages
    <3>2. \A a \in DOMAIN attempts : a # current => PhaseOf(a)' = PhaseOf(a)
      BY <2>1, <2>3 DEF PhaseOf
    <3>3. Ledger' = [Ledger EXCEPT ![current] = "published"]
      BY <1>0, <2>1, <3>1, <3>2, LedgerMove
    <3>4. QED
      BY <1>0, <2>1, <3>1, <3>3 DEF Lifecycle!Next, Lifecycle!Publish, Lifecycle!Move, Ledger
  <2>4. QED
    BY <2>1, <2>2, <2>3
<1>6. CASE VoidRound
  <2>1. PICK k \in Kind : Create(k)
    BY <1>0, <1>6, KindFacts DEF VoidRound
  <2>2. QED
    BY <1>6, <1>d, <2>1 DEF VoidRound, StageOfReplay, CanTransition, ALLOWED, LiveStages
<1>7. CASE RestClose \/ Torn
  BY <1>7 DEF RestClose, Torn, TornVoid, TornReveal, TornClose, TornRecover, Orderly
<1>8. CASE Timers \/ Inputs \/ RecoverScan \/ Crash
  BY <1>8, <1>a DEF Timers, FireCountdown, FireDeadline, Inputs, InputPasses, InputCloses, RecoverScan, Crash,
     row, table
<1>9. CASE RunActive
  <2>1. jobs # <<>> => 1 \in DOMAIN jobs /\ Head(jobs) = jobs[1]
    BY DEF TypeOK
  <2>2. jobs # <<>> /\ Head(jobs).kind = "active" /\ OnStage(Head(jobs).attempt) => stage \in LiveStages
    BY <2>1 DEF StageInv, CountdownInv, OnStage
  <2>3. QED
    BY <1>9, <1>a, <2>2 DEF RunActive, Next1, GoesActive, LiveStages, table
<1>10. CASE RunClose
  <2> DEFINE b == Head(jobs).attempt
  <2>1. CASE ~Closable(b)
    BY <1>10, <1>a, <2>1 DEF RunClose
  <2>2. CASE Closable(b)
    <3>1. /\ stage \in LiveStages /\ current # 0 /\ stage' = "InputLocked" /\ current' = current
          /\ UNCHANGED <<attempts, scored, voided>> /\ closed' = closed \cup {current}
      BY <1>10, <2>2 DEF RunClose, Closable, OnStage
    <3>2. PhaseOf(current) = "open" /\ PhaseOf(current)' = "closed"
      BY <1>i, <3>1 DEF PhaseOf, LiveStages
    <3>3. \A a \in DOMAIN attempts : a # current => PhaseOf(a)' = PhaseOf(a)
      BY <3>1 DEF PhaseOf
    <3>4. Ledger' = [Ledger EXCEPT ![current] = "closed"]
      BY <1>0, <3>1, <3>2, <3>3, LedgerMove
    <3>5. QED
      BY <1>0, <3>1, <3>2, <3>4 DEF Lifecycle!Next, Lifecycle!Close, Lifecycle!Move, Ledger
  <2>3. QED
    BY <2>1, <2>2
<1>11. CASE RunRecover
  <2> DEFINE b == Head(jobs).attempt
  <2>1. CASE Recoverable(b) /\ IsRace(b) /\ RecoverRace(b)
    <3>1. /\ b = current /\ current # 0 /\ stage \in LiveStages /\ current' = NewAttempt
          /\ voided' = voided \cup {current} /\ closed' = closed \cup {current} /\ scored' = scored
          /\ Create(ReplayKind(current)) /\ stage' \notin LiveStages
      BY <1>11, <2>1 DEF RunRecover, RecoverRace, Recoverable, OnStage, StageOfReplay, LiveStages
    <3>2. ReplayKind(current) \in Kind
      BY <1>0, <3>1, KindFacts
    <3>3. QED
      BY <1>d, <3>1, <3>2
  <2>2. CASE ~(Recoverable(b) /\ IsRace(b) /\ RecoverRace(b))
    BY <1>11, <1>a, <2>2 DEF RunRecover, RecoverByPause
  <2>3. QED
    BY <2>1, <2>2
<1>12. CASE UNCHANGED vars
  BY <1>12, <1>a DEF vars, row, table
<1>13. QED
  BY <1>1, <1>2, <1>3, <1>4, <1>5, <1>6, <1>7, <1>8, <1>9, <1>10, <1>11, <1>12
     DEF Next, HostActions, Jobs

\* The strengthening under which the engine implements AttemptLifecycle.
THEOREM StageInvariant == ASSUME Orderly PROVE Spec => []StageInv
<1>1. TypeOK /\ StageInv /\ [Next]_vars => StageInv'
  BY CountdownStep, FreshStep DEF StageInv
<1>2. QED
  BY <1>1, StageInit, EngineTypes, PTL DEF Spec

\* The stage engine implements AttemptLifecycle: whatever host actions, timers, late
\* inputs and restarts do, an attempt is opened once, closed once and published only
\* after that, a void attempt stays void and no two attempts are open.
THEOREM LifecycleThm == ASSUME Orderly PROVE Spec => ImplementsLifecycle
<1>1. Init => Lifecycle!Init
  BY DEF Init, Lifecycle!Init
<1>2. TypeOK /\ StageInv /\ [Next]_vars => [Lifecycle!Next]_Ledger
  BY LedgerStep
<1>3. QED
  BY <1>1, <1>2, StageInvariant, EngineTypes, PTL DEF Spec, ImplementsLifecycle, Lifecycle!Spec, Ledger
==============================================================================
