----------------------------- MODULE StageEngine -----------------------------
(***************************************************************************)
(* The stage engine of one session: RoundsService (host actions, timers,   *)
(* closing, revealing, restart recovery) over the session row, the table   *)
(* of round attempts and the in-memory LiveRuntime.                        *)
(*                                                                         *)
(* RoundsService.serial runs the jobs of a session one at a time, in the   *)
(* order they were queued, so every job is one action here.  Only timer,   *)
(* close and recovery jobs sit in "jobs": a host action reads its guard    *)
(* when it runs, so one that was queued k places ahead of a job is the     *)
(* same as one that runs while the job waits, and host actions need no     *)
(* place in the queue.  What escapes the queue has actions of its own: the *)
(* REST close route, the input handlers that decide to close a round, the  *)
(* expiry of a timer, and the death of the process, also half-way through  *)
(* a job that writes several rows ("torn").                                *)
(*                                                                         *)
(* Times are reduced to the one fact the order of the two timers depends   *)
(* on (timeLeft); RoundClock has the arithmetic.  The race engine, the     *)
(* answers, the participants' rows and the screens' cursors (podium step,  *)
(* ceremony step, standings page) are outside this module.                 *)
(***************************************************************************)
EXTENDS Integers, Sequences, Transitions

CONSTANTS
  GameOrder,    \* the games in the order they are played, a sequence of names
  RoundCount,   \* how many scored rounds the content has, per game
  RaceGame,     \* the game whose live state exists only in memory
  TieGame,      \* the game a tie-break is played in
  MaxAttempts,  \* bound: no host action prepares an attempt beyond this many
  MaxJobs,      \* bound: queued timer and close jobs
  MaxCrashes,   \* bound: restarts of the process
  Faults        \* what the environment may do, a subset of AllFaults

\* rest_close: POST /sessions/:id/close, beside the queue
\* torn:       the process dies between two writes of one job
\* late_input: an input handler is still awaiting while host actions run
\* spent:      a pause or a restart finds no play time left
\* slow_queue: a job can wait in the queue for longer than the countdown
AllFaults == {"rest_close", "torn", "late_input", "spent", "slow_queue"}

Games == {GameOrder[i] : i \in 1..Len(GameOrder)}

ASSUME EngineAssumption ==
  /\ GameOrder \in Seq(STRING) /\ Len(GameOrder) > 0
  /\ RoundCount \in [Games -> Nat]
  /\ RaceGame \in STRING /\ TieGame \in STRING
  /\ MaxAttempts \in Nat /\ MaxJobs \in Nat \ {0} /\ MaxCrashes \in Nat
  /\ Faults \subseteq AllFaults

VARIABLES
  \* the session row
  stage, paused, gameIndex, roundIndex,
  current,      \* current_attempt_id, 0 for null
  closedAt,     \* whether closed_at is set
  \* the round_attempts table; an attempt is named by its place in it
  attempts,     \* what each row was created for
  closed, revealed, scored, voided,   \* rows with closed_at, revealed_at, scores, voided_at
  timeLeft,     \* current attempt: its deadline is later than its countdown's end
  \* memory of the process
  live,         \* attempt the LiveRuntime entry belongs to, 0 for no entry
  timers,       \* its armed timers
  jobs,         \* queued timer, close and recovery jobs, oldest first
  late,         \* attempts an input handler has checked and is about to close
  booting,      \* started, and not yet looked for attempts left live
  crashes,
  show          \* history: how many times a game has been entered

row == <<stage, paused, gameIndex, roundIndex, current, closedAt, show>>
table == <<attempts, closed, revealed, scored, voided, timeLeft>>
runtime == <<live, timers>>
process == <<jobs, late, booting, crashes>>
vars == <<row, table, runtime, process>>

RoundStages == LiveStages \cup {"Ready", "InputLocked", "Reveal"}
TimerNames == {"countdown", "deadline"}

\* What a row of round_attempts is for; show is history, for the properties.
Kind == [game: Games \cup {TieGame}, round: Nat, practice: BOOLEAN, tie: BOOLEAN, show: Nat]
Job == [kind: {"active", "close", "recover"}, attempt: Nat]

TypeOK ==
  /\ stage \in Stages /\ paused \in BOOLEAN
  /\ gameIndex \in 0..Len(GameOrder) - 1 /\ roundIndex \in Nat \cup {-1}
  /\ attempts \in Seq(Kind)
  /\ current \in 0..Len(attempts)
  /\ closedAt \in BOOLEAN
  /\ closed \subseteq DOMAIN attempts /\ revealed \subseteq DOMAIN attempts
  /\ scored \subseteq DOMAIN attempts /\ voided \subseteq DOMAIN attempts
  /\ timeLeft \in BOOLEAN
  /\ live \in 0..Len(attempts) /\ timers \subseteq TimerNames
  /\ jobs \in Seq(Job) /\ late \subseteq Nat
  /\ booting \in BOOLEAN /\ crashes \in Nat /\ show \in Nat

Init ==
  /\ stage = "Lobby" /\ paused = FALSE /\ gameIndex = 0 /\ roundIndex = -1
  /\ current = 0 /\ closedAt = FALSE /\ show = 1
  /\ attempts = <<>> /\ closed = {} /\ revealed = {} /\ scored = {} /\ voided = {}
  /\ timeLeft = TRUE /\ live = 0 /\ timers = {}
  /\ jobs = <<>> /\ late = {} /\ booting = FALSE /\ crashes = 0

------------------------------------------------------------------------------
\* What the host actions are made of.

\* "Closed" is in no set of the table, which is the code's first test.
CanTransition(action) ==
  /\ stage \in ALLOWED[action]
  /\ action = "PAUSE" => ~paused
  /\ action = "RESUME" => paused
  /\ paused => action \in {"RESUME", "VOID_ROUND"}

GameAt(i) == GameOrder[i + 1]

RoundKind(round, practice) ==
  [game |-> GameAt(gameIndex), round |-> round, practice |-> practice, tie |-> FALSE, show |-> show]

TieKind == [game |-> TieGame, round |-> 900, practice |-> FALSE, tie |-> TRUE, show |-> show]

\* Mutant: the replay starts the game over.
ReplayKindFirstRound(a) == [attempts[a] EXCEPT !.show = show, !.round = 0]

\* The replay of attempt a, for VOID_ROUND and for restart recovery.
ReplayKind(a) == [attempts[a] EXCEPT !.show = show]
StageOfReplay(a) == IF attempts[a].practice THEN "Instructions" ELSE "Ready"

IsRace(a) == attempts[a].game = RaceGame

\* The row a job creates; RoundRepo.create.
NewAttempt == Len(attempts) + 1
Create(kind) == attempts' = Append(attempts, kind)
Room == Len(attempts) < MaxAttempts

\* LiveRuntime.clear
ClearLive == live' = 0 /\ timers' = {}

\* armTimers: reuse the entry of the same attempt or replace it; either way
\* the old timers are cancelled and two new ones armed.
ArmTimers(a) == live' = a /\ timers' = TimerNames

\* begin: countdown and round of attempt a
Begin(a) ==
  /\ stage' = "Countdown" /\ paused' = FALSE /\ current' = a /\ timeLeft' = TRUE
  /\ ArmTimers(a)

\* Mutant: the table alone decides.
StartGameFromAnyReveal == TRUE

\* START_GAME from Reveal only after the practice reveal.
StartGameAccepted == stage = "Reveal" => attempts[current].practice

\* The round NEXT_ROUND prepares.
NextRoundIndex == IF attempts[current].practice THEN 0 ELSE roundIndex + 1

\* Whether play time can be left, or can be used up, when a pause or the
\* recovery computes deadline_at - now: none is left once the deadline timer
\* has expired, some is left for sure while the countdown of an unspent round runs.
LeftAtPause ==
  {left \in BOOLEAN :
     /\ left => "deadline" \in timers
     /\ ~left => "spent" \in Faults /\ ("countdown" \in timers => ~timeLeft)}
LeftAtRestart == {left \in BOOLEAN : ~left => "spent" \in Faults}

------------------------------------------------------------------------------
\* Host actions: RoundsService.dispatch, one action per case.

ShowInstructions ==
  /\ CanTransition("SHOW_INSTRUCTIONS")
  /\ stage' = "Instructions" /\ roundIndex' = -1 /\ current' = 0
  /\ gameIndex' = IF stage = "Lobby" THEN 0 ELSE gameIndex
  /\ show' = IF stage = "GameResults" THEN show + 1 ELSE show
  /\ ClearLive
  /\ UNCHANGED <<paused, closedAt, table, process>>

StartPractice ==
  /\ CanTransition("START_PRACTICE") /\ Room
  /\ Create(RoundKind(0, TRUE))
  /\ Begin(NewAttempt)
  /\ UNCHANGED <<gameIndex, roundIndex, closedAt, show, closed, revealed, scored, voided, process>>

StartGame ==
  /\ CanTransition("START_GAME") /\ StartGameAccepted /\ Room
  /\ RoundCount[GameAt(gameIndex)] > 0
  /\ Create(RoundKind(0, FALSE))
  /\ stage' = "Ready" /\ roundIndex' = 0 /\ current' = NewAttempt
  /\ ClearLive
  /\ UNCHANGED <<paused, gameIndex, closedAt, show, closed, revealed, scored, voided, timeLeft, process>>

StartRound ==
  /\ CanTransition("START_ROUND") /\ current # 0
  /\ Begin(current)
  /\ UNCHANGED <<gameIndex, roundIndex, closedAt, show, attempts, closed, revealed, scored, voided, process>>

Pause ==
  /\ CanTransition("PAUSE") /\ current # 0
  /\ paused' = TRUE
  /\ timeLeft' \in LeftAtPause
  /\ timers' = {}
  /\ UNCHANGED <<stage, gameIndex, roundIndex, current, closedAt, show,
                 attempts, closed, revealed, scored, voided, live, process>>

Resume ==
  /\ CanTransition("RESUME") /\ current # 0
  /\ paused' = FALSE /\ stage' = "Countdown"
  /\ ArmTimers(current)
  /\ UNCHANGED <<gameIndex, roundIndex, current, closedAt, show, table, process>>

\* Scoring and publishing happen only when this reveal is the one that set revealed_at.
Reveal ==
  /\ CanTransition("REVEAL") /\ current # 0
  /\ revealed' = revealed \cup {current}
  /\ scored' = IF current \in revealed THEN scored ELSE scored \cup {current}
  /\ stage' = IF attempts[current].tie THEN "TournamentResults" ELSE "Reveal"
  /\ UNCHANGED <<paused, gameIndex, roundIndex, current, closedAt, show,
                 attempts, closed, voided, timeLeft, runtime, process>>

NextRound ==
  /\ CanTransition("NEXT_ROUND") /\ Room
  /\ NextRoundIndex < RoundCount[GameAt(gameIndex)]
  /\ Create(RoundKind(NextRoundIndex, FALSE))
  /\ stage' = "Ready" /\ roundIndex' = NextRoundIndex /\ current' = NewAttempt
  /\ ClearLive
  /\ UNCHANGED <<paused, gameIndex, closedAt, show, closed, revealed, scored, voided, timeLeft, process>>

ShowGameResults ==
  /\ CanTransition("SHOW_GAME_RESULTS")
  /\ stage' = "GameResults" /\ current' = 0
  /\ ClearLive
  /\ UNCHANGED <<paused, gameIndex, roundIndex, closedAt, show, table, process>>

NextGame ==
  /\ CanTransition("NEXT_GAME") /\ gameIndex + 1 < Len(GameOrder)
  /\ stage' = "Instructions" /\ gameIndex' = gameIndex + 1 /\ roundIndex' = -1 /\ current' = 0
  /\ show' = show + 1
  /\ UNCHANGED <<paused, closedAt, table, runtime, process>>

ShowFinalResults ==
  /\ CanTransition("SHOW_FINAL_RESULTS")
  /\ stage' = "TournamentResults" /\ current' = 0
  /\ ClearLive
  /\ UNCHANGED <<paused, gameIndex, roundIndex, closedAt, show, table, process>>

VoidRound ==
  /\ CanTransition("VOID_ROUND") /\ current # 0 /\ Room
  /\ voided' = voided \cup {current}
  /\ Create(IF attempts[current].tie THEN TieKind ELSE ReplayKind(current))
  /\ stage' = StageOfReplay(current) /\ paused' = FALSE /\ current' = NewAttempt
  /\ ClearLive
  /\ UNCHANGED <<gameIndex, roundIndex, closedAt, show, closed, revealed, scored, timeLeft, process>>

StartTiebreak ==
  /\ CanTransition("START_TIEBREAK") /\ Room
  /\ Create(TieKind)
  /\ stage' = "Ready" /\ current' = NewAttempt
  /\ UNCHANGED <<paused, gameIndex, roundIndex, closedAt, show,
                 closed, revealed, scored, voided, timeLeft, runtime, process>>

CloseSession ==
  /\ CanTransition("CLOSE_SESSION")
  /\ stage' = "Closed" /\ closedAt' = TRUE
  /\ ClearLive
  /\ UNCHANGED <<paused, gameIndex, roundIndex, current, show, table, process>>

\* POST /sessions/:id/close goes straight to SessionsService.close.
RestClose ==
  /\ "rest_close" \in Faults /\ stage # "Closed"
  /\ stage' = "Closed" /\ closedAt' = TRUE
  /\ UNCHANGED <<paused, gameIndex, roundIndex, current, show, table, runtime, process>>

HostActions ==
  \/ ShowInstructions \/ StartPractice \/ StartGame \/ StartRound
  \/ Pause \/ Resume \/ Reveal \/ NextRound
  \/ ShowGameResults \/ NextGame \/ ShowFinalResults
  \/ VoidRound \/ StartTiebreak \/ CloseSession

------------------------------------------------------------------------------
\* Timers, inputs that end a round, and the queued jobs.

Enqueue(kind, a) == Len(jobs) < MaxJobs /\ jobs' = Append(jobs, [kind |-> kind, attempt |-> a])
Next1(kind) == jobs # <<>> /\ Head(jobs).kind = kind /\ jobs' = Tail(jobs)

\* A countdown lasts 3 s: unless the queue is slow, what was queued before it
\* was armed has run by then.  Only timers that expire together can find each
\* other's job waiting.
QueueServed == jobs = <<>> \/ ~timeLeft \/ "slow_queue" \in Faults

FireCountdown ==
  /\ "countdown" \in timers
  /\ QueueServed
  /\ Enqueue("active", live)
  /\ timers' = timers \ {"countdown"}
  /\ UNCHANGED <<row, table, live, late, booting, crashes>>

\* The two timers are armed one after the other from separate readings of the
\* clock, so with no play time left the deadline may expire first.
FireDeadline ==
  /\ "deadline" \in timers
  /\ "countdown" \in timers => ~timeLeft
  /\ QueueServed
  /\ Enqueue("close", live)
  /\ timers' = timers \ {"deadline"}
  /\ UNCHANGED <<row, table, live, late, booting, crashes>>

\* openAttempt lets an answer in; a race is ticking.
InputOpen ==
  /\ stage = "RoundActive" /\ ~paused /\ current # 0
  /\ IF IsRace(current) THEN live = current ELSE current \notin closed \cup voided

\* A lock was let in and its handler is still awaiting when ...
InputPasses ==
  /\ "late_input" \in Faults /\ InputOpen /\ current \notin late
  /\ late' = late \cup {current}
  /\ UNCHANGED <<row, table, runtime, jobs, booting, crashes>>

\* ... it finds everybody locked (or the race finds no racer left) and asks
\* for the round to be closed.
InputCloses ==
  /\ \E a \in late \cup (IF InputOpen THEN {current} ELSE {}) :
       Enqueue("close", a) /\ late' = late \ {a}
  /\ UNCHANGED <<row, table, runtime, booting, crashes>>

\* A job was queued for one attempt and does nothing once another is on stage.
OnStage(a) == a # 0 /\ current = a

\* The countdown job of armTimers.
GoesActive(a) == OnStage(a) /\ ~paused

RunActive ==
  /\ Next1("active")
  /\ stage' = IF GoesActive(Head(jobs).attempt) THEN "RoundActive" ELSE stage
  /\ UNCHANGED <<paused, gameIndex, roundIndex, current, closedAt, show, table, runtime, late, booting, crashes>>

\* closeRound
Closable(a) == OnStage(a) /\ ~paused /\ stage \in LiveStages

\* Mutant: closing leaves the timers armed.
RunCloseKeepsTimers ==
  /\ Next1("close")
  /\ LET a == Head(jobs).attempt IN
       IF Closable(a)
       THEN closed' = closed \cup {a} /\ stage' = "InputLocked"
       ELSE UNCHANGED <<closed, stage>>
  /\ UNCHANGED <<paused, gameIndex, roundIndex, current, closedAt, show,
                 attempts, revealed, scored, voided, timeLeft, runtime, late, booting, crashes>>

RunClose ==
  /\ Next1("close")
  /\ LET a == Head(jobs).attempt IN
       IF Closable(a)
       THEN closed' = closed \cup {a} /\ stage' = "InputLocked" /\ timers' = {}
       ELSE UNCHANGED <<closed, stage, timers>>
  /\ UNCHANGED <<paused, gameIndex, roundIndex, current, closedAt, show,
                 attempts, revealed, scored, voided, timeLeft, live, late, booting, crashes>>

\* recoverAfterRestart, the query ...
RecoverScan ==
  /\ booting /\ booting' = FALSE
  /\ IF stage \in LiveStages /\ ~closedAt /\ current # 0
     THEN jobs' = Append(jobs, [kind |-> "recover", attempt |-> current])
     ELSE UNCHANGED jobs
  /\ UNCHANGED <<row, table, runtime, late, crashes>>

\* ... and its job for one attempt: a race is voided and replayed, another
\* game's round is paused.
Recoverable(a) == OnStage(a) /\ stage \in LiveStages

RecoverRace(a) ==
  /\ closed' = closed \cup {a} /\ voided' = voided \cup {a}
  /\ Create(ReplayKind(a))
  /\ stage' = StageOfReplay(a) /\ paused' = FALSE /\ current' = NewAttempt
  /\ ClearLive
  /\ UNCHANGED timeLeft

\* Mutant: a stored game's round needs no recovery.
RecoverNothing ==
  UNCHANGED <<paused, timeLeft, closed, voided, attempts, stage, current, runtime>>

RecoverByPause ==
  /\ paused' = TRUE
  /\ timeLeft' \in LeftAtRestart
  /\ UNCHANGED <<closed, voided, attempts, stage, current, runtime>>

RunRecover ==
  /\ Next1("recover")
  /\ LET a == Head(jobs).attempt IN
       \/ Recoverable(a) /\ IsRace(a) /\ RecoverRace(a)
       \/ Recoverable(a) /\ ~IsRace(a) /\ ~paused /\ RecoverByPause
       \/ /\ ~Recoverable(a) \/ (~IsRace(a) /\ paused)
          /\ UNCHANGED <<closed, voided, attempts, stage, paused, current, timeLeft, runtime>>
  /\ UNCHANGED <<gameIndex, roundIndex, closedAt, show, revealed, scored, late, booting, crashes>>

------------------------------------------------------------------------------
\* The process dies and starts again: memory is gone, the database stays.

Restart ==
  /\ crashes < MaxCrashes /\ crashes' = crashes + 1
  /\ ClearLive
  /\ jobs' = <<>> /\ late' = {} /\ booting' = TRUE

Crash == Restart /\ UNCHANGED <<row, table>>

\* VOID_ROUND had marked the attempt and not yet pointed the session elsewhere.
TornVoid ==
  /\ "torn" \in Faults /\ CanTransition("VOID_ROUND") /\ current # 0
  /\ voided' = voided \cup {current}
  /\ Restart
  /\ UNCHANGED <<row, attempts, closed, revealed, scored, timeLeft>>

\* A reveal had set revealed_at; the scores were all written, or not.
TornReveal ==
  /\ "torn" \in Faults /\ CanTransition("REVEAL") /\ current # 0 /\ current \notin revealed
  /\ revealed' = revealed \cup {current}
  /\ scored' \in {scored, scored \cup {current}}
  /\ Restart
  /\ UNCHANGED <<row, attempts, closed, voided, timeLeft>>

\* closeRound had set closed_at and not yet changed the state.
TornClose ==
  /\ "torn" \in Faults /\ jobs # <<>> /\ Head(jobs).kind = "close" /\ Closable(Head(jobs).attempt)
  /\ closed' = closed \cup {current}
  /\ Restart
  /\ UNCHANGED <<row, attempts, revealed, scored, voided, timeLeft>>

\* Recovery had closed the race, and voided it or not.
TornRecover ==
  /\ "torn" \in Faults /\ jobs # <<>> /\ Head(jobs).kind = "recover"
  /\ Recoverable(Head(jobs).attempt) /\ IsRace(current)
  /\ closed' = closed \cup {current}
  /\ voided' \in {voided, voided \cup {current}}
  /\ Restart
  /\ UNCHANGED <<row, attempts, revealed, scored, timeLeft>>

Torn == TornVoid \/ TornReveal \/ TornClose \/ TornRecover

Timers == FireCountdown \/ FireDeadline
Inputs == InputPasses \/ InputCloses
Jobs == RunActive \/ RunClose \/ RunRecover

Next == HostActions \/ RestClose \/ Timers \/ Inputs \/ Jobs \/ RecoverScan \/ Crash \/ Torn

Spec == Init /\ [][Next]_vars

\* Node runs expired timers, queued jobs and the start-up hook; nobody owes an
\* input, a host action or a crash.
Fairness ==
  /\ WF_vars(FireCountdown) /\ WF_vars(FireDeadline)
  /\ WF_vars(Jobs) /\ WF_vars(RecoverScan)

FairSpec == Spec /\ Fairness

------------------------------------------------------------------------------
\* Properties.

IsScored(a) == ~attempts[a].practice /\ ~attempts[a].tie
Counts(a) == a \in revealed \ voided /\ IsScored(a)

\* While a scored round is on stage, from Ready to Reveal, the attempt it runs
\* on is the one prepared for the session's own game and round: prepare, the
\* replay of a void and the replay of recovery all follow the cursor.
CurrentFollowsCursor ==
  stage \in RoundStages =>
    /\ current # 0
    /\ IsScored(current) => /\ attempts[current].game = GameAt(gameIndex)
                            /\ attempts[current].round = roundIndex

\* Within one showing of a game no round counts twice: two attempts that are
\* revealed, scored and not voided are of different rounds, unless the host
\* left the results screen to play the game again.
CountedOnce ==
  \A a, b \in DOMAIN attempts :
    Counts(a) /\ Counts(b) /\ attempts[a].show = attempts[b].show
              /\ attempts[a].round = attempts[b].round => a = b

\* The inductive strengthening of the two: where the cursor stands before a
\* game's first round, and that what already counts in this showing lies below
\* the round on stage.
CursorInv ==
  /\ stage \in RoundStages => current # 0
  /\ stage \in {"Lobby", "Instructions"} => roundIndex = -1
  /\ current # 0 =>
       /\ attempts[current].show = show
       /\ attempts[current].practice => roundIndex = -1
       /\ IsScored(current) => /\ attempts[current].game = GameAt(gameIndex)
                               /\ attempts[current].round = roundIndex

CountInv ==
  /\ \A a \in DOMAIN attempts : attempts[a].show <= show
  /\ \A a \in DOMAIN attempts :
       Counts(a) /\ attempts[a].show = show =>
         /\ attempts[a].round <= roundIndex
         /\ current # 0 /\ IsScored(current) /\ a # current => attempts[a].round < roundIndex

EngineInv == CursorInv /\ CountInv /\ CountedOnce

\* What is revealed had been closed first: nobody answers while the answer is
\* on the screens.
RevealedAreClosed == revealed \subseteq closed

\* A stage that waits for the reveal is about a closed attempt.
LockedAreClosed == stage = "InputLocked" => current \in closed

\* The reveal screen is never shown without the scores of the round.
RevealHasScores ==
  stage = "Reveal" => current \in revealed /\ current \in scored

\* A round left running unpaused stops running, or is paused.
LiveRoundEnds ==
  (stage \in LiveStages /\ ~paused) ~> (stage \notin LiveStages \/ paused)

\* The engine implements AttemptLifecycle: in particular no closed attempt is
\* opened again, no result changes once published, and no two rounds run.
PhaseOf(a) ==
  IF a \in voided THEN "void"
  ELSE IF a = current /\ stage \in LiveStages THEN "open"
  ELSE IF a \in scored THEN "published"
  ELSE IF a \in closed THEN "closed"
  ELSE "prepared"

Lifecycle == INSTANCE AttemptLifecycle WITH ledger <- [a \in DOMAIN attempts |-> PhaseOf(a)]
ImplementsLifecycle == Lifecycle!Spec
==============================================================================
