------------------------------ MODULE RoundClock ------------------------------
(***************************************************************************)
(* The clock of one round: the timestamps of the round's attempt as        *)
(* RoundsService writes them (begin, PAUSE, RESUME, recovery of a          *)
(* restart), and the lock time of an answer as ParticipationService reads  *)
(* it back from them.  Only a deadline is kept, and timing.ts infers from  *)
(* it how long the round has been running; what really passed is in the    *)
(* history variables.                                                      *)
(*                                                                         *)
(* Time is a counter; a timer that is due may run up to Lag units late.    *)
(* Which timer runs first when both are due is StageEngine's business: here *)
(* a closed round stays closed.                                            *)
(***************************************************************************)
EXTENDS Integers, Sequences, FiniteSetsExt

CONSTANTS
  Duration,     \* duration_ms of the attempt
  Countdown,    \* COUNTDOWN_MS
  Lag,          \* how late a timer may run
  PauseIn,      \* the stages in which the host may press Pause
  RestartIn,    \* the stages in which the process may die
  MaxNow,       \* bound: the last instant
  MaxPauses     \* bound: pauses of the round, by the host or by recovery

LiveStages == {"Countdown", "RoundActive"}

ASSUME ClockAssumption ==
  /\ Duration \in Nat \ {0} /\ Countdown \in Nat \ {0} /\ Lag \in Nat
  /\ PauseIn \subseteq LiveStages /\ RestartIn \subseteq LiveStages
  /\ MaxNow \in Nat /\ MaxPauses \in Nat

VARIABLES
  now,            \* Date.now()
  state, paused,  \* of the session row
  countdownEnds, deadline,   \* of the attempt row
  remaining,      \* its paused_remaining_ms, -1 for null
  records,        \* its pause_records; resumedAt is -1 for null
  up,             \* the process runs
  played,         \* history: how long the round has been running
  charged,        \* history: how long it ran with no process to answer to
  began,          \* history: when its first countdown was due to end
  lastLock        \* history: the time_ms of the latest locked answer, -1 before one

session == <<state, paused>>
attempt == <<countdownEnds, deadline, remaining, records>>
vars == <<now, session, attempt, up, played, charged, began, lastLock>>

PauseRecord == [pausedAt: Nat, resumedAt: Nat \cup {-1}]

TypeOK ==
  /\ now \in Nat
  /\ state \in LiveStages \cup {"Ready", "InputLocked"} /\ paused \in BOOLEAN
  /\ countdownEnds \in Nat /\ deadline \in Nat /\ remaining \in Nat \cup {-1}
  /\ records \in Seq(PauseRecord)
  /\ up \in BOOLEAN
  /\ played \in Nat /\ charged \in Nat /\ began \in Nat /\ lastLock \in Nat \cup {-1}

Init ==
  /\ now = 0 /\ state = "Ready" /\ paused = FALSE
  /\ countdownEnds = 0 /\ deadline = 0 /\ remaining = -1 /\ records = <<>>
  /\ up = TRUE /\ played = 0 /\ charged = 0 /\ began = 0 /\ lastLock = -1

------------------------------------------------------------------------------

AtLeastZero(n) == IF n < 0 THEN 0 ELSE n
Lesser(m, n) == IF m < n THEN m ELSE n

Live == state \in LiveStages /\ ~paused

\* Mutant: the time since the latest countdown.
ActiveElapsedSinceResume(at) == AtLeastZero(at - countdownEnds)

\* activeElapsedMs
ActiveElapsed(at) == AtLeastZero(Duration - (deadline - at))

\* activeElapsedFromRecords, the derivation the tests compare it with: the time
\* since the first countdown, less every pause and the countdown after it.
DeadTime(r, at) ==
  LET resumed == IF r.resumedAt = -1 THEN at ELSE r.resumedAt IN
    AtLeastZero(Lesser(resumed, at) - r.pausedAt)
      + (IF r.resumedAt # -1 /\ r.resumedAt < at THEN Lesser(Countdown, at - r.resumedAt) ELSE 0)

ElapsedFromRecords(at) ==
  AtLeastZero(at - began - MapThenSumSet(LAMBDA i : DeadTime(records[i], at), DOMAIN records))

\* Mutant: the countdown eats into the play time.
DeadlineNoCountdown(play) == now + play

\* The deadline a countdown that starts now leads up to.
DeadlineFor(play) == now + Countdown + play

\* Mutant: earlier pauses are forgotten.
LeftSinceCountdown == AtLeastZero(Duration - (now - countdownEnds))

\* What a pause stores.
Left == AtLeastZero(deadline - now)

\* Mutant: the first record is completed, whichever pause ends.
RecordsFirstResumed == [records EXCEPT ![1].resumedAt = now]

\* RoundRepo.resume completes the last record.
RecordsResumed == IF records = <<>> THEN <<>> ELSE [records EXCEPT ![Len(records)].resumedAt = now]

\* RoundRepo.pause and the session's flag.
StorePause ==
  /\ remaining' = Left
  /\ records' = Append(records, [pausedAt |-> now, resumedAt |-> -1])
  /\ paused' = TRUE

------------------------------------------------------------------------------
\* begin
Begin ==
  /\ up /\ state = "Ready"
  /\ countdownEnds' = now + Countdown /\ deadline' = DeadlineFor(Duration)
  /\ state' = "Countdown" /\ began' = now + Countdown
  /\ UNCHANGED <<now, paused, remaining, records, up, played, charged, lastLock>>

\* the countdown timer's job
GoActive ==
  /\ up /\ Live /\ state = "Countdown" /\ now >= countdownEnds
  /\ state' = "RoundActive"
  /\ UNCHANGED <<now, paused, attempt, up, played, charged, began, lastLock>>

Pause ==
  /\ up /\ Live /\ state \in PauseIn /\ Len(records) < MaxPauses
  /\ StorePause
  /\ UNCHANGED <<now, state, countdownEnds, deadline, up, played, charged, began, lastLock>>

Resume ==
  /\ up /\ state \in LiveStages /\ paused
  /\ countdownEnds' = now + Countdown
  /\ deadline' = DeadlineFor(IF remaining = -1 THEN Duration ELSE remaining)
  /\ remaining' = -1 /\ records' = RecordsResumed
  /\ paused' = FALSE /\ state' = "Countdown"
  /\ UNCHANGED <<now, up, played, charged, began, lastLock>>

\* closeRound: the deadline timer, or everybody has locked.
CloseRound ==
  /\ up /\ Live /\ (now >= deadline \/ state = "RoundActive")
  /\ state' = "InputLocked"
  /\ UNCHANGED <<now, paused, attempt, up, played, charged, began, lastLock>>

\* openAttempt
InputOpen == up /\ Live /\ state = "RoundActive" /\ deadline >= now

\* savePin or saveOrder with lock, for any participant.  lockTimeMs also rounds the
\* time down to its bucket; the rounding is left to Scoring, where it is done again
\* and where it counts.
Lock ==
  /\ InputOpen
  /\ lastLock' = ActiveElapsed(now)
  /\ UNCHANGED <<now, session, attempt, up, played, charged, began>>

Crash ==
  /\ up /\ state \in RestartIn /\ up' = FALSE
  /\ Live => Len(records) < MaxPauses
  /\ UNCHANGED <<now, session, attempt, played, charged, began, lastLock>>

\* recoverAfterRestart, a round that is not a race
Recover ==
  /\ ~up /\ up' = TRUE
  /\ IF Live THEN StorePause ELSE UNCHANGED <<remaining, records, paused>>
  /\ UNCHANGED <<now, state, countdownEnds, deadline, played, charged, began, lastLock>>

\* Time passes, and no due timer of a running process waits longer than Lag.
InWindow == Live /\ countdownEnds <= now /\ now < deadline

Tick ==
  /\ now < MaxNow
  /\ up /\ Live => /\ now < deadline + Lag
                   /\ state = "Countdown" => now < countdownEnds + Lag
  /\ now' = now + 1
  /\ played' = IF up /\ InWindow THEN played + 1 ELSE played
  /\ charged' = IF ~up /\ InWindow THEN charged + 1 ELSE charged
  /\ UNCHANGED <<session, attempt, up, began, lastLock>>

Next ==
  \/ Begin \/ GoActive \/ Pause \/ Resume \/ CloseRound \/ Lock
  \/ Crash \/ Recover \/ Tick

Spec == Init /\ [][Next]_vars

------------------------------------------------------------------------------
\* Properties.

\* The lock time an answer is stored with is the time the round has really been
\* running, pauses and their countdowns left out: what speed points are made of.
LockTimeExact == InputOpen => ActiveElapsed(now) = played + charged

\* A pause keeps the play time that is left, however often it happens.
PauseKeepsTime == paused => remaining = Duration - (played + charged)

\* The deadline and the pause records tell the same story: timing.ts and the
\* tests' derivation agree, as long as the time is not used up.
RecordsAgree ==
  InputOpen /\ ActiveElapsed(now) < Duration => ElapsedFromRecords(now) = ActiveElapsed(now)

\* Who locks later never gets the better time.
LaterLockNeverFaster == [][lastLock' >= lastLock]_vars
==============================================================================
