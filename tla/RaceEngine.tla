------------------------------ MODULE RaceEngine ------------------------------
(***************************************************************************)
(* One attempt of Red Light, Green Light: RaceEngine, and RaceController   *)
(* that drives it from its tick interval, the phones' holds, the host's or *)
(* the schedule's signals, and the stage engine's calls (countdown over,   *)
(* pause, close).  The stage engine is reduced to what it asks of a race.  *)
(*                                                                         *)
(* A unit of time is one tick of the interval; progress is in the distance *)
(* covered per unit.  Signals come at any time, which is more than a host  *)
(* in Manual mode or the schedule of Auto mode produces.                   *)
(***************************************************************************)
EXTENDS Integers, FiniteSets

CONSTANTS
  Players,      \* everybody in the room when the countdown ends
  Tolerance,    \* redToleranceMs of the race
  Timeout,      \* RLGL_HEARTBEAT_TIMEOUT_MS
  Track,        \* RLGL_TRACK_LENGTH
  Speed,        \* distance per unit of time
  TickGap,      \* how far apart two runs of the engine are at most, while it ticks
  MaxNow,       \* bound: the last instant
  MaxPauses     \* bound: pauses of the race

ASSUME RaceAssumption ==
  /\ IsFiniteSet(Players)
  /\ Tolerance \in Nat /\ Timeout \in Nat /\ Track \in Nat \ {0} /\ Speed \in Nat \ {0}
  /\ TickGap \in Nat \ {0} /\ MaxNow \in Nat /\ MaxPauses \in Nat

VARIABLES
  now,
  stage, paused,  \* of the session row
  running,        \* the runtime entry has an engine
  \* RaceEngine
  player,         \* the players map
  signal,         \* the latest signal event
  enginePaused, lastTick, activeMs,
  \* RaceController and the runtime's handles
  ticking,        \* the tick interval and the schedule's timers are armed
  closeAsked,     \* a tick has queued closeRound
  toWrite,        \* closeRound's job: players whose outcome is still to be written
  outcome,        \* life state in the players' answer rows, once written
  \* history
  raced,          \* time the race has been on
  green,          \* time it has been on and the light was green
  resumed,        \* when it last started or went on
  pauses          \* how often it has been paused

engine == <<player, signal, enginePaused, lastTick, activeMs>>
control == <<ticking, closeAsked, toWrite, outcome>>
history == <<raced, green, resumed, pauses>>
vars == <<now, stage, paused, running, engine, control, history>>

None == -1       \* null

Colors == {"RED", "GREEN"}
LifeStates == {"alive", "finished", "eliminated"}
Instants == Nat \cup {None}

Fresh == [progress |-> 0, state |-> "alive", holding |-> FALSE, holdSince |-> None,
          lastHeartbeat |-> None, finishActiveMs |-> None]

TypeOK ==
  /\ now \in Nat /\ stage \in {"Countdown", "RoundActive", "InputLocked"}
  /\ paused \in BOOLEAN /\ running \in BOOLEAN
  /\ player \in [Players -> [progress: 0..Track, state: LifeStates, holding: BOOLEAN,
                             holdSince: Instants, lastHeartbeat: Instants, finishActiveMs: Instants]]
  /\ signal \in [color: Colors, effectiveAt: Nat]
  /\ enginePaused \in BOOLEAN /\ lastTick \in Nat /\ activeMs \in Nat
  /\ ticking \in BOOLEAN /\ closeAsked \in BOOLEAN
  /\ toWrite \in SUBSET Players
  /\ outcome \in [Players -> LifeStates \cup {"none"}]
  /\ raced \in Nat /\ green \in Nat /\ resumed \in Nat /\ pauses \in Nat

Init ==
  /\ now = 0 /\ stage = "Countdown" /\ paused = FALSE /\ running = FALSE
  /\ player = [p \in Players |-> Fresh]
  /\ signal = [color |-> "RED", effectiveAt |-> 0]
  /\ enginePaused = FALSE /\ lastTick = 0 /\ activeMs = 0
  /\ ticking = FALSE /\ closeAsked = FALSE
  /\ toWrite = {} /\ outcome = [p \in Players |-> "none"]
  /\ raced = 0 /\ green = 0 /\ resumed = 0 /\ pauses = 0

------------------------------------------------------------------------------
\* RaceEngine.  What a handler does to a player is a function of the player.

Greatest(m, n) == IF m < n THEN n ELSE m
Least(m, n) == IF m < n THEN m ELSE n

InTolerance == now - signal.effectiveAt < Tolerance

\* eliminate, a player that is alive
Eliminated(q) ==
  IF q.state # "alive" THEN q
  ELSE [q EXCEPT !.state = "eliminated", !.holding = FALSE, !.holdSince = None]

\* Mutant: the green light counts from the last tick on.
MovesSinceTick(q) == IF q.holdSince = None THEN lastTick ELSE Greatest(lastTick, q.holdSince)

\* From when on a holding player moves under a green light.
MovesSince(q) ==
  Greatest(signal.effectiveAt, IF q.holdSince = None THEN lastTick ELSE Greatest(lastTick, q.holdSince))

ActiveMs == activeMs + (now - lastTick)

Capped(progress) == Least(Track, progress)

Moved(q) ==
  LET progress == Capped(q.progress + Speed * Greatest(0, now - MovesSince(q))) IN
    IF progress < Track THEN [q EXCEPT !.progress = progress]
    ELSE [q EXCEPT !.progress = progress, !.state = "finished",
                   !.finishActiveMs = ActiveMs, !.holding = FALSE]

Stale(q) == q.lastHeartbeat # None /\ now - q.lastHeartbeat > Timeout

\* Mutant: a red light eliminates whoever holds, at once.
AdvancedNoTolerance(q) ==
  IF q.state # "alive" \/ ~q.holding THEN q
  ELSE IF Stale(q) THEN [q EXCEPT !.holding = FALSE, !.holdSince = None]
  ELSE IF signal.color = "GREEN" THEN Moved(q)
  ELSE Eliminated(q)

\* tick, one player
Advanced(q) ==
  IF q.state # "alive" \/ ~q.holding THEN q
  ELSE IF Stale(q) THEN [q EXCEPT !.holding = FALSE, !.holdSince = None]
  ELSE IF signal.color = "GREEN" THEN Moved(q)
  ELSE IF InTolerance THEN q
  ELSE Eliminated(q)

\* tick, the engine
TickDue == ~enginePaused /\ now > lastTick
Ticked == IF TickDue THEN [p \in Players |-> Advanced(player[p])] ELSE player
TickClock ==
  /\ lastTick' = IF TickDue THEN now ELSE lastTick
  /\ activeMs' = IF TickDue THEN ActiveMs ELSE activeMs

Released(q) == [q EXCEPT !.holding = FALSE, !.holdSince = None, !.lastHeartbeat = now]

\* input with holding, after its tick
Pressed(q) ==
  LET heard == [q EXCEPT !.lastHeartbeat = now] IN
    IF signal.color = "RED"
    THEN IF InTolerance THEN [heard EXCEPT !.holding = TRUE, !.holdSince = None]
         ELSE Eliminated(heard)
    ELSE IF q.holding THEN heard
         ELSE [heard EXCEPT !.holding = TRUE, !.holdSince = Greatest(now, signal.effectiveAt)]

\* setSignal
SetSignal(color) ==
  signal' = IF signal.color = color THEN signal ELSE [color |-> color, effectiveAt |-> now]

\* Mutant: a pause stops the engine and leaves the buttons pressed.
FrozenHolding == Ticked

\* setPaused(true) is a tick, and then every hold is cleared.
Frozen ==
  IF enginePaused THEN [p \in Players |-> [player[p] EXCEPT !.holding = FALSE, !.holdSince = None]]
  ELSE [p \in Players |-> [Ticked[p] EXCEPT !.holding = FALSE, !.holdSince = None]]

\* Mutant: the race goes on from the last tick before the pause.
TickAfterPauseKept == lastTick

\* setPaused(false); the tick it starts with does nothing while paused.
TickAfterPause == now

NoRacerCanContinue == \A p \in Players : player'[p].state # "alive"

------------------------------------------------------------------------------
\* RaceController, and the stage engine's part of it.

\* Mutant: a resumed race gets a new engine.
KeepsEngineNever == FALSE

\* Whether the countdown's end finds an engine to go on with.
KeepsEngine == running

\* onActive: a new engine for a new attempt, or the frozen one goes on.
OnActive ==
  /\ stage = "Countdown" /\ ~paused
  /\ stage' = "RoundActive" /\ running' = TRUE
  /\ player' = IF KeepsEngine THEN player ELSE [p \in Players |-> Fresh]
  /\ enginePaused' = FALSE
  /\ lastTick' = IF KeepsEngine THEN TickAfterPause ELSE now
  /\ activeMs' = IF KeepsEngine THEN activeMs ELSE 0
  /\ IF KeepsEngine THEN SetSignal("RED") ELSE signal' = [color |-> "RED", effectiveAt |-> now]
  /\ ticking' = TRUE
  /\ resumed' = now
  /\ UNCHANGED <<now, paused, closeAsked, toWrite, outcome, raced, green, pauses>>

\* tick of the interval
Tick ==
  /\ ticking
  /\ player' = Ticked /\ TickClock
  /\ closeAsked' = (closeAsked \/ NoRacerCanContinue)
  /\ UNCHANGED <<now, stage, paused, running, signal, enginePaused, ticking, toWrite, outcome, history>>

\* input: a phone's hold or release.  No stage is asked for.
Input(p, holding) ==
  /\ running /\ player[p].state = "alive" /\ ~enginePaused
  /\ player' = [Ticked EXCEPT ![p] = IF holding THEN Pressed(@) ELSE Released(@)]
  /\ TickClock
  /\ UNCHANGED <<now, stage, paused, running, signal, enginePaused, ticking,
                 closeAsked, toWrite, outcome, history>>

\* hostSignal in Manual mode, armNextSignal in Auto.  The host's button asks
\* for an engine, and not for a race that is on.
ApplySignal(color) ==
  /\ running
  /\ SetSignal(color)
  /\ UNCHANGED <<now, stage, paused, running, player, enginePaused, lastTick, activeMs, control, history>>

\* PAUSE, with onPause.  Not while closeRound's job runs: both are queued.
Pause ==
  /\ stage \in {"Countdown", "RoundActive"} /\ ~paused /\ toWrite = {}
  /\ pauses < MaxPauses /\ pauses' = pauses + 1
  /\ paused' = TRUE /\ ticking' = FALSE
  /\ IF running
     THEN player' = Frozen /\ TickClock /\ enginePaused' = TRUE
     ELSE UNCHANGED <<player, lastTick, activeMs, enginePaused>>
  /\ UNCHANGED <<now, stage, running, signal, closeAsked, toWrite, outcome,
                 raced, green, resumed>>

Resume ==
  /\ paused
  /\ paused' = FALSE /\ stage' = "Countdown"
  /\ UNCHANGED <<now, running, engine, control, history>>

\* closeRound begins, for the deadline or for a tick: onClose ticks once more.  In a
\* countdown it may begin too, but there no fate can have changed since.
BeginClose ==
  /\ stage = "RoundActive" /\ ~paused /\ toWrite = {}
  /\ player' = Ticked /\ TickClock
  /\ toWrite' = Players
  /\ UNCHANGED <<now, stage, paused, running, signal, enginePaused, ticking, outcome, history>>

CloseAtDeadline == BeginClose /\ UNCHANGED closeAsked
CloseWhenAsked == closeAsked /\ BeginClose /\ closeAsked' = FALSE

\* The request comes too late.
DropClose ==
  /\ closeAsked /\ toWrite = {} /\ (paused \/ stage = "InputLocked")
  /\ closeAsked' = FALSE
  /\ UNCHANGED <<now, stage, paused, running, engine, ticking, toWrite, outcome, history>>

\* Each outcome is written, and awaited, on its own; the last one ends the job.
WriteOutcome ==
  \E p \in toWrite :
    /\ outcome' = [outcome EXCEPT ![p] = player[p].state]
    /\ toWrite' = toWrite \ {p}
    /\ IF toWrite = {p}
       THEN stage' = "InputLocked" /\ ticking' = FALSE
       ELSE UNCHANGED <<stage, ticking>>
    /\ UNCHANGED <<now, paused, running, engine, closeAsked, history>>

RaceOn == running /\ ~enginePaused

Time ==
  /\ now < MaxNow
  /\ ticking => now - lastTick < TickGap
  /\ now' = now + 1
  /\ raced' = IF RaceOn THEN raced + 1 ELSE raced
  /\ green' = IF RaceOn /\ signal.color = "GREEN" THEN green + 1 ELSE green
  /\ UNCHANGED <<stage, paused, running, engine, control, resumed, pauses>>

Next ==
  \/ OnActive \/ Tick \/ Pause \/ Resume
  \/ \E p \in Players, holding \in BOOLEAN : Input(p, holding)
  \/ \E color \in Colors : ApplySignal(color)
  \/ CloseAtDeadline \/ CloseWhenAsked \/ DropClose \/ WriteOutcome
  \/ Time

Spec == Init /\ [][Next]_vars

------------------------------------------------------------------------------
\* Properties.

\* Only green grants distance: nobody is further than the green light lasted,
\* however ticks, inputs, signals and pauses interleave.
GreenOnly == \A p \in Players : player[p].progress <= Speed * green

\* The engine's clock is the time the race was on: what finishActiveMs is taken
\* from, and with it the speed points.
ActiveTimeExact ==
  running => activeMs + (IF enginePaused THEN 0 ELSE now - lastTick) = raced

Dies(p) == player[p].state = "alive" /\ player'[p].state = "eliminated"

\* Nobody is eliminated before the tolerance of the red light is over.
ToleranceRespected ==
  [][\A p \in Players : Dies(p) => signal.color = "RED" /\ ~InTolerance]_vars

\* Nobody is eliminated for a press from before a pause.
NoStaleKill ==
  [][\A p \in Players : Dies(p) => player'[p].lastHeartbeat >= resumed]_vars

\* Eliminated and finished players stay so, and so do written outcomes of them,
\* in whatever order inputs, ticks and writes come.
FatesFinal ==
  [][\A p \in Players :
       /\ running /\ player[p].state # "alive" => player'[p].state = player[p].state
       /\ outcome[p] \in {"finished", "eliminated"} => player[p].state = outcome[p]]_vars

\* "Absence alone never kills" (race-engine.ts:136).  Not so: see the README.
AbsenceNeverKills ==
  [][\A p \in Players : Dies(p) => player'[p].lastHeartbeat >= signal.effectiveAt]_vars
==============================================================================
