-------------------------------- MODULE Desk --------------------------------
(***************************************************************************)
(* The host's desks: what the page offers to press, what becomes of a      *)
(* press that is late, and what the server does when every desk is gone.   *)
(*                                                                         *)
(* "room" is the session as a snapshot tells it.  A desk that shows an old *)
(* snapshot and is pressed is the same as one that was pressed while the   *)
(* snapshot was the newest and whose press is late, so a desk always shows *)
(* the room here, and a press carries the moment it was made for.  Signals *)
(* are in RaceEngine and AutoSchedule, joining and the roster in Sessions, *)
(* attempts and their timers in StageEngine.                               *)
(***************************************************************************)
EXTENDS Integers, Bags, Transitions

CONSTANTS
  GameCount,    \* games of the session; the page knows that there are three
  RoundCount,   \* scored rounds of a game
  LastStep,     \* the step that shows the whole table, 4 in the code
  EmptySteps,   \* steps before it with nobody to reveal: a tie skipped the place
  PageCount,    \* pages of the standings
  MaxAttempts,  \* bound: no press prepares an attempt beyond this many
  MaxSent,      \* bound: presses under way, of all desks
  MaxDesks      \* bound: desks that are open at a time

ASSUME DeskAssumption ==
  /\ {GameCount, RoundCount, LastStep, PageCount, MaxSent} \subseteq Nat \ {0}
  /\ {MaxAttempts, MaxDesks} \subseteq Nat /\ EmptySteps \subseteq 1..LastStep - 1

VARIABLES
  room,       \* the session and its current attempt
  sent,       \* the presses under way, a bag
  hosts,      \* how many desks have a socket
  hostTimer,  \* whether the grace after the last desk left is running
  autoPause   \* how far the automatic pause has got

deskVars == <<room, sent, hosts, hostTimer, autoPause>>

DeskInit ==
  /\ room = [stage |-> "Lobby", paused |-> FALSE, game |-> 0, cursor |-> -1,
             attempt |-> 0, practice |-> FALSE, tie |-> FALSE, created |-> 0,
             podium |-> 0, ceremony |-> 0, page |-> 0]
  /\ sent = EmptyBag
  /\ hosts = 0 /\ hostTimer = FALSE /\ autoPause = "no"

------------------------------------------------------------------------------
\* What the page offers, from the room alone.

LastGame(r) == r.game >= GameCount - 1

\* buildSnapshot counts from one; a tie-break is round 900 of its game.
roundNumber(r) == IF r.tie THEN 901 ELSE IF r.practice THEN 1 ELSE r.cursor + 1

Step(r) == IF r.stage = "GameResults" THEN r.podium ELSE r.ceremony
nextStepFor(r) == IF Step(r) < LastStep THEN Step(r) + 1 ELSE LastStep

Live(r) == r.stage \in LiveStages

\* Mutant: one round too many.
primaryActionForOneMore(r) ==
  CASE r.paused -> "RESUME"
    [] ~r.paused /\ r.stage = "Lobby" -> "SHOW_INSTRUCTIONS"
    [] ~r.paused /\ r.stage = "Instructions" -> "START_PRACTICE"
    [] ~r.paused /\ r.stage = "Ready" -> "START_ROUND"
    [] ~r.paused /\ r.stage = "InputLocked" -> "REVEAL"
    [] ~r.paused /\ r.stage = "Reveal" ->
         IF r.practice THEN "START_GAME"
         ELSE IF roundNumber(r) > RoundCount THEN "SHOW_GAME_RESULTS" ELSE "NEXT_ROUND"
    [] ~r.paused /\ r.stage = "GameResults" ->
         IF r.podium < LastStep THEN "PODIUM_STEP"
         ELSE IF LastGame(r) THEN "SHOW_FINAL_RESULTS" ELSE "NEXT_GAME"
    [] ~r.paused /\ r.stage = "TournamentResults" /\ r.ceremony < LastStep -> "CEREMONY_STEP"
    [] OTHER -> "NONE"

primaryActionFor(r) ==
  CASE r.paused -> "RESUME"
    [] ~r.paused /\ r.stage = "Lobby" -> "SHOW_INSTRUCTIONS"
    [] ~r.paused /\ r.stage = "Instructions" -> "START_PRACTICE"
    [] ~r.paused /\ r.stage = "Ready" -> "START_ROUND"
    [] ~r.paused /\ r.stage = "InputLocked" -> "REVEAL"   \* REVEAL_PRACTICE or REVEAL_RESULTS
    [] ~r.paused /\ r.stage = "Reveal" ->
         IF r.practice THEN "START_GAME"
         ELSE IF roundNumber(r) >= RoundCount THEN "SHOW_GAME_RESULTS" ELSE "NEXT_ROUND"
    [] ~r.paused /\ r.stage = "GameResults" ->
         IF r.podium < LastStep THEN "PODIUM_STEP"
         ELSE IF LastGame(r) THEN "SHOW_FINAL_RESULTS" ELSE "NEXT_GAME"
    [] ~r.paused /\ r.stage = "TournamentResults" /\ r.ceremony < LastStep -> "CEREMONY_STEP"
    [] OTHER -> "NONE"

\* BY_STATE, without what its filter takes out.
BY_STATE(r) ==
  [Lobby        |-> {"SHOW_INSTRUCTIONS"},
   Instructions |-> {"SHOW_INSTRUCTIONS", "START_PRACTICE", "START_GAME"},
   Ready        |-> {"START_ROUND"},
   InputLocked  |-> {"REVEAL"},
   Reveal       |-> IF r.practice THEN {"START_GAME"}
                    ELSE {"SHOW_GAME_RESULTS"} \cup
                         IF roundNumber(r) < RoundCount THEN {"NEXT_ROUND"} ELSE {},
   GameResults  |-> {"SHOW_INSTRUCTIONS", "NEXT_GAME", "SHOW_FINAL_RESULTS"}]

secondaryActionsFor(r) ==
  IF r.paused \/ r.stage \notin DOMAIN BY_STATE(r) THEN {}
  ELSE BY_STATE(r)[r.stage] \ {primaryActionFor(r)}

pauseActionFor(r) == IF Live(r) /\ ~r.paused THEN {"PAUSE"} ELSE {}

\* A press as PrimaryActionComponent sends it; only steps and pages have a payload.
Plain(a) == [action |-> a, arg |-> 0]
StepAction(r) == IF r.stage = "TournamentResults" THEN "CEREMONY_STEP" ELSE "PODIUM_STEP"
PrimaryPress(r) ==
  LET a == primaryActionFor(r) IN
    IF a \in {"PODIUM_STEP", "CEREMONY_STEP"} THEN [action |-> a, arg |-> nextStepFor(r)] ELSE Plain(a)

OnResults(r) == r.stage \in {"GameResults", "TournamentResults"}

\* podium-stepper: every step but those with nobody to reveal.
StepperPresses(r) ==
  IF OnResults(r) THEN {[action |-> StepAction(r), arg |-> n] : n \in (0..LastStep) \ EmptySteps} ELSE {}

\* standings-pager, which stands below the whole table.
showPager(r) == OnResults(r) /\ Step(r) >= LastStep
PagerPresses(r) ==
  IF ~showPager(r) THEN {}
  ELSE {[action |-> "STANDINGS_PAGE", arg |-> n] : n \in {r.page - 1, r.page + 1} \cap 0..PageCount - 1}

Presses(r) ==
  (IF primaryActionFor(r) = "NONE" THEN {} ELSE {PrimaryPress(r)})
    \cup {Plain(a) : a \in secondaryActionsFor(r) \cup pauseActionFor(r)}
    \cup StepperPresses(r) \cup PagerPresses(r)

\* Questions the page can ask: voiding needs a real attempt, a tie-break the final standings.
canVoid(r) == r.attempt # 0 /\ ~r.practice
Questions(r) ==
  (IF canVoid(r) THEN {"VOID_ROUND"} ELSE {})
    \cup (IF r.stage = "TournamentResults" THEN {"START_TIEBREAK"} ELSE {})

------------------------------------------------------------------------------
\* What the server does with a press: RoundsService.act.

\* Mutant: a second press prepares the game's first round again.
canTransitionFromReady(r, a) ==
  /\ r.stage \in ALLOWED[a] \/ (a = "START_GAME" /\ r.stage = "Ready")
  /\ a = "PAUSE" => ~r.paused
  /\ a = "RESUME" => r.paused
  /\ r.paused => a \in {"RESUME", "VOID_ROUND"}

canTransition(r, a) ==
  /\ r.stage \in ALLOWED[a]
  /\ a = "PAUSE" => ~r.paused
  /\ a = "RESUME" => r.paused
  /\ r.paused => a \in {"RESUME", "VOID_ROUND"}

Prepares == {"START_PRACTICE", "START_GAME", "NEXT_ROUND", "VOID_ROUND", "START_TIEBREAK"}
NextCursor(r) == IF r.practice THEN 0 ELSE r.cursor + 1

\* canTransition and dispatch's own refusals
Allowed(r, a) ==
  /\ canTransition(r, a)
  /\ a \in {"START_ROUND", "PAUSE", "RESUME", "REVEAL", "VOID_ROUND"} => r.attempt # 0
  /\ a = "START_GAME" /\ r.stage = "Reveal" => r.practice
  /\ a = "NEXT_ROUND" => NextCursor(r) < RoundCount
  /\ a = "NEXT_GAME" => r.game + 1 < GameCount

Accepted(r, a) == Allowed(r, a) /\ (a \in Prepares => r.created < MaxAttempts)

Prepared(r, stage, cursor, practice, tie) ==
  [r EXCEPT !.stage = stage, !.cursor = cursor, !.practice = practice, !.tie = tie,
            !.paused = FALSE, !.attempt = r.created + 1, !.created = r.created + 1]
NoAttempt(r, stage) == [r EXCEPT !.stage = stage, !.attempt = 0, !.practice = FALSE, !.tie = FALSE]

Clamp(n) == IF n < 0 THEN 0 ELSE IF n > LastStep THEN LastStep ELSE n

\* dispatch
Dispatched(r, p) ==
  CASE p.action = "SHOW_INSTRUCTIONS" ->
         [NoAttempt(r, "Instructions") EXCEPT !.game = IF r.stage = "Lobby" THEN 0 ELSE @, !.cursor = -1]
    [] p.action = "START_PRACTICE" -> Prepared(r, "Countdown", r.cursor, TRUE, FALSE)
    [] p.action = "START_GAME" -> Prepared(r, "Ready", 0, FALSE, FALSE)
    [] p.action = "START_ROUND" -> [r EXCEPT !.stage = "Countdown", !.paused = FALSE]
    [] p.action = "PAUSE" -> [r EXCEPT !.paused = TRUE]
    [] p.action = "RESUME" -> [r EXCEPT !.paused = FALSE, !.stage = "Countdown"]
    [] p.action = "REVEAL" -> [r EXCEPT !.stage = IF r.tie THEN "TournamentResults" ELSE "Reveal"]
    [] p.action = "NEXT_ROUND" -> Prepared(r, "Ready", NextCursor(r), FALSE, FALSE)
    [] p.action = "SHOW_GAME_RESULTS" -> [NoAttempt(r, "GameResults") EXCEPT !.podium = 0, !.page = 0]
    [] p.action = "PODIUM_STEP" -> [r EXCEPT !.podium = Clamp(p.arg)]
    [] p.action = "NEXT_GAME" -> [NoAttempt(r, "Instructions") EXCEPT !.game = @ + 1, !.cursor = -1]
    [] p.action = "SHOW_FINAL_RESULTS" ->
         [NoAttempt(r, "TournamentResults") EXCEPT !.ceremony = 0, !.page = 0]
    [] p.action = "CEREMONY_STEP" -> [r EXCEPT !.ceremony = Clamp(p.arg)]
    [] p.action = "STANDINGS_PAGE" -> [r EXCEPT !.page = p.arg]
    [] p.action = "VOID_ROUND" ->
         Prepared(r, IF r.practice THEN "Instructions" ELSE "Ready", r.cursor, r.practice, r.tie)
    [] p.action = "START_TIEBREAK" -> Prepared(r, "Ready", r.cursor, FALSE, TRUE)

------------------------------------------------------------------------------
\* The desk.

\* What a press was made for.  In the instructions no round is on stage: the
\* attempt that a voided practice leaves there is not shown, and nobody plays it.
Moment(r) == [game |-> r.game, stage |-> r.stage, paused |-> r.paused,
              attempt |-> IF r.stage = "Instructions" THEN 0 ELSE r.attempt]

\* act.  The buttons are disabled until the answer is back, 4 s have passed or
\* another call of the page ends, so a desk may be pressed again meanwhile.
\* Bound: of two desks none is pressed, as one that is pressed twice does as much.
Send(p, asked) ==
  /\ hosts = 1 /\ BagCardinality(sent) < MaxSent
  /\ sent' = sent (+) SetToBag({[press |-> p, for |-> Moment(room), asked |-> asked]})
  /\ UNCHANGED <<room, hosts, hostTimer, autoPause>>

Press == \E p \in Presses(room) : Send(p, FALSE)

\* voidRound and tieBreak, which ask first.  The answer carries no attempt and
\* the page does not look again whether the question still stands: a dialog
\* that is left open is a press that is late.  Bound: one dialog of all desks;
\* a page has one, as a second question takes the place of the first.
Ask ==
  /\ \A s \in BagToSet(sent) : ~s.asked
  /\ \E q \in Questions(room) : Send(Plain(q), TRUE)

\* SessionsService.close, by the route beside the queue: pause stays as it is.
CloseSession ==
  /\ hosts > 0 /\ room.stage # "Closed"
  /\ room' = [room EXCEPT !.stage = "Closed"]
  /\ UNCHANGED <<sent, hosts, hostTimer, autoPause>>

\* Bound: a press made for an earlier stage is handled or lost before the round
\* that is on stage has counted down or is voided; both take seconds.
Prompt == \A s \in BagToSet(sent) : s.asked \/ s.for = Moment(room)

Without(s) == sent' = sent (-) SetToBag({s})

Handle(s) ==
  /\ hosts > 0 /\ Without(s)
  /\ s.press.action = "VOID_ROUND" => Prompt
  /\ room' = IF Accepted(room, s.press.action) THEN Dispatched(room, s.press) ELSE room
  /\ UNCHANGED <<hosts, hostTimer, autoPause>>

\* emitAck gives up on a press that did not get through.
Lose(s) == Without(s) /\ UNCHANGED <<room, hosts, hostTimer, autoPause>>

\* The timers of the round.
CountdownEnds ==
  /\ room.stage = "Countdown" /\ ~room.paused /\ Prompt
  /\ room' = [room EXCEPT !.stage = "RoundActive"]
  /\ UNCHANGED <<sent, hosts, hostTimer, autoPause>>

RoundEnds ==
  /\ room.stage = "RoundActive" /\ ~room.paused
  /\ room' = [room EXCEPT !.stage = "InputLocked"]
  /\ UNCHANGED <<sent, hosts, hostTimer, autoPause>>

------------------------------------------------------------------------------
\* The sockets of the desks.  Bound: they come and go between presses.

HostConnects ==
  /\ sent = EmptyBag /\ hosts < MaxDesks /\ hosts' = hosts + 1
  /\ hostTimer' = FALSE
  /\ UNCHANGED <<room, sent, autoPause>>

\* The grace begins when no other desk is connected.
HostDisconnects ==
  /\ sent = EmptyBag /\ hosts > 0 /\ hosts' = hosts - 1
  /\ hostTimer' = (hostTimer \/ hosts = 1)
  /\ UNCHANGED <<room, sent, autoPause>>

\* Bound: the automatic pause of the time before is done within the grace.
GraceOver ==
  /\ hostTimer /\ autoPause = "no"
  /\ hostTimer' = FALSE /\ autoPause' = "reading"
  /\ UNCHANGED <<room, sent, hosts>>

\* Mutant: a countdown is not paused.
PausableActive(r) == r.stage = "RoundActive" /\ ~r.paused

Pausable(r) == Live(r) /\ ~r.paused

ReadForPause ==
  /\ autoPause = "reading"
  /\ autoPause' = IF Pausable(room) THEN "queued" ELSE "no"
  /\ UNCHANGED <<room, sent, hosts, hostTimer>>

\* act('PAUSE') tests the room again; nobody asks whether a desk is back.
PauseForHost ==
  /\ autoPause = "queued" /\ autoPause' = "no"
  /\ room' = IF Accepted(room, "PAUSE") THEN Dispatched(room, Plain("PAUSE")) ELSE room
  /\ UNCHANGED <<sent, hosts, hostTimer>>

AutoPause == GraceOver \/ ReadForPause \/ PauseForHost

DeskNext ==
  \/ Press \/ Ask \/ CloseSession
  \/ \E s \in BagToSet(sent) : Handle(s) \/ Lose(s)
  \/ HostConnects \/ HostDisconnects
  \/ CountdownEnds \/ RoundEnds \/ AutoPause

------------------------------------------------------------------------------
\* Properties.

\* The one next press of the desk is never a dead end: in every room that is
\* not closed, the server accepts the primary action the page derives from it.
PrimaryAccepted ==
  room.stage # "Closed" /\ primaryActionFor(room) # "NONE" => Allowed(room, primaryActionFor(room))

\* "s" is handled or lost by this step, and the room is no longer the one it was
\* made for.  Answers to a question are left out: they carry no attempt and may
\* come at any time.
Copies(s, bag) == IF BagIn(s, bag) THEN bag[s] ELSE 0
HandledLate(s) ==
  Copies(s, sent') < Copies(s, sent) /\ ~s.asked /\ s.for # Moment(room)
MovesNothing == room'.stage = room.stage /\ room'.game = room.game /\ room'.attempt = room.attempt

\* The press that ends a practice meets the instructions to which a dialog left open
\* since an earlier round has taken that practice back: the game starts without it.
PracticeTakenBack(s) ==
  /\ s.press.action = "START_GAME" /\ s.for.stage = "Reveal"
  /\ room.stage = "Instructions" /\ room.game = s.for.game

\* Two desks, or one that is pressed twice: a press that was made for another
\* game, attempt or stage than the one it meets moves nothing on, with that one
\* exception.
StalePressHarmless ==
  [][\A s \in BagToSet(sent) :
       HandledLate(s) /\ ~PracticeTakenBack(s) => MovesNothing]_deskVars

\* A round that runs while no desk is connected is paused, unless it ends or a
\* desk comes back first.
HostAbsencePauses ==
  (Pausable(room) /\ hosts = 0) ~> (hosts > 0 \/ ~Live(room) \/ room.paused)
=============================================================================
