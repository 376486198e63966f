# ASAS Challenge: TLA+ models of the live event engine

The repository is a live quiz for a room full of phones: a NestJS API
(`src/apps/api`), an Angular client (`src/apps/web`) with a phone, a host and a
display view, and a shared package (`src/packages/shared`). One host leads a
session through three games (a hold-the-button race, pin the country, order the
cards). This directory holds TLA+ models of the system, the configurations that
check them with TLC, and proofs checked by TLAPS.

To check a run: `tlc -config <cfg> <module>`; to check proofs: `tlapm <module>`.
`PROJECT.json` lists components, runs, findings, hazards and theorems, and
gives for every definition the lines of the source it models.

## The system

| Part | State | Operations | Talks to |
|---|---|---|---|
| Stage engine (`rounds.service.ts`, `transitions.ts`, `live-runtime.ts`) | session row (stage, pause flag, game and round cursor, current attempt), `round_attempts` rows, per session a promise queue, a runtime entry and its timers | `act`/`dispatch`, timer callbacks, `closeRound`, `reveal`, `recoverAfterRestart` | all others |
| Round clock (`rounds.service.ts`, `round-repo.ts`, `timing.ts`) | countdown end, deadline, paused remainder, pause records of an attempt | begin, pause, resume, recovery, lock time | stage engine, participation |
| Race (`race-engine.ts`, `race.controller.ts`, `auto-schedule.ts`) | players, signals, engine clock in memory; outcomes in `answers` | hold and release, signals, tick, pause, close | stage engine, gateway |
| Participation (`participation.service.ts`, `round-repo.ts`) | `answers` rows | save, lock, auto-close, own state | stage engine, race, gateway |
| Scoring and standings (`scoring.ts`, `round-scoring.ts`, `standings.service.ts`, `podium.ts`) | scores in `answers`, `tie_break` values | pure functions, sums and ranks | stage engine |
| Sessions and identity (`sessions.service.ts`, `sessions.controller.ts`) | session and participant rows, controller ids | join, restore, rename, remove, ready, close | gateway, stage engine |
| Realtime gateway (`events.gateway.ts`) | sockets, host grace timers | connect, disconnect, automatic pause, message handlers | all |
| Rehearsal bots (`simulation.service.ts`) | bots and their running round | reacts to snapshots and signals like phones | participation, race |
| Geometry (`geometry.ts`) | none | is a pin inside a country, and how far | scoring |
| Client state (`realtime.service.ts`) | last snapshot, own state, race view | merge of `snapshot`, `race`, `me`, `signal` | gateway |
| Phone (`play.component.ts`, `hold-button`, `globe`, `order-cards`) | drafts, save timers, the pressed pad, gestures | tap, drag, lock, hold | client state |
| Way in (`join.component.ts`, `storage.ts`) | code, preview, calls, the kept identity | join, recover, confirm, leave | sessions |
| Host's desk (`host.component.ts`, `next-action.ts`, dialogs) | the session shown, roster, calls, dialog | sign in, open, press, ask | gateway, sessions |
| Display and preview (`display.component.ts`, `race-arena`, `audience-preview`) | bursts, flashing cards, what is shown | follow snapshots and events | client state |
| Languages (`locale.service.ts`) | language of each view, what is kept | choose, default, override | snapshot, join page |

What makes it hard:

* host commands, timers and `closeRound` are queued per session, but inputs, the
  race tick, the REST close route and joins run beside the queue and read rows
  they later write about;
* timers and queued jobs belong to an attempt and outlive it;
* the process may die at any moment: rows stay, memory, timers and queued jobs
  go, and a job that writes several rows can be cut in half;
* time is kept as a deadline only, rewritten by every pause and resume;
* the race is simulated in steps of about 100 ms, between which signals, holds
  and releases arrive in any order;
* clients get snapshots, race ticks and personal states on one socket with
  different delays behind them, and answers to their own calls whenever these
  come, for a page that may show something else by then;
* desk, preview, display and phone each derive from the same snapshot what is
  going on and what comes next, with rules of their own;
* points pass through buckets, caps, roundings, replays and tie-breaks before
  they become places.

What makes the parts correct:

* stage engine: attempts are prepared, opened, closed and published in this
  order, one at a time; a running round ends; the attempt on stage is the one of
  the session's cursor; no round counts twice; recovery restores all of this;
* clock: lock times are the time the round was really running; pauses neither
  give nor take play time;
* race: only green moves, nobody dies unfairly, fates are final, a race ends;
  every automatic schedule has green time enough;
* participation: what was confirmed as locked is what gets scored; the round
  closes early when, and only when, enough have locked;
* scoring: better answers get more points, a replay starts from nothing, ties are
  resolved among the tied, the podium shows the top three and nobody else;
* sessions: no more people than seats, no number twice, and only the device in
  control of an identity speaks for it;
* phone: no state of an old attempt is shown with a new one, the last tap is what
  the server has, a pad that is gone holds nothing;
* desk: the next press is accepted, a late press does no harm, the page is about
  one session;
* all pages: they say the same thing.

## Modules

| Module | What it is |
|---|---|
| `Transitions` | the stages and the table of host actions, for `StageEngine` and `Desk` |
| `StageEngine` | the stage engine over its rows, memory, queue and timers, with crashes; its mapping to `AttemptLifecycle` |
| `AttemptLifecycle` | what the stage engine promises about attempts: prepared, open, closed, published, void, and nothing out of order |
| `StageEngineProofs`, `MCStageEngine` | its proofs; two games, one of them the race, for TLC |
| `RoundClock`, `RoundClockProofs` | timestamps of one attempt and the lock times read from them |
| `RaceEngine`, `RaceEngineProofs`, `MCRaceEngine` | one race: engine, controller, closing |
| `Answers`, `AnswersProofs` | the answers of a globe or ordering round, beside closing, revealing, voiding |
| `Scoring` | scoring, ranking and podium as operators |
| `Results`, `ResultsProofs`, `MCResults` | from answers to places, through reveals, replays and tie-breaks, with the operators of `Scoring`; proofs about both |
| `AutoSchedule` | the automatic signals, as operators |
| `Rehearsal`, `RehearsalProofs` | the bots' runs in a race, with purges and restarts |
| `Desk` | what the host's pages offer, late presses, the automatic pause |
| `Screens` | what desk, preview, display and phone make of a room of `Desk` |
| `Phone` | the phone in one round: drafts, saves, locks, the pad |
| `Display` | the shared display in races: announcements and flashing cards |
| `Pages`, `PagesProofs` | composes `Screens` (and `Desk`), `Phone` and `Display`; proofs about the three |
| `ClientSync` | what one phone shows, over a socket that carries states read at different times |
| `Sessions` | the participants' table: joining, recovery, removal, controllers, sockets |
| `JoinPage` | the phone's way in and the identity it keeps |
| `Globe` | the gestures on the globe |
| `Languages` | the language of three views in one browser |
| `Tables` | the table of standings: search, pages, the viewer's row |
| `Console` | which session the host's page is about |
| `Devices`, `DevicesProofs` | composes `ClientSync`, `Sessions`, `JoinPage`, `Globe`, `Languages`, `Tables` and `Console`; the theorems about all of them with their proofs |
| `Geometry`, `MCGeometry` | whether a pin is inside a country |

`Pages` and `Devices` choose one of their parts in the initial state and let
only this one move: the parts share nothing but the server's rows, of which each
module has what its page depends on, so a run costs the sum of their states
and not the product.

### StageEngine

Variables are the columns of the session row (`stage`, `paused`, `gameIndex`,
`roundIndex`, `current`, `closedAt`), the `round_attempts` table (`attempts` for
what each row was created for; `closed`, `revealed`, `scored`, `voided` for which
rows have those columns set; `timeLeft` for whether the deadline lies after the
end of the countdown) and the memory of the process (`live`, `timers`, `jobs`,
`late`, `booting`). Every host action is one action, with the guard of
`canTransition` and its own early returns, and all the rows it writes. Timer
callbacks and `closeRound` go through `jobs`, the queue of `serial`; host actions
read the row when they run, so where they stood in the queue cannot be told
apart from when they ran, and they have no entry in it. Input handlers and the
REST route run beside the queue.

`Faults` says what the environment may do: close over REST, die inside a job,
have an input handler wait while other things happen, find no play time left at
a pause, or let jobs wait longer than a countdown lasts.

Left out here: podium and ceremony steps and the standings page (`Desk`),
`tie_break` and scores (`Results`), languages, `seq`, `ready`, the frozen content
(a game has enough rounds or it has not), audit rows. A reveal and a close write
the session's stage unconditionally after the attempt's row; that gap is the torn
actions'.

### RoundClock

Time is a counter. `now` and the attempt's `countdownEnds`, `deadline`,
`remaining` and `records` are as in the row; `played` and `charged` record how
long the round has really been running, with and without a process. Timers run
between their due time and `Lag` units later. Locking stores `ActiveElapsed`,
`timing.ts`'s inference from the deadline. `PauseIn` and `RestartIn` say in which
stages the host pauses and the process dies.

### RaceEngine

What a handler does to a player is a function of the player (`Advanced` for the
tick, `Pressed` and `Released` for a hold message, `Frozen` for a pause), applied
to the map of players. As in the code every input, pause and close begins with a
tick; a signal does not. `toWrite` holds the players whose outcome `onClose` has
still to write; inputs and ticks go on meanwhile. Signals may come at any time,
also while paused or after the close, as `hostSignal` only asks for an engine;
this includes everything the schedule of Auto mode does. Distances, the names in
snapshots, the `eliminated` events (`Display`, `ClientSync`) and the 5 Hz position
events are left out.

### Answers

`present` and `removed` are the participants, `answers` the table of that name,
`scores` what a reveal writes with the row it was computed from; `registered` is
`participant_count`, as the set of the people it counted. An input handler has
three steps, with the database between them: `Accept` (`openAttempt` and the
validation), `Write` (the conditional upsert of `save` and `lock`) and `Count`
(`afterInput`: the answer to the phone, the count, the request to close). The
same player may have several under way, from two tabs or an impatient hand.
`closing` are the requests that wait in the session's queue. The host's actions
and the timers are those of `StageEngine`, reduced to what they do to a round
with answers; a round is either for everybody or, if `scope` is not empty, a
tie-break, whose participants have joined before.

Left out: the rate limit and the check of the controller, which only refuse
inputs, and the check against the deadline, as whether the deadline's job has run
by then is left open (`RoundClock` has the times). The row and the count that
`Count` reads are taken at one instant. `told` records locks that were confirmed
before the round was revealed.

### Scoring and Results

`Scoring` has the functions of `scoring.ts`, `podium.ts` and `round-scoring.ts`
for both rule sets: the points of each game with their buckets, windows, caps and
shared race ranks, what `numeric(8,3)` keeps of them, a game's displayed score,
the order and the ranks of the standings, tie-break values, tied groups and the
bands of the podium. Points are counted in 1/300 of a point, in which every
fraction of the code is a whole number, so nothing is rounded that the code does
not round.

`Results` plays a session's last game: a round is prepared, played to whatever its
participants ended up with (`RoundPlayed`), revealed, voided and replayed,
followed by another; then come game results, final results and tie-breaks. The
totals are computed as the query of `round-repo.ts` does it, from the latest
attempt of each round that counts. `attempts` are `round_attempts` with their
answers and scores, `tie_break` the column of that name. `before` keeps everybody's
total from before the round on stage.

What a row may hold is stated by `RaceRows`, `GeoRows` and `OrderRows`: a racer who
reached the end of the track has finished and has a time, a pin is inside if and only
if its distance is zero, a time is written together with the lock. Distances are whole
kilometres and progress whole units. This is coarser than the code in one place: a
pin a few metres outside, or a racer a hair before the line, can be stored with the
points of one that is inside or through without speed points, as `raw_score` keeps
three decimals.

### AutoSchedule and Rehearsal

`AutoSchedule` computes with units of 100 ms which schedules may come out for a
content and a time left: all draws with enough green time, and the fallback. The
random draws are taken at the ends of their ranges, each draw repeating itself.

`Rehearsal` has the bots: `calls` are the invocations of `onSnapshot` between their
two awaits, `runs` all the `Run` objects ever made with the timers and the
heartbeat they own, `current` the only one the service's map knows, `cache` its
list of bots. The race is reduced to who is registered, who still runs and which
colour shows. `Close` writes an outcome per registered player; the write fails
for a bot that was purged, in a promise nobody handles, and Node ends the
process, after which `Restart` voids the race.

### Desk

`room` is the session and its current attempt as a snapshot tells it. `Presses`
and `Questions` are what the page derives from it (`next-action.ts`, the stepper,
the pager, the dialogs), `Dispatched` what the server makes of a press. A desk
that shows an old snapshot and is pressed is the same as one that was pressed
while the snapshot was new and whose press is late: so `sent`, a bag, carries
each press with the moment (game, attempt, stage, pause) it was made for, and
presses are handled in any order, or lost. `hosts`, `hostTimer` and `autoPause`
are the sockets of the desks, the grace timer and the three steps of the automatic
pause. In the instructions the moment has no attempt: voiding a practice leaves one
there, which nobody plays before it is prepared again.

`StalePressHarmless` leaves out one press, `PracticeTakenBack`: a practice is revealed,
the host presses Start game, and a question about voiding that was left open since an
earlier round is confirmed first; the press then meets the instructions and starts the
game without the practice.

`Prompt` is an assumption about time: a press made for an earlier stage has been
handled or lost before the countdown of the round on stage is over or the round is
voided; both take seconds. Without it a `START_ROUND` of one attempt could
wait until its replay is ready and start that one (see below).

### Screens

Pure operators over a room and what a phone knows of its player: the panel, the
chips, the arena and the status line of the phone, the display's panels and
results, the preview, the status bar, the strip, the signal panel and the rail of
the desk, the headings of the results, the clocks. Texts are reduced to the word
they come to. `PagesAgree` compares them in every room `Desk` reaches. `GamesAssumption`:
there are no more games than `GAME_ORDER` names.

### Phone

One player in one round. A tap sets `saveTimer`; `Save` sends what it was set for;
replies, in order, take the place of what the phone shows. The pad is there while
`padVisible`; a pad that disappears stops its timer and tells nobody (`Renders`).
`toServer` is ordered for saves; hold messages may overtake each other, since each
waits for the database first. Disconnecting loses what is under way and releases
the hold; after a reconnect the server sends the personal state. Two history
variables say what became of the last tap: `dropped`, that a save or lock since then
was refused or lost, and `overtaken`, that the player has since locked an older answer
that was back on the page. `LastTapKept` leaves out both; `LockedIsLastTap`, which leaves
out only the first, does not hold (see below). Which fate the
phone has seen of which attempt is the subject of `ClientSync`.

### Display

`race` is the attempt with its dead and the count of elimination events, `toScreen`
the ordered socket, `rt`, `screen` and `arena` the signals of `RealtimeService`,
`DisplayComponent` and `RaceArenaComponent`. `heard` counts the deaths the page
was told of in events, `announced` those it announced.

### ClientSync

One player's phone. `view`, `me`, `lifeAttemptId` and `lifeFromEvent` are the
signals of `RealtimeService` (`lastSeq` is `view.seq`), the handlers `OnSnapshot`,
`OnRace`, `OnEliminated`, `OnMe`, `OnHold` and `OnAck` what it does with each
message, `myLife` what the page shows. `channel` is the socket: it keeps the
order in which the server sends, but what is sent was read earlier. `Publish`
ends a job of the queue, `StartSnapshot` and `FinishSnapshot` are a publisher
beside it, `Accept`, `Write` and `Reply` a lock on its way, `ConnectRead`,
`ConnectSnapshot` and `ConnectMe` the three reads of `handleConnection`. The race
in memory is read when the message is built, the session row before that.
`Drop` loses what is on the way, `Reload` what the page knew.

The stages are cut down to those the phone tells apart: a countdown is part of
the round, a reveal part of the locked stage, a pause and its resume one step.
Practice, readiness, signals and results are left out, and so is a player who
joins after the race has begun. After a later attempt was prepared, the stored
outcome of an earlier race is not followed any more.

`Settled` is an assumption about the environment: snapshots being built and
answers being given for an earlier attempt are out before the host, who has first
to void or reveal it and prepare the next one, starts that one. Without it an
answer that outlives all of this is put into the new round unchecked, as
`play.component.ts` takes the answer to its own request as it comes; in time, it is
wiped by the state that `pushAttemptState` sends at the start.

`unheard` records that a lock was written by a handler whose socket had gone. The
reconnected phone was then told that it has not locked, and its second lock is
refused; `CatchesUp` leaves this one case out.

### Sessions

`rows` is the participants' table: a removed participant stays, a purged bot does
not. A join reads `join_open` (`AskToJoin`) before its transaction counts and inserts
(`Join`); a restore reads the row (`FindToRestore`) before it gives it to a new
device (`Restore`). A controller id is the number of devices the identity had
before; `Tokens` are all that were ever issued. A socket is checked, marked
connected, and marked disconnected by its handlers, one step each; a message is
checked (`CheckInput`) before it is taken (`TakeInput`).

### JoinPage

`pages` are the instances of the page, the last of which is shown: one that was
left still takes the answers it waits for. `previews` and `calls` are requests on
their way, answered in any order or lost; `saved` is what `storage.ts` keeps. The
answer to a join is saved with the session of the preview on the page; without
one, and after a recovery, the session is asked for once more (`LookUp`,
`LookedUp`) before the identity is saved and shown for confirmation.

### Globe, Languages, Tables, Console

`Globe`: fingers go down, move near or far and lift, in any order; the fields
are those of the component. `clean` records which finger was alone and made no
far move. `Languages`: three views over one storage, the host's two settings and
previews that carry an old default. `Tables`: rows that change under a search, a
page and the viewer's row. `Console`: `requests` are the page's calls with the
key they carry and are answered in any order; `shownEvent`, `socketEvent`,
`keptEvent` and `roster` are the session each of the desk's parts is of.

### Geometry

`pointInRing` is translated edge by edge, the shift at the meridian included; quotients are
compared by multiplication. The reference, `Within`, is for convex rings only.

## What TLC checks

All runs use `CHECK_DEADLOCK FALSE`: a session that is closed, a model at one of
its bounds, a race that is over and a page that was left have nothing left to do.
Types are not checked by the runs; for the components with proofs they are part of
the invariants of the theorems.

| Run | Shows |
|---|---|
| `stage_core` | the life of every attempt (refinement of `AttemptLifecycle`: one round runs at a time, nothing published changes, nothing closed opens again once it is published); a running round ends or is paused, whatever timers, queued jobs, slow inputs and a crash do |
| `stage_faults` | under the REST close, torn jobs and used-up time: the attempt on stage follows the cursor, no round counts twice |
| `clock` | lock times exact, pauses keep time, agreement with the tests' derivation from pause records, locks in order |
| `race` | distance only under green, clock without pauses, tolerance respected, no kill for an old press, fates final |
| `answers` | a confirmed lock is what is stored and scored; a round closes early only on as many locks as it had people, a tie-break on everybody's; when all have locked it does close, whoever joins meanwhile |
| `results` | right answers beat wrong ones however fast, earlier locks are not worth less; podium and ceremony show exactly the top three, ties together, step by step; voiding takes back whatever an attempt brought; a tie-break orders only those it was run for |
| `rehearsal` | every schedule has enough green, after a pause too; only overlapping calls of `onSnapshot` can leave a run that nothing stops; a race ends although bots are purged under it and the process dies of that |
| `pages` | the desk's next press is always accepted; a late or doubled press moves nothing on, with one exception; a round without a host is paused; once all is quiet and nothing was refused or lost, a phone's last tap is what the server has, locked or not, and the phone shows, unless the player locked while a late reply had put an older answer back (`overtaken`); a pad that is taken away does not hold on; the display announces each death once; desk, preview, display and phone say the same of every room and of what comes next |
| `devices` | a phone shows no fate and no lock of another round and catches up; seats and numbers; a device that lost its identity is powerless; the confirmed identity is the one that is kept; only a tap places the pin; a chosen language stays; a table with rows shows rows; the desk is about one session |

Three runs end in a violation. Each shows where the code and what its comments
or texts say of it part; the lines are in `PROJECT.json`:

| Run | What happens |
|---|---|
| `stage_torn_reveal` | the process dies between `markRevealed` and `writeScore`; the retried reveal skips scoring |
| `pages_time_ended` | a pin placed in the last 200 ms is shown but never saved, its save is refused without a word, and the phone says that it was accepted and will be scored |
| `geometry` | for a pin at 60 degrees west Australia lies on both sides of the opposite meridian; its edges are shifted to both sides of the pin, the ray meets one of them, and a pin in South America counts as inside |

### Bounds

* Stage engine: two games (race with two rounds, ordering with one), three
  attempts; two queued jobs and one restart in `stage_core`, one job and two
  restarts in `stage_faults`. Three attempts are a practice or a round, its
  replay and the next; every pair of jobs of one or two attempts occurs in the
  queue; the second restart is the one that interrupts the recovery after the
  first. `stage_torn_reveal` needs two attempts.
* Clock: duration 3, countdown 2, lateness 1, two pauses, 15 units of time: a
  round, two pauses, their countdowns and a unit or more of each phase fit.
* Race: two players, tolerance 1, timeout 2 (the code's order of the two), a
  track of 2, one pause, 4 units of time. Distance, death by press and by tick,
  finishing, staleness and a pause all happen within it. The players are
  symmetric.
* Answers: two players, two handlers under way, two attempts; people and attempts
  together at most three (`MaxSize`), so two players without a replay or one with
  it. Two handlers are every pair of inputs, of one player or of two. There is one
  payload: a row that changes shows in its lock, and the theorems hold for any set
  of payloads.
* Results: three people with four attempts of the last game, or four people with
  three (`MaxSize`), two rounds planned, one replay of a round, one removal before
  it. By game the outcomes are nobody there, the best, the same time bucket or a
  later one, an automatic lock, and fast but wrong (`MCOutcomes`); the earlier game
  left all alike or one ahead, so that equal totals with different perfect games
  occur. With three people ties of two and of three at every place occur and a
  tie-break follows a replay; the fourth is whom the podium leaves out, or who
  shares its last place. In a replay, a second round and a tie-break everybody
  answers.
* Rehearsal: one person, one bot, two races, two overlapping calls, two runs:
  what goes wrong with the map takes two calls and two runs. `EnoughGreen` looks at
  every unit of 100 ms that may be left, in all four contents; the theorem at any
  time at all.
* Pages: two games with two rounds, steps 0 to 2 with nobody at step 1, two pages
  of standings, four attempts, two presses, of one desk or two; one pause or lost
  connection, two taps, two heartbeats for the phone; two racers, two races, one
  reload, two messages for the display. A second attempt is what a press of the
  first can be late for; a third and a fourth are a practice that is voided and prepared
  again while a press or a question is still under way (with five nothing more
  happens); a second tap what the reply to the first can overwrite; a
  third racer or message repeats the second.
* Devices: the phone has two attempts, each a race or not, two messages on the
  way, one lock under way, and one of: a loss of the connection, a pause, a
  snapshot built beside the queue (with two of them the properties hold as well,
  in five million states). One seat and two rows, two joins and two devices of
  an identity race for it; one socket is enough, as no property relates two. Two
  codes, two join pages, two calls. Three fingers, since the third is the one that
  no gesture is for. Two languages, three players of whom the search finds two,
  one row per page. Two sessions and two calls for the host's page.
* Geometry: every ten degrees of the southern half, two coarse convex outlines.

### Fairness

`StageEngine`: expired timers, queued jobs and the start-up hook run, as Node
runs them; nothing obliges the host, a phone or a crash. `LiveRoundEnds` accepts a
pause as an end: resuming is up to the host. `Answers`: each player's handlers go
on and the queue serves requests to close; nothing obliges a player, the host or
the clock. `AllLockedCloses` leaves out rounds that were paused: a request to close
that is served during the pause is dropped, and such a round runs to its deadline.
`Rehearsal`: the countdown's timer fires, a race is closed at its deadline, and a
process that ended is started again, as the deployment does; bots owe nothing.
`Pages`: the grace timer fires and the automatic pause goes on once it has begun;
the engine's tick takes stale holds away; the server serves what has arrived. No
desk, finger or network is obliged to anything.

## What is proved

`StageEngineProofs`, from `EngineAssumption` alone (any programme of games, any
bounds, any set of faults):

* `EngineTypes`: `Spec => []TypeOK`.
* `EngineInvariant`: `EngineInv`, the conjunction of `CursorInv` (the attempt on
  stage belongs to the present showing of the game; before the first round the
  cursor is -1; a scored attempt has the cursor's game and round), `CountInv`
  (what already counts in this showing lies at or below the cursor, strictly
  below it when another attempt is on stage) and `CountedOnce`. `CountedOnce`
  alone is not inductive: a replay could bring back a round that counts. That
  nothing above the cursor counts is what makes the next attempt new.
* `CountedOnceThm`, `CurrentFollowsCursorThm`: from it.
* `RevealedAreClosedThm`: with `LockedAreClosed` (a stage waiting for its reveal
  is about a closed attempt) as the strengthening.

If `Orderly`, that is `Faults \subseteq {"late_input"}` as in `stage_core` (inputs that
wait, any crash between jobs):

* `StageInvariant`: `StageInv`. `CountdownInv` says that an armed countdown is that of
  the round on stage, and that a countdown's job that waits is about an earlier attempt
  or stands first in the queue; `FreshInv` that the attempt on stage is untouched until
  it is live, unscored until it is closed, and never void.
* `LifecycleThm`: the engine implements `AttemptLifecycle`. The initial states map to the
  initial state and every step to a step or a stutter, action by action, from
  `EngineInv` and `StageInv`. Each other fault breaks the refinement, so the condition is
  needed: a torn void leaves a void attempt on stage (`torn`); a close over REST leaves
  the round open (`rest_close`); with no play time left, or when a job waits longer than
  a countdown lasts, a countdown's job comes behind a close of the same round and opens
  it again (`spent`, `slow_queue`).

`RoundClockProofs`, for every duration, countdown, lateness and number of
pauses, if pauses and restarts happen only while a round is active:

* `ClockInvariant`: `DeadlineInv` says, by where `now` stands, that the deadline
  is the rest of the play time away; a pause stores that rest and a resume turns
  it into a deadline again.
* `LockTimeExactThm`, `PauseKeepsTimeThm`, `LaterLockThm`: from it. The
  condition is needed, see "Where code and documents part".
* `RecordsInvariant`: `RecordsInv` says that all records but that of a pause under way
  are complete and end before the play time begins, and that until the time is used up
  the deadline has moved by exactly what they took. From it `RecordsAgreeThm`:
  `timing.ts`, which sees only the deadline, and its tests, which add up the records,
  come to the same time, for any number of records.

`RaceEngineProofs`, from `RaceAssumption` alone (any finite set of players, any
tolerance, timeout, track, speed, tick rate and number of pauses):

* `RaceInvariant`: `RaceInv` joins the types with `Paid` (distance so far is at
  most the speed times the green time the engine has already turned into
  distance; `Unticked` is the green time it has not), `HoldsFresh` (nobody holds
  while the engine stands still, and a hold's last heartbeat is from after the
  last start), `Written` and `ActiveTimeExact`. `GreenOnly` alone is not
  inductive: a tick grants the time since the last tick, so what is still to be
  granted has to be part of the balance.
* `GreenOnlyThm`, `ActiveTimeExactThm`: from it.
* `ToleranceThm`, `NoStaleKillThm`, `FatesFinalThm`: action properties, from the
  invariant and `StepFacts`, which says what one step does to one player.

`AnswersProofs`, from `AnswersAssumption` alone (any finite set of players, any
payloads, tie-breaks, number of replays and of handlers under way):

* `AnswersInvariant`: `AnswersInv` says that every request to close, and every
  early close, is about an attempt that has begun and has enough locks behind it.
  This stays true because locks never go away (`LockersGrow`) and the number asked
  for is settled when the attempt begins (`Started`): a replay is another attempt.
  For a tie-break, whoever locked is in it, so a count can stand for a set; a
  round for everybody has no such fact, which is how somebody can be cut off.
* `LockCountsThm`, `EarlyCloseDueThm`: from it. `LockFinalThm`: an action property,
  from `LocksStay`.

`ResultsProofs`, from `ResultsAssumption` and `AnswersAssumption` (any finite set of
people, any answers a row may hold, any number of rounds, attempts and tie-breaks):

* `ResultsInvariant`: `ResultsInv` joins the types with `RoundsInv`: at most one attempt
  of a round stands (is neither void nor a tie-break), and the one on stage is the
  latest of its game and unrevealed until its results are shown. So the query's latest
  attempt of each round is the only one that counts (`CountedIsCounting`).
* `FairRoundThm`: the scores of every attempt ever revealed are fair (`FairInv`). They are
  written once, by `score`; that `score` is fair is a lemma for each game and rule set,
  from the monotony of division, buckets and rounding, and for the race of the first
  rules from the number of those who finished in an earlier bucket.
* `ReplayStartsCleanThm`: `BeforeInv` says that whatever counts besides the attempt on
  stage adds up to what everybody had before; a void or a replay does not touch it.
* `TieBreakStaysInGroupThm`: an action property. The reveal of a tie-break writes scores
  that do not count and values of the people it was run for, so the totals stay and the
  order of any two others with them.
* `PodiumIsTopThreeThm`, for every standing: the comparison is a weak order on the rows
  (`AheadWeak`), the rank of a row is one more than the number of rows ahead of it
  (`RankCounts`), so rows of a band are tied and those outside the bands have three or
  more ahead of them.

`DevicesProofs`, from the assumptions on the constants alone. A step of `Devices` moves one part, so the invariants are independent
of each other:

* `SyncInvariant`, and from it `NoFalseFateThm`, `LockedInThisRoundThm` and `CatchesUpThm`,
  for any number of attempts, messages, locks and breaks of the connection. `SyncInv`
  reads the channel as the order in which the phone will learn things. A claim about an
  earlier attempt is harmless; one that names no attempt (a position, a hold, an event)
  must be true now or be in front of the first snapshot of the newest attempt
  (`MessageOK`); rows that are being published were read at or after the preparation of
  the attempt they name (`RowsInv`); the newest row, the lock and the fate are shown, or
  there is something on its way that will bring them and nothing behind it that takes
  them back (`NewestInv`, `ShownInv`, `ToldInv`, `ClosedInv`).
* `PeopleInvariant`, `SeatsAndNumbersThm`, `StaleDevicePowerlessThm`, for every capacity and
  any number of joins, bots, devices, sockets and messages. Ids and numbers go up, no
  token in use was never issued, and a token that is not in control when its message
  arrives never will be again, since a device that takes over gets a new one.
* `ConfirmedIsSavedThm`: from `JoinInv`, the types and the property, for any number of
  codes, pages and calls.
* `TapPlacesThm`: `GlobeInv` says that the globe knows all fingers or none, that a second
  finger ended the drag, and that a finger that could still become a tap was clean.
* `ChoiceKeptThm`, `PageHasRowsThm`: from `LanguagesInv` and `TablesInv` (the page that
  was asked for is the place of the viewer's row divided by the page size).
  `OneDeskThm`: `OneDesk` is inductive as it stands.

`PagesProofs`, in the same way for the three pages:

* `PagesInvariant`: `DisplayInv`, `PhoneInv` and `DeskInv`.
* `AnnouncedOnceThm`, for any finite set of racers and any number of races, reloads and
  messages: the ids of one race go up from what the display has announced over what is
  on its way to what the engine gives next (`IdsGoUp`), where the race that a message on
  its way belongs to is read from the snapshot before it.
* `LastTapKeptThm`, for any number of taps, breaks and messages: the last tap waits for
  its timer, is in the last message under way (a save or a lock), or is saved, with the
  newest reply on its way telling it back. Like the property it leaves out what is
  refused or lost (`dropped`) and the lock of an older answer (`overtaken`).
* `PrimaryAcceptedThm` and `StalePressHarmlessThm`, for any number of games, rounds,
  steps, pages of standings, attempts, desks and presses: `Beyond` says for the stage a
  press was made for where the room can be by the time it is late. From there the
  press is refused or repeats what has been done. A reveal offers to start the game
  after a practice and only then (`FreshInv`), so no press goes from a practice to the
  results of the game.
* `PagesAgreeThm`: for any number of games up to three, rounds, steps, pages and people.
  Most of `PagesAgree` holds of any room of the right types; the rest needs `ShownInv`,
  that a room never leaves its games and pages (no press, however late, asks for a page
  that was not there) and that nobody practises in the lobby. That what all pages
  announce as next is what the desk offers follows from `DeskInv` as well.

`RehearsalProofs`, from `RehearsalAssumption`:

* `RunsInvariant` and `NoStrayRunThm`, for any number of bots, races, calls and runs.
  `NoStrayRun` alone is not inductive: a call that waits for the database would replace
  whatever the map holds by then. `OneCall` says that it holds nothing: until two calls
  overlap there is one at most, it has stopped the run before its own, and no other step
  starts one.
* `EnoughGreenThm`, for every content and any time left: a schedule that was drawn is only
  taken if it has its share, so what has to be shown is that the fallback does. Its
  blocks are three fifths green or more; by induction over them, so is everything
  from the start up to a block's end, and the last, cut block begins with its green.

Every invariant and every step property of the passing runs but `Geometry`'s is one of
these theorems. Only model-checked are:

* liveness (`LiveRoundEnds`, `AllLockedCloses`, `RaceEnds`, `HostAbsencePauses`,
  `StrayHoldEnds`), which is out of the prover's reach;
* `Geometry`, an operator over two outlines of which the only run ends in a violation.

Induction. The library's theorems about induction and recursive functions take an operator
for a parameter, which the provers cannot instantiate. Where a proof needs induction it is
done by hand: a smallest counterexample, with `FS_StrictSubsetOrderingWellFounded` over
finite sets (`SubsetInduction`, `MaximumExists`) or `NatLessThanWellFounded` over numbers
(`NumberInduction`), for a set of those that have the property. Sums are folds, which
are chosen functions: a proof first builds a table of all partial sums, one element at a
time (`IsSumTable`, `TableGrows`), and then shows that the fold is such a table
(`FoldIsTable`). These lemmas stand in `RoundClockProofs` and in `ResultsProofs`, once for
each, as the two have no module in common.

## Where code and documents part

Besides the three runs that end in a violation, the following came up while
modelling. Five can be seen by adding a definition to a run or changing a constant:

* `AbsenceNeverKills` (`RaceEngine`; add it to `RaceEngine.cfg`): the tolerance
  (350 to 450 ms) is shorter than the heartbeat timeout (500 ms), so a phone that
  goes silent just before red is eliminated by the tick, although
  `race-engine.ts:136` says that absence alone never kills.
* `NobodyCutOff` (`Answers`; add it to `Answers.cfg`): one person is registered,
  another joins; the newcomer's lock is counted and closes the round on the first,
  against `participation.service.ts:89-90`.
* `LockedIsLastTap` (`Phone`; check it alone with the constants of
  `Pages_time_ended.cfg` and `MaxTaps = 2`): in a globe round pin A is saved and pin B
  tapped; the reply to A puts A back on the page (`play.component.ts:507`); the player
  locks, and `lockPin` cancels B's timer and sends the pin the page has, A
  (`:517-522`). A is stored and scored, nothing was refused, and B is lost, against
  `ASAS-Engagement-Website-Requirements.md:547` ("stale, or reordered messages must
  not [...] overwrite newer state"). `LastTapKept` leaves it out by `overtaken`.
* `PauseIn = {"Countdown", "RoundActive"}` in `RoundClock.cfg`: a pause in a
  countdown stores the rest of the countdown as play time; the round gets longer
  and lock times are too short, against `timing.ts:7-9`.
* With `Faults = {"spent"}` in `StageEngine`, a pause after the deadline and a
  resume make both timers due together: the deadline's job locks the round and the
  countdown's job, which does not look at the stage (`rounds.service.ts:250`),
  opens it again with no deadline (`transitions.ts:47`: timers only close). In the
  same way a session closed over REST during a countdown becomes active again.

The rest is described only. The properties stay clear of it by what they say or
by a bound that names it.

Server:

* A living player can still finish or die after `onClose` has written the outcome
  (`race.controller.ts:145`); a lock whose handler was between check and write at
  the reveal is confirmed and stored, and scored by the row before it
  (`rounds.service.ts:288`); a late disconnect of the device that lost an identity
  marks the participant as gone (`events.gateway.ts:133`); the recovery itself
  disconnects no old socket and does not look at a removal that came between its
  two statements. `me:ready` has no check of the controller.
* An automatic pause that has begun comes although a desk is back
  (`events.gateway.ts:145`).
* A question about voiding that was left open since an earlier round voids whatever is on stage when it is confirmed. If that is a practice whose Start game
  has been pressed, the game starts without it (`PracticeTakenBack` in `Desk`).
* A doubled `START_ROUND` whose second press is very late starts the replay of
  the round just voided; `Prompt` in `Desk` excludes it.
* After a close over REST during a pause the session stays paused and the desk
  offers Resume for ever, which is refused (`PrimaryAccepted` leaves `Closed` out).
* Voiding a tie-break clears the values of an earlier one too
  (`rounds.service.ts:156`), a second tie-break overwrites them, and a third
  repeats a question.
* Purging bots during a live race makes `onClose` fail, which ends the process;
  overlapping `onSnapshot` calls orphan a run (`NoStrayRun` says `~overlapped`).
* A whole race is promised 48 s of green (`content.ts:109-114`); its schedule begins
  after the first second of red and is asked for 60 % of the 79 s left, 47.4 s.
* Inside a country: see `geometry`. A cursor in the session list cuts microseconds
  off its timestamps.

Host's desk:

* An answer of `loadRoster` or `getSession` that comes after the host has opened
  another session, gone back or signed out puts the earlier session back on the
  desk (`host.component.ts:364-373`), the poll, which is never stopped, keeps it
  there, and what goes by REST goes to it, while the socket is of the other
  (`OneDesk` says `~mixed`). The late answer to a create opens its session over
  the one opened meanwhile.
* `connect` does not clear the last snapshot (`realtime.service.ts:76-90`): until
  the new session's arrives, the desk offers the old one's next action and a press
  goes to the new session.
* The dialogs for voiding and for a tie-break carry no attempt
  (`host.component.ts:426-439`); a second question takes the first one's place.
  `busy` is reset by whichever of two overlapping calls ends first.
* At the last game the secondary actions offer Next game (`next-action.ts:45`), and
  voiding is offered for a round that is only prepared and, after a tie-break, in
  the final standings; the server refuses all three.
* The signal panel shows the session's mode, a live race keeps the one it began
  with. The status bar never shows the frozen time of a pause. The preview's line
  under Reveal always says next round. After voiding a practice the strip says
  Practice on the page of the instructions. The result card for `GameResults` can
  never show. The leaders' heading can say page 3 of 2 after removals; a late
  page press can open the final table on a later page.

Phone and display:

* At the final standings a phone shows its own rank and the whole table from step 0
  on, while the ceremony reveals the third place first; and
  `redesign-plan-v2.md:636` has the own card from step 3 only.
* The display's panel of a pause names a signal also in a quiz round
  (`display.component.ts:78`). Its last elimination event is not reset between
  races while the engine counts anew, so the first one of a later race may not be
  announced; the names in a burst are always empty (`race-arena.component.ts:228`).
* The pad that is taken away is destroyed before it can say so; the page's
  `holding` stays true. A reply to an old save takes the place of a newer tap until
  the next reply, for good if the player locks meanwhile (`LockedIsLastTap` above). Cards are safe from
  it, as `localOrder` goes before the reply. A save that a pause or the limit refused is lost while the line
  says saved. A card being dragged moves on after the lock.
* A join saves the code and the session as they are on the page when the answer
  comes, which may be those of a code edited since (`join.component.ts:222-223`);
  a page that was left still saves its identity (`ConfirmedIsSaved` says
  `~overtaken`); a join whose second preview fails leaves a participant nobody holds.
* A slow drag in steps of up to 3 px counts as a tap; a lift is not asked whether
  the globe still takes input (`TapPlaces` says `~switched`).
* Pressing the language that is shown already saves nothing, so a later preview
  with another default changes it; a default once applied is kept like a choice.
* After rows went, the pager of the standings can read page 5 of 2 and its
  previous button seems dead until it has counted down.
* After final results were shown early and a tie-break prepared, the snapshot's
  game stays the race while the attempt is an ordering; `PagesAgree` leaves such
  rooms out where it compares by the game.

## Plan

Done: the stage engine with its refinement, the clock, the race and the answers; scores
and results; sessions; bots and schedules; the desk, the phone, the display and what they
show; the join page and the smaller parts of the client; a theorem for every safety
property that the runs of these check. What could come next:

1. two sockets of one identity in `Sessions`, with the connection flag as a
   property once the late disconnect is settled;
2. the refinement of `AttemptLifecycle` under the faults that break it now, once the
   countdown's job looks at the stage;
3. exports and statistics.

## Not modelled

Texts, styles, layout, animations, sounds and vibration; the projection and drawing
of the globe and the distance of a pin from a boundary (real numbers on a sphere);
the content bank, of which only what the races' schedules need is used; exports,
statistics, renaming and audit rows; database drivers, configuration and start-up.
SQL statements are taken to be atomic and durable, sessions to be independent of
each other.
