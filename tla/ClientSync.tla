------------------------------ MODULE ClientSync ------------------------------
(***************************************************************************)
(* What one phone shows of the session.  The server sends it snapshots,    *)
(* race positions, personal states and acknowledgements over one socket,   *)
(* in order; but each is built from rows that were read some time before,  *)
(* by code that runs beside the session's queue.  The socket may drop with *)
(* everything that is on the way, and the page may be loaded again.        *)
(*                                                                         *)
(* Countdown and RoundActive are one stage, and so are InputLocked and     *)
(* Reveal; practice, drafts and results are left out.  What a handler      *)
(* reads last and sends at once is one step.                               *)
(***************************************************************************)
EXTENDS Integers, Sequences, FiniteSets

CONSTANTS
  MaxAttempts,  \* bound: rounds, voided ones included
  MaxNet,       \* bound: messages on the way to the phone
  MaxInputs,    \* bound: the phone's inputs that are under way
  MaxBreaks     \* bound: pauses, losses of the connection and snapshots built beside
                \* the queue, all together

ASSUME SyncAssumption ==
  {MaxAttempts, MaxNet, MaxInputs, MaxBreaks} \subseteq Nat /\ MaxNet > 0

VARIABLES
  seq, stage, current,  \* of the session row; current is 0 while it has no attempt
  created,              \* the newest attempt
  isRace,               \* the newest attempt is a race
  locked,               \* attempts this player has locked an answer of
  life, engine,         \* this player's state in the newest attempt's race; the race in memory
  job,                  \* the row the queue's job is going to publish
  builders,             \* rows that publishers beside the queue have read
  inputs,               \* this player's handlers under way
  connecting,           \* what handleConnection has got to
  link, channel,        \* the socket and what it carries to the phone
  view,                 \* snapshot
  me,                   \* me
  lifeAttemptId, lifeFromEvent,
  breaks,
  unheard               \* history: a lock was written for a socket that had gone, and no
                        \* personal state has been sent since

server == <<seq, stage, current, created, isRace>>
play == <<locked, life, engine>>
phone == <<view, me, lifeAttemptId, lifeFromEvent>>
net == <<link, channel>>
syncVars == <<server, play, job, builders, inputs, connecting, net, phone, breaks, unheard>>

Attempts == 1..MaxAttempts
Stages == {"GameResults", "Ready", "RoundActive", "InputLocked"}
MyLife == {"unknown", "alive", "finished", "eliminated"}
Outcomes == {"finished", "eliminated"}
NoRow == [seq |-> -1, attempt |-> 0, stage |-> "none"]   \* no row
Blank == [seq |-> -1, attempt |-> 0, stage |-> "none", race |-> "unknown"]   \* no snapshot yet
emptyMe(a) == [attempt |-> a, locked |-> FALSE, race |-> "unknown"]
Idle == [at |-> "no", row |-> NoRow]

FreshPage ==
  /\ view = Blank /\ me = emptyMe(0)
  /\ lifeAttemptId = 0 /\ lifeFromEvent = "unknown"

SyncInit ==
  /\ seq = 0 /\ stage = "GameResults" /\ current = 0 /\ created = 0 /\ isRace = FALSE
  /\ locked = {} /\ life = "unknown" /\ engine = 0
  /\ job = NoRow /\ builders = {} /\ inputs = {} /\ connecting = Idle
  /\ link = "down" /\ channel = <<>> /\ FreshPage
  /\ breaks = 0 /\ unheard = FALSE

------------------------------------------------------------------------------
\* Sending.

Room == link = "up" => Len(channel) < MaxNet
Emit(event, body) ==
  /\ Room
  /\ channel' = IF link = "up" THEN Append(channel, [event |-> event, body |-> body]) ELSE channel

SessionRow == [seq |-> seq, attempt |-> current, stage |-> stage]
RaceOf(a) == IF a # 0 /\ engine = a THEN life ELSE "unknown"

\* buildSnapshot: the row may be old, the race is read last.
Snapshot(row) ==
  [seq |-> row.seq, attempt |-> row.attempt, stage |-> row.stage, race |-> RaceOf(row.attempt)]

\* The race in memory, or what the close of the newest attempt has stored.
myState(a) ==
  IF a = 0 THEN emptyMe(0)
  ELSE [attempt |-> a, locked |-> a \in locked, race |-> IF a = created THEN life ELSE "unknown"]

------------------------------------------------------------------------------
\* Jobs of the session's queue: each changes the row and publishes it before
\* the next one begins.

Publishes(s, a) ==
  /\ job = NoRow
  /\ seq' = seq + 1 /\ stage' = s /\ current' = a
  /\ job' = [seq |-> seq + 1, attempt |-> a, stage |-> s]

Publish ==
  /\ job # NoRow /\ Emit("snapshot", Snapshot(job)) /\ job' = NoRow
  /\ UNCHANGED <<server, play, builders, inputs, connecting, link, phone, breaks, unheard>>

\* Mutant: no fresh state when the round starts.
PushAtStartNone(a) == UNCHANGED channel

\* pushAttemptState: a blank personal state for the attempt
PushAtStart(a) == Emit("me", emptyMe(a))

\* START_GAME, NEXT_ROUND, and VOID_ROUND with its replay
Prepare ==
  /\ stage # "Ready" /\ created < MaxAttempts
  /\ created' = created + 1 /\ engine' = 0 /\ life' = "unknown"
  /\ isRace' \in BOOLEAN
  /\ Publishes("Ready", created') /\ Emit("me", emptyMe(created'))
  /\ UNCHANGED <<locked, builders, inputs, connecting, link, phone, breaks, unheard>>

\* Assumption: what is being built or answered for an earlier attempt is out by
\* the time the host starts the next one.
Settled ==
  /\ \A x \in inputs \cup builders : x.attempt = current
  /\ connecting.row # NoRow => connecting.row.attempt = current

\* START_ROUND, to the end of its countdown
Start ==
  /\ stage = "Ready" /\ Settled
  /\ Publishes("RoundActive", current) /\ PushAtStart(current)
  /\ IF isRace THEN engine' = current /\ life' = "alive"
                          ELSE UNCHANGED <<engine, life>>
  /\ UNCHANGED <<created, isRace, locked, builders, inputs, connecting, link, phone, breaks, unheard>>

\* PAUSE and RESUME, with the personal state that a resume pushes
Resume ==
  /\ stage = "RoundActive" /\ breaks < MaxBreaks /\ breaks' = breaks + 1
  /\ Publishes(stage, current) /\ Emit("me", myState(current))
  /\ UNCHANGED <<created, isRace, play, builders, inputs, connecting, link, phone, unheard>>

\* closeRound: the race's last tick may still decide this player's fate.
CloseRound ==
  /\ stage = "RoundActive" /\ Publishes("InputLocked", current)
  /\ \E l \in MyLife :
       /\ l # RaceOf(current) => RaceOf(current) = "alive" /\ l \in Outcomes
       /\ life' = l
  /\ UNCHANGED <<created, isRace, locked, engine, builders, inputs, connecting, net, phone, breaks, unheard>>

ShowGameResults ==
  /\ stage = "InputLocked" /\ Publishes("GameResults", 0) /\ engine' = 0
  /\ UNCHANGED <<created, isRace, locked, life, builders, inputs, connecting, net, phone, breaks, unheard>>

------------------------------------------------------------------------------
\* Beside the queue.

\* publish, for a change of readiness, a signal, an elimination, another
\* player's lock or a phone that left
StartSnapshot ==
  /\ breaks < MaxBreaks /\ breaks' = breaks + 1
  /\ builders' = builders \cup {SessionRow}
  /\ UNCHANGED <<server, play, job, inputs, connecting, net, phone, unheard>>

FinishSnapshot(row) ==
  /\ builders' = builders \ {row} /\ Emit("snapshot", Snapshot(row))
  /\ UNCHANGED <<server, play, job, inputs, connecting, link, phone, breaks, unheard>>

Racing == stage = "RoundActive" /\ RaceOf(current) = "alive"
Decide(l) == life' = l

\* A tick takes this player to the finish, or out.
Tick ==
  /\ Racing
  /\ \/ Decide("finished") /\ UNCHANGED channel
     \/ Decide("eliminated") /\ Emit("eliminated", TRUE)
     \/ Decide("eliminated") /\ UNCHANGED channel   \* by the tick of somebody's input
  /\ UNCHANGED <<server, locked, engine, job, builders, inputs, connecting, link, phone, breaks, unheard>>

\* The 5 Hz positions.
RaceEvent ==
  /\ stage = "RoundActive" /\ engine = current /\ current # 0
  /\ Emit("race", [attempt |-> current, race |-> life])
  /\ UNCHANGED <<server, play, job, builders, inputs, connecting, link, phone, breaks, unheard>>

\* savePin and saveOrder, to lock: checked, then written, then answered with the
\* stored row, after the close it asks for or a snapshot.
Accept ==
  /\ stage = "RoundActive" /\ ~isRace /\ link = "up"
  /\ Cardinality(inputs) < MaxInputs
  /\ inputs' = inputs \cup {[attempt |-> current, wired |-> TRUE, at |-> "write"]}
  /\ UNCHANGED <<server, play, job, builders, connecting, net, phone, breaks, unheard>>

\* A second lock is refused.
Write(i) ==
  /\ i.at = "write" /\ locked' = locked \cup {i.attempt}
  /\ inputs' = (inputs \ {i}) \cup IF i.attempt \in locked THEN {} ELSE {[i EXCEPT !.at = "reply"]}
  /\ unheard' = (unheard \/ (i.attempt \notin locked /\ ~i.wired))
  /\ UNCHANGED <<server, life, engine, job, builders, connecting, net, phone, breaks>>

Answer(i) == IF i.wired THEN Emit("ack", myState(i.attempt)) ELSE UNCHANGED channel

Reply(i) ==
  /\ i.at = "reply" /\ inputs' = inputs \ {i} /\ Answer(i)
  /\ UNCHANGED <<server, play, job, builders, connecting, link, phone, breaks, unheard>>

------------------------------------------------------------------------------
\* The connection.

\* The phone joins its rooms, and what is sent to them reaches it, before
\* handleConnection reads anything for it.
ConnectPhone ==
  /\ link = "down" /\ link' = "up" /\ connecting' = [at |-> "read", row |-> NoRow]
  /\ UNCHANGED <<server, play, job, builders, inputs, channel, phone, breaks, unheard>>

ConnectRead ==
  /\ connecting.at = "read" /\ connecting' = [at |-> "snapshot", row |-> SessionRow]
  /\ UNCHANGED <<server, play, job, builders, inputs, net, phone, breaks, unheard>>

ConnectSnapshot ==
  /\ connecting.at = "snapshot" /\ connecting' = [connecting EXCEPT !.at = "me"]
  /\ Emit("snapshot", Snapshot(connecting.row))
  /\ UNCHANGED <<server, play, job, builders, inputs, link, phone, breaks, unheard>>

ConnectMe ==
  /\ connecting.at = "me" /\ connecting' = Idle
  /\ Emit("me", myState(connecting.row.attempt)) /\ unheard' = FALSE
  /\ UNCHANGED <<server, play, job, builders, inputs, link, phone, breaks>>

\* Everything on the way is lost; answers of handlers go nowhere.
Drop ==
  /\ link = "up" /\ breaks < MaxBreaks /\ breaks' = breaks + 1
  /\ link' = "down" /\ channel' = <<>> /\ connecting' = Idle
  /\ inputs' = {[i EXCEPT !.wired = FALSE] : i \in inputs}
  /\ UNCHANGED <<server, play, job, builders, phone, unheard>>

Reload ==
  /\ link = "down" /\ view # Blank
  /\ view' = Blank /\ me' = emptyMe(0) /\ lifeAttemptId' = 0 /\ lifeFromEvent' = "unknown"
  /\ UNCHANGED <<server, play, job, builders, inputs, connecting, net, breaks, unheard>>

------------------------------------------------------------------------------
\* The phone.

LIFE_RANK == [unknown |-> 0, alive |-> 1, finished |-> 2, eliminated |-> 3]
strongerLife(a, b) == IF LIFE_RANK[b] > LIFE_RANK[a] THEN b ELSE a

\* Mutant: only the first attempt resets.
shouldResetLifeOnce(previous, next) == previous = 0 /\ next # 0

shouldResetLife(previous, next) == previous # next

\* The life and the personal state after a race payload: never weaker.
WithRace(state, known, race) ==
  IF race = "unknown" THEN [me |-> state, life |-> known]
  ELSE [me |-> [state EXCEPT !.race = strongerLife(known, race)], life |-> strongerLife(known, race)]

\* Mutant: any snapshot is taken.
FreshAny(snap) == TRUE

\* view.seq is lastSeq
Fresh(snap) == view = Blank \/ snap.seq >= view.seq

OnSnapshot(snap) ==
  IF ~Fresh(snap) THEN UNCHANGED phone
  ELSE LET reset == shouldResetLife(lifeAttemptId, snap.attempt)
           shown == WithRace(IF reset THEN emptyMe(snap.attempt) ELSE me,
                             IF reset THEN "unknown" ELSE lifeFromEvent, snap.race)
       IN /\ lifeAttemptId' = IF reset THEN snap.attempt ELSE lifeAttemptId
          /\ me' = shown.me /\ lifeFromEvent' = shown.life
          /\ view' = snap

OnRace(ev) ==
  IF view = Blank \/ view.attempt # ev.attempt THEN UNCHANGED phone
  ELSE /\ me' = WithRace(me, lifeFromEvent, ev.race).me
       /\ lifeFromEvent' = WithRace(me, lifeFromEvent, ev.race).life
       /\ view' = [view EXCEPT !.race = ev.race]
       /\ UNCHANGED lifeAttemptId

OnEliminated ==
  /\ me' = [me EXCEPT !.race = "eliminated"] /\ lifeFromEvent' = "eliminated"
  /\ UNCHANGED <<view, lifeAttemptId>>

OnMe(payload) ==
  LET shown == IF view = Blank THEN lifeAttemptId ELSE view.attempt
      strongest == strongerLife(lifeFromEvent, payload.race)
  IN IF payload.attempt # 0 /\ shown # 0 /\ payload.attempt # shown THEN UNCHANGED phone
     ELSE /\ me' = IF payload.race = "unknown" THEN payload ELSE [payload EXCEPT !.race = strongest]
          /\ lifeFromEvent' = IF strongest \in Outcomes THEN strongest ELSE lifeFromEvent
          /\ UNCHANGED <<view, lifeAttemptId>>

\* The reply to sendPin or sendOrder is taken as it is, whatever it is about.
OnAck(state) == me' = state /\ UNCHANGED <<view, lifeAttemptId, lifeFromEvent>>

\* The reply to sendHold.
OnHold(race) ==
  LET strongest == strongerLife(lifeFromEvent, race) IN
    /\ me' = [me EXCEPT !.race = strongest]
    /\ lifeFromEvent' = IF strongest \in Outcomes THEN strongest ELSE lifeFromEvent
    /\ UNCHANGED <<view, lifeAttemptId>>

Receive ==
  /\ channel # <<>> /\ channel' = Tail(channel)
  /\ LET m == Head(channel) IN
       \/ m.event = "snapshot" /\ OnSnapshot(m.body)
       \/ m.event = "race" /\ OnRace(m.body)
       \/ m.event = "eliminated" /\ OnEliminated
       \/ m.event = "me" /\ OnMe(m.body)
       \/ m.event = "ack" /\ OnAck(m.body)
       \/ m.event = "hold" /\ OnHold(m.body)
  /\ UNCHANGED <<server, play, job, builders, inputs, connecting, link, breaks, unheard>>

\* What the page makes of its three sources.
myLife ==
  strongerLife(strongerLife(lifeFromEvent, me.race), IF view = Blank THEN "unknown" ELSE view.race)

padVisible == link = "up" /\ view # Blank /\ view.stage = "RoundActive" /\ myLife = "alive"

\* A press, answered at once: it may take the player out, which is told first.
Hold ==
  /\ padVisible /\ engine # 0 /\ RaceOf(engine) # "unknown"
  /\ \/ Emit("hold", RaceOf(engine)) /\ UNCHANGED life
     \/ /\ Racing /\ Decide("eliminated") /\ Len(channel) + 2 <= MaxNet
        /\ channel' = channel \o <<[event |-> "eliminated", body |-> TRUE],
                                   [event |-> "hold", body |-> "eliminated"]>>
  /\ UNCHANGED <<server, locked, engine, job, builders, inputs, connecting, link, phone, breaks, unheard>>

------------------------------------------------------------------------------
SyncNext ==
  \/ Publish \/ Prepare \/ Start \/ Resume \/ CloseRound \/ ShowGameResults
  \/ StartSnapshot \/ \E row \in builders : FinishSnapshot(row)
  \/ Tick \/ RaceEvent
  \/ Accept
  \/ \E i \in inputs : Write(i) \/ Reply(i)
  \/ ConnectPhone \/ ConnectRead \/ ConnectSnapshot \/ ConnectMe \/ Drop \/ Reload
  \/ Receive \/ Hold

------------------------------------------------------------------------------
\* Properties.

\* A phone that shows the attempt on stage shows a player as out, or at the
\* finish, only if that is so: no fate of one attempt is shown in the next.
NoFalseFate ==
  view.attempt = current /\ current # 0 /\ myLife \in Outcomes => life = myLife

\* A connected phone that shows the running round, with no personal state on its way, shows
\* its answer as locked only if it has locked it in this round: no lock of an
\* earlier attempt keeps the player from answering.
LockedInThisRound ==
  /\ view.attempt = current /\ view.stage = "RoundActive" /\ me.locked
  /\ link = "up" /\ connecting = Idle /\ \A n \in DOMAIN channel : channel[n].event # "me"
  => current \in locked

\* When nothing is on the way to it, a connected phone shows the stage and the
\* attempt of the session, its own lock unless the reply to it was lost, and after
\* a race its own fate.
Quiet ==
  /\ link = "up" /\ channel = <<>> /\ connecting = Idle
  /\ job = NoRow /\ builders = {} /\ inputs = {}

CatchesUp ==
  Quiet =>
    /\ view # Blank /\ view.attempt = current /\ view.stage = stage
    /\ current \in locked /\ ~unheard => me.locked
    /\ stage = "InputLocked" /\ isRace => myLife = life
==============================================================================
