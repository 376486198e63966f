-------------------------------- MODULE Rehearsal --------------------------------
(***************************************************************************)
(* Rehearsal players in a race: the bots of SimulationService, driven by   *)
(* the snapshots and signals of the event bus, and the race they run in.   *)
(*                                                                         *)
(* onSnapshot waits for the database twice, and calls of it overlap; its   *)
(* timers and heartbeats live in a Run object, of which the service's map  *)
(* knows only one; removing the bots deletes rows that a live race refers  *)
(* to.  Delays of timers are left open: they fire in any order.            *)
(***************************************************************************)
EXTENDS Integers, FiniteSets, Sequences, AutoSchedule

CONSTANTS
  People,        \* phones in the race, idle here
  Bots,          \* ids a bot can get
  MaxAttempts,   \* bound: races
  MaxCalls,      \* bound: onSnapshot calls under way
  MaxRuns,       \* bound: Run objects ever made
  None           \* no cache, no race

ASSUME RehearsalAssumption ==
  /\ People \cap Bots = {} /\ None \notin People \cup Bots
  /\ MaxAttempts \in Nat /\ MaxCalls \in Nat /\ MaxRuns \in Nat

VARIABLES
  stage,         \* "Idle", "Countdown", "RoundActive" of attempt `attempt'
  paused,
  attempt,
  ended,         \* attempts closed or voided
  rows,          \* bots in the participants table
  unused,        \* ids no bot had yet
  cache,         \* SimulationService.bots: None or the bots it loaded
  purging,       \* a removal has stopped the run and not yet deleted the rows
  calls,         \* onSnapshot calls that wait for the database
  runs,          \* every Run object made
  current,       \* the one in SimulationService.runs, or 0
  live,          \* the race in memory: None, or players, racers, colour, timers armed
  up,            \* the process runs
  overlapped  \* history: an onSnapshot call began while another was waiting

vars == <<stage, paused, attempt, ended, rows, unused, cache, purging, calls, runs, current,
          live, up, overlapped>>
session == <<stage, paused, attempt, ended>>
table == <<rows, unused>>
service == <<cache, purging, calls, runs, current>>

Active == stage = "RoundActive" /\ ~paused
Racing == live # None /\ live.ticking

--------------------------------------------------------------------------------
(***************************************************************************)
(* Runs of the bots.                                                       *)
(***************************************************************************)

\* Mutant: the heartbeat is forgotten.
StoppedTimersOnly(run) == [run EXCEPT !.timers = {}]

\* Nobody looks at what a stopped run held, or for which attempt.
Stopped(run) == [attempt |-> 0, beats |-> FALSE, holding |-> {}, timers |-> {}]

RunsAfterStop == IF current = 0 THEN runs ELSE [runs EXCEPT ![current] = Stopped(@)]

stop == runs' = RunsAfterStop /\ current' = 0

\* One timer per bot, to press after a GREEN and to let go after a RED.
ReactionTimers(colour) ==
  IF cache = None THEN {} ELSE {[bot |-> b, press |-> colour = "GREEN"] : b \in cache}

RunsFor(a) == IF current = 0 THEN FALSE ELSE runs[current].attempt = a

ReactTo(colour) ==
  runs' = IF current = 0 THEN runs
          ELSE [runs EXCEPT ![current].timers = @ \cup ReactionTimers(colour)]

\* A snapshot is published: onSnapshot up to its first await.
Snapshot ==
  /\ up
  /\ \/ ~Active /\ stop /\ UNCHANGED <<calls, overlapped>>
     \/ /\ Active /\ ~RunsFor(attempt)
        /\ Cardinality(calls) < MaxCalls
        /\ stop
        /\ calls' = calls \cup
             {[attempt |-> attempt, colour |-> IF live = None THEN "RED" ELSE live.colour,
               at |-> IF cache = None THEN "query" ELSE "get", bots |-> cache, open |-> TRUE]}
        /\ overlapped' = (overlapped \/ calls # {})
  /\ UNCHANGED <<session, table, cache, purging, live, up>>

Moved(c, d) == calls' = (calls \ {c}) \cup {d}

\* loadBots: the query, then what is kept of its answer.
QueryBots(c) ==
  /\ c.at = "query" /\ Moved(c, [c EXCEPT !.at = "rows", !.bots = rows])
  /\ UNCHANGED <<session, table, cache, purging, runs, current, live, up, overlapped>>

CacheBots(c) ==
  /\ c.at = "rows" /\ cache' = c.bots
  /\ IF c.bots = {} THEN calls' = calls \ {c} ELSE Moved(c, [c EXCEPT !.at = "get"])
  /\ UNCHANGED <<session, table, purging, runs, current, live, up, overlapped>>

GetAttempt(c) ==
  /\ c.at = "get"
  /\ IF c.bots = {} THEN calls' = calls \ {c}
     ELSE Moved(c, [c EXCEPT !.at = "got", !.open = c.attempt \notin ended])
  /\ UNCHANGED <<session, table, cache, purging, runs, current, live, up, overlapped>>

\* A fresh run replaces what the map holds by now, without stopping it.
StartRun(c) ==
  /\ c.at = "got" /\ calls' = calls \ {c}
  /\ IF c.open /\ Len(runs) < MaxRuns
       THEN /\ runs' = Append(runs, [attempt |-> c.attempt, beats |-> TRUE, holding |-> {},
                                     timers |-> ReactionTimers(c.colour)])
            /\ current' = Len(runs) + 1
       ELSE UNCHANGED <<runs, current>>
  /\ UNCHANGED <<session, table, cache, purging, live, up, overlapped>>

\* RaceEngine.input and the ticks after it: who holds under a GREEN may finish,
\* under a RED be eliminated.
Input(held) ==
  IF live = None \/ paused \/ stage # "RoundActive" THEN UNCHANGED live
  ELSE \E gone \in SUBSET (held \cap live.racers) : live' = [live EXCEPT !.racers = @ \ gone]

React(r, t) ==
  /\ t \in runs[r].timers
  /\ runs' = [runs EXCEPT ![r].timers = @ \ {t},
                          ![r].holding = IF t.press THEN @ \cup {t.bot} ELSE @ \ {t.bot}]
  /\ Input(IF t.press THEN {t.bot} ELSE {})
  /\ UNCHANGED <<session, table, cache, purging, calls, current, up, overlapped>>

Heartbeat(r) ==
  /\ runs[r].beats /\ runs[r].holding # {}
  /\ Input(runs[r].holding)
  /\ UNCHANGED <<session, table, service, up, overlapped>>

--------------------------------------------------------------------------------
(***************************************************************************)
(* The rehearsal endpoints.                                                *)
(***************************************************************************)

AddBot(b) ==
  /\ up /\ b \in unused
  /\ unused' = unused \ {b} /\ rows' = rows \cup {b} /\ cache' = None
  /\ UNCHANGED <<session, purging, calls, runs, current, live, up, overlapped>>

\* removeAll stops the run ...
RemoveAll ==
  /\ up /\ ~purging /\ rows # {}
  /\ purging' = TRUE /\ stop
  /\ UNCHANGED <<session, table, cache, calls, live, up, overlapped>>

\* ... and deletes the rows.
DeleteRows ==
  /\ up /\ purging /\ purging' = FALSE
  /\ rows' = {} /\ cache' = None
  /\ UNCHANGED <<session, unused, calls, runs, current, live, up, overlapped>>

--------------------------------------------------------------------------------
(***************************************************************************)
(* The race.                                                               *)
(***************************************************************************)

Begin ==
  /\ up /\ stage = "Idle" /\ attempt < MaxAttempts
  /\ stage' = "Countdown" /\ paused' = FALSE /\ attempt' = attempt + 1
  /\ live' = [players |-> {}, racers |-> {}, colour |-> "RED", registered |-> FALSE, ticking |-> TRUE]
  /\ UNCHANGED <<ended, table, service, up, overlapped>>

Registered == People \cup rows

\* onActive: a new race registers who is there, a resumed one goes on; RED first.
OnActive ==
  /\ Racing /\ stage = "Countdown" /\ ~paused
  /\ stage' = "RoundActive"
  /\ live' = IF live.registered THEN [live EXCEPT !.colour = "RED"]
             ELSE [live EXCEPT !.players = Registered, !.racers = Registered, !.registered = TRUE]
  /\ UNCHANGED <<paused, attempt, ended, table, service, up, overlapped>>

\* The host's or the schedule's; the bots hear of it on the bus.
Signal ==
  LET colour == IF live.colour = "RED" THEN "GREEN" ELSE "RED"
  IN /\ Racing /\ Active
     /\ live' = [live EXCEPT !.colour = colour]
     /\ ReactTo(colour)
     /\ UNCHANGED <<session, table, cache, purging, calls, current, up, overlapped>>

Pause ==
  /\ Racing /\ ~paused
  /\ paused' = TRUE /\ live' = [live EXCEPT !.ticking = FALSE]
  /\ UNCHANGED <<stage, attempt, ended, table, service, up, overlapped>>

Resume ==
  /\ up /\ paused
  /\ paused' = FALSE /\ stage' = "Countdown" /\ live' = [live EXCEPT !.ticking = TRUE]
  /\ UNCHANGED <<attempt, ended, table, service, up, overlapped>>

Over ==
  /\ stage' = "Idle" /\ paused' = FALSE /\ ended' = ended \cup {attempt} /\ live' = None
  /\ UNCHANGED attempt

\* closeRound, at the deadline or when no racer can go on.  The outcome of every
\* player is written first; for a deleted one that fails, in a promise nobody
\* handles, which ends the process.
Close ==
  /\ Racing /\ Active
  /\ IF live.players \subseteq People \cup rows
       THEN Over /\ UNCHANGED <<service, up>>
       ELSE /\ up' = FALSE /\ live' = None
            /\ cache' = None /\ purging' = FALSE /\ calls' = {} /\ runs' = <<>> /\ current' = 0
            /\ UNCHANGED session
  /\ UNCHANGED <<table, overlapped>>

\* The host calls the round off, or the session ends.
Void ==
  /\ up /\ stage # "Idle"
  /\ Over
  /\ UNCHANGED <<table, service, up, overlapped>>

\* Mutant: the interrupted race is left to its deadline.
RecoveredAsIs == UNCHANGED <<session, live>>

Recovered == IF stage = "Idle" THEN UNCHANGED <<session, live>> ELSE Over

Restart ==
  /\ ~up /\ up' = TRUE
  /\ Recovered
  /\ UNCHANGED <<table, service, overlapped>>

--------------------------------------------------------------------------------
Init ==
  /\ stage = "Idle" /\ paused = FALSE /\ attempt = 0 /\ ended = {}
  /\ rows = {} /\ unused = Bots
  /\ cache = None /\ purging = FALSE /\ calls = {} /\ runs = <<>> /\ current = 0
  /\ live = None /\ up = TRUE
  /\ overlapped = FALSE

Next ==
  \/ Snapshot \/ RemoveAll \/ DeleteRows
  \/ Begin \/ OnActive \/ Signal \/ Pause \/ Resume \/ Close \/ Void \/ Restart
  \/ \E b \in Bots : AddBot(b)
  \/ \E c \in calls : QueryBots(c) \/ CacheBots(c) \/ GetAttempt(c) \/ StartRun(c)
  \/ \E r \in DOMAIN runs : Heartbeat(r) \/ \E t \in runs[r].timers : React(r, t)

\* Timers fire, the supervisor restarts the process.  The bots are owed nothing.
Spec == Init /\ [][Next]_vars /\ WF_vars(OnActive) /\ WF_vars(Close) /\ WF_vars(Restart)

--------------------------------------------------------------------------------
(***************************************************************************)
(* Properties.                                                             *)
(***************************************************************************)

\* An automatic race has its share of green time, from the start and with whatever a
\* pause left of it, also where no random schedule would do.  (No state matters here:
\* it is looked at before the first race.)
EnoughGreen ==
  attempt = 0 => \A c \in Contents : \A left \in 1..c.dur : HasGreen(c, left)

\* A Run outside the map, which nothing will ever stop, holds and beats only after
\* two calls of onSnapshot overlapped: whatever else happens (pauses, purges, new
\* races), the runs and their timers are let go of one by one.
NoStrayRun ==
  ~overlapped => \A r \in DOMAIN runs : r # current => ~runs[r].beats /\ runs[r].timers = {}

\* Idle phones, bots that let go, bots deleted under the race's feet: a running race
\* always comes to its end, by its close, a pause, or the recovery of the process.
RaceEnds == (stage = "RoundActive") ~> (stage = "Idle" \/ paused)
================================================================================
