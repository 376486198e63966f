------------------------------ MODULE Display ------------------------------
(***************************************************************************)
(* The shared display during races: what it announces of the eliminations  *)
(* it hears of, and which cards of the arena flash.  An elimination comes  *)
(* twice, as an event with a count and in the snapshots around it, and the *)
(* page may be loaded again in the middle.  Fates themselves are in        *)
(* RaceEngine; here a racer only dies or not.                              *)
(***************************************************************************)
EXTENDS Integers, Sequences, FiniteSets

CONSTANTS
  Racers,
  MaxRaces,     \* bound: attempts
  MaxReloads,   \* bound: how often the page is loaded again
  MaxMessages   \* bound: messages under way

ASSUME DisplayAssumption ==
  {MaxRaces, MaxReloads, MaxMessages} \subseteq Nat /\ IsFiniteSet(Racers)

VARIABLES
  race,      \* the attempt, its dead and the ids its eliminations used up
  toScreen,  \* to the page, in order
  rt,        \* RealtimeService: the attempt and the last elimination heard of
  screen,    \* DisplayComponent: lastElimEvent, pendingBurst, burst
  arena,     \* RaceArenaComponent: primed, seenOut, freshOut
  reloads,
  heard, announced,  \* history: deaths the page was told of and has announced
  seenAlive,         \* history: who was alive in an earlier snapshot of this arena
  races              \* history: races of which this page heard a death

displayVars == <<race, toScreen, rt, screen, arena, reloads, heard, announced, seenAlive, races>>

NoEvent == [id |-> 0, count |-> 0]
NewArena == [primed |-> FALSE, seenOut |-> {}, freshOut |-> {}]
NewScreen == [lastElimEvent |-> -1, pendingBurst |-> 0, burst |-> 0]

Snapshot == [op |-> "snapshot", attempt |-> race.attempt, stage |-> race.stage, dead |-> race.dead]

DisplayInit ==
  /\ race = [attempt |-> 1, stage |-> "RoundActive", dead |-> {}, nextElimId |-> 1]
  /\ toScreen = <<Snapshot>>
  /\ rt = [attempt |-> 0, elimination |-> NoEvent]
  /\ screen = NewScreen /\ arena = NewArena
  /\ reloads = 0 /\ heard = 0 /\ announced = 0 /\ seenAlive = {} /\ races = {}

------------------------------------------------------------------------------
\* The server.

pageVars == <<rt, screen, arena, reloads, heard, announced, seenAlive, races>>
Room == Len(toScreen) < MaxMessages

\* eliminate and onEliminated: the event is out before the snapshot is built.
Eliminate(S) ==
  /\ race.stage = "RoundActive" /\ Room
  /\ race' = [race EXCEPT !.dead = @ \cup S, !.nextElimId = @ + 1]
  /\ toScreen' = Append(toScreen, [op |-> "eliminated", id |-> race.nextElimId, count |-> Cardinality(S)])
  /\ UNCHANGED pageVars

\* publish, and the lighter "race" five times a second
Publish ==
  /\ Room /\ toScreen' = Append(toScreen, Snapshot) /\ UNCHANGED <<race, pageVars>>

\* The next race: a new engine, which counts its events from one again.  Its
\* stages before the start are not lost, as each has a snapshot of its own.
Prepare ==
  /\ race.stage = "RoundActive" /\ race.attempt < MaxRaces /\ Room
  /\ race' = [attempt |-> race.attempt + 1, stage |-> "Ready", dead |-> {}, nextElimId |-> 1]
  /\ toScreen' = Append(toScreen, Snapshot') /\ UNCHANGED pageVars

StartRace ==
  /\ race.stage = "Ready" /\ race' = [race EXCEPT !.stage = "RoundActive"]
  /\ UNCHANGED <<toScreen, pageVars>>

------------------------------------------------------------------------------
\* The page.

\* Mutant: the effect runs again for every snapshot.
AnnounceAgain(ev, s) ==
  IF ev = NoEvent THEN s
  ELSE [s EXCEPT !.lastElimEvent = ev.id, !.pendingBurst = @ + ev.count]

\* The effect on rt.elimination, which also runs whenever the snapshot changes.
\* The names it looks up are never there: the feed comes with a later snapshot.
Announce(ev, s) ==
  IF ev = NoEvent \/ ev.id = s.lastElimEvent THEN s
  ELSE [s EXCEPT !.lastElimEvent = ev.id, !.pendingBurst = @ + ev.count]

\* A card flashes once, and not for what was out at the first snapshot.
trackEliminations(dead, a) ==
  [primed |-> TRUE, seenOut |-> dead,
   freshOut |-> a.freshOut \cup IF a.primed THEN dead \ a.seenOut ELSE {}]

HearElimination ==
  LET m == Head(toScreen) IN
  /\ m.op = "eliminated"
  /\ rt' = [rt EXCEPT !.elimination = [id |-> m.id, count |-> m.count]]
  /\ screen' = Announce(rt'.elimination, screen)
  /\ heard' = heard + m.count /\ races' = races \cup {rt.attempt}
  /\ UNCHANGED <<arena, seenAlive>>

\* A snapshot of another attempt resets what was heard; lastElimEvent stays.
\* The arena is on the page only while the race is.
SeeSnapshot ==
  LET m == Head(toScreen) IN
  /\ m.op = "snapshot"
  /\ rt' = [attempt |-> m.attempt,
            elimination |-> IF m.attempt = rt.attempt THEN rt.elimination ELSE NoEvent]
  /\ screen' = Announce(rt'.elimination, screen)
  /\ IF m.stage = "RoundActive"
       THEN /\ arena' = trackEliminations(m.dead, arena)
            /\ seenAlive' = seenAlive \cup (Racers \ m.dead)
       ELSE arena' = NewArena /\ seenAlive' = {}
  /\ UNCHANGED <<heard, races>>

Hear ==
  /\ toScreen # <<>> /\ toScreen' = Tail(toScreen)
  /\ HearElimination \/ SeeSnapshot
  /\ UNCHANGED <<race, reloads, announced>>

\* 300 ms after the last of them, one sound and one burst for all
Burst ==
  /\ screen.pendingBurst > 0
  /\ screen' = [screen EXCEPT !.pendingBurst = 0, !.burst = screen.pendingBurst]
  /\ announced' = announced + screen.pendingBurst
  /\ UNCHANGED <<race, toScreen, rt, arena, reloads, heard, seenAlive, races>>

\* 1.8 s and 2 s later
Settle ==
  /\ \/ screen.burst > 0 /\ screen' = [screen EXCEPT !.burst = 0] /\ UNCHANGED arena
     \/ arena.freshOut # {} /\ arena' = [arena EXCEPT !.freshOut = {}] /\ UNCHANGED screen
  /\ UNCHANGED <<race, toScreen, rt, reloads, heard, announced, seenAlive, races>>

\* The page is loaded again and gets a snapshot when it connects.
Reload ==
  /\ reloads < MaxReloads /\ reloads' = reloads + 1
  /\ toScreen' = <<Snapshot>>
  /\ rt' = [attempt |-> 0, elimination |-> NoEvent]
  /\ screen' = NewScreen /\ arena' = NewArena
  /\ heard' = 0 /\ announced' = 0 /\ seenAlive' = {} /\ races' = {}
  /\ UNCHANGED race

DisplayNext ==
  \/ \E S \in (SUBSET (Racers \ race.dead)) \ {{}} : Eliminate(S)
  \/ Publish \/ Prepare \/ StartRace
  \/ Hear \/ Burst \/ Settle \/ Reload

------------------------------------------------------------------------------
\* Properties.

\* However events, snapshots and bursts fall together, no death is announced
\* twice, and none is left out while the page has heard of one race only (in a
\* later race the first may be: see the README).  A card flashes only for a
\* racer this arena has shown alive: a page that is loaded in the middle of a
\* race replays nothing.
AnnouncedOnce ==
  /\ announced + screen.pendingBurst <= heard
  /\ Cardinality(races) <= 1 => announced + screen.pendingBurst = heard
  /\ arena.freshOut \subseteq seenAlive
=============================================================================
