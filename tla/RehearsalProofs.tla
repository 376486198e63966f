--------------------------- MODULE RehearsalProofs ---------------------------
(***************************************************************************)
(* Nothing that a rehearsal player started is out of reach, for every      *)
(* number of players, races, calls and runs; and every race has its share  *)
(* of green time, whatever is left of it.                                  *)
(***************************************************************************)
EXTENDS Rehearsal, SequenceTheorems, FiniteSetTheorems, WellFoundedInduction, TLAPS

Colours == {"RED", "GREEN"}
MaybeBots == (SUBSET Bots) \cup {None}
CallRecords == [attempt : Nat, colour : Colours, at : {"query", "rows", "get", "got"}, bots : MaybeBots,
                open : BOOLEAN]
Timers == [bot : Bots, press : BOOLEAN]
RunRecords == [attempt : Nat, beats : BOOLEAN, holding : SUBSET Bots, timers : SUBSET Timers]
Crowd == SUBSET (People \cup Bots)
LiveRecords == [players : Crowd, racers : Crowd, colour : Colours, registered : BOOLEAN, ticking : BOOLEAN]

\* What the service and the race can hold.
BotsTypeOK ==
  /\ attempt \in Nat /\ rows \subseteq Bots /\ unused \subseteq Bots
  /\ cache \in MaybeBots
  /\ calls \subseteq CallRecords
  /\ runs \in Seq(RunRecords) /\ current \in 0..Len(runs)
  /\ live \in LiveRecords \cup {None}
  /\ paused => live \in LiveRecords
  /\ overlapped \in BOOLEAN

\* While no two calls have overlapped there is one at most, and it has stopped the run before
\* its own: it will put none out of the map.
OneCall ==
  ~overlapped => /\ \A c, d \in calls : c = d
                 /\ calls # {} => current = 0

RunsInv == BotsTypeOK /\ OneCall /\ NoStrayRun

\* A stopped run is a run again.
LEMMA StoppedRun == ASSUME NEW run PROVE Stopped(run) \in RunRecords /\ ~Stopped(run).beats /\ Stopped(run).timers = {}
BY DEF Stopped, RunRecords

LEMMA ReactionsTyped == ASSUME BotsTypeOK, NEW colour PROVE ReactionTimers(colour) \subseteq Timers
<1>1. cache # None => cache \subseteq Bots
  BY DEF BotsTypeOK, MaybeBots
<1>2. (colour = "GREEN") \in BOOLEAN
  OBVIOUS
<1>3. CASE cache = None
  BY <1>3 DEF ReactionTimers
<1>4. CASE cache # None
  <2>1. ASSUME NEW b \in cache PROVE [bot |-> b, press |-> colour = "GREEN"] \in Timers
    BY <1>1, <1>2, <1>4, <2>1, Zenon DEF Timers
  <2>2. QED
    BY <1>4, <2>1 DEF ReactionTimers
<1>5. QED
  BY <1>3, <1>4

\* Changing one run keeps the others, and a sequence of them.
LEMMA OneRunChanged ==
  ASSUME NEW s \in Seq(RunRecords), NEW r \in 1..Len(s), NEW v \in RunRecords,
         NEW t, t = [s EXCEPT ![r] = v]
  PROVE  /\ t \in Seq(RunRecords) /\ Len(t) = Len(s) /\ t[r] = v
         /\ \A q \in 1..Len(s) : q # r => t[q] = s[q]
OBVIOUS

\* Stopping leaves no run that is not stopped, but for those that were out of the map before.
LEMMA StopKeeps ==
  ASSUME BotsTypeOK, NoStrayRun \/ overlapped, stop
  PROVE  /\ runs' \in Seq(RunRecords) /\ Len(runs') = Len(runs) /\ current' = 0
         /\ ~overlapped => \A r \in DOMAIN runs' : ~runs'[r].beats /\ runs'[r].timers = {}
<1>1. runs \in Seq(RunRecords) /\ current \in 0..Len(runs)
  BY DEF BotsTypeOK
<1>2. current' = 0 /\ runs' = RunsAfterStop
  BY DEF stop
<1>3. ASSUME current = 0 PROVE runs' = runs
  BY <1>2, <1>3 DEF RunsAfterStop
<1>4. CASE current = 0
  BY <1>1, <1>2, <1>3, <1>4 DEF NoStrayRun
<1>5. CASE current # 0
  <2>1. current \in 1..Len(runs)
    BY <1>1, <1>5
  <2> DEFINE v == Stopped(runs[current])
  <2>2. v \in RunRecords /\ ~v.beats /\ v.timers = {}
    BY StoppedRun
  <2>3. runs' = [runs EXCEPT ![current] = v]
    BY <1>2, <1>5 DEF RunsAfterStop
  <2>4. /\ runs' \in Seq(RunRecords) /\ Len(runs') = Len(runs) /\ runs'[current] = v
        /\ \A q \in 1..Len(runs) : q # current => runs'[q] = runs[q]
    <3> HIDE DEF v
    <3>1. QED
      BY <1>1, <2>1, <2>2, <2>3, OneRunChanged
  <2>5. ~overlapped => \A r \in DOMAIN runs' : ~runs'[r].beats /\ runs'[r].timers = {}
    <3> SUFFICES ASSUME ~overlapped, NEW r \in DOMAIN runs' PROVE ~runs'[r].beats /\ runs'[r].timers = {}
      OBVIOUS
    <3>1. r \in 1..Len(runs) /\ r \in DOMAIN runs
      BY <1>1, <2>4
    <3>2. CASE r = current
      BY <2>2, <2>4, <3>2
    <3>3. CASE r # current
      BY <2>4, <3>1, <3>3 DEF NoStrayRun
    <3>4. QED
      BY <3>2, <3>3
  <2>6. QED
    BY <1>2, <2>4, <2>5
<1>6. QED
  BY <1>4, <1>5

LEMMA RunsStart == Init => RunsInv
<1> SUFFICES ASSUME Init PROVE RunsInv
  OBVIOUS
<1>1. runs \in Seq(RunRecords) /\ Len(runs) = 0 /\ current = 0 /\ DOMAIN runs = {}
  BY DEF Init
<1>2. /\ attempt \in Nat /\ rows \subseteq Bots /\ unused \subseteq Bots /\ cache \in MaybeBots
      /\ live \in LiveRecords \cup {None} /\ ~paused /\ overlapped \in BOOLEAN
  BY DEF Init, MaybeBots
<1>3. calls \subseteq CallRecords /\ current \in 0..Len(runs)
  BY <1>1 DEF Init
<1>4. BotsTypeOK
  BY <1>1, <1>2, <1>3 DEF BotsTypeOK
<1>5. QED
  BY <1>1, <1>4 DEF Init, RunsInv, OneCall, NoStrayRun

\* The fields of a race.
LEMMA LiveTyped ==
  ASSUME BotsTypeOK, live # None
  PROVE  /\ live.players \in Crowd /\ live.racers \in Crowd /\ live.colour \in Colours
         /\ live.registered \in BOOLEAN /\ live.ticking \in BOOLEAN /\ live \in LiveRecords
BY DEF BotsTypeOK, LiveRecords

\* A step that leaves the service and its bots alone.
LEMMA ServiceAlone ==
  ASSUME RunsInv, UNCHANGED <<cache, calls, runs, current, overlapped>>,
         attempt' \in Nat, rows' \subseteq Bots, unused' \subseteq Bots, live' \in LiveRecords \cup {None},
         paused' => live' \in LiveRecords
  PROVE  RunsInv'
BY DEF RunsInv, BotsTypeOK, OneCall, NoStrayRun

\* What an input leaves of the race.
LEMMA InputTyped ==
  ASSUME BotsTypeOK, NEW held, Input(held)
  PROVE  live' \in LiveRecords \cup {None} /\ (paused => live' \in LiveRecords)
<1>1. CASE UNCHANGED live
  BY <1>1 DEF BotsTypeOK
<1>2. CASE live # None /\ ~UNCHANGED live
  <2>1. PICK gone \in SUBSET (held \cap live.racers) : live' = [live EXCEPT !.racers = @ \ gone]
    BY <1>2 DEF Input
  <2>2. live.racers \ gone \in Crowd
    BY <1>2, LiveTyped DEF Crowd
  <2>3. live' \in LiveRecords
    BY <1>2, <2>1, <2>2, LiveTyped DEF LiveRecords
  <2>4. CASE paused
    BY <1>2, <2>4 DEF Input
  <2>5. QED
    BY <2>3, <2>4
<1>3. QED
  BY <1>1, <1>2 DEF Input

\* Calls: one takes the place of the one it was.
LEMMA CallMoves ==
  ASSUME RunsInv, NEW c \in calls, NEW d \in CallRecords,
         Moved(c, d) \/ calls' = calls \ {c},
         UNCHANGED <<paused, attempt, rows, unused, runs, current, live, overlapped>>, cache' \in MaybeBots
  PROVE  RunsInv'
<1>1. calls' \subseteq CallRecords
  BY DEF RunsInv, BotsTypeOK, Moved
<1>2. OneCall'
  BY DEF RunsInv, OneCall, Moved
<1>3. QED
  BY <1>1, <1>2 DEF RunsInv, BotsTypeOK, NoStrayRun

LEMMA SnapshotStep == ASSUME RunsInv, Snapshot PROVE RunsInv'
<1>1. BotsTypeOK /\ OneCall /\ NoStrayRun
  BY DEF RunsInv
<1>2. stop /\ UNCHANGED <<session, table, cache, purging, live, up>>
  BY DEF Snapshot
<1>3. /\ runs' \in Seq(RunRecords) /\ current' = 0 /\ current' \in 0..Len(runs')
      /\ ~overlapped => \A r \in DOMAIN runs' : ~runs'[r].beats /\ runs'[r].timers = {}
  BY <1>1, <1>2, StopKeeps
<1>4. CASE UNCHANGED <<calls, overlapped>>
  BY <1>1, <1>2, <1>3, <1>4 DEF RunsInv, BotsTypeOK, OneCall, NoStrayRun, session, table
<1> DEFINE c == [attempt |-> attempt, colour |-> IF live = None THEN "RED" ELSE live.colour,
                 at |-> IF cache = None THEN "query" ELSE "get", bots |-> cache, open |-> TRUE]
<1>5. ASSUME calls' = calls \cup {c}, overlapped' = (overlapped \/ calls # {}) PROVE RunsInv'
  <2>1. c \in CallRecords
    <3>1. (IF live = None THEN "RED" ELSE live.colour) \in Colours
      BY <1>1, LiveTyped DEF Colours
    <3>2. QED
      BY <1>1, <3>1 DEF CallRecords, BotsTypeOK
  <2>2. calls' \subseteq CallRecords /\ overlapped' \in BOOLEAN
    BY <1>1, <1>5, <2>1 DEF BotsTypeOK
  <2>3. BotsTypeOK'
    BY <1>1, <1>2, <1>3, <2>2 DEF BotsTypeOK, session, table
  <2>4. ~overlapped' => calls = {} /\ ~overlapped
    BY <1>5, <1>1 DEF BotsTypeOK
  <2>5. OneCall'
    <3> HIDE DEF c
    <3>1. QED
      BY <1>3, <1>5, <2>4 DEF OneCall
  <2>6. NoStrayRun'
    BY <1>3, <2>4 DEF NoStrayRun
  <2>7. QED
    BY <2>3, <2>5, <2>6 DEF RunsInv
<1>6. QED
  BY <1>4, <1>5 DEF Snapshot

LEMMA CallStep ==
  ASSUME RunsInv, NEW c \in calls, QueryBots(c) \/ CacheBots(c) \/ GetAttempt(c) PROVE RunsInv'
<1>1. BotsTypeOK /\ c \in CallRecords /\ rows \in MaybeBots /\ c.bots \in MaybeBots /\ cache \in MaybeBots
  BY DEF RunsInv, BotsTypeOK, CallRecords, MaybeBots
<1>2. CASE QueryBots(c)
  <2>1. [c EXCEPT !.at = "rows", !.bots = rows] \in CallRecords
    BY <1>1 DEF CallRecords
  <2>2. QED
    BY <1>1, <1>2, <2>1, CallMoves DEF QueryBots, session, table
<1>3. CASE CacheBots(c)
  <2>1. [c EXCEPT !.at = "get"] \in CallRecords
    BY <1>1 DEF CallRecords
  <2>2. QED
    BY <1>1, <1>3, <2>1, CallMoves DEF CacheBots, session, table
<1>4. CASE GetAttempt(c)
  <2>0. (c.attempt \notin ended) \in BOOLEAN
    OBVIOUS
  <2>1. [c EXCEPT !.at = "got", !.open = c.attempt \notin ended] \in CallRecords
    BY <1>1, <2>0 DEF CallRecords
  <2>2. QED
    BY <1>1, <1>4, <2>1, CallMoves DEF GetAttempt, session, table
<1>5. QED
  BY <1>2, <1>3, <1>4

LEMMA StartRunStep == ASSUME RunsInv, NEW c \in calls, StartRun(c) PROVE RunsInv'
<1>1. BotsTypeOK /\ OneCall /\ NoStrayRun /\ c \in CallRecords /\ runs \in Seq(RunRecords)
  BY DEF RunsInv, BotsTypeOK
<1>2. calls' = calls \ {c} /\ UNCHANGED <<session, table, cache, purging, live, up, overlapped>>
  BY DEF StartRun
<1>3. CASE UNCHANGED <<runs, current>>
  <2>1. cache' \in MaybeBots
    BY <1>1, <1>2 DEF BotsTypeOK
  <2>2. QED
    BY <1>1, <1>2, <1>3, <2>1, CallMoves DEF session, table
<1> DEFINE v == [attempt |-> c.attempt, beats |-> TRUE, holding |-> {}, timers |-> ReactionTimers(c.colour)]
<1>4. ASSUME runs' = Append(runs, v), current' = Len(runs) + 1 PROVE RunsInv'
  <2>1. v \in RunRecords
    <3>1. ReactionTimers(c.colour) \subseteq Timers /\ c.attempt \in Nat
      BY <1>1, ReactionsTyped DEF CallRecords
    <3>2. QED
      BY <3>1 DEF RunRecords
  <2>2. /\ runs' \in Seq(RunRecords) /\ Len(runs') = Len(runs) + 1 /\ current' \in 0..Len(runs')
        /\ \A r \in DOMAIN runs' : r # current' => r \in DOMAIN runs /\ r # 0 /\ runs'[r] = runs[r]
    <3> HIDE DEF v
    <3>1. QED
      BY <1>1, <1>4, <2>1
  <2>3. BotsTypeOK'
    BY <1>1, <1>2, <2>2 DEF BotsTypeOK, session, table
  <2>4. OneCall'
    BY <1>1, <1>2 DEF OneCall
  <2>5. NoStrayRun'
    <3> SUFFICES ASSUME ~overlapped', NEW r \in DOMAIN runs', r # current'
                 PROVE  ~runs'[r].beats /\ runs'[r].timers = {}
      BY DEF NoStrayRun
    <3>1. ~overlapped /\ current = 0
      BY <1>1, <1>2 DEF OneCall
    <3>2. QED
      BY <1>1, <2>2, <3>1 DEF NoStrayRun
  <2>6. QED
    BY <2>3, <2>4, <2>5 DEF RunsInv
<1>5. QED
  BY <1>3, <1>4 DEF StartRun

\* A timer of a run belongs to a run that may have one.
LEMMA ReactStep ==
  ASSUME RunsInv, NEW r \in DOMAIN runs, NEW t \in runs[r].timers, React(r, t) PROVE RunsInv'
<1>1. BotsTypeOK /\ OneCall /\ NoStrayRun /\ runs \in Seq(RunRecords) /\ r \in 1..Len(runs) /\ runs[r] \in RunRecords
  BY DEF RunsInv, BotsTypeOK
<1>2. t \in Timers /\ t.bot \in Bots
  BY <1>1 DEF RunRecords, Timers
<1> DEFINE h == IF t.press THEN runs[r].holding \cup {t.bot} ELSE runs[r].holding \ {t.bot}
           v == [runs[r] EXCEPT !.timers = @ \ {t}, !.holding = h]
<1>3. v \in RunRecords /\ v.beats = runs[r].beats
  <2>1. h \in SUBSET Bots
    BY <1>1, <1>2 DEF RunRecords
  <2>2. runs[r].timers \ {t} \in SUBSET Timers
    BY <1>1 DEF RunRecords
  <2> HIDE DEF h
  <2>3. QED
    BY <1>1, <2>1, <2>2 DEF RunRecords
<1>4. runs' = [runs EXCEPT ![r] = v]
  BY DEF React
<1>5. /\ runs' \in Seq(RunRecords) /\ Len(runs') = Len(runs)
      /\ \A q \in 1..Len(runs) : q # r => runs'[q] = runs[q]
  <2> HIDE DEF v
  <2>1. QED
    BY <1>1, <1>3, <1>4, OneRunChanged
<1>6. live' \in LiveRecords \cup {None} /\ (paused => live' \in LiveRecords)
  BY <1>1, InputTyped DEF React
<1>7. UNCHANGED <<paused, attempt, rows, unused, cache, calls, current, overlapped>>
  BY DEF React, session, table
<1>8. BotsTypeOK'
  BY <1>1, <1>5, <1>6, <1>7 DEF BotsTypeOK
<1>9. NoStrayRun'
  <2> SUFFICES ASSUME ~overlapped', NEW q \in DOMAIN runs', q # current'
               PROVE  ~runs'[q].beats /\ runs'[q].timers = {}
    BY DEF NoStrayRun
  <2>1. ~overlapped /\ q \in DOMAIN runs /\ q \in 1..Len(runs) /\ q # current
    BY <1>1, <1>5, <1>7
  <2>2. ~runs[q].beats /\ runs[q].timers = {}
    BY <1>1, <2>1 DEF NoStrayRun
  <2>3. q # r
    BY <2>2
  <2>4. QED
    BY <1>5, <2>1, <2>2, <2>3
<1>10. QED
  BY <1>1, <1>7, <1>8, <1>9 DEF RunsInv, OneCall

\* A signal sets timers in the run that the map knows, and in no other.
LEMMA SignalStep == ASSUME RunsInv, Signal PROVE RunsInv'
<1> DEFINE colour == IF live.colour = "RED" THEN "GREEN" ELSE "RED"
<1>1. BotsTypeOK /\ OneCall /\ NoStrayRun /\ runs \in Seq(RunRecords) /\ current \in 0..Len(runs)
  BY DEF RunsInv, BotsTypeOK
<1>2. live # None /\ live' = [live EXCEPT !.colour = colour] /\ ReactTo(colour)
  BY DEF Signal, Racing
<1>3. UNCHANGED <<paused, attempt, rows, unused, cache, calls, current, overlapped>>
  BY DEF Signal, session, table
<1>4. live' \in LiveRecords /\ ~paused'
  <2>1. colour \in Colours
    BY DEF Colours
  <2>2. ~paused'
    BY <1>3 DEF Signal, Active
  <2> HIDE DEF colour
  <2>3. QED
    BY <1>1, <1>2, <2>1, <2>2, LiveTyped DEF LiveRecords
<1>5. CASE current = 0
  <2>1. UNCHANGED runs
    BY <1>2, <1>5 DEF ReactTo
  <2>2. attempt' \in Nat /\ rows' \subseteq Bots /\ unused' \subseteq Bots
    BY <1>1, <1>3 DEF BotsTypeOK
  <2>3. QED
    BY <1>3, <1>4, <2>1, <2>2, ServiceAlone
<1>6. CASE current # 0
  <2>1. current \in 1..Len(runs) /\ runs[current] \in RunRecords
    BY <1>1, <1>6
  <2> DEFINE ts == runs[current].timers \cup ReactionTimers(colour)
             v == [runs[current] EXCEPT !.timers = ts]
  <2>2. ts \in SUBSET Timers
    BY <1>1, <2>1, ReactionsTyped DEF RunRecords
  <2>3. v \in RunRecords
    <3> HIDE DEF ts
    <3>1. QED
      BY <2>1, <2>2 DEF RunRecords
  <2>4. runs' = [runs EXCEPT ![current] = v]
    BY <1>2, <1>6 DEF ReactTo
  <2>5. /\ runs' \in Seq(RunRecords) /\ Len(runs') = Len(runs)
        /\ \A q \in 1..Len(runs) : q # current => runs'[q] = runs[q]
    <3> HIDE DEF v
    <3>1. QED
      BY <1>1, <2>1, <2>3, <2>4, OneRunChanged
  <2>6. BotsTypeOK'
    BY <1>1, <1>3, <1>4, <2>5 DEF BotsTypeOK
  <2>7. NoStrayRun'
    BY <1>1, <1>3, <2>5 DEF NoStrayRun
  <2>8. QED
    BY <1>1, <1>3, <2>6, <2>7 DEF RunsInv, OneCall
<1>7. QED
  BY <1>5, <1>6

\* The endpoints: bots come, and go in two steps of which the first stops the run.
LEMMA EndpointStep ==
  ASSUME RunsInv, RemoveAll \/ DeleteRows \/ \E b \in Bots : AddBot(b) PROVE RunsInv'
<1>1. BotsTypeOK /\ OneCall /\ NoStrayRun
  BY DEF RunsInv
<1>2. CASE RemoveAll
  <2>1. stop /\ UNCHANGED <<session, table, cache, calls, live, up, overlapped>>
    BY <1>2 DEF RemoveAll
  <2>2. /\ runs' \in Seq(RunRecords) /\ current' = 0 /\ current' \in 0..Len(runs')
        /\ ~overlapped => \A r \in DOMAIN runs' : ~runs'[r].beats /\ runs'[r].timers = {}
    BY <1>1, <2>1, StopKeeps
  <2>3. QED
    BY <1>1, <2>1, <2>2 DEF RunsInv, BotsTypeOK, OneCall, NoStrayRun, session, table
<1>3. ASSUME rows' \subseteq Bots, unused' \subseteq Bots, cache' = None,
             UNCHANGED <<paused, attempt, calls, runs, current, live, overlapped>>
      PROVE  RunsInv'
  BY <1>1, <1>3 DEF RunsInv, BotsTypeOK, OneCall, NoStrayRun, MaybeBots
<1>4. CASE DeleteRows
  BY <1>1, <1>3, <1>4 DEF DeleteRows, BotsTypeOK, session
<1>5. ASSUME NEW b \in Bots, AddBot(b) PROVE RunsInv'
  BY <1>1, <1>3, <1>5 DEF AddBot, BotsTypeOK, session
<1>6. QED
  BY <1>2, <1>4, <1>5

\* The race, whose end by a deleted player leaves nothing of the service.
LEMMA RaceStep ==
  ASSUME RunsInv, Begin \/ OnActive \/ Pause \/ Resume \/ Close \/ Void \/ Restart PROVE RunsInv'
<1>1. /\ BotsTypeOK /\ attempt \in Nat /\ rows \subseteq Bots /\ unused \subseteq Bots
      /\ live \in LiveRecords \cup {None} /\ (paused => live \in LiveRecords)
  BY DEF RunsInv, BotsTypeOK
<1>2. ASSUME live' \in LiveRecords \cup {None}, paused' => live' \in LiveRecords, attempt' \in Nat,
             UNCHANGED <<table, cache, calls, runs, current, overlapped>>
      PROVE  RunsInv'
  BY <1>1, <1>2, ServiceAlone DEF table
<1>3. CASE Begin
  <2>1. live' \in LiveRecords /\ attempt' \in Nat
    BY <1>1, <1>3 DEF Begin, LiveRecords, Crowd, Colours
  <2>2. QED
    BY <1>2, <1>3, <2>1 DEF Begin, service
<1>4. CASE OnActive
  <2>1. live # None
    BY <1>4 DEF OnActive, Racing
  <2>2. Registered \in Crowd
    BY <1>1 DEF Registered, Crowd
  <2>3. [live EXCEPT !.colour = "RED"] \in LiveRecords
    BY <1>1, <2>1, LiveTyped DEF LiveRecords, Colours
  <2>4. [live EXCEPT !.players = Registered, !.racers = Registered, !.registered = TRUE] \in LiveRecords
    <3> TRUE \in BOOLEAN
      OBVIOUS
    <3>1. QED
      BY <1>1, <2>1, <2>2, LiveTyped DEF LiveRecords
  <2>5. QED
    BY <1>1, <1>2, <1>4, <2>3, <2>4 DEF OnActive, service
<1>5. CASE Pause
  <2>1. live # None /\ FALSE \in BOOLEAN
    BY <1>5 DEF Pause, Racing
  <2>2. [live EXCEPT !.ticking = FALSE] \in LiveRecords
    BY <1>1, <2>1, LiveTyped DEF LiveRecords
  <2>3. QED
    BY <1>1, <1>2, <1>5, <2>2 DEF Pause, service
<1>6. CASE Resume
  <2>1. live \in LiveRecords /\ TRUE \in BOOLEAN
    BY <1>1, <1>6 DEF Resume
  <2>2. [live EXCEPT !.ticking = TRUE] \in LiveRecords
    BY <2>1 DEF LiveRecords
  <2>3. QED
    BY <1>1, <1>2, <1>6, <2>2 DEF Resume, service
<1>7. CASE Close
  <2>1. CASE Over /\ UNCHANGED <<service, up>>
    BY <1>1, <1>2, <1>7, <2>1 DEF Close, Over, service
  <2>2. ASSUME live' = None, cache' = None, calls' = {}, runs' = <<>>, current' = 0, UNCHANGED session
        PROVE  RunsInv'
    <3>1. runs' \in Seq(RunRecords) /\ Len(runs') = 0 /\ DOMAIN runs' = {}
      BY <2>2
    <3>2. overlapped' \in BOOLEAN /\ rows' \subseteq Bots /\ unused' \subseteq Bots
      BY <1>1, <1>7 DEF Close, table, BotsTypeOK
    <3>3. attempt' \in Nat /\ cache' \in MaybeBots /\ live' \in LiveRecords \cup {None} /\ ~paused'
      BY <1>1, <1>7, <2>2 DEF MaybeBots, session, Close, Active
    <3>4. calls' \subseteq CallRecords /\ current' \in 0..Len(runs')
      BY <2>2, <3>1
    <3>5. BotsTypeOK'
      BY <3>1, <3>2, <3>3, <3>4 DEF BotsTypeOK
    <3>6. QED
      BY <2>2, <3>1, <3>5 DEF RunsInv, OneCall, NoStrayRun
  <2>3. QED
    BY <1>7, <2>1, <2>2 DEF Close
<1>8. CASE Void
  BY <1>1, <1>2, <1>8 DEF Void, Over, service
<1>9. CASE Restart
  BY <1>1, <1>2, <1>9 DEF Restart, Recovered, Over, service, session
<1>10. QED
  BY <1>3, <1>4, <1>5, <1>6, <1>7, <1>8, <1>9

\* The inductive invariant of the bots' service: its types, one call, no stray run.
THEOREM RunsInvariant == Spec => []RunsInv
<1>1. RunsInv /\ [Next]_vars => RunsInv'
  <2> SUFFICES ASSUME RunsInv, [Next]_vars PROVE RunsInv'
    OBVIOUS
  <2>1. CASE UNCHANGED vars
    BY <2>1 DEF vars, RunsInv, BotsTypeOK, OneCall, NoStrayRun
  <2>2. ASSUME NEW r \in DOMAIN runs, Heartbeat(r) PROVE RunsInv'
    <3>1. live' \in LiveRecords \cup {None} /\ (paused' => live' \in LiveRecords)
      BY <2>2, InputTyped DEF RunsInv, Heartbeat, session
    <3>2. QED
      BY <2>2, <3>1, ServiceAlone DEF RunsInv, BotsTypeOK, Heartbeat, session, table, service
  <2>3. QED
    BY <2>1, <2>2, SnapshotStep, CallStep, StartRunStep, ReactStep, SignalStep, EndpointStep, RaceStep DEF Next
<1>2. QED
  BY <1>1, RunsStart, PTL DEF Spec

\* Whatever snapshots, signals, purges, pauses, new races and deaths of the process do, a run
\* that still acts is the one the service can stop, until two calls of onSnapshot overlap.
THEOREM NoStrayRunThm == Spec => []NoStrayRun
<1>1. RunsInv => NoStrayRun
  BY DEF RunsInv
<1>2. QED
  BY <1>1, RunsInvariant, PTL
------------------------------------------------------------------------------
(***************************************************************************)
(* The automatic signals.                                                  *)
(***************************************************************************)

\* The units of a race in which the light is green.
Lit(schedule) == UNION {b.from..b.to - 1 : b \in schedule}

\* Induction over the natural numbers, for the set of those that have a property.
LEMMA NumberInduction ==
  ASSUME NEW Good, 0 \in Good, \A n \in Nat : n \in Good => n + 1 \in Good
  PROVE  \A n \in Nat : n \in Good
<1> DEFINE Bad == {n \in Nat : n \notin Good}
           R == OpToRel(<, Nat)
<1>1. SUFFICES ASSUME Bad # {} PROVE FALSE
  OBVIOUS
<1>2. PICK n \in Bad : \A m \in Bad : ~(<<m, n>> \in R)
  <2>1. IsWellFoundedOn(R, Nat) /\ Bad \subseteq Nat
    BY NatLessThanWellFounded
  <2> HIDE DEF Bad, R
  <2>2. QED
    BY <1>1, <2>1, WFMin
<1>3. n \in Nat /\ n \notin Good
  BY <1>2
<1>4. PICK m \in Nat : m + 1 = n /\ <<m, n>> \in Nat \X Nat /\ m < n
  <2>1. n # 0
    BY <1>3
  <2>2. n - 1 \in Nat /\ (n - 1) + 1 = n /\ n - 1 < n
    BY <1>3, <2>1
  <2>3. QED
    BY <1>3, <2>2
<1>5. <<m, n>> \in R
  BY <1>4 DEF OpToRel
<1>6. m \in Good
  BY <1>2, <1>4, <1>5
<1>7. QED
  BY <1>3, <1>4, <1>6

\* Two stretches of time, one after the other, are green for as long as both of them.
LEMMA GreenAdds ==
  ASSUME NEW G, IsFiniteSet(G), NEW x \in Nat, NEW y \in Nat, x <= y, x..y - 1 \subseteq G
  PROVE  Cardinality({t \in G : t \in 0..y - 1}) = Cardinality({t \in G : t \in 0..x - 1}) + (y - x)
<1> DEFINE A == {t \in G : t \in 0..x - 1}
           B == x..y - 1
<1>1. IsFiniteSet(A) /\ IsFiniteSet(B) /\ Cardinality(B) = y - x
  <2>1. IsFiniteSet(A)
    BY FS_Subset
  <2>2. PICK z \in Int : z = y - 1
    OBVIOUS
  <2>3. IsFiniteSet(x..z) /\ Cardinality(x..z) = IF x > z THEN 0 ELSE z - x + 1
    BY FS_Interval
  <2>4. QED
    BY <2>1, <2>2, <2>3
<1>2. {t \in G : t \in 0..y - 1} = A \cup B /\ A \cap B = {}
  OBVIOUS
<1>3. Cardinality(A) \in Nat /\ Cardinality(A \cap B) = 0
  BY <1>1, <1>2, FS_CardinalityType, FS_EmptySet
<1>4. Cardinality(A \cup B) = Cardinality(A) + Cardinality(B) - Cardinality(A \cap B)
  <2> HIDE DEF A, B
  <2>1. QED
    BY <1>1, FS_Union
<1>5. Cardinality(A \cup B) = Cardinality(A) + (y - x)
  <2> HIDE DEF A, B
  <2>1. QED
    BY <1>1, <1>3, <1>4
<1>6. QED
  BY <1>2, <1>5

\* Blocks lie within the race.
LEMMA LitWithin ==
  ASSUME NEW first \in Nat, NEW green \in Nat, NEW period \in Nat, NEW total \in Int
  PROVE  Lit(Blocks(first, green, period, total)) \subseteq 0..total - 1
<1> DEFINE S == Blocks(first, green, period, total)
<1>1. ASSUME NEW b \in S PROVE b.from..b.to - 1 \subseteq 0..total - 1
  <2>1. PICK N : N = (IF total > 0 THEN total \div period ELSE 0)
    OBVIOUS
  <2>2. S = {[from |-> first + k * period, to |-> Clip(first + k * period + green, total)] :
               k \in {j \in 0..N : first + j * period < total}}
    BY <2>1, Zenon DEF Blocks
  <2> HIDE DEF S
  <2>3. PICK k \in 0..N : /\ b = [from |-> first + k * period, to |-> Clip(first + k * period + green, total)]
                          /\ first + k * period < total
    BY <1>1, <2>2
  <2>4. k \in Nat /\ k * period \in Nat
    OBVIOUS
  <2>5. PICK x \in Nat : x = first + k * period
    BY <2>4
  <2>6. b.from = x /\ b.to = Clip(x + green, total)
    BY <2>3, <2>5
  <2>7. b.to \in Int /\ b.to <= total
    BY <2>6 DEF Clip
  <2>8. QED
    BY <2>6, <2>7
<1>2. QED
  BY <1>1 DEF Lit

\* Blocks that are green for three fifths of their period are so for three fifths of any time.
LEMMA BlocksAreGreen ==
  ASSUME NEW total \in Nat \ {0}, NEW green \in Nat \ {0}, NEW period \in Nat \ {0},
         green <= period, 10 * green >= 6 * period,
         NEW q \in Nat, q = total \div period, q * period <= total, total < (q + 1) * period
  PROVE  /\ GreenTime(Blocks(0, green, period, total)) \in Nat
         /\ 10 * GreenTime(Blocks(0, green, period, total)) >= 6 * total
<1> DEFINE S == Blocks(0, green, period, total)
           G == Lit(S)
           Upto(x) == Cardinality({t \in G : t \in 0..x - 1})
<1>0. S = {[from |-> 0 + k * period, to |-> Clip(0 + k * period + green, total)] :
              k \in {j \in 0..q : 0 + j * period < total}}
  <2>1. (IF total > 0 THEN total \div period ELSE 0) = q
    OBVIOUS
  <2>2. QED
    BY <2>1, Zenon DEF Blocks
<1>1. \A n \in 0..q : n * period \in Nat /\ n * period <= q * period
  OBVIOUS
<1> HIDE DEF S
<1>2. ASSUME NEW n \in 0..q, n * period < total
      PROVE  n * period..Clip(n * period + green, total) - 1 \subseteq G
  <2>1. [from |-> 0 + n * period, to |-> Clip(0 + n * period + green, total)] \in S
    <3>1. 0 + n * period < total
      BY <1>1, <1>2
    <3>2. n \in {j \in 0..q : 0 + j * period < total}
      BY <3>1
    <3>3. QED
      BY <1>0, <3>2, Zenon
  <2>2. PICK b \in S : b.from = n * period /\ b.to = Clip(n * period + green, total)
    BY <1>1, <1>2, <2>1
  <2>3. QED
    BY <2>2 DEF Lit
<1>3. G \subseteq 0..total - 1
  BY LitWithin DEF S
<1>4. IsFiniteSet(G)
  <2>1. PICK z \in Int : z = total - 1
    OBVIOUS
  <2>2. IsFiniteSet(0..z)
    BY FS_Interval
  <2> HIDE DEF G
  <2>3. QED
    BY <1>3, <2>1, <2>2, FS_Subset
<1>5. \A x \in Int : Upto(x) \in Nat
  BY <1>4, FS_Subset, FS_CardinalityType
<1>6. Upto(total) = GreenTime(S)
  <2>1. {t \in G : t \in 0..total - 1} = G
    BY <1>3
  <2>2. QED
    BY <2>1 DEF GreenTime, Lit
<1> DEFINE Good == {n \in Nat : n <= q => 10 * Upto(n * period) >= 6 * (n * period)}
<1>7. 0 \in Good
  <2>1. 0 * period = 0 /\ Upto(0) \in Nat
    BY <1>5
  <2> HIDE DEF Upto
  <2>2. QED
    BY <2>1
<1>8. ASSUME NEW n \in Nat, n \in Good PROVE n + 1 \in Good
  <2>1. SUFFICES ASSUME n + 1 <= q PROVE 10 * Upto((n + 1) * period) >= 6 * ((n + 1) * period)
    OBVIOUS
  <2>2. PICK x \in Nat : x = n * period
    OBVIOUS
  <2>3. (n + 1) * period = x + period /\ x + period <= total /\ x < total
    BY <1>1, <2>1, <2>2
  <2>4. 10 * Upto(x) >= 6 * x
    BY <1>8, <2>1, <2>2
  <2>5. x..(x + green) - 1 \subseteq G
    <3>1. Clip(x + green, total) = x + green
      BY <2>3 DEF Clip
    <3>2. n \in 0..q
      BY <2>1
    <3> HIDE DEF G
    <3>3. QED
      BY <1>2, <2>2, <2>3, <3>1, <3>2
  <2> HIDE DEF G
  <2>6. Upto(x + green) = Upto(x) + green
    <3>1. PICK y \in Nat : y = x + green /\ x <= y /\ y - x = green
      OBVIOUS
    <3>2. x..y - 1 \subseteq G
      BY <2>5, <3>1
    <3>3. Upto(y) = Upto(x) + (y - x)
      BY <1>4, <3>1, <3>2, GreenAdds
    <3> HIDE DEF Upto
    <3>4. QED
      BY <3>1, <3>3
  <2>7. Upto(x + green) <= Upto(x + period)
    <3>1. {t \in G : t \in 0..(x + green) - 1} \in SUBSET {t \in G : t \in 0..(x + period) - 1}
      OBVIOUS
    <3>2. IsFiniteSet({t \in G : t \in 0..(x + period) - 1})
      BY <1>4, FS_Subset
    <3>3. QED
      BY <3>1, <3>2, FS_Subset
  <2> HIDE DEF Upto
  <2>8. Upto(x) \in Nat /\ Upto(x + green) \in Nat /\ Upto(x + period) \in Nat
    BY <1>5
  <2>9. QED
    BY <2>3, <2>4, <2>6, <2>7, <2>8
<1>9. q \in Good
  <2> HIDE DEF Good
  <2>1. QED
    BY <1>7, <1>8, NumberInduction
<1>10. PICK x \in Nat : x = q * period /\ x <= total /\ total < x + period
  BY <1>1
<1>11. 10 * Upto(x) >= 6 * x /\ Upto(x) \in Nat
  BY <1>5, <1>9, <1>10
<1>12. PICK y \in Nat : y = Clip(x + green, total) /\ x <= y /\ y <= total
  <2>1. Clip(x + green, total) \in Nat /\ x <= Clip(x + green, total) /\ Clip(x + green, total) <= total
    BY <1>10 DEF Clip
  <2>2. QED
    BY <2>1
<1>13. x..y - 1 \subseteq G
  <2>1. CASE x = total
    BY <1>12, <2>1
  <2>2. CASE x < total
    <3> HIDE DEF G
    <3>1. QED
      BY <1>2, <1>10, <1>12, <2>2
  <2>3. QED
    BY <1>10, <2>1, <2>2
<1> HIDE DEF G
<1>14. Upto(y) = Upto(x) + (y - x)
  BY <1>4, <1>12, <1>13, GreenAdds
<1>15. Upto(y) <= Upto(total)
  <2>1. {t \in G : t \in 0..y - 1} \in SUBSET {t \in G : t \in 0..total - 1}
    BY <1>12
  <2>2. IsFiniteSet({t \in G : t \in 0..total - 1})
    BY <1>4, FS_Subset
  <2>3. QED
    BY <2>1, <2>2, FS_Subset
<1>16. 10 * (y - x) >= 6 * (total - x)
  BY <1>10, <1>12 DEF Clip
<1> HIDE DEF Upto
<1>17. Upto(y) \in Nat /\ Upto(total) \in Nat
  BY <1>5
<1>18. QED
  BY <1>6, <1>10, <1>11, <1>12, <1>14, <1>15, <1>16, <1>17 DEF S

\* The fallback has its share of green in every race and whatever is left of it.
LEMMA FallbackIsGreen ==
  ASSUME NEW c \in Contents, NEW total \in Int
  PROVE  GreenTime(Fallback(c, total)) >= MinGreenOf(total)
<1>1. PICK green, period : green = c.green[2] /\ period = c.green[2] + c.red[1]
  OBVIOUS
<1>2. <<green, period>> \in {<<50, 65>>, <<45, 55>>, <<35, 44>>, <<30, 38>>}
  BY <1>1 DEF Contents
<1>3. Fallback(c, total) = Blocks(0, green, period, total)
  BY <1>1 DEF Fallback
<1>4. CASE total <= 0
  <2>1. Blocks(0, green, period, total) = {}
    BY <1>2, <1>4 DEF Blocks
  <2>2. UNION {b.from..b.to - 1 : b \in {}} = {}
    OBVIOUS
  <2>3. GreenTime(Fallback(c, total)) = 0
    BY <1>3, <2>1, <2>2, FS_EmptySet DEF GreenTime
  <2>4. MinGreenOf(total) <= 0
    BY <1>4 DEF MinGreenOf, MinGreenTime
  <2>5. MinGreenOf(total) \in Int
    BY DEF MinGreenOf, MinGreenTime
  <2>6. QED
    BY <2>3, <2>4, <2>5
<1>5. CASE total > 0
  <2>1. PICK q : q = total \div period
    OBVIOUS
  <2>2. q \in Nat /\ q * period <= total /\ total < (q + 1) * period
    BY <1>2, <1>5, <2>1
  <2>3. PICK time : time = GreenTime(Fallback(c, total))
    OBVIOUS
  <2>4. time \in Nat /\ 10 * time >= 6 * total
    <3>1. green \in Nat \ {0} /\ period \in Nat \ {0} /\ green <= period /\ 10 * green >= 6 * period
      BY <1>2
    <3>2. total \in Nat \ {0}
      BY <1>5
    <3>3. QED
      BY <1>3, <2>1, <2>2, <2>3, <3>1, <3>2, BlocksAreGreen
  <2>5. time >= MinGreenOf(total)
    BY <1>5, <2>4 DEF MinGreenOf, MinGreenTime
  <2>6. QED
    BY <2>3, <2>5
<1>6. QED
  BY <1>4, <1>5

\* The green time of a schedule is a time.
LEMMA GreenIsTime ==
  ASSUME NEW c \in Contents, NEW total \in Int, NEW s \in buildAutoSchedule(c, total)
  PROVE  GreenTime(s) \in Nat
<1>1. SUFFICES Lit(s) \subseteq 0..total - 1
  <2>1. ASSUME Lit(s) \subseteq 0..total - 1 PROVE Cardinality(Lit(s)) \in Nat
    <3>1. PICK z \in Int : z = total - 1
      OBVIOUS
    <3>2. IsFiniteSet(0..z)
      BY FS_Interval
    <3>3. QED
      BY <2>1, <3>1, <3>2, FS_Subset, FS_CardinalityType
  <2>2. QED
    BY <2>1 DEF GreenTime, Lit
<1>2. /\ \A i \in {1, 2} : c.green[i] \in Nat /\ c.red[i] \in Nat
      /\ c.fake \subseteq Nat
  BY DEF Contents
<1>3. ASSUME NEW first \in Nat, NEW green \in Nat, NEW period \in Nat
      PROVE  Lit(Blocks(first, green, period, total)) \subseteq 0..total - 1
  BY LitWithin
<1>4. CASE s = Fallback(c, total)
  BY <1>2, <1>3, <1>4 DEF Fallback
<1>5. CASE \E i \in {1, 2}, j \in {1, 2} : s = Blocks(0, c.green[i], c.green[i] + c.red[j], total)
  BY <1>2, <1>3, <1>5
<1>6. CASE \E i \in {1, 2}, j \in {1, 2}, f \in c.fake :
             s = Blocks(0, c.green[i], c.green[i] + f + 2 * c.red[j], total)
                   \cup Blocks(c.green[i] + c.red[j], f, c.green[i] + f + 2 * c.red[j], total)
  <2>1. PICK i \in {1, 2}, j \in {1, 2}, f \in c.fake :
               s = Blocks(0, c.green[i], c.green[i] + f + 2 * c.red[j], total)
                     \cup Blocks(c.green[i] + c.red[j], f, c.green[i] + f + 2 * c.red[j], total)
    BY <1>6
  <2>2. PICK first, green, period : /\ first = c.green[i] + c.red[j] /\ green = c.green[i]
                                    /\ period = c.green[i] + f + 2 * c.red[j]
    OBVIOUS
  <2>3. first \in Nat /\ green \in Nat /\ period \in Nat /\ f \in Nat
    BY <1>2, <2>2
  <2>4. PICK S, T : /\ S = Blocks(0, green, period, total) /\ T = Blocks(first, f, period, total)
                    /\ s = S \cup T
    BY <2>1, <2>2
  <2>5. Lit(S) \subseteq 0..total - 1 /\ Lit(T) \subseteq 0..total - 1
    BY <1>3, <2>3, <2>4
  <2>6. QED
    BY <2>4, <2>5 DEF Lit
<1>7. s = Fallback(c, total) \/ s \in Drawn(c, total)
  BY DEF buildAutoSchedule
<1>8. QED
  BY <1>1, <1>4, <1>5, <1>6, <1>7 DEF Drawn

\* Every schedule that a race can be given, at its start or after a pause, for whatever is
\* left of its time, has its share of green.
LEMMA SchedulesAreGreen ==
  ASSUME NEW c \in Contents, NEW left \in Int PROVE HasGreen(c, left)
<1>1. ASSUME NEW s \in buildAutoSchedule(c, left - 10) PROVE GreenTime(s) >= MinGreenOf(left - 10)
  BY <1>1, FallbackIsGreen DEF buildAutoSchedule
<1>2. ASSUME NEW s \in buildAutoSchedule(c, left - 10) PROVE GreenTime(s) \in Nat
  BY <1>2, GreenIsTime
<1>3. ASSUME NEW s \in buildAutoSchedule(c, left - 10), left = 800 PROVE GreenTime(s) >= 333
  <2>1. GreenTime(s) >= MinGreenOf(790)
    BY <1>1, <1>3
  <2>2. MinGreenOf(790) = 474
    BY DEF MinGreenOf, MinGreenTime
  <2>3. QED
    BY <1>2, <2>1, <2>2
<1>4. QED
  BY <1>1, <1>3 DEF HasGreen

\* An automatic race has its share of green time from the start and after every pause, with
\* a schedule that was drawn and with the one that stands in when none will do.
THEOREM EnoughGreenThm == Spec => []EnoughGreen
<1>1. EnoughGreen
  <2>1. \A c \in Contents : c.dur \in Int
    BY DEF Contents
  <2>2. QED
    BY <2>1, SchedulesAreGreen DEF EnoughGreen
<1>2. QED
  BY <1>1, PTL
==============================================================================
