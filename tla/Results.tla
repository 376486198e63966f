-------------------------------- MODULE Results --------------------------------
(***************************************************************************)
(* From answers to places: what REVEAL_RESULTS, VOID_ROUND and the         *)
(* tie-break write (rounds.service.ts), what the standings read back       *)
(* (standings.service.ts, round-repo.ts) and what the podium and the final *)
(* ceremony show of it (podium.ts), computed with the operators of         *)
(* Scoring.                                                                *)
(*                                                                         *)
(* How a round runs is StageEngine's and Answers' subject: here one step   *)
(* takes a prepared round to InputLocked with whatever its participants    *)
(* ended up with.  The session starts at the last game; an earlier one is  *)
(* already revealed.  Participants are their numbers.                      *)
(***************************************************************************)
EXTENDS Scoring

CONSTANTS
  People,        \* participants, by number
  Planned,       \* the last game's rounds in the content bank
  Starts,        \* how the last game may begin: the rule set, and the stored
                 \* scores of the earlier game's round by participant, who are all
  OutcomesOf,    \* game -> answer rows a participant may end a round with
  ReplayOf,      \* bound: the same for a replay and for a second round
  TieRows,       \* answer rows of a tie-break
  CorrectOrder,
  WindowMs,      \* duration of a globe or ordering round
  MaxSize,       \* bound: attempts in all and people at the start, together
  Removable,     \* bound: whom the host may remove
  MaxReplays     \* bound: replays of a round

ASSUME ResultsAssumption ==
  /\ People \subseteq Nat \ {0} /\ IsFiniteSet(People)
  /\ Removable \subseteq People
  /\ Planned \in Nat \ {0} /\ WindowMs \in Nat /\ MaxSize \in Nat /\ MaxReplays \in Nat

\* What a row of answers may hold: race-engine.ts finishes whom it moves to the end of the
\* track, and a pin has a distance only outside the country, here in whole kilometres.
RaceRows ==
  {r \in [state : {"alive", "eliminated", "finished"}, progress : 0..RLGL_TRACK_LENGTH,
          finishActiveMs : Nat \cup {None}] :
     /\ r.state = "alive" => r.progress < RLGL_TRACK_LENGTH
     /\ r.state = "finished" => r.finishActiveMs # None}

\* lock writes time_ms together with locked_at.
Timed(r) == r.time_ms # None => r.locked_at

GeoRows ==
  {r \in [distanceKm : Nat \cup {None}, inside : BOOLEAN, locked_at : BOOLEAN,
          time_ms : Nat \cup {None}] : (r.inside <=> r.distanceKm = 0) /\ Timed(r)}

OrderRows ==
  {r \in [order : Seq(Nat), locked_at : BOOLEAN, time_ms : Nat \cup {None}] : Timed(r)}

ASSUME AnswersAssumption ==
  /\ \A f \in {OutcomesOf, ReplayOf} :
       f.RLGL \subseteq RaceRows /\ f.GEO \subseteq GeoRows /\ f.ORDER \subseteq OrderRows
  /\ TieRows \subseteq OrderRows
  /\ CorrectOrder \in Seq(Nat) \ {<<>>}
  /\ \A s \in Starts : /\ s.v2 \in BOOLEAN
                       /\ DOMAIN s.raw \subseteq People /\ s.raw \in [DOMAIN s.raw -> Nat]

VARIABLES
  state, v2,     \* of the session row: the stage, and scoringRuleVersion = '2.0.0'
  game,          \* its last game
  present,       \* participants that are in and not removed
  tie_break,     \* participants.tie_break
  attempts,      \* round_attempts with their answers, the current one last
  before         \* history: totals when the current round was first prepared

vars == <<state, v2, game, present, tie_break, attempts, before>>

Games == {"RLGL", "GEO", "ORDER"}
Current == attempts[Len(attempts)]
NoScores == [p \in {} |-> 0]
RoomForOne == Len(attempts) + Cardinality(DOMAIN attempts[1].raw) < MaxSize

--------------------------------------------------------------------------------
(***************************************************************************)
(* What the standings compute.                                             *)
(***************************************************************************)

\* Mutant: a voided attempt keeps its points until its replay is revealed.
CountsVoided(a, g) == a.game = g /\ ~a.tie /\ a.revealed

Counts(a, g) == a.game = g /\ ~a.tie /\ ~a.voided /\ a.revealed

\* The rows gameRawTotals adds up: of each round the latest attempt that counts.
Counted(g) ==
  {i \in DOMAIN attempts :
     /\ Counts(attempts[i], g)
     /\ \A j \in DOMAIN attempts :
          Counts(attempts[j], g) /\ attempts[j].roundIndex = attempts[i].roundIndex
            => attempts[j].no <= attempts[i].no}

gameRawTotal(g, p) ==
  LET Of(i) == IF p \in DOMAIN attempts[i].raw THEN attempts[i].raw[p] ELSE 0
  IN MapThenSumSet(Of, Counted(g))

plannedRounds(g) == IF g = game THEN Planned ELSE 1

\* The displayed integer; a game without a revealed round counts as 0.
gameScoreOf(g, p) == gameScore(gameRawTotal(g, p), plannedRounds(g))

Total(p) == LET Of(g) == gameScoreOf(g, p) IN MapThenSumSet(Of, Games)

Row(p) == [id |-> p, total |-> Total(p), tieBreak |-> tie_break[p],
           perfectGames |-> Cardinality({g \in Games : gameScoreOf(g, p) = GAME_MAX})]

tournament == buildStandings({Row(p) : p \in present})

\* forGame orders the game's own scores by themselves.
forGame(g) ==
  LET rows == {[Row(p) EXCEPT !.total = gameScoreOf(g, p)] : p \in present}
  IN Ranked(rows, {x \in rows \X rows : AheadInGame(x[1], x[2])})

--------------------------------------------------------------------------------
(***************************************************************************)
(* Attempts.                                                               *)
(***************************************************************************)

\* repo.create: the next attempt_no of its round; `among' is tiebreak_participants
Prepared(g, roundIndex, tie, among) ==
  [game |-> g, roundIndex |-> roundIndex, tie |-> tie, among |-> among,
   no |-> 1 + Cardinality({i \in DOMAIN attempts :
                attempts[i].game = g /\ attempts[i].roundIndex = roundIndex}),
   count |-> None, answers |-> NoScores, raw |-> NoScores, revealed |-> FALSE, voided |-> FALSE]

Init ==
  /\ \E g \in Games, start \in Starts :
       LET earlier == IF g = "GEO" THEN "RLGL" ELSE "GEO"
           Blank(x) == [game |-> x, roundIndex |-> 0, tie |-> FALSE, among |-> {}, no |-> 1,
                        count |-> None, answers |-> NoScores, raw |-> NoScores,
                        revealed |-> FALSE, voided |-> FALSE]
       IN /\ game = g
          /\ attempts = << [Blank(earlier) EXCEPT !.revealed = TRUE, !.raw = start.raw], Blank(g) >>
          /\ before = [p \in DOMAIN start.raw |-> gameScore(start.raw[p], 1)]
          /\ v2 = start.v2 /\ present = DOMAIN start.raw
  /\ state = "Ready"
  /\ tie_break = [p \in People |-> None]

\* Countdown, RoundActive, input and close: each participant ends with a row or none.
RoundPlayed ==
  LET players == IF Current.tie THEN Current.among \cap present ELSE present
      rows == CASE Current.tie -> TieRows
                [] ~Current.tie /\ Current.no = 1 /\ Current.roundIndex = 0 -> OutcomesOf[game]
                [] OTHER -> ReplayOf[game]
  IN /\ state = "Ready"
     /\ \E S \in SUBSET players : \E got \in [S -> rows] :
          \* a race ends with a row for everybody who was there at its start; bound:
          \* everybody answers a replay, a second round or a tie-break
          /\ game = "RLGL" \/ rows # OutcomesOf[game] => S = players
          /\ attempts' = [attempts EXCEPT ![Len(attempts)].answers = got,
                                          ![Len(attempts)].count = Cardinality(present)]
     /\ state' = "InputLocked"
     /\ UNCHANGED <<v2, game, present, tie_break, before>>

\* score(): the rule set frozen into the session, for the given participants
score(a, scope) ==
  CASE a.game = "ORDER" -> scoreOrderRound(v2, CorrectOrder, a.answers, scope, WindowMs)
    [] a.game = "GEO" -> scoreGeoRound(v2, a.answers, scope, WindowMs)
    [] OTHER -> scoreRaceRound(v2, a.answers, scope, a.count)

tieAnswers(a, scope) ==
  [p \in scope |->
     IF p \in DOMAIN a.answers
       THEN [correctPositions |-> correctPositions(CorrectOrder, a.answers[p].order),
             timeMs |-> a.answers[p].time_ms]
       ELSE [correctPositions |-> 0, timeMs |-> None]]

reveal ==
  LET a == Current
      scope == IF a.tie THEN present \cap a.among ELSE present
      values == tieBreakValues(tieAnswers(a, scope))
  IN /\ state = "InputLocked"
     /\ attempts' = [attempts EXCEPT ![Len(attempts)].revealed = TRUE,
                                     ![Len(attempts)].raw =
                                       LET s == score(a, scope) IN [p \in scope |-> Stored(s[p])]]
     /\ tie_break' = [p \in People |-> IF a.tie /\ p \in scope THEN values[p] ELSE tie_break[p]]
     /\ state' = IF a.tie THEN "TournamentResults" ELSE "Reveal"
     /\ UNCHANGED <<v2, game, present, before>>

\* A voided tie-break clears every tie_break value of the session.
VoidRound ==
  /\ state \in {"InputLocked", "Reveal"}
  /\ RoomForOne /\ Current.no <= MaxReplays
  /\ attempts' = Append([attempts EXCEPT ![Len(attempts)].voided = TRUE],
                        Prepared(Current.game, Current.roundIndex, Current.tie, Current.among))
  /\ tie_break' = IF Current.tie THEN [p \in People |-> None] ELSE tie_break
  /\ state' = "Ready"
  /\ UNCHANGED <<v2, game, present, before>>

NextRound ==
  /\ state = "Reveal" /\ Current.roundIndex + 1 < Planned
  /\ RoomForOne
  /\ attempts' = Append(attempts, Prepared(game, Current.roundIndex + 1, FALSE, {}))
  /\ before' = [p \in People |-> Total(p)]
  /\ state' = "Ready"
  /\ UNCHANGED <<v2, game, present, tie_break>>

ShowGameResults ==
  /\ state = "Reveal"
  /\ state' = "GameResults"
  /\ UNCHANGED <<v2, game, present, tie_break, attempts, before>>

ShowFinalResults ==
  /\ state \in {"GameResults", "TournamentResults"}
  /\ state' = "TournamentResults"
  /\ UNCHANGED <<v2, game, present, tie_break, attempts, before>>

\* The console's tie-break button names the best-placed tied group; createTiebreak
\* prepares round 900 of the ordering game for it.
StartTiebreak ==
  LET rows == tournament
      ties == topThreeTies(rows)
      RankIn(g) == (CHOOSE r \in rows : r.id \in g).rank
      ids == CHOOSE g \in ties : \A h \in ties : RankIn(g) <= RankIn(h)
  IN
  /\ state = "TournamentResults" /\ ties # {}
  /\ RoomForOne
  /\ attempts' = Append(attempts, Prepared("ORDER", 900, TRUE, ids))
  /\ before' = [p \in People |-> Total(p)]
  /\ state' = "Ready"
  /\ UNCHANGED <<v2, game, present, tie_break>>

\* Bound: only before a replay or a tie-break.
RemoveParticipant(p) ==
  /\ p \in present /\ Len(attempts) = 2
  /\ present' = present \ {p}
  /\ UNCHANGED <<state, v2, game, tie_break, attempts, before>>

Next ==
  \/ RoundPlayed \/ reveal \/ VoidRound \/ NextRound \/ ShowGameResults \/ ShowFinalResults
  \/ StartTiebreak
  \/ \E p \in Removable : RemoveParticipant(p)

Spec == Init /\ [][Next]_vars

--------------------------------------------------------------------------------
(***************************************************************************)
(* Properties.                                                             *)
(***************************************************************************)

Full(a, p) ==
  /\ p \in DOMAIN a.answers
  /\ CASE a.game = "RLGL" -> a.answers[p].state = "finished"
       [] a.game = "GEO" -> a.answers[p].inside
       [] OTHER -> a.answers[p].order = CorrectOrder

TimeOf(a, p) == IF a.game = "RLGL" THEN a.answers[p].finishActiveMs ELSE a.answers[p].time_ms

\* In a revealed round whoever finished, pinned inside the country or ordered all
\* cards has more points than anybody who did not, however fast, and among those
\* who did, a later lock or finish never has more than an earlier one.
FairRound ==
  \A i \in DOMAIN attempts :
    LET a == attempts[i] IN
    a.revealed => \A p, q \in DOMAIN a.raw :
      Full(a, p) =>
        IF Full(a, q)
          THEN TimeOf(a, p) # None /\ (TimeOf(a, q) = None \/ TimeOf(a, p) <= TimeOf(a, q))
                 => a.raw[p] >= a.raw[q]
          ELSE a.raw[p] > a.raw[q]

\* On the podium and in the ceremony, a step shows exactly the participants with
\* fewer than three people before them and at least three less the step: each
\* once, all of a tie together, nobody early and nobody lost.
PodiumIsTopThree ==
  LET Shows(standings, Above(_, _)) == \A step \in 1..4 :
        UNION {b.ids : b \in podiumBands(standings, step)} =
          {r.id : r \in {x \in standings :
             LET n == Cardinality({y \in standings : Above(y, x)}) IN n < 3 /\ n >= 3 - step}}
  IN CASE state = "GameResults" -> Shows(forGame(game), AheadInGame)
       [] state = "TournamentResults" -> Shows(tournament, Ahead)
       [] OTHER -> TRUE

\* While a round is prepared or played, everybody's total is what it was before
\* its first attempt: whatever an attempt brought, voiding it takes it back.
ReplayStartsClean ==
  state \in {"Ready", "InputLocked"} => \A p \in present : Total(p) = before[p]

\* A tie-break orders the players it was run for and nothing else: it changes
\* no total, and never the order of two players who differ in points or
\* perfect games, or who were both not in it.
TieBreakStaysInGroup ==
  [][state = "InputLocked" /\ state' = "TournamentResults" =>
       LET both == {<<Row(p), Row(p)'>> : p \in present} IN
       /\ \A x \in both : x[1].total = x[2].total
       /\ \A x, y \in both :
            LET p == x[1]
                q == y[1]
            IN (\/ p.total # q.total \/ p.perfectGames # q.perfectGames
                \/ {p.id, q.id} \cap Current.among = {})
               => Ahead(p, q) = Ahead(x[2], y[2])]_vars
=============================================================================
