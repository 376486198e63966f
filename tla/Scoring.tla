-------------------------------- MODULE Scoring --------------------------------
(***************************************************************************)
(* The pure scoring functions: packages/shared/src/scoring.ts and          *)
(* podium.ts, and apps/api/src/rounds/round-scoring.ts.                    *)
(*                                                                         *)
(* Points are counted in units of 1/300 point, so that the fractions the   *)
(* code computes with (0.08, 0.1 and 2/15 of a point per 100 ms, a half,   *)
(* third or quarter of 20 for ranks, 1/50 per km) are exact integers.      *)
(* Functions map participants, which are their numbers, to what the code   *)
(* keeps for each in an array or a Map.                                    *)
(***************************************************************************)
EXTENDS Integers, FiniteSets, Sequences, SequencesExt

None == -1            \* null: no pin, no lock time, no tie-break value
POINT == 300

BASE_MAX == 80 * POINT
SPEED_MAX == 20 * POINT
SPEED_BUCKET_MS == 100
GAME_MAX == 1000
RLGL_TRACK_LENGTH == 100
RLGL_SPEED_WINDOW_MS == 15000
RLGL_TIMEOUT_MAX == 60 * POINT
GEO_ZERO_DISTANCE_KM == 5000
GEO_KM_PER_POINT == 50
TIEBREAK_LOCK_EPSILON_MS == 500

AtLeast(lo, x) == IF x < lo THEN lo ELSE x

bucketMs(ms) == IF ms <= 0 THEN 0 ELSE (ms \div SPEED_BUCKET_MS) * SPEED_BUCKET_MS

\* SPEED_MAX * max(0, 1 - ms / window)
Fading(ms, window) == AtLeast(0, SPEED_MAX - (SPEED_MAX * ms) \div window)

speedBonus(timeMs, windowMs) ==
  IF timeMs = None \/ windowMs <= 0 THEN 0 ELSE Fading(bucketMs(timeMs), windowMs)

\* What answers.raw_score, a numeric(8,3), keeps of a score: thousandths of a point.
Stored(raw) == (20 * raw + 3) \div 6

\* ROUND_HALF_UP(1000 * sum / (100 * plannedRounds)), the same for the three games;
\* the sum is one of stored scores.
gameScore(sum, plannedRounds) ==
  LET den == 100 * 1000 * plannedRounds IN (2 * sum + den \div GAME_MAX) \div (2 * (den \div GAME_MAX))

--------------------------------------------------------------------------------
(***************************************************************************)
(* Red Light, Green Light.  A race row is [state, progress, finishActiveMs]*)
(***************************************************************************)

Finishers(rows) ==
  {p \in DOMAIN rows : rows[p].state = "finished" /\ rows[p].finishActiveMs # None}

\* A shared rank for a shared bucket, the next bucket counts everybody ahead.
finishRank(rows, p) ==
  1 + Cardinality({q \in Finishers(rows) :
        bucketMs(rows[q].finishActiveMs) < bucketMs(rows[p].finishActiveMs)})

scoreRace(rows, registered) ==
  LET n == IF registered = None THEN Cardinality(DOMAIN rows) ELSE registered
      Raw(p) ==
        CASE rows[p].state = "eliminated" -> 0
          [] rows[p].state = "finished" ->
               IF n > 1
                 THEN BASE_MAX + (SPEED_MAX * (n - (IF p \in Finishers(rows) THEN finishRank(rows, p) ELSE 1)))
                                 \div (n - 1)
                 ELSE 100 * POINT
          [] OTHER -> (BASE_MAX * rows[p].progress) \div RLGL_TRACK_LENGTH
  IN [p \in DOMAIN rows |-> Raw(p)]

scoreRaceV2(rows) ==
  LET buckets == {bucketMs(rows[p].finishActiveMs) : p \in Finishers(rows)}
      first == CHOOSE b \in buckets : \A c \in buckets : b <= c
      Raw(p) ==
        CASE rows[p].state = "eliminated" -> 0
          [] p \in Finishers(rows) ->
               BASE_MAX + Fading(bucketMs(rows[p].finishActiveMs) - first, RLGL_SPEED_WINDOW_MS)
          [] OTHER -> (RLGL_TIMEOUT_MAX * rows[p].progress) \div RLGL_TRACK_LENGTH
  IN [p \in DOMAIN rows |-> Raw(p)]

--------------------------------------------------------------------------------
(***************************************************************************)
(* Pin the Country and Order It!.                                          *)
(***************************************************************************)

geoRoundScore(distanceKm) ==
  IF distanceKm = None THEN 0
  ELSE AtLeast(0, 100 * POINT - (100 * POINT * AtLeast(0, distanceKm)) \div GEO_ZERO_DISTANCE_KM)

\* Mutant: a pin outside the country loses from 100 points and not from 80.
geoRoundScoreUncapped(distanceKm, inside, timeMs, lockedManually, windowMs) ==
  CASE distanceKm = None -> 0
    [] distanceKm # None /\ (inside \/ distanceKm <= 0) ->
         BASE_MAX + (IF lockedManually THEN speedBonus(timeMs, windowMs) ELSE 0)
    [] OTHER -> AtLeast(0, 100 * POINT - (POINT * AtLeast(0, distanceKm)) \div GEO_KM_PER_POINT)

geoRoundScoreV2(distanceKm, inside, timeMs, lockedManually, windowMs) ==
  CASE distanceKm = None -> 0
    [] distanceKm # None /\ (inside \/ distanceKm <= 0) ->
         BASE_MAX + (IF lockedManually THEN speedBonus(timeMs, windowMs) ELSE 0)
    [] OTHER -> AtLeast(0, BASE_MAX - (POINT * AtLeast(0, distanceKm)) \div GEO_KM_PER_POINT)

\* Cards in their place; an answer of another length, or none (<<>>), has none.
correctPositions(correctOrder, answer) ==
  IF Len(answer) # Len(correctOrder) THEN 0
  ELSE Cardinality({i \in 1..Len(correctOrder) : answer[i] = correctOrder[i]})

scoreOrder(correctOrder, answer) == 25 * POINT * correctPositions(correctOrder, answer)

scoreOrderV2(correctOrder, answer, timeMs, lockedManually, windowMs) ==
  LET n == correctPositions(correctOrder, answer)
      perfect == n = Len(correctOrder) /\ Len(correctOrder) > 0
  IN 20 * POINT * n + (IF perfect /\ lockedManually THEN speedBonus(timeMs, windowMs) ELSE 0)

--------------------------------------------------------------------------------
(***************************************************************************)
(* scoringRules: a session keeps the rules it was created with; version    *)
(* 2.0.0 has its own, every other version those of 1.2.0.                  *)
(***************************************************************************)

raceRule(v2, rows, registered) ==
  IF v2 THEN scoreRaceV2(rows) ELSE scoreRace(rows, registered)

geoRule(v2, distanceKm, inside, timeMs, lockedManually, windowMs) ==
  IF v2 THEN geoRoundScoreV2(distanceKm, inside, timeMs, lockedManually, windowMs)
  ELSE geoRoundScore(distanceKm)

orderRule(v2, correctOrder, answer, timeMs, lockedManually, windowMs) ==
  IF v2 THEN scoreOrderV2(correctOrder, answer, timeMs, lockedManually, windowMs)
  ELSE scoreOrder(correctOrder, answer)

--------------------------------------------------------------------------------
(***************************************************************************)
(* A round's scores from its answer rows.  `answers' maps the participants *)
(* that have a row; everybody in `scope' gets an entry.  A geo row holds   *)
(* what distanceToCountry returns for its pin.                             *)
(***************************************************************************)

LockedManually(a) == a.locked_at /\ a.time_ms # None

scoreOrderRound(v2, correctOrder, answers, scope, windowMs) ==
  [p \in scope |->
     IF p \notin DOMAIN answers THEN 0
     ELSE LET a == answers[p] IN
       orderRule(v2, correctOrder, a.order, a.time_ms, LockedManually(a), windowMs)]

scoreGeoRound(v2, answers, scope, windowMs) ==
  [p \in scope |->
     IF p \notin DOMAIN answers THEN 0
     ELSE LET a == answers[p] IN
       geoRule(v2, a.distanceKm, a.inside, a.time_ms, LockedManually(a), windowMs)]

\* Somebody without a row, or with one that has no outcome, is alive at 0.
scoreRaceRound(v2, answers, scope, registered) ==
  LET rows == [p \in scope |->
                 IF p \in DOMAIN answers THEN answers[p]
                 ELSE [state |-> "alive", progress |-> 0, finishActiveMs |-> None]]
  IN raceRule(v2, rows, registered)

--------------------------------------------------------------------------------
(***************************************************************************)
(* Standings.  A row is [id, total, perfectGames, tieBreak]; sorting keeps *)
(* the order of the participants' numbers among equals.                    *)
(***************************************************************************)

\* Mutant: the tie-break decides before the number of perfect games.
AheadTieBreakFirst(a, b) ==
  \/ a.total > b.total
  \/ a.total = b.total /\ a.tieBreak > b.tieBreak
  \/ a.total = b.total /\ a.tieBreak = b.tieBreak /\ a.perfectGames > b.perfectGames

\* compareStanding(a, b) < 0: a is ranked above b
Ahead(a, b) ==
  \/ a.total > b.total
  \/ a.total = b.total /\ a.perfectGames > b.perfectGames
  \/ a.total = b.total /\ a.perfectGames = b.perfectGames /\ a.tieBreak > b.tieBreak

\* forGame's order: the game's score alone
AheadInGame(a, b) == a.total > b.total

\* rows.sort(compare), then one pass that gives each row the position of the first
\* of the rows around it that compare equal.  "above" is the set of pairs the sort
\* puts in that order.
Ranked(rows, above) ==
  LET Above(q, r) == <<q, r>> \in above
      Position(r) == 1 + Cardinality({q \in rows :
                           Above(q, r) \/ (~Above(r, q) /\ q.id < r.id)})
      FirstEqual(r) == CHOOSE q \in rows :
                         /\ ~Above(q, r) /\ ~Above(r, q)
                         /\ \A x \in rows : ~Above(x, r) /\ ~Above(r, x) => q.id <= x.id
  IN {[id |-> r.id, total |-> r.total, perfectGames |-> r.perfectGames, tieBreak |-> r.tieBreak,
       rank |-> Position(FirstEqual(r))] : r \in rows}

buildStandings(rows) == Ranked(rows, {x \in rows \X rows : Ahead(x[1], x[2])})

topThreeTies(standings) ==
  {g \in {{r.id : r \in {x \in standings : x.rank = k}} : k \in 1..3} : Cardinality(g) > 1}

\* Perfect, manually locked answers by their times: a tier holds those less than half a
\* second after its first, and rest[k] is who is left after k tiers.
speedTier(answers) ==
  LET timed == {p \in DOMAIN answers : answers[p].correctPositions = 4 /\ answers[p].timeMs # None}
      rest[k \in 0..Cardinality(timed)] ==
        IF k = 0 THEN timed
        ELSE {p \in rest[k - 1] : \E q \in rest[k - 1] :
                answers[p].timeMs - answers[q].timeMs >= TIEBREAK_LOCK_EPSILON_MS}
  IN [p \in timed |-> 1 + Cardinality({k \in 1..Cardinality(timed) : p \in rest[k]})]

tieBreakValues(answers) ==
  LET tiers == speedTier(answers)
      maxTier == 1 + Cardinality({tiers[p] : p \in DOMAIN tiers})
  IN [p \in DOMAIN answers |-> answers[p].correctPositions * 1000 +
                               (IF p \in DOMAIN tiers THEN maxTier - tiers[p] ELSE 0)]

--------------------------------------------------------------------------------
(***************************************************************************)
(* The podium's steps: nothing, third, second, first place, whole table.   *)
(***************************************************************************)

podiumRanks(rows) == {r.rank : r \in rows} \cap 1..3

\* Mutant: the champion first.
podiumRevealFromTop(rows, step) == {k \in podiumRanks(rows) : k <= step}

podiumRevealRanks(rows, step) ==
  IF step <= 0 THEN {} ELSE {k \in podiumRanks(rows) : k >= (IF step >= 3 THEN 1 ELSE 4 - step)}

podiumBands(rows, step) ==
  {[rank |-> k, ids |-> {r.id : r \in {x \in rows : x.rank = k}}] :
     k \in podiumRevealRanks(rows, step)}
================================================================================
