-------------------------------- MODULE MCResults --------------------------------
EXTENDS Results

MCOrder == <<1, 2, 3, 4>>

\* The earlier game left all alike, or so that 1,000 points can be one perfect game
\* or two others together.  A fourth participant is what a tie for the third place
\* needs to put four on the podium, or one below it.
MCStarts == {[v2 |-> v, raw |-> [p \in 1..3 |-> 50000]] : v \in BOOLEAN}
       \cup {[v2 |-> TRUE, raw |-> [p \in 1..3 |-> IF p = 1 THEN 100000 ELSE 50000]],
             [v2 |-> TRUE, raw |-> [p \in 1..4 |-> 50000]]}

\* By game: nobody there, the best, the same bucket or a later one, an automatic
\* lock, a fast but wrong answer.
MCOutcomes == [
  RLGL |-> {[state |-> "eliminated", progress |-> 90, finishActiveMs |-> None],
            [state |-> "alive", progress |-> 99, finishActiveMs |-> None],
            [state |-> "finished", progress |-> 100, finishActiveMs |-> 30010],
            [state |-> "finished", progress |-> 100, finishActiveMs |-> 37500]},
  GEO |-> {[distanceKm |-> 0, inside |-> TRUE, locked_at |-> TRUE, time_ms |-> 0],
           [distanceKm |-> 0, inside |-> TRUE, locked_at |-> FALSE, time_ms |-> None],
           [distanceKm |-> 50, inside |-> FALSE, locked_at |-> TRUE, time_ms |-> 0]},
  ORDER |-> {[order |-> <<1, 2, 3, 4>>, locked_at |-> TRUE, time_ms |-> 0],
             [order |-> <<1, 2, 3, 4>>, locked_at |-> FALSE, time_ms |-> None],
             [order |-> <<2, 1, 3, 4>>, locked_at |-> TRUE, time_ms |-> 0]}]

MCReplay == [
  RLGL |-> {[state |-> "finished", progress |-> 100, finishActiveMs |-> 30090]},
  GEO |-> {[distanceKm |-> 0, inside |-> TRUE, locked_at |-> TRUE, time_ms |-> 24990]},
  ORDER |-> {[order |-> <<1, 2, 3, 4>>, locked_at |-> TRUE, time_ms |-> 20000]}]

MCTieRows == {[order |-> <<1, 2, 3, 4>>, locked_at |-> TRUE, time_ms |-> 5000],
              [order |-> <<2, 1, 3, 4>>, locked_at |-> TRUE, time_ms |-> 4000]}
=============================================================================
