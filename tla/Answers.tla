-------------------------------- MODULE Answers --------------------------------
(***************************************************************************)
(* The answers of a globe or ordering round: ParticipationService with the *)
(* answers table, beside the stage engine's jobs that close, reveal, void  *)
(* and replay the round.  An input handler checks, writes and counts, and  *)
(* awaits the database in between: anything may happen there, also inputs  *)
(* of the same player, whose page may be open twice.                       *)
(*                                                                         *)
(* The rate limit of inputs only refuses some of them; an input that is    *)
(* refused changes nothing, so it is not told apart from one not sent.     *)
(* What times a lock stores is RoundClock's subject.                       *)
(***************************************************************************)
EXTENDS Integers, FiniteSets

CONSTANTS
  Players,      \* everybody who may ever join
  Payloads,     \* pins or orders
  Scopes,       \* tiebreak_participants the round may have; {} for a round of everybody
  MaxAttempts,  \* bound: the round and its replays
  MaxInputs,    \* bound: input handlers that are under way
  MaxSize       \* bound: attempts and people together

ASSUME AnswersAssumption ==
  /\ IsFiniteSet(Players)
  /\ Scopes \subseteq SUBSET Players
  /\ MaxAttempts \in Nat \ {0} /\ MaxInputs \in Nat \ {0} /\ MaxSize \in Nat

VARIABLES
  present,      \* participants that joined and were not removed
  removed,      \* participants with removed_at
  stage, paused, current,   \* of the session row
  scope,        \* tiebreak_participants
  registered,   \* whom participant_count counted, by attempt
  closed, voided, revealed, \* attempts with the column set
  answers,      \* answers table, by attempt and player
  scores,       \* stored scores, each with the row it was computed from
  inputs,       \* handlers past their checks: to write, or to count
  closing,      \* attempts closeRound is queued for because of a count
  told,         \* history: locks confirmed before the round was revealed
  early,        \* history: attempts closed by a count
  interrupted   \* history: the current attempt has been paused

people == <<present, removed>>
table == <<closed, voided, revealed>>
history == <<told, early, interrupted>>
vars == <<people, stage, paused, current, scope, registered, table, answers, scores,
          inputs, closing, history>>

None == "none"
Attempts == 1..MaxAttempts
Rows == [payload: Payloads \cup {None}, locked: BOOLEAN]
Blank == [payload |-> None, locked |-> FALSE]

TypeOK ==
  /\ present \subseteq Players /\ removed \subseteq Players /\ present \cap removed = {}
  /\ stage \in {"Ready", "Countdown", "RoundActive", "InputLocked", "Reveal", "TournamentResults"}
  /\ paused \in BOOLEAN /\ current \in Attempts /\ scope \in Scopes
  /\ registered \in [Attempts -> SUBSET Players]
  /\ closed \subseteq Attempts /\ voided \subseteq Attempts /\ revealed \subseteq Attempts
  /\ answers \in [Attempts -> [Players -> Rows]]
  /\ scores \subseteq [from: Players, attempt: Attempts, row: Rows]
  /\ inputs \subseteq [from: Players, attempt: Attempts, payload: Payloads, lock: BOOLEAN,
                       at: {"write", "count"}]
  /\ closing \subseteq Attempts
  /\ told \subseteq [from: Players, attempt: Attempts, payload: Payloads \cup {None}]
  /\ early \subseteq Attempts /\ interrupted \in BOOLEAN

Init ==
  /\ scope \in Scopes
  /\ present = scope /\ removed = {}   \* who is in a tie-break has played before
  /\ stage = "Ready" /\ paused = FALSE /\ current = 1
  /\ registered = [a \in Attempts |-> {}]
  /\ closed = {} /\ voided = {} /\ revealed = {}
  /\ answers = [a \in Attempts |-> [p \in Players |-> Blank]]
  /\ scores = {} /\ inputs = {} /\ closing = {}
  /\ told = {} /\ early = {} /\ interrupted = FALSE

TieBreak == scope # {}
Lockers(a) == {p \in Players : answers[a][p].locked}

------------------------------------------------------------------------------
\* People.

\* Every joining is a new participant.
MayJoin(p) == p \notin present \cup removed

Join(p) ==
  /\ MayJoin(p)
  /\ Cardinality(present \cup removed) + current < MaxSize
  /\ present' = present \cup {p}
  /\ UNCHANGED <<removed, stage, paused, current, scope, registered, table, answers, scores,
                 inputs, closing, history>>

Remove(p) ==
  /\ p \in present
  /\ present' = present \ {p} /\ removed' = removed \cup {p}
  /\ UNCHANGED <<stage, paused, current, scope, registered, table, answers, scores,
                 inputs, closing, history>>

------------------------------------------------------------------------------
\* Input handlers.

\* openAttempt
Open(p) ==
  /\ p \in present /\ stage = "RoundActive" /\ ~paused
  /\ current \notin closed \cup voided
  /\ TieBreak => p \in scope

\* savePin, saveOrder up to the write
Accept(p, payload, lock) ==
  /\ Open(p)
  /\ Cardinality(inputs) < MaxInputs
  /\ inputs' = inputs \cup {[from |-> p, attempt |-> current, payload |-> payload,
                             lock |-> lock, at |-> "write"]}
  /\ UNCHANGED <<people, stage, paused, current, scope, registered, table, answers, scores,
                 closing, history>>

\* save and lock: ... WHERE answers.locked_at IS NULL
Writable(row) == ~row.locked

Write(i) ==
  /\ i.at = "write"
  /\ IF Writable(answers[i.attempt][i.from])
     THEN /\ answers' = [answers EXCEPT ![i.attempt][i.from] = [payload |-> i.payload, locked |-> i.lock]]
          /\ inputs' = (inputs \ {i}) \cup {[i EXCEPT !.at = "count"]}
     ELSE inputs' = inputs \ {i} /\ UNCHANGED answers
  /\ UNCHANGED <<people, stage, paused, current, scope, registered, table, scores, closing, history>>

\* Mutant: everybody who is here now is waited for.
ExpectedNow(a) == IF TieBreak THEN Cardinality(scope) ELSE Cardinality(present)

\* tiebreak_participants, or the people counted when the round started
Expected(a) == IF TieBreak THEN Cardinality(scope) ELSE Cardinality(registered[a])

\* myState
Stored(i) == answers[i.attempt][i.from]

\* afterInput: the answer's state goes to the phone; a lock is counted.
Count(i) ==
  /\ i.at = "count"
  /\ inputs' = inputs \ {i}
  /\ LET locked == Stored(i).locked IN
       /\ told' = IF locked /\ i.attempt \notin revealed
                  THEN told \cup {[from |-> i.from, attempt |-> i.attempt, payload |-> Stored(i).payload]}
                  ELSE told
       /\ closing' = IF locked /\ Cardinality(Lockers(i.attempt)) >= Expected(i.attempt)
                     THEN closing \cup {i.attempt} ELSE closing
  /\ UNCHANGED <<people, stage, paused, current, scope, registered, table, answers, scores,
                 early, interrupted>>

------------------------------------------------------------------------------
\* The stage engine's part.

\* START_ROUND
Start ==
  /\ stage = "Ready" /\ stage' = "Countdown"
  /\ registered' = [registered EXCEPT ![current] = present]
  /\ UNCHANGED <<people, paused, current, scope, table, answers, scores, inputs, closing, history>>

\* The countdown's job.
Activate ==
  /\ stage = "Countdown" /\ ~paused /\ stage' = "RoundActive"
  /\ UNCHANGED <<people, paused, current, scope, registered, table, answers, scores, inputs, closing, history>>

Pause ==
  /\ stage \in {"Countdown", "RoundActive"} /\ ~paused /\ paused' = TRUE
  /\ interrupted' = TRUE
  /\ UNCHANGED <<people, stage, current, scope, registered, table, answers, scores, inputs,
                 closing, told, early>>

Resume ==
  /\ paused /\ paused' = FALSE /\ stage' = "Countdown"
  /\ UNCHANGED <<people, current, scope, registered, table, answers, scores, inputs, closing, history>>

\* Mutant: any round that runs is closed.
ClosableAny(a) == ~paused /\ stage \in {"Countdown", "RoundActive"}

\* closeRound's own check
Closable(a) == current = a /\ ~paused /\ stage \in {"Countdown", "RoundActive"}

Close == closed' = closed \cup {current} /\ stage' = "InputLocked"

\* closeRound's job, queued by an input handler
RunClose(a) ==
  /\ closing' = closing \ {a}
  /\ IF Closable(a) THEN Close /\ early' = early \cup {current}
     ELSE UNCHANGED <<closed, stage, early>>
  /\ UNCHANGED <<people, paused, current, scope, registered, voided, revealed, answers, scores,
                 inputs, told, interrupted>>

\* closeRound's job, queued by the deadline's timer
Deadline ==
  /\ stage = "RoundActive" /\ Closable(current) /\ Close
  /\ UNCHANGED <<people, paused, current, scope, registered, voided, revealed, answers, scores,
                 inputs, closing, history>>

\* Mutant: the score comes from the round's first attempt.
ScoredFromFirst(p) == answers[1][p]

\* scoreOrderRound, scoreGeoRound: a score is a function of the player's row.
ScoredFrom(p) == answers[current][p]

\* reveal: who is still here, of a tie-break's participants if it is one, is scored.
Reveal ==
  /\ stage = "InputLocked" /\ stage' = IF TieBreak THEN "TournamentResults" ELSE "Reveal"
  /\ revealed' = revealed \cup {current}
  /\ scores' = scores \cup {[from |-> p, attempt |-> current, row |-> ScoredFrom(p)] :
                              p \in IF TieBreak THEN present \cap scope ELSE present}
  /\ UNCHANGED <<people, paused, current, scope, registered, closed, voided, answers, inputs,
                 closing, history>>

\* VOID_ROUND: the replay is a new attempt, with a tie-break's participants.
Void ==
  /\ stage \in {"Countdown", "RoundActive", "InputLocked", "Reveal"}
  /\ current < MaxAttempts /\ Cardinality(present \cup removed) + current < MaxSize
  /\ voided' = voided \cup {current} /\ current' = current + 1
  /\ stage' = "Ready" /\ paused' = FALSE /\ interrupted' = FALSE
  /\ UNCHANGED <<people, scope, registered, closed, revealed, answers, scores, inputs, closing,
                 told, early>>

Next ==
  \/ \E p \in Players : Join(p) \/ Remove(p)
  \/ \E p \in Players, payload \in Payloads, lock \in BOOLEAN : Accept(p, payload, lock)
  \/ \E i \in inputs : Write(i) \/ Count(i)
  \/ Start \/ Activate \/ Pause \/ Resume
  \/ \E a \in closing : RunClose(a)
  \/ Deadline \/ Reveal \/ Void

Spec == Init /\ [][Next]_vars

\* Handlers and queued jobs run on; people, the host and the clock owe nothing.
FairSpec ==
  /\ Spec
  /\ \A p \in Players :
       /\ WF_vars(\E i \in inputs : i.from = p /\ Write(i))
       /\ WF_vars(\E i \in inputs : i.from = p /\ Count(i))
  /\ \A a \in Attempts : WF_vars(a \in closing /\ RunClose(a))

------------------------------------------------------------------------------
\* Properties.

\* A locked answer never changes, whatever inputs of the same player cross it.
LockFinal ==
  [][\A a \in Attempts, p \in Players :
       answers[a][p].locked => answers'[a][p] = answers[a][p]]_vars

\* What a phone was told is locked is what is stored, and what is scored if the
\* player is scored at all.
LockCounts ==
  \A t \in told :
    LET row == [payload |-> t.payload, locked |-> TRUE] IN
      /\ answers[t.attempt][t.from] = row
      /\ \A s \in scores : s.from = t.from /\ s.attempt = t.attempt => s.row = row

\* A round closes before its time only on as many locks as there were people
\* when it started; a tie-break only when everybody in it has locked.
EarlyCloseDue ==
  \A a \in early :
    IF TieBreak THEN scope \subseteq Lockers(a)
    ELSE Cardinality(Lockers(a)) >= Cardinality(registered[a])

\* "Everyone registered at round start must lock before the round auto-closes"
\* (participation.service.ts:89).  Not so once somebody joins: see the README.
NobodyCutOff ==
  \A a \in early : ~TieBreak => registered[a] \subseteq Lockers(a) \cup removed

\* When everybody has locked the round closes, whoever joined meanwhile; a pause
\* may make the request fall.
AllLockedCloses ==
  \A a \in Attempts :
    (/\ current = a /\ stage = "RoundActive" /\ ~interrupted
     /\ registered[a] # {} /\ IF TieBreak THEN scope \subseteq Lockers(a) ELSE registered[a] \subseteq Lockers(a))
      ~> (current # a \/ stage # "RoundActive" \/ interrupted)
==============================================================================
