----------------------------- MODULE AnswersProofs -----------------------------
(***************************************************************************)
(* For any number of players, answers, tie-breaks and replays: a locked    *)
(* answer is final, a confirmed lock is what is stored and scored, and a   *)
(* round closes early only on enough locks, of the right people.           *)
(***************************************************************************)
EXTENDS Answers, FiniteSetTheorems, TLAPS

\* The attempt's round has begun: whom it waits for is settled.
Started(a) == a < current \/ (a = current /\ stage # "Ready")

\* Enough players have locked for the round to close.
Due(a) == Cardinality(Lockers(a)) >= Expected(a)

AnswersInv ==
  /\ TypeOK
  /\ LockCounts
  /\ \A a \in closing \cup early : Due(a) /\ Started(a)
  /\ \A i \in inputs : Started(i.attempt)
  /\ \A s \in scores : s.attempt \in revealed
  /\ TieBreak => /\ \A a \in Attempts : Lockers(a) \subseteq scope
                 /\ \A i \in inputs : i.from \in scope

------------------------------------------------------------------------------
\* Which steps change answers, and how.

LEMMA AnswersChange ==
  ASSUME TypeOK, [Next]_vars
  PROVE  \/ answers' = answers
         \/ \E i \in inputs :
              /\ ~answers[i.attempt][i.from].locked
              /\ answers' = [answers EXCEPT ![i.attempt][i.from] = [payload |-> i.payload, locked |-> i.lock]]
<1>1. CASE \E i \in inputs : Write(i)
  BY <1>1 DEF Write, Writable
<1>2. CASE ~\E i \in inputs : Write(i)
  BY <1>2 DEF Next, vars, Join, Remove, Accept, Count, Start, Activate, Pause, Resume, RunClose,
              Deadline, Reveal, Void
<1> QED
  BY <1>1, <1>2

LEMMA LocksStay ==
  ASSUME TypeOK, [Next]_vars, NEW a \in Attempts, NEW p \in Players, answers[a][p].locked
  PROVE  answers'[a][p] = answers[a][p]
<1>1. CASE answers' = answers
  BY <1>1
<1>2. ASSUME NEW i \in inputs, ~answers[i.attempt][i.from].locked,
             answers' = [answers EXCEPT ![i.attempt][i.from] = [payload |-> i.payload, locked |-> i.lock]]
      PROVE  answers'[a][p] = answers[a][p]
  <2>1. ~(i.attempt = a /\ i.from = p)
    BY <1>2
  <2>2. answers \in [Attempts -> [Players -> Rows]] /\ i.attempt \in Attempts /\ i.from \in Players
    BY DEF TypeOK
  <2>3. answers'[a] = IF i.attempt = a
                      THEN [answers[a] EXCEPT ![i.from] = [payload |-> i.payload, locked |-> i.lock]]
                      ELSE answers[a]
    BY <1>2, <2>2
  <2> QED BY <2>1, <2>2, <2>3
<1> QED
  BY <1>1, <1>2, AnswersChange

LEMMA LockersGrow ==
  ASSUME AnswersAssumption, TypeOK, [Next]_vars, NEW a \in Attempts
  PROVE  /\ Lockers(a) \subseteq Lockers(a)'
         /\ Cardinality(Lockers(a)) \in Nat /\ Cardinality(Lockers(a)') \in Nat
         /\ Cardinality(Lockers(a)) <= Cardinality(Lockers(a)')
<1>1. Lockers(a) \subseteq Lockers(a)'
  BY LocksStay DEF Lockers
<1>2. Lockers(a)' \subseteq Players /\ Lockers(a) \subseteq Players
  BY DEF Lockers
<1>3. IsFiniteSet(Lockers(a)') /\ IsFiniteSet(Lockers(a))
  BY <1>2, FS_Subset DEF AnswersAssumption
<1> QED
  BY <1>1, <1>3, FS_Subset, FS_CardinalityType

------------------------------------------------------------------------------
LEMMA AnswersInit == ASSUME AnswersAssumption, Init PROVE AnswersInv
<1>1. Blank \in Rows /\ ~Blank.locked
  BY DEF Blank, Rows
<1>2. TypeOK
  <2>1. answers \in [Attempts -> [Players -> Rows]]
    BY <1>1 DEF Init
  <2>2. paused \in BOOLEAN
    BY DEF Init
  <2>3. interrupted \in BOOLEAN
    BY DEF Init
  <2>4. current \in Attempts /\ scope \in Scopes
    BY DEF Init, Attempts, AnswersAssumption
  <2> QED BY <2>1, <2>2, <2>3, <2>4 DEF Init, TypeOK
<1>3. \A a \in Attempts : Lockers(a) = {}
  BY <1>1 DEF Init, Lockers
<1> QED
  BY <1>2, <1>3 DEF Init, AnswersInv, LockCounts

LEMMA AnswersTypes ==
  ASSUME AnswersAssumption, AnswersInv, [Next]_vars
  PROVE  TypeOK'
<1>1. TypeOK
  BY DEF AnswersInv
<1> USE <1>1, AnswersAssumption
<1>2. CASE \E p \in Players : Join(p) \/ Remove(p)
  BY <1>2 DEF Join, Remove, MayJoin, TypeOK, table, history
<1>3. ASSUME NEW p \in Players, NEW payload \in Payloads, NEW lock \in BOOLEAN, Accept(p, payload, lock)
      PROVE  TypeOK'
  <2>1. inputs' \subseteq [from: Players, attempt: Attempts, payload: Payloads, lock: BOOLEAN, at: {"write", "count"}]
    BY <1>3 DEF Accept, TypeOK
  <2> QED BY <1>3, <2>1 DEF Accept, TypeOK, people, table, history
<1>4. ASSUME NEW i \in inputs, Write(i) PROVE TypeOK'
  <2>1. /\ i \in [from: Players, attempt: Attempts, payload: Payloads, lock: BOOLEAN, at: {"write", "count"}]
        /\ [payload |-> i.payload, locked |-> i.lock] \in Rows
    BY DEF TypeOK, Rows
  <2>2. inputs' \subseteq [from: Players, attempt: Attempts, payload: Payloads, lock: BOOLEAN, at: {"write", "count"}]
    BY <1>4, <2>1 DEF Write, TypeOK
  <2>3. answers' \in [Attempts -> [Players -> Rows]]
    <3> DEFINE row == [payload |-> i.payload, locked |-> i.lock]
    <3>1. answers' = answers \/ answers' = [answers EXCEPT ![i.attempt][i.from] = row]
      BY <1>4 DEF Write
    <3>2. i.attempt \in Attempts /\ i.from \in Players /\ answers \in [Attempts -> [Players -> Rows]]
      BY DEF TypeOK
    <3>3. row \in Rows
      BY <2>1
    <3> HIDE DEF row
    <3>4. [answers[i.attempt] EXCEPT ![i.from] = row] \in [Players -> Rows]
      BY <3>2, <3>3
    <3>5. [answers EXCEPT ![i.attempt][i.from] = row] \in [Attempts -> [Players -> Rows]]
      BY <3>2, <3>4
    <3> QED BY <3>1, <3>2, <3>5
  <2> QED BY <1>4, <2>2, <2>3 DEF Write, TypeOK, people, table, history
<1>5. ASSUME NEW i \in inputs, Count(i) PROVE TypeOK'
  <2>1. i.attempt \in Attempts /\ i.from \in Players /\ Stored(i) \in Rows
    BY DEF TypeOK, Stored
  <2>2. told' \subseteq [from: Players, attempt: Attempts, payload: Payloads \cup {None}]
    BY <1>5, <2>1 DEF Count, TypeOK, Rows
  <2> QED BY <1>5, <2>1, <2>2 DEF Count, TypeOK, people, table
<1>6. CASE Start \/ Activate
  BY <1>6 DEF Start, Activate, TypeOK, people, table, history
<1>7. CASE Pause \/ Resume
  <2>1. paused' \in BOOLEAN
    BY <1>7 DEF Pause, Resume
  <2>2. interrupted' \in BOOLEAN
    BY <1>7 DEF Pause, Resume, history, TypeOK
  <2> QED BY <1>7, <2>1, <2>2 DEF Pause, Resume, TypeOK, people, table, history
<1>8. ASSUME NEW a \in closing, RunClose(a) PROVE TypeOK'
  BY <1>8 DEF RunClose, Close, TypeOK, people
<1>9. CASE Deadline
  BY <1>9 DEF Deadline, Close, TypeOK, people, history
<1>10. CASE Reveal
  <2>1. \A p \in Players : ScoredFrom(p) \in Rows
    BY DEF ScoredFrom, TypeOK
  <2>2. scores' \subseteq [from: Players, attempt: Attempts, row: Rows]
    BY <1>10, <2>1 DEF Reveal, TypeOK
  <2> QED BY <1>10, <2>2 DEF Reveal, TypeOK, people, history
<1>11. CASE Void
  <2>1. current' \in Attempts /\ voided' \subseteq Attempts
    BY <1>11 DEF Void, TypeOK, Attempts
  <2>2. paused' \in BOOLEAN
    BY <1>11 DEF Void
  <2>3. interrupted' \in BOOLEAN
    BY <1>11 DEF Void
  <2> QED BY <1>11, <2>1, <2>2, <2>3 DEF Void, TypeOK, people
<1>12. CASE UNCHANGED vars
  BY <1>12 DEF vars, TypeOK, people, table, history
<1> QED
  BY <1>2, <1>3, <1>4, <1>5, <1>6, <1>7, <1>8, <1>9, <1>10, <1>11, <1>12 DEF Next

\* Who is waited for is settled when the round starts, and locks only get more.
LEMMA DueStays ==
  ASSUME AnswersAssumption, AnswersInv, [Next]_vars, NEW a \in Attempts, Started(a)
  PROVE  Started(a)' /\ (Due(a) => Due(a)')
<1>1. TypeOK /\ TypeOK'
  BY AnswersTypes DEF AnswersInv
<1>2. Started(a)' /\ scope' = scope /\ registered'[a] = registered[a]
  <2>1. current \in Nat /\ a \in Nat
    BY <1>1 DEF TypeOK, Attempts
  <2>2. CASE Start
    BY <1>1, <2>1, <2>2 DEF Start, Started, TypeOK
  <2>3. CASE Void
    BY <2>1, <2>3 DEF Void, Started
  <2>4. CASE Activate \/ Pause \/ Resume \/ Deadline \/ Reveal
    BY <2>4 DEF Activate, Pause, Resume, Deadline, Reveal, Close, Started
  <2>5. CASE \E p \in Players : Join(p) \/ Remove(p)
    BY <2>5 DEF Join, Remove, Started
  <2>6. CASE \E p \in Players, payload \in Payloads, lock \in BOOLEAN : Accept(p, payload, lock)
    BY <2>6 DEF Accept, Started
  <2>7. CASE \E i \in inputs : Write(i) \/ Count(i)
    BY <2>7 DEF Write, Count, Started
  <2>8. CASE \E b \in closing : RunClose(b)
    BY <2>8 DEF RunClose, Close, Started
  <2>9. CASE UNCHANGED vars
    BY <2>9 DEF vars, Started
  <2> QED BY <2>2, <2>3, <2>4, <2>5, <2>6, <2>7, <2>8, <2>9 DEF Next
<1>3. Expected(a)' = Expected(a)
  BY <1>2 DEF Expected, TieBreak
<1>4. Expected(a) \in Nat
  <2>1. IsFiniteSet(scope) /\ IsFiniteSet(registered[a])
    BY <1>1, FS_Subset DEF TypeOK, AnswersAssumption
  <2> QED BY <2>1, FS_CardinalityType DEF Expected
<1>5. Due(a) => Due(a)'
  BY <1>1, <1>3, <1>4, LockersGrow DEF Due
<1> QED
  BY <1>2, <1>5

\* Told locks stay stored, and were there when the scores were computed.
LEMMA LockCountsStays ==
  ASSUME AnswersAssumption, AnswersInv, [Next]_vars
  PROVE  LockCounts' /\ \A s \in scores' : s.attempt \in revealed'
<1>1. TypeOK /\ LockCounts /\ \A s \in scores : s.attempt \in revealed
  BY DEF AnswersInv
<1> DEFINE Row(t) == [payload |-> t.payload, locked |-> TRUE]
           Good(t) == \A s \in scores : s.from = t.from /\ s.attempt = t.attempt => s.row = Row(t)
<1>2. \A t \in told : /\ t.attempt \in Attempts /\ t.from \in Players
                      /\ answers[t.attempt][t.from] = Row(t) /\ Good(t)
  BY <1>1 DEF LockCounts, TypeOK
<1>3. \A t \in told : answers'[t.attempt][t.from] = Row(t)
  <2> TAKE t \in told
  <2>1. answers[t.attempt][t.from] = Row(t) /\ Row(t).locked = TRUE
    BY <1>2
  <2> QED BY <1>1, <1>2, <2>1, LocksStay
<1>4. ASSUME NEW i \in inputs, Count(i)
      PROVE  LockCounts' /\ \A s \in scores' : s.attempt \in revealed'
  <2>1. scores' = scores /\ answers' = answers /\ revealed' = revealed
    BY <1>4 DEF Count, table
  <2>2. CASE told' = told
    BY <1>1, <2>1, <2>2 DEF LockCounts
  <2>3. CASE told' # told
    <3>1. /\ Stored(i).locked /\ i.attempt \notin revealed
          /\ told' = told \cup {[from |-> i.from, attempt |-> i.attempt, payload |-> Stored(i).payload]}
      BY <1>4, <2>3 DEF Count
    <3>2. Stored(i) = [payload |-> Stored(i).payload, locked |-> TRUE]
      <4>1. Stored(i) \in Rows
        BY <1>1 DEF Stored, TypeOK
      <4> QED BY <3>1, <4>1 DEF Rows
    <3>3. \A t \in told' : t \in told \/
            (t.attempt = i.attempt /\ t.from = i.from /\ t.payload = Stored(i).payload)
      BY <3>1
    <3>4. \A t \in told' : answers[t.attempt][t.from] = Row(t)
      BY <1>2, <3>2, <3>3 DEF Stored
    <3>5. \A t \in told' : Good(t)
      BY <1>1, <1>2, <3>1, <3>3
    <3> QED BY <1>1, <2>1, <3>4, <3>5 DEF LockCounts
  <2> QED BY <2>2, <2>3
<1>5. CASE Reveal
  <2>1. told' = told /\ answers' = answers /\ revealed' = revealed \cup {current}
    BY <1>5 DEF Reveal, history
  <2>2. \A s \in scores' : s \in scores \/
          (s.attempt = current /\ s.from \in Players /\ s.row = answers[current][s.from])
    BY <1>1, <1>5 DEF Reveal, ScoredFrom, TypeOK
  <2>3. \A s \in scores' : s.attempt \in revealed'
    BY <1>1, <2>1, <2>2
  <2>4. LockCounts'
    BY <1>2, <2>1, <2>2 DEF LockCounts
  <2> QED BY <2>3, <2>4
<1>6. ASSUME told' = told, scores' = scores, revealed \subseteq revealed'
      PROVE  LockCounts' /\ \A s \in scores' : s.attempt \in revealed'
  BY <1>1, <1>2, <1>3, <1>6 DEF LockCounts
<1>7. CASE ~Reveal /\ ~\E i \in inputs : Count(i)
  <2>1. told' = told /\ scores' = scores /\ revealed \subseteq revealed'
    BY <1>7 DEF Next, vars, history, table, Join, Remove, Accept, Write, Start, Activate, Pause,
                Resume, RunClose, Deadline, Void
  <2> QED BY <1>6, <2>1
<1> QED
  BY <1>4, <1>5, <1>7

LEMMA AnswersNext == ASSUME AnswersAssumption, AnswersInv, [Next]_vars PROVE AnswersInv'
<1>1. /\ TypeOK /\ TypeOK' /\ current \in Nat
  BY AnswersTypes DEF AnswersInv, TypeOK, Attempts
<1>2. LockCounts' /\ \A s \in scores' : s.attempt \in revealed'
  BY LockCountsStays
<1>3. ASSUME NEW a \in Attempts, a \in closing' \cup early' PROVE Due(a)' /\ Started(a)'
  <2>1. CASE a \in closing \cup early
    <3>1. Due(a) /\ Started(a)
      BY <2>1 DEF AnswersInv
    <3> QED BY <3>1, DueStays
  <2>2. CASE a \notin closing \cup early
    <3>1. CASE \E i \in inputs : Count(i)
      <4>1. PICK i \in inputs : Count(i)
        BY <3>1
      <4>2. a = i.attempt /\ Cardinality(Lockers(a)) >= Expected(a)
        BY <1>3, <2>2, <4>1 DEF Count
      <4>3. Started(a)
        BY <4>1, <4>2 DEF AnswersInv
      <4> QED BY <4>2, <4>3, DueStays DEF Due
    <3>2. CASE \E b \in closing : RunClose(b)
      <4>1. PICK b \in closing : RunClose(b)
        BY <3>2
      <4>2. a = b
        BY <1>3, <2>2, <4>1 DEF RunClose, Closable
      <4> QED BY <2>2, <4>1, <4>2
    <3>3. CASE ~(\E i \in inputs : Count(i)) /\ ~(\E b \in closing : RunClose(b))
      <4>1. closing' \subseteq closing /\ early' \subseteq early
        BY <3>3 DEF Next, vars, history, Join, Remove, Accept, Write, Start, Activate, Pause,
                    Resume, Deadline, Reveal, Void
      <4> QED BY <1>3, <2>2, <4>1
    <3> QED BY <3>1, <3>2, <3>3
  <2> QED BY <2>1, <2>2
<1>4. ASSUME NEW i \in inputs'
      PROVE  /\ Started(i.attempt)'
             /\ TieBreak => i.from \in scope
  <2>1. CASE \E j \in inputs : i.attempt = j.attempt /\ i.from = j.from
    <3>1. Started(i.attempt) /\ i.attempt \in Attempts /\ (TieBreak => i.from \in scope)
      BY <1>1, <2>1 DEF AnswersInv, TypeOK
    <3> QED BY <3>1, DueStays
  <2>2. CASE ~\E j \in inputs : i.attempt = j.attempt /\ i.from = j.from
    <3>1. CASE \E p \in Players, payload \in Payloads, lock \in BOOLEAN : Accept(p, payload, lock)
      <4>1. PICK p \in Players, payload \in Payloads, lock \in BOOLEAN : Accept(p, payload, lock)
        BY <3>1
      <4>2. i \in inputs \/ (i.from = p /\ i.attempt = current)
        BY <4>1 DEF Accept
      <4>3. i.from = p /\ i.attempt = current /\ Open(p) /\ stage' = stage /\ current' = current
        BY <2>2, <4>1, <4>2 DEF Accept
      <4> QED BY <4>3 DEF Open, Started
    <3>2. CASE \E j \in inputs : Write(j)
      <4>1. PICK j \in inputs : Write(j)
        BY <3>2
      <4>2. [j EXCEPT !.at = "count"].attempt = j.attempt /\ [j EXCEPT !.at = "count"].from = j.from
        <5>1. j \in [from: Players, attempt: Attempts, payload: Payloads, lock: BOOLEAN, at: {"write", "count"}]
          BY <1>1 DEF TypeOK
        <5> QED BY <5>1
      <4>3. inputs' \subseteq inputs \cup {[j EXCEPT !.at = "count"]}
        BY <4>1 DEF Write
      <4> QED BY <2>2, <4>2, <4>3
    <3>3. CASE ~(\E p \in Players, payload \in Payloads, lock \in BOOLEAN : Accept(p, payload, lock))
               /\ ~\E j \in inputs : Write(j)
      <4>1. inputs' \subseteq inputs
        BY <3>3 DEF Next, vars, Join, Remove, Count, Start, Activate, Pause, Resume, RunClose,
                    Deadline, Reveal, Void
      <4> QED BY <2>2, <4>1
    <3> QED BY <3>1, <3>2, <3>3
  <2> QED BY <2>1, <2>2
<1>5. scope' = scope
  BY DEF Next, vars, Join, Remove, Accept, Write, Count, Start, Activate, Pause, Resume, RunClose,
         Deadline, Reveal, Void
<1>6. ASSUME TieBreak, NEW a \in Attempts PROVE Lockers(a)' \subseteq scope
  <2> SUFFICES ASSUME NEW p \in Players, answers'[a][p].locked PROVE p \in scope
    BY DEF Lockers
  <2>1. CASE answers[a][p].locked
    BY <1>6, <2>1 DEF AnswersInv, Lockers
  <2>2. CASE ~answers[a][p].locked
    <3>1. PICK i \in inputs :
            answers' = [answers EXCEPT ![i.attempt][i.from] = [payload |-> i.payload, locked |-> i.lock]]
      BY <1>1, <2>2, AnswersChange
    <3>2. answers \in [Attempts -> [Players -> Rows]]
      BY <1>1 DEF TypeOK
    <3>3. answers'[a] = IF i.attempt = a
                        THEN [answers[a] EXCEPT ![i.from] = [payload |-> i.payload, locked |-> i.lock]]
                        ELSE answers[a]
      BY <3>1, <3>2
    <3>4. p = i.from
      BY <2>2, <3>2, <3>3
    <3> QED BY <1>6, <3>4 DEF AnswersInv
  <2> QED BY <2>1, <2>2
<1>7. \A a \in closing' \cup early' : a \in Attempts
  BY <1>1 DEF TypeOK
<1>8. TieBreak' = TieBreak
  BY <1>5 DEF TieBreak
<1> QED
  BY <1>1, <1>2, <1>3, <1>4, <1>5, <1>6, <1>7, <1>8 DEF AnswersInv

------------------------------------------------------------------------------
\* The facts above hold in every reachable state.
THEOREM AnswersInvariant == ASSUME AnswersAssumption PROVE Spec => []AnswersInv
<1>1. Init => AnswersInv
  BY AnswersInit
<1>2. AnswersInv /\ [Next]_vars => AnswersInv'
  BY AnswersNext
<1> QED
  BY <1>1, <1>2, PTL DEF Spec

\* What a phone was told is locked is what is stored and scored, however many
\* inputs of the same player, voids and replays cross it (save, lock, myState).
THEOREM LockCountsThm == ASSUME AnswersAssumption PROVE Spec => []LockCounts
<1>1. AnswersInv => LockCounts
  BY DEF AnswersInv
<1> QED
  BY <1>1, AnswersInvariant, PTL

\* A round closes itself only on as many locks as people were counted at its
\* start, a tie-break only on those of all its participants (afterInput).
THEOREM EarlyCloseDueThm == ASSUME AnswersAssumption PROVE Spec => []EarlyCloseDue
<1>1. ASSUME AnswersInv PROVE EarlyCloseDue
  <2> SUFFICES ASSUME NEW a \in early
               PROVE  IF TieBreak THEN scope \subseteq Lockers(a)
                      ELSE Cardinality(Lockers(a)) >= Cardinality(registered[a])
    BY DEF EarlyCloseDue
  <2>1. Due(a) /\ a \in Attempts /\ TypeOK
    BY <1>1 DEF AnswersInv, TypeOK
  <2>2. CASE ~TieBreak
    BY <2>1, <2>2 DEF Due, Expected
  <2>3. CASE TieBreak
    <3>1. Lockers(a) \subseteq scope /\ Cardinality(Lockers(a)) >= Cardinality(scope)
      BY <1>1, <2>1, <2>3 DEF AnswersInv, Due, Expected
    <3>2. IsFiniteSet(scope)
      BY <2>1, FS_Subset DEF TypeOK, AnswersAssumption
    <3>3. /\ Cardinality(Lockers(a)) <= Cardinality(scope) /\ IsFiniteSet(Lockers(a))
          /\ Cardinality(scope) = Cardinality(Lockers(a)) => scope = Lockers(a)
      BY <3>1, <3>2, FS_Subset
    <3>4. Cardinality(scope) \in Nat /\ Cardinality(Lockers(a)) \in Nat
      BY <3>2, <3>3, FS_CardinalityType
    <3> QED BY <2>3, <3>1, <3>3, <3>4
  <2> QED BY <2>2, <2>3
<1>2. AnswersInv => EarlyCloseDue
  BY <1>1
<1> QED
  BY <1>2, AnswersInvariant, PTL

\* A locked answer never changes: the WHERE clause of both statements is enough,
\* with any number of inputs under way at once.
THEOREM LockFinalThm == ASSUME AnswersAssumption PROVE Spec => LockFinal
<1>1. AnswersInv /\ [Next]_vars =>
        [\A a \in Attempts, p \in Players :
           answers[a][p].locked => answers'[a][p] = answers[a][p]]_vars
  BY LocksStay DEF AnswersInv
<1> QED
  BY <1>1, AnswersInvariant, PTL DEF Spec, LockFinal
==============================================================================
