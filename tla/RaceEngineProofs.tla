---------------------------- MODULE RaceEngineProofs ----------------------------
(***************************************************************************)
(* For every number of players, tolerance, timeout, track and speed: only  *)
(* green grants distance, the engine's clock is the time the race was on,  *)
(* and nobody is eliminated within the tolerance, for a press from before  *)
(* a pause, or after the player's fate has been decided.                   *)
(***************************************************************************)
EXTENDS RaceEngine, TLAPS

Racer == [progress: 0..Track, state: LifeStates, holding: BOOLEAN,
          holdSince: Instants, lastHeartbeat: Instants, finishActiveMs: Instants]

\* Time the light has been green and the engine has not yet turned into distance.
Unticked ==
  IF RaceOn /\ signal.color = "GREEN" THEN now - Greatest(signal.effectiveAt, lastTick) ELSE 0

\* The invariant behind GreenOnly: distance so far is paid for by green time so far.
Paid ==
  /\ Unticked <= green
  /\ \A p \in Players : player[p].progress <= Speed * (green - Unticked)

\* Holds do not outlive a pause, and the session pauses only with its engine.
HoldsFresh ==
  /\ running /\ (paused \/ stage = "Countdown") => enginePaused
  /\ \A p \in Players : player[p].holding => RaceOn /\ player[p].lastHeartbeat >= resumed

\* What has been written is what the engine says.
Written ==
  /\ ~running => stage = "Countdown" /\ toWrite = {} /\ raced = 0 /\ ~enginePaused
  /\ \A p \in Players : outcome[p] \in {"finished", "eliminated"} =>
       running /\ player[p].state = outcome[p]

Clocks == lastTick <= now /\ signal.effectiveAt <= now /\ resumed <= now

RaceInv ==
  /\ TypeOK /\ Clocks /\ Written /\ HoldsFresh /\ ActiveTimeExact /\ Paid

------------------------------------------------------------------------------
\* Arithmetic.

LEMMA TimesNat == ASSUME NEW a \in Nat, NEW b \in Nat PROVE a * b \in Nat
  OBVIOUS

LEMMA TimesMonotone ==
  ASSUME NEW a \in Nat, NEW b \in Nat, NEW c \in Nat, b <= c PROVE a * b <= a * c
<1>1. c = b + (c - b) /\ c - b \in Nat
  OBVIOUS
<1>2. a * (b + (c - b)) = a * b + a * (c - b)
  BY <1>1
<1>3. a * (c - b) \in Nat /\ a * b \in Nat
  BY <1>1, TimesNat
<1> QED
  BY <1>1, <1>2, <1>3

LEMMA TimesSplit ==
  ASSUME NEW a \in Nat, NEW b \in Nat, NEW c \in Nat, b <= c
  PROVE  a * (c - b) + a * b = a * c
  OBVIOUS

------------------------------------------------------------------------------
\* What a tick does to one player.

\* Ticks deliver players, and distance for no more than the green time since the last tick.
LEMMA MovedFacts ==
  ASSUME RaceAssumption, TypeOK, Clocks, NEW q \in Racer
  PROVE  /\ Moved(q) \in Racer
         /\ Moved(q).progress
              <= q.progress + Speed * (now - Greatest(signal.effectiveAt, lastTick))
         /\ Moved(q).state \in {q.state, "finished"}
         /\ Moved(q).lastHeartbeat = q.lastHeartbeat
         /\ Moved(q).holding => q.holding
<1> DEFINE dt == Greatest(0, now - MovesSince(q))
           gt == now - Greatest(signal.effectiveAt, lastTick)
           progress == Capped(q.progress + Speed * dt)
<1>1. /\ now \in Nat /\ lastTick \in Nat /\ activeMs \in Nat /\ signal.effectiveAt \in Nat
      /\ Speed \in Nat /\ Track \in Nat /\ lastTick <= now /\ signal.effectiveAt <= now
      /\ q.progress \in 0..Track /\ q.holdSince \in Nat \cup {-1}
  BY DEF TypeOK, RaceAssumption, Clocks, Racer, Instants, None
<1>2. dt \in Nat /\ gt \in Nat /\ dt <= gt
  BY <1>1 DEF MovesSince, Greatest, None
<1>3. Speed * dt \in Nat /\ Speed * gt \in Nat /\ Speed * dt <= Speed * gt
  BY <1>1, <1>2, TimesNat, TimesMonotone
<1>4. progress \in 0..Track /\ progress <= q.progress + Speed * gt
  <2> HIDE DEF dt, gt
  <2> QED BY <1>1, <1>3 DEF Capped, Least
<1>5. ActiveMs \in Instants
  BY <1>1 DEF ActiveMs, Instants
<1>6. Moved(q) = IF progress < Track THEN [q EXCEPT !.progress = progress]
                 ELSE [q EXCEPT !.progress = progress, !.state = "finished",
                                !.finishActiveMs = ActiveMs, !.holding = FALSE]
  BY DEF Moved
<1>7. Moved(q) \in Racer /\ Moved(q).progress = progress
  <2> HIDE DEF progress
  <2> QED BY <1>4, <1>5, <1>6 DEF Racer, LifeStates
<1>8. /\ Moved(q).state \in {q.state, "finished"}
      /\ Moved(q).lastHeartbeat = q.lastHeartbeat
      /\ Moved(q).holding => q.holding
  <2> HIDE DEF progress
  <2> QED BY <1>6 DEF Racer
<1> QED
  BY <1>4, <1>7, <1>8

LEMMA EliminatedFacts ==
  ASSUME NEW q \in Racer
  PROVE  /\ Eliminated(q) \in Racer
         /\ Eliminated(q).progress = q.progress
         /\ Eliminated(q).lastHeartbeat = q.lastHeartbeat
         /\ Eliminated(q).holding => q.holding
         /\ q.state # "alive" => Eliminated(q) = q
  BY DEF Eliminated, Racer, LifeStates, Instants, None

LEMMA AdvancedFacts ==
  ASSUME RaceAssumption, TypeOK, Clocks, NEW q \in Racer
  PROVE  /\ Advanced(q) \in Racer
         /\ signal.color # "GREEN" => Advanced(q).progress = q.progress
         /\ Advanced(q).progress
              <= q.progress + Speed * (now - Greatest(signal.effectiveAt, lastTick))
         /\ Advanced(q).lastHeartbeat = q.lastHeartbeat
         /\ Advanced(q).holding => q.holding
         /\ q.state # "alive" => Advanced(q) = q
         /\ q.state = "alive" /\ Advanced(q).state = "eliminated" =>
              q.holding /\ signal.color # "GREEN" /\ ~InTolerance
<1> DEFINE gain == Speed * (now - Greatest(signal.effectiveAt, lastTick))
           letGo == [q EXCEPT !.holding = FALSE, !.holdSince = None]
<1>1. gain \in Nat /\ q.progress \in Nat
  <2>1. /\ now \in Nat /\ lastTick \in Nat /\ signal.effectiveAt \in Nat /\ Speed \in Nat
        /\ lastTick <= now /\ signal.effectiveAt <= now /\ q.progress \in Nat
    BY DEF TypeOK, RaceAssumption, Clocks, Racer
  <2>2. now - Greatest(signal.effectiveAt, lastTick) \in Nat
    BY <2>1 DEF Greatest
  <2> QED BY <2>1, <2>2, TimesNat
<1>2. letGo \in Racer /\ letGo.progress = q.progress /\ letGo.lastHeartbeat = q.lastHeartbeat
      /\ letGo.holding = FALSE /\ letGo.state = q.state
  BY DEF Racer, Instants, None
<1> HIDE DEF gain, letGo
<1>3. Advanced(q) = IF q.state # "alive" \/ ~q.holding THEN q
                    ELSE IF Stale(q) THEN letGo
                    ELSE IF signal.color = "GREEN" THEN Moved(q)
                    ELSE IF InTolerance THEN q
                    ELSE Eliminated(q)
  BY DEF Advanced, letGo
<1>4. CASE q.state # "alive" \/ ~q.holding
  BY <1>1, <1>3, <1>4 DEF gain
<1>5. CASE q.state = "alive" /\ q.holding /\ Stale(q)
  BY <1>1, <1>2, <1>3, <1>5 DEF gain
<1>6. CASE q.state = "alive" /\ q.holding /\ ~Stale(q) /\ signal.color = "GREEN"
  BY <1>3, <1>6, MovedFacts
<1>7. CASE q.state = "alive" /\ q.holding /\ ~Stale(q) /\ signal.color # "GREEN"
  BY <1>1, <1>3, <1>7, EliminatedFacts DEF gain
<1> QED
  BY <1>4, <1>5, <1>6, <1>7

------------------------------------------------------------------------------
\* What a tick does to the race.

LEMMA TickedFacts ==
  ASSUME RaceAssumption, RaceInv
  PROVE  /\ Ticked \in [Players -> Racer]
         /\ ~RaceOn => Ticked = player
         /\ \A p \in Players :
              /\ Ticked[p].progress <= Speed * green
              /\ Ticked[p].lastHeartbeat = player[p].lastHeartbeat
              /\ Ticked[p].holding => player[p].holding
              /\ player[p].state # "alive" => Ticked[p].state = player[p].state
              /\ player[p].state = "alive" /\ Ticked[p].state = "eliminated" =>
                   player[p].holding /\ signal.color # "GREEN" /\ ~InTolerance
<1>1. /\ TypeOK /\ Clocks /\ player \in [Players -> Racer]
      /\ \A p \in Players : player[p] \in Racer
  BY DEF RaceInv, TypeOK, Racer
<1>2. /\ now \in Nat /\ lastTick \in Nat /\ signal.effectiveAt \in Nat /\ green \in Nat
      /\ Speed \in Nat /\ lastTick <= now /\ signal.effectiveAt <= now
      /\ \A p \in Players : player[p].progress \in Nat
  BY <1>1 DEF TypeOK, Clocks, RaceAssumption
<1>3. Unticked \in Nat /\ Unticked <= green
  BY <1>2 DEF Unticked, Greatest, RaceInv, Paid
<1>4. \A p \in Players : player[p].progress <= Speed * green
  <2> TAKE p \in Players
  <2>1. player[p].progress <= Speed * (green - Unticked)
    BY DEF RaceInv, Paid
  <2>2. Speed * (green - Unticked) <= Speed * green
    BY <1>2, <1>3, TimesMonotone
  <2>3. Speed * (green - Unticked) \in Nat /\ Speed * green \in Nat
    BY <1>2, <1>3, TimesNat
  <2> QED BY <1>2, <2>1, <2>2, <2>3
<1>5. Ticked \in [Players -> Racer]
  BY <1>1, AdvancedFacts DEF Ticked
<1>6. ASSUME ~RaceOn PROVE Ticked = player
  <2>1. \A p \in Players : Advanced(player[p]) = player[p] \/ enginePaused
    BY <1>6 DEF RaceInv, HoldsFresh, RaceOn, Advanced
  <2> QED BY <1>1, <2>1 DEF Ticked, TickDue
<1>7. ASSUME NEW p \in Players PROVE Ticked[p].progress <= Speed * green
  <2>1. CASE ~TickDue \/ ~RaceOn
    BY <1>4, <1>6, <2>1 DEF Ticked
  <2>2. CASE TickDue /\ RaceOn /\ signal.color # "GREEN"
    BY <1>1, <1>4, <2>2, AdvancedFacts DEF Ticked
  <2>3. CASE TickDue /\ RaceOn /\ signal.color = "GREEN"
    <3>1. Unticked = now - Greatest(signal.effectiveAt, lastTick)
      BY <2>3 DEF Unticked
    <3>2. Ticked[p] = Advanced(player[p])
      BY <2>3 DEF Ticked
    <3>3. Ticked[p].progress <= player[p].progress + Speed * Unticked
      BY <1>1, <3>1, <3>2, AdvancedFacts
    <3>4. player[p].progress <= Speed * (green - Unticked)
      BY DEF RaceInv, Paid
    <3>5. Speed * (green - Unticked) + Speed * Unticked = Speed * green
      BY <1>2, <1>3, TimesSplit
    <3>6. /\ Speed * (green - Unticked) \in Nat /\ Speed * Unticked \in Nat /\ Speed * green \in Nat
          /\ Ticked[p].progress \in Nat /\ player[p].progress \in Nat
      BY <1>2, <1>3, <1>5, TimesNat DEF Racer, RaceAssumption
    <3> QED BY <3>3, <3>4, <3>5, <3>6
  <2> QED BY <2>1, <2>2, <2>3
<1>8. ASSUME NEW p \in Players
      PROVE  /\ Ticked[p].lastHeartbeat = player[p].lastHeartbeat
             /\ Ticked[p].holding => player[p].holding
             /\ player[p].state # "alive" => Ticked[p].state = player[p].state
             /\ player[p].state = "alive" /\ Ticked[p].state = "eliminated" =>
                  player[p].holding /\ signal.color # "GREEN" /\ ~InTolerance
  BY <1>1, AdvancedFacts DEF Ticked
<1> QED
  BY <1>5, <1>6, <1>7, <1>8

\* A step that ticks, and may then freeze the engine, keeps the clocks and the balance.
LEMMA TickStep ==
  ASSUME RaceAssumption, RaceInv, TickClock,
         now' = now, running' = running, signal' = signal,
         raced' = raced, green' = green, resumed' = resumed,
         enginePaused' = enginePaused \/ enginePaused' = TRUE,
         \A p \in Players : player'[p].progress = Ticked[p].progress
  PROVE  lastTick' \in Nat /\ activeMs' \in Nat /\ Clocks' /\ ActiveTimeExact' /\ Paid'
<1>1. /\ now \in Nat /\ lastTick \in Nat /\ signal.effectiveAt \in Nat /\ activeMs \in Nat
      /\ lastTick <= now /\ signal.effectiveAt <= now /\ green \in Nat /\ raced \in Nat
      /\ enginePaused \in BOOLEAN
  BY DEF RaceInv, TypeOK, Clocks
<1>2. /\ lastTick' \in Nat /\ lastTick' <= now /\ activeMs' \in Nat
      /\ ~enginePaused => lastTick' = now /\ activeMs' = activeMs + (now - lastTick)
      /\ enginePaused => lastTick' = lastTick /\ activeMs' = activeMs
  BY <1>1 DEF TickClock, TickDue, ActiveMs
<1>3. Clocks'
  BY <1>1, <1>2 DEF RaceInv, Clocks
<1>4. ActiveTimeExact'
  <2>1. CASE ~running
    BY <2>1 DEF ActiveTimeExact
  <2>2. CASE running /\ enginePaused
    <3>1. enginePaused' = TRUE /\ activeMs + 0 = raced
      BY <1>1, <2>2 DEF RaceInv, ActiveTimeExact
    <3> QED BY <1>1, <1>2, <2>2, <3>1 DEF ActiveTimeExact
  <2>3. CASE running /\ ~enginePaused
    <3>1. activeMs + (now - lastTick) = raced
      BY <2>3 DEF RaceInv, ActiveTimeExact
    <3>2. activeMs' = raced /\ now' - lastTick' = 0
      BY <1>1, <1>2, <2>3, <3>1
    <3> QED BY <1>1, <3>2 DEF ActiveTimeExact
  <2> QED BY <2>1, <2>2, <2>3
<1>5. Unticked' = 0
  <2>1. RaceOn' => ~enginePaused
    BY <1>1 DEF RaceOn
  <2> QED BY <1>1, <1>2, <2>1 DEF Unticked, Greatest
<1>6. \A p \in Players : player'[p].progress <= Speed * (green - 0)
  BY <1>1, TickedFacts
<1>7. Paid'
  BY <1>1, <1>5, <1>6 DEF Paid
<1> QED
  BY <1>2, <1>3, <1>4, <1>7

LEMMA PressedFacts ==
  ASSUME TypeOK, NEW q \in Racer
  PROVE  /\ Pressed(q) \in Racer /\ Released(q) \in Racer
         /\ Pressed(q).progress = q.progress /\ Released(q).progress = q.progress
         /\ Pressed(q).lastHeartbeat = now
         /\ ~Released(q).holding /\ Released(q).state = q.state
         /\ q.state # "alive" => Pressed(q).state = q.state
         /\ q.state = "alive" /\ Pressed(q).state = "eliminated" => signal.color = "RED" /\ ~InTolerance
<1> DEFINE heard == [q EXCEPT !.lastHeartbeat = now]
<1>1. now \in Nat /\ signal.effectiveAt \in Nat
  BY DEF TypeOK
<1>2. heard \in Racer /\ heard.progress = q.progress /\ heard.lastHeartbeat = now /\ heard.state = q.state
  BY <1>1 DEF Racer, Instants
<1>3. /\ Eliminated(heard) \in Racer /\ Eliminated(heard).progress = heard.progress
      /\ Eliminated(heard).lastHeartbeat = heard.lastHeartbeat
      /\ heard.state # "alive" => Eliminated(heard) = heard
  <2> HIDE DEF heard
  <2> QED BY <1>2, EliminatedFacts
<1>4. Released(q) \in Racer /\ Released(q).progress = q.progress
      /\ ~Released(q).holding /\ Released(q).state = q.state
  BY <1>1 DEF Released, Racer, Instants, None
<1>5. Pressed(q) = IF signal.color = "RED"
                   THEN IF InTolerance THEN [heard EXCEPT !.holding = TRUE, !.holdSince = None]
                        ELSE Eliminated(heard)
                   ELSE IF q.holding THEN heard
                        ELSE [heard EXCEPT !.holding = TRUE, !.holdSince = Greatest(now, signal.effectiveAt)]
  BY DEF Pressed
<1>6. Greatest(now, signal.effectiveAt) \in Instants /\ None \in Instants
  BY <1>1 DEF Greatest, Instants
<1> HIDE DEF heard
<1>7. CASE signal.color = "RED" /\ InTolerance
  BY <1>2, <1>4, <1>5, <1>6, <1>7 DEF Racer
<1>8. CASE signal.color = "RED" /\ ~InTolerance
  BY <1>2, <1>3, <1>4, <1>5, <1>8
<1>9. CASE signal.color # "RED"
  BY <1>2, <1>4, <1>5, <1>6, <1>9 DEF Racer
<1> QED
  BY <1>7, <1>8, <1>9

LEMMA RaceInit == ASSUME RaceAssumption, Init PROVE RaceInv
<1>1. Fresh \in Racer /\ Fresh.progress = 0 /\ ~Fresh.holding
  BY DEF Fresh, Racer, LifeStates, Instants, None, RaceAssumption
<1>2. player \in [Players -> Racer] /\ \A p \in Players : player[p] = Fresh
  BY <1>1 DEF Init
<1>3. TypeOK
  BY <1>2 DEF Init, TypeOK, Racer, Colors
<1>4. Clocks /\ Written /\ HoldsFresh /\ ActiveTimeExact
  BY <1>1, <1>2 DEF Init, Clocks, Written, HoldsFresh, ActiveTimeExact
<1>5. Unticked = 0 /\ green = 0
  BY DEF Init, Unticked, RaceOn
<1>6. \A p \in Players : player[p].progress <= Speed * (0 - 0)
  BY <1>1, <1>2 DEF RaceAssumption
<1> QED
  BY <1>3, <1>4, <1>5, <1>6 DEF RaceInv, Paid

LEMMA OnActiveKeeps == ASSUME RaceAssumption, RaceInv, OnActive PROVE RaceInv'
<1>1. /\ TypeOK /\ Clocks /\ now \in Nat /\ green \in Nat /\ raced \in Nat /\ Speed \in Nat
      /\ signal \in [color: Colors, effectiveAt: Nat] /\ player \in [Players -> Racer]
  BY DEF RaceInv, TypeOK, RaceAssumption, Racer
<1>2. /\ Fresh \in Racer /\ Fresh.progress = 0 /\ ~Fresh.holding
  BY DEF Fresh, Racer, LifeStates, Instants, None, RaceAssumption
<1>3. ~RaceOn
  BY DEF OnActive, RaceInv, HoldsFresh, RaceOn
<1>4. \A p \in Players : ~player[p].holding /\ player[p].progress <= Speed * green
  BY <1>3, TickedFacts DEF RaceInv, HoldsFresh
<1>5. /\ player' \in [Players -> Racer]
      /\ \A p \in Players : ~player'[p].holding /\ player'[p].progress <= Speed * green
  <2>1. 0 <= Speed * green
    BY <1>1, TimesNat
  <2>2. CASE running
    BY <1>1, <1>4, <2>2 DEF OnActive, KeepsEngine
  <2>3. CASE ~running
    BY <1>2, <2>1, <2>3 DEF OnActive, KeepsEngine
  <2> QED BY <2>2, <2>3
<1>6. /\ signal' \in [color: Colors, effectiveAt: Nat] /\ signal'.color = "RED"
      /\ signal'.effectiveAt <= now
  <2>1. (signal' = signal /\ signal.color = "RED") \/ signal' = [color |-> "RED", effectiveAt |-> now]
    BY DEF OnActive, SetSignal
  <2> QED BY <1>1, <2>1 DEF Colors, Clocks
<1>7. lastTick' = now /\ activeMs' = raced /\ activeMs' \in Nat
  <2>1. CASE running
    <3>1. enginePaused /\ activeMs + 0 = raced /\ activeMs \in Nat
      BY <1>3, <2>1 DEF RaceInv, ActiveTimeExact, TypeOK, RaceOn
    <3> QED BY <1>1, <2>1, <3>1 DEF OnActive, KeepsEngine, TickAfterPause
  <2>2. CASE ~running
    BY <1>1, <2>2 DEF OnActive, KeepsEngine, RaceInv, Written
  <2> QED BY <2>1, <2>2
<1>8. TypeOK'
  BY <1>1, <1>5, <1>6, <1>7 DEF OnActive, TypeOK, Racer
<1>9. Clocks' /\ HoldsFresh' /\ ActiveTimeExact'
  <2>1. now' = now /\ raced' = raced /\ resumed' = now /\ ~paused' /\ stage' = "RoundActive" /\ enginePaused' = FALSE
    BY DEF OnActive
  <2>2. now' - lastTick' = 0 /\ activeMs' + 0 = raced'
    BY <1>1, <1>7, <2>1
  <2> QED BY <1>1, <1>5, <1>6, <1>7, <2>1, <2>2 DEF Clocks, HoldsFresh, ActiveTimeExact
<1>10. Written'
  BY DEF OnActive, KeepsEngine, RaceInv, Written
<1>11. Paid'
  <2>1. Unticked' = 0 /\ green' = green /\ green - 0 = green
    BY <1>1, <1>6 DEF Unticked, OnActive
  <2> QED BY <1>1, <1>5, <2>1 DEF Paid
<1> QED
  BY <1>8, <1>9, <1>10, <1>11 DEF RaceInv

LEMMA TickKeeps == ASSUME RaceAssumption, RaceInv, Tick PROVE RaceInv'
<1>1. lastTick' \in Nat /\ activeMs' \in Nat /\ Clocks' /\ ActiveTimeExact' /\ Paid'
  BY TickStep DEF Tick, history
<1>2. player' \in [Players -> Racer]
  BY TickedFacts DEF Tick
<1>3. (closeAsked \/ NoRacerCanContinue) \in BOOLEAN
  OBVIOUS
<1>4. closeAsked' \in BOOLEAN
  BY <1>3 DEF Tick
<1>5. TypeOK'
  BY <1>1, <1>2, <1>4 DEF Tick, RaceInv, TypeOK, Racer, history
<1>6. Written'
  BY TickedFacts DEF Tick, RaceInv, Written, TypeOK, history
<1>7. HoldsFresh'
  BY TickedFacts DEF Tick, RaceInv, HoldsFresh, RaceOn, history
<1> QED
  BY <1>1, <1>5, <1>6, <1>7 DEF RaceInv

LEMMA InputKeeps ==
  ASSUME RaceAssumption, RaceInv, NEW p \in Players, NEW holding \in BOOLEAN, Input(p, holding)
  PROVE  RaceInv'
<1> DEFINE mine == IF holding THEN Pressed(Ticked[p]) ELSE Released(Ticked[p])
<1>1. /\ TypeOK /\ RaceOn /\ Ticked \in [Players -> Racer] /\ player'= [Ticked EXCEPT ![p] = mine]
  BY TickedFacts DEF Input, RaceInv, RaceOn
<1>2. mine \in Racer /\ mine.progress = Ticked[p].progress
      /\ (mine.holding => mine.lastHeartbeat = now)
      /\ (player[p].state # "alive" => mine.state = player[p].state)
  <2>1. Ticked[p] \in Racer
    BY <1>1
  <2> QED BY <1>1, <2>1, PressedFacts, TickedFacts
<1> HIDE DEF mine
<1>3. player' \in [Players -> Racer] /\ \A q \in Players : player'[q].progress = Ticked[q].progress
  BY <1>1, <1>2
<1>4. lastTick' \in Nat /\ activeMs' \in Nat /\ Clocks' /\ ActiveTimeExact' /\ Paid'
  BY <1>3, TickStep DEF Input, history
<1>6. TypeOK'
  BY <1>1, <1>3, <1>4 DEF Input, TypeOK, Racer, history
<1>7. Written'
  BY <1>1, <1>2, TickedFacts DEF Input, RaceInv, Written, TypeOK, history
<1>8. HoldsFresh'
  <2>1. resumed <= now
    BY DEF RaceInv, Clocks
  <2>2. resumed' = resumed /\ RaceOn' = RaceOn
        /\ \A q \in Players : q # p => player'[q] = Ticked[q]
    BY <1>1 DEF Input, history, RaceOn
  <2>3. \A q \in Players : player'[q].holding => player'[q].lastHeartbeat >= resumed
    BY <1>1, <1>2, <2>1, <2>2, TickedFacts DEF RaceInv, HoldsFresh, TypeOK
  <2> QED BY <1>1, <2>2, <2>3 DEF Input, RaceInv, HoldsFresh, history
<1> QED
  BY <1>4, <1>6, <1>7, <1>8 DEF RaceInv

LEMMA ApplySignalKeeps ==
  ASSUME RaceAssumption, RaceInv, NEW color \in Colors, ApplySignal(color)
  PROVE  RaceInv'
<1>1. /\ TypeOK /\ Clocks /\ now \in Nat /\ green \in Nat /\ lastTick \in Nat /\ lastTick <= now
      /\ signal \in [color: Colors, effectiveAt: Nat] /\ player \in [Players -> Racer]
  BY DEF RaceInv, TypeOK, Clocks, Racer
<1>2. signal' = signal \/ signal' = [color |-> color, effectiveAt |-> now]
  BY DEF ApplySignal, SetSignal
<1>3. TypeOK' /\ Clocks'
  BY <1>1, <1>2 DEF ApplySignal, engine, control, history, TypeOK, Clocks
<1>4. Written' /\ HoldsFresh' /\ ActiveTimeExact'
  BY DEF ApplySignal, engine, control, history, RaceInv, Written, HoldsFresh, ActiveTimeExact, RaceOn
<1>5. Paid'
  <2>1. CASE signal' = signal
    BY <2>1 DEF ApplySignal, engine, control, history, RaceInv, Paid, Unticked, RaceOn
  <2>2. CASE signal' = [color |-> color, effectiveAt |-> now]
    <3>1. Unticked' = 0
      BY <1>1, <2>2 DEF Unticked, Greatest, ApplySignal
    <3>2. green' = green /\ player' = player
      BY DEF ApplySignal, engine, history
    <3>3. \A p \in Players : player[p].progress <= Speed * green
      <4> TAKE p \in Players
      <4>1. player[p].progress <= Speed * (green - Unticked)
        BY DEF RaceInv, Paid
      <4>2. Unticked \in Nat /\ Unticked <= green /\ Speed \in Nat /\ player[p].progress \in Nat
        BY <1>1 DEF Unticked, Greatest, Clocks, RaceInv, Paid, RaceAssumption, Racer
      <4>3. Speed * (green - Unticked) <= Speed * green
            /\ Speed * (green - Unticked) \in Nat /\ Speed * green \in Nat
        BY <1>1, <4>2, TimesMonotone, TimesNat
      <4> QED BY <4>1, <4>2, <4>3
    <3> QED BY <1>1, <3>1, <3>2, <3>3 DEF Paid
  <2> QED BY <1>2, <2>1, <2>2
<1> QED
  BY <1>3, <1>4, <1>5 DEF RaceInv

LEMMA PauseKeeps == ASSUME RaceAssumption, RaceInv, Pause PROVE RaceInv'
<1>1. TypeOK /\ Clocks /\ player \in [Players -> Racer] /\ enginePaused \in BOOLEAN
  BY DEF RaceInv, TypeOK, Racer
<1>2. CASE running
  <2>1. Ticked \in [Players -> Racer] /\ enginePaused => Ticked = player
    BY TickedFacts DEF Ticked, TickDue
  <2>2. /\ player' \in [Players -> Racer]
        /\ \A p \in Players : /\ player'[p].progress = Ticked[p].progress
                              /\ ~player'[p].holding
                              /\ player[p].state # "alive" => player'[p].state = player[p].state
    <3>1. player' = [p \in Players |-> [Ticked[p] EXCEPT !.holding = FALSE, !.holdSince = None]]
      BY <1>1, <1>2, TickedFacts DEF Pause, Frozen, RaceOn
    <3>2. \A p \in Players : Ticked[p] \in Racer
      BY TickedFacts
    <3>3. \A p \in Players :
            LET q == [Ticked[p] EXCEPT !.holding = FALSE, !.holdSince = None] IN
              q \in Racer /\ q.progress = Ticked[p].progress /\ ~q.holding /\ q.state = Ticked[p].state
      BY <3>2 DEF Racer, Instants, None
    <3> QED BY <3>1, <3>3, TickedFacts
  <2>3. enginePaused' = TRUE /\ TickClock
    BY <1>2 DEF Pause
  <2>4. lastTick' \in Nat /\ activeMs' \in Nat /\ Clocks' /\ ActiveTimeExact' /\ Paid'
    BY <2>2, <2>3, TickStep DEF Pause
  <2>5. TypeOK'
    <3>1. /\ now' = now /\ stage' = stage /\ running' = running /\ signal' = signal
          /\ closeAsked' = closeAsked /\ toWrite' = toWrite /\ outcome' = outcome
          /\ raced' = raced /\ green' = green /\ resumed' = resumed
          /\ pauses' = pauses + 1 /\ paused' \in BOOLEAN /\ ticking' \in BOOLEAN
      BY DEF Pause
    <3>2. enginePaused' \in BOOLEAN /\ pauses' \in Nat
      BY <1>1, <2>3, <3>1 DEF TypeOK
    <3> QED BY <1>1, <2>2, <2>4, <3>1, <3>2 DEF TypeOK, Racer
  <2>6. Written' /\ HoldsFresh'
    BY <1>2, <2>2, <2>3 DEF Pause, RaceInv, Written, HoldsFresh, TypeOK
  <2> QED BY <2>4, <2>5, <2>6 DEF RaceInv
<1>3. CASE ~running
  <2>1. Clocks' /\ Written' /\ ActiveTimeExact'
    BY <1>3 DEF Pause, RaceInv, Clocks, Written, ActiveTimeExact
  <2>3. HoldsFresh'
    BY <1>3 DEF Pause, RaceInv, HoldsFresh, RaceOn
  <2>4. TypeOK'
    <3>1. /\ now' = now /\ stage' = stage /\ running' = running /\ signal' = signal
          /\ closeAsked' = closeAsked /\ toWrite' = toWrite /\ outcome' = outcome
          /\ raced' = raced /\ green' = green /\ resumed' = resumed
          /\ pauses' = pauses + 1 /\ paused' \in BOOLEAN /\ ticking' \in BOOLEAN
          /\ UNCHANGED <<player, lastTick, activeMs, enginePaused>>
      BY <1>3 DEF Pause
    <3>2. pauses' \in Nat
      BY <1>1, <3>1 DEF TypeOK
    <3> QED BY <1>1, <3>1, <3>2 DEF TypeOK
  <2>2. Paid'
    BY <1>3 DEF Pause, RaceInv, Paid, Unticked, RaceOn
  <2> QED BY <2>1, <2>2, <2>3, <2>4 DEF RaceInv
<1> QED
  BY <1>2, <1>3

LEMMA ResumeKeeps == ASSUME RaceAssumption, RaceInv, Resume PROVE RaceInv'
<1> USE DEF Resume, engine, control, history
<1>1. TypeOK' /\ Clocks'
  BY DEF RaceInv, TypeOK, Clocks
<1>2. Written' /\ HoldsFresh' /\ ActiveTimeExact'
  BY DEF RaceInv, Written, HoldsFresh, ActiveTimeExact, RaceOn
<1>3. Paid'
  BY DEF RaceInv, Paid, Unticked, RaceOn
<1> QED
  BY <1>1, <1>2, <1>3 DEF RaceInv

LEMMA BeginCloseKeeps ==
  ASSUME RaceAssumption, RaceInv, BeginClose, closeAsked' \in BOOLEAN PROVE RaceInv'
<1>1. lastTick' \in Nat /\ activeMs' \in Nat /\ Clocks' /\ ActiveTimeExact' /\ Paid'
  BY TickStep DEF BeginClose, history
<1>2. player' \in [Players -> Racer]
  BY TickedFacts DEF BeginClose
<1>3. TypeOK'
  BY <1>1, <1>2 DEF BeginClose, RaceInv, TypeOK, Racer, history
<1>4. Written'
  BY TickedFacts DEF BeginClose, RaceInv, Written, TypeOK, history
<1>5. HoldsFresh'
  BY TickedFacts DEF BeginClose, RaceInv, HoldsFresh, RaceOn, history
<1> QED
  BY <1>1, <1>3, <1>4, <1>5 DEF RaceInv

LEMMA DropCloseKeeps == ASSUME RaceAssumption, RaceInv, DropClose PROVE RaceInv'
<1> USE DEF DropClose, engine, history
<1>1. TypeOK' /\ Clocks'
  BY DEF RaceInv, TypeOK, Clocks
<1>2. Written' /\ HoldsFresh' /\ ActiveTimeExact'
  BY DEF RaceInv, Written, HoldsFresh, ActiveTimeExact, RaceOn
<1>3. Paid'
  BY DEF RaceInv, Paid, Unticked, RaceOn
<1> QED
  BY <1>1, <1>2, <1>3 DEF RaceInv

LEMMA WriteOutcomeKeeps == ASSUME RaceAssumption, RaceInv, WriteOutcome PROVE RaceInv'
<1>1. PICK p \in toWrite :
        /\ outcome' = [outcome EXCEPT ![p] = player[p].state]
        /\ toWrite' = toWrite \ {p}
        /\ IF toWrite = {p} THEN stage' = "InputLocked" /\ ticking' = FALSE ELSE UNCHANGED <<stage, ticking>>
        /\ UNCHANGED <<now, paused, running, engine, closeAsked, history>>
  BY DEF WriteOutcome
<1> USE DEF engine, history
<1>2. p \in Players /\ player[p].state \in LifeStates
  BY <1>1 DEF RaceInv, TypeOK
<1>3. TypeOK' /\ Clocks'
  BY <1>1, <1>2 DEF RaceInv, TypeOK, Clocks
<1>4. Written'
  BY <1>1, <1>2 DEF RaceInv, Written, TypeOK
<1>5. HoldsFresh' /\ ActiveTimeExact'
  BY <1>1 DEF RaceInv, HoldsFresh, ActiveTimeExact, RaceOn
<1>6. Paid'
  BY <1>1 DEF RaceInv, Paid, Unticked, RaceOn
<1> QED
  BY <1>3, <1>4, <1>5, <1>6 DEF RaceInv

LEMMA TimeKeeps == ASSUME RaceAssumption, RaceInv, Time PROVE RaceInv'
<1> USE DEF Time, engine, control
<1>1. /\ now \in Nat /\ lastTick \in Nat /\ signal.effectiveAt \in Nat /\ green \in Nat
      /\ raced \in Nat /\ resumed \in Nat /\ now' = now + 1
      /\ lastTick <= now /\ signal.effectiveAt <= now /\ resumed <= now
  BY DEF RaceInv, TypeOK, Clocks
<1>2. TypeOK' /\ Clocks'
  BY <1>1 DEF RaceInv, TypeOK, Clocks
<1>3. Written' /\ HoldsFresh'
  BY DEF RaceInv, Written, HoldsFresh, RaceOn
<1>4. ActiveTimeExact'
  <2>1. activeMs \in Nat /\ enginePaused \in BOOLEAN
    BY DEF RaceInv, TypeOK
  <2>2. CASE running /\ ~enginePaused
    <3>1. activeMs + (now - lastTick) = raced /\ raced' = raced + 1
      BY <2>2 DEF RaceInv, ActiveTimeExact, RaceOn
    <3>2. activeMs + (now' - lastTick) = raced'
      BY <1>1, <2>1, <3>1
    <3> QED BY <2>2, <3>2 DEF ActiveTimeExact
  <2>3. CASE ~(running /\ ~enginePaused)
    BY <2>1, <2>3 DEF RaceInv, ActiveTimeExact, RaceOn
  <2> QED BY <2>2, <2>3
<1>5. Paid'
  <2>1. CASE RaceOn /\ signal.color = "GREEN"
    <3>1. /\ Unticked = now - Greatest(signal.effectiveAt, lastTick)
          /\ Unticked' = (now + 1) - Greatest(signal.effectiveAt, lastTick)
          /\ green' = green + 1 /\ player' = player
      BY <2>1 DEF Unticked, RaceOn, Greatest
    <3>2. Greatest(signal.effectiveAt, lastTick) \in Nat
      BY <1>1 DEF Greatest
    <3>3. green' - Unticked' = green - Unticked /\ (Unticked <= green => Unticked' <= green')
      BY <1>1, <3>1, <3>2
    <3> QED BY <3>1, <3>3 DEF RaceInv, Paid
  <2>2. CASE ~(RaceOn /\ signal.color = "GREEN")
    BY <2>2 DEF RaceInv, Paid, Unticked, RaceOn
  <2> QED BY <2>1, <2>2
<1> QED
  BY <1>2, <1>3, <1>4, <1>5 DEF RaceInv

LEMMA RaceNext == ASSUME RaceAssumption, RaceInv, [Next]_vars PROVE RaceInv'
<1>1. CASE OnActive
  BY <1>1, OnActiveKeeps
<1>2. CASE Tick
  BY <1>2, TickKeeps
<1>3. CASE Pause
  BY <1>3, PauseKeeps
<1>4. CASE Resume
  BY <1>4, ResumeKeeps
<1>5. CASE \E p \in Players, holding \in BOOLEAN : Input(p, holding)
  BY <1>5, InputKeeps
<1>6. CASE \E color \in Colors : ApplySignal(color)
  BY <1>6, ApplySignalKeeps
<1>7. CASE CloseAtDeadline \/ CloseWhenAsked
  <2>1. BeginClose /\ closeAsked' \in BOOLEAN
    BY <1>7 DEF CloseAtDeadline, CloseWhenAsked, RaceInv, TypeOK
  <2> QED BY <2>1, BeginCloseKeeps
<1>8. CASE DropClose
  BY <1>8, DropCloseKeeps
<1>9. CASE WriteOutcome
  BY <1>9, WriteOutcomeKeeps
<1>10. CASE Time
  BY <1>10, TimeKeeps
<1>11. CASE UNCHANGED vars
  <2> USE <1>11 DEF vars, engine, control, history
  <2>1. TypeOK' /\ Clocks'
    BY DEF RaceInv, TypeOK, Clocks
  <2>2. Written' /\ HoldsFresh' /\ ActiveTimeExact'
    BY DEF RaceInv, Written, HoldsFresh, ActiveTimeExact, RaceOn
  <2>3. Paid'
    BY DEF RaceInv, Paid, Unticked, RaceOn
  <2> QED BY <2>1, <2>2, <2>3 DEF RaceInv
<1> QED
  BY <1>1, <1>2, <1>3, <1>4, <1>5, <1>6, <1>7, <1>8, <1>9, <1>10, <1>11 DEF Next

------------------------------------------------------------------------------
\* The facts above hold in every reachable state.
THEOREM RaceInvariant == ASSUME RaceAssumption PROVE Spec => []RaceInv
<1>1. Init => RaceInv
  BY RaceInit
<1>2. RaceInv /\ [Next]_vars => RaceInv'
  BY RaceNext
<1> QED
  BY <1>1, <1>2, PTL DEF Spec

\* Nobody is further than the time the light was green allows: red time, pauses
\* and the gaps between ticks give no distance (RaceEngine.tick).
THEOREM GreenOnlyThm == ASSUME RaceAssumption PROVE Spec => []GreenOnly
<1>1. RaceInv => GreenOnly
  <2> SUFFICES ASSUME RaceInv, NEW p \in Players PROVE player[p].progress <= Speed * green
    BY DEF GreenOnly
  <2>1. /\ Unticked \in Nat /\ Unticked <= green /\ green \in Nat /\ Speed \in Nat
        /\ player[p].progress \in Nat /\ player[p].progress <= Speed * (green - Unticked)
    BY DEF RaceInv, TypeOK, Clocks, Paid, Unticked, Greatest, RaceAssumption
  <2>2. Speed * (green - Unticked) <= Speed * green
        /\ Speed * (green - Unticked) \in Nat /\ Speed * green \in Nat
    BY <2>1, TimesMonotone, TimesNat
  <2> QED BY <2>1, <2>2
<1> QED
  BY <1>1, RaceInvariant, PTL

\* The engine's clock, from which finishers get their speed points, is the time
\* the race was on (RaceEngine.activeMs).
THEOREM ActiveTimeExactThm == ASSUME RaceAssumption PROVE Spec => []ActiveTimeExact
<1>1. RaceInv => ActiveTimeExact
  BY DEF RaceInv
<1> QED
  BY <1>1, RaceInvariant, PTL

\* How one step treats one player: what the theorems below are read off from.
LEMMA StepFacts ==
  ASSUME RaceAssumption, RaceInv, [Next]_vars, NEW p \in Players
  PROVE  /\ running /\ player[p].state # "alive" => player'[p].state = player[p].state
         /\ Dies(p) => /\ signal.color = "RED" /\ ~InTolerance
                       /\ player'[p].lastHeartbeat >= resumed
<1> DEFINE Kept == player'[p].state = player[p].state
           Ticks == /\ player'[p].state = Ticked[p].state
                    /\ player'[p].lastHeartbeat = Ticked[p].lastHeartbeat
           Goal == /\ running /\ player[p].state # "alive" => player'[p].state = player[p].state
                   /\ Dies(p) => /\ signal.color = "RED" /\ ~InTolerance
                                 /\ player'[p].lastHeartbeat >= resumed
<1>1. /\ TypeOK /\ Ticked \in [Players -> Racer] /\ signal.color \in {"RED", "GREEN"}
      /\ player \in [Players -> Racer]
  BY TickedFacts DEF RaceInv, TypeOK, Colors, Racer
<1>2. ASSUME Kept PROVE Goal
  BY <1>2 DEF Dies
<1>3. ASSUME Ticks PROVE Goal
  <2>1. player[p].holding => player[p].lastHeartbeat >= resumed
    BY DEF RaceInv, HoldsFresh
  <2> QED BY <1>1, <1>3, <2>1, TickedFacts DEF Dies
<1>4. CASE OnActive
  <2>1. CASE running
    BY <1>2, <1>4, <2>1 DEF OnActive, KeepsEngine
  <2>2. CASE ~running
    <3>1. player'[p].state = "alive"
      BY <1>4, <2>2 DEF OnActive, KeepsEngine, Fresh
    <3> QED BY <2>2, <3>1 DEF Dies
  <2> QED BY <2>1, <2>2
<1>5. CASE Tick
  BY <1>3, <1>5 DEF Tick
<1>6. CASE BeginClose
  BY <1>3, <1>6 DEF BeginClose
<1>7. CASE Pause
  <2>1. CASE running
    <3>1. player' = [r \in Players |-> [Ticked[r] EXCEPT !.holding = FALSE, !.holdSince = None]]
      BY <1>7, <2>1, TickedFacts DEF Pause, Frozen, RaceOn
    <3>2. Ticked[p] \in Racer
      BY <1>1
    <3>3. LET q == [Ticked[p] EXCEPT !.holding = FALSE, !.holdSince = None] IN
            q.state = Ticked[p].state /\ q.lastHeartbeat = Ticked[p].lastHeartbeat
      BY <3>2 DEF Racer
    <3>4. Ticks
      BY <3>1, <3>3
    <3> QED BY <1>3, <3>4
  <2>2. CASE ~running
    BY <1>2, <1>7, <2>2 DEF Pause
  <2> QED BY <2>1, <2>2
<1>8. ASSUME NEW q \in Players, NEW holding \in BOOLEAN, Input(q, holding) PROVE Goal
  <2>1. player' = [Ticked EXCEPT ![q] = IF holding THEN Pressed(@) ELSE Released(@)]
    BY <1>8 DEF Input
  <2>2. CASE p # q
    BY <1>1, <1>3, <2>1, <2>2
  <2>3. CASE p = q /\ ~holding
    <3>1. player'[p].state = Ticked[p].state /\ player[p].state = "alive"
      BY <1>1, <1>8, <2>1, <2>3, PressedFacts DEF Input
    <3>2. Dies(p) => player[p].holding /\ signal.color = "RED" /\ ~InTolerance
      BY <1>1, <3>1, TickedFacts DEF Dies
    <3>3. player'[p].lastHeartbeat = now
      BY <1>1, <2>1, <2>3 DEF Released, Racer
    <3>4. now >= resumed
      BY <1>1 DEF RaceInv, Clocks, TypeOK
    <3> QED BY <3>1, <3>2, <3>3, <3>4
  <2>4. CASE p = q /\ holding
    <3>1. /\ Ticked[p] \in Racer /\ player'[p] = Pressed(Ticked[p]) /\ player[p].state = "alive"
      BY <1>1, <1>8, <2>1, <2>4 DEF Input
    <3>2. player'[p].lastHeartbeat = now /\ now >= resumed
      BY <1>1, <3>1, PressedFacts DEF RaceInv, Clocks, TypeOK
    <3>3. CASE Ticked[p].state = "alive"
      <4>1. Dies(p) => signal.color = "RED" /\ ~InTolerance
        BY <1>1, <3>1, <3>3, PressedFacts DEF Dies
      <4> QED BY <3>1, <3>2, <4>1
    <3>4. CASE Ticked[p].state # "alive"
      <4>1. player'[p].state = Ticked[p].state
        BY <1>1, <3>1, <3>4, PressedFacts
      <4>2. Dies(p) => signal.color = "RED" /\ ~InTolerance
        BY <1>1, <4>1, TickedFacts DEF Dies
      <4> QED BY <3>1, <3>2, <4>2
    <3> QED BY <3>3, <3>4
  <2> QED BY <2>2, <2>3, <2>4
<1>9. CASE \/ Resume \/ DropClose \/ WriteOutcome \/ Time \/ UNCHANGED vars
           \/ \E color \in Colors : ApplySignal(color)
  <2>1. player' = player
    BY <1>9 DEF Resume, DropClose, WriteOutcome, Time, vars, ApplySignal, engine
  <2> QED BY <1>2, <2>1
<1> QED
  BY <1>4, <1>5, <1>6, <1>7, <1>8, <1>9 DEF Next, CloseAtDeadline, CloseWhenAsked

\* Nobody is eliminated before the tolerance of the red light is over, by the
\* interval, by an input's tick or by the tick of a pause or a close.
THEOREM ToleranceThm == ASSUME RaceAssumption PROVE Spec => ToleranceRespected
<1>1. RaceInv /\ [Next]_vars =>
        [\A p \in Players : Dies(p) => signal.color = "RED" /\ ~InTolerance]_vars
  BY StepFacts
<1> QED
  BY <1>1, RaceInvariant, PTL DEF Spec, ToleranceRespected

\* No press from before a pause eliminates anybody after it (setPaused).
THEOREM NoStaleKillThm == ASSUME RaceAssumption PROVE Spec => NoStaleKill
<1>1. RaceInv /\ [Next]_vars =>
        [\A p \in Players : Dies(p) => player'[p].lastHeartbeat >= resumed]_vars
  BY StepFacts
<1> QED
  BY <1>1, RaceInvariant, PTL DEF Spec, NoStaleKill

\* A fate is decided once, and the stored outcome is the decided one, though
\* outcomes are written one by one while inputs still arrive (onClose).
THEOREM FatesFinalThm == ASSUME RaceAssumption PROVE Spec => FatesFinal
<1> DEFINE Final == \A p \in Players :
              /\ running /\ player[p].state # "alive" => player'[p].state = player[p].state
              /\ outcome[p] \in {"finished", "eliminated"} => player[p].state = outcome[p]
<1>1. RaceInv /\ [Next]_vars => [Final]_vars
  BY StepFacts DEF RaceInv, Written
<1> QED
  BY <1>1, RaceInvariant, PTL DEF Spec, FatesFinal
==============================================================================
