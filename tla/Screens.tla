------------------------------ MODULE Screens ------------------------------
(***************************************************************************)
(* What everybody is shown of one room.  The desk, its preview of the big  *)
(* screen, the display and each phone derive by themselves, from the same  *)
(* snapshot, what to say, what to offer and what to announce as next.      *)
(*                                                                         *)
(* "r" is a room of Desk and "p" what a phone has of its player.  Texts    *)
(* are the words they come to; layout, languages and effects are left out. *)
(***************************************************************************)
EXTENDS Desk, Sequences

When(condition, S) == IF condition THEN S ELSE {}

------------------------------------------------------------------------------
\* The snapshot, and what a phone knows besides.

GAME_ORDER == <<"RLGL", "GEO", "ORDER">>
\* The page and the server know three games; a session has no other.
ASSUME GamesAssumption == GameCount <= Len(GAME_ORDER)
gameType(r) == GAME_ORDER[r.game + 1]
roundPublic(r) ==
  IF r.attempt = 0 THEN "none"
  ELSE IF r.tie THEN "ORDER"
  ELSE gameType(r)
Revealed(r) == r.attempt # 0 /\ (r.stage = "Reveal" \/ (r.tie /\ r.stage = "TournamentResults"))

\* countdownEndsAt and deadlineAt are null while the room is paused.
Ending(r, which) == IF r.paused THEN "none" ELSE which

\* A fate other than alive is one of this attempt, after its first countdown.
Personal(r) ==
  [life : IF roundPublic(r) # "RLGL" THEN {"unknown"}
          ELSE {"unknown", "alive"} \cup
               When(r.stage \in LiveStages \cup {"InputLocked", "Reveal"}, {"finished", "eliminated"}),
   locked : IF roundPublic(r) \in {"GEO", "ORDER"} THEN BOOLEAN ELSE {FALSE},
   pin : BOOLEAN, conn : BOOLEAN, holding : BOOLEAN, color : {"GREEN", "RED"}]

------------------------------------------------------------------------------
\* The phone during a round.

\* race-state-panel: a known outcome outranks the connection, that the pause,
\* that the stage, that the signal.
effectiveState(r, p) ==
  IF p.life \in {"eliminated", "finished"} THEN p.life
  ELSE IF ~p.conn THEN "reconnecting"
  ELSE IF r.paused THEN "paused"
  ELSE IF r.stage = "Countdown" THEN "countdown"
  ELSE IF r.stage \in {"InputLocked", "Reveal"} THEN "timeEnded"
  ELSE IF r.stage = "RoundActive" /\ p.life = "alive" /\ p.color = "GREEN" THEN
    (IF p.holding THEN "greenHolding" ELSE "green")
  ELSE IF r.stage = "RoundActive" /\ p.life = "alive" THEN (IF p.holding THEN "redHolding" ELSE "red")
  ELSE IF r.stage = "RoundActive" THEN "ready"
  ELSE "instructions"

\* Its colour, with which its word and its icon go.
tone(state) ==
  CASE state \in {"green", "greenHolding"} -> "green"
    [] state \in {"red", "redHolding", "eliminated"} -> "red"
    [] state = "finished" -> "good"
    [] state \in {"timeEnded", "paused", "reconnecting", "countdown"} -> "dark"
    [] OTHER -> "neutral"

\* race-chip, always in the header
chip(r, p) ==
  LET race == gameType(r) = "RLGL" IN
  IF r.paused THEN "paused"
  ELSE IF race /\ p.life = "eliminated" THEN "out"
  ELSE IF race /\ p.life = "finished" THEN "finished"
  ELSE IF race /\ Live(r) /\ p.life = "alive" THEN "alive"
  ELSE IF race \/ ~Live(r) THEN "waiting"
  ELSE IF p.locked THEN "locked"
  ELSE "playing"

\* padVisible without the help, which takes the place of the game
PadThere(r, p) == r.stage = "RoundActive" /\ ~r.paused /\ p.conn /\ p.life = "alive"

\* The RLGL arena: one panel, which an elimination takes over until the reveal;
\* the card says at once what it knows of the outcome.
raceArena(r, p) ==
  {IF p.life = "eliminated" /\ ~Revealed(r) THEN "eliminationPanel" ELSE effectiveState(r, p)}
    \cup When(~Revealed(r), {"track"})
    \cup When(PadThere(r, p), {"pad"})
    \cup When(Revealed(r) \/ p.life \in {"eliminated", "finished"}, {"resultCard"})

\* The GEO arena; the globe turns in any case, but takes a pin only here.
geoArena(r, p) ==
  When(r.stage = "RoundActive" /\ ~r.paused /\ ~p.locked, {"placePin"})
    \cup (IF Revealed(r) THEN {"resultCard"}
          ELSE IF p.locked THEN {"lockedNote"}
          ELSE When(p.pin /\ r.stage = "RoundActive" /\ ~r.paused, {"lock"}))

orderArena(r, p) ==
  When(~(p.locked \/ r.stage # "RoundActive" \/ r.paused), {"moveCards"})
    \cup (IF Revealed(r) THEN {"resultCard"}
          ELSE IF p.locked THEN {"lockedNote"}
          ELSE When(r.stage = "RoundActive" /\ ~r.paused, {"lock"}))

Arena(r, p) ==
  CASE roundPublic(r) = "RLGL" -> raceArena(r, p)
    [] roundPublic(r) = "GEO" -> geoArena(r, p)
    [] roundPublic(r) = "ORDER" -> orderArena(r, p)
    [] OTHER -> {}

\* pinStatusKey and orderStatusKey
answerStatus(r, p) ==
  IF Revealed(r) THEN "revealed"
  ELSE IF r.stage = "InputLocked" /\ p.locked THEN "waiting"
  ELSE IF r.stage = "InputLocked" THEN (IF p.pin THEN "acceptedTimeout" ELSE "noAnswerTimeout")
  ELSE IF p.locked THEN "locked"
  ELSE IF p.pin THEN "saved" ELSE "none"

------------------------------------------------------------------------------
\* Results.

\* podium: a band for each rank that has been reached, the third place first.
podium(r) == {LastStep - n : n \in {m \in 1..LastStep - 1 : m <= Step(r) /\ m \notin EmptySteps}}
celebrate(r) == 1 \in podium(r)

\* leader-summary: the leader is a block of their own on the first page.
pageRows(r) == IF r.page < PageCount THEN r.page ELSE PageCount - 1
leaderSummary(r) ==
  {<<"rows", pageRows(r)>>} \cup When(r.page = 0, {<<"leader", 0>>})

\* personal-podium: it shows the podium's places and what comes next.
nextGame(r) == IF LastGame(r) THEN "TournamentResults" ELSE GAME_ORDER[r.game + 2]

\* round-result-card, nextText
nextText(r) ==
  IF r.practice THEN <<"startRound", 1>>
  ELSE IF roundNumber(r) >= RoundCount THEN <<"gameResults", 0>>
  ELSE <<"round", roundNumber(r) + 1>>

raceOutcome(r, p) ==
  IF p.life \in {"finished", "eliminated"} THEN p.life
  ELSE IF Revealed(r) /\ roundPublic(r) = "RLGL" THEN "timeout"
  ELSE "none"

\* outcomeKey, the first line of a result
outcomeKey(r, p) ==
  CASE roundPublic(r) = "GEO" -> IF p.pin THEN "distance" ELSE "noPin"
    [] roundPublic(r) = "ORDER" -> "cards"
    [] OTHER -> raceOutcome(r, p)

\* round-result-card: a racer's own outcome as soon as it is known, with nothing of
\* the others; after the reveal the points and what comes next.
resultCard(r, p) ==
  IF Revealed(r) THEN {outcomeKey(r, p), "points", nextText(r)[1]}
  ELSE IF raceOutcome(r, p) # "none" THEN {raceOutcome(r, p), "awaitingReveal"}
  ELSE {}

\* elimination-panel: it is the last race of the game.
isFinalRace(r) == ~r.practice /\ roundNumber(r) >= RoundCount

------------------------------------------------------------------------------
\* What each page says, in a word.

Question(r) == roundPublic(r) # "RLGL"
Signal(p) == IF p.color = "GREEN" THEN "go" ELSE "stop"

\* The phone.  A racer is told their fate, or what to do now.
phoneTells(r, p) ==
  IF r.paused THEN "paused"
  ELSE IF r.stage \in {"Lobby", "Instructions", "Ready", "Countdown"} THEN r.stage
  ELSE IF r.stage = "InputLocked" THEN "closed"
  ELSE IF r.stage = "Reveal" THEN "reveal"
  ELSE IF r.stage = "RoundActive" /\ Question(r) THEN "question"
  ELSE IF r.stage = "RoundActive" THEN
    (LET state == effectiveState(r, p) IN
       CASE tone(state) = "green" -> "go"
         [] state \in {"red", "redHolding"} -> "stop"
         [] OTHER -> state)
  ELSE IF OnResults(r) THEN "results"
  ELSE "ended"

\* The display; of a race that does not run it shows the arena and no signal.
displayTells(r, p) ==
  IF r.paused THEN "paused"
  ELSE IF r.stage \in {"Lobby", "Instructions", "Ready", "Countdown"} THEN r.stage
  ELSE IF OnResults(r) THEN "results"
  ELSE IF r.stage = "Closed" THEN "ended"
  ELSE IF r.stage = "InputLocked" THEN "closed"
  ELSE IF Revealed(r) THEN "reveal"
  ELSE IF Question(r) THEN "question"
  ELSE Signal(p)

DisplayResults(r) == IF Step(r) < LastStep THEN {"place"} \X podium(r) ELSE leaderSummary(r)

\* audience-preview, on the desk
headline(r, p) ==
  IF r.stage \in {"Lobby", "Instructions", "Ready", "Countdown"} THEN r.stage
  ELSE IF r.stage = "RoundActive" THEN (IF Question(r) THEN "question" ELSE Signal(p))
  ELSE IF r.stage = "InputLocked" THEN "closed"
  ELSE IF r.stage = "Reveal" THEN "reveal"
  ELSE IF OnResults(r) THEN "results"
  ELSE "ended"

\* Mutant: the preview goes on with the signal while the room is paused.
previewTellsUnpaused(r, p) == headline(r, p)

previewTells(r, p) == IF r.paused THEN "paused" ELSE headline(r, p)

\* How the display and the phones name the round.
roundLabel(r) == IF r.practice THEN <<"practice", 0>> ELSE <<"round", roundNumber(r)>>

\* The line under the preview, and the stage in the desk's status bar: the stage,
\* the game, and the round where there is one.
previewMeta(r) ==
  {<<r.stage>>, <<gameType(r)>>}
    \cup When(roundPublic(r) # "none" /\ ~r.practice, {<<"round", roundNumber(r)>>})
    \cup When(r.practice, {<<"practice", 0>>})
statusStage(r) ==
  {IF r.paused THEN <<"paused">> ELSE <<r.stage>>, <<gameType(r)>>}
    \cup When(roundPublic(r) # "none" /\ ~r.practice /\ RoundCount > 0, {<<"round", roundNumber(r)>>})
    \cup When(r.practice, {<<"practice", 0>>})

\* primary-action where there is nothing to press
contextText(r) ==
  CASE r.stage = "RoundActive" -> IF gameType(r) = "RLGL" THEN "raceActive" ELSE "roundActive"
    [] r.stage \in {"Countdown", "TournamentResults", "Closed"} -> r.stage
    [] OTHER -> "waiting"

\* It warns of a step with nobody to reveal.
stepNote(r) ==
  /\ primaryActionFor(r) \in {"PODIUM_STEP", "CEREMONY_STEP"}
  /\ nextStepFor(r) \in (1..LastStep - 1) \cap EmptySteps

\* signal-panel, which is there for a race game only and bound to its mode:
\* outside MANUAL it offers nothing.
canSignal(r, mode) ==
  r.stage = "RoundActive" /\ gameType(r) = "RLGL" /\ ~r.paused /\ mode = "MANUAL"
disabledReason(r) ==
  IF gameType(r) # "RLGL" THEN "notRace"
  ELSE IF r.paused THEN "paused"
  ELSE "notActive"

signalPanel(r, p, mode) ==
  IF mode = "AUTO" THEN {"autoNote"}
  ELSE IF canSignal(r, mode) THEN {"RED", "GREEN"} \ {p.color}
  ELSE {disabledReason(r)}

\* progression-strip: activeIndex over the stages of each phase, the third of which
\* is the practice's
PHASES == <<{"Lobby"}, {"Instructions"}, {},
            {"Ready", "InputLocked", "Reveal"} \cup LiveStages,
            {"GameResults", "TournamentResults", "Closed"}>>
strip(r) ==
  IF r.practice /\ ~OnResults(r) THEN 2
  ELSE (CHOOSE i \in DOMAIN PHASES : r.stage \in PHASES[i]) - 1

\* runbook-rail: activeIndex, the number of the game between joining and the end,
\* and detail
rail(r) ==
  IF r.stage = "Lobby" THEN 0
  ELSE IF r.stage \in {"TournamentResults", "Closed"} THEN GameCount + 1
  ELSE r.game + 1
railDetail(r) ==
  IF rail(r) \in {0, GameCount + 1} THEN "none"
  ELSE IF r.stage = "Instructions" THEN "instructions"
  ELSE IF r.practice THEN "practice"
  ELSE IF r.stage = "GameResults" THEN "results"
  ELSE "round"

\* status-bar and the clocks: which end each of them counts to
deskClock(r) ==
  CASE r.stage = "Countdown" -> Ending(r, "countdown")
    [] r.stage = "RoundActive" -> Ending(r, "deadline")
    [] OTHER -> "none"
displayClock(r) ==
  CASE r.stage = "Countdown" -> Ending(r, "countdown")
    [] r.stage = "RoundActive" -> IF r.paused THEN "frozen" ELSE Ending(r, "deadline")
    [] OTHER -> "none"
phoneClock(r) ==
  CASE r.stage = "Countdown" -> Ending(r, "countdown")
    [] r.stage = "RoundActive" -> IF r.paused THEN "frozen" ELSE Ending(r, "deadline")
    [] OTHER -> "none"

------------------------------------------------------------------------------
\* Properties.

\* What is shown depends on the room alone, and every room is met between
\* presses too: it is enough to look then.
Settled == sent = EmptyBag /\ hosts = 1 /\ autoPause = "no"

\* What the server takes of a player.
Taken(r, p) ==
  /\ r.stage = "RoundActive" /\ ~r.paused
  /\ IF roundPublic(r) = "RLGL" THEN p.life = "alive" ELSE ~p.locked

Offered(r, p) == Arena(r, p) \cap {"pad", "placePin", "moveCards", "lock"}

\* In every room, whatever a player's fate and connection: a phone offers
\* something to do exactly when the server takes it; the preview tells the host
\* what the display shows ("the host uses it to confirm the big screen and the
\* phones are showing the expected thing", audience-preview.component.ts:4) and
\* a phone with nothing to say of its player says the same; who sees a chip
\* "alive" or a signal can play, and who is told of an outcome sees it everywhere;
\* the signal panel offers the other colour of the one that is shown; the clocks
\* count to one end, the round has one name, and the desk's progress one place.
SameEverywhere ==
  Settled => LET r == room IN
  /\ \A p \in Personal(r) :
       LET said == phoneTells(r, p)
           shown == displayTells(r, p)
       IN
       /\ p.conn /\ roundPublic(r) # "none" =>
            /\ Taken(r, p) <=> Offered(r, p) # {}
            /\ said \in {"go", "stop"} <=> "pad" \in Arena(r, p)
            /\ chip(r, p) = "alive" /\ r.stage = "RoundActive" => "pad" \in Arena(r, p)
       /\ previewTells(r, p) = shown
       /\ said \in {shown, "eliminated", "finished", "reconnecting", "ready"}
       /\ resultCard(r, p) # {} <=> "resultCard" \in Arena(r, p)
       /\ ~r.paused /\ ~r.tie => ("eliminated" \in resultCard(r, p) <=> chip(r, p) = "out")
       /\ said = "reveal" => "awaitingReveal" \notin resultCard(r, p)
       /\ ~r.tie =>
            /\ shown = "go" <=> signalPanel(r, p, "MANUAL") = {"RED"}
            /\ shown = "stop" <=> signalPanel(r, p, "MANUAL") = {"GREEN"}
            /\ ~r.paused => (contextText(r) = "raceActive" <=> shown \in {"go", "stop"})
       /\ "paused" \in signalPanel(r, p, "MANUAL") => shown = "paused"
       /\ answerStatus(r, p) \in {"acceptedTimeout", "noAnswerTimeout"} => Offered(r, p) = {}
  /\ displayClock(r) = phoneClock(r)
  /\ deskClock(r) = displayClock(r) \/ r.paused
  /\ showPager(r) <=> OnResults(r) /\ <<"rows", r.page>> \in DisplayResults(r)
  /\ r.stage \in PHASES[4] =>
       roundLabel(r) \in previewMeta(r) /\ roundLabel(r) \in statusStage(r)
  /\ strip(r) = 0 <=> rail(r) = 0
  /\ strip(r) = 2 /\ r.stage # "Closed" => railDetail(r) \in {"practice", "instructions"}

\* What the players are told comes next is what the desk's one button brings, by
\* way of the server's own counting of rounds, games and steps.
NextAsTold ==
  LET r == room
      press == PrimaryPress(r)
      then == Dispatched(r, press)
  IN Settled /\ primaryActionFor(r) # "NONE" /\ Accepted(r, press.action) =>
     /\ Revealed(r) /\ r.stage = "Reveal" =>
          CASE nextText(r)[1] = "gameResults" -> then.stage = "GameResults" /\ (isFinalRace(r) \/ r.tie)
            [] OTHER -> then.stage = "Ready" /\ ~then.practice /\ roundNumber(then) = nextText(r)[2]
     /\ press.action \in {"NEXT_GAME", "SHOW_FINAL_RESULTS"} =>
          nextGame(r) = IF then.stage = "TournamentResults" THEN then.stage ELSE gameType(then)
     /\ press.action \in {"PODIUM_STEP", "CEREMONY_STEP"} =>
          /\ stepNote(r) <=> podium(then) = podium(r) /\ Step(then) < LastStep
          /\ celebrate(then) => celebrate(r) \/ ~stepNote(r)

\* All of it: what the pages, each from its own copy of the rules, make of the room
\* is one thing, now and about the next step (audience-preview.component.ts:4).
PagesAgree == SameEverywhere /\ NextAsTold
=============================================================================
