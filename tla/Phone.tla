------------------------------- MODULE Phone -------------------------------
(***************************************************************************)
(* A phone in one round: the answer that is saved behind the player's back *)
(* while it is being made, and the pad of the race.                        *)
(*                                                                         *)
(* A tap shows at once and is sent when the player has been still for 200  *)
(* ms (250 ms with cards); the server's reply then takes the place of what *)
(* the phone shows, even when the player has moved on meanwhile.  Which    *)
(* snapshot or fate the phone has seen is ClientSync's subject and who has *)
(* locked that of Answers: here the phone sees the stage at once, and there *)
(* is one player.                                                          *)
(***************************************************************************)
EXTENDS Integers, Sequences, FiniteSets

CONSTANTS
  Marks,       \* places of the pin, or orders of the cards
  Dealt,       \* the order in which the cards are dealt
  None,
  MaxTaps,     \* bound: how often the player moves the pin or a card
  MaxBreaks,   \* bound: pauses and lost connections
  MaxUnderWay  \* bound: heartbeats under way

ASSUME PhoneAssumption ==
  /\ Dealt \in Marks /\ None \notin Marks
  /\ {MaxTaps, MaxBreaks, MaxUnderWay} \subseteq Nat

VARIABLES
  kind,      \* the game of the round
  round,     \* its stage and whether it is paused
  answer,    \* the server's row for the player: draft, locked, fate in the race
  held,      \* whether the race engine takes the pad to be pressed
  me,        \* what the phone has of that row: rt.me
  phone,     \* the rest of the page
  pad,       \* the hold button: pressed, and its heartbeat timer
  toServer, toPhone,
  tap,       \* history: the last tap
  dropped,   \* history: whether a message since then was refused or lost
  overtaken, \* history: whether the player has since locked an older answer that was back on the page
  taps, breaks

phoneVars == <<kind, round, answer, held, me, phone, pad, toServer, toPhone, tap, dropped, overtaken, taps, breaks>>

Row == [draft |-> answer.draft, locked |-> answer.locked, life |-> answer.life]

PhoneInit ==
  /\ kind \in {"RLGL", "GEO", "ORDER"}
  /\ round = [stage |-> "Countdown", paused |-> FALSE]
  /\ answer = [draft |-> None, locked |-> FALSE, life |-> "alive"]
  /\ held = FALSE /\ me = Row
  /\ phone = [conn |-> TRUE, help |-> FALSE, localOrder |-> None, saveTimer |-> None,
              busy |-> FALSE, dragging |-> FALSE]
  /\ pad = [holding |-> FALSE, timer |-> FALSE]
  /\ toServer = <<>> /\ toPhone = <<>>
  /\ tap = None /\ dropped = FALSE /\ overtaken = FALSE /\ taps = 0 /\ breaks = 0

Open == round.stage = "RoundActive" /\ ~round.paused

------------------------------------------------------------------------------
\* The hold button is there only where moving is possible, and not behind the help.

padVisible == kind = "RLGL" /\ Open /\ phone.conn /\ me.life = "alive" /\ ~phone.help

\* Mutant: the interval is not cleared.
stopTimerRuns(p) == [p EXCEPT !.holding = FALSE]

stop(p) == [p EXCEPT !.holding = FALSE, !.timer = FALSE]

\* A button that is taken away stops without telling anyone: by then nobody
\* listens to its output.
Renders == pad' = IF padVisible' THEN pad ELSE stop(pad)

Sends(m) == toServer' = Append(toServer, m)
Beat == [op |-> "hold"]

\* down
Down ==
  /\ padVisible /\ ~pad.holding /\ Len(toServer) < MaxUnderWay
  /\ pad' = [holding |-> TRUE, timer |-> TRUE] /\ Sends(Beat)
  /\ UNCHANGED <<kind, round, answer, held, me, phone, toPhone, tap, dropped, overtaken, taps, breaks>>

\* up: the finger, or a blur, a rotation, another language
Up ==
  /\ padVisible /\ pad.holding /\ pad' = stop(pad) /\ Sends([op |-> "release"])
  /\ UNCHANGED <<kind, round, answer, held, me, phone, toPhone, tap, dropped, overtaken, taps, breaks>>

\* The interval of down; its button reads as enabled to the end.
Heartbeat ==
  /\ pad.timer /\ phone.conn /\ Len(toServer) < MaxUnderWay /\ Sends(Beat)
  /\ UNCHANGED <<kind, round, answer, held, me, phone, pad, toPhone, tap, dropped, overtaken, taps, breaks>>

\* The help takes the place of the whole game.
ToggleHelp ==
  /\ phone' = [phone EXCEPT !.help = ~@, !.dragging = FALSE]
  /\ UNCHANGED <<kind, round, answer, held, me, toServer, toPhone, tap, dropped, overtaken, taps, breaks>>
  /\ Renders

------------------------------------------------------------------------------
\* Making an answer.

Editable == Open /\ ~me.locked /\ ~phone.help
Tapped(m) == /\ taps < MaxTaps /\ taps' = taps + 1
             /\ tap' = m /\ dropped' = FALSE /\ overtaken' = FALSE

placePin(m) ==
  /\ kind = "GEO" /\ Editable /\ Tapped(m)
  /\ me' = [me EXCEPT !.draft = m]
  /\ phone' = [phone EXCEPT !.saveTimer = m]
  /\ UNCHANGED <<kind, round, answer, held, pad, toServer, toPhone, breaks>>

\* move, onKey and dragMove; a drag asks only at its start whether it may.
changeOrder(m) ==
  /\ kind = "ORDER" /\ (Editable \/ phone.dragging) /\ Tapped(m)
  /\ phone' = [phone EXCEPT !.localOrder = m, !.saveTimer = m]
  /\ UNCHANGED <<kind, round, answer, held, me, pad, toServer, toPhone, breaks>>

Drag ==
  /\ kind = "ORDER" /\ (Editable \/ phone.dragging)
  /\ phone' = [phone EXCEPT !.dragging = ~@]
  /\ UNCHANGED <<kind, round, answer, held, me, pad, toServer, toPhone, tap, dropped, overtaken, taps, breaks>>

\* Mutant: the timer sends what the page shows by then.
SaveShown ==
  /\ phone.saveTimer # None
  /\ Sends([op |-> "save", mark |-> IF kind = "GEO" THEN me.draft ELSE phone.localOrder])
  /\ phone' = [phone EXCEPT !.saveTimer = None]
  /\ UNCHANGED <<kind, round, answer, held, me, pad, toPhone, tap, dropped, overtaken, taps, breaks>>

\* The timer sends what it was set for.
Save ==
  /\ phone.saveTimer # None /\ Sends([op |-> "save", mark |-> phone.saveTimer])
  /\ phone' = [phone EXCEPT !.saveTimer = None]
  /\ UNCHANGED <<kind, round, answer, held, me, pad, toPhone, tap, dropped, overtaken, taps, breaks>>

Shown ==
  IF kind = "ORDER" /\ phone.localOrder # None THEN phone.localOrder
  ELSE IF kind = "ORDER" /\ me.draft = None THEN Dealt ELSE me.draft

\* lockPin and lockOrder
Lock ==
  /\ kind # "RLGL" /\ Editable /\ ~phone.busy /\ Shown # None
  /\ Sends([op |-> "lock", mark |-> Shown])
  /\ phone' = [phone EXCEPT !.saveTimer = None, !.busy = TRUE]
  /\ overtaken' = (overtaken \/ Shown # tap)
  /\ UNCHANGED <<kind, round, answer, held, me, pad, toPhone, tap, dropped, taps, breaks>>

------------------------------------------------------------------------------
\* The server.

Replies(op, ok) ==
  toPhone' = Append(toPhone, [op |-> op, ok |-> ok, row |-> Row'])

\* savePin and saveOrder.  Two of a phone are 150 ms apart or the later one is
\* refused; assumption: a save takes less, so they are done in their order.
Answer(m) ==
  \/ /\ Open /\ ~answer.locked
     /\ answer' = [answer EXCEPT !.draft = m.mark, !.locked = (m.op = "lock")]
     /\ Replies(m.op, TRUE) /\ UNCHANGED <<held, dropped>>
  \/ \* too many inputs, too late, closed or locked
     /\ UNCHANGED <<answer, held>>
     /\ dropped' = TRUE /\ Replies(m.op, FALSE)

\* raceInput, which first asks the database who controls the phone: a later
\* message may overtake an earlier one.
Input(m) ==
  /\ held' = IF Open /\ answer.life = "alive" THEN m.op = "hold" ELSE held
  /\ UNCHANGED <<answer, toPhone, dropped>>

Serve(i) ==
  /\ phone.conn
  /\ toServer' = SubSeq(toServer, 1, i - 1) \o SubSeq(toServer, i + 1, Len(toServer))
  /\ IF kind = "RLGL" THEN Input(toServer[i]) ELSE i = 1 /\ Answer(toServer[1])
  /\ UNCHANGED <<kind, round, me, phone, pad, tap, overtaken, taps, breaks>>

\* tick: 500 ms without a heartbeat are a release.  Assumption: a pad that is
\* pressed gets its heartbeats through in time.
StaleHold ==
  /\ held /\ Open /\ ~pad.timer /\ Len(toServer) = 0 /\ held' = FALSE
  /\ UNCHANGED <<kind, round, answer, me, phone, pad, toServer, toPhone, tap, dropped, overtaken, taps, breaks>>

\* eliminate, or the finish
Decided ==
  /\ kind = "RLGL" /\ Open /\ held /\ answer.life = "alive"
  /\ \E l \in {"eliminated", "finished"} : answer' = [answer EXCEPT !.life = l]
  /\ held' = FALSE /\ Replies("me", TRUE)
  /\ UNCHANGED <<kind, round, me, phone, pad, toServer, tap, dropped, overtaken, taps, breaks>>

\* Stages.  setPaused clears every hold, pushAttemptState follows a resume, and
\* the engine does not tick outside RoundActive.
Pause ==
  /\ ~round.paused /\ round.stage # "InputLocked" /\ breaks < MaxBreaks /\ breaks' = breaks + 1
  /\ round' = [round EXCEPT !.paused = TRUE] /\ held' = FALSE
  /\ UNCHANGED <<kind, answer, me, phone, toServer, toPhone, tap, dropped, overtaken, taps>>
  /\ Renders

Resume ==
  /\ round.paused /\ round' = [stage |-> "Countdown", paused |-> FALSE]
  /\ IF phone.conn THEN UNCHANGED answer /\ Replies("me", TRUE) ELSE UNCHANGED <<answer, toPhone>>
  /\ UNCHANGED <<kind, held, me, phone, pad, toServer, tap, dropped, overtaken, taps, breaks>>

Advance ==
  /\ ~round.paused
  /\ \/ round.stage = "Countdown" /\ round' = [round EXCEPT !.stage = "RoundActive"]
     \/ round.stage = "RoundActive" /\ round' = [round EXCEPT !.stage = "InputLocked"]
  /\ UNCHANGED <<kind, answer, held, me, phone, toServer, toPhone, tap, dropped, overtaken, taps, breaks>>
  /\ Renders

------------------------------------------------------------------------------
\* What comes back.

\* rt.me.set(r.state) after a save or a lock; "me" never walks a fate back.
Receive ==
  LET m == Head(toPhone)
      life == IF me.life = "alive" THEN m.row.life ELSE me.life IN
  /\ toPhone # <<>> /\ toPhone' = Tail(toPhone)
  /\ me' = IF m.ok THEN [m.row EXCEPT !.life = life] ELSE me
  /\ phone' = [phone EXCEPT !.busy = @ /\ m.op # "lock"]
  /\ UNCHANGED <<kind, round, answer, held, toServer, tap, dropped, overtaken, taps, breaks>>
  /\ Renders

\* handleDisconnect releases the pad; what was under way is lost.
Disconnect ==
  /\ phone.conn /\ breaks < MaxBreaks /\ breaks' = breaks + 1
  /\ phone' = [phone EXCEPT !.conn = FALSE, !.busy = FALSE]
  /\ dropped' = (dropped \/ \E i \in DOMAIN toServer : toServer[i].op \in {"save", "lock"})
  /\ held' = FALSE /\ toServer' = <<>> /\ toPhone' = <<>>
  /\ UNCHANGED <<kind, round, answer, me, tap, overtaken, taps>>
  /\ Renders

\* What was sent in between waits in the socket for 4 s.
Reconnect ==
  /\ ~phone.conn /\ phone' = [phone EXCEPT !.conn = TRUE]
  /\ UNCHANGED answer /\ Replies("me", TRUE)
  /\ UNCHANGED <<kind, round, held, me, toServer, tap, dropped, overtaken, taps, breaks>>
  /\ Renders

GiveUp ==
  /\ ~phone.conn /\ toServer # <<>> /\ toServer' = Tail(toServer) /\ dropped' = TRUE
  /\ phone' = [phone EXCEPT !.busy = @ /\ Head(toServer).op # "lock"]
  /\ UNCHANGED <<kind, round, answer, held, me, pad, toPhone, tap, overtaken, taps, breaks>>

PhoneNext ==
  \/ Down \/ Up \/ Heartbeat \/ ToggleHelp
  \/ \E m \in Marks : placePin(m) \/ changeOrder(m)
  \/ Drag \/ Save \/ Lock
  \/ \E i \in DOMAIN toServer : Serve(i)
  \/ StaleHold \/ Decided \/ Pause \/ Resume \/ Advance
  \/ Receive \/ Disconnect \/ Reconnect \/ GiveUp

------------------------------------------------------------------------------
\* Properties.

Quiet == phone.conn /\ phone.saveTimer = None /\ toServer = <<>> /\ toPhone = <<>>

\* Saves, locks and their replies cross the player's next taps.  Once all is
\* quiet and nothing was refused or lost, the server has the last tap, locked or
\* not, and the phone shows it.  Left out: a player who locks while the page shows
\* an older answer than the last tap (overtaken), put back by a late reply: the lock
\* then sends the older answer and the last tap is lost.
LastTapKept ==
  Quiet /\ ~dropped /\ tap # None /\ ~overtaken => answer.draft = tap /\ Shown = tap

\* "Duplicated, stale, or reordered messages must not duplicate scores or overwrite
\* newer state." (ASAS-Engagement-Website-Requirements.md:547): a late reply must
\* not have the lock send an older answer than the player's last.  In no run: it does
\* not hold (README, Where code and documents part).
LockedIsLastTap ==
  Quiet /\ ~dropped /\ tap # None /\ answer.locked => answer.draft = tap

\* A pad that the page takes away tells nobody, and a release may overtake the
\* press before it: the server then holds on alone, but not for long.
StrayHoldEnds ==
  (held /\ ~pad.holding) ~> (~held \/ pad.holding \/ ~Open)

\* "Time ended. Your last saved pin was accepted and will be scored."
\* (strings.en.ts:637, shown by pinStatusKey when the round is closed)
AcceptedMeansScored ==
  Quiet /\ round.stage = "InputLocked" /\ ~me.locked /\ me.draft # None => answer.draft # None
=============================================================================
