----------------------------- MODULE DevicesProofs -----------------------------
(***************************************************************************)
(* What holds of the devices for every number of seats, sockets, sessions, *)
(* fingers and pages.  A step of Devices moves one part and leaves the     *)
(* others, so an invariant of a part is preserved by the part's own steps  *)
(* and by none: each section below proves that of one part and ends in its *)
(* theorem.                                                                *)
(***************************************************************************)
EXTENDS Devices, FiniteSetTheorems, SequenceTheorems, TLAPS

--------------------------------------------------------------------------------
(***************************************************************************)
(* What a phone shows of the session.                                      *)
(*                                                                         *)
(* The invariant reads the channel as the order in which the phone will    *)
(* learn things.  A claim about an attempt is harmless once a newer one    *)
(* exists; one that names no attempt must be true now, or be in front of   *)
(* the first snapshot of the newest attempt.                               *)
(***************************************************************************)

Rows == [seq : Int, attempt : Nat, stage : Stages \cup {"none"}]
Snapshots == [seq : Int, attempt : Nat, stage : Stages \cup {"none"}, race : MyLife]
States == [attempt : Nat, locked : BOOLEAN, race : MyLife]
Positions == [attempt : Nat, race : MyLife]
Messages ==
  [event : {"snapshot"}, body : Snapshots] \cup [event : {"race"}, body : Positions]
    \cup [event : {"me", "ack"}, body : States] \cup [event : {"hold"}, body : MyLife]
    \cup [event : {"eliminated"}, body : {TRUE}]

SyncTypes ==
  /\ seq \in Nat /\ stage \in Stages /\ current \in Nat /\ created \in Nat /\ isRace \in BOOLEAN
  /\ locked \subseteq 1..created /\ life \in MyLife /\ engine \in {0, created}
  /\ job \in Rows /\ builders \subseteq Rows
  /\ inputs \subseteq [attempt : 1..created, wired : BOOLEAN, at : {"write", "reply"}]
  /\ connecting \in [at : {"no", "read", "snapshot", "me"}, row : Rows]
  /\ link \in {"up", "down"} /\ channel \in Seq(Messages)
  /\ link = "down" => channel = <<>> /\ connecting = Idle
  /\ view \in Snapshots /\ me \in States /\ lifeAttemptId \in Nat /\ lifeFromEvent \in MyLife
  /\ unheard \in BOOLEAN

--------------------------------------------------------------------------------
(***************************************************************************)
(* The server's side.                                                      *)
(***************************************************************************)

Started == stage \in {"RoundActive", "InputLocked"}

\* The stage and the attempt agree; a race has a fate from its start, a map never.
ServerInv ==
  /\ stage = "GameResults" => current = 0
  /\ stage # "GameResults" => current = created /\ created # 0
  /\ ~isRace => life = "unknown"
  /\ stage = "Ready" => life = "unknown" /\ created \notin locked
  /\ Started /\ isRace => engine = created /\ life # "unknown"

\* What is under way is about the attempt on stage once that one has started.
UnderwayInv ==
  /\ \A i \in inputs : /\ i.attempt = created => ~isRace /\ stage # "Ready"
                       /\ i.at = "reply" => i.attempt \in locked
                       /\ Started => i.attempt = created
  /\ connecting.at \in {"no", "read"} => connecting.row = NoRow
  /\ connecting.at \in {"snapshot", "me"} => /\ connecting.row.seq >= 0
                                             /\ Started => connecting.row.attempt = created

\* A row is no newer than the session's; from the seq b at which the attempt on stage was
\* prepared the rows are about it.
RowOK(r, b) ==
  /\ r.seq <= seq /\ r.attempt <= created
  /\ r.seq >= b => r.attempt = current
  /\ r.seq = seq => r.stage = stage
  /\ r.attempt = current /\ current # 0 => r.seq >= b
  /\ r.stage = "RoundActive" => r.attempt # 0 /\ (r.attempt = current => Started)

RowsOK(b) ==
  /\ b \in 0..seq
  /\ RowOK(job, b) /\ (job # NoRow => job.seq = seq)
  /\ \A r \in builders : RowOK(r, b) /\ r.seq >= 0
  /\ RowOK(connecting.row, b) /\ RowOK(view, b)
  /\ \A n \in DOMAIN channel : channel[n].event = "snapshot" =>
        RowOK(channel[n].body, b) /\ channel[n].body.seq >= 0

RowsInv == \E b \in Nat : RowsOK(b)

--------------------------------------------------------------------------------
(***************************************************************************)
(* Fates.                                                                  *)
(***************************************************************************)

\* A fate told of the newest attempt is this player's.
Claim(a, r) == a <= created /\ (a = created /\ a # 0 /\ r \in Outcomes => life = r)

\* The phone has learned nothing of the newest attempt by the time it takes message n.
Earlier(n) ==
  /\ view.attempt # created
  /\ \A k \in 1..(n - 1) : channel[k].event = "snapshot" => channel[k].body.attempt # created

\* A fate that names no attempt is true now, or comes before the newest attempt does.
Nameless(n, r) == r \in Outcomes => created # 0 /\ (life = r \/ Earlier(n))

MessageOK(n) ==
  LET m == channel[n] IN
  /\ m.event \in {"snapshot", "race", "me", "ack"} => Claim(m.body.attempt, m.body.race)
  /\ m.event = "me" /\ m.body.attempt = 0 => m.body.race = "unknown"
  /\ m.event = "ack" => m.body.race = "unknown" /\ m.body.locked
  /\ m.event \in {"me", "ack"} /\ m.body.locked => m.body.attempt \in locked
  /\ m.event = "eliminated" => Nameless(n, "eliminated")
  /\ m.event = "hold" => Nameless(n, m.body)

PhoneInv ==
  /\ lifeAttemptId = view.attempt
  /\ Claim(view.attempt, view.race) /\ Claim(view.attempt, me.race) /\ Claim(view.attempt, lifeFromEvent)
  /\ me.locked => me.attempt \in locked

FateInv == PhoneInv /\ \A n \in DOMAIN channel : MessageOK(n)

--------------------------------------------------------------------------------
(***************************************************************************)
(* Locks.                                                                  *)
(***************************************************************************)

OwnState(n) == channel[n].event = "me" /\ channel[n].body.attempt = created

\* In a round that has started, a lock of another attempt is followed by a personal state
\* of this one, or the connection will still send one.
LockInv ==
  Started /\ link = "up" =>
    /\ \A n \in DOMAIN channel : channel[n].event = "ack" /\ channel[n].body.attempt # created =>
         \E k \in DOMAIN channel : k > n /\ OwnState(k)
    /\ me.locked /\ me.attempt # created /\ view.attempt = created =>
         connecting # Idle \/ \E k \in DOMAIN channel : OwnState(k)

--------------------------------------------------------------------------------
(***************************************************************************)
(* Catching up.                                                            *)
(***************************************************************************)

\* The newest row is shown, on its way, about to be published, or about to be read.
NewestInv ==
  link = "up" =>
    \/ view.seq = seq
    \/ \E n \in DOMAIN channel : channel[n].event = "snapshot" /\ channel[n].body.seq = seq
    \/ job # NoRow
    \/ connecting.at = "read"
    \/ connecting.at = "snapshot" /\ connecting.row.seq = seq

\* The phone shows the attempt on stage before it takes message n.
ShownBy(n) ==
  \/ view.attempt = created
  \/ \E k \in 1..(n - 1) : channel[k].event = "snapshot" /\ channel[k].body.attempt = created

Unlocks(n) == channel[n].event = "me" /\ ~channel[n].body.locked

\* The attempt on stage is shown, or comes first in what a connection sends.
ShownInv ==
  Started /\ link = "up" => connecting.at \in {"read", "snapshot"} \/ ShownBy(Len(channel) + 1)

\* A lock of the attempt on stage will be told: by the connection, by the reply, by a
\* message that nothing takes back; or it is shown.
ToldInv ==
  Started /\ link = "up" /\ created \in locked /\ ~unheard =>
    \/ connecting # Idle
    \/ \E i \in inputs : i.at = "reply" /\ i.wired
    \/ \E n \in DOMAIN channel :
         /\ channel[n].event \in {"ack", "me"} /\ channel[n].body.locked /\ channel[n].body.attempt = created
         /\ ShownBy(n) /\ \A k \in DOMAIN channel : k > n => ~Unlocks(k)
    \/ me.locked /\ view.attempt = created /\ \A k \in DOMAIN channel : ~Unlocks(k)

\* Once a race is closed, what is told of the newest row has the fate, and no position
\* of the race comes behind it.
ClosedInv ==
  stage = "InputLocked" /\ isRace =>
    /\ \A n \in DOMAIN channel : channel[n].event = "snapshot" /\ channel[n].body.seq = seq =>
         channel[n].body.race = life /\ \A k \in DOMAIN channel : k > n => channel[k].event # "race"
    /\ view.seq = seq => view.race = life /\ \A k \in DOMAIN channel : channel[k].event # "race"

SyncInv ==
  /\ SyncTypes /\ ServerInv /\ UnderwayInv /\ RowsInv /\ FateInv /\ LockInv
  /\ NewestInv /\ ShownInv /\ ToldInv /\ ClosedInv

--------------------------------------------------------------------------------
(***************************************************************************)
(* What a step does to the channel.                                        *)
(***************************************************************************)

Added == (Len(channel) + 1)..Len(channel')

\* Messages are added behind those that are on the way.
Extended ==
  /\ channel' \in Seq(Messages) /\ Len(channel) \in Nat /\ Len(channel') \in Nat
  /\ Len(channel) <= Len(channel')
  /\ \A n \in 1..Len(channel) : channel'[n] = channel[n]
  /\ DOMAIN channel = 1..Len(channel) /\ DOMAIN channel' = DOMAIN channel \cup Added

LEMMA Silent == SyncTypes /\ channel' = channel => Extended /\ Added = {}
<1> SUFFICES ASSUME SyncTypes, channel' = channel PROVE Extended /\ Added = {}
  OBVIOUS
<1>1. channel \in Seq(Messages) /\ Len(channel) \in Nat /\ DOMAIN channel = 1..Len(channel)
  BY DEF SyncTypes
<1>2. (Len(channel) + 1)..Len(channel) = {}
  BY <1>1
<1>3. Added = {}
  BY <1>2 DEF Added
<1>4. QED
  BY <1>1, <1>3 DEF Extended

LEMMA Sending ==
  ASSUME SyncTypes, NEW event, NEW body, [event |-> event, body |-> body] \in Messages,
         Emit(event, body), link' = link
  PROVE  /\ Extended
         /\ \A n \in Added : link = "up" /\ channel'[n].event = event /\ channel'[n].body = body
         /\ link = "up" => Len(channel') \in Added /\ Len(channel') = Len(channel) + 1
<1> DEFINE m == [event |-> event, body |-> body]
<1>1. channel \in Seq(Messages) /\ m \in Messages /\ m.event = event /\ m.body = body
  BY DEF SyncTypes
<1>2. channel' = IF link = "up" THEN Append(channel, m) ELSE channel
  BY DEF Emit
<1> HIDE DEF m
<1>3. CASE link = "up"
  BY <1>1, <1>2, <1>3 DEF Extended, Added
<1>4. CASE link # "up"
  BY <1>2, <1>4, Silent
<1>5. QED
  BY <1>3, <1>4

LEMMA Taking ==
  ASSUME SyncTypes, channel # <<>>, channel' = Tail(channel)
  PROVE  /\ channel' \in Seq(Messages) /\ 1 \in DOMAIN channel /\ Head(channel) = channel[1]
         /\ channel[1] \in Messages
         /\ Len(channel) \in Nat /\ Len(channel') = Len(channel) - 1
         /\ DOMAIN channel = 1..Len(channel) /\ DOMAIN channel' = 1..(Len(channel) - 1)
         /\ \A n \in DOMAIN channel' : n + 1 \in DOMAIN channel /\ channel'[n] = channel[n + 1]
<1>1. channel \in Seq(Messages)
  BY DEF SyncTypes
<1>2. QED
  BY <1>1

LEMMA Words ==
  ASSUME SyncTypes, NEW a \in Nat
  PROVE  /\ myState(a) \in States /\ emptyMe(a) \in States
         /\ RaceOf(a) \in MyLife /\ SessionRow \in Rows
BY DEF SyncTypes, myState, emptyMe, States, RaceOf, MyLife, SessionRow, Rows

LEMMA Building ==
  ASSUME SyncTypes, NEW r \in Rows
  PROVE  [event |-> "snapshot", body |-> Snapshot(r)] \in Messages
<1>1. RaceOf(r.attempt) \in MyLife
  BY Words DEF Rows
<1>2. Snapshot(r) \in Snapshots
  BY <1>1 DEF Snapshot, Rows, Snapshots
<1>3. QED
  BY <1>2 DEF Messages

LEMMA Telling ==
  ASSUME NEW p \in States, NEW event \in {"me", "ack"}
  PROVE  [event |-> event, body |-> p] \in Messages
BY DEF Messages

LEMMA Naming ==
  /\ [event |-> "eliminated", body |-> TRUE] \in Messages
  /\ \A r \in MyLife : [event |-> "hold", body |-> r] \in Messages
  /\ \A a \in Nat, r \in MyLife : [event |-> "race", body |-> [attempt |-> a, race |-> r]] \in Messages
BY DEF Messages, Positions

LEMMA TwoMore ==
  ASSUME SyncTypes, channel' = channel \o <<[event |-> "eliminated", body |-> TRUE],
                                            [event |-> "hold", body |-> "eliminated"]>>
  PROVE  /\ Extended
         /\ \A n \in Added : \/ channel'[n].event = "eliminated"
                             \/ channel'[n].event = "hold" /\ channel'[n].body = "eliminated"
<1>1. PICK two \in Seq(Messages) : /\ channel' = channel \o two /\ Len(two) = 2
                                  /\ two[1].event = "eliminated"
                                  /\ two[2].event = "hold" /\ two[2].body = "eliminated"
  <2>1. "eliminated" \in MyLife
    BY DEF MyLife
  <2>2. <<[event |-> "eliminated", body |-> TRUE], [event |-> "hold", body |-> "eliminated"]>> \in Seq(Messages)
    BY <2>1, Naming
  <2>3. QED
    BY <2>2
<1>2. channel \in Seq(Messages)
  BY DEF SyncTypes
<1>3. /\ channel' \in Seq(Messages) /\ Len(channel') = Len(channel) + 2 /\ Len(channel) \in Nat
      /\ \A n \in 1..Len(channel) : channel'[n] = channel[n]
      /\ channel'[Len(channel) + 1] = two[1] /\ channel'[Len(channel) + 2] = two[2]
  <2>1. Len(channel) \in Nat
    BY <1>2
  <2>2. channel' \in Seq(Messages) /\ Len(channel') = Len(channel) + Len(two)
    BY <1>1, <1>2, ConcatProperties
  <2>3. \A n \in 1..(Len(channel) + Len(two)) :
          channel'[n] = IF n <= Len(channel) THEN channel[n] ELSE two[n - Len(channel)]
    BY <1>1, <1>2, ConcatProperties
  <2>4. \A n \in 1..Len(channel) : channel'[n] = channel[n]
    BY <1>1, <2>1, <2>3
  <2>5. channel'[Len(channel) + 1] = two[1]
    BY <1>1, <2>1, <2>3
  <2>6. channel'[Len(channel) + 2] = two[2]
    BY <1>1, <2>1, <2>3
  <2>7. QED
    BY <1>1, <2>1, <2>2, <2>4, <2>5, <2>6
<1>4. /\ DOMAIN channel = 1..Len(channel) /\ DOMAIN channel' = 1..(Len(channel) + 2)
      /\ Added = (Len(channel) + 1)..(Len(channel) + 2)
  BY <1>2, <1>3 DEF Added
<1> HIDE DEF Added
<1>5. Extended
  <2>1. 1..(Len(channel) + 2) = 1..Len(channel) \cup (Len(channel) + 1)..(Len(channel) + 2)
    BY <1>3
  <2>2. QED
    BY <1>3, <1>4, <2>1 DEF Extended
<1>6. \A n \in Added : n = Len(channel) + 1 \/ n = Len(channel) + 2
  BY <1>3, <1>4
<1>7. QED
  BY <1>1, <1>3, <1>5, <1>6

\* What kind of body a message has.
LEMMA Bodies ==
  ASSUME NEW m \in Messages
  PROVE  /\ m.event \in {"snapshot", "race", "me", "ack", "hold", "eliminated"}
         /\ m.event = "snapshot" => m.body \in Snapshots
         /\ m.event = "race" => m.body \in Positions
         /\ m.event \in {"me", "ack"} => m.body \in States
         /\ m.event = "hold" => m.body \in MyLife
BY DEF Messages

--------------------------------------------------------------------------------
(***************************************************************************)
(* What a message does to the phone.                                       *)
(***************************************************************************)

LEMMA Stronger ==
  ASSUME NEW a \in MyLife, NEW b \in MyLife
  PROVE  /\ strongerLife(a, b) \in MyLife /\ strongerLife(a, b) \in {a, b}
         /\ strongerLife(a, b) \in Outcomes <=> a \in Outcomes \/ b \in Outcomes
         /\ strongerLife(a, b) = "unknown" <=> a = "unknown" /\ b = "unknown"
BY DEF strongerLife, LIFE_RANK, MyLife, Outcomes

LEMMA WithRaceFacts ==
  ASSUME NEW p \in States, NEW known \in MyLife, NEW r \in MyLife
  PROVE  LET w == WithRace(p, known, r) IN
         /\ w.me \in States /\ w.life \in MyLife
         /\ w.me.locked = p.locked /\ w.me.attempt = p.attempt
         /\ w.life \in {known, r} /\ w.me.race \in {p.race, known, r}
<1> DEFINE strong == strongerLife(known, r)  w == WithRace(p, known, r)
<1>1. strong \in MyLife /\ strong \in {known, r}
  BY Stronger
<1>2. w = IF r = "unknown" THEN [me |-> p, life |-> known]
          ELSE [me |-> [p EXCEPT !.race = strong], life |-> strong]
  BY DEF WithRace
<1> HIDE DEF strong
<1>3. LET q == [p EXCEPT !.race = strong]
      IN  q \in States /\ q.race = strong /\ q.locked = p.locked /\ q.attempt = p.attempt
  BY <1>1 DEF States
<1>4. CASE r = "unknown"
  BY <1>2, <1>4
<1>5. CASE r # "unknown"
  <2>1. w.me = [p EXCEPT !.race = strong] /\ w.life = strong
    BY <1>2, <1>5
  <2>2. QED
    BY <1>1, <1>3, <2>1
<1>6. QED
  BY <1>4, <1>5

\* A snapshot that is taken replaces the view; a new attempt forgets the old one's fate and lock.
LEMMA SnapshotFacts ==
  ASSUME SyncTypes, NEW snap \in Snapshots, OnSnapshot(snap)
  PROVE  /\ view' \in Snapshots /\ me' \in States /\ lifeAttemptId' \in Nat /\ lifeFromEvent' \in MyLife
         /\ ~Fresh(snap) => UNCHANGED phone
         /\ Fresh(snap) => view' = snap /\ lifeAttemptId' = snap.attempt
         /\ Fresh(snap) /\ lifeAttemptId = snap.attempt =>
              /\ me'.locked = me.locked /\ me'.attempt = me.attempt
              /\ lifeFromEvent' \in {lifeFromEvent, snap.race}
              /\ me'.race \in {me.race, lifeFromEvent, snap.race}
         /\ Fresh(snap) /\ lifeAttemptId # snap.attempt =>
              /\ me'.locked = FALSE /\ me'.attempt = snap.attempt
              /\ lifeFromEvent' \in {"unknown", snap.race} /\ me'.race \in {"unknown", snap.race}
<1> DEFINE reset == lifeAttemptId # snap.attempt
           p == IF reset THEN emptyMe(snap.attempt) ELSE me
           known == IF reset THEN "unknown" ELSE lifeFromEvent
           w == WithRace(p, known, snap.race)
<1>1. /\ snap.attempt \in Nat /\ snap.race \in MyLife /\ view \in Snapshots /\ me \in States
      /\ lifeAttemptId \in Nat /\ lifeFromEvent \in MyLife
  BY DEF SyncTypes, Snapshots
<1>2. p \in States /\ known \in MyLife /\ (reset => p.race = "unknown" /\ p.locked = FALSE /\ p.attempt = snap.attempt)
  BY <1>1, Words DEF MyLife, emptyMe
<1>3. ~Fresh(snap) => UNCHANGED phone
  BY DEF OnSnapshot
<1>4. Fresh(snap) => /\ lifeAttemptId' = IF reset THEN snap.attempt ELSE lifeAttemptId
                     /\ me' = w.me /\ lifeFromEvent' = w.life /\ view' = snap
  BY DEF OnSnapshot, shouldResetLife
<1> HIDE DEF w, p, known
<1>5. /\ w.me \in States /\ w.life \in MyLife
      /\ w.me.locked = p.locked /\ w.me.attempt = p.attempt
      /\ w.life \in {known, snap.race} /\ w.me.race \in {p.race, known, snap.race}
  BY <1>1, <1>2, WithRaceFacts DEF w
<1>6. CASE ~Fresh(snap)
  BY <1>1, <1>3, <1>6 DEF phone
<1>7. CASE Fresh(snap) /\ ~reset
  <2>1. p = me /\ known = lifeFromEvent
    BY <1>7 DEF p, known
  <2>2. QED
    BY <1>1, <1>4, <1>5, <1>7, <2>1
<1>8. CASE Fresh(snap) /\ reset
  <2>1. known = "unknown" /\ p.race = "unknown" /\ p.locked = FALSE /\ p.attempt = snap.attempt
    BY <1>2, <1>8 DEF known
  <2>2. QED
    BY <1>1, <1>4, <1>5, <1>8, <2>1
<1>9. QED
  BY <1>6, <1>7, <1>8

LEMMA RaceFacts ==
  ASSUME SyncTypes, NEW ev \in Positions, OnRace(ev)
  PROVE  /\ view' \in Snapshots /\ me' \in States /\ lifeAttemptId' = lifeAttemptId /\ lifeFromEvent' \in MyLife
         /\ view'.attempt = view.attempt /\ view'.seq = view.seq /\ view'.stage = view.stage
         /\ me'.locked = me.locked /\ me'.attempt = me.attempt
         /\ view.attempt # ev.attempt => UNCHANGED phone
         /\ view'.race \in {view.race, ev.race} /\ lifeFromEvent' \in {lifeFromEvent, ev.race}
         /\ me'.race \in {me.race, lifeFromEvent, ev.race}
<1> DEFINE w == WithRace(me, lifeFromEvent, ev.race)
<1>1. me \in States /\ lifeFromEvent \in MyLife /\ ev.race \in MyLife /\ view \in Snapshots
  BY DEF SyncTypes, Positions
<1>2. /\ w.me \in States /\ w.life \in MyLife
      /\ w.me.locked = me.locked /\ w.me.attempt = me.attempt
      /\ w.life \in {lifeFromEvent, ev.race} /\ w.me.race \in {me.race, lifeFromEvent, ev.race}
  BY <1>1, WithRaceFacts
<1>3. \/ UNCHANGED phone
      \/ /\ me' = w.me /\ lifeFromEvent' = w.life /\ view' = [view EXCEPT !.race = ev.race]
         /\ lifeAttemptId' = lifeAttemptId /\ view.attempt = ev.attempt
  BY DEF OnRace
<1> HIDE DEF w
<1>4. CASE UNCHANGED phone
  BY <1>1, <1>4 DEF phone
<1>5. CASE ~UNCHANGED phone
  <2>1. /\ view' \in Snapshots /\ view'.attempt = view.attempt /\ view'.seq = view.seq
        /\ view'.stage = view.stage /\ view'.race = ev.race
    BY <1>1, <1>3, <1>5 DEF Snapshots
  <2>2. QED
    BY <1>1, <1>2, <1>3, <1>5, <2>1
<1>6. QED
  BY <1>4, <1>5

\* A personal state of another attempt than the one shown is ignored.
Taken(p) == p.attempt = 0 \/ view.attempt = 0 \/ p.attempt = view.attempt

LEMMA MeFacts ==
  ASSUME SyncTypes, lifeAttemptId = view.attempt, NEW p \in States, OnMe(p)
  PROVE  /\ view' = view /\ me' \in States /\ lifeAttemptId' = lifeAttemptId /\ lifeFromEvent' \in MyLife
         /\ ~Taken(p) => UNCHANGED phone
         /\ Taken(p) => /\ me'.locked = p.locked /\ me'.attempt = p.attempt
                        /\ me'.race \in {p.race, lifeFromEvent} /\ (p.race = "unknown" => me'.race = "unknown")
         /\ lifeFromEvent' \in {lifeFromEvent, p.race}
<1> DEFINE strong == strongerLife(lifeFromEvent, p.race)
<1>1. /\ strong \in MyLife /\ strong \in {lifeFromEvent, p.race} /\ lifeFromEvent \in MyLife /\ me \in States
      /\ p.race \in MyLife
  BY Stronger DEF SyncTypes, States
<1>2. (IF view = Blank THEN lifeAttemptId ELSE view.attempt) = view.attempt
  OBVIOUS
<1>3. ~Taken(p) => UNCHANGED phone
  BY <1>2 DEF OnMe, Taken
<1>4. Taken(p) => /\ me' = IF p.race = "unknown" THEN p ELSE [p EXCEPT !.race = strong]
                  /\ lifeFromEvent' = IF strong \in Outcomes THEN strong ELSE lifeFromEvent
                  /\ UNCHANGED <<view, lifeAttemptId>>
  BY <1>2 DEF OnMe, Taken
<1> HIDE DEF strong
<1>5. CASE ~Taken(p)
  BY <1>1, <1>3, <1>5 DEF phone
<1>6. CASE Taken(p)
  <2>1. /\ me' \in States /\ me'.locked = p.locked /\ me'.attempt = p.attempt
        /\ me'.race \in {p.race, strong} /\ (p.race = "unknown" => me'.race = "unknown")
    BY <1>1, <1>4, <1>6 DEF States
  <2>2. QED
    BY <1>1, <1>4, <1>6, <2>1
<1>7. QED
  BY <1>5, <1>6

\* Those that name no attempt.
LEMMA NamelessFacts ==
  ASSUME SyncTypes, NEW r \in MyLife, OnHold(r) \/ (r = "eliminated" /\ OnEliminated)
  PROVE  /\ view' = view /\ me' \in States /\ lifeAttemptId' = lifeAttemptId /\ lifeFromEvent' \in MyLife
         /\ me'.locked = me.locked /\ me'.attempt = me.attempt
         /\ me'.race \in {lifeFromEvent, r} /\ lifeFromEvent' \in {lifeFromEvent, r}
<1> DEFINE strong == strongerLife(lifeFromEvent, r)
<1>1. strong \in MyLife /\ strong \in {lifeFromEvent, r} /\ lifeFromEvent \in MyLife /\ me \in States
  BY Stronger DEF SyncTypes
<1>2. \/ /\ me' = [me EXCEPT !.race = strong] /\ UNCHANGED <<view, lifeAttemptId>>
         /\ lifeFromEvent' = IF strong \in Outcomes THEN strong ELSE lifeFromEvent
      \/ /\ me' = [me EXCEPT !.race = r] /\ lifeFromEvent' = r /\ UNCHANGED <<view, lifeAttemptId>>
  BY DEF OnHold, OnEliminated
<1> HIDE DEF strong
<1>3. QED
  BY <1>1, <1>2 DEF States

LEMMA Received ==
  ASSUME SyncTypes, Receive
  PROVE  /\ channel # <<>> /\ channel' = Tail(channel)
         /\ UNCHANGED <<seq, stage, current, created, isRace, locked, life, engine, job, builders, inputs,
                        connecting, link, unheard>>
         /\ \/ channel[1].event = "snapshot" /\ channel[1].body \in Snapshots /\ OnSnapshot(channel[1].body)
            \/ channel[1].event = "race" /\ channel[1].body \in Positions /\ OnRace(channel[1].body)
            \/ channel[1].event = "eliminated" /\ OnEliminated
            \/ channel[1].event = "me" /\ channel[1].body \in States /\ OnMe(channel[1].body)
            \/ channel[1].event = "ack" /\ channel[1].body \in States /\ OnAck(channel[1].body)
            \/ channel[1].event = "hold" /\ channel[1].body \in MyLife /\ OnHold(channel[1].body)
<1>1. channel # <<>> /\ channel' = Tail(channel)
  BY DEF Receive
<1>2. Head(channel) = channel[1] /\ channel[1] \in Messages
  BY <1>1, Taking
<1>3. UNCHANGED <<seq, stage, current, created, isRace, locked, life, engine, job, builders, inputs,
                  connecting, link, unheard>>
  BY DEF Receive, server, play
<1>4. LET m == channel[1] IN
       \/ m.event = "snapshot" /\ OnSnapshot(m.body)
       \/ m.event = "race" /\ OnRace(m.body)
       \/ m.event = "eliminated" /\ OnEliminated
       \/ m.event = "me" /\ OnMe(m.body)
       \/ m.event = "ack" /\ OnAck(m.body)
       \/ m.event = "hold" /\ OnHold(m.body)
  BY <1>2 DEF Receive
<1>5. QED
  BY <1>1, <1>2, <1>3, <1>4, Bodies

--------------------------------------------------------------------------------
(***************************************************************************)
(* Types.                                                                  *)
(***************************************************************************)

LEMMA TypesStep == SyncTypes /\ ServerInv /\ lifeAttemptId = view.attempt /\ [SyncNext]_syncVars => SyncTypes'
<1> SUFFICES ASSUME SyncTypes, ServerInv, lifeAttemptId = view.attempt, [SyncNext]_syncVars PROVE SyncTypes'
  OBVIOUS
<1> DEFINE Inputs == [attempt : 1..created, wired : BOOLEAN, at : {"write", "reply"}]
           Connections == [at : {"no", "read", "snapshot", "me"}, row : Rows]
<1>t. /\ seq \in Nat /\ stage \in Stages /\ current \in Nat /\ created \in Nat /\ isRace \in BOOLEAN
      /\ locked \subseteq 1..created /\ life \in MyLife /\ engine \in {0, created}
      /\ job \in Rows /\ builders \subseteq Rows /\ inputs \subseteq Inputs /\ connecting \in Connections
      /\ link \in {"up", "down"} /\ channel \in Seq(Messages) /\ (link = "down" => channel = <<>> /\ connecting = Idle)
      /\ view \in Snapshots /\ me \in States /\ lifeAttemptId \in Nat /\ lifeFromEvent \in MyLife
      /\ unheard \in BOOLEAN /\ NoRow \in Rows /\ Idle \in Connections /\ SessionRow \in Rows
  BY DEF SyncTypes, Rows, NoRow, Idle, Stages, SessionRow
\* Sending leaves an absent phone's channel empty.
<1>e. ASSUME NEW event, NEW body, [event |-> event, body |-> body] \in Messages, Emit(event, body), link' = link
      PROVE  channel' \in Seq(Messages) /\ (link' = "down" => channel' = <<>>)
  BY <1>e, <1>t, Sending DEF Extended, Emit
\* A new row, and one that has been read.
<1>r. ASSUME NEW s \in Stages, NEW a \in Nat, Publishes(s, a) PROVE seq' \in Nat /\ stage' \in Stages /\ current' \in Nat /\ job' \in Rows
  BY <1>r, <1>t DEF Publishes, Rows
<1>s. "Ready" \in Stages /\ "RoundActive" \in Stages /\ "InputLocked" \in Stages /\ "GameResults" \in Stages
  BY DEF Stages
<1>l. {"unknown", "alive", "finished", "eliminated"} = MyLife /\ Outcomes \subseteq MyLife
  BY DEF MyLife, Outcomes
<1> USE DEF server, play, phone, net
<1>1. CASE Publish
  <2>1. channel' \in Seq(Messages) /\ (link' = "down" => channel' = <<>>)
    BY <1>1, <1>e, <1>t, Building DEF Publish
  <2>2. QED
    BY <1>1, <1>t, <2>1 DEF Publish, SyncTypes
<1>2. CASE Prepare
  <2>1. channel' \in Seq(Messages) /\ (link' = "down" => channel' = <<>>)
    <3>1. created' \in Nat
      BY <1>2, <1>t DEF Prepare
    <3>2. [event |-> "me", body |-> emptyMe(created')] \in Messages
      BY <3>1, Telling, Words
    <3>3. Emit("me", emptyMe(created')) /\ link' = link
      BY <1>2 DEF Prepare
    <3>4. QED
      BY <1>e, <3>2, <3>3
  <2>2. /\ seq' \in Nat /\ stage' \in Stages /\ current' \in Nat /\ job' \in Rows
        /\ created' = created + 1 /\ engine' = 0 /\ life' = "unknown" /\ isRace' \in BOOLEAN
    BY <1>2, <1>r, <1>s, <1>t DEF Prepare
  <2>3. locked' \subseteq 1..created' /\ inputs' \subseteq [attempt : 1..created', wired : BOOLEAN, at : {"write", "reply"}]
    BY <1>2, <1>t, <2>2 DEF Prepare
  <2>4. QED
    BY <1>2, <1>l, <1>t, <2>1, <2>2, <2>3 DEF Prepare, SyncTypes
<1>3. CASE Start
  <2>1. channel' \in Seq(Messages) /\ (link' = "down" => channel' = <<>>)
    BY <1>3, <1>e, <1>t, Telling, Words DEF Start, PushAtStart
  <2>2. seq' \in Nat /\ stage' \in Stages /\ current' \in Nat /\ job' \in Rows
    BY <1>3, <1>r, <1>s, <1>t DEF Start
  <2>3. UNCHANGED <<created, isRace, locked, builders, inputs, connecting, link, phone, unheard>>
    BY <1>3 DEF Start
  <2>4. engine' \in {0, created} \cup {current} /\ life' \in MyLife /\ (engine' = engine \/ engine' = current)
    BY <1>3, <1>l, <1>t DEF Start
  <2>5. current = created
    BY <1>3, <1>s DEF Start, ServerInv
  <2>6. engine' \in {0, created'}
    BY <1>t, <2>3, <2>4, <2>5
  <2>7. QED
    BY <1>t, <2>1, <2>2, <2>3, <2>4, <2>6 DEF SyncTypes
<1>4. CASE Resume
  <2>1. channel' \in Seq(Messages) /\ (link' = "down" => channel' = <<>>)
    BY <1>4, <1>e, <1>t, Telling, Words DEF Resume
  <2>2. seq' \in Nat /\ stage' \in Stages /\ current' \in Nat /\ job' \in Rows
    BY <1>4, <1>r, <1>s, <1>t DEF Resume
  <2>3. QED
    BY <1>4, <1>t, <2>1, <2>2 DEF Resume, SyncTypes
<1>5. CASE CloseRound
  <2>2. seq' \in Nat /\ stage' \in Stages /\ current' \in Nat /\ job' \in Rows
    BY <1>5, <1>r, <1>s, <1>t DEF CloseRound
  <2>3. QED
    BY <1>5, <1>t, <2>2 DEF CloseRound, SyncTypes
<1>6. CASE ShowGameResults
  <2>2. seq' \in Nat /\ stage' \in Stages /\ current' \in Nat /\ job' \in Rows
    BY <1>6, <1>r, <1>s, <1>t DEF ShowGameResults
  <2>3. QED
    BY <1>6, <1>t, <2>2 DEF ShowGameResults, SyncTypes
<1>7. CASE StartSnapshot
  BY <1>7, <1>t DEF StartSnapshot, SyncTypes
<1>8. ASSUME NEW row \in builders, FinishSnapshot(row) PROVE SyncTypes'
  <2>1. channel' \in Seq(Messages) /\ (link' = "down" => channel' = <<>>)
    BY <1>8, <1>e, <1>t, Building DEF FinishSnapshot
  <2>2. QED
    BY <1>8, <1>t, <2>1 DEF FinishSnapshot, SyncTypes
<1>9. CASE Tick
  <2>1. channel' \in Seq(Messages) /\ (link' = "down" => channel' = <<>>)
    BY <1>9, <1>e, <1>t, Naming DEF Tick
  <2>2. life' \in MyLife
    BY <1>9, <1>l DEF Tick, Decide
  <2>3. QED
    BY <1>9, <1>t, <2>1, <2>2 DEF Tick, SyncTypes
<1>10. CASE RaceEvent
  <2>1. channel' \in Seq(Messages) /\ (link' = "down" => channel' = <<>>)
    BY <1>10, <1>e, <1>t, Naming DEF RaceEvent
  <2>2. QED
    BY <1>10, <1>t, <2>1 DEF RaceEvent, SyncTypes
<1>11. CASE Accept
  <2>1. [attempt |-> current, wired |-> TRUE, at |-> "write"] \in Inputs
    BY <1>11, <1>s, <1>t DEF Accept, ServerInv
  <2>2. QED
    BY <1>11, <1>t, <2>1 DEF Accept, SyncTypes
<1>12. ASSUME NEW i \in inputs, Write(i) PROVE SyncTypes'
  <2>1. i \in Inputs /\ [i EXCEPT !.at = "reply"] \in Inputs
    BY <1>t
  <2>2. inputs' \subseteq Inputs
    BY <1>12, <1>t, <2>1 DEF Write
  <2>3. locked' \subseteq 1..created
    BY <1>12, <1>t, <2>1 DEF Write
  <2>4. unheard' \in BOOLEAN
    BY <1>12, <1>t DEF Write
  <2>5. QED
    BY <1>12, <1>t, <2>2, <2>3, <2>4 DEF Write, SyncTypes
<1>13. ASSUME NEW i \in inputs, Reply(i) PROVE SyncTypes'
  <2>1. i.attempt \in Nat
    BY <1>t
  <2>2. [event |-> "ack", body |-> myState(i.attempt)] \in Messages
    BY <2>1, Telling, Words
  <2>3. channel' \in Seq(Messages) /\ (link' = "down" => channel' = <<>>)
    BY <1>13, <1>e, <1>t, <2>2 DEF Reply, Answer
  <2>4. QED
    BY <1>13, <1>t, <2>3 DEF Reply, SyncTypes
<1>14. CASE ConnectPhone
  <2>1. [at |-> "read", row |-> NoRow] \in Connections
    BY <1>t
  <2>2. QED
    BY <1>14, <1>t, <2>1 DEF ConnectPhone, SyncTypes
<1>15. CASE ConnectRead
  <2>1. [at |-> "snapshot", row |-> SessionRow] \in Connections
    BY <1>t
  <2>2. link # "down"
    BY <1>15, <1>t DEF ConnectRead, Idle
  <2>3. QED
    BY <1>15, <1>t, <2>1, <2>2 DEF ConnectRead, SyncTypes
<1>16. CASE ConnectSnapshot
  <2>1. channel' \in Seq(Messages)
    BY <1>16, <1>e, <1>t, Building DEF ConnectSnapshot
  <2>2. link # "down" /\ connecting' \in Connections
    BY <1>16, <1>t DEF ConnectSnapshot, Idle
  <2>3. QED
    BY <1>16, <1>t, <2>1, <2>2 DEF ConnectSnapshot, SyncTypes
<1>17. CASE ConnectMe
  <2>1. connecting.row.attempt \in Nat
    BY <1>t DEF Rows
  <2>2. channel' \in Seq(Messages)
    BY <1>17, <1>e, <2>1, Telling, Words DEF ConnectMe
  <2>3. link # "down" /\ connecting' \in Connections
    BY <1>17, <1>t DEF ConnectMe, Idle
  <2>4. QED
    BY <1>17, <1>t, <2>2, <2>3 DEF ConnectMe, SyncTypes
<1>18. CASE Drop
  <2>1. \A i \in inputs : [i EXCEPT !.wired = FALSE] \in Inputs
    BY <1>t
  <2>2. inputs' \subseteq Inputs
    BY <1>18, <2>1 DEF Drop
  <2>3. channel' \in Seq(Messages)
    BY <1>18 DEF Drop
  <2>4. QED
    BY <1>18, <1>t, <2>2, <2>3 DEF Drop, SyncTypes
<1>19. CASE Reload
  <2>1. Blank \in Snapshots /\ emptyMe(0) \in States /\ "unknown" \in MyLife
    BY Words DEF Blank, Snapshots, MyLife
  <2>2. QED
    BY <1>19, <1>t, <2>1 DEF Reload, SyncTypes
<1>20. CASE Receive
  <2>1. channel' \in Seq(Messages) /\ link # "down"
    BY <1>20, <1>t, Received, Taking
  <2>2. view' \in Snapshots /\ me' \in States /\ lifeAttemptId' \in Nat /\ lifeFromEvent' \in MyLife
    BY <1>20, <1>t, <1>l, Received, SnapshotFacts, RaceFacts, MeFacts, NamelessFacts DEF OnAck
  <2>3. QED
    BY <1>20, <1>t, <2>1, <2>2, Received DEF SyncTypes
<1>21. CASE Hold
  <2>1. channel' \in Seq(Messages) /\ (link' = "down" => channel' = <<>>) /\ link' = link
    <3>1. CASE Emit("hold", RaceOf(engine))
      BY <1>21, <1>e, <1>t, <3>1, Naming, Words DEF Hold
    <3>2. CASE ~Emit("hold", RaceOf(engine))
      <4> DEFINE out == [event |-> "eliminated", body |-> TRUE]  reply == [event |-> "hold", body |-> "eliminated"]
      <4>1. out \in Messages /\ reply \in Messages
        BY <1>l, Naming
      <4>2. channel' = channel \o <<out, reply>> /\ link = "up" /\ link' = link
        BY <1>21, <3>2 DEF Hold, padVisible
      <4> HIDE DEF out, reply
      <4>3. QED
        BY <1>t, <4>1, <4>2
    <3>3. QED
      BY <3>1, <3>2
  <2>2. life' \in MyLife
    BY <1>21, <1>l, <1>t DEF Hold, Decide
  <2>3. QED
    BY <1>21, <1>t, <2>1, <2>2 DEF Hold, SyncTypes
<1>22. CASE UNCHANGED syncVars
  BY <1>22, <1>t DEF syncVars, SyncTypes
<1>23. QED
  BY <1>1, <1>2, <1>3, <1>4, <1>5, <1>6, <1>7, <1>8, <1>9, <1>10, <1>11, <1>12, <1>13, <1>14, <1>15, <1>16,
     <1>17, <1>18, <1>19, <1>20, <1>21, <1>22 DEF SyncNext

--------------------------------------------------------------------------------
(***************************************************************************)
(* The server's side.                                                      *)
(***************************************************************************)

ServerSide == <<stage, current, created, isRace, locked, life, engine>>

\* A fate is decided only of a race that runs.
LEMMA Deciding ==
  ASSUME SyncTypes, ServerInv, Racing
  PROVE  /\ life = "alive" /\ isRace /\ stage = "RoundActive" /\ current = created /\ created # 0
         /\ engine = created
BY DEF Racing, RaceOf, ServerInv, SyncTypes, Started

LEMMA ServerStep == SyncTypes /\ ServerInv /\ UnderwayInv /\ [SyncNext]_syncVars => ServerInv'
<1> SUFFICES ASSUME SyncTypes, ServerInv, UnderwayInv, [SyncNext]_syncVars PROVE ServerInv'
  OBVIOUS
<1>t. created \in Nat /\ locked \subseteq 1..created /\ stage \in Stages /\ current \in Nat
  BY DEF SyncTypes
<1>f. UNCHANGED ServerSide => ServerInv'
  BY DEF ServerSide, ServerInv, Started
<1>d. ASSUME UNCHANGED <<stage, current, created, isRace, locked, engine>>, Racing, Decide("finished") \/ Decide("eliminated")
      PROVE  ServerInv'
  BY <1>d, Deciding DEF ServerInv, Started, Decide
<1> USE DEF server, play, Publishes
<1>1. CASE Prepare
  <2>1. created + 1 \notin locked
    BY <1>t
  <2>2. QED
    BY <1>1, <1>t, <2>1 DEF Prepare, ServerInv, Started
<1>2. CASE Start
  BY <1>2, <1>t DEF Start, ServerInv, Started
<1>3. CASE Resume
  BY <1>3 DEF Resume, ServerInv, Started
<1>4. CASE CloseRound
  <2>1. PICK l \in MyLife : (l # RaceOf(current) => RaceOf(current) = "alive" /\ l \in Outcomes) /\ life' = l
    BY <1>4 DEF CloseRound
  <2>2. /\ stage' = "InputLocked" /\ stage = "RoundActive"
        /\ UNCHANGED <<current, created, isRace, locked, engine>>
    BY <1>4 DEF CloseRound
  <2>3. isRace => RaceOf(current) = life /\ life # "unknown"
    BY <2>2 DEF ServerInv, Started, RaceOf
  <2>4. ~isRace => RaceOf(current) = "unknown"
    BY <2>2 DEF ServerInv, RaceOf
  <2>5. QED
    BY <2>1, <2>2, <2>3, <2>4 DEF ServerInv, Started, Outcomes
<1>5. CASE ShowGameResults
  BY <1>5 DEF ShowGameResults, ServerInv, Started
<1>6. CASE Tick
  BY <1>6, <1>d DEF Tick
<1>7. CASE Hold
  BY <1>7, <1>d, <1>f DEF Hold, ServerSide
<1>8. ASSUME NEW i \in inputs, Write(i) PROVE ServerInv'
  <2>1. UNCHANGED <<stage, current, created, isRace, life, engine>> /\ locked' = locked \cup {i.attempt}
    BY <1>8 DEF Write
  <2>2. stage = "Ready" => i.attempt # created
    BY DEF UnderwayInv
  <2>3. QED
    BY <2>1, <2>2 DEF ServerInv, Started
<1>9. CASE Publish \/ StartSnapshot \/ (\E row \in builders : FinishSnapshot(row)) \/ RaceEvent \/ Accept
  BY <1>9, <1>f DEF Publish, StartSnapshot, FinishSnapshot, RaceEvent, Accept, ServerSide
<1>10. CASE ConnectPhone \/ ConnectRead \/ ConnectSnapshot \/ ConnectMe \/ Drop \/ Reload \/ UNCHANGED syncVars
  BY <1>10, <1>f DEF ConnectPhone, ConnectRead, ConnectSnapshot, ConnectMe, Drop, Reload, syncVars, ServerSide
<1>11. ASSUME NEW i \in inputs, Reply(i) PROVE ServerInv'
  BY <1>11, <1>f DEF Reply, ServerSide
<1>12. CASE Receive
  BY <1>12, <1>f DEF Receive, ServerSide
<1>13. QED
  BY <1>1, <1>2, <1>3, <1>4, <1>5, <1>6, <1>7, <1>8, <1>9, <1>10, <1>11, <1>12 DEF SyncNext

LEMMA UnderwayStep ==
  SyncTypes /\ ServerInv /\ UnderwayInv /\ [SyncNext]_syncVars => UnderwayInv'
<1> SUFFICES ASSUME SyncTypes, ServerInv, UnderwayInv, [SyncNext]_syncVars PROVE UnderwayInv'
  OBVIOUS
<1> DEFINE Inputs == [attempt : 1..created, wired : BOOLEAN, at : {"write", "reply"}]
<1>t. /\ created \in Nat /\ stage \in Stages /\ inputs \subseteq Inputs
      /\ connecting \in [at : {"no", "read", "snapshot", "me"}, row : Rows] /\ seq \in Nat
  BY DEF SyncTypes
<1>f. ASSUME UNCHANGED <<stage, created, isRace, connecting>>, locked \subseteq locked', inputs' \subseteq inputs
      PROVE  UnderwayInv'
  BY <1>f DEF UnderwayInv, Started
<1>c. ASSUME UNCHANGED <<stage, created, isRace, locked, inputs>>,
             connecting'.at \in {"no", "read"} => connecting'.row = NoRow,
             connecting'.at \in {"snapshot", "me"} =>
               connecting'.row.seq >= 0 /\ (Started => connecting'.row.attempt = created)
      PROVE  UnderwayInv'
  BY <1>c DEF UnderwayInv, Started
<1> USE DEF server, play, Publishes
<1>1. CASE Prepare
  <2>1. /\ created' = created + 1 /\ stage' = "Ready" /\ UNCHANGED <<locked, inputs, connecting>>
    BY <1>1 DEF Prepare
  <2>2. \A i \in inputs : i.attempt # created + 1
    BY <1>t
  <2>3. QED
    BY <2>1, <2>2 DEF UnderwayInv, Started
<1>2. CASE Start
  <2>1. /\ stage = "Ready" /\ stage' = "RoundActive" /\ UNCHANGED <<created, isRace, locked, inputs, connecting>>
        /\ \A i \in inputs : i.attempt = current
        /\ connecting.row # NoRow => connecting.row.attempt = current
    BY <1>2 DEF Start, Settled
  <2>2. current = created
    BY <2>1 DEF ServerInv
  <2>3. connecting.row.seq >= 0 => connecting.row # NoRow
    BY DEF NoRow
  <2>4. QED
    BY <2>1, <2>2, <2>3 DEF UnderwayInv, Started
<1>3. CASE Resume
  BY <1>3, <1>f DEF Resume
<1>4. CASE CloseRound
  BY <1>4 DEF CloseRound, UnderwayInv, Started
<1>5. CASE ShowGameResults
  BY <1>5 DEF ShowGameResults, UnderwayInv, Started
<1>6. CASE Tick \/ Hold
  BY <1>6, <1>f DEF Tick, Hold
<1>7. ASSUME NEW i \in inputs, Write(i) PROVE UnderwayInv'
  <2> DEFINE j == [i EXCEPT !.at = "reply"]
  <2>1. i \in Inputs
    BY <1>t
  <2>2. j.attempt = i.attempt /\ i.attempt \in locked'
    BY <1>7, <2>1 DEF Write
  <2>3. UNCHANGED <<stage, created, isRace, connecting>> /\ locked \subseteq locked' /\ inputs' \subseteq inputs \cup {j}
    BY <1>7 DEF Write
  <2> HIDE DEF j
  <2>4. QED
    BY <2>2, <2>3 DEF UnderwayInv, Started
<1>8. CASE Accept
  <2> DEFINE j == [attempt |-> current, wired |-> TRUE, at |-> "write"]
  <2>1. j.attempt = created /\ j.at # "reply" /\ ~isRace /\ stage = "RoundActive"
    BY <1>8 DEF Accept, ServerInv
  <2>2. UNCHANGED <<stage, created, isRace, locked, connecting>> /\ inputs' = inputs \cup {j}
    BY <1>8 DEF Accept
  <2> HIDE DEF j
  <2>3. QED
    BY <2>1, <2>2 DEF UnderwayInv, Started
<1>9. CASE Drop
  <2>1. \A i \in inputs : LET j == [i EXCEPT !.wired = FALSE] IN j.attempt = i.attempt /\ j.at = i.at
    BY <1>t
  <2>2. /\ \A j \in inputs' : \E i \in inputs : j.attempt = i.attempt /\ j.at = i.at
        /\ UNCHANGED <<stage, created, isRace, locked>> /\ connecting' = Idle
    BY <1>9, <2>1 DEF Drop
  <2>3. QED
    BY <2>2 DEF UnderwayInv, Started, Idle
<1>10. CASE Publish \/ StartSnapshot \/ (\E row \in builders : FinishSnapshot(row)) \/ RaceEvent
  BY <1>10, <1>f DEF Publish, StartSnapshot, FinishSnapshot, RaceEvent
<1>11. CASE ConnectPhone
  BY <1>11, <1>c DEF ConnectPhone
<1>12. CASE ConnectRead
  <2>1. connecting' = [at |-> "snapshot", row |-> SessionRow] /\ UNCHANGED <<stage, created, isRace, locked, inputs>>
    BY <1>12 DEF ConnectRead
  <2>2. SessionRow.seq >= 0 /\ (Started => SessionRow.attempt = created)
    BY <1>t DEF SessionRow, ServerInv, Started
  <2>3. QED
    BY <1>c, <2>1, <2>2
<1>13. CASE ConnectSnapshot
  <2>1. connecting'.at = "me" /\ connecting'.row = connecting.row /\ connecting.at = "snapshot"
    BY <1>13, <1>t DEF ConnectSnapshot
  <2>2. UNCHANGED <<stage, created, isRace, locked, inputs>>
    BY <1>13 DEF ConnectSnapshot
  <2>3. QED
    BY <1>c, <2>1, <2>2 DEF UnderwayInv
<1>14. CASE ConnectMe
  BY <1>14, <1>c DEF ConnectMe, Idle
<1>15. CASE Reload \/ UNCHANGED syncVars
  BY <1>15, <1>f DEF Reload, syncVars
<1>16. ASSUME NEW i \in inputs, Reply(i) PROVE UnderwayInv'
  BY <1>16, <1>f DEF Reply
<1>17. CASE Receive
  BY <1>17, <1>f DEF Receive
<1>18. QED
  BY <1>1, <1>2, <1>3, <1>4, <1>5, <1>6, <1>7, <1>8, <1>9, <1>10, <1>11, <1>12, <1>13, <1>14, <1>15, <1>16, <1>17
  DEF SyncNext

--------------------------------------------------------------------------------
(***************************************************************************)
(* Rows.                                                                   *)
(***************************************************************************)

AnyRow == Rows \cup Snapshots

LEMMA RowFacts ==
  /\ \A r \in AnyRow : r.seq \in Int /\ r.attempt \in Nat
  /\ \A r \in Rows, b \in Nat : RowOK(Snapshot(r), b) <=> RowOK(r, b)
BY DEF AnyRow, Rows, Snapshots, Snapshot, RowOK

LEMMA NoRowOK == SyncTypes => \A b \in Nat : RowOK(NoRow, b) /\ RowOK(Blank, b)
BY DEF SyncTypes, RowOK, NoRow, Blank

\* While the session's row stays, so does what is right about the others.
LEMMA RowKept ==
  UNCHANGED <<seq, stage, current, created>> => \A r, b : RowOK(r, b) => RowOK(r, b)'
BY DEF RowOK, Started

\* A row that is written for the attempt on stage.
LEMMA RowOfSame ==
  ASSUME SyncTypes, NEW b \in 0..seq, seq' = seq + 1, UNCHANGED <<current, created>>, Started'
  PROVE  \A r \in AnyRow : RowOK(r, b) => RowOK(r, b)'
BY RowFacts DEF SyncTypes, RowOK

\* A row that is written for another one.
LEMMA RowOfOther ==
  ASSUME SyncTypes, NEW b \in 0..seq, seq' = seq + 1,
         \/ current' = created + 1 /\ created' = created + 1
         \/ current' = 0 /\ created' = created
  PROVE  \A r \in AnyRow, c \in Nat : c = seq' /\ RowOK(r, b) => RowOK(r, c)'
<1> SUFFICES ASSUME NEW r \in AnyRow, RowOK(r, b), NEW c \in Nat, c = seq' PROVE RowOK(r, c)'
  OBVIOUS
<1>1. r.seq \in Int /\ r.attempt \in Nat /\ seq \in Nat /\ created \in Nat
  BY RowFacts DEF SyncTypes
<1>2. QED
  BY <1>1 DEF RowOK

\* Everything but the session's row and the job is as right as it was.
LEMMA RowsMoved ==
  ASSUME SyncTypes, NEW b \in Nat, RowsOK(b), NEW c \in Nat, \A r \in AnyRow : RowOK(r, b) => RowOK(r, c)',
         UNCHANGED <<builders, connecting, view>>, Extended, \A n \in Added : channel'[n].event # "snapshot",
         c \in 0..seq', NEW j \in Rows, job' = j, RowOK(j, c)', j # NoRow => j.seq = seq'
  PROVE  RowsOK(c)'
<1>1. /\ builders \subseteq AnyRow /\ connecting.row \in AnyRow /\ view \in AnyRow
      /\ \A n \in DOMAIN channel : channel[n].event = "snapshot" => channel[n].body \in AnyRow
  <2>1. \A n \in DOMAIN channel : channel[n] \in Messages
    BY DEF SyncTypes
  <2>2. QED
    BY <2>1, Bodies DEF SyncTypes, AnyRow
<1>2. \A r \in builders' : RowOK(r, c)' /\ r.seq >= 0
  BY <1>1 DEF RowsOK
<1>3. RowOK(connecting.row, c)' /\ RowOK(view, c)'
  <2>1. \A r : r = connecting.row \/ r = view => RowOK(r, c)'
    BY <1>1 DEF RowsOK
  <2>2. \A r : r = connecting'.row \/ r = view' => RowOK(r, c)'
    BY <2>1
  <2>3. QED
    BY <2>2 DEF RowOK
<1>4. ASSUME NEW n \in DOMAIN channel', channel'[n].event = "snapshot"
      PROVE  RowOK(channel[n].body, c)' /\ channel'[n].body.seq >= 0
  <2>1. n \in DOMAIN channel /\ channel'[n] = channel[n]
    BY <1>4 DEF Extended
  <2>2. \A r : r = channel[n].body => RowOK(r, c)' /\ r.seq >= 0
    BY <1>1, <1>4, <2>1 DEF RowsOK
  <2>3. \A r : r = channel'[n].body => RowOK(r, c)' /\ r.seq >= 0
    BY <2>1, <2>2
  <2>4. QED
    BY <2>3 DEF RowOK
<1>5. RowOK(job, c)' /\ (job' # NoRow => job'.seq = seq')
  BY DEF RowOK
<1>6. QED
  BY <1>2, <1>3, <1>4, <1>5 DEF RowsOK

\* A job writes the session's row and publishes it next.
LEMMA RowsPublished ==
  ASSUME SyncTypes, NEW b \in Nat, RowsOK(b), NEW c \in Nat, \A r \in AnyRow : RowOK(r, b) => RowOK(r, c)',
         UNCHANGED <<builders, connecting, view>>, Extended, \A n \in Added : channel'[n].event # "snapshot",
         NEW s \in Stages, NEW a \in Nat, Publishes(s, a), c \in 0..(seq + 1), a <= created',
         a # 0 => s # "GameResults", s = "RoundActive" => a # 0
  PROVE  RowsOK(c)'
<1>1. seq' = seq + 1 /\ stage' = s /\ current' = a /\ seq \in Nat
  BY DEF Publishes, SyncTypes
<1>2. PICK j \in Rows : job' = j /\ j.seq = seq' /\ j.attempt = a /\ j.stage = s
  <2>1. job' = [seq |-> seq + 1, attempt |-> a, stage |-> s]
    BY DEF Publishes
  <2>2. job' \in Rows /\ job'.seq = seq' /\ job'.attempt = a /\ job'.stage = s
    BY <1>1, <2>1 DEF Rows
  <2>3. QED
    BY <2>2
<1>3. c \in 0..seq' /\ (s = "RoundActive" => Started')
  BY <1>1 DEF Started
<1>4. RowOK(j, c)'
  <2>1. a # 0 => seq' >= c
    BY <1>1, <1>3
  <2>2. QED
    BY <1>1, <1>2, <1>3, <2>1 DEF RowOK
<1>5. QED
  BY <1>1, <1>2, <1>3, <1>4, RowsMoved

LEMMA RowsStep ==
  SyncTypes /\ ServerInv /\ UnderwayInv /\ RowsInv /\ PhoneInv /\ [SyncNext]_syncVars => RowsInv'
<1> SUFFICES ASSUME SyncTypes, ServerInv, UnderwayInv, RowsInv, PhoneInv, [SyncNext]_syncVars PROVE RowsInv'
  OBVIOUS
<1>b. PICK b \in Nat : RowsOK(b)
  BY DEF RowsInv
<1>t. /\ seq \in Nat /\ created \in Nat /\ current \in Nat /\ stage \in Stages /\ job \in Rows /\ b \in 0..seq
      /\ SessionRow \in Rows /\ builders \subseteq Rows /\ connecting.row \in Rows /\ view \in Snapshots
  BY <1>b, Words DEF SyncTypes, RowsOK
<1>s. SessionRow.seq >= 0 /\ RowOK(SessionRow, b)
  <2>1. SessionRow.seq = seq /\ SessionRow.attempt = current /\ SessionRow.stage = stage
    BY DEF SessionRow
  <2>2. current <= created /\ (stage = "RoundActive" => current # 0 /\ Started)
    BY <1>t DEF ServerInv, Started, Stages
  <2>3. current # 0 => seq >= b
    BY <1>t
  <2>4. QED
    BY <1>t, <2>1, <2>2, <2>3 DEF RowOK
<1> DEFINE Same == UNCHANGED <<seq, stage, current, created>>
\* Steps that leave the session's row: what is new comes from an old row.
<1>k. ASSUME Same, job' \in {job, NoRow},
             \A r \in builders' : r \in builders \/ r = SessionRow,
             connecting'.row \in {connecting.row, NoRow, SessionRow},
             \/ view' \in {view, Blank}
             \/ \E n \in DOMAIN channel : channel[n].event = "snapshot" /\ view' = channel[n].body
             \/ view'.seq = view.seq /\ view'.attempt = view.attempt /\ view'.stage = view.stage,
             \A n \in DOMAIN channel' : channel'[n].event = "snapshot" =>
               \/ \E k \in DOMAIN channel : channel'[n] = channel[k]
               \/ \E r \in Rows : channel'[n].body = Snapshot(r) /\ RowOK(r, b) /\ r.seq >= 0
      PROVE  RowsInv'
  <2>1. \A r : RowOK(r, b) => RowOK(r, b)'
    BY <1>k, RowKept
  <2>2. RowOK(NoRow, b) /\ RowOK(Blank, b)
    BY NoRowOK
  <2>3. RowOK(job, b)' /\ (job' # NoRow => job'.seq = seq')
    <3>1. \A r : r = job' => RowOK(r, b)'
      BY <1>b, <1>k, <2>1, <2>2 DEF RowsOK
    <3>2. job' # NoRow => job'.seq = seq'
      BY <1>b, <1>k DEF RowsOK
    <3>3. QED
      BY <3>1, <3>2 DEF RowOK
  <2>4. \A r \in builders' : RowOK(r, b)' /\ r.seq >= 0
    BY <1>b, <1>k, <1>s, <2>1 DEF RowsOK
  <2>5. RowOK(connecting.row, b)'
    <3>1. \A r : r = connecting'.row => RowOK(r, b)'
      BY <1>b, <1>k, <1>s, <2>1, <2>2 DEF RowsOK
    <3>2. QED
      BY <3>1 DEF RowOK
  <2>6. RowOK(view, b)'
    <3>1. \A r : r = view' => RowOK(r, b)
      <4>1. CASE view' \in {view, Blank}
        BY <1>b, <2>2, <4>1 DEF RowsOK
      <4>2. CASE \E n \in DOMAIN channel : channel[n].event = "snapshot" /\ view' = channel[n].body
        BY <1>b, <4>2 DEF RowsOK
      <4>3. CASE view'.seq = view.seq /\ view'.attempt = view.attempt /\ view'.stage = view.stage
        BY <1>b, <4>3 DEF RowsOK, RowOK
      <4>4. QED
        BY <1>k, <4>1, <4>2, <4>3
    <3>2. \A r : r = view' => RowOK(r, b)'
      BY <2>1, <3>1
    <3>3. QED
      BY <3>2 DEF RowOK
  <2>7. ASSUME NEW n \in DOMAIN channel', channel'[n].event = "snapshot"
        PROVE  RowOK(channel[n].body, b)' /\ channel'[n].body.seq >= 0
    <3>1. \A r : r = channel'[n].body => RowOK(r, b) /\ r.seq >= 0
      <4>1. CASE \E k \in DOMAIN channel : channel'[n] = channel[k]
        BY <1>b, <2>7, <4>1 DEF RowsOK
      <4>2. CASE \E r \in Rows : channel'[n].body = Snapshot(r) /\ RowOK(r, b) /\ r.seq >= 0
        <5>1. PICK r \in Rows : channel'[n].body = Snapshot(r) /\ RowOK(r, b) /\ r.seq >= 0
          BY <4>2
        <5>2. RowOK(Snapshot(r), b) /\ Snapshot(r).seq = r.seq
          BY <5>1, RowFacts DEF Snapshot
        <5>3. QED
          BY <5>1, <5>2
      <4>3. QED
        BY <1>k, <2>7, <4>1, <4>2
    <3>2. \A r : r = channel'[n].body => RowOK(r, b)' /\ r.seq >= 0
      BY <2>1, <3>1
    <3>3. QED
      BY <3>2 DEF RowOK
  <2>8. b \in 0..seq'
    BY <1>k, <1>t
  <2>9. RowsOK(b)'
    BY <2>3, <2>4, <2>5, <2>6, <2>7, <2>8 DEF RowsOK
  <2>10. QED
    BY <2>9 DEF RowsInv
\* What follows sends no snapshot.
<1>q. ASSUME NEW event, NEW body, [event |-> event, body |-> body] \in Messages, Emit(event, body), link' = link,
             event # "snapshot"
      PROVE  Extended /\ \A n \in Added : channel'[n].event # "snapshot"
  BY <1>q, Sending
<1>x. ASSUME Extended, \A n \in Added : channel'[n].event # "snapshot"
      PROVE  \A n \in DOMAIN channel' : channel'[n].event = "snapshot" =>
               \E k \in DOMAIN channel : channel'[n] = channel[k]
  BY <1>x DEF Extended
<1>y. ASSUME NEW r \in Rows, Emit("snapshot", Snapshot(r)), link' = link, RowOK(r, b), r.seq >= 0
      PROVE  \A n \in DOMAIN channel' : channel'[n].event = "snapshot" =>
               \/ \E k \in DOMAIN channel : channel'[n] = channel[k]
               \/ \E q \in Rows : channel'[n].body = Snapshot(q) /\ RowOK(q, b) /\ q.seq >= 0
  BY <1>y, Building, Sending DEF Extended
<1>z. channel' = channel => Extended /\ \A n \in Added : channel'[n].event # "snapshot"
  BY Silent
<1> USE DEF server, play, phone, net
<1>1. CASE Publish
  <2>1. RowOK(job, b) /\ job.seq >= 0
    BY <1>1, <1>b, <1>t DEF Publish, RowsOK
  <2>2. QED
    BY <1>1, <1>k, <1>t, <1>y, <2>1 DEF Publish
<1>2. ASSUME NEW row \in builders, FinishSnapshot(row) PROVE RowsInv'
  <2>1. RowOK(row, b) /\ row.seq >= 0 /\ row \in Rows
    BY <1>b, <1>t DEF RowsOK
  <2>2. QED
    BY <1>2, <1>k, <1>t, <1>y, <2>1 DEF FinishSnapshot
<1>3. CASE ConnectSnapshot
  <2>1. RowOK(connecting.row, b) /\ connecting.row.seq >= 0
    BY <1>3, <1>b DEF ConnectSnapshot, RowsOK, UnderwayInv
  <2>2. connecting'.row = connecting.row
    BY <1>3 DEF ConnectSnapshot, SyncTypes
  <2>3. QED
    BY <1>3, <1>k, <1>t, <1>y, <2>1, <2>2 DEF ConnectSnapshot
<1>4. CASE Prepare
  <2>c. PICK c \in Nat : c = seq + 1
    BY <1>t
  <2>1. created' = created + 1 /\ Publishes("Ready", created + 1) /\ Emit("me", emptyMe(created + 1)) /\ link' = link
        /\ UNCHANGED <<builders, connecting, view>>
    BY <1>4 DEF Prepare
  <2>2. created + 1 \in Nat /\ "Ready" \in Stages
    BY <1>t DEF Stages
  <2>3. seq' = seq + 1 /\ c = seq' /\ current' = created + 1
    BY <2>1, <2>c DEF Publishes
  <2>4. \A r \in AnyRow : RowOK(r, b) => RowOK(r, c)'
    BY <1>t, <2>1, <2>3, RowOfOther
  <2>5. [event |-> "me", body |-> emptyMe(created + 1)] \in Messages
    BY <2>2, Telling, Words
  <2>6. Extended /\ \A n \in Added : channel'[n].event # "snapshot"
    BY <1>q, <2>1, <2>5
  <2>7. c \in 0..(seq + 1) /\ created + 1 <= created'
    BY <1>t, <2>1, <2>2, <2>c
  <2>8. RowsOK(c)'
    BY <1>b, <1>t, <2>1, <2>2, <2>4, <2>6, <2>7, RowsPublished
  <2>9. QED
    BY <2>2, <2>8 DEF RowsInv
<1>5. CASE ShowGameResults
  <2>c. PICK c \in Nat : c = seq + 1
    BY <1>t
  <2>1. created' = created /\ Publishes("GameResults", 0) /\ channel' = channel
        /\ UNCHANGED <<builders, connecting, view>>
    BY <1>5 DEF ShowGameResults
  <2>2. "GameResults" \in Stages
    BY DEF Stages
  <2>3. seq' = seq + 1 /\ c = seq' /\ current' = 0
    BY <2>1, <2>c DEF Publishes
  <2>4. \A r \in AnyRow : RowOK(r, b) => RowOK(r, c)'
    BY <1>t, <2>1, <2>3, RowOfOther
  <2>5. c \in 0..(seq + 1) /\ 0 <= created'
    BY <1>t, <2>1, <2>c
  <2>6. RowsOK(c)'
    BY <1>b, <1>t, <1>z, <2>1, <2>2, <2>4, <2>5, RowsPublished
  <2>7. QED
    BY <2>2, <2>6 DEF RowsInv
\* The jobs of the attempt on stage.
<1>j. ASSUME NEW s \in {"RoundActive", "InputLocked"}, Publishes(s, current), created' = created, current = created,
             created # 0, UNCHANGED <<builders, connecting, view>>,
             Extended, \A n \in Added : channel'[n].event # "snapshot"
      PROVE  RowsInv'
  <2>1. seq' = seq + 1 /\ current' = current /\ stage' = s /\ s \in Stages
    BY <1>j DEF Publishes, Stages
  <2>2. Started'
    BY <2>1 DEF Started
  <2>3. \A r \in AnyRow : RowOK(r, b) => RowOK(r, b)'
    BY <1>j, <1>t, <2>1, <2>2, RowOfSame
  <2>4. b \in 0..(seq + 1) /\ current <= created'
    BY <1>j, <1>t
  <2>5. RowsOK(b)'
    BY <1>b, <1>j, <1>t, <2>1, <2>3, <2>4, RowsPublished
  <2>6. QED
    BY <2>5 DEF RowsInv
<1>6. CASE Start
  <2>1. Extended /\ \A n \in Added : channel'[n].event # "snapshot"
    BY <1>6, <1>q, <1>t, Telling, Words DEF Start, PushAtStart
  <2>2. QED
    BY <1>6, <1>j, <2>1 DEF Start, ServerInv
<1>7. CASE Resume
  <2>1. Extended /\ \A n \in Added : channel'[n].event # "snapshot"
    BY <1>7, <1>q, <1>t, Telling, Words DEF Resume
  <2>2. QED
    BY <1>7, <1>j, <2>1 DEF Resume, ServerInv
<1>8. CASE CloseRound
  BY <1>8, <1>j, <1>z DEF CloseRound, ServerInv
<1>9. CASE Tick
  <2>1. Extended /\ \A n \in Added : channel'[n].event # "snapshot"
    BY <1>9, <1>q, <1>z, Naming DEF Tick
  <2>2. QED
    BY <1>9, <1>k, <1>x, <2>1 DEF Tick
<1>10. CASE RaceEvent
  <2>1. life \in MyLife
    BY DEF SyncTypes
  <2>2. [event |-> "race", body |-> [attempt |-> current, race |-> life]] \in Messages
    BY <1>t, <2>1, Naming
  <2>3. Extended /\ \A n \in Added : channel'[n].event # "snapshot"
    BY <1>10, <1>q, <2>2 DEF RaceEvent
  <2>4. QED
    BY <1>10, <1>k, <1>x, <2>3 DEF RaceEvent
<1>11. ASSUME NEW i \in inputs, Reply(i) PROVE RowsInv'
  <2>1. i.attempt \in Nat
    BY DEF SyncTypes
  <2>2. [event |-> "ack", body |-> myState(i.attempt)] \in Messages
    BY <2>1, Telling, Words
  <2>3. Extended /\ \A n \in Added : channel'[n].event # "snapshot"
    BY <1>11, <1>q, <1>z, <2>2 DEF Reply, Answer
  <2>4. QED
    BY <1>11, <1>k, <1>x, <2>3 DEF Reply
<1>12. CASE ConnectMe
  <2>1. connecting.row.attempt \in Nat
    BY <1>t DEF Rows
  <2>2. Extended /\ \A n \in Added : channel'[n].event # "snapshot"
    BY <1>12, <1>q, <2>1, Telling, Words DEF ConnectMe
  <2>3. connecting'.row = NoRow
    BY <1>12 DEF ConnectMe, Idle
  <2>4. QED
    BY <1>12, <1>k, <1>x, <2>2, <2>3 DEF ConnectMe
<1>13. CASE Hold
  <2>1. Extended /\ \A n \in Added : channel'[n].event # "snapshot"
    <3>1. CASE Emit("hold", RaceOf(engine))
      <4>1. RaceOf(engine) \in MyLife
        BY Words DEF SyncTypes
      <4>2. QED
        BY <1>13, <1>q, <3>1, <4>1, Naming DEF Hold
    <3>2. CASE ~Emit("hold", RaceOf(engine))
      BY <1>13, <3>2, TwoMore DEF Hold
    <3>3. QED
      BY <3>1, <3>2
  <2>2. QED
    BY <1>13, <1>k, <1>x, <2>1 DEF Hold
<1>14. CASE StartSnapshot \/ Accept \/ (\E i \in inputs : Write(i)) \/ UNCHANGED syncVars
  BY <1>14, <1>k, <1>x, <1>z DEF StartSnapshot, Accept, Write, syncVars
<1>15. CASE ConnectPhone \/ ConnectRead
  <2>1. connecting'.row \in {NoRow, SessionRow}
    BY <1>15 DEF ConnectPhone, ConnectRead
  <2>2. QED
    BY <1>15, <1>k, <1>x, <1>z, <2>1 DEF ConnectPhone, ConnectRead
<1>16. CASE Drop
  <2>1. connecting'.row = NoRow /\ channel' = <<>>
    BY <1>16 DEF Drop, Idle
  <2>2. QED
    BY <1>16, <1>k, <2>1 DEF Drop
<1>17. CASE Reload
  BY <1>17, <1>k, <1>x, <1>z DEF Reload
<1>18. CASE Receive
  <2>1. \/ view' = view
        \/ channel[1].event = "snapshot" /\ view' = channel[1].body
        \/ view'.seq = view.seq /\ view'.attempt = view.attempt /\ view'.stage = view.stage
    BY <1>18, Received, SnapshotFacts, RaceFacts DEF OnEliminated, OnMe, OnAck, OnHold
  <2>2. /\ 1 \in DOMAIN channel
        /\ \A n \in DOMAIN channel' : \E k \in DOMAIN channel : channel'[n] = channel[k]
    BY <1>18, Received, Taking
  <2>3. UNCHANGED <<seq, stage, current, created, job, builders, connecting>>
    BY <1>18, Received
  <2>4. QED
    BY <1>k, <2>1, <2>2, <2>3
<1>19. QED
  BY <1>1, <1>2, <1>3, <1>4, <1>5, <1>6, <1>7, <1>8, <1>9, <1>10, <1>11, <1>12, <1>13, <1>14, <1>15, <1>16,
     <1>17, <1>18 DEF SyncNext
--------------------------------------------------------------------------------
(***************************************************************************)
(* Fates.                                                                  *)
(***************************************************************************)

\* Attempts are locked for good, and a fate once decided stays.
Onward == created' = created /\ locked \subseteq locked' /\ (life' = life \/ life \notin Outcomes)

\* What is on the way stays as true as it was.
LEMMA MessageKept ==
  ASSUME Onward, Extended, view'.attempt = view.attempt, NEW n \in 1..Len(channel), MessageOK(n)
  PROVE  MessageOK(n)'
<1>1. channel'[n] = channel[n] /\ n \in Nat /\ \A k \in 1..(n - 1) : channel'[k] = channel[k]
  <2>1. n \in Nat /\ \A k \in 1..(n - 1) : k \in 1..Len(channel)
    BY DEF Extended
  <2>2. QED
    BY <2>1 DEF Extended
<1>2. Earlier(n) => Earlier(n)'
  BY <1>1 DEF Earlier, Onward
<1>3. \A a, r : Claim(a, r) => Claim(a, r)'
  BY DEF Claim, Onward
<1>4. \A r : Nameless(n, r) => Nameless(n, r)'
  BY <1>2 DEF Nameless, Onward
<1> DEFINE m == channel[n]
<1>5. channel'[n] = m
  BY <1>1
<1>6. /\ m.event \in {"snapshot", "race", "me", "ack"} => Claim(m.body.attempt, m.body.race)
      /\ m.event = "me" /\ m.body.attempt = 0 => m.body.race = "unknown"
      /\ m.event = "ack" => m.body.race = "unknown" /\ m.body.locked
      /\ m.event \in {"me", "ack"} /\ m.body.locked => m.body.attempt \in locked
      /\ m.event = "eliminated" => Nameless(n, "eliminated")
      /\ m.event = "hold" => Nameless(n, m.body)
  BY DEF MessageOK
<1>7. PICK q : q = m
  OBVIOUS
<1>8. /\ q.event \in {"snapshot", "race", "me", "ack"} => Claim(q.body.attempt, q.body.race)'
      /\ q.event = "me" /\ q.body.attempt = 0 => q.body.race = "unknown"
      /\ q.event = "ack" => q.body.race = "unknown" /\ q.body.locked
      /\ q.event \in {"me", "ack"} /\ q.body.locked => q.body.attempt \in locked'
      /\ q.event = "eliminated" => Nameless(n, "eliminated")'
      /\ q.event = "hold" => Nameless(n, q.body)'
  BY <1>3, <1>4, <1>6, <1>7 DEF Onward
<1>9. q = channel'[n]
  BY <1>5, <1>7
<1> HIDE DEF m
<1>10. QED
  BY <1>8, <1>9 DEF MessageOK, Claim, Nameless

\* A claim about any attempt is kept by whoever has been told of it.
LEMMA PhoneKept == Onward /\ UNCHANGED phone /\ PhoneInv => PhoneInv'
BY DEF Onward, phone, PhoneInv, Claim

LEMMA FateKept ==
  ASSUME Onward, Extended, UNCHANGED phone, FateInv, \A n \in Added : MessageOK(n)'
  PROVE  FateInv'
<1>1. view'.attempt = view.attempt
  BY DEF phone
<1>2. \A n \in 1..Len(channel) : MessageOK(n)'
  BY <1>1, MessageKept DEF FateInv, Extended
<1>3. \A n \in DOMAIN channel' : MessageOK(n)'
  BY <1>2 DEF Extended
<1>4. QED
  BY <1>3, PhoneKept DEF FateInv

\* What a personal state says.
LEMMA OwnFacts ==
  ASSUME NEW a
  PROVE  /\ myState(a).attempt = a /\ emptyMe(a).attempt = a
         /\ myState(a).race = IF a # 0 /\ a = created THEN life ELSE "unknown"
         /\ emptyMe(a).race = "unknown"
         /\ ~emptyMe(a).locked /\ (myState(a).locked <=> a # 0 /\ a \in locked)
<1>1. emptyMe(a).attempt = a /\ emptyMe(a).race = "unknown" /\ ~emptyMe(a).locked
  BY DEF emptyMe
<1>2. CASE a = 0
  <2>1. myState(a) = emptyMe(a)
    BY <1>2 DEF myState
  <2>2. QED
    BY <1>1, <1>2, <2>1
<1>3. CASE a # 0
  <2>1. \A x, y : [attempt |-> a, locked |-> x, race |-> y].locked = x
    OBVIOUS
  <2>2. myState(a) = [attempt |-> a, locked |-> a \in locked, race |-> IF a = created THEN life ELSE "unknown"]
    BY <1>3 DEF myState
  <2>3. myState(a).locked = (a \in locked)
    BY <2>1, <2>2, Zenon
  <2>4. myState(a).attempt = a /\ myState(a).race = IF a = created THEN life ELSE "unknown"
    BY <2>2
  <2>5. QED
    BY <1>1, <1>3, <2>3, <2>4, Zenon
<1>4. QED
  BY <1>2, <1>3

\* What is sent is true.
LEMMA StateTrue ==
  ASSUME UNCHANGED <<created, locked, life>>, NEW a \in Nat, a <= created, NEW n, NEW p \in {myState(a), emptyMe(a)},
         NEW q, q = channel'[n], q.event = "me", q.body = p
  PROVE  MessageOK(n)'
<1>1. /\ p.attempt = a /\ (a = 0 => p.race = "unknown") /\ (p.locked => a \in locked)
      /\ (a # created => p.race = "unknown") /\ (a = created /\ p.race # "unknown" => p.race = life)
  <2>1. CASE p = emptyMe(a)
    BY <2>1, OwnFacts
  <2>2. CASE p = myState(a)
    BY <2>2, OwnFacts
  <2>3. QED
    BY <2>1, <2>2
<1>2. Claim(a, p.race)'
  BY <1>1 DEF Claim, Outcomes
<1>3. QED
  BY <1>1, <1>2 DEF MessageOK, Claim

LEMMA SnapshotTrue ==
  ASSUME SyncTypes, UNCHANGED <<created, locked, life>>, NEW r \in Rows, r.attempt <= created, NEW n,
         NEW q, q = channel'[n], q.event = "snapshot", NEW p, p = Snapshot(r), q.body = p
  PROVE  MessageOK(n)'
<1>1. p.attempt = r.attempt /\ (p.race = "unknown" \/ (r.attempt = engine /\ p.race = life)) /\ r.attempt \in Nat
  BY DEF Snapshot, RaceOf, Rows
<1>2. Claim(p.attempt, p.race)'
  BY <1>1 DEF Claim, Outcomes
<1>3. QED
  BY <1>2 DEF MessageOK, Claim
\* The phone learns only what is so, and a message that moves up is still right.
LEMMA FateReceived ==
  ASSUME SyncTypes, FateInv, Receive
  PROVE  FateInv'
<1>r. /\ UNCHANGED <<created, locked, life>>
      /\ \/ channel[1].event = "snapshot" /\ channel[1].body \in Snapshots /\ OnSnapshot(channel[1].body)
         \/ channel[1].event = "race" /\ channel[1].body \in Positions /\ OnRace(channel[1].body)
         \/ channel[1].event = "eliminated" /\ OnEliminated
         \/ channel[1].event = "me" /\ channel[1].body \in States /\ OnMe(channel[1].body)
         \/ channel[1].event = "ack" /\ channel[1].body \in States /\ OnAck(channel[1].body)
         \/ channel[1].event = "hold" /\ channel[1].body \in MyLife /\ OnHold(channel[1].body)
  BY Received
<1>t. /\ 1 \in DOMAIN channel /\ Len(channel) \in Nat
      /\ DOMAIN channel = 1..Len(channel) /\ DOMAIN channel' = 1..(Len(channel) - 1)
      /\ \A n \in DOMAIN channel' : n + 1 \in DOMAIN channel /\ channel'[n] = channel[n + 1]
  BY Received, Taking
<1>m. MessageOK(1) /\ PhoneInv
  BY <1>t DEF FateInv
<1>p. \A a, r : Claim(a, r) => Claim(a, r)'
  BY <1>r DEF Claim
<1>v. \/ UNCHANGED phone
      \/ view' = channel[1].body /\ channel[1].event = "snapshot"
      \/ view'.attempt = view.attempt /\ channel[1].event # "snapshot"
  BY <1>r, SnapshotFacts, RaceFacts DEF OnEliminated, OnMe, OnAck, OnHold
<1>1. ASSUME NEW n \in DOMAIN channel' PROVE MessageOK(n)'
  <2>1. n \in Nat /\ n + 1 \in DOMAIN channel /\ channel'[n] = channel[n + 1]
    BY <1>t
  <2>2. MessageOK(n + 1)
    BY <2>1 DEF FateInv
  <2>3. Earlier(n + 1) => Earlier(n)'
    <3>1. SUFFICES ASSUME Earlier(n + 1) PROVE Earlier(n)'
      OBVIOUS
    <3>2. \A k \in 1..n : channel[k].event = "snapshot" => channel[k].body.attempt # created
      BY <2>1, <3>1 DEF Earlier
    <3>3. view'.attempt # created
      BY <1>v, <2>1, <1>t, <3>1, <3>2 DEF Earlier, phone
    <3>4. \A k \in 1..(n - 1) : k + 1 \in 1..n /\ channel'[k] = channel[k + 1]
      BY <1>t, <2>1
    <3>5. \A k \in 1..(n - 1) : channel'[k].event = "snapshot" => channel'[k].body.attempt # created
      BY <3>2, <3>4
    <3>6. QED
      BY <1>r, <3>3, <3>5 DEF Earlier
  <2>4. \A r : Nameless(n + 1, r) => Nameless(n, r)'
    BY <1>r, <2>3 DEF Nameless
  <2>5. PICK q : q = channel[n + 1]
    OBVIOUS
  <2>6. /\ q.event \in {"snapshot", "race", "me", "ack"} => Claim(q.body.attempt, q.body.race)'
        /\ q.event = "me" /\ q.body.attempt = 0 => q.body.race = "unknown"
        /\ q.event = "ack" => q.body.race = "unknown" /\ q.body.locked
        /\ q.event \in {"me", "ack"} /\ q.body.locked => q.body.attempt \in locked'
        /\ q.event = "eliminated" => Nameless(n, "eliminated")'
        /\ q.event = "hold" => Nameless(n, q.body)'
    BY <1>p, <1>r, <2>2, <2>4, <2>5 DEF MessageOK
  <2>7. q = channel'[n]
    BY <2>1, <2>5
  <2>8. QED
    BY <2>6, <2>7 DEF MessageOK, Claim, Nameless
<1> DEFINE Told == /\ lifeAttemptId' = view'.attempt
                   /\ Claim(view'.attempt, view'.race) /\ Claim(view'.attempt, me'.race)
                   /\ Claim(view'.attempt, lifeFromEvent')
                   /\ me'.locked => me'.attempt \in locked
<1>2. Told
  <2>1. CASE UNCHANGED phone
    BY <1>m, <2>1 DEF PhoneInv, phone
  <2>2. CASE channel[1].event = "snapshot" /\ ~UNCHANGED phone
    BY <1>m, <1>r, <2>2, SnapshotFacts DEF PhoneInv, MessageOK, Claim, Outcomes
  <2>3. CASE channel[1].event = "race" /\ ~UNCHANGED phone
    BY <1>m, <1>r, <2>3, RaceFacts DEF PhoneInv, MessageOK, Claim, Outcomes
  <2>4. CASE channel[1].event = "me" /\ ~UNCHANGED phone
    <3> DEFINE p == channel[1].body
    <3>1. p \in States /\ OnMe(p) /\ lifeAttemptId = view.attempt
      BY <1>m, <1>r, <2>4 DEF PhoneInv
    <3>2. /\ Claim(p.attempt, p.race) /\ (p.attempt = 0 => p.race = "unknown") /\ (p.locked => p.attempt \in locked)
          /\ Claim(view.attempt, view.race) /\ Claim(view.attempt, lifeFromEvent)
      BY <1>m, <2>4 DEF MessageOK, PhoneInv
    <3> HIDE DEF p
    <3>3. /\ Taken(p) /\ view' = view /\ lifeAttemptId' = lifeAttemptId
          /\ me'.locked = p.locked /\ me'.attempt = p.attempt
          /\ me'.race \in {p.race, lifeFromEvent} /\ lifeFromEvent' \in {lifeFromEvent, p.race}
      BY <2>4, <3>1, MeFacts
    <3>4. Claim(view.attempt, p.race)
      BY <3>2, <3>3 DEF Claim, Taken, Outcomes
    <3>5. QED
      BY <3>1, <3>2, <3>3, <3>4
  <2>5. CASE channel[1].event = "ack"
    <3>1. me' = channel[1].body /\ UNCHANGED <<view, lifeAttemptId, lifeFromEvent>>
      BY <1>r, <2>5 DEF OnAck
    <3>2. channel[1].body.race = "unknown" /\ channel[1].body.attempt \in locked
      BY <1>m, <2>5 DEF MessageOK
    <3>3. QED
      BY <1>m, <3>1, <3>2 DEF PhoneInv, Claim, Outcomes
  <2>6. ASSUME NEW r \in MyLife, OnHold(r) \/ (r = "eliminated" /\ OnEliminated), Nameless(1, r)
        PROVE  Told
    <3>1. Claim(view.attempt, r)
      BY <1>m, <2>6 DEF Nameless, Earlier, Claim, PhoneInv
    <3>2. /\ view' = view /\ lifeAttemptId' = lifeAttemptId
          /\ me'.locked = me.locked /\ me'.attempt = me.attempt
          /\ me'.race \in {lifeFromEvent, r} /\ lifeFromEvent' \in {lifeFromEvent, r}
      BY <2>6, NamelessFacts
    <3>3. QED
      BY <1>m, <3>1, <3>2 DEF PhoneInv
  <2>7. CASE channel[1].event = "eliminated"
    BY <1>m, <1>r, <2>6, <2>7 DEF MessageOK, MyLife
  <2>8. CASE channel[1].event = "hold"
    BY <1>m, <1>r, <2>6, <2>8 DEF MessageOK
  <2>9. QED
    BY <1>r, <2>1, <2>2, <2>3, <2>4, <2>5, <2>7, <2>8
<1>3. PhoneInv'
  BY <1>2, <1>r DEF PhoneInv, Claim
<1>4. QED
  BY <1>1, <1>3 DEF FateInv
LEMMA FateStep ==
  SyncTypes /\ ServerInv /\ UnderwayInv /\ RowsInv /\ FateInv /\ [SyncNext]_syncVars => FateInv'
<1> SUFFICES ASSUME SyncTypes, ServerInv, UnderwayInv, RowsInv, FateInv, [SyncNext]_syncVars PROVE FateInv'
  OBVIOUS
<1>b. PICK b \in Nat : RowsOK(b)
  BY DEF RowsInv
<1>t. /\ created \in Nat /\ current \in Nat /\ current <= created /\ locked \subseteq 1..created /\ life \in MyLife
      /\ engine \in {0, created} /\ job \in Rows /\ builders \subseteq Rows /\ connecting.row \in Rows
      /\ \A i \in inputs : i.attempt \in 1..created
  BY DEF SyncTypes, ServerInv, Stages
\* Steps that send nothing.
<1>q. ASSUME Onward, UNCHANGED <<channel, phone>> PROVE FateInv'
  BY <1>q, Silent, FateKept
\* Steps that send one message.
<1>e. ASSUME Onward, UNCHANGED <<phone, link>>, NEW event, NEW body, [event |-> event, body |-> body] \in Messages,
             Emit(event, body), \A n : channel'[n].event = event /\ channel'[n].body = body => MessageOK(n)'
      PROVE  FateInv'
  <2>1. Extended /\ \A n \in Added : channel'[n].event = event /\ channel'[n].body = body
    BY <1>e, Sending
  <2>2. QED
    BY <1>e, <2>1, FateKept
<1>n. UNCHANGED <<created, locked, life>> => Onward
  BY DEF Onward
<1>s. ASSUME UNCHANGED <<created, locked, life, phone, link>>, NEW r \in Rows, r.attempt <= created,
             Emit("snapshot", Snapshot(r))
      PROVE  FateInv'
  <2>1. \A n : channel'[n].event = "snapshot" /\ channel'[n].body = Snapshot(r) => MessageOK(n)'
    BY <1>s, SnapshotTrue
  <2>2. QED
    BY <1>e, <1>n, <1>s, <2>1, Building
<1>m. ASSUME UNCHANGED <<created, locked, life, phone, link>>, NEW a \in Nat, a <= created,
             NEW p \in {myState(a), emptyMe(a)}, Emit("me", p)
      PROVE  FateInv'
  <2>1. \A n : channel'[n].event = "me" /\ channel'[n].body = p => MessageOK(n)'
    BY <1>m, StateTrue
  <2>2. [event |-> "me", body |-> p] \in Messages
    BY <1>m, Telling, Words
  <2>3. QED
    BY <1>e, <1>n, <1>m, <2>1, <2>2
<1> USE DEF server, play, net
<1>1. CASE Publish
  BY <1>1, <1>b, <1>s, <1>t DEF Publish, RowsOK, RowOK
<1>2. ASSUME NEW row \in builders, FinishSnapshot(row) PROVE FateInv'
  BY <1>2, <1>b, <1>s, <1>t DEF FinishSnapshot, RowsOK, RowOK
<1>3. CASE ConnectSnapshot
  BY <1>3, <1>b, <1>s, <1>t DEF ConnectSnapshot, RowsOK, RowOK
<1>4. CASE Prepare
  <2>1. /\ created' = created + 1 /\ life' = "unknown" /\ UNCHANGED <<locked, link, phone>>
        /\ Emit("me", emptyMe(created + 1))
    BY <1>4 DEF Prepare
  <2>2. PICK a \in Nat : a = created + 1
    BY <1>t
  <2>3. [event |-> "me", body |-> emptyMe(a)] \in Messages
    BY Telling, Words
  <2>4. Extended /\ \A n \in Added : channel'[n].event = "me" /\ channel'[n].body = emptyMe(a)
    BY <2>1, <2>2, <2>3, Sending
  <2>5. emptyMe(a).attempt = a /\ emptyMe(a).race = "unknown" /\ ~emptyMe(a).locked
    BY OwnFacts
  \* Whatever has been told is about an earlier attempt.
  <2>6. \A c \in Nat : \A r : Claim(c, r) => Claim(c, r)' /\ c # created'
    BY <1>t, <2>1 DEF Claim
  <2>a. /\ view.attempt \in Nat
        /\ \A n \in DOMAIN channel : channel[n].event \in {"snapshot", "race", "me", "ack"} =>
             channel[n].body.attempt \in Nat
    <3>1. \A n \in DOMAIN channel : channel[n] \in Messages
      BY DEF SyncTypes
    <3>2. \A m \in Messages : m.event \in {"snapshot", "race", "me", "ack"} => m.body.attempt \in Nat
      BY Bodies DEF Snapshots, Positions, States
    <3>3. view.attempt \in Nat
      BY DEF SyncTypes, Snapshots
    <3>4. QED
      BY <3>1, <3>2, <3>3
  <2>7. PhoneInv' /\ view'.attempt # created'
    <3>1. view' = view /\ me' = me /\ lifeAttemptId' = lifeAttemptId /\ lifeFromEvent' = lifeFromEvent
      BY <2>1 DEF phone
    <3>2. PhoneInv
      BY DEF FateInv
    <3>3. view.attempt # created'
      BY <2>6, <2>a, <3>2 DEF PhoneInv
    <3>4. /\ lifeAttemptId' = view'.attempt /\ (me'.locked => me'.attempt \in locked')
      BY <2>1, <3>1, <3>2 DEF PhoneInv
    <3>5. \A v, r : v = view.attempt /\ r \in {view.race, me.race, lifeFromEvent} => Claim(v, r)'
      BY <2>6, <2>a, <3>2 DEF PhoneInv
    <3>6. \A v, r : v = view'.attempt /\ r \in {view'.race, me'.race, lifeFromEvent'} => Claim(v, r)'
      BY <3>1, <3>5
    <3>7. QED
      BY <3>1, <3>3, <3>4, <3>6 DEF PhoneInv, Claim
  <2>8. ASSUME NEW n \in DOMAIN channel' PROVE MessageOK(n)'
    <3>1. CASE n \in Added
      BY <2>2, <2>4, <2>5, <3>1, <2>1 DEF MessageOK, Claim, Outcomes
    <3>2. CASE n \in 1..Len(channel)
      <4>1. n \in DOMAIN channel /\ channel'[n] = channel[n] /\ n \in Nat
            /\ \A k \in 1..(n - 1) : k \in DOMAIN channel /\ channel'[k] = channel[k]
        BY <2>4, <3>2 DEF Extended
      <4>2. \A k \in DOMAIN channel : channel[k].event = "snapshot" => channel[k].body.attempt # created'
        BY <2>6, <2>a DEF FateInv, MessageOK
      <4>3. Earlier(n)'
        <5>1. \A k \in 1..(n - 1) : channel'[k].event = "snapshot" => channel'[k].body.attempt # created'
          BY <4>1, <4>2
        <5>2. QED
          BY <2>7, <5>1 DEF Earlier
      <4>4. created' # 0
        BY <1>t, <2>1
      <4>5. PICK q : q = channel[n]
        OBVIOUS
      <4>6. MessageOK(n)
        BY <4>1 DEF FateInv
      <4>7. /\ q.event \in {"snapshot", "race", "me", "ack"} => Claim(q.body.attempt, q.body.race)'
            /\ q.event = "me" /\ q.body.attempt = 0 => q.body.race = "unknown"
            /\ q.event = "ack" => q.body.race = "unknown" /\ q.body.locked
            /\ q.event \in {"me", "ack"} /\ q.body.locked => q.body.attempt \in locked'
        BY <2>1, <2>6, <2>a, <4>1, <4>5, <4>6 DEF MessageOK
      <4>8. \A r : Nameless(n, r)'
        BY <4>3, <4>4 DEF Nameless
      <4>9. q = channel'[n]
        BY <4>1, <4>5
      <4>10. QED
        BY <4>7, <4>8, <4>9 DEF MessageOK, Claim, Nameless
    <3>3. QED
      BY <2>4, <2>8, <3>1, <3>2 DEF Extended
  <2>9. QED
    BY <2>7, <2>8 DEF FateInv
<1>5. CASE Start
  <2>1. /\ life = "unknown" /\ created' = created /\ UNCHANGED <<locked, link, phone>> /\ Emit("me", emptyMe(current))
    BY <1>5 DEF Start, PushAtStart, ServerInv
  <2>2. Onward
    BY <2>1 DEF Onward, Outcomes
  <2>3. [event |-> "me", body |-> emptyMe(current)] \in Messages
    BY <1>t, Telling, Words
  <2>4. emptyMe(current).attempt = current /\ emptyMe(current).race = "unknown" /\ ~emptyMe(current).locked
    BY OwnFacts
  <2>5. \A n : channel'[n].event = "me" /\ channel'[n].body = emptyMe(current) => MessageOK(n)'
    BY <1>t, <2>1, <2>4 DEF MessageOK, Claim, Outcomes
  <2>6. QED
    BY <1>e, <2>1, <2>2, <2>3, <2>5
<1>6. CASE Resume
  BY <1>6, <1>m, <1>t DEF Resume
<1>7. CASE CloseRound
  <2>1. PICK l \in MyLife : (l # RaceOf(current) => RaceOf(current) = "alive" /\ l \in Outcomes) /\ life' = l
    BY <1>7 DEF CloseRound
  <2>2. UNCHANGED <<created, locked, channel, phone>> /\ stage = "RoundActive"
    BY <1>7 DEF CloseRound
  <2>3. current = created /\ (isRace => RaceOf(current) = life) /\ (~isRace => life = "unknown")
    BY <2>2 DEF ServerInv, Started, RaceOf
  <2>4. life' = life \/ life \notin Outcomes
    BY <2>1, <2>3 DEF Outcomes
  <2>5. QED
    BY <1>q, <2>2, <2>4 DEF Onward
\* This player's fate, told at once or with the answer to a press.
<1>d. ASSUME Racing, Decide("finished") \/ Decide("eliminated"), UNCHANGED <<created, locked>>
      PROVE  Onward /\ created # 0
  BY <1>d, Deciding DEF Onward, Outcomes
<1>8. CASE Tick
  <2>1. UNCHANGED <<created, locked, link, phone>> /\ Racing
        /\ \/ (Decide("finished") \/ Decide("eliminated")) /\ channel' = channel
           \/ Decide("eliminated") /\ Emit("eliminated", TRUE)
    BY <1>8 DEF Tick
  <2>2. Onward /\ created # 0
    BY <1>d, <2>1
  <2>3. CASE channel' = channel
    BY <1>q, <2>1, <2>2, <2>3
  <2>4. CASE Decide("eliminated") /\ Emit("eliminated", TRUE)
    <3>1. \A n : channel'[n].event = "eliminated" => MessageOK(n)'
      BY <2>1, <2>2, <2>4 DEF MessageOK, Nameless, Decide
    <3>2. QED
      BY <1>e, <2>1, <2>2, <2>4, <3>1, Naming
  <2>5. QED
    BY <2>1, <2>3, <2>4
<1>9. CASE RaceEvent
  <2> DEFINE p == [attempt |-> current, race |-> life]
  <2>1. UNCHANGED <<created, locked, life, phone, link>> /\ Emit("race", p) /\ current = created
    BY <1>9 DEF RaceEvent, ServerInv
  <2>2. p.attempt = current /\ p.race = life /\ [event |-> "race", body |-> p] \in Messages
    BY <1>t, Naming
  <2> HIDE DEF p
  <2>3. \A n : channel'[n].event = "race" /\ channel'[n].body = p => MessageOK(n)'
    BY <1>t, <2>1, <2>2 DEF MessageOK, Claim
  <2>4. QED
    BY <1>e, <1>n, <2>1, <2>2, <2>3
<1>10. ASSUME NEW i \in inputs, Write(i) PROVE FateInv'
  BY <1>10, <1>q DEF Write, Onward
<1>11. ASSUME NEW i \in inputs, Reply(i) PROVE FateInv'
  <2>1. UNCHANGED <<created, locked, life, phone, link>> /\ Answer(i) /\ i.at = "reply"
    BY <1>11 DEF Reply
  <2>2. i.attempt \in locked /\ i.attempt <= created /\ i.attempt \in Nat /\ i.attempt # 0
        /\ (i.attempt = created => life = "unknown")
    BY <1>t, <2>1 DEF UnderwayInv, ServerInv
  <2>3. CASE ~i.wired
    BY <1>n, <1>q, <2>1, <2>3 DEF Answer
  <2>4. CASE i.wired
    <3>1. PICK p : p = myState(i.attempt)
      OBVIOUS
    <3>2. p.attempt = i.attempt /\ p.race = "unknown" /\ p.locked
      BY <2>2, <3>1, OwnFacts
    <3>3. [event |-> "ack", body |-> p] \in Messages /\ Emit("ack", p)
      BY <2>1, <2>2, <2>4, <3>1, Telling, Words DEF Answer
    <3>4. \A n : channel'[n].event = "ack" /\ channel'[n].body = p => MessageOK(n)'
      BY <2>1, <2>2, <3>2 DEF MessageOK, Claim, Outcomes
    <3>5. QED
      BY <1>e, <1>n, <2>1, <3>3, <3>4
  <2>5. QED
    BY <2>3, <2>4
<1>12. CASE ConnectMe
  <2>1. connecting.row.attempt \in Nat /\ connecting.row.attempt <= created
    BY <1>b, <1>t DEF RowsOK, RowOK, Rows
  <2>2. QED
    BY <1>12, <1>m, <2>1 DEF ConnectMe
<1>13. CASE Drop
  <2>1. DOMAIN channel' = {} /\ UNCHANGED <<created, locked, life, phone>>
    BY <1>13 DEF Drop
  <2>2. QED
    BY <1>n, <2>1, PhoneKept DEF FateInv
<1>14. CASE Reload
  <2>1. channel' = <<>> /\ UNCHANGED <<created, locked>>
    BY <1>14 DEF Reload, SyncTypes
  <2>2. DOMAIN channel' = {}
    BY <2>1
  <2>3. view'.attempt = 0 /\ ~me'.locked /\ lifeAttemptId' = 0 /\ created' \in Nat
    BY <1>14, <1>t, OwnFacts DEF Reload, Blank
  <2>4. QED
    BY <2>2, <2>3 DEF FateInv, PhoneInv, Claim
<1>15. CASE Hold
  <2>1. UNCHANGED <<created, locked, link, phone>>
    BY <1>15 DEF Hold
  <2>2. CASE life' = life /\ Emit("hold", RaceOf(engine))
    <3>1. PICK r \in MyLife : r = RaceOf(engine)
      BY <1>t, Words
    <3>2. r \in Outcomes => created # 0 /\ life = r
      BY <1>t, <3>1 DEF RaceOf, Outcomes
    <3>3. \A n : channel'[n].event = "hold" /\ channel'[n].body = r => MessageOK(n)'
      BY <2>1, <2>2, <3>2 DEF MessageOK, Nameless
    <3>4. [event |-> "hold", body |-> r] \in Messages
      BY Naming
    <3>5. QED
      BY <1>e, <1>n, <2>1, <2>2, <3>1, <3>3, <3>4
  <2>3. CASE ~(life' = life /\ Emit("hold", RaceOf(engine)))
    <3>1. /\ Racing /\ Decide("eliminated")
          /\ channel' = channel \o <<[event |-> "eliminated", body |-> TRUE],
                                     [event |-> "hold", body |-> "eliminated"]>>
      BY <1>15, <2>3 DEF Hold
    <3>2. Onward /\ created # 0 /\ life' = "eliminated"
      BY <1>d, <2>1, <3>1 DEF Decide
    <3>3. /\ Extended
          /\ \A n \in Added : \/ channel'[n].event = "eliminated"
                              \/ channel'[n].event = "hold" /\ channel'[n].body = "eliminated"
      BY <3>1, TwoMore
    <3>4. \A n \in Added : MessageOK(n)'
      BY <2>1, <3>2, <3>3 DEF MessageOK, Nameless
    <3>5. QED
      BY <2>1, <3>2, <3>3, <3>4, FateKept
  <2>4. QED
    BY <2>2, <2>3
<1>16. CASE ShowGameResults \/ StartSnapshot \/ Accept \/ ConnectPhone \/ ConnectRead \/ UNCHANGED syncVars
  BY <1>16, <1>n, <1>q DEF ShowGameResults, StartSnapshot, Accept, ConnectPhone, ConnectRead, syncVars
<1>17. CASE Receive
  BY <1>17, FateReceived
<1>18. QED
  BY <1>1, <1>2, <1>3, <1>4, <1>5, <1>6, <1>7, <1>8, <1>9, <1>10, <1>11, <1>12, <1>13, <1>14, <1>15, <1>16, <1>17
  DEF SyncNext
--------------------------------------------------------------------------------
(***************************************************************************)
(* What is told of the attempt on stage.                                   *)
(***************************************************************************)

\* Steps of the server that leave the phone alone: no lock of another attempt is told in a
\* round that has started, and nothing that takes a lock of this one back.
Calm ==
  /\ UNCHANGED <<created, isRace, link, view, me>> /\ (Started' => Started) /\ Extended
  /\ \A n \in Added : /\ channel'[n].event = "ack" /\ Started => channel'[n].body.attempt = created
                      /\ channel'[n].event = "me" /\ ~channel'[n].body.locked /\ Started => created \notin locked

CalmSteps ==
  \/ Publish \/ StartSnapshot \/ (\E row \in builders : FinishSnapshot(row)) \/ Tick \/ RaceEvent \/ Accept
  \/ (\E i \in inputs : Write(i) \/ Reply(i)) \/ ConnectRead \/ ConnectSnapshot \/ ConnectMe \/ Hold
  \/ Resume \/ CloseRound \/ UNCHANGED syncVars

LEMMA CalmStep == SyncTypes /\ ServerInv /\ UnderwayInv /\ CalmSteps => Calm
<1> SUFFICES ASSUME SyncTypes, ServerInv, UnderwayInv, CalmSteps PROVE Calm
  OBVIOUS
<1>t. /\ current \in Nat /\ job \in Rows /\ builders \subseteq Rows /\ connecting.row \in Rows /\ life \in MyLife
      /\ engine \in Nat
      /\ \A i \in inputs : i.attempt \in Nat
  BY DEF SyncTypes
<1> DEFINE Rest == UNCHANGED <<created, isRace, link, view, me>> /\ (Started' => Started)
<1>q. ASSUME Rest, channel' = channel PROVE Calm
  BY <1>q, Silent DEF Calm
<1>e. ASSUME Rest, NEW event, NEW body, [event |-> event, body |-> body] \in Messages, Emit(event, body),
             event = "ack" /\ Started => body.attempt = created,
             event = "me" /\ ~body.locked /\ Started => created \notin locked
      PROVE  Calm
  <2>1. Extended /\ \A n \in Added : channel'[n].event = event /\ channel'[n].body = body
    BY <1>e, Sending
  <2>2. QED
    BY <1>e, <2>1 DEF Calm
<1>m. ASSUME Rest, NEW a \in Nat, Emit("me", myState(a)), Started => a = created /\ created # 0 PROVE Calm
  <2>1. [event |-> "me", body |-> myState(a)] \in Messages
    BY Telling, Words
  <2>2. PICK p : p = myState(a)
    OBVIOUS
  <2>3. ~p.locked /\ Started => created \notin locked
    BY <1>m, <2>2, OwnFacts
  <2>4. QED
    BY <1>e, <1>m, <2>1, <2>2, <2>3
<1> USE DEF server, play, phone, net, Started, Publishes
<1> HIDE DEF Rest
<1>r. UNCHANGED <<stage, created, isRace, link, view, me>> => Rest
  BY DEF Rest
<1>1. CASE Publish
  BY <1>1, <1>e, <1>r, <1>t, Building DEF Publish
<1>2. ASSUME NEW row \in builders, FinishSnapshot(row) PROVE Calm
  BY <1>2, <1>e, <1>r, <1>t, Building DEF FinishSnapshot
<1>3. CASE Tick
  <2>1. Rest /\ (channel' = channel \/ Emit("eliminated", TRUE))
    BY <1>3, <1>r DEF Tick
  <2>2. QED
    BY <1>e, <1>q, <2>1, Naming
<1>4. CASE RaceEvent
  <2>1. Rest /\ Emit("race", [attempt |-> current, race |-> life])
    BY <1>4, <1>r DEF RaceEvent
  <2>2. QED
    BY <1>e, <1>t, <2>1, Naming
<1>5. ASSUME NEW i \in inputs, Write(i) PROVE Calm
  BY <1>5, <1>q, <1>r DEF Write
<1>6. ASSUME NEW i \in inputs, Reply(i) PROVE Calm
  <2>1. Rest /\ Answer(i)
    BY <1>6, <1>r DEF Reply
  <2>2. [event |-> "ack", body |-> myState(i.attempt)] \in Messages
    BY <1>t, Telling, Words
  <2>3. Started => myState(i.attempt).attempt = created
    BY OwnFacts DEF UnderwayInv
  <2>4. QED
    BY <1>e, <1>q, <2>1, <2>2, <2>3 DEF Answer
<1>7. CASE ConnectSnapshot
  BY <1>7, <1>e, <1>r, <1>t, Building DEF ConnectSnapshot
<1>8. CASE ConnectMe
  <2>1. Rest /\ Emit("me", myState(connecting.row.attempt)) /\ connecting.row.attempt \in Nat
    BY <1>8, <1>r, <1>t DEF ConnectMe, Rows
  <2>2. Started => connecting.row.attempt = created /\ created # 0
    BY <1>8 DEF ConnectMe, UnderwayInv, ServerInv
  <2>3. QED
    BY <1>m, <2>1, <2>2
<1>9. CASE Hold
  <2>1. Rest
    BY <1>9, <1>r DEF Hold
  <2>2. CASE Emit("hold", RaceOf(engine))
    BY <1>e, <1>t, <2>1, <2>2, Naming, Words
  <2>3. CASE ~Emit("hold", RaceOf(engine))
    <3>1. /\ Extended
          /\ \A n \in Added : \/ channel'[n].event = "eliminated"
                              \/ channel'[n].event = "hold" /\ channel'[n].body = "eliminated"
      BY <1>9, <2>3, TwoMore DEF Hold
    <3>2. QED
      BY <2>1, <3>1 DEF Calm, Rest
  <2>4. QED
    BY <2>2, <2>3
<1>10. CASE Resume
  <2>1. Rest /\ Emit("me", myState(current)) /\ current = created /\ created # 0
    BY <1>10 DEF Resume, Rest, ServerInv
  <2>2. QED
    BY <1>m, <1>t, <2>1
<1>11. CASE CloseRound
  <2>1. Rest /\ channel' = channel
    BY <1>11 DEF CloseRound, Rest
  <2>2. QED
    BY <1>q, <2>1
<1>12. CASE StartSnapshot \/ Accept \/ ConnectRead \/ UNCHANGED syncVars
  BY <1>12, <1>q, <1>r DEF StartSnapshot, Accept, ConnectRead, syncVars
<1>13. QED
  BY <1>1, <1>2, <1>3, <1>4, <1>5, <1>6, <1>7, <1>8, <1>9, <1>10, <1>11, <1>12 DEF CalmSteps

\* A connection goes on, step by step.
LEMMA Connecting ==
  ASSUME SyncTypes, CalmSteps
  PROVE  \/ connecting' = connecting /\ ~ConnectRead /\ ~ConnectSnapshot /\ ~ConnectMe
         \/ ConnectRead /\ connecting.at = "read" /\ connecting'.at = "snapshot" /\ connecting'.row.seq = seq
         \/ /\ ConnectSnapshot /\ connecting.at = "snapshot" /\ connecting'.at = "me"
            /\ connecting'.row = connecting.row
         \/ ConnectMe /\ connecting.at = "me" /\ connecting' = Idle
<1>1. CASE ConnectRead
  BY <1>1 DEF ConnectRead, SessionRow
<1>2. CASE ConnectSnapshot
  BY <1>2 DEF ConnectSnapshot, SyncTypes
<1>3. CASE ConnectMe
  BY <1>3 DEF ConnectMe
<1>4. CASE ~ConnectRead /\ ~ConnectSnapshot /\ ~ConnectMe
  <2>1. CASE Publish \/ StartSnapshot \/ (\E row \in builders : FinishSnapshot(row)) \/ Tick \/ RaceEvent \/ Accept
    BY <2>1, <1>4 DEF Publish, StartSnapshot, FinishSnapshot, Tick, RaceEvent, Accept
  <2>2. CASE (\E i \in inputs : Write(i) \/ Reply(i)) \/ Hold \/ Resume \/ CloseRound \/ UNCHANGED syncVars
    BY <2>2, <1>4 DEF Write, Reply, Hold, Resume, CloseRound, syncVars
  <2>3. QED
    BY <1>4, <2>1, <2>2 DEF CalmSteps
<1>5. QED
  BY <1>1, <1>2, <1>3, <1>4

LEMMA LockStep ==
  SyncTypes /\ ServerInv /\ UnderwayInv /\ FateInv /\ LockInv /\ [SyncNext]_syncVars => LockInv'
<1> SUFFICES ASSUME SyncTypes, ServerInv, UnderwayInv, FateInv, LockInv, [SyncNext]_syncVars PROVE LockInv'
  OBVIOUS
<1>1. ASSUME CalmSteps PROVE LockInv'
  <2>1. Calm
    BY <1>1, CalmStep
  <2>2. \A k \in DOMAIN channel : OwnState(k) => k \in DOMAIN channel' /\ OwnState(k)'
    BY <2>1 DEF Calm, Extended, OwnState
  <2>3. SUFFICES ASSUME Started', link' = "up" 
                 PROVE  /\ \A n \in DOMAIN channel' :
                             channel'[n].event = "ack" /\ channel'[n].body.attempt # created' =>
                               \E k \in DOMAIN channel' : k > n /\ OwnState(k)'
                        /\ me'.locked /\ me'.attempt # created' /\ view'.attempt = created' =>
                             connecting' # Idle \/ \E k \in DOMAIN channel' : OwnState(k)'
    BY DEF LockInv
  <2>4. Started /\ link = "up"
    BY <2>1, <2>3 DEF Calm
  <2>5. ASSUME NEW n \in DOMAIN channel', channel'[n].event = "ack", channel'[n].body.attempt # created'
        PROVE  \E k \in DOMAIN channel' : k > n /\ OwnState(k)'
    <3>1. n \in DOMAIN channel /\ channel'[n] = channel[n] /\ created' = created
      BY <2>1, <2>4, <2>5 DEF Calm, Extended
    <3>2. QED
      BY <2>2, <2>4, <2>5, <3>1 DEF LockInv
  <2>6. ASSUME me'.locked, me'.attempt # created', view'.attempt = created'
        PROVE  connecting' # Idle \/ \E k \in DOMAIN channel' : OwnState(k)'
    <3>1. connecting # Idle \/ \E k \in DOMAIN channel : OwnState(k)
      BY <2>1, <2>4, <2>6 DEF LockInv, Calm
    <3>2. CASE ConnectMe
      <4>1. /\ connecting.row.attempt = created /\ created \in Nat /\ link' = link
            /\ Emit("me", myState(connecting.row.attempt))
        BY <2>4, <3>2 DEF ConnectMe, UnderwayInv, SyncTypes
      <4>2. [event |-> "me", body |-> myState(connecting.row.attempt)] \in Messages
        BY <4>1, Telling, Words
      <4>3. PICK k \in DOMAIN channel' :
              channel'[k].event = "me" /\ channel'[k].body = myState(connecting.row.attempt)
        BY <2>4, <4>1, <4>2, Sending DEF Extended
      <4>4. channel'[k].body.attempt = created'
        BY <2>1, <4>1, <4>3, OwnFacts DEF Calm
      <4>5. OwnState(k)'
        BY <4>3, <4>4 DEF OwnState
      <4>6. QED
        BY <4>5
    <3>3. CASE ~ConnectMe
      <4>1. connecting # Idle => connecting' # Idle
        BY <1>1, <3>3, Connecting DEF Idle
      <4>2. QED
        BY <2>2, <3>1, <4>1
    <3>4. QED
      BY <3>2, <3>3
  <2>7. QED
    BY <2>5, <2>6
<1>2. CASE Start
  <2>1. /\ stage = "Ready" /\ created' = created /\ link' = link /\ current = created /\ created \in Nat
        /\ Emit("me", emptyMe(created))
    BY <1>2 DEF Start, PushAtStart, ServerInv, SyncTypes
  <2>2. [event |-> "me", body |-> emptyMe(created)] \in Messages
    BY <2>1, Telling, Words
  <2>3. ASSUME link = "up"
        PROVE  \E k \in DOMAIN channel' : /\ OwnState(k)'
                                          /\ \A n \in DOMAIN channel' : channel'[n].event = "ack" => k > n
    <3>1. /\ Extended /\ \A n \in Added : channel'[n].event = "me" /\ channel'[n].body = emptyMe(created)
          /\ Len(channel') \in Added /\ Len(channel') = Len(channel) + 1
      BY <2>1, <2>2, <2>3, Sending
    <3>2. PICK k \in Added : k = Len(channel) + 1
      BY <3>1
    <3>3. channel'[k].event = "me" /\ channel'[k].body.attempt = created' /\ k \in DOMAIN channel'
      BY <2>1, <3>1, OwnFacts DEF Extended
    <3>4. \A n \in DOMAIN channel' : channel'[n].event = "ack" => k > n
      BY <3>1, <3>2 DEF Extended
    <3>5. OwnState(k)'
      BY <3>3 DEF OwnState
    <3>6. QED
      BY <3>3, <3>4, <3>5
  <2>4. CASE link' = "up"
    <3>1. PICK k \in DOMAIN channel' : /\ OwnState(k)'
                                       /\ \A n \in DOMAIN channel' : channel'[n].event = "ack" => k > n
      BY <2>1, <2>3, <2>4
    <3>2. QED
      BY <3>1 DEF LockInv
  <2>5. CASE link' # "up"
    BY <2>5 DEF LockInv
  <2>6. QED
    BY <2>4, <2>5
<1>3. CASE Prepare \/ ShowGameResults
  BY <1>3 DEF Prepare, ShowGameResults, Publishes, LockInv, Started
<1>4. CASE ConnectPhone
  <2>1. channel = <<>> /\ channel' = channel /\ connecting'.at = "read"
    BY <1>4 DEF ConnectPhone, SyncTypes
  <2>2. DOMAIN channel' = {} /\ connecting' # Idle
    BY <2>1 DEF Idle
  <2>3. QED
    BY <2>2 DEF LockInv
<1>5. CASE Drop \/ Reload
  BY <1>5 DEF Drop, Reload, net, LockInv
<1>6. CASE Receive
  <2>1. SUFFICES ASSUME Started', link' = "up" 
                 PROVE  /\ \A n \in DOMAIN channel' :
                             channel'[n].event = "ack" /\ channel'[n].body.attempt # created' =>
                               \E k \in DOMAIN channel' : k > n /\ OwnState(k)'
                        /\ me'.locked /\ me'.attempt # created' /\ view'.attempt = created' =>
                             connecting' # Idle \/ \E k \in DOMAIN channel' : OwnState(k)'
    BY DEF LockInv
  <2>2. Started /\ link = "up" /\ UNCHANGED <<created, connecting, locked>>
    BY <1>6, <2>1, Received DEF Started
  <2>3. /\ Len(channel) \in Nat /\ 1 \in DOMAIN channel
        /\ DOMAIN channel = 1..Len(channel) /\ DOMAIN channel' = 1..(Len(channel) - 1)
        /\ \A n \in DOMAIN channel' : n + 1 \in DOMAIN channel /\ channel'[n] = channel[n + 1]
    BY <1>6, Received, Taking
  <2>4. ASSUME NEW k \in DOMAIN channel, k > 1, OwnState(k)
        PROVE  k - 1 \in DOMAIN channel' /\ OwnState(k - 1)'
    <3>1. k - 1 \in DOMAIN channel' /\ k - 1 + 1 = k
      BY <2>3, <2>4
    <3>2. channel'[k - 1] = channel[k]
      BY <2>3, <3>1
    <3>3. QED
      BY <2>2, <2>4, <3>1, <3>2 DEF OwnState
  <2>5. ASSUME NEW n \in DOMAIN channel', channel'[n].event = "ack", channel'[n].body.attempt # created'
        PROVE  \E k \in DOMAIN channel' : k > n /\ OwnState(k)'
    <3>1. n + 1 \in DOMAIN channel /\ channel[n + 1].event = "ack" /\ channel[n + 1].body.attempt # created /\ n \in 1..Len(channel)
      BY <2>2, <2>3, <2>5
    <3>2. PICK k \in DOMAIN channel : k > n + 1 /\ OwnState(k)
      BY <2>2, <3>1 DEF LockInv
    <3>3. k > 1 /\ k - 1 > n
      BY <2>3, <3>1, <3>2
    <3>4. QED
      BY <2>4, <3>2, <3>3
  <2>6. ASSUME me'.locked, me'.attempt # created', view'.attempt = created', connecting' = Idle
        PROVE  \E k \in DOMAIN channel : k > 1 /\ OwnState(k)
    <3>1. MessageOK(1) /\ PhoneInv
      BY <2>3 DEF FateInv
    <3>2. CASE channel[1].event = "ack"
      <4>1. me' = channel[1].body
        BY <1>6, <3>2, Received DEF OnAck
      <4>2. QED
        BY <2>2, <2>3, <2>6, <3>2, <4>1 DEF LockInv
    \* Otherwise it showed such a lock before, and the head is not this attempt's state.
    <3>3. CASE channel[1].event # "ack"
      <4>1. me.locked /\ me.attempt # created /\ view.attempt = created /\ ~OwnState(1)
        <5>1. created # 0 /\ 0 \notin locked /\ created \in Nat
          BY <2>2 DEF SyncTypes, ServerInv, Started
        <5>2. CASE channel[1].event = "snapshot"
          BY <1>6, <2>2, <2>6, <3>1, <5>2, Received, SnapshotFacts DEF PhoneInv, phone, OwnState
        <5>3. CASE channel[1].event = "race"
          BY <1>6, <2>2, <2>6, <5>3, Received, RaceFacts DEF OwnState
        <5>4. CASE channel[1].event = "me"
          <6>1. channel[1].body \in States /\ OnMe(channel[1].body) /\ lifeAttemptId = view.attempt
            BY <1>6, <3>1, <5>4, Received DEF PhoneInv
          <6>2. view' = view /\ view.attempt = created
            BY <2>2, <2>6, <6>1, MeFacts
          <6>3. ~Taken(channel[1].body)
            <7>1. SUFFICES ASSUME Taken(channel[1].body) PROVE FALSE
              OBVIOUS
            <7>2. channel[1].body.locked /\ channel[1].body.attempt # created
              BY <2>2, <2>6, <6>1, <7>1, MeFacts
            <7>3. channel[1].body.attempt = 0
              BY <5>1, <6>2, <7>1, <7>2 DEF Taken
            <7>4. channel[1].body.attempt \in locked
              BY <3>1, <5>4, <7>2 DEF MessageOK
            <7>5. QED
              BY <5>1, <7>3, <7>4
          <6>4. QED
            BY <2>2, <2>6, <6>1, <6>2, <6>3, MeFacts DEF phone, Taken, OwnState
        <5>5. CASE channel[1].event \in {"hold", "eliminated"}
          BY <1>6, <2>2, <2>6, <5>5, Received, NamelessFacts DEF OwnState, MyLife
        <5>6. QED
          BY <1>6, <3>3, <5>2, <5>3, <5>4, <5>5, Received
      <4>2. PICK k \in DOMAIN channel : OwnState(k)
        BY <2>2, <2>6, <4>1 DEF LockInv
      <4>3. k > 1
        BY <2>3, <4>1, <4>2
      <4>4. QED
        BY <4>2, <4>3
    <3>4. QED
      BY <3>2, <3>3
  <2>7. QED
    BY <2>4, <2>5, <2>6
<1>7. QED
  BY <1>1, <1>2, <1>3, <1>4, <1>5, <1>6 DEF SyncNext, CalmSteps
\* What the session's row says, when its seq is found.
LEMMA NewestRow ==
  ASSUME SyncTypes, NEW b \in Nat, RowsOK(b), NEW r \in AnyRow, RowOK(r, b), r.seq = seq
  PROVE  r.attempt = current /\ r.stage = stage
<1>1. r.seq >= b
  BY DEF RowsOK
<1>2. QED
  BY <1>1 DEF RowOK

\* A message for a phone that is there is the last one on the way.
LEMMA SentLast ==
  ASSUME SyncTypes, NEW event, NEW body, [event |-> event, body |-> body] \in Messages,
         Emit(event, body), link' = link, link = "up"
  PROVE  \E k \in DOMAIN channel' : /\ channel'[k].event = event /\ channel'[k].body = body
                                    /\ k = Len(channel) + 1 /\ k = Len(channel')
<1>1. /\ Extended /\ \A n \in Added : channel'[n].event = event /\ channel'[n].body = body
      /\ Len(channel') \in Added /\ Len(channel') = Len(channel) + 1
  BY Sending
<1>2. Len(channel') \in DOMAIN channel'
  BY <1>1 DEF Extended
<1>3. QED
  BY <1>1, <1>2

\* A snapshot of the newest row is taken, whatever the phone shows.
LEMMA NewestTaken ==
  ASSUME SyncTypes, NEW b \in Nat, RowsOK(b), channel # <<>>, channel[1].event = "snapshot", channel[1].body \in Snapshots
  PROVE  /\ channel[1].body.seq \in Int /\ channel[1].body.seq <= seq
         /\ view.seq \in Int /\ view.seq <= seq /\ seq \in Nat
         /\ channel[1].body.seq = seq => Fresh(channel[1].body)
         /\ view.seq = seq /\ Fresh(channel[1].body) => channel[1].body.seq = seq
<1>1. 1 \in DOMAIN channel /\ seq \in Nat /\ view \in Snapshots
  BY DEF SyncTypes
<1>2. RowOK(channel[1].body, b) /\ RowOK(view, b)
  BY <1>1 DEF RowsOK
<1>3. QED
  BY <1>1, <1>2 DEF RowOK, Fresh, Blank, Snapshots

\* Only a snapshot changes what the phone takes for the newest row.
LEMMA ViewKept ==
  ASSUME SyncTypes, Receive, channel[1].event # "snapshot"
  PROVE  view'.seq = view.seq /\ view'.attempt = view.attempt /\ view'.stage = view.stage
<1>1. \A p : OnEliminated \/ OnMe(p) \/ OnAck(p) \/ OnHold(p) => view' = view
  BY DEF OnEliminated, OnMe, OnAck, OnHold, phone
<1>2. CASE channel[1].event = "race"
  BY <1>2, Received, RaceFacts
<1>3. CASE channel[1].event # "race"
  <2>1. view' = view
    BY <1>1, <1>3, Received
  <2>2. QED
    BY <2>1
<1>4. QED
  BY <1>2, <1>3

LEMMA NewestStep ==
  SyncTypes /\ ServerInv /\ UnderwayInv /\ RowsInv /\ NewestInv /\ [SyncNext]_syncVars => NewestInv'
<1> SUFFICES ASSUME SyncTypes, ServerInv, UnderwayInv, RowsInv, NewestInv, [SyncNext]_syncVars PROVE NewestInv'
  OBVIOUS
<1>b. PICK b \in Nat : RowsOK(b)
  BY DEF RowsInv
<1>p. ASSUME NEW s, NEW a, Publishes(s, a) PROVE NewestInv'
  <2>1. job'.seq = seq + 1 /\ seq \in Nat
    BY <1>p DEF Publishes, SyncTypes
  <2>2. job' # NoRow
    BY <2>1 DEF NoRow
  <2>3. QED
    BY <2>2 DEF NewestInv
<1>1. CASE Publish
  <2>1. /\ Emit("snapshot", Snapshot(job)) /\ link' = link /\ seq' = seq /\ job.seq = seq /\ job \in Rows
    BY <1>1, <1>b DEF Publish, server, RowsOK, SyncTypes
  <2>2. ASSUME link' = "up" PROVE \E k \in DOMAIN channel' : channel'[k].event = "snapshot" /\ channel'[k].body.seq = seq'
    <3>1. PICK k \in DOMAIN channel' : channel'[k].event = "snapshot" /\ channel'[k].body = Snapshot(job)
      BY <2>1, <2>2, Building, SentLast
    <3>2. Snapshot(job).seq = seq
      BY <2>1 DEF Snapshot
    <3>3. QED
      BY <2>1, <3>1, <3>2
  <2>3. QED
    BY <2>2 DEF NewestInv
<1>2. CASE Prepare \/ Start \/ Resume \/ CloseRound \/ ShowGameResults
  BY <1>2, <1>p DEF Prepare, Start, Resume, CloseRound, ShowGameResults
<1>3. CASE CalmSteps /\ ~Publish /\ ~Resume /\ ~CloseRound
  <2>1. UNCHANGED <<seq, job>>
    BY <1>3 DEF CalmSteps, StartSnapshot, FinishSnapshot, Tick, RaceEvent, Accept, Write, Reply,
       ConnectRead, ConnectSnapshot, ConnectMe, Hold, syncVars, server
  <2>2. Calm
    BY <1>3, CalmStep
  <2>3. SUFFICES ASSUME link = "up" PROVE NewestInv'
    BY <2>2 DEF NewestInv, Calm
  <2>4. CASE view.seq = seq
    BY <2>1, <2>2, <2>4 DEF NewestInv, Calm
  <2>5. ASSUME NEW n \in DOMAIN channel, channel[n].event = "snapshot", channel[n].body.seq = seq PROVE NewestInv'
    <3>1. n \in DOMAIN channel' /\ channel'[n] = channel[n]
      BY <2>2 DEF Calm, Extended
    <3>2. channel'[n].event = "snapshot" /\ channel'[n].body.seq = seq'
      BY <2>1, <2>5, <3>1
    <3>3. QED
      BY <3>1, <3>2 DEF NewestInv
  <2>6. CASE job # NoRow
    BY <2>1, <2>6 DEF NewestInv
  <2>7. CASE connecting.at = "read" /\ ~ConnectSnapshot
    BY <1>3, <2>1, <2>7, Connecting DEF NewestInv
  <2>8. CASE connecting.at = "snapshot" /\ connecting.row.seq = seq /\ ~ConnectSnapshot
    BY <1>3, <2>1, <2>8, Connecting DEF NewestInv
  <2>9. CASE connecting.at = "snapshot" /\ connecting.row.seq = seq /\ ConnectSnapshot
    <3>1. Emit("snapshot", Snapshot(connecting.row)) /\ link' = link /\ connecting.row \in Rows
      BY <2>9 DEF ConnectSnapshot, SyncTypes
    <3>2. PICK k \in DOMAIN channel' : channel'[k].event = "snapshot" /\ channel'[k].body = Snapshot(connecting.row)
      BY <2>3, <3>1, Building, SentLast
    <3>3. channel'[k].body.seq = seq'
      BY <2>1, <2>9, <3>2 DEF Snapshot
    <3>4. QED
      BY <3>2, <3>3 DEF NewestInv
  <2>10. CASE connecting.at = "read" /\ ConnectSnapshot
    BY <2>10 DEF ConnectSnapshot
  <2>11. QED
    BY <2>3, <2>4, <2>5, <2>6, <2>7, <2>8, <2>9, <2>10 DEF NewestInv
<1>4. CASE ConnectPhone
  BY <1>4 DEF ConnectPhone, NewestInv
<1>5. CASE Drop \/ Reload
  BY <1>5 DEF Drop, Reload, net, NewestInv
<1>6. CASE Receive
  <2>1. /\ UNCHANGED <<seq, job, connecting, link>> /\ channel # <<>>
    BY <1>6, Received
  <2>2. /\ Len(channel) \in Nat /\ 1 \in DOMAIN channel
        /\ DOMAIN channel = 1..Len(channel) /\ DOMAIN channel' = 1..(Len(channel) - 1)
        /\ \A n \in DOMAIN channel' : n + 1 \in DOMAIN channel /\ channel'[n] = channel[n + 1]
    BY <1>6, Received, Taking
  <2>3. channel[1].event # "snapshot" => view'.seq = view.seq
    BY <1>6, ViewKept
  <2>4. channel[1].event = "snapshot" => channel[1].body \in Snapshots /\ OnSnapshot(channel[1].body)
    BY <1>6, Received
  <2>5. view.seq = seq => view'.seq = seq
    <3>1. CASE channel[1].event = "snapshot" /\ Fresh(channel[1].body)
      BY <1>b, <2>1, <2>4, <3>1, NewestTaken, SnapshotFacts
    <3>2. CASE channel[1].event = "snapshot" /\ ~Fresh(channel[1].body)
      BY <2>4, <3>2, SnapshotFacts DEF phone
    <3>3. QED
      BY <2>3, <3>1, <3>2
  <2>6. channel[1].event = "snapshot" /\ channel[1].body.seq = seq => view'.seq = seq
    BY <1>b, <2>1, <2>4, NewestTaken, SnapshotFacts
  <2>7. ASSUME NEW n \in DOMAIN channel, n # 1, channel[n].event = "snapshot", channel[n].body.seq = seq PROVE NewestInv'
    <3>1. n - 1 \in DOMAIN channel' /\ n - 1 + 1 = n
      BY <2>2, <2>7
    <3>2. channel'[n - 1].event = "snapshot" /\ channel'[n - 1].body.seq = seq'
      BY <2>1, <2>2, <2>7, <3>1
    <3>3. QED
      BY <3>1, <3>2 DEF NewestInv
  <2>8. QED
    BY <2>1, <2>2, <2>5, <2>6, <2>7 DEF NewestInv
<1>7. QED
  BY <1>1, <1>2, <1>3, <1>4, <1>5, <1>6 DEF SyncNext, CalmSteps

\* In a round that has started the phone does not turn away from the attempt on stage.
LEMMA StaysShown ==
  ASSUME SyncTypes, ServerInv, RowsInv, FateInv, Started, Receive
  PROVE  /\ view.attempt = created => view'.attempt = created
         /\ channel[1].event = "snapshot" /\ channel[1].body.attempt = created => view'.attempt = created
<1>b. PICK b \in Nat : RowsOK(b)
  BY DEF RowsInv
<1>1. current = created /\ created # 0 /\ view \in Snapshots /\ channel # <<>> /\ 1 \in DOMAIN channel
  BY Received, Taking DEF ServerInv, Started, SyncTypes
<1>2. channel[1].event # "snapshot" => view'.attempt = view.attempt
  BY ViewKept
<1>3. CASE channel[1].event = "snapshot"
  <2>1. PICK snap \in Snapshots : snap = channel[1].body /\ OnSnapshot(snap)
    BY <1>3, Received
  <2>2. RowOK(snap, b) /\ snap.seq >= 0 /\ RowOK(view, b)
    BY <1>1, <1>3, <1>b, <2>1 DEF RowsOK
  <2>3. snap.seq \in Int /\ view.seq \in Int /\ b \in Nat
    BY <1>1 DEF Snapshots
  <2>4. CASE Fresh(snap)
    <3>1. view'.attempt = snap.attempt
      BY <2>1, <2>4, SnapshotFacts
    <3>2. view.attempt = created => snap.seq >= view.seq /\ view.seq >= b
      BY <1>1, <2>2, <2>4 DEF Fresh, Blank, RowOK
    <3>3. view.attempt = created => snap.attempt = current
      BY <2>2, <2>3, <3>2 DEF RowOK
    <3>4. QED
      BY <1>1, <2>1, <3>1, <3>3
  <2>5. CASE ~Fresh(snap)
    <3>1. view' = view
      BY <2>1, <2>5, SnapshotFacts DEF phone
    <3>2. snap.attempt = created => view.attempt = created
      <4>1. SUFFICES ASSUME snap.attempt = created PROVE view.attempt = created
        OBVIOUS
      <4>2. snap.seq >= b
        BY <1>1, <2>2, <4>1 DEF RowOK
      <4>3. view.seq >= b
        BY <2>3, <2>5, <4>2 DEF Fresh
      <4>4. QED
        BY <1>1, <2>2, <4>3 DEF RowOK
    <3>3. QED
      BY <2>1, <3>1, <3>2
  <2>6. QED
    BY <2>4, <2>5
<1>4. QED
  BY <1>2, <1>3
\* Messages behind the ones on the way do not hide what those show.
LEMMA ShownKept ==
  ASSUME Extended, UNCHANGED <<created, view>>, NEW n \in 1..(Len(channel) + 1), ShownBy(n)
  PROVE  ShownBy(n)'
<1>1. \A k \in 1..(n - 1) : channel'[k] = channel[k]
  BY DEF Extended
<1>2. QED
  BY <1>1 DEF ShownBy

LEMMA ShownMoves ==
  ASSUME SyncTypes, ServerInv, RowsInv, FateInv, Started, Receive, NEW n \in Nat, n + 1 \in 2..(Len(channel) + 1),
         ShownBy(n + 1)
  PROVE  ShownBy(n)'
<1>1. /\ Len(channel) \in Nat /\ DOMAIN channel' = 1..(Len(channel) - 1)
      /\ \A k \in DOMAIN channel' : channel'[k] = channel[k + 1]
      /\ created' = created
  BY Received, Taking
<1>2. CASE view.attempt = created
  BY <1>1, <1>2, StaysShown DEF ShownBy
<1>3. ASSUME NEW k \in 1..n, channel[k].event = "snapshot", channel[k].body.attempt = created PROVE ShownBy(n)'
  <2>1. CASE k = 1
    BY <1>1, <1>3, <2>1, StaysShown DEF ShownBy
  <2>2. CASE k # 1
    <3>1. k - 1 \in 1..(n - 1) /\ k - 1 \in DOMAIN channel' /\ k - 1 + 1 = k
      BY <1>1, <2>2
    <3>2. channel'[k - 1].event = "snapshot" /\ channel'[k - 1].body.attempt = created'
      BY <1>1, <1>3, <3>1
    <3>3. QED
      BY <3>1, <3>2 DEF ShownBy
  <2>3. QED
    BY <2>1, <2>2
<1>4. n + 1 - 1 = n
  OBVIOUS
<1>5. QED
  BY <1>2, <1>3, <1>4 DEF ShownBy

LEMMA ShownStep ==
  SyncTypes /\ ServerInv /\ UnderwayInv /\ RowsInv /\ FateInv /\ NewestInv /\ ShownInv /\ [SyncNext]_syncVars => ShownInv'
<1> SUFFICES ASSUME SyncTypes, ServerInv, UnderwayInv, RowsInv, FateInv, NewestInv, ShownInv, [SyncNext]_syncVars
             PROVE  ShownInv'
  OBVIOUS
<1> SUFFICES ASSUME Started', link' = "up", connecting'.at \notin {"read", "snapshot"}
             PROVE  \/ view'.attempt = created'
                    \/ \E k \in DOMAIN channel' : channel'[k].event = "snapshot" /\ channel'[k].body.attempt = created'
  <2>1. ASSUME SyncTypes' PROVE Len(channel') + 1 - 1 = Len(channel') /\ DOMAIN channel' = 1..Len(channel')
    BY <2>1 DEF SyncTypes
  <2>2. SyncTypes'
    BY TypesStep DEF FateInv, PhoneInv
  <2>3. QED
    BY <2>1, <2>2 DEF ShownInv, ShownBy
<1>b. PICK b \in Nat : RowsOK(b)
  BY DEF RowsInv
<1>t. channel \in Seq(Messages) /\ Len(channel) \in Nat /\ DOMAIN channel = 1..Len(channel) /\ Len(channel) + 1 - 1 = Len(channel)
  BY DEF SyncTypes
<1>1. CASE CalmSteps
  <2>1. Calm
    BY <1>1, CalmStep
  <2>2. Started /\ link = "up" /\ created' = created /\ view' = view
    BY <2>1 DEF Calm
  <2>3. CASE ShownBy(Len(channel) + 1)
    <3>1. \A k \in 1..Len(channel) : k \in DOMAIN channel' /\ channel'[k] = channel[k]
      BY <2>1 DEF Calm, Extended
    <3>2. QED
      BY <1>t, <2>2, <2>3, <3>1 DEF ShownBy
  <2>4. CASE ~ShownBy(Len(channel) + 1)
    <3>1. ConnectSnapshot /\ connecting.at = "snapshot"
      BY <1>1, <2>2, <2>4, Connecting DEF ShownInv
    <3>2. Emit("snapshot", Snapshot(connecting.row)) /\ link' = link /\ connecting.row \in Rows
          /\ connecting.row.attempt = created
      BY <2>2, <3>1 DEF ConnectSnapshot, SyncTypes, UnderwayInv
    <3>3. PICK k \in DOMAIN channel' : channel'[k].event = "snapshot" /\ channel'[k].body = Snapshot(connecting.row)
      BY <2>2, <3>2, Building, SentLast
    <3>4. channel'[k].body.attempt = created'
      BY <2>2, <3>2, <3>3 DEF Snapshot
    <3>5. QED
      BY <3>3, <3>4
  <2>5. QED
    BY <2>3, <2>4
\* A round starts with its own row published.
<1>2. CASE Start
  <2>1. /\ link = "up" /\ job = NoRow /\ current = created /\ UNCHANGED <<created, view, connecting, link>>
        /\ Emit("me", emptyMe(created)) /\ created \in Nat
    BY <1>2 DEF Start, Publishes, PushAtStart, ServerInv, SyncTypes, phone
  <2>2. Extended
    BY <2>1, Sending, Telling, Words
  <2>3. CASE view.seq = seq
    <3>1. view \in AnyRow /\ RowOK(view, b)
      BY <1>b DEF SyncTypes, AnyRow, RowsOK
    <3>2. QED
      BY <1>b, <2>1, <2>3, <3>1, NewestRow
  <2>4. ASSUME NEW n \in DOMAIN channel, channel[n].event = "snapshot", channel[n].body.seq = seq
        PROVE  n \in DOMAIN channel' /\ channel'[n].event = "snapshot" /\ channel'[n].body.attempt = created'
    <3>1. n \in DOMAIN channel' /\ channel'[n] = channel[n]
      BY <2>2 DEF Extended
    <3>2. channel[n].body \in AnyRow
      BY <1>t, <2>4, Bodies DEF AnyRow
    <3>3. RowOK(channel[n].body, b)
      BY <1>b, <2>4 DEF RowsOK
    <3>4. QED
      BY <1>b, <2>1, <2>4, <3>1, <3>2, <3>3, NewestRow
  <2>5. QED
    BY <2>1, <2>3, <2>4 DEF NewestInv
<1>3. CASE Prepare \/ ShowGameResults
  BY <1>3 DEF Prepare, ShowGameResults, Publishes, Started
<1>4. CASE ConnectPhone \/ Drop \/ Reload
  BY <1>4 DEF ConnectPhone, Drop, Reload, net
<1>5. CASE Receive
  <2>1. Started /\ link = "up" /\ UNCHANGED <<created, connecting>>
    BY <1>5, Received DEF Started
  <2>2. /\ 1 \in DOMAIN channel /\ DOMAIN channel' = 1..(Len(channel) - 1)
        /\ \A k \in DOMAIN channel' : channel'[k] = channel[k + 1]
    BY <1>5, Received, Taking
  <2>3. ShownBy(Len(channel) + 1)
    BY <2>1 DEF ShownInv
  <2>4. PICK n \in Nat : n = Len(channel)
    BY <1>t
  <2>5. ShownBy(n)'
    BY <1>5, <1>t, <2>1, <2>2, <2>3, <2>4, ShownMoves
  <2>6. QED
    BY <1>t, <2>2, <2>4, <2>5 DEF ShownBy
<1>6. QED
  BY <1>1, <1>2, <1>3, <1>4, <1>5 DEF SyncNext, CalmSteps
\* The lock is told by message n, or shown, and nothing behind it takes it back.
TellsLock(n) ==
  /\ channel[n].event \in {"ack", "me"} /\ channel[n].body.locked /\ channel[n].body.attempt = created
  /\ ShownBy(n) /\ \A k \in DOMAIN channel : k > n => ~Unlocks(k)

LockShown == me.locked /\ view.attempt = created /\ \A k \in DOMAIN channel : ~Unlocks(k)

\* The lock is told by a message that has just been sent.
LEMMA LockTold ==
  ASSUME SyncTypes, ServerInv, Started, link = "up", ShownBy(Len(channel) + 1), UNCHANGED <<created, locked, view, link>>,
         created \in locked, NEW event \in {"ack", "me"}, Emit(event, myState(created))
  PROVE  \E n \in DOMAIN channel' : TellsLock(n)'
<1>1. created \in Nat /\ created # 0 /\ Len(channel) \in Nat
  BY DEF SyncTypes, ServerInv, Started
<1>2. [event |-> event, body |-> myState(created)] \in Messages
  BY <1>1, Telling, Words
<1>3. Extended
  BY <1>2, Sending
<1>4. PICK k \in DOMAIN channel' : /\ channel'[k].event = event /\ channel'[k].body = myState(created)
                                   /\ k = Len(channel) + 1 /\ k = Len(channel')
  BY <1>2, SentLast
<1>5. channel'[k].body.locked /\ channel'[k].body.attempt = created'
  BY <1>1, <1>4, OwnFacts
<1>6. ShownBy(k)'
  <2>1. k \in 1..(Len(channel) + 1) /\ ShownBy(k)
    BY <1>1, <1>4
  <2>2. QED
    BY <1>3, <2>1, ShownKept
<1>7. \A q \in DOMAIN channel' : ~(q > k)
  BY <1>1, <1>3, <1>4 DEF Extended, Added
<1>8. TellsLock(k)'
  BY <1>4, <1>5, <1>6, <1>7 DEF TellsLock
<1>9. QED
  BY <1>8

LEMMA ToldStep ==
  SyncTypes /\ ServerInv /\ UnderwayInv /\ RowsInv /\ FateInv /\ ShownInv /\ ToldInv /\ [SyncNext]_syncVars => ToldInv'
<1> SUFFICES ASSUME SyncTypes, ServerInv, UnderwayInv, RowsInv, FateInv, ShownInv, ToldInv, [SyncNext]_syncVars
             PROVE  ToldInv'
  OBVIOUS
<1> DEFINE Replying == \E i \in inputs : i.at = "reply" /\ i.wired
<1> SUFFICES ASSUME Started', link' = "up", created' \in locked', ~unheard', connecting' = Idle
             PROVE  Replying' \/ (\E n \in DOMAIN channel' : TellsLock(n)') \/ LockShown'
  BY DEF ToldInv, TellsLock, LockShown
<1>t. channel \in Seq(Messages) /\ Len(channel) \in Nat /\ DOMAIN channel = 1..Len(channel) /\ unheard \in BOOLEAN
  BY DEF SyncTypes
<1>o. ASSUME Started, link = "up", created \in locked, ~unheard
      PROVE  connecting # Idle \/ Replying \/ (\E n \in DOMAIN channel : TellsLock(n)) \/ LockShown
  BY <1>o DEF ToldInv, TellsLock, LockShown
<1> HIDE DEF Replying
<1>1. CASE CalmSteps
  <2>1. Calm
    BY <1>1, CalmStep
  <2>2. Started /\ link = "up" /\ UNCHANGED <<created, view, me, link>> /\ Extended
    BY <2>1 DEF Calm
  <2>w. \A i : Write(i) => unheard' = (unheard \/ (i.attempt \notin locked /\ ~i.wired))
    BY DEF Write
  <2>3. CASE ConnectMe
    <3>1. connecting.at = "me" /\ connecting.row.attempt = created /\ Emit("me", myState(created)) /\ locked' = locked
      BY <2>2, <2>3 DEF ConnectMe, UnderwayInv, play
    <3>2. ShownBy(Len(channel) + 1)
      BY <2>2, <3>1 DEF ShownInv
    <3>3. QED
      BY <2>2, <3>1, <3>2, LockTold
  <2>4. CASE ~ConnectMe
    <3>1. connecting = Idle /\ connecting' = connecting
      BY <1>1, <2>4, Connecting DEF Idle
    <3>2. ShownBy(Len(channel) + 1)
      BY <2>2, <3>1 DEF ShownInv, Idle
    <3>3. ASSUME NEW i \in inputs, Write(i)
          PROVE  Replying' \/ (UNCHANGED <<locked, channel>> /\ (unheard' <=> unheard)
                                 /\ inputs' = inputs \ {i} /\ i.at = "write")
      <4>1. i \in [attempt : 1..created, wired : BOOLEAN, at : {"write", "reply"}] /\ UNCHANGED channel
        BY <3>3 DEF Write, SyncTypes, net
      <4>2. CASE i.attempt \in locked
        BY <1>t, <3>3, <4>1, <4>2 DEF Write
      <4>3. CASE i.attempt \notin locked
        <5>1. PICK j : j = [i EXCEPT !.at = "reply"]
          OBVIOUS
        <5>2. j.at = "reply" /\ j.wired = i.wired
          BY <4>1, <5>1
        <5>3. j \in inputs' /\ i.wired
          BY <1>t, <2>w, <3>3, <4>1, <4>3, <5>1 DEF Write
        <5>4. QED
          BY <5>2, <5>3 DEF Replying
      <4>4. QED
        BY <4>2, <4>3
    <3>4. ASSUME NEW i \in inputs, Reply(i), i.wired PROVE \E n \in DOMAIN channel' : TellsLock(n)'
      <4>1. Emit("ack", myState(created)) /\ locked' = locked
        BY <2>2, <3>4 DEF Reply, Answer, UnderwayInv, play
      <4>2. QED
        BY <2>2, <3>2, <4>1, LockTold
    \* Whatever else happens, the lock and what tells it stay.
    <3>5. ASSUME UNCHANGED locked, unheard' <=> unheard, Replying => Replying' PROVE
            Replying' \/ (\E n \in DOMAIN channel' : TellsLock(n)') \/ LockShown'
      <4>1. Replying \/ (\E n \in DOMAIN channel : TellsLock(n)) \/ LockShown
        BY <1>o, <2>2, <3>1, <3>5
      <4>2. \A k \in DOMAIN channel' : (k \in DOMAIN channel /\ channel'[k] = channel[k]) \/ ~Unlocks(k)'
        <5>1. \A k \in Added : ~Unlocks(k)'
          BY <2>1, <2>2, <3>5 DEF Calm, Unlocks
        <5>2. QED
          BY <2>2, <5>1 DEF Extended
      <4>3. LockShown => LockShown'
        BY <2>2, <4>2 DEF LockShown, Unlocks
      <4>4. ASSUME NEW n \in DOMAIN channel, TellsLock(n) PROVE n \in DOMAIN channel' /\ TellsLock(n)'
        <5>1. n \in DOMAIN channel' /\ channel'[n] = channel[n] /\ n \in 1..(Len(channel) + 1)
          BY <1>t, <2>2 DEF Extended
        <5>2. ShownBy(n)'
          BY <2>2, <4>4, <5>1, ShownKept DEF TellsLock
        <5>3. \A k \in DOMAIN channel' : k > n => ~Unlocks(k)'
          BY <4>2, <4>4 DEF TellsLock, Unlocks
        <5>4. /\ channel'[n].event \in {"ack", "me"} /\ channel'[n].body.locked /\ channel'[n].body.attempt = created'
          BY <2>2, <4>4, <5>1 DEF TellsLock
        <5>5. QED
          BY <5>1, <5>2, <5>3, <5>4 DEF TellsLock
      <4>5. QED
        BY <3>5, <4>1, <4>3, <4>4
    <3>6. CASE \E i \in inputs : Write(i)
      <4>1. PICK i \in inputs : Write(i)
        BY <3>6
      <4>2. CASE Replying'
        BY <4>2
      <4>3. CASE ~Replying'
        <5>1. UNCHANGED locked /\ (unheard' <=> unheard) /\ inputs' = inputs \ {i} /\ i.at = "write"
          BY <3>3, <4>1, <4>3
        <5>2. Replying => Replying'
          BY <5>1 DEF Replying
        <5>3. QED
          BY <3>5, <5>1, <5>2
      <4>4. QED
        BY <4>2, <4>3
    <3>7. CASE \E i \in inputs : Reply(i)
      <4>1. PICK i \in inputs : Reply(i)
        BY <3>7
      <4>2. CASE i.wired
        BY <3>4, <4>1, <4>2
      <4>3. CASE ~i.wired
        <5>1. UNCHANGED locked /\ (unheard' <=> unheard) /\ inputs' = inputs \ {i}
          BY <4>1 DEF Reply, play
        <5>2. Replying => Replying'
          BY <4>3, <5>1 DEF Replying
        <5>3. QED
          BY <3>5, <5>1, <5>2
      <4>4. QED
        BY <4>2, <4>3
    <3>8. CASE ~(\E i \in inputs : Write(i) \/ Reply(i))
      <4>1. UNCHANGED locked /\ unheard' = unheard /\ inputs \subseteq inputs'
        BY <1>1, <2>4, <3>8 DEF CalmSteps, Publish, StartSnapshot, FinishSnapshot, Tick, RaceEvent, Accept,
           ConnectRead, ConnectSnapshot, Hold, Resume, CloseRound, syncVars, play
      <4>2. Replying => Replying'
        BY <4>1 DEF Replying
      <4>3. QED
        BY <3>5, <4>1, <4>2
    <3>9. QED
      BY <3>6, <3>7, <3>8
  <2>5. QED
    BY <2>3, <2>4
<1>2. CASE Start
  BY <1>2 DEF Start, ServerInv
<1>3. CASE Prepare \/ ShowGameResults
  BY <1>3 DEF Prepare, ShowGameResults, Publishes, Started
<1>4. CASE ConnectPhone \/ Drop \/ Reload
  BY <1>4 DEF ConnectPhone, Drop, Reload, net, Idle
<1>5. CASE Receive
  <2>1. Started /\ link = "up" /\ UNCHANGED <<created, connecting, locked, unheard, inputs>>
    BY <1>5, Received DEF Started
  <2>2. /\ 1 \in DOMAIN channel /\ DOMAIN channel' = 1..(Len(channel) - 1)
        /\ \A k \in DOMAIN channel' : k + 1 \in DOMAIN channel /\ channel'[k] = channel[k + 1]
    BY <1>5, Received, Taking
  <2>3. Replying \/ (\E n \in DOMAIN channel : TellsLock(n)) \/ LockShown
    BY <1>o, <2>1
  <2>4. Replying => Replying'
    BY <2>1 DEF Replying
  <2>5. MessageOK(1) /\ PhoneInv
    BY <2>2 DEF FateInv
  <2>6. ASSUME view.attempt = created, me.locked, ~Unlocks(1) PROVE me'.locked /\ view'.attempt = created
    <3>1. view'.attempt = created
      BY <1>5, <2>1, <2>6, StaysShown
    <3>2. CASE channel[1].event = "snapshot"
      BY <1>5, <2>5, <2>6, <3>1, <3>2, Received, SnapshotFacts DEF PhoneInv, phone
    <3>3. CASE channel[1].event = "race"
      BY <1>5, <2>6, <3>3, Received, RaceFacts
    <3>4. CASE channel[1].event = "me"
      <4>1. channel[1].body \in States /\ OnMe(channel[1].body) /\ lifeAttemptId = view.attempt /\ channel[1].body.locked
        BY <1>5, <2>5, <2>6, <3>4, Received DEF PhoneInv, Unlocks
      <4>2. QED
        BY <2>6, <3>1, <4>1, MeFacts DEF phone
    <3>5. CASE channel[1].event = "ack"
      BY <1>5, <2>5, <3>1, <3>5, Received DEF OnAck, MessageOK
    <3>6. CASE channel[1].event \in {"hold", "eliminated"}
      BY <1>5, <2>6, <3>1, <3>6, Received, NamelessFacts DEF MyLife
    <3>7. QED
      BY <1>5, <3>1, <3>2, <3>3, <3>4, <3>5, <3>6, Received
  <2>7. LockShown => LockShown'
    <3>1. SUFFICES ASSUME LockShown PROVE LockShown'
      OBVIOUS
    <3>2. me'.locked /\ view'.attempt = created'
      BY <2>1, <2>2, <2>6, <3>1 DEF LockShown
    <3>3. \A k \in DOMAIN channel' : ~Unlocks(k)'
      BY <2>2, <3>1 DEF LockShown, Unlocks
    <3>4. QED
      BY <3>2, <3>3 DEF LockShown
  <2>8. CASE TellsLock(1)
    <3>1. channel[1].event \in {"ack", "me"} /\ channel[1].body.locked /\ channel[1].body.attempt = created
      BY <2>8 DEF TellsLock
    <3>2. view.attempt = created
      BY <2>8 DEF TellsLock, ShownBy
    <3>3. view'.attempt = created'
      BY <1>5, <2>1, <3>2, StaysShown
    <3>4. me'.locked
      <4>1. CASE channel[1].event = "ack"
        BY <1>5, <3>1, <4>1, Received DEF OnAck
      <4>2. CASE channel[1].event = "me"
        <5>1. channel[1].body \in States /\ OnMe(channel[1].body) /\ lifeAttemptId = view.attempt /\ Taken(channel[1].body)
          BY <1>5, <2>5, <3>1, <3>2, <4>2, Received DEF PhoneInv, Taken
        <5>2. QED
          BY <3>1, <5>1, MeFacts
      <4>3. QED
        BY <3>1, <4>1, <4>2
    <3>5. \A k \in DOMAIN channel' : ~Unlocks(k)'
      <4>1. \A k \in DOMAIN channel' : k + 1 > 1
        BY <1>t, <2>2
      <4>2. QED
        BY <2>2, <2>8, <4>1 DEF TellsLock, Unlocks
    <3>6. QED
      BY <3>3, <3>4, <3>5 DEF LockShown
  <2>9. ASSUME NEW m \in DOMAIN channel, m # 1, TellsLock(m) PROVE \E n \in DOMAIN channel' : TellsLock(n)'
    <3>1. PICK n \in Nat : n + 1 = m /\ n \in DOMAIN channel'
      <4>1. m - 1 \in Nat /\ m - 1 + 1 = m /\ m - 1 \in DOMAIN channel'
        BY <1>t, <2>2, <2>9
      <4>2. QED
        BY <4>1
    <3>2. channel'[n] = channel[n + 1] /\ n + 1 \in 2..(Len(channel) + 1)
      BY <1>t, <2>2, <2>9, <3>1
    <3>3. ShownBy(n)'
      BY <1>5, <2>1, <2>9, <3>1, <3>2, ShownMoves DEF TellsLock
    <3>4. \A k \in DOMAIN channel' : k > n => k + 1 > n + 1
      BY <2>2, <3>1
    <3>5. \A k \in DOMAIN channel' : k > n => ~Unlocks(k)'
      BY <2>2, <2>9, <3>1, <3>4 DEF TellsLock, Unlocks
    <3>6. /\ channel'[n].event \in {"ack", "me"} /\ channel'[n].body.locked /\ channel'[n].body.attempt = created'
      BY <2>1, <2>9, <3>1, <3>2 DEF TellsLock
    <3>7. TellsLock(n)'
      BY <3>3, <3>5, <3>6 DEF TellsLock
    <3>8. QED
      BY <3>1, <3>7
  <2>10. QED
    BY <2>3, <2>4, <2>7, <2>8, <2>9
<1>6. QED
  BY <1>1, <1>2, <1>3, <1>4, <1>5 DEF SyncNext, CalmSteps
--------------------------------------------------------------------------------
(***************************************************************************)
(* After the close of a race.                                              *)
(***************************************************************************)

\* While answers are closed, what is sent of the newest row has the fate, and no positions are.
LEMMA ClosedSends ==
  ASSUME SyncTypes, ServerInv, RowsInv, stage = "InputLocked", isRace, CalmSteps
  PROVE  /\ UNCHANGED <<seq, stage, isRace, life, view>>
         /\ \A n \in Added : /\ channel'[n].event # "race"
                             /\ channel'[n].event = "snapshot" /\ channel'[n].body.seq = seq =>
                                  channel'[n].body.race = life
<1>b. PICK b \in Nat : RowsOK(b)
  BY DEF RowsInv
<1>t. /\ current = created /\ created # 0 /\ engine = created /\ seq \in Nat /\ job \in Rows /\ builders \subseteq Rows
      /\ connecting.row \in Rows /\ \A i \in inputs : i.attempt \in Nat
  BY DEF SyncTypes, ServerInv, Started
<1> DEFINE Same == UNCHANGED <<seq, stage, isRace, life, view>>
           Told == \A n \in Added : /\ channel'[n].event # "race"
                                    /\ channel'[n].event = "snapshot" /\ channel'[n].body.seq = seq =>
                                         channel'[n].body.race = life
<1>s. ASSUME NEW r \in Rows, RowOK(r, b), Emit("snapshot", Snapshot(r)), link' = link PROVE Told
  <2>1. \A n \in Added : channel'[n].event = "snapshot" /\ channel'[n].body = Snapshot(r)
    BY <1>s, Building, Sending
  <2>2. r.seq = seq => Snapshot(r).race = life
    <3>1. SUFFICES ASSUME r.seq = seq PROVE Snapshot(r).race = life
      OBVIOUS
    <3>2. r.attempt = current
      BY <1>b, <3>1, <1>s, NewestRow DEF AnyRow
    <3>3. QED
      BY <1>t, <3>2 DEF Snapshot, RaceOf
  <2>3. Snapshot(r).seq = r.seq
    BY DEF Snapshot
  <2>4. QED
    BY <2>1, <2>2, <2>3
<1>e. ASSUME NEW event, NEW body, [event |-> event, body |-> body] \in Messages, Emit(event, body), link' = link,
             event \notin {"race", "snapshot"}
      PROVE  Told
  BY <1>e, Sending
<1>q. channel' = channel => Told
  BY Silent
<1> USE DEF server, play, phone, net
<1>1. CASE Publish
  BY <1>1, <1>b, <1>s, <1>t DEF Publish, RowsOK
<1>2. ASSUME NEW row \in builders, FinishSnapshot(row) PROVE Same /\ Told
  BY <1>2, <1>b, <1>s, <1>t DEF FinishSnapshot, RowsOK
<1>3. CASE ConnectSnapshot
  BY <1>3, <1>b, <1>s, <1>t DEF ConnectSnapshot, RowsOK
<1>4. ASSUME NEW i \in inputs, Reply(i) PROVE Same /\ Told
  <2>1. Same /\ Answer(i) /\ link' = link
    BY <1>4 DEF Reply
  <2>2. [event |-> "ack", body |-> myState(i.attempt)] \in Messages
    BY <1>t, Telling, Words
  <2>3. QED
    BY <1>e, <1>q, <2>1, <2>2 DEF Answer
<1>5. CASE ConnectMe
  <2>1. Same /\ Emit("me", myState(connecting.row.attempt)) /\ link' = link /\ connecting.row.attempt \in Nat
    BY <1>5, <1>t DEF ConnectMe, Rows
  <2>2. [event |-> "me", body |-> myState(connecting.row.attempt)] \in Messages
    BY <2>1, Telling, Words
  <2>3. QED
    BY <1>e, <2>1, <2>2
<1>6. CASE Hold
  <2>1. Same /\ Emit("hold", RaceOf(engine)) /\ link' = link
    BY <1>6 DEF Hold, Racing
  <2>2. RaceOf(engine) \in MyLife
    BY Words DEF SyncTypes
  <2>3. QED
    BY <1>e, <2>1, <2>2, Naming
<1>7. ASSUME NEW i \in inputs, Write(i) PROVE Same /\ Told
  BY <1>7, <1>q DEF Write
<1>8. CASE StartSnapshot \/ Accept \/ ConnectRead \/ UNCHANGED syncVars
  BY <1>8, <1>q DEF StartSnapshot, Accept, ConnectRead, syncVars
<1>9. ~Tick /\ ~RaceEvent /\ ~Resume /\ ~CloseRound
  BY DEF Tick, Racing, RaceEvent, Resume, CloseRound
<1>10. Same /\ Told
  <2>1. CASE Publish
    BY <1>1, <2>1 DEF Publish
  <2>2. CASE ConnectSnapshot
    BY <1>3, <2>2 DEF ConnectSnapshot
  <2>3. CASE ConnectMe
    BY <1>5, <2>3 DEF ConnectMe
  <2>4. CASE Hold
    BY <1>6, <2>4 DEF Hold, Racing
  <2>5. CASE StartSnapshot \/ Accept \/ ConnectRead \/ UNCHANGED syncVars
    BY <1>8, <2>5 DEF StartSnapshot, Accept, ConnectRead, syncVars
  <2>6. QED
    BY <1>2, <1>4, <1>7, <1>9, <2>1, <2>2, <2>3, <2>4, <2>5 DEF CalmSteps
<1>11. QED
  BY <1>10

LEMMA ClosedStep ==
  SyncTypes /\ ServerInv /\ UnderwayInv /\ RowsInv /\ FateInv /\ ClosedInv /\ [SyncNext]_syncVars => ClosedInv'
<1> SUFFICES ASSUME SyncTypes, ServerInv, UnderwayInv, RowsInv, FateInv, ClosedInv, [SyncNext]_syncVars PROVE ClosedInv'
  OBVIOUS
<1>b. PICK b \in Nat : RowsOK(b)
  BY DEF RowsInv
<1>t. /\ channel \in Seq(Messages) /\ Len(channel) \in Nat /\ DOMAIN channel = 1..Len(channel) /\ seq \in Nat
      /\ view \in Snapshots /\ view.seq \in Int
  BY DEF SyncTypes, Snapshots
<1> SUFFICES ASSUME stage' = "InputLocked", isRace'
             PROVE  /\ \A n \in DOMAIN channel' : channel'[n].event = "snapshot" /\ channel'[n].body.seq = seq' =>
                         channel'[n].body.race = life' /\ \A k \in DOMAIN channel' : k > n => channel'[k].event # "race"
                    /\ view'.seq = seq' => view'.race = life' /\ \A k \in DOMAIN channel' : channel'[k].event # "race"
  BY DEF ClosedInv
<1>1. CASE CloseRound
  <2>1. seq' = seq + 1 /\ UNCHANGED <<channel, view>>
    BY <1>1 DEF CloseRound, Publishes, net, phone
  <2>2. view.seq # seq + 1
    BY <1>b, <1>t DEF RowsOK, RowOK
  <2>3. ASSUME NEW n \in DOMAIN channel, channel[n].event = "snapshot" PROVE channel[n].body.seq # seq + 1
    <3>1. channel[n].body \in Snapshots
      BY <1>t, <2>3, Bodies
    <3>2. RowOK(channel[n].body, b)
      BY <1>b, <2>3 DEF RowsOK
    <3>3. QED
      BY <1>t, <3>1, <3>2 DEF RowOK, Snapshots
  <2>4. QED
    BY <2>1, <2>2, <2>3
<1>2. CASE CalmSteps /\ ~CloseRound
  <2>1. stage = "InputLocked" /\ isRace
    BY <1>2 DEF CalmSteps, Publish, StartSnapshot, FinishSnapshot, Tick, RaceEvent, Accept, Write, Reply,
       ConnectRead, ConnectSnapshot, ConnectMe, Hold, Resume, Publishes, syncVars, server
  <2>2. /\ UNCHANGED <<seq, stage, isRace, life, view>>
        /\ \A n \in Added : /\ channel'[n].event # "race"
                            /\ channel'[n].event = "snapshot" /\ channel'[n].body.seq = seq =>
                                 channel'[n].body.race = life
    BY <1>2, <2>1, ClosedSends
  <2>3. Extended
    BY <1>2, CalmStep DEF Calm
  <2>4. \A k \in DOMAIN channel' : (k \in DOMAIN channel /\ channel'[k] = channel[k]) \/ channel'[k].event # "race"
    BY <2>2, <2>3 DEF Extended
  <2>5. ASSUME NEW n \in DOMAIN channel', channel'[n].event = "snapshot", channel'[n].body.seq = seq'
        PROVE  channel'[n].body.race = life' /\ \A k \in DOMAIN channel' : k > n => channel'[k].event # "race"
    <3>1. CASE n \in Added
      <4>1. \A k \in DOMAIN channel' : k > n => k \in Added
        BY <2>3, <3>1 DEF Extended, Added
      <4>2. QED
        BY <2>2, <2>5, <3>1, <4>1
    <3>2. CASE n \in DOMAIN channel
      <4>1. channel'[n] = channel[n]
        BY <2>3, <3>2 DEF Extended
      <4>2. channel[n].body.race = life /\ \A k \in DOMAIN channel : k > n => channel[k].event # "race"
        BY <2>1, <2>2, <2>5, <3>2, <4>1 DEF ClosedInv
      <4>3. QED
        BY <2>2, <2>4, <4>1, <4>2
    <3>3. QED
      BY <2>3, <2>5, <3>1, <3>2 DEF Extended
  <2>6. ASSUME view'.seq = seq'
        PROVE  view'.race = life' /\ \A k \in DOMAIN channel' : channel'[k].event # "race"
    BY <2>1, <2>2, <2>4, <2>6 DEF ClosedInv
  <2>7. QED
    BY <2>5, <2>6
<1>3. CASE Prepare \/ Start \/ ShowGameResults
  BY <1>3 DEF Prepare, Start, ShowGameResults, Publishes
<1>4. CASE ConnectPhone
  BY <1>4 DEF ConnectPhone, server, play, phone, ClosedInv
<1>5. CASE Drop
  <2>1. channel' = <<>> /\ UNCHANGED <<seq, stage, isRace, life, view>>
    BY <1>5 DEF Drop, server, play, phone
  <2>2. DOMAIN channel' = {}
    BY <2>1
  <2>3. QED
    BY <2>1, <2>2 DEF ClosedInv
<1>6. CASE Reload
  <2>1. UNCHANGED <<seq, stage, isRace, life, channel>> /\ view'.seq = -1
    BY <1>6 DEF Reload, server, play, net, Blank
  <2>2. QED
    BY <1>t, <2>1 DEF ClosedInv
<1>7. CASE Receive
  <2>1. stage = "InputLocked" /\ isRace /\ UNCHANGED <<seq, life>> /\ channel # <<>>
    BY <1>7, Received
  <2>2. /\ 1 \in DOMAIN channel /\ DOMAIN channel' = 1..(Len(channel) - 1)
        /\ \A k \in DOMAIN channel' : k + 1 \in DOMAIN channel /\ channel'[k] = channel[k + 1]
    BY <1>7, Received, Taking
  <2>3. ASSUME NEW n \in DOMAIN channel', channel'[n].event = "snapshot", channel'[n].body.seq = seq'
        PROVE  channel'[n].body.race = life' /\ \A k \in DOMAIN channel' : k > n => channel'[k].event # "race"
    <3>1. n + 1 \in DOMAIN channel /\ channel'[n] = channel[n + 1]
      BY <2>2
    <3>2. channel[n + 1].body.race = life /\ \A k \in DOMAIN channel : k > n + 1 => channel[k].event # "race"
      BY <2>1, <2>3, <3>1 DEF ClosedInv
    <3>3. \A k \in DOMAIN channel' : k > n => k + 1 > n + 1
      BY <2>2
    <3>4. QED
      BY <2>1, <2>2, <3>1, <3>2, <3>3
  <2>4. ASSUME view'.seq = seq'
        PROVE  view'.race = life' /\ \A k \in DOMAIN channel' : channel'[k].event # "race"
    <3>1. CASE channel[1].event = "snapshot"
      <4>1. PICK snap \in Snapshots : snap = channel[1].body /\ OnSnapshot(snap)
        BY <1>7, <3>1, Received
      <4>2. CASE Fresh(snap)
        <5>1. view' = snap /\ snap.seq = seq
          BY <2>1, <2>4, <4>1, <4>2, SnapshotFacts
        <5>2. snap.race = life /\ \A k \in DOMAIN channel : k > 1 => channel[k].event # "race"
          BY <2>1, <2>2, <3>1, <4>1, <5>1 DEF ClosedInv
        <5>3. \A k \in DOMAIN channel' : k + 1 > 1
          BY <2>2, <1>t
        <5>4. QED
          BY <2>1, <2>2, <5>1, <5>2, <5>3
      <4>3. CASE ~Fresh(snap)
        <5>1. view' = view
          BY <4>1, <4>3, SnapshotFacts DEF phone
        <5>2. QED
          BY <2>1, <2>2, <2>4, <5>1 DEF ClosedInv
      <4>4. QED
        BY <4>2, <4>3
    <3>2. CASE channel[1].event # "snapshot"
      <4>1. view.seq = seq
        BY <1>7, <2>1, <2>4, <3>2, ViewKept
      <4>2. view.race = life /\ \A k \in DOMAIN channel : channel[k].event # "race"
        BY <2>1, <4>1 DEF ClosedInv
      <4>3. view' = view
        <5>1. \A p : OnEliminated \/ OnMe(p) \/ OnAck(p) \/ OnHold(p) => view' = view
          BY DEF OnEliminated, OnMe, OnAck, OnHold, phone
        <5>2. QED
          BY <1>7, <2>2, <3>2, <4>2, <5>1, Received
      <4>4. QED
        BY <2>1, <2>2, <4>2, <4>3
    <3>3. QED
      BY <3>1, <3>2
  <2>5. QED
    BY <2>3, <2>4
<1>8. QED
  BY <1>1, <1>2, <1>3, <1>4, <1>5, <1>6, <1>7 DEF SyncNext, CalmSteps

--------------------------------------------------------------------------------
(***************************************************************************)
(* The phone's session.                                                    *)
(***************************************************************************)

LEMMA SyncStart == SyncInit => SyncInv
<1> SUFFICES ASSUME SyncInit PROVE SyncInv
  OBVIOUS
<1>1. /\ seq = 0 /\ stage = "GameResults" /\ current = 0 /\ created = 0 /\ isRace = FALSE
      /\ locked = {} /\ life = "unknown" /\ engine = 0
      /\ job = NoRow /\ builders = {} /\ inputs = {} /\ connecting = Idle
      /\ link = "down" /\ channel = <<>> /\ view = Blank /\ me = emptyMe(0)
      /\ lifeAttemptId = 0 /\ lifeFromEvent = "unknown" /\ unheard = FALSE
  BY DEF SyncInit, FreshPage
<1>2. NoRow \in Rows /\ Blank \in Snapshots /\ emptyMe(0) \in States /\ channel \in Seq(Messages) /\ DOMAIN channel = {}
  BY <1>1 DEF NoRow, Rows, Blank, Snapshots, emptyMe, States, MyLife
<1>3. SyncTypes
  BY <1>1, <1>2 DEF SyncTypes, Stages, MyLife, Idle
<1>4. ServerInv /\ UnderwayInv
  BY <1>1 DEF ServerInv, UnderwayInv, Started, Idle
<1>5. RowsInv
  <2>1. RowOK(NoRow, 0) /\ RowOK(Blank, 0)
    BY <1>3, NoRowOK
  <2>2. RowsOK(0)
    BY <1>1, <1>2, <2>1 DEF RowsOK, Idle
  <2>3. QED
    BY <2>2 DEF RowsInv
<1>6. FateInv
  BY <1>1, <1>2, OwnFacts DEF FateInv, PhoneInv, Claim, Blank
<1>7. LockInv /\ NewestInv /\ ShownInv /\ ToldInv /\ ClosedInv
  BY <1>1 DEF LockInv, NewestInv, ShownInv, ToldInv, ClosedInv, Started
<1>8. QED
  BY <1>3, <1>4, <1>5, <1>6, <1>7 DEF SyncInv

LEMMA SyncStep == SyncInv /\ [SyncNext]_syncVars => SyncInv'
<1> SUFFICES ASSUME SyncInv, [SyncNext]_syncVars PROVE SyncInv'
  OBVIOUS
<1>1. /\ SyncTypes /\ ServerInv /\ UnderwayInv /\ RowsInv /\ FateInv /\ LockInv
      /\ NewestInv /\ ShownInv /\ ToldInv /\ ClosedInv /\ PhoneInv /\ lifeAttemptId = view.attempt
  BY DEF SyncInv, FateInv, PhoneInv
<1>2. SyncTypes' /\ ServerInv' /\ UnderwayInv' /\ RowsInv' /\ FateInv'
  BY <1>1, TypesStep, ServerStep, UnderwayStep, RowsStep, FateStep
<1>3. LockInv' /\ NewestInv' /\ ShownInv' /\ ToldInv' /\ ClosedInv'
  BY <1>1, LockStep, NewestStep, ShownStep, ToldStep, ClosedStep
<1>4. QED
  BY <1>2, <1>3 DEF SyncInv

\* What the page makes of its three sources.
LEMMA MyLifeFacts ==
  ASSUME SyncTypes
  PROVE  /\ myLife \in MyLife /\ myLife \in {lifeFromEvent, me.race, view.race}
         /\ myLife = "unknown" => view.race = "unknown"
<1>1. lifeFromEvent \in MyLife /\ me.race \in MyLife /\ view.race \in MyLife
  BY DEF SyncTypes, States, Snapshots
<1>2. (IF view = Blank THEN "unknown" ELSE view.race) = view.race
  BY DEF Blank
<1>3. myLife = strongerLife(strongerLife(lifeFromEvent, me.race), view.race)
  BY <1>2 DEF myLife
<1>4. strongerLife(lifeFromEvent, me.race) \in MyLife /\ strongerLife(lifeFromEvent, me.race) \in {lifeFromEvent, me.race}
  BY <1>1, Stronger
<1>5. QED
  BY <1>1, <1>3, <1>4, Stronger

LEMMA FatesAreTrue == SyncInv => NoFalseFate
<1> SUFFICES ASSUME SyncInv, view.attempt = current, current # 0, myLife \in Outcomes PROVE life = myLife
  BY DEF NoFalseFate
<1>1. current = created
  BY DEF SyncInv, ServerInv
<1>2. PhoneInv /\ myLife \in {lifeFromEvent, me.race, view.race}
  BY MyLifeFacts DEF SyncInv, FateInv
<1>3. QED
  BY <1>1, <1>2 DEF PhoneInv, Claim

LEMMA LocksAreOwn == SyncInv => LockedInThisRound
<1> SUFFICES ASSUME SyncInv, view.attempt = current, view.stage = "RoundActive", me.locked, link = "up",
                    connecting = Idle, \A n \in DOMAIN channel : channel[n].event # "me"
             PROVE  current \in locked
  BY DEF LockedInThisRound
<1>1. Started
  BY DEF SyncInv, RowsInv, RowsOK, RowOK
<1>2. current = created
  BY <1>1 DEF SyncInv, ServerInv, Started
<1>3. me.attempt = created
  BY <1>1, <1>2 DEF SyncInv, LockInv, OwnState
<1>4. QED
  BY <1>2, <1>3 DEF SyncInv, FateInv, PhoneInv

LEMMA PhoneCatchesUp == SyncInv => CatchesUp
<1> SUFFICES ASSUME SyncInv, Quiet
             PROVE  /\ view # Blank /\ view.attempt = current /\ view.stage = stage
                    /\ current \in locked /\ ~unheard => me.locked
                    /\ stage = "InputLocked" /\ isRace => myLife = life
  BY DEF CatchesUp
<1>1. /\ link = "up" /\ DOMAIN channel = {} /\ connecting = Idle /\ job = NoRow /\ inputs = {}
      /\ SyncTypes /\ ServerInv
  BY DEF Quiet, SyncInv
<1>2. view.seq = seq
  BY <1>1 DEF SyncInv, NewestInv, Idle
<1>3. view # Blank
  BY <1>1, <1>2 DEF SyncTypes, Blank
<1>4. view.attempt = current /\ view.stage = stage
  <2>1. PICK b \in Nat : RowsOK(b)
    BY DEF SyncInv, RowsInv
  <2>2. view \in AnyRow /\ RowOK(view, b)
    BY <1>1, <2>1 DEF SyncTypes, AnyRow, RowsOK
  <2>3. QED
    BY <1>1, <1>2, <2>1, <2>2, NewestRow
<1>5. current \in locked /\ ~unheard => me.locked
  <2>1. SUFFICES ASSUME current \in locked, ~unheard PROVE me.locked
    OBVIOUS
  <2>2. current # 0
    BY <1>1, <2>1 DEF SyncTypes
  <2>3. current = created /\ Started
    BY <1>1, <2>1, <2>2 DEF ServerInv, Started, SyncTypes, Stages
  <2>4. QED
    BY <1>1, <2>1, <2>3 DEF SyncInv, ToldInv
<1>6. ASSUME stage = "InputLocked", isRace PROVE myLife = life
  <2>1. view.race = life
    BY <1>2, <1>6 DEF SyncInv, ClosedInv
  <2>2. current = created /\ created # 0 /\ life # "unknown" /\ life \in MyLife
    BY <1>1, <1>6 DEF ServerInv, Started, SyncTypes
  <2>3. myLife \in Outcomes => myLife = life
    BY <1>4, <2>2, FatesAreTrue DEF NoFalseFate
  <2>4. PhoneInv /\ view.attempt = created
    BY <1>4, <2>2 DEF SyncInv, FateInv
  <2>5. strongerLife(lifeFromEvent, me.race) \in MyLife
        /\ lifeFromEvent \in MyLife /\ me.race \in MyLife /\ view.race \in MyLife
    BY <1>1, Stronger DEF SyncTypes, States, Snapshots
  <2>6. life \in Outcomes => myLife \in Outcomes
    BY <1>3, <2>1, <2>5, Stronger DEF myLife
  <2>7. myLife # "unknown" /\ myLife \in MyLife
    BY <1>1, <2>1, <2>2, MyLifeFacts
  <2>8. QED
    BY <2>2, <2>3, <2>6, <2>7 DEF MyLife, Outcomes
<1>7. QED
  BY <1>3, <1>4, <1>5, <1>6

--------------------------------------------------------------------------------
(***************************************************************************)
(* The theorems about the phone's session.                                 *)
(***************************************************************************)

LEMMA SyncAlone == [Next]_vars => [SyncNext]_syncVars
BY DEF Next, vars

\* What is on its way to the phone, and what it holds, is the truth or harmless: the
\* inductive invariant of a phone and its socket (RealtimeService, handleConnection).
THEOREM SyncInvariant == Spec => []SyncInv
<1>1. Init => SyncInit
  BY DEF Init
<1>2. QED
  BY <1>1, SyncStart, SyncAlone, SyncStep, PTL DEF Spec

\* However snapshots, positions, personal states and answers overlap and get lost, a phone
\* shows a player out, or at the finish, of the attempt on stage only if that is so, for any
\* number of attempts and messages on the way.
THEOREM NoFalseFateThm == Spec => []NoFalseFate
BY SyncInvariant, FatesAreTrue, PTL

\* A phone that shows the running round and has had its personal state shows its answer as
\* locked only if it was locked in this round.
THEOREM LockedInThisRoundThm == Spec => []LockedInThisRound
BY SyncInvariant, LocksAreOwn, PTL

\* A connected phone with nothing on the way to it shows the stage, the attempt, its lock and,
\* after a race, its fate, whatever was lost or came late before.
THEOREM CatchesUpThm == Spec => []CatchesUp
BY SyncInvariant, PhoneCatchesUp, PTL

--------------------------------------------------------------------------------
(***************************************************************************)
(* Finite sets.                                                            *)
(***************************************************************************)

\* The image of a finite set is finite and no larger.
LEMMA ImageFinite ==
  ASSUME NEW S, IsFiniteSet(S), NEW f
  PROVE  IsFiniteSet({f[x] : x \in S}) /\ Cardinality({f[x] : x \in S}) <= Cardinality(S)
<1> DEFINE T == {f[x] : x \in S}
           g == [x \in S |-> f[x]]
<1>1. g \in Surjection(S, T)
  BY DEF Surjection
<1>2. QED
  BY <1>1, FS_Surjection

\* A function on a nonempty finite set reaches its largest number somewhere.
LEMMA MaximumExists ==
  ASSUME NEW S, IsFiniteSet(S), S # {}, NEW f \in [S -> Int]
  PROVE  \E m \in S : \A x \in S : f[x] <= f[m]
<1> DEFINE Above(x) == {y \in S : f[y] > f[x]}
           Family == {Above(x) : x \in S}
           R == StrictSubsetOrdering(S)
<1>1. Family \subseteq FiniteSubsetsOf(S) /\ Family # {}
  <2>1. FiniteSubsetsOf(S) = SUBSET S
    BY FS_FiniteSubsetsOfFinite
  <2>2. \A x \in S : Above(x) \in SUBSET S
    OBVIOUS
  <2> HIDE DEF Above
  <2>3. QED
    BY <2>1, <2>2
<1>2. PICK A \in Family : \A B \in Family : ~(<<B, A>> \in R)
  <2> HIDE DEF Family, R
  <2>1. IsWellFoundedOn(R, FiniteSubsetsOf(S))
    BY FS_StrictSubsetOrderingWellFounded DEF R
  <2>2. QED
    BY <1>1, <2>1, WFMin
<1>3. PICK m \in S : A = Above(m)
  OBVIOUS
<1>4. ASSUME NEW x \in S, f[x] > f[m] PROVE FALSE
  <2>1. Above(x) \in SUBSET S /\ Above(m) \in SUBSET S /\ Above(x) \subseteq Above(m)
    BY <1>4
  <2>2. x \in Above(m) /\ x \notin Above(x)
    BY <1>4
  <2>3. <<Above(x), Above(m)>> \in R
    BY <2>1, <2>2 DEF StrictSubsetOrdering
  <2>4. QED
    BY <1>2, <1>3, <2>3
<1>5. QED
  BY <1>4

--------------------------------------------------------------------------------
(***************************************************************************)
(* People: who takes part and who may speak for a participant, for every   *)
(* capacity and every number of joins, devices, sockets and messages.      *)
(***************************************************************************)

Row ==
  [id : Nat, number : Nat \ {0}, simulated : BOOLEAN, removed : BOOLEAN,
   controller : Nat \cup {NoController}, devices : Nat \ {0}, connected : BOOLEAN]

\* An id is given once and a number too, and nobody sits without a seat.
SeatsInv ==
  /\ everCreated \in Nat /\ rows \subseteq Row /\ IsFiniteSet(rows)
  /\ \A r \in rows : r.id < everCreated
  /\ \A r, q \in rows : r.id = q.id => r = q
  /\ SeatsAndNumbers

\* A token that was issued to a device of a participant who exists, or once did.
Issued(t) ==
  /\ t.who \in Nat /\ t.controller \in Nat /\ t.who < everCreated
  /\ \A r \in rows : r.id = t.who => t.controller < r.devices

PhoneSteps == {"none", "checking", "marking", "up", "leaving"}

\* Sockets and messages carry tokens that were issued, and a message whose sender was
\* not in control when it arrived carries one that is not in control now.
TokensInv ==
  /\ phones \in [PhoneSockets -> [at : PhoneSteps, token : [who : Nat, controller : Nat]]]
  /\ \A s \in PhoneSockets : phones[s].at # "none" => Issued(phones[s].token)
  /\ messages \subseteq [token : [who : Nat, controller : Nat], at : {"asked", "accepted"}, inControl : BOOLEAN]
  /\ \A i \in messages :
       /\ Issued(i.token)
       /\ i.at = "asked" /\ ~i.inControl => ~InControl(i.token)
  /\ StaleDevicePowerless

PeopleInv == SeatsInv /\ TokensInv

LEMMA PeopleInit == SessionsInit => PeopleInv
<1> SUFFICES ASSUME SessionsInit PROVE PeopleInv
  OBVIOUS
<1>1. Present = {} /\ Cardinality(Present) = 0 /\ IsFiniteSet(rows)
  BY FS_EmptySet DEF SessionsInit, Present
<1>2. SeatsInv
  BY <1>1, SessionsAssumption DEF SessionsInit, SeatsInv, SeatsAndNumbers
<1>3. TokensInv
  <2>1. NoPhone \in [at : PhoneSteps, token : [who : Nat, controller : Nat]] /\ NoPhone.at = "none"
    BY DEF NoPhone, PhoneSteps
  <2>2. QED
    BY <2>1 DEF SessionsInit, TokensInv, StaleDevicePowerless
<1>4. QED
  BY <1>2, <1>3 DEF PeopleInv

\* New numbers lie above all numbers there are.
LEMMA NumbersGrow ==
  ASSUME SeatsInv
  PROVE  \E top \in Nat : /\ \A k \in Nat : NextNumber(k) = top + k
                         /\ \A r \in rows : r.number <= top
<1>1. CASE rows = {}
  BY <1>1 DEF NextNumber
<1>2. CASE rows # {}
  <2> DEFINE f == [r \in rows |-> r.number]
  <2>1. f \in [rows -> Int] /\ \A r \in rows : r.number \in Nat
    BY DEF SeatsInv, Row
  <2>2. \E m \in rows : \A q \in rows : q.number <= m.number
    <3>1. \E m \in rows : \A x \in rows : f[x] <= f[m]
      <4> HIDE DEF f
      <4> QED
        BY <1>2, <2>1, MaximumExists DEF SeatsInv
    <3>2. QED
      BY <3>1
  <2> DEFINE top == CHOOSE r \in rows : \A q \in rows : q.number <= r.number
  <2>3. top \in rows /\ \A q \in rows : q.number <= top.number
    BY <2>2
  <2>4. \A k \in Nat : NextNumber(k) = k + top.number
    BY <1>2 DEF NextNumber
  <2> HIDE DEF top
  <2>5. QED
    BY <2>1, <2>3, <2>4
<1>3. QED
  BY <1>1, <1>2

\* What a change of the table must leave of the tokens: an issued one stays issued, and
\* who has lost control does not get it back.
TokensKept ==
  \A t : Issued(t) => Issued(t)' /\ (~InControl(t) => ~InControl(t)')

\* New rows, no more than there are seats: a join, and rehearsal players.
LEMMA RowsAdded ==
  ASSUME SeatsInv, NEW n \in Nat \ {0}, n <= FreeSeats, NEW simulated \in BOOLEAN,
         NEW new, \A i \in 1..n : new[i] = NewRow(everCreated + i - 1, NextNumber(i), simulated),
         rows' = rows \cup {new[i] : i \in 1..n},
         everCreated' = everCreated + n
  PROVE  SeatsInv' /\ TokensKept
<1> DEFINE New == {new[i] : i \in 1..n}
<1>1. rows' = rows \cup New
  OBVIOUS
<1>2. /\ everCreated \in Nat /\ rows \subseteq Row /\ IsFiniteSet(rows) /\ IsFiniteSet(Present)
      /\ \A r \in rows : r.id \in Nat /\ r.id < everCreated
  BY FS_Subset DEF SeatsInv, Present, Row
<1>3. IsFiniteSet(New) /\ Cardinality(New) <= n
  <2>1. IsFiniteSet(1..n) /\ Cardinality(1..n) = n
    BY FS_Interval
  <2>2. QED
    BY <2>1, ImageFinite
<1>4. \A i \in 1..n :
        /\ new[i] \in Row /\ new[i].id = everCreated + i - 1 /\ ~new[i].removed
        /\ new[i].controller = 0 /\ new[i].devices = 1
        /\ \A r \in rows : r.number < new[i].number
        /\ \A k \in 1..n : new[i].number = new[k].number => i = k
  <2>1. PICK top \in Nat : /\ \A k \in Nat : NextNumber(k) = top + k
                          /\ \A r \in rows : r.number <= top
    BY NumbersGrow
  <2> TAKE i \in 1..n
  <2>2. \A r \in rows : r.number < NextNumber(i) /\ r.number \in Nat
    BY <1>2, <2>1 DEF Row
  <2>3. \A k \in 1..n : NextNumber(k) - k = NextNumber(i) - i /\ NextNumber(k) \in Nat \ {0}
    BY <2>1
  <2>4. new[i] = NewRow(everCreated + i - 1, NextNumber(i), simulated)
    OBVIOUS
  <2>5. \A k \in 1..n : new[k].number = NextNumber(k)
    <3> TAKE k \in 1..n
    <3>1. new[k] = NewRow(everCreated + k - 1, NextNumber(k), simulated)
      OBVIOUS
    <3>2. QED
      BY <3>1 DEF NewRow
  <2>6. NewRow(everCreated + i - 1, NextNumber(i), simulated) \in Row
    BY <1>2, <2>3 DEF NewRow, Row
  <2>7. ~new[i].removed
    BY <2>4 DEF NewRow
  <2>8. QED
    BY <1>2, <2>2, <2>3, <2>4, <2>5, <2>6, <2>7 DEF NewRow
<1>5. Present' = Present \cup New
  BY <1>1, <1>4 DEF Present
<1> HIDE DEF New
<1>6. IsFiniteSet(rows') /\ IsFiniteSet(Present') /\ Cardinality(Present') <= Capacity
  <2>1. IsFiniteSet(rows')
    <3>1. IsFiniteSet(rows \cup New)
      BY <1>2, <1>3, FS_Union
    <3>2. QED
      BY <1>1, <3>1
  <2>2. /\ IsFiniteSet(Present')
        /\ Cardinality(Present') = Cardinality(Present) + Cardinality(New) - Cardinality(Present \cap New)
    <3>1. /\ IsFiniteSet(Present \cup New)
          /\ Cardinality(Present \cup New) = Cardinality(Present) + Cardinality(New) - Cardinality(Present \cap New)
      BY <1>2, <1>3, FS_Union
    <3>2. QED
      BY <1>5, <3>1
  <2>3. Cardinality(Present \cap New) \in Nat /\ Cardinality(Present) \in Nat /\ Cardinality(New) \in Nat
    BY <1>2, <1>3, FS_Intersection, FS_CardinalityType
  <2>4. QED
    BY <1>3, <2>1, <2>2, <2>3, SessionsAssumption DEF FreeSeats
<1> USE DEF New
<1>7. rows' \subseteq Row /\ \A r \in rows' : r.id < everCreated'
  BY <1>1, <1>2, <1>4
<1>8. \A r, q \in rows' : (r.id = q.id => r = q) /\ (r.number = q.number => r = q)
  <2> SUFFICES ASSUME NEW r \in rows', NEW q \in rows'
               PROVE  (r.id = q.id => r = q) /\ (r.number = q.number => r = q)
    OBVIOUS
  <2>1. CASE r \in rows /\ q \in rows
    BY <2>1 DEF SeatsInv, SeatsAndNumbers
  <2>2. CASE r \in rows /\ q \in New
    BY <1>2, <1>4, <2>2 DEF Row
  <2>3. CASE r \in New /\ q \in rows
    BY <1>2, <1>4, <2>3 DEF Row
  <2>4. CASE r \in New /\ q \in New
    BY <1>2, <1>4, <2>4
  <2>5. QED
    BY <1>1, <2>1, <2>2, <2>3, <2>4
<1>9. SeatsInv'
  BY <1>2, <1>6, <1>7, <1>8 DEF SeatsInv, SeatsAndNumbers
<1>10. ASSUME NEW t, Issued(t) PROVE Issued(t)' /\ (~InControl(t) => ~InControl(t)')
  <2>1. \A r \in New : r.id # t.who
    BY <1>2, <1>4, <1>10 DEF Issued
  <2>2. QED
    BY <1>1, <1>2, <1>5, <1>10, <2>1 DEF Issued, InControl
<1>11. QED
  BY <1>9, <1>10 DEF TokensKept

\* Rows changed in place, or deleted.  A row keeps its id and its number, one that is
\* removed stays removed, and a new device is one the identity did not have before.
LEMMA RowsChanged ==
  ASSUME SeatsInv, everCreated' = everCreated, NEW g, rows' \subseteq {g[r] : r \in rows},
         \A r \in rows :
           /\ g[r] \in Row /\ g[r].id = r.id /\ g[r].number = r.number
           /\ ~g[r].removed => ~r.removed
           /\ g[r].devices >= r.devices
           /\ g[r].removed \/ g[r].controller \in {r.controller, r.devices}
  PROVE  SeatsInv' /\ TokensKept
<1>1. /\ rows \subseteq Row /\ IsFiniteSet(rows) /\ IsFiniteSet(Present) /\ everCreated \in Nat
      /\ Cardinality(Present) <= Capacity /\ Capacity \in Nat
  BY FS_Subset, SessionsAssumption DEF SeatsInv, SeatsAndNumbers, Present
<1>2. IsFiniteSet({g[r] : r \in rows}) /\ IsFiniteSet(rows')
  <2>1. IsFiniteSet({g[r] : r \in rows})
    BY <1>1, ImageFinite
  <2>2. QED
    BY <2>1, FS_Subset
<1>3. Present' \subseteq {g[r] : r \in Present}
  BY DEF Present
<1>4. Cardinality(Present') <= Capacity
  <2>1. IsFiniteSet({g[r] : r \in Present}) /\ Cardinality({g[r] : r \in Present}) <= Cardinality(Present)
    BY <1>1, ImageFinite
  <2>2. Cardinality(Present') <= Cardinality({g[r] : r \in Present}) /\ IsFiniteSet(Present')
    BY <1>3, <2>1, FS_Subset
  <2>3. QED
    BY <1>1, <2>1, <2>2, FS_CardinalityType
<1>5. \A r, q \in rows' : (r.id = q.id => r = q) /\ (r.number = q.number => r = q)
  BY DEF SeatsInv, SeatsAndNumbers
<1>6. rows' \subseteq Row /\ \A r \in rows' : r.id < everCreated'
  BY DEF SeatsInv
<1>7. SeatsInv'
  BY <1>1, <1>2, <1>4, <1>5, <1>6 DEF SeatsInv, SeatsAndNumbers
<1>8. ASSUME NEW t, Issued(t) PROVE Issued(t)' /\ (~InControl(t) => ~InControl(t)')
  <2>1. \A r \in rows : g[r].devices \in Nat /\ r.devices \in Nat
    BY <1>1 DEF Row
  <2>2. Issued(t)'
    BY <1>8, <2>1 DEF Issued
  <2>3. InControl(t)' => InControl(t)
    <3> SUFFICES ASSUME InControl(t)' PROVE InControl(t)
      OBVIOUS
    <3>1. PICK r \in rows : g[r] \in Present' /\ g[r].id = t.who /\ g[r].controller = t.controller
      BY DEF InControl, Present
    <3>2. r \in Present /\ g[r].controller \in {r.controller, r.devices} /\ t.controller < r.devices
      BY <1>8, <3>1 DEF Present, Issued
    <3>3. QED
      BY <1>8, <2>1, <3>1, <3>2 DEF InControl, Issued
  <2>4. QED
    BY <2>2, <2>3
<1>9. QED
  BY <1>7, <1>8 DEF TokensKept

\* One row changed in place, by its id.
LEMMA RowUpdated ==
  ASSUME SeatsInv, everCreated' = everCreated, NEW id, NEW f,
         rows' = Update(id, {f[r] : r \in RowsOf(id)}),
         \A r \in rows :
           /\ f[r] \in Row /\ f[r].id = r.id /\ f[r].number = r.number
           /\ ~f[r].removed => ~r.removed
           /\ f[r].devices >= r.devices
           /\ f[r].removed \/ f[r].controller \in {r.controller, r.devices}
  PROVE  SeatsInv' /\ TokensKept
<1> DEFINE g == [r \in rows |-> IF r.id = id THEN f[r] ELSE r]
<1>1. rows' = {g[r] : r \in rows}
  BY DEF Update, RowsOf
<1>2. \A r \in rows : r \in Row /\ (g[r] = r \/ g[r] = f[r])
  BY DEF SeatsInv
<1>3. \A r \in rows : r.devices >= r.devices
  BY <1>2 DEF Row
<1> HIDE DEF g
<1>4. \A r \in rows :
        /\ g[r] \in Row /\ g[r].id = r.id /\ g[r].number = r.number
        /\ ~g[r].removed => ~r.removed
        /\ g[r].devices >= r.devices
        /\ g[r].removed \/ g[r].controller \in {r.controller, r.devices}
  BY <1>2, <1>3
<1>5. QED
  BY <1>1, <1>4, RowsChanged

\* What the steps that leave the table alone, and those that change it, mean for tokens.
LEMMA TokensStep ==
  ASSUME PeopleInv, TokensKept,
         phones' \in [PhoneSockets -> [at : PhoneSteps, token : [who : Nat, controller : Nat]]],
         \A s \in PhoneSockets :
           phones'[s].at # "none" => phones'[s].token = phones[s].token /\ phones[s].at # "none",
         messages' \subseteq messages
  PROVE  TokensInv'
<1>1. \A i \in messages' : i.at = "asked" /\ ~i.inControl => ~InControl(i.token)'
  BY DEF PeopleInv, TokensInv, TokensKept
<1>2. \A i \in messages' : Issued(i.token)'
  BY DEF PeopleInv, TokensInv, TokensKept
<1>3. \A s \in PhoneSockets : phones'[s].at # "none" => Issued(phones[s].token)'
  BY DEF PeopleInv, TokensInv, TokensKept
<1>4. QED
  BY <1>1, <1>2, <1>3 DEF PeopleInv, TokensInv, StaleDevicePowerless

\* No step takes a seat that is not there, gives a number twice, or lets a message in
\* from a device that was not in control.
LEMMA PeopleStep == PeopleInv /\ [SessionsNext]_sessionsVars => PeopleInv'
<1> SUFFICES ASSUME PeopleInv, [SessionsNext]_sessionsVars PROVE PeopleInv'
  OBVIOUS
<1>t. UNCHANGED <<rows, everCreated>> => SeatsInv' /\ TokensKept
  BY DEF PeopleInv, SeatsInv, SeatsAndNumbers, Present, TokensKept, Issued, InControl
<1>p. UNCHANGED <<phones, messages>> /\ TokensKept => TokensInv'
  BY TokensStep DEF PeopleInv, TokensInv
<1>1. CASE AskToJoin \/ SetJoinOpen \/ CloseSession \/ UNCHANGED sessionsVars
           \/ \E id \in Ids : FindToRestore(id)
  BY <1>1, <1>t, <1>p
     DEF PeopleInv, AskToJoin, SetJoinOpen, CloseSession, FindToRestore, sessionsVars, sockets, table
<1>2. CASE Join
  <2>1. CASE UNCHANGED <<rows, everCreated>>
    BY <1>2, <1>t, <1>p, <2>1 DEF PeopleInv, Join, sockets
  <2>2. CASE FreeSeats > 0 /\ rows' = rows \cup {NewRow(everCreated, NextNumber(1), FALSE)}
             /\ everCreated' = everCreated + 1
    <3> DEFINE new == [i \in 1..1 |-> NewRow(everCreated + i - 1, NextNumber(i), FALSE)]
    <3>1. FreeSeats >= 1
      BY <2>2, SessionsAssumption, FS_CardinalityType, FS_Subset DEF PeopleInv, SeatsInv, FreeSeats, Present
    <3>2. SeatsInv' /\ TokensKept
      <4>1. \A i \in 1..1 : new[i] = NewRow(everCreated + i - 1, NextNumber(i), FALSE)
        OBVIOUS
      <4>2. new[1] = NewRow(everCreated, NextNumber(1), FALSE)
        <5>1. everCreated + 1 - 1 = everCreated /\ 1 \in 1..1
          BY DEF PeopleInv, SeatsInv
        <5>2. QED
          BY <5>1
      <4> HIDE DEF new
      <4>3. rows' = rows \cup {new[i] : i \in 1..1}
        <5>1. \A i : i \in 1..1 <=> i = 1
          OBVIOUS
        <5>2. rows' = rows \cup {new[1]}
          BY <2>2, <4>2
        <5>3. QED
          BY <5>1, <5>2
      <4>4. QED
        <5>1. SeatsInv /\ 1 \in Nat \ {0} /\ 1 <= FreeSeats /\ FALSE \in BOOLEAN /\ everCreated' = everCreated + 1
          BY <2>2, <3>1 DEF PeopleInv
        <5>2. QED
          BY <4>1, <4>3, <5>1, RowsAdded
    <3>3. QED
      BY <1>2, <1>p, <3>2 DEF PeopleInv, Join, sockets
  <2>3. QED
    BY <1>2, <2>1, <2>2 DEF Join
<1>3. ASSUME NEW id \in Ids, Restore(id) PROVE PeopleInv'
  <2> DEFINE f == [r \in rows |-> [r EXCEPT !.controller = r.devices, !.devices = @ + 1, !.connected = TRUE]]
  <2>1. rows' = Update(id, {f[r] : r \in RowsOf(id)}) /\ everCreated' = everCreated
    BY <1>3 DEF Restore, RowsOf
  <2>2. \A r \in rows :
          /\ f[r] \in Row /\ f[r].id = r.id /\ f[r].number = r.number
          /\ ~f[r].removed => ~r.removed
          /\ f[r].devices >= r.devices
          /\ f[r].removed \/ f[r].controller \in {r.controller, r.devices}
    <3> TAKE r \in rows
    <3>1. r \in Row /\ f[r] = [r EXCEPT !.controller = r.devices, !.devices = @ + 1, !.connected = TRUE]
      BY DEF PeopleInv, SeatsInv
    <3> HIDE DEF f
    <3>2. f[r] \in Row
      <4>1. r.devices \in Nat /\ r.devices + 1 \in Nat \ {0}
        BY <3>1 DEF Row
      <4>2. QED
        BY <3>1, <4>1 DEF Row
    <3>3. /\ f[r].id = r.id /\ f[r].number = r.number /\ f[r].devices = r.devices + 1
          /\ f[r].controller = r.devices
      BY <3>1 DEF Row
    <3>4. f[r].removed = r.removed
      BY <3>1 DEF Row
    <3>5. r.devices \in Nat
      BY <3>1 DEF Row
    <3>6. f[r].devices >= r.devices
      BY <3>3, <3>5
    <3>7. QED
      BY <3>2, <3>3, <3>4, <3>6, Zenon
  <2> HIDE DEF f
  <2>3. SeatsInv' /\ TokensKept
    BY <2>1, <2>2, RowUpdated DEF PeopleInv
  <2>4. QED
    BY <1>3, <1>p, <2>3 DEF PeopleInv, Restore, sockets
<1>4. ASSUME NEW id \in Ids, RemoveParticipant(id) PROVE PeopleInv'
  <2> DEFINE f == [r \in rows |-> [r EXCEPT !.removed = TRUE, !.controller = NoController]]
  <2>1. rows' = Update(id, {f[r] : r \in RowsOf(id)}) /\ everCreated' = everCreated
    BY <1>4 DEF RemoveParticipant, RowsOf
  <2>2. \A r \in rows :
          /\ f[r] \in Row /\ f[r].id = r.id /\ f[r].number = r.number
          /\ ~f[r].removed => ~r.removed
          /\ f[r].devices >= r.devices
          /\ f[r].removed \/ f[r].controller \in {r.controller, r.devices}
    <3> TAKE r \in rows
    <3>1. r \in Row /\ f[r] = [r EXCEPT !.removed = TRUE, !.controller = NoController]
      BY DEF PeopleInv, SeatsInv
    <3> HIDE DEF f
    <3>2. f[r] \in Row
      BY <3>1, SessionsAssumption DEF Row
    <3>3. /\ f[r].id = r.id /\ f[r].number = r.number /\ f[r].devices = r.devices
      BY <3>1 DEF Row
    <3>4. f[r].removed
      BY <3>1 DEF Row
    <3>5. r.devices >= r.devices
      BY <3>1 DEF Row
    <3>6. QED
      BY <3>2, <3>3, <3>4, <3>5, Zenon
  <2> HIDE DEF f
  <2>3. SeatsInv' /\ TokensKept
    BY <2>1, <2>2, RowUpdated DEF PeopleInv
  <2>4. QED
    BY <1>4, <1>p, <2>3 DEF PeopleInv, RemoveParticipant, sockets
<1>5. ASSUME NEW count \in 1..MaxRows, AddSimulated(count) PROVE PeopleInv'
  <2> DEFINE n == CHOOSE k \in 0..count : (k = count \/ k = FreeSeats) /\ k <= FreeSeats
  <2>1. FreeSeats \in Int /\ FreeSeats >= 0 /\ count \in Nat
    BY <1>5, SessionsAssumption, FS_CardinalityType, FS_Subset
       DEF AddSimulated, PeopleInv, SeatsInv, FreeSeats, Present
  <2>2. \E k \in 0..count : (k = count \/ k = FreeSeats) /\ k <= FreeSeats
    <3>1. CASE count <= FreeSeats
      BY <2>1, <3>1
    <3>2. CASE count > FreeSeats
      BY <2>1, <3>2
    <3>3. QED
      BY <2>1, <3>1, <3>2
  <2>3. n \in 0..count /\ n <= FreeSeats
    BY <2>2
  <2>4. n > 0 /\ everCreated' = everCreated + n /\ UNCHANGED <<phones, messages>>
        /\ rows' = rows \cup {NewRow(everCreated + i - 1, NextNumber(i), TRUE) : i \in 1..n}
    BY <1>5 DEF AddSimulated, sockets
  <2> HIDE DEF n
  <2> DEFINE new == [i \in 1..n |-> NewRow(everCreated + i - 1, NextNumber(i), TRUE)]
  <2>5. SeatsInv' /\ TokensKept
    <3>1. \A i \in 1..n : new[i] = NewRow(everCreated + i - 1, NextNumber(i), TRUE)
      OBVIOUS
    <3>2. rows' = rows \cup {new[i] : i \in 1..n}
      BY <2>4
    <3> HIDE DEF new
    <3>3. QED
      <4>1. SeatsInv /\ n \in Nat \ {0} /\ TRUE \in BOOLEAN
        BY <2>1, <2>3, <2>4 DEF PeopleInv
      <4>2. QED
        BY <2>3, <2>4, <3>1, <3>2, <4>1, RowsAdded
  <2>6. QED
    BY <1>p, <2>4, <2>5 DEF PeopleInv
<1>6. CASE RemoveSimulated
  <2> DEFINE g == [r \in rows |-> r]
  <2>1. rows' \subseteq {g[r] : r \in rows} /\ everCreated' = everCreated
    BY <1>6 DEF RemoveSimulated
  <2>2. \A r \in rows :
          /\ g[r] \in Row /\ g[r].id = r.id /\ g[r].number = r.number
          /\ ~g[r].removed => ~r.removed
          /\ g[r].devices >= r.devices
          /\ g[r].removed \/ g[r].controller \in {r.controller, r.devices}
    BY DEF PeopleInv, SeatsInv, Row
  <2> HIDE DEF g
  <2>3. SeatsInv' /\ TokensKept
    BY <2>1, <2>2, RowsChanged DEF PeopleInv
  <2>4. QED
    BY <1>6, <1>p, <2>3 DEF PeopleInv, RemoveSimulated, sockets
<1>7. ASSUME NEW s \in PhoneSockets, NEW t \in Tokens, ConnectSocket(s, t) PROVE PeopleInv'
  <2>1. Issued(t) /\ t \in [who : Nat, controller : Nat]
    <3>1. PICK r \in rows : \E k \in 0..(r.devices - 1) : t = [who |-> r.id, controller |-> k]
      BY DEF Tokens
    <3>2. PICK k \in 0..(r.devices - 1) : t = [who |-> r.id, controller |-> k]
      BY <3>1
    <3>3. r.devices \in Nat /\ r.id \in Nat /\ r.id < everCreated /\ k \in Nat /\ k < r.devices
          /\ \A q \in rows : q.id = r.id => q = r
      BY DEF PeopleInv, SeatsInv, Row
    <3>4. QED
      BY <3>2, <3>3 DEF Issued
  <2>2. SeatsInv' /\ TokensKept /\ messages' = messages
    BY <1>7, <1>t DEF ConnectSocket, table
  <2>3. phones' \in [PhoneSockets -> [at : PhoneSteps, token : [who : Nat, controller : Nat]]]
        /\ \A x \in PhoneSockets : phones'[x] = IF x = s THEN [at |-> "checking", token |-> t] ELSE phones[x]
    BY <1>7, <2>1 DEF ConnectSocket, PeopleInv, TokensInv, PhoneSteps
  <2>4. \A x \in PhoneSockets : phones'[x].at # "none" => Issued(phones'[x].token)
    BY <2>1, <2>3 DEF PeopleInv, TokensInv
  <2>5. \A x \in PhoneSockets : phones'[x].at # "none" => Issued(phones[x].token)'
    BY <2>2, <2>4 DEF TokensKept
  <2>6. \A i \in messages' : Issued(i.token)' /\ (~InControl(i.token) => ~InControl(i.token)')
    BY <2>2 DEF PeopleInv, TokensInv, TokensKept
  <2>7. QED
    BY <2>2, <2>3, <2>5, <2>6 DEF PeopleInv, TokensInv, StaleDevicePowerless
<1>8. ASSUME NEW s \in PhoneSockets,
             CheckSocket(s) \/ MarkConnected(s) \/ Disconnect(s) \/ MarkDisconnected(s)
      PROVE  PeopleInv'
  <2>1. /\ messages' = messages
        /\ phones[s].at # "none"
        /\ \E at \in PhoneSteps : Step(s, at)
    BY <1>8 DEF CheckSocket, MarkConnected, Disconnect, MarkDisconnected, PhoneSteps
  <2>2. phones' \in [PhoneSockets -> [at : PhoneSteps, token : [who : Nat, controller : Nat]]]
    <3>1. NoPhone \in [at : PhoneSteps, token : [who : Nat, controller : Nat]]
      BY DEF NoPhone, PhoneSteps
    <3>2. QED
      BY <2>1, <3>1 DEF Step, PeopleInv, TokensInv
  <2>3. \A x \in PhoneSockets :
          phones'[x].at # "none" => phones'[x].token = phones[x].token /\ phones[x].at # "none"
    BY <2>1 DEF Step, NoPhone, PeopleInv, TokensInv
  <2>4. SeatsInv' /\ TokensKept
    <3>1. CASE CheckSocket(s) \/ Disconnect(s)
      BY <1>t, <3>1 DEF CheckSocket, Disconnect, table
    <3>2. ASSUME NEW up \in BOOLEAN, rows' = Marked(phones[s].token.who, up), everCreated' = everCreated
          PROVE  SeatsInv' /\ TokensKept
      <4> DEFINE f == [r \in rows |-> [r EXCEPT !.connected = up]]
                 id == phones[s].token.who
      <4>1. rows' = Update(id, {f[r] : r \in RowsOf(id)})
        BY <3>2 DEF Marked, RowsOf
      <4>2. \A r \in rows :
              /\ f[r] \in Row /\ f[r].id = r.id /\ f[r].number = r.number
              /\ ~f[r].removed => ~r.removed
              /\ f[r].devices >= r.devices
              /\ f[r].removed \/ f[r].controller \in {r.controller, r.devices}
        <5> TAKE r \in rows
        <5>1. r \in Row /\ f[r] = [r EXCEPT !.connected = up]
          BY DEF PeopleInv, SeatsInv
        <5> HIDE DEF f
        <5>2. f[r] \in Row
          BY <5>1, SessionsAssumption DEF Row
        <5>3. f[r].id = r.id /\ f[r].number = r.number /\ f[r].devices = r.devices /\ f[r].controller = r.controller
          BY <5>1 DEF Row
        <5>4. f[r].removed = r.removed
          BY <5>1 DEF Row
        <5>5. r.devices >= r.devices
          BY <5>1 DEF Row
        <5>6. QED
          BY <5>2, <5>3, <5>4, <5>5, Zenon
      <4> HIDE DEF f, id
      <4>3. QED
        BY <3>2, <4>1, <4>2, RowUpdated DEF PeopleInv
    <3>3. QED
      BY <1>8, <3>1, <3>2 DEF MarkConnected, MarkDisconnected
  <2>5. QED
    BY <2>1, <2>2, <2>3, <2>4, TokensStep DEF PeopleInv
<1>9. ASSUME NEW s \in PhoneSockets, Send(s) PROVE PeopleInv'
  <2>1. SeatsInv' /\ TokensKept /\ phones' = phones
    BY <1>9, <1>t DEF Send, table
  <2> DEFINE m == [token |-> phones[s].token, at |-> "asked", inControl |-> InControl(phones[s].token)]
  <2>2. messages' = messages \cup {m} /\ Issued(phones[s].token)
    BY <1>9 DEF Send, PeopleInv, TokensInv
  <2>3. m.token = phones[s].token /\ m.at = "asked" /\ m.inControl = InControl(phones[s].token)
        /\ m.inControl \in BOOLEAN
    BY DEF InControl
  <2> HIDE DEF m
  <2>4. messages' \subseteq [token : [who : Nat, controller : Nat], at : {"asked", "accepted"}, inControl : BOOLEAN]
    <3>1. phones[s].token \in [who : Nat, controller : Nat]
      BY DEF PeopleInv, TokensInv
    <3>2. m \in [token : [who : Nat, controller : Nat], at : {"asked", "accepted"}, inControl : BOOLEAN]
      BY <2>3, <3>1 DEF m
    <3>3. QED
      BY <2>2, <3>2 DEF PeopleInv, TokensInv
  <2>5. \A i \in messages' :
          /\ Issued(i.token)
          /\ i.at = "asked" /\ ~i.inControl => ~InControl(i.token)
          /\ i.at = "accepted" => i.inControl
    BY <2>2, <2>3 DEF PeopleInv, TokensInv, StaleDevicePowerless
  <2>6. \A i \in messages' : Issued(i.token)' /\ (~InControl(i.token) => ~InControl(i.token)')
    BY <2>1, <2>5 DEF TokensKept
  <2>7. \A x \in PhoneSockets : phones'[x].at # "none" => Issued(phones[x].token)'
    BY <2>1 DEF PeopleInv, TokensInv, TokensKept
  <2>8. QED
    BY <2>1, <2>4, <2>5, <2>6, <2>7 DEF PeopleInv, TokensInv, StaleDevicePowerless
<1>10. ASSUME NEW i \in messages, CheckInput(i) PROVE PeopleInv'
  <2>1. SeatsInv' /\ TokensKept /\ phones' = phones
    BY <1>10, <1>t DEF CheckInput, table
  <2> DEFINE a == [i EXCEPT !.at = "accepted"]
  <2>2. \A x \in messages' : x \in messages \/ (x = a /\ isActiveController(i.token))
    BY <1>10 DEF CheckInput
  <2>3. isActiveController(i.token) => InControl(i.token)
    BY DEF isActiveController, InControl
  <2>4. i.inControl \in BOOLEAN /\ (~i.inControl => ~InControl(i.token)) /\ Issued(i.token)
    BY <1>10 DEF CheckInput, PeopleInv, TokensInv
  <2>5. \A x \in messages' : x \in messages \/
          (x.token = i.token /\ x.at = "accepted" /\ x.inControl = TRUE)
    BY <2>2, <2>3, <2>4 DEF PeopleInv, TokensInv
  <2>t. messages' \subseteq [token : [who : Nat, controller : Nat], at : {"asked", "accepted"}, inControl : BOOLEAN]
    <3>1. a \in [token : [who : Nat, controller : Nat], at : {"asked", "accepted"}, inControl : BOOLEAN]
      BY DEF PeopleInv, TokensInv
    <3> HIDE DEF a
    <3>2. QED
      BY <2>2, <3>1 DEF PeopleInv, TokensInv
  <2>6. \A x \in messages' : Issued(x.token)' /\ (~InControl(x.token) => ~InControl(x.token)')
    BY <2>1, <2>4, <2>5 DEF PeopleInv, TokensInv, TokensKept
  <2>7. \A x \in PhoneSockets : phones'[x].at # "none" => Issued(phones[x].token)'
    BY <2>1 DEF PeopleInv, TokensInv, TokensKept
  <2>8. QED
    BY <2>1, <2>5, <2>6, <2>7, <2>t DEF PeopleInv, TokensInv, StaleDevicePowerless
<1>11. ASSUME NEW i \in messages, TakeInput(i) PROVE PeopleInv'
  <2>1. SeatsInv' /\ TokensKept /\ phones' = phones /\ messages' \subseteq messages
    BY <1>11, <1>t DEF TakeInput, table
  <2>2. QED
    BY <2>1, TokensStep DEF PeopleInv, TokensInv
<1>12. QED
  BY <1>1, <1>2, <1>3, <1>4, <1>5, <1>6, <1>7, <1>8, <1>9, <1>10, <1>11 DEF SessionsNext

--------------------------------------------------------------------------------
(***************************************************************************)
(* The theorems about people.                                              *)
(***************************************************************************)

LEMMA PeopleAlone == [Next]_vars => [SessionsNext]_sessionsVars
BY DEF Next, vars

\* The inductive invariant of the participants' table and of the tokens that devices,
\* sockets and messages carry (SessionsService, EventsGateway).
THEOREM PeopleInvariant == Spec => []PeopleInv
<1>1. Init => SessionsInit
  BY DEF Init
<1>2. QED
  BY <1>1, PeopleInit, PeopleAlone, PeopleStep, PTL DEF Spec

\* However joins, rehearsal players, recoveries and removals interleave, a session never
\* has more participants than seats and never two rows of one number, for every capacity
\* and any number of joins under way.
THEOREM SeatsAndNumbersThm == Spec => []SeatsAndNumbers
<1>1. PeopleInv => SeatsAndNumbers
  BY DEF PeopleInv, SeatsInv
<1>2. QED
  BY <1>1, PeopleInvariant, PTL

\* A device that had lost the identity, or whose participant was removed, when its
\* message arrived never has it accepted, for any number of devices, sockets and messages.
THEOREM StaleDevicePowerlessThm == Spec => []StaleDevicePowerless
<1>1. PeopleInv => StaleDevicePowerless
  BY DEF PeopleInv, TokensInv
<1>2. QED
  BY <1>1, PeopleInvariant, PTL

--------------------------------------------------------------------------------
(***************************************************************************)
(* The sessions of the host's page.                                        *)
(***************************************************************************)

LEMMA DeskAlone == [Next]_vars => [ConsoleNext]_consoleVars
BY DEF Next, vars

\* Opening, leaving, reloading and every answer keep the desk, the socket and what is kept
\* of one session, unless the answer is about another one.
LEMMA DeskStep == OneDesk /\ [ConsoleNext]_consoleVars => OneDesk'
<1> SUFFICES ASSUME OneDesk, [ConsoleNext]_consoleVars PROVE OneDesk'
  OBVIOUS
<1>1. UNCHANGED <<place, mixed>> => OneDesk'
  BY DEF OneDesk, place
<1>2. LeaveEvent => OneDesk'
  BY DEF OneDesk, LeaveEvent
<1>3. ASSUME NEW s, OpenEvent(s) PROVE OneDesk'
  BY <1>3 DEF OneDesk, OpenEvent
<1>4. ASSUME NEW r, TakeRow(r) PROVE OneDesk'
  <2>1. mixed' \in BOOLEAN /\ (mixed' <=> mixed \/ r.of # shownEvent)
    BY <1>4 DEF TakeRow
  <2>2. QED
    BY <1>4, <2>1 DEF OneDesk, TakeRow
<1>5. ASSUME NEW k, SignIn(k) PROVE OneDesk'
  BY <1>1, <1>5 DEF SignIn
<1>6. CASE ReloadDesk
  BY <1>6 DEF OneDesk, ReloadDesk
<1>7. CASE SignOut \/ BackToSessions
  BY <1>2, <1>7 DEF SignOut, BackToSessions
<1>8. CASE Create \/ Poll \/ \E what \in {"update", "people"} : Amend(what) \/ AskFirst(what)
           \/ \E yes \in BOOLEAN : AnswerDialog(yes)
  BY <1>1, <1>8 DEF Create, Poll, Amend, AskFirst, AnswerDialog
<1>9. ASSUME NEW s \in Events, Open(s) PROVE OneDesk'
  BY <1>3, <1>9 DEF Open
<1>10. ASSUME NEW r \in requests, Done(r) PROVE OneDesk'
  BY <1>1, <1>3, <1>4, <1>10 DEF Done, Listed, Created, RosterLoaded, Updated, PeopleChanged
<1>11. ASSUME NEW r \in requests, Failed(r, TRUE) \/ Failed(r, FALSE) PROVE OneDesk'
  BY <1>1, <1>2, <1>11 DEF Failed
<1>12. CASE UNCHANGED consoleVars
  BY <1>1, <1>12 DEF consoleVars, place
<1>13. QED
  BY <1>5, <1>6, <1>7, <1>8, <1>9, <1>10, <1>11, <1>12 DEF ConsoleNext

\* The desk, its socket and a reload are about one session, until an answer about an
\* earlier one comes late, for any number of sessions and of calls under way.
THEOREM OneDeskThm == Spec => []OneDesk
<1>1. Init => OneDesk
  BY DEF Init, ConsoleInit, OneDesk
<1>2. QED
  BY <1>1, DeskAlone, DeskStep, PTL DEF Spec

--------------------------------------------------------------------------------
(***************************************************************************)
(* The globe.                                                              *)
(***************************************************************************)

LEMMA GlobeAlone == [Next]_vars => [GlobeNext]_globeVars
BY DEF Next, vars

\* While nobody switched the input under the fingers, the globe knows all of them or
\* none, a second finger has ended the drag, and what could be a tap has been clean.
GlobeInv ==
  /\ IsFiniteSet(pointers) /\ pointers \subseteq touching
  /\ interactive \in BOOLEAN /\ dragging \in BOOLEAN /\ moved \in BOOLEAN
  /\ pinching \in BOOLEAN /\ switched \in BOOLEAN
  /\ ~switched =>
       /\ interactive => pointers = touching
       /\ ~interactive => pointers = {}
       /\ Cardinality(pointers) >= 2 => ~dragging
       /\ dragging /\ ~moved /\ Cardinality(pointers) = 1 => pointers \subseteq clean
  /\ TapPlaces

LEMMA GlobeStep == GlobeInv /\ [GlobeNext]_globeVars => GlobeInv'
<1> SUFFICES ASSUME GlobeInv, [GlobeNext]_globeVars PROVE GlobeInv'
  OBVIOUS
<1>c. /\ IsFiniteSet(pointers) /\ Cardinality(pointers) \in Nat
      /\ Cardinality(pointers) = 0 => pointers = {}
      /\ Cardinality({}) = 0 /\ IsFiniteSet({})
      /\ \A f : /\ IsFiniteSet(pointers \cup {f}) /\ IsFiniteSet(pointers \ {f})
                /\ Cardinality(pointers \cup {f}) =
                     IF f \in pointers THEN Cardinality(pointers) ELSE Cardinality(pointers) + 1
  BY FS_EmptySet, FS_CardinalityType, FS_AddElement, FS_RemoveElement DEF GlobeInv
<1>1. ASSUME NEW f \in Fingers, Down(f) PROVE GlobeInv'
  <2>1. /\ f \notin touching /\ touching' = touching \cup {f} /\ interactive' = interactive /\ placed' = {}
        /\ clean' = IF touching = {} THEN {f} ELSE {}
    BY <1>1 DEF Down
  <2>2. switched' \in BOOLEAN /\ (switched' <=> switched /\ touching # {})
    BY <1>1 DEF Down
  <2>3. CASE ~interactive
    <3>1. pointers' = pointers /\ dragging' = dragging /\ moved' = moved /\ pinching' = pinching
      BY <1>1, <2>3 DEF Down, gesture
    <3>2. ~switched' => pointers = {}
      BY <2>2, <2>3 DEF GlobeInv
    <3>3. QED
      BY <1>c, <2>1, <2>2, <2>3, <3>1, <3>2 DEF GlobeInv, TapPlaces
  <2>4. CASE interactive
    <3>1. pointers' = pointers \cup {f} /\ Cardinality(pointers') = Cardinality(pointers) + 1 /\ IsFiniteSet(pointers')
      <4>1. pointers' = pointers \cup {f}
        BY <1>1, <2>4 DEF Down
      <4>2. f \notin pointers
        BY <2>1 DEF GlobeInv
      <4>3. QED
        BY <1>c, <4>1, <4>2
    <3>2. /\ dragging' \in BOOLEAN /\ moved' \in BOOLEAN /\ pinching' \in BOOLEAN
          /\ Cardinality(pointers') >= 2 /\ dragging' => Cardinality(pointers) >= 2 /\ dragging
      <4> DEFINE n == Cardinality(pointers')
      <4>1. n = Cardinality(pointers) + 1 /\ Cardinality(pointers) \in Nat /\ dragging \in BOOLEAN
        BY <1>c, <3>1 DEF GlobeInv
      <4>2. dragging' = CASE n = 1 -> TRUE [] n = 2 -> FALSE [] OTHER -> dragging
        BY <1>1, <2>4 DEF Down
      <4>3. moved' \in BOOLEAN /\ pinching' \in BOOLEAN
        BY <1>1, <2>4 DEF Down
      <4> HIDE DEF n
      <4>4. CASE n = 1
        <5>1. dragging' = TRUE
          BY <4>2, <4>4
        <5>2. ~(n >= 2)
          BY <4>4
        <5>3. QED
          BY <4>3, <5>1, <5>2, Zenon DEF n
      <4>5. CASE n = 2
        <5>1. dragging' = FALSE
          BY <4>2, <4>5
        <5>2. QED
          BY <4>3, <5>1, Zenon
      <4>6. CASE n # 1 /\ n # 2
        <5>1. dragging' = dragging
          BY <4>2, <4>6
        <5>2. n >= 2 => Cardinality(pointers) >= 2
          BY <4>1, <4>6
        <5>3. QED
          BY <4>1, <4>3, <5>1, <5>2, Zenon DEF n
      <4>7. QED
        BY <4>4, <4>5, <4>6
    <3>4. CASE touching = {}
      <4>1. pointers = {} /\ pointers' = {f} /\ touching' = {f} /\ clean' = {f}
        BY <2>1, <3>1, <3>4 DEF GlobeInv
      <4>2. Cardinality(pointers') = 1
        BY <1>c, <3>1, <4>1
      <4>3. QED
        BY <2>1, <2>2, <2>4, <3>1, <3>2, <4>1, <4>2 DEF GlobeInv, TapPlaces
    <3>5. CASE touching # {}
      <4>1. ~switched' => pointers' = touching' /\ Cardinality(pointers') >= 2 /\ ~dragging'
        <5>1. ~switched' => pointers = touching /\ (Cardinality(pointers) >= 2 => ~dragging)
          BY <2>2, <2>4, <3>5 DEF GlobeInv
        <5>2. ~switched' => Cardinality(pointers') >= 2
          BY <1>c, <3>1, <3>5, <5>1
        <5>3. QED
          BY <2>1, <3>1, <3>2, <5>1, <5>2
      <4>2. QED
        BY <2>1, <2>2, <2>4, <3>1, <3>2, <4>1 DEF GlobeInv, TapPlaces
    <3>6. QED
      BY <3>4, <3>5
  <2>5. QED
    BY <2>3, <2>4
<1>2. ASSUME NEW f \in Fingers, NEW far \in BOOLEAN, Move(f, far) PROVE GlobeInv'
  <2>1. /\ UNCHANGED <<interactive, touching, pointers, dragging, pinching, switched>> /\ placed' = {}
        /\ f \in touching /\ clean' = (IF far THEN clean \ {f} ELSE clean)
    BY <1>2 DEF Move
  <2>2. moved' \in BOOLEAN /\ (moved => moved')
    BY <1>2 DEF Move, GlobeInv
  <2>3. f \in pointers /\ dragging /\ far => moved'
    BY <1>2 DEF Move, GlobeInv
  <2>4. ~switched /\ dragging' /\ ~moved' /\ Cardinality(pointers) = 1 => pointers \subseteq clean'
    BY <2>1, <2>2, <2>3 DEF GlobeInv
  <2>5. QED
    BY <2>1, <2>2, <2>4 DEF GlobeInv, TapPlaces
<1>3. ASSUME NEW f \in Fingers, Up(f) PROVE GlobeInv'
  <2>1. /\ pointers' = pointers \ {f} /\ touching' = touching \ {f} /\ dragging' = FALSE
        /\ UNCHANGED <<interactive, moved, switched, clean>> /\ f \in touching
        /\ pinching' = FALSE /\ placed' \subseteq {f} /\ (placed' # {} => WasTap(f))
    BY <1>3 DEF Up
  <2>2. ASSUME ~switched, WasTap(f) PROVE f \in clean
    <3>1. Cardinality(pointers) = 1 /\ dragging /\ ~moved
      BY <2>2 DEF WasTap
    <3>2. pointers # {} /\ pointers = touching /\ pointers \subseteq clean
      BY <1>c, <2>2, <3>1 DEF GlobeInv
    <3>3. QED
      BY <2>1, <3>2
  <2>3. IsFiniteSet(pointers')
    BY <1>c, <2>1
  <2>4. QED
    BY <2>1, <2>2, <2>3 DEF GlobeInv, TapPlaces
<1>4. CASE Cancel
  BY <1>c, <1>4 DEF Cancel, GlobeInv, TapPlaces, shape
<1>5. CASE Zoom
  BY <1>5 DEF Zoom, GlobeInv, TapPlaces, gesture
<1>6. CASE Switch
  BY <1>6, <1>c DEF Switch, GlobeInv, TapPlaces, gesture, shape
<1>7. CASE UNCHANGED globeVars
  BY <1>7 DEF globeVars, GlobeInv, TapPlaces
<1>8. QED
  BY <1>1, <1>2, <1>3, <1>4, <1>5, <1>6, <1>7 DEF GlobeNext

\* The pin is placed only by a finger that was alone on the globe and made no far move,
\* for any number of fingers, unless the input was switched under them.
THEOREM TapPlacesThm == Spec => []TapPlaces
<1>1. Init => GlobeInv
  BY FS_EmptySet DEF Init, GlobeInit, GlobeInv, TapPlaces
<1>2. GlobeInv => TapPlaces
  BY DEF GlobeInv
<1>3. QED
  BY <1>1, <1>2, GlobeAlone, GlobeStep, PTL DEF Spec

--------------------------------------------------------------------------------
(***************************************************************************)
(* Languages.                                                              *)
(***************************************************************************)

LEMMA LanguagesAlone == [Next]_vars => [LanguagesNext]_languageVars
BY DEF Next, vars

\* What a user has switched to is what is kept, and nobody switches the display.
LanguagesInv ==
  /\ lang \in [LangRoles -> Langs] /\ savedLang \in [LangRoles -> Langs \cup {NoLang}]
  /\ chosen \in [LangRoles -> Langs \cup {NoLang}]
  /\ settings \in [display : Langs, participants : Langs]
  /\ seen \in Langs /\ langOverride \in Langs \cup {NoLang} /\ defaults \subseteq Langs
  /\ chosen["display"] = NoLang
  /\ \A role \in LangRoles : chosen[role] # NoLang => savedLang[role] = chosen[role]
  /\ ChoiceKept

LEMMA LanguagesStep == LanguagesInv /\ [LanguagesNext]_languageVars => LanguagesInv'
<1> SUFFICES ASSUME LanguagesInv, [LanguagesNext]_languageVars PROVE LanguagesInv'
  OBVIOUS
<1> USE LanguageAssumption DEF LangRoles
<1>1. ASSUME NEW role \in LangRoles, Load(role) PROVE LanguagesInv'
  BY <1>1 DEF Load, loadLang, LanguagesInv, ChoiceKept
<1>2. ASSUME NEW role \in LangRoles, NEW l \in Langs, Choose(role, l) PROVE LanguagesInv'
  BY <1>2 DEF Choose, SetLang, LanguagesInv, ChoiceKept
<1>3. CASE AskDefault
  BY <1>3 DEF AskDefault, LanguagesInv, ChoiceKept
<1>4. ASSUME NEW l \in defaults, TakeDefault(l) PROVE LanguagesInv'
  BY <1>4 DEF TakeDefault, ApplyDefaultLang, SetLang, LanguagesInv, ChoiceKept
<1>5. ASSUME NEW which \in {"display", "participants"}, NEW l \in Langs, SetLanguages(which, l)
      PROVE  LanguagesInv'
  BY <1>5 DEF SetLanguages, LanguagesInv, ChoiceKept
<1>6. ASSUME NEW l \in Langs, SetLang("display", l), NEW new \in Langs, seen' = new,
             langOverride' \in Langs \cup {NoLang}, UNCHANGED <<settings, defaults, chosen>>
      PROVE  LanguagesInv'
  BY <1>6 DEF SetLang, LanguagesInv, ChoiceKept
<1>7. CASE DisplaySnapshot \/ \E l \in Langs \cup {NoLang} : SetupLang(l)
  BY <1>6, <1>7 DEF DisplaySnapshot, SetupLang, Follow, LanguagesInv
<1>8. CASE UNCHANGED languageVars
  BY <1>8 DEF languageVars, LanguagesInv, ChoiceKept
<1>9. QED
  BY <1>1, <1>2, <1>3, <1>4, <1>5, <1>7, <1>8 DEF LanguagesNext

\* A language the user has switched to stays, for every set of languages.
THEOREM ChoiceKeptThm == Spec => []ChoiceKept
<1>1. Init => LanguagesInv
  BY LanguageAssumption DEF Init, LanguagesInit, LanguagesInv, ChoiceKept, LangRoles
<1>2. LanguagesInv => ChoiceKept
  BY DEF LanguagesInv
<1>3. QED
  BY <1>1, <1>2, LanguagesAlone, LanguagesStep, PTL DEF Spec

--------------------------------------------------------------------------------
(***************************************************************************)
(* A phone's way in.                                                       *)
(***************************************************************************)

LEMMA JoinAlone == [Next]_vars => [JoinNext]_joinVars
BY DEF Next, vars

Identities == [session : AnyCode, number : Int]
PageRecords ==
  [code : AnyCode, recovery : Int, timer : BOOLEAN, session : AnyCode, error : Int,
   existing : Identities, confirming : Identities]
CallRecords ==
  [page : 1..Len(pages), kind : {"join", "restore"}, code : AnyCode, number : Int,
   step : {"asked", "answered", "looking"}, status : Int, look : AnyCode]

JoinTypes ==
  /\ pages \in Seq(PageRecords) /\ Len(pages) >= 1
  /\ calls \subseteq CallRecords
  /\ \A p \in previews : p.page \in 1..Len(pages) /\ p.code \in AnyCode
  /\ lobby \in [Codes -> [open : BOOLEAN, people : Int]]
  /\ saved.who \in Identities
  /\ atPlay \in BOOLEAN /\ overtaken \in BOOLEAN

\* A page is changed in its place; the others, and which is shown, stay.
LEMMA PageChanged ==
  ASSUME JoinTypes, NEW n \in 1..Len(pages), NEW page \in PageRecords, Change(n, page)
  PROVE  /\ pages' \in Seq(PageRecords) /\ Len(pages') = Len(pages)
         /\ CallRecords' = CallRecords
         /\ Shown' = IF n = Len(pages) THEN page ELSE Shown
<1>1. pages \in Seq(PageRecords) /\ pages' = [pages EXCEPT ![n] = page]
  BY DEF JoinTypes, Change
<1>2. /\ pages' \in Seq(PageRecords) /\ Len(pages') = Len(pages)
      /\ pages'[Len(pages)] = IF n = Len(pages) THEN page ELSE pages[Len(pages)]
  BY <1>1 DEF JoinTypes
<1>3. CallRecords' = CallRecords
  BY <1>2 DEF CallRecords, AnyCode
<1>4. QED
  BY <1>2, <1>3 DEF Shown

\* A page that is entered begins without anything to confirm.
LEMMA PageEntered ==
  ASSUME JoinTypes, NEW identity, identity.who \in Identities, Enter(identity)
  PROVE  /\ pages' \in Seq(PageRecords) /\ Len(pages') = Len(pages) + 1
         /\ Shown'.confirming = Nobody
<1> DEFINE page == Page(NoCode, identity)
<1>1. page \in PageRecords /\ page.confirming = Nobody
  BY DEF Page, PageRecords, AnyCode, Identities, Nobody
<1>2. pages' = Append(pages, page)
  BY DEF Enter
<1> HIDE DEF page
<1>3. QED
  BY <1>1, <1>2 DEF JoinTypes, Shown

JoinInv == JoinTypes /\ ConfirmedIsSaved

LEMMA JoinStep == JoinInv /\ [JoinNext]_joinVars => JoinInv'
<1> SUFFICES ASSUME JoinInv, [JoinNext]_joinVars PROVE JoinInv'
  OBVIOUS
<1>t. /\ JoinTypes /\ ConfirmedIsSaved /\ Len(pages) \in 1..Len(pages)
      /\ Shown \in PageRecords /\ NoIdentity.who \in Identities /\ NoCode \in AnyCode
      /\ \A n \in 1..Len(pages) : pages[n] \in PageRecords
  BY DEF JoinInv, JoinTypes, Shown, NoIdentity, Nobody, Identities, AnyCode
\* A change of a page that leaves what it confirms, or has nothing confirmed.
<1>1. ASSUME NEW n \in 1..Len(pages), NEW page \in PageRecords, Change(n, page),
             page.confirming = pages[n].confirming, calls' \subseteq CallRecords,
             \A p \in previews' : p.page \in 1..Len(pages) /\ p.code \in AnyCode,
             lobby' \in [Codes -> [open : BOOLEAN, people : Int]],
             UNCHANGED <<atPlay, overtaken>>,
             saved' = saved \/ (saved' = NoIdentity /\ Shown.confirming = Nobody)
      PROVE  JoinInv'
  <2>1. /\ pages' \in Seq(PageRecords) /\ Len(pages') = Len(pages) /\ CallRecords' = CallRecords
        /\ Shown' = IF n = Len(pages) THEN page ELSE Shown
    BY <1>1, <1>t, PageChanged
  <2>2. Shown'.confirming = Shown.confirming
    BY <1>1, <2>1 DEF Shown
  <2>3. JoinTypes'
    BY <1>1, <1>t, <2>1 DEF JoinTypes, PageRecords, Identities, AnyCode, CallRecords
  <2>4. ConfirmedIsSaved'
    BY <1>1, <1>t, <2>2 DEF ConfirmedIsSaved, Nobody
  <2>5. QED
    BY <2>3, <2>4 DEF JoinInv
\* The same with every page as it was.
<1>2. ASSUME UNCHANGED <<pages, overtaken, saved>>, calls' \subseteq CallRecords,
             \A p \in previews' : p.page \in 1..Len(pages) /\ p.code \in AnyCode,
             lobby' \in [Codes -> [open : BOOLEAN, people : Int]],
             atPlay' \in BOOLEAN /\ (atPlay => atPlay')
      PROVE  JoinInv'
  <2>1. JoinTypes'
    BY <1>2, <1>t DEF JoinTypes, PageRecords, Identities, AnyCode, CallRecords
  <2>2. ConfirmedIsSaved'
    BY <1>2, <1>t DEF ConfirmedIsSaved, Shown, Nobody
  <2>3. QED
    BY <2>1, <2>2 DEF JoinInv
<1>3. ASSUME NEW identity, identity.who \in Identities, Enter(identity),
             calls' \subseteq calls, previews' \subseteq previews, UNCHANGED lobby,
             saved'.who \in Identities, overtaken' \in BOOLEAN
      PROVE  JoinInv'
  <2>1. /\ pages' \in Seq(PageRecords) /\ Len(pages') = Len(pages) + 1
        /\ Shown'.confirming = Nobody
    BY <1>3, <1>t, PageEntered
  <2>2. Len(pages) \in Nat /\ 1..Len(pages) \subseteq 1..Len(pages')
    BY <1>t, <2>1 DEF JoinTypes
  <2>3. CallRecords \subseteq CallRecords'
    BY <2>2 DEF CallRecords, AnyCode
  <2>4. atPlay' \in BOOLEAN
    BY <1>3 DEF Enter
  <2>5. JoinTypes'
    <3>1. calls' \subseteq CallRecords' /\ Len(pages') >= 1
      BY <1>3, <1>t, <2>1, <2>3 DEF JoinTypes
    <3>2. \A p \in previews' : p.page \in 1..Len(pages') /\ p.code \in AnyCode
      BY <1>3, <1>t, <2>2 DEF JoinTypes
    <3>3. lobby' \in [Codes -> [open : BOOLEAN, people : Int]]
      BY <1>3, <1>t DEF JoinTypes
    <3> QED
      BY <1>3, <2>1, <2>4, <3>1, <3>2, <3>3 DEF JoinTypes, PageRecords, Identities, AnyCode
  <2>6. ConfirmedIsSaved'
    BY <2>1 DEF ConfirmedIsSaved, Nobody
  <2>7. QED
    BY <2>5, <2>6 DEF JoinInv
\* What the page that is shown saves is what it confirms; another page is overtaking.
<1>4. ASSUME NEW call \in calls, NEW what, Save(call, what), UNCHANGED <<lobby, atPlay, previews>>
      PROVE  JoinInv'
  <2> DEFINE who == [session |-> call.code, number |-> call.number]
             page == [pages[call.page] EXCEPT !.confirming = who]
  <2>1. call \in CallRecords /\ call.page \in 1..Len(pages) /\ who \in Identities
    BY <1>t DEF JoinTypes, CallRecords, Identities
  <2>2. page \in PageRecords /\ page.confirming = who
    BY <1>t, <2>1 DEF PageRecords
  <2>3. Change(call.page, page) /\ saved'.who = who /\ calls' \subseteq calls
    BY <1>4 DEF Save
  <2>4. overtaken' \in BOOLEAN /\ (overtaken' <=> atPlay \/ call.page # Len(pages))
    BY <1>4 DEF Save
  <2> HIDE DEF who, page
  <2>5. /\ pages' \in Seq(PageRecords) /\ Len(pages') = Len(pages) /\ CallRecords' = CallRecords
        /\ Shown' = IF call.page = Len(pages) THEN page ELSE Shown
    BY <1>t, <2>1, <2>2, <2>3, PageChanged
  <2>6. JoinTypes'
    BY <1>4, <1>t, <2>1, <2>3, <2>4, <2>5 DEF JoinTypes, PageRecords, Identities, AnyCode, CallRecords
  <2>7. ConfirmedIsSaved'
    BY <1>4, <2>2, <2>3, <2>4, <2>5 DEF ConfirmedIsSaved
  <2>8. QED
    BY <2>6, <2>7 DEF JoinInv
<1>5. ASSUME NEW call \in calls, NEW status \in Int, Fail(call, status), UNCHANGED <<lobby, atPlay, previews>>
      PROVE  JoinInv'
  <2> DEFINE page == [pages[call.page] EXCEPT !.error = IF status \in {404, 403, 409, 401} THEN status ELSE 1]
  <2>1. call.page \in 1..Len(pages)
    BY <1>t DEF JoinTypes, CallRecords
  <2>2. page \in PageRecords /\ page.confirming = pages[call.page].confirming
    <3>1. pages[call.page] \in PageRecords
      BY <1>t, <2>1
    <3>2. (IF status \in {404, 403, 409, 401} THEN status ELSE 1) \in Int
      OBVIOUS
    <3>3. QED
      BY <3>1, <3>2 DEF PageRecords
  <2>3. Change(call.page, page) /\ calls' \subseteq CallRecords /\ UNCHANGED <<saved, overtaken>>
    BY <1>5, <1>t DEF Fail, JoinTypes
  <2> HIDE DEF page
  <2>4. QED
    BY <1>1, <1>5, <1>t, <2>1, <2>2, <2>3 DEF JoinTypes
<1>6. ASSUME NEW page \in PageRecords, Typing(page), page.confirming = Shown.confirming PROVE JoinInv'
  BY <1>1, <1>6, <1>t DEF Typing, Shown, JoinTypes
<1>7. ASSUME NEW c \in AnyCode, OnCodeChange(c) PROVE JoinInv'
  <2>1. [Shown EXCEPT !.code = c, !.timer = TRUE] \in PageRecords
    BY <1>t DEF PageRecords
  <2>2. [Shown EXCEPT !.code = c, !.timer = TRUE].confirming = Shown.confirming
    BY <1>t DEF PageRecords
  <2>3. QED
    BY <1>6, <1>7, <2>1, <2>2 DEF OnCodeChange
<1>8. ASSUME NEW n \in 1..Seats, TypeRecovery(n) PROVE JoinInv'
  <2>1. [Shown EXCEPT !.recovery = n] \in PageRecords
    BY <1>t DEF PageRecords
  <2>2. [Shown EXCEPT !.recovery = n].confirming = Shown.confirming
    BY <1>t DEF PageRecords
  <2>3. QED
    BY <1>6, <1>8, <2>1, <2>2 DEF TypeRecovery
<1>9. ASSUME NEW n \in DOMAIN pages, Preview(n) PROVE JoinInv'
  <2> DEFINE page == [pages[n] EXCEPT !.timer = FALSE]
             blank == [page EXCEPT !.session = NoCode]
  <2>0. pages[n] \in PageRecords /\ NoCode \in AnyCode
    BY <1>t
  <2>1. n \in 1..Len(pages)
    BY <1>t DEF JoinTypes
  <2>2. /\ page \in PageRecords /\ page.confirming = pages[n].confirming
        /\ blank \in PageRecords /\ blank.confirming = pages[n].confirming
    BY <2>0 DEF PageRecords
  <2>3. Change(n, page) \/ Change(n, blank)
    BY <1>9 DEF Preview
  <2>4. previews' \subseteq previews \cup {[page |-> n, code |-> pages[n].code]}
    <3>1. page.code = pages[n].code
      BY <1>t, <2>1 DEF PageRecords
    <3>2. QED
      BY <1>9, <3>1 DEF Preview
  <2>5. \A p \in previews' : p.page \in 1..Len(pages) /\ p.code \in AnyCode
    <3>1. pages[n].code \in AnyCode
      BY <1>t, <2>1 DEF PageRecords
    <3>2. QED
      BY <1>t, <2>1, <2>4, <3>1 DEF JoinTypes
  <2>6. UNCHANGED <<lobby, atPlay, calls, saved, overtaken>>
    BY <1>9 DEF Preview
  <2> HIDE DEF page, blank
  <2>7. QED
    BY <1>1, <1>t, <2>1, <2>2, <2>3, <2>5, <2>6 DEF JoinTypes
<1>10. ASSUME NEW p \in previews, PreviewAnswer(p) PROVE JoinInv'
  <2> DEFINE found == [pages[p.page] EXCEPT !.session = p.code, !.error = 0]
             blank == [pages[p.page] EXCEPT !.session = NoCode]
  <2>1. p.page \in 1..Len(pages) /\ p.code \in AnyCode
    BY <1>t DEF JoinTypes
  <2>2. /\ found \in PageRecords /\ found.confirming = pages[p.page].confirming
        /\ blank \in PageRecords /\ blank.confirming = pages[p.page].confirming
    <3>1. pages[p.page] \in PageRecords /\ NoCode \in AnyCode
      BY <1>t, <2>1
    <3>2. found \in PageRecords /\ found.confirming = pages[p.page].confirming
      <4> DEFINE ok == [pages[p.page] EXCEPT !.error = 0]
      <4>1. ok \in PageRecords /\ ok.confirming = pages[p.page].confirming
        BY <3>1 DEF PageRecords
      <4>2. found = [ok EXCEPT !.session = p.code]
        BY <3>1 DEF PageRecords
      <4> HIDE DEF ok, found
      <4>3. QED
        BY <2>1, <4>1, <4>2 DEF PageRecords
    <3>3. blank \in PageRecords /\ blank.confirming = pages[p.page].confirming
      BY <3>1 DEF PageRecords
    <3>4. QED
      BY <3>2, <3>3
  <2>3. Change(p.page, found) \/ Change(p.page, blank)
    BY <1>10 DEF PreviewAnswer
  <2>4. previews' \subseteq previews /\ UNCHANGED <<lobby, atPlay, calls, saved, overtaken>>
    BY <1>10 DEF PreviewAnswer
  <2> HIDE DEF found, blank
  <2>5. QED
    BY <1>1, <1>t, <2>1, <2>2, <2>3, <2>4 DEF JoinTypes
<1>11. ASSUME NEW kind \in {"join", "restore"}, NEW number \in Int, Ask(kind, number) PROVE JoinInv'
  <2> DEFINE page == [Shown EXCEPT !.error = 0]
             call == [page |-> Len(pages), kind |-> kind, code |-> Shown.code,
                      number |-> number, step |-> "asked", status |-> 0, look |-> NoCode]
  <2>1. page \in PageRecords /\ page.confirming = Shown.confirming
    BY <1>t DEF PageRecords
  <2>2. call \in CallRecords
    BY <1>t DEF CallRecords, PageRecords
  <2>3. Change(Len(pages), page) /\ calls' = calls \cup {call} /\ UNCHANGED <<lobby, atPlay, previews, saved, overtaken>>
    BY <1>11 DEF Ask
  <2> HIDE DEF page, call
  <2>4. QED
    BY <1>1, <1>t, <2>1, <2>2, <2>3 DEF JoinTypes, Shown
<1>12. CASE PressJoin \/ PressRestore
  BY <1>11, <1>12, <1>t DEF PressJoin, PressRestore, PageRecords
<1>13. ASSUME NEW call \in calls, Handle(call) PROVE JoinInv'
  <2> DEFINE status == Status(call)
             number == IF status = 201 /\ call.kind = "join" THEN lobby[call.code].people + 1 ELSE call.number
             answer == [call EXCEPT !.step = "answered", !.status = status, !.number = number]
  <2>1. call \in CallRecords /\ status \in Int /\ (status = 201 => call.code \in Codes)
    BY <1>t DEF JoinTypes, Status
  <2>2. number \in Int
    BY <1>t, <2>1 DEF JoinTypes, CallRecords
  <2>3. lobby' \in [Codes -> [open : BOOLEAN, people : Int]]
    <3> DEFINE Place == [open : BOOLEAN, people : Int]
    <3>1. lobby \in [Codes -> Place]
      BY <1>t DEF JoinTypes
    <3>2. CASE status = 201 /\ call.kind = "join"
      <4> DEFINE row == [lobby[call.code] EXCEPT !.people = @ + 1]
      <4>1. lobby' = [lobby EXCEPT ![call.code] = row]
        BY <1>13, <3>2 DEF Handle
      <4>2. row \in Place
        BY <2>1, <3>1, <3>2
      <4> HIDE DEF row, Place
      <4>3. QED
        BY <2>1, <3>1, <3>2, <4>1, <4>2 DEF Place
    <3>3. CASE ~(status = 201 /\ call.kind = "join")
      BY <1>13, <3>1, <3>3 DEF Handle
    <3>4. QED
      BY <3>2, <3>3
  <2>4. calls' = (calls \ {call}) \cup {answer} /\ UNCHANGED <<atPlay, pages, previews, saved, overtaken>>
    BY <1>13 DEF Handle
  <2> HIDE DEF status, number
  <2>5. answer \in CallRecords
    BY <2>1, <2>2 DEF CallRecords
  <2> HIDE DEF answer
  <2>6. QED
    BY <1>2, <1>t, <2>3, <2>4, <2>5 DEF JoinTypes
<1>14. ASSUME NEW call \in calls, LookUp(call), UNCHANGED <<lobby, atPlay, previews>> PROVE JoinInv'
  <2> DEFINE asked == [call EXCEPT !.step = "looking", !.look = pages[call.page].code]
  <2>1. call \in CallRecords /\ pages[call.page].code \in AnyCode
    BY <1>t DEF JoinTypes, CallRecords, PageRecords
  <2>2. asked \in CallRecords
    BY <2>1 DEF CallRecords
  <2>3. calls' = (calls \ {call}) \cup {asked} /\ UNCHANGED <<pages, saved, overtaken>>
    BY <1>14 DEF LookUp
  <2> HIDE DEF asked
  <2>4. QED
    BY <1>2, <1>14, <1>t, <2>2, <2>3 DEF JoinTypes
<1>15. ASSUME NEW call \in calls, Answered(call) PROVE JoinInv'
  <2>1. call.status \in Int
    BY <1>t DEF JoinTypes, CallRecords
  <2>2. QED
    BY <1>4, <1>5, <1>14, <1>15, <2>1 DEF Answered
<1>16. ASSUME NEW call \in calls, LookedUp(call) PROVE JoinInv'
  BY <1>4, <1>5, <1>16 DEF LookedUp
<1>17. ASSUME NEW call \in calls, Lost(call) PROVE JoinInv'
  BY <1>5, <1>17 DEF Lost
<1>18. CASE GoToPlay
  BY <1>2, <1>18, <1>t DEF GoToPlay, JoinTypes
<1>19. CASE Refresh
  BY <1>3, <1>19, <1>t DEF Refresh, JoinTypes
<1>20. CASE Leave
  BY <1>3, <1>20, <1>t DEF Leave, JoinTypes
<1>21. CASE Forget
  <2> DEFINE page == [Shown EXCEPT !.existing = Nobody]
  <2>1. page \in PageRecords /\ page.confirming = Shown.confirming
    BY <1>t DEF PageRecords, NoIdentity
  <2>2. /\ Change(Len(pages), page) /\ saved' = NoIdentity /\ Shown.confirming = Nobody
        /\ UNCHANGED <<lobby, atPlay, previews, calls, overtaken>>
    BY <1>21 DEF Forget
  <2> HIDE DEF page
  <2>3. QED
    BY <1>1, <1>t, <2>1, <2>2 DEF JoinTypes, Shown
<1>22. ASSUME NEW c \in Codes, SetLobbyOpen(c) PROVE JoinInv'
  <2>1. lobby' \in [Codes -> [open : BOOLEAN, people : Int]]
    BY <1>22, <1>t DEF SetLobbyOpen, JoinTypes
  <2>2. QED
    BY <1>2, <1>22, <1>t, <2>1 DEF SetLobbyOpen, JoinTypes
<1>23. CASE UNCHANGED joinVars
  BY <1>2, <1>23, <1>t DEF joinVars, JoinTypes
<1>24. QED
  BY <1>7, <1>8, <1>9, <1>10, <1>12, <1>13, <1>15, <1>16, <1>17, <1>18, <1>19, <1>20, <1>21, <1>22, <1>23
  DEF JoinNext

LEMMA JoinStart == JoinInit => JoinInv
<1> SUFFICES ASSUME NEW shown \in AnyCode, lobby = [c \in Codes |-> [open |-> TRUE, people |-> 0]],
                    pages = <<Page(shown, NoIdentity)>>, calls = {}, saved = NoIdentity,
                    previews = {[page |-> 1, code |-> shown]} \ {[page |-> 1, code |-> NoCode]},
                    atPlay = FALSE, overtaken = FALSE
             PROVE  JoinInv
  BY DEF JoinInit
<1>1. /\ Page(shown, NoIdentity) \in PageRecords /\ Page(shown, NoIdentity).confirming = Nobody
      /\ saved.who \in Identities
  BY DEF Page, PageRecords, AnyCode, Identities, Nobody, NoIdentity
<1>2. /\ pages \in Seq(PageRecords) /\ Len(pages) = 1 /\ Shown.confirming = Nobody
  BY <1>1 DEF Shown
<1>3. /\ lobby \in [Codes -> [open : BOOLEAN, people : Int]]
      /\ \A p \in previews : p.page \in 1..Len(pages) /\ p.code \in AnyCode
  BY <1>2
<1>4. JoinTypes
  <2>1. Len(pages) >= 1 /\ calls \subseteq CallRecords /\ atPlay \in BOOLEAN /\ overtaken \in BOOLEAN
    <3>1. calls \subseteq CallRecords /\ atPlay \in BOOLEAN /\ overtaken \in BOOLEAN
      BY Zenon
    <3>2. Len(pages) >= 1
      BY <1>2
    <3>3. QED
      BY <3>1, <3>2
  <2>2. QED
    BY <1>1, <1>2, <1>3, <2>1, Zenon DEF JoinTypes
<1>5. QED
  BY <1>2, <1>4 DEF JoinInv, ConfirmedIsSaved

\* The identity that is confirmed is the one the phone has kept, whatever the answers'
\* order, for every number of codes, pages and calls, until a page that was left saves.
THEOREM ConfirmedIsSavedThm == Spec => []ConfirmedIsSaved
<1>1. Init => JoinInv
  BY JoinStart DEF Init
<1>2. JoinInv => ConfirmedIsSaved
  BY DEF JoinInv
<1>3. QED
  BY <1>1, <1>2, JoinAlone, JoinStep, PTL DEF Spec

--------------------------------------------------------------------------------
(***************************************************************************)
(* The table of standings.                                                 *)
(***************************************************************************)

LEMMA TableAlone == [Next]_vars => [TablesNext]_tableVars
BY DEF Next, vars

TableRecords == [player : Players, rank : Int]

TablesInv ==
  /\ tableRows \in Seq(TableRecords)
  /\ \A i, k \in DOMAIN tableRows : i # k => tableRows[i].player # tableRows[k].player
  /\ tablePage \in Nat /\ searching \in BOOLEAN /\ revealed \in BOOLEAN /\ askedMe \in BOOLEAN
  /\ askedMe => /\ ~searching
                /\ \E i \in DOMAIN tableRows :
                     tableRows[i].player = Viewer /\ tablePage = (i - 1) \div PageSize

LEMMA Rounds ==
  ASSUME NEW P \in Nat \ {0}, NEW a \in Nat
  PROVE  a \div P \in Nat /\ (a \div P) * P <= a /\ a < (a \div P) * P + P
OBVIOUS

LEMMA Multiplies ==
  ASSUME NEW P \in Nat \ {0}, NEW a \in Nat, NEW b \in Nat, a <= b
  PROVE  a * P \in Nat /\ b * P \in Nat /\ a * P <= b * P
OBVIOUS

\* The pages of the table: as many as hold the rows, none of them empty.
LEMMA PagesHoldRows ==
  ASSUME TablesInv
  PROVE  /\ filtered \in Seq(TableRecords) \/ searching
         /\ Len(filtered) \in Nat /\ DOMAIN filtered = 1..Len(filtered)
         /\ pageCount \in Nat \ {0}
         /\ Len(filtered) <= pageCount * PageSize
         /\ Len(filtered) > 0 => (pageCount - 1) * PageSize < Len(filtered)
<1> DEFINE L == Len(filtered)  n == (L + PageSize - 1) \div PageSize
<1>1. L \in Nat /\ DOMAIN filtered = 1..L
  <2>1. CASE searching
    <3>1. IsFiniteSet(DOMAIN tableRows)
      BY FS_Interval DEF TablesInv
    <3>2. Cardinality(hits) \in Nat
      BY <3>1, FS_Subset, FS_CardinalityType DEF hits
    <3> DEFINE c == Cardinality(hits)
               row(k) == tableRows[CHOOSE i \in hits : Cardinality({j \in hits : j <= i}) = k]
    <3>3. filtered = [k \in 1..c |-> row(k)]
      BY <2>1 DEF filtered
    <3> HIDE DEF c, row
    <3>4. c \in Nat
      BY <3>2 DEF c
    <3>5. QED
      BY <3>3, <3>4
  <2>2. CASE ~searching
    BY <2>2 DEF filtered, TablesInv
  <2>3. QED
    BY <2>1, <2>2 DEF TablesInv
<1>2. PageSize \in Nat \ {0}
  BY TableAssumption
<1>3. n \in Nat /\ n * PageSize <= L + PageSize - 1 /\ L + PageSize - 1 < n * PageSize + PageSize
  BY <1>1, <1>2, Rounds
<1>4. pageCount = IF n = 0 THEN 1 ELSE n
  BY DEF pageCount
<1> HIDE DEF L, n
<1>5. pageCount \in Nat \ {0}
  BY <1>3, <1>4
<1>6. L <= pageCount * PageSize
  BY <1>1, <1>2, <1>3, <1>4
<1>7. ASSUME L > 0 PROVE (pageCount - 1) * PageSize < L
  <2>1. n # 0
    BY <1>1, <1>2, <1>3, <1>7
  <2>2. pageCount = n /\ (n - 1) * PageSize = n * PageSize - PageSize
    BY <1>2, <1>3, <1>4, <2>1
  <2>3. n * PageSize \in Nat
    BY <1>2, <1>3
  <2>4. QED
    BY <1>1, <1>2, <1>3, <2>2, <2>3
<1>8. filtered \in Seq(TableRecords) \/ searching
  BY DEF filtered, TablesInv
<1>9. QED
  BY <1>1, <1>5, <1>6, <1>7, <1>8 DEF L

LEMMA TablesSafe == TablesInv => PageHasRows
<1> SUFFICES ASSUME TablesInv PROVE PageHasRows
  OBVIOUS
<1> DEFINE L == Len(filtered)  first == shownPage * PageSize  full == (shownPage + 1) * PageSize
           last == IF full < L THEN full ELSE L
<1>1. /\ L \in Nat /\ DOMAIN filtered = 1..L /\ pageCount \in Nat \ {0}
      /\ L <= pageCount * PageSize /\ (L > 0 => (pageCount - 1) * PageSize < L)
      /\ PageSize \in Nat \ {0} /\ tablePage \in Nat
  BY PagesHoldRows, TableAssumption DEF TablesInv
<1>2. shownPage \in Nat /\ shownPage <= pageCount - 1
  BY <1>1 DEF shownPage
<1>3. /\ first \in Nat /\ full \in Nat /\ full = first + PageSize
      /\ L > 0 => first < L
  <2>1. first \in Nat /\ full \in Nat /\ first <= (pageCount - 1) * PageSize
    BY <1>1, <1>2, Multiplies
  <2>2. full = first + PageSize
    BY <1>1, <1>2
  <2>3. (pageCount - 1) * PageSize \in Nat
    BY <1>1, Multiplies
  <2>4. QED
    BY <1>1, <2>1, <2>2, <2>3
<1>4. pageRows = SubSeq(filtered, first + 1, last) /\ Table.rows = pageRows
  BY DEF pageRows, Table
<1>5. last \in Nat /\ last <= L /\ (L > 0 => first + 1 <= last)
  BY <1>1, <1>3
<1> HIDE DEF L, first, full, last
<1>6. L > 0 => /\ Len(pageRows) = last - first
               /\ \A k \in 1..(last - first) : k \in DOMAIN pageRows /\ pageRows[k] = filtered[first + k]
  <2> SUFFICES ASSUME L > 0
               PROVE  /\ Len(pageRows) = last - first
                      /\ \A k \in 1..(last - first) :
                           k \in DOMAIN pageRows /\ pageRows[k] = filtered[first + k]
    OBVIOUS
  <2> DEFINE S == {filtered[k] : k \in (first + 1)..last}  s == SubSeq(filtered, first + 1, last)
  <2>1. first + 1 \in Int /\ last \in Int /\ first + 1 <= last
    BY <1>3, <1>5
  <2>2. \A k \in (first + 1)..last : filtered[k] \in S
    OBVIOUS
  <2> HIDE DEF S
  <2>3. /\ s \in Seq(S) /\ Len(s) = IF first + 1 <= last THEN last - (first + 1) + 1 ELSE 0
        /\ \A k \in 1..(last - (first + 1) + 1) : s[k] = filtered[(first + 1) + k - 1]
    BY <2>1, <2>2, SubSeqProperties
  <2>4. last - (first + 1) + 1 = last - first /\ first \in Nat
    BY <1>3, <1>5
  <2> HIDE DEF s
  <2>5. Len(s) = last - first /\ DOMAIN s = 1..(last - first)
    BY <2>1, <2>3, <2>4
  <2>6. \A k \in 1..(last - first) : s[k] = filtered[first + k]
    BY <2>3, <2>4
  <2>7. pageRows = s
    BY <1>4 DEF s
  <2>8. QED
    BY <2>5, <2>6, <2>7
<1>7. filtered # <<>> => Table.rows # <<>>
  <2>1. filtered # <<>> => L > 0
    BY <1>1 DEF L
  <2>2. L > 0 => Len(pageRows) > 0
    BY <1>3, <1>5, <1>6
  <2>3. Len(<<>>) = 0
    OBVIOUS
  <2>4. ASSUME L > 0, pageRows = <<>> PROVE FALSE
    BY <2>2, <2>3, <2>4
  <2>5. QED
    BY <1>4, <2>1, <2>4, Zenon
<1>8. ASSUME askedMe PROVE myRow \subseteq ToSet(Table.rows)
  <2>1. ~searching /\ filtered = tableRows
    BY <1>8 DEF TablesInv, filtered
  <2>2. PICK i \in DOMAIN tableRows : tableRows[i].player = Viewer /\ tablePage = (i - 1) \div PageSize
    BY <1>8 DEF TablesInv
  <2>3. i \in 1..L /\ i \in Nat
    BY <1>1, <2>1
  <2>4. tablePage * PageSize <= i - 1 /\ i - 1 < tablePage * PageSize + PageSize
    <3>1. i - 1 \in Nat
      BY <2>3
    <3>2. /\ ((i - 1) \div PageSize) * PageSize <= i - 1
          /\ i - 1 < ((i - 1) \div PageSize) * PageSize + PageSize
      BY <1>1, <3>1, Rounds
    <3>3. QED
      BY <2>2, <3>2
  <2>5. tablePage < pageCount
    <3>1. SUFFICES ASSUME pageCount <= tablePage PROVE FALSE
      BY <1>1
    <3>2. pageCount * PageSize <= tablePage * PageSize /\ tablePage * PageSize \in Nat /\ pageCount * PageSize \in Nat
      BY <1>1, <3>1, Multiplies
    <3>3. QED
      BY <1>1, <2>3, <2>4, <3>2
  <2>6. shownPage = tablePage
    BY <2>5 DEF shownPage
  <2>7. first < i /\ i <= last
    BY <1>1, <1>3, <2>3, <2>4, <2>6 DEF first, last
  <2>8. i - first \in DOMAIN pageRows /\ pageRows[i - first] = tableRows[i]
    <3>1. i - first \in 1..(last - first) /\ first + (i - first) = i /\ L > 0
      BY <1>1, <1>3, <1>5, <2>3, <2>7
    <3>2. QED
      BY <1>6, <2>1, <3>1
  <2>9. myRow \subseteq {tableRows[i]}
    BY <2>2 DEF myRow, ToSet, TablesInv
  <2>10. QED
    BY <1>4, <2>8, <2>9 DEF ToSet
<1>9. QED
  BY <1>7, <1>8 DEF PageHasRows

LEMMA TablesStep == TablesInv /\ [TablesNext]_tableVars => TablesInv'
<1> SUFFICES ASSUME TablesInv, [TablesNext]_tableVars PROVE TablesInv'
  OBVIOUS
<1>1. ASSUME NEW new \in AllRows, NewRows(new) PROVE TablesInv'
  <2>1. PICK n \in 0..Cardinality(Players) : new \in [1..n -> [player : Players, rank : 1..n]]
    BY DEF AllRows
  <2>2. n \in Nat
    BY <2>1, TableAssumption, FS_CardinalityType
  <2>3. new \in Seq(TableRecords)
    <3>1. new \in [1..n -> TableRecords]
      BY <2>1 DEF TableRecords
    <3>2. QED
      BY <2>2, <3>1
  <2>4. \A i, k \in DOMAIN new : i # k => new[i].player # new[k].player
    BY DEF AllRows, Ranked
  <2>5. QED
    BY <1>1, <2>3, <2>4 DEF NewRows, TablesInv, TableRecords
<1>2. CASE Reveal
  BY <1>2 DEF Reveal, TablesInv, TableRecords
<1>5. CASE onQuery
  <2>1. searching' \in BOOLEAN /\ tablePage' = 0 /\ askedMe' = FALSE /\ UNCHANGED <<tableRows, revealed>>
    BY <1>5 DEF onQuery
  <2>2. QED
    BY <2>1 DEF TablesInv, TableRecords
<1>6. CASE UNCHANGED tableVars
  BY <1>6 DEF tableVars, TablesInv, TableRecords
<1>3. CASE Turn(1) \/ Turn(-1)
  <2>1. tablePage' \in Nat
    BY <1>3 DEF Turn, Table, TablesInv
  <2>2. QED
    BY <1>3, <2>1 DEF Turn, TablesInv, TableRecords
<1>4. CASE showMe
  <2>1. PICK i \in DOMAIN tableRows : tableRows[i].player = Viewer /\ tablePage' = (i - 1) \div PageSize
    BY <1>4 DEF showMe
  <2>2. i - 1 \in Nat /\ PageSize \in Nat \ {0}
    BY TableAssumption DEF TablesInv
  <2>3. tablePage' \in Nat
    BY <2>1, <2>2, Rounds
  <2>4. /\ UNCHANGED <<tableRows, revealed>> /\ askedMe' = TRUE /\ searching' = FALSE
    BY <1>4 DEF showMe
  <2>5. \E k \in DOMAIN tableRows' : tableRows'[k].player = Viewer /\ tablePage' = (k - 1) \div PageSize
    BY <2>1, <2>4
  <2>6. QED
    BY <2>3, <2>4, <2>5 DEF TablesInv, TableRecords
<1>7. QED
  BY <1>1, <1>2, <1>3, <1>4, <1>5, <1>6 DEF TablesNext

\* A table with rows to show shows some, and who asked to be shown is on the page, for
\* any number of players and rows per page.
THEOREM PageHasRowsThm == Spec => []PageHasRows
<1>1. Init => TablesInv
  <2> SUFFICES ASSUME TablesInit PROVE TablesInv
    BY DEF Init
  <2>1. tableRows = <<>> /\ tablePage = 0 /\ searching = FALSE /\ revealed = FALSE /\ askedMe = FALSE
    BY DEF TablesInit
  <2>2. tableRows \in Seq(TableRecords) /\ DOMAIN tableRows = {}
    BY <2>1
  <2>3. QED
    BY <2>1, <2>2 DEF TablesInv
<1>2. QED
  BY <1>1, TablesSafe, TableAlone, TablesStep, PTL DEF Spec
================================================================================
