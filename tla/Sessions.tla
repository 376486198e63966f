-------------------------------- MODULE Sessions --------------------------------
(***************************************************************************)
(* Who takes part and who is connected: the participants table behind      *)
(* joining, recovery on another device, removal and rehearsal players      *)
(* (sessions.service.ts, simulation.service.ts), and the socket handlers   *)
(* that check identities and mark people connected (events.gateway.ts).    *)
(*                                                                         *)
(* Every await of these handlers is a point where others run.  A           *)
(* controller id is the number of devices the identity had before.         *)
(***************************************************************************)
EXTENDS Integers, FiniteSets

CONSTANTS
  Capacity,
  MaxRows,       \* bound: participants ever created
  MaxJoins,      \* bound: joins under way at once
  MaxDevices,    \* bound: devices per identity
  PhoneSockets,  \* bound: connections at once
  MaxMessages,     \* bound: messages at once
  NoController           \* no controller

ASSUME SessionsAssumption ==
  /\ Capacity \in Nat /\ MaxRows \in Nat /\ MaxJoins \in Nat /\ MaxDevices \in Nat \ {0} /\ MaxMessages \in Nat
  /\ NoController \notin Nat

VARIABLES
  open,          \* sessions.join_open
  closed,        \* sessions.state = 'Closed'
  rows,          \* participants; a removed one stays, a deleted one does not
  everCreated,       \* ids given out
  joining,       \* joins that found joining open and wait for their transaction
  restoring,     \* ids whose row a restore has read
  phones,        \* socket -> its handler's progress, for sockets that have one
  messages         \* pins, orders and holds whose controller check is under way

sessionsVars == <<open, closed, rows, everCreated, joining, restoring, phones, messages>>
session == <<open, closed>>
table == <<rows, everCreated, joining, restoring>>
sockets == <<phones, messages>>

Present == {r \in rows : ~r.removed}

\* max(number) + 1, over removed participants too
NextNumber(k) == k + (IF rows = {} THEN 0 ELSE (CHOOSE r \in rows : \A q \in rows : q.number <= r.number).number)

NewRow(id, number, simulated) ==
  [id |-> id, number |-> number, simulated |-> simulated, removed |-> FALSE,
   controller |-> 0, devices |-> 1, connected |-> TRUE]

RowsOf(id) == {r \in rows : r.id = id}

\* UPDATE participants SET ... WHERE id = ...: no row, no effect
Update(id, changed) == (rows \ RowsOf(id)) \cup changed

--------------------------------------------------------------------------------
(***************************************************************************)
(* Joining, recovery, removal.                                             *)
(***************************************************************************)

\* join reads the session outside the transaction ...
AskToJoin ==
  /\ open /\ ~closed
  /\ joining < MaxJoins
  /\ joining' = joining + 1
  /\ UNCHANGED <<session, rows, everCreated, restoring, sockets>>

\* Mutant: rehearsal players take no seat.
FreeSeatsOfPeople == Capacity - Cardinality({r \in Present : ~r.simulated})

\* ... and counts under the session's row lock.
FreeSeats == Capacity - Cardinality(Present)

Join ==
  /\ joining > 0 /\ joining' = joining - 1
  /\ IF FreeSeats > 0 /\ everCreated < MaxRows
       THEN /\ rows' = rows \cup {NewRow(everCreated, NextNumber(1), FALSE)}
            /\ everCreated' = everCreated + 1
       ELSE UNCHANGED <<rows, everCreated>>
  /\ UNCHANGED <<session, restoring, sockets>>

\* restore finds the identity of a recovery code, then gives it to a new device.
FindToRestore(id) ==
  /\ ~closed
  /\ \E r \in Present : r.id = id /\ ~r.simulated /\ r.devices < MaxDevices
  /\ restoring' = restoring \cup {id}
  /\ UNCHANGED <<session, rows, everCreated, joining, sockets>>

Restore(id) ==
  /\ id \in restoring /\ restoring' = restoring \ {id}
  /\ rows' = Update(id, {[r EXCEPT !.controller = r.devices, !.devices = @ + 1, !.connected = TRUE] :
                           r \in RowsOf(id)})
  /\ UNCHANGED <<session, everCreated, joining, sockets>>

RemoveParticipant(id) ==
  /\ \E r \in Present : r.id = id
  /\ rows' = Update(id, {[r EXCEPT !.removed = TRUE, !.controller = NoController] : r \in RowsOf(id)})
  /\ UNCHANGED <<session, everCreated, joining, restoring, sockets>>

\* Rehearsal players: added under the same lock, deleted for good.
AddSimulated(count) ==
  LET n == CHOOSE k \in 0..count : (k = count \/ k = FreeSeats) /\ k <= FreeSeats
  IN /\ ~closed /\ FreeSeats >= 0
     /\ n > 0 /\ everCreated + n <= MaxRows
     /\ rows' = rows \cup {NewRow(everCreated + i - 1, NextNumber(i), TRUE) : i \in 1..n}
     /\ everCreated' = everCreated + n
     /\ UNCHANGED <<session, joining, restoring, sockets>>

RemoveSimulated ==
  /\ \E r \in rows : r.simulated
  /\ rows' = {r \in rows : ~r.simulated}
  /\ UNCHANGED <<session, everCreated, joining, restoring, sockets>>

SetJoinOpen ==
  /\ open' = ~open
  /\ UNCHANGED <<closed, table, sockets>>

CloseSession ==
  /\ ~closed
  /\ closed' = TRUE /\ open' = FALSE
  /\ UNCHANGED <<table, sockets>>

--------------------------------------------------------------------------------
(***************************************************************************)
(* Phones.                                                                 *)
(***************************************************************************)

\* A token was issued for every device the identity ever had.
Tokens == UNION {{[who |-> r.id, controller |-> k] : k \in 0..(r.devices - 1)} :
                   r \in {x \in rows : ~x.simulated}}

\* History: who may speak for an identity.
InControl(t) == \E r \in Present : r.id = t.who /\ r.controller = t.controller

\* Mutant: removed_at is not looked at (a removed row has no controller, or has it
\* again when a restore was under way).
isActiveControllerOfRow(t) == \E r \in rows : r.id = t.who /\ r.controller = t.controller

isActiveController(t) == \E r \in Present : r.id = t.who /\ r.controller = t.controller

NoPhone == [at |-> "none", token |-> [who |-> 0, controller |-> 0]]

Step(s, at) == phones' = [phones EXCEPT ![s] = IF at = "none" THEN NoPhone ELSE [@ EXCEPT !.at = at]]

ConnectSocket(s, t) ==
  /\ phones[s].at = "none"
  /\ phones' = [phones EXCEPT ![s] = [at |-> "checking", token |-> t]]
  /\ UNCHANGED <<session, table, messages>>

CheckSocket(s) ==
  /\ phones[s].at = "checking"
  /\ Step(s, IF isActiveController(phones[s].token) THEN "marking" ELSE "none")
  /\ UNCHANGED <<session, table, messages>>

Marked(id, up) == Update(id, {[r EXCEPT !.connected = up] : r \in RowsOf(id)})

\* setConnected, the rooms and client.data.auth
MarkConnected(s) ==
  /\ phones[s].at = "marking"
  /\ rows' = Marked(phones[s].token.who, TRUE)
  /\ Step(s, "up")
  /\ UNCHANGED <<session, everCreated, joining, restoring, messages>>

\* handleDisconnect of a socket that has its auth; what it does needs no check of
\* who controls the identity by then.
Disconnect(s) ==
  /\ phones[s].at = "up"
  /\ Step(s, "leaving")
  /\ UNCHANGED <<session, table, messages>>

MarkDisconnected(s) ==
  /\ phones[s].at = "leaving"
  /\ rows' = Marked(phones[s].token.who, FALSE)
  /\ Step(s, "none")
  /\ UNCHANGED <<session, everCreated, joining, restoring, messages>>

\* me:pin, me:order, me:hold: the message arrives, the controller is looked up, then
\* the answer is taken.  `inControl' is history: who controlled the identity when
\* the message arrived.
Send(s) ==
  /\ phones[s].at = "up" /\ Cardinality(messages) < MaxMessages
  /\ messages' = messages \cup {[token |-> phones[s].token, at |-> "asked",
                             inControl |-> InControl(phones[s].token)]}
  /\ UNCHANGED <<session, table, phones>>

CheckInput(i) ==
  /\ i.at = "asked"
  /\ messages' = (messages \ {i}) \cup
               IF isActiveController(i.token) THEN {[i EXCEPT !.at = "accepted"]} ELSE {}
  /\ UNCHANGED <<session, table, phones>>

TakeInput(i) ==
  /\ i.at = "accepted"
  /\ messages' = messages \ {i}
  /\ UNCHANGED <<session, table, phones>>

--------------------------------------------------------------------------------
SessionsInit ==
  /\ open = TRUE /\ closed = FALSE
  /\ rows = {} /\ everCreated = 0 /\ joining = 0 /\ restoring = {}
  /\ phones = [s \in PhoneSockets |-> NoPhone]
  /\ messages = {}

Ids == 0..(MaxRows - 1)

SessionsNext ==
  \/ AskToJoin \/ Join \/ SetJoinOpen \/ CloseSession \/ RemoveSimulated
  \/ \E id \in Ids : FindToRestore(id) \/ Restore(id) \/ RemoveParticipant(id)
  \/ \E n \in 1..MaxRows : AddSimulated(n)
  \/ \E s \in PhoneSockets :
       \/ \E t \in Tokens : ConnectSocket(s, t)
       \/ CheckSocket(s) \/ MarkConnected(s) \/ Disconnect(s) \/ MarkDisconnected(s) \/ Send(s)
  \/ \E i \in messages : CheckInput(i) \/ TakeInput(i)

--------------------------------------------------------------------------------
(***************************************************************************)
(* Properties.                                                             *)
(***************************************************************************)

\* However joins, rehearsal players and removals interleave, a session never has
\* more participants than seats and never two rows of one number.
SeatsAndNumbers ==
  /\ Cardinality(Present) <= Capacity
  /\ \A r, q \in rows : r.number = q.number => r = q

\* A device that had lost the identity, or whose participant was removed, when its
\* message arrived never has it accepted, though its connection stays open.
StaleDevicePowerless == \A i \in messages : i.at = "accepted" => i.inControl
================================================================================
