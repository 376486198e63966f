-------------------------------- MODULE Console --------------------------------
(***************************************************************************)
(* Which session the host's page is about (host.component.ts): signing in, *)
(* the list of sessions, opening one and going back, the roster it asks    *)
(* for every five seconds, and the calls a dialog asks about first.        *)
(*                                                                         *)
(* What the host does in an open session by socket is the subject of Desk. *)
(***************************************************************************)
EXTENDS Integers, FiniteSets

CONSTANTS
  Events,        \* sessions
  NoEvent,       \* no session
  MaxRequests    \* bound: calls under way at once

ASSUME ConsoleAssumption == NoEvent \notin Events /\ MaxRequests \in Nat

VARIABLES
  existing,      \* sessions created so far
  key,           \* the access key in sessionStorage
  keptEvent,     \* the session id there
  listed,        \* sessions()
  shownEvent,    \* session(): the desk is about it
  socketEvent,   \* the session the socket is of
  roster,        \* the session the roster is of
  polling,       \* the roster timer runs
  busyCall,      \* busy()
  requests,      \* calls under way, with the key they carry
  question,      \* the dialog
  mixed          \* history: an answer about another session has come since this was opened

consoleVars == <<existing, key, keptEvent, listed, shownEvent, socketEvent, roster, polling,
                 busyCall, requests, question, mixed>>
place == <<shownEvent, keptEvent, socketEvent>>

NoQuestion == [what |-> "nothing", of |-> NoEvent]

PickerShown == key # "none" /\ shownEvent = NoEvent
DeskShown == key # "none" /\ shownEvent # NoEvent /\ question = NoQuestion

Request(what, of, opening) == [what |-> what, of |-> of, key |-> key, opening |-> opening]
\* guard() shows an error for these, and signs out on 401; the roster's calls fail silently.
Guarded(what) == what \notin {"roster", "session"}

\* Calls for the ones that have been answered.
Calls(answered, asked) ==
  /\ Cardinality((requests \ answered) \cup asked) <= MaxRequests
  /\ requests' = (requests \ answered) \cup asked
  /\ busyCall' = IF \E r \in asked : Guarded(r.what) THEN TRUE
                 ELSE IF \E r \in answered : Guarded(r.what) THEN FALSE ELSE busyCall

LoadRoster(s, opening) == IF s = NoEvent THEN {} ELSE {Request("roster", s, opening)}

--------------------------------------------------------------------------------
\* Signing in, and a page that finds a key when it is loaded.
SignIn(k) ==
  /\ key = "none" /\ key' = k
  /\ Calls({}, {[Request("list", NoEvent, FALSE) EXCEPT !.key = k]})
  /\ UNCHANGED <<existing, listed, place, roster, polling, question, mixed>>

ReloadDesk ==
  /\ requests' = IF key = "none" THEN {} ELSE {Request("list", NoEvent, TRUE)}
  /\ busyCall' = (key # "none")
  /\ listed' = {} /\ roster' = NoEvent /\ polling' = FALSE /\ question' = NoQuestion
  /\ shownEvent' = NoEvent /\ socketEvent' = NoEvent /\ mixed' = FALSE
  /\ UNCHANGED <<existing, key, keptEvent>>

\* Mutant: the socket stays when the host leaves the desk.
LeaveButSocket ==
  /\ shownEvent' = NoEvent /\ keptEvent' = NoEvent /\ mixed' = FALSE
  /\ UNCHANGED socketEvent

LeaveEvent ==
  /\ shownEvent' = NoEvent /\ keptEvent' = NoEvent /\ mixed' = FALSE
  /\ socketEvent' = NoEvent

SignOut ==
  /\ PickerShown
  /\ key' = "none" /\ LeaveEvent
  /\ UNCHANGED <<existing, listed, roster, polling, busyCall, requests, question>>

BackToSessions ==
  /\ DeskShown
  /\ LeaveEvent /\ Calls({}, {Request("list", NoEvent, FALSE)})
  /\ UNCHANGED <<existing, key, listed, roster, polling, question>>

OpenEvent(s) ==
  /\ shownEvent' = s /\ keptEvent' = s /\ socketEvent' = s /\ mixed' = FALSE

Open(s) ==
  /\ PickerShown /\ s \in listed
  /\ OpenEvent(s) /\ Calls({}, LoadRoster(s, TRUE))
  /\ UNCHANGED <<existing, key, listed, roster, polling, question>>

Create ==
  /\ PickerShown /\ ~busyCall
  /\ Calls({}, {Request("create", NoEvent, FALSE)})
  /\ UNCHANGED <<existing, key, listed, place, roster, polling, question, mixed>>

\* The timer, which nothing stops, and the roster's own button.
Poll ==
  /\ polling /\ shownEvent # NoEvent
  /\ Calls({}, LoadRoster(shownEvent, FALSE))
  /\ UNCHANGED <<existing, key, listed, place, roster, polling, question, mixed>>

--------------------------------------------------------------------------------
\* Opening joining, changing the mode of the signals and adding simulated people: at once.
\* Ending the session and what else is about people: asked first, about the session of
\* the moment.
Amend(what) ==
  /\ DeskShown
  /\ what = "update" => ~busyCall
  /\ Calls({}, {Request(what, shownEvent, FALSE)})
  /\ UNCHANGED <<existing, key, listed, place, roster, polling, question, mixed>>

AskFirst(what) ==
  /\ DeskShown
  /\ what = "update" => ~busyCall
  /\ what = "people" => roster # NoEvent
  /\ question' = [what |-> what, of |-> shownEvent]
  /\ UNCHANGED <<existing, key, listed, place, roster, polling, busyCall, requests, mixed>>

AnswerDialog(yes) ==
  /\ question # NoQuestion /\ question' = NoQuestion
  /\ IF yes /\ question.of # NoEvent
       THEN Calls({}, {Request(question.what, question.of, FALSE)})
       ELSE UNCHANGED <<busyCall, requests>>
  /\ UNCHANGED <<existing, key, listed, place, roster, polling, mixed>>

--------------------------------------------------------------------------------
(***************************************************************************)
(* Answers to the calls.                                                   *)
(***************************************************************************)

\* The row of a session the desk takes as its own, whichever it shows by now.
TakeRow(r) ==
  /\ shownEvent' = r.of
  /\ mixed' = (mixed \/ r.of # shownEvent)
  /\ UNCHANGED <<keptEvent, socketEvent>>

Listed(r) ==
  /\ r.what = "list" /\ listed' = existing
  /\ IF r.opening /\ keptEvent \in existing
       THEN OpenEvent(keptEvent) /\ Calls({r}, LoadRoster(keptEvent, TRUE))
       ELSE Calls({r}, {}) /\ UNCHANGED <<place, mixed>>
  /\ UNCHANGED <<existing, roster, polling>>

Created(r) ==
  /\ r.what = "create"
  /\ \E s \in Events \ existing :
       /\ existing' = existing \cup {s}
       /\ OpenEvent(s) /\ Calls({r}, LoadRoster(s, TRUE))
  /\ UNCHANGED <<listed, roster, polling>>

\* First the roster, then the row of the session.
RosterLoaded(r) ==
  /\ \/ /\ r.what = "roster" /\ roster' = r.of
        /\ Calls({r}, {Request("session", r.of, r.opening)})
        /\ UNCHANGED <<place, mixed, polling>>
     \/ /\ r.what = "session" /\ TakeRow(r) /\ polling' = (polling \/ r.opening)
        /\ Calls({r}, {}) /\ UNCHANGED roster
  /\ UNCHANGED <<existing, listed>>

Updated(r) ==
  /\ r.what = "update" /\ TakeRow(r) /\ Calls({r}, {})
  /\ UNCHANGED <<existing, listed, roster, polling>>

PeopleChanged(r) ==
  /\ r.what = "people" /\ Calls({r}, LoadRoster(shownEvent, FALSE))
  /\ UNCHANGED <<existing, listed, place, roster, polling, mixed>>

Done(r) ==
  /\ r.key = "good"
  /\ Listed(r) \/ Created(r) \/ RosterLoaded(r) \/ Updated(r) \/ PeopleChanged(r)
  /\ UNCHANGED <<key, question>>

\* The network fails, or the server does not know the key.
Failed(r, unauthorized) ==
  /\ unauthorized => r.key # "good"
  /\ polling' = (polling \/ (r.opening /\ ~Guarded(r.what)))
  /\ IF Guarded(r.what) /\ unauthorized THEN key' = "none" /\ LeaveEvent
     ELSE UNCHANGED <<key, place, mixed>>
  /\ Calls({r}, IF r.what = "people" THEN LoadRoster(shownEvent', FALSE) ELSE {})
  /\ UNCHANGED <<existing, listed, roster, question>>

--------------------------------------------------------------------------------
ConsoleInit ==
  /\ existing \in {{s} : s \in Events}
  /\ key = "none" /\ keptEvent = NoEvent /\ listed = {} /\ shownEvent = NoEvent
  /\ socketEvent = NoEvent /\ roster = NoEvent /\ polling = FALSE
  /\ busyCall = FALSE /\ requests = {} /\ question = NoQuestion
  /\ mixed = FALSE

ConsoleNext ==
  \/ SignIn("good") \/ SignIn("wrong") \/ ReloadDesk \/ SignOut \/ BackToSessions
  \/ \E s \in Events : Open(s)
  \/ Create \/ Poll \/ Amend("update") \/ Amend("people")
  \/ AskFirst("update") \/ AskFirst("people") \/ AnswerDialog(TRUE) \/ AnswerDialog(FALSE)
  \/ \E r \in requests : Done(r) \/ Failed(r, TRUE) \/ Failed(r, FALSE)

--------------------------------------------------------------------------------
\* The session the desk shows, the one its socket is of and the one a reload would open
\* again are the same -- until an answer about an earlier one comes late, which puts that
\* one back on the desk (host.component.ts:369).
OneDesk ==
  ~mixed => /\ socketEvent = shownEvent
            /\ shownEvent # NoEvent => keptEvent = shownEvent
================================================================================
