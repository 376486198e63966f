-------------------------------- MODULE JoinPage --------------------------------
(***************************************************************************)
(* A phone's way in (join.component.ts): the code with its preview, joining *)
(* or recovering, the confirmation, and the identity the phone keeps        *)
(* (storage.ts), which the play page starts from.                          *)
(*                                                                         *)
(* Every call is answered when the network will, or not at all, and a page *)
(* that was left still takes its answers.  An identity is a session and    *)
(* the number of a participant; controllers, removals and closed sessions  *)
(* are Sessions' subject.                                                  *)
(***************************************************************************)
EXTENDS Integers, Sequences, FiniteSets

CONSTANTS
  Codes,       \* join codes of sessions
  WrongCode,   \* well-formed, of no session
  NoCode,       \* shorter than four characters
  Seats,       \* capacity of a session
  MaxPages,    \* bound: times the join page is entered
  MaxCalls,    \* bound: joins and recoveries under way
  MaxTyping    \* bound: times the code is changed

ASSUME JoinAssumption ==
  /\ {WrongCode, NoCode} \cap Codes = {} /\ WrongCode # NoCode
  /\ {Seats, MaxPages, MaxCalls, MaxTyping} \subseteq Nat

VARIABLES
  lobby,         \* code -> joining is open, and participants so far
  atPlay,        \* the route is /play, not the join page
  pages,         \* instances of the join page, the present one last
  previews,      \* previews asked for: the page and the code
  calls,         \* joins and recoveries under way
  saved,         \* localStorage
  typed,
  overtaken      \* history: a page that was left has saved since

joinVars == <<lobby, atPlay, pages, previews, calls, saved, typed, overtaken>>

Nobody == [session |-> NoCode, number |-> 0]
NoIdentity == [who |-> Nobody, joinCode |-> NoCode, sessionId |-> NoCode]
AnyCode == Codes \cup {WrongCode, NoCode}

\* A page as it is loaded, with the code of the link.
Page(link, identity) ==
  [code |-> link, recovery |-> 0, timer |-> FALSE, session |-> NoCode, error |-> 0,
   existing |-> identity.who, confirming |-> Nobody]

Shown == pages[Len(pages)]
busy == \E call \in calls : call.page = Len(pages)
Change(n, page) == pages' = [pages EXCEPT ![n] = page]

--------------------------------------------------------------------------------
\* The form is there until an identity is to be confirmed.
Typing(page) ==
  /\ ~atPlay /\ Shown.confirming = Nobody /\ page # Shown
  /\ Change(Len(pages), page)
  /\ UNCHANGED <<lobby, atPlay, previews, calls, saved, overtaken>>

\* The preview follows 400 ms after the last change.
OnCodeChange(c) ==
  /\ typed < MaxTyping /\ typed' = typed + 1
  /\ Typing([Shown EXCEPT !.code = c, !.timer = TRUE])

TypeRecovery(n) == Typing([Shown EXCEPT !.recovery = n]) /\ UNCHANGED typed

Preview(n) ==
  LET page == [pages[n] EXCEPT !.timer = FALSE]
  IN /\ pages[n].timer
     /\ IF page.code = NoCode
          THEN Change(n, [page EXCEPT !.session = NoCode]) /\ UNCHANGED previews
          ELSE Change(n, page) /\ previews' = previews \cup {[page |-> n, code |-> page.code]}
     /\ UNCHANGED <<lobby, atPlay, calls, saved, typed, overtaken>>

\* An answer, or none; it is shown whatever the code is by then.
PreviewAnswer(p) ==
  /\ previews' = previews \ {p}
  /\ \/ p.code \in Codes /\ Change(p.page, [pages[p.page] EXCEPT !.session = p.code, !.error = 0])
     \/ Change(p.page, [pages[p.page] EXCEPT !.session = NoCode])
  /\ UNCHANGED <<lobby, atPlay, calls, saved, typed, overtaken>>

--------------------------------------------------------------------------------
(***************************************************************************)
(* Joining and recovering.                                                 *)
(***************************************************************************)
Ask(kind, number) ==
  /\ ~atPlay /\ Shown.confirming = Nobody
  /\ ~busy /\ Shown.code # NoCode
  /\ Cardinality(calls) < MaxCalls
  /\ calls' = calls \cup {[page |-> Len(pages), kind |-> kind, code |-> Shown.code,
                           number |-> number, step |-> "asked", status |-> 0, look |-> NoCode]}
  /\ Change(Len(pages), [Shown EXCEPT !.error = 0])
  /\ UNCHANGED <<lobby, atPlay, previews, saved, typed, overtaken>>

PressJoin == Ask("join", 0)
PressRestore == Shown.recovery # 0 /\ Ask("restore", Shown.recovery)

\* The status of the server's answer.
Status(call) ==
  CASE call.code \notin Codes -> 404
    [] call.kind = "join" /\ ~lobby[call.code].open -> 403
    [] call.kind = "join" /\ lobby[call.code].people >= Seats -> 409
    [] call.kind = "restore" /\ call.number > lobby[call.code].people -> 401
    [] OTHER -> 201

Handle(call) ==
  LET status == Status(call)
      joins == status = 201 /\ call.kind = "join"
      number == IF joins THEN lobby[call.code].people + 1 ELSE call.number
  IN /\ call.step = "asked"
     /\ lobby' = IF joins THEN [lobby EXCEPT ![call.code].people = @ + 1] ELSE lobby
     /\ calls' = (calls \ {call}) \cup
                 {[call EXCEPT !.step = "answered", !.status = status, !.number = number]}
     /\ UNCHANGED <<atPlay, pages, previews, saved, typed, overtaken>>

\* saveIdentity, then the confirmation: under the code that is typed by now, with the
\* session of a preview.
Save(call, session) ==
  LET who == [session |-> call.code, number |-> call.number]
  IN /\ saved' = [who |-> who, joinCode |-> pages[call.page].code, sessionId |-> session]
     /\ Change(call.page, [pages[call.page] EXCEPT !.confirming = who])
     /\ overtaken' = (atPlay \/ call.page # Len(pages))
     /\ calls' = calls \ {call}

\* describeLocalized: the message by status, 0 for no answer; 1 for all others.
Fail(call, status) ==
  /\ Change(call.page, [pages[call.page] EXCEPT
                          !.error = IF status \in {404, 403, 409, 401} THEN status ELSE 1])
  /\ calls' = calls \ {call}
  /\ UNCHANGED <<saved, overtaken>>

\* Mutant: a recovered identity is confirmed before it is saved.
RestoredFirst(call) ==
  /\ calls' = (calls \ {call}) \cup
              {[call EXCEPT !.step = "looking", !.look = pages[call.page].code]}
  /\ Change(call.page, [pages[call.page] EXCEPT
                          !.confirming = [session |-> call.code, number |-> call.number]])
  /\ UNCHANGED <<saved, overtaken>>

LookUp(call) ==
  /\ calls' = (calls \ {call}) \cup
              {[call EXCEPT !.step = "looking", !.look = pages[call.page].code]}
  /\ UNCHANGED <<pages, saved, overtaken>>

\* join saves with the preview on the page; without one, and after a recovery, the
\* session is asked for once more.
Answered(call) ==
  /\ call.step = "answered"
  /\ CASE call.status # 201 -> Fail(call, call.status)
       [] call.status = 201 /\ call.kind = "join" /\ pages[call.page].session # NoCode ->
            Save(call, pages[call.page].session)
       [] OTHER -> LookUp(call)
  /\ UNCHANGED <<lobby, atPlay, previews, typed>>

LookedUp(call) ==
  /\ call.step = "looking"
  /\ IF call.look \in Codes THEN Save(call, call.look) ELSE Fail(call, 404)
  /\ UNCHANGED <<lobby, atPlay, previews, typed>>

\* The network loses a question or an answer.
Lost(call) ==
  /\ Fail(call, 0)
  /\ UNCHANGED <<lobby, atPlay, previews, typed>>

--------------------------------------------------------------------------------
(***************************************************************************)
(* Coming and going.                                                       *)
(***************************************************************************)
Enter(identity) ==
  /\ Len(pages) < MaxPages
  /\ pages' = Append(pages, Page(NoCode, identity))
  /\ atPlay' = FALSE

\* confirmIdentity or continueExisting.
GoToPlay ==
  /\ ~atPlay /\ (Shown.confirming # Nobody \/ Shown.existing # Nobody)
  /\ atPlay' = TRUE
  /\ UNCHANGED <<lobby, pages, previews, calls, saved, typed, overtaken>>

\* A refresh ends the pages that were left, and what this one waits for.
Refresh ==
  /\ ~atPlay /\ Enter(saved)
  /\ previews' = {} /\ calls' = {} /\ overtaken' = FALSE
  /\ UNCHANGED <<lobby, saved, typed>>

Forget ==
  /\ ~atPlay /\ Shown.existing # Nobody /\ Shown.confirming = Nobody
  /\ saved' = NoIdentity /\ Change(Len(pages), [Shown EXCEPT !.existing = Nobody])
  /\ UNCHANGED <<lobby, atPlay, previews, calls, typed, overtaken>>

Leave ==
  /\ atPlay /\ Enter(NoIdentity)
  /\ saved' = NoIdentity /\ overtaken' = FALSE
  /\ UNCHANGED <<lobby, previews, calls, typed>>

SetLobbyOpen(c) ==
  /\ lobby' = [lobby EXCEPT ![c].open = ~@]
  /\ UNCHANGED <<atPlay, pages, previews, calls, saved, typed, overtaken>>

\* The first page comes from a link with a code, or without.
JoinInit ==
  \E link \in AnyCode :
    /\ lobby = [c \in Codes |-> [open |-> TRUE, people |-> 0]]
    /\ atPlay = FALSE
    /\ pages = <<Page(link, NoIdentity)>>
    /\ previews = {[page |-> 1, code |-> link]} \ {[page |-> 1, code |-> NoCode]}
    /\ calls = {} /\ saved = NoIdentity
    /\ typed = 0 /\ overtaken = FALSE

JoinNext ==
  \/ \E c \in AnyCode : OnCodeChange(c)
  \/ \E n \in 1..Seats : TypeRecovery(n)
  \/ \E n \in DOMAIN pages : Preview(n)
  \/ \E p \in previews : PreviewAnswer(p)
  \/ PressJoin \/ PressRestore
  \/ \E call \in calls : Handle(call) \/ Answered(call) \/ LookedUp(call) \/ Lost(call)
  \/ GoToPlay \/ Refresh \/ Forget \/ Leave
  \/ \E c \in Codes : SetLobbyOpen(c)

--------------------------------------------------------------------------------
\* The identity that is confirmed is the one the phone has kept, so that a refresh lands
\* in the game as that participant (join.component.ts:171) -- unless a page that was left
\* has got its answer since.
ConfirmedIsSaved == ~atPlay /\ Shown.confirming # Nobody /\ ~overtaken => saved.who = Shown.confirming
================================================================================
