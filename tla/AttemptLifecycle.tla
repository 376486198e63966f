--------------------------- MODULE AttemptLifecycle ---------------------------
(***************************************************************************)
(* What the stage engine promises about the attempts of a session, without *)
(* saying how: an attempt is opened for input at most once, closed at most *)
(* once, published only after that, and whatever was opened may be voided  *)
(* for good, which prepares its replay.  At most one attempt is open.      *)
(***************************************************************************)
EXTENDS Integers, Sequences

VARIABLE ledger   \* the phase of every attempt, in the order of creation

Phases == {"prepared", "open", "closed", "published", "void"}

Init == ledger = <<>>

NoneOpen == \A i \in DOMAIN ledger : ledger[i] # "open"

Prepare == ledger' = Append(ledger, "prepared")
PrepareOpen == NoneOpen /\ ledger' = Append(ledger, "open")

Move(i, from, to) == ledger[i] = from /\ ledger' = [ledger EXCEPT ![i] = to]

Open(i) == NoneOpen /\ Move(i, "prepared", "open")
Close(i) == Move(i, "open", "closed")
Publish(i) == Move(i, "closed", "published")
VoidAndReplay(i) ==
  /\ ledger[i] \in {"open", "closed", "published"}
  /\ ledger' = Append([ledger EXCEPT ![i] = "void"], "prepared")

Next ==
  \/ Prepare \/ PrepareOpen
  \/ \E i \in DOMAIN ledger : Open(i) \/ Close(i) \/ Publish(i) \/ VoidAndReplay(i)

Spec == Init /\ [][Next]_ledger
==============================================================================
