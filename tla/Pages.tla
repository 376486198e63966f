-------------------------------- MODULE Pages --------------------------------
(***************************************************************************)
(* The three pages: the host's desk, a phone and the shared display.  They *)
(* have no state in common but the server's, of which each of the modules  *)
(* has the part its page depends on, so a run watches one page at a time:  *)
(* "page" is chosen once, and the pages cost their sum and not their       *)
(* product.                                                                *)
(***************************************************************************)
EXTENDS Screens, Phone, Display

VARIABLE page

vars == <<page, deskVars, phoneVars, displayVars>>

Init ==
  /\ page \in {"desk", "phone", "display"}
  /\ DeskInit /\ PhoneInit /\ DisplayInit
  /\ page # "phone" => kind = "RLGL"

Next ==
  /\ UNCHANGED page
  /\ \/ page = "desk" /\ DeskNext /\ UNCHANGED <<phoneVars, displayVars>>
     \/ page = "phone" /\ PhoneNext /\ UNCHANGED <<deskVars, displayVars>>
     \/ page = "display" /\ DisplayNext /\ UNCHANGED <<deskVars, phoneVars>>

\* The server's timers fire, its ticks go on and it handles what has arrived.
Fairness ==
  /\ WF_vars(page = "desk" /\ AutoPause /\ UNCHANGED <<page, phoneVars, displayVars>>)
  /\ WF_vars(page = "phone" /\ StaleHold /\ UNCHANGED <<page, deskVars, displayVars>>)
  /\ WF_vars(page = "phone" /\ (\E i \in DOMAIN toServer : Serve(i))
             /\ UNCHANGED <<page, deskVars, displayVars>>)

Spec == Init /\ [][Next]_vars /\ Fairness
=============================================================================
