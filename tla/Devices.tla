-------------------------------- MODULE Devices --------------------------------
(***************************************************************************)
(* The devices around a session, one part of one of them watched at a time *)
(* ("part" is chosen once, so that they cost their sum and not their       *)
(* product): what a phone shows of the session, who takes part and is      *)
(* connected, a phone's way in, its globe, the languages, the table of     *)
(* standings, and the sessions of the host's page.                         *)
(***************************************************************************)
EXTENDS ClientSync, Sessions, JoinPage, Globe, Languages, Tables, Console

VARIABLE part

vars == <<part, syncVars, sessionsVars, joinVars, globeVars, languageVars, tableVars, consoleVars>>

Init ==
  /\ part \in {"sync", "people", "join", "globe", "languages", "table", "desk"}
  /\ SyncInit /\ SessionsInit /\ JoinInit /\ GlobeInit /\ LanguagesInit /\ TablesInit /\ ConsoleInit
  /\ part # "join" => Shown.code = NoCode
  /\ part # "desk" => existing = {CHOOSE s \in Events : TRUE}

Next ==
  /\ UNCHANGED part
  /\ \/ /\ part = "sync" /\ SyncNext
        /\ UNCHANGED <<sessionsVars, joinVars, globeVars, languageVars, tableVars, consoleVars>>
     \/ /\ part = "people" /\ SessionsNext
        /\ UNCHANGED <<syncVars, joinVars, globeVars, languageVars, tableVars, consoleVars>>
     \/ /\ part = "join" /\ JoinNext
        /\ UNCHANGED <<syncVars, sessionsVars, globeVars, languageVars, tableVars, consoleVars>>
     \/ /\ part = "globe" /\ GlobeNext
        /\ UNCHANGED <<syncVars, sessionsVars, joinVars, languageVars, tableVars, consoleVars>>
     \/ /\ part = "languages" /\ LanguagesNext
        /\ UNCHANGED <<syncVars, sessionsVars, joinVars, globeVars, tableVars, consoleVars>>
     \/ /\ part = "table" /\ TablesNext
        /\ UNCHANGED <<syncVars, sessionsVars, joinVars, globeVars, languageVars, consoleVars>>
     \/ /\ part = "desk" /\ ConsoleNext
        /\ UNCHANGED <<syncVars, sessionsVars, joinVars, globeVars, languageVars, tableVars>>

Spec == Init /\ [][Next]_vars
================================================================================
