---------------------------- MODULE Transitions ----------------------------
(***************************************************************************)
(* The stages of a session and the table of host actions, which both the   *)
(* stage engine and the room behind the host's desk obey.                  *)
(***************************************************************************)

Stages == {"Lobby", "Instructions", "Ready", "Countdown", "RoundActive", "InputLocked",
           "Reveal", "GameResults", "TournamentResults", "Closed"}
LiveStages == {"Countdown", "RoundActive"}

ALLOWED ==
  [SHOW_INSTRUCTIONS  |-> {"Lobby", "GameResults", "Instructions"},
   START_PRACTICE     |-> {"Instructions"},
   START_GAME         |-> {"Instructions", "Reveal"},
   START_ROUND        |-> {"Ready"},
   PAUSE              |-> LiveStages,
   RESUME             |-> LiveStages,
   REVEAL             |-> {"InputLocked"},   \* REVEAL_PRACTICE and REVEAL_RESULTS
   NEXT_ROUND         |-> {"Reveal"},
   SHOW_GAME_RESULTS  |-> {"Reveal"},
   NEXT_GAME          |-> {"GameResults"},
   SHOW_FINAL_RESULTS |-> {"GameResults", "TournamentResults"},
   VOID_ROUND         |-> LiveStages \cup {"InputLocked", "Reveal"},
   START_TIEBREAK     |-> {"TournamentResults"},
   CEREMONY_STEP      |-> {"TournamentResults"},
   PODIUM_STEP        |-> {"GameResults"},
   STANDINGS_PAGE     |-> {"Reveal", "GameResults", "TournamentResults"},
   CLOSE_SESSION      |-> Stages \ (LiveStages \cup {"Closed"})]
=============================================================================
