---------------------------- MODULE MCStageEngine ----------------------------
(* Small values for StageEngine: a race and one stored game, so that both   *)
(* ways of recovering are taken, with two rounds in the first.              *)
EXTENDS StageEngine

MCGameOrder == <<"RLGL", "ORDER">>
MCRoundCount == [g \in {"RLGL", "ORDER"} |-> IF g = "RLGL" THEN 2 ELSE 1]
==============================================================================
