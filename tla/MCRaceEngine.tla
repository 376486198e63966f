----------------------------- MODULE MCRaceEngine -----------------------------
(* The players of a race are interchangeable.                               *)
EXTENDS RaceEngine, TLC

MCSymmetry == Permutations(Players)
==============================================================================
