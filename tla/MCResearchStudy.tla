---------------------------- MODULE MCResearchStudy ----------------------------
(***************************************************************************)
(* Small instances of ResearchStudy: case 1 is a solver trial, the others  *)
(* run the paid pipeline.  Safety runs treat workers and start requests    *)
(* as interchangeable; the liveness run does not use the symmetry.         *)
(***************************************************************************)
EXTENDS ResearchStudy, TLC

Interchangeable == Permutations(Workers) \cup Permutations(Starters)
=============================================================================
