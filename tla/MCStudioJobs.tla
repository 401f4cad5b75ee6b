----------------------------- MODULE MCStudioJobs -----------------------------
(***************************************************************************)
(* A small instance of StudioJobs for TLC: two visitors, the first of whom *)
(* knows one id, which the second asks for too, beside one of its own.     *)
(***************************************************************************)
EXTENDS StudioJobs

CONSTANTS o1, o2, k1, k2

MCIds == [o \in Owners |-> IF o = o1 THEN {k1} ELSE {k1, k2}]
=============================================================================
