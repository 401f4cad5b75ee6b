--------------------------- MODULE MCProviderGates ---------------------------
(***************************************************************************)
(* Small instances of ProviderGates: run A has more calls than its gate    *)
(* and its executor take at once, run B competes for the process gate.     *)
(***************************************************************************)
EXTENDS ProviderGates, TLC

CONSTANTS a1, a2, a3, b1, A, B

MCCalls == {a1, a2, a3, b1}
MCRunOf == [c \in MCCalls |-> IF c = b1 THEN B ELSE A]
MCThreaded == {a1, a2}
=============================================================================
