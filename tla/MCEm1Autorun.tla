---------------------------- MODULE MCEm1Autorun ----------------------------
(***************************************************************************)
(* A small instance of Em1Autorun for TLC.                                 *)
(***************************************************************************)
EXTENDS Em1Autorun

CONSTANTS p1, p2, p3, p4

MCProgram == {p1, p2, p3, p4}

\* A search finds the programs in the order of their names.
MCFound == [ps \in SUBSET MCProgram |-> SelectSeq(<<p1, p2, p3, p4>>, LAMBDA p : p \in ps)]

=============================================================================
