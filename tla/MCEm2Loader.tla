---------------------------- MODULE MCEm2Loader ----------------------------
(***************************************************************************)
(* A small instance of Em2Loader for TLC.                                  *)
(***************************************************************************)
EXTENDS Em2Loader, TLC

Symmetry == Permutations(Elf)

=============================================================================
