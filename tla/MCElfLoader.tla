---------------------------- MODULE MCElfLoader ----------------------------
(***************************************************************************)
(* A small system for TLC: program e1 needs both libraries, program e2     *)
(* needs only the second, and library l1 itself needs l2.                  *)
(***************************************************************************)
EXTENDS ElfLoader, TLC

CONSTANTS e1, e2, l1, l2

MCNeeds == (e1 :> <<l1, l2>>) @@ (e2 :> <<l2>>) @@ (l1 :> <<l2>>) @@ (l2 :> <<>>)

Symmetry == Permutations(Image)

=============================================================================
