----------------------------- MODULE MCSettings -----------------------------
(***************************************************************************)
(* A small instance of Settings for TLC.                                   *)
(***************************************************************************)
EXTENDS Settings, TLC

CONSTANTS FastRunElf, standard, other

MCField == {FastRunElf, DefLibraryPath}
MCText == {standard, other}
MCDefaultText == [f \in MCField |-> standard]

\* Libraries with no, one, two and three constants; ids at both ends.
MCTable == { <<>>,
             << [id |-> 2, val |-> 20] >>,
             << [id |-> 1, val |-> 11], [id |-> 2, val |-> 12] >>,
             << [id |-> 0, val |-> 30], [id |-> 2, val |-> 32], [id |-> 3, val |-> 33] >> }
MCConstID == 0 .. 4

Symmetry == Permutations(Block)

=============================================================================
