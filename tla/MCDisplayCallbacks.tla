------------------------- MODULE MCDisplayCallbacks -------------------------
(***************************************************************************)
(* A small instance of DisplayCallbacks for TLC: the whole display, one    *)
(* part of it, and updates of a part that overlaps that one and of a       *)
(* column of pixels at its edge.                                           *)
(***************************************************************************)
EXTENDS DisplayCallbacks, TLC

Left == [x1 |-> 1, y1 |-> 0, x2 |-> 4, y2 |-> 2]

Column == [x1 |-> 4, y1 |-> 1, x2 |-> 4, y2 |-> 2]

Right == [x1 |-> 3, y1 |-> 0, x2 |-> 6, y2 |-> 2]

MCTarget == {null_rect, Left}

MCUpdate == {Column, Right}

Symmetry == Permutations(Callback)

=============================================================================
