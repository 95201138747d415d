--------------------------- MODULE MCConsoleText ---------------------------
(***************************************************************************)
(* A small console for TLC: the ring is three windows long, as in the      *)
(* code, and the line counter starts again at a number of lines that is    *)
(* not a multiple of the ring, as 65536 is not.                            *)
(***************************************************************************)
EXTENDS ConsoleText

=============================================================================
