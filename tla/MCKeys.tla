------------------------------- MODULE MCKeys -------------------------------
(***************************************************************************)
(* A small instance of Keys for TLC: a volume key and the fast access key. *)
(***************************************************************************)
EXTENDS Keys

CONSTANTS up, fast

MCKey == {up, fast}

MCVolume == {up}

=============================================================================
