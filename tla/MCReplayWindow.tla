--------------------------- MODULE MCReplayWindow ---------------------------
(***************************************************************************)
(* Instance of ReplayWindow for TLC: the connection tasks are              *)
(* interchangeable model values.                                           *)
(***************************************************************************)
EXTENDS ReplayWindow, TLC

ConnSymmetry == Permutations(Conns)
=============================================================================
