--------------------------- MODULE MCOnionCircuit ---------------------------
(***************************************************************************)
(* Instance of OnionCircuit for TLC.  The circuit always has three hops;   *)
(* the configurations bound the chunks each end sends, the frames a TCP    *)
(* connection buffers and the faults.                                      *)
(***************************************************************************)
EXTENDS OnionCircuit
=============================================================================
