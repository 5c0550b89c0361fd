--------------------------- MODULE MCRegistryCache ---------------------------
(***************************************************************************)
(* Instance of RegistryCache for TLC.  An hour is one tick and versions    *)
(* are hours, so old, current and not yet valid documents all occur within *)
(* a clock of a few ticks.  The processes are interchangeable.             *)
(***************************************************************************)
EXTENDS RegistryCache, TLC

ProcSymmetry == Permutations(Procs)
=============================================================================
