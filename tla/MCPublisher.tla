----------------------------- MODULE MCPublisher -----------------------------
(***************************************************************************)
(* Instance of Publisher for TLC.  The hour is one tick, so a request that *)
(* spans two hours, a copy that outlives its hour and a copy that expires  *)
(* all fit in a short clock.  Requests are interchangeable; the instances  *)
(* are not, as one of them may have a clock that is ahead.                 *)
(***************************************************************************)
EXTENDS Publisher, TLC

ReqSymmetry == Permutations(Reqs)
=============================================================================
