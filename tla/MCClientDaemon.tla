--------------------------- MODULE MCClientDaemon ---------------------------
(***************************************************************************)
(* Instance of ClientDaemon: two keys of two octal digits each.  One of    *)
(* the tokens of the first key has a leading zero.                         *)
(***************************************************************************)
EXTENDS ClientDaemon

MCKeys == << [n |-> 33, e |-> 3, d |-> 7], [n |-> 35, e |-> 5, d |-> 5] >>
=============================================================================
