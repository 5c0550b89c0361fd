------------------------------- MODULE Tunnel -------------------------------
(***************************************************************************)
(* What a circuit promises to the two programs it joins: a byte pipe in    *)
(* each direction that delivers in order, loses nothing but a tail, and    *)
(* once an end has closed it stays closed.  CircuitStream (client/src/     *)
(* dial.rs) is the user's end, the exit's dest_link (relay/src/main.rs)    *)
(* the destination's.  Chunk k of a direction is the k-th one written.     *)
(***************************************************************************)
EXTENDS Naturals, Sequences

VARIABLES
    userOpen, destOpen,   \* whether each end may still be used
    userSent, destSent,   \* chunks written at each end
    userGot, destGot      \* chunks delivered to each end

tunnelVars == <<userOpen, destOpen, userSent, destSent, userGot, destGot>>

Init ==
    /\ userOpen = TRUE /\ destOpen = TRUE
    /\ userSent = 0 /\ destSent = 0
    /\ userGot = <<>> /\ destGot = <<>>

UserWrites ==
    /\ userOpen
    /\ userSent' = userSent + 1
    /\ UNCHANGED <<userOpen, destOpen, destSent, userGot, destGot>>

DestReceives ==
    /\ destOpen
    /\ Len(destGot) < userSent
    /\ destGot' = Append(destGot, Len(destGot) + 1)
    /\ UNCHANGED <<userOpen, destOpen, userSent, destSent, userGot>>

DestWrites ==
    /\ destOpen
    /\ destSent' = destSent + 1
    /\ UNCHANGED <<userOpen, destOpen, userSent, userGot, destGot>>

UserReceives ==
    /\ userOpen
    /\ Len(userGot) < destSent
    /\ userGot' = Append(userGot, Len(userGot) + 1)
    /\ UNCHANGED <<userOpen, destOpen, userSent, destSent, destGot>>

UserCloses ==
    /\ userOpen /\ userOpen' = FALSE
    /\ UNCHANGED <<destOpen, userSent, destSent, userGot, destGot>>

DestCloses ==
    /\ destOpen /\ destOpen' = FALSE
    /\ UNCHANGED <<userOpen, userSent, destSent, userGot, destGot>>

Next ==
    \/ UserWrites \/ DestReceives \/ DestWrites \/ UserReceives
    \/ UserCloses \/ DestCloses

Spec == Init /\ [][Next]_tunnelVars
=============================================================================
