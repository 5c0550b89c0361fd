---------------------------- MODULE OnionCircuit ----------------------------
(***************************************************************************)
(* One three-hop circuit: the client's `dial` and `circuit_task`           *)
(* (client/src/dial.rs) and the `drive_circuit` and `run_circuit_io` tasks *)
(* of the guard, the middle and the exit (relay/src/main.rs), joined by    *)
(* three TLS links.  Party 0 is the client, parties 1, 2 and 3 the guard,  *)
(* the middle and the exit; link l joins party l-1 (its near end) to party *)
(* l (its far end).  Circuits share no cell state, so one is enough.       *)
(*                                                                         *)
(* A sealed frame is named by the hop whose transport sealed it and by the *)
(* Noise counter it was sealed under; `sealF` and `sealB` hold what was    *)
(* sealed under each counter.  A frame opens exactly when it carries the   *)
(* counter the receiving transport expects next.                           *)
(***************************************************************************)
EXTENDS Naturals, Sequences

CONSTANTS
    MaxUser,    \* chunks the user writes at most
    MaxDest,    \* chunks the destination writes at most
    LinkCap,    \* frames one direction of a link buffers
    MaxFaults   \* frames damaged and processes crashed at most

ASSUME BoundsAssumption ==
    /\ MaxUser \in Nat /\ MaxDest \in Nat /\ MaxFaults \in Nat
    /\ LinkCap \in Nat \ {0}

VARIABLES
    pc,        \* where each party is in its code
    out,       \* the write_all each party is suspended in: <<>> or one write
    circuit,   \* each relay's circuit::State, "None" before Circuit::new
    hopsUp,    \* transports the client holds
    sealF,     \* per hop, the plaintexts the client sealed, in counter order
    sealB,     \* per hop, the plaintexts the relay sealed toward the client
    openF,     \* per hop, frames the relay opened
    openB,     \* per hop, frames of that hop the client opened
    fwd,       \* per link, frames on their way to the far end
    bwd,       \* per link, frames on their way to the near end
    near, far, \* per link, whether each end is open
    dest,      \* the exit's dest_link: "none", "up", "eof", "dropped"
    userSent,  \* chunks read from the user
    userGot,   \* chunks written to the user
    destSent,  \* chunks read from the destination
    destGot,   \* chunks written to the destination
    faults     \* frames damaged and processes crashed so far

relayVars == <<circuit, openF, sealB, dest, destSent, destGot>>
clientVars == <<hopsUp, sealF, openB, userSent, userGot>>
linkVars == <<fwd, bwd, near, far>>
vars == <<pc, out, relayVars, clientVars, linkVars, faults>>

Hops == 1..3
Parties == 0..3

(***************************************************************************)
(* Frames and cells.                                                       *)
(***************************************************************************)
Frame == [hop : Parties, n : Nat]
Sealed(h, k) == [hop |-> h, n |-> k]
Hs == [hop |-> 0, n |-> 0]         \* a presentation or Noise handshake message
Junk == [hop |-> 0, n |-> 1]       \* a frame no transport opens
Bytes(k) == [hop |-> 0, n |-> k]   \* chunk k, outside the cell protocol

CellTypes == {"Extend", "Connect", "Data", "CloseRequest", "CloseAck"}
Plain == [type : CellTypes \cup {"Forward"}, arg : Nat, inner : Frame]
ToMe(t, k) == [type |-> t, arg |-> k, inner |-> Hs]
Forward(f) == [type |-> "Forward", arg |-> 0, inner |-> f]

Write == [dir : {"fwd", "bwd"}, frame : Frame]
Fwd(f) == <<[dir |-> "fwd", frame |-> f]>>
Bwd(f) == <<[dir |-> "bwd", frame |-> f]>>

PCs == {"idle", "hello", "handshake", "start", "wait", "open", "select", "dial",
        "closing", "ended"}

TypeOK ==
    /\ pc \in [Parties -> PCs]
    /\ out \in [Parties -> Seq(Write)]
    /\ circuit \in [Hops -> {"None", "Pending", "Active", "Closed", "Failed"}]
    /\ hopsUp \in 0..3
    /\ sealF \in [Hops -> Seq(Plain)] /\ sealB \in [Hops -> Seq(Plain)]
    /\ openF \in [Hops -> Nat] /\ openB \in [Hops -> Nat]
    /\ fwd \in [Hops -> Seq(Frame)] /\ bwd \in [Hops -> Seq(Frame)]
    /\ near \in [Hops -> BOOLEAN] /\ far \in [Hops -> BOOLEAN]
    /\ dest \in {"none", "up", "eof", "dropped"}
    /\ userSent \in Nat /\ destSent \in Nat
    /\ userGot \in Seq(Nat) /\ destGot \in Seq(Nat)
    /\ faults \in Nat

Init ==
    /\ pc = [p \in Parties |-> IF p = 0 THEN "start" ELSE "idle"]
    /\ out = [p \in Parties |-> <<>>]
    /\ circuit = [h \in Hops |-> "None"]
    /\ hopsUp = 0
    /\ sealF = [h \in Hops |-> <<>>] /\ sealB = [h \in Hops |-> <<>>]
    /\ openF = [h \in Hops |-> 0] /\ openB = [h \in Hops |-> 0]
    /\ fwd = [l \in Hops |-> <<>>] /\ bwd = [l \in Hops |-> <<>>]
    /\ near = [l \in Hops |-> FALSE] /\ far = [l \in Hops |-> FALSE]
    /\ dest = "none"
    /\ userSent = 0 /\ destSent = 0 /\ userGot = <<>> /\ destGot = <<>>
    /\ faults = 0

(***************************************************************************)
(* The client.                                                             *)
(***************************************************************************)

\* Party p is in its loop (or in a read) rather than suspended in a write.
At(p, where) == pc[p] = where /\ out[p] = <<>>

\* Mutant: the inner frame named by the last counter used, not the next.
SealFor_StaleCounter(k, cell) ==
    sealF' = [h \in Hops |->
                 IF h > k THEN sealF[h]
                 ELSE Append(sealF[h],
                             IF h = k THEN cell
                             ELSE Forward(Sealed(h + 1, Len(sealF[h + 1]))))]

\* Seal a cell for hop k and wrap it for every hop before it: extend_hop
\* for k = 1 and 2, Layers::seal_for_exit for k = 3.  The frame produced is
\* the next one of the guard's transport.
SealFor(k, cell) ==
    sealF' = [h \in Hops |->
                 IF h > k THEN sealF[h]
                 ELSE Append(sealF[h],
                             IF h = k THEN cell
                             ELSE Forward(Sealed(h + 1, Len(sealF[h + 1]) + 1)))]

SendFor(k, cell) ==
    /\ SealFor(k, cell)
    /\ out' = [out EXCEPT ![0] = Fwd(Sealed(1, Len(sealF[1]) + 1))]

\* Mutant: any frame of the hop opens, whatever its counter.
OpensB_AnyCounter(h, f) == f.hop = h

\* Whether f is the frame the transport with hop h expects next on the
\* client's side.
OpensB(h, f) == f = Sealed(h, openB[h] + 1)

\* Layers::peel_inbound on a frame from the guard: how many layers come off
\* before a cell appears, 0 when one of them does not open.
Layer(d, f) ==
    IF d = 1 THEN f
    ELSE IF d = 2 THEN sealB[1][f.n].inner
    ELSE sealB[2][sealB[1][f.n].inner.n].inner

PlainB(d, f) == sealB[d][Layer(d, f).n]

PeelDepth(f) ==
    IF ~OpensB(1, Layer(1, f)) THEN 0
    ELSE IF PlainB(1, f).type # "Forward" THEN 1
    ELSE IF ~OpensB(2, Layer(2, f)) THEN 0
    ELSE IF PlainB(2, f).type # "Forward" THEN 2
    ELSE IF ~OpensB(3, Layer(3, f)) THEN 0
    ELSE 3

\* The client drops its TLS stream, and unread frames with it.
ClientDrops ==
    /\ near' = [near EXCEPT ![1] = FALSE]
    /\ bwd' = [bwd EXCEPT ![1] = <<>>]

\* The client is done: dial returns an error, or circuit_task finishes.
ClientEnds ==
    /\ pc' = [pc EXCEPT ![0] = "ended"]
    /\ out' = [out EXCEPT ![0] = <<>>]
    /\ ClientDrops
    /\ UNCHANGED <<relayVars, clientVars, fwd, far, faults>>

\* circuit_task leaves its loop: CLOSE_REQUEST, sealed for the exit, is the
\* last thing the client writes.
Break ==
    /\ pc' = [pc EXCEPT ![0] = "closing"]
    /\ SendFor(3, ToMe("CloseRequest", 0))

\* Connect to the guard and write the presentation and Noise message 1.
dial ==
    /\ At(0, "start")
    /\ \/ /\ pc' = [pc EXCEPT ![0] = "wait", ![1] = "hello"]
          /\ near' = [near EXCEPT ![1] = TRUE]
          /\ far' = [far EXCEPT ![1] = TRUE]
          /\ out' = [out EXCEPT ![0] = Fwd(Hs)]
          /\ UNCHANGED <<relayVars, clientVars, fwd, bwd, faults>>
       \/ ClientEnds

\* Take a frame from the guard.
ClientReads ==
    /\ bwd[1] # <<>>
    /\ bwd' = [bwd EXCEPT ![1] = Tail(@)]

\* Mutant: the counters of the layers not peeled are rewound.
ClientOpens_Rewinds(d) ==
    openB' = [h \in Hops |-> IF h <= d THEN openB[h] + 1 ELSE openB[h] - 1]

ClientOpens(d) == openB' = [h \in Hops |-> openB[h] + IF h <= d THEN 1 ELSE 0]

\* The reply that brings up hop k + 1: message 2 itself from the guard, an
\* EXTEND cell from hop k afterwards.
IsReply(k, f) ==
    IF k = 0 THEN f = Hs
    ELSE PeelDepth(f) = k /\ PlainB(k, f).type = "Extend"

\* A handshake completes: extend_hop to the next hop, or CONNECT when the
\* exit's transport is up.
extend_hop ==
    /\ At(0, "wait")
    /\ ClientReads
    /\ IsReply(hopsUp, Head(bwd[1]))
    /\ ClientOpens(hopsUp)
    /\ hopsUp' = hopsUp + 1
    /\ SendFor(hopsUp + 1, ToMe(IF hopsUp = 2 THEN "Connect" ELSE "Extend", 0))
    /\ UNCHANGED <<pc, relayVars, userSent, userGot, fwd, near, far, faults>>

\* Mutant: the end of the stream goes unnoticed while dialling.
dial_error_NoEof ==
    /\ At(0, "wait")
    /\ bwd[1] # <<>> /\ ~IsReply(hopsUp, Head(bwd[1]))
    /\ ClientEnds

\* Any other frame, or the end of the stream, fails the dial.
dial_error ==
    /\ At(0, "wait")
    /\ \/ bwd[1] # <<>> /\ ~IsReply(hopsUp, Head(bwd[1]))
       \/ ~far[1]
    /\ ClientEnds

\* circuit_task, first branch: a chunk from the user, or its end of stream.
circuit_task_user ==
    /\ At(0, "open")
    /\ \/ /\ userSent < MaxUser
          /\ userSent' = userSent + 1
          /\ SendFor(3, ToMe("Data", userSent + 1))
          /\ UNCHANGED pc
       \/ Break /\ UNCHANGED userSent
    /\ UNCHANGED <<relayVars, hopsUp, openB, userGot, linkVars, faults>>

\* circuit_task, second branch: a frame from the guard.  A frame that ends the
\* loop may have advanced some of the counters; openB is left alone there, as
\* the client opens nothing after Break.
circuit_task_inbound ==
    /\ At(0, "open")
    /\ ClientReads
    /\ LET f == Head(bwd[1])
           d == PeelDepth(f)
       IN IF d > 0 /\ PlainB(d, f).type = "Data"
            THEN /\ ClientOpens(d)
                 /\ out' = [out EXCEPT ![0] = Bwd(Bytes(PlainB(d, f).arg))]
                 /\ UNCHANGED <<pc, sealF>>
            ELSE Break /\ UNCHANGED openB
    /\ UNCHANGED <<relayVars, hopsUp, userSent, userGot, fwd, near, far, faults>>

\* Mutant: an empty read is taken for nothing to do.
circuit_task_eof_Ignored ==
    /\ At(0, "open")
    /\ ~far[1]
    /\ UNCHANGED vars

circuit_task_eof ==
    /\ At(0, "open")
    /\ ~far[1]
    /\ Break
    /\ UNCHANGED <<relayVars, hopsUp, openB, userSent, userGot, linkVars, faults>>

\* The client's suspended write to the guard completes.  Frames written to
\* an end that is gone are lost.  CONNECT hands the stream to circuit_task;
\* after CLOSE_REQUEST the client shuts the stream down.
ClientWrites ==
    /\ out[0] # <<>>
    /\ out[0][1].dir = "fwd"
    /\ IF far[1]
         THEN Len(fwd[1]) < LinkCap /\ fwd' = [fwd EXCEPT ![1] = Append(@, out[0][1].frame)]
         ELSE UNCHANGED fwd
    /\ out' = [out EXCEPT ![0] = <<>>]
    /\ IF pc[0] = "closing"
         THEN pc' = [pc EXCEPT ![0] = "ended"] /\ ClientDrops
         ELSE /\ pc' = [pc EXCEPT ![0] = IF hopsUp = 3 THEN "open" ELSE "wait"]
              /\ UNCHANGED <<near, bwd>>
    /\ UNCHANGED <<relayVars, clientVars, far, faults>>

\* The write fails because the guard is gone.
ClientWriteFails ==
    /\ out[0] # <<>>
    /\ out[0][1].dir = "fwd"
    /\ ~far[1]
    /\ \/ pc[0] \in {"wait", "closing"} /\ ClientEnds
       \/ /\ pc[0] = "open"
          /\ Break
          /\ UNCHANGED <<relayVars, hopsUp, openB, userSent, userGot, linkVars, faults>>

\* The user takes the chunk, or is gone and the write to it fails.
UserTakes ==
    /\ out[0] # <<>>
    /\ out[0][1].dir = "bwd"
    /\ \/ /\ userGot' = Append(userGot, out[0][1].frame.n)
          /\ out' = [out EXCEPT ![0] = <<>>]
          /\ UNCHANGED <<pc, sealF>>
       \/ Break /\ UNCHANGED userGot
    /\ UNCHANGED <<relayVars, hopsUp, openB, userSent, linkVars, faults>>

(***************************************************************************)
(* A relay.                                                                *)
(***************************************************************************)

\* What the frame f, sealed toward hop h, holds; and whether it is the one
\* the relay's transport expects next.
OpensF(h, f) == f = Sealed(h, openF[h] + 1)
PlainF(h, f) == sealF[h][f.n]

\* next_link of relay h: the exit has none.
HasNext(h) == h < 3 /\ near[h + 1]

\* Relay h returns from handle_connection: both its streams are dropped, and
\* what it had not read with them.
RelayEnds(h) ==
    /\ pc' = [pc EXCEPT ![h] = "ended"]
    /\ out' = [out EXCEPT ![h] = <<>>]
    /\ far' = [far EXCEPT ![h] = FALSE]
    /\ fwd' = [fwd EXCEPT ![h] = <<>>]
    /\ near' = [l \in Hops |-> l # h + 1 /\ near[l]]
    /\ bwd' = [l \in Hops |-> IF l = h + 1 THEN <<>> ELSE bwd[l]]
    /\ dest' = IF h = 3 /\ dest = "up" THEN "dropped" ELSE dest

\* Every error path of drive_circuit and run_circuit_io.
Fail(h) ==
    /\ RelayEnds(h)
    /\ circuit' = [circuit EXCEPT ![h] = "Failed"]
    /\ UNCHANGED <<openF, sealB, destSent, destGot, clientVars, faults>>

\* Relay h takes the next frame of its inbound link.
RelayReads(h) ==
    /\ fwd[h] # <<>>
    /\ fwd' = [fwd EXCEPT ![h] = Tail(@)]

\* Seal toward the client and write to the inbound link.
ReplyWith(h, plain) ==
    /\ sealB' = [sealB EXCEPT ![h] = Append(@, plain)]
    /\ out' = [out EXCEPT ![h] = Bwd(Sealed(h, Len(sealB[h]) + 1))]

\* Mutant: the circuit is activated before the handshake.
handle_connection_Active(h) ==
    /\ At(h, "hello")
    /\ fwd[h] # <<>>
    /\ RelayReads(h)
    /\ pc' = [pc EXCEPT ![h] = "handshake"]
    /\ circuit' = [circuit EXCEPT ![h] = "Active"]
    /\ UNCHANGED <<out, dest, bwd, near, far, openF, sealB, destSent, destGot, clientVars, faults>>

\* The presentation arrives.  The guard verifies the token, a middle or exit
\* admits the peer by the registry; otherwise the connection is dropped
\* before any circuit exists.
handle_connection(h) ==
    /\ At(h, "hello")
    /\ fwd[h] # <<>>
    /\ \/ /\ RelayReads(h)
          /\ pc' = [pc EXCEPT ![h] = "handshake"]
          /\ circuit' = [circuit EXCEPT ![h] = "Pending"]
          /\ UNCHANGED <<out, dest, bwd, near, far>>
       \/ RelayEnds(h) /\ UNCHANGED circuit
    /\ UNCHANGED <<openF, sealB, destSent, destGot, clientVars, faults>>

\* The presentation does not arrive in time, or the peer is gone.
presentation_timeout(h) ==
    /\ At(h, "hello")
    /\ RelayEnds(h)
    /\ UNCHANGED <<circuit, openF, sealB, destSent, destGot, clientVars, faults>>

\* The Noise responder runs; a message 1 made for another key fails it.
drive_circuit(h) ==
    /\ At(h, "handshake")
    /\ \/ /\ pc' = [pc EXCEPT ![h] = "select"]
          /\ out' = [out EXCEPT ![h] = Bwd(Hs)]
          /\ UNCHANGED <<relayVars, clientVars, linkVars, faults>>
       \/ Fail(h)

\* Mutant: the exit takes a DATA cell whose counter it does not check.
Legal_Unchecked(h, f) ==
    \/ OpensF(h, f) /\ PlainF(h, f).type = "Forward" /\ HasNext(h)
    \/ OpensF(h, f) /\ PlainF(h, f).type = "Extend" /\ h < 3 /\ ~HasNext(h)
    \/ OpensF(h, f) /\ PlainF(h, f).type = "Connect" /\ h = 3 /\ dest # "up"
    \/ f.hop = h /\ PlainF(h, f).type = "Data" /\ h = 3 /\ dest = "up"
    \/ OpensF(h, f) /\ PlainF(h, f).type = "CloseRequest"

\* run_circuit_io, first branch: a frame from the inbound link.  The cases
\* are those of the match on the peeled layer, the cell type and the role.
Legal(h, f) ==
    /\ OpensF(h, f)
    /\ LET t == PlainF(h, f).type
       IN \/ t = "Forward" /\ HasNext(h)
          \/ t = "Extend" /\ h < 3 /\ ~HasNext(h)
          \/ t = "Connect" /\ h = 3 /\ dest # "up"
          \/ t = "Data" /\ h = 3 /\ dest = "up"
          \/ t = "CloseRequest"

run_inbound(h) ==
    /\ At(h, "select")
    /\ RelayReads(h)
    /\ Legal(h, Head(fwd[h]))
    /\ openF' = [openF EXCEPT ![h] = @ + 1]
    /\ LET p == PlainF(h, Head(fwd[h]))
       IN \/ /\ p.type = "Forward"
             /\ out' = [out EXCEPT ![h] = Fwd(p.inner)]
             /\ UNCHANGED <<pc, sealB, dest, near, far>>
          \/ /\ p.type = "Data"
             /\ out' = [out EXCEPT ![h] = Fwd(Bytes(p.arg))]
             /\ UNCHANGED <<pc, sealB, dest, near, far>>
          \/ /\ p.type = "Connect"
             /\ dest' = "up"
             /\ UNCHANGED <<pc, out, sealB, near, far>>
          \/ /\ p.type = "CloseRequest"
             /\ ReplyWith(h, ToMe("CloseAck", 0))
             /\ pc' = [pc EXCEPT ![h] = "closing"]
             /\ UNCHANGED <<dest, near, far>>
          \/ /\ p.type = "Extend"
             /\ near' = [near EXCEPT ![h + 1] = TRUE]
             /\ far' = [far EXCEPT ![h + 1] = TRUE]
             /\ pc' = [pc EXCEPT ![h] = "dial", ![h + 1] = "hello"]
             /\ out' = [out EXCEPT ![h] = Fwd(Hs)]
             /\ UNCHANGED <<sealB, dest>>
    /\ UNCHANGED <<circuit, destSent, destGot, clientVars, bwd, faults>>

\* A frame that does not open or is not legal here, an EXTEND or CONNECT
\* whose target is refused or cannot be reached, the end of the inbound
\* stream, and CELL_READ_TIMEOUT all end the circuit the same way.
run_inbound_error(h) ==
    /\ At(h, "select")
    /\ \/ fwd[h] # <<>> /\ ~Legal(h, Head(fwd[h]))
       \/ /\ fwd[h] # <<>> /\ Legal(h, Head(fwd[h]))
          /\ PlainF(h, Head(fwd[h])).type \in {"Extend", "Connect"}
       \/ ~near[h]
    /\ Fail(h)

cell_read_timeout(h) ==
    /\ At(h, "select")
    /\ Fail(h)

\* open_next_link, second half: message 2 of the next hop becomes an EXTEND
\* cell for the client.
open_next_link(h) ==
    /\ At(h, "dial")
    /\ bwd[h + 1] # <<>>
    /\ bwd' = [bwd EXCEPT ![h + 1] = Tail(@)]
    /\ ReplyWith(h, ToMe("Extend", 0))
    /\ pc' = [pc EXCEPT ![h] = "select"]
    /\ UNCHANGED <<circuit, openF, dest, destSent, destGot, clientVars, fwd, near, far, faults>>

\* The next hop closes instead, or HANDSHAKE_READ_TIMEOUT passes.
open_next_link_error(h) ==
    /\ At(h, "dial")
    /\ Fail(h)

\* run_circuit_io, second branch: a frame from the next link is wrapped
\* unopened; the end of that stream fails the circuit.
run_next(h) ==
    /\ At(h, "select")
    /\ HasNext(h)
    /\ \/ /\ bwd[h + 1] # <<>>
          /\ bwd' = [bwd EXCEPT ![h + 1] = Tail(@)]
          /\ ReplyWith(h, Forward(Head(bwd[h + 1])))
          /\ UNCHANGED <<pc, circuit, openF, dest, destSent, destGot, clientVars,
                         fwd, near, far, faults>>
       \/ ~far[h + 1] /\ Fail(h)

\* Mutant: the destination is still read after its end of stream.
run_dest_AfterEof ==
    /\ At(3, "select")
    /\ dest \in {"up", "eof"}
    /\ \/ /\ destSent < MaxDest
          /\ destSent' = destSent + 1
          /\ ReplyWith(3, ToMe("Data", destSent + 1))
          /\ UNCHANGED <<pc, circuit, openF, dest, destGot, clientVars, linkVars, faults>>
       \/ /\ dest' = "eof"
          /\ UNCHANGED <<pc, out, circuit, openF, sealB, destSent, destGot, clientVars,
                         linkVars, faults>>
       \/ Fail(3)

\* run_circuit_io, third branch, exit only: a chunk from the destination,
\* its end of stream, or a read error.
run_dest ==
    /\ At(3, "select")
    /\ dest = "up"
    /\ \/ /\ destSent < MaxDest
          /\ destSent' = destSent + 1
          /\ ReplyWith(3, ToMe("Data", destSent + 1))
          /\ UNCHANGED <<pc, circuit, openF, dest, destGot, clientVars, linkVars, faults>>
       \/ /\ dest' = "eof"
          /\ UNCHANGED <<pc, out, circuit, openF, sealB, destSent, destGot, clientVars,
                         linkVars, faults>>
       \/ Fail(3)

\* A suspended write toward the client completes; writing message 2 is what
\* activates the circuit.
RelayWritesBack(h) ==
    /\ out[h] # <<>>
    /\ out[h][1].dir = "bwd"
    /\ IF near[h]
         THEN Len(bwd[h]) < LinkCap /\ bwd' = [bwd EXCEPT ![h] = Append(@, out[h][1].frame)]
         ELSE UNCHANGED bwd
    /\ out' = [out EXCEPT ![h] = <<>>]
    /\ circuit' = [circuit EXCEPT ![h] = IF @ = "Pending" THEN "Active" ELSE @]
    /\ UNCHANGED <<pc, openF, sealB, dest, destSent, destGot, clientVars, fwd, near, far, faults>>

\* Mutant: a frame that finds the link full is dropped.
RelayWritesOn_Drops(h) ==
    /\ h < 3
    /\ out[h] # <<>>
    /\ out[h][1].dir = "fwd"
    /\ fwd' = IF far[h + 1] /\ Len(fwd[h + 1]) < LinkCap - 1
               THEN [fwd EXCEPT ![h + 1] = Append(@, out[h][1].frame)] ELSE fwd
    /\ out' = [out EXCEPT ![h] = <<>>]
    /\ UNCHANGED <<pc, relayVars, clientVars, bwd, near, far, faults>>

\* A suspended write toward the next hop completes.
RelayWritesOn(h) ==
    /\ h < 3
    /\ out[h] # <<>>
    /\ out[h][1].dir = "fwd"
    /\ IF far[h + 1]
         THEN /\ Len(fwd[h + 1]) < LinkCap
              /\ fwd' = [fwd EXCEPT ![h + 1] = Append(@, out[h][1].frame)]
         ELSE UNCHANGED fwd
    /\ out' = [out EXCEPT ![h] = <<>>]
    /\ UNCHANGED <<pc, relayVars, clientVars, bwd, near, far, faults>>

\* Mutant: a write that makes no progress is given up.
RelayWriteFails_Timeout(h) ==
    /\ out[h] # <<>>
    /\ Fail(h)

\* A suspended write fails because the peer is gone.
RelayWriteFails(h) ==
    /\ out[h] # <<>>
    /\ \/ out[h][1].dir = "bwd" /\ ~near[h]
       \/ out[h][1].dir = "fwd" /\ h < 3 /\ ~far[h + 1]
    /\ Fail(h)

\* The destination takes the chunk the exit is writing, or the write fails.
DestTakes ==
    /\ out[3] # <<>>
    /\ out[3][1].dir = "fwd"
    /\ \/ /\ destGot' = Append(destGot, out[3][1].frame.n)
          /\ out' = [out EXCEPT ![3] = <<>>]
          /\ UNCHANGED <<pc, circuit, openF, sealB, dest, destSent, clientVars, linkVars, faults>>
       \/ Fail(3)

\* CLOSE_ACK is written: run_circuit_io returns Ok and the circuit closes.
close(h) ==
    /\ At(h, "closing")
    /\ RelayEnds(h)
    /\ circuit' = [circuit EXCEPT ![h] = "Closed"]
    /\ UNCHANGED <<openF, sealB, destSent, destGot, clientVars, faults>>

(***************************************************************************)
(* Delivery below the cell layer goes wrong: a cell is altered, lost,      *)
(* delivered twice, or overtaken.                                          *)
(***************************************************************************)
Damaged(q) ==
    {<<Junk>> \o Tail(q), Tail(q), <<Head(q)>> \o q}
        \cup IF Len(q) > 1 THEN {<<q[2], q[1]>> \o SubSeq(q, 3, Len(q))} ELSE {}

Damage(l) ==
    /\ faults < MaxFaults
    /\ faults' = faults + 1
    /\ \/ /\ fwd[l] # <<>> /\ Head(fwd[l]) # Hs
          /\ \E q \in Damaged(fwd[l]) : fwd' = [fwd EXCEPT ![l] = q]
          /\ UNCHANGED bwd
       \/ /\ bwd[l] # <<>> /\ Head(bwd[l]) # Hs
          /\ \E q \in Damaged(bwd[l]) : bwd' = [bwd EXCEPT ![l] = q]
          /\ UNCHANGED fwd
    /\ UNCHANGED <<pc, out, relayVars, clientVars, near, far>>

\* A process dies: its sockets close under it.
Crash(p) ==
    /\ faults < MaxFaults
    /\ faults' = faults + 1
    /\ pc[p] \notin {"idle", "start", "ended"}
    /\ IF p = 0
         THEN /\ pc' = [pc EXCEPT ![0] = "ended"]
              /\ out' = [out EXCEPT ![0] = <<>>]
              /\ ClientDrops
              /\ UNCHANGED <<circuit, dest, fwd, far>>
         ELSE /\ RelayEnds(p)
              /\ circuit' = [circuit EXCEPT ![p] = IF @ = "None" THEN @ ELSE "Failed"]
    /\ UNCHANGED <<openF, sealB, destSent, destGot, clientVars>>

(***************************************************************************)
(* The circuit.                                                            *)
(***************************************************************************)
Client ==
    \/ dial \/ extend_hop \/ dial_error
    \/ circuit_task_user \/ circuit_task_inbound \/ circuit_task_eof
    \/ ClientWrites \/ ClientWriteFails \/ UserTakes

Relay(h) ==
    \/ handle_connection(h) \/ presentation_timeout(h) \/ drive_circuit(h)
    \/ run_inbound(h) \/ run_inbound_error(h) \/ cell_read_timeout(h)
    \/ run_next(h) \/ RelayWritesBack(h) \/ RelayWritesOn(h) \/ RelayWriteFails(h)
    \/ close(h)

Exit == run_dest \/ DestTakes

Ended == pc[0] = "ended" /\ \A h \in Hops : pc[h] \in {"idle", "ended"}
Terminated == Ended /\ UNCHANGED vars

Next ==
    \/ Client
    \/ \E h \in Hops : Relay(h)
    \/ \E h \in {1, 2} : open_next_link(h) \/ open_next_link_error(h)
    \/ Exit
    \/ \E l \in Hops : Damage(l)
    \/ \E p \in Parties : Crash(p)
    \/ Terminated

Spec == Init /\ [][Next]_vars

(***************************************************************************)
(* Fairness.  Every task runs when it can; the user and the destination    *)
(* take what is written to them.  That a timer fires on a link that stays  *)
(* silent is assumed only where a property says so.  Nothing makes the     *)
(* user or the destination write, or a refusal or a fault happen.          *)
(***************************************************************************)
ClientRuns ==
    \/ dial \/ extend_hop \/ dial_error \/ circuit_task_inbound \/ circuit_task_eof
    \/ ClientWrites \/ ClientWriteFails \/ UserTakes

RelayRuns(h) ==
    \/ handle_connection(h) \/ drive_circuit(h) \/ run_inbound(h) \/ run_inbound_error(h)
    \/ run_next(h) \/ RelayWritesBack(h) \/ RelayWritesOn(h) \/ RelayWriteFails(h)
    \/ close(h)

IdleTimeout(h) ==
    /\ fwd[h] = <<>>
    /\ presentation_timeout(h) \/ cell_read_timeout(h)

Running ==
    /\ WF_vars(ClientRuns)
    /\ \A h \in Hops : WF_vars(RelayRuns(h))
    /\ \A h \in {1, 2} : WF_vars(open_next_link(h) \/ open_next_link_error(h))
    /\ WF_vars(DestTakes)

Timers == \A h \in Hops : WF_vars(IdleTimeout(h))

FairSpec == Spec /\ Running

(***************************************************************************)
(* Properties.                                                             *)
(***************************************************************************)

\* Bytes reach the destination in the order the user wrote them, none twice,
\* none skipped, whatever the links do to the frames: the implicit Noise
\* counters of the three transports are the only ordering run_circuit_io
\* and circuit_task have.
InOrder(got, sent) == Len(got) <= sent /\ \A i \in 1..Len(got) : got[i] = i
ForwardInOrder == InOrder(destGot, userSent)

\* The same toward the user: what circuit_task hands to the user is a prefix
\* of what the exit read from the destination.
BackwardInOrder == InOrder(userGot, destSent)

\* While no frame is damaged, no party ever meets a frame that does not open:
\* sealing and opening counters of every hop agree through every
\* interleaving of the two directions, of EXTEND replies with forwarded
\* cells, and of teardown with traffic in flight (layer::peel in
\* run_circuit_io, Layers::peel_inbound).
CountersAgree ==
    faults = 0 =>
        /\ \A h \in Hops : pc[h] = "select" /\ fwd[h] # <<>> => OpensF(h, Head(fwd[h]))
        /\ pc[0] = "open" /\ bwd[1] # <<>> => PeelDepth(Head(bwd[1])) = 3

\* Two parties at the ends of link l, each suspended in a write to the other
\* with no room left for it.
Wedged(l) ==
    /\ near[l] /\ far[l]
    /\ out[l - 1] # <<>> /\ out[l - 1][1].dir = "fwd" /\ Len(fwd[l]) >= LinkCap
    /\ out[l] # <<>> /\ out[l][1].dir = "bwd" /\ Len(bwd[l]) >= LinkCap

\* The only way a circuit stops before it ends is two neighbours writing to
\* each other over a link full in both directions.  run_circuit_io and
\* circuit_task write inside their select arms, and neither reads while it
\* writes.
OnlyWedgesBlock == (ENABLED Next) \/ \E l \in Hops : Wedged(l)

\* Such a wedge is never undone by the code: CELL_READ_TIMEOUT covers reads
\* only, so no timer ends either write.
WedgePersists == [][\A l \in Hops : Wedged(l) /\ faults' = faults => Wedged(l)']_vars

\* A circuit state moves only along the transitions circuit.rs names, and a
\* hop becomes active only below an active hop: no hop serves a circuit its
\* predecessor did not extend.
CircuitSteps ==
    [][\A h \in Hops :
          circuit[h] # circuit'[h] =>
              /\ <<circuit[h], circuit'[h]>> \in
                    {<<"None", "Pending">>, <<"Pending", "Active">>, <<"Pending", "Failed">>,
                     <<"Active", "Closed">>, <<"Active", "Failed">>}
              /\ circuit'[h] = "Active" /\ h > 1 => circuit[h - 1] \notin {"None", "Pending"}]_vars

\* No hop outlives the circuit: when timers fire on silent links, once any
\* party ends, every party ends.  Holds while no link can fill in both
\* directions.
TeardownReachesAll == Timers => ((\E p \in Parties : pc[p] = "ended") ~> Ended)

\* While no fault happens, every chunk read from the user reaches the
\* destination, or the circuit is torn down at every party.  No timer helps:
\* no cell is left behind in a layer, a write or a link.
ChunksArrive ==
    \A k \in 1..MaxUser :
        (userSent >= k) ~> (Len(destGot) >= k \/ Ended \/ faults > 0)

\* The circuit implements the byte pipe of module Tunnel: the user's end is
\* open until circuit_task leaves its loop, the destination's until the exit
\* drops dest_link.
UserOpen == pc[0] \in {"start", "wait", "open"}
DestOpen == pc[3] \notin {"closing", "ended"} /\ dest \in {"none", "up"}

Pipe == INSTANCE Tunnel WITH userOpen <- UserOpen, destOpen <- DestOpen
ImplementsTunnel == Pipe!Spec

\* run_circuit_io keeps the circuit alive after the destination closed its
\* write half "in case the client still has bytes to send before CLOSE": a
\* DATA cell that opens then does not fail the circuit.
DataAfterEofKeepsCircuit ==
    [][ /\ At(3, "select") /\ dest = "eof" /\ near[3]
        /\ fwd[3] # <<>> /\ OpensF(3, Head(fwd[3]))
        /\ PlainF(3, Head(fwd[3])).type = "Data"
        /\ run_inbound(3) \/ run_inbound_error(3)
        => circuit'[3] # "Failed" ]_vars

=============================================================================
