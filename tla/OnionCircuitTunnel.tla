------------------------- MODULE OnionCircuitTunnel -------------------------
(***************************************************************************)
(* What a step of OnionCircuit may do.  A step of one party leaves the     *)
(* links of the others alone, so a wedged link stays wedged; a relay's     *)
(* circuit moves along the transitions of circuit.rs; and every step moves *)
(* at most one chunk at one end, or closes one end: the circuit implements *)
(* the byte pipe of Tunnel.  Last, with what the exit knows of its         *)
(* destination, the counters of every two ends agree.                      *)
(***************************************************************************)
EXTENDS OnionCircuitProofs, OnionCircuitCounters

\* Zenon proves what names no other prover.
USE ZenonT(60)

(***************************************************************************)
(* A wedged link stays wedged.                                             *)
(***************************************************************************)

\* Neither party of a wedged link can take a step: its write has no room, and
\* it reads nothing and drops nothing while it writes.
LEMMA WedgeBlocksClient ==
  ASSUME TypeOK, Wedged(1), Client
  PROVE  FALSE
<1>1. out[0] # <<>> /\ out[0][1].dir = "fwd" /\ far[1] /\ ~(Len(fwd[1]) < LinkCap)
  <2>1. Len(fwd[1]) \in Nat /\ LinkCap \in Nat
    BY SMTT(30), HopSets, BoundsAssumption DEF TypeOK
  <2> QED BY SMTT(30), <2>1 DEF Wedged
<1> QED BY <1>1 DEF Client, dial, extend_hop, dial_error, circuit_task_user,
        circuit_task_inbound, circuit_task_eof, ClientWrites, ClientWriteFails, UserTakes, At

\* A relay that is suspended in a write can only finish it or fail.
LEMMA Suspended ==
  ASSUME NEW h \in Hops, RelayStep(h), out[h] # <<>>
  PROVE  RelayWritesBack(h) \/ RelayWritesOn(h) \/ RelayWriteFails(h) \/ (h = 3 /\ DestTakes)
  BY DEF RelayStep, Relay, Exit, handle_connection, presentation_timeout, drive_circuit,
         run_inbound, run_inbound_error, cell_read_timeout, run_next, close, open_next_link,
         open_next_link_error, run_dest, At

\* The relay at either end of a wedged link takes no step.
LEMMA WedgeBlocksRelay ==
  ASSUME TypeOK, NEW l \in Hops, Wedged(l), NEW h \in Hops, h = l \/ h + 1 = l, RelayStep(h)
  PROVE  FALSE
<1>0. Len(fwd[l]) \in Nat /\ Len(bwd[l]) \in Nat /\ LinkCap \in Nat
  BY SMTT(30), BoundsAssumption DEF TypeOK
<1>1. CASE h = l
  <2>1. out[h] # <<>> /\ out[h][1].dir = "bwd" /\ near[h] /\ ~(Len(bwd[h]) < LinkCap)
    BY SMTT(30), <1>0, <1>1 DEF Wedged
  <2>2. RelayWritesBack(h) \/ RelayWritesOn(h) \/ RelayWriteFails(h) \/ (h = 3 /\ DestTakes)
    BY <2>1, Suspended
  <2> QED BY <2>1, <2>2 DEF RelayWritesBack, RelayWritesOn, RelayWriteFails, DestTakes
<1>2. CASE h + 1 = l
  <2>1. h < 3 /\ h = l - 1 /\ h # 3
    BY SMTT(30), <1>2 DEF Hops
  <2>2. out[l - 1] # <<>> /\ out[l - 1][1].dir = "fwd" /\ far[l] /\ ~(Len(fwd[l]) < LinkCap)
    BY SMT, <1>0 DEF Wedged
  <2>3. out[h] # <<>> /\ out[h][1].dir = "fwd" /\ far[h + 1] /\ ~(Len(fwd[h + 1]) < LinkCap)
    BY <1>2, <2>1, <2>2
  <2>4. RelayWritesBack(h) \/ RelayWritesOn(h) \/ RelayWriteFails(h)
    BY <2>1, <2>3, Suspended
  <2> QED BY <2>1, <2>3, <2>4 DEF RelayWritesBack, RelayWritesOn, RelayWriteFails
<1> QED BY <1>1, <1>2

\* A step of a party at neither end leaves the wedge.
LEMMA WedgeStays ==
  ASSUME NEW l \in Hops, Wedged(l), NEW p \in Parties, Local(p), p # l, p + 1 # l
  PROVE  Wedged(l)'
<1>1. l \in Parties /\ l - 1 \in Parties /\ l # p /\ l - 1 # p /\ l # p + 1
  BY SMT DEF Hops, Parties
<1>2. out'[l] = out[l] /\ out'[l - 1] = out[l - 1]
  BY <1>1 DEF Local
<1>3. near'[l] = near[l] /\ far'[l] = far[l] /\ fwd'[l] = fwd[l] /\ bwd'[l] = bwd[l]
  BY <1>1 DEF Local
<1> QED BY <1>2, <1>3 DEF Wedged

\* Two neighbours writing to each other over a full link stay so for ever
\* unless a process crashes or a frame is damaged: no timer of the code ends
\* either write_all.
THEOREM WedgesPersist == Spec => WedgePersists
<1>1. TypeOK /\ [Next]_vars => [\A l \in Hops : Wedged(l) /\ faults' = faults => Wedged(l)']_vars
  <2> SUFFICES ASSUME TypeOK, [Next]_vars, NEW l \in Hops, Wedged(l), faults' = faults
               PROVE  Wedged(l)'
    BY SMT
  <2>r. ASSUME NEW h \in Hops, RelayStep(h) PROVE Wedged(l)'
    <3>1. h # l /\ h + 1 # l
      BY <2>r, WedgeBlocksRelay
    <3> QED BY <2>r, <3>1, RelayLocal, WedgeStays, HopSets
  <2>1. CASE Client
    <3>1. l # 1
      BY <2>1, WedgeBlocksClient
    <3>2. 0 # l /\ 0 + 1 # l
      BY SMTT(30), <3>1, HopSets
    <3> QED BY <2>1, <3>2, ClientLocal, WedgeStays, HopSets
  <2>2. CASE \E h \in Hops : Relay(h)
    BY <2>r, <2>2 DEF RelayStep
  <2>3. CASE \E h \in {1, 2} : open_next_link(h) \/ open_next_link_error(h)
    <3>1. PICK h \in {1, 2} : open_next_link(h) \/ open_next_link_error(h)
      BY <2>3
    <3>2. h \in Hops /\ h < 3
      BY SMT DEF Hops
    <3> QED BY <2>r, <3>1, <3>2 DEF RelayStep
  <2>4. CASE Exit
    BY <2>r, <2>4, HopSets DEF RelayStep
  <2>5. CASE (\E k \in Hops : Damage(k)) \/ (\E p \in Parties : Crash(p))
    <3>1. faults' = faults + 1 /\ faults \in Nat
      BY <2>5 DEF Damage, Crash, TypeOK
    <3> QED BY SMTT(30), <3>1
  <2>6. CASE UNCHANGED vars
    BY <2>6 DEF vars, linkVars, Wedged
  <2> QED BY <2>1, <2>2, <2>3, <2>4, <2>5, <2>6 DEF Next, Terminated
<1>2. Spec => []TypeOK
  BY TypeCorrect
<1> QED BY <1>1, <1>2, PTL DEF Spec, WedgePersists

(***************************************************************************)
(* The circuit states of circuit.rs.                                       *)
(***************************************************************************)

\* Where a relay's task is, against the state of its circuit.
StateAt(h) ==
    /\ pc[h] \in {"idle", "hello"} => circuit[h] = "None"
    /\ pc[h] = "handshake" => circuit[h] = "Pending"
    /\ pc[h] = "select" => circuit[h] = "Active" \/ (circuit[h] = "Pending" /\ WritesB(h))
    /\ pc[h] \in {"dial", "closing"} => circuit[h] = "Active"
    /\ pc[h] = "ended" => circuit[h] \in {"None", "Closed", "Failed"} /\ out[h] = <<>>
    /\ pc[h] \in {"idle", "hello", "handshake", "select", "dial", "closing", "ended"}

\* A hop is reached only through a hop whose handshake is done.
Extended == \A h \in 2..3 : pc[h] # "idle" => circuit[h - 1] \notin {"None", "Pending"}

CircuitInv == (\A h \in Hops : StateAt(h)) /\ Extended

Named(a, b) ==
    a # b => <<a, b>> \in {<<"None", "Pending">>, <<"Pending", "Active">>, <<"Pending", "Failed">>,
                           <<"Active", "Closed">>, <<"Active", "Failed">>}

\* A step of relay h moves its own circuit only.
LEMMA RelayMoves ==
  ASSUME IInv, NEW h \in Hops, RelayStep(h), StateAt(h)
  PROVE  /\ StateAt(h)' /\ Named(circuit[h], circuit'[h])
         /\ \A k \in Hops : k # h => circuit'[k] = circuit[k]
         /\ circuit'[h] \in {"None", "Pending"} => circuit[h] \in {"None", "Pending"}
         /\ pc'[h] = "dial" => circuit[h] = "Active"
<1>t. /\ pc \in [Parties -> PCs] /\ out \in [Parties -> Seq(Write)] /\ h \in Parties
      /\ circuit \in [Hops -> {"None", "Pending", "Active", "Closed", "Failed"}]
  BY HopSets DEF IInv, TypeOK
<1>p. out[h] # <<>> => pc[h] \notin {"idle", "hello", "handshake", "ended"}
  BY DEF IInv, ExitProgress, StateAt
<1>f. ASSUME Fail(h), pc[h] \in {"handshake", "select", "dial", "closing"}
      PROVE  /\ StateAt(h)' /\ Named(circuit[h], circuit'[h])
             /\ \A k \in Hops : k # h => circuit'[k] = circuit[k]
             /\ circuit'[h] = "Failed" /\ pc'[h] = "ended"
  <2>1. /\ circuit'[h] = "Failed" /\ (\A k \in Hops : k # h => circuit'[k] = circuit[k])
        /\ pc'[h] = "ended" /\ out'[h] = <<>>
    BY <1>t, <1>f DEF Fail, RelayEnds
  <2>2. circuit[h] \in {"Pending", "Active"}
    BY <1>f DEF StateAt
  <2> QED BY <2>1, <2>2 DEF StateAt, Named
<1>1. CASE handle_connection(h) \/ presentation_timeout(h)
  <2>1. pc[h] = "hello" /\ circuit[h] = "None" /\ out[h] = <<>>
    BY <1>1 DEF handle_connection, presentation_timeout, At, StateAt
  <2>2. \/ pc'[h] = "ended" /\ out'[h] = <<>> /\ circuit' = circuit
        \/ /\ pc'[h] = "handshake" /\ circuit'[h] = "Pending"
           /\ \A k \in Hops : k # h => circuit'[k] = circuit[k]
    BY <1>t, <1>1 DEF handle_connection, presentation_timeout, RelayEnds
  <2> QED BY <2>1, <2>2 DEF StateAt, Named
<1>2. CASE drive_circuit(h)
  <2>0. pc[h] = "handshake" /\ circuit[h] = "Pending"
    BY <1>2 DEF drive_circuit, At, StateAt
  <2>1. CASE ~Fail(h)
    <3>1. pc'[h] = "select" /\ out'[h] = Bwd(Hs) /\ circuit' = circuit
      BY <1>t, <1>2, <2>1 DEF drive_circuit, relayVars
    <3>2. WritesB(h)'
      BY <3>1, WriteForms DEF WritesB
    <3> QED BY <2>0, <3>1, <3>2 DEF StateAt, Named
  <2> QED BY <1>f, <2>0, <2>1
<1>3. CASE run_inbound(h) \/ (h < 3 /\ open_next_link(h))
  <2>1. circuit[h] = "Active" /\ circuit' = circuit
    BY <1>3 DEF run_inbound, open_next_link, At, StateAt, WritesB
  <2>2. pc'[h] \in {"select", "dial", "closing"}
    <3>1. CASE h < 3 /\ open_next_link(h)
      BY <1>t, <3>1 DEF open_next_link
    <3>2. CASE run_inbound(h)
      <4>1. \/ pc' = pc \/ pc' = [pc EXCEPT ![h] = "closing"]
            \/ pc' = [pc EXCEPT ![h] = "dial", ![h + 1] = "hello"]
        BY <3>2 DEF run_inbound
      <4>2. pc[h] = "select" /\ h # h + 1
        BY SMTT(30), <3>2, HopSets DEF run_inbound, At
      <4> QED BY <1>t, <4>1, <4>2
    <3> QED BY <1>3, <3>1, <3>2
  <2> QED BY <2>1, <2>2 DEF StateAt, Named
<1>4. CASE run_inbound_error(h) \/ cell_read_timeout(h) \/ (h < 3 /\ open_next_link_error(h))
  BY <1>f, <1>4 DEF run_inbound_error, cell_read_timeout, open_next_link_error, At
<1>5. CASE RelayWriteFails(h)
  <2>1. pc[h] \in {"handshake", "select", "dial", "closing"} /\ Fail(h)
    BY <1>p, <1>5 DEF RelayWriteFails, StateAt
  <2> QED BY <1>f, <2>1
<1>6. CASE run_next(h) \/ (h = 3 /\ run_dest)
  <2>0. pc[h] = "select" /\ circuit[h] = "Active"
    BY <1>6 DEF run_next, run_dest, At, StateAt, WritesB
  <2>1. CASE ~Fail(h)
    <3>1. pc' = pc /\ circuit' = circuit
      BY <1>6, <2>1 DEF run_next, run_dest
    <3> QED BY <2>0, <3>1 DEF StateAt, Named
  <2> QED BY <1>f, <2>0, <2>1
<1>7. CASE RelayWritesBack(h)
  <2>1. /\ pc' = pc /\ out[h] # <<>> /\ out'[h] = <<>>
        /\ circuit'[h] = IF circuit[h] = "Pending" THEN "Active" ELSE circuit[h]
        /\ \A k \in Hops : k # h => circuit'[k] = circuit[k]
    BY <1>t, <1>7 DEF RelayWritesBack
  <2>2. pc[h] \in {"select", "dial", "closing"}
    BY <1>p, <2>1 DEF StateAt
  <2> QED BY <2>1, <2>2 DEF StateAt, Named
<1>8. CASE RelayWritesOn(h) \/ (h = 3 /\ DestTakes)
  <2>0. pc[h] \in {"select", "dial", "closing"} /\ out[h][1].dir = "fwd"
    BY <1>p, <1>8 DEF RelayWritesOn, DestTakes, StateAt
  <2>1. CASE ~Fail(h)
    <3>1. pc' = pc /\ circuit' = circuit /\ circuit[h] = "Active"
      BY <1>8, <2>0, <2>1 DEF RelayWritesOn, DestTakes, relayVars, StateAt, WritesB
    <3> QED BY <2>0, <3>1 DEF StateAt, Named
  <2> QED BY <1>f, <2>0, <2>1
<1>9. CASE close(h)
  <2>1. /\ circuit[h] = "Active" /\ circuit'[h] = "Closed" /\ pc'[h] = "ended" /\ out'[h] = <<>>
        /\ \A k \in Hops : k # h => circuit'[k] = circuit[k]
    BY <1>t, <1>9 DEF close, RelayEnds, At, StateAt
  <2> QED BY <2>1 DEF StateAt, Named
<1> QED BY <1>1, <1>2, <1>3, <1>4, <1>5, <1>6, <1>7, <1>8, <1>9 DEF RelayStep, Relay, Exit

\* What CircuitSteps says of a step, and that it keeps CircuitInv.
StepsNamed ==
    \A h \in Hops :
        /\ Named(circuit[h], circuit'[h])
        /\ circuit[h] # circuit'[h] /\ circuit'[h] = "Active" /\ h > 1
              => circuit[h - 1] \notin {"None", "Pending"}

\* A step of a relay moves its circuit along the transitions of circuit.rs.
LEMMA RelayCircuit ==
  ASSUME IInv, CircuitInv, NEW h \in Hops, RelayStep(h)
  PROVE  CircuitInv' /\ StepsNamed
<1>0. RelayLeaves(h)
  BY RelayFrame DEF IInv
<1>1. /\ StateAt(h)' /\ Named(circuit[h], circuit'[h])
      /\ \A k \in Hops : k # h => circuit'[k] = circuit[k]
      /\ circuit'[h] \in {"None", "Pending"} => circuit[h] \in {"None", "Pending"}
      /\ pc'[h] = "dial" => circuit[h] = "Active"
  BY RelayMoves DEF CircuitInv
<1>2. \A k \in Hops : k # h => pc'[k] = pc[k] \/ (pc[k] = "idle" /\ pc'[k] = "hello" /\ k = h + 1 /\ pc'[h] = "dial")
  <2> SUFFICES ASSUME NEW k \in Hops, k # h, pc'[k] # pc[k]
               PROVE  pc[k] = "idle" /\ pc'[k] = "hello" /\ k = h + 1 /\ pc'[h] = "dial"
    BY SMT
  <2>1. k = h + 1 /\ pc[h] = "select" /\ ~near[k] /\ pc'[k] = "hello" /\ pc'[h] = "dial"
    BY <1>0 DEF RelayLeaves
  <2>2. h \in 1..2
    BY SMT, <2>1 DEF Hops
  <2>3. pc[h + 1] = "idle"
    BY <2>1, <2>2 DEF IInv, HopOrder
  <2> QED BY <2>1, <2>3
<1>3. \A k \in Hops : k # h => StateAt(k)'
  <2> SUFFICES ASSUME NEW k \in Hops, k # h PROVE StateAt(k)'
    BY SMT
  <2>1. out'[k] = out[k] /\ circuit'[k] = circuit[k] /\ StateAt(k)
    BY <1>0, <1>1 DEF RelayLeaves, CircuitInv
  <2> QED BY <1>2, <2>1 DEF StateAt, WritesB
<1>4. Extended'
  <2> SUFFICES ASSUME NEW k \in 2..3, pc'[k] # "idle"
               PROVE  circuit'[k - 1] \notin {"None", "Pending"}
    BY DEF Extended
  <2>0. k \in Hops /\ k - 1 \in Hops
    BY SMT DEF Hops
  <2>1. circuit[k - 1] \notin {"None", "Pending"}
    <3>1. CASE pc[k] # "idle"
      BY <3>1 DEF CircuitInv, Extended
    <3>2. CASE pc[k] = "idle"
      <4>1. k # h
        BY <1>0, <3>2 DEF RelayLeaves
      <4>2. k = h + 1 /\ pc'[h] = "dial"
        BY <1>2, <2>0, <3>2, <4>1
      <4>3. k - 1 = h
        BY SMTT(30), <4>2, HopSets
      <4> QED BY <1>1, <4>2, <4>3
    <3> QED BY <3>1, <3>2
  <2> QED BY <1>1, <2>0, <2>1
<1>5. StepsNamed
  <2>1. pc[h] # "idle" /\ (h > 1 => h \in 2..3)
    BY SMTT(30), <1>0, HopSets DEF RelayLeaves, Hops
  <2>2. h > 1 => circuit[h - 1] \notin {"None", "Pending"}
    BY <2>1 DEF CircuitInv, Extended
  <2> QED BY <1>1, <2>2 DEF StepsNamed, Named
<1> QED BY <1>1, <1>3, <1>4, <1>5 DEF CircuitInv

\* So does every step of the system.
LEMMA StepCircuit ==
  ASSUME IInv, CircuitInv, [Next]_vars
  PROVE  CircuitInv' /\ StepsNamed
<1>q. ASSUME UNCHANGED circuit, \A h \in Hops : out'[h] = out[h] /\ (pc'[h] = pc[h] \/ (h = 1 /\ pc[h] = "idle" /\ pc'[h] = "hello"))
      PROVE  CircuitInv' /\ StepsNamed
  <2>1. \A h \in Hops : StateAt(h)'
    BY SMT, <1>q DEF CircuitInv, StateAt, WritesB
  <2>2. \A h \in 2..3 : pc'[h] = pc[h]
    BY <1>q, HopSets
  <2> QED BY <1>q, <2>1, <2>2 DEF CircuitInv, Extended, StepsNamed, Named
<1>1. CASE Client
  <2>1. ClientLeaves
    BY <1>1, ClientFrame DEF IInv
  <2>2. \A h \in Hops : pc'[h] = pc[h] \/ (h = 1 /\ pc[h] = "idle" /\ pc'[h] = "hello")
    BY SMTT(30), <2>1 DEF ClientLeaves, IInv, HopOrder, Hops
  <2> QED BY <1>q, <2>1, <2>2 DEF ClientLeaves, relayVars
<1>2. CASE \E h \in Hops : Relay(h)
  BY <1>2, RelayCircuit DEF RelayStep
<1>3. CASE \E h \in {1, 2} : open_next_link(h) \/ open_next_link_error(h)
  <2>1. PICK h \in {1, 2} : open_next_link(h) \/ open_next_link_error(h)
    BY <1>3
  <2>2. h \in Hops /\ h < 3
    BY SMT DEF Hops
  <2> QED BY <2>1, <2>2, RelayCircuit DEF RelayStep
<1>4. CASE Exit
  BY <1>4, HopSets, RelayCircuit DEF RelayStep
<1>5. CASE \E l \in Hops : Damage(l)
  BY <1>q, <1>5 DEF Damage, relayVars
<1>6. ASSUME NEW p \in Parties, Crash(p) PROVE CircuitInv' /\ StepsNamed
  <2>t. /\ pc \in [Parties -> PCs] /\ out \in [Parties -> Seq(Write)]
        /\ circuit \in [Hops -> {"None", "Pending", "Active", "Closed", "Failed"}]
    BY DEF IInv, TypeOK
  <2>1. CASE p = 0
    <3>1. UNCHANGED circuit /\ \A h \in Hops : out'[h] = out[h] /\ pc'[h] = pc[h]
      BY <1>6, <2>t, <2>1, HopSets DEF Crash
    <3> QED BY <1>q, <3>1
  <2>2. CASE p # 0
    <3>0. p \in Hops
      BY SMTT(30), <2>2 DEF Parties, Hops
    <3>1. /\ pc[p] \notin {"idle", "ended"} /\ pc'[p] = "ended" /\ out'[p] = <<>>
          /\ circuit'[p] = IF circuit[p] = "None" THEN "None" ELSE "Failed"
          /\ \A k \in Hops : k # p => pc'[k] = pc[k] /\ out'[k] = out[k] /\ circuit'[k] = circuit[k]
      BY <1>6, <2>t, <2>2, <3>0, HopSets DEF Crash, RelayEnds
    <3>2. \A h \in Hops : StateAt(h)'
      BY <3>1 DEF CircuitInv, StateAt, WritesB
    <3>3. Named(circuit[p], circuit'[p]) /\ circuit'[p] # "Active" /\ circuit'[p] # "Pending"
      BY <3>0, <3>1 DEF CircuitInv, StateAt, Named
    <3>4. Extended'
      <4> SUFFICES ASSUME NEW h \in 2..3, pc'[h] # "idle"
                   PROVE  circuit'[h - 1] \notin {"None", "Pending"}
        BY DEF Extended
      <4>1. h \in Hops /\ h - 1 \in Hops
        BY SMT DEF Hops
      <4>2. circuit[h - 1] \notin {"None", "Pending"}
        BY <3>1, <4>1 DEF CircuitInv, Extended
      <4> QED BY <3>1, <3>3, <4>1, <4>2
    <3> QED BY <3>1, <3>2, <3>3, <3>4 DEF CircuitInv, StepsNamed, Named
  <2> QED BY <2>1, <2>2
<1>7. CASE UNCHANGED vars
  BY <1>q, <1>7 DEF vars, relayVars
<1> QED BY <1>1, <1>2, <1>3, <1>4, <1>5, <1>6, <1>7 DEF Next, Terminated

\* A relay's circuit moves only along the transitions circuit.rs names, and
\* becomes active only below a hop whose own handshake is done.
THEOREM CircuitsStep == Spec => CircuitSteps
<1>1. Init => CircuitInv
  <2> SUFFICES ASSUME Init PROVE CircuitInv
    BY SMT
  <2>1. \A h \in Hops : pc[h] = "idle" /\ circuit[h] = "None"
    BY HopSets DEF Init
  <2> QED BY <2>1, HopSets DEF CircuitInv, StateAt, Extended
<1>2. IInv /\ CircuitInv /\ [Next]_vars =>
        /\ CircuitInv'
        /\ [\A h \in Hops :
              circuit[h] # circuit'[h] =>
                  /\ <<circuit[h], circuit'[h]>> \in
                        {<<"None", "Pending">>, <<"Pending", "Active">>, <<"Pending", "Failed">>,
                         <<"Active", "Closed">>, <<"Active", "Failed">>}
                  /\ circuit'[h] = "Active" /\ h > 1
                        => circuit[h - 1] \notin {"None", "Pending"}]_vars
  BY StepCircuit DEF StepsNamed, Named
<1> QED BY <1>1, <1>2, InvInit, InvNext, PTL DEF Spec, CircuitSteps

(***************************************************************************)
(* The destination's end of the pipe.                                      *)
(***************************************************************************)

\* What one step of the exit may do to the destination's end.
ExitMove ==
    \/ UNCHANGED <<destSent, destGot>> /\ (DestOpen' => DestOpen)
    \/ DestOpen /\ DestOpen' /\ destSent' = destSent + 1 /\ UNCHANGED destGot
    \/ /\ DestOpen /\ DestOpen' /\ UNCHANGED destSent
       /\ Len(destGot) < userSent /\ destGot' = Append(destGot, Len(destGot) + 1)

\* Ending the exit's task closes the destination's end.
LEMMA ExitEndsMove ==
  ASSUME IInv, RelayEnds(3), UNCHANGED <<openF, destSent, destGot>>, DestLink
  PROVE  ExitMove /\ DestLink'
<1>1. pc'[3] = "ended" /\ out'[3] = <<>>
  BY HopSets DEF RelayEnds, IInv, TypeOK
<1>2. ~DestOpen'
  BY <1>1 DEF DestOpen
<1>3. dest' # "none" => dest # "none"
  BY DEF RelayEnds
<1> QED BY <1>1, <1>2, <1>3 DEF ExitMove, DestLink, WritesF

\* A frame the exit opens.
LEMMA ExitInbound ==
  ASSUME IInv, DestLink, run_inbound(3)
  PROVE  ExitMove /\ DestLink'
<1> DEFINE p == PlainF(3, Head(fwd[3]))
<1>0. /\ pc[3] = "select" /\ out[3] = <<>> /\ UNCHANGED <<destSent, destGot>>
      /\ 3 \in Hops /\ openF[3] \in Nat /\ openF'[3] = openF[3] + 1
  BY HopSets DEF run_inbound, At, IInv, TypeOK
<1>1. Legal(3, Head(fwd[3]))
  BY DEF run_inbound
<1>2. p.type \in {"Data", "Connect", "CloseRequest"}
  BY SMTT(30), <1>1 DEF Legal, HasNext
<1>3. CASE p.type = "Data"
  <2>1. UNCHANGED <<pc, dest>> /\ dest = "up"
    BY <1>1, <1>3 DEF run_inbound, Legal, HasNext
  <2> QED BY SMTT(30), <1>0, <2>1 DEF ExitMove, DestLink, DestOpen
<1>4. CASE p.type = "Connect"
  <2>1. UNCHANGED <<pc, out>> /\ dest' = "up"
    BY <1>4 DEF run_inbound
  <2>2. PICK n : n = openF[3] + 1
    BY SMT
  <2>3. openF[3] = 0
    <3>1. fwd[3] # <<>> /\ OpensF(3, Head(fwd[3]))
      BY DEF run_inbound, RelayReads, Legal
    <3>2. n \in 1..Len(sealF[3]) /\ p = sealF[3][n]
      BY <1>0, <2>2, <3>1, OpensKnown DEF IInv
    <3>3. p = IF n = 1 THEN ToMe("Connect", 0)
              ELSE IF n <= userSent + 1 THEN ToMe("Data", n - 1)
              ELSE ToMe("CloseRequest", 0)
      BY <3>2 DEF IInv, ExitStream
    <3>4. n = 1
      BY SMTT(30), <1>4, <3>3 DEF ToMe
    <3> QED BY SMTT(30), <1>0, <2>2, <3>4
  <2>4. dest = "none"
    BY SMTT(30), <2>3 DEF DestLink
  <2> QED BY SMTT(30), <1>0, <2>1, <2>4 DEF ExitMove, DestLink, DestOpen, WritesF
<1>5. CASE p.type = "CloseRequest"
  <2>1. pc'[3] = "closing" /\ ReplyWith(3, ToMe("CloseAck", 0)) /\ UNCHANGED dest
    BY <1>0, <1>5, HopSets DEF run_inbound, IInv, TypeOK
  <2>2. out'[3] = Bwd(Sealed(3, Len(sealB[3]) + 1))
    BY <1>0, <2>1, ReplyLeaves DEF IInv
  <2>3. ~WritesF(3)'
    BY <2>2, WriteForms DEF WritesF
  <2> QED BY SMTT(30), <1>0, <2>1, <2>3 DEF ExitMove, DestLink, DestOpen
<1> QED BY <1>2, <1>3, <1>4, <1>5

\* Every step of the exit.
LEMMA ExitMoves ==
  ASSUME IInv, DestLink, RelayStep(3)
  PROVE  ExitMove /\ DestLink'
<1>f. ASSUME Fail(3) PROVE ExitMove /\ DestLink'
  BY <1>f, ExitEndsMove DEF Fail
<1>t. 3 \in Hops /\ 3 \in Parties /\ openF[3] \in Nat
      /\ pc \in [Parties -> PCs] /\ out \in [Parties -> Seq(Write)]
  BY HopSets DEF IInv, TypeOK
<1>1. CASE handle_connection(3)
  <2>1. CASE RelayEnds(3)
    BY <1>1, <2>1, ExitEndsMove DEF handle_connection
  <2>2. CASE ~RelayEnds(3)
    <3>1. /\ pc[3] = "hello" /\ pc'[3] = "handshake"
          /\ UNCHANGED <<out, dest, openF, destSent, destGot>>
      BY <1>t, <1>1, <2>2 DEF handle_connection, At
    <3> QED BY <3>1 DEF ExitMove, DestLink, DestOpen, WritesF
  <2> QED BY <2>1, <2>2
<1>2. CASE presentation_timeout(3)
  BY <1>2, ExitEndsMove DEF presentation_timeout
<1>3. CASE drive_circuit(3)
  <2>1. CASE ~Fail(3)
    <3>1. /\ pc[3] = "handshake" /\ pc'[3] = "select" /\ out'[3] = Bwd(Hs)
          /\ UNCHANGED <<dest, openF, destSent, destGot>>
      BY <1>t, <1>3, <2>1 DEF drive_circuit, At, relayVars
    <3>2. ~WritesF(3)'
      BY <3>1, WriteForms DEF WritesF
    <3> QED BY <3>1, <3>2 DEF ExitMove, DestLink, DestOpen
  <2> QED BY <1>f, <2>1
<1>4. CASE run_inbound(3)
  BY <1>4, ExitInbound
<1>5. CASE run_inbound_error(3) \/ cell_read_timeout(3) \/ RelayWriteFails(3)
  BY <1>f, <1>5 DEF run_inbound_error, cell_read_timeout, RelayWriteFails
<1>6. CASE run_next(3) \/ RelayWritesOn(3)
  BY SMTT(30), <1>6 DEF run_next, HasNext, RelayWritesOn
<1>7. CASE RelayWritesBack(3)
  <2>1. out'[3] = <<>> /\ UNCHANGED <<pc, dest, openF, destSent, destGot>>
    BY <1>t, <1>7 DEF RelayWritesBack
  <2> QED BY <2>1 DEF ExitMove, DestLink, DestOpen, WritesF
<1>8. CASE close(3)
  BY <1>8, ExitEndsMove DEF close
<1>9. CASE run_dest
  <2>0. pc[3] = "select" /\ out[3] = <<>> /\ dest = "up"
    BY <1>9 DEF run_dest, At
  <2>1. CASE destSent' = destSent + 1 /\ ReplyWith(3, ToMe("Data", destSent + 1))
             /\ UNCHANGED <<pc, openF, dest, destGot>>
    <3>1. out'[3] = Bwd(Sealed(3, Len(sealB[3]) + 1))
      BY <1>t, <2>1, ReplyLeaves DEF IInv
    <3>2. ~WritesF(3)'
      BY <3>1, WriteForms DEF WritesF
    <3> QED BY <2>0, <2>1, <3>2 DEF ExitMove, DestLink, DestOpen
  <2>2. CASE dest' = "eof" /\ UNCHANGED <<pc, out, openF, destSent, destGot>>
    BY <2>0, <2>2 DEF ExitMove, DestLink, DestOpen, WritesF
  <2> QED BY <1>f, <1>9, <2>1, <2>2 DEF run_dest
<1>10. CASE DestTakes
  <2>1. CASE ~Fail(3)
    <3>1. /\ destGot' = Append(destGot, out[3][1].frame.n) /\ WritesF(3)
          /\ out'[3] = <<>> /\ UNCHANGED <<pc, openF, dest, destSent>>
      BY <1>t, <1>10, <2>1 DEF DestTakes, WritesF
    <3>2. /\ pc[3] = "select" /\ dest = "up"
          /\ out[3][1].frame.n = Len(destGot) + 1 /\ Len(destGot) < userSent
      BY <3>1 DEF IInv, ExitProgress, DestLink
    <3> QED BY <3>1, <3>2 DEF ExitMove, DestLink, DestOpen, WritesF
  <2> QED BY <1>f, <2>1
<1> QED BY SMTT(30), <1>1, <1>2, <1>3, <1>4, <1>5, <1>6, <1>7, <1>8, <1>9, <1>10
        DEF RelayStep, Relay, Exit

\* No other relay touches dest_link.
LEMMA InnerDest ==
  ASSUME IInv, NEW h \in 1..2, RelayStep(h)
  PROVE  dest' = dest
<1>1. h # 3 /\ h < 3 /\ h \in Hops
  BY SMT, HopSets
<1>2. ASSUME RelayEnds(h) PROVE dest' = dest
  BY <1>1, <1>2 DEF RelayEnds
<1>3. ASSUME run_inbound(h) PROVE dest' = dest
  <2>1. PlainF(h, Head(fwd[h])).type # "Connect"
    BY <1>1, <1>3 DEF run_inbound, Legal
  <2> QED BY <1>3, <2>1 DEF run_inbound
<1>4. ASSUME Fail(h) PROVE dest' = dest
  BY <1>2, <1>4 DEF Fail
<1> QED BY <1>1, <1>2, <1>3, <1>4 DEF RelayStep, Relay, handle_connection, presentation_timeout,
        drive_circuit, run_inbound_error, cell_read_timeout, run_next, RelayWritesBack,
        RelayWritesOn, RelayWriteFails, close, open_next_link, open_next_link_error, relayVars

(***************************************************************************)
(* The refinement.                                                         *)
(***************************************************************************)
PipeMove == [Pipe!Next]_<<UserOpen, DestOpen, userSent, destSent, userGot, destGot>>

\* The two ends as Booleans, and the two closing steps.
LEMMA Ends ==
  /\ UserOpen \in BOOLEAN /\ DestOpen \in BOOLEAN
  /\ UserOpen' \in BOOLEAN /\ DestOpen' \in BOOLEAN
BY SMT DEF UserOpen, DestOpen

\* A step that only closes the user's end is a step of the pipe, or none.
LEMMA UserShuts ==
  ASSUME ~UserOpen', DestOpen' = DestOpen, UNCHANGED <<userSent, destSent, userGot, destGot>>
  PROVE  PipeMove
<1>1. CASE UserOpen
  <2>1. UserOpen' = FALSE
    BY SMT DEF UserOpen
  <2> QED BY <1>1, <2>1 DEF PipeMove, Pipe!Next, Pipe!UserCloses
<1>2. CASE ~UserOpen
  <2>1. UserOpen' = UserOpen
    BY <1>2, Ends
  <2> QED BY <2>1 DEF PipeMove
<1> QED BY <1>1, <1>2

\* A step that only closes the destination's end is a step of the pipe, or none.
LEMMA DestShuts ==
  ASSUME DestOpen' => DestOpen, UserOpen' = UserOpen,
         UNCHANGED <<userSent, destSent, userGot, destGot>>
  PROVE  PipeMove
<1>1. CASE DestOpen /\ ~DestOpen'
  <2>1. DestOpen' = FALSE
    BY <1>1 DEF DestOpen
  <2> QED BY <1>1, <2>1 DEF PipeMove, Pipe!Next, Pipe!DestCloses
<1>2. CASE ~(DestOpen /\ ~DestOpen')
  <2>1. DestOpen' = DestOpen
    BY <1>2, Ends
  <2> QED BY <2>1 DEF PipeMove
<1> QED BY <1>1, <1>2

\* Leaving the loop of circuit_task closes the user's end and no more.
LEMMA BreakPipe ==
  ASSUME IInv, Break, pc[0] = "open", UNCHANGED <<userSent, destSent, userGot, destGot, dest>>
  PROVE  PipeMove
<1>1. pc'[0] = "closing" /\ pc'[3] = pc[3]
  BY BreakLeaves, HopSets DEF IInv
<1>2. UserOpen /\ ~UserOpen' /\ DestOpen' = DestOpen
  BY <1>1 DEF UserOpen, DestOpen
<1> QED BY <1>2, UserShuts

\* A client that ends closes the user's end.
LEMMA ClientEndsPipe ==
  ASSUME IInv, ClientEnds
  PROVE  PipeMove
<1>1. pc'[0] = "ended" /\ pc'[3] = pc[3] /\ UNCHANGED <<userSent, destSent, userGot, destGot, dest>>
  BY HopSets DEF ClientEnds, IInv, TypeOK, relayVars, clientVars
<1>2. ~UserOpen' /\ DestOpen' = DestOpen
  BY <1>1 DEF UserOpen, DestOpen
<1> QED BY <1>1, <1>2, UserShuts

\* The client's steps.
LEMMA ClientPipe ==
  ASSUME IInv, Client
  PROVE  PipeMove
<1>0. ClientLeaves
  BY ClientFrame DEF IInv
<1>1. pc'[3] = pc[3] /\ UNCHANGED <<dest, destSent, destGot>> /\ DestOpen' = DestOpen
  BY SMTT(30), <1>0 DEF ClientLeaves, relayVars, DestOpen
<1>t. /\ pc \in [Parties -> PCs] /\ out \in [Parties -> Seq(Write)] /\ 0 \in Parties
      /\ pc[0] \in {"start", "wait", "open", "closing", "ended"}
  BY HopSets DEF IInv, TypeOK, ExitStream
<1>s. ASSUME UNCHANGED <<userSent, userGot>>, UserOpen' = UserOpen
      PROVE  PipeMove
  BY <1>1, <1>s DEF PipeMove
<1>2. CASE dial
  <2>1. CASE ~ClientEnds
    <3>1. pc[0] = "start" /\ pc'[0] = "wait" /\ UNCHANGED <<userSent, userGot>>
      BY SMTT(30), <1>t, <1>2, <2>1 DEF dial, At, clientVars
    <3> QED BY SMTT(30), <1>s, <3>1 DEF UserOpen
  <2> QED BY <2>1, ClientEndsPipe
<1>3. CASE extend_hop
  BY <1>s, <1>3 DEF extend_hop, UserOpen
<1>4. CASE dial_error
  BY <1>4, ClientEndsPipe DEF dial_error
<1>5. CASE circuit_task_user
  <2>1. pc[0] = "open" /\ UNCHANGED userGot
    BY <1>5 DEF circuit_task_user, At
  <2>2. CASE userSent' = userSent + 1 /\ UNCHANGED pc
    <3>1. UserOpen /\ UserOpen' = UserOpen
      BY <2>1, <2>2 DEF UserOpen
    <3> QED BY <1>1, <2>1, <2>2, <3>1 DEF PipeMove, Pipe!Next, Pipe!UserWrites
  <2>3. CASE Break /\ UNCHANGED userSent
    BY <1>1, <2>1, <2>3, BreakPipe
  <2> QED BY <1>5, <2>2, <2>3 DEF circuit_task_user
<1>6. CASE circuit_task_inbound
  <2>1. pc[0] = "open" /\ UNCHANGED <<userSent, userGot>> /\ (UNCHANGED pc \/ Break)
    BY <1>6 DEF circuit_task_inbound, At
  <2>2. CASE UNCHANGED pc
    BY <1>s, <2>1, <2>2 DEF UserOpen
  <2> QED BY <1>1, <2>1, <2>2, BreakPipe
<1>7. CASE circuit_task_eof
  BY <1>1, <1>7, BreakPipe DEF circuit_task_eof, At
<1>8. CASE ClientWrites
  <2>1. out[0] # <<>> /\ UNCHANGED <<userSent, userGot>>
    BY <1>8 DEF ClientWrites, clientVars
  <2>2. pc[0] \notin {"start", "ended"}
    BY <2>1 DEF IInv, ExitStream
  <2>3. CASE pc[0] = "closing"
    <3>1. pc'[0] = "ended"
      BY <1>t, <1>8, <2>3 DEF ClientWrites
    <3> QED BY SMTT(30), <1>s, <2>1, <2>3, <3>1 DEF UserOpen
  <2>4. CASE pc[0] # "closing"
    <3>1. pc'[0] \in {"open", "wait"}
      BY <1>t, <1>8, <2>4 DEF ClientWrites
    <3> QED BY SMTT(30), <1>s, <1>t, <2>1, <2>2, <2>4, <3>1 DEF UserOpen
  <2> QED BY <2>3, <2>4
<1>9. CASE ClientWriteFails
  <2>1. ClientEnds \/ (pc[0] = "open" /\ Break /\ UNCHANGED <<userSent, userGot>>)
    BY <1>9 DEF ClientWriteFails
  <2> QED BY <1>1, <2>1, BreakPipe, ClientEndsPipe
<1>10. CASE UserTakes
  <2>1. WritesB(0) /\ UNCHANGED userSent
    BY <1>10 DEF UserTakes, WritesB
  <2>2. pc[0] = "open" /\ out[0][1].frame.n = Len(userGot) + 1 /\ Len(userGot) < destSent
    BY <2>1 DEF IInv, ExitStream, UserProgress
  <2>3. CASE userGot' = Append(userGot, out[0][1].frame.n) /\ UNCHANGED pc
    <3>1. UserOpen /\ UserOpen' = UserOpen
      BY <2>2, <2>3 DEF UserOpen
    <3> QED BY <1>1, <2>1, <2>2, <2>3, <3>1 DEF PipeMove, Pipe!Next, Pipe!UserReceives
  <2>4. CASE Break /\ UNCHANGED userGot
    BY <1>1, <2>1, <2>2, <2>4, BreakPipe
  <2> QED BY <1>10, <2>3, <2>4 DEF UserTakes
<1> QED BY <1>2, <1>3, <1>4, <1>5, <1>6, <1>7, <1>8, <1>9, <1>10 DEF Client

\* A relay's steps; only the exit's show outside.
LEMMA RelayPipe ==
  ASSUME IInv, DestLink, NEW h \in Hops, RelayStep(h)
  PROVE  PipeMove /\ DestLink'
<1>1. RelayLeaves(h)
  BY RelayFrame DEF IInv
<1>2. UNCHANGED <<userSent, userGot>> /\ UserOpen' = UserOpen
  BY <1>1 DEF RelayLeaves, clientVars, UserOpen
<1>3. CASE h = 3
  <2>1. ExitMove /\ DestLink'
    BY <1>3, ExitMoves
  <2>2. CASE UNCHANGED <<destSent, destGot>> /\ (DestOpen' => DestOpen)
    BY <1>2, <2>1, <2>2, DestShuts
  <2>3. CASE DestOpen /\ DestOpen'
    <3>1. DestOpen' = DestOpen
      BY <2>3, Ends
    <3>2. CASE destSent' = destSent + 1 /\ UNCHANGED destGot
      BY <1>2, <2>1, <2>3, <3>1, <3>2 DEF PipeMove, Pipe!Next, Pipe!DestWrites
    <3>3. CASE /\ UNCHANGED destSent /\ Len(destGot) < userSent
               /\ destGot' = Append(destGot, Len(destGot) + 1)
      BY <1>2, <2>1, <2>3, <3>1, <3>3 DEF PipeMove, Pipe!Next, Pipe!DestReceives
    <3>4. CASE UNCHANGED <<destSent, destGot>>
      BY <1>2, <2>1, <3>1, <3>4 DEF PipeMove
    <3> QED BY <2>1, <3>2, <3>3, <3>4 DEF ExitMove
  <2> QED BY <2>1, <2>2, <2>3 DEF ExitMove
<1>4. CASE h \in 1..2
  <2>1. dest' = dest /\ UNCHANGED <<destSent, destGot>> /\ h # 3
    BY SMTT(30), <1>1, <1>4, InnerDest DEF RelayLeaves
  <2>2. out'[3] = out[3] /\ openF'[3] = openF[3]
    BY <1>1, <2>1, HopSets DEF RelayLeaves
  <2>3. pc'[3] = pc[3] \/ (pc[3] = "idle" /\ pc'[3] = "hello")
    <3> SUFFICES ASSUME pc'[3] # pc[3] PROVE pc[3] = "idle" /\ pc'[3] = "hello"
      BY SMT
    <3>1. 3 = h + 1 /\ pc[h] = "select" /\ ~near[3] /\ pc'[3] = "hello"
      BY <1>1, <2>1, HopSets DEF RelayLeaves
    <3>2. pc[h + 1] = "idle"
      BY <1>4, <3>1 DEF IInv, HopOrder
    <3> QED BY <3>1, <3>2
  <2>4. DestOpen' = DestOpen
    BY <2>1, <2>3 DEF DestOpen
  <2> QED BY <1>2, <2>1, <2>2, <2>4 DEF PipeMove, DestLink, WritesF
<1> QED BY <1>3, <1>4, HopSets

\* Faults: a crash may close an end, damage shows at neither.
LEMMA FaultPipe ==
  ASSUME IInv, DestLink, (\E l \in Hops : Damage(l)) \/ (\E p \in Parties : Crash(p))
  PROVE  PipeMove /\ DestLink'
<1>t. /\ pc \in [Parties -> PCs] /\ out \in [Parties -> Seq(Write)]
      /\ 0 \in Parties /\ 3 \in Parties
  BY HopSets DEF IInv, TypeOK
<1>1. CASE \E l \in Hops : Damage(l)
  <2>1. UNCHANGED <<pc, out, dest, openF, userSent, destSent, userGot, destGot>>
    BY <1>1 DEF Damage, relayVars, clientVars
  <2> QED BY <2>1 DEF PipeMove, DestLink, WritesF, UserOpen, DestOpen
<1>2. ASSUME NEW p \in Parties, Crash(p) PROVE PipeMove /\ DestLink'
  <2>1. UNCHANGED <<openF, userSent, destSent, userGot, destGot>>
    BY <1>2 DEF Crash, clientVars
  <2>2. CASE p = 0
    <3>1. pc'[0] = "ended" /\ pc'[3] = pc[3] /\ out'[3] = out[3] /\ dest' = dest
      BY SMTT(30), <1>t, <1>2, <2>2 DEF Crash
    <3>2. ~UserOpen' /\ DestOpen' = DestOpen
      BY <3>1 DEF UserOpen, DestOpen
    <3> QED BY <2>1, <3>1, <3>2, UserShuts DEF DestLink, WritesF
  <2>3. CASE p # 0
    <3>1. RelayEnds(p) /\ p \in Hops
      <4>1. p \in Hops
        BY SMTT(30), <1>2, <2>3 DEF Parties, Hops
      <4> QED BY <1>2, <2>3, <4>1 DEF Crash
    <3>2. pc'[p] = "ended" /\ (\A k \in Parties : k # p => pc'[k] = pc[k] /\ out'[k] = out[k])
      BY <1>t, <3>1 DEF RelayEnds
    <3>3. UserOpen' = UserOpen
      BY <1>t, <2>3, <3>2 DEF UserOpen
    <3>4. CASE p = 3
      <4>1. ExitMove /\ DestLink' /\ ~DestOpen'
        BY <2>1, <3>1, <3>2, <3>4, ExitEndsMove DEF DestOpen
      <4> QED BY <2>1, <3>3, <4>1, DestShuts
    <3>5. CASE p # 3
      <4>1. dest' = dest /\ pc'[3] = pc[3] /\ out'[3] = out[3]
        BY <1>t, <3>1, <3>2, <3>5 DEF RelayEnds
      <4>2. DestOpen' = DestOpen
        BY <4>1 DEF DestOpen
      <4> QED BY <2>1, <3>3, <4>1, <4>2 DEF PipeMove, DestLink, WritesF
    <3> QED BY <3>4, <3>5
  <2> QED BY <2>2, <2>3
<1> QED BY <1>1, <1>2

\* Every step of the circuit is a step of the pipe, or none.
LEMMA StepPipe ==
  ASSUME IInv, DestLink, [Next]_vars
  PROVE  PipeMove /\ DestLink'
<1>1. CASE Client
  <2>1. ClientLeaves
    BY <1>1, ClientFrame DEF IInv
  <2>2. DestLink'
    BY <2>1, HopSets DEF ClientLeaves, relayVars, DestLink, WritesF
  <2> QED BY <1>1, <2>2, ClientPipe
<1>2. CASE \E h \in Hops : Relay(h)
  BY <1>2, RelayPipe DEF RelayStep
<1>3. CASE \E h \in {1, 2} : open_next_link(h) \/ open_next_link_error(h)
  <2>1. PICK h \in {1, 2} : open_next_link(h) \/ open_next_link_error(h)
    BY <1>3
  <2>2. h \in Hops /\ h < 3
    BY SMT DEF Hops
  <2> QED BY <2>1, <2>2, RelayPipe DEF RelayStep
<1>4. CASE Exit
  BY <1>4, HopSets, RelayPipe DEF RelayStep
<1>5. CASE (\E l \in Hops : Damage(l)) \/ (\E p \in Parties : Crash(p))
  BY <1>5, FaultPipe
<1>6. CASE UNCHANGED vars
  <2>1. UNCHANGED <<pc, out, dest, openF, userSent, destSent, userGot, destGot>>
    BY <1>6 DEF vars, relayVars, clientVars
  <2> QED BY <2>1 DEF PipeMove, DestLink, WritesF, UserOpen, DestOpen
<1> QED BY <1>1, <1>2, <1>3, <1>4, <1>5, <1>6 DEF Next, Terminated

\* For any number of chunks and faults and any link capacity, what the user
\* and the destination see of a circuit is a behaviour of Tunnel: bytes in
\* order, none after an end closed, and no end reopened.
THEOREM CircuitIsTunnel == Spec => ImplementsTunnel
<1>1. Init => Pipe!Init /\ DestLink
  <2> SUFFICES ASSUME Init PROVE Pipe!Init /\ DestLink
    BY SMT
  <2>1. pc[0] = "start" /\ pc[3] = "idle" /\ out[3] = <<>>
    BY HopSets DEF Init
  <2> QED BY <2>1 DEF Init, Pipe!Init, UserOpen, DestOpen, DestLink, WritesF
<1>2. IInv /\ DestLink /\ [Next]_vars =>
        [Pipe!Next]_<<UserOpen, DestOpen, userSent, destSent, userGot, destGot>> /\ DestLink'
  BY StepPipe DEF PipeMove
<1>3. Pipe!tunnelVars = <<UserOpen, DestOpen, userSent, destSent, userGot, destGot>>
  BY DEF Pipe!tunnelVars
<1>4. IInv /\ DestLink /\ [Next]_vars => [Pipe!Next]_(Pipe!tunnelVars) /\ DestLink'
  BY <1>2 DEF Pipe!tunnelVars
<1> QED BY <1>1, <1>4, InvInit, InvNext, PTL DEF Spec, ImplementsTunnel, Pipe!Spec

(***************************************************************************)
(* The counters of every two ends agree.                                   *)
(***************************************************************************)

\* For any number of chunks and any link capacity: until a frame is damaged
\* or a process dies, every frame a relay's select loop or the client's
\* circuit_task meets opens at the next counter (layer::peel,
\* Layers::peel_inbound).
THEOREM CountersInStep == Spec => []CountersAgree
<1>1. Init => CounterInv /\ DestLink
  <2>1. Init => DestLink
    <3> SUFFICES ASSUME Init PROVE DestLink
      BY SMT
    <3>1. pc[3] = "idle" /\ out[3] = <<>>
      BY HopSets DEF Init
    <3> QED BY <3>1 DEF Init, DestLink, WritesF
  <2> QED BY <2>1, CounterInit
<1>2. IInv /\ CounterInv /\ DestLink /\ [Next]_vars => CounterInv' /\ DestLink'
  BY CounterNext, StepPipe
<1>3. IInv /\ CounterInv => CountersAgree
  <2> SUFFICES ASSUME IInv, InStep
               PROVE  /\ \A h \in Hops : pc[h] = "select" /\ fwd[h] # <<>> => OpensF(h, Head(fwd[h]))
                      /\ pc[0] = "open" /\ bwd[1] # <<>> => PeelDepth(Head(bwd[1])) = 3
    BY DEF CounterInv, CountersAgree
  <2>1. ASSUME NEW h \in Hops, pc[h] = "select", fwd[h] # <<>> PROVE OpensF(h, Head(fwd[h]))
    <3>1. Run(fwd[h], h, openF[h])
      BY <2>1 DEF InStep, Link, InStepF, Serves
    <3>2. fwd[h] \in Seq(Frame) /\ h \in Nat /\ openF[h] \in Int
      BY SMTT(30), HopSets DEF IInv, TypeOK
    <3> QED BY <2>1, <3>1, <3>2, RunTail DEF OpensF
  <2> QED BY <2>1, PeelsAll
<1> QED BY <1>1, <1>2, <1>3, InvInit, InvNext, PTL DEF Spec
=============================================================================
