------------------------- MODULE OnionCircuitProofs -------------------------
(***************************************************************************)
(* Theorems about OnionCircuit, for any number of chunks, any link         *)
(* capacity and any number of faults.  The relays' steps keep the two      *)
(* streams of OnionCircuitTypes, as the client's do, and every frame in    *)
(* circulation names a counter already used.                               *)
(***************************************************************************)
EXTENDS OnionCircuitTypes

\* Zenon proves what names no other prover.
USE ZenonT(60)

(***************************************************************************)
(* What a relay's step keeps.                                              *)
(***************************************************************************)

\* The client's side of the invariant and the order of the hops.
LEMMA RelayKeepsClient ==
  ASSUME IInv, NEW h \in Hops, RelayLeaves(h)
  PROVE  ExitStream' /\ UserProgress' /\ HopOrder'
<1> USE DEF IInv
<1>1. ExitStream'
  BY DEF ExitStream, RelayLeaves, clientVars, WritesF, WritesB
<1>2. destSent \in Nat /\ destSent' \in Nat /\ destSent' >= destSent /\ Len(userGot) \in Nat
  <2>1. destSent \in Nat /\ Len(userGot) \in Nat
    BY SMT DEF TypeOK
  <2>2. destSent' = destSent \/ destSent' = destSent + 1
    BY DEF RelayLeaves
  <2> QED BY SMTT(30), <2>1, <2>2
<1>3. BackwardInOrder'
  BY SMTT(60), <1>2 DEF UserProgress, BackwardInOrder, InOrder, RelayLeaves, clientVars
<1>4. UserProgress'
  BY SMTT(60), <1>2, <1>3 DEF UserProgress, RelayLeaves, clientVars, WritesB
<1>5. (pc[0] = "start" => pc[1] = "idle")'
  <2>1. ASSUME pc'[0] = "start"
        PROVE  pc'[1] = "idle"
    <3>1. pc[0] = "start" /\ pc[1] = "idle"
      BY <2>1 DEF RelayLeaves, HopOrder
    <3>2. h # 1 /\ 1 # h + 1
      BY SMTT(60), <3>1, HopSets DEF RelayLeaves
    <3> QED BY <3>1, <3>2, HopSets DEF RelayLeaves
  <2> QED BY <2>1
<1>6. ASSUME NEW k \in 1..2,
             pc'[k] \in PreCircuit \/ (pc'[k] \in {"select", "dial"} /\ ~near'[k + 1])
      PROVE  pc'[k + 1] = "idle"
  <2>0. k \in Hops /\ k + 1 \in Hops /\ k # k + 1
    BY SMT DEF Hops
  <2>1. CASE k = h
    <3>1. pc[h] \in PreCircuit \/ (pc[h] \in {"select", "dial"} /\ ~near[h + 1])
      BY SMTT(60), <1>6, <2>1 DEF RelayLeaves, Moves, PreCircuit
    <3>2. pc[k + 1] = "idle"
      BY <2>1, <3>1 DEF HopOrder, PreCircuit
    <3>3. CASE pc'[h + 1] = "hello" /\ pc[h] = "select" /\ pc'[h] = "dial"
      BY <1>6, <2>1, <3>3 DEF RelayLeaves, Moves, PreCircuit
    <3> QED BY <2>0, <2>1, <3>2, <3>3 DEF RelayLeaves
  <2>2. CASE k # h /\ k # h + 1
    <3>1. pc'[k] = pc[k]
      BY <2>0, <2>2 DEF RelayLeaves
    <3>2. near'[k + 1] = near[k + 1]
      BY SMTT(30), <2>0, <2>2, HopSets DEF RelayLeaves
    <3>3. pc[k + 1] = "idle"
      BY <1>6, <3>1, <3>2 DEF HopOrder, PreCircuit
    <3>4. k + 1 # h
      BY <3>3 DEF RelayLeaves
    <3>5. k + 1 # h + 1
      BY SMT, <2>2, HopSets
    <3> QED BY <2>0, <3>3, <3>4, <3>5 DEF RelayLeaves
  <2>3. CASE k = h + 1
    <3>0. k # h /\ h \in 1..2 /\ k + 1 # h /\ k + 1 # h + 1
      BY SMTT(30), <2>3, HopSets
    <3>1. pc'[k + 1] = pc[k + 1] /\ near'[k + 1] = near[k + 1]
      BY <2>0, <3>0 DEF RelayLeaves
    <3>2. pc'[k] = pc[k] \/ (pc[h] = "select" /\ ~near[k])
      BY <2>0, <3>0 DEF RelayLeaves
    <3>3. CASE pc[h] = "select" /\ ~near[k]
      <4>1. pc[k] = "idle"
        BY <2>3, <3>0, <3>3 DEF HopOrder
      <4> QED BY <3>1, <4>1 DEF HopOrder
    <3>4. CASE pc'[k] = pc[k]
      BY <1>6, <3>1, <3>4 DEF HopOrder, PreCircuit
    <3> QED BY <3>2, <3>3, <3>4
  <2> QED BY <2>1, <2>2, <2>3
<1>7. HopOrder'
  BY <1>5, <1>6 DEF HopOrder, PreCircuit
<1> QED BY <1>1, <1>4, <1>7

\* The hops before their circuit have opened and written nothing.
LEMMA RelayKeepsPre ==
  ASSUME IInv, NEW h \in Hops, RelayLeaves(h)
  PROVE  \A k \in Hops : (pc[k] \in {"idle", "hello", "handshake"} => openF[k] = 0 /\ out[k] = <<>>)'
<1> USE DEF IInv
<1>1. ASSUME NEW k \in Hops, pc'[k] \in PreCircuit
      PROVE  openF'[k] = 0 /\ out'[k] = <<>>
  <2>1. CASE k = h
    BY <1>1, <2>1 DEF RelayLeaves, Moves, PreCircuit, ExitProgress
  <2>2. CASE k # h
    <3>1. out'[k] = out[k] /\ openF'[k] = openF[k]
      BY <2>2 DEF RelayLeaves
    <3>2. pc[k] \in PreCircuit
      <4>1. CASE pc'[k] = pc[k]
        BY <1>1, <4>1
      <4>2. CASE k = h + 1 /\ pc[h] = "select" /\ ~near[k]
        <5>1. h \in 1..2
          BY SMT, <4>2 DEF Hops
        <5>2. pc[h + 1] = "idle"
          BY <4>2, <5>1 DEF HopOrder
        <5> QED BY <4>2, <5>2 DEF PreCircuit
      <4> QED BY <2>2, <4>1, <4>2 DEF RelayLeaves
    <3> QED BY <3>1, <3>2 DEF ExitProgress, PreCircuit
  <2> QED BY <2>1, <2>2
<1> QED BY <1>1 DEF PreCircuit

\* A step of the guard or the middle does not touch the exit's streams.
LEMMA InnerKeepsExit ==
  ASSUME IInv, NEW h \in 1..2, RelayLeaves(h)
  PROVE  ExitProgress' /\ UserStream'
<1> USE DEF IInv
<1>0. h \in Hops /\ h # 3 /\ 3 \in Hops
  BY SMT DEF Hops
<1>1. /\ out'[3] = out[3] /\ openF'[3] = openF[3] /\ sealB'[3] = sealB[3]
      /\ UNCHANGED <<destSent, destGot, userSent>>
  BY <1>0 DEF RelayLeaves, clientVars
<1>2. pc'[3] = pc[3] \/ (pc[3] = "idle" /\ pc'[3] = "hello")
  <2>1. CASE 3 = h + 1 /\ pc[h] = "select" /\ ~near[3] /\ pc'[3] = "hello"
    BY <2>1 DEF HopOrder
  <2> QED BY <1>0, <2>1 DEF RelayLeaves
<1>3. ForwardInOrder'
  BY <1>1 DEF ExitProgress, ForwardInOrder, InOrder
<1>4. pc[3] = "idle" => out[3] = <<>>
  BY <1>0 DEF ExitProgress
<1>5. ExitProgress'
  BY <1>0, <1>1, <1>2, <1>3, <1>4, RelayKeepsPre DEF ExitProgress, WritesF
<1>6. UserStream'
  BY <1>1, <1>2 DEF UserStream
<1> QED BY <1>5, <1>6

(***************************************************************************)
(* The exit: what it opens is the client's stream, in order.               *)
(***************************************************************************)
\* A frame the exit opens is the next of the client's stream, and what it does
\* with it keeps both streams in order.
LEMMA ExitOpens ==
  ASSUME IInv, run_inbound(3)
  PROVE  ExitProgress' /\ UserStream'
<1> USE DEF IInv
<1> DEFINE p == PlainF(3, Head(fwd[3]))
<1>0. /\ pc[3] = "select" /\ out[3] = <<>> /\ fwd[3] # <<>>
      /\ Legal(3, Head(fwd[3])) /\ OpensF(3, Head(fwd[3]))
      /\ UNCHANGED <<destSent, destGot, clientVars>>
  BY DEF run_inbound, At, RelayReads, Legal
<1>1. PICK n : n = openF[3] + 1
  BY SMT
<1>2. n \in 1..Len(sealF[3]) /\ p = sealF[3][n]
  BY <1>0, <1>1, OpensKnown, HopSets
<1>3. p = IF n = 1 THEN ToMe("Connect", 0)
          ELSE IF n <= userSent + 1 THEN ToMe("Data", n - 1)
          ELSE ToMe("CloseRequest", 0)
  BY <1>2 DEF ExitStream
<1>4. openF'[3] = n
  BY <1>1, HopSets DEF run_inbound, TypeOK
<1>5. RelayLeaves(3)
  BY HopSets, InboundLeaves
<1>6. ForwardInOrder'
  BY <1>0 DEF ExitProgress, ForwardInOrder, InOrder, clientVars
<1>7. Len(destGot) \in Nat /\ userSent \in Nat /\ openF[3] \in Nat /\ n \in Nat
  <2>1. Len(destGot) \in Nat /\ userSent \in Nat /\ openF[3] \in Nat
    BY SMTT(30), HopSets DEF TypeOK
  <2> QED BY SMTT(30), <1>1, <2>1
<1>8. openF[3] = Len(destGot) + 1 \/ (openF[3] = 0 /\ destGot = <<>>)
  BY <1>0 DEF ExitProgress, WritesF
<1>9. Len(sealB[3]) = destSent
  BY <1>0 DEF UserStream
<1>10. CASE n = 1
  <2>1. p.type = "Connect"
    BY SMTT(30), <1>3, <1>10 DEF ToMe
  <2>2. pc'[3] = "select" /\ out'[3] = <<>> /\ sealB' = sealB
    BY <1>0, <2>1 DEF run_inbound
  <2>3. ~WritesF(3)'
    BY <2>2 DEF WritesF
  <2>4. openF'[3] = Len(destGot') + 1
    <3>1. destGot = <<>>
      BY SMTT(30), <1>1, <1>7, <1>8, <1>10
    <3> QED BY SMTT(30), <1>0, <1>4, <1>10, <3>1
  <2>5. ExitProgress'
    BY <1>0, <1>5, <1>6, <2>2, <2>3, <2>4, HopSets, RelayKeepsPre DEF ExitProgress
  <2>6. UserStream'
    BY <1>0, <2>2 DEF UserStream
  <2> QED BY <2>5, <2>6
<1>11. CASE n # 1 /\ n <= userSent + 1
  <2>1. p.type = "Data" /\ p.arg = n - 1
    BY SMTT(30), <1>3, <1>11 DEF ToMe
  <2>2. pc'[3] = "select" /\ out'[3] = Fwd(Bytes(n - 1)) /\ sealB' = sealB
    <3>1. pc' = pc /\ sealB' = sealB /\ out' = [out EXCEPT ![3] = Fwd(Bytes(n - 1))]
      BY <2>1 DEF run_inbound
    <3> QED BY <1>0, <3>1, HopSets DEF TypeOK
  <2>3. WritesF(3)' /\ out'[3][1].frame.n = n - 1
    BY SMT, <2>2 DEF WritesF, Fwd, Bytes
  <2>4. n = Len(destGot) + 2 /\ n - 1 = Len(destGot) + 1 /\ Len(destGot) < userSent
    BY SMTT(30), <1>1, <1>7, <1>8, <1>11
  <2>5. ExitProgress'
    BY <1>0, <1>4, <1>5, <1>6, <2>2, <2>3, <2>4, HopSets, RelayKeepsPre DEF ExitProgress, clientVars
  <2>6. UserStream'
    BY <1>0, <2>2 DEF UserStream
  <2> QED BY <2>5, <2>6
<1>12. CASE n # 1 /\ ~(n <= userSent + 1)
  <2>1. p.type = "CloseRequest"
    BY SMTT(30), <1>3, <1>12 DEF ToMe
  <2>2. ReplyWith(3, ToMe("CloseAck", 0)) /\ pc' = [pc EXCEPT ![3] = "closing"]
    BY <2>1 DEF run_inbound
  <2>3. pc'[3] = "closing"
    BY <2>2, HopSets DEF TypeOK
  <2>4. /\ out'[3] = Bwd(Sealed(3, Len(sealB[3]) + 1))
        /\ sealB'[3] = Append(sealB[3], ToMe("CloseAck", 0))
    BY <2>2, HopSets, ReplyLeaves
  <2>5. ~WritesF(3)'
    BY <2>4, WriteForms DEF WritesF
  <2>6. ExitProgress'
    BY <1>5, <1>6, <2>3, <2>5, HopSets, RelayKeepsPre DEF ExitProgress
  <2>7. sealB[3] \in Seq(Plain) /\ destSent \in Nat
    BY HopSets DEF TypeOK
  <2>8. Len(sealB'[3]) = destSent + 1 /\ \A i \in 1..Len(sealB'[3]) :
           sealB'[3][i] = IF i <= destSent THEN ToMe("Data", i) ELSE ToMe("CloseAck", 0)
    <3>1. \A i \in 1..destSent : sealB[3][i] = ToMe("Data", i)
      BY SMTT(30), <1>9, <2>7 DEF UserStream
    <3>2. /\ Len(sealB'[3]) = destSent + 1 /\ sealB'[3][destSent + 1] = ToMe("CloseAck", 0)
          /\ \A i \in 1..destSent : sealB'[3][i] = ToMe("Data", i)
      BY SMTT(30), <1>9, <2>4, <2>7, <3>1, OneMoreCell
    <3> QED BY SMTT(60), <2>7, <3>2
  <2>9. UserStream'
    BY SMTT(30), <1>0, <2>3, <2>7, <2>8 DEF UserStream
  <2> QED BY <2>6, <2>9
<1> QED BY <1>10, <1>11, <1>12

\* A step of the exit after which it is no longer in the loop.
LEMMA ExitEnds ==
  ASSUME IInv, RelayLeaves(3), RelayEnds(3), UNCHANGED <<openF, sealB, destSent, destGot, clientVars>>
  PROVE  ExitProgress' /\ UserStream'
<1> USE DEF IInv
<1>1. pc'[3] = "ended" /\ out'[3] = <<>>
  BY HopSets DEF RelayEnds, TypeOK
<1>2. ~WritesF(3)'
  BY <1>1 DEF WritesF
<1>3. ForwardInOrder'
  BY DEF ExitProgress, ForwardInOrder, InOrder, clientVars
<1>4. ExitProgress'
  BY <1>1, <1>2, <1>3, HopSets, RelayKeepsPre DEF ExitProgress
<1>5. UserStream'
  BY <1>1 DEF UserStream
<1> QED BY <1>4, <1>5

\* Every step of the exit keeps both streams in order.
LEMMA ExitKeeps ==
  ASSUME IInv, RelayStep(3)
  PROVE  ExitProgress' /\ UserStream'
<1> USE DEF IInv
<1>0. RelayLeaves(3) /\ 3 \in Hops
  BY HopSets, RelayFrame
<1>f. ASSUME Fail(3)
      PROVE  ExitProgress' /\ UserStream'
  BY <1>0, <1>f, ExitEnds DEF Fail
<1>1. CASE handle_connection(3)
  <2>1. CASE RelayEnds(3) /\ UNCHANGED circuit
    BY <1>0, <1>1, <2>1, ExitEnds DEF handle_connection
  <2>2. CASE ~(RelayEnds(3) /\ UNCHANGED circuit)
    <3>1. /\ pc[3] = "hello" /\ pc'[3] = "handshake" /\ out'[3] = <<>>
          /\ UNCHANGED <<openF, sealB, destSent, destGot, clientVars>>
      BY <1>1, <2>2, HopSets DEF handle_connection, At, TypeOK
    <3>2. ForwardInOrder' /\ ~WritesF(3)'
      BY <3>1 DEF ExitProgress, ForwardInOrder, InOrder, clientVars, WritesF
    <3>3. ExitProgress'
      BY <1>0, <3>1, <3>2, RelayKeepsPre DEF ExitProgress
    <3>4. UserStream'
      BY <3>1 DEF UserStream
    <3> QED BY <3>3, <3>4
  <2> QED BY <2>1, <2>2
<1>2. CASE presentation_timeout(3)
  BY <1>0, <1>2, ExitEnds DEF presentation_timeout
<1>3. CASE drive_circuit(3)
  <2>2. CASE ~Fail(3)
    <3>1. /\ pc[3] = "handshake" /\ pc'[3] = "select" /\ out'[3] = Bwd(Hs)
          /\ UNCHANGED <<openF, sealB, destSent, destGot, clientVars>>
      BY <1>3, <2>2, HopSets DEF drive_circuit, At, TypeOK, relayVars
    <3>2. ForwardInOrder' /\ ~WritesF(3)'
      <4>1. ForwardInOrder'
        BY <3>1 DEF ExitProgress, ForwardInOrder, InOrder, clientVars
      <4>2. Bwd(Hs)[1].dir = "bwd"
        BY DEF Bwd
      <4>3. ~WritesF(3)'
        BY <3>1, <4>2 DEF WritesF
      <4> QED BY <4>1, <4>3
    <3>3. openF'[3] = 0 /\ destGot' = <<>>
      BY <1>0, <3>1 DEF ExitProgress
    <3>4. ExitProgress'
      BY <1>0, <3>1, <3>2, <3>3, RelayKeepsPre DEF ExitProgress
    <3>5. UserStream'
      BY <3>1 DEF UserStream
    <3> QED BY <3>4, <3>5
  <2> QED BY <1>f, <2>2
<1>4. CASE run_inbound(3)
  BY <1>4, ExitOpens
<1>5. CASE run_inbound_error(3) \/ cell_read_timeout(3) \/ RelayWriteFails(3)
  BY <1>5, <1>f DEF run_inbound_error, cell_read_timeout, RelayWriteFails
<1>6. CASE run_next(3)
  BY SMTT(30), <1>6 DEF run_next, HasNext
<1>7. CASE RelayWritesBack(3)
  <2>1. /\ UNCHANGED <<pc, openF, sealB, destSent, destGot, clientVars>>
        /\ out'[3] = <<>> /\ ~WritesF(3)
    BY <1>7, HopSets DEF RelayWritesBack, TypeOK, WritesF
  <2>2. ForwardInOrder' /\ ~WritesF(3)'
    BY <2>1 DEF ExitProgress, ForwardInOrder, InOrder, clientVars, WritesF
  <2>3. ExitProgress'
    BY <1>0, <2>1, <2>2, RelayKeepsPre DEF ExitProgress
  <2>4. UserStream'
    BY <2>1 DEF UserStream
  <2> QED BY <2>3, <2>4
<1>8. CASE RelayWritesOn(3)
  BY SMTT(60), <1>8 DEF RelayWritesOn
<1>9. CASE close(3)
  BY <1>0, <1>9, ExitEnds DEF close
<1>10. CASE run_dest
  <2>1. CASE ~Fail(3)
    <3>0. /\ pc[3] = "select" /\ out[3] = <<>> /\ ~WritesF(3)
          /\ UNCHANGED <<pc, openF, destGot, clientVars>>
      BY <1>10, <2>1 DEF run_dest, At, WritesF
    <3>1. ForwardInOrder'
      BY <3>0 DEF ExitProgress, ForwardInOrder, InOrder, clientVars
    <3>2. CASE UNCHANGED <<out, sealB, destSent>>
      <4>1. ~WritesF(3)'
        BY <3>0, <3>2 DEF WritesF
      <4>2. ExitProgress'
        BY <1>0, <3>0, <3>1, <4>1, RelayKeepsPre DEF ExitProgress
      <4>3. UserStream'
        BY <3>0, <3>2 DEF UserStream
      <4> QED BY <4>2, <4>3
    <3>3. CASE ReplyWith(3, ToMe("Data", destSent + 1)) /\ destSent' = destSent + 1
      <4>1. /\ out'[3] = Bwd(Sealed(3, Len(sealB[3]) + 1))
            /\ sealB'[3] = Append(sealB[3], ToMe("Data", destSent + 1))
        BY <1>0, <3>3, ReplyLeaves
      <4>2. ~WritesF(3)'
        BY <4>1, WriteForms DEF WritesF
      <4>3. ExitProgress'
        BY <1>0, <3>0, <3>1, <4>2, RelayKeepsPre DEF ExitProgress
      <4>4. sealB[3] \in Seq(Plain) /\ destSent \in Nat /\ Len(sealB[3]) = destSent
        BY <1>0, <3>0 DEF TypeOK, UserStream
      <4>5. Len(sealB'[3]) = destSent' /\ \A i \in 1..Len(sealB'[3]) :
              sealB'[3][i] = IF i <= destSent' THEN ToMe("Data", i) ELSE ToMe("CloseAck", 0)
        BY SMTT(30), <3>3, <4>1, <4>4 DEF UserStream
      <4>6. UserStream'
        BY SMTT(30), <3>3, <4>4, <4>5 DEF UserStream
      <4> QED BY <4>3, <4>6
    <3> QED BY <1>10, <2>1, <3>2, <3>3 DEF run_dest
  <2> QED BY <1>f, <2>1
<1>11. CASE DestTakes
  <2>1. CASE ~Fail(3)
    <3>1. /\ destGot' = Append(destGot, out[3][1].frame.n) /\ out'[3] = <<>> /\ WritesF(3)
          /\ UNCHANGED <<pc, openF, sealB, destSent, clientVars>>
      BY <1>11, <2>1, HopSets DEF DestTakes, TypeOK, WritesF
    <3>2. /\ pc[3] = "select" /\ out[3][1].frame.n = Len(destGot) + 1
          /\ openF[3] = Len(destGot) + 2 /\ Len(destGot) < userSent
      BY <3>1 DEF ExitProgress
    <3>3. destGot \in Seq(Nat) /\ userSent \in Nat /\ userSent' = userSent
      BY <3>1 DEF TypeOK, clientVars
    <3>4. Len(destGot') = Len(destGot) + 1 /\ \A i \in 1..Len(destGot') : destGot'[i] = i
      <4>1. \A i \in 1..Len(destGot) : destGot[i] = i
        BY DEF ExitProgress, ForwardInOrder, InOrder
      <4> QED BY <3>1, <3>2, <3>3, <4>1, OneMoreChunk
    <3>5. ForwardInOrder'
      BY SMTT(30), <3>2, <3>3, <3>4 DEF ForwardInOrder, InOrder
    <3>6. ~WritesF(3)'
      BY <3>1 DEF WritesF
    <3>7. openF'[3] = Len(destGot') + 1
      BY SMTT(30), <3>1, <3>2, <3>3, <3>4
    <3>8. ExitProgress'
      BY <1>0, <3>1, <3>2, <3>5, <3>6, <3>7, RelayKeepsPre DEF ExitProgress
    <3>9. UserStream'
      BY <3>1 DEF UserStream
    <3> QED BY <3>8, <3>9
  <2> QED BY <1>f, <2>1
<1> QED BY SMTT(30), <1>1, <1>2, <1>3, <1>4, <1>5, <1>6, <1>7, <1>8, <1>9, <1>10, <1>11
        DEF RelayStep, Relay, Exit

(***************************************************************************)
(* Frames in circulation, client side.                                     *)
(***************************************************************************)
\* What is left of a link after its first frame is taken.
LEMMA TailElems ==
  ASSUME NEW q \in Seq(Frame), q # <<>>, NEW i \in 1..Len(Tail(q))
  PROVE  i + 1 \in 1..Len(q) /\ Tail(q)[i] = q[i + 1]
  BY SMT

\* The elements of a link after a write.
LEMMA AppendElems ==
  ASSUME NEW q \in Seq(Frame), NEW f \in Frame, NEW i \in 1..Len(Append(q, f))
  PROVE  (i \in 1..Len(q) /\ Append(q, f)[i] = q[i]) \/ Append(q, f)[i] = f
  BY SMT

\* Handshake and damaged frames name no counter.
LEMMA HsKnown == \A h \in Hops : KnownF(h, Hs) /\ KnownB(h, Hs) /\ KnownF(h, Junk) /\ KnownB(h, Junk)
  BY HopSets DEF KnownF, KnownB, Hs, Junk

\* Growing the forward streams keeps known frames known.
LEMMA SendKnown ==
  ASSUME TypeOK, FramesKnownF, NEW k \in Hops, NEW t, NEW a, SendFor(k, ToMe(t, a)), fwd' = fwd
  PROVE  FramesKnownF'
<1>0. k \in Nat /\ \A h \in Hops : sealF[h] \in Seq(Plain) /\ Len(sealF[h]) \in Nat /\ h \in Nat
  BY SMTT(30), HopSets DEF TypeOK
<1>1. ASSUME NEW h \in Hops
      PROVE  /\ h > k => Len(sealF'[h]) = Len(sealF[h])
             /\ h <= k => Len(sealF'[h]) = Len(sealF[h]) + 1
  <2>1. CASE h > k
    <3>1. sealF'[h] = sealF[h]
      BY <2>1, SendGrows
    <3> QED BY SMTT(30), <1>0, <2>1, <3>1
  <2>2. CASE h = k
    <3>1. sealF'[h] = Append(sealF[h], ToMe(t, a))
      BY <2>2, SendGrows
    <3> QED BY SMTT(30), <1>0, <2>2, <3>1
  <2>3. CASE h < k
    <3>1. sealF'[h] = Append(sealF[h], Forward(Sealed(h + 1, Len(sealF[h + 1]) + 1)))
      BY <2>3, SendGrows
    <3> QED BY SMTT(30), <1>0, <2>3, <3>1
  <2> QED BY SMTT(30), <1>0, <2>1, <2>2, <2>3
<1>2. ASSUME NEW h \in Hops, NEW f, KnownF(h, f)
      PROVE  KnownF(h, f)'
  BY SMTT(30), <1>0, <1>1, <1>2 DEF KnownF
<1>3. \A h \in Hops : \A i \in 1..Len(fwd'[h]) : KnownF(h, fwd[h][i])'
  BY <1>2 DEF FramesKnownF
<1>4. KnownF(1, out[0][1].frame)'
  <2>1. out'[0] = Fwd(Sealed(1, Len(sealF[1]) + 1))
    BY SendGrows
  <2>2. out'[0][1].frame = Sealed(1, Len(sealF[1]) + 1)
    BY SMTT(30), <2>1 DEF Fwd
  <2>3. Len(sealF'[1]) = Len(sealF[1]) + 1 /\ Len(sealF[1]) \in Nat
    BY SMTT(30), <1>0, <1>1, HopSets DEF Hops
  <2>4. out'[0][1].frame.n = Len(sealF[1]) + 1
    BY SMT, <2>2 DEF Sealed
  <2> QED BY SMT, <2>3, <2>4 DEF KnownF
<1>5. ASSUME NEW p \in 0..2, WritesF(p)'
      PROVE  KnownF(p + 1, out[p][1].frame)'
  <2>1. CASE p = 0
    BY SMT, <1>4, <2>1
  <2>2. CASE p # 0
    <3>1. p \in Hops /\ p + 1 \in Hops
      BY SMT, <2>2 DEF Hops
    <3>2. out'[p] = out[p]
      BY <3>1, SendLeaves
    <3>3. WritesF(p)
      BY <1>5, <3>2 DEF WritesF
    <3>4. KnownF(p + 1, out[p][1].frame)
      BY <3>3 DEF FramesKnownF
    <3> QED BY <1>2, <3>1, <3>2, <3>4
  <2> QED BY <2>1, <2>2
<1>6. ASSUME NEW h \in 1..2, NEW i \in 1..Len(sealF'[h])
      PROVE  KnownF(h + 1, sealF[h][i].inner)'
  <2>0. h \in Hops /\ h + 1 \in Hops
    BY SMT DEF Hops
  <2>1. CASE i \in 1..Len(sealF[h]) /\ sealF'[h][i] = sealF[h][i]
    <3>1. KnownF(h + 1, sealF[h][i].inner)
      BY <2>1 DEF FramesKnownF
    <3> QED BY <1>2, <2>0, <2>1, <3>1
  <2>2. CASE h > k
    BY <2>0, <2>1, <2>2, SendGrows
  <2>3. CASE h = k
    <3>1. sealF'[h] = Append(sealF[h], ToMe(t, a))
      BY <2>3, SendGrows
    <3>2. sealF'[h][i] = ToMe(t, a) \/ (i \in 1..Len(sealF[h]) /\ sealF'[h][i] = sealF[h][i])
      BY SMTT(30), <1>0, <2>0, <3>1
    <3>3. CASE sealF'[h][i] = ToMe(t, a)
      <4>1. sealF'[h][i].inner = Hs
        BY SMT, <3>3 DEF ToMe
      <4>2. Hs.hop # h + 1
        BY <2>0, HopSets DEF Hs
      <4> QED BY <4>1, <4>2 DEF KnownF
    <3> QED BY <2>1, <3>2, <3>3
  <2>4. CASE h < k
    <3> DEFINE g == Sealed(h + 1, Len(sealF[h + 1]) + 1)
    <3>1. sealF'[h] = Append(sealF[h], Forward(g))
      BY <2>0, <2>4, SendGrows
    <3>2. sealF'[h][i] = Forward(g) \/ (i \in 1..Len(sealF[h]) /\ sealF'[h][i] = sealF[h][i])
      BY SMTT(60), <1>0, <2>0, <3>1
    <3>3. CASE sealF'[h][i] = Forward(g)
      <4>1. sealF'[h][i].inner.n = Len(sealF[h + 1]) + 1
        BY SMTT(60), <3>3 DEF Forward, Sealed
      <4>2. Len(sealF'[h + 1]) = Len(sealF[h + 1]) + 1 /\ Len(sealF[h + 1]) \in Nat
        BY SMTT(30), <1>0, <1>1, <2>0, <2>4
      <4> QED BY SMTT(30), <4>1, <4>2 DEF KnownF
    <3> QED BY <2>1, <3>2, <3>3
  <2> QED BY SMTT(30), <1>0, <2>0, <2>2, <2>3, <2>4
<1> QED BY <1>3, <1>5, <1>6 DEF FramesKnownF

\* A step that seals nothing forward, where every write and every queued
\* frame is known.
LEMMA QuietKnownF ==
  ASSUME FramesKnownF, sealF' = sealF,
         \A p \in 0..2 : WritesF(p)' => out'[p] = out[p] \/ KnownF(p + 1, out'[p][1].frame),
         \A h \in Hops : fwd'[h] = fwd[h]
                         \/ \A i \in 1..Len(fwd'[h]) : KnownF(h, fwd'[h][i])
  PROVE  FramesKnownF'
<1>1. \A h, f : KnownF(h, f) => KnownF(h, f)'
  BY DEF KnownF
<1>2. \A h \in Hops : \A i \in 1..Len(fwd'[h]) : KnownF(h, fwd[h][i])'
  BY <1>1 DEF FramesKnownF
<1>3. ASSUME NEW p \in 0..2, WritesF(p)'
      PROVE  KnownF(p + 1, out[p][1].frame)'
  BY <1>1, <1>3 DEF FramesKnownF, WritesF
<1>4. \A h \in 1..2 : \A i \in 1..Len(sealF'[h]) : KnownF(h + 1, sealF[h][i].inner)'
  BY <1>1 DEF FramesKnownF
<1> QED BY <1>2, <1>3, <1>4 DEF FramesKnownF

\* The same toward the client.
LEMMA QuietKnownB ==
  ASSUME FramesKnownB, sealB' = sealB,
         \A h \in Hops : WritesB(h)' => out'[h] = out[h] \/ KnownB(h, out'[h][1].frame),
         \A h \in Hops : bwd'[h] = bwd[h]
                         \/ \A i \in 1..Len(bwd'[h]) : KnownB(h, bwd'[h][i])
  PROVE  FramesKnownB'
<1>1. \A h, f : KnownB(h, f) => KnownB(h, f)'
  BY DEF KnownB
<1>2. \A h \in Hops : \A i \in 1..Len(bwd'[h]) : KnownB(h, bwd[h][i])'
  BY <1>1 DEF FramesKnownB
<1>3. ASSUME NEW h \in Hops, WritesB(h)'
      PROVE  KnownB(h, out[h][1].frame)'
  BY <1>1, <1>3 DEF FramesKnownB, WritesB
<1>4. \A h \in 1..2 : \A i \in 1..Len(sealB'[h]) :
         KnownB(h + 1, sealB[h][i].inner)' /\ sealB'[h][i].type # "Data"
  BY <1>1 DEF FramesKnownB
<1> QED BY <1>2, <1>3, <1>4 DEF FramesKnownB

\* Every step of the client puts only frames in circulation that were sealed.
LEMMA ClientKnown ==
  ASSUME IInv, Client
  PROVE  FramesKnownF' /\ FramesKnownB'
<1> USE DEF IInv
<1>0. /\ ClientLeaves /\ \A h \in Hops : out'[h] = out[h]
      /\ sealB' = sealB /\ \A p \in 0..2 : p # 0 => p \in Hops
  BY SMTT(60), ClientFrame DEF ClientLeaves, relayVars, Hops
<1>1. FramesKnownB'
  <2>1. bwd' \in {bwd, [bwd EXCEPT ![1] = Tail(@)], [bwd EXCEPT ![1] = <<>>]}
        /\ (bwd' = bwd \/ bwd' = [bwd EXCEPT ![1] = <<>>] \/ bwd[1] # <<>>)
    BY DEF Client, dial, extend_hop, dial_error, circuit_task_user, circuit_task_inbound,
           circuit_task_eof, ClientWrites, ClientWriteFails, UserTakes, ClientReads,
           ClientEnds, ClientDrops, Break, SendFor, linkVars
  <2>2. ASSUME NEW h \in Hops
        PROVE  bwd'[h] = bwd[h] \/ \A i \in 1..Len(bwd'[h]) : KnownB(h, bwd'[h][i])
    <3>1. CASE h # 1 \/ bwd' = bwd
      BY <2>1, <3>1 DEF TypeOK
    <3>2. CASE h = 1 /\ bwd' = [bwd EXCEPT ![1] = <<>>]
      <4>1. bwd'[h] = <<>>
        BY <3>2, HopSets DEF TypeOK
      <4> QED BY SMTT(60), <4>1
    <3>3. CASE h = 1 /\ bwd[1] # <<>> /\ bwd' = [bwd EXCEPT ![1] = Tail(@)]
      <4>1. bwd'[h] = Tail(bwd[h]) /\ bwd[h] \in Seq(Frame)
        BY <3>3, HopSets DEF TypeOK
      <4> QED BY SMTT(30), <3>3, <4>1, TailElems DEF FramesKnownB
    <3> QED BY <2>1, <3>1, <3>2, <3>3
  <2> QED BY <1>0, <2>2, QuietKnownB
<1>2. ASSUME NEW k \in Hops, NEW t, NEW a, SendFor(k, ToMe(t, a)), fwd' = fwd
      PROVE  FramesKnownF'
  BY <1>2, SendKnown
<1>3. ASSUME sealF' = sealF, WritesF(0)' => out'[0] = Fwd(Hs), fwd' = fwd
      PROVE  FramesKnownF'
  <2>1. WritesF(0)' => KnownF(0 + 1, out'[0][1].frame)
    BY SMTT(30), <1>3, HsKnown, HopSets DEF Fwd
  <2> QED BY <1>0, <1>3, <2>1, QuietKnownF
<1>4. ASSUME ClientEnds
      PROVE  FramesKnownF'
  <2>1. out'[0] = <<>>
    BY <1>4, HopSets DEF ClientEnds, TypeOK
  <2> QED BY <1>3, <1>4, <2>1 DEF ClientEnds, clientVars, WritesF
<1>5. ASSUME Break, fwd' = fwd
      PROVE  FramesKnownF'
  BY <1>2, <1>5, HopSets DEF Break
<1>6. CASE dial
  <2>1. CASE ~ClientEnds
    <3>1. out'[0] = Fwd(Hs)
      BY <1>6, <2>1, HopSets DEF dial, TypeOK
    <3> QED BY <1>1, <1>3, <1>6, <2>1, <3>1 DEF dial, clientVars
  <2> QED BY <1>1, <1>4, <2>1
<1>7. CASE extend_hop
  <2>1. hopsUp # 3 /\ hopsUp \in 0..3
    BY <1>7 DEF extend_hop, At, ExitStream, WritesF, TypeOK
  <2>2. hopsUp + 1 \in Hops
    BY SMT, <2>1 DEF Hops
  <2> QED BY <1>1, <1>2, <1>7, <2>2 DEF extend_hop
<1>8. CASE dial_error
  BY <1>1, <1>4, <1>8 DEF dial_error
<1>9. CASE circuit_task_user
  BY <1>1, <1>2, <1>5, <1>9, HopSets DEF circuit_task_user, linkVars
<1>10. CASE circuit_task_inbound
  <2>1. CASE ~Break
    <3>1. PICK f : out'[0] = Bwd(f)
      BY SMTT(60), <1>10, <2>1, HopSets DEF circuit_task_inbound, TypeOK
    <3>2. ~WritesF(0)'
      BY <3>1, WriteForms DEF WritesF
    <3> QED BY <1>1, <1>3, <1>10, <2>1, <3>2 DEF circuit_task_inbound
  <2> QED BY <1>1, <1>5, <1>10, <2>1 DEF circuit_task_inbound
<1>11. CASE circuit_task_eof
  BY <1>1, <1>5, <1>11 DEF circuit_task_eof, linkVars
<1>12. CASE ClientWrites
  <2>1. out'[0] = <<>> /\ sealF' = sealF /\ WritesF(0) /\ out[0] # <<>>
    BY <1>12, HopSets DEF ClientWrites, TypeOK, clientVars, WritesF
  <2>2. out[0][1].frame \in Frame /\ KnownF(1, out[0][1].frame)
    <3>1. out[0][1].frame \in Frame
      BY <2>1, PendingFrame, HopSets
    <3>2. KnownF(0 + 1, out[0][1].frame)
      BY SMT, <2>1 DEF FramesKnownF
    <3> QED BY SMTT(30), <3>1, <3>2
  <2>3. fwd' \in {fwd, [fwd EXCEPT ![1] = Append(@, out[0][1].frame)]}
    BY <1>12 DEF ClientWrites
  <2>4. ASSUME NEW h \in Hops
        PROVE  fwd'[h] = fwd[h] \/ \A i \in 1..Len(fwd'[h]) : KnownF(h, fwd'[h][i])
    <3>1. CASE h = 1 /\ fwd' = [fwd EXCEPT ![1] = Append(@, out[0][1].frame)]
      <4>1. fwd'[h] = Append(fwd[h], out[0][1].frame) /\ fwd[h] \in Seq(Frame)
        BY <3>1, HopSets DEF TypeOK
      <4> QED BY SMTT(60), <2>2, <3>1, <4>1, AppendElems DEF FramesKnownF
    <3> QED BY <2>3, <3>1 DEF TypeOK
  <2>5. ~WritesF(0)'
    BY <2>1 DEF WritesF
  <2> QED BY <1>0, <1>1, <2>1, <2>4, <2>5, QuietKnownF
<1>13. CASE ClientWriteFails
  BY <1>1, <1>4, <1>5, <1>13 DEF ClientWriteFails, linkVars
<1>14. CASE UserTakes
  <2>1. CASE ~Break
    <3>1. out'[0] = <<>>
      BY <1>14, <2>1, HopSets DEF UserTakes, TypeOK
    <3> QED BY <1>1, <1>3, <1>14, <2>1, <3>1 DEF UserTakes, linkVars, WritesF
  <2> QED BY <1>1, <1>5, <1>14, <2>1 DEF UserTakes, linkVars
<1> QED BY <1>6, <1>7, <1>8, <1>9, <1>10, <1>11, <1>12, <1>13, <1>14 DEF Client

(***************************************************************************)
(* Frames in circulation, relay side.                                      *)
(***************************************************************************)
\* A relay that ends puts no frame in circulation.
LEMMA EndsKnown ==
  ASSUME TypeOK, FramesKnownF, FramesKnownB, NEW h \in Hops, RelayEnds(h),
         UNCHANGED <<sealF, sealB>>
  PROVE  FramesKnownF' /\ FramesKnownB'
<1>1. out'[h] = <<>> /\ \A k \in Parties : k # h => out'[k] = out[k]
  BY HopSets DEF RelayEnds, TypeOK
<1>2. \A p \in 0..2 : p \in Parties
  BY SMT DEF Parties
<1>3. \A p \in 0..2 : WritesF(p)' => out'[p] = out[p]
  BY <1>1, <1>2 DEF WritesF
<1>4. \A k \in Hops : WritesB(k)' => out'[k] = out[k]
  BY <1>1, HopSets DEF WritesB
<1>5. \A k \in Hops : fwd'[k] = fwd[k] \/ fwd'[k] = <<>>
  BY DEF RelayEnds, TypeOK
<1>6. \A k \in Hops : bwd'[k] = bwd[k] \/ bwd'[k] = <<>>
  BY DEF RelayEnds, TypeOK
<1>7. FramesKnownF'
  BY SMTT(30), <1>3, <1>5, QuietKnownF
<1>8. FramesKnownB'
  BY SMTT(30), <1>4, <1>6, QuietKnownB
<1> QED BY <1>7, <1>8

\* The backward streams grow by a cell of the relay's own or by a known frame.
LEMMA ReplyKnown ==
  ASSUME TypeOK, FramesKnownB, NEW h \in Hops, NEW plain \in Plain, ReplyWith(h, plain),
         h < 3 => plain.type # "Data" /\ KnownB(h + 1, plain.inner),
         \A k \in Hops : bwd'[k] = bwd[k] \/ \A i \in 1..Len(bwd'[k]) : KnownB(k, bwd'[k][i])
  PROVE  FramesKnownB'
<1>0. \A k \in Hops : sealB[k] \in Seq(Plain) /\ Len(sealB[k]) \in Nat /\ k \in Nat
  BY SMTT(30), HopSets DEF TypeOK
<1>1. /\ out'[h] = Bwd(Sealed(h, Len(sealB[h]) + 1)) /\ sealB'[h] = Append(sealB[h], plain)
      /\ \A k \in Hops : k # h => out'[k] = out[k] /\ sealB'[k] = sealB[k]
  BY ReplyLeaves
<1>2. Len(sealB'[h]) = Len(sealB[h]) + 1
  BY SMTT(30), <1>0, <1>1
<1>3. ASSUME NEW k \in Hops, NEW f, KnownB(k, f)
      PROVE  KnownB(k, f)'
  <2>1. Len(sealB'[k]) = Len(sealB[k]) \/ Len(sealB'[k]) = Len(sealB[k]) + 1
    BY <1>1, <1>2
  <2> QED BY SMTT(30), <1>0, <1>3, <2>1 DEF KnownB
<1>4. \A k \in Hops : \A i \in 1..Len(bwd'[k]) : KnownB(k, bwd[k][i])'
  BY <1>3 DEF FramesKnownB
<1>5. ASSUME NEW k \in Hops, WritesB(k)'
      PROVE  KnownB(k, out[k][1].frame)'
  <2>1. CASE k = h
    <3>1. out'[k][1].frame.n = Len(sealB[h]) + 1
      BY SMTT(30), <1>1, <2>1 DEF Bwd, Sealed
    <3> QED BY SMTT(30), <1>0, <1>2, <2>1, <3>1 DEF KnownB
  <2>2. CASE k # h
    <3>1. out'[k] = out[k]
      BY <1>1, <2>2
    <3>2. KnownB(k, out[k][1].frame)
      BY <1>5, <3>1 DEF WritesB, FramesKnownB
    <3> QED BY <1>3, <3>1, <3>2
  <2> QED BY <2>1, <2>2
<1>6. ASSUME NEW k \in 1..2, NEW i \in 1..Len(sealB'[k])
      PROVE  KnownB(k + 1, sealB[k][i].inner)' /\ sealB'[k][i].type # "Data"
  <2>0. k \in Hops /\ k + 1 \in Hops /\ k < 3
    BY SMT DEF Hops
  <2>1. CASE i \in 1..Len(sealB[k]) /\ sealB'[k][i] = sealB[k][i]
    <3>1. KnownB(k + 1, sealB[k][i].inner) /\ sealB[k][i].type # "Data"
      BY <2>1 DEF FramesKnownB
    <3> QED BY <1>3, <2>0, <2>1, <3>1
  <2>2. CASE k = h /\ sealB'[k][i] = plain
    <3>1. KnownB(k + 1, plain.inner) /\ plain.type # "Data"
      BY <2>0, <2>2
    <3> QED BY <1>3, <2>0, <2>2, <3>1
  <2>3. k = h => sealB'[k][i] = plain \/ (i \in 1..Len(sealB[k]) /\ sealB'[k][i] = sealB[k][i])
    <3>1. PICK s \in Seq(Plain) : s = sealB[h]
      BY <1>0
    <3>2. \A j \in 1..Len(Append(s, plain)) :
             Append(s, plain)[j] = plain \/ (j \in 1..Len(s) /\ Append(s, plain)[j] = s[j])
      BY SMT
    <3> QED BY <1>1, <3>1, <3>2
  <2> QED BY <1>1, <2>0, <2>1, <2>2, <2>3
<1> QED BY <1>4, <1>5, <1>6 DEF FramesKnownB

\* A cell addressed to the receiver carries no inner frame.
LEMMA ToMeKnown ==
  ASSUME NEW h \in Hops, NEW t, NEW a
  PROVE  ToMe(t, a).type = t /\ (h < 3 => KnownB(h + 1, ToMe(t, a).inner))
<1>1. ToMe(t, a).type = t /\ ToMe(t, a).inner = Hs
  BY DEF ToMe
<1>2. h < 3 => h + 1 \in Hops
  BY HopSets
<1> QED BY <1>1, <1>2, HsKnown

\* What the inbound arm forwards or answers was sealed.
LEMMA InboundKnown ==
  ASSUME TypeOK, FramesKnownF, FramesKnownB, NEW h \in Hops, run_inbound(h)
  PROVE  FramesKnownF' /\ FramesKnownB'
<1> DEFINE p == PlainF(h, Head(fwd[h]))
<1>0. fwd[h] # <<>> /\ OpensF(h, Head(fwd[h])) /\ Legal(h, Head(fwd[h])) /\ sealF' = sealF /\ bwd' = bwd
  BY DEF run_inbound, RelayReads, Legal, clientVars
<1>1. openF[h] + 1 \in 1..Len(sealF[h]) /\ p = sealF[h][openF[h] + 1]
  BY <1>0, OpensKnown
<1>2. \A k \in Hops : fwd'[k] = fwd[k] \/ \A i \in 1..Len(fwd'[k]) : KnownF(k, fwd'[k][i])
  <2>1. fwd' = [fwd EXCEPT ![h] = Tail(@)]
    BY DEF run_inbound, RelayReads
  <2>2. fwd'[h] = Tail(fwd[h]) /\ fwd[h] \in Seq(Frame)
    BY <2>1 DEF TypeOK
  <2>3. \A i \in 1..Len(fwd'[h]) : KnownF(h, fwd'[h][i])
    BY <1>0, <2>2, TailElems DEF FramesKnownF
  <2>4. \A k \in Hops : k # h => fwd'[k] = fwd[k]
    BY <2>1 DEF TypeOK
  <2> QED BY <2>3, <2>4
<1>3. \A q \in 0..2 : q \in Parties /\ (q # h => out'[q] = out[q])
  <2>1. \A q \in 0..2 : q \in Parties
    BY SMTT(30) DEF Parties
  <2> QED BY <2>1 DEF run_inbound, ReplyWith, TypeOK
<1>4. \A k \in Hops : k # h => out'[k] = out[k]
  BY HopSets DEF run_inbound, ReplyWith, TypeOK
<1>5. CASE p.type = "Forward"
  <2>1. h < 3 /\ sealB' = sealB /\ out' = [out EXCEPT ![h] = Fwd(p.inner)]
    BY <1>0, <1>5 DEF run_inbound, Legal, HasNext
  <2>2. out'[h] = Fwd(p.inner)
    BY <2>1, HopSets DEF TypeOK
  <2>3. out'[h][1].frame = p.inner /\ ~WritesB(h)'
    BY SMTT(30), <2>2 DEF Fwd, WritesB
  <2>4. h \in 1..2
    BY SMT, <2>1, HopSets
  <2>5. KnownF(h + 1, p.inner)
    BY <1>1, <2>4 DEF FramesKnownF
  <2>6. FramesKnownF'
    BY <1>0, <1>2, <1>3, <2>3, <2>5, QuietKnownF
  <2>7. FramesKnownB'
    BY <1>0, <1>4, <2>1, <2>3, QuietKnownB
  <2> QED BY <2>6, <2>7
<1>6. CASE p.type = "Data"
  <2>1. h = 3 /\ sealB' = sealB /\ out' = [out EXCEPT ![h] = Fwd(Bytes(p.arg))]
    BY <1>0, <1>6 DEF run_inbound, Legal, HasNext
  <2>2. out'[h] = Fwd(Bytes(p.arg))
    BY <2>1, HopSets DEF TypeOK
  <2>3. ~WritesB(h)' /\ \A q \in 0..2 : q # h
    <3>1. ~WritesB(h)'
      BY SMT, <2>2 DEF Fwd, WritesB
    <3> QED BY SMTT(30), <2>1, <3>1
  <2>4. FramesKnownF'
    BY <1>0, <1>2, <1>3, <2>3, QuietKnownF
  <2>5. FramesKnownB'
    BY <1>0, <1>4, <2>1, <2>3, QuietKnownB
  <2> QED BY <2>4, <2>5
<1>7. CASE p.type = "Connect"
  <2>1. sealB' = sealB /\ out' = out
    BY <1>7 DEF run_inbound
  <2> QED BY <1>0, <1>2, <2>1, QuietKnownF, QuietKnownB
<1>8. CASE p.type = "CloseRequest"
  <2>1. ReplyWith(h, ToMe("CloseAck", 0))
    BY <1>8 DEF run_inbound
  <2>2. ToMe("CloseAck", 0) \in Plain
    BY FrameTypes DEF CellTypes
  <2>3. out'[h] = Bwd(Sealed(h, Len(sealB[h]) + 1))
    BY <2>1, ReplyLeaves
  <2>4. ~WritesF(h)'
    BY <2>3, WriteForms DEF WritesF
  <2>5. FramesKnownF'
    BY <1>0, <1>2, <1>3, <2>4, QuietKnownF
  <2>6. FramesKnownB'
    BY <1>0, <2>1, <2>2, ReplyKnown, ToMeKnown
  <2> QED BY <2>5, <2>6
<1>9. CASE p.type = "Extend"
  <2>1. h < 3 /\ sealB' = sealB /\ out' = [out EXCEPT ![h] = Fwd(Hs)]
    BY <1>0, <1>9 DEF run_inbound, Legal, HasNext
  <2>2. out'[h] = Fwd(Hs)
    BY <2>1, HopSets DEF TypeOK
  <2>3. out'[h][1].frame = Hs /\ ~WritesB(h)'
    BY SMTT(60), <2>2 DEF Fwd, WritesB
  <2>4. KnownF(h + 1, Hs)
    BY <2>1, HopSets, HsKnown
  <2>5. FramesKnownF'
    BY <1>0, <1>2, <1>3, <2>3, <2>4, QuietKnownF
  <2>6. FramesKnownB'
    BY <1>0, <1>4, <2>1, <2>3, QuietKnownB
  <2> QED BY <2>5, <2>6
<1> QED BY <1>5, <1>6, <1>7, <1>8, <1>9 DEF run_inbound

\* Every step of a relay puts only frames in circulation that were sealed.
LEMMA RelayKnown ==
  ASSUME IInv, NEW h \in Hops, RelayStep(h)
  PROVE  FramesKnownF' /\ FramesKnownB'
<1> USE DEF IInv
<1>0. /\ RelayLeaves(h) /\ sealF' = sealF
      /\ \A q \in 0..2 : q # h => out'[q] = out[q]
      /\ \A k \in Hops : k # h => out'[k] = out[k]
  <2>1. RelayLeaves(h)
    BY RelayFrame
  <2>2. \A q \in 0..2 : q = 0 \/ q \in Hops
    BY SMT DEF Hops
  <2> QED BY <2>1, <2>2 DEF RelayLeaves, clientVars
<1>e. ASSUME RelayEnds(h), sealB' = sealB
      PROVE  FramesKnownF' /\ FramesKnownB'
  BY <1>0, <1>e, EndsKnown
<1>f. ASSUME Fail(h)
      PROVE  FramesKnownF' /\ FramesKnownB'
  BY <1>e, <1>f DEF Fail
\* A step that only takes frames off the queues.
<1>q. ASSUME sealB' = sealB, out'[h] = <<>> \/ out'[h] = out[h] \/ out'[h] = Bwd(Hs),
             \A k \in Hops : fwd'[k] = fwd[k] \/ \A i \in 1..Len(fwd'[k]) : KnownF(k, fwd'[k][i]),
             \A k \in Hops : bwd'[k] = bwd[k] \/ \A i \in 1..Len(bwd'[k]) : KnownB(k, bwd'[k][i])
      PROVE  FramesKnownF' /\ FramesKnownB'
  <2>1. WritesF(h)' => out'[h] = out[h]
    BY <1>q, WriteForms DEF WritesF
  <2>2. WritesB(h)' => out'[h] = out[h] \/ KnownB(h, out'[h][1].frame)
    <3>1. CASE out'[h] = <<>>
      BY <3>1 DEF WritesB
    <3>2. CASE out'[h] = Bwd(Hs)
      <4>1. out'[h][1].frame = Hs
        BY <3>2, WriteForms
      <4>2. KnownB(h, Hs)
        BY HsKnown
      <4> QED BY <4>1, <4>2
    <3> QED BY <1>q, <3>1, <3>2
  <2>3. FramesKnownF'
    BY <1>0, <1>q, <2>1, QuietKnownF
  <2>4. FramesKnownB'
    BY <1>0, <1>q, <2>2, QuietKnownB
  <2> QED BY <2>3, <2>4
<1>1. CASE handle_connection(h)
  <2>1. CASE RelayEnds(h) /\ UNCHANGED circuit
    BY <1>1, <1>e, <2>1 DEF handle_connection
  <2>2. CASE ~(RelayEnds(h) /\ UNCHANGED circuit)
    <3>1. /\ fwd[h] # <<>> /\ fwd' = [fwd EXCEPT ![h] = Tail(@)]
          /\ UNCHANGED <<out, bwd, sealB>>
      BY <1>1, <2>2 DEF handle_connection, RelayReads
    <3>2. fwd'[h] = Tail(fwd[h]) /\ fwd[h] \in Seq(Frame) /\ \A k \in Hops : k # h => fwd'[k] = fwd[k]
      BY <3>1 DEF TypeOK
    <3>3. \A i \in 1..Len(fwd'[h]) : KnownF(h, fwd'[h][i])
      BY SMTT(30), <3>1, <3>2, TailElems DEF FramesKnownF
    <3> QED BY <1>q, <3>1, <3>2, <3>3
  <2> QED BY <2>1, <2>2
<1>2. CASE presentation_timeout(h)
  BY <1>2, <1>e DEF presentation_timeout
<1>3. CASE drive_circuit(h)
  <2>1. CASE ~Fail(h)
    <3>1. out' = [out EXCEPT ![h] = Bwd(Hs)] /\ UNCHANGED <<fwd, bwd, sealB>>
      BY <1>3, <2>1 DEF drive_circuit, relayVars, linkVars
    <3>2. out'[h] = Bwd(Hs)
      BY <3>1, HopSets DEF TypeOK
    <3> QED BY <1>q, <3>1, <3>2
  <2> QED BY <1>f, <2>1
<1>4. CASE run_inbound(h)
  BY <1>4, InboundKnown
<1>5. CASE run_inbound_error(h) \/ cell_read_timeout(h) \/ RelayWriteFails(h) \/ open_next_link_error(h)
  BY <1>5, <1>f DEF run_inbound_error, cell_read_timeout, RelayWriteFails, open_next_link_error
\* A step that seals toward the client and takes at most one frame from the
\* next link.
<1>r. ASSUME NEW plain \in Plain, ReplyWith(h, plain), fwd' = fwd,
             h < 3 => plain.type # "Data" /\ KnownB(h + 1, plain.inner),
             \/ bwd' = bwd
             \/ h + 1 \in Hops /\ bwd[h + 1] # <<>> /\ bwd' = [bwd EXCEPT ![h + 1] = Tail(@)]
      PROVE  FramesKnownF' /\ FramesKnownB'
  <2>1. ASSUME NEW k \in Hops
        PROVE  bwd'[k] = bwd[k] \/ \A i \in 1..Len(bwd'[k]) : KnownB(k, bwd'[k][i])
    <3>1. CASE bwd' = bwd
      BY <3>1
    <3>2. CASE h + 1 \in Hops /\ bwd[h + 1] # <<>> /\ bwd' = [bwd EXCEPT ![h + 1] = Tail(@)]
      <4>1. CASE k = h + 1
        <5>1. bwd'[k] = Tail(bwd[k]) /\ bwd[k] \in Seq(Frame)
          BY <3>2, <4>1 DEF TypeOK
        <5> QED BY SMTT(30), <3>2, <4>1, <5>1, TailElems DEF FramesKnownB
      <4>2. CASE k # h + 1
        BY <3>2, <4>2 DEF TypeOK
      <4> QED BY <4>1, <4>2
    <3> QED BY <1>r, <3>1, <3>2
  <2>2. FramesKnownB'
    BY <1>r, <2>1, ReplyKnown
  <2>3. out'[h] = Bwd(Sealed(h, Len(sealB[h]) + 1))
    BY <1>r, ReplyLeaves
  <2>4. ~WritesF(h)'
    BY <2>3, WriteForms DEF WritesF
  <2>5. FramesKnownF'
    BY <1>0, <1>r, <2>4, QuietKnownF
  <2> QED BY <2>2, <2>5
<1>6. CASE h < 3 /\ open_next_link(h)
  <2>1. ToMe("Extend", 0) \in Plain
    BY FrameTypes DEF CellTypes
  <2>2. h + 1 \in Hops
    BY <1>6, HopSets
  <2> QED BY <1>6, <1>r, <2>1, <2>2, ToMeKnown DEF open_next_link
<1>7. CASE run_next(h)
  <2>1. CASE ~Fail(h)
    <3>1. h + 1 \in Hops
      BY <1>7, HopSets DEF run_next, HasNext
    <3>2. /\ bwd[h + 1] # <<>> /\ bwd' = [bwd EXCEPT ![h + 1] = Tail(@)] /\ fwd' = fwd
          /\ ReplyWith(h, Forward(Head(bwd[h + 1])))
      BY <1>7, <2>1 DEF run_next
    <3>3. PICK q \in Seq(Frame) : q = bwd[h + 1]
      BY <3>1 DEF TypeOK
    <3>4. Head(q) \in Frame /\ Head(q) = q[1] /\ 1 \in 1..Len(q)
      BY SMTT(30), <3>2, <3>3
    <3>5. KnownB(h + 1, Head(q))
      BY <3>1, <3>3, <3>4 DEF FramesKnownB
    <3>6. Forward(Head(q)) \in Plain
      BY <3>4, FrameTypes
    <3>7. Forward(Head(q)).type # "Data" /\ Forward(Head(q)).inner = Head(q)
      BY DEF Forward
    <3> QED BY <1>r, <3>1, <3>2, <3>3, <3>5, <3>6, <3>7
  <2> QED BY <1>f, <2>1
<1>8. CASE RelayWritesBack(h)
  <2>1. out'[h] = <<>> /\ UNCHANGED <<fwd, sealB>> /\ WritesB(h) /\ out[h] # <<>>
    BY <1>8, HopSets DEF RelayWritesBack, TypeOK, WritesB
  <2>2. out[h][1].frame \in Frame
    BY <2>1, HopSets, PendingFrame
  <2>3. KnownB(h, out[h][1].frame)
    BY <2>1 DEF FramesKnownB
  <2>4. bwd' \in {bwd, [bwd EXCEPT ![h] = Append(@, out[h][1].frame)]}
    BY <1>8 DEF RelayWritesBack
  <2>5. ASSUME NEW k \in Hops
        PROVE  bwd'[k] = bwd[k] \/ \A i \in 1..Len(bwd'[k]) : KnownB(k, bwd'[k][i])
    <3>1. CASE k = h /\ bwd' = [bwd EXCEPT ![h] = Append(@, out[h][1].frame)]
      <4>1. bwd'[k] = Append(bwd[k], out[h][1].frame) /\ bwd[k] \in Seq(Frame)
        BY <3>1 DEF TypeOK
      <4>2. \A i \in 1..Len(bwd[k]) : KnownB(k, bwd[k][i])
        BY DEF FramesKnownB
      <4>3. ASSUME NEW i \in 1..Len(bwd'[k]) PROVE KnownB(k, bwd'[k][i])
        <5>1. \/ i \in 1..Len(bwd[k]) /\ bwd'[k][i] = bwd[k][i]
              \/ bwd'[k][i] = out[h][1].frame
          BY <2>2, <4>1, AppendElems
        <5>2. KnownB(k, out[h][1].frame)
          BY <2>3, <3>1
        <5> QED BY <4>2, <5>1, <5>2
      <4> QED BY <4>3
    <3> QED BY <2>4, <3>1 DEF TypeOK
  <2> QED BY <1>q, <2>1, <2>5
<1>9. CASE RelayWritesOn(h)
  <2>1. /\ out'[h] = <<>> /\ UNCHANGED <<bwd, sealB>> /\ WritesF(h) /\ out[h] # <<>>
        /\ h < 3
    BY <1>9, HopSets DEF RelayWritesOn, TypeOK, WritesF, relayVars
  <2>2. out[h][1].frame \in Frame /\ h + 1 \in Hops
    BY <2>1, HopSets, PendingFrame
  <2>3. KnownF(h + 1, out[h][1].frame)
    <3>1. h \in 0..2
      BY SMT, <2>1 DEF Hops
    <3> QED BY <2>1, <3>1 DEF FramesKnownF
  <2>4. fwd' \in {fwd, [fwd EXCEPT ![h + 1] = Append(@, out[h][1].frame)]}
    BY <1>9 DEF RelayWritesOn
  <2>5. ASSUME NEW k \in Hops
        PROVE  fwd'[k] = fwd[k] \/ \A i \in 1..Len(fwd'[k]) : KnownF(k, fwd'[k][i])
    <3>1. CASE k = h + 1 /\ fwd' = [fwd EXCEPT ![h + 1] = Append(@, out[h][1].frame)]
      <4>1. fwd'[k] = Append(fwd[k], out[h][1].frame) /\ fwd[k] \in Seq(Frame)
        BY <3>1 DEF TypeOK
      <4>2. \A i \in 1..Len(fwd[k]) : KnownF(k, fwd[k][i])
        BY DEF FramesKnownF
      <4>3. ASSUME NEW i \in 1..Len(fwd'[k]) PROVE KnownF(k, fwd'[k][i])
        <5>1. \/ i \in 1..Len(fwd[k]) /\ fwd'[k][i] = fwd[k][i]
              \/ fwd'[k][i] = out[h][1].frame
          BY <2>2, <4>1, AppendElems
        <5>2. KnownF(k, out[h][1].frame)
          BY <2>3, <3>1
        <5> QED BY <4>2, <5>1, <5>2
      <4> QED BY <4>3
    <3> QED BY <2>4, <3>1 DEF TypeOK
  <2> QED BY <1>q, <2>1, <2>5
<1>10. CASE close(h)
  BY <1>10, <1>e DEF close
<1>11. CASE h = 3 /\ run_dest
  <2>1. CASE UNCHANGED <<out, sealB, linkVars>>
    BY <1>q, <2>1 DEF linkVars
  <2>2. CASE ReplyWith(3, ToMe("Data", destSent + 1)) /\ UNCHANGED linkVars
    <3>1. destSent + 1 \in Nat /\ "Data" \in CellTypes
      BY SMT DEF TypeOK, CellTypes
    <3>2. ToMe("Data", destSent + 1) \in Plain
      BY <3>1, FrameTypes
    <3> QED BY SMTT(30), <1>11, <1>r, <2>2, <3>2 DEF linkVars
  <2> QED BY <1>11, <1>f, <2>1, <2>2 DEF run_dest
<1>12. CASE h = 3 /\ DestTakes
  <2>1. CASE ~Fail(3)
    <3>1. out'[h] = <<>> /\ UNCHANGED <<sealB, fwd, bwd>>
      BY <1>12, <2>1, HopSets DEF DestTakes, linkVars, TypeOK
    <3> QED BY <1>q, <3>1
  <2> QED BY <1>12, <1>f, <2>1
<1> QED BY <1>1, <1>2, <1>3, <1>4, <1>5, <1>6, <1>7, <1>8, <1>9, <1>10, <1>11, <1>12
        DEF RelayStep, Relay, Exit

(***************************************************************************)
(* Faults.                                                                 *)
(***************************************************************************)
\* A damaged frame opens for nobody.
LEMMA DamageKeeps ==
  ASSUME IInv, NEW l \in Hops, Damage(l)
  PROVE  IInv'
<1> USE DEF IInv
<1>0. UNCHANGED <<pc, out, relayVars, clientVars, near, far>> /\ fwd[l] \in Seq(Frame) /\ bwd[l] \in Seq(Frame)
  BY DEF Damage, TypeOK
<1>1. TypeOK'
  BY FaultType
<1>2. \A k \in Hops : fwd'[k] = fwd[k] \/ \A i \in 1..Len(fwd'[k]) : KnownF(k, fwd'[k][i])
  <2>1. CASE fwd' = fwd
    BY <2>1
  <2>2. CASE fwd[l] # <<>> /\ \E q \in Damaged(fwd[l]) : fwd' = [fwd EXCEPT ![l] = q]
    <3>1. PICK q \in Damaged(fwd[l]) : fwd' = [fwd EXCEPT ![l] = q]
      BY <2>2
    <3>2. fwd'[l] = q /\ \A k \in Hops : k # l => fwd'[k] = fwd[k]
      BY <3>1 DEF TypeOK
    <3>3. \A i \in 1..Len(q) : q[i] = Junk \/ \E j \in 1..Len(fwd[l]) : q[i] = fwd[l][j]
      BY <1>0, <2>2, DamagedFrames
    <3>4. \A i \in 1..Len(q) : KnownF(l, q[i])
      BY <3>3, HsKnown DEF FramesKnownF
    <3> QED BY <3>2, <3>4
  <2> QED BY <2>1, <2>2 DEF Damage
<1>3. \A k \in Hops : bwd'[k] = bwd[k] \/ \A i \in 1..Len(bwd'[k]) : KnownB(k, bwd'[k][i])
  <2>1. CASE bwd' = bwd
    BY <2>1
  <2>2. CASE bwd[l] # <<>> /\ \E q \in Damaged(bwd[l]) : bwd' = [bwd EXCEPT ![l] = q]
    <3>1. PICK q \in Damaged(bwd[l]) : bwd' = [bwd EXCEPT ![l] = q]
      BY <2>2
    <3>2. bwd'[l] = q /\ \A k \in Hops : k # l => bwd'[k] = bwd[k]
      BY <3>1 DEF TypeOK
    <3>3. \A i \in 1..Len(q) : q[i] = Junk \/ \E j \in 1..Len(bwd[l]) : q[i] = bwd[l][j]
      BY <1>0, <2>2, DamagedFrames
    <3>4. \A i \in 1..Len(q) : KnownB(l, q[i])
      BY <3>3, HsKnown DEF FramesKnownB
    <3> QED BY <3>2, <3>4
  <2> QED BY <2>1, <2>2 DEF Damage
<1>4. FramesKnownF'
  BY <1>0, <1>2, QuietKnownF DEF clientVars
<1>5. FramesKnownB'
  BY <1>0, <1>3, QuietKnownB DEF relayVars
<1>6. HopOrder'
  BY <1>0 DEF HopOrder
<1>7. ExitStream'
  BY <1>0 DEF ExitStream, clientVars, WritesF, WritesB
<1>8. ExitProgress'
  BY <1>0 DEF ExitProgress, ForwardInOrder, InOrder, clientVars, relayVars, WritesF
<1>9. UserStream'
  BY <1>0 DEF UserStream, relayVars
<1>10. UserProgress'
  BY <1>0 DEF UserProgress, BackwardInOrder, InOrder, clientVars, relayVars, WritesB
<1> QED BY <1>1, <1>4, <1>5, <1>6, <1>7, <1>8, <1>9, <1>10

\* A crash keeps the invariant: it only ends a party and empties its links.
LEMMA CrashKeeps ==
  ASSUME IInv, NEW p \in Parties, Crash(p)
  PROVE  IInv'
<1> USE DEF IInv
<1>1. TypeOK'
  BY FaultType
<1>2. CASE p = 0
  <2>1. /\ pc' = [pc EXCEPT ![0] = "ended"] /\ out' = [out EXCEPT ![0] = <<>>] /\ ClientDrops
        /\ UNCHANGED <<relayVars, clientVars, fwd, far>>
    BY <1>2 DEF Crash, relayVars
  <2>2. pc'[0] = "ended" /\ out'[0] = <<>> /\ \A h \in Hops : pc'[h] = pc[h] /\ out'[h] = out[h]
    BY <2>1, HopSets DEF TypeOK
  <2>3. \A h \in 2..3 : near'[h] = near[h]
    BY <2>1, HopSets DEF ClientDrops, TypeOK
  <2>4. ClientLeaves
    BY <2>1, <2>2, <2>3, HopSets DEF ClientLeaves, clientVars
  <2>5. HopOrder' /\ ExitProgress' /\ UserStream'
    BY <2>4, ClientKeepsRelays
  <2>6. ExitStream' /\ UserProgress'
    BY <2>1, <2>2, EndedStream DEF relayVars
  <2>7. \A q \in 0..2 : WritesF(q)' => out'[q] = out[q]
    <3>1. \A q \in 0..2 : q = 0 \/ q \in Hops
      BY SMT DEF Hops
    <3> QED BY <2>2, <3>1 DEF WritesF
  <2>8. FramesKnownF'
    BY <2>1, <2>7, QuietKnownF DEF clientVars
  <2>9. \A k \in Hops : bwd'[k] = bwd[k] \/ bwd'[k] = <<>>
    BY <2>1 DEF ClientDrops, TypeOK
  <2>10. FramesKnownB'
    BY SMTT(30), <2>1, <2>2, <2>9, QuietKnownB DEF relayVars
  <2> QED BY <1>1, <2>5, <2>6, <2>8, <2>10
<1>3. CASE p # 0
  <2>1. p \in Hops
    BY SMT, <1>3 DEF Hops, Parties
  <2>2. RelayEnds(p) /\ pc[p] # "idle" /\ UNCHANGED <<openF, sealB, destSent, destGot, clientVars>>
    BY <1>3 DEF Crash
  <2>3. RelayLeaves(p)
    BY <2>1, <2>2, RelayEndsLeaves
  <2>4. ExitStream' /\ UserProgress' /\ HopOrder'
    BY <2>1, <2>3, RelayKeepsClient
  <2>5. FramesKnownF' /\ FramesKnownB'
    BY <2>1, <2>2, EndsKnown DEF clientVars
  <2>6. CASE p = 3
    BY <1>1, <2>2, <2>3, <2>4, <2>5, <2>6, ExitEnds
  <2>7. CASE p # 3
    <3>1. p \in 1..2
      BY <2>1, <2>7, HopSets
    <3> QED BY <1>1, <2>3, <2>4, <2>5, <3>1, InnerKeepsExit
  <2> QED BY <2>6, <2>7
<1> QED BY <1>2, <1>3

(***************************************************************************)
(* The theorems.                                                           *)
(***************************************************************************)
\* Every step keeps the invariant.
LEMMA InvNext == IInv /\ [Next]_vars => IInv'
<1> SUFFICES ASSUME IInv, [Next]_vars PROVE IInv'
  BY SMT
<1>1. CASE Client
  <2>1. TypeOK'
    BY <1>1, ClientType DEF IInv
  <2>2. HopOrder' /\ ExitProgress' /\ UserStream'
    BY <1>1, ClientFrame, ClientKeepsRelays DEF IInv
  <2> QED BY <1>1, <2>1, <2>2, ClientStream, ClientKnown DEF IInv
<1>2. ASSUME NEW h \in Hops, RelayStep(h)
      PROVE  IInv'
  <2>1. TypeOK'
    BY <1>2, RelayType DEF IInv
  <2>2. RelayLeaves(h)
    BY <1>2, RelayFrame DEF IInv
  <2>3. ExitStream' /\ UserProgress' /\ HopOrder'
    BY <1>2, <2>2, RelayKeepsClient
  <2>4. FramesKnownF' /\ FramesKnownB'
    BY <1>2, RelayKnown
  <2>5. ExitProgress' /\ UserStream'
    <3>1. CASE h = 3
      BY <1>2, <3>1, ExitKeeps
    <3>2. CASE h \in 1..2
      BY <2>2, <3>2, InnerKeepsExit
    <3> QED BY <3>1, <3>2, HopSets
  <2> QED BY <2>1, <2>3, <2>4, <2>5 DEF IInv
<1>3. CASE \E h \in Hops : Relay(h)
  BY <1>2, <1>3 DEF RelayStep
<1>4. CASE \E h \in {1, 2} : open_next_link(h) \/ open_next_link_error(h)
  <2>1. PICK h \in {1, 2} : open_next_link(h) \/ open_next_link_error(h)
    BY <1>4
  <2>2. h \in Hops /\ h < 3
    BY SMT DEF Hops
  <2> QED BY <1>2, <2>1, <2>2 DEF RelayStep
<1>5. CASE Exit
  BY <1>2, <1>5, HopSets DEF RelayStep
<1>6. CASE \E l \in Hops : Damage(l)
  BY <1>6, DamageKeeps
<1>7. CASE \E p \in Parties : Crash(p)
  BY <1>7, CrashKeeps
<1>8. CASE UNCHANGED vars
  <2>1. UNCHANGED <<pc, out, circuit, openF, sealB, dest, destSent, destGot, hopsUp, sealF, openB,
                    userSent, userGot, fwd, bwd, near, far, faults>>
    BY <1>8 DEF vars, relayVars, clientVars, linkVars
  <2>2. TypeOK' /\ HopOrder'
    BY <2>1 DEF IInv, TypeOK, HopOrder
  <2>3. FramesKnownF' /\ FramesKnownB'
    BY <2>1, QuietKnownF, QuietKnownB DEF IInv
  <2>4. ExitStream' /\ UserStream'
    BY <2>1 DEF IInv, ExitStream, UserStream, WritesF, WritesB
  <2>5. ExitProgress' /\ UserProgress'
    BY <2>1 DEF IInv, ExitProgress, UserProgress, ForwardInOrder, BackwardInOrder, InOrder, WritesF, WritesB
  <2> QED BY <2>2, <2>3, <2>4, <2>5 DEF IInv
<1> QED BY <1>1, <1>3, <1>4, <1>5, <1>6, <1>7, <1>8 DEF Next, Terminated

\* Type correctness of the client task, the three relay tasks and the links.
THEOREM TypeCorrect == Spec => []TypeOK
<1>1. IInv => TypeOK
  BY DEF IInv
<1> QED BY <1>1, InvInit, InvNext, PTL DEF Spec

\* For any number of chunks, any link capacity and any number of damaged
\* frames and crashes, what run_circuit_io writes to the destination is a
\* prefix of what circuit_task read from the user.
THEOREM ForwardOrder == Spec => []ForwardInOrder
<1>1. IInv => ForwardInOrder
  BY DEF IInv, ExitProgress
<1> QED BY <1>1, InvInit, InvNext, PTL DEF Spec

\* And what circuit_task writes to the user is a prefix of what the exit's
\* run_circuit_io read from the destination.
THEOREM BackwardOrder == Spec => []BackwardInOrder
<1>1. IInv => BackwardInOrder
  BY DEF IInv, UserProgress
<1> QED BY <1>1, InvInit, InvNext, PTL DEF Spec
=============================================================================
