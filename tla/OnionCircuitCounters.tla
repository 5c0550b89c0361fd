------------------------ MODULE OnionCircuitCounters ------------------------
(***************************************************************************)
(* Every step of OnionCircuit keeps CounterInv of OnionCircuitTypes: while *)
(* nothing is damaged and no process has died, each link carries the       *)
(* frames its receiver will open next, in order, and the client's layers   *)
(* line up with what the relays have passed on.  OnionCircuitTunnel draws  *)
(* the theorem from it.                                                    *)
(***************************************************************************)
EXTENDS OnionCircuitTypes

\* Zenon proves what names no other prover.
USE ZenonT(60)

(***************************************************************************)
(* A relay's step.                                                         *)
(***************************************************************************)

\* What a relay's step leaves of the other links.
LEMMA RelayViews ==
  ASSUME IInv, NEW h \in Hops, RelayStep(h), NEW l \in Hops, l # h + 1
  PROVE  NearSame(l)
<1>1. RelayLeaves(h) /\ near'[l] = near[l]
  <2>1. RelayLeaves(h)
    BY RelayFrame DEF IInv
  <2> QED BY <2>1 DEF RelayLeaves
<1>2. CASE l = 1
  <2>1. /\ pc'[0] = pc[0] /\ out'[0] = out[0] /\ hopsUp' = hopsUp /\ sealF' = sealF /\ openB' = openB
        /\ l - 1 = 0
    BY SMT, <1>1, <1>2 DEF RelayLeaves, clientVars
  <2> QED BY <1>1, <2>1 DEF NearSame, Waits, Reads, Sent, Took, WritesF, Up
<1>3. CASE l # 1
  <2> DEFINE a == l - 1
  <2>1. a \in Hops /\ a # 0 /\ a # h /\ a + 1 = l /\ (a = h + 1 => h \in 1..2)
    BY SMT, <1>3, HopSets DEF Hops
  <2>2. out'[a] = out[a] /\ openF'[a] = openF[a] /\ sealB'[a] = sealB[a]
    BY <1>1, <2>1 DEF RelayLeaves
  <2>3. pc'[a] = pc[a] \/ (pc[a] = "idle" /\ pc'[a] = "hello")
    <3>1. CASE pc'[a] # pc[a]
      <4>1. a = h + 1 /\ pc[h] = "select" /\ ~near[a] /\ pc'[a] = "hello"
        BY <1>1, <2>1, <3>1 DEF RelayLeaves
      <4>2. h \in 1..2 /\ ~near[h + 1]
        BY <2>1, <4>1
      <4>3. pc[h + 1] = "idle"
        BY <4>1, <4>2 DEF IInv, HopOrder
      <4> QED BY <4>1, <4>3
    <3>2. CASE pc'[a] = pc[a]
      BY <3>2
    <3> QED BY <3>1, <3>2
  <2>4. /\ Waits(a)' <=> Waits(a)
        /\ Reads(a)' <=> Reads(a)
    BY <1>1, <2>1, <2>3 DEF Waits, Reads
  <2>5. Sent(a)' = Sent(a) /\ Took(a)' = Took(a)
    BY <2>1, <2>2 DEF Sent, Took
  <2>6. /\ WritesF(a)' <=> WritesF(a)
        /\ WritesF(a) => out'[a][1].frame = out[a][1].frame
    BY <2>2 DEF WritesF
  <2>7. Up(a) => Up(a)'
    BY <2>3 DEF Up
  <2> QED BY <1>1, <2>4, <2>5, <2>6, <2>7 DEF NearSame
<1> QED BY <1>2, <1>3

\* The links a relay is no end of stay in step.
LEMMA RelayOthers ==
  ASSUME IInv, InStep, NEW h \in Hops, RelayStep(h), NEW l \in Hops, l # h, l # h + 1
  PROVE  Link(l)'
<1>1. RelayLeaves(h) /\ Local(h)
  BY RelayFrame, RelayLocal DEF IInv
<1>2. far'[l] = far[l] /\ fwd'[l] = fwd[l] /\ bwd'[l] = bwd[l]
  BY <1>1 DEF Local
<1>3. pc'[l] = pc[l] /\ openF'[l] = openF[l] /\ sealB'[l] = sealB[l] /\ out'[l] = out[l]
  BY <1>1 DEF RelayLeaves
<1>4. FarSame(l)
  BY <1>2, <1>3 DEF FarSame, WritesB
<1> QED BY <1>2, <1>4, RelayViews, SameLink DEF InStep

\* What another relay has wrapped and passed on stands.
LEMMA OtherExtends ==
  ASSUME IInv, InStep, NEW h \in Hops, RelayStep(h), NEW k \in 1..2, k # h
  PROVE  Extends(k)'
<1>0. k \in Hops /\ k + 1 \in Hops /\ k + 1 # h + 1 /\ (k = h + 1 => h \in 1..2)
  BY SMT, HopSets DEF Hops
<1>1. RelayLeaves(h)
  BY RelayFrame DEF IInv
<1>2. openF'[k] = openF[k] /\ sealB'[k] = sealB[k] /\ near'[k + 1] = near[k + 1]
  BY <1>0, <1>1 DEF RelayLeaves
<1>3. pc'[k] = pc[k] \/ pc'[k] = "hello"
  BY <1>0, <1>1 DEF RelayLeaves
<1> QED BY <1>2, <1>3 DEF InStep, Extends

\* The link to the client's side: what every step of relay h does to it.
LEMMA EndsFar ==
  ASSUME IInv, NEW h \in Hops, Link(h), NearSame(h), RelayEnds(h), UNCHANGED <<openF, sealB>>
  PROVE  Link(h)'
<1>1. pc'[h] = "ended" /\ out'[h] = <<>>
  BY HopSets DEF RelayEnds, IInv, TypeOK
<1>2. bwd'[h] = bwd[h]
  <2>1. h # h + 1
    BY SMT, HopSets
  <2> QED BY <2>1 DEF RelayEnds
<1> QED BY <1>1, <1>2, FarEnds DEF IInv

\* A cell the relay seals for the client takes the next number of its link.
LEMMA ReplyFar ==
  ASSUME IInv, NEW h \in Hops, Link(h), NearSame(h), Serves(h), Serves(h)', out[h] = <<>>,
         NEW plain, ReplyWith(h, plain), openF' = openF, openF[h] >= 1, far'[h] = far[h],
         fwd'[h] = fwd[h], bwd'[h] = bwd[h]
  PROVE  Link(h)'
<1>1. out'[h] = Bwd(Sealed(h, Len(sealB[h]) + 1)) /\ sealB'[h] = Append(sealB[h], plain)
  BY ReplyLeaves DEF IInv
<1>2. WritesB(h)' /\ out'[h][1].frame = Sealed(h, Len(sealB[h]) + 1) /\ ~WritesB(h)
  BY <1>1, WriteForms DEF WritesB
<1>3. Len(sealB'[h]) = Len(sealB[h]) + 1
  <2>1. sealB[h] \in Seq(Plain)
    BY LinkTypes DEF IInv
  <2> QED BY SMT, <1>1, <2>1
<1> QED BY <1>2, <1>3, FarRuns DEF IInv

\* A frame the select loop opens is the first of its run; what it replies, or
\* passes on, follows.
LEMMA InboundFar ==
  ASSUME IInv, NEW h \in Hops, Link(h), NearSame(h), run_inbound(h)
  PROVE  Link(h)'
<1> DEFINE p == PlainF(h, Head(fwd[h]))
<1>0. /\ pc[h] = "select" /\ out[h] = <<>> /\ ~WritesB(h) /\ h \in Parties
      /\ fwd[h] # <<>> /\ bwd'[h] = bwd[h]
  BY HopSets DEF run_inbound, At, RelayReads, WritesB
<1>1. fwd'[h] = Tail(fwd[h]) /\ openF'[h] = openF[h] + 1 /\ openF[h] \in Nat
  BY DEF run_inbound, RelayReads, IInv, TypeOK
<1>2. far'[h] = far[h]
  <2>1. h + 1 # h
    BY SMT, HopSets
  <2> QED BY <2>1 DEF run_inbound, IInv, TypeOK
<1>3. CASE p.type = "CloseRequest"
  <2>1. pc'[h] = "closing" /\ ReplyWith(h, ToMe("CloseAck", 0))
    BY <1>0, <1>3 DEF run_inbound, IInv, TypeOK
  <2>2. out'[h] = Bwd(Sealed(h, Len(sealB[h]) + 1)) /\ sealB'[h] = Append(sealB[h], ToMe("CloseAck", 0))
    BY <2>1, ReplyLeaves DEF IInv
  <2>3. WritesB(h)' /\ out'[h][1].frame = Sealed(h, Len(sealB[h]) + 1)
    BY <2>2, WriteForms DEF WritesB
  <2>4. Len(sealB'[h]) = Len(sealB[h]) + 1
    <3>1. sealB[h] \in Seq(Plain)
      BY LinkTypes DEF IInv
    <3> QED BY SMT, <2>2, <3>1
  <2>5. openF'[h] >= 1 /\ Serves(h) /\ Serves(h)'
    BY SMT, <1>0, <1>1, <2>1 DEF Serves
  <2> QED BY <1>0, <1>1, <1>2, <2>3, <2>4, <2>5, FarRuns DEF IInv
<1>4. CASE p.type # "CloseRequest"
  <2>1. sealB' = sealB
    BY <1>4 DEF run_inbound
  <2>2. out' = out \/ \E f : out' = [out EXCEPT ![h] = Fwd(f)]
    BY <1>4 DEF run_inbound
  <2>3. ~WritesB(h)'
    <3>1. CASE out' = out
      BY <1>0, <3>1 DEF WritesB
    <3>2. CASE \E f : out' = [out EXCEPT ![h] = Fwd(f)]
      BY SMTT(30), <1>0, <3>2 DEF WritesB, Fwd, IInv, TypeOK
    <3> QED BY <2>2, <3>1, <3>2
  <2>4. pc' = pc \/ pc' = [pc EXCEPT ![h] = "dial", ![h + 1] = "hello"]
    BY <1>4 DEF run_inbound
  <2>5. pc'[h] \in {"select", "dial"}
    <3>1. h + 1 # h
      BY SMT, HopSets
    <3> QED BY <1>0, <2>4, <3>1 DEF IInv, TypeOK
  <2>6. Serves(h) /\ Serves(h)'
    BY <1>0, <2>5 DEF Serves
  <2> QED BY <1>0, <1>1, <1>2, <2>1, <2>3, <2>6, FarRuns DEF IInv
<1> QED BY <1>3, <1>4

\* Every step of a relay keeps the link to the hop before it in step.
LEMMA RelayFar ==
  ASSUME IInv, InStep, DestLink, NEW h \in Hops, RelayStep(h)
  PROVE  Link(h)'
<1>0. Link(h) /\ NearSame(h) /\ TypeOK
  <2>1. h # h + 1
    BY SMTT(30), HopSets
  <2> QED BY <2>1, RelayViews DEF InStep, IInv
<1>t. /\ pc \in [Parties -> PCs] /\ out \in [Parties -> Seq(Write)] /\ fwd \in [Hops -> Seq(Frame)]
      /\ bwd \in [Hops -> Seq(Frame)] /\ h \in Parties /\ h # h + 1
  <2>1. h # h + 1
    BY SMT, HopSets
  <2> QED BY <1>0, <2>1, HopSets DEF TypeOK
<1>e. ASSUME RelayEnds(h), UNCHANGED <<openF, sealB>> PROVE Link(h)'
  BY <1>e, <1>0, EndsFar
<1>f. ASSUME Fail(h) PROVE Link(h)'
  BY <1>e, <1>f DEF Fail
<1>1. CASE handle_connection(h)
  <2>1. CASE ~RelayEnds(h)
    <3>1. /\ pc[h] = "hello" /\ pc'[h] = "handshake" /\ fwd[h] # <<>> /\ fwd'[h] = Tail(fwd[h])
          /\ UNCHANGED <<out, bwd, far, openF, sealB>>
      BY <1>t, <1>1, <2>1 DEF handle_connection, At, RelayReads
    <3> QED BY <1>0, <3>1, FarReads
  <2> QED BY <1>e, <1>1, <2>1 DEF handle_connection
<1>2. CASE presentation_timeout(h) \/ close(h)
  BY <1>e, <1>2 DEF presentation_timeout, close
<1>3. CASE drive_circuit(h)
  <2>1. CASE ~Fail(h)
    <3>1. /\ pc[h] = "handshake" /\ pc'[h] = "select"
          /\ UNCHANGED <<fwd, bwd, far, openF, sealB>>
      BY <1>t, <1>3, <2>1 DEF drive_circuit, At, linkVars, relayVars
    <3>2. openF[h] = 0
      BY <3>1 DEF IInv, ExitProgress
    <3> QED BY <1>0, <3>1, <3>2, FarAnswers
  <2> QED BY <1>f, <2>1
<1>4. CASE run_inbound(h)
  BY <1>0, <1>4, InboundFar
<1>5. CASE run_inbound_error(h) \/ cell_read_timeout(h) \/ RelayWriteFails(h)
           \/ open_next_link_error(h)
  BY <1>f, <1>5 DEF run_inbound_error, cell_read_timeout, RelayWriteFails, open_next_link_error
<1>6. CASE h < 3 /\ open_next_link(h)
  <2>1. h \in 1..2
    BY SMT, <1>6, HopSets
  <2>2. /\ pc[h] = "dial" /\ out[h] = <<>> /\ pc'[h] = "select" /\ bwd'[h] = bwd[h]
        /\ UNCHANGED <<openF, fwd, far>> /\ ReplyWith(h, ToMe("Extend", 0))
    BY <1>t, <1>6 DEF open_next_link, At
  <2>3. openF[h] >= 1 /\ Serves(h) /\ Serves(h)'
    BY SMTT(30), <2>1, <2>2 DEF InStep, Extends, Serves
  <2> QED BY <1>0, <2>2, <2>3, ReplyFar
<1>7. CASE run_next(h)
  <2>1. CASE ~Fail(h)
    <3>1. h \in 1..2 /\ near[h + 1]
      BY SMT, <1>7, HopSets DEF run_next, HasNext
    <3>2. /\ pc[h] = "select" /\ out[h] = <<>> /\ pc' = pc /\ bwd'[h] = bwd[h]
          /\ UNCHANGED <<openF, fwd, far>> /\ ReplyWith(h, Forward(Head(bwd[h + 1])))
      BY <1>t, <1>7, <2>1 DEF run_next, At
    <3>3. openF[h] >= 1 /\ Serves(h) /\ Serves(h)'
      BY <3>1, <3>2 DEF InStep, Extends, Serves
    <3> QED BY <1>0, <3>2, <3>3, ReplyFar
  <2> QED BY <1>f, <2>1
<1>8. CASE RelayWritesBack(h)
  <2>1. /\ WritesB(h) /\ out'[h] = <<>> /\ UNCHANGED <<pc, openF, sealB, fwd, far>>
        /\ bwd'[h] = IF near[h] THEN Append(bwd[h], out[h][1].frame) ELSE bwd[h]
    BY <1>t, <1>8 DEF RelayWritesBack, WritesB
  <2>2. ~WritesB(h)' /\ pc[h] \notin PreCircuit
    BY <2>1, WritingUp DEF WritesB, IInv
  <2> QED BY <1>0, <2>1, <2>2, FarWrites
<1>9. CASE RelayWritesOn(h) \/ (h = 3 /\ DestTakes /\ ~Fail(3))
  <2>1. /\ out[h] # <<>> /\ out[h][1].dir = "fwd" /\ out'[h] = <<>>
        /\ UNCHANGED <<pc, openF, sealB, far, bwd>> /\ fwd'[h] = fwd[h]
    BY <1>t, <1>9 DEF RelayWritesOn, DestTakes, relayVars, linkVars
  <2>2. FarSame(h)
    BY <2>1 DEF FarSame, WritesB
  <2> QED BY <1>0, <2>1, <2>2, SameLink
<1>10. CASE h = 3 /\ run_dest
  <2>0. pc[h] = "select" /\ out[h] = <<>> /\ dest = "up"
    BY <1>10 DEF run_dest, At
  <2>1. CASE ReplyWith(3, ToMe("Data", destSent + 1)) /\ UNCHANGED <<pc, openF, linkVars>>
    <3>1. openF[h] >= 1 /\ Serves(h) /\ Serves(h)' /\ UNCHANGED <<fwd, bwd, far>>
      BY <1>10, <2>0, <2>1 DEF DestLink, Serves, linkVars
    <3> QED BY <1>0, <1>10, <2>0, <2>1, <3>1, ReplyFar
  <2>2. CASE UNCHANGED <<pc, out, openF, sealB, linkVars>>
    <3>1. FarSame(h) /\ UNCHANGED <<fwd, bwd>>
      BY <2>2 DEF FarSame, WritesB, linkVars
    <3> QED BY <1>0, <3>1, SameLink
  <2>3. CASE Fail(3)
    BY <1>f, <1>10, <2>3
  <2> QED BY <1>10, <2>1, <2>2, <2>3 DEF run_dest
<1> QED BY <1>f, <1>1, <1>2, <1>3, <1>4, <1>5, <1>6, <1>7, <1>8, <1>9, <1>10
        DEF RelayStep, Relay, Exit

\* The link toward the exit.  A cell relay h opens first is EXTEND; every
\* later one carries the next frame of the hop after it.
LEMMA InnerCell ==
  ASSUME IInv, Layered, NEW h \in 1..2, run_inbound(h)
  PROVE  LET p == PlainF(h, Head(fwd[h]))
         IN p = IF openF[h] = 0 THEN ToMe("Extend", 0) ELSE Forward(Sealed(h + 1, openF[h]))
<1>0. h \in Hops
  BY SMTT(30), HopSets DEF Hops
<1>1. fwd[h] # <<>> /\ OpensF(h, Head(fwd[h])) /\ openF[h] \in Nat
  BY <1>0 DEF run_inbound, RelayReads, Legal, IInv, TypeOK
<1>2. PICK n : n = openF[h] + 1
  BY SMT
<1>3. n \in 1..Len(sealF[h]) /\ PlainF(h, Head(fwd[h])) = sealF[h][n]
  BY <1>0, <1>1, <1>2, OpensKnown DEF IInv
<1>4. sealF[h][n] = IF n = 1 THEN ToMe("Extend", 0) ELSE Forward(Sealed(h + 1, n - 1))
  BY <1>3 DEF Layered, Carries
<1>5. (n = 1 <=> openF[h] = 0) /\ n - 1 = openF[h]
  BY SMT, <1>1, <1>2
<1> QED BY <1>3, <1>4, <1>5

\* EXTEND and FORWARD: what the select loop writes on is the next frame of the
\* link to the next hop.
LEMMA InboundNear ==
  ASSUME IInv, InStep, NEW h \in 1..2, NEW l \in Hops, l = h + 1, run_inbound(h)
  PROVE  Link(l)' /\ Extends(h)'
<1> DEFINE p == PlainF(h, Head(fwd[h]))
<1>t. /\ h \in Hops /\ h \in Parties /\ h # 0 /\ l \in Parties /\ h = l - 1 /\ h + 1 \in Hops
      /\ l # h /\ h # h + 1
  BY SMTT(30), HopSets DEF Hops, Parties
<1>0. /\ Link(l) /\ Extends(h) /\ Layered /\ TypeOK
      /\ pc[h] = "select" /\ out[h] = <<>> /\ bwd' = bwd /\ openF[h] \in Nat
  BY <1>t DEF run_inbound, At, InStep, IInv, TypeOK
<1>1. /\ openF'[h] = openF[h] + 1 /\ openF'[l] = openF[l] /\ fwd'[l] = fwd[l]
  BY <1>t, <1>0 DEF run_inbound, RelayReads, TypeOK
<1>2. p = IF openF[h] = 0 THEN ToMe("Extend", 0) ELSE Forward(Sealed(h + 1, openF[h]))
  BY <1>0, InnerCell
<1>3. Legal(h, Head(fwd[h]))
  BY DEF run_inbound
<1>4. CASE openF[h] = 0
  <2>1. p.type = "Extend" /\ ~near[l]
    BY SMTT(30), <1>2, <1>3, <1>4 DEF ToMe, Legal, HasNext
  <2>2. /\ near' = [near EXCEPT ![h + 1] = TRUE] /\ far' = [far EXCEPT ![h + 1] = TRUE]
        /\ pc' = [pc EXCEPT ![h] = "dial", ![h + 1] = "hello"]
        /\ out' = [out EXCEPT ![h] = Fwd(Hs)] /\ sealB' = sealB
    BY <2>1 DEF run_inbound
  <2>3. /\ near'[l] /\ far'[l] /\ pc'[l] = "hello" /\ pc'[h] = "dial" /\ out'[l] = out[l]
    BY <1>t, <1>0, <2>2 DEF TypeOK
  <2>4. pc[l] = "idle"
    BY <1>t, <1>0, <2>1 DEF IInv, HopOrder
  <2>5. out[l] = <<>>
    BY <2>4 DEF IInv, ExitProgress
  <2>6. sealB[h] = <<>>
    BY <1>0, <2>1 DEF Extends
  <2>7. Waits(l - 1)' /\ Up(l - 1)'
    BY <1>t, <2>3 DEF Waits, Up
  <2>8. Sent(l - 1)' = 0
    BY SMTT(30), <1>t, <1>1, <1>4 DEF Sent
  <2>9. Link(l)'
    BY <1>0, <1>1, <2>2, <2>3, <2>4, <2>5, <2>7, <2>8, NearOpens
  <2>10. Extends(h)'
    BY SMTT(30), <1>0, <1>1, <1>4, <2>2, <2>3, <2>6 DEF Extends
  <2> QED BY <2>9, <2>10
<1>5. CASE openF[h] # 0
  <2>1. p = Forward(Sealed(l, openF[h])) /\ p.type = "Forward" /\ p.inner = Sealed(l, openF[h])
    BY SMT, <1>2, <1>5 DEF Forward
  <2>2. near[l]
    BY <1>3, <2>1 DEF Legal, HasNext
  <2>3. out' = [out EXCEPT ![h] = Fwd(p.inner)] /\ UNCHANGED <<pc, sealB, near, far>>
    BY <2>1 DEF run_inbound
  <2>4. out'[h] = Fwd(Sealed(l, openF[h])) /\ out'[l] = out[l]
    BY <1>t, <1>0, <2>1, <2>3 DEF TypeOK
  <2>5. WritesF(l - 1)' /\ out'[l - 1][1].frame = Sealed(l, openF[h]) /\ ~WritesF(l - 1)
    BY SMTT(30), <1>t, <1>0, <2>4 DEF WritesF, Fwd
  <2>6. Sent(l - 1)' = Sent(l - 1) + 1 /\ Sent(l - 1) + 1 = openF[h]
    BY SMT, <1>t, <1>0, <1>1 DEF Sent
  <2>7. Took(l - 1)' = Took(l - 1)
    BY <1>t, <2>3 DEF Took
  <2>8. Reads(l - 1) /\ ~Waits(l - 1)' /\ Up(l - 1)'
    BY <1>t, <1>0, <2>2, <2>3 DEF Reads, Waits, Up
  <2>9. FarSame(l)
    BY <1>1, <2>3, <2>4 DEF FarSame, WritesB
  <2>10. Link(l)'
    BY <1>0, <1>1, <2>2, <2>3, <2>5, <2>6, <2>7, <2>8, <2>9, NearRuns
  <2>11. Extends(h)'
    BY SMTT(30), <1>0, <1>1, <2>2, <2>3 DEF Extends
  <2> QED BY <2>10, <2>11
<1> QED BY <1>4, <1>5

\* One more cell wrapped toward the client.
LEMMA WrapCarries ==
  ASSUME NEW q \in Seq(Plain), NEW h \in Nat, Carries(q, h), NEW c,
         c = IF q = <<>> THEN ToMe("Extend", 0) ELSE Forward(Sealed(h + 1, Len(q)))
  PROVE  Carries(Append(q, c), h)
<1>1. /\ Len(q) \in Nat /\ Len(Append(q, c)) = Len(q) + 1 /\ Append(q, c)[Len(q) + 1] = c
      /\ \A j \in 1..Len(q) : Append(q, c)[j] = q[j]
  BY SMT
<1>2. ASSUME NEW j \in 1..Len(Append(q, c))
      PROVE  Append(q, c)[j] = IF j = 1 THEN ToMe("Extend", 0) ELSE Forward(Sealed(h + 1, j - 1))
  <2>1. CASE j \in 1..Len(q)
    BY <1>1, <2>1 DEF Carries
  <2>2. CASE j \notin 1..Len(q)
    <3>1. j = Len(q) + 1 /\ j - 1 = Len(q)
      BY SMTT(30), <1>1, <2>2
    <3>2. (q = <<>>) <=> (j = 1)
      BY SMT, <1>1, <3>1
    <3> QED BY <1>1, <3>1, <3>2
  <2> QED BY <2>1, <2>2
<1> QED BY <1>2 DEF Carries

\* Every step of a relay before the exit keeps the link to the next hop in
\* step, and what it wraps for the client the next frame it took.
LEMMA RelayNear ==
  ASSUME IInv, InStep, NEW h \in 1..2, NEW l \in Hops, l = h + 1, RelayStep(h)
  PROVE  Link(l)' /\ Extends(h)'
<1>t. /\ h \in Hops /\ h \in Parties /\ h # 0 /\ l \in Parties /\ h = l - 1 /\ l # h /\ h # 3 /\ h < 3
  BY SMTT(30), HopSets DEF Hops, Parties
<1>u. /\ Link(l) /\ Extends(h) /\ Link(h) /\ TypeOK /\ pc \in [Parties -> PCs]
      /\ out \in [Parties -> Seq(Write)] /\ fwd \in [Hops -> Seq(Frame)]
      /\ bwd \in [Hops -> Seq(Frame)] /\ openF[h] \in Nat
  BY <1>t DEF InStep, IInv, TypeOK
<1>s. openF'[l] = openF[l] /\ sealB'[l] = sealB[l] /\ out'[l] = out[l]
  BY <1>t, RelayFrame DEF RelayLeaves, IInv
<1>w. (WritesB(l)' <=> WritesB(l)) /\ out'[l][1].frame = out[l][1].frame
  BY <1>s DEF WritesB
<1>e. ASSUME RelayEnds(h), UNCHANGED <<openF, sealB>> PROVE Link(l)' /\ Extends(h)'
  <2>1. /\ pc'[h] = "ended" /\ pc'[l] = pc[l] /\ out'[h] = <<>> /\ far'[l] = far[l]
        /\ fwd'[l] = fwd[l]
    BY <1>t, <1>u, <1>e DEF RelayEnds, TypeOK
  <2>2. ~near'[l] /\ bwd'[l] = <<>>
    BY <1>t, <1>e DEF RelayEnds
  <2>3. ~WritesF(l - 1)' /\ ~Waits(l - 1)' /\ ~Reads(l - 1)'
    BY <1>t, <2>1 DEF WritesF, Waits, Reads
  <2>4. FarSame(l)
    BY <1>s, <1>w, <2>1 DEF FarSame
  <2>5. Extends(h)'
    BY <1>u, <1>e, <2>1 DEF Extends
  <2> QED BY <1>u, <2>1, <2>2, <2>3, <2>4, <2>5, NearEnds
<1>f. ASSUME Fail(h) PROVE Link(l)' /\ Extends(h)'
  BY <1>e, <1>f DEF Fail
<1>r. ASSUME NEW plain, ReplyWith(h, plain), out[h] = <<>>, near[l], bwd[l] # <<>>,
             bwd'[l] = Tail(bwd[l]), UNCHANGED <<openF, fwd, near, far>>,
             pc'[h] = "select", pc'[l] = pc[l], openF[h] >= 1,
             \/ pc[h] = "dial" /\ plain = ToMe("Extend", 0)
             \/ pc[h] = "select" /\ plain = Forward(Head(bwd[l]))
      PROVE  Link(l)' /\ Extends(h)'
  <2>1. out'[h] = Bwd(Sealed(h, Len(sealB[h]) + 1)) /\ sealB'[h] = Append(sealB[h], plain)
    BY <1>t, <1>r, ReplyLeaves DEF IInv
  <2>2. ~WritesF(l - 1) /\ ~WritesF(l - 1)'
    BY <1>t, <1>r, <2>1, WriteForms DEF WritesF
  <2>3. sealB[h] \in Seq(Plain) /\ Len(sealB[h]) \in Nat /\ bwd[l] \in Seq(Frame)
    BY <1>t, <1>u, LinkTypes
  <2>4. Len(sealB'[h]) = Len(sealB[h]) + 1 /\ sealB'[h] # <<>>
    <3>1. Len(sealB'[h]) = Len(sealB[h]) + 1
      BY SMTT(30), <2>1, <2>3
    <3>2. Len(sealB'[h]) # 0
      BY SMT, <2>3, <3>1
    <3> QED BY <3>1, <3>2, NoneLeft
  <2>5. Sent(l - 1)' = Sent(l - 1) /\ ~Waits(l - 1)' /\ Up(l - 1)'
    BY <1>t, <1>r DEF Sent, Waits, Up
  <2>6. FarSame(l)
    BY <1>r, <1>s, <1>w DEF FarSame
  <2>7. Took(l - 1)' = Len(sealB[h]) /\ Took(l - 1) + 1 = Len(sealB[h])
    BY SMTT(30), <1>t, <2>3, <2>4 DEF Took
  <2>8. CASE pc[h] = "dial" /\ plain = ToMe("Extend", 0)
    <3>1. sealB[h] = <<>> /\ Waits(l - 1)
      BY <1>t, <1>u, <2>8 DEF Extends, Waits
    <3>2. Took(l - 1)' = 0
      BY <2>7, <3>1
    <3>3. Link(l)'
      BY <1>u, <1>r, <2>2, <2>5, <2>6, <3>1, <3>2, NearRuns
    <3>4. Carries(sealB'[h], h)
      <4>1. plain = IF sealB[h] = <<>> THEN ToMe("Extend", 0)
                    ELSE Forward(Sealed(h + 1, Len(sealB[h])))
        BY <2>8, <3>1
      <4>2. Carries(sealB[h], h)
        BY <1>u DEF Extends
      <4>3. h \in Nat
        BY <1>t, HopSets
      <4> QED BY <2>1, <2>3, <4>1, <4>2, <4>3, WrapCarries
    <3> QED BY <1>t, <1>r, <2>4, <3>3, <3>4 DEF Extends
  <2>9. CASE pc[h] = "select" /\ plain = Forward(Head(bwd[l]))
    <3>1. sealB[h] # <<>> /\ Reads(l - 1)
      BY <1>t, <1>u, <1>r, <2>9 DEF Extends, Reads
    <3>2. Took(l - 1)' = Took(l - 1) + 1
      BY <2>7
    <3>3. Link(l)'
      BY <1>u, <1>r, <2>2, <2>5, <2>6, <3>1, <3>2, NearRuns
    <3>4. Head(bwd[l]) = Sealed(l, Len(sealB[h]))
      <4>1. Run(bwd[l], l, Took(l - 1)) /\ Took(l - 1) \in Int /\ l \in Nat
        BY <1>u, <3>1, CountTypes, HopSets DEF Link, InStepB
      <4>2. Head(bwd[l]) = Sealed(l, Took(l - 1) + 1)
        BY <1>r, <2>3, <4>1, RunTail
      <4> QED BY <2>7, <4>2
    <3>5. Carries(sealB'[h], h)
      BY SMTT(30), <1>u, <2>1, <2>3, <2>9, <3>1, <3>4, WrapCarries DEF Extends
    <3> QED BY <1>t, <1>r, <2>4, <3>3, <3>5 DEF Extends
  <2> QED BY <1>r, <2>8, <2>9
<1>k. ASSUME UNCHANGED <<openF, sealB, fwd, bwd, near, far>>, pc'[l] = pc[l],
             Waits(h)' <=> Waits(h), Reads(h)' <=> Reads(h), ~WritesF(h), ~WritesF(h)', Up(h)'
      PROVE  Link(l)'
  <2>1. Sent(h)' = Sent(h) /\ Took(h)' = Took(h)
    BY <1>t, <1>k DEF Sent, Took
  <2>2. NearSame(l) /\ FarSame(l)
    BY <1>t, <1>k, <1>s, <1>w, <2>1 DEF NearSame, FarSame
  <2> QED BY <1>u, <1>k, <2>2, SameLink
<1>1. CASE handle_connection(h)
  <2>1. CASE ~RelayEnds(h)
    <3>1. /\ pc[h] = "hello" /\ pc'[h] = "handshake" /\ pc'[l] = pc[l] /\ out[h] = <<>>
          /\ fwd'[l] = fwd[l] /\ UNCHANGED <<out, bwd, near, far, openF, sealB>>
      BY <1>t, <1>u, <1>1, <2>1 DEF handle_connection, At, RelayReads
    <3>2. /\ ~Waits(l - 1) /\ ~Waits(l - 1)' /\ ~Reads(l - 1) /\ ~Reads(l - 1)'
          /\ ~WritesF(l - 1) /\ ~WritesF(l - 1)' /\ Up(l - 1)'
      BY <1>t, <3>1 DEF Waits, Reads, WritesF, Up
    <3>3. Sent(l - 1)' = Sent(l - 1) /\ Took(l - 1)' = Took(l - 1)
      BY <1>t, <3>1 DEF Sent, Took
    <3>4. NearSame(l) /\ FarSame(l)
      BY <1>s, <1>w, <3>1, <3>2, <3>3 DEF NearSame, FarSame
    <3>5. Link(l)'
      BY <1>u, <3>1, <3>4, SameLink
    <3> QED BY <1>u, <3>1, <3>5 DEF Extends
  <2> QED BY <1>e, <1>1, <2>1 DEF handle_connection
<1>2. CASE presentation_timeout(h) \/ close(h)
  BY <1>e, <1>2 DEF presentation_timeout, close
<1>3. CASE drive_circuit(h)
  <2>1. CASE ~Fail(h)
    <3>1. /\ pc[h] = "handshake" /\ pc'[h] = "select" /\ pc'[l] = pc[l] /\ out[h] = <<>>
          /\ out'[h] = Bwd(Hs) /\ UNCHANGED <<fwd, bwd, near, far, openF, sealB>>
      BY <1>t, <1>u, <1>3, <2>1 DEF drive_circuit, At, linkVars, relayVars
    <3>2. pc[l] = "idle"
      BY <3>1 DEF IInv, HopOrder
    <3>3. ~near[h + 1] /\ openF[h] = 0 /\ sealB[h] = <<>>
      BY <1>t, <1>u, <3>1, <3>2 DEF Link, Fresh, PreCircuit, IInv, ExitProgress
    <3>4. /\ ~Waits(h) /\ ~Waits(h)' /\ ~Reads(h) /\ ~Reads(h)'
          /\ ~WritesF(h) /\ ~WritesF(h)' /\ Up(h)'
      BY SMTT(30), <1>t, <3>1, <3>3 DEF Waits, Reads, WritesF, Up, Bwd
    <3>5. Link(l)'
      BY <1>k, <3>1, <3>4
    <3> QED BY <1>u, <3>1, <3>3, <3>5 DEF Extends
  <2> QED BY <1>f, <2>1
<1>4. CASE run_inbound(h)
  BY <1>4, InboundNear
<1>5. CASE run_inbound_error(h) \/ cell_read_timeout(h) \/ RelayWriteFails(h)
           \/ open_next_link_error(h)
  BY <1>f, <1>5 DEF run_inbound_error, cell_read_timeout, RelayWriteFails, open_next_link_error
<1>6. CASE open_next_link(h)
  <2>1. /\ pc[h] = "dial" /\ out[h] = <<>> /\ pc'[h] = "select" /\ pc'[l] = pc[l] /\ bwd[l] # <<>>
        /\ bwd'[l] = Tail(bwd[l]) /\ UNCHANGED <<openF, fwd, near, far>>
        /\ ReplyWith(h, ToMe("Extend", 0))
    BY <1>t, <1>u, <1>6 DEF open_next_link, At
  <2>0. openF[h] = 1
    BY <1>u, <2>1 DEF Extends
  <2>2. openF[h] >= 1 /\ Waits(l - 1)
    <3>1. Waits(l - 1)
      BY <1>t, <2>1 DEF Waits
    <3>2. openF[h] >= 1
      BY SMT, <2>0
    <3> QED BY <3>1, <3>2
  <2>3. near[l]
    BY <1>u, <2>2 DEF Link, Joined
  <2> QED BY <1>r, <2>1, <2>2, <2>3
<1>7. CASE run_next(h)
  <2>1. CASE ~Fail(h)
    <3>1. /\ pc[h] = "select" /\ out[h] = <<>> /\ pc' = pc /\ near[l] /\ bwd[l] # <<>>
          /\ bwd'[l] = Tail(bwd[l]) /\ UNCHANGED <<openF, fwd, near, far>>
          /\ ReplyWith(h, Forward(Head(bwd[l])))
      BY <1>t, <1>u, <1>7, <2>1 DEF run_next, At, HasNext
    <3>2. openF[h] >= 1
      BY <1>u, <3>1 DEF Extends
    <3> QED BY <1>r, <3>1, <3>2
  <2> QED BY <1>f, <2>1
<1>8. CASE RelayWritesBack(h)
  <2>1. /\ out[h] # <<>> /\ out[h][1].dir = "bwd" /\ out'[h] = <<>> /\ bwd'[l] = bwd[l]
        /\ UNCHANGED <<pc, openF, sealB, fwd, near, far>>
    BY <1>t, <1>u, <1>8 DEF RelayWritesBack
  <2>2. /\ Waits(l - 1)' <=> Waits(l - 1)
        /\ Reads(l - 1)' <=> Reads(l - 1)
        /\ ~WritesF(l - 1) /\ ~WritesF(l - 1)' /\ (Up(l - 1) => Up(l - 1)')
    BY <1>t, <2>1 DEF Waits, Reads, WritesF, Up
  <2>3. Sent(l - 1)' = Sent(l - 1) /\ Took(l - 1)' = Took(l - 1)
    BY <1>t, <2>1 DEF Sent, Took
  <2>4. NearSame(l) /\ FarSame(l)
    BY <1>s, <1>w, <2>1, <2>2, <2>3 DEF NearSame, FarSame
  <2>5. Link(l)'
    BY <1>u, <2>1, <2>4, SameLink
  <2> QED BY <1>u, <2>1, <2>5 DEF Extends
<1>9. CASE RelayWritesOn(h)
  <2>1. /\ WritesF(l - 1) /\ ~WritesF(l - 1)' /\ UNCHANGED <<pc, openF, sealB, bwd, near, far>>
        /\ fwd'[l] = IF far[l] THEN Append(fwd[l], out[l - 1][1].frame) ELSE fwd[l]
    BY <1>t, <1>u, <1>9 DEF RelayWritesOn, WritesF, relayVars
  <2>2. /\ Waits(l - 1)' <=> Waits(l - 1)
        /\ Reads(l - 1)' <=> Reads(l - 1)
    BY <1>t, <2>1 DEF Waits, Reads
  <2>3. Sent(l - 1)' = Sent(l - 1) /\ Took(l - 1)' = Took(l - 1)
    BY <1>t, <2>1 DEF Sent, Took
  <2>4. Up(l - 1)'
    BY <1>u, <2>1 DEF Link, Joined, Up
  <2>5. FarSame(l)
    BY <1>s, <1>w, <2>1 DEF FarSame
  <2>6. out[l - 1][1].frame \in Frame
    BY <1>t, <1>u, <2>1, PendingFrame DEF WritesF
  <2>7. Link(l)'
    BY <1>u, <2>1, <2>2, <2>3, <2>4, <2>5, <2>6, NearWrites
  <2> QED BY <1>u, <2>1, <2>7 DEF Extends
<1> QED BY <1>t, <1>1, <1>2, <1>3, <1>4, <1>5, <1>6, <1>7, <1>8, <1>9 DEF RelayStep, Relay

(***************************************************************************)
(* The client's step.                                                      *)
(***************************************************************************)

\* What the client seals for hop k, wrapped for the hops before it, follows
\* on in every transport.
LEMMA SendLayers ==
  ASSUME IInv, Layered, NEW k \in Hops, NEW cell, SendFor(k, cell),
         \/ hopsUp = 3 /\ hopsUp' = 3 /\ k = 3
         \/ hopsUp = k - 1 /\ hopsUp' = k /\ (k < 3 => cell = ToMe("Extend", 0))
  PROVE  /\ \A h \in 1..2 :
               /\ Carries(sealF'[h], h)
               /\ IF hopsUp' >= h THEN Len(sealF'[h]) = Len(sealF'[h + 1]) + 1 ELSE sealF'[h] = <<>>
         /\ Len(sealF'[1]) = Len(sealF[1]) + 1
<1>t. \A h \in Hops : sealF[h] \in Seq(Plain) /\ Len(sealF[h]) \in Nat
  BY SMT DEF IInv, TypeOK
<1>g. /\ \A h \in Hops : h > k => sealF'[h] = sealF[h]
      /\ sealF'[k] = Append(sealF[k], cell)
      /\ \A h \in Hops : h < k =>
            sealF'[h] = Append(sealF[h], Forward(Sealed(h + 1, Len(sealF[h + 1]) + 1)))
  BY SendGrows DEF IInv
<1>n. \A h \in Hops : h <= k => Len(sealF'[h]) = Len(sealF[h]) + 1
  <2> SUFFICES ASSUME NEW h \in Hops, h <= k PROVE Len(sealF'[h]) = Len(sealF[h]) + 1
    BY SMT
  <2>1. \E c : sealF'[h] = Append(sealF[h], c)
    <3>1. h = k \/ h < k
      BY SMT, HopSets
    <3> QED BY <1>g, <3>1
  <2> QED BY SMT, <1>t, <2>1
<1>1. ASSUME NEW h \in 1..2
      PROVE  /\ Carries(sealF'[h], h)
             /\ IF hopsUp' >= h THEN Len(sealF'[h]) = Len(sealF'[h + 1]) + 1 ELSE sealF'[h] = <<>>
  <2>0. /\ h \in Hops /\ h + 1 \in Hops /\ h \in Nat /\ Carries(sealF[h], h)
        /\ IF hopsUp >= h THEN Len(sealF[h]) = Len(sealF[h + 1]) + 1 ELSE sealF[h] = <<>>
    BY SMTT(30), HopSets DEF Layered, Hops
  <2>1. CASE h < k
    <3>1. hopsUp >= h /\ hopsUp' >= h /\ h <= k /\ h + 1 <= k
      BY SMT, <2>1 DEF Hops
    <3>2. Len(sealF[h]) = Len(sealF[h + 1]) + 1
      BY <2>0, <3>1
    <3>3. sealF[h] # <<>>
      BY SMTT(30), <1>t, <2>0, <3>2, NoneLeft
    <3>4. sealF'[h] = Append(sealF[h], Forward(Sealed(h + 1, Len(sealF[h]))))
      BY <1>g, <2>0, <2>1, <3>2
    <3>5. Carries(sealF'[h], h)
      <4>1. PICK c : c = Forward(Sealed(h + 1, Len(sealF[h])))
        BY SMT
      <4>2. c = IF sealF[h] = <<>> THEN ToMe("Extend", 0) ELSE Forward(Sealed(h + 1, Len(sealF[h])))
        BY <3>3, <4>1
      <4>3. Carries(Append(sealF[h], c), h)
        BY <1>t, <2>0, <4>2, WrapCarries
      <4> QED BY <3>4, <4>1, <4>3
    <3>6. Len(sealF'[h]) = Len(sealF'[h + 1]) + 1
      BY <1>t, <1>n, <2>0, <3>1, <3>2
    <3> QED BY <3>1, <3>5, <3>6
  <2>2. CASE h = k
    <3>1. hopsUp = h - 1 /\ hopsUp' = h /\ cell = ToMe("Extend", 0)
      BY SMT, <2>2
    <3>2. sealF[h] = <<>>
      BY SMTT(30), <2>0, <3>1
    <3>3. sealF[h + 1] = <<>>
      <4>1. CASE h = 1
        BY SMTT(30), <3>1, <4>1 DEF Layered
      <4>2. CASE h = 2
        <5>1. Len(sealF[3]) = 0
          BY SMTT(30), <3>1, <4>2 DEF IInv, ExitStream
        <5>2. 3 \in Hops
          BY HopSets
        <5> QED BY SMTT(30), <1>t, <4>2, <5>1, <5>2
      <4> QED BY SMTT(30), <4>1, <4>2
    <3>4. Carries(sealF'[h], h)
      <4>1. cell = IF sealF[h] = <<>> THEN ToMe("Extend", 0) ELSE Forward(Sealed(h + 1, Len(sealF[h])))
        BY <3>1, <3>2
      <4>2. Carries(Append(sealF[h], cell), h)
        BY <1>t, <2>0, <4>1, WrapCarries
      <4> QED BY <1>g, <2>2, <4>2
    <3>5. Len(sealF'[h]) = 0 + 1
      <4>1. h <= k /\ Len(sealF[h]) = 0
        BY SMTT(30), <2>0, <2>2, <3>2, NoneLeft
      <4> QED BY <1>n, <2>0, <4>1
    <3>6. sealF'[h + 1] = <<>>
      BY SMTT(30), <1>g, <2>0, <2>2, <3>3
    <3> QED BY SMTT(30), <2>0, <3>1, <3>4, <3>5, <3>6, NoneLeft
  <2>3. CASE h > k
    <3>1. hopsUp < h /\ ~(hopsUp' >= h) /\ ~(hopsUp >= h)
      BY SMTT(30), <2>3 DEF Hops
    <3> QED BY <1>g, <2>0, <2>3, <3>1
  <2> QED BY SMTT(30), <2>1, <2>2, <2>3 DEF Hops
<1>2. Len(sealF'[1]) = Len(sealF[1]) + 1
  BY SMTT(30), <1>n, HopSets DEF Hops
<1> QED BY <1>1, <1>2

\* Layers::peel_inbound takes three layers off every frame that reaches
\* circuit_task.
LEMMA PeelsAll ==
  ASSUME IInv, InStep, pc[0] = "open", bwd[1] # <<>>
  PROVE  PeelDepth(Head(bwd[1])) = 3
<1>0. hopsUp = 3 /\ openB[1] = openB[3] + 2 /\ openB[2] = openB[3] + 1 /\ openB[3] \in Nat
  BY HopSets DEF IInv, ExitStream, InStep, Layered, TypeOK
<1> DEFINE f == Head(bwd[1])
           g == sealB[1][f.n].inner
           k == sealB[2][g.n].inner
<1>1. f = Sealed(1, openB[1] + 1) /\ f.n = openB[3] + 3
  <2>1. Reads(0) /\ Took(0) = openB[1]
    BY SMTT(30), <1>0 DEF Reads, Took
  <2>2. Run(bwd[1], 1, openB[1])
    BY SMTT(30), <2>1, HopSets DEF InStep, Link, InStepB
  <2>3. f = Sealed(1, openB[1] + 1)
    BY SMTT(30), <1>0, <2>2, RunTail, LinkTypes, HopSets DEF IInv
  <2> QED BY SMTT(30), <1>0, <2>3 DEF Sealed
<1>2. f.n \in 1..Len(sealB[1])
  <2>1. f = bwd[1][1] /\ 1 \in 1..Len(bwd[1])
    BY SMTT(30), HopSets, LinkTypes DEF IInv
  <2>2. KnownB(1, f)
    BY <2>1, HopSets DEF IInv, FramesKnownB
  <2> QED BY SMTT(30), <1>1, <2>2 DEF KnownB, Sealed
<1>3. sealB[1][f.n] = Forward(Sealed(2, openB[3] + 2))
  <2>1. Carries(sealB[1], 1) /\ f.n # 1 /\ f.n - 1 = openB[3] + 2
    BY SMTT(30), <1>0, <1>1 DEF InStep, Extends
  <2> QED BY SMTT(30), <1>2, <2>1 DEF Carries
<1>4. g = Sealed(2, openB[2] + 1) /\ g.n = openB[3] + 2 /\ g.hop = 2
  BY SMTT(30), <1>0, <1>3 DEF Forward, Sealed
<1>5. g.n \in 1..Len(sealB[2])
  <2>1. KnownB(2, g)
    BY SMT, <1>2 DEF IInv, FramesKnownB
  <2> QED BY <1>4, <2>1 DEF KnownB
<1>6. sealB[2][g.n] = Forward(Sealed(3, openB[3] + 1))
  <2>1. Carries(sealB[2], 2) /\ g.n # 1 /\ g.n - 1 = openB[3] + 1
    BY SMTT(30), <1>0, <1>4 DEF InStep, Extends
  <2>2. \A j \in 1..Len(sealB[2]) : j # 1 => sealB[2][j] = Forward(Sealed(3, j - 1))
    BY SMT, <2>1 DEF Carries
  <2> HIDE DEF g
  <2>3. sealB[2][g.n] = Forward(Sealed(3, g.n - 1))
    BY <1>5, <2>1, <2>2
  <2> QED BY <2>1, <2>3
<1>7. k = Sealed(3, openB[3] + 1)
  <2> HIDE DEF g
  <2> QED BY SMTT(30), <1>6 DEF Forward
<1>8. Layer(1, f) = f /\ Layer(2, f) = g /\ Layer(3, f) = k
  BY SMTT(30) DEF Layer
<1>9. PlainB(1, f).type = "Forward" /\ PlainB(2, f).type = "Forward"
  BY SMTT(30), <1>3, <1>6, <1>8 DEF PlainB, Forward
<1> QED BY <1>1, <1>4, <1>7, <1>8, <1>9 DEF PeelDepth, OpensB

\* A step of the client keeps every link but the guard's in step.
LEMMA ClientOthers ==
  ASSUME IInv, InStep, Client
  PROVE  (\A l \in 2..3 : Link(l)') /\ (\A h \in 1..2 : Extends(h)')
<1>1. ClientLeaves /\ Local(0)
  BY ClientFrame, ClientLocal DEF IInv
<1>2. \A h \in Hops : /\ openF'[h] = openF[h] /\ sealB'[h] = sealB[h] /\ out'[h] = out[h]
                      /\ pc'[h] = pc[h] \/ (pc[h] = "idle" /\ pc'[h] = "hello" /\ h = 1)
  BY SMT, <1>1 DEF ClientLeaves, relayVars, IInv, HopOrder, Hops
<1>3. ASSUME NEW l \in 2..3 PROVE Link(l)'
  <2> DEFINE a == l - 1
  <2>0. l \in Hops /\ a \in Hops /\ a # 0 /\ a + 1 = l /\ l # 1 /\ l # 0 /\ l # 0 + 1
    BY SMT DEF Hops
  <2>1. near'[l] = near[l] /\ far'[l] = far[l] /\ fwd'[l] = fwd[l] /\ bwd'[l] = bwd[l]
    BY <1>1, <2>0 DEF Local
  <2>2. FarSame(l)
    BY <1>2, <2>0, <2>1 DEF FarSame, WritesB
  <2>3. /\ Waits(a)' <=> Waits(a)
        /\ Reads(a)' <=> Reads(a)
    BY <1>2, <2>0, <2>1 DEF Waits, Reads
  <2>4. Sent(a)' = Sent(a) /\ Took(a)' = Took(a)
    BY <1>2, <2>0 DEF Sent, Took
  <2>5. /\ WritesF(a)' <=> WritesF(a)
        /\ WritesF(a) => out'[a][1].frame = out[a][1].frame
        /\ Up(a) => Up(a)'
    BY <1>2, <2>0 DEF WritesF, Up
  <2>6. NearSame(l)
    BY <2>1, <2>3, <2>4, <2>5 DEF NearSame
  <2> QED BY <2>0, <2>1, <2>2, <2>6, SameLink DEF InStep
<1>4. ASSUME NEW h \in 1..2 PROVE Extends(h)'
  <2>1. h \in Hops /\ h + 1 \in 2..3
    BY SMT DEF Hops
  <2>2. near'[h + 1] = near[h + 1]
    BY <1>1, <2>1 DEF ClientLeaves
  <2>3. openF'[h] = openF[h] /\ sealB'[h] = sealB[h] /\ (pc'[h] = pc[h] \/ pc'[h] = "hello")
    BY <1>2, <2>1
  <2> QED BY <2>2, <2>3 DEF InStep, Extends
<1> QED BY <1>3, <1>4

\* The client's end of its link, when it sends a frame.
LEMMA ClientSends ==
  ASSUME IInv, InStep, FarSame(1), near'[1] = near[1], fwd'[1] = fwd[1], ~WritesF(0),
         ~Waits(0)', Up(0)', NEW k \in Hops, NEW cell, SendFor(k, cell),
         \/ hopsUp = 3 /\ hopsUp' = 3 /\ k = 3
         \/ hopsUp = k - 1 /\ hopsUp' = k /\ (k < 3 => cell = ToMe("Extend", 0)),
         \/ Reads(0) /\ ((bwd'[1] = bwd[1] /\ Took(0)' = Took(0)) \/ ~Reads(0)')
         \/ Reads(0) /\ bwd[1] # <<>> /\ bwd'[1] = Tail(bwd[1]) /\ Took(0)' = Took(0) + 1
         \/ Waits(0) /\ bwd[1] # <<>> /\ bwd'[1] = Tail(bwd[1]) /\ Took(0)' = 0
  PROVE  Link(1)'
<1>t. 1 \in Hops /\ Link(1) /\ TypeOK /\ Layered
  BY HopSets DEF IInv, InStep
<1>1. Len(sealF'[1]) = Len(sealF[1]) + 1
  BY <1>t, SendLayers
<1>2. out'[0] = Fwd(Sealed(1, Len(sealF[1]) + 1))
  BY <1>t, SendGrows
<1>3. WritesF(0)' /\ out'[0][1].frame = Sealed(1, Sent(0) + 1) /\ Sent(0)' = Sent(0) + 1
  BY SMTT(30), <1>1, <1>2 DEF WritesF, Fwd, Sent
<1>4. near[1] /\ near'[1]
  BY SMTT(30), <1>t DEF Link, Joined
<1> QED BY SMTT(30), <1>t, <1>3, <1>4, NearRuns

\* It takes a chunk for the user.
LEMMA ClientTakes ==
  ASSUME IInv, InStep, FarSame(1), near'[1] = near[1], fwd'[1] = fwd[1], out[0] = <<>>,
         ~WritesF(0)', pc[0] = "open", pc'[0] = "open", UNCHANGED <<hopsUp, sealF>>,
         bwd[1] # <<>>, bwd'[1] = Tail(bwd[1]), openB'[1] = openB[1] + 1
  PROVE  Link(1)'
<1>t. 1 \in Hops /\ Link(1) /\ TypeOK
  BY HopSets DEF IInv, InStep
<1>1. hopsUp = 3
  BY DEF IInv, ExitStream
<1>2. Reads(0) /\ ~Waits(0)' /\ Up(0)' /\ Took(0)' = Took(0) + 1 /\ Sent(0)' = Sent(0)
  BY SMTT(30), <1>1 DEF Reads, Waits, Up, Took, Sent
<1>3. near[1] /\ near'[1] /\ ~WritesF(0)
  BY SMTT(30), <1>t, <1>2 DEF Link, Joined, WritesF
<1> QED BY SMTT(30), <1>t, <1>2, <1>3, NearRuns

\* A client that ends drops its connection: nothing is left to agree on.
LEMMA ClientEndsLink ==
  ASSUME IInv, InStep, FarSame(1), ClientEnds
  PROVE  Link(1)' /\ Layered'
<1>t. 1 \in Hops /\ Link(1) /\ TypeOK /\ 0 \in Parties
  BY HopSets DEF IInv, InStep
<1>1. /\ pc'[0] = "ended" /\ out'[0] = <<>> /\ ~near'[1] /\ bwd'[1] = <<>> /\ fwd' = fwd
      /\ UNCHANGED <<hopsUp, sealF, openB>>
  BY <1>t DEF ClientEnds, ClientDrops, clientVars, TypeOK
<1>2. ~WritesF(0)' /\ ~Waits(0)' /\ ~Reads(0)'
  BY <1>1 DEF WritesF, Waits, Reads
<1>3. Link(1)'
  BY SMTT(30), <1>t, <1>1, <1>2, NearEnds
<1> QED BY <1>1, <1>3 DEF Layered, InStep

\* It leaves the loop with CLOSE_REQUEST.
LEMMA BreakLink ==
  ASSUME IInv, InStep, FarSame(1), near'[1] = near[1], fwd'[1] = fwd[1], ~WritesF(0) \/ pc[1] = "ended",
         pc[0] = "open", Break, UNCHANGED <<hopsUp, openB>>
  PROVE  Link(1)' /\ Layered'
<1>t. 1 \in Hops /\ Link(1) /\ TypeOK /\ 3 \in Hops /\ Layered /\ 0 \in Parties
  BY HopSets DEF IInv, InStep
<1>1. hopsUp = 3 /\ hopsUp' = 3
  BY DEF IInv, ExitStream
<1>2. pc'[0] = "closing" /\ SendFor(3, ToMe("CloseRequest", 0))
  BY <1>t DEF Break, TypeOK
<1>3. Reads(0) /\ ~Reads(0)' /\ ~Waits(0)' /\ Up(0)'
  BY SMTT(30), <1>1, <1>2 DEF Reads, Waits, Up
<1>4. ASSUME ~WritesF(0) PROVE Link(1)'
  BY <1>t, <1>1, <1>2, <1>3, <1>4, ClientSends
<1>5. ASSUME pc[1] = "ended" PROVE Link(1)'
  <2>1. near'[1]
    BY SMTT(30), <1>t, <1>3 DEF Link, Joined
  <2> QED BY SMTT(30), <1>t, <1>3, <1>5, <2>1, FarGone
<1>6. Layered'
  BY <1>t, <1>1, <1>2, SendLayers DEF Layered
<1> QED BY <1>4, <1>5, <1>6

\* Every step of the client keeps the guard's link in step and its own layers
\* aligned: each frame it seals for one hop carries the next frame of the hop
\* behind it.
LEMMA ClientAgrees ==
  ASSUME IInv, InStep, Client
  PROVE  Link(1)' /\ Layered'
<1>t. /\ 1 \in Hops /\ 3 \in Hops /\ 0 \in Parties /\ 1 \in Parties /\ Link(1) /\ Layered /\ TypeOK
      /\ pc \in [Parties -> PCs] /\ out \in [Parties -> Seq(Write)] /\ fwd \in [Hops -> Seq(Frame)]
      /\ bwd \in [Hops -> Seq(Frame)]
  BY HopSets DEF IInv, InStep, TypeOK
<1>k. 1 \in Hops /\ Link(1) /\ TypeOK
  BY <1>t
<1>u. hopsUp \in 0..3 /\ near \in [Hops -> BOOLEAN] /\ far \in [Hops -> BOOLEAN]
  BY DEF IInv, TypeOK
<1>s. openF' = openF /\ sealB' = sealB /\ out'[1] = out[1]
  BY <1>t, ClientFrame DEF ClientLeaves, relayVars, IInv
<1>f. ASSUME pc'[1] = pc[1], far'[1] = far[1] PROVE FarSame(1)
  BY <1>f, <1>s DEF FarSame, WritesB
<1>e. ASSUME ClientEnds PROVE Link(1)' /\ Layered'
  <2>1. pc'[1] = pc[1] /\ far' = far
    BY SMTT(30), <1>t, <1>e DEF ClientEnds
  <2> QED BY <1>e, <1>f, <2>1, ClientEndsLink
<1>b. ASSUME Break, pc[0] = "open", UNCHANGED <<hopsUp, openB, fwd, near, far>>,
             ~WritesF(0) \/ pc[1] = "ended"
      PROVE  Link(1)' /\ Layered'
  <2>1. pc'[1] = pc[1]
    BY SMTT(30), <1>t, <1>b DEF Break
  <2> QED BY <1>b, <1>f, <2>1, BreakLink
<1>1. CASE dial
  <2>1. CASE ~ClientEnds
    <3>1. /\ pc[0] = "start" /\ pc'[0] = "wait" /\ pc'[1] = "hello" /\ near'[1] /\ far'[1]
          /\ UNCHANGED <<hopsUp, sealF, openB, fwd, bwd>>
      BY SMTT(30), <1>t, <1>u, <1>1, <2>1 DEF dial, At, clientVars
    <3>2. pc[1] = "idle" /\ hopsUp = 0
      BY <3>1 DEF IInv, HopOrder, ExitStream
    <3>3. out[1] = <<>>
      BY <1>t, <3>2 DEF IInv, ExitProgress
    <3>4. sealF[1] = <<>>
      BY SMTT(30), <1>t, <3>2 DEF Layered
    <3>5. Waits(0)' /\ Up(0)' /\ Sent(0)' = 0
      BY <3>1, <3>2, <3>4, NoneLeft DEF Waits, Up, Sent
    <3>6. Link(1)'
      BY SMTT(30), <1>k, <1>s, <3>1, <3>2, <3>3, <3>5, NearOpens
    <3> QED BY <1>t, <3>1, <3>6 DEF Layered
  <2> QED BY <1>e, <2>1
<1>2. CASE extend_hop
  <2>1. /\ pc[0] = "wait" /\ out[0] = <<>> /\ bwd[1] # <<>> /\ bwd'[1] = Tail(bwd[1])
        /\ ClientOpens(hopsUp) /\ hopsUp' = hopsUp + 1
        /\ SendFor(hopsUp + 1, ToMe(IF hopsUp = 2 THEN "Connect" ELSE "Extend", 0))
        /\ UNCHANGED <<pc, fwd, near, far>>
    BY <1>t, <1>2 DEF extend_hop, At, ClientReads
  <2>2. ~WritesF(0) /\ hopsUp # 3
    BY <2>1 DEF WritesF, IInv, ExitStream
  <2>3. hopsUp \in 0..2 /\ hopsUp + 1 \in Hops /\ hopsUp = hopsUp + 1 - 1
    BY SMTT(30), <1>u, <2>2 DEF Hops
  <2>4. hopsUp + 1 < 3 => ToMe(IF hopsUp = 2 THEN "Connect" ELSE "Extend", 0) = ToMe("Extend", 0)
    BY SMTT(30), <2>3
  <2>5. \A h \in Hops : openB[h] \in Nat /\ openB'[h] = openB[h] + IF h <= hopsUp THEN 1 ELSE 0
    BY <1>t, <2>1 DEF ClientOpens, TypeOK
  <2>6. /\ IF hopsUp = 3 THEN openB[1] = openB[3] + 2 /\ openB[2] = openB[3] + 1
                         ELSE openB[1] = One(hopsUp = 2) /\ openB[2] = 0 /\ openB[3] = 0
        /\ openB'[1] = openB[1] + (IF 1 <= hopsUp THEN 1 ELSE 0)
        /\ openB'[2] = openB[2] + (IF 2 <= hopsUp THEN 1 ELSE 0)
        /\ openB'[3] = openB[3] + (IF 3 <= hopsUp THEN 1 ELSE 0)
        /\ openB[1] \in Nat
    BY <1>t, <2>5, HopSets DEF Layered
  <2>7. IF hopsUp' = 3 THEN openB'[1] = openB'[3] + 2 /\ openB'[2] = openB'[3] + 1
                       ELSE openB'[1] = One(hopsUp' = 2) /\ openB'[2] = 0 /\ openB'[3] = 0
    <3>0. hopsUp' = hopsUp + 1
      BY <2>1
    <3>1. CASE hopsUp = 0
      BY SMTT(30), <3>0, <2>6, <3>1 DEF One
    <3>2. CASE hopsUp = 1
      BY SMTT(30), <3>0, <2>6, <3>2 DEF One
    <3>3. CASE hopsUp = 2
      BY SMTT(30), <3>0, <2>6, <3>3 DEF One
    <3> QED BY SMTT(30), <2>3, <3>1, <3>2, <3>3
  <2>8. Layered'
    <3>1. hopsUp = hopsUp + 1 - 1 /\ hopsUp' = hopsUp + 1
      BY <2>1, <2>3
    <3>2. \A h \in 1..2 :
             /\ Carries(sealF'[h], h)
             /\ IF hopsUp' >= h THEN Len(sealF'[h]) = Len(sealF'[h + 1]) + 1 ELSE sealF'[h] = <<>>
      <4> DEFINE k == hopsUp + 1
                 cell == ToMe(IF hopsUp = 2 THEN "Connect" ELSE "Extend", 0)
      <4>1. /\ k \in Hops /\ SendFor(k, cell) /\ Layered
            /\ hopsUp = k - 1 /\ hopsUp' = k /\ (k < 3 => cell = ToMe("Extend", 0))
        BY SMTT(30), <1>t, <2>1, <2>3, <2>4, <3>1
      <4> HIDE DEF k, cell
      <4> QED BY <4>1, SendLayers
    <3> QED BY <2>7, <3>2 DEF Layered
  <2>9. ~Waits(0)' /\ Up(0)'
    BY SMTT(30), <2>1, <2>3 DEF Waits, Up
  <2>10. CASE hopsUp = 0
    <3>1. Waits(0) /\ Took(0)' = 0
      BY SMTT(30), <2>1, <2>6, <2>10 DEF Waits, Took, One
    <3> QED BY SMTT(30), <1>f, <2>1, <2>2, <2>3, <2>4, <2>8, <2>9, <3>1, ClientSends
  <2>11. CASE hopsUp # 0
    <3>1. Reads(0) /\ Took(0)' = Took(0) + 1
      BY SMTT(30), <2>1, <2>3, <2>6, <2>11 DEF Reads, Took
    <3> QED BY SMTT(30), <1>f, <2>1, <2>2, <2>3, <2>4, <2>8, <2>9, <3>1, ClientSends
  <2> QED BY <2>10, <2>11
<1>3. CASE dial_error
  BY <1>e, <1>3 DEF dial_error
<1>4. CASE circuit_task_user
  <2>1. /\ pc[0] = "open" /\ ~WritesF(0) /\ UNCHANGED <<hopsUp, openB, fwd, bwd, near, far>>
    BY <1>4 DEF circuit_task_user, At, WritesF, linkVars
  <2>2. CASE Break
    BY <1>b, <2>1, <2>2
  <2>3. CASE ~Break
    <3>1. SendFor(3, ToMe("Data", userSent + 1)) /\ pc' = pc
      BY <1>4, <2>3 DEF circuit_task_user
    <3>2. hopsUp = 3 /\ hopsUp' = 3
      BY <2>1 DEF IInv, ExitStream
    <3>3. Reads(0) /\ Took(0)' = Took(0) /\ ~Waits(0)' /\ Up(0)'
      BY SMTT(30), <2>1, <3>1, <3>2 DEF Reads, Took, Waits, Up
    <3>4. Link(1)'
      BY <1>t, <1>f, <2>1, <3>1, <3>2, <3>3, ClientSends
    <3>5. Layered'
      BY <1>t, <2>1, <3>1, <3>2, SendLayers DEF Layered
    <3> QED BY <3>4, <3>5
  <2> QED BY <2>2, <2>3
<1>5. CASE circuit_task_inbound
  <2> DEFINE d == PeelDepth(Head(bwd[1]))
  <2>1. /\ pc[0] = "open" /\ out[0] = <<>> /\ ~WritesF(0) /\ bwd[1] # <<>>
        /\ bwd'[1] = Tail(bwd[1]) /\ UNCHANGED <<hopsUp, fwd, near, far>>
    BY <1>t, <1>5 DEF circuit_task_inbound, At, ClientReads, WritesF
  <2>2. CASE Break /\ UNCHANGED openB
    BY <1>b, <2>1, <2>2
  <2>3. CASE ~(Break /\ UNCHANGED openB)
    <3>1. /\ ClientOpens(d) /\ UNCHANGED <<pc, sealF>>
          /\ out' = [out EXCEPT ![0] = Bwd(Bytes(PlainB(d, Head(bwd[1])).arg))]
      BY <1>5, <2>3 DEF circuit_task_inbound
    <3>2. d = 3
      BY <2>1, PeelsAll
    <3>3. \A h \in Hops : openB[h] \in Nat /\ openB'[h] = openB[h] + 1
      <4>1. openB' = [h \in Hops |-> openB[h] + IF h <= 3 THEN 1 ELSE 0]
        BY <3>1, <3>2 DEF ClientOpens
      <4>2. \A h \in Hops : h <= 3
        BY SMTT(30) DEF Hops
      <4>3. \A h \in Hops : openB[h] \in Nat
        BY <1>k DEF TypeOK
      <4> QED BY <4>1, <4>2, <4>3
    <3>4. ~WritesF(0)'
      BY <1>t, <3>1 DEF WritesF, Bwd
    <3>5. Link(1)'
      BY <1>t, <1>f, <2>1, <3>1, <3>3, <3>4, ClientTakes
    <3>6. hopsUp = 3
      BY <2>1 DEF IInv, ExitStream
    <3>7. openB'[1] = openB'[3] + 2 /\ openB'[2] = openB'[3] + 1
      <4>1. openB[1] = openB[3] + 2 /\ openB[2] = openB[3] + 1
        BY <1>t, <3>6 DEF Layered
      <4>2. /\ openB[1] \in Nat /\ openB[2] \in Nat /\ openB[3] \in Nat
            /\ openB'[1] = openB[1] + 1 /\ openB'[2] = openB[2] + 1 /\ openB'[3] = openB[3] + 1
        BY <3>3, HopSets
      <4> QED BY SMTT(30), <4>1, <4>2
    <3>8. Layered'
      BY <1>t, <2>1, <3>1, <3>6, <3>7 DEF Layered
    <3> QED BY <3>5, <3>8
  <2> QED BY <2>2, <2>3
<1>6. CASE circuit_task_eof
  <2>1. /\ pc[0] = "open" /\ ~WritesF(0) /\ Break /\ UNCHANGED <<hopsUp, openB, fwd, near, far>>
    BY <1>6 DEF circuit_task_eof, At, WritesF, linkVars
  <2> QED BY <1>b, <2>1
<1>7. CASE ClientWrites
  <2>1. /\ WritesF(0) /\ out'[0] = <<>> /\ UNCHANGED <<hopsUp, sealF, openB, far>>
        /\ fwd'[1] = IF far[1] THEN Append(fwd[1], out[0][1].frame) ELSE fwd[1]
    BY <1>t, <1>7 DEF ClientWrites, WritesF, clientVars
  <2>2. ~WritesF(0)' /\ Sent(0)' = Sent(0) /\ Took(0)' = Took(0)
    BY <2>1 DEF WritesF, Sent, Took
  <2>3. out[0][1].frame \in Frame
    BY <1>t, <2>1, PendingFrame DEF WritesF
  <2>4. pc'[1] = pc[1]
    BY SMTT(30), <1>t, <1>7 DEF ClientWrites
  <2>5. FarSame(1)
    BY <1>f, <2>1, <2>4
  <2>6. Layered'
    BY <1>t, <2>1 DEF Layered
  <2>7. CASE pc[0] = "closing"
    <3>1. pc'[0] = "ended" /\ ~near'[1] /\ bwd'[1] = <<>>
      BY <1>t, <1>u, <1>7, <2>7 DEF ClientWrites, ClientDrops
    <3>2. ~Waits(0)' /\ ~Reads(0)'
      BY <3>1 DEF Waits, Reads
    <3>3. Link(1)'
      BY SMTT(30), <1>k, <2>1, <2>2, <2>3, <2>5, <3>1, <3>2, NearWrites
    <3> QED BY <2>6, <3>3
  <2>8. CASE pc[0] # "closing"
    <3>1. pc'[0] = (IF hopsUp = 3 THEN "open" ELSE "wait") /\ UNCHANGED <<near, bwd>>
      BY <1>t, <1>7, <2>8 DEF ClientWrites
    <3>2. pc[0] \in {"wait", "open"} /\ (pc[0] = "open" => hopsUp = 3)
      BY <2>1, <2>8 DEF IInv, ExitStream, WritesF
    <3>3. /\ Waits(0)' <=> Waits(0)
          /\ Reads(0)' <=> Reads(0)
          /\ Up(0)'
      BY SMTT(30), <1>u, <2>1, <3>1, <3>2 DEF Waits, Reads, Up
    <3>4. Link(1)'
      BY SMTT(30), <1>k, <2>1, <2>2, <2>3, <2>5, <3>1, <3>3, NearWrites
    <3> QED BY <2>6, <3>4
  <2> QED BY <2>7, <2>8
<1>8. CASE ClientWriteFails
  <2>1. CASE ~ClientEnds
    <3>1. /\ pc[0] = "open" /\ Break /\ UNCHANGED <<hopsUp, openB, fwd, near, far>>
          /\ WritesF(0) /\ ~far[1]
      BY <1>8, <2>1 DEF ClientWriteFails, linkVars, WritesF
    <3>2. pc[1] = "ended"
      BY SMTT(30), <1>t, <3>1 DEF Link, Joined, Fresh
    <3> QED BY <1>b, <3>1, <3>2
  <2> QED BY <1>e, <2>1
<1>9. CASE UserTakes
  <2>1. /\ WritesB(0) /\ ~WritesF(0) /\ UNCHANGED <<hopsUp, openB, fwd, bwd, near, far>>
    BY <1>9 DEF UserTakes, linkVars, WritesF, WritesB
  <2>2. pc[0] = "open"
    BY <2>1 DEF IInv, ExitStream
  <2>3. CASE Break
    BY <1>b, <2>1, <2>2, <2>3
  <2>4. CASE ~Break
    <3>1. out'[0] = <<>> /\ UNCHANGED <<pc, sealF>>
      BY <1>t, <1>9, <2>4 DEF UserTakes
    <3>2. /\ Waits(0)' <=> Waits(0)
          /\ Reads(0)' <=> Reads(0)
          /\ Up(0) => Up(0)'
          /\ Sent(0)' = Sent(0) /\ Took(0)' = Took(0) /\ ~WritesF(0)'
      BY <2>1, <3>1 DEF Waits, Reads, Up, Sent, Took, WritesF
    <3>3. NearSame(1) /\ FarSame(1)
      BY SMTT(30), <1>f, <2>1, <3>1, <3>2 DEF NearSame
    <3>4. Link(1)'
      BY <1>t, <2>1, <3>3, SameLink
    <3> QED BY <1>t, <2>1, <3>1, <3>4 DEF Layered
  <2> QED BY <2>3, <2>4
<1> QED BY <1>1, <1>2, <1>3, <1>4, <1>5, <1>6, <1>7, <1>8, <1>9 DEF Client

\* The invariant holds when a circuit starts.
LEMMA CounterInit == Init => CounterInv
<1> SUFFICES ASSUME Init PROVE InStep
  BY DEF CounterInv
<1>1. /\ pc[0] = "start" /\ hopsUp = 0 /\ out[0] = <<>>
      /\ \A h \in Hops : /\ pc[h] = "idle" /\ out[h] = <<>> /\ fwd[h] = <<>> /\ bwd[h] = <<>>
                         /\ ~near[h] /\ sealF[h] = <<>> /\ sealB[h] = <<>> /\ openB[h] = 0
  BY HopSets DEF Init
<1>2. ASSUME NEW l \in Hops PROVE Link(l)
  <2> DEFINE a == l - 1
  <2>1. a = 0 \/ (a # 0 /\ a \in Hops)
    BY SMT DEF Hops
  <2>2. ~Waits(a) /\ ~Reads(a) /\ ~WritesF(a)
    BY <1>1, <2>1 DEF Waits, Reads, WritesF
  <2>3. Fresh(l)
    BY <1>1 DEF Fresh
  <2>4. Joined(l)
    BY <1>1, <2>2 DEF Joined
  <2>5. InStepF(l)
    BY <1>1 DEF InStepF, Serves
  <2>6. InStepB(l)
    BY <2>2 DEF InStepB
  <2> QED BY <2>3, <2>4, <2>5, <2>6 DEF Link
<1>3. \A h \in 1..2 : h \in Hops
  BY SMT DEF Hops
<1>4. Layered
  <2>1. ASSUME NEW h \in 1..2 PROVE Carries(sealF[h], h) /\ sealF[h] = <<>> /\ ~(hopsUp >= h)
    BY SMTT(30), <1>1, <1>3, NoneLeft DEF Carries
  <2>2. openB[1] = One(hopsUp = 2) /\ openB[2] = 0 /\ openB[3] = 0 /\ hopsUp # 3
    BY <1>1, HopSets DEF One
  <2> QED BY <2>1, <2>2 DEF Layered
<1>5. ASSUME NEW h \in 1..2 PROVE Extends(h)
  BY SMTT(30), <1>1, <1>3, NoneLeft DEF Extends, Carries
<1> QED BY <1>2, <1>4, <1>5 DEF InStep

\* A relay's step keeps every counter in step: its own two links and what it
\* wraps, and nothing else.
LEMMA RelayAgrees ==
  ASSUME IInv, InStep, DestLink, NEW h \in Hops, RelayStep(h)
  PROVE  InStep'
<1>1. ASSUME NEW l \in Hops PROVE Link(l)'
  <2>1. CASE l = h
    BY <2>1, RelayFar
  <2>2. CASE l = h + 1
    <3>1. h \in 1..2
      BY SMT, <2>2 DEF Hops
    <3> QED BY <2>2, <3>1, RelayNear
  <2>3. CASE l # h /\ l # h + 1
    BY <2>3, RelayOthers
  <2> QED BY <2>1, <2>2, <2>3
<1>2. Layered'
  <2>1. UNCHANGED <<hopsUp, sealF, openB>>
    BY RelayFrame DEF IInv, RelayLeaves, clientVars
  <2> QED BY <2>1 DEF InStep, Layered
<1>3. ASSUME NEW k \in 1..2 PROVE Extends(k)'
  <2>1. CASE k = h
    <3>1. h + 1 \in Hops /\ h \in 1..2
      BY SMT, <2>1 DEF Hops
    <3> QED BY <2>1, <3>1, RelayNear
  <2>2. CASE k # h
    BY <2>2, OtherExtends
  <2> QED BY <2>1, <2>2
<1> QED BY <1>1, <1>2, <1>3 DEF InStep

\* Every step keeps the invariant: a fault ends what it promises.
LEMMA CounterNext ==
  ASSUME IInv, DestLink, CounterInv, [Next]_vars
  PROVE  CounterInv'
<1>r. ASSUME NEW h \in Hops, RelayStep(h) PROVE CounterInv'
  <2>1. faults' = faults
    BY <1>r, RelayLocal DEF IInv, Local
  <2> QED BY <1>r, <2>1, RelayAgrees DEF CounterInv
<1>1. CASE Client
  <2>1. faults' = faults
    BY <1>1, ClientLocal DEF IInv, Local
  <2>2. ASSUME InStep PROVE InStep'
    <3>1. Link(1)' /\ Layered'
      BY <1>1, <2>2, ClientAgrees
    <3>2. (\A l \in 2..3 : Link(l)') /\ (\A h \in 1..2 : Extends(h)')
      BY <1>1, <2>2, ClientOthers
    <3>3. \A l \in Hops : Link(l)'
      <4>1. \A l \in Hops : l = 1 \/ l \in 2..3
        BY SMT DEF Hops
      <4> QED BY <3>1, <3>2, <4>1
    <3> QED BY <3>1, <3>2, <3>3 DEF InStep
  <2> QED BY <2>1, <2>2 DEF CounterInv
<1>2. CASE \E h \in Hops : Relay(h)
  BY <1>2, <1>r DEF RelayStep
<1>3. CASE \E h \in {1, 2} : open_next_link(h) \/ open_next_link_error(h)
  <2>1. PICK h \in {1, 2} : open_next_link(h) \/ open_next_link_error(h)
    BY <1>3
  <2>2. h \in Hops /\ h < 3
    BY SMT DEF Hops
  <2> QED BY <2>1, <2>2, <1>r DEF RelayStep
<1>4. CASE Exit
  BY <1>4, <1>r, HopSets DEF RelayStep
<1>5. CASE (\E l \in Hops : Damage(l)) \/ (\E p \in Parties : Crash(p))
  <2>1. faults' = faults + 1 /\ faults \in Nat
    BY <1>5 DEF Damage, Crash, IInv, TypeOK
  <2> QED BY SMTT(30), <2>1 DEF CounterInv
<1>6. CASE UNCHANGED vars
  <2>1. UNCHANGED <<pc, out, hopsUp, sealF, openB, openF, sealB, fwd, bwd, near, far, faults>>
    BY <1>6 DEF vars, relayVars, clientVars, linkVars
  <2>2. ASSUME NEW l \in Hops, Link(l) PROVE Link(l)'
    <3>1. FarSame(l)
      BY <2>1 DEF FarSame, WritesB
    <3>2. NearSame(l)
      BY <2>1 DEF NearSame, Waits, Reads, Sent, Took, WritesF, Up
    <3> QED BY <2>1, <2>2, <3>1, <3>2, SameLink
  <2>3. Layered => Layered'
    BY <2>1 DEF Layered
  <2>4. ASSUME NEW h \in 1..2, Extends(h) PROVE Extends(h)'
    BY <2>1, <2>4 DEF Extends
  <2> QED BY <2>1, <2>2, <2>3, <2>4 DEF CounterInv, InStep
<1> QED BY <1>1, <1>2, <1>3, <1>4, <1>5, <1>6 DEF Next, Terminated
=============================================================================
