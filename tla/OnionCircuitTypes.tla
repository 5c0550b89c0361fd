-------------------------- MODULE OnionCircuitTypes -------------------------
(***************************************************************************)
(* The inductive invariants of OnionCircuit, and what one step does to the *)
(* types, to one link, to the client's own streams and to the parties that *)
(* do not take it: for any number of chunks, any link capacity and any     *)
(* number of faults.                                                       *)
(***************************************************************************)
EXTENDS OnionCircuit, Integers, TLAPS

\* Zenon proves what names no other prover.
USE ZenonT(60)

(***************************************************************************)
(* The inductive invariant.  A frame that opens was sealed by the other    *)
(* end, because every frame in circulation names a counter already used;   *)
(* and the exit's stream is CONNECT, the user's chunks in order, then      *)
(* CLOSE_REQUEST.  So what the exit has opened is a prefix of what the     *)
(* client sealed, and what the destination holds is a prefix of that.      *)
(***************************************************************************)

\* A frame of hop h's forward stream names a counter the client has used.
KnownF(h, f) == f.hop = h => f.n \in 1..Len(sealF[h])
KnownB(h, f) == f.hop = h => f.n \in 1..Len(sealB[h])

WritesF(p) == out[p] # <<>> /\ out[p][1].dir = "fwd"
WritesB(p) == out[p] # <<>> /\ out[p][1].dir = "bwd"

FramesKnownF ==
    /\ \A h \in Hops : \A i \in 1..Len(fwd[h]) : KnownF(h, fwd[h][i])
    /\ \A p \in 0..2 : WritesF(p) => KnownF(p + 1, out[p][1].frame)
    /\ \A h \in 1..2 : \A i \in 1..Len(sealF[h]) : KnownF(h + 1, sealF[h][i].inner)

FramesKnownB ==
    /\ \A h \in Hops : \A i \in 1..Len(bwd[h]) : KnownB(h, bwd[h][i])
    /\ \A h \in Hops : WritesB(h) => KnownB(h, out[h][1].frame)
    /\ \A h \in 1..2 : \A i \in 1..Len(sealB[h]) :
          /\ KnownB(h + 1, sealB[h][i].inner)
          /\ sealB[h][i].type # "Data"

\* What the client seals for the exit.
ExitStream ==
    /\ \A i \in 1..Len(sealF[3]) :
          sealF[3][i] = IF i = 1 THEN ToMe("Connect", 0)
                        ELSE IF i <= userSent + 1 THEN ToMe("Data", i - 1)
                        ELSE ToMe("CloseRequest", 0)
    /\ hopsUp < 3 => Len(sealF[3]) = 0 /\ userSent = 0
    /\ hopsUp = 3 /\ pc[0] \in {"wait", "open"} => Len(sealF[3]) = userSent + 1
    /\ pc[0] \in {"open", "closing"} => hopsUp = 3
    /\ pc[0] = "start" => hopsUp = 0
    /\ pc[0] = "wait" /\ hopsUp = 3 => WritesF(0)
    /\ pc[0] \in {"start", "wait", "open", "closing", "ended"}
    /\ WritesB(0) => pc[0] = "open"
    /\ pc[0] \in {"start", "ended"} => out[0] = <<>>
    /\ pc[0] = "closing" => WritesF(0)

\* How far the exit and the destination are in it.
ExitProgress ==
    /\ ForwardInOrder
    /\ \A h \in Hops : pc[h] \in {"idle", "hello", "handshake"} => openF[h] = 0 /\ out[h] = <<>>
    /\ pc[3] \in {"idle", "hello", "handshake"} => destGot = <<>>
    /\ pc[3] = "select" =>
          IF WritesF(3)
            THEN /\ out[3][1].frame.n = Len(destGot) + 1
                 /\ openF[3] = Len(destGot) + 2
                 /\ Len(destGot) < userSent
            ELSE openF[3] = Len(destGot) + 1 \/ (openF[3] = 0 /\ destGot = <<>>)
    /\ WritesF(3) => pc[3] = "select"
    /\ pc[3] # "dial"

\* What the exit seals toward the client, and how far the client and the user
\* are in it.
UserStream ==
    /\ \A i \in 1..Len(sealB[3]) :
          sealB[3][i] = IF i <= destSent THEN ToMe("Data", i) ELSE ToMe("CloseAck", 0)
    /\ pc[3] \in {"idle", "hello", "handshake", "select"} => Len(sealB[3]) = destSent
    /\ Len(sealB[3]) >= destSent

UserProgress ==
    /\ BackwardInOrder
    /\ pc[0] \in {"start", "wait"} => openB[3] = 0 /\ userGot = <<>>
    /\ pc[0] = "open" =>
          IF WritesB(0)
            THEN /\ out[0][1].frame.n = Len(userGot) + 1
                 /\ openB[3] = Len(userGot) + 1
                 /\ Len(userGot) < destSent
            ELSE openB[3] = Len(userGot)

\* A hop is reached only once its predecessor extends to it.
HopOrder ==
    /\ pc[0] = "start" => pc[1] = "idle"
    /\ \A h \in 1..2 :
          \/ pc[h] \in {"idle", "hello", "handshake"}
          \/ pc[h] \in {"select", "dial"} /\ ~near[h + 1]
          => pc[h + 1] = "idle"

IInv ==
    /\ TypeOK /\ HopOrder /\ FramesKnownF /\ FramesKnownB
    /\ ExitStream /\ ExitProgress /\ UserStream /\ UserProgress

(***************************************************************************)
(* The parties, and what frames, writes and links are made of.             *)
(***************************************************************************)
\* A circuit that starts is well typed.
LEMMA TypeInit == Init => TypeOK
  BY SMT, BoundsAssumption DEF Init, TypeOK, PCs, Hops, Parties

\* The parties are the client, 0, and the hops of the path, 1 to 3 (circuit.rs).
LEMMA HopSets ==
  /\ 0 \in Parties /\ 1 \in Hops /\ 2 \in Hops /\ 3 \in Hops
  /\ \A h \in Hops : h \in Parties /\ h # 0 /\ h \in Nat
  /\ \A h \in Hops : h < 3 => h + 1 \in Hops
  /\ \A h, k \in Hops : h < k => h + 1 \in Hops
  /\ \A h \in Hops : h \in 1..2 \/ h = 3
  /\ \A h \in 2..3 : h \in Hops /\ h \in Parties /\ h # 0 /\ h # 1
  BY SMT DEF Hops, Parties

\* A party that is not writing, and an empty link, have the type of writes and links.
LEMMA Empties == <<>> \in Seq(Write) /\ <<>> \in Seq(Frame)
  BY SMT

\* A write is one frame, and says which way it goes.
LEMMA WriteForms ==
  \A f : /\ Fwd(f) # <<>> /\ Fwd(f)[1].dir = "fwd" /\ Fwd(f)[1].frame = f
         /\ Bwd(f) # <<>> /\ Bwd(f)[1].dir = "bwd" /\ Bwd(f)[1].frame = f
  BY SMT DEF Fwd, Bwd

\* What the cells and layers are built with has the types of frames and plaintexts.
LEMMA FrameTypes ==
  /\ Hs \in Frame /\ Junk \in Frame
  /\ \A k \in Nat : Bytes(k) \in Frame /\ \A h \in Hops : Sealed(h, k) \in Frame
  /\ \A f \in Frame : Forward(f) \in Plain /\ Fwd(f) \in Seq(Write) /\ Bwd(f) \in Seq(Write)
  /\ \A t \in CellTypes, a \in Nat : ToMe(t, a) \in Plain
  /\ \A q \in Seq(Frame) : q # <<>> => Head(q) \in Frame /\ Tail(q) \in Seq(Frame)
<1>1. Hs \in Frame /\ Junk \in Frame
  BY SMT DEF Hs, Junk, Frame, Parties
<1>2. \A k \in Nat : Bytes(k) \in Frame /\ \A h \in Hops : Sealed(h, k) \in Frame
  BY SMT DEF Bytes, Sealed, Frame, Parties, Hops
<1>3. \A f \in Frame : Forward(f) \in Plain
  BY DEF Forward, Plain
<1>4. \A f \in Frame : Fwd(f) \in Seq(Write) /\ Bwd(f) \in Seq(Write)
  BY SMT DEF Fwd, Bwd, Write
<1>5. \A t \in CellTypes, a \in Nat : ToMe(t, a) \in Plain
  BY <1>1 DEF ToMe, Plain
<1>6. \A q \in Seq(Frame) : q # <<>> => Head(q) \in Frame /\ Tail(q) \in Seq(Frame)
  BY SMT
<1> QED BY <1>1, <1>2, <1>3, <1>4, <1>5, <1>6

\* The write_all a party is suspended in carries a frame.
LEMMA PendingFrame ==
  ASSUME TypeOK, NEW p \in Parties, out[p] # <<>>
  PROVE  out[p][1].frame \in Frame /\ out[p][1].frame.n \in Nat
<1>1. PICK q \in Seq(Write) : q = out[p]
  BY DEF TypeOK
<1>2. q # <<>>
  BY <1>1
<1>3. q[1] \in Write
  BY SMT, <1>2
<1>4. q[1].frame \in Frame
  BY <1>3 DEF Write
<1>5. q[1].frame.n \in Nat
  BY <1>4 DEF Frame
<1> QED BY <1>1, <1>4, <1>5

\* A completed write puts a frame on a link.
LEMMA AppendType ==
  ASSUME NEW Q \in [Hops -> Seq(Frame)], NEW l \in Hops, NEW f \in Frame
  PROVE  [Q EXCEPT ![l] = Append(@, f)] \in [Hops -> Seq(Frame)]
  BY SMT

\* read_exact takes a frame off a link.
LEMMA TailType ==
  ASSUME NEW Q \in [Hops -> Seq(Frame)], NEW l \in Hops, Q[l] # <<>>
  PROVE  [Q EXCEPT ![l] = Tail(@)] \in [Hops -> Seq(Frame)]
<1>1. Tail(Q[l]) \in Seq(Frame)
  BY FrameTypes
<1> QED BY <1>1

\* Relay h has no circuit yet.
PreCircuit == {"idle", "hello", "handshake"}

\* The invariant holds when a circuit starts.
LEMMA InvInit == Init => IInv
<1> SUFFICES ASSUME Init PROVE IInv
  BY SMT
<1>1. TypeOK
  BY TypeInit
<1>2. /\ \A p \in Parties : pc[p] = (IF p = 0 THEN "start" ELSE "idle") /\ out[p] = <<>>
      /\ \A h \in Hops : /\ sealF[h] = <<>> /\ sealB[h] = <<>> /\ fwd[h] = <<>> /\ bwd[h] = <<>>
                         /\ openF[h] = 0 /\ openB[h] = 0
      /\ hopsUp = 0 /\ userSent = 0 /\ destSent = 0 /\ userGot = <<>> /\ destGot = <<>>
  BY DEF Init
<1>3. pc[0] = "start" /\ \A h \in Hops : pc[h] = "idle" /\ out[h] = <<>>
  BY <1>2, HopSets
<1>4. HopOrder
  BY SMTT(30), <1>3 DEF HopOrder, Hops
<1>5. \A p \in 0..2 : ~WritesF(p) /\ ~WritesB(p)
  BY SMT, <1>2 DEF WritesF, WritesB, Parties
<1>6. ~WritesF(3) /\ \A h \in Hops : ~WritesB(h)
  BY <1>3, HopSets DEF WritesF, WritesB
<1>7. \A h \in 1..2 : h \in Hops
  BY SMTT(30) DEF Hops
<1>8. FramesKnownF
  BY SMTT(30), <1>2, <1>5, <1>7 DEF FramesKnownF
<1>9. FramesKnownB
  BY SMTT(60), <1>2, <1>6, <1>7 DEF FramesKnownB
<1>10. ExitStream
  BY SMTT(60), <1>2, <1>3, <1>5, HopSets DEF ExitStream
<1>11. ExitProgress
  BY SMTT(60), <1>2, <1>3, <1>6, HopSets DEF ExitProgress, ForwardInOrder, InOrder
<1>12. UserStream
  BY SMTT(30), <1>2, HopSets DEF UserStream
<1>13. UserProgress
  BY SMTT(60), <1>2, <1>3, HopSets DEF UserProgress, BackwardInOrder, InOrder
<1> QED BY <1>1, <1>4, <1>8, <1>9, <1>10, <1>11, <1>12, <1>13 DEF IInv

(***************************************************************************)
(* The counters.  While nothing is damaged, the frames of a link and the   *)
(* write its sender is suspended in are numbered on from what the receiver *)
(* has opened, and with what the receiver has opened they are all that was *)
(* sealed.                                                                 *)
(***************************************************************************)

\* The frames of q are frames n + 1, n + 2, ... of hop h.
Run(q, h, n) == \A i \in 1..Len(q) : q[i] = Sealed(h, n + i)

\* A write under way counts for one frame.
One(b) == IF b THEN 1 ELSE 0

\* Relay h is in run_circuit_io.
Serves(h) == pc[h] \in {"select", "dial", "closing"}

\* Party p waits for message 2 of the next hop, or reads its frames.
Waits(p) == IF p = 0 THEN pc[0] = "wait" /\ hopsUp = 0 ELSE pc[p] = "dial"
Reads(p) == IF p = 0 THEN pc[0] \in {"wait", "open"} /\ hopsUp >= 1
                     ELSE pc[p] = "select" /\ near[p + 1]

\* Frames party p has passed to the next hop, and has taken from it; EXTEND,
\* the first cell either way, is the relay's own.
Sent(p) == IF p = 0 THEN Len(sealF[1]) ELSE openF[p] - 1
Took(p) == IF p = 0 THEN openB[1] ELSE Len(sealB[p]) - 1

\* The two ends of link l.
Joined(l) ==
    /\ near[l] => pc[l - 1] \notin {"start", "idle", "ended"}
    /\ pc[l] \notin {"idle", "ended"} => far[l]
    /\ WritesF(l - 1) \/ Waits(l - 1) \/ Reads(l - 1) => near[l]
    /\ Waits(l - 1) => Sent(l - 1) = 0

\* Until the far end serves, the link carries one presentation.
Fresh(l) ==
    /\ pc[l] \in PreCircuit => sealB[l] = <<>> /\ bwd[l] = <<>>
    /\ pc[l] = "idle" => fwd[l] = <<>> /\ ~near[l]
    /\ pc[l] = "hello" => Len(fwd[l]) + One(WritesF(l - 1)) <= 1
    /\ pc[l] = "handshake" => fwd[l] = <<>> /\ ~WritesF(l - 1)
    /\ pc[l] \in {"hello", "handshake"} /\ near[l] => Waits(l - 1)

\* Frames toward the far end follow on from what it opened, and make up what
\* was sent.
InStepF(l) ==
    /\ Serves(l) => Run(fwd[l], l, openF[l])
    /\ Serves(l) /\ WritesF(l - 1) => out[l - 1][1].frame = Sealed(l, openF[l] + Len(fwd[l]) + 1)
    /\ Serves(l) /\ near[l] => openF[l] + Len(fwd[l]) + One(WritesF(l - 1)) = Sent(l - 1)

\* Frames toward the near end: message 2 while it waits, then what the far
\* end sealed, in order.
InStepB(l) ==
    /\ Waits(l - 1) => sealB[l] = <<>> /\ Len(bwd[l]) + One(WritesB(l)) <= 1
    /\ Reads(l - 1) => Run(bwd[l], l, Took(l - 1))
    /\ Reads(l - 1) /\ WritesB(l) => out[l][1].frame = Sealed(l, Took(l - 1) + Len(bwd[l]) + 1)
    /\ Reads(l - 1) /\ Serves(l) => Len(sealB[l]) = Took(l - 1) + Len(bwd[l]) + One(WritesB(l))

Link(l) == Joined(l) /\ Fresh(l) /\ InStepF(l) /\ InStepB(l)

\* Cell j of hop h's stream carries frame j - 1 of the next hop's.
Carries(q, h) ==
    \A j \in 1..Len(q) : q[j] = IF j = 1 THEN ToMe("Extend", 0) ELSE Forward(Sealed(h + 1, j - 1))

\* The client's transports, the innermost last.
Layered ==
    /\ \A h \in 1..2 :
          /\ Carries(sealF[h], h)
          /\ IF hopsUp >= h THEN Len(sealF[h]) = Len(sealF[h + 1]) + 1 ELSE sealF[h] = <<>>
    /\ IF hopsUp = 3 THEN openB[1] = openB[3] + 2 /\ openB[2] = openB[3] + 1
                     ELSE openB[1] = One(hopsUp = 2) /\ openB[2] = 0 /\ openB[3] = 0

\* A relay before the exit: nothing to forward either way until it has
\* extended the circuit.
Extends(h) ==
    /\ Carries(sealB[h], h)
    /\ pc[h] # "closing"
    /\ pc[h] = "dial" => openF[h] = 1 /\ sealB[h] = <<>>
    /\ pc[h] = "select" => IF near[h + 1] THEN openF[h] >= 1 /\ sealB[h] # <<>>
                                          ELSE openF[h] = 0 /\ sealB[h] = <<>>

InStep == (\A l \in Hops : Link(l)) /\ Layered /\ (\A h \in 1..2 : Extends(h))
CounterInv == faults = 0 => InStep

\* A run that loses its first frame, or gains the next, is a run.
LEMMA RunTail ==
  ASSUME NEW q \in Seq(Frame), NEW h \in Nat, NEW n \in Int, q # <<>>, Run(q, h, n)
  PROVE  /\ Head(q) = Sealed(h, n + 1) /\ Run(Tail(q), h, n + 1)
         /\ Len(q) \in Nat /\ Len(q) >= 1 /\ Len(Tail(q)) = Len(q) - 1
<1>1. /\ Head(q) = q[1] /\ Len(q) \in Nat /\ Len(q) >= 1 /\ Len(Tail(q)) = Len(q) - 1
      /\ \A i \in 1..Len(q) - 1 : Tail(q)[i] = q[i + 1] /\ i + 1 \in 1..Len(q)
  BY SMT
<1>2. Head(q) = Sealed(h, n + 1)
  BY SMT, <1>1 DEF Run
<1>3. ASSUME NEW i \in 1..Len(Tail(q)) PROVE Tail(q)[i] = Sealed(h, n + 1 + i)
  <2>1. i \in 1..Len(q) - 1
    BY <1>1
  <2>2. Tail(q)[i] = Sealed(h, n + (i + 1))
    BY <1>1, <2>1 DEF Run
  <2>3. n + (i + 1) = n + 1 + i
    BY SMT, <2>1
  <2> QED BY <2>2, <2>3
<1> QED BY <1>1, <1>2, <1>3 DEF Run

\* A run that gains the next frame is a run.
LEMMA RunAppend ==
  ASSUME NEW q \in Seq(Frame), NEW h \in Nat, NEW n \in Int, Run(q, h, n)
  PROVE  LET s == Append(q, Sealed(h, n + Len(q) + 1))
         IN Run(s, h, n) /\ Len(s) = Len(q) + 1
<1> DEFINE f == Sealed(h, n + Len(q) + 1)
           s == Append(q, f)
<1>1. Len(q) \in Nat /\ Len(s) = Len(q) + 1 /\ s[Len(q) + 1] = f
      /\ \A i \in 1..Len(q) : s[i] = q[i]
  BY SMT
<1>2. ASSUME NEW i \in 1..Len(s) PROVE s[i] = Sealed(h, n + i)
  <2>1. CASE i = Len(q) + 1
    BY SMT, <1>1, <2>1
  <2>2. CASE i # Len(q) + 1
    <3>1. i \in 1..Len(q)
      BY SMT, <1>1, <2>2
    <3> QED BY <1>1, <3>1 DEF Run
  <2> QED BY <2>1, <2>2
<1> QED BY <1>1, <1>2 DEF Run

\* An empty link carries a run, from any counter on.
LEMMA RunEmpty == \A h, n : Run(<<>>, h, n)
  BY SMT DEF Run

\* An empty link holds no frames.
LEMMA NoneLeft == Len(<<>>) = 0
  BY SMT

\* A link that loses its only frame is empty.
LEMMA LastTail == \A q \in Seq(Frame) : q # <<>> /\ Len(q) <= 1 => Tail(q) = <<>>
<1> SUFFICES ASSUME NEW q \in Seq(Frame), q # <<>>, Len(q) <= 1 PROVE Tail(q) = <<>>
  BY SMT
<1>1. Tail(q) \in Seq(Frame) /\ Len(Tail(q)) = Len(q) - 1 /\ Len(q) \in Nat
  BY SMT
<1>2. Len(Tail(q)) \in Nat /\ Len(Tail(q)) <= 0
  BY SMT, <1>1
<1> QED BY SMT, <1>1, <1>2

\* The types of one link, and of the counters at its far end.
LEMMA LinkTypes ==
  ASSUME TypeOK, NEW l \in Hops
  PROVE  /\ fwd[l] \in Seq(Frame) /\ bwd[l] \in Seq(Frame) /\ sealB[l] \in Seq(Plain)
         /\ openF[l] \in Nat /\ Len(fwd[l]) \in Nat /\ Len(bwd[l]) \in Nat /\ Len(sealB[l]) \in Nat
         /\ l \in Nat
<1>1. fwd[l] \in Seq(Frame) /\ bwd[l] \in Seq(Frame) /\ sealB[l] \in Seq(Plain) /\ openF[l] \in Nat
  BY DEF TypeOK
<1> QED BY SMTT(30), <1>1, HopSets

\* What the near end has sent and taken are integers.
LEMMA CountTypes ==
  ASSUME TypeOK, NEW l \in Hops
  PROVE  Sent(l - 1) \in Int /\ Took(l - 1) \in Int
<1>1. CASE l = 1
  <2>1. sealF[1] \in Seq(Plain) /\ openB[1] \in Nat
    BY HopSets DEF TypeOK
  <2> QED BY SMT, <1>1, <2>1 DEF Sent, Took
<1>2. CASE l # 1
  <2>1. l - 1 \in Hops /\ l - 1 # 0
    BY SMT, <1>2 DEF Hops
  <2> QED BY SMT, <2>1, LinkTypes DEF Sent, Took
<1> QED BY <1>1, <1>2

\* No party waits for message 2 and reads frames at once.
LEMMA Phases == \A p : ~ (Waits(p) /\ Reads(p))
<1> SUFFICES ASSUME NEW p, Waits(p), Reads(p) PROVE FALSE
  BY SMT
<1>1. CASE p = 0
  BY SMT, <1>1 DEF Waits, Reads
<1>2. CASE p # 0
  BY <1>2 DEF Waits, Reads
<1> QED BY <1>1, <1>2

(***************************************************************************)
(* What a step does to one link, seen from either end.                     *)
(***************************************************************************)
FarSame(l) ==
    /\ pc'[l] = pc[l] /\ openF'[l] = openF[l] /\ sealB'[l] = sealB[l] /\ far'[l] = far[l]
    /\ WritesB(l)' <=> WritesB(l)
    /\ WritesB(l) => out'[l][1].frame = out[l][1].frame

Up(p) == pc[p] \notin {"start", "idle", "ended"}

NearSame(l) ==
    /\ Waits(l - 1)' <=> Waits(l - 1)
    /\ Reads(l - 1)' <=> Reads(l - 1)
    /\ Sent(l - 1)' = Sent(l - 1) /\ Took(l - 1)' = Took(l - 1)
    /\ WritesF(l - 1)' <=> WritesF(l - 1)
    /\ WritesF(l - 1) => out'[l - 1][1].frame = out[l - 1][1].frame
    /\ near'[l] = near[l]
    /\ Up(l - 1) => Up(l - 1)'

\* A step that changes neither end of a link, nor the link, keeps it in step.
LEMMA SameLink ==
  ASSUME NEW l \in Hops, Link(l), FarSame(l), NearSame(l), fwd'[l] = fwd[l], bwd'[l] = bwd[l]
  PROVE  Link(l)'
<1> USE DEF Link, FarSame, NearSame
<1>1. Joined(l)'
  BY DEF Joined, Up
<1>2. Fresh(l)'
  BY DEF Fresh, One
<1>3. InStepF(l)'
  BY DEF InStepF, One, Serves
<1>4. InStepB(l)'
  BY DEF InStepB, One, Serves
<1> QED BY <1>1, <1>2, <1>3, <1>4

\* The far end takes the presentation (handle_connection).
LEMMA FarReads ==
  ASSUME TypeOK, NEW l \in Hops, Link(l), NearSame(l), pc[l] = "hello", pc'[l] = "handshake",
         out'[l] = out[l], openF'[l] = openF[l], sealB'[l] = sealB[l], far'[l] = far[l],
         bwd'[l] = bwd[l], fwd[l] # <<>>, fwd'[l] = Tail(fwd[l])
  PROVE  Link(l)'
<1> USE DEF Link, NearSame
<1>1. fwd'[l] = <<>> /\ ~WritesF(l - 1)
  <2>1. Len(fwd[l]) + One(WritesF(l - 1)) <= 1
    BY DEF Fresh
  <2>2. fwd[l] \in Seq(Frame) /\ Len(fwd[l]) \in Nat /\ Len(fwd[l]) # 0
    BY SMT, LinkTypes
  <2>3. One(WritesF(l - 1)) = IF WritesF(l - 1) THEN 1 ELSE 0
    BY DEF One
  <2>4. ~WritesF(l - 1)
    BY SMT, <2>1, <2>2, <2>3
  <2>5. Len(fwd[l]) <= 1
    BY SMT, <2>1, <2>2, <2>3
  <2>6. fwd'[l] = <<>>
    BY <2>2, <2>5, LastTail
  <2> QED BY <2>4, <2>6
<1>2. Joined(l)'
  BY DEF Joined, Up
<1>3. Fresh(l)'
  BY <1>1 DEF Fresh, PreCircuit
<1>4. InStepF(l)'
  BY DEF InStepF, Serves
<1>5. InStepB(l)'
  BY DEF InStepB, One, Serves, WritesB
<1> QED BY <1>2, <1>3, <1>4, <1>5

\* It answers with message 2 (drive_circuit).
LEMMA FarAnswers ==
  ASSUME TypeOK, NEW l \in Hops, Link(l), NearSame(l), pc[l] = "handshake", pc'[l] = "select",
         openF[l] = 0, openF'[l] = 0, sealB'[l] = sealB[l], far'[l] = far[l], fwd'[l] = fwd[l],
         bwd'[l] = bwd[l]
  PROVE  Link(l)'
<1> USE DEF Link, NearSame
<1>1. /\ fwd[l] = <<>> /\ bwd[l] = <<>> /\ sealB[l] = <<>> /\ ~WritesF(l - 1)
      /\ near[l] => Waits(l - 1)
  BY DEF Fresh, PreCircuit
<1>2. Joined(l)'
  BY DEF Joined, Up
<1>3. Fresh(l)'
  BY DEF Fresh, PreCircuit
<1>4. InStepF(l)'
  <2>1. Len(fwd'[l]) = 0
    BY SMT, <1>1
  <2>2. near[l] => Sent(l - 1) = 0
    BY <1>1 DEF Joined
  <2> QED BY SMTT(30), <1>1, <2>1, <2>2, RunEmpty DEF InStepF, One
<1>5. InStepB(l)'
  <2>1. ~Reads(l - 1)
    BY <1>1, Phases DEF Joined
  <2>2. Len(bwd'[l]) = 0
    BY SMT, <1>1
  <2> QED BY SMT, <1>1, <2>1, <2>2 DEF InStepB, One
<1> QED BY <1>2, <1>3, <1>4, <1>5

\* It opens at most one frame, and seals at most one, once it has opened some.
LEMMA FarRuns ==
  ASSUME TypeOK, NEW l \in Hops, Link(l), NearSame(l), Serves(l), Serves(l)', ~WritesB(l),
         far'[l] = far[l], bwd'[l] = bwd[l],
         \/ fwd'[l] = fwd[l] /\ openF'[l] = openF[l]
         \/ fwd[l] # <<>> /\ fwd'[l] = Tail(fwd[l]) /\ openF'[l] = openF[l] + 1,
         \/ sealB'[l] = sealB[l] /\ ~WritesB(l)'
         \/ /\ openF'[l] >= 1 /\ Len(sealB'[l]) = Len(sealB[l]) + 1
            /\ WritesB(l)' /\ out'[l][1].frame = Sealed(l, Len(sealB[l]) + 1)
  PROVE  Link(l)'
<1> USE DEF Link, NearSame
<1>t. /\ fwd[l] \in Seq(Frame) /\ openF[l] \in Nat /\ Len(fwd[l]) \in Nat /\ Len(bwd[l]) \in Nat
      /\ Len(sealB[l]) \in Nat /\ l \in Nat
  BY LinkTypes
<1>0. pc[l] \notin PreCircuit /\ pc'[l] \notin PreCircuit /\ pc'[l] # "ended"
  BY DEF Serves, PreCircuit
<1>1. Run(fwd[l], l, openF[l])
  BY DEF InStepF
<1>2. Joined(l)'
  BY <1>0 DEF Joined, Up, Serves
<1>3. Fresh(l)'
  BY <1>0 DEF Fresh, PreCircuit
<1>4. Run(fwd'[l], l, openF'[l]) /\ openF'[l] + Len(fwd'[l]) = openF[l] + Len(fwd[l])
  <2>1. CASE fwd[l] # <<>> /\ fwd'[l] = Tail(fwd[l]) /\ openF'[l] = openF[l] + 1
    BY SMTT(30), <1>t, <1>1, <2>1, RunTail
  <2> QED BY <1>1, <2>1
<1>5. InStepF(l)'
  BY <1>4 DEF InStepF, One
<1>6. CASE sealB'[l] = sealB[l] /\ ~WritesB(l)'
  <2>1. InStepB(l)'
    BY <1>6 DEF InStepB, One
  <2> QED BY <1>2, <1>3, <1>5, <2>1
<1>7. CASE ~ (sealB'[l] = sealB[l] /\ ~WritesB(l)')
  <2>1. ~Waits(l - 1)
    <3>1. SUFFICES ASSUME Waits(l - 1) PROVE FALSE
      BY SMT
    <3>2. Sent(l - 1) = 0 /\ near[l]
      BY <3>1 DEF Joined
    <3>3. openF[l] + Len(fwd[l]) + One(WritesF(l - 1)) = 0
      BY <3>2 DEF InStepF
    <3>4. openF[l] = 0 /\ Len(fwd[l]) = 0
      BY SMTT(30), <1>t, <3>3 DEF One
    <3>5. fwd[l] = <<>>
      BY SMTT(30), <1>t, <3>4
    <3> QED BY SMT, <1>7, <3>4, <3>5
  <2>2. ASSUME Reads(l - 1) PROVE Len(sealB[l]) = Took(l - 1) + Len(bwd[l])
    <3>1. Len(sealB[l]) = Took(l - 1) + Len(bwd[l]) + One(WritesB(l))
      BY <2>2 DEF InStepB
    <3>2. One(WritesB(l)) = 0
      BY DEF One
    <3> QED BY SMT, <1>t, <3>1, <3>2, CountTypes
  <2>3. InStepB(l)'
    BY <1>7, <2>1, <2>2 DEF InStepB, One
  <2> QED BY <1>2, <1>3, <1>5, <2>3
<1> QED BY <1>6, <1>7

\* Its write toward the client completes (RelayWritesBack).
LEMMA FarWrites ==
  ASSUME TypeOK, NEW l \in Hops, Link(l), NearSame(l), WritesB(l), ~WritesB(l)',
         pc[l] \notin PreCircuit, pc'[l] = pc[l], openF'[l] = openF[l], sealB'[l] = sealB[l],
         far'[l] = far[l], fwd'[l] = fwd[l],
         bwd'[l] = IF near[l] THEN Append(bwd[l], out[l][1].frame) ELSE bwd[l]
  PROVE  Link(l)'
<1> USE DEF Link, NearSame
<1>t. /\ bwd[l] \in Seq(Frame) /\ Len(bwd[l]) \in Nat /\ Took(l - 1) \in Int /\ l \in Nat
  BY LinkTypes, CountTypes
<1>1. Joined(l)'
  BY DEF Joined, Up
<1>2. Fresh(l)'
  BY DEF Fresh, PreCircuit
<1>3. InStepF(l)'
  BY DEF InStepF, One, Serves
<1>4. One(WritesB(l)) = 1 /\ One(WritesB(l)') = 0
  BY DEF One
<1>5. ASSUME Waits(l - 1) PROVE Len(bwd'[l]) \in Nat /\ Len(bwd'[l]) <= 1 /\ sealB[l] = <<>>
  <2>1. near[l] /\ sealB[l] = <<>> /\ Len(bwd[l]) + 1 <= 1
    BY <1>4, <1>5 DEF Joined, InStepB
  <2>2. Len(bwd[l]) = 0
    BY SMT, <1>t, <2>1
  <2>3. out[l][1].frame \in Frame
    BY PendingFrame, HopSets DEF WritesB
  <2> QED BY SMT, <1>t, <2>1, <2>2, <2>3
<1>6. ASSUME Reads(l - 1)
      PROVE  /\ Run(bwd'[l], l, Took(l - 1)) /\ Len(bwd'[l]) = Len(bwd[l]) + 1
             /\ Serves(l) => Len(sealB[l]) = Took(l - 1) + Len(bwd'[l]) + 0
  <2>1. /\ near[l] /\ Run(bwd[l], l, Took(l - 1))
        /\ out[l][1].frame = Sealed(l, Took(l - 1) + Len(bwd[l]) + 1)
        /\ Serves(l) => Len(sealB[l]) = Took(l - 1) + Len(bwd[l]) + 1
    BY <1>4, <1>6 DEF Joined, InStepB
  <2>2. Run(bwd'[l], l, Took(l - 1)) /\ Len(bwd'[l]) = Len(bwd[l]) + 1
    BY SMT, <1>t, <2>1, RunAppend
  <2> QED BY SMT, <1>t, <2>1, <2>2
<1>7. InStepB(l)'
  <2>1. Serves(l)' <=> Serves(l)
    BY DEF Serves
  <2>2. ASSUME Waits(l - 1)' PROVE sealB'[l] = <<>> /\ Len(bwd'[l]) + One(WritesB(l)') <= 1
    BY SMT, <1>4, <1>5, <2>2
  <2>3. ASSUME Reads(l - 1)'
        PROVE  /\ Run(bwd'[l], l, Took(l - 1)')
               /\ Serves(l)' => Len(sealB'[l]) = Took(l - 1)' + Len(bwd'[l]) + One(WritesB(l)')
    BY <1>4, <1>6, <2>1, <2>3
  <2> QED BY <2>2, <2>3 DEF InStepB
<1> QED BY <1>1, <1>2, <1>3, <1>7

\* It returns from handle_connection.
LEMMA FarEnds ==
  ASSUME TypeOK, NEW l \in Hops, Link(l), NearSame(l), pc'[l] = "ended", out'[l] = <<>>,
         openF'[l] = openF[l], sealB'[l] = sealB[l], bwd'[l] = bwd[l]
  PROVE  Link(l)'
<1> USE DEF Link, NearSame
<1>1. Joined(l)'
  BY DEF Joined, Up
<1>2. Fresh(l)'
  BY DEF Fresh, PreCircuit
<1>3. InStepF(l)'
  BY DEF InStepF, Serves
<1>4. ~WritesB(l)' /\ ~Serves(l)'
  BY DEF WritesB, Serves
<1>5. ASSUME Waits(l - 1) PROVE sealB[l] = <<>> /\ Len(bwd[l]) + One(WritesB(l)') <= 1
  <2>1. sealB[l] = <<>> /\ Len(bwd[l]) + One(WritesB(l)) <= 1
    BY <1>5 DEF InStepB
  <2>2. One(WritesB(l)') = 0 /\ One(WritesB(l)) \in {0, 1} /\ Len(bwd[l]) \in Nat
    BY <1>4, LinkTypes DEF One
  <2> QED BY SMT, <2>1, <2>2
<1>6. InStepB(l)'
  BY <1>4, <1>5 DEF InStepB
<1> QED BY <1>1, <1>2, <1>3, <1>6

\* The near end connects and writes the presentation (dial, open_next_link).
LEMMA NearOpens ==
  ASSUME TypeOK, NEW l \in Hops, Link(l), pc[l] = "idle", pc'[l] = "hello", near'[l], far'[l],
         sealB'[l] = sealB[l], out[l] = <<>>, out'[l] = out[l], fwd'[l] = fwd[l], bwd'[l] = bwd[l],
         Waits(l - 1)', Sent(l - 1)' = 0, Up(l - 1)'
  PROVE  Link(l)'
<1> USE DEF Link
<1>1. fwd'[l] = <<>> /\ bwd'[l] = <<>> /\ sealB'[l] = <<>> /\ Len(fwd'[l]) = 0 /\ Len(bwd'[l]) = 0
  BY SMT DEF Fresh, PreCircuit
<1>2. ~Reads(l - 1)'
  BY SMT DEF Waits, Reads
<1>3. Joined(l)'
  BY DEF Joined, Up
<1>4. One(WritesF(l - 1)') \in {0, 1} /\ One(WritesB(l)') = 0
  BY DEF One, WritesB
<1>5. Fresh(l)'
  BY SMT, <1>1, <1>4 DEF Fresh
<1>6. InStepF(l)'
  BY DEF InStepF, Serves
<1>7. InStepB(l)'
  BY SMT, <1>1, <1>2, <1>4 DEF InStepB
<1> QED BY <1>3, <1>5, <1>6, <1>7

\* The near end passes on at most one frame and takes at most one, the first
\* of which ends its wait.  The client may stop reading (Break).
LEMMA NearRuns ==
  ASSUME TypeOK, NEW l \in Hops, Link(l), FarSame(l), near[l], near'[l], fwd'[l] = fwd[l],
         Up(l - 1)', ~WritesF(l - 1), ~Waits(l - 1)',
         \/ ~WritesF(l - 1)' /\ Sent(l - 1)' = Sent(l - 1)
         \/ /\ WritesF(l - 1)' /\ Sent(l - 1)' = Sent(l - 1) + 1
            /\ out'[l - 1][1].frame = Sealed(l, Sent(l - 1) + 1),
         \/ Reads(l - 1) /\ ((bwd'[l] = bwd[l] /\ Took(l - 1)' = Took(l - 1)) \/ ~Reads(l - 1)')
         \/ Reads(l - 1) /\ bwd[l] # <<>> /\ bwd'[l] = Tail(bwd[l])
            /\ Took(l - 1)' = Took(l - 1) + 1
         \/ Waits(l - 1) /\ bwd[l] # <<>> /\ bwd'[l] = Tail(bwd[l]) /\ Took(l - 1)' = 0
  PROVE  Link(l)'
<1> USE DEF Link, FarSame
<1>t. /\ fwd[l] \in Seq(Frame) /\ bwd[l] \in Seq(Frame) /\ l \in Nat /\ openF[l] \in Nat
      /\ Len(fwd[l]) \in Nat /\ Len(bwd[l]) \in Nat /\ Len(sealB[l]) \in Nat
      /\ Sent(l - 1) \in Int /\ Took(l - 1) \in Int
  BY LinkTypes, CountTypes
<1>0. pc[l] \notin PreCircuit
  BY Phases DEF Fresh, PreCircuit
<1>1. Joined(l)'
  BY DEF Joined, Up
<1>2. Fresh(l)'
  BY <1>0 DEF Fresh, PreCircuit
<1>3. Serves(l)' <=> Serves(l)
  BY DEF Serves
<1>4. ASSUME Serves(l) PROVE openF[l] + Len(fwd[l]) = Sent(l - 1)
  <2>1. openF[l] + Len(fwd[l]) + One(WritesF(l - 1)) = Sent(l - 1) /\ One(WritesF(l - 1)) = 0
    BY <1>4 DEF InStepF, One
  <2> QED BY SMT, <1>t, <2>1
<1>5. InStepF(l)'
  <2>1. ASSUME Serves(l) PROVE Run(fwd'[l], l, openF'[l])
    BY <2>1 DEF InStepF
  <2>2. CASE ~WritesF(l - 1)' /\ Sent(l - 1)' = Sent(l - 1)
    BY <1>t, <1>3, <1>4, <2>1, <2>2 DEF InStepF, One
  <2>3. CASE /\ WritesF(l - 1)' /\ Sent(l - 1)' = Sent(l - 1) + 1
             /\ out'[l - 1][1].frame = Sealed(l, Sent(l - 1) + 1)
    BY <1>t, <1>3, <1>4, <2>1, <2>3 DEF InStepF, One
  <2> QED BY <2>2, <2>3
<1>6. (WritesB(l)' <=> WritesB(l)) /\ One(WritesB(l)') = One(WritesB(l)) /\ One(WritesB(l)) \in {0, 1}
  BY DEF One
<1>7. InStepB(l)'
  <2>1. CASE Reads(l - 1) /\ ((bwd'[l] = bwd[l] /\ Took(l - 1)' = Took(l - 1)) \/ ~Reads(l - 1)')
    BY <1>3, <1>6, <2>1 DEF InStepB
  <2>2. CASE Reads(l - 1) /\ bwd[l] # <<>> /\ bwd'[l] = Tail(bwd[l])
             /\ Took(l - 1)' = Took(l - 1) + 1
    <3>1. Run(bwd[l], l, Took(l - 1))
      BY <2>2 DEF InStepB
    <3>2. Run(bwd'[l], l, Took(l - 1)') /\ Len(bwd'[l]) = Len(bwd[l]) - 1
      BY SMT, <1>t, <2>2, <3>1, RunTail
    <3>3. ASSUME WritesB(l) PROVE out'[l][1].frame = Sealed(l, Took(l - 1)' + Len(bwd'[l]) + 1)
      <4>1. out[l][1].frame = Sealed(l, Took(l - 1) + Len(bwd[l]) + 1)
        BY <2>2, <3>3 DEF InStepB
      <4>2. Took(l - 1)' + Len(bwd'[l]) + 1 = Took(l - 1) + Len(bwd[l]) + 1
        BY SMTT(30), <1>t, <2>2, <3>2
      <4> QED BY <3>3, <4>1, <4>2
    <3>4. ASSUME Serves(l) PROVE Len(sealB[l]) = Took(l - 1)' + Len(bwd'[l]) + One(WritesB(l))
      <4>1. Len(sealB[l]) = Took(l - 1) + Len(bwd[l]) + One(WritesB(l))
        BY <2>2, <3>4 DEF InStepB
      <4> QED BY SMTT(30), <1>t, <1>6, <2>2, <3>2, <4>1
    <3> QED BY <1>3, <1>6, <3>2, <3>3, <3>4 DEF InStepB
  <2>3. CASE Waits(l - 1) /\ bwd[l] # <<>> /\ bwd'[l] = Tail(bwd[l]) /\ Took(l - 1)' = 0
    <3>1. sealB[l] = <<>> /\ Len(bwd[l]) + One(WritesB(l)) <= 1
      BY <2>3 DEF InStepB
    <3>2. Len(bwd[l]) # 0
      BY SMTT(30), <1>t, <2>3
    <3>3. Len(bwd[l]) <= 1 /\ One(WritesB(l)) = 0
      BY SMT, <1>t, <1>6, <3>1, <3>2
    <3>4. bwd'[l] = <<>> /\ sealB'[l] = <<>> /\ Len(<<>>) = 0
      BY <1>t, <2>3, <3>1, <3>3, LastTail, NoneLeft
    <3>5. ~WritesB(l)
      BY SMT, <3>3 DEF One
    <3> QED BY SMTT(30), <1>6, <2>3, <3>3, <3>4, <3>5, RunEmpty DEF InStepB
  <2> QED BY <2>1, <2>2, <2>3
<1> QED BY <1>1, <1>2, <1>5, <1>7

\* Its write toward the far end completes; after CLOSE_REQUEST the client
\* drops the link.
LEMMA NearWrites ==
  ASSUME TypeOK, NEW l \in Hops, Link(l), FarSame(l), WritesF(l - 1), ~WritesF(l - 1)',
         Sent(l - 1)' = Sent(l - 1), out[l - 1][1].frame \in Frame,
         fwd'[l] = IF far[l] THEN Append(fwd[l], out[l - 1][1].frame) ELSE fwd[l],
         \/ /\ near'[l] = near[l] /\ bwd'[l] = bwd[l] /\ Took(l - 1)' = Took(l - 1) /\ Up(l - 1)'
            /\ (Waits(l - 1)' <=> Waits(l - 1)) /\ (Reads(l - 1)' <=> Reads(l - 1))
         \/ ~near'[l] /\ bwd'[l] = <<>> /\ ~Waits(l - 1)' /\ ~Reads(l - 1)'
  PROVE  Link(l)'
<1> USE DEF Link, FarSame
<1>t. /\ fwd[l] \in Seq(Frame) /\ l \in Nat /\ openF[l] \in Nat /\ Len(fwd[l]) \in Nat
      /\ Sent(l - 1) \in Int
  BY LinkTypes, CountTypes
<1>0. near[l] /\ pc[l] # "idle" /\ pc[l] # "handshake"
  BY DEF Joined, Fresh
<1>1. Joined(l)'
  BY DEF Joined, Up
<1>2. One(WritesF(l - 1)) = 1 /\ One(WritesF(l - 1)') = 0
  BY DEF One
<1>3. Fresh(l)'
  <2>1. ASSUME pc[l] = "hello" PROVE Len(fwd'[l]) + One(WritesF(l - 1)') <= 1
    <3>1. far[l] /\ Len(fwd[l]) + 1 <= 1
      BY <1>2, <2>1 DEF Fresh, Joined
    <3>2. Len(fwd'[l]) = Len(fwd[l]) + 1
      BY SMT, <1>t, <3>1
    <3> QED BY SMT, <1>t, <1>2, <3>1, <3>2
  <2>2. ASSUME pc[l] = "hello", near'[l] PROVE Waits(l - 1)'
    BY <1>0, <2>2 DEF Fresh
  <2> QED BY <1>0, <2>1, <2>2 DEF Fresh, PreCircuit
<1>4. Serves(l)' <=> Serves(l)
  BY DEF Serves
<1>5. InStepF(l)'
  <2>1. CASE Serves(l)
    <3>1. /\ far[l] /\ Run(fwd[l], l, openF[l])
          /\ out[l - 1][1].frame = Sealed(l, openF[l] + Len(fwd[l]) + 1)
          /\ openF[l] + Len(fwd[l]) + 1 = Sent(l - 1)
      BY <1>0, <1>2, <2>1 DEF InStepF, Joined, Serves
    <3>2. Run(fwd'[l], l, openF[l]) /\ Len(fwd'[l]) = Len(fwd[l]) + 1
      BY SMTT(30), <1>t, <3>1, RunAppend
    <3>3. openF[l] + (Len(fwd[l]) + 1) + 0 = openF[l] + Len(fwd[l]) + 1
      BY SMTT(30), <1>t
    <3> QED BY <1>2, <3>1, <3>2, <3>3 DEF InStepF
  <2> QED BY <1>4, <2>1 DEF InStepF
<1>6. InStepB(l)'
  <2>1. One(WritesB(l)') = One(WritesB(l)) /\ (WritesB(l)' <=> WritesB(l))
    BY DEF One
  <2> QED BY <1>4, <2>1 DEF InStepB
<1> QED BY <1>1, <1>3, <1>5, <1>6

\* It drops the link, and whatever it was writing.
LEMMA NearEnds ==
  ASSUME TypeOK, NEW l \in Hops, Link(l), FarSame(l), fwd'[l] = fwd[l], bwd'[l] = <<>>,
         ~near'[l], ~WritesF(l - 1)', ~Waits(l - 1)', ~Reads(l - 1)'
  PROVE  Link(l)'
<1> USE DEF Link, FarSame
<1>1. Joined(l)'
  BY DEF Joined
<1>2. Fresh(l)'
  <2>1. ASSUME pc[l] = "hello" PROVE Len(fwd[l]) + One(WritesF(l - 1)') <= 1
    <3>1. Len(fwd[l]) + One(WritesF(l - 1)) <= 1
      BY <2>1 DEF Fresh
    <3>2. One(WritesF(l - 1)') = 0 /\ One(WritesF(l - 1)) \in {0, 1} /\ Len(fwd[l]) \in Nat
      BY LinkTypes DEF One
    <3> QED BY SMT, <3>1, <3>2
  <2> QED BY <2>1 DEF Fresh
<1>3. InStepF(l)'
  BY DEF InStepF, Serves
<1>4. InStepB(l)'
  BY DEF InStepB
<1> QED BY <1>1, <1>2, <1>3, <1>4

\* The far end is gone, and the near end stops reading.
LEMMA FarGone ==
  ASSUME NEW l \in Hops, Link(l), FarSame(l), pc[l] = "ended", near'[l], Up(l - 1)',
         ~Waits(l - 1)', ~Reads(l - 1)'
  PROVE  Link(l)'
  BY DEF Link, FarSame, Joined, Fresh, InStepF, InStepB, Serves, Up, PreCircuit

(***************************************************************************)
(* Type correctness of one step.                                           *)
(***************************************************************************)

\* Layers::send_to seals one frame per layer and starts one write.
LEMMA SealTypes ==
  ASSUME TypeOK, NEW k \in Hops, NEW t \in CellTypes, NEW a \in Nat, SendFor(k, ToMe(t, a))
  PROVE  sealF' \in [Hops -> Seq(Plain)] /\ out' \in [Parties -> Seq(Write)]
<1>1. ASSUME NEW h \in Hops, h < k
      PROVE  Forward(Sealed(h + 1, Len(sealF[h + 1]) + 1)) \in Plain
  <2>1. h + 1 \in Hops
    BY <1>1, HopSets
  <2>2. Len(sealF[h + 1]) + 1 \in Nat
    BY SMT, <2>1 DEF TypeOK
  <2> QED BY <2>1, <2>2, FrameTypes
<1>2. ToMe(t, a) \in Plain
  BY FrameTypes
<1>3. ASSUME NEW h \in Hops
      PROVE  sealF'[h] \in Seq(Plain)
  <2>1. sealF[h] \in Seq(Plain) /\ h \in Nat /\ k \in Nat
    BY HopSets DEF TypeOK
  <2>2. CASE h > k
    BY <2>1, <2>2 DEF SendFor, SealFor
  <2>3. CASE h = k
    BY SMT, <2>1, <2>3, <1>2 DEF SendFor, SealFor
  <2>4. CASE h < k
    <3>1. sealF'[h] = Append(sealF[h], Forward(Sealed(h + 1, Len(sealF[h + 1]) + 1)))
      BY SMT, <2>1, <2>4 DEF SendFor, SealFor
    <3> QED BY SMT, <2>1, <2>4, <3>1, <1>1
  <2> QED BY SMT, <2>1, <2>2, <2>3, <2>4
<1>4. sealF' \in [Hops -> Seq(Plain)]
  BY <1>3 DEF SendFor, SealFor
<1>5. Len(sealF[1]) + 1 \in Nat /\ 1 \in Hops
  BY SMT, HopSets DEF TypeOK
<1>6. Fwd(Sealed(1, Len(sealF[1]) + 1)) \in Seq(Write)
  BY <1>5, FrameTypes
<1> QED BY <1>4, <1>6 DEF TypeOK, SendFor

\* Types are kept when circuit_task returns and drops its stream.
LEMMA ClientEndsType ==
  ASSUME TypeOK, ClientEnds
  PROVE  TypeOK'
<1>1. pc' \in [Parties -> PCs]
  BY DEF TypeOK, ClientEnds, PCs
<1>2. out' \in [Parties -> Seq(Write)]
  BY Empties DEF TypeOK, ClientEnds
<1>3. near' \in [Hops -> BOOLEAN] /\ bwd' \in [Hops -> Seq(Frame)]
  BY Empties DEF TypeOK, ClientEnds, ClientDrops
<1> QED BY <1>1, <1>2, <1>3 DEF TypeOK, ClientEnds, relayVars, clientVars

\* Types are kept by the counters that peel_inbound advances.
LEMMA ClientOpensType ==
  ASSUME TypeOK, NEW d \in Nat, ClientOpens(d)
  PROVE  openB' \in [Hops -> Nat]
<1> DEFINE inc(h) == IF h <= d THEN 1 ELSE 0
<1>1. \A h \in Hops : openB[h] + inc(h) \in Nat
  BY SMTT(30) DEF TypeOK
<1>2. openB' = [h \in Hops |-> openB[h] + inc(h)]
  BY DEF ClientOpens
<1> HIDE DEF inc
<1> QED BY <1>1, <1>2

\* Types are kept when circuit_task leaves its loop and seals CLOSE_REQUEST.
LEMMA BreakType ==
  ASSUME TypeOK, Break
  PROVE  /\ sealF' \in [Hops -> Seq(Plain)] /\ out' \in [Parties -> Seq(Write)]
         /\ pc' \in [Parties -> PCs]
<1>1. "CloseRequest" \in CellTypes /\ 3 \in Hops /\ 0 \in Nat
  BY HopSets DEF CellTypes
<1>2. pc' \in [Parties -> PCs]
  BY DEF Break, TypeOK, PCs
<1>3. SendFor(3, ToMe("CloseRequest", 0))
  BY DEF Break
<1> QED BY <1>1, <1>2, <1>3, SealTypes

\* A DATA cell that reaches the client was sealed by the exit, and is the
\* next one of its stream.
LEMMA PeelData ==
  ASSUME TypeOK, FramesKnownB, UserStream, bwd[1] # <<>>,
         PeelDepth(Head(bwd[1])) > 0,
         PlainB(PeelDepth(Head(bwd[1])), Head(bwd[1])).type = "Data"
  PROVE  /\ PeelDepth(Head(bwd[1])) = 3
         /\ openB[3] + 1 \in 1..Len(sealB[3])
         /\ openB[3] + 1 <= destSent
         /\ PlainB(3, Head(bwd[1])) = ToMe("Data", openB[3] + 1)
<1>1. PICK f : f = Head(bwd[1])
  BY SMT
<1>2. PICK g : g = sealB[1][f.n].inner
  BY SMT
<1>3. PICK e : e = sealB[2][g.n].inner
  BY SMT
<1>4. PICK d : d = PeelDepth(f)
  BY SMT
<1>5. Layer(1, f) = f /\ Layer(2, f) = g /\ Layer(3, f) = e
  <2>1. Layer(1, f) = f  BY SMTT(60) DEF Layer
  <2>2. Layer(2, f) = g  BY SMTT(60), <1>2 DEF Layer
  <2>3. Layer(3, f) = sealB[2][sealB[1][f.n].inner.n].inner  BY SMTT(60) DEF Layer
  <2>4. Layer(3, f) = e  BY <1>2, <1>3, <2>3
  <2> QED  BY <2>1, <2>2, <2>4
<1>6. /\ PlainB(1, f) = sealB[1][f.n]
      /\ PlainB(2, f) = sealB[2][g.n]
      /\ PlainB(3, f) = sealB[3][e.n]
  BY <1>5 DEF PlainB
<1>7. /\ d > 0
      /\ PlainB(d, f).type = "Data"
      /\ d = IF f # Sealed(1, openB[1] + 1) THEN 0
             ELSE IF sealB[1][f.n].type # "Forward" THEN 1
             ELSE IF g # Sealed(2, openB[2] + 1) THEN 0
             ELSE IF sealB[2][g.n].type # "Forward" THEN 2
             ELSE IF e # Sealed(3, openB[3] + 1) THEN 0 ELSE 3
  BY <1>1, <1>4, <1>5, <1>6 DEF PeelDepth, OpensB
<1>8. f = bwd[1][1] /\ 1 \in 1..Len(bwd[1])
  <2>1. bwd[1] \in Seq(Frame)
    BY HopSets DEF TypeOK
  <2> QED BY SMT, <2>1, <1>1
<1>9. f.n \in 1..Len(sealB[1])
  <2>1. KnownB(1, f)
    BY <1>8, HopSets DEF FramesKnownB
  <2> QED BY SMT, <2>1, <1>7 DEF KnownB, Sealed
<1>10. sealB[1][f.n].type # "Data" /\ KnownB(2, g)
  BY SMTT(30), <1>2, <1>9 DEF FramesKnownB
<1>11. sealB[1][f.n].type = "Forward"
  BY SMTT(30), <1>6, <1>7, <1>10
<1>12. g.n \in 1..Len(sealB[2])
  BY SMTT(30), <1>7, <1>10, <1>11 DEF KnownB, Sealed
<1>13. sealB[2][g.n].type # "Data" /\ KnownB(3, e)
  BY SMTT(30), <1>3, <1>12 DEF FramesKnownB
<1>14. sealB[2][g.n].type = "Forward"
  BY SMTT(30), <1>6, <1>7, <1>11, <1>13
<1>15. d = 3 /\ e = Sealed(3, openB[3] + 1)
  BY SMT, <1>7, <1>11, <1>14
<1>16. e.n = openB[3] + 1 /\ e.n \in 1..Len(sealB[3])
  BY <1>13, <1>15 DEF KnownB, Sealed
<1>17. PlainB(3, f) = sealB[3][openB[3] + 1] /\ PlainB(3, f).type = "Data"
  BY <1>6, <1>7, <1>15, <1>16
<1>18. openB[3] + 1 <= destSent
  <2>1. PICK x : x = openB[3] + 1
    BY SMT
  <2>2. x \in 1..Len(sealB[3]) /\ sealB[3][x].type = "Data"
    BY <2>1, <1>16, <1>17
  <2>3. sealB[3][x] = IF x <= destSent THEN ToMe("Data", x) ELSE ToMe("CloseAck", 0)
    BY <2>2 DEF UserStream
  <2> QED BY SMTT(30), <2>1, <2>2, <2>3 DEF ToMe
<1> QED BY <1>1, <1>4, <1>15, <1>16, <1>17, <1>18 DEF UserStream

\* Types are kept by every step of dial and circuit_task.
LEMMA ClientType ==
  ASSUME TypeOK, ExitStream, FramesKnownB, UserStream, Client
  PROVE  TypeOK'
<1>1. CASE dial
  <2>1. CASE ClientEnds
    BY <2>1, ClientEndsType
  <2>2. CASE ~ClientEnds
    <3>1. Fwd(Hs) \in Seq(Write)
      BY FrameTypes
    <3>2. pc' \in [Parties -> PCs]
      BY <1>1, <2>2 DEF TypeOK, dial, PCs
    <3>3. out' \in [Parties -> Seq(Write)]
      BY <1>1, <2>2, <3>1 DEF TypeOK, dial
    <3>4. near' \in [Hops -> BOOLEAN] /\ far' \in [Hops -> BOOLEAN]
      BY <1>1, <2>2 DEF TypeOK, dial
    <3> QED BY <1>1, <2>2, <3>2, <3>3, <3>4 DEF TypeOK, dial, relayVars, clientVars
  <2> QED BY <2>1, <2>2
<1>2. CASE extend_hop
  <2>0. At(0, "wait") /\ hopsUp \in 0..3
    BY <1>2 DEF extend_hop, TypeOK
  <2>1. hopsUp # 3
    BY <2>0 DEF At, ExitStream, WritesF
  <2>2. hopsUp + 1 \in Hops /\ hopsUp + 1 \in 0..3
    BY SMT, <2>0, <2>1 DEF Hops
  <2>3. \E t \in CellTypes : SendFor(hopsUp + 1, ToMe(t, 0))
    BY <1>2 DEF extend_hop, CellTypes
  <2>4. sealF' \in [Hops -> Seq(Plain)] /\ out' \in [Parties -> Seq(Write)]
    BY <2>2, <2>3, SealTypes
  <2>5. openB' \in [Hops -> Nat]
    BY SMTT(30), <1>2, <2>0, ClientOpensType DEF extend_hop
  <2>6. bwd' \in [Hops -> Seq(Frame)]
    BY SMT, <1>2, HopSets DEF extend_hop, ClientReads, TypeOK
  <2> QED BY <1>2, <2>2, <2>4, <2>5, <2>6 DEF extend_hop, TypeOK, relayVars
<1>3. CASE dial_error
  BY <1>3, ClientEndsType DEF dial_error
<1>4. CASE circuit_task_user
  <2>1. CASE Break /\ UNCHANGED userSent
    BY <1>4, <2>1, BreakType DEF circuit_task_user, TypeOK, relayVars, linkVars
  <2>2. CASE ~(Break /\ UNCHANGED userSent)
    <3>0. userSent + 1 \in Nat /\ userSent' = userSent + 1
      BY SMT, <1>4, <2>2 DEF circuit_task_user, TypeOK
    <3>1. userSent' \in Nat /\ "Data" \in CellTypes /\ 3 \in Hops
      BY <3>0, HopSets DEF CellTypes
    <3>2. SendFor(3, ToMe("Data", userSent + 1))
      BY <1>4, <2>2 DEF circuit_task_user
    <3>3. sealF' \in [Hops -> Seq(Plain)] /\ out' \in [Parties -> Seq(Write)]
      BY <3>0, <3>1, <3>2, SealTypes
    <3> QED BY <1>4, <2>2, <3>1, <3>3 DEF circuit_task_user, TypeOK, relayVars, linkVars
  <2> QED BY <2>1, <2>2
<1>5. CASE circuit_task_inbound
  <2> DEFINE f == Head(bwd[1])
  <2>1. bwd' \in [Hops -> Seq(Frame)]
    BY SMT, <1>5, HopSets DEF circuit_task_inbound, ClientReads, TypeOK
  <2>2. CASE PeelDepth(f) > 0 /\ PlainB(PeelDepth(f), f).type = "Data"
    <3>1. PeelDepth(f) = 3 /\ PlainB(3, f) = ToMe("Data", openB[3] + 1) /\ openB[3] + 1 \in Nat
      BY SMT, <1>5, <2>2, PeelData DEF circuit_task_inbound, ClientReads
    <3>2. ClientOpens(3) /\ out' = [out EXCEPT ![0] = Bwd(Bytes(PlainB(3, f).arg))]
      BY <1>5, <2>2, <3>1 DEF circuit_task_inbound
    <3>3. Bwd(Bytes(PlainB(3, f).arg)) \in Seq(Write)
      <4>1. PlainB(3, f).arg = openB[3] + 1
        BY SMT, <3>1 DEF ToMe
      <4> QED BY <3>1, <4>1, FrameTypes
    <3>4. out' \in [Parties -> Seq(Write)]
      BY <3>2, <3>3 DEF TypeOK
    <3>5. openB' \in [Hops -> Nat]
      BY <3>2, ClientOpensType, HopSets
    <3> QED BY <1>5, <2>1, <2>2, <3>4, <3>5 DEF circuit_task_inbound, TypeOK, relayVars
  <2>3. CASE ~(PeelDepth(f) > 0 /\ PlainB(PeelDepth(f), f).type = "Data")
    <3>1. Break /\ UNCHANGED openB
      BY <1>5, <2>3 DEF circuit_task_inbound
    <3> QED BY <1>5, <2>1, <3>1, BreakType DEF circuit_task_inbound, TypeOK, relayVars
  <2> QED BY <2>2, <2>3
<1>6. CASE circuit_task_eof
  BY <1>6, BreakType DEF circuit_task_eof, TypeOK, relayVars, linkVars
<1>7. CASE ClientWrites
  <2>2. out[0][1].frame \in Frame
    BY <1>7, HopSets, PendingFrame DEF ClientWrites
  <2>3. fwd' \in [Hops -> Seq(Frame)]
    <3>1. fwd \in [Hops -> Seq(Frame)] /\ 1 \in Hops
      BY HopSets DEF TypeOK
    <3>2. [fwd EXCEPT ![1] = Append(@, out[0][1].frame)] \in [Hops -> Seq(Frame)]
      BY <2>2, <3>1, AppendType
    <3>3. fwd' \in {fwd, [fwd EXCEPT ![1] = Append(@, out[0][1].frame)]}
      BY <1>7 DEF ClientWrites
    <3> QED BY <3>1, <3>2, <3>3
  <2>4. out' \in [Parties -> Seq(Write)]
    BY <1>7, Empties DEF ClientWrites, TypeOK
  <2>5. pc' \in [Parties -> PCs]
    BY <1>7 DEF ClientWrites, TypeOK, PCs
  <2>6. near' \in [Hops -> BOOLEAN] /\ bwd' \in [Hops -> Seq(Frame)]
    BY <1>7, Empties DEF ClientWrites, ClientDrops, TypeOK
  <2> QED BY <1>7, <2>3, <2>4, <2>5, <2>6 DEF ClientWrites, TypeOK, relayVars, clientVars
<1>8. CASE ClientWriteFails
  <2>1. CASE ClientEnds
    BY <2>1, ClientEndsType
  <2>2. CASE ~ClientEnds
    BY <1>8, <2>2, BreakType DEF ClientWriteFails, TypeOK, relayVars, linkVars
  <2> QED BY <2>1, <2>2
<1>9. CASE UserTakes
  <2>1. CASE Break /\ UNCHANGED userGot
    BY <1>9, <2>1, BreakType DEF UserTakes, TypeOK, relayVars, linkVars
  <2>2. CASE ~(Break /\ UNCHANGED userGot)
    <3>2. out[0][1].frame.n \in Nat
      BY <1>9, HopSets, PendingFrame DEF UserTakes
    <3>3. userGot' \in Seq(Nat)
      <4>1. userGot \in Seq(Nat) /\ userGot' = Append(userGot, out[0][1].frame.n)
        BY <1>9, <2>2 DEF UserTakes, TypeOK
      <4> QED BY SMT, <3>2, <4>1
    <3>4. out' \in [Parties -> Seq(Write)]
      BY <1>9, <2>2, Empties DEF UserTakes, TypeOK
    <3> QED BY <1>9, <2>2, <3>3, <3>4 DEF UserTakes, TypeOK, relayVars, linkVars
  <2> QED BY <2>1, <2>2
<1> QED BY <1>1, <1>2, <1>3, <1>4, <1>5, <1>6, <1>7, <1>8, <1>9 DEF Client

\* Types are kept when handle_connection returns and drops its links.
LEMMA RelayEndsType ==
  ASSUME TypeOK, NEW h \in Hops, RelayEnds(h)
  PROVE  /\ pc' \in [Parties -> PCs]
         /\ out' \in [Parties -> Seq(Write)]
         /\ far' \in [Hops -> BOOLEAN] /\ near' \in [Hops -> BOOLEAN]
         /\ fwd' \in [Hops -> Seq(Frame)] /\ bwd' \in [Hops -> Seq(Frame)]
         /\ dest' \in {"none", "up", "eof", "dropped"}
<1>1. pc' \in [Parties -> PCs]
  BY DEF RelayEnds, TypeOK, PCs
<1>2. out' \in [Parties -> Seq(Write)]
  BY Empties DEF RelayEnds, TypeOK
<1>3. far' \in [Hops -> BOOLEAN]
  BY DEF RelayEnds, TypeOK
<1>4. near' \in [Hops -> BOOLEAN]
  BY DEF RelayEnds, TypeOK
<1>5. fwd' \in [Hops -> Seq(Frame)]
  BY Empties DEF RelayEnds, TypeOK
<1>6. bwd' \in [Hops -> Seq(Frame)]
  BY Empties DEF RelayEnds, TypeOK
<1>7. dest' \in {"none", "up", "eof", "dropped"}
  BY DEF RelayEnds, TypeOK
<1> QED BY <1>1, <1>2, <1>3, <1>4, <1>5, <1>6, <1>7

\* Types are kept by the error path of drive_circuit.
LEMMA FailType ==
  ASSUME TypeOK, NEW h \in Hops, Fail(h)
  PROVE  TypeOK'
<1>1. circuit' \in [Hops -> {"None", "Pending", "Active", "Closed", "Failed"}]
  BY DEF Fail, TypeOK
<1>2. RelayEnds(h)
  BY DEF Fail
<1> QED BY <1>1, <1>2, RelayEndsType DEF Fail, TypeOK, clientVars

\* Types are kept when run_circuit_io seals a cell toward the client.
LEMMA ReplyType ==
  ASSUME TypeOK, NEW h \in Hops, NEW plain \in Plain, ReplyWith(h, plain)
  PROVE  sealB' \in [Hops -> Seq(Plain)] /\ out' \in [Parties -> Seq(Write)]
<1>1. sealB' \in [Hops -> Seq(Plain)]
  BY SMT DEF ReplyWith, TypeOK
<1>2. Len(sealB[h]) + 1 \in Nat
  BY SMT DEF TypeOK
<1>3. Bwd(Sealed(h, Len(sealB[h]) + 1)) \in Seq(Write)
  BY <1>2, FrameTypes
<1> QED BY <1>1, <1>3 DEF ReplyWith, TypeOK

\* A frame the relay's transport opens was sealed by the client, under the
\* next counter.
LEMMA OpensKnown ==
  ASSUME TypeOK, FramesKnownF, NEW h \in Hops, fwd[h] # <<>>, OpensF(h, Head(fwd[h]))
  PROVE  /\ openF[h] + 1 \in 1..Len(sealF[h])
         /\ PlainF(h, Head(fwd[h])) = sealF[h][openF[h] + 1]
         /\ PlainF(h, Head(fwd[h])) \in Plain
<1>1. PICK q \in Seq(Frame) : q = fwd[h]
  BY DEF TypeOK
<1>2. Head(q) = q[1] /\ 1 \in 1..Len(q)
  BY SMT, <1>1
<1>3. KnownF(h, q[1])
  BY <1>1, <1>2 DEF FramesKnownF
<1>4. q[1] = Sealed(h, openF[h] + 1)
  BY <1>1, <1>2 DEF OpensF
<1>5. q[1].n = openF[h] + 1 /\ openF[h] + 1 \in 1..Len(sealF[h])
  BY SMT, <1>3, <1>4 DEF KnownF, Sealed
<1>6. PlainF(h, Head(fwd[h])) = sealF[h][openF[h] + 1]
  BY <1>1, <1>2, <1>5 DEF PlainF
<1>7. sealF[h] \in Seq(Plain)
  BY DEF TypeOK
<1> QED BY SMT, <1>5, <1>6, <1>7

\* The steps of a relay, the exit's included.
RelayStep(h) ==
    \/ Relay(h)
    \/ h < 3 /\ (open_next_link(h) \/ open_next_link_error(h))
    \/ h = 3 /\ Exit

\* Types are kept by the inbound arm of run_circuit_io.
LEMMA InboundType ==
  ASSUME TypeOK, FramesKnownF, NEW h \in Hops, run_inbound(h)
  PROVE  TypeOK'
<1> DEFINE p == PlainF(h, Head(fwd[h]))
<1>1. fwd[h] # <<>> /\ OpensF(h, Head(fwd[h]))
  BY DEF run_inbound, RelayReads, Legal
<1>2. p \in Plain
  BY <1>1, OpensKnown
<1>3. p.inner \in Frame /\ p.arg \in Nat
  <2> HIDE DEF p
  <2> QED BY <1>2 DEF Plain
<1>4. fwd' \in [Hops -> Seq(Frame)]
  BY SMTT(30), <1>1 DEF run_inbound, RelayReads, TypeOK
<1>5. openF' \in [Hops -> Nat]
  BY SMTT(30) DEF run_inbound, TypeOK
<1>6. CASE p.type = "Forward"
  <2>1. Fwd(p.inner) \in Seq(Write)
    BY <1>3, FrameTypes
  <2>2. out' = [out EXCEPT ![h] = Fwd(p.inner)] /\ UNCHANGED <<pc, sealB, dest, near, far>>
    BY <1>6 DEF run_inbound
  <2>3. out' \in [Parties -> Seq(Write)]
    BY <2>1, <2>2 DEF TypeOK
  <2> QED BY <1>4, <1>5, <2>2, <2>3 DEF run_inbound, TypeOK, clientVars
<1>7. CASE p.type = "Data"
  <2>1. Fwd(Bytes(p.arg)) \in Seq(Write)
    BY <1>3, FrameTypes
  <2>2. out' = [out EXCEPT ![h] = Fwd(Bytes(p.arg))] /\ UNCHANGED <<pc, sealB, dest, near, far>>
    BY <1>7 DEF run_inbound
  <2>3. out' \in [Parties -> Seq(Write)]
    BY <2>1, <2>2 DEF TypeOK
  <2> QED BY <1>4, <1>5, <2>2, <2>3 DEF run_inbound, TypeOK, clientVars
<1>8. CASE p.type = "Connect"
  BY <1>4, <1>5, <1>8 DEF run_inbound, TypeOK, clientVars
<1>9. CASE p.type = "CloseRequest"
  <2>1. ToMe("CloseAck", 0) \in Plain
    BY FrameTypes DEF CellTypes
  <2>2. ReplyWith(h, ToMe("CloseAck", 0))
    BY <1>9 DEF run_inbound
  <2>3. sealB' \in [Hops -> Seq(Plain)] /\ out' \in [Parties -> Seq(Write)]
    BY <2>1, <2>2, ReplyType
  <2>4. pc' \in [Parties -> PCs]
    BY <1>9 DEF run_inbound, TypeOK, PCs
  <2> QED BY <1>4, <1>5, <1>9, <2>3, <2>4 DEF run_inbound, TypeOK, clientVars
<1>10. CASE p.type = "Extend"
  <2>1. Fwd(Hs) \in Seq(Write)
    BY FrameTypes
  <2>2. out' \in [Parties -> Seq(Write)]
    BY <1>10, <2>1 DEF run_inbound, TypeOK
  <2>3. pc' \in [Parties -> PCs]
    BY <1>10 DEF run_inbound, TypeOK, PCs
  <2>4. near' \in [Hops -> BOOLEAN] /\ far' \in [Hops -> BOOLEAN]
    BY <1>10 DEF run_inbound, TypeOK
  <2> QED BY <1>4, <1>5, <1>10, <2>2, <2>3, <2>4 DEF run_inbound, TypeOK, clientVars
<1> QED BY <1>6, <1>7, <1>8, <1>9, <1>10 DEF run_inbound

\* Types are kept by every step of a relay.
LEMMA RelayType ==
  ASSUME TypeOK, FramesKnownF, NEW h \in Hops, RelayStep(h)
  PROVE  TypeOK'
<1>1. CASE handle_connection(h)
  <2>1. CASE RelayEnds(h) /\ UNCHANGED circuit
    BY <1>1, <2>1, RelayEndsType DEF handle_connection, TypeOK, clientVars
  <2>2. CASE ~(RelayEnds(h) /\ UNCHANGED circuit)
    <3>1. fwd' \in [Hops -> Seq(Frame)]
      <4>1. fwd[h] # <<>> /\ fwd' = [fwd EXCEPT ![h] = Tail(@)]
        BY <1>1, <2>2 DEF handle_connection, RelayReads
      <4> QED BY <4>1, TailType DEF TypeOK
    <3>2. pc' \in [Parties -> PCs]
      BY <1>1, <2>2 DEF handle_connection, TypeOK, PCs
    <3>3. circuit' \in [Hops -> {"None", "Pending", "Active", "Closed", "Failed"}]
      BY <1>1, <2>2 DEF handle_connection, TypeOK
    <3> QED BY <1>1, <2>2, <3>1, <3>2, <3>3 DEF handle_connection, TypeOK, clientVars
  <2> QED BY <2>1, <2>2
<1>2. CASE presentation_timeout(h)
  BY <1>2, RelayEndsType DEF presentation_timeout, TypeOK, clientVars
<1>3. CASE drive_circuit(h)
  <2>1. CASE Fail(h)
    BY <2>1, FailType
  <2>2. CASE ~Fail(h)
    <3>1. Bwd(Hs) \in Seq(Write)
      BY FrameTypes
    <3>2. out' \in [Parties -> Seq(Write)]
      BY <1>3, <2>2, <3>1 DEF drive_circuit, TypeOK
    <3>3. pc' \in [Parties -> PCs]
      BY <1>3, <2>2 DEF drive_circuit, TypeOK, PCs
    <3> QED BY <1>3, <2>2, <3>2, <3>3 DEF drive_circuit, TypeOK, relayVars, clientVars, linkVars
  <2> QED BY <2>1, <2>2
<1>4. CASE run_inbound(h)
  BY <1>4, InboundType
<1>5. CASE run_inbound_error(h) \/ cell_read_timeout(h) \/ RelayWriteFails(h) \/ open_next_link_error(h)
  BY <1>5, FailType DEF run_inbound_error, cell_read_timeout, RelayWriteFails, open_next_link_error
<1>6. CASE h < 3 /\ open_next_link(h)
  <2>1. ToMe("Extend", 0) \in Plain
    BY FrameTypes DEF CellTypes
  <2>2. sealB' \in [Hops -> Seq(Plain)] /\ out' \in [Parties -> Seq(Write)]
    BY <1>6, <2>1, ReplyType DEF open_next_link
  <2>3. h + 1 \in Hops
    BY <1>6, HopSets
  <2>4. bwd' \in [Hops -> Seq(Frame)]
    BY SMTT(30), <1>6, <2>3 DEF open_next_link, TypeOK
  <2>5. pc' \in [Parties -> PCs]
    BY <1>6 DEF open_next_link, TypeOK, PCs
  <2> QED BY <1>6, <2>2, <2>4, <2>5 DEF open_next_link, TypeOK, clientVars
<1>7. CASE run_next(h)
  <2>1. CASE Fail(h)
    BY <2>1, FailType
  <2>2. CASE ~Fail(h)
    <3>1. h + 1 \in Hops
      BY <1>7, HopSets DEF run_next, HasNext
    <3>2. bwd[h + 1] \in Seq(Frame) /\ bwd[h + 1] # <<>>
      BY <1>7, <2>2, <3>1 DEF run_next, TypeOK
    <3>3. Forward(Head(bwd[h + 1])) \in Plain
      BY <3>2, FrameTypes
    <3>4. sealB' \in [Hops -> Seq(Plain)] /\ out' \in [Parties -> Seq(Write)]
      BY <1>7, <2>2, <3>3, ReplyType DEF run_next
    <3>5. bwd' \in [Hops -> Seq(Frame)]
      <4>1. bwd' = [bwd EXCEPT ![h + 1] = Tail(@)]
        BY <1>7, <2>2 DEF run_next
      <4> QED BY <3>1, <3>2, <4>1, TailType DEF TypeOK
    <3> QED BY <1>7, <2>2, <3>4, <3>5 DEF run_next, TypeOK, clientVars
  <2> QED BY <2>1, <2>2
<1>8. CASE RelayWritesBack(h)
  <2>1. out[h][1].frame \in Frame
    BY <1>8, HopSets, PendingFrame DEF RelayWritesBack
  <2>2. bwd \in [Hops -> Seq(Frame)]
    BY DEF TypeOK
  <2>3. [bwd EXCEPT ![h] = Append(@, out[h][1].frame)] \in [Hops -> Seq(Frame)]
    BY <2>1, <2>2, AppendType
  <2>4. bwd' \in {bwd, [bwd EXCEPT ![h] = Append(@, out[h][1].frame)]}
    BY <1>8 DEF RelayWritesBack
  <2>5. out' \in [Parties -> Seq(Write)]
    BY <1>8, Empties DEF RelayWritesBack, TypeOK
  <2>6. circuit' \in [Hops -> {"None", "Pending", "Active", "Closed", "Failed"}]
    BY <1>8 DEF RelayWritesBack, TypeOK
  <2> QED BY <1>8, <2>2, <2>3, <2>4, <2>5, <2>6 DEF RelayWritesBack, TypeOK, clientVars
<1>9. CASE RelayWritesOn(h)
  <2>1. out[h][1].frame \in Frame /\ h + 1 \in Hops
    BY <1>9, HopSets, PendingFrame DEF RelayWritesOn
  <2>2. fwd \in [Hops -> Seq(Frame)]
    BY DEF TypeOK
  <2>3. [fwd EXCEPT ![h + 1] = Append(@, out[h][1].frame)] \in [Hops -> Seq(Frame)]
    BY <2>1, <2>2, AppendType
  <2>4. fwd' \in {fwd, [fwd EXCEPT ![h + 1] = Append(@, out[h][1].frame)]}
    BY <1>9 DEF RelayWritesOn
  <2>5. out' \in [Parties -> Seq(Write)]
    BY <1>9, Empties DEF RelayWritesOn, TypeOK
  <2> QED BY <1>9, <2>2, <2>3, <2>4, <2>5 DEF RelayWritesOn, TypeOK, clientVars, relayVars
<1>10. CASE close(h)
  <2>1. circuit' \in [Hops -> {"None", "Pending", "Active", "Closed", "Failed"}]
    BY <1>10 DEF close, TypeOK
  <2>2. RelayEnds(h)
    BY <1>10 DEF close
  <2> QED BY <1>10, <2>1, <2>2, RelayEndsType DEF close, TypeOK, clientVars
<1>11. CASE h = 3 /\ run_dest
  <2>1. CASE Fail(3)
    BY <1>11, <2>1, FailType
  <2>2. CASE ReplyWith(3, ToMe("Data", destSent + 1))
    <3>1. destSent + 1 \in Nat /\ "Data" \in CellTypes
      BY SMT DEF TypeOK, CellTypes
    <3>2. ToMe("Data", destSent + 1) \in Plain
      BY <3>1, FrameTypes
    <3>3. sealB' \in [Hops -> Seq(Plain)] /\ out' \in [Parties -> Seq(Write)]
      BY <1>11, <2>2, <3>2, ReplyType
    <3> QED BY <1>11, <3>1, <3>3, FailType DEF run_dest, TypeOK, clientVars, linkVars
  <2>3. CASE ~Fail(3) /\ ~ReplyWith(3, ToMe("Data", destSent + 1))
    BY <1>11, <2>3 DEF run_dest, TypeOK, clientVars, linkVars
  <2> QED BY <2>1, <2>2, <2>3
<1>12. CASE h = 3 /\ DestTakes
  <2>1. CASE Fail(3)
    BY <1>12, <2>1, FailType
  <2>2. CASE ~Fail(3)
    <3>1. out[3][1].frame.n \in Nat
      BY <1>12, HopSets, PendingFrame DEF DestTakes
    <3>2. destGot \in Seq(Nat) /\ destGot' = Append(destGot, out[3][1].frame.n)
      BY <1>12, <2>2 DEF DestTakes, TypeOK
    <3>3. destGot' \in Seq(Nat)
      BY SMTT(30), <3>1, <3>2
    <3>4. out' \in [Parties -> Seq(Write)]
      BY <1>12, <2>2, Empties DEF DestTakes, TypeOK
    <3> QED BY <1>12, <2>2, <3>3, <3>4 DEF DestTakes, TypeOK, clientVars, linkVars
  <2> QED BY <2>1, <2>2
<1> QED BY <1>1, <1>2, <1>3, <1>4, <1>5, <1>6, <1>7, <1>8, <1>9, <1>10, <1>11, <1>12
        DEF RelayStep, Relay, Exit

\* Damage to a queue brings in no frame but Junk.
LEMMA DamagedFrames ==
  ASSUME NEW q \in Seq(Frame), q # <<>>, NEW r \in Damaged(q)
  PROVE  /\ r \in Seq(Frame)
         /\ \A i \in 1..Len(r) : r[i] = Junk \/ \E j \in 1..Len(q) : r[i] = q[j]
<1>1. Junk \in Frame /\ Head(q) = q[1] /\ 1 \in 1..Len(q) /\ Tail(q) \in Seq(Frame)
  BY SMT, FrameTypes
<1>2. CASE r = <<Junk>> \o Tail(q)
  BY SMT, <1>1, <1>2
<1>3. CASE r = Tail(q)
  BY SMT, <1>1, <1>3
<1>4. CASE r = <<Head(q)>> \o q
  BY SMTT(30), <1>1, <1>4
<1>5. CASE Len(q) > 1 /\ r = <<q[2], q[1]>> \o SubSeq(q, 3, Len(q))
  BY SMT, <1>1, <1>5
<1> QED BY <1>2, <1>3, <1>4, <1>5 DEF Damaged

\* Types are kept by damage to a link and by a crash.
LEMMA FaultType ==
  ASSUME TypeOK
  PROVE  /\ \A l \in Hops : Damage(l) => TypeOK'
         /\ \A p \in Parties : Crash(p) => TypeOK'
<1>1. ASSUME NEW l \in Hops, Damage(l)
      PROVE  TypeOK'
  <2>1. faults' \in Nat
    BY SMT, <1>1 DEF Damage, TypeOK
  <2>2. fwd' \in [Hops -> Seq(Frame)] /\ bwd' \in [Hops -> Seq(Frame)]
    <3>1. CASE fwd[l] # <<>> /\ (\E q \in Damaged(fwd[l]) : fwd' = [fwd EXCEPT ![l] = q]) /\ UNCHANGED bwd
      <4>1. PICK q \in Damaged(fwd[l]) : fwd' = [fwd EXCEPT ![l] = q]
        BY <3>1
      <4>2. fwd[l] \in Seq(Frame) /\ fwd \in [Hops -> Seq(Frame)]
        BY DEF TypeOK
      <4>3. q \in Seq(Frame)
        BY <3>1, <4>2, DamagedFrames
      <4> QED BY <3>1, <4>1, <4>2, <4>3 DEF TypeOK
    <3>2. CASE bwd[l] # <<>> /\ (\E q \in Damaged(bwd[l]) : bwd' = [bwd EXCEPT ![l] = q]) /\ UNCHANGED fwd
      <4>1. PICK q \in Damaged(bwd[l]) : bwd' = [bwd EXCEPT ![l] = q]
        BY <3>2
      <4>2. bwd[l] \in Seq(Frame) /\ bwd \in [Hops -> Seq(Frame)]
        BY DEF TypeOK
      <4>3. q \in Seq(Frame)
        BY <3>2, <4>2, DamagedFrames
      <4> QED BY <3>2, <4>1, <4>2, <4>3 DEF TypeOK
    <3> QED BY <1>1, <3>1, <3>2 DEF Damage
  <2> QED BY <1>1, <2>1, <2>2 DEF Damage, TypeOK, relayVars, clientVars
<1>2. ASSUME NEW p \in Parties, Crash(p)
      PROVE  TypeOK'
  <2>1. faults' \in Nat
    BY SMTT(30), <1>2 DEF Crash, TypeOK
  <2>2. CASE p = 0
    <3>1. pc' \in [Parties -> PCs]
      BY <1>2, <2>2 DEF Crash, TypeOK, PCs
    <3>2. out' \in [Parties -> Seq(Write)]
      BY <1>2, <2>2, Empties DEF Crash, TypeOK
    <3>3. near' \in [Hops -> BOOLEAN] /\ bwd' \in [Hops -> Seq(Frame)]
      BY <1>2, <2>2, Empties DEF Crash, ClientDrops, TypeOK
    <3> QED BY <1>2, <2>1, <2>2, <3>1, <3>2, <3>3 DEF Crash, TypeOK, clientVars
  <2>3. CASE p # 0
    <3>1. p \in Hops
      BY SMT, <2>3 DEF Hops, Parties
    <3>2. RelayEnds(p)
      BY <1>2, <2>3 DEF Crash
    <3>3. circuit' \in [Hops -> {"None", "Pending", "Active", "Closed", "Failed"}]
      BY <1>2, <2>3 DEF Crash, TypeOK
    <3> QED BY <1>2, <2>1, <2>3, <3>1, <3>2, <3>3, RelayEndsType DEF Crash, TypeOK, clientVars
  <2> QED BY <2>2, <2>3
<1> QED BY <1>1, <1>2

(***************************************************************************)
(* What one side's step leaves alone.                                      *)
(***************************************************************************)
ClientLeaves ==
    /\ UNCHANGED relayVars
    /\ \A h \in Hops : out'[h] = out[h]
    /\ \A h \in 2..3 : pc'[h] = pc[h] /\ near'[h] = near[h]
    /\ pc'[1] = pc[1] \/ (pc[0] = "start" /\ pc'[1] = "hello")
    /\ userSent' = userSent \/ userSent' = userSent + 1
    /\ pc'[0] # "start"

\* Sealing at the client starts no relay's write.
LEMMA SendLeaves ==
  ASSUME TypeOK, NEW k, NEW cell, SendFor(k, cell)
  PROVE  \A h \in Hops : out'[h] = out[h]
  BY HopSets DEF SendFor, TypeOK

\* Leaving the loop of circuit_task changes only the client.
LEMMA BreakLeaves ==
  ASSUME TypeOK, Break
  PROVE  /\ \A h \in Hops : out'[h] = out[h] /\ pc'[h] = pc[h]
         /\ pc'[0] = "closing"
<1>1. \A h \in Hops : out'[h] = out[h]
  BY SendLeaves DEF Break
<1>2. \A h \in Hops : pc'[h] = pc[h]
  BY HopSets DEF Break, TypeOK
<1> QED BY <1>1, <1>2, HopSets DEF Break, TypeOK

\* The return of circuit_task leaves the relays alone.
LEMMA ClientEndsLeaves ==
  ASSUME TypeOK, ClientEnds
  PROVE  ClientLeaves
<1>1. \A h \in Hops : out'[h] = out[h] /\ pc'[h] = pc[h]
  BY HopSets DEF ClientEnds, TypeOK
<1>2. \A h \in 2..3 : near'[h] = near[h]
  BY HopSets DEF ClientEnds, ClientDrops, TypeOK
<1>3. pc'[0] = "ended"
  BY HopSets DEF ClientEnds, TypeOK
<1> QED BY <1>1, <1>2, <1>3, HopSets DEF ClientEnds, ClientLeaves, clientVars, Hops

\* No step of dial or circuit_task touches what belongs to a relay.
LEMMA ClientFrame ==
  ASSUME TypeOK, ExitStream, Client
  PROVE  ClientLeaves
<1>0. 2..3 \subseteq Hops /\ 1 \in Hops
  BY SMT DEF Hops
<1>1. CASE dial
  <2>1. CASE ClientEnds
    BY <2>1, ClientEndsLeaves
  <2>2. CASE ~ClientEnds
    <3>1. \A h \in Hops : out'[h] = out[h]
      BY <1>1, <2>2, HopSets DEF dial, TypeOK
    <3>2. \A h \in 2..3 : pc'[h] = pc[h] /\ near'[h] = near[h]
      BY <1>1, <2>2, <1>0, HopSets DEF dial, TypeOK
    <3>3. pc[0] = "start" /\ pc'[1] = "hello" /\ pc'[0] = "wait"
      BY <1>1, <2>2, HopSets DEF dial, TypeOK, At
    <3> QED BY <1>1, <2>2, <3>1, <3>2, <3>3 DEF dial, ClientLeaves, clientVars
  <2> QED BY <2>1, <2>2
<1>2. CASE extend_hop
  <2>1. \A h \in Hops : out'[h] = out[h]
    BY <1>2, SendLeaves DEF extend_hop
  <2> QED BY <1>0, <1>2, <2>1 DEF extend_hop, ClientLeaves, At
<1>3. CASE dial_error
  BY <1>3, ClientEndsLeaves DEF dial_error
<1>4. CASE circuit_task_user
  <2>1. CASE Break /\ UNCHANGED userSent
    BY <1>0, <1>4, <2>1, BreakLeaves DEF circuit_task_user, ClientLeaves, linkVars
  <2>2. CASE ~(Break /\ UNCHANGED userSent)
    <3>1. \A h \in Hops : out'[h] = out[h]
      BY <1>4, <2>2, SendLeaves DEF circuit_task_user
    <3> QED BY <1>0, <1>4, <2>2, <3>1 DEF circuit_task_user, ClientLeaves, linkVars, At
  <2> QED BY <2>1, <2>2
<1>5. CASE circuit_task_inbound
  <2>1. CASE Break
    BY <1>0, <1>5, <2>1, BreakLeaves DEF circuit_task_inbound, ClientLeaves
  <2>2. CASE ~Break
    <3>1. \A h \in Hops : out'[h] = out[h]
      BY <1>5, <2>2, HopSets DEF circuit_task_inbound, TypeOK
    <3> QED BY <1>0, <1>5, <2>2, <3>1 DEF circuit_task_inbound, ClientLeaves, At
  <2> QED BY <2>1, <2>2
<1>6. CASE circuit_task_eof
  BY <1>0, <1>6, BreakLeaves DEF circuit_task_eof, ClientLeaves, linkVars
<1>7. CASE ClientWrites
  <2>1. \A h \in Hops : out'[h] = out[h] /\ pc'[h] = pc[h]
    BY <1>7, HopSets DEF ClientWrites, TypeOK
  <2>2. \A h \in 2..3 : near'[h] = near[h]
    BY <1>0, <1>7, HopSets DEF ClientWrites, ClientDrops, TypeOK
  <2>3. pc'[0] # "start"
    BY <1>7, HopSets DEF ClientWrites, TypeOK
  <2> QED BY <1>0, <1>7, <2>1, <2>2, <2>3 DEF ClientWrites, ClientLeaves, clientVars
<1>8. CASE ClientWriteFails
  <2>1. CASE ClientEnds
    BY <2>1, ClientEndsLeaves
  <2>2. CASE ~ClientEnds
    BY <1>0, <1>8, <2>2, BreakLeaves DEF ClientWriteFails, ClientLeaves, linkVars
  <2> QED BY <2>1, <2>2
<1>9. CASE UserTakes
  <2>1. CASE Break /\ UNCHANGED userGot
    BY <1>0, <1>9, <2>1, BreakLeaves DEF UserTakes, ClientLeaves, linkVars
  <2>2. CASE ~(Break /\ UNCHANGED userGot)
    <3>1. \A h \in Hops : out'[h] = out[h]
      BY <1>9, <2>2, HopSets DEF UserTakes, TypeOK
    <3>2. pc[0] = "open"
      BY <1>9 DEF UserTakes, ExitStream, WritesB
    <3> QED BY <1>0, <1>9, <2>2, <3>1, <3>2 DEF UserTakes, ClientLeaves, linkVars
  <2> QED BY <2>1, <2>2
<1> QED BY <1>1, <1>2, <1>3, <1>4, <1>5, <1>6, <1>7, <1>8, <1>9 DEF Client

\* So the relays' side of the invariant stands.
LEMMA ClientKeepsRelays ==
  ASSUME IInv, ClientLeaves
  PROVE  HopOrder' /\ ExitProgress' /\ UserStream'
<1> USE DEF IInv
<1>1. UserStream'
  BY SMT, HopSets DEF UserStream, ClientLeaves, relayVars
<1>2. \A h \in Hops : pc'[h] = pc[h] \/ (pc[h] = "idle" /\ pc'[h] = "hello" /\ h = 1)
  BY SMT DEF ClientLeaves, HopOrder, Hops
<1>3. HopOrder'
  <2>1. pc'[0] # "start"
    BY DEF ClientLeaves
  <2>2. ASSUME NEW h \in 1..2
        PROVE  (\/ pc[h] \in {"idle", "hello", "handshake"}
                \/ pc[h] \in {"select", "dial"} /\ ~near[h + 1]
                => pc[h + 1] = "idle")'
    <3>1. h \in Hops /\ h + 1 \in 2..3
      BY SMT DEF Hops
    <3>2. pc'[h + 1] = pc[h + 1] /\ near'[h + 1] = near[h + 1]
      BY <3>1 DEF ClientLeaves
    <3> QED BY <1>2, <3>1, <3>2 DEF HopOrder
  <2> QED BY <2>1, <2>2 DEF HopOrder
<1>4. ForwardInOrder'
  BY SMTT(60) DEF ExitProgress, ForwardInOrder, InOrder, ClientLeaves, relayVars, TypeOK
<1>5. \A h \in Hops : (pc[h] \in {"idle", "hello", "handshake"} => openF[h] = 0 /\ out[h] = <<>>)'
  BY <1>2 DEF ExitProgress, ClientLeaves, relayVars
<1>6. pc'[3] = pc[3] /\ out'[3] = out[3] /\ openF' = openF /\ destGot' = destGot
  BY SMTT(60), HopSets DEF ClientLeaves, relayVars
<1>7. Len(destGot) \in Nat /\ userSent \in Nat /\ userSent' \in Nat /\ userSent' >= userSent
  <2>1. Len(destGot) \in Nat
    BY SMT DEF TypeOK
  <2>2. userSent \in Nat
    BY DEF TypeOK
  <2>3. userSent' = userSent \/ userSent' = userSent + 1
    BY DEF ClientLeaves
  <2> QED BY SMTT(30), <2>1, <2>2, <2>3
<1>8. ExitProgress'
  BY SMTT(60), <1>4, <1>5, <1>6, <1>7 DEF ExitProgress, WritesF
<1> QED BY <1>1, <1>3, <1>8

\* What send_to seals, from the hop it is for out to the guard.
LEMMA SendGrows ==
  ASSUME TypeOK, NEW k \in Hops, NEW cell, SendFor(k, cell)
  PROVE  /\ \A h \in Hops : h > k => sealF'[h] = sealF[h]
         /\ sealF'[k] = Append(sealF[k], cell)
         /\ \A h \in Hops : h < k =>
               sealF'[h] = Append(sealF[h], Forward(Sealed(h + 1, Len(sealF[h + 1]) + 1)))
         /\ out'[0] = Fwd(Sealed(1, Len(sealF[1]) + 1))
<1>1. k \in Nat /\ \A h \in Hops : h \in Nat
  BY HopSets
<1>2. \A h \in Hops : h > k => sealF'[h] = sealF[h]
  BY DEF SendFor, SealFor
<1>3. sealF'[k] = Append(sealF[k], cell)
  BY SMT, <1>1 DEF SendFor, SealFor
<1>4. \A h \in Hops : h < k =>
               sealF'[h] = Append(sealF[h], Forward(Sealed(h + 1, Len(sealF[h + 1]) + 1)))
  BY SMT, <1>1 DEF SendFor, SealFor
<1>5. out'[0] = Fwd(Sealed(1, Len(sealF[1]) + 1))
  BY HopSets DEF SendFor, TypeOK
<1> QED BY <1>2, <1>3, <1>4, <1>5

(***************************************************************************)
(* What the parties seal and open grows by one cell or chunk at a time.    *)
(***************************************************************************)

\* A stream with one more cell.
LEMMA OneMoreCell ==
  ASSUME NEW q \in Seq(Plain), NEW c
  PROVE  /\ Len(Append(q, c)) = Len(q) + 1 /\ Len(q) \in Nat
         /\ Append(q, c)[Len(q) + 1] = c
         /\ \A i \in 1..Len(q) : Append(q, c)[i] = q[i]
  BY SMT

\* Chunks 1 to n in order, and one more.
LEMMA OneMoreChunk ==
  ASSUME NEW q \in Seq(Nat), \A i \in 1..Len(q) : q[i] = i, NEW n, n = Len(q) + 1
  PROVE  /\ Len(Append(q, n)) = Len(q) + 1
         /\ \A i \in 1..Len(Append(q, n)) : Append(q, n)[i] = i
  BY SMT

(***************************************************************************)
(* The client's own streams.                                               *)
(***************************************************************************)

\* After send_to the client is suspended in a write to the guard.
LEMMA FwdWrites ==
  ASSUME NEW f, out[0]' = Fwd(f)
  PROVE  WritesF(0)' /\ ~WritesB(0)' /\ out'[0] # <<>> /\ out'[0][1].frame = f
  BY SMT DEF WritesF, WritesB, Fwd

\* Leaving the loop closes the stream for the exit with CLOSE_REQUEST.
LEMMA BreakStream ==
  ASSUME IInv, pc[0] = "open", Break, UNCHANGED <<userSent, hopsUp, destSent>>, BackwardInOrder'
  PROVE  ExitStream' /\ UserProgress'
<1>1. sealF'[3] = Append(sealF[3], ToMe("CloseRequest", 0))
  BY HopSets, SendGrows DEF Break, IInv
<1>2. WritesF(0)' /\ ~WritesB(0)' /\ out'[0] # <<>>
  BY HopSets, SendGrows, FwdWrites DEF Break, IInv
<1>3. pc'[0] = "closing"
  BY HopSets DEF Break, IInv, TypeOK
<1>4. hopsUp = 3 /\ Len(sealF[3]) = userSent + 1 /\ sealF[3] \in Seq(Plain) /\ userSent \in Nat
  BY HopSets DEF IInv, ExitStream, TypeOK
<1>5. Len(sealF'[3]) = userSent + 2
  BY SMT, <1>1, <1>4
<1>6. ASSUME NEW i \in 1..Len(sealF'[3])
      PROVE  sealF'[3][i] = IF i = 1 THEN ToMe("Connect", 0)
                            ELSE IF i <= userSent + 1 THEN ToMe("Data", i - 1)
                            ELSE ToMe("CloseRequest", 0)
  <2>1. CASE i <= userSent + 1
    <3>1. i \in 1..Len(sealF[3]) /\ sealF'[3][i] = sealF[3][i]
      BY SMT, <1>1, <1>4, <2>1
    <3> QED BY <3>1 DEF IInv, ExitStream
  <2>2. CASE i = userSent + 2
    <3>1. sealF'[3][i] = ToMe("CloseRequest", 0)
      BY SMTT(30), <1>1, <1>4, <2>2
    <3> QED BY SMTT(30), <1>4, <2>2, <3>1
  <2> QED BY SMT, <1>4, <1>5, <2>1, <2>2
<1>7. ExitStream'
  BY SMTT(30), <1>2, <1>3, <1>4, <1>6 DEF ExitStream
<1>8. UserProgress'
  BY <1>3 DEF UserProgress
<1> QED BY <1>7, <1>8

\* The return of circuit_task keeps what it sealed and handed out in order.
LEMMA EndedStream ==
  ASSUME IInv, pc'[0] = "ended", out'[0] = <<>>, UNCHANGED clientVars, UNCHANGED destSent
  PROVE  ExitStream' /\ UserProgress'
<1>1. ExitStream'
  BY DEF IInv, ExitStream, clientVars, WritesF, WritesB
<1>2. UserProgress'
  BY DEF IInv, UserProgress, BackwardInOrder, InOrder, clientVars
<1> QED BY <1>1, <1>2

\* Every step of the client keeps what it sealed for the exit, and what it handed to
\* the user, in order.
LEMMA ClientStream ==
  ASSUME IInv, Client
  PROVE  ExitStream' /\ UserProgress'
<1> USE DEF IInv
<1>0. UNCHANGED destSent /\ TypeOK
  BY ClientFrame DEF ClientLeaves, relayVars
<1>e. ASSUME ClientEnds
      PROVE  ExitStream' /\ UserProgress'
  <2>1. pc'[0] = "ended" /\ out'[0] = <<>>
    BY <1>e, HopSets DEF ClientEnds, TypeOK
  <2> QED BY <1>0, <1>e, <2>1, EndedStream DEF ClientEnds
<1>1. CASE dial
  <2>1. CASE ClientEnds
    BY <1>e, <2>1
  <2>2. CASE ~ClientEnds
    <3>1. pc[0] = "start" /\ pc'[0] = "wait" /\ out'[0] = Fwd(Hs) /\ UNCHANGED clientVars
      BY <1>1, <2>2, HopSets DEF dial, TypeOK, At
    <3>2. hopsUp = 0
      BY <3>1 DEF ExitStream
    <3>3. WritesF(0)' /\ ~WritesB(0)'
      BY <3>1, FwdWrites
    <3>4. ExitStream'
      BY SMT, <3>1, <3>2, <3>3 DEF ExitStream, clientVars
    <3>5. UserProgress'
      BY <1>0, <3>1 DEF UserProgress, BackwardInOrder, InOrder, clientVars
    <3> QED BY <3>4, <3>5
  <2> QED BY <2>1, <2>2
<1>2. CASE extend_hop
  <2>0. hopsUp \in 0..3 /\ pc[0] = "wait" /\ pc'[0] = "wait"
    BY <1>2 DEF extend_hop, TypeOK, At
  <2>1. hopsUp # 3
    BY <1>2, <2>0 DEF extend_hop, At, ExitStream, WritesF
  <2>2. hopsUp + 1 \in Hops
    BY SMT, <2>0, <2>1 DEF Hops
  <2>3. PICK cell : SendFor(hopsUp + 1, cell) /\ (hopsUp = 2 => cell = ToMe("Connect", 0))
    BY <1>2 DEF extend_hop
  <2>4. WritesF(0)' /\ ~WritesB(0)'
    BY <2>2, <2>3, SendGrows, FwdWrites
  <2>5. sealF[3] = <<>> /\ userSent = 0 /\ userSent' = 0 /\ hopsUp' = hopsUp + 1
    <3>1. sealF[3] \in Seq(Plain)
      BY HopSets DEF TypeOK
    <3>2. Len(sealF[3]) = 0 /\ userSent = 0
      BY SMTT(30), <2>0, <2>1 DEF ExitStream
    <3> QED BY SMTT(30), <1>2, <3>1, <3>2 DEF extend_hop
  <2>6. ASSUME hopsUp = 2 PROVE ExitStream'
    <3>1. sealF'[3] = <<ToMe("Connect", 0)>>
      BY SMTT(30), <2>2, <2>3, <2>5, <2>6, SendGrows
    <3>2. hopsUp' = 3 /\ Len(sealF'[3]) = userSent' + 1
      BY SMTT(30), <2>5, <2>6, <3>1
    <3>3. \A i \in 1..Len(sealF'[3]) : i = 1 /\ sealF'[3][i] = ToMe("Connect", 0)
      BY SMT, <3>1
    <3>4. \A i \in 1..Len(sealF'[3]) :
            sealF'[3][i] = IF i = 1 THEN ToMe("Connect", 0)
                           ELSE IF i <= userSent' + 1 THEN ToMe("Data", i - 1)
                           ELSE ToMe("CloseRequest", 0)
      BY <3>3
    <3> QED BY SMTT(30), <2>0, <2>4, <3>2, <3>4 DEF ExitStream
  <2>7. ASSUME hopsUp < 2 PROVE ExitStream'
    <3>1. 3 > hopsUp + 1 /\ hopsUp' < 3 /\ hopsUp' # 3
      BY SMT, <2>0, <2>5, <2>7
    <3>2. sealF'[3] = sealF[3]
      BY <2>2, <2>3, <3>1, SendGrows, HopSets
    <3>3. Len(sealF'[3]) = 0 /\ \A i \in 1..Len(sealF'[3]) : FALSE
      BY SMT, <2>5, <3>2
    <3>4. \A i \in 1..Len(sealF'[3]) :
            sealF'[3][i] = IF i = 1 THEN ToMe("Connect", 0)
                           ELSE IF i <= userSent' + 1 THEN ToMe("Data", i - 1)
                           ELSE ToMe("CloseRequest", 0)
      BY <3>3
    <3> QED BY <2>0, <2>4, <2>5, <3>1, <3>3, <3>4 DEF ExitStream
  <2>8. ExitStream'
    BY SMTT(30), <2>0, <2>1, <2>6, <2>7
  <2>9. openB'[3] = openB[3] /\ userGot' = userGot
    <3>1. openB'[3] = openB[3] + (IF 3 <= hopsUp THEN 1 ELSE 0) /\ userGot' = userGot
      BY <1>2, HopSets DEF extend_hop, ClientOpens
    <3>2. openB[3] \in Nat /\ ~(3 <= hopsUp)
      BY SMTT(30), <2>0, <2>1, HopSets DEF TypeOK
    <3> QED BY SMT, <3>1, <3>2
  <2>10. UserProgress'
    BY <1>0, <2>0, <2>9 DEF UserProgress, BackwardInOrder, InOrder
  <2> QED BY <2>8, <2>10
<1>3. CASE dial_error
  BY <1>e, <1>3 DEF dial_error
<1>b. ASSUME Break, pc[0] = "open", UNCHANGED <<userSent, hopsUp, userGot>>
      PROVE  ExitStream' /\ UserProgress'
  <2>1. BackwardInOrder'
    BY <1>0, <1>b DEF UserProgress, BackwardInOrder, InOrder
  <2> QED BY <1>0, <1>b, <2>1, BreakStream
<1>4. CASE circuit_task_user
  <2>1. CASE Break /\ UNCHANGED userSent
    BY <1>4, <1>b, <2>1 DEF circuit_task_user, At
  <2>2. CASE ~(Break /\ UNCHANGED userSent)
    <3>1. /\ SendFor(3, ToMe("Data", userSent + 1)) /\ userSent' = userSent + 1
          /\ pc'[0] = "open" /\ pc[0] = "open" /\ hopsUp' = hopsUp /\ out[0] = <<>>
          /\ openB' = openB /\ userGot' = userGot
      BY <1>4, <2>2 DEF circuit_task_user, At
    <3>2. sealF'[3] = Append(sealF[3], ToMe("Data", userSent + 1))
      BY <3>1, HopSets, SendGrows
    <3>3. hopsUp = 3 /\ Len(sealF[3]) = userSent + 1 /\ sealF[3] \in Seq(Plain) /\ userSent \in Nat
      BY <3>1, HopSets DEF ExitStream, TypeOK
    <3>4. Len(sealF'[3]) = userSent + 2
      BY SMTT(30), <3>2, <3>3
    <3>5. ASSUME NEW i \in 1..Len(sealF'[3])
          PROVE  sealF'[3][i] = IF i = 1 THEN ToMe("Connect", 0)
                                ELSE IF i <= userSent + 2 THEN ToMe("Data", i - 1)
                                ELSE ToMe("CloseRequest", 0)
      <4>1. CASE i <= userSent + 1
        <5>1. i \in 1..Len(sealF[3]) /\ sealF'[3][i] = sealF[3][i]
          BY SMTT(30), <3>2, <3>3, <4>1
        <5> QED BY SMTT(30), <3>3, <4>1, <5>1 DEF ExitStream
      <4>2. CASE i = userSent + 2
        <5>1. sealF'[3][i] = ToMe("Data", userSent + 1)
          BY SMTT(30), <3>2, <3>3, <4>2
        <5>2. i - 1 = userSent + 1 /\ i # 1 /\ i <= userSent + 2
          BY SMT, <3>3, <4>2
        <5> QED BY <5>1, <5>2
      <4> QED BY SMTT(30), <3>3, <3>4, <4>1, <4>2
    <3>6. WritesF(0)' /\ ~WritesB(0)'
      BY <3>1, HopSets, SendGrows, FwdWrites
    <3>7. userSent' + 1 = userSent + 2
      BY SMTT(30), <3>1, <3>3
    <3>8. ExitStream'
      BY <3>1, <3>3, <3>4, <3>5, <3>6, <3>7 DEF ExitStream
    <3>9. ~WritesB(0)
      BY <3>1 DEF WritesB
    <3>10. UserProgress'
      BY <1>0, <3>1, <3>6, <3>9 DEF UserProgress, BackwardInOrder, InOrder
    <3> QED BY <3>8, <3>10
  <2> QED BY <2>1, <2>2
<1>5. CASE circuit_task_inbound
  <2> DEFINE f == Head(bwd[1])
  <2>1. CASE PeelDepth(f) > 0 /\ PlainB(PeelDepth(f), f).type = "Data"
    <3>1. /\ PeelDepth(f) = 3 /\ PlainB(3, f) = ToMe("Data", openB[3] + 1)
          /\ openB[3] + 1 <= destSent
      BY <1>5, <2>1, PeelData DEF circuit_task_inbound, ClientReads
    <3>2. PlainB(3, f).arg = openB[3] + 1
      BY SMT, <3>1 DEF ToMe
    <3>3. /\ ClientOpens(3) /\ out' = [out EXCEPT ![0] = Bwd(Bytes(openB[3] + 1))]
          /\ UNCHANGED <<pc, sealF, hopsUp, userSent, userGot>>
          /\ pc[0] = "open" /\ out[0] = <<>>
      BY <1>5, <2>1, <3>1, <3>2 DEF circuit_task_inbound, At
    <3>4. out'[0] = Bwd(Bytes(openB[3] + 1))
      BY <3>3, HopSets DEF TypeOK
    <3>5. WritesB(0)' /\ ~WritesF(0)' /\ out'[0][1].frame.n = openB[3] + 1
      BY SMTT(30), <3>4 DEF WritesB, WritesF, Bwd, Bytes
    <3>6. openB'[3] = openB[3] + 1
      BY SMTT(30), <3>3, HopSets DEF ClientOpens
    <3>7. ~WritesB(0)
      BY <3>3 DEF WritesB
    <3>8. openB[3] = Len(userGot) /\ openB[3] \in Nat /\ destSent \in Nat
      BY <3>3, <3>7, HopSets DEF UserProgress, TypeOK
    <3>9. ExitStream'
      BY <3>3, <3>5 DEF ExitStream
    <3>10. BackwardInOrder'
      BY <1>0, <3>3 DEF UserProgress, BackwardInOrder, InOrder
    <3>11. UserProgress'
      BY SMTT(30), <1>0, <3>1, <3>3, <3>5, <3>6, <3>8, <3>10 DEF UserProgress
    <3> QED BY <3>9, <3>11
  <2>2. CASE ~(PeelDepth(f) > 0 /\ PlainB(PeelDepth(f), f).type = "Data")
    BY <1>5, <1>b, <2>2 DEF circuit_task_inbound, At
  <2> QED BY <2>1, <2>2
<1>6. CASE circuit_task_eof
  BY <1>6, <1>b DEF circuit_task_eof, At
<1>7. CASE ClientWrites
  <2>1. out'[0] = <<>> /\ UNCHANGED clientVars /\ WritesF(0) /\ ~WritesB(0)
    BY <1>7, HopSets DEF ClientWrites, TypeOK, WritesF, WritesB
  <2>2. ~WritesB(0)' /\ ~WritesF(0)'
    BY <2>1 DEF WritesB, WritesF
  <2>3. pc[0] \in {"wait", "open", "closing"}
    BY <2>1 DEF ExitStream, WritesF
  <2>4. CASE pc[0] = "closing"
    <3>1. pc'[0] = "ended"
      BY <1>7, <2>4, HopSets DEF ClientWrites, TypeOK
    <3> QED BY <1>0, <2>1, <3>1, EndedStream
  <2>5. CASE pc[0] # "closing"
    <3>1. pc'[0] = IF hopsUp = 3 THEN "open" ELSE "wait"
      BY <1>7, <2>5, HopSets DEF ClientWrites, TypeOK
    <3>2. pc[0] = "open" => hopsUp = 3
      BY DEF ExitStream
    <3>3. ExitStream'
      BY <2>1, <2>2, <2>3, <2>5, <3>1, <3>2 DEF ExitStream, clientVars
    <3>4. openB[3] = Len(userGot) /\ (pc'[0] = "wait" => pc[0] = "wait")
      BY <2>1, <2>3, <2>5, <3>1, <3>2 DEF UserProgress
    <3>5. UserProgress'
      BY <1>0, <2>1, <2>2, <3>1, <3>4 DEF UserProgress, BackwardInOrder, InOrder, clientVars
    <3> QED BY <3>3, <3>5
  <2> QED BY <2>4, <2>5
<1>8. CASE ClientWriteFails
  BY <1>8, <1>b, <1>e DEF ClientWriteFails
<1>9. CASE UserTakes
  <2>1. WritesB(0) /\ pc[0] = "open"
    BY <1>9 DEF UserTakes, ExitStream, WritesB
  <2>2. CASE Break /\ UNCHANGED userGot
    BY <1>9, <1>b, <2>1, <2>2 DEF UserTakes
  <2>3. CASE ~(Break /\ UNCHANGED userGot)
    <3>1. /\ userGot' = Append(userGot, out[0][1].frame.n) /\ out'[0] = <<>>
          /\ UNCHANGED <<pc, sealF, hopsUp, openB, userSent>>
      BY <1>9, <2>3, HopSets DEF UserTakes, TypeOK
    <3>2. ~WritesB(0)' /\ ~WritesF(0)'
      BY <3>1 DEF WritesB, WritesF
    <3>3. ExitStream'
      BY <2>1, <3>1, <3>2 DEF ExitStream
    <3>4. /\ out[0][1].frame.n = Len(userGot) + 1 /\ openB[3] = Len(userGot) + 1
          /\ Len(userGot) < destSent
      BY <2>1 DEF UserProgress
    <3>5. userGot \in Seq(Nat) /\ destSent \in Nat
      BY DEF TypeOK
    <3>6. Len(userGot') = Len(userGot) + 1 /\ \A i \in 1..Len(userGot') : userGot'[i] = i
      BY SMTT(30), <3>1, <3>4, <3>5 DEF UserProgress, BackwardInOrder, InOrder
    <3>7. BackwardInOrder'
      BY SMTT(30), <1>0, <3>4, <3>5, <3>6 DEF BackwardInOrder, InOrder
    <3>8. UserProgress'
      BY <2>1, <3>1, <3>2, <3>4, <3>5, <3>6, <3>7 DEF UserProgress
    <3> QED BY <3>3, <3>8
  <2> QED BY <2>2, <2>3
<1> QED BY <1>1, <1>2, <1>3, <1>4, <1>5, <1>6, <1>7, <1>8, <1>9 DEF Client

(***************************************************************************)
(* What a relay's step leaves alone, and how its pc moves.                 *)
(***************************************************************************)

Moves(h) ==
    \/ /\ pc'[h] = pc[h] /\ pc[h] \notin PreCircuit
       /\ h < 3 => near'[h + 1] = near[h + 1]
    \/ pc'[h] \in {"ended", "closing"}
    \/ pc[h] = "hello" /\ pc'[h] = "handshake" /\ openF'[h] = openF[h] /\ out'[h] = out[h]
    \/ pc[h] = "handshake" /\ pc'[h] = "select"
    \/ pc[h] = "dial" /\ pc'[h] = "select" /\ h < 3 /\ near'[h + 1] = near[h + 1]
    \/ pc[h] = "select" /\ pc'[h] = "dial" /\ h < 3 /\ near'[h + 1]

RelayLeaves(h) ==
    /\ UNCHANGED clientVars
    /\ pc'[0] = pc[0] /\ out'[0] = out[0]
    /\ pc[h] # "idle"
    /\ Moves(h)
    /\ \A k \in Hops : k # h =>
          /\ out'[k] = out[k] /\ openF'[k] = openF[k] /\ sealB'[k] = sealB[k]
          /\ \/ pc'[k] = pc[k]
             \/ /\ k = h + 1 /\ pc[h] = "select" /\ ~near[k]
                /\ pc'[k] = "hello" /\ pc'[h] = "dial"
    /\ \A k \in Hops : k # h + 1 => near'[k] = near[k]
    /\ h # 3 => UNCHANGED <<destSent, destGot>>
    /\ destSent' = destSent \/ destSent' = destSent + 1

\* The return of handle_connection leaves other parties' state alone.
LEMMA RelayEndsLeaves ==
  ASSUME TypeOK, NEW h \in Hops, RelayEnds(h), pc[h] # "idle",
         UNCHANGED <<openF, sealB, destSent, destGot, clientVars>>
  PROVE  RelayLeaves(h)
<1>1. pc'[h] = "ended" /\ \A k \in Parties : k # h => pc'[k] = pc[k] /\ out'[k] = out[k]
  BY HopSets DEF RelayEnds, TypeOK
<1>2. \A k \in Hops : k # h + 1 => near'[k] = near[k]
  <2>1. \A k \in Hops : near'[k] = (k # h + 1 /\ near[k])
    BY DEF RelayEnds
  <2> QED BY <2>1 DEF TypeOK
<1>3. Moves(h)
  BY <1>1 DEF Moves
<1> QED BY <1>1, <1>2, <1>3, HopSets DEF RelayLeaves

\* So does the error path of drive_circuit.
LEMMA FailLeaves ==
  ASSUME TypeOK, NEW h \in Hops, Fail(h), pc[h] # "idle"
  PROVE  RelayLeaves(h)
  BY RelayEndsLeaves DEF Fail

\* Sealing toward the client changes only the sealing hop.
LEMMA ReplyLeaves ==
  ASSUME TypeOK, NEW h \in Hops, NEW plain, ReplyWith(h, plain)
  PROVE  /\ out'[0] = out[0]
         /\ \A k \in Hops : k # h => out'[k] = out[k] /\ sealB'[k] = sealB[k]
         /\ out'[h] = Bwd(Sealed(h, Len(sealB[h]) + 1))
         /\ sealB'[h] = Append(sealB[h], plain)
<1>1. out'[0] = out[0] /\ \A k \in Hops : k # h => out'[k] = out[k]
  BY HopSets DEF ReplyWith, TypeOK
<1>2. \A k \in Hops : k # h => sealB'[k] = sealB[k]
  BY DEF ReplyWith, TypeOK
<1>3. out'[h] = Bwd(Sealed(h, Len(sealB[h]) + 1)) /\ sealB'[h] = Append(sealB[h], plain)
  BY HopSets DEF ReplyWith, TypeOK
<1> QED BY <1>1, <1>2, <1>3

\* Neither does a step that answers with one cell.
LEMMA AnswerLeaves ==
  ASSUME TypeOK, NEW h \in Hops, NEW plain, ReplyWith(h, plain), pc[h] # "idle", Moves(h),
         \A k \in Parties : k # h => pc'[k] = pc[k],
         \A k \in Hops : k # h => openF'[k] = openF[k],
         UNCHANGED <<near, clientVars>>, h # 3 => UNCHANGED <<destSent, destGot>>,
         destSent' = destSent \/ destSent' = destSent + 1
  PROVE  RelayLeaves(h)
<1>1. out'[0] = out[0] /\ \A k \in Hops : k # h => out'[k] = out[k] /\ sealB'[k] = sealB[k]
  BY ReplyLeaves
<1>2. pc'[0] = pc[0] /\ \A k \in Hops : k # h => pc'[k] = pc[k]
  BY HopSets
<1> QED BY <1>1, <1>2 DEF RelayLeaves

\* A pending write means the circuit is up.
LEMMA WritingUp ==
  ASSUME ExitProgress, NEW h \in Hops, out[h] # <<>>
  PROVE  pc[h] \notin PreCircuit
  BY DEF ExitProgress, PreCircuit

\* The inbound arm of run_circuit_io leaves other parties' state alone.
LEMMA InboundLeaves ==
  ASSUME TypeOK, NEW h \in Hops, run_inbound(h)
  PROVE  RelayLeaves(h)
<1> DEFINE p == PlainF(h, Head(fwd[h]))
<1>0. /\ pc[h] = "select" /\ "select" \notin PreCircuit
      /\ UNCHANGED <<clientVars, destSent, destGot>>
  BY DEF run_inbound, At, PreCircuit
<1>1. \A k \in Hops : k # h => openF'[k] = openF[k]
  BY DEF run_inbound, TypeOK
<1>2. CASE p.type \in {"Forward", "Data", "Connect"}
  <2>1. \A k \in Parties : k # h => out'[k] = out[k]
    BY <1>2 DEF run_inbound, TypeOK
  <2>2. UNCHANGED <<pc, sealB, near>>
    BY <1>2 DEF run_inbound
  <2>3. Moves(h)
    BY <1>0, <2>2 DEF Moves
  <2> QED BY <1>0, <1>1, <2>1, <2>2, <2>3, HopSets DEF RelayLeaves
<1>3. CASE p.type = "CloseRequest"
  <2>1. /\ ReplyWith(h, ToMe("CloseAck", 0)) /\ pc' = [pc EXCEPT ![h] = "closing"]
        /\ UNCHANGED near
    BY <1>3 DEF run_inbound
  <2>2. pc'[h] = "closing" /\ \A k \in Parties : k # h => pc'[k] = pc[k]
    BY <2>1, HopSets DEF TypeOK
  <2>3. Moves(h)
    BY <2>2 DEF Moves
  <2> QED BY <1>0, <1>1, <2>1, <2>2, <2>3, AnswerLeaves
<1>4. CASE p.type = "Extend"
  <2>1. h < 3 /\ ~near[h + 1]
    BY <1>4 DEF run_inbound, Legal, HasNext
  <2>2. h + 1 \in Hops /\ h + 1 # h
    BY SMT, <2>1, HopSets
  <2>3. /\ pc' = [pc EXCEPT ![h] = "dial", ![h + 1] = "hello"]
        /\ out' = [out EXCEPT ![h] = Fwd(Hs)] /\ near' = [near EXCEPT ![h + 1] = TRUE]
        /\ UNCHANGED sealB
    BY <1>4 DEF run_inbound
  <2>4. /\ pc'[h] = "dial" /\ pc'[h + 1] = "hello"
        /\ \A k \in Parties : k # h /\ k # h + 1 => pc'[k] = pc[k]
    BY <2>2, <2>3, HopSets DEF TypeOK
  <2>5. near'[h + 1] /\ \A k \in Hops : k # h + 1 => near'[k] = near[k]
    BY <2>2, <2>3 DEF TypeOK
  <2>6. \A k \in Parties : k # h => out'[k] = out[k]
    BY <2>3 DEF TypeOK
  <2>7. Moves(h)
    BY <1>0, <2>1, <2>4, <2>5 DEF Moves
  <2>8. 0 # h + 1 /\ 0 # h
    BY SMT, HopSets
  <2> QED BY <1>0, <1>1, <2>1, <2>3, <2>4, <2>5, <2>6, <2>7, <2>8, HopSets DEF RelayLeaves
<1> QED BY <1>2, <1>3, <1>4 DEF run_inbound

\* No step of a relay touches another party's counters, writes or position,
\* except that EXTEND reaches the next hop for the first time.
LEMMA RelayFrame ==
  ASSUME TypeOK, ExitProgress, NEW h \in Hops, RelayStep(h)
  PROVE  RelayLeaves(h)
<1>f. ASSUME Fail(h), pc[h] # "idle"
      PROVE  RelayLeaves(h)
  BY <1>f, FailLeaves
<1>1. CASE handle_connection(h)
  <2>0. pc[h] = "hello" /\ out[h] = <<>>
    BY <1>1 DEF handle_connection, At
  <2>1. CASE RelayEnds(h) /\ UNCHANGED circuit
    BY <1>1, <2>0, <2>1, RelayEndsLeaves DEF handle_connection
  <2>2. CASE ~(RelayEnds(h) /\ UNCHANGED circuit)
    <3>1. /\ pc' = [pc EXCEPT ![h] = "handshake"]
          /\ UNCHANGED <<out, near, openF, sealB, destSent, destGot, clientVars>>
      BY <1>1, <2>2 DEF handle_connection
    <3>2. pc'[h] = "handshake" /\ \A k \in Parties : k # h => pc'[k] = pc[k]
      BY <3>1, HopSets DEF TypeOK
    <3>3. Moves(h)
      BY <2>0, <3>1, <3>2 DEF Moves
    <3> QED BY <2>0, <3>1, <3>2, <3>3, HopSets DEF RelayLeaves
  <2> QED BY <2>1, <2>2
<1>2. CASE presentation_timeout(h)
  BY <1>2, RelayEndsLeaves DEF presentation_timeout, At
<1>3. CASE drive_circuit(h)
  <2>0. pc[h] = "handshake"
    BY <1>3 DEF drive_circuit, At
  <2>1. CASE Fail(h)
    BY <1>f, <2>0, <2>1
  <2>2. CASE ~Fail(h)
    <3>1. /\ pc' = [pc EXCEPT ![h] = "select"] /\ out' = [out EXCEPT ![h] = Bwd(Hs)]
          /\ UNCHANGED <<near, openF, sealB, destSent, destGot, clientVars>>
      BY <1>3, <2>2 DEF drive_circuit, relayVars, linkVars
    <3>2. pc'[h] = "select" /\ \A k \in Parties : k # h => pc'[k] = pc[k] /\ out'[k] = out[k]
      BY <3>1, HopSets DEF TypeOK
    <3>3. Moves(h)
      BY <2>0, <3>2 DEF Moves
    <3> QED BY <2>0, <3>1, <3>2, <3>3, HopSets DEF RelayLeaves
  <2> QED BY <2>1, <2>2
<1>4. CASE run_inbound(h)
  BY <1>4, InboundLeaves
<1>5. CASE run_inbound_error(h) \/ cell_read_timeout(h) \/ open_next_link_error(h)
  BY <1>5, <1>f DEF run_inbound_error, cell_read_timeout, open_next_link_error, At
<1>6. CASE RelayWriteFails(h)
  BY <1>6, <1>f, WritingUp DEF RelayWriteFails, PreCircuit
<1>7. CASE h < 3 /\ open_next_link(h)
  <2>1. /\ pc[h] = "dial" /\ ReplyWith(h, ToMe("Extend", 0)) /\ pc' = [pc EXCEPT ![h] = "select"]
        /\ UNCHANGED <<near, openF, destSent, destGot, clientVars>>
    BY <1>7 DEF open_next_link, At
  <2>2. pc'[h] = "select" /\ \A k \in Parties : k # h => pc'[k] = pc[k]
    BY <2>1, HopSets DEF TypeOK
  <2>3. Moves(h)
    BY <1>7, <2>1, <2>2 DEF Moves
  <2> QED BY <2>1, <2>2, <2>3, AnswerLeaves
<1>8. CASE run_next(h)
  <2>0. pc[h] = "select" /\ "select" \notin PreCircuit
    BY <1>8 DEF run_next, At, PreCircuit
  <2>1. CASE Fail(h)
    BY <1>f, <2>0, <2>1
  <2>2. CASE ~Fail(h)
    <3>1. /\ ReplyWith(h, Forward(Head(bwd[h + 1])))
          /\ UNCHANGED <<pc, near, openF, destSent, destGot, clientVars>>
      BY <1>8, <2>2 DEF run_next
    <3>2. Moves(h)
      BY <2>0, <3>1 DEF Moves
    <3> QED BY <2>0, <3>1, <3>2, AnswerLeaves
  <2> QED BY <2>1, <2>2
<1>9. CASE RelayWritesBack(h) \/ RelayWritesOn(h)
  <2>0. pc[h] \notin PreCircuit
    BY <1>9, WritingUp DEF RelayWritesBack, RelayWritesOn
  <2>1. /\ out' = [out EXCEPT ![h] = <<>>]
        /\ UNCHANGED <<pc, near, openF, sealB, destSent, destGot, clientVars>>
    BY <1>9 DEF RelayWritesBack, RelayWritesOn, relayVars
  <2>2. \A k \in Parties : k # h => out'[k] = out[k]
    BY <2>1 DEF TypeOK
  <2>3. Moves(h) /\ pc[h] # "idle"
    BY <2>0, <2>1 DEF Moves, PreCircuit
  <2> QED BY <2>1, <2>2, <2>3, HopSets DEF RelayLeaves
<1>10. CASE close(h)
  BY <1>10, RelayEndsLeaves DEF close, At
<1>11. CASE h = 3 /\ run_dest
  <2>0. pc[h] = "select" /\ "select" \notin PreCircuit
    BY <1>11 DEF run_dest, At, PreCircuit
  <2>1. CASE Fail(3)
    BY <1>f, <1>11, <2>0, <2>1
  <2>2. CASE ~Fail(3)
    <3>1. /\ UNCHANGED <<pc, near, openF, destGot, clientVars>>
          /\ \/ ReplyWith(3, ToMe("Data", destSent + 1)) /\ destSent' = destSent + 1
             \/ UNCHANGED <<out, sealB, destSent>>
      BY <1>11, <2>2 DEF run_dest, linkVars
    <3>2. Moves(h)
      BY <2>0, <3>1 DEF Moves
    <3>3. CASE UNCHANGED <<out, sealB, destSent>>
      BY <1>11, <2>0, <3>1, <3>2, <3>3, HopSets DEF RelayLeaves
    <3>4. CASE ReplyWith(3, ToMe("Data", destSent + 1)) /\ destSent' = destSent + 1
      BY <1>11, <2>0, <3>1, <3>2, <3>4, AnswerLeaves
    <3> QED BY <3>1, <3>3, <3>4
  <2> QED BY <2>1, <2>2
<1>12. CASE h = 3 /\ DestTakes
  <2>0. pc[h] \notin PreCircuit
    BY <1>12, WritingUp DEF DestTakes
  <2>1. CASE Fail(3)
    BY <1>f, <1>12, <2>0, <2>1 DEF PreCircuit
  <2>2. CASE ~Fail(3)
    <3>1. /\ out' = [out EXCEPT ![h] = <<>>]
          /\ UNCHANGED <<pc, near, openF, sealB, destSent, clientVars>>
      BY <1>12, <2>2 DEF DestTakes, linkVars
    <3>2. \A k \in Parties : k # h => out'[k] = out[k]
      BY <3>1 DEF TypeOK
    <3>3. Moves(h) /\ pc[h] # "idle"
      BY <2>0, <3>1 DEF Moves, PreCircuit
    <3> QED BY <1>12, <3>1, <3>2, <3>3, HopSets DEF RelayLeaves
  <2> QED BY <2>1, <2>2
<1> QED BY <1>1, <1>2, <1>3, <1>4, <1>5, <1>6, <1>7, <1>8, <1>9, <1>10, <1>11, <1>12
        DEF RelayStep, Relay, Exit

(***************************************************************************)
(* Links: who may touch one.                                               *)
(***************************************************************************)

\* What a step of party p leaves alone: every link it is not an end of, and
\* every other party's write.
Local(p) ==
    /\ faults' = faults
    /\ \A k \in Parties : k # p => out'[k] = out[k]
    /\ \A l \in Hops : l # p /\ l # p + 1 =>
          near'[l] = near[l] /\ far'[l] = far[l] /\ fwd'[l] = fwd[l] /\ bwd'[l] = bwd[l]

\* A step of the client: circuit_task and build_transports touch only the
\* connection to the guard.
LEMMA ClientLocal ==
  ASSUME TypeOK, Client
  PROVE  Local(0)
<1>t. /\ out \in [Parties -> Seq(Write)] /\ fwd \in [Hops -> Seq(Frame)]
      /\ bwd \in [Hops -> Seq(Frame)] /\ near \in [Hops -> BOOLEAN] /\ far \in [Hops -> BOOLEAN]
      /\ 0 \in Parties /\ 1 \in Hops
  BY HopSets DEF TypeOK
<1>e. ASSUME ClientEnds PROVE Local(0)
  BY SMT, <1>t, <1>e DEF ClientEnds, ClientDrops, Local
<1>b. ASSUME Break PROVE \A k \in Parties : k # 0 => out'[k] = out[k]
  BY <1>t, <1>b DEF Break, SendFor
<1>s. ASSUME NEW k, NEW cell, SendFor(k, cell) PROVE \A j \in Parties : j # 0 => out'[j] = out[j]
  BY <1>t, <1>s DEF SendFor
<1>1. CASE dial
  BY SMTT(30), <1>t, <1>e, <1>1 DEF dial, Local
<1>2. CASE extend_hop
  BY SMTT(30), <1>t, <1>s, <1>2 DEF extend_hop, ClientReads, Local
<1>3. CASE dial_error
  BY <1>e, <1>3 DEF dial_error
<1>4. CASE circuit_task_user
  BY <1>s, <1>b, <1>4 DEF circuit_task_user, linkVars, Local
<1>5. CASE circuit_task_inbound
  <2>1. \A k \in Parties : k # 0 => out'[k] = out[k]
    BY <1>t, <1>b, <1>5 DEF circuit_task_inbound
  <2> QED BY SMTT(30), <1>t, <1>5, <2>1 DEF circuit_task_inbound, ClientReads, Local
<1>6. CASE circuit_task_eof
  BY <1>b, <1>6 DEF circuit_task_eof, linkVars, Local
<1>7. CASE ClientWrites
  BY SMT, <1>t, <1>7 DEF ClientWrites, ClientDrops, Local
<1>8. CASE ClientWriteFails
  BY <1>e, <1>b, <1>8 DEF ClientWriteFails, linkVars, Local
<1>9. CASE UserTakes
  <2>1. \A k \in Parties : k # 0 => out'[k] = out[k]
    BY <1>t, <1>b, <1>9 DEF UserTakes
  <2> QED BY <1>9, <2>1 DEF UserTakes, linkVars, Local
<1> QED BY <1>1, <1>2, <1>3, <1>4, <1>5, <1>6, <1>7, <1>8, <1>9 DEF Client

\* A step of relay h: handle_connection and run_circuit_io touch only its own
\* two connections.
LEMMA RelayLocal ==
  ASSUME TypeOK, NEW h \in Hops, RelayStep(h)
  PROVE  Local(h)
<1>t. /\ out \in [Parties -> Seq(Write)] /\ fwd \in [Hops -> Seq(Frame)]
      /\ bwd \in [Hops -> Seq(Frame)] /\ near \in [Hops -> BOOLEAN] /\ far \in [Hops -> BOOLEAN]
      /\ h \in Parties
  BY HopSets DEF TypeOK
<1>e. ASSUME RelayEnds(h), faults' = faults PROVE Local(h)
  BY <1>t, <1>e DEF RelayEnds, Local
<1>f. ASSUME Fail(h) PROVE Local(h)
  BY <1>e, <1>f DEF Fail
<1>r. ASSUME NEW plain, ReplyWith(h, plain) PROVE \A k \in Parties : k # h => out'[k] = out[k]
  BY <1>t, <1>r DEF ReplyWith
<1>1. CASE handle_connection(h) \/ presentation_timeout(h) \/ close(h)
  BY <1>t, <1>e, <1>1 DEF handle_connection, presentation_timeout, close, RelayReads, Local
<1>2. CASE drive_circuit(h)
  BY <1>t, <1>f, <1>2 DEF drive_circuit, linkVars, Local
<1>3. CASE run_inbound(h)
  <2>1. \A k \in Parties : k # h => out'[k] = out[k]
    BY <1>t, <1>r, <1>3 DEF run_inbound
  <2>2. \A l \in Hops : l # h + 1 => near'[l] = near[l] /\ far'[l] = far[l]
    BY <1>t, <1>3 DEF run_inbound
  <2>3. \A l \in Hops : l # h => fwd'[l] = fwd[l]
    BY <1>t, <1>3 DEF run_inbound, RelayReads
  <2>4. bwd' = bwd /\ faults' = faults
    BY <1>3 DEF run_inbound
  <2> QED BY <2>1, <2>2, <2>3, <2>4 DEF Local
<1>4. CASE run_inbound_error(h) \/ cell_read_timeout(h) \/ RelayWriteFails(h)
           \/ open_next_link_error(h)
  BY <1>f, <1>4 DEF run_inbound_error, cell_read_timeout, RelayWriteFails, open_next_link_error
<1>5. CASE open_next_link(h)
  <2>1. \A k \in Parties : k # h => out'[k] = out[k]
    BY <1>r, <1>5 DEF open_next_link
  <2> QED BY <1>t, <1>5, <2>1 DEF open_next_link, Local
<1>6. CASE run_next(h)
  <2>1. CASE ~Fail(h)
    <3>1. \A k \in Parties : k # h => out'[k] = out[k]
      BY <1>r, <1>6, <2>1 DEF run_next
    <3> QED BY <1>t, <1>6, <2>1, <3>1 DEF run_next, Local
  <2> QED BY <1>f, <2>1
<1>7. CASE RelayWritesBack(h) \/ RelayWritesOn(h)
  BY <1>t, <1>7 DEF RelayWritesBack, RelayWritesOn, Local
<1>8. CASE h = 3 /\ run_dest
  <2>1. CASE ~Fail(3)
    <3>1. \A k \in Parties : k # h => out'[k] = out[k]
      BY <1>r, <1>8, <2>1 DEF run_dest
    <3> QED BY <1>8, <2>1, <3>1 DEF run_dest, linkVars, Local
  <2> QED BY <1>f, <1>8, <2>1
<1>9. CASE h = 3 /\ DestTakes
  <2>1. CASE ~Fail(3)
    BY <1>t, <1>9, <2>1 DEF DestTakes, linkVars, Local
  <2> QED BY <1>f, <1>9, <2>1
<1> QED BY <1>1, <1>2, <1>3, <1>4, <1>5, <1>6, <1>7, <1>8, <1>9 DEF RelayStep, Relay, Exit

\* The exit writes only to a live destination, and knows one only after it
\* opened a cell: CONNECT is the first, so no second one reopens dest_link.
DestLink ==
    /\ WritesF(3) => dest = "up"
    /\ dest # "none" => openF[3] >= 1
=============================================================================
