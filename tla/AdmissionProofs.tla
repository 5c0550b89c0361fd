-------------------------- MODULE AdmissionProofs ---------------------------
(***************************************************************************)
(* Proofs about who is let in: the tokens a guard admits (ReplayWindow)    *)
(* and the peers the hops of a path admit (PathAdmission).                 *)
(***************************************************************************)
EXTENDS ReplayWindow, PathAdmission, FiniteSetTheorems, TLAPS

\* Zenon proves what names no other prover.
USE ZenonT(60)

(***************************************************************************)
(* ReplayWindow, for any sets of connections and tokens, any Ttl (zero     *)
(* included) and any number of restarts.  Everything follows from one      *)
(* inductive invariant that ties the window to the history of admissions.  *)
(***************************************************************************)

\* An entry of the window dates the last admission of its token.
Dated == \A t \in DOMAIN seen : admitted[t] = seen[t]

\* An admission is still in the window or is at least Ttl old.
Remembered ==
    \A t \in Tokens : Recent(t) => t \in DOMAIN seen

\* Only tokens that passed the signature check wait for the lock.
CheckedFirst == \A c \in Conns : conn[c] = "locking" => presented[c] \in Signed

IInv == TypeOK /\ Dated /\ Remembered /\ CheckedFirst /\ WindowBounded

-----------------------------------------------------------------------------
\* The states the relay starts in satisfy the invariant.
LEMMA InvInit == WindowInit => IInv
  BY SMT, WindowAssumption
  DEF WindowInit, IInv, TypeOK, Dated, Remembered, CheckedFirst, WindowBounded,
      Empty, ConnStates, Never, Recent

\* Steps that leave the clock, the window and the admissions alone.
LEMMA QuietStep ==
  ASSUME IInv, UNCHANGED <<now, seen, admitted, restarts>>,
         conn' \in [Conns -> ConnStates], presented' \in [Conns -> Tokens],
         CheckedFirst'
  PROVE  IInv'
  BY DEF IInv, TypeOK, Dated, Remembered, WindowBounded, Recent

\* What eviction under the lock leaves behind.
LEMMA RetainedFacts ==
  ASSUME IInv
  PROVE  /\ Retained \subseteq DOMAIN seen
         /\ \A t \in Retained : now - seen[t] < Ttl
         /\ \A t \in Tokens : Recent(t) => t \in Retained
         /\ \A t \in Retained : Recent(t)
  BY SMT, WindowAssumption
  DEF IInv, TypeOK, Dated, Remembered, Retained, Unexpired, Recent, Never

\* Refusing a replayed token keeps the invariant.
LEMMA ReplayedStep ==
  ASSUME IInv, NEW c \in Conns, verify_replayed(c)
  PROVE  IInv'
<1>1. /\ seen' = [t \in Retained |-> seen[t]]
      /\ DOMAIN seen' = Retained
      /\ UNCHANGED <<now, presented, admitted, restarts>>
      /\ conn' = [conn EXCEPT ![c] = "none"]
  BY DEF verify_replayed, To
<1>2. TypeOK'
  BY <1>1, RetainedFacts DEF IInv, TypeOK, ConnStates
<1>3. Dated' /\ CheckedFirst' /\ WindowBounded'
  BY <1>1, RetainedFacts
  DEF IInv, TypeOK, Dated, CheckedFirst, WindowBounded
<1>4. Remembered'
  BY <1>1, RetainedFacts DEF Remembered, Recent
<1> QED BY <1>2, <1>3, <1>4 DEF IInv

\* Recording an admitted token keeps the invariant.
LEMMA InsertStep ==
  ASSUME IInv, NEW c \in Conns, verify_insert(c)
  PROVE  IInv'
<1> DEFINE h == presented[c]
<1>1. /\ h \in Tokens /\ h \in Signed
      /\ conn' = [conn EXCEPT ![c] = "circuit"]
      /\ admitted' = [admitted EXCEPT ![h] = now]
      /\ UNCHANGED <<now, presented, restarts>>
  BY DEF verify_insert, To, IInv, TypeOK, CheckedFirst
<1>2. /\ DOMAIN seen' = Retained \cup {h}
      /\ seen'[h] = now
      /\ \A t \in Retained : t # h => seen'[t] = seen[t]
      /\ seen' \in [DOMAIN seen' -> 0 .. now]
  BY SMT, RetainedFacts DEF verify_insert, IInv, TypeOK
<1>3. TypeOK'
  <2>1. admitted' \in [Tokens -> 0 .. now \cup {Never}]
    BY SMT, <1>1 DEF IInv, TypeOK
  <2> QED
    BY <1>1, <1>2, <2>1, RetainedFacts DEF IInv, TypeOK, ConnStates
<1>4. Dated' /\ CheckedFirst'
  BY <1>1, <1>2, RetainedFacts DEF IInv, TypeOK, Dated, CheckedFirst
<1>5. WindowBounded'
  <2>1. \A t \in Retained : now - seen[t] < Ttl /\ seen[t] \in 0 .. now
    BY RetainedFacts DEF IInv, TypeOK
  <2> QED
    BY SMT, <1>1, <1>2, <2>1, RetainedFacts, WindowAssumption
    DEF IInv, TypeOK, WindowBounded
<1>6. Remembered'
  BY <1>1, <1>2, RetainedFacts DEF Remembered, Recent, IInv, TypeOK
<1> QED BY <1>3, <1>4, <1>5, <1>6 DEF IInv

\* Every step keeps the invariant.
LEMMA InvNext == IInv /\ [WindowNext]_windowVars => IInv'
<1> SUFFICES ASSUME IInv, [WindowNext]_windowVars PROVE IInv'
  BY SMT
<1> USE DEF To
<1>1. ASSUME NEW c \in Conns, accept_loop(c) PROVE IInv'
  BY <1>1, QuietStep DEF accept_loop, IInv, TypeOK, ConnStates, CheckedFirst
<1>2. ASSUME NEW c \in Conns, handle_connection_error(c) PROVE IInv'
  BY <1>2, QuietStep
  DEF handle_connection_error, IInv, TypeOK, ConnStates, CheckedFirst
<1>3. ASSUME NEW c \in Conns, NEW t \in Tokens, handle_client_connection(c, t)
      PROVE  IInv'
  <2>1. /\ conn' \in [Conns -> ConnStates]
        /\ presented' \in [Conns -> Tokens]
    BY <1>3 DEF handle_client_connection, IInv, TypeOK, ConnStates
  <2>2. CheckedFirst'
    BY <1>3 DEF handle_client_connection, IInv, TypeOK, CheckedFirst
  <2> QED BY <1>3, <2>1, <2>2, QuietStep DEF handle_client_connection
<1>4. ASSUME NEW c \in Conns, verify_signature(c) PROVE IInv'
  <2>1. /\ conn' \in [Conns -> ConnStates]
        /\ presented' \in [Conns -> Tokens]
    BY <1>4 DEF verify_signature, IInv, TypeOK, ConnStates
  <2>2. CheckedFirst'
    BY <1>4 DEF verify_signature, SignatureHolds, IInv, TypeOK, CheckedFirst
  <2> QED BY <1>4, <2>1, <2>2, QuietStep DEF verify_signature
<1>5. ASSUME NEW c \in Conns, verify_replayed(c) PROVE IInv'
  BY <1>5, ReplayedStep
<1>6. ASSUME NEW c \in Conns, verify_insert(c) PROVE IInv'
  BY <1>6, InsertStep
<1>7. ASSUME NEW c \in Conns, drive_circuit(c) PROVE IInv'
  BY <1>7, QuietStep DEF drive_circuit, IInv, TypeOK, ConnStates, CheckedFirst
<1>8. CASE main
  BY SMT, <1>8, WindowAssumption
  DEF main, IInv, TypeOK, ConnStates, Dated, Remembered, CheckedFirst,
      WindowBounded, Recent, Empty, Never
<1>9. CASE Elapse
  BY SMT, <1>9, WindowAssumption
  DEF Elapse, IInv, TypeOK, Dated, Remembered, CheckedFirst, WindowBounded,
      Recent, Never
<1>10. CASE UNCHANGED windowVars
  BY <1>10 DEF windowVars, IInv, TypeOK, Dated, Remembered, CheckedFirst,
               WindowBounded, Recent
<1> QED
  BY <1>1, <1>2, <1>3, <1>4, <1>5, <1>6, <1>7, <1>8, <1>9, <1>10 DEF WindowNext

\* The inductive invariant holds of every behaviour.
LEMMA Invariance == WindowSpec => []IInv
  BY InvInit, InvNext, PTL DEF WindowSpec
-----------------------------------------------------------------------------
\* The window, the connection tasks and the history stay well formed: no entry
\* is dated after the clock, so duration_since in map.retain never saturates.
THEOREM WindowTypeCorrect == WindowSpec => []TypeOK
<1>1. IInv => TypeOK BY DEF IInv
<1> QED BY <1>1, Invariance, PTL

\* The window never holds an unsigned token and never spans a Ttl.
THEOREM WindowStaysBounded == WindowSpec => []WindowBounded
<1>1. IInv => WindowBounded BY DEF IInv
<1> QED BY <1>1, Invariance, PTL

\* Which of Next's steps take a connection out of "locking", and how.
LEMMA LeavingTheLock ==
  ASSUME IInv, WindowNext, NEW c \in Conns, conn[c] = "locking",
         conn'[c] # "locking"
  PROVE  verify_replayed(c) \/ verify_insert(c) \/ main
<1>1. ASSUME NEW d \in Conns, NEW from, NEW to, To(d, from, to)
      PROVE  d = c /\ from = "locking"
  BY <1>1 DEF To, IInv, TypeOK
<1>2. ASSUME NEW d \in Conns,
             \/ accept_loop(d)
             \/ handle_connection_error(d)
             \/ \E t \in Tokens : handle_client_connection(d, t)
             \/ verify_signature(d)
             \/ drive_circuit(d)
      PROVE  FALSE
  <2>1. CASE verify_signature(d)
    BY SMT, <1>1, <2>1 DEF verify_signature
  <2> QED
    BY SMT, <1>1, <1>2, <2>1
    DEF accept_loop, handle_connection_error, handle_client_connection,
        drive_circuit
<1>3. ASSUME NEW d \in Conns, verify_replayed(d) \/ verify_insert(d)
      PROVE  d = c
  BY <1>1, <1>3 DEF verify_replayed, verify_insert
<1>4. ~ Elapse
  BY DEF Elapse
<1> QED BY <1>2, <1>3, <1>4 DEF WindowNext

\* No token opens two circuits less than a Ttl apart, whatever connections
\* present it and however their verifications interleave.
THEOREM ReplayRefused == WindowSpec => NoReplay
<1>1. ASSUME IInv, [WindowNext]_windowVars, NEW c \in Conns,
             conn[c] = "locking", conn'[c] = "circuit"
      PROVE  ~ Recent(presented[c])
  <2>1. WindowNext
    BY <1>1 DEF windowVars
  <2>2. verify_replayed(c) \/ verify_insert(c) \/ main
    BY <1>1, <2>1, LeavingTheLock
  <2>3. verify_insert(c)
    BY <1>1, <2>2 DEF verify_replayed, main, To, IInv, TypeOK
  <2> QED
    BY <1>1, <2>3, RetainedFacts DEF verify_insert, IInv, TypeOK
<1>2. IInv /\ [WindowNext]_windowVars =>
        [\A c \in Conns :
            conn[c] = "locking" /\ conn'[c] = "circuit" => ~ Recent(presented[c])]_windowVars
  BY <1>1
<1> QED BY <1>2, Invariance, PTL DEF WindowSpec, NoReplay

\* A correctly signed token is refused as a replay only while an admission of
\* that same token is less than a Ttl old.
THEOREM OnlyReplaysRefused == WindowSpec => NoFalseReplay
<1>1. ASSUME IInv, [WindowNext]_windowVars, NEW c \in Conns,
             conn[c] = "locking", conn'[c] = "none"
      PROVE  Recent(presented[c]) \/ restarts' # restarts
  <2>1. WindowNext
    BY <1>1 DEF windowVars
  <2>2. verify_replayed(c) \/ verify_insert(c) \/ main
    BY <1>1, <2>1, LeavingTheLock
  <2>3. CASE verify_replayed(c)
    BY <1>1, <2>3, RetainedFacts DEF verify_replayed
  <2>4. CASE verify_insert(c)
    BY <1>1, <2>4 DEF verify_insert, To, IInv, TypeOK
  <2>5. CASE main
    BY SMT, <1>1, <2>5 DEF main, IInv, TypeOK
  <2> QED BY <2>2, <2>3, <2>4, <2>5
<1>2. IInv /\ [WindowNext]_windowVars =>
        [\A c \in Conns :
            conn[c] = "locking" /\ conn'[c] = "none" =>
                Recent(presented[c]) \/ restarts' # restarts]_windowVars
  BY <1>1
<1> QED BY <1>2, Invariance, PTL DEF WindowSpec, NoFalseReplay

(***************************************************************************)
(* PathAdmission, for any catalogue of documents, any validity window and  *)
(* any drift of the client's clock.  First the arithmetic of a draw: the   *)
(* index select_with reads off its loop names one triple and every allowed *)
(* triple has one.  Then what the hops make of the documents they hold.    *)
(***************************************************************************)

-----------------------------------------------------------------------------
\* The addresses a document may hold that are IP literals.
Literal == {ip \in IpText : ip.fam # "name"}

\* canonical_ip leaves two families and changes neither network nor host.
LEMMA CanonicalForm ==
  ASSUME NEW ip \in Literal
  PROVE  canonical_ip(ip) = [fam |-> IF ip.fam = "v6" THEN "v6" ELSE "v4",
                             net |-> ip.net, host |-> ip.host]
  BY DEF Literal, IpText, canonical_ip

\* same_prefix on canonical addresses is sameness of place.
LEMMA PrefixIsPlace ==
  ASSUME NEW a \in Literal, NEW b \in Literal
  PROVE  same_prefix(canonical_ip(a), canonical_ip(b)) <=> Place(a) = Place(b)
  BY SMT, CanonicalForm DEF same_prefix, Place, Literal, IpText

\* Two literals have one canonical form when place and host agree.
LEMMA CanonicalIsSpot ==
  ASSUME NEW a \in Literal, NEW b \in Literal
  PROVE  canonical_ip(a) = canonical_ip(b) <=> Place(a) = Place(b) /\ a.host = b.host
<1>1. /\ canonical_ip(a).fam = IF a.fam = "v6" THEN "v6" ELSE "v4"
      /\ canonical_ip(a).net = a.net /\ canonical_ip(a).host = a.host
      /\ canonical_ip(b).fam = IF b.fam = "v6" THEN "v6" ELSE "v4"
      /\ canonical_ip(b).net = b.net /\ canonical_ip(b).host = b.host
  BY SMT, CanonicalForm
<1> QED
  BY SMT, <1>1, CanonicalForm DEF Place, Literal, IpText

\* Only an IP literal has the place of one.
LEMMA PlaceOfLiteral ==
  ASSUME NEW a \in Literal, NEW b \in IpText, Place(a) = Place(b)
  PROVE  b \in Literal
  BY SMT DEF Place, Literal, IpText

-----------------------------------------------------------------------------
\* The triples of three finite sets are finitely many.
LEMMA TriplesFinite ==
  ASSUME NEW A, NEW B, NEW C, IsFiniteSet(A), IsFiniteSet(B), IsFiniteSet(C)
  PROVE  IsFiniteSet(A \X B \X C)
<1> DEFINE S == A \X B \X C
           T == (A \X B) \X C
           f == [t \in S |-> << <<t[1], t[2]>>, t[3] >>]
<1>1. IsFiniteSet(T)
  <2>1. IsFiniteSet(A \X B)
    BY FS_Product
  <2> QED
    BY <2>1, FS_Product
<1>2. f \in [S -> T]
  BY SMT
<1>3. ASSUME NEW t \in S, NEW u \in S, f[t] = f[u]
      PROVE  t = u
  BY SMT, <1>3
<1>4. f \in Injection(S, T)
  BY <1>2, <1>3 DEF Injection, IsInjective
<1> HIDE DEF f, S, T
<1> QED
  BY <1>1, <1>4, FS_Injection DEF S

\* The nested loops meet any two triples of positions in one order.
LEMMA LoopOrder ==
  ASSUME NEW t \in Int \X Int \X Int, NEW u \in Int \X Int \X Int, t # u
  PROVE  Earlier(t, u) \/ Earlier(u, t)
  BY SMT DEF Earlier

\* The order in which the three nested loops meet the triples is transitive.
LEMMA LoopOrderTransitive ==
  ASSUME NEW t \in Int \X Int \X Int, NEW u \in Int \X Int \X Int,
         NEW v \in Int \X Int \X Int, Earlier(t, u), Earlier(u, v)
  PROVE  Earlier(t, v)
  BY SMT DEF Earlier

\* And no triple is met before itself.
LEMMA LoopOrderIrreflexive ==
  ASSUME NEW t \in Int \X Int \X Int
  PROVE  ~Earlier(t, t)
  BY SMT DEF Earlier

\* In a finite set V of triples, the number of members met before a member
\* takes every value below the size of V exactly once.
LEMMA RankIsIndex ==
  ASSUME NEW V \in SUBSET (Int \X Int \X Int), IsFiniteSet(V)
  PROVE  /\ Cardinality(V) \in Nat
         /\ \A t \in V : Cardinality({u \in V : Earlier(u, t)}) \in 0..(Cardinality(V) - 1)
         /\ \A w \in 0..(Cardinality(V) - 1) :
                \E t \in V : Cardinality({u \in V : Earlier(u, t)}) = w
         /\ \A t, u \in V : Cardinality({x \in V : Earlier(x, t)})
                             = Cardinality({x \in V : Earlier(x, u)}) => t = u
<1> DEFINE B(t) == {u \in V : Earlier(u, t)}
           N == Cardinality(V)
           T == 0..(N - 1)
           rank == [t \in V |-> Cardinality(B(t))]
<1>1. N \in Nat
  BY FS_CardinalityType
<1>2. ASSUME NEW t \in V
      PROVE  /\ IsFiniteSet(B(t)) /\ Cardinality(B(t)) \in Nat
             /\ Cardinality(B(t)) < N
  <2>1. B(t) \in SUBSET V /\ t \notin B(t)
    BY LoopOrderIrreflexive
  <2> HIDE DEF B
  <2>2. IsFiniteSet(B(t)) /\ Cardinality(B(t)) <= N /\ Cardinality(B(t)) # N
    BY <2>1, FS_Subset
  <2> QED
    BY SMT, <1>1, <2>2, FS_CardinalityType
<1>3. ASSUME NEW t \in V, NEW u \in V, Earlier(t, u)
      PROVE  Cardinality(B(t)) < Cardinality(B(u))
  <2>1. B(t) \in SUBSET B(u) /\ t \in B(u) /\ t \notin B(t)
    BY <1>3, LoopOrderTransitive, LoopOrderIrreflexive
  <2>2. IsFiniteSet(B(u)) /\ Cardinality(B(u)) \in Nat /\ Cardinality(B(t)) \in Nat
    BY <1>2
  <2> HIDE DEF B
  <2>3. Cardinality(B(t)) <= Cardinality(B(u)) /\ Cardinality(B(t)) # Cardinality(B(u))
    BY <2>1, <2>2, FS_Subset
  <2> QED
    BY SMT, <2>2, <2>3
<1>4. rank \in [V -> T]
  <2> HIDE DEF B, N
  <2> QED
    BY SMT, <1>1, <1>2
<1>5. ASSUME NEW t \in V, NEW u \in V, Cardinality(B(t)) = Cardinality(B(u))
      PROVE  t = u
  <2> HIDE DEF B
  <2>1. Cardinality(B(t)) \in Nat /\ Cardinality(B(u)) \in Nat
    BY <1>2
  <2> QED
    BY SMT, <1>3, <1>5, <2>1, LoopOrder
<1>6. rank \in Injection(V, T)
  <2> HIDE DEF B
  <2> QED
    BY <1>4, <1>5 DEF Injection, IsInjective
<1>7. IsFiniteSet(T) /\ Cardinality(T) = N
  <2> HIDE DEF N
  <2>1. N - 1 \in Int /\ 0 \in Int
    BY SMT, <1>1
  <2>2. IsFiniteSet(T) /\ Cardinality(T) = IF 0 > N - 1 THEN 0 ELSE N - 1 - 0 + 1
    BY <2>1, FS_Interval
  <2> QED
    BY SMT, <1>1, <2>2
<1>8. rank \in Surjection(V, T)
  <2> HIDE DEF rank, T
  <2> QED
    BY <1>6, <1>7, FS_Injection
<1>9. \A w \in T : \E t \in V : Cardinality(B(t)) = w
  <2> HIDE DEF B, T
  <2> QED
    BY <1>8 DEF Surjection
<1> QED
  BY <1>1, <1>4, <1>5, <1>9

-----------------------------------------------------------------------------
\* A document that candidates accepts.
WellFormed(doc) ==
    doc \in Document /\ \A i \in DOMAIN doc.relays : ~Malformed(doc.relays[i])

\* What the client and a relay read from a well formed entry.
LEMMA EntryAddress ==
  ASSUME NEW e \in RelayEntry, ~Malformed(e)
  PROVE  /\ e.ip \in Literal
         /\ ip_addr(e) = {canonical_ip(e.ip)}
         /\ e.port # 0
         /\ addr(e) = {[ip |-> canonical_ip(e.ip), port |-> e.port]}
  BY DEF RelayEntry, Malformed, Literal, ip_addr, addr

\* The candidates of a well formed document, position by position.
LEMMA CandidateAt ==
  ASSUME NEW doc, WellFormed(doc), NEW i \in DOMAIN doc.relays
  PROVE  /\ doc.relays[i] \in RelayEntry
         /\ candidates(doc)[i].entry = doc.relays[i]
         /\ candidates(doc)[i].ip = canonical_ip(doc.relays[i].ip)
         /\ doc.relays[i].ip \in Literal
<1>1. doc.relays[i] \in RelayEntry /\ ~Malformed(doc.relays[i])
  BY SMT DEF WellFormed, Document
<1>2. ip_addr(doc.relays[i]) = {canonical_ip(doc.relays[i].ip)}
      /\ doc.relays[i].ip \in Literal
  BY <1>1, EntryAddress
<1> QED
  BY <1>1, <1>2 DEF candidates

\* The valid triples of the three slices, as the loops test them.
Valid(doc) ==
    LET c == candidates(doc)
    IN  {t \in by_role(c, "guard") \X by_role(c, "middle") \X by_role(c, "exit") :
            triple_is_valid(c[t[1]], c[t[2]], c[t[3]], diverse)}

\* triple_is_valid accepts exactly the triples the rules allow.
LEMMA ValidIsAllowed ==
  ASSUME NEW doc, WellFormed(doc)
  PROVE  Valid(doc) = Allowed(doc)
<1> DEFINE c == candidates(doc)
           R == doc.relays
           D == DOMAIN R
           Diff(e, f) == /\ e.id # f.id /\ e.host # f.host
                         /\ Place(e.ip) # Place(f.ip)
                         /\ diverse => e.operator # f.operator
<1>1. DOMAIN c = D
  BY DEF candidates
<1>2. \A i \in D : c[i].entry = R[i] /\ c[i].ip = canonical_ip(R[i].ip) /\ R[i].ip \in Literal
  BY CandidateAt
<1>3. ASSUME NEW t \in D \X D \X D
      PROVE  triple_is_valid(c[t[1]], c[t[2]], c[t[3]], diverse)
             <=> /\ Diff(R[t[1]], R[t[2]]) /\ Diff(R[t[1]], R[t[3]])
                 /\ Diff(R[t[2]], R[t[3]])
  <2>1. /\ c[t[1]].entry = R[t[1]] /\ c[t[1]].ip = canonical_ip(R[t[1]].ip) /\ R[t[1]].ip \in Literal
        /\ c[t[2]].entry = R[t[2]] /\ c[t[2]].ip = canonical_ip(R[t[2]].ip) /\ R[t[2]].ip \in Literal
        /\ c[t[3]].entry = R[t[3]] /\ c[t[3]].ip = canonical_ip(R[t[3]].ip) /\ R[t[3]].ip \in Literal
    BY <1>2
  <2>2. /\ same_prefix(c[t[1]].ip, c[t[2]].ip) <=> Place(R[t[1]].ip) = Place(R[t[2]].ip)
        /\ same_prefix(c[t[1]].ip, c[t[3]].ip) <=> Place(R[t[1]].ip) = Place(R[t[3]].ip)
        /\ same_prefix(c[t[2]].ip, c[t[3]].ip) <=> Place(R[t[2]].ip) = Place(R[t[3]].ip)
    BY <2>1, PrefixIsPlace
  <2> HIDE DEF c, R
  <2> QED
    BY <2>1, <2>2 DEF triple_is_valid
<1>4. ASSUME NEW t \in D \X D \X D
      PROVE  /\ (\A i \in 1..3 : R[t[i]].role = Roles[i])
                 <=> /\ R[t[1]].role = "guard" /\ R[t[2]].role = "middle"
                     /\ R[t[3]].role = "exit"
             /\ (\A i, j \in 1..3 : i # j => Diff(R[t[i]], R[t[j]]))
                 <=> /\ Diff(R[t[1]], R[t[2]]) /\ Diff(R[t[1]], R[t[3]])
                     /\ Diff(R[t[2]], R[t[3]])
  <2>1. 1..3 = {1, 2, 3}
    BY SMT
  <2>2. \A e, f : Diff(e, f) => Diff(f, e)
    BY SMT
  <2>3. Roles[1] = "guard" /\ Roles[2] = "middle" /\ Roles[3] = "exit"
    BY DEF Roles
  <2> HIDE DEF Diff, R
  <2> QED
    BY <2>1, <2>2, <2>3
<1>5. by_role(c, "guard") = {i \in D : R[i].role = "guard"}
      /\ by_role(c, "middle") = {i \in D : R[i].role = "middle"}
      /\ by_role(c, "exit") = {i \in D : R[i].role = "exit"}
  <2> HIDE DEF c, R
  <2> QED
    BY <1>1, <1>2 DEF by_role
<1>6. Allowed(doc) = {t \in D \X D \X D :
          /\ \A i \in 1..3 : R[t[i]].role = Roles[i]
          /\ \A i, j \in 1..3 : i # j => Diff(R[t[i]], R[t[j]])}
  BY DEF Allowed
<1>7. Valid(doc) = {t \in by_role(c, "guard") \X by_role(c, "middle") \X by_role(c, "exit") :
          triple_is_valid(c[t[1]], c[t[2]], c[t[3]], diverse)}
  BY DEF Valid
<1> HIDE DEF c, R, D, Diff
<1> QED
  BY SMTT(30), <1>3, <1>4, <1>5, <1>6, <1>7

\* Positions are whole numbers, and a document has finitely many triples.
LEMMA AllowedFinite ==
  ASSUME NEW doc, WellFormed(doc)
  PROVE  Allowed(doc) \in SUBSET (Int \X Int \X Int) /\ IsFiniteSet(Allowed(doc))
<1> DEFINE D == DOMAIN doc.relays
<1>1. D = 1..Len(doc.relays) /\ Len(doc.relays) \in Nat
  BY SMT DEF WellFormed, Document
<1>2. IsFiniteSet(D) /\ D \subseteq Int
  <2>1. 1 \in Int /\ Len(doc.relays) \in Int
    BY SMT, <1>1
  <2>2. IsFiniteSet(1..Len(doc.relays))
    BY <2>1, FS_Interval
  <2> QED
    BY SMT, <1>1, <2>2
<1>3. Allowed(doc) \in SUBSET (D \X D \X D)
  BY DEF Allowed
<1> HIDE DEF D
<1>4. IsFiniteSet(D \X D \X D)
  BY <1>2, TriplesFinite
<1>5. IsFiniteSet(Allowed(doc))
  BY <1>3, <1>4, FS_Subset
<1> QED
  BY <1>2, <1>3, <1>5

\* The number of draws, and where a draw leads, in terms of the allowed
\* triples and the order in which the loops meet them.
LEMMA SelectWithIs ==
  ASSUME NEW doc, WellFormed(doc)
  PROVE  /\ Draws(doc, diverse) = 0..(Cardinality(Allowed(doc)) - 1)
         /\ \A w : select_with(doc, diverse, w) =
                {SelectedPath(candidates(doc), t) : t \in {u \in Allowed(doc) :
                    Cardinality({x \in Allowed(doc) : Earlier(x, u)}) = w}}
<1> DEFINE c == candidates(doc)
           gs == by_role(c, "guard")
           ms == by_role(c, "middle")
           es == by_role(c, "exit")
<1>1. Allowed(doc) = {t \in gs \X ms \X es :
                         triple_is_valid(c[t[1]], c[t[2]], c[t[3]], diverse)}
  BY ValidIsAllowed DEF Valid
<1>2. Draws(doc, diverse) = 0..(Cardinality(Allowed(doc)) - 1)
  BY <1>1 DEF Draws, count_valid
<1>3. \A u : Passed(c, gs, ms, es, diverse, u) = {x \in Allowed(doc) : Earlier(x, u)}
  <2> HIDE DEF c, gs, ms, es
  <2> QED
    BY <1>1 DEF Passed
<1>4. \A w : select_with(doc, diverse, w) = Walk(c, gs, ms, es, diverse, w)
  BY DEF select_with
<1>5. ASSUME NEW w
      PROVE  Walk(c, gs, ms, es, diverse, w) =
                {SelectedPath(c, t) : t \in {u \in Allowed(doc) :
                    Cardinality({x \in Allowed(doc) : Earlier(x, u)}) = w}}
  <2> HIDE DEF c, gs, ms, es
  <2>1. {u \in gs \X ms \X es :
            /\ triple_is_valid(c[u[1]], c[u[2]], c[u[3]], diverse)
            /\ Cardinality(Passed(c, gs, ms, es, diverse, u)) = w}
        = {u \in Allowed(doc) : Cardinality({x \in Allowed(doc) : Earlier(x, u)}) = w}
    BY <1>1, <1>3
  <2> QED
    BY <2>1 DEF Walk
<1> HIDE DEF c, gs, ms, es
<1> QED
  BY <1>2, <1>4, <1>5 DEF c

\* The hops of the path that a triple stands for.
LEMMA SelectedHops ==
  ASSUME NEW doc, WellFormed(doc), NEW t \in Allowed(doc)
  PROVE  /\ SelectedPath(candidates(doc), t).hops = [i \in 1..3 |-> doc.relays[t[i]]]
         /\ \A i \in 1..3 : t[i] \in DOMAIN doc.relays
<1>1. \A i \in 1..3 : t[i] \in DOMAIN doc.relays
  BY SMT DEF Allowed
<1>2. \A i \in 1..3 : candidates(doc)[t[i]].entry = doc.relays[t[i]]
  BY <1>1, CandidateAt
<1> QED
  BY <1>1, <1>2 DEF SelectedPath

\* Draws and allowed paths correspond one to one, whatever the document: the
\* index that count_valid's total bounds always meets one triple, and every
\* triple has an index.
LEMMA DrawsAreAllowed ==
  ASSUME NEW doc, WellFormed(doc)
  PROVE  /\ Cardinality(Draws(doc, diverse)) = Cardinality(Allowed(doc))
         /\ \A w \in Draws(doc, diverse) :
                \E t \in Allowed(doc) :
                    select_with(doc, diverse, w) = {SelectedPath(candidates(doc), t)}
         /\ \A t \in Allowed(doc) :
                \E w \in Draws(doc, diverse) :
                    select_with(doc, diverse, w) = {SelectedPath(candidates(doc), t)}
<1> DEFINE A == Allowed(doc)
           Rank(t) == Cardinality({u \in A : Earlier(u, t)})
<1>1. /\ Cardinality(A) \in Nat
      /\ \A t \in A : Rank(t) \in 0..(Cardinality(A) - 1)
      /\ \A w \in 0..(Cardinality(A) - 1) : \E t \in A : Rank(t) = w
      /\ \A t, u \in A : Rank(t) = Rank(u) => t = u
  BY AllowedFinite, RankIsIndex
<1>2. /\ Draws(doc, diverse) = 0..(Cardinality(A) - 1)
      /\ \A w : select_with(doc, diverse, w) =
             {SelectedPath(candidates(doc), t) : t \in {u \in A : Rank(u) = w}}
  BY SelectWithIs
<1>3. Cardinality(Draws(doc, diverse)) = Cardinality(A)
  <2> HIDE DEF A
  <2>1. /\ Cardinality(A) - 1 \in Int /\ 0 \in Int
    BY SMT, <1>1
  <2>2. Cardinality(Draws(doc, diverse))
          = IF 0 > Cardinality(A) - 1 THEN 0 ELSE Cardinality(A) - 1 - 0 + 1
    BY <1>2, <2>1, FS_Interval
  <2> QED
    BY SMTT(30), <1>1, <2>2
<1> HIDE DEF A, Rank
<1>4. ASSUME NEW t \in A
      PROVE  select_with(doc, diverse, Rank(t)) = {SelectedPath(candidates(doc), t)}
  <2>1. {u \in A : Rank(u) = Rank(t)} = {t}
    BY <1>1
  <2> QED
    BY SMT, <1>2, <2>1
<1>5. \A w \in Draws(doc, diverse) : \E t \in A :
          select_with(doc, diverse, w) = {SelectedPath(candidates(doc), t)}
  BY <1>1, <1>2, <1>4
<1>6. \A t \in A : \E w \in Draws(doc, diverse) :
          select_with(doc, diverse, w) = {SelectedPath(candidates(doc), t)}
  BY <1>1, <1>2, <1>4
<1> QED
  BY <1>3, <1>5, <1>6 DEF A

-----------------------------------------------------------------------------
\* The reasons that concern the want of a path, in terms of Allowed.
LEMMA ReasonFacts ==
  ASSUME NEW doc \in Document, NEW clock
  PROVE  LET reason == NoPathReason(doc, diverse, clock)
         IN  /\ reason \in {"none", "InsufficientRelays", "DiversityUnsatisfiable"}
                    => WellFormed(doc)
             /\ reason \in {"InsufficientRelays", "DiversityUnsatisfiable"}
                    => Allowed(doc) = {}
<1> DEFINE c == candidates(doc)
           gs == by_role(c, "guard")
           ms == by_role(c, "middle")
           es == by_role(c, "exit")
           reason == NoPathReason(doc, diverse, clock)
<1>1. reason \in {"none", "InsufficientRelays", "DiversityUnsatisfiable"} => WellFormed(doc)
  BY DEF NoPathReason, WellFormed
<1>2. reason = "InsufficientRelays" => {} \in {gs, ms, es}
  BY DEF NoPathReason
<1>3. reason = "DiversityUnsatisfiable" => Cardinality(Valid(doc)) = 0
  BY DEF NoPathReason, count_valid, Valid
<1>4. ASSUME WellFormed(doc), {} \in {gs, ms, es}
      PROVE  Allowed(doc) = {}
  <2>1. Valid(doc) = {}
    <3> HIDE DEF c, gs, ms, es
    <3>1. Valid(doc) \subseteq gs \X ms \X es
      BY DEF Valid, c, gs, ms, es
    <3> QED
      BY <1>4, <3>1
  <2> QED
    BY <1>4, <2>1, ValidIsAllowed
<1>5. ASSUME WellFormed(doc), Cardinality(Valid(doc)) = 0
      PROVE  Allowed(doc) = {}
  BY <1>5, ValidIsAllowed, AllowedFinite, FS_EmptySet
<1> HIDE DEF reason
<1> QED
  BY <1>1, <1>2, <1>3, <1>4, <1>5 DEF reason

\* EveryDrawOnePath for any document of the right shape.
LEMMA EveryDraw ==
  ASSUME pub[mine] \in Document
  PROVE  EveryDrawOnePath
<1> DEFINE doc    == pub[mine]
           reason == NoPathReason(doc, diverse, time + drift)
           drawn  == UNION {select_with(doc, diverse, w) : w \in Draws(doc, diverse)}
           Hops(t) == [i \in 1..3 |-> doc.relays[t[i]]]
<1>1. /\ reason \in {"none", "InsufficientRelays", "DiversityUnsatisfiable"} => WellFormed(doc)
      /\ reason \in {"InsufficientRelays", "DiversityUnsatisfiable"} => Allowed(doc) = {}
  BY ReasonFacts
<1>2. ASSUME WellFormed(doc)
      PROVE  /\ Cardinality(Draws(doc, diverse)) = Cardinality(Allowed(doc))
             /\ \A w \in Draws(doc, diverse) : select_with(doc, diverse, w) # {}
             /\ {p.hops : p \in drawn} = {Hops(t) : t \in Allowed(doc)}
  <2> HIDE DEF doc
  <2>1. /\ Cardinality(Draws(doc, diverse)) = Cardinality(Allowed(doc))
        /\ \A w \in Draws(doc, diverse) : \E t \in Allowed(doc) :
               select_with(doc, diverse, w) = {SelectedPath(candidates(doc), t)}
        /\ \A t \in Allowed(doc) : \E w \in Draws(doc, diverse) :
               select_with(doc, diverse, w) = {SelectedPath(candidates(doc), t)}
    BY <1>2, DrawsAreAllowed
  <2>2. \A t \in Allowed(doc) : SelectedPath(candidates(doc), t).hops = Hops(t)
    BY SMTT(30), <1>2, SelectedHops
  <2>3. drawn = {SelectedPath(candidates(doc), t) : t \in Allowed(doc)}
    BY SMT, <2>1
  <2>4. {p.hops : p \in drawn} = {Hops(t) : t \in Allowed(doc)}
    <3> HIDE DEF drawn, Hops
    <3> QED
      BY <2>2, <2>3
  <2> QED
    BY <2>1, <2>4
<1>3. EveryDrawOnePath <=>
        /\ reason = "none" =>
            /\ Cardinality(Draws(doc, diverse)) = Cardinality(Allowed(doc))
            /\ \A w \in Draws(doc, diverse) : select_with(doc, diverse, w) # {}
            /\ {p.hops : p \in drawn} = {Hops(t) : t \in Allowed(doc)}
        /\ reason \in {"InsufficientRelays", "DiversityUnsatisfiable"} => Allowed(doc) = {}
  BY DEF EveryDrawOnePath
<1> HIDE DEF doc, reason, drawn, Hops
<1> QED
  BY <1>1, <1>2, <1>3

-----------------------------------------------------------------------------
\* operator_span counts the operators of a path.
LEMMA SpanCounts ==
  ASSUME NEW hops
  PROVE  operator_span(hops) = Cardinality({hops[i].operator : i \in 1..3})
<1> DEFINE g == hops[1].operator
           m == hops[2].operator
           e == hops[3].operator
<1>1. {hops[i].operator : i \in 1..3} = ({g} \cup {m}) \cup {e}
  <2>1. 1..3 = {1, 2, 3}
    BY SMT
  <2> QED
    BY <2>1
<1>2. operator_span(hops) =
        IF g = m /\ m = e THEN 1 ELSE IF g = m \/ m = e \/ g = e THEN 2 ELSE 3
  BY DEF operator_span
<1> HIDE DEF g, m, e
<1>3. IsFiniteSet({g}) /\ Cardinality({g}) = 1
  BY FS_Singleton
<1>4. /\ IsFiniteSet({g} \cup {m})
      /\ Cardinality({g} \cup {m}) = IF m \in {g} THEN 1 ELSE 2
  BY SMT, <1>3, FS_AddElement
<1>5. Cardinality(({g} \cup {m}) \cup {e})
        = IF e \in {g} \cup {m} THEN Cardinality({g} \cup {m})
                               ELSE Cardinality({g} \cup {m}) + 1
  BY <1>4, FS_AddElement
<1> QED
  BY SMTT(30), <1>1, <1>2, <1>4, <1>5

\* What PathDiverse and the later hops need of a path.
PathGood(p) ==
    /\ p.hops \in [1..3 -> RelayEntry]
    /\ \A i \in 1..3 : ~Malformed(p.hops[i]) /\ p.hops[i].role = Roles[i]
    /\ \A i, j \in 1..3 : i # j =>
           /\ p.hops[i].id # p.hops[j].id /\ p.hops[i].host # p.hops[j].host
           /\ Place(p.hops[i].ip) # Place(p.hops[j].ip)
           /\ diverse => p.hops[i].operator # p.hops[j].operator
    /\ p.operator_span = Cardinality({p.hops[i].operator : i \in 1..3})

\* Every draw from an accepted document is one good path.
LEMMA DrawIsGood ==
  ASSUME NEW doc, WellFormed(doc), NEW w \in Draws(doc, diverse)
  PROVE  \E p : select_with(doc, diverse, w) = {p} /\ PathGood(p)
<1>1. PICK t \in Allowed(doc) :
          select_with(doc, diverse, w) = {SelectedPath(candidates(doc), t)}
  BY DrawsAreAllowed
<1> DEFINE p == SelectedPath(candidates(doc), t)
           R == doc.relays
<1>2. p.hops = [i \in 1..3 |-> R[t[i]]] /\ \A i \in 1..3 : t[i] \in DOMAIN R
  BY SelectedHops
<1>3. p.operator_span = operator_span(p.hops)
  BY DEF SelectedPath
<1>4. \A i \in DOMAIN R : R[i] \in RelayEntry /\ ~Malformed(R[i])
  BY SMT DEF WellFormed, Document
<1>5. /\ \A i \in 1..3 : R[t[i]].role = Roles[i]
      /\ \A i, j \in 1..3 : i # j =>
             /\ R[t[i]].id # R[t[j]].id /\ R[t[i]].host # R[t[j]].host
             /\ Place(R[t[i]].ip) # Place(R[t[j]].ip)
             /\ diverse => R[t[i]].operator # R[t[j]].operator
  BY DEF Allowed
<1> HIDE DEF p, R
<1>6. \A i \in 1..3 : p.hops[i] = R[t[i]]
  BY <1>2
<1>7. p.hops \in [1..3 -> RelayEntry]
  BY <1>2, <1>4
<1>8. PathGood(p)
  <2>1. \A i \in 1..3 : ~Malformed(p.hops[i]) /\ p.hops[i].role = Roles[i]
    BY <1>2, <1>4, <1>5, <1>6
  <2>2. \A i, j \in 1..3 : i # j =>
             /\ p.hops[i].id # p.hops[j].id /\ p.hops[i].host # p.hops[j].host
             /\ Place(p.hops[i].ip) # Place(p.hops[j].ip)
             /\ diverse => p.hops[i].operator # p.hops[j].operator
    BY SMTT(30), <1>5, <1>6
  <2>3. p.operator_span = Cardinality({p.hops[i].operator : i \in 1..3})
    BY <1>3, <1>7, SpanCounts
  <2> QED
    BY <1>7, <2>1, <2>2, <2>3 DEF PathGood
<1> QED
  BY <1>1, <1>8 DEF p

-----------------------------------------------------------------------------
\* Reducing an address twice is reducing it once.
LEMMA CanonicalTwice ==
  ASSUME NEW ip \in Literal
  PROVE  /\ canonical_ip(canonical_ip(ip)) = canonical_ip(ip)
         /\ \A r \in Reported(canonical_ip(ip)) : canonical_ip(r) = canonical_ip(ip)
<1>1. canonical_ip(ip) \in [fam : {"v4", "v6"}, net : Nat, host : Nat]
  BY SMT, CanonicalForm DEF Literal, IpText
<1> QED
  BY <1>1 DEF canonical_ip, Reported

\* An entry of a document and a well formed entry are at one address exactly
\* when their places and hosts agree.
LEMMA SameAddress ==
  ASSUME NEW e \in RelayEntry, ~Malformed(e), NEW f \in RelayEntry
  PROVE  /\ canonical_ip(e.ip) \in ip_addr(f) <=>
                Place(f.ip) = Place(e.ip) /\ f.ip.host = e.ip.host
         /\ [ip |-> canonical_ip(e.ip), port |-> e.port] \in addr(f) <=>
                /\ Place(f.ip) = Place(e.ip) /\ f.ip.host = e.ip.host
                /\ f.port = e.port
<1>1. e.ip \in Literal /\ e.port # 0
  BY EntryAddress
<1>2. f.ip \in IpText
  BY DEF RelayEntry
<1>3. CASE f.ip \in Literal
  <2>1. ip_addr(f) = {canonical_ip(f.ip)}
    BY <1>3 DEF ip_addr, Literal
  <2>2. canonical_ip(e.ip) = canonical_ip(f.ip) <=>
            Place(e.ip) = Place(f.ip) /\ e.ip.host = f.ip.host
    BY <1>1, <1>3, CanonicalIsSpot
  <2>3. addr(f) = IF f.port = 0 THEN {} ELSE {[ip |-> canonical_ip(f.ip), port |-> f.port]}
    BY <2>1 DEF addr
  <2>4. [ip |-> canonical_ip(e.ip), port |-> e.port] = [ip |-> canonical_ip(f.ip), port |-> f.port]
        <=> canonical_ip(e.ip) = canonical_ip(f.ip) /\ e.port = f.port
    BY SMT
  <2> QED
    BY <1>1, <2>1, <2>2, <2>3, <2>4
<1>4. CASE f.ip \notin Literal
  <2>1. ip_addr(f) = {} /\ addr(f) = {}
    BY <1>2, <1>4 DEF ip_addr, addr, Literal
  <2>2. Place(e.ip) # Place(f.ip)
    BY <1>1, <1>2, <1>4, PlaceOfLiteral
  <2> QED
    BY <2>1, <2>2
<1> QED
  BY <1>3, <1>4

\* A relay finds the next hop of a path exactly when its document lists it.
LEMMA ExtendsToListed ==
  ASSUME NEW doc \in Document, NEW i \in 1..2, NEW e \in RelayEntry, ~Malformed(e),
         e.role = Roles[i + 1], NEW next \in addr(e)
  PROVE  extend_target(doc, Roles[i], next) # {} <=> Lists(doc, e)
<1> DEFINE R == doc.relays
           to == [next EXCEPT !.ip = canonical_ip(@)]
           found == {j \in DOMAIN R :
                        R[j].role \in downstream_role(Roles[i]) /\ to \in addr(R[j])}
<1>1. next = [ip |-> canonical_ip(e.ip), port |-> e.port] /\ e.ip \in Literal
  BY EntryAddress
<1>2. to = next
  BY SMTT(30), <1>1, CanonicalTwice
<1>3. downstream_role(Roles[i]) = {Roles[i + 1]}
  BY SMT DEF downstream_role, Roles
<1>4. \A j \in DOMAIN R : R[j] \in RelayEntry
  BY SMT DEF Document
<1>5. \A j \in DOMAIN R : next \in addr(R[j]) <=>
          /\ Place(R[j].ip) = Place(e.ip) /\ R[j].ip.host = e.ip.host
          /\ R[j].port = e.port
  BY <1>1, <1>4, SameAddress
<1>6. extend_target(doc, Roles[i], next) # {} <=> found # {}
  BY DEF extend_target
<1> HIDE DEF to, R
<1>7. found # {} <=> \E j \in DOMAIN R :
          /\ R[j].role = e.role /\ Place(R[j].ip) = Place(e.ip)
          /\ R[j].ip.host = e.ip.host /\ R[j].port = e.port
  BY <1>2, <1>3, <1>5
<1> QED
  BY <1>6, <1>7 DEF Lists, SameRelay, R

\* A relay admits a listed caller however the listener spells its address.
LEMMA AdmitsListed ==
  ASSUME NEW doc \in Document, NEW i \in 1..2, NEW e \in RelayEntry, ~Malformed(e),
         e.role = Roles[i], Lists(doc, e),
         NEW from \in ip_addr(e), NEW peer \in Reported(from)
  PROVE  admits_inbound(doc, Roles[i + 1], peer)
<1>1. from = canonical_ip(e.ip) /\ e.ip \in Literal
  BY EntryAddress
<1>2. canonical_ip(peer) = canonical_ip(e.ip)
  BY <1>1, CanonicalTwice
<1>3. upstream_role(Roles[i + 1]) = {Roles[i]}
  BY SMT DEF upstream_role, Roles
<1>4. PICK j \in DOMAIN doc.relays : SameRelay(doc.relays[j], e)
  BY DEF Lists
<1>5. doc.relays[j] \in RelayEntry
  BY SMT DEF Document
<1>6. canonical_ip(e.ip) \in ip_addr(doc.relays[j]) /\ doc.relays[j].role = Roles[i]
  BY <1>4, <1>5, SameAddress DEF SameRelay
<1> QED
  BY <1>2, <1>3, <1>6 DEF admits_inbound

-----------------------------------------------------------------------------
\* Shapes: every index names a published document, and none is dated later
\* than the relays' clock.
DocumentsHeld ==
    /\ time \in Nat /\ drift \in Int /\ diverse \in BOOLEAN
    /\ pub \in Seq(Document) /\ Len(pub) >= 1
    /\ mine \in 1..Len(pub) /\ held \in [1..3 -> 1..Len(pub)]
    /\ \A v \in 1..Len(pub) : pub[v].after <= time

\* There is at most one path, it is good, and hops are reached on one only.
OnePath ==
    /\ hop \in 0..4 /\ dialled \in BOOLEAN
    /\ \A p, q \in path : p = q
    /\ \A p \in path : PathGood(p)
    /\ path = {} => hop = 0
    /\ dialled => hop \in 2..3

AdmissionInv == DocumentsHeld /\ OnePath

\* The documents the authority builds have the shape the lemmas speak of.
LEMMA Published ==
  ASSUME NEW after \in Nat, NEW relays \in Catalogue
  PROVE  [after |-> after, until |-> after + Window, relays |-> relays] \in Document
  BY SMT, AdmissionAssumption DEF Document

\* Dates are whole numbers.
LEMMA Dates ==
  ASSUME DocumentsHeld
  PROVE  \A v \in 1..Len(pub) : pub[v].after \in Int
<1>1. \A v \in 1..Len(pub) : pub[v] \in Document
  BY SMT DEF DocumentsHeld
<1> QED
  BY <1>1 DEF Document

\* Without a path nothing is dialled and no hop is being reached.
LEMMA NoPathShape ==
  ASSUME path = {}, hop = 0, dialled = FALSE
  PROVE  OnePath
<1>1. dialled \in BOOLEAN /\ ~dialled
  OBVIOUS
<1> QED
  BY SMT, <1>1 DEF OnePath

\* The same of the next state: without a path, no hop is dialled.
LEMMA NoPathShapeNext ==
  ASSUME path' = {}, hop' = 0, dialled' = FALSE
  PROVE  OnePath'
<1>1. dialled' \in BOOLEAN /\ ~dialled'
  OBVIOUS
<1> QED
  BY SMT, <1>1 DEF OnePath

\* The invariant holds of the first document and a client that has none yet.
LEMMA AdmissionInit == Init => AdmissionInv
<1> SUFFICES ASSUME Init PROVE AdmissionInv
  BY SMT
<1>1. PICK relays \in Catalogue : pub = <<[after |-> 0, until |-> Window, relays |-> relays]>>
  BY DEF Init
<1>2. [after |-> 0, until |-> Window, relays |-> relays] \in Document
  BY SMT, AdmissionAssumption DEF Document
<1>3. pub \in Seq(Document) /\ Len(pub) = 1 /\ pub[1].after = 0
  BY SMTT(30), <1>1, <1>2
<1>4. DocumentsHeld
  BY SMTT(30), <1>3, AdmissionAssumption DEF Init, DocumentsHeld, NoHolders
<1>5. OnePath
  BY NoPathShape DEF Init
<1> QED
  BY <1>4, <1>5 DEF AdmissionInv

\* The path is one of the good ones while its rules stay what they are.
LEMMA PathKept ==
  ASSUME OnePath, diverse' = diverse, path' = path,
         hop' \in 0..4, dialled' \in BOOLEAN, path = {} => hop' = 0,
         dialled' => hop' \in 2..3
  PROVE  OnePath'
  BY SMT DEF OnePath, PathGood

\* Ending a build leaves no path and any of the documents.
LEMMA EndsKeeps ==
  ASSUME AdmissionInv, NEW why, Ends(why), UNCHANGED <<time, drift, diverse, pub, mine>>
  PROVE  AdmissionInv'
<1>1. held' \in [1..3 -> 1..Len(pub)]
  BY SMT DEF AdmissionInv, DocumentsHeld, Ends, NoHolders
<1>2. DocumentsHeld'
  BY <1>1 DEF AdmissionInv, DocumentsHeld
<1>3. OnePath'
  BY NoPathShapeNext DEF Ends
<1> QED
  BY <1>2, <1>3 DEF AdmissionInv

\* The selection keeps the invariant.
LEMMA BuildKeeps ==
  ASSUME AdmissionInv, build_path
  PROVE  AdmissionInv'
<1> DEFINE doc == pub[mine]
           reason == NoPathReason(doc, diverse, time + drift)
<1>1. /\ path = {} /\ UNCHANGED <<time, drift, diverse, pub, mine, dialled>>
      /\ hop = 0 /\ ~dialled /\ doc \in Document
  BY SMTT(30) DEF build_path, AdmissionInv, OnePath, DocumentsHeld
<1>2. CASE reason # "none"
  <2>1. UNCHANGED <<path, hop, held>>
    BY <1>2 DEF build_path
  <2> QED
    BY <1>1, <2>1, PathKept DEF AdmissionInv, DocumentsHeld, OnePath
<1>3. CASE reason = "none"
  <2>1. PICK wanted \in Draws(doc, diverse) :
            /\ path' = select_with(doc, diverse, wanted)
            /\ hop' = 1 /\ held' \in [1..3 -> 1..Len(pub)]
    BY <1>3 DEF build_path
  <2>2. WellFormed(doc)
    BY <1>1, <1>3, ReasonFacts
  <2>3. PICK p : select_with(doc, diverse, wanted) = {p} /\ PathGood(p)
    BY <2>2, DrawIsGood
  <2>4. path' = {p} /\ PathGood(p)'
    BY <1>1, <2>1, <2>3 DEF PathGood
  <2>5. OnePath'
    <3>1. \A q \in path' : PathGood(q)'
      BY <2>4
    <3>2. hop' = 1 /\ ~dialled' /\ dialled' \in BOOLEAN
      BY <1>1, <2>1 DEF AdmissionInv, OnePath
    <3> QED
      BY SMT, <2>4, <3>1, <3>2 DEF OnePath
  <2> QED
    BY <1>1, <2>1, <2>5 DEF AdmissionInv, DocumentsHeld
<1> QED
  BY <1>2, <1>3

\* What the two answers of a hop leave alone.
LEMMA LinkShape ==
  ASSUME NEW i, open_next_link(i)
  PROVE  /\ path # {} /\ hop = i + 1
         /\ UNCHANGED <<time, drift, diverse, pub, mine>>
         /\ \/ dialled' = TRUE /\ UNCHANGED <<held, path, hop, outcome>>
            \/ Ends("PeerHostnameMissing")
  BY DEF open_next_link

\* What handle_relay_connection may do: admit the hop before it, or end.
LEMMA ConnectionShape ==
  ASSUME NEW i, handle_relay_connection(i)
  PROVE  /\ hop = i + 1 /\ dialled
         /\ UNCHANGED <<time, drift, diverse, pub, mine>>
         /\ \/ hop' = hop + 1 /\ dialled' = FALSE /\ UNCHANGED <<held, path, outcome>>
            \/ Ends("PeerNotAllowed")
  BY DEF handle_relay_connection

\* Every step keeps the invariant.
LEMMA AdmissionNext == AdmissionInv /\ [Next]_vars => AdmissionInv'
<1> SUFFICES ASSUME AdmissionInv, [Next]_vars PROVE AdmissionInv'
  BY SMT
<1> USE DEF AdmissionInv
<1>1. CASE Tick
  <2>1. \A v \in 1..Len(pub) : pub[v].after <= time + 1
    BY SMTT(30), Dates DEF DocumentsHeld
  <2> QED
    BY SMTT(30), <1>1, <2>1, PathKept DEF Tick, DocumentsHeld, OnePath
<1>2. CASE PublishDocument
  <2>1. PICK relays \in Catalogue :
            pub' = Append(pub, [after |-> time, until |-> time + Window, relays |-> relays])
    BY <1>2 DEF PublishDocument
  <2>2. [after |-> time, until |-> time + Window, relays |-> relays] \in Document
    BY Published DEF DocumentsHeld
  <2>3. /\ UNCHANGED <<time, drift, diverse, mine, held, path, hop, dialled>>
        /\ pub \in Seq(Document) /\ time \in Nat
    BY <1>2 DEF PublishDocument, DocumentsHeld
  <2>4. /\ pub' \in Seq(Document) /\ Len(pub') = Len(pub) + 1 /\ Len(pub) \in Nat
        /\ \A v \in 1..Len(pub) : pub'[v] = pub[v]
        /\ pub'[Len(pub) + 1].after = time
    BY SMTT(30), <2>1, <2>2, <2>3
  <2>5. DocumentsHeld'
    <3>1. mine' \in 1..Len(pub') /\ held' \in [1..3 -> 1..Len(pub')]
      BY SMT, <2>3, <2>4 DEF DocumentsHeld
    <3>2. \A v \in 1..Len(pub') : pub'[v].after <= time'
      <4>1. \A v \in 1..Len(pub) : pub'[v].after <= time
        BY <2>4 DEF DocumentsHeld
      <4>2. pub'[Len(pub) + 1].after <= time
        BY SMT, <2>3, <2>4
      <4>3. \A v \in 1..Len(pub') : v \in 1..Len(pub) \/ v = Len(pub) + 1
        BY SMT, <2>4
      <4> QED
        BY <2>3, <4>1, <4>2, <4>3
    <3> QED
      BY SMTT(30), <2>3, <2>4, <3>1, <3>2 DEF DocumentsHeld
  <2>6. OnePath'
    BY <2>3, PathKept DEF OnePath
  <2> QED
    BY <2>5, <2>6
<1>3. CASE ClientRefresh
  BY SMTT(30), <1>3, PathKept DEF ClientRefresh, DocumentsHeld, OnePath
<1>4. ASSUME NEW i \in 1..3, publish(i) PROVE AdmissionInv'
  <2>1. held' \in [1..3 -> 1..Len(pub)]
    BY SMTT(30), <1>4 DEF publish, DocumentsHeld
  <2> QED
    BY <1>4, <2>1, PathKept DEF publish, DocumentsHeld, OnePath
<1>5. CASE build_path
  BY <1>5, BuildKeeps
<1>6. CASE dial_guard
  BY SMT, <1>6, PathKept DEF dial_guard, DocumentsHeld, OnePath
<1>7. ASSUME NEW i \in 1..2, open_next_link(i) PROVE AdmissionInv'
  <2>1. UNCHANGED <<time, drift, diverse, pub, mine>>
    BY <1>7, LinkShape
  <2>2. \/ dialled' = TRUE /\ hop = i + 1 /\ path # {} /\ UNCHANGED <<held, path, hop>>
        \/ Ends("PeerHostnameMissing")
    BY <1>7, LinkShape
  <2>3. CASE dialled' = TRUE /\ hop = i + 1 /\ path # {} /\ UNCHANGED <<held, path, hop>>
    <3>1. hop' \in 0..4 /\ hop # 0 /\ dialled' \in BOOLEAN
      BY SMT, <2>3
    <3> QED
      BY SMTT(30), <2>1, <2>3, <3>1, PathKept DEF DocumentsHeld
  <2>4. CASE Ends("PeerHostnameMissing")
    BY <2>1, <2>4, EndsKeeps
  <2> QED
    BY <2>2, <2>3, <2>4
<1>8. ASSUME NEW i \in 1..2, handle_relay_connection(i) PROVE AdmissionInv'
  <2>1. UNCHANGED <<time, drift, diverse, pub, mine>>
    BY <1>8, ConnectionShape
  <2>2. \/ hop = i + 1 /\ hop' = hop + 1 /\ dialled' = FALSE /\ UNCHANGED <<held, path>>
        \/ Ends("PeerNotAllowed")
    BY <1>8, ConnectionShape
  <2>3. CASE hop = i + 1 /\ hop' = hop + 1 /\ dialled' = FALSE /\ UNCHANGED <<held, path>>
    <3>1. hop' \in 0..4 /\ hop # 0
      BY SMT, <2>3
    <3>2. path # {}
      BY <3>1 DEF OnePath
    <3>3. dialled' \in BOOLEAN /\ ~dialled'
      BY <2>3
    <3> QED
      BY <2>1, <2>3, <3>1, <3>2, <3>3, PathKept DEF DocumentsHeld
  <2>4. CASE Ends("PeerNotAllowed")
    BY <2>1, <2>4, EndsKeeps
  <2> QED
    BY <2>2, <2>3, <2>4
<1>9. CASE CircuitEnds
  BY <1>9, EndsKeeps DEF CircuitEnds
<1>10. CASE UNCHANGED vars
  BY <1>10, PathKept DEF vars, DocumentsHeld, OnePath
<1> QED
  BY <1>1, <1>2, <1>3, <1>4, <1>5, <1>6, <1>7, <1>8, <1>9, <1>10 DEF Next

\* Over any catalogue of relay lists, any window and any drift of the client's
\* clock, documents and path keep their shape.
THEOREM AdmissionInvariant == Spec => []AdmissionInv
  BY AdmissionInit, AdmissionNext, PTL DEF Spec

\* build_path never yields a path that breaks a rule of select_with, and the
\* operator_span it reports is the number of operators.
THEOREM PathsDiverse == Spec => []PathDiverse
<1>1. AdmissionInv => PathDiverse
  BY DEF AdmissionInv, OnePath, PathGood, PathDiverse
<1> QED
  BY <1>1, AdmissionInvariant, PTL

\* count_valid and the walk of select_with agree on every document of every
\* size: the unreachable! is never reached, and no allowed path is left out.
THEOREM DrawsUniform == Spec => []EveryDrawOnePath
<1>1. AdmissionInv => EveryDrawOnePath
  <2> SUFFICES ASSUME AdmissionInv PROVE EveryDrawOnePath
    BY SMT
  <2>1. pub[mine] \in Document
    BY SMT DEF AdmissionInv, DocumentsHeld
  <2> QED
    BY <2>1, EveryDraw
<1> QED
  BY <1>1, AdmissionInvariant, PTL

-----------------------------------------------------------------------------
\* The hops of the path in use.
LEMMA EntryGood ==
  ASSUME AdmissionInv, path # {}, NEW i \in 1..3
  PROVE  Entry(i) \in RelayEntry /\ ~Malformed(Entry(i)) /\ Entry(i).role = Roles[i]
<1>1. (CHOOSE p \in path : TRUE) \in path
  BY SMT
<1> QED
  BY <1>1 DEF AdmissionInv, OnePath, PathGood, Entry

\* A held document is usable until its window ends.
LEMMA HeldUsable ==
  ASSUME AdmissionInv, NEW i \in 1..3
  PROVE  /\ pub[held[i]] \in Document /\ held[i] \in DOMAIN pub
         /\ time < pub[held[i]].until => usable(pub[held[i]], time) = {pub[held[i]]}
         /\ usable(pub[held[i]], time) # {} => time < pub[held[i]].until
         /\ usable(pub[held[i]], time) \subseteq {pub[held[i]]}
<1>1. held[i] \in 1..Len(pub) /\ pub[held[i]] \in Document /\ held[i] \in DOMAIN pub
  BY SMTT(30) DEF AdmissionInv, DocumentsHeld
<1>2. pub[held[i]].after <= time /\ pub[held[i]].after \in Int /\ time \in Nat
  BY <1>1 DEF AdmissionInv, DocumentsHeld, Document
<1> QED
  BY SMTT(30), <1>1, <1>2, AdmissionAssumption DEF usable, is_usable_at

\* The answers of one hop's step.
LEMMA LinkAnswers ==
  ASSUME AdmissionInv, NEW i \in 1..2, open_next_link(i)
  PROVE  IF time < pub[held[i]].until /\ Lists(pub[held[i]], Entry(i + 1))
         THEN dialled' = TRUE /\ UNCHANGED path
         ELSE dialled' = FALSE
<1> DEFINE doc == pub[held[i]]
<1>0. path # {}
  BY LinkShape
<1>1. path # {} /\ i \in 1..3 /\ i + 1 \in 1..3
  BY SMT, <1>0
<1>2. PICK next \in addr(Entry(i + 1)) :
          IF \E d \in usable(doc, time) : extend_target(d, Roles[i], next) # {}
          THEN dialled' = TRUE /\ UNCHANGED <<held, path, hop, outcome>>
          ELSE Ends("PeerHostnameMissing")
  BY DEF open_next_link
<1>3. /\ Entry(i + 1) \in RelayEntry /\ ~Malformed(Entry(i + 1))
      /\ Entry(i + 1).role = Roles[i + 1] /\ doc \in Document
  BY <1>1, EntryGood, HeldUsable
<1>4. extend_target(doc, Roles[i], next) # {} <=> Lists(doc, Entry(i + 1))
  BY <1>3, ExtendsToListed
<1>5. (\E d \in usable(doc, time) : extend_target(d, Roles[i], next) # {})
        <=> time < doc.until /\ Lists(doc, Entry(i + 1))
  BY <1>1, <1>4, HeldUsable
<1> HIDE DEF doc
<1> QED
  BY <1>2, <1>5 DEF Ends, doc

\* A relay whose document is current and lists the hop before it lets that
\* hop in: the path is not given up.
LEMMA ConnectionAnswers ==
  ASSUME AdmissionInv, path # {}, NEW i \in 1..2, handle_relay_connection(i),
         time < pub[held[i + 1]].until, Lists(pub[held[i + 1]], Entry(i))
  PROVE  UNCHANGED path
<1> DEFINE doc == pub[held[i + 1]]
<1>1. i \in 1..3 /\ i + 1 \in 1..3
  BY SMT
<1>2. PICK from \in ip_addr(Entry(i)) : \E peer \in Reported(from) :
          IF \E d \in usable(doc, time) : admits_inbound(d, Roles[i + 1], peer)
          THEN hop' = hop + 1 /\ dialled' = FALSE /\ UNCHANGED <<held, path, outcome>>
          ELSE Ends("PeerNotAllowed")
  BY DEF handle_relay_connection
<1>3. Entry(i) \in RelayEntry /\ ~Malformed(Entry(i)) /\ Entry(i).role = Roles[i]
  BY <1>1, EntryGood
<1>4. usable(doc, time) = {doc} /\ doc \in Document
  BY <1>1, HeldUsable
<1>5. \A peer \in Reported(from) : admits_inbound(doc, Roles[i + 1], peer)
  BY <1>3, <1>4, AdmitsListed
<1> QED
  BY <1>2, <1>4, <1>5

\* A step that ends a build with a relay's refusal is that relay's answer.
LEMMA RefusalIsAnswer ==
  ASSUME AdmissionInv, [Next]_vars, path # {}, path' = {}, NEW i \in 1..2, hop = i + 1
  PROVE  /\ outcome' = "PeerHostnameMissing" => open_next_link(i)
         /\ outcome' = "PeerNotAllowed" => handle_relay_connection(i)
<1>1. CASE Tick \/ PublishDocument \/ ClientRefresh \/ build_path \/ dial_guard
           \/ (\E j \in 1..3 : publish(j)) \/ UNCHANGED vars
  BY <1>1 DEF Tick, PublishDocument, ClientRefresh, build_path, dial_guard, publish, vars
<1>2. ASSUME NEW j \in 1..2, open_next_link(j)
      PROVE  j = i /\ outcome' # "PeerNotAllowed"
  <2>1. hop = j + 1 /\ (path' = path \/ Ends("PeerHostnameMissing"))
    BY <1>2, LinkShape
  <2>2. outcome' = "PeerHostnameMissing"
    BY <2>1 DEF Ends
  <2> QED
    BY SMT, <2>1, <2>2
<1>3. ASSUME NEW j \in 1..2, handle_relay_connection(j)
      PROVE  j = i /\ outcome' # "PeerHostnameMissing"
  <2>1. hop = j + 1 /\ (path' = path \/ Ends("PeerNotAllowed"))
    BY <1>3, ConnectionShape
  <2>2. outcome' = "PeerNotAllowed"
    BY <2>1 DEF Ends
  <2> QED
    BY SMT, <2>1, <2>2
<1>4. CASE CircuitEnds
  BY <1>4 DEF CircuitEnds, Ends
<1> QED
  BY <1>1, <1>2, <1>3, <1>4 DEF Next

\* A valid document that lists the other end never ends a build, for any
\* spelling the client, the relay and the listener use.
THEOREM ListedAdmitted == Spec => ListedIsAdmitted
<1>1. AdmissionInv /\ [Next]_vars =>
        [\A i \in 1..2 : (path # {} /\ path' = {} /\ hop = i + 1) =>
           /\ outcome' = "PeerHostnameMissing" =>
                  ~(Lists(pub[held[i]], Entry(i + 1)) /\ time < pub[held[i]].until)
           /\ outcome' = "PeerNotAllowed" =>
                  ~(Lists(pub[held[i + 1]], Entry(i)) /\ time < pub[held[i + 1]].until)]_vars
  <2> SUFFICES ASSUME AdmissionInv, [Next]_vars, NEW i \in 1..2,
                      path # {}, path' = {}, hop = i + 1
               PROVE  /\ outcome' = "PeerHostnameMissing" =>
                             ~(Lists(pub[held[i]], Entry(i + 1)) /\ time < pub[held[i]].until)
                      /\ outcome' = "PeerNotAllowed" =>
                             ~(Lists(pub[held[i + 1]], Entry(i)) /\ time < pub[held[i + 1]].until)
    BY SMT
  <2>1. path' # path
    BY SMT
  <2> QED
    BY <2>1, RefusalIsAnswer, LinkAnswers, ConnectionAnswers
<1> QED
  BY <1>1, AdmissionInvariant, PTL DEF Spec, ListedIsAdmitted

\* A link to a middle or an exit is opened only on the word of a document
\* within its window.
THEOREM RetiredNotDialled == Spec => NoRetiredRelay
<1>1. AdmissionInv /\ [Next]_vars =>
        [\A i \in 1..2 : (hop = i + 1 /\ ~dialled /\ dialled') =>
           \E v \in DOMAIN pub :
               /\ Lists(pub[v], Entry(i + 1))
               /\ time < pub[v].until]_vars
  <2> SUFFICES ASSUME AdmissionInv, [Next]_vars, NEW i \in 1..2,
                      hop = i + 1, ~dialled, dialled'
               PROVE  \E v \in DOMAIN pub :
                          Lists(pub[v], Entry(i + 1)) /\ time < pub[v].until
    BY SMT
  <2>1. CASE Tick \/ PublishDocument \/ ClientRefresh \/ build_path \/ dial_guard
             \/ (\E j \in 1..3 : publish(j)) \/ UNCHANGED vars
    BY <2>1 DEF Tick, PublishDocument, ClientRefresh, build_path, dial_guard, publish, vars
  <2>2. ASSUME NEW j \in 1..2, open_next_link(j)
        PROVE  \E v \in DOMAIN pub :
                   Lists(pub[v], Entry(i + 1)) /\ time < pub[v].until
    <3>1. j = i
      BY SMTT(30), <2>2, LinkShape
    <3>2. time < pub[held[i]].until /\ Lists(pub[held[i]], Entry(i + 1))
      BY <2>2, <3>1, LinkAnswers
    <3>3. held[i] \in DOMAIN pub
      BY SMT, HeldUsable
    <3> QED
      BY <3>2, <3>3
  <2>3. ASSUME NEW j \in 1..2, handle_relay_connection(j) PROVE FALSE
    BY <2>3, ConnectionShape
  <2>4. CASE CircuitEnds
    BY <2>4 DEF CircuitEnds, Ends
  <2> QED
    BY <2>1, <2>2, <2>3, <2>4 DEF Next
<1> QED
  BY <1>1, AdmissionInvariant, PTL DEF Spec, NoRetiredRelay
=============================================================================
