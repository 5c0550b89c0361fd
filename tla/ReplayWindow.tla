---------------------------- MODULE ReplayWindow ----------------------------
(***************************************************************************)
(* The guard relay's admission of clients: every accepted connection reads *)
(* a token presentation, the token's RSA signature is checked without any  *)
(* lock, and only then is the token looked up and recorded in the replay   *)
(* window shared by all connections (relay/src/token.rs).                  *)
(*                                                                         *)
(* The connection tasks run concurrently.  The signature check of one task *)
(* interleaves with everything the others do; the section under the mutex  *)
(* of the window, which also reads the clock, is one step.  A restart of   *)
(* the relay drops every connection and the window with them.              *)
(***************************************************************************)
EXTENDS Integers, FiniteSets

CONSTANTS
    Conns,      \* connection tasks that may exist at the same time
    Tokens,     \* the token byte strings that are presented
    Signed,     \* those whose token^e mod n equals the hash of their m_raw
    Ttl,        \* ReplayWindow.ttl, in ticks of the clock
    MaxInstant, \* bound on the clock
    MaxRestarts \* bound on the restarts of the relay

ASSUME WindowAssumption ==
    /\ Signed \subseteq Tokens
    /\ Ttl \in Nat
    /\ MaxInstant \in Nat
    /\ MaxRestarts \in Nat

VARIABLES
    now,        \* Instant::now()
    seen,       \* ReplayWindow.inner: token -> the instant of its insertion
    conn,       \* the progress of each connection task
    presented,  \* the token a connection has presented
    admitted,   \* history: the last instant each token opened a circuit
    restarts    \* history: restarts so far

windowVars == <<now, seen, conn, presented, admitted, restarts>>

\* "none": no task; "reading": handle_connection or the presentation read;
\* "checking": verify before the signature check; "locking": verify at
\* window.inner.lock(); "circuit": drive_circuit.
ConnStates == {"none", "reading", "checking", "locking", "circuit"}

Never == -1

\* The window is a partial function from tokens to instants.  No entry and no
\* admission is dated in the future.
TypeOK ==
    /\ now \in Nat
    /\ DOMAIN seen \subseteq Tokens
    /\ seen \in [DOMAIN seen -> 0 .. now]
    /\ conn \in [Conns -> ConnStates]
    /\ presented \in [Conns -> Tokens]
    /\ admitted \in [Tokens -> 0 .. now \cup {Never}]
    /\ restarts \in Nat

Empty == [t \in {} |-> 0]

WindowInit ==
    /\ now = 0
    /\ seen = Empty
    /\ conn = [c \in Conns |-> "none"]
    /\ presented \in [Conns -> Tokens]
    /\ admitted = [t \in Tokens |-> Never]
    /\ restarts = 0
-----------------------------------------------------------------------------
To(c, from, to) ==
    /\ conn[c] = from
    /\ conn' = [conn EXCEPT ![c] = to]

\* A TCP connection is accepted, its TLS handshake succeeds and a task of its
\* own runs handle_connection.
accept_loop(c) ==
    /\ To(c, "none", "reading")
    /\ UNCHANGED <<now, seen, presented, admitted, restarts>>

\* The protocol byte or the presentation does not arrive in time, the stream
\* fails, or the byte is not PROTO_CLIENT: the connection is dropped.
handle_connection_error(c) ==
    /\ To(c, "reading", "none")
    /\ UNCHANGED <<now, seen, presented, admitted, restarts>>

\* The presentation is read: m_raw and a token t.
handle_client_connection(c, t) ==
    /\ To(c, "reading", "checking")
    /\ presented' = [presented EXCEPT ![c] = t]
    /\ UNCHANGED <<now, seen, admitted, restarts>>

SignatureHolds_Skipped(t) == t \in Tokens

\* The token is as long as the modulus, below it, and token^e mod n is the
\* hash of m_raw.
SignatureHolds(t) == t \in Signed

\* verify, first half: TokenTooShort and InvalidSignature end the connection
\* here, before the window's lock is taken.
verify_signature(c) ==
    /\ To(c, "checking", IF SignatureHolds(presented[c]) THEN "locking" ELSE "none")
    /\ UNCHANGED <<now, seen, presented, admitted, restarts>>

Unexpired_OffByOne(t) == now - seen[t] < Ttl - 1
Unexpired_Keeps(t) == TRUE
Unexpired_Inclusive(t) == now - seen[t] <= Ttl

\* The test of map.retain, with the clock read under the lock.
Unexpired(t) == now - seen[t] < Ttl

Retained == {t \in DOMAIN seen : Unexpired(t)}

\* verify, second half, under the lock: evict, refuse a token still in the
\* window, otherwise record it and go on to drive_circuit.
verify_replayed(c) ==
    /\ presented[c] \in Retained
    /\ To(c, "locking", "none")
    /\ seen' = [t \in Retained |-> seen[t]]
    /\ UNCHANGED <<now, presented, admitted, restarts>>

verify_insert(c) ==
    /\ presented[c] \notin Retained
    /\ To(c, "locking", "circuit")
    /\ seen' = [t \in Retained \cup {presented[c]} |->
                    IF t = presented[c] THEN now ELSE seen[t]]
    /\ admitted' = [admitted EXCEPT ![presented[c]] = now]
    /\ UNCHANGED <<now, presented, restarts>>

\* drive_circuit returns, for whatever reason; see OnionCircuit.
drive_circuit(c) ==
    /\ To(c, "circuit", "none")
    /\ UNCHANGED <<now, seen, presented, admitted, restarts>>

\* The relay process ends and a new one starts with ReplayWindow::new.
main ==
    /\ restarts < MaxRestarts
    /\ restarts' = restarts + 1
    /\ seen' = Empty
    /\ conn' = [c \in Conns |-> "none"]
    /\ admitted' = [t \in Tokens |-> Never]
    /\ UNCHANGED <<now, presented>>

Elapse ==
    /\ now < MaxInstant
    /\ now' = now + 1
    /\ UNCHANGED <<seen, conn, presented, admitted, restarts>>

WindowNext ==
    \/ \E c \in Conns :
          \/ accept_loop(c)
          \/ handle_connection_error(c)
          \/ \E t \in Tokens : handle_client_connection(c, t)
          \/ verify_signature(c)
          \/ verify_replayed(c)
          \/ verify_insert(c)
          \/ drive_circuit(c)
    \/ main
    \/ Elapse

WindowSpec == WindowInit /\ [][WindowNext]_windowVars
-----------------------------------------------------------------------------
\* Within one life of the relay, a token was last admitted less than Ttl ago.
Recent(t) == admitted[t] # Never /\ now - admitted[t] < Ttl

\* What verify's doc comment promises of a token "presented before within the
\* replay window's TTL": whichever tasks present it and however their checks
\* interleave, no step opens a second circuit for a token less than Ttl after
\* the previous one, as long as the relay has not restarted.
NoReplay ==
    [][\A c \in Conns :
          conn[c] = "locking" /\ conn'[c] = "circuit" => ~ Recent(presented[c])]_windowVars

\* "An invalid token must never block a future valid one", and neither must an
\* expired entry: a connection that got past the signature check is refused
\* only if its own token really was admitted less than Ttl ago (or the relay
\* restarted under it).
NoFalseReplay ==
    [][\A c \in Conns :
          conn[c] = "locking" /\ conn'[c] = "none" =>
              Recent(presented[c]) \/ restarts' # restarts]_windowVars

\* The size of the window follows the traffic of one Ttl and not the relay's
\* uptime: at all times the entries were all inserted within less than Ttl of
\* each other, and every entry is a token that carried a valid signature.
WindowBounded ==
    /\ DOMAIN seen \subseteq Signed
    /\ \A t, u \in DOMAIN seen : t # u => seen[u] - seen[t] < Ttl
=============================================================================
