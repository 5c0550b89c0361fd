---------------------------- MODULE ClientDaemon ----------------------------
(***************************************************************************)
(* The SOCKS5 daemon of a user, the authority that issues its tokens and   *)
(* the guard that takes them.  Every SOCKS5 request of the daemon, and its *)
(* registry refresh task, use one client behind one mutex.  A request gets *)
(* a token from the authority, chooses a path and dials while it holds the *)
(* mutex; the token is a blind RSA signature, computed here with small     *)
(* moduli.                                                                 *)
(*                                                                         *)
(* The authority signs with the key of its file; the daemon keeps the      *)
(* public key it fetched first, the guard the one it pinned when it        *)
(* started.  Path choice and the circuit are modelled elsewhere; here a    *)
(* path may or may not be found and a dial returns, fails or hangs.        *)
(***************************************************************************)
EXTENDS Integers, Sequences, FiniteSets

CONSTANTS
    Reqs,      \* SOCKS5 connections served at the same time
    Keys,      \* the authority's RSA keys, in the order they are used
    Digests,   \* SHA-256 values of the messages the daemon draws
    Draws,     \* factors the random generator is followed for
    Radix,     \* the base of a wire byte
    MaxLost    \* bound on counted tokens that were never delivered

\* Digests are smaller than every modulus, as 256 bits are than 2048, and all
\* moduli have the same size.
ASSUME DaemonAssumption ==
    /\ IsFiniteSet(Reqs) /\ "refresh" \notin Reqs
    /\ Radix \in Nat \ {0, 1} /\ MaxLost \in Nat
    /\ \A k \in DOMAIN Keys : \A m \in Digests : 0 < m /\ m < Keys[k].n

VARIABLES
    daemon,     \* where main is
    session,    \* the login session of the daemon: none, valid, expired
    pubkey,     \* the public key it fetched, 0 for none
    registry,   \* its registry document: none, fresh, past its fresh window
    queue,      \* the mutex: the holder, then those that wait, in order
    refresh,    \* the refresh task: sleeping, queued, fetching
    req,        \* where each SOCKS5 request is
    token,      \* its message digest, factor and token
    handler,    \* where the authority's HandleIssue is with each request
    value,      \* what it was sent, then what it signed
    signer,     \* the authority's key
    guardKey,   \* the key the guard pinned
    waited,     \* history: fetches a request waited for in the queue
    late,       \* history: tokens delivered since the session expired
    ahead       \* history: the counter and the events, less the tokens delivered

authVars == <<handler, value, signer, ahead>>
daemonVars == <<daemon, session, pubkey, registry, queue, refresh, req, token, waited, late>>
vars == <<authVars, daemonVars, guardKey>>

(***************************************************************************)
(* Blind RSA.                                                              *)
(***************************************************************************)
modpow(b, e, n) ==
    LET power[k \in 0..e] == IF k = 0 THEN 1 % n ELSE (power[k - 1] * b) % n
    IN  power[e]

Inverses(r, n) == {i \in 1..(n - 1) : (r * i) % n = 1}

\* The factors the loop of blind may end with.
Blinders ==
    [k \in DOMAIN Keys |-> {r \in 2..(Keys[k].n - 1) : Inverses(r, Keys[k].n) \notin {{}, {1}}}]

\* The request of message digest m with factor r.
blind(k, m, r) == (m * modpow(r, Keys[k].e, Keys[k].n)) % Keys[k].n

\* Signer.Sign, which takes 1 to n - 1 only.
Signable(k, b) == 0 < b /\ b < Keys[k].n
Sign(k, b) == modpow(b, Keys[k].d, Keys[k].n)

\* The token, or nothing, from a signature of the request of m and r.
unblind_and_verify(k, m, r, s) ==
    {t \in {(s * i) % Keys[k].n : i \in Inverses(r, Keys[k].n)} :
        s < Keys[k].n /\ modpow(t, Keys[k].e, Keys[k].n) = m}

\* Wire bytes, most significant first; modulus_bytes is the modulus' size.
Value(w) ==
    LET prefix[i \in 0..Len(w)] == IF i = 0 THEN 0 ELSE prefix[i - 1] * Radix + w[i]
    IN  prefix[Len(w)]
to_bytes_be(v) ==
    LET size == CHOOSE l \in 1..(v + 1) : v < Radix ^ l /\ (l = 1 \/ Radix ^ (l - 1) <= v)
    IN  [i \in 1..size |-> (v \div Radix ^ (size - i)) % Radix]
modulus_bytes(k) == Len(to_bytes_be(Keys[k].n))

\* Mutant: the leading zero bytes are left out.
token_to_wire_Unpadded(t, size) == to_bytes_be(t)

token_to_wire(t, size) ==
    LET raw == to_bytes_be(t)
    IN  IF Len(raw) >= size THEN raw
        ELSE [i \in 1..(size - Len(raw)) |-> 0] \o raw

\* The guard's check of a token for digest m, without its replay window.
verify(k, m, w) ==
    /\ Len(w) >= modulus_bytes(k)
    /\ Value(w) < Keys[k].n
    /\ modpow(Value(w), Keys[k].e, Keys[k].n) = m

(***************************************************************************)
(* The mutex.                                                              *)
(***************************************************************************)
NoToken == [m |-> 0, r |-> 0, wire |-> <<>>]
Holds(p) == queue # <<>> /\ Head(queue) = p
release == queue' = Tail(queue)

\* Mutant: the newcomer goes before those that wait.
enqueue_Barging(p) ==
    queue' = IF queue = <<>> THEN <<p>> ELSE <<Head(queue), p>> \o Tail(queue)

\* tokio's Mutex serves in the order of the lock calls.
enqueue(p) == queue' = Append(queue, p)

Init ==
    /\ daemon = "down" /\ session = "none" /\ pubkey = 0 /\ registry = "none"
    /\ queue = <<>> /\ refresh = "off"
    /\ req = [i \in Reqs |-> "idle"] /\ token = [i \in Reqs |-> NoToken]
    /\ handler = [i \in Reqs |-> "none"] /\ value = [i \in Reqs |-> 0]
    /\ signer = 1 /\ guardKey = 1
    /\ waited = [i \in Reqs |-> 0] /\ late = 0
    /\ ahead = [counter |-> 0, events |-> 0]

(***************************************************************************)
(* main: login, prime, then serve; a failure on the way is an exit.        *)
(***************************************************************************)
main_login ==
    /\ daemon = "down" /\ daemon' = "prime" /\ session' = "valid" /\ late' = 0
    /\ UNCHANGED <<pubkey, registry, queue, refresh, req, token, waited>>

\* prime, the spawn of the refresh task and the bind.
main_prime ==
    /\ daemon = "prime" /\ UNCHANGED <<pubkey, queue, req, token, waited, late>>
    /\ \/ /\ daemon' = "serving" /\ registry' \in {"fresh", "stale"}
          /\ refresh' = "sleeping" /\ UNCHANGED session
       \/ /\ daemon' = "down" /\ session' = "none" /\ UNCHANGED <<registry, refresh>>

\* Handlers whose client has gone; nobody sees the values they sign.
Abandon(gone) ==
    /\ handler' = [i \in Reqs |-> IF i \in gone /\ handler[i] \in {"reply", "error"} THEN "none"
                                  ELSE handler[i]]
    /\ value' = [i \in Reqs |-> IF i \notin gone THEN value[i]
                                ELSE IF handler'[i] = "none" THEN 0 ELSE 1]

Crash ==
    /\ daemon = "serving"
    /\ daemon' = "down" /\ session' = "none" /\ pubkey' = 0 /\ registry' = "none"
    /\ queue' = <<>> /\ refresh' = "off" /\ late' = 0
    /\ req' = [i \in Reqs |-> "idle"] /\ token' = [i \in Reqs |-> NoToken]
    /\ waited' = [i \in Reqs |-> 0]
    /\ Abandon(Reqs) /\ UNCHANGED ahead

\* The eight hours of the session are over.
SessionExpires ==
    /\ session = "valid" /\ session' = "expired"
    /\ UNCHANGED <<daemon, pubkey, registry, queue, refresh, req, token, waited, late>>

\* fresh_until passes.
DocumentAges ==
    /\ registry = "fresh" /\ registry' = "stale"
    /\ UNCHANGED <<daemon, session, pubkey, queue, refresh, req, token, waited, late>>

(***************************************************************************)
(* The refresh task: it holds the mutex for the whole of its fetch.        *)
(***************************************************************************)
refresh_tick ==
    /\ refresh = "sleeping" /\ refresh' = "queued" /\ enqueue("refresh")
    /\ UNCHANGED <<daemon, session, pubkey, registry, req, token, waited, late>>

refresh_if_stale ==
    /\ Holds("refresh") /\ refresh = "queued"
    /\ IF registry = "fresh"
       THEN refresh' = "sleeping" /\ release /\ UNCHANGED waited
       ELSE /\ refresh' = "fetching" /\ UNCHANGED queue
            /\ waited' = [i \in Reqs |-> IF req[i] = "queued" THEN waited[i] + 1
                                         ELSE waited[i]]
    /\ UNCHANGED <<daemon, session, pubkey, registry, req, token, late>>

\* The fetch, which has no timeout, gives a usable document or fails.
refresh_returns ==
    /\ refresh = "fetching" /\ refresh' = "sleeping" /\ release
    /\ registry' \in {registry, "fresh", "stale"}
    /\ UNCHANGED <<daemon, session, pubkey, req, token, waited, late>>

(***************************************************************************)
(* A SOCKS5 request.                                                       *)
(***************************************************************************)
To(i, at) == req' = [req EXCEPT ![i] = at]
Forget(i) == token' = [token EXCEPT ![i] = NoToken]

\* The request is done with the client; on an error the answer is
\* REP_GENERAL_FAILURE.
done(i) == To(i, "idle") /\ Forget(i) /\ release

\* The greeting and the request are read, then the client is asked for.  A
\* connection that does not send a CONNECT with a usable address ends before
\* that and leaves no trace.
serve(i) ==
    /\ daemon = "serving" /\ req[i] = "idle" /\ To(i, "queued") /\ enqueue(i)
    /\ waited' = [waited EXCEPT ![i] = IF refresh = "fetching" THEN 1 ELSE 0]
    /\ UNCHANGED <<daemon, session, pubkey, registry, refresh, token, late>>

\* issue_token fetches the public key once and keeps it; then the message and
\* the factor are drawn and the blinded message is sent.
issue_token(i) ==
    /\ Holds(i) /\ req[i] = "queued"
    /\ waited' = [waited EXCEPT ![i] = 0]
    /\ UNCHANGED <<daemon, session, pubkey, registry, queue, refresh, late, ahead>>
    /\ \/ pubkey = 0 /\ To(i, "pubkey") /\ UNCHANGED <<token, handler, value>>
       \/ /\ pubkey # 0 /\ handler[i] = "none"
          /\ To(i, "issuing") /\ handler' = [handler EXCEPT ![i] = "auth"]
          /\ \E m \in Digests, r \in Blinders[pubkey] \cap Draws :
                /\ token' = [token EXCEPT ![i] = [NoToken EXCEPT !.m = m, !.r = r]]
                /\ value' = [value EXCEPT ![i] = blind(pubkey, m, r)]

fetch_pubkey(i) ==
    /\ req[i] = "pubkey"
    /\ \/ pubkey' = signer /\ To(i, "queued") /\ UNCHANGED <<queue, token>>
       \/ done(i) /\ UNCHANGED pubkey
    /\ UNCHANGED <<daemon, session, registry, refresh, waited, late, handler, value, ahead>>

Unblinded(i) == unblind_and_verify(pubkey, token[i].m, token[i].r, value[i])

\* The token is unblinded and verified.
issue_succeeds(i) ==
    /\ handler[i] = "reply"
    /\ \E t \in Unblinded(i) :
          token' = [token EXCEPT ![i] = [m |-> token[i].m, r |-> 0,
                                         wire |-> token_to_wire(t, modulus_bytes(pubkey))]]
    /\ To(i, "path") /\ UNCHANGED queue
    /\ late' = IF session = "expired" THEN late + 1 ELSE late
    /\ ahead' = [counter |-> ahead.counter - 1, events |-> ahead.events - 1]

\* The response of the authority.
issue(i) ==
    /\ req[i] = "issuing" /\ handler[i] \in {"reply", "error"}
    /\ handler' = [handler EXCEPT ![i] = "none"] /\ value' = [value EXCEPT ![i] = 0]
    /\ \/ issue_succeeds(i)
       \/ /\ handler[i] = "error" \/ Unblinded(i) = {}
          /\ done(i) /\ UNCHANGED <<late, ahead>>
    /\ UNCHANGED <<daemon, session, pubkey, registry, refresh, waited>>

\* Mutant: only the fetch of the public key has a timeout.
Timed_PubkeyOnly == {"pubkey"}

\* The client's timeout covers both requests to the authority.
Timed == {"pubkey", "issuing"}

TimedOut(i) ==
    /\ req[i] \in Timed /\ done(i) /\ Abandon({i})
    /\ UNCHANGED <<daemon, session, pubkey, registry, refresh, waited, late, ahead>>

\* build_path comes after the token: no path, or an expired document, and the
\* token is lost.
build_path(i) ==
    /\ req[i] = "path"
    /\ \/ To(i, "dialling") /\ UNCHANGED <<queue, token>>
       \/ done(i)
    /\ UNCHANGED <<daemon, session, pubkey, registry, refresh, waited, late>>

\* dial presents the token to the guard, then builds the circuit, which goes
\* on without the client; it may fail, and as it has no timeout it may hang.
dial(i) ==
    /\ \/ /\ req[i] = "dialling" /\ Forget(i) /\ UNCHANGED queue
          /\ To(i, IF verify(guardKey, token[i].m, token[i].wire) THEN "handshake" ELSE "refused")
       \/ req[i] \in {"dialling", "handshake", "refused"} /\ done(i)
    /\ UNCHANGED <<daemon, session, pubkey, registry, refresh, waited, late>>

(***************************************************************************)
(* The authority.                                                          *)
(***************************************************************************)
\* The response, which nobody waits for if the client has gone.
Answer(i, at) ==
    IF req[i] = "issuing" THEN handler' = [handler EXCEPT ![i] = at] /\ UNCHANGED value
    ELSE handler' = [handler EXCEPT ![i] = "none"] /\ value' = [value EXCEPT ![i] = 0]

\* Mutant: the session is found whether or not it has expired.
GetSession_Any(i) == session \in {"valid", "expired"} \/ req[i] # "issuing"

\* A request that was abandoned may belong to an earlier session.
GetSession(i) == session = "valid" \/ req[i] # "issuing"

\* Authenticate finds the session, the handler looks up the subscription and
\* signs the value; without a session or an active subscription, or when a
\* query fails, it does not.
HandleIssue_sign(i) ==
    /\ handler[i] = "auth" /\ UNCHANGED <<signer, ahead>>
    /\ \/ /\ GetSession(i) /\ Signable(signer, value[i])
          /\ handler' = [handler EXCEPT ![i] = "count"]
          /\ value' = [value EXCEPT ![i] = Sign(signer, value[i])]
       \/ Answer(i, "error")

\* The UPDATE.  One that reports an error may have been committed.
HandleIssue_count(i) ==
    /\ handler[i] = "count" /\ UNCHANGED signer
    /\ \/ /\ ahead.counter < MaxLost /\ ahead' = [ahead EXCEPT !.counter = @ + 1]
          /\ \/ handler' = [handler EXCEPT ![i] = "record"] /\ UNCHANGED value
             \/ Answer(i, "error")
       \/ Answer(i, "error") /\ UNCHANGED ahead

\* Mutant: a failed INSERT is logged and the signature is sent.
HandleIssue_record_Ignored(i) ==
    /\ handler[i] = "record" /\ UNCHANGED signer
    /\ Answer(i, "reply")
    /\ ahead' = [ahead EXCEPT !.events = @ + 1] \/ UNCHANGED ahead

\* The INSERT, likewise.
HandleIssue_record(i) ==
    /\ handler[i] = "record" /\ UNCHANGED signer
    /\ \/ /\ Answer(i, "reply") \/ Answer(i, "error")
          /\ ahead' = [ahead EXCEPT !.events = @ + 1]
       \/ Answer(i, "error") /\ UNCHANGED ahead

\* The client has gone, so the request's context is cancelled.
Cancelled(i) ==
    /\ handler[i] # "none" /\ req[i] # "issuing"
    /\ handler' = [handler EXCEPT ![i] = "none"] /\ value' = [value EXCEPT ![i] = 0]
    /\ UNCHANGED <<signer, ahead>>

\* The authority starts again, perhaps without its key file: LoadOrGenerate
\* then makes a new key.
LoadOrGenerate ==
    /\ signer' \in {signer, signer + 1} \cap DOMAIN Keys
    /\ handler' = [i \in Reqs |-> IF req[i] # "issuing" THEN "none"
                                  ELSE IF handler[i] = "reply" THEN "reply" ELSE "error"]
    /\ value' = [i \in Reqs |-> IF handler'[i] = "reply" THEN value[i] ELSE 0]
    /\ UNCHANGED ahead

\* The guard starts again and pins the authority's key.
fetch_and_pin == guardKey' = signer

Next ==
    \/ /\ UNCHANGED <<authVars, guardKey>>
       /\ \/ main_login \/ main_prime \/ SessionExpires \/ DocumentAges
          \/ refresh_tick \/ refresh_if_stale \/ refresh_returns
          \/ \E i \in Reqs : serve(i) \/ build_path(i) \/ dial(i)
    \/ /\ UNCHANGED <<signer, guardKey>>
       /\ \/ Crash
          \/ \E i \in Reqs : issue_token(i) \/ fetch_pubkey(i) \/ issue(i) \/ TimedOut(i)
    \/ /\ UNCHANGED <<daemonVars, guardKey>>
       /\ \/ \E i \in Reqs : \/ HandleIssue_sign(i) \/ HandleIssue_count(i)
                             \/ HandleIssue_record(i) \/ Cancelled(i)
          \/ LoadOrGenerate
    \/ fetch_and_pin /\ UNCHANGED <<authVars, daemonVars>>

\* The holder of the mutex runs, except that nothing makes a fetch or a dial
\* return; both requests to the authority time out; a cancelled handler ends.
Fairness ==
    /\ WF_vars(/\ UNCHANGED <<authVars, guardKey>>
               /\ refresh_if_stale \/ \E i \in Reqs : build_path(i))
    /\ WF_vars(/\ UNCHANGED <<signer, guardKey>>
               /\ \E i \in Reqs : issue_token(i) \/ TimedOut(i))
    /\ WF_vars((\E i \in Reqs : Cancelled(i)) /\ UNCHANGED <<daemonVars, guardKey>>)

Spec == Init /\ [][Next]_vars /\ Fairness
(***************************************************************************)
(* Properties.                                                             *)
(***************************************************************************)

\* The guard refuses a token of the daemon only if the authority's key was
\* changed and the two hold different ones: unblinding, padding and the two
\* verifications agree on every token.
RefusedOnlyByRotation ==
    [][\A i \in Reqs : req[i] = "dialling" /\ req'[i] = "refused"
            => pubkey # guardKey]_vars

\* Every token the daemon gets was counted and recorded before, and the
\* counter never falls behind the events, whatever statement fails, times out
\* or is cancelled.
CountedBeforeDelivered == 0 <= ahead.events /\ ahead.events <= ahead.counter

\* After its session has expired the daemon, which logs in only once, gets at
\* most the one token that was already being issued.
ExpiryEndsIssuance == late <= 1

\* A request waits for at most one registry fetch before it gets the client,
\* however many others there are.
WaitsOneFetch == \A i \in Reqs : waited[i] <= 1

\* A hang is a fetch or a dial that does not return.
Hanging == refresh = "fetching" \/ \E i \in Reqs : req[i] \in {"dialling", "handshake", "refused"}

\* Every request that asked for a circuit is answered, however slow the
\* authority is and however many requests follow, unless a fetch or a dial
\* hangs.
Answered ==
    []<>~Hanging => \A i \in Reqs : req[i] = "queued" ~> req[i] = "idle"

\* What the daemon's comment on the refresh task says: no circuit build waits
\* on a fetch.
NoBuildWaitsOnFetch == \A i \in Reqs : waited[i] = 0
=============================================================================
