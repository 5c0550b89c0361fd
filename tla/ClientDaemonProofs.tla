------------------------- MODULE ClientDaemonProofs -------------------------
(***************************************************************************)
(* For any number of requests and any keys: the token accounting of the    *)
(* authority, the end of issuance with the session, and the fetches a      *)
(* request can wait for.                                                   *)
(***************************************************************************)
EXTENDS ClientDaemon, FiniteSetTheorems, SequenceTheorems, TLAPS

\* Zenon proves what names no other prover.
USE ZenonT(60)

Procs == Reqs \cup {"refresh"}
Held == {"pubkey", "issuing", "path", "dialling", "handshake", "refused"}

DaemonType ==
    /\ queue \in Seq(Procs)
    /\ refresh \in {"off", "sleeping", "queued", "fetching"}
    /\ session \in {"none", "valid", "expired"}
    /\ req \in [Reqs -> {"idle", "queued"} \cup Held]
    /\ handler \in [Reqs -> {"none", "auth", "count", "record", "reply", "error"}]
    /\ waited \in [Reqs -> Nat]
    /\ late \in Nat
    /\ ahead \in [counter : Int, events : Int]

\* Whoever works with the client holds the mutex.
Mutex ==
    /\ \A i \in Reqs : req[i] \in Held => Holds(i)
    /\ refresh = "fetching" => Holds("refresh")

\* Once a token was delivered after the expiry, no awaited handler is past the
\* check of the session.
Expiry ==
    /\ late <= 1
    /\ late # 0 => /\ session # "valid"
                   /\ \A i \in Reqs : req[i] = "issuing" => handler[i] \in {"none", "auth", "error"}

\* Handlers between the UPDATE and the INSERT.
Recording == {i \in Reqs : handler[i] = "record"}

\* Every such handler is counted but not recorded, and an answered one is
\* recorded but not delivered.
Accounts ==
    /\ 0 <= ahead.events
    /\ Cardinality(Recording) + ahead.events <= ahead.counter
    /\ \A i \in Reqs : handler[i] = "reply" => req[i] = "issuing" /\ 1 <= ahead.events

\* A queue after Append and Tail, by its elements.
LEMMA QueueAppend ==
    ASSUME NEW S, NEW q \in Seq(S), NEW p \in S
    PROVE  /\ Append(q, p) \in Seq(S) /\ Append(q, p) # <<>>
           /\ Len(Append(q, p)) = Len(q) + 1 /\ Len(q) \in Nat
           /\ \A n \in 1..Len(q) : Append(q, p)[n] = q[n]
           /\ Append(q, p)[Len(q) + 1] = p
           /\ q # <<>> => Head(Append(q, p)) = Head(q)
BY SMT, AppendProperties, LenProperties, HeadTailAppend

\* The mutex queue without its holder.
LEMMA QueueTail ==
    ASSUME NEW S, NEW q \in Seq(S), q # <<>>
    PROVE  /\ Tail(q) \in Seq(S) /\ Len(Tail(q)) = Len(q) - 1 /\ Len(q) \in Nat \ {0}
           /\ \A n \in 1..Len(Tail(q)) : Tail(q)[n] = q[n + 1]
           /\ Head(q) = q[1] /\ Head(q) \in S
BY SMT, HeadTailProperties, EmptySeq

\* The steps of Next, one per operation.
Step ==
    \/ main_login /\ UNCHANGED <<authVars, guardKey>>
    \/ main_prime /\ UNCHANGED <<authVars, guardKey>>
    \/ SessionExpires /\ UNCHANGED <<authVars, guardKey>>
    \/ DocumentAges /\ UNCHANGED <<authVars, guardKey>>
    \/ refresh_tick /\ UNCHANGED <<authVars, guardKey>>
    \/ refresh_if_stale /\ UNCHANGED <<authVars, guardKey>>
    \/ refresh_returns /\ UNCHANGED <<authVars, guardKey>>
    \/ \E i \in Reqs : serve(i) /\ UNCHANGED <<authVars, guardKey>>
    \/ \E i \in Reqs : build_path(i) /\ UNCHANGED <<authVars, guardKey>>
    \/ \E i \in Reqs : dial(i) /\ UNCHANGED <<authVars, guardKey>>
    \/ Crash
    \/ \E i \in Reqs : issue_token(i)
    \/ \E i \in Reqs : fetch_pubkey(i)
    \/ \E i \in Reqs : issue(i)
    \/ \E i \in Reqs : TimedOut(i)
    \/ \E i \in Reqs : HandleIssue_sign(i) /\ UNCHANGED daemonVars
    \/ \E i \in Reqs : HandleIssue_count(i) /\ UNCHANGED daemonVars
    \/ \E i \in Reqs : HandleIssue_record(i) /\ UNCHANGED daemonVars
    \/ \E i \in Reqs : Cancelled(i) /\ UNCHANGED daemonVars
    \/ LoadOrGenerate /\ UNCHANGED daemonVars
    \/ UNCHANGED <<authVars, daemonVars>>

\* Every step is one of them.
LEMMA NextSteps == [Next]_vars => Step
BY DEF Next, Step, vars

\* Letting the mutex go leaves a queue of processes.
LEMMA Released ==
    ASSUME DaemonType, queue # <<>>, release
    PROVE  queue' \in Seq(Procs)
BY QueueTail DEF DaemonType, release

\* A request that works with the client can let the mutex go.
LEMMA DoneType ==
    ASSUME DaemonType, Mutex, NEW i \in Reqs, req[i] \in Held, done(i)
    PROVE  queue' \in Seq(Procs) /\ req' \in [Reqs -> {"idle", "queued"} \cup Held]
<1>1. queue # <<>>  BY DEF Mutex, Holds
<1>2. queue' \in Seq(Procs)  BY <1>1, Released DEF done
<1> QED  BY <1>2 DEF DaemonType, done, To

\* The types of the variables the theorems are about.
LEMMA TypeStep ==
    ASSUME DaemonType, Mutex, Step
    PROVE  DaemonType'
<1> USE DEF DaemonType, Procs, Held, authVars, daemonVars
<1>1. CASE main_login /\ UNCHANGED <<authVars, guardKey>>  BY <1>1 DEF main_login
<1>2. CASE main_prime /\ UNCHANGED <<authVars, guardKey>>  BY <1>2 DEF main_prime
<1>3. CASE SessionExpires /\ UNCHANGED <<authVars, guardKey>>  BY <1>3 DEF SessionExpires
<1>4. CASE DocumentAges /\ UNCHANGED <<authVars, guardKey>>  BY <1>4 DEF DocumentAges
<1>5. CASE refresh_tick /\ UNCHANGED <<authVars, guardKey>>
  BY <1>5, QueueAppend DEF refresh_tick, enqueue
<1>6. CASE refresh_if_stale /\ UNCHANGED <<authVars, guardKey>>
  <2>1. CASE registry = "fresh"
    BY <1>6, <2>1, Released DEF refresh_if_stale, Holds
  <2>2. CASE registry # "fresh"
    <3>1. waited' \in [Reqs -> Nat]
      BY SMTT(30), <1>6, <2>2 DEF refresh_if_stale
    <3> QED  BY <1>6, <2>2, <3>1 DEF refresh_if_stale
  <2> QED  BY <2>1, <2>2
<1>7. CASE refresh_returns /\ UNCHANGED <<authVars, guardKey>>
  BY <1>7, QueueTail DEF refresh_returns, release, Holds, Mutex
<1>8. ASSUME NEW i \in Reqs, serve(i) /\ UNCHANGED <<authVars, guardKey>> PROVE DaemonType'
  BY <1>8, QueueAppend DEF serve, enqueue, To
<1>9. ASSUME NEW i \in Reqs, build_path(i) /\ UNCHANGED <<authVars, guardKey>> PROVE DaemonType'
  <2>1. CASE To(i, "dialling") /\ UNCHANGED <<queue, token>>
    BY <1>9, <2>1 DEF build_path, To
  <2>2. CASE done(i)
    BY <1>9, <2>2, DoneType DEF build_path
  <2> QED  BY <1>9, <2>1, <2>2 DEF build_path
<1>10. ASSUME NEW i \in Reqs, dial(i) /\ UNCHANGED <<authVars, guardKey>> PROVE DaemonType'
  <2>1. CASE req[i] \in {"dialling", "handshake", "refused"} /\ done(i)
    BY <1>10, <2>1, DoneType DEF dial
  <2>2. CASE ~(req[i] \in {"dialling", "handshake", "refused"} /\ done(i))
    BY <1>10, <2>2 DEF dial, To
  <2> QED  BY <2>1, <2>2
<1>11. CASE Crash
  BY <1>11, EmptySeq DEF Crash, Abandon
<1>12. ASSUME NEW i \in Reqs, issue_token(i) PROVE DaemonType'
  BY <1>12 DEF issue_token, To
<1>13. ASSUME NEW i \in Reqs, fetch_pubkey(i) PROVE DaemonType'
  <2>1. CASE To(i, "queued") /\ UNCHANGED <<queue, token>>
    BY <1>13, <2>1 DEF fetch_pubkey, To
  <2>2. CASE done(i)
    BY <1>13, <2>2, DoneType DEF fetch_pubkey
  <2> QED  BY <1>13, <2>1, <2>2 DEF fetch_pubkey
<1>14. ASSUME NEW i \in Reqs, issue(i) PROVE DaemonType'
  <2>1. CASE issue_succeeds(i)
    BY SMTT(30), <1>14, <2>1 DEF issue, issue_succeeds, To
  <2>2. CASE done(i) /\ UNCHANGED <<late, ahead>>
    BY <1>14, <2>2, DoneType DEF issue
  <2> QED  BY <1>14, <2>1, <2>2 DEF issue
<1>15. ASSUME NEW i \in Reqs, TimedOut(i) PROVE DaemonType'
  BY <1>15, QueueTail DEF TimedOut, Timed, Abandon, done, To, release, Holds, Mutex
<1>16. ASSUME NEW i \in Reqs, HandleIssue_sign(i) /\ UNCHANGED daemonVars PROVE DaemonType'
  BY <1>16 DEF HandleIssue_sign, Answer
<1>17. ASSUME NEW i \in Reqs, HandleIssue_count(i) /\ UNCHANGED daemonVars PROVE DaemonType'
  <2>1. handler' \in [Reqs -> {"none", "auth", "count", "record", "reply", "error"}]
    BY <1>17 DEF HandleIssue_count, Answer
  <2>2. ahead' = ahead \/ ahead' = [ahead EXCEPT !.counter = @ + 1]
    BY <1>17 DEF HandleIssue_count
  <2>3. ahead' \in [counter : Int, events : Int]
    BY SMT, <2>2
  <2> QED  BY <1>17, <2>1, <2>3
<1>18. ASSUME NEW i \in Reqs, HandleIssue_record(i) /\ UNCHANGED daemonVars PROVE DaemonType'
  <2>1. handler' \in [Reqs -> {"none", "auth", "count", "record", "reply", "error"}]
    BY <1>18 DEF HandleIssue_record, Answer
  <2>2. ahead' = ahead \/ ahead' = [ahead EXCEPT !.events = @ + 1]
    BY <1>18 DEF HandleIssue_record
  <2>3. ahead' \in [counter : Int, events : Int]
    BY SMT, <2>2
  <2> QED  BY <1>18, <2>1, <2>3
<1>19. ASSUME NEW i \in Reqs, Cancelled(i) /\ UNCHANGED daemonVars PROVE DaemonType'
  BY <1>19 DEF Cancelled
<1>20. CASE LoadOrGenerate /\ UNCHANGED daemonVars  BY <1>20 DEF LoadOrGenerate
<1>21. CASE UNCHANGED <<authVars, daemonVars>>  BY <1>21
<1> QED
  BY <1>1, <1>2, <1>3, <1>4, <1>5, <1>6, <1>7, <1>8, <1>9, <1>10, <1>11, <1>12, <1>13, <1>14,
     <1>15, <1>16, <1>17, <1>18, <1>19, <1>20, <1>21, Zenon DEF Step

\* Letting the mutex go ends the work of the only process that had it.
LEMMA DoneMutex ==
    ASSUME DaemonType, Mutex, NEW i \in Reqs, req[i] \in Held, done(i), UNCHANGED refresh
    PROVE  Mutex'
<1>1. Holds(i)  BY DEF Mutex
<1>2. refresh # "fetching"  BY <1>1, DaemonAssumption DEF Mutex, Holds
<1>3. \A j \in Reqs : req'[j] \notin Held
  BY <1>1 DEF Mutex, Holds, DaemonType, done, To, Held
<1> QED  BY <1>2, <1>3 DEF Mutex

\* One process at a time works with the client.
LEMMA MutexStep ==
    ASSUME DaemonType, Mutex, Step
    PROVE  Mutex'
<1> USE DEF DaemonType, Mutex, Holds, Procs, authVars, daemonVars
<1>1. CASE main_login /\ UNCHANGED <<authVars, guardKey>>
  BY <1>1 DEF main_login
<1>2. CASE main_prime /\ UNCHANGED <<authVars, guardKey>>
  BY <1>2 DEF main_prime
<1>3. CASE SessionExpires /\ UNCHANGED <<authVars, guardKey>>
  BY <1>3 DEF SessionExpires
<1>4. CASE DocumentAges /\ UNCHANGED <<authVars, guardKey>>
  BY <1>4 DEF DocumentAges
<1>5. CASE refresh_tick /\ UNCHANGED <<authVars, guardKey>>
  BY SMT, <1>5, QueueAppend DEF refresh_tick, enqueue
<1>6. CASE refresh_if_stale /\ UNCHANGED <<authVars, guardKey>>
  <2>1. \A i \in Reqs : req[i] \notin Held  BY <1>6, DaemonAssumption DEF refresh_if_stale
  <2> QED  BY <1>6, <2>1 DEF refresh_if_stale
<1>7. CASE refresh_returns /\ UNCHANGED <<authVars, guardKey>>
  <2>1. \A i \in Reqs : req[i] \notin Held  BY <1>7, DaemonAssumption DEF refresh_returns
  <2> QED  BY <1>7, <2>1 DEF refresh_returns
<1>8. ASSUME NEW i \in Reqs, serve(i) /\ UNCHANGED <<authVars, guardKey>> PROVE Mutex'
  BY SMT, <1>8, QueueAppend DEF serve, enqueue, To, Held
<1>9. ASSUME NEW i \in Reqs, build_path(i) /\ UNCHANGED <<authVars, guardKey>> PROVE Mutex'
  <2>1. CASE done(i)  BY <1>9, <2>1, DoneMutex DEF build_path, Held
  <2>2. CASE ~done(i)  BY <1>9, <2>2 DEF build_path, To, Held
  <2> QED  BY <2>1, <2>2
<1>10. ASSUME NEW i \in Reqs, dial(i) /\ UNCHANGED <<authVars, guardKey>> PROVE Mutex'
  <2>1. CASE done(i)  BY <1>10, <2>1, DoneMutex DEF dial, Held
  <2>2. CASE ~done(i)  BY <1>10, <2>2 DEF dial, To, Held
  <2> QED  BY <2>1, <2>2
<1>11. CASE Crash
  BY <1>11 DEF Crash, Held
<1>12. ASSUME NEW i \in Reqs, issue_token(i) PROVE Mutex'
  BY <1>12 DEF issue_token, To
<1>13. ASSUME NEW i \in Reqs, fetch_pubkey(i) PROVE Mutex'
  <2>1. CASE done(i)  BY <1>13, <2>1, DoneMutex DEF fetch_pubkey, Held
  <2>2. CASE ~done(i)  BY <1>13, <2>2 DEF fetch_pubkey, To, Held
  <2> QED  BY <2>1, <2>2
<1>14. ASSUME NEW i \in Reqs, issue(i) PROVE Mutex'
  <2>1. CASE done(i)  BY <1>14, <2>1, DoneMutex DEF issue, Held
  <2>2. CASE ~done(i)  BY <1>14, <2>2 DEF issue, issue_succeeds, To, Held
  <2> QED  BY <2>1, <2>2
<1>15. ASSUME NEW i \in Reqs, TimedOut(i) PROVE Mutex'
  BY <1>15, DoneMutex DEF TimedOut, Timed, Held
<1>16. ASSUME NEW i \in Reqs, HandleIssue_sign(i) /\ UNCHANGED daemonVars PROVE Mutex'
  BY <1>16 DEF HandleIssue_sign
<1>17. ASSUME NEW i \in Reqs, HandleIssue_count(i) /\ UNCHANGED daemonVars PROVE Mutex'
  BY <1>17 DEF HandleIssue_count
<1>18. ASSUME NEW i \in Reqs, HandleIssue_record(i) /\ UNCHANGED daemonVars PROVE Mutex'
  BY <1>18 DEF HandleIssue_record
<1>19. ASSUME NEW i \in Reqs, Cancelled(i) /\ UNCHANGED daemonVars PROVE Mutex'
  BY <1>19 DEF Cancelled
<1>20. CASE LoadOrGenerate /\ UNCHANGED daemonVars
  BY <1>20 DEF LoadOrGenerate
<1>21. CASE UNCHANGED <<authVars, daemonVars>>
  BY <1>21
<1> QED
  BY <1>1, <1>2, <1>3, <1>4, <1>5, <1>6, <1>7, <1>8, <1>9, <1>10, <1>11, <1>12, <1>13, <1>14,
     <1>15, <1>16, <1>17, <1>18, <1>19, <1>20, <1>21, Zenon DEF Step

\* The one token on its way when the session expires is the last.
LEMMA ExpiryStep ==
    ASSUME DaemonType, Mutex, Expiry, Step
    PROVE  Expiry'
<1> USE DEF DaemonType, Expiry, authVars, daemonVars
<1>1. CASE main_login /\ UNCHANGED <<authVars, guardKey>>
  BY SMT, <1>1 DEF main_login
<1>2. CASE main_prime /\ UNCHANGED <<authVars, guardKey>>
  BY <1>2 DEF main_prime
<1>3. CASE SessionExpires /\ UNCHANGED <<authVars, guardKey>>
  BY <1>3 DEF SessionExpires
<1>4. CASE DocumentAges /\ UNCHANGED <<authVars, guardKey>>
  BY <1>4 DEF DocumentAges
<1>5. CASE refresh_tick /\ UNCHANGED <<authVars, guardKey>>
  BY <1>5 DEF refresh_tick
<1>6. CASE refresh_if_stale /\ UNCHANGED <<authVars, guardKey>>
  BY <1>6 DEF refresh_if_stale
<1>7. CASE refresh_returns /\ UNCHANGED <<authVars, guardKey>>
  BY <1>7 DEF refresh_returns
<1>8. ASSUME NEW i \in Reqs, serve(i) /\ UNCHANGED <<authVars, guardKey>> PROVE Expiry'
  BY <1>8 DEF serve, To
<1>9. ASSUME NEW i \in Reqs, build_path(i) /\ UNCHANGED <<authVars, guardKey>> PROVE Expiry'
  BY <1>9 DEF build_path, To, done
<1>10. ASSUME NEW i \in Reqs, dial(i) /\ UNCHANGED <<authVars, guardKey>> PROVE Expiry'
  BY <1>10 DEF dial, To, done
<1>11. CASE Crash
  BY SMT, <1>11 DEF Crash
<1>12. ASSUME NEW i \in Reqs, issue_token(i) PROVE Expiry'
  BY <1>12 DEF issue_token, To
<1>13. ASSUME NEW i \in Reqs, fetch_pubkey(i) PROVE Expiry'
  BY <1>13 DEF fetch_pubkey, To, done
<1>14. ASSUME NEW i \in Reqs, issue(i) PROVE Expiry'
  <2>1. CASE issue_succeeds(i)
    <3>1. late = 0  BY <1>14, <2>1 DEF issue, issue_succeeds
    <3>2. \A j \in Reqs : req'[j] # "issuing"
      BY SMTT(30), <1>14, <2>1 DEF issue, issue_succeeds, To, Mutex, Holds, Held
    <3> QED  BY SMTT(30), <1>14, <2>1, <3>1, <3>2 DEF issue, issue_succeeds
  <2>2. CASE done(i) /\ UNCHANGED <<late, ahead>>
    BY <1>14, <2>2 DEF issue, done, To
  <2> QED  BY <1>14, <2>1, <2>2 DEF issue
<1>15. ASSUME NEW i \in Reqs, TimedOut(i) PROVE Expiry'
  BY <1>15 DEF TimedOut, Timed, Abandon, done, To
<1>16. ASSUME NEW i \in Reqs, HandleIssue_sign(i) /\ UNCHANGED daemonVars PROVE Expiry'
  BY <1>16 DEF HandleIssue_sign, Answer, GetSession
<1>17. ASSUME NEW i \in Reqs, HandleIssue_count(i) /\ UNCHANGED daemonVars PROVE Expiry'
  BY <1>17 DEF HandleIssue_count, Answer
<1>18. ASSUME NEW i \in Reqs, HandleIssue_record(i) /\ UNCHANGED daemonVars PROVE Expiry'
  BY <1>18 DEF HandleIssue_record, Answer
<1>19. ASSUME NEW i \in Reqs, Cancelled(i) /\ UNCHANGED daemonVars PROVE Expiry'
  BY <1>19 DEF Cancelled
<1>20. CASE LoadOrGenerate /\ UNCHANGED daemonVars
  BY <1>20 DEF LoadOrGenerate
<1>21. CASE UNCHANGED <<authVars, daemonVars>>
  BY <1>21
<1> QED
  BY <1>1, <1>2, <1>3, <1>4, <1>5, <1>6, <1>7, <1>8, <1>9, <1>10, <1>11, <1>12, <1>13, <1>14,
     <1>15, <1>16, <1>17, <1>18, <1>19, <1>20, <1>21, Zenon DEF Step

\* Only finitely many handlers are between the two statements.
LEMMA RecordingFinite ==
    IsFiniteSet(Recording) /\ Cardinality(Recording) \in Nat
BY DaemonAssumption, FS_Subset, FS_CardinalityType DEF Recording

\* The accounts of the authority.
LEMMA AccountsStep ==
    ASSUME DaemonType, Mutex, Accounts, Step
    PROVE  Accounts'
<1> USE DEF DaemonType, Accounts, authVars, daemonVars
<1>1. CASE main_login /\ UNCHANGED <<authVars, guardKey>>
  BY <1>1 DEF main_login, Recording
<1>2. CASE main_prime /\ UNCHANGED <<authVars, guardKey>>
  BY <1>2 DEF main_prime, Recording
<1>3. CASE SessionExpires /\ UNCHANGED <<authVars, guardKey>>
  BY <1>3 DEF SessionExpires, Recording
<1>4. CASE DocumentAges /\ UNCHANGED <<authVars, guardKey>>
  BY <1>4 DEF DocumentAges, Recording
<1>5. CASE refresh_tick /\ UNCHANGED <<authVars, guardKey>>
  BY <1>5 DEF refresh_tick, Recording
<1>6. CASE refresh_if_stale /\ UNCHANGED <<authVars, guardKey>>
  BY <1>6 DEF refresh_if_stale, Recording
<1>7. CASE refresh_returns /\ UNCHANGED <<authVars, guardKey>>
  BY <1>7 DEF refresh_returns, Recording
<1>8. ASSUME NEW i \in Reqs, serve(i) /\ UNCHANGED <<authVars, guardKey>> PROVE Accounts'
  BY <1>8 DEF serve, To, Recording
<1>9. ASSUME NEW i \in Reqs, build_path(i) /\ UNCHANGED <<authVars, guardKey>> PROVE Accounts'
  BY <1>9 DEF build_path, To, done, Recording
<1>10. ASSUME NEW i \in Reqs, dial(i) /\ UNCHANGED <<authVars, guardKey>> PROVE Accounts'
  BY <1>10 DEF dial, To, done, Recording
<1>11. CASE Crash
  <2>1. Recording' = Recording  BY <1>11 DEF Recording, Crash, Abandon
  <2> QED  BY <1>11, <2>1 DEF Crash, Abandon
<1>12. ASSUME NEW i \in Reqs, issue_token(i) PROVE Accounts'
  <2>1. Recording' = Recording  BY <1>12 DEF Recording, issue_token
  <2> QED  BY <1>12, <2>1 DEF issue_token, To
<1>13. ASSUME NEW i \in Reqs, fetch_pubkey(i) PROVE Accounts'
  <2>1. Recording' = Recording  BY <1>13 DEF Recording, fetch_pubkey
  <2> QED  BY <1>13, <2>1 DEF fetch_pubkey, To, done
<1>14. ASSUME NEW i \in Reqs, issue(i) PROVE Accounts'
  <2>1. Recording' = Recording  BY <1>14 DEF Recording, issue
  <2>2. CASE issue_succeeds(i)
    <3>1. \A j \in Reqs : handler'[j] # "reply"
      BY <1>14, <2>2 DEF issue, issue_succeeds, Mutex, Holds, Held
    <3>2. ahead'.counter = ahead.counter - 1 /\ ahead'.events = ahead.events - 1
      BY <2>2 DEF issue_succeeds
    <3>3. 1 <= ahead.events  BY <1>14, <2>2 DEF issue_succeeds
    <3> QED  BY SMTT(30), <2>1, <3>1, <3>2, <3>3, RecordingFinite
  <2>3. CASE done(i) /\ UNCHANGED <<late, ahead>>
    BY <1>14, <2>1, <2>3 DEF issue, done, To
  <2> QED  BY <1>14, <2>2, <2>3 DEF issue
<1>15. ASSUME NEW i \in Reqs, TimedOut(i) PROVE Accounts'
  <2>1. Recording' = Recording  BY <1>15 DEF Recording, TimedOut, Abandon
  <2> QED  BY <1>15, <2>1 DEF TimedOut, Abandon, Timed, done, To
<1>16. ASSUME NEW i \in Reqs, HandleIssue_sign(i) /\ UNCHANGED daemonVars PROVE Accounts'
  <2>1. Recording' = Recording  BY <1>16 DEF Recording, HandleIssue_sign, Answer
  <2> QED  BY <1>16, <2>1 DEF HandleIssue_sign, Answer
<1>17. ASSUME NEW i \in Reqs, HandleIssue_count(i) /\ UNCHANGED daemonVars PROVE Accounts'
  <2>1. CASE Answer(i, "error") /\ UNCHANGED ahead
    <3>1. Recording' = Recording  BY <1>17, <2>1 DEF Recording, HandleIssue_count, Answer
    <3> QED  BY <1>17, <2>1, <3>1 DEF HandleIssue_count, Answer
  <2>2. CASE ahead' = [ahead EXCEPT !.counter = @ + 1] /\ handler' = [handler EXCEPT ![i] = "record"]
    <3>1. Recording' = Recording \cup {i} /\ i \notin Recording
      BY <1>17, <2>2 DEF Recording, HandleIssue_count
    <3>2. Cardinality(Recording') = Cardinality(Recording) + 1
      BY <3>1, RecordingFinite, FS_AddElement
    <3>3. ahead'.counter = ahead.counter + 1 /\ ahead'.events = ahead.events
      BY <2>2
    <3> QED  BY SMTT(30), <1>17, <2>2, <3>2, <3>3, RecordingFinite DEF HandleIssue_count
  <2>3. CASE ahead' = [ahead EXCEPT !.counter = @ + 1] /\ Answer(i, "error")
    <3>1. Recording' = Recording  BY <1>17, <2>3 DEF Recording, HandleIssue_count, Answer
    <3>2. ahead'.counter = ahead.counter + 1 /\ ahead'.events = ahead.events
      BY <2>3
    <3> QED  BY SMTT(30), <1>17, <2>3, <3>1, <3>2, RecordingFinite DEF HandleIssue_count, Answer
  <2> QED  BY <1>17, <2>1, <2>2, <2>3 DEF HandleIssue_count
<1>18. ASSUME NEW i \in Reqs, HandleIssue_record(i) /\ UNCHANGED daemonVars PROVE Accounts'
  <2>1. Recording' = Recording \ {i} /\ i \in Recording
    BY <1>18 DEF Recording, HandleIssue_record, Answer
  <2>2. Cardinality(Recording') = Cardinality(Recording) - 1
    BY <2>1, RecordingFinite, FS_RemoveElement
  <2>3. CASE Answer(i, "error") /\ UNCHANGED ahead
    BY SMTT(30), <1>18, <2>2, <2>3, RecordingFinite DEF Answer
  <2>4. CASE (Answer(i, "reply") \/ Answer(i, "error")) /\ ahead' = [ahead EXCEPT !.events = @ + 1]
    <3>1. ahead'.counter = ahead.counter /\ ahead'.events = ahead.events + 1
      BY <2>4
    <3> QED  BY SMTT(30), <1>18, <2>2, <2>4, <3>1, RecordingFinite DEF Answer
  <2> QED  BY <1>18, <2>3, <2>4 DEF HandleIssue_record
<1>19. ASSUME NEW i \in Reqs, Cancelled(i) /\ UNCHANGED daemonVars PROVE Accounts'
  <2>1. Recording' \subseteq Recording  BY <1>19 DEF Recording, Cancelled
  <2>2. Cardinality(Recording') <= Cardinality(Recording)  BY <2>1, RecordingFinite, FS_Subset
  <2>3. Cardinality(Recording') \in Nat
    BY <2>1, RecordingFinite, FS_Subset, FS_CardinalityType
  <2> QED  BY SMTT(30), <1>19, <2>2, <2>3, RecordingFinite DEF Cancelled
<1>20. CASE LoadOrGenerate /\ UNCHANGED daemonVars
  <2>1. Recording' \subseteq Recording  BY <1>20 DEF Recording, LoadOrGenerate
  <2>2. Cardinality(Recording') <= Cardinality(Recording)  BY <2>1, RecordingFinite, FS_Subset
  <2>3. Cardinality(Recording') \in Nat
    BY <2>1, RecordingFinite, FS_Subset, FS_CardinalityType
  <2> QED  BY SMTT(30), <1>20, <2>2, <2>3, RecordingFinite DEF LoadOrGenerate
<1>21. CASE UNCHANGED <<authVars, daemonVars>>
  BY <1>21 DEF Recording
<1> QED
  BY <1>1, <1>2, <1>3, <1>4, <1>5, <1>6, <1>7, <1>8, <1>9, <1>10, <1>11, <1>12, <1>13, <1>14,
     <1>15, <1>16, <1>17, <1>18, <1>19, <1>20, <1>21, Zenon DEF Step

\* A process that is in the queue, and one that is there behind the refresh.
InQ(q, x) == \E n \in 1..Len(q) : q[n] = x
Behind(q, x) == \E m, n \in 1..Len(q) : m < n /\ q[m] = "refresh" /\ q[n] = x
Distinct(q) == \A m, n \in 1..Len(q) : q[m] = q[n] => m = n

\* A newcomer is behind the refresh if that is in the queue.
LEMMA AppendFacts ==
    ASSUME NEW S, NEW q \in Seq(S), NEW p \in S, ~InQ(q, p), Distinct(q)
    PROVE  /\ Distinct(Append(q, p))
           /\ \A x : InQ(Append(q, p), x) <=> InQ(q, x) \/ x = p
           /\ \A x : Behind(Append(q, p), x) =>
                        Behind(q, x) \/ (x = p /\ InQ(q, "refresh"))
           /\ \A x : Behind(q, x) => InQ(q, "refresh")
<1> DEFINE a == Append(q, p)
<1>1. /\ Len(a) = Len(q) + 1 /\ Len(q) \in Nat /\ a[Len(q) + 1] = p
      /\ \A n \in 1..Len(q) : a[n] = q[n]
  BY SMT, QueueAppend
<1> HIDE DEF a
<1>2. Distinct(a)  BY SMT, <1>1 DEF Distinct, InQ
<1>3. \A x : InQ(a, x) <=> InQ(q, x) \/ x = p  BY SMT, <1>1 DEF InQ
<1>4. \A x : Behind(a, x) => Behind(q, x) \/ (x = p /\ InQ(q, "refresh"))
  BY SMT, <1>1 DEF Behind, InQ
<1>5. \A x : Behind(q, x) => InQ(q, "refresh")  BY DEF Behind, InQ
<1> QED  BY <1>2, <1>3, <1>4, <1>5 DEF a

\* Letting the mutex go takes its holder out of the queue.
LEMMA TailFacts ==
    ASSUME NEW S, NEW q \in Seq(S), q # <<>>, Distinct(q)
    PROVE  /\ Distinct(Tail(q))
           /\ \A x : InQ(Tail(q), x) <=> InQ(q, x) /\ x # Head(q)
           /\ \A x : Behind(Tail(q), x) => Behind(q, x)
<1> DEFINE t == Tail(q)
<1>1. /\ Len(t) = Len(q) - 1 /\ Len(q) \in Nat \ {0} /\ Head(q) = q[1]
      /\ \A n \in 1..Len(t) : t[n] = q[n + 1]
  BY QueueTail
<1> HIDE DEF t
<1>2. Distinct(t)  BY SMTT(30), <1>1 DEF Distinct
<1>3. ASSUME NEW x PROVE InQ(t, x) <=> InQ(q, x) /\ x # Head(q)
  <2>1. ASSUME InQ(t, x) PROVE InQ(q, x) /\ x # Head(q)
    <3>1. PICK n \in 1..Len(t) : t[n] = x  BY <2>1 DEF InQ
    <3>2. n + 1 \in 1..Len(q) /\ q[n + 1] = x /\ 1 \in 1..Len(q) /\ n + 1 # 1  BY SMT, <1>1, <3>1
    <3> QED  BY <1>1, <3>2 DEF InQ, Distinct
  <2>2. ASSUME InQ(q, x), x # Head(q) PROVE InQ(t, x)
    <3>1. PICK n \in 1..Len(q) : q[n] = x  BY <2>2 DEF InQ
    <3>2. n - 1 \in 1..Len(t) /\ (n - 1) + 1 = n  BY SMT, <1>1, <2>2, <3>1
    <3>3. t[n - 1] = x  BY <1>1, <3>1, <3>2
    <3> QED  BY <3>2, <3>3 DEF InQ
  <2> QED  BY <2>1, <2>2
<1>4. ASSUME NEW x, Behind(t, x) PROVE Behind(q, x)
  <2>1. PICK m, n \in 1..Len(t) : m < n /\ t[m] = "refresh" /\ t[n] = x  BY <1>4 DEF Behind
  <2>2. m + 1 \in 1..Len(q) /\ n + 1 \in 1..Len(q) /\ m + 1 < n + 1  BY SMT, <1>1, <2>1
  <2>3. q[m + 1] = "refresh" /\ q[n + 1] = x  BY <1>1, <2>1
  <2> QED  BY <2>2, <2>3 DEF Behind
<1> QED  BY <1>2, <1>3, <1>4 DEF t

\* While the refresh holds the mutex everyone else is behind it.
LEMMA HeadFacts ==
    ASSUME NEW S, NEW q \in Seq(S), q # <<>>, Head(q) = "refresh", NEW x, InQ(q, x), x # "refresh"
    PROVE  Behind(q, x)
<1>1. q[1] = "refresh" /\ Len(q) \in Nat \ {0}  BY QueueTail
<1>2. PICK n \in 1..Len(q) : q[n] = x  BY DEF InQ
<1>3. 1 \in 1..Len(q) /\ 1 < n  BY SMT, <1>1, <1>2
<1> QED  BY <1>1, <1>2, <1>3 DEF Behind

\* Nobody holds, or waits for, a mutex whose queue is empty.
LEMMA EmptyFacts ==
    Distinct(<<>>) /\ \A x : ~InQ(<<>>, x) /\ ~Behind(<<>>, x)
BY SMT DEF Distinct, InQ, Behind

\* The queue holds just the requests that are not idle, each once; when the
\* refresh is queued, those behind it have waited for no fetch.
Waiting ==
    /\ Distinct(queue)
    /\ \A i \in Reqs : InQ(queue, i) <=> req[i] # "idle"
    /\ InQ(queue, "refresh") => refresh \in {"queued", "fetching"}
    /\ daemon # "serving" => refresh = "off"
    /\ \A i \in Reqs : waited[i] <= 1
    /\ refresh = "queued" => \A i \in Reqs : Behind(queue, i) => waited[i] = 0

\* A request that is done leaves the queue.
LEMMA DoneWaiting ==
    ASSUME DaemonType, Mutex, Waiting, NEW i \in Reqs, req[i] \in Held, done(i),
           UNCHANGED <<refresh, daemon, waited>>
    PROVE  Waiting'
<1>1. queue # <<>> /\ Head(queue) = i  BY DEF Mutex, Holds
<1>2. /\ Distinct(queue') /\ \A x : InQ(queue', x) <=> InQ(queue, x) /\ x # i
      /\ \A x : Behind(queue', x) => Behind(queue, x)
  BY <1>1, TailFacts DEF done, release, DaemonType, Waiting
<1>3. \A j \in Reqs : req'[j] = IF j = i THEN "idle" ELSE req[j]
  BY DEF done, To, DaemonType
<1> QED  BY <1>2, <1>3 DEF Waiting

\* A fetch starts only behind requests that have waited for none.
LEMMA WaitingStep ==
    ASSUME DaemonType, Mutex, Waiting, Step
    PROVE  Waiting'
<1> USE DEF DaemonType, Waiting, Procs, authVars, daemonVars
<1>1. CASE main_login /\ UNCHANGED <<authVars, guardKey>>
  BY <1>1 DEF main_login
<1>2. CASE main_prime /\ UNCHANGED <<authVars, guardKey>>
  BY <1>2 DEF main_prime
<1>3. CASE SessionExpires /\ UNCHANGED <<authVars, guardKey>>
  BY <1>3 DEF SessionExpires
<1>4. CASE DocumentAges /\ UNCHANGED <<authVars, guardKey>>
  BY <1>4 DEF DocumentAges
<1>5. CASE refresh_tick /\ UNCHANGED <<authVars, guardKey>>
  <2>1. ~InQ(queue, "refresh")  BY <1>5 DEF refresh_tick
  <2>2. /\ Distinct(queue') /\ \A x : InQ(queue', x) <=> InQ(queue, x) \/ x = "refresh"
        /\ \A x : ~Behind(queue', x)
    BY SMTT(30), <1>5, <2>1, AppendFacts DEF refresh_tick, enqueue
  <2> QED  BY <1>5, <2>2, DaemonAssumption DEF refresh_tick
<1>6. CASE refresh_if_stale /\ UNCHANGED <<authVars, guardKey>>
  <2>1. CASE registry = "fresh"
    <3>1. Distinct(queue') /\ \A x : InQ(queue', x) <=> InQ(queue, x) /\ x # "refresh"
      <4>1. queue # <<>> /\ Head(queue) = "refresh" /\ queue' = Tail(queue)
        BY <1>6, <2>1 DEF refresh_if_stale, release, Holds
      <4> QED  BY <4>1, TailFacts
    <3> QED  BY <1>6, <2>1, <3>1, DaemonAssumption DEF refresh_if_stale
  <2>2. CASE registry # "fresh"
    <3>1. \A i \in Reqs : req[i] = "queued" => waited[i] = 0
      BY <1>6, HeadFacts, DaemonAssumption DEF refresh_if_stale, Holds
    <3>2. \A i \in Reqs : waited'[i] = IF req[i] = "queued" THEN waited[i] + 1 ELSE waited[i]
      BY <1>6, <2>2 DEF refresh_if_stale
    <3>3. \A i \in Reqs : waited'[i] <= 1  BY SMTT(60), <3>1, <3>2
    <3> QED  BY <1>6, <2>2, <3>3 DEF refresh_if_stale
  <2> QED  BY <2>1, <2>2
<1>7. CASE refresh_returns /\ UNCHANGED <<authVars, guardKey>>
  BY SMTT(60), <1>7, TailFacts, DaemonAssumption DEF refresh_returns, release, Mutex, Holds
<1>8. ASSUME NEW i \in Reqs, serve(i) /\ UNCHANGED <<authVars, guardKey>> PROVE Waiting'
  BY SMTT(60), <1>8, AppendFacts, DaemonAssumption DEF serve, enqueue, To
<1>9. ASSUME NEW i \in Reqs, build_path(i) /\ UNCHANGED <<authVars, guardKey>> PROVE Waiting'
  <2>1. CASE done(i)  BY <1>9, <2>1, DoneWaiting DEF build_path, Held
  <2>2. CASE ~done(i)  BY <1>9, <2>2 DEF build_path, To
  <2> QED  BY <2>1, <2>2
<1>10. ASSUME NEW i \in Reqs, dial(i) /\ UNCHANGED <<authVars, guardKey>> PROVE Waiting'
  <2>1. CASE done(i)  BY <1>10, <2>1, DoneWaiting DEF dial, Held
  <2>2. CASE ~done(i)  BY <1>10, <2>2 DEF dial, To
  <2> QED  BY <2>1, <2>2
<1>11. CASE Crash
  BY SMT, <1>11, EmptyFacts DEF Crash
<1>12. ASSUME NEW i \in Reqs, issue_token(i) PROVE Waiting'
  <2>1. \A j \in Reqs : waited'[j] = IF j = i THEN 0 ELSE waited[j]
    BY <1>12 DEF issue_token
  <2>2. \A j \in Reqs : req'[j] # "idle" <=> req[j] # "idle"
    BY <1>12 DEF issue_token, To
  <2>3. UNCHANGED <<queue, refresh, daemon>>  BY <1>12 DEF issue_token
  <2> QED  BY SMTT(30), <2>1, <2>2, <2>3
<1>13. ASSUME NEW i \in Reqs, fetch_pubkey(i) PROVE Waiting'
  <2>1. CASE done(i)  BY <1>13, <2>1, DoneWaiting DEF fetch_pubkey, Held
  <2>2. CASE ~done(i)  BY <1>13, <2>2 DEF fetch_pubkey, To
  <2> QED  BY <2>1, <2>2
<1>14. ASSUME NEW i \in Reqs, issue(i) PROVE Waiting'
  <2>1. CASE done(i)  BY <1>14, <2>1, DoneWaiting DEF issue, Held
  <2>2. CASE ~done(i)  BY <1>14, <2>2 DEF issue, issue_succeeds, To
  <2> QED  BY <2>1, <2>2
<1>15. ASSUME NEW i \in Reqs, TimedOut(i) PROVE Waiting'
  BY <1>15, DoneWaiting DEF TimedOut, Timed, Held
<1>16. ASSUME NEW i \in Reqs, HandleIssue_sign(i) /\ UNCHANGED daemonVars PROVE Waiting'
  BY <1>16 DEF HandleIssue_sign
<1>17. ASSUME NEW i \in Reqs, HandleIssue_count(i) /\ UNCHANGED daemonVars PROVE Waiting'
  BY <1>17 DEF HandleIssue_count
<1>18. ASSUME NEW i \in Reqs, HandleIssue_record(i) /\ UNCHANGED daemonVars PROVE Waiting'
  BY <1>18 DEF HandleIssue_record
<1>19. ASSUME NEW i \in Reqs, Cancelled(i) /\ UNCHANGED daemonVars PROVE Waiting'
  BY <1>19 DEF Cancelled
<1>20. CASE LoadOrGenerate /\ UNCHANGED daemonVars
  BY <1>20 DEF LoadOrGenerate
<1>21. CASE UNCHANGED <<authVars, daemonVars>>
  BY <1>21
<1> QED
  BY <1>1, <1>2, <1>3, <1>4, <1>5, <1>6, <1>7, <1>8, <1>9, <1>10, <1>11, <1>12, <1>13, <1>14,
     <1>15, <1>16, <1>17, <1>18, <1>19, <1>20, <1>21, Zenon DEF Step

\* The inductive invariant.
Inv == DaemonType /\ Mutex /\ Expiry /\ Accounts /\ Waiting

\* The invariant holds at the start and is kept.
LEMMA InvHolds == Spec => []Inv
<1>1. Init => Inv
  <2>1. Init => Recording = {}  BY DEF Init, Recording
  <2>2. Cardinality({}) = 0  BY FS_EmptySet
  <2>3. Init => DaemonType  BY SMT, EmptySeq DEF Init, DaemonType, Procs, Held
  <2>4. Init => Mutex /\ Expiry  BY SMT DEF Init, Mutex, Expiry, Held
  <2>5. ASSUME Init PROVE Accounts
    <3>1. ahead.counter = 0 /\ ahead.events = 0 /\ Cardinality(Recording) = 0
      BY <2>1, <2>2, <2>5 DEF Init
    <3>2. \A i \in Reqs : handler[i] # "reply"  BY <2>5 DEF Init
    <3> QED  BY SMT, <3>1, <3>2 DEF Accounts
  <2>6. Init => Waiting  BY SMT, EmptyFacts DEF Init, Waiting
  <2> QED  BY <2>3, <2>4, <2>5, <2>6 DEF Inv
<1>2. Inv /\ [Next]_vars => Inv'
  BY NextSteps, TypeStep, MutexStep, ExpiryStep, AccountsStep, WaitingStep DEF Inv
<1> QED  BY <1>1, <1>2, PTL DEF Spec

\* For any number of requests, each token the daemon gets was counted and
\* recorded before, whatever statement fails or is cancelled.
THEOREM TokensAccounted == Spec => []CountedBeforeDelivered
<1>1. Inv => CountedBeforeDelivered
  BY SMTT(30), RecordingFinite DEF Inv, Accounts, DaemonType, CountedBeforeDelivered
<1> QED  BY <1>1, InvHolds, PTL

\* For any number of requests, at most one token arrives after the session of
\* the daemon's only login has expired.
THEOREM OneLateToken == Spec => []ExpiryEndsIssuance
<1>1. Inv => ExpiryEndsIssuance  BY DEF Inv, Expiry, ExpiryEndsIssuance
<1> QED  BY <1>1, InvHolds, PTL

\* For any number of requests, each waits for at most one registry fetch
\* before it gets the client.
THEOREM OneFetchWait == Spec => []WaitsOneFetch
<1>1. Inv => WaitsOneFetch  BY DEF Inv, Waiting, WaitsOneFetch
<1> QED  BY <1>1, InvHolds, PTL

=============================================================================
