--------------------------- MODULE DocumentProofs ---------------------------
(***************************************************************************)
(* Proofs about the registry document: how the authority's instances       *)
(* publish one per hour (Publisher), and what a verifier makes of one      *)
(* (RegistryDocument).                                                     *)
(***************************************************************************)
EXTENDS Publisher, RegistryDocument, FiniteSetTheorems, TLAPS

\* Zenon proves what names no other prover.
USE ZenonT(60)

(***************************************************************************)
(* Publisher, for any number of authority instances, requests and relays,  *)
(* any clocks and any pattern of database outages.                         *)
(***************************************************************************)

\* An hour has at most one row.
OneRow == \A d, e \in rows : d.ver = e.ver => d = e

\* Documents on their way to a client are rows; a document still to be inserted
\* need not be.
DocsStored ==
    \A r \in Reqs : req[r] \in {"remember", "answered"} => doc[r] \in rows \cup {NoDoc}

CopiesStored == \A i \in Instances : last[i] \in rows \cup {NoDoc}

IInv == TypeOK /\ OneRow /\ DocsStored /\ CopiesStored
-----------------------------------------------------------------------------
\* Document values: the absent one, and the one a request builds.
LEMMA DocTypes ==
  /\ NoDoc \in Docs
  /\ \A v \in Nat, b \in SUBSET Relays : [ver |-> v, body |-> b] \in Docs
  BY DEF NoDoc, Docs

\* Instances pass a natural number as the time, so the hour is one too.
LEMMA ClockTypes ==
  ASSUME TypeOK
  PROVE  /\ \A i \in Instances : Clock(i) \in 0 .. now + 1
         /\ \A r \in Reqs : Version(r) \in Nat
<1>1. \A i \in Instances : Clock(i) \in 0 .. now + 1
  BY SMT DEF TypeOK, Clock
<1>2. ASSUME NEW r \in Reqs PROVE Version(r) \in Nat
  <2>1. start[r] \in Nat
    BY SMT DEF TypeOK
  <2> QED BY SMT, <2>1, PublisherAssumption DEF Version, HourOf
<1> QED BY <1>1, <1>2

\* The initial states satisfy the invariant.
LEMMA InvInit == Init => IInv
  BY SMT, PublisherAssumption, DocTypes
  DEF Init, IInv, TypeOK, OneRow, DocsStored, CopiesStored, Unassigned,
      ReqStates, Version

\* What a step of one request must establish for its own document; the other
\* requests, whose documents stay where they are, keep the invariant.
LEMMA StepKeeps ==
  ASSUME IInv, NEW r \in Reqs, NEW from, NEW to \in ReqStates, NEW d \in Docs,
         Step(r, from, to, d),
         to = "insert" => d.ver = Version(r),
         to \in {"idle", "load", "build", "reload"} => d = NoDoc,
         to \in {"remember", "answered"} => d \in rows' \cup {NoDoc},
         rows \subseteq rows', rows' \subseteq Docs, OneRow',
         last' \in [Instances -> Docs],
         CopiesStored',
         active' \subseteq Relays,
         UNCHANGED <<now, up, outages>>,
         inst' \in [Reqs -> Instances], start' \in [Reqs -> 0 .. now + 1],
         \A q \in Reqs : q # r \/ to = "insert" => start'[q] = start[q]
  PROVE  IInv'
<1>1. /\ req' = [req EXCEPT ![r] = to]
      /\ doc' = [doc EXCEPT ![r] = d]
  BY DEF Step
<1>2. /\ req' \in [Reqs -> ReqStates] /\ doc' \in [Reqs -> Docs]
      /\ req'[r] = to /\ doc'[r] = d
      /\ \A q \in Reqs : q # r => req'[q] = req[q] /\ doc'[q] = doc[q]
  BY <1>1 DEF IInv, TypeOK
<1>3. ASSUME NEW q \in Reqs
      PROVE  /\ req'[q] = "insert" => doc'[q].ver = Version(q)'
             /\ req'[q] \in {"idle", "load", "build", "reload"} => doc'[q] = NoDoc
             /\ req'[q] \in {"remember", "answered"} => doc'[q] \in rows' \cup {NoDoc}
  <2>1. CASE q = r
    BY <1>2, <2>1 DEF Version
  <2>2. CASE q # r
    BY <1>2, <2>2 DEF IInv, TypeOK, DocsStored, Version
  <2> QED BY <2>1, <2>2
<1>4. TypeOK'
  BY <1>2, <1>3 DEF IInv, TypeOK
<1>5. DocsStored'
  BY <1>3 DEF DocsStored
<1> QED BY <1>4, <1>5 DEF IInv

\* The document an error exit answers with is the instance's copy or none.
LEMMA CachedStored ==
  ASSUME IInv, NEW r \in Reqs
  PROVE  cached(r) \in rows \cup {NoDoc} /\ cached(r) \in Docs
  BY DocTypes DEF IInv, TypeOK, CopiesStored, cached

\* Steps of a request that change neither the rows nor the copies.
LEMMA ReadingStep ==
  ASSUME IInv, NEW r \in Reqs, NEW from, NEW to \in ReqStates, NEW d \in Docs,
         Step(r, from, to, d),
         to = "insert" => d.ver = Version(r),
         to \in {"idle", "load", "build", "reload"} => d = NoDoc,
         to \in {"remember", "answered"} => d \in rows \cup {NoDoc},
         UNCHANGED <<start, reqVars, envVars>>
  PROVE  IInv'
<1>1. /\ UNCHANGED <<rows, last, now, active, up, outages, inst, start>>
      /\ OneRow' /\ CopiesStored'
  BY DEF reqVars, envVars, IInv, OneRow, CopiesStored
<1>2. /\ last' \in [Instances -> Docs]
      /\ rows' \subseteq Docs /\ active' \subseteq Relays
      /\ inst' \in [Reqs -> Instances] /\ start' \in [Reqs -> 0 .. now + 1]
  BY <1>1 DEF IInv, TypeOK
<1> QED BY <1>1, <1>2, StepKeeps

\* Every step of Current keeps the invariant.
LEMMA ServeKeeps ==
  ASSUME IInv, NEW r \in Reqs, Serve(r)
  PROVE  IInv'
<1> USE DocTypes DEF ReqStates
<1>1. CASE load_row(r)
  <2>1. PICK d \in Stored(r) : Step(r, "load", "remember", d)
    BY <1>1 DEF load_row
  <2>2. d \in rows /\ d \in Docs
    BY DEF Stored, IInv, TypeOK
  <2> QED BY <1>1, <2>1, <2>2, ReadingStep DEF load_row
<1>2. CASE load_no_rows(r)
  BY <1>2, ReadingStep DEF load_no_rows
<1>3. CASE load_error(r)
  BY <1>3, ReadingStep, CachedStored DEF load_error, Fallback
<1>4. CASE publish_build(r)
  <2>1. [ver |-> Version(r), body |-> active] \in Docs
    BY ClockTypes DEF IInv, TypeOK
  <2> QED BY <1>4, <2>1, ReadingStep DEF publish_build
<1>5. CASE publish_build_error(r)
  BY <1>5, ReadingStep, CachedStored DEF publish_build_error, Fallback
<1>6. CASE publish_insert(r)
  <2>1. /\ req[r] = "insert" /\ doc[r] \in Docs /\ doc[r].ver = Version(r)
        /\ rows' = rows \cup {doc[r]}
        /\ \A e \in rows : e.ver # doc[r].ver
    BY <1>6 DEF publish_insert, Step, Conflict, Stored, IInv, TypeOK
  <2>2. /\ OneRow' /\ rows' \subseteq Docs
    BY <2>1 DEF IInv, TypeOK, OneRow
  <2>3. /\ UNCHANGED <<last, now, active, up, outages, inst, start>>
        /\ CopiesStored'
    BY <1>6, <2>1 DEF publish_insert, envVars, IInv, CopiesStored
  <2>4. /\ last' \in [Instances -> Docs]
        /\ active' \subseteq Relays
        /\ inst' \in [Reqs -> Instances] /\ start' \in [Reqs -> 0 .. now + 1]
    BY <2>3 DEF IInv, TypeOK
  <2> QED BY <1>6, <2>1, <2>2, <2>3, <2>4, StepKeeps DEF publish_insert
<1>7. CASE publish_lost(r)
  BY <1>7, ReadingStep DEF publish_lost
<1>8. CASE publish_insert_error(r)
  <2>1. /\ req[r] = "insert" /\ doc[r] \in Docs /\ doc[r].ver = Version(r)
        /\ rows' = rows \/ (rows' = rows \cup {doc[r]} /\ \A e \in rows : e.ver # doc[r].ver)
    BY <1>8 DEF publish_insert_error, Fallback, Step, Conflict, Stored, IInv, TypeOK
  <2>2. /\ OneRow' /\ rows' \subseteq Docs /\ rows \subseteq rows'
    BY <2>1 DEF IInv, TypeOK, OneRow
  <2>3. /\ UNCHANGED <<last, now, active, up, outages, inst, start>>
        /\ CopiesStored'
    BY <1>8, <2>2 DEF publish_insert_error, Fallback, envVars, IInv, CopiesStored
  <2>4. /\ last' \in [Instances -> Docs]
        /\ active' \subseteq Relays
        /\ inst' \in [Reqs -> Instances] /\ start' \in [Reqs -> 0 .. now + 1]
    BY <2>3 DEF IInv, TypeOK
  <2>5. /\ cached(r) \in rows' \cup {NoDoc} /\ cached(r) \in Docs
        /\ Step(r, "insert", "answered", cached(r))
    BY <1>8, <2>2, CachedStored DEF publish_insert_error, Fallback
  <2> QED BY <2>2, <2>3, <2>4, <2>5, StepKeeps
<1>9. CASE reload_row(r)
  <2>1. PICK d \in Stored(r) : Step(r, "reload", "remember", d)
    BY <1>9 DEF reload_row
  <2>2. d \in rows /\ d \in Docs
    BY DEF Stored, IInv, TypeOK
  <2> QED BY <1>9, <2>1, <2>2, ReadingStep DEF reload_row
<1>10. CASE reload_error(r)
  BY <1>10, ReadingStep, CachedStored DEF reload_error, Fallback
<1>11. CASE remember(r)
  <2>1. /\ req[r] = "remember" /\ doc[r] \in Docs /\ doc[r] \in rows \cup {NoDoc}
        /\ last' = [last EXCEPT ![inst[r]] = doc[r]]
        /\ UNCHANGED <<rows, now, active, up, outages, inst, start>>
    BY <1>11 DEF remember, Step, envVars, IInv, TypeOK, DocsStored
  <2>2. /\ last' \in [Instances -> Docs] /\ CopiesStored' /\ OneRow'
        /\ rows' \subseteq Docs /\ active' \subseteq Relays
    BY <2>1 DEF IInv, TypeOK, CopiesStored, OneRow
  <2>3. inst' \in [Reqs -> Instances] /\ start' \in [Reqs -> 0 .. now + 1]
    BY <2>1 DEF IInv, TypeOK
  <2> QED BY <1>11, <2>1, <2>2, <2>3, StepKeeps DEF remember
<1> QED
  BY <1>1, <1>2, <1>3, <1>4, <1>5, <1>6, <1>7, <1>8, <1>9, <1>10, <1>11 DEF Serve

\* A request begins, and a response leaves: the rows and the copies stay.
LEMMA BorderKeeps ==
  ASSUME IInv, NEW r \in Reqs,
         (\E i \in Instances : Current(r, i)) \/ HandleRegistry(r)
  PROVE  IInv'
<1>1. PICK to \in {"load", "idle"}, from \in ReqStates, i \in Instances,
           t \in 0 .. now + 1 :
        /\ Step(r, from, to, NoDoc)
        /\ inst' = [inst EXCEPT ![r] = i]
        /\ start' = [start EXCEPT ![r] = t]
        /\ UNCHANGED <<now, active, up, outages, reqVars>>
  <2>1. CASE \E i \in Instances : Current(r, i)
    BY <2>1, ClockTypes DEF Current, IInv, ReqStates
  <2>2. CASE HandleRegistry(r)
    <3>1. 0 \in 0 .. now + 1 /\ Unassigned \in Instances
      BY SMT, PublisherAssumption DEF IInv, TypeOK, Unassigned
    <3> QED BY <2>2, <3>1 DEF HandleRegistry, ReqStates
  <2> QED BY <2>1, <2>2
<1>2. /\ UNCHANGED <<rows, last, now, active, up, outages>>
      /\ OneRow' /\ CopiesStored'
  BY <1>1 DEF reqVars, IInv, OneRow, CopiesStored
<1>3. /\ last' \in [Instances -> Docs]
      /\ rows' \subseteq Docs /\ active' \subseteq Relays
  BY <1>2 DEF IInv, TypeOK
<1>4. /\ inst' \in [Reqs -> Instances] /\ start' \in [Reqs -> 0 .. now + 1]
      /\ \A q \in Reqs : q # r => start'[q] = start[q]
  BY <1>1 DEF IInv, TypeOK
<1> QED BY SMTT(30), <1>1, <1>2, <1>3, <1>4, DocTypes, StepKeeps DEF ReqStates

\* A restarted instance forgets its copy and answers with errors only.
LEMMA RestartKeeps ==
  ASSUME IInv, NEW i \in Instances, Restart(i)
  PROVE  IInv'
<1>1. /\ UNCHANGED <<start, rows, now, active, up, inst, outages>>
      /\ last' = [last EXCEPT ![i] = NoDoc]
  BY DEF Restart, envVars
<1>2. \A r \in Reqs :
        \/ req'[r] = req[r] /\ doc'[r] = doc[r]
        \/ doc'[r] = NoDoc /\ req'[r] \in {"answered", "idle"}
  BY DEF Restart
<1>3. req' \in [Reqs -> ReqStates] /\ doc' \in [Reqs -> Docs]
  <2>1. \A r \in Reqs : req[r] \in ReqStates /\ doc[r] \in Docs
    BY DEF IInv, TypeOK
  <2>2. "answered" \in ReqStates
    BY DEF ReqStates
  <2>3. req' \in [Reqs -> ReqStates]
    BY <2>1, <2>2 DEF Restart
  <2>4. doc' \in [Reqs -> Docs]
    BY <2>1, DocTypes DEF Restart
  <2> QED BY <2>3, <2>4
<1>4. last' \in [Instances -> Docs] /\ CopiesStored'
  BY <1>1, DocTypes DEF IInv, TypeOK, CopiesStored
<1>5. TypeOK'
  BY <1>1, <1>2, <1>3, <1>4 DEF IInv, TypeOK, Version
<1>6. DocsStored' /\ OneRow'
  BY <1>1, <1>2 DEF IInv, DocsStored, OneRow
<1> QED BY <1>4, <1>5, <1>6 DEF IInv

\* Heartbeats, sweeps, outages and the clock touch no document.
LEMMA EnvironmentKeeps ==
  ASSUME IInv, Churn \/ Outage \/ Recover \/ Tick \/ UNCHANGED vars
  PROVE  IInv'
<1>1. /\ UNCHANGED <<rows, last, req, inst, start, doc>>
      /\ active' \subseteq Relays /\ up' \in BOOLEAN /\ outages' \in Nat
      /\ now' \in Nat /\ now' >= now
  <2>1. CASE Churn
    BY SMT, <2>1 DEF Churn, RecordHeartbeat, SweepInactiveRelays, IInv, TypeOK
  <2>2. CASE Outage
    <3>1. up' \in BOOLEAN
      BY <2>2 DEF Outage
    <3>2. outages' \in Nat
      BY SMT, <2>2 DEF Outage, IInv, TypeOK
    <3>3. /\ UNCHANGED <<rows, last, req, inst, start, doc>>
          /\ active' \subseteq Relays /\ now' \in Nat /\ now' >= now
      BY SMT, <2>2 DEF Outage, IInv, TypeOK
    <3> QED BY <3>1, <3>2, <3>3
  <2>3. CASE Recover
    BY SMT, <2>3 DEF Recover, IInv, TypeOK
  <2>4. CASE Tick
    BY SMT, <2>4 DEF Tick, pubVars, IInv, TypeOK
  <2>5. CASE UNCHANGED vars
    BY SMT, <2>5 DEF vars, pubVars, IInv, TypeOK
  <2> QED BY <2>1, <2>2, <2>3, <2>4, <2>5
<1>2. start' \in [Reqs -> 0 .. now' + 1]
  BY SMT, <1>1 DEF IInv, TypeOK
<1>3. TypeOK'
  BY <1>1, <1>2 DEF IInv, TypeOK, Version
<1> QED BY <1>1, <1>3 DEF IInv, OneRow, DocsStored, CopiesStored

\* Every step of the authority keeps the invariant.
LEMMA InvNext ==
  ASSUME IInv, [Next]_vars
  PROVE  IInv'
  BY ServeKeeps, BorderKeeps, RestartKeeps, EnvironmentKeeps DEF Next

\* The invariant holds in every state.
THEOREM InvHolds == Spec => []IInv
<1> QED BY InvInit, InvNext, PTL DEF Spec

\* Type correctness: a request never holds a document of an hour that is not
\* the one it was asked in when it inserts (publish_build, publish_insert).
THEOREM PublisherTypeCorrect == Spec => []TypeOK
<1>1. IInv => TypeOK
  BY DEF IInv
<1> QED BY InvHolds, <1>1, PTL

\* Only stored documents are answered (publish, load, remember, cached), with
\* any number of requests racing to insert and INSERTs of unknown outcome.
THEOREM AnswersStored == Spec => []OnlyStored
<1>1. IInv => OnlyStored
  BY DEF IInv, OnlyStored, Answers, DocsStored, CopiesStored
<1> QED BY InvHolds, <1>1, PTL

\* All documents stored and answered for one hour are the same one, whichever
\* request won the INSERT.
THEOREM OneAnswerPerHour == Spec => []OneDocumentPerHour
<1>1. IInv => OneDocumentPerHour
  BY DEF IInv, OneDocumentPerHour, Answers, DocsStored, CopiesStored, OneRow
<1> QED BY InvHolds, <1>1, PTL
-----------------------------------------------------------------------------
\* Answers are valid because what is remembered is for the request's own hour
\* and the copy is compared with the request's own time.
ValidInv ==
    \A r \in Reqs :
        /\ req[r] = "remember" => doc[r].ver = Version(r)
        /\ req[r] = "answered" /\ doc[r] # NoDoc => start[r] < ValidUntil(doc[r])

\* A document is valid throughout its own hour.
LEMMA ValidInItsHour ==
  ASSUME NEW t \in Nat, NEW d \in Docs, d.ver = HourOf(t)
  PROVE  t < ValidUntil(d)
<1> DEFINE v == d.ver
<1>1. v \in Nat
  BY DEF Docs
<1>2. t < (v + 1) * Hour
  BY SMT, PublisherAssumption DEF HourOf
<1> HIDE DEF v
<1>3. (v + Valid) * Hour = (v + 1) * Hour + (Valid - 1) * Hour
  BY SMT, <1>1, PublisherAssumption
<1>4. (Valid - 1) * Hour >= 0 /\ (Valid - 1) * Hour \in Int /\ (v + 1) * Hour \in Int
  BY SMT, <1>1, PublisherAssumption
<1>5. t < (v + Valid) * Hour
  BY SMT, <1>2, <1>3, <1>4
<1> QED BY <1>5 DEF ValidUntil, v

\* A request's step keeps the validity of the others' answers.
LEMMA ValidStep ==
  ASSUME IInv, ValidInv, NEW r \in Reqs, NEW from, NEW to, NEW d,
         Step(r, from, to, d),
         to = "remember" => d.ver = Version(r),
         to = "answered" /\ d # NoDoc => start[r] < ValidUntil(d),
         \A q \in Reqs : q # r \/ to \in {"remember", "answered"} => start'[q] = start[q]
  PROVE  ValidInv'
<1>1. /\ req'[r] = to /\ doc'[r] = d
      /\ \A q \in Reqs : q # r => req'[q] = req[q] /\ doc'[q] = doc[q]
  BY DEF Step, IInv, TypeOK
<1>2. ASSUME NEW q \in Reqs
      PROVE  /\ req'[q] = "remember" => doc'[q].ver = Version(q)'
             /\ req'[q] = "answered" /\ doc'[q] # NoDoc => start'[q] < ValidUntil(doc'[q])
  <2>1. CASE q = r
    BY <1>1, <2>1 DEF Version
  <2>2. CASE q # r
    BY <1>1, <2>2 DEF ValidInv, Version
  <2> QED BY <2>1, <2>2
<1> QED BY <1>2 DEF ValidInv, ValidUntil

\* Every step keeps the validity of the answers.
LEMMA ValidNext ==
  ASSUME IInv, ValidInv, [Next]_vars
  PROVE  ValidInv'
<1>1. ASSUME NEW r \in Reqs, Serve(r) PROVE ValidInv'
  <2>1. \A d : d = cached(r) /\ d # NoDoc => start[r] < ValidUntil(d)
    BY DEF cached
  <2>2. CASE load_row(r) \/ reload_row(r)
    <3>1. PICK d \in Stored(r), from \in ReqStates : Step(r, from, "remember", d)
      BY <2>2 DEF load_row, reload_row, ReqStates
    <3> QED BY <2>2, <3>1, ValidStep DEF Stored, load_row, reload_row
  <2>3. CASE load_error(r) \/ publish_build_error(r) \/ publish_insert_error(r) \/ reload_error(r)
    <3>1. /\ \E from \in ReqStates : Step(r, from, "answered", cached(r))
          /\ start' = start
      BY <2>3 DEF load_error, publish_build_error, publish_insert_error, reload_error,
                  Fallback, ReqStates
    <3> QED BY <2>1, <3>1, ValidStep
  <2>4. CASE load_no_rows(r) \/ publish_build(r) \/ publish_lost(r)
    BY <2>4, ValidStep DEF load_no_rows, publish_build, publish_lost
  <2>5. CASE publish_insert(r)
    <3>1. doc[r].ver = Version(r)
      BY <2>5 DEF publish_insert, Step, IInv, TypeOK
    <3> QED BY <2>5, <3>1, ValidStep DEF publish_insert
  <2>6. CASE remember(r)
    <3>1. start[r] < ValidUntil(doc[r])
      <4>1. doc[r].ver = HourOf(start[r])
        BY <2>6 DEF remember, Step, ValidInv, Version
      <4>2. start[r] \in Nat /\ doc[r] \in Docs
        BY SMT DEF IInv, TypeOK
      <4> QED BY <4>1, <4>2, ValidInItsHour
    <3> QED BY <2>6, <3>1, ValidStep DEF remember
  <2> QED BY <1>1, <2>2, <2>3, <2>4, <2>5, <2>6 DEF Serve
<1>2. ASSUME NEW r \in Reqs, NEW i \in Instances, Current(r, i) PROVE ValidInv'
  <2>1. \A q \in Reqs : q # r => start'[q] = start[q]
    BY <1>2 DEF Current, IInv, TypeOK
  <2> QED BY SMT, <1>2, <2>1, ValidStep DEF Current
<1>3. ASSUME NEW r \in Reqs, HandleRegistry(r) PROVE ValidInv'
  <2>1. \A q \in Reqs : q # r => start'[q] = start[q]
    BY <1>3 DEF HandleRegistry, IInv, TypeOK
  <2> QED BY SMTT(30), <1>3, <2>1, ValidStep DEF HandleRegistry
<1>4. ASSUME NEW i \in Instances, Restart(i) PROVE ValidInv'
  <2>1. \A r \in Reqs :
          \/ req'[r] = req[r] /\ doc'[r] = doc[r]
          \/ doc'[r] = NoDoc /\ req'[r] \in {"answered", "idle"}
    BY <1>4 DEF Restart, IInv, TypeOK
  <2> QED BY <1>4, <2>1 DEF Restart, ValidInv, Version, ValidUntil
<1>5. ASSUME Churn \/ Outage \/ Recover \/ Tick \/ UNCHANGED vars PROVE ValidInv'
  <2>1. UNCHANGED <<req, start, doc>>
    BY <1>5 DEF Churn, RecordHeartbeat, SweepInactiveRelays, Outage, Recover, Tick,
                pubVars, vars
  <2> QED BY <2>1 DEF ValidInv, Version, ValidUntil
<1> QED BY <1>1, <1>2, <1>3, <1>4, <1>5 DEF Next

\* An answer, from the database or from the copy, was valid when its request
\* came in (cached, Current): validity is never extended.
THEOREM AnswersStayValid == Spec => []AnswersValid
<1>1. Init => ValidInv
  BY DEF Init, ValidInv
<1>2. ValidInv => AnswersValid
  BY DEF ValidInv, AnswersValid
<1> QED BY InvHolds, ValidNext, <1>1, <1>2, PTL DEF Spec

(***************************************************************************)
(* RegistryDocument.  The calendar arithmetic of registry.rs is right in   *)
(* every year, however far the clock walks: days_from_civil agrees with    *)
(* the calendar at the epoch, and it grows by one from each date to the    *)
(* next.  And a document that verifies is one the authority may have       *)
(* published, signed by enough pinned keys, in its window.                 *)
(***************************************************************************)

Date == [y : Int, mo : 1..12, d : Int]
OfCalendar(c) == c \in Date /\ c.d \in 1..MonthLength(c.y, c.mo)
DayNumber(c) == days_from_civil(c.y, c.mo, c.d)

\* The code's leap years and month lengths are the calendar's.
LEMMA MonthsAgree ==
    ASSUME NEW y \in Int, NEW m \in 1..12
    PROVE  /\ MonthLength(y, m) = days_in_month(y, m)
           /\ MonthLength(y, m) \in 28..31
<1>1. LeapYear(y) = is_leap_year(y)
  BY SMT DEF LeapYear, is_leap_year
<1>2. is_leap_year(y) \in BOOLEAN
  BY DEF is_leap_year
<1> QED
  BY SMT, <1>1, <1>2 DEF MonthLength, days_in_month

\* Within a month the count grows by one a day.
LEMMA SameMonth ==
    ASSUME NEW y \in Int, NEW m \in 1..12, NEW d \in Int
    PROVE  /\ days_from_civil(y, m, d) \in Int
           /\ days_from_civil(y, m, d + 1) = days_from_civil(y, m, d) + 1
           /\ days_from_civil(y, m, d - 1) = days_from_civil(y, m, d) - 1
BY SMT DEF days_from_civil

\* So it does from the last day of a month to the first of the next.
LEMMA NextMonth ==
    ASSUME NEW y \in Int, NEW m \in 1..11
    PROVE  days_from_civil(y, m + 1, 1) = days_from_civil(y, m, days_in_month(y, m)) + 1
BY SMTT(30) DEF days_from_civil, days_in_month, is_leap_year

\* The same step, seen from the later month.
LEMMA LastMonth ==
    ASSUME NEW y \in Int, NEW m \in 2..12
    PROVE  days_from_civil(y, m - 1, days_in_month(y, m - 1)) = days_from_civil(y, m, 1) - 1
BY SMTT(30) DEF days_from_civil, days_in_month, is_leap_year

\* And from the last day of a year to the first of the next.
LEMMA NextYear ==
    ASSUME NEW y \in Int
    PROVE  /\ days_from_civil(y + 1, 1, 1) = days_from_civil(y, 12, 31) + 1
           /\ days_from_civil(y - 1, 12, 31) = days_from_civil(y, 1, 1) - 1
BY SMT DEF days_from_civil

\* The date of three numbers.
LEMMA YmdFields ==
    ASSUME NEW y \in Int, NEW m \in 1..12, NEW d \in 1..MonthLength(y, m)
    PROVE  OfCalendar(Ymd(y, m, d)) /\ DayNumber(Ymd(y, m, d)) = days_from_civil(y, m, d)
<1>1. MonthLength(y, m) \in Int
  BY SMT, MonthsAgree
<1>2. Ymd(y, m, d).y = y /\ Ymd(y, m, d).mo = m /\ Ymd(y, m, d).d = d
  BY DEF Ymd
<1>3. Ymd(y, m, d) \in Date
  BY SMT, <1>1 DEF Ymd, Date
<1> QED
  BY <1>2, <1>3 DEF OfCalendar, DayNumber

\* The day after a date of the calendar is a date of the calendar, counted
\* one higher.
LEMMA FollowingCounts ==
    ASSUME NEW c, OfCalendar(c)
    PROVE  OfCalendar(Following(c)) /\ DayNumber(Following(c)) = DayNumber(c) + 1
<1>1. c.y \in Int /\ c.mo \in 1..12 /\ c.d \in 1..MonthLength(c.y, c.mo)
  BY DEF OfCalendar, Date
<1>2. MonthLength(c.y, c.mo) \in 28..31 /\ c.d \in Int
  BY SMT, <1>1, MonthsAgree
<1>3. CASE c.d < MonthLength(c.y, c.mo)
  <2>1. c.d + 1 \in 1..MonthLength(c.y, c.mo)
    BY SMTT(30), <1>1, <1>2, <1>3
  <2>2. Following(c) = Ymd(c.y, c.mo, c.d + 1)
    BY <1>3 DEF Following
  <2>3. days_from_civil(c.y, c.mo, c.d + 1) = days_from_civil(c.y, c.mo, c.d) + 1
    BY <1>1, <1>2, SameMonth
  <2> QED
    BY <1>1, <2>1, <2>2, <2>3, YmdFields DEF DayNumber
<1>4. CASE ~(c.d < MonthLength(c.y, c.mo)) /\ c.mo < 12
  <2>1. c.d = MonthLength(c.y, c.mo) /\ c.mo \in 1..11 /\ c.mo + 1 \in 1..12
    BY SMT, <1>1, <1>2, <1>4
  <2>2. 1 \in 1..MonthLength(c.y, c.mo + 1)
    BY SMT, <1>1, <2>1, MonthsAgree
  <2>3. Following(c) = Ymd(c.y, c.mo + 1, 1)
    BY <1>4 DEF Following
  <2>4. days_from_civil(c.y, c.mo + 1, 1) = days_from_civil(c.y, c.mo, c.d) + 1
    BY SMTT(30), <1>1, <2>1, NextMonth, MonthsAgree
  <2> QED
    BY <1>1, <2>1, <2>2, <2>3, <2>4, YmdFields DEF DayNumber
<1>5. CASE ~(c.d < MonthLength(c.y, c.mo)) /\ ~(c.mo < 12)
  <2>1. c.mo = 12 /\ c.d = 31
    BY SMTT(30), <1>1, <1>2, <1>5, MonthsAgree DEF days_in_month
  <2>2. c.y + 1 \in Int /\ 1 \in 1..MonthLength(c.y + 1, 1)
    BY SMT, <1>1, MonthsAgree
  <2>3. Following(c) = Ymd(c.y + 1, 1, 1)
    BY <1>5 DEF Following
  <2>4. days_from_civil(c.y + 1, 1, 1) = days_from_civil(c.y, c.mo, c.d) + 1
    BY <1>1, <2>1, NextYear
  <2> QED
    BY SMTT(30), <2>2, <2>3, <2>4, YmdFields DEF DayNumber
<1> QED
  BY <1>3, <1>4, <1>5

\* The day before it is counted one lower.
LEMMA PrecedingCounts ==
    ASSUME NEW c, OfCalendar(c)
    PROVE  OfCalendar(Preceding(c)) /\ DayNumber(Preceding(c)) = DayNumber(c) - 1
<1>1. c.y \in Int /\ c.mo \in 1..12 /\ c.d \in 1..MonthLength(c.y, c.mo)
  BY DEF OfCalendar, Date
<1>2. MonthLength(c.y, c.mo) \in 28..31 /\ c.d \in Int
  BY SMT, <1>1, MonthsAgree
<1>3. CASE c.d > 1
  <2>1. c.d - 1 \in 1..MonthLength(c.y, c.mo) /\ c.d - 1 \in Int
    BY SMT, <1>1, <1>2, <1>3
  <2>2. Preceding(c) = Ymd(c.y, c.mo, c.d - 1)
    BY <1>3 DEF Preceding
  <2>3. days_from_civil(c.y, c.mo, c.d - 1) = days_from_civil(c.y, c.mo, c.d) - 1
    BY <1>1, <1>2, SameMonth
  <2> QED
    BY <1>1, <2>1, <2>2, <2>3, YmdFields DEF DayNumber
<1>4. CASE ~(c.d > 1) /\ c.mo > 1
  <2>1. c.d = 1 /\ c.mo - 1 \in 1..12
    BY SMT, <1>1, <1>2, <1>4
  <2>2. MonthLength(c.y, c.mo - 1) = days_in_month(c.y, c.mo - 1)
            /\ MonthLength(c.y, c.mo - 1) \in 28..31
    BY <1>1, <2>1, MonthsAgree
  <2>3. Preceding(c) = Ymd(c.y, c.mo - 1, MonthLength(c.y, c.mo - 1))
    BY <1>4 DEF Preceding
  <2>4. days_from_civil(c.y, c.mo - 1, MonthLength(c.y, c.mo - 1))
            = days_from_civil(c.y, c.mo, c.d) - 1
    BY SMTT(30), <1>1, <1>4, <2>1, <2>2, LastMonth, c.mo \in 2..12
  <2>5. MonthLength(c.y, c.mo - 1) \in 1..MonthLength(c.y, c.mo - 1)
    BY SMTT(30), <2>2
  <2> QED
    BY <1>1, <2>1, <2>3, <2>4, <2>5, YmdFields DEF DayNumber
<1>5. CASE ~(c.d > 1) /\ ~(c.mo > 1)
  <2>1. c.d = 1 /\ c.mo = 1 /\ c.y - 1 \in Int
    BY SMT, <1>1, <1>2, <1>5
  <2>2. 31 \in 1..MonthLength(c.y - 1, 12)
    BY SMT, <2>1, MonthsAgree DEF days_in_month
  <2>3. Preceding(c) = Ymd(c.y - 1, 12, 31)
    BY <1>5 DEF Preceding
  <2>4. days_from_civil(c.y - 1, 12, 31) = days_from_civil(c.y, c.mo, c.d) - 1
    BY <1>1, <2>1, NextYear
  <2> QED
    BY SMTT(30), <2>1, <2>2, <2>3, <2>4, YmdFields DEF DayNumber
<1> QED
  BY <1>3, <1>4, <1>5

(***************************************************************************)
(* The walk.                                                               *)
(***************************************************************************)

\* Today is a date of the calendar and its number is the days walked.
Calendar == OfCalendar(date) /\ DayNumber(date) = day /\ day \in Int

\* The code's day number is the number of days since the epoch, always.
THEOREM CalendarInvariant == CalendarSpec => []Calendar
<1>1. CalendarInit => Calendar
  <2> SUFFICES ASSUME CalendarInit PROVE Calendar
    BY SMT
  <2>1. 1 \in 1..MonthLength(1970, 1)
    BY SMTT(30), MonthsAgree
  <2>2. days_from_civil(1970, 1, 1) = 0
    BY SMT DEF days_from_civil
  <2> QED
    BY SMT, <2>1, <2>2, YmdFields DEF CalendarInit, Calendar
<1>2. Calendar /\ [CalendarNext]_calendarVars => Calendar'
  <2> SUFFICES ASSUME Calendar, [CalendarNext]_calendarVars PROVE Calendar'
    BY SMT
  <2> USE DEF Calendar
  <2>1. CASE Tomorrow
    BY SMT, <2>1, FollowingCounts DEF Tomorrow
  <2>2. CASE Yesterday
    BY SMTT(30), <2>2, PrecedingCounts DEF Yesterday
  <2>3. CASE DeliverToday
    BY SMT, <2>3 DEF DeliverToday, Deliver
  <2>4. CASE UNCHANGED calendarVars
    BY <2>4 DEF calendarVars
  <2> QED
    BY <2>1, <2>2, <2>3, <2>4 DEF CalendarNext
<1> QED
  BY <1>1, <1>2, PTL DEF CalendarSpec

\* A second of the day is already normal.
LEMMA UnixNormal ==
    ASSUME NEW n \in Int, NEW k \in Nat, k < 86400
    PROVE  Unix(n, k) = <<n, k>>
<1>1. k \div 86400 = 0
  BY SMT
<1>2. k % 86400 = k
  BY SMT
<1>3. n + 0 = n
  BY SMT
<1> QED
  BY SMT, <1>1, <1>2, <1>3 DEF Unix

\* Hours, minutes and seconds in range stay within the day.
LEMMA SecondOfDay ==
    ASSUME NEW h \in Nat, h <= 23, NEW mi \in Nat, mi <= 59, NEW s \in Nat, s <= 59
    PROVE  h * 3600 + mi * 60 + s \in Nat /\ h * 3600 + mi * 60 + s < 86400
BY SMT

\* A text of a date of the calendar parses, to one instant of its day.
LEMMA ParseUnix ==
    ASSUME NEW c, OfCalendar(c),
           NEW h \in Nat, h <= 23, NEW mi \in Nat, mi <= 59, NEW s \in Nat, s <= 59
    PROVE  /\ DayNumber(c) \in Int
           /\ parse_rfc3339(Text(c, h, mi, s)) = {Unix(DayNumber(c), h * 3600 + mi * 60 + s)}
<1>1. PICK t : t = Text(c, h, mi, s)
  BY SMT
<1>2. /\ t.shape = TRUE /\ t.y = c.y /\ t.mo = c.mo /\ t.d = c.d
      /\ t.h = h /\ t.mi = mi /\ t.sec = s
  BY <1>1 DEF Text
<1>3. c.y \in Int /\ c.mo \in 1..12 /\ c.d \in 1..MonthLength(c.y, c.mo)
  BY DEF OfCalendar, Date
<1>4. MonthLength(c.y, c.mo) = days_in_month(c.y, c.mo) /\ MonthLength(c.y, c.mo) \in 28..31
  BY <1>3, MonthsAgree
<1>5. c.d \in Int /\ c.d >= 1 /\ c.d <= days_in_month(c.y, c.mo)
  BY SMT, <1>3, <1>4
<1>6. days_from_civil(c.y, c.mo, c.d) \in Int
  BY <1>3, <1>5, SameMonth
<1>7. PICK k \in Nat : k = h * 3600 + mi * 60 + s /\ k < 86400
  BY SMT, SecondOfDay
<1>8. h <= 23 /\ mi <= 59 /\ s <= 60
  BY SMT
<1>9. parse_rfc3339(t) = {Unix(days_from_civil(c.y, c.mo, c.d), k)}
  BY SMTT(30), <1>2, <1>3, <1>5, <1>7, <1>8 DEF parse_rfc3339
<1> QED
  BY SMTT(30), <1>1, <1>6, <1>7, <1>9 DEF DayNumber

\* That instant is the day's number and the second of the day.
LEMMA ParseText ==
    ASSUME NEW c, OfCalendar(c),
           NEW h \in Nat, h <= 23, NEW mi \in Nat, mi <= 59, NEW s \in Nat, s <= 59
    PROVE  parse_rfc3339(Text(c, h, mi, s)) = {<<DayNumber(c), h * 3600 + mi * 60 + s>>}
<1>1. PICK k \in Nat : k = h * 3600 + mi * 60 + s /\ k < 86400
  BY SMT, SecondOfDay
<1>2. DayNumber(c) \in Int /\ parse_rfc3339(Text(c, h, mi, s)) = {Unix(DayNumber(c), k)}
  BY SMT, <1>1, ParseUnix
<1> QED
  BY SMTT(30), <1>1, <1>2, UnixNormal

\* Whatever date the calendar shows, in any year, a timestamp of that day
\* parses to the time that has passed since the epoch.
THEOREM CountsDaysAlways == CalendarSpec => []CountsDays
<1>1. Calendar => CountsDays
  <2> SUFFICES ASSUME Calendar,
                      NEW h \in 0..23, NEW mi \in {0, 59}, NEW s \in {0, 59}
               PROVE  parse_rfc3339(Text(date, h, mi, s)) = {<<day, h * 3600 + mi * 60 + s>>}
    BY DEF CountsDays
  <2>1. h \in Nat /\ h <= 23 /\ mi \in Nat /\ mi <= 59 /\ s \in Nat /\ s <= 59
    BY SMTT(30)
  <2> QED
    BY SMTT(30), <2>1, ParseText DEF Calendar
<1> QED
  BY <1>1, CalendarInvariant, PTL

\* In every month of every year the last day is taken and the next refused.
THEOREM KnowsMonthEndAlways == CalendarSpec => []KnowsMonthEnd
<1>1. Calendar => KnowsMonthEnd
  <2> SUFFICES ASSUME Calendar PROVE KnowsMonthEnd
    BY SMT
  <2> DEFINE n == MonthLength(date.y, date.mo)
  <2>1. date.y \in Int /\ date.mo \in 1..12 /\ date \in Date
    BY SMT DEF Calendar, OfCalendar, Date
  <2>2. n = days_in_month(date.y, date.mo) /\ n \in 28..31
    BY SMT, <2>1, MonthsAgree
  <2>3. ASSUME NEW k \in Int
        PROVE  LET c == [date EXCEPT !.d = k]
               IN  c \in Date /\ c.y = date.y /\ c.mo = date.mo /\ c.d = k
    BY SMT, <2>1 DEF Date
  <2>4. parse_rfc3339(Text([date EXCEPT !.d = n], 0, 0, 0)) # {}
    <3>1. PICK c : c = [date EXCEPT !.d = n]
      OBVIOUS
    <3>2. OfCalendar(c)
      BY SMTT(30), <2>2, <2>3, <3>1 DEF OfCalendar
    <3>3. 0 \in Nat /\ 0 <= 23 /\ 0 <= 59
      BY SMT
    <3>4. parse_rfc3339(Text(c, 0, 0, 0)) = {Unix(DayNumber(c), 0 * 3600 + 0 * 60 + 0)}
      BY SMT, <3>2, <3>3, ParseUnix
    <3>5. Unix(DayNumber(c), 0 * 3600 + 0 * 60 + 0) \in parse_rfc3339(Text(c, 0, 0, 0))
      BY SMT, <3>4
    <3>6. parse_rfc3339(Text(c, 0, 0, 0)) # {}
      BY SMT, <3>5
    <3> QED
      BY <3>1, <3>6
  <2>5. ASSUME NEW k \in Int, k > n \/ k < 1
        PROVE  parse_rfc3339(Text([date EXCEPT !.d = k], 0, 0, 0)) = {}
    <3> DEFINE t == Text([date EXCEPT !.d = k], 0, 0, 0)
    <3>1. t.y = date.y /\ t.mo = date.mo /\ t.d = k
      BY SMT, <2>3 DEF Text
    <3> QED
      BY SMT, <2>1, <2>2, <2>5, <3>1 DEF parse_rfc3339
  <2>6. n + 1 \in Int /\ n + 1 > n /\ 0 \in Int /\ 0 < 1
    BY SMT, <2>2
  <2> QED
    BY SMTT(30), <2>4, <2>5, <2>6 DEF KnowsMonthEnd
<1> QED
  BY <1>1, CalendarInvariant, PTL

(***************************************************************************)
(* What the authority publishes verifies.                                  *)
(***************************************************************************)

\* Instants counted from one day are ordered like their seconds.
LEMMA UnixOrder ==
    ASSUME NEW n \in Int, NEW a \in Int, NEW b \in Int
    PROVE  Before(Unix(n, a), Unix(n, b)) <=> a < b
BY SMTT(30) DEF Before, Unix

\* Adding seconds to an instant adds them to its count.
LEMMA UnixPlus ==
    ASSUME NEW n \in Int, NEW a \in Int, NEW k \in Int
    PROVE  Plus(Unix(n, a), k) = Unix(n, a + k)
<1>1. PICK q \in Int, r \in Int : q = a \div 86400 /\ r = a % 86400
  BY SMT
<1>2. a = 86400 * q + r
  BY SMT, <1>1
<1>3. (r + k) \div 86400 + q = (a + k) \div 86400 /\ (r + k) % 86400 = (a + k) % 86400
  BY <1>2, SMTT(30)
<1>4. Unix(n, a) = <<n + q, r>>
  BY SMT, <1>1 DEF Unix
<1>5. Plus(Unix(n, a), k) = <<n + q + (r + k) \div 86400, (r + k) % 86400>>
  BY SMT, <1>1, <1>4 DEF Plus, Unix
<1>6. n + q + (r + k) \div 86400 = n + (a + k) \div 86400
  BY SMT, <1>1, <1>3
<1> QED
  BY SMT, <1>3, <1>5, <1>6 DEF Unix

\* A full hour's text parses to that hour of its day.
LEMMA ParseHour ==
    ASSUME NEW c, OfCalendar(c), NEW h \in Nat, h <= 23
    PROVE  /\ DayNumber(c) \in Int
           /\ parse_rfc3339(Text(c, h, 0, 0)) = {Unix(DayNumber(c), h * 3600)}
<1>1. 0 \in Nat /\ 0 <= 59 /\ h * 3600 + 0 * 60 + 0 = h * 3600
  BY SMT
<1>2. /\ DayNumber(c) \in Int
      /\ parse_rfc3339(Text(c, h, 0, 0)) = {Unix(DayNumber(c), h * 3600 + 0 * 60 + 0)}
  BY SMT, <1>1, ParseUnix
<1> QED
  BY SMT, <1>1, <1>2

\* An hour past midnight belongs to the next day.
LEMMA NextDayHour ==
    ASSUME NEW n \in Int, NEW h \in Nat
    PROVE  Unix(n + 1, (h - 18) * 3600) = Unix(n, (h + 6) * 3600)
<1>1. PICK a \in Int : a = (h - 18) * 3600 /\ a + 86400 = (h + 6) * 3600
  BY SMT
<1>2. (a + 86400) \div 86400 = a \div 86400 + 1 /\ (a + 86400) % 86400 = a % 86400
  BY SMT
<1>3. n + 1 + a \div 86400 = n + (a + 86400) \div 86400
  BY SMT, <1>2
<1> QED
  BY SMTT(30), <1>1, <1>2, <1>3 DEF Unix

\* Both ends of a published document's window, on the verifier's side.
LEMMA PublishedWindow ==
    ASSUME Calendar, NEW h \in Nat, h <= 23
    PROVE  /\ parse_rfc3339(Published(h).valid_after) = {Unix(day, h * 3600)}
           /\ parse_rfc3339(Published(h).valid_until) = {Unix(day, (h + 6) * 3600)}
           /\ Published(h).version = day * 24 + h
<1>1. OfCalendar(date) /\ DayNumber(date) = day /\ day \in Int
  BY SMT DEF Calendar
<1>2. parse_rfc3339(Text(date, h, 0, 0)) = {Unix(day, h * 3600)}
  BY SMTT(30), <1>1, ParseHour
<1>3. CASE h + 6 < 24
  <2>1. h + 6 \in Nat /\ h + 6 <= 23
    BY SMT, <1>3
  <2>2. parse_rfc3339(Text(date, h + 6, 0, 0)) = {Unix(day, (h + 6) * 3600)}
    BY SMTT(30), <1>1, <2>1, ParseHour
  <2>3. Published(h).valid_until = Text(date, h + 6, 0, 0)
    BY SMTT(30), <1>3 DEF Published
  <2> QED
    BY SMT, <1>2, <2>2, <2>3 DEF Published
<1>4. CASE ~(h + 6 < 24)
  <2>1. h - 18 \in Nat /\ h - 18 <= 23
    BY SMT, <1>4
  <2>2. OfCalendar(Following(date)) /\ DayNumber(Following(date)) = day + 1
    BY SMTT(30), <1>1, FollowingCounts
  <2>3. parse_rfc3339(Text(Following(date), h - 18, 0, 0)) = {Unix(day + 1, (h - 18) * 3600)}
    BY SMT, <2>1, <2>2, ParseHour
  <2>4. Published(h).valid_until = Text(Following(date), h - 18, 0, 0)
    BY SMT, <1>4 DEF Published
  <2> QED
    BY SMTT(30), <1>1, <1>2, <2>3, <2>4, NextDayHour DEF Published
<1> QED
  BY SMT, <1>3, <1>4

\* An hour's instant is a full hour and names its version.
LEMMA HourStamp ==
    ASSUME NEW n \in Int, NEW h \in Nat, h <= 23
    PROVE  /\ Unix(n, h * 3600)[2] % 3600 = 0
           /\ n * 24 + h = Unix(n, h * 3600)[1] * 24 + Unix(n, h * 3600)[2] \div 3600
           /\ Unix(n, h * 3600) = <<n, h * 3600>>
<1>1. PICK k \in Nat : k = h * 3600 /\ k < 86400
  BY SMT
<1>2. k % 3600 = 0 /\ k \div 3600 = h
  BY SMT, <1>1
<1>3. Unix(n, k) = <<n, k>>
  BY SMT, <1>1, UnixNormal
<1> QED
  BY SMT, <1>1, <1>2, <1>3

\* A clock from a minute before the hour to six hours after it finds the
\* published document valid.
LEMMA PublishedValid ==
    ASSUME Calendar, NEW h \in Nat, h <= 23, NEW off \in Int,
           Timely(Unix(day, h * 3600 + off), h)
    PROVE  check_validity(Published(h), Unix(day, h * 3600 + off))
<1>1. day \in Int
  BY SMT DEF Calendar
<1>2. PICK k \in Int : k = h * 3600 /\ (h + 6) * 3600 = k + 21600
  BY SMT
<1>3. Unix(day, k) = <<day, k>>
  BY SMTT(30), <1>1, <1>2, HourStamp
<1>4. Plus(<<day, k>>, -60) = Unix(day, k + (-60)) /\ Plus(<<day, k>>, 21600) = Unix(day, k + 21600)
  BY SMT DEF Plus
<1>5. ~(k + off < k + (-60)) /\ k + off < k + 21600
  BY SMTT(30), <1>1, <1>2, <1>4, UnixOrder DEF Timely
<1>6. Plus(Unix(day, k + off), 60) = Unix(day, k + off + 60)
  BY SMT, <1>1, UnixPlus
<1>7. ~Before(Plus(Unix(day, k + off), 60), Unix(day, k))
  <2>1. ~(k + off + 60 < k)
    BY SMT, <1>5
  <2> QED
    BY SMTT(30), <1>1, <1>6, <2>1, UnixOrder
<1>8. Before(Unix(day, k + off), Unix(day, k + 21600)) /\ Before(Unix(day, k), Unix(day, k + 21600))
  <2>1. k < k + 21600
    BY SMT
  <2> QED
    BY SMTT(30), <1>1, <1>5, <2>1, UnixOrder
<1>9. PICK a, u : a = Unix(day, k) /\ u = Unix(day, k + 21600)
  BY SMT
<1>10. PICK dc, clock : dc = Published(h) /\ clock = Unix(day, k + off)
  BY SMTT(30)
<1>11. /\ parse_rfc3339(dc.valid_after) = {a} /\ parse_rfc3339(dc.valid_until) = {u}
       /\ dc.version = day * 24 + h
  BY SMTT(30), <1>2, <1>9, <1>10, PublishedWindow
<1>12. a[2] % 3600 = 0 /\ day * 24 + h = a[1] * 24 + a[2] \div 3600
  BY SMTT(30), <1>1, <1>2, <1>9, HourStamp
<1>13. Before(a, u) /\ ~Before(Plus(clock, 60), a) /\ Before(clock, u)
  BY SMTT(30), <1>7, <1>8, <1>9, <1>10
<1>14. check_validity(dc, clock)
  BY SMT, <1>11, <1>12, <1>13 DEF check_validity, SkewAllowance
<1> QED
  BY SMT, <1>2, <1>10, <1>14
\* What the authority publishes is verified, for every pinned set and
\* threshold, on every date and at every hour.
THEOREM AuthorityVerifiesAlways == CalendarSpec => []AuthorityVerifies
<1>1. CalendarInit => AuthorityVerifies
  BY SMT DEF CalendarInit, AuthorityVerifies
<1>2. Calendar /\ AuthorityVerifies /\ [CalendarNext]_calendarVars => AuthorityVerifies'
  <2> SUFFICES ASSUME Calendar, AuthorityVerifies, [CalendarNext]_calendarVars PROVE AuthorityVerifies'
    BY SMTT(30)
  <2>1. CASE Tomorrow
    BY SMTT(30), <2>1 DEF Tomorrow, AuthorityVerifies
  <2>2. CASE Yesterday
    BY SMT, <2>2 DEF Yesterday, AuthorityVerifies
  <2>3. CASE DeliverToday
    <3>1. PICK h \in Hours, off \in Offsets, entries \in Entries :
              \E dc \in Documents(h) : Deliver(h, off, dc, entries)
      BY SMT, <2>3 DEF DeliverToday
    <3>2. PICK dc \in Documents(h) : Deliver(h, off, dc, entries)
      BY SMT, <3>1
    <3>3. h \in Nat /\ h <= 23 /\ off \in Int
      BY SMT, DocumentAssumption
    <3>4. PICK clock : clock = Unix(day, h * 3600 + off)
      BY SMT
    <3> DEFINE env == [document |-> dc, signatures |-> entries]
    <3>5. ASSUME dc = Published(h), SignedEnough(entries), Timely(clock, h)
          PROVE  verify(env, clock)
      <4>1. check_validity(dc, clock)
        BY SMTT(30), <3>3, <3>4, <3>5, PublishedValid
      <4>2. {k \in Pinned : [key |-> k, good |-> TRUE] \in {entries[i] : i \in DOMAIN entries}}
              = {k \in Pinned : \E i \in DOMAIN entries : entries[i].key = k /\ entries[i].good}
        <5>1. \A i \in DOMAIN entries : entries[i] \in [key : Keys, good : BOOLEAN]
          BY SMT DEF Entries
        <5>2. ASSUME NEW k, NEW i \in DOMAIN entries
              PROVE  entries[i] = [key |-> k, good |-> TRUE]
                       <=> entries[i].key = k /\ entries[i].good
          BY SMT, <5>1
        <5> QED
          BY <5>2
      <4>3. Threshold <= Signatures(entries)
        BY <3>5, <4>2 DEF Signatures, SignedEnough
      <4>4. Threshold # 0
        BY SMT, <3>5, DocumentAssumption DEF SignedEnough
      <4> QED
        BY SMTT(30), <4>1, <4>3, <4>4 DEF verify
    <3>6. /\ delivered' = {[hour |-> h, env |-> env, now |-> clock, ok |-> verify(env, clock)]}
          /\ date' = date /\ day' = day
      BY SMT, <3>2, <3>4 DEF Deliver
    <3> SUFFICES ASSUME NEW x \in delivered', x.env.document = Published(x.hour)',
                        SignedEnough(x.env.signatures), Timely(x.now, x.hour)'
                 PROVE  x.ok
      BY DEF AuthorityVerifies
    <3>7. x = [hour |-> h, env |-> env, now |-> clock, ok |-> verify(env, clock)]
      BY <3>6
    <3>8. /\ x.hour = h /\ x.env.document = dc /\ x.env.signatures = entries
          /\ x.now = clock
      BY SMTT(30), <3>7
    <3>9. Published(h)' = Published(h) /\ (Timely(clock, h)' <=> Timely(clock, h))
      BY SMTT(30), <3>6 DEF Published, Timely
    <3>10. verify(env, clock)
      BY SMT, <3>5, <3>8, <3>9
    <3> QED
      BY <3>7, <3>10
  <2>4. CASE UNCHANGED calendarVars
    <3>1. UNCHANGED <<date, day, delivered>>
      BY SMTT(30), <2>4 DEF calendarVars
    <3>2. \A x \in delivered : /\ Published(x.hour)' = Published(x.hour)
                               /\ Timely(x.now, x.hour)' <=> Timely(x.now, x.hour)
      BY SMT, <3>1 DEF Published, Timely
    <3> QED
      BY <3>1, <3>2 DEF AuthorityVerifies
  <2> QED
    BY SMTT(30), <2>1, <2>2, <2>3, <2>4 DEF CalendarNext
<1> QED
  BY <1>1, <1>2, CalendarInvariant, PTL DEF CalendarSpec

(***************************************************************************)
(* What verifies may be used.                                              *)
(***************************************************************************)

\* A finite set of at least n elements has a subset of n.
LEMMA SubsetOfSize ==
    ASSUME NEW S, IsFiniteSet(S), NEW n \in Nat, n <= Cardinality(S)
    PROVE  \E T \in SUBSET S : Cardinality(T) = n
<1>1. Cardinality(S) \in Nat /\ ExistsBijection(1..Cardinality(S), S)
  BY SMT, FS_CardinalityType
<1>2. PICK b : b \in Bijection(1..Cardinality(S), S)
  BY SMT, <1>1 DEF ExistsBijection
<1>3. /\ b \in [1..Cardinality(S) -> S]
      /\ \A i, j \in 1..Cardinality(S) : b[i] = b[j] => i = j
  BY SMT, <1>2 DEF Bijection, Injection, IsInjective
<1> DEFINE T == {b[i] : i \in 1..n}
           f == [i \in 1..n |-> b[i]]
<1>4. 1..n \subseteq 1..Cardinality(S)
  BY SMT, <1>1
<1>5. T \in SUBSET S
  BY SMTT(30), <1>3, <1>4
<1>6. f \in Bijection(1..n, T)
  <2>1. f \in [1..n -> T]
    BY SMT
  <2>2. \A i, j \in 1..n : f[i] = f[j] => i = j
    BY SMTT(30), <1>3, <1>4
  <2>3. \A t \in T : \E i \in 1..n : f[i] = t
    BY SMT
  <2> HIDE DEF f, T
  <2> QED
    BY SMTT(30), <2>1, <2>2, <2>3 DEF Bijection, Injection, Surjection, IsInjective
<1>7. IsFiniteSet(1..n) /\ Cardinality(1..n) = n
  <2>1. 1 \in Int /\ n \in Int
    BY SMT
  <2>2. IsFiniteSet(1..n) /\ Cardinality(1..n) = IF 1 > n THEN 0 ELSE n - 1 + 1
    BY SMTT(30), <2>1, FS_Interval
  <2> QED
    BY SMT, <2>2
<1> HIDE DEF T, f
<1>8. Cardinality(T) = n
  BY SMT, <1>6, <1>7, FS_Bijection DEF ExistsBijection
<1> QED
  BY SMT, <1>5, <1>8

\* A threshold reached is reached by that many different pinned keys.
LEMMA SignersExist ==
    ASSUME NEW entries \in Entries, Threshold # 0, Threshold <= Signatures(entries)
    PROVE  \E ks \in SUBSET Pinned :
               /\ Cardinality(ks) = Threshold /\ ks # {}
               /\ \A k \in ks : \E i \in DOMAIN entries :
                      entries[i] = [key |-> k, good |-> TRUE]
<1> DEFINE S == {k \in Pinned : \E i \in DOMAIN entries :
                                    entries[i].key = k /\ entries[i].good}
<1>1. IsFiniteSet(S) /\ S \in SUBSET Pinned
  <2>1. S \in SUBSET Keys /\ S \in SUBSET Pinned /\ IsFiniteSet(Keys)
    BY SMTT(30), DocumentAssumption
  <2> HIDE DEF S
  <2> QED
    BY SMTT(30), <2>1, FS_Subset
<1>2. \A i \in DOMAIN entries : entries[i] \in [key : Keys, good : BOOLEAN]
  BY SMTT(30) DEF Entries
<1>3. ASSUME NEW k \in S
      PROVE  \E i \in DOMAIN entries : entries[i] = [key |-> k, good |-> TRUE]
  <2>1. PICK i \in DOMAIN entries : entries[i].key = k /\ entries[i].good
    BY SMTT(30)
  <2>2. entries[i] = [key |-> k, good |-> TRUE]
    BY SMTT(30), <1>2, <2>1
  <2> QED
    BY SMTT(30), <2>2
<1>4. Threshold \in Nat /\ Threshold <= Cardinality(S)
  BY SMT, DocumentAssumption DEF Signatures
<1> HIDE DEF S
<1>5. PICK ks \in SUBSET S : Cardinality(ks) = Threshold
  BY SMTT(30), <1>1, <1>4, SubsetOfSize
<1>6. ks # {}
  BY SMTT(30), <1>5, FS_EmptySet
<1> QED
  BY <1>1, <1>3, <1>5, <1>6

\* The version of a document that passes check_validity is the hour's, for
\* each document a verifier may be shown.
LEMMA VersionIsHour ==
    ASSUME Calendar, NEW h \in Nat, h <= 23, NEW dc \in Documents(h), NEW clock,
           check_validity(dc, clock)
    PROVE  dc.version = day * 24 + h
<1> DEFINE pubd == Published(h)
<1>0. day \in Int
  BY SMTT(30) DEF Calendar
<1>1. /\ parse_rfc3339(pubd.valid_after) = {Unix(day, h * 3600)}
      /\ pubd.version = day * 24 + h /\ day \in Int
  BY SMTT(30), <1>0, PublishedWindow
<1>2. pubd = [version |-> pubd.version, valid_after |-> pubd.valid_after,
              valid_until |-> pubd.valid_until]
  BY SMT DEF Published
<1>3. \/ dc.version = pubd.version
      \/ dc.version = pubd.version + 24 /\ dc.valid_after = pubd.valid_after
  <2> HIDE DEF pubd
  <2>1. Documents(h) =
          {pubd,
           [pubd EXCEPT !.version = @ + 24],
           [pubd EXCEPT !.valid_after.mi = 30],
           [pubd EXCEPT !.valid_until = pubd.valid_after],
           [pubd EXCEPT !.valid_until.shape = FALSE],
           [pubd EXCEPT !.valid_after.d = MonthLength(date.y, date.mo) + 1]}
    BY SMT DEF Documents, pubd
  <2> QED
    BY SMT, <1>2, <2>1
<1> HIDE DEF pubd
<1>4. CASE dc.version = pubd.version + 24 /\ dc.valid_after = pubd.valid_after
  <2>1. PICK after \in parse_rfc3339(dc.valid_after) :
            dc.version = after[1] * 24 + after[2] \div 3600
    BY SMT DEF check_validity
  <2>2. after = Unix(day, h * 3600)
    BY SMTT(30), <1>1, <1>4, <2>1
  <2>3. dc.version = day * 24 + h
    <3>1. day * 24 + h = Unix(day, h * 3600)[1] * 24 + Unix(day, h * 3600)[2] \div 3600
      BY SMTT(30), <1>1, HourStamp
    <3> QED
      BY SMTT(30), <2>1, <2>2, <3>1
  <2> QED
    BY SMTT(30), <2>3
<1> QED
  BY SMTT(30), <1>1, <1>3, <1>4

\* Whatever is delivered on whatever day, to any verifier with a finite set of
\* keys: what passes verify carries a threshold of different pinned keys, the
\* version of its hour, and is usable at that clock.
THEOREM VerifiedUsableAlways == CalendarSpec => []VerifiedIsUsable
<1>1. CalendarInit => VerifiedIsUsable
  <2>1. CalendarInit => delivered = {}
    BY SMTT(30) DEF CalendarInit
  <2> QED
    BY <2>1 DEF VerifiedIsUsable
<1>2. Calendar /\ VerifiedIsUsable /\ [CalendarNext]_calendarVars => VerifiedIsUsable'
  <2> SUFFICES ASSUME Calendar, VerifiedIsUsable, [CalendarNext]_calendarVars PROVE VerifiedIsUsable'
    BY SMT
  <2>1. CASE Tomorrow
    BY <2>1 DEF Tomorrow, VerifiedIsUsable
  <2>2. CASE Yesterday
    BY SMT, <2>2 DEF Yesterday, VerifiedIsUsable
  <2>3. CASE DeliverToday
    <3>1. PICK h \in Hours, off \in Offsets, entries \in Entries :
              \E dc \in Documents(h) : Deliver(h, off, dc, entries)
      BY SMT, <2>3 DEF DeliverToday
    <3>2. PICK dc \in Documents(h) : Deliver(h, off, dc, entries)
      BY SMT, <3>1
    <3>3. h \in Nat /\ h <= 23
      BY SMTT(30), DocumentAssumption
    <3>4. PICK clock : clock = Unix(day, h * 3600 + off)
      BY SMT
    <3> DEFINE env == [document |-> dc, signatures |-> entries]
    <3>5. /\ delivered' = {[hour |-> h, env |-> env, now |-> clock, ok |-> verify(env, clock)]}
          /\ day' = day
      BY SMT, <3>2, <3>4 DEF Deliver
    <3>6. ASSUME verify(env, clock)
          PROVE  /\ \E ks \in SUBSET Pinned :
                        /\ Cardinality(ks) = Threshold /\ ks # {}
                        /\ \A k \in ks : \E i \in DOMAIN entries :
                               entries[i] = [key |-> k, good |-> TRUE]
                 /\ dc.version = day * 24 + h
                 /\ is_usable_at(dc, clock)
      <4>1. Threshold # 0 /\ Threshold <= Signatures(entries) /\ check_validity(dc, clock)
        BY SMTT(30), <3>6 DEF verify
      <4>2. is_usable_at(dc, clock)
        BY SMT, <4>1 DEF check_validity, is_usable_at
      <4>3. dc.version = day * 24 + h
        BY SMT, <3>3, <4>1, VersionIsHour
      <4> QED
        BY <4>1, <4>2, <4>3, SignersExist
    <3> SUFFICES ASSUME NEW x \in delivered', x.ok
                 PROVE  /\ \E ks \in SUBSET Pinned :
                               /\ Cardinality(ks) = Threshold /\ ks # {}
                               /\ \A k \in ks : \E i \in DOMAIN x.env.signatures :
                                      x.env.signatures[i] = [key |-> k, good |-> TRUE]
                        /\ x.env.document.version = day' * 24 + x.hour
                        /\ is_usable_at(x.env.document, x.now)
      BY DEF VerifiedIsUsable
    <3>7. x = [hour |-> h, env |-> env, now |-> clock, ok |-> verify(env, clock)]
      BY <3>5
    <3>8. /\ x.hour = h /\ x.env.document = dc /\ x.env.signatures = entries
          /\ x.now = clock /\ (x.ok <=> verify(env, clock))
      BY SMTT(30), <3>7
    <3> QED
      BY <3>5, <3>6, <3>8
  <2>4. CASE UNCHANGED calendarVars
    BY SMT, <2>4 DEF calendarVars, VerifiedIsUsable
  <2> QED
    BY SMT, <2>1, <2>2, <2>3, <2>4 DEF CalendarNext
<1> QED
  BY <1>1, <1>2, CalendarInvariant, PTL DEF CalendarSpec
=============================================================================
