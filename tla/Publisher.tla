------------------------------ MODULE Publisher ------------------------------
(***************************************************************************)
(* The authority's side of the registry: relay heartbeats and the sweep    *)
(* that decide which relays are active, and Publisher.Current, which       *)
(* answers GET /api/v1/registry with one signed document per hour          *)
(* (authority/internal/registry/publish.go, internal/relay/relay.go).      *)
(*                                                                         *)
(* Several instances of the authority share one database, each with its    *)
(* own clock and its own in-memory copy of the last document.  Every       *)
(* request runs in a goroutine of its own; each database statement is one  *)
(* step.  The database may be unreachable for a while, and an INSERT whose *)
(* answer was lost may or may not have taken effect.                       *)
(***************************************************************************)
EXTENDS Integers, FiniteSets

CONSTANTS
    Instances,   \* authority processes
    Ahead,       \* those whose clock is a tick ahead of the others
    Reqs,        \* requests that may be in progress at the same time
    Relays,      \* provisioned relays
    Hour,        \* ticks of the clock in an hour
    Valid,       \* ValidWindow, in hours
    MaxTime,     \* bound on the clock
    MaxOutages   \* bound on the database outages

ASSUME PublisherAssumption ==
    /\ Instances # {} /\ Ahead \subseteq Instances
    /\ Hour \in Nat \ {0} /\ Valid \in Nat \ {0}
    /\ MaxTime \in Nat /\ MaxOutages \in Nat

VARIABLES
    now,        \* the time of day
    active,     \* relays with status = 'active'
    up,         \* the database answers
    rows,       \* registry_documents
    last,       \* Publisher.lastDoc of each instance
    req,        \* where each request is in Current
    inst,       \* the instance that serves a request
    start,      \* the time the handler passed to Current
    doc,        \* the document a request has built or read
    outages

pubVars == <<active, up, rows, last, req, inst, start, doc, outages>>
vars == <<now, pubVars>>

Docs == [ver : Nat, body : SUBSET Relays]
NoDoc == [ver |-> 0, body |-> {}]

\* "idle"; then Current: "load" the hour's row, "build" a document, "insert"
\* it, "reload" the winner's row, "remember" and return; "answered" holds the
\* response until the caller has it (NoDoc for an error status).
ReqStates == {"idle", "load", "build", "insert", "reload", "remember", "answered"}

\* Where the instance of an idle request stands.
Unassigned == CHOOSE i \in Instances : TRUE

HourOf(t) == t \div Hour
Clock(i) == IF i \in Ahead THEN now + 1 ELSE now
ValidUntil(d) == (d.ver + Valid) * Hour

\* The version of the document a request is after.
Version(r) == HourOf(start[r])

\* A request holds no document before it has built or read one, and what it
\* inserts is for its own hour.
TypeOK ==
    /\ now \in Nat
    /\ active \subseteq Relays
    /\ up \in BOOLEAN
    /\ rows \subseteq Docs
    /\ last \in [Instances -> Docs]
    /\ req \in [Reqs -> ReqStates]
    /\ inst \in [Reqs -> Instances]
    /\ start \in [Reqs -> 0 .. now + 1]
    /\ doc \in [Reqs -> Docs]
    /\ outages \in Nat
    /\ \A r \in Reqs :
          /\ req[r] = "insert" => doc[r].ver = Version(r)
          /\ req[r] \in {"idle", "load", "build", "reload"} => doc[r] = NoDoc

Init ==
    /\ now = Hour
    /\ active = {}
    /\ up = TRUE
    /\ rows = {}
    /\ last = [i \in Instances |-> NoDoc]
    /\ req = [r \in Reqs |-> "idle"]
    /\ inst = [r \in Reqs |-> Unassigned]
    /\ start = [r \in Reqs |-> 0]
    /\ doc = [r \in Reqs |-> NoDoc]
    /\ outages = 0
-----------------------------------------------------------------------------
(* The relay table. *)

RecordHeartbeat(x) ==
    /\ up
    /\ active' = active \cup {x}
    /\ UNCHANGED <<now, up, rows, last, req, inst, start, doc, outages>>

\* The sweep finds the relays of `silent` without a heartbeat for longer than
\* inactivityTTL, which is much shorter than a tick of the clock.
SweepInactiveRelays(silent) ==
    /\ up
    /\ active' = active \ silent
    /\ UNCHANGED <<now, up, rows, last, req, inst, start, doc, outages>>
-----------------------------------------------------------------------------
(* Publisher. *)

reqVars == <<rows, last>>
envVars == <<now, active, up, inst, outages>>

Step(r, from, to, d) ==
    /\ req[r] = from
    /\ req' = [req EXCEPT ![r] = to]
    /\ doc' = [doc EXCEPT ![r] = d]

\* HandleRegistry calls Current with the clock of its instance.
Current(r, i) ==
    /\ Step(r, "idle", "load", NoDoc)
    /\ inst' = [inst EXCEPT ![r] = i]
    /\ start' = [start EXCEPT ![r] = Clock(i)]
    /\ UNCHANGED <<now, active, up, outages, reqVars>>

Stored(r) == {d \in rows : d.ver = Version(r)}

cached_Extends(r) == last[inst[r]]

\* The in-memory copy, while it is valid at the request's own time.
cached(r) ==
    IF start[r] < ValidUntil(last[inst[r]]) THEN last[inst[r]] ELSE NoDoc

\* The error exits of Current: the copy if there is one to serve, otherwise an
\* error status.
Fallback(r, from) ==
    /\ Step(r, from, "answered", cached(r))
    /\ UNCHANGED <<start, envVars>>

load_row(r) ==
    /\ up
    /\ \E d \in Stored(r) : Step(r, "load", "remember", d)
    /\ UNCHANGED <<start, reqVars, envVars>>

load_no_rows(r) ==
    /\ up /\ Stored(r) = {}
    /\ Step(r, "load", "build", NoDoc)
    /\ UNCHANGED <<start, reqVars, envVars>>

load_error(r) ==
    /\ ~ up
    /\ Fallback(r, "load")
    /\ UNCHANGED reqVars

publish_build_ThisHour(r) ==
    /\ up
    /\ Step(r, "build", "insert", [ver |-> HourOf(Clock(inst[r])), body |-> active])
    /\ UNCHANGED <<start, reqVars, envVars>>

\* activeRelays, and the document built from it and signed.
publish_build(r) ==
    /\ up
    /\ Step(r, "build", "insert", [ver |-> Version(r), body |-> active])
    /\ UNCHANGED <<start, reqVars, envVars>>

publish_build_error(r) ==
    /\ ~ up
    /\ Fallback(r, "build")
    /\ UNCHANGED reqVars

Conflict_Never(r) == FALSE

\* ON CONFLICT (valid_after) DO NOTHING
Conflict(r) == Stored(r) # {}

publish_insert(r) ==
    /\ up /\ ~ Conflict(r)
    /\ rows' = rows \cup {doc[r]}
    /\ Step(r, "insert", "remember", doc[r])
    /\ UNCHANGED <<start, last, envVars>>

publish_lost_Serves(r) ==
    /\ up /\ Conflict(r)
    /\ Step(r, "insert", "remember", doc[r])
    /\ UNCHANGED <<start, reqVars, envVars>>

publish_lost(r) ==
    /\ up /\ Conflict(r)
    /\ Step(r, "insert", "reload", NoDoc)
    /\ UNCHANGED <<start, reqVars, envVars>>

\* The connection fails during the INSERT: before or after it was committed.
publish_insert_error(r) ==
    /\ ~ up
    /\ Fallback(r, "insert")
    /\ rows' \in {rows, IF Conflict(r) THEN rows ELSE rows \cup {doc[r]}}
    /\ UNCHANGED <<last>>

reload_row(r) ==
    /\ up
    /\ \E d \in Stored(r) : Step(r, "reload", "remember", d)
    /\ UNCHANGED <<start, reqVars, envVars>>

reload_error(r) ==
    /\ ~ up
    /\ Fallback(r, "reload")
    /\ UNCHANGED reqVars

\* remember takes the lock, whatever other requests have put there meanwhile,
\* and Current returns.
remember(r) ==
    /\ Step(r, "remember", "answered", doc[r])
    /\ last' = [last EXCEPT ![inst[r]] = doc[r]]
    /\ UNCHANGED <<start, rows, envVars>>

\* The response has reached its client, or been lost with its connection.
HandleRegistry(r) ==
    /\ Step(r, "answered", "idle", NoDoc)
    /\ inst' = [inst EXCEPT ![r] = Unassigned]
    /\ start' = [start EXCEPT ![r] = 0]
    /\ UNCHANGED <<now, active, up, outages, reqVars>>

Serve(r) ==
    \/ load_row(r) \/ load_no_rows(r) \/ load_error(r)
    \/ publish_build(r) \/ publish_build_error(r)
    \/ publish_insert(r) \/ publish_lost(r) \/ publish_insert_error(r)
    \/ reload_row(r) \/ reload_error(r)
    \/ remember(r)
-----------------------------------------------------------------------------
(* The environment. *)

\* An instance restarts: its copy is gone and its requests end in an error.
Restart(i) ==
    /\ last' = [last EXCEPT ![i] = NoDoc]
    /\ req' = [r \in Reqs |->
                  IF inst[r] = i /\ req[r] # "idle" THEN "answered" ELSE req[r]]
    /\ doc' = [r \in Reqs |-> IF inst[r] = i THEN NoDoc ELSE doc[r]]
    /\ UNCHANGED <<start, rows, envVars>>

Outage ==
    /\ up /\ outages < MaxOutages
    /\ up' = FALSE
    /\ outages' = outages + 1
    /\ UNCHANGED <<now, active, rows, last, req, inst, start, doc>>

Recover ==
    /\ ~ up
    /\ up' = TRUE
    /\ UNCHANGED <<now, active, rows, last, req, inst, start, doc, outages>>

Tick ==
    /\ now < MaxTime
    /\ now' = now + 1
    /\ UNCHANGED pubVars

Churn ==
    \/ \E x \in Relays : RecordHeartbeat(x)
    \/ \E silent \in SUBSET Relays : SweepInactiveRelays(silent)

Next ==
    \/ \E r \in Reqs :
          \/ \E i \in Instances : Current(r, i)
          \/ Serve(r)
          \/ HandleRegistry(r)
    \/ \E i \in Instances : Restart(i)
    \/ Churn
    \/ Outage
    \/ Recover
    \/ Tick

Spec == Init /\ [][Next]_vars
-----------------------------------------------------------------------------
\* What is or may be answered: responses on their way and the copies in memory.
Answers == {doc[r] : r \in {q \in Reqs : req[q] \in {"remember", "answered"}}}
           \cup {last[i] : i \in Instances}

\* "It never returns bytes that were not stored": with two requests of two
\* instances building different documents for one hour, and INSERTs whose
\* outcome is unknown, every document answered is a row of the database.
OnlyStored == Answers \subseteq rows \cup {NoDoc}

\* "Two clients in the same hour cannot see different bytes": one document per
\* version, among the rows and among everything that is answered.
OneDocumentPerHour ==
    \A d, e \in (rows \cup Answers) \ {NoDoc} : d.ver = e.ver => d = e

\* "It never extends valid_until": an answer, however late it is given, was
\* valid at the time its request came in.
AnswersValid ==
    \A r \in Reqs :
        req[r] = "answered" /\ doc[r] # NoDoc => start[r] < ValidUntil(doc[r])
=============================================================================
