---------------------------- MODULE RegistryCache ----------------------------
(***************************************************************************)
(* How a relay (or a client) obtains and keeps the signed registry: the    *)
(* fetch policy of quiethop-crypto/src/registry_cache.rs, the verification *)
(* of registry.rs, the rollback baseline that state.rs keeps in a file,    *)
(* and the relay's use of them in relay/src/main.rs and registry.rs.       *)
(*                                                                         *)
(* Every process of Procs uses the same state directory.  A process may    *)
(* crash between any two file-system operations and starts again with      *)
(* nothing but the directory.  What a fetch returns is an input: the       *)
(* actions that use a response take it as a parameter.                     *)
(*                                                                         *)
(* A document is its version (the hour it was published for) and its body  *)
(* (which relays it lists, as a number).  Its three timestamps follow from *)
(* the version, as the authority computes them.                            *)
(***************************************************************************)
EXTENDS Integers, FiniteSets

CONSTANTS
    Procs,      \* processes sharing the state directory
    MaxVer,     \* bound on the versions
    Bodies,     \* the relay lists a document may carry, positive numbers
    Hour,       \* ticks of the clock in an hour
    Skew,       \* SKEW_ALLOWANCE_SECS, in ticks
    Valid,      \* ValidWindow, in hours
    MaxTime,    \* bound on the clock
    MaxCrashes, \* bound on the crashes
    MaxFaults   \* bound on the damage to the state file from outside

ASSUME CacheAssumption ==
    /\ MaxVer \in Nat /\ Bodies \subseteq Nat \ {0}
    /\ Hour \in Nat \ {0} /\ Skew \in Nat /\ Valid \in Nat \ {0}
    /\ MaxTime \in Nat /\ MaxCrashes \in Nat /\ MaxFaults \in Nat

VARIABLES
    now,        \* now_unix()
    pc,         \* what each process is doing
    asked,      \* the clock a fetching process read before its fetch
    got,        \* the verified document each process is about to record
    current,    \* RegistryCache.current
    handle,     \* RegistryHandle.current, what the connections see
    fd,         \* the inode a process has open for writing
    tmp,        \* registry.json.tmp
    file,       \* registry.json
    accepted,   \* history: documents a process ever held as current
    overlapped, \* history: two processes were recording at the same time
    crashes, faults

vars == <<now, pc, asked, got, current, handle, fd, tmp, file, accepted,
          overlapped, crashes, faults>>

Docs == [ver : 1 .. MaxVer, body : Bodies]
NoDoc == [ver |-> 0, body |-> 0]    \* absent: no file, None
Torn == [ver |-> -1, body |-> 0]    \* bytes that do not parse

\* A process is "down"; "idle", waiting for the next poll; "fetching";
\* "verified", in registry::remember; then in state::store at "open", "write"
\* (write_all) and "rename".
Init ==
    /\ now = 0
    /\ pc = [p \in Procs |-> "down"]
    /\ asked = [p \in Procs |-> 0]
    /\ got = [p \in Procs |-> NoDoc]
    /\ current = [p \in Procs |-> NoDoc]
    /\ handle = [p \in Procs |-> NoDoc]
    /\ fd = [p \in Procs |-> "none"]
    /\ tmp = NoDoc
    /\ file = NoDoc
    /\ accepted = [p \in Procs |-> {}]
    /\ overlapped = FALSE
    /\ crashes = 0 /\ faults = 0
-----------------------------------------------------------------------------
(* The checks of registry.rs. *)

ValidAfter(d) == d.ver * Hour
FreshUntil(d) == (d.ver + 1) * Hour
ValidUntil(d) == (d.ver + Valid) * Hour

is_usable_at(d, t) == t + Skew >= ValidAfter(d) /\ t < ValidUntil(d)

check_rollback_NumberOnly(d, prev) == d.ver >= prev.ver
check_rollback_BytesOnly(d, prev) == prev = NoDoc \/ d.ver # prev.ver \/ d = prev

\* The document is not older than the baseline, and the same version means the
\* same bytes.
check_rollback(d, prev) ==
    \/ prev = NoDoc
    \/ d.ver > prev.ver
    \/ d = prev

\* A body that carries enough signatures is a member of Docs; anything else
\* the server may send is NoDoc here and fails.
verify(d, t, prev) == d \in Docs /\ is_usable_at(d, t) /\ check_rollback(d, prev)

Readable(f) == f # Torn
-----------------------------------------------------------------------------
fileVars == <<fd, tmp, file>>

\* The task gives up this attempt.  While the registry is being primed main
\* returns; later the poll loop only logs.
Fail(p) ==
    /\ pc' = [pc EXCEPT ![p] = IF handle[p] = NoDoc THEN "down" ELSE "idle"]
    /\ got' = [got EXCEPT ![p] = NoDoc]
    /\ current' = [current EXCEPT ![p] = IF handle[p] = NoDoc THEN NoDoc ELSE @]

\* self.current = Some(d), then usable and publish in the caller: a document
\* that is not usable at this moment is not published.
Accept(p, d) ==
    /\ got' = [got EXCEPT ![p] = NoDoc]
    /\ accepted' = [accepted EXCEPT ![p] = @ \cup {d}]
    /\ IF is_usable_at(d, now)
       THEN /\ current' = [current EXCEPT ![p] = d]
            /\ handle' = [handle EXCEPT ![p] = d]
            /\ pc' = [pc EXCEPT ![p] = "idle"]
       ELSE /\ current' = [current EXCEPT ![p] = IF handle[p] = NoDoc THEN NoDoc ELSE d]
            /\ pc' = [pc EXCEPT ![p] = IF handle[p] = NoDoc THEN "down" ELSE "idle"]
            /\ UNCHANGED handle

\* reuse_stored: the stored document passes verification against itself and
\* is still fresh.
Reusable(t) ==
    /\ file # NoDoc /\ Readable(file)
    /\ verify(file, t, file)
    /\ FreshUntil(file) > t

\* prime, at startup, without a fetch.
prime_reuse(p) ==
    /\ pc[p] = "down"
    /\ Reusable(now)
    /\ Accept(p, file)
    /\ UNCHANGED <<now, asked, fileVars, overlapped, crashes, faults>>

StartFetch(p) ==
    /\ pc' = [pc EXCEPT ![p] = "fetching"]
    /\ asked' = [asked EXCEPT ![p] = now]
    /\ UNCHANGED <<now, got, current, handle, fileVars, accepted, overlapped, crashes, faults>>

prime_fetch(p) ==
    /\ pc[p] = "down"
    /\ ~ Reusable(now)
    /\ StartFetch(p)

\* refresh_if_stale from the poll loop.
refresh_if_stale(p) ==
    /\ pc[p] = "idle"
    /\ FreshUntil(current[p]) <= now
    /\ StartFetch(p)

\* Ok(false): the document is still fresh and nothing happens.
refresh_not_due(p) ==
    /\ pc[p] = "idle"
    /\ FreshUntil(current[p]) > now
    /\ UNCHANGED vars

\* The fetch fails, or the response carries no acceptable signature.
fetch_error(p) ==
    /\ pc[p] = "fetching"
    /\ Fail(p)
    /\ asked' = [asked EXCEPT ![p] = 0]
    /\ UNCHANGED <<now, handle, fileVars, accepted, overlapped, crashes, faults>>

\* accept_body with a response: load the baseline (an unreadable file is an
\* error) and verify against it, at the time read before the fetch.
accept_body(p, d) ==
    /\ pc[p] = "fetching"
    /\ Readable(file)
    /\ verify(d, asked[p], file)
    /\ pc' = [pc EXCEPT ![p] = "verified"]
    /\ got' = [got EXCEPT ![p] = d]
    /\ overlapped' = (overlapped \/ \E q \in Procs \ {p} : got[q] # NoDoc)
    /\ asked' = [asked EXCEPT ![p] = 0]
    /\ UNCHANGED <<now, current, handle, fileVars, accepted, crashes, faults>>

accept_body_error(p, d) ==
    /\ pc[p] = "fetching"
    /\ ~ (Readable(file) /\ verify(d, asked[p], file))
    /\ Fail(p)
    /\ asked' = [asked EXCEPT ![p] = 0]
    /\ UNCHANGED <<now, handle, fileVars, accepted, overlapped, crashes, faults>>
-----------------------------------------------------------------------------
(* registry::remember and state::store. *)

\* The baseline is loaded again: it already covers this version.
remember(p) ==
    /\ pc[p] = "verified"
    /\ Readable(file)
    /\ file.ver >= got[p].ver
    /\ Accept(p, got[p])
    /\ UNCHANGED <<now, asked, fileVars, overlapped, crashes, faults>>

\* The document advances the version and is to be stored.
remember_store(p) ==
    /\ pc[p] = "verified"
    /\ Readable(file)
    /\ file.ver < got[p].ver
    /\ pc' = [pc EXCEPT ![p] = "open"]
    /\ UNCHANGED <<now, asked, got, current, handle, fileVars, accepted, overlapped, crashes, faults>>

remember_error(p) ==
    /\ pc[p] = "verified"
    /\ ~ Readable(file)
    /\ Fail(p)
    /\ UNCHANGED <<now, asked, handle, fileVars, accepted, overlapped, crashes, faults>>

store_open_InPlace(p) ==
    /\ pc[p] = "open"
    /\ pc' = [pc EXCEPT ![p] = "write"]
    /\ fd' = [fd EXCEPT ![p] = "file"]
    /\ file' = Torn
    /\ UNCHANGED <<now, asked, got, current, handle, tmp, accepted, overlapped, crashes, faults>>

\* open(tmp) creates the temporary file or truncates the one that is there.
store_open(p) ==
    /\ pc[p] = "open"
    /\ pc' = [pc EXCEPT ![p] = "write"]
    /\ fd' = [fd EXCEPT ![p] = "tmp"]
    /\ tmp' = Torn
    /\ UNCHANGED <<now, asked, got, current, handle, file, accepted, overlapped, crashes, faults>>

\* write_all and sync_all, through the open descriptor.  The temporary file
\* may meanwhile have been renamed over the target by another process, or
\* written by it: then a longer body shows through behind a shorter one.
Written(p, f) == IF f = Torn THEN {got[p]} ELSE {got[p], Torn}

store_write(p) ==
    /\ pc[p] = "write"
    /\ pc' = [pc EXCEPT ![p] = "rename"]
    /\ fd' = [fd EXCEPT ![p] = "none"]
    /\ \/ fd[p] = "tmp" /\ tmp' \in Written(p, tmp) /\ UNCHANGED file
       \/ fd[p] = "file" /\ file' \in Written(p, file) /\ UNCHANGED tmp
       \/ fd[p] = "none" /\ UNCHANGED <<tmp, file>>
    /\ UNCHANGED <<now, asked, got, current, handle, accepted, overlapped, crashes, faults>>

\* rename(tmp, target), and accept_body returns.  Descriptors follow their
\* inode; one still open on the replaced target now writes to no name.
store_rename(p) ==
    /\ pc[p] = "rename"
    /\ tmp # NoDoc
    /\ file' = tmp
    /\ tmp' = NoDoc
    /\ fd' = [q \in Procs |-> IF fd[q] = "tmp" THEN "file" ELSE "none"]
    /\ Accept(p, got[p])
    /\ UNCHANGED <<now, asked, overlapped, crashes, faults>>

\* The temporary file is gone: rename reports it.
store_rename_error(p) ==
    /\ pc[p] = "rename"
    /\ tmp = NoDoc
    /\ Fail(p)
    /\ UNCHANGED <<now, asked, handle, fileVars, accepted, overlapped, crashes, faults>>

\* open, write or sync fails (a full disk): the temporary file stays behind.
store_error(p) ==
    /\ faults < MaxFaults
    /\ faults' = faults + 1
    /\ pc[p] \in {"open", "write"}
    /\ Fail(p)
    /\ fd' = [fd EXCEPT ![p] = "none"]
    /\ UNCHANGED <<now, asked, handle, tmp, file, accepted, overlapped, crashes>>
-----------------------------------------------------------------------------
\* The process dies.  Only the directory survives.
Crash(p) ==
    /\ crashes < MaxCrashes
    /\ crashes' = crashes + 1
    /\ pc[p] # "down"
    /\ pc' = [pc EXCEPT ![p] = "down"]
    /\ got' = [got EXCEPT ![p] = NoDoc]
    /\ current' = [current EXCEPT ![p] = NoDoc]
    /\ handle' = [handle EXCEPT ![p] = NoDoc]
    /\ asked' = [asked EXCEPT ![p] = 0]
    /\ fd' = [fd EXCEPT ![p] = "none"]
    /\ UNCHANGED <<now, tmp, file, accepted, overlapped, faults>>

\* The state file is damaged from outside: it no longer parses.
Damage ==
    /\ faults < MaxFaults
    /\ faults' = faults + 1
    /\ file \in Docs
    /\ file' = Torn
    /\ UNCHANGED <<now, pc, asked, got, current, handle, fd, tmp, accepted, overlapped, crashes>>

Tick ==
    /\ now < MaxTime
    /\ now' = now + 1
    /\ UNCHANGED <<pc, asked, got, current, handle, fileVars, accepted, overlapped, crashes, faults>>

\* Everything a process does that involves no response from the authority.
Local(p) ==
    \/ prime_reuse(p)
    \/ prime_fetch(p)
    \/ refresh_if_stale(p)
    \/ refresh_not_due(p)
    \/ remember(p)
    \/ remember_store(p)
    \/ remember_error(p)
    \/ store_open(p)
    \/ store_write(p)
    \/ store_rename(p)
    \/ store_rename_error(p)

Response(p, d) == accept_body(p, d) \/ accept_body_error(p, d)

Environment ==
    \/ \E p \in Procs : fetch_error(p) \/ store_error(p) \/ Crash(p)
    \/ Damage
    \/ Tick

\* Any signed document may come back from any fetch: old ones, two bodies for
\* one version, documents that are not valid yet.
Next ==
    \/ \E p \in Procs : Local(p) \/ \E d \in Docs : Response(p, d)
    \/ Environment

Spec == Init /\ [][Next]_vars
-----------------------------------------------------------------------------
\* A document newly taken as current is at least as new as all before it.
Advances ==
    \A p \in Procs :
        current'[p] # current[p] /\ current'[p] # NoDoc =>
            \A d \in accepted[p] : d.ver <= current'[p].ver

\* "The highest registry version this holder has accepted ... must survive a
\* restart" (state.rs): a process never takes as current a document older than
\* one it held before, in this life or an earlier one.
NoRollback == [][Advances]_vars

\* The same across crashes, failed stores and a damaged file, for any number of
\* processes on the directory, as long as no two of them were ever between the
\* verification of a document and the end of its store at the same time.
SerialNoRollback == [][~ overlapped' => Advances]_vars

\* Two documents under one version are never both taken, in one life or in
\* two: the baseline keeps the bytes and not only the number (state.rs).
SerialNoEquivocation ==
    ~ overlapped =>
        \A p \in Procs : \A d, e \in accepted[p] : d.ver = e.ver => d = e

\* "Write the state atomically" (state.rs): no step of store, and no crash or
\* error between two of them, ever turns a state file that parses into one that
\* does not; only damage from outside does, a step in which no process moves.
SerialStoreAtomic ==
    [][~ overlapped' /\ file' = Torn => file = Torn \/ UNCHANGED pc]_vars
=============================================================================
