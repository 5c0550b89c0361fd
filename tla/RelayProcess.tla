---------------------------- MODULE RelayProcess ----------------------------
(***************************************************************************)
(* The relay as a process of its host: the key file and the keygen runs    *)
(* that write it, the start-up sequence of main, the tasks it spawns, the  *)
(* connections its three listeners serve, the heartbeats that keep its row *)
(* of the authority's relay table active, and the shutdown.                *)
(*                                                                         *)
(* A keygen run r makes key r.  Key r is also the name of the row that an  *)
(* operator provisions with it.  One connection at a time is followed; it  *)
(* may be on any of the listeners.  In a circuit the cells that open a     *)
(* link may come in any order and any number.                              *)
(***************************************************************************)
EXTENDS Integers, FiniteSets

CONSTANTS
    Runs,        \* keygen runs, one key each
    Roles,       \* values RELAY_ROLE may have
    Proxies,     \* values DECODO_PROXY_URL may have
    Ports,       \* destination ports clients ask for
    Allowed,     \* values ALLOWED_EXIT_PORTS may have
    MaxHead,     \* MAX_REQUEST_HEAD, in reads
    TTL,         \* sweep ttl, in heartbeat intervals
    MaxStarts,   \* bound on starts of the process
    MaxRemovals, \* bound on the times an operator removes the key file
    MaxFollowed  \* connections are followed in the first MaxFollowed starts

ASSUME ProcessAssumption ==
    /\ MaxHead \in Nat \ {0} /\ TTL \in Nat \ {0}
    /\ MaxStarts \in Nat /\ MaxRemovals \in Nat /\ MaxFollowed \in Nat
    /\ Runs \subseteq Nat /\ 0 \notin Runs /\ 0 \notin Ports
    /\ Proxies \subseteq {"absent", "empty", "no url", "scheme", "no host", "no port",
                        "socks5", "socks5h"}

VARIABLES
    role, proxy, allowed,   \* RELAY_ROLE, DECODO_PROXY_URL, ALLOWED_EXIT_PORTS
    apiRow,                 \* the row whose API key is configured, 0 for none
    keyFile,                \* the key file: absent, part written, or whole
    keygen,                 \* where each keygen run is
    removed,                \* runs whose file the operator removed
    rows,                   \* the relay table
    mainAt,                 \* where main is
    key, pinned, registry,  \* what main has set up: key loaded, pins made
    task,                   \* the four tasks main waits for
    conn,                   \* the connection
    missed,                 \* history: tasks that lost the shutdown notice
    starts                  \* starts of the process

cfgVars == <<role, proxy, allowed>>
keyVars == <<apiRow, keyFile, keygen, removed>>
mainVars == <<mainAt, key, pinned, registry, starts>>
taskVars == <<task, missed>>
processVars == <<cfgVars, keyVars, rows, mainVars, taskVars, conn>>

Loops == {"accept", "metrics", "port80"}
Tasks == Loops \cup {"heartbeat"}
NoFile == [st |-> "absent", key |-> 0]
NoConn == [at |-> "none", read |-> 0, port |-> 0, link |-> "none", opened |-> 0]
Idle == [t \in Tasks |-> "off"]

ProcessInit ==
    /\ role \in Roles
    /\ proxy \in Proxies /\ (role # "exit" => proxy = "absent")
    /\ allowed \in Allowed
    /\ apiRow = 0 /\ keyFile = NoFile
    /\ keygen = [r \in Runs |-> "idle"]
    /\ removed = {} /\ starts = 0
    /\ rows = [r \in Runs |-> [st |-> "none", age |-> 0]]
    /\ mainAt = "down" /\ key = 0 /\ pinned = FALSE /\ registry = FALSE
    /\ task = Idle /\ missed = {} /\ conn = NoConn

(***************************************************************************)
(* keygen: an exclusive create, the write of both halves, and the print of *)
(* the public one.                                                         *)
(***************************************************************************)
KeygenTo(r, at) == keygen' = [keygen EXCEPT ![r] = at] /\ UNCHANGED <<apiRow, removed>>

\* Runs are numbered in the order they try to create the file.
Begins(r) == keygen[r] = "idle" /\ \A q \in Runs : q < r => keygen[q] # "idle"

\* Mutant: an existing file is opened and overwritten.
generate_open_Truncate(r) ==
    /\ Begins(r)
    /\ keyFile' = [st |-> "part", key |-> r] /\ KeygenTo(r, "writing")

generate_open(r) ==
    /\ Begins(r)
    /\ IF keyFile.st = "absent"
       THEN keyFile' = [st |-> "part", key |-> r] /\ KeygenTo(r, "writing")
       ELSE UNCHANGED keyFile /\ KeygenTo(r, "failed")

\* The bytes go to the file this run created, which is in no directory any
\* more once the operator removed it.
generate_write(r) ==
    /\ keygen[r] = "writing" /\ KeygenTo(r, "written")
    /\ keyFile' = IF keyFile.key = r THEN [st |-> "whole", key |-> r] ELSE keyFile

\* A run that ends before this, by a crash or a closed stdout, stays "written".
run_keygen_print(r) ==
    keygen[r] = "written" /\ KeygenTo(r, "printed") /\ UNCHANGED keyFile

\* The file cannot be opened, or a write error or a crash leaves what was
\* written.
generate_fail(r) ==
    /\ (Begins(r) \/ keygen[r] = "writing") /\ KeygenTo(r, "failed")
    /\ UNCHANGED keyFile

\* The runs that wrote their whole file.
KeyWritten == {"written", "printed"}

\* The operator removes the key file, to make a new key.
RemoveKey ==
    /\ Cardinality(removed) < MaxRemovals /\ keyFile.st # "absent"
    /\ keyFile' = NoFile /\ removed' = removed \cup {keyFile.key}
    /\ UNCHANGED <<apiRow, keygen>>

\* ProvisionRelay with the key a keygen run printed; the row's API key goes
\* into the relay's environment.
ProvisionRelay(r) ==
    /\ keygen[r] = "printed" /\ rows[r].st = "none" /\ mainAt = "down"
    /\ rows' = [rows EXCEPT ![r].st = "inactive"]
    /\ apiRow' = r
    /\ UNCHANGED <<keyFile, keygen, removed>>

Keys ==
    /\ UNCHANGED <<cfgVars, mainVars, taskVars, conn>>
    /\ \/ /\ UNCHANGED rows
          /\ \E r \in Runs : \/ generate_open(r) \/ generate_write(r)
                             \/ run_keygen_print(r) \/ generate_fail(r)
       \/ UNCHANGED rows /\ RemoveKey
       \/ \E r \in Runs : ProvisionRelay(r)
(***************************************************************************)
(* Start-up: every step of main either goes on or exits.                   *)
(***************************************************************************)

\* What dial_via_socks5 needs of the proxy URL.
ProxyUsable(p) == p \in {"socks5", "socks5h"}

\* Mutant: a proxy without a port passes.
from_source_NoPort(p) == role = "exit" => p \in {"socks5", "socks5h", "no port"}

\* RelayConfig::from_source, of the variables that matter later.
from_source(p) == role = "exit" => ~(p \in {"absent", "empty", "no url", "scheme", "no host", "no port"})

Exit ==
    /\ mainAt' = "down" /\ key' = 0 /\ pinned' = FALSE /\ registry' = FALSE
    /\ UNCHANGED starts

\* The other variables are there and well formed, or not.
main_config ==
    /\ mainAt = "down" /\ starts < MaxStarts /\ apiRow # 0
    /\ starts' = starts + 1
    /\ \E ok \in BOOLEAN : mainAt' = IF ok /\ from_source(proxy) THEN "key" ELSE "down"
    /\ UNCHANGED <<key, pinned, registry>>

\* The keys load may return: none of a missing or truncated file, and perhaps
\* none of a whole one, which may be unreadable or have a loose mode.
load == IF keyFile.st = "whole" THEN {0, keyFile.key} ELSE {0}

main_key ==
    /\ mainAt = "key"
    /\ \E k \in load :
           IF k # 0 THEN mainAt' = "pin" /\ key' = k /\ UNCHANGED <<pinned, registry, starts>>
           ELSE Exit

\* It has no timeout; a bad answer or none is an exit.
fetch_and_pin ==
    /\ mainAt = "pin"
    /\ \/ mainAt' = "acme" /\ pinned' = TRUE /\ UNCHANGED <<key, registry, starts>>
       \/ Exit

\* The directory of the certificate cache may be refused.
acme_setup ==
    /\ mainAt = "acme"
    /\ \/ mainAt' = "connector" /\ UNCHANGED <<key, pinned, registry, starts>>
       \/ Exit

\* There may be no root certificates.
outbound_connector ==
    /\ mainAt = "connector"
    /\ \/ mainAt' = "registry" /\ UNCHANGED <<key, pinned, registry, starts>>
       \/ Exit

\* Mutant: a failed prime is logged and start-up goes on.
main_registry_GoesOn ==
    /\ mainAt = "registry" /\ mainAt' = "bind"
    /\ registry' \in BOOLEAN /\ UNCHANGED <<key, pinned, starts>>

\* The registry cache, prime and usable.
main_registry ==
    /\ mainAt = "registry"
    /\ \/ mainAt' = "bind" /\ registry' = TRUE /\ UNCHANGED <<key, pinned, starts>>
       \/ Exit

\* Three binds and the spawns.  The heartbeat task sends one first; a loop
\* waits for nothing before it is first polled.
main_bind ==
    /\ mainAt = "bind"
    /\ \/ /\ mainAt' = "serving" /\ UNCHANGED <<key, pinned, registry, starts>>
          /\ task' = [t \in Tasks |-> IF t = "heartbeat" THEN "sending" ELSE "spawned"]
          /\ UNCHANGED missed
       \/ Exit /\ UNCHANGED taskVars

(***************************************************************************)
(* Shutdown.  notify_waiters reaches the tasks that wait at that moment,   *)
(* and no other notice follows.                                            *)
(***************************************************************************)

\* Mutant: notify_one.
notify_waiters_One ==
    \E t \in {u \in Tasks : task[u] = "waiting"} : task' = [task EXCEPT ![t] = "notified"]

notify_waiters ==
    task' = [t \in Tasks |-> IF task[t] = "waiting" THEN "notified" ELSE task[t]]

ctrl_c ==
    /\ mainAt = "serving"
    /\ mainAt' = "stopping" /\ notify_waiters
    /\ missed' = {t \in Tasks : task[t] \in {"spawned", "sending"}}
    /\ UNCHANGED <<key, pinned, registry, starts>>

\* The handles are awaited; then the process and its connections end.
main_exit ==
    /\ mainAt = "stopping" /\ \A t \in Tasks : task[t] = "stopped"
    /\ Exit /\ task' = Idle /\ missed' = {} /\ conn' = NoConn

\* The process is killed, or crashes.
Kill ==
    /\ mainAt # "down"
    /\ Exit /\ task' = Idle /\ missed' = {} /\ conn' = NoConn

Main ==
    /\ UNCHANGED <<cfgVars, keyVars, rows>>
    /\ \/ UNCHANGED <<taskVars, conn>> /\ (main_config \/ main_key \/ fetch_and_pin \/ acme_setup
                                           \/ outbound_connector \/ main_registry)
       \/ (main_bind \/ ctrl_c) /\ UNCHANGED conn
       \/ main_exit
(***************************************************************************)
(* Heartbeats and the relay table.                                         *)
(***************************************************************************)

\* Mutant: the offered key is not compared.
RecordHeartbeat_AnyKey(offered) ==
    rows' = [rows EXCEPT ![apiRow] = [st |-> "active", age |-> 0]]

\* The UPDATE matches the row of the API key if it holds the offered key.
RecordHeartbeat(offered) ==
    rows' = IF offered = apiRow THEN [rows EXCEPT ![apiRow] = [st |-> "active", age |-> 0]]
            ELSE rows

\* One heartbeat: it is recorded or rejected, or lost or timed out.
send_one ==
    /\ task["heartbeat"] = "sending"
    /\ RecordHeartbeat(key) \/ UNCHANGED rows
    /\ task' = [task EXCEPT !["heartbeat"] = "waiting"]
    /\ UNCHANGED missed

\* The interval is over; a notice that came with it is dropped when select!
\* happens to take this branch.
heartbeat_sleep ==
    /\ task["heartbeat"] \in {"waiting", "notified"}
    /\ task' = [task EXCEPT !["heartbeat"] = "sending"]
    /\ missed' = IF task["heartbeat"] = "notified" THEN missed \cup {"heartbeat"} ELSE missed
    /\ UNCHANGED rows

\* The first poll of a loop creates its notified() future.
FirstPoll(l) ==
    /\ task[l] = "spawned"
    /\ task' = [task EXCEPT ![l] = "waiting"]
    /\ UNCHANGED <<missed, rows>>

\* A task takes the branch of the notice.
TaskStops(t) ==
    /\ task[t] = "notified"
    /\ task' = [task EXCEPT ![t] = "stopped"]
    /\ UNCHANGED <<missed, rows>>

Interval ==
    /\ rows' = [r \in Runs |-> IF rows[r].st = "active" /\ rows[r].age <= TTL
                               THEN [rows[r] EXCEPT !.age = @ + 1] ELSE rows[r]]
    /\ rows' # rows
    /\ UNCHANGED taskVars

SweepInactiveRelays ==
    /\ \E r \in Runs : rows[r].st = "active" /\ rows[r].age > TTL
    /\ rows' = [r \in Runs |-> IF rows[r].st = "active" /\ rows[r].age > TTL
                               THEN [st |-> "inactive", age |-> 0] ELSE rows[r]]
    /\ UNCHANGED taskVars

Background ==
    /\ UNCHANGED <<cfgVars, keyVars, mainVars, conn>>
    /\ \/ send_one \/ heartbeat_sleep
       \/ \E l \in Loops : FirstPoll(l)
       \/ \E t \in Tasks : TaskStops(t)
       \/ Interval \/ SweepInactiveRelays

(***************************************************************************)
(* Connections.                                                            *)
(***************************************************************************)
At(stage) == conn' = [conn EXCEPT !.at = stage]
Close == conn' = NoConn

\* A loop accepts; as with the heartbeat, a notice that came with the
\* connection, or before notified() is called again, is dropped.
accept(l, stage) ==
    /\ task[l] \in {"waiting", "notified"} /\ conn = NoConn
    /\ starts <= MaxFollowed
    /\ conn' = [NoConn EXCEPT !.at = stage]
    /\ task' = [task EXCEPT ![l] = "waiting"]
    /\ missed' = IF task[l] = "notified" THEN missed \cup {l} ELSE missed

accept_loop == accept("accept", "tls")
metrics_accept_loop == accept("metrics", "serve")
redirect_loop == accept("port80", "redirect")

\* accept_routed: a challenge probe and a failed handshake end here.
accept_routed == conn.at = "tls" /\ (At("proto") \/ Close)

\* The protocol byte must suit the role, and a peer must be admitted.
handle_connection ==
    /\ conn.at = "proto"
    /\ Close \/ At(IF role = "guard" THEN "presentation" ELSE "start")

handle_client_connection == conn.at = "presentation" /\ (At("msg1") \/ Close)
handle_relay_connection == conn.at = "start" /\ (At("msg1") \/ Close)
drive_circuit == conn.at = "msg1" /\ (At("circuit") \/ Close)

\* The port is checked first, then the proxy URL.
dial_via_socks5(p) ==
    IF p \notin allowed THEN Close
    ELSE IF ~ProxyUsable(proxy) THEN At("misconfigured")
    ELSE conn' = [conn EXCEPT !.at = "dialling", !.port = p]

\* run_circuit_io.  A circuit has at most one link: to the next relay, or at
\* an exit to the destination.
Opens(link) == conn' = [conn EXCEPT !.at = "circuit", !.link = link, !.opened = @ + 1]

\* Mutant: a second EXTEND is not refused.
run_extend_Again == conn.at = "circuit" /\ (IF role = "exit" THEN Close ELSE At("extending"))

\* An EXTEND cell.
run_extend ==
    /\ conn.at = "circuit"
    /\ IF role = "exit" \/ conn.link # "none" THEN Close ELSE At("extending")

\* The dial and its TLS handshake have no timeout.
open_next_link == conn.at = "extending" /\ (Opens("next") \/ Close)

\* A CONNECT cell.
run_connect(p) ==
    /\ conn.at = "circuit"
    /\ IF role # "exit" \/ conn.link # "none" THEN Close
       ELSE IF proxy = "absent" THEN At("misconfigured")
       ELSE dial_via_socks5(p)

DialReturns == conn.at = "dialling" /\ (Opens("dest") \/ Close)

\* The end of the destination's stream drops the socket, and a CONNECT may
\* follow.
run_dest_eof ==
    /\ conn.at = "circuit" /\ conn.link = "dest"
    /\ conn' = [conn EXCEPT !.link = "none", !.opened = @ - 1, !.port = 0]

\* The return of run_circuit_io: CLOSE_REQUEST, an error, a timeout, or a cell
\* that needs a link the circuit does not have.
CircuitEnds == conn.at \in {"circuit", "misconfigured"} /\ Close

\* A read of the request head: the line may be complete, the peer may close,
\* and a full buffer ends the reading; the answer goes out and the socket is
\* closed.
read_request(stage) ==
    /\ conn.at = stage
    /\ \/ Close
       \/ conn.read < MaxHead /\ conn' = [conn EXCEPT !.read = @ + 1]

metrics_serve == read_request("serve")
serve_redirect == read_request("redirect")

\* Mutant: no timeout around the read of the first handshake message.
Timed_NoHandshake == {"tls", "proto", "presentation", "dialling", "serve", "redirect"}

\* Where a timeout is set.  A read of a request head sets it anew, but at most
\* MaxHead times.
Timed == {"tls", "proto", "presentation", "msg1", "dialling", "serve", "redirect"}

TimedOut ==
    /\ conn.at \in Timed /\ Close
    /\ UNCHANGED <<cfgVars, keyVars, rows, mainVars, taskVars>>

Connections ==
    /\ UNCHANGED <<cfgVars, keyVars, rows, mainVars>>
    /\ \/ accept_loop \/ metrics_accept_loop \/ redirect_loop
       \/ /\ UNCHANGED taskVars
          /\ \/ accept_routed \/ handle_connection
             \/ handle_client_connection \/ handle_relay_connection \/ drive_circuit
             \/ run_extend \/ open_next_link \/ \E p \in Ports : run_connect(p)
             \/ DialReturns \/ run_dest_eof \/ CircuitEnds \/ metrics_serve \/ serve_redirect

ProcessNext ==
    \/ Keys
    \/ Main
    \/ Kill /\ UNCHANGED <<cfgVars, keyVars, rows>>
    \/ Background
    \/ Connections
    \/ TimedOut

\* Scheduling: main and its tasks run, intervals pass, the sweep runs, timeouts
\* fire.
Fairness ==
    /\ WF_processVars(main_exit /\ UNCHANGED <<cfgVars, keyVars, rows>>)
    /\ WF_processVars((\E t \in Tasks : TaskStops(t)) /\ UNCHANGED <<cfgVars, keyVars, mainVars, conn>>)
    /\ WF_processVars(Interval /\ UNCHANGED <<cfgVars, keyVars, mainVars, conn>>)
    /\ WF_processVars(SweepInactiveRelays /\ UNCHANGED <<cfgVars, keyVars, mainVars, conn>>)
    /\ WF_processVars(TimedOut)

ProcessSpec == ProcessInit /\ [][ProcessNext]_processVars /\ Fairness
(***************************************************************************)
(* Properties.                                                             *)
(***************************************************************************)

\* A key that a keygen run wrote, printed or not, is the whole content of the
\* key file until the operator removes that file: concurrent runs, failed
\* writes and crashes never replace it.
WrittenKeyKept ==
    \A r \in Runs :
        keygen[r] \in KeyWritten /\ r \notin removed => keyFile = [st |-> "whole", key |-> r]

\* A relay that listens has a key some keygen run wrote in full, the
\* authority's key and a verified registry, whatever failed on the way and
\* however often it was restarted.
StartsComplete ==
    mainAt \in {"serving", "stopping"} =>
        /\ key # 0 /\ keygen[key] \in KeyWritten
        /\ pinned /\ registry

\* A running exit dials only allowed ports, and never finds at a CONNECT that
\* the proxy URL it accepted at start-up is of no use.
ExitDials ==
    /\ conn.at # "misconfigured"
    /\ conn.port # 0 => role = "exit" /\ conn.port \in allowed

\* A circuit never has two links: EXTEND or CONNECT fails it while it has one,
\* and only the destination's own end makes room for another.
OneLink ==
    /\ conn.opened <= 1 /\ (conn.opened = 1 <=> conn.link # "none")
    /\ conn.at \in {"extending", "dialling"} => conn.opened = 0

\* After a shutdown signal the relay exits if every task got the notice, and
\* only then: a loop not yet polled, a heartbeat being sent, or a select! that
\* takes its other branch loses it, and main waits for that task for ever.
ExitsIffNotified ==
    /\ mainAt = "stopping" ~> (mainAt # "stopping" \/ missed # {})
    /\ [][main_exit => missed = {}]_processVars

\* Every connection ends or becomes a circuit whatever its peer sends or
\* fails to send, and a dial of the destination returns; but an admitted relay
\* may keep a link waiting for CIRCUIT_START for ever, and the dial of the next
\* relay has no timeout.
ConnectionsEnd ==
    conn.at \notin {"none", "start", "circuit", "extending"}
        ~> conn.at \in {"none", "start", "circuit", "extending"}

\* Once the relay runs for good without the key of a row, or with another
\* row's API key, the sweep retires that row for good: a new key file or a new
\* provisioning never leaves the old entry in the registry.
StaleRowRetired ==
    \A r \in Runs :
        <>[](key # r \/ apiRow # r) => <>[](rows[r].st # "active")
=============================================================================
