# QuietHop: a TLA+ verification project

QuietHop carries a user's TCP connections over circuits of three relays. This
directory holds TLA+ models of its protocols, TLC configurations that check
them on small instances, and proofs, checked by TLAPS, of what matters most for
every instance. Every definition is a translation of the code under `src/`;
`PROJECT.json` gives the lines for each one.

## 1. Inventory of the system

| Part | Source | State | Operations |
| --- | --- | --- | --- |
| Client dialer | `client/src/dial.rs` | three Noise transports, the TLS stream, the user's duplex stream | `dial`, `extend_hop`, `circuit_task` |
| Relay data plane | `relay/src/main.rs`, `relay/src/circuit.rs` | per connection: `circuit::State`, one transport, `next_link`, `dest_link` | `handle_connection`, `drive_circuit`, `run_circuit_io`, `open_next_link` |
| Cells, layers, Noise | `quiethop-crypto/src/{cell,layer,noise}.rs` | send and receive counters | seal, wrap, peel; `FrameReader` |
| Guard admission | `relay/src/token.rs` | replay window under a mutex | `verify` |
| Registry verification | `quiethop-crypto/src/registry.rs` | none | `verify`, `parse_rfc3339`, `check_validity`, `check_rollback`, `remember` |
| Registry cache | `quiethop-crypto/src/registry_cache.rs` | current document | `prime`, `refresh_if_stale`, `accept_body`, `usable` |
| Stored baseline | `quiethop-crypto/src/state.rs` | `registry.json` and its temporary file | `load`, `store` |
| Relay's registry handle | `relay/src/registry.rs` | published document | `publish`, `usable`, `admits_inbound`, `extend_target` |
| Relay process | `relay/src/{main,config,static_key,authority,tls,heartbeat,metrics,port80,exit}.rs` | key file, tasks, shutdown `Notify`, connections | keygen, start-up, refresh task, heartbeat, accept loops, exit dialling, shutdown |
| Client library and daemon | `client/src/{lib,path,tokens,blind,auth}.rs`, `quiethop-client/src` | session, registry cache, one mutex | login, issue token, select path, SOCKS5 |
| Authority: publisher | `authority/internal/registry` | `registry_documents`, an in-memory copy | `Current`, `publish`, `load`, `remember`, `cached` |
| Authority: relay table | `authority/internal/relay` | `relay_nodes` | provision, heartbeat, sweep |
| Authority: accounts | `authority/internal/handlers`, `auth`, `blind` | subscribers, sessions, subscriptions, counters | register, login, issue, admin |
| Dashboard, scripts | `dashboard/`, `scripts/` | none of the protocols' | user interface, deployment |

How they interact: relays send heartbeats to the authority, which publishes one
signed registry document per hour. Relays and clients fetch it, verify it and
keep a baseline on disk. A client picks three relays from it, buys a blind
token, presents it to the guard, and extends the circuit hop by hop; each relay
admits its upstream neighbour by the registry.

What is hard here, and what should hold:

* one transport per hop serves both directions from several `select!` arms, and
  the implicit Noise counters are the only ordering: bytes must arrive in order
  and never twice, whatever the links do, and counters must agree in every
  interleaving;
* writes happen inside `select!` arms without a timer: when can a circuit stop?
* only the exit gets CLOSE_REQUEST: does the end of one party reach all others?
* tokens are checked by concurrent tasks, the signature outside the lock;
* the rollback baseline has to survive crashes between file operations, and a
  directory that two client daemons of one user share by default;
* several authority instances, with clocks that differ, race to publish an
  hour, and the database may fail in the middle of an INSERT;
* the calendar arithmetic behind every validity check is hand-written, and the
  documents come from another language's library;
* the four parties of a circuit hold documents of different hours;
* cells that open a link may come twice, late or to the wrong relay;
* shutdown relies on a notice that only waiting tasks receive;
* all SOCKS5 requests and the refresh task of a daemon share one mutex, which is
  held across network calls, and a token is paid for in several steps.

`PROJECT.json` lists the hazards at their lines, with the properties that cover
them.

## 2. Modules

| Module | Models | State and actions |
| --- | --- | --- |
| `OnionCircuit` | one circuit: client, guard, middle, exit and three links | `pc` and `out` say where each task is and which `write_all` it is suspended in; `sealF`/`sealB` hold what was sealed under each counter, `openF`/`openB` what was opened; one action per `select!` arm, per completed or failed write, per timeout and per error path |
| `Tunnel` | what a circuit promises: an in-order byte pipe with two ends that close for good | refined by `OnionCircuit` (`ImplementsTunnel`) |
| `ReplayWindow` | connections at the guard up to `drive_circuit` | `verify` in two steps, before and under the lock; restarts; a clock |
| `RegistryCache` | fetch, verify, record and publish in processes sharing a state directory | `store` as open, write and rename on inodes; crashes, disk errors, a damaged file |
| `Publisher` | requests of several authority instances on one database | every database call of `Current` is a step; outages, INSERTs of unknown outcome, restarts, a clock that is ahead |
| `RegistryDocument` | `verify` for one envelope, and the authority's side of it | the date is walked one day at a time, both ways from the epoch; on chosen days envelopes with any signature entries and several documents, most of which no authority writes, are delivered to verifiers with different clocks |
| `PathSelection` | `select_with`, `admits_inbound`, `extend_target` as operators | none; used by `PathAdmission` |
| `PathAdmission` | one circuit build while documents change | `pub`, the documents published; which of them the client and each relay of the path holds; the build, hop by hop; refreshes at any time |
| `RelayProcess` | the relay on its host | the key file and keygen runs, each with its create, write and print; `main` step by step; the four tasks it waits for, from spawn to stop; one connection on any listener, and as a circuit the link it opens; the rows of the relay table |
| `ClientDaemon` | the daemon, the authority's `HandleIssue` and the guard's key | the mutex as a queue; one action per network call of a request; the authority's database steps; blind RSA with moduli small enough to compute |
| `MC...` | instances of these for TLC | symmetry sets, relay lists, keys |
| `OnionCircuitTypes`, `OnionCircuitProofs`, `OnionCircuitCounters`, `OnionCircuitTunnel` | proofs about `OnionCircuit`, the last one that it implements `Tunnel` | |
| `AdmissionProofs` | proofs about `ReplayWindow` and `PathAdmission`: whom a relay lets in | |
| `DocumentProofs` | proofs about `Publisher` and `RegistryDocument`: a document from the database to its verification | |
| `RelayProofs` | proofs about `RegistryCache` and `RelayProcess`: a relay on its host | |
| `ClientDaemonProofs` | proofs about `ClientDaemon` | |

Definitions with a suffix (`Legal_Unchecked`, `cached_Extends`, ...) are
mutants: plausible wrong versions of the operator after them, used to confirm
that each property can fail.

Abstractions, by module:

* `OnionCircuit`. A frame is the hop whose transport sealed it and its counter;
  it opens exactly under the expected counter, which is what the AEAD gives.
  Chunks are numbers. A presentation (protocol byte, token or CIRCUIT_START, and
  Noise message 1) is one frame, so the reads inside it, including the one of
  CIRCUIT_START that has no timeout, are one. A read from the user or the
  destination yields one cell. Zero-length DATA, a no-op at both ends, is left
  out. Whether a token, a peer, an EXTEND target or a destination is acceptable
  is a nondeterministic choice. When the client leaves its loop the counters it
  does not use again are left as they are. `Damage` acts below the cell layer;
  TLS makes that unlikely, and the code does not rely on TLS for it.
* `ReplayWindow`. RSA is membership in `Signed`.
* `RegistryCache`. A signed response is a member of `Docs`, anything else fails.
  The three timestamps follow from the version, as the authority computes them.
  Any document may come back from any fetch. A crash keeps completed file
  operations.
* `Publisher`. A document is its version and its set of relays. Which relays
  are silent is a choice of the sweep.
* `RegistryDocument`. A timestamp is the six numbers in its fields, and an
  instant is a day and a second of that day, because the seconds of some dates
  walked exceed TLC's integers. A signature entry names a key and is good or not.
* `PathSelection`, `PathAdmission`. An address is a family, a network and a host;
  a mapped IPv4 address is a family of its own until it is made canonical.
  Relays that are on no path have no state: when a path is drawn, each of its
  relays holds some published document. The relays' clocks agree, the client's
  may differ from them.
* `RelayProcess`. A key is the number of the keygen run that made it, and names
  the row provisioned with it. The configuration is the role, the proxy and the
  ports; any other variable may be missing or malformed. A keygen run that ends
  between its write and its print stays where it is. Of a circuit the links it
  opens and loses are followed; what it carries is in `OnionCircuit`. The answers
  of the metrics and redirect listeners are taken as written at once: these writes
  have no timeout in the code. The ACME and registry tasks, which `main` does not wait
  for, are not followed.
* `ClientDaemon`. A message is its digest. The random factor is drawn from a
  small set. A request is modelled up to its circuit. A fetch of the registry and
  a dial may hang, as neither has a timeout. Counters are kept relative to the
  tokens delivered, so they stay small.

## 3. Runs

| Run | Shows | Bounds |
| --- | --- | --- |
| `circuit_adverse` | `ForwardInOrder`, `BackwardInOrder`: prefixes in order in both directions; `CountersAgree`: until a fault no party meets a frame that does not open; `CircuitSteps`: states follow `circuit.rs` and a hop is active only below one that was; `OnlyWedgesBlock`, `WedgePersists`: a circuit can stop only by two neighbours writing to each other over full links, and nothing in the code ends that (only a fault does). Deadlock is not reported because that is the deadlock described | two chunks each way, links of two frames, one fault at any point (altered, lost, repeated, overtaken frame, or a crash); a repeated frame is what fills a link here |
| `circuit_teardown` | `TeardownReachesAll`: one party's end becomes everyone's; `ChunksArrive`: until a fault each chunk arrives or the circuit ends, without timers; `ImplementsTunnel` | two chunks up, one down, one fault; with links of two frames too little is in flight for the wedge, which would show as a deadlock or a failed teardown |
| `circuit_dest_eof` | violated: after the destination's end of stream the exit cannot take DATA any more, although the comment says the circuit is kept for it | one chunk |
| `replay_window` | `NoReplay`, `NoFalseReplay`, `WindowBounded` | two connections, two good tokens and a bad one, TTL 2 on a clock of 5, one restart |
| `registry_cache` | `SerialNoRollback`, `SerialNoEquivocation`, `SerialStoreAtomic` across lives of the processes, as long as no two of them record at once | two processes, two versions of two bodies each, one crash, one failed write or state file damaged from outside |
| `registry_shared` | violated: with two processes recording at once, as two client daemons of one user may, an older document replaces a newer baseline, and is taken after a restart | two processes, three versions, one crash |
| `publisher` | `OnlyStored`, `OneDocumentPerHour`, `AnswersValid` | two instances, one with its clock ahead, two requests, one relay, three hours, one outage, any restarts |
| `registry_document` | `CountsDays`, `KnowsMonthEnd`: the hand-written calendar is the Gregorian one; `AuthorityVerifies`: what Go stamps, the client verifies; `VerifiedIsUsable`: what is verified has its threshold of different keys, the version of its hour, and is usable | every day from 1899-11-29 to 2000-05-23, across a century without and one with a leap day; deliveries on eight days around the ends of February and December and the epoch, a second to each side of the window; two pinned keys and a stranger, three entries, so that a bad or repeated one stands among two good ones |
| `path_admission` | `PathDiverse`, `EveryDrawOnePath` (also: the code's `unreachable!` is unreachable), `ListedIsAdmitted`, `NoRetiredRelay` | relay lists with shared hosts, operators and networks in different spellings, lists without a path, too long or with a bad address; two published documents that are any of seven lists, a client clock that is behind, right or ahead |
| `relay_process` | `WrittenKeyKept`, `StartsComplete`, `ExitDials`; `OneLink`: whatever cells come, a circuit never has two links; `ExitsIffNotified`: a stopping relay exits if every task got the notice, and never once one lost it; `ConnectionsEnd`: no silent peer holds a connection before its circuit, but for CIRCUIT_START, and no destination a dial; `StaleRowRetired` | two keygen runs, two starts, one removal of the key file, a sweep after more than one interval, connections followed in the first start; a relay that was stopped or never set up may stay so, hence no deadlock check |
| `client_daemon` | `CountedBeforeDelivered`, `ExpiryEndsIssuance`, `WaitsOneFetch`, `RefusedOnlyByRotation`, `Answered` | two requests, two RSA keys, two digests, one factor followed, two counted tokens never delivered |
| `client_daemon_wait` | violated: a request waits for the mutex while the refresh task fetches, although the comment says no build waits on a fetch | the same instance |

The bounds are small but each lets the case in question happen: a second
chunk can overtake or duplicate the first, an entry can expire and be reused, a
document can be old, current and not yet valid, a copy can outlive its hour,
the calendar passes both kinds of century, a key file can be replaced between
two starts, a notice can be lost, and a session, a key and a document can change
under a request in the queue.
Every property of a passing run has a mutant that violates it under the same
bounds.

Fairness. In `OnionCircuit` each tokio task runs when it can, so every step of
the client and of each relay is weakly fair, and a peer that is written to takes
the data (`FairSpec`). `TeardownReachesAll` also assumes the timers the code
really has, on silent links only; `ChunksArrive` needs none. Nothing makes a user
or a destination write, a refusal happen or a fault occur. Liveness is checked
with capacities at which the wedge cannot arise, because the wedge is a real way
to stop. In `RelayProcess` tasks that were notified run, the timeouts fire,
intervals pass and the authority's sweep runs; nothing makes a peer send
anything, a dial or a heartbeat return, an operator act or main start. In `ClientDaemon` the holder of the mutex goes on and both requests to
the authority time out; nothing makes the registry fetch or a dial return, which
is why `Answered` names that condition, nor the authority answer.

## 4. Proofs

All theorems hold for every value of the constants under the assumptions named
in the modules: `BoundsAssumption`, `WindowAssumption`, `PublisherAssumption`,
`DocumentAssumption`, `DaemonAssumption`, `CacheAssumption`,
`AdmissionAssumption` and `ProcessAssumption`. They say that bounds are natural
numbers (link capacity, hour and validity not zero), that `Signed` is a subset of
`Tokens` and `Pinned` of `Keys`, of which there are finitely many, that there is an
authority instance, that requests are finitely many, that digests are smaller than
every modulus, that the days walked include the epoch, that a relay list is a
sequence of entries, that keygen runs are numbered, and which spellings of the
proxy URL are told apart. TLC evaluates each of them on the instances above.

* `OnionCircuitProofs`: `TypeCorrect`, `ForwardOrder`, `BackwardOrder`. Neither
  order is inductive. The invariant `IInv` (in `OnionCircuitTypes`) adds that
  every frame in circulation names a counter already used by its sealer
  (`FramesKnownF`, `FramesKnownB`), that what the client sealed for the exit is
  CONNECT, then the chunks in order, then CLOSE_REQUEST (`ExitStream`), that what
  the exit sealed is the destination's chunks in order (`UserStream`), and how
  far the receivers are (`ExitProgress`, `UserProgress`); `HopOrder` says that a
  hop is idle until the one before it has opened its link. A frame
  that opens carries the expected counter, so its plaintext is the one sealed
  under it: reordering, repetition and loss can only stop a stream. The proof
  has one lemma per action and per group of conjuncts: types, the client's
  steps, the relays' steps, faults.
* `OnionCircuitTunnel`, from `OnionCircuitCounters`: `CountersInStep`, that until a
  fault every frame a relay's select loop or the client's `circuit_task` meets
  opens. `CountersAgree` speaks of the first frame of a link and rests on
  everything in flight. The invariant `CounterInv` (in `OnionCircuitTypes`) holds
  while `faults = 0` and has three parts. `Link(l)`: the frames on a link, then
  the write its sender is suspended in, are a run of numbers that starts where
  the receiver is, and together with what was opened they are all that was sent
  (`InStepF`, `InStepB`); before the far end serves, the link carries the one
  presentation and nothing comes back (`Fresh`, `Joined`). `Layered`: cell `j`
  the client seals for a hop carries frame `j - 1` of the next hop, EXTEND being
  the first, and the three receiving counters differ by the replies to EXTEND.
  `Extends(h)`: the same of what a relay wraps for the client, and that it has
  passed nothing on before it extended. The links are what ties two parties
  together, so the proof first says what a step does to one link seen from
  either end (a frame is read, written, sealed; an end opens or goes away), and
  then that every action is one of these at each link the party is an end of and
  nothing at the others (`Local`). A full link, a suspended write and a party
  that has ended are covered by the same lemmas. It needs `IInv`, and `DestLink`
  below. TLC checked `CounterInv` on two chunks each way and links of two frames
  before it was proved.
* `OnionCircuitTunnel`: `WedgesPersist`, `CircuitsStep`, `CircuitIsTunnel`. A step
  of one party touches only the links it is an end of and its own write
  (`Local`), so both halves of a wedge stay. For the circuit states the invariant
  `CircuitInv` says which states of `circuit.rs` go with which point of a relay's
  task, and that a hop is reached only through one whose handshake is done. The
  refinement needs `IInv`, and `DestLink`: the exit writes only to a live
  destination, and has one only after it opened a cell, so that a closed
  destination's end is never opened again. Each step then closes an end, moves one
  chunk at one end, in order, or leaves all that `Tunnel` sees as it was.
* `AdmissionProofs`, about the guard: `WindowTypeCorrect`, `WindowStaysBounded`,
  `ReplayRefused`, `OnlyReplaysRefused`. The invariant relates the window to the
  history of admissions: an entry carries the instant of its token's last
  admission, and a token admitted less than a TTL ago has its entry.
* `AdmissionProofs`, about paths: `AdmissionInvariant`, `PathsDiverse`,
  `DrawsUniform`, `ListedAdmitted`, `RetiredNotDialled`, for any relay lists, any
  clocks and any number of documents. The lemmas on `select_with` say that the
  order of its loops is total, so that among the valid triples the one with
  `wanted` before it exists, once, for every `wanted` below their number, and that
  two triples give different paths. The invariant is that what the client and
  the relays hold was published, and that a path is a valid triple of such a
  document.
* `DocumentProofs`, about the publisher: `PublisherTypeCorrect`, `AnswersStored`,
  `OneAnswerPerHour`, `AnswersStayValid`, for any number of instances, requests
  and relays. The invariant: an hour has one row, and the documents on their way
  out and the copies are rows. Validity needs one more, `ValidInv`: a document
  about to be remembered is of its request's own hour, and an answer had not
  expired when its request came in.
* `DocumentProofs`, about verification: `CalendarInvariant`, `CountsDaysAlways`,
  `KnowsMonthEndAlways`, `AuthorityVerifiesAlways`, `VerifiedUsableAlways`, for
  every day of every year, before and after the epoch, and every envelope. The
  invariant says that the date exists and that `days_from_civil` of it is the
  number of days walked; a step to the next or the previous day changes both by
  one, which is a case distinction over the month's end, the year's end and the
  leap rule inside a 400-year era.
* `RelayProofs`, about the stored baseline: `RecordingInOrder`, `StoreIsAtomic`,
  `OneBodyPerVersion`, `NeverBack`, for any number of processes on one directory,
  any documents, crashes, failed writes and damage. The invariant `Serial` holds
  until two recordings overlap: one process records at a time and the temporary
  file is what it wrote (`Alone`); the baseline, unless it is damaged, covers
  everything accepted so far, and a document on its way covers both, strictly
  once `remember` decided to store it (`Covered`) - strictly, because the file may
  be damaged before the rename and nothing else then stands between the versions.
* `RelayProofs`, about the process: `ProcessInvariant`, `KeyKept`, `ServesComplete`,
  `DialsAllowed`, `LinkIsOne`, for any number of keygen runs, starts and removals,
  any configuration and any cells. The invariant: a run between its create and its
  write owns the key file unless the operator removed it, a run that has not begun
  owns none, and a whole file was written by its run; `main` past a step has what
  the step sets up; connections and tasks exist only while `main` serves; only a
  circuit that is not opening a link has one.
* `ClientDaemonProofs`: `TokensAccounted`, `OneLateToken`, `OneFetchWait`, for any
  number of requests. None is inductive. The invariant adds that whoever works
  with the client heads the mutex queue (`Mutex`), that once a token arrived after
  the session's end no handler of a waiting request is past the session check
  (`Expiry`), that each handler between its UPDATE and its INSERT accounts for one
  more in the counter than in the events (`Accounts`), and that the queue holds
  each request that is not idle once, those behind a queued refresh not having
  waited for a fetch yet (`Waiting`).

Only model-checked: liveness (`TeardownReachesAll`, `ChunksArrive`,
`ExitsIffNotified`, `ConnectionsEnd`, `StaleRowRetired`, `Answered`) and
`OnlyWedgesBlock`, because fairness and `ENABLED` are outside what the prover
handles; and `RefusedOnlyByRotation`, which rests on number theory (a blinding
factor has an inverse modulo the key) and on recursive data.

## 5. Not modelled

* Byte layouts, padding and sizes of cells, and the partial reads of
  `FrameReader`: data without control that the properties could tell apart.
* Ed25519, Noise, TLS and ACME themselves, and RSA at its real size.
* The text of environment variables beyond being well formed; the contents of
  metrics and redirects; the SOCKS5 bytes on both sides.
* Registration, account pages, administration and rate limits of the authority:
  single statements on independent rows. Its start-up, key file permissions and
  connection pool: input and output only.
* The dashboard and the scripts: they keep no protocol state.
* `MAX_CIRCUITS` is parsed by `config.rs` and used by no code, so there is no
  limit to model.
* The page cache: a power loss that undoes a rename is outside `RegistryCache`.

## 6. Plan

1. done: the circuit (`OnionCircuit`, `Tunnel`), admission (`ReplayWindow`,
   `PathAdmission`), the registry on both sides (`RegistryCache`,
   `RegistryDocument`, `Publisher`), the relay's process (`RelayProcess`), the
   daemon and token issuance (`ClientDaemon`), and the proofs above.
2. `Framing`: `FrameReader` over partial reads against whole frames.
3. A composition of `Publisher` and `RegistryCache`: relays and clients converge
   on one document after an outage.
