--------------------------- MODULE PathAdmission ----------------------------
(***************************************************************************)
(* One circuit build across the registry documents the four parties hold.  *)
(* The client selects a path from its document and dials the guard; the    *)
(* guard and the middle look the next hop up in theirs before they dial it *)
(* (open_next_link), and the middle and the exit look the caller up before *)
(* they serve it (handle_relay_connection).  The authority publishes new   *)
(* documents meanwhile, and everyone refreshes on a schedule of their own. *)
(*                                                                         *)
(* The documents held by relays that are on no path are not kept: when a   *)
(* path is chosen its relays hold any published documents.  Relay clocks   *)
(* show `time`, the client's clock is `drift` ahead of it.                 *)
(***************************************************************************)
EXTENDS PathSelection

CONSTANTS
    Catalogue,   \* relay lists the authority may publish
    Window,      \* how long a document is valid
    MaxTime,     \* bound on the clock
    MaxPub,      \* bound on the documents published
    Drifts       \* offsets of the client's clock

ASSUME AdmissionAssumption ==
    /\ Window \in Nat /\ MaxTime \in Nat /\ MaxPub \in Nat \ {0}
    /\ Catalogue \subseteq Seq(RelayEntry)
    /\ Drifts \subseteq Int /\ SKEW_ALLOWANCE_SECS \in Nat /\ MAX_RELAYS \in Nat

VARIABLES
    time,      \* the relays' clock
    drift,     \* the client's clock runs ahead by this
    diverse,   \* require_operator_diversity in the client's configuration
    pub,       \* documents published, the newest last
    mine,      \* the client's document, an index into pub
    held,      \* the documents of the path's relays, indices into pub
    path,      \* the path under construction, {} or one
    hop,       \* the hop being reached, 4 when the circuit is open
    dialled,   \* that hop's connection is up, its answer is awaited
    outcome    \* how the last attempt ended

vars == <<time, drift, diverse, pub, mine, held, path, hop, dialled, outcome>>

Roles == <<"guard", "middle", "exit">>
NoHolders == <<1, 1, 1>>
Entry(i) == (CHOOSE p \in path : TRUE).hops[i]

\* Mutant: a document stays in use after its window.
usable_Unchecked(doc, now) == {doc}

\* RegistryHandle::usable: the document, when it may be used now.
usable(doc, now) == {d \in {doc} : is_usable_at(d, now)}

\* The circuit and the document indices of its relays are forgotten.
Ends(why) ==
    /\ path' = {} /\ hop' = 0 /\ dialled' = FALSE /\ held' = NoHolders
    /\ outcome' = why

Init ==
    /\ time = 0
    /\ drift \in Drifts
    /\ diverse \in BOOLEAN
    /\ \E relays \in Catalogue : pub = <<[after |-> 0, until |-> Window, relays |-> relays]>>
    /\ mine = 1 /\ held = NoHolders
    /\ path = {} /\ hop = 0 /\ dialled = FALSE /\ outcome = "none"

Tick ==
    /\ time < MaxTime
    /\ time' = time + 1
    /\ UNCHANGED <<drift, diverse, pub, mine, held, path, hop, dialled, outcome>>

\* The authority publishes at most one document per unit of time.
PublishDocument ==
    /\ Len(pub) < MaxPub /\ pub[Len(pub)].after < time
    /\ \E relays \in Catalogue :
           pub' = Append(pub, [after |-> time, until |-> time + Window, relays |-> relays])
    /\ UNCHANGED <<time, drift, diverse, mine, held, path, hop, dialled, outcome>>

\* refresh_registry and the relays' refresh task: the newest document, when
\* it verifies, replaces the one held.
ClientRefresh ==
    /\ mine < Len(pub)
    /\ usable(pub[Len(pub)], time + drift) # {}
    /\ mine' = Len(pub)
    /\ UNCHANGED <<time, drift, diverse, pub, held, path, hop, dialled, outcome>>

publish(i) ==
    /\ path # {} /\ held[i] < Len(pub)
    /\ usable(pub[Len(pub)], time) # {}
    /\ held' = [held EXCEPT ![i] = Len(pub)]
    /\ UNCHANGED <<time, drift, diverse, pub, mine, path, hop, dialled, outcome>>

\* A path, or the reason there is none.
build_path ==
    /\ path = {}
    /\ LET reason == NoPathReason(pub[mine], diverse, time + drift)
       IN  IF reason # "none"
           THEN outcome' = reason /\ UNCHANGED <<path, hop, held>>
           ELSE \E wanted \in Draws(pub[mine], diverse) :
                    /\ path' = select_with(pub[mine], diverse, wanted)
                    /\ hop' = 1 /\ outcome' = "none"
                    /\ held' \in [1..3 -> 1..Len(pub)]
    /\ UNCHANGED <<time, drift, diverse, pub, mine, dialled>>

\* The client's own connection; a guard asks no document about a client.
dial_guard ==
    /\ path # {} /\ hop = 1
    /\ addr(Entry(1)) # {}
    /\ hop' = 2
    /\ UNCHANGED <<time, drift, diverse, pub, mine, held, path, dialled, outcome>>

\* Hop i acts on the EXTEND to the next hop.
open_next_link(i) ==
    /\ path # {} /\ hop = i + 1 /\ ~dialled
    /\ \E next \in addr(Entry(i + 1)) :
           IF \E doc \in usable(pub[held[i]], time) : extend_target(doc, Roles[i], next) # {}
           THEN dialled' = TRUE /\ UNCHANGED <<held, path, hop, outcome>>
           ELSE Ends("PeerHostnameMissing")
    /\ UNCHANGED <<time, drift, diverse, pub, mine>>

\* How a listener may report a peer: a dual-stack one maps IPv4 addresses.
Reported(ip) == {ip} \cup (IF ip.fam = "v4" THEN {[ip EXCEPT !.fam = "mapped"]} ELSE {})

\* Hop i + 1 decides on the link from hop i.
handle_relay_connection(i) ==
    /\ hop = i + 1 /\ dialled
    /\ \E from \in ip_addr(Entry(i)) : \E peer \in Reported(from) :
           IF \E doc \in usable(pub[held[i + 1]], time) : admits_inbound(doc, Roles[i + 1], peer)
           THEN hop' = hop + 1 /\ dialled' = FALSE /\ UNCHANGED <<held, path, outcome>>
           ELSE Ends("PeerNotAllowed")
    /\ UNCHANGED <<time, drift, diverse, pub, mine>>

\* A dial, TLS or Noise failure ends the build, and the user ends a circuit.
CircuitEnds ==
    /\ path # {}
    /\ Ends(IF hop = 4 THEN "closed" ELSE "io")
    /\ UNCHANGED <<time, drift, diverse, pub, mine>>

Next ==
    \/ Tick
    \/ PublishDocument
    \/ ClientRefresh
    \/ \E i \in 1..3 : publish(i)
    \/ build_path
    \/ dial_guard
    \/ \E i \in 1..2 : open_next_link(i)
    \/ \E i \in 1..2 : handle_relay_connection(i)
    \/ CircuitEnds

Spec == Init /\ [][Next]_vars

(***************************************************************************)
(* Properties.                                                             *)
(***************************************************************************)

\* Where an address is: its spelling does not count.
Place(ip) ==
    <<CASE ip.fam \in {"v4", "mapped"} -> 4 [] ip.fam = "v6" -> 6 [] OTHER -> 0, ip.net>>

\* A path the client builds runs through three different relays in their
\* roles, on three hosts and in three networks however the document spells
\* the addresses, under three operators if so configured, and operator_span
\* is the number of operators it really has.
PathDiverse ==
    \A p \in path :
        LET h == p.hops
        IN  /\ \A i \in 1..3 : h[i].role = Roles[i]
            /\ \A i, j \in 1..3 : i # j =>
                   /\ h[i].id # h[j].id /\ h[i].host # h[j].host
                   /\ Place(h[i].ip) # Place(h[j].ip)
                   /\ diverse => h[i].operator # h[j].operator
            /\ p.operator_span = Cardinality({h[i].operator : i \in 1..3})

\* The triples of a document that the rules allow, by position.
Allowed(doc) ==
    LET R == doc.relays
    IN  {t \in (DOMAIN R) \X (DOMAIN R) \X (DOMAIN R) :
            /\ \A i \in 1..3 : R[t[i]].role = Roles[i]
            /\ \A i, j \in 1..3 : i # j =>
                   /\ R[t[i]].id # R[t[j]].id /\ R[t[i]].host # R[t[j]].host
                   /\ Place(R[t[i]].ip) # Place(R[t[j]].ip)
                   /\ diverse => R[t[i]].operator # R[t[j]].operator}

\* The draw is uniform over the allowed paths: when the client's document is
\* not refused, its draws are as many as the allowed triples, every one of
\* them leads to a path (the unreachable! is unreachable) and every allowed
\* triple is some draw's; and the document is refused for want of a path
\* only if it allows none.
EveryDrawOnePath ==
    LET doc    == pub[mine]
        reason == NoPathReason(doc, diverse, time + drift)
        drawn  == UNION {select_with(doc, diverse, w) : w \in Draws(doc, diverse)}
    IN  /\ reason = "none" =>
            /\ Cardinality(Draws(doc, diverse)) = Cardinality(Allowed(doc))
            /\ \A w \in Draws(doc, diverse) : select_with(doc, diverse, w) # {}
            /\ {p.hops : p \in drawn} = {[i \in 1..3 |-> doc.relays[t[i]]] : t \in Allowed(doc)}
        /\ reason \in {"InsufficientRelays", "DiversityUnsatisfiable"} => Allowed(doc) = {}

\* The same relay, however its address is spelled.
SameRelay(e, f) == e.role = f.role /\ Place(e.ip) = Place(f.ip) /\ e.ip.host = f.ip.host
Lists(doc, e) == \E i \in DOMAIN doc.relays : SameRelay(doc.relays[i], e) /\ doc.relays[i].port = e.port

\* A relay refuses only what its own document does not list: as long as that
\* document is valid and lists the other end, no relay ends a build, although
\* client and relays hold different documents and whatever spelling each of
\* them and the listener uses.
ListedIsAdmitted ==
    [][\A i \in 1..2 : (path # {} /\ path' = {} /\ hop = i + 1) =>
           /\ outcome' = "PeerHostnameMissing" =>
                  ~(Lists(pub[held[i]], Entry(i + 1)) /\ time < pub[held[i]].until)
           /\ outcome' = "PeerNotAllowed" =>
                  ~(Lists(pub[held[i + 1]], Entry(i)) /\ time < pub[held[i + 1]].until)]_vars

\* No relay dials a retired one: a link to a middle or an exit is opened only
\* while some published document lists that relay in its role and is within
\* its window, however long the relay that extends has failed to refresh.
NoRetiredRelay ==
    [][\A i \in 1..2 : (hop = i + 1 /\ ~dialled /\ dialled') =>
           \E v \in DOMAIN pub :
               /\ Lists(pub[v], Entry(i + 1))
               /\ time < pub[v].until]_vars
=============================================================================
