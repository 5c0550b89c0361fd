--------------------------- MODULE PathSelection ----------------------------
(***************************************************************************)
(* The client's choice of guard, middle and exit from a verified document  *)
(* (client/src/path.rs) and the two questions a relay asks of its own      *)
(* document (relay/src/registry.rs), as operators.                         *)
(*                                                                         *)
(* An address is its family, network (the /16 or /32) and host.  Family    *)
(* "mapped" is an IPv4 address written as IPv6, "name" is no IP literal.   *)
(* `well` says that an entry's other text fields are well formed.          *)
(***************************************************************************)
EXTENDS Integers, Sequences, FiniteSets

CONSTANTS
    MAX_RELAYS,           \* largest document the selector enumerates
    SKEW_ALLOWANCE_SECS   \* how early a document may be used

(***************************************************************************)
(* Entries and documents.                                                  *)
(***************************************************************************)
IpText == [fam : {"v4", "v6", "mapped", "name"}, net : Nat, host : Nat]

RelayEntry == [id : STRING, operator : STRING, host : STRING, role : STRING,
               ip : IpText, port : Nat, well : BOOLEAN]

Document == [after : Int, until : Int, relays : Seq(RelayEntry)]

\* Mutant: an address is compared as the document spells it.
canonical_ip_AsWritten(ip) == ip

canonical_ip(ip) == IF ip.fam = "mapped" THEN [ip EXCEPT !.fam = "v4"] ELSE ip

\* The entry's address, if it holds one.
ip_addr(e) == IF e.ip.fam = "name" THEN {} ELSE {canonical_ip(e.ip)}

addr(e) == IF e.port = 0 THEN {} ELSE {[ip |-> i, port |-> e.port] : i \in ip_addr(e)}

is_usable_at(doc, now) == now + SKEW_ALLOWANCE_SECS >= doc.after /\ now < doc.until

(***************************************************************************)
(* Path rules.                                                             *)
(***************************************************************************)
same_prefix(a, b) == a.fam = b.fam /\ a.net = b.net

\* Candidates are entries with their address parsed.
Malformed(e) == ~e.well \/ e.port = 0 \/ e.role \notin {"guard", "middle", "exit"} \/ ip_addr(e) = {}

candidates(doc) ==
    [i \in DOMAIN doc.relays |->
        [entry |-> doc.relays[i], ip |-> CHOOSE a \in ip_addr(doc.relays[i]) : TRUE]]

\* The positions of a role's candidates; the code's slices keep their order.
by_role(all, role) == {i \in DOMAIN all : all[i].entry.role = role}

triple_is_valid(g, m, e, diverse) ==
    /\ g.entry.id # m.entry.id /\ g.entry.id # e.entry.id /\ m.entry.id # e.entry.id
    /\ diverse => /\ g.entry.operator # m.entry.operator
                  /\ g.entry.operator # e.entry.operator
                  /\ m.entry.operator # e.entry.operator
    /\ g.entry.host # m.entry.host /\ g.entry.host # e.entry.host /\ m.entry.host # e.entry.host
    /\ ~(same_prefix(g.ip, m.ip) \/ same_prefix(g.ip, e.ip) \/ same_prefix(m.ip, e.ip))

\* Mutant: every triple is counted.
count_valid_All(all, gs, ms, es, diverse) == Cardinality(gs \X ms \X es)

count_valid(all, gs, ms, es, diverse) ==
    Cardinality({t \in gs \X ms \X es :
                    triple_is_valid(all[t[1]], all[t[2]], all[t[3]], diverse)})

\* The order in which the three nested loops meet two triples.
Earlier(t, u) ==
    \/ t[1] < u[1]
    \/ t[1] = u[1] /\ t[2] < u[2]
    \/ t[1] = u[1] /\ t[2] = u[2] /\ t[3] < u[3]

\* The valid triples the loops have passed when they meet t.
Passed(all, gs, ms, es, diverse, t) ==
    {u \in gs \X ms \X es :
        Earlier(u, t) /\ triple_is_valid(all[u[1]], all[u[2]], all[u[3]], diverse)}

\* The sorted ids differ from their neighbours once per further operator.
operator_span(hops) ==
    LET g == hops[1].operator
        m == hops[2].operator
        e == hops[3].operator
    IN  IF g = m /\ m = e THEN 1 ELSE IF g = m \/ m = e \/ g = e THEN 2 ELSE 3

SelectedPath(all, t) ==
    LET hops == [i \in 1..3 |-> all[t[i]].entry]
    IN  [hops |-> hops, operator_span |-> operator_span(hops)]

\* The walk returns at the valid triple met when `wanted` were seen; it
\* returns nothing where the code says unreachable.
Walk(all, gs, ms, es, diverse, wanted) ==
    {SelectedPath(all, t) : t \in {u \in gs \X ms \X es :
        /\ triple_is_valid(all[u[1]], all[u[2]], all[u[3]], diverse)
        /\ Cardinality(Passed(all, gs, ms, es, diverse, u)) = wanted}}

\* Why select_with refuses a document, in the order it asks; "none" if it
\* does not.
NoPathReason(doc, diverse, now) ==
    LET c == candidates(doc)
        gs == by_role(c, "guard")
        ms == by_role(c, "middle")
        es == by_role(c, "exit")
    IN  IF ~is_usable_at(doc, now) THEN "RegistryUnusable"
        ELSE IF Len(doc.relays) > MAX_RELAYS THEN "RegistryTooLarge"
        ELSE IF \E i \in DOMAIN doc.relays : Malformed(doc.relays[i]) THEN "InvalidRegistryEntry"
        ELSE IF {} \in {gs, ms, es} THEN "InsufficientRelays"
        ELSE IF count_valid(c, gs, ms, es, diverse) = 0 THEN "DiversityUnsatisfiable"
        ELSE "none"

\* The draws select_with may make, and what each leads to.
Draws(doc, diverse) ==
    LET c == candidates(doc)
    IN  0..(count_valid(c, by_role(c, "guard"), by_role(c, "middle"), by_role(c, "exit"),
                        diverse) - 1)

select_with(doc, diverse, wanted) ==
    LET c == candidates(doc)
    IN  Walk(c, by_role(c, "guard"), by_role(c, "middle"), by_role(c, "exit"), diverse, wanted)

(***************************************************************************)
(* The relay's side.                                                       *)
(***************************************************************************)
upstream_role(role) == CASE role = "guard" -> {} [] role = "middle" -> {"guard"}
                         [] role = "exit" -> {"middle"}

downstream_role(role) == CASE role = "guard" -> {"middle"} [] role = "middle" -> {"exit"}
                           [] role = "exit" -> {}

\* Mutant: the listener's spelling of the peer is not reduced.
admits_inbound_AsWritten(doc, role, peer) ==
    \E i \in DOMAIN doc.relays :
        doc.relays[i].role \in upstream_role(role) /\ peer \in ip_addr(doc.relays[i])

admits_inbound(doc, role, peer) ==
    \E i \in DOMAIN doc.relays :
        /\ doc.relays[i].role \in upstream_role(role)
        /\ canonical_ip(peer) \in ip_addr(doc.relays[i])

\* The first entry an EXTEND to `next` may mean, if any.
extend_target(doc, role, next) ==
    LET to    == [next EXCEPT !.ip = canonical_ip(@)]
        found == {i \in DOMAIN doc.relays :
                     doc.relays[i].role \in downstream_role(role) /\ to \in addr(doc.relays[i])}
    IN  IF found = {} THEN {}
        ELSE {doc.relays[CHOOSE i \in found : \A k \in found : i <= k]}
=============================================================================
