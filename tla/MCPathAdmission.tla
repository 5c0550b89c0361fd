-------------------------- MODULE MCPathAdmission ---------------------------
(***************************************************************************)
(* Relays that meet every path rule and break each of them: two of one     *)
(* host, two of one network under two spellings, one operator twice, one   *)
(* id in two roles, an IPv6 network numbered like an IPv4 one.             *)
(***************************************************************************)
EXTENDS PathAdmission

Relay(id, op, host, role, fam, net) ==
    [id |-> id, operator |-> op, host |-> host, role |-> role,
     ip |-> [fam |-> fam, net |-> net, host |-> 1], port |-> 443, well |-> TRUE]

G1 == Relay("g1", "A", "h1", "guard", "v4", 1)
G2 == Relay("g2", "B", "h2", "guard", "mapped", 2)
M1 == Relay("m1", "B", "h2", "middle", "v4", 1)
M2 == Relay("m2", "C", "h3", "middle", "mapped", 3)
M3 == Relay("m3", "A", "h4", "middle", "v4", 2)
X1 == Relay("x1", "C", "h5", "exit", "v6", 3)
X2 == Relay("x2", "B", "h6", "exit", "v4", 5)

Spelled(e, fam) == [e EXCEPT !.ip.fam = fam]

MCDrifts == {-1, 0, 1}

MCCatalogue ==
    {<<G1, M2, X1, X2>>,
     <<G1, G2, M1, M3, X1>>,
     <<Spelled(G1, "mapped"), Spelled(M2, "v4"), [M2 EXCEPT !.id = "g1"], X2>>,
     <<G2, M3, X1, X2>>,
     <<G1, M2, Spelled(X1, "name")>>,
     <<G1, M2>>,
     <<G1, G2, M1, M2, M3, X1>>}
=============================================================================
