------------------------------ MODULE MCDoctor ------------------------------
(* A small world for the doctor: configured upstreams, two of them at one   *)
(* address, and curated candidates, a TLS node, a QUIC node with a group    *)
(* beside them, and networks in each of which something else is broken.     *)
EXTENDS Doctor

U(t, a) == [type |-> t, addr |-> a]
A == U("tls", "A")
B == U("https", "B")
C == U("tls", "C")
MCCandidates == <<A, C>>
MCDomains == <<"d1", "d2">>

N(group, proto, security, special, override, valid) ==
  [group |-> group, proto |-> proto, transport |-> "tcp", security |-> security,
   special |-> special, override |-> override, valid |-> valid]
MCNodes == <<N(FALSE, "vless", "tls", FALSE, None, TRUE),
             N(TRUE, "none", "none", FALSE, None, TRUE),
             N(FALSE, "hysteria2", "tls", TRUE, "xray", TRUE)>>

MCDocuments == {Document("both", "", <<B, A>>, FALSE, FALSE, TRUE),
                Document("v4", "prefer_ipv6", <<B>>, FALSE, FALSE, TRUE),
                Document("v6", "ipv6_only", <<U("https", "A"), A>>, FALSE, FALSE, TRUE),
                Document("v4", "ipv6_only", <<>>, FALSE, FALSE, TRUE)}

Link(request, line, kb, end) == [request |-> request, line |-> line, kb |-> kb, end |-> end]
H(tcp, tls, link, tunnel) == [tcp |-> tcp, tls |-> tls, link |-> link, tunnel |-> tunnel]
Good == H(TRUE, TRUE, Link("sent", "line", 40, "more"), TRUE)
Freezes == H(TRUE, TRUE, Link("sent", "line", 4, "timeout"), FALSE)
Resets == H(TRUE, TRUE, Link("sent", "error", 0, "error"), TRUE)
Torn == H(TRUE, FALSE, Link("error", "error", 0, "error"), TRUE)
Dead == H(FALSE, FALSE, Link("error", "error", 0, "error"), FALSE)

Fast == [k \in 1..5 |-> [ok |-> TRUE, ms |-> 500]]
Slow == [Fast EXCEPT ![2].ms = 1300, ![4].ms = 2600]
Starved == [Fast EXCEPT ![5].ms = 20]
Cut == [Fast EXCEPT ![3].ok = FALSE]

Honest == [truth |-> [n \in {"control", "d1", "d2"} |-> {n}], os |-> [n \in {"d1", "d2"} |-> {n}], udp |-> {"d1"}]
Forged == [Honest EXCEPT !.os = [n \in {"d1", "d2"} |-> {"stub"}], !.udp = {}]
Blind == [Honest EXCEPT !.truth = [n \in {"control", "d1", "d2"} |-> None]]

W(families, up, path, h1, h3, p, answers, ports, tun) ==
  [families |-> families, up |-> up, path |-> path, hosts |-> <<h1, Dead, h3>>,
   providers |-> <<p, Good>>, answers |-> answers, ports |-> ports, tun |-> tun]
MCWorld == <<W(Families, {A, B, C}, Fast, Good, Good, Good, Honest, {1, 2}, FALSE),
             W({"v4"}, {A, C}, Slow, Freezes, Good, Resets, Forged, {1}, TRUE),
             W({"v6"}, {}, Starved, Torn, Dead, Freezes, Blind, {2}, FALSE)>>
MCForwarding == [linux |-> TRUE, ufw |-> TRUE, deny |-> TRUE, bridges |-> {"docker0"}]
=============================================================================
