------------------------------- MODULE Checks -------------------------------
(* The pure half of the connection doctor and of the settings it advises    *)
(* on: which documents the store accepts, which DNS strategy the engine     *)
(* compiles from one, which core dials a node, and the verdict functions    *)
(* that turn what a probe saw into one report row.  Summaries, titles and   *)
(* detail lines are left out; statuses, remedies and the order in which a   *)
(* check decides are kept.                                                  *)
EXTENDS Naturals, Sequences, FiniteSets

CONSTANT None

First(S) == CHOOSE i \in S : \A j \in S : i <= j

-----------------------------------------------------------------------------
(* The settings document.  `live` stands for the fields the daemon applies  *)
(* at once (restore, user agent, probe and update flags), `sane` for the    *)
(* ranges of its numbers and the syntax of its addresses.                   *)

Document(ip, strategy, servers, via, live, sane) ==
  [ip |-> ip, strategy |-> strategy, servers |-> servers, via |-> via, live |-> live, sane |-> sane]

DefaultSettings(goos) ==
  Document(IF goos = "windows" THEN "v4" ELSE "both", "prefer_ipv4",
           <<[type |-> "tls", addr |-> "8.8.8.8"]>>, FALSE, goos # "windows", TRUE)

Strategies == {"prefer_ipv4", "prefer_ipv6", "ipv4_only", "ipv6_only"}
Families == {"v4", "v6"}
Other(f) == IF f = "v4" THEN "v6" ELSE "v4"

ValidateSettings(d) ==
  /\ d.sane
  /\ d.ip \in Families \cup {"both"}
  /\ d.strategy \in Strategies \cup {""}
  /\ Len(d.servers) > 0
  /\ \A i \in DOMAIN d.servers : d.servers[i].type \in {"udp", "tls", "https"}

EngineFields(d) == [d EXCEPT !.live = FALSE]
EngineRelevantChanged(a, b) == EngineFields(a) # EngineFields(b)

NormalizeStrategy(s) == IF s \in Strategies THEN s ELSE "prefer_ipv4"

(* What the engine compiles: a single-family TUN pins its own family.       *)
DnsStrategy(strategy, ip) ==
  CASE ip = "v4" -> "ipv4_only"
    [] ip = "v6" -> "ipv6_only"
    [] OTHER -> NormalizeStrategy(strategy)

Leaning(s) == IF s \in {"prefer_ipv4", "ipv4_only"} THEN "v4" ELSE "v6"

-----------------------------------------------------------------------------
(* Core selection.  A node record holds what selection and the probes read *)
(* of a profile: its protocol, stream transport and security, `special` (a  *)
(* shadowsocks plugin, or a hysteria2 certificate neither checked nor       *)
(* pinned), the user's core pin, and whether its core's loader accepts it.  *)

CorePriority == <<"singbox", "xray">>
Streamed(n) == n.proto \in {"vless", "vmess", "trojan"}
ServerNetwork(n) == IF n.proto \in {"hysteria", "hysteria2", "tuic"} THEN "udp" ELSE "tcp"

(* Both cores speak every security and the vision flow.                     *)
CoreCaps(core) ==
  [transports |-> {"tcp", "ws", "grpc"} \cup IF core = "xray" THEN {"xhttp"} ELSE {},
   securities |-> {"none", "tls", "reality"}]

DialableBy(n, core) ==
  CASE Streamed(n) -> /\ n.transport \in CoreCaps(core).transports
                      /\ n.security \in CoreCaps(core).securities
    [] n.proto \in {"shadowsocks", "hysteria2"} -> core = "singbox" \/ ~n.special
    [] OTHER -> core = "singbox"

Cores == {"singbox", "xray"}
EligibleCores(n) == IF n.group THEN {} ELSE {c \in Cores : DialableBy(n, c)}

PreferredCore(n) == IF Streamed(n) /\ n.security = "reality" THEN "xray" ELSE None

SelectFromEligible(eligible, tunEngine, preferred, override) ==
  CASE eligible = {} -> None
    [] eligible # {} /\ override # None -> IF override \in eligible THEN override ELSE None
    [] eligible # {} /\ override = None ->
         IF preferred \in eligible THEN preferred
         ELSE IF tunEngine \in eligible THEN tunEngine
         ELSE CorePriority[First({i \in DOMAIN CorePriority : CorePriority[i] \in eligible})]

SelectCore(n) ==
  SelectFromEligible(EligibleCores(n), "singbox", PreferredCore(n), n.override)

-----------------------------------------------------------------------------
(* Rows and remedies.  A remedy patches one lever of the document.          *)

NoRemedy == [lever |-> "none"]
Strategy(s) == [lever |-> "strategy", to |-> s]
Servers(s) == [lever |-> "servers", to |-> s]
ViaTunnel == [lever |-> "via", to |-> TRUE]

Patch(d, r) ==
  CASE r.lever = "strategy" -> [d EXCEPT !.strategy = r.to]
    [] r.lever = "servers" -> [d EXCEPT !.servers = r.to]
    [] r.lever = "via" -> [d EXCEPT !.via = r.to]

(* `of` is the node, provider or port the row is about, 0 when it is none.  *)
Row(id, of, status, remedy) == [id |-> id, of |-> of, status |-> status, remedy |-> remedy]

-----------------------------------------------------------------------------
(* Connectivity.  `up` is the set of families a direct dial got through on. *)

StrategyRemedy(up, cur) ==
  IF up = {Other(Leaning(cur))}
  THEN Strategy(IF Leaning(cur) = "v4" THEN "prefer_ipv6" ELSE "prefer_ipv4")
  ELSE NoRemedy

DeadPin(up, ip) == ip # "both" /\ ip \notin up

InternetCheck(up, ip, strategy) ==
  LET cur == NormalizeStrategy(strategy)
      lean == StrategyRemedy(up, cur)
      loses == ip # "both" /\ up = Families
      ignored == ip # "both" /\ Leaning(cur) # ip
      status == IF lean # NoRemedy \/ DeadPin(up, ip) \/ loses \/ ignored THEN "warn" ELSE "ok"
      remedy == IF lean = NoRemedy /\ ignored /\ ip \in up
                THEN Strategy(DnsStrategy(strategy, ip)) ELSE lean
  IN IF up = {} THEN Row("internet", 0, "fail", NoRemedy)
     ELSE Row("internet", 0, status, remedy)

-----------------------------------------------------------------------------
(* DNS upstreams: [type, addr], the first one is the primary.  `reach` says *)
(* of each configured upstream whether its probe answered.                  *)

DefaultUpstream == [type |-> "tls", addr |-> "1.1.1.1"]

(* Mutant: the list goes back as it was.                                     *)
PromoteNothing(servers, addr) == servers

PromoteResolver(servers, addr) ==
  LET at == {i \in DOMAIN servers : servers[i].addr = addr}
      k == First(at)
  IN IF at = {} THEN servers
     ELSE [i \in DOMAIN servers |->
             IF i = 1 THEN servers[k] ELSE IF i <= k THEN servers[i - 1] ELSE servers[i]]

ResolverCheckResult(servers, reach, via, candidate) ==
  LET second == {i \in DOMAIN servers : i > 1 /\ reach[i]}
      remedy == IF second # {} THEN Servers(PromoteResolver(servers, servers[First(second)].addr))
                ELSE IF candidate # None THEN Servers(<<candidate>> \o servers)
                ELSE ViaTunnel
  IN IF servers = <<>> THEN Row("resolvers", 0, "warn", Servers(<<DefaultUpstream>>))
     ELSE IF via \/ reach[1] THEN Row("resolvers", 0, "ok", NoRemedy)
     ELSE Row("resolvers", 0, "warn", remedy)

(* The candidates are tried only when nothing configured answers direct.    *)
WantsCandidate(d, reach) ==
  ~d.via /\ Len(d.servers) > 0 /\ \A i \in DOMAIN d.servers : ~reach[i]

-----------------------------------------------------------------------------
(* The staged fetch.  A path is what the five stages meet, in order: `ok`,  *)
(* and `ms` (KB/s for the last one).                                        *)

QStages == <<"dns", "tcp", "tls", "ttfb", "throughput">>
SlowMs == <<900, 1200, 1500, 2500>>
ThroughputFloor == 150

Anomalous(path, i) == IF i = 5 THEN path[5].ms < ThroughputFloor ELSE path[i].ms > SlowMs[i]

WorstAnomaly(path) ==
  LET slow == {i \in 1..4 : Anomalous(path, i)}
  IN IF slow # {} THEN QStages[First({i \in slow : \A j \in slow : path[j].ms <= path[i].ms})]
     ELSE IF Anomalous(path, 5) THEN "throughput" ELSE ""

ProbeConnectionQuality(path) ==
  LET bad == {i \in 1..5 : ~path[i].ok}
  IN IF bad # {} THEN [ok |-> FALSE, failed |-> QStages[First(bad)], bottleneck |-> ""]
     ELSE [ok |-> TRUE, failed |-> "", bottleneck |-> WorstAnomaly(path)]

ConnectionQualityCheck(r) ==
  Row("connection_quality", 0,
      IF ~r.ok THEN "fail" ELSE IF r.bottleneck # "" THEN "warn" ELSE "ok", NoRemedy)

-----------------------------------------------------------------------------
(* The decoy fetch.  A link is how a connection behaves once TLS stands:    *)
(* what the padded request meets, what the status line meets, how many KB   *)
(* of body come and what ends them.                                         *)

UploadPad == 20
DownloadTarget == 32
FreezeFloor == 8

Fetched(n, frozen, err) == [tcp |-> TRUE, tls |-> TRUE, kb |-> n, frozen |-> frozen, err |-> err]

(* Mutant: the padded upload does not count as flowed.                       *)
FetchIgnoringUpload(link) ==
  IF link.request = "timeout" THEN Fetched(0, FALSE, TRUE) ELSE
  IF link.kb < FreezeFloor THEN Fetched(link.kb, FALSE, link.end # "eof")
  ELSE Fetched(UploadPad + link.kb, link.end = "timeout", FALSE)

FetchHTTP(link) ==
  LET kb == UploadPad + link.kb IN
  CASE link.request = "timeout" -> Fetched(UploadPad, TRUE, FALSE)
    [] link.request = "error" -> Fetched(0, FALSE, TRUE)
    [] link.request = "sent" /\ link.line # "line" ->
         Fetched(UploadPad, link.line = "timeout", link.line # "timeout")
    [] link.request = "sent" /\ link.line = "line" /\ (link.kb >= DownloadTarget \/ link.end = "eof") ->
         Fetched(kb, FALSE, FALSE)
    [] OTHER -> LET froze == link.end = "timeout" /\ kb >= FreezeFloor
                IN Fetched(kb, froze, ~froze)

(* A dial or a handshake that failed.                                       *)
Refused(tcp) == [tcp |-> tcp, tls |-> FALSE, kb |-> 0, frozen |-> FALSE, err |-> TRUE]

HasCamouflage(n) == ~n.group /\ n.security # "none" /\ ServerNetwork(n) = "tcp"

CamouflageCheck(i, r) ==
  Row("camouflage", i,
      IF ~r.tcp \/ ~r.tls THEN "fail" ELSE IF r.frozen THEN "warn" ELSE "ok", NoRemedy)

ProviderCheck(i, r) ==
  Row("provider", i,
      IF ~r.tcp THEN "fail" ELSE IF ~r.tls \/ r.frozen THEN "warn" ELSE "ok", NoRemedy)

-----------------------------------------------------------------------------
(* What the loader of the node's core says of it, without dialing.          *)
ValidateNodeConfig(n) == n.valid

(* The staged diagnosis: what the core's loader says of the configuration,  *)
(* what a direct dial says of the endpoint, what a fetch through the core   *)
(* says of the tunnel.  A QUIC node has no TCP endpoint to dial.            *)
DiagnoseNode(n, dialed, carried) ==
  LET failed == IF ~ValidateNodeConfig(n) THEN "config"
                ELSE IF ServerNetwork(n) = "tcp" /\ ~dialed THEN "tcp"
                ELSE IF ~carried THEN "proxy" ELSE ""
  IN [ok |-> failed = "", failed |-> failed]

NodeHealthCheck(i, d) == Row("node_health", i, IF d.ok THEN "ok" ELSE "fail", NoRemedy)

-----------------------------------------------------------------------------
(* The network report.  `truth` is what the trusted DoH channel answers for *)
(* a name (None when it does not answer), `os` and `udp` what the system    *)
(* resolver and plain DNS answer.                                           *)

ProbeDNSIntegrity(domains, a) ==
  LET forged(name, got) == /\ a.truth[name] # None
                           /\ got # {}
                           /\ got \cap a.truth[name] = {}
      names == {domains[i] : i \in DOMAIN domains}
  IN IF a.truth["control"] = None
     THEN [works |-> FALSE, poisoned |-> {}, stubs |-> {}, hijacked |-> FALSE]
     ELSE
     [works |-> TRUE,
      poisoned |-> {d \in names : forged(d, a.os[d])},
      stubs |-> {ip \in UNION {a.os[d] : d \in names} :
                   Cardinality({d \in names : ip \in a.os[d]}) >= 2},
      hijacked |-> forged(domains[1], a.udp)]

DnsIntegrityCheck(r) ==
  Row("dns_integrity", 0,
      IF ~r.works \/ r.poisoned # {} \/ r.stubs # {} \/ r.hijacked THEN "warn" ELSE "ok",
      NoRemedy)

ProtocolsCheck(blocked) ==
  Row("protocols", 0, IF blocked = {} THEN "ok" ELSE "warn", NoRemedy)

(* Host firewall against forwarded traffic; no row off Linux.               *)
ForwardingCheck(r) ==
  IF ~r.linux THEN {}
  ELSE {Row("forwarded_traffic", 0,
            IF r.ufw /\ r.deny /\ r.bridges # {} THEN "warn" ELSE "ok", NoRemedy)}
=============================================================================
