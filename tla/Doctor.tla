------------------------------- MODULE Doctor -------------------------------
(* The connection doctor: read-only verbs of the daemon that probe the      *)
(* network around it and answer with a report, and the client page that     *)
(* offers a report's remedies.  A verb takes its snapshot of the settings,  *)
(* opens one goroutine per probe ("leg") and answers when all have ended;   *)
(* the network, the session's TUN and the stored document may move under    *)
(* it, and its budget may run out.  Verdicts are those of Checks.           *)
(*                                                                          *)
(* A leg that has been opened passes through `open` (what can be measured   *)
(* in one go), `front` (dial and TLS handshake) and `fetch` (the decoy      *)
(* transfer, which heeds its own stall windows and not the verb's budget),  *)
(* as far as its kind goes; the sweeps start theirs `queued` behind a       *)
(* semaphore.                                                               *)
EXTENDS Checks

CONSTANTS
  Nodes,        \* the active profile's nodes, a sequence of node records
  Active,       \* index of its active node, 0 when there is none
  Candidates,   \* doctorResolverCandidates: upstreams in preference order
  Known,        \* addresses of resolverHostnames
  Domains,      \* dnsReferenceDomains
  Providers,    \* how many providers the network report dials
  Ports,        \* how many transports it dials
  Cap,          \* slots of the node sweeps (8 in the code)
  ProviderCap,  \* slots of the provider sweep (6 in the code)
  Forwarding,   \* what ProbeForwarding reads on this host
  Documents,    \* settings documents a user may try to save
  World,        \* states the network around the daemon may be in, a sequence
  Verbs         \* verbs the page may ask for

(* What the constants stand for.  A link says how a connection behaves once *)
(* TLS stands, a host how a dial, a handshake, a transfer and a tunnel fare *)
(* there, an answer set what each resolver says of each name.               *)
Upstream == [type : STRING, addr : STRING]
DocType ==
  [ip : STRING, strategy : Strategies \cup STRING, servers : Seq(Upstream),
   via : BOOLEAN, live : BOOLEAN, sane : BOOLEAN]
NodeType ==
  [group : BOOLEAN, proto : STRING, transport : STRING, security : STRING,
   special : BOOLEAN, override : {None} \cup Cores, valid : BOOLEAN]
LinkType ==
  [request : {"timeout", "error", "sent"}, line : {"line", "timeout", "error"},
   kb : Nat, end : {"eof", "timeout", "error", "more"}]
HostType == [tcp : BOOLEAN, tls : BOOLEAN, link : LinkType, tunnel : BOOLEAN]
Names == {Domains[i] : i \in DOMAIN Domains}
Answers ==
  [truth : [Names \cup {"control"} -> {None} \cup SUBSET STRING],
   os : [Names -> SUBSET STRING], udp : SUBSET STRING]
Network ==
  [families : SUBSET Families, up : SUBSET Upstream,
   path : [1..5 -> [ok : BOOLEAN, ms : Nat]],
   hosts : [DOMAIN Nodes -> HostType], providers : [1..Providers -> HostType],
   answers : Answers, ports : SUBSET (1..Ports), tun : BOOLEAN]

ASSUME DoctorAssumption ==
  /\ Cap \in Nat \ {0} /\ ProviderCap \in Nat \ {0}
  /\ Nodes \in Seq(NodeType) /\ Active \in Nat /\ Providers \in Nat /\ Ports \in Nat
  /\ Candidates \in Seq(Upstream)
  /\ \A i \in DOMAIN Candidates : Candidates[i].type \in {"udp", "tls", "https"}
  /\ Domains \in Seq(STRING) /\ Domains # <<>>
  /\ Forwarding \in [linux : BOOLEAN, ufw : BOOLEAN, deny : BOOLEAN, bridges : SUBSET STRING]
  /\ Documents \subseteq DocType
  /\ World \in Seq(Network)
  /\ Verbs \subseteq {"doctor", "doctor_nodes", "test_latency", "diagnose", "network_report"}
  /\ None \notin Cores

VARIABLES
  doc,      \* settings.json
  net,      \* which of World the probes meet; its `tun`: a session's TUN is up
  run,      \* the verb in flight, None when there is none
  at,       \* how far each of its legs has come
  got,      \* the rows each of its legs has produced
  report,   \* the last report: its rows and how it relates to doc and net
  page,     \* an apply between its get_settings and its set_settings
  applied   \* history: remedies applied since doc or net moved otherwise

vars == <<doc, net, run, at, got, report, page, applied>>
inFlight == <<run, at, got>>

Net == World[net]
Idle == run = None
NoReport == [verb |-> "none", rows |-> {}, match |-> "moved"]

-----------------------------------------------------------------------------
(* Legs: <<kind, index>>.                                                   *)

Kind(l) == l[1]
Index(l) == l[2]
Node(l) == Nodes[Index(l)]
Plain == {i \in DOMAIN Nodes : ~Nodes[i].group}

Legs(v, d, S) ==
  CASE v = "doctor" ->
         {<<"v4", 0>>, <<"v6", 0>>, <<"quality", 0>>}
           \cup {<<"dns", i>> : i \in DOMAIN d.servers}
           \cup {<<"health", i>> : i \in Plain \cap {Active}}
           \cup {<<"front", i>> : i \in {j \in Plain \cap {Active} : HasCamouflage(Nodes[j])}}
    [] v = "doctor_nodes" -> {<<"node", i>> : i \in DOMAIN Nodes}
    [] v = "test_latency" -> {<<"ping", i>> : i \in S}
    [] v = "diagnose" -> {<<"diagnose", i>> : i \in S}
    [] v = "network_report" ->
         {<<"provider", i>> : i \in 1..Providers} \cup {<<"dnsint", 0>>}
           \cup {<<"port", i>> : i \in 1..Ports}

Entry(l) ==
  CASE Kind(l) \in {"node", "ping", "provider"} -> "queued"
    [] Kind(l) = "front" -> "front"
    [] OTHER -> "open"

Slots(kind) == IF kind = "provider" THEN ProviderCap ELSE Cap
Holding(kind) == {l \in DOMAIN at : Kind(l) = kind /\ at[l] \in {"open", "front", "fetch"}}

-----------------------------------------------------------------------------
(* What a leg measures when it ends in state `net`.                         *)

Host(l) == IF Kind(l) = "provider" THEN Net.providers[Index(l)] ELSE Net.hosts[Index(l)]

ProbeInternet(f) == ~run.expired /\ f \in Net.families
ProbeDNSUpstream(u) == ~run.expired /\ u \in Net.up
ProbeProtocols(i) == ~run.expired /\ i \in Net.ports

(* The dns stage of the staged fetch asks the primary itself; a DoH         *)
(* upstream the code knows no hostname for cannot be asked.                 *)
QualityPath(d) ==
  LET u == d.servers[1]
  IN [Net.path EXCEPT ![1].ok = /\ @
                                /\ ProbeDNSUpstream(u)
                                /\ u.type = "https" => u.addr \in Known]

(* A round trip through an ephemeral core of the kind that dials the node.  *)
(* The xray one always marks its own traffic; a sing-box one that was not   *)
(* told of the TUN runs through it and measures the session, not the node.  *)
ProbeLatency(n, h) == {ValidateNodeConfig(n) /\ h.tunnel}
ProbeLatencySingBox(n, h) ==
  IF ValidateNodeConfig(n) /\ Net.tun /\ ~run.exempt THEN BOOLEAN ELSE ProbeLatency(n, h)

ProbeNodeLatency(n, h) ==
  CASE run.expired \/ SelectCore(n) = None -> {FALSE}
    [] ~run.expired /\ SelectCore(n) = "xray" -> ProbeLatency(n, h)
    [] ~run.expired /\ SelectCore(n) = "singbox" -> ProbeLatencySingBox(n, h)

Health(l, carried) == DiagnoseNode(Node(l), ~run.expired /\ Host(l).tcp, carried)

NodeHealth(l, carried) ==
  IF SelectCore(Node(l)) = None THEN {}
  ELSE {NodeHealthCheck(Index(l), Health(l, carried))}

(* A probe that only says yes or no: a row of the leg's own.                *)
Said(l, yes) == {Row(Kind(l), Index(l), IF yes THEN "ok" ELSE "fail", NoRemedy)}

(* A DNS integrity probe asks one resolver after the other: the trusted     *)
(* channel for the control name, then the system's resolver and the channel *)
(* for each name, plain DNS at last.  When its budget ends under it, only   *)
(* the first k questions were answered.                                     *)
Questions == 2 * Len(Domains) + 1
Heard(k) ==
  LET a == Net.answers
      answered(name, q) == \E i \in DOMAIN Domains : Domains[i] = name /\ 2 * i + q <= k
  IN IF ~run.expired THEN a
     ELSE [truth |-> [n \in DOMAIN a.truth |->
                        IF (n = "control" /\ k > 0) \/ answered(n, 1) THEN a.truth[n] ELSE None],
           os |-> [n \in DOMAIN a.os |-> IF answered(n, 0) THEN a.os[n] ELSE {}],
           udp |-> {}]

(* The ways a leg may end its measurement: the rows it has then.            *)
Outcomes(l) ==
  CASE Kind(l) \in Families -> {Said(l, ProbeInternet(Kind(l)))}
    [] Kind(l) = "dns" -> {Said(l, ProbeDNSUpstream(run.snap.servers[Index(l)]))}
    [] Kind(l) = "candidate" -> {Said(l, ProbeDNSUpstream(Candidates[Index(l)]))}
    [] Kind(l) = "port" -> {Said(l, ProbeProtocols(Index(l)))}
    [] Kind(l) = "quality" ->
         {{ConnectionQualityCheck(ProbeConnectionQuality(QualityPath(run.snap)))}}
    [] Kind(l) = "dnsint" ->
         {{DnsIntegrityCheck(ProbeDNSIntegrity(Domains, Heard(k)))} : k \in 0..Questions}
    [] Kind(l) \in {"health", "diagnose", "node"} ->
         IF Node(l).group THEN {{}}
         ELSE {NodeHealth(l, c) : c \in ProbeNodeLatency(Node(l), Host(l))}
    [] Kind(l) = "ping" -> {Said(l, c) : c \in ProbeNodeLatency(Node(l), Host(l))}

FrontRow(l, r) == IF Kind(l) = "provider" THEN ProviderCheck(Index(l), r)
                  ELSE CamouflageCheck(Index(l), r)

-----------------------------------------------------------------------------
(* Reports.                                                                 *)

Got(l) == \E row \in got[l] : row.status = "ok"

FirstReachableCandidate ==
  LET ok == {i \in DOMAIN Candidates : <<"candidate", i>> \in DOMAIN at /\ Got(<<"candidate", i>>)}
  IN IF ok = {} THEN None ELSE Candidates[First(ok)]

Collect(kinds) == UNION {got[l] : l \in {k \in DOMAIN at : Kind(k) \in kinds}}

DoctorRows ==
  LET d == run.snap
      up == {f \in Families : Got(<<f, 0>>)}
      reach == [i \in DOMAIN d.servers |-> Got(<<"dns", i>>)]
  IN {InternetCheck(up, d.ip, d.strategy),
      ResolverCheckResult(d.servers, reach, d.via, FirstReachableCandidate)}
     \cup Collect({"quality", "health", "front"})

NetworkRows ==
  {ProtocolsCheck({i \in 1..Ports : ~Got(<<"port", i>>)})} \cup Collect({"provider", "dnsint"})

(* The rows of a report; the order they are shown in is left out.           *)
Rows ==
  CASE run.verb = "doctor" -> DoctorRows
    [] run.verb = "network_report" -> NetworkRows
    [] OTHER -> Collect({"node", "diagnose", "ping"})

Remedies(rows) == {row.remedy : row \in rows} \ {NoRemedy}

-----------------------------------------------------------------------------
(* The verbs.                                                               *)

Init ==
  /\ doc \in {d \in Documents : ValidateSettings(d)}
  /\ net \in DOMAIN World
  /\ run = None /\ at = <<>> /\ got = <<>>
  /\ report = NoReport
  /\ page = None
  /\ applied = {}

(* The nodes a verb is asked about: explicit ones, or all; groups and       *)
(* unknown names are skipped, and nothing left to ask, or a node no core    *)
(* can dial, is an error reply.                                             *)
Asked(v) ==
  CASE v = "test_latency" -> SUBSET Plain \ {{}}
    [] v = "diagnose" -> {{i} : i \in {j \in Plain : SelectCore(Nodes[j]) # None}}
    [] OTHER -> {{}}

Begin(v) ==
  /\ Idle /\ page = None
  /\ \E S \in Asked(v) :
       /\ at' = [l \in Legs(v, doc, S) |-> Entry(l)]
       /\ got' = [l \in Legs(v, doc, S) |-> {}]
  /\ run' = [verb |-> v, snap |-> IF v = "doctor" THEN doc ELSE None,
             exempt |-> Net.tun, expired |-> FALSE, steady |-> TRUE]
  /\ report' = NoReport
  /\ UNCHANGED <<doc, net, page, applied>>

(* forwarding_check reads local files and answers at once.                  *)
ForwardingReport ==
  /\ Idle
  /\ report' = [verb |-> "forwarding_check", rows |-> ForwardingCheck(Forwarding), match |-> "exact"]
  /\ UNCHANGED <<doc, net, inFlight, page, applied>>

(* A sweep's goroutine gets a slot; its deferred release is its last step.  *)
Acquire(l) ==
  /\ at[l] = "queued"
  /\ Cardinality(Holding(Kind(l))) < Slots(Kind(l))
  /\ at' = [at EXCEPT ![l] = IF Kind(l) = "provider" THEN "front" ELSE "open"]
  /\ UNCHANGED got

(* Mutant: the early return on a group skips the deferred release.           *)
MeasureGroupHangs(l) ==
  /\ at[l] = "open"
  /\ ~(Kind(l) = "node" /\ Node(l).group)
  /\ \E rows \in Outcomes(l) : got' = [got EXCEPT ![l] = rows]
  /\ at' = [at EXCEPT ![l] = IF Kind(l) = "node" /\ HasCamouflage(Node(l)) THEN "front" ELSE "done"]

Measure(l) ==
  /\ at[l] = "open"
  /\ \E rows \in Outcomes(l) : got' = [got EXCEPT ![l] = rows]
  /\ at' = [at EXCEPT ![l] = IF Kind(l) = "node" /\ HasCamouflage(Node(l)) THEN "front" ELSE "done"]

(* A leg's last row.                                                        *)
Ends(l, row) ==
  /\ at' = [at EXCEPT ![l] = "done"]
  /\ got' = [got EXCEPT ![l] = @ \cup {row}]

Handshake(l) ==
  /\ at[l] = "front"
  /\ IF ~run.expired /\ Host(l).tcp /\ Host(l).tls
     THEN at' = [at EXCEPT ![l] = "fetch"] /\ UNCHANGED got
     ELSE Ends(l, FrontRow(l, Refused(~run.expired /\ Host(l).tcp)))

DialVerifyFetch(l) ==
  /\ at[l] = "fetch"
  /\ Ends(l, FrontRow(l, FetchHTTP(Host(l).link)))

(* resolverCheck's second round: the candidates not configured already.     *)
Untried ==
  LET d == run.snap
      configured == {d.servers[i].addr : i \in DOMAIN d.servers}
      left == {i \in DOMAIN Candidates : Candidates[i].addr \notin configured}
  IN IF run.verb = "doctor" /\ WantsCandidate(d, [i \in DOMAIN d.servers |-> Got(<<"dns", i>>)])
     THEN {<<"candidate", i>> : i \in left} \ DOMAIN at
     ELSE {}

ResolverCheck ==
  /\ \A l \in DOMAIN at : Kind(l) = "dns" => at[l] = "done"
  /\ Untried # {}
  /\ at' = [l \in DOMAIN at \cup Untried |-> IF l \in Untried THEN "open" ELSE at[l]]
  /\ got' = [l \in DOMAIN at \cup Untried |-> IF l \in Untried THEN {} ELSE got[l]]

Join ==
  /\ \A l \in DOMAIN at : at[l] = "done"
  /\ Untried = {}
  /\ report' = [verb |-> run.verb, rows |-> IF run.steady THEN Rows ELSE {},
                match |-> IF ~run.steady THEN "moved" ELSE IF run.expired THEN "late" ELSE "exact"]
  /\ run' = None /\ at' = <<>> /\ got' = <<>>

LegStep(l) == Acquire(l) \/ Measure(l) \/ Handshake(l) \/ DialVerifyFetch(l)

Step ==
  /\ ~Idle
  /\ \/ (\E l \in DOMAIN at : LegStep(l)) /\ UNCHANGED <<run, report>>
     \/ ResolverCheck /\ UNCHANGED <<run, report>>
     \/ Join
  /\ UNCHANGED <<doc, net, page, applied>>

(* The verb's context deadline: whatever still dials fails from here on.    *)
Expire ==
  /\ ~Idle
  /\ ~run.expired /\ run.steady
  /\ run' = [run EXCEPT !.expired = TRUE]
  /\ UNCHANGED <<doc, net, at, got, report, page, applied>>

-----------------------------------------------------------------------------
(* The world and the page.  Bounds: one disturbance per verb (its budget    *)
(* ends, or the document or the network moves); an apply is not in flight   *)
(* with a verb (which would see it as one more edit) and starts from a      *)
(* report that still matches (from any other it is a user's edit).          *)

Moves ==
  /\ ~Idle => run.steady /\ ~run.expired
  /\ run' = IF Idle THEN None ELSE [run EXCEPT !.steady = FALSE]
  /\ report' = [report EXCEPT !.match = "moved", !.rows = {}]
  /\ UNCHANGED <<at, got>>

Shift ==
  /\ \E n \in DOMAIN World \ {net} : net' = n
  /\ Moves
  /\ page' = IF page = None THEN None ELSE [page EXCEPT !.quiet = FALSE]
  /\ applied' = {}
  /\ UNCHANGED doc

(* Mutant: the document is saved as it came.                               *)
SetSettingsRaw(d) == doc' = d

SetSettings(d) == doc' = IF ValidateSettings(d) THEN d ELSE doc

UserEdit ==
  /\ \E d \in Documents \ {doc} : SetSettings(d)
  /\ Moves
  /\ page' = IF page = None THEN None ELSE [page EXCEPT !.quiet = FALSE]
  /\ applied' = {}
  /\ UNCHANGED net

(* Apply, first half: get_settings, and the remedy patched into the reply.  *)
ApplyRead ==
  /\ Idle /\ page = None /\ report.match = "exact"
  /\ \E r \in Remedies(report.rows) :
       page' = [doc |-> Patch(doc, r), remedy |-> r, quiet |-> TRUE]
  /\ UNCHANGED <<doc, net, inFlight, report, applied>>

(* Second half: the full document goes back, over whatever was saved since. *)
ApplyWrite ==
  /\ page # None
  /\ SetSettings(page.doc)
  /\ Moves
  /\ applied' = IF page.quiet THEN applied \cup {page.remedy} ELSE {}
  /\ page' = None
  /\ UNCHANGED net

Next ==
  \/ \E v \in Verbs : Begin(v)
  \/ ForwardingReport
  \/ Step
  \/ Expire
  \/ Shift
  \/ UserEdit
  \/ ApplyRead
  \/ ApplyWrite

Spec == Init /\ [][Next]_vars

(* Every probe has a timeout of its own, so every opened leg ends.          *)
FairSpec == Spec /\ WF_vars(Step)

-----------------------------------------------------------------------------
(* Properties.                                                              *)

Matches == {"exact", "late", "moved"}

(* Type invariant: legs only pass through the stages of their kind, and a   *)
(* report whose world has moved on keeps no rows to be judged by.           *)
TypeOK ==
  /\ ValidateSettings(doc) /\ net \in DOMAIN World
  /\ ~Idle => /\ run.verb \in Verbs /\ DOMAIN got = DOMAIN at
              /\ \A l \in DOMAIN at :
                   /\ at[l] \in {"queued", "open", "front", "fetch", "done"}
                   /\ at[l] = "fetch" => Kind(l) \in {"front", "node", "provider"}
                   /\ at[l] = "done" /\ Kind(l) \notin {"node", "health"} => got[l] # {}
  /\ report.match \in Matches /\ (report.match = "moved" => report.rows = {})
  /\ page # None => page.remedy.lever \in {"strategy", "servers", "via"}

Stalls(link) ==
  \/ link.request = "timeout"
  \/ link.request = "sent" /\ link.line = "timeout"
  \/ link.request = "sent" /\ link.line = "line" /\ link.kb < DownloadTarget /\ link.end = "timeout"
Carries(link) ==
  link.request = "sent" /\ link.line = "line" /\ (link.kb >= DownloadTarget \/ link.end = "eof")

(* Reset, or ended by another error, after the handshake and before it has  *)
(* carried what was asked for.                                              *)
Breaks(link) ==
  \/ link.request = "error"
  \/ link.request = "sent" /\ link.line = "error"
  \/ /\ link.request = "sent" /\ link.line = "line"
     /\ link.kb < DownloadTarget /\ link.end \in {"error", "more"}

Fronts(h) == h.tcp /\ h.tls /\ (Carries(h.link) \/ Breaks(h.link))

(* What has to be true of the settings and the network for a row to be      *)
(* green, said without the verdict functions; a family given up by a pin    *)
(* and answers that may not have been asked for count only when the report  *)
(* is exact, and a connection that breaks after its handshake counts as     *)
(* right.                                                                   *)
Warranted(row, d, n, exact) ==
  LET i == row.of
      own == Leaning(DnsStrategy(d.strategy, d.ip))
      primary == d.servers[1]
      honest(name, heard) == heard = {} \/ n.answers.truth[name] = None
                             \/ \E ip \in heard : ip \in n.answers.truth[name]
  IN CASE row.id = "internet" ->
            /\ own \in n.families
            /\ own = Leaning(NormalizeStrategy(d.strategy))
            /\ d.ip # "both" /\ exact => Other(own) \notin n.families
       [] row.id = "resolvers" -> d.via \/ primary \in n.up
       [] row.id = "connection_quality" ->
            /\ primary \in n.up /\ (primary.type = "https" => primary.addr \in Known)
            /\ \A k \in 1..5 : n.path[k].ok
            /\ \A k \in 1..4 : n.path[k].ms <= SlowMs[k]
            /\ n.path[5].ms >= ThroughputFloor
       [] row.id = "node_health" ->
            /\ Nodes[i].valid /\ n.hosts[i].tunnel
            /\ ServerNetwork(Nodes[i]) = "tcp" => n.hosts[i].tcp
       [] row.id = "ping" -> Nodes[i].valid /\ SelectCore(Nodes[i]) # None /\ n.hosts[i].tunnel
       [] row.id = "camouflage" -> Fronts(n.hosts[i])
       [] row.id = "provider" -> Fronts(n.providers[i])
       [] row.id = "dns_integrity" ->
            /\ n.answers.truth["control"] # None
            /\ exact =>
                 /\ honest(Domains[1], n.answers.udp)
                 /\ \A x \in Names :
                      /\ honest(x, n.answers.os[x])
                      /\ \A y \in Names \ {x} : n.answers.os[x] \cap n.answers.os[y] = {}
       [] row.id = "protocols" -> n.ports = 1..Ports
       [] row.id = "forwarded_traffic" -> ~(Forwarding.ufw /\ Forwarding.deny /\ Forwarding.bridges # {})

Healthy(row) == Warranted(row, doc, Net, report.match = "exact")

(* A report of an undisturbed, unexpired verb is green exactly where the    *)
(* settings and the network are right, whichever order the probes ended in  *)
(* and whichever round of them decided; one that ran out of its budget may  *)
(* only be too pessimistic, but for two things it did not get to see: a     *)
(* working family the pin gives up, and forged answers to the names whose   *)
(* truth was not asked for in time, which ProbeDNSIntegrity takes for an    *)
(* honest answer (doctor, doctorNodes, networkReport, testLatency,          *)
(* diagnose).  In any report a front or a provider that resets connections  *)
(* after the handshake is green too: camouflageCheck and providerCheck look *)
(* at the stages and the freeze and not at fetchHTTP's error.  A report     *)
(* whose world moved under it is not judged.                                *)
VerdictsExact ==
  \A row \in report.rows :
    /\ row.status = "ok" => Healthy(row)
    /\ report.match = "exact" /\ Healthy(row) => row.status = "ok"

(* What providerCheck and the network report say of a provider row, "ok     *)
(* when it carries traffic", "reachable vs RST / frozen / DNS-blocked": a   *)
(* green one carried what was asked for.  One that resets connections after *)
(* the handshake is green as well.                                          *)
GreenCarries ==
  \A row \in report.rows :
    row.id = "provider" /\ row.status = "ok" => Carries(Net.providers[row.of].link)

(* The doctor does not send the user in circles: while nothing else moves,  *)
(* no report offers a remedy that has already been applied (the remedies of *)
(* internetCheck and resolverCheckResult, applied by the page's _apply).    *)
(* Two upstreams at one address are the exception: promoteResolver looks    *)
(* the reachable one up by its address, finds the blocked one and offers    *)
(* the list as it is, again and again.                                      *)
NoRepeatedRemedy ==
  /\ report.match = "exact"
  /\ \A i, j \in DOMAIN doc.servers : doc.servers[i].addr = doc.servers[j].addr => i = j
  => Remedies(report.rows) \cap applied = {}

(* Every verb is answered: no probe waits for a slot nobody gives back, and *)
(* the join waits for nothing that was not opened (the semaphores and wait  *)
(* groups of doctorNodes, testLatency and ProbeProviders).                  *)
VerbAnswers == ~Idle ~> Idle

-----------------------------------------------------------------------------
(* What the proofs rest on.                                                 *)

Flags == Families \cup {"dns", "candidate", "port"}
Fronted == {"front", "node", "provider"}
OfNode == {"health", "front", "node", "ping", "diagnose"}
OfDoctor == Families \cup {"dns", "candidate", "quality", "health", "front"}
Kinds == OfDoctor \cup {"port", "dnsint", "node", "ping", "diagnose", "provider"}

(* The rows a kind of leg has.                                              *)
IdsOf(kind) ==
  CASE kind \in Flags \cup {"ping"} -> {kind}
    [] kind = "quality" -> {"connection_quality"}
    [] kind = "dnsint" -> {"dns_integrity"}
    [] kind \in {"health", "diagnose"} -> {"node_health"}
    [] kind = "node" -> {"node_health", "camouflage"}
    [] kind = "front" -> {"camouflage"}
    [] kind = "provider" -> {"provider"}

Typed ==
  /\ doc \in DocType
  /\ ~Idle => /\ run \in [verb : Verbs, snap : {None} \cup DocType, exempt : BOOLEAN,
                           expired : BOOLEAN, steady : BOOLEAN]
              /\ run.verb = "doctor" => run.snap \in DocType /\ ValidateSettings(run.snap)
  /\ report = [verb |-> report.verb, rows |-> report.rows, match |-> report.match]
  /\ page # None => /\ page = [doc |-> page.doc, remedy |-> page.remedy, quiet |-> page.quiet]
                    /\ page.doc \in DocType /\ page.quiet \in BOOLEAN

(* A leg is about something there is.                                       *)
Fits(l) ==
  /\ l = <<Kind(l), Index(l)>> /\ Kind(l) \in Kinds
  /\ Kind(l) \in OfDoctor => run.verb = "doctor"
  /\ Kind(l) \in Families \cup {"quality", "dnsint"} => Index(l) = 0
  /\ Kind(l) = "dns" => Index(l) \in DOMAIN run.snap.servers
  /\ Kind(l) = "candidate" => Index(l) \in DOMAIN Candidates
  /\ Kind(l) \in OfNode => Index(l) \in DOMAIN Nodes
  /\ Kind(l) = "diagnose" => ~Node(l).group /\ SelectCore(Node(l)) # None
  /\ Kind(l) = "provider" => Index(l) \in 1..Providers
  /\ Kind(l) = "port" => Index(l) \in 1..Ports

(* The legs a report cannot do without.                                     *)
Needed ==
  CASE run.verb = "doctor" ->
         {<<f, 0>> : f \in Families} \cup {<<"dns", i>> : i \in DOMAIN run.snap.servers}
    [] run.verb = "network_report" -> {<<"port", i>> : i \in 1..Ports}
    [] OTHER -> {}

(* Where a leg may be, and the rows it may have by then.                    *)
Staged(l) ==
  /\ at[l] \in {"queued", "open", "front", "fetch", "done"}
  /\ at[l] = "queued" => Kind(l) \in {"node", "ping", "provider"}
  /\ at[l] = "open" => Kind(l) \notin {"front", "provider"}
  /\ at[l] \in {"front", "fetch"} => Kind(l) \in Fronted
  /\ got[l] \subseteq [id : IdsOf(Kind(l)), of : {Index(l)}, status : {"ok", "warn", "fail"},
                       remedy : {NoRemedy}]
  /\ at[l] \in {"queued", "open"} => got[l] = {}
  /\ at[l] = "done" /\ Kind(l) \notin {"node", "health"} => got[l] # {}

LegsTyped ==
  ~Idle => /\ at = [l \in DOMAIN at |-> at[l]] /\ got = [l \in DOMAIN at |-> got[l]]
           /\ Needed \subseteq DOMAIN at
           /\ \A l \in DOMAIN at : Fits(l) /\ Staged(l)

(* What a row says when it is green, for the rows of a report and for the   *)
(* yes or no of a single probe.                                             *)
Promised(row) ==
  CASE row.id \in Families -> row.id \in Net.families
    [] row.id = "dns" -> doc.servers[row.of] \in Net.up
    [] row.id = "candidate" -> Candidates[row.of] \in Net.up
    [] row.id = "port" -> row.of \in Net.ports
    [] OTHER -> Warranted(row, doc, Net, ~run.expired)

Judged(row, exact) == /\ row.status = "ok" => Promised(row)
                      /\ exact /\ Promised(row) => row.status = "ok"

(* While nothing moves, the verb works on the stored document, a leg past   *)
(* its handshake met a host that took it, and every row so far is right, or *)
(* too pessimistic once the budget is over.                                 *)
LegsSound ==
  ~Idle /\ run.steady =>
    /\ run.verb = "doctor" => run.snap = doc
    /\ run.exempt = Net.tun
    /\ \A l \in DOMAIN at :
         /\ at[l] = "fetch" => Host(l).tcp /\ Host(l).tls
         /\ \A row \in got[l] : Judged(row, ~run.expired)

Distinct(servers) == \A i, j \in DOMAIN servers : servers[i].addr = servers[j].addr => i = j

(* The two complaints that have a remedy.                                   *)
Misled(d) == InternetCheck(Net.families, d.ip, d.strategy).remedy # NoRemedy
Blocked(d) == ~d.via /\ d.servers[1] \notin Net.up

(* A remedy answers a complaint about the document, and the document it     *)
(* makes is accepted and no longer complained about; the other lever stays. *)
Cures(r) ==
  LET d == Patch(doc, r) IN
  /\ r.lever \in {"strategy", "servers", "via"}
  /\ d \in DocType /\ ValidateSettings(d)
  /\ r.lever = "strategy" =>
       Misled(doc) /\ ~Misled(d) /\ d.servers = doc.servers /\ d.via = doc.via
  /\ r.lever # "strategy" =>
       /\ Blocked(doc) /\ (Distinct(d.servers) => ~Blocked(d))
       /\ d.ip = doc.ip /\ d.strategy = doc.strategy

(* Every remedy an exact report offers cures what it is offered for         *)
(* (strategyRemedy, promoteResolver, FirstReachableCandidate).              *)
RemediesCure == report.match = "exact" => \A r \in Remedies(report.rows) : Cures(r)

(* An apply under way, undisturbed, is the cure of the stored document.     *)
PageSound ==
  page # None /\ page.quiet => page.doc = Patch(doc, page.remedy) /\ Cures(page.remedy)

(* What has been applied is not complained about any more.                  *)
AppliedHelped ==
  /\ \A r \in applied : r.lever \in {"strategy", "servers", "via"}
  /\ (\E r \in applied : r.lever = "strategy") => ~Misled(doc)
  /\ (\E r \in applied : r.lever # "strategy") /\ Distinct(doc.servers) => ~Blocked(doc)

(* No sweep probes more nodes or providers at once than its semaphore has   *)
(* slots (doctorNodes, testLatency, ProbeProviders).                        *)
Sweeps == {"node", "ping", "provider"}
SlotsKept == ~Idle => \A kind \in Sweeps : Cardinality(Holding(kind)) <= Slots(kind)
SlotsInv == SlotsKept /\ (~Idle => IsFiniteSet(DOMAIN at))

DoctorInv ==
  /\ TypeOK /\ Typed /\ LegsTyped /\ LegsSound
  /\ VerdictsExact /\ RemediesCure /\ PageSound /\ AppliedHelped
=============================================================================
