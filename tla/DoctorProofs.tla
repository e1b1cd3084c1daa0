---------------------------- MODULE DoctorProofs ----------------------------
(* Proofs about Doctor: for any profile, any documents, any networks that   *)
(* change under the probes, any number of slots, and every order in which   *)
(* the probes end.                                                          *)
EXTENDS Doctor, ChecksProofs

LEMMA Constants ==
  /\ Cap \in Nat \ {0} /\ ProviderCap \in Nat \ {0}
  /\ Nodes \in Seq(NodeType) /\ Active \in Nat /\ Providers \in Nat /\ Ports \in Nat
  /\ Candidates \in Seq(Upstream)
  /\ \A i \in DOMAIN Candidates : Candidates[i].type \in {"udp", "tls", "https"}
  /\ Domains \in Seq(STRING) /\ Domains # <<>>
  /\ Documents \subseteq DocType
  /\ World \in Seq(Network)
  /\ Verbs \subseteq {"doctor", "doctor_nodes", "test_latency", "diagnose", "network_report"}
  /\ None \notin Cores
BY DoctorAssumption

(* The parts of the constants and of a typed document.                      *)
LEMMA NodeParts ==
  ASSUME NEW i \in DOMAIN Nodes
  PROVE  /\ Nodes[i] \in NodeType
         /\ Nodes[i].group \in BOOLEAN /\ Nodes[i].valid \in BOOLEAN
         /\ Nodes[i].override \in {None} \cup Cores
<1>1. Nodes[i] \in NodeType
  BY Constants
<1>2. QED
  BY <1>1 DEF NodeType

LEMMA NetParts ==
  ASSUME net \in DOMAIN World
  PROVE  /\ Net.families \in SUBSET Families /\ Net.up \in SUBSET Upstream
         /\ Net.path \in Path
         /\ \A i \in DOMAIN Nodes : Net.hosts[i] \in HostType
         /\ \A i \in 1..Providers : Net.providers[i] \in HostType
         /\ Net.ports \in SUBSET (1..Ports) /\ Net.tun \in BOOLEAN
         /\ Net.answers \in Answers
<1>1. Net \in Network
  BY Constants DEF Net
<1>2. QED
  BY <1>1 DEF Network, Path

LEMMA HostParts ==
  ASSUME NEW h \in HostType
  PROVE  h.tcp \in BOOLEAN /\ h.tls \in BOOLEAN /\ h.tunnel \in BOOLEAN /\ h.link \in LinkType
BY DEF HostType

LEMMA DocParts ==
  ASSUME NEW d \in DocType
  PROVE  /\ d.servers \in Seq(Upstream) /\ d.via \in BOOLEAN
         /\ ValidateSettings(d) => /\ d.ip \in Families \cup {"both"}
                                   /\ d.servers # <<>> /\ 1 \in DOMAIN d.servers
                                   /\ d.servers[1] \in Upstream
<1>1. d.servers \in Seq(Upstream) /\ d.via \in BOOLEAN
  BY DEF DocType
<1>2. ValidateSettings(d) => /\ d.ip \in Families \cup {"both"} /\ Len(d.servers) > 0
  BY DEF ValidateSettings
<1>3. QED
  BY <1>1, <1>2

-----------------------------------------------------------------------------
(* While document and network stay, so do the verdicts.                     *)

LEMMA HealthySame ==
  ASSUME doc' = doc, net' = net, NEW row, report'.match = report.match
  PROVE  Healthy(row)' <=> Healthy(row)
BY DEF Healthy, Net

LEMMA PromisedSame ==
  ASSUME doc' = doc, net' = net, run'.expired = run.expired, NEW row
  PROVE  Promised(row)' <=> Promised(row)
BY DEF Promised, Net

LEMMA CuresSame ==
  ASSUME doc' = doc, net' = net, NEW r
  PROVE  Cures(r)' <=> Cures(r)
BY DEF Cures, Net, Misled, Blocked

LEMMA ReportKept ==
  ASSUME VerdictsExact, RemediesCure, doc' = doc, net' = net, report' = report
  PROVE  VerdictsExact' /\ RemediesCure'
<1>1. \A row : Healthy(row)' <=> Healthy(row)
  BY HealthySame
<1>2. \A r : Cures(r)' <=> Cures(r)
  BY CuresSame
<1>3. VerdictsExact'
  BY <1>1 DEF VerdictsExact
<1>4. RemediesCure'
  BY <1>2 DEF RemediesCure, Remedies
<1>5. QED
  BY <1>3, <1>4

LEMMA PageKept ==
  ASSUME PageSound, doc' = doc, net' = net, page' = page
  PROVE  PageSound'
<1>1. \A r : Cures(r)' <=> Cures(r)
  BY CuresSame
<1>2. QED
  BY <1>1 DEF PageSound

LEMMA AppliedKept ==
  ASSUME AppliedHelped, doc' = doc, net' = net, applied' = applied
  PROVE  AppliedHelped'
BY DEF AppliedHelped, Misled, Blocked, Net

-----------------------------------------------------------------------------
(* What each kind of row needs to be green.                                 *)

Honest(name, heard, a) == heard = {} \/ a.truth[name] = None
                          \/ \E ip \in heard : ip \in a.truth[name]

Untampered(a) ==
  /\ Honest(Domains[1], a.udp, a)
  /\ \A x \in Names : /\ Honest(x, a.os[x], a)
                      /\ \A y \in Names \ {x} : a.os[x] \cap a.os[y] = {}

LEMMA DoctorRowsWarranted ==
  ASSUME NEW row, NEW d, NEW n, NEW exact
  PROVE  LET w == Warranted(row, d, n, exact)
             own == Leaning(DnsStrategy(d.strategy, d.ip))
         IN /\ row.id = "internet" =>
                 (w <=> /\ own \in n.families
                        /\ own = Leaning(NormalizeStrategy(d.strategy))
                        /\ d.ip # "both" /\ exact => Other(own) \notin n.families)
            /\ row.id = "resolvers" => (w <=> d.via \/ d.servers[1] \in n.up)
            /\ row.id = "connection_quality" =>
                 (w <=> /\ d.servers[1] \in n.up
                        /\ d.servers[1].type = "https" => d.servers[1].addr \in Known
                        /\ \A k \in 1..5 : n.path[k].ok
                        /\ \A k \in 1..4 : n.path[k].ms <= SlowMs[k]
                        /\ n.path[5].ms >= ThroughputFloor)
<1>1. CASE row.id = "internet"
  BY <1>1 DEF Warranted
<1>2. CASE row.id = "resolvers"
  BY <1>2 DEF Warranted
<1>3. CASE row.id = "connection_quality"
  BY <1>3 DEF Warranted
<1>4. QED
  BY <1>1, <1>2, <1>3

LEMMA NodeRowsWarranted ==
  ASSUME NEW row, NEW d, NEW n, NEW exact
  PROVE  LET w == Warranted(row, d, n, exact)
             i == row.of
         IN /\ row.id = "node_health" =>
                 (w <=> /\ Nodes[i].valid /\ n.hosts[i].tunnel
                        /\ ServerNetwork(Nodes[i]) = "tcp" => n.hosts[i].tcp)
            /\ row.id = "ping" =>
                 (w <=> Nodes[i].valid /\ SelectCore(Nodes[i]) # None /\ n.hosts[i].tunnel)
            /\ row.id = "camouflage" => (w <=> Fronts(n.hosts[i]))
<1>1. CASE row.id = "node_health"
  BY <1>1 DEF Warranted
<1>2. CASE row.id = "ping"
  BY <1>2 DEF Warranted
<1>3. CASE row.id = "camouflage"
  BY <1>3 DEF Warranted
<1>4. QED
  BY <1>1, <1>2, <1>3

LEMMA NetworkRowsWarranted ==
  ASSUME NEW row, NEW d, NEW n, NEW exact
  PROVE  LET w == Warranted(row, d, n, exact)
         IN /\ row.id = "provider" => (w <=> Fronts(n.providers[row.of]))
            /\ row.id = "dns_integrity" =>
                 (w <=> /\ n.answers.truth["control"] # None
                        /\ exact => Untampered(n.answers))
            /\ row.id = "protocols" => (w <=> n.ports = 1..Ports)
            /\ row.id = "forwarded_traffic" =>
                 (w <=> ~(Forwarding.ufw /\ Forwarding.deny /\ Forwarding.bridges # {}))
<1>1. CASE row.id = "provider"
  BY <1>1 DEF Warranted
<1>2. CASE row.id = "dns_integrity"
  BY <1>2 DEF Warranted, Honest, Untampered
<1>3. CASE row.id = "protocols"
  BY <1>3 DEF Warranted
<1>4. CASE row.id = "forwarded_traffic"
  BY <1>4 DEF Warranted
<1>5. QED
  BY <1>1, <1>2, <1>3, <1>4

RowIds == {"connection_quality", "node_health", "ping", "camouflage", "provider", "dns_integrity"}

(* A budget that ends takes nothing back: what a green row promised before, *)
(* it promises after.                                                       *)
LEMMA PromisedLate ==
  ASSUME doc' = doc, net' = net, ~run.expired, run'.expired = TRUE,
         NEW row, row.id \in RowIds \cup Flags, Promised(row)
  PROVE  Promised(row)'
<1>1. CASE row.id \in Flags
  BY <1>1 DEF Promised, Net, Flags, Families
<1>2. CASE row.id \in RowIds
  <2>1. (Promised(row) <=> Warranted(row, doc, Net, TRUE)) /\ Net' = Net
    BY <1>2 DEF Promised, RowIds, Families, Net
  <2>2. Promised(row)' <=> Warranted(row, doc, Net, FALSE)
    BY <1>2, <2>1 DEF Promised, RowIds, Families
  <2>3. Warranted(row, doc, Net, TRUE) => Warranted(row, doc, Net, FALSE)
    <3>1. CASE row.id = "connection_quality"
      BY <3>1, DoctorRowsWarranted
    <3>2. CASE row.id \in {"node_health", "ping", "camouflage"}
      BY <3>2, NodeRowsWarranted
    <3>3. CASE row.id \in {"provider", "dns_integrity"}
      BY <3>3, NetworkRowsWarranted
    <3>4. QED
      BY <1>2, <3>1, <3>2, <3>3 DEF RowIds
  <2>4. QED
    BY <2>1, <2>2, <2>3
<1>3. QED
  BY <1>1, <1>2

-----------------------------------------------------------------------------
(* What a leg ends with.                                                    *)

RowsOf(l) == [id : IdsOf(Kind(l)), of : {Index(l)}, status : {"ok", "warn", "fail"},
              remedy : {NoRemedy}]

(* The rows belong to the leg, and while nothing moves they are right.      *)
Fine(l, rows) ==
  /\ rows \subseteq RowsOf(l)
  /\ run.steady => \A row \in rows : Judged(row, ~run.expired)

LEMMA RunParts ==
  ASSUME Typed, ~Idle
  PROVE  /\ run.verb \in Verbs /\ run.exempt \in BOOLEAN
         /\ run.expired \in BOOLEAN /\ run.steady \in BOOLEAN
         /\ run.verb = "doctor" => run.snap \in DocType /\ ValidateSettings(run.snap)
BY DEF Typed

(* A probe's yes or no is a row that says what the probe saw.               *)
LEMMA SaidFine ==
  ASSUME NEW l, NEW yes \in BOOLEAN, Kind(l) \in Flags \cup {"ping"},
         NEW rows, rows = Said(l, yes), NEW truth \in BOOLEAN,
         run.steady => /\ yes => truth
                       /\ ~run.expired /\ truth => yes
                       /\ \A row : row.id = Kind(l) /\ row.of = Index(l) => (Promised(row) <=> truth)
  PROVE  Fine(l, rows) /\ rows # {}
<1> DEFINE row == Row(Kind(l), Index(l), IF yes THEN "ok" ELSE "fail", NoRemedy)
<1>1. rows = {row}
  BY DEF Said
<1>2. /\ row.id = Kind(l) /\ row.of = Index(l) /\ row.remedy = NoRemedy
      /\ row.status = IF yes THEN "ok" ELSE "fail"
  BY DEF Row
<1>3. Kind(l) \in IdsOf(Kind(l))
  BY DEF IdsOf, Flags, Families
<1>4. row \in RowsOf(l)
  BY <1>2, <1>3 DEF RowsOf, Row
<1>5. row.status = "ok" <=> yes
  BY <1>2
<1> HIDE DEF row
<1>6. run.steady => Judged(row, ~run.expired)
  BY <1>2, <1>5 DEF Judged
<1>7. QED
  BY <1>1, <1>4, <1>6 DEF Fine

LEMMA FlagOutcome ==
  ASSUME DoctorInv, ~Idle, NEW l \in DOMAIN at, Kind(l) \in Flags, NEW rows \in Outcomes(l)
  PROVE  Fine(l, rows) /\ rows # {}
<1>1. Fits(l) /\ run.expired \in BOOLEAN /\ (run.steady => (run.verb = "doctor" => run.snap = doc))
  BY RunParts DEF DoctorInv, LegsTyped, LegsSound
<1>2. CASE Kind(l) \in Families
  <2>1. rows = Said(l, ~run.expired /\ Kind(l) \in Net.families)
    BY <1>2 DEF Outcomes, ProbeInternet, Families
  <2>2. \A row : row.id = Kind(l) => (Promised(row) <=> Kind(l) \in Net.families)
    BY <1>2 DEF Promised, Families
  <2>3. QED
    BY <1>1, <2>1, <2>2, SaidFine
<1>3. CASE Kind(l) = "dns"
  <2>1. rows = Said(l, ~run.expired /\ run.snap.servers[Index(l)] \in Net.up)
    BY <1>3 DEF Outcomes, ProbeDNSUpstream, Families
  <2>2. run.steady => run.snap = doc
    BY <1>1, <1>3 DEF Fits, OfDoctor
  <2>3. \A row : row.id = "dns" => (Promised(row) <=> doc.servers[row.of] \in Net.up)
    BY DEF Promised, Families
  <2>4. QED
    BY <1>1, <1>3, <2>1, <2>2, <2>3, SaidFine
<1>4. CASE Kind(l) = "candidate"
  <2>1. rows = Said(l, ~run.expired /\ Candidates[Index(l)] \in Net.up)
    BY <1>4 DEF Outcomes, ProbeDNSUpstream, Families
  <2>2. \A row : row.id = "candidate" => (Promised(row) <=> Candidates[row.of] \in Net.up)
    BY DEF Promised, Families
  <2>3. QED
    BY <1>1, <1>4, <2>1, <2>2, SaidFine
<1>5. CASE Kind(l) = "port"
  <2>1. rows = Said(l, ~run.expired /\ Index(l) \in Net.ports)
    BY <1>5 DEF Outcomes, ProbeProtocols, Families
  <2>2. \A row : row.id = "port" => (Promised(row) <=> row.of \in Net.ports)
    BY DEF Promised, Families
  <2>3. QED
    BY <1>1, <1>5, <2>1, <2>2, SaidFine
<1>6. QED
  BY <1>2, <1>3, <1>4, <1>5 DEF Flags

(* The same for the other rows: green exactly when warranted.               *)
LEMMA RowFine ==
  ASSUME NEW l, NEW row, row.id \in IdsOf(Kind(l)), row.id \in RowIds,
         row = Row(row.id, Index(l), row.status, NoRemedy),
         row.status \in {"ok", "warn", "fail"},
         run.steady => /\ row.status = "ok" => Warranted(row, doc, Net, ~run.expired)
                       /\ ~run.expired /\ Warranted(row, doc, Net, ~run.expired) => row.status = "ok"
  PROVE  Fine(l, {row})
<1>1. Promised(row) <=> Warranted(row, doc, Net, ~run.expired)
  BY DEF Promised, RowIds, Families
<1>2. row \in RowsOf(l)
  BY DEF RowsOf, Row
<1>3. QED
  BY <1>1, <1>2 DEF Fine, Judged

LEMMA QualityOutcome ==
  ASSUME DoctorInv, ~Idle, NEW l \in DOMAIN at, Kind(l) = "quality", NEW rows \in Outcomes(l)
  PROVE  Fine(l, rows) /\ rows # {}
<1> DEFINE d == run.snap
           u == d.servers[1]
           path == QualityPath(d)
           row == ConnectionQualityCheck(ProbeConnectionQuality(path))
<1>1. /\ Fits(l) /\ run.expired \in BOOLEAN /\ (run.steady => (run.verb = "doctor" => d = doc))
      /\ net \in DOMAIN World
  BY RunParts DEF DoctorInv, LegsTyped, LegsSound, TypeOK
<1>2. Index(l) = 0 /\ run.verb = "doctor"
  BY <1>1 DEF Fits, OfDoctor
<1>3. Net.path \in Path
  BY <1>1, NetParts
<1>4. path = [Net.path EXCEPT ![1].ok = @ /\ ~run.expired /\ u \in Net.up
                                         /\ (u.type = "https" => u.addr \in Known)]
  BY DEF QualityPath, ProbeDNSUpstream
<1>5. /\ path \in Path
      /\ \A k \in 1..5 : path[k].ms = Net.path[k].ms
      /\ \A k \in 2..5 : path[k].ok = Net.path[k].ok
      /\ path[1].ok <=> /\ Net.path[1].ok /\ ~run.expired /\ u \in Net.up
                        /\ u.type = "https" => u.addr \in Known
  <2> DEFINE ok1 == /\ Net.path[1].ok /\ ~run.expired /\ u \in Net.up
                    /\ u.type = "https" => u.addr \in Known
  <2>1. path = [Net.path EXCEPT ![1] = [Net.path[1] EXCEPT !.ok = ok1]]
    BY <1>3, <1>4 DEF Path
  <2>2. Net.path[1] \in [ok : BOOLEAN, ms : Nat] /\ ok1 \in BOOLEAN
    BY <1>1, <1>3 DEF Path
  <2> HIDE DEF ok1, path
  <2>3. path[1] = [Net.path[1] EXCEPT !.ok = ok1] /\ \A k \in 2..5 : path[k] = Net.path[k]
    BY <1>3, <2>1 DEF Path
  <2>4. path[1].ok = ok1 /\ path[1].ms = Net.path[1].ms /\ path[1] \in [ok : BOOLEAN, ms : Nat]
    BY <2>2, <2>3
  <2>5. path \in Path
    BY <1>3, <2>1, <2>3, <2>4 DEF Path
  <2>6. \A k \in 1..5 : k = 1 \/ k \in 2..5
    OBVIOUS
  <2>7. \A k \in 1..5 : path[k].ms = Net.path[k].ms
    BY <2>3, <2>4, <2>6
  <2>8. path[1].ok <=> /\ Net.path[1].ok /\ ~run.expired /\ u \in Net.up
                       /\ u.type = "https" => u.addr \in Known
    BY <2>4 DEF ok1
  <2>9. QED
    BY <2>3, <2>5, <2>7, <2>8
<1> HIDE DEF path
<1>6. /\ row = Row("connection_quality", 0, row.status, NoRemedy)
      /\ row.status \in {"ok", "warn", "fail"}
      /\ row.status = "ok" <=> /\ \A k \in 1..5 : path[k].ok
                               /\ \A k \in 1..4 : path[k].ms <= SlowMs[k]
                               /\ path[5].ms >= ThroughputFloor
  BY <1>5, QualityExact
<1>7. rows = {row}
  BY DEF Outcomes, Families, path
<1> HIDE DEF row
<1>8. row.id = "connection_quality" /\ row.of = 0
  BY <1>6 DEF Row
<1>9. row.id \in IdsOf(Kind(l)) /\ row.id \in RowIds
  BY <1>8 DEF IdsOf, RowIds, Flags, Families
<1>10. (\A k \in 1..5 : path[k].ok) <=> path[1].ok /\ \A k \in 2..5 : path[k].ok
  OBVIOUS
<1>11. (\A k \in 1..5 : Net.path[k].ok) <=> Net.path[1].ok /\ \A k \in 2..5 : Net.path[k].ok
  OBVIOUS
<1>12. row.status = "ok" <=> /\ ~run.expired /\ u \in Net.up
                             /\ u.type = "https" => u.addr \in Known
                             /\ \A k \in 1..5 : Net.path[k].ok
                             /\ \A k \in 1..4 : Net.path[k].ms <= SlowMs[k]
                             /\ Net.path[5].ms >= ThroughputFloor
  BY <1>5, <1>6, <1>10, <1>11
<1>13. run.steady => (row.status = "ok" <=> ~run.expired /\ Warranted(row, doc, Net, ~run.expired))
  BY <1>1, <1>2, <1>8, <1>12, DoctorRowsWarranted
<1>14. Fine(l, {row})
  BY <1>2, <1>6, <1>8, <1>9, <1>13, RowFine
<1>15. QED
  BY <1>7, <1>14

LEMMA IntegrityOutcome ==
  ASSUME DoctorInv, ~Idle, NEW l \in DOMAIN at, Kind(l) = "dnsint", NEW rows \in Outcomes(l)
  PROVE  Fine(l, rows) /\ rows # {}
<1>1. Fits(l) /\ run.expired \in BOOLEAN /\ net \in DOMAIN World
  BY RunParts DEF DoctorInv, LegsTyped, TypeOK
<1>2. Index(l) = 0
  BY <1>1 DEF Fits
<1>3. PICK k \in 0..Questions :
        rows = {DnsIntegrityCheck(ProbeDNSIntegrity(Domains, Heard(k)))}
  BY DEF Outcomes, Families
<1> DEFINE a == Heard(k)
           row == DnsIntegrityCheck(ProbeDNSIntegrity(Domains, a))
<1>4. /\ row = Row("dns_integrity", 0, row.status, NoRemedy)
      /\ row.status \in {"ok", "warn"}
      /\ row.status = "ok" <=> a.truth["control"] # None /\ Untampered(a)
  <2> HIDE DEF a
  <2>1. QED
    BY Constants, IntegrityExact DEF Names, Honest, Untampered
<1>5. rows = {row}
  BY <1>3
<1> HIDE DEF row
<1>6. row.id = "dns_integrity" /\ row.of = 0
  BY <1>4 DEF Row
<1>7. row.id \in IdsOf(Kind(l)) /\ row.id \in RowIds
  BY <1>6 DEF IdsOf, RowIds, Flags, Families
<1>8. Warranted(row, doc, Net, ~run.expired) <=>
        /\ Net.answers.truth["control"] # None
        /\ ~run.expired => Untampered(Net.answers)
  BY <1>6, NetworkRowsWarranted
<1>9. /\ row.status = "ok" => Warranted(row, doc, Net, ~run.expired)
      /\ ~run.expired /\ Warranted(row, doc, Net, ~run.expired) => row.status = "ok"
  <2>1. CASE run.expired
    <3>1. Net.answers \in Answers
      BY <1>1, NetParts
    <3>2. "control" \in DOMAIN Net.answers.truth
      BY <3>1 DEF Answers
    <3>3. a.truth["control"] # None => Net.answers.truth["control"] # None
      BY <2>1, <3>2 DEF Heard
    <3>4. QED
      BY <1>4, <1>8, <2>1, <3>3
  <2>2. CASE ~run.expired
    <3>1. a = Net.answers
      BY <2>2 DEF Heard
    <3>2. QED
      BY <1>4, <1>8, <2>2, <3>1
  <2>3. QED
    BY <1>1, <2>1, <2>2
<1>10. Fine(l, {row})
  BY <1>2, <1>4, <1>6, <1>7, <1>9, RowFine
<1>11. QED
  BY <1>5, <1>10

(* An undisturbed round trip through a node's core tells of the node alone: *)
(* the sing-box core is told of the TUN there is.                           *)
LEMMA LatencyExact ==
  ASSUME NEW n \in NodeType, NEW h \in HostType, run.expired \in BOOLEAN,
         NEW c \in ProbeNodeLatency(n, h)
  PROVE  /\ c \in BOOLEAN
         /\ run.exempt = Net.tun =>
              (c <=> ~run.expired /\ SelectCore(n) # None /\ n.valid /\ h.tunnel)
<1> DEFINE core == SelectCore(n)
<1>1. core \in {None} \cup Cores /\ n.valid \in BOOLEAN /\ h.tunnel \in BOOLEAN
  BY Constants, CoreSelectionSound DEF NodeType, HostType, EligibleCores
<1> HIDE DEF core
<1>2. CASE run.expired \/ core = None
  BY <1>2, Constants DEF ProbeNodeLatency, core, Cores
<1>3. CASE ~run.expired /\ core = "xray"
  BY <1>1, <1>3, Constants DEF ProbeNodeLatency, ProbeLatency, ValidateNodeConfig, core, Cores
<1>4. CASE ~run.expired /\ core = "singbox"
  <2>1. c \in ProbeLatencySingBox(n, h)
    BY <1>4, Constants DEF ProbeNodeLatency, core, Cores
  <2>2. QED
    BY <1>1, <1>4, <2>1, Constants DEF ProbeLatencySingBox, ProbeLatency, ValidateNodeConfig, core, Cores
<1>5. QED
  BY <1>1, <1>2, <1>3, <1>4 DEF Cores

LEMMA OnNode ==
  ASSUME DoctorInv, ~Idle, NEW l \in DOMAIN at, Kind(l) \in OfNode
  PROVE  /\ Index(l) \in DOMAIN Nodes /\ Node(l) \in NodeType /\ Node(l) = Nodes[Index(l)]
         /\ Host(l) = Net.hosts[Index(l)] /\ Host(l) \in HostType
         /\ run.expired \in BOOLEAN /\ (run.steady => run.exempt = Net.tun)
<1>1. Fits(l) /\ net \in DOMAIN World
  BY DEF DoctorInv, LegsTyped, TypeOK
<1>2. Index(l) \in DOMAIN Nodes
  BY <1>1 DEF Fits
<1>3. Host(l) = Net.hosts[Index(l)]
  BY DEF Host, OfNode
<1>4. QED
  BY <1>1, <1>2, <1>3, NodeParts, NetParts, RunParts DEF Node, DoctorInv, LegsSound

LEMMA PingOutcome ==
  ASSUME DoctorInv, ~Idle, NEW l \in DOMAIN at, Kind(l) = "ping", NEW rows \in Outcomes(l)
  PROVE  Fine(l, rows) /\ rows # {}
<1> DEFINE good == Node(l).valid /\ SelectCore(Node(l)) # None /\ Host(l).tunnel
<1>1. /\ Node(l) \in NodeType /\ Node(l) = Nodes[Index(l)] /\ Host(l) = Net.hosts[Index(l)]
      /\ Host(l) \in HostType /\ run.expired \in BOOLEAN /\ (run.steady => run.exempt = Net.tun)
  BY OnNode DEF OfNode
<1>2. PICK c \in ProbeNodeLatency(Node(l), Host(l)) : rows = Said(l, c)
  BY DEF Outcomes, Families
<1>3. c \in BOOLEAN /\ (run.steady => (c <=> ~run.expired /\ good))
  BY <1>1, <1>2, LatencyExact
<1>4. good \in BOOLEAN
  BY <1>1 DEF NodeType, HostType
<1>5. \A row : row.id = "ping" /\ row.of = Index(l) => (Promised(row) <=> good)
  <2>1. \A row : row.id = "ping" => (Promised(row) <=> Warranted(row, doc, Net, ~run.expired))
    BY DEF Promised, Families
  <2>2. QED
    BY <1>1, <2>1, NodeRowsWarranted
<1>6. QED
  BY <1>2, <1>3, <1>4, <1>5, SaidFine

LEMMA HealthOutcome ==
  ASSUME DoctorInv, ~Idle, NEW l \in DOMAIN at, Kind(l) \in {"health", "diagnose", "node"},
         NEW rows \in Outcomes(l)
  PROVE  Fine(l, rows) /\ (Kind(l) = "diagnose" => rows # {})
<1> DEFINE n == Node(l)
           tcp == ServerNetwork(n) = "tcp" => ~run.expired /\ Host(l).tcp
<1>1. /\ n \in NodeType /\ n = Nodes[Index(l)] /\ Host(l) = Net.hosts[Index(l)]
      /\ Host(l) \in HostType /\ run.expired \in BOOLEAN /\ (run.steady => run.exempt = Net.tun)
  BY OnNode DEF OfNode
<1>2. Kind(l) = "diagnose" => ~n.group /\ SelectCore(n) # None
  BY DEF DoctorInv, LegsTyped, Fits
<1>3. rows \in IF n.group THEN {{}} ELSE {NodeHealth(l, c) : c \in ProbeNodeLatency(n, Host(l))}
  BY DEF Outcomes, Families
<1>4. Fine(l, {})
  BY DEF Fine
<1>5. CASE n.group
  BY <1>2, <1>3, <1>4, <1>5
<1>6. CASE ~n.group
  <2>1. PICK c \in ProbeNodeLatency(n, Host(l)) : rows = NodeHealth(l, c)
    BY <1>3, <1>6
  <2>2. /\ c \in BOOLEAN
        /\ run.steady => (c <=> ~run.expired /\ SelectCore(n) # None /\ n.valid /\ Host(l).tunnel)
    BY <1>1, <2>1, LatencyExact
  <2>3. CASE SelectCore(n) = None
    BY <1>2, <1>4, <2>1, <2>3 DEF NodeHealth
  <2>4. CASE SelectCore(n) # None
    <3> DEFINE row == NodeHealthCheck(Index(l), Health(l, c))
    <3>1. rows = {row}
      BY <2>1, <2>4 DEF NodeHealth
    <3>2. /\ row = Row("node_health", Index(l), row.status, NoRemedy)
          /\ row.status \in {"ok", "fail"}
          /\ row.id = "node_health" /\ row.of = Index(l)
      BY DEF NodeHealthCheck, Row
    <3>3. row.status = "ok" <=> n.valid /\ tcp /\ c
      <4>1. row.status = "ok" <=> Health(l, c).ok
        BY DEF NodeHealthCheck, Row
      <4>2. Health(l, c).ok <=> n.valid /\ tcp /\ c
        BY <1>1, <2>2 DEF Health, DiagnoseNode, ValidateNodeConfig, HostType, NodeType
      <4>3. QED
        BY <4>1, <4>2
    <3> HIDE DEF row
    <3>4. row.id \in IdsOf(Kind(l)) /\ row.id \in RowIds
      BY <3>2 DEF IdsOf, RowIds, Flags, Families
    <3>5. Warranted(row, doc, Net, ~run.expired) <=>
            /\ n.valid /\ Host(l).tunnel
            /\ ServerNetwork(n) = "tcp" => Host(l).tcp
      BY <1>1, <3>2, NodeRowsWarranted
    <3>6. run.steady => /\ row.status = "ok" => Warranted(row, doc, Net, ~run.expired)
                        /\ ~run.expired /\ Warranted(row, doc, Net, ~run.expired) => row.status = "ok"
      BY <2>2, <2>4, <3>3, <3>5
    <3>7. Fine(l, {row})
      BY <3>2, <3>4, <3>6, RowFine
    <3>8. QED
      BY <3>1, <3>7
  <2>5. QED
    BY <2>3, <2>4
<1>7. QED
  BY <1>1, <1>5, <1>6 DEF NodeType

(* Whatever an open leg measures.                                           *)
LEMMA OutcomeFine ==
  ASSUME DoctorInv, ~Idle, NEW l \in DOMAIN at, at[l] = "open", NEW rows \in Outcomes(l)
  PROVE  Fine(l, rows) /\ (Kind(l) \notin {"node", "health"} => rows # {})
<1>1. Kind(l) \in Kinds \ {"front", "provider"}
  BY DEF DoctorInv, LegsTyped, Fits, Staged
<1>2. \/ Kind(l) \in Flags \/ Kind(l) \in {"quality", "dnsint", "ping"}
      \/ Kind(l) \in {"health", "diagnose", "node"}
  BY <1>1 DEF Kinds, OfDoctor, Flags
<1>3. QED
  BY <1>2, FlagOutcome, QualityOutcome, IntegrityOutcome, PingOutcome, HealthOutcome

(* The decoy fetch is frozen exactly when the link stalls.                  *)
LEMMA FetchExact ==
  ASSUME NEW link \in LinkType
  PROVE  /\ FetchHTTP(link).tcp = TRUE /\ FetchHTTP(link).tls = TRUE
         /\ FetchHTTP(link).frozen \in BOOLEAN
         /\ FetchHTTP(link).frozen <=> Stalls(link)
<1>1. /\ link.request \in {"timeout", "error", "sent"} /\ link.line \in {"line", "timeout", "error"}
      /\ link.kb \in Nat
  BY DEF LinkType
<1>2. CASE link.request = "timeout"
  BY <1>2 DEF FetchHTTP, Fetched, Stalls
<1>3. CASE link.request = "error"
  BY <1>3 DEF FetchHTTP, Fetched, Stalls
<1>4. CASE link.request = "sent" /\ link.line # "line"
  BY <1>4 DEF FetchHTTP, Fetched, Stalls
<1>5. CASE link.request = "sent" /\ link.line = "line" /\ (link.kb >= DownloadTarget \/ link.end = "eof")
  <2>1. FetchHTTP(link) = Fetched(UploadPad + link.kb, FALSE, FALSE)
    BY <1>5 DEF FetchHTTP
  <2>2. ~Stalls(link)
    BY <1>1, <1>5 DEF Stalls, DownloadTarget
  <2>3. QED
    BY <2>1, <2>2 DEF Fetched
<1>6. CASE link.request = "sent" /\ link.line = "line" /\ ~(link.kb >= DownloadTarget \/ link.end = "eof")
  <2> DEFINE froze == link.end = "timeout" /\ UploadPad + link.kb >= FreezeFloor
  <2>1. FetchHTTP(link) = Fetched(UploadPad + link.kb, froze, ~froze)
    BY <1>6 DEF FetchHTTP
  <2>2. Stalls(link) <=> froze
    BY <1>1, <1>6 DEF Stalls, DownloadTarget, UploadPad, FreezeFloor
  <2> HIDE DEF froze
  <2>3. FetchHTTP(link).tcp = TRUE /\ FetchHTTP(link).tls = TRUE /\ FetchHTTP(link).frozen = froze
    BY <2>1 DEF Fetched
  <2>4. froze \in BOOLEAN
    BY DEF froze
  <2>5. QED
    BY <2>2, <2>3, <2>4
<1>7. QED
  BY <1>1, <1>2, <1>3, <1>4, <1>5, <1>6

(* A link carries what was asked for, stalls or breaks, and a stall is      *)
(* neither of the others.                                                   *)
LEMMA LinkEnds ==
  ASSUME NEW link \in LinkType
  PROVE  Stalls(link) <=> ~(Carries(link) \/ Breaks(link))
<1>1. /\ link.request \in {"timeout", "error", "sent"} /\ link.line \in {"line", "timeout", "error"}
      /\ link.kb \in Nat /\ link.end \in {"eof", "timeout", "error", "more"}
  BY DEF LinkType
<1>2. QED
  BY <1>1 DEF Stalls, Carries, Breaks, DownloadTarget

LEMMA OnHost ==
  ASSUME DoctorInv, ~Idle, NEW l \in DOMAIN at, Kind(l) \in Fronted
  PROVE  /\ Host(l) \in HostType /\ run.expired \in BOOLEAN
         /\ Kind(l) # "provider" => Host(l) = Net.hosts[Index(l)]
         /\ Kind(l) = "provider" => Host(l) = Net.providers[Index(l)]
<1>1. Fits(l) /\ net \in DOMAIN World /\ run.expired \in BOOLEAN
  BY RunParts DEF DoctorInv, LegsTyped, TypeOK
<1>2. CASE Kind(l) = "provider"
  <2>1. Index(l) \in 1..Providers
    BY <1>1, <1>2 DEF Fits
  <2>2. QED
    BY <1>1, <1>2, <2>1, NetParts DEF Host
<1>3. CASE Kind(l) # "provider"
  <2>1. Kind(l) \in OfNode
    BY <1>3 DEF Fronted, OfNode
  <2>2. QED
    BY <1>1, <1>3, <2>1, OnNode
<1>4. QED
  BY <1>2, <1>3

(* A front's row is green exactly when dial, handshake and transfer went    *)
(* well, and so a right one when the result is what the host does.          *)
LEMMA FrontFine ==
  ASSUME DoctorInv, ~Idle, NEW l \in DOMAIN at, Kind(l) \in Fronted, NEW r,
         r.tcp \in BOOLEAN, r.tls \in BOOLEAN, r.frozen \in BOOLEAN,
         run.steady => /\ r.tcp /\ r.tls /\ ~r.frozen => Fronts(Host(l))
                       /\ ~run.expired /\ Fronts(Host(l)) => r.tcp /\ r.tls /\ ~r.frozen
  PROVE  Fine(l, {FrontRow(l, r)})
<1> DEFINE row == FrontRow(l, r)
<1>1. /\ row = Row(row.id, Index(l), row.status, NoRemedy) /\ row.of = Index(l)
      /\ row.id = IF Kind(l) = "provider" THEN "provider" ELSE "camouflage"
      /\ row.status \in {"ok", "warn", "fail"}
      /\ row.status = "ok" <=> r.tcp /\ r.tls /\ ~r.frozen
  BY DEF FrontRow, ProviderCheck, CamouflageCheck, Row
<1> HIDE DEF row
<1>2. row.id \in IdsOf(Kind(l)) /\ row.id \in RowIds
  BY <1>1 DEF IdsOf, RowIds, Flags, Families, Fronted
<1>3. Warranted(row, doc, Net, ~run.expired) <=> Fronts(Host(l))
  <2>1. CASE Kind(l) = "provider"
    <3>1. row.id = "provider" /\ row.of = Index(l)
      BY <1>1, <2>1
    <3>2. Host(l) = Net.providers[Index(l)]
      BY <2>1, OnHost
    <3>3. Warranted(row, doc, Net, ~run.expired) <=> Fronts(Net.providers[row.of])
      BY <3>1 DEF Warranted
    <3>4. QED
      BY <3>1, <3>2, <3>3
  <2>2. CASE Kind(l) # "provider"
    BY <1>1, <2>2, OnHost, NodeRowsWarranted
  <2>3. QED
    BY <2>1, <2>2
<1>4. Fine(l, {row})
  BY <1>1, <1>2, <1>3, RowFine
<1>5. QED
  BY <1>4 DEF row

-----------------------------------------------------------------------------
(* A step of one leg.                                                       *)

LEMMA SameRun ==
  ASSUME run' = run, NEW l
  PROVE  Fits(l)' <=> Fits(l)
BY DEF Fits, Node

LEMMA LegMoves ==
  ASSUME DoctorInv, ~Idle, NEW l \in DOMAIN at, NEW s, NEW R,
         UNCHANGED <<doc, net, run, report, page, applied>>,
         at' = [at EXCEPT ![l] = s], got' = [got EXCEPT ![l] = R],
         s \in {"open", "front", "fetch", "done"},
         s = "open" => Kind(l) \notin {"front", "provider"} /\ R = {},
         s \in {"front", "fetch"} => Kind(l) \in Fronted,
         s = "fetch" /\ run.steady => Host(l).tcp /\ Host(l).tls,
         s = "done" /\ Kind(l) \notin {"node", "health"} => R # {},
         Fine(l, R)
  PROVE  DoctorInv'
<1>1. /\ TypeOK /\ Typed /\ LegsTyped /\ LegsSound
      /\ VerdictsExact /\ RemediesCure /\ PageSound /\ AppliedHelped
  BY DEF DoctorInv
<1>2. /\ DOMAIN at' = DOMAIN at /\ DOMAIN got = DOMAIN at /\ DOMAIN got' = DOMAIN at
      /\ at' = [m \in DOMAIN at |-> IF m = l THEN s ELSE at[m]]
      /\ got' = [m \in DOMAIN at |-> IF m = l THEN R ELSE got[m]]
  BY <1>1 DEF LegsTyped
<1>3. /\ at'[l] = s /\ got'[l] = R
      /\ \A m \in DOMAIN at : m # l => at'[m] = at[m] /\ got'[m] = got[m]
  BY <1>2
<1>4. \A m \in DOMAIN at : Fits(m) /\ Staged(m)
  BY <1>1 DEF LegsTyped
<1>5. ASSUME NEW m \in DOMAIN at PROVE Fits(m)' /\ Staged(m)'
  <2>1. Fits(m)'
    BY <1>4, SameRun
  <2>2. Staged(m)'
    <3>1. CASE m = l
      <4>1. at'[m] = s /\ got'[m] = R /\ R \subseteq RowsOf(m)
        BY <1>3, <3>1 DEF Fine
      <4>2. QED
        BY <3>1, <4>1 DEF Staged, RowsOf
    <3>2. CASE m # l
      BY <1>3, <1>4, <3>2 DEF Staged
    <3>3. QED
      BY <3>1, <3>2
  <2>3. QED
    BY <2>1, <2>2
<1>6. LegsTyped'
  <2>1. Needed' = Needed
    BY DEF Needed
  <2>2. Needed \subseteq DOMAIN at
    BY <1>1 DEF LegsTyped
  <2>3. /\ at' = [m \in DOMAIN at' |-> at'[m]] /\ got' = [m \in DOMAIN at' |-> got'[m]]
    BY <1>2
  <2>4. QED
    BY <1>2, <1>5, <2>1, <2>2, <2>3 DEF LegsTyped
<1>7. LegsSound'
  <2>1. \A m : Host(m)' = Host(m)
    BY DEF Host, Net
  <2>2. \A row : Judged(row, ~run.expired)' <=> Judged(row, ~run.expired)
    BY PromisedSame DEF Judged
  <2>3. ASSUME run.steady, NEW m \in DOMAIN at
        PROVE  /\ at'[m] = "fetch" => Host(m).tcp /\ Host(m).tls
               /\ \A row \in got'[m] : Judged(row, ~run.expired)
    <3>1. CASE m = l
      BY <1>3, <2>3, <3>1 DEF Fine
    <3>2. CASE m # l
      BY <1>1, <1>3, <2>3, <3>2 DEF LegsSound
    <3>3. QED
      BY <3>1, <3>2
  <2>4. run.steady => (run.verb = "doctor" => run.snap = doc) /\ run.exempt = Net.tun
    BY <1>1 DEF LegsSound
  <2>5. QED
    BY <1>2, <2>1, <2>2, <2>3, <2>4 DEF LegsSound, Net, Idle
<1>8. Typed'
  BY <1>1 DEF Typed, Idle
<1>9. TypeOK'
  <2>1. ASSUME NEW m \in DOMAIN at
        PROVE  /\ at'[m] \in {"queued", "open", "front", "fetch", "done"}
               /\ at'[m] = "fetch" => Kind(m) \in {"front", "node", "provider"}
               /\ at'[m] = "done" /\ Kind(m) \notin {"node", "health"} => got'[m] # {}
    BY <1>5 DEF Staged, Fronted
  <2>2. QED
    BY <1>1, <1>2, <2>1 DEF TypeOK, Idle
<1>10. QED
  BY <1>1, <1>6, <1>7, <1>8, <1>9, ReportKept, PageKept, AppliedKept DEF DoctorInv

LEMMA UnchangedGot ==
  ASSUME DoctorInv, ~Idle, NEW l \in DOMAIN at, got' = got
  PROVE  got' = [got EXCEPT ![l] = got[l]]
BY DEF DoctorInv, LegsTyped

(* What a leg holds so far is fine.                                         *)
LEMMA SoFarFine ==
  ASSUME DoctorInv, ~Idle, NEW l \in DOMAIN at
  PROVE  Fine(l, got[l]) /\ Staged(l) /\ Fits(l)
<1>1. Staged(l) /\ Fits(l)
  BY DEF DoctorInv, LegsTyped
<1>2. got[l] \subseteq RowsOf(l)
  BY <1>1 DEF Staged, RowsOf
<1>3. run.steady => \A row \in got[l] : Judged(row, ~run.expired)
  BY DEF DoctorInv, LegsSound
<1>4. QED
  BY <1>1, <1>2, <1>3 DEF Fine

LEMMA FineUnion ==
  ASSUME NEW l, NEW A, NEW B, Fine(l, A), Fine(l, B)
  PROVE  Fine(l, A \cup B)
BY DEF Fine

LEMMA AcquireInv ==
  ASSUME DoctorInv, ~Idle, NEW l \in DOMAIN at, Acquire(l),
         UNCHANGED <<doc, net, run, report, page, applied>>
  PROVE  DoctorInv'
<1> DEFINE s == IF Kind(l) = "provider" THEN "front" ELSE "open"
<1>1. at[l] = "queued" /\ at' = [at EXCEPT ![l] = s] /\ got' = [got EXCEPT ![l] = got[l]]
  BY UnchangedGot DEF Acquire
<1>2. Kind(l) \in {"node", "ping", "provider"} /\ got[l] = {} /\ Fine(l, got[l])
  BY <1>1, SoFarFine DEF Staged
<1>3. QED
  BY <1>1, <1>2, LegMoves DEF Fronted

LEMMA MeasureInv ==
  ASSUME DoctorInv, ~Idle, NEW l \in DOMAIN at, Measure(l),
         UNCHANGED <<doc, net, run, report, page, applied>>
  PROVE  DoctorInv'
<1> DEFINE s == IF Kind(l) = "node" /\ HasCamouflage(Node(l)) THEN "front" ELSE "done"
<1>1. at[l] = "open" /\ at' = [at EXCEPT ![l] = s]
  BY DEF Measure
<1>2. PICK rows \in Outcomes(l) : got' = [got EXCEPT ![l] = rows]
  BY DEF Measure
<1>3. Fine(l, rows) /\ (Kind(l) \notin {"node", "health"} => rows # {})
  BY <1>1, OutcomeFine
<1>4. s \in {"front", "done"} /\ (s = "front" => Kind(l) \in Fronted)
  BY DEF Fronted
<1> HIDE DEF s
<1>5. QED
  BY <1>1, <1>2, <1>3, <1>4, LegMoves

LEMMA EndsInv ==
  ASSUME DoctorInv, ~Idle, NEW l \in DOMAIN at, NEW row, Ends(l, row), Fine(l, {row}),
         UNCHANGED <<doc, net, run, report, page, applied>>
  PROVE  DoctorInv'
<1>1. at' = [at EXCEPT ![l] = "done"] /\ got' = [got EXCEPT ![l] = got[l] \cup {row}]
  BY DEF Ends
<1>2. Fine(l, got[l] \cup {row}) /\ got[l] \cup {row} # {}
  BY SoFarFine, FineUnion
<1>3. QED
  BY <1>1, <1>2, LegMoves

LEMMA HandshakeInv ==
  ASSUME DoctorInv, ~Idle, NEW l \in DOMAIN at, Handshake(l),
         UNCHANGED <<doc, net, run, report, page, applied>>
  PROVE  DoctorInv'
<1>1. at[l] = "front" /\ Kind(l) \in Fronted /\ Fine(l, got[l])
  BY SoFarFine DEF Handshake, Staged
<1>2. Host(l) \in HostType /\ run.expired \in BOOLEAN
  BY <1>1, OnHost
<1>3. Host(l).tcp \in BOOLEAN /\ Host(l).tls \in BOOLEAN
  BY <1>2, HostParts
<1>4. CASE ~run.expired /\ Host(l).tcp /\ Host(l).tls
  <2>1. at' = [at EXCEPT ![l] = "fetch"] /\ got' = [got EXCEPT ![l] = got[l]]
    BY <1>4, UnchangedGot DEF Handshake
  <2>2. QED
    BY <1>1, <1>4, <2>1, LegMoves
<1>5. CASE ~(~run.expired /\ Host(l).tcp /\ Host(l).tls)
  <2> DEFINE r == Refused(~run.expired /\ Host(l).tcp)
  <2>1. Ends(l, FrontRow(l, r))
    BY <1>5 DEF Handshake
  <2>2. r.tcp \in BOOLEAN /\ r.tls = FALSE /\ r.frozen = FALSE
    BY <1>2, <1>3 DEF Refused
  <2> HIDE DEF r
  <2>3. ~run.expired => ~Fronts(Host(l))
    BY <1>5 DEF Fronts
  <2>4. Fine(l, {FrontRow(l, r)})
    <3>1. r.tls \in BOOLEAN /\ r.frozen \in BOOLEAN /\ ~(r.tcp /\ r.tls /\ ~r.frozen)
      BY <2>2
    <3>2. QED
      BY <1>1, <2>2, <2>3, <3>1, FrontFine
  <2>5. QED
    BY <2>1, <2>4, EndsInv
<1>6. QED
  BY <1>4, <1>5

LEMMA DialVerifyFetchInv ==
  ASSUME DoctorInv, ~Idle, NEW l \in DOMAIN at, DialVerifyFetch(l),
         UNCHANGED <<doc, net, run, report, page, applied>>
  PROVE  DoctorInv'
<1> DEFINE r == FetchHTTP(Host(l).link)
<1>1. at[l] = "fetch" /\ Kind(l) \in Fronted /\ Ends(l, FrontRow(l, r))
  BY SoFarFine DEF DialVerifyFetch, Staged
<1>2. Host(l) \in HostType
  BY <1>1, OnHost
<1>3. /\ r.tcp = TRUE /\ r.tls = TRUE /\ r.frozen \in BOOLEAN
      /\ r.frozen <=> Stalls(Host(l).link)
  BY <1>2, HostParts, FetchExact
<1> HIDE DEF r
<1>4. run.steady => Host(l).tcp /\ Host(l).tls
  BY <1>1 DEF DoctorInv, LegsSound
<1>5. run.steady => (Fronts(Host(l)) <=> r.tcp /\ r.tls /\ ~r.frozen)
  <2>1. Host(l).link \in LinkType
    BY <1>2, HostParts
  <2>2. QED
    BY <1>3, <1>4, <2>1, LinkEnds DEF Fronts
<1>6. Fine(l, {FrontRow(l, r)})
  <2>1. r.tcp \in BOOLEAN /\ r.tls \in BOOLEAN /\ r.frozen \in BOOLEAN
    BY <1>3
  <2>2. QED
    BY <1>1, <1>5, <2>1, FrontFine
<1>7. QED
  BY <1>1, <1>6, EndsInv

-----------------------------------------------------------------------------
(* The other steps of a verb, the join excepted.                            *)

LEMMA ResolverCheckInv ==
  ASSUME DoctorInv, ~Idle, ResolverCheck, UNCHANGED <<doc, net, run, report, page, applied>>
  PROVE  DoctorInv'
<1> DEFINE D == DOMAIN at \cup Untried
<1>1. /\ TypeOK /\ Typed /\ LegsTyped /\ LegsSound
      /\ VerdictsExact /\ RemediesCure /\ PageSound /\ AppliedHelped
  BY DEF DoctorInv
<1>2. /\ at' = [m \in D |-> IF m \in Untried THEN "open" ELSE at[m]]
      /\ got' = [m \in D |-> IF m \in Untried THEN {} ELSE got[m]]
  BY DEF ResolverCheck
<1>3. \A m \in Untried : /\ m \notin DOMAIN at /\ run.verb = "doctor"
                         /\ \E i \in DOMAIN Candidates : m = <<"candidate", i>>
  BY DEF Untried
<1> HIDE DEF D
<1>4. /\ DOMAIN at' = D /\ DOMAIN got' = D
      /\ \A m \in D : /\ m \in Untried => at'[m] = "open" /\ got'[m] = {}
                     /\ m \notin Untried => m \in DOMAIN at /\ at'[m] = at[m] /\ got'[m] = got[m]
  BY <1>2 DEF D
<1>5. ASSUME NEW m \in D PROVE Fits(m)' /\ Staged(m)'
  <2>1. CASE m \in Untried
    <3>1. PICK i \in DOMAIN Candidates : m = <<"candidate", i>> /\ run.verb = "doctor"
      BY <1>3, <2>1
    <3>2. Kind(m) = "candidate" /\ Index(m) = i
      BY <3>1 DEF Kind, Index
    <3>3. Fits(m)
      <4>1. m = <<Kind(m), Index(m)>>
        BY <3>1, <3>2
      <4>2. /\ Kind(m) \in Kinds /\ Kind(m) \notin OfNode
            /\ Kind(m) \notin Families \cup {"quality", "dnsint", "dns", "diagnose", "provider", "port"}
        BY <3>2 DEF Kinds, OfDoctor, OfNode, Families
      <4>3. QED
        BY <3>1, <3>2, <4>1, <4>2 DEF Fits
    <3>4. Staged(m)'
      <4>1. at'[m] = "open" /\ got'[m] = {}
        BY <1>2, <2>1
      <4>2. QED
        BY <3>2, <4>1 DEF Staged
    <3>5. QED
      BY <3>3, <3>4, SameRun
  <2>2. CASE m \notin Untried
    <3>1. m \in DOMAIN at /\ Fits(m) /\ Staged(m) /\ at'[m] = at[m] /\ got'[m] = got[m]
      BY <1>1, <1>4, <2>2 DEF LegsTyped
    <3>2. Staged(m)'
      BY <3>1 DEF Staged
    <3>3. QED
      BY <3>1, <3>2, SameRun
  <2>3. QED
    BY <2>1, <2>2
<1>6. LegsTyped'
  <2>1. Needed' = Needed /\ Needed \subseteq D
    BY <1>1 DEF Needed, LegsTyped, D
  <2>2. at' = [m \in DOMAIN at' |-> at'[m]] /\ got' = [m \in DOMAIN at' |-> got'[m]]
    BY <1>2, <1>4
  <2>3. QED
    BY <1>4, <1>5, <2>1, <2>2 DEF LegsTyped
<1>7. LegsSound'
  <2>1. \A m : Host(m)' = Host(m)
    BY DEF Host, Net
  <2>2. \A row : Judged(row, ~run.expired)' <=> Judged(row, ~run.expired)
    BY PromisedSame DEF Judged
  <2>3. ASSUME run.steady, NEW m \in D
        PROVE  /\ at'[m] = "fetch" => Host(m).tcp /\ Host(m).tls
               /\ \A row \in got'[m] : Judged(row, ~run.expired)
    <3>1. CASE m \in Untried
      <4>1. at'[m] = "open" /\ got'[m] = {}
        BY <1>2, <3>1
      <4>2. QED
        BY <4>1
    <3>2. CASE m \notin Untried
      <4>1. m \in DOMAIN at /\ at'[m] = at[m] /\ got'[m] = got[m]
        BY <1>4, <3>2
      <4>2. /\ at[m] = "fetch" => Host(m).tcp /\ Host(m).tls
            /\ \A row \in got[m] : Judged(row, ~run.expired)
        BY <1>1, <2>3, <4>1 DEF LegsSound
      <4>3. QED
        BY <4>1, <4>2
    <3>3. QED
      BY <3>1, <3>2
  <2>4. run.steady => (run.verb = "doctor" => run.snap = doc) /\ run.exempt = Net.tun
    BY <1>1 DEF LegsSound
  <2>5. QED
    BY <1>4, <2>1, <2>2, <2>3, <2>4 DEF LegsSound, Net, Idle
<1>8. Typed'
  BY <1>1 DEF Typed, Idle
<1>9. TypeOK'
  <2>1. ASSUME NEW m \in D
        PROVE  /\ at'[m] \in {"queued", "open", "front", "fetch", "done"}
               /\ at'[m] = "fetch" => Kind(m) \in {"front", "node", "provider"}
               /\ at'[m] = "done" /\ Kind(m) \notin {"node", "health"} => got'[m] # {}
    BY <1>5 DEF Staged, Fronted
  <2>2. QED
    BY <1>1, <1>4, <2>1 DEF TypeOK, Idle
<1>10. QED
  BY <1>1, <1>6, <1>7, <1>8, <1>9, ReportKept, PageKept, AppliedKept DEF DoctorInv

(* The legs a verb opens with.                                              *)
LEMMA LegsOf ==
  ASSUME NEW v \in Verbs, NEW S \in Asked(v), NEW l \in Legs(v, doc, S)
  PROVE  /\ l = <<Kind(l), Index(l)>> /\ Kind(l) \in Kinds \ {"candidate"}
         /\ Kind(l) \in OfDoctor => v = "doctor"
         /\ Kind(l) \in Families \cup {"quality", "dnsint"} => Index(l) = 0
         /\ Kind(l) = "dns" => Index(l) \in DOMAIN doc.servers
         /\ Kind(l) \in OfNode => Index(l) \in DOMAIN Nodes
         /\ Kind(l) = "diagnose" => ~Node(l).group /\ SelectCore(Node(l)) # None
         /\ Kind(l) = "provider" => Index(l) \in 1..Providers
         /\ Kind(l) = "port" => Index(l) \in 1..Ports
<1>1. CASE v = "doctor"
  <2>1. \/ l \in {<<"v4", 0>>, <<"v6", 0>>, <<"quality", 0>>}
        \/ \E i \in DOMAIN doc.servers : l = <<"dns", i>>
        \/ \E i \in DOMAIN Nodes : l = <<"health", i>> \/ l = <<"front", i>>
    BY <1>1 DEF Legs, Plain
  <2>2. QED
    BY <1>1, <2>1 DEF Kind, Index, Kinds, OfDoctor, OfNode, Families
<1>2. CASE v = "doctor_nodes"
  <2>1. \E i \in DOMAIN Nodes : l = <<"node", i>>
    BY <1>2 DEF Legs
  <2>2. QED
    BY <2>1 DEF Kind, Index, Kinds, OfDoctor, OfNode, Families
<1>3. CASE v = "test_latency"
  <2>1. \E i \in DOMAIN Nodes : l = <<"ping", i>>
    BY <1>3 DEF Legs, Asked, Plain
  <2>2. QED
    BY <2>1 DEF Kind, Index, Kinds, OfDoctor, OfNode, Families
<1>4. CASE v = "diagnose"
  <2>1. \E i \in Plain : l = <<"diagnose", i>> /\ SelectCore(Nodes[i]) # None
    BY <1>4 DEF Legs, Asked
  <2>2. QED
    BY <2>1 DEF Kind, Index, Kinds, OfDoctor, OfNode, Families, Plain, Node
<1>5. CASE v = "network_report"
  <2>1. \/ l = <<"dnsint", 0>> \/ \E i \in 1..Providers : l = <<"provider", i>>
        \/ \E i \in 1..Ports : l = <<"port", i>>
    BY <1>5 DEF Legs
  <2>2. QED
    BY <2>1 DEF Kind, Index, Kinds, OfDoctor, OfNode, Families
<1>6. QED
  BY <1>1, <1>2, <1>3, <1>4, <1>5, Constants

LEMMA InitInv ==
  ASSUME Init
  PROVE  DoctorInv
<1>1. doc \in DocType /\ ValidateSettings(doc) /\ net \in DOMAIN World
  BY Constants DEF Init
<1>2. Idle /\ page = None /\ report = NoReport /\ applied = {}
  BY DEF Init, Idle
<1>3. report.rows = {} /\ report.match = "moved"
      /\ report = [verb |-> report.verb, rows |-> report.rows, match |-> report.match]
  BY <1>2 DEF NoReport
<1>4. TypeOK /\ Typed
  BY <1>1, <1>2, <1>3 DEF TypeOK, Typed, Matches
<1>5. LegsTyped /\ LegsSound
  BY <1>2 DEF LegsTyped, LegsSound
<1>6. VerdictsExact /\ RemediesCure
  BY <1>3 DEF VerdictsExact, RemediesCure
<1>7. PageSound /\ AppliedHelped
  BY <1>2 DEF PageSound, AppliedHelped
<1>8. QED
  BY <1>4, <1>5, <1>6, <1>7 DEF DoctorInv

LEMMA BeginInv ==
  ASSUME DoctorInv, NEW v \in Verbs, Begin(v)
  PROVE  DoctorInv'
<1>1. PICK S \in Asked(v) : /\ at' = [l \in Legs(v, doc, S) |-> Entry(l)]
                            /\ got' = [l \in Legs(v, doc, S) |-> {}]
  BY DEF Begin
<1> DEFINE L == Legs(v, doc, S)
<1>2. /\ run' = [verb |-> v, snap |-> IF v = "doctor" THEN doc ELSE None,
                 exempt |-> Net.tun, expired |-> FALSE, steady |-> TRUE]
      /\ report' = NoReport /\ doc' = doc /\ net' = net /\ page' = page /\ applied' = applied
  BY DEF Begin
<1>3. /\ run'.verb = v /\ (v = "doctor" => run'.snap = doc) /\ run'.exempt = Net.tun
      /\ run'.snap = IF v = "doctor" THEN doc ELSE None
  BY <1>2
<1>4. doc \in DocType /\ ValidateSettings(doc) /\ net \in DOMAIN World /\ Net.tun \in BOOLEAN
  BY NetParts DEF DoctorInv, TypeOK, Typed
<1> HIDE DEF L
<1>5. /\ DOMAIN at' = L /\ DOMAIN got' = L
      /\ \A l \in L : at'[l] = Entry(l) /\ got'[l] = {}
  BY <1>1 DEF L
<1>6. ASSUME NEW l \in L PROVE Fits(l)' /\ Staged(l)' /\ at'[l] \notin {"fetch", "done"}
  <2>1. Kind(l) \in Kinds \ {"candidate"}
    BY LegsOf DEF L
  <2>2. Fits(l)'
    <3>1. /\ l = <<Kind(l), Index(l)>>
          /\ Kind(l) \in OfDoctor => v = "doctor"
          /\ Kind(l) \in Families \cup {"quality", "dnsint"} => Index(l) = 0
          /\ Kind(l) = "dns" => Index(l) \in DOMAIN doc.servers
          /\ Kind(l) \in OfNode => Index(l) \in DOMAIN Nodes
          /\ Kind(l) = "diagnose" => ~Node(l).group /\ SelectCore(Node(l)) # None
          /\ Kind(l) = "provider" => Index(l) \in 1..Providers
          /\ Kind(l) = "port" => Index(l) \in 1..Ports
      BY LegsOf DEF L
    <3>2. Kind(l) = "dns" => run'.snap = doc
      BY <1>3, <3>1 DEF OfDoctor
    <3>3. Kind(l) # "candidate" /\ Kind(l) \in Kinds
      BY <2>1
    <3>4. QED
      BY <1>3, <3>1, <3>2, <3>3, Zenon DEF Fits, Node
  <2>3. /\ Entry(l) \in {"queued", "open", "front"}
        /\ Entry(l) = "queued" => Kind(l) \in {"node", "ping", "provider"}
        /\ Entry(l) = "open" => Kind(l) \notin {"front", "provider"}
        /\ Entry(l) = "front" => Kind(l) = "front"
    BY DEF Entry
  <2>4. at'[l] = Entry(l) /\ got'[l] = {}
    BY <1>5
  <2>5. Staged(l)'
    BY <2>3, <2>4 DEF Staged, Fronted
  <2>6. QED
    BY <2>2, <2>3, <2>4, <2>5
<1>7. LegsTyped'
  <2>1. Needed' \subseteq L
    <3>1. CASE v = "doctor"
      BY <1>3, <3>1 DEF Needed, L, Legs, Families
    <3>2. CASE v = "network_report"
      BY <1>3, <3>2 DEF Needed, L, Legs
    <3>3. CASE v \notin {"doctor", "network_report"}
      BY <1>3, <3>3 DEF Needed
    <3>4. QED
      BY <3>1, <3>2, <3>3
  <2>2. at' = [l \in DOMAIN at' |-> at'[l]] /\ got' = [l \in DOMAIN at' |-> got'[l]]
    BY <1>1, <1>5 DEF L
  <2>3. QED
    BY <1>5, <1>6, <2>1, <2>2 DEF LegsTyped
<1>8. LegsSound'
  <2>1. Net' = Net
    BY <1>2 DEF Net
  <2>2. \A l \in L : at'[l] # "fetch" /\ got'[l] = {}
    BY <1>5, <1>6
  <2>3. QED
    BY <1>2, <1>3, <1>5, <2>1, <2>2 DEF LegsSound
<1>9. Typed'
  <2>1. run' \in [verb : Verbs, snap : {None} \cup DocType, exempt : BOOLEAN,
                  expired : BOOLEAN, steady : BOOLEAN]
    BY <1>2, <1>4
  <2>2. report' = [verb |-> report'.verb, rows |-> report'.rows, match |-> report'.match]
    BY <1>2 DEF NoReport
  <2>3. QED
    BY <1>2, <1>3, <1>4, <2>1, <2>2 DEF Typed, DoctorInv
<1>10. report'.rows = {} /\ report'.match = "moved"
  BY <1>2 DEF NoReport
<1>11. TypeOK'
  <2>1. \A l \in L : /\ at'[l] \in {"queued", "open", "front", "fetch", "done"}
                     /\ at'[l] \notin {"fetch", "done"}
    BY <1>6 DEF Staged
  <2>2. QED
    BY <1>2, <1>3, <1>4, <1>5, <1>10, <2>1 DEF TypeOK, DoctorInv, Matches
<1>12. VerdictsExact' /\ RemediesCure'
  BY <1>10 DEF VerdictsExact, RemediesCure
<1>13. PageSound' /\ AppliedHelped'
  BY <1>2, PageKept, AppliedKept DEF DoctorInv
<1>14. QED
  BY <1>7, <1>8, <1>9, <1>11, <1>12, <1>13 DEF DoctorInv

LEMMA ForwardingReportInv ==
  ASSUME DoctorInv, ForwardingReport
  PROVE  DoctorInv'
<1>1. /\ Idle /\ Idle'
      /\ report' = [verb |-> "forwarding_check", rows |-> ForwardingCheck(Forwarding), match |-> "exact"]
      /\ doc' = doc /\ net' = net /\ page' = page /\ applied' = applied
  BY DEF ForwardingReport, Idle, inFlight
<1>2. report'.rows = ForwardingCheck(Forwarding) /\ report'.match = "exact"
  BY <1>1
<1>3. ASSUME NEW row \in report'.rows
      PROVE  row.remedy = NoRemedy /\ (row.status = "ok" <=> Healthy(row)')
  <2>1. /\ row.id = "forwarded_traffic" /\ row.remedy = NoRemedy
        /\ row.status = "ok" <=> ~(Forwarding.ufw /\ Forwarding.deny /\ Forwarding.bridges # {})
    BY <1>2 DEF ForwardingCheck, Row
  <2>2. Healthy(row)' <=> ~(Forwarding.ufw /\ Forwarding.deny /\ Forwarding.bridges # {})
    BY <2>1 DEF Healthy, Warranted
  <2>3. QED
    BY <2>1, <2>2
<1>4. VerdictsExact'
  BY <1>3 DEF VerdictsExact
<1>5. RemediesCure'
  BY <1>3 DEF RemediesCure, Remedies
<1>6. TypeOK' /\ Typed'
  <2>1. report' = [verb |-> report'.verb, rows |-> report'.rows, match |-> report'.match]
    BY <1>1
  <2>2. QED
    BY <1>1, <1>2, <2>1 DEF TypeOK, Typed, Matches, DoctorInv
<1>7. LegsTyped' /\ LegsSound'
  BY <1>1 DEF LegsTyped, LegsSound
<1>8. PageSound' /\ AppliedHelped'
  BY <1>1, PageKept, AppliedKept DEF DoctorInv
<1>9. QED
  BY <1>4, <1>5, <1>6, <1>7, <1>8 DEF DoctorInv

(* Legs that stand still while their verb stays the same.                   *)
LEMMA LegsKept ==
  ASSUME LegsTyped, ~Idle, at' = at, got' = got, run'.verb = run.verb, run'.snap = run.snap
  PROVE  /\ LegsTyped'
         /\ \A m \in DOMAIN at :
              /\ at'[m] \in {"queued", "open", "front", "fetch", "done"}
              /\ at'[m] = "fetch" => Kind(m) \in {"front", "node", "provider"}
              /\ at'[m] = "done" /\ Kind(m) \notin {"node", "health"} => got'[m] # {}
         /\ DOMAIN got' = DOMAIN at'
<1>1. \A m \in DOMAIN at : Fits(m) /\ Staged(m)
  BY DEF LegsTyped
<1>2. \A m : Fits(m)' <=> Fits(m)
  BY DEF Fits, Node
<1>3. \A m : Staged(m)' <=> Staged(m)
  BY DEF Staged
<1>4. Needed' = Needed /\ Needed \subseteq DOMAIN at
  BY DEF Needed, LegsTyped
<1>5. at = [l \in DOMAIN at |-> at[l]] /\ got = [l \in DOMAIN at |-> got[l]]
  BY DEF LegsTyped
<1>6. LegsTyped'
  BY <1>1, <1>2, <1>3, <1>4, <1>5 DEF LegsTyped
<1>7. ASSUME NEW m \in DOMAIN at
      PROVE  /\ at'[m] \in {"queued", "open", "front", "fetch", "done"}
             /\ at'[m] = "fetch" => Kind(m) \in {"front", "node", "provider"}
             /\ at'[m] = "done" /\ Kind(m) \notin {"node", "health"} => got'[m] # {}
  BY <1>1 DEF Staged, Fronted
<1>8. DOMAIN got' = DOMAIN at'
  BY <1>5
<1>9. QED
  BY <1>6, <1>7, <1>8

LEMMA ExpireInv ==
  ASSUME DoctorInv, Expire
  PROVE  DoctorInv'
<1>1. /\ TypeOK /\ Typed /\ LegsTyped /\ LegsSound
      /\ VerdictsExact /\ RemediesCure /\ PageSound /\ AppliedHelped
  BY DEF DoctorInv
<1>2. /\ ~Idle /\ run' = [run EXCEPT !.expired = TRUE]
      /\ doc' = doc /\ net' = net /\ at' = at /\ got' = got
      /\ report' = report /\ page' = page /\ applied' = applied
  BY DEF Expire
<1>3. run \in [verb : Verbs, snap : {None} \cup DocType, exempt : BOOLEAN,
              expired : BOOLEAN, steady : BOOLEAN]
  BY <1>1, <1>2 DEF Typed
<1>4. /\ run' \in [verb : Verbs, snap : {None} \cup DocType, exempt : BOOLEAN,
                   expired : BOOLEAN, steady : BOOLEAN]
      /\ run'.verb = run.verb /\ run'.snap = run.snap /\ run'.exempt = run.exempt
      /\ run'.steady = run.steady /\ run'.expired = TRUE
  BY <1>2, <1>3
<1>5. Typed'
  BY <1>1, <1>2, <1>4 DEF Typed
<1>6. LegsTyped' /\ TypeOK'
  <2>1. run'.verb \in Verbs
    BY <1>4
  <2>2. QED
    BY <1>1, <1>2, <1>4, <2>1, LegsKept DEF TypeOK
<1>7. LegsSound'
  <2>1. \A m : Host(m)' = Host(m)
    BY <1>2 DEF Host, Net
  <2>2. ASSUME run.steady, NEW m \in DOMAIN at, NEW row \in got[m]
        PROVE  Judged(row, ~run.expired)'
    <3>1. Judged(row, ~run.expired)
      BY <1>1, <1>2, <2>2 DEF LegsSound
    <3>2. row.id \in RowIds \cup Flags
      <4>1. Staged(m) /\ Kind(m) \in Kinds
        BY <1>1, <1>2 DEF LegsTyped, Fits
      <4>2. row.id \in IdsOf(Kind(m))
        BY <4>1 DEF Staged
      <4>3. QED
        BY <4>1, <4>2 DEF IdsOf, RowIds, Flags, Families, Kinds, OfDoctor
    <3>3. row.status = "ok" => Promised(row)'
      BY <1>2, <1>4, <3>1, <3>2, PromisedLate DEF Judged, Expire
    <3>4. QED
      BY <1>4, <3>3 DEF Judged
  <2>3. QED
    BY <1>1, <1>2, <1>4, <2>1, <2>2 DEF LegsSound, Net
<1>8. QED
  BY <1>1, <1>2, <1>5, <1>6, <1>7, ReportKept, PageKept, AppliedKept DEF DoctorInv

(* Whatever moves the document or the network under a verb and a report.    *)
LEMMA MovesInv ==
  ASSUME DoctorInv, Moves,
         doc' \in DocType, ValidateSettings(doc'), net' \in DOMAIN World,
         page' # None => /\ page' = [doc |-> page'.doc, remedy |-> page'.remedy, quiet |-> page'.quiet]
                         /\ page'.doc \in DocType /\ page'.quiet \in BOOLEAN
                         /\ page'.remedy.lever \in {"strategy", "servers", "via"},
         PageSound', AppliedHelped'
  PROVE  DoctorInv'
<1>1. TypeOK /\ Typed /\ LegsTyped
  BY DEF DoctorInv
<1>2. /\ at' = at /\ got' = got /\ report' = [report EXCEPT !.match = "moved", !.rows = {}]
      /\ run' = IF Idle THEN None ELSE [run EXCEPT !.steady = FALSE]
  BY DEF Moves
<1>3. report'.rows = {} /\ report'.match = "moved"
      /\ report' = [verb |-> report'.verb, rows |-> report'.rows, match |-> report'.match]
  <2>1. report = [verb |-> report.verb, rows |-> report.rows, match |-> report.match]
    BY <1>1 DEF Typed
  <2>2. report' = [verb |-> report.verb, rows |-> {}, match |-> "moved"]
    BY <1>2, <2>1
  <2>3. QED
    BY <2>2
<1>4. VerdictsExact' /\ RemediesCure'
  BY <1>3 DEF VerdictsExact, RemediesCure
<1>5. CASE Idle
  <2>1. Idle'
    BY <1>2, <1>5 DEF Idle
  <2>2. TypeOK' /\ Typed'
    BY <1>3, <2>1 DEF TypeOK, Typed, Matches
  <2>3. LegsTyped' /\ LegsSound'
    BY <2>1 DEF LegsTyped, LegsSound
  <2>4. QED
    BY <1>4, <2>2, <2>3 DEF DoctorInv
<1>6. CASE ~Idle
  <2>1. run \in [verb : Verbs, snap : {None} \cup DocType, exempt : BOOLEAN,
                expired : BOOLEAN, steady : BOOLEAN]
    BY <1>1, <1>6 DEF Typed
  <2>2. /\ run' \in [verb : Verbs, snap : {None} \cup DocType, exempt : BOOLEAN,
                     expired : BOOLEAN, steady : BOOLEAN]
        /\ run'.verb = run.verb /\ run'.snap = run.snap /\ run'.steady = FALSE
    BY <1>2, <1>6, <2>1
  <2>3. run.verb = "doctor" => run.snap \in DocType /\ ValidateSettings(run.snap)
    BY <1>1, <1>6 DEF Typed
  <2>4. Typed'
    BY <1>3, <2>2, <2>3 DEF Typed
  <2>5. /\ LegsTyped' /\ DOMAIN got' = DOMAIN at' /\ run'.verb \in Verbs
        /\ \A m \in DOMAIN at' :
             /\ at'[m] \in {"queued", "open", "front", "fetch", "done"}
             /\ at'[m] = "fetch" => Kind(m) \in {"front", "node", "provider"}
             /\ at'[m] = "done" /\ Kind(m) \notin {"node", "health"} => got'[m] # {}
    BY <1>1, <1>2, <1>6, <2>2, LegsKept
  <2>6. TypeOK'
    BY <1>3, <2>5 DEF TypeOK, Matches
  <2>7. LegsSound'
    BY <2>2 DEF LegsSound
  <2>8. QED
    BY <1>4, <2>4, <2>5, <2>6, <2>7 DEF DoctorInv
<1>7. QED
  BY <1>5, <1>6

LEMMA PageParts ==
  ASSUME DoctorInv, page # None
  PROVE  /\ page = [doc |-> page.doc, remedy |-> page.remedy, quiet |-> page.quiet]
         /\ page.doc \in DocType /\ page.quiet \in BOOLEAN
         /\ page.remedy.lever \in {"strategy", "servers", "via"}
BY DEF DoctorInv, Typed, TypeOK

(* An apply that something else came in between of.                         *)
LEMMA PageDisturbed ==
  ASSUME DoctorInv, page' = IF page = None THEN None ELSE [page EXCEPT !.quiet = FALSE]
  PROVE  /\ page' # None =>
              /\ page' = [doc |-> page'.doc, remedy |-> page'.remedy, quiet |-> page'.quiet]
              /\ page'.doc \in DocType /\ page'.quiet \in BOOLEAN
              /\ page'.remedy.lever \in {"strategy", "servers", "via"}
         /\ PageSound'
<1>1. CASE page = None
  BY <1>1 DEF PageSound
<1>2. CASE page # None
  <2>1. page' = [doc |-> page.doc, remedy |-> page.remedy, quiet |-> FALSE]
    BY <1>2, PageParts
  <2>2. page'.doc = page.doc /\ page'.remedy = page.remedy /\ page'.quiet = FALSE
    BY <2>1
  <2>3. PageSound'
    BY <2>2 DEF PageSound
  <2>4. QED
    BY <1>2, <2>1, <2>2, <2>3, PageParts
<1>3. QED
  BY <1>1, <1>2

LEMMA NothingApplied ==
  ASSUME applied' = {}
  PROVE  AppliedHelped'
BY DEF AppliedHelped

LEMMA ShiftInv ==
  ASSUME DoctorInv, Shift
  PROVE  DoctorInv'
<1>1. /\ doc' \in DocType /\ ValidateSettings(doc') /\ net' \in DOMAIN World /\ Moves
      /\ page' = (IF page = None THEN None ELSE [page EXCEPT !.quiet = FALSE]) /\ applied' = {}
  BY DEF Shift, DoctorInv, TypeOK, Typed
<1>2. QED
  BY <1>1, PageDisturbed, NothingApplied, MovesInv

LEMMA UserEditInv ==
  ASSUME DoctorInv, UserEdit
  PROVE  DoctorInv'
<1>1. PICK d \in Documents : doc' = IF ValidateSettings(d) THEN d ELSE doc
  BY DEF UserEdit, SetSettings
<1>2. doc' \in DocType /\ ValidateSettings(doc')
  BY <1>1, Constants DEF DoctorInv, TypeOK, Typed
<1>3. /\ net' \in DOMAIN World /\ Moves
      /\ page' = (IF page = None THEN None ELSE [page EXCEPT !.quiet = FALSE]) /\ applied' = {}
  BY DEF UserEdit, DoctorInv, TypeOK
<1>4. QED
  BY <1>2, <1>3, PageDisturbed, NothingApplied, MovesInv

LEMMA ApplyReadInv ==
  ASSUME DoctorInv, ApplyRead
  PROVE  DoctorInv'
<1>1. PICK r \in Remedies(report.rows) :
        page' = [doc |-> Patch(doc, r), remedy |-> r, quiet |-> TRUE]
  BY DEF ApplyRead
<1>2. /\ Idle /\ Idle' /\ report.match = "exact"
      /\ doc' = doc /\ net' = net /\ report' = report /\ applied' = applied
  BY DEF ApplyRead, inFlight, Idle
<1>3. Cures(r)
  BY <1>1, <1>2 DEF DoctorInv, RemediesCure
<1>4. page'.doc = Patch(doc, r) /\ page'.remedy = r /\ page'.quiet = TRUE
  BY <1>1
<1>5. r.lever \in {"strategy", "servers", "via"} /\ Patch(doc, r) \in DocType
  BY <1>3 DEF Cures
<1>6. PageSound'
  BY <1>2, <1>3, <1>4, CuresSame DEF PageSound
<1>7. page' = [doc |-> page'.doc, remedy |-> page'.remedy, quiet |-> page'.quiet]
  BY <1>1, <1>4
<1>8. TypeOK' /\ Typed'
  BY <1>2, <1>4, <1>5, <1>7 DEF DoctorInv, TypeOK, Typed
<1>9. LegsTyped' /\ LegsSound'
  BY <1>2 DEF LegsTyped, LegsSound
<1>10. QED
  BY <1>2, <1>6, <1>8, <1>9, ReportKept, AppliedKept DEF DoctorInv

(* What an undisturbed apply leaves behind: its own complaint is answered,  *)
(* and what earlier applies answered stays answered.                        *)
LEMMA ApplyHelps ==
  ASSUME DoctorInv, NEW r, Cures(r), doc' = Patch(doc, r), net' = net, applied' = applied \cup {r}
  PROVE  AppliedHelped'
<1> DEFINE d == Patch(doc, r)
<1>1. AppliedHelped
  BY DEF DoctorInv
<1>2. /\ r.lever \in {"strategy", "servers", "via"}
      /\ r.lever = "strategy" => ~Misled(d) /\ d.servers = doc.servers /\ d.via = doc.via
      /\ r.lever # "strategy" => /\ Distinct(d.servers) => ~Blocked(d)
                                 /\ d.ip = doc.ip /\ d.strategy = doc.strategy
  BY DEF Cures
<1>3. (Misled(doc)' <=> Misled(d)) /\ (Blocked(doc)' <=> Blocked(d))
  BY DEF Misled, Blocked, Net
<1>4. r.lever # "strategy" => (Misled(d) <=> Misled(doc))
  BY <1>2 DEF Misled
<1>5. r.lever = "strategy" => (Blocked(d) <=> Blocked(doc)) /\ d.servers = doc.servers
  BY <1>2 DEF Blocked
<1> HIDE DEF d
<1>6. doc' = d
  BY DEF d
<1>7. \A x \in applied' : x.lever \in {"strategy", "servers", "via"}
  BY <1>1, <1>2 DEF AppliedHelped
<1>8. ASSUME NEW x \in applied', x.lever = "strategy"
      PROVE  ~Misled(d)
  BY <1>1, <1>2, <1>4, <1>8 DEF AppliedHelped
<1>9. ASSUME NEW x \in applied', x.lever # "strategy", Distinct(d.servers)
      PROVE  ~Blocked(d)
  BY <1>1, <1>2, <1>5, <1>9 DEF AppliedHelped
<1>10. QED
  BY <1>3, <1>6, <1>7, <1>8, <1>9 DEF AppliedHelped

LEMMA ApplyWriteInv ==
  ASSUME DoctorInv, ApplyWrite
  PROVE  DoctorInv'
<1>1. /\ page # None /\ Moves /\ page' = None /\ net' = net
      /\ doc' = IF ValidateSettings(page.doc) THEN page.doc ELSE doc
      /\ applied' = IF page.quiet THEN applied \cup {page.remedy} ELSE {}
  BY DEF ApplyWrite, SetSettings
<1>2. doc' \in DocType /\ ValidateSettings(doc') /\ net' \in DOMAIN World
  BY <1>1, PageParts DEF DoctorInv, TypeOK, Typed
<1>3. PageSound'
  BY <1>1 DEF PageSound
<1>4. AppliedHelped'
  <2>1. CASE page.quiet
    <3>1. page.doc = Patch(doc, page.remedy) /\ Cures(page.remedy)
      BY <1>1, <2>1 DEF DoctorInv, PageSound
    <3>2. ValidateSettings(page.doc)
      BY <3>1 DEF Cures
    <3>3. QED
      BY <1>1, <2>1, <3>1, <3>2, ApplyHelps
  <2>2. CASE ~page.quiet
    BY <1>1, <2>2, NothingApplied
  <2>3. QED
    BY <2>1, <2>2
<1>5. QED
  BY <1>1, <1>2, <1>3, <1>4, MovesInv

-----------------------------------------------------------------------------
(* The join.  What the yes and no of the probes add up to.                  *)

Seen(l) ==
  CASE Kind(l) \in Families -> Kind(l) \in Net.families
    [] Kind(l) = "dns" -> doc.servers[Index(l)] \in Net.up
    [] Kind(l) = "candidate" -> Candidates[Index(l)] \in Net.up
    [] Kind(l) = "port" -> Index(l) \in Net.ports

LEMMA FlagTold ==
  ASSUME DoctorInv, ~Idle, run.steady, NEW l \in DOMAIN at, at[l] = "done", Kind(l) \in Flags
  PROVE  /\ Got(l) => Seen(l)
         /\ ~run.expired /\ Seen(l) => Got(l)
<1>1. got[l] # {} /\ got[l] \subseteq RowsOf(l)
  BY SoFarFine DEF Staged, RowsOf, Flags, Families
<1>2. IdsOf(Kind(l)) = {Kind(l)}
  BY DEF IdsOf, Flags, Families
<1>3. ASSUME NEW row \in got[l]
      PROVE  /\ row.status = "ok" => Seen(l)
             /\ ~run.expired /\ Seen(l) => row.status = "ok"
  <2>1. row.id = Kind(l) /\ row.of = Index(l)
    BY <1>1, <1>2 DEF RowsOf
  <2>2. Promised(row) <=> Seen(l)
    BY <2>1 DEF Promised, Seen, Flags, Families
  <2>3. Judged(row, ~run.expired)
    BY DEF DoctorInv, LegsSound
  <2>4. QED
    BY <2>2, <2>3 DEF Judged
<1>4. QED
  BY <1>1, <1>3 DEF Got

(* A row a leg collected is right as a row of the report.                   *)
LEMMA CollectedRight ==
  ASSUME DoctorInv, ~Idle, run.steady, NEW kinds \in SUBSET (Kinds \ Flags),
         NEW row \in Collect(kinds), doc' = doc, net' = net,
         (report'.match = "exact") = ~run.expired
  PROVE  /\ row.remedy = NoRemedy
         /\ row.status = "ok" => Healthy(row)'
         /\ ~run.expired /\ Healthy(row)' => row.status = "ok"
<1>1. PICK l \in DOMAIN at : Kind(l) \in kinds /\ row \in got[l]
  BY DEF Collect
<1>2. Kind(l) \in Kinds \ Flags
  BY <1>1
<1>3. row \in RowsOf(l)
  BY <1>1, SoFarFine DEF Staged, RowsOf
<1>4. row.id \in RowIds /\ row.remedy = NoRemedy
  BY <1>2, <1>3 DEF RowsOf, IdsOf, RowIds, Kinds, OfDoctor, Flags, Families
<1>5. Judged(row, ~run.expired)
  BY <1>1 DEF DoctorInv, LegsSound
<1>6. Promised(row) <=> Warranted(row, doc, Net, ~run.expired)
  BY <1>4 DEF Promised, RowIds, Families
<1>7. Healthy(row)' <=> Warranted(row, doc, Net, report'.match = "exact")
  BY DEF Healthy, Net
<1>8. QED
  BY <1>4, <1>5, <1>6, <1>7 DEF Judged

(* A verb all whose legs have ended, undisturbed.                           *)
Gathered ==
  /\ DoctorInv /\ ~Idle /\ run.steady
  /\ \A l \in DOMAIN at : at[l] = "done"

LEMMA DoctorFlags ==
  ASSUME Gathered, run.verb = "doctor"
  PROVE  /\ run.snap = doc /\ doc \in DocType /\ ValidateSettings(doc) /\ net \in DOMAIN World
         /\ run.expired \in BOOLEAN
         /\ \A f \in Families : /\ Got(<<f, 0>>) => f \in Net.families
                                /\ ~run.expired /\ f \in Net.families => Got(<<f, 0>>)
         /\ \A i \in DOMAIN doc.servers :
              /\ Got(<<"dns", i>>) => doc.servers[i] \in Net.up
              /\ ~run.expired /\ doc.servers[i] \in Net.up => Got(<<"dns", i>>)
         /\ \A i \in DOMAIN Candidates : <<"candidate", i>> \in DOMAIN at =>
              (Got(<<"candidate", i>>) => Candidates[i] \in Net.up)
<1>1. /\ run.snap = doc /\ doc \in DocType /\ ValidateSettings(doc) /\ net \in DOMAIN World
      /\ run.expired \in BOOLEAN
  BY RunParts DEF Gathered, DoctorInv, LegsSound, TypeOK, Typed
<1>2. DoctorInv /\ ~Idle /\ run.steady /\ \A l \in DOMAIN at : at[l] = "done"
  BY DEF Gathered
<1>3. Needed \subseteq DOMAIN at
  BY <1>2 DEF DoctorInv, LegsTyped
<1>4. ASSUME NEW f \in Families
      PROVE  /\ Got(<<f, 0>>) => f \in Net.families
             /\ ~run.expired /\ f \in Net.families => Got(<<f, 0>>)
  <2>1. <<f, 0>> \in DOMAIN at
    BY <1>3 DEF Needed
  <2>2. Kind(<<f, 0>>) = f /\ f \in Flags
    BY DEF Kind, Flags
  <2>3. Seen(<<f, 0>>) <=> f \in Net.families
    BY <2>2 DEF Seen, Families
  <2>4. QED
    BY <1>2, <2>1, <2>2, <2>3, FlagTold
<1>5. ASSUME NEW i \in DOMAIN doc.servers
      PROVE  /\ Got(<<"dns", i>>) => doc.servers[i] \in Net.up
             /\ ~run.expired /\ doc.servers[i] \in Net.up => Got(<<"dns", i>>)
  <2>1. <<"dns", i>> \in DOMAIN at
    BY <1>1, <1>3 DEF Needed
  <2>2. Kind(<<"dns", i>>) = "dns" /\ Index(<<"dns", i>>) = i /\ "dns" \in Flags
    BY DEF Kind, Index, Flags
  <2>3. Seen(<<"dns", i>>) <=> doc.servers[i] \in Net.up
    BY <2>2 DEF Seen, Families
  <2>4. QED
    BY <1>2, <2>1, <2>2, <2>3, FlagTold
<1>6. ASSUME NEW i \in DOMAIN Candidates, <<"candidate", i>> \in DOMAIN at, Got(<<"candidate", i>>)
      PROVE  Candidates[i] \in Net.up
  <2>1. /\ Kind(<<"candidate", i>>) = "candidate" /\ Index(<<"candidate", i>>) = i
        /\ "candidate" \in Flags
    BY DEF Kind, Index, Flags
  <2>2. Seen(<<"candidate", i>>) <=> Candidates[i] \in Net.up
    BY <2>1 DEF Seen, Families
  <2>3. QED
    BY <1>2, <1>6, <2>1, <2>2, FlagTold
<1>7. QED
  BY <1>1, <1>4, <1>5, <1>6

(* What a remedy's patch leaves of a document.                              *)
LEMMA DocEdits ==
  ASSUME NEW d \in DocType, NEW x
  PROVE  /\ LET e == [d EXCEPT !.strategy = x] IN
              /\ e.ip = d.ip /\ e.strategy = x /\ e.servers = d.servers /\ e.via = d.via
              /\ e.sane = d.sane /\ e.live = d.live
              /\ x \in Strategies \cup STRING => e \in DocType
         /\ LET e == [d EXCEPT !.via = x] IN
              /\ e.ip = d.ip /\ e.strategy = d.strategy /\ e.servers = d.servers /\ e.via = x
              /\ e.sane = d.sane /\ e.live = d.live
              /\ x \in BOOLEAN => e \in DocType
BY DEF DocType

LEMMA ServerEdits ==
  ASSUME NEW d \in DocType, NEW x \in Seq(Upstream)
  PROVE  LET e == [d EXCEPT !.servers = x] IN
           /\ e.ip = d.ip /\ e.strategy = d.strategy /\ e.servers = x /\ e.via = d.via
           /\ e.sane = d.sane /\ e \in DocType
BY DEF DocType

LEMMA Patches ==
  ASSUME NEW d, NEW r
  PROVE  /\ r.lever = "strategy" => Patch(d, r) = [d EXCEPT !.strategy = r.to]
         /\ r.lever = "servers" => Patch(d, r) = [d EXCEPT !.servers = r.to]
         /\ r.lever = "via" => Patch(d, r) = [d EXCEPT !.via = r.to]
BY DEF Patch

(* The row about connectivity, and what its remedy does.                    *)
LEMMA InternetRow ==
  ASSUME Gathered, run.verb = "doctor", NEW row,
         row = InternetCheck({f \in Families : Got(<<f, 0>>)}, run.snap.ip, run.snap.strategy),
         NEW exact \in BOOLEAN, exact => ~run.expired
  PROVE  /\ row.status = "ok" => Warranted(row, doc, Net, exact)
         /\ ~run.expired /\ exact /\ Warranted(row, doc, Net, exact) => row.status = "ok"
         /\ ~run.expired /\ row.remedy # NoRemedy => Cures(row.remedy)
<1> DEFINE up == {f \in Families : Got(<<f, 0>>)}
           own == Leaning(DnsStrategy(doc.strategy, doc.ip))
<1>1. /\ run.snap = doc /\ doc \in DocType /\ ValidateSettings(doc) /\ net \in DOMAIN World
      /\ up \subseteq Net.families /\ up \in SUBSET Families
      /\ ~run.expired => up = Net.families /\ run.expired \in BOOLEAN
  <2>1. Net.families \in SUBSET Families
    BY DoctorFlags, NetParts
  <2>2. QED
    BY <2>1, DoctorFlags
<1> HIDE DEF up
<1>2. row = InternetCheck(up, doc.ip, doc.strategy)
  BY <1>1 DEF up
<1>3. doc.ip \in Families \cup {"both"}
  BY <1>1, DocParts
<1>4. /\ row = Row("internet", 0, row.status, row.remedy)
      /\ row.status = "ok" <=> /\ own \in up
                               /\ own = Leaning(NormalizeStrategy(doc.strategy))
                               /\ doc.ip # "both" => Other(own) \notin up
  BY <1>1, <1>2, <1>3, InternetExact
<1>5. row.id = "internet"
  BY <1>4 DEF Row
<1>6. Warranted(row, doc, Net, exact) <=>
        /\ own \in Net.families
        /\ own = Leaning(NormalizeStrategy(doc.strategy))
        /\ doc.ip # "both" /\ exact => Other(own) \notin Net.families
  BY <1>5, DoctorRowsWarranted
<1>7. row.status = "ok" => Warranted(row, doc, Net, exact)
  BY <1>1, <1>4, <1>6
<1>8. ~run.expired /\ exact /\ Warranted(row, doc, Net, exact) => row.status = "ok"
  BY <1>1, <1>4, <1>6
<1>9. ASSUME ~run.expired, row.remedy # NoRemedy
      PROVE  Cures(row.remedy)
  <2>1. up = Net.families
    BY <1>1, <1>9
  <2>2. PICK t \in Strategies : /\ row.remedy = Strategy(t)
                                /\ InternetCheck(up, doc.ip, t).remedy = NoRemedy
    <3>1. InternetCheck(up, doc.ip, doc.strategy).remedy # NoRemedy
      BY <1>2, <1>9
    <3>2. \E t \in Strategies : /\ InternetCheck(up, doc.ip, doc.strategy).remedy = Strategy(t)
                                /\ InternetCheck(up, doc.ip, t).remedy = NoRemedy
      BY <1>1, <1>3, <3>1, InternetRemedyCures, Zenon
    <3>3. QED
      BY <1>2, <3>2
  <2> DEFINE r == row.remedy
             d == [doc EXCEPT !.strategy = t]
  <2>3. r.lever = "strategy" /\ Patch(doc, r) = d
    <3>1. r.lever = "strategy" /\ r.to = t
      BY <2>2 DEF Strategy
    <3>2. Patch(doc, r) = [doc EXCEPT !.strategy = r.to]
      BY <3>1, Patches
    <3>3. QED
      BY <3>1, <3>2
  <2>4. /\ d.ip = doc.ip /\ d.strategy = t /\ d.servers = doc.servers /\ d.via = doc.via
        /\ d.sane = doc.sane /\ d.live = doc.live
    BY <1>1, DocEdits
  <2>5. d \in DocType /\ ValidateSettings(d)
    <3>1. t \in Strategies \cup STRING /\ t \in Strategies \cup {""}
      OBVIOUS
    <3>2. d \in DocType
      BY <1>1, <3>1, DocEdits
    <3> HIDE DEF d
    <3>3. QED
      BY <1>1, <2>4, <3>1, <3>2 DEF ValidateSettings
  <2>6. Misled(doc) /\ ~Misled(d)
    BY <1>2, <1>9, <2>1, <2>2, <2>4 DEF Misled
  <2> HIDE DEF d, r
  <2>7. Cures(r)
    BY <2>3, <2>4, <2>5, <2>6 DEF Cures
  <2>8. QED
    BY <2>7 DEF r
<1>10. QED
  BY <1>7, <1>8, <1>9

(* A list of upstreams with one that answers in front is a cure.            *)
LEMMA ServersCure ==
  ASSUME doc \in DocType, ValidateSettings(doc), Blocked(doc),
         NEW p \in Seq(Upstream), Len(p) > 0,
         \A i \in DOMAIN p : p[i].type \in {"udp", "tls", "https"},
         Distinct(p) => p[1] \in Net.up
  PROVE  Cures(Servers(p))
<1> DEFINE d == [doc EXCEPT !.servers = p]
           r == Servers(p)
<1>1. r.lever = "servers" /\ r.to = p
  BY DEF Servers
<1> HIDE DEF r
<1>2. Patch(doc, r) = d
  BY <1>1, Patches
<1>3. /\ d.ip = doc.ip /\ d.strategy = doc.strategy /\ d.servers = p /\ d.via = doc.via
      /\ d.sane = doc.sane /\ d \in DocType
  BY ServerEdits
<1> HIDE DEF d
<1>4. ValidateSettings(d)
  <2>1. /\ doc.sane /\ doc.ip \in Families \cup {"both"} /\ doc.strategy \in Strategies \cup {""}
    BY DEF ValidateSettings
  <2>2. QED
    BY <1>3, <2>1, Zenon DEF ValidateSettings
<1>5. Distinct(d.servers) => ~Blocked(d)
  BY <1>3 DEF Blocked
<1>6. Cures(r)
  BY <1>1, <1>2, <1>3, <1>4, <1>5 DEF Cures
<1>7. QED
  BY <1>6 DEF r

LEMMA ViaCure ==
  ASSUME doc \in DocType, ValidateSettings(doc), Blocked(doc)
  PROVE  Cures(ViaTunnel)
<1> DEFINE d == [doc EXCEPT !.via = TRUE]
           r == ViaTunnel
<1>1. r.lever = "via" /\ r.to = TRUE
  BY DEF ViaTunnel
<1> HIDE DEF r
<1>2. Patch(doc, r) = d
  BY <1>1, Patches
<1>3. /\ d.ip = doc.ip /\ d.strategy = doc.strategy /\ d.servers = doc.servers /\ d.via = TRUE
      /\ d.sane = doc.sane /\ d \in DocType
  BY DocEdits
<1> HIDE DEF d
<1>4. ValidateSettings(d)
  BY <1>3 DEF ValidateSettings
<1>5. ~Blocked(d)
  BY <1>3 DEF Blocked
<1>6. Cures(r)
  BY <1>1, <1>2, <1>3, <1>4, <1>5 DEF Cures
<1>7. QED
  BY <1>6 DEF r

LEMMA CandidateAnswers ==
  ASSUME Gathered, run.verb = "doctor", FirstReachableCandidate # None
  PROVE  /\ FirstReachableCandidate \in Net.up /\ FirstReachableCandidate \in Upstream
         /\ FirstReachableCandidate.type \in {"udp", "tls", "https"}
<1> DEFINE ok == {i \in DOMAIN Candidates : <<"candidate", i>> \in DOMAIN at /\ Got(<<"candidate", i>>)}
<1>1. ok # {} /\ FirstReachableCandidate = Candidates[First(ok)]
  BY DEF FirstReachableCandidate
<1>2. ok \in SUBSET Nat
  BY Constants
<1>3. First(ok) \in ok
  BY <1>1, <1>2, FirstIsLeast
<1>4. PICK i \in DOMAIN Candidates :
        /\ FirstReachableCandidate = Candidates[i]
        /\ <<"candidate", i>> \in DOMAIN at /\ Got(<<"candidate", i>>)
  BY <1>1, <1>3
<1>5. QED
  BY <1>4, DoctorFlags, Constants

(* The row about the resolvers, and what its remedy does.                   *)
LEMMA ResolversRow ==
  ASSUME Gathered, run.verb = "doctor", NEW row,
         row = ResolverCheckResult(run.snap.servers,
                                   [i \in DOMAIN run.snap.servers |-> Got(<<"dns", i>>)],
                                   run.snap.via, FirstReachableCandidate),
         NEW exact \in BOOLEAN
  PROVE  /\ row.status = "ok" => Warranted(row, doc, Net, exact)
         /\ ~run.expired /\ Warranted(row, doc, Net, exact) => row.status = "ok"
         /\ ~run.expired /\ row.remedy # NoRemedy => Cures(row.remedy)
<1> DEFINE servers == doc.servers
           reach == [i \in DOMAIN servers |-> Got(<<"dns", i>>)]
           c == FirstReachableCandidate
<1>1. /\ run.snap = doc /\ doc \in DocType /\ ValidateSettings(doc)
      /\ \A i \in DOMAIN servers : /\ Got(<<"dns", i>>) => servers[i] \in Net.up
                                   /\ ~run.expired /\ servers[i] \in Net.up => Got(<<"dns", i>>)
  BY DoctorFlags
<1>2. /\ servers \in Seq(Upstream) /\ servers # <<>> /\ 1 \in DOMAIN servers /\ doc.via \in BOOLEAN
      /\ \A i \in DOMAIN servers : servers[i].type \in {"udp", "tls", "https"}
  BY <1>1, DocParts DEF ValidateSettings
<1>3. reach \in [DOMAIN servers -> BOOLEAN] /\ \A i \in DOMAIN servers : reach[i] <=> Got(<<"dns", i>>)
  BY DEF Got
<1>4. row = ResolverCheckResult(servers, reach, doc.via, c)
  BY <1>1, Zenon
<1> HIDE DEF servers, reach, c
<1>5. /\ row = Row("resolvers", 0, row.status, row.remedy)
      /\ row.status = "ok" <=> doc.via \/ reach[1]
      /\ row.status = "ok" => row.remedy = NoRemedy
      /\ row.status # "ok" =>
           \/ \E j \in DOMAIN servers :
                reach[j] /\ row.remedy = Servers(PromoteResolver(servers, servers[j].addr))
           \/ c # None /\ row.remedy = Servers(<<c>> \o servers)
           \/ row.remedy = ViaTunnel
  <2> DEFINE x == ResolverCheckResult(servers, reach, doc.via, c)
  <2>1. /\ x = Row("resolvers", 0, x.status, x.remedy)
        /\ x.status = "ok" <=> doc.via \/ reach[1]
        /\ x.status = "ok" => x.remedy = NoRemedy
        /\ x.status # "ok" =>
             \/ \E j \in DOMAIN servers :
                  reach[j] /\ x.remedy = Servers(PromoteResolver(servers, servers[j].addr))
             \/ c # None /\ x.remedy = Servers(<<c>> \o servers)
             \/ x.remedy = ViaTunnel
    BY <1>2, <1>3, ResolverRow
  <2> HIDE DEF x
  <2>2. row = x
    BY <1>4 DEF x
  <2>3. QED
    BY <2>1, <2>2, Zenon
<1>6. row.id = "resolvers"
  BY <1>5 DEF Row
<1>7. Warranted(row, doc, Net, exact) <=> doc.via \/ servers[1] \in Net.up
  BY <1>6, DoctorRowsWarranted DEF servers
<1>8. row.status = "ok" => Warranted(row, doc, Net, exact)
  BY <1>1, <1>2, <1>3, <1>5, <1>7
<1>9. ~run.expired /\ Warranted(row, doc, Net, exact) => row.status = "ok"
  BY <1>1, <1>2, <1>3, <1>5, <1>7
<1>10. ASSUME ~run.expired, row.remedy # NoRemedy
       PROVE  Cures(row.remedy)
  <2>1. row.status # "ok"
    BY <1>5, <1>10
  <2>2. Blocked(doc)
    BY <1>7, <1>9, <1>10, <2>1 DEF Blocked, servers
  <2>3. CASE \E j \in DOMAIN servers :
               reach[j] /\ row.remedy = Servers(PromoteResolver(servers, servers[j].addr))
    <3>1. PICK j \in DOMAIN servers :
            reach[j] /\ row.remedy = Servers(PromoteResolver(servers, servers[j].addr))
      BY <2>3
    <3> DEFINE p == PromoteResolver(servers, servers[j].addr)
    <3>2. /\ p \in Seq(Upstream) /\ Len(p) = Len(servers)
          /\ \A i \in DOMAIN p : \E m \in DOMAIN servers : p[i] = servers[m]
          /\ Distinct(p) => p[1] = servers[j]
      BY <1>2, PromotedFirst DEF Distinct
    <3> HIDE DEF p
    <3>3. Len(p) > 0
      BY <1>2, <3>2
    <3>4. \A i \in DOMAIN p : p[i].type \in {"udp", "tls", "https"}
      BY <1>2, <3>2
    <3>5. Distinct(p) => p[1] \in Net.up
      BY <1>1, <1>3, <3>1, <3>2
    <3>6. Cures(Servers(p))
      BY <1>1, <2>2, <3>2, <3>3, <3>4, <3>5, ServersCure
    <3>7. QED
      BY <3>1, <3>6 DEF p
  <2>4. CASE c # None /\ row.remedy = Servers(<<c>> \o servers)
    <3> DEFINE p == <<c>> \o servers
    <3>1. c \in Net.up /\ c \in Upstream /\ c.type \in {"udp", "tls", "https"}
      BY <2>4, CandidateAnswers DEF c
    <3>2. /\ p \in Seq(Upstream) /\ Len(p) = Len(servers) + 1 /\ p[1] = c
          /\ \A i \in DOMAIN p : i = 1 \/ (i - 1 \in DOMAIN servers /\ p[i] = servers[i - 1])
      BY <1>2, <3>1
    <3> HIDE DEF p
    <3>3. Len(p) > 0
      BY <1>2, <3>2
    <3>4. \A i \in DOMAIN p : p[i].type \in {"udp", "tls", "https"}
      BY <1>2, <3>1, <3>2
    <3>5. Cures(Servers(p))
      BY <1>1, <2>2, <3>1, <3>2, <3>3, <3>4, ServersCure
    <3>6. QED
      BY <2>4, <3>5 DEF p
  <2>5. CASE row.remedy = ViaTunnel
    BY <1>1, <2>2, <2>5, ViaCure
  <2>6. QED
    BY <1>5, <2>1, <2>3, <2>4, <2>5
<1>11. QED
  BY <1>8, <1>9, <1>10

(* The row about the transports.                                            *)
LEMMA ProtocolsRow ==
  ASSUME Gathered, run.verb = "network_report", NEW row,
         row = ProtocolsCheck({i \in 1..Ports : ~Got(<<"port", i>>)}), NEW exact
  PROVE  /\ row.remedy = NoRemedy
         /\ row.status = "ok" => Warranted(row, doc, Net, exact)
         /\ ~run.expired /\ Warranted(row, doc, Net, exact) => row.status = "ok"
<1>1. DoctorInv /\ ~Idle /\ run.steady /\ \A l \in DOMAIN at : at[l] = "done"
  BY DEF Gathered
<1>2. net \in DOMAIN World /\ Needed \subseteq DOMAIN at
  BY <1>1 DEF DoctorInv, TypeOK, LegsTyped
<1>3. ASSUME NEW i \in 1..Ports
      PROVE  /\ Got(<<"port", i>>) => i \in Net.ports
             /\ ~run.expired /\ i \in Net.ports => Got(<<"port", i>>)
  <2>1. <<"port", i>> \in DOMAIN at
    BY <1>2 DEF Needed
  <2>2. Kind(<<"port", i>>) = "port" /\ Index(<<"port", i>>) = i /\ "port" \in Flags
    BY DEF Kind, Index, Flags
  <2>3. Seen(<<"port", i>>) <=> i \in Net.ports
    BY <2>2 DEF Seen, Families
  <2>4. QED
    BY <1>1, <2>1, <2>2, <2>3, FlagTold
<1>4. Net.ports \in SUBSET (1..Ports)
  BY <1>2, NetParts
<1>5. /\ row.id = "protocols" /\ row.remedy = NoRemedy
      /\ row.status = "ok" <=> \A i \in 1..Ports : Got(<<"port", i>>)
  BY DEF ProtocolsCheck, Row
<1>6. Warranted(row, doc, Net, exact) <=> Net.ports = 1..Ports
  BY <1>5 DEF Warranted
<1>7. QED
  BY <1>3, <1>4, <1>5, <1>6

(* Every row of a report that is put together undisturbed is right, and its *)
(* remedy, when nothing was missed, a cure.                                 *)
LEMMA RowsRight ==
  ASSUME Gathered, doc' = doc, net' = net,
         report'.match = IF run.expired THEN "late" ELSE "exact", NEW row \in Rows
  PROVE  /\ row.status = "ok" => Healthy(row)'
         /\ ~run.expired /\ Healthy(row)' => row.status = "ok"
         /\ ~run.expired /\ row.remedy # NoRemedy => Cures(row.remedy)
<1> DEFINE exact == report'.match = "exact"
<1>1. DoctorInv /\ ~Idle /\ run.steady /\ run.expired \in BOOLEAN
  BY RunParts DEF Gathered, DoctorInv
<1>2. exact \in BOOLEAN /\ exact = ~run.expired
  BY <1>1
<1>3. Healthy(row)' <=> Warranted(row, doc, Net, exact)
  BY DEF Healthy, Net
<1> HIDE DEF exact
<1>4. ASSUME NEW kinds \in SUBSET (Kinds \ Flags), row \in Collect(kinds)
      PROVE  /\ row.status = "ok" => Healthy(row)'
             /\ ~run.expired /\ Healthy(row)' => row.status = "ok"
             /\ row.remedy = NoRemedy
  BY <1>1, <1>4, CollectedRight
<1>5. /\ {"quality", "health", "front"} \in SUBSET (Kinds \ Flags)
      /\ {"provider", "dnsint"} \in SUBSET (Kinds \ Flags)
      /\ {"node", "diagnose", "ping"} \in SUBSET (Kinds \ Flags)
  BY DEF Kinds, OfDoctor, Flags, Families
<1>6. CASE run.verb = "doctor"
  <2>1. row \in DoctorRows
    BY <1>6 DEF Rows
  <2>2. \/ row = InternetCheck({f \in Families : Got(<<f, 0>>)}, run.snap.ip, run.snap.strategy)
        \/ row = ResolverCheckResult(run.snap.servers,
                     [i \in DOMAIN run.snap.servers |-> Got(<<"dns", i>>)],
                     run.snap.via, FirstReachableCandidate)
        \/ row \in Collect({"quality", "health", "front"})
    BY <2>1 DEF DoctorRows
  <2>3. CASE row = InternetCheck({f \in Families : Got(<<f, 0>>)}, run.snap.ip, run.snap.strategy)
    BY <1>2, <1>3, <1>6, <2>3, InternetRow
  <2>4. CASE row = ResolverCheckResult(run.snap.servers,
                     [i \in DOMAIN run.snap.servers |-> Got(<<"dns", i>>)],
                     run.snap.via, FirstReachableCandidate)
    BY <1>2, <1>3, <1>6, <2>4, ResolversRow
  <2>5. CASE row \in Collect({"quality", "health", "front"})
    BY <1>4, <1>5, <2>5
  <2>6. QED
    BY <2>2, <2>3, <2>4, <2>5
<1>7. CASE run.verb = "network_report"
  <2>1. row \in NetworkRows
    BY <1>7 DEF Rows
  <2>2. CASE row = ProtocolsCheck({i \in 1..Ports : ~Got(<<"port", i>>)})
    BY <1>3, <1>7, <2>2, ProtocolsRow
  <2>3. CASE row \in Collect({"provider", "dnsint"})
    BY <1>4, <1>5, <2>3
  <2>4. QED
    BY <2>1, <2>2, <2>3 DEF NetworkRows
<1>8. CASE run.verb \notin {"doctor", "network_report"}
  <2>1. row \in Collect({"node", "diagnose", "ping"})
    BY <1>8 DEF Rows
  <2>2. QED
    BY <1>4, <1>5, <2>1
<1>9. QED
  BY <1>6, <1>7, <1>8

LEMMA JoinInv ==
  ASSUME DoctorInv, ~Idle, Join, UNCHANGED <<doc, net, page, applied>>
  PROVE  DoctorInv'
<1>1. /\ Idle' /\ doc' = doc /\ net' = net /\ page' = page /\ applied' = applied
      /\ \A l \in DOMAIN at : at[l] = "done"
      /\ report' = [verb |-> run.verb, rows |-> IF run.steady THEN Rows ELSE {},
                    match |-> IF ~run.steady THEN "moved" ELSE IF run.expired THEN "late" ELSE "exact"]
  BY DEF Join, Idle
<1>2. /\ report'.rows = IF run.steady THEN Rows ELSE {}
      /\ report'.match = IF ~run.steady THEN "moved" ELSE IF run.expired THEN "late" ELSE "exact"
      /\ report' = [verb |-> report'.verb, rows |-> report'.rows, match |-> report'.match]
  BY <1>1
<1>3. VerdictsExact' /\ RemediesCure'
  <2>1. CASE ~run.steady
    BY <1>2, <2>1 DEF VerdictsExact, RemediesCure
  <2>2. CASE run.steady
    <3>1. Gathered /\ report'.rows = Rows /\ report'.match = IF run.expired THEN "late" ELSE "exact"
      BY <1>1, <1>2, <2>2 DEF Gathered
    <3>2. ASSUME NEW row \in Rows
          PROVE  /\ row.status = "ok" => Healthy(row)'
                 /\ report'.match = "exact" /\ Healthy(row)' => row.status = "ok"
                 /\ report'.match = "exact" /\ row.remedy # NoRemedy => Cures(row.remedy)'
      BY <1>1, <3>1, RowsRight, CuresSame
    <3>3. VerdictsExact'
      BY <3>1, <3>2 DEF VerdictsExact
    <3>4. RemediesCure'
      BY <3>1, <3>2 DEF RemediesCure, Remedies
    <3>5. QED
      BY <3>3, <3>4
  <2>3. QED
    BY <2>1, <2>2
<1>4. TypeOK' /\ Typed'
  BY <1>1, <1>2 DEF TypeOK, Typed, Matches, DoctorInv
<1>5. LegsTyped' /\ LegsSound'
  BY <1>1 DEF LegsTyped, LegsSound
<1>6. PageSound' /\ AppliedHelped'
  BY <1>1, PageKept, AppliedKept DEF DoctorInv
<1>7. QED
  BY <1>3, <1>4, <1>5, <1>6 DEF DoctorInv

LEMMA StutterInv ==
  ASSUME DoctorInv, UNCHANGED vars
  PROVE  DoctorInv'
<1>1. /\ doc' = doc /\ net' = net /\ run' = run /\ at' = at /\ got' = got
      /\ report' = report /\ page' = page /\ applied' = applied
  BY DEF vars
<1>2. VerdictsExact' /\ RemediesCure' /\ PageSound' /\ AppliedHelped'
  BY <1>1, ReportKept, PageKept, AppliedKept DEF DoctorInv
<1>3. Typed' /\ TypeOK'
  BY <1>1 DEF DoctorInv, Typed, TypeOK, Idle
<1>4. CASE Idle
  BY <1>1, <1>2, <1>3, <1>4 DEF DoctorInv, LegsTyped, LegsSound, Idle
<1>5. CASE ~Idle
  <2>1. LegsTyped'
    BY <1>1, <1>5, LegsKept DEF DoctorInv
  <2>2. \A m : Host(m)' = Host(m)
    BY <1>1 DEF Host, Net
  <2>3. \A row : Judged(row, ~run.expired)' <=> Judged(row, ~run.expired)
    BY <1>1, PromisedSame DEF Judged
  <2>4. LegsSound'
    BY <1>1, <1>5, <2>2, <2>3 DEF DoctorInv, LegsSound, Net, Idle
  <2>5. QED
    BY <1>2, <1>3, <2>1, <2>4 DEF DoctorInv
<1>6. QED
  BY <1>4, <1>5

LEMMA StepInv ==
  ASSUME DoctorInv, Step
  PROVE  DoctorInv'
<1>1. ~Idle /\ UNCHANGED <<doc, net, page, applied>>
  BY DEF Step
<1>2. CASE (\E l \in DOMAIN at : LegStep(l)) /\ UNCHANGED <<run, report>>
  <2>1. PICK l \in DOMAIN at : LegStep(l)
    BY <1>2
  <2>2. UNCHANGED <<doc, net, run, report, page, applied>>
    BY <1>1, <1>2
  <2>3. CASE Acquire(l)
    BY <1>1, <2>2, <2>3, AcquireInv
  <2>4. CASE Measure(l)
    BY <1>1, <2>2, <2>4, MeasureInv
  <2>5. CASE Handshake(l)
    BY <1>1, <2>2, <2>5, HandshakeInv
  <2>6. CASE DialVerifyFetch(l)
    BY <1>1, <2>2, <2>6, DialVerifyFetchInv
  <2>7. QED
    BY <2>1, <2>3, <2>4, <2>5, <2>6 DEF LegStep
<1>3. CASE ResolverCheck /\ UNCHANGED <<run, report>>
  BY <1>1, <1>3, ResolverCheckInv
<1>4. CASE Join
  BY <1>1, <1>4, JoinInv
<1>5. QED
  BY <1>2, <1>3, <1>4 DEF Step

-----------------------------------------------------------------------------
(* The inductive invariant: the rows every leg holds are right while        *)
(* nothing moves, so are those of a report, and what a remedy leaves behind *)
(* is not complained about (the doctor's verbs and the page's _apply).      *)
THEOREM DoctorInvariant == Spec => []DoctorInv
<1>1. Init => DoctorInv
  BY InitInv
<1>2. DoctorInv /\ [Next]_vars => DoctorInv'
  <2> SUFFICES ASSUME DoctorInv, [Next]_vars PROVE DoctorInv'
    OBVIOUS
  <2>1. CASE \E v \in Verbs : Begin(v)
    BY <2>1, BeginInv
  <2>2. CASE ForwardingReport
    BY <2>2, ForwardingReportInv
  <2>3. CASE Step
    BY <2>3, StepInv
  <2>4. CASE Expire
    BY <2>4, ExpireInv
  <2>5. CASE Shift
    BY <2>5, ShiftInv
  <2>6. CASE UserEdit
    BY <2>6, UserEditInv
  <2>7. CASE ApplyRead
    BY <2>7, ApplyReadInv
  <2>8. CASE ApplyWrite
    BY <2>8, ApplyWriteInv
  <2>9. CASE UNCHANGED vars
    BY <2>9, StutterInv
  <2>10. QED
    BY <2>1, <2>2, <2>3, <2>4, <2>5, <2>6, <2>7, <2>8, <2>9 DEF Next
<1>3. QED
  BY <1>1, <1>2, PTL DEF Spec

(* Legs only pass through the stages of their kind, every leg that has      *)
(* ended has its answer, the stored document stays one the store accepts    *)
(* (goroutines of the verbs; validateSettings).                             *)
THEOREM DoctorTypeCorrect == Spec => []TypeOK
<1>1. DoctorInv => TypeOK
  BY DEF DoctorInv
<1>2. QED
  BY <1>1, DoctorInvariant, PTL

(* A row of an undisturbed, unexpired report is green exactly when the      *)
(* settings and the network are right for it, and a green row of an expired *)
(* one is wrong only in what its budget kept it from asking (the family a   *)
(* pin gives up, the truth about the remaining names), whichever order the  *)
(* probes end in and however many there are (doctor, doctorNodes,           *)
(* networkReport, testLatency, diagnose).                                   *)
THEOREM VerdictsAreExact == Spec => []VerdictsExact
<1>1. DoctorInv => VerdictsExact
  BY DEF DoctorInv
<1>2. QED
  BY <1>1, DoctorInvariant, PTL

(* Every remedy an exact report offers answers a complaint about the stored *)
(* document, makes one the store accepts, and leaves no such complaint      *)
(* (strategyRemedy, promoteResolver, the resolver candidates).              *)
THEOREM RemediesAlwaysCure == Spec => []RemediesCure
<1>1. DoctorInv => RemediesCure
  BY DEF DoctorInv
<1>2. QED
  BY <1>1, DoctorInvariant, PTL

(* While nothing else moves, no remedy is offered again once applied: an    *)
(* offer answers a complaint, and no complaint that was answered is left,   *)
(* unless two upstreams share an address (_apply and the remedies of        *)
(* internetCheck and resolverCheckResult).                                  *)
THEOREM RemediesDoNotRepeat == Spec => []NoRepeatedRemedy
<1>1. DoctorInv => NoRepeatedRemedy
  <2> SUFFICES ASSUME DoctorInv, report.match = "exact", Distinct(doc.servers),
                      NEW r \in Remedies(report.rows), r \in applied
               PROVE  FALSE
    BY DEF NoRepeatedRemedy, Distinct
  <2>1. Cures(r)
    BY DEF DoctorInv, RemediesCure
  <2>2. /\ r.lever = "strategy" => Misled(doc)
        /\ r.lever # "strategy" => Blocked(doc)
    BY <2>1 DEF Cures
  <2>3. QED
    BY <2>2 DEF DoctorInv, AppliedHelped
<1>2. QED
  BY <1>1, DoctorInvariant, PTL

-----------------------------------------------------------------------------
(* The semaphores.                                                          *)

LEMMA TaggedFinite ==
  ASSUME NEW S, IsFiniteSet(S), NEW k
  PROVE  IsFiniteSet({<<k, i>> : i \in S})
<1> DEFINE T == {<<k, i>> : i \in S}
           f == [i \in S |-> <<k, i>>]
<1>1. f \in Surjection(S, T)
  BY DEF Surjection
<1>2. QED
  BY <1>1, FS_Surjection

LEMMA IndicesFinite ==
  ASSUME NEW U, NEW s \in Seq(U)
  PROVE  IsFiniteSet(DOMAIN s)
<1>1. DOMAIN s = 1..Len(s) /\ Len(s) \in Nat
  OBVIOUS
<1>2. QED
  BY <1>1, FS_Interval

LEMMA LegsFinite ==
  ASSUME DoctorInv, NEW v \in Verbs, NEW S \in Asked(v)
  PROVE  IsFiniteSet(Legs(v, doc, S))
<1>1. IsFiniteSet(DOMAIN Nodes) /\ IsFiniteSet(DOMAIN doc.servers)
  BY Constants, IndicesFinite, DocParts DEF DoctorInv, Typed
<1>2. \A T \in SUBSET DOMAIN Nodes : IsFiniteSet(T)
  BY <1>1, FS_Subset
<1>3. CASE v = "doctor"
  <2> DEFINE A == {<<"v4", 0>>, <<"v6", 0>>, <<"quality", 0>>}
             B == {<<"dns", i>> : i \in DOMAIN doc.servers}
             H == Plain \cap {Active}
             C == {<<"health", i>> : i \in H}
             F == {j \in H : HasCamouflage(Nodes[j])}
             D == {<<"front", i>> : i \in F}
  <2>1. IsFiniteSet({<<"v4", 0>>})
    BY FS_Singleton
  <2>2. IsFiniteSet(A)
    <3> DEFINE a == <<"v4", 0>>
               b == <<"v6", 0>>
               c == <<"quality", 0>>
    <3>1. IsFiniteSet({a}) /\ A = {a, b, c}
      BY <2>1
    <3> HIDE DEF A, a, b, c
    <3>2. IsFiniteSet({a} \cup {b})
      BY <3>1, FS_AddElement
    <3>3. IsFiniteSet(({a} \cup {b}) \cup {c})
      BY <3>2, FS_AddElement
    <3>4. A = ({a} \cup {b}) \cup {c}
      BY <3>1
    <3>5. QED
      BY <3>3, <3>4
  <2>3. H \in SUBSET DOMAIN Nodes /\ F \in SUBSET DOMAIN Nodes
    BY DEF Plain
  <2>4. IsFiniteSet(B) /\ IsFiniteSet(C) /\ IsFiniteSet(D)
    <3>1. IsFiniteSet(H) /\ IsFiniteSet(F)
      BY <1>2, <2>3
    <3> HIDE DEF H, F
    <3>2. QED
      BY <1>1, <3>1, TaggedFinite
  <2>5. Legs(v, doc, S) = A \cup B \cup C \cup D
    BY <1>3 DEF Legs
  <2> HIDE DEF A, B, C, D
  <2>6. QED
    BY <2>2, <2>4, <2>5, FS_Union
<1>4. CASE v = "doctor_nodes"
  <2>1. Legs(v, doc, S) = {<<"node", i>> : i \in DOMAIN Nodes}
    BY <1>4 DEF Legs
  <2>2. QED
    BY <1>1, <2>1, TaggedFinite
<1>5. CASE v \in {"test_latency", "diagnose"}
  <2>1. S \in SUBSET DOMAIN Nodes
    BY <1>5 DEF Asked, Plain
  <2>2. Legs(v, doc, S) = {<<"ping", i>> : i \in S} \/ Legs(v, doc, S) = {<<"diagnose", i>> : i \in S}
    BY <1>5 DEF Legs
  <2>3. IsFiniteSet(S)
    BY <1>2, <2>1
  <2>4. IsFiniteSet({<<"ping", i>> : i \in S}) /\ IsFiniteSet({<<"diagnose", i>> : i \in S})
    BY <2>3, TaggedFinite, Zenon
  <2>5. QED
    BY <2>2, <2>4, Zenon
<1>6. CASE v = "network_report"
  <2> DEFINE A == {<<"provider", i>> : i \in 1..Providers}
             B == {<<"port", i>> : i \in 1..Ports}
  <2>1. IsFiniteSet(1..Providers) /\ IsFiniteSet(1..Ports)
    BY Constants, FS_Interval
  <2>2. IsFiniteSet(A) /\ IsFiniteSet(B) /\ IsFiniteSet({<<"dnsint", 0>>})
    <3>1. IsFiniteSet(A) /\ IsFiniteSet(B)
      BY <2>1, TaggedFinite, Zenon
    <3>2. IsFiniteSet({<<"dnsint", 0>>})
      BY FS_Singleton
    <3>3. QED
      BY <3>1, <3>2, Zenon
  <2>3. Legs(v, doc, S) = A \cup {<<"dnsint", 0>>} \cup B
    BY <1>6 DEF Legs
  <2> HIDE DEF A, B
  <2>4. QED
    BY <2>2, <2>3, FS_Union
<1>7. QED
  BY <1>3, <1>4, <1>5, <1>6, Constants

(* A step that hands out no slot keeps the count.                           *)
LEMMA FewerHold ==
  ASSUME NEW kind \in Sweeps, IsFiniteSet(DOMAIN at),
         Cardinality(Holding(kind)) <= Slots(kind), Holding(kind)' \subseteq Holding(kind)
  PROVE  Cardinality(Holding(kind)') <= Slots(kind)
<1>1. IsFiniteSet(Holding(kind))
  BY FS_Subset DEF Holding
<1>2. /\ IsFiniteSet(Holding(kind)') /\ Cardinality(Holding(kind)') <= Cardinality(Holding(kind))
  BY <1>1, FS_Subset
<1>3. Cardinality(Holding(kind)) \in Nat /\ Cardinality(Holding(kind)') \in Nat
  BY <1>1, <1>2, FS_CardinalityType
<1>4. Slots(kind) \in Nat
  BY Constants DEF Slots
<1>5. QED
  BY <1>2, <1>3, <1>4

LEMMA LegStepSlots ==
  ASSUME DoctorInv, SlotsInv, ~Idle, NEW l \in DOMAIN at, LegStep(l), run' = run
  PROVE  SlotsInv'
<1>1. /\ at = [m \in DOMAIN at |-> at[m]] /\ IsFiniteSet(DOMAIN at)
      /\ \A kind \in Sweeps : Cardinality(Holding(kind)) <= Slots(kind)
  BY DEF DoctorInv, LegsTyped, SlotsInv, SlotsKept
<1>2. PICK s : at' = [at EXCEPT ![l] = s]
  BY DEF LegStep, Acquire, Measure, Handshake, DialVerifyFetch, Ends
<1>3. DOMAIN at' = DOMAIN at /\ \A m \in DOMAIN at : m # l => at'[m] = at[m]
  BY <1>1, <1>2
<1>4. ASSUME NEW kind \in Sweeps
      PROVE  Cardinality(Holding(kind)') <= Slots(kind)
  <2>1. Holding(kind)' \subseteq Holding(kind) \cup {l}
    BY <1>3 DEF Holding
  <2>2. CASE Acquire(l) /\ Kind(l) = kind
    <3>1. at[l] = "queued" /\ Cardinality(Holding(kind)) < Slots(kind)
      BY <2>2 DEF Acquire
    <3>2. IsFiniteSet(Holding(kind)) /\ l \notin Holding(kind)
      BY <1>1, <3>1, FS_Subset DEF Holding
    <3>3. /\ IsFiniteSet(Holding(kind) \cup {l})
          /\ Cardinality(Holding(kind) \cup {l}) = Cardinality(Holding(kind)) + 1
      BY <3>2, FS_AddElement
    <3>4. /\ IsFiniteSet(Holding(kind)')
          /\ Cardinality(Holding(kind)') <= Cardinality(Holding(kind) \cup {l})
      BY <2>1, <3>3, FS_Subset
    <3>5. /\ Cardinality(Holding(kind)) \in Nat /\ Cardinality(Holding(kind)') \in Nat
          /\ Slots(kind) \in Nat
      BY <3>2, <3>4, FS_CardinalityType, Constants DEF Slots
    <3>6. QED
      BY <3>1, <3>3, <3>4, <3>5
  <2>3. CASE ~(Acquire(l) /\ Kind(l) = kind)
    <3>1. l \in Holding(kind)' => l \in Holding(kind)
      <4>1. CASE Kind(l) # kind
        BY <4>1 DEF Holding
      <4>2. CASE Kind(l) = kind
        <5>1. at[l] \in {"open", "front", "fetch"}
          BY <2>3, <4>2 DEF LegStep, Measure, Handshake, DialVerifyFetch
        <5>2. QED
          BY <4>2, <5>1 DEF Holding
      <4>3. QED
        BY <4>1, <4>2
    <3>2. Holding(kind)' \subseteq Holding(kind)
      BY <2>1, <3>1
    <3>3. QED
      BY <1>1, <3>2, FewerHold
  <2>4. QED
    BY <2>2, <2>3
<1>5. \A kind : Slots(kind)' = Slots(kind)
  BY DEF Slots
<1>6. QED
  BY <1>1, <1>3, <1>4, <1>5 DEF SlotsInv, SlotsKept

LEMMA ResolverCheckSlots ==
  ASSUME DoctorInv, SlotsInv, ~Idle, ResolverCheck, run' = run
  PROVE  SlotsInv'
<1> DEFINE D == DOMAIN at \cup Untried
<1>1. /\ IsFiniteSet(DOMAIN at)
      /\ \A kind \in Sweeps : Cardinality(Holding(kind)) <= Slots(kind)
  BY DEF SlotsInv, SlotsKept
<1>2. at' = [m \in D |-> IF m \in Untried THEN "open" ELSE at[m]]
  BY DEF ResolverCheck
<1>3. Untried \in SUBSET {<<"candidate", i>> : i \in DOMAIN Candidates}
  BY DEF Untried
<1>4. IsFiniteSet(D)
  <2>1. IsFiniteSet({<<"candidate", i>> : i \in DOMAIN Candidates})
    BY Constants, IndicesFinite, TaggedFinite
  <2>2. IsFiniteSet(Untried)
    BY <1>3, <2>1, FS_Subset
  <2>3. QED
    BY <1>1, <2>2, FS_Union
<1>5. ASSUME NEW kind \in Sweeps
      PROVE  Cardinality(Holding(kind)') <= Slots(kind)
  <2>1. \A m \in Untried : Kind(m) = "candidate"
    BY <1>3 DEF Kind
  <2>2. kind # "candidate"
    BY DEF Sweeps
  <2>3. Holding(kind)' \subseteq Holding(kind)
    BY <1>2, <2>1, <2>2 DEF Holding
  <2>4. QED
    BY <1>1, <2>3, FewerHold
<1>6. DOMAIN at' = D
  BY <1>2
<1>7. QED
  BY <1>4, <1>5, <1>6 DEF SlotsInv, SlotsKept, Slots

LEMMA BeginSlots ==
  ASSUME DoctorInv, NEW v \in Verbs, Begin(v)
  PROVE  SlotsInv'
<1>1. PICK S \in Asked(v) : at' = [l \in Legs(v, doc, S) |-> Entry(l)]
  BY DEF Begin
<1>2. DOMAIN at' = Legs(v, doc, S) /\ IsFiniteSet(Legs(v, doc, S))
  BY <1>1, LegsFinite
<1>3. ASSUME NEW kind \in Sweeps
      PROVE  Cardinality(Holding(kind)') <= Slots(kind)
  <2>1. \A l \in DOMAIN at' : Kind(l) = kind => at'[l] = "queued"
    BY <1>1 DEF Entry, Sweeps
  <2>2. Holding(kind)' = {}
    BY <2>1 DEF Holding
  <2>3. QED
    BY <2>2, FS_EmptySet, Constants DEF Slots
<1>4. QED
  BY <1>2, <1>3 DEF SlotsInv, SlotsKept, Slots

LEMMA LegsStillSlots ==
  ASSUME SlotsInv, at' = at, ~Idle' => ~Idle
  PROVE  SlotsInv'
BY DEF SlotsInv, SlotsKept, Holding, Slots

(* However many nodes or providers there are, a sweep never has more probes *)
(* under way than slots: a slot is only taken when one is free, whatever    *)
(* way the probe that had it ended (the semaphores of doctorNodes,          *)
(* testLatency and ProbeProviders).                                         *)
THEOREM SweepsStayInTheirSlots == Spec => []SlotsKept
<1>1. Init => SlotsInv
  BY DEF Init, SlotsInv, SlotsKept, Idle
<1>2. DoctorInv /\ SlotsInv /\ [Next]_vars => SlotsInv'
  <2> SUFFICES ASSUME DoctorInv, SlotsInv, [Next]_vars PROVE SlotsInv'
    OBVIOUS
  <2>1. CASE \E v \in Verbs : Begin(v)
    BY <2>1, BeginSlots
  <2>2. CASE Step
    <3>1. ~Idle
      BY <2>2 DEF Step
    <3>2. CASE (\E l \in DOMAIN at : LegStep(l)) /\ UNCHANGED <<run, report>>
      BY <3>1, <3>2, LegStepSlots
    <3>3. CASE ResolverCheck /\ UNCHANGED <<run, report>>
      BY <3>1, <3>3, ResolverCheckSlots
    <3>4. CASE Join
      BY <3>4 DEF Join, SlotsInv, SlotsKept, Idle
    <3>5. QED
      BY <2>2, <3>2, <3>3, <3>4 DEF Step
  <2>3. CASE ForwardingReport \/ ApplyRead \/ UNCHANGED vars
    BY <2>3, LegsStillSlots DEF ForwardingReport, ApplyRead, inFlight, vars, Idle
  <2>4. CASE Expire
    BY <2>4, LegsStillSlots DEF Expire
  <2>5. CASE Shift \/ UserEdit \/ ApplyWrite
    <3>1. Moves
      BY <2>5 DEF Shift, UserEdit, ApplyWrite
    <3>2. at' = at /\ (~Idle' => ~Idle)
      BY <3>1 DEF Moves, Idle
    <3>3. QED
      BY <3>2, LegsStillSlots
  <2>6. QED
    BY <2>1, <2>2, <2>3, <2>4, <2>5 DEF Next
<1>3. SlotsInv => SlotsKept
  BY DEF SlotsInv
<1>4. QED
  BY <1>1, <1>2, <1>3, DoctorInvariant, PTL DEF Spec
=============================================================================
