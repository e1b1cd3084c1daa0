---------------------------- MODULE ChecksProofs ----------------------------
(* What the pure functions of Checks compute, for every document, node and  *)
(* measurement: which core a node gets, when a check is green, and what     *)
(* each remedy does to the document it is offered for.                      *)
EXTENDS Checks, FiniteSetTheorems, WellFoundedInduction, TLAPS

(* The first of some indices is one of them, and none is before it.         *)
LEMMA FirstIsLeast ==
  ASSUME NEW S \in SUBSET Nat, S # {}
  PROVE  First(S) \in S /\ \A j \in S : First(S) <= j
<1>1. PICK x \in S : \A y \in S : ~(<<y, x>> \in OpToRel(<, Nat))
  BY NatLessThanWellFounded, WFMin, Zenon
<1>2. \A y \in S : y \in Nat
  OBVIOUS
<1>3. ASSUME NEW y \in S PROVE x <= y
  <2>1. x \in Nat /\ y \in Nat
    BY <1>2
  <2>2. <<y, x>> \in Nat \X Nat /\ <<y, x>>[1] = y /\ <<y, x>>[2] = x
    BY <2>1
  <2>3. y < x => <<y, x>> \in OpToRel(<, Nat)
    BY <2>2, Zenon DEF OpToRel
  <2>4. ~(y < x)
    BY <1>1, <2>3, Zenon
  <2>5. QED
    BY <2>1, <2>4
<1>4. QED
  BY <1>3, Zenon DEF First

-----------------------------------------------------------------------------
(* Core selection.                                                          *)

LEMMA Priority ==
  ASSUME NEW E \in SUBSET Cores, E # {}
  PROVE  CorePriority[First({i \in DOMAIN CorePriority : CorePriority[i] \in E})] \in E
<1> DEFINE S == {i \in DOMAIN CorePriority : CorePriority[i] \in E}
<1>1. DOMAIN CorePriority = 1..2 /\ CorePriority[1] = "singbox" /\ CorePriority[2] = "xray"
  BY DEF CorePriority
<1>2. S \in SUBSET Nat /\ S # {}
  <2>1. PICK c \in E : c \in {"singbox", "xray"}
    BY DEF Cores
  <2>2. 1 \in S \/ 2 \in S
    BY <1>1, <2>1
  <2>3. QED
    BY <1>1, <2>2
<1>3. First(S) \in S
  BY <1>2, FirstIsLeast
<1>4. QED
  BY <1>3, Zenon

(* The core a node gets can dial it; it gets none exactly when it is a      *)
(* group, when no core can dial it, or when the user pinned it to one that  *)
(* cannot; and a pin that can be honoured is (SelectFromEligible as the     *)
(* probes call it).                                                         *)
THEOREM CoreSelectionSound ==
  ASSUME NEW n, None \notin Cores
  PROVE  /\ SelectCore(n) \in {None} \cup EligibleCores(n)
         /\ SelectCore(n) = None <=> \/ n.group
                                     \/ \A c \in Cores : ~DialableBy(n, c)
                                     \/ n.override # None /\ n.override \notin EligibleCores(n)
         /\ n.override \in EligibleCores(n) => SelectCore(n) = n.override
<1> DEFINE E == EligibleCores(n)
<1>1. E \in SUBSET Cores /\ (E = {} <=> n.group \/ \A c \in Cores : ~DialableBy(n, c))
  BY DEF EligibleCores
<1>2. CASE E = {}
  <2>1. SelectCore(n) = None
    BY <1>2 DEF SelectCore, SelectFromEligible
  <2>2. QED
    BY <1>1, <1>2, <2>1
<1>3. CASE E # {} /\ n.override # None
  <2>1. SelectCore(n) = IF n.override \in E THEN n.override ELSE None
    BY <1>3 DEF SelectCore, SelectFromEligible
  <2>2. QED
    BY <1>1, <1>3, <2>1
<1>4. CASE E # {} /\ n.override = None
  <2> DEFINE p == CorePriority[First({i \in DOMAIN CorePriority : CorePriority[i] \in E})]
  <2>1. SelectCore(n) = IF PreferredCore(n) \in E THEN PreferredCore(n)
                        ELSE IF "singbox" \in E THEN "singbox" ELSE p
    BY <1>4 DEF SelectCore, SelectFromEligible
  <2>2. p \in E
    BY <1>1, <1>4, Priority
  <2>3. SelectCore(n) \in E
    BY <2>1, <2>2
  <2>4. QED
    BY <1>1, <1>4, <2>3
<1>5. QED
  BY <1>2, <1>3, <1>4

-----------------------------------------------------------------------------
(* Connectivity.                                                            *)

LEMMA StrategyCases ==
  ASSUME NEW s
  PROVE  /\ NormalizeStrategy(s) \in Strategies
         /\ s \in Strategies => NormalizeStrategy(s) = s
         /\ Leaning(NormalizeStrategy(s)) \in Families
BY DEF NormalizeStrategy, Strategies, Leaning, Families

LEMMA OtherFamily ==
  ASSUME NEW f \in Families
  PROVE  Other(f) \in Families /\ Other(f) # f /\ Families = {f, Other(f)}
BY DEF Families, Other

(* internetCheck is green exactly when the family the TUN will use is up,   *)
(* the strategy leans to it, and no pin gives up a family that works.       *)
LEMMA InternetExact ==
  ASSUME NEW up \in SUBSET Families, NEW ip \in Families \cup {"both"}, NEW s
  PROVE  LET r == InternetCheck(up, ip, s)
             own == Leaning(DnsStrategy(s, ip))
         IN /\ r = Row("internet", 0, r.status, r.remedy)
            /\ r.status \in {"ok", "warn", "fail"}
            /\ r.status = "ok" <=> /\ own \in up
                                   /\ own = Leaning(NormalizeStrategy(s))
                                   /\ ip # "both" => Other(own) \notin up
<1> DEFINE r == InternetCheck(up, ip, s)
           own == Leaning(DnsStrategy(s, ip))
           L == Leaning(NormalizeStrategy(s))
           lean == StrategyRemedy(up, NormalizeStrategy(s))
<1>1. L \in Families
  BY StrategyCases
<1>2. own = IF ip = "both" THEN L ELSE ip
  BY DEF DnsStrategy, Leaning, Families
<1>3. lean # NoRemedy <=> up = {Other(L)}
  BY DEF StrategyRemedy, Strategy, NoRemedy
<1>4. CASE up = {}
  BY <1>4 DEF InternetCheck, Row
<1>5. CASE up # {}
  <2>1. /\ r.status = IF \/ lean # NoRemedy \/ DeadPin(up, ip) \/ (ip # "both" /\ up = Families)
                         \/ (ip # "both" /\ L # ip)
                      THEN "warn" ELSE "ok"
        /\ r = Row("internet", 0, r.status, r.remedy)
    BY <1>5 DEF InternetCheck, Row
  <2>2. r.status = "ok" <=> /\ own \in up /\ own = L
                            /\ ip # "both" => Other(own) \notin up
    <3>1. CASE ip = "both"
      BY <2>1, <1>1, <1>2, <1>3, <1>5, <3>1 DEF DeadPin, Families, Other
    <3>2. CASE ip # "both"
      BY <2>1, <1>1, <1>2, <1>3, <1>5, <3>2 DEF DeadPin, Families, Other
    <3>3. QED
      BY <3>1, <3>2
  <2>3. QED
    BY <2>1, <2>2
<1>6. QED
  BY <1>4, <1>5

(* The remedy of internetCheck sets a strategy the store accepts, and with  *)
(* it in place the same network gives no remedy: the strategy then leans to *)
(* a family that is up, and to the pinned one when it can.                  *)
LEMMA InternetRemedyCures ==
  ASSUME NEW up \in SUBSET Families, NEW ip \in Families \cup {"both"}, NEW s,
         InternetCheck(up, ip, s).remedy # NoRemedy
  PROVE  \E t \in Strategies :
           /\ InternetCheck(up, ip, s).remedy = Strategy(t)
           /\ InternetCheck(up, ip, t).remedy = NoRemedy
<1> DEFINE L(x) == Leaning(NormalizeStrategy(x))
           lean(x) == StrategyRemedy(up, NormalizeStrategy(x))
           ign(x) == lean(x) = NoRemedy /\ ip # "both" /\ L(x) # ip /\ ip \in up
<1>1. \A x : L(x) \in Families
  BY StrategyCases
<1>2. \A x : up # {} => InternetCheck(up, ip, x).remedy
               = IF ign(x) THEN Strategy(DnsStrategy(x, ip)) ELSE lean(x)
  BY DEF InternetCheck, Row
<1>3. \A x : /\ up = {Other(L(x))} <=> lean(x) # NoRemedy
             /\ lean(x) # NoRemedy =>
                  lean(x) = Strategy(IF L(x) = "v4" THEN "prefer_ipv6" ELSE "prefer_ipv4")
  BY DEF StrategyRemedy, Strategy, NoRemedy
<1>4. up # {}
  BY DEF InternetCheck, Row
<1>5. L("prefer_ipv4") = "v4" /\ L("prefer_ipv6") = "v6" /\ L("ipv4_only") = "v4" /\ L("ipv6_only") = "v6"
  BY DEF Leaning, NormalizeStrategy, Strategies
<1>6. CASE ign(s)
  <2>1. ip \in Families /\ up # {Other(ip)}
    BY <1>6, OtherFamily
  <2>2. PICK t \in Strategies : t = DnsStrategy(s, ip) /\ L(t) = ip
    BY <1>5, <2>1 DEF DnsStrategy, Families, Strategies
  <2>3. InternetCheck(up, ip, t).remedy = NoRemedy
    BY <1>2, <1>3, <1>4, <2>1, <2>2
  <2>4. QED
    BY <1>2, <1>4, <1>6, <2>2, <2>3
<1>7. CASE ~ign(s)
  <2>1. lean(s) # NoRemedy /\ up = {Other(L(s))}
    BY <1>2, <1>3, <1>4, <1>7
  <2>2. PICK t \in Strategies : lean(s) = Strategy(t) /\ L(t) = Other(L(s))
    BY <1>1, <1>3, <1>5, <2>1 DEF Strategies, Families, Other
  <2>3. lean(t) = NoRemedy /\ ~ign(t)
    BY <1>1, <1>3, <2>1, <2>2, OtherFamily
  <2>4. InternetCheck(up, ip, t).remedy = NoRemedy
    BY <1>2, <1>4, <2>3
  <2>5. QED
    BY <1>2, <1>4, <1>7, <2>2, <2>4
<1>8. QED
  BY <1>6, <1>7

-----------------------------------------------------------------------------
(* DNS upstreams.                                                           *)

(* promoteResolver returns the upstreams it was given, and the one asked    *)
(* for comes first, unless two of them share an address.                    *)
LEMMA PromotedFirst ==
  ASSUME NEW U, NEW servers \in Seq(U), NEW j \in DOMAIN servers
  PROVE  LET p == PromoteResolver(servers, servers[j].addr)
         IN /\ p \in Seq(U) /\ Len(p) = Len(servers)
            /\ \A i \in DOMAIN p : \E m \in DOMAIN servers : p[i] = servers[m]
            /\ (\A x, y \in DOMAIN p : p[x].addr = p[y].addr => x = y) => p[1] = servers[j]
<1> DEFINE at == {i \in DOMAIN servers : servers[i].addr = servers[j].addr}
           k == First(at)
           p == PromoteResolver(servers, servers[j].addr)
<1>1. DOMAIN servers = 1..Len(servers) /\ Len(servers) \in Nat
  OBVIOUS
<1>2. at \in SUBSET Nat /\ j \in at
  BY <1>1
<1>3. k \in at /\ k <= j
  BY <1>2, FirstIsLeast
<1>4. k \in 1..Len(servers) /\ j \in 1..Len(servers) /\ servers[k].addr = servers[j].addr
  BY <1>1, <1>3
<1> HIDE DEF at, k
<1>5. p = [i \in 1..Len(servers) |->
             IF i = 1 THEN servers[k] ELSE IF i <= k THEN servers[i - 1] ELSE servers[i]]
  BY <1>1, <1>2 DEF PromoteResolver, at, k
<1> HIDE DEF p
<1>6. ASSUME NEW i \in 1..Len(servers)
      PROVE  \E m \in 1..Len(servers) : p[i] = servers[m]
  <2>1. PICK m \in 1..Len(servers) : m = IF i = 1 THEN k ELSE IF i <= k THEN i - 1 ELSE i
    BY <1>1, <1>4
  <2>2. p[i] = servers[m]
    BY <1>5, <2>1
  <2>3. QED
    BY <2>2
<1>7. \A i \in 1..Len(servers) : p[i] \in U
  BY <1>1, <1>6
<1>8. DOMAIN p = 1..Len(servers) /\ p \in Seq(U) /\ Len(p) = Len(servers)
  BY <1>1, <1>5, <1>7
<1>9. ASSUME \A x, y \in DOMAIN p : p[x].addr = p[y].addr => x = y
      PROVE  p[1] = servers[j]
  <2>1. p[1] = servers[k]
    BY <1>1, <1>4, <1>5
  <2>2. CASE k < j
    <3>1. p[j] = servers[j] /\ j # 1
      BY <1>1, <1>4, <1>5, <2>2
    <3>2. 1 \in DOMAIN p /\ j \in DOMAIN p /\ p[1].addr = p[j].addr
      BY <1>1, <1>4, <1>8, <2>1, <3>1
    <3>3. QED
      BY <1>9, <3>1, <3>2
  <2>3. CASE ~(k < j)
    BY <1>1, <1>3, <1>4, <2>1, <2>3
  <2>4. QED
    BY <2>2, <2>3
<1>10. QED
  BY <1>1, <1>6, <1>8, <1>9 DEF p

(* The resolver row is green exactly when the names go through the tunnel   *)
(* or the primary answers; otherwise it offers to promote an upstream that  *)
(* answers, else to put a candidate in front, else the tunnel.              *)
LEMMA ResolverRow ==
  ASSUME NEW U, NEW servers \in Seq(U), servers # <<>>, NEW reach \in [DOMAIN servers -> BOOLEAN],
         NEW via \in BOOLEAN, NEW candidate
  PROVE  LET r == ResolverCheckResult(servers, reach, via, candidate)
         IN /\ r = Row("resolvers", 0, r.status, r.remedy)
            /\ r.status \in {"ok", "warn"}
            /\ r.status = "ok" <=> via \/ reach[1]
            /\ r.status = "ok" => r.remedy = NoRemedy
            /\ r.status # "ok" =>
                 \/ \E j \in DOMAIN servers :
                      reach[j] /\ r.remedy = Servers(PromoteResolver(servers, servers[j].addr))
                 \/ candidate # None /\ r.remedy = Servers(<<candidate>> \o servers)
                 \/ r.remedy = ViaTunnel
<1> DEFINE r == ResolverCheckResult(servers, reach, via, candidate)
           second == {i \in DOMAIN servers : i > 1 /\ reach[i]}
           j == First(second)
<1>1. second \in SUBSET Nat
  OBVIOUS
<1>2. second # {} => j \in DOMAIN servers /\ reach[j]
  BY <1>1, FirstIsLeast
<1>3. CASE via \/ reach[1]
  BY <1>3 DEF ResolverCheckResult, Row
<1>4. CASE ~(via \/ reach[1])
  <2>1. /\ r.status = "warn" /\ r = Row("resolvers", 0, r.status, r.remedy)
        /\ r.remedy = IF second # {} THEN Servers(PromoteResolver(servers, servers[j].addr))
                      ELSE IF candidate # None THEN Servers(<<candidate>> \o servers)
                      ELSE ViaTunnel
    BY <1>4 DEF ResolverCheckResult, Row
  <2>2. QED
    BY <1>2, <1>4, <2>1
<1>5. QED
  BY <1>3, <1>4

-----------------------------------------------------------------------------
(* The staged fetch.                                                        *)

Path == [1..5 -> [ok : BOOLEAN, ms : Nat]]

LEMMA StageNames ==
  /\ \A i \in 1..5 : QStages[i] # ""
  /\ \A i \in 1..4 : SlowMs[i] \in Nat
BY DEF QStages, SlowMs

(* One of the slow stages is the slowest.                                   *)
LEMMA SlowestExists ==
  ASSUME NEW slow \in SUBSET (1..4), slow # {}, NEW path \in Path
  PROVE  \E i \in slow : \A j \in slow : path[j].ms <= path[i].ms
<1> SUFFICES ASSUME \A i \in slow : \E j \in slow : ~(path[j].ms <= path[i].ms)
             PROVE  FALSE
  OBVIOUS
<1> DEFINE m(i) == path[i].ms
<1>1. \A i \in slow : i \in 1..4 /\ m(i) \in Nat
  BY DEF Path
<1>2. \A i \in slow : \E j \in slow : m(i) < m(j)
  BY <1>1
<1> HIDE DEF m
<1>3. PICK a \in slow : TRUE
  OBVIOUS
<1>4. PICK b \in slow : m(a) < m(b)
  BY <1>2
<1>5. PICK c \in slow : m(b) < m(c)
  BY <1>2
<1>6. PICK d \in slow : m(c) < m(d)
  BY <1>2
<1>7. PICK e \in slow : m(d) < m(e)
  BY <1>2
<1>8. a # b /\ a # c /\ a # d /\ a # e /\ b # c /\ b # d /\ b # e /\ c # d /\ c # e /\ d # e
  BY <1>1, <1>4, <1>5, <1>6, <1>7
<1>9. a \in 1..4 /\ b \in 1..4 /\ c \in 1..4 /\ d \in 1..4 /\ e \in 1..4
  BY <1>1
<1>10. QED
  BY <1>8, <1>9

(* The connection quality row is green exactly when every stage succeeds,   *)
(* none is slower than its limit and the throughput reaches the floor.      *)
LEMMA QualityExact ==
  ASSUME NEW path \in Path
  PROVE  LET r == ConnectionQualityCheck(ProbeConnectionQuality(path))
         IN /\ r = Row("connection_quality", 0, r.status, NoRemedy)
            /\ r.status \in {"ok", "warn", "fail"}
            /\ r.status = "ok" <=> /\ \A k \in 1..5 : path[k].ok
                                   /\ \A k \in 1..4 : path[k].ms <= SlowMs[k]
                                   /\ path[5].ms >= ThroughputFloor
<1> DEFINE q == ProbeConnectionQuality(path)
           r == ConnectionQualityCheck(q)
           slow == {i \in 1..4 : Anomalous(path, i)}
           worst == {i \in slow : \A j \in slow : path[j].ms <= path[i].ms}
<1>1. \A i \in 1..5 : path[i].ok \in BOOLEAN /\ path[i].ms \in Nat
  BY DEF Path
<1>2. slow = {} <=> \A k \in 1..4 : path[k].ms <= SlowMs[k]
  <2>1. ASSUME NEW k \in 1..4 PROVE path[k].ms \in Nat /\ SlowMs[k] \in Nat
    <3>1. k \in 1..5
      OBVIOUS
    <3>2. QED
      BY <1>1, <3>1, StageNames, Zenon
  <2>2. \A k \in 1..4 : Anomalous(path, k) <=> path[k].ms > SlowMs[k]
    BY DEF Anomalous
  <2>3. \A k \in 1..4 : Anomalous(path, k) <=> ~(path[k].ms <= SlowMs[k])
    BY <2>1, <2>2
  <2>4. QED
    BY <2>3
<1>3. Anomalous(path, 5) <=> ~(path[5].ms >= ThroughputFloor)
  BY <1>1 DEF Anomalous, ThroughputFloor
<1>4. WorstAnomaly(path) = "" <=> slow = {} /\ ~Anomalous(path, 5)
  <2>1. CASE slow # {}
    <3>1. worst # {} /\ worst \in SUBSET Nat
      <4>1. slow \in SUBSET (1..4)
        OBVIOUS
      <4>2. \E i \in slow : \A j \in slow : path[j].ms <= path[i].ms
        BY <2>1, <4>1, SlowestExists
      <4>3. worst # {}
        BY <4>2
      <4>4. QED
        BY <4>1, <4>3
    <3>2. First(worst) \in 1..5
      BY <3>1, FirstIsLeast
    <3>3. WorstAnomaly(path) = QStages[First(worst)]
      BY <2>1 DEF WorstAnomaly
    <3>4. QED
      BY <2>1, <3>2, <3>3, StageNames
  <2>2. CASE slow = {}
    BY <2>2 DEF WorstAnomaly
  <2>3. QED
    BY <2>1, <2>2
<1>5. /\ q.ok \in BOOLEAN
      /\ q.ok <=> \A k \in 1..5 : path[k].ok
      /\ q.ok => q.bottleneck = WorstAnomaly(path)
  BY <1>1 DEF ProbeConnectionQuality
<1>6. /\ r.status = IF ~q.ok THEN "fail" ELSE IF q.bottleneck # "" THEN "warn" ELSE "ok"
      /\ r = Row("connection_quality", 0, r.status, NoRemedy)
  BY DEF ConnectionQualityCheck, Row
<1>7. r.status = "ok" <=> q.ok /\ WorstAnomaly(path) = ""
  BY <1>5, <1>6
<1>8. QED
  BY <1>2, <1>3, <1>4, <1>5, <1>6, <1>7

-----------------------------------------------------------------------------
(* The network report.                                                      *)

LEMMA TwoElements ==
  ASSUME NEW S, IsFiniteSet(S)
  PROVE  Cardinality(S) >= 2 <=> \E x, y \in S : x # y
<1>1. Cardinality(S) \in Nat
  BY FS_CardinalityType
<1>2. Cardinality(S) = 0 <=> S = {}
  BY FS_EmptySet
<1>3. Cardinality(S) = 1 <=> \E x : S = {x}
  BY FS_Singleton
<1>4. Cardinality(S) >= 2 <=> S # {} /\ ~\E x : S = {x}
  BY <1>1, <1>2, <1>3
<1>5. QED
  BY <1>4

LEMMA NamesFinite ==
  ASSUME NEW domains \in Seq(STRING)
  PROVE  IsFiniteSet({domains[i] : i \in DOMAIN domains})
<1> DEFINE T == {domains[i] : i \in DOMAIN domains}
<1>1. Len(domains) \in Nat /\ DOMAIN domains = 1..Len(domains)
  OBVIOUS
<1>2. IsFiniteSet(1..Len(domains))
  BY <1>1, FS_Interval
<1>3. domains \in Surjection(1..Len(domains), T)
  BY <1>1 DEF Surjection
<1>4. QED
  BY <1>2, <1>3, FS_Surjection

(* The DNS integrity row is green exactly when the trusted channel answers, *)
(* no answer it can vouch for is forged, and no two names share an address. *)
LEMMA IntegrityExact ==
  ASSUME NEW domains \in Seq(STRING), NEW a
  PROVE  LET r == DnsIntegrityCheck(ProbeDNSIntegrity(domains, a))
             names == {domains[i] : i \in DOMAIN domains}
             honest(name, heard) == heard = {} \/ a.truth[name] = None
                                    \/ \E ip \in heard : ip \in a.truth[name]
         IN /\ r = Row("dns_integrity", 0, r.status, NoRemedy)
            /\ r.status \in {"ok", "warn"}
            /\ r.status = "ok" <=>
                 /\ a.truth["control"] # None
                 /\ honest(domains[1], a.udp)
                 /\ \A d \in names : /\ honest(d, a.os[d])
                                      /\ \A e \in names \ {d} : a.os[d] \cap a.os[e] = {}
<1> DEFINE names == {domains[i] : i \in DOMAIN domains}
           honest(name, heard) == heard = {} \/ a.truth[name] = None
                                  \/ \E ip \in heard : ip \in a.truth[name]
           forged(name, got) == /\ a.truth[name] # None /\ got # {}
                                /\ got \cap a.truth[name] = {}
           sharing(ip) == {d \in names : ip \in a.os[d]}
           p == ProbeDNSIntegrity(domains, a)
           r == DnsIntegrityCheck(p)
<1>1. /\ r = Row("dns_integrity", 0, r.status, NoRemedy)
      /\ r.status = IF ~p.works \/ p.poisoned # {} \/ p.stubs # {} \/ p.hijacked
                    THEN "warn" ELSE "ok"
  BY DEF DnsIntegrityCheck, Row
<1>2. \A name, heard : honest(name, heard) <=> ~forged(name, heard)
  OBVIOUS
<1>3. CASE a.truth["control"] = None
  <2>1. ~p.works
    BY <1>3 DEF ProbeDNSIntegrity
  <2>2. QED
    BY <1>1, <1>3, <2>1
<1>4. CASE a.truth["control"] # None
  <2>1. /\ p.works = TRUE
        /\ p.poisoned = {d \in names : forged(d, a.os[d])}
        /\ p.stubs = {ip \in UNION {a.os[d] : d \in names} : Cardinality(sharing(ip)) >= 2}
        /\ p.hijacked = forged(domains[1], a.udp)
    BY <1>4 DEF ProbeDNSIntegrity
  <2>2. p.poisoned = {} <=> \A d \in names : honest(d, a.os[d])
    BY <1>2, <2>1
  <2>3. \A ip : Cardinality(sharing(ip)) >= 2 <=> \E x, y \in sharing(ip) : x # y
    <3>1. \A ip : IsFiniteSet(sharing(ip))
      BY NamesFinite, FS_Subset
    <3>2. ASSUME NEW ip
          PROVE  Cardinality(sharing(ip)) >= 2 <=> \E x, y \in sharing(ip) : x # y
      <4> HIDE DEF sharing
      <4>1. IsFiniteSet(sharing(ip))
        BY <3>1, Zenon
      <4>2. QED
        BY <4>1, TwoElements
    <3>3. QED
      BY <3>2, Zenon
  <2>4. p.stubs = {} <=> \A d \in names : \A e \in names \ {d} : a.os[d] \cap a.os[e] = {}
    <3>1. ASSUME p.stubs = {}, NEW d \in names, NEW e \in names \ {d}, NEW ip \in a.os[d] \cap a.os[e]
          PROVE  FALSE
      <4>1. ip \in UNION {a.os[x] : x \in names} /\ d \in sharing(ip) /\ e \in sharing(ip) /\ d # e
        BY <3>1
      <4>2. Cardinality(sharing(ip)) >= 2
        BY <2>3, <4>1
      <4>3. QED
        BY <2>1, <3>1, <4>1, <4>2
    <3>2. ASSUME \A d \in names : \A e \in names \ {d} : a.os[d] \cap a.os[e] = {}, NEW ip \in p.stubs
          PROVE  FALSE
      <4>1. Cardinality(sharing(ip)) >= 2
        BY <2>1
      <4>2. PICK x, y \in sharing(ip) : x # y
        <5>1. IsFiniteSet(sharing(ip))
          BY NamesFinite, FS_Subset
        <5> HIDE DEF sharing
        <5>2. QED
          BY <4>1, <5>1, TwoElements
      <4>3. QED
        BY <3>2, <4>2
    <3>3. QED
      BY <3>1, <3>2
  <2>5. QED
    BY <1>1, <1>2, <1>4, <2>1, <2>2, <2>4
<1>5. QED
  BY <1>1, <1>3, <1>4
=============================================================================
