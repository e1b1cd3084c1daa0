---------------------------- MODULE ProfileStore ----------------------------
(***************************************************************************)
(* The stored profiles: the verbs that edit them, the refresh that         *)
(* replaces a subscription's nodes, and the background sweep that fetches  *)
(* with no lock held and lands on whatever the profile has become.         *)
(*                                                                         *)
(* Every verb loads, mutates and saves one profile under manager.mu, and a *)
(* save is one atomic rename, so a verb is one action; one that fails      *)
(* before or in its save leaves the file as it was.  The sweep's snapshot  *)
(* and each of its landings are actions of their own.                      *)
(***************************************************************************)
EXTENDS Naturals, FiniteSets

CONSTANTS
    Profile,     \* profile names
    NodeId,      \* node UUIDs that uuid.New may mint
    SubId,       \* subscription UUIDs
    RoutingId,   \* routing config UUIDs
    Key,         \* prefsKey: what makes two parsed nodes the same node
    GName,       \* group names
    RName,       \* routing config names ValidateName accepts
    Url,         \* subscription URLs
    Core,        \* the cores a node may be pinned to
    Body,        \* the parsed bodies a provider may serve
    Interval,    \* the refresh intervals clients ask for, in seconds
    OldFile,     \* the files an earlier process may have left behind
    Faults,      \* "save": writing a profile may fail
    None

DefaultUpdateIntervalSec == 28800
MinUpdateIntervalSec     == 600
legacyUpdateIntervalSec  == 86400

(* subscription.Outcome: the nodes it names, at least one and each once,   *)
(* and the members of its groups (a group with none is not there).         *)
Outcome == [keys : SUBSET Key \ {{}}, groups : [GName -> SUBSET Key]]

(* The id derived for a provider group, from its subscription and name.    *)
GroupId == SubId \X GName

(* store.Node.  A group's key is its name; a dialable node has no members. *)
Node == [id      : NodeId \cup GroupId,
         sub     : SubId \cup {None},
         key     : Key \cup GName,
         pin     : Core \cup {None},
         members : SUBSET NodeId,
         ofSub   : SubId \cup {None}]

(* store.Subscription; error is the URL whose fetch or parse failed last.  *)
Subscription == [id : SubId, url : Url, interval : Nat, error : Url \cup {None}]

(* One profile file.                                                       *)
File == [version  : {2, 3},
         active   : NodeId \cup GroupId \cup {None},
         subs     : SUBSET Subscription,
         nodes    : SUBSET Node,
         routings : SUBSET [id : RoutingId, name : RName],
         routing  : RoutingId \cup {None}]

ASSUME StoreAssumption ==
    /\ Key \cap GName = {} /\ NodeId \cap GroupId = {}
    /\ Body \subseteq Outcome
    /\ \A b \in Body : \A g \in GName : b.groups[g] \subseteq b.keys
    /\ Interval \subseteq Nat
    /\ OldFile \subseteq File /\ None \notin File
    /\ None \notin NodeId /\ None \notin SubId /\ None \notin RoutingId
    /\ None \notin Url /\ None \notin Core /\ None \notin Body
    /\ "default" \in RName
    /\ Faults \subseteq {"save"}

VARIABLES
    files,     \* profiles/<name>.json
    current,   \* state.json: the active profile
    sweep,     \* the sweep under way: its profile and the snapshots left to land
    notices,   \* the subscription_updated events the last step published
    chosen,    \* history: the interval the user chose for a subscription
    taken      \* history: ids remove_node took out that a group still lists

vars == <<files, current, sweep, notices, chosen, taken>>

(* Nodes are keyed by id and a subscription's also by what a refresh       *)
(* matches them on, subscriptions by id, routing configs by id and by name.*)
Keyed(f) ==
    /\ \A m, n \in f.nodes :
          m.id = n.id \/ (m.sub # None /\ m.sub = n.sub /\ m.key = n.key) => m = n
    /\ \A s, t \in f.subs : s.id = t.id => s = t
    /\ \A r, q \in f.routings : r.id = q.id \/ r.name = q.name => r = q

(* Type invariant; every stored profile keeps its keys unique (collect,    *)
(* reconcile, AddRouting, ReplaceRoutingByID).                             *)
TypeOK ==
    /\ files \in [Profile -> File \cup {None}]
    /\ \A p \in Profile : files[p] # None => Keyed(files[p])
    /\ current \in Profile \cup {None}
    /\ sweep \in [profile : Profile, due : SUBSET Subscription] \cup {None}
    /\ notices \subseteq [profile : Profile, sub : SubId, keys : SUBSET Key]
    /\ chosen \in [SubId -> Nat \cup {None}]
    /\ taken \subseteq NodeId

-----------------------------------------------------------------------------
Ids(f) == {n.id : n \in f.nodes}
SubIds(f) == {s.id : s \in f.subs}
IsGroup(n) == n.key \in GName
Dialable(f) == {n \in f.nodes : ~IsGroup(n)}
Listed(f) == UNION {n.members : n \in f.nodes}

(* What a profile file holds fits together: the selections name something  *)
(* in it, nodes belong to a subscription in it, provider groups list nodes *)
(* of their subscription but for the ids in gone, errors are of the URL.   *)
Selects(f) ==
    /\ f.active \in Ids(f) \cup {None}
    /\ f.routing \in {r.id : r \in f.routings} \cup {None}

Parented(f) == \A n \in f.nodes : n.sub \in SubIds(f) \cup {None}

DialableOf(f, s) == {n.id : n \in {m \in Dialable(f) : m.sub = s}}

GroupsMeet(f, gone) ==
    \A g \in f.nodes : IsGroup(g) /\ g.sub # None => g.members \subseteq DialableOf(f, g.sub) \cup gone

ErrorsMatch(f) == \A s \in f.subs : s.error \in {None, s.url}

(* An id is a UUID, but for a provider group's: derived, or the UUID that  *)
(* was minted for it before the derivation, which reconcile keeps.         *)
Shaped(n) == n.id \in NodeId \/ (IsGroup(n) /\ n.sub # None /\ n.id = <<n.sub, n.key>>)

SoundFile(f) ==
    /\ Keyed(f) /\ \A n \in f.nodes : Shaped(n)
    /\ Selects(f) /\ Parented(f) /\ ErrorsMatch(f)

(* The daemon before this one kept its files as this one does: a provider  *)
(* group may list ids that remove_node took out, which no node has.        *)
ASSUME OldFileAssumption == \A f \in OldFile : SoundFile(f) /\ GroupsMeet(f, NodeId \ Ids(f))

Present == {p \in Profile : files[p] # None}

(* uuid.New: an id that nothing refers to.                                 *)
FreshNode == NodeId \ UNION {Ids(files[p]) \cup Listed(files[p]) : p \in Present}

FreshSub ==
    {s \in SubId :
        /\ sweep # None => \A d \in sweep.due : d.id # s
        /\ \A p \in Present : /\ s \notin SubIds(files[p])
                              /\ \A n \in files[p].nodes : s \notin {n.sub, n.ofSub}}

FreshRouting == RoutingId \ UNION {{r.id : r \in files[p].routings} : p \in Present}

(* LoadProfile: a v2 file's interval of 0 or of the old default was never  *)
(* chosen by anyone.                                                       *)
migrateSubscriptionIntervals(subs) ==
    {[s EXCEPT !.interval = IF @ \in {0, legacyUpdateIntervalSec}
                            THEN DefaultUpdateIntervalSec ELSE @] : s \in subs}

Loaded(f) ==
    IF f.version < 3
    THEN [f EXCEPT !.subs = migrateSubscriptionIntervals(@), !.version = 3]
    ELSE f

LoadProfile(p) == Loaded(files[p])

(* Ids taken out are remembered while a stored group lists them.           *)
StillListed(ids) ==
    {i \in ids : \E p \in Profile : files'[p] # None /\ i \in Listed(files'[p])}

SaveUnstamped(p, f, gone) ==
    /\ files' = [files EXCEPT ![p] = [f EXCEPT !.version = files[p].version]]
    /\ taken' = StillListed(taken \cup gone)
    /\ UNCHANGED <<current, sweep>>

(* SaveProfile: always the current schema, as loaded and mutated.          *)
Save(p, f, gone) ==
    /\ files' = [files EXCEPT ![p] = f]
    /\ taken' = StillListed(taken \cup gone)
    /\ UNCHANGED <<current, sweep>>

(* withProfile around a mutation that publishes nothing.                   *)
Edit(p, f) == Save(p, f, {}) /\ notices' = {} /\ UNCHANGED chosen

(* SetActiveNodeIfUnset after a change of the node set: the first dialable *)
(* node in store order, which is not modelled, so any of them.             *)
Elected(f) ==
    LET kept == f.active \in Ids(f)
    IN  IF kept \/ Dialable(f) = {}
        THEN {[f EXCEPT !.active = IF kept THEN @ ELSE None]}
        ELSE {[f EXCEPT !.active = n.id] : n \in Dialable(f)}

-----------------------------------------------------------------------------
(* The profile verbs.                                                      *)

CreateProfile(p) ==
    /\ files[p] = None
    /\ \E r \in FreshRouting :
          files' = [files EXCEPT ![p] =
             [version |-> 3, active |-> None, subs |-> {}, nodes |-> {},
              routings |-> {[id |-> r, name |-> "default"]}, routing |-> r]]
    /\ notices' = {}
    /\ UNCHANGED <<current, sweep, chosen, taken>>

(* The file goes first; a failed write of state.json, or a crash before    *)
(* it, leaves the selection dangling.                                      *)
DeleteProfile(p) ==
    /\ files[p] # None
    /\ files' = [files EXCEPT ![p] = None]
    /\ current' \in IF current = p THEN {None, p} ELSE {current}
    /\ chosen' = [s \in SubId |-> IF s \in SubIds(files[p]) THEN None ELSE chosen[s]]
    /\ taken' = StillListed(taken)
    /\ notices' = {}
    /\ UNCHANGED sweep

SetActiveProfile(p) ==
    /\ files[p] # None
    /\ current' = p /\ notices' = {}
    /\ UNCHANGED <<files, sweep, chosen, taken>>

-----------------------------------------------------------------------------
(* The node and group verbs.  A ref names a node by id or by display name, *)
(* so it may resolve to any of them.                                       *)

SelectNode(p) ==
    LET f == LoadProfile(p)
    IN  \E n \in f.nodes : Edit(p, [f EXCEPT !.active = n.id])

NewNode(id, s, k) ==
    [id |-> id, sub |-> s, key |-> k, pin |-> None, members |-> {}, ofSub |-> None]

AddNode(p) ==
    LET f == LoadProfile(p)
    IN  \E i \in FreshNode, k \in Key :
           \E g \in Elected([f EXCEPT !.nodes = @ \cup {NewNode(i, None, k)}]) :
              Edit(p, g)

RemoveNodeOnly(p) ==
    LET f == LoadProfile(p)
    IN  \E n \in f.nodes :
           Save(p, [f EXCEPT !.nodes = @ \ {n}], {n.id} \cap NodeId)
             /\ notices' = {} /\ UNCHANGED chosen

(* RemoveNodeByID: the selection is cleared, never moved.                  *)
RemoveNode(p) ==
    LET f == LoadProfile(p)
    IN  \E n \in f.nodes :
           /\ Save(p, [f EXCEPT !.nodes = {m \in @ : m.id # n.id},
                                !.active = IF @ = n.id THEN None ELSE @],
                   {n.id} \cap NodeId)
           /\ notices' = {} /\ UNCHANGED chosen

SetNodePrefs(p) ==
    LET f == LoadProfile(p)
    IN  \E n \in Dialable(f), c \in Core \cup {None} :
           Edit(p, [f EXCEPT !.nodes = (@ \ {n}) \cup {[n EXCEPT !.pin = c]}])

(* upsert_group: explicit dialable members, or all of a subscription.      *)
UpsertGroup(p) ==
    LET f == LoadProfile(p)
        spec(g) == \/ g.ofSub = None /\ g.members # {}
                   \/ g.ofSub \in SubIds(f) /\ g.members = {}
    IN  \E g \in [id : FreshNode \cup {n.id : n \in {m \in f.nodes : IsGroup(m) /\ m.sub = None}},
                  sub : {None}, key : GName, pin : {None},
                  members : SUBSET {n.id : n \in Dialable(f)}, ofSub : SubIds(f) \cup {None}] :
           /\ spec(g)
           /\ Edit(p, [f EXCEPT !.nodes = {m \in @ : m.id # g.id} \cup {g}])

-----------------------------------------------------------------------------
(* Refresh: what Apply makes of the fetched subscriptions.  An outcome is  *)
(* a parsed body, or None for an error; mint gives each parsed node its    *)
(* fresh UUID.                                                             *)

Landed(out) == {s \in DOMAIN out : out[s] # None}

reconcileNothing(f, s, new) == new

(* reconcile: the same node keeps its id and its pin.                      *)
Matching(f, s, m) == {n \in f.nodes : n.sub = s /\ n.key = m.key}

Carried(f, s, m) ==
    IF Matching(f, s, m) = {} THEN m
    ELSE LET o == CHOOSE o \in Matching(f, s, m) : TRUE
         IN  [m EXCEPT !.id = o.id, !.pin = o.pin]

reconcile(f, s, new) == {Carried(f, s, m) : m \in new}

materializeGroupsByKey(s, body, nodes) ==
    {[NewNode(<<s, g>>, s, g) EXCEPT !.members = body.groups[g]] :
     g \in {h \in GName : body.groups[h] # {}}}

MembersOf(body, g, nodes) == {n.id : n \in {m \in nodes : m.key \in body.groups[g]}}

materializeGroups(s, body, nodes) ==
    {[NewNode(<<s, g>>, s, g) EXCEPT !.members = MembersOf(body, g, nodes)] :
     g \in {h \in GName : body.groups[h] # {}}}

RefreshedTooEarly(f, s, body, mint) ==
    LET parsed == {NewNode(mint[<<s, k>>], s, k) : k \in body.keys}
    IN  reconcile(f, s, parsed) \cup reconcile(f, s, materializeGroups(s, body, parsed))

(* Members are resolved once the dialable nodes have their final ids.      *)
RefreshedNodes(f, s, body, mint) ==
    LET parsed == reconcile(f, s, {NewNode(mint[<<s, k>>], s, k) : k \in body.keys})
    IN  parsed \cup reconcile(f, s, materializeGroups(s, body, parsed))

(* Apply, for every subscription in out: an error of the URL fetched is    *)
(* recorded and the nodes stay.                                            *)
Apply(f, from, out, mint) ==
    LET ok == Landed(out)
        g  == [f EXCEPT
                 !.subs  = {IF s.id \in DOMAIN out
                            THEN [s EXCEPT !.error = IF s.id \in ok THEN None ELSE from[s.id]]
                            ELSE s : s \in @},
                 !.nodes = {n \in @ : n.sub \notin ok}
                              \cup UNION {RefreshedNodes(f, s, out[s], mint) : s \in ok}]
    IN  IF ok = {} THEN {g} ELSE Elected(g)

(* The outcomes of fetching the subscriptions in S, and the ids minted for *)
(* their nodes, each used once.                                            *)
Outcomes(S) == [S -> Body \cup {None}]

Parsed(out) == {x \in Landed(out) \X Key : x[2] \in out[x[1]].keys}

Minted(out) == {m \in [Parsed(out) -> FreshNode] :
                   \A x, y \in Parsed(out) : m[x] = m[y] => x = y}

(* publishRefreshLocked: one event per success.                            *)
Notices(p, out) == {[profile |-> p, sub |-> s, keys |-> out[s].keys] : s \in Landed(out)}

UrlsOf(subs) == [i \in {s.id : s \in subs} |-> (CHOOSE s \in subs : s.id = i).url]

(* A refreshing verb publishes inside withProfile, before the save.        *)
RefreshVerb(p, f, out) ==
    /\ notices' = Notices(p, out)
    /\ UNCHANGED chosen
    /\ \/ \E mint \in Minted(out) : \E g \in Apply(f, UrlsOf(f.subs), out, mint) : Save(p, g, {})
       \/ "save" \in Faults /\ UNCHANGED <<files, current, sweep, taken>>

-----------------------------------------------------------------------------
(* The subscription verbs.                                                 *)

NewSubscription(id, u) ==
    [id |-> id, url |-> u, interval |-> DefaultUpdateIntervalSec, error |-> None]

(* The initial fetch may fail; the subscription stays.                     *)
AddSubscription(p) ==
    LET f == LoadProfile(p)
    IN  \E s \in FreshSub, u \in Url :
           /\ \A t \in f.subs : t.url # u
           /\ \E out \in Outcomes({s}) :
                 RefreshVerb(p, [f EXCEPT !.subs = @ \cup {NewSubscription(s, u)}], out)

(* All the enabled subscriptions, or those an id or a name matches.        *)
RefreshSubscriptions(p) ==
    LET f == LoadProfile(p)
    IN  \E S \in SUBSET SubIds(f) \ {{}} : \E out \in Outcomes(S) : RefreshVerb(p, f, out)

(* RemoveSubscription: its nodes go with it.                               *)
RemoveSubscription(p) ==
    LET f == LoadProfile(p)
    IN  \E s \in f.subs :
           /\ \E g \in Elected([f EXCEPT !.subs = @ \ {s},
                                         !.nodes = {n \in @ : n.sub # s.id}]) :
                 Save(p, g, {})
           /\ chosen' = [chosen EXCEPT ![s.id] = None]
           /\ notices' = {}

(* update_subscription, the URL and the interval: fields left out stay,    *)
(* a new URL drops the error of the old one.                               *)
UpdateSubscription(p) ==
    LET f == LoadProfile(p)
    IN  \E s \in f.subs, u \in Url, i \in Interval \cup {None} :
           /\ i # None => i >= MinUpdateIntervalSec
           /\ Save(p, [f EXCEPT !.subs = (@ \ {s}) \cup
                         {[s EXCEPT !.url = u,
                                    !.error = IF u = s.url THEN @ ELSE None,
                                    !.interval = IF i = None THEN @ ELSE i]}], {})
           /\ chosen' = IF i = None THEN chosen ELSE [chosen EXCEPT ![s.id] = i]
           /\ notices' = {}

-----------------------------------------------------------------------------
(* The routing verbs.                                                      *)

SelectRouting(p) ==
    LET f == LoadProfile(p)
    IN  \E r \in f.routings : Edit(p, [f EXCEPT !.routing = r.id])

(* AddRouting or ReplaceRoutingByID, by whether the id is there.           *)
UpsertRouting(p) ==
    LET f == LoadProfile(p)
    IN  \E i \in RoutingId, m \in RName :
           /\ \A r \in f.routings : r.id # i => r.name # m
           /\ Edit(p, [f EXCEPT !.routings = {r \in @ : r.id # i} \cup {[id |-> i, name |-> m]}])

RemoveRouting(p) ==
    LET f == LoadProfile(p)
    IN  \E r \in f.routings :
           Edit(p, [f EXCEPT !.routings = @ \ {r},
                             !.routing = IF @ = r.id THEN None ELSE @])

-----------------------------------------------------------------------------
(* The background sweep.  Which of the active profile's subscriptions are  *)
(* due depends on the clock and the backoff, so any may be.                *)
Sweep ==
    /\ sweep = None /\ current # None /\ files[current] # None
    /\ \E due \in SUBSET LoadProfile(current).subs \ {{}} :
          sweep' = [profile |-> current, due |-> due]
    /\ notices' = {}
    /\ UNCHANGED <<files, current, chosen, taken>>

AppliesById(p, d) == files[p] # None /\ d.id \in SubIds(files[p])

AppliesAnyway(p, d) == files[p] # None

(* Apply's drift check: the subscription is still there and still points   *)
(* at the URL that was fetched.                                            *)
Applies(p, d) == files[p] # None /\ \E s \in files[p].subs : s.id = d.id /\ s.url = d.url

(* landSubscriptionFetch: the fetched snapshot d meets the profile as it   *)
(* is now; the event follows the save.                                     *)
Land(d) ==
    LET p == sweep.profile
    IN  /\ sweep' = IF sweep.due = {d} THEN None ELSE [sweep EXCEPT !.due = @ \ {d}]
        /\ UNCHANGED <<current, chosen>>
        /\ \/ /\ ~Applies(p, d) \/ "save" \in Faults
              /\ notices' = {} /\ UNCHANGED <<files, taken>>
           \/ /\ Applies(p, d)
              /\ \E out \in Outcomes({d.id}) : \E mint \in Minted(out) :
                    \E g \in Apply(LoadProfile(p), UrlsOf({d}), out, mint) :
                       /\ files' = [files EXCEPT ![p] = g]
                       /\ taken' = StillListed(taken)
                       /\ notices' = Notices(p, out)

(* The daemon stops or dies: a fetch under way is not landed.              *)
Restart ==
    /\ sweep' = None /\ notices' = {}
    /\ UNCHANGED <<files, current, chosen, taken>>

Init ==
    /\ files \in [Profile -> OldFile \cup {None}]
    /\ \A p, q \in Present : p # q => SubIds(files[p]) \cap SubIds(files[q]) = {}
    /\ current \in Profile \cup {None}
    /\ sweep = None /\ notices = {}
    /\ taken = UNION {Listed(files[p]) \ Ids(files[p]) : p \in Present}
    /\ chosen = [s \in SubId |->
          IF \E p \in Present : \E t \in files[p].subs :
                t.id = s /\ t.interval \notin {0, legacyUpdateIntervalSec}
          THEN (CHOOSE t \in UNION {files[p].subs : p \in Present} : t.id = s).interval
          ELSE None]

Verb(p) ==
    \/ SelectNode(p) \/ AddNode(p) \/ RemoveNode(p) \/ SetNodePrefs(p) \/ UpsertGroup(p)
    \/ AddSubscription(p) \/ RefreshSubscriptions(p) \/ RemoveSubscription(p)
    \/ UpdateSubscription(p)
    \/ SelectRouting(p) \/ UpsertRouting(p) \/ RemoveRouting(p)

Next ==
    \/ \E p \in Profile : CreateProfile(p) \/ DeleteProfile(p) \/ SetActiveProfile(p)
    \/ \E p \in Present : Verb(p)
    \/ Sweep
    \/ \E d \in (IF sweep = None THEN {} ELSE sweep.due) : Land(d)
    \/ Restart

Spec == Init /\ [][Next]_vars

-----------------------------------------------------------------------------
(* The active selections of a stored profile name a node and a routing     *)
(* config it holds, whatever verbs and refreshes came before               *)
(* (RemoveNodeByID, ReplaceSubscriptionNodes, RemoveRouting).              *)
SelectionsResolve == \A p \in Present : Selects(files[p])

(* A node of a subscription never outlives it: not when it is removed      *)
(* while its fetch is under way, nor when its profile is deleted and made  *)
(* anew (RemoveSubscription, Apply).                                       *)
NoOrphans == \A p \in Present : Parented(files[p])

(* Every member a provider group lists is a dialable node of its own       *)
(* subscription, or one the user removed: no refresh leaves a group on ids *)
(* nobody has (materializeGroups after reconcile).                         *)
GroupsResolve == \A p \in Present : GroupsMeet(files[p], taken)

(* The error shown for a subscription is of the URL it points at: one that *)
(* is re-pointed during a fetch does not inherit the old URL's error       *)
(* (Apply, update_subscription).                                           *)
ErrorOfUrl == \A p \in Present : ErrorsMatch(files[p])

(* An interval the user chose survives every load, save, refresh and       *)
(* schema migration, also when it equals the old default ("a deliberate    *)
(* 24 h must stay 24 h", migrateSubscriptionIntervals).                    *)
IntervalStays ==
    \A p \in Present : \A s \in LoadProfile(p).subs :
       chosen[s.id] # None => s.interval = chosen[s.id]

(* A subscription's node that a step leaves in place keeps its id, and     *)
(* keeps its pin across a refresh (reconcile), so the selection, the       *)
(* routing targets and the pins survive any refresh that still has it.     *)
IdentityKept ==
    [][\A p \in Present : files'[p] # None =>
          \A n \in files[p].nodes, m \in files'[p].nodes :
             n.sub # None /\ n.sub = m.sub /\ n.key = m.key =>
                m.id = n.id /\ (notices' # {} => m.pin = n.pin)]_vars

(* "duplicate subscription URLs rejected".                                 *)
UrlsUnique ==
    \A p \in Present : \A s, t \in files[p].subs : s.url = t.url => s = t

-----------------------------------------------------------------------------
(* What the proofs rest on: every file is sound, a subscription is in one  *)
(* profile only, and an interval is remembered for stored subscriptions.   *)
FilesSound == \A p \in Present : SoundFile(files[p])

SubsApart ==
    \A p, q \in Present : p # q => SubIds(files[p]) \cap SubIds(files[q]) = {}

ChosenStored == \A s \in SubId : chosen[s] # None => \E p \in Present : s \in SubIds(files[p])

StoreInv == TypeOK /\ FilesSound /\ GroupsResolve /\ SubsApart /\ ChosenStored /\ IntervalStays
=============================================================================
