------------------------------- MODULE Session -------------------------------
(***************************************************************************)
(* The daemon's session manager: the at most one running engine session,   *)
(* the activation context it was started from, and the last-session record *)
(* a restart restores it from.                                             *)
(*                                                                         *)
(* manager.mu is held across engine Start and Close, so everything a verb  *)
(* does while it holds mu is one action.  What a verb does with mu         *)
(* released is an action of its own: an activation is PREPARED with no     *)
(* lock held (names resolved, the plan built from the stored profile) and  *)
(* STARTED later under mu, and a reconnect is decided under mu, prepared   *)
(* without it and started under mu again.  Any other verb, the background  *)
(* refresh, the startup restore, a shutdown or a crash may come between.   *)
(***************************************************************************)
EXTENDS Naturals

CONSTANTS
    Profile,     \* stored profiles
    Node,        \* node ids (UUIDs), dialable nodes and groups
    Group,       \* the ids that are groups
    Name,        \* display names; they may collide
    Body,        \* what a node dials: its document and the core it is pinned to
    Dialable,    \* the bodies some core can dial
    Selects,     \* the node ids a group's body resolves to
    Targets,     \* the sets of groups a routing may target
    Stored,      \* the node sets saves may leave in a profile
    Mode,        \* the modes this daemon may start ("tun" needs privileges)
    Client,      \* control connections; each handles one request at a time
    SessId,      \* session identities: the addresses of engine.Session values
    Faults,      \* the operations that may fail in this instance
    None,        \* "no value" (Go's nil)
    MaxEdits     \* bound: saved profile changes

Doc == [name : Name, body : Body]

(* The nodes of one stored profile.                                        *)
NodeSet == [Node -> Doc \cup {None}]

(* engine.SessionPlan: the node it was compiled around, the dialable       *)
(* members embedded, the groups lowered to urltests over some of them, and *)
(* the groups its routing targets.                                         *)
Lowered == [name : Name, of : SUBSET Node]

Plan == [base    : Node,
         members : [Node \ Group -> Doc \cup {None}],
         groups  : [Group -> Lowered \cup {None}],
         targets : SUBSET Group]

(* api.PersistedEntry: the activation context, in memory and on disk.      *)
Context == [profile : Profile, node : Node, name : Name, mode : Mode]

Request == [profile : Profile, ref : Node \cup Name, mode : Mode]

(* A prepared activation.                                                  *)
Activation == [context : Context, plan : Plan]

(* What a reconnect was decided against.                                   *)
Decision == [sess : SessId, selection : Node]

Task == Client \cup {"restore", "sweep"}

TaskState == [pc   : {"idle", "load", "prepare", "start"},
              req  : Request \cup {None},
              prep : Activation \cup {None},
              rc   : Decision \cup {None}]

IdleTask == [pc |-> "idle", req |-> None, prep |-> None, rc |-> None]

(* A State event as broadcast: whether a session runs, and its context.    *)
StateEvent == [running : BOOLEAN, active : Context \cup {None}]

IdleEvent == [running |-> FALSE, active |-> None]

ASSUME SessionAssumption ==
    /\ Group \subseteq Node
    /\ Dialable \subseteq Body
    /\ Selects \in [Body -> SUBSET Node]
    /\ Targets \subseteq SUBSET Group
    /\ Stored \subseteq NodeSet
    /\ Node \cap Name = {}
    /\ Faults \subseteq {"start", "close", "record", "profile"}
    /\ MaxEdits \in Nat
    /\ None \notin Node /\ None \notin Name /\ None \notin SessId
    /\ None \notin Doc /\ None \notin Lowered /\ None \notin Plan /\ None \notin Context
    /\ None \notin Request /\ None \notin Activation /\ None \notin Decision

VARIABLES
    proc,       \* "up", "stopping" (shutdown() has closed the session) or "down"
    sess,       \* m.sess: the running session
    plan,       \* m.plan
    active,     \* m.active
    live,       \* the running selector's current member (engine)
    open,       \* engine sessions started and not closed: the TUN, the routes
    task,       \* the requests and background jobs under way
    published,  \* the last State event broadcast
    nodes,      \* the stored profiles
    record,     \* last_session.json
    cache,      \* the selector's persisted selection in cache.db
    edits,      \* saved profile changes so far
    stopped     \* history: the last client command that took effect was a stop

engine == <<sess, plan, active, live, open>>
disk   == <<nodes, record, cache, edits>>
vars   == <<proc, sess, plan, active, live, open, task, published,
            nodes, record, cache, edits, stopped>>

TypeOK ==
    /\ proc \in {"up", "stopping", "down"}
    /\ sess \in SessId \cup {None}
    /\ plan \in Plan \cup {None}
    /\ active \in Context \cup {None}
    /\ live \in Node \cup {None}
    /\ open \subseteq SessId
    /\ task \in [Task -> TaskState]
    /\ published \in StateEvent
    /\ nodes \in [Profile -> NodeSet]
    /\ record \in Context \cup {None}
    /\ cache \in Node \cup {None}
    /\ edits \in Nat
    /\ stopped \in BOOLEAN

-----------------------------------------------------------------------------
(* Resolving nodes and building plans.                                     *)

Present(ns, n) == ns[n] # None

(* store.Profile.FindNodeByName: a dialable node beats a group.  The first *)
(* in store order wins a collision; the order is not modelled, so any may. *)
NodesNamed(ns, m) ==
    LET named(S) == {n \in S : Present(ns, n) /\ ns[n].name = m}
    IN  IF named(Node \ Group) # {} THEN named(Node \ Group) ELSE named(Group)

(* store.Profile.FindNode: by id, else by name; empty = not found.         *)
FindNode(ns, ref) ==
    IF ref \in Node /\ Present(ns, ref) THEN {ref} ELSE NodesNamed(ns, ref)

(* buildPlan: every dialable node is embedded.                             *)
Members(ns) ==
    [n \in Node \ Group |->
        IF Present(ns, n) /\ ns[n].body \in Dialable THEN ns[n] ELSE None]

(* resolveGroupMemberIDs, filtered to the embedded members.                *)
GroupMembers(ns, g) ==
    {n \in Node \ Group : Present(Members(ns), n) /\ n \in Selects[ns[g].body]}

(* The active group and the groups the routing targets are lowered; one    *)
(* with no embedded member is not, and a target left unresolved falls back *)
(* to the selector.                                                        *)
BuildPlan(ns, base, targets) ==
    [base    |-> base,
     members |-> Members(ns),
     groups  |-> [g \in Group |->
                    IF /\ g \in targets \cup {base}
                       /\ Present(ns, g)
                       /\ GroupMembers(ns, g) # {}
                    THEN [name |-> ns[g].name, of |-> GroupMembers(ns, g)]
                    ELSE None],
     targets |-> targets]

(* buildPlan's errors: the active node is not dialable, or the active      *)
(* group has no dialable member.                                           *)
Plannable(ns, base) ==
    /\ Present(ns, base)
    /\ IF base \in Group THEN GroupMembers(ns, base) # {}
                         ELSE Present(Members(ns), base)

IsMember(p, n) ==
    IF n \in Group THEN Present(p.groups, n) ELSE Present(p.members, n)

(* SessionPlan.MemberTagForName: dialable members first, then the groups.  *)
MembersNamed(p, m) ==
    LET named == {n \in Node \ Group : Present(p.members, n) /\ p.members[n].name = m}
    IN  IF named # {} THEN named
        ELSE {g \in Group : Present(p.groups, g) /\ p.groups[g].name = m}

(* SessionPlan.DisplayNameForTag.                                          *)
DisplayName(p, n) ==
    IF n \in Group THEN p.groups[n].name ELSE p.members[n].name

(* planMembersEqual: the same members by id and document, the same groups  *)
(* over the same members; labels do not count.                             *)
PlanMembersEqual(a, b) ==
    /\ \A n \in Node \ Group :
          /\ Present(a.members, n) <=> Present(b.members, n)
          /\ Present(a.members, n) => a.members[n].body = b.members[n].body
    /\ \A g \in Group :
          /\ Present(a.groups, g) <=> Present(b.groups, g)
          /\ Present(a.groups, g) => a.groups[g].of = b.groups[g].of

RelabelNothing(p, fresh) == p

(* relabelPlanLocked, the plan: the labels of fresh, nothing else.         *)
Relabel(p, fresh) ==
    [p EXCEPT !.members = [n \in Node \ Group |->
                  IF Present(p.members, n) /\ Present(fresh.members, n)
                  THEN [p.members[n] EXCEPT !.name = fresh.members[n].name]
                  ELSE p.members[n]],
              !.groups = [g \in Group |->
                  IF Present(p.groups, g) /\ Present(fresh.groups, g)
                  THEN [p.groups[g] EXCEPT !.name = fresh.groups[g].name]
                  ELSE p.groups[g]]]

-----------------------------------------------------------------------------
(* What every transition under mu ends with.                               *)

(* SaveLastSession / ClearLastSession, best effort: a failed write leaves  *)
(* the record as it was.                                                   *)
WriteRecord(r) ==
    \/ record' = r
    \/ "record" \in Faults /\ record' = record

BroadcastStateBefore ==
    published' = [running |-> sess # None, active |-> active]

(* broadcastStateLocked: the state after the transition.                   *)
BroadcastState == published' = [running |-> sess' # None, active |-> active']

(* The engine's own start: the selector comes up on the selection cached   *)
(* in cache.db when that is a member of the new plan, else on the default. *)
RestoredSelection(p) ==
    IF cache \in Node /\ IsMember(p, cache) THEN cache ELSE p.base

LiveAfterStartUnpinned(p) == RestoredSelection(p)

(* startActivationLocked pins the selector to the activated node; a tag    *)
(* that is not a member leaves it where it came up.                        *)
LiveAfterStart(p) ==
    IF IsMember(p, p.base) THEN p.base ELSE RestoredSelection(p)

-----------------------------------------------------------------------------
(* prepareActivation: no lock held.  Whatever fails here (a routing that   *)
(* no longer resolves and a missing TUN privilege too) is an error reply   *)
(* or a log line, and the request is over.                                 *)
PrepareActivation(t, req, rc) ==
    LET ns == nodes[req.profile]
        prepared(n, targets) ==
            [pc   |-> "start", req |-> None, rc |-> rc,
             prep |-> [context |-> [profile |-> req.profile, node |-> n,
                                    name |-> ns[n].name, mode |-> req.mode],
                       plan    |-> BuildPlan(ns, n, targets)]]
    IN  /\ \/ task' = [task EXCEPT ![t] = IdleTask]
           \/ \E n \in FindNode(ns, req.ref), targets \in Targets :
                 /\ Plannable(ns, n)
                 /\ task' = [task EXCEPT ![t] = prepared(n, targets)]
        /\ UNCHANGED <<proc, engine, published, disk, stopped>>

(* activate, first half, as a client calls it.                             *)
Activate(c) ==
    /\ proc # "down" /\ task[c].pc = "idle"
    /\ \E req \in Request : PrepareActivation(c, req, None)

(* The same half of a re-activation: a switch to a node the session does   *)
(* not embed, a reconnect, the startup restore.                            *)
Prepare(t) ==
    /\ task[t].pc = "prepare"
    /\ PrepareActivation(t, task[t].req, task[t].rc)

(* An address is not reused while the manager or a decided reconnect still *)
(* holds it.                                                               *)
Referenced == {sess} \cup {task[t].rc.sess : t \in {u \in Task : task[u].rc # None}}

(* The running session, if any, is closed and its context dropped.  Close  *)
(* tears the box and the backends down even when it reports an error.      *)
ForgetSession ==
    /\ sess' = None /\ live' = None /\ open' = open \ {sess}
    /\ active' = IF sess = None THEN active ELSE None

CloseFailsLeaking ==
    /\ sess # None /\ "close" \in Faults
    /\ sess' = None /\ active' = None /\ live' = None
    /\ UNCHANGED <<open, plan, published, record, cache>>

(* startActivationLocked: stop the running session, start the prepared     *)
(* one, record it.  A failed close ends it there, with nothing broadcast.  *)
CloseFails ==
    /\ sess # None /\ "close" \in Faults
    /\ ForgetSession
    /\ UNCHANGED <<plan, published, record, cache>>

StartFails ==
    /\ "start" \in Faults
    /\ ForgetSession
    /\ BroadcastState
    /\ UNCHANGED <<plan, record, cache>>

SessionStarts(a) ==
    /\ sess' \in SessId \ Referenced
    /\ open' = (open \ {sess}) \cup {sess'}
    /\ plan' = a.plan
    /\ active' = a.context
    /\ live' = LiveAfterStart(a.plan)
    /\ cache' = LiveAfterStart(a.plan)
    /\ WriteRecord(a.context)
    /\ BroadcastState

StartActivation(a) == CloseFails \/ StartFails \/ SessionStarts(a)

DecisionStandsBySession(rc) == sess = rc.sess

(* reconnectSession's re-check: the session and the selection the decision *)
(* was made against still stand.                                           *)
DecisionStands(rc) ==
    sess = rc.sess /\ active # None /\ active.node = rc.selection

Overtaken(t) == task[t].rc # None /\ ~DecisionStands(task[t].rc)

Start(t) ==
    /\ task[t].pc = "start"
    /\ task' = [task EXCEPT ![t] = IdleTask]
    /\ \/ /\ ~Overtaken(t)
          /\ StartActivation(task[t].prep)
          /\ stopped' = IF t \in Client /\ sess' # None THEN FALSE ELSE stopped
       \/ /\ Overtaken(t)
          /\ UNCHANGED <<engine, published, record, cache, stopped>>
    /\ UNCHANGED <<proc, nodes, edits>>

-----------------------------------------------------------------------------
SwitchLiveUnsaved(tag) ==
    /\ live' = tag /\ cache' = tag
    /\ active' = [active EXCEPT !.node = tag, !.name = DisplayName(plan, tag)]
    /\ published' = [running |-> TRUE, active |-> active']
    /\ stopped' = FALSE
    /\ UNCHANGED <<sess, plan, open, task, record>>

SwitchLiveByTag(tag) ==
    /\ live' = tag /\ cache' = tag
    /\ active' = [active EXCEPT !.node = tag, !.name = tag]
    /\ WriteRecord(active')
    /\ published' = [running |-> TRUE, active |-> active']
    /\ stopped' = FALSE
    /\ UNCHANGED <<sess, plan, open, task>>

SwitchLive(tag) ==
    /\ live' = tag /\ cache' = tag
    /\ active' = [active EXCEPT !.node = tag, !.name = DisplayName(plan, tag)]
    /\ WriteRecord(active')
    /\ published' = [running |-> TRUE, active |-> active']
    /\ stopped' = FALSE
    /\ UNCHANGED <<sess, plan, open, task>>

(* switchNode: live when the node is embedded, else a re-activation with   *)
(* the context read here.                                                  *)
SwitchNode(c) ==
    /\ proc # "down" /\ task[c].pc = "idle" /\ sess # None
    /\ \E ref \in Node \cup Name :
          LET tags == IF ref \in Node /\ IsMember(plan, ref) THEN {ref}
                      ELSE MembersNamed(plan, ref)
          IN  \/ \E tag \in tags : SwitchLive(tag)
              \/ /\ tags = {}
                 /\ task' = [task EXCEPT ![c] =
                       [pc  |-> "prepare", prep |-> None, rc |-> None,
                        req |-> [profile |-> active.profile, ref |-> ref,
                                 mode |-> active.mode]]]
                 /\ UNCHANGED <<engine, published, record, cache, stopped>>
    /\ UNCHANGED <<proc, nodes, edits>>

(* stop: nothing running is an Idle reply and nothing else.                *)
Stop(c) ==
    /\ proc # "down" /\ task[c].pc = "idle"
    /\ stopped' = TRUE
    /\ \/ sess = None /\ UNCHANGED <<engine, published, record>>
       \/ /\ sess # None
          /\ ForgetSession
          /\ plan' = None
          /\ WriteRecord(None)
          /\ BroadcastState
    /\ UNCHANGED <<proc, task, nodes, cache, edits>>

-----------------------------------------------------------------------------
(* sessionReconnectLocked: ns has just been applied to profile p.          *)
Reconsider(t, p, ns) ==
    LET found == IF Present(ns, active.node) THEN {active.node}
                 ELSE NodesNamed(ns, active.name)
        base(cur) == IF Present(ns, plan.base) THEN plan.base ELSE cur
        fresh(cur) == BuildPlan(ns, base(cur), plan.targets)
        same(cur) == PlanMembersEqual(plan, fresh(cur))
        keep == UNCHANGED <<plan, active, record, published, task>>
    IN  IF sess = None \/ active = None \/ active.profile # p \/ found = {}
        THEN keep
        ELSE \E cur \in found :
                \/ /\ ~Plannable(ns, base(cur))
                   /\ keep
                \/ /\ Plannable(ns, base(cur)) /\ same(cur)
                   /\ plan' = Relabel(plan, fresh(cur))
                   /\ active' = [active EXCEPT !.name = ns[cur].name]
                   /\ IF plan' = plan /\ active' = active
                      THEN UNCHANGED <<record, published>>
                      ELSE /\ WriteRecord(active')
                           /\ published' = [running |-> TRUE,
                                            active |-> active']
                   /\ UNCHANGED task
                \/ /\ Plannable(ns, base(cur)) /\ ~same(cur)
                   /\ task' = [task EXCEPT ![t] =
                         [pc  |-> "prepare", prep |-> None,
                          rc  |-> [sess |-> sess, selection |-> active.node],
                          req |-> [profile |-> p, ref |-> cur,
                                   mode |-> active.mode]]]
                   /\ UNCHANGED <<plan, active, record, published>>

SaveProfile(p, ns) ==
    /\ edits < MaxEdits
    /\ edits' = edits + 1
    /\ nodes' = [nodes EXCEPT ![p] = ns]

(* landSubscriptionFetch with a successful fetch: the refreshed node set   *)
(* is saved, then the running session is reconsidered.  A failed fetch, a  *)
(* discarded one and a failed save change nothing here.                    *)
LandRefresh ==
    /\ proc # "down" /\ task["sweep"].pc = "idle"
    /\ \E p \in Profile, ns \in Stored :
          SaveProfile(p, ns) /\ Reconsider("sweep", p, ns)
    /\ UNCHANGED <<proc, sess, live, open, cache, stopped>>

(* setNodePrefs: a core pin changes the body of one node.  The session is  *)
(* reconsidered BEFORE the save, and the reconnect dropped if that fails.  *)
SetNodePrefs(c) ==
    /\ proc # "down" /\ task[c].pc = "idle"
    /\ \E p \in Profile, n \in Node \ Group, b \in Body :
          LET ns == [nodes[p] EXCEPT ![n] = [@ EXCEPT !.body = b]]
          IN  /\ Present(nodes[p], n)
              /\ \/ SaveProfile(p, ns) /\ Reconsider(c, p, ns)
                 \/ /\ "profile" \in Faults /\ Reconsider(c, p, ns)
                    /\ task' = task
                    /\ UNCHANGED <<nodes, edits>>
    /\ UNCHANGED <<proc, sess, live, open, cache, stopped>>

(* Every other verb that saves a profile: nodes added, removed, selected,  *)
(* a manual subscription refresh, a deleted profile.  None of them looks   *)
(* at the running session.                                                 *)
EditProfile ==
    /\ proc # "down"
    /\ \E p \in Profile, ns \in Stored : SaveProfile(p, ns)
    /\ UNCHANGED <<proc, engine, task, published, record, cache, stopped>>

-----------------------------------------------------------------------------
(* Process lifecycle.                                                      *)

(* restoreLastSession, up to its activate: by id, then by name.  Nothing   *)
(* is restored without a record, or with restore_on_start off.             *)
RestoreLoad ==
    /\ task["restore"].pc = "load"
    /\ \/ task' = [task EXCEPT !["restore"] = IdleTask]
       \/ /\ record # None
          /\ task' = [task EXCEPT !["restore"] =
                [pc  |-> "prepare", prep |-> None, rc |-> None,
                 req |-> [profile |-> record.profile,
                          ref  |-> IF Present(nodes[record.profile], record.node)
                                   THEN record.node ELSE record.name,
                          mode |-> record.mode]]]
    /\ UNCHANGED <<proc, engine, published, disk, stopped>>

ShutdownForgets ==
    /\ proc = "up"
    /\ proc' = "stopping"
    /\ sess' = None /\ live' = None /\ open' = open \ {sess} /\ record' = None
    /\ UNCHANGED <<plan, active, task, published, nodes, cache, edits, stopped>>

(* shutdown(): closes the session, keeps the record and m.active.          *)
Shutdown ==
    /\ proc = "up"
    /\ proc' = "stopping"
    /\ sess' = None /\ live' = None /\ open' = open \ {sess}
    /\ UNCHANGED <<plan, active, task, published, disk, stopped>>

ProcessGone ==
    /\ proc' = "down"
    /\ sess' = None /\ plan' = None /\ active' = None /\ live' = None
    /\ open' = {}
    /\ task' = [t \in Task |-> IdleTask]
    /\ published' = IdleEvent
    /\ UNCHANGED <<nodes, record, edits, stopped>>

(* run() returns after shutdown().                                         *)
Exit == proc = "stopping" /\ ProcessGone /\ UNCHANGED cache

(* A crash may also catch the engine between its own writes of cache.db    *)
(* and the daemon's write of the record.                                   *)
Crash ==
    /\ proc \in {"up", "stopping"}
    /\ ProcessGone
    /\ cache' \in Node \cup {None}

(* run(): a fresh manager; the restore runs in the background.             *)
Boot ==
    /\ proc = "down"
    /\ proc' = "up"
    /\ task' = [task EXCEPT !["restore"] = [IdleTask EXCEPT !.pc = "load"]]
    /\ UNCHANGED <<engine, published, disk, stopped>>

Init ==
    /\ proc = "down"
    /\ sess = None /\ plan = None /\ active = None /\ live = None /\ open = {}
    /\ task = [t \in Task |-> IdleTask]
    /\ published = IdleEvent
    /\ nodes \in [Profile -> Stored]
    /\ record = None /\ cache = None
    /\ edits = 0 /\ stopped = FALSE

Next ==
    \/ \E c \in Client : Activate(c) \/ SwitchNode(c) \/ Stop(c) \/ SetNodePrefs(c)
    \/ \E t \in Task : Prepare(t) \/ Start(t)
    \/ LandRefresh \/ EditProfile
    \/ RestoreLoad \/ Boot \/ Shutdown \/ Exit \/ Crash

Spec == Init /\ [][Next]_vars

-----------------------------------------------------------------------------
(* The engine never holds two sessions, nor one the manager has lost: the  *)
(* TUN and the routes belong to m.sess (the "at-most-one-session           *)
(* invariant" Session.Close relies on to drop the interface bypass).       *)
OneSession == open = IF sess = None THEN {} ELSE {sess}

(* m.active is set whenever a session runs, so the dereferences of         *)
(* switchNode and saveLastSessionLocked are safe; and a daemon that is up  *)
(* without a session shows no context.                                     *)
ActiveWithSession ==
    /\ sess # None => active # None /\ plan # None
    /\ proc = "up" /\ sess = None => active = None

(* The traffic goes where the status says: the selector's live member is   *)
(* the node of the context, whatever cache.db held when the engine         *)
(* started, and it is embedded in the plan.                                *)
LiveIsIntent ==
    sess # None => live = active.node /\ IsMember(plan, active.node)

(* The label reported and persisted for the selection is the label the     *)
(* running plan has for that node, through switches and relabelling.       *)
LabelAgrees == sess # None => active.name = DisplayName(plan, active.node)

(* While a session runs, the record a restart would restore is its         *)
(* context, provided record writes do not fail.                            *)
RecordTracksSession ==
    "record" \notin Faults /\ sess # None => record = active

(* Subscribers have been sent the state the daemon is in, provided no      *)
(* Close failed.                                                           *)
StateIsPublished ==
    "close" \notin Faults /\ proc = "up" =>
        published = [running |-> sess # None, active |-> active]

(* A reconnect (background refresh or core pin) never starts a session     *)
(* where none runs, never changes the profile or the mode, and only takes  *)
(* effect while the node in use is the one it was decided against: a stop, *)
(* an activation or a live switch that slipped in meanwhile wins.          *)
ReconnectStep(t) ==
    /\ task[t].rc # None /\ task[t].pc = "start" /\ task'[t].pc = "idle"
    /\ sess' # sess /\ sess' # None

ReconnectKeepsChoice ==
    [][\A t \in Task : ReconnectStep(t) =>
          /\ sess # None
          /\ active'.profile = active.profile /\ active'.mode = active.mode
          /\ active.node = task[t].rc.selection]_vars

(* The manager implements SessionIntent: record and session never part     *)
(* other than by an explicit stop or a lost session.                       *)
Intent == INSTANCE SessionIntent WITH
    run      <- IF sess = None THEN None ELSE active,
    rec      <- record,
    halted   <- stopped,
    Reliable <- "record" \notin Faults

ImplementsIntent == Intent!Spec

(* The facts about the requests under way that the invariants above rest   *)
(* on: a prepared activation embeds the node it activates, under the label *)
(* it will report.                                                         *)
TasksPrepared ==
    \A t \in Task :
       /\ task[t].pc = "prepare" => task[t].req # None
       /\ task[t].pc = "start" =>
             LET prep == task[t].prep
             IN  /\ prep # None
                 /\ prep.plan.base = prep.context.node
                 /\ IsMember(prep.plan, prep.context.node)
                 /\ prep.context.name = DisplayName(prep.plan, prep.context.node)

(* A process that is gone holds nothing, and so starts idle.               *)
DownIsIdle ==
    proc = "down" =>
        /\ sess = None /\ active = None /\ published = IdleEvent
        /\ \A t \in Task : task[t].pc = "idle"

(* A reconnect decided against the running session carries that session's  *)
(* profile and mode: neither a live switch nor a relabelling changes them, *)
(* and a new session is never taken for the one decided against.           *)
ReconnectsMatch ==
    \A t \in Task :
       task[t].rc # None /\ sess = task[t].rc.sess =>
          /\ task[t].pc = "prepare" =>
                /\ task[t].req.profile = active.profile
                /\ task[t].req.mode = active.mode
          /\ task[t].pc = "start" =>
                /\ task[t].prep.context.profile = active.profile
                /\ task[t].prep.context.mode = active.mode

(* The inductive invariant behind the theorems of SessionProofs.           *)
SessionInv ==
    /\ TypeOK
    /\ OneSession
    /\ ActiveWithSession
    /\ LiveIsIntent
    /\ LabelAgrees
    /\ RecordTracksSession
    /\ StateIsPublished
    /\ TasksPrepared
    /\ DownIsIdle

(* "a running session must not outlive the daemon": once shutdown() has    *)
(* closed the session the engine holds none.                               *)
NoSessionAfterShutdown == proc = "stopping" => open = {}

(* "An EXPLICIT stop is user intent - the next daemon start must not       *)
(* restore": the restore never starts a session when the last client       *)
(* command that took effect was a stop.                                    *)
StopIsNotUndone ==
    [][task["restore"].pc = "start" /\ task'["restore"].pc = "idle"
          /\ sess' # None /\ sess' # sess /\ proc' # "down" => ~stopped]_vars

(* "broadcastStateLocked pushes the new State to every subscriber after a  *)
(* transition", with failing closes too.                                   *)
EveryTransitionPublished ==
    proc = "up" => published = [running |-> sess # None, active |-> active]
=============================================================================
