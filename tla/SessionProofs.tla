---------------------------- MODULE SessionProofs ----------------------------
(***************************************************************************)
(* Proofs about Session, for every value of its constants: the type        *)
(* invariant, the inductive invariant SessionInv with the safety           *)
(* properties it contains, the reconnect action property and the           *)
(* implementation of SessionIntent.                                        *)
(***************************************************************************)
EXTENDS Session, TLAPS

USE SessionAssumption

-----------------------------------------------------------------------------
(* Facts about the operators on node sets and plans.                       *)

(* A stored node's document has a name and a body.                         *)
LEMMA PresentDoc ==
    ASSUME NEW ns \in NodeSet, NEW n \in Node, Present(ns, n)
    PROVE  ns[n] \in Doc /\ ns[n].name \in Name /\ ns[n].body \in Body
BY DEF NodeSet, Present, Doc

(* A lookup by name, or by id or name, finds stored nodes only.            *)
LEMMA FoundIsPresent ==
    ASSUME NEW ns \in NodeSet, NEW ref,
           NEW n \in NodesNamed(ns, ref) \cup FindNode(ns, ref)
    PROVE  n \in Node /\ Present(ns, n)
BY DEF NodesNamed, FindNode

(* A lookup by name finds nodes of that name.                              *)
LEMMA NamedHasName ==
    ASSUME NEW ns \in NodeSet, NEW m, NEW n \in NodesNamed(ns, m)
    PROVE  ns[n].name = m
BY DEF NodesNamed

(* The embedded members are dialable nodes of the profile.                 *)
LEMMA MembersType ==
    ASSUME NEW ns \in NodeSet
    PROVE  Members(ns) \in [Node \ Group -> Doc \cup {None}]
BY DEF Members, NodeSet

(* buildPlan yields a plan.                                                *)
LEMMA BuildPlanType ==
    ASSUME NEW ns \in NodeSet, NEW n \in Node, NEW tg \in SUBSET Group
    PROVE  BuildPlan(ns, n, tg) \in Plan
<1> DEFINE gs == BuildPlan(ns, n, tg).groups
<1>1. \A g \in Group : gs[g] \in Lowered \cup {None}
  BY PresentDoc DEF BuildPlan, Lowered, GroupMembers
<1>2. gs \in [Group -> Lowered \cup {None}]
  BY <1>1 DEF BuildPlan
<1> QED
  BY <1>2, MembersType DEF BuildPlan, Plan

(* A plan that builds embeds the node it is built around, under the label  *)
(* the profile has for it.                                                 *)
LEMMA BuildPlanEmbeds ==
    ASSUME NEW ns \in NodeSet, NEW n \in Node, NEW tg \in SUBSET Group,
           Plannable(ns, n)
    PROVE  /\ BuildPlan(ns, n, tg).base = n
           /\ IsMember(BuildPlan(ns, n, tg), n)
           /\ DisplayName(BuildPlan(ns, n, tg), n) = ns[n].name
<1> DEFINE low == [name |-> ns[n].name, of |-> GroupMembers(ns, n)]
<1>1. CASE n \in Group
  <2>1. BuildPlan(ns, n, tg).groups[n] = low
    BY <1>1 DEF BuildPlan, Plannable
  <2>2. low \in Lowered
    BY <1>1, PresentDoc DEF Lowered, GroupMembers, Plannable
  <2> QED
    BY <1>1, <2>1, <2>2 DEF BuildPlan, IsMember, DisplayName, Present
<1>2. CASE n \notin Group
  BY <1>2 DEF BuildPlan, IsMember, DisplayName, Present, Plannable, Members, NodeSet
<1> QED
  BY <1>1, <1>2

(* A switch by name lands on an embedded member.                           *)
LEMMA MembersNamedEmbedded ==
    ASSUME NEW p \in Plan, NEW m, NEW n \in MembersNamed(p, m)
    PROVE  n \in Node /\ IsMember(p, n)
BY DEF MembersNamed, IsMember, Present

(* An embedded member has a label.                                         *)
LEMMA DisplayNameType ==
    ASSUME NEW p \in Plan, NEW n \in Node, IsMember(p, n)
    PROVE  DisplayName(p, n) \in Name
BY DEF Plan, IsMember, DisplayName, Present, Doc, Lowered

(* Relabelling a plan whose members the fresh plan shares gives a plan     *)
(* with the same members, each under its fresh label.                      *)
LEMMA RelabelKeepsMembers ==
    ASSUME NEW p \in Plan, NEW fresh \in Plan, PlanMembersEqual(p, fresh)
    PROVE  /\ Relabel(p, fresh) \in Plan
           /\ \A n \in Node : IsMember(p, n) =>
                 /\ IsMember(Relabel(p, fresh), n)
                 /\ IsMember(fresh, n)
                 /\ DisplayName(Relabel(p, fresh), n) = DisplayName(fresh, n)
<1> DEFINE ms == [n \in Node \ Group |->
            IF Present(p.members, n) /\ Present(fresh.members, n)
            THEN [p.members[n] EXCEPT !.name = fresh.members[n].name]
            ELSE p.members[n]]
           gs == [g \in Group |->
            IF Present(p.groups, g) /\ Present(fresh.groups, g)
            THEN [p.groups[g] EXCEPT !.name = fresh.groups[g].name]
            ELSE p.groups[g]]
<1>1. Relabel(p, fresh) = [base |-> p.base, members |-> ms, groups |-> gs,
                           targets |-> p.targets]
  <2>1. Relabel(p, fresh) = [p EXCEPT !.members = ms, !.groups = gs]
    BY DEF Relabel
  <2> HIDE DEF ms, gs
  <2> QED
    BY <2>1 DEF Plan
<1>2. \A n \in Node \ Group : ms[n] \in Doc \cup {None}
  BY DEF Plan, Present, Doc
<1>3. \A g \in Group : gs[g] \in Lowered \cup {None}
  BY DEF Plan, Present, Lowered
<1>4. Relabel(p, fresh) \in Plan
  BY <1>1, <1>2, <1>3 DEF Plan
<1>5. ASSUME NEW n \in Node, IsMember(p, n)
      PROVE  /\ IsMember(Relabel(p, fresh), n)
             /\ IsMember(fresh, n)
             /\ DisplayName(Relabel(p, fresh), n) = DisplayName(fresh, n)
  <2>1. CASE n \in Group
    <3>1. Present(p.groups, n) /\ Present(fresh.groups, n)
      BY <1>5, <2>1 DEF IsMember, PlanMembersEqual
    <3>2. gs[n] # None /\ gs[n].name = fresh.groups[n].name
      BY <2>1, <3>1 DEF Plan, Lowered, Present
    <3> QED
      BY <1>1, <2>1, <3>1, <3>2 DEF IsMember, DisplayName, Present
  <2>2. CASE n \notin Group
    <3>1. Present(p.members, n) /\ Present(fresh.members, n)
      BY <1>5, <2>2 DEF IsMember, PlanMembersEqual
    <3>2. ms[n] # None /\ ms[n].name = fresh.members[n].name
      BY <2>2, <3>1 DEF Plan, Doc, Present
    <3> QED
      BY <1>1, <2>2, <3>1, <3>2 DEF IsMember, DisplayName, Present
  <2> QED
    BY <2>1, <2>2
<1> QED
  BY <1>4, <1>5

-----------------------------------------------------------------------------
(* The inductive invariant, one lemma per action.                          *)

(* The daemon starts from nothing, with the stored profiles it finds.      *)
LEMMA InitInv == Init => SessionInv
<1> SUFFICES ASSUME Init PROVE SessionInv
  OBVIOUS
<1>1. TypeOK
  BY DEF Init, TypeOK, IdleTask, TaskState, IdleEvent, StateEvent
<1>2. TasksPrepared
  BY DEF Init, TasksPrepared, IdleTask
<1> QED
  BY <1>1, <1>2
  DEF Init, SessionInv, OneSession, ActiveWithSession, LiveIsIntent,
      LabelAgrees, RecordTracksSession, StateIsPublished, DownIsIdle, IdleTask

(* Steps of other components leave the invariant alone.                    *)
LEMMA StutterInv == SessionInv /\ UNCHANGED vars => SessionInv'
<1> SUFFICES ASSUME SessionInv, UNCHANGED vars PROVE SessionInv'
  OBVIOUS
<1> USE DEF SessionInv, vars
<1>1. TypeOK'
  BY DEF TypeOK
<1>2. TasksPrepared'
  BY DEF TasksPrepared, IsMember, DisplayName, Present
<1>3. LiveIsIntent' /\ LabelAgrees'
  BY DEF LiveIsIntent, LabelAgrees, IsMember, DisplayName, Present
<1> QED
  BY <1>1, <1>2, <1>3
  DEF OneSession, ActiveWithSession, RecordTracksSession, StateIsPublished, DownIsIdle

(* A step that only moves a task keeps everything else.                    *)
LEMMA TaskStepInv ==
    ASSUME SessionInv, UNCHANGED <<proc, engine, published, record, cache>>,
           nodes' \in [Profile -> NodeSet], edits' \in Nat, stopped' \in BOOLEAN,
           proc # "down",
           task' \in [Task -> TaskState], TasksPrepared'
    PROVE  SessionInv'
<1> USE DEF SessionInv, engine
<1>1. TypeOK'
  BY DEF TypeOK
<1> QED
  BY <1>1
  DEF OneSession, ActiveWithSession, LiveIsIntent, LabelAgrees,
      RecordTracksSession, StateIsPublished, DownIsIdle, IsMember,
      DisplayName, Present

(* Replacing the state of one task keeps TasksPrepared when the new state  *)
(* meets it.                                                               *)
LEMMA OneTaskPrepared ==
    ASSUME TypeOK, TasksPrepared, NEW t \in Task, NEW v \in TaskState,
           task' = [task EXCEPT ![t] = v],
           v.pc = "prepare" => v.req # None,
           v.pc = "start" =>
              /\ v.prep # None
              /\ v.prep.plan.base = v.prep.context.node
              /\ IsMember(v.prep.plan, v.prep.context.node)
              /\ v.prep.context.name = DisplayName(v.prep.plan, v.prep.context.node)
    PROVE  task' \in [Task -> TaskState] /\ TasksPrepared'
<1>1. task \in [Task -> TaskState]
  BY DEF TypeOK
<1>2. task' \in [Task -> TaskState]
  BY <1>1
<1>3. TasksPrepared'
  <2> SUFFICES ASSUME NEW u \in Task
               PROVE  /\ task'[u].pc = "prepare" => task'[u].req # None
                      /\ task'[u].pc = "start" =>
                            /\ task'[u].prep # None
                            /\ task'[u].prep.plan.base = task'[u].prep.context.node
                            /\ IsMember(task'[u].prep.plan, task'[u].prep.context.node)
                            /\ task'[u].prep.context.name
                                  = DisplayName(task'[u].prep.plan, task'[u].prep.context.node)
    BY DEF TasksPrepared, IsMember, DisplayName, Present
  <2>1. CASE u = t
    BY <2>1, <1>1
  <2>2. CASE u # t
    <3>1. task'[u] = task[u]
      BY <2>2, <1>1
    <3> QED
      BY <3>1 DEF TasksPrepared
  <2> QED
    BY <2>1, <2>2
<1> QED
  BY <1>2, <1>3

(* A broadcast made while a session runs is a well-typed State event.      *)
LEMMA RunningEvent ==
    ASSUME NEW c \in Context
    PROVE  [running |-> TRUE, active |-> c] \in StateEvent
BY DEF StateEvent

(* A finished request is a well-typed one.                                 *)
LEMMA IdleTaskType ==
    IdleTask \in TaskState /\ IdleTask.pc = "idle" /\ IdleTask.rc = None
BY DEF IdleTask, TaskState

(* prepareActivation touches nothing but the request it is preparing.      *)
LEMMA PrepareActivationInv ==
    ASSUME SessionInv, proc # "down", NEW t \in Task, NEW req \in Request,
           NEW rc \in Decision \cup {None}, PrepareActivation(t, req, rc)
    PROVE  SessionInv'
<1> DEFINE ns == nodes[req.profile]
           prepared(n, tg) ==
              [pc   |-> "start", req |-> None, rc |-> rc,
               prep |-> [context |-> [profile |-> req.profile, node |-> n,
                                      name |-> ns[n].name, mode |-> req.mode],
                         plan    |-> BuildPlan(ns, n, tg)]]
<1>0. TypeOK /\ TasksPrepared
  BY DEF SessionInv
<1>1. req.profile \in Profile /\ req.mode \in Mode /\ ns \in NodeSet
  BY <1>0 DEF Request, TypeOK
<1>2. task' \in [Task -> TaskState] /\ TasksPrepared'
  <2>1. CASE task' = [task EXCEPT ![t] = IdleTask]
    BY <2>1, <1>0, IdleTaskType, OneTaskPrepared
  <2>2. CASE \E n \in FindNode(ns, req.ref), tg \in Targets :
                /\ Plannable(ns, n)
                /\ task' = [task EXCEPT ![t] = prepared(n, tg)]
    <3> PICK n \in FindNode(ns, req.ref), tg \in Targets :
                /\ Plannable(ns, n)
                /\ task' = [task EXCEPT ![t] = prepared(n, tg)]
      BY <2>2
    <3>1. n \in Node /\ Present(ns, n)
      BY <1>1, FoundIsPresent
    <3>2. BuildPlan(ns, n, tg) \in Plan
      BY <1>1, <3>1, BuildPlanType
    <3>3. ns[n].name \in Name
      BY <1>1, <3>1, PresentDoc
    <3>4. prepared(n, tg).prep \in Activation
      BY <1>1, <3>1, <3>2, <3>3 DEF Activation, Context
    <3>5. prepared(n, tg) \in TaskState
      BY <3>4 DEF TaskState
    <3>6. /\ BuildPlan(ns, n, tg).base = n
          /\ IsMember(BuildPlan(ns, n, tg), n)
          /\ DisplayName(BuildPlan(ns, n, tg), n) = ns[n].name
      BY <1>1, <3>1, BuildPlanEmbeds
    <3>7. prepared(n, tg).prep # None
      BY <3>4
    <3> HIDE DEF ns
    <3>8. /\ prepared(n, tg).pc = "start"
          /\ prepared(n, tg).prep.plan = BuildPlan(ns, n, tg)
          /\ prepared(n, tg).prep.context.node = n
          /\ prepared(n, tg).prep.context.name = ns[n].name
      OBVIOUS
    <3> DEFINE v == prepared(n, tg)
    <3>9. /\ v \in TaskState /\ v.pc = "start" /\ v.prep # None
          /\ v.prep.plan.base = v.prep.context.node
          /\ IsMember(v.prep.plan, v.prep.context.node)
          /\ v.prep.context.name = DisplayName(v.prep.plan, v.prep.context.node)
          /\ task' = [task EXCEPT ![t] = v]
      BY <3>5, <3>6, <3>7, <3>8
    <3> HIDE DEF v
    <3> QED
      BY <1>0, <3>9, OneTaskPrepared
  <2> QED
    BY <2>1, <2>2 DEF PrepareActivation
<1>3. UNCHANGED <<proc, engine, published, disk, stopped>>
  BY DEF PrepareActivation
<1> QED
  BY <1>0, <1>2, <1>3, TaskStepInv DEF disk, TypeOK

(* The state after a session has stopped running, one way or another.      *)
LEMMA SessionLostInv ==
    ASSUME SessionInv, sess' = None, live' = None,
           active' \in Context \cup {None}, proc = "up" => active' = None,
           open' = open \ {sess}, plan' \in Plan \cup {None},
           record' \in Context \cup {None}, cache' \in Node \cup {None},
           published' \in StateEvent,
           "close" \notin Faults /\ proc = "up" => published' = IdleEvent,
           proc # "down", task' \in [Task -> TaskState], TasksPrepared',
           UNCHANGED <<proc, nodes, edits>>, stopped' \in BOOLEAN
    PROVE  SessionInv'
<1> USE DEF SessionInv
<1>1. TypeOK'
  BY DEF TypeOK
<1>2. OneSession'
  BY DEF OneSession, TypeOK
<1> QED
  BY <1>1, <1>2
  DEF ActiveWithSession, LiveIsIntent, LabelAgrees, RecordTracksSession,
      StateIsPublished, DownIsIdle, IdleEvent

(* A task past "prepare" is not one of a process that is gone.             *)
LEMMA BusyMeansAlive ==
    ASSUME SessionInv, NEW t \in Task, task[t].pc # "idle"
    PROVE  proc # "down"
BY DEF SessionInv, DownIsIdle

(* startActivationLocked, with the re-check of reconnectSession before it. *)
LEMMA StartInv ==
    ASSUME SessionInv, NEW t \in Task, Start(t)
    PROVE  SessionInv'
<1> DEFINE a == task[t].prep
<1>0. TypeOK /\ TasksPrepared /\ proc # "down"
  BY BusyMeansAlive DEF SessionInv, Start
<1>1. /\ a \in Activation
      /\ a.plan.base = a.context.node
      /\ IsMember(a.plan, a.context.node)
      /\ a.context.name = DisplayName(a.plan, a.context.node)
  <2>1. task[t] \in TaskState
    BY <1>0 DEF TypeOK
  <2> QED
    BY <1>0, <2>1 DEF Start, TasksPrepared, TaskState
<1>2. a.plan \in Plan /\ a.context \in Context /\ a.context.node \in Node
  BY <1>1 DEF Activation, Context
<1>3. task' \in [Task -> TaskState] /\ TasksPrepared'
  BY <1>0, IdleTaskType, OneTaskPrepared DEF Start
<1>4. CASE Overtaken(t)
  <2>1. UNCHANGED <<proc, engine, published, record, cache, stopped, nodes, edits>>
    BY <1>4 DEF Start
  <2> QED
    BY <1>0, <1>3, <2>1, TaskStepInv DEF TypeOK
<1>5. CASE ~Overtaken(t) /\ CloseFails
  <2>1. UNCHANGED <<proc, nodes, edits>> /\ stopped' \in BOOLEAN
    BY <1>0, <1>5 DEF Start, TypeOK
  <2> QED
    BY <1>0, <1>3, <1>5, <2>1, SessionLostInv DEF CloseFails, ForgetSession, TypeOK
<1>6. CASE ~Overtaken(t) /\ StartFails
  <2>1. UNCHANGED <<proc, nodes, edits>> /\ stopped' \in BOOLEAN
    BY <1>0, <1>6 DEF Start, TypeOK
  <2>2. /\ active' \in Context \cup {None}
        /\ proc = "up" => active' = None
    BY <1>0, <1>6 DEF StartFails, ForgetSession, SessionInv, ActiveWithSession, TypeOK
  <2>3. /\ published' \in StateEvent
        /\ proc = "up" => published' = IdleEvent
    BY <1>6, <2>2 DEF StartFails, ForgetSession, BroadcastState, IdleEvent, StateEvent
  <2> QED
    BY <1>0, <1>3, <1>6, <2>1, <2>2, <2>3, SessionLostInv
    DEF StartFails, ForgetSession, TypeOK
<1>7. CASE ~Overtaken(t) /\ SessionStarts(a)
  <2> USE DEF SessionStarts
  <2>1. UNCHANGED <<proc, nodes, edits>> /\ stopped' \in BOOLEAN
    BY <1>0, <1>7 DEF Start, TypeOK
  <2>2. sess' \in SessId /\ sess' # None
    BY <1>7
  <2>3. live' = a.context.node /\ cache' = a.context.node
    BY <1>1, <1>7 DEF LiveAfterStart
  <2>4. published' = [running |-> TRUE, active |-> a.context]
    BY <1>7, <2>2 DEF BroadcastState
  <2>5. record' = a.context \/ ("record" \in Faults /\ record' = record)
    BY <1>7 DEF WriteRecord
  <2>6. open' = {sess'}
    BY <1>0, <1>7 DEF SessionInv, OneSession
  <2>7. active' = a.context /\ plan' = a.plan
    BY <1>7
  <2>8. TypeOK'
    BY <1>0, <1>2, <1>3, <2>1, <2>2, <2>3, <2>4, <2>5, <2>6, <2>7
    DEF TypeOK, StateEvent
  <2>9. IsMember(plan, active.node)' /\ (active.name = DisplayName(plan, active.node))'
    BY <1>1, <2>7 DEF IsMember, DisplayName, Present
  <2>10. active' # None /\ plan' # None
    BY <1>2, <2>7
  <2> QED
    BY <1>0, <1>3, <2>1, <2>2, <2>3, <2>4, <2>5, <2>6, <2>7, <2>8, <2>9, <2>10
    DEF SessionInv, OneSession, ActiveWithSession, LiveIsIntent, LabelAgrees,
        RecordTracksSession, StateIsPublished, DownIsIdle
<1> QED
  BY <1>4, <1>5, <1>6, <1>7 DEF Start, StartActivation

(* switchNode: live, or handed on as a re-activation.                      *)
LEMMA SwitchNodeInv ==
    ASSUME SessionInv, NEW c \in Client, SwitchNode(c)
    PROVE  SessionInv'
<1>0. /\ TypeOK /\ TasksPrepared /\ proc # "down" /\ sess # None
      /\ active \in Context /\ plan \in Plan /\ c \in Task
  BY DEF SessionInv, SwitchNode, ActiveWithSession, TypeOK, Task
<1> PICK ref \in Node \cup Name :
          LET tags == IF ref \in Node /\ IsMember(plan, ref) THEN {ref}
                      ELSE MembersNamed(plan, ref)
          IN  \/ \E tag \in tags : SwitchLive(tag)
              \/ /\ tags = {}
                 /\ task' = [task EXCEPT ![c] =
                       [pc  |-> "prepare", prep |-> None, rc |-> None,
                        req |-> [profile |-> active.profile, ref |-> ref,
                                 mode |-> active.mode]]]
                 /\ UNCHANGED <<engine, published, record, cache, stopped>>
  BY DEF SwitchNode
<1>1. ASSUME NEW tag \in Node, IsMember(plan, tag), SwitchLive(tag)
      PROVE  SessionInv'
  <2> USE <1>1 DEF SwitchLive
  <2>1. UNCHANGED <<proc, nodes, edits>>
    BY DEF SwitchNode
  <2>2. DisplayName(plan, tag) \in Name
    BY <1>0, DisplayNameType
  <2>3. /\ active' \in Context /\ active' # None
        /\ active'.node = tag
        /\ active'.name = DisplayName(plan, tag)
    BY <1>0, <2>2 DEF Context
  <2>4. published' = [running |-> TRUE, active |-> active']
    OBVIOUS
  <2>5. record' = active' \/ ("record" \in Faults /\ record' = record)
    BY DEF WriteRecord
  <2>6. TypeOK'
    <3>1. published' \in StateEvent
      <4> HIDE <1>1 DEF SwitchLive
      <4> QED
        BY <2>3, <2>4 DEF StateEvent
    <3>2. record' \in Context \cup {None}
      BY <1>0, <2>3, <2>5 DEF TypeOK
    <3>3. /\ live' \in Node /\ cache' \in Node /\ stopped' \in BOOLEAN
          /\ UNCHANGED <<sess, plan, open, task>>
      OBVIOUS
    <3> HIDE <1>1 DEF SwitchLive
    <3> QED
      BY <1>0, <2>1, <2>3, <3>1, <3>2, <3>3 DEF TypeOK
  <2>7. TasksPrepared'
    BY <1>0 DEF TasksPrepared, IsMember, DisplayName, Present
  <2>8. IsMember(plan, active.node)' /\ (active.name = DisplayName(plan, active.node))'
    <3>1. plan' = plan /\ IsMember(plan, tag)
      OBVIOUS
    <3> HIDE <1>1 DEF SwitchLive
    <3> QED
      BY <2>3, <3>1 DEF IsMember, DisplayName, Present
  <2> QED
    BY <1>0, <2>1, <2>3, <2>4, <2>5, <2>6, <2>7, <2>8
    DEF SessionInv, OneSession, ActiveWithSession, LiveIsIntent, LabelAgrees,
        RecordTracksSession, StateIsPublished, DownIsIdle
<1>2. ASSUME task' = [task EXCEPT ![c] =
                       [pc  |-> "prepare", prep |-> None, rc |-> None,
                        req |-> [profile |-> active.profile, ref |-> ref,
                                 mode |-> active.mode]]],
             UNCHANGED <<engine, published, record, cache, stopped>>
      PROVE  SessionInv'
  <2> DEFINE r == [profile |-> active.profile, ref |-> ref, mode |-> active.mode]
             v == [pc  |-> "prepare", prep |-> None, rc |-> None, req |-> r]
  <2>1. r \in Request /\ r # None
    BY <1>0 DEF Request, Context
  <2>2. v \in TaskState /\ v.pc = "prepare" /\ v.req = r
    BY <2>1 DEF TaskState
  <2> HIDE DEF r
  <2>3. task' = [task EXCEPT ![c] = v]
    BY <1>2 DEF r
  <2> HIDE DEF v
  <2>4. task' \in [Task -> TaskState] /\ TasksPrepared'
    BY <1>0, <2>1, <2>2, <2>3, OneTaskPrepared
  <2>5. UNCHANGED <<proc, nodes, edits>>
    BY DEF SwitchNode
  <2> QED
    BY <1>0, <1>2, <2>4, <2>5, TaskStepInv DEF TypeOK
<1>3. \A tag \in MembersNamed(plan, ref) : tag \in Node /\ IsMember(plan, tag)
  BY <1>0, MembersNamedEmbedded
<1> QED
  BY <1>1, <1>2, <1>3

(* stop, with and without a running session.                               *)
LEMMA StopInv ==
    ASSUME SessionInv, NEW c \in Client, Stop(c)
    PROVE  SessionInv'
<1>0. TypeOK /\ TasksPrepared /\ proc # "down"
  BY DEF SessionInv, Stop
<1>1. UNCHANGED <<proc, task, nodes, cache, edits>> /\ stopped' = TRUE
  BY DEF Stop
<1>2. task' \in [Task -> TaskState] /\ TasksPrepared'
  BY <1>0, <1>1 DEF TypeOK, TasksPrepared, IsMember, DisplayName, Present
<1>3. CASE sess = None /\ UNCHANGED <<engine, published, record>>
  BY <1>0, <1>1, <1>2, <1>3, TaskStepInv DEF TypeOK
<1>4. CASE sess # None
  <2>1. /\ sess' = None /\ plan' = None /\ active' = None /\ live' = None
        /\ open' = open \ {sess} /\ published' = IdleEvent
        /\ record' \in {None, record}
    BY <1>4 DEF Stop, ForgetSession, BroadcastState, IdleEvent, WriteRecord
  <2> QED
    BY <1>0, <1>1, <1>2, <2>1, SessionLostInv DEF TypeOK, IdleEvent, StateEvent
<1> QED
  BY <1>3, <1>4 DEF Stop

(* sessionReconnectLocked under a profile change: relabelled, left alone,  *)
(* or a reconnect decided, the invariant holds.                            *)
LEMMA ReconsiderInv ==
    ASSUME SessionInv, proc # "down", NEW t \in Task, NEW p \in Profile,
           NEW ns \in NodeSet, Reconsider(t, p, ns),
           UNCHANGED <<proc, sess, live, open, cache, stopped>>,
           nodes' \in [Profile -> NodeSet], edits' \in Nat
    PROVE  SessionInv'
<1> DEFINE found == IF Present(ns, active.node) THEN {active.node}
                    ELSE NodesNamed(ns, active.name)
           base(cur) == IF Present(ns, plan.base) THEN plan.base ELSE cur
           fresh(cur) == BuildPlan(ns, base(cur), plan.targets)
           decided(cur) == [pc  |-> "prepare", prep |-> None,
                            rc  |-> [sess |-> sess, selection |-> active.node],
                            req |-> [profile |-> p, ref |-> cur,
                                     mode |-> active.mode]]
<1>0. TypeOK /\ TasksPrepared
  BY DEF SessionInv
<1>1. CASE UNCHANGED <<plan, active, record, published, task>>
  <2>1. task' \in [Task -> TaskState] /\ TasksPrepared'
    BY <1>0, <1>1 DEF TypeOK, TasksPrepared, IsMember, DisplayName, Present
  <2> QED
    BY <1>0, <1>1, <2>1, TaskStepInv DEF TypeOK, engine
<1>2. ASSUME sess # None, active # None, NEW cur \in found,
             Plannable(ns, base(cur)), PlanMembersEqual(plan, fresh(cur)),
             plan' = Relabel(plan, fresh(cur)),
             active' = [active EXCEPT !.name = ns[cur].name],
             IF plan' = plan /\ active' = active
             THEN UNCHANGED <<record, published>>
             ELSE /\ WriteRecord(active')
                  /\ published' = [running |-> TRUE, active |-> active'],
             UNCHANGED task
      PROVE  SessionInv'
  <2>1. active \in Context /\ plan \in Plan /\ active.node \in Node
    BY <1>0, <1>2 DEF TypeOK, SessionInv, ActiveWithSession, Context
  <2>2. cur \in Node /\ Present(ns, cur)
    BY <2>1, <1>2, FoundIsPresent
  <2>3. base(cur) \in Node /\ Present(ns, base(cur))
    BY <2>1, <2>2, <1>2 DEF Plan, Plannable
  <2>4. fresh(cur) \in Plan
    BY <2>1, <2>3, BuildPlanType DEF Plan
  <2>5. /\ IsMember(plan, active.node) /\ live = active.node
        /\ "record" \notin Faults => record = active
        /\ "close" \notin Faults /\ proc = "up" =>
              published = [running |-> TRUE, active |-> active]
    BY <1>2 DEF SessionInv, LiveIsIntent, RecordTracksSession, StateIsPublished
  <2>6. /\ plan' \in Plan
        /\ IsMember(plan', active.node)
        /\ IsMember(fresh(cur), active.node)
        /\ DisplayName(plan', active.node) = DisplayName(fresh(cur), active.node)
    <3> HIDE DEF fresh
    <3> QED
      BY <1>2, <2>1, <2>4, <2>5, RelabelKeepsMembers
  <2>7. Present(ns, active.node)
    BY <2>1, <2>3, <2>6 DEF IsMember, BuildPlan, Members, Present
  <2>8. cur = active.node
    BY <2>7, <1>2
  <2>9. DisplayName(fresh(cur), active.node) = ns[active.node].name
    <3>1. CASE active.node \in Group
      BY <2>1, <2>6, <3>1, MembersType
      DEF DisplayName, IsMember, BuildPlan, Present
    <3>2. CASE active.node \notin Group
      BY <2>1, <2>6, <3>2 DEF DisplayName, IsMember, BuildPlan, Members, Present
    <3> QED
      BY <3>1, <3>2
  <2>10. /\ active' \in Context /\ active' # None
         /\ active'.node = active.node
         /\ active'.name = ns[active.node].name
    <3>1. ns[cur].name \in Name
      BY <2>2, PresentDoc
    <3> QED
      BY <1>2, <2>1, <2>8, <3>1 DEF Context
  <2>11. "record" \notin Faults => record' = active'
    BY <1>2, <2>5 DEF WriteRecord
  <2>12. record' \in Context \cup {None}
    BY <1>0, <1>2, <2>10 DEF WriteRecord, TypeOK
  <2>13. published' \in StateEvent
    BY <1>0, <1>2, <2>10, RunningEvent DEF TypeOK
  <2>14. "close" \notin Faults /\ proc = "up" =>
              published' = [running |-> TRUE, active |-> active']
    BY <1>2, <2>5
  <2>15. TypeOK'
    BY <1>0, <1>2, <2>6, <2>10, <2>12, <2>13 DEF TypeOK
  <2>16. TasksPrepared'
    BY <1>0, <1>2 DEF TasksPrepared, IsMember, DisplayName, Present
  <2>17. plan' # None
    BY <2>6
  <2>18. IsMember(plan, active.node)' /\ (active.name = DisplayName(plan, active.node))'
    BY <2>6, <2>9, <2>10 DEF IsMember, DisplayName, Present
  <2> QED
    BY <1>2, <2>5, <2>10, <2>11, <2>14, <2>15, <2>16, <2>17, <2>18
    DEF SessionInv, OneSession, ActiveWithSession, LiveIsIntent, LabelAgrees,
        RecordTracksSession, StateIsPublished, DownIsIdle
<1>3. ASSUME sess # None, active # None, NEW cur \in found,
             task' = [task EXCEPT ![t] = decided(cur)],
             UNCHANGED <<plan, active, record, published>>
      PROVE  SessionInv'
  <2>1. active \in Context /\ active.node \in Node /\ active.mode \in Mode
    BY <1>0, <1>3 DEF TypeOK, Context
  <2>2. cur \in Node
    BY <2>1, <1>3, FoundIsPresent
  <2>3. [profile |-> p, ref |-> cur, mode |-> active.mode] \in Request
    BY <2>1, <2>2 DEF Request
  <2>4. [sess |-> sess, selection |-> active.node] \in Decision
    BY <1>0, <1>3, <2>1 DEF TypeOK, Decision
  <2>5. /\ decided(cur) \in TaskState
        /\ decided(cur).pc = "prepare"
        /\ decided(cur).req # None
    BY <2>3, <2>4 DEF TaskState
  <2> HIDE DEF decided
  <2>6. task' \in [Task -> TaskState] /\ TasksPrepared'
    BY <1>0, <1>3, <2>5, OneTaskPrepared
  <2> QED
    BY <1>0, <1>3, <2>6, TaskStepInv DEF TypeOK, engine
<1>4. \/ UNCHANGED <<plan, active, record, published, task>>
      \/ /\ sess # None /\ active # None
         /\ \E cur \in found :
               \/ /\ Plannable(ns, base(cur)) /\ PlanMembersEqual(plan, fresh(cur))
                  /\ plan' = Relabel(plan, fresh(cur))
                  /\ active' = [active EXCEPT !.name = ns[cur].name]
                  /\ IF plan' = plan /\ active' = active
                     THEN UNCHANGED <<record, published>>
                     ELSE /\ WriteRecord(active')
                          /\ published' = [running |-> TRUE, active |-> active']
                  /\ UNCHANGED task
               \/ /\ task' = [task EXCEPT ![t] = decided(cur)]
                  /\ UNCHANGED <<plan, active, record, published>>
  BY Zenon DEF Reconsider
<1> HIDE DEF found, base, fresh, decided
<1> QED
  BY <1>1, <1>2, <1>3, <1>4

(* Saving a node set keeps the store well typed.                           *)
LEMMA SaveProfileType ==
    ASSUME TypeOK, NEW p \in Profile, NEW ns \in NodeSet, SaveProfile(p, ns)
    PROVE  nodes' \in [Profile -> NodeSet] /\ edits' \in Nat
BY DEF TypeOK, SaveProfile

(* A background refresh that lands.                                        *)
LEMMA LandRefreshInv == SessionInv /\ LandRefresh => SessionInv'
<1> SUFFICES ASSUME SessionInv, LandRefresh PROVE SessionInv'
  OBVIOUS
<1> PICK p \in Profile, ns \in Stored : SaveProfile(p, ns) /\ Reconsider("sweep", p, ns)
  BY DEF LandRefresh
<1>1. ns \in NodeSet /\ "sweep" \in Task
  BY DEF Task
<1>2. nodes' \in [Profile -> NodeSet] /\ edits' \in Nat
  BY <1>1, SaveProfileType DEF SessionInv
<1> QED
  BY <1>1, <1>2, ReconsiderInv DEF LandRefresh

(* A core pin: saved, or reconsidered and then not saved.                  *)
LEMMA SetNodePrefsInv ==
    ASSUME SessionInv, NEW c \in Client, SetNodePrefs(c)
    PROVE  SessionInv'
<1> PICK p \in Profile, n \in Node \ Group, b \in Body :
          LET ns == [nodes[p] EXCEPT ![n] = [@ EXCEPT !.body = b]]
          IN  /\ Present(nodes[p], n)
              /\ \/ SaveProfile(p, ns) /\ Reconsider(c, p, ns)
                 \/ /\ "profile" \in Faults /\ Reconsider(c, p, ns)
                    /\ task' = task
                    /\ UNCHANGED <<nodes, edits>>
  BY DEF SetNodePrefs
<1> DEFINE ns == [nodes[p] EXCEPT ![n] = [@ EXCEPT !.body = b]]
<1>0. TypeOK /\ proc # "down" /\ c \in Task
  BY DEF SessionInv, SetNodePrefs, Task
<1>1. nodes[p] \in NodeSet
  BY <1>0 DEF TypeOK
<1>2. nodes[p][n] \in Doc
  BY <1>1, PresentDoc
<1>3. [nodes[p][n] EXCEPT !.body = b] \in Doc
  BY <1>2 DEF Doc
<1>4. ns \in NodeSet
  BY <1>1, <1>3 DEF NodeSet
<1>5. Reconsider(c, p, ns)
  OBVIOUS
<1>6. nodes' \in [Profile -> NodeSet] /\ edits' \in Nat
  BY <1>0, <1>4, SaveProfileType DEF TypeOK
<1>7. UNCHANGED <<proc, sess, live, open, cache, stopped>>
  BY DEF SetNodePrefs
<1> HIDE DEF ns
<1> QED
  BY <1>0, <1>4, <1>5, <1>6, <1>7, ReconsiderInv

(* The verbs that save a profile and never look at the session.            *)
LEMMA EditProfileInv == SessionInv /\ EditProfile => SessionInv'
<1> SUFFICES ASSUME SessionInv, EditProfile PROVE SessionInv'
  OBVIOUS
<1>1. nodes' \in [Profile -> NodeSet] /\ edits' \in Nat
  BY SaveProfileType DEF SessionInv, EditProfile
<1>2. task' \in [Task -> TaskState] /\ TasksPrepared'
  BY DEF SessionInv, EditProfile, TypeOK, TasksPrepared, IsMember, DisplayName, Present
<1> QED
  BY <1>1, <1>2, TaskStepInv DEF EditProfile, SessionInv, TypeOK

(* restoreLastSession reading the record.                                  *)
LEMMA RestoreLoadInv == SessionInv /\ RestoreLoad => SessionInv'
<1> SUFFICES ASSUME SessionInv, RestoreLoad PROVE SessionInv'
  OBVIOUS
<1>0. TypeOK /\ TasksPrepared /\ "restore" \in Task
  BY DEF SessionInv, Task
<1>1. proc # "down"
  BY <1>0, BusyMeansAlive DEF RestoreLoad
<1>2. task' \in [Task -> TaskState] /\ TasksPrepared'
  <2>1. CASE task' = [task EXCEPT !["restore"] = IdleTask]
    BY <1>0, <2>1, IdleTaskType, OneTaskPrepared
  <2>2. CASE record # None /\ task' # [task EXCEPT !["restore"] = IdleTask]
    <3> DEFINE r == [profile |-> record.profile,
                     ref  |-> IF Present(nodes[record.profile], record.node)
                              THEN record.node ELSE record.name,
                     mode |-> record.mode]
               v == [pc  |-> "prepare", prep |-> None, rc |-> None, req |-> r]
    <3>1. r \in Request /\ r # None
      BY <1>0, <2>2 DEF TypeOK, Context, Request
    <3>2. v \in TaskState /\ v.pc = "prepare" /\ v.req # None
      BY <3>1 DEF TaskState
    <3>3. task' = [task EXCEPT !["restore"] = v]
      BY <2>2 DEF RestoreLoad
    <3> HIDE DEF v
    <3> QED
      BY <1>0, <3>2, <3>3, OneTaskPrepared
  <2> QED
    BY <2>1, <2>2 DEF RestoreLoad
<1> QED
  BY <1>0, <1>1, <1>2, TaskStepInv DEF RestoreLoad, TypeOK, disk

(* Boot, shutdown, exit and crash.                                         *)
LEMMA LifecycleInv ==
    SessionInv /\ (Boot \/ Shutdown \/ Exit \/ Crash) => SessionInv'
<1> SUFFICES ASSUME SessionInv, Boot \/ Shutdown \/ Exit \/ Crash
             PROVE  SessionInv'
  OBVIOUS
<1>0. TypeOK /\ TasksPrepared
  BY DEF SessionInv
<1>1. CASE Boot
  <2> DEFINE v == [IdleTask EXCEPT !.pc = "load"]
  <2>1. v \in TaskState /\ v.pc = "load" /\ "restore" \in Task
    BY DEF IdleTask, TaskState, Task
  <2>2. task' = [task EXCEPT !["restore"] = v]
    BY <1>1 DEF Boot
  <2> HIDE DEF v
  <2>3. task' \in [Task -> TaskState] /\ TasksPrepared'
    BY <1>0, <2>1, <2>2, OneTaskPrepared
  <2>4. UNCHANGED <<engine, published, disk, stopped>> /\ proc' = "up" /\ proc = "down"
    BY <1>1 DEF Boot
  <2>5. TypeOK'
    BY <1>0, <2>3, <2>4 DEF TypeOK, engine, disk
  <2> QED
    BY <2>3, <2>4, <2>5
    DEF SessionInv, OneSession, ActiveWithSession, LiveIsIntent, LabelAgrees,
        RecordTracksSession, StateIsPublished, DownIsIdle, IdleEvent, engine, disk
<1>2. CASE Shutdown
  <2>1. TypeOK'
    BY <1>0, <1>2 DEF TypeOK, Shutdown, disk
  <2>2. TasksPrepared'
    BY <1>0, <1>2 DEF TasksPrepared, Shutdown, IsMember, DisplayName, Present
  <2> QED
    BY <1>2, <2>1, <2>2
    DEF Shutdown, SessionInv, OneSession, ActiveWithSession, LiveIsIntent,
        LabelAgrees, RecordTracksSession, StateIsPublished, DownIsIdle
<1>3. CASE ProcessGone /\ cache' \in Node \cup {None}
  <2>1. TypeOK'
    <3>1. task' \in [Task -> TaskState]
      BY <1>3, IdleTaskType DEF ProcessGone
    <3>2. published' \in StateEvent
      BY <1>3 DEF ProcessGone, IdleEvent, StateEvent
    <3> QED
      BY <1>0, <1>3, <3>1, <3>2 DEF TypeOK, ProcessGone
  <2>2. \A t \in Task : task'[t].pc = "idle"
    BY <1>3, IdleTaskType DEF ProcessGone
  <2>3. TasksPrepared'
    BY <2>2 DEF TasksPrepared
  <2> QED
    BY <1>3, <2>1, <2>2, <2>3
    DEF ProcessGone, SessionInv, OneSession, ActiveWithSession, LiveIsIntent,
        LabelAgrees, RecordTracksSession, StateIsPublished, DownIsIdle
<1> QED
  BY <1>0, <1>1, <1>2, <1>3 DEF Exit, Crash, TypeOK

-----------------------------------------------------------------------------
(* The theorems.                                                           *)

(* No step of the manager, of its background jobs or of the process        *)
(* lifecycle leaves SessionInv.                                            *)
LEMMA NextInv == SessionInv /\ [Next]_vars => SessionInv'
<1> SUFFICES ASSUME SessionInv, [Next]_vars PROVE SessionInv'
  OBVIOUS
<1>1. ASSUME NEW c \in Client, Activate(c) PROVE SessionInv'
  <2> PICK req \in Request : PrepareActivation(c, req, None)
    BY <1>1 DEF Activate
  <2> QED
    BY <1>1, PrepareActivationInv DEF Activate, Task
<1>2. ASSUME NEW c \in Client, SwitchNode(c) \/ Stop(c) \/ SetNodePrefs(c)
      PROVE SessionInv'
  BY <1>2, SwitchNodeInv, StopInv, SetNodePrefsInv
<1>3. ASSUME NEW t \in Task, Prepare(t) PROVE SessionInv'
  <2>1. task[t] \in TaskState /\ proc # "down"
    BY <1>3, BusyMeansAlive DEF SessionInv, TypeOK, Prepare
  <2>2. task[t].req \in Request /\ task[t].rc \in Decision \cup {None}
    BY <1>3, <2>1 DEF SessionInv, TasksPrepared, Prepare, TaskState
  <2> QED
    BY <1>3, <2>1, <2>2, PrepareActivationInv DEF Prepare
<1>4. ASSUME NEW t \in Task, Start(t) PROVE SessionInv'
  BY <1>4, StartInv
<1>5. CASE UNCHANGED vars
  BY <1>5, StutterInv
<1> QED
  BY <1>1, <1>2, <1>3, <1>4, <1>5, LandRefreshInv, EditProfileInv,
     RestoreLoadInv, LifecycleInv DEF Next

(* SessionInv holds in every reachable state.                              *)
THEOREM SessionInvariant == Spec => []SessionInv
BY InitInv, NextInv, PTL DEF Spec

(* Every variable keeps its type, for all profiles, nodes, clients and     *)
(* faults.                                                                 *)
THEOREM TypeCorrect == Spec => []TypeOK
<1>1. SessionInv => TypeOK
  BY DEF SessionInv
<1> QED
  BY <1>1, SessionInvariant, PTL

(* The engine holds the manager's session and no other.                    *)
THEOREM AtMostOneSession == Spec => []OneSession
<1>1. SessionInv => OneSession
  BY DEF SessionInv
<1> QED
  BY <1>1, SessionInvariant, PTL

(* No verb dereferences a nil activation context.                          *)
THEOREM ContextWithSession == Spec => []ActiveWithSession
<1>1. SessionInv => ActiveWithSession
  BY DEF SessionInv
<1> QED
  BY <1>1, SessionInvariant, PTL

(* The traffic goes through the node the status names.                     *)
THEOREM TrafficFollowsIntent == Spec => []LiveIsIntent
<1>1. SessionInv => LiveIsIntent
  BY DEF SessionInv
<1> QED
  BY <1>1, SessionInvariant, PTL

(* The selection's label is the running plan's label for it.               *)
THEOREM LabelsStayTrue == Spec => []LabelAgrees
<1>1. SessionInv => LabelAgrees
  BY DEF SessionInv
<1> QED
  BY <1>1, SessionInvariant, PTL

(* With reliable record writes, a running session is what a restart would  *)
(* restore.                                                                *)
THEOREM RecordFollowsSession == Spec => []RecordTracksSession
<1>1. SessionInv => RecordTracksSession
  BY DEF SessionInv
<1> QED
  BY <1>1, SessionInvariant, PTL

(* If closing a session never fails, the last State event is the state.    *)
THEOREM EventsFollowState == Spec => []StateIsPublished
<1>1. SessionInv => StateIsPublished
  BY DEF SessionInv
<1> QED
  BY <1>1, SessionInvariant, PTL

-----------------------------------------------------------------------------
(* The manager implements SessionIntent.                                   *)

(* What runs, as SessionIntent sees it.                                    *)
runBar == IF sess = None THEN None ELSE active

(* Every step of the manager is a step of SessionIntent, or leaves what    *)
(* runs and what is recorded alone.                                        *)
LEMMA IntentStep ==
    SessionInv /\ [Next]_vars => [Intent!Next]_<<runBar, record, stopped>>
<1> SUFFICES ASSUME SessionInv, [Next]_vars
             PROVE  [Intent!Next]_<<runBar, record, stopped>>
  OBVIOUS
<1> USE DEF runBar
<1>0. TypeOK /\ TasksPrepared /\ (sess # None => active \in Context)
  BY DEF SessionInv, ActiveWithSession, TypeOK
<1>1. CASE UNCHANGED <<sess, active, record, stopped>>
  BY <1>1
<1>2. CASE sess' = None /\ UNCHANGED <<record, stopped>>
  BY <1>0, <1>2 DEF Intent!Next, Intent!Lose
<1>3. CASE /\ sess' # None /\ active' \in Context /\ WriteRecord(active')
           /\ stopped' \in {stopped, FALSE}
  BY <1>3 DEF Intent!Next, Intent!Run, Intent!Written, WriteRecord
<1>4. CASE sess # None /\ sess' = None /\ WriteRecord(None) /\ stopped' = TRUE
  BY <1>0, <1>4 DEF Intent!Next, Intent!Quit, Intent!Written, WriteRecord
<1>5. ASSUME NEW t \in Task, Start(t) PROVE [Intent!Next]_<<runBar, record, stopped>>
  <2>1. task[t].prep.context \in Context
    BY <1>0, <1>5 DEF Start, TasksPrepared, TypeOK, TaskState, Activation
  <2>2. CASE Overtaken(t)
    BY <1>1, <1>5, <2>2 DEF Start, engine
  <2>3. CASE ~Overtaken(t)
    BY <1>2, <1>3, <1>5, <2>1, <2>3
    DEF Start, StartActivation, CloseFails, StartFails, ForgetSession, SessionStarts
  <2> QED
    BY <2>2, <2>3
<1>6. ASSUME NEW c \in Client, SwitchNode(c) PROVE [Intent!Next]_<<runBar, record, stopped>>
  <2>1. ASSUME NEW tag, SwitchLive(tag) PROVE [Intent!Next]_<<runBar, record, stopped>>
    <3>1. SessionInv' /\ sess' = sess /\ sess # None
      BY <1>6, <2>1, SwitchNodeInv DEF SwitchLive, SwitchNode
    <3>2. active' \in Context
      BY <3>1 DEF SessionInv, TypeOK, ActiveWithSession
    <3> QED
      BY <1>3, <2>1, <3>1, <3>2 DEF SwitchLive
  <2> QED
    BY <1>1, <1>6, <2>1 DEF SwitchNode, engine
<1>7. ASSUME NEW c \in Client, Stop(c) PROVE [Intent!Next]_<<runBar, record, stopped>>
  <2>1. CASE sess = None
    BY <1>7, <2>1 DEF Stop, engine, Intent!Next, Intent!QuitIdle
  <2>2. CASE sess # None
    BY <1>4, <1>7, <2>2 DEF Stop, ForgetSession
  <2> QED
    BY <2>1, <2>2
<1>8. ASSUME NEW t, NEW p, NEW ns, Reconsider(t, p, ns), SessionInv',
             UNCHANGED <<sess, stopped>>
      PROVE  [Intent!Next]_<<runBar, record, stopped>>
  <2>1. \/ UNCHANGED <<active, record>>
        \/ sess # None /\ WriteRecord(active')
    BY <1>8 DEF Reconsider
  <2>2. sess # None => active' \in Context
    BY <1>8 DEF SessionInv, TypeOK, ActiveWithSession
  <2> QED
    BY <1>1, <1>3, <1>8, <2>1, <2>2
<1>9. CASE LandRefresh
  BY <1>8, <1>9, LandRefreshInv DEF LandRefresh
<1>10. ASSUME NEW c \in Client, SetNodePrefs(c)
       PROVE  [Intent!Next]_<<runBar, record, stopped>>
  BY <1>8, <1>10, SetNodePrefsInv DEF SetNodePrefs
<1>11. ASSUME NEW c \in Client, Activate(c)
       PROVE  [Intent!Next]_<<runBar, record, stopped>>
  BY <1>1, <1>11 DEF Activate, PrepareActivation, engine, disk
<1>12. ASSUME NEW t \in Task, Prepare(t)
       PROVE  [Intent!Next]_<<runBar, record, stopped>>
  BY <1>1, <1>12 DEF Prepare, PrepareActivation, engine, disk
<1>13. CASE EditProfile \/ RestoreLoad \/ Boot \/ UNCHANGED vars
  BY <1>1, <1>13 DEF EditProfile, RestoreLoad, Boot, vars, engine, disk
<1>14. CASE Shutdown \/ Exit \/ Crash
  BY <1>2, <1>14 DEF Shutdown, Exit, Crash, ProcessGone, disk
<1> QED
  BY <1>5, <1>6, <1>7, <1>9, <1>10, <1>11, <1>12, <1>13, <1>14 DEF Next

(* Running records the intent, an explicit stop forgets it, and no other   *)
(* loss of the session touches it.                                         *)
THEOREM ImplementsSessionIntent == Spec => ImplementsIntent
<1>1. Init => Intent!Init
  BY DEF Init, Intent!Init
<1>2. SessionInv /\ [Next]_vars => [Intent!Next]_<<runBar, record, stopped>>
  BY IntentStep
<1> QED
  BY <1>1, <1>2, SessionInvariant, PTL DEF Spec, ImplementsIntent, Intent!Spec, runBar

-----------------------------------------------------------------------------
(* Reconnects.                                                             *)

(* ReconnectsMatch survives a step that keeps or resets every task, and    *)
(* either ends the session or keeps it with its profile and mode.          *)
LEMMA MatchKept ==
    ASSUME TypeOK, ReconnectsMatch,
           \A t \in Task : task'[t] = task[t] \/ task'[t].rc = None,
           \/ sess' = None
           \/ /\ sess' = sess
              /\ sess # None => /\ active'.profile = active.profile
                                /\ active'.mode = active.mode
    PROVE  ReconnectsMatch'
<1> SUFFICES ASSUME NEW t \in Task, task'[t].rc # None, sess' = task'[t].rc.sess
             PROVE  /\ task'[t].pc = "prepare" =>
                          /\ task'[t].req.profile = active'.profile
                          /\ task'[t].req.mode = active'.mode
                    /\ task'[t].pc = "start" =>
                          /\ task'[t].prep.context.profile = active'.profile
                          /\ task'[t].prep.context.mode = active'.mode
  BY DEF ReconnectsMatch
<1>1. task'[t] = task[t]
  OBVIOUS
<1>2. task[t].rc \in Decision
  BY <1>1 DEF TypeOK, TaskState
<1>3. sess' # None
  BY <1>1, <1>2 DEF Decision
<1> QED
  BY <1>1, <1>3 DEF ReconnectsMatch

(* Preparing hands the request's profile and mode to the activation.       *)
LEMMA MatchPrepare ==
    ASSUME TypeOK, ReconnectsMatch, NEW t \in Task, NEW req \in Request,
           NEW rc, PrepareActivation(t, req, rc),
           rc # None => /\ rc = task[t].rc /\ req = task[t].req
                        /\ task[t].pc = "prepare"
    PROVE  ReconnectsMatch'
<1>0. task \in [Task -> TaskState]
  BY DEF TypeOK
<1>1. UNCHANGED <<sess, active>>
  BY DEF PrepareActivation, engine
<1>2. CASE task' = [task EXCEPT ![t] = IdleTask]
  BY <1>0, <1>1, <1>2, MatchKept, IdleTaskType
<1>3. CASE task' # [task EXCEPT ![t] = IdleTask]
  <2> DEFINE ns == nodes[req.profile]
  <2> PICK n, tg : task' = [task EXCEPT ![t] =
                 [pc   |-> "start", req |-> None, rc |-> rc,
                  prep |-> [context |-> [profile |-> req.profile, node |-> n,
                                         name |-> ns[n].name, mode |-> req.mode],
                            plan |-> BuildPlan(ns, n, tg)]]]
    BY <1>3 DEF PrepareActivation
  <2>1. /\ task'[t].rc = rc /\ task'[t].pc = "start"
        /\ task'[t].prep.context.profile = req.profile
        /\ task'[t].prep.context.mode = req.mode
    BY <1>0
  <2>2. \A u \in Task : u # t => task'[u] = task[u]
    BY <1>0
  <2> QED
    BY <1>1, <2>1, <2>2 DEF ReconnectsMatch
<1> QED
  BY <1>2, <1>3

(* A started session is none that a pending reconnect was decided against. *)
LEMMA MatchStart ==
    ASSUME SessionInv, ReconnectsMatch, NEW t \in Task, Start(t)
    PROVE  ReconnectsMatch'
<1>0. TypeOK /\ task \in [Task -> TaskState]
  BY DEF SessionInv, TypeOK
<1>1. \A u \in Task : task'[u] = task[u] \/ task'[u].rc = None
  BY <1>0, IdleTaskType DEF Start
<1>2. CASE Overtaken(t) \/ CloseFails \/ StartFails
  BY <1>0, <1>1, <1>2, MatchKept DEF Start, engine, CloseFails, StartFails, ForgetSession
<1>3. CASE SessionStarts(task[t].prep)
  <2>1. \A u \in Task : task'[u].rc # None => sess' # task'[u].rc.sess
    BY <1>1, <1>3 DEF SessionStarts, Referenced
  <2> QED
    BY <2>1 DEF ReconnectsMatch
<1> QED
  BY <1>2, <1>3 DEF Start, StartActivation, Overtaken

(* A reconnect is decided with the running session's profile and mode.     *)
LEMMA MatchReconsider ==
    ASSUME SessionInv, ReconnectsMatch, NEW t \in Task, NEW p, NEW ns,
           Reconsider(t, p, ns), UNCHANGED sess
    PROVE  ReconnectsMatch'
<1>0. /\ TypeOK /\ task \in [Task -> TaskState]
      /\ sess # None => active \in Context
  BY DEF SessionInv, TypeOK, ActiveWithSession
<1>1. CASE UNCHANGED <<active, task>>
  BY <1>0, <1>1, MatchKept
<1>2. ASSUME NEW m, active' = [active EXCEPT !.name = m], UNCHANGED task,
             sess # None
      PROVE  ReconnectsMatch'
  <2>1. active'.profile = active.profile /\ active'.mode = active.mode
    BY <1>0, <1>2 DEF Context
  <2> QED
    BY <1>0, <1>2, <2>1, MatchKept
<1>3. ASSUME NEW cur, active.profile = p, UNCHANGED active,
             task' = [task EXCEPT ![t] =
                [pc  |-> "prepare", prep |-> None,
                 rc  |-> [sess |-> sess, selection |-> active.node],
                 req |-> [profile |-> p, ref |-> cur, mode |-> active.mode]]]
      PROVE  ReconnectsMatch'
  <2>1. /\ task'[t].pc = "prepare"
        /\ task'[t].req.profile = p /\ task'[t].req.mode = active.mode
    BY <1>0, <1>3
  <2>2. \A u \in Task : u # t => task'[u] = task[u]
    BY <1>0, <1>3
  <2> QED
    BY <1>3, <2>1, <2>2 DEF ReconnectsMatch
<1> QED
  BY <1>1, <1>2, <1>3 DEF Reconsider

(* ReconnectsMatch is inductive relative to SessionInv.                    *)
LEMMA MatchStep ==
    SessionInv /\ ReconnectsMatch /\ [Next]_vars => ReconnectsMatch'
<1> SUFFICES ASSUME SessionInv, ReconnectsMatch, [Next]_vars
             PROVE  ReconnectsMatch'
  OBVIOUS
<1>0. /\ TypeOK /\ task \in [Task -> TaskState] /\ TasksPrepared
      /\ sess # None => active \in Context
  BY DEF SessionInv, TypeOK, ActiveWithSession
<1>1. ASSUME NEW c \in Client, Activate(c) PROVE ReconnectsMatch'
  BY <1>0, <1>1, MatchPrepare DEF Activate, Task
<1>2. ASSUME NEW t \in Task, Prepare(t) PROVE ReconnectsMatch'
  <2>1. task[t].req \in Request
    BY <1>0, <1>2 DEF Prepare, TasksPrepared, TaskState
  <2> QED
    BY <1>0, <1>2, <2>1, MatchPrepare DEF Prepare
<1>3. ASSUME NEW t \in Task, Start(t) PROVE ReconnectsMatch'
  BY <1>3, MatchStart
<1>4. ASSUME NEW c \in Client, SwitchNode(c) PROVE ReconnectsMatch'
  <2>1. ASSUME NEW tag, SwitchLive(tag) PROVE ReconnectsMatch'
    <3>1. active'.profile = active.profile /\ active'.mode = active.mode
      BY <1>0, <1>4, <2>1 DEF SwitchNode, SwitchLive, Context
    <3> QED
      BY <1>0, <2>1, <3>1, MatchKept DEF SwitchLive
  <2>2. ASSUME NEW ref, UNCHANGED engine,
               task' = [task EXCEPT ![c] =
                       [pc  |-> "prepare", prep |-> None, rc |-> None,
                        req |-> [profile |-> active.profile, ref |-> ref,
                                 mode |-> active.mode]]]
        PROVE ReconnectsMatch'
    BY <1>0, <2>2, MatchKept DEF engine, Task
  <2> QED
    BY <1>4, <2>1, <2>2 DEF SwitchNode
<1>5. ASSUME NEW c \in Client, Stop(c) PROVE ReconnectsMatch'
  BY <1>0, <1>5, MatchKept DEF Stop, ForgetSession, engine
<1>6. ASSUME NEW c \in Client, SetNodePrefs(c) PROVE ReconnectsMatch'
  <2>1. c \in Task
    BY DEF Task
  <2> QED
    BY <1>6, <2>1, MatchReconsider DEF SetNodePrefs
<1>7. CASE LandRefresh
  <2>1. "sweep" \in Task
    BY DEF Task
  <2> QED
    BY <1>7, <2>1, MatchReconsider DEF LandRefresh
<1>8. CASE EditProfile \/ UNCHANGED vars
  BY <1>0, <1>8, MatchKept DEF EditProfile, engine, vars
<1>9. CASE RestoreLoad
  <2>1. \A t \in Task : task'[t] = task[t] \/ task'[t].rc = None
    BY <1>0, <1>9, IdleTaskType DEF RestoreLoad
  <2> QED
    BY <1>0, <1>9, <2>1, MatchKept DEF RestoreLoad, engine
<1>10. CASE Boot
  <2>1. \A t \in Task : task'[t] = task[t] \/ task'[t].rc = None
    BY <1>0, <1>10, IdleTaskType DEF Boot, IdleTask
  <2> QED
    BY <1>0, <1>10, <2>1, MatchKept DEF Boot, engine
<1>11. CASE Shutdown \/ Exit \/ Crash
  BY <1>0, <1>11, MatchKept, IdleTaskType DEF Shutdown, Exit, Crash, ProcessGone
<1> QED
  BY <1>1, <1>2, <1>3, <1>4, <1>5, <1>6, <1>7, <1>8, <1>9, <1>10, <1>11 DEF Next

(* Only the locked half of an activation brings up a session.              *)
LEMMA OnlyStartStarts ==
    ASSUME SessionInv, [Next]_vars, sess' # sess, sess' # None
    PROVE  \E t \in Task : Start(t) /\ SessionStarts(task[t].prep) /\ ~Overtaken(t)
<1>1. \A c \in Client : ~Activate(c) /\ ~SwitchNode(c) /\ ~Stop(c) /\ ~SetNodePrefs(c)
  BY DEF Activate, PrepareActivation, SwitchNode, SwitchLive, Stop, ForgetSession, SetNodePrefs, engine
<1>2. \A t \in Task : ~Prepare(t)
  BY DEF Prepare, PrepareActivation, engine
<1>3. /\ ~LandRefresh /\ ~EditProfile /\ ~RestoreLoad /\ ~Boot
      /\ ~Shutdown /\ ~Exit /\ ~Crash /\ ~UNCHANGED vars
  BY DEF LandRefresh, EditProfile, RestoreLoad, Boot, Shutdown, Exit, Crash,
         ProcessGone, engine, vars
<1>4. PICK t \in Task : Start(t)
  BY <1>1, <1>2, <1>3 DEF Next
<1>5. SessionStarts(task[t].prep) /\ ~Overtaken(t)
  BY <1>4 DEF Start, StartActivation, CloseFails, StartFails, ForgetSession, engine
<1> QED
  BY <1>4, <1>5

(* A reconnect keeps the user's choice: it replaces only the session it    *)
(* was decided against, with its profile and mode, while the selection is  *)
(* still the one decided against.                                          *)
THEOREM ReconnectsKeepChoice == Spec => ReconnectKeepsChoice
<1> DEFINE Kept(t) == ReconnectStep(t) =>
          /\ sess # None
          /\ active'.profile = active.profile /\ active'.mode = active.mode
          /\ active.node = task[t].rc.selection
<1>1. ASSUME SessionInv, ReconnectsMatch, [Next]_vars
      PROVE  [\A t \in Task : Kept(t)]_vars
  <2> SUFFICES ASSUME NEW t \in Task, ReconnectStep(t)
               PROVE  /\ sess # None
                      /\ active'.profile = active.profile
                      /\ active'.mode = active.mode
                      /\ active.node = task[t].rc.selection
    OBVIOUS
  <2>0. TypeOK /\ task \in [Task -> TaskState] /\ task[t].rc \in Decision
    BY <1>1 DEF SessionInv, TypeOK, TaskState, ReconnectStep
  <2>1. PICK u \in Task : Start(u) /\ SessionStarts(task[u].prep) /\ ~Overtaken(u)
    BY <1>1, OnlyStartStarts DEF ReconnectStep
  <2>2. u = t
    BY <2>0, <2>1 DEF ReconnectStep, Start
  <2>3. sess = task[t].rc.sess /\ active.node = task[t].rc.selection
    BY <2>1, <2>2 DEF Overtaken, DecisionStands, ReconnectStep
  <2>4. sess # None
    BY <2>0, <2>3 DEF Decision
  <2>5. /\ task[t].prep.context.profile = active.profile
        /\ task[t].prep.context.mode = active.mode
    BY <1>1, <2>3 DEF ReconnectsMatch, ReconnectStep
  <2> QED
    BY <2>1, <2>2, <2>3, <2>4, <2>5 DEF SessionStarts
<1>2. Init => ReconnectsMatch
  BY IdleTaskType DEF Init, ReconnectsMatch
<1> QED
  BY <1>1, <1>2, MatchStep, SessionInvariant, PTL DEF Spec, ReconnectKeepsChoice
=============================================================================
