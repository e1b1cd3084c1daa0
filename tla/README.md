# iron-link in TLA+

iron-link is a proxy client: a Go daemon (`src/daemon-go`) embeds the sing-box and
xray cores, owns the profiles, the running session and the updates, and serves a
framed-JSON control protocol over a local socket; a Flutter application
(`src/client-flutter`) is its user interface. This directory models the daemon's
own logic: what its goroutines do to shared state around one mutex, to the files
they keep, and to the cores; and the part of the client that keeps showing it. TLC checks the models on small instances, TLAPS
proves the central invariants for instances of every size.

`PROJECT.json` lists, for every definition, the source lines it stands for.

## 1. Inventory

### How the daemon works

One `manager` value owns almost all state under one mutex, `manager.mu`. Each
control connection carries one request and is served by a goroutine of its own
(`ipc/server.go`), so requests interleave at every point where `mu` is free. Two
loops run beside them, the subscription sweep (every minute) and the update check
(hourly tick, daily cadence), and one job runs once, the restore of the last
session. Events go out through `ipc.Hub`, a bounded fan-out that drops what a slow
subscriber cannot take. Files are written by atomic rename under the store's
directory; each is small and stands for itself.

`mu` is held across engine start and close, but released for whatever waits on
the network: preparing an activation, fetching a subscription, an update check,
a download, hashing the installer. Those gaps are where the code is hard: state
read before one is used after it.

| Part | State | Operations | Hard behaviour | What makes it correct |
|---|---|---|---|---|
| Session manager (`manager.go`, `engine/session.go`, `engine/plan.go`) | `m.sess`, `m.plan`, `m.active`, the selector's live member, `last_session.json`, `cache.db` | activate, switch_node, stop, restore, reconnect, shutdown | activations prepared with `mu` free; a reconnect decided, prepared and started in three steps; failing starts, closes and record writes; crashes | never two engine sessions; traffic goes through the node the daemon reports; a reconnect never overrides the user; the record follows the intent |
| Profile store (`store/*.go`, `manager_store.go`) | `profiles/*.json`, `state.json` | profile, node, group, pin, subscription and routing verbs | sequences of verbs and refreshes; schema migration; failing writes | selections resolve; ids and pins survive a refresh; nothing outlives its subscription; the user's interval stays |
| Subscription refresh (`subscription/*.go`, `manager_subscriptions.go`) | subscriptions' nodes, errors, the in-memory backoff | manual refresh, sweep, landing | a fetch of seconds lands on a profile edited or refreshed meanwhile; failures in a row; the clock set back | a result is applied only to the subscription and URL it was fetched for; a failing provider is left alone for its backoff; a due subscription is tried again |
| Update trust (`update/check.go`, `verify.go`, `seqstore.go`) | the state file (floor, revoked keys), the cached result | check, landing, announcement | checks run side by side over one file; each write may fail; restarts | no rollback; a recovery signature retires the other keys for good; one announcement per version |
| Update download and apply (`manager_update.go`, `update/download.go`) | `download_state`, the staged file, temp files | download_update, apply_update, supersession by a check, shutdown | transfer and hash without `mu`; file names reused; files swapped | the reported file is the current, landed, hashed one; a transfer always settles |
| Routing (`routing/*.go`, `engine/route.go`) | configs of a profile | upsert, select, remove; compilation | targets that vanish | unique names; the compiled rule list means what the config says |
| Core selection (`proxy/selection.go`, `capabilities.go`) | none | `SelectCore` | capability table and pins | a core is chosen exactly when one can dial the node |
| Event hub and server (`ipc/hub.go`, `server.go`, `codec.go`) | subscribers and their buffers | subscribe, broadcast, stream | registered before the snapshot is taken; drops at a full buffer | a client's view becomes right again |
| Client session (`app/session.dart`) | the last state shown, generations of polls | events, polls, reconnects | replies on one connection, events on another | an older reply never overwrites newer state |
| Settings (`manager_settings.go`, `store/settings.go`) | `settings.json` | get, set | an activation reads them with `mu` free | stored settings are valid; whoever runs on older ones was told |
| Diagnosis and probes (`manager_doctor.go`, `engine/doctor.go`, `diagnose.go`, `netreport.go`, `quality.go`, `probe_singbox.go`) | the legs of a running verb, the last report | doctor, doctor_nodes, diagnose, test_latency, network_report, forwarding_check; the page's apply | legs end in any order or not before the budget; network and settings move under them; remedies change what is judged | a row is green exactly when what it stands for is; remedies do not go in circles; every verb answers |
| Instrumentation (`engine/instrument.go`, `logtap_clash.go`) | counters | traffic_apps | | statistics nothing decides by |
| Node and subscription formats (`proxy/*.go`, `subscription/parse*.go`) | none | parse, format | untidy inputs | string conversions |
| Service control, endpoints, user interface | the operating system's | install, start, listen; widgets, tray | | not modelled |

The parts interact like this: a refresh or a core pin changes a profile and then
asks the session manager to reconsider the running session; an activation reads a
profile and the settings with `mu` free; update traffic uses the running session's
tunnel when there is one; a landed check may discard the staged installer;
shutdown closes the session and waits for a download; every transition is
broadcast to the hub, and the client repairs what it missed by polling.

### Hazards

`PROJECT.json` ("hazards") lists each hazard at its line, with the properties that
would catch it. Those without a property say why.

## 2. Modules

| Module | Models |
|---|---|
| `Session` | the session manager |
| `SessionIntent` | the abstract specification `Session` implements: what runs, and the record a restart restores |
| `ProfileStore` | profile files, every verb on them, the refresh and its landing |
| `UpdateTrust` | `update.Check`, step by step, and the landing of its result |
| `UpdateOverlap` | `UpdateTrust` with the history of whether two checks ever overlapped |
| `UpdateStage` | the installer's download, staging, verification and hand-over |
| `Schedule` | when subscriptions are refreshed: the loop, due times, backoff, manual refreshes |
| `ClientSession` | the event hub, the subscribe stream and the client's status fields, composed |
| `Settings` | set_settings against activations that have read their settings |
| `Checks` | the pure part of diagnosis: settings, core selection, probe stages, verdicts, remedies |
| `Doctor` | the diagnostic verbs over `Checks`: concurrent legs, budgets, the page that applies remedies |
| `SessionProofs`, `UpdateTrustProofs`, `UpdateStageProofs`, `ProfileStoreProofs`, `ScheduleProofs`, `ClientSessionProofs`, `ChecksProofs`, `DoctorProofs` | theorems |
| `MCSession`, `MCProfileStore`, `MCUpdateTrust`, `MCUpdateStage`, `MCSchedule`, `MCSettings`, `MCDoctor` | instances for TLC (`ClientSession` needs none) |

Two conventions hold throughout. What a handler does under one hold of `mu` is one
action, with all the calls it makes; what it does with `mu` free is one or more
actions of their own. `None` is Go's nil. `Faults` names the operations that may
fail in an instance. Operators placed directly before a definition, and used by
none, are deliberately wrong variants of it (a dropped guard, a missing reset)
named in `PROJECT.json` ("mutants"): each property is violated when its variant
takes the definition's place.

### Session

`sess`, `plan`, `active` are the manager's fields; `live` is the selector's current
member and `cache` what `cache.db` remembers of it; `open` the engine sessions
started and not closed, which is what holds the TUN; `record` is
`last_session.json`; `task` holds every request and background job between its
steps; `published` is the last State event.

| Action | Code |
|---|---|
| `Activate`, `Prepare`, `Start` | `activate`: request, `prepareActivation` (no lock), `startActivationLocked` |
| `SwitchNode` | `switchNode`: live when the member is embedded, otherwise an activation |
| `Stop`, `Shutdown`, `Exit`, `Crash`, `Boot` | `stop`, `shutdown`, process ends, `run` |
| `RestoreLoad`, then `Prepare` and `Start` for task "restore" | `restoreLastSession` |
| `LandRefresh`, `SetNodePrefs` | a saved refresh or pin, then `sessionReconnectLocked`: nothing, a relabeling, or a decided reconnect |
| the start step of a task with a decision | `reconnectSession`'s comparison and start |
| `EditProfile` | verbs that save a profile and look at no session |

A profile is a function from node ids to a display name and a body; a body stands
for the node's document and core pin, and says whether some core can dial it. The
plan is computed from the profile as `buildPlan` does: the members that can be
dialled, the active node among them, the active and the targeted groups lowered
over their members. `RestoredSelection` is external: sing-box prefers the cached
selection to the configured default.

### SessionIntent

Running a context records it, only an explicit stop forgets it, every other loss
of the session keeps it. `Session` refines it with `run` as the context of the
running session.

### ProfileStore

`files` and `current` are the profile files and `state.json`; `sweep` the snapshot
of the subscriptions under way; `notices` the `subscription_updated` events of the
last step; `chosen` (the intervals the user chose) and `taken` (ids of removed nodes
that some group still lists, those an earlier process left listed among them) are
history. One verb is one action, since
`withProfile` loads, changes and saves under `mu`. A provider's answer is an
`Outcome`: the keys of its distinct nodes and its groups over them. `reconcile`
carries ids and pins over by key, `materializeGroups` derives group ids from the
subscription and the name; a group that an earlier version minted an id for keeps that
one, as `reconcile` does. `Sweep` takes the snapshot and `Land` applies one fetch
to the file as it is by then, if `Applies`. What the properties ask of one file are
operators of that file (`Selects`, `Parented`, `GroupsMeet`, `ErrorsMatch`), which the
invariants apply to every stored profile and the proofs to every file built on the
way to a save.

### UpdateTrust

`floor` and `revoked` are the state file. A check goes through `Fetch`, `LoadKeys`,
`LoadSeq`, `Revoke` (one key per write), `SetFloor` and `Land`, and only one
read-modify-write of the file is atomic. A verified manifest is the key that signed
it, its sequence number, version and channel; signatures are external. `accepted`,
`past` and `nudges` are history, and so is `overlapped` of `UpdateOverlap`: two checks
were under way at once.

### UpdateStage

`state` and `staged` are the download state machine, `transfer` the goroutines,
`disk` and `temps` the updates directory. The identity of a staged file is the
transfer that landed it, which is what the artifact pointer in the code's
comparison tells apart; a transfer's identity is not reused while a request
remembers it, as a pointer is not. `LandCheck` is the landing of a check as far as
the staged file sees it. Deletes may fail ("remove") and a landed file may be
replaced by another program ("swap"). `hashed` is history.

### Schedule

Stamps are kept as ages, so that time can pass without end: `subs[s].age` is the age
of `LastUpdated` on the wall clock, negative after the clock was set back;
`loop` is the sweep under way: the snapshots still to fetch, taken in the profile's
order, and the answer that has not landed;
`retry[s]` is an entry of `subRetry`, whose `left` counts down on the monotonic clock
(Go compares `next` with the in-memory times) while `fage`, the age of `failedAt`, is
compared with stamps read from a file and so on the wall clock. Within one tick the
order of the two is the flag `after`. `body` is the version of what the providers
serve, and `subs[s].body` the version stored.

| Action | Code |
|---|---|
| `Sweep` | `dueSubscriptionsLocked`: prune, then the snapshot of what is due |
| `FetchSubscription` | one fetch with `mu` released: the provider answers or fails |
| `LandSubscriptionFetch` | Apply's drift check, the save that may fail, the backoff |
| `RefreshSubscriptions`, `AddSubscription`, `UpdateSubscription`, `RemoveSubscription`, `SetActiveProfile` | the verbs |
| `Exit`, `Start`, `Pass`, `SetClockBack`, `ProviderChanges` | the process, the clocks, the provider |

A landing reads `now` before it takes `mu`; when it waited for a manual refresh of the
same subscription to release `mu`, its failure is stamped `behind` that refresh, which
then passes for a success since (`Queued`).

`tries` is history: how many automatic attempts failed in a row, how long ago, whether
a sweep of another profile deleted the entry that says so (`forgotten`), and whether a
manual refresh overtook the fetch that is about to land.

### ClientSession

`st` is the daemon's session and `moves` dates it; `last` is the emitter's `lastLive`;
`sub`, `chan` and `wire` are the hub's subscriber, its buffer and the connection;
`view` the client's status fields and `shown` what its listeners read when they were
notified last; `polls` the status requests in flight, oldest first, each `fresh` while
its generation is the current one.

| Action | Code |
|---|---|
| `Activate`, `SwitchNode`, `Stop` | the manager's transitions, each broadcast under `mu` (`Session` has their detail; a failed replacement is a `Stop` here) |
| `AutoSwitch`, `Tick` | a urltest move, which tells nobody, and the 1 Hz emitter that finds it |
| `Subscribe`, `Snapshot`, `WriteFrame` | `Server.stream`: registered first, then the snapshot, then the buffer |
| `Connect`, `ReadEvent`, `ScheduleReconnect` | `_connectEvents`, `_onEvent`, `_scheduleReconnect` |
| `PollStatus`, `Status`, `Receive`, `PollFails` | `_pollStatus` and the `status` verb, on a connection of its own |

### Checks, Doctor and Settings

`Checks` holds operators only: what `ValidateSettings` accepts, the capability table
and `SelectCore` with pins, the stages of a probe in order (dial, handshake, request,
status line, body) and the verdict and remedy of each row. A network is a constant
record of what each probe would meet; `Doctor` may exchange it, and the settings,
while a verb runs (`run`). A verb opens one leg per check or node, behind its semaphore
where the code has one; `at` is how far each leg has come, `got` the rows it has so far,
the yes or no of a single probe being a row too. Legs advance one at a time and a
budget may expire under them. `Join` puts the report together: a set of rows, since
the order they are shown in decides nothing. `report.match` records whether the world
stood still: only then is a report held to be exact. `Warranted` is the reference it is
held against: what settings and network have to be for a row to be green, said without
the verdict functions. `ApplyRead` and `ApplyWrite` are the two requests by which the
page applies a remedy. `Settings` keeps only the document, the one a prepared activation
carries and the one the session runs on.

## 3. Runs

| Run | Expects | States | Checks |
|---|---|---|---|
| `session_refresh` | pass | 179,409 | the safety properties of the session manager and the refinement, without faults, with a routed group, one profile change, restore, shutdown and crashes |
| `session_faults` | pass | 281,206 | two clients, every engine, record and profile write failing at will |
| `profile_refresh` | pass | 299,596 | one subscription, two nodes and a provider group, files with minted group ids and removed members, all verbs, a sweep landing late |
| `profile_files` | pass | 330,006 | two profiles, old files, interval edits, routing verbs, failing writes |
| `update_trust` | pass | 127,712 | two checks, side by side or not, failing loads and writes, restarts |
| `update_stage` | pass | 285,376 | downloads, checks, a hash, swaps, failing deletes, shutdown, crashes; liveness |
| `schedule` | pass | 560,076 | the refresh loop beside verbs, profile switches, failing stores, restarts, a clock set back; liveness |
| `client` | pass | 870,097 | the session moving, a hub that drops, overlapping polls, a daemon that dies and returns; liveness |
| `doctor` | pass | 604,261 | every diagnostic verb over three networks, budgets, edits, remedies applied; liveness |
| `update_rollback` | violation | | see below |
| `settings_drift` | violation | | see below |
| `client_gone` | violation | | see below |

What the properties say:

- `OneSession`: the engine holds exactly the manager's session.
- `LiveIsIntent`: the selector's live member is the node of the reported context,
  whatever `cache.db` held. `LabelAgrees`: the label reported is the plan's label of
  that node, after switches and relabelings in any order.
- `RecordTracksSession`, `StateIsPublished`: record and last event equal the running
  context (when record writes, respectively closes, succeed).
- `ReconnectKeepsChoice`: a reconnect starts only over the session and selection it
  was decided against, and keeps profile and mode.
- `ImplementsIntent`: the refinement of `SessionIntent`.
- `SelectionsResolve`, `NoOrphans`, `GroupsResolve`, `IdentityKept`, `ErrorOfUrl`,
  `IntervalStays`, and the keys in `TypeOK`: the profile file stays consistent over
  sequences of verbs, refreshes, late landings and loads.
- `RecoveryRetires`, `RetiredKeysStayOut`: the trust state, under every overlap.
  `RollbackNeedsRace`, `AnnouncedOnceAlone`: until two checks have overlapped (the
  history variable of `UpdateOverlap`) the floor rejects every rollback and a version
  is announced once; after an overlap neither holds (`update_rollback`).
- `LiveTempKept`, `StagedIsCurrent`, `StagedOnDisk`, `VerifiedWasHashed`: the sweep of
  temp files never takes a live one, and what the state machine reports is the
  current, landed and hashed file. `DownloadSettles`, `ShutdownEnds`: liveness.
- `BackoffHonoured`: after the k-th failure in a row no sweep takes the subscription
  up before its wait is over, whatever is refreshed, edited or removed in between, until
  a sweep of another profile forgets it or the clock is set back. `NewestStays`: nothing stored is replaced by
  something older, except by a fetch a manual refresh overtook. `DueIsTried`: liveness.
- `PollNeverRegresses`: no status reply takes the view behind what it has shown.
  `QuietViewIsCurrent`: with no event under way the client shows the session, polls in
  flight or not, unless a State was lost at a full buffer or the urltest came back to `lastLive` unseen.
  `ViewSettles`: both are made good; liveness.
- `VerdictsExact`: a row is green exactly when what it stands for is right, said
  without the verdict functions. Right includes a front or provider that breaks the
  connection after the handshake (below), and a report whose settings or network moved
  while it was made is not judged. `NoRepeatedRemedy`: no report offers what was applied
  already. `VerbAnswers`: liveness.

### Findings

- `update_rollback` (`check.go:181`). Two overlapping checks load the same floor; the
  one with the lower sequence number writes last, the floor goes back, and a later
  check accepts a manifest older than one already accepted.
- `settings_drift` (`manager.go:339`). An activation has read its settings and not
  started yet; a `set_settings` in between finds no session and answers without
  needs_reactivation; the session then runs on settings that are no longer stored.
- `client_gone` (`session.dart:260`). A status reply on its way when the daemon dies
  passes the generation check after the disconnect and is shown; the next failed
  reconnect clears the fields and notifies nobody.

Six more places where the code departs from what it says are kept as properties
with a configuration each, outside the list of runs; TLC finds each violated:

- `StopIsNotUndone` (`tlc -config MCSessionStop.cfg MCSession`; `manager.go:670`): a stop
  during the startup restore finds nothing running, clears nothing, and the restore
  starts the session.
- `NoSessionAfterShutdown` (`MCSessionShutdown.cfg`; `manager.go:695`): an activation
  already prepared starts its session after `shutdown()` released `mu`.
- `EveryTransitionPublished` (`MCSessionPublish.cfg`; `manager.go:386`): a replacement
  whose close fails drops the session without a State event.
- `UrlsUnique` (`MCProfileUrls.cfg MCProfileStore`; `manager_store.go:572`): an edit can
  give two subscriptions one URL.
- `HoldOutlivesSwitch` (`MCScheduleSwitch.cfg MCSchedule`; `manager_subscriptions.go:178`):
  the prune is said to take entries "a later success superseded, or whose subscription is
  gone", but it takes every entry the active profile does not list. One sweep while
  another profile is active forgets a hold that still runs, and after the switch back the
  subscription is fetched at once.
- `GreenCarries` (`MCDoctorReset.cfg MCDoctor`; `manager_netreport.go:78`): a provider that
  resets every connection after the TLS handshake is "Reachable — carried 0 KB, no
  freeze", although a provider is to be ok only "when it carries traffic" and the report
  is to tell "reachable" from "RST".

And six that properties name as exceptions: `promoteResolver` looks an upstream up by
address, so of two at one address it may promote the blocked one for ever
(`NoRepeatedRemedy`); a State event is not always "at least as fresh as any poll
already in flight" (`session.dart:271`), since it may have waited in a buffer, and the
poll repairs it; the emitter misses a urltest that leaves `lastLive` and returns around
a broadcast (`manager.go:494`, `QuietViewIsCurrent`); with the clock set back a stamp
from before a failure later passes for a success after it (`supersededBy`,
`BackoffHonoured`); a camouflage front that breaks the connection after the handshake
is green like the provider above (`camouflageCheck`, `VerdictsExact`); a budget that ends in the middle of `ProbeDNSIntegrity` leaves it
without the truth about the remaining names, which it then reports as "DNS answers match
the trusted resolver" (`netreport.go:150`, `VerdictsExact`).

### Bounds

- Session: one profile, two nodes and a group, two names (so names collide), five
  stored node sets that cover a node made undialable, renamed, re-minted under
  another id, and a deleted profile; one or two clients beside the two background
  tasks; `MaxEdits` profile changes. Every race of the code is between two tasks
  and a session; two sessions, the old and the new, are in play at once, and four
  identities let a reconnect outlive the session it was decided against.
  Session identities are symmetric (values never compared for anything but
  equality). Deadlock checking is on in every run.
- ProfileStore: three node ids against two keys, so that ids of dropped nodes and
  fresh ones meet; one subscription suffices for a late landing, since Apply touches
  only the subscription it fetched. It starts empty or from what an earlier process left:
  a provider group with a minted id, or one that lists a removed node. Node ids are
  symmetric.
- UpdateTrust: three releases, one of them recovery-signed, and a foreign channel;
  two checks, since the state file is shared pairwise. The history of broadcasts
  is capped at 2.
- UpdateStage: two artifacts under one file name, the case in which a late delete or
  a late hash could hit the wrong file; three transfers, so that one can be staged,
  one remembered by a request and one running.
- Schedule: two subscriptions of one profile and a profile without any; the user acts
  on one of them (`Edited`), the other shows that the loop's one-at-a-time order
  starves nobody. Interval and first wait are one tick and the longest wait two, the
  smallest times in which doubling, cap and a due subscription under backoff all
  occur; ages are not told apart beyond two ticks (`Old`), after which only the order
  `after` matters. The clock is set back once, by a tick (`Back`), and failures are
  not counted from then on. A landing that waits for a manual refresh gets `mu` within
  the tick (`Queued`).
- ClientSession: two nodes, a buffer of two and a socket of one frame, so that a State
  is dropped behind noise; two polls in flight, the fewest that can race; three moves
  of the session or crashes (`MaxMoves`).
- Doctor: three nodes (TLS, a group, QUIC pinned to a core that cannot dial it), slots
  of one where the code has eight, three networks that differ in the stage at which
  each probe fails, four documents, one of them with two upstreams at one address.
- Settings: the defaults, two documents that differ in what the engine compiles and one
  that differs from the first in a field applied at once.

### Fairness

- `UpdateStage`: weak fairness of the steps of a transfer goroutine and of the exit after
  `shutdown()`. A transfer's context expires after `updateDownloadTimeout`, the
  goroutine ends on every path by settling the state, and `mu` is never held across
  the wait.
- `Schedule`: time passes, the ticker fires, a fetch ends by its timeout, and landing
  takes a mutex nobody holds for ever. Start after an exit is not fair: `DueIsTried`
  speaks of a running daemon.
- `ClientSession`: the 1 Hz ticker, the stream's writer, the reconnect timer (1 s), the
  poll timer (5 s) and the service manager that restarts the daemon are weakly fair.
  Status replies are strongly fair: a poll is superseded by the next poll or by an
  event, again and again, but a local request answered in milliseconds is not
  overtaken every time by a timer of seconds, and the session's moves are bounded.
- `Doctor`: weak fairness of the legs: every dial, handshake and read has a timeout.

Clients, users, checks and the operating system owe nothing; all other properties are
safety.

## 4. Proofs

TLAPS checks every theorem for all values of the constants: any number of nodes,
profiles, subscriptions, checks, transfers, polls, upstreams, probes, any buffer, any
interval, any network. Every safety property of every passing run is a theorem. The properties are seldom inductive by
themselves, since what a step does was decided in an earlier state; each proof
therefore has one invariant, stated at the end of the model's module, checked by TLC
first, and one lemma per action.

| Module | Invariant | Theorems |
|---|---|---|
| `SessionProofs` | `SessionInv` | `SessionInvariant`, `TypeCorrect`, `AtMostOneSession`, `ContextWithSession`, `TrafficFollowsIntent`, `LabelsStayTrue`, `RecordFollowsSession`, `EventsFollowState`, `ReconnectsKeepChoice`, `ImplementsSessionIntent` |
| `UpdateTrustProofs` | `TrustInv`, `OverlapInv`, `AnnounceInv` | `TrustInvariant`, `TrustTypeCorrect`, `RecoveryRetiresKeys`, `RetiredKeysAreRejected`, `AloneNoRollback`, `RollbackTakesARace`, `RepeatsTakeARace` |
| `UpdateStageProofs` | `StageInv` | `StageInvariant`, `StageTypeCorrect`, `LiveTempsAreKept`, `StagedStaysCurrent`, `StagedStaysOnDisk`, `VerifiedMeansHashed` |
| `ProfileStoreProofs` | `StoreInv` | `StoreInvariant`, `StoreTypeCorrect`, `SelectionsAlwaysResolve`, `NodesHaveAHome`, `GroupsAlwaysResolve`, `ErrorsAreOfTheUrl`, `ChosenIntervalsStay`, `NodesKeepTheirIdentity` |
| `ScheduleProofs` | `ScheduleInv`, `HoldKept` | `ScheduleInvariant`, `ScheduleTypeCorrect`, `NothingOlderIsStored`, `WaitsAreServed` |
| `ChecksProofs` | | `CoreSelectionSound` |
| `DoctorProofs` | `DoctorInv`, `SlotsInv` | `DoctorInvariant`, `DoctorTypeCorrect`, `VerdictsAreExact`, `RemediesAlwaysCure`, `RemediesDoNotRepeat`, `SweepsStayInTheirSlots` |
| `ClientSessionProofs` | `ClientInv` | `ClientInvariant`, `ClientTypeCorrect`, `QuietViewsAreCurrent`, `RepliesNeverRegress` |

**Session.** An activation started now was prepared in an earlier state.
`SessionInv` adds `TasksPrepared` (a prepared activation embeds the node it activates,
under the label it will report: what makes `LiveIsIntent` and `LabelAgrees` hold after
a start) and `DownIsIdle` (what makes them hold after a boot). The reconnect theorem
needs `ReconnectsMatch` besides: a decision against the running session carries that
session's profile and mode, since neither a live switch nor a relabeling changes
them. Lemmas about `BuildPlan`, `Relabel` and
`DisplayName` say that a buildable plan has its base as a member and that relabeling
keeps members.

**Update trust.**
`TrustInv` strengthens the two safety properties by `ChecksSound`: what a check holds
after each load and write relates to the file, in particular that a check past
`Revoke` with a recovery manifest finds every other key revoked on disk, and that the
keys it loaded are still revoked. Rollbacks need `FloorStands`: a check past the floor
gate compared its manifest with the floor still on disk. That is what two checks break,
so `OverlapInv` claims it, with `OneBusy`, only until checks have overlapped
(`AloneNoRollback` is the case of one check in all). For announcements
`AnnouncedLatest` says that everything announced was accepted, and nothing after what
was announced last; with the floor, a version cannot then come back.

**Update download.** `TransferAlone`: a transfer that is not over is the only one, the
state is "downloading" for it, and no request holds a landing of the same goroutine. It
is what keeps the sweep of temp files off a live one and makes a landing's identity
unique. `StagedReported` and `AppliesSound` carry what was staged and hashed across the
hash made with `mu` free.

**Profile store.** `StoreInv` says of every stored file that it is sound: unique ids, keys
and names, selections that resolve, nodes with a parent, groups over nodes of their
own subscription but for removed ids, errors of the stored URL. `SubsApart` (a subscription is in one profile
only) is needed when a late fetch lands: `Applies` finds the subscription by id and URL
and must not find it in another profile. `ChosenStored` says that intervals are
remembered only of stored subscriptions, so that a new id starts without one. Most of
the proof is about `Apply`: what `reconcile` carries over, `materializeGroups` derives
and `RefreshedNodes` merges, and that minted ids meet no others, nor derived ones a carried
one. `IdentityKept` is an action
property and follows step by step from the same facts.

**Schedule.** `ScheduleInv` types the loop and the backoff entries, and says that stamps
are not in the future until the clock is set back (`NoFuture`), that nothing refers to an id
not given out (`UsedOnly`) and that an answer under way is no older than what is stored
unless it was overtaken (`NothingNewer`). The backoff rests on `HoldKept`: as long as
failures count and no sweep of another profile forgot them, the entry is there, its remaining hold and the time since the failure
add up to the wait, and no stored stamp passes for a success since.

**Client session.** `Dates` says that every frame, reply and view was read from the
session when it had moved at most that often, and that no reply still applicable is behind
the view: `PollNeverRegresses` follows. `Pipeline` follows the newest State through channel
and connection to the client: whichever of the three holds it, it is the session's, or
older than one the full channel lost. `Linked` ties the two ends of the connection
together. The proof needs no assumption on polls in flight, so `QuietViewIsCurrent` makes
none.

**Doctor.** `ChecksProofs` holds the pure operators against what they promise: the core
selected can dial the node and none is selected only for a reason, each verdict is green
exactly when the stages it summarises were good, a strategy remedy ends the complaint it
answers, and a promoted upstream comes first. `DoctorProofs` carries those facts through
the interleavings. `LegsTyped` says which rows a leg may have at which stage and that the
probes a report cannot do without were opened. `LegsSound` is the heart of `VerdictsExact`:
while nothing moves, the verb's snapshot is the stored document, a leg past its handshake
met a host that took it, and each row so far is right (or, once the budget is over, green
only for what there was time to ask); the join then only has to add up rows that are right. It needs the
stage of a leg because dial and fetch are separate steps between which the budget may
end. `NoRepeatedRemedy` is not inductive: it speaks of remedies applied in earlier
states. `Cures` says of a remedy that it answers a complaint about the stored document
and makes a valid one without it, leaving the other lever alone; `RemediesCure` says it of
every remedy offered, `PageSound` of one the page is about to write, and `AppliedHelped`
that no complaint answered since the world last moved is left. What is offered answers a
complaint, so it was not applied. `RemediesCure` is a result of its own. `SlotsInv` adds
that the legs are finitely many, without which a semaphore's count means nothing.

**Assumptions.** `SessionAssumption`, `TrustAssumption`, `StageAssumption`,
`StoreAssumption`, `TimesAssumption`, `BufferAssumption` and `DoctorAssumption` say what kind of value each
constant is, and that None is none of them; TLC evaluates them on every run. Beyond that:

- `StoreAssumption` lets a provider's group list only nodes of the same answer, as the
  parsers build them, and `TimesAssumption` makes intervals positive, ages that can be told
  apart longer than an interval, and the backoff's bounds ordered.
- `DoctorAssumption` gives each semaphore a slot (the code has 8 and 6), the DNS probe a
  name to ask about, and the curated upstreams types that settings accept: the constants
  of the source do.
- `OldFileAssumption`: the files found at the first start are sound. They were written by
  earlier versions of the same verbs, so a provider group may have an id minted before
  the derivation and may list ids that `remove_node` took out, which no node of the
  file has any more; a file edited by hand may be anything.
- `ReleasesOrdered`, a hypothesis of `RepeatsTakeARace`: a version is not released again
  after another one. Sequence numbers grow by one (`src/scripts/sign-update.sh`,
  `src/.github/workflows/publish-update.yml`) and each manifest names the release it is
  published with; that a maintainer does not go back to an old version under a new
  number is practice, and nothing the daemon could check.
- `PowersOfTwo`, a hypothesis of `WaitsAreServed`: `2^0 = 1` and `2^(k+1) = 2 * 2^k`. It is
  arithmetic, for which the provers have no theory.

**Only model-checked.** Liveness (`DownloadSettles`, `ShutdownEnds`, `DueIsTried`,
`ViewSettles`, `VerbAnswers`), since fairness and ENABLED are out of the prover's reach.
`Settings` has one property and it is violated, as are the others that are expected to
be; there is nothing to prove about them.

## 5. Not modelled

Parsing and formatting of node links and subscription documents, the generated core
configurations, the operating-system side of endpoints and services, connection
statistics and the user interface beyond the doctor page: string conversions, pure
data, system calls and widgets, with no state the modelled parts decide by.

In the modelled parts: byte counters, progress events and the update half of the
client session (the hazard at `session.dart:346` says what can go wrong there); log
lines; the attempt clock of the update check; a wall clock set forward; edits of a
subscription's interval in `Schedule` (they are in `ProfileStore`); no active profile
at all, in which a sweep does nothing; a second subscriber of the hub, which shares
nothing with the first; medians over repeated latency samples; and the crash inside
`delete_profile`. The window in which `apply_update` replies with a path a check has
just discarded, and the one in which a download starts after `shutdown()` released
`mu`, are behaviours of `UpdateStage` about which no property is stated.

Where the doctor is deliberately coarse: a verb keeps the `tun` flag it read at the
start, a fetch does not watch the verb's context and may outlast the budget, a probe
other than the DNS one is wholly before or wholly after the end of the budget, and a
report that expired may blame what is fine.

## 6. Plan

1. Operators with reference definitions: routing compilation (`engine/route.go`), the
   two-pass deduplication of a parse, `engineRelevantChanged`.
2. The update half of the client session composed with `UpdateStage`; the crash inside
   `delete_profile`.
