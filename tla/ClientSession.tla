---------------------------- MODULE ClientSession ----------------------------
(* How a client keeps showing the daemon's session: the event hub, the      *)
(* subscribe connection that carries its events, and the status polls that  *)
(* back it up.  Every transition of the session is broadcast under the      *)
(* manager's mutex; a move of the urltest is not, and is found by the 1 Hz  *)
(* emitter.  Events that carry no session state are `noise`: all they do    *)
(* here is to fill the subscriber's buffer.                                 *)
EXTENDS Naturals, Sequences

CONSTANTS
  Node,       \* members the session may be live on
  Buffer,     \* of a subscriber's channel (64 in the code)
  Socket,     \* frames written and not read yet that fit the connection
  MaxMoves,   \* bound: moves of the session and crashes in a behaviour
  MaxPolls,   \* bound: status requests in flight
  None

ASSUME BufferAssumption ==
  /\ Buffer \in Nat \ {0} /\ Socket \in Nat \ {0}
  /\ MaxMoves \in Nat /\ MaxPolls \in Nat

VARIABLES
  \* the daemon
  up,         \* its process runs
  st,         \* the session: its context and its live node
  moves,      \* history: moves so far; what a frame or a view is dated with
  last,       \* the emitter's lastLive
  hop,        \* history: the urltest came back to lastLive since the last broadcast
  \* the hub's subscriber and its connection
  sub,        \* "none", "registered" (no snapshot yet) or "streaming"
  chan,       \* its channel
  wire,       \* frames on the way
  dropped,    \* history: date of the newest State the full channel lost
  \* the client
  conn,       \* its end of the subscribe connection: "none", "live", "dead"
  connected,  \* it has seen an event on it
  cause,      \* unreachableCause is set
  view,       \* the status fields
  shown,      \* what its listeners read when they were notified last
  polls       \* status requests in flight: [fresh, reply], or None

vars == <<up, st, moves, last, hop, sub, chan, wire, dropped, conn, connected, cause, view, shown, polls>>
daemon == <<up, st, moves, last, hop>>
stream == <<sub, chan, wire, dropped>>
client == <<conn, connected, cause, view, shown, polls>>

Idle == [ctx |-> 0, live |-> None]
Running == st.ctx # 0
Dated(s, date) == [s |-> s, date |-> date]
Empty == Dated(Idle, 0)
Noise == [kind |-> "noise"]
StateEvent(s, date) == [kind |-> "state", is |-> Dated(s, date)]
Full(q) == Len(q) >= Buffer
Slot == 1..MaxPolls
Fresh(i) == polls[i] # None /\ polls[i].fresh

Init ==
  /\ up = TRUE /\ st = Idle /\ moves = 0 /\ last = None /\ hop = FALSE
  /\ sub = "none" /\ chan = <<>> /\ wire = <<>> /\ dropped = 0
  /\ conn = "none" /\ connected = FALSE /\ cause = FALSE
  /\ view = Empty /\ shown = Empty /\ polls = [i \in Slot |-> None]

-----------------------------------------------------------------------------
(* The hub.                                                                 *)

Broadcast(q, f) == IF sub # "none" /\ ~Full(q) THEN Append(q, f) ELSE q

PushState(q, s, date) ==
  /\ chan' = Broadcast(q, StateEvent(s, date))
  /\ dropped' = IF sub # "none" /\ Full(q) THEN date ELSE dropped
  /\ hop' = FALSE
  /\ UNCHANGED <<sub, wire>>

-----------------------------------------------------------------------------
(* The session moves.                                                       *)

Move(s) ==
  /\ up /\ moves < MaxMoves
  /\ st' = s
  /\ moves' = moves + 1
  /\ UNCHANGED up

Activate ==
  \E n \in Node : /\ Move([ctx |-> moves + 1, live |-> n])
                  /\ last' = n
                  /\ PushState(chan, st', moves')
                  /\ UNCHANGED client

SwitchNode ==
  /\ Running
  /\ \E n \in Node : Move([ctx |-> moves + 1, live |-> n])
  /\ PushState(chan, st', moves')
  /\ UNCHANGED <<last, client>>

Stop ==
  /\ Running
  /\ Move(Idle)
  /\ last' = None
  /\ PushState(chan, st', moves')
  /\ UNCHANGED client

(* The urltest picks another member, and tells nobody.                      *)
AutoSwitch ==
  /\ Running
  /\ \E n \in Node \ {st.live} : Move([st EXCEPT !.live = n])
  /\ hop' = (hop \/ st'.live = last)
  /\ UNCHANGED <<last, stream, client>>

(* Mutant: the baseline follows and the State is not sent.                   *)
TickSilent ==
  /\ up /\ Running
  /\ last' = st.live
  /\ chan' = Broadcast(chan, Noise)
  /\ UNCHANGED <<up, st, moves, hop, sub, wire, dropped, client>>

(* The emitter: a traffic event, and a State when the live node has moved.  *)
Tick ==
  /\ up /\ Running
  /\ last' = st.live
  /\ LET q == Broadcast(chan, Noise)
     IN IF last = st.live THEN chan' = q /\ UNCHANGED <<hop, sub, wire, dropped>>
        ELSE PushState(q, st, moves)
  /\ UNCHANGED <<up, st, moves, client>>

(* Log lines, core errors, subscription and update events.                  *)
OtherEvent ==
  /\ up
  /\ chan' = Broadcast(chan, Noise)
  /\ UNCHANGED <<daemon, sub, wire, dropped, client>>

-----------------------------------------------------------------------------
(* The server's side of a subscription.                                     *)

Subscribe ==
  /\ conn = "live" /\ sub = "none"
  /\ sub' = "registered"
  /\ UNCHANGED <<daemon, chan, wire, dropped, client>>

Snapshot ==
  /\ sub = "registered"
  /\ sub' = "streaming"
  /\ wire' = Append(wire, StateEvent(st, moves))
  /\ UNCHANGED <<daemon, chan, dropped, client>>

WriteFrame ==
  /\ sub = "streaming" /\ chan # <<>> /\ Len(wire) < Socket
  /\ wire' = Append(wire, Head(chan))
  /\ chan' = Tail(chan)
  /\ UNCHANGED <<daemon, sub, dropped, client>>

(* The process dies.  What it had written can still be read; a request it   *)
(* had not answered fails.                                                  *)
Crash ==
  /\ up /\ moves < MaxMoves
  /\ up' = FALSE /\ st' = Idle /\ moves' = moves + 1 /\ last' = None /\ hop' = FALSE
  /\ sub' = "none" /\ chan' = <<>>
  /\ conn' = IF conn = "live" THEN "dead" ELSE conn
  /\ polls' = [i \in Slot |-> IF polls[i] # None /\ polls[i].reply = None THEN None ELSE polls[i]]
  /\ UNCHANGED <<wire, dropped, connected, cause, view, shown>>

Boot ==
  /\ ~up
  /\ up' = TRUE
  /\ UNCHANGED <<st, moves, last, hop, stream, client>>

-----------------------------------------------------------------------------
(* The client's subscribe loop.                                             *)

Stale(ps) == [i \in Slot |-> IF ps[i] = None THEN None ELSE [ps[i] EXCEPT !.fresh = FALSE]]

(* Mutant: never again once a cause is known.                                *)
ConnectOnce ==
  /\ conn = "none" /\ up /\ ~cause
  /\ conn' = "live"
  /\ UNCHANGED <<daemon, stream, connected, cause, view, shown, polls>>

Connect ==
  /\ conn = "none" /\ up
  /\ conn' = "live"
  /\ UNCHANGED <<daemon, stream, connected, cause, view, shown, polls>>

(* Mutant: a State leaves the polls in flight valid.                         *)
OnEventKeepingGen(f) ==
  IF f.kind = "state" THEN view' = f.is /\ polls' = polls
  ELSE UNCHANGED <<view, polls>>

OnEvent(f) ==
  IF f.kind = "state" THEN view' = f.is /\ polls' = Stale(polls)
  ELSE UNCHANGED <<view, polls>>

ReadEvent ==
  /\ wire # <<>>
  /\ wire' = Tail(wire)
  /\ OnEvent(Head(wire))
  /\ connected' = TRUE
  /\ cause' = (cause /\ connected)
  /\ shown' = view'
  /\ UNCHANGED <<daemon, sub, chan, dropped, conn>>

(* The stream ended, or an attempt to open it failed: the fields are        *)
(* cleared, and the listeners are told unless they know the daemon is gone. *)
ScheduleReconnect ==
  /\ \/ conn = "dead" /\ wire = <<>>
     \/ conn = "none" /\ ~up
  /\ conn' = "none"
  /\ connected' = FALSE
  /\ cause' = TRUE
  /\ view' = Empty
  /\ shown' = IF connected \/ ~cause THEN Empty ELSE shown
  /\ UNCHANGED <<daemon, stream, polls>>

-----------------------------------------------------------------------------
(* The status polls: one connection each, the timer's and refreshStatus.    *)

Asked == [fresh |-> TRUE, reply |-> None]
FirstFree(i) == polls[i] = None /\ \A j \in 1..i - 1 : polls[j] # None
Without(i) ==
  [j \in Slot |-> IF j < i THEN polls[j] ELSE IF j < MaxPolls THEN polls[j + 1] ELSE None]

(* Mutant: the generation stays.                                             *)
PollSameGen(i) ==
  /\ FirstFree(i)
  /\ polls' = IF up THEN [polls EXCEPT ![i] = Asked] ELSE polls
  /\ UNCHANGED <<daemon, stream, conn, connected, cause, view, shown>>

PollStatus(i) ==
  /\ FirstFree(i)
  /\ polls' = IF up THEN [Stale(polls) EXCEPT ![i] = Asked] ELSE Stale(polls)
  /\ UNCHANGED <<daemon, stream, conn, connected, cause, view, shown>>

Status(i) ==
  /\ up /\ polls[i] # None /\ polls[i].reply = None
  /\ polls' = [polls EXCEPT ![i].reply = Dated(st, moves)]
  /\ UNCHANGED <<daemon, stream, conn, connected, cause, view, shown>>

Receive(i) ==
  /\ polls[i] # None /\ polls[i].reply # None
  /\ view' = IF polls[i].fresh THEN polls[i].reply ELSE view
  /\ shown' = IF polls[i].fresh THEN view' ELSE shown
  /\ polls' = Without(i)
  /\ UNCHANGED <<daemon, stream, conn, connected, cause>>

(* A reply cut off by the crash.                                            *)
PollFails(i) ==
  /\ ~up /\ polls[i] # None
  /\ polls' = Without(i)
  /\ UNCHANGED <<daemon, stream, conn, connected, cause, view, shown>>

Next ==
  \/ Activate \/ SwitchNode \/ Stop \/ AutoSwitch \/ Tick \/ OtherEvent
  \/ Subscribe \/ Snapshot \/ WriteFrame \/ Crash \/ Boot
  \/ Connect \/ ReadEvent \/ ScheduleReconnect
  \/ \E i \in Slot : PollStatus(i) \/ Status(i) \/ Receive(i) \/ PollFails(i)

Spec == Init /\ [][Next]_vars

(* Goroutines, timers and the service manager go on; a poll is answered and *)
(* read within its five seconds time and again.                             *)
FairSpec ==
  /\ Spec
  /\ WF_vars(Tick) /\ WF_vars(Boot)
  /\ WF_vars(Subscribe) /\ WF_vars(Snapshot) /\ WF_vars(WriteFrame)
  /\ WF_vars(Connect) /\ WF_vars(ReadEvent) /\ WF_vars(ScheduleReconnect)
  /\ WF_vars(\E i \in Slot : PollStatus(i))
  /\ WF_vars(\E i \in Slot : Status(i) \/ Receive(i))
  /\ SF_vars(\E i \in Slot : Fresh(i) /\ Status(i))
  /\ SF_vars(\E i \in Slot : Fresh(i) /\ Receive(i))

-----------------------------------------------------------------------------
(* Properties.                                                              *)

States == [ctx : 0..MaxMoves, live : Node \cup {None}]
Readings == [s : States, date : 0..MaxMoves]

Bounded ==
  /\ st \in States /\ moves \in 0..MaxMoves /\ last \in Node \cup {None}
  /\ sub \in {"none", "registered", "streaming"} /\ conn \in {"none", "live", "dead"}
  /\ Len(chan) <= Buffer /\ Len(wire) <= Socket /\ dropped \in 0..MaxMoves
  /\ view \in Readings /\ shown \in Readings

OneFresh == \A i, j \in Slot : Fresh(i) /\ Fresh(j) => i = j

(* Type invariant: buffers within their bounds, and at most one poll whose  *)
(* reply may still be applied (_statusGen).                                 *)
TypeOK == Bounded /\ OneFresh

(* A status reply never takes the view behind a state it has already shown, *)
(* however long the reply was under way (_pollStatus drops a stale one; the *)
(* bump of _statusGen by a poll and by a State event).                      *)
PollNeverRegresses ==
  [][\A i \in Slot : Receive(i) => view'.date >= view.date]_vars

(* Whatever order events, snapshot and replies came in: when no event is    *)
(* under way the client shows the daemon's session, polls in flight or not, *)
(* unless the full channel lost a State newer than the view, or the urltest *)
(* came back to the node the emitter compares with before it looked         *)
(* (Hub.Broadcast, Server.stream, broadcastLiveChange, _onEvent).           *)
QuietViewIsCurrent ==
  /\ connected /\ sub = "streaming"
  /\ chan = <<>> /\ wire = <<>>
  /\ last = st.live /\ ~hop
  => shown = view /\ (view.s = st \/ view.date < dropped)

(* Lost events, stale replies and a restart of the daemon do not last: once *)
(* the session stops moving the client is connected and shows it (the poll  *)
(* every five seconds, the reconnect every second, the 1 Hz emitter).       *)
ViewSettles == <>[](connected /\ view.s = st /\ shown = view)

(* "with the daemon gone there is no tunnel, so drop the last status        *)
(* instead of showing it as current" (_scheduleReconnect): what was dropped *)
(* is not shown any more.                                                   *)
GoneShowsNothing ==
  ~up /\ conn = "none" /\ cause /\ view = Empty => shown = Empty

-----------------------------------------------------------------------------
(* What the proofs rest on.                                                 *)

Frames == [kind : {"noise"}] \cup [kind : {"state"}, is : Readings]
Polls == [fresh : BOOLEAN, reply : Readings \cup {None}]

Typed ==
  /\ up \in BOOLEAN /\ hop \in BOOLEAN /\ connected \in BOOLEAN /\ cause \in BOOLEAN
  /\ chan \in Seq(Frames) /\ wire \in Seq(Frames)
  /\ polls \in [Slot -> Polls \cup {None}]

(* The two ends of the subscribe connection.                                *)
Linked ==
  /\ sub # "none" => conn = "live"
  /\ sub = "none" => chan = <<>>
  /\ conn = "live" => up
  /\ sub # "streaming" /\ conn # "dead" => wire = <<>>
  /\ conn = "none" => ~connected
  /\ connected => shown = view

(* r was read from a session that had moved m times at most, and from s if  *)
(* it is the last of these moves.                                           *)
Read(r, s, m) == r.date <= m /\ (r.date = m => r.s = s)
IsState(f) == f.kind = "state"
AllRead(q, s, m) == \A i \in 1..Len(q) : IsState(q[i]) => Read(q[i].is, s, m)
Replied(i) == Fresh(i) /\ polls[i].reply # None

(* What is under way was read from the daemon, and no reply that may still  *)
(* be applied is behind the view.                                           *)
Dates ==
  /\ Read(Empty, st, moves) /\ Read(view, st, moves)
  /\ AllRead(chan, st, moves) /\ AllRead(wire, st, moves)
  /\ \A i \in Slot : Replied(i) => /\ Read(polls[i].reply, st, moves)
                                  /\ polls[i].reply.date >= view.date

(* r is s, or older than the loss of d.                                     *)
Current(r, s, d) == r.s = s \/ r.date < d
NoState(q) == \A i \in 1..Len(q) : ~IsState(q[i])
NewestCurrent(q, s, d) ==
  \A i \in 1..Len(q) :
    IsState(q[i]) /\ (\A j \in 1..Len(q) : j > i => ~IsState(q[j])) => Current(q[i].is, s, d)

(* With the emitter's baseline right, the newest State of the pipeline, or  *)
(* what the client holds when there is none in it, is current, or older     *)
(* than one the full channel lost.                                          *)
HeldCurrent ==
  /\ Current(view, st, dropped)
  /\ \A i \in Slot : Replied(i) => Current(polls[i].reply, st, dropped)

Pipeline ==
  last = st.live /\ ~hop =>
    /\ sub # "none" => NewestCurrent(chan, st, dropped)
    /\ sub = "streaming" /\ NoState(chan) => NewestCurrent(wire, st, dropped)
    /\ sub = "streaming" /\ NoState(chan) /\ NoState(wire) => HeldCurrent

ClientInv == Bounded /\ OneFresh /\ Typed /\ Linked /\ Dates /\ Pipeline
=============================================================================
