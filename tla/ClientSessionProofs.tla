------------------------ MODULE ClientSessionProofs ------------------------
(* Proofs about ClientSession: for any number of nodes, moves of the        *)
(* session, polls in flight and frames in the channel and the socket.       *)
EXTENDS ClientSession, TLAPS

USE BufferAssumption

-----------------------------------------------------------------------------
(* Frames, readings and queues of frames.                                   *)

(* Frames and readings have their types.                                    *)
LEMMA FrameTypes ==
  /\ Noise \in Frames /\ ~IsState(Noise)
  /\ \A s \in States, d \in 0..MaxMoves :
       /\ Dated(s, d) \in Readings /\ Dated(s, d).s = s /\ Dated(s, d).date = d
       /\ StateEvent(s, d) \in Frames /\ IsState(StateEvent(s, d))
       /\ StateEvent(s, d).is = Dated(s, d)
  /\ \A f \in Frames : IsState(f) => f.is \in Readings
  /\ Idle \in States /\ Empty \in Readings /\ Empty.date = 0 /\ Empty.s = Idle
<1>1. Noise \in Frames /\ ~IsState(Noise)
  BY DEF Noise, Frames, IsState
<1>2. ASSUME NEW s \in States, NEW d \in 0..MaxMoves
      PROVE  /\ Dated(s, d) \in Readings /\ Dated(s, d).s = s /\ Dated(s, d).date = d
             /\ StateEvent(s, d) \in Frames /\ IsState(StateEvent(s, d))
             /\ StateEvent(s, d).is = Dated(s, d)
  <2>1. Dated(s, d) \in Readings /\ Dated(s, d).s = s /\ Dated(s, d).date = d
    BY DEF Dated, Readings
  <2> QED
    BY <2>1 DEF StateEvent, Frames, IsState
<1>3. \A f \in Frames : IsState(f) => f.is \in Readings
  BY DEF Frames, IsState
<1>4. Idle \in States
  BY DEF Idle, States
<1>5. Empty \in Readings /\ Empty.date = 0 /\ Empty.s = Idle
  BY <1>4 DEF Empty, Dated, Readings
<1> QED
  BY <1>1, <1>2, <1>3, <1>4, <1>5

(* The session moves on: what was read is of the past.                      *)
LEMMA ReadLater ==
  ASSUME NEW r \in Readings, NEW s, NEW t, NEW m \in Nat, Read(r, s, m)
  PROVE  Read(r, t, m + 1)
BY DEF Read, Readings

(* What was read before a move was read before the next one.                *)
LEMMA AllReadLater ==
  ASSUME NEW q \in Seq(Frames), NEW s, NEW t, NEW m \in Nat, AllRead(q, s, m)
  PROVE  AllRead(q, t, m + 1)
<1> SUFFICES ASSUME NEW i \in 1..Len(q), IsState(q[i]) PROVE Read(q[i].is, t, m + 1)
  BY DEF AllRead
<1>1. q[i] \in Frames /\ Read(q[i].is, s, m)
  BY DEF AllRead
<1>2. q[i].is \in Readings
  BY <1>1, FrameTypes
<1> QED
  BY <1>1, <1>2, ReadLater

(* A State of the last move was lost: all that was read is current or older. *)
LEMMA ReadCurrent ==
  ASSUME NEW r \in Readings, NEW s, NEW m \in Nat, Read(r, s, m)
  PROVE  Current(r, s, m)
BY DEF Read, Current, Readings

(* When the State of the last move was lost, every frame read so far is     *)
(* current or older than the loss.                                          *)
LEMMA AllReadCurrent ==
  ASSUME NEW q \in Seq(Frames), NEW s, NEW m \in Nat, AllRead(q, s, m)
  PROVE  NewestCurrent(q, s, m)
<1> SUFFICES ASSUME NEW i \in 1..Len(q), IsState(q[i]) PROVE Current(q[i].is, s, m)
  BY DEF NewestCurrent
<1>1. q[i] \in Frames /\ Read(q[i].is, s, m)
  BY DEF AllRead
<1> QED
  BY <1>1, FrameTypes, ReadCurrent

(* A frame is put at the end of a queue.                                    *)
LEMMA AppendFrame ==
  ASSUME NEW q \in Seq(Frames), NEW f \in Frames
  PROVE  /\ Append(q, f) \in Seq(Frames) /\ Len(Append(q, f)) = Len(q) + 1
         /\ \A i \in 1..Len(q) : Append(q, f)[i] = q[i]
         /\ Append(q, f)[Len(q) + 1] = f
OBVIOUS

(* A frame read from the daemon joins the queue.                            *)
LEMMA AppendRead ==
  ASSUME NEW q \in Seq(Frames), NEW f \in Frames, NEW s, NEW m,
         AllRead(q, s, m), IsState(f) => Read(f.is, s, m)
  PROVE  AllRead(Append(q, f), s, m)
<1> SUFFICES ASSUME NEW i \in 1..Len(q) + 1, IsState(Append(q, f)[i])
             PROVE  Read(Append(q, f)[i].is, s, m)
  BY AppendFrame DEF AllRead
<1>1. CASE i \in 1..Len(q)
  BY <1>1, AppendFrame DEF AllRead
<1>2. CASE i = Len(q) + 1
  BY <1>2, AppendFrame
<1> QED
  BY <1>1, <1>2

(* An event without state leaves the newest State of a queue what it was.   *)
LEMMA AppendNoise ==
  ASSUME NEW q \in Seq(Frames), NEW f \in Frames, ~IsState(f)
  PROVE  /\ NoState(Append(q, f)) <=> NoState(q)
         /\ \A s, d : NewestCurrent(q, s, d) => NewestCurrent(Append(q, f), s, d)
<1> DEFINE p == Append(q, f)
<1>1. /\ Len(p) = Len(q) + 1 /\ (\A i \in 1..Len(q) : p[i] = q[i]) /\ p[Len(q) + 1] = f
      /\ Len(q) \in Nat
  BY AppendFrame
<1> HIDE DEF p
<1>2. NoState(p) <=> NoState(q)
  BY <1>1 DEF NoState
<1>3. ASSUME NEW s, NEW d, NewestCurrent(q, s, d)
      PROVE  NewestCurrent(p, s, d)
  <2> SUFFICES ASSUME NEW i \in 1..Len(p), IsState(p[i]),
                      \A j \in 1..Len(p) : j > i => ~IsState(p[j])
               PROVE  Current(p[i].is, s, d)
    BY DEF NewestCurrent
  <2>1. i \in 1..Len(q) /\ p[i] = q[i]
    BY <1>1
  <2>2. \A j \in 1..Len(q) : j > i => ~IsState(q[j])
    BY <1>1
  <2> QED
    BY <1>3, <2>1, <2>2 DEF NewestCurrent
<1> QED
  BY <1>2, <1>3 DEF p

(* A State that joins a queue is its newest.                                *)
LEMMA AppendState ==
  ASSUME NEW q \in Seq(Frames), NEW f \in Frames, IsState(f), NEW s, NEW d, Current(f.is, s, d)
  PROVE  ~NoState(Append(q, f)) /\ NewestCurrent(Append(q, f), s, d)
<1> DEFINE p == Append(q, f)
<1>1. Len(p) = Len(q) + 1 /\ p[Len(q) + 1] = f /\ Len(q) \in Nat
  BY AppendFrame
<1> HIDE DEF p
<1>2. Len(q) + 1 \in 1..Len(p)
  BY <1>1
<1>3. ~NoState(p)
  BY <1>1, <1>2 DEF NoState
<1>4. NewestCurrent(p, s, d)
  <2> SUFFICES ASSUME NEW i \in 1..Len(p), IsState(p[i]),
                      \A j \in 1..Len(p) : j > i => ~IsState(p[j])
               PROVE  Current(p[i].is, s, d)
    BY DEF NewestCurrent
  <2>1. i = Len(q) + 1
    BY <1>1, <1>2
  <2> QED
    BY <1>1, <2>1
<1> QED
  BY <1>3, <1>4 DEF p

(* The first frame leaves a queue.                                          *)
LEMMA TailFrames ==
  ASSUME NEW q \in Seq(Frames), q # <<>>
  PROVE  /\ Tail(q) \in Seq(Frames) /\ Len(Tail(q)) = Len(q) - 1 /\ Len(q) \in Nat \ {0}
         /\ \A i \in 1..Len(q) - 1 : Tail(q)[i] = q[i + 1]
         /\ Head(q) = q[1] /\ Head(q) \in Frames
OBVIOUS

(* Taking the first frame leaves a queue that was read from the daemon.     *)
LEMMA TailRead ==
  ASSUME NEW q \in Seq(Frames), q # <<>>, NEW s, NEW m, AllRead(q, s, m)
  PROVE  AllRead(Tail(q), s, m) /\ (IsState(Head(q)) => Read(Head(q).is, s, m))
<1> DEFINE t == Tail(q)
<1>1. /\ Len(t) = Len(q) - 1 /\ Len(q) \in Nat \ {0} /\ Head(q) = q[1]
      /\ \A i \in 1..Len(q) - 1 : t[i] = q[i + 1]
  BY TailFrames
<1> HIDE DEF t
<1>2. ASSUME NEW i \in 1..Len(t), IsState(t[i]) PROVE Read(t[i].is, s, m)
  <2>1. t[i] = q[i + 1] /\ i + 1 \in 1..Len(q)
    BY <1>1
  <2> QED
    BY <1>2, <2>1 DEF AllRead
<1>3. IsState(Head(q)) => Read(Head(q).is, s, m)
  <2>1. 1 \in 1..Len(q)
    BY <1>1
  <2> QED
    BY <1>1, <2>1 DEF AllRead
<1> QED
  BY <1>2, <1>3 DEF AllRead, t

(* The first frame is the newest State of a queue only when no other is     *)
(* left.                                                                    *)
LEMMA TailCurrent ==
  ASSUME NEW q \in Seq(Frames), q # <<>>
  PROVE  /\ NoState(q) <=> NoState(Tail(q)) /\ ~IsState(Head(q))
         /\ \A s, d : NewestCurrent(q, s, d) =>
              /\ NewestCurrent(Tail(q), s, d)
              /\ NoState(Tail(q)) /\ IsState(Head(q)) => Current(Head(q).is, s, d)
<1> DEFINE t == Tail(q)
<1>1. /\ Len(t) = Len(q) - 1 /\ Len(q) \in Nat \ {0} /\ Head(q) = q[1]
      /\ \A i \in 1..Len(q) - 1 : t[i] = q[i + 1]
  BY TailFrames
<1> HIDE DEF t
<1>2. \A k \in 1..Len(q) : k = 1 \/ (k - 1 \in 1..Len(t) /\ q[k] = t[k - 1])
  <2> SUFFICES ASSUME NEW k \in 1..Len(q), k # 1 PROVE k - 1 \in 1..Len(t) /\ q[k] = t[k - 1]
    OBVIOUS
  <2>1. k - 1 \in 1..Len(q) - 1 /\ (k - 1) + 1 = k
    BY <1>1
  <2> QED
    BY <1>1, <2>1
<1>3. 1 \in 1..Len(q) /\ \A i \in 1..Len(t) : i + 1 \in 1..Len(q) /\ t[i] = q[i + 1]
  BY <1>1
<1>4. NoState(q) <=> NoState(t) /\ ~IsState(Head(q))
  BY <1>1, <1>2, <1>3 DEF NoState
<1>5. ASSUME NEW s, NEW d, NewestCurrent(q, s, d)
      PROVE  /\ NewestCurrent(t, s, d)
             /\ NoState(t) /\ IsState(Head(q)) => Current(Head(q).is, s, d)
  <2>1. ASSUME NEW i \in 1..Len(t), IsState(t[i]), \A j \in 1..Len(t) : j > i => ~IsState(t[j])
        PROVE  Current(t[i].is, s, d)
    <3>1. i + 1 \in 1..Len(q) /\ t[i] = q[i + 1]
      BY <1>3
    <3>2. \A k \in 1..Len(q) : k > i + 1 => ~IsState(q[k])
      BY <1>1, <1>2, <2>1
    <3> QED
      BY <1>5, <2>1, <3>1, <3>2 DEF NewestCurrent
  <2>2. ASSUME NoState(t), IsState(Head(q)) PROVE Current(Head(q).is, s, d)
    <3>1. \A k \in 1..Len(q) : k > 1 => ~IsState(q[k])
      BY <1>2, <2>2 DEF NoState
    <3> QED
      BY <1>1, <1>3, <1>5, <2>2, <3>1 DEF NewestCurrent
  <2> QED
    BY <2>1, <2>2 DEF NewestCurrent
<1> QED
  BY <1>4, <1>5 DEF t

-----------------------------------------------------------------------------
(* The hub.                                                                 *)

(* What a broadcast leaves in the channel: the frame, or the loss.          *)
LEMMA BroadcastParts ==
  ASSUME NEW q \in Seq(Frames), NEW f \in Frames, Len(q) <= Buffer
  PROVE  /\ Broadcast(q, f) \in Seq(Frames) /\ Len(Broadcast(q, f)) <= Buffer
         /\ sub = "none" => Broadcast(q, f) = q
         /\ Broadcast(q, f) \in {q, Append(q, f)}
         /\ sub # "none" /\ ~Full(q) => Broadcast(q, f) = Append(q, f)
<1>1. Append(q, f) \in Seq(Frames) /\ Len(Append(q, f)) = Len(q) + 1 /\ Len(q) \in Nat
  BY AppendFrame
<1> QED
  BY <1>1 DEF Broadcast, Full

(* A broadcast of noise changes nothing that is known of the channel.       *)
LEMMA NoiseParts ==
  ASSUME NEW q \in Seq(Frames), Len(q) <= Buffer
  PROVE  LET b == Broadcast(q, Noise)
         IN  /\ b \in Seq(Frames) /\ Len(b) <= Buffer /\ (sub = "none" => b = q)
             /\ \A s, m : AllRead(q, s, m) => AllRead(b, s, m)
             /\ NoState(b) <=> NoState(q)
             /\ \A s, d : NewestCurrent(q, s, d) => NewestCurrent(b, s, d)
<1> DEFINE b == Broadcast(q, Noise)
<1>1. b \in Seq(Frames) /\ Len(b) <= Buffer /\ (sub = "none" => b = q)
  BY BroadcastParts, FrameTypes
<1>2. b = q \/ b = Append(q, Noise)
  BY BroadcastParts, FrameTypes
<1>3. \A s, m : AllRead(q, s, m) => AllRead(Append(q, Noise), s, m)
  BY AppendRead, FrameTypes
<1>4. /\ NoState(Append(q, Noise)) <=> NoState(q)
      /\ \A s, d : NewestCurrent(q, s, d) => NewestCurrent(Append(q, Noise), s, d)
  BY AppendNoise, FrameTypes
<1> HIDE DEF b
<1>5. /\ \A s, m : AllRead(q, s, m) => AllRead(b, s, m)
      /\ NoState(b) <=> NoState(q)
      /\ \A s, d : NewestCurrent(q, s, d) => NewestCurrent(b, s, d)
  BY <1>2, <1>3, <1>4
<1> QED
  BY <1>1, <1>5 DEF b

(* The State of the session as it is goes into the channel, or is lost and  *)
(* everything else is current or older than the loss.                       *)
LEMMA PushParts ==
  ASSUME NEW q \in Seq(Frames), Len(q) <= Buffer, NEW s \in States, NEW m \in 0..MaxMoves,
         AllRead(q, s, m), PushState(q, s, m)
  PROVE  /\ chan' \in Seq(Frames) /\ Len(chan') <= Buffer /\ AllRead(chan', s, m)
         /\ sub = "none" => chan' = q
         /\ dropped' \in {dropped, m} /\ hop' = FALSE /\ sub' = sub /\ wire' = wire
         /\ sub # "none" => NewestCurrent(chan', s, dropped') /\ (NoState(chan') => dropped' = m)
<1> DEFINE f == StateEvent(s, m)
<1>1. f \in Frames /\ IsState(f) /\ f.is \in Readings /\ f.is.s = s /\ f.is.date = m
  BY FrameTypes
<1>2. /\ chan' = Broadcast(q, f) /\ hop' = FALSE /\ sub' = sub /\ wire' = wire
      /\ dropped' = IF sub # "none" /\ Full(q) THEN m ELSE dropped
  BY DEF PushState
<1> HIDE DEF f
<1>3. /\ chan' \in Seq(Frames) /\ Len(chan') <= Buffer /\ (sub = "none" => chan' = q)
      /\ chan' \in {q, Append(q, f)} /\ (sub # "none" /\ ~Full(q) => chan' = Append(q, f))
  BY <1>1, <1>2, BroadcastParts
<1>4. AllRead(chan', s, m)
  <2>1. Read(f.is, s, m)
    BY <1>1 DEF Read
  <2>2. AllRead(Append(q, f), s, m)
    BY <1>1, <2>1, AppendRead
  <2> QED
    BY <1>3, <2>2
<1>5. ASSUME sub # "none", ~Full(q)
      PROVE  NewestCurrent(chan', s, dropped') /\ ~NoState(chan')
  <2>1. Current(f.is, s, dropped')
    BY <1>1 DEF Current
  <2> QED
    BY <1>1, <1>3, <1>5, <2>1, AppendState
<1>6. ASSUME sub # "none", Full(q)
      PROVE  NewestCurrent(chan', s, dropped') /\ dropped' = m
  <2>1. dropped' = m /\ m \in Nat
    BY <1>2, <1>6
  <2> QED
    BY <1>3, <1>4, <2>1, AllReadCurrent
<1> QED
  BY <1>2, <1>3, <1>4, <1>5, <1>6

(* What a lost State says of the readings the client holds.                 *)
LEMMA HeldAfterLoss ==
  ASSUME view' \in Readings, Read(view, st, moves)', moves' \in Nat, dropped' = moves',
         polls' \in [Slot -> Polls \cup {None}],
         \A i \in Slot : Replied(i)' => Read(polls[i].reply, st, moves)'
  PROVE  HeldCurrent'
<1>1. Current(view, st, dropped)'
  BY ReadCurrent
<1>2. ASSUME NEW i \in Slot, Replied(i)' PROVE Current(polls[i].reply, st, dropped)'
  <2>1. polls'[i].reply \in Readings
    BY <1>2 DEF Replied, Fresh, Polls
  <2> QED
    BY <1>2, <2>1, ReadCurrent
<1> QED
  BY <1>1, <1>2 DEF HeldCurrent

(* The polls a typed state has.                                             *)
LEMMA PollParts ==
  ASSUME Typed, NEW i \in Slot
  PROVE  /\ polls[i] # None => /\ polls[i] \in Polls /\ polls[i].fresh \in BOOLEAN
                               /\ polls[i].reply \in Readings \cup {None}
         /\ Replied(i) => polls[i].reply \in Readings
BY DEF Typed, Polls, Replied, Fresh

-----------------------------------------------------------------------------
(* The session moves.                                                       *)

(* A move that is broadcast under the mutex.                                *)
Announced ==
  /\ up /\ up' = up /\ st' \in States /\ moves' = moves + 1 /\ moves < MaxMoves
  /\ last' \in Node \cup {None} /\ PushState(chan, st', moves') /\ UNCHANGED client

(* Every transition under the mutex is a move that is broadcast.            *)
LEMMA MovesAreAnnounced ==
  ASSUME ClientInv, Activate \/ SwitchNode \/ Stop
  PROVE  Announced
<1>0. moves \in 0..MaxMoves /\ last \in Node \cup {None} /\ Idle \in States
  BY FrameTypes DEF ClientInv, Bounded
<1>1. moves < MaxMoves => \A n \in Node : [ctx |-> moves + 1, live |-> n] \in States
  BY <1>0 DEF States
<1>2. CASE Activate
  BY <1>0, <1>1, <1>2 DEF Activate, Announced, Move
<1>3. CASE SwitchNode
  BY <1>0, <1>1, <1>3 DEF SwitchNode, Announced, Move
<1>4. CASE Stop
  BY <1>0, <1>4 DEF Stop, Announced, Move
<1> QED
  BY <1>2, <1>3, <1>4

(* A move that is broadcast: the State is the newest of the channel, or it  *)
(* is lost and dated, and what the client holds is older.                   *)
LEMMA AnnouncedKeeps ==
  ASSUME ClientInv, Announced
  PROVE  ClientInv'
<1>0. /\ Bounded /\ OneFresh /\ Typed /\ Linked /\ Dates /\ moves \in 0..MaxMoves
      /\ moves \in Nat /\ moves' \in 0..MaxMoves /\ moves' \in Nat /\ moves' = moves + 1
      /\ chan \in Seq(Frames) /\ wire \in Seq(Frames) /\ Len(chan) <= Buffer
      /\ st' \in States /\ last' \in Node \cup {None} /\ up' = up
      /\ UNCHANGED <<conn, connected, cause, view, shown, polls>>
      /\ PushState(chan, st', moves')
  BY DEF ClientInv, Announced, Bounded, Typed, client
<1>1. AllRead(chan, st', moves') /\ AllRead(wire, st', moves')
  BY <1>0, AllReadLater DEF Dates
<1>2. /\ chan' \in Seq(Frames) /\ Len(chan') <= Buffer /\ AllRead(chan', st', moves')
      /\ sub = "none" => chan' = chan
      /\ dropped' \in {dropped, moves'} /\ hop' = FALSE /\ sub' = sub /\ wire' = wire
      /\ sub # "none" => /\ NewestCurrent(chan', st', dropped')
                         /\ NoState(chan') => dropped' = moves'
  BY <1>0, <1>1, PushParts
<1>3. Bounded' /\ Typed' /\ Linked'
  BY <1>0, <1>2 DEF Bounded, Typed, Linked
<1>4. OneFresh'
  BY <1>0 DEF OneFresh, Fresh
<1>5. Dates'
  <2>1. Read(Empty, st', moves') /\ Read(view, st', moves')
    <3>1. Empty \in Readings /\ view \in Readings
      BY <1>0, FrameTypes DEF Bounded
    <3> QED
      BY <1>0, <3>1, ReadLater DEF Dates
  <2>2. ASSUME NEW i \in Slot, Replied(i)'
        PROVE  Read(polls[i].reply, st', moves') /\ polls[i].reply.date >= view.date
    <3>1. Replied(i) /\ polls[i].reply \in Readings
      BY <1>0, <2>2, PollParts DEF Replied, Fresh
    <3>2. Read(polls[i].reply, st, moves) /\ polls[i].reply.date >= view.date
      BY <1>0, <3>1 DEF Dates
    <3> QED
      BY <1>0, <3>1, <3>2, ReadLater
  <2> QED
    BY <1>0, <1>1, <1>2, <2>1, <2>2 DEF Dates
<1>6. Pipeline'
  <2>1. ASSUME sub = "streaming", NoState(chan')
        PROVE  NewestCurrent(wire, st', dropped') /\ HeldCurrent'
    <3>1. dropped' = moves'
      BY <1>2, <2>1
    <3>2. HeldCurrent'
      BY <1>0, <1>3, <1>5, <3>1, HeldAfterLoss DEF Bounded, Typed, Dates
    <3> QED
      BY <1>0, <1>1, <3>1, <3>2, AllReadCurrent
  <2> QED
    BY <1>2, <2>1 DEF Pipeline
<1> QED
  BY <1>3, <1>4, <1>5, <1>6 DEF ClientInv

(* The urltest moves and tells nobody: either the emitter's baseline is not *)
(* the live node any more, or it came back to it.                           *)
LEMMA AutoSwitchKeeps ==
  ASSUME ClientInv, AutoSwitch
  PROVE  ClientInv'
<1>0. /\ Bounded /\ OneFresh /\ Typed /\ Linked /\ Dates
      /\ moves \in Nat /\ moves < MaxMoves /\ moves' = moves + 1 /\ up' = up
      /\ chan \in Seq(Frames) /\ wire \in Seq(Frames)
      /\ hop' = (hop \/ st'.live = last)
      /\ UNCHANGED <<last, sub, chan, wire, dropped, conn, connected, cause, view, shown, polls>>
  BY DEF ClientInv, AutoSwitch, Move, Bounded, Typed, client, stream
<1>1. st' \in States /\ moves' \in 0..MaxMoves
  <2>1. PICK n \in Node : st' = [st EXCEPT !.live = n]
    BY DEF AutoSwitch, Move
  <2> QED
    BY <1>0, <2>1 DEF Bounded, States
<1>2. AllRead(chan, st', moves') /\ AllRead(wire, st', moves')
  BY <1>0, AllReadLater DEF Dates
<1>3. Bounded' /\ Typed' /\ Linked'
  <2>1. hop' \in BOOLEAN
    BY <1>0
  <2> QED
    BY <1>0, <1>1, <2>1 DEF Bounded, Typed, Linked
<1>4. OneFresh'
  BY <1>0 DEF OneFresh, Fresh
<1>5. Dates'
  <2>1. Read(Empty, st', moves') /\ Read(view, st', moves')
    <3>1. Empty \in Readings /\ view \in Readings
      BY <1>0, FrameTypes DEF Bounded
    <3> QED
      BY <1>0, <3>1, ReadLater DEF Dates
  <2>2. ASSUME NEW i \in Slot, Replied(i)'
        PROVE  Read(polls[i].reply, st', moves') /\ polls[i].reply.date >= view.date
    <3>1. Replied(i) /\ polls[i].reply \in Readings
      BY <1>0, <2>2, PollParts DEF Replied, Fresh
    <3>2. Read(polls[i].reply, st, moves) /\ polls[i].reply.date >= view.date
      BY <1>0, <3>1 DEF Dates
    <3> QED
      BY <1>0, <3>1, <3>2, ReadLater
  <2> QED
    BY <1>0, <1>2, <2>1, <2>2 DEF Dates
<1>6. Pipeline'
  BY <1>0 DEF Pipeline
<1> QED
  BY <1>3, <1>4, <1>5, <1>6 DEF ClientInv

(* Traffic, log lines and the other events change nothing that is shown.    *)
LEMMA NoiseKeeps ==
  ASSUME ClientInv, chan' = Broadcast(chan, Noise),
         UNCHANGED <<up, st, moves, last, hop, sub, wire, dropped>>, UNCHANGED client
  PROVE  ClientInv'
<1>0. /\ Bounded /\ OneFresh /\ Typed /\ Linked /\ Dates /\ Pipeline
      /\ chan \in Seq(Frames) /\ Len(chan) <= Buffer
      /\ UNCHANGED <<conn, connected, cause, view, shown, polls>>
  BY DEF ClientInv, Bounded, Typed, client
<1>1. /\ chan' \in Seq(Frames) /\ Len(chan') <= Buffer /\ (sub = "none" => chan' = chan)
      /\ AllRead(chan, st, moves) => AllRead(chan', st, moves)
      /\ NoState(chan') <=> NoState(chan)
      /\ NewestCurrent(chan, st, dropped) => NewestCurrent(chan', st, dropped)
  BY <1>0, NoiseParts
<1>2. Bounded' /\ Typed' /\ Linked'
  BY <1>0, <1>1 DEF Bounded, Typed, Linked
<1>3. OneFresh'
  BY <1>0 DEF OneFresh, Fresh
<1>4. Dates'
  BY <1>0, <1>1 DEF Dates, Replied, Fresh
<1>5. Pipeline'
  BY <1>0, <1>1 DEF Pipeline, HeldCurrent, Replied, Fresh
<1> QED
  BY <1>2, <1>3, <1>4, <1>5 DEF ClientInv

(* The emitter: the State it sends, or loses, makes the baseline right.     *)
LEMMA TickKeeps ==
  ASSUME ClientInv, Tick
  PROVE  ClientInv'
<1> DEFINE q == Broadcast(chan, Noise)
<1>0. /\ Bounded /\ OneFresh /\ Typed /\ Linked /\ Dates
      /\ chan \in Seq(Frames) /\ wire \in Seq(Frames) /\ Len(chan) <= Buffer
      /\ st \in States /\ moves \in 0..MaxMoves /\ moves \in Nat
      /\ last' = st.live /\ UNCHANGED <<up, st, moves>> /\ UNCHANGED client
      /\ UNCHANGED <<conn, connected, cause, view, shown, polls>>
  BY DEF ClientInv, Tick, Bounded, Typed, client
<1>1. CASE last = st.live
  <2>1. chan' = q /\ UNCHANGED <<up, st, moves, last, hop, sub, wire, dropped>>
    BY <1>0, <1>1 DEF Tick
  <2> QED
    BY <1>0, <2>1, NoiseKeeps
<1>2. CASE last # st.live
  <2>1. PushState(q, st, moves)
    BY <1>2 DEF Tick
  <2>2. /\ q \in Seq(Frames) /\ Len(q) <= Buffer /\ (sub = "none" => q = chan)
        /\ AllRead(q, st, moves)
    BY <1>0, NoiseParts DEF Dates
  <2> HIDE DEF q
  <2>3. /\ chan' \in Seq(Frames) /\ Len(chan') <= Buffer /\ AllRead(chan', st, moves)
        /\ sub = "none" => chan' = q
        /\ dropped' \in {dropped, moves} /\ hop' = FALSE /\ sub' = sub /\ wire' = wire
        /\ sub # "none" => /\ NewestCurrent(chan', st, dropped')
                           /\ NoState(chan') => dropped' = moves
    BY <1>0, <2>1, <2>2, PushParts
  <2>4. Bounded' /\ Typed' /\ Linked'
    <3>1. st.live \in Node \cup {None}
      BY <1>0 DEF States
    <3> QED
      BY <1>0, <2>2, <2>3, <3>1 DEF Bounded, Typed, Linked
  <2>5. OneFresh'
    BY <1>0 DEF OneFresh, Fresh
  <2>6. Dates'
    BY <1>0, <2>3 DEF Dates, Replied, Fresh
  <2>7. Pipeline'
    <3>1. ASSUME sub = "streaming", NoState(chan')
          PROVE  NewestCurrent(wire, st, dropped') /\ HeldCurrent'
      <4>1. dropped' = moves
        BY <2>3, <3>1
      <4>2. HeldCurrent'
        BY <1>0, <2>4, <2>6, <4>1, HeldAfterLoss DEF Bounded, Typed, Dates
      <4>3. AllRead(wire, st, moves)
        BY <1>0 DEF Dates
      <4> QED
        BY <1>0, <4>1, <4>2, <4>3, AllReadCurrent
    <3> QED
      BY <1>0, <2>3, <3>1 DEF Pipeline
  <2> QED
    BY <2>4, <2>5, <2>6, <2>7 DEF ClientInv
<1> QED
  BY <1>1, <1>2

-----------------------------------------------------------------------------
(* The subscription.                                                        *)

(* A new subscriber has an empty channel.                                   *)
LEMMA SubscribeKeeps ==
  ASSUME ClientInv, Subscribe
  PROVE  ClientInv'
<1>0. /\ Bounded /\ OneFresh /\ Typed /\ Linked /\ Dates
      /\ conn = "live" /\ sub = "none" /\ sub' = "registered" /\ chan = <<>>
      /\ UNCHANGED <<up, st, moves, last, hop, chan, wire, dropped>>
      /\ UNCHANGED <<conn, connected, cause, view, shown, polls>>
  BY DEF ClientInv, Subscribe, client, daemon, Linked
<1>1. Bounded' /\ Typed' /\ Linked'
  BY <1>0 DEF Bounded, Typed, Linked
<1>2. OneFresh' /\ Dates'
  BY <1>0 DEF OneFresh, Dates, Replied, Fresh
<1>3. NewestCurrent(<<>>, st, dropped)
  BY DEF NewestCurrent
<1>4. Pipeline'
  BY <1>0, <1>3 DEF Pipeline
<1> QED
  BY <1>1, <1>2, <1>4 DEF ClientInv

(* The snapshot goes out first: the session as it is, whatever was          *)
(* broadcast since the subscriber was registered.                           *)
LEMMA SnapshotKeeps ==
  ASSUME ClientInv, Snapshot
  PROVE  ClientInv'
<1> DEFINE f == StateEvent(st, moves)
<1>0. /\ Bounded /\ OneFresh /\ Typed /\ Linked /\ Dates /\ Pipeline
      /\ sub = "registered" /\ sub' = "streaming" /\ conn = "live" /\ wire = <<>>
      /\ wire' = Append(wire, f) /\ wire \in Seq(Frames)
      /\ UNCHANGED <<up, st, moves, last, hop, chan, dropped>>
      /\ UNCHANGED <<conn, connected, cause, view, shown, polls>>
  BY DEF ClientInv, Snapshot, client, daemon, Linked, Typed
<1>1. f \in Frames /\ IsState(f) /\ f.is.s = st /\ f.is.date = moves /\ moves \in Nat
  BY <1>0, FrameTypes DEF Bounded
<1> HIDE DEF f
<1>2. Read(f.is, st, moves) /\ Current(f.is, st, dropped)
  BY <1>1 DEF Read, Current
<1>3. /\ wire' \in Seq(Frames) /\ Len(wire') = Len(wire) + 1 /\ AllRead(wire', st, moves)
      /\ ~NoState(wire') /\ NewestCurrent(wire', st, dropped)
  BY <1>0, <1>1, <1>2, AppendFrame, AppendRead, AppendState DEF Dates
<1>4. Len(wire') <= Socket
  BY <1>0, <1>3
<1>5. Bounded' /\ Typed' /\ Linked'
  BY <1>0, <1>3, <1>4 DEF Bounded, Typed, Linked
<1>6. OneFresh' /\ Dates'
  BY <1>0, <1>3 DEF OneFresh, Dates, Replied, Fresh
<1>7. Pipeline'
  BY <1>0, <1>3 DEF Pipeline
<1> QED
  BY <1>5, <1>6, <1>7 DEF ClientInv

(* A frame goes from the channel to the socket.                             *)
LEMMA WriteFrameKeeps ==
  ASSUME ClientInv, WriteFrame
  PROVE  ClientInv'
<1> DEFINE f == Head(chan)
<1>0. /\ Bounded /\ OneFresh /\ Typed /\ Linked /\ Dates /\ Pipeline
      /\ sub = "streaming" /\ chan # <<>> /\ Len(wire) < Socket
      /\ wire' = Append(wire, f) /\ chan' = Tail(chan)
      /\ chan \in Seq(Frames) /\ wire \in Seq(Frames)
      /\ UNCHANGED <<up, st, moves, last, hop, sub, dropped>>
      /\ UNCHANGED <<conn, connected, cause, view, shown, polls>>
      /\ AllRead(chan, st, moves) /\ AllRead(wire, st, moves)
  BY DEF ClientInv, WriteFrame, client, daemon, Typed, Dates
<1>1. /\ f \in Frames /\ chan' \in Seq(Frames) /\ Len(chan') = Len(chan) - 1
      /\ Len(chan) \in Nat \ {0}
  BY <1>0, TailFrames
<1>2. AllRead(chan', st, moves) /\ (IsState(f) => Read(f.is, st, moves))
  BY <1>0, TailRead
<1>3. /\ NoState(chan) <=> NoState(chan') /\ ~IsState(f)
      /\ NewestCurrent(chan, st, dropped) =>
           /\ NewestCurrent(chan', st, dropped)
           /\ NoState(chan') /\ IsState(f) => Current(f.is, st, dropped)
  BY <1>0, TailCurrent
<1> HIDE DEF f
<1>4. wire' \in Seq(Frames) /\ Len(wire') = Len(wire) + 1 /\ Len(wire) \in Nat
  BY <1>0, <1>1, AppendFrame
<1>5. AllRead(wire', st, moves)
  BY <1>0, <1>1, <1>2, AppendRead
<1>6. Bounded' /\ Typed' /\ Linked'
  <2>1. Len(chan') <= Buffer /\ Len(wire') <= Socket
    BY <1>0, <1>1, <1>4 DEF Bounded
  <2> QED
    BY <1>0, <1>1, <1>4, <2>1 DEF Bounded, Typed, Linked
<1>7. OneFresh' /\ Dates'
  BY <1>0, <1>2, <1>5 DEF OneFresh, Dates, Replied, Fresh
<1>8. Pipeline'
  <2> SUFFICES ASSUME last = st.live, ~hop
               PROVE  /\ NewestCurrent(chan', st, dropped)
                      /\ NoState(chan') => NewestCurrent(wire', st, dropped)
                      /\ NoState(chan') /\ NoState(wire') => HeldCurrent'
    BY <1>0 DEF Pipeline
  <2>1. /\ NewestCurrent(chan, st, dropped)
        /\ NoState(chan) => NewestCurrent(wire, st, dropped)
        /\ NoState(chan) /\ NoState(wire) => HeldCurrent
    BY <1>0 DEF Pipeline
  <2>2. CASE IsState(f)
    <3>1. NoState(chan') => NewestCurrent(wire', st, dropped)
      BY <1>0, <1>1, <1>3, <2>1, <2>2, AppendState
    <3>2. ~NoState(wire')
      <4>1. wire'[Len(wire) + 1] = f /\ Len(wire) + 1 \in 1..Len(wire')
        BY <1>0, <1>1, <1>4, AppendFrame
      <4> QED
        BY <2>2, <4>1 DEF NoState
    <3> QED
      BY <1>3, <2>1, <3>1, <3>2
  <2>3. CASE ~IsState(f)
    <3>1. /\ NoState(wire') <=> NoState(wire)
          /\ NewestCurrent(wire, st, dropped) => NewestCurrent(wire', st, dropped)
      BY <1>0, <1>1, <2>3, AppendNoise
    <3>2. HeldCurrent => HeldCurrent'
      BY <1>0 DEF HeldCurrent, Replied, Fresh
    <3> QED
      BY <1>3, <2>1, <2>3, <3>1, <3>2
  <2> QED
    BY <2>2, <2>3
<1> QED
  BY <1>6, <1>7, <1>8 DEF ClientInv

(* The process dies: what it wrote is of the past, what it had not answered *)
(* fails.                                                                   *)
LEMMA CrashKeeps ==
  ASSUME ClientInv, Crash
  PROVE  ClientInv'
<1>0. /\ Bounded /\ OneFresh /\ Typed /\ Linked /\ Dates
      /\ moves \in Nat /\ moves < MaxMoves /\ moves' = moves + 1 /\ st' = Idle /\ last' = None
      /\ up' = FALSE /\ hop' = FALSE /\ sub' = "none" /\ chan' = <<>>
      /\ conn' = IF conn = "live" THEN "dead" ELSE conn
      /\ polls' = [i \in Slot |-> IF polls[i] # None /\ polls[i].reply = None THEN None
                                  ELSE polls[i]]
      /\ UNCHANGED <<wire, dropped, connected, cause, view, shown>> /\ wire \in Seq(Frames)
  BY DEF ClientInv, Crash, Bounded, Typed
<1>1. polls' \in [Slot -> Polls \cup {None}] /\ \A i \in Slot : polls'[i] \in {None, polls[i]}
  BY <1>0 DEF Typed
<1>2. /\ moves' \in 0..MaxMoves /\ Idle \in States
      /\ Empty \in Readings /\ view \in Readings
  BY <1>0, FrameTypes DEF Bounded
<1>3. Bounded' /\ Typed' /\ Linked'
  <2>1. chan' \in Seq(Frames) /\ Len(chan') = 0
    BY <1>0
  <2>2. Bounded'
    BY <1>0, <1>2, <2>1 DEF Bounded
  <2>3. Typed'
    BY <1>0, <1>1, <2>1 DEF Typed
  <2>4. Linked'
    BY <1>0 DEF Linked, Bounded
  <2> QED
    BY <2>2, <2>3, <2>4
<1>4. OneFresh'
  BY <1>0, <1>1 DEF OneFresh, Fresh
<1>5. Dates'
  <2>1. Read(Empty, st', moves') /\ Read(view, st', moves')
    BY <1>0, <1>2, ReadLater DEF Dates
  <2>2. AllRead(wire, st', moves')
    BY <1>0, AllReadLater DEF Dates
  <2>3. AllRead(<<>>, st', moves')
    BY DEF AllRead
  <2>4. ASSUME NEW i \in Slot, Replied(i)'
        PROVE  Read(polls'[i].reply, st', moves') /\ polls'[i].reply.date >= view.date
    <3>1. Replied(i) /\ polls'[i] = polls[i] /\ polls[i].reply \in Readings
      BY <1>0, <1>1, <2>4, PollParts DEF Replied, Fresh
    <3>2. Read(polls[i].reply, st, moves) /\ polls[i].reply.date >= view.date
      BY <1>0, <3>1 DEF Dates
    <3> QED
      BY <1>0, <3>1, <3>2, ReadLater
  <2> QED
    BY <1>0, <2>1, <2>2, <2>3, <2>4 DEF Dates
<1>6. Pipeline'
  BY <1>0 DEF Pipeline
<1> QED
  BY <1>3, <1>4, <1>5, <1>6 DEF ClientInv

-----------------------------------------------------------------------------
(* The client.                                                              *)

(* The daemon comes back, and the client opens its stream.                  *)
LEMMA ConnectKeeps ==
  ASSUME ClientInv, Boot \/ Connect
  PROVE  ClientInv'
<1>0. /\ Bounded /\ OneFresh /\ Typed /\ Linked /\ Dates /\ Pipeline
      /\ UNCHANGED <<st, moves, last, hop, sub, chan, wire, dropped>>
      /\ UNCHANGED <<connected, cause, view, shown, polls>>
  BY DEF ClientInv, Boot, Connect, client, daemon, stream
<1>1. \/ up' = TRUE /\ conn' = conn
      \/ up' = up /\ up = TRUE /\ conn = "none" /\ conn' = "live"
  BY <1>0 DEF Boot, Connect, client, daemon, Typed
<1>2. Bounded' /\ Typed' /\ Linked'
  BY <1>0, <1>1 DEF Bounded, Typed, Linked
<1>3. OneFresh' /\ Dates'
  BY <1>0 DEF OneFresh, Dates, Replied, Fresh
<1>4. Pipeline'
  BY <1>0 DEF Pipeline, HeldCurrent, Replied, Fresh
<1> QED
  BY <1>2, <1>3, <1>4 DEF ClientInv

(* The stream ended: the fields are cleared.                                *)
LEMMA ReconnectKeeps ==
  ASSUME ClientInv, ScheduleReconnect
  PROVE  ClientInv'
<1>0. /\ Bounded /\ OneFresh /\ Typed /\ Linked /\ Dates
      /\ conn \in {"dead", "none"} /\ wire = <<>> /\ sub = "none" /\ conn' = "none"
      /\ connected' = FALSE /\ cause' = TRUE /\ view' = Empty
      /\ shown' \in {Empty, shown} /\ shown \in Readings
      /\ UNCHANGED <<up, st, moves, last, hop, sub, chan, wire, dropped, polls>>
  BY DEF ClientInv, ScheduleReconnect, daemon, stream, Linked, Bounded
<1>1. Empty \in Readings /\ Empty.date = 0
  BY FrameTypes
<1>2. Bounded' /\ Typed' /\ Linked'
  BY <1>0, <1>1 DEF Bounded, Typed, Linked
<1>3. OneFresh'
  BY <1>0 DEF OneFresh, Fresh
<1>4. Dates'
  <2>1. ASSUME NEW i \in Slot, Replied(i)'
        PROVE  Read(polls[i].reply, st, moves) /\ polls[i].reply.date >= 0
    <3>1. Replied(i) /\ polls[i].reply \in Readings
      BY <1>0, <2>1, PollParts DEF Replied, Fresh
    <3> QED
      BY <1>0, <3>1 DEF Dates, Readings
  <2> QED
    BY <1>0, <1>1, <2>1 DEF Dates
<1>5. Pipeline'
  BY <1>0 DEF Pipeline
<1> QED
  BY <1>2, <1>3, <1>4, <1>5 DEF ClientInv

(* A bump of _statusGen: no reply in flight will be applied.                *)
LEMMA StaleParts ==
  ASSUME Typed
  PROVE  /\ Stale(polls) \in [Slot -> Polls \cup {None}]
         /\ \A i \in Slot : ~(Stale(polls)[i] # None /\ Stale(polls)[i].fresh)
<1>1. ASSUME NEW i \in Slot
      PROVE  /\ Stale(polls)[i] \in Polls \cup {None}
             /\ ~(Stale(polls)[i] # None /\ Stale(polls)[i].fresh)
  <2>1. CASE polls[i] = None
    BY <2>1 DEF Stale
  <2>2. CASE polls[i] # None
    <3>1. polls[i] \in Polls /\ Stale(polls)[i] = [polls[i] EXCEPT !.fresh = FALSE]
      BY <2>2, PollParts DEF Stale
    <3> QED
      BY <3>1 DEF Polls
  <2> QED
    BY <2>1, <2>2
<1> QED
  BY <1>1 DEF Stale

(* A frame reaches the client: the newest State of the pipeline is what it  *)
(* shows then.                                                              *)
LEMMA ReadEventKeeps ==
  ASSUME ClientInv, ReadEvent
  PROVE  ClientInv'
<1> DEFINE f == Head(wire)
<1>0. /\ Bounded /\ OneFresh /\ Typed /\ Linked /\ Dates /\ Pipeline
      /\ wire # <<>> /\ wire' = Tail(wire) /\ wire \in Seq(Frames) /\ OnEvent(f)
      /\ connected' = TRUE /\ cause' = (cause /\ connected) /\ shown' = view'
      /\ UNCHANGED <<up, st, moves, last, hop, sub, chan, dropped, conn>>
      /\ AllRead(wire, st, moves) /\ Len(wire) <= Socket /\ moves \in Nat
  BY DEF ClientInv, ReadEvent, daemon, Typed, Dates, Bounded
<1>1. /\ f \in Frames /\ wire' \in Seq(Frames) /\ Len(wire') = Len(wire) - 1
      /\ Len(wire) \in Nat \ {0}
  BY <1>0, TailFrames
<1>2. AllRead(wire', st, moves) /\ (IsState(f) => Read(f.is, st, moves) /\ f.is \in Readings)
  BY <1>0, <1>1, TailRead, FrameTypes
<1>3. /\ NoState(wire) <=> NoState(wire') /\ ~IsState(f)
      /\ NewestCurrent(wire, st, dropped) =>
           /\ NewestCurrent(wire', st, dropped)
           /\ NoState(wire') /\ IsState(f) => Current(f.is, st, dropped)
  BY <1>0, TailCurrent
<1> HIDE DEF f
<1>4. CASE IsState(f)
  <2>1. view' = f.is /\ polls' = Stale(polls)
    BY <1>0, <1>4 DEF OnEvent, IsState
  <2>2. polls' \in [Slot -> Polls \cup {None}] /\ \A i \in Slot : ~Fresh(i)'
    BY <1>0, <2>1, StaleParts DEF Fresh
  <2>3. Bounded' /\ Typed' /\ Linked'
    <3>1. Len(wire') <= Socket /\ view' \in Readings /\ conn # "none"
      BY <1>0, <1>1, <1>2, <1>4, <2>1 DEF Linked
    <3>2. sub # "streaming" /\ conn # "dead" => FALSE
      BY <1>0 DEF Linked
    <3> QED
      BY <1>0, <1>1, <2>2, <3>1, <3>2 DEF Bounded, Typed, Linked
  <2>4. OneFresh' /\ Dates'
    BY <1>0, <1>2, <1>4, <2>1, <2>2 DEF OneFresh, Dates, Replied
  <2>5. Pipeline'
    <3> SUFFICES ASSUME last = st.live, ~hop
                 PROVE  /\ sub # "none" => NewestCurrent(chan, st, dropped)
                        /\ sub = "streaming" /\ NoState(chan) => NewestCurrent(wire', st, dropped)
                        /\ sub = "streaming" /\ NoState(chan) /\ NoState(wire') => HeldCurrent'
      BY <1>0 DEF Pipeline
    <3>1. /\ sub # "none" => NewestCurrent(chan, st, dropped)
          /\ sub = "streaming" /\ NoState(chan) => NewestCurrent(wire, st, dropped)
      BY <1>0 DEF Pipeline
    <3>2. Current(f.is, st, dropped) => HeldCurrent'
      BY <1>0, <2>1, <2>2 DEF HeldCurrent, Replied
    <3> QED
      BY <1>3, <1>4, <3>1, <3>2
  <2> QED
    BY <2>3, <2>4, <2>5 DEF ClientInv
<1>5. CASE ~IsState(f)
  <2>1. UNCHANGED <<view, polls>>
    BY <1>0, <1>5 DEF OnEvent, IsState
  <2>2. Bounded' /\ Typed' /\ Linked'
    <3>1. Len(wire') <= Socket /\ conn # "none"
      BY <1>0, <1>1 DEF Linked
    <3>2. sub # "streaming" /\ conn # "dead" => FALSE
      BY <1>0 DEF Linked
    <3> QED
      BY <1>0, <1>1, <2>1, <3>1, <3>2 DEF Bounded, Typed, Linked
  <2>3. OneFresh' /\ Dates'
    BY <1>0, <1>2, <2>1 DEF OneFresh, Dates, Replied, Fresh
  <2>4. Pipeline'
    <3>1. NoState(wire') => NoState(wire)
      BY <1>3, <1>5
    <3>2. HeldCurrent => HeldCurrent'
      BY <1>0, <2>1 DEF HeldCurrent, Replied, Fresh
    <3> QED
      BY <1>0, <1>3, <3>1, <3>2 DEF Pipeline
  <2> QED
    BY <2>2, <2>3, <2>4 DEF ClientInv
<1> QED
  BY <1>4, <1>5

-----------------------------------------------------------------------------
(* The polls.                                                               *)

(* A step of the client's fields and polls alone.                           *)
LEMMA FieldsKeep ==
  ASSUME ClientInv, UNCHANGED <<up, st, moves, last, hop, sub, chan, wire, dropped>>,
         UNCHANGED <<conn, connected, cause>>,
         view' \in Readings, shown' \in Readings, connected => shown' = view',
         polls' \in [Slot -> Polls \cup {None}], OneFresh', Read(view', st, moves),
         \A j \in Slot : Replied(j)' => /\ Read(polls'[j].reply, st, moves)
                                        /\ polls'[j].reply.date >= view'.date,
         HeldCurrent => HeldCurrent'
  PROVE  ClientInv'
<1>0. Bounded /\ OneFresh /\ Typed /\ Linked /\ Dates /\ Pipeline
  BY DEF ClientInv
<1>1. Bounded' /\ Typed' /\ Linked'
  BY <1>0 DEF Bounded, Typed, Linked
<1>2. Dates'
  BY <1>0 DEF Dates
<1>3. Pipeline'
  BY <1>0 DEF Pipeline
<1> QED
  BY <1>1, <1>2, <1>3 DEF ClientInv

(* A request just sent has its type and no reply.                           *)
LEMMA AskedParts == Asked \in Polls /\ Asked.fresh = TRUE /\ Asked.reply = None
BY DEF Asked, Polls

(* A poll starts, and no other reply in flight will be applied.             *)
LEMMA PollStatusKeeps ==
  ASSUME ClientInv, NEW i \in Slot, PollStatus(i)
  PROVE  ClientInv'
<1>0. /\ Bounded /\ Typed /\ Linked /\ Dates
      /\ UNCHANGED <<up, st, moves, last, hop, sub, chan, wire, dropped>>
      /\ UNCHANGED <<conn, connected, cause>> /\ UNCHANGED <<view, shown>>
      /\ polls' \in {Stale(polls), [Stale(polls) EXCEPT ![i] = Asked]}
      /\ view \in Readings /\ shown \in Readings /\ Read(view, st, moves)
      /\ connected => shown = view
  BY DEF ClientInv, PollStatus, daemon, stream, Bounded, Linked, Dates
<1>1. /\ Stale(polls) \in [Slot -> Polls \cup {None}]
      /\ \A j \in Slot : ~(Stale(polls)[j] # None /\ Stale(polls)[j].fresh)
  BY <1>0, StaleParts
<1>2. polls' \in [Slot -> Polls \cup {None}]
  BY <1>0, <1>1, AskedParts
<1>3. \A j \in Slot : Fresh(j)' => j = i /\ polls'[j] = Asked
  BY <1>0, <1>1 DEF Fresh
<1>4. OneFresh'
  BY <1>3 DEF OneFresh
<1>5. \A j \in Slot : ~Replied(j)'
  BY <1>3, AskedParts DEF Replied
<1>6. HeldCurrent => HeldCurrent'
  BY <1>0, <1>5 DEF HeldCurrent
<1> QED
  BY <1>0, <1>2, <1>4, <1>5, <1>6, FieldsKeep

(* The daemon answers with the session as it is.                            *)
LEMMA StatusKeeps ==
  ASSUME ClientInv, NEW i \in Slot, Status(i)
  PROVE  ClientInv'
<1> DEFINE r == Dated(st, moves)
           x == [polls[i] EXCEPT !.reply = r]
<1>0. /\ Bounded /\ OneFresh /\ Typed /\ Linked /\ Dates
      /\ UNCHANGED <<up, st, moves, last, hop, sub, chan, wire, dropped>>
      /\ UNCHANGED <<conn, connected, cause>> /\ UNCHANGED <<view, shown>>
      /\ polls \in [Slot -> Polls \cup {None}]
      /\ polls' = [polls EXCEPT ![i].reply = Dated(st, moves)] /\ polls[i] # None
      /\ view \in Readings /\ shown \in Readings /\ Read(view, st, moves)
      /\ connected => shown = view
      /\ st \in States /\ moves \in 0..MaxMoves
  BY DEF ClientInv, Status, daemon, stream, Bounded, Linked, Dates, Typed
<1>1. r \in Readings /\ r.s = st /\ r.date = moves
  BY <1>0, FrameTypes
<1>2. polls[i] \in Polls
  BY <1>0, PollParts
<1> HIDE DEF r
<1>3. x \in Polls /\ x.reply = r /\ x.fresh = polls[i].fresh
  BY <1>1, <1>2 DEF Polls
<1>4. polls' = [polls EXCEPT ![i] = x]
  BY <1>0 DEF r
<1> HIDE DEF x
<1>5. polls' \in [Slot -> Polls \cup {None}]
  BY <1>0, <1>3, <1>4
<1>6. /\ polls'[i] = x /\ \A j \in Slot : j # i => polls'[j] = polls[j]
  BY <1>0, <1>4
<1>7. \A j \in Slot : Fresh(j)' => Fresh(j)
  BY <1>0, <1>3, <1>6 DEF Fresh
<1>8. OneFresh'
  BY <1>0, <1>7 DEF OneFresh
<1>9. /\ Read(r, st, moves) /\ Current(r, st, dropped) /\ r.date >= view.date
  <2>1. view.date <= moves /\ view.date \in Nat
    BY <1>0 DEF Read, Readings
  <2> QED
    BY <1>0, <1>1, <2>1 DEF Read, Current
<1>10. \A j \in Slot : Replied(j)' => polls'[j].reply = r \/ (Replied(j) /\ polls'[j] = polls[j])
  BY <1>3, <1>6 DEF Replied, Fresh
<1>11. \A j \in Slot : Replied(j)' => /\ Read(polls'[j].reply, st, moves)
                                      /\ polls'[j].reply.date >= view'.date
  BY <1>0, <1>9, <1>10 DEF Dates
<1>12. HeldCurrent => HeldCurrent'
  BY <1>0, <1>9, <1>10 DEF HeldCurrent
<1> QED
  BY <1>0, <1>5, <1>8, <1>11, <1>12, FieldsKeep

(* Where the poll of slot j was before the one of slot i was removed.       *)
Origin(i, j) == IF j < i THEN j ELSE j + 1

(* Dropping one request keeps the others, moved up.                         *)
LEMMA WithoutParts ==
  ASSUME Typed, NEW i \in Slot
  PROVE  /\ Without(i) \in [Slot -> Polls \cup {None}]
         /\ \A j \in Slot : Without(i)[j] # None =>
              /\ Origin(i, j) \in Slot /\ Origin(i, j) # i
              /\ Without(i)[j] = polls[Origin(i, j)]
<1>1. ASSUME NEW j \in Slot
      PROVE  \/ Without(i)[j] = None
             \/ /\ Origin(i, j) \in Slot /\ Origin(i, j) # i
                /\ Without(i)[j] = polls[Origin(i, j)]
  <2>1. CASE j < i
    BY <2>1 DEF Without, Origin, Slot
  <2>2. CASE ~(j < i) /\ j < MaxPolls
    BY <2>2 DEF Without, Origin, Slot
  <2>3. CASE ~(j < i) /\ ~(j < MaxPolls)
    BY <2>3 DEF Without
  <2> QED
    BY <2>1, <2>2, <2>3
<1>2. \A j \in Slot : Without(i)[j] \in Polls \cup {None}
  BY <1>1 DEF Typed
<1>3. Without(i) \in [Slot -> Polls \cup {None}]
  BY <1>2 DEF Without
<1> QED
  BY <1>1, <1>3

(* A reply is applied when no newer poll or State overtook it, and then no  *)
(* other will be.                                                           *)
LEMMA ReceiveKeeps ==
  ASSUME ClientInv, NEW i \in Slot, Receive(i) \/ PollFails(i)
  PROVE  ClientInv'
<1>0. /\ Bounded /\ OneFresh /\ Typed /\ Linked /\ Dates
      /\ UNCHANGED <<up, st, moves, last, hop, sub, chan, wire, dropped>>
      /\ UNCHANGED <<conn, connected, cause>>
      /\ polls' = Without(i) /\ polls[i] # None
      /\ view \in Readings /\ shown \in Readings /\ Read(view, st, moves)
      /\ connected => shown = view
  BY DEF ClientInv, Receive, PollFails, daemon, stream, Bounded, Linked, Dates
<1>1. /\ polls' \in [Slot -> Polls \cup {None}]
      /\ \A j \in Slot : polls'[j] # None =>
           /\ Origin(i, j) \in Slot /\ Origin(i, j) # i /\ polls'[j] = polls[Origin(i, j)]
  BY <1>0, WithoutParts
<1>2. \A j \in Slot : Fresh(j)' => /\ Origin(i, j) \in Slot /\ Origin(i, j) # i
                                   /\ Fresh(Origin(i, j)) /\ polls'[j] = polls[Origin(i, j)]
  BY <1>1 DEF Fresh
<1>3. OneFresh'
  <2> SUFFICES ASSUME NEW j \in Slot, NEW k \in Slot, Fresh(j)', Fresh(k)' PROVE j = k
    BY DEF OneFresh
  <2>1. Origin(i, j) = Origin(i, k)
    BY <1>0, <1>2 DEF OneFresh
  <2> QED
    BY <2>1 DEF Origin, Slot
<1>4. CASE Replied(i) /\ view' = polls[i].reply /\ shown' = view'
  <2>1. \A j \in Slot : ~Fresh(j)'
    BY <1>0, <1>2, <1>4 DEF OneFresh, Replied
  <2>2. view' \in Readings /\ Read(view', st, moves)
    BY <1>0, <1>4, PollParts DEF Dates
  <2>3. HeldCurrent => HeldCurrent'
    BY <1>0, <1>4, <2>1 DEF HeldCurrent, Replied
  <2>4. \A j \in Slot : ~Replied(j)'
    BY <2>1 DEF Replied
  <2> QED
    BY <1>0, <1>1, <1>3, <1>4, <2>2, <2>3, <2>4, FieldsKeep
<1>5. CASE view' = view /\ shown' = shown
  <2>1. \A j \in Slot : Replied(j)' => /\ Origin(i, j) \in Slot /\ Replied(Origin(i, j))
                                       /\ polls'[j] = polls[Origin(i, j)]
    BY <1>2 DEF Replied
  <2>2. \A j \in Slot : Replied(j)' => /\ Read(polls'[j].reply, st, moves)
                                       /\ polls'[j].reply.date >= view'.date
    BY <1>0, <1>5, <2>1 DEF Dates
  <2>3. HeldCurrent => HeldCurrent'
    BY <1>0, <1>5, <2>1 DEF HeldCurrent
  <2> QED
    BY <1>0, <1>1, <1>3, <1>5, <2>2, <2>3, FieldsKeep
<1> QED
  BY <1>4, <1>5 DEF Receive, PollFails, Replied, Fresh

-----------------------------------------------------------------------------
(* The theorems.                                                            *)

(* The invariant holds before anybody is connected.                         *)
LEMMA InitClient == Init => ClientInv
<1> SUFFICES ASSUME Init PROVE ClientInv
  OBVIOUS
<1>0. /\ up = TRUE /\ st = Idle /\ moves = 0 /\ last = None /\ hop = FALSE
      /\ sub = "none" /\ chan = <<>> /\ wire = <<>> /\ dropped = 0
      /\ conn = "none" /\ connected = FALSE /\ cause = FALSE
      /\ view = Empty /\ shown = Empty /\ polls = [i \in Slot |-> None]
      /\ Idle \in States /\ Empty \in Readings /\ Empty.date = 0 /\ Empty.s = Idle
  BY FrameTypes DEF Init
<1>1. \A i \in Slot : ~Fresh(i) /\ ~Replied(i)
  BY <1>0 DEF Fresh, Replied
<1>2. Bounded /\ Typed /\ Linked
  <2>1. chan \in Seq(Frames) /\ wire \in Seq(Frames) /\ Len(chan) = 0 /\ Len(wire) = 0
    BY <1>0
  <2>2. Bounded
    BY <1>0, <2>1 DEF Bounded
  <2>3. Typed
    BY <1>0, <2>1 DEF Typed
  <2>4. Linked
    BY <1>0 DEF Linked
  <2> QED
    BY <2>2, <2>3, <2>4
<1>3. OneFresh
  BY <1>1 DEF OneFresh
<1>4. Dates
  <2>1. Read(Empty, st, moves)
    BY <1>0 DEF Read
  <2>2. AllRead(<<>>, st, moves)
    BY DEF AllRead
  <2> QED
    BY <1>0, <1>1, <2>1, <2>2 DEF Dates
<1>5. Pipeline
  BY <1>0 DEF Pipeline
<1> QED
  BY <1>2, <1>3, <1>4, <1>5 DEF ClientInv

(* Every step keeps the invariant.                                          *)
LEMMA ClientStep == ClientInv /\ [Next]_vars => ClientInv'
<1> SUFFICES ASSUME ClientInv, [Next]_vars PROVE ClientInv'
  OBVIOUS
<1>1. CASE Activate \/ SwitchNode \/ Stop
  BY <1>1, MovesAreAnnounced, AnnouncedKeeps
<1>2. CASE AutoSwitch
  BY <1>2, AutoSwitchKeeps
<1>3. CASE Tick
  BY <1>3, TickKeeps
<1>4. CASE OtherEvent
  BY <1>4, NoiseKeeps DEF OtherEvent, daemon
<1>5. CASE Subscribe
  BY <1>5, SubscribeKeeps
<1>6. CASE Snapshot
  BY <1>6, SnapshotKeeps
<1>7. CASE WriteFrame
  BY <1>7, WriteFrameKeeps
<1>8. CASE Crash
  BY <1>8, CrashKeeps
<1>9. CASE Boot \/ Connect
  BY <1>9, ConnectKeeps
<1>10. CASE ReadEvent
  BY <1>10, ReadEventKeeps
<1>11. CASE ScheduleReconnect
  BY <1>11, ReconnectKeeps
<1>12. CASE \E i \in Slot : PollStatus(i) \/ Status(i) \/ Receive(i) \/ PollFails(i)
  BY <1>12, PollStatusKeeps, StatusKeeps, ReceiveKeeps
<1>13. CASE UNCHANGED vars
  <2>1. /\ Bounded /\ OneFresh /\ Typed /\ Linked /\ Dates /\ Pipeline
        /\ UNCHANGED <<up, st, moves, last, hop, sub, chan, wire, dropped>>
        /\ UNCHANGED <<conn, connected, cause, view, shown, polls>>
    BY <1>13 DEF ClientInv, vars
  <2>2. Bounded' /\ Typed' /\ Linked'
    BY <2>1 DEF Bounded, Typed, Linked
  <2>3. OneFresh' /\ Dates'
    BY <2>1 DEF OneFresh, Dates, Replied, Fresh
  <2>4. Pipeline'
    BY <2>1 DEF Pipeline, HeldCurrent, Replied, Fresh
  <2> QED
    BY <2>2, <2>3, <2>4 DEF ClientInv
<1> QED
  BY <1>1, <1>2, <1>3, <1>4, <1>5, <1>6, <1>7, <1>8, <1>9, <1>10, <1>11, <1>12, <1>13 DEF Next

(* The invariant holds in every reachable state.                            *)
THEOREM ClientInvariant == Spec => []ClientInv
BY InitClient, ClientStep, PTL DEF Spec

(* Buffers within their bounds, and at most one poll whose reply may still  *)
(* be applied: _statusGen, for any number of polls in flight.               *)
THEOREM ClientTypeCorrect == Spec => []TypeOK
<1>1. ClientInv => TypeOK
  BY DEF ClientInv, TypeOK
<1> QED
  BY <1>1, ClientInvariant, PTL

(* With no event under way a connected client shows the daemon's session,   *)
(* unless the full channel lost a newer State or the urltest came back to   *)
(* the emitter's baseline: Hub.Broadcast, Server.stream and _onEvent, for   *)
(* any buffer and any order of events, snapshot and replies.                *)
THEOREM QuietViewsAreCurrent == Spec => []QuietViewIsCurrent
<1>1. ClientInv => QuietViewIsCurrent
  <2> SUFFICES ASSUME ClientInv, connected, sub = "streaming", chan = <<>>, wire = <<>>,
                      last = st.live, ~hop
               PROVE  shown = view /\ (view.s = st \/ view.date < dropped)
    BY DEF QuietViewIsCurrent
  <2>1. NoState(chan) /\ NoState(wire)
    BY DEF NoState
  <2>2. HeldCurrent /\ shown = view
    BY <2>1 DEF ClientInv, Pipeline, Linked
  <2> QED
    BY <2>2 DEF HeldCurrent, Current
<1> QED
  BY <1>1, ClientInvariant, PTL

(* A status reply never takes the view behind a state it has shown, however *)
(* many polls are in flight and however late the reply: _pollStatus.        *)
THEOREM RepliesNeverRegress == Spec => PollNeverRegresses
<1>1. ASSUME ClientInv, NEW i \in Slot, Receive(i) PROVE view'.date >= view.date
  <2>1. view.date \in Nat
    BY <1>1 DEF ClientInv, Bounded, Readings
  <2>2. CASE polls[i].fresh
    <3>1. Replied(i) /\ view' = polls[i].reply
      BY <1>1, <2>2 DEF Receive, Replied, Fresh
    <3> QED
      BY <1>1, <3>1 DEF ClientInv, Dates
  <2>3. CASE ~polls[i].fresh
    BY <1>1, <2>1, <2>3 DEF Receive
  <2> QED
    BY <2>2, <2>3
<1>2. ClientInv /\ [Next]_vars => [\A i \in Slot : Receive(i) => view'.date >= view.date]_vars
  BY <1>1
<1> QED
  BY <1>2, ClientInvariant, PTL DEF Spec, PollNeverRegresses
=============================================================================
