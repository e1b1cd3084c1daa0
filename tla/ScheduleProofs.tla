--------------------------- MODULE ScheduleProofs ---------------------------
(* Proofs about Schedule: for any number of subscriptions and profiles, any *)
(* interval and any backoff, over every order of sweeps, fetches, verbs,    *)
(* restarts and passing time.                                               *)
EXTENDS Schedule, TLAPS

USE TimesAssumption

(* The parts of a typed state.                                              *)
LEMMA SubParts ==
  ASSUME Typed, NEW s \in Sub
  PROVE  /\ Stored(s) => /\ subs[s] \in Subscription /\ subs[s].on \in BOOLEAN
                         /\ subs[s].url \in 1..2 /\ subs[s].age \in Ages
                         /\ subs[s].body \in 0..MaxBody
         /\ retry[s] # None => /\ retry[s] \in Retry /\ retry[s].left \in Nat
                               /\ retry[s].delay \in Nat /\ retry[s].fage \in Ages
                               /\ retry[s].after \in BOOLEAN
         /\ tries[s] \in Tries /\ tries[s].failed \in Nat /\ tries[s].ago \in Nat
         /\ tries[s].overtaken \in BOOLEAN /\ tries[s].forgotten \in BOOLEAN
<1>1. /\ subs[s] \in Subscription \cup {None} /\ retry[s] \in Retry \cup {None}
      /\ tries[s] \in Tries
  BY DEF Typed
<1>2. Stored(s) => /\ subs[s] \in Subscription /\ subs[s].on \in BOOLEAN
                   /\ subs[s].url \in 1..2 /\ subs[s].age \in Ages
                   /\ subs[s].body \in 0..MaxBody
  BY <1>1 DEF Stored, Subscription
<1>3. retry[s] # None => /\ retry[s] \in Retry /\ retry[s].left \in Nat
                         /\ retry[s].delay \in Nat /\ retry[s].fage \in Ages
                         /\ retry[s].after \in BOOLEAN
  BY <1>1 DEF Retry
<1>4. /\ tries[s].failed \in Nat /\ tries[s].ago \in Nat
      /\ tries[s].overtaken \in BOOLEAN /\ tries[s].forgotten \in BOOLEAN
  BY <1>1 DEF Tries
<1> QED
  BY <1>1, <1>2, <1>3, <1>4

(* What the loop holds between its steps.                                   *)
LEMMA LoopParts ==
  ASSUME Typed
  PROVE  /\ loop.todo \subseteq Snapshot
         /\ loop.fetch # None => /\ loop.fetch \in Fetched /\ loop.fetch.s \in Sub
                                 /\ loop.fetch.url \in 1..2
                                 /\ loop.fetch.got.ok \in BOOLEAN
                                 /\ loop.fetch.got.body \in 0..MaxBody
                                 /\ loop.fetch.got.behind \in BOOLEAN
BY DEF Typed, Fetched, Got

(* The initial history and the idle loop have their types.                  *)
LEMMA Constants ==
  /\ NoTry \in Tries /\ NoTry.failed = 0 /\ NoTry.ago = 0
  /\ NoTry.overtaken = FALSE /\ NoTry.forgotten = FALSE
  /\ InLoop \in [todo : SUBSET Snapshot, fetch : Fetched \cup {None}]
  /\ InLoop.todo = {} /\ InLoop.fetch = None
BY DEF NoTry, Tries, InLoop

(* Grow stays within the ages and keeps their order.                        *)
LEMMA GrowAges ==
  ASSUME NEW a \in Ages, NEW b \in Ages
  PROVE  /\ Grow(a) \in Ages /\ (a >= 0 => Grow(a) >= 0) /\ (a >= b => Grow(a) >= Grow(b))
BY DEF Grow, Ages

(* nextSubscriptionRetry: the wait doubles and stays within its bounds.     *)
LEMMA RetryParts ==
  ASSUME NEW r, r = None \/ (r \in Retry /\ r.delay \in BackoffMin..BackoffMax),
         NEW b \in BOOLEAN
  PROVE  LET n == NextSubscriptionRetry(r, b)
         IN  /\ n \in Retry /\ n.delay \in BackoffMin..BackoffMax /\ n.left = n.delay
             /\ n.fage = 0 /\ n.after = b
             /\ r # None => n.delay = (IF r.delay * 2 > BackoffMax THEN BackoffMax ELSE r.delay * 2)
<1> DEFINE d == IF r = None THEN BackoffMin
                ELSE IF r.delay * 2 > BackoffMax THEN BackoffMax ELSE r.delay * 2
<1>1. d \in BackoffMin..BackoffMax /\ d \in Nat
  BY DEF Retry
<1>2. NextSubscriptionRetry(r, b) = [left |-> d, delay |-> d, fage |-> 0, after |-> b]
  BY DEF NextSubscriptionRetry
<1>3. 0 \in Ages
  BY DEF Ages
<1> HIDE DEF d
<1>4. LET n == NextSubscriptionRetry(r, b)
      IN  n \in Retry /\ n.delay = d /\ n.left = d /\ n.fage = 0 /\ n.after = b
  BY <1>1, <1>2, <1>3 DEF Retry
<1> QED
  BY <1>1, <1>4 DEF d

(* What a failure that lands makes of the history of one subscription.      *)
LEMMA HistoryParts ==
  ASSUME NEW t \in Tries, NEW b \in BOOLEAN
  PROVE  /\ Failing(t, b) \in Tries /\ Failing(t, b).forgotten = FALSE /\ Failing(t, b).ago = 0
         /\ b \/ turned => Failing(t, b).failed = 0
         /\ ~b /\ ~turned => Failing(t, b).failed = Another(IF t.forgotten THEN 0 ELSE t.failed)
<1> DEFINE k == Another(IF t.forgotten THEN 0 ELSE t.failed)
<1>1. k \in Nat
  BY DEF Tries, Another
<1> HIDE DEF k
<1>2. Failing(t, b) = IF b \/ turned THEN NoTry ELSE [NoTry EXCEPT !.failed = k]
  BY DEF Failing, k
<1>3. /\ [NoTry EXCEPT !.failed = k] \in Tries /\ [NoTry EXCEPT !.failed = k].failed = k
      /\ [NoTry EXCEPT !.failed = k].forgotten = FALSE /\ [NoTry EXCEPT !.failed = k].ago = 0
  BY <1>1 DEF NoTry, Tries
<1> QED
  BY <1>2, <1>3, Constants DEF k

(* What a success makes of it.                                              *)
LEMMA OvertakenParts ==
  ASSUME NEW b \in BOOLEAN
  PROVE  LET t == [NoTry EXCEPT !.overtaken = b]
         IN  t \in Tries /\ t.failed = 0 /\ t.forgotten = FALSE /\ t.overtaken = b
BY DEF NoTry, Tries

(* What a sweep makes of it: nothing but to mark it forgotten.              *)
LEMMA AfterSweepParts ==
  ASSUME NEW s \in Sub, tries[s] \in Tries
  PROVE  /\ AfterSweep(s) \in Tries
         /\ AfterSweep(s).failed > 0 => tries[s].failed > 0
         /\ Stored(s) /\ Home[s] = active => AfterSweep(s) = tries[s]
         /\ ~(Stored(s) /\ Home[s] = active) =>
              AfterSweep(s).forgotten \/ ~(AfterSweep(s).failed > 0)
<1>1. /\ [tries[s] EXCEPT !.forgotten = TRUE] \in Tries
      /\ [tries[s] EXCEPT !.forgotten = TRUE].failed = tries[s].failed
      /\ [tries[s] EXCEPT !.forgotten = TRUE].forgotten = TRUE
  BY DEF Tries
<1>2. CASE ~Stored(s)
  BY <1>2, Constants DEF AfterSweep
<1>3. CASE Stored(s)
  BY <1>1, <1>3 DEF AfterSweep
<1> QED
  BY <1>2, <1>3

(* Pruning removes an entry or leaves it.                                   *)
LEMMA PrunedParts ==
  ASSUME NEW s \in Sub
  PROVE  Pruned(s) \in {None, retry[s]}
BY DEF Pruned

-----------------------------------------------------------------------------
(* The loop.                                                                *)

(* A sweep prunes superseded retries and takes its snapshot.                *)
LEMMA SweepKeeps ==
  ASSUME ScheduleInv, Sweep
  PROVE  ScheduleInv'
<1>0. /\ Typed /\ TypeOK /\ NoFuture /\ UsedOnly /\ NothingNewer
      /\ up = TRUE /\ retry' = [s \in Sub |-> Pruned(s)]
      /\ loop' = [todo |-> Snapshots(DueSubscriptions), fetch |-> None]
      /\ tries' = [s \in Sub |-> AfterSweep(s)] /\ tries \in [Sub -> Tries]
      /\ UNCHANGED <<active, subs, used, body, up, turned>>
  BY DEF ScheduleInv, Sweep, Typed
<1>1. \A s \in Sub : /\ retry'[s] \in {None, retry[s]}
                     /\ subs'[s] = subs[s] /\ Stored(s)' = Stored(s)
                     /\ tries'[s] \in Tries /\ (tries'[s].failed > 0 => tries[s].failed > 0)
  BY <1>0, PrunedParts, AfterSweepParts DEF Stored
<1>2. Snapshots(DueSubscriptions) \subseteq Snapshot
  <2>1. ASSUME NEW s \in DueSubscriptions
        PROVE  [s |-> s, url |-> subs[s].url, got |-> None] \in Snapshot
    BY <1>0, <2>1, SubParts DEF DueSubscriptions, Snapshot
  <2> QED
    BY <2>1 DEF Snapshots
<1>3. loop' \in [todo : SUBSET Snapshot, fetch : Fetched \cup {None}] /\ loop'.fetch = None
  BY <1>0, <1>2
<1>4. Typed'
  <2>1. retry' \in [Sub -> Retry \cup {None}]
    BY <1>0, PrunedParts DEF Typed
  <2>2. tries' \in [Sub -> Tries]
    BY <1>0, <1>1
  <2> QED
    BY <1>0, <1>3, <2>1, <2>2 DEF Typed
<1>5. TypeOK'
  BY <1>0, <1>1 DEF TypeOK
<1>6. NoFuture'
  BY <1>0, <1>1 DEF NoFuture
<1>8. UsedOnly'
  <2>1. \A x \in loop'.todo : x.s \in used
    BY <1>0 DEF Snapshots, DueSubscriptions, UsedOnly
  <2> QED
    BY <1>0, <1>1, <1>3, <2>1 DEF UsedOnly
<1>7. NothingNewer'
  BY <1>0, <1>1, <1>3 DEF NothingNewer
<1> QED
  BY <1>4, <1>5, <1>6, <1>7, <1>8 DEF ScheduleInv

(* A fetch is dated by what the provider served at the time.                *)
LEMMA FetchKeeps ==
  ASSUME ScheduleInv, FetchSubscription
  PROVE  ScheduleInv'
<1>0. /\ Typed /\ TypeOK /\ NoFuture /\ UsedOnly /\ NothingNewer /\ up = TRUE
      /\ UNCHANGED <<active, subs, used, body, up, retry, tries, turned>>
  BY DEF ScheduleInv, FetchSubscription, Typed
<1>1. PICK x \in First(loop.todo), g \in {Answer(TRUE, body), Answer(FALSE, 0)} :
         loop' = [todo |-> loop.todo \ {x}, fetch |-> [x EXCEPT !.got = g]]
  BY DEF FetchSubscription
<1>2. x \in loop.todo /\ x \in Snapshot /\ loop.todo \subseteq Snapshot
  BY <1>0, <1>1, LoopParts DEF First
<1>3. /\ g \in Got /\ g.body <= body
      /\ g.ok => g.body = body
  <2>1. body \in 0..MaxBody /\ 0 \in 0..MaxBody
    BY <1>0 DEF Typed
  <2>2. CASE g = Answer(TRUE, body)
    BY <2>1, <2>2 DEF Answer, Got
  <2>3. CASE g = Answer(FALSE, 0)
    BY <2>1, <2>3 DEF Answer, Got
  <2> QED
    BY <2>2, <2>3
<1> DEFINE y == [x EXCEPT !.got = g]
<1>4. y \in Fetched /\ y.s = x.s /\ y.got = g
  BY <1>2, <1>3 DEF Snapshot, Fetched
<1> HIDE DEF y
<1>5. /\ loop' \in [todo : SUBSET Snapshot, fetch : Fetched \cup {None}]
      /\ loop'.todo = loop.todo \ {x} /\ loop'.fetch = y
  BY <1>1, <1>2, <1>4 DEF y
<1>6. Stored(x.s)' = Stored(x.s)
  BY <1>0 DEF Stored
<1>7. Typed' /\ TypeOK'
  BY <1>0, <1>5 DEF Typed, TypeOK, Stored
<1>8. NoFuture'
  BY <1>0 DEF NoFuture, Stored
<1>9. UsedOnly'
  BY <1>0, <1>2, <1>4, <1>5 DEF UsedOnly, Stored
<1>10. NothingNewer'
  <2>1. x.s \in Sub /\ (Stored(x.s) => subs[x.s].body <= body /\ subs[x.s].body \in 0..MaxBody)
    BY <1>0, <1>2, SubParts DEF Snapshot, NothingNewer
  <2>2. Stored(x.s) /\ g.ok => ~(g.body < subs[x.s].body)
    BY <1>0, <1>3, <2>1 DEF Typed
  <2>3. \A s \in Sub : Stored(s)' => subs'[s].body <= body'
    BY <1>0 DEF NothingNewer, Stored
  <2> QED
    BY <1>0, <1>3, <1>4, <1>5, <1>6, <2>2, <2>3 DEF NothingNewer
<1> QED
  BY <1>7, <1>8, <1>9, <1>10 DEF ScheduleInv

(* landSubscriptionFetch: whatever it records is about the one subscription *)
(* it fetched.                                                              *)
LEMMA LandKeeps ==
  ASSUME ScheduleInv, LandSubscriptionFetch
  PROVE  ScheduleInv'
<1> DEFINE f == loop.fetch
           i == f.s
<1>0. /\ Typed /\ TypeOK /\ NoFuture /\ UsedOnly /\ NothingNewer /\ up = TRUE /\ f # None
      /\ loop' = [loop EXCEPT !.fetch = None]
      /\ UNCHANGED <<active, used, body, up, turned>>
  BY DEF ScheduleInv, LandSubscriptionFetch, Typed
<1>1. /\ f \in Fetched /\ i \in Sub /\ i \in used /\ f.got.behind \in BOOLEAN
      /\ f.got.body \in 0..MaxBody /\ f.got.body <= body
  BY <1>0, LoopParts DEF UsedOnly, NothingNewer
<1>2. /\ loop' \in [todo : SUBSET Snapshot, fetch : Fetched \cup {None}]
      /\ loop'.todo = loop.todo /\ loop'.fetch = None
  BY <1>0 DEF Typed
<1>3. /\ subs \in [Sub -> Subscription \cup {None}] /\ retry \in [Sub -> Retry \cup {None}]
      /\ tries \in [Sub -> Tries]
  BY <1>0 DEF Typed
<1>4. /\ subs' \in [Sub -> Subscription \cup {None}]
      /\ \A s \in Sub : \/ subs'[s] = subs[s]
                        \/ /\ s = i /\ Stored(i) /\ subs'[s].age = 0
                           /\ subs'[s].body = f.got.body
  <2>1. CASE UNCHANGED subs
    BY <1>3, <2>1
  <2>2. CASE Matches(f) /\ subs' = [subs EXCEPT ![i].age = 0, ![i].body = f.got.body]
    <3> DEFINE x == [subs[i] EXCEPT !.age = 0, !.body = f.got.body]
    <3>1. Stored(i) /\ subs[i] \in Subscription
      BY <1>0, <1>1, <2>2, SubParts DEF Matches
    <3>2. 0 \in Ages
      BY DEF Ages
    <3>3. x \in Subscription /\ x.age = 0 /\ x.body = f.got.body
      BY <1>1, <3>1, <3>2 DEF Subscription
    <3>4. subs' = [subs EXCEPT ![i] = x]
      BY <1>1, <1>3, <2>2
    <3> HIDE DEF x
    <3> QED
      BY <1>1, <1>3, <3>1, <3>3, <3>4
  <2> QED
    BY <2>1, <2>2 DEF LandSubscriptionFetch
<1>5. /\ retry' \in [Sub -> Retry \cup {None}]
      /\ \A s \in Sub : \/ retry'[s] = retry[s] \/ retry'[s] = None
                        \/ /\ s = i /\ retry'[s].fage = 0
                           /\ retry'[s].left \in 0..retry'[s].delay
                           /\ retry'[s].delay \in BackoffMin..BackoffMax
  <2>1. CASE UNCHANGED retry
    BY <1>3, <2>1
  <2>2. CASE retry' = [retry EXCEPT ![i] = None]
    BY <1>1, <1>3, <2>2
  <2>3. CASE retry' = [retry EXCEPT ![i] = NextSubscriptionRetry(@, f.got.behind)]
    <3> DEFINE r == NextSubscriptionRetry(retry[i], f.got.behind)
    <3>1. retry[i] = None \/ (retry[i] \in Retry /\ retry[i].delay \in BackoffMin..BackoffMax)
      BY <1>0, <1>1, SubParts DEF TypeOK
    <3>2. r \in Retry /\ r.fage = 0 /\ r.delay \in BackoffMin..BackoffMax /\ r.left = r.delay
      BY <1>1, <3>1, RetryParts
    <3>3. retry' = [retry EXCEPT ![i] = r]
      BY <2>3
    <3> HIDE DEF r
    <3>4. r.left \in 0..r.delay
      BY <3>2
    <3> QED
      BY <1>1, <1>3, <3>2, <3>3, <3>4
  <2> QED
    BY <2>1, <2>2, <2>3 DEF LandSubscriptionFetch
<1>6. /\ tries' \in [Sub -> Tries]
      /\ \A s \in Sub : s # i => tries'[s] = tries[s]
  <2>1. tries[i] \in Tries
    BY <1>0, <1>1, SubParts
  <2>3. CASE tries' = [tries EXCEPT ![i].overtaken = FALSE]
    <3>1. [tries[i] EXCEPT !.overtaken = FALSE] \in Tries
      BY <2>1 DEF Tries
    <3> QED
      BY <1>1, <1>3, <2>3, <3>1
  <2>4. CASE tries' = [tries EXCEPT ![i] = NoTry]
    BY <1>1, <1>3, <2>4, Constants
  <2>5. CASE tries' = [tries EXCEPT ![i] = Failing(@, f.got.behind)]
    <3>1. Failing(tries[i], f.got.behind) \in Tries
      BY <1>1, <2>1, HistoryParts
    <3> QED
      BY <1>1, <1>3, <2>5, <3>1
  <2> QED
    BY <2>3, <2>4, <2>5 DEF LandSubscriptionFetch
<1> HIDE DEF f, i
<1>7. Typed'
  BY <1>0, <1>2, <1>4, <1>5, <1>6 DEF Typed
<1>8. \A s \in Sub : subs'[s] # None => Stored(s)
  BY <1>1, <1>4 DEF Stored
<1>9. TypeOK'
  <2>1. \A s \in Sub : Stored(s)' => subs'[s] \in Subscription
    BY <1>4 DEF Stored
  <2>2. \A s \in Sub : retry'[s] # None =>
           /\ retry'[s].left \in 0..retry'[s].delay
           /\ retry'[s].delay \in BackoffMin..BackoffMax /\ retry'[s].fage \in Ages
    <3>1. 0 \in Ages
      BY DEF Ages
    <3> QED
      BY <1>0, <1>5, <3>1 DEF TypeOK
  <2> QED
    BY <1>0, <2>1, <2>2 DEF TypeOK
<1>10. NoFuture'
  BY <1>0, <1>4, <1>5, <1>8 DEF NoFuture, Stored
<1>11. UsedOnly'
  BY <1>0, <1>1, <1>2, <1>5, <1>6, <1>8 DEF UsedOnly, Stored
<1>12. NothingNewer'
  BY <1>0, <1>1, <1>2, <1>4, <1>8 DEF NothingNewer, Stored
<1> QED
  BY <1>7, <1>9, <1>10, <1>11, <1>12 DEF ScheduleInv

-----------------------------------------------------------------------------
(* The verbs.                                                               *)

(* What a refresh by hand does to the loop: a landing may wait behind it.   *)
LEMMA RefreshLoop ==
  ASSUME Typed, RefreshSubscriptions
  PROVE  /\ loop' \in [todo : SUBSET Snapshot, fetch : Fetched \cup {None}]
         /\ loop'.todo = loop.todo /\ (loop'.fetch = None <=> loop.fetch = None)
         /\ loop.fetch # None => /\ loop'.fetch.s = loop.fetch.s
                                 /\ loop'.fetch.got.ok = loop.fetch.got.ok
                                 /\ loop'.fetch.got.body = loop.fetch.got.body
<1>0. loop \in [todo : SUBSET Snapshot, fetch : Fetched \cup {None}]
  BY DEF Typed
<1>1. CASE UNCHANGED loop
  BY <1>0, <1>1
<1>2. CASE loop.fetch # None /\ loop' = [loop EXCEPT !.fetch.got.behind = TRUE]
  <2> DEFINE g == [loop.fetch.got EXCEPT !.behind = TRUE]
             f == [loop.fetch EXCEPT !.got = g]
  <2>1. loop.fetch \in Fetched /\ loop.fetch.got \in Got
    BY <1>0, <1>2 DEF Fetched
  <2>2. g \in Got /\ g.ok = loop.fetch.got.ok /\ g.body = loop.fetch.got.body
    BY <2>1 DEF Got
  <2>3. loop' = [loop EXCEPT !.fetch = f]
    BY <1>0, <1>2, <2>1 DEF Fetched, Got
  <2> HIDE DEF g
  <2>4. f \in Fetched /\ f.s = loop.fetch.s /\ f.got = g
    BY <2>1, <2>2 DEF Fetched
  <2> HIDE DEF f
  <2> QED
    BY <1>0, <1>2, <2>2, <2>3, <2>4
<1> QED
  BY <1>1, <1>2 DEF RefreshSubscriptions, InFlight

(* refresh_subscriptions: the stamp is now, the body what is served now.    *)
LEMMA RefreshKeeps ==
  ASSUME ScheduleInv, RefreshSubscriptions
  PROVE  ScheduleInv'
<1>0. /\ Typed /\ TypeOK /\ NoFuture /\ UsedOnly /\ NothingNewer /\ up
      /\ UNCHANGED <<active, used, body, up, turned>>
  BY DEF ScheduleInv, RefreshSubscriptions
<1>loop. /\ loop' \in [todo : SUBSET Snapshot, fetch : Fetched \cup {None}]
         /\ loop'.todo = loop.todo /\ (loop'.fetch = None <=> loop.fetch = None)
         /\ loop.fetch # None => /\ loop'.fetch.s = loop.fetch.s
                                 /\ loop'.fetch.got.ok = loop.fetch.got.ok
                                 /\ loop'.fetch.got.body = loop.fetch.got.body
  BY <1>0, RefreshLoop
<1>1. PICK ok :
         /\ \A s \in ok : s \in Edited /\ Stored(s)
         /\ subs' = [s \in Sub |-> IF s \in ok THEN [subs[s] EXCEPT !.age = 0, !.body = body]
                                   ELSE subs[s]]
         /\ retry' = [s \in Sub |-> IF s \in ok /\ retry[s] # None
                                    THEN [retry[s] EXCEPT !.after = TRUE] ELSE retry[s]]
         /\ tries' = [s \in Sub |-> IF s \in ok THEN [NoTry EXCEPT !.overtaken = InFlight(s)]
                                    ELSE tries[s]]
  BY DEF RefreshSubscriptions
<1>2. 0 \in Ages /\ body \in 0..MaxBody
  BY <1>0 DEF Ages, Typed
<1>3. ASSUME NEW s \in Sub
      PROVE  /\ subs'[s] \in Subscription \cup {None}
             /\ IF s \in ok THEN Stored(s) /\ subs'[s].age = 0 /\ subs'[s].body = body
                            ELSE subs'[s] = subs[s]
  <2>1. CASE s \in ok
    <3>1. Stored(s) /\ subs[s] \in Subscription
      BY <1>0, <1>1, <2>1, SubParts
    <3>2. subs'[s] = [subs[s] EXCEPT !.age = 0, !.body = body]
      BY <1>1, <2>1
    <3> QED
      BY <1>2, <2>1, <3>1, <3>2 DEF Subscription
  <2>2. CASE s \notin ok
    BY <1>0, <1>1, <2>2 DEF Typed
  <2> QED
    BY <2>1, <2>2
<1>4. ASSUME NEW s \in Sub
      PROVE  /\ retry'[s] \in Retry \cup {None}
             /\ retry'[s] # None => /\ retry[s] # None
                                    /\ retry'[s].left = retry[s].left
                                    /\ retry'[s].delay = retry[s].delay
                                    /\ retry'[s].fage = retry[s].fage
             /\ s \notin ok => retry'[s] = retry[s]
  <2>1. CASE s \in ok /\ retry[s] # None
    <3>1. retry[s] \in Retry
      BY <1>0, <2>1, SubParts
    <3>2. retry'[s] = [retry[s] EXCEPT !.after = TRUE]
      BY <1>1, <2>1
    <3> QED
      BY <2>1, <3>1, <3>2 DEF Retry
  <2>2. CASE ~(s \in ok /\ retry[s] # None)
    BY <1>0, <1>1, <2>2 DEF Typed
  <2> QED
    BY <2>1, <2>2
<1>5. ASSUME NEW s \in Sub
      PROVE  /\ tries'[s] \in Tries
             /\ s \in ok => tries'[s].failed = 0 /\ (InFlight(s) => tries'[s].overtaken)
             /\ s \notin ok => tries'[s] = tries[s]
  <2>1. CASE s \in ok
    <3>1. tries'[s] = [NoTry EXCEPT !.overtaken = InFlight(s)]
      BY <1>1, <2>1
    <3>2. InFlight(s) \in BOOLEAN
      BY DEF InFlight
    <3> HIDE DEF InFlight
    <3> QED
      BY <2>1, <3>1, <3>2, OvertakenParts
  <2>2. CASE s \notin ok
    BY <1>0, <1>1, <2>2 DEF Typed
  <2> QED
    BY <2>1, <2>2
<1>6. \A s \in Sub : Stored(s)' => Stored(s)
  BY <1>3 DEF Stored
<1>7. Typed'
  <2>1. subs' \in [Sub -> Subscription \cup {None}]
    BY <1>1, <1>3
  <2>2. retry' \in [Sub -> Retry \cup {None}]
    BY <1>1, <1>4
  <2>3. tries' \in [Sub -> Tries]
    BY <1>1, <1>5
  <2> QED
    BY <1>0, <1>loop, <2>1, <2>2, <2>3 DEF Typed
<1>8. TypeOK'
  BY <1>0, <1>3, <1>4 DEF TypeOK, Stored
<1>9. NoFuture'
  BY <1>0, <1>3, <1>4, <1>6 DEF NoFuture
<1>10. UsedOnly'
  BY <1>0, <1>loop, <1>4, <1>5, <1>6 DEF UsedOnly
<1>11. NothingNewer'
  <2>1. \A s \in Sub : Stored(s)' => subs'[s].body <= body'
    BY <1>0, <1>2, <1>3, <1>6 DEF NothingNewer
  <2>2. ASSUME loop.fetch # None, subs'[loop.fetch.s] # None, loop.fetch.got.ok,
               loop.fetch.got.body < subs'[loop.fetch.s].body
        PROVE  tries'[loop.fetch.s].overtaken
    <3>1. loop.fetch.s \in Sub
      BY <1>0, <2>2, LoopParts
    <3>2. CASE loop.fetch.s \in ok
      BY <1>5, <2>2, <3>1, <3>2 DEF InFlight
    <3>3. CASE loop.fetch.s \notin ok
      BY <1>0, <1>3, <1>5, <2>2, <3>1, <3>3 DEF NothingNewer, Stored
    <3> QED
      BY <3>2, <3>3
  <2>3. loop'.fetch # None => loop'.fetch.got.body <= body'
    BY <1>0, <1>loop DEF NothingNewer
  <2> QED
    BY <1>loop, <2>1, <2>2, <2>3 DEF NothingNewer, Stored
<1> QED
  BY <1>7, <1>8, <1>9, <1>10, <1>11 DEF ScheduleInv

(* A verb that changes one stored subscription, or stores or removes one.   *)
LEMMA EditOne ==
  ASSUME ScheduleInv, NEW i \in Sub, NEW x \in Subscription \cup {None},
         subs' = [subs EXCEPT ![i] = x],
         used' \in {used, used \cup {i}}, UNCHANGED <<retry, tries, loop, body, up, turned>>,
         active' = active,
         \/ x = None
         \/ Stored(i) /\ x.age = subs[i].age /\ x.body = subs[i].body
         \/ i \in used' /\ i \notin used /\ x.age = 0 /\ x.body \in {0, body}
  PROVE  ScheduleInv'
<1>0. /\ Typed /\ TypeOK /\ NoFuture /\ UsedOnly /\ NothingNewer
      /\ subs \in [Sub -> Subscription \cup {None}] /\ body \in 0..MaxBody
  BY DEF ScheduleInv, Typed
<1>1. \A s \in Sub : subs'[s] = IF s = i THEN x ELSE subs[s]
  BY <1>0
<1>2. Typed' /\ TypeOK'
  BY <1>0, <1>1 DEF Typed, TypeOK, Stored
<1>3. NoFuture' /\ UsedOnly'
  BY <1>0, <1>1 DEF NoFuture, UsedOnly, Stored
<1>4. NothingNewer'
  <2>1. loop.fetch # None => loop.fetch.s \in Sub /\ loop.fetch.s \in used
    BY <1>0, LoopParts DEF UsedOnly
  <2> QED
    BY <1>0, <1>1, <2>1 DEF NothingNewer, Stored
<1> QED
  BY <1>2, <1>3, <1>4 DEF ScheduleInv

(* A subscription added now is of its type and up to date.                  *)
LEMMA NewSubParts ==
  ASSUME Typed
  PROVE  /\ NewSub \in Subscription /\ NewSub.age = 0 /\ NewSub.body = body
         /\ [NewSub EXCEPT !.body = 0] \in Subscription
         /\ [NewSub EXCEPT !.body = 0].age = 0 /\ [NewSub EXCEPT !.body = 0].body = 0
<1>1. 0 \in Ages /\ body \in 0..MaxBody /\ 0 \in 0..MaxBody /\ 1 \in 1..2
  BY DEF Ages, Typed
<1> HIDE DEF Ages
<1>2. NewSub \in Subscription /\ NewSub.age = 0 /\ NewSub.body = body
  BY <1>1 DEF NewSub, Subscription
<1>3. /\ [NewSub EXCEPT !.body = 0] \in Subscription
      /\ [NewSub EXCEPT !.body = 0].age = 0 /\ [NewSub EXCEPT !.body = 0].body = 0
  BY <1>1, <1>2 DEF Subscription
<1> QED
  BY <1>2, <1>3

(* Adding, editing or removing a subscription forgets or keeps its retry.   *)
LEMMA VerbKeeps ==
  ASSUME ScheduleInv, NEW i \in Edited,
         AddSubscription(i) \/ UpdateSubscription(i) \/ RemoveSubscription(i)
  PROVE  ScheduleInv'
<1>0. Typed /\ i \in Sub /\ subs \in [Sub -> Subscription \cup {None}]
  BY DEF ScheduleInv, Typed
<1>1. CASE AddSubscription(i)
  <2>1. PICK x : /\ subs' = [subs EXCEPT ![i] = x] /\ x \in Subscription
                 /\ x.age = 0 /\ x.body \in {0, body}
    BY <1>0, <1>1, NewSubParts DEF AddSubscription
  <2>2. /\ used' = used \cup {i} /\ i \notin used /\ active' = active
        /\ UNCHANGED <<retry, tries, loop, body, up, turned>>
    BY <1>1 DEF AddSubscription, Verb
  <2> QED
    BY <1>0, <2>1, <2>2, EditOne
<1>2. CASE UpdateSubscription(i)
  <2>1. PICK on \in BOOLEAN, url \in 1..2 :
           subs' = [subs EXCEPT ![i].on = on, ![i].url = url]
    BY <1>2 DEF UpdateSubscription
  <2>2. /\ Stored(i) /\ active' = active /\ used' = used
        /\ UNCHANGED <<retry, tries, loop, body, up, turned>>
    BY <1>2 DEF UpdateSubscription, Verb
  <2> DEFINE x == [subs[i] EXCEPT !.on = on, !.url = url]
  <2>3. subs[i] \in Subscription
    BY <1>0, <2>2, SubParts
  <2>4. x \in Subscription /\ x.age = subs[i].age /\ x.body = subs[i].body
    BY <2>3 DEF Subscription
  <2>5. subs' = [subs EXCEPT ![i] = x]
    BY <1>0, <2>1
  <2> HIDE DEF x
  <2> QED
    BY <1>0, <2>2, <2>4, <2>5, EditOne
<1>3. CASE RemoveSubscription(i)
  <2>1. /\ subs' = [subs EXCEPT ![i] = None] /\ active' = active /\ used' = used
        /\ UNCHANGED <<retry, tries, loop, body, up, turned>>
    BY <1>3 DEF RemoveSubscription, Verb
  <2> QED
    BY <1>0, <2>1, EditOne
<1> QED
  BY <1>1, <1>2, <1>3

-----------------------------------------------------------------------------
(* The process and the clocks.                                              *)

(* Profile switches, the process's end and start, a provider that changes.  *)
LEMMA ProcessKeeps ==
  ASSUME ScheduleInv, SetActiveProfile \/ Exit \/ Start \/ ProviderChanges
  PROVE  ScheduleInv'
<1>0. /\ Typed /\ TypeOK /\ NoFuture /\ UsedOnly /\ NothingNewer
  BY DEF ScheduleInv
<1>1. CASE SetActiveProfile
  <2>1. active' \in Profile /\ UNCHANGED <<subs, used, body, up, loop, retry, tries, turned>> /\ up
    BY <1>1 DEF SetActiveProfile, Verb
  <2> QED
    BY <1>0, <2>1 DEF ScheduleInv, Typed, TypeOK, NoFuture, UsedOnly, NothingNewer, Stored
<1>2. CASE Exit
  <2>1. /\ up' = FALSE /\ loop' = InLoop /\ retry' = [s \in Sub |-> None]
        /\ tries' = [s \in Sub |-> NoTry] /\ UNCHANGED <<active, subs, used, body, turned>>
    BY <1>2 DEF Exit
  <2>2. \A s \in Sub : retry'[s] = None /\ tries'[s] = NoTry
    BY <2>1
  <2>3. Typed' /\ TypeOK'
    BY <1>0, <2>1, <2>2, Constants DEF Typed, TypeOK, Stored
  <2>4. NoFuture' /\ UsedOnly' /\ NothingNewer'
    BY <1>0, <2>1, <2>2, Constants DEF NoFuture, UsedOnly, NothingNewer, Stored
  <2> QED
    BY <2>3, <2>4 DEF ScheduleInv
<1>3. CASE Start
  <2>1. up' = TRUE /\ UNCHANGED <<active, subs, used, body, loop, retry, tries, turned>>
    BY <1>3 DEF Start
  <2> QED
    BY <1>0, <2>1 DEF ScheduleInv, Typed, TypeOK, NoFuture, UsedOnly, NothingNewer, Stored
<1>4. CASE ProviderChanges
  <2>1. /\ body < MaxBody /\ body' = body + 1
        /\ UNCHANGED <<active, subs, used, up, loop, retry, tries, turned>>
    BY <1>4 DEF ProviderChanges
  <2>2. body \in 0..MaxBody /\ body' \in 0..MaxBody
    BY <1>0, <2>1 DEF Typed
  <2>3. Typed' /\ TypeOK' /\ NoFuture' /\ UsedOnly'
    BY <1>0, <2>1, <2>2 DEF Typed, TypeOK, NoFuture, UsedOnly, Stored
  <2>4. \A s \in Sub : Stored(s)' => subs'[s].body <= body'
    <3>1. \A s \in Sub : Stored(s) => subs[s].body <= body /\ subs[s].body \in 0..MaxBody
      BY <1>0, SubParts DEF NothingNewer
    <3> QED
      BY <2>1, <2>2, <3>1 DEF Stored
  <2>5. loop.fetch # None => loop.fetch.got.body <= body'
    <3>1. loop.fetch # None => loop.fetch.got.body <= body /\ loop.fetch.got.body \in 0..MaxBody
      BY <1>0, LoopParts DEF NothingNewer
    <3> QED
      BY <2>1, <2>2, <3>1
  <2>6. NothingNewer'
    BY <1>0, <2>1, <2>4, <2>5 DEF NothingNewer, Stored
  <2> QED
    BY <2>3, <2>6 DEF ScheduleInv
<1> QED
  BY <1>1, <1>2, <1>3, <1>4

(* Time passes: ages grow together, holds run down.                         *)
LEMMA PassParts ==
  ASSUME Typed, Pass, NEW s \in Sub
  PROVE  /\ IF Stored(s)
            THEN /\ subs'[s] \in Subscription /\ subs'[s].age = Grow(subs[s].age)
                 /\ subs'[s].body = subs[s].body
            ELSE subs'[s] = None
         /\ IF retry[s] # None
            THEN /\ retry'[s] \in Retry /\ retry'[s].fage = Grow(retry[s].fage)
                 /\ retry'[s].left = (IF retry[s].left = 0 THEN 0 ELSE retry[s].left - 1)
                 /\ retry'[s].delay = retry[s].delay /\ retry'[s].after = retry[s].after
            ELSE retry'[s] = None
         /\ tries'[s] \in Tries /\ tries'[s].failed = tries[s].failed
         /\ tries'[s].overtaken = tries[s].overtaken /\ tries'[s].forgotten = tries[s].forgotten
         /\ tries[s].failed > 0 => tries'[s].ago =
               (IF tries[s].ago >= Wait(tries[s].failed) THEN tries[s].ago ELSE tries[s].ago + 1)
<1>1. IF Stored(s) THEN /\ subs'[s] \in Subscription /\ subs'[s].age = Grow(subs[s].age)
                        /\ subs'[s].body = subs[s].body
                   ELSE subs'[s] = None
  <2>1. CASE Stored(s)
    <3>1. subs[s] \in Subscription /\ Grow(subs[s].age) \in Ages
      BY <2>1, SubParts, GrowAges
    <3>2. subs'[s] = [subs[s] EXCEPT !.age = Grow(subs[s].age)]
      BY <2>1 DEF Pass
    <3> QED
      BY <2>1, <3>1, <3>2 DEF Subscription
  <2>2. CASE ~Stored(s)
    BY <2>2 DEF Pass, Stored
  <2> QED
    BY <2>1, <2>2
<1>2. IF retry[s] # None
      THEN /\ retry'[s] \in Retry /\ retry'[s].fage = Grow(retry[s].fage)
           /\ retry'[s].left = (IF retry[s].left = 0 THEN 0 ELSE retry[s].left - 1)
           /\ retry'[s].delay = retry[s].delay /\ retry'[s].after = retry[s].after
      ELSE retry'[s] = None
  <2>1. CASE retry[s] # None
    <3> DEFINE l == IF retry[s].left = 0 THEN 0 ELSE retry[s].left - 1
    <3>1. retry[s] \in Retry /\ Grow(retry[s].fage) \in Ages /\ l \in Nat
      BY <2>1, SubParts, GrowAges
    <3>2. retry'[s] = [retry[s] EXCEPT !.left = l, !.fage = Grow(retry[s].fage)]
      BY <2>1 DEF Pass
    <3> HIDE DEF l
    <3>3. /\ retry'[s] \in Retry /\ retry'[s].fage = Grow(retry[s].fage) /\ retry'[s].left = l
          /\ retry'[s].delay = retry[s].delay /\ retry'[s].after = retry[s].after
      BY <3>1, <3>2 DEF Retry
    <3> QED
      BY <2>1, <3>3 DEF l
  <2>2. CASE retry[s] = None
    BY <2>2 DEF Pass
  <2> QED
    BY <2>1, <2>2
<1>3. /\ tries'[s] \in Tries /\ tries'[s].failed = tries[s].failed
      /\ tries'[s].overtaken = tries[s].overtaken /\ tries'[s].forgotten = tries[s].forgotten
      /\ tries[s].failed > 0 => tries'[s].ago =
            (IF tries[s].ago >= Wait(tries[s].failed) THEN tries[s].ago ELSE tries[s].ago + 1)
  <2>0. tries[s] \in Tries /\ tries[s].failed \in Nat /\ tries[s].ago \in Nat
    BY SubParts
  <2>1. CASE tries[s].failed = 0 \/ tries[s].ago >= Wait(tries[s].failed)
    <3>1. tries'[s] = tries[s]
      BY <2>1 DEF Pass
    <3> QED
      BY <2>0, <2>1, <3>1
  <2>2. CASE ~(tries[s].failed = 0 \/ tries[s].ago >= Wait(tries[s].failed))
    <3>1. tries'[s] = [tries[s] EXCEPT !.ago = tries[s].ago + 1]
      BY <2>2 DEF Pass
    <3>2. /\ tries'[s] \in Tries /\ tries'[s].failed = tries[s].failed
          /\ tries'[s].overtaken = tries[s].overtaken /\ tries'[s].ago = tries[s].ago + 1
          /\ tries'[s].forgotten = tries[s].forgotten
      BY <2>0, <3>1 DEF Tries
    <3> QED
      BY <2>2, <3>2
  <2> QED
    BY <2>1, <2>2
<1> QED
  BY <1>1, <1>2, <1>3

(* Time passes: all ages grow together, and the waits run down with them.   *)
LEMMA PassKeeps ==
  ASSUME ScheduleInv, Pass
  PROVE  ScheduleInv'
<1>0. /\ Typed /\ TypeOK /\ NoFuture /\ UsedOnly /\ NothingNewer
      /\ UNCHANGED <<active, used, body, up, loop, turned>>
  BY DEF ScheduleInv, Pass
<1>1. \A s \in Sub : /\ Stored(s)' <=> Stored(s)
                     /\ Stored(s) => /\ subs'[s] \in Subscription
                                     /\ subs'[s].age = Grow(subs[s].age)
                                     /\ subs'[s].body = subs[s].body
                     /\ retry'[s] # None <=> retry[s] # None
                     /\ retry[s] # None =>
                          /\ retry'[s] \in Retry /\ retry'[s].fage = Grow(retry[s].fage)
                          /\ retry'[s].left = (IF retry[s].left = 0 THEN 0 ELSE retry[s].left - 1)
                          /\ retry'[s].delay = retry[s].delay
                     /\ tries'[s] \in Tries /\ tries'[s].failed = tries[s].failed
                     /\ tries'[s].overtaken = tries[s].overtaken
  BY <1>0, PassParts DEF Stored
<1>2. Typed'
  <2>1. subs' \in [Sub -> Subscription \cup {None}]
    <3>1. \A s \in Sub : subs'[s] \in Subscription \cup {None}
      BY <1>1 DEF Stored
    <3>2. subs' = [s \in Sub |-> subs'[s]]
      BY DEF Pass
    <3> QED
      BY <3>1, <3>2
  <2>2. retry' \in [Sub -> Retry \cup {None}]
    <3>1. \A s \in Sub : retry'[s] \in Retry \cup {None}
      BY <1>1
    <3>2. retry' = [s \in Sub |-> retry'[s]]
      BY DEF Pass
    <3> QED
      BY <3>1, <3>2
  <2>3. tries' \in [Sub -> Tries]
    <3>1. tries' = [s \in Sub |-> tries'[s]]
      BY DEF Pass
    <3> QED
      BY <1>1, <3>1
  <2> QED
    BY <1>0, <2>1, <2>2, <2>3 DEF Typed
<1>3. TypeOK'
  <2>1. \A s \in Sub : retry'[s] # None => /\ retry'[s].left \in 0..retry'[s].delay
                                           /\ retry'[s].delay \in BackoffMin..BackoffMax
                                           /\ retry'[s].fage \in Ages
    <3> SUFFICES ASSUME NEW s \in Sub, retry'[s] # None
                 PROVE  /\ retry'[s].left \in 0..retry'[s].delay
                        /\ retry'[s].delay \in BackoffMin..BackoffMax
                        /\ retry'[s].fage \in Ages
      OBVIOUS
    <3>1. /\ retry[s].left \in 0..retry[s].delay /\ retry[s].delay \in BackoffMin..BackoffMax
          /\ retry[s].fage \in Ages
      BY <1>0, <1>1 DEF TypeOK
    <3> QED
      BY <1>1, <3>1, GrowAges
  <2> QED
    BY <1>0, <1>1, <2>1 DEF TypeOK
<1>4. NoFuture'
  <2>1. \A s \in Sub : /\ Stored(s) => subs[s].age \in Ages
                       /\ retry[s] # None => retry[s].fage \in Ages
    BY <1>0, SubParts
  <2> QED
    BY <1>0, <1>1, <2>1, GrowAges DEF NoFuture
<1>5. UsedOnly'
  BY <1>0, <1>1 DEF UsedOnly
<1>6. NothingNewer'
  <2>1. loop.fetch # None => loop.fetch.s \in Sub
    BY <1>0, LoopParts
  <2> QED
    BY <1>0, <1>1, <2>1 DEF NothingNewer
<1> QED
  BY <1>2, <1>3, <1>4, <1>5, <1>6 DEF ScheduleInv

(* The wall clock is set back, once: no stamp falls below the bound.        *)
LEMMA SetClockBackKeeps ==
  ASSUME ScheduleInv, SetClockBack
  PROVE  ScheduleInv'
<1>0. /\ Typed /\ TypeOK /\ NoFuture /\ UsedOnly /\ NothingNewer
      /\ ~turned /\ turned' = TRUE /\ UNCHANGED <<active, used, body, up, loop>>
      /\ tries' = [s \in Sub |-> [NoTry EXCEPT !.overtaken = tries[s].overtaken]]
  BY DEF ScheduleInv, SetClockBack
<1>tries. ASSUME NEW s \in Sub
          PROVE  /\ tries'[s] \in Tries /\ tries'[s].failed = 0
                 /\ tries'[s].overtaken = tries[s].overtaken
  <2>1. tries[s].overtaken \in BOOLEAN
    BY <1>0, SubParts
  <2> QED
    BY <1>0, <2>1, OvertakenParts
<1>1. \A s \in Sub : /\ Stored(s) => subs[s].age \in Ages /\ subs[s].age - Back \in Ages
                     /\ retry[s] # None => retry[s].fage \in Ages /\ retry[s].fage - Back \in Ages
  <2>1. \A s \in Sub : /\ Stored(s) => subs[s].age \in Ages /\ subs[s].age >= 0
                       /\ retry[s] # None => retry[s].fage \in Ages /\ retry[s].fage >= 0
    BY <1>0, SubParts DEF NoFuture
  <2>2. \A a \in Ages : a >= 0 => a - Back \in Ages
    BY DEF Ages
  <2> QED
    BY <2>1, <2>2
<1>2. ASSUME NEW s \in Sub
      PROVE  IF Stored(s) THEN subs'[s] \in Subscription /\ subs'[s].body = subs[s].body
                          ELSE subs'[s] = None
  <2>1. CASE Stored(s)
    <3>1. subs[s] \in Subscription /\ subs'[s] = [subs[s] EXCEPT !.age = subs[s].age - Back]
      BY <1>0, <2>1, SubParts DEF SetClockBack
    <3> QED
      BY <1>1, <2>1, <3>1 DEF Subscription
  <2>2. CASE ~Stored(s)
    BY <2>2 DEF SetClockBack, Stored
  <2> QED
    BY <2>1, <2>2
<1>3. ASSUME NEW s \in Sub
      PROVE  IF retry[s] # None
             THEN /\ retry'[s] \in Retry /\ retry'[s].left = retry[s].left
                  /\ retry'[s].delay = retry[s].delay /\ retry'[s].fage \in Ages
             ELSE retry'[s] = None
  <2>1. CASE retry[s] # None
    <3>1. retry[s] \in Retry /\ retry'[s] = [retry[s] EXCEPT !.fage = retry[s].fage - Back]
      BY <1>0, <2>1, SubParts DEF SetClockBack
    <3> QED
      BY <1>1, <2>1, <3>1 DEF Retry
  <2>2. CASE retry[s] = None
    BY <2>2 DEF SetClockBack
  <2> QED
    BY <2>1, <2>2
<1>4. \A s \in Sub : /\ Stored(s)' <=> Stored(s)
                     /\ retry'[s] # None => retry[s] # None
  BY <1>2, <1>3 DEF Stored
<1>5. Typed'
  <2>1. subs' \in [Sub -> Subscription \cup {None}]
    <3>1. \A s \in Sub : subs'[s] \in Subscription \cup {None}
      BY <1>2
    <3>2. subs' = [s \in Sub |-> subs'[s]]
      BY DEF SetClockBack
    <3> QED
      BY <3>1, <3>2
  <2>2. retry' \in [Sub -> Retry \cup {None}]
    <3>1. \A s \in Sub : retry'[s] \in Retry \cup {None}
      BY <1>3
    <3>2. retry' = [s \in Sub |-> retry'[s]]
      BY DEF SetClockBack
    <3> QED
      BY <3>1, <3>2
  <2>3. tries' \in [Sub -> Tries]
    BY <1>0, <1>tries
  <2> QED
    BY <1>0, <2>1, <2>2, <2>3 DEF Typed
<1>6. TypeOK'
  BY <1>0, <1>2, <1>3, <1>4 DEF TypeOK
<1>7. NoFuture' /\ UsedOnly'
  BY <1>0, <1>4, <1>tries DEF NoFuture, UsedOnly
<1>8. NothingNewer'
  <2>1. loop.fetch # None => loop.fetch.s \in Sub
    BY <1>0, LoopParts
  <2> QED
    BY <1>0, <1>2, <1>4, <1>tries, <2>1 DEF NothingNewer
<1> QED
  BY <1>5, <1>6, <1>7, <1>8 DEF ScheduleInv

(* The invariant holds when the daemon starts for the first time.           *)
LEMMA InitSchedule == Init => ScheduleInv
<1> SUFFICES ASSUME Init PROVE ScheduleInv
  OBVIOUS
<1> DEFINE x == [NewSub EXCEPT !.age = Old]
<1>1. x \in Subscription /\ x.age = Old /\ x.body = 0
  <2>1. body = 0 /\ Old \in Ages /\ 0 \in Ages /\ 0 \in 0..MaxBody /\ 1 \in 1..2
    BY DEF Init, Ages
  <2>2. NewSub \in Subscription /\ NewSub.body = 0
    BY <2>1 DEF NewSub, Subscription
  <2> QED
    BY <2>1, <2>2 DEF Subscription
<1>2. /\ active \in Profile /\ body = 0 /\ up = TRUE /\ turned = FALSE /\ loop = InLoop
      /\ used = {s \in Sub : Stored(s)} /\ subs \in [Sub -> {None, x}]
      /\ \A s \in Sub : retry[s] = None /\ tries[s] = NoTry
      /\ retry = [s \in Sub |-> None] /\ tries = [s \in Sub |-> NoTry]
  BY DEF Init
<1> HIDE DEF x
<1>3. \A s \in Sub : Stored(s) => subs[s] = x
  BY <1>2 DEF Stored
<1>4. Typed
  <2>1. subs \in [Sub -> Subscription \cup {None}]
    BY <1>1, <1>2
  <2>2. retry \in [Sub -> Retry \cup {None}] /\ tries \in [Sub -> Tries]
    BY <1>2, Constants
  <2>3. body \in 0..MaxBody /\ used \subseteq Sub
    BY <1>2
  <2> QED
    BY <1>2, <2>1, <2>2, <2>3, Constants DEF Typed
<1>5. TypeOK /\ NoFuture
  BY <1>1, <1>2, <1>3 DEF TypeOK, NoFuture
<1>6. UsedOnly /\ NothingNewer
  BY <1>1, <1>2, <1>3, Constants DEF UsedOnly, NothingNewer
<1> QED
  BY <1>4, <1>5, <1>6 DEF ScheduleInv

(* Every step keeps the invariant.                                          *)
LEMMA ScheduleStep == ScheduleInv /\ [Next]_vars => ScheduleInv'
<1> SUFFICES ASSUME ScheduleInv, [Next]_vars PROVE ScheduleInv'
  OBVIOUS
<1>1. CASE Sweep
  BY <1>1, SweepKeeps
<1>2. CASE FetchSubscription
  BY <1>2, FetchKeeps
<1>3. CASE LandSubscriptionFetch
  BY <1>3, LandKeeps
<1>4. CASE RefreshSubscriptions
  BY <1>4, RefreshKeeps
<1>5. CASE \E s \in Edited : AddSubscription(s) \/ UpdateSubscription(s) \/ RemoveSubscription(s)
  BY <1>5, VerbKeeps
<1>6. CASE SetActiveProfile \/ Exit \/ Start \/ ProviderChanges
  BY <1>6, ProcessKeeps
<1>7. CASE Pass
  BY <1>7, PassKeeps
<1>8. CASE SetClockBack
  BY <1>8, SetClockBackKeeps
<1>9. CASE UNCHANGED vars
  <2>1. UNCHANGED <<active, subs, used, body, up, loop, retry, tries, turned>>
    BY <1>9 DEF vars
  <2> QED
    BY <2>1 DEF ScheduleInv, Typed, TypeOK, NoFuture, UsedOnly, NothingNewer, Stored
<1> QED
  BY <1>1, <1>2, <1>3, <1>4, <1>5, <1>6, <1>7, <1>8, <1>9 DEF Next

(* The invariant holds in every reachable state.                            *)
THEOREM ScheduleInvariant == Spec => []ScheduleInv
BY InitSchedule, ScheduleStep, PTL DEF Spec

(* Types, and: a hold is within what the failure imposed and within the     *)
(* bounds of the backoff, and a stopped daemon has no sweep under way.      *)
THEOREM ScheduleTypeCorrect == Spec => []TypeOK
<1>1. ScheduleInv => TypeOK
  BY DEF ScheduleInv
<1> QED
  BY <1>1, ScheduleInvariant, PTL

-----------------------------------------------------------------------------
(* Nothing older is stored.                                                 *)

(* Only the landing of a fetch that a manual refresh overtook stores        *)
(* something older.                                                         *)
LEMMA NewestStep ==
  ASSUME ScheduleInv, Next, NEW s \in Sub, Stored(s), subs'[s] # None,
         subs'[s].body < subs[s].body
  PROVE  tries[s].overtaken
<1>0. /\ Typed /\ NothingNewer /\ subs[s].body \in 0..MaxBody /\ subs[s].body <= body
      /\ body \in 0..MaxBody /\ subs[s] \in Subscription
      /\ subs \in [Sub -> Subscription \cup {None}] /\ Edited \subseteq Sub
      /\ s \in used
  BY SubParts DEF ScheduleInv, NothingNewer, Typed, UsedOnly
<1>1. ASSUME subs'[s] = subs[s] \/ subs'[s].body = subs[s].body PROVE FALSE
  BY <1>0, <1>1
<1>2. ASSUME UNCHANGED subs PROVE FALSE
  BY <1>1, <1>2
<1>3. CASE LandSubscriptionFetch
  <2>1. CASE UNCHANGED subs
    BY <1>2, <2>1
  <2>2. CASE /\ loop.fetch # None /\ loop.fetch.got.ok
             /\ subs' = [subs EXCEPT ![loop.fetch.s].age = 0,
                                     ![loop.fetch.s].body = loop.fetch.got.body]
    <3>1. loop.fetch.s \in Sub
      BY <1>0, <2>2, LoopParts
    <3>2. CASE s # loop.fetch.s
      BY <1>0, <1>1, <2>2, <3>1, <3>2
    <3>3. CASE s = loop.fetch.s
      <4>1. subs'[s] = [subs[s] EXCEPT !.age = 0, !.body = loop.fetch.got.body]
        BY <1>0, <2>2, <3>3
      <4>2. subs'[s].body = loop.fetch.got.body
        BY <1>0, <4>1 DEF Subscription
      <4> QED
        BY <1>0, <2>2, <3>3, <4>2 DEF NothingNewer
    <3> QED
      BY <3>2, <3>3
  <2> QED
    BY <1>3, <2>1, <2>2 DEF LandSubscriptionFetch
<1>4. CASE RefreshSubscriptions
  <2>1. PICK ok : subs' = [t \in Sub |-> IF t \in ok
                              THEN [subs[t] EXCEPT !.age = 0, !.body = body] ELSE subs[t]]
    BY <1>4 DEF RefreshSubscriptions
  <2>2. CASE s \in ok
    <3>1. subs'[s].body = body
      BY <1>0, <2>1, <2>2 DEF Subscription
    <3> QED
      BY <1>0, <3>1
  <2>3. CASE s \notin ok
    BY <1>1, <2>1, <2>3
  <2> QED
    BY <2>2, <2>3
<1>5. ASSUME NEW i \in Edited, AddSubscription(i) \/ UpdateSubscription(i) \/ RemoveSubscription(i)
      PROVE  FALSE
  <2>1. CASE AddSubscription(i)
    <3>1. i # s /\ \E x : subs' = [subs EXCEPT ![i] = x]
      BY <1>0, <2>1 DEF AddSubscription
    <3> QED
      BY <1>0, <1>1, <3>1
  <2>2. CASE UpdateSubscription(i)
    <3>1. PICK on \in BOOLEAN, url \in 1..2 :
             subs' = [subs EXCEPT ![i].on = on, ![i].url = url]
      BY <2>2 DEF UpdateSubscription
    <3>2. subs' = [subs EXCEPT ![i] = [subs[i] EXCEPT !.on = on, !.url = url]]
      BY <1>0, <3>1
    <3>3. CASE i = s
      <4>1. subs'[s] = [subs[s] EXCEPT !.on = on, !.url = url]
        BY <1>0, <3>2, <3>3
      <4>2. subs'[s].body = subs[s].body
        BY <1>0, <4>1 DEF Subscription
      <4> QED
        BY <1>1, <4>2
    <3>4. CASE i # s
      BY <1>0, <1>1, <3>2, <3>4
    <3> QED
      BY <3>3, <3>4
  <2>3. CASE RemoveSubscription(i)
    BY <1>0, <1>1, <2>3 DEF RemoveSubscription
  <2> QED
    BY <1>5, <2>1, <2>2, <2>3
<1>6. CASE Pass
  BY <1>0, <1>1, <1>6, PassParts
<1>7. CASE SetClockBack
  <2>1. subs'[s] = [subs[s] EXCEPT !.age = subs[s].age - Back]
    BY <1>7 DEF SetClockBack
  <2>2. subs'[s].body = subs[s].body
    BY <1>0, <2>1 DEF Subscription
  <2> QED
    BY <1>1, <2>2
<1>8. CASE \/ Sweep \/ FetchSubscription \/ SetActiveProfile \/ Exit \/ Start \/ ProviderChanges
  <2>1. UNCHANGED subs
    BY <1>8 DEF Sweep, FetchSubscription, SetActiveProfile, Exit, Start, ProviderChanges
  <2> QED
    BY <1>2, <2>1
<1> QED
  BY <1>3, <1>4, <1>5, <1>6, <1>7, <1>8 DEF Next

(* What is stored is replaced by something older only when a manual refresh *)
(* overtook the loop's fetch, for any number of subscriptions and versions. *)
THEOREM NothingOlderIsStored == Spec => NewestStays
<1>1. ScheduleInv /\ [Next]_vars =>
         [\A s \in Sub : Stored(s) /\ subs'[s] # None /\ subs'[s].body < subs[s].body
            => tries[s].overtaken]_vars
  BY NewestStep
<1> QED
  BY <1>1, ScheduleInvariant, PTL DEF Spec, NewestStays

-----------------------------------------------------------------------------
(* The backoff.                                                             *)

(* What arithmetic says of the powers of two that Wait is written with; the *)
(* provers have no theory of exponentiation.                                *)
PowersOfTwo == 2^0 = 1 /\ \A k \in Nat : 2^k \in Nat /\ 2^(k + 1) = 2 * 2^k

(* The wait after a failure doubles up to the longest one.                  *)
LEMMA WaitParts ==
  ASSUME PowersOfTwo, NEW k \in Nat \ {0}
  PROVE  /\ Wait(k) \in Nat /\ Wait(k) <= BackoffMax
         /\ Wait(k + 1) = IF 2 * Wait(k) > BackoffMax THEN BackoffMax ELSE 2 * Wait(k)
         /\ Wait(1) = BackoffMin
<1> DEFINE p == 2^(k - 1)
           w == BackoffMin * p
<1>1. p \in Nat /\ 2^((k + 1) - 1) = 2 * p
  <2>1. k - 1 \in Nat /\ (k - 1) + 1 = (k + 1) - 1
    OBVIOUS
  <2> QED
    BY <2>1 DEF PowersOfTwo
<1> HIDE DEF p
<1>2. w \in Nat /\ BackoffMin * (2 * p) = 2 * w
  BY <1>1
<1>3. Wait(k) = IF w > BackoffMax THEN BackoffMax ELSE w
  BY DEF Wait, p
<1>4. Wait(k + 1) = IF 2 * w > BackoffMax THEN BackoffMax ELSE 2 * w
  BY <1>1, <1>2 DEF Wait
<1>5. Wait(1) = BackoffMin
  BY DEF Wait, PowersOfTwo
<1> HIDE DEF w
<1> QED
  BY <1>2, <1>3, <1>4, <1>5

(* One more failure: the wait imposed keeps up with the count.              *)
LEMMA WaitGrows ==
  ASSUME PowersOfTwo, NEW k \in Nat, NEW d \in BackoffMin..BackoffMax, k > 0 => Wait(k) <= d,
         NEW e \in BackoffMin..BackoffMax,
         k > 0 => e = (IF d * 2 > BackoffMax THEN BackoffMax ELSE d * 2)
  PROVE  /\ Another(k) \in Nat \ {0}
         /\ Wait(Another(k)) \in Nat /\ Wait(Another(k)) <= e
<1>1. CASE k = 0
  <2>1. Another(k) = 1
    BY <1>1 DEF Another
  <2>2. Wait(1) = BackoffMin
    BY WaitParts
  <2> QED
    BY <2>1, <2>2
<1>2. CASE k > 0
  <2>1. /\ Wait(k) \in Nat /\ Wait(k) <= BackoffMax
        /\ Wait(k + 1) = IF 2 * Wait(k) > BackoffMax THEN BackoffMax ELSE 2 * Wait(k)
    BY <1>2, WaitParts
  <2>2. Another(k) = IF Wait(k) = BackoffMax THEN k ELSE k + 1
    BY <1>2 DEF Another
  <2> QED
    BY <1>2, <2>1, <2>2
<1> QED
  BY <1>1, <1>2

(* Whoever leaves the count, the entry and the stamp of s keeps it off.     *)
LEMMA StillKeptOff ==
  ASSUME NEW s \in Sub, KeptOff(s), turned' = turned, retry'[s] = retry[s],
         tries'[s].failed = tries[s].failed, tries'[s].ago = tries[s].ago,
         tries'[s].forgotten = tries[s].forgotten,
         Stored(s)' => Stored(s) /\ subs'[s].age = subs[s].age
  PROVE  KeptOff(s)'
BY DEF KeptOff, Stored

(* A count that starts again or was forgotten asks for nothing.             *)
LEMMA NothingKeptOff ==
  ASSUME NEW s \in Sub, tries'[s].failed = 0 \/ tries'[s].forgotten
  PROVE  KeptOff(s)'
BY DEF KeptOff

(* The sweep prunes no entry that a failure since the last success made.    *)
LEMMA SweepHolds ==
  ASSUME ScheduleInv, HoldKept, Sweep, NEW s \in Sub
  PROVE  KeptOff(s)'
<1>0. /\ Typed /\ NoFuture /\ KeptOff(s) /\ tries[s] \in Tries
      /\ retry'[s] = Pruned(s) /\ UNCHANGED <<active, subs, turned>>
      /\ tries'[s] = AfterSweep(s)
  BY DEF ScheduleInv, Sweep, HoldKept, Typed
<1>1. CASE ~(Stored(s) /\ Home[s] = active) \/ ~(tries[s].failed > 0) \/ tries[s].forgotten
  <2>1. AfterSweep(s).forgotten \/ ~(AfterSweep(s).failed > 0)
    BY <1>0, <1>1, AfterSweepParts
  <2>2. AfterSweep(s).failed \in Nat
    BY <1>0, AfterSweepParts DEF Tries
  <2>3. tries'[s].failed = 0 \/ tries'[s].forgotten
    BY <1>0, <2>1, <2>2
  <2> QED
    BY <2>3, NothingKeptOff
<1>2. CASE turned
  BY <1>0, <1>2 DEF KeptOff
<1>3. CASE Stored(s) /\ Home[s] = active /\ tries[s].failed > 0 /\ ~tries[s].forgotten /\ ~turned
  <2>1. retry[s] # None /\ subs[s].age >= retry[s].fage /\ ~retry[s].after
    BY <1>0, <1>3 DEF KeptOff
  <2>2. subs[s].age \in Int /\ retry[s].fage \in Int
    BY <1>0, <1>3, <2>1, SubParts DEF Ages
  <2>3. ~SupersededBy(retry[s], subs[s])
    BY <2>1, <2>2 DEF SupersededBy
  <2>4. Pruned(s) = retry[s]
    BY <1>3, <2>3 DEF Pruned
  <2>5. tries'[s] = tries[s]
    BY <1>0, <1>3, AfterSweepParts
  <2> QED
    BY <1>0, <1>3, <2>4, <2>5, StillKeptOff DEF Stored
<1> QED
  BY <1>1, <1>2, <1>3

(* A failure that lands lengthens the hold as it counts.                    *)
LEMMA LandHolds ==
  ASSUME PowersOfTwo, ScheduleInv, HoldKept, LandSubscriptionFetch, NEW s \in Sub
  PROVE  KeptOff(s)'
<1> DEFINE i == loop.fetch.s
<1>0. /\ Typed /\ TypeOK /\ NoFuture /\ KeptOff(s) /\ turned' = turned
      /\ loop.fetch # None /\ i \in Sub /\ loop.fetch.got.behind \in BOOLEAN
      /\ subs \in [Sub -> Subscription \cup {None}] /\ retry \in [Sub -> Retry \cup {None}]
      /\ tries \in [Sub -> Tries]
  BY LoopParts DEF ScheduleInv, LandSubscriptionFetch, HoldKept, Typed
<1>1. CASE tries' = [tries EXCEPT ![i].overtaken = FALSE] /\ UNCHANGED <<subs, retry>>
  <2>1. /\ tries'[s].failed = tries[s].failed /\ tries'[s].ago = tries[s].ago
        /\ tries'[s].forgotten = tries[s].forgotten
    <3>1. tries' = [tries EXCEPT ![i] = [tries[i] EXCEPT !.overtaken = FALSE]]
      BY <1>0, <1>1
    <3>2. tries[i] \in Tries
      BY <1>0
    <3>3. /\ [tries[i] EXCEPT !.overtaken = FALSE].failed = tries[i].failed
          /\ [tries[i] EXCEPT !.overtaken = FALSE].ago = tries[i].ago
          /\ [tries[i] EXCEPT !.overtaken = FALSE].forgotten = tries[i].forgotten
      BY <3>2 DEF Tries
    <3> QED
      BY <1>0, <3>1, <3>3
  <2> QED
    BY <1>0, <1>1, <2>1, StillKeptOff DEF Stored
<1>2. CASE /\ tries' = [tries EXCEPT ![i] = NoTry]
           /\ retry' = [retry EXCEPT ![i] = None]
           /\ \/ UNCHANGED subs
              \/ subs' = [subs EXCEPT ![i].age = 0, ![i].body = loop.fetch.got.body]
  <2>1. CASE s = i
    BY <1>0, <1>2, <2>1, Constants, NothingKeptOff
  <2>2. CASE s # i
    <3>1. tries'[s] = tries[s] /\ retry'[s] = retry[s] /\ subs'[s] = subs[s]
      BY <1>0, <1>2, <2>2
    <3> QED
      BY <1>0, <3>1, StillKeptOff DEF Stored
  <2> QED
    BY <2>1, <2>2
<1>3. CASE /\ retry' = [retry EXCEPT ![i] = NextSubscriptionRetry(@, loop.fetch.got.behind)]
           /\ tries' = [tries EXCEPT ![i] = Failing(@, loop.fetch.got.behind)]
           /\ UNCHANGED subs
  <2>1. CASE s # i
    <3>1. tries'[s] = tries[s] /\ retry'[s] = retry[s] /\ subs'[s] = subs[s]
      BY <1>0, <1>3, <2>1
    <3> QED
      BY <1>0, <3>1, StillKeptOff DEF Stored
  <2>4. CASE s = i /\ loop.fetch.got.behind
    <3>1. tries[s] \in Tries /\ tries'[s] = Failing(tries[s], loop.fetch.got.behind)
      BY <1>0, <1>3, <2>4
    <3>2. tries'[s].failed = 0
      BY <1>0, <2>4, <3>1, HistoryParts
    <3> QED
      BY <3>2, NothingKeptOff
  <2>2. CASE s = i /\ ~turned /\ ~loop.fetch.got.behind
    <3> DEFINE n == NextSubscriptionRetry(retry[s], loop.fetch.got.behind)
               d == IF retry[s] = None THEN BackoffMin ELSE retry[s].delay
               k == IF tries[s].forgotten THEN 0 ELSE tries[s].failed
    <3>1. retry[s] = None \/ (retry[s] \in Retry /\ retry[s].delay \in BackoffMin..BackoffMax)
      BY <1>0, SubParts DEF TypeOK
    <3>2. /\ n \in Retry /\ n.delay \in BackoffMin..BackoffMax /\ n.left = n.delay
          /\ n.fage = 0 /\ n.after = FALSE
          /\ retry[s] # None => n.delay = (IF retry[s].delay * 2 > BackoffMax THEN BackoffMax
                                           ELSE retry[s].delay * 2)
      BY <1>0, <2>2, <3>1, RetryParts
    <3>3. k \in Nat /\ d \in BackoffMin..BackoffMax
      <4>1. k \in Nat
        BY <1>0, SubParts
      <4>2. BackoffMin \in BackoffMin..BackoffMax
        OBVIOUS
      <4> QED
        BY <3>1, <4>1, <4>2
    <3>4. k > 0 => retry[s] # None /\ retry[s].delay >= Wait(k)
      BY <1>0, <2>2 DEF KeptOff
    <3>5. k > 0 => Wait(k) \in Nat
      BY <3>3, WaitParts
    <3>6. k > 0 => Wait(k) <= d /\ n.delay = (IF d * 2 > BackoffMax THEN BackoffMax ELSE d * 2)
      BY <3>2, <3>3, <3>4, <3>5
    <3>7. retry'[s] = n /\ tries'[s] = Failing(tries[s], loop.fetch.got.behind)
      BY <1>0, <1>3, <2>2
    <3>14. tries[s] \in Tries
      BY <1>0
    <3>15. tries'[s].failed = Another(k) /\ tries'[s].ago = 0
      BY <1>0, <2>2, <3>7, <3>14, HistoryParts
    <3>8. Stored(s) => subs[s].age >= 0 /\ subs'[s] = subs[s]
      BY <1>0, <1>3, <2>2 DEF NoFuture
    <3> HIDE DEF n, d, k
    <3>9. Another(k) \in Nat /\ Wait(Another(k)) \in Nat /\ Wait(Another(k)) <= n.delay
      BY <3>2, <3>3, <3>6, WaitGrows
    <3>10. n # None
      BY <3>2
    <3>12. n.delay \in Nat /\ 0 + n.left >= Wait(Another(k)) /\ n.delay >= Wait(Another(k))
      BY <3>2, <3>9
    <3>13. Stored(s)' => subs'[s].age >= n.fage /\ ~n.after
      BY <1>3, <3>2, <3>8 DEF Stored
    <3> QED
      BY <3>7, <3>10, <3>12, <3>13, <3>15 DEF KeptOff
  <2>3. CASE turned
    BY <1>0, <2>3 DEF KeptOff
  <2> QED
    BY <2>1, <2>2, <2>3, <2>4
<1> QED
  BY <1>1, <1>2, <1>3 DEF LandSubscriptionFetch

(* Time passes: the hold runs down as the time since the failure grows, and *)
(* a stamp stays on its side of the failure.                                *)
LEMMA PassHolds ==
  ASSUME PowersOfTwo, ScheduleInv, HoldKept, Pass, NEW s \in Sub
  PROVE  KeptOff(s)'
<1>0. /\ Typed /\ TypeOK /\ KeptOff(s) /\ turned' = turned
  BY DEF ScheduleInv, Pass, HoldKept
<1>1. CASE turned \/ ~(tries[s].failed > 0) \/ tries[s].forgotten
  BY <1>0, <1>1, PassParts DEF KeptOff
<1>2. CASE ~turned /\ tries[s].failed > 0 /\ ~tries[s].forgotten
  <2> DEFINE w == Wait(tries[s].failed)
  <2>1. /\ retry[s] # None /\ retry[s].delay >= w /\ tries[s].ago + retry[s].left >= w
        /\ Stored(s) => subs[s].age >= retry[s].fage /\ ~retry[s].after
    BY <1>0, <1>2 DEF KeptOff
  <2>2. w \in Nat /\ w <= BackoffMax
    <3>1. tries[s].failed \in Nat \ {0}
      BY <1>0, <1>2, SubParts
    <3> QED
      BY <3>1, WaitParts
  <2>3. /\ retry'[s] \in Retry /\ retry'[s].fage = Grow(retry[s].fage)
        /\ retry'[s].left = (IF retry[s].left = 0 THEN 0 ELSE retry[s].left - 1)
        /\ retry'[s].delay = retry[s].delay /\ retry'[s].after = retry[s].after
        /\ tries'[s].failed = tries[s].failed
        /\ tries'[s].ago = (IF tries[s].ago >= w THEN tries[s].ago ELSE tries[s].ago + 1)
    BY <1>0, <1>2, <2>1, PassParts
  <2> HIDE DEF w
  <2>4. tries'[s].ago + retry'[s].left >= w
    <3>1. retry[s].left \in Nat /\ tries[s].ago \in Nat
      BY <1>0, <2>1, SubParts
    <3> QED
      BY <2>1, <2>2, <2>3, <3>1
  <2>5. Stored(s)' => subs'[s].age >= retry'[s].fage /\ ~retry'[s].after
    <3> SUFFICES ASSUME Stored(s)' PROVE subs'[s].age >= retry'[s].fage /\ ~retry'[s].after
      OBVIOUS
    <3>1. Stored(s) /\ subs'[s].age = Grow(subs[s].age)
      BY <1>0, PassParts DEF Stored
    <3>2. subs[s].age \in Ages /\ retry[s].fage \in Ages
      BY <1>0, <2>1, <3>1, SubParts
    <3> QED
      BY <2>1, <2>3, <3>1, <3>2, GrowAges
  <2>6. retry'[s] # None
    BY <2>3
  <2> QED
    BY <2>1, <2>3, <2>4, <2>5, <2>6 DEF KeptOff, w
<1> QED
  BY <1>1, <1>2

(* refresh_subscriptions ends the count of what it refreshed, and touches   *)
(* nothing else.                                                            *)
LEMMA RefreshHolds ==
  ASSUME ScheduleInv, HoldKept, RefreshSubscriptions, NEW s \in Sub
  PROVE  KeptOff(s)'
<1>0. KeptOff(s) /\ turned' = turned
  BY DEF HoldKept, RefreshSubscriptions
<1>1. PICK ok :
         /\ subs' = [t \in Sub |-> IF t \in ok THEN [subs[t] EXCEPT !.age = 0, !.body = body]
                                   ELSE subs[t]]
         /\ retry' = [t \in Sub |-> IF t \in ok /\ retry[t] # None
                                    THEN [retry[t] EXCEPT !.after = TRUE] ELSE retry[t]]
         /\ tries' = [t \in Sub |-> IF t \in ok THEN [NoTry EXCEPT !.overtaken = InFlight(t)]
                                    ELSE tries[t]]
  BY DEF RefreshSubscriptions
<1>2. CASE s \in ok
  <2>1. tries'[s] = [NoTry EXCEPT !.overtaken = InFlight(s)]
    BY <1>1, <1>2
  <2>2. tries'[s].failed = 0
    BY <2>1 DEF NoTry
  <2> QED
    BY <2>2, NothingKeptOff
<1>3. CASE s \notin ok
  <2>1. tries'[s] = tries[s] /\ retry'[s] = retry[s] /\ subs'[s] = subs[s]
    BY <1>1, <1>3
  <2> QED
    BY <1>0, <2>1, StillKeptOff DEF Stored
<1> QED
  BY <1>2, <1>3

(* Adding, editing and removing: no count goes with a new id, and an edit   *)
(* moves no stamp.                                                          *)
LEMMA VerbHolds ==
  ASSUME ScheduleInv, HoldKept, NEW i \in Edited,
         AddSubscription(i) \/ UpdateSubscription(i) \/ RemoveSubscription(i), NEW s \in Sub
  PROVE  KeptOff(s)'
<1>0. /\ Typed /\ UsedOnly /\ KeptOff(s) /\ turned' = turned /\ retry' = retry /\ tries' = tries
      /\ i \in Sub /\ subs \in [Sub -> Subscription \cup {None}]
  BY DEF ScheduleInv, HoldKept, AddSubscription, UpdateSubscription, RemoveSubscription, Verb,
         Typed
<1>1. CASE AddSubscription(i) /\ s = i
  <2>1. s \notin used
    BY <1>1 DEF AddSubscription
  <2>2. tries[s].failed \in Nat /\ ~(tries[s].failed > 0)
    BY <1>0, <2>1, SubParts DEF UsedOnly
  <2>3. tries'[s].failed = 0
    BY <1>0, <2>2
  <2> QED
    BY <2>3, NothingKeptOff
<1>2. CASE UpdateSubscription(i) /\ s = i
  <2>1. PICK on \in BOOLEAN, url \in 1..2 :
           subs' = [subs EXCEPT ![i].on = on, ![i].url = url]
    BY <1>2 DEF UpdateSubscription
  <2>2. Stored(s) /\ subs[s] \in Subscription
    BY <1>0, <1>2, SubParts DEF UpdateSubscription
  <2>3. subs'[s] = [subs[s] EXCEPT !.on = on, !.url = url]
    BY <1>0, <1>2, <2>1
  <2>4. subs'[s].age = subs[s].age
    BY <2>2, <2>3 DEF Subscription
  <2> QED
    BY <1>0, <2>2, <2>4, StillKeptOff
<1>3. CASE RemoveSubscription(i) /\ s = i
  <2>1. ~Stored(s)'
    BY <1>0, <1>3 DEF RemoveSubscription, Stored
  <2> QED
    BY <1>0, <2>1, StillKeptOff
<1>4. CASE s # i
  <2>1. subs'[s] = subs[s]
    BY <1>0, <1>4 DEF AddSubscription, UpdateSubscription, RemoveSubscription
  <2> QED
    BY <1>0, <2>1, StillKeptOff DEF Stored
<1> QED
  BY <1>1, <1>2, <1>3, <1>4

(* Every step keeps off what failed.                                        *)
LEMMA HoldStep ==
  ASSUME PowersOfTwo, ScheduleInv, HoldKept, [Next]_vars
  PROVE  HoldKept'
<1> SUFFICES ASSUME NEW s \in Sub PROVE KeptOff(s)'
  BY DEF HoldKept
<1>1. CASE Sweep
  BY <1>1, SweepHolds
<1>2. CASE LandSubscriptionFetch
  BY <1>2, LandHolds
<1>3. CASE RefreshSubscriptions
  BY <1>3, RefreshHolds
<1>4. CASE \E i \in Edited : AddSubscription(i) \/ UpdateSubscription(i) \/ RemoveSubscription(i)
  BY <1>4, VerbHolds
<1>5. CASE Pass
  BY <1>5, PassHolds
<1>6. CASE SetClockBack
  BY <1>6 DEF SetClockBack, KeptOff
<1>7. CASE Exit
  <2>1. tries'[s].failed = 0
    BY <1>7, Constants DEF Exit
  <2> QED
    BY <2>1, NothingKeptOff
<1>8. CASE FetchSubscription \/ SetActiveProfile \/ Start \/ ProviderChanges \/ UNCHANGED vars
  <2>1. UNCHANGED <<subs, retry, tries, turned>>
    BY <1>8 DEF FetchSubscription, SetActiveProfile, Start, ProviderChanges, vars, Verb
  <2>2. KeptOff(s)
    BY DEF HoldKept
  <2> QED
    BY <2>1, <2>2, StillKeptOff DEF Stored
<1> QED
  BY <1>1, <1>2, <1>3, <1>4, <1>5, <1>6, <1>7, <1>8 DEF Next

(* A sweep takes up only what is not held, and what is not held has waited. *)
LEMMA PickedWaited ==
  ASSUME PowersOfTwo, ScheduleInv, HoldKept, Next, NEW s \in Sub, Picked(s), ~turned,
         tries[s].failed > 0, ~tries[s].forgotten
  PROVE  tries[s].ago >= Wait(tries[s].failed)
<1>0. Typed /\ KeptOff(s) /\ loop = InLoop
  BY DEF ScheduleInv, HoldKept, Picked
<1>1. Sweep
  <2>1. CASE FetchSubscription
    BY <1>0, <2>1, Constants DEF FetchSubscription, First
  <2>2. CASE LandSubscriptionFetch
    BY <1>0, <2>2, Constants DEF LandSubscriptionFetch
  <2>3. CASE loop' \in {loop, InLoop}
    BY <1>0, <2>3, Constants DEF Picked
  <2>4. CASE RefreshSubscriptions
    BY <1>0, <2>4, RefreshLoop, Constants DEF Picked
  <2> QED
    BY <2>1, <2>2, <2>3, <2>4 DEF Next, AddSubscription, UpdateSubscription,
       RemoveSubscription, SetActiveProfile, Verb, Exit, Start, Pass, SetClockBack,
       ProviderChanges
<1>2. s \in DueSubscriptions
  BY <1>1 DEF Sweep, Picked, Snapshots
<1>3. Stored(s) /\ Home[s] = active /\ ~Held(Pruned(s))
  BY <1>2 DEF DueSubscriptions
<1>4. /\ retry[s] # None /\ tries[s].ago + retry[s].left >= Wait(tries[s].failed)
      /\ subs[s].age >= retry[s].fage /\ ~retry[s].after
  BY <1>0, <1>3 DEF KeptOff
<1>5. /\ subs[s].age \in Int /\ retry[s].fage \in Int /\ retry[s].left \in Nat
      /\ tries[s].ago \in Nat
  BY <1>0, <1>3, <1>4, SubParts DEF Ages
<1>6. ~SupersededBy(retry[s], subs[s])
  BY <1>4, <1>5 DEF SupersededBy
<1>7. Pruned(s) = retry[s]
  BY <1>3, <1>6 DEF Pruned
<1>8. retry[s].left = 0
  BY <1>3, <1>4, <1>5, <1>7 DEF Held
<1> QED
  BY <1>4, <1>5, <1>8

(* The k-th failure in a row keeps the loop away for BackoffMin * 2^(k-1),  *)
(* up to BackoffMax, whatever is swept, refreshed, edited, added or removed *)
(* in between, unless a sweep of another profile forgot the failures or the *)
(* wall clock was set back: subRetry, supersededBy and the pruning, for     *)
(* every interval and backoff.                                              *)
THEOREM WaitsAreServed ==
  ASSUME PowersOfTwo
  PROVE  Spec => BackoffHonoured
<1>1. Init => HoldKept
  <2> SUFFICES ASSUME Init, NEW s \in Sub PROVE KeptOff(s)
    BY DEF HoldKept
  <2>1. tries[s].failed = 0
    BY Constants DEF Init
  <2> QED
    BY <2>1 DEF KeptOff
<1>2. ScheduleInv /\ HoldKept /\ [Next]_vars => HoldKept'
  BY HoldStep
<1>3. ScheduleInv /\ HoldKept /\ [Next]_vars =>
         [\A s \in Sub : Picked(s) /\ ~turned /\ tries[s].failed > 0 /\ ~tries[s].forgotten
            => tries[s].ago >= Wait(tries[s].failed)]_vars
  BY PickedWaited
<1> QED
  BY <1>1, <1>2, <1>3, ScheduleInvariant, PTL DEF Spec, BackoffHonoured
=============================================================================
