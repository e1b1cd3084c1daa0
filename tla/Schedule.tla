------------------------------ MODULE Schedule ------------------------------
(* When subscriptions are refreshed: the loop that sweeps the active        *)
(* profile, what makes a subscription due, and the in-memory backoff after  *)
(* a failure, beside the verbs that refresh, edit, add and remove           *)
(* subscriptions or switch profiles.  What a refresh does to the profile is *)
(* in ProfileStore, the reconnect it may ask for in Session.                *)
(*                                                                          *)
(* Time is relative: stamps are ages on the wall clock, which may be set    *)
(* back and then makes them negative; a hold counts down on the monotonic   *)
(* clock, which Go compares in-memory times by.  Ages stop growing at Old.  *)
EXTENDS Integers

CONSTANTS
  Sub,          \* subscription ids, naturals in the profile's order
  Home,         \* the profile each subscription belongs to
  Profile,      \* profiles
  Interval,     \* update interval of every subscription
  BackoffMin,   \* hold after a first failure
  BackoffMax,   \* hold it doubles up to
  Old,          \* bound: ages are not told apart beyond it
  Back,         \* bound: how far the wall clock is set back, once; 0 for never
  Edited,       \* bound: subscriptions the user refreshes, edits, adds or removes
  MaxBody,      \* bound: versions of what a provider serves
  None

(* A stored subscription; a backoff entry; a snapshot the sweep has still   *)
(* to fetch; and one that its provider has answered or failed to.           *)
Ages == -Back..Old
Subscription == [on : BOOLEAN, url : 1..2, age : Ages, body : 0..MaxBody]
Retry == [left : Nat, delay : Nat, fage : Ages, after : BOOLEAN]
Snapshot == [s : Sub, url : 1..2, got : {None}]
Got == [ok : BOOLEAN, body : 0..MaxBody, behind : BOOLEAN]
Fetched == [s : Sub, url : 1..2, got : Got]

ASSUME TimesAssumption ==
  /\ {Interval, BackoffMin, BackoffMax, Old} \subseteq Nat \ {0}
  /\ BackoffMin <= BackoffMax
  /\ Sub \subseteq Nat /\ Edited \subseteq Sub
  /\ Old > Interval /\ Back \in Nat /\ MaxBody \in Nat
  /\ None \notin Subscription /\ None \notin Retry /\ None \notin Fetched

VARIABLES
  \* the store
  active,   \* the active profile
  subs,     \* the subscriptions: [on, url, age, body]; None before and after
  used,     \* ids given out, never given again
  body,     \* what the providers serve now
  \* the daemon
  up,       \* its process runs
  loop,     \* the sweep: the snapshots still to do, and the fetch under way
  retry,    \* subRetry: [left, delay, fage, after], or None
  \* history
  tries,    \* automatic attempts since the last success: how many failed
            \* in a row, how long ago, whether the fetch under way was
            \* overtaken, and whether a sweep forgot the failures
  turned    \* the wall clock has been set back

vars == <<active, subs, used, body, up, loop, retry, tries, turned>>

Stored(s) == subs[s] # None
InLoop == [todo |-> {}, fetch |-> None]
NoTry == [failed |-> 0, ago |-> 0, overtaken |-> FALSE, forgotten |-> FALSE]
Grow(a) == IF a >= Old THEN Old ELSE a + 1
NewSub == [on |-> TRUE, url |-> 1, age |-> 0, body |-> body]

Init ==
  /\ active \in Profile
  /\ body = 0
  /\ subs \in [Sub -> {None, [NewSub EXCEPT !.age = Old]}]
  /\ \A s \in Sub \ Edited : subs[s] # None
  /\ used = {s \in Sub : Stored(s)}
  /\ up = TRUE /\ loop = InLoop
  /\ retry = [s \in Sub |-> None]
  /\ tries = [s \in Sub |-> NoTry]
  /\ turned = FALSE

-----------------------------------------------------------------------------
(* Due times.                                                               *)

(* Interval is positive: a subscription without an interval is never due,   *)
(* as one that is off.                                                      *)
SubscriptionDue(x) == x.on /\ (x.age < 0 \/ x.age >= Interval)

(* Within one tick the order of the two stamps is kept in r.after.          *)
SupersededBy(r, x) ==
  x.age >= 0 /\ (x.age < r.fage \/ (x.age = r.fage /\ r.after))

(* Mutant: every failure waits the minimum.                                  *)
NextRetryFlat(prev, behind) ==
  [left |-> BackoffMin, delay |-> BackoffMin, fage |-> 0, after |-> behind]

(* Mutant: the wait doubles without end.                                     *)
NextRetryUncapped(prev, behind) ==
  LET delay == IF prev = None THEN BackoffMin ELSE prev.delay * 2
  IN [left |-> delay, delay |-> delay, fage |-> 0, after |-> behind]

(* `behind`: now was read before a refresh by hand that has ended since.    *)
NextSubscriptionRetry(prev, behind) ==
  LET twice == IF prev.delay * 2 > BackoffMax THEN BackoffMax ELSE prev.delay * 2
      delay == IF prev = None THEN BackoffMin ELSE twice
  IN [left |-> delay, delay |-> delay, fage |-> 0, after |-> behind]

(* What the sweep finds of one backoff entry once it has pruned.            *)
Pruned(s) ==
  IF ~Stored(s) \/ Home[s] # active THEN None
  ELSE IF retry[s] # None /\ SupersededBy(retry[s], subs[s]) THEN None ELSE retry[s]

Held(r) == r # None /\ r.left > 0

DueSubscriptions ==
  {s \in Sub : /\ Stored(s) /\ Home[s] = active
               /\ SubscriptionDue(subs[s]) /\ ~Held(Pruned(s))}

Snapshots(due) == {[s |-> s, url |-> subs[s].url, got |-> None] : s \in due}

(* History: the failures whose entry a sweep of another profile deletes.    *)
AfterSweep(s) ==
  IF ~Stored(s) THEN NoTry
  ELSE IF Home[s] # active /\ tries[s].failed > 0 THEN [tries[s] EXCEPT !.forgotten = TRUE]
  ELSE tries[s]

(* Mutant: looking at a held subscription starts its wait again.             *)
SweepRenewing ==
  /\ up /\ loop = InLoop
  /\ retry' = [s \in Sub |-> IF Pruned(s) = None THEN None
                             ELSE [Pruned(s) EXCEPT !.left = Pruned(s).delay]]
  /\ loop' = [todo |-> Snapshots(DueSubscriptions), fetch |-> None]
  /\ tries' = [s \in Sub |-> AfterSweep(s)]
  /\ UNCHANGED <<active, subs, used, body, up, turned>>

(* A sweep begins: prune, and snapshot what is due.  With no active profile, *)
(* or one that does not load, it does nothing, not even prune.              *)
Sweep ==
  /\ up /\ loop = InLoop
  /\ retry' = [s \in Sub |-> Pruned(s)]
  /\ loop' = [todo |-> Snapshots(DueSubscriptions), fetch |-> None]
  /\ tries' = [s \in Sub |-> AfterSweep(s)]
  /\ UNCHANGED <<active, subs, used, body, up, turned>>

Answer(ok, b) == [ok |-> ok, body |-> b, behind |-> FALSE]

(* The next to fetch, in the profile's order.                               *)
First(todo) == {x \in todo : \A y \in todo : x.s <= y.s}

(* Mutant: the answer comes from a cache.                                    *)
FetchCached ==
  /\ up /\ loop.fetch = None
  /\ \E x \in First(loop.todo), g \in {Answer(TRUE, 0), Answer(FALSE, 0)} :
       loop' = [todo |-> loop.todo \ {x}, fetch |-> [x EXCEPT !.got = g]]
  /\ UNCHANGED <<active, subs, used, body, up, retry, tries, turned>>

(* One fetch at a time, with mu released; the step is the moment the        *)
(* provider answers or fails to.                                            *)
FetchSubscription ==
  /\ up /\ loop.fetch = None
  /\ \E x \in First(loop.todo), g \in {Answer(TRUE, body), Answer(FALSE, 0)} :
       loop' = [todo |-> loop.todo \ {x}, fetch |-> [x EXCEPT !.got = g]]
  /\ UNCHANGED <<active, subs, used, body, up, retry, tries, turned>>

(* Apply's drift check: the subscription is still there, with its URL.      *)
Matches(f) == Stored(f.s) /\ subs[f.s].url = f.url

Wait(k) == IF BackoffMin * 2^(k - 1) > BackoffMax THEN BackoffMax ELSE BackoffMin * 2^(k - 1)
Another(k) == IF k > 0 /\ Wait(k) = BackoffMax THEN k ELSE k + 1

(* One more failure in a row; it is the first where the others were         *)
(* forgotten, and none where a success came after it.  None is counted once *)
(* the wall clock was set back: no property is about them.                  *)
Failing(t, behind) ==
  IF behind \/ turned THEN NoTry
  ELSE [NoTry EXCEPT !.failed = Another(IF t.forgotten THEN 0 ELSE t.failed)]

(* The loop has an answer for s that has not landed.                        *)
InFlight(s) == loop.fetch # None /\ loop.fetch.s = s

(* Now is read before mu is taken: a landing that waited for a refresh by   *)
(* hand to release mu stamps its failure behind that refresh.  Bound: it    *)
(* gets mu within the tick.                                                 *)
Queued == loop.fetch # None /\ loop.fetch.got.behind

(* The result lands under mu on the reloaded profile.  `fault`: the profile *)
(* does not load (nothing is recorded), or does not save (the endpoint is   *)
(* held back although it answered).                                         *)
LandSubscriptionFetch ==
  LET f == loop.fetch
      s == f.s
  IN
  /\ up /\ f # None
  /\ loop' = [loop EXCEPT !.fetch = None]
  /\ \E fault \in {"none", "load", "save"} :
       CASE fault = "load" ->
              /\ tries' = [tries EXCEPT ![s].overtaken = FALSE]
              /\ UNCHANGED <<subs, retry>>
         [] fault # "load" /\ ~Matches(f) ->
              /\ retry' = [retry EXCEPT ![s] = None]
              /\ tries' = [tries EXCEPT ![s] = NoTry]
              /\ UNCHANGED subs
         [] fault = "none" /\ Matches(f) /\ f.got.ok ->
              /\ subs' = [subs EXCEPT ![s].age = 0, ![s].body = f.got.body]
              /\ tries' = [tries EXCEPT ![s] = NoTry]
              /\ retry' = [retry EXCEPT ![s] = None]
         [] OTHER ->
              /\ retry' = [retry EXCEPT ![s] = NextSubscriptionRetry(@, f.got.behind)]
              /\ tries' = [tries EXCEPT ![s] = Failing(@, f.got.behind)]
              /\ UNCHANGED subs
  /\ UNCHANGED <<active, used, body, up, turned>>

-----------------------------------------------------------------------------
(* Verbs.  Each holds mu from its load to its save, a manual refresh across *)
(* its fetch too.                                                           *)

Verb == up /\ UNCHANGED <<body, up, loop, turned>>

(* One subscription or all of a profile's; `ok` are those whose provider     *)
(* answered.  One that fails keeps its stamp, and its backoff is left alone. *)
(* The loop's landing may be waiting for mu meanwhile.                       *)
RefreshSubscriptions ==
  /\ up
  /\ \E p \in Profile : \E ok \in SUBSET {s \in Edited : Stored(s) /\ Home[s] = p} :
       /\ ok # {}
       /\ subs' = [s \in Sub |-> IF s \in ok THEN [subs[s] EXCEPT !.age = 0, !.body = body]
                                 ELSE subs[s]]
       /\ retry' = [s \in Sub |-> IF s \in ok /\ retry[s] # None
                                  THEN [retry[s] EXCEPT !.after = TRUE] ELSE retry[s]]
       /\ tries' = [s \in Sub |-> IF s \in ok THEN [NoTry EXCEPT !.overtaken = InFlight(s)]
                                  ELSE tries[s]]
       /\ \/ UNCHANGED loop
          \/ (\E s \in ok : InFlight(s)) /\ loop' = [loop EXCEPT !.fetch.got.behind = TRUE]
  /\ UNCHANGED <<active, used, body, up, turned>>

(* Stamped now, whether or not its first fetch got anything.                *)
AddSubscription(s) ==
  /\ Verb /\ s \notin used
  /\ subs' \in {[subs EXCEPT ![s] = NewSub], [subs EXCEPT ![s] = [NewSub EXCEPT !.body = 0]]}
  /\ used' = used \cup {s}
  /\ UNCHANGED <<active, retry, tries>>

(* The auto-update flag and the URL; the other fields do not matter here.   *)
UpdateSubscription(s) ==
  /\ Verb /\ Stored(s)
  /\ \E on \in BOOLEAN, url \in 1..2 :
       /\ <<on, url>> # <<subs[s].on, subs[s].url>>
       /\ subs' = [subs EXCEPT ![s].on = on, ![s].url = url]
  /\ UNCHANGED <<active, used, retry, tries>>

RemoveSubscription(s) ==
  /\ Verb /\ Stored(s)
  /\ subs' = [subs EXCEPT ![s] = None]
  /\ UNCHANGED <<active, used, retry, tries>>

SetActiveProfile ==
  /\ Verb
  /\ active' \in Profile \ {active}
  /\ UNCHANGED <<subs, used, retry, tries>>

-----------------------------------------------------------------------------
(* The process and the clocks.                                              *)

(* Shutdown or crash: a fetch under way is dropped, the backoff forgotten.  *)
Exit ==
  /\ up
  /\ up' = FALSE /\ loop' = InLoop
  /\ retry' = [s \in Sub |-> None]
  /\ tries' = [s \in Sub |-> NoTry]
  /\ UNCHANGED <<active, subs, used, body, turned>>

Start ==
  /\ ~up
  /\ up' = TRUE
  /\ UNCHANGED <<active, subs, used, body, loop, retry, tries, turned>>

Pass ==
  /\ ~Queued
  /\ subs' = [s \in Sub |-> IF Stored(s) THEN [subs[s] EXCEPT !.age = Grow(@)] ELSE subs[s]]
  /\ retry' = [s \in Sub |->
       IF retry[s] = None THEN None
       ELSE [retry[s] EXCEPT !.left = IF @ = 0 THEN 0 ELSE @ - 1, !.fage = Grow(@)]]
  /\ tries' = [s \in Sub |-> IF tries[s].failed = 0 \/ tries[s].ago >= Wait(tries[s].failed)
                             THEN tries[s] ELSE [tries[s] EXCEPT !.ago = @ + 1]]
  /\ UNCHANGED <<active, used, body, up, loop, turned>>

SetClockBack ==
  /\ Back > 0 /\ ~turned /\ ~Queued
  /\ turned' = TRUE
  /\ subs' = [s \in Sub |-> IF Stored(s) THEN [subs[s] EXCEPT !.age = @ - Back] ELSE subs[s]]
  /\ retry' = [s \in Sub |-> IF retry[s] = None THEN None ELSE [retry[s] EXCEPT !.fage = @ - Back]]
  /\ tries' = [s \in Sub |-> [NoTry EXCEPT !.overtaken = tries[s].overtaken]]
  /\ UNCHANGED <<active, used, body, up, loop>>

ProviderChanges ==
  /\ body < MaxBody
  /\ body' = body + 1
  /\ UNCHANGED <<active, subs, used, up, loop, retry, tries, turned>>

Next ==
  \/ Sweep \/ FetchSubscription \/ LandSubscriptionFetch
  \/ RefreshSubscriptions
  \/ \E s \in Edited : AddSubscription(s) \/ UpdateSubscription(s) \/ RemoveSubscription(s)
  \/ SetActiveProfile
  \/ Exit \/ Start \/ Pass \/ SetClockBack \/ ProviderChanges

Spec == Init /\ [][Next]_vars

(* Time passes, and the loop's goroutine goes on: its ticker fires, a fetch  *)
(* has a timeout, and nobody holds mu for ever.                             *)
SubscriptionLoop == Sweep \/ FetchSubscription \/ LandSubscriptionFetch

FairSpec == Spec /\ WF_vars(Pass) /\ WF_vars(SubscriptionLoop)

-----------------------------------------------------------------------------
(* Properties.                                                              *)

(* Type invariant: a hold never lasts longer than its failure imposed nor   *)
(* than the longest backoff (nextSubscriptionRetry, subRetry), and no sweep *)
(* is under way in a stopped daemon.                                        *)
TypeOK ==
  /\ active \in Profile /\ body \in 0..MaxBody
  /\ \A s \in Sub :
       /\ Stored(s) => subs[s] \in Subscription
       /\ retry[s] # None => /\ retry[s].left \in 0..retry[s].delay
                             /\ retry[s].delay \in BackoffMin..BackoffMax
                             /\ retry[s].fage \in Ages
  /\ ~up => loop = InLoop

(* A sweep takes s up.                                                      *)
Picked(s) == loop = InLoop /\ \E x \in loop'.todo : x.s = s

(* The k-th failure in a row keeps the loop away for 10 min * 2^(k-1), up   *)
(* to an hour, whatever is refreshed by hand, edited or swept in between;   *)
(* only a success, a restart and a re-pointed or removed subscription end   *)
(* the count (subRetry, supersededBy).  Two exceptions: a sweep of another  *)
(* profile forgets the failures of this one (dueSubscriptionsLocked deletes *)
(* what the active profile does not list), and with the wall clock set back *)
(* a stamp from before the failure may pass for a later success.            *)
BackoffHonoured ==
  [][\A s \in Sub : Picked(s) /\ ~turned /\ tries[s].failed > 0 /\ ~tries[s].forgotten
       => tries[s].ago >= Wait(tries[s].failed)]_vars

(* What dueSubscriptionsLocked says of its pruning, "an entry a later       *)
(* success superseded, or whose subscription is gone": a wait that a        *)
(* failure imposed outlives a switch to another profile and back.  It does  *)
(* not.                                                                     *)
HoldOutlivesSwitch ==
  [][\A s \in Sub : Picked(s) /\ ~turned /\ tries[s].failed > 0
       => tries[s].ago >= Wait(tries[s].failed)]_vars

(* What is stored is never replaced by something older, unless a manual     *)
(* refresh overtook the loop's fetch of the same subscription: Apply checks *)
(* the URL and not the time (landSubscriptionFetch, refreshSubscriptions).  *)
NewestStays ==
  [][\A s \in Sub : Stored(s) /\ subs'[s] # None /\ subs'[s].body < subs[s].body
       => tries[s].overtaken]_vars

Wanted(s) == up /\ Stored(s) /\ Home[s] = active /\ subs[s].on

(* No subscription is forgotten: one that is due is fetched again whatever  *)
(* failed before, and also after the clock was set back, while the daemon   *)
(* runs and the user leaves it on (subscriptionDue, the cap of the backoff, *)
(* the sweep's one-at-a-time loop).                                         *)
DueIsTried ==
  \A s \in Sub :
    Wanted(s) /\ SubscriptionDue(subs[s])
      ~> \/ ~Wanted(s) \/ ~SubscriptionDue(subs[s])
         \/ loop.fetch # None /\ loop.fetch.s = s

-----------------------------------------------------------------------------
(* What the proofs rest on.                                                 *)

Tries == [failed : Nat, ago : Nat, overtaken : BOOLEAN, forgotten : BOOLEAN]

Typed ==
  /\ active \in Profile /\ body \in 0..MaxBody
  /\ subs \in [Sub -> Subscription \cup {None}] /\ used \subseteq Sub
  /\ up \in BOOLEAN /\ turned \in BOOLEAN
  /\ loop \in [todo : SUBSET Snapshot, fetch : Fetched \cup {None}]
  /\ retry \in [Sub -> Retry \cup {None}]
  /\ tries \in [Sub -> Tries]

(* Until the clock is set back no stamp is in the future.                   *)
NoFuture ==
  ~turned => \A s \in Sub : /\ Stored(s) => subs[s].age >= 0
                            /\ retry[s] # None => retry[s].fage >= 0

(* Whatever refers to a subscription refers to an id that was given out.    *)
UsedOnly ==
  /\ \A s \in Sub : Stored(s) \/ retry[s] # None \/ tries[s].failed > 0 => s \in used
  /\ \A x \in loop.todo : x.s \in used
  /\ loop.fetch # None => loop.fetch.s \in used

(* A subscription that failed is held until its wait is over, and no stamp  *)
(* of it passes for a success since.                                        *)
KeptOff(s) ==
  ~turned /\ tries[s].failed > 0 /\ ~tries[s].forgotten =>
    /\ retry[s] # None
    /\ retry[s].delay >= Wait(tries[s].failed)
    /\ tries[s].ago + retry[s].left >= Wait(tries[s].failed)
    /\ Stored(s) => subs[s].age >= retry[s].fage /\ ~retry[s].after

HoldKept == \A s \in Sub : KeptOff(s)

(* Nothing is newer than what the provider serves, and the answer under way *)
(* is no older than what is stored, unless it was overtaken.                *)
NothingNewer ==
  /\ \A s \in Sub : Stored(s) => subs[s].body <= body
  /\ loop.fetch # None =>
       /\ loop.fetch.got.body <= body
       /\ Stored(loop.fetch.s) /\ loop.fetch.got.ok
            /\ loop.fetch.got.body < subs[loop.fetch.s].body
            => tries[loop.fetch.s].overtaken

ScheduleInv == Typed /\ TypeOK /\ NoFuture /\ UsedOnly /\ NothingNewer
=============================================================================
