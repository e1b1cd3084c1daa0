-------------------------- MODULE ProfileStoreProofs --------------------------
(***************************************************************************)
(* Proofs about ProfileStore: for any number of profiles, subscriptions,   *)
(* nodes and provider bodies, every stored profile stays consistent over   *)
(* every sequence of verbs, refreshes, late landings and failed writes.    *)
(***************************************************************************)
EXTENDS ProfileStore, TLAPS

USE StoreAssumption

(* A file and what is read of it.                                          *)
LEMMA FileParts ==
    ASSUME NEW f \in File
    PROVE  /\ f.version \in {2, 3}
           /\ f.active \in NodeId \cup GroupId \cup {None}
           /\ f.subs \subseteq Subscription /\ f.nodes \subseteq Node
           /\ f.routings \subseteq [id : RoutingId, name : RName]
           /\ f.routing \in RoutingId \cup {None}
           /\ f # None
BY DEF File

(* LoadProfile: the migration changes intervals, and nothing else.         *)
LEMMA LoadedParts ==
    ASSUME NEW f \in File
    PROVE  /\ Loaded(f) \in File /\ Loaded(f).version = 3
           /\ Loaded(f).active = f.active /\ Loaded(f).nodes = f.nodes
           /\ Loaded(f).routings = f.routings /\ Loaded(f).routing = f.routing
           /\ \A s \in Loaded(f).subs : \E t \in f.subs :
                 s.id = t.id /\ s.url = t.url /\ s.error = t.error
                   /\ (s.interval = t.interval \/ t.interval \in {0, legacyUpdateIntervalSec})
           /\ \A t \in f.subs : \E s \in Loaded(f).subs : s.id = t.id
           /\ (\A s, t \in f.subs : s.id = t.id => s = t)
                 => \A s, t \in Loaded(f).subs : s.id = t.id => s = t
<1> DEFINE mig(s) == [s EXCEPT !.interval = IF @ \in {0, legacyUpdateIntervalSec}
                                            THEN DefaultUpdateIntervalSec ELSE @]
<1>1. ASSUME NEW s \in f.subs
      PROVE  /\ mig(s) \in Subscription /\ mig(s).id = s.id /\ mig(s).url = s.url
             /\ mig(s).error = s.error
             /\ (mig(s).interval = s.interval \/ s.interval \in {0, legacyUpdateIntervalSec})
  BY FileParts DEF Subscription, DefaultUpdateIntervalSec
<1>2. CASE f.version = 3
  <2>1. Loaded(f) = f
    BY <1>2 DEF Loaded
  <2> QED
    BY <1>2, <2>1
<1>3. CASE f.version = 2
  <2>1. Loaded(f) = [f EXCEPT !.subs = {mig(s) : s \in f.subs}, !.version = 3]
    BY <1>3 DEF Loaded, migrateSubscriptionIntervals
  <2> HIDE DEF mig
  <2>2. {mig(s) : s \in f.subs} \subseteq Subscription
    BY <1>1
  <2>3. /\ Loaded(f) \in File /\ Loaded(f).version = 3
        /\ Loaded(f).active = f.active /\ Loaded(f).nodes = f.nodes
        /\ Loaded(f).routings = f.routings /\ Loaded(f).routing = f.routing
        /\ Loaded(f).subs = {mig(s) : s \in f.subs}
    BY <2>1, <2>2 DEF File
  <2> QED
    BY <1>1, <2>3
<1> QED
  BY <1>2, <1>3, FileParts

(* Soundness speaks of no interval, so a loaded file is sound.             *)
LEMMA LoadedSound ==
    ASSUME NEW f \in File, SoundFile(f)
    PROVE  SoundFile(Loaded(f)) /\ SubIds(Loaded(f)) = SubIds(f)
<1> DEFINE l == Loaded(f)
<1>1. /\ l.active = f.active /\ l.nodes = f.nodes
      /\ l.routings = f.routings /\ l.routing = f.routing
      /\ \A s \in l.subs : \E t \in f.subs : s.id = t.id /\ s.url = t.url /\ s.error = t.error
      /\ \A t \in f.subs : \E s \in l.subs : s.id = t.id
      /\ (\A s, t \in f.subs : s.id = t.id => s = t)
            => \A s, t \in l.subs : s.id = t.id => s = t
  BY LoadedParts
<1> HIDE DEF l
<1>2. SubIds(l) = SubIds(f)
  BY <1>1 DEF SubIds
<1>3. Keyed(l)
  BY <1>1 DEF SoundFile, Keyed
<1>4. Selects(l) /\ \A n \in l.nodes : Shaped(n)
  BY <1>1 DEF SoundFile, Selects, Ids
<1>5. Parented(l) /\ ErrorsMatch(l)
  BY <1>1, <1>2 DEF SoundFile, Parented, ErrorsMatch
<1> QED
  BY <1>2, <1>3, <1>4, <1>5 DEF SoundFile, l

(* Groups look at nodes only.                                              *)
LEMMA GroupsOfNodes ==
    ASSUME NEW f, NEW g, NEW gone, f.nodes = g.nodes, GroupsMeet(f, gone)
    PROVE  GroupsMeet(g, gone)
BY DEF GroupsMeet, DialableOf, Dialable

(* A group may miss more members when more nodes are gone.                  *)
LEMMA GroupsMore ==
    ASSUME NEW f, NEW gone, NEW more, gone \subseteq more, GroupsMeet(f, gone)
    PROVE  GroupsMeet(f, more)
BY DEF GroupsMeet

(* A stored profile as the invariant knows it.                             *)
LEMMA StoredFile ==
    ASSUME StoreInv, NEW p \in Present
    PROVE  /\ p \in Profile /\ files[p] \in File /\ SoundFile(files[p])
           /\ GroupsMeet(files[p], taken)
           /\ LoadProfile(p) \in File /\ SoundFile(LoadProfile(p))
           /\ GroupsMeet(LoadProfile(p), taken)
           /\ SubIds(LoadProfile(p)) = SubIds(files[p])
<1>1. /\ p \in Profile /\ files[p] \in File /\ SoundFile(files[p])
      /\ GroupsMeet(files[p], taken)
  BY DEF StoreInv, TypeOK, FilesSound, GroupsResolve, Present
<1> QED
  BY <1>1, LoadedParts, LoadedSound, GroupsOfNodes DEF LoadProfile

-----------------------------------------------------------------------------
(* Saving.                                                                 *)

(* Ids that a group still lists are not forgotten by a save.               *)
LEMMA ListedGroupsMeet ==
    ASSUME NEW q \in Profile, NEW ids, files'[q] # None, GroupsMeet(files'[q], ids)
    PROVE  GroupsMeet(files'[q], StillListed(ids))
BY DEF GroupsMeet, StillListed, Listed

(* Any save of a sound file in the current schema keeps the invariant, as  *)
(* long as its subscriptions are in no other profile and the intervals the *)
(* user chose are the ones it holds.                                       *)
LEMMA SaveKeeps ==
    ASSUME StoreInv, NEW p \in Present, NEW g \in File, SoundFile(g), g.version = 3,
           NEW gone \in SUBSET NodeId, GroupsMeet(g, taken \cup gone),
           files' = [files EXCEPT ![p] = g], taken' = StillListed(taken \cup gone),
           \A q \in Present : q # p => SubIds(g) \cap SubIds(files[q]) = {},
           chosen' \in [SubId -> Nat \cup {None}],
           \A q \in Present : q # p => \A s \in SubIds(files[q]) : chosen'[s] = chosen[s],
           \A s \in g.subs : chosen'[s.id] # None => s.interval = chosen'[s.id],
           \A s \in SubId : chosen'[s] # None =>
              s \in SubIds(g) \/ (s \notin SubIds(files[p]) /\ chosen[s] # None),
           current' \in Profile \cup {None},
           sweep' \in [profile : Profile, due : SUBSET Subscription] \cup {None},
           notices' \subseteq [profile : Profile, sub : SubId, keys : SUBSET Key]
    PROVE  StoreInv'
<1>0. /\ p \in Profile /\ files[p] \in File /\ g # None
      /\ files \in [Profile -> File \cup {None}] /\ taken \subseteq NodeId
  BY StoredFile, FileParts DEF StoreInv, TypeOK
<1>1. /\ files'[p] = g
      /\ \A q \in Profile : q # p => files'[q] = files[q]
      /\ Present' = Present
  BY <1>0 DEF Present
<1>2. FilesSound'
  BY <1>1 DEF StoreInv, FilesSound
<1>3. TypeOK'
  <2>1. \A q \in Profile : files'[q] # None => Keyed(files'[q])
    BY <1>1 DEF StoreInv, TypeOK, SoundFile
  <2>2. files' \in [Profile -> File \cup {None}]
    BY <1>0
  <2>3. taken' \subseteq NodeId
    BY <1>0 DEF StillListed
  <2> QED
    BY <2>1, <2>2, <2>3 DEF TypeOK
<1>4. GroupsResolve'
  <2> SUFFICES ASSUME NEW q \in Present PROVE GroupsMeet(files'[q], taken')
    BY <1>1 DEF GroupsResolve
  <2>1. GroupsMeet(files'[q], taken \cup gone)
    <3>1. CASE q = p
      BY <1>1, <3>1
    <3>2. CASE q # p
      <4>1. GroupsMeet(files[q], taken) /\ files'[q] = files[q]
        BY <1>1, <3>2, StoredFile
      <4> QED
        BY <4>1, GroupsMore
    <3> QED
      BY <3>1, <3>2
  <2>2. q \in Profile /\ files'[q] # None
    BY <1>1 DEF Present
  <2> QED
    BY <2>1, <2>2, ListedGroupsMeet
<1>5. SubsApart'
  BY <1>1 DEF StoreInv, SubsApart
<1>6. ChosenStored'
  <2> SUFFICES ASSUME NEW s \in SubId, chosen'[s] # None
               PROVE  \E q \in Present : s \in SubIds(files'[q])
    BY <1>1 DEF ChosenStored
  <2>1. CASE s \in SubIds(g)
    BY <1>1, <2>1
  <2>2. CASE s \notin SubIds(files[p]) /\ chosen[s] # None
    <3>1. PICK q \in Present : s \in SubIds(files[q])
      BY <2>2 DEF StoreInv, ChosenStored
    <3> QED
      BY <1>1, <2>2, <3>1 DEF Present
  <2> QED
    BY <2>1, <2>2
<1>7. IntervalStays'
  <2> SUFFICES ASSUME NEW q \in Present, NEW s \in Loaded(files'[q]).subs, chosen'[s.id] # None
               PROVE  s.interval = chosen'[s.id]
    BY <1>1 DEF IntervalStays, LoadProfile
  <2>1. CASE q = p
    <3>1. Loaded(files'[q]) = g
      BY <1>1, <2>1 DEF Loaded
    <3> QED
      BY <3>1
  <2>2. CASE q # p
    <3>1. files'[q] = files[q] /\ s \in LoadProfile(q).subs
      BY <1>1, <2>2 DEF LoadProfile, Present
    <3>2. s.id \in SubIds(files[q])
      BY <3>1, StoredFile DEF SubIds
    <3> QED
      BY <2>2, <3>1, <3>2 DEF StoreInv, IntervalStays
  <2> QED
    BY <2>1, <2>2
<1> QED
  BY <1>2, <1>3, <1>4, <1>5, <1>6, <1>7 DEF StoreInv

(* A save that keeps the subscriptions and their intervals.                *)
LEMMA EditKeeps ==
    ASSUME StoreInv, NEW p \in Present, NEW g \in File, SoundFile(g), g.version = 3,
           NEW gone \in SUBSET NodeId, GroupsMeet(g, taken \cup gone),
           Save(p, g, gone), UNCHANGED chosen,
           SubIds(g) = SubIds(files[p]),
           \A s \in g.subs : \E t \in LoadProfile(p).subs : t.id = s.id /\ t.interval = s.interval,
           notices' \subseteq [profile : Profile, sub : SubId, keys : SUBSET Key]
    PROVE  StoreInv'
<1>1. /\ files' = [files EXCEPT ![p] = g] /\ taken' = StillListed(taken \cup gone)
      /\ UNCHANGED <<current, sweep>>
  BY DEF Save
<1>2. \A q \in Present : q # p => SubIds(g) \cap SubIds(files[q]) = {}
  BY DEF StoreInv, SubsApart
<1>3. \A s \in g.subs : chosen'[s.id] # None => s.interval = chosen'[s.id]
  BY DEF StoreInv, IntervalStays
<1>4. /\ chosen' \in [SubId -> Nat \cup {None}] /\ current' \in Profile \cup {None}
      /\ sweep' \in [profile : Profile, due : SUBSET Subscription] \cup {None}
  BY <1>1 DEF StoreInv, TypeOK
<1> QED
  BY <1>1, <1>2, <1>3, <1>4, SaveKeeps

(* Edit, of a file that keeps the loaded subscriptions.                    *)
LEMMA EditSame ==
    ASSUME StoreInv, NEW p \in Present, NEW g \in File, SoundFile(g), g.version = 3,
           NEW gone \in SUBSET NodeId, GroupsMeet(g, taken \cup gone),
           Save(p, g, gone), UNCHANGED chosen, notices' = {},
           g.subs = LoadProfile(p).subs
    PROVE  StoreInv'
<1>1. SubIds(g) = SubIds(files[p])
  BY StoredFile DEF SubIds
<1> QED
  BY <1>1, EditKeeps

-----------------------------------------------------------------------------
(* The node and group verbs.                                               *)

(* SetActiveNodeIfUnset leaves a selection that resolves.                  *)
LEMMA ElectedSound ==
    ASSUME NEW f \in File, f.version = 3, Keyed(f), \A n \in f.nodes : Shaped(n),
           f.routing \in {r.id : r \in f.routings} \cup {None},
           Parented(f), ErrorsMatch(f), NEW g \in Elected(f)
    PROVE  /\ g \in File /\ g.version = 3 /\ SoundFile(g)
           /\ g.nodes = f.nodes /\ g.subs = f.subs
<1>1. PICK a : g = [f EXCEPT !.active = a] /\ a \in Ids(f) \cup {None}
  <2>1. \A n \in Dialable(f) : n.id \in Ids(f)
    BY DEF Dialable, Ids
  <2> QED
    BY <2>1 DEF Elected
<1>2. a \in NodeId \cup GroupId \cup {None}
  BY <1>1, FileParts DEF Ids, Node
<1>3. /\ g \in File /\ g.version = 3 /\ g.nodes = f.nodes /\ g.subs = f.subs
      /\ g.routings = f.routings /\ g.routing = f.routing /\ g.active = a
  BY <1>1, <1>2 DEF File
<1>4. Keyed(g) /\ Parented(g) /\ ErrorsMatch(g)
  BY <1>3 DEF Keyed, Parented, ErrorsMatch, SubIds
<1>5. Selects(g)
  BY <1>1, <1>3 DEF Selects, Ids
<1> QED
  BY <1>3, <1>4, <1>5 DEF SoundFile

(* select_node and select_routing.                                         *)
LEMMA SelectKeeps ==
    ASSUME StoreInv, NEW p \in Present, SelectNode(p) \/ SelectRouting(p)
    PROVE  StoreInv'
<1> DEFINE f == LoadProfile(p)
<1>0. /\ f \in File /\ f.version = 3 /\ SoundFile(f) /\ GroupsMeet(f, taken)
  BY StoredFile, LoadedParts DEF LoadProfile
<1> HIDE DEF f
<1>1. CASE SelectNode(p)
  <2>1. PICK n \in f.nodes : Edit(p, [f EXCEPT !.active = n.id])
    BY <1>1 DEF SelectNode, f
  <2> DEFINE g == [f EXCEPT !.active = n.id]
  <2>2. n.id \in NodeId \cup GroupId /\ n.id \in Ids(f)
    BY <1>0, <2>1, FileParts DEF Node, Ids
  <2>3. /\ g \in File /\ g.version = 3 /\ g.nodes = f.nodes /\ g.subs = f.subs
        /\ g.routings = f.routings /\ g.routing = f.routing /\ g.active = n.id
    BY <1>0, <2>2 DEF File
  <2>4. Edit(p, g)
    BY <2>1
  <2> HIDE DEF g
  <2>5. SoundFile(g)
    BY <1>0, <2>2, <2>3 DEF SoundFile, Keyed, Selects, Parented, ErrorsMatch, SubIds, Ids
  <2>6. GroupsMeet(g, taken \cup {})
    BY <1>0, <2>3, GroupsOfNodes
  <2> QED
    BY <2>3, <2>4, <2>5, <2>6, EditSame DEF Edit, f
<1>2. CASE SelectRouting(p)
  <2>1. PICK r \in f.routings : Edit(p, [f EXCEPT !.routing = r.id])
    BY <1>2 DEF SelectRouting, f
  <2> DEFINE g == [f EXCEPT !.routing = r.id]
  <2>2. r.id \in RoutingId
    BY <1>0, <2>1, FileParts
  <2>3. /\ g \in File /\ g.version = 3 /\ g.nodes = f.nodes /\ g.subs = f.subs
        /\ g.routings = f.routings /\ g.routing = r.id /\ g.active = f.active
    BY <1>0, <2>2 DEF File
  <2>4. Edit(p, g)
    BY <2>1
  <2> HIDE DEF g
  <2>5. SoundFile(g)
    BY <1>0, <2>1, <2>3 DEF SoundFile, Keyed, Selects, Parented, ErrorsMatch, SubIds, Ids
  <2>6. GroupsMeet(g, taken \cup {})
    BY <1>0, <2>3, GroupsOfNodes
  <2> QED
    BY <2>3, <2>4, <2>5, <2>6, EditSame DEF Edit, f
<1> QED
  BY <1>1, <1>2

(* add_node: a fresh id, a node of no subscription.                        *)
LEMMA AddNodeKeeps ==
    ASSUME StoreInv, NEW p \in Present, AddNode(p)
    PROVE  StoreInv'
<1> DEFINE f == LoadProfile(p)
<1>0. /\ f \in File /\ f.version = 3 /\ SoundFile(f) /\ GroupsMeet(f, taken)
      /\ f.nodes = files[p].nodes
  BY StoredFile, LoadedParts DEF LoadProfile
<1> HIDE DEF f
<1>1. PICK i \in FreshNode, k \in Key :
         \E g \in Elected([f EXCEPT !.nodes = @ \cup {NewNode(i, None, k)}]) : Edit(p, g)
  BY DEF AddNode, f
<1> DEFINE n == NewNode(i, None, k)
           h == [f EXCEPT !.nodes = @ \cup {n}]
<1>2. /\ n \in Node /\ n.id = i /\ n.sub = None /\ n.key = k /\ i \in NodeId
      /\ i \notin Ids(f)
  BY <1>0, <1>1 DEF NewNode, Node, FreshNode, Ids
<1>3. PICK g \in Elected(h) : Edit(p, g)
  BY <1>1
<1>4. /\ h \in File /\ h.version = 3 /\ h.nodes = f.nodes \cup {n} /\ h.subs = f.subs
      /\ h.routings = f.routings /\ h.routing = f.routing
  BY <1>0, <1>2 DEF File
<1>5. ~IsGroup(n) /\ Shaped(n)
  BY <1>2 DEF IsGroup, Shaped
<1> HIDE DEF n, h
<1>6. Keyed(h)
  BY <1>0, <1>2, <1>4 DEF SoundFile, Keyed, Ids
<1>7. /\ \A m \in h.nodes : Shaped(m)
      /\ Parented(h) /\ ErrorsMatch(h)
      /\ h.routing \in {r.id : r \in h.routings} \cup {None}
  BY <1>0, <1>2, <1>4, <1>5 DEF SoundFile, Parented, ErrorsMatch, Selects, SubIds
<1>8. GroupsMeet(h, taken)
  BY <1>0, <1>4, <1>5 DEF GroupsMeet, DialableOf, Dialable
<1>9. /\ g \in File /\ g.version = 3 /\ SoundFile(g) /\ g.nodes = h.nodes /\ g.subs = h.subs
  BY <1>3, <1>4, <1>6, <1>7, ElectedSound
<1>10. GroupsMeet(g, taken \cup {})
  BY <1>8, <1>9, GroupsOfNodes
<1> QED
  BY <1>3, <1>4, <1>9, <1>10, EditSame DEF Edit, f

(* remove_node: a selection of it is cleared, and its id remembered while  *)
(* a group lists it.                                                       *)
LEMMA RemoveNodeKeeps ==
    ASSUME StoreInv, NEW p \in Present, RemoveNode(p)
    PROVE  StoreInv'
<1> DEFINE f == LoadProfile(p)
<1>0. /\ f \in File /\ f.version = 3 /\ SoundFile(f) /\ GroupsMeet(f, taken)
  BY StoredFile, LoadedParts DEF LoadProfile
<1> HIDE DEF f
<1>1. PICK n \in f.nodes :
         /\ Save(p, [f EXCEPT !.nodes = {m \in @ : m.id # n.id},
                              !.active = IF @ = n.id THEN None ELSE @], {n.id} \cap NodeId)
         /\ notices' = {} /\ UNCHANGED chosen
  BY DEF RemoveNode, f
<1> DEFINE g == [f EXCEPT !.nodes = {m \in @ : m.id # n.id},
                          !.active = IF @ = n.id THEN None ELSE @]
<1>2. /\ g \in File /\ g.version = 3 /\ g.nodes = {m \in f.nodes : m.id # n.id}
      /\ g.subs = f.subs /\ g.routings = f.routings /\ g.routing = f.routing
      /\ g.active = IF f.active = n.id THEN None ELSE f.active
  BY <1>0 DEF File
<1>3. Save(p, g, {n.id} \cap NodeId) /\ notices' = {} /\ UNCHANGED chosen
  BY <1>1
<1> HIDE DEF g
<1>4. SoundFile(g)
  BY <1>0, <1>2 DEF SoundFile, Keyed, Selects, Parented, ErrorsMatch, SubIds, Ids
<1>5. GroupsMeet(g, taken \cup ({n.id} \cap NodeId))
  <2> SUFFICES ASSUME NEW h \in g.nodes, IsGroup(h), h.sub # None, NEW i \in h.members,
                      i \notin taken, i \notin {n.id} \cap NodeId
               PROVE  i \in DialableOf(g, h.sub)
    BY DEF GroupsMeet
  <2>1. i \in DialableOf(f, h.sub)
    BY <1>0, <1>2 DEF GroupsMeet
  <2>2. PICK m \in f.nodes : ~IsGroup(m) /\ m.sub = h.sub /\ m.id = i
    BY <2>1 DEF DialableOf, Dialable
  <2>3. m.id \in NodeId
    BY <1>0, <2>2 DEF SoundFile, Shaped
  <2> QED
    BY <1>2, <2>2, <2>3 DEF DialableOf, Dialable
<1> QED
  BY <1>2, <1>3, <1>4, <1>5, EditSame DEF f

(* set_node_prefs: the node keeps its id, its subscription and its key.    *)
LEMMA SetNodePrefsKeeps ==
    ASSUME StoreInv, NEW p \in Present, SetNodePrefs(p)
    PROVE  StoreInv'
<1> DEFINE f == LoadProfile(p)
<1>0. /\ f \in File /\ f.version = 3 /\ SoundFile(f) /\ GroupsMeet(f, taken)
  BY StoredFile, LoadedParts DEF LoadProfile
<1> HIDE DEF f
<1>1. PICK n \in Dialable(f), c \in Core \cup {None} :
         Edit(p, [f EXCEPT !.nodes = (@ \ {n}) \cup {[n EXCEPT !.pin = c]}])
  BY DEF SetNodePrefs, f
<1> DEFINE m == [n EXCEPT !.pin = c]
           g == [f EXCEPT !.nodes = (@ \ {n}) \cup {m}]
<1>2. n \in f.nodes /\ ~IsGroup(n) /\ n \in Node
  BY <1>0, <1>1, FileParts DEF Dialable
<1>3. m \in Node /\ m.id = n.id /\ m.sub = n.sub /\ m.key = n.key
  BY <1>1, <1>2 DEF Node
<1> HIDE DEF m
<1>4. /\ g \in File /\ g.version = 3 /\ g.nodes = (f.nodes \ {n}) \cup {m}
      /\ g.subs = f.subs /\ g.routings = f.routings /\ g.routing = f.routing
      /\ g.active = f.active
  BY <1>0, <1>3 DEF File
<1>5. Edit(p, g)
  BY <1>1 DEF m
<1> HIDE DEF g
<1>6. Keyed(g)
  BY <1>0, <1>2, <1>3, <1>4 DEF SoundFile, Keyed
<1>7. Ids(g) = Ids(f)
  BY <1>2, <1>3, <1>4 DEF Ids
<1>8. SoundFile(g)
  BY <1>0, <1>2, <1>3, <1>4, <1>6, <1>7
     DEF SoundFile, Selects, Parented, ErrorsMatch, SubIds, Shaped, IsGroup
<1>9. \A s : DialableOf(f, s) \subseteq DialableOf(g, s)
  BY <1>2, <1>3, <1>4 DEF DialableOf, Dialable, IsGroup
<1>10. GroupsMeet(g, taken \cup {})
  BY <1>0, <1>2, <1>3, <1>4, <1>9 DEF GroupsMeet, IsGroup
<1> QED
  BY <1>4, <1>5, <1>8, <1>10, EditSame DEF Edit, f

(* upsert_group: a group of the user's own, over no node's id but its own. *)
LEMMA UpsertGroupKeeps ==
    ASSUME StoreInv, NEW p \in Present, UpsertGroup(p)
    PROVE  StoreInv'
<1> DEFINE f == LoadProfile(p)
           own == {n.id : n \in {m \in f.nodes : IsGroup(m) /\ m.sub = None}}
<1>0. /\ f \in File /\ f.version = 3 /\ SoundFile(f) /\ GroupsMeet(f, taken)
      /\ f.nodes = files[p].nodes
  BY StoredFile, LoadedParts DEF LoadProfile
<1>1. PICK u \in [id : FreshNode \cup own, sub : {None}, key : GName, pin : {None},
                  members : SUBSET {n.id : n \in Dialable(f)},
                  ofSub : SubIds(f) \cup {None}] :
         Edit(p, [f EXCEPT !.nodes = {m \in @ : m.id # u.id} \cup {u}])
  BY DEF UpsertGroup
<1> HIDE DEF f
<1> DEFINE g == [f EXCEPT !.nodes = {m \in @ : m.id # u.id} \cup {u}]
<1>2. /\ u.id \in NodeId /\ u.sub = None /\ u.key \in GName
      /\ \A m \in f.nodes : m.id = u.id => IsGroup(m) /\ m.sub = None
  BY <1>0, <1>1 DEF FreshNode, Ids, SoundFile, Keyed, Shaped
<1>3. {n.id : n \in Dialable(f)} \subseteq NodeId /\ SubIds(f) \subseteq SubId
  BY <1>0, FileParts DEF Dialable, SoundFile, Shaped, SubIds, Subscription
<1>4. u \in Node
  BY <1>1, <1>2, <1>3 DEF Node
<1>5. /\ g \in File /\ g.version = 3 /\ g.nodes = {m \in f.nodes : m.id # u.id} \cup {u}
      /\ g.subs = f.subs /\ g.routings = f.routings /\ g.routing = f.routing
      /\ g.active = f.active
  BY <1>0, <1>4 DEF File
<1>6. Edit(p, g)
  BY <1>1
<1> HIDE DEF g, own
<1>7. Keyed(g)
  BY <1>0, <1>2, <1>5 DEF SoundFile, Keyed
<1>8. Ids(f) \subseteq Ids(g)
  BY <1>5 DEF Ids
<1>9. SoundFile(g)
  BY <1>0, <1>2, <1>5, <1>7, <1>8
     DEF SoundFile, Selects, Parented, ErrorsMatch, SubIds, Shaped, IsGroup
<1>10. \A s : DialableOf(f, s) \subseteq DialableOf(g, s)
  BY <1>2, <1>5 DEF DialableOf, Dialable
<1>11. GroupsMeet(g, taken \cup {})
  BY <1>0, <1>2, <1>5, <1>10 DEF GroupsMeet
<1> QED
  BY <1>5, <1>6, <1>9, <1>11, EditSame DEF Edit, f

(* upsert_routing and remove_routing.                                      *)
LEMMA RoutingKeeps ==
    ASSUME StoreInv, NEW p \in Present, UpsertRouting(p) \/ RemoveRouting(p)
    PROVE  StoreInv'
<1> DEFINE f == LoadProfile(p)
<1>0. /\ f \in File /\ f.version = 3 /\ SoundFile(f) /\ GroupsMeet(f, taken)
  BY StoredFile, LoadedParts DEF LoadProfile
<1> HIDE DEF f
<1>1. SUFFICES ASSUME NEW g \in File, g.version = 3, Edit(p, g),
                      g.nodes = f.nodes, g.subs = f.subs, g.active = f.active,
                      \A r, q \in g.routings : r.id = q.id \/ r.name = q.name => r = q,
                      g.routing \in {r.id : r \in g.routings} \cup {None}
               PROVE  StoreInv'
  <2>1. CASE UpsertRouting(p)
    <3>1. PICK i \in RoutingId, m \in RName :
             /\ \A r \in f.routings : r.id # i => r.name # m
             /\ Edit(p, [f EXCEPT !.routings = {r \in @ : r.id # i} \cup {[id |-> i, name |-> m]}])
      BY <2>1 DEF UpsertRouting, f
    <3> DEFINE new == [id |-> i, name |-> m]
               h == [f EXCEPT !.routings = {r \in @ : r.id # i} \cup {new}]
    <3>2. /\ h \in File /\ h.version = 3 /\ h.nodes = f.nodes /\ h.subs = f.subs
          /\ h.active = f.active /\ h.routing = f.routing
          /\ h.routings = {r \in f.routings : r.id # i} \cup {new}
      BY <1>0 DEF File
    <3>3. new.id = i /\ new.name = m
      OBVIOUS
    <3>4. Edit(p, h)
      BY <3>1
    <3> HIDE DEF h, new
    <3>5. \A r, q \in h.routings : r.id = q.id \/ r.name = q.name => r = q
      BY <1>0, <3>1, <3>2, <3>3 DEF SoundFile, Keyed
    <3>6. h.routing \in {r.id : r \in h.routings} \cup {None}
      BY <1>0, <3>2, <3>3 DEF SoundFile, Selects
    <3> QED
      BY <1>1, <3>2, <3>4, <3>5, <3>6
  <2>2. CASE RemoveRouting(p)
    <3>1. PICK r \in f.routings :
             Edit(p, [f EXCEPT !.routings = @ \ {r},
                               !.routing = IF @ = r.id THEN None ELSE @])
      BY <2>2 DEF RemoveRouting, f
    <3> DEFINE h == [f EXCEPT !.routings = @ \ {r},
                              !.routing = IF @ = r.id THEN None ELSE @]
    <3>2. /\ h \in File /\ h.version = 3 /\ h.nodes = f.nodes /\ h.subs = f.subs
          /\ h.active = f.active /\ h.routings = f.routings \ {r}
          /\ h.routing = IF f.routing = r.id THEN None ELSE f.routing
      BY <1>0 DEF File
    <3>3. Edit(p, h)
      BY <3>1
    <3> HIDE DEF h
    <3>4. \A t, q \in h.routings : t.id = q.id \/ t.name = q.name => t = q
      BY <1>0, <3>2 DEF SoundFile, Keyed
    <3>5. h.routing \in {t.id : t \in h.routings} \cup {None}
      BY <1>0, <3>2 DEF SoundFile, Selects
    <3> QED
      BY <1>1, <3>2, <3>3, <3>4, <3>5
  <2> QED
    BY <2>1, <2>2
<1>2. SoundFile(g)
  BY <1>0, <1>1 DEF SoundFile, Keyed, Selects, Parented, ErrorsMatch, SubIds, Ids
<1>3. GroupsMeet(g, taken \cup {})
  BY <1>0, <1>1, GroupsOfNodes
<1> QED
  BY <1>1, <1>2, <1>3, EditSame DEF Edit, f

-----------------------------------------------------------------------------
(* The refresh.                                                            *)

(* reconcile, of one parsed node: its subscription, key and members are    *)
(* the parsed ones; its id and pin are those of the stored node it matches.*)
LEMMA CarriedParts ==
    ASSUME NEW f \in File, NEW s \in SubId, NEW m \in Node, m.sub = s
    PROVE  /\ Carried(f, s, m) \in Node /\ Carried(f, s, m).sub = s
           /\ Carried(f, s, m).key = m.key /\ Carried(f, s, m).members = m.members
           /\ \/ Matching(f, s, m) = {} /\ Carried(f, s, m).id = m.id
              \/ \E o \in f.nodes : /\ o.sub = s /\ o.key = m.key
                                    /\ Carried(f, s, m).id = o.id
                                    /\ Carried(f, s, m).pin = o.pin
<1>1. CASE Matching(f, s, m) = {}
  BY <1>1 DEF Carried
<1>2. CASE Matching(f, s, m) # {}
  <2> DEFINE o == CHOOSE o \in Matching(f, s, m) : TRUE
  <2>1. o \in Matching(f, s, m)
    BY <1>2
  <2>2. o \in f.nodes /\ o.sub = s /\ o.key = m.key
    BY <2>1 DEF Matching
  <2>3. Carried(f, s, m) = [m EXCEPT !.id = o.id, !.pin = o.pin]
    BY <1>2 DEF Carried
  <2> HIDE DEF o
  <2>4. o \in Node
    BY <2>2, FileParts
  <2>5. o.id \in NodeId \cup GroupId /\ o.pin \in Core \cup {None}
    BY <2>4 DEF Node
  <2>6. /\ Carried(f, s, m) \in Node /\ Carried(f, s, m).sub = m.sub
        /\ Carried(f, s, m).key = m.key /\ Carried(f, s, m).members = m.members
        /\ Carried(f, s, m).id = o.id /\ Carried(f, s, m).pin = o.pin
    BY <2>3, <2>5 DEF Node
  <2> QED
    BY <2>2, <2>6
<1> QED
  BY <1>1, <1>2

(* A node the refresh of subscription s stores, in terms of the file it    *)
(* found: a dialable one has the id and pin it had, or the minted id if it *)
(* is new; a group has the id it had or the derived one, and lists         *)
(* dialable nodes of s.                                                    *)
Refreshes(f, s, body, mint, new, n) ==
    /\ n \in Node /\ n.sub = s /\ Shaped(n)
    /\ \A o \in f.nodes : o.sub = s /\ o.key = n.key => n.id = o.id /\ n.pin = o.pin
    /\ \/ /\ n.key \in body.keys /\ ~IsGroup(n)
          /\ \/ n.id = mint[<<s, n.key>>]
             \/ \E o \in f.nodes : o.sub = s /\ o.key = n.key
       \/ /\ IsGroup(n)
          /\ n.id = <<s, n.key>> \/ \E o \in f.nodes : o.sub = s /\ o.key = n.key
          /\ \A i \in n.members : \E m \in new : ~IsGroup(m) /\ m.id = i

(* What RefreshedNodes returns: the nodes of the provider's answer, each of *)
(* the subscription, and its groups over them.                              *)
LEMMA RefreshedParts ==
    ASSUME NEW f \in File, SoundFile(f), NEW s \in SubId, NEW body \in Body, NEW mint,
           \A k \in body.keys : mint[<<s, k>>] \in NodeId
    PROVE  LET new == RefreshedNodes(f, s, body, mint)
           IN  /\ \A n \in new : Refreshes(f, s, body, mint, new, n)
               /\ \A m, n \in new : m.key = n.key => m = n
<1> DEFINE fresh(k) == NewNode(mint[<<s, k>>], s, k)
           dial(k) == Carried(f, s, fresh(k))
           parsed == {dial(k) : k \in body.keys}
           Named == {h \in GName : body.groups[h] # {}}
           made(g) == [NewNode(<<s, g>>, s, g) EXCEPT !.members = MembersOf(body, g, parsed)]
           group(g) == Carried(f, s, made(g))
           new == RefreshedNodes(f, s, body, mint)
<1>0. /\ body.keys \subseteq Key /\ s # None
      /\ \A o \in f.nodes : o \in Node /\ Shaped(o)
      /\ \A o, q \in f.nodes : o.sub = s /\ q.sub = s /\ o.key = q.key => o = q
  BY FileParts DEF Outcome, SoundFile, Keyed
<1>1. new = parsed \cup {group(g) : g \in Named}
  <2>1. parsed = reconcile(f, s, {NewNode(mint[<<s, k>>], s, k) : k \in body.keys})
    BY DEF reconcile
  <2>2. {group(g) : g \in Named} = reconcile(f, s, materializeGroups(s, body, parsed))
    BY DEF reconcile, materializeGroups
  <2> HIDE DEF parsed
  <2> QED
    BY <2>1, <2>2 DEF RefreshedNodes
<1>2. \A k \in body.keys :
             /\ dial(k) \in Node /\ dial(k).sub = s /\ dial(k).key = k
             /\ ~IsGroup(dial(k)) /\ Shaped(dial(k)) /\ dial(k).id \in NodeId
             /\ \A o \in f.nodes : o.sub = s /\ o.key = k => dial(k).id = o.id /\ dial(k).pin = o.pin
             /\ \/ dial(k).id = mint[<<s, k>>]
                \/ \E o \in f.nodes : o.sub = s /\ o.key = k
  <2> SUFFICES ASSUME NEW k \in body.keys
               PROVE  /\ dial(k) \in Node /\ dial(k).sub = s /\ dial(k).key = k
                      /\ ~IsGroup(dial(k)) /\ Shaped(dial(k)) /\ dial(k).id \in NodeId
                      /\ \A o \in f.nodes :
                            o.sub = s /\ o.key = k => dial(k).id = o.id /\ dial(k).pin = o.pin
                      /\ \/ dial(k).id = mint[<<s, k>>]
                         \/ \E o \in f.nodes : o.sub = s /\ o.key = k
    OBVIOUS
  <2>1. /\ fresh(k) \in Node /\ fresh(k).id = mint[<<s, k>>] /\ fresh(k).sub = s
        /\ fresh(k).key = k
    BY <1>0 DEF NewNode, Node
  <2> HIDE DEF fresh
  <2>2. /\ dial(k) \in Node /\ dial(k).sub = s /\ dial(k).key = k
        /\ \/ Matching(f, s, fresh(k)) = {} /\ dial(k).id = mint[<<s, k>>]
           \/ \E o \in f.nodes : /\ o.sub = s /\ o.key = k
                                 /\ dial(k).id = o.id /\ dial(k).pin = o.pin
    BY <2>1, CarriedParts
  <2> HIDE DEF dial
  <2>3. ~IsGroup(dial(k)) /\ k \notin GName
    BY <1>0, <2>2 DEF IsGroup
  <2>4. \A o \in f.nodes : o.sub = s /\ o.key = k => o.id \in NodeId
    BY <1>0, <2>3 DEF Shaped, IsGroup
  <2>5. dial(k).id \in NodeId
    BY <2>2, <2>4
  <2>6. \A o \in f.nodes : o.sub = s /\ o.key = k => dial(k).id = o.id /\ dial(k).pin = o.pin
    BY <1>0, <2>1, <2>2 DEF Matching
  <2> QED
    BY <2>2, <2>3, <2>5, <2>6 DEF Shaped
<1> HIDE DEF dial, fresh
<1>3. \A n \in parsed : n.id \in NodeId /\ ~IsGroup(n)
  <2>1. \A k \in body.keys : dial(k).id \in NodeId /\ ~IsGroup(dial(k))
    BY <1>2, Zenon
  <2> QED
    BY <2>1
<1>4. \A k \in body.keys : dial(k).key = k /\ ~IsGroup(dial(k))
  BY <1>2, Zenon
<1>5. \A g \in Named :
             /\ group(g) \in Node /\ group(g).sub = s /\ group(g).key = g
             /\ IsGroup(group(g)) /\ Shaped(group(g))
             /\ group(g).members = MembersOf(body, g, parsed)
             /\ group(g).id = <<s, g>> \/ \E o \in f.nodes : o.sub = s /\ o.key = g
             /\ \A o \in f.nodes : o.sub = s /\ o.key = g => group(g).id = o.id /\ group(g).pin = o.pin
  <2> SUFFICES ASSUME NEW g \in Named
               PROVE  /\ group(g) \in Node /\ group(g).sub = s /\ group(g).key = g
                      /\ IsGroup(group(g)) /\ Shaped(group(g))
                      /\ group(g).members = MembersOf(body, g, parsed)
                      /\ group(g).id = <<s, g>> \/ \E o \in f.nodes : o.sub = s /\ o.key = g
                      /\ \A o \in f.nodes :
                            o.sub = s /\ o.key = g => group(g).id = o.id /\ group(g).pin = o.pin
    OBVIOUS
  <2>1. MembersOf(body, g, parsed) \subseteq NodeId
    BY <1>3 DEF MembersOf
  <2> HIDE DEF parsed
  <2>2. /\ made(g) \in Node /\ made(g).id = <<s, g>> /\ made(g).sub = s /\ made(g).key = g
        /\ made(g).members = MembersOf(body, g, parsed)
    BY <2>1 DEF NewNode, Node, GroupId
  <2> HIDE DEF made
  <2>3. /\ group(g) \in Node /\ group(g).sub = s /\ group(g).key = g
        /\ group(g).members = MembersOf(body, g, parsed)
        /\ \/ Matching(f, s, made(g)) = {} /\ group(g).id = <<s, g>>
           \/ \E o \in f.nodes : /\ o.sub = s /\ o.key = g
                                 /\ group(g).id = o.id /\ group(g).pin = o.pin
    BY <2>2, CarriedParts
  <2> HIDE DEF group
  <2>4. \A o \in f.nodes : o.sub = s /\ o.key = g => o.id \in NodeId \/ o.id = <<s, g>>
    BY <1>0 DEF Shaped
  <2>5. (group(g).id \in NodeId \/ group(g).id = <<s, g>>) /\ IsGroup(group(g))
    BY <2>3, <2>4 DEF IsGroup
  <2>6. \A o \in f.nodes : o.sub = s /\ o.key = g => group(g).id = o.id /\ group(g).pin = o.pin
    BY <1>0, <2>2, <2>3 DEF Matching
  <2> QED
    BY <1>0, <2>3, <2>5, <2>6 DEF Shaped
<1>7. \A g \in Named : \A i \in MembersOf(body, g, parsed) : \E m \in parsed : m.id = i
  BY DEF MembersOf
<1>6. \A g \in Named : group(g).key = g /\ IsGroup(group(g)) /\ group(g).members = MembersOf(body, g, parsed)
  BY <1>5, Zenon
<1> HIDE DEF made, group, new, Named
<1> HIDE DEF parsed
<1>8. /\ \A k \in body.keys : dial(k) \in new
      /\ \A n \in new : (\E k \in body.keys : n = dial(k)) \/ (\E g \in Named : n = group(g))
      /\ \A m \in parsed : m \in new
  BY <1>1 DEF parsed
<1>9. ASSUME NEW n \in new PROVE Refreshes(f, s, body, mint, new, n)
  <2>1. CASE \E k \in body.keys : n = dial(k)
    <3>1. PICK k \in body.keys : n = dial(k)
      BY <2>1
    <3>2. /\ n \in Node /\ n.sub = s /\ n.key = k /\ ~IsGroup(n) /\ Shaped(n)
          /\ \A o \in f.nodes : o.sub = s /\ o.key = k => n.id = o.id /\ n.pin = o.pin
          /\ \/ n.id = mint[<<s, k>>]
             \/ \E o \in f.nodes : o.sub = s /\ o.key = k
      BY <1>2, <3>1, Zenon
    <3> QED
      BY <3>2 DEF Refreshes
  <2>2. CASE \E g \in Named : n = group(g)
    <3>1. PICK g \in Named : n = group(g)
      BY <2>2
    <3>2. /\ n \in Node /\ n.sub = s /\ n.key = g /\ IsGroup(n) /\ Shaped(n)
          /\ n.members = MembersOf(body, g, parsed)
          /\ n.id = <<s, g>> \/ \E o \in f.nodes : o.sub = s /\ o.key = g
          /\ \A o \in f.nodes : o.sub = s /\ o.key = g => n.id = o.id /\ n.pin = o.pin
      BY <1>5, <3>1, Zenon
    <3>3. \A i \in n.members : \E m \in new : ~IsGroup(m) /\ m.id = i
      BY <1>7, <1>3, <1>8, <3>2, Zenon
    <3> QED
      BY <3>2, <3>3 DEF Refreshes
  <2> QED
    BY <1>8, <2>1, <2>2
<1>10. ASSUME NEW m \in new, NEW n \in new, m.key = n.key PROVE m = n
  <2>1. \A x \in new : \/ IsGroup(x) /\ x = group(x.key)
                       \/ ~IsGroup(x) /\ x = dial(x.key)
    BY <1>4, <1>6, <1>8
  <2> QED
    BY <1>10, <2>1 DEF IsGroup
<1> QED
  BY <1>9, <1>10 DEF new

(* A derived id is no UUID.                                                *)
LEMMA DerivedId ==
    ASSUME NEW s \in SubId, NEW g \in GName
    PROVE  <<s, g>> \in GroupId /\ <<s, g>> \notin NodeId
BY DEF GroupId

(* The ids of the nodes two subscriptions' refreshes store, and of those   *)
(* they leave alone, never meet: minted ids are new and used once, derived *)
(* and carried ones stay with their subscription and key.                  *)
Stores(f, ok, body, mint, new, nodes) ==
    /\ \A n \in nodes : IF n.sub \in ok THEN n \in new[n.sub] ELSE n \in f.nodes
    /\ \A s \in ok : \A n \in new[s] :
          /\ n.sub = s
          /\ \A o \in f.nodes : o.sub = s /\ o.key = n.key => n.id = o.id
          /\ \/ n.key \in body[s] /\ n.id = mint[s][n.key]
             \/ n.key \in GName /\ n.id = <<s, n.key>>
             \/ \E o \in f.nodes : o.sub = s /\ o.key = n.key
    /\ \A s \in ok : \A m, n \in new[s] : m.key = n.key => m = n
    /\ \A s \in ok : \A k \in body[s] : mint[s][k] \in NodeId /\ mint[s][k] \notin Ids(f)
    /\ \A s, t \in ok : \A k \in body[s], l \in body[t] :
          mint[s][k] = mint[t][l] => s = t /\ k = l

(* After a refresh every node still has an id of its own, and a            *)
(* subscription one node for each key.                                     *)
LEMMA ApplyKeyed ==
    ASSUME NEW f \in File, SoundFile(f), NEW ok \in SUBSET SubId, NEW body, NEW mint, NEW new,
           NEW nodes, Stores(f, ok, body, mint, new, nodes)
    PROVE  \A m, n \in nodes :
              m.id = n.id \/ (m.sub # None /\ m.sub = n.sub /\ m.key = n.key) => m = n
<1>0. /\ \A n \in nodes : IF n.sub \in ok THEN n \in new[n.sub] ELSE n \in f.nodes
      /\ \A s \in ok : \A n \in new[s] :
            /\ n.sub = s
            /\ \A o \in f.nodes : o.sub = s /\ o.key = n.key => n.id = o.id
            /\ \/ n.key \in body[s] /\ n.id = mint[s][n.key]
               \/ n.key \in GName /\ n.id = <<s, n.key>>
               \/ \E o \in f.nodes : o.sub = s /\ o.key = n.key
      /\ \A s \in ok : \A m, n \in new[s] : m.key = n.key => m = n
      /\ \A s \in ok : \A k \in body[s] : mint[s][k] \in NodeId /\ mint[s][k] \notin Ids(f)
      /\ \A s, t \in ok : \A k \in body[s], l \in body[t] :
            mint[s][k] = mint[t][l] => s = t /\ k = l
  BY DEF Stores
<1>1. /\ \A m, n \in f.nodes :
            m.id = n.id \/ (m.sub # None /\ m.sub = n.sub /\ m.key = n.key) => m = n
      /\ \A n \in f.nodes : Shaped(n) /\ n.id \in Ids(f)
  BY DEF SoundFile, Keyed, Ids
<1> DEFINE Carry(n) == \E o \in f.nodes : o.sub = n.sub /\ o.key = n.key /\ o.id = n.id
           Mint(n) == n.key \in body[n.sub] /\ n.id = mint[n.sub][n.key]
           Derive(n) == n.key \in GName /\ n.id = <<n.sub, n.key>>
<1>2. ASSUME NEW n \in nodes, n.sub \in ok
      PROVE  \/ Carry(n)
             \/ Mint(n) /\ n.id \in NodeId /\ n.id \notin Ids(f)
             \/ Derive(n) /\ n.id \notin NodeId /\ n.id \notin Ids(f)
  <2>1. /\ n \in new[n.sub] /\ n.sub \in SubId
        /\ \A o \in f.nodes : o.sub = n.sub /\ o.key = n.key => n.id = o.id
        /\ \/ Mint(n) \/ Derive(n)
           \/ \E o \in f.nodes : o.sub = n.sub /\ o.key = n.key
    BY <1>0, <1>2
  <2>2. CASE \E o \in f.nodes : o.sub = n.sub /\ o.key = n.key
    BY <2>1, <2>2
  <2>3. CASE Mint(n)
    BY <1>0, <1>2, <2>3
  <2>4. CASE Derive(n) /\ ~ \E o \in f.nodes : o.sub = n.sub /\ o.key = n.key
    <3>1. n.id \notin NodeId
      BY <2>1, <2>4, DerivedId
    <3>2. ASSUME NEW o \in f.nodes, o.id = n.id PROVE FALSE
      <4>1. o.id = <<o.sub, o.key>>
        BY <1>1, <3>1, <3>2 DEF Shaped
      <4> QED
        BY <2>4, <3>2, <4>1
    <3> QED
      BY <2>4, <3>1, <3>2 DEF Ids
  <2> QED
    BY <2>1, <2>2, <2>3, <2>4
<1>3. ASSUME NEW n \in nodes, NEW m \in nodes, n.sub \notin ok, m.sub \in ok PROVE m.id # n.id
  <2>1. n \in f.nodes /\ n.id \in Ids(f)
    BY <1>0, <1>1, <1>3
  <2> QED
    BY <1>1, <1>2, <1>3, <2>1
<1>4. ASSUME NEW n \in nodes, NEW m \in nodes, n.sub \in ok, m.sub \in ok, m.id = n.id
      PROVE  m = n
  <2>1. SUFFICES m.sub = n.sub /\ m.key = n.key
    BY <1>0, <1>4
  <2>2. \A x \in {m, n} : Carry(x) => x.id \in Ids(f)
    BY <1>1
  <2>3. CASE Carry(m)
    <3>1. Carry(n)
      BY <1>2, <1>4, <2>2, <2>3
    <3> QED
      BY <1>1, <1>4, <2>3, <3>1
  <2>4. CASE Mint(m) /\ m.id \in NodeId /\ m.id \notin Ids(f)
    <3>1. Mint(n)
      BY <1>2, <1>4, <2>2, <2>4
    <3>2. ASSUME NEW s \in ok, NEW t \in ok, NEW k \in body[s], NEW l \in body[t],
                 mint[s][k] = mint[t][l]
          PROVE  s = t /\ k = l
      BY <1>0, <3>2
    <3>3. /\ m.sub \in ok /\ m.key \in body[m.sub] /\ n.sub \in ok /\ n.key \in body[n.sub]
          /\ mint[m.sub][m.key] = mint[n.sub][n.key]
      BY <1>4, <2>4, <3>1
    <3> HIDE DEF Carry, Mint, Derive
    <3> QED
      BY <3>2, <3>3
  <2>5. CASE Derive(m) /\ m.id \notin NodeId /\ m.id \notin Ids(f)
    <3>1. Derive(n)
      BY <1>2, <1>4, <2>2, <2>5
    <3>2. <<m.sub, m.key>> = <<n.sub, n.key>>
      BY <1>4, <2>5, <3>1, Zenon
    <3> QED
      BY <3>2
  <2> QED
    BY <1>2, <1>4, <2>3, <2>4, <2>5
<1> HIDE DEF Carry, Mint, Derive
<1>5. ASSUME NEW n \in nodes, NEW m \in nodes, m.sub # None, m.sub = n.sub, m.key = n.key
      PROVE  m = n
  <2>1. CASE m.sub \in ok
    BY <1>0, <1>5, <2>1
  <2>2. CASE m.sub \notin ok
    BY <1>0, <1>1, <1>5, <2>2
  <2> QED
    BY <2>1, <2>2
<1>6. ASSUME NEW n \in nodes, NEW m \in nodes, n.sub \notin ok, m.sub \notin ok, m.id = n.id
      PROVE  m = n
  BY <1>0, <1>1, <1>6
<1> QED
  BY <1>3, <1>4, <1>5, <1>6

(* What a fetch returns and what its nodes are minted, as Apply needs it:  *)
(* the subscriptions are in the file, the URLs fetched are theirs, and the *)
(* minted ids are new to the file, each used once.                         *)
Fetched(f, from, out, mint) ==
    /\ out \in [DOMAIN out -> Body \cup {None}] /\ DOMAIN out \subseteq SubIds(f)
    /\ \A s \in f.subs : s.id \in DOMAIN out => from[s.id] = s.url
    /\ \A s \in Landed(out) : \A k \in out[s].keys :
          mint[<<s, k>>] \in NodeId /\ mint[<<s, k>>] \notin Ids(f)
    /\ \A s, t \in Landed(out) : \A k \in out[s].keys, l \in out[t].keys :
          mint[<<s, k>>] = mint[<<t, l>>] => s = t /\ k = l

(* Apply to a sound file: the file is sound, groups still resolve, every   *)
(* subscription keeps its id and interval, and a node that matches a       *)
(* stored one has its id and its pin.                                      *)
LEMMA ApplySound ==
    ASSUME NEW f \in File, f.version = 3, SoundFile(f), NEW gone, GroupsMeet(f, gone),
           NEW from, NEW out, NEW mint, Fetched(f, from, out, mint),
           NEW g \in Apply(f, from, out, mint)
    PROVE  /\ g \in File /\ g.version = 3 /\ SoundFile(g) /\ GroupsMeet(g, gone)
           /\ SubIds(g) = SubIds(f)
           /\ \A t \in g.subs : \E s \in f.subs : s.id = t.id /\ s.interval = t.interval
           /\ \A o \in f.nodes, n \in g.nodes :
                 o.sub # None /\ o.sub = n.sub /\ o.key = n.key => n.id = o.id /\ n.pin = o.pin
<1> DEFINE ok == Landed(out)
           upd(s) == IF s.id \in DOMAIN out
                     THEN [s EXCEPT !.error = IF s.id \in ok THEN None ELSE from[s.id]]
                     ELSE s
           new(s) == RefreshedNodes(f, s, out[s], mint)
           N == {n \in f.nodes : n.sub \notin ok} \cup UNION {new(s) : s \in ok}
           S == {upd(s) : s \in f.subs}
           h == [f EXCEPT !.subs = S, !.nodes = N]
<1>0. g \in IF ok = {} THEN {h} ELSE Elected(h)
  BY DEF Apply
<1>1. /\ ok \subseteq SubId /\ ok \subseteq SubIds(f) /\ None \notin ok
      /\ \A s \in ok : out[s] \in Body
  BY FileParts DEF Landed, Fetched, SubIds, Subscription
<1>2. \A s \in f.subs : /\ upd(s) \in Subscription /\ upd(s).id = s.id /\ upd(s).url = s.url
                        /\ upd(s).interval = s.interval /\ upd(s).error \in {None, s.url}
  <2> SUFFICES ASSUME NEW s \in f.subs
               PROVE  /\ upd(s) \in Subscription /\ upd(s).id = s.id /\ upd(s).url = s.url
                      /\ upd(s).interval = s.interval /\ upd(s).error \in {None, s.url}
    OBVIOUS
  <2>1. s \in Subscription /\ s.error \in {None, s.url} /\ s.url \in Url
    BY FileParts DEF SoundFile, ErrorsMatch, Subscription
  <2>2. s.id \in DOMAIN out => from[s.id] = s.url
    BY DEF Fetched
  <2> HIDE DEF ok
  <2> QED
    BY <2>1, <2>2 DEF Subscription
<1>3. \A s \in ok : /\ \A n \in new(s) : Refreshes(f, s, out[s], mint, new(s), n)
                    /\ \A m, n \in new(s) : m.key = n.key => m = n
  <2> SUFFICES ASSUME NEW s \in ok
               PROVE  /\ \A n \in new(s) : Refreshes(f, s, out[s], mint, new(s), n)
                      /\ \A m, n \in new(s) : m.key = n.key => m = n
    OBVIOUS
  <2>1. \A k \in out[s].keys : mint[<<s, k>>] \in NodeId
    BY DEF Fetched
  <2>2. s \in SubId /\ out[s] \in Body
    BY <1>1
  <2> HIDE DEF ok
  <2> QED
    BY <2>1, <2>2, RefreshedParts
<1> HIDE DEF ok, new, upd
<1>4. N \subseteq Node /\ S \subseteq Subscription
  <2>1. \A s \in ok : \A n \in new(s) : n \in Node
    BY <1>3 DEF Refreshes
  <2> QED
    BY <1>2, <2>1, FileParts
<1> HIDE DEF N, S
<1>5. /\ h \in File /\ h.version = 3 /\ h.nodes = N /\ h.subs = S /\ h.active = f.active
      /\ h.routings = f.routings /\ h.routing = f.routing
  BY <1>4 DEF File
<1> HIDE DEF h
<1>6. /\ SubIds(h) = SubIds(f)
      /\ \A t \in h.subs : \E s \in f.subs : s.id = t.id /\ s.interval = t.interval
      /\ ErrorsMatch(h)
      /\ \A s, t \in h.subs : s.id = t.id => s = t
  <2>1. \A s, t \in f.subs : s.id = t.id => s = t
    BY DEF SoundFile, Keyed
  <2>2. /\ \A t \in h.subs : \E s \in f.subs : t = upd(s)
        /\ \A s \in f.subs : upd(s) \in h.subs
    BY <1>5 DEF S
  <2> QED
    BY <1>2, <2>1, <2>2 DEF SubIds, ErrorsMatch
<1>7. /\ \A n \in h.nodes : n.sub \notin ok => n \in f.nodes
      /\ \A n \in h.nodes : n.sub \in ok => n \in new(n.sub)
      /\ \A n \in f.nodes : n.sub \notin ok => n \in h.nodes
      /\ \A s \in ok : \A n \in new(s) : n \in h.nodes /\ n.sub = s
  <2>1. \A s \in ok : \A n \in new(s) : n.sub = s
    BY <1>3 DEF Refreshes
  <2> QED
    BY <1>5, <2>1 DEF N
<1>8. \A m, n \in h.nodes :
         m.id = n.id \/ (m.sub # None /\ m.sub = n.sub /\ m.key = n.key) => m = n
  <2> DEFINE body == [s \in ok |-> out[s].keys]
             id == [s \in ok |-> [k \in Key |-> mint[<<s, k>>]]]
             stored == [s \in ok |-> new(s)]
  <2>1. \A s \in ok : body[s] = out[s].keys /\ stored[s] = new(s) /\ body[s] \subseteq Key
    BY <1>1 DEF Outcome
  <2>2. \A s \in ok : \A k \in body[s] : id[s][k] = mint[<<s, k>>]
    BY <2>1
  <2> HIDE DEF body, id, stored
  <2>3. \A s \in ok : \A n \in stored[s] :
           /\ n.sub = s
           /\ \A o \in f.nodes : o.sub = s /\ o.key = n.key => n.id = o.id
           /\ \/ n.key \in body[s] /\ n.id = id[s][n.key]
              \/ n.key \in GName /\ n.id = <<s, n.key>>
              \/ \E o \in f.nodes : o.sub = s /\ o.key = n.key
    <3> SUFFICES ASSUME NEW s \in ok, NEW n \in new(s)
                 PROVE  /\ n.sub = s
                        /\ \A o \in f.nodes : o.sub = s /\ o.key = n.key => n.id = o.id
                        /\ \/ n.key \in body[s] /\ n.id = id[s][n.key]
                           \/ n.key \in GName /\ n.id = <<s, n.key>>
                           \/ \E o \in f.nodes : o.sub = s /\ o.key = n.key
      BY <2>1
    <3>1. Refreshes(f, s, out[s], mint, new(s), n)
      BY <1>3
    <3>2. n.key \in body[s] => id[s][n.key] = mint[<<s, n.key>>]
      BY <2>2
    <3>3. body[s] = out[s].keys
      BY <2>1
    <3> QED
      BY <3>1, <3>2, <3>3 DEF Refreshes, IsGroup
  <2>4. \A s \in ok : \A m, n \in stored[s] : m.key = n.key => m = n
    BY <1>3, <2>1
  <2>5. \A s \in ok : \A k \in body[s] : id[s][k] \in NodeId /\ id[s][k] \notin Ids(f)
    <3>1. \A s \in ok : \A k \in out[s].keys :
             mint[<<s, k>>] \in NodeId /\ mint[<<s, k>>] \notin Ids(f)
      BY DEF Fetched, ok
    <3> SUFFICES ASSUME NEW s \in ok, NEW k \in body[s]
                 PROVE  id[s][k] \in NodeId /\ id[s][k] \notin Ids(f)
      OBVIOUS
    <3>2. /\ mint[<<s, k>>] \in NodeId /\ mint[<<s, k>>] \notin Ids(f)
          /\ id[s][k] = mint[<<s, k>>]
      BY <2>1, <2>2, <3>1, Zenon
    <3> QED
      BY <3>2
  <2>6. \A s, t \in ok : \A k \in body[s], l \in body[t] : id[s][k] = id[t][l] => s = t /\ k = l
    <3>1. \A s, t \in ok : \A k \in out[s].keys, l \in out[t].keys :
             mint[<<s, k>>] = mint[<<t, l>>] => s = t /\ k = l
      BY DEF Fetched, ok
    <3> SUFFICES ASSUME NEW s \in ok, NEW t \in ok, NEW k \in body[s], NEW l \in body[t],
                        id[s][k] = id[t][l]
                 PROVE  s = t /\ k = l
      OBVIOUS
    <3>2. /\ id[s][k] = mint[<<s, k>>] /\ id[t][l] = mint[<<t, l>>]
          /\ k \in out[s].keys /\ l \in out[t].keys
      BY <2>1, <2>2, Zenon
    <3>3. ASSUME NEW i \in out[s].keys, NEW j \in out[t].keys, mint[<<s, i>>] = mint[<<t, j>>]
          PROVE  s = t /\ i = j
      BY <3>1, <3>3
    <3>4. mint[<<s, k>>] = mint[<<t, l>>]
      BY <3>2
    <3> QED
      BY <3>2, <3>3, <3>4
  <2>7. \A n \in h.nodes : IF n.sub \in ok THEN n \in stored[n.sub] ELSE n \in f.nodes
    BY <1>7, <2>1
  <2> HIDE DEF ok
  <2> QED
    <3>1. Stores(f, ok, body, id, stored, h.nodes)
      BY <2>3, <2>4, <2>5, <2>6, <2>7, Zenon DEF Stores
    <3> QED
      BY <1>1, <3>1, ApplyKeyed
<1>9. Keyed(h)
  BY <1>5, <1>6, <1>8 DEF SoundFile, Keyed
<1>10. /\ \A n \in h.nodes : Shaped(n)
       /\ Parented(h)
       /\ h.routing \in {r.id : r \in h.routings} \cup {None}
  <2>1. \A n \in h.nodes : Shaped(n)
    BY <1>3, <1>7 DEF Refreshes, SoundFile
  <2>2. Parented(h)
    BY <1>1, <1>6, <1>7 DEF SoundFile, Parented
  <2> QED
    BY <1>5, <2>1, <2>2 DEF SoundFile, Selects
<1>11. GroupsMeet(h, gone)
  <2> SUFFICES ASSUME NEW n \in h.nodes, IsGroup(n), n.sub # None, NEW i \in n.members, i \notin gone
               PROVE  i \in DialableOf(h, n.sub)
    BY DEF GroupsMeet
  <2>1. SUFFICES \E m \in h.nodes : ~IsGroup(m) /\ m.sub = n.sub /\ m.id = i
    BY DEF DialableOf, Dialable
  <2>2. CASE n.sub \in ok
    <3>1. Refreshes(f, n.sub, out[n.sub], mint, new(n.sub), n)
      BY <1>3, <1>7, <2>2
    <3> QED
      BY <1>7, <2>2, <3>1 DEF Refreshes
  <2>3. CASE n.sub \notin ok
    <3>1. i \in DialableOf(f, n.sub)
      BY <1>7, <2>3 DEF GroupsMeet
    <3>2. \E m \in f.nodes : ~IsGroup(m) /\ m.sub = n.sub /\ m.id = i
      BY <3>1 DEF DialableOf, Dialable
    <3> QED
      BY <1>7, <2>3, <3>2
  <2> QED
    BY <2>2, <2>3
<1>12. \A o \in f.nodes, n \in h.nodes :
          o.sub # None /\ o.sub = n.sub /\ o.key = n.key => n.id = o.id /\ n.pin = o.pin
  <2> SUFFICES ASSUME NEW o \in f.nodes, NEW n \in h.nodes,
                      o.sub # None, o.sub = n.sub, o.key = n.key
               PROVE  n.id = o.id /\ n.pin = o.pin
    OBVIOUS
  <2>1. CASE n.sub \in ok
    <3>1. Refreshes(f, n.sub, out[n.sub], mint, new(n.sub), n)
      BY <1>3, <1>7, <2>1
    <3> QED
      BY <3>1 DEF Refreshes
  <2>2. CASE n.sub \notin ok
    BY <1>7, <2>2 DEF SoundFile, Keyed
  <2> QED
    BY <2>1, <2>2
<1>13. /\ g \in File /\ g.version = 3 /\ SoundFile(g) /\ g.nodes = h.nodes /\ g.subs = h.subs
  <2>1. CASE ok = {}
    <3>1. g = h
      BY <1>0, <2>1
    <3>2. h.nodes = f.nodes
      BY <1>5, <2>1 DEF N
    <3>3. Selects(h)
      BY <1>5, <3>2 DEF SoundFile, Selects, Ids
    <3> QED
      BY <1>5, <1>6, <1>9, <1>10, <3>1, <3>3 DEF SoundFile
  <2>2. CASE ok # {}
    <3>1. g \in Elected(h)
      BY <1>0, <2>2
    <3> QED
      BY <1>5, <1>6, <1>9, <1>10, <3>1, ElectedSound
  <2> QED
    BY <2>1, <2>2
<1>14. GroupsMeet(g, gone) /\ SubIds(g) = SubIds(h)
  BY <1>11, <1>13, GroupsOfNodes DEF SubIds
<1> QED
  BY <1>6, <1>12, <1>13, <1>14

-----------------------------------------------------------------------------
(* What IdentityKept says of one step.                                     *)
SameNode(n, m) ==
    n.sub # None /\ n.sub = m.sub /\ n.key = m.key =>
       m.id = n.id /\ (notices' # {} => m.pin = n.pin)

IdentityStep ==
    \A p \in Present : files'[p] # None =>
       \A n \in files[p].nodes, m \in files'[p].nodes : SameNode(n, m)

(* A node compared with itself, by key.                                    *)
LEMMA SameOfKeyed ==
    ASSUME StoreInv, NEW p \in Present, NEW n \in files[p].nodes, NEW m \in files[p].nodes
    PROVE  SameNode(n, m)
BY StoredFile DEF SoundFile, Keyed, SameNode

(* A step that rewrites one profile answers for that one only.             *)
LEMMA IdentityOfOne ==
    ASSUME StoreInv, NEW p \in Profile, NEW g, files' = [files EXCEPT ![p] = g],
           p \in Present /\ g # None => \A n \in files[p].nodes, m \in g.nodes : SameNode(n, m)
    PROVE  IdentityStep
<1> SUFFICES ASSUME NEW q \in Present, files'[q] # None,
                    NEW n \in files[q].nodes, NEW m \in files'[q].nodes
             PROVE  SameNode(n, m)
  BY DEF IdentityStep
<1>1. q \in Profile /\ files'[q] = IF q = p THEN g ELSE files[q]
  BY DEF StoreInv, TypeOK, Present
<1>2. CASE q = p
  BY <1>1, <1>2
<1>3. CASE q # p
  BY <1>1, <1>3, SameOfKeyed
<1> QED
  BY <1>2, <1>3

(* A step that leaves the files alone changes no identity.                  *)
LEMMA IdentityOfNone ==
    ASSUME StoreInv, UNCHANGED files
    PROVE  IdentityStep
BY SameOfKeyed DEF IdentityStep

(* A step that changes no profile.                                         *)
LEMMA SameKeeps ==
    ASSUME StoreInv, UNCHANGED <<files, chosen, taken>>,
           current' \in Profile \cup {None},
           sweep' \in [profile : Profile, due : SUBSET Subscription] \cup {None},
           notices' \subseteq [profile : Profile, sub : SubId, keys : SUBSET Key]
    PROVE  StoreInv' /\ IdentityStep
<1>1. Present' = Present /\ files' = files /\ chosen' = chosen /\ taken' = taken
  BY DEF Present
<1>2. TypeOK'
  BY <1>1 DEF StoreInv, TypeOK
<1>3. FilesSound' /\ GroupsResolve' /\ SubsApart' /\ ChosenStored'
  BY <1>1 DEF StoreInv, FilesSound, GroupsResolve, SubsApart, ChosenStored
<1>4. IntervalStays'
  BY <1>1 DEF StoreInv, IntervalStays, LoadProfile
<1> QED
  BY <1>1, <1>2, <1>3, <1>4, IdentityOfNone DEF StoreInv

-----------------------------------------------------------------------------
(* The refreshing verbs.                                                   *)

(* The events a refresh publishes are of the subscriptions it landed.       *)
LEMMA NoticesTyped ==
    ASSUME NEW p \in Profile, NEW S \in SUBSET SubId, NEW out \in Outcomes(S)
    PROVE  Notices(p, out) \subseteq [profile : Profile, sub : SubId, keys : SUBSET Key]
<1>1. \A s \in Landed(out) : s \in SubId /\ out[s].keys \subseteq Key
  BY DEF Landed, Outcomes, Outcome
<1> QED
  BY <1>1 DEF Notices

(* UrlsOf, of subscriptions with ids of their own.                         *)
LEMMA UrlsKnown ==
    ASSUME NEW subs, \A s, t \in subs : s.id = t.id => s = t, NEW s \in subs
    PROVE  UrlsOf(subs)[s.id] = s.url
<1>1. (CHOOSE t \in subs : t.id = s.id) = s
  OBVIOUS
<1> QED
  BY <1>1 DEF UrlsOf

(* Freshly minted ids, as Apply needs them.                                *)
LEMMA MintedFetched ==
    ASSUME StoreInv, NEW p \in Present, NEW f \in File, f.nodes = files[p].nodes,
           NEW S \in SUBSET SubIds(f), NEW out \in Outcomes(S), NEW mint \in Minted(out),
           NEW from, \A s \in f.subs : s.id \in S => from[s.id] = s.url
    PROVE  Fetched(f, from, out, mint)
<1>1. DOMAIN out = S /\ out \in [S -> Body \cup {None}]
  BY DEF Outcomes
<1>2. \A s \in Landed(out) : \A k \in out[s].keys : <<s, k>> \in Parsed(out)
  <2> SUFFICES ASSUME NEW s \in Landed(out), NEW k \in out[s].keys PROVE <<s, k>> \in Parsed(out)
    OBVIOUS
  <2>1. out[s] \in Body
    BY <1>1 DEF Landed
  <2>2. k \in Key
    BY <2>1 DEF Outcome
  <2> QED
    BY <2>2 DEF Parsed
<1>3. /\ mint \in [Parsed(out) -> FreshNode]
      /\ \A x, y \in Parsed(out) : mint[x] = mint[y] => x = y
  BY DEF Minted
<1>4. \A i \in FreshNode : i \in NodeId /\ i \notin Ids(f)
  BY DEF FreshNode, Ids
<1>5. \A s \in Landed(out) : \A k \in out[s].keys :
         mint[<<s, k>>] \in NodeId /\ mint[<<s, k>>] \notin Ids(f)
  BY <1>2, <1>3, <1>4
<1>6. \A s, t \in Landed(out) : \A k \in out[s].keys, l \in out[t].keys :
         mint[<<s, k>>] = mint[<<t, l>>] => s = t /\ k = l
  <2> SUFFICES ASSUME NEW s \in Landed(out), NEW t \in Landed(out),
                      NEW k \in out[s].keys, NEW l \in out[t].keys,
                      mint[<<s, k>>] = mint[<<t, l>>]
               PROVE  s = t /\ k = l
    OBVIOUS
  <2>1. <<s, k>> \in Parsed(out) /\ <<t, l>> \in Parsed(out)
    BY <1>2
  <2>2. <<s, k>> = <<t, l>>
    BY <1>3, <2>1
  <2> QED
    BY <2>2
<1> QED
  BY <1>1, <1>5, <1>6 DEF Fetched

(* publishRefreshLocked and the save, or a failed save: the file refreshed *)
(* may hold a subscription the stored one does not have yet.               *)
LEMMA RefreshKeeps ==
    ASSUME StoreInv, NEW p \in Present, NEW f \in File, f.version = 3, SoundFile(f),
           f.nodes = files[p].nodes, SubIds(files[p]) \subseteq SubIds(f),
           \A q \in Present : q # p => SubIds(f) \cap SubIds(files[q]) = {},
           \A s \in f.subs : chosen[s.id] # None => s.interval = chosen[s.id],
           NEW S \in SUBSET SubIds(f), NEW out \in Outcomes(S), RefreshVerb(p, f, out)
    PROVE  StoreInv' /\ IdentityStep
<1>1. p \in Profile /\ SubIds(f) \subseteq SubId /\ GroupsMeet(f, taken)
  BY FileParts, StoredFile, GroupsOfNodes DEF SubIds, Subscription
<1>2. notices' \subseteq [profile : Profile, sub : SubId, keys : SUBSET Key] /\ chosen' = chosen
  <2>1. S \in SUBSET SubId
    BY <1>1
  <2> QED
    BY <1>1, <2>1, NoticesTyped DEF RefreshVerb
<1>3. CASE UNCHANGED <<files, current, sweep, taken>>
  BY <1>2, <1>3, SameKeeps DEF StoreInv, TypeOK
<1>4. CASE \E mint \in Minted(out) :
              \E g \in Apply(f, UrlsOf(f.subs), out, mint) : Save(p, g, {})
  <2>0. PICK mint \in Minted(out) :
           \E g \in Apply(f, UrlsOf(f.subs), out, mint) : Save(p, g, {})
    BY <1>4
  <2>1. PICK g \in Apply(f, UrlsOf(f.subs), out, mint) : Save(p, g, {})
    BY <2>0
  <2>2. \A s \in f.subs : s.id \in S => UrlsOf(f.subs)[s.id] = s.url
    BY UrlsKnown DEF SoundFile, Keyed
  <2>3. Fetched(f, UrlsOf(f.subs), out, mint)
    BY <2>2, MintedFetched
  <2>4. /\ g \in File /\ g.version = 3 /\ SoundFile(g) /\ GroupsMeet(g, taken)
        /\ SubIds(g) = SubIds(f)
        /\ \A t \in g.subs : \E s \in f.subs : s.id = t.id /\ s.interval = t.interval
        /\ \A o \in f.nodes, n \in g.nodes :
              o.sub # None /\ o.sub = n.sub /\ o.key = n.key => n.id = o.id /\ n.pin = o.pin
    BY <1>1, <2>1, <2>3, ApplySound
  <2>5. /\ files' = [files EXCEPT ![p] = g] /\ taken' = StillListed(taken \cup {})
        /\ current' = current /\ sweep' = sweep
    BY <2>1 DEF Save
  <2>6. \A s \in g.subs : chosen'[s.id] # None => s.interval = chosen'[s.id]
    BY <1>2, <2>4
  <2>7. \A s \in SubId : chosen'[s] # None =>
           s \in SubIds(g) \/ (s \notin SubIds(files[p]) /\ chosen[s] # None)
    BY <1>2, <2>4
  <2>8. GroupsMeet(g, taken \cup {}) /\ {} \in SUBSET NodeId
    BY <2>4, GroupsMore
  <2>9. /\ chosen' \in [SubId -> Nat \cup {None}] /\ current' \in Profile \cup {None}
        /\ sweep' \in [profile : Profile, due : SUBSET Subscription] \cup {None}
    BY <1>2, <2>5 DEF StoreInv, TypeOK
  <2>10. StoreInv'
    <3>1. \A q \in Present : q # p => SubIds(g) \cap SubIds(files[q]) = {}
      BY <2>4
    <3>2. \A q \in Present : q # p => \A s \in SubIds(files[q]) : chosen'[s] = chosen[s]
      BY <1>2
    <3>3. g \in File /\ g.version = 3 /\ SoundFile(g)
      BY <2>4
    <3> QED
      BY <1>2, <2>5, <2>6, <2>7, <2>8, <2>9, <3>1, <3>2, <3>3, SaveKeeps
  <2>11. \A n \in files[p].nodes, m \in g.nodes : SameNode(n, m)
    BY <2>4 DEF SameNode
  <2> QED
    BY <1>1, <2>5, <2>10, <2>11, IdentityOfOne
<1> QED
  BY <1>3, <1>4 DEF RefreshVerb

(* refresh_subscriptions: the loaded file itself.                          *)
LEMMA RefreshSubscriptionsKeeps ==
    ASSUME StoreInv, NEW p \in Present, RefreshSubscriptions(p)
    PROVE  StoreInv' /\ IdentityStep
<1> DEFINE f == LoadProfile(p)
<1>0. PICK S \in SUBSET SubIds(f) : \E out \in Outcomes(S) : RefreshVerb(p, f, out)
  BY DEF RefreshSubscriptions
<1>1. PICK out \in Outcomes(S) : RefreshVerb(p, f, out)
  BY <1>0
<1>2. /\ f \in File /\ f.version = 3 /\ SoundFile(f) /\ f.nodes = files[p].nodes
      /\ SubIds(f) = SubIds(files[p])
  BY StoredFile, LoadedParts DEF LoadProfile
<1>3. \A s \in f.subs : chosen[s.id] # None => s.interval = chosen[s.id]
  BY DEF StoreInv, IntervalStays
<1>4. \A q \in Present : q # p => SubIds(f) \cap SubIds(files[q]) = {}
  BY <1>2 DEF StoreInv, SubsApart
<1> HIDE DEF f
<1> QED
  BY <1>1, <1>2, <1>3, <1>4, RefreshKeeps

(* add_subscription: the id is nobody's, so no interval was chosen for it. *)
LEMMA AddSubscriptionKeeps ==
    ASSUME StoreInv, NEW p \in Present, AddSubscription(p)
    PROVE  StoreInv' /\ IdentityStep
<1> DEFINE f == LoadProfile(p)
<1>1. PICK s \in FreshSub, u \in Url : \E out \in Outcomes({s}) :
         RefreshVerb(p, [f EXCEPT !.subs = @ \cup {NewSubscription(s, u)}], out)
  BY DEF AddSubscription
<1> DEFINE n == NewSubscription(s, u)
           g == [f EXCEPT !.subs = @ \cup {n}]
<1>2. PICK out \in Outcomes({s}) : RefreshVerb(p, g, out)
  BY <1>1
<1>3. /\ f \in File /\ f.version = 3 /\ SoundFile(f) /\ f.nodes = files[p].nodes
      /\ SubIds(f) = SubIds(files[p])
  BY StoredFile, LoadedParts DEF LoadProfile
<1>4. \A t \in f.subs : chosen[t.id] # None => t.interval = chosen[t.id]
  BY DEF StoreInv, IntervalStays
<1> HIDE DEF f
<1>5. /\ s \in SubId /\ \A q \in Present : s \notin SubIds(files[q])
  BY <1>1 DEF FreshSub
<1>6. /\ n \in Subscription /\ n.id = s /\ n.url = u /\ n.error = None
  BY <1>1, <1>5 DEF NewSubscription, Subscription, DefaultUpdateIntervalSec
<1> HIDE DEF n
<1>7. /\ g \in File /\ g.version = 3 /\ g.subs = f.subs \cup {n} /\ g.nodes = f.nodes
      /\ g.routings = f.routings /\ g.routing = f.routing /\ g.active = f.active
  BY <1>3, <1>6 DEF File
<1> HIDE DEF g
<1>8. SubIds(g) = SubIds(f) \cup {s}
  BY <1>6, <1>7 DEF SubIds
<1>9. SoundFile(g)
  <2>1. \A t \in f.subs : t.id # s
    BY <1>3, <1>5 DEF SubIds
  <2>2. Keyed(g)
    BY <1>3, <1>6, <1>7, <2>1 DEF SoundFile, Keyed
  <2>3. Selects(g) /\ \A m \in g.nodes : Shaped(m)
    BY <1>3, <1>7 DEF SoundFile, Selects, Ids
  <2>4. Parented(g) /\ ErrorsMatch(g)
    BY <1>3, <1>6, <1>7, <1>8 DEF SoundFile, Parented, ErrorsMatch
  <2> QED
    BY <2>2, <2>3, <2>4 DEF SoundFile
<1>10. chosen[s] = None
  BY <1>5 DEF StoreInv, ChosenStored
<1>11. \A t \in g.subs : chosen[t.id] # None => t.interval = chosen[t.id]
  BY <1>4, <1>6, <1>7, <1>10
<1>12. \A q \in Present : q # p => SubIds(g) \cap SubIds(files[q]) = {}
  BY <1>3, <1>5, <1>8 DEF StoreInv, SubsApart
<1>13. {s} \in SUBSET SubIds(g) /\ SubIds(files[p]) \subseteq SubIds(g)
  BY <1>3, <1>8
<1> QED
  BY <1>2, <1>3, <1>7, <1>9, <1>11, <1>12, <1>13, RefreshKeeps

(* remove_subscription: its nodes, its groups and its interval go with it. *)
LEMMA RemoveSubscriptionKeeps ==
    ASSUME StoreInv, NEW p \in Present, RemoveSubscription(p)
    PROVE  StoreInv' /\ IdentityStep
<1> DEFINE f == LoadProfile(p)
<1>1. PICK s \in f.subs :
         /\ \E g \in Elected([f EXCEPT !.subs = @ \ {s}, !.nodes = {n \in @ : n.sub # s.id}]) :
               Save(p, g, {})
         /\ chosen' = [chosen EXCEPT ![s.id] = None]
         /\ notices' = {}
  BY DEF RemoveSubscription
<1> DEFINE h == [f EXCEPT !.subs = @ \ {s}, !.nodes = {n \in @ : n.sub # s.id}]
<1>2. PICK g \in Elected(h) : Save(p, g, {})
  BY <1>1
<1>3. /\ f \in File /\ f.version = 3 /\ SoundFile(f) /\ f.nodes = files[p].nodes
      /\ SubIds(f) = SubIds(files[p]) /\ GroupsMeet(f, taken)
  BY StoredFile, LoadedParts DEF LoadProfile
<1>4. \A t \in f.subs : chosen[t.id] # None => t.interval = chosen[t.id]
  BY DEF StoreInv, IntervalStays
<1> HIDE DEF f
<1>5. /\ h \in File /\ h.version = 3 /\ h.subs = f.subs \ {s}
      /\ h.nodes = {n \in f.nodes : n.sub # s.id}
      /\ h.routings = f.routings /\ h.routing = f.routing
  BY <1>3 DEF File
<1> HIDE DEF h
<1>6. SubIds(h) = SubIds(f) \ {s.id} /\ s.id \in SubIds(f)
  BY <1>1, <1>3, <1>5 DEF SubIds, SoundFile, Keyed
<1>7. Keyed(h) /\ ErrorsMatch(h)
  BY <1>3, <1>5 DEF SoundFile, Keyed, ErrorsMatch
<1>8. /\ \A n \in h.nodes : Shaped(n)
      /\ Parented(h)
      /\ h.routing \in {r.id : r \in h.routings} \cup {None}
  BY <1>3, <1>5, <1>6 DEF SoundFile, Parented, Selects
<1>9. GroupsMeet(h, taken \cup {})
  BY <1>3, <1>5 DEF GroupsMeet, DialableOf, Dialable
<1>10. /\ g \in File /\ g.version = 3 /\ SoundFile(g) /\ g.nodes = h.nodes /\ g.subs = h.subs
  BY <1>2, <1>5, <1>7, <1>8, ElectedSound
<1>11. GroupsMeet(g, taken \cup {}) /\ SubIds(g) = SubIds(h)
  BY <1>9, <1>10, GroupsOfNodes DEF SubIds
<1>12. /\ chosen \in [SubId -> Nat \cup {None}] /\ s.id \in SubId
       /\ current \in Profile \cup {None}
       /\ sweep \in [profile : Profile, due : SUBSET Subscription] \cup {None}
  BY <1>1, <1>3, FileParts DEF StoreInv, TypeOK, Subscription
<1>13. /\ chosen' \in [SubId -> Nat \cup {None}]
       /\ \A x \in SubId : chosen'[x] = IF x = s.id THEN None ELSE chosen[x]
  BY <1>1, <1>12
<1>14. /\ files' = [files EXCEPT ![p] = g] /\ taken' = StillListed(taken \cup {})
       /\ current' = current /\ sweep' = sweep
  BY <1>2 DEF Save
<1>15. \A q \in Present : q # p => SubIds(g) \cap SubIds(files[q]) = {}
  BY <1>3, <1>6, <1>11 DEF StoreInv, SubsApart
<1>16. \A q \in Present : SubIds(files[q]) \subseteq SubId
  BY StoredFile, FileParts DEF SubIds, Subscription
<1>17. \A q \in Present : q # p => \A x \in SubIds(files[q]) : chosen'[x] = chosen[x]
  BY <1>3, <1>6, <1>13, <1>16 DEF StoreInv, SubsApart
<1>18. \A t \in g.subs : chosen'[t.id] # None => t.interval = chosen'[t.id]
  <2>1. \A t \in f.subs : t.id \in SubId
    BY <1>3, FileParts DEF Subscription
  <2> QED
    BY <1>4, <1>5, <1>10, <1>13, <2>1
<1>19. \A x \in SubId : chosen'[x] # None =>
          x \in SubIds(g) \/ (x \notin SubIds(files[p]) /\ chosen[x] # None)
  BY <1>3, <1>6, <1>11, <1>13
<1>20. StoreInv'
  BY <1>1, <1>10, <1>11, <1>12, <1>13, <1>14, <1>15, <1>17, <1>18, <1>19, SaveKeeps
<1>21. \A n \in files[p].nodes, m \in g.nodes : SameNode(n, m)
  BY <1>3, <1>5, <1>10, SameOfKeyed
<1> QED
  BY <1>14, <1>20, <1>21, IdentityOfOne, StoredFile

(* update_subscription: a new URL drops the error of the old one, and the  *)
(* interval stored is the one remembered as chosen.                        *)
LEMMA UpdateSubscriptionKeeps ==
    ASSUME StoreInv, NEW p \in Present, UpdateSubscription(p)
    PROVE  StoreInv' /\ IdentityStep
<1> DEFINE f == LoadProfile(p)
           upd(s, u, i) == [s EXCEPT !.url = u, !.error = IF u = s.url THEN @ ELSE None,
                                     !.interval = IF i = None THEN @ ELSE i]
<1>1. PICK s \in f.subs, u \in Url, i \in Interval \cup {None} :
         /\ Save(p, [f EXCEPT !.subs = (@ \ {s}) \cup {upd(s, u, i)}], {})
         /\ chosen' = IF i = None THEN chosen ELSE [chosen EXCEPT ![s.id] = i]
         /\ notices' = {}
  BY DEF UpdateSubscription
<1> DEFINE n == upd(s, u, i)
           g == [f EXCEPT !.subs = (@ \ {s}) \cup {n}]
<1>2. Save(p, g, {})
  BY <1>1
<1>3. /\ f \in File /\ f.version = 3 /\ SoundFile(f) /\ f.nodes = files[p].nodes
      /\ SubIds(f) = SubIds(files[p]) /\ GroupsMeet(f, taken)
  BY StoredFile, LoadedParts DEF LoadProfile
<1>4. \A t \in f.subs : chosen[t.id] # None => t.interval = chosen[t.id]
  BY DEF StoreInv, IntervalStays
<1> HIDE DEF f
<1>5. s \in Subscription /\ s.error \in {None, s.url}
  BY <1>1, <1>3, FileParts DEF SoundFile, ErrorsMatch
<1>6. /\ n \in Subscription /\ n.id = s.id /\ n.url = u /\ n.error \in {None, u}
      /\ n.interval = IF i = None THEN s.interval ELSE i
  BY <1>1, <1>5 DEF Subscription
<1> HIDE DEF n, upd
<1>7. /\ g \in File /\ g.version = 3 /\ g.subs = (f.subs \ {s}) \cup {n} /\ g.nodes = f.nodes
      /\ g.routings = f.routings /\ g.routing = f.routing /\ g.active = f.active
  BY <1>3, <1>6 DEF File
<1> HIDE DEF g
<1>8. SubIds(g) = SubIds(f) /\ s.id \in SubIds(f)
  BY <1>1, <1>6, <1>7 DEF SubIds
<1>9. SoundFile(g)
  <2>1. Keyed(g)
    BY <1>1, <1>3, <1>6, <1>7 DEF SoundFile, Keyed
  <2>2. Selects(g) /\ \A m \in g.nodes : Shaped(m)
    BY <1>3, <1>7 DEF SoundFile, Selects, Ids
  <2>3. Parented(g) /\ ErrorsMatch(g)
    BY <1>3, <1>6, <1>7, <1>8 DEF SoundFile, Parented, ErrorsMatch
  <2> QED
    BY <2>1, <2>2, <2>3 DEF SoundFile
<1>10. GroupsMeet(g, taken \cup {})
  BY <1>3, <1>7, GroupsOfNodes
<1>11. /\ chosen \in [SubId -> Nat \cup {None}] /\ s.id \in SubId
       /\ current \in Profile \cup {None}
       /\ sweep \in [profile : Profile, due : SUBSET Subscription] \cup {None}
  BY <1>5 DEF StoreInv, TypeOK, Subscription
<1>12. /\ chosen' \in [SubId -> Nat \cup {None}]
       /\ \A x \in SubId : chosen'[x] = IF x = s.id /\ i # None THEN i ELSE chosen[x]
  BY <1>1, <1>11
<1>13. /\ files' = [files EXCEPT ![p] = g] /\ taken' = StillListed(taken \cup {})
       /\ current' = current /\ sweep' = sweep
  BY <1>2 DEF Save
<1>14. \A q \in Present : q # p => SubIds(g) \cap SubIds(files[q]) = {}
  BY <1>3, <1>8 DEF StoreInv, SubsApart
<1>15. \A q \in Present : SubIds(files[q]) \subseteq SubId
  BY StoredFile, FileParts DEF SubIds, Subscription
<1>16. \A q \in Present : q # p => \A x \in SubIds(files[q]) : chosen'[x] = chosen[x]
  BY <1>3, <1>8, <1>12, <1>15 DEF StoreInv, SubsApart
<1>17. \A t \in g.subs : chosen'[t.id] # None => t.interval = chosen'[t.id]
  <2>1. \A t \in f.subs : t.id \in SubId /\ (t.id = s.id => t = s)
    BY <1>1, <1>3, FileParts DEF Subscription, SoundFile, Keyed
  <2> QED
    BY <1>1, <1>4, <1>6, <1>7, <1>11, <1>12, <2>1
<1>18. \A x \in SubId : chosen'[x] # None =>
          x \in SubIds(g) \/ (x \notin SubIds(files[p]) /\ chosen[x] # None)
  BY <1>3, <1>8, <1>12
<1>19. StoreInv'
  <2>1. /\ notices' \subseteq [profile : Profile, sub : SubId, keys : SUBSET Key]
        /\ chosen' \in [SubId -> Nat \cup {None}] /\ current' \in Profile \cup {None}
        /\ sweep' \in [profile : Profile, due : SUBSET Subscription] \cup {None}
        /\ {} \in SUBSET NodeId /\ g \in File /\ g.version = 3
    BY <1>1, <1>7, <1>11, <1>12, <1>13
  <2>2. files' = [files EXCEPT ![p] = g] /\ taken' = StillListed(taken \cup {})
    BY <1>13
  <2> QED
    BY <1>9, <1>10, <1>14, <1>16, <1>17, <1>18, <2>1, <2>2, SaveKeeps
<1>20. \A m \in files[p].nodes, k \in g.nodes : SameNode(m, k)
  BY <1>3, <1>7, SameOfKeyed
<1> QED
  BY <1>13, <1>19, <1>20, IdentityOfOne, StoredFile

-----------------------------------------------------------------------------
(* The profile verbs.                                                      *)

(* create_profile: a profile of its own name with nothing but the default  *)
(* routing config.                                                         *)
LEMMA CreateProfileKeeps ==
    ASSUME StoreInv, NEW p \in Profile, CreateProfile(p)
    PROVE  StoreInv' /\ IdentityStep
<1> DEFINE new(r) == [version |-> 3, active |-> None, subs |-> {}, nodes |-> {},
                      routings |-> {[id |-> r, name |-> "default"]}, routing |-> r]
<1>1. PICK r \in FreshRouting : files' = [files EXCEPT ![p] = new(r)]
  BY DEF CreateProfile
<1> DEFINE g == new(r)
<1>2. /\ g \in File /\ g.version = 3 /\ g.active = None /\ g.subs = {} /\ g.nodes = {}
      /\ g.routings = {[id |-> r, name |-> "default"]} /\ g.routing = r
  BY <1>1 DEF File, FreshRouting
<1> HIDE DEF new, g
<1>3. SoundFile(g) /\ GroupsMeet(g, taken) /\ SubIds(g) = {} /\ Loaded(g) = g
  BY <1>2 DEF SoundFile, Keyed, Selects, Parented, ErrorsMatch, GroupsMeet, SubIds, Ids, Loaded
<1>4. /\ files[p] = None /\ notices' = {} /\ current' = current /\ sweep' = sweep
      /\ chosen' = chosen /\ taken' = taken
      /\ files \in [Profile -> File \cup {None}]
  BY DEF CreateProfile, StoreInv, TypeOK
<1>5. /\ files'[p] = g /\ g # None
      /\ \A q \in Profile : q # p => files'[q] = files[q]
      /\ Present' = Present \cup {p} /\ p \notin Present /\ Present \subseteq Profile
  BY <1>1, <1>2, <1>4, FileParts DEF Present, g
<1>6. FilesSound' /\ GroupsResolve'
  BY <1>3, <1>4, <1>5 DEF StoreInv, FilesSound, GroupsResolve
<1>7. TypeOK'
  <2>1. files' \in [Profile -> File \cup {None}]
    BY <1>1, <1>2, <1>4 DEF g
  <2>2. \A q \in Profile : files'[q] # None => Keyed(files'[q])
    BY <1>3, <1>5 DEF StoreInv, TypeOK, SoundFile
  <2> QED
    BY <1>4, <2>1, <2>2 DEF StoreInv, TypeOK
<1>8. SubsApart' /\ ChosenStored'
  BY <1>3, <1>4, <1>5 DEF StoreInv, SubsApart, ChosenStored
<1>9. IntervalStays'
  BY <1>2, <1>3, <1>4, <1>5 DEF StoreInv, IntervalStays, LoadProfile
<1>10. IdentityStep
  BY <1>1, <1>5, IdentityOfOne
<1> QED
  BY <1>6, <1>7, <1>8, <1>9, <1>10 DEF StoreInv

(* delete_profile, with or without the rewrite of state.json.              *)
LEMMA DeleteProfileKeeps ==
    ASSUME StoreInv, NEW p \in Profile, DeleteProfile(p)
    PROVE  StoreInv' /\ IdentityStep
<1>1. /\ files[p] # None /\ files' = [files EXCEPT ![p] = None]
      /\ chosen' = [s \in SubId |-> IF s \in SubIds(files[p]) THEN None ELSE chosen[s]]
      /\ taken' = StillListed(taken) /\ notices' = {} /\ sweep' = sweep
      /\ current' \in IF current = p THEN {None, p} ELSE {current}
      /\ files \in [Profile -> File \cup {None}]
  BY DEF DeleteProfile, StoreInv, TypeOK
<1>2. /\ files'[p] = None
      /\ \A q \in Profile : q # p => files'[q] = files[q]
      /\ Present' = Present \ {p} /\ p \in Present /\ Present \subseteq Profile
  BY <1>1 DEF Present
<1>3. \A s \in SubId : chosen'[s] = IF s \in SubIds(files[p]) THEN None ELSE chosen[s]
  BY <1>1
<1>4. TypeOK'
  <2>1. files' \in [Profile -> File \cup {None}]
    BY <1>1
  <2>2. \A q \in Profile : files'[q] # None => Keyed(files'[q])
    BY <1>2 DEF StoreInv, TypeOK
  <2>3. chosen' \in [SubId -> Nat \cup {None}]
    BY <1>1 DEF StoreInv, TypeOK
  <2>4. current' \in Profile \cup {None} /\ taken' \subseteq NodeId
    BY <1>1 DEF StoreInv, TypeOK, StillListed
  <2> QED
    BY <1>1, <2>1, <2>2, <2>3, <2>4 DEF StoreInv, TypeOK
<1>5. FilesSound' /\ SubsApart'
  BY <1>2 DEF StoreInv, FilesSound, SubsApart
<1>6. GroupsResolve'
  <2> SUFFICES ASSUME NEW q \in Present, q # p PROVE GroupsMeet(files'[q], taken')
    BY <1>2 DEF GroupsResolve
  <2>1. q \in Profile /\ files'[q] # None /\ GroupsMeet(files'[q], taken)
    BY <1>2, StoredFile DEF Present
  <2> QED
    BY <1>1, <2>1, ListedGroupsMeet
<1>7. \A q \in Present : SubIds(files[q]) \subseteq SubId
  BY StoredFile, FileParts DEF SubIds, Subscription
<1>8. ChosenStored'
  <2> SUFFICES ASSUME NEW s \in SubId, chosen'[s] # None
               PROVE  \E q \in Present' : s \in SubIds(files'[q])
    BY DEF ChosenStored
  <2>1. PICK q \in Present : s \in SubIds(files[q]) /\ q # p
    BY <1>3 DEF StoreInv, ChosenStored
  <2> QED
    BY <1>2, <2>1
<1>9. IntervalStays'
  <2> SUFFICES ASSUME NEW q \in Present, q # p, NEW s \in LoadProfile(q).subs,
                      chosen'[s.id] # None
               PROVE  s.interval = chosen'[s.id]
    BY <1>2 DEF IntervalStays, LoadProfile
  <2>1. s.id \in SubIds(files[q])
    BY StoredFile DEF SubIds
  <2> QED
    BY <1>3, <1>7, <2>1 DEF StoreInv, IntervalStays
<1>10. IdentityStep
  BY <1>1, IdentityOfOne
<1> QED
  BY <1>4, <1>5, <1>6, <1>8, <1>9, <1>10 DEF StoreInv

(* set_active_profile, the sweep's snapshot and a restart change no file.  *)
LEMMA NoFileKeeps ==
    ASSUME StoreInv, (\E p \in Profile : SetActiveProfile(p)) \/ Sweep \/ Restart
    PROVE  StoreInv' /\ IdentityStep
<1>0. /\ current \in Profile \cup {None}
      /\ sweep \in [profile : Profile, due : SUBSET Subscription] \cup {None}
  BY DEF StoreInv, TypeOK
<1>1. CASE \E p \in Profile : SetActiveProfile(p)
  BY <1>0, <1>1, SameKeeps DEF SetActiveProfile
<1>2. CASE Sweep
  <2>1. PICK due \in SUBSET LoadProfile(current).subs :
           sweep' = [profile |-> current, due |-> due]
    BY <1>2 DEF Sweep
  <2>2. current \in Present
    BY <1>0, <1>2 DEF Sweep, Present
  <2>3. current \in Profile /\ LoadProfile(current).subs \subseteq Subscription
    BY <2>2, StoredFile, FileParts
  <2>4. sweep' \in [profile : Profile, due : SUBSET Subscription] \cup {None}
    BY <2>1, <2>3
  <2>5. UNCHANGED <<files, chosen, taken>> /\ current' = current /\ notices' = {}
    BY <1>2 DEF Sweep
  <2> QED
    BY <1>0, <2>4, <2>5, SameKeeps
<1>3. CASE Restart
  <2>1. UNCHANGED <<files, chosen, taken>> /\ current' = current /\ notices' = {} /\ sweep' = None
    BY <1>3 DEF Restart
  <2> QED
    BY <1>0, <2>1, SameKeeps
<1> QED
  BY <1>1, <1>2, <1>3

-----------------------------------------------------------------------------
(* landSubscriptionFetch: the drift check makes the URL fetched the one    *)
(* the stored subscription has.                                            *)
LEMMA LandKeeps ==
    ASSUME StoreInv, sweep # None, NEW d \in sweep.due, Land(d)
    PROVE  StoreInv' /\ IdentityStep
<1> DEFINE p == sweep.profile
           f == LoadProfile(p)
<1>0. /\ current \in Profile \cup {None} /\ p \in Profile /\ d \in Subscription
      /\ sweep \in [profile : Profile, due : SUBSET Subscription]
      /\ chosen \in [SubId -> Nat \cup {None}] /\ d.id \in SubId
  BY DEF StoreInv, TypeOK, Subscription
<1>1. /\ sweep' \in [profile : Profile, due : SUBSET Subscription] \cup {None}
      /\ current' = current /\ chosen' = chosen
  <2>1. sweep.due \ {d} \subseteq Subscription
    BY <1>0
  <2>2. [sweep EXCEPT !.due = @ \ {d}] \in [profile : Profile, due : SUBSET Subscription]
    BY <1>0, <2>1
  <2> QED
    BY <2>2 DEF Land
<1>2. CASE notices' = {} /\ UNCHANGED <<files, taken>>
  BY <1>0, <1>1, <1>2, SameKeeps
<1>3. CASE /\ Applies(p, d)
           /\ \E out \in Outcomes({d.id}) : \E mint \in Minted(out) :
                 \E g \in Apply(f, UrlsOf({d}), out, mint) :
                    /\ files' = [files EXCEPT ![p] = g]
                    /\ taken' = StillListed(taken)
                    /\ notices' = Notices(p, out)
  <2>0. p \in Present
    BY <1>0, <1>3 DEF Applies, Present
  <2>1. PICK out \in Outcomes({d.id}) : \E mint \in Minted(out) :
           \E g \in Apply(f, UrlsOf({d}), out, mint) :
              /\ files' = [files EXCEPT ![p] = g]
              /\ taken' = StillListed(taken)
              /\ notices' = Notices(p, out)
    BY <1>3
  <2>2. PICK mint \in Minted(out) :
           \E g \in Apply(f, UrlsOf({d}), out, mint) :
              /\ files' = [files EXCEPT ![p] = g]
              /\ taken' = StillListed(taken)
              /\ notices' = Notices(p, out)
    BY <2>1
  <2>3. PICK g \in Apply(f, UrlsOf({d}), out, mint) :
           /\ files' = [files EXCEPT ![p] = g]
           /\ taken' = StillListed(taken)
           /\ notices' = Notices(p, out)
    BY <2>2
  <2>4. /\ f \in File /\ f.version = 3 /\ SoundFile(f) /\ f.nodes = files[p].nodes
        /\ SubIds(f) = SubIds(files[p]) /\ GroupsMeet(f, taken)
    BY <2>0, StoredFile, LoadedParts DEF LoadProfile
  <2>5. \A s \in f.subs : chosen[s.id] # None => s.interval = chosen[s.id]
    BY <2>0 DEF StoreInv, IntervalStays
  <2>6. \A s \in f.subs : \E t \in files[p].subs : s.id = t.id /\ s.url = t.url
    BY <2>0, StoredFile, LoadedParts DEF LoadProfile
  <2>7. PICK t \in files[p].subs : t.id = d.id /\ t.url = d.url
    BY <1>3 DEF Applies
  <2>8. {d.id} \in SUBSET SubIds(f)
    BY <2>4, <2>7 DEF SubIds
  <2>9. \A x, y \in files[p].subs : x.id = y.id => x = y
    BY <2>0, StoredFile DEF SoundFile, Keyed
  <2> HIDE DEF f, p
  <2>10. UrlsOf({d})[d.id] = d.url
    BY UrlsKnown
  <2>11. \A s \in f.subs : s.id \in {d.id} => UrlsOf({d})[s.id] = s.url
    BY <2>6, <2>7, <2>9, <2>10
  <2>12. Fetched(f, UrlsOf({d}), out, mint)
    BY <2>0, <2>4, <2>8, <2>11, MintedFetched
  <2>13. /\ g \in File /\ g.version = 3 /\ SoundFile(g) /\ GroupsMeet(g, taken)
         /\ SubIds(g) = SubIds(f)
         /\ \A x \in g.subs : \E s \in f.subs : s.id = x.id /\ s.interval = x.interval
         /\ \A o \in f.nodes, n \in g.nodes :
               o.sub # None /\ o.sub = n.sub /\ o.key = n.key => n.id = o.id /\ n.pin = o.pin
    BY <2>4, <2>12, ApplySound
  <2>14. StoreInv'
    <3>1. /\ notices' \subseteq [profile : Profile, sub : SubId, keys : SUBSET Key]
          /\ chosen' \in [SubId -> Nat \cup {None}] /\ current' \in Profile \cup {None}
          /\ {} \in SUBSET NodeId /\ g \in File /\ g.version = 3 /\ SoundFile(g)
      BY <1>0, <1>1, <2>3, <2>13, NoticesTyped
    <3>2. files' = [files EXCEPT ![p] = g] /\ taken' = StillListed(taken \cup {})
      BY <2>3
    <3>3. GroupsMeet(g, taken \cup {})
      BY <2>13, GroupsMore
    <3>4. /\ \A q \in Present : q # p => SubIds(g) \cap SubIds(files[q]) = {}
          /\ \A q \in Present : q # p => \A s \in SubIds(files[q]) : chosen'[s] = chosen[s]
      BY <1>1, <2>0, <2>4, <2>13 DEF StoreInv, SubsApart
    <3>5. \A s \in g.subs : chosen'[s.id] # None => s.interval = chosen'[s.id]
      BY <1>1, <2>5, <2>13
    <3>6. \A s \in SubId : chosen'[s] # None =>
             s \in SubIds(g) \/ (s \notin SubIds(files[p]) /\ chosen[s] # None)
      BY <1>1, <2>4, <2>13
    <3> QED
      BY <1>1, <2>0, <3>1, <3>2, <3>3, <3>4, <3>5, <3>6, SaveKeeps
  <2>15. \A n \in files[p].nodes, m \in g.nodes : SameNode(n, m)
    BY <2>4, <2>13 DEF SameNode
  <2> QED
    BY <1>0, <2>3, <2>14, <2>15, IdentityOfOne
<1> QED
  BY <1>2, <1>3 DEF Land

-----------------------------------------------------------------------------
(* The verbs that fetch nothing leave a subscription's nodes as they are,  *)
(* or change a pin the user asked them to change.                          *)
LEMMA EditIdentity ==
    ASSUME StoreInv, NEW p \in Present,
           \/ SelectNode(p) \/ AddNode(p) \/ RemoveNode(p) \/ SetNodePrefs(p) \/ UpsertGroup(p)
           \/ SelectRouting(p) \/ UpsertRouting(p) \/ RemoveRouting(p)
    PROVE  IdentityStep
<1> DEFINE f == LoadProfile(p)
<1>0. f \in File /\ f.nodes = files[p].nodes /\ p \in Profile
  BY StoredFile, LoadedParts DEF LoadProfile
<1> HIDE DEF f
<1>1. SUFFICES ASSUME NEW g, files' = [files EXCEPT ![p] = g], notices' = {},
                      \A m \in g.nodes : \/ m.sub = None
                                         \/ \E n \in f.nodes : /\ n.id = m.id /\ n.sub = m.sub
                                                               /\ n.key = m.key
               PROVE  IdentityStep
  <2>1. CASE SelectNode(p)
    <3>1. PICK n \in f.nodes : Edit(p, [f EXCEPT !.active = n.id])
      BY <2>1 DEF SelectNode, f
    <3>2. [f EXCEPT !.active = n.id].nodes = f.nodes
      BY <1>0 DEF File
    <3> QED
      BY <1>1, <3>1, <3>2 DEF Edit, Save
  <2>2. CASE AddNode(p)
    <3>1. PICK i \in FreshNode, k \in Key :
             \E g \in Elected([f EXCEPT !.nodes = @ \cup {NewNode(i, None, k)}]) : Edit(p, g)
      BY <2>2 DEF AddNode, f
    <3> DEFINE h == [f EXCEPT !.nodes = @ \cup {NewNode(i, None, k)}]
    <3>2. PICK g \in Elected(h) : Edit(p, g)
      BY <3>1
    <3>3. NewNode(i, None, k).sub = None
      BY DEF NewNode
    <3>4. /\ h.nodes = f.nodes \cup {NewNode(i, None, k)}
          /\ \A a : [h EXCEPT !.active = a].nodes = h.nodes
      BY <1>0 DEF File
    <3> HIDE DEF h
    <3>5. g.nodes = h.nodes
      BY <3>2, <3>4 DEF Elected
    <3> QED
      BY <1>1, <3>2, <3>3, <3>4, <3>5 DEF Edit, Save
  <2>3. CASE RemoveNode(p)
    <3>1. PICK n \in f.nodes :
             /\ Save(p, [f EXCEPT !.nodes = {m \in @ : m.id # n.id},
                                  !.active = IF @ = n.id THEN None ELSE @], {n.id} \cap NodeId)
             /\ notices' = {}
      BY <2>3 DEF RemoveNode, f
    <3> DEFINE h == [f EXCEPT !.nodes = {m \in @ : m.id # n.id},
                              !.active = IF @ = n.id THEN None ELSE @]
    <3>2. h.nodes \subseteq f.nodes
      BY <1>0 DEF File
    <3>3. files' = [files EXCEPT ![p] = h]
      BY <3>1 DEF Save
    <3> HIDE DEF h
    <3> QED
      BY <1>1, <3>1, <3>2, <3>3
  <2>4. CASE SetNodePrefs(p)
    <3>1. PICK n \in Dialable(f), c \in Core \cup {None} :
             Edit(p, [f EXCEPT !.nodes = (@ \ {n}) \cup {[n EXCEPT !.pin = c]}])
      BY <2>4 DEF SetNodePrefs, f
    <3> DEFINE m == [n EXCEPT !.pin = c]
               h == [f EXCEPT !.nodes = (@ \ {n}) \cup {m}]
    <3>2. n \in f.nodes /\ n \in Node
      BY <1>0, <3>1, FileParts DEF Dialable
    <3>3. m.id = n.id /\ m.sub = n.sub /\ m.key = n.key
      BY <3>2 DEF Node
    <3>4. files' = [files EXCEPT ![p] = h] /\ notices' = {}
      BY <3>1 DEF Edit, Save
    <3> HIDE DEF m
    <3>5. h.nodes = (f.nodes \ {n}) \cup {m}
      BY <1>0 DEF File
    <3> HIDE DEF h
    <3> QED
      BY <1>1, <3>2, <3>3, <3>4, <3>5
  <2>5. CASE UpsertGroup(p)
    <3> DEFINE own == {n.id : n \in {m \in f.nodes : IsGroup(m) /\ m.sub = None}}
    <3>1. PICK u \in [id : FreshNode \cup own, sub : {None}, key : GName, pin : {None},
                      members : SUBSET {n.id : n \in Dialable(f)},
                      ofSub : SubIds(f) \cup {None}] :
             Edit(p, [f EXCEPT !.nodes = {m \in @ : m.id # u.id} \cup {u}])
      BY <2>5 DEF UpsertGroup, f
    <3> DEFINE h == [f EXCEPT !.nodes = {m \in @ : m.id # u.id} \cup {u}]
    <3>2. u.sub = None
      BY <3>1
    <3>3. files' = [files EXCEPT ![p] = h] /\ notices' = {}
      BY <3>1 DEF Edit, Save
    <3>4. h.nodes = {m \in f.nodes : m.id # u.id} \cup {u}
      BY <1>0 DEF File
    <3> HIDE DEF h
    <3> QED
      BY <1>1, <3>2, <3>3, <3>4
  <2>6. CASE SelectRouting(p) \/ UpsertRouting(p) \/ RemoveRouting(p)
    <3>1. PICK g : Edit(p, g) /\ g.nodes = f.nodes
      <4>1. CASE SelectRouting(p)
        <5>1. PICK r \in f.routings : Edit(p, [f EXCEPT !.routing = r.id])
          BY <4>1 DEF SelectRouting, f
        <5>2. [f EXCEPT !.routing = r.id].nodes = f.nodes
          BY <1>0 DEF File
        <5> QED
          BY <5>1, <5>2
      <4>2. CASE UpsertRouting(p)
        <5>1. PICK i \in RoutingId, m \in RName :
                 Edit(p, [f EXCEPT !.routings = {r \in @ : r.id # i} \cup {[id |-> i, name |-> m]}])
          BY <4>2 DEF UpsertRouting, f
        <5>2. [f EXCEPT !.routings = {r \in @ : r.id # i} \cup {[id |-> i, name |-> m]}].nodes = f.nodes
          BY <1>0 DEF File
        <5> QED
          BY <5>1, <5>2
      <4>3. CASE RemoveRouting(p)
        <5>1. PICK r \in f.routings :
                 Edit(p, [f EXCEPT !.routings = @ \ {r},
                                   !.routing = IF @ = r.id THEN None ELSE @])
          BY <4>3 DEF RemoveRouting, f
        <5> DEFINE h == [f EXCEPT !.routings = @ \ {r},
                                  !.routing = IF @ = r.id THEN None ELSE @]
        <5>2. h.nodes = f.nodes
          BY <1>0 DEF File
        <5>3. Edit(p, h)
          BY <5>1
        <5> HIDE DEF h
        <5> QED
          BY <5>2, <5>3
      <4> QED
        BY <2>6, <4>1, <4>2, <4>3
    <3> QED
      BY <1>1, <3>1 DEF Edit, Save
  <2> QED
    BY <2>1, <2>2, <2>3, <2>4, <2>5, <2>6
<1>2. \A n \in files[p].nodes, m \in g.nodes : SameNode(n, m)
  <2>1. \A n, o \in files[p].nodes :
           n.sub # None /\ n.sub = o.sub /\ n.key = o.key => n = o
    BY StoredFile DEF SoundFile, Keyed
  <2> QED
    BY <1>0, <1>1, <2>1 DEF SameNode
<1> QED
  BY <1>0, <1>1, <1>2, IdentityOfOne

-----------------------------------------------------------------------------
(* The theorems.                                                           *)

(* Files left by the daemon before this one: what they hold fits together, *)
(* an id that a group lists and no node has was removed by that daemon,    *)
(* and the intervals they hold are the chosen ones unless the migration    *)
(* changes them.                                                           *)
LEMMA InitStore == Init => StoreInv
<1> SUFFICES ASSUME Init PROVE StoreInv
  OBVIOUS
<1> DEFINE All == UNION {files[p].subs : p \in Present}
<1>1. /\ files \in [Profile -> OldFile \cup {None}] /\ notices = {}
      /\ taken = UNION {Listed(files[p]) \ Ids(files[p]) : p \in Present}
      /\ sweep = None /\ current \in Profile \cup {None}
      /\ \A p, q \in Present : p # q => SubIds(files[p]) \cap SubIds(files[q]) = {}
  BY DEF Init
<1>2. \A p \in Present : /\ p \in Profile /\ files[p] \in File /\ SoundFile(files[p])
                         /\ GroupsMeet(files[p], taken)
  <2> SUFFICES ASSUME NEW p \in Present
               PROVE  /\ p \in Profile /\ files[p] \in File /\ SoundFile(files[p])
                      /\ GroupsMeet(files[p], taken)
    OBVIOUS
  <2>1. /\ p \in Profile /\ files[p] \in File /\ SoundFile(files[p])
        /\ GroupsMeet(files[p], NodeId \ Ids(files[p]))
    BY <1>1, OldFileAssumption DEF Present
  <2>2. \A g \in files[p].nodes : \A i \in g.members : i \notin Ids(files[p]) => i \in taken
    BY <1>1 DEF Listed
  <2> QED
    BY <2>1, <2>2 DEF GroupsMeet
<1>3. \A p \in Present : \A t \in files[p].subs : t \in Subscription
  BY <1>2, FileParts
<1>4. \A t, u \in All : t.id = u.id => t = u
  <2> SUFFICES ASSUME NEW p \in Present, NEW q \in Present,
                      NEW t \in files[p].subs, NEW u \in files[q].subs, t.id = u.id
               PROVE  t = u
    OBVIOUS
  <2>1. t.id \in SubIds(files[p]) /\ u.id \in SubIds(files[q])
    BY DEF SubIds
  <2>2. p = q
    BY <1>1, <2>1
  <2> QED
    BY <1>2, <2>2 DEF SoundFile, Keyed
<1>5. \A t \in All : (CHOOSE u \in All : u.id = t.id) = t
  <2> SUFFICES ASSUME NEW t \in All PROVE (CHOOSE u \in All : u.id = t.id) = t
    OBVIOUS
  <2> HIDE DEF All
  <2> QED
    BY <1>4
<1>6. ASSUME NEW s \in SubId
      PROVE  \/ chosen[s] = None
             \/ \E p \in Present : \E t \in files[p].subs :
                   t.id = s /\ chosen[s] = t.interval
                     /\ t.interval \notin {0, legacyUpdateIntervalSec}
  <2>1. chosen[s] = IF \E p \in Present : \E t \in files[p].subs :
                          t.id = s /\ t.interval \notin {0, legacyUpdateIntervalSec}
                    THEN (CHOOSE t \in All : t.id = s).interval ELSE None
    BY DEF Init
  <2>2. CASE \E p \in Present : \E t \in files[p].subs :
                t.id = s /\ t.interval \notin {0, legacyUpdateIntervalSec}
    <3>1. PICK p \in Present, t \in All :
             /\ t \in files[p].subs /\ t.id = s
             /\ t.interval \notin {0, legacyUpdateIntervalSec}
      BY <2>2
    <3>2. (CHOOSE u \in All : u.id = s) = t
      BY <1>5, <3>1
    <3> QED
      BY <2>1, <2>2, <3>1, <3>2
  <2>3. CASE ~ \E p \in Present : \E t \in files[p].subs :
                t.id = s /\ t.interval \notin {0, legacyUpdateIntervalSec}
    BY <2>1, <2>3
  <2> QED
    BY <2>2, <2>3
<1> HIDE DEF All
<1>7. TypeOK
  <2>1. files \in [Profile -> File \cup {None}]
    BY <1>1
  <2>2. \A p \in Profile : files[p] # None => Keyed(files[p])
    BY <1>2 DEF Present, SoundFile
  <2>3. chosen \in [SubId -> Nat \cup {None}]
    <3>1. \A s \in SubId : chosen[s] \in Nat \cup {None}
      BY <1>3, <1>6 DEF Subscription
    <3>2. chosen = [s \in SubId |-> chosen[s]]
      BY DEF Init
    <3> QED
      BY <3>1, <3>2
  <2>4. taken \subseteq NodeId
    <3>1. \A p \in Present : \A n \in files[p].nodes : n.members \subseteq NodeId
      BY <1>2, FileParts DEF Node
    <3> QED
      BY <1>1, <3>1 DEF Listed
  <2> QED
    BY <1>1, <2>1, <2>2, <2>3, <2>4 DEF TypeOK
<1>8. FilesSound /\ GroupsResolve /\ SubsApart
  BY <1>1, <1>2 DEF FilesSound, GroupsResolve, SubsApart
<1>9. ChosenStored
  BY <1>6 DEF ChosenStored, SubIds
<1>10. IntervalStays
  <2> SUFFICES ASSUME NEW p \in Present, NEW s \in LoadProfile(p).subs, chosen[s.id] # None
               PROVE  s.interval = chosen[s.id]
    BY DEF IntervalStays
  <2>1. PICK t \in files[p].subs :
           /\ s.id = t.id
           /\ s.interval = t.interval \/ t.interval \in {0, legacyUpdateIntervalSec}
    BY <1>2, LoadedParts DEF LoadProfile
  <2>2. t.id \in SubId
    BY <1>3 DEF Subscription
  <2>3. PICK q \in Present, u \in All :
           /\ u \in files[q].subs /\ u.id = t.id /\ chosen[t.id] = u.interval
           /\ u.interval \notin {0, legacyUpdateIntervalSec}
    BY <1>6, <2>1, <2>2 DEF All
  <2>4. u = t
    BY <1>4, <2>1, <2>3 DEF All
  <2> QED
    BY <2>1, <2>3, <2>4
<1> QED
  BY <1>7, <1>8, <1>9, <1>10 DEF StoreInv

(* Every step keeps the invariant, and every node its identity.            *)
LEMMA NextKeeps == StoreInv /\ [Next]_vars => StoreInv' /\ (Next => IdentityStep)
<1> SUFFICES ASSUME StoreInv, [Next]_vars PROVE StoreInv' /\ (Next => IdentityStep)
  OBVIOUS
<1>1. ASSUME NEW p \in Profile, CreateProfile(p) \/ DeleteProfile(p)
      PROVE  StoreInv' /\ IdentityStep
  BY <1>1, CreateProfileKeeps, DeleteProfileKeeps
<1>2. ASSUME NEW p \in Present, Verb(p)
      PROVE  StoreInv' /\ IdentityStep
  <2>1. CASE SelectNode(p) \/ SelectRouting(p)
    BY <2>1, SelectKeeps, EditIdentity
  <2>2. CASE AddNode(p)
    BY <2>2, AddNodeKeeps, EditIdentity
  <2>3. CASE RemoveNode(p)
    BY <2>3, RemoveNodeKeeps, EditIdentity
  <2>4. CASE SetNodePrefs(p)
    BY <2>4, SetNodePrefsKeeps, EditIdentity
  <2>5. CASE UpsertGroup(p)
    BY <2>5, UpsertGroupKeeps, EditIdentity
  <2>6. CASE UpsertRouting(p) \/ RemoveRouting(p)
    BY <2>6, RoutingKeeps, EditIdentity
  <2>7. CASE AddSubscription(p)
    BY <2>7, AddSubscriptionKeeps
  <2>8. CASE RefreshSubscriptions(p)
    BY <2>8, RefreshSubscriptionsKeeps
  <2>9. CASE RemoveSubscription(p)
    BY <2>9, RemoveSubscriptionKeeps
  <2>10. CASE UpdateSubscription(p)
    BY <2>10, UpdateSubscriptionKeeps
  <2> QED
    BY <1>2, <2>1, <2>2, <2>3, <2>4, <2>5, <2>6, <2>7, <2>8, <2>9, <2>10 DEF Verb
<1>3. CASE (\E p \in Profile : SetActiveProfile(p)) \/ Sweep \/ Restart
  BY <1>3, NoFileKeeps
<1>4. CASE \E d \in (IF sweep = None THEN {} ELSE sweep.due) : Land(d)
  <2>1. PICK d \in (IF sweep = None THEN {} ELSE sweep.due) : Land(d)
    BY <1>4
  <2>2. sweep # None /\ d \in sweep.due
    BY <2>1
  <2> QED
    BY <2>1, <2>2, LandKeeps
<1>5. CASE UNCHANGED vars
  <2>1. /\ files' = files /\ chosen' = chosen /\ taken' = taken
        /\ current' = current /\ sweep' = sweep /\ notices' = notices
    BY <1>5 DEF vars
  <2> QED
    BY <2>1, SameKeeps DEF StoreInv, TypeOK
<1> QED
  BY <1>1, <1>2, <1>3, <1>4, <1>5 DEF Next

(* The inductive invariant of the store holds in every reachable state.    *)
THEOREM StoreInvariant == Spec => []StoreInv
BY InitStore, NextKeeps, PTL DEF Spec

(* Every stored profile is well formed: nodes and subscriptions keep ids   *)
(* of their own, a subscription's nodes keys of their own, and routing     *)
(* configs ids and names of their own (collect, reconcile, AddRouting).    *)
THEOREM StoreTypeCorrect == Spec => []TypeOK
<1>1. StoreInv => TypeOK
  BY DEF StoreInv
<1> QED
  BY <1>1, StoreInvariant, PTL

(* The active node and the active routing config of every stored profile   *)
(* are in it, after any refresh, removal or landing.                       *)
THEOREM SelectionsAlwaysResolve == Spec => []SelectionsResolve
<1>1. StoreInv => SelectionsResolve
  BY DEF StoreInv, FilesSound, SoundFile, SelectionsResolve
<1> QED
  BY <1>1, StoreInvariant, PTL

(* No node outlives its subscription, however a removal and a fetch under  *)
(* way are ordered.                                                        *)
THEOREM NodesHaveAHome == Spec => []NoOrphans
<1>1. StoreInv => NoOrphans
  BY DEF StoreInv, FilesSound, SoundFile, NoOrphans
<1> QED
  BY <1>1, StoreInvariant, PTL

(* A provider group lists dialable nodes of its own subscription, and      *)
(* otherwise only ids the user removed.                                    *)
THEOREM GroupsAlwaysResolve == Spec => []GroupsResolve
<1>1. StoreInv => GroupsResolve
  BY DEF StoreInv
<1> QED
  BY <1>1, StoreInvariant, PTL

(* A stored error is of the URL the subscription points at, also when it   *)
(* is re-pointed while the old URL is being fetched.                       *)
THEOREM ErrorsAreOfTheUrl == Spec => []ErrorOfUrl
<1>1. StoreInv => ErrorOfUrl
  BY DEF StoreInv, FilesSound, SoundFile, ErrorOfUrl
<1> QED
  BY <1>1, StoreInvariant, PTL

(* No load, save, refresh or migration changes an interval that was chosen.*)
THEOREM ChosenIntervalsStay == Spec => []IntervalStays
<1>1. StoreInv => IntervalStays
  BY DEF StoreInv
<1> QED
  BY <1>1, StoreInvariant, PTL

(* A subscription's node that a step leaves in the profile keeps its id,   *)
(* and its pin when the step is a refresh.                                 *)
THEOREM NodesKeepTheirIdentity == Spec => IdentityKept
<1>1. StoreInv /\ [Next]_vars =>
         [\A p \in Present : files'[p] # None =>
             \A n \in files[p].nodes, m \in files'[p].nodes :
                n.sub # None /\ n.sub = m.sub /\ n.key = m.key =>
                   m.id = n.id /\ (notices' # {} => m.pin = n.pin)]_vars
  BY NextKeeps DEF IdentityStep, SameNode
<1> QED
  BY <1>1, StoreInvariant, PTL DEF Spec, IdentityKept
=============================================================================
