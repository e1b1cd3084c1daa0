----------------------------- MODULE UpdateTrust -----------------------------
(***************************************************************************)
(* update.Check and the landing of its result: what the daemon believes    *)
(* about updates, and the trust state it keeps on disk, the floor below    *)
(* which a manifest is a rollback and the keys it no longer accepts.       *)
(*                                                                         *)
(* The daily loop and every "check now" of a client run Check side by      *)
(* side, with no lock held between its loads and its writes: only one      *)
(* read-modify-write of the state file is atomic (stateMu), so each load   *)
(* and each write is an action of its own.                                 *)
(***************************************************************************)
EXTENDS Naturals

CONSTANTS
    Checker,     \* the update loop and the clients that force a check
    Key,         \* the compiled-in keys
    Recovery,    \* the key that retires the others
    Version,     \* released versions
    Manifest,    \* the verified manifests the mirrors may serve
    Faults,      \* "load", "save": operations on the state file that may fail
    None

(* A manifest that passed verifyManifest: the key that signed it, its seq, *)
(* its version, whether it is of the stable channel, and whether it is     *)
(* fresh and newer than the running build.                                 *)
ManifestType == [key : Key, seq : Nat, version : Version,
                 stable : BOOLEAN, newer : BOOLEAN]

ASSUME TrustAssumption ==
    /\ Recovery \in Key
    /\ Manifest \subseteq ManifestType
    /\ Faults \subseteq {"load", "save"}
    /\ None \notin Manifest /\ None \notin Version

(* update.Result: the version it names (a foreign channel or schema names  *)
(* none) and whether that is an update for this build.                     *)
Result == [version : Version \cup {None}, available : BOOLEAN]

ResultOf(m) == IF m = None THEN [version |-> None, available |-> FALSE]
               ELSE [version |-> m.version, available |-> m.newer]

VARIABLES
    floor,       \* disk: last_seen_seq
    revoked,     \* disk: revoked_key_ids
    check,       \* the checks under way
    result,      \* m.updateResult
    announced,   \* m.updateAnnounced
    accepted,    \* history: the manifests accepted so far
    nudges       \* history: update_available broadcasts of this process, capped at 2

disk == <<floor, revoked>>
vars == <<floor, revoked, check, result, announced, accepted, nudges>>

(* One check: where it is, the manifest it fetched (None once it is known  *)
(* to be of a foreign channel or schema), the revoked keys and the floor   *)
(* it loaded; past is history, the manifests accepted before it started.   *)
CheckState == [pc   : {"idle", "keys", "seq", "revoke", "floor", "land"},
               m    : Manifest \cup {None},
               keys : SUBSET Key,
               last : Nat,
               past : SUBSET Manifest]

IdleCheck == [pc |-> "idle", m |-> None, keys |-> {}, last |-> 0, past |-> {}]

TypeOK ==
    /\ floor \in Nat
    /\ revoked \subseteq Key
    /\ check \in [Checker -> CheckState]
    /\ result \in Result \cup {None}
    /\ announced \in Version \cup {None}
    /\ accepted \subseteq Manifest
    /\ nudges \in [Version -> 0..2]

-----------------------------------------------------------------------------
(* The next state of a check that goes on.                                 *)
Continue(c, st) ==
    /\ check' = [check EXCEPT ![c] = st]
    /\ UNCHANGED <<result, announced, nudges>>

(* Any error returns (nil, error): the cached result stays.                *)
Abandon(c) == Continue(c, IdleCheck) /\ UNCHANGED <<disk, accepted>>

(* noteUpdateAttempt saves the attempt clock with a read-modify-write that *)
(* keeps the floor and the keys; fetchManifest and verifyManifest follow.  *)
(* A fetch or a verification that fails leaves no trace; a foreign schema  *)
(* is a soft result.                                                       *)
Fetch(c) ==
    /\ check[c].pc = "idle"
    /\ \/ \E m \in Manifest :
             Continue(c, [IdleCheck EXCEPT !.pc = "keys", !.m = m, !.past = accepted])
       \/ Continue(c, [IdleCheck EXCEPT !.pc = "land"])
    /\ UNCHANGED <<disk, accepted>>

LoadKeysUnchecked(c) ==
    /\ check[c].pc = "keys"
    /\ Continue(c, [check[c] EXCEPT !.keys = revoked, !.pc = "seq"])
    /\ UNCHANGED <<disk, accepted>>

(* RevokedKeyIDs, then the channel gate.                                   *)
LoadKeys(c) ==
    /\ check[c].pc = "keys"
    /\ \/ /\ "load" \in Faults \/ check[c].m.key \in revoked
          /\ Abandon(c)
       \/ /\ check[c].m.key \notin revoked
          /\ Continue(c, IF check[c].m.stable
                         THEN [check[c] EXCEPT !.keys = revoked, !.pc = "seq"]
                         ELSE [IdleCheck EXCEPT !.pc = "land"])
          /\ UNCHANGED <<disk, accepted>>

LoadSeqUngated(c) ==
    /\ check[c].pc = "seq"
    /\ Continue(c, [check[c] EXCEPT !.last = floor, !.pc = "revoke"])
    /\ UNCHANGED <<disk, accepted>>

LoadSeqIgnoringErrors(c) ==
    /\ check[c].pc = "seq"
    /\ Continue(c, [check[c] EXCEPT !.last = IF "load" \in Faults THEN None ELSE floor,
                                   !.pc = "revoke"])
    /\ UNCHANGED <<disk, accepted>>

(* LastSeenSeq, then the rollback gate.                                    *)
LoadSeq(c) ==
    /\ check[c].pc = "seq"
    /\ \/ /\ "load" \in Faults \/ check[c].m.seq < floor
          /\ Abandon(c)
       \/ /\ check[c].m.seq >= floor
          /\ Continue(c, [check[c] EXCEPT !.last = floor, !.pc = "revoke"])
          /\ UNCHANGED <<disk, accepted>>

(* The keys a recovery signature still has to retire, given those loaded.  *)
Outstanding(st) ==
    IF st.m.key = Recovery THEN Key \ ({Recovery} \cup st.keys) ELSE {}

(* RevokeKeyID, one key per turn of the loop.                              *)
Revoke(c) ==
    /\ check[c].pc = "revoke"
    /\ \/ "save" \in Faults /\ Outstanding(check[c]) # {} /\ Abandon(c)
       \/ \E k \in Outstanding(check[c]) :
             /\ revoked' = revoked \cup {k}
             /\ Continue(c, [check[c] EXCEPT !.keys = @ \cup {k}])
             /\ UNCHANGED <<floor, accepted>>
       \/ /\ Outstanding(check[c]) = {}
          /\ Continue(c, [check[c] EXCEPT !.pc = "floor"])
          /\ UNCHANGED <<disk, accepted>>

SetFloorStale(c) ==
    /\ check[c].pc = "floor"
    /\ floor' = IF check[c].m.seq > check[c].last THEN check[c].m.seq ELSE floor
    /\ revoked' = check[c].keys
    /\ accepted' = accepted \cup {check[c].m}
    /\ Continue(c, [check[c] EXCEPT !.pc = "land"])

(* SetLastSeenSeq, compared against the floor LOADED earlier; past it the  *)
(* manifest is accepted.                                                   *)
SetFloor(c) ==
    /\ check[c].pc = "floor"
    /\ \/ "save" \in Faults /\ check[c].m.seq > check[c].last /\ Abandon(c)
       \/ /\ floor' = IF check[c].m.seq > check[c].last THEN check[c].m.seq ELSE floor
          /\ accepted' = accepted \cup {check[c].m}
          /\ Continue(c, [check[c] EXCEPT !.pc = "land"])
          /\ UNCHANGED revoked

LandRepeating(c) ==
    /\ check[c].pc = "land"
    /\ check' = [check EXCEPT ![c] = IdleCheck]
    /\ result' = ResultOf(check[c].m)
    /\ announced' = IF result'.available THEN result'.version ELSE announced
    /\ nudges' = IF result'.available /\ nudges[result'.version] < 2
                 THEN [nudges EXCEPT ![result'.version] = @ + 1] ELSE nudges
    /\ UNCHANGED <<disk, accepted>>

(* runUpdateCheck, under mu: the result is cached whichever check was      *)
(* started first, and announced when its version is not the one announced  *)
(* last.  (The staged installer it may discard is UpdateStage's state.)    *)
Land(c) ==
    LET res == ResultOf(check[c].m)
        announce == res.available /\ res.version # announced
    IN  /\ check[c].pc = "land"
        /\ check' = [check EXCEPT ![c] = IdleCheck]
        /\ result' = res
        /\ announced' = IF announce THEN res.version ELSE announced
        /\ nudges' = IF announce /\ nudges[res.version] < 2
                     THEN [nudges EXCEPT ![res.version] = @ + 1] ELSE nudges
        /\ UNCHANGED <<disk, accepted>>

(* The process dies and comes back: only the state file survives.          *)
Restart ==
    /\ check' = [c \in Checker |-> IdleCheck]
    /\ result' = None /\ announced' = None
    /\ nudges' = [v \in Version |-> 0]
    /\ UNCHANGED <<disk, accepted>>

Init ==
    /\ floor = 0 /\ revoked = {}
    /\ check = [c \in Checker |-> IdleCheck]
    /\ result = None /\ announced = None
    /\ accepted = {} /\ nudges = [v \in Version |-> 0]

Next ==
    \/ \E c \in Checker : \/ Fetch(c) \/ LoadKeys(c) \/ LoadSeq(c) \/ Revoke(c)
                          \/ SetFloor(c) \/ Land(c)
    \/ Restart

Spec == Init /\ [][Next]_vars

-----------------------------------------------------------------------------
(* A recovery manifest is accepted only with every other key retired on    *)
(* disk, so no crash, failed write or concurrent check leaves the daemon   *)
(* having acted on it and still trusting the key it replaces.              *)
RecoveryRetires ==
    (\E m \in accepted : m.key = Recovery) => Key \ {Recovery} \subseteq revoked

(* The check took its manifest past the key gate.                          *)
PassedKeys(c) == check[c].pc \in {"seq", "revoke", "floor", "land"} /\ check[c].m # None

(* Once a recovery manifest has been accepted, no check that starts later  *)
(* accepts a manifest of another key, restarts and races included.         *)
RetiredKeysStayOut ==
    \A c \in Checker :
       PassedKeys(c) /\ (\E m \in check[c].past : m.key = Recovery) =>
          check[c].m.key = Recovery

(* No check accepts a manifest older than one accepted before it started   *)
(* ("a monotonic counter rejects rollbacks").                              *)
NoRollback ==
    \A c \in Checker :
       check[c].pc = "land" /\ check[c].m # None =>
          \A m \in check[c].past : m.seq <= check[c].m.seq

(* The floor on disk covers every manifest accepted: a write that failed   *)
(* or a crash never leaves an accepted manifest above the floor.           *)
FloorCoversAccepted == \A m \in accepted : m.seq <= floor

(* "Broadcast update_available once per version".                          *)
AnnouncedOnce == \A v \in Version : nudges[v] <= 1

(* What the proofs rest on: a check that passed a gate holds a manifest,   *)
(* the keys it loaded are still revoked, what it saw accepted still is,    *)
(* and a recovery manifest reaches the floor only with every other key     *)
(* retired.                                                                *)
ChecksSound ==
    \A c \in Checker :
       LET st == check[c]
       IN  /\ st.pc \in {"keys", "seq", "revoke", "floor"} => st.m # None
           /\ st.keys \subseteq revoked
           /\ st.past \subseteq accepted
           /\ st.pc = "floor" => Outstanding(st) = {}

TrustInv == TypeOK /\ ChecksSound /\ RecoveryRetires /\ RetiredKeysStayOut

(* One check at a time, as when nobody forces one: the floor a check       *)
(* loaded is the floor it compares with and advances.                      *)
Alone == \A c, d \in Checker : c = d

FloorStands ==
    \A c \in Checker :
       /\ check[c].pc \in {"revoke", "floor"} =>
             check[c].last = floor /\ check[c].m.seq >= floor
       /\ check[c].pc = "land" /\ check[c].m # None => check[c].m.seq >= floor
=============================================================================
