-------------------------- MODULE UpdateTrustProofs --------------------------
(***************************************************************************)
(* Proofs about UpdateTrust and UpdateOverlap: key retirement for any      *)
(* number of concurrent checks, and the floor and the announcements for as *)
(* long as no two checks overlap (past that both fail, see the run         *)
(* update_rollback).                                                       *)
(***************************************************************************)
EXTENDS UpdateOverlap, TLAPS

USE TrustAssumption

(* The checks are in a well-typed state after a step of one of them.       *)
LEMMA IdleCheckType == IdleCheck \in CheckState
BY DEF IdleCheck, CheckState

(* The daemon starts with an empty trust state.                            *)
LEMMA InitTrust == Init => TrustInv
<1> SUFFICES ASSUME Init PROVE TrustInv
  OBVIOUS
<1>1. TypeOK
  BY IdleCheckType DEF Init, TypeOK
<1> QED
  BY <1>1 DEF Init, TrustInv, ChecksSound, RecoveryRetires, RetiredKeysStayOut,
              PassedKeys, IdleCheck

(* A check that moves to a sound state while the trust state only grows    *)
(* keeps the invariant; nothing was accepted by that step.                 *)
LEMMA CheckMoves ==
    ASSUME TrustInv, NEW c \in Checker, NEW st \in CheckState,
           check' = [check EXCEPT ![c] = st],
           revoked \subseteq revoked', revoked' \subseteq Key,
           UNCHANGED <<floor, accepted>>,
           result' \in Result \cup {None}, announced' \in Version \cup {None},
           nudges' \in [Version -> 0..2],
           st.pc \in {"keys", "seq", "revoke", "floor"} => st.m # None,
           st.keys \subseteq revoked', st.past \subseteq accepted,
           st.pc = "floor" => Outstanding(st) = {},
           st.pc \in {"seq", "revoke", "floor", "land"} /\ st.m # None
              /\ (\E m \in st.past : m.key = Recovery) => st.m.key = Recovery
    PROVE  TrustInv'
<1>0. TypeOK /\ ChecksSound /\ RecoveryRetires /\ RetiredKeysStayOut
  BY DEF TrustInv
<1>1. check \in [Checker -> CheckState]
  BY <1>0 DEF TypeOK
<1>2. check'[c] = st /\ \A d \in Checker : d # c => check'[d] = check[d]
  BY <1>1
<1>3. TypeOK'
  BY <1>0, <1>1 DEF TypeOK
<1>4. ChecksSound'
  <2> SUFFICES ASSUME NEW d \in Checker
               PROVE  /\ check'[d].pc \in {"keys", "seq", "revoke", "floor"}
                            => check'[d].m # None
                      /\ check'[d].keys \subseteq revoked'
                      /\ check'[d].past \subseteq accepted'
                      /\ check'[d].pc = "floor" => Outstanding(check'[d]) = {}
    BY DEF ChecksSound, Outstanding
  <2>1. CASE d = c
    BY <1>2, <2>1
  <2>2. CASE d # c
    BY <1>0, <1>2, <2>2 DEF ChecksSound
  <2> QED
    BY <2>1, <2>2
<1>5. RecoveryRetires'
  BY <1>0 DEF RecoveryRetires
<1>6. RetiredKeysStayOut'
  <2> SUFFICES ASSUME NEW d \in Checker
               PROVE  check'[d].pc \in {"seq", "revoke", "floor", "land"}
                        /\ check'[d].m # None
                        /\ (\E m \in check'[d].past : m.key = Recovery)
                        => check'[d].m.key = Recovery
    BY DEF RetiredKeysStayOut, PassedKeys
  <2>1. CASE d = c
    BY <1>2, <2>1
  <2>2. CASE d # c
    BY <1>0, <1>2, <2>2 DEF RetiredKeysStayOut, PassedKeys
  <2> QED
    BY <2>1, <2>2
<1> QED
  BY <1>3, <1>4, <1>5, <1>6 DEF TrustInv

(* An error leaves the trust state and the cached result alone.            *)
LEMMA AbandonTrust ==
    ASSUME TrustInv, NEW c \in Checker, Abandon(c)
    PROVE  TrustInv'
BY CheckMoves, IdleCheckType
   DEF Abandon, Continue, disk, IdleCheck, TrustInv, TypeOK

(* The steps of a check before it writes.                                  *)
LEMMA GatesTrust ==
    ASSUME TrustInv, NEW c \in Checker, Fetch(c) \/ LoadKeys(c) \/ LoadSeq(c)
    PROVE  TrustInv'
<1>0. TypeOK /\ ChecksSound /\ RecoveryRetires /\ RetiredKeysStayOut
  BY DEF TrustInv
<1>1. check[c] \in CheckState
  BY <1>0 DEF TypeOK
<1>2. CASE Fetch(c)
  <2>1. CASE Continue(c, [IdleCheck EXCEPT !.pc = "land"])
    <3> DEFINE st == [IdleCheck EXCEPT !.pc = "land"]
    <3>1. /\ st \in CheckState /\ st.pc = "land" /\ st.m = None
          /\ st.keys = {} /\ st.past = {}
      BY DEF CheckState, IdleCheck
    <3>2. Continue(c, st) /\ UNCHANGED <<disk, accepted>>
      BY <1>2, <2>1 DEF Fetch
    <3> HIDE DEF st
    <3> QED
      BY <1>0, <3>1, <3>2, CheckMoves DEF Continue, disk, TypeOK
  <2>2. ASSUME NEW m \in Manifest,
               Continue(c, [IdleCheck EXCEPT !.pc = "keys", !.m = m, !.past = accepted])
        PROVE  TrustInv'
    <3> DEFINE st == [IdleCheck EXCEPT !.pc = "keys", !.m = m, !.past = accepted]
    <3>1. /\ st \in CheckState /\ st.pc = "keys" /\ st.m = m
          /\ st.keys = {} /\ st.past = accepted
      BY <1>0 DEF CheckState, IdleCheck, TypeOK
    <3>2. Continue(c, st) /\ UNCHANGED <<disk, accepted>>
      BY <1>2, <2>2 DEF Fetch
    <3> HIDE DEF st
    <3> QED
      BY <1>0, <3>1, <3>2, CheckMoves DEF Continue, disk, TypeOK
  <2> QED
    BY <1>2, <2>1, <2>2 DEF Fetch
<1>3. CASE LoadKeys(c)
  <2>1. CASE Abandon(c)
    BY <2>1, AbandonTrust
  <2>2. CASE ~Abandon(c)
    <3> DEFINE st == IF check[c].m.stable
                     THEN [check[c] EXCEPT !.keys = revoked, !.pc = "seq"]
                     ELSE [IdleCheck EXCEPT !.pc = "land"]
    <3>1. check[c].m.key \notin revoked /\ Continue(c, st) /\ UNCHANGED <<disk, accepted>>
      BY <1>3, <2>2 DEF LoadKeys
    <3>2. check[c].pc = "keys" /\ check[c].m # None /\ check[c].past \subseteq accepted
      BY <1>0, <1>3 DEF LoadKeys, ChecksSound
    <3>3. check[c].m \in Manifest /\ check[c].m.key \in Key
      BY <1>1, <3>2 DEF CheckState, ManifestType
    <3>4. (\E m \in check[c].past : m.key = Recovery) => check[c].m.key = Recovery
      BY <1>0, <3>1, <3>2, <3>3 DEF RecoveryRetires
    <3>5. st \in CheckState
      BY <1>0, <1>1 DEF CheckState, IdleCheck, TypeOK
    <3>6. /\ st.pc \in {"seq", "land"} /\ (st.pc = "seq" => st.m = check[c].m)
          /\ st.keys \subseteq revoked
          /\ st.past \subseteq check[c].past
          /\ st.pc = "land" => st.m = None
      BY <1>1 DEF CheckState, IdleCheck
    <3> HIDE DEF st
    <3> QED
      BY <1>0, <3>1, <3>2, <3>4, <3>5, <3>6, CheckMoves DEF Continue, disk, TypeOK
  <2> QED
    BY <2>1, <2>2
<1>4. CASE LoadSeq(c)
  <2>1. CASE Abandon(c)
    BY <2>1, AbandonTrust
  <2>2. CASE ~Abandon(c)
    <3> DEFINE st == [check[c] EXCEPT !.last = floor, !.pc = "revoke"]
    <3>1. check[c].pc = "seq" /\ Continue(c, st) /\ UNCHANGED <<disk, accepted>>
      BY <1>4, <2>2 DEF LoadSeq
    <3>2. /\ st \in CheckState /\ st.pc = "revoke" /\ st.m = check[c].m
          /\ st.keys = check[c].keys /\ st.past = check[c].past
      BY <1>0, <1>1 DEF CheckState, TypeOK
    <3>3. /\ st.m # None /\ st.keys \subseteq revoked /\ st.past \subseteq accepted
          /\ (\E m \in st.past : m.key = Recovery) => st.m.key = Recovery
      BY <1>0, <3>1, <3>2 DEF ChecksSound, RetiredKeysStayOut, PassedKeys
    <3> HIDE DEF st
    <3> QED
      BY <1>0, <3>1, <3>2, <3>3, CheckMoves DEF Continue, disk, TypeOK
  <2> QED
    BY <2>1, <2>2
<1> QED
  BY <1>2, <1>3, <1>4

(* RevokeKeyID: the revoked keys grow, and a recovery manifest moves on    *)
(* only when none is outstanding.                                          *)
LEMMA RevokeTrust ==
    ASSUME TrustInv, NEW c \in Checker, Revoke(c)
    PROVE  TrustInv'
<1>0. TypeOK /\ ChecksSound /\ RetiredKeysStayOut /\ check[c].pc = "revoke"
  BY DEF TrustInv, Revoke
<1>1. check[c] \in CheckState
  BY <1>0 DEF TypeOK
<1>2. /\ check[c].m # None /\ check[c].keys \subseteq revoked
      /\ check[c].past \subseteq accepted
      /\ (\E m \in check[c].past : m.key = Recovery) => check[c].m.key = Recovery
  BY <1>0 DEF ChecksSound, RetiredKeysStayOut, PassedKeys
<1>3. CASE Abandon(c)
  BY <1>3, AbandonTrust
<1>4. ASSUME NEW k \in Outstanding(check[c]),
             revoked' = revoked \cup {k},
             Continue(c, [check[c] EXCEPT !.keys = @ \cup {k}]),
             UNCHANGED <<floor, accepted>>
      PROVE  TrustInv'
  <2> DEFINE st == [check[c] EXCEPT !.keys = @ \cup {k}]
  <2>1. k \in Key
    BY <1>4 DEF Outstanding
  <2>2. /\ st \in CheckState /\ st.pc = "revoke" /\ st.m = check[c].m
        /\ st.keys = check[c].keys \cup {k} /\ st.past = check[c].past
    BY <1>0, <1>1, <2>1 DEF CheckState
  <2>3. /\ check' = [check EXCEPT ![c] = st]
        /\ UNCHANGED <<result, announced, nudges, floor, accepted>>
    BY <1>4 DEF Continue
  <2> HIDE DEF st
  <2>4. /\ revoked \subseteq revoked' /\ revoked' \subseteq Key
        /\ st.keys \subseteq revoked'
    BY <1>0, <1>2, <1>4, <2>1, <2>2 DEF TypeOK
  <2>5. /\ result' \in Result \cup {None} /\ announced' \in Version \cup {None}
        /\ nudges' \in [Version -> 0..2]
    BY <1>0, <2>3 DEF TypeOK
  <2>6. /\ st.m # None /\ st.pc # "floor" /\ st.past \subseteq accepted
        /\ (\E m \in st.past : m.key = Recovery) => st.m.key = Recovery
    BY <1>2, <2>2
  <2> QED
    BY <2>2, <2>3, <2>4, <2>5, <2>6, CheckMoves
<1>5. CASE /\ Outstanding(check[c]) = {}
           /\ Continue(c, [check[c] EXCEPT !.pc = "floor"])
           /\ UNCHANGED <<disk, accepted>>
  <2> DEFINE st == [check[c] EXCEPT !.pc = "floor"]
  <2>1. /\ st \in CheckState /\ st.pc = "floor" /\ st.m = check[c].m
        /\ st.keys = check[c].keys /\ st.past = check[c].past
    BY <1>1 DEF CheckState
  <2>2. Outstanding(st) = {}
    BY <1>5, <2>1 DEF Outstanding
  <2>3. /\ check' = [check EXCEPT ![c] = st]
        /\ UNCHANGED <<result, announced, nudges, floor, revoked, accepted>>
    BY <1>5 DEF Continue, disk
  <2> HIDE DEF st
  <2>4. /\ revoked \subseteq revoked' /\ revoked' \subseteq Key
        /\ st.keys \subseteq revoked'
    BY <1>0, <1>2, <2>1, <2>3 DEF TypeOK
  <2>5. /\ result' \in Result \cup {None} /\ announced' \in Version \cup {None}
        /\ nudges' \in [Version -> 0..2]
    BY <1>0, <2>3 DEF TypeOK
  <2>6. /\ st.m # None /\ st.past \subseteq accepted
        /\ (\E m \in st.past : m.key = Recovery) => st.m.key = Recovery
    BY <1>2, <2>1
  <2> QED
    BY <2>1, <2>2, <2>3, <2>4, <2>5, <2>6, CheckMoves
<1> QED
  BY <1>3, <1>4, <1>5 DEF Revoke

(* SetLastSeenSeq and the acceptance of the manifest.                      *)
LEMMA SetFloorTrust ==
    ASSUME TrustInv, NEW c \in Checker, SetFloor(c)
    PROVE  TrustInv'
<1>0. /\ TypeOK /\ ChecksSound /\ RecoveryRetires /\ RetiredKeysStayOut
      /\ check[c].pc = "floor" /\ check \in [Checker -> CheckState]
  BY DEF TrustInv, SetFloor, TypeOK
<1>1. check[c] \in CheckState
  BY <1>0
<1>2. CASE Abandon(c)
  BY <1>2, AbandonTrust
<1>3. CASE ~Abandon(c)
  <2> DEFINE st == [check[c] EXCEPT !.pc = "land"]
  <2>1. /\ floor' = (IF check[c].m.seq > check[c].last THEN check[c].m.seq ELSE floor)
        /\ accepted' = accepted \cup {check[c].m}
        /\ check' = [check EXCEPT ![c] = st]
        /\ UNCHANGED <<result, announced, nudges, revoked>>
    BY <1>3 DEF SetFloor, Continue
  <2>2. check[c].m \in Manifest /\ check[c].m.seq \in Nat /\ check[c].m.key \in Key
    BY <1>0, <1>1 DEF ChecksSound, CheckState, ManifestType
  <2>3. /\ st \in CheckState /\ st.pc = "land" /\ st.m = check[c].m
        /\ st.keys = check[c].keys /\ st.past = check[c].past
    BY <1>1 DEF CheckState
  <2> HIDE DEF st
  <2>4. check'[c] = st /\ \A d \in Checker : d # c => check'[d] = check[d]
    BY <1>0, <2>1
  <2>5. TypeOK'
    BY <1>0, <2>1, <2>2, <2>3 DEF TypeOK
  <2>6. ChecksSound'
    <3> SUFFICES ASSUME NEW d \in Checker
                 PROVE  /\ check'[d].pc \in {"keys", "seq", "revoke", "floor"}
                              => check'[d].m # None
                        /\ check'[d].keys \subseteq revoked'
                        /\ check'[d].past \subseteq accepted'
                        /\ check'[d].pc = "floor" => Outstanding(check'[d]) = {}
      BY DEF ChecksSound, Outstanding
    <3>1. CASE d = c
      BY <1>0, <2>1, <2>3, <2>4, <3>1 DEF ChecksSound
    <3>2. CASE d # c
      BY <1>0, <2>1, <2>4, <3>2 DEF ChecksSound
    <3> QED
      BY <3>1, <3>2
  <2>7. check[c].m.key = Recovery => Key \ {Recovery} \subseteq revoked
    BY <1>0 DEF ChecksSound, Outstanding
  <2>8. RecoveryRetires'
    BY <1>0, <2>1, <2>7 DEF RecoveryRetires
  <2>9. RetiredKeysStayOut'
    <3> SUFFICES ASSUME NEW d \in Checker
                 PROVE  check'[d].pc \in {"seq", "revoke", "floor", "land"}
                          /\ check'[d].m # None
                          /\ (\E m \in check'[d].past : m.key = Recovery)
                          => check'[d].m.key = Recovery
      BY DEF RetiredKeysStayOut, PassedKeys
    <3>1. CASE d = c
      BY <1>0, <2>3, <2>4, <3>1 DEF RetiredKeysStayOut, PassedKeys
    <3>2. CASE d # c
      BY <1>0, <2>4, <3>2 DEF RetiredKeysStayOut, PassedKeys
    <3> QED
      BY <3>1, <3>2
  <2> QED
    BY <2>5, <2>6, <2>8, <2>9 DEF TrustInv
<1> QED
  BY <1>2, <1>3

(* runUpdateCheck landing a result, and a restart.                         *)
LEMMA LandTrust ==
    ASSUME TrustInv, NEW c \in Checker, Land(c)
    PROVE  TrustInv'
<1>0. TypeOK /\ check[c] \in CheckState
  BY DEF TrustInv, TypeOK
<1> DEFINE res == ResultOf(check[c].m)
<1>1. /\ res \in Result
      /\ res.available => res.version \in Version
  BY <1>0 DEF ResultOf, Result, CheckState, ManifestType
<1>2. /\ result' = res
      /\ announced' \in {announced, res.version}
      /\ nudges' \in [Version -> 0..2]
  <2>1. nudges \in [Version -> 0..2]
    BY <1>0 DEF TypeOK
  <2> HIDE DEF res
  <2> QED
    BY <2>1, <1>1 DEF Land, res
<1>3. /\ check' = [check EXCEPT ![c] = IdleCheck]
      /\ UNCHANGED <<floor, revoked, accepted>>
  BY DEF Land, disk
<1>4. /\ result' \in Result \cup {None} /\ announced' \in Version \cup {None}
  BY <1>0, <1>1, <1>2 DEF Result, TypeOK
<1>5. /\ IdleCheck.pc = "idle" /\ IdleCheck.keys = {} /\ IdleCheck.past = {}
  BY DEF IdleCheck
<1> QED
  BY <1>0, <1>2, <1>3, <1>4, <1>5, IdleCheckType, CheckMoves DEF TypeOK

(* Only the state file survives a restart, and it is sound on its own.     *)
LEMMA RestartTrust == TrustInv /\ Restart => TrustInv'
<1> SUFFICES ASSUME TrustInv, Restart PROVE TrustInv'
  OBVIOUS
<1>1. TypeOK'
  BY IdleCheckType DEF Restart, TrustInv, TypeOK, disk
<1> QED
  BY <1>1 DEF Restart, TrustInv, ChecksSound, RecoveryRetires, RetiredKeysStayOut,
              PassedKeys, IdleCheck, disk

(* Every step preserves the invariant.                                     *)
LEMMA NextTrust == TrustInv /\ [Next]_vars => TrustInv'
<1> SUFFICES ASSUME TrustInv, [Next]_vars PROVE TrustInv'
  OBVIOUS
<1>1. ASSUME NEW c \in Checker,
             \/ Fetch(c) \/ LoadKeys(c) \/ LoadSeq(c) \/ Revoke(c)
             \/ SetFloor(c) \/ Land(c)
      PROVE  TrustInv'
  BY <1>1, GatesTrust, RevokeTrust, SetFloorTrust, LandTrust
<1>2. CASE Restart
  BY <1>2, RestartTrust
<1>3. CASE UNCHANGED vars
  BY <1>3 DEF vars, TrustInv, TypeOK, ChecksSound, RecoveryRetires,
              RetiredKeysStayOut, PassedKeys, Outstanding
<1> QED
  BY <1>1, <1>2, <1>3 DEF Next

(* The trust invariant holds for any number of concurrent checks, restarts *)
(* and failing reads and writes of the state file.                         *)
THEOREM TrustInvariant == Spec => []TrustInv
BY InitTrust, NextTrust, PTL DEF Spec

(* The checks, the state file and the cached result are well typed.        *)
THEOREM TrustTypeCorrect == Spec => []TypeOK
<1>1. TrustInv => TypeOK
  BY DEF TrustInv
<1> QED
  BY <1>1, TrustInvariant, PTL

(* A recovery-signed manifest is accepted only once every other key is     *)
(* retired on disk (Check, check.go).                                      *)
THEOREM RecoveryRetiresKeys == Spec => []RecoveryRetires
<1>1. TrustInv => RecoveryRetires
  BY DEF TrustInv
<1> QED
  BY <1>1, TrustInvariant, PTL

(* After a recovery manifest was accepted, a check that starts later takes *)
(* no manifest of another key past the key gate (Check, check.go).         *)
THEOREM RetiredKeysAreRejected == Spec => []RetiredKeysStayOut
<1>1. TrustInv => RetiredKeysStayOut
  BY DEF TrustInv
<1> QED
  BY <1>1, TrustInvariant, PTL

-----------------------------------------------------------------------------
(* One check at a time.  The floor a check compared its manifest with is   *)
(* still the floor when it writes its own.                                 *)
FloorInv == TrustInv /\ FloorStands /\ FloorCoversAccepted

StepOf(c) == \/ Fetch(c) \/ LoadKeys(c) \/ LoadSeq(c) \/ Revoke(c)
             \/ SetFloor(c) \/ Land(c)

(* A check changes no other check, and is under way before or after its    *)
(* step.                                                                   *)
LEMMA OwnStep ==
    ASSUME TypeOK, NEW c \in Checker, StepOf(c)
    PROVE  /\ \A d \in Checker : d # c => check'[d] = check[d]
           /\ check[c].pc # "idle" \/ check'[c].pc # "idle"
<1>1. check \in [Checker -> CheckState]
  BY DEF TypeOK
<1>2. \E st : check' = [check EXCEPT ![c] = st]
  BY DEF StepOf, Fetch, LoadKeys, LoadSeq, Revoke, SetFloor, Land, Abandon, Continue
<1>3. check[c].pc # "idle" \/ check'[c].pc # "idle"
  <2>1. CASE Fetch(c)
    BY <1>1, <2>1 DEF Fetch, Continue, IdleCheck
  <2>2. CASE ~Fetch(c)
    BY <2>2 DEF StepOf, LoadKeys, LoadSeq, Revoke, SetFloor, Land
  <2> QED
    BY <2>1, <2>2
<1> QED
  BY <1>1, <1>2, <1>3

(* The step of the only check under way.                                   *)
LEMMA FloorStep ==
    ASSUME FloorInv, NEW c \in Checker, StepOf(c),
           \A d \in Checker : d # c => check[d].pc = "idle"
    PROVE  (FloorStands /\ FloorCoversAccepted)'
<1>0. /\ check[c] \in CheckState /\ floor \in Nat /\ accepted \subseteq Manifest
      /\ check \in [Checker -> CheckState]
      /\ \A m \in accepted : m.seq <= floor
      /\ \A d \in Checker : d # c => check'[d].pc = "idle"
  BY OwnStep DEF FloorInv, TrustInv, TypeOK, FloorCoversAccepted
<1>1. SUFFICES /\ check'[c].pc \in {"revoke", "floor"} =>
                    check'[c].last = floor' /\ check'[c].m.seq >= floor'
               /\ check'[c].pc = "land" /\ check'[c].m # None => check'[c].m.seq >= floor'
               /\ FloorCoversAccepted'
  BY <1>0 DEF FloorStands
<1>2. CASE Abandon(c)
  BY <1>0, <1>2 DEF Abandon, Continue, IdleCheck, disk, FloorCoversAccepted
<1>3. CASE Fetch(c)
  <2>1. /\ check'[c].pc = "keys" \/ (check'[c].pc = "land" /\ check'[c].m = None)
        /\ UNCHANGED <<floor, accepted>>
    BY <1>0, <1>3 DEF Fetch, Continue, IdleCheck, disk
  <2> QED
    BY <1>0, <2>1 DEF FloorCoversAccepted
<1>4. CASE LoadKeys(c)
  <2>1. CASE ~Abandon(c)
    <3> DEFINE st == IF check[c].m.stable
                     THEN [check[c] EXCEPT !.keys = revoked, !.pc = "seq"]
                     ELSE [IdleCheck EXCEPT !.pc = "land"]
    <3>1. Continue(c, st) /\ UNCHANGED <<disk, accepted>>
      BY <1>4, <2>1 DEF LoadKeys
    <3>2. st.pc = "seq" \/ (st.pc = "land" /\ st.m = None)
      BY <1>0 DEF IdleCheck, CheckState
    <3> HIDE DEF st
    <3>3. check'[c] = st /\ UNCHANGED <<floor, accepted>>
      BY <1>0, <3>1 DEF Continue, disk
    <3> QED
      BY <1>0, <3>2, <3>3 DEF FloorCoversAccepted
  <2> QED
    BY <1>2, <2>1
<1>5. CASE LoadSeq(c)
  <2>1. CASE ~Abandon(c)
    <3> DEFINE st == [check[c] EXCEPT !.last = floor, !.pc = "revoke"]
    <3>1. /\ check[c].m.seq >= floor
          /\ Continue(c, st) /\ UNCHANGED <<disk, accepted>>
      BY <1>5, <2>1 DEF LoadSeq
    <3>2. st.pc = "revoke" /\ st.last = floor /\ st.m = check[c].m
      BY <1>0 DEF CheckState
    <3> HIDE DEF st
    <3>3. check'[c] = st /\ UNCHANGED <<floor, accepted>>
      BY <1>0, <3>1 DEF Continue, disk
    <3> QED
      BY <1>0, <3>1, <3>2, <3>3 DEF FloorCoversAccepted
  <2> QED
    BY <1>2, <2>1
<1>6. CASE Revoke(c)
  BY <1>0, <1>2, <1>6 DEF Revoke, Continue, CheckState, disk, FloorCoversAccepted,
                          FloorInv, FloorStands
<1>7. CASE SetFloor(c)
  <2>1. /\ check[c].last = floor /\ check[c].m.seq >= floor /\ check[c].m # None
    BY <1>7 DEF SetFloor, FloorInv, FloorStands, TrustInv, ChecksSound
  <2>2. check[c].m \in Manifest /\ check[c].m.seq \in Nat
    BY <1>0, <2>1 DEF CheckState, ManifestType
  <2>3. CASE ~Abandon(c)
    <3>1. /\ floor' = check[c].m.seq
          /\ accepted' = accepted \cup {check[c].m}
          /\ check' = [check EXCEPT ![c] = [check[c] EXCEPT !.pc = "land"]]
      BY <1>0, <1>7, <2>1, <2>2, <2>3 DEF SetFloor, Continue
    <3>2. \A m \in accepted : m.seq \in Nat
      BY <1>0 DEF ManifestType
    <3>3. FloorCoversAccepted'
      BY <1>0, <2>1, <2>2, <3>1, <3>2 DEF FloorCoversAccepted
    <3>4. check'[c].pc = "land" /\ check'[c].m = check[c].m
      BY <1>0, <3>1 DEF CheckState
    <3> QED
      BY <2>2, <3>1, <3>3, <3>4
  <2> QED
    BY <1>2, <2>3
<1>8. CASE Land(c)
  BY <1>0, <1>8 DEF Land, IdleCheck, disk, FloorCoversAccepted
<1> QED
  BY <1>3, <1>4, <1>5, <1>6, <1>7, <1>8 DEF StepOf

(* With one check at a time, every step keeps the floor above what was     *)
(* accepted.                                                               *)
LEMMA NextFloor ==
    ASSUME Alone PROVE FloorInv /\ [Next]_vars => FloorInv'
<1> SUFFICES ASSUME FloorInv, [Next]_vars PROVE FloorInv'
  OBVIOUS
<1>1. TrustInv'
  BY NextTrust DEF FloorInv
<1>2. ASSUME NEW c \in Checker, StepOf(c)
      PROVE  (FloorStands /\ FloorCoversAccepted)'
  BY <1>2, FloorStep DEF Alone
<1>3. CASE Restart
  BY <1>1, <1>3 DEF Restart, disk, IdleCheck, FloorInv, FloorStands, FloorCoversAccepted
<1>4. CASE UNCHANGED vars
  BY <1>1, <1>4 DEF vars, FloorInv, FloorStands, FloorCoversAccepted
<1> QED
  BY <1>1, <1>2, <1>3, <1>4 DEF Next, StepOf, FloorInv

(* A manifest past the rollback gate is at least as new as everything the  *)
(* floor covers.                                                           *)
LEMMA FloorGivesNoRollback == FloorInv => FloorCoversAccepted /\ NoRollback
<1> SUFFICES ASSUME FloorInv, NEW c \in Checker, check[c].pc = "land", check[c].m # None,
                    NEW m \in check[c].past
             PROVE  m.seq <= check[c].m.seq
  BY DEF FloorInv, NoRollback
<1>1. m \in accepted /\ m.seq <= floor /\ check[c].m.seq >= floor
  BY DEF FloorInv, TrustInv, ChecksSound, FloorStands, FloorCoversAccepted
<1>2. m.seq \in Nat /\ check[c].m.seq \in Nat /\ floor \in Nat
  BY <1>1 DEF FloorInv, TrustInv, TypeOK, CheckState, ManifestType
<1> QED
  BY <1>1, <1>2

(* A daemon whose checks never overlap accepts no manifest older than one  *)
(* accepted before, across restarts and whatever write of the state file   *)
(* fails (Check, check.go).                                                *)
THEOREM AloneNoRollback ==
    ASSUME Alone PROVE Spec => [](FloorCoversAccepted /\ NoRollback)
<1>1. Init => FloorInv
  <2> SUFFICES ASSUME Init PROVE FloorInv
    OBVIOUS
  <2> QED
    BY InitTrust DEF Init, IdleCheck, FloorInv, FloorStands, FloorCoversAccepted
<1>2. FloorInv /\ [Next]_vars => FloorInv'
  BY NextFloor
<1>3. FloorInv => FloorCoversAccepted /\ NoRollback
  BY FloorGivesNoRollback
<1> QED
  BY <1>1, <1>2, <1>3, PTL DEF Spec

-----------------------------------------------------------------------------
(* Any number of checks, until two overlap.                                *)

(* A check that accepts its manifest records it in the same step, and what *)
(* was accepted stays.                                                     *)
LEMMA LandsAcceptedStep ==
    ASSUME TrustInv, LandsAccepted, NEW c \in Checker, StepOf(c)
    PROVE  LandsAccepted'
<1>0. /\ check \in [Checker -> CheckState] /\ check[c] \in CheckState
      /\ \A d \in Checker : d # c => check'[d] = check[d]
  BY OwnStep DEF TrustInv, TypeOK
<1>1. accepted \subseteq accepted'
  BY DEF StepOf, Fetch, LoadKeys, LoadSeq, Revoke, SetFloor, Land, Abandon
<1>2. SUFFICES check'[c].pc = "land" /\ check'[c].m # None => check'[c].m \in accepted'
  BY <1>0, <1>1 DEF LandsAccepted
<1>3. CASE Fetch(c)
  BY <1>0, <1>3 DEF Fetch, Continue, IdleCheck
<1>4. CASE LoadKeys(c)
  <2> DEFINE st == [check[c] EXCEPT !.keys = revoked, !.pc = "seq"]
             foreign == [IdleCheck EXCEPT !.pc = "land"]
  <2>1. st.pc = "seq" /\ foreign.m = None /\ IdleCheck.pc = "idle"
    BY <1>0 DEF CheckState, IdleCheck
  <2>2. \/ check' = [check EXCEPT ![c] = IdleCheck]
        \/ check' = [check EXCEPT ![c] = st]
        \/ check' = [check EXCEPT ![c] = foreign]
    BY <1>4 DEF LoadKeys, Abandon, Continue
  <2> HIDE DEF st, foreign
  <2> QED
    BY <1>0, <2>1, <2>2
<1>5. CASE LoadSeq(c)
  <2> DEFINE st == [check[c] EXCEPT !.last = floor, !.pc = "revoke"]
  <2>1. st.pc = "revoke" /\ IdleCheck.pc = "idle"
    BY <1>0 DEF CheckState, IdleCheck
  <2>2. \/ check' = [check EXCEPT ![c] = IdleCheck]
        \/ check' = [check EXCEPT ![c] = st]
    BY <1>5 DEF LoadSeq, Abandon, Continue
  <2> HIDE DEF st
  <2> QED
    BY <1>0, <2>1, <2>2
<1>6. CASE Revoke(c)
  BY <1>0, <1>6 DEF Revoke, Abandon, Continue, IdleCheck, CheckState
<1>7. CASE SetFloor(c)
  BY <1>0, <1>7 DEF SetFloor, Abandon, Continue, IdleCheck, CheckState
<1>8. CASE Land(c)
  BY <1>0, <1>8 DEF Land, IdleCheck
<1> QED
  BY <1>3, <1>4, <1>5, <1>6, <1>7, <1>8 DEF StepOf

(* Without an overlap so far, the check that takes a step is the only one. *)
LEMMA StepAlone ==
    ASSUME OverlapInv, ~overlapped', NEW c \in Checker, StepOf(c),
           overlapped' = (overlapped \/ \E b, d \in Checker : b # d /\ {b, d} \subseteq Busy')
    PROVE  ~overlapped /\ \A d \in Checker : d # c => check[d].pc = "idle"
<1>1. /\ \A d \in Checker : d # c => check'[d] = check[d]
      /\ check[c].pc # "idle" \/ check'[c].pc # "idle"
  BY OwnStep DEF OverlapInv, TrustInv
<1>2. ~overlapped /\ ~(\E b, d \in Checker : b # d /\ {b, d} \subseteq Busy')
  BY DEF OverlapInv
<1>3. /\ \A b, d \in Busy : b = d
      /\ \A b, d \in Busy' : b = d
  BY <1>2 DEF OverlapInv, OneBusy, Busy
<1> QED
  BY <1>1, <1>2, <1>3 DEF Busy

(* The invariant of an execution whose checks may come to overlap.         *)
LEMMA OverlapStep ==
    OverlapInv /\ [OverlapNext]_<<vars, overlapped>> => OverlapInv'
<1> SUFFICES ASSUME OverlapInv, [OverlapNext]_<<vars, overlapped>> PROVE OverlapInv'
  OBVIOUS
<1>1. CASE UNCHANGED <<vars, overlapped>>
  BY <1>1, NextTrust DEF vars, OverlapInv, OneBusy, Busy, LandsAccepted, FloorStands,
                         FloorCoversAccepted
<1>2. CASE OverlapNext
  <2>1. TrustInv'
    BY <1>2, NextTrust DEF OverlapNext, OverlapInv
  <2>2. OneBusy'
    BY <1>2 DEF OverlapNext, OneBusy, Busy
  <2>3. ASSUME NEW c \in Checker, StepOf(c)
        PROVE  LandsAccepted' /\ (~overlapped' => (FloorStands /\ FloorCoversAccepted)')
    BY <1>2, <2>3, LandsAcceptedStep, StepAlone, FloorStep
       DEF OverlapNext, OverlapInv, FloorInv
  <2>4. ASSUME Restart
        PROVE  LandsAccepted' /\ (~overlapped' => (FloorStands /\ FloorCoversAccepted)')
    <3>1. /\ \A c \in Checker : check'[c].pc = "idle"
          /\ UNCHANGED <<floor, accepted>>
      BY <2>4 DEF Restart, disk, IdleCheck
    <3>2. overlapped \in BOOLEAN /\ (overlapped => overlapped')
      BY <1>2 DEF OverlapNext, OverlapInv
    <3> QED
      BY <3>1, <3>2 DEF OverlapInv, LandsAccepted, FloorStands, FloorCoversAccepted
  <2> QED
    BY <1>2, <2>1, <2>2, <2>3, <2>4 DEF OverlapNext, Next, StepOf, OverlapInv
<1> QED
  BY <1>1, <1>2

(* No check is under way at the start, so no two have overlapped.           *)
LEMMA OverlapStart == OverlapInit => OverlapInv
<1> SUFFICES ASSUME OverlapInit PROVE OverlapInv
  OBVIOUS
<1> QED
  BY InitTrust DEF OverlapInit, Init, IdleCheck, OverlapInv, OneBusy, Busy, LandsAccepted,
                   FloorStands, FloorCoversAccepted

(* For any number of checks, keys and releases: a rollback is accepted, or *)
(* an accepted manifest is above the floor, only after two checks were     *)
(* under way at once (Check, check.go).                                    *)
THEOREM RollbackTakesARace == OverlapSpec => []RollbackNeedsRace
<1>1. OverlapInv => RollbackNeedsRace
  BY FloorGivesNoRollback DEF OverlapInv, FloorInv, RollbackNeedsRace
<1> QED
  BY <1>1, OverlapStart, OverlapStep, PTL DEF OverlapSpec

(* A check that lands without an overlap announces a version that was not  *)
(* broadcast before: it is at least as new as what was announced last, and *)
(* releases go forward.                                                    *)
LEMMA LandAnnounces ==
    ASSUME ReleasesOrdered, OverlapInv, FloorStands, FloorCoversAccepted,
           AnnouncedLatest, AnnouncedOnce, NEW c \in Checker, Land(c)
    PROVE  (AnnouncedLatest /\ AnnouncedOnce)'
<1> DEFINE m == check[c].m
           res == ResultOf(m)
           announce == res.available /\ res.version # announced
<1>0. /\ check[c] \in CheckState /\ check[c].pc = "land"
      /\ floor \in Nat /\ accepted \subseteq Manifest
      /\ nudges \in [Version -> 0..2]
      /\ UNCHANGED accepted
  BY DEF OverlapInv, TrustInv, TypeOK, Land
<1>1. CASE ~announce
  BY <1>0, <1>1 DEF Land, AnnouncedLatest, AnnouncedOnce
<1>2. CASE announce
  <2>1. m # None /\ m \in accepted /\ m.seq >= floor /\ res.version = m.version
    BY <1>0, <1>2 DEF ResultOf, OverlapInv, LandsAccepted, FloorStands
  <2>2. m \in Manifest /\ m.version \in Version /\ m.seq \in Nat
    BY <1>0, <2>1 DEF ManifestType
  <2>3. \A n \in accepted : n \in Manifest /\ n.seq \in Nat /\ n.seq <= m.seq
    BY <1>0, <2>1, <2>2 DEF FloorCoversAccepted, ManifestType
  <2>4. nudges[m.version] = 0
    <3> SUFFICES ASSUME nudges[m.version] # 0 PROVE FALSE
      OBVIOUS
    <3>1. nudges[m.version] > 0
      BY <1>0, <2>2
    <3>2. PICK l \in accepted, n \in accepted :
             l.version = m.version /\ n.version = announced /\ l.seq <= n.seq
      BY <2>2, <3>1 DEF AnnouncedLatest
    <3>3. n.version = m.version
      BY <2>2, <2>3, <3>2 DEF ReleasesOrdered
    <3> QED
      BY <1>2, <2>1, <3>2, <3>3
  <2>5. announced' = m.version /\ nudges' = [nudges EXCEPT ![m.version] = 1]
    BY <1>0, <1>2, <2>1, <2>2, <2>4 DEF Land
  <2> HIDE DEF m, announce, res
  <2>6. AnnouncedOnce'
    BY <1>0, <2>2, <2>5 DEF AnnouncedOnce
  <2>7. AnnouncedLatest'
    <3> SUFFICES ASSUME NEW v \in Version, nudges'[v] > 0
                 PROVE  \E l, n \in accepted : /\ l.version = v /\ n.version = announced'
                                               /\ l.seq <= n.seq
      BY <1>0 DEF AnnouncedLatest
    <3>1. CASE v = m.version
      BY <2>1, <2>2, <2>5, <3>1
    <3>2. CASE v # m.version
      <4>1. nudges[v] > 0
        BY <1>0, <2>5, <3>2
      <4>2. PICK l \in accepted : l.version = v
        BY <4>1 DEF AnnouncedLatest
      <4> QED
        BY <2>1, <2>3, <2>5, <4>2
    <3> QED
      BY <3>1, <3>2
  <2> QED
    BY <2>6, <2>7
<1> QED
  BY <1>1, <1>2

(* Every step keeps the last announcement the latest version accepted, as   *)
(* long as no two checks have overlapped.                                   *)
LEMMA AnnounceStep ==
    ASSUME ReleasesOrdered
    PROVE  AnnounceInv /\ [OverlapNext]_<<vars, overlapped>> => AnnounceInv'
<1> SUFFICES ASSUME AnnounceInv, [OverlapNext]_<<vars, overlapped>> PROVE AnnounceInv'
  OBVIOUS
<1>1. OverlapInv'
  BY OverlapStep DEF AnnounceInv
<1>2. SUFFICES ASSUME ~overlapped' PROVE (AnnouncedLatest /\ AnnouncedOnce)'
  BY <1>1 DEF AnnounceInv
<1>3. ~overlapped
  BY <1>2 DEF OverlapNext, AnnounceInv, OverlapInv
<1>4. AnnouncedLatest /\ AnnouncedOnce /\ FloorStands /\ FloorCoversAccepted /\ OverlapInv
  BY <1>3 DEF AnnounceInv, OverlapInv
<1>5. ASSUME NEW c \in Checker, Land(c) PROVE (AnnouncedLatest /\ AnnouncedOnce)'
  BY <1>4, <1>5, LandAnnounces
<1>6. ASSUME UNCHANGED <<announced, nudges>>, accepted \subseteq accepted'
      PROVE  (AnnouncedLatest /\ AnnouncedOnce)'
  BY <1>4, <1>6 DEF AnnouncedLatest, AnnouncedOnce
<1>7. ASSUME NEW c \in Checker,
             Fetch(c) \/ LoadKeys(c) \/ LoadSeq(c) \/ Revoke(c) \/ SetFloor(c)
      PROVE  (AnnouncedLatest /\ AnnouncedOnce)'
  BY <1>6, <1>7 DEF Fetch, LoadKeys, LoadSeq, Revoke, SetFloor, Abandon, Continue
<1>8. CASE Restart
  BY <1>8 DEF Restart, AnnouncedLatest, AnnouncedOnce
<1>9. CASE UNCHANGED <<vars, overlapped>>
  BY <1>6, <1>9 DEF vars
<1> QED
  BY <1>5, <1>7, <1>8, <1>9 DEF OverlapNext, Next

(* For any number of checks: as long as releases go forward, a version is  *)
(* broadcast a second time in one process only after two checks were under *)
(* way at once (runUpdateCheck).                                           *)
THEOREM RepeatsTakeARace ==
    ASSUME ReleasesOrdered PROVE OverlapSpec => []AnnouncedOnceAlone
<1>1. OverlapInit => AnnounceInv
  <2> SUFFICES ASSUME OverlapInit PROVE AnnounceInv
    OBVIOUS
  <2> QED
    BY OverlapStart DEF OverlapInit, Init, AnnounceInv, AnnouncedLatest, AnnouncedOnce
<1>2. AnnounceInv /\ [OverlapNext]_<<vars, overlapped>> => AnnounceInv'
  BY AnnounceStep
<1>3. AnnounceInv => AnnouncedOnceAlone
  BY DEF AnnounceInv, AnnouncedOnceAlone
<1> QED
  BY <1>1, <1>2, <1>3, PTL DEF OverlapSpec
=============================================================================
