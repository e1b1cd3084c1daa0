-------------------------- MODULE UpdateStageProofs --------------------------
(***************************************************************************)
(* Proofs about UpdateStage: for any number of installers, file names,     *)
(* transfers and apply_update requests, under every fault, what the        *)
(* daemon reports as downloaded or verified is the current, landed and     *)
(* hashed file, and no live temp file is swept.                            *)
(***************************************************************************)
EXTENDS UpdateStage, TLAPS

USE StageAssumption

(* The daemon starts with nothing staged and nothing under way.            *)
LEMMA InitStage == Init => StageInv
<1> SUFFICES ASSUME Init PROVE StageInv
  OBVIOUS
<1>1. TypeOK
  BY DEF Init, TypeOK, Idle, NoApply
<1> QED
  BY <1>1 DEF Init, StageInv, TransferAlone, StagedReported, AppliesSound, LiveTempKept,
              StagedIsCurrent, StagedOnDisk, VerifiedWasHashed, Busy, Idle, NoApply

(* A step that changes nothing keeps the invariant.                        *)
LEMMA StutterStage == StageInv /\ UNCHANGED vars => StageInv'
BY DEF vars, StageInv, TypeOK, TransferAlone, StagedReported, AppliesSound, LiveTempKept,
       StagedIsCurrent, StagedOnDisk, VerifiedWasHashed, Busy

-----------------------------------------------------------------------------
(* A check lands (runUpdateCheck): a staged file it no longer describes    *)
(* goes with its state, so StagedIsCurrent is restored in the same step.   *)
LEMMA LandCheckStage ==
    ASSUME StageInv, NEW res \in Artifact \cup {None}, LandCheck(res)
    PROVE  StageInv'
BY DEF LandCheck, Discard, Remove, Staged, StageInv, TypeOK, TransferAlone, StagedReported,
       AppliesSound, LiveTempKept, StagedIsCurrent, StagedOnDisk, VerifiedWasHashed, Busy

(* startUpdateDownload: the state was not "downloading", so no other       *)
(* transfer is under way.                                                  *)
LEMMA StartDownloadStage ==
    ASSUME StageInv, NEW t \in Transfer, StartDownload(t)
    PROVE  StageInv'
BY DEF StartDownload, Staged, StageInv, TypeOK, TransferAlone, StagedReported, AppliesSound,
       LiveTempKept, StagedIsCurrent, StagedOnDisk, VerifiedWasHashed, Busy

(* RemoveStaleTemps takes every temp file but the transfer's own, and      *)
(* there is no other transfer.                                             *)
LEMMA SweepTempsStage ==
    ASSUME StageInv, NEW t \in Transfer, SweepTemps(t)
    PROVE  StageInv'
BY DEF SweepTemps, Staged, StageInv, TypeOK, TransferAlone, StagedReported, AppliesSound,
       LiveTempKept, StagedIsCurrent, StagedOnDisk, VerifiedWasHashed, Busy

(* Download ends, with the file renamed into place or not: nothing is      *)
(* staged while it runs, so no staged file is overwritten.                 *)
LEMMA FinishStage ==
    ASSUME StageInv, NEW t \in Transfer, Finish(t)
    PROVE  StageInv'
<1>0. /\ Running /\ transfer[t].pc = "transfer"
      /\ UNCHANGED <<proc, result, state, staged, awaited, latest, apply, hashed>>
      /\ temps' = temps \ {t} \/ temps' = temps
  BY DEF Finish
<1>1. CASE /\ disk' = [disk EXCEPT ![NameOf[transfer[t].artifact]] = transfer[t].artifact]
           /\ transfer' = [transfer EXCEPT ![t].pc = "landed"]
  BY <1>0, <1>1 DEF Staged, StageInv, TypeOK, TransferAlone, StagedReported, AppliesSound,
     LiveTempKept, StagedIsCurrent, StagedOnDisk, VerifiedWasHashed, Busy
<1>2. CASE transfer' = [transfer EXCEPT ![t].pc = "failed"] /\ UNCHANGED disk
  BY <1>0, <1>2 DEF Staged, StageInv, TypeOK, TransferAlone, StagedReported, AppliesSound,
     LiveTempKept, StagedIsCurrent, StagedOnDisk, VerifiedWasHashed, Busy
<1> QED
  BY <1>1, <1>2 DEF Finish

(* The end of runUpdateDownload.  What it stages is the artifact the       *)
(* result still names; no request holds a landing of this transfer.        *)
LEMMA SettleStage ==
    ASSUME StageInv, NEW t \in Transfer, Settle(t)
    PROVE  StageInv'
<1> DEFINE a == transfer[t].artifact
           new == [path |-> NameOf[a], artifact |-> a, by |-> t]
<1>0. /\ TypeOK /\ TransferAlone /\ StagedReported /\ AppliesSound
      /\ StagedOnDisk
  BY DEF StageInv
<1>1. /\ t \in Busy /\ Busy = {t} /\ a \in Artifact
      /\ \A c \in Client : apply[c].snap # None => apply[c].snap.by # t
      /\ transfer' = [transfer EXCEPT ![t] = Idle]
      /\ UNCHANGED <<proc, result, awaited, latest, apply, temps, hashed>>
  BY <1>0 DEF Settle, TransferAlone, Busy
<1>2. Busy' = {}
  BY <1>0, <1>1 DEF Busy, Idle, TypeOK
<1>3. new \in Staged /\ new # None
  BY <1>1 DEF Staged
<1>4. CASE transfer[t].pc = "landed" /\ result = a
  <2>1. state' = "downloaded" /\ staged' = new /\ UNCHANGED disk
    BY <1>4 DEF Settle
  <2>2. TypeOK'
    BY <1>0, <1>1, <1>3, <2>1 DEF TypeOK, Idle
  <2>3. disk[NameOf[a]] \in {a, "other"}
    BY <1>0, <1>1, <1>4 DEF TransferAlone
  <2> QED
    BY <1>0, <1>1, <1>2, <1>3, <1>4, <2>1, <2>2, <2>3
       DEF StageInv, TransferAlone, StagedReported, AppliesSound, LiveTempKept,
           StagedIsCurrent, StagedOnDisk, VerifiedWasHashed, Busy, TypeOK
<1>5. CASE ~(transfer[t].pc = "landed" /\ result = a)
  <2>1. /\ state' = "failed" /\ staged' = None
        /\ disk' = disk \/ disk' = [disk EXCEPT ![NameOf[a]] = None]
    BY <1>5 DEF Settle, Remove
  <2>2. TypeOK'
    BY <1>0, <1>1, <2>1 DEF TypeOK, Idle
  <2>3. \A c \in Client : apply[c].pc = "commit" => apply[c].snap # None
    BY <1>0 DEF AppliesSound
  <2> QED
    BY <1>0, <1>1, <1>2, <2>1, <2>2, <2>3
       DEF StageInv, TransferAlone, StagedReported, AppliesSound, LiveTempKept,
           StagedIsCurrent, StagedOnDisk, VerifiedWasHashed, Busy, TypeOK
<1> QED
  BY <1>4, <1>5

-----------------------------------------------------------------------------
(* apply_update remembers what is staged, which no transfer under way made *)
(* (there is none while something is staged).                              *)
LEMMA ApplySnapshotStage ==
    ASSUME StageInv, NEW c \in Client, ApplySnapshot(c)
    PROVE  StageInv'
BY DEF ApplySnapshot, Staged, StageInv, TypeOK, TransferAlone, StagedReported, AppliesSound,
       LiveTempKept, StagedIsCurrent, StagedOnDisk, VerifiedWasHashed, Busy

(* A request changes its own record only, and no staging: what the         *)
(* transfers and the staged file are known to satisfy stays.               *)
LEMMA RequestStep ==
    ASSUME StageInv, NEW c \in Client, NEW r,
           r \in [pc   : {"idle", "hash", "commit", "reply"},
                  snap : Staged \cup {None},
                  seen : {"none", "downloaded", "verified"},
                  good : BOOLEAN],
           apply' = [apply EXCEPT ![c] = r],
           r.snap \in {apply[c].snap, None},
           r.pc = "idle" <=> r.snap = None,
           r.pc = "commit" /\ r.good /\ staged = r.snap => staged.by \in hashed',
           hashed \subseteq hashed', hashed' \subseteq Transfer,
           state' = state \/ (state' = "verified" /\ state = "downloaded"),
           state' = "verified" => staged # None /\ staged.by \in hashed',
           UNCHANGED <<proc, result, staged, transfer, awaited, latest, disk, temps>>
    PROVE  StageInv'
<1>0. /\ TypeOK /\ TransferAlone /\ StagedReported /\ AppliesSound
      /\ LiveTempKept /\ StagedIsCurrent /\ StagedOnDisk
  BY DEF StageInv
<1>1. /\ apply'[c] = r
      /\ \A d \in Client : d # c => apply'[d] = apply[d]
  BY <1>0 DEF TypeOK
<1>2. TypeOK'
  BY <1>0 DEF TypeOK
<1>3. TransferAlone'
  BY <1>0, <1>1 DEF TransferAlone, Busy
<1>4. AppliesSound'
  BY <1>0, <1>1 DEF AppliesSound
<1> QED
  BY <1>0, <1>2, <1>3, <1>4
     DEF StageInv, StagedReported, LiveTempKept, StagedIsCurrent, StagedOnDisk,
         VerifiedWasHashed

(* VerifyFile: a good hash counts for the landing that is still staged.    *)
LEMMA ApplyHashStage ==
    ASSUME StageInv, NEW c \in Client, ApplyHash(c)
    PROVE  StageInv'
<1> DEFINE good == disk[apply[c].snap.path] = apply[c].snap.artifact
           r == [apply[c] EXCEPT !.pc = "commit", !.good = good]
<1>0. TypeOK /\ AppliesSound /\ VerifiedWasHashed
  BY DEF StageInv
<1>1. apply[c].pc = "hash" /\ apply[c].snap # None
  BY <1>0 DEF ApplyHash, AppliesSound
<1>2. apply[c] \in [pc   : {"idle", "hash", "commit", "reply"},
                    snap : Staged \cup {None},
                    seen : {"none", "downloaded", "verified"},
                    good : BOOLEAN]
  BY <1>0 DEF TypeOK
<1>3. apply' = [apply EXCEPT ![c] = r]
  BY <1>0, <1>2 DEF ApplyHash, TypeOK
<1>4. /\ r \in [pc   : {"idle", "hash", "commit", "reply"},
                snap : Staged \cup {None},
                seen : {"none", "downloaded", "verified"},
                good : BOOLEAN]
      /\ r.pc = "commit" /\ r.snap = apply[c].snap /\ r.good = good
  BY <1>2
<1>5. /\ hashed' = IF good /\ staged = apply[c].snap THEN hashed \cup {staged.by} ELSE hashed
      /\ UNCHANGED <<proc, result, state, staged, transfer, awaited, latest, disk, temps>>
  BY DEF ApplyHash
<1>6. staged = apply[c].snap => staged.by \in Transfer
  BY <1>0, <1>1, <1>2 DEF Staged
<1> HIDE DEF r, good
<1> QED
  BY <1>0, <1>1, <1>3, <1>4, <1>5, <1>6, RequestStep DEF TypeOK, VerifiedWasHashed

(* verifyDownloadedUpdate compares under mu: only a landing that is still  *)
(* the staged one becomes "verified", or is discarded with its file.       *)
LEMMA ApplyCommitStage ==
    ASSUME StageInv, NEW c \in Client, ApplyCommit(c)
    PROVE  StageInv'
<1>0. /\ TypeOK /\ TransferAlone /\ StagedReported /\ AppliesSound
      /\ VerifiedWasHashed /\ LiveTempKept
  BY DEF StageInv
<1>1. apply[c].pc = "commit" /\ apply[c].snap # None
  BY <1>0 DEF ApplyCommit, AppliesSound
<1>2. NoApply \in [pc   : {"idle", "hash", "commit", "reply"},
                   snap : Staged \cup {None},
                   seen : {"none", "downloaded", "verified"},
                   good : BOOLEAN]
      /\ NoApply.pc = "idle" /\ NoApply.snap = None
  BY DEF NoApply
<1>3. CASE ~Unchanged(c)
  <2>1. /\ apply' = [apply EXCEPT ![c] = NoApply]
        /\ UNCHANGED <<proc, result, state, staged, transfer, awaited, latest, disk, temps, hashed>>
    BY <1>3 DEF ApplyCommit
  <2> QED
    BY <1>0, <1>2, <2>1, RequestStep DEF TypeOK, VerifiedWasHashed
<1>4. CASE Unchanged(c) /\ ~apply[c].good
  <2>1. /\ apply' = [apply EXCEPT ![c] = NoApply]
        /\ state' = "none" /\ staged' = None
        /\ disk' = disk \/ disk' = [disk EXCEPT ![staged.path] = None]
        /\ UNCHANGED <<proc, result, transfer, awaited, latest, temps, hashed>>
    BY <1>4 DEF ApplyCommit, Discard, Remove
  <2>2. Busy = {} /\ Busy' = {}
    BY <1>0, <1>1, <1>4, <2>1 DEF Unchanged, TransferAlone, StagedReported, Busy
  <2>3. TypeOK'
    BY <1>0, <1>1, <1>2, <1>4, <2>1 DEF TypeOK, Staged, Unchanged
  <2>4. AppliesSound'
    BY <1>0, <1>2, <2>1 DEF AppliesSound, TypeOK
  <2> QED
    BY <1>0, <2>1, <2>2, <2>3, <2>4
       DEF StageInv, TransferAlone, StagedReported, LiveTempKept,
           StagedIsCurrent, StagedOnDisk, VerifiedWasHashed
<1>5. CASE Unchanged(c) /\ apply[c].good
  <2> DEFINE r == [apply[c] EXCEPT !.pc = "reply"]
  <2>1. /\ apply' = [apply EXCEPT ![c] = r]
        /\ state' = "verified"
        /\ UNCHANGED <<proc, result, staged, transfer, awaited, latest, disk, temps, hashed>>
    BY <1>0, <1>5 DEF ApplyCommit, TypeOK
  <2>2. /\ r \in [pc   : {"idle", "hash", "commit", "reply"},
                  snap : Staged \cup {None},
                  seen : {"none", "downloaded", "verified"},
                  good : BOOLEAN]
        /\ r.pc = "reply" /\ r.snap = apply[c].snap
    BY <1>0 DEF TypeOK
  <2>3. staged = apply[c].snap /\ staged # None /\ staged.by \in hashed
    BY <1>0, <1>1, <1>5 DEF Unchanged, AppliesSound
  <2>4. state \in {"downloaded", "verified"}
    BY <1>0, <2>3 DEF StagedReported
  <2> HIDE DEF r
  <2> QED
    BY <1>0, <1>1, <2>1, <2>2, <2>3, <2>4, RequestStep DEF TypeOK
<1> QED
  BY <1>3, <1>4, <1>5

(* The reply ends the request.                                             *)
LEMMA ApplyReplyStage ==
    ASSUME StageInv, NEW c \in Client, ApplyReply(c)
    PROVE  StageInv'
BY DEF ApplyReply, NoApply, Staged, StageInv, TypeOK, TransferAlone, StagedReported,
       AppliesSound, LiveTempKept, StagedIsCurrent, StagedOnDisk, VerifiedWasHashed, Busy

-----------------------------------------------------------------------------
(* Another program replaces a landed file: StagedOnDisk allows for it.     *)
LEMMA SwapFileStage ==
    ASSUME StageInv, NEW n \in FileName, SwapFile(n)
    PROVE  StageInv'
BY DEF SwapFile, memory, Staged, StageInv, TypeOK, TransferAlone, StagedReported,
       AppliesSound, LiveTempKept, StagedIsCurrent, StagedOnDisk, VerifiedWasHashed, Busy

(* Shutdown, exit, crash and boot: the memory stays or is forgotten whole. *)
LEMMA LifecycleStage ==
    ASSUME StageInv, Shutdown \/ Exit \/ Crash \/ Boot
    PROVE  StageInv'
<1>0. TypeOK
  BY DEF StageInv
<1>1. CASE Shutdown
  BY <1>1 DEF Shutdown, StageInv, TypeOK, TransferAlone, StagedReported, AppliesSound,
              LiveTempKept, StagedIsCurrent, StagedOnDisk, VerifiedWasHashed, Busy
<1>2. CASE Exit \/ Crash
  <2>1. proc' \in {"exited", "crashed"} /\ Forget /\ UNCHANGED <<disk, temps>>
    BY <1>2 DEF Exit, Crash
  <2>2. Busy' = {}
    BY <2>1 DEF Forget, Idle, Busy
  <2>3. TypeOK'
    BY <1>0, <2>1 DEF Forget, Idle, NoApply, TypeOK
  <2> QED
    BY <2>1, <2>2, <2>3
       DEF Forget, Idle, NoApply, StageInv, TransferAlone, StagedReported, AppliesSound,
           LiveTempKept, StagedIsCurrent, StagedOnDisk, VerifiedWasHashed
<1>3. CASE Boot
  BY <1>3 DEF Boot, memory, StageInv, TypeOK, TransferAlone, StagedReported, AppliesSound,
              LiveTempKept, StagedIsCurrent, StagedOnDisk, VerifiedWasHashed, Busy
<1> QED
  BY <1>1, <1>2, <1>3

-----------------------------------------------------------------------------
(* Every step keeps the invariant.                                         *)
LEMMA NextStage == StageInv /\ [Next]_vars => StageInv'
<1> SUFFICES ASSUME StageInv, [Next]_vars PROVE StageInv'
  OBVIOUS
<1>1. CASE \E res \in Artifact \cup {None} : LandCheck(res)
  BY <1>1, LandCheckStage
<1>2. ASSUME NEW t \in Transfer, StartDownload(t) \/ Step(t) PROVE StageInv'
  BY <1>2, StartDownloadStage, SweepTempsStage, FinishStage, SettleStage DEF Step
<1>3. ASSUME NEW c \in Client, Request(c) PROVE StageInv'
  BY <1>3, ApplySnapshotStage, ApplyHashStage, ApplyCommitStage, ApplyReplyStage DEF Request
<1>4. CASE \E n \in FileName : SwapFile(n)
  BY <1>4, SwapFileStage
<1>5. CASE Shutdown \/ Exit \/ Crash \/ Boot
  BY <1>5, LifecycleStage
<1>6. CASE UNCHANGED vars
  BY <1>6, StutterStage
<1> QED
  BY <1>1, <1>2, <1>3, <1>4, <1>5, <1>6 DEF Next

(* The invariant behind the five theorems below.                           *)
THEOREM StageInvariant == Spec => []StageInv
<1> QED
  BY InitStage, NextStage, PTL DEF Spec

(* The state of the download machine is well typed.                        *)
THEOREM StageTypeCorrect == Spec => []TypeOK
<1>1. StageInv => TypeOK
  BY DEF StageInv
<1> QED
  BY <1>1, StageInvariant, PTL

(* RemoveStaleTemps never takes the temp file of a running transfer: the   *)
(* download_state lets only one transfer live.                             *)
THEOREM LiveTempsAreKept == Spec => []LiveTempKept
<1>1. StageInv => LiveTempKept
  BY DEF StageInv
<1> QED
  BY <1>1, StageInvariant, PTL

(* "downloaded" and "verified" are only said of a file for the version the *)
(* cached result names, whatever lands while a transfer or a hash runs.    *)
THEOREM StagedStaysCurrent == Spec => []StagedIsCurrent
<1>1. StageInv => StagedIsCurrent
  BY DEF StageInv
<1> QED
  BY <1>1, StageInvariant, PTL

(* No late delete takes a file staged since.                               *)
THEOREM StagedStaysOnDisk == Spec => []StagedOnDisk
<1>1. StageInv => StagedOnDisk
  BY DEF StageInv
<1> QED
  BY <1>1, StageInvariant, PTL

(* The compare-and-set of verifyDownloadedUpdate never credits a landing   *)
(* with the hash of another one under the same name.                       *)
THEOREM VerifiedMeansHashed == Spec => []VerifiedWasHashed
<1>1. StageInv => VerifiedWasHashed
  BY DEF StageInv
<1> QED
  BY <1>1, StageInvariant, PTL
=============================================================================
