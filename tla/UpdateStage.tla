----------------------------- MODULE UpdateStage -----------------------------
(***************************************************************************)
(* The installer the daemon downloads and hands over: the download_state   *)
(* machine, the file staged on disk, and what may race for them, a         *)
(* transfer, checks that change the cached result, apply_update requests   *)
(* that hash the file with mu released, shutdown and crashes.              *)
(*                                                                         *)
(* A step under manager.mu is one action; the transfer and the hash run    *)
(* without it and are actions of their own.                                *)
(***************************************************************************)
EXTENDS Naturals, FiniteSets

CONSTANTS
    Artifact,    \* installers a manifest may describe
    FileName,    \* their base names; a release may reuse one
    NameOf,      \* the file name of each artifact
    Client,      \* connections that may apply_update
    Transfer,    \* download goroutines
    Faults,      \* "swap": a landed file may be replaced by other bytes,
                 \* "remove": deleting a file may fail
    None

(* updateFilePath and updateFileArtifact.  The pointer's identity, which   *)
(* the compare-and-set of apply_update looks at, is the transfer's.        *)
Staged == [path : FileName, artifact : Artifact, by : Transfer]

ASSUME StageAssumption ==
    /\ NameOf \in [Artifact -> FileName]
    /\ Faults \subseteq {"swap", "remove"}
    /\ None \notin Artifact /\ None \notin FileName /\ None \notin Transfer
    /\ None \notin Staged
    /\ "other" \notin Artifact

VARIABLES
    proc,      \* "up", "stopping" (in shutdown()), "exited" or "crashed"
    result,    \* the artifact of m.updateResult when an update is available
    state,     \* m.updateDownloadState, "none" for ""
    staged,    \* m.updateFilePath, m.updateFileArtifact
    transfer,  \* the download goroutines: where each is, and its artifact
    awaited,   \* the transfers shutdown() cancelled and waits for
    latest,    \* m.updateDownloadCancel, m.updateDownloadDone: the last one started
    apply,     \* the apply_update requests
    disk,      \* the updates directory: the bytes under each name
    temps,     \* the updates directory: temp files, by the transfer that made them
    hashed     \* history: the transfers whose landed file passed VerifyFile

memory == <<result, state, staged, transfer, awaited, latest, apply>>
vars   == <<proc, result, state, staged, transfer, awaited, latest, apply, disk, temps, hashed>>

Idle == [pc |-> "idle", artifact |-> None]

NoApply == [pc |-> "idle", snap |-> None, seen |-> "none", good |-> FALSE]

TypeOK ==
    /\ proc \in {"up", "stopping", "exited", "crashed"}
    /\ result \in Artifact \cup {None}
    /\ state \in {"none", "downloading", "downloaded", "verified", "failed"}
    /\ staged \in Staged \cup {None}
    /\ transfer \in [Transfer -> [pc : {"idle", "sweep", "transfer", "landed", "failed"},
                                  artifact : Artifact \cup {None}]]
    /\ awaited \subseteq Transfer
    /\ latest \in Transfer \cup {None}
    /\ apply \in [Client -> [pc   : {"idle", "hash", "commit", "reply"},
                             snap : Staged \cup {None},
                             seen : {"none", "downloaded", "verified"},
                             good : BOOLEAN]]
    /\ disk \in [FileName -> Artifact \cup {"other", None}]
    /\ temps \subseteq Transfer
    /\ hashed \subseteq Transfer

-----------------------------------------------------------------------------
Running == proc \in {"up", "stopping"}

HeldByShutdown == proc = "up"

(* manager.mu can be taken: shutdown() waits for the transfer with it      *)
(* released.                                                               *)
Unlocked == Running

Busy == {t \in Transfer : transfer[t].pc # "idle"}

(* os.Remove, whose error is only logged.                                  *)
Remove(n) ==
    \/ disk' = [disk EXCEPT ![n] = None]
    \/ "remove" \in Faults /\ UNCHANGED disk

(* discardStagedUpdateLocked: the file goes with the state, under mu.      *)
Discard ==
    /\ state' = "none" /\ staged' = None
    /\ Remove(staged.path)

KeepOnCheck(res) ==
    /\ Unlocked
    /\ result' = res
    /\ UNCHANGED <<proc, state, staged, transfer, awaited, latest, apply, disk, temps, hashed>>

(* runUpdateCheck landing: a staged file the result no longer describes is *)
(* discarded.                                                              *)
LandCheck(res) ==
    /\ Unlocked
    /\ result' = res
    /\ IF state \in {"downloaded", "verified"} /\ staged # None /\ staged.artifact # res
       THEN Discard
       ELSE UNCHANGED <<state, staged, disk>>
    /\ UNCHANGED <<proc, transfer, awaited, latest, apply, temps, hashed>>

-----------------------------------------------------------------------------
StartAgain(t) ==
    /\ Unlocked
    /\ result # None
    /\ t \notin Busy \cup temps
    /\ staged # None => staged.by # t
    /\ \A c \in Client : apply[c].snap # None => apply[c].snap.by # t
    /\ state' = "downloading" /\ staged' = None /\ latest' = t
    /\ transfer' = [transfer EXCEPT ![t] = [pc |-> "sweep", artifact |-> result]]
    /\ awaited' = awaited \ {t} /\ hashed' = hashed \ {t}
    /\ UNCHANGED <<proc, result, apply, disk, temps>>

(* startUpdateDownload: one at a time.  The goroutine that runs it has an  *)
(* identity no request still remembers.                                    *)
StartDownload(t) ==
    /\ Unlocked
    /\ state # "downloading" /\ result # None
    /\ t \notin Busy \cup temps
    /\ staged # None => staged.by # t
    /\ \A c \in Client : apply[c].snap # None => apply[c].snap.by # t
    /\ state' = "downloading" /\ staged' = None /\ latest' = t
    /\ transfer' = [transfer EXCEPT ![t] = [pc |-> "sweep", artifact |-> result]]
    /\ awaited' = awaited \ {t} /\ hashed' = hashed \ {t}
    /\ UNCHANGED <<proc, result, apply, disk, temps>>

(* RemoveStaleTemps, then the temp file of the first mirror that answers.  *)
(* The transfer's mirrors, tried in turn, share one temp file here.        *)
SweepTemps(t) ==
    /\ Running /\ transfer[t].pc = "sweep"
    /\ \/ temps' = {t}
       \/ "remove" \in Faults /\ temps' = temps \cup {t}
    /\ transfer' = [transfer EXCEPT ![t].pc = "transfer"]
    /\ UNCHANGED <<proc, result, state, staged, awaited, latest, apply, disk, hashed>>

(* Download: the body matched size and hash and was renamed into place, or *)
(* every mirror failed, or the context was cancelled or timed out first (a *)
(* cancelled transfer whose body is complete still lands).  The rename     *)
(* takes the temp file; the deferred remove of a failure may fail too.     *)
Finish(t) ==
    /\ Running /\ transfer[t].pc = "transfer"
    /\ \/ /\ disk' = [disk EXCEPT ![NameOf[transfer[t].artifact]] = transfer[t].artifact]
          /\ transfer' = [transfer EXCEPT ![t].pc = "landed"]
          /\ temps' = temps \ {t}
       \/ /\ transfer' = [transfer EXCEPT ![t].pc = "failed"]
          /\ temps' = temps \ {t} \/ ("remove" \in Faults /\ UNCHANGED temps)
          /\ UNCHANGED disk
    /\ UNCHANGED <<proc, result, state, staged, awaited, latest, apply, hashed>>

SettleLateRead(t) ==
    /\ Unlocked /\ transfer[t].pc \in {"landed", "failed"}
    /\ transfer' = [transfer EXCEPT ![t] = Idle]
    /\ IF transfer[t].pc = "landed"
       THEN /\ state' = "downloaded"
            /\ staged' = [path |-> NameOf[transfer[t].artifact], artifact |-> result, by |-> t]
       ELSE state' = "failed" /\ staged' = None
    /\ UNCHANGED <<proc, result, awaited, latest, apply, disk, temps, hashed>>

SettleSilently(t) ==
    LET a == transfer[t].artifact
        current == transfer[t].pc = "landed" /\ result = a
    IN  /\ Unlocked /\ transfer[t].pc \in {"landed", "failed"}
        /\ transfer' = [transfer EXCEPT ![t] = Idle]
        /\ state' = IF current THEN "downloaded" ELSE state
        /\ staged' = IF current THEN [path |-> NameOf[a], artifact |-> a, by |-> t] ELSE None
        /\ UNCHANGED <<proc, result, awaited, latest, apply, disk, temps, hashed>>

(* The end of runUpdateDownload, under mu: a landed file the cached result *)
(* no longer describes is removed and not staged.                          *)
Settle(t) ==
    LET a == transfer[t].artifact
        landed == transfer[t].pc = "landed"
        current == landed /\ result = a
    IN  /\ Unlocked /\ transfer[t].pc \in {"landed", "failed"}
        /\ transfer' = [transfer EXCEPT ![t] = Idle]
        /\ state' = IF current THEN "downloaded" ELSE "failed"
        /\ staged' = IF current THEN [path |-> NameOf[a], artifact |-> a, by |-> t] ELSE None
        /\ IF landed /\ ~current THEN Remove(NameOf[a]) ELSE UNCHANGED disk
        /\ UNCHANGED <<proc, result, awaited, latest, apply, temps, hashed>>

-----------------------------------------------------------------------------
(* verifyDownloadedUpdate: snapshot, hash, compare-and-set, reply.         *)
ApplySnapshot(c) ==
    /\ Unlocked /\ apply[c].pc = "idle"
    /\ state \in {"downloaded", "verified"} /\ staged # None
    /\ apply' = [apply EXCEPT ![c] = [pc |-> "hash", snap |-> staged, seen |-> state, good |-> FALSE]]
    /\ UNCHANGED <<proc, result, state, staged, transfer, awaited, latest, disk, temps, hashed>>

(* VerifyFile on whatever is under that name by then.                      *)
ApplyHash(c) ==
    LET good == disk[apply[c].snap.path] = apply[c].snap.artifact
    IN  /\ Running /\ apply[c].pc = "hash"
        /\ apply' = [apply EXCEPT ![c].pc = "commit", ![c].good = good]
        /\ hashed' = IF good /\ staged = apply[c].snap THEN hashed \cup {staged.by} ELSE hashed
        /\ UNCHANGED <<proc, result, state, staged, transfer, awaited, latest, disk, temps>>

UnchangedPath(c) ==
    staged # None /\ staged.path = apply[c].snap.path /\ state = apply[c].seen

(* The comparison: the path, the state and the artifact pointer.           *)
Unchanged(c) == staged = apply[c].snap /\ state = apply[c].seen

ApplyCommitBlind(c) ==
    /\ Unlocked /\ apply[c].pc = "commit"
    /\ \/ /\ ~Unchanged(c)
          /\ apply' = [apply EXCEPT ![c] = NoApply]
          /\ IF apply[c].good THEN UNCHANGED disk ELSE Remove(apply[c].snap.path)
          /\ UNCHANGED <<state, staged>>
       \/ /\ Unchanged(c) /\ ~apply[c].good
          /\ apply' = [apply EXCEPT ![c] = NoApply]
          /\ Discard
       \/ /\ Unchanged(c) /\ apply[c].good
          /\ apply' = [apply EXCEPT ![c].pc = "reply"]
          /\ state' = "verified"
          /\ UNCHANGED <<staged, disk>>
    /\ UNCHANGED <<proc, result, transfer, awaited, latest, temps, hashed>>

ApplyCommit(c) ==
    /\ Unlocked /\ apply[c].pc = "commit"
    /\ \/ /\ ~Unchanged(c)
          /\ apply' = [apply EXCEPT ![c] = NoApply]
          /\ UNCHANGED <<state, staged, disk>>
       \/ /\ Unchanged(c) /\ ~apply[c].good
          /\ apply' = [apply EXCEPT ![c] = NoApply]
          /\ Discard
       \/ /\ Unchanged(c) /\ apply[c].good
          /\ apply' = [apply EXCEPT ![c].pc = "reply"]
          /\ state' = "verified"
          /\ UNCHANGED <<staged, disk>>
    /\ UNCHANGED <<proc, result, transfer, awaited, latest, temps, hashed>>

(* updateStatusResponse takes mu again; setup_path travels with it.        *)
ApplyReply(c) ==
    /\ Unlocked /\ apply[c].pc = "reply"
    /\ apply' = [apply EXCEPT ![c] = NoApply]
    /\ UNCHANGED <<proc, result, state, staged, transfer, awaited, latest, disk, temps, hashed>>

-----------------------------------------------------------------------------
(* Another program replaces a landed file.                                 *)
SwapFile(n) ==
    /\ "swap" \in Faults /\ disk[n] \in Artifact
    /\ disk' = [disk EXCEPT ![n] = "other"]
    /\ UNCHANGED <<proc, memory, temps, hashed>>

(* shutdown(): cancels the transfer it finds and waits for it with mu      *)
(* released; requests still being served go on.                            *)
Shutdown ==
    /\ proc = "up" /\ proc' = "stopping"
    /\ awaited' = IF latest = None THEN awaited ELSE awaited \cup {latest}
    /\ UNCHANGED <<result, state, staged, transfer, latest, apply, disk, temps, hashed>>

Forget ==
    /\ result' = None /\ state' = "none" /\ staged' = None
    /\ transfer' = [t \in Transfer |-> Idle]
    /\ awaited' = {} /\ latest' = None /\ hashed' = {}
    /\ apply' = [c \in Client |-> NoApply]

(* The transfer shutdown() waits for is done, and the process exits.       *)
Exit ==
    /\ proc = "stopping" /\ \A t \in awaited : transfer[t].pc = "idle"
    /\ proc' = "exited" /\ Forget /\ UNCHANGED <<disk, temps>>

(* A crash, or the service manager's patience running out.                 *)
Crash ==
    /\ Running
    /\ proc' = "crashed" /\ Forget /\ UNCHANGED <<disk, temps>>

Boot ==
    /\ ~Running /\ proc' = "up"
    /\ UNCHANGED <<memory, disk, temps, hashed>>

Init ==
    /\ proc = "up" /\ result = None /\ state = "none" /\ staged = None
    /\ transfer = [t \in Transfer |-> Idle] /\ awaited = {} /\ latest = None
    /\ apply = [c \in Client |-> NoApply]
    /\ disk = [n \in FileName |-> None] /\ temps = {} /\ hashed = {}

Step(t) == SweepTemps(t) \/ Finish(t) \/ Settle(t)

Request(c) == ApplySnapshot(c) \/ ApplyHash(c) \/ ApplyCommit(c) \/ ApplyReply(c)

Next ==
    \/ \E res \in Artifact \cup {None} : LandCheck(res)
    \/ \E t \in Transfer : StartDownload(t) \/ Step(t)
    \/ \E c \in Client : Request(c)
    \/ \E n \in FileName : SwapFile(n)
    \/ Shutdown \/ Exit \/ Crash \/ Boot

Spec == Init /\ [][Next]_vars

(* A transfer ends: its context expires after updateDownloadTimeout, and   *)
(* its goroutine is scheduled.  Nothing makes clients or checks act.       *)
FairSpec ==
    /\ Spec
    /\ \A t \in Transfer : WF_vars(Step(t))
    /\ WF_vars(Exit)

-----------------------------------------------------------------------------
(* RemoveStaleTemps never deletes the temp file of a running transfer: it  *)
(* runs "while no transfer writes to dir", which nothing but the           *)
(* download_state keeps true.                                              *)
LiveTempKept == \A t \in Transfer : transfer[t].pc = "transfer" => t \in temps

(* download_state never reports a file for a version other than the cached *)
(* result's, whatever check landed while a transfer or a hash was running. *)
StagedIsCurrent ==
    state \in {"downloaded", "verified"} => staged # None /\ staged.artifact = result

(* The staged path names a file that landed (another program may have      *)
(* replaced its bytes): no late delete, of a superseded landing or of a    *)
(* failed hash, takes away a file staged since.                            *)
StagedOnDisk == staged # None => disk[staged.path] \in {staged.artifact, "other"}

(* "verified" is only said of a landing whose own file was hashed: the     *)
(* compare-and-set of verifyDownloadedUpdate never credits one landing     *)
(* with the hash of another under the same name.                           *)
VerifiedWasHashed == state = "verified" => staged # None /\ staged.by \in hashed

(* A download settles: the state does not stay "downloading", which would  *)
(* make every later download_update a no-op.                               *)
DownloadSettles == state = "downloading" ~> state # "downloading"

(* shutdown() returns: the transfer it waits for needs mu to settle, so it *)
(* must not wait holding it.                                               *)
ShutdownEnds == proc = "stopping" ~> proc # "stopping"
-----------------------------------------------------------------------------
(* What the proofs rest on.                                                *)

(* A transfer that is not over is the only one: the state stays            *)
(* "downloading" for it, its file once landed stays in place, and no       *)
(* request still holds a landing of the same goroutine.                    *)
TransferAlone ==
    \A t \in Busy :
       /\ state = "downloading" /\ Busy = {t}
       /\ transfer[t].artifact \in Artifact
       /\ transfer[t].pc = "landed" =>
             disk[NameOf[transfer[t].artifact]] \in {transfer[t].artifact, "other"}
       /\ \A c \in Client : apply[c].snap # None => apply[c].snap.by # t

(* What is staged is what the state reports, under the name the release    *)
(* gives it.                                                               *)
StagedReported ==
    staged # None => /\ state \in {"downloaded", "verified"}
                     /\ staged.path = NameOf[staged.artifact]

(* A request past its snapshot holds one, and a good hash of what is still *)
(* staged is a hash of that landing.                                       *)
AppliesSound ==
    \A c \in Client :
       /\ apply[c].pc = "idle" <=> apply[c].snap = None
       /\ apply[c].pc = "commit" /\ apply[c].good /\ staged = apply[c].snap =>
             staged.by \in hashed

StageInv ==
    /\ TypeOK /\ TransferAlone /\ StagedReported /\ AppliesSound
    /\ LiveTempKept /\ StagedIsCurrent /\ StagedOnDisk /\ VerifiedWasHashed
=============================================================================
