---------------------------- MODULE UpdateOverlap ----------------------------
(***************************************************************************)
(* UpdateTrust with the history of whether two checks were ever under way  *)
(* at once: what holds without an overlap is what the floor promises.      *)
(***************************************************************************)
EXTENDS UpdateTrust

VARIABLE overlapped

Busy == {c \in Checker : check[c].pc # "idle"}

OverlapInit == Init /\ overlapped = FALSE

OverlapNext ==
    /\ Next
    /\ overlapped' = (overlapped \/ \E c, d \in Checker : c # d /\ {c, d} \subseteq Busy')

OverlapSpec == OverlapInit /\ [][OverlapNext]_<<vars, overlapped>>

(* A rollback takes two checks under way at once: as long as none          *)
(* overlapped nothing older than an accepted manifest is accepted, and the *)
(* floor covers what was accepted whatever load or save failed and         *)
(* wherever the process restarted (the floor loaded before and written     *)
(* after, check.go).                                                       *)
RollbackNeedsRace == ~overlapped => NoRollback /\ FloorCoversAccepted

(* So does a repeated announcement: a version is broadcast once per        *)
(* process unless checks overlapped and landed in the other order          *)
(* (runUpdateCheck).                                                       *)
AnnouncedOnceAlone == ~overlapped => AnnouncedOnce

-----------------------------------------------------------------------------
(* What the proofs rest on.                                                *)

(* Until checks overlap there is at most one.                              *)
OneBusy == ~overlapped => \A c, d \in Busy : c = d

(* A check that is about to land accepted its manifest.                    *)
LandsAccepted ==
    \A c \in Checker : check[c].pc = "land" /\ check[c].m # None => check[c].m \in accepted

(* Every version broadcast was accepted, and none of them after the one    *)
(* announced last.                                                         *)
AnnouncedLatest ==
    \A v \in Version : nudges[v] > 0 =>
       \E m, n \in accepted : /\ m.version = v /\ n.version = announced
                              /\ m.seq <= n.seq

(* Releases go forward: a version is not released again after another one  *)
(* (scripts/sign-update.sh signs no sequence number but the next).         *)
ReleasesOrdered ==
    \A m, n, k \in Manifest :
       m.version = k.version /\ m.seq <= n.seq /\ n.seq <= k.seq => n.version = m.version

OverlapInv ==
    /\ TrustInv /\ overlapped \in BOOLEAN /\ OneBusy /\ LandsAccepted
    /\ ~overlapped => FloorStands /\ FloorCoversAccepted

AnnounceInv ==
    OverlapInv /\ (~overlapped => AnnouncedLatest /\ AnnouncedOnce)
=============================================================================
