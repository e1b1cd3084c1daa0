---------------------------- MODULE SessionIntent ----------------------------
(***************************************************************************)
(* What the session manager promises about intent, with the locks, the     *)
(* plans and the requests under way left out: what runs, and the record a  *)
(* restart restores from.  Running something records it; only an explicit  *)
(* stop forgets it; losing the session any other way (a shutdown, a crash, *)
(* a replacement that failed) keeps it.                                    *)
(***************************************************************************)
CONSTANTS Context,   \* activation contexts
          None,
          Reliable   \* record writes do not fail

VARIABLES run,       \* the context of the running session, None = idle
          rec,       \* the last-session record
          halted     \* the last command of a user was a stop

Written(r) == rec' = r \/ (~Reliable /\ rec' = rec)

Init == run = None /\ rec = None /\ halted = FALSE

(* A session starts, replaces another, switches node or is relabelled, for *)
(* a user or on the daemon's own account.                                  *)
Run(c) == run' = c /\ Written(c) /\ halted' \in {halted, FALSE}

(* An explicit stop of a running session.                                  *)
Quit == run # None /\ run' = None /\ Written(None) /\ halted' = TRUE

(* An explicit stop with nothing running.                                  *)
QuitIdle == run = None /\ halted' = TRUE /\ UNCHANGED <<run, rec>>

(* The session is lost, the intent is not.                                 *)
Lose == run # None /\ run' = None /\ UNCHANGED <<rec, halted>>

Next == (\E c \in Context : Run(c)) \/ Quit \/ QuitIdle \/ Lose

Spec == Init /\ [][Next]_<<run, rec, halted>>
=============================================================================
