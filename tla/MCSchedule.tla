----------------------------- MODULE MCSchedule -----------------------------
(* Two subscriptions of one profile, and a profile without any.             *)
EXTENDS Schedule

MCHome == [s \in Sub |-> "p"]
=============================================================================
