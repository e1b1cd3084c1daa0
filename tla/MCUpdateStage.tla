---------------------------- MODULE MCUpdateStage ----------------------------
(* An instance of UpdateStage: two installers released under one file name. *)
EXTENDS UpdateStage

CONSTANTS t1, t2, t3

MCSameName == [a \in Artifact |-> "setup"]
=============================================================================
