---------------------------- MODULE MCUpdateTrust ----------------------------
(* Instances of UpdateOverlap.                                              *)
EXTENDS UpdateOverlap

M(k, n, v, st) == [key |-> k, seq |-> n, version |-> v, stable |-> st, newer |-> TRUE]

(* Three releases, the second one signed with the recovery key, and a       *)
(* manifest of a foreign channel.                                           *)
MCManifest == {M("current", 1, "v1", TRUE), M("recovery", 2, "v2", TRUE),
               M("current", 3, "v3", TRUE), M("current", 2, "v2", FALSE)}

(* Two plain releases before it.                                            *)
MCReleases == {M("current", 1, "v1", TRUE), M("current", 2, "v2", TRUE),
               M("recovery", 3, "v3", TRUE)}
=============================================================================
