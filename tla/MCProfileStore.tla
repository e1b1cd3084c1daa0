--------------------------- MODULE MCProfileStore ---------------------------
(* Instances of ProfileStore: a provider that serves one or both of two     *)
(* nodes, with or without a group over them, and files of the old schema.   *)
EXTENDS ProfileStore, TLC

CONSTANTS n1, n2, n3, n4, s1, s2, r1, r2

MCOutcome(K, M) == [keys |-> K, groups |-> [g \in GName |-> M]]

MCBody == {MCOutcome({"a"}, {"a"}), MCOutcome({"a", "b"}, {}), MCOutcome({"b"}, {"b"})}

MCPlainBody == {MCOutcome({"a"}, {})}

MCOldFile ==
    {[version |-> 2, active |-> None, nodes |-> {},
      subs |-> {[id |-> s1, url |-> "u1", interval |-> i, error |-> None]},
      routings |-> {}, routing |-> None] : i \in {0, 3600, 86400}}

(* Left by an earlier process: a provider group over node a, whose id was  *)
(* minted before the derivation, or which also lists a node removed since. *)
MCLeft(group, i) ==
    [version |-> 3, active |-> None, routings |-> {}, routing |-> None,
     subs  |-> {[id |-> s1, url |-> "u1", interval |-> 28800, error |-> None]},
     nodes |-> {NewNode(i, s1, "a"), group}]

MCLeftFile ==
    UNION {{MCLeft([NewNode(j, s1, "auto") EXCEPT !.members = {i}], i),
            MCLeft([NewNode(<<s1, "auto">>, s1, "auto") EXCEPT !.members = {i, j}], i)} :
           <<i, j>> \in {x \in NodeId \X NodeId : x[1] # x[2]}}

MCNoOldFile == {}

MCSymmetry == Permutations({n1, n2, n3, n4})
=============================================================================
