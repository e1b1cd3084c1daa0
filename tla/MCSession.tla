------------------------------ MODULE MCSession ------------------------------
(* Instances of Session for TLC: one profile, two dialable ids and a group. *)
EXTENDS Session, TLC

CONSTANTS p1, n1, n2, g1, a, b, x, bad

D(nm, bd) == [name |-> nm, body |-> bd]
NS(d1, d2, dg) == [n \in Node |-> CASE n = n1 -> d1 [] n = n2 -> d2 [] OTHER -> dg]

(* Two nodes and the group over both; the second node undialable and the   *)
(* group left with the first; the first node and the group renamed; the    *)
(* first one re-minted under the second id; and a deleted profile.         *)
MCStored ==
    {NS(D(a, x), D(b, x), D(b, x)),
     NS(D(a, x), D(b, bad), D(b, bad)),
     NS(D(b, x), D(b, x), D(a, x)),
     NS(None, D(a, x), D(b, x)),
     NS(None, None, None)}

MCSelects == [bd \in Body |-> IF bd = x THEN {n1, n2} ELSE {n1}]

MCTargets == {{g1}}

SessSymmetry == Permutations(SessId)
=============================================================================
