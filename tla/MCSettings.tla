----------------------------- MODULE MCSettings -----------------------------
(* Three documents: two that differ in what the engine compiles, and one    *)
(* that differs from the first in fields applied at once.                   *)
EXTENDS Settings

D(strategy, live) ==
  Document("both", strategy, DefaultSettings("linux").servers, FALSE, live, TRUE)
MCDocuments == {D("prefer_ipv4", FALSE), D("prefer_ipv6", FALSE), D("prefer_ipv4", TRUE)}
=============================================================================
