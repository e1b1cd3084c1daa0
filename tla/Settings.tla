------------------------------ MODULE Settings ------------------------------
(* The settings verbs against activation.  set_settings replaces the whole  *)
(* document under the manager's mutex and says whether a running session    *)
(* needs to be activated again; an activation reads the document before it  *)
(* takes the mutex to start.                                                *)
EXTENDS Checks

CONSTANT Documents   \* documents clients may try to save

VARIABLES
  doc,    \* settings.json
  prep,   \* the document an activation in flight was compiled from, or None
  sess,   \* the document the running session was compiled from, or None
  told    \* history: needs_reactivation was sent since this session started

vars == <<doc, prep, sess, told>>

Init ==
  /\ doc \in {DefaultSettings(os) : os \in {"linux", "windows"}}
                \cup {d \in Documents : ValidateSettings(d)}
  /\ prep = None
  /\ sess = None
  /\ told = FALSE

SetSettings ==
  /\ \E d \in Documents :
       /\ ValidateSettings(d)
       /\ doc' = d
       /\ told' = (told \/ (sess # None /\ EngineRelevantChanged(doc, d)))
  /\ UNCHANGED <<prep, sess>>

PrepareActivation ==
  /\ prep = None
  /\ prep' = doc
  /\ UNCHANGED <<doc, sess, told>>

StartActivation ==
  /\ prep # None
  /\ sess' = prep
  /\ prep' = None
  /\ told' = FALSE
  /\ UNCHANGED doc

Deactivate ==
  /\ sess # None
  /\ sess' = None
  /\ told' = FALSE
  /\ UNCHANGED <<doc, prep>>

Next == SetSettings \/ PrepareActivation \/ StartActivation \/ Deactivate

Spec == Init /\ [][Next]_vars

(* "engine-relevant changes apply at the NEXT activation and are flagged    *)
(* with needs_reactivation while a session runs" (manager_settings.go): a   *)
(* session that runs on other engine settings than the stored ones runs so  *)
(* with a client told.                                                      *)
DriftAnnounced ==
  sess # None /\ EngineRelevantChanged(sess, doc) => told
=============================================================================
