----------------------------- MODULE Housekeeping -----------------------------
(* What is kept about finished work and for how long: protected copies       *)
(* (Retention), artifact files (Artifacts), provider sessions (Sessions and  *)
(* AppServer), evidence bundles (Evidence) and phase deliverables            *)
(* (Deliverables). No operation of one reads or writes the state of another: *)
(* garbage_collect, which runs all their deletions, does so in separate      *)
(* transactions one after the other. A behaviour therefore exercises one of  *)
(* them, and interleaving them would add nothing.                            *)
EXTENDS Retention, Artifacts, AppServer, Evidence, Deliverables

VARIABLE scope

housekeepingVars ==
    <<scope, copyVars, artifactVars, appServerVars, evidenceVars, deliverableVars>>

Init == /\ scope \in {"copies", "artifacts", "sessions", "evidence", "deliverables"}
        /\ IF scope = "copies" THEN CopiesInit
           ELSE CopiesInit /\ run.policy = CHOOSE p \in Policies : TRUE
        /\ IF scope = "artifacts" THEN ArtifactsInit
           ELSE ArtifactsInit /\ rows = {}
        /\ IF scope = "sessions" THEN AppServerInit
           ELSE AppServerInit /\ runner = "agent"
        /\ EvidenceInit /\ DeliverablesInit

Next ==
    /\ UNCHANGED scope
    /\ IF scope = "copies"       THEN CopiesNext       ELSE UNCHANGED copyVars
    /\ IF scope = "artifacts"    THEN ArtifactsNext    ELSE UNCHANGED artifactVars
    /\ IF scope = "sessions"     THEN AppServerNext    ELSE UNCHANGED appServerVars
    /\ IF scope = "evidence"     THEN EvidenceNext     ELSE UNCHANGED evidenceVars
    /\ IF scope = "deliverables" THEN DeliverablesNext ELSE UNCHANGED deliverableVars

Spec == Init /\ [][Next]_housekeepingVars
=============================================================================
