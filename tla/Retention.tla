------------------------------ MODULE Retention ------------------------------
(* The life of a run's protected copy on disk against the retention of its   *)
(* rows: GitWorkspaceManager.prepare allocates it, the engine publishes and  *)
(* removes it, an operator discards it, and the maintenance of any process   *)
(* (prune_shadow_workspaces, then garbage_collect) removes what is left.     *)
(* The journal of the publication is ShadowPublication; here only how far it *)
(* came matters. Only the newest shadow checkpoint row is kept: no statement *)
(* of these operations reads an older one.                                   *)
EXTENDS Naturals

CONSTANTS Maintainers,        \* processes that run maintenance()
          Policies,           \* workspace settings a run may be created with
          FailedRetention, ConflictRetention, RetainTerminal,  \* in days
          MaxAge,             \* bound: days since the run completed
          MaxFaults           \* bound: crashes and lost leases

ASSUME RetentionAssumption ==
    /\ {FailedRetention, ConflictRetention, RetainTerminal, MaxAge, MaxFaults} \subseteq Nat
    /\ FailedRetention <= RetainTerminal /\ ConflictRetention <= RetainTerminal
    /\ \A p \in Policies : p.cleans \in BOOLEAN /\ p.keepsFailed \in BOOLEAN
                           /\ p.successFor \in Nat

VARIABLES
    run,     \* row of the run: its status, days since completion, policy
    ckpt,    \* status of its newest shadow checkpoint, "none" without a row
    copy,    \* the directory: how much of it exists, state.json, journal
    pub,     \* the workspace_publications row: status and announced effects
    engine,  \* the process that prepares and publishes: step and lease
    maint,   \* per maintenance process: step and the checkpoint status it read
    faults

copyVars == <<run, ckpt, copy, pub, engine, maint, faults>>

Terminal == {"approved", "failed"}
Closed == {"cleaned", "discarded"}
Partial == {"preflight-complete", "applying"}
NoCopy == [stage |-> "none", state |-> "none", journal |-> "none"]

CopiesInit ==
    /\ run \in [status : {"running"}, age : {0}, policy : Policies]
    /\ ckpt = "none" /\ copy = NoCopy
    /\ pub = [status |-> "none", effects |-> FALSE]
    /\ engine = [pc |-> "start", owned |-> TRUE]
    /\ maint = [m \in Maintainers |-> [pc |-> "idle", saw |-> "none"]]
    /\ faults = 0

----------------------------------------------------------------------------
(* The process that executes the run. mark and record_checkpoint are fenced  *)
(* by the lease, the work on the directory is not.                           *)
Step(pc) == engine' = [engine EXCEPT !.pc = pc]
Completed(status) == run' = [run EXCEPT !.status = status, !.age = 0]
Whole(state) == copy' = [copy EXCEPT !.stage = "whole", !.state = state]

Allocate ==
    /\ engine.pc = "start" /\ engine.owned
    /\ ckpt' = "allocating" /\ Step("allocated")
    /\ UNCHANGED <<run, copy, pub, maint, faults>>

\* _ShadowWorkspace.create: directories first, then state.json, then content.
\* It refuses a directory that exists; a run with a row is never prepared again.
MakeDirectories ==
    /\ engine.pc = "allocated" /\ copy.stage = "none"
    /\ copy' = [copy EXCEPT !.stage = "bare"] /\ Step("making")
    /\ UNCHANGED <<run, ckpt, pub, maint, faults>>

WritePreparing ==
    /\ engine.pc = "making"
    /\ Whole("preparing") /\ Step("filling")
    /\ UNCHANGED <<run, ckpt, pub, maint, faults>>

\* A folder that is not one to protect is refused before any directory exists.
RefusePreparation ==
    /\ engine.pc = "allocated" /\ Step("prep-failed")
    /\ UNCHANGED <<run, ckpt, copy, pub, maint, faults>>

\* The source changed or a limit was met: the directory stays as it is.
CopyTree ==
    /\ engine.pc = "filling"
    /\ Step("copied") \/ Step("prep-failed")
    /\ UNCHANGED <<run, ckpt, copy, pub, maint, faults>>

\* Without a private repository, or Git, the copy is never called prepared.
InitPrivateGit ==
    /\ engine.pc = "copied"
    /\ \/ Whole("prepared") /\ Step("filled")
       \/ UNCHANGED copy /\ Step("prep-failed")
    /\ UNCHANGED <<run, ckpt, pub, maint, faults>>

PreparationFailed ==
    /\ engine.pc = "prep-failed"
    /\ IF engine.owned
       THEN ckpt' = "preparation_failed" /\ Completed("failed") /\ Step("end")
       ELSE UNCHANGED <<run, ckpt>> /\ Step("gone")
    /\ UNCHANGED <<copy, pub, maint, faults>>

RecordPrepared ==
    /\ engine.pc = "filled"
    /\ IF engine.owned THEN ckpt' = "prepared" /\ Step("working")
                       ELSE UNCHANGED ckpt /\ Step("gone")
    /\ UNCHANGED <<run, copy, pub, maint, faults>>

\* checkpoint: the copy first, then its fenced row. Where the private
\* repository cannot be made again, neither changes.
CheckpointCopy ==
    /\ engine.pc = "working" /\ engine.owned /\ pub.status = "none"
    /\ copy' = [copy EXCEPT !.state = "checkpointed"] /\ Step("recording")
    /\ UNCHANGED <<run, ckpt, pub, maint, faults>>

RecordCheckpoint ==
    /\ engine.pc = "recording"
    /\ IF engine.owned THEN ckpt' = "checkpointed" /\ Step("working")
                       ELSE UNCHANGED ckpt /\ Step("gone")
    /\ UNCHANGED <<run, copy, pub, maint, faults>>

\* publish: the row, the preflight of the journal, announced effects, and the
\* final states. A retry goes through the preflight again.
BeginPublication ==
    /\ engine.pc = "working" /\ engine.owned /\ ckpt = "checkpointed"
    /\ \/ pub.status = "none" /\ pub' = [pub EXCEPT !.status = "prepared"]
       \/ pub.status = "prepared" /\ pub' = [pub EXCEPT !.status = "applying"]
    /\ UNCHANGED <<run, ckpt, copy, engine, maint, faults>>

Applies == engine.pc = "working" /\ engine.owned /\ pub.status = "applying"
Preflight ==
    /\ Applies
    /\ \/ copy.journal # "preflight-complete"
          /\ copy' = [copy EXCEPT !.journal = "preflight-complete", !.state = "publishing"]
       \/ copy.journal = "preflight-complete"
          /\ copy' = [copy EXCEPT !.journal = "applying"]
    /\ UNCHANGED <<run, ckpt, pub, engine, maint, faults>>

AnnounceEffect ==
    /\ Applies /\ copy.journal = "applying" /\ pub' = [pub EXCEPT !.effects = TRUE]
    /\ UNCHANGED <<run, ckpt, copy, engine, maint, faults>>

\* In the preflight the journal stays as it is; at an operation it is closed
\* unless an effect was announced.
Conflict ==
    /\ Applies
    /\ \/ copy' = [copy EXCEPT !.state = "conflicted"]
       \/ copy.journal = "applying" /\ ~pub.effects
          /\ copy' = [copy EXCEPT !.state = "conflicted", !.journal = "conflicted"]
    /\ pub' = [pub EXCEPT !.status = "conflicted"] /\ Step("waiting")
    /\ UNCHANGED <<run, ckpt, maint, faults>>

Published ==
    /\ Applies /\ copy.journal = "applying"
    /\ copy' = [copy EXCEPT !.journal = "published", !.state = "published"]
    /\ pub' = [pub EXCEPT !.status = "published"] /\ ckpt' = "published"
    /\ Step("published")
    /\ UNCHANGED <<run, maint, faults>>

RemovesAtOnce == run.policy.cleans /\ run.policy.successFor = 0
Approve ==
    /\ engine.pc = "published" /\ engine.owned /\ Completed("approved")
    /\ Step(IF RemovesAtOnce THEN "cleaning" ELSE "end")
    /\ UNCHANGED <<ckpt, copy, pub, maint, faults>>

\* cleanup() asks for a final state; a refusal leaves the row for maintenance.
CleanUp ==
    /\ engine.pc = "cleaning"
    /\ \/ copy' = [copy EXCEPT !.stage = "cut"] /\ Step("cleaning-cut") /\ UNCHANGED ckpt
       \/ ckpt' = "cleanup_pending" /\ Step("end") /\ UNCHANGED copy
    /\ UNCHANGED <<run, pub, maint, faults>>

FinishCut ==
    /\ engine.pc \in {"cleaning-cut", "discarding-cut"}
    /\ copy' = NoCopy
    /\ Step(IF engine.pc = "cleaning-cut" THEN "cleaned" ELSE "discarded")
    /\ UNCHANGED <<run, ckpt, pub, maint, faults>>

MarkCut ==
    /\ engine.pc \in {"cleaned", "discarded"} /\ ckpt # "none" /\ engine.owned
    /\ ckpt' = engine.pc /\ Step("end")
    /\ IF engine.pc = "discarded" THEN Completed("failed") ELSE UNCHANGED run
    /\ UNCHANGED <<copy, pub, maint, faults>>

\* reconcile_workflow: discard_shadow, mark_failed, or publish again.
ShadowActions == ~(pub.effects \/ pub.status \in {"applying", "published"})
DiscardShadow ==
    /\ engine.pc \in {"waiting", "gone"} /\ run.status = "running"
    /\ ShadowActions /\ copy.stage = "whole" /\ copy.journal \notin Partial
    /\ copy' = [copy EXCEPT !.state = "discarded", !.stage = "cut"]
    /\ engine' = [pc |-> "discarding-cut", owned |-> TRUE]
    /\ UNCHANGED <<run, ckpt, pub, maint, faults>>

MarkFailed ==
    /\ engine.pc \in {"waiting", "gone"} \/ ~engine.owned
    /\ run.status = "running" /\ Completed("failed")
    /\ UNCHANGED <<ckpt, copy, pub, engine, maint, faults>>

\* restore_or_reconstruct accepts only a copy it can open.
Resume ==
    /\ engine.pc \in {"waiting", "gone"} /\ run.status = "running"
    /\ copy.stage = "whole" /\ copy.state \notin {"preparing", "published", "discarded"}
    /\ engine' = [pc |-> "working", owned |-> TRUE]
    /\ pub' = [pub EXCEPT !.status = IF @ = "conflicted" THEN "applying" ELSE @]
    /\ UNCHANGED <<run, ckpt, copy, maint, faults>>

\* A stalled process loses its lease and goes on; a crash ends it anywhere.
LoseLease ==
    /\ faults < MaxFaults /\ faults' = faults + 1 /\ engine.owned
    /\ engine.pc \in {"allocated", "making", "filling", "copied", "filled",
                      "prep-failed", "recording"}
    /\ engine' = [engine EXCEPT !.owned = FALSE]
    /\ UNCHANGED <<run, ckpt, copy, pub, maint>>

EngineDies ==
    /\ faults < MaxFaults /\ faults' = faults + 1
    /\ engine.pc \notin {"gone", "end"} /\ engine' = [pc |-> "gone", owned |-> FALSE]
    /\ UNCHANGED <<run, ckpt, copy, pub, maint>>

----------------------------------------------------------------------------
(* maintenance(): prune_shadow_workspaces row by row, then garbage_collect.  *)
Goto(m, pc) == maint' = [maint EXCEPT ![m].pc = pc]

\* The rows are fetched before any of them is handled.
Select(m) ==
    /\ maint[m].pc = "idle"
    /\ maint' = [maint EXCEPT ![m] =
          [pc |-> IF run.status \in Terminal /\ ckpt # "none" THEN "look" ELSE "collect",
           saw |-> ckpt]]
    /\ UNCHANGED <<run, ckpt, copy, pub, engine, faults>>

FindMissing(m) ==
    /\ maint[m].pc = "look" /\ copy.stage = "none"
    /\ Goto(m, IF maint[m].saw \in Closed THEN "collect" ELSE "mark")
    /\ UNCHANGED <<run, ckpt, copy, pub, engine, faults>>

\* A plausible defect: a conflict is not asked for first.
RetentionSwapped == IF run.status = "approved" THEN run.policy.successFor
                    ELSE IF run.policy.keepsFailed THEN FailedRetention
                    ELSE IF pub.status = "conflicted" THEN ConflictRetention ELSE 0
\* How long the copy of a completed run is kept; approved copies of a policy
\* that does not clean are kept for ever.
Retention == IF run.status = "approved" THEN run.policy.successFor
             ELSE IF pub.status = "conflicted" THEN ConflictRetention
             ELSE IF run.policy.keepsFailed THEN FailedRetention ELSE 0
KeptForEver == run.status = "approved" /\ ~run.policy.cleans
PartialPublication == pub.status \notin {"none", "published"}
                      /\ (pub.effects \/ pub.status = "applying")
Due == ~KeptForEver /\ run.age >= Retention /\ ~PartialPublication

CheckRetention(m) ==
    /\ maint[m].pc = "look" /\ copy.stage # "none"
    /\ Goto(m, IF Due THEN "open" ELSE "collect")
    /\ UNCHANGED <<run, ckpt, copy, pub, engine, faults>>

\* open() and the ownership marker need the control files: a directory without
\* them is retained, one half removed may still have them.
Forced(m) == maint[m].saw \in {"allocating", "preparation_failed"}
Final == copy.state \in {"published", "discarded"}
Discardable == copy.journal \notin Partial \union {"published"}

Retain(m) ==
    /\ maint[m].pc = "open"
    /\ copy.stage # "whole" \/ ~(Forced(m) \/ Final \/ Discardable)
    /\ Goto(m, "collect")
    /\ UNCHANGED <<run, ckpt, copy, pub, engine, faults>>

Cut(m) ==
    /\ maint[m].pc = "open" /\ copy.stage \in {"whole", "cut"}
    /\ Forced(m) \/ Final \/ Discardable
    /\ copy' = [copy EXCEPT !.stage = "cut",
                            !.state = IF Forced(m) \/ Final THEN @ ELSE "discarded"]
    /\ Goto(m, "cutting")
    /\ UNCHANGED <<run, ckpt, pub, engine, faults>>

CutDone(m) ==
    /\ maint[m].pc = "cutting" /\ copy' = NoCopy /\ Goto(m, "mark")
    /\ UNCHANGED <<run, ckpt, pub, engine, faults>>

\* Without the row mark_checkpoint_status raises and ends the maintenance.
Mark(m) ==
    /\ maint[m].pc = "mark"
    /\ IF ckpt = "none" THEN Goto(m, "idle") /\ UNCHANGED ckpt
                        ELSE Goto(m, "collect") /\ ckpt' = "cleaned"
    /\ UNCHANGED <<run, copy, pub, engine, faults>>

\* garbage_collect deletes the run, and with it every row that refers to it.
\* CollectableByAge: the newest checkpoint is forgotten (a plausible defect).
CollectableByAge == run.status \in Terminal /\ run.age > RetainTerminal
Collectable == /\ run.status \in Terminal /\ run.age > RetainTerminal
               /\ ckpt \in Closed \union {"none"}
Collect(m) ==
    /\ maint[m].pc = "collect" /\ Goto(m, "idle")
    /\ IF Collectable THEN run' = [run EXCEPT !.status = "gone"] /\ ckpt' = "none"
                      ELSE UNCHANGED <<run, ckpt>>
    /\ UNCHANGED <<copy, pub, engine, faults>>

MaintainerDies(m) ==
    /\ maint[m].pc # "idle" /\ faults < MaxFaults /\ faults' = faults + 1
    /\ Goto(m, "idle")
    /\ UNCHANGED <<run, ckpt, copy, pub, engine>>

\* A day is longer than one call: none is inside prepare or maintenance.
DayPasses ==
    /\ run.status \in Terminal /\ run.age < MaxAge /\ run' = [run EXCEPT !.age = @ + 1]
    /\ engine.pc \in {"end", "gone", "waiting", "working", "start"}
    /\ \A m \in Maintainers : maint[m].pc = "idle"
    /\ UNCHANGED <<ckpt, copy, pub, engine, maint, faults>>

Maintain(m) == \/ Select(m) \/ FindMissing(m) \/ CheckRetention(m) \/ Retain(m) \/ Cut(m)
               \/ CutDone(m) \/ Mark(m) \/ Collect(m) \/ MaintainerDies(m)
Execute == \/ Allocate \/ RefusePreparation \/ MakeDirectories \/ WritePreparing \/ CopyTree
           \/ InitPrivateGit \/ PreparationFailed \/ RecordPrepared \/ CheckpointCopy
           \/ RecordCheckpoint \/ BeginPublication \/ Preflight \/ AnnounceEffect
           \/ Conflict \/ Published \/ Approve \/ CleanUp \/ FinishCut \/ MarkCut
           \/ DiscardShadow \/ MarkFailed \/ Resume \/ LoseLease \/ EngineDies
CopiesNext == Execute \/ DayPasses \/ \E m \in Maintainers : Maintain(m)

----------------------------------------------------------------------------
\* A copy that can still be opened has its run: garbage_collect forgets a run
\* only when its copy is gone, else nothing would ever find the copy again.
\* At stake when a process that lost its lease makes the copy after
\* maintenance has seen it missing and marked its row cleaned.
RunsOutliveTheirCopies == copy.stage = "whole" => run.status # "gone"

\* Maintenance removes a usable copy only of a completed run whose documented
\* retention is over (docs/consistency-operator-control.md, section 7), never
\* one the engine still works on, and never one whose publication stopped
\* half way, with effects in the person's folder only its journal can undo.
KeptFor == [approved |-> run.policy.successFor,
            failed |-> IF pub.status = "conflicted" THEN ConflictRetention
                       ELSE IF run.policy.keepsFailed THEN FailedRetention ELSE 0]
NeededCopiesStay ==
    [][\A m \in Maintainers :
          maint[m].pc = "open" /\ maint'[m].pc = "cutting" /\ copy.stage = "whole" =>
              /\ run.status \in Terminal /\ run.age >= KeptFor[run.status]
              /\ run.status = "approved" => run.policy.cleans
              /\ copy.journal = "published" \/ ~pub.effects]_copyVars
=============================================================================
