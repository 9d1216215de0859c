---------------------------- MODULE DurableEngine ----------------------------
(***************************************************************************)
(* The durable workflow engine (router/durability/engine.py), its recovery *)
(* pass (recovery.py) and the workspace it executes in (git_workspace.py,  *)
(* shadow_workspace.py), composed with the durable store (RunStore).       *)
(*                                                                         *)
(* A call is one invocation: of DurableWorkflowEngine.run (a submission, a *)
(* resume or an operator decision), of recover_stale_runs, or of           *)
(* request_cancel.  Calls run in different processes and interleave at     *)
(* every store transaction and every file-system effect.  A process may    *)
(* crash anywhere, a lease may expire under a process that is still alive, *)
(* and a person may cancel at any time.                                    *)
(*                                                                         *)
(* Workspaces hold sets of effects: <<s, i>> is what attempt i of writer   *)
(* step s changes.  One profile per phase, so a step is its participant.   *)
(***************************************************************************)
EXTENDS Naturals, Sequences, FiniteSets

CONSTANTS
    RunCalls,           \* calls of run()
    RecoveryCalls,      \* calls of recover_stale_runs(), each may run again
    CancelCalls,        \* calls of request_cancel()
    NoOwner,
    Mode,               \* "shadow", "worktree" or "in-place"
    Rounds,             \* max_rounds of fix and review
    NeedsConsent,       \* _requires_write_authorization(config)
    Answering,          \* bound on the provider answers explored
    Lingering,          \* a provider may write after its lease was lost
    MaxTotalAttempts,   \* max_total_participant_attempts
    MaxCrashes,         \* bound on crashes explored
    MaxEpoch            \* bound on lease epochs explored

ASSUME ModeAssumption == Mode \in {"shadow", "worktree", "in-place"}
ASSUME FlagsAssumption ==
    /\ NeedsConsent \in BOOLEAN /\ Lingering \in BOOLEAN
    /\ Answering \subseteq {"ok", "write", "blockers", "blocked", "bad"}
ASSUME NumbersAssumption ==
    /\ Rounds \in Nat /\ MaxCrashes \in Nat /\ MaxEpoch \in Nat
    /\ MaxTotalAttempts \in Nat \ {0}

Calls     == RunCalls \cup RecoveryCalls \cup CancelCalls
ASSUME CallsAssumption == NoOwner \notin Calls
Architect == 1
LastStep  == 3 + 2 * Rounds
Steps     == 1..LastStep
Writers   == {s \in Steps : s % 2 = 0}
Reviews   == {s \in Steps : s % 2 = 1 /\ s # Architect}
Effects   == Writers \X (1..MaxTotalAttempts)

\* What reconciliation_json is told apart by: empty, waiting for consent,
\* consent granted or declined, parked for an operator without or with
\* review_approved, resolved by an operator.
Recons == {"none", "consent", "granted", "declined", "parked",
           "parked_approved", "resolved"}

VARIABLES
    status, cancel, recon, lease, issued, step, part, att,  \* RunStore
    res,        \* output artifact of a step's participant
    reviewed,   \* what the reviewer of a step saw
    call,       \* where each call is
    crashes,    \* crashes so far
    space,      \* is there a workspace: "no", "yes" or "gone"
    tree,       \* effects in the execution root
    head,       \* effects in the workspace's own last checkpoint
    ckpt,       \* effects in the last checkpoint row of the store
    orig,       \* effects in the original workspace
    pub         \* publication: its database row and its file journal

storeVars == <<status, cancel, recon, lease, issued, step, part, att>>
fileVars  == <<space, tree, head, ckpt, orig, pub>>
noteVars  == <<res, reviewed>>
vars == <<storeVars, noteVars, call, crashes, fileVars>>

Store == INSTANCE RunStore WITH
    Owners <- Calls, Parts <- Steps, StepOf <- [s \in Steps |-> s],
    NoRecon <- "none", MaxAttempts <- MaxTotalAttempts

-----------------------------------------------------------------------------
Call == [pc : STRING, epoch : Nat, s : Steps, i : Nat, seen : STRING,
         act : STRING, out : STRING, saw : SUBSET Effects]

NewCall == [pc |-> "new", epoch |-> 0, s |-> Architect, i |-> 0,
            seen |-> "none", act |-> "none", out |-> "none", saw |-> {}]

Init ==
    /\ Store!Init
    /\ res = [s \in Steps |-> "none"]
    /\ reviewed = [s \in Steps |-> {}]
    /\ call = [c \in Calls |-> NewCall]
    /\ crashes = 0
    /\ space = "no"
    /\ tree = {} /\ head = {} /\ ckpt = {} /\ orig = {}
    /\ pub = [row |-> "none", bound |-> FALSE, of |-> {}, done |-> FALSE]

Tok(c)     == [owner |-> c, epoch |-> call[c].epoch]
Holds(c)   == Store!Fence(Tok(c))
At(c, pc)  == call[c].pc = pc
Go(c, pc)  == call' = [call EXCEPT ![c].pc = pc]
Effect(c)  == <<call[c].s, call[c].i>>
Terminal   == status \in Store!RunTerminal
Unknown    == {s \in Steps : step[s] = "unknown"}
CancelSeen == cancel /\ ~Terminal

SameStore  == UNCHANGED storeVars
SameNotes  == UNCHANGED noteVars
SameFiles  == UNCHANGED fileVars
SameBut(c) == SameNotes /\ SameFiles /\ UNCHANGED crashes

TotalAttempts ==
    LET n[s \in 0..LastStep] == IF s = 0 THEN 0 ELSE n[s - 1] + Len(att[s])
    IN  n[LastStep]

\* Parking keeps what is known of the review: a run that reached publication
\* was approved.
Parked == IF status = "finalizing" \/ recon = "parked_approved"
          THEN "parked_approved" ELSE "parked"

-----------------------------------------------------------------------------
(* Entering: admission, lease, and the branch on the status that was read. *)

Submit(c) ==
    /\ c \in RunCalls /\ At(c, "new")
    /\ Go(c, IF Terminal THEN "done" ELSE "admitted")
    /\ SameStore /\ SameBut(c)

AcquireTo(c, pc) ==
    /\ Store!AcquireLease(c)
    /\ call' = [call EXCEPT ![c].pc = pc, ![c].epoch = Store!NextEpoch(c)]
    /\ SameBut(c)

Refused(c) ==
    /\ lease.valid /\ lease.owner # c
    /\ Go(c, "done")
    /\ SameStore /\ SameBut(c)

Enter(c) == At(c, "admitted") /\ (AcquireTo(c, "entered") \/ Refused(c))

\* Statuses that nobody expects to find under a fresh lease (running,
\* finalizing, and even a terminal one) fall through to execution.
EnteredPc ==
    IF cancel \/ status = "cancelling" THEN "cancelling"
    ELSE CASE status = "awaiting_reconciliation"    -> "reconcile"
           [] status \in {"pending", "recovering"}  -> "begin"
           [] status \in {"interrupted", "unknown"} -> "restart"
           [] OTHER                                 -> "workspace"

Branch(c) ==
    /\ At(c, "entered")
    /\ Go(c, EnteredPc)
    /\ SameStore /\ SameBut(c)

-----------------------------------------------------------------------------
(* Operator decisions on a run that awaits reconciliation. *)

\* inspect compares a worktree with its checkpoint by the commit it is at.
HeadMatches == head = ckpt

\* reconciliation_status: what the workspace has to offer. "restore" is
\* continue_from_shadow, resume_from_checkpoint and discard_worktree: each
\* rebuilds the tree from the last checkpoint.
WorkspaceActions ==
    IF space # "yes" THEN {}
    ELSE CASE Mode = "shadow"   -> {"restore", "apply"} \cup (IF pub.bound THEN {} ELSE {"discard"})
           [] Mode = "worktree" -> {"restore"} \cup (IF HeadMatches THEN {"accept"} ELSE {})
           [] OTHER             -> {"accept"}

Allowed == IF recon = "consent" THEN {"authorize", "decline"}
           ELSE {"mark_failed"} \cup WorkspaceActions

DecisionPc(act) ==
    CASE act = "authorize"   -> "authorize"
      [] act = "decline"     -> "decline"
      [] act = "mark_failed" -> "mark_failed"
      [] act = "restore"     -> "restore"
      [] act = "discard"     -> "discard"
      [] act = "apply"       -> "publish"
      [] act = "accept"      -> IF Unknown = {} THEN "resolve" ELSE "accept"
      [] OTHER               -> "leave"

Decide(c) ==
    /\ At(c, "reconcile")
    /\ \E act \in Allowed \cup {"inspect"} :
         call' = [call EXCEPT ![c].pc = DecisionPc(act), ![c].act = act]
    /\ SameStore /\ SameBut(c)

\* restore_checkpoint checks the lease, then rebuilds the tree without it.
BeginRestore(c) ==
    /\ At(c, "restore") /\ Holds(c)
    /\ Go(c, "restorefs")
    /\ SameStore /\ SameBut(c)

\* A shadow goes back to its own checkpoint, also when the store has none of it.
RestoreTree(c) ==
    /\ At(c, "restorefs") /\ Mode = "shadow"
    /\ IF space = "yes"
       THEN tree' = head /\ Go(c, IF Unknown = {} THEN "resolve" ELSE "reset")
       ELSE Go(c, "park") /\ UNCHANGED tree
    /\ SameStore /\ SameNotes /\ UNCHANGED <<crashes, space, head, ckpt, orig, pub>>

\* A worktree is removed and added again at the commit of the checkpoint row.
RestoreWorktree(c) ==
    /\ At(c, "restorefs") /\ Mode = "worktree"
    /\ space' = "yes" /\ tree' = ckpt /\ head' = ckpt
    /\ Go(c, IF Unknown = {} THEN "resolve" ELSE "reset")
    /\ SameStore /\ SameNotes /\ UNCHANGED <<crashes, ckpt, orig, pub>>

\* Participants that already succeeded keep their result across this reset.
ResetUnknown(c) ==
    /\ At(c, "reset")
    /\ \E s \in Unknown :
         /\ Store!ResetStep(Tok(c), s, FALSE)
         /\ Go(c, IF Unknown = {s} THEN "resolve" ELSE "reset")
    /\ SameBut(c)

\* accept_existing_changes checkpoints the tree as it stands (pcs "ckptfs" and
\* "ckptdb" below), then takes the step for succeeded.
BeginAccept(c) ==
    /\ At(c, "accept") /\ Holds(c)
    /\ \E s \in Unknown : call' = [call EXCEPT ![c].pc = "ckptfs", ![c].s = s]
    /\ SameStore /\ SameBut(c)

AcceptUnknown(c) ==
    /\ At(c, "acceptstep")
    /\ Store!AcceptStep(Tok(c), call[c].s)
    /\ res' = [res EXCEPT ![call[c].s] = "ok"]
    /\ Go(c, IF Unknown = {call[c].s} THEN "resolve" ELSE "accept")
    /\ SameFiles /\ UNCHANGED <<reviewed, crashes>>

BeginDiscard(c) ==
    /\ At(c, "discard") /\ Holds(c)
    /\ Go(c, "discardfs")
    /\ SameStore /\ SameBut(c)

\* The journal is read again before the copy is removed; the lease is not.
DiscardTree(c) ==
    /\ At(c, "discardfs")
    /\ IF pub.bound /\ ~pub.done
       THEN Go(c, "park") /\ UNCHANGED space
       ELSE space' = "gone" /\ Go(c, "discarded")
    /\ SameStore /\ SameNotes /\ UNCHANGED <<crashes, tree, head, ckpt, orig, pub>>

-----------------------------------------------------------------------------
(* Every transition of the run row that a call makes, as a table: where to, *)
(* which reconciliation_json, and where the call goes on.                   *)

Move(to, value, next) == [to |-> to, value |-> value, next |-> next]

\* A shadow keeps uncertain work for the operator; other modes close the run.
KeepOr(to, value) ==
    IF Mode = "shadow" THEN Move("awaiting_reconciliation", "parked", "leave")
                       ELSE Move(to, value, "leave")

\* How recovery closes: a write in doubt or a publication under way goes to
\* the operator, read-only work may simply be resumed.
WriteActive == \E s \in Writers :
                 step[s] \in {"dispatching", "running", "interrupted", "unknown"}
RecoveredAs(c) ==
    LET shadow     == Mode = "shadow" /\ space # "no"
        finalizing == call[c].seen = "finalizing"
    IN  IF WriteActive \/ (shadow /\ (finalizing \/ pub.row \in {"applying", "conflicted"}))
        THEN Move("awaiting_reconciliation",
                  IF shadow /\ finalizing THEN "parked_approved" ELSE "parked", "leave")
        ELSE Move("interrupted", "none", "leave")

RunMoves(c) ==
    [begin       |-> Move("running", recon, "workspace"),
     restart     |-> Move("recovering", recon, "begin"),
     authorize   |-> Move("recovering", "granted", "authorized"),
     authorized  |-> Move("running", "granted", "workspace"),
     decline     |-> Move("cancelled", "declined", "leave"),
     mark_failed |-> Move("failed", "resolved", "leave"),
     discarded   |-> Move("failed", "resolved", "leave"),
     resolve     |-> Move("recovering", "resolved", "resolved"),
     resolved    |-> Move("running", "resolved", "workspace"),
     pause       |-> Move("awaiting_reconciliation", "consent", "leave"),
     blocked     |-> KeepOr("blocked", recon),
     needs       |-> KeepOr("needs_changes", "none"),
     finalize    |-> Move("finalizing", recon, "publish"),
     approve     |-> Move("approved", "none", "cleanup"),
     applied     |-> Move(IF recon = "parked_approved" THEN "approved" ELSE "needs_changes",
                          "resolved", "cleanup"),
     park        |-> Move("awaiting_reconciliation", Parked, "leave"),
     broken      |-> IF Mode = "shadow" /\ space # "no"
                     THEN Move("awaiting_reconciliation", Parked, "leave")
                     ELSE Move("failed", recon, "leave"),
     r_mark      |-> Move("recovering", recon, "r_steps"),
     r_finish    |-> RecoveredAs(c)]

MovePcs == DOMAIN RunMoves(CHOOSE c \in Calls : TRUE)

\* Handlers that swallow or propagate a failed transition instead of treating
\* it as an engine failure of its own.
LastResort == {"park", "broken", "r_mark", "r_finish"}

MoveRun(c) ==
    /\ call[c].pc \in MovePcs
    /\ LET m == RunMoves(c)[call[c].pc]
       IN  /\ call[c].pc = "broken" => ~Terminal
           /\ Store!TransitionRun(Tok(c), m.to, m.value)
           /\ Go(c, m.next)
    /\ SameBut(c)

\* InvalidStateTransition: only a cancel request, which needs no lease, can
\* have moved the run under its owner, unless the run had ended before.
MoveIsIllegal(c) ==
    /\ call[c].pc \in MovePcs /\ Holds(c)
    /\ \/ ~Store!Legal(Store!RunTransitions, status, RunMoves(c)[call[c].pc].to)
       \/ At(c, "broken") /\ Terminal
    /\ Go(c, IF call[c].pc \in LastResort THEN "leave" ELSE "broken")
    /\ SameStore /\ SameBut(c)

-----------------------------------------------------------------------------
(* The workspace, and walking the phases. *)

NextPhase(s) == [pc |-> "phase", s |-> s]

\* _normalize_architect_write_authorization: consent that is not needed, or was
\* given, is not asked for, whatever the architect's report says.
AsksForConsent(s, r) == s = Architect /\ r = "write" /\ NeedsConsent /\ recon # "granted"
AsksForChanges(r) == r = "blockers"

\* A slip: what a writer did goes straight to publication.
AfterWithoutReview(s, r) ==
    IF s = Architect THEN NextPhase(s + 1) ELSE [pc |-> "finalize", s |-> s]

\* A slip: the architect's request for changes is taken for consent.
AfterWithoutConsent(s, r) ==
    IF s = Architect \/ s \in Writers THEN NextPhase(s + 1)
    ELSE [pc |-> IF r = "blockers" THEN "needs" ELSE "finalize", s |-> s]

\* Where run() goes once step s has a good result r.
After(s, r) ==
    IF s \in Reviews
    THEN CASE ~AsksForChanges(r)                -> [pc |-> "finalize", s |-> s]
           [] AsksForChanges(r) /\ s < LastStep -> NextPhase(s + 1)
           [] OTHER                             -> [pc |-> "needs", s |-> s]
    ELSE IF AsksForConsent(s, r) THEN [pc |-> "pause", s |-> s] ELSE NextPhase(s + 1)

Resume(c, to) == call' = [call EXCEPT ![c].pc = to.pc, ![c].s = to.s, ![c].i = 0,
                                      ![c].out = "none"]

\* A slip: whatever is in the tree is taken for the checkpoint.
TreeIsTrusted == space # "gone"

\* A tree that is not what its checkpoint says goes to the operator; a
\* worktree is compared by its HEAD only.
TreeIsVerified ==
    /\ space # "gone"
    /\ Mode = "shadow" => tree = head
    /\ Mode = "worktree" => HeadMatches

\* prepare, when the store has no checkpoint of the run.  A shadow is announced
\* by a row before its copy is made, outside any transaction; the folder may be
\* refused, and the copy may fail.
PrepareWorkspace(c) ==
    /\ At(c, "workspace") /\ Holds(c) /\ space = "no"
    /\ \/ /\ Mode = "shadow"
          /\ space' = "gone" /\ Go(c, "preparing")
       \/ /\ Mode # "shadow"
          /\ space' = "yes" /\ Resume(c, NextPhase(Architect))
       \/ /\ Mode # "in-place"
          /\ Go(c, "park") /\ UNCHANGED space
    /\ SameStore /\ SameNotes /\ UNCHANGED <<crashes, tree, head, ckpt, orig, pub>>

CopyWorkspace(c) ==
    /\ At(c, "preparing")
    /\ \/ space' = "yes" /\ Go(c, "prepared")
       \/ Go(c, "park") /\ UNCHANGED space
    /\ SameStore /\ SameNotes /\ UNCHANGED <<crashes, tree, head, ckpt, orig, pub>>

RecordWorkspace(c) ==
    /\ At(c, "prepared") /\ Holds(c)
    /\ Resume(c, NextPhase(Architect))
    /\ SameStore /\ SameBut(c)

\* restore_or_reconstruct, when the store has one.
OpenWorkspace(c) ==
    /\ At(c, "workspace") /\ Holds(c) /\ space # "no"
    /\ \/ /\ space = "gone" /\ Mode = "worktree"    \* Git still has the commit
          /\ space' = "yes" /\ tree' = ckpt /\ head' = ckpt
          /\ Resume(c, NextPhase(Architect))
       \/ /\ space = "yes" \/ Mode # "worktree"
          /\ IF TreeIsVerified THEN Resume(c, NextPhase(Architect)) ELSE Go(c, "park")
          /\ UNCHANGED <<space, tree, head>>
    /\ SameStore /\ SameNotes /\ UNCHANGED <<crashes, ckpt, orig, pub>>

\* A slip: a write in doubt is retried like any other unfinished step.
SettleRetrying(c) ==
    LET s == call[c].s IN
    /\ At(c, "phase")
    /\ \/ /\ step[s] = "succeeded"
          /\ Resume(c, After(s, res[s])) /\ SameStore
       \/ /\ Store!ResetStep(Tok(c), s, FALSE)
          /\ Go(c, "materialize")
       \/ /\ step[s] \in {"absent", "pending", "dispatching", "running", "cancelled"}
          /\ Go(c, "materialize") /\ SameStore
    /\ SameBut(c)

\* _settled_phase_result: replay a succeeded step, refuse an unknown write,
\* reset what was interrupted or failed, materialize the rest.
Settle(c) ==
    LET s == call[c].s IN
    /\ At(c, "phase")
    /\ \/ /\ CancelSeen
          /\ Go(c, "cancelling") /\ SameStore
       \/ /\ ~CancelSeen /\ step[s] = "succeeded"
          /\ Resume(c, After(s, res[s])) /\ SameStore
       \/ /\ ~CancelSeen /\ step[s] = "unknown" /\ s \in Writers
          /\ Go(c, "blocked") /\ SameStore
       \/ /\ ~CancelSeen /\ ~(step[s] = "unknown" /\ s \in Writers)
          /\ Store!ResetStep(Tok(c), s, FALSE)
          /\ Go(c, "materialize")
       \/ /\ ~CancelSeen
          /\ step[s] \in {"absent", "pending", "dispatching", "running", "cancelled"}
          /\ Go(c, "materialize") /\ SameStore
    /\ SameBut(c)

Materialize(c) ==
    LET s == call[c].s IN
    /\ At(c, "materialize")
    /\ \/ /\ Store!CreateStep(Tok(c), s)
          /\ Go(c, "dispatch1")
       \/ /\ step[s] # "absent" /\ Holds(c)
          /\ Go(c, IF step[s] = "pending" THEN "dispatch1" ELSE "participant")
          /\ SameStore
    /\ SameBut(c)

\* Two transactions take a pending step to "running".
Dispatch(c) ==
    /\ \/ /\ At(c, "dispatch1")
          /\ Store!TransitionStep(Tok(c), call[c].s, "dispatching")
          /\ Go(c, "dispatch2")
       \/ /\ At(c, "dispatch2")
          /\ Store!TransitionStep(Tok(c), call[c].s, "running")
          /\ Go(c, "participant")
    /\ SameBut(c)

\* A participant that already succeeded contributes its recorded result.
PrepareParticipant(c) ==
    LET s == call[c].s IN
    /\ At(c, "participant")
    /\ \/ /\ CancelSeen /\ Holds(c)
          /\ Go(c, "cancelling") /\ SameStore
       \/ /\ ~CancelSeen
          /\ Store!CreateParticipant(Tok(c), s)
          /\ Go(c, "attempt")
       \/ /\ ~CancelSeen /\ Holds(c) /\ part[s] # "absent"
          /\ Go(c, IF part[s] = "succeeded" THEN "reduce" ELSE "attempt")
          /\ SameStore
    /\ SameBut(c)

BeginAttempt(c) ==
    LET s == call[c].s IN
    /\ At(c, "attempt")
    /\ \/ /\ TotalAttempts >= MaxTotalAttempts
          /\ Go(c, "stepfail") /\ SameStore
       \/ /\ TotalAttempts < MaxTotalAttempts /\ CancelSeen /\ Holds(c)
          /\ Go(c, "cancelling") /\ SameStore
       \/ /\ TotalAttempts < MaxTotalAttempts /\ ~CancelSeen
          /\ Store!CreateAttempt(Tok(c), s)
          /\ call' = [call EXCEPT ![c].pc = "att1", ![c].i = Len(att[s]) + 1]
    /\ SameBut(c)

StartProvider(c) ==
    /\ \/ /\ At(c, "att1")
          /\ Store!TransitionAttempt(Tok(c), call[c].s, call[c].i, "running")
          /\ Go(c, "att2")
       \/ /\ At(c, "att2")
          /\ Store!TransitionParticipant(Tok(c), call[c].s, "running")
          /\ Go(c, "calling")
    /\ SameBut(c)

-----------------------------------------------------------------------------
(* The provider call and what is recorded of it. *)

Beat(c) ==
    /\ At(c, "calling") /\ ~CancelSeen
    /\ Store!Heartbeat(Tok(c)) /\ ~lease.valid
    /\ UNCHANGED call /\ SameBut(c)

\* The heartbeat kills a provider whose lease was taken over; Lingering is a
\* provider that still writes before that happens.
ProviderWrites(c) ==
    /\ At(c, "calling") /\ call[c].s \in Writers
    /\ Effect(c) \notin tree
    /\ space = "yes"
    /\ Lingering \/ (lease.owner = c /\ lease.epoch = call[c].epoch)
    /\ tree' = tree \cup {Effect(c)}
    /\ SameStore /\ SameNotes
    /\ UNCHANGED <<call, crashes, space, head, ckpt, orig, pub>>

\* "bad" is a provider failure; "blocked" a result the reducer refuses.
Answers(c) ==
    Answering \cap
    CASE call[c].s = Architect -> {"ok", "write", "blocked", "bad"}
      [] call[c].s \in Writers -> {"blocked", "bad"} \cup
                                  (IF Effect(c) \in tree THEN {"ok"} ELSE {})
      [] OTHER                 -> {"ok", "blockers", "blocked", "bad"}

ProviderReturns(c) ==
    /\ At(c, "calling")
    /\ \E out \in Answers(c) :
         call' = [call EXCEPT ![c].pc = "called", ![c].out = out,
                    ![c].saw = IF call[c].s \in Reviews THEN tree ELSE {}]
    /\ SameStore /\ SameBut(c)

\* raise_if_unhealthy, then the result of the attempt.
RecordAttempt(c) ==
    /\ At(c, "called")
    /\ \/ /\ CancelSeen
          /\ Go(c, "cancelling") /\ SameStore
       \/ /\ ~CancelSeen
          /\ Store!TransitionAttempt(Tok(c), call[c].s, call[c].i,
                IF call[c].out = "bad" THEN "failed" ELSE "succeeded")
          /\ Go(c, "recorded")
    /\ SameBut(c)

RecordParticipant(c) ==
    LET s == call[c].s IN
    /\ At(c, "recorded")
    /\ IF call[c].out = "bad"
       THEN /\ Store!TransitionParticipant(Tok(c), s, "failed")
            /\ call' = [call EXCEPT ![c].pc = "stepfail"]
            /\ SameNotes
       ELSE /\ Store!TransitionParticipant(Tok(c), s, "succeeded")
            /\ call' = [call EXCEPT ![c].pc = "reduce", ![c].saw = {}]
            /\ res' = [res EXCEPT ![s] = call[c].out]
            /\ reviewed' = [reviewed EXCEPT ![s] = call[c].saw]
    /\ SameFiles /\ UNCHANGED crashes

\* A slip: a writer's work is taken for good without a checkpoint of it.
ReduceWithoutCheckpoint(c) ==
    /\ At(c, "reduce")
    /\ Go(c, IF res[call[c].s] = "blocked" THEN "stepfail" ELSE "stepok")
    /\ SameStore /\ SameBut(c)

Reduce(c) ==
    LET s == call[c].s IN
    /\ At(c, "reduce")
    /\ s \in Writers => Holds(c)
    /\ Go(c, IF res[s] = "blocked" THEN "stepfail"
             ELSE IF s \in Writers THEN "ckptfs" ELSE "stepok")
    /\ SameStore /\ SameBut(c)

\* The workspace checkpoint is taken outside any transaction; a policy
\* violation in the tree raises instead.
CheckpointTree(c) ==
    /\ At(c, "ckptfs")
    /\ \/ /\ space = "yes"
          /\ head' = tree
          /\ call' = [call EXCEPT ![c].pc = "ckptdb", ![c].saw = tree]
       \/ /\ Mode = "shadow"
          /\ Go(c, "park") /\ UNCHANGED head
    /\ SameStore /\ SameNotes /\ UNCHANGED <<crashes, space, tree, ckpt, orig, pub>>

RecordCheckpoint(c) ==
    /\ At(c, "ckptdb") /\ Holds(c)
    /\ ckpt' = call[c].saw
    /\ call' = [call EXCEPT ![c].saw = {},
                  ![c].pc = IF call[c].act = "accept" /\ step[call[c].s] = "unknown"
                            THEN "acceptstep" ELSE "stepok"]
    /\ SameStore /\ SameNotes /\ UNCHANGED <<crashes, space, tree, head, orig, pub>>

SucceedStep(c) ==
    /\ At(c, "stepok")
    /\ Store!TransitionStep(Tok(c), call[c].s, "succeeded")
    /\ Resume(c, After(call[c].s, res[call[c].s]))
    /\ SameBut(c)

\* A slip: a failure is written without the lease.
FailStepUnfenced(c) ==
    /\ At(c, "stepfail")
    /\ step' = [step EXCEPT ![call[c].s] = "failed"]
    /\ Go(c, "blocked")
    /\ UNCHANGED <<status, cancel, recon, lease, issued, part, att>> /\ SameBut(c)

FailStep(c) ==
    /\ At(c, "stepfail")
    /\ Store!TransitionStep(Tok(c), call[c].s, "failed")
    /\ Go(c, "blocked")
    /\ SameBut(c)

\* A step left in "dispatching" by a dead owner cannot be taken to succeeded.
StepIsIllegal(c) ==
    /\ Holds(c)
    /\ \/ At(c, "stepok") /\ ~Store!Legal(Store!StepTransitions, step[call[c].s], "succeeded")
       \/ At(c, "stepfail") /\ ~Store!Legal(Store!StepTransitions, step[call[c].s], "failed")
    /\ Go(c, "broken")
    /\ SameStore /\ SameBut(c)

-----------------------------------------------------------------------------
(* Publication of the approved (or operator-applied) checkpoint. *)

PublishPcs == {"pubfs", "pubops", "pubdone", "conflicted"}
LockFree(c) == \A d \in Calls \ {c} : call[d].pc \notin PublishPcs

BeginPublish(c) ==
    /\ At(c, "publish") /\ Holds(c)
    /\ \/ /\ Mode = "in-place"
          /\ Go(c, "approve") /\ UNCHANGED pub
       \/ /\ Mode = "worktree"
          /\ \/ orig \in {{}, ckpt} /\ Go(c, "pubfs")
             \/ Go(c, "park")            \* a person moved HEAD or edited files
          /\ UNCHANGED pub
       \/ /\ Mode = "shadow" /\ LockFree(c)
          /\ Go(c, "pubfs")
          /\ pub' = [pub EXCEPT !.row = IF @ = "published" /\ pub.of = head
                                         THEN @ ELSE "applying"]
    /\ SameStore /\ SameNotes /\ UNCHANGED <<crashes, space, tree, head, ckpt, orig>>

\* git apply runs without a fence, between two lease checks.
ApplyPatch(c) ==
    /\ At(c, "pubfs") /\ Mode = "worktree"
    /\ IF orig \in {{}, ckpt}
       THEN orig' = ckpt /\ Go(c, "pubdone")
       ELSE UNCHANGED orig /\ Go(c, "park")
    /\ SameStore /\ SameNotes /\ UNCHANGED <<crashes, space, tree, head, ckpt, pub>>

\* The file journal is bound to one checkpoint for good.
Preflight(c) ==
    /\ At(c, "pubfs") /\ Mode = "shadow"
    /\ \/ /\ pub.bound /\ pub.of # head
          /\ Go(c, "park") /\ UNCHANGED pub
       \/ /\ space # "yes"
          /\ Go(c, "park") /\ UNCHANGED pub
       \/ /\ pub.bound => pub.of = head
          /\ space = "yes"
          /\ \/ Go(c, "conflicted") /\ UNCHANGED pub  \* a person edited a path
             \/ /\ head = orig
                /\ pub' = [pub EXCEPT !.done = pub.bound]
                /\ Go(c, "pubdone")
             \/ /\ head # orig
                /\ pub' = [pub EXCEPT !.bound = TRUE, !.of = head, !.done = FALSE]
                /\ Go(c, "pubops")
    /\ SameStore /\ SameNotes /\ UNCHANGED <<crashes, space, tree, head, ckpt, orig>>

\* Each operation is announced to the store, under the fence, before it runs.
ApplyOperation(c) ==
    /\ At(c, "pubops") /\ Holds(c)
    /\ \/ /\ pub.of \subseteq orig
          /\ pub' = [pub EXCEPT !.done = TRUE]
          /\ Go(c, "pubdone") /\ UNCHANGED orig
       \/ \E e \in pub.of \ orig :
            orig' = orig \cup {e} /\ UNCHANGED <<call, pub>>
    /\ SameStore /\ SameNotes /\ UNCHANGED <<crashes, space, tree, head, ckpt>>

FinishPublish(c) ==
    /\ Holds(c)
    /\ \/ /\ At(c, "pubdone")
          /\ pub' = [pub EXCEPT !.row = "published"]
          /\ Go(c, IF call[c].act = "apply" THEN "applied" ELSE "approve")
       \/ /\ At(c, "conflicted")
          /\ pub' = [pub EXCEPT !.row = "conflicted"]
          /\ Go(c, "park")
    /\ SameStore /\ SameNotes /\ UNCHANGED <<crashes, space, tree, head, ckpt, orig>>

\* After the run has ended its workspace is removed, unless retention keeps it
\* or removing it fails; the lease is not checked again.
CleanUp(c) ==
    /\ At(c, "cleanup")
    /\ space' \in {space} \cup (IF Mode = "in-place" THEN {} ELSE {"gone"})
    /\ Go(c, "leave")
    /\ SameStore /\ SameNotes /\ UNCHANGED <<crashes, tree, head, ckpt, orig, pub>>

-----------------------------------------------------------------------------
(* Recovery of runs whose lease expired. *)

\* A slip: recovery does not look for runs that were being published.
StaleStatusUnpublished == {"running", "recovering", "cancelling"}

StaleStatus == {"running", "recovering", "finalizing", "cancelling"}
Stale == status \in StaleStatus /\ lease.owner # NoOwner /\ ~lease.valid

RecoverScan(c) ==
    /\ c \in RecoveryCalls /\ call[c].pc \in {"new", "done"} /\ Stale
    /\ Go(c, "r_acquire")
    /\ SameStore /\ SameBut(c)

\* The scan and the acquisition are two transactions.
RecoverAcquire(c) == At(c, "r_acquire") /\ (AcquireTo(c, "r_read") \/ Refused(c))

RecoverRead(c) ==
    /\ At(c, "r_read")
    /\ call' = [call EXCEPT ![c].seen = status,
                  ![c].pc = IF cancel \/ status = "cancelling" THEN "cancelling"
                            ELSE IF status = "recovering" THEN "r_steps" ELSE "r_mark"]
    /\ SameStore /\ SameBut(c)

Doubt(s) == IF s \in Writers THEN "unknown" ELSE "interrupted"

\* Participants are left as they are.
ToClassify ==
    {s \in Steps : /\ step[s] \in {"dispatching", "running", "interrupted", "unknown"}
                   /\ step[s] # Doubt(s)
                   /\ Store!Legal(Store!StepTransitions, step[s], Doubt(s))}
LiveAttempts(s) ==
    {i \in 1..Len(att[s]) : /\ step[s] \in {"interrupted", "unknown"}
                            /\ att[s][i].status \in Store!LiveAttempt}

RecoverSteps(c) ==
    /\ At(c, "r_steps")
    /\ \/ \E s \in ToClassify :
            Store!TransitionStep(Tok(c), s, Doubt(s)) /\ UNCHANGED call
       \/ /\ ToClassify = {}
          /\ \E s \in Steps : \E i \in LiveAttempts(s) :
               Store!ClassifyStaleAttempt(Tok(c), s, i, Doubt(s)) /\ UNCHANGED call
       \/ /\ ToClassify = {} /\ \A s \in Steps : LiveAttempts(s) = {}
          /\ Go(c, "r_finish") /\ SameStore
    /\ SameBut(c)

-----------------------------------------------------------------------------
(* Cancellation, leaving, and what happens to a call from outside. *)

RequestCancel(c) ==
    /\ c \in CancelCalls /\ At(c, "new")
    /\ \/ /\ Store!RequestCancellation
          /\ Go(c, IF status = "pending" THEN "done" ELSE "c_acquire")
       \/ /\ Terminal /\ SameStore
          /\ Go(c, IF status = "cancelled" THEN "done" ELSE "c_acquire")
    /\ SameBut(c)

CancelAcquire(c) == At(c, "c_acquire") /\ (AcquireTo(c, "cancelling") \/ Refused(c))

FinishCancel(c) ==
    /\ At(c, "cancelling")
    /\ \/ Store!FinalizeCancellation(Tok(c))
       \/ /\ Holds(c) /\ SameStore
          /\ \/ status = "cancelled"
             \/ ~Store!Legal(Store!RunTransitions, status, "cancelled")
    /\ Go(c, "leave")
    /\ SameBut(c)

\* finally: release_lease, which matches nothing once the lease moved on.
Leave(c) ==
    /\ At(c, "leave")
    /\ \/ Store!ReleaseLease(Tok(c))
       \/ /\ ~(lease.owner = c /\ lease.epoch = call[c].epoch)
          /\ SameStore
    /\ call' = [call EXCEPT ![c] = [NewCall EXCEPT !.pc = "done", !.act = call[c].act]]
    /\ SameBut(c)

FencedPcs == MovePcs \cup
    {"restore", "reset", "accept", "acceptstep", "discard", "workspace", "prepared", "phase",
     "materialize", "dispatch1", "dispatch2", "participant", "attempt", "att1",
     "att2", "called", "recorded", "reduce", "ckptdb", "stepok", "stepfail",
     "publish", "pubops", "pubdone", "conflicted", "r_steps", "cancelling"}

\* LeaseFenceError: the worker is stale and must not persist anything.
Lost(c) ==
    /\ call[c].pc \in FencedPcs /\ ~Holds(c)
    /\ Go(c, "leave")
    /\ SameStore /\ SameBut(c)

Crash(c) ==
    /\ crashes < MaxCrashes
    /\ call[c].pc \notin {"new", "admitted", "done", "dead"}
    /\ crashes' = crashes + 1
    /\ Go(c, "dead")
    /\ SameStore /\ SameNotes /\ SameFiles

LeaseExpires ==
    /\ Store!LeaseExpires
    /\ UNCHANGED <<call, crashes, noteVars, fileVars>>

-----------------------------------------------------------------------------
Deciding(c)   == \/ Decide(c) \/ BeginRestore(c) \/ RestoreTree(c) \/ RestoreWorktree(c)
                 \/ ResetUnknown(c)
                 \/ BeginAccept(c) \/ AcceptUnknown(c) \/ BeginDiscard(c) \/ DiscardTree(c)
Opening(c)    == \/ PrepareWorkspace(c) \/ CopyWorkspace(c) \/ RecordWorkspace(c)
                 \/ OpenWorkspace(c)
Executing(c)  == \/ Settle(c) \/ Materialize(c) \/ Dispatch(c)
                 \/ PrepareParticipant(c) \/ BeginAttempt(c) \/ StartProvider(c)
                 \/ RecordAttempt(c) \/ RecordParticipant(c) \/ Reduce(c)
                 \/ CheckpointTree(c) \/ RecordCheckpoint(c) \/ SucceedStep(c)
                 \/ FailStep(c) \/ StepIsIllegal(c)
Providing(c)  == ProviderWrites(c) \/ Beat(c)
Publishing(c) == \/ BeginPublish(c) \/ ApplyPatch(c) \/ Preflight(c)
                 \/ ApplyOperation(c) \/ FinishPublish(c) \/ CleanUp(c)
Recovering(c) == RecoverAcquire(c) \/ RecoverRead(c) \/ RecoverSteps(c)
Cancelling(c) == CancelAcquire(c) \/ FinishCancel(c)

\* What a live process does next on its own once it is under way.
Progress(c) ==
    \/ Enter(c) \/ Branch(c) \/ MoveRun(c) \/ MoveIsIllegal(c) \/ Deciding(c)
    \/ Opening(c) \/ Executing(c) \/ ProviderReturns(c) \/ Publishing(c) \/ Recovering(c)
    \/ Cancelling(c) \/ Lost(c) \/ Leave(c)

Operate ==
    \E c \in Calls :
      \/ Progress(c) \/ Submit(c) \/ Providing(c) \/ RecoverScan(c)
      \/ RequestCancel(c) \/ Crash(c)

Next == Operate \/ LeaseExpires

Spec == Init /\ [][Next]_vars

\* Under good timing a lease outlives every operation of a live owner, so that
\* only a dead owner's expires; then processes keep running, the dead owner's
\* lease does expire, and recovery is run again and again.
DeadLeaseExpires ==
    /\ \E c \in Calls : At(c, "dead") /\ lease.owner = c
    /\ LeaseExpires

TimelySpec ==
    /\ Init /\ [][Operate \/ DeadLeaseExpires]_vars
    /\ \A c \in Calls : WF_vars(Progress(c)) /\ WF_vars(RecoverScan(c))
    /\ WF_vars(DeadLeaseExpires)

-----------------------------------------------------------------------------
(* Properties. *)

TypeOK ==
    /\ Store!TypeOK
    /\ res \in [Steps -> {"none", "ok", "write", "blockers", "blocked"}]
    /\ reviewed \in [Steps -> SUBSET Effects]
    /\ \A c \in Calls : /\ call[c].epoch \in Nat /\ call[c].s \in Steps
                        /\ call[c].i \in 0..MaxTotalAttempts
    /\ crashes \in 0..MaxCrashes
    /\ space \in {"no", "yes", "gone"}
    /\ {tree, head, ckpt, orig, pub.of} \subseteq SUBSET Effects

\* Whatever the calls do and however they interleave, the rows evolve as the
\* store allows: the engine implements the most general client of RunStore.
StoreIsRespected == Store!Spec

\* A phase starts only after the one before it succeeded, and a fix round only
\* after a review with blockers, through every resume, reset and recovery.
PhasesInOrder ==
    \A s \in Steps \ {Architect} :
        step[s] \notin {"absent", "cancelled"} =>
            /\ step[s - 1] = "succeeded"
            /\ s \in Writers /\ s > 2 => res[s - 1] = "blockers"

\* A write whose effects are unknown is retried or taken for done only by a
\* call that carries an operator's decision ("never retried blindly").
DoubtNeedsDecision ==
    [][\A s \in Writers :
         step[s] = "unknown" /\ step'[s] \in {"pending", "running", "succeeded"}
         => \E c \in RunCalls : Holds(c) /\ call[c].act \in {"restore", "accept"}]_vars

\* A writer is dispatched only on a tree that is exactly its last checkpoint:
\* no attempt builds on the leftovers of an earlier one.
WritersStartClean ==
    [][\A s \in Writers : Len(att'[s]) > Len(att[s]) => tree = head]_vars

\* In an isolated workspace the original changes only after a review without
\* blockers, or because an operator applied the checkpoint.
OriginalIsProtected ==
    Mode # "in-place" /\ orig # {} =>
        \/ \E s \in Reviews : step[s] = "succeeded" /\ res[s] = "ok"
        \/ \E c \in RunCalls : call[c].act = "apply"

\* An approved run left in the original exactly what the approving review saw.
ApprovedIsWhatWasReviewed ==
    Mode # "in-place" /\ status = "approved" =>
        \E s \in Reviews : /\ step[s] = "succeeded" /\ res[s] = "ok"
                           /\ orig = reviewed[s]

\* The journal says that it is done only when every operation of its target
\* reached the original, and nothing else ever reaches it.
PublishedIsComplete ==
    Mode = "shadow" =>
        /\ orig \subseteq pub.of
        /\ pub.done => orig = pub.of

\* A protected copy is never discarded while its publication is half applied:
\* the original is then untouched or completely published.
DiscardLosesNothing ==
    Mode = "shadow" /\ space = "gone" => orig = {} \/ pub.done

\* What isolation promises, as one invariant, through every resume, decision
\* and cleanup (publish, discard_workspace and cleanup_terminal).
Isolation == OriginalIsProtected /\ PublishedIsComplete /\ DiscardLosesNothing

\* No writer attempt exists before consent where consent is required and the
\* architect asked for it.
WritesNeedConsent ==
    [][\A s \in Writers :
         Len(att'[s]) > Len(att[s]) /\ NeedsConsent /\ res[Architect] = "write"
         => recon = "granted"]_vars

\* Once a person asked to cancel, the run never completes as anything else
\* than cancelled or failed.
CancelIsSticky == cancel => status \in {"cancelling", "cancelled", "failed"}

\* The rows of a run fit together whoever wrote them: every call, its crash and
\* whoever takes over (_execute_phase, request_cancel, recover_stale_runs).
RunIsSound == TypeOK /\ PhasesInOrder /\ CancelIsSticky

\* The effects of the attempt a succeeded writer step rests on are still in
\* the workspace's checkpoint.
SucceededWritesAreKept ==
    \A s \in Writers :
        LET n == Len(att[s]) IN
        step[s] = "succeeded" /\ n > 0 /\ att[s][n].status = "succeeded"
        => <<s, n>> \in IF Mode = "in-place" THEN tree ELSE head

\* A run whose last review had no blockers never ends as needs_changes.
ApprovalIsNotDowngraded ==
    status = "needs_changes" =>
        \A s \in Reviews : ~(step[s] = "succeeded" /\ res[s] = "ok")

\* A writer is not dispatched again on top of what an unconfirmed attempt of
\* the same step left in the workspace, unless an operator decided so.
UnconfirmedWritesAreNotRepeated ==
    [][\A s \in Writers :
         /\ Len(att'[s]) > Len(att[s])
         /\ \E i \in 1..Len(att[s]) : /\ att[s][i].status \in Store!LiveAttempt \cup {"unknown"}
                                     /\ <<s, i>> \in tree \ head
         => \E c \in RunCalls : Holds(c) /\ call[c].act \in {"restore", "accept"}]_vars

\* A run whose cancellation was requested ends cancelled.
CancelledRunsEndCancelled == cancel => status \in {"cancelling", "cancelled"}

\* Statuses that promise that somebody is at work.
UnderWay == {"running", "recovering", "finalizing", "cancelling"}

\* No run stays under way for ever: its owner ends it or parks it, or recovery
\* does once the owner has died, whatever the run and recovery were doing then.
RunsAreSettled == status \in UnderWay ~> status \notin UnderWay
=============================================================================
