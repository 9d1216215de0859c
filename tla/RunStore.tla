------------------------------ MODULE RunStore ------------------------------
(***************************************************************************)
(* The durable store of one workflow run (router/durability/store*.py).    *)
(*                                                                         *)
(* Every operation of the store is one SQLite BEGIN IMMEDIATE transaction, *)
(* so every operation is one atomic action.  The clients are arbitrary:    *)
(* any owner may present any lease token the store ever gave out, at any   *)
(* time and in any order, which covers zombies that outlived their lease,  *)
(* recovery processes, operators and cancel requests alike.  An operation  *)
(* whose guard is false raises (LeaseFenceError, InvalidStateTransition,   *)
(* RuntimeError) and its transaction changes nothing.                      *)
(***************************************************************************)
EXTENDS Naturals, Sequences

CONSTANTS
    Owners,         \* processes that may ever ask for the lease
    NoOwner,        \* the NULL lease_owner
    Steps,          \* durable steps of the run
    Writers,        \* steps whose phase may write (can_write)
    Parts,          \* participants
    StepOf,         \* the step a participant belongs to
    Recons,         \* values of reconciliation_json
    NoRecon,        \* the empty one
    MaxEpoch,       \* bound on lease epochs explored
    MaxAttempts     \* bound on attempts per participant explored

ASSUME OwnersAssumption == NoOwner \notin Owners
ASSUME StepsAssumption  == Writers \subseteq Steps /\ StepOf \in [Parts -> Steps]
ASSUME ReconAssumption  == NoRecon \in Recons
ASSUME BoundsAssumption == MaxEpoch \in Nat /\ MaxAttempts \in Nat

VARIABLES
    status,         \* workflow_runs.status
    cancel,         \* cancel_requested_at is set
    recon,          \* reconciliation_json
    lease,          \* lease_owner, lease_epoch and lease_expires_at > now
    issued,         \* every token acquire_lease ever returned
    step,           \* workflow_steps.status, "absent" before the row exists
    part,           \* step_participants.status
    att             \* step_attempts of a participant, in order

vars == <<status, cancel, recon, lease, issued, step, part, att>>

-----------------------------------------------------------------------------
(* State machines of the four kinds of rows. *)

RunTerminal == {"approved", "needs_changes", "blocked", "failed", "cancelled"}

RunTransitions ==
    [pending    |-> {"running", "cancelled", "failed"},
     running    |-> {"finalizing", "approved", "needs_changes", "blocked",
                     "failed", "cancelling", "interrupted", "unknown",
                     "awaiting_reconciliation", "recovering"},
     recovering |-> {"running", "interrupted", "unknown",
                     "awaiting_reconciliation", "failed", "cancelling",
                     "cancelled"},
     finalizing |-> {"approved", "awaiting_reconciliation", "recovering",
                     "interrupted", "unknown", "failed", "cancelling"},
     cancelling |-> {"cancelled", "unknown", "failed"},
     interrupted |-> {"recovering", "running", "cancelling", "cancelled",
                      "failed", "unknown"},
     unknown    |-> {"recovering", "awaiting_reconciliation", "cancelling",
                     "cancelled", "failed"},
     awaiting_reconciliation |->
                    {"recovering", "running", "cancelling", "cancelled",
                     "failed", "needs_changes", "approved"},
     approved   |-> {}, needs_changes |-> {}, blocked |-> {},
     failed     |-> {}, cancelled |-> {}]

StepTransitions ==
    [pending     |-> {"dispatching", "running", "skipped", "cancelled", "failed"},
     dispatching |-> {"running", "failed", "interrupted", "unknown", "cancelled"},
     running     |-> {"succeeded", "failed", "interrupted", "unknown", "cancelled"},
     interrupted |-> {"pending", "running", "unknown", "cancelled", "failed"},
     unknown     |-> {"pending", "running", "cancelled", "failed"},
     succeeded   |-> {}, failed |-> {}, skipped |-> {}, cancelled |-> {}]

AttemptTransitions ==
    [dispatching |-> {"running", "succeeded", "failed", "interrupted",
                      "unknown", "cancelled"},
     running     |-> {"succeeded", "failed", "interrupted", "unknown", "cancelled"},
     interrupted |-> {"unknown", "cancelled", "failed"},
     unknown     |-> {"cancelled", "failed"},
     succeeded   |-> {}, failed |-> {}, cancelled |-> {}]

RunStatus     == DOMAIN RunTransitions
RowStatus     == DOMAIN StepTransitions
AttemptStatus == DOMAIN AttemptTransitions

\* A slip: anything may overwrite a cancellation under way.
LegalWhileCancelling(transitions, current, target) ==
    current \in {target, "cancelling"} \/ target \in transitions[current]

\* assert_transition: staying put is always allowed.
Legal(transitions, current, target) ==
    current = target \/ target \in transitions[current]

\* Rows that still promise work: what cancellation and recovery look for.
OpenRow     == {"pending", "dispatching", "running", "interrupted", "unknown"}
OpenAttempt == {"dispatching", "running", "interrupted", "unknown"}
LiveAttempt == {"dispatching", "running"}

-----------------------------------------------------------------------------
(* The lease: an owner, an epoch that fences writes, and an expiry. *)

Token == [owner : Owners, epoch : Nat]

\* A slip: the fence compares the owner and forgets the epoch.
FenceByOwner(t) == lease.owner = t.owner /\ lease.valid

\* _assert_fence: the token is the current one and has not expired.
Fence(t) == lease.owner = t.owner /\ lease.epoch = t.epoch /\ lease.valid

Init ==
    /\ status = "pending"
    /\ cancel = FALSE
    /\ recon = NoRecon
    /\ lease = [owner |-> NoOwner, epoch |-> 0, valid |-> FALSE]
    /\ issued = {}
    /\ step = [s \in Steps |-> "absent"]
    /\ part = [p \in Parts |-> "absent"]
    /\ att = [p \in Parts |-> <<>>]

\* An unexpired lease is refused to others and kept by its own owner under
\* the same epoch; anything else is a takeover under the next epoch.
NextEpoch(o) ==
    IF lease.owner = o /\ lease.valid THEN lease.epoch ELSE lease.epoch + 1

AcquireLease(o) ==
    /\ lease.valid => lease.owner = o
    /\ NextEpoch(o) <= MaxEpoch
    /\ lease' = [owner |-> o, epoch |-> NextEpoch(o), valid |-> TRUE]
    /\ issued' = issued \cup {[owner |-> o, epoch |-> NextEpoch(o)]}
    /\ UNCHANGED <<status, cancel, recon, step, part, att>>

\* Time passes the expiry: nothing is written, the fence just stops matching.
LeaseExpires ==
    /\ lease.valid
    /\ lease' = [lease EXCEPT !.valid = FALSE]
    /\ UNCHANGED <<status, cancel, recon, issued, step, part, att>>

\* The heartbeat does not look at the expiry: it revives an expired lease that
\* nobody took over.
Heartbeat(t) ==
    /\ lease.owner = t.owner /\ lease.epoch = t.epoch
    /\ status \notin RunTerminal
    /\ lease' = [lease EXCEPT !.valid = TRUE]
    /\ UNCHANGED <<status, cancel, recon, issued, step, part, att>>

\* A slip: releasing starts the epochs over.
ReleaseLeaseForgetting(t) ==
    /\ lease.owner = t.owner /\ lease.epoch = t.epoch
    /\ lease' = [owner |-> NoOwner, epoch |-> 0, valid |-> FALSE]
    /\ UNCHANGED <<status, cancel, recon, issued, step, part, att>>

ReleaseLease(t) ==
    /\ lease.owner = t.owner /\ lease.epoch = t.epoch
    /\ lease' = [lease EXCEPT !.owner = NoOwner, !.valid = FALSE]
    /\ UNCHANGED <<status, cancel, recon, issued, step, part, att>>

-----------------------------------------------------------------------------
(* Operations on the run row. *)

\* "value" is the new reconciliation_json; recon itself leaves it as it is.
TransitionRun(t, target, value) ==
    /\ Fence(t)
    /\ Legal(RunTransitions, status, target)
    /\ status' = target
    /\ recon' = value
    /\ UNCHANGED <<cancel, lease, issued, step, part, att>>

\* The one write of the run row that needs no lease.
RequestCancellation ==
    /\ status \notin RunTerminal
    /\ status' = IF status = "pending" THEN "cancelled" ELSE "cancelling"
    /\ Legal(RunTransitions, status, status')
    /\ cancel' = TRUE
    /\ UNCHANGED <<recon, lease, issued, step, part, att>>

CancelRow(s)     == IF s \in OpenRow THEN "cancelled" ELSE s
CancelAttempt(a) == IF a.status \in OpenAttempt
                    THEN [a EXCEPT !.status = "cancelled"] ELSE a

FinalizeCancellation(t) ==
    /\ Fence(t)
    /\ status # "cancelled"
    /\ Legal(RunTransitions, status, "cancelled")
    /\ status' = "cancelled"
    /\ step' = [s \in Steps |-> CancelRow(step[s])]
    /\ part' = [p \in Parts |-> CancelRow(part[p])]
    /\ att' = [p \in Parts |-> [i \in 1..Len(att[p]) |-> CancelAttempt(att[p][i])]]
    /\ UNCHANGED <<cancel, recon, lease, issued>>

-----------------------------------------------------------------------------
(* Operations on steps. *)

CreateStep(t, s) ==
    /\ Fence(t)
    /\ step[s] = "absent"
    /\ step' = [step EXCEPT ![s] = "pending"]
    /\ UNCHANGED <<status, cancel, recon, lease, issued, part, att>>

TransitionStep(t, s, target) ==
    /\ Fence(t)
    /\ step[s] # "absent"
    /\ Legal(StepTransitions, step[s], target)
    /\ step' = [step EXCEPT ![s] = target]
    /\ UNCHANGED <<status, cancel, recon, lease, issued, part, att>>

Retriable == {"unknown", "interrupted", "failed", "cancelled"}

\* "again" is retry_successful_participants, which a writer never gets.
ResetStep(t, s, again) ==
    /\ Fence(t)
    /\ step[s] \in {"unknown", "interrupted", "failed"}
    /\ again => s \notin Writers
    /\ step' = [step EXCEPT ![s] = "pending"]
    /\ part' = [p \in Parts |->
                  IF /\ StepOf[p] = s
                     /\ \/ part[p] \in Retriable
                        \/ again /\ part[p] = "succeeded"
                  THEN "pending" ELSE part[p]]
    /\ UNCHANGED <<status, cancel, recon, lease, issued, att>>

AcceptStep(t, s) ==
    /\ Fence(t)
    /\ step[s] \in {"unknown", "interrupted"}
    /\ step' = [step EXCEPT ![s] = "succeeded"]
    /\ part' = [p \in Parts |->
                  IF StepOf[p] = s /\ part[p] \in OpenAttempt
                  THEN "succeeded" ELSE part[p]]
    /\ UNCHANGED <<status, cancel, recon, lease, issued, att>>

-----------------------------------------------------------------------------
(* Operations on participants and their attempts. *)

CreateParticipant(t, p) ==
    /\ Fence(t)
    /\ step[StepOf[p]] # "absent"
    /\ part[p] = "absent"
    /\ part' = [part EXCEPT ![p] = "pending"]
    /\ UNCHANGED <<status, cancel, recon, lease, issued, step, att>>

TransitionParticipant(t, p, target) ==
    /\ Fence(t)
    /\ part[p] # "absent"
    /\ Legal(StepTransitions, part[p], target)
    /\ part' = [part EXCEPT ![p] = target]
    /\ UNCHANGED <<status, cancel, recon, lease, issued, step, att>>

\* The participant is put to "dispatching" whatever it was: no assert_transition.
CreateAttempt(t, p) ==
    /\ Fence(t)
    /\ part[p] # "absent"
    /\ Len(att[p]) < MaxAttempts
    /\ att' = [att EXCEPT ![p] =
                 Append(@, [status |-> "dispatching", epoch |-> t.epoch])]
    /\ part' = [part EXCEPT ![p] = "dispatching"]
    /\ UNCHANGED <<status, cancel, recon, lease, issued, step>>

\* A slip: the result of an attempt is taken whichever epoch dispatched it.
TransitionAnyAttempt(t, p, i, target) ==
    /\ Fence(t)
    /\ i \in 1..Len(att[p])
    /\ Legal(AttemptTransitions, att[p][i].status, target)
    /\ att' = [att EXCEPT ![p][i].status = target]
    /\ UNCHANGED <<status, cancel, recon, lease, issued, step, part>>

\* A result is accepted only under the epoch that dispatched the attempt.
TransitionAttempt(t, p, i, target) ==
    /\ Fence(t)
    /\ i \in 1..Len(att[p])
    /\ att[p][i].epoch = t.epoch
    /\ Legal(AttemptTransitions, att[p][i].status, target)
    /\ att' = [att EXCEPT ![p][i].status = target]
    /\ UNCHANGED <<status, cancel, recon, lease, issued, step, part>>

StaleTargets == {"interrupted", "unknown", "cancelled", "failed"}

\* Recovery classifies attempts of any epoch, but never as succeeded.
ClassifyStaleAttempt(t, p, i, target) ==
    /\ Fence(t)
    /\ i \in 1..Len(att[p])
    /\ target \in StaleTargets
    /\ att[p][i].status \in OpenAttempt
    /\ Legal(AttemptTransitions, att[p][i].status, target)
    /\ att' = [att EXCEPT ![p][i].status = target]
    /\ UNCHANGED <<status, cancel, recon, lease, issued, step, part>>

-----------------------------------------------------------------------------
LeaseOp ==
    \/ LeaseExpires
    \/ \E o \in Owners : AcquireLease(o)
    \/ \E t \in issued : Heartbeat(t) \/ ReleaseLease(t)

RunOp ==
    \/ RequestCancellation
    \/ \E t \in issued :
         \/ FinalizeCancellation(t)
         \/ \E target \in RunStatus, value \in Recons :
              TransitionRun(t, target, value)

StepOp ==
    \E t \in issued, s \in Steps :
      \/ CreateStep(t, s)
      \/ \E target \in RowStatus : TransitionStep(t, s, target)
      \/ \E again \in BOOLEAN : ResetStep(t, s, again)
      \/ AcceptStep(t, s)

AttemptOp ==
    \E t \in issued, p \in Parts :
      \/ CreateParticipant(t, p)
      \/ \E target \in RowStatus : TransitionParticipant(t, p, target)
      \/ CreateAttempt(t, p)
      \/ \E i \in 1..Len(att[p]), target \in AttemptStatus :
           TransitionAttempt(t, p, i, target) \/ ClassifyStaleAttempt(t, p, i, target)

Next == LeaseOp \/ RunOp \/ StepOp \/ AttemptOp

Spec == Init /\ [][Next]_vars

-----------------------------------------------------------------------------
(* Properties. *)

Attempt == [status : AttemptStatus, epoch : Nat]

\* Every row holds one of the values its column can take.
TypeOK ==
    /\ status \in RunStatus
    /\ cancel \in BOOLEAN
    /\ recon \in Recons
    /\ lease \in [owner : Owners \cup {NoOwner}, epoch : Nat, valid : BOOLEAN]
    /\ issued \subseteq Token
    /\ step \in [Steps -> RowStatus \cup {"absent"}]
    /\ part \in [Parts -> RowStatus \cup {"absent"}]
    /\ att \in [Parts -> Seq(Attempt)]

\* Two tokens handed out under one epoch belong to one owner: acquire_lease
\* never lets two processes believe they hold the same epoch, whatever
\* sequence of takeovers, expiries, revivals and releases came before.
EpochsAreExclusive ==
    \A t, u \in issued : t.epoch = u.epoch => t.owner = u.owner

\* A token that passes the fence is at least as new as every token ever
\* handed out: a process that lost the lease to a later owner can write
\* nothing, even when its own heartbeat revives an expired lease.
OnlyNewestTokenWrites ==
    \A t \in issued : Fence(t) => \A u \in issued : u.epoch <= t.epoch

\* Attempts of a participant are numbered in the order of the epochs that
\* dispatched them, and none carries an epoch that was not handed out yet: the
\* attempt list is a faithful history of the lease.
AttemptsFollowEpochs ==
    \A p \in Parts : \A i, j \in 1..Len(att[p]) :
        i <= j => att[p][i].epoch <= att[p][j].epoch /\ att[p][j].epoch <= lease.epoch

\* Once the lease has moved to a later epoch, an unfinished attempt of an
\* earlier epoch is never recorded as succeeded: a provider answer that
\* arrives after a takeover is dropped.
LateAnswersAreDropped ==
    [][\A p \in Parts : \A i \in 1..Len(att[p]) :
         /\ att[p][i].epoch < lease.epoch
         /\ att[p][i].status # "succeeded"
         => att'[p][i].status # "succeeded"]_vars

\* Attempt history is append-only: no operation removes an attempt, rewrites
\* its epoch or reopens one that ended.
AttemptHistoryIsKept ==
    [][\A p \in Parts : \A i \in 1..Len(att[p]) :
         /\ Len(att'[p]) >= Len(att[p])
         /\ att'[p][i].epoch = att[p][i].epoch
         /\ att[p][i].status \notin OpenAttempt
              => att'[p][i].status = att[p][i].status]_vars

\* What was settled stays settled through every operation, the bulk rewrites of
\* cancellation and reset included: a succeeded step keeps its result and a run
\* that ended keeps its outcome, however late the next writer comes.
SettledWorkStays ==
    [][/\ \A s \in Steps : step[s] = "succeeded" => step'[s] = "succeeded"
       /\ status \in RunTerminal => status' = status]_vars

\* What happened stays what happened, whoever writes later: late answers are
\* dropped, ended attempts keep their history, and settled work its outcome.
OutcomesStand == LateAnswersAreDropped /\ AttemptHistoryIsKept /\ SettledWorkStays
=============================================================================
