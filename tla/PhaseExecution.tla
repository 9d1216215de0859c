--------------------------- MODULE PhaseExecution ---------------------------
(***************************************************************************)
(* One phase of a durable run, executed by several participants            *)
(* (durability/engine.py, engine_snapshot.py, reducers.py, heartbeat.py;   *)
(* team_resolution.py, execution_profiles.py, phase_deliverables.py).      *)
(*                                                                         *)
(* The plan of the phase is frozen when the run is created.  A call of the *)
(* engine prepares the participants, dispatches them in parallel threads   *)
(* or one after the other, reduces their reports to one verdict, settles   *)
(* the step and writes its deliverable.  The store is RunStore, with calls *)
(* as owners of the lease; all calls live in one process, which may crash. *)
(* The phase is the last one of its run and only reads: phases that write  *)
(* and the passage from phase to phase are in DurableEngine.               *)
(***************************************************************************)
EXTENDS Naturals, Sequences, FiniteSets

CONSTANTS
    Calls,          \* calls of run(), each made once
    NoOwner,        \* the NULL lease_owner
    Roles,          \* role configurations a run may be created with
    Presets,        \* execution presets asked for
    Teams,          \* team modes asked for, with the agents of the catalog
    Answers,        \* reports a provider may give
    MaxParts,       \* bound on the profiles of a role
    MaxParallel,    \* max_parallel_participants
    MaxPerPhase,    \* max_participants_per_phase
    MaxTotal,       \* max_total_participant_attempts
    Retains,        \* a failed phase parks the run (shadow mode)
    MaxEpoch,       \* bound on lease epochs explored
    MaxTroubles     \* bound on cancellations, troubles and leases lost explored

VARIABLES
    status, cancel, recon, lease, issued, step, part, att,  \* RunStore
    plan,       \* the frozen plan of the phase
    call,       \* calls of the engine and of recovery
    work,       \* participants executing, per call
    proc,       \* live provider processes, by call and participant
    res,        \* step_participants.result_artifact_id
    out,        \* workflow_steps.output_artifact_id
    deliv,      \* the phase_deliverables row of the step
    reader,     \* a client's backfill of missing deliverables: what it has read
    troubles    \* cancellations, troubles and leases lost so far

storeVars == <<status, cancel, recon, lease, issued, step, part, att>>
vars == <<storeVars, plan, call, work, proc, res, out, deliv, reader, troubles>>

Parts == 1..MaxParts
S     == 1      \* the durable step of the phase

Store == INSTANCE RunStore WITH
    Owners <- Calls, Steps <- {S}, Writers <- {}, StepOf <- [p \in Parts |-> S],
    Recons <- {"none", "parked"}, NoRecon <- "none", MaxAttempts <- MaxTotal + 2

ASSUME AnswersAssumption ==
    Answers \subseteq [ok : BOOLEAN, status : STRING, vote : STRING,
                       blockers : BOOLEAN, decision : STRING]
ASSUME CallsAssumption == NoOwner \notin Calls
ASSUME RolesAssumption ==
    Roles \subseteq [phase : {"architect", "implementer", "reviewer"}, strategy : STRING,
                     profiles : Seq(STRING), minS : Nat, minA : Nat, conc : Nat,
                     policy : STRING, writes : BOOLEAN]
\* Every participant a phase may have is one of Parts.
ASSUME NumbersAssumption ==
    /\ MaxParts \in Nat /\ MaxPerPhase \in 1..MaxParts /\ MaxTotal \in Nat
    /\ MaxEpoch \in Nat /\ MaxTroubles \in Nat

-----------------------------------------------------------------------------
(* The plan: what the configuration, the preset and the team freeze. *)

Least(a, b) == IF a < b THEN a ELSE b
Most(a, b)  == IF a > b THEN a ELSE b
Clamped(n, profiles) == Most(1, Least(n, Len(profiles)))

\* A role that writes with several profiles is refused.
Plannable(role) ==
    /\ role.profiles # <<>>
    /\ role.writes => Len(role.profiles) = 1

\* The policy left empty is the phase's own.
DefaultPolicy == [architect |-> "primary-with-advisors",
                  reviewer |-> "any-blocker", implementer |-> "first-success"]

RolePlan(role) ==
    [role EXCEPT
       !.minS = Clamped(role.minS, role.profiles),
       !.minA = Clamped(role.minA, role.profiles),
       !.conc = Most(1, role.conc),
       !.policy = IF role.policy = "" THEN DefaultPolicy[role.phase] ELSE role.policy]

\* One profile, first success: what "fast" and a chosen agent leave of a role.
Single(p, profile) ==
    [p EXCEPT !.profiles = <<profile>>, !.strategy = "first-success",
              !.minS = 1, !.minA = 1]

AtPreset(p, preset) ==
    IF preset = "fast" THEN Single(p, Head(p.profiles)) ELSE p

\* What each phase asks of an external agent, by declared capabilities.
Compatible(agent, phase) ==
    /\ "workspace.read" \in agent.can
    /\ phase = "implementer" => "workspace.write" \in agent.can /\ agent.writes
    /\ agent.roles # {} => phase \in agent.roles

Usable(agents, phase) == {a \in agents : a.healthy /\ Compatible(a, phase)}

\* Preferred by the profiles, then made for the role, then least privilege,
\* then the newest.
Rank(a, p) ==
    <<IF \E i \in DOMAIN p.profiles : p.profiles[i] = a.ref THEN 1 ELSE 0,
      IF p.phase \in a.roles THEN 1 ELSE 0,
      IF p.phase = "implementer" \/ ~a.writes THEN 1 ELSE 0, a.version>>

Before(r, s) ==
    \E i \in 1..4 : r[i] > s[i] /\ \A j \in 1..(i - 1) : r[j] = s[j]

Strongest(agents, p) ==
    CHOOSE a \in agents : \A b \in agents : ~Before(Rank(b, p), Rank(a, p))

\* Two manifests under one reference are a conflict; an override must name a
\* registered, usable agent; anything else falls back to the configuration.
TeamAgrees(team, p) ==
    /\ \A a, b \in team.agents : a.ref = b.ref => a.digest = b.digest
    /\ team.override # "" =>
         \E a \in Usable(team.agents, p.phase) : a.ref = team.override

WithTeam(p, team) ==
    LET fit == Usable(team.agents, p.phase) IN
    IF team.override # "" THEN Single(p, team.override)
    ELSE IF team.automatic /\ fit # {} THEN Single(p, Strongest(fit, p).ref)
    ELSE p

WithinBudget(p) ==
    /\ Len(p.profiles) <= MaxPerPhase
    /\ p.writes => Len(p.profiles) = 1

Bounded(p) ==
    [p EXCEPT !.conc = IF p.writes THEN 1
                       ELSE Least(Least(p.conc, MaxParallel), Len(p.profiles))]

\* _resolved_snapshot, for the role of this phase.
Frozen ==
    {Bounded(p) : p \in {q \in
      {WithTeam(AtPreset(RolePlan(x[1]), x[2]), x[3]) :
         x \in {y \in Roles \X Presets \X Teams :
                  /\ Plannable(y[1])
                  /\ TeamAgrees(y[3], AtPreset(RolePlan(y[1]), y[2]))}} :
      WithinBudget(q)}}

Members == 1..Len(plan.profiles)

-----------------------------------------------------------------------------
(* Reducing the reports of a set of participants, f giving each one's. *)

BlockingStatuses == {"blocked", "needs_changes", "partial"}

Blocking(a) ==
    \/ plan.phase = "reviewer" /\ a.vote \in {"changes_required", "inconclusive"}
    \/ a.blockers
    \/ a.status \in BlockingStatuses
    \/ ~a.ok

Approving(a) == a.vote = "approved" \/ (a.vote = "" /\ ~Blocking(a))

Differ(ps, f) ==
    \E p, q \in ps : \/ Blocking(f[p]) # Blocking(f[q])
                     \/ f[p].status # f[q].status /\ "" \notin {f[p].status, f[q].status}

DecisionsDiffer(ps, f) ==
    \E p, q \in ps : f[p].decision # f[q].decision /\ "" \notin {f[p].decision, f[q].decision}

AnyBlocks(ps, f) == \E p \in ps : Blocking(f[p])
Approvals(ps, f) == Cardinality({p \in ps : Approving(f[p])})

ArchitectureHolds(ps, f) ==
    /\ ~AnyBlocks(ps, f)
    /\ ~DecisionsDiffer(ps, f)
    /\ plan.policy \in {"unanimous", "conflict-blocks"} => ~Differ(ps, f)

ReviewApproves(ps, f) ==
    /\ Approvals(ps, f) >= plan.minA
    /\ CASE plan.policy = "all-approved" -> Approvals(ps, f) = Cardinality(ps)
         [] plan.policy = "quorum" -> TRUE
         [] plan.policy = "conflict-blocks" -> ~Differ(ps, f)
         [] OTHER -> ~AnyBlocks(ps, f)

Lowest(ps) == CHOOSE p \in ps : \A q \in ps : p <= q

Reduce(ps, f) ==
    CASE plan.phase = "architect" ->
           [ok |-> ArchitectureHolds(ps, f), from |-> ps,
            status |-> IF ArchitectureHolds(ps, f) THEN "planned" ELSE "blocked"]
      [] plan.phase = "reviewer" ->
           [ok |-> TRUE, from |-> ps,
            status |-> IF ReviewApproves(ps, f) THEN "approved" ELSE "needs_changes"]
      [] OTHER ->
           [ok |-> ~AnyBlocks(ps, f) /\ Cardinality(ps) >= plan.minS, from |-> ps,
            status |-> IF AnyBlocks(ps, f) THEN "blocked" ELSE f[Lowest(ps)].status]

\* The output of a phase that failed before its reports could be reduced.
Blocked(ps) == [ok |-> FALSE, from |-> ps, status |-> "blocked"]
NoOutput    == [ok |-> FALSE, from |-> {}, status |-> "none"]
NotRead     == [NoOutput EXCEPT !.status = "not read"]
HasRead     == [NoOutput EXCEPT !.status = "has read"]
NoAnswer    == [ok |-> FALSE, status |-> "", vote |-> "", blockers |-> FALSE,
                decision |-> ""]
Broken      == [NoAnswer EXCEPT !.status = "failed"]

-----------------------------------------------------------------------------
(* State. *)

\* "seen" is the status read on entering, "sub" the participant a pc is at, "todo" those still to dispatch, "held"
\* and "lost" the outcomes collected, "why" what the call is leaving for.
NewCall == [pc |-> "new", epoch |-> 0, seen |-> "none", sub |-> 1, todo |-> <<>>, held |-> {},
            lost |-> {}, spent |-> FALSE, why |-> "none", out |-> NoOutput]

NewWork == [pc |-> "idle", i |-> 0, answer |-> NoAnswer, hb |-> "off", why |-> "none"]
NoWork  == [p \in Parts |-> NewWork]

Init ==
    /\ Store!Init
    /\ plan \in Frozen
    /\ call = [c \in Calls |-> NewCall]
    /\ work = [c \in Calls |-> NoWork]
    /\ proc = {}
    /\ res = [p \in Parts |-> NoAnswer]
    /\ out = NoOutput /\ deliv = NoOutput
    /\ reader = NotRead
    /\ troubles = 0

Tok(c)     == [owner |-> c, epoch |-> call[c].epoch]
Holds(c)   == Store!Fence(Tok(c))
At(c, pc)  == call[c].pc = pc
Go(c, pc)  == call' = [call EXCEPT ![c].pc = pc]
Terminal   == status \in Store!RunTerminal

\* is_cancel_requested: a run that ended is not being cancelled any more.
CancelSeen == cancel /\ ~Terminal

SameStore == UNCHANGED storeVars
SameWork  == UNCHANGED <<work, proc>>
SameFacts == UNCHANGED <<plan, res, out, deliv, reader, troubles>>
Quiet     == SameStore /\ SameWork /\ SameFacts

\* count_attempts_for_run: rows of the run, whoever dispatched them.
AttemptRows == UNION {{p} \X DOMAIN att[p] : p \in Parts}
Used        == Cardinality(AttemptRows)

\* Leaving for a reason: cancelled, fenced out, or any other exception.
Handler == [cancel |-> "terminate", fence |-> "leave", error |-> "failing"]
Raise(c, why) == Go(c, Handler[why]) /\ Quiet

\* A fenced write of the call: it goes on, or leaves without having written.
Write(c, legal, op, next) ==
    \/ legal /\ op /\ Go(c, next) /\ SameWork /\ SameFacts
    \/ ~Holds(c) /\ Raise(c, "fence")
    \/ Holds(c) /\ ~legal /\ Raise(c, "error")

LegalRun(target)  == Store!Legal(Store!RunTransitions, status, target)
LegalStep(target) == Store!Legal(Store!StepTransitions, step[S], target)

-----------------------------------------------------------------------------
(* Entering the run and the phase. *)

Acquire(c, next) ==
    \/ /\ Store!AcquireLease(c)
       /\ call' = [call EXCEPT ![c].pc = next, ![c].epoch = Store!NextEpoch(c)]
       /\ SameWork /\ SameFacts
    \/ lease.valid /\ lease.owner # c /\ Go(c, "done") /\ Quiet

Submit(c) ==
    /\ At(c, "new")
    /\ IF Terminal THEN Go(c, "done") /\ Quiet ELSE Acquire(c, "acquired")

Entered == [pending |-> "running", interrupted |-> "recovering",
            unknown |-> "recovering", recovering |-> "running",
            awaiting_reconciliation |-> "recovering"]

ReadRun(c) ==
    /\ At(c, "acquired")
    /\ call' = [call EXCEPT ![c].seen = status,
                  ![c].pc = IF cancel \/ status = "cancelling" THEN "finalize"
                            ELSE IF status \in DOMAIN Entered THEN "entering"
                            ELSE "settle"]
    /\ Quiet

\* An interrupted run passes through "recovering".
Enter(c) ==
    /\ At(c, "entering")
    /\ LET target == Entered[call[c].seen] IN
       \/ /\ Holds(c) /\ LegalRun(target)
          /\ Store!TransitionRun(Tok(c), target, "none")
          /\ call' = [call EXCEPT ![c].seen = target,
                        ![c].pc = IF target = "running" THEN "settle" ELSE "entering"]
          /\ SameWork /\ SameFacts
       \/ ~Holds(c) /\ Raise(c, "fence")
       \/ Holds(c) /\ ~LegalRun(target) /\ Raise(c, "error")

\* A succeeded step is replayed; one interrupted or failed is reset.
Settle(c) ==
    /\ At(c, "settle")
    /\ CASE CancelSeen -> Raise(c, "cancel")
         [] ~CancelSeen /\ step[S] = "succeeded" ->
              /\ call' = [call EXCEPT ![c].pc = "finish", ![c].out = out]
              /\ Quiet
         [] ~CancelSeen /\ step[S] \in {"interrupted", "unknown", "failed"} ->
              Write(c, TRUE, Store!ResetStep(Tok(c), S, FALSE), "create")
         [] OTHER -> Go(c, "create") /\ Quiet

\* create_step returns the row it finds; only a pending one is moved on.
OpenStep(c) ==
    /\ At(c, "create")
    /\ CASE step[S] = "absent"  -> Write(c, TRUE, Store!CreateStep(Tok(c), S), "create")
         [] step[S] = "pending" ->
              Write(c, TRUE, Store!TransitionStep(Tok(c), S, "dispatching"), "opened")
         [] OTHER -> Go(c, "prepare") /\ Quiet

RunStep(c) ==
    /\ At(c, "opened")
    /\ Write(c, LegalStep("running"), Store!TransitionStep(Tok(c), S, "running"), "prepare")

\* A slip: participants are dispatched whether they have answered or not.
PrepareNotLooking(c, p) ==
    call' = [call EXCEPT ![c].todo = Append(@, p), ![c].sub = p + 1]

\* The participant that already succeeded contributes its recorded result, and
\* ends the search under "first-success"; the others are to be dispatched.
PrepareRow(c, p) ==
    IF part[p] = "succeeded"
    THEN call' = [call EXCEPT ![c].held = @ \cup {p},
                    ![c].sub = IF plan.strategy = "first-success"
                               THEN Len(plan.profiles) + 1 ELSE p + 1]
    ELSE call' = [call EXCEPT ![c].todo = Append(@, p), ![c].sub = p + 1]

Prepare(c) ==
    /\ At(c, "prepare")
    /\ LET p == call[c].sub IN
       CASE p \notin Members -> Go(c, "budget") /\ Quiet
         [] p \in Members /\ ~Holds(c) -> Raise(c, "fence")
         [] p \in Members /\ Holds(c) /\ CancelSeen -> Raise(c, "cancel")
         [] OTHER ->
              /\ IF part[p] = "absent"
                 THEN Store!CreateParticipant(Tok(c), p) ELSE SameStore
              /\ PrepareRow(c, p)
              /\ SameWork /\ SameFacts

\* A slip: the budget does not count the participants about to be dispatched.
FitsNow(c) == plan.strategy = "all" => Used <= MaxTotal

Fits(c) == plan.strategy = "all" => Used + Len(call[c].todo) <= MaxTotal

Parallel(c) == plan.strategy = "all" /\ plan.conc > 1 /\ Len(call[c].todo) > 1
InTodo(c)   == {call[c].todo[i] : i \in DOMAIN call[c].todo}

\* The participants are counted together before any is dispatched; in parallel
\* all are handed to the pool at once.
Budget(c) ==
    /\ At(c, "budget")
    /\ IF ~Fits(c)
       THEN /\ call' = [call EXCEPT ![c].pc = "fail", ![c].out = Blocked({})]
            /\ SameWork
       ELSE IF Parallel(c)
       THEN /\ Go(c, "waiting")
            /\ work' = [work EXCEPT ![c] = [p \in Parts |->
                 IF p \in InTodo(c) THEN [NewWork EXCEPT !.pc = "queued"] ELSE NewWork]]
            /\ UNCHANGED proc
       ELSE Go(c, "serial") /\ SameWork
    /\ SameStore /\ SameFacts

-----------------------------------------------------------------------------
(* A participant executing in a thread: a pool's, or the call's own. *)

Active == {"checked", "created", "started", "provider", "returned", "attempted"}
On(c, p, pc)  == work[c][p].pc = pc
Busy(c)       == {p \in Parts : work[c][p].pc \in Active}
WorkGo(c, p, pc) == work' = [work EXCEPT ![c][p].pc = pc]
Fails(c, p, why) ==
    /\ work' = [work EXCEPT ![c][p] = [NewWork EXCEPT !.pc = "raised", !.why = why]]
    /\ UNCHANGED <<storeVars, call, proc>> /\ SameFacts

\* A fenced write of a participant's thread.
WorkWrite(c, p, legal, op, next) ==
    \/ /\ legal /\ op /\ WorkGo(c, p, next)
       /\ UNCHANGED <<call, proc>> /\ SameFacts
    \/ ~Holds(c) /\ Fails(c, p, "fence")
    \/ Holds(c) /\ ~legal /\ Fails(c, p, "error")

\* The pool runs max_concurrency threads.
Check(c, p) ==
    /\ On(c, p, "queued")
    /\ Cardinality(Busy(c)) < plan.conc
    /\ CASE ~Holds(c) -> Fails(c, p, "fence")
         [] Holds(c) /\ CancelSeen -> Fails(c, p, "cancel")
         [] OTHER -> /\ WorkGo(c, p, "checked")
                     /\ UNCHANGED <<storeVars, call, proc>> /\ SameFacts

\* Between the check and this the provider is asked for its version: a child
\* process, and time.
CreateAttempt(c, p) ==
    /\ On(c, p, "checked")
    /\ \/ /\ Store!CreateAttempt(Tok(c), p)
          /\ work' = [work EXCEPT ![c][p].pc = "created", ![c][p].i = Len(att[p]) + 1]
          /\ UNCHANGED <<call, proc>> /\ SameFacts
       \/ ~Holds(c) /\ Fails(c, p, "fence")

LegalAttempt(c, p, target) ==
    Store!Legal(Store!AttemptTransitions, att[p][work[c][p].i].status, target)
LegalPart(p, target) == Store!Legal(Store!StepTransitions, part[p], target)

StartAttempt(c, p) ==
    /\ On(c, p, "created")
    /\ WorkWrite(c, p, LegalAttempt(c, p, "running"),
         Store!TransitionAttempt(Tok(c), p, work[c][p].i, "running"), "started")

\* Then the row of the participant, the heartbeat, and the provider process.
StartProvider(c, p) ==
    /\ On(c, p, "started")
    /\ \/ /\ LegalPart(p, "running")
          /\ Store!TransitionParticipant(Tok(c), p, "running")
          /\ work' = [work EXCEPT ![c][p].pc = "provider", ![c][p].hb = "on"]
          /\ proc' = proc \cup {<<c, p>>}
          /\ UNCHANGED call /\ SameFacts
       \/ ~Holds(c) /\ Fails(c, p, "fence")
       \/ Holds(c) /\ ~LegalPart(p, "running") /\ Fails(c, p, "error")

\* A provider that was killed gives no report; one that raises is a failure.
\* Leaving the "with" block joins the heartbeat and keeps what it noticed.
ProviderReturns(c, p) ==
    /\ On(c, p, "provider")
    /\ \E a \in {Broken} \cup (IF <<c, p>> \in proc THEN Answers ELSE {}) :
         work' = [work EXCEPT ![c][p].pc = "returned", ![c][p].answer = a,
                    ![c][p].hb = IF @ = "on" THEN "off" ELSE @]
    /\ proc' = proc \ {<<c, p>>}
    /\ UNCHANGED <<storeVars, call>> /\ SameFacts

Outcome(c, p) == IF work[c][p].answer.ok THEN "succeeded" ELSE "failed"

\* raise_if_unhealthy: what the heartbeat noticed, or the store says now; then
\* the attempt takes its result.
FinishAttempt(c, p) ==
    /\ On(c, p, "returned")
    /\ CASE work[c][p].hb = "cancelled" \/ CancelSeen -> Fails(c, p, "cancel")
         [] work[c][p].hb = "lost" /\ ~CancelSeen -> Fails(c, p, "fence")
         [] OTHER -> WorkWrite(c, p, LegalAttempt(c, p, Outcome(c, p)),
              Store!TransitionAttempt(Tok(c), p, work[c][p].i, Outcome(c, p)), "attempted")

\* The row of the participant is a transaction of its own, and takes the result.
FinishParticipant(c, p) ==
    /\ On(c, p, "attempted")
    /\ \/ /\ LegalPart(p, Outcome(c, p))
          /\ Store!TransitionParticipant(Tok(c), p, Outcome(c, p))
          /\ res' = [res EXCEPT ![p] = work[c][p].answer]
          /\ work' = [work EXCEPT ![c][p] =
                        [NewWork EXCEPT !.pc = "done", !.answer = work[c][p].answer]]
          /\ UNCHANGED <<call, proc, plan, out, deliv, reader, troubles>>
       \/ ~Holds(c) /\ Fails(c, p, "fence")
       \/ Holds(c) /\ ~LegalPart(p, Outcome(c, p)) /\ Fails(c, p, "error")

\* The heartbeat of a participant: it ends for good once it saw a cancellation
\* or lost the lease, and kills every provider of the run in this process.
Beating(c, p) == work[c][p].hb = "on"

Beat(c, p) ==
    /\ Beating(c, p) /\ ~CancelSeen
    /\ Store!Heartbeat(Tok(c))
    /\ UNCHANGED <<call, work, proc>> /\ SameFacts

Notice(c, p, what) ==
    /\ work' = [work EXCEPT ![c][p].hb = what]
    /\ proc' = {}
    /\ UNCHANGED <<storeVars, call>> /\ SameFacts

BeatCancel(c, p) == Beating(c, p) /\ CancelSeen /\ Notice(c, p, "cancelled")
BeatLost(c, p) ==
    /\ Beating(c, p) /\ ~CancelSeen
    /\ \/ lease.owner # c \/ lease.epoch # call[c].epoch
       \/ Terminal
    /\ Notice(c, p, "lost")

Work(c, p) ==
    \/ Check(c, p) \/ CreateAttempt(c, p) \/ StartAttempt(c, p)
    \/ StartProvider(c, p) \/ ProviderReturns(c, p)
    \/ FinishAttempt(c, p) \/ FinishParticipant(c, p)
    \/ BeatCancel(c, p) \/ BeatLost(c, p)

-----------------------------------------------------------------------------
(* Dispatching: in parallel in a pool, or one participant after the other. *)

Pending(c) == {p \in Parts : work[c][p].pc # "idle"}

Collected(c, p) ==
    IF work[c][p].answer.ok THEN [call[c] EXCEPT !.held = @ \cup {p}]
    ELSE [call[c] EXCEPT !.lost = @ \cup {p}]

\* future.result() gives the outcome, or raises what the thread raised.
Collect(c) ==
    \E p \in Pending(c) :
      \/ /\ On(c, p, "done")
         /\ call' = [call EXCEPT ![c] = Collected(c, p)]
         /\ work' = [work EXCEPT ![c][p] = NewWork]
         /\ UNCHANGED <<storeVars, proc>> /\ SameFacts
      \/ /\ On(c, p, "raised")
         /\ call' = [call EXCEPT ![c].pc = "abort", ![c].why = work[c][p].why]
         /\ work' = [work EXCEPT ![c][p] = NewWork]
         /\ UNCHANGED <<storeVars, proc>> /\ SameFacts

\* Futures are waited on in slices, each after a look for a cancellation.
Wait(c) ==
    /\ At(c, "waiting")
    /\ \/ /\ Pending(c) # {} /\ CancelSeen
          /\ call' = [call EXCEPT ![c].pc = "abort", ![c].why = "cancel"]
          /\ Quiet
       \/ Collect(c)
       \/ Pending(c) = {} /\ Go(c, "reduce") /\ Quiet

\* Any exception kills the providers of the run, then cancels what is queued;
\* threads that already run are not waited for.
Abort(c) ==
    /\ At(c, "abort")
    /\ Go(c, "drop")
    /\ proc' = {}
    /\ UNCHANGED <<storeVars, work>> /\ SameFacts

Drop(c) ==
    /\ At(c, "drop")
    /\ Go(c, Handler[call[c].why])
    /\ work' = [work EXCEPT ![c] = [p \in Parts |->
                  IF @[p].pc = "queued" THEN NewWork ELSE @[p]]]
    /\ UNCHANGED <<storeVars, proc>> /\ SameFacts

\* One participant after the other, each after a look at the budget.
Serial(c) ==
    /\ At(c, "serial")
    /\ LET p == Head(call[c].todo) IN
       IF call[c].todo = <<>> \/ Used >= MaxTotal
       THEN /\ call' = [call EXCEPT ![c].pc = "reduce",
                          ![c].spent = call[c].todo # <<>>]
            /\ SameWork
       ELSE /\ call' = [call EXCEPT ![c].pc = "serving", ![c].sub = p,
                          ![c].todo = Tail(@)]
            /\ work' = [work EXCEPT ![c][p] = [NewWork EXCEPT !.pc = "queued"]]
            /\ UNCHANGED proc
    /\ SameStore /\ SameFacts

Serve(c) ==
    /\ At(c, "serving")
    /\ LET p == call[c].sub IN
       \/ /\ On(c, p, "done")
          /\ call' = [call EXCEPT ![c] = [Collected(c, p) EXCEPT
                !.pc = IF plan.strategy = "first-success" /\ work[c][p].answer.ok
                       THEN "reduce" ELSE "serial"]]
          /\ work' = [work EXCEPT ![c][p] = NewWork]
       \/ /\ On(c, p, "raised")
          /\ Go(c, Handler[work[c][p].why])
          /\ work' = [work EXCEPT ![c][p] = NewWork]
    /\ UNCHANGED <<storeVars, proc>> /\ SameFacts

-----------------------------------------------------------------------------
(* Settling the phase, its deliverable, and the run. *)

\* A slip: a phase is reduced whatever it collected.
VerdictOfAny(c) ==
    IF call[c].held = {} THEN Blocked(call[c].lost) ELSE Reduce(call[c].held, res)

Verdict(c) ==
    IF \/ call[c].spent /\ call[c].held = {}
       \/ Cardinality(call[c].held) < plan.minS
    THEN Blocked(call[c].held \cup call[c].lost)
    ELSE Reduce(call[c].held, res)

Decide(c) ==
    /\ At(c, "reduce")
    /\ call' = [call EXCEPT ![c].out = Verdict(c),
                  ![c].pc = IF Verdict(c).ok THEN "succeed" ELSE "fail"]
    /\ Quiet

EndStep(c, target) ==
    \/ /\ LegalStep(target)
       /\ Store!TransitionStep(Tok(c), S, target)
       /\ out' = call[c].out
       /\ Go(c, "deliver")
       /\ SameWork /\ UNCHANGED <<plan, res, deliv, reader, troubles>>
    \/ ~Holds(c) /\ Raise(c, "fence")
    \/ Holds(c) /\ ~LegalStep(target) /\ Raise(c, "error")

\* A slip: the step ends as the deliverable does, in the other order.
DeliverFirst(c) ==
    /\ (At(c, "succeed") \/ At(c, "fail")) /\ Holds(c)
    /\ deliv' = call[c].out
    /\ Go(c, "deliver")
    /\ SameStore /\ SameWork /\ UNCHANGED <<plan, res, out, reader, troubles>>

\* The step is settled with its output first, then the deliverable is written.
Conclude(c) ==
    \/ At(c, "succeed") /\ EndStep(c, "succeeded")
    \/ At(c, "fail") /\ EndStep(c, "failed")

Deliver(c) ==
    /\ At(c, "deliver")
    /\ \/ /\ Holds(c)
          /\ deliv' = call[c].out
          /\ Go(c, "finish")
          /\ SameStore /\ SameWork /\ UNCHANGED <<plan, res, out, reader, troubles>>
       \/ ~Holds(c) /\ Raise(c, "fence")

\* ensure_work_item_deliverables: a client that lists deliverables looks for
\* settled steps without a row, and writes what it read of each, unfenced.
Missing == step[S] \in {"succeeded", "failed", "cancelled"} /\ deliv = NoOutput

Legacy(o) == IF o = NoOutput THEN [o EXCEPT !.status = "unavailable"] ELSE o

BackfillScan ==
    /\ reader = NotRead /\ Missing
    /\ reader' = Legacy(out)
    /\ SameStore /\ SameWork /\ UNCHANGED <<call, plan, res, out, deliv, troubles>>

BackfillWrite ==
    /\ reader \notin {NotRead, HasRead}
    /\ deliv' = reader
    /\ reader' = HasRead
    /\ SameStore /\ SameWork /\ UNCHANGED <<call, plan, res, out, troubles>>

\* The phase is the run's last: it ends the run, or parks it when a protected
\* copy retains the work of a phase that failed.
Ending(c) ==
    IF call[c].out.ok
    THEN IF call[c].out.status = "needs_changes" THEN "needs_changes" ELSE "approved"
    ELSE IF Retains THEN "awaiting_reconciliation" ELSE "blocked"

Finish(c) ==
    /\ At(c, "finish")
    /\ Write(c, LegalRun(Ending(c)),
         Store!TransitionRun(Tok(c), Ending(c),
           IF Ending(c) = "awaiting_reconciliation" THEN "parked" ELSE "none"),
         "leave")

\* _cancelled_run_result: kill, finalize under the fence, release.
Terminate(c) ==
    /\ At(c, "terminate")
    /\ Go(c, "finalize")
    /\ proc' = {}
    /\ UNCHANGED <<storeVars, work>> /\ SameFacts

Finalize(c) ==
    /\ At(c, "finalize")
    /\ \/ Store!FinalizeCancellation(Tok(c))
       \/ /\ SameStore
          /\ \/ ~Holds(c)
             \/ status = "cancelled" \/ ~LegalRun("cancelled")
    /\ Go(c, "leave")
    /\ SameWork /\ SameFacts

\* _engine_failure_result: the run fails, or is parked, unless that fails too.
EngineFails(c) ==
    /\ At(c, "failing")
    /\ LET target == IF Retains THEN "awaiting_reconciliation" ELSE "failed" IN
       \/ /\ ~Terminal /\ LegalRun(target)
          /\ Store!TransitionRun(Tok(c), target, IF Retains THEN "parked" ELSE "none")
       \/ (Terminal \/ ~Holds(c) \/ ~LegalRun(target)) /\ SameStore
    /\ Go(c, "leave")
    /\ SameWork /\ SameFacts

\* finally: release_lease, which matches nothing once the lease moved on.
Leave(c) ==
    /\ At(c, "leave")
    /\ \/ Store!ReleaseLease(Tok(c))
       \/ ~(lease.owner = c /\ lease.epoch = call[c].epoch) /\ SameStore
    /\ call' = [call EXCEPT ![c] = [NewCall EXCEPT !.pc = "done"]]
    /\ SameWork /\ SameFacts

-----------------------------------------------------------------------------
(* Recovery, the client, and the process. *)

Stale == /\ status \in {"running", "recovering", "finalizing", "cancelling"}
         /\ lease.owner # NoOwner /\ ~lease.valid

Interrupted(a) == IF a.status \in Store!LiveAttempt
                  THEN [a EXCEPT !.status = "interrupted"] ELSE a

\* recover_stale_runs, whose transactions are taken apart in DurableEngine: a
\* cancelled run is finalized, any other is interrupted with its step and the
\* attempts of it that were live.  Participants are left as they are.
Recover ==
    /\ Stale /\ lease.epoch < MaxEpoch
    /\ lease' = [owner |-> NoOwner, epoch |-> lease.epoch + 1, valid |-> FALSE]
    /\ IF cancel
       THEN /\ status' = "cancelled"
            /\ step' = [s \in {S} |-> Store!CancelRow(step[s])]
            /\ part' = [p \in Parts |-> Store!CancelRow(part[p])]
            /\ att' = [p \in Parts |->
                         [i \in DOMAIN att[p] |-> Store!CancelAttempt(att[p][i])]]
       ELSE /\ status' = "interrupted"
            /\ IF step[S] \in {"dispatching", "running", "interrupted"}
               THEN /\ step' = [step EXCEPT ![S] = "interrupted"]
                    /\ att' = [p \in Parts |->
                                 [i \in DOMAIN att[p] |-> Interrupted(att[p][i])]]
               ELSE UNCHANGED <<step, att>>
            /\ UNCHANGED part
    /\ UNCHANGED <<cancel, recon, issued, call, work, proc>> /\ SameFacts

Trouble == troubles < MaxTroubles /\ troubles' = troubles + 1
SameRest == UNCHANGED <<plan, res, out, deliv, reader>>

Cancel ==
    /\ ~cancel /\ Store!RequestCancellation
    /\ Trouble
    /\ SameWork /\ UNCHANGED call /\ SameRest

\* A lease lost while its call lives is a trouble; that of a call that died is
\* only a matter of time.
LeaseExpires ==
    /\ Store!LeaseExpires /\ lease.epoch < MaxEpoch
    /\ IF call[lease.owner].pc = "done" THEN UNCHANGED troubles ELSE Trouble
    /\ SameWork /\ UNCHANGED call /\ SameRest

\* The process dies with its calls, its threads and its providers.  A crash
\* while a cancellation is under way is explored within the same trouble.
Crash ==
    /\ \E c \in Calls : call[c].pc \notin {"new", "done"}
    /\ IF cancel THEN UNCHANGED troubles ELSE Trouble
    /\ call' = [c \in Calls |-> IF call[c].pc = "new" THEN call[c]
                                ELSE [NewCall EXCEPT !.pc = "done"]]
    /\ work' = [c \in Calls |-> NoWork]
    /\ proc' = {}
    /\ SameStore /\ SameRest

-----------------------------------------------------------------------------
Entering(c)   == Submit(c) \/ ReadRun(c) \/ Enter(c) \/ Settle(c) \/ OpenStep(c)
                 \/ RunStep(c) \/ Prepare(c) \/ Budget(c)
Dispatch(c)   == Wait(c) \/ Abort(c) \/ Drop(c) \/ Serial(c) \/ Serve(c)
Settling(c)   == Decide(c) \/ Conclude(c) \/ Deliver(c) \/ Finish(c)
Leaving(c)    == Terminate(c) \/ Finalize(c) \/ EngineFails(c) \/ Leave(c)
Step(c)       == Entering(c) \/ Dispatch(c) \/ Settling(c) \/ Leaving(c)

Next ==
    \/ \E c \in Calls : Step(c)
    \/ \E c \in Calls, p \in Parts : Work(c, p) \/ Beat(c, p)
    \/ Cancel \/ LeaseExpires \/ Crash \/ Recover
    \/ BackfillScan \/ BackfillWrite

Spec == Init /\ [][Next]_vars

-----------------------------------------------------------------------------
(* Properties. *)

\* Every variable holds one of the values the program can give it.
TypeOK ==
    /\ Store!TypeOK
    /\ plan \in Frozen
    /\ proc \subseteq Calls \X Parts
    /\ \A c \in Calls, p \in Parts :
         work[c][p].pc \in Active \cup {"idle", "queued", "done", "raised"}
    /\ res \in [Parts -> Answers \cup {NoAnswer, Broken}]
    /\ troubles \in 0..MaxTroubles

\* The attempts of the run never exceed max_total_participant_attempts, whatever
\* calls took the run over from each other and however their threads overlap:
\* _execute_phase counts before it dispatches, several participants at once.
BudgetIsKept == Used <= MaxTotal

Succeeded == {p \in Parts : part[p] = "succeeded"}

\* A phase that succeeded was decided by participants whose rows say they
\* succeeded, replayed from earlier calls or executed by this one: by all of them
\* unless the first success ends the search; they are enough, an approval has the
\* approvals asked for, and no report with blockers gets past a phase that is not
\* a review (reduce_phase after crash and resume).
Earned(o) ==
    /\ o.from \subseteq Succeeded
    /\ plan.strategy = "all" => o.from = Succeeded
    /\ Cardinality(o.from) >= plan.minS
    /\ plan.phase = "reviewer" /\ o.status = "approved" =>
         Cardinality({p \in o.from : res[p].vote \in {"approved", ""}}) >= plan.minA
    /\ plan.phase # "reviewer" => \A p \in o.from : ~res[p].blockers

VerdictIsEarned == step[S] = "succeeded" => Earned(out)

\* A participant that answered is never dispatched again and its answer never
\* replaced, by later calls, by threads left behind, or by reset and cancellation.
SettledAnswersStay ==
    [][\A p \in Parts : part[p] = "succeeded" =>
         part'[p] = "succeeded" /\ res'[p] = res[p] /\ Len(att'[p]) = Len(att[p])]_vars

\* A deliverable that reports success is the output of a step that succeeded: a
\* call that lost its lease between the two writes publishes neither.
DeliverableIsHonest == deliv.ok => step[S] = "succeeded" /\ deliv = out

\* docs/consistency-operator-control.md:120 "attempts/participants/steps ->
\* cancelled": a cancelled run has no work left open.  The code closes what is
\* there when it finalizes; a thread between its check and create_attempt opens
\* an attempt after that, under the lease not yet released.
CancelledWorkIsClosed ==
    status = "cancelled" =>
      \A p \in Parts : /\ part[p] \notin Store!OpenRow
                       /\ \A i \in DOMAIN att[p] : att[p][i].status \notin Store!OpenAttempt
=============================================================================
