----------------------------- MODULE PhaseProofs -----------------------------
(***************************************************************************)
(* What a phase of several participants guarantees, for any number of      *)
(* calls, participants, answers and attempts: the budget of attempts is    *)
(* kept, an answer that was settled stays, a verdict is earned by the      *)
(* reports it names, and a deliverable that reports success is the output  *)
(* of a step that succeeded.                                               *)
(*                                                                         *)
(* The argument is about the call that owns the lease.  Whatever others    *)
(* left behind is fenced out; what the owner has queued, collected and     *)
(* decided agrees with the rows, because only the owner writes them.       *)
(***************************************************************************)
EXTENDS PhaseExecution, Integers, FiniteSetTheorems, WellFoundedInduction, TLAPS

\* The store again, with what is proved about it.
Rows == INSTANCE RunStoreProofs WITH
    Owners <- Calls, Steps <- {S}, Writers <- {}, StepOf <- [p \in Parts |-> S],
    Recons <- {"none", "parked"}, NoRecon <- "none", MaxAttempts <- MaxTotal + 2

-----------------------------------------------------------------------------
(* Types. *)

Given   == Answers \cup {NoAnswer, Broken}
Reports == [ok : BOOLEAN, status : STRING \cup {"", "failed"}, vote : STRING \cup {""},
            blockers : BOOLEAN, decision : STRING \cup {""}]
Words   == {"planned", "approved", "needs_changes", "blocked", "none", "not read",
            "has read", "unavailable"} \cup {a.status : a \in Given}
Outputs == [ok : BOOLEAN, from : SUBSET Parts, status : Words]
Pcs == {"new", "acquired", "entering", "settle", "create", "opened", "prepare",
        "budget", "serial", "serving", "waiting", "abort", "drop", "reduce",
        "succeed", "fail", "deliver", "finish", "terminate", "finalize",
        "failing", "leave", "done"}
Whys    == {"none", "cancel", "fence", "error"}
WorkPcs == Active \cup {"idle", "queued", "done", "raised"}

CallRecord == [pc : Pcs, epoch : Nat, seen : Store!RunStatus \cup {"none"},
               sub : Nat \ {0}, todo : Seq(Parts), held : SUBSET Parts, lost : SUBSET Parts,
               spent : BOOLEAN, why : Whys, out : Outputs]
WorkRecord == [pc : WorkPcs, i : Nat, answer : Given,
               hb : {"off", "on", "cancelled", "lost"}, why : Whys]

\* What a call, its threads and the recorded facts are; a call that leaves has a
\* reason its handlers know, and one that serves a participant serves one.
CallTyped(c) ==
    /\ call[c] \in CallRecord
    /\ call[c].pc \in {"abort", "drop"} => call[c].why # "none"
    /\ call[c].pc = "entering" => call[c].seen \in DOMAIN Entered
    /\ call[c].pc = "serving" => call[c].sub \in Parts
WorkTyped(c) ==
    /\ work[c] \in [Parts -> WorkRecord]
    /\ \A p \in Parts : work[c][p].pc = "raised" => work[c][p].why # "none"
FactsTyped ==
    /\ res \in [Parts -> Given]
    /\ out \in Outputs /\ deliv \in Outputs
    /\ proc \subseteq Calls \X Parts

Typed ==
    /\ Store!TypeOK
    /\ call \in [Calls -> CallRecord] /\ work \in [Calls -> [Parts -> WorkRecord]]
    /\ \A c \in Calls : CallTyped(c) /\ WorkTyped(c)
    /\ FactsTyped
    /\ plan \in Frozen /\ reader \in Outputs
    /\ troubles \in 0..MaxTroubles

-----------------------------------------------------------------------------
(* The invariant. *)

\* A call that nobody has taken the lease from; it may have expired.
Owns(c) == lease.owner = c /\ lease.epoch = call[c].epoch

\* The row names only owners that acquire_lease answered, and no owner of the
\* lease sits at the epoch of a call that never had it.
OwnerIsIssued ==
    lease.owner # NoOwner =>
      lease.epoch # 0 /\ [owner |-> lease.owner, epoch |-> lease.epoch] \in issued

\* No thread of the call has anything to do.
Idle(c) == \A p \in Parts : work[c][p].pc = "idle"

Arriving == {"new", "acquired", "entering", "settle", "create", "opened"}
Alone   == Arriving \cup {"prepare", "budget", "serial", "reduce", "succeed", "fail",
                        "deliver", "finish"}
InPhase == {"create", "opened", "prepare", "budget", "serial", "serving", "waiting",
            "reduce", "succeed", "fail"}
InHand  == {"prepare", "budget", "serial", "serving", "waiting", "reduce"}

\* A call works alone except while its threads are being served or left behind.
WorksAlone(c) ==
    /\ call[c].pc \in Alone => Idle(c)
    /\ call[c].pc = "serving" =>
         \A p \in Parts : p # call[c].sub => work[c][p].pc = "idle"
    /\ call[c].pc \in Arriving =>
         call[c].todo = <<>> /\ call[c].sub = 1 /\ call[c].held = {}
    /\ call[c].pc \in {"new", "done"} => call[c].epoch = 0

\* The step the owner works at has not succeeded, and stays so while threads
\* of the owner run.
StepIsOpen(c) ==
    call[c].pc \in InPhase \/ ~Idle(c) => step[S] # "succeeded"

\* Participants about to be dispatched, by the call or in its threads.
Threads(c) == {p \in Parts : work[c][p].pc \in Active \cup {"queued"}}
Listed(c)  == IF call[c].pc \in {"prepare", "budget", "serial", "serving"}
              THEN InTodo(c) ELSE {}

\* Nobody is dispatched who has answered; and everyone once.
NoneTwice(c) ==
    /\ \A p \in Threads(c) \cup Listed(c) : part[p] # "succeeded"
    /\ call[c].pc = "prepare" => \A p \in InTodo(c) : p < call[c].sub
    /\ call[c].pc = "serving" => call[c].sub \notin InTodo(c)
    /\ call[c].pc \in {"prepare", "budget", "serial", "serving"} =>
         \A i, j \in DOMAIN call[c].todo : call[c].todo[i] = call[c].todo[j] => i = j

\* What the owner holds has succeeded, and when every participant is asked it
\* misses none.
Answered(c) == {p \in Parts : work[c][p].pc = "done" /\ work[c][p].answer.ok}
HoldsAll(c) ==
    /\ Answered(c) \subseteq Succeeded
    /\ call[c].pc \in InHand => call[c].held \subseteq Succeeded
    /\ call[c].pc \in InHand /\ plan.strategy = "all" =>
         \A p \in Succeeded : \/ p \in call[c].held \cup Answered(c)
                              \/ call[c].pc = "prepare" /\ p >= call[c].sub

\* What the owner is about to write was decided from the rows as they are.
Decided(c) ==
    /\ call[c].pc = "succeed" => call[c].out.ok /\ Earned(call[c].out)
    /\ call[c].pc = "fail" => ~call[c].out.ok
    /\ call[c].pc = "deliver" => out = call[c].out

OwnerKnows == \A c \in Calls : Owns(c) =>
                StepIsOpen(c) /\ NoneTwice(c) /\ HoldsAll(c) /\ Decided(c)

\* Only members of the phase have rows.
MembersOnly == \A p \in Parts : part[p] # "absent" => p \in Members

\* Whatever reports success is the output of a step that succeeded.
OutputIsHonest ==
    /\ out.ok => step[S] = "succeeded"
    /\ \A o \in {deliv, reader} : o.ok => step[S] = "succeeded" /\ o = out

IInv ==
    /\ Typed /\ OwnerIsIssued /\ MembersOnly
    /\ \A c \in Calls : WorksAlone(c)
    /\ OwnerKnows
    /\ VerdictIsEarned /\ OutputIsHonest

\* What is queued is counted before it is opened.
ToOpen(c) == {p \in Parts : work[c][p].pc \in {"queued", "checked"}}
Counted ==
    /\ IsFiniteSet(AttemptRows)
    /\ BudgetIsKept
    /\ \A c \in Calls : Owns(c) => Used + Cardinality(ToOpen(c)) <= MaxTotal

-----------------------------------------------------------------------------
(* Operators of the model. *)

\* What the instance of the store assumes of its constants.
LEMMA Assumptions ==
    /\ NoOwner \notin Calls
    /\ {} \subseteq {S} /\ [p \in Parts |-> S] \in [Parts -> {S}]
    /\ "none" \in {"none", "parked"}
    /\ MaxEpoch \in Nat /\ MaxTotal + 2 \in Nat
BY CallsAssumption, NumbersAssumption

\* The roles that a plan is made of, with the lists of profiles and the policies
\* that it can end up with.
Phases == {"architect", "implementer", "reviewer"}
PlanRecord(lists, policies) ==
    [phase : Phases, strategy : STRING \cup {"first-success"}, profiles : lists,
     minS : Nat \ {0}, minA : Nat \ {0}, conc : Nat, policy : policies, writes : BOOLEAN]

\* Choosing one profile leaves a plan with one.
LEMMA SingleFacts ==
    ASSUME NEW lists, NEW policies, NEW p \in PlanRecord(lists, policies),
           NEW r, NEW l \in lists, l = <<r>>
    PROVE  Single(p, r) \in PlanRecord(lists, policies)
<1>1. Single(p, r) = [p EXCEPT !.profiles = l, !.strategy = "first-success",
                               !.minS = 1, !.minA = 1]
  BY DEF Single
<1>2. 1 \in Nat \ {0} /\ "first-success" \in STRING \cup {"first-success"}
  OBVIOUS
<1>3. QED
  BY <1>1, <1>2 DEF PlanRecord

\* The minima of a role are clamped to what it has; a policy left empty is the
\* phase's own.
LEMMA RolePlanFacts ==
    ASSUME NEW role \in Roles, Plannable(role)
    PROVE  RolePlan(role) \in
             PlanRecord(Seq(STRING) \ {<<>>}, STRING \cup {DefaultPolicy[role.phase]})
<1> DEFINE s == Clamped(role.minS, role.profiles)
           a == Clamped(role.minA, role.profiles)
           n == Most(1, role.conc)
           o == IF role.policy = "" THEN DefaultPolicy[role.phase] ELSE role.policy
           d == DefaultPolicy[role.phase]
<1>1. role \in [phase : {"architect", "implementer", "reviewer"}, strategy : STRING,
                profiles : Seq(STRING), minS : Nat, minA : Nat, conc : Nat,
                policy : STRING, writes : BOOLEAN]
  BY RolesAssumption
<1>2. /\ s \in Nat \ {0} /\ a \in Nat \ {0} /\ n \in Nat
      /\ o \in STRING \cup {d}
  <2>1. \A i, j \in Nat : Most(1, Least(i, j)) \in Nat \ {0} /\ Most(1, i) \in Nat
    BY DEF Most, Least
  <2>2. Len(role.profiles) \in Nat /\ role.minS \in Nat /\ role.minA \in Nat
        /\ role.conc \in Nat /\ role.policy \in STRING
    BY <1>1
  <2>3. QED
    BY <2>1, <2>2 DEF Clamped
<1>3. role.profiles \in Seq(STRING) \ {<<>>}
  BY <1>1 DEF Plannable
<1>4. RolePlan(role) = [role EXCEPT !.minS = s, !.minA = a, !.conc = n, !.policy = o]
  BY DEF RolePlan
<1> HIDE DEF s, a, n, o, d
<1>5. QED
  BY <1>1, <1>2, <1>3, <1>4 DEF PlanRecord, Phases, d

\* What configuration, preset and team leave of a role, whatever they are.
LEMMA PlanFacts ==
    ASSUME plan \in Frozen
    PROVE  /\ Len(plan.profiles) \in Nat /\ Members \subseteq Parts
           /\ plan.minS \in Nat /\ plan.minS >= 1 /\ plan.minA \in Nat
<1>1. PICK role \in Roles, preset \in Presets, team \in Teams :
        /\ Plannable(role)
        /\ WithinBudget(WithTeam(AtPreset(RolePlan(role), preset), team))
        /\ plan = Bounded(WithTeam(AtPreset(RolePlan(role), preset), team))
  <2>1. PICK p \in {q \in
              {WithTeam(AtPreset(RolePlan(x[1]), x[2]), x[3]) :
                 x \in {y \in Roles \X Presets \X Teams :
                          /\ Plannable(y[1])
                          /\ TeamAgrees(y[3], AtPreset(RolePlan(y[1]), y[2]))}} :
              WithinBudget(q)} : plan = Bounded(p)
    BY DEF Frozen
  <2>2. PICK x \in Roles \X Presets \X Teams :
          /\ Plannable(x[1])
          /\ p = WithTeam(AtPreset(RolePlan(x[1]), x[2]), x[3])
    BY <2>1
  <2>3. QED
    BY <2>1, <2>2
<1> DEFINE R == RolePlan(role)
           P == AtPreset(R, preset)
           T == WithTeam(P, team)
           fit == Usable(team.agents, P.phase)
           Own == Seq(STRING) \ {<<>>}
           Lists == Own \cup {<<team.override>>, <<Strongest(fit, P).ref>>}
           Policies == STRING \cup {DefaultPolicy[role.phase]}
<1>2. R \in PlanRecord(Own, Policies)
  BY <1>1, RolePlanFacts
<1>3. P \in PlanRecord(Lists, Policies)
  <2>1. R \in PlanRecord(Lists, Policies)
    <3> HIDE DEF R, Policies, Own
    <3>1. QED
      BY <1>2 DEF PlanRecord
  <2>2. R.profiles \in Own
    <3> HIDE DEF R, Policies, Own
    <3>1. QED
      BY <1>2 DEF PlanRecord
  <2>3. <<Head(R.profiles)>> \in Lists
    <3> HIDE DEF R
    <3>1. QED
      BY <2>2
  <2>4. Single(R, Head(R.profiles)) \in PlanRecord(Lists, Policies)
    BY <2>1, <2>3, SingleFacts
  <2>5. QED
    BY <2>1, <2>4 DEF AtPreset
<1>4. T \in PlanRecord(Lists, Policies)
  <2>1. <<team.override>> \in Lists /\ <<Strongest(fit, P).ref>> \in Lists
    OBVIOUS
  <2>2. /\ Single(P, team.override) \in PlanRecord(Lists, Policies)
        /\ Single(P, Strongest(fit, P).ref) \in PlanRecord(Lists, Policies)
    BY <1>3, <2>1, SingleFacts
  <2>3. QED
    BY <1>3, <2>2 DEF WithTeam
<1>5. \A l \in Lists : Len(l) \in Nat
  OBVIOUS
<1>6. Bounded(T).profiles = T.profiles /\ Bounded(T).minS = T.minS /\ Bounded(T).minA = T.minA
  BY <1>4 DEF Bounded, PlanRecord
<1>7. /\ T.profiles \in Lists /\ T.minS \in Nat \ {0} /\ T.minA \in Nat
      /\ Len(T.profiles) <= MaxPerPhase
  BY <1>1, <1>4 DEF WithinBudget, PlanRecord
<1>8. QED
  BY <1>1, <1>5, <1>6, <1>7, NumbersAssumption DEF Members, Parts

\* What a provider may report, and what stands for a report that is missing.
LEMMA ReportFacts == Given \subseteq Reports
<1>1. NoAnswer \in Reports
  BY DEF NoAnswer, Reports
<1>2. Broken \in Reports
  BY <1>1 DEF Broken, Reports
<1>3. QED
  BY <1>1, <1>2, AnswersAssumption DEF Given, Reports

\* The first of some participants is one of them.
LEMMA LowestIsOne ==
    ASSUME NEW ps \in SUBSET Parts, ps # {}
    PROVE  Lowest(ps) \in ps
<1> DEFINE R == OpToRel(<, Nat)
<1>1. IsWellFoundedOn(R, Nat)
  BY NatLessThanWellFounded
<1>2. ps \in SUBSET Nat
  BY DEF Parts
<1>3. \E p \in ps : \A q \in ps : ~ (<<q, p>> \in R)
  BY <1>1, <1>2, WFMin
<1>4. \A p, q \in Nat : q < p => <<q, p>> \in R
  BY DEF OpToRel
<1> HIDE DEF R
<1>5. PICK p \in ps : \A q \in ps : ~ (q < p)
  BY <1>2, <1>3, <1>4
<1>6. \A q \in ps : p <= q
  BY <1>2, <1>5
<1>7. QED
  BY <1>6 DEF Lowest

\* The verdict on what a call collected is an output of a phase.
LEMMA VerdictIsOutput ==
    ASSUME Typed, NEW c \in Calls
    PROVE  Verdict(c) \in Outputs
<1> DEFINE held == call[c].held
<1>1. held \subseteq Parts /\ call[c].lost \subseteq Parts /\ call[c].spent \in BOOLEAN
  BY DEF Typed, CallRecord
<1>2. \A ps \in SUBSET Parts : Blocked(ps) \in Outputs
  BY DEF Blocked, Outputs, Words
<1>3. held = {} => Cardinality(held) < plan.minS
  BY PlanFacts, FS_EmptySet DEF Typed
<1>4. held # {} => res[Lowest(held)].status \in Words
  BY <1>1, LowestIsOne DEF Typed, FactsTyped, Words
<1>5. held # {} => Reduce(held, res) \in Outputs
  BY <1>1, <1>4 DEF Reduce, Outputs, Words, ArchitectureHolds, AnyBlocks
<1>6. QED
  BY <1>1, <1>2, <1>3, <1>5 DEF Verdict
-----------------------------------------------------------------------------
(* Every step of a call or of its threads is one operation of the store. *)

Acts(c) == Step(c) \/ \E p \in Parts : Work(c, p) \/ Beat(c, p)

\* A write under the fence: it leaves the lease and its tokens alone.
FencedWrite(c) ==
    Store!Next /\ Holds(c) /\ UNCHANGED <<lease, issued, cancel>>

\* What is left of the lease after the call took it, kept it or gave it up.
LeaseMove(c) ==
    /\ Store!Next
    /\ lease'.owner \in {c, NoOwner}
    /\ UNCHANGED <<status, cancel, recon, step, part, att>>

\* What a step of a call does to the store, and to the other calls.
StoreStep(c) ==
    /\ UNCHANGED storeVars \/ FencedWrite(c) \/ LeaseMove(c)
    /\ UNCHANGED <<res, out, deliv>> \/ Holds(c)
    /\ UNCHANGED <<plan, reader, troubles>>
    /\ \A d \in Calls \ {c} : call'[d] = call[d] /\ work'[d] = work[d]

\* Whoever passes the fence is in the row, under a token that was handed out.
LEMMA HolderFacts ==
    ASSUME OwnerIsIssued, NEW c \in Calls
    PROVE  /\ Holds(c) => Owns(c)
           /\ Owns(c) => Tok(c) \in issued
BY CallsAssumption DEF OwnerIsIssued, Holds, Owns, Tok, Store!Fence

\* The kinds of store operations as steps of the store.
LEMMA StepWrite ==
    ASSUME OwnerIsIssued, NEW c \in Calls, NEW target \in Store!RowStatus,
           \/ Store!CreateStep(Tok(c), S) \/ Store!TransitionStep(Tok(c), S, target)
           \/ Store!ResetStep(Tok(c), S, FALSE)
    PROVE  FencedWrite(c)
<1>1. Holds(c) /\ UNCHANGED <<lease, issued, cancel>>
  BY DEF Holds, Store!CreateStep, Store!TransitionStep, Store!ResetStep
<1>2. Store!StepOp
  BY <1>1, HolderFacts DEF Store!StepOp
<1>3. QED
  BY <1>1, <1>2 DEF FencedWrite, Store!Next

\* Operations on participants and attempts.
LEMMA AttemptWrite ==
    ASSUME OwnerIsIssued, NEW c \in Calls, NEW p \in Parts, NEW i,
           NEW target \in Store!RowStatus, NEW end \in Store!AttemptStatus,
           \/ Store!CreateParticipant(Tok(c), p) \/ Store!CreateAttempt(Tok(c), p)
           \/ Store!TransitionParticipant(Tok(c), p, target)
           \/ Store!TransitionAttempt(Tok(c), p, i, end)
    PROVE  FencedWrite(c)
<1>1. Holds(c) /\ UNCHANGED <<lease, issued, cancel>>
  BY DEF Holds, Store!CreateParticipant, Store!CreateAttempt,
         Store!TransitionParticipant, Store!TransitionAttempt
<1>2. Tok(c) \in issued
  BY <1>1, HolderFacts
<1>3. CASE Store!TransitionAttempt(Tok(c), p, i, end)
  <2>1. i \in 1..Len(att[p])
    BY <1>3 DEF Store!TransitionAttempt
  <2>2. Store!AttemptOp
    BY <1>2, <1>3, <2>1 DEF Store!AttemptOp
  <2>3. QED
    BY <1>1, <2>2 DEF FencedWrite, Store!Next
<1>4. CASE ~Store!TransitionAttempt(Tok(c), p, i, end)
  <2>1. Store!AttemptOp
    BY <1>2, <1>4 DEF Store!AttemptOp
  <2>2. QED
    BY <1>1, <2>1 DEF FencedWrite, Store!Next
<1>5. QED
  BY <1>3, <1>4

\* Operations on the run row that need the lease.
LEMMA RunWrite ==
    ASSUME OwnerIsIssued, NEW c \in Calls, NEW target \in Store!RunStatus,
           NEW value \in {"none", "parked"},
           \/ Store!TransitionRun(Tok(c), target, value)
           \/ Store!FinalizeCancellation(Tok(c))
    PROVE  FencedWrite(c)
<1>1. Holds(c) /\ UNCHANGED <<lease, issued, cancel>>
  BY DEF Holds, Store!TransitionRun, Store!FinalizeCancellation
<1>2. Store!RunOp
  BY <1>1, HolderFacts DEF Store!RunOp
<1>3. QED
  BY <1>1, <1>2 DEF FencedWrite, Store!Next

\* Taking, reviving and giving up the lease.
LEMMA LeaseWrite ==
    ASSUME Typed, OwnerIsIssued, NEW c \in Calls,
           \/ Store!AcquireLease(c) \/ Store!ReleaseLease(Tok(c)) \/ Store!Heartbeat(Tok(c))
    PROVE  LeaseMove(c)
<1>1. CASE Store!AcquireLease(c)
  BY <1>1 DEF LeaseMove, Store!Next, Store!LeaseOp, Store!AcquireLease
<1>2. CASE Store!ReleaseLease(Tok(c)) \/ Store!Heartbeat(Tok(c))
  <2>1. Tok(c) \in issued
    BY <1>2, HolderFacts DEF Store!ReleaseLease, Store!Heartbeat, Owns, Tok
  <2>2. Store!LeaseOp
    BY <1>2, <2>1 DEF Store!LeaseOp
  <2>3. lease \in [owner : Calls \cup {NoOwner}, epoch : Nat, valid : BOOLEAN]
    BY DEF Typed, Store!TypeOK
  <2>4. QED
    BY <1>2, <2>2, <2>3
    DEF LeaseMove, Store!Next, Store!ReleaseLease, Store!Heartbeat, Tok
<1>3. QED
  BY <1>1, <1>2

\* The statuses the engine writes are statuses of the store.
LEMMA StatusFacts ==
    /\ {"pending", "dispatching", "running", "succeeded", "failed"} \subseteq Store!RowStatus
    /\ {"running", "succeeded", "failed"} \subseteq Store!AttemptStatus
    /\ {"cancelled", "failed", "approved", "needs_changes", "blocked",
        "awaiting_reconciliation"} \subseteq Store!RunStatus
    /\ \A s \in DOMAIN Entered : Entered[s] \in {"running", "recovering"}
    /\ {"running", "recovering"} \subseteq Store!RunStatus
    /\ {"recovering"} \subseteq DOMAIN Entered
BY DEF Store!RowStatus, Store!StepTransitions, Store!AttemptStatus,
       Store!AttemptTransitions, Store!RunStatus, Store!RunTransitions, Entered

\* The statuses a call ends the run with are among them.
LEMMA EndingFacts ==
    ASSUME NEW c \in Calls
    PROVE  Ending(c) \in Store!RunStatus
BY StatusFacts DEF Ending

\* Every action of a call and of its threads is one operation of the store under
\* the call's own token, or leaves the rows alone.
LEMMA ActStore == ASSUME Typed, OwnerIsIssued, NEW c \in Calls, Acts(c) PROVE StoreStep(c)
<1> DEFINE Goal == StoreStep(c)
<1> USE DEF StoreStep, At, Go, Quiet, SameStore, SameWork, SameFacts, storeVars
<1>a. /\ call \in [Calls -> CallRecord] /\ work \in [Calls -> [Parts -> WorkRecord]]
      /\ call[c].pc = "entering" => call[c].seen \in DOMAIN Entered
      /\ plan \in Frozen
  BY DEF Typed, CallTyped
<1>b. Members \subseteq Parts
  BY <1>a, PlanFacts
<1>c. Holds(c) => Owns(c)
  BY HolderFacts
<1>d. /\ {"pending", "dispatching", "running", "succeeded", "failed"} \subseteq Store!RowStatus
      /\ {"running", "succeeded", "failed"} \subseteq Store!AttemptStatus
      /\ {"cancelled", "failed", "awaiting_reconciliation"} \subseteq Store!RunStatus
  BY StatusFacts
<1>1. CASE Submit(c)
  BY <1>1, <1>a, <1>d, LeaseWrite DEF Submit, Acquire
<1>2. CASE ReadRun(c)
  BY <1>2, <1>a, <1>d DEF ReadRun
<1>3. CASE Enter(c)
  BY <1>3, <1>a, <1>d, RunWrite, StatusFacts DEF Enter, Raise
<1>4. CASE Settle(c)
  BY <1>4, <1>a, <1>d, StepWrite DEF Settle, Write, Raise
<1>5. CASE OpenStep(c)
  BY <1>5, <1>a, <1>d, StepWrite DEF OpenStep, Write, Raise
<1>6. CASE RunStep(c)
  BY <1>6, <1>a, <1>d, StepWrite DEF RunStep, Write, Raise, LegalStep
<1>7. CASE Prepare(c)
  BY <1>7, <1>a, <1>d, AttemptWrite, <1>b DEF Prepare, PrepareRow, Raise
<1>8. CASE Budget(c)
  BY <1>8, <1>a, <1>d DEF Budget
<1>9. CASE Wait(c)
  BY <1>9, <1>a, <1>d DEF Wait, Collect, Collected, On
<1>10. CASE Abort(c)
  BY <1>10, <1>a, <1>d DEF Abort
<1>11. CASE Drop(c)
  BY <1>11, <1>a, <1>d DEF Drop
<1>12. CASE Serial(c)
  BY <1>12, <1>a, <1>d DEF Serial
<1>13. CASE Serve(c)
  BY <1>13, <1>a, <1>d DEF Serve, Collected, On
<1>14. CASE Decide(c)
  BY <1>14, <1>a, <1>d DEF Decide
<1>15. CASE Conclude(c)
  BY <1>15, <1>a, <1>d, StepWrite DEF Conclude, EndStep, Raise, LegalStep, FencedWrite
<1>16. CASE Deliver(c)
  BY <1>16, <1>a, <1>d DEF Deliver, Raise
<1>17. CASE Finish(c)
  BY <1>17, <1>a, <1>d, RunWrite, EndingFacts DEF Finish, Write, Raise, LegalRun
<1>18. CASE Terminate(c)
  BY <1>18, <1>a, <1>d DEF Terminate
<1>19. CASE Finalize(c)
  BY <1>19, <1>a, <1>d, RunWrite DEF Finalize, LegalRun
<1>20. CASE EngineFails(c)
  BY <1>20, <1>a, <1>d, RunWrite DEF EngineFails, LegalRun
<1>21. CASE Leave(c)
  BY <1>21, <1>a, <1>d, LeaseWrite DEF Leave
<1>22. ASSUME NEW p \in Parts, Check(c, p) PROVE Goal
  BY <1>22, <1>a, <1>d DEF Check, On, Fails, WorkGo
<1>23. ASSUME NEW p \in Parts, CreateAttempt(c, p) PROVE Goal
  BY <1>23, <1>a, <1>d, AttemptWrite DEF CreateAttempt, On, Fails
<1>24. ASSUME NEW p \in Parts, StartAttempt(c, p) PROVE Goal
  BY <1>24, <1>a, <1>d, AttemptWrite DEF StartAttempt, On, Fails, WorkWrite, WorkGo
<1>25. ASSUME NEW p \in Parts, StartProvider(c, p) PROVE Goal
  BY <1>25, <1>a, <1>d, AttemptWrite DEF StartProvider, On, Fails
<1>26. ASSUME NEW p \in Parts, ProviderReturns(c, p) PROVE Goal
  BY <1>26, <1>a, <1>d DEF ProviderReturns, On
<1>27. ASSUME NEW p \in Parts, FinishAttempt(c, p) PROVE Goal
  BY <1>27, <1>a, <1>d, AttemptWrite DEF FinishAttempt, On, Fails, WorkWrite, WorkGo, Outcome
<1>28. ASSUME NEW p \in Parts, FinishParticipant(c, p) PROVE Goal
  BY <1>28, <1>a, <1>d, AttemptWrite DEF FinishParticipant, On, Fails, Outcome, FencedWrite
<1>29. ASSUME NEW p \in Parts, BeatCancel(c, p) PROVE Goal
  BY <1>29, <1>a, <1>d DEF BeatCancel, Notice
<1>30. ASSUME NEW p \in Parts, BeatLost(c, p) PROVE Goal
  BY <1>30, <1>a, <1>d DEF BeatLost, Notice
<1>31. ASSUME NEW p \in Parts, Beat(c, p) PROVE Goal
  BY <1>31, <1>a, <1>d, LeaseWrite DEF Beat, Beating
<1>32. QED
  BY <1>1, <1>2, <1>3, <1>4, <1>5, <1>6, <1>7, <1>8, <1>9, <1>10, <1>11, <1>12, <1>13,
     <1>14, <1>15, <1>16, <1>17, <1>18, <1>19, <1>20, <1>21, <1>22, <1>23, <1>24, <1>25,
     <1>26, <1>27, <1>28, <1>29, <1>30, <1>31
  DEF Acts, Step, Entering, Dispatch, Settling, Leaving, Work
-----------------------------------------------------------------------------
(* Types are kept. *)

\* What a call starts from, and what a thread is left as.
LEMMA Records ==
    /\ NewCall \in CallRecord /\ NewWork \in WorkRecord /\ NoWork \in [Parts -> WorkRecord]
    /\ NoOutput \in Outputs /\ NotRead \in Outputs /\ HasRead \in Outputs
    /\ \A ps \in SUBSET Parts : Blocked(ps) \in Outputs
    /\ \A o \in Outputs : Legacy(o) \in Outputs
    /\ Parts \subseteq Nat \ {0}
<1>1. NoOutput \in Outputs
  BY DEF NoOutput, Outputs, Words
<1>2. NotRead \in Outputs /\ HasRead \in Outputs
  BY <1>1 DEF NotRead, HasRead, Outputs, Words
<1>3. NewCall \in CallRecord
  BY <1>1 DEF NewCall, CallRecord, Pcs, Whys
<1>4. NewWork \in WorkRecord /\ NoWork \in [Parts -> WorkRecord]
  BY DEF NewWork, NoWork, WorkRecord, WorkPcs, Whys, Given
<1>5. \A ps \in SUBSET Parts : Blocked(ps) \in Outputs
  BY DEF Blocked, Outputs, Words
<1>6. \A o \in Outputs : Legacy(o) \in Outputs
  BY <1>1 DEF Legacy, Outputs, Words
<1>7. Parts \subseteq Nat \ {0}
  BY DEF Parts
<1>8. QED
  BY <1>1, <1>2, <1>3, <1>4, <1>5, <1>6, <1>7

\* Where calls and threads can be.
LEMMA PcFacts ==
    /\ {"new", "acquired", "entering", "settle", "create", "opened", "prepare", "budget",
        "serial", "serving", "waiting", "abort", "drop", "reduce", "succeed", "fail",
        "deliver", "finish", "terminate", "finalize", "failing", "leave", "done"} = Pcs
    /\ {"checked", "created", "started", "provider", "returned", "attempted", "idle",
        "queued", "done", "raised"} = WorkPcs
    /\ {"none", "cancel", "fence", "error"} = Whys
BY DEF Pcs, WorkPcs, Whys, Active

\* The calls are typed after a step of one of them.
CallMoved(c) == call' \in [Calls -> CallRecord] /\ CallTyped(c)'
WorkMoved(c) == work' \in [Calls -> [Parts -> WorkRecord]] /\ WorkTyped(c)'

\* Going somewhere, and leaving for one of the reasons.
LEMMA GoMoves ==
    ASSUME Typed, NEW c \in Calls, NEW pc \in Pcs, Go(c, pc),
           pc \in {"abort", "drop"} => call[c].why # "none",
           pc = "entering" => call[c].seen \in DOMAIN Entered,
           pc = "serving" => call[c].sub \in Parts
    PROVE  CallMoved(c)
BY DEF Go, Typed, CallMoved, CallTyped, CallRecord

\* A call that raises leaves for one of its handlers.
LEMMA RaiseMoves ==
    ASSUME Typed, NEW c \in Calls, NEW why \in {"cancel", "fence", "error"}, Raise(c, why)
    PROVE  CallMoved(c)
<1>1. Handler[why] \in {"terminate", "leave", "failing"}
  BY DEF Handler
<1>2. Go(c, Handler[why]) /\ Handler[why] \in Pcs
  BY <1>1, PcFacts DEF Raise
<1>3. QED
  BY <1>1, <1>2, GoMoves

\* A fenced write goes on, or leaves.
LEMMA WriteMoves ==
    ASSUME Typed, NEW c \in Calls, NEW pc \in Pcs,
           pc \notin {"abort", "drop", "entering", "serving"},
           Go(c, pc) \/ Raise(c, "fence") \/ Raise(c, "error")
    PROVE  CallMoved(c)
BY GoMoves, RaiseMoves

\* The record of a call is replaced by another.
LEMMA CallUpdate ==
    ASSUME Typed, NEW c \in Calls, NEW r \in CallRecord, call' = [call EXCEPT ![c] = r],
           r.pc \in {"abort", "drop"} => r.why # "none",
           r.pc = "entering" => r.seen \in DOMAIN Entered,
           r.pc = "serving" => r.sub \in Parts
    PROVE  CallMoved(c)
BY DEF Typed, CallMoved, CallTyped

\* The record of a thread is replaced by another.
LEMMA WorkUpdate ==
    ASSUME Typed, NEW c \in Calls, NEW p \in Parts, NEW r \in WorkRecord,
           work' = [work EXCEPT ![c][p] = r], r.pc = "raised" => r.why # "none"
    PROVE  WorkMoved(c)
BY DEF Typed, WorkMoved, WorkTyped

\* A thread that raises.
LEMMA FailsMoves ==
    ASSUME Typed, NEW c \in Calls, NEW p \in Parts,
           NEW why \in {"cancel", "fence", "error"}, Fails(c, p, why)
    PROVE  WorkMoved(c)
<1> DEFINE r == [NewWork EXCEPT !.pc = "raised", !.why = why]
<1>1. r \in WorkRecord /\ r.why = why
  BY Records, PcFacts DEF WorkRecord
<1>2. work' = [work EXCEPT ![c][p] = r]
  BY DEF Fails
<1> HIDE DEF r
<1>3. QED
  BY <1>1, <1>2, WorkUpdate

\* A thread goes on.
LEMMA WorkGoMoves ==
    ASSUME Typed, NEW c \in Calls, NEW p \in Parts,
           NEW pc \in WorkPcs \ {"raised"}, WorkGo(c, p, pc)
    PROVE  WorkMoved(c)
<1> DEFINE r == [work[c][p] EXCEPT !.pc = pc]
<1>1. work[c][p] \in WorkRecord
  BY DEF Typed
<1>2. r \in WorkRecord /\ r.pc = pc
  BY <1>1 DEF WorkRecord
<1>3. work' = [work EXCEPT ![c][p] = r]
  BY DEF WorkGo, Typed
<1> HIDE DEF r
<1>4. QED
  BY <1>2, <1>3, WorkUpdate

\* Every action leaves its call with values of their types.
LEMMA ActCallTyped == ASSUME Typed, NEW c \in Calls, Acts(c) PROVE CallMoved(c)
<1> DEFINE Goal == CallMoved(c)
<1> USE DEF At, Quiet
<1>a. /\ call \in [Calls -> CallRecord] /\ CallTyped(c) /\ call[c] \in CallRecord
      /\ lease.epoch \in Nat /\ status \in Store!RunStatus
  BY DEF Typed, CallTyped, Store!TypeOK
<1>b. Members \subseteq Parts /\ Len(plan.profiles) \in Nat /\ Parts \subseteq Nat \ {0}
  BY PlanFacts, Records DEF Typed
<1>c. NewCall \in CallRecord /\ Blocked({}) \in Outputs
  BY Records
<1>1. CASE Submit(c)
  <2>1. CASE Store!AcquireLease(c) /\ ~Terminal
    <3> DEFINE r == [call[c] EXCEPT !.pc = "acquired", !.epoch = Store!NextEpoch(c)]
    <3>1. Store!NextEpoch(c) \in Nat
      BY <1>a DEF Store!NextEpoch
    <3>2. r \in CallRecord /\ r.pc = "acquired"
      BY <1>a, <3>1, PcFacts DEF CallRecord
    <3>3. call' = [call EXCEPT ![c] = r] \/ Go(c, "done")
      BY <1>1, <1>a DEF Submit, Acquire
    <3> HIDE DEF r
    <3>4. QED
      BY <3>2, <3>3, CallUpdate, GoMoves, PcFacts
  <2>2. CASE ~(Store!AcquireLease(c) /\ ~Terminal)
    BY <1>1, <2>2, GoMoves, PcFacts DEF Submit, Acquire
  <2>3. QED
    BY <2>1, <2>2
<1>2. CASE ReadRun(c)
  <2> DEFINE pc == IF cancel \/ status = "cancelling" THEN "finalize"
                  ELSE IF status \in DOMAIN Entered THEN "entering" ELSE "settle"
             r == [call[c] EXCEPT !.seen = status, !.pc = pc]
  <2>1. pc \in Pcs /\ pc \notin {"abort", "drop", "serving"}
          /\ (pc = "entering" => status \in DOMAIN Entered)
    BY PcFacts
  <2> HIDE DEF pc
  <2>2. r \in CallRecord /\ r.pc = pc /\ r.seen = status
    BY <1>a, <2>1 DEF CallRecord
  <2>3. call' = [call EXCEPT ![c] = r]
    BY <1>2, <1>a DEF ReadRun, pc
  <2> HIDE DEF r
  <2>4. QED
    BY <2>1, <2>2, <2>3, CallUpdate
<1>3. CASE Enter(c)
  <2> DEFINE target == Entered[call[c].seen]
             pc == IF target = "running" THEN "settle" ELSE "entering"
             r == [call[c] EXCEPT !.seen = target, !.pc = pc]
  <2>1. target \in {"running", "recovering"}
    BY <1>3, <1>a, StatusFacts DEF Enter, CallTyped
  <2>2. pc \in Pcs /\ pc \notin {"abort", "drop", "serving"}
          /\ (pc = "entering" => target \in DOMAIN Entered)
    BY <2>1, PcFacts, StatusFacts
  <2>3. Raise(c, "fence") \/ Raise(c, "error") \/ call' = [call EXCEPT ![c] = r]
    BY <1>3 DEF Enter
  <2> HIDE DEF pc, target
  <2>4. r \in CallRecord /\ r.pc = pc /\ r.seen = target
    BY <1>a, <2>1, <2>2, StatusFacts DEF CallRecord
  <2> HIDE DEF r
  <2>5. QED
    BY <2>2, <2>3, <2>4, CallUpdate, RaiseMoves
<1>4. CASE Settle(c)
  <2> DEFINE r == [call[c] EXCEPT !.pc = "finish", !.out = out]
  <2>1. r \in CallRecord /\ r.pc = "finish"
    BY <1>a, PcFacts DEF CallRecord, Typed, FactsTyped
  <2>2. \/ Raise(c, "cancel") \/ Raise(c, "fence") \/ Raise(c, "error")
        \/ Go(c, "create") \/ call' = [call EXCEPT ![c] = r]
    BY <1>4 DEF Settle, Write
  <2> HIDE DEF r
  <2>3. QED
    BY <2>1, <2>2, CallUpdate, RaiseMoves, GoMoves, PcFacts
<1>5. CASE OpenStep(c)
  <2>1. \/ Raise(c, "fence") \/ Raise(c, "error")
        \/ Go(c, "create") \/ Go(c, "opened") \/ Go(c, "prepare")
    BY <1>5 DEF OpenStep, Write
  <2>2. QED
    BY <2>1, RaiseMoves, GoMoves, PcFacts
<1>6. CASE RunStep(c)
  <2>1. Raise(c, "fence") \/ Raise(c, "error") \/ Go(c, "prepare")
    BY <1>6 DEF RunStep, Write
  <2>2. QED
    BY <2>1, RaiseMoves, GoMoves, PcFacts
<1>7. CASE Prepare(c)
  <2> DEFINE p == call[c].sub
             n == IF plan.strategy = "first-success" THEN Len(plan.profiles) + 1 ELSE p + 1
             r1 == [call[c] EXCEPT !.held = @ \cup {p}, !.sub = n]
             r2 == [call[c] EXCEPT !.todo = Append(@, p), !.sub = p + 1]
  <2>1. CASE PrepareRow(c, p) /\ p \in Members
    <3>1. p \in Parts /\ n \in Nat \ {0} /\ p + 1 \in Nat \ {0}
      BY <1>b, <2>1, <1>7 DEF Members
    <3>2. Append(call[c].todo, p) \in Seq(Parts) /\ call[c].held \cup {p} \in SUBSET Parts
      BY <1>a, <3>1 DEF CallRecord
    <3>3. call' = [call EXCEPT ![c] = r1] \/ call' = [call EXCEPT ![c] = r2]
      BY <2>1, <1>a DEF PrepareRow
    <3> HIDE DEF p, n
    <3>4. r1 \in CallRecord /\ r2 \in CallRecord /\ r1.pc = call[c].pc /\ r2.pc = call[c].pc
      BY <1>a, <3>1, <3>2 DEF CallRecord
    <3> HIDE DEF r1, r2
    <3>5. QED
      BY <1>7, <3>3, <3>4, CallUpdate DEF Prepare
  <2>2. CASE ~(PrepareRow(c, p) /\ p \in Members)
    <3>1. Raise(c, "fence") \/ Raise(c, "cancel") \/ Go(c, "budget")
      BY <1>7, <2>2 DEF Prepare
    <3>2. QED
      BY <3>1, RaiseMoves, GoMoves, PcFacts
  <2>3. QED
    BY <2>1, <2>2
<1>8. CASE Budget(c)
  <2> DEFINE r == [call[c] EXCEPT !.pc = "fail", !.out = Blocked({})]
  <2>1. r \in CallRecord /\ r.pc = "fail"
    BY <1>a, <1>c, PcFacts DEF CallRecord
  <2>2. call' = [call EXCEPT ![c] = r] \/ Go(c, "waiting") \/ Go(c, "serial")
    BY <1>8, <1>a DEF Budget
  <2> HIDE DEF r
  <2>3. QED
    BY <2>1, <2>2, CallUpdate, GoMoves, PcFacts
<1>9. CASE Wait(c)
  <2>1. CASE Collect(c)
    <3>1. PICK p \in Parts :
            \/ call' = [call EXCEPT ![c] = Collected(c, p)]
            \/ /\ work[c][p].pc = "raised"
               /\ call' = [call EXCEPT ![c].pc = "abort", ![c].why = work[c][p].why]
      BY <2>1 DEF Collect, Pending, On
    <3> DEFINE why == work[c][p].why
               r == [call[c] EXCEPT !.pc = "abort", !.why = why]
    <3>2. why \in Whys /\ (work[c][p].pc = "raised" => why # "none")
      BY DEF Typed, WorkTyped, WorkRecord
    <3>3. Collected(c, p) \in CallRecord /\ Collected(c, p).pc = call[c].pc
      BY <1>a DEF Collected, CallRecord
    <3>4. r \in CallRecord /\ r.why = why /\ r.pc = "abort"
      BY <1>a, <3>2, PcFacts DEF CallRecord
    <3>5. \/ call' = [call EXCEPT ![c] = Collected(c, p)]
          \/ work[c][p].pc = "raised" /\ call' = [call EXCEPT ![c] = r]
      BY <3>1, <1>a
    <3> HIDE DEF r, why
    <3>6. QED
      BY <1>9, <3>2, <3>3, <3>4, <3>5, CallUpdate DEF Wait
  <2>2. CASE ~Collect(c)
    <3> DEFINE r == [call[c] EXCEPT !.pc = "abort", !.why = "cancel"]
    <3>1. r \in CallRecord /\ r.why = "cancel" /\ r.pc = "abort"
      BY <1>a, PcFacts DEF CallRecord
    <3>2. call' = [call EXCEPT ![c] = r] \/ Go(c, "reduce")
      BY <1>9, <2>2, <1>a DEF Wait
    <3> HIDE DEF r
    <3>3. QED
      BY <3>1, <3>2, CallUpdate, GoMoves, PcFacts
  <2>3. QED
    BY <2>1, <2>2
<1>10. CASE Abort(c)
  BY <1>10, <1>a, GoMoves, PcFacts DEF Abort, CallTyped
<1>11. CASE Drop(c)
  <2>1. Handler[call[c].why] \in {"terminate", "leave", "failing"}
    BY <1>11, <1>a, PcFacts DEF Drop, CallTyped, CallRecord, Handler
  <2>2. QED
    BY <1>11, <2>1, GoMoves, PcFacts DEF Drop
<1>12. CASE Serial(c)
  <2> DEFINE p == Head(call[c].todo)
             r1 == [call[c] EXCEPT !.pc = "reduce", !.spent = call[c].todo # <<>>]
             r2 == [call[c] EXCEPT !.pc = "serving", !.sub = p, !.todo = Tail(@)]
  <2>1. r1 \in CallRecord /\ r1.pc = "reduce"
    BY <1>a, PcFacts DEF CallRecord
  <2>2. CASE call[c].todo = <<>> \/ Used >= MaxTotal
    <3>1. call' = [call EXCEPT ![c] = r1]
      BY <1>12, <2>2, <1>a DEF Serial
    <3> HIDE DEF r1
    <3>2. QED
      BY <2>1, <3>1, CallUpdate
  <2>3. CASE ~(call[c].todo = <<>> \/ Used >= MaxTotal)
    <3>0. call[c].todo \in Seq(Parts) /\ call[c].todo # <<>>
      BY <2>3, <1>a DEF CallRecord
    <3>1. p \in Parts /\ Tail(call[c].todo) \in Seq(Parts)
      BY <3>0
    <3>5. p \in Nat \ {0}
      BY <3>1, <1>b
    <3>2. call' = [call EXCEPT ![c] = r2]
      BY <1>12, <2>3, <1>a DEF Serial
    <3> HIDE DEF p
    <3>3. r2 \in CallRecord /\ r2.pc = "serving" /\ r2.sub = p
      BY <1>a, <3>1, <3>5, PcFacts DEF CallRecord
    <3> HIDE DEF r2
    <3>4. QED
      BY <3>1, <3>2, <3>3, CallUpdate
  <2>4. QED
    BY <2>2, <2>3
<1>13. CASE Serve(c)
  <2> DEFINE p == call[c].sub
             pc == IF plan.strategy = "first-success" /\ work[c][p].answer.ok
                   THEN "reduce" ELSE "serial"
             r == [Collected(c, p) EXCEPT !.pc = pc]
  <2>1. p \in Parts
    BY <1>13, <1>a DEF Serve, CallTyped
  <2>2. pc \in Pcs /\ pc \notin {"abort", "drop", "entering", "serving"}
    BY PcFacts
  <2>3. Collected(c, p) \in CallRecord
    BY <1>a, <2>1 DEF Collected, CallRecord
  <2>4. CASE On(c, p, "done") /\ call' = [call EXCEPT ![c] = r]
    <3> HIDE DEF pc
    <3>1. r \in CallRecord /\ r.pc = pc
      BY <2>2, <2>3 DEF CallRecord
    <3> HIDE DEF r
    <3>2. QED
      BY <2>2, <2>4, <3>1, CallUpdate
  <2>5. CASE On(c, p, "raised") /\ Go(c, Handler[work[c][p].why])
    <3>1. work[c][p].why \in {"cancel", "fence", "error"}
      BY <2>1, <2>5, PcFacts DEF On, Typed, WorkTyped, WorkRecord
    <3>2. Handler[work[c][p].why] \in {"terminate", "leave", "failing"}
      BY <3>1 DEF Handler
    <3>3. QED
      BY <2>5, <3>2, GoMoves, PcFacts
  <2>6. QED
    BY <1>13, <2>4, <2>5 DEF Serve
<1>14. CASE Decide(c)
  <2> DEFINE pc == IF Verdict(c).ok THEN "succeed" ELSE "fail"
             r == [call[c] EXCEPT !.out = Verdict(c), !.pc = pc]
  <2>1. Verdict(c) \in Outputs /\ pc \in Pcs /\ pc \notin {"abort", "drop", "entering", "serving"}
    BY VerdictIsOutput, PcFacts
  <2>2. call' = [call EXCEPT ![c] = r]
    BY <1>14, <1>a DEF Decide
  <2> HIDE DEF pc
  <2>3. r \in CallRecord /\ r.pc = pc
    BY <1>a, <2>1 DEF CallRecord
  <2> HIDE DEF r
  <2>4. QED
    BY <2>1, <2>2, <2>3, CallUpdate
<1>15. CASE Conclude(c)
  BY <1>15, GoMoves, RaiseMoves, PcFacts DEF Conclude, EndStep
<1>16. CASE Deliver(c)
  BY <1>16, GoMoves, RaiseMoves, PcFacts DEF Deliver
<1>17. CASE Finish(c)
  <2>1. Raise(c, "fence") \/ Raise(c, "error") \/ Go(c, "leave")
    BY <1>17 DEF Finish, Write
  <2>2. QED
    BY <2>1, RaiseMoves, GoMoves, PcFacts
<1>18. CASE Terminate(c)
  BY <1>18, <1>a, GoMoves, PcFacts DEF Terminate
<1>19. CASE Finalize(c)
  BY <1>19, <1>a, GoMoves, PcFacts DEF Finalize, LegalRun
<1>20. CASE EngineFails(c)
  BY <1>20, <1>a, GoMoves, PcFacts DEF EngineFails, LegalRun
<1>21. CASE Leave(c)
  <2> DEFINE r == [NewCall EXCEPT !.pc = "done"]
  <2>1. r \in CallRecord /\ r.pc = "done"
    BY <1>c, PcFacts DEF CallRecord
  <2>2. call' = [call EXCEPT ![c] = r]
    BY <1>21 DEF Leave
  <2> HIDE DEF r
  <2>3. QED
    BY <2>1, <2>2, CallUpdate
<1>22. ASSUME NEW p \in Parts, Check(c, p) PROVE Goal
  BY <1>22, <1>a DEF Check, Fails, WorkWrite, Notice, CallMoved, CallTyped
<1>23. ASSUME NEW p \in Parts, CreateAttempt(c, p) PROVE Goal
  BY <1>23, <1>a DEF CreateAttempt, Fails, WorkWrite, Notice, CallMoved, CallTyped
<1>24. ASSUME NEW p \in Parts, StartAttempt(c, p) PROVE Goal
  BY <1>24, <1>a DEF StartAttempt, Fails, WorkWrite, Notice, CallMoved, CallTyped
<1>25. ASSUME NEW p \in Parts, StartProvider(c, p) PROVE Goal
  BY <1>25, <1>a DEF StartProvider, Fails, WorkWrite, Notice, CallMoved, CallTyped
<1>26. ASSUME NEW p \in Parts, ProviderReturns(c, p) PROVE Goal
  BY <1>26, <1>a DEF ProviderReturns, Fails, WorkWrite, Notice, CallMoved, CallTyped
<1>27. ASSUME NEW p \in Parts, FinishAttempt(c, p) PROVE Goal
  BY <1>27, <1>a DEF FinishAttempt, Fails, WorkWrite, Notice, CallMoved, CallTyped
<1>28. ASSUME NEW p \in Parts, FinishParticipant(c, p) PROVE Goal
  BY <1>28, <1>a DEF FinishParticipant, Fails, WorkWrite, Notice, CallMoved, CallTyped
<1>29. ASSUME NEW p \in Parts, BeatCancel(c, p) PROVE Goal
  BY <1>29, <1>a DEF BeatCancel, Fails, WorkWrite, Notice, CallMoved, CallTyped
<1>30. ASSUME NEW p \in Parts, BeatLost(c, p) PROVE Goal
  BY <1>30, <1>a DEF BeatLost, Fails, WorkWrite, Notice, CallMoved, CallTyped
<1>31. ASSUME NEW p \in Parts, Beat(c, p) PROVE Goal
  BY <1>31, <1>a DEF Beat, Fails, WorkWrite, Notice, CallMoved, CallTyped
<1>32. QED
  BY <1>1, <1>2, <1>3, <1>4, <1>5, <1>6, <1>7, <1>8, <1>9, <1>10, <1>11, <1>12, <1>13,
     <1>14, <1>15, <1>16, <1>17, <1>18, <1>19, <1>20, <1>21, <1>22, <1>23, <1>24, <1>25,
     <1>26, <1>27, <1>28, <1>29, <1>30, <1>31
  DEF Acts, Step, Entering, Dispatch, Settling, Leaving, Work

\* Every action leaves its threads, and what was recorded, with values of their
\* types.
LEMMA ActWorkTyped ==
    ASSUME Typed, NEW c \in Calls, Acts(c)
    PROVE  WorkMoved(c) /\ FactsTyped'
<1> DEFINE Goal == WorkMoved(c) /\ FactsTyped'
<1> USE DEF At, Quiet, FactsTyped, SameFacts
<1>a. /\ work \in [Calls -> [Parts -> WorkRecord]]
      /\ WorkTyped(c) /\ FactsTyped /\ (work' = work => WorkMoved(c))
      /\ call[c].out \in Outputs
  BY DEF Typed, CallTyped, WorkTyped, FactsTyped, WorkMoved, CallRecord
<1>c. /\ NewWork \in WorkRecord /\ NewWork.pc # "raised"
      /\ [NewWork EXCEPT !.pc = "queued"] \in WorkRecord
      /\ [NewWork EXCEPT !.pc = "queued"].pc # "raised"
  BY Records, PcFacts DEF WorkRecord, NewWork
<1>1. CASE Submit(c)
  BY <1>1, <1>a DEF Submit, Acquire, Raise, SameWork
<1>2. CASE ReadRun(c)
  BY <1>2, <1>a DEF ReadRun, Raise, SameWork
<1>3. CASE Enter(c)
  BY <1>3, <1>a DEF Enter, Raise, SameWork
<1>4. CASE Settle(c)
  BY <1>4, <1>a DEF Settle, Write, Raise, SameWork
<1>5. CASE OpenStep(c)
  BY <1>5, <1>a DEF OpenStep, Write, Raise, SameWork
<1>6. CASE RunStep(c)
  BY <1>6, <1>a DEF RunStep, Write, Raise, SameWork
<1>7. CASE Prepare(c)
  BY <1>7, <1>a DEF Prepare, Raise, SameWork
<1>8. CASE Budget(c)
  <2> DEFINE q == [NewWork EXCEPT !.pc = "queued"]
             w == [p \in Parts |-> IF p \in InTodo(c) THEN q ELSE NewWork]
  <2>1. w \in [Parts -> WorkRecord] /\ \A p \in Parts : w[p].pc # "raised"
    BY <1>c
  <2>2. work' = work \/ work' = [work EXCEPT ![c] = w]
    BY <1>8 DEF Budget, SameWork
  <2>3. UNCHANGED <<res, out, deliv, proc>>
    BY <1>8 DEF Budget, SameWork
  <2> HIDE DEF w
  <2>4. QED
    BY <2>1, <2>2, <2>3, <1>a DEF WorkMoved, WorkTyped
<1>9. CASE Wait(c)
  <2>1. \/ work' = work
        \/ \E p \in Parts : work' = [work EXCEPT ![c][p] = NewWork]
    BY <1>9 DEF Wait, Collect, Pending, SameWork
  <2>2. UNCHANGED <<res, out, deliv, proc>>
    BY <1>9 DEF Wait, Collect, SameWork
  <2>3. QED
    BY <2>1, <2>2, <1>a, <1>c, WorkUpdate
<1>10. CASE Abort(c)
  BY <1>10, <1>a DEF Abort
<1>11. CASE Drop(c)
  <2> DEFINE w == [p \in Parts |-> IF work[c][p].pc = "queued" THEN NewWork ELSE work[c][p]]
  <2>1. w \in [Parts -> WorkRecord] /\ \A p \in Parts : w[p].pc = "raised" => w[p].why # "none"
    BY <1>a, <1>c DEF WorkTyped
  <2>2. work' = [work EXCEPT ![c] = w] /\ UNCHANGED <<res, out, deliv, proc>>
    BY <1>11, <1>a DEF Drop
  <2> HIDE DEF w
  <2>3. QED
    BY <2>1, <2>2, <1>a DEF WorkMoved, WorkTyped
<1>12. CASE Serial(c)
  <2> DEFINE q == [NewWork EXCEPT !.pc = "queued"]
  <2>1. CASE call[c].todo = <<>> \/ Used >= MaxTotal
    BY <1>12, <2>1, <1>a DEF Serial, SameWork
  <2>2. CASE ~(call[c].todo = <<>> \/ Used >= MaxTotal)
    <3>1. Head(call[c].todo) \in Parts
      BY <2>2 DEF Typed, CallTyped, CallRecord
    <3>2. work' = [work EXCEPT ![c][Head(call[c].todo)] = q]
      BY <1>12, <2>2 DEF Serial
    <3>3. UNCHANGED <<res, out, deliv, proc>>
      BY <1>12, <2>2 DEF Serial
    <3> HIDE DEF q
    <3>4. QED
      BY <3>1, <3>2, <3>3, <1>a, <1>c, WorkUpdate DEF q
  <2>3. QED
    BY <2>1, <2>2
<1>13. CASE Serve(c)
  <2>1. call[c].sub \in Parts
    BY <1>13 DEF Serve, Typed, CallTyped
  <2>2. work' = [work EXCEPT ![c][call[c].sub] = NewWork] /\ UNCHANGED <<res, out, deliv, proc>>
    BY <1>13 DEF Serve
  <2>3. QED
    BY <2>1, <2>2, <1>a, <1>c, WorkUpdate
<1>14. CASE Decide(c)
  BY <1>14, <1>a DEF Decide, Raise, SameWork
<1>15. CASE Conclude(c)
  BY <1>15, <1>a DEF Conclude, EndStep, Raise, SameWork
<1>16. CASE Deliver(c)
  BY <1>16, <1>a DEF Deliver, Raise, SameWork
<1>17. CASE Finish(c)
  BY <1>17, <1>a DEF Finish, Write, Raise, SameWork
<1>18. CASE Terminate(c)
  BY <1>18, <1>a DEF Terminate
<1>19. CASE Finalize(c)
  BY <1>19, <1>a DEF Finalize, Raise, SameWork
<1>20. CASE EngineFails(c)
  BY <1>20, <1>a DEF EngineFails, Raise, SameWork
<1>21. CASE Leave(c)
  BY <1>21, <1>a DEF Leave, Raise, SameWork
<1>22. ASSUME NEW p \in Parts, Check(c, p) PROVE Goal
  <2>1. \/ Fails(c, p, "fence") \/ Fails(c, p, "cancel")
        \/ WorkGo(c, p, "checked") /\ UNCHANGED <<res, out, deliv, proc>>
    BY <1>22 DEF Check
  <2>2. QED
    BY <2>1, <1>a, FailsMoves, WorkGoMoves, PcFacts DEF Fails
<1>23. ASSUME NEW p \in Parts, CreateAttempt(c, p) PROVE Goal
  <2>0. work[c][p] \in WorkRecord
    BY <1>a
  <2> DEFINE n == Len(att[p]) + 1
             r == [work[c][p] EXCEPT !.pc = "created", !.i = n]
  <2>1. \/ Fails(c, p, "fence")
        \/ work' = [work EXCEPT ![c][p] = r] /\ UNCHANGED <<res, out, deliv, proc>>
    BY <1>23, <1>a DEF CreateAttempt
  <2>2. att[p] \in Seq(Store!Attempt)
    BY DEF Typed, Store!TypeOK
  <2>3. n \in Nat
    BY <2>2
  <2> HIDE DEF n
  <2>4. r \in WorkRecord /\ r.pc = "created"
    BY <2>0, <2>3, PcFacts DEF WorkRecord
  <2> HIDE DEF r
  <2>5. QED
    BY <2>1, <2>4, <1>a, FailsMoves, WorkUpdate DEF Fails
<1>24. ASSUME NEW p \in Parts, StartAttempt(c, p) PROVE Goal
  <2>1. \/ Fails(c, p, "fence") \/ Fails(c, p, "error")
        \/ WorkGo(c, p, "started") /\ UNCHANGED <<res, out, deliv, proc>>
    BY <1>24 DEF StartAttempt, WorkWrite
  <2>2. QED
    BY <2>1, <1>a, FailsMoves, WorkGoMoves, PcFacts DEF Fails
<1>25. ASSUME NEW p \in Parts, StartProvider(c, p) PROVE Goal
  <2>0. work[c][p] \in WorkRecord
    BY <1>a
  <2> DEFINE r == [work[c][p] EXCEPT !.pc = "provider", !.hb = "on"]
  <2>1. \/ Fails(c, p, "fence") \/ Fails(c, p, "error")
        \/ /\ work' = [work EXCEPT ![c][p] = r] /\ UNCHANGED <<res, out, deliv>>
           /\ proc' = proc \cup {<<c, p>>}
    BY <1>25, <1>a DEF StartProvider
  <2>2. r \in WorkRecord /\ r.pc = "provider"
    BY <2>0, PcFacts DEF WorkRecord
  <2> HIDE DEF r
  <2>3. QED
    BY <2>1, <2>2, <1>a, FailsMoves, WorkUpdate DEF Fails
<1>26. ASSUME NEW p \in Parts, ProviderReturns(c, p) PROVE Goal
  <2>0. work[c][p] \in WorkRecord
    BY <1>a
  <2>1. PICK a \in Given :
          work' = [work EXCEPT ![c][p].pc = "returned", ![c][p].answer = a,
                     ![c][p].hb = IF @ = "on" THEN "off" ELSE @]
    BY <1>26 DEF ProviderReturns, Given
  <2> DEFINE hb == IF work[c][p].hb = "on" THEN "off" ELSE work[c][p].hb
             r == [work[c][p] EXCEPT !.pc = "returned", !.answer = a, !.hb = hb]
  <2>2. hb \in {"off", "on", "cancelled", "lost"}
    BY <1>a DEF WorkRecord
  <2>3. work' = [work EXCEPT ![c][p] = r]
    BY <2>1, <1>a
  <2> HIDE DEF hb
  <2>4. r \in WorkRecord /\ r.pc = "returned"
    BY <2>0, <2>2, PcFacts DEF WorkRecord
  <2>5. UNCHANGED <<res, out, deliv>> /\ proc' \subseteq proc
    BY <1>26 DEF ProviderReturns
  <2> HIDE DEF r
  <2>6. QED
    BY <2>3, <2>4, <2>5, <1>a, WorkUpdate
<1>27. ASSUME NEW p \in Parts, FinishAttempt(c, p) PROVE Goal
  <2>1. \/ Fails(c, p, "fence") \/ Fails(c, p, "error") \/ Fails(c, p, "cancel")
        \/ WorkGo(c, p, "attempted") /\ UNCHANGED <<res, out, deliv, proc>>
    BY <1>27 DEF FinishAttempt, WorkWrite
  <2>2. QED
    BY <2>1, <1>a, FailsMoves, WorkGoMoves, PcFacts DEF Fails
<1>28. ASSUME NEW p \in Parts, FinishParticipant(c, p) PROVE Goal
  <2> DEFINE a == work[c][p].answer
             r == [NewWork EXCEPT !.pc = "done", !.answer = a]
  <2>1. \/ Fails(c, p, "fence") \/ Fails(c, p, "error")
        \/ /\ work' = [work EXCEPT ![c][p] = r] /\ UNCHANGED <<out, deliv, proc>>
           /\ res' = [res EXCEPT ![p] = a]
    BY <1>28, <1>a DEF FinishParticipant
  <2>2. a \in Given
    BY <1>a DEF WorkRecord
  <2> HIDE DEF a
  <2>3. r \in WorkRecord /\ r.pc = "done"
    BY <1>c, <2>2, PcFacts DEF WorkRecord
  <2> HIDE DEF r
  <2>4. QED
    BY <2>1, <2>2, <2>3, <1>a, FailsMoves, WorkUpdate DEF Fails
<1>29. ASSUME NEW p \in Parts, BeatCancel(c, p) PROVE Goal
  <2>0. work[c][p] \in WorkRecord
    BY <1>a
  <2> DEFINE r == [work[c][p] EXCEPT !.hb = "cancelled"]
  <2>1. work' = [work EXCEPT ![c][p] = r] /\ UNCHANGED <<res, out, deliv>> /\ proc' = {}
    BY <1>29, <1>a DEF BeatCancel, Notice
  <2>2. r \in WorkRecord /\ r.pc = work[c][p].pc /\ r.why = work[c][p].why
    BY <2>0 DEF WorkRecord
  <2> HIDE DEF r
  <2>3. QED
    BY <2>1, <2>2, <1>a, WorkUpdate DEF WorkTyped
<1>30. ASSUME NEW p \in Parts, BeatLost(c, p) PROVE Goal
  <2>0. work[c][p] \in WorkRecord
    BY <1>a
  <2> DEFINE r == [work[c][p] EXCEPT !.hb = "lost"]
  <2>1. work' = [work EXCEPT ![c][p] = r] /\ UNCHANGED <<res, out, deliv>> /\ proc' = {}
    BY <1>30, <1>a DEF BeatLost, Notice
  <2>2. r \in WorkRecord /\ r.pc = work[c][p].pc /\ r.why = work[c][p].why
    BY <2>0 DEF WorkRecord
  <2> HIDE DEF r
  <2>3. QED
    BY <2>1, <2>2, <1>a, WorkUpdate DEF WorkTyped
<1>31. ASSUME NEW p \in Parts, Beat(c, p) PROVE Goal
  BY <1>31, <1>a DEF Beat
<1>32. QED
  BY <1>1, <1>2, <1>3, <1>4, <1>5, <1>6, <1>7, <1>8, <1>9, <1>10, <1>11, <1>12, <1>13,
     <1>14, <1>15, <1>16, <1>17, <1>18, <1>19, <1>20, <1>21, <1>22, <1>23, <1>24, <1>25,
     <1>26, <1>27, <1>28, <1>29, <1>30, <1>31
  DEF Acts, Step, Entering, Dispatch, Settling, Leaving, Work

-----------------------------------------------------------------------------
(* The store keeps its types, whoever moves. *)

\* The two instances of the store are the same one.
LEMMA RowsAreTheStore ==
    /\ Rows!TypeOK <=> Store!TypeOK
    /\ Rows!TypeOK' <=> Store!TypeOK'
    /\ Rows!Init <=> Store!Init
    /\ Rows!Next <=> Store!Next
    /\ UNCHANGED Rows!vars <=> UNCHANGED storeVars
    /\ Rows!LeaseOp <=> Store!LeaseOp
    /\ Rows!RunOp <=> Store!RunOp
    /\ Rows!StepOp <=> Store!StepOp
    /\ Rows!AttemptOp <=> Store!AttemptOp
<1> USE DEF Rows!RunTransitions, Store!RunTransitions, Rows!StepTransitions,
            Store!StepTransitions, Rows!AttemptTransitions, Store!AttemptTransitions,
            Rows!RunStatus, Store!RunStatus, Rows!RowStatus, Store!RowStatus,
            Rows!AttemptStatus, Store!AttemptStatus, Rows!RunTerminal, Store!RunTerminal
<1>1. (Rows!TypeOK <=> Store!TypeOK) /\ (Rows!TypeOK' <=> Store!TypeOK')
  BY DEF Rows!TypeOK, Store!TypeOK, Rows!Token, Store!Token, Rows!Attempt, Store!Attempt
<1>2. Rows!Init <=> Store!Init
  BY DEF Rows!Init, Store!Init
<1>3. UNCHANGED Rows!vars <=> UNCHANGED storeVars
  BY DEF Rows!vars, storeVars
<1> USE DEF Rows!Legal, Store!Legal, Rows!Fence, Store!Fence
<1>4. Rows!LeaseOp <=> Store!LeaseOp
  BY DEF Rows!LeaseOp, Store!LeaseOp, Rows!LeaseExpires, Store!LeaseExpires,
         Rows!AcquireLease, Store!AcquireLease, Rows!NextEpoch, Store!NextEpoch,
         Rows!Heartbeat, Store!Heartbeat, Rows!ReleaseLease, Store!ReleaseLease
<1>5. Rows!RunOp <=> Store!RunOp
  BY DEF Rows!RunOp, Store!RunOp, Rows!RequestCancellation, Store!RequestCancellation,
         Rows!FinalizeCancellation, Store!FinalizeCancellation, Rows!TransitionRun,
         Store!TransitionRun, Rows!CancelRow, Store!CancelRow, Rows!CancelAttempt,
         Store!CancelAttempt, Rows!OpenRow, Store!OpenRow, Rows!OpenAttempt,
         Store!OpenAttempt
<1>6. Rows!StepOp <=> Store!StepOp
  BY DEF Rows!StepOp, Store!StepOp, Rows!CreateStep, Store!CreateStep,
         Rows!TransitionStep, Store!TransitionStep, Rows!ResetStep, Store!ResetStep,
         Rows!AcceptStep, Store!AcceptStep, Rows!Retriable, Store!Retriable,
         Rows!OpenAttempt, Store!OpenAttempt
<1>7. Rows!AttemptOp <=> Store!AttemptOp
  BY DEF Rows!AttemptOp, Store!AttemptOp, Rows!CreateParticipant, Store!CreateParticipant,
         Rows!CreateAttempt, Store!CreateAttempt, Rows!TransitionParticipant,
         Store!TransitionParticipant, Rows!TransitionAttempt, Store!TransitionAttempt,
         Rows!ClassifyStaleAttempt, Store!ClassifyStaleAttempt, Rows!StaleTargets,
         Store!StaleTargets, Rows!OpenAttempt, Store!OpenAttempt
<1>8. QED
  BY <1>1, <1>2, <1>3, <1>4, <1>5, <1>6, <1>7 DEF Rows!Next, Store!Next

\* Every step of the store keeps the types of the rows.
LEMMA StoreKeeps ==
    ASSUME Store!TypeOK, Store!Next \/ UNCHANGED storeVars
    PROVE  Store!TypeOK'
<1>1. Rows!TypeOK /\ [Rows!Next]_Rows!vars
  BY RowsAreTheStore DEF Rows!vars, storeVars
<1>2. Rows!TypeOK'
  BY <1>1, Rows!StepIsTyped, Assumptions
<1>3. QED
  BY <1>2, RowsAreTheStore

\* The row names a token that was handed out, after every step of the store.
LEMMA OwnerStaysIssued ==
    ASSUME Store!TypeOK, OwnerIsIssued, Store!Next \/ UNCHANGED storeVars
    PROVE  OwnerIsIssued'
<1> USE DEF OwnerIsIssued
<1>1. lease \in [owner : Calls \cup {NoOwner}, epoch : Nat, valid : BOOLEAN]
  BY DEF Store!TypeOK
<1>2. CASE Store!LeaseExpires
  BY <1>1, <1>2 DEF Store!LeaseExpires
<1>3. ASSUME NEW c \in Calls, Store!AcquireLease(c) PROVE OwnerIsIssued'
  <2>1. Store!NextEpoch(c) # 0
    BY <1>1, CallsAssumption DEF Store!NextEpoch
  <2>2. QED
    BY <1>3, <2>1 DEF Store!AcquireLease
<1>4. ASSUME NEW t \in issued, Store!Heartbeat(t) \/ Store!ReleaseLease(t)
      PROVE  OwnerIsIssued'
  <2>1. /\ lease'.owner \in {lease.owner, NoOwner} /\ lease'.epoch = lease.epoch
        /\ issued' = issued
    BY <1>1, <1>4 DEF Store!Heartbeat, Store!ReleaseLease
  <2>2. QED
    BY <2>1
<1>5. CASE Store!RunOp \/ Store!StepOp \/ Store!AttemptOp \/ UNCHANGED storeVars
  <2>1. Rows!RunOp \/ Rows!StepOp \/ Rows!AttemptOp \/ UNCHANGED Rows!vars
    BY <1>5, RowsAreTheStore
  <2>2. UNCHANGED <<lease, issued>>
    BY <2>1, Rows!LeaseUntouched, Assumptions
  <2>3. QED
    BY <2>2
<1>6. QED
  BY <1>2, <1>3, <1>4, <1>5 DEF Store!Next, Store!LeaseOp

\* A list of attempts whose entries are replaced in place.
LEMMA InPlace ==
    ASSUME NEW A, NEW s \in Seq(A), NEW t, t = [i \in DOMAIN s |-> t[i]],
           \A i \in DOMAIN s : t[i] \in A
    PROVE  t \in Seq(A) /\ Len(t) = Len(s) /\ DOMAIN t = DOMAIN s
OBVIOUS

\* What recovery makes of attempts, and how many it leaves: as many.
LEMMA RecoveredAttempts ==
    ASSUME Store!TypeOK, Recover
    PROVE  /\ att' \in [Parts -> Seq(Store!Attempt)]
           /\ \A p \in Parts : Len(att'[p]) = Len(att[p]) /\ DOMAIN att'[p] = DOMAIN att[p]
<1>1. att \in [Parts -> Seq(Store!Attempt)]
  BY DEF Store!TypeOK
<1>2. \A a \in Store!Attempt : Store!CancelAttempt(a) \in Store!Attempt
                               /\ Interrupted(a) \in Store!Attempt
  BY DEF Store!Attempt, Store!CancelAttempt, Interrupted, Store!AttemptStatus,
         Store!AttemptTransitions
<1>3. \A p \in Parts : \A i \in DOMAIN att[p] : att[p][i] \in Store!Attempt
  BY <1>1
<1>4. CASE cancel
  <2>1. att' = [p \in Parts |-> [i \in DOMAIN att[p] |-> Store!CancelAttempt(att[p][i])]]
    BY <1>4 DEF Recover
  <2>2. ASSUME NEW p \in Parts
        PROVE  /\ att'[p] \in Seq(Store!Attempt)
               /\ Len(att'[p]) = Len(att[p]) /\ DOMAIN att'[p] = DOMAIN att[p]
    <3>1. att'[p] = [i \in DOMAIN att[p] |-> Store!CancelAttempt(att[p][i])]
      BY <2>1
    <3>2. \A i \in DOMAIN att[p] : att'[p][i] \in Store!Attempt
      BY <1>2, <1>3, <3>1
    <3>3. att'[p] = [i \in DOMAIN att[p] |-> att'[p][i]]
      BY <3>1
    <3>4. att[p] \in Seq(Store!Attempt)
      BY <1>1
    <3>5. QED
      BY <3>2, <3>3, <3>4, InPlace
  <2>3. QED
    BY <2>1, <2>2
<1>5. CASE att' = [p \in Parts |-> [i \in DOMAIN att[p] |-> Interrupted(att[p][i])]]
  <2>2. ASSUME NEW p \in Parts
        PROVE  /\ att'[p] \in Seq(Store!Attempt)
               /\ Len(att'[p]) = Len(att[p]) /\ DOMAIN att'[p] = DOMAIN att[p]
    <3>1. att'[p] = [i \in DOMAIN att[p] |-> Interrupted(att[p][i])]
      BY <1>5
    <3>2. \A i \in DOMAIN att[p] : att'[p][i] \in Store!Attempt
      BY <1>2, <1>3, <3>1
    <3>3. att'[p] = [i \in DOMAIN att[p] |-> att'[p][i]]
      BY <3>1
    <3>4. att[p] \in Seq(Store!Attempt)
      BY <1>1
    <3>5. QED
      BY <3>2, <3>3, <3>4, InPlace
  <2>3. QED
    BY <1>5, <2>2
<1>6. CASE att' = att
  BY <1>1, <1>6
<1>7. QED
  BY <1>4, <1>5, <1>6 DEF Recover

\* Recovery, which writes without a lease, keeps them too.
LEMMA RecoverKeeps ==
    ASSUME Store!TypeOK, OwnerIsIssued, Recover
    PROVE  Store!TypeOK' /\ OwnerIsIssued'
<1>1. \A s \in Store!RowStatus \cup {"absent"} :
        Store!CancelRow(s) \in Store!RowStatus \cup {"absent"}
  BY DEF Store!CancelRow, Store!RowStatus, Store!StepTransitions
<1>2. /\ "interrupted" \in Store!RowStatus
      /\ {"cancelled", "interrupted"} \subseteq Store!RunStatus
  BY DEF Store!RowStatus, Store!StepTransitions, Store!RunStatus, Store!RunTransitions
<1>3. /\ lease' \in [owner : Calls \cup {NoOwner}, epoch : Nat, valid : BOOLEAN]
      /\ lease'.owner = NoOwner
  BY DEF Recover, Store!TypeOK
<1>4. status' \in Store!RunStatus /\ UNCHANGED <<cancel, recon, issued>>
  BY <1>2 DEF Recover
<1>5. /\ step' \in [{S} -> Store!RowStatus \cup {"absent"}]
      /\ part' \in [Parts -> Store!RowStatus \cup {"absent"}]
  BY <1>1, <1>2 DEF Recover, Store!TypeOK
<1>6. QED
  BY <1>3, <1>4, <1>5, RecoveredAttempts DEF Store!TypeOK, OwnerIsIssued

-----------------------------------------------------------------------------
(* Every step, then. *)

\* What recovery, clients, time and crashes do.
Other == Cancel \/ LeaseExpires \/ Crash \/ Recover \/ BackfillScan \/ BackfillWrite

\* Every step is an action of a call, or one of these.
LEMMA Moves == [Next]_vars => (\E c \in Calls : Acts(c)) \/ Other \/ UNCHANGED vars
BY DEF Next, Acts, Other

\* What does not come from a call goes through the store too, but for recovery.
LEMMA OtherStore ==
    ASSUME Other
    PROVE  Store!Next \/ UNCHANGED storeVars \/ Recover
BY DEF Other, Cancel, LeaseExpires, Crash, BackfillScan, BackfillWrite, Store!Next,
       Store!RunOp, Store!LeaseOp, SameStore, storeVars

\* They keep the types and the issued tokens.
LEMMA OtherTyped ==
    ASSUME Typed, Other
    PROVE  /\ call' \in [Calls -> CallRecord] /\ work' \in [Calls -> [Parts -> WorkRecord]]
           /\ \A c \in Calls : (CallTyped(c) /\ WorkTyped(c))'
           /\ FactsTyped' /\ reader' \in Outputs /\ plan' = plan
           /\ troubles' \in 0..MaxTroubles
<1> USE DEF Typed, FactsTyped
<1>1. CASE Cancel \/ LeaseExpires
  <2>1. UNCHANGED <<call, work, proc, plan, res, out, deliv, reader>>
    BY <1>1 DEF Cancel, LeaseExpires, SameWork, SameRest
  <2>2. troubles' \in 0..MaxTroubles
    BY <1>1, NumbersAssumption DEF Cancel, LeaseExpires, Trouble
  <2>3. QED
    BY <2>1, <2>2 DEF CallTyped, WorkTyped
<1>2. CASE Recover
  BY <1>2 DEF Recover, SameFacts, CallTyped, WorkTyped
<1>3. CASE BackfillScan \/ BackfillWrite
  <2>1. UNCHANGED <<call, work, proc, plan, res, out, troubles>>
    BY <1>3 DEF BackfillScan, BackfillWrite, SameWork
  <2>2. reader' \in Outputs /\ deliv' \in Outputs
    BY <1>3, Records DEF BackfillScan, BackfillWrite
  <2>3. QED
    BY <2>1, <2>2 DEF CallTyped, WorkTyped
<1>4. CASE Crash
  <2> DEFINE d == [NewCall EXCEPT !.pc = "done"]
  <2>1. d \in CallRecord /\ d.pc = "done" /\ NoWork \in [Parts -> WorkRecord]
    BY Records, PcFacts DEF CallRecord
  <2>2. \A p \in Parts : NoWork[p].pc = "idle"
    BY DEF NoWork, NewWork
  <2>3. /\ call' = [c \in Calls |-> IF call[c].pc = "new" THEN call[c] ELSE d]
        /\ work' = [c \in Calls |-> NoWork] /\ proc' = {}
        /\ UNCHANGED <<plan, res, out, deliv, reader>>
    BY <1>4 DEF Crash, SameRest
  <2>4. troubles' \in 0..MaxTroubles
    BY <1>4, NumbersAssumption DEF Crash, Trouble
  <2> HIDE DEF d
  <2>5. QED
    BY <2>1, <2>2, <2>3, <2>4 DEF CallTyped, WorkTyped
<1>5. QED
  BY <1>1, <1>2, <1>3, <1>4 DEF Other

\* So does every step of the specification.
LEMMA StepTyped == Typed /\ OwnerIsIssued /\ [Next]_vars => Typed' /\ OwnerIsIssued'
<1> SUFFICES ASSUME Typed, OwnerIsIssued, [Next]_vars PROVE Typed' /\ OwnerIsIssued'
  OBVIOUS
<1>a. Store!TypeOK
  BY DEF Typed
<1>1. ASSUME NEW c \in Calls, Acts(c) PROVE Typed' /\ OwnerIsIssued'
  <2>1. StoreStep(c) /\ CallMoved(c) /\ WorkMoved(c) /\ FactsTyped'
    BY <1>1, ActStore, ActCallTyped, ActWorkTyped
  <2>2. Store!Next \/ UNCHANGED storeVars
    BY <2>1 DEF StoreStep, FencedWrite, LeaseMove
  <2>3. Store!TypeOK' /\ OwnerIsIssued'
    BY <1>a, <2>2, StoreKeeps, OwnerStaysIssued
  <2>4. \A d \in Calls \ {c} : CallTyped(d)' /\ WorkTyped(d)'
    BY <2>1 DEF StoreStep, Typed, CallTyped, WorkTyped
  <2>5. UNCHANGED <<plan, reader, troubles>>
    BY <2>1 DEF StoreStep
  <2>6. QED
    BY <2>1, <2>3, <2>4, <2>5 DEF Typed, CallMoved, WorkMoved
<1>2. CASE Other
  <2>1. Store!TypeOK' /\ OwnerIsIssued'
    BY <1>a, <1>2, OtherStore, StoreKeeps, OwnerStaysIssued, RecoverKeeps
  <2>2. QED
    BY <1>2, <2>1, OtherTyped DEF Typed
<1>3. CASE UNCHANGED vars
  BY <1>a, <1>3, StoreKeeps
  DEF Typed, CallTyped, WorkTyped, FactsTyped, OwnerIsIssued, vars, storeVars
<1>4. QED
  BY <1>1, <1>2, <1>3, Moves

\* A run begins with its rows empty and no lease.
LEMMA InitTyped == Init => Typed /\ OwnerIsIssued
<1> SUFFICES ASSUME Init PROVE Typed /\ OwnerIsIssued
  OBVIOUS
<1>1. Store!TypeOK
  BY RowsAreTheStore, Rows!InitIsTyped, Assumptions DEF Init
<1>2. OwnerIsIssued
  BY DEF Init, Store!Init, OwnerIsIssued
<1>3. NewCall \in CallRecord /\ NewCall.pc = "new"
  BY Records DEF NewCall
<1>4. NoWork \in [Parts -> WorkRecord] /\ \A p \in Parts : NoWork[p].pc = "idle"
  BY Records DEF NoWork, NewWork
<1>5. /\ call = [c \in Calls |-> NewCall] /\ work = [c \in Calls |-> NoWork]
      /\ proc = {} /\ res = [p \in Parts |-> NoAnswer] /\ out = NoOutput
      /\ deliv = NoOutput /\ reader = NotRead /\ plan \in Frozen /\ troubles = 0
  BY DEF Init
<1>6. \A c \in Calls : CallTyped(c) /\ WorkTyped(c)
  BY <1>3, <1>4, <1>5 DEF CallTyped, WorkTyped
<1>7. call \in [Calls -> CallRecord] /\ work \in [Calls -> [Parts -> WorkRecord]]
  BY <1>3, <1>4, <1>5
<1>8. FactsTyped /\ reader \in Outputs
  BY <1>5, Records DEF FactsTyped, Given
<1>9. QED
  BY <1>1, <1>2, <1>5, <1>6, <1>7, <1>8, NumbersAssumption DEF Typed

\* Every variable holds one of the values the program can give it.
THEOREM TypeCorrect == Spec => []TypeOK
<1>1. Typed => TypeOK
  <2>1. Typed => \A c \in Calls, p \in Parts :
                   work[c][p].pc \in Active \cup {"idle", "queued", "done", "raised"}
    BY DEF Typed, WorkRecord, WorkPcs
  <2>2. QED
    BY <2>1 DEF Typed, FactsTyped, TypeOK, Given
<1>2. QED
  BY <1>1, InitTyped, StepTyped, PTL DEF Spec

-----------------------------------------------------------------------------
(* What an action does to its call, field by field. *)

\* The pcs of a call on its way out, which owes nothing any more.
Exits == {"abort", "drop", "terminate", "finalize", "failing", "leave"}

\* The call moves and keeps what it knows.
Keeps(c) ==
    /\ call'[c].todo = call[c].todo /\ call'[c].held = call[c].held
    /\ call'[c].sub = call[c].sub /\ call'[c].epoch = call[c].epoch
Walks(c, pcs) ==
    Keeps(c) /\ call'[c].out = call[c].out /\ call'[c].pc \in pcs /\ work'[c] = work[c]

\* Going somewhere changes nothing else of the call.
LEMMA GoKeeps ==
    ASSUME Typed, NEW c \in Calls, NEW pc, Go(c, pc)
    PROVE  Keeps(c) /\ call'[c].out = call[c].out /\ call'[c].pc = pc
<1>1. call \in [Calls -> CallRecord] /\ call[c] \in CallRecord
  BY DEF Typed
<1>2. QED
  BY <1>1 DEF Go, Keeps, CallRecord

\* Raising only drops what the call was doing.
LEMMA RaiseKeeps ==
    ASSUME Typed, NEW c \in Calls, NEW why \in {"cancel", "fence", "error"}, Raise(c, why)
    PROVE  /\ Walks(c, {"terminate", "leave", "failing"})
           /\ UNCHANGED <<storeVars, res, out, deliv>>
<1>1. Handler[why] \in {"terminate", "leave", "failing"}
  BY DEF Handler
<1>2. Go(c, Handler[why]) /\ work' = work /\ UNCHANGED <<storeVars, res, out, deliv>>
  BY DEF Raise, Quiet, SameStore, SameWork, SameFacts
<1>3. QED
  BY <1>1, <1>2, GoKeeps DEF Walks

\* Entering: the call takes the lease, reads the run, and opens the step.
LEMMA EnteringView ==
    ASSUME Typed, NEW c \in Calls
    PROVE  /\ Submit(c) =>
                /\ call[c].pc = "new" /\ work'[c] = work[c]
                /\ call'[c].todo = call[c].todo /\ call'[c].held = call[c].held
                /\ call'[c].sub = call[c].sub /\ call'[c].out = call[c].out
                /\ \/ call'[c].pc = "done" /\ call'[c].epoch = call[c].epoch
                   \/ call'[c].pc = "acquired" /\ Store!AcquireLease(c)
                      /\ call'[c].epoch = Store!NextEpoch(c)
           /\ ReadRun(c) => call[c].pc = "acquired"
                            /\ Walks(c, {"finalize", "entering", "settle"})
           /\ Enter(c) => call[c].pc = "entering"
                          /\ Walks(c, {"settle", "entering", "leave", "failing"})
           /\ OpenStep(c) => /\ call[c].pc = "create"
                             /\ Walks(c, {"create", "opened", "prepare", "leave", "failing"})
                             /\ UNCHANGED <<part, att, res, out, deliv>>
                             /\ \/ UNCHANGED step
                                \/ Store!CreateStep(Tok(c), S)
                                \/ Store!TransitionStep(Tok(c), S, "dispatching")
           /\ RunStep(c) => /\ call[c].pc = "opened"
                            /\ Walks(c, {"prepare", "leave", "failing"})
                            /\ UNCHANGED <<part, att, res, out, deliv>>
                            /\ \/ UNCHANGED step
                               \/ Store!TransitionStep(Tok(c), S, "running")
<1>a. call \in [Calls -> CallRecord] /\ call[c] \in CallRecord
  BY DEF Typed
<1>1. ASSUME Submit(c)
      PROVE  /\ call[c].pc = "new" /\ work'[c] = work[c]
             /\ call'[c].todo = call[c].todo /\ call'[c].held = call[c].held
             /\ call'[c].sub = call[c].sub /\ call'[c].out = call[c].out
             /\ \/ call'[c].pc = "done" /\ call'[c].epoch = call[c].epoch
                \/ call'[c].pc = "acquired" /\ Store!AcquireLease(c)
                   /\ call'[c].epoch = Store!NextEpoch(c)
  <2> DEFINE n == Store!NextEpoch(c)
             r == [call[c] EXCEPT !.pc = "acquired", !.epoch = n]
  <2>1. call[c].pc = "new" /\ work' = work
    BY <1>1 DEF Submit, Acquire, At, Quiet, SameWork
  <2>2. \/ Go(c, "done")
        \/ Store!AcquireLease(c) /\ call' = [call EXCEPT ![c] = r]
    BY <1>1, <1>a DEF Submit, Acquire
  <2> HIDE DEF n
  <2>3. /\ r.pc = "acquired" /\ r.epoch = n /\ r.todo = call[c].todo
        /\ r.held = call[c].held /\ r.sub = call[c].sub /\ r.out = call[c].out
    BY <1>a DEF CallRecord
  <2> HIDE DEF r
  <2>4. QED
    BY <1>a, <2>1, <2>2, <2>3, GoKeeps DEF Keeps, n
<1>2. ASSUME ReadRun(c)
      PROVE  call[c].pc = "acquired" /\ Walks(c, {"finalize", "entering", "settle"})
  <2> DEFINE pc == IF cancel \/ status = "cancelling" THEN "finalize"
                   ELSE IF status \in DOMAIN Entered THEN "entering" ELSE "settle"
             r == [call[c] EXCEPT !.seen = status, !.pc = pc]
  <2>1. call[c].pc = "acquired" /\ work' = work /\ call' = [call EXCEPT ![c] = r]
    BY <1>2, <1>a DEF ReadRun, At, Quiet, SameWork
  <2>2. pc \in {"finalize", "entering", "settle"}
    OBVIOUS
  <2> HIDE DEF pc
  <2>3. /\ r.pc = pc /\ r.epoch = call[c].epoch /\ r.todo = call[c].todo
        /\ r.held = call[c].held /\ r.sub = call[c].sub /\ r.out = call[c].out
    BY <1>a DEF CallRecord
  <2> HIDE DEF r
  <2>4. QED
    BY <1>a, <2>1, <2>2, <2>3 DEF Walks, Keeps
<1>3. ASSUME Enter(c)
      PROVE  call[c].pc = "entering" /\ Walks(c, {"settle", "entering", "leave", "failing"})
  <2> DEFINE target == Entered[call[c].seen]
             pc == IF target = "running" THEN "settle" ELSE "entering"
             r == [call[c] EXCEPT !.seen = target, !.pc = pc]
  <2>1. /\ call[c].pc = "entering"
        /\ \/ Raise(c, "fence") \/ Raise(c, "error")
           \/ work' = work /\ call' = [call EXCEPT ![c] = r]
    BY <1>3, <1>a DEF Enter, At, SameWork
  <2>2. pc \in {"settle", "entering"}
    OBVIOUS
  <2> HIDE DEF pc, target
  <2>3. /\ r.pc = pc /\ r.epoch = call[c].epoch /\ r.todo = call[c].todo
        /\ r.held = call[c].held /\ r.sub = call[c].sub /\ r.out = call[c].out
    BY <1>a DEF CallRecord
  <2> HIDE DEF r
  <2>4. CASE Raise(c, "fence") \/ Raise(c, "error")
    <3>1. Walks(c, {"terminate", "leave", "failing"})
      BY <2>4, RaiseKeeps
    <3>2. call'[c].pc \in {"leave", "failing"}
      BY <2>4, <1>a DEF Raise, Go, Handler, CallRecord
    <3>3. QED
      BY <2>1, <3>1, <3>2 DEF Walks
  <2>5. CASE work' = work /\ call' = [call EXCEPT ![c] = r]
    BY <1>a, <2>1, <2>2, <2>3, <2>5 DEF Walks, Keeps
  <2>6. QED
    BY <2>1, <2>4, <2>5
<1>4. ASSUME OpenStep(c)
      PROVE  /\ call[c].pc = "create"
             /\ Walks(c, {"create", "opened", "prepare", "leave", "failing"})
             /\ UNCHANGED <<part, att, res, out, deliv>>
             /\ \/ UNCHANGED step
                \/ Store!CreateStep(Tok(c), S)
                \/ Store!TransitionStep(Tok(c), S, "dispatching")
  <2>1. \/ Raise(c, "fence") \/ Raise(c, "error")
        \/ /\ Go(c, "create") \/ Go(c, "opened") \/ Go(c, "prepare")
           /\ work' = work /\ UNCHANGED <<part, att, res, out, deliv>>
           /\ \/ UNCHANGED step
              \/ Store!CreateStep(Tok(c), S)
              \/ Store!TransitionStep(Tok(c), S, "dispatching")
    BY <1>4 DEF OpenStep, Write, Quiet, SameStore, SameWork, SameFacts, storeVars,
                Store!CreateStep, Store!TransitionStep
  <2>2. CASE Raise(c, "fence") \/ Raise(c, "error")
    <3>1. /\ Walks(c, {"terminate", "leave", "failing"})
          /\ UNCHANGED <<storeVars, res, out, deliv>>
      BY <2>2, RaiseKeeps
    <3>2. call'[c].pc \in {"leave", "failing"}
      BY <2>2, <1>a DEF Raise, Go, Handler, CallRecord
    <3>3. QED
      BY <1>4, <3>1, <3>2 DEF Walks, OpenStep, At, storeVars
  <2>3. CASE ~(Raise(c, "fence") \/ Raise(c, "error"))
    BY <1>4, <2>1, <2>3, GoKeeps DEF Walks, OpenStep, At
  <2>4. QED
    BY <2>2, <2>3
<1>5. ASSUME RunStep(c)
      PROVE  /\ call[c].pc = "opened"
             /\ Walks(c, {"prepare", "leave", "failing"})
             /\ UNCHANGED <<part, att, res, out, deliv>>
             /\ \/ UNCHANGED step
                \/ Store!TransitionStep(Tok(c), S, "running")
  <2>1. \/ Raise(c, "fence") \/ Raise(c, "error")
        \/ /\ Go(c, "prepare") /\ Store!TransitionStep(Tok(c), S, "running")
           /\ work' = work /\ UNCHANGED <<part, att, res, out, deliv>>
    BY <1>5 DEF RunStep, Write, SameWork, SameFacts, Store!TransitionStep
  <2>2. CASE Raise(c, "fence") \/ Raise(c, "error")
    <3>1. /\ Walks(c, {"terminate", "leave", "failing"})
          /\ UNCHANGED <<storeVars, res, out, deliv>>
      BY <2>2, RaiseKeeps
    <3>2. call'[c].pc \in {"leave", "failing"}
      BY <2>2, <1>a DEF Raise, Go, Handler, CallRecord
    <3>3. QED
      BY <1>5, <3>1, <3>2 DEF Walks, RunStep, At, storeVars
  <2>3. CASE ~(Raise(c, "fence") \/ Raise(c, "error"))
    BY <1>5, <2>1, <2>3, GoKeeps DEF Walks, RunStep, At
  <2>4. QED
    BY <2>2, <2>3
<1>6. QED
  BY <1>1, <1>2, <1>3, <1>4, <1>5

\* What a step may do to the rows and to the recorded facts, and what it leaves.
rowVars == <<step, part, att, res, out, deliv>>

\* A call that has no lease yet, or has read and entered the run.
ArrivingView(c) ==
    /\ call[c].pc \in {"new", "acquired", "entering"}
    /\ call'[c].pc \in {"acquired", "entering", "settle", "done"} \cup Exits
    /\ work'[c] = work[c] /\ UNCHANGED rowVars
    /\ call'[c].todo = call[c].todo /\ call'[c].held = call[c].held
    /\ call'[c].sub = call[c].sub
    /\ IF call[c].pc = "new" /\ call'[c].pc = "acquired"
       THEN Store!AcquireLease(c) /\ call'[c].epoch = Store!NextEpoch(c)
       ELSE call'[c].epoch = call[c].epoch /\ UNCHANGED lease
    /\ call'[c].pc = "done" => call[c].pc = "new"

\* A call before its phase is open.
LEMMA ArrivingMoves ==
    ASSUME Typed, NEW c \in Calls, Submit(c) \/ ReadRun(c) \/ Enter(c)
    PROVE  ArrivingView(c)
<1>1. /\ Submit(c) => UNCHANGED rowVars /\ (Store!AcquireLease(c) \/ UNCHANGED lease)
      /\ (ReadRun(c) \/ Enter(c)) => UNCHANGED rowVars /\ UNCHANGED lease
  BY DEF Submit, ReadRun, Enter, Acquire, Raise, Quiet, SameStore, SameWork, SameFacts,
         storeVars, rowVars, Store!TransitionRun, Store!AcquireLease
<1>2. CASE Submit(c)
  <2>2. call'[c].pc # "done" \/ UNCHANGED lease
    <3>1. call \in [Calls -> CallRecord] /\ call[c] \in CallRecord
      BY DEF Typed
    <3> DEFINE n == Store!NextEpoch(c)
               r == [call[c] EXCEPT !.pc = "acquired", !.epoch = n]
    <3>2. \/ Go(c, "done") /\ UNCHANGED lease
          \/ call' = [call EXCEPT ![c] = r]
      BY <1>2, <3>1 DEF Submit, Acquire, Quiet, SameStore, storeVars
    <3> HIDE DEF n
    <3>3. r.pc = "acquired"
      BY <3>1 DEF CallRecord
    <3> HIDE DEF r
    <3>4. QED
      BY <3>1, <3>2, <3>3
  <2>3. QED
    BY <1>1, <1>2, <2>2, EnteringView DEF ArrivingView, Exits
<1>3. CASE ReadRun(c) \/ Enter(c)
  BY <1>1, <1>3, EnteringView DEF ArrivingView, Exits, Walks, Keeps
<1>4. QED
  BY <1>2, <1>3

\* A call looks at the step: replays it, resets it, or opens it.
SettleView(c) ==
    /\ call[c].pc = "settle" /\ Keeps(c) /\ work'[c] = work[c]
    /\ UNCHANGED <<lease, att, res, out, deliv>>
    /\ \/ call'[c].pc \in Exits /\ UNCHANGED <<step, part>>
       \/ /\ call'[c].pc = "create" /\ UNCHANGED <<step, part>>
          /\ step[S] # "succeeded"
       \/ /\ call'[c].pc = "create" /\ Store!ResetStep(Tok(c), S, FALSE)
       \/ /\ call'[c].pc = "finish" /\ UNCHANGED <<step, part>>
          /\ step[S] = "succeeded"

\* _settle: what a succeeded step leaves to do.
LEMMA SettleMoves == ASSUME Typed, NEW c \in Calls, Settle(c) PROVE SettleView(c)
<1> DEFINE r == [call[c] EXCEPT !.pc = "finish", !.out = out]
<1>a. call \in [Calls -> CallRecord] /\ call[c] \in CallRecord /\ call[c].pc = "settle"
  BY DEF Typed, Settle, At
<1>b. /\ r.pc = "finish" /\ r.epoch = call[c].epoch /\ r.todo = call[c].todo
      /\ r.held = call[c].held /\ r.sub = call[c].sub
  BY <1>a DEF CallRecord
<1>1. \/ Raise(c, "cancel") \/ Raise(c, "fence") \/ Raise(c, "error")
      \/ /\ call' = [call EXCEPT ![c] = r] /\ step[S] = "succeeded" /\ Quiet
      \/ /\ Store!ResetStep(Tok(c), S, FALSE) /\ Go(c, "create") /\ SameWork /\ SameFacts
      \/ /\ step[S] # "succeeded" /\ Go(c, "create") /\ Quiet
  BY <1>a DEF Settle, Write
<1> HIDE DEF r
<1>2. CASE Raise(c, "cancel") \/ Raise(c, "fence") \/ Raise(c, "error")
  BY <1>a, <1>2, RaiseKeeps DEF SettleView, Walks, Exits, storeVars
<1>3. CASE call' = [call EXCEPT ![c] = r] /\ step[S] = "succeeded" /\ Quiet
  BY <1>a, <1>b, <1>3 DEF SettleView, Quiet, SameStore, SameWork, SameFacts, storeVars, Keeps
<1>4. CASE Store!ResetStep(Tok(c), S, FALSE) /\ Go(c, "create") /\ SameWork /\ SameFacts
  BY <1>a, <1>4, GoKeeps DEF SettleView, SameWork, SameFacts, Store!ResetStep
<1>5. CASE step[S] # "succeeded" /\ Go(c, "create") /\ Quiet
  BY <1>a, <1>5, GoKeeps DEF SettleView, Quiet, SameStore, SameWork, SameFacts, storeVars
<1>6. QED
  BY <1>1, <1>2, <1>3, <1>4, <1>5

\* The step is created, or moved on; it succeeds in neither case.
OpenView(c) ==
    /\ call[c].pc \in {"create", "opened"}
    /\ Walks(c, {"create", "opened", "prepare"} \cup Exits)
    /\ UNCHANGED <<lease, part, att, res, out, deliv>>
    /\ step'[S] \in {step[S], "pending", "dispatching", "running"}

\* A step is created or opened.
LEMMA OpenMoves == ASSUME Typed, NEW c \in Calls, OpenStep(c) \/ RunStep(c) PROVE OpenView(c)
<1>1. UNCHANGED lease
  BY DEF OpenStep, RunStep, Write, Raise, Quiet, SameStore, storeVars, Store!CreateStep,
         Store!TransitionStep
<1>2. step \in [{S} -> Store!RowStatus \cup {"absent"}]
  BY DEF Typed, Store!TypeOK
<1>3. step'[S] \in {step[S], "pending", "dispatching", "running"}
  BY <1>2, EnteringView DEF Store!CreateStep, Store!TransitionStep
<1>4. QED
  BY <1>1, <1>3, EnteringView DEF OpenView, Walks, Exits

\* The participants are looked at in their order.
PrepareView(c) ==
    /\ call[c].pc = "prepare" /\ work'[c] = work[c]
    /\ call'[c].epoch = call[c].epoch /\ call'[c].out = call[c].out
    /\ UNCHANGED <<lease, step, att, res, out, deliv>>
    /\ \/ Walks(c, Exits) /\ UNCHANGED part
       \/ Walks(c, {"budget"}) /\ call[c].sub \notin Members /\ UNCHANGED part
       \/ /\ call'[c].pc = "prepare" /\ call[c].sub \in Members
          /\ part[call[c].sub] = "succeeded" /\ UNCHANGED part
          /\ call'[c].held = call[c].held \cup {call[c].sub}
          /\ call'[c].todo = call[c].todo
          /\ call'[c].sub = IF plan.strategy = "first-success"
                            THEN Len(plan.profiles) + 1 ELSE call[c].sub + 1
       \/ /\ call'[c].pc = "prepare" /\ call[c].sub \in Members
          /\ part[call[c].sub] # "succeeded"
          /\ \/ UNCHANGED part
             \/ part' = [part EXCEPT ![call[c].sub] = "pending"]
          /\ call'[c].held = call[c].held
          /\ call'[c].todo = Append(call[c].todo, call[c].sub)
          /\ call'[c].sub = call[c].sub + 1

\* Participants prepared one at a time.
LEMMA PrepareMoves == ASSUME Typed, NEW c \in Calls, Prepare(c) PROVE PrepareView(c)
<1> DEFINE p == call[c].sub
           next == IF plan.strategy = "first-success" THEN Len(plan.profiles) + 1 ELSE p + 1
           h == [call[c] EXCEPT !.held = call[c].held \cup {p}, !.sub = next]
           t == [call[c] EXCEPT !.todo = Append(call[c].todo, p), !.sub = p + 1]
<1>a. call \in [Calls -> CallRecord] /\ call[c] \in CallRecord /\ call[c].pc = "prepare"
  BY DEF Typed, Prepare, At
<1>b. /\ h.pc = "prepare" /\ h.epoch = call[c].epoch /\ h.todo = call[c].todo
      /\ h.held = call[c].held \cup {p} /\ h.sub = next /\ h.out = call[c].out
  BY <1>a DEF CallRecord
<1>c. /\ t.pc = "prepare" /\ t.epoch = call[c].epoch
      /\ t.todo = Append(call[c].todo, p)
      /\ t.held = call[c].held /\ t.sub = p + 1 /\ t.out = call[c].out
  BY <1>a DEF CallRecord
<1>1. \/ Raise(c, "fence") \/ Raise(c, "cancel")
      \/ p \notin Members /\ Go(c, "budget") /\ Quiet
      \/ /\ p \in Members /\ PrepareRow(c, p) /\ SameWork /\ SameFacts
         /\ IF part[p] = "absent" THEN Store!CreateParticipant(Tok(c), p) ELSE SameStore
  BY DEF Prepare
<1>2. PrepareRow(c, p) =>
        IF part[p] = "succeeded" THEN call' = [call EXCEPT ![c] = h]
        ELSE call' = [call EXCEPT ![c] = t]
  BY <1>a DEF PrepareRow
<1> HIDE DEF h, t, next
<1>3. CASE Raise(c, "fence") \/ Raise(c, "cancel")
  BY <1>a, <1>3, RaiseKeeps DEF PrepareView, Walks, Keeps, Exits, storeVars
<1>4. CASE p \notin Members /\ Go(c, "budget") /\ Quiet
  BY <1>a, <1>4, GoKeeps
  DEF PrepareView, Walks, Keeps, Quiet, SameStore, SameWork, SameFacts, storeVars
<1>5. CASE /\ p \in Members /\ PrepareRow(c, p) /\ SameWork /\ SameFacts
           /\ IF part[p] = "absent" THEN Store!CreateParticipant(Tok(c), p) ELSE SameStore
  <2>1. UNCHANGED <<lease, step, att, res, out, deliv>> /\ work'[c] = work[c]
    BY <1>5 DEF SameStore, SameWork, SameFacts, storeVars, Store!CreateParticipant
  <2>2. CASE part[p] = "succeeded"
    <3>1. call' = [call EXCEPT ![c] = h] /\ UNCHANGED part
      BY <1>2, <1>5, <2>2 DEF SameStore, storeVars
    <3>2. QED
      BY <1>a, <1>b, <1>5, <2>1, <2>2, <3>1 DEF PrepareView, next
  <2>3. CASE part[p] # "succeeded"
    <3>1. call' = [call EXCEPT ![c] = t]
      BY <1>2, <1>5, <2>3
    <3>2. UNCHANGED part \/ part' = [part EXCEPT ![p] = "pending"]
      BY <1>5 DEF SameStore, storeVars, Store!CreateParticipant
    <3>3. QED
      BY <1>a, <1>c, <1>5, <2>1, <2>3, <3>1, <3>2 DEF PrepareView
  <2>4. QED
    BY <2>2, <2>3
<1>6. QED
  BY <1>1, <1>3, <1>4, <1>5

\* The budget is looked at once; the pool is then handed everybody.
BudgetView(c) ==
    /\ call[c].pc = "budget" /\ Keeps(c) /\ UNCHANGED <<lease, rowVars>>
    /\ \/ /\ call'[c].pc = "fail" /\ call'[c].out = Blocked({}) /\ work'[c] = work[c]
       \/ /\ call'[c].pc = "waiting" /\ Fits(c) /\ Parallel(c)
          /\ \A p \in Parts : work'[c][p] = IF p \in InTodo(c)
                                            THEN [NewWork EXCEPT !.pc = "queued"] ELSE NewWork
       \/ call'[c].pc = "serial" /\ work'[c] = work[c]

\* The budget is looked at, and then work is handed out.
LEMMA BudgetMoves == ASSUME Typed, NEW c \in Calls, Budget(c) PROVE BudgetView(c)
<1> DEFINE r == [call[c] EXCEPT !.pc = "fail", !.out = Blocked({})]
           w == [p \in Parts |-> IF p \in InTodo(c) THEN [NewWork EXCEPT !.pc = "queued"]
                                 ELSE NewWork]
<1>a. /\ call \in [Calls -> CallRecord] /\ call[c] \in CallRecord /\ call[c].pc = "budget"
      /\ work \in [Calls -> [Parts -> WorkRecord]]
  BY DEF Typed, Budget, At
<1>b. /\ r.pc = "fail" /\ r.epoch = call[c].epoch /\ r.todo = call[c].todo
      /\ r.held = call[c].held /\ r.sub = call[c].sub /\ r.out = Blocked({})
  BY <1>a DEF CallRecord
<1>c. UNCHANGED <<lease, rowVars>>
  BY DEF Budget, SameStore, SameFacts, storeVars, rowVars
<1>1. \/ call' = [call EXCEPT ![c] = r] /\ SameWork
      \/ Go(c, "waiting") /\ work' = [work EXCEPT ![c] = w] /\ Fits(c) /\ Parallel(c)
      \/ Go(c, "serial") /\ SameWork
  BY <1>a DEF Budget
<1> HIDE DEF r
<1>2. CASE call' = [call EXCEPT ![c] = r] /\ SameWork
  BY <1>a, <1>b, <1>c, <1>2 DEF BudgetView, Keeps, SameWork
<1>3. CASE Go(c, "waiting") /\ work' = [work EXCEPT ![c] = w] /\ Fits(c) /\ Parallel(c)
  <2>1. \A p \in Parts : work'[c][p] = w[p]
    BY <1>a, <1>3
  <2>2. QED
    BY <1>a, <1>c, <1>3, <2>1, GoKeeps DEF BudgetView
<1>4. CASE Go(c, "serial") /\ SameWork
  BY <1>a, <1>c, <1>4, GoKeeps DEF BudgetView, SameWork
<1>5. QED
  BY <1>1, <1>2, <1>3, <1>4

\* What a call holds once it has taken the outcome of a participant.
TakesOutcome(c, p) ==
    /\ work[c][p].pc = "done"
    /\ \A q \in Parts : work'[c][q] = IF q = p THEN NewWork ELSE work[c][q]
    /\ call'[c].held = IF work[c][p].answer.ok THEN call[c].held \cup {p}
                       ELSE call[c].held

\* What a call that collected an outcome holds.
LEMMA CollectedFacts ==
    ASSUME Typed, NEW c \in Calls, NEW p \in Parts
    PROVE  /\ Collected(c, p) \in CallRecord
           /\ Collected(c, p).pc = call[c].pc /\ Collected(c, p).epoch = call[c].epoch
           /\ Collected(c, p).todo = call[c].todo /\ Collected(c, p).sub = call[c].sub
           /\ Collected(c, p).held = IF work[c][p].answer.ok THEN call[c].held \cup {p}
                                     ELSE call[c].held
<1>1. call[c] \in CallRecord
  BY DEF Typed
<1> DEFINE h == [call[c] EXCEPT !.held = call[c].held \cup {p}]
           l == [call[c] EXCEPT !.lost = call[c].lost \cup {p}]
<1>2. /\ h \in CallRecord /\ h.pc = call[c].pc /\ h.epoch = call[c].epoch
      /\ h.todo = call[c].todo /\ h.sub = call[c].sub /\ h.held = call[c].held \cup {p}
  BY <1>1 DEF CallRecord
<1>3. /\ l \in CallRecord /\ l.pc = call[c].pc /\ l.epoch = call[c].epoch
      /\ l.todo = call[c].todo /\ l.sub = call[c].sub /\ l.held = call[c].held
  BY <1>1 DEF CallRecord
<1>4. Collected(c, p) = IF work[c][p].answer.ok THEN h ELSE l
  BY DEF Collected
<1> HIDE DEF h, l
<1>5. QED
  BY <1>2, <1>3, <1>4

\* The futures are waited for, until all have come or one raises.
WaitView(c) ==
    /\ call[c].pc = "waiting" /\ call'[c].epoch = call[c].epoch
    /\ UNCHANGED <<lease, rowVars>>
    /\ \/ /\ call'[c].pc \in Exits
          /\ \A q \in Parts : work'[c][q] \in {work[c][q], NewWork}
       \/ call'[c].pc = "waiting" /\ \E p \in Parts : TakesOutcome(c, p)
       \/ Walks(c, {"reduce"}) /\ Pending(c) = {}

\* The parallel wait takes outcomes in, and decides when none is pending.
LEMMA WaitMoves == ASSUME Typed, NEW c \in Calls, Wait(c) PROVE WaitView(c)
<1>a. /\ call \in [Calls -> CallRecord] /\ call[c] \in CallRecord /\ call[c].pc = "waiting"
      /\ work \in [Calls -> [Parts -> WorkRecord]]
  BY DEF Typed, Wait, At
<1>c. UNCHANGED <<lease, rowVars>>
  BY DEF Wait, Collect, Quiet, SameStore, SameFacts, storeVars, rowVars
<1>1. CASE Pending(c) = {} /\ Go(c, "reduce") /\ Quiet
  BY <1>a, <1>c, <1>1, GoKeeps DEF WaitView, Walks, Keeps, Quiet, SameWork
<1>2. ASSUME NEW why, call' = [call EXCEPT ![c].pc = "abort", ![c].why = why],
             \A q \in Parts : work'[c][q] \in {work[c][q], NewWork}
      PROVE  WaitView(c)
  <2> DEFINE r == [call[c] EXCEPT !.pc = "abort", !.why = why]
  <2>1. r.pc = "abort" /\ r.epoch = call[c].epoch
    BY <1>a DEF CallRecord
  <2>2. call' = [call EXCEPT ![c] = r]
    BY <1>a, <1>2
  <2> HIDE DEF r
  <2>3. QED
    BY <1>a, <1>c, <1>2, <2>1, <2>2 DEF WaitView, Exits
<1>3. ASSUME NEW p \in Parts, On(c, p, "done"), call' = [call EXCEPT ![c] = Collected(c, p)],
             work' = [work EXCEPT ![c][p] = NewWork]
      PROVE  WaitView(c)
  <2>1. TakesOutcome(c, p)
    BY <1>a, <1>3, CollectedFacts DEF TakesOutcome, On
  <2>2. QED
    BY <1>a, <1>c, <1>3, <2>1, CollectedFacts DEF WaitView
<1>4. CASE Collect(c)
  <2>1. PICK p \in Parts :
          \/ /\ On(c, p, "done") /\ call' = [call EXCEPT ![c] = Collected(c, p)]
             /\ work' = [work EXCEPT ![c][p] = NewWork]
          \/ /\ call' = [call EXCEPT ![c].pc = "abort", ![c].why = work[c][p].why]
             /\ work' = [work EXCEPT ![c][p] = NewWork]
    BY <1>4 DEF Collect, Pending
  <2>2. work' = [work EXCEPT ![c][p] = NewWork] =>
          \A q \in Parts : work'[c][q] \in {work[c][q], NewWork}
    BY <1>a
  <2>3. QED
    BY <1>2, <1>3, <2>1, <2>2
<1>5. CASE Quiet /\ call' = [call EXCEPT ![c].pc = "abort", ![c].why = "cancel"]
  BY <1>2, <1>5 DEF Quiet, SameWork
<1>6. QED
  BY <1>1, <1>4, <1>5 DEF Wait

\* One participant after the other, and the outcome of each.
SerialView(c) ==
    /\ call[c].pc = "serial" /\ call'[c].epoch = call[c].epoch
    /\ call'[c].held = call[c].held /\ UNCHANGED <<lease, rowVars>>
    /\ \/ /\ call'[c].pc = "reduce" /\ work'[c] = work[c]
       \/ /\ call'[c].pc = "serving" /\ call[c].todo # <<>>
          /\ ~(Used >= MaxTotal)
          /\ call'[c].sub = Head(call[c].todo) /\ call'[c].todo = Tail(call[c].todo)
          /\ \A q \in Parts : work'[c][q] = IF q = Head(call[c].todo)
                                            THEN [NewWork EXCEPT !.pc = "queued"]
                                            ELSE work[c][q]

\* One participant after another.
LEMMA SerialMoves == ASSUME Typed, NEW c \in Calls, Serial(c) PROVE SerialView(c)
<1> DEFINE p == Head(call[c].todo)
           b == call[c].todo # <<>>
           r == [call[c] EXCEPT !.pc = "reduce", !.spent = b]
           s == [call[c] EXCEPT !.pc = "serving", !.sub = p, !.todo = Tail(call[c].todo)]
<1>a. /\ call \in [Calls -> CallRecord] /\ call[c] \in CallRecord /\ call[c].pc = "serial"
      /\ work \in [Calls -> [Parts -> WorkRecord]]
      /\ Used >= MaxTotal \/ ~(Used >= MaxTotal)
  BY DEF Typed, Serial, At
<1>b. UNCHANGED <<lease, rowVars>>
  BY DEF Serial, SameStore, SameFacts, storeVars, rowVars
<1>1. r.pc = "reduce" /\ r.epoch = call[c].epoch /\ r.held = call[c].held
  BY <1>a DEF CallRecord
<1>2. /\ s.pc = "serving" /\ s.epoch = call[c].epoch /\ s.held = call[c].held
      /\ s.sub = p /\ s.todo = Tail(call[c].todo)
  BY <1>a DEF CallRecord
<1>3. \/ call' = [call EXCEPT ![c] = r] /\ SameWork
      \/ /\ call' = [call EXCEPT ![c] = s] /\ call[c].todo # <<>> /\ ~(Used >= MaxTotal)
         /\ work' = [work EXCEPT ![c][p] = [NewWork EXCEPT !.pc = "queued"]]
  BY <1>a DEF Serial
<1> HIDE DEF r, s, p
<1>4. QED
  BY <1>a, <1>b, <1>1, <1>2, <1>3 DEF SerialView, SameWork, p

ServeView(c) ==
    /\ call[c].pc = "serving" /\ call'[c].epoch = call[c].epoch
    /\ UNCHANGED <<lease, rowVars>>
    /\ \/ /\ call'[c].pc \in {"reduce", "serial"} /\ TakesOutcome(c, call[c].sub)
          /\ call'[c].todo = call[c].todo
       \/ /\ call'[c].pc \in Exits
          /\ \A q \in Parts : work'[c][q] \in {work[c][q], NewWork}

\* A step that succeeded is served again.
LEMMA ServeMoves == ASSUME Typed, NEW c \in Calls, Serve(c) PROVE ServeView(c)
<1> DEFINE p == call[c].sub
           pc == IF plan.strategy = "first-success" /\ work[c][p].answer.ok
                 THEN "reduce" ELSE "serial"
           r == [Collected(c, p) EXCEPT !.pc = pc]
<1>a. /\ call \in [Calls -> CallRecord] /\ call[c] \in CallRecord /\ call[c].pc = "serving"
      /\ work \in [Calls -> [Parts -> WorkRecord]] /\ p \in Parts
      /\ work[c][p].pc = "raised" => work[c][p].why \in Whys \ {"none"}
  <2>1. work[c] \in [Parts -> WorkRecord] /\ WorkTyped(c) /\ CallTyped(c) /\ call[c].pc = "serving"
    BY DEF Typed, Serve, At
  <2>2. p \in Parts /\ work[c][p] \in WorkRecord
    BY <2>1 DEF CallTyped
  <2>3. work[c][p].why \in Whys
    BY <2>2 DEF WorkRecord
  <2>4. QED
    BY <2>1, <2>2, <2>3 DEF Typed, WorkTyped
<1>b. UNCHANGED <<lease, rowVars>>
  BY DEF Serve, SameFacts, storeVars, rowVars
<1>1. /\ work' = [work EXCEPT ![c][p] = NewWork]
      /\ \/ On(c, p, "done") /\ call' = [call EXCEPT ![c] = r]
         \/ On(c, p, "raised") /\ Go(c, Handler[work[c][p].why])
  BY DEF Serve
<1>2. pc \in {"reduce", "serial"}
  OBVIOUS
<1> HIDE DEF pc
<1>3. /\ r.pc = pc /\ r.epoch = call[c].epoch /\ r.todo = call[c].todo
      /\ r.held = IF work[c][p].answer.ok THEN call[c].held \cup {p} ELSE call[c].held
  <2> DEFINE k == Collected(c, p)
  <2>1. /\ k \in CallRecord /\ k.epoch = call[c].epoch /\ k.todo = call[c].todo
        /\ k.held = IF work[c][p].answer.ok THEN call[c].held \cup {p} ELSE call[c].held
    BY <1>a, CollectedFacts
  <2> HIDE DEF k
  <2>2. /\ [k EXCEPT !.pc = pc].pc = pc /\ [k EXCEPT !.pc = pc].epoch = k.epoch
        /\ [k EXCEPT !.pc = pc].todo = k.todo /\ [k EXCEPT !.pc = pc].held = k.held
    BY <2>1 DEF CallRecord
  <2>3. QED
    BY <2>1, <2>2 DEF k
<1> HIDE DEF r, p
<1>4. CASE On(c, p, "done") /\ call' = [call EXCEPT ![c] = r]
  BY <1>a, <1>b, <1>1, <1>2, <1>3, <1>4 DEF ServeView, TakesOutcome, On, p
<1>5. CASE On(c, p, "raised") /\ Go(c, Handler[work[c][p].why])
  <2>1. Handler[work[c][p].why] \in {"terminate", "leave", "failing"}
    BY <1>a, <1>5 DEF On, Handler, Whys
  <2>2. QED
    BY <1>a, <1>b, <1>1, <1>5, <2>1, GoKeeps DEF ServeView, Keeps, Exits
<1>6. QED
  BY <1>1, <1>4, <1>5

\* The verdict is reached, the step is settled with it, and then its deliverable.
ConcludeView(c) ==
    /\ call'[c].epoch = call[c].epoch /\ work'[c] = work[c]
    /\ UNCHANGED <<lease, part, att, res>>
    /\ \/ /\ call[c].pc = "reduce" /\ UNCHANGED <<step, out, deliv>>
          /\ call'[c].out = Verdict(c)
          /\ call'[c].pc = IF Verdict(c).ok THEN "succeed" ELSE "fail"
       \/ /\ call[c].pc \in {"succeed", "fail"} /\ Walks(c, {"deliver"})
          /\ Holds(c) /\ out' = call[c].out /\ UNCHANGED deliv
          /\ step'[S] = IF call[c].pc = "succeed" THEN "succeeded" ELSE "failed"
       \/ /\ call[c].pc = "deliver" /\ Walks(c, {"finish"})
          /\ Holds(c) /\ deliv' = call[c].out /\ UNCHANGED <<step, out>>
       \/ /\ call[c].pc \in {"succeed", "fail", "deliver"} /\ call'[c].pc \in Exits
          /\ UNCHANGED <<step, out, deliv>>

\* The verdict is written to the step, and its deliverable published.
LEMMA ConcludeMoves ==
    ASSUME Typed, NEW c \in Calls, Decide(c) \/ Conclude(c) \/ Deliver(c)
    PROVE  ConcludeView(c)
<1>a. /\ call \in [Calls -> CallRecord] /\ call[c] \in CallRecord
      /\ step \in [{S} -> Store!RowStatus \cup {"absent"}]
  BY DEF Typed, Store!TypeOK
<1>1. CASE Decide(c)
  <2> DEFINE v == Verdict(c)
             pc == IF v.ok THEN "succeed" ELSE "fail"
             r == [call[c] EXCEPT !.out = v, !.pc = pc]
  <2>1. call' = [call EXCEPT ![c] = r] /\ call[c].pc = "reduce" /\ Quiet
    BY <1>1, <1>a DEF Decide, At
  <2> HIDE DEF v, pc
  <2>2. r.out = v /\ r.pc = pc /\ r.epoch = call[c].epoch
    BY <1>a DEF CallRecord
  <2> HIDE DEF r
  <2>3. QED
    BY <1>a, <2>1, <2>2
    DEF ConcludeView, Quiet, SameStore, SameWork, SameFacts, storeVars, pc, v
<1>2. ASSUME Raise(c, "fence") \/ Raise(c, "error"), call[c].pc \in {"succeed", "fail", "deliver"}
      PROVE  ConcludeView(c)
  BY <1>2, RaiseKeeps DEF ConcludeView, Walks, Keeps, Exits, storeVars
<1>3. ASSUME NEW target, target = IF call[c].pc = "succeed" THEN "succeeded" ELSE "failed",
             EndStep(c, target), call[c].pc \in {"succeed", "fail"}
      PROVE  ConcludeView(c)
  <2>1. CASE Store!TransitionStep(Tok(c), S, target) /\ out' = call[c].out /\ Go(c, "deliver")
             /\ SameWork /\ UNCHANGED <<plan, res, deliv, reader, troubles>>
    <3>1. /\ Holds(c) /\ step' = [step EXCEPT ![S] = target]
          /\ UNCHANGED <<lease, part, att, res>> /\ work'[c] = work[c]
      BY <2>1 DEF Store!TransitionStep, Holds, SameWork
    <3>2. step'[S] = target
      BY <3>1, <1>a
    <3>3. QED
      BY <1>3, <2>1, <3>1, <3>2, GoKeeps DEF ConcludeView, Walks, Keeps
  <2>2. QED
    BY <1>2, <1>3, <2>1 DEF EndStep
<1>4. CASE Conclude(c)
  BY <1>3, <1>4 DEF Conclude, At
<1>5. CASE Deliver(c)
  <2>1. CASE Holds(c) /\ deliv' = call[c].out /\ Go(c, "finish") /\ SameStore /\ SameWork
             /\ UNCHANGED <<plan, res, out, reader, troubles>>
    BY <1>5, <2>1, GoKeeps DEF ConcludeView, Walks, Keeps, Deliver, At, SameStore, SameWork,
                             storeVars
  <2>2. QED
    BY <1>2, <1>5, <2>1 DEF Deliver, At
<1>6. QED
  BY <1>1, <1>4, <1>5

\* On the way out, a call may still finalize a cancellation.
LeavingView(c) ==
    /\ call[c].pc \in {"finish"} \cup Exits /\ call'[c].pc \in {"done"} \cup Exits
    /\ UNCHANGED <<res, out, deliv>>
    /\ \A q \in Parts : work'[c][q] \in {work[c][q], NewWork}
    /\ UNCHANGED <<step, part, att>> \/ Store!FinalizeCancellation(Tok(c))
    /\ IF call'[c].pc = "done" THEN call'[c].epoch = 0
       ELSE call'[c].epoch = call[c].epoch /\ UNCHANGED lease

\* The call leaves, by whichever of its handlers.
LEMMA LeavingMoves ==
    ASSUME Typed, NEW c \in Calls,
           \/ Abort(c) \/ Drop(c) \/ Finish(c) \/ Terminate(c) \/ Finalize(c)
           \/ EngineFails(c) \/ Leave(c)
    PROVE  LeavingView(c)
<1>a. /\ call \in [Calls -> CallRecord] /\ call[c] \in CallRecord
      /\ work \in [Calls -> [Parts -> WorkRecord]] /\ CallTyped(c)
  BY DEF Typed
<1>1. ASSUME NEW pc \in Exits, Go(c, pc), UNCHANGED <<lease, res, out, deliv>>,
             \A q \in Parts : work'[c][q] \in {work[c][q], NewWork},
             UNCHANGED <<step, part, att>> \/ Store!FinalizeCancellation(Tok(c)),
             call[c].pc \in {"finish"} \cup Exits
      PROVE  LeavingView(c)
  BY <1>1, GoKeeps DEF LeavingView, Keeps, Exits
<1>2. CASE Abort(c) \/ Terminate(c)
  BY <1>1, <1>2 DEF Abort, Terminate, Exits, SameFacts, storeVars, At
<1>3. CASE Drop(c)
  <2>1. Handler[call[c].why] \in {"terminate", "leave", "failing"}
    BY <1>3, <1>a DEF Drop, At, CallTyped, CallRecord, Whys, Handler
  <2>2. \A q \in Parts : work'[c][q] \in {work[c][q], NewWork}
    BY <1>3, <1>a DEF Drop
  <2>3. QED
    BY <1>1, <1>3, <2>1, <2>2 DEF Drop, Exits, SameFacts, storeVars, At
<1>4. CASE Finish(c)
  <2>1. CASE Raise(c, "fence") \/ Raise(c, "error")
    BY <1>4, <2>1, RaiseKeeps DEF LeavingView, Walks, Keeps, Exits, storeVars, Finish, At
  <2>2. CASE Go(c, "leave") /\ SameWork /\ SameFacts
             /\ \E t, v : Store!TransitionRun(Tok(c), t, v)
    BY <1>1, <1>4, <2>2 DEF SameWork, SameFacts, Store!TransitionRun, Exits, Finish, At
  <2>3. QED
    BY <1>4, <2>1, <2>2 DEF Finish, Write
<1>5. CASE Finalize(c)
  <2>1. UNCHANGED <<lease, res, out, deliv>> /\ work' = work /\ Go(c, "leave")
    BY <1>5 DEF Finalize, SameWork, SameFacts, SameStore, storeVars,
                Store!FinalizeCancellation
  <2>2. UNCHANGED <<step, part, att>> \/ Store!FinalizeCancellation(Tok(c))
    BY <1>5 DEF Finalize, SameStore, storeVars
  <2>3. QED
    BY <1>1, <1>5, <2>1, <2>2 DEF Exits, Finalize, At
<1>6. CASE EngineFails(c)
  <2>1. UNCHANGED <<lease, res, out, deliv, step, part, att>> /\ work' = work
        /\ Go(c, "leave")
    BY <1>6 DEF EngineFails, SameWork, SameFacts, SameStore, storeVars, Store!TransitionRun
  <2>2. QED
    BY <1>1, <1>6, <2>1 DEF Exits, EngineFails, At
<1>7. CASE Leave(c)
  <2> DEFINE r == [NewCall EXCEPT !.pc = "done"]
  <2>1. r.pc = "done" /\ r.epoch = 0
    BY DEF NewCall
  <2>2. call' = [call EXCEPT ![c] = r]
    BY <1>7 DEF Leave
  <2> HIDE DEF r
  <2>3. UNCHANGED <<res, out, deliv, step, part, att>> /\ work' = work
    BY <1>7 DEF Leave, SameWork, SameFacts, SameStore, storeVars, Store!ReleaseLease
  <2>4. QED
    BY <1>7, <1>a, <2>1, <2>2, <2>3 DEF LeavingView, Exits, Leave, At
<1>8. QED
  BY <1>2, <1>3, <1>4, <1>5, <1>6, <1>7

\* A thread works for its participant alone.
ThreadView(c, p) ==
    /\ call' = call /\ UNCHANGED <<step, out, deliv>>
    /\ \A q \in Parts \ {p} : work'[c][q] = work[c][q]
    /\ \/ /\ work[c][p].pc \in Active \cup {"queued"} /\ work'[c][p].pc = "raised"
          /\ UNCHANGED <<part, att, res, lease>>
       \/ /\ work[c][p].pc = "queued" /\ work'[c][p].pc = "checked"
          /\ UNCHANGED <<part, att, res, lease>>
       \/ /\ work[c][p].pc = "checked" /\ work'[c][p].pc = "created"
          /\ Store!CreateAttempt(Tok(c), p) /\ UNCHANGED res
       \/ /\ work[c][p].pc \in {"created", "returned"}
          /\ work'[c][p].pc \in {"started", "attempted"}
          /\ \E i, target : Store!TransitionAttempt(Tok(c), p, i, target)
          /\ UNCHANGED res
       \/ /\ work[c][p].pc = "started" /\ work'[c][p].pc = "provider"
          /\ Store!TransitionParticipant(Tok(c), p, "running") /\ UNCHANGED res
       \/ /\ work[c][p].pc = "provider" /\ work'[c][p].pc = "returned"
          /\ UNCHANGED <<part, att, res, lease>>
       \/ /\ work[c][p].pc = "attempted" /\ work'[c][p].pc = "done"
          /\ work'[c][p].answer = work[c][p].answer
          /\ Store!TransitionParticipant(Tok(c), p, Outcome(c, p))
          /\ res' = [res EXCEPT ![p] = work[c][p].answer]
       \/ /\ work'[c][p].pc = work[c][p].pc /\ work'[c][p].answer = work[c][p].answer
          /\ UNCHANGED <<part, att, res>> /\ lease'.owner = lease.owner
          /\ lease'.epoch = lease.epoch

\* A thread takes its participant from the queue to an answer.
LEMMA ThreadMoves ==
    ASSUME Typed, NEW c \in Calls, NEW p \in Parts, Work(c, p) \/ Beat(c, p)
    PROVE  ThreadView(c, p)
<1> USE DEF ThreadView, On
<1>a. /\ work \in [Calls -> [Parts -> WorkRecord]] /\ work[c][p] \in WorkRecord
      /\ lease \in [owner : Calls \cup {NoOwner}, epoch : Nat, valid : BOOLEAN]
  BY DEF Typed, Store!TypeOK
<1>b. /\ \A r \in WorkRecord : \A pc : [r EXCEPT !.pc = pc].pc = pc
      /\ \A r \in WorkRecord : \A pc, i : [r EXCEPT !.pc = pc, !.i = i].pc = pc
      /\ \A r \in WorkRecord : \A pc, hb : [r EXCEPT !.pc = pc, !.hb = hb].pc = pc
      /\ \A r \in WorkRecord : \A pc, a, hb : [r EXCEPT !.pc = pc, !.answer = a, !.hb = hb].pc = pc
      /\ \A r \in WorkRecord : \A hb : [r EXCEPT !.hb = hb].pc = r.pc
                                   /\ [r EXCEPT !.hb = hb].answer = r.answer
  BY DEF WorkRecord
<1>1. ASSUME NEW r, work' = [work EXCEPT ![c][p] = r]
      PROVE  work'[c][p] = r /\ \A q \in Parts \ {p} : work'[c][q] = work[c][q]
  BY <1>1, <1>a
<1>2. ASSUME NEW why, Fails(c, p, why), work[c][p].pc \in Active \cup {"queued"}
      PROVE  ThreadView(c, p)
  <2>1. [NewWork EXCEPT !.pc = "raised", !.why = why].pc = "raised"
    BY DEF NewWork
  <2>2. QED
    BY <1>1, <1>2, <2>1 DEF Fails, SameFacts, storeVars
<1>3. CASE Check(c, p)
  <2>1. CASE WorkGo(c, p, "checked") /\ UNCHANGED <<storeVars, call, proc>> /\ SameFacts
    <3>1. work' = [work EXCEPT ![c][p] = [work[c][p] EXCEPT !.pc = "checked"]]
      BY <2>1, <1>a DEF WorkGo
    <3>2. QED
      BY <1>3, <2>1, <3>1, <1>1, <1>a, <1>b DEF Check, SameFacts, storeVars
  <2>2. QED
    BY <1>2, <1>3, <2>1 DEF Check
<1>4. CASE CreateAttempt(c, p)
  <2> DEFINE i == Len(att[p]) + 1
  <2>1. CASE /\ Store!CreateAttempt(Tok(c), p) /\ UNCHANGED <<call, proc>> /\ SameFacts
             /\ work' = [work EXCEPT ![c][p].pc = "created", ![c][p].i = i]
    <3> HIDE DEF i
    <3>1. work' = [work EXCEPT ![c][p] = [work[c][p] EXCEPT !.pc = "created", !.i = i]]
      BY <2>1, <1>a
    <3>2. work'[c][p].pc = "created" /\ \A q \in Parts \ {p} : work'[c][q] = work[c][q]
      BY <3>1, <1>1, <1>a, <1>b
    <3>3. UNCHANGED step
      BY <2>1 DEF Store!CreateAttempt
    <3>4. QED
      BY <1>4, <2>1, <3>2, <3>3 DEF CreateAttempt, SameFacts
  <2>2. QED
    BY <1>2, <1>4, <2>1 DEF CreateAttempt, Active
<1>5. ASSUME NEW pc \in {"started", "attempted"}, NEW target, NEW legal,
             WorkWrite(c, p, legal,
               Store!TransitionAttempt(Tok(c), p, work[c][p].i, target), pc),
             work[c][p].pc \in {"created", "returned"}
      PROVE  ThreadView(c, p)
  <2>1. CASE Store!TransitionAttempt(Tok(c), p, work[c][p].i, target) /\ WorkGo(c, p, pc)
             /\ UNCHANGED <<call, proc>> /\ SameFacts
    <3>1. work' = [work EXCEPT ![c][p] = [work[c][p] EXCEPT !.pc = pc]]
      BY <2>1, <1>a DEF WorkGo
    <3>2. UNCHANGED step
      BY <2>1 DEF Store!TransitionAttempt
    <3>3. work'[c][p].pc = pc /\ \A q \in Parts \ {p} : work'[c][q] = work[c][q]
      BY <3>1, <1>1, <1>a, <1>b
    <3>4. \E i, t : Store!TransitionAttempt(Tok(c), p, i, t)
      BY <2>1
    <3>5. QED
      BY <1>5, <2>1, <3>2, <3>3, <3>4 DEF SameFacts
  <2>2. QED
    BY <1>2, <1>5, <2>1 DEF WorkWrite, Active
<1>6. CASE StartAttempt(c, p)
  BY <1>5, <1>6 DEF StartAttempt
<1>7. CASE StartProvider(c, p)
  <2>1. CASE /\ Store!TransitionParticipant(Tok(c), p, "running") /\ UNCHANGED call
             /\ SameFacts
             /\ work' = [work EXCEPT ![c][p].pc = "provider", ![c][p].hb = "on"]
    <3>1. work' = [work EXCEPT ![c][p] = [work[c][p] EXCEPT !.pc = "provider", !.hb = "on"]]
      BY <2>1, <1>a
    <3>2. work'[c][p].pc = "provider" /\ \A q \in Parts \ {p} : work'[c][q] = work[c][q]
      BY <3>1, <1>1, <1>a, <1>b
    <3>3. UNCHANGED step
      BY <2>1 DEF Store!TransitionParticipant
    <3>4. QED
      BY <1>7, <2>1, <3>2, <3>3 DEF StartProvider, SameFacts
  <2>2. QED
    BY <1>2, <1>7, <2>1 DEF StartProvider, Active
<1>8. CASE ProviderReturns(c, p)
  <2> DEFINE hb == IF work[c][p].hb = "on" THEN "off" ELSE work[c][p].hb
  <2>1. PICK a : work' = [work EXCEPT ![c][p].pc = "returned", ![c][p].answer = a,
                            ![c][p].hb = IF @ = "on" THEN "off" ELSE @]
    BY <1>8 DEF ProviderReturns
  <2>2. work' = [work EXCEPT ![c][p] =
                   [work[c][p] EXCEPT !.pc = "returned", !.answer = a, !.hb = hb]]
    BY <2>1, <1>a
  <2> HIDE DEF hb
  <2>3. work'[c][p].pc = "returned" /\ \A q \in Parts \ {p} : work'[c][q] = work[c][q]
    BY <2>2, <1>1, <1>a, <1>b
  <2>4. QED
    BY <1>8, <2>3 DEF ProviderReturns, SameFacts, storeVars
<1>9. CASE FinishAttempt(c, p)
  <2>1. Outcome(c, p) \in {"succeeded", "failed"}
    BY DEF Outcome
  <2>2. QED
    BY <1>2, <1>5, <1>9 DEF FinishAttempt, Active
<1>10. CASE FinishParticipant(c, p)
  <2> DEFINE r == [NewWork EXCEPT !.pc = "done", !.answer = work[c][p].answer]
  <2>1. CASE /\ Store!TransitionParticipant(Tok(c), p, Outcome(c, p))
             /\ res' = [res EXCEPT ![p] = work[c][p].answer]
             /\ work' = [work EXCEPT ![c][p] = r]
             /\ UNCHANGED <<call, proc, plan, out, deliv, reader, troubles>>
    <3>1. r.pc = "done" /\ r.answer = work[c][p].answer
      BY DEF NewWork
    <3> HIDE DEF r
    <3>2. UNCHANGED step
      BY <2>1 DEF Store!TransitionParticipant
    <3>3. QED
      BY <1>10, <2>1, <3>1, <3>2, <1>1 DEF FinishParticipant
  <2>2. QED
    BY <1>2, <1>10, <2>1 DEF FinishParticipant, Active
<1>11. ASSUME NEW what, Notice(c, p, what) PROVE ThreadView(c, p)
  <2>1. work' = [work EXCEPT ![c][p] = [work[c][p] EXCEPT !.hb = what]]
    BY <1>11, <1>a DEF Notice
  <2>2. QED
    BY <1>11, <2>1, <1>1, <1>a, <1>b DEF Notice, SameFacts, storeVars
<1>12. CASE Beat(c, p)
  BY <1>12, <1>a DEF Beat, SameFacts, Store!Heartbeat
<1>13. QED
  BY <1>3, <1>4, <1>6, <1>7, <1>8, <1>9, <1>10, <1>11, <1>12
  DEF Work, BeatCancel, BeatLost

\* Every step of a call or of its threads is seen in one of these ways.
LEMMA ActMoves ==
    ASSUME Typed, NEW c \in Calls, Acts(c)
    PROVE  \/ ArrivingView(c) \/ SettleView(c) \/ OpenView(c) \/ PrepareView(c)
           \/ BudgetView(c) \/ WaitView(c) \/ SerialView(c) \/ ServeView(c)
           \/ ConcludeView(c) \/ LeavingView(c) \/ \E p \in Parts : ThreadView(c, p)
BY ArrivingMoves, SettleMoves, OpenMoves, PrepareMoves, BudgetMoves, WaitMoves, SerialMoves,
   ServeMoves, ConcludeMoves, LeavingMoves, ThreadMoves
DEF Acts, Step, Entering, Dispatch, Settling, Leaving

-----------------------------------------------------------------------------
(* Who works when, and who owns the lease. *)

\* A call works alone whenever it is not serving participants or leaving.
LEMMA AloneStep ==
    ASSUME Typed, NEW c \in Calls, WorksAlone(c), Acts(c)
    PROVE  WorksAlone(c)'
<1> USE DEF WorksAlone, Idle, Arriving, Alone
<1>a. NewWork.pc = "idle"
  BY DEF NewWork
<1>1. CASE ArrivingView(c)
  BY <1>1 DEF ArrivingView, Exits
<1>2. CASE SettleView(c) \/ OpenView(c)
  BY <1>2 DEF SettleView, OpenView, Walks, Keeps, Exits
<1>3. CASE PrepareView(c)
  BY <1>3 DEF PrepareView, Walks, Exits
<1>4. CASE BudgetView(c)
  BY <1>4 DEF BudgetView
<1>5. CASE WaitView(c)
  BY <1>5 DEF WaitView, Walks, Pending, Exits
<1>6. CASE SerialView(c)
  BY <1>6 DEF SerialView
<1>7. CASE ServeView(c)
  BY <1>7, <1>a DEF ServeView, TakesOutcome, Exits
<1>8. CASE ConcludeView(c)
  BY <1>8 DEF ConcludeView, Walks, Exits
<1>9. CASE LeavingView(c)
  BY <1>9 DEF LeavingView, Exits
<1>10. ASSUME NEW p \in Parts, ThreadView(c, p) PROVE WorksAlone(c)'
  BY <1>10 DEF ThreadView, Active
<1>11. QED
  BY <1>1, <1>2, <1>3, <1>4, <1>5, <1>6, <1>7, <1>8, <1>9, <1>10, ActMoves

\* A call owns the lease because it did, or because it just took it: then it has
\* nothing in hand yet.
JustArrived(c) ==
    call'[c].pc = "acquired" /\ call[c].pc = "new" /\ work'[c] = work[c] /\ UNCHANGED rowVars

\* A call that owns the lease after a step owned it before, or has just taken it.
LEMMA OwnsBefore ==
    ASSUME Typed, OwnerIsIssued', NEW c \in Calls, Acts(c), Owns(c)'
    PROVE  Owns(c) \/ JustArrived(c)
<1> USE DEF Owns
<1>1. CASE ArrivingView(c)
  BY <1>1 DEF ArrivingView, JustArrived
<1>2. CASE SettleView(c) \/ OpenView(c) \/ PrepareView(c) \/ BudgetView(c)
  BY <1>2 DEF SettleView, OpenView, PrepareView, BudgetView, Walks, Keeps
<1>3. CASE WaitView(c) \/ SerialView(c) \/ ServeView(c) \/ ConcludeView(c)
  BY <1>3 DEF WaitView, SerialView, ServeView, ConcludeView
<1>4. CASE LeavingView(c)
  BY <1>4, CallsAssumption DEF LeavingView, OwnerIsIssued
<1>5. ASSUME NEW p \in Parts, ThreadView(c, p) PROVE Owns(c)
  BY <1>5 DEF ThreadView, Store!CreateAttempt, Store!TransitionAttempt,
              Store!TransitionParticipant
<1>6. QED
  BY <1>1, <1>2, <1>3, <1>4, <1>5, ActMoves

\* While a call moves under the fence or leaves, another that owns the lease sees
\* nothing change.
LEMMA OthersStay ==
    ASSUME NEW c \in Calls, StoreStep(c), NEW d \in Calls \ {c}, Owns(d)'
    PROVE  /\ Owns(d) /\ call'[d] = call[d] /\ work'[d] = work[d]
           /\ UNCHANGED <<storeVars, rowVars, plan, reader>>
<1>1. call'[d] = call[d] /\ work'[d] = work[d] /\ UNCHANGED <<plan, reader>>
  BY DEF StoreStep
<1>2. lease'.owner = d
  BY DEF Owns
<1>3. ~FencedWrite(c) /\ ~LeaseMove(c)
  BY <1>2, CallsAssumption DEF FencedWrite, LeaseMove, Holds, Store!Fence, Tok
<1>4. UNCHANGED storeVars
  BY <1>3 DEF StoreStep
<1>5. ~Holds(c)
  BY <1>2, <1>4 DEF Holds, Store!Fence, Tok, storeVars
<1>6. QED
  BY <1>1, <1>4, <1>5 DEF StoreStep, storeVars, rowVars, Owns

\* Nobody owns the lease after a crash or a recovery; time, cancellations and
\* clients leave the owner and its rows alone.
LEMMA OwnsBeforeOther ==
    ASSUME Typed, OwnerIsIssued', \A c \in Calls : WorksAlone(c), Other,
           NEW c \in Calls, Owns(c)'
    PROVE  /\ Owns(c) /\ call' = call /\ work' = work
           /\ UNCHANGED <<step, part, att, res, out, plan>>
<1>1. CASE Cancel \/ LeaseExpires
  BY <1>1 DEF Cancel, LeaseExpires, SameWork, SameRest, Owns, Typed, Store!TypeOK,
              Store!RequestCancellation, Store!LeaseExpires
<1>2. CASE BackfillScan \/ BackfillWrite
  BY <1>2 DEF BackfillScan, BackfillWrite, SameWork, SameStore, storeVars, Owns
<1>3. CASE Recover
  <2>1. lease'.owner = NoOwner
    BY <1>3 DEF Recover
  <2>2. QED
    BY <2>1, CallsAssumption DEF Owns
<1>4. CASE Crash
  <2> DEFINE r == [NewCall EXCEPT !.pc = "done"]
  <2>1. r.epoch = 0
    BY DEF NewCall
  <2>2. call'[c] = IF call[c].pc = "new" THEN call[c] ELSE r
    BY <1>4 DEF Crash
  <2> HIDE DEF r
  <2>3. call'[c].epoch = 0
    BY <2>1, <2>2 DEF WorksAlone
  <2>4. QED
    BY <2>3, CallsAssumption DEF Owns, OwnerIsIssued
<1>5. QED
  BY <1>1, <1>2, <1>3, <1>4 DEF Other

\* The step of another call leaves the threads of the owner alone.
LEMMA AloneOther ==
    ASSUME Typed, \A c \in Calls : WorksAlone(c), Other, NEW c \in Calls
    PROVE  WorksAlone(c)'
<1>1. CASE ~Crash
  BY <1>1 DEF Other, Cancel, LeaseExpires, Recover, BackfillScan, BackfillWrite, SameWork,
              WorksAlone, Idle
<1>2. CASE Crash
  <2> DEFINE r == [NewCall EXCEPT !.pc = "done"]
  <2>1. r.pc = "done" /\ r.epoch = 0
    BY DEF NewCall
  <2>2. call'[c] = IF call[c].pc = "new" THEN call[c] ELSE r
    BY <1>2 DEF Crash
  <2> HIDE DEF r
  <2>3. work'[c] = NoWork /\ \A p \in Parts : NoWork[p].pc = "idle"
    BY <1>2 DEF Crash, NoWork, NewWork
  <2>4. QED
    BY <2>1, <2>2, <2>3 DEF WorksAlone, Idle, Arriving, Alone
<1>3. QED
  BY <1>1, <1>2

-----------------------------------------------------------------------------
(* What has succeeded. *)

\* A row moves only along the table, so success is not taken back.
LEMMA LegalFromSuccess ==
    ASSUME NEW target, Store!Legal(Store!StepTransitions, "succeeded", target)
    PROVE  target = "succeeded"
BY DEF Store!Legal, Store!StepTransitions

\* Resetting the step and cancelling the run change what has not succeeded.
LEMMA ResetRows ==
    ASSUME Typed, NEW c \in Calls, Store!ResetStep(Tok(c), S, FALSE)
    PROVE  /\ step[S] # "succeeded" /\ step'[S] # "succeeded"
           /\ Succeeded' = Succeeded /\ UNCHANGED <<att, lease>>
           /\ \A p \in Parts : part[p] = "absent" => part'[p] = "absent"
<1>1. step \in [{S} -> Store!RowStatus \cup {"absent"}]
      /\ part \in [Parts -> Store!RowStatus \cup {"absent"}]
  BY DEF Typed, Store!TypeOK
<1>2. /\ step[S] # "succeeded" /\ step' = [step EXCEPT ![S] = "pending"]
      /\ part' = [p \in Parts |-> IF [q \in Parts |-> S][p] = S /\ part[p] \in Store!Retriable
                                  THEN "pending" ELSE part[p]]
      /\ UNCHANGED <<att, lease>>
  BY DEF Store!ResetStep
<1>3. \A p \in Parts : part'[p] = IF part[p] \in Store!Retriable THEN "pending" ELSE part[p]
  BY <1>2
<1>4. \A p \in Parts : (part'[p] = "succeeded") <=> (part[p] = "succeeded")
  BY <1>3 DEF Store!Retriable
<1>5. \A p \in Parts : part[p] = "absent" => part'[p] = "absent"
  BY <1>3 DEF Store!Retriable
<1>6. QED
  BY <1>1, <1>2, <1>4, <1>5 DEF Succeeded

\* A cancellation leaves the rows of participants alone.
LEMMA CancelRows ==
    ASSUME Typed, NEW c \in Calls, Store!FinalizeCancellation(Tok(c))
    PROVE  /\ step'[S] = "succeeded" <=> step[S] = "succeeded"
           /\ Succeeded' = Succeeded
           /\ \A p \in Parts : part[p] = "absent" => part'[p] = "absent"
           /\ \A p \in Parts : DOMAIN att'[p] = DOMAIN att[p] /\ Len(att'[p]) = Len(att[p])
<1>1. /\ step' = [s \in {S} |-> Store!CancelRow(step[s])]
      /\ part' = [p \in Parts |-> Store!CancelRow(part[p])]
      /\ att' = [p \in Parts |-> [i \in 1..Len(att[p]) |-> Store!CancelAttempt(att[p][i])]]
      /\ att \in [Parts -> Seq(Store!Attempt)]
  BY DEF Store!FinalizeCancellation, Typed, Store!TypeOK
<1>2. /\ \A s : Store!CancelRow(s) = "succeeded" <=> s = "succeeded"
      /\ \A s : s = "absent" => Store!CancelRow(s) = "absent"
  BY DEF Store!CancelRow, Store!OpenRow
<1>3. ASSUME NEW p \in Parts
      PROVE  DOMAIN att'[p] = DOMAIN att[p] /\ Len(att'[p]) = Len(att[p])
  <2>1. att'[p] = [i \in 1..Len(att[p]) |-> Store!CancelAttempt(att[p][i])]
        /\ att[p] \in Seq(Store!Attempt)
    BY <1>1
  <2>2. att'[p] \in Seq(Store!Attempt) /\ Len(att'[p]) = Len(att[p])
    <3>1. \A i \in DOMAIN att[p] : Store!CancelAttempt(att[p][i]) \in Store!Attempt
      <4>1. \A a \in Store!Attempt : Store!CancelAttempt(a) \in Store!Attempt
        BY DEF Store!Attempt, Store!CancelAttempt, Store!AttemptStatus,
               Store!AttemptTransitions
      <4>2. QED
        BY <2>1, <4>1
    <3>2. att'[p] = [i \in DOMAIN att[p] |-> att'[p][i]]
          /\ \A i \in DOMAIN att[p] : att'[p][i] \in Store!Attempt
      BY <2>1, <3>1
    <3>3. QED
      BY <2>1, <3>2, InPlace
  <2>3. QED
    BY <2>1, <2>2
<1>4. QED
  BY <1>1, <1>2, <1>3 DEF Succeeded

\* Recovery happens when nobody holds the lease.
LEMMA RecoverRows ==
    ASSUME Typed, Recover
    PROVE  /\ step'[S] = "succeeded" <=> step[S] = "succeeded"
           /\ Succeeded' = Succeeded /\ UNCHANGED <<res, out, plan>>
           /\ \A p \in Parts : part[p] = "absent" => part'[p] = "absent"
           /\ \A p \in Parts : DOMAIN att'[p] = DOMAIN att[p] /\ Len(att'[p]) = Len(att[p])
<1>1. /\ \A s : Store!CancelRow(s) = "succeeded" <=> s = "succeeded"
      /\ \A s : s = "absent" => Store!CancelRow(s) = "absent"
  BY DEF Store!CancelRow, Store!OpenRow
<1>2. step \in [{S} -> Store!RowStatus \cup {"absent"}]
      /\ part \in [Parts -> Store!RowStatus \cup {"absent"}]
  BY DEF Typed, Store!TypeOK
<1>3. step'[S] = "succeeded" <=> step[S] = "succeeded"
  BY <1>1, <1>2 DEF Recover
<1>4. \A p \in Parts : /\ part'[p] = "succeeded" <=> part[p] = "succeeded"
                       /\ part[p] = "absent" => part'[p] = "absent"
  BY <1>1, <1>2 DEF Recover
<1>5. QED
  BY <1>3, <1>4, RecoveredAttempts DEF Typed, Succeeded, Recover, SameFacts

\* What a thread of the owner may change: the row of its participant, which has
\* not succeeded, and may now.
ThreadSaw(c, p) ==
    LET done == work[c][p].pc = "attempted" /\ work'[c][p].pc = "done" IN
    /\ \A q \in Parts \ {p} : part'[q] = part[q] /\ res'[q] = res[q] /\ att'[q] = att[q]
    /\ part[p] = "succeeded" => UNCHANGED <<part, res, att>>
    /\ part[p] = "absent" => part'[p] = "absent"
    /\ ~done => (part'[p] = "succeeded" <=> part[p] = "succeeded")
    /\ done => part'[p] = Outcome(c, p) /\ work'[c][p].answer = work[c][p].answer
    /\ ~UNCHANGED <<part, res, att>> => p \in Threads(c) /\ Holds(c)

\* What a thread of the owner does to its own participant.
LEMMA ThreadRows ==
    ASSUME Typed, NEW c \in Calls, NEW p \in Parts, ThreadView(c, p),
           Holds(c) => \A q \in Threads(c) : part[q] # "succeeded"
    PROVE  ThreadSaw(c, p)
<1> USE DEF ThreadSaw
<1>a. /\ part \in [Parts -> Store!RowStatus \cup {"absent"}] /\ res \in [Parts -> Given]
      /\ att \in [Parts -> Seq(Store!Attempt)]
  BY DEF Typed, Store!TypeOK, FactsTyped
<1>1. ASSUME Holds(c), work[c][p].pc \in {"checked", "created", "returned", "started",
                                          "attempted"}
      PROVE  p \in Threads(c) /\ part[p] # "succeeded"
  BY <1>1 DEF Threads, Active
<1>2. CASE /\ UNCHANGED <<part, att, res>>
           /\ ~(work[c][p].pc = "attempted" /\ work'[c][p].pc = "done")
  BY <1>2
<1>3. CASE /\ work[c][p].pc = "checked" /\ work'[c][p].pc = "created"
           /\ Store!CreateAttempt(Tok(c), p) /\ UNCHANGED res
  <2>1. Holds(c) /\ part[p] # "absent" /\ part' = [part EXCEPT ![p] = "dispatching"]
        /\ \A q \in Parts \ {p} : att'[q] = att[q]
    BY <1>3, <1>a DEF Store!CreateAttempt, Holds
  <2>2. QED
    BY <1>a, <1>1, <1>3, <2>1
<1>4. CASE /\ work[c][p].pc \in {"created", "returned"}
           /\ work'[c][p].pc \in {"started", "attempted"} /\ UNCHANGED res
           /\ \E i, target : Store!TransitionAttempt(Tok(c), p, i, target)
  <2>1. Holds(c) /\ UNCHANGED part /\ \A q \in Parts \ {p} : att'[q] = att[q]
    BY <1>4, <1>a DEF Store!TransitionAttempt, Holds
  <2>2. QED
    BY <1>a, <1>1, <1>4, <2>1
<1>5. CASE /\ work[c][p].pc = "started" /\ work'[c][p].pc = "provider"
           /\ Store!TransitionParticipant(Tok(c), p, "running") /\ UNCHANGED res
  <2>1. /\ Holds(c) /\ part[p] # "absent" /\ part' = [part EXCEPT ![p] = "running"]
        /\ UNCHANGED att
    BY <1>5, <1>a DEF Store!TransitionParticipant, Holds
  <2>2. QED
    BY <1>a, <1>1, <1>5, <2>1
<1>6. CASE /\ work[c][p].pc = "attempted" /\ work'[c][p].pc = "done"
           /\ work'[c][p].answer = work[c][p].answer
           /\ Store!TransitionParticipant(Tok(c), p, Outcome(c, p))
           /\ res' = [res EXCEPT ![p] = work[c][p].answer]
  <2>1. /\ Holds(c) /\ part[p] # "absent" /\ part' = [part EXCEPT ![p] = Outcome(c, p)]
        /\ UNCHANGED att
    BY <1>6, <1>a DEF Store!TransitionParticipant, Holds
  <2>2. QED
    BY <1>a, <1>1, <1>6, <2>1
<1>7. QED
  BY <1>2, <1>3, <1>4, <1>5, <1>6 DEF ThreadView

-----------------------------------------------------------------------------
(* What the owner of the lease knows, after a step of its own. *)

\* The list of participants to dispatch: one more, one less.
LEMMA ListAppend ==
    ASSUME NEW s \in Seq(Parts), NEW p \in Parts
    PROVE  /\ Append(s, p) \in Seq(Parts) /\ Len(Append(s, p)) = Len(s) + 1
           /\ \A i \in DOMAIN Append(s, p) :
                \/ i \in DOMAIN s /\ Append(s, p)[i] = s[i]
                \/ i = Len(s) + 1 /\ Append(s, p)[i] = p
           /\ \A i \in DOMAIN s : i \in DOMAIN Append(s, p) /\ Append(s, p)[i] = s[i]
OBVIOUS

\* The last of a list is the one appended.
LEMMA ListTail ==
    ASSUME NEW s \in Seq(Parts), s # <<>>
    PROVE  /\ Tail(s) \in Seq(Parts) /\ Head(s) \in Parts /\ Head(s) = s[1]
           /\ 1 \in DOMAIN s
           /\ \A i \in DOMAIN Tail(s) : i + 1 \in DOMAIN s /\ Tail(s)[i] = s[i + 1] /\ i # 0
OBVIOUS

\* The step of the owner has not succeeded, and does so only when it is settled.
LEMMA StepIsOpenStep ==
    ASSUME Typed, NEW c \in Calls, WorksAlone(c), WorksAlone(c)', Acts(c),
           StepIsOpen(c), NoneTwice(c), Owns(c)
    PROVE  StepIsOpen(c)'
<1> USE DEF StepIsOpen, InPhase
<1>a. NewWork.pc = "idle"
  BY DEF NewWork
<1>1. CASE ArrivingView(c)
  BY <1>1 DEF ArrivingView, Exits, WorksAlone, Alone, Arriving, Idle
<1>2. CASE SettleView(c)
  <2>1. Idle(c)'
    BY <1>2 DEF SettleView, WorksAlone, Alone, Arriving, Idle
  <2>2. QED
    BY <1>2, <2>1, ResetRows DEF SettleView, Exits
<1>3. CASE OpenView(c) \/ PrepareView(c)
  BY <1>3 DEF OpenView, PrepareView, Walks
<1>4. CASE BudgetView(c) \/ WaitView(c) \/ SerialView(c) \/ ServeView(c)
  BY <1>4 DEF BudgetView, WaitView, SerialView, ServeView, rowVars
<1>5. CASE ConcludeView(c)
  <2>1. Idle(c)'
    BY <1>5 DEF ConcludeView, WorksAlone, Alone, Idle
  <2>2. QED
    BY <1>5, <2>1 DEF ConcludeView, Exits, Walks
<1>6. CASE LeavingView(c)
  <2>1. Idle(c) => Idle(c)'
    BY <1>6, <1>a DEF LeavingView, Idle
  <2>2. step'[S] = "succeeded" => step[S] = "succeeded"
    BY <1>6, CancelRows DEF LeavingView
  <2>3. call[c].pc = "finish" => Idle(c)
    BY DEF WorksAlone, Alone
  <2>4. call'[c].pc \notin InPhase
    BY <1>6 DEF LeavingView, Exits
  <2>5. call[c].pc \in Exits /\ ~Idle(c) => step[S] # "succeeded"
    OBVIOUS
  <2>6. QED
    BY <1>6, <2>1, <2>2, <2>3, <2>4, <2>5 DEF LeavingView
<1>7. ASSUME NEW p \in Parts, ThreadView(c, p) PROVE StepIsOpen(c)'
  <2>1. Idle(c) => Idle(c)'
    BY <1>7 DEF ThreadView, Idle, Active
  <2>2. QED
    BY <1>7, <2>1 DEF ThreadView
<1>8. QED
  BY <1>1, <1>2, <1>3, <1>4, <1>5, <1>6, <1>7, ActMoves

\* No participant is handed out twice.
LEMMA NoneTwiceStep ==
    ASSUME Typed, Typed', NEW c \in Calls, WorksAlone(c), WorksAlone(c)', Acts(c),
           NoneTwice(c), Owns(c)
    PROVE  NoneTwice(c)'
<1> USE DEF NoneTwice
<1>a. /\ NewWork.pc = "idle" /\ [NewWork EXCEPT !.pc = "queued"].pc = "queued"
      /\ "idle" \notin Active /\ "done" \notin Active /\ "raised" \notin Active
  BY DEF NewWork, Active
<1>b. call[c] \in CallRecord /\ call[c].todo \in Seq(Parts) /\ call[c].sub \in Nat
      /\ part \in [Parts -> Store!RowStatus \cup {"absent"}]
      /\ call'[c].todo \in Seq(Parts)
  <2>1. call[c] \in CallRecord /\ call'[c] \in CallRecord
        /\ part \in [Parts -> Store!RowStatus \cup {"absent"}]
    BY DEF Typed, Store!TypeOK
  <2>2. QED
    BY <2>1 DEF CallRecord
<1>c. Idle(c)' => Threads(c)' = {}
  BY <1>a DEF Idle, Threads
<1>d. /\ call'[c].pc \in Alone => Idle(c)'
      /\ call[c].pc \in Alone => Idle(c)
  BY DEF WorksAlone
<1>1. CASE ArrivingView(c) \/ SettleView(c) \/ OpenView(c)
  <2>1. Idle(c)' /\ call[c].todo = <<>> /\ call'[c].todo = call[c].todo
    BY <1>1, <1>d DEF ArrivingView, SettleView, OpenView, Walks, Keeps, WorksAlone, Alone,
                  Arriving, Idle
  <2>2. InTodo(c)' = {}
    BY <2>1 DEF InTodo
  <2>3. call'[c].pc # "serving"
    BY <1>1 DEF ArrivingView, SettleView, OpenView, Walks, Exits
  <2>4. QED
    BY <2>1, <2>2, <2>3, <1>c DEF Listed
<1>2. CASE PrepareView(c)
  <2>1. Threads(c)' = {} /\ call'[c].pc \in {"prepare", "budget"} \cup Exits
    BY <1>2, <1>c, <1>d DEF PrepareView, Alone, Idle, Walks
  <2>2. CASE call'[c].pc \notin {"prepare", "budget"}
    BY <1>2, <2>1, <2>2 DEF PrepareView, Listed, Exits
  <2>3. CASE UNCHANGED part /\ call'[c].todo = call[c].todo
             /\ call'[c].pc \in {"prepare", "budget"}
             /\ (call'[c].pc = "prepare" => call'[c].sub > call[c].sub)
    <3>1. InTodo(c)' = InTodo(c) /\ Listed(c) = InTodo(c) /\ Listed(c)' = InTodo(c)
      BY <1>2, <2>3 DEF InTodo, Listed, PrepareView
    <3>2. \A p \in InTodo(c) : p < call[c].sub /\ p \in Nat
      <4>1. \A i \in DOMAIN call[c].todo : call[c].todo[i] \in Parts
        BY <1>b
      <4>2. \A p \in InTodo(c) : p \in Parts
        BY <4>1 DEF InTodo
      <4>3. QED
        BY <1>2, <4>2 DEF PrepareView, Parts
    <3>3. call'[c].pc = "prepare" => \A p \in InTodo(c) : p < call'[c].sub
      <4>1. call'[c].sub \in Nat
        BY DEF Typed, CallRecord
      <4>2. QED
        BY <1>b, <2>3, <3>2, <4>1
    <3>4. QED
      BY <1>2, <2>1, <2>3, <3>1, <3>3 DEF PrepareView
  <2>4. CASE /\ call'[c].pc = "prepare" /\ call[c].sub \in Members
             /\ part[call[c].sub] # "succeeded"
             /\ UNCHANGED part \/ part' = [part EXCEPT ![call[c].sub] = "pending"]
             /\ call'[c].todo = Append(call[c].todo, call[c].sub)
             /\ call'[c].sub = call[c].sub + 1
    <3> DEFINE s == call[c].todo
               n == call[c].sub
    <3>0. n \in Parts
      BY <2>4, PlanFacts DEF Typed
    <3>1. \A i \in DOMAIN s : s[i] < n /\ part[s[i]] # "succeeded" /\ s[i] \in Parts
      BY <1>2, <1>b DEF PrepareView, InTodo, Listed
    <3>2. \A i, j \in DOMAIN s : s[i] = s[j] => i = j
      BY <1>2 DEF PrepareView
    <3>3. part'[n] # "succeeded" /\ \A p \in Parts : p # n => part'[p] = part[p]
      BY <1>b, <2>4, <3>0
    <3>4. InTodo(c)' = {call'[c].todo[i] : i \in DOMAIN call'[c].todo}
      BY DEF InTodo
    <3>5. s \in Seq(Parts) /\ n \in Nat
      BY <1>b
    <3> HIDE DEF s, n
    <3>6. /\ call'[c].todo = Append(s, n) /\ call'[c].sub = n + 1
      BY <2>4 DEF s, n
    <3>7. \A i \in DOMAIN Append(s, n) : Append(s, n)[i] \in Parts
                /\ Append(s, n)[i] < n + 1 /\ part'[Append(s, n)[i]] # "succeeded"
      BY <3>0, <3>1, <3>3, <3>5, ListAppend DEF Parts
    <3>8. \A i, j \in DOMAIN Append(s, n) : Append(s, n)[i] = Append(s, n)[j] => i = j
      <4>1. \A i \in DOMAIN s : s[i] # n
        BY <3>1, <3>5 DEF Parts
      <4>2. QED
        BY <3>0, <3>2, <3>5, <4>1, ListAppend
    <3>9. QED
      BY <2>1, <2>4, <3>4, <3>6, <3>7, <3>8 DEF Listed
  <2>5. call[c].sub \in Members => Len(plan.profiles) + 1 > call[c].sub
    BY PlanFacts DEF Typed, Members
  <2>6. call[c].sub + 1 > call[c].sub
    BY <1>b
  <2>7. QED
    BY <1>2, <2>2, <2>3, <2>4, <2>5, <2>6 DEF PrepareView, Walks, Keeps, Exits
<1>3. CASE BudgetView(c)
  <2>0. InTodo(c)' = InTodo(c) /\ Listed(c) = InTodo(c) /\ UNCHANGED part
    BY <1>3 DEF BudgetView, Keeps, InTodo, Listed, rowVars
  <2>1. CASE call'[c].pc = "waiting" /\ \A p \in Parts : work'[c][p] =
               IF p \in InTodo(c) THEN [NewWork EXCEPT !.pc = "queued"] ELSE NewWork
    <3>1. Threads(c)' \subseteq InTodo(c) /\ Listed(c)' = {}
      BY <1>a, <2>1 DEF Threads, Listed
    <3>2. QED
      BY <1>3, <2>0, <2>1, <3>1 DEF BudgetView
  <2>2. CASE call'[c].pc \in {"fail", "serial"}
    <3>1. Threads(c)' = {} /\ Listed(c)' \subseteq InTodo(c)
      BY <1>c, <1>d, <2>0, <2>2 DEF Alone, Listed
    <3>2. QED
      BY <1>3, <2>0, <2>2, <3>1 DEF BudgetView, Keeps
  <2>3. QED
    BY <1>3, <2>1, <2>2 DEF BudgetView
<1>4. CASE WaitView(c)
  <2>1. Threads(c)' \subseteq Threads(c) /\ UNCHANGED part
    BY <1>4, <1>a DEF WaitView, Threads, TakesOutcome, Walks, rowVars
  <2>2. Listed(c)' = {} /\ call'[c].pc \notin {"prepare", "budget", "serial", "serving"}
    BY <1>4 DEF WaitView, Walks, Listed, Exits
  <2>3. QED
    BY <2>1, <2>2
<1>5. CASE SerialView(c)
  <2>0. UNCHANGED part /\ Listed(c) = InTodo(c) /\ Idle(c)
    BY <1>5, <1>d DEF SerialView, rowVars, Listed, Alone
  <2>1. CASE call'[c].pc = "reduce"
    BY <1>c, <1>d, <2>0, <2>1 DEF Alone, Listed
  <2>2. CASE /\ call'[c].pc = "serving" /\ call[c].todo # <<>>
             /\ call'[c].sub = Head(call[c].todo) /\ call'[c].todo = Tail(call[c].todo)
             /\ \A q \in Parts : work'[c][q] = IF q = Head(call[c].todo)
                                               THEN [NewWork EXCEPT !.pc = "queued"]
                                               ELSE work[c][q]
    <3> DEFINE s == call[c].todo
    <3>1. \A i \in DOMAIN s : part[s[i]] # "succeeded"
      BY <2>0 DEF InTodo
    <3>2. \A i, j \in DOMAIN s : s[i] = s[j] => i = j
      BY <1>5 DEF SerialView
    <3>3. s \in Seq(Parts) /\ s # <<>>
      BY <1>b, <2>2
    <3>4. InTodo(c)' = {call'[c].todo[i] : i \in DOMAIN call'[c].todo}
      BY DEF InTodo
    <3>5. Threads(c)' \subseteq {Head(s)}
      BY <1>a, <2>0, <2>2 DEF Threads, Idle
    <3> HIDE DEF s
    <3>6. call'[c].sub = Head(s) /\ call'[c].todo = Tail(s)
      BY <2>2 DEF s
    <3>7. \A i \in DOMAIN Tail(s) : part[Tail(s)[i]] # "succeeded" /\ Tail(s)[i] # Head(s)
      <4>1. \A i \in DOMAIN Tail(s) : i + 1 # 1
        BY <3>3
      <4>2. QED
        BY <3>1, <3>2, <3>3, <4>1, ListTail
    <3>8. \A i, j \in DOMAIN Tail(s) : Tail(s)[i] = Tail(s)[j] => i = j
      <4>1. \A i, j \in DOMAIN Tail(s) : i + 1 = j + 1 => i = j
        BY <3>3
      <4>2. QED
        BY <3>2, <3>3, <4>1, ListTail
    <3>9. part[Head(s)] # "succeeded"
      BY <3>1, <3>3, ListTail
    <3>10. \A p \in InTodo(c)' : part[p] # "succeeded" /\ p # Head(s)
      BY <3>4, <3>6, <3>7
    <3>11. \A p \in Threads(c)' : part[p] # "succeeded"
      BY <3>5, <3>9
    <3>12. Listed(c)' = InTodo(c)'
      BY <2>2 DEF Listed
    <3>13. QED
      BY <2>0, <2>2, <3>6, <3>8, <3>10, <3>11, <3>12
  <2>3. QED
    BY <1>5, <2>1, <2>2 DEF SerialView
<1>6. CASE ServeView(c)
  <2>1. Threads(c)' \subseteq Threads(c) /\ UNCHANGED part
    BY <1>6, <1>a DEF ServeView, Threads, TakesOutcome, rowVars
  <2>2. CASE call'[c].pc \in {"reduce", "serial"} /\ call'[c].todo = call[c].todo
    <3>1. InTodo(c)' = InTodo(c) /\ Listed(c) = InTodo(c) /\ Listed(c)' \subseteq InTodo(c)
      BY <1>6, <2>2 DEF ServeView, InTodo, Listed
    <3>2. QED
      BY <1>6, <2>1, <2>2, <3>1 DEF ServeView
  <2>3. CASE call'[c].pc \in Exits
    BY <2>1, <2>3 DEF Listed, Exits
  <2>4. QED
    BY <1>6, <2>2, <2>3 DEF ServeView
<1>7. CASE ConcludeView(c)
  <2>1. Threads(c)' = {}
    BY <1>7, <1>c, <1>d DEF ConcludeView, Alone, Idle
  <2>2. call'[c].pc \notin {"prepare", "budget", "serial", "serving"}
    BY <1>7 DEF ConcludeView, Walks, Exits
  <2>3. QED
    BY <2>1, <2>2 DEF Listed
<1>8. CASE LeavingView(c)
  <2>1. Threads(c)' \subseteq Threads(c)
    BY <1>8, <1>a DEF LeavingView, Threads
  <2>2. call'[c].pc \notin {"prepare", "budget", "serial", "serving"}
    BY <1>8 DEF LeavingView, Exits
  <2>3. \A p \in Parts : part'[p] = "succeeded" => part[p] = "succeeded"
    BY <1>8, CancelRows DEF LeavingView, Succeeded
  <2>4. Threads(c) \subseteq Parts
    BY DEF Threads
  <2>5. QED
    BY <2>1, <2>2, <2>3, <2>4 DEF Listed
<1>9. ASSUME NEW p \in Parts, ThreadView(c, p) PROVE NoneTwice(c)'
  <2>1. ThreadSaw(c, p)
    BY <1>9, ThreadRows
  <2>2. /\ Threads(c)' \subseteq Threads(c)
        /\ work'[c][p].pc = "done" => p \notin Threads(c)'
    BY <1>9, <1>a DEF ThreadView, Threads, Active
  <2>3. call' = call /\ InTodo(c)' = InTodo(c) /\ Listed(c)' = Listed(c)
    BY <1>9 DEF ThreadView, InTodo, Listed
  <2>4. p \in Threads(c) => p \notin Listed(c)
    <3>1. p \in Threads(c) => work[c][p].pc # "idle"
      BY <1>a DEF Threads
    <3>2. QED
      BY <3>1 DEF Listed, WorksAlone, Alone, Idle
  <2>5. \A q \in Parts \ {p} : part'[q] = part[q]
    BY <2>1 DEF ThreadSaw
  <2>6. p \in Threads(c)' \cup Listed(c) => part'[p] # "succeeded"
    BY <2>1, <2>2, <2>4 DEF ThreadSaw
  <2>7. Threads(c) \subseteq Parts /\ Listed(c) \subseteq Parts
    BY <1>b DEF Threads, Listed, InTodo
  <2>8. QED
    BY <2>2, <2>3, <2>5, <2>6, <2>7
<1>10. QED
  BY <1>1, <1>2, <1>3, <1>4, <1>5, <1>6, <1>7, <1>8, <1>9, ActMoves

\* What the owner holds has succeeded; nobody who has is missing.
LEMMA HoldsAllStep ==
    ASSUME Typed, OwnerIsIssued, MembersOnly, NEW c \in Calls, WorksAlone(c),
           WorksAlone(c)', Acts(c),
           NoneTwice(c), HoldsAll(c), Owns(c)
    PROVE  HoldsAll(c)'
<1> USE DEF HoldsAll
<1>a. NewWork.pc = "idle" /\ [NewWork EXCEPT !.pc = "queued"].pc = "queued"
  BY DEF NewWork
<1>b. /\ Succeeded \subseteq Members /\ call[c].sub \in Nat \ {0} /\ Parts \subseteq Nat \ {0}
      /\ part \in [Parts -> Store!RowStatus \cup {"absent"}]
      /\ Len(plan.profiles) \in Nat
  BY Records, PlanFacts DEF Typed, Store!TypeOK, CallRecord, Succeeded, MembersOnly
<1>f. plan' = plan /\ \A p \in Parts : p \in Nat /\ p >= 1
  BY ActStore DEF StoreStep, Parts
<1>c. /\ Idle(c)' => Answered(c)' = {}
      /\ Idle(c) => Answered(c) = {}
  BY DEF Idle, Answered
<1>d. /\ call'[c].pc \in Alone => Idle(c)'
      /\ call[c].pc \in Alone => Idle(c)
  BY DEF WorksAlone
<1>e. \A q \in Parts : work'[c][q] \in {work[c][q], NewWork} =>
         (q \in Answered(c)' => q \in Answered(c))
  BY <1>a DEF Answered
<1>1. CASE ArrivingView(c) \/ SettleView(c)
  <2>1. Answered(c)' = {}
    BY <1>1, <1>c, <1>d DEF ArrivingView, SettleView, Alone, Arriving, Idle
  <2>2. call'[c].pc \notin InHand
    BY <1>1 DEF ArrivingView, SettleView, Exits, InHand
  <2>3. QED
    BY <2>1, <2>2
<1>2. CASE OpenView(c)
  <2>1. Answered(c)' = {} /\ UNCHANGED part
    BY <1>2, <1>c, <1>d DEF OpenView, Alone, Arriving, Idle, Walks
  <2>2. call'[c].pc \in InHand => call'[c].pc = "prepare" /\ call'[c].held = {} /\ call'[c].sub = 1
    BY <1>2 DEF OpenView, Exits, InHand, Walks, Keeps, WorksAlone, Arriving
  <2>3. \A p \in Succeeded : p >= 1
    BY <1>f DEF Succeeded
  <2>4. QED
    BY <1>f, <2>1, <2>2, <2>3 DEF Succeeded
<1>3. CASE PrepareView(c)
  <2>0. Answered(c)' = {} /\ Answered(c) = {} /\ call[c].pc \in InHand
    BY <1>3, <1>c, <1>d DEF PrepareView, Alone, Idle, InHand
  <2>1. CASE Walks(c, Exits) /\ UNCHANGED part
    BY <2>0, <2>1 DEF Walks, Exits, InHand
  <2>2. CASE Walks(c, {"budget"}) /\ call[c].sub \notin Members /\ UNCHANGED part
    <3>1. \A p \in Members : ~(p >= call[c].sub)
      BY <1>b, <2>2 DEF Members
    <3>2. Succeeded' = Succeeded /\ call'[c].held = call[c].held
      BY <2>2 DEF Succeeded, Walks, Keeps
    <3>3. call'[c].pc = "budget" /\ call[c].pc = "prepare"
      BY <1>3, <2>2 DEF Walks, PrepareView
    <3>4. \A p \in Succeeded : ~(p >= call[c].sub)
      BY <1>b, <3>1
    <3>5. QED
      BY <1>f, <2>0, <3>2, <3>3, <3>4
  <2>3. CASE /\ call'[c].pc = "prepare" /\ call[c].sub \in Members
             /\ part[call[c].sub] = "succeeded" /\ UNCHANGED part
             /\ call'[c].held = call[c].held \cup {call[c].sub}
             /\ call'[c].sub = IF plan.strategy = "first-success"
                               THEN Len(plan.profiles) + 1 ELSE call[c].sub + 1
    <3>0. Succeeded' = Succeeded /\ plan' = plan /\ call[c].sub \in Succeeded
      <4>1. Members \subseteq Parts
        BY PlanFacts DEF Typed
      <4>2. QED
        BY <1>f, <2>3, <4>1 DEF Succeeded
    <3>1. \A p \in Succeeded : p >= call[c].sub => p = call[c].sub \/ p >= call[c].sub + 1
      BY <1>b, <1>f DEF Succeeded
    <3>2. plan.strategy = "all" => call'[c].sub = call[c].sub + 1
      BY <2>3
    <3>3. QED
      BY <2>0, <2>3, <3>0, <3>1, <3>2
  <2>4. CASE /\ call'[c].pc = "prepare" /\ call[c].sub \in Members
             /\ part[call[c].sub] # "succeeded"
             /\ UNCHANGED part \/ part' = [part EXCEPT ![call[c].sub] = "pending"]
             /\ call'[c].held = call[c].held /\ call'[c].sub = call[c].sub + 1
    <3>1. Succeeded' = Succeeded
      BY <1>b, <2>4 DEF Succeeded
    <3>2. \A p \in Succeeded : p >= call[c].sub => p >= call[c].sub + 1
      <4>1. \A p \in Succeeded : p # call[c].sub /\ p \in Nat
        BY <1>f, <2>4 DEF Succeeded
      <4>2. call[c].sub \in Nat
        BY <1>b
      <4>3. QED
        BY <4>1, <4>2
    <3>3. QED
      BY <1>f, <2>0, <2>4, <3>1, <3>2
  <2>5. QED
    BY <1>3, <2>1, <2>2, <2>3, <2>4 DEF PrepareView
<1>4. CASE BudgetView(c)
  <2>1. Answered(c)' = {} /\ Answered(c) = {} /\ Succeeded' = Succeeded
    BY <1>4, <1>a, <1>c, <1>d DEF BudgetView, Alone, Answered, Succeeded, rowVars, Idle
  <2>2. QED
    BY <1>4, <1>f, <2>1 DEF BudgetView, Keeps, InHand
<1>5. ASSUME NEW p \in Parts, TakesOutcome(c, p), UNCHANGED part,
             call[c].pc \in {"waiting", "serving"}, call'[c].pc # "prepare"
      PROVE  HoldsAll(c)'
  <2>1. Answered(c)' = Answered(c) \ {p} /\ Succeeded' = Succeeded
    BY <1>5, <1>a DEF TakesOutcome, Answered, Succeeded
  <2>2. p \in Answered(c) <=> work[c][p].answer.ok
    BY <1>5 DEF TakesOutcome, Answered
  <2>3. call[c].pc \in InHand
    BY <1>5 DEF InHand
  <2>4. call'[c].held = IF work[c][p].answer.ok THEN call[c].held \cup {p} ELSE call[c].held
    BY <1>5 DEF TakesOutcome
  <2>5. QED
    BY <1>5, <1>f, <2>1, <2>2, <2>3, <2>4
<1>6. CASE WaitView(c)
  <2>1. CASE call'[c].pc \in Exits /\ \A q \in Parts : work'[c][q] \in {work[c][q], NewWork}
    <3>1. Answered(c)' \subseteq Answered(c) /\ Succeeded' = Succeeded
      BY <1>6, <1>e, <2>1 DEF WaitView, rowVars, Succeeded, Answered
    <3>2. QED
      BY <2>1, <3>1 DEF Exits, InHand
  <2>2. CASE Walks(c, {"reduce"}) /\ Pending(c) = {}
    <3>1. Answered(c)' = Answered(c) /\ Succeeded' = Succeeded
      BY <1>6, <2>2 DEF WaitView, rowVars, Succeeded, Answered, Walks
    <3>2. QED
      BY <1>6, <1>f, <2>2, <3>1 DEF WaitView, InHand, Walks, Keeps
  <2>3. QED
    BY <1>5, <1>6, <2>1, <2>2 DEF WaitView, rowVars
<1>7. CASE SerialView(c)
  <2>1. Answered(c)' = Answered(c) /\ Succeeded' = Succeeded
    BY <1>7, <1>a, <1>d DEF SerialView, Answered, Succeeded, rowVars, Alone, Idle
  <2>2. QED
    BY <1>7, <1>f, <2>1 DEF SerialView, InHand
<1>8. CASE ServeView(c)
  <2>1. CASE call'[c].pc \in Exits /\ \A q \in Parts : work'[c][q] \in {work[c][q], NewWork}
    <3>1. Answered(c)' \subseteq Answered(c) /\ Succeeded' = Succeeded
      BY <1>8, <1>e, <2>1 DEF ServeView, rowVars, Succeeded, Answered
    <3>2. QED
      BY <2>1, <3>1 DEF Exits, InHand
  <2>2. call[c].sub \in Parts
    BY <1>8 DEF ServeView, Typed, CallTyped
  <2>3. QED
    BY <1>5, <1>8, <2>1, <2>2 DEF ServeView, rowVars
<1>9. CASE ConcludeView(c)
  <2>1. Answered(c)' = {}
    BY <1>9, <1>c, <1>d DEF ConcludeView, Alone, Idle
  <2>2. call'[c].pc \notin InHand
    BY <1>9 DEF ConcludeView, Walks, Exits, InHand
  <2>3. QED
    BY <2>1, <2>2
<1>10. CASE LeavingView(c)
  <2>1. Answered(c)' \subseteq Answered(c)
    BY <1>10, <1>e DEF LeavingView, Answered
  <2>2. Succeeded' = Succeeded
    BY <1>10, CancelRows DEF LeavingView, Succeeded
  <2>3. call'[c].pc \notin InHand
    BY <1>10 DEF LeavingView, Exits, InHand
  <2>4. QED
    BY <2>1, <2>2, <2>3
<1>11. ASSUME NEW p \in Parts, ThreadView(c, p) PROVE HoldsAll(c)'
  <2>1. ThreadSaw(c, p) /\ call' = call /\ plan' = plan
    BY <1>11, <1>f, ThreadRows DEF ThreadView, NoneTwice
  <2> DEFINE done == work[c][p].pc = "attempted" /\ work'[c][p].pc = "done"
  <2>2. CASE ~done
    <3>1. Succeeded' = Succeeded
      BY <2>1, <2>2 DEF ThreadSaw, Succeeded
    <3>2. Answered(c)' = Answered(c)
      BY <1>11, <2>2 DEF ThreadView, Answered, Active
    <3>3. QED
      BY <2>1, <3>1, <3>2
  <2>3. CASE done
    <3>1. part[p] # "succeeded"
      BY <2>3 DEF Threads, Active, NoneTwice
    <3>2. part'[p] = Outcome(c, p) /\ work'[c][p].answer = work[c][p].answer
          /\ \A q \in Parts \ {p} : part'[q] = part[q] /\ work'[c][q] = work[c][q]
      BY <1>11, <2>1, <2>3 DEF ThreadSaw, ThreadView
    <3>3. CASE work[c][p].answer.ok
      <4>1. Succeeded' = Succeeded \cup {p} /\ Answered(c)' = Answered(c) \cup {p}
        BY <2>3, <3>2, <3>3 DEF Succeeded, Answered, Outcome
      <4>2. QED
        BY <2>1, <4>1
    <3>4. CASE ~work[c][p].answer.ok
      <4>1. Succeeded' = Succeeded /\ Answered(c)' = Answered(c)
        BY <2>3, <3>1, <3>2, <3>4 DEF Succeeded, Answered, Outcome
      <4>2. QED
        BY <2>1, <4>1
    <3>5. QED
      BY <3>3, <3>4
  <2>4. QED
    BY <2>2, <2>3
<1>12. QED
  BY <1>1, <1>2, <1>3, <1>4, <1>6, <1>7, <1>8, <1>9, <1>10, <1>11, ActMoves

\* A verdict of success is earned by what the call holds.
LEMMA VerdictIsEarnedThen ==
    ASSUME Typed, NEW c \in Calls, call[c].held \subseteq Succeeded,
           plan.strategy = "all" => Succeeded \subseteq call[c].held, Verdict(c).ok
    PROVE  Earned(Verdict(c))
<1> DEFINE held == call[c].held
<1>a. /\ held \subseteq Parts /\ IsFiniteSet(Parts) /\ IsFiniteSet(held)
      /\ Cardinality(held) \in Nat
      /\ plan.minS \in Nat /\ plan.minA \in Nat /\ held \subseteq Succeeded
  <2>1. held \subseteq Parts /\ IsFiniteSet(Parts)
    BY NumbersAssumption, FS_Interval DEF Typed, CallRecord, Parts
  <2>2. QED
    BY <2>1, FS_Subset, FS_CardinalityType, PlanFacts DEF Typed
<1>1. ~(Cardinality(held) < plan.minS) /\ Verdict(c) = Reduce(held, res)
  BY DEF Verdict, Blocked
<1> DEFINE v == Verdict(c)
<1>2. v.from = held
  BY <1>1 DEF Reduce
<1>3. plan.phase = "reviewer" /\ v.status = "approved" => ReviewApproves(held, res)
  BY <1>1 DEF Reduce
<1>4. plan.phase # "reviewer" => ~AnyBlocks(held, res)
  <2>1. plan.phase = "architect" => Reduce(held, res).ok = ArchitectureHolds(held, res)
    BY DEF Reduce
  <2>2. plan.phase \notin {"architect", "reviewer"} =>
          Reduce(held, res).ok = (~AnyBlocks(held, res) /\ Cardinality(held) >= plan.minS)
    BY DEF Reduce
  <2>3. Reduce(held, res).ok
    BY <1>1
  <2>4. QED
    BY <2>1, <2>2, <2>3 DEF ArchitectureHolds
<1>5. ASSUME ReviewApproves(held, res)
      PROVE  Cardinality({p \in held : res[p].vote \in {"approved", ""}}) >= plan.minA
  <2> DEFINE A == {p \in held : Approving(res[p])}
             B == {p \in held : res[p].vote \in {"approved", ""}}
  <2>1. A \subseteq B /\ B \subseteq held
    BY DEF Approving
  <2>2. IsFiniteSet(B) /\ Cardinality(A) <= Cardinality(B)
    BY <1>a, <2>1, FS_Subset
  <2>3. Cardinality(A) \in Nat /\ Cardinality(B) \in Nat
    BY <2>1, <2>2, FS_Subset, FS_CardinalityType
  <2>4. Cardinality(A) >= plan.minA
    BY <1>5 DEF ReviewApproves, Approvals
  <2> HIDE DEF A, B
  <2>5. Cardinality(B) >= plan.minA
    BY <1>a, <2>2, <2>3, <2>4
  <2>6. QED
    BY <2>5 DEF B
<1>6. plan.phase # "reviewer" => \A p \in held : ~res[p].blockers
  BY <1>4 DEF AnyBlocks, Blocking
<1>7. plan.strategy = "all" => held = Succeeded
  BY <1>a
<1>8. Cardinality(held) >= plan.minS
  BY <1>a, <1>1
<1> HIDE DEF v, held
<1>9. QED
  BY <1>a, <1>2, <1>3, <1>5, <1>6, <1>7, <1>8 DEF Earned, v

\* What the owner is about to write was decided from the rows as they are.
LEMMA DecidedStep ==
    ASSUME Typed, OwnerIsIssued, NEW c \in Calls, WorksAlone(c), WorksAlone(c)', Acts(c),
           NoneTwice(c), HoldsAll(c), Decided(c), Owns(c)
    PROVE  Decided(c)'
<1> USE DEF Decided
<1>a. plan' = plan
  BY ActStore DEF StoreStep
<1>1. CASE ArrivingView(c) \/ SettleView(c) \/ OpenView(c) \/ PrepareView(c)
  BY <1>1 DEF ArrivingView, SettleView, OpenView, PrepareView, Walks, Exits
<1>2. CASE BudgetView(c)
  BY <1>2 DEF BudgetView, Blocked
<1>3. CASE WaitView(c) \/ SerialView(c) \/ ServeView(c) \/ LeavingView(c)
  BY <1>3 DEF WaitView, SerialView, ServeView, LeavingView, Walks, Exits
<1>4. CASE ConcludeView(c)
  <2>1. CASE call[c].pc = "reduce"
    <3>1. /\ call'[c].out = Verdict(c) /\ UNCHANGED <<part, res>>
          /\ call'[c].pc = IF Verdict(c).ok THEN "succeed" ELSE "fail"
      BY <1>4, <2>1 DEF ConcludeView
    <3>2. Answered(c) = {}
      BY <2>1 DEF WorksAlone, Alone, Idle, Answered
    <3>3. /\ call[c].held \subseteq Succeeded
          /\ plan.strategy = "all" => Succeeded \subseteq call[c].held
      BY <2>1, <3>2 DEF HoldsAll, InHand
    <3>4. Verdict(c).ok => Earned(Verdict(c))
      BY <3>3, VerdictIsEarnedThen
    <3>5. QED
      BY <1>a, <3>1, <3>4 DEF Earned, Succeeded
  <2>2. CASE call[c].pc \in {"succeed", "fail", "deliver"}
    BY <1>4, <2>2 DEF ConcludeView, Walks, Exits
  <2>3. QED
    BY <1>4, <2>1, <2>2 DEF ConcludeView
<1>5. ASSUME NEW p \in Parts, ThreadView(c, p) PROVE Decided(c)'
  <2>1. call' = call /\ UNCHANGED out
    BY <1>5 DEF ThreadView
  <2>2. CASE call[c].pc = "succeed"
    <3>1. work[c][p].pc = "idle"
      BY <2>2 DEF WorksAlone, Alone, Idle
    <3>2. UNCHANGED <<part, res>>
      BY <1>5, <3>1 DEF ThreadView, Active
    <3>3. QED
      BY <1>a, <2>1, <2>2, <3>2 DEF Earned, Succeeded
  <2>3. QED
    BY <2>1, <2>2
<1>6. QED
  BY <1>1, <1>2, <1>3, <1>4, <1>5, ActMoves

-----------------------------------------------------------------------------
(* What is settled stays. *)

\* Success is not taken back, whoever moves: neither that of a participant, with
\* its result and its attempts, nor that of the step, with its output.
SettledStay ==
    /\ Succeeded \subseteq Succeeded'
    /\ \A p \in Succeeded : res'[p] = res[p] /\ Len(att'[p]) = Len(att[p])
    /\ step[S] = "succeeded" =>
         step'[S] = "succeeded" /\ Succeeded' = Succeeded /\ out' = out

\* No action of a call touches an answer once settled.
LEMMA ActSettled ==
    ASSUME IInv, NEW c \in Calls, Acts(c)
    PROVE  SettledStay
<1> USE DEF SettledStay
<1>a. Typed /\ OwnerIsIssued /\ WorksAlone(c)
  BY DEF IInv
<1>b. part \in [Parts -> Store!RowStatus \cup {"absent"}] /\ Members \subseteq Parts
  BY <1>a, PlanFacts DEF Typed, Store!TypeOK
<1>c. Holds(c) => StepIsOpen(c) /\ NoneTwice(c) /\ Owns(c)
  BY <1>a, HolderFacts DEF IInv, OwnerKnows
<1>d. step[S] = "succeeded" => step'[S] = "succeeded"
  <2>1. Store!Next \/ UNCHANGED storeVars
    BY <1>a, ActStore DEF StoreStep, FencedWrite, LeaseMove
  <2>2. Rows!TypeOK /\ [Rows!Next]_Rows!vars
    BY <1>a, <2>1, RowsAreTheStore DEF Typed
  <2>3. Rows!SettledKept
    BY <2>2, Rows!SettledStep, Assumptions
  <2>4. QED
    BY <2>3 DEF Rows!SettledKept, S
<1>1. CASE UNCHANGED <<part, att, res, out>>
  BY <1>1, <1>d DEF Succeeded
<1>2. CASE SettleView(c)
  BY <1>a, <1>d, <1>1, <1>2, ResetRows DEF SettleView, Succeeded
<1>3. CASE PrepareView(c)
  <2>1. CASE UNCHANGED part
    BY <1>1, <1>3, <2>1 DEF PrepareView
  <2>2. CASE /\ part[call[c].sub] # "succeeded" /\ call[c].sub \in Members
             /\ part' = [part EXCEPT ![call[c].sub] = "pending"]
    <3>1. Succeeded' = Succeeded
      BY <1>b, <2>2 DEF Succeeded
    <3>2. QED
      BY <1>3, <1>d, <3>1 DEF PrepareView
  <2>3. QED
    BY <1>3, <2>1, <2>2 DEF PrepareView
<1>4. CASE ConcludeView(c)
  <2>1. CASE UNCHANGED out
    BY <1>1, <1>4, <2>1 DEF ConcludeView
  <2>2. CASE Holds(c) /\ call[c].pc \in {"succeed", "fail"}
    <3>1. step[S] # "succeeded"
      BY <1>c, <2>2 DEF StepIsOpen, InPhase
    <3>2. QED
      BY <1>4, <3>1 DEF ConcludeView, Succeeded
  <2>3. QED
    BY <1>4, <2>1, <2>2 DEF ConcludeView
<1>5. CASE LeavingView(c)
  <2>1. CASE Store!FinalizeCancellation(Tok(c))
    BY <1>5, <1>a, <1>d, <2>1, CancelRows DEF LeavingView, Succeeded
  <2>2. QED
    BY <1>1, <1>5, <2>1 DEF LeavingView
<1>6. ASSUME NEW p \in Parts, ThreadView(c, p) PROVE SettledStay
  <2>1. ThreadSaw(c, p)
    BY <1>6, <1>a, <1>c, ThreadRows DEF NoneTwice
  <2>2. CASE UNCHANGED <<part, att, res>>
    BY <1>1, <1>6, <2>2 DEF ThreadView
  <2>3. CASE ~UNCHANGED <<part, att, res>>
    <3>1. p \in Threads(c) /\ Holds(c) /\ part[p] # "succeeded"
      BY <2>1, <2>3 DEF ThreadSaw
    <3>2. ~Idle(c)
      BY <3>1 DEF Threads, Idle, Active
    <3>3. step[S] # "succeeded"
      BY <1>c, <3>1, <3>2 DEF StepIsOpen
    <3>4. \A q \in Succeeded : q \in Parts \ {p}
      BY <3>1 DEF Succeeded
    <3>5. QED
      BY <2>1, <3>3, <3>4 DEF ThreadSaw, Succeeded
  <2>4. QED
    BY <2>2, <2>3
<1>7. CASE ArrivingView(c) \/ OpenView(c) \/ BudgetView(c) \/ WaitView(c) \/ SerialView(c)
           \/ ServeView(c)
  BY <1>1, <1>7
  DEF ArrivingView, OpenView, BudgetView, WaitView, SerialView, ServeView, rowVars
<1>8. QED
  BY <1>a, <1>2, <1>3, <1>4, <1>5, <1>6, <1>7, ActMoves

\* Nor does anything else.
LEMMA OtherSettled ==
    ASSUME Typed, Other
    PROVE  SettledStay /\ UNCHANGED plan
<1>1. CASE Recover
  BY <1>1, RecoverRows DEF SettledStay, Succeeded
<1>2. CASE ~Recover
  <2>1. UNCHANGED <<step, part, att, res, out, plan>>
    BY <1>2 DEF Other, Cancel, LeaseExpires, Crash, BackfillScan, BackfillWrite, SameStore,
                SameRest, storeVars, Store!RequestCancellation, Store!LeaseExpires
  <2>2. QED
    BY <2>1 DEF SettledStay, Succeeded
<1>3. QED
  BY <1>1, <1>2

\* A verdict that was earned stays so with the rows it rests on.
LEMMA EarnedStays ==
    ASSUME Earned(out), UNCHANGED <<out, plan>>, Succeeded' = Succeeded,
           \A p \in Succeeded : res'[p] = res[p]
    PROVE  Earned(out)'
<1>1. out.from \subseteq Succeeded /\ out' = out
  BY DEF Earned
<1>2. {p \in out'.from : res'[p].vote \in {"approved", ""}} =
      {p \in out.from : res[p].vote \in {"approved", ""}}
  BY <1>1
<1>3. QED
  BY <1>1, <1>2 DEF Earned

\* The verdict of a phase stays earned.
LEMMA EarnedStep ==
    ASSUME IInv, NEW c \in Calls, Acts(c)
    PROVE  VerdictIsEarned'
<1> USE DEF VerdictIsEarned
<1>a. Typed /\ OwnerIsIssued /\ SettledStay /\ UNCHANGED plan
  BY ActSettled, ActStore DEF IInv, StoreStep
<1>1. CASE step[S] = "succeeded"
  BY <1>1, <1>a, EarnedStays DEF IInv, SettledStay
<1>2. CASE step[S] # "succeeded"
  <2>1. SUFFICES ASSUME step'[S] = "succeeded" PROVE Earned(out)'
    OBVIOUS
  <2>2. CASE ConcludeView(c)
    <3>1. /\ call[c].pc = "succeed" /\ Holds(c) /\ out' = call[c].out
          /\ UNCHANGED <<part, res>>
      BY <1>2, <2>1, <2>2 DEF ConcludeView
    <3>2. Earned(call[c].out)
      BY <1>a, <3>1, HolderFacts DEF IInv, OwnerKnows, Decided
    <3>3. QED
      BY <1>a, <3>1, <3>2 DEF Earned, Succeeded
  <2>3. CASE ~ConcludeView(c)
    BY <1>2, <1>a, <2>1, <2>3, ActMoves, ResetRows, CancelRows
    DEF ArrivingView, SettleView, OpenView, PrepareView, BudgetView, WaitView, SerialView,
        ServeView, LeavingView, ThreadView, rowVars
  <2>4. QED
    BY <2>2, <2>3
<1>3. QED
  BY <1>1, <1>2

\* What was published stays the output of a step that succeeded.
LEMMA HonestStep ==
    ASSUME IInv, NEW c \in Calls, Acts(c)
    PROVE  OutputIsHonest'
<1> USE DEF OutputIsHonest
<1>a. /\ Typed /\ OwnerIsIssued /\ SettledStay /\ UNCHANGED reader /\ OutputIsHonest
      /\ Holds(c) => StepIsOpen(c) /\ Decided(c)
  BY ActSettled, ActStore, HolderFacts DEF IInv, StoreStep, OwnerKnows
<1>1. CASE UNCHANGED <<out, deliv>>
  <2>1. \A o \in {deliv, reader, out} : o.ok => step'[S] = "succeeded"
    BY <1>a DEF SettledStay
  <2>2. QED
    BY <1>1, <1>a, <2>1
<1>2. CASE Holds(c) /\ call[c].pc \in {"succeed", "fail"} /\ out' = call[c].out
           /\ UNCHANGED deliv
           /\ step'[S] = IF call[c].pc = "succeed" THEN "succeeded" ELSE "failed"
  <2>1. step[S] # "succeeded"
    BY <1>2, <1>a DEF StepIsOpen, InPhase
  <2>2. call[c].pc = "fail" => ~out'.ok
    BY <1>2, <1>a DEF Decided
  <2>3. QED
    BY <1>2, <1>a, <2>1, <2>2
<1>3. CASE Holds(c) /\ call[c].pc = "deliver" /\ deliv' = call[c].out /\ UNCHANGED <<step, out>>
  <2>1. deliv' = out
    BY <1>3, <1>a DEF Decided
  <2>2. QED
    BY <1>3, <1>a, <2>1
<1>4. CASE ConcludeView(c)
  BY <1>1, <1>2, <1>3, <1>4 DEF ConcludeView
<1>5. CASE ~ConcludeView(c)
  BY <1>1, <1>5, <1>a, ActMoves
  DEF ArrivingView, SettleView, OpenView, PrepareView, BudgetView, WaitView, SerialView,
      ServeView, LeavingView, ThreadView, rowVars
<1>6. QED
  BY <1>4, <1>5

\* Only members of the plan get a row.
LEMMA MembersStep ==
    ASSUME IInv, NEW c \in Calls, Acts(c)
    PROVE  MembersOnly'
<1> USE DEF MembersOnly
<1>a. /\ Typed /\ OwnerIsIssued /\ UNCHANGED plan /\ MembersOnly
      /\ part \in [Parts -> Store!RowStatus \cup {"absent"}]
      /\ Members' = Members
  BY ActStore DEF IInv, StoreStep, Typed, Store!TypeOK, Members
<1>b. Holds(c) => NoneTwice(c)
  BY HolderFacts DEF IInv, OwnerKnows
<1>1. CASE UNCHANGED part
  BY <1>1, <1>a
<1>2. CASE \A p \in Parts : part[p] = "absent" => part'[p] = "absent"
  BY <1>2, <1>a
<1>3. CASE PrepareView(c)
  BY <1>3, <1>a DEF PrepareView
<1>4. ASSUME NEW p \in Parts, ThreadView(c, p) PROVE MembersOnly'
  <2>1. ThreadSaw(c, p)
    BY <1>4, <1>a, <1>b, ThreadRows DEF NoneTwice
  <2>2. QED
    BY <1>2, <2>1 DEF ThreadSaw
<1>5. QED
  BY <1>1, <1>2, <1>3, <1>4, <1>a, ActMoves, ResetRows, CancelRows
  DEF ArrivingView, SettleView, OpenView, BudgetView, WaitView, SerialView,
      ServeView, ConcludeView, LeavingView, rowVars

-----------------------------------------------------------------------------
(* The invariant, and what follows. *)

\* What an owner knows stays true while neither it nor the rows move.
LEMMA OwnerUnmoved ==
    ASSUME NEW d \in Calls, call'[d] = call[d], work'[d] = work[d],
           UNCHANGED <<step, part, res, out, plan>>,
           StepIsOpen(d), NoneTwice(d), HoldsAll(d), Decided(d)
    PROVE  (StepIsOpen(d) /\ NoneTwice(d) /\ HoldsAll(d) /\ Decided(d))'
<1>1. StepIsOpen(d)'
  BY DEF StepIsOpen, Idle
<1>2. NoneTwice(d)'
  BY DEF NoneTwice, Threads, Listed, InTodo
<1>3. HoldsAll(d)'
  BY DEF HoldsAll, Answered, Succeeded
<1>4. Decided(d)'
  BY DEF Decided, Earned, Succeeded
<1>5. QED
  BY <1>1, <1>2, <1>3, <1>4

\* The invariant is kept by every action of a call ...
LEMMA ActInv == ASSUME IInv, NEW c \in Calls, Acts(c) PROVE IInv'
<1>1. /\ Typed /\ OwnerIsIssued /\ MembersOnly /\ \A d \in Calls : WorksAlone(d)
      /\ \A d \in Calls : Owns(d) => StepIsOpen(d) /\ NoneTwice(d) /\ HoldsAll(d) /\ Decided(d)
  BY DEF IInv, OwnerKnows
<1>2. [Next]_vars
  BY DEF Acts, Next
<1>3. Typed' /\ OwnerIsIssued' /\ StoreStep(c)
  BY <1>1, <1>2, StepTyped, ActStore
<1>4. ASSUME NEW d \in Calls PROVE WorksAlone(d)'
  <2>1. CASE d = c
    BY <1>1, <2>1, AloneStep
  <2>2. CASE d # c
    BY <1>1, <1>3, <2>2 DEF StoreStep, WorksAlone, Idle
  <2>3. QED
    BY <2>1, <2>2
<1>5. ASSUME NEW d \in Calls, Owns(d)'
      PROVE  (StepIsOpen(d) /\ NoneTwice(d) /\ HoldsAll(d) /\ Decided(d))'
  <2>1. CASE d # c
    <3>1. /\ Owns(d) /\ call'[d] = call[d] /\ work'[d] = work[d]
          /\ UNCHANGED <<step, part, att, res, out, deliv, plan, reader>>
      BY <1>3, <1>5, <2>1, OthersStay DEF rowVars
    <3>2. QED
      BY <1>1, <3>1, OwnerUnmoved
  <2>2. CASE d = c /\ Owns(c)
    BY <1>1, <1>3, <1>4, <2>2, StepIsOpenStep, NoneTwiceStep, HoldsAllStep, DecidedStep
  <2>3. CASE d = c /\ JustArrived(c)
    <3>1. call[c].todo = <<>> /\ call'[c].pc = "acquired" /\ Idle(c)'
      BY <1>1, <2>3 DEF JustArrived, WorksAlone, Alone, Arriving, Idle
    <3>2. Threads(c)' = {} /\ Answered(c)' = {} /\ Listed(c)' = {}
      BY <3>1 DEF Idle, Threads, Answered, Listed, Active
    <3>3. QED
      BY <2>3, <3>1, <3>2 DEF StepIsOpen, NoneTwice, HoldsAll, Decided, InPhase, InHand
  <2>4. QED
    BY <1>1, <1>3, <1>5, <2>1, <2>2, <2>3, OwnsBefore
<1>6. QED
  BY <1>3, <1>4, <1>5, EarnedStep, HonestStep, MembersStep DEF IInv, OwnerKnows

\* ... and by recovery, clients, time and crashes.
LEMMA OtherInv == ASSUME IInv, Other PROVE IInv'
<1>1. /\ Typed /\ OwnerIsIssued /\ MembersOnly /\ \A d \in Calls : WorksAlone(d)
      /\ \A d \in Calls : Owns(d) => StepIsOpen(d) /\ NoneTwice(d) /\ HoldsAll(d) /\ Decided(d)
  BY DEF IInv, OwnerKnows
<1>2. [Next]_vars
  BY DEF Other, Next
<1>3. Typed' /\ OwnerIsIssued' /\ SettledStay /\ UNCHANGED plan
  BY <1>1, <1>2, StepTyped, OtherSettled
<1>4. ASSUME NEW d \in Calls, Owns(d)'
      PROVE  (StepIsOpen(d) /\ NoneTwice(d) /\ HoldsAll(d) /\ Decided(d))'
  <2>1. /\ Owns(d) /\ call' = call /\ work' = work
        /\ UNCHANGED <<step, part, att, res, out, plan>>
    BY <1>1, <1>3, <1>4, OwnsBeforeOther
  <2>2. QED
    BY <1>1, <2>1, OwnerUnmoved
<1>5. MembersOnly'
  <2>1. \A p \in Parts : part[p] = "absent" => part'[p] = "absent"
    <3>1. CASE Recover
      BY <1>1, <3>1, RecoverRows
    <3>2. CASE ~Recover
      BY <3>2 DEF Other, Cancel, LeaseExpires, Crash, BackfillScan, BackfillWrite, SameStore,
                  storeVars, Store!RequestCancellation, Store!LeaseExpires
    <3>3. QED
      BY <3>1, <3>2
  <2>2. QED
    BY <1>1, <1>3, <2>1 DEF MembersOnly, Members
<1>6. VerdictIsEarned'
  <2>1. CASE Recover
    BY <1>1, <1>3, <2>1, RecoverRows, EarnedStays DEF VerdictIsEarned, IInv, SettledStay
  <2>2. CASE ~Recover
    <3>1. UNCHANGED <<step, part, res, out>>
      BY <2>2 DEF Other, Cancel, LeaseExpires, Crash, BackfillScan, BackfillWrite, SameStore,
                  SameRest, storeVars, Store!RequestCancellation, Store!LeaseExpires
    <3>2. QED
      BY <1>3, <3>1 DEF VerdictIsEarned, IInv, Earned, Succeeded
  <2>3. QED
    BY <2>1, <2>2
<1>7. OutputIsHonest'
  <2>1. \A o \in {deliv, reader, out} : o.ok => step'[S] = "succeeded" /\ o = out /\ out' = out
    BY <1>3 DEF SettledStay, OutputIsHonest, IInv
  <2>2. CASE UNCHANGED <<out, deliv, reader>>
    BY <2>1, <2>2 DEF OutputIsHonest
  <2>3. CASE BackfillScan
    <3>1. Legacy(out).ok => Legacy(out) = out
      <4>1. [NoOutput EXCEPT !.status = "unavailable"].ok = FALSE
        BY DEF NoOutput
      <4>2. QED
        BY <4>1 DEF Legacy
    <3>2. reader' = Legacy(out) /\ UNCHANGED <<out, deliv>>
      BY <2>3 DEF BackfillScan
    <3>3. reader'.ok => reader' = out /\ out.ok
      BY <3>1, <3>2
    <3>4. QED
      BY <2>1, <3>2, <3>3 DEF OutputIsHonest
  <2>4. CASE BackfillWrite
    <3>1. ~HasRead.ok
      BY DEF HasRead, NoOutput
    <3>2. QED
      BY <2>1, <2>4, <3>1 DEF BackfillWrite, OutputIsHonest
  <2>5. QED
    BY <2>2, <2>3, <2>4 DEF Other, Cancel, LeaseExpires, Crash, Recover, SameRest, SameFacts
<1>8. QED
  BY <1>1, <1>3, <1>4, <1>5, <1>6, <1>7, AloneOther DEF IInv, OwnerKnows

\* It holds of a run just created.
LEMMA InitInv == Init => IInv
<1> SUFFICES ASSUME Init PROVE IInv
  OBVIOUS
<1>1. Typed /\ OwnerIsIssued
  BY InitTyped
<1>2. /\ \A p \in Parts : part[p] = "absent" /\ step[S] = "absent"
      /\ lease.owner = NoOwner
  BY DEF Init, Store!Init
<1>3. /\ NewCall.pc = "new" /\ NewCall.epoch = 0 /\ NewCall.todo = <<>> /\ NewCall.sub = 1
      /\ NewCall.held = {} /\ \A p \in Parts : NoWork[p].pc = "idle"
  BY DEF NewCall, NoWork, NewWork
<1>4. \A c \in Calls : call[c] = NewCall /\ work[c] = NoWork
  BY DEF Init
<1>5. \A c \in Calls : WorksAlone(c)
  BY <1>3, <1>4 DEF WorksAlone, Alone, Arriving, Idle
<1>6. OwnerKnows
  BY <1>2, CallsAssumption DEF OwnerKnows, Owns
<1>7. ~out.ok /\ ~deliv.ok /\ ~reader.ok /\ step[S] # "succeeded"
  <2>1. step[S] = "absent"
    BY DEF Init, Store!Init
  <2>2. QED
    BY <2>1 DEF Init, NoOutput, NotRead
<1>8. QED
  BY <1>1, <1>2, <1>5, <1>6, <1>7 DEF IInv, MembersOnly, VerdictIsEarned, OutputIsHonest

\* It is inductive.
LEMMA StepInv == IInv /\ [Next]_vars => IInv'
<1>1. CASE UNCHANGED vars
  <2> SUFFICES ASSUME IInv, UNCHANGED vars PROVE IInv'
    BY <1>1
  <2>1. Typed' /\ OwnerIsIssued'
    BY StepTyped DEF IInv
  <2> USE DEF vars, storeVars
  <2>2. \A c \in Calls : WorksAlone(c)'
    BY DEF IInv, WorksAlone, Idle
  <2>3. OwnerKnows'
    BY OwnerUnmoved DEF IInv, OwnerKnows, Owns
  <2>4. MembersOnly' /\ VerdictIsEarned' /\ OutputIsHonest'
    BY DEF IInv, MembersOnly, Members, VerdictIsEarned, OutputIsHonest, Earned, Succeeded
  <2>5. QED
    BY <2>1, <2>2, <2>3, <2>4 DEF IInv
<1>2. QED
  BY <1>1, ActInv, OtherInv, Moves

\* The invariant holds of every reachable state of a phase.
THEOREM Invariance == Spec => []IInv
BY InitInv, StepInv, PTL DEF Spec

\* A phase that succeeded was decided by participants that did, with the verdict
\* their reports allow (reduce_phase, after any crashes and takeovers).
THEOREM VerdictsAreEarned == Spec => []VerdictIsEarned
<1>1. IInv => VerdictIsEarned
  BY DEF IInv
<1>2. QED
  BY <1>1, Invariance, PTL

\* What is published as the success of a phase is the output of a step that
\* succeeded, also when a client fills in a deliverable that is missing.
THEOREM DeliverablesAreHonest == Spec => []DeliverableIsHonest
<1>1. IInv => DeliverableIsHonest
  BY DEF IInv, OutputIsHonest, DeliverableIsHonest
<1>2. QED
  BY <1>1, Invariance, PTL

\* An answer once settled is never asked for again nor replaced.
THEOREM AnswersStay == Spec => SettledAnswersStay
<1>1. IInv /\ [Next]_vars =>
        [\A p \in Parts : part[p] = "succeeded" =>
           part'[p] = "succeeded" /\ res'[p] = res[p] /\ Len(att'[p]) = Len(att[p])]_vars
  <2> SUFFICES ASSUME IInv, [Next]_vars, ~UNCHANGED vars
               PROVE  \A p \in Parts : part[p] = "succeeded" =>
                        part'[p] = "succeeded" /\ res'[p] = res[p] /\ Len(att'[p]) = Len(att[p])
    OBVIOUS
  <2>1. SettledStay
    BY Moves, ActSettled, OtherSettled DEF IInv
  <2>2. QED
    BY <2>1 DEF SettledStay, Succeeded
<1>2. QED
  BY <1>1, Invariance, PTL DEF Spec, SettledAnswersStay

-----------------------------------------------------------------------------
(* The budget of attempts. *)

\* The rows that were there stay there, one for each attempt.
LEMMA SameRows ==
    ASSUME \A p \in Parts : DOMAIN att'[p] = DOMAIN att[p]
    PROVE  AttemptRows' = AttemptRows /\ Used' = Used
<1>1. AttemptRows' = AttemptRows
  BY DEF AttemptRows
<1>2. QED
  BY <1>1 DEF Used

\* A list one longer gives its participant one row more.
LEMMA OneRowMore ==
    ASSUME Typed, NEW c \in Calls, NEW p \in Parts, Store!CreateAttempt(Tok(c), p)
    PROVE  \E r : r \notin AttemptRows /\ AttemptRows' = AttemptRows \cup {r}
<1> DEFINE n == Len(att[p]) + 1
           a == [status |-> "dispatching", epoch |-> call[c].epoch]
<1>1. att \in [Parts -> Seq(Store!Attempt)] /\ att' = [att EXCEPT ![p] = Append(att[p], a)]
  BY DEF Typed, Store!TypeOK, Store!CreateAttempt, Tok
<1>2. att[p] \in Seq(Store!Attempt) /\ att'[p] = Append(att[p], a)
      /\ \A q \in Parts \ {p} : att'[q] = att[q]
  BY <1>1
<1> HIDE DEF a
<1>3. DOMAIN att'[p] = DOMAIN att[p] \cup {n} /\ n \notin DOMAIN att[p]
  BY <1>2
<1> HIDE DEF n
<1>4. \A q, i : <<q, i>> \in AttemptRows <=> q \in Parts /\ i \in DOMAIN att[q]
  BY DEF AttemptRows
<1>5. \A q, i : <<q, i>> \in AttemptRows' <=> q \in Parts /\ i \in DOMAIN att'[q]
  BY DEF AttemptRows
<1>6. /\ \A x \in AttemptRows : \E q, i : x = <<q, i>>
      /\ \A x \in AttemptRows' : \E q, i : x = <<q, i>>
  BY DEF AttemptRows
<1>7. <<p, n>> \notin AttemptRows
  BY <1>3, <1>4
<1>8. \A q, i : <<q, i>> \in AttemptRows' <=> <<q, i>> \in AttemptRows \/ (q = p /\ i = n)
  BY <1>2, <1>3, <1>4, <1>5
<1>9. AttemptRows' = AttemptRows \cup {<<p, n>>}
  BY <1>6, <1>8
<1>10. QED
  BY <1>7, <1>9

\* Nobody is dispatched twice by one list, so it names at most as many as it has.
LEMMA ListedAtMost ==
    ASSUME NEW s \in Seq(Parts)
    PROVE  LET T == {s[i] : i \in DOMAIN s}
           IN  IsFiniteSet(T) /\ Cardinality(T) <= Len(s) /\ Cardinality(T) \in Nat
<1> DEFINE T == {s[i] : i \in DOMAIN s}
           f == [i \in 1..Len(s) |-> s[i]]
<1>1. Len(s) \in Nat /\ DOMAIN s = 1..Len(s)
  OBVIOUS
<1>2. IsFiniteSet(1..Len(s)) /\ Cardinality(1..Len(s)) = Len(s)
  BY <1>1, FS_Interval
<1>3. f \in [1..Len(s) -> T] /\ \A t \in T : \E i \in 1..Len(s) : f[i] = t
  BY <1>1
<1>4. f \in Surjection(1..Len(s), T)
  BY <1>3 DEF Surjection
<1> HIDE DEF T, f
<1>5. IsFiniteSet(T) /\ Cardinality(T) <= Len(s)
  BY <1>2, <1>4, FS_Surjection
<1>6. QED
  BY <1>5, FS_CardinalityType DEF T

\* What threads are about to open is a finite set of participants.
LEMMA OpenSets ==
    ASSUME NEW c \in Calls
    PROVE  IsFiniteSet(ToOpen(c)) /\ Cardinality(ToOpen(c)) \in Nat
<1>1. IsFiniteSet(Parts) /\ ToOpen(c) \in SUBSET Parts
  BY NumbersAssumption, FS_Interval DEF Parts, ToOpen
<1>2. QED
  BY <1>1, FS_Subset, FS_CardinalityType

\* The same rows, and no more to open.
LEMMA NoMore ==
    ASSUME Counted, NEW c \in Calls, Owns(c), AttemptRows' = AttemptRows,
           ToOpen(c)' \subseteq ToOpen(c)
    PROVE  (Used + Cardinality(ToOpen(c)) <= MaxTotal)'
<1>1. /\ IsFiniteSet(ToOpen(c)) /\ Cardinality(ToOpen(c)) \in Nat
      /\ IsFiniteSet(AttemptRows) /\ Used + Cardinality(ToOpen(c)) <= MaxTotal
  BY OpenSets DEF Counted
<1>2. Used \in Nat /\ Used' = Used
  BY <1>1, FS_CardinalityType DEF Used
<1>3. Cardinality(ToOpen(c)') <= Cardinality(ToOpen(c)) /\ Cardinality(ToOpen(c)') \in Nat
  BY <1>1, FS_Subset, FS_CardinalityType
<1>4. QED
  BY <1>1, <1>2, <1>3, NumbersAssumption

\* One attempt is opened that was counted.
LEMMA OneOpened ==
    ASSUME Typed, Counted, NEW c \in Calls, NEW p \in Parts, Owns(c), p \in ToOpen(c),
           ToOpen(c)' = ToOpen(c) \ {p}, Store!CreateAttempt(Tok(c), p)
    PROVE  /\ IsFiniteSet(AttemptRows)' /\ BudgetIsKept'
           /\ (Used + Cardinality(ToOpen(c)) <= MaxTotal)'
<1>1. /\ IsFiniteSet(ToOpen(c)) /\ Cardinality(ToOpen(c)) \in Nat
      /\ IsFiniteSet(AttemptRows) /\ Used + Cardinality(ToOpen(c)) <= MaxTotal
  BY OpenSets DEF Counted
<1>2. Used \in Nat
  BY <1>1, FS_CardinalityType DEF Used
<1>3. PICK r : r \notin AttemptRows /\ AttemptRows' = AttemptRows \cup {r}
  BY OneRowMore
<1>4. IsFiniteSet(AttemptRows') /\ Used' = Used + 1
  BY <1>1, <1>3, FS_AddElement DEF Used
<1>5. /\ Cardinality(ToOpen(c)') = Cardinality(ToOpen(c)) - 1
      /\ Cardinality(ToOpen(c)') \in Nat
  BY <1>1, FS_RemoveElement, FS_CardinalityType
<1>6. QED
  BY <1>1, <1>2, <1>4, <1>5, NumbersAssumption DEF BudgetIsKept

\* Every step of an owner stays within what it counted.
LEMMA ActCounted ==
    ASSUME IInv, Counted, NEW c \in Calls, Acts(c)
    PROVE  /\ IsFiniteSet(AttemptRows)' /\ BudgetIsKept'
           /\ Owns(c) => (Used + Cardinality(ToOpen(c)) <= MaxTotal)'
<1> DEFINE Goal == /\ IsFiniteSet(AttemptRows)' /\ BudgetIsKept'
                   /\ Owns(c) => (Used + Cardinality(ToOpen(c)) <= MaxTotal)'
<1>a. /\ Typed /\ OwnerIsIssued /\ WorksAlone(c)
      /\ att \in [Parts -> Seq(Store!Attempt)] /\ call[c].todo \in Seq(Parts)
  BY DEF IInv, Typed, Store!TypeOK, CallRecord
<1>b. /\ NewWork.pc = "idle" /\ [NewWork EXCEPT !.pc = "queued"].pc = "queued"
  BY DEF NewWork
<1>c. Holds(c) => Owns(c)
  BY <1>a, HolderFacts
<1>d. /\ IsFiniteSet(AttemptRows) /\ Used \in Nat /\ BudgetIsKept
  BY FS_CardinalityType DEF Counted, Used
<1>1. ASSUME \A p \in Parts : DOMAIN att'[p] = DOMAIN att[p],
             ToOpen(c)' \subseteq ToOpen(c)
      PROVE  Goal
  <2>1. AttemptRows' = AttemptRows /\ Used' = Used
    BY <1>1, SameRows
  <2>2. QED
    BY <1>1, <1>d, <2>1, NoMore DEF BudgetIsKept
<1>2. CASE ArrivingView(c) \/ SettleView(c) \/ OpenView(c) \/ PrepareView(c)
           \/ WaitView(c) \/ ServeView(c) \/ ConcludeView(c)
  <2>1. UNCHANGED att
    BY <1>2, <1>a, ResetRows DEF ArrivingView, SettleView, OpenView, PrepareView, WaitView,
                               ServeView, ConcludeView, rowVars
  <2>2. \A q \in Parts : work'[c][q] \in {work[c][q], NewWork}
    BY <1>2 DEF ArrivingView, SettleView, OpenView, PrepareView, WaitView, ServeView,
                ConcludeView, TakesOutcome, Walks
  <2>3. ToOpen(c)' \subseteq ToOpen(c)
    BY <1>b, <2>2 DEF ToOpen
  <2>4. QED
    BY <1>1, <2>1, <2>3
<1>3. CASE LeavingView(c)
  <2>1. \A p \in Parts : DOMAIN att'[p] = DOMAIN att[p]
    BY <1>3, <1>a, CancelRows DEF LeavingView
  <2>2. ToOpen(c)' \subseteq ToOpen(c)
    BY <1>3, <1>b DEF LeavingView, ToOpen
  <2>3. QED
    BY <1>1, <2>1, <2>2
<1>4. CASE BudgetView(c)
  <2>1. UNCHANGED att
    BY <1>4 DEF BudgetView, rowVars
  <2>2. CASE work'[c] = work[c]
    BY <1>1, <2>1, <2>2 DEF ToOpen
  <2>3. CASE /\ Fits(c) /\ Parallel(c)
             /\ \A p \in Parts : work'[c][p] = IF p \in InTodo(c)
                                               THEN [NewWork EXCEPT !.pc = "queued"] ELSE NewWork
    <3>1. AttemptRows' = AttemptRows /\ Used' = Used
      BY <2>1, SameRows
    <3>2. InTodo(c) \subseteq Parts
      BY <1>a DEF InTodo
    <3>3. ToOpen(c)' = InTodo(c)
      BY <1>b, <2>3, <3>2 DEF ToOpen
    <3>4. /\ Cardinality(InTodo(c)) <= Len(call[c].todo) /\ Cardinality(InTodo(c)) \in Nat
          /\ Len(call[c].todo) \in Nat
      BY <1>a, ListedAtMost DEF InTodo
    <3>5. Used + Len(call[c].todo) <= MaxTotal
      BY <2>3 DEF Fits, Parallel
    <3>6. QED
      BY <1>d, <3>1, <3>3, <3>4, <3>5, NumbersAssumption DEF BudgetIsKept
  <2>4. QED
    BY <1>4, <2>2, <2>3 DEF BudgetView
<1>5. CASE SerialView(c)
  <2>1. UNCHANGED att
    BY <1>5 DEF SerialView, rowVars
  <2>2. CASE work'[c] = work[c]
    BY <1>1, <2>1, <2>2 DEF ToOpen
  <2>3. CASE /\ ~(Used >= MaxTotal) /\ call[c].todo # <<>>
             /\ \A q \in Parts : work'[c][q] = IF q = Head(call[c].todo)
                                               THEN [NewWork EXCEPT !.pc = "queued"]
                                               ELSE work[c][q]
    <3>1. AttemptRows' = AttemptRows /\ Used' = Used
      BY <2>1, SameRows
    <3>2. Head(call[c].todo) \in Parts /\ Idle(c)
      BY <1>5, <1>a, <2>3, ListTail DEF SerialView, WorksAlone, Alone
    <3>3. ToOpen(c)' = {Head(call[c].todo)}
      <4> DEFINE h == Head(call[c].todo)
      <4>1. h \in Parts /\ \A q \in Parts :
               work'[c][q] = IF q = h THEN [NewWork EXCEPT !.pc = "queued"] ELSE work[c][q]
        BY <2>3, <3>2
      <4>2. \A q \in Parts : work[c][q].pc = "idle"
        BY <3>2 DEF Idle
      <4> HIDE DEF h
      <4>3. work'[c][h].pc = "queued" /\ \A q \in Parts : q # h => work'[c][q].pc = "idle"
        BY <1>b, <4>1, <4>2
      <4>4. ToOpen(c)' = {h}
        BY <4>1, <4>3 DEF ToOpen
      <4>5. QED
        BY <4>4 DEF h
    <3>4. Cardinality(ToOpen(c)') = 1
      BY <3>3, FS_Singleton
    <3>5. Used + 1 <= MaxTotal
      BY <1>d, <2>3, NumbersAssumption
    <3>6. QED
      BY <1>d, <3>1, <3>4, <3>5 DEF BudgetIsKept
  <2>4. QED
    BY <1>5, <2>2, <2>3 DEF SerialView
<1>6. ASSUME NEW p \in Parts, ThreadView(c, p) PROVE Goal
  <2>1. CASE /\ work[c][p].pc = "checked" /\ work'[c][p].pc = "created"
             /\ Store!CreateAttempt(Tok(c), p)
    <3>1. p \in ToOpen(c) /\ ToOpen(c)' = ToOpen(c) \ {p}
      BY <1>6, <2>1 DEF ThreadView, ToOpen
    <3>2. Owns(c)
      BY <1>c, <2>1 DEF Store!CreateAttempt, Holds
    <3>3. QED
      BY <1>a, <2>1, <3>1, <3>2, OneOpened
  <2>2. CASE ~(/\ work[c][p].pc = "checked" /\ work'[c][p].pc = "created"
               /\ Store!CreateAttempt(Tok(c), p))
    <3>1. ToOpen(c)' \subseteq ToOpen(c)
      BY <1>6, <2>2 DEF ThreadView, ToOpen, Active
    <3>2. \A q \in Parts : DOMAIN att'[q] = DOMAIN att[q]
      <4>1. CASE UNCHANGED att
        BY <4>1
      <4>2. ASSUME NEW i, NEW target, Store!TransitionAttempt(Tok(c), p, i, target)
            PROVE  \A q \in Parts : DOMAIN att'[q] = DOMAIN att[q]
        BY <1>a, <4>2 DEF Store!TransitionAttempt
      <4>3. QED
        BY <1>6, <2>2, <4>1, <4>2 DEF ThreadView, Store!TransitionParticipant
    <3>3. QED
      BY <1>1, <3>1, <3>2
  <2>3. QED
    BY <2>1, <2>2
<1>7. QED
  BY <1>a, <1>2, <1>3, <1>4, <1>5, <1>6, ActMoves

\* Together with what is about to be dispatched the rows stay within the budget.
LEMMA CountedStep == IInv /\ Counted /\ [Next]_vars => Counted'
<1> SUFFICES ASSUME IInv, Counted, [Next]_vars PROVE Counted'
  OBVIOUS
<1>a. /\ Typed /\ OwnerIsIssued /\ \A d \in Calls : WorksAlone(d)
      /\ Typed' /\ OwnerIsIssued'
  BY StepTyped DEF IInv
<1>b. /\ IsFiniteSet(AttemptRows) /\ Used \in Nat /\ BudgetIsKept
  BY FS_CardinalityType DEF Counted, Used
<1>1. ASSUME NEW c \in Calls, Acts(c) PROVE Counted'
  <2>1. /\ IsFiniteSet(AttemptRows)' /\ BudgetIsKept'
        /\ Owns(c) => (Used + Cardinality(ToOpen(c)) <= MaxTotal)'
    BY <1>1, ActCounted
  <2>2. ASSUME NEW d \in Calls, Owns(d)' PROVE (Used + Cardinality(ToOpen(d)) <= MaxTotal)'
    <3>1. CASE d # c
      <4>1. Owns(d) /\ work'[d] = work[d] /\ UNCHANGED att
        BY <1>1, <1>a, <2>2, <3>1, ActStore, OthersStay DEF rowVars
      <4>2. AttemptRows' = AttemptRows /\ ToOpen(d)' \subseteq ToOpen(d)
        BY <4>1 DEF AttemptRows, ToOpen
      <4>3. QED
        BY <4>1, <4>2, NoMore
    <3>2. CASE d = c /\ JustArrived(c)
      <4>1. ToOpen(c)' = {} /\ UNCHANGED att
        BY <1>a, <3>2 DEF JustArrived, ToOpen, WorksAlone, Alone, Arriving, Idle, rowVars
      <4>2. AttemptRows' = AttemptRows /\ Used' = Used
        BY <4>1, SameRows
      <4>3. Cardinality(ToOpen(c)') = 0
        BY <4>1, FS_EmptySet
      <4>4. QED
        BY <1>b, <3>2, <4>2, <4>3, NumbersAssumption DEF BudgetIsKept
    <3>3. QED
      BY <1>1, <1>a, <2>1, <2>2, <3>1, <3>2, OwnsBefore
  <2>3. QED
    BY <2>1, <2>2 DEF Counted
<1>2. CASE Other
  <2>1. \A p \in Parts : DOMAIN att'[p] = DOMAIN att[p]
    <3>1. CASE Recover
      BY <1>a, <3>1, RecoverRows
    <3>2. CASE ~Recover
      BY <1>2, <3>2 DEF Other, Cancel, LeaseExpires, Crash, BackfillScan, BackfillWrite,
                        SameStore, storeVars, Store!RequestCancellation, Store!LeaseExpires
    <3>3. QED
      BY <3>1, <3>2
  <2>2. AttemptRows' = AttemptRows /\ Used' = Used
    BY <2>1, SameRows
  <2>3. ASSUME NEW d \in Calls, Owns(d)' PROVE (Used + Cardinality(ToOpen(d)) <= MaxTotal)'
    <3>1. Owns(d) /\ work' = work
      BY <1>2, <1>a, <2>3, OwnsBeforeOther
    <3>2. ToOpen(d)' \subseteq ToOpen(d)
      BY <3>1 DEF ToOpen
    <3>3. QED
      BY <2>2, <3>1, <3>2, NoMore
  <2>4. QED
    BY <1>b, <2>2, <2>3 DEF Counted, BudgetIsKept
<1>3. CASE UNCHANGED vars
  <2>1. UNCHANGED <<att, work, lease, call>>
    BY <1>3 DEF vars, storeVars
  <2>2. AttemptRows' = AttemptRows /\ Used' = Used
    BY <2>1 DEF AttemptRows, Used
  <2>3. ASSUME NEW d \in Calls, Owns(d)' PROVE (Used + Cardinality(ToOpen(d)) <= MaxTotal)'
    <3>1. Owns(d) /\ ToOpen(d)' \subseteq ToOpen(d)
      BY <2>1, <2>3 DEF Owns, ToOpen
    <3>2. QED
      BY <2>2, <3>1, NoMore
  <2>4. QED
    BY <1>b, <2>2, <2>3 DEF Counted, BudgetIsKept
<1>4. QED
  BY <1>1, <1>2, <1>3, Moves

\* A run begins with no attempts.
LEMMA InitCounted == Init => Counted
<1> SUFFICES ASSUME Init PROVE Counted
  OBVIOUS
<1>1. \A p \in Parts : DOMAIN att[p] = {}
  BY DEF Init, Store!Init
<1>2. AttemptRows = {}
  BY <1>1 DEF AttemptRows
<1>3. IsFiniteSet(AttemptRows) /\ Used = 0
  BY <1>2, FS_EmptySet DEF Used
<1>4. \A c \in Calls : ~Owns(c)
  BY CallsAssumption DEF Init, Store!Init, Owns
<1>5. QED
  BY <1>3, <1>4, NumbersAssumption DEF Counted, BudgetIsKept

\* The budget of attempts is kept by everybody together: those of calls that lost
\* the lease are counted, those of the owner were before it dispatched them.
THEOREM BudgetHolds == Spec => []BudgetIsKept
<1>1. Counted => BudgetIsKept
  BY DEF Counted
<1>2. Spec => [](IInv /\ Counted)
  <2>1. Init => IInv /\ Counted
    BY InitInv, InitCounted
  <2>2. IInv /\ Counted /\ [Next]_vars => IInv' /\ Counted'
    BY StepInv, CountedStep
  <2>3. QED
    BY <2>1, <2>2, PTL DEF Spec
<1>3. QED
  BY <1>1, <1>2, PTL
=============================================================================
