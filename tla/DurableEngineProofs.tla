------------------------- MODULE DurableEngineProofs -------------------------
(***************************************************************************)
(* What is proved of the engine, in four parts: that it implements the     *)
(* store it is written against, what holds of the rows of a run whoever    *)
(* wrote them, what isolation promises to the person whose folder a run    *)
(* works on, and what a person is shown of an approved run.                *)
(***************************************************************************)
EXTENDS WorkItemProgress, TLAPS

-----------------------------------------------------------------------------
(***************************************************************************)
(* The engine implements the store it is written against: whatever its     *)
(* calls do, and however they interleave, crash and outlive their leases,  *)
(* the rows go through operations of RunStore only.  What is proved of the *)
(* store for every client is then proved of the engine.                    *)
(***************************************************************************)

\* The store again, with what is proved about it.
RowFacts == INSTANCE RunStoreProofs WITH
    Owners <- Calls, Parts <- Steps, StepOf <- [s \in Steps |-> s],
    NoRecon <- "none", MaxAttempts <- MaxTotalAttempts

\* A call that nobody has taken the lease from; it may have expired.
Holder(c) == lease.owner = c /\ lease.epoch = call[c].epoch

\* The row names only owners that acquire_lease answered: a call that finds
\* itself in the row presents a token that was handed out.
OwnerIsIssued ==
    lease.owner # NoOwner => [owner |-> lease.owner, epoch |-> lease.epoch] \in issued

Outs    == {"ok", "write", "blockers", "blocked", "bad"}
Spaces  == {"no", "yes", "gone"}
PubRows == {"none", "applying", "published", "conflicted"}

\* Where a call can be.
Pcs == {"begin", "restart", "authorize", "authorized", "decline", "mark_failed",
        "discarded", "resolve", "resolved", "pause", "blocked", "needs", "finalize",
        "approve", "applied", "park", "broken", "r_mark", "r_finish", "pubfs",
        "pubops", "pubdone", "conflicted", "new", "admitted", "entered", "reconcile",
        "restore", "restorefs", "reset", "accept", "acceptstep", "discard",
        "discardfs", "leave", "done", "dead", "workspace", "preparing", "prepared",
        "phase", "materialize", "dispatch1", "dispatch2", "participant", "attempt",
        "att1", "att2", "calling", "called", "recorded", "reduce", "ckptfs",
        "ckptdb", "stepok", "stepfail", "publish", "cleanup", "cancelling",
        "r_acquire", "r_read", "r_steps", "c_acquire"}
Acts == {"none", "inspect", "authorize", "decline", "mark_failed", "restore",
         "apply", "discard", "accept"}

\* What is known of one call: what it is about to write depends on where it is.
CallRecord == [pc : Pcs, epoch : Nat, s : Steps, i : 0..MaxTotalAttempts,
               seen : Store!RunStatus \cup {"none"}, act : Acts,
               out : Outs \cup {"none"}, saw : SUBSET Effects]

CallsTyped ==
    /\ call \in [Calls -> CallRecord]
    /\ \A c \in Calls :
         /\ call[c].pc \in {"att1", "att2", "calling"} => call[c].i # 0
         /\ call[c].pc \in {"called", "recorded"} => call[c].out \in Outs
    /\ crashes \in 0..MaxCrashes

FilesTyped ==
    /\ res \in [Steps -> (Outs \ {"bad"}) \cup {"none"}]
    /\ reviewed \in [Steps -> SUBSET Effects]
    /\ space \in Spaces
    /\ tree \subseteq Effects /\ head \subseteq Effects /\ ckpt \subseteq Effects
    /\ orig \subseteq Effects
    /\ pub \in [row : PubRows, bound : BOOLEAN, of : SUBSET Effects, done : BOOLEAN]

Typed == Store!TypeOK /\ OwnerIsIssued /\ CallsTyped /\ FilesTyped

-----------------------------------------------------------------------------
(* Operators of the model. *)

\* What the instance of the store assumes of its constants.
LEMMA Assumptions ==
    /\ NoOwner \notin Calls
    /\ Writers \subseteq Steps /\ [s \in Steps |-> s] \in [Steps -> Steps]
    /\ "none" \in Recons
    /\ MaxEpoch \in Nat /\ MaxTotalAttempts \in Nat
BY CallsAssumption, NumbersAssumption DEF Writers, Recons

\* The architect, then writers and reviewers in turn, a reviewer last.
LEMMA StepArithmetic ==
    /\ LastStep \in Nat /\ LastStep % 2 = 1 /\ LastStep >= 3
    /\ Architect \in Steps /\ Architect \notin Writers
    /\ \A s \in Steps : s \in Nat
    /\ \A s \in Writers : s \in Steps /\ s # Architect /\ s < LastStep /\ s + 1 \notin Writers
    /\ \A s \in Steps \ {Architect} : s - 1 \in Steps
    /\ \A s \in Steps : s < LastStep => s + 1 \in Steps
    /\ \A s \in Steps : s \in Writers \/ s \in Reviews \/ s = Architect
BY NumbersAssumption DEF LastStep, Steps, Writers, Architect, Reviews

\* Where a walk goes after step s: only a review with blockers leads to a fix,
\* and only a review without them to publication.
LEMMA AfterFacts ==
    ASSUME NEW s \in Steps, NEW r
    PROVE  /\ After(s, r).s \in Steps
           /\ After(s, r).pc \in {"pause", "phase", "needs", "finalize"}
           /\ After(s, r).pc = "phase" =>
                /\ After(s, r).s = s + 1
                /\ s \in Reviews => r = "blockers"
                /\ s = Architect /\ r = "write" => (NeedsConsent => recon = "granted")
           /\ After(s, r).pc = "finalize" => s \in Reviews /\ r # "blockers"
<1>1. CASE s \in Reviews
  BY <1>1, StepArithmetic DEF After, AsksForChanges, NextPhase, Steps, Reviews
<1>2. CASE s \notin Reviews
  BY <1>2, StepArithmetic DEF After, AsksForConsent, NextPhase, Steps, Architect
<1>3. QED
  BY <1>1, <1>2
-----------------------------------------------------------------------------
(* Every step of a call is one operation of the store, or none. *)

\* A write under the fence: it leaves the lease and its tokens alone.
FencedWrite(c) ==
    Store!Next /\ Holds(c) /\ UNCHANGED <<lease, issued, cancel>>

\* What is left of the lease after the call took it, kept it or gave it up.
LeaseMove(c) ==
    /\ Store!Next
    /\ lease'.owner \in {c, NoOwner}
    /\ UNCHANGED <<status, cancel, recon, step, part, att>>

\* What the step of a call does to the store, and to the other calls.
StoreStep(c) ==
    /\ \/ UNCHANGED storeVars
       \/ FencedWrite(c)
       \/ LeaseMove(c)
       \/ Store!RequestCancellation
    /\ UNCHANGED <<res, reviewed>> \/ Holds(c)
    /\ \A d \in Calls \ {c} : call'[d] = call[d]

\* The token of a call that still owns the lease under its epoch was handed out.
LEMMA TokenIsIssued ==
    ASSUME Typed, NEW c \in Calls, Holder(c)
    PROVE  Tok(c) \in issued
BY CallsAssumption DEF Typed, OwnerIsIssued, Holder, Tok

\* Whoever passes the fence is in the row.
LEMMA HolderHolds ==
    ASSUME NEW c \in Calls, Store!Fence(Tok(c))
    PROVE  Holds(c) /\ Holder(c)
BY DEF Holds, Holder, Tok, Store!Fence

\* The four kinds of store operations as steps of the store.
LEMMA StepWrite ==
    ASSUME Typed, NEW c \in Calls, NEW s \in Steps, NEW target \in Store!RowStatus,
           \/ Store!CreateStep(Tok(c), s) \/ Store!TransitionStep(Tok(c), s, target)
           \/ Store!ResetStep(Tok(c), s, FALSE) \/ Store!AcceptStep(Tok(c), s)
    PROVE  FencedWrite(c)
<1>1. Store!Fence(Tok(c)) /\ UNCHANGED <<lease, issued, cancel>>
  BY DEF Store!CreateStep, Store!TransitionStep, Store!ResetStep, Store!AcceptStep
<1>2. Tok(c) \in issued
  BY <1>1, HolderHolds, TokenIsIssued
<1>3. Store!StepOp
  BY <1>2 DEF Store!StepOp
<1>4. QED
  BY <1>1, <1>3, HolderHolds DEF FencedWrite, Store!Next

\* Operations on participants and attempts.
LEMMA AttemptWrite ==
    ASSUME Typed, NEW c \in Calls, NEW s \in Steps, NEW i,
           NEW target \in Store!RowStatus, NEW end \in Store!AttemptStatus,
           \/ Store!CreateParticipant(Tok(c), s) \/ Store!CreateAttempt(Tok(c), s)
           \/ Store!TransitionParticipant(Tok(c), s, target)
           \/ Store!TransitionAttempt(Tok(c), s, i, end)
           \/ Store!ClassifyStaleAttempt(Tok(c), s, i, end)
    PROVE  FencedWrite(c)
<1>1. Store!Fence(Tok(c)) /\ UNCHANGED <<lease, issued, cancel>>
  BY DEF Store!CreateParticipant, Store!CreateAttempt, Store!TransitionParticipant,
         Store!TransitionAttempt, Store!ClassifyStaleAttempt
<1>2. Tok(c) \in issued
  BY <1>1, HolderHolds, TokenIsIssued
<1>3. CASE Store!CreateParticipant(Tok(c), s) \/ Store!CreateAttempt(Tok(c), s)
           \/ Store!TransitionParticipant(Tok(c), s, target)
  BY <1>1, <1>2, <1>3, HolderHolds DEF FencedWrite, Store!AttemptOp, Store!Next
<1>4. CASE Store!TransitionAttempt(Tok(c), s, i, end)
           \/ Store!ClassifyStaleAttempt(Tok(c), s, i, end)
  <2>1. i \in 1..Len(att[s])
    BY <1>4 DEF Store!TransitionAttempt, Store!ClassifyStaleAttempt
  <2>2. Store!AttemptOp
    BY <1>2, <1>4, <2>1 DEF Store!AttemptOp
  <2>3. QED
    BY <1>1, <2>2, HolderHolds DEF FencedWrite, Store!Next
<1>5. QED
  BY <1>3, <1>4

\* Operations on the run row that need the lease.
LEMMA RunWrite ==
    ASSUME Typed, NEW c \in Calls, NEW target \in Store!RunStatus, NEW value \in Recons,
           \/ Store!TransitionRun(Tok(c), target, value)
           \/ Store!FinalizeCancellation(Tok(c))
    PROVE  FencedWrite(c)
<1>1. Store!Fence(Tok(c)) /\ UNCHANGED <<lease, issued, cancel>>
  BY DEF Store!TransitionRun, Store!FinalizeCancellation
<1>2. Tok(c) \in issued
  BY <1>1, HolderHolds, TokenIsIssued
<1>3. Store!RunOp
  BY <1>2 DEF Store!RunOp
<1>4. QED
  BY <1>1, <1>3, HolderHolds DEF FencedWrite, Store!Next

\* Taking, reviving and giving up the lease.
LEMMA LeaseWrite ==
    ASSUME Typed, NEW c \in Calls,
           \/ Store!AcquireLease(c) \/ Store!ReleaseLease(Tok(c)) \/ Store!Heartbeat(Tok(c))
    PROVE  LeaseMove(c)
<1>1. CASE Store!AcquireLease(c)
  BY <1>1 DEF LeaseMove, Store!Next, Store!LeaseOp, Store!AcquireLease
<1>2. CASE Store!ReleaseLease(Tok(c)) \/ Store!Heartbeat(Tok(c))
  <2>1. Tok(c) \in issued
    BY <1>2, TokenIsIssued DEF Store!ReleaseLease, Store!Heartbeat, Holder, Tok
  <2>2. Store!LeaseOp
    BY <1>2, <2>1 DEF Store!LeaseOp
  <2>3. lease \in [owner : Calls \cup {NoOwner}, epoch : Nat, valid : BOOLEAN]
    BY DEF Typed, Store!TypeOK
  <2>4. QED
    BY <1>2, <2>2, <2>3
    DEF LeaseMove, Store!Next, Store!ReleaseLease, Store!Heartbeat, Tok
<1>3. QED
  BY <1>1, <1>2

\* Every row of the table goes to a status and a value that the store knows,
\* and none to one of the statuses that only a cancel request, or nobody, sets.
LEMMA MoveFacts ==
    ASSUME NEW c \in Calls, NEW pc \in MovePcs, recon \in Recons
    PROVE  /\ RunMoves(c)[pc].to \in Store!RunStatus \ {"unknown", "pending", "cancelling"}
           /\ RunMoves(c)[pc].value \in Recons
           /\ RunMoves(c)[pc].next \in {"workspace", "begin", "authorized", "resolved",
                                         "leave", "publish", "cleanup", "r_steps"}
BY DEF RunMoves, MovePcs, Move, KeepOr, RecoveredAs, Parked, Recons, Store!RunStatus,
       Store!RunTransitions
-----------------------------------------------------------------------------
(* One step of one call. *)

Step(c) ==
    \/ Progress(c) \/ Submit(c) \/ Providing(c) \/ RecoverScan(c)
    \/ RequestCancel(c) \/ Crash(c)

\* Taking the lease or being refused it.
LEMMA AcquireStep ==
    ASSUME Typed, NEW c \in Calls, NEW pc, AcquireTo(c, pc) \/ Refused(c)
    PROVE  StoreStep(c)
<1> USE DEF StoreStep, SameBut, SameNotes, storeVars, noteVars
<1>1. CASE AcquireTo(c, pc)
  BY <1>1, LeaseWrite DEF AcquireTo, Typed, CallsTyped
<1>2. CASE Refused(c)
  BY <1>2 DEF Refused, Typed, CallsTyped, Go, SameStore
<1>3. QED
  BY <1>1, <1>2

\* Every action of a call is one operation of the store under the call's own
\* token, or leaves the rows alone.
LEMMA CallStoreStep == ASSUME Typed, NEW c \in Calls, Step(c) PROVE StoreStep(c)
<1> USE DEF StoreStep, At, Go, SameStore, SameBut, SameNotes, SameFiles, storeVars,
            noteVars, fileVars
<1>a. /\ call \in [Calls -> CallRecord] /\ recon \in Recons
      /\ {"dispatching", "running", "succeeded", "failed"} \subseteq Store!RowStatus
      /\ {"dispatching", "running", "succeeded", "failed"} \subseteq Store!AttemptStatus
      /\ {"interrupted", "unknown"} \subseteq Store!AttemptStatus \cap Store!RowStatus
      /\ "cancelled" \in Store!RunStatus
  BY DEF Typed, CallsTyped, Store!TypeOK, Store!RowStatus, Store!AttemptStatus,
         Store!StepTransitions, Store!AttemptTransitions, Store!RunStatus,
         Store!RunTransitions
<1>b. call[c].s \in Steps
  BY <1>a DEF CallRecord
<1>1. CASE Submit(c)
  BY <1>1, <1>a, <1>b DEF Submit
<1>2. CASE Enter(c)
  BY <1>2, AcquireStep DEF Enter
<1>3. CASE Branch(c)
  BY <1>3, <1>a, <1>b DEF Branch
<1>4. CASE MoveRun(c)
  BY <1>4, <1>a, <1>b, RunWrite, HolderHolds, MoveFacts DEF MoveRun, FencedWrite
<1>5. CASE MoveIsIllegal(c)
  BY <1>5, <1>a, <1>b DEF MoveIsIllegal
<1>6. CASE Decide(c)
  BY <1>6, <1>a, <1>b DEF Decide
<1>7. CASE BeginRestore(c)
  BY <1>7, <1>a, <1>b DEF BeginRestore
<1>8. CASE RestoreTree(c)
  BY <1>8, <1>a, <1>b DEF RestoreTree
<1>9. CASE RestoreWorktree(c)
  BY <1>9, <1>a, <1>b DEF RestoreWorktree
<1>10. CASE ResetUnknown(c)
  BY <1>10, <1>a, <1>b, StepWrite, HolderHolds DEF ResetUnknown, Unknown, FencedWrite
<1>11. CASE BeginAccept(c)
  BY <1>11, <1>a, <1>b DEF BeginAccept, Unknown
<1>12. CASE AcceptUnknown(c)
  BY <1>12, <1>a, <1>b, StepWrite, HolderHolds DEF AcceptUnknown, FencedWrite
<1>13. CASE BeginDiscard(c)
  BY <1>13, <1>a, <1>b DEF BeginDiscard
<1>14. CASE DiscardTree(c)
  BY <1>14, <1>a, <1>b DEF DiscardTree
<1>15. CASE PrepareWorkspace(c)
  BY <1>15, <1>a, <1>b DEF PrepareWorkspace, Resume, NextPhase
<1>16. CASE CopyWorkspace(c)
  BY <1>16, <1>a, <1>b DEF CopyWorkspace
<1>17. CASE RecordWorkspace(c)
  BY <1>17, <1>a, <1>b DEF RecordWorkspace, Resume, NextPhase
<1>18. CASE OpenWorkspace(c)
  BY <1>18, <1>a, <1>b DEF OpenWorkspace, Resume, NextPhase
<1>19. CASE Settle(c)
  BY <1>19, <1>a, <1>b, StepWrite, HolderHolds DEF Settle, Resume, FencedWrite
<1>20. CASE Materialize(c)
  BY <1>20, <1>a, <1>b, StepWrite, HolderHolds DEF Materialize, FencedWrite
<1>21. CASE Dispatch(c)
  BY <1>21, <1>a, <1>b, StepWrite, HolderHolds DEF Dispatch, FencedWrite
<1>22. CASE PrepareParticipant(c)
  BY <1>22, <1>a, <1>b, AttemptWrite, HolderHolds DEF PrepareParticipant, FencedWrite
<1>23. CASE BeginAttempt(c)
  BY <1>23, <1>a, <1>b, AttemptWrite, HolderHolds DEF BeginAttempt, FencedWrite
<1>24. CASE StartProvider(c)
  BY <1>24, <1>a, <1>b, AttemptWrite, HolderHolds DEF StartProvider, FencedWrite
<1>25. CASE RecordAttempt(c)
  BY <1>25, <1>a, <1>b, AttemptWrite, HolderHolds DEF RecordAttempt, FencedWrite
<1>26. CASE RecordParticipant(c)
  BY <1>26, <1>a, <1>b, AttemptWrite, HolderHolds DEF RecordParticipant, FencedWrite
<1>27. CASE Reduce(c)
  BY <1>27, <1>a, <1>b DEF Reduce
<1>28. CASE CheckpointTree(c)
  BY <1>28, <1>a, <1>b DEF CheckpointTree
<1>29. CASE RecordCheckpoint(c)
  BY <1>29, <1>a, <1>b DEF RecordCheckpoint
<1>30. CASE SucceedStep(c)
  BY <1>30, <1>a, <1>b, StepWrite, HolderHolds DEF SucceedStep, Resume, FencedWrite
<1>31. CASE FailStep(c)
  BY <1>31, <1>a, <1>b, StepWrite, HolderHolds DEF FailStep, FencedWrite
<1>32. CASE StepIsIllegal(c)
  BY <1>32, <1>a, <1>b DEF StepIsIllegal
<1>33. CASE ProviderWrites(c)
  BY <1>33, <1>a, <1>b DEF ProviderWrites
<1>34. CASE Beat(c)
  BY <1>34, <1>a, <1>b, LeaseWrite DEF Beat
<1>35. CASE ProviderReturns(c)
  BY <1>35, <1>a, <1>b DEF ProviderReturns
<1>36. CASE BeginPublish(c)
  BY <1>36, <1>a, <1>b DEF BeginPublish
<1>37. CASE ApplyPatch(c)
  BY <1>37, <1>a, <1>b DEF ApplyPatch
<1>38. CASE Preflight(c)
  BY <1>38, <1>a, <1>b DEF Preflight
<1>39. CASE ApplyOperation(c)
  BY <1>39, <1>a, <1>b DEF ApplyOperation
<1>40. CASE FinishPublish(c)
  BY <1>40, <1>a, <1>b DEF FinishPublish
<1>41. CASE CleanUp(c)
  BY <1>41, <1>a, <1>b DEF CleanUp
<1>42. CASE RecoverScan(c)
  BY <1>42, <1>a, <1>b DEF RecoverScan
<1>43. CASE RecoverAcquire(c)
  BY <1>43, AcquireStep DEF RecoverAcquire
<1>44. CASE RecoverRead(c)
  BY <1>44, <1>a, <1>b DEF RecoverRead
<1>45. CASE RecoverSteps(c)
  BY <1>45, <1>a, <1>b, AttemptWrite, StepWrite, HolderHolds DEF RecoverSteps,
     FencedWrite, Doubt, ToClassify
<1>46. CASE RequestCancel(c)
  BY <1>46, <1>a, <1>b DEF RequestCancel
<1>47. CASE CancelAcquire(c)
  BY <1>47, AcquireStep DEF CancelAcquire
<1>48. CASE FinishCancel(c)
  BY <1>48, <1>a, <1>b, RunWrite, HolderHolds DEF FinishCancel, FencedWrite
<1>49. CASE Leave(c)
  BY <1>49, <1>a, <1>b, LeaseWrite DEF Leave
<1>50. CASE Lost(c)
  BY <1>50, <1>a, <1>b DEF Lost
<1>51. CASE Crash(c)
  BY <1>51, <1>a, <1>b DEF Crash
<1>q. QED
  BY <1>1, <1>2, <1>3, <1>4, <1>5, <1>6, <1>7, <1>8, <1>9, <1>10, <1>11, <1>12, <1>13,
     <1>14, <1>15, <1>16, <1>17, <1>18, <1>19, <1>20, <1>21, <1>22, <1>23, <1>24,
     <1>25, <1>26, <1>27, <1>28, <1>29, <1>30, <1>31, <1>32, <1>33, <1>34, <1>35,
     <1>36, <1>37, <1>38, <1>39, <1>40, <1>41, <1>42, <1>43, <1>44, <1>45, <1>46,
     <1>47, <1>48, <1>49, <1>50, <1>51 DEF Step, Progress, Deciding, Opening,
     Executing, Providing, Publishing, Recovering, Cancelling

\* Where a call is in the middle of an attempt.
BusyPcs == {"att1", "att2", "calling", "called", "recorded"}

CallUpdate(c, r) == r \in CallRecord /\ call' = [call EXCEPT ![c] = r]

\* Replacing what is known of one call.
LEMMA UpdateTyped ==
    ASSUME CallsTyped, NEW c \in Calls, NEW r, CallUpdate(c, r), UNCHANGED crashes,
           r.pc \in {"att1", "att2", "calling"} => r.i # 0,
           r.pc \in {"called", "recorded"} => r.out \in Outs
    PROVE  CallsTyped'
BY DEF CallsTyped, CallUpdate

\* Going on to another place.
LEMMA GoesOn ==
    ASSUME CallsTyped, NEW c \in Calls, NEW pc \in Pcs \ BusyPcs, Go(c, pc),
    UNCHANGED crashes
    PROVE  CallsTyped'
BY DEF CallsTyped, Go, CallRecord, BusyPcs

\* Going on to another step.
LEMMA Resumes ==
    ASSUME CallsTyped, NEW c \in Calls, NEW to, to.pc \in Pcs \ BusyPcs, to.s \in Steps,
           Resume(c, to), UNCHANGED crashes
    PROVE  CallsTyped'
<1>1. call[c] \in CallRecord /\ 0 \in 0..MaxTotalAttempts
  BY NumbersAssumption DEF CallsTyped
<1>2. CallUpdate(c, [call[c] EXCEPT !.pc = to.pc, !.s = to.s, !.i = 0, !.out = "none"])
  BY <1>1 DEF CallUpdate, Resume, CallRecord
<1>3. /\ [call[c] EXCEPT !.pc = to.pc, !.s = to.s, !.i = 0, !.out = "none"].pc = to.pc
      /\ to.pc \notin BusyPcs
  BY <1>1 DEF CallRecord
<1>4. QED
  BY <1>2, <1>3, UpdateTyped DEF BusyPcs

\* Every action keeps what is known of its call.
LEMMA CallKept == ASSUME Typed, NEW c \in Calls, Step(c) PROVE CallsTyped'
<1>a. /\ call \in [Calls -> CallRecord] /\ crashes \in 0..MaxCrashes /\ CallsTyped
      /\ status \in Store!RunStatus /\ lease.epoch \in Nat /\ recon \in Recons
      /\ call[c] \in CallRecord /\ call[c].s \in Steps
  BY DEF Typed, Store!TypeOK, CallsTyped, CallRecord
<1>b. /\ NextPhase(Architect).pc = "phase" /\ NextPhase(Architect).s \in Steps
      /\ "phase" \in Pcs \ BusyPcs
  BY StepArithmetic DEF NextPhase, Pcs, BusyPcs
<1>1. CASE Submit(c)
  BY <1>1, <1>a, StepArithmetic, NumbersAssumption DEF Submit, At, Go, CallsTyped,
     CallRecord, SameBut, Outs, Pcs
<1>2. CASE Enter(c)
  BY <1>2, <1>a, StepArithmetic, NumbersAssumption DEF Enter, At, Go, CallsTyped,
     CallRecord, SameBut, Outs, Pcs, AcquireTo, Refused, Store!NextEpoch
<1>3. CASE Branch(c)
  BY <1>3, <1>a, StepArithmetic, NumbersAssumption DEF Branch, At, Go, CallsTyped,
     CallRecord, SameBut, Outs, Pcs, EnteredPc
<1>4. CASE MoveRun(c)
  <2>1. PICK pc \in Pcs \ BusyPcs : Go(c, pc) /\ UNCHANGED crashes
    BY <1>4, <1>a, MoveFacts DEF MoveRun, SameBut, Pcs, BusyPcs
  <2>2. QED
    BY <1>a, <2>1, GoesOn
<1>5. CASE MoveIsIllegal(c)
  BY <1>5, <1>a, StepArithmetic, NumbersAssumption DEF MoveIsIllegal, At, Go, CallsTyped,
     CallRecord, SameBut, Outs, Pcs
<1>6. CASE Decide(c)
  <2>1. PICK act \in Acts : call' = [call EXCEPT ![c].pc = DecisionPc(act), ![c].act =
     act]
    BY <1>6 DEF Decide, Allowed, WorkspaceActions, Acts
  <2>2. DecisionPc(act) \in Pcs \ BusyPcs /\ UNCHANGED crashes
    BY <1>6 DEF Decide, DecisionPc, Pcs, BusyPcs, SameBut
  <2>3. QED
    BY <1>a, <2>1, <2>2 DEF CallsTyped, CallRecord, BusyPcs
<1>7. CASE BeginRestore(c)
  BY <1>7, <1>a, StepArithmetic, NumbersAssumption DEF BeginRestore, At, Go, CallsTyped,
     CallRecord, SameBut, Outs, Pcs
<1>8. CASE RestoreTree(c)
  BY <1>8, <1>a, StepArithmetic, NumbersAssumption DEF RestoreTree, At, Go, CallsTyped,
     CallRecord, SameBut, Outs, Pcs
<1>9. CASE RestoreWorktree(c)
  BY <1>9, <1>a, StepArithmetic, NumbersAssumption DEF RestoreWorktree, At, Go,
     CallsTyped, CallRecord, SameBut, Outs, Pcs
<1>10. CASE ResetUnknown(c)
  BY <1>10, <1>a, StepArithmetic, NumbersAssumption DEF ResetUnknown, At, Go, CallsTyped,
     CallRecord, SameBut, Outs, Pcs
<1>11. CASE BeginAccept(c)
  <2>1. PICK s \in Steps : call' = [call EXCEPT ![c].pc = "ckptfs", ![c].s = s]
    BY <1>11 DEF BeginAccept, Unknown
  <2>4. "ckptfs" \in Pcs
    BY DEF Pcs
  <2>2. CallUpdate(c, [call[c] EXCEPT !.pc = "ckptfs", !.s = s])
    BY <1>a, <2>1, <2>4 DEF CallRecord, CallUpdate
  <2>3. QED
    BY <1>11, <1>a, <2>2, UpdateTyped DEF BeginAccept, SameBut, CallRecord
<1>12. CASE AcceptUnknown(c)
  BY <1>12, <1>a, StepArithmetic, NumbersAssumption DEF AcceptUnknown, At, Go, CallsTyped,
     CallRecord, SameBut, Outs, Pcs
<1>13. CASE BeginDiscard(c)
  BY <1>13, <1>a, StepArithmetic, NumbersAssumption DEF BeginDiscard, At, Go, CallsTyped,
     CallRecord, SameBut, Outs, Pcs
<1>14. CASE DiscardTree(c)
  BY <1>14, <1>a, StepArithmetic, NumbersAssumption DEF DiscardTree, At, Go, CallsTyped,
     CallRecord, SameBut, Outs, Pcs
<1>15. CASE PrepareWorkspace(c)
  BY <1>15, <1>b, <1>a, GoesOn, Resumes DEF PrepareWorkspace, Pcs, BusyPcs
<1>16. CASE CopyWorkspace(c)
  BY <1>16, <1>a, StepArithmetic, NumbersAssumption DEF CopyWorkspace, At, Go, CallsTyped,
     CallRecord, SameBut, Outs, Pcs
<1>17. CASE RecordWorkspace(c)
  BY <1>17, <1>b, <1>a, Resumes DEF RecordWorkspace, SameBut
<1>18. CASE OpenWorkspace(c)
  BY <1>18, <1>b, <1>a, GoesOn, Resumes DEF OpenWorkspace, Pcs, BusyPcs
<1>19. CASE Settle(c)
  <2>1. CASE Resume(c, After(call[c].s, res[call[c].s]))
    BY <2>1, <1>19, <1>a, Resumes, AfterFacts DEF Settle, SameBut, Pcs, BusyPcs
  <2>2. CASE \E pc \in {"cancelling", "blocked", "materialize"} : Go(c, pc)
    BY <2>2, <1>19, <1>a, GoesOn DEF Settle, SameBut, Pcs, BusyPcs
  <2>3. QED
    BY <1>19, <2>1, <2>2 DEF Settle
<1>20. CASE Materialize(c)
  BY <1>20, <1>a, StepArithmetic, NumbersAssumption DEF Materialize, At, Go, CallsTyped,
     CallRecord, SameBut, Outs, Pcs
<1>21. CASE Dispatch(c)
  BY <1>21, <1>a, StepArithmetic, NumbersAssumption DEF Dispatch, At, Go, CallsTyped,
     CallRecord, SameBut, Outs, Pcs
<1>22. CASE PrepareParticipant(c)
  BY <1>22, <1>a, StepArithmetic, NumbersAssumption DEF PrepareParticipant, At, Go,
     CallsTyped, CallRecord, SameBut, Outs, Pcs
<1>23. CASE BeginAttempt(c)
  <2>1. CASE Go(c, "stepfail") \/ Go(c, "cancelling")
    BY <2>1, <1>23, <1>a, GoesOn DEF BeginAttempt, SameBut, Pcs, BusyPcs
  <2>2. CASE Store!CreateAttempt(Tok(c), call[c].s) /\ call' = [call EXCEPT ![c].pc =
     "att1", ![c].i = Len(att[call[c].s]) + 1]
    <3>1. Len(att[call[c].s]) + 1 \in 1..MaxTotalAttempts
       BY <2>2, <1>a, NumbersAssumption DEF Store!CreateAttempt, Typed, Store!TypeOK
    <3>4. "att1" \in Pcs /\ Len(att[call[c].s]) + 1 \in 0..MaxTotalAttempts /\
       Len(att[call[c].s]) + 1 # 0
       BY <3>1, NumbersAssumption DEF Pcs
    <3>3. CallUpdate(c, [call[c] EXCEPT !.pc = "att1", !.i = Len(att[call[c].s]) + 1])
       BY <3>4, <2>2, <1>a DEF CallUpdate, CallRecord
    <3>2. QED
       BY <3>4, <3>3, <1>23, <1>a, UpdateTyped DEF BeginAttempt, SameBut, CallRecord
  <2>3. QED
    BY <1>23, <2>1, <2>2 DEF BeginAttempt
<1>24. CASE StartProvider(c)
  BY <1>24, <1>a, StepArithmetic, NumbersAssumption DEF StartProvider, At, Go, CallsTyped,
     CallRecord, SameBut, Outs, Pcs
<1>25. CASE RecordAttempt(c)
  BY <1>25, <1>a, StepArithmetic, NumbersAssumption DEF RecordAttempt, At, Go, CallsTyped,
     CallRecord, SameBut, Outs, Pcs
<1>26. CASE RecordParticipant(c)
  BY <1>26, <1>a, StepArithmetic, NumbersAssumption DEF RecordParticipant, At, Go,
     CallsTyped, CallRecord, SameBut, Outs, Pcs
<1>27. CASE Reduce(c)
  BY <1>27, <1>a, StepArithmetic, NumbersAssumption DEF Reduce, At, Go, CallsTyped,
     CallRecord, SameBut, Outs, Pcs
<1>28. CASE CheckpointTree(c)
  BY <1>28, <1>a, StepArithmetic, NumbersAssumption DEF CheckpointTree, At, Go,
     CallsTyped, CallRecord, SameBut, Outs, Pcs, Typed, FilesTyped
<1>29. CASE RecordCheckpoint(c)
  BY <1>29, <1>a, StepArithmetic, NumbersAssumption DEF RecordCheckpoint, At, Go,
     CallsTyped, CallRecord, SameBut, Outs, Pcs
<1>30. CASE SucceedStep(c)
  BY <1>30, <1>a, Resumes, AfterFacts DEF SucceedStep, SameBut, Pcs, BusyPcs
<1>31. CASE FailStep(c)
  BY <1>31, <1>a, StepArithmetic, NumbersAssumption DEF FailStep, At, Go, CallsTyped,
     CallRecord, SameBut, Outs, Pcs
<1>32. CASE StepIsIllegal(c)
  BY <1>32, <1>a, StepArithmetic, NumbersAssumption DEF StepIsIllegal, At, Go, CallsTyped,
     CallRecord, SameBut, Outs, Pcs
<1>33. CASE ProviderWrites(c)
  BY <1>33, <1>a, StepArithmetic, NumbersAssumption DEF ProviderWrites, At, Go,
     CallsTyped, CallRecord, SameBut, Outs, Pcs
<1>34. CASE Beat(c)
  BY <1>34, <1>a, StepArithmetic, NumbersAssumption DEF Beat, At, Go, CallsTyped,
     CallRecord, SameBut, Outs, Pcs
<1>35. CASE ProviderReturns(c)
  <2>1. PICK out \in Outs, saw \in SUBSET Effects : call' = [call EXCEPT ![c].pc =
     "called", ![c].out = out, ![c].saw = saw]
    BY <1>35 DEF ProviderReturns, Answers, Outs, Typed, FilesTyped
  <2>4. "called" \in Pcs
    BY DEF Pcs
  <2>3. CallUpdate(c, [call[c] EXCEPT !.pc = "called", !.out = out, !.saw = saw])
    BY <2>1, <1>a, <2>4 DEF CallUpdate, CallRecord
  <2>2. QED
    BY <1>35, <1>a, <2>3, UpdateTyped DEF ProviderReturns, SameBut, CallRecord
<1>36. CASE BeginPublish(c)
  BY <1>36, <1>a, GoesOn DEF BeginPublish, Pcs, BusyPcs
<1>37. CASE ApplyPatch(c)
  BY <1>37, <1>a, StepArithmetic, NumbersAssumption DEF ApplyPatch, At, Go, CallsTyped,
     CallRecord, SameBut, Outs, Pcs
<1>38. CASE Preflight(c)
  BY <1>38, <1>a, StepArithmetic, NumbersAssumption DEF Preflight, At, Go, CallsTyped,
     CallRecord, SameBut, Outs, Pcs
<1>39. CASE ApplyOperation(c)
  BY <1>39, <1>a, StepArithmetic, NumbersAssumption DEF ApplyOperation, At, Go,
     CallsTyped, CallRecord, SameBut, Outs, Pcs
<1>40. CASE FinishPublish(c)
  BY <1>40, <1>a, StepArithmetic, NumbersAssumption DEF FinishPublish, At, Go, CallsTyped,
     CallRecord, SameBut, Outs, Pcs
<1>41. CASE CleanUp(c)
  BY <1>41, <1>a, StepArithmetic, NumbersAssumption DEF CleanUp, At, Go, CallsTyped,
     CallRecord, SameBut, Outs, Pcs
<1>42. CASE RecoverScan(c)
  BY <1>42, <1>a, StepArithmetic, NumbersAssumption DEF RecoverScan, At, Go, CallsTyped,
     CallRecord, SameBut, Outs, Pcs
<1>43. CASE RecoverAcquire(c)
  BY <1>43, <1>a, StepArithmetic, NumbersAssumption DEF RecoverAcquire, At, Go,
     CallsTyped, CallRecord, SameBut, Outs, Pcs, AcquireTo, Refused, Store!NextEpoch
<1>44. CASE RecoverRead(c)
  BY <1>44, <1>a, StepArithmetic, NumbersAssumption DEF RecoverRead, At, Go, CallsTyped,
     CallRecord, SameBut, Outs, Pcs
<1>45. CASE RecoverSteps(c)
  BY <1>45, <1>a, StepArithmetic, NumbersAssumption DEF RecoverSteps, At, Go, CallsTyped,
     CallRecord, SameBut, Outs, Pcs
<1>46. CASE RequestCancel(c)
  BY <1>46, <1>a, StepArithmetic, NumbersAssumption DEF RequestCancel, At, Go, CallsTyped,
     CallRecord, SameBut, Outs, Pcs
<1>47. CASE CancelAcquire(c)
  BY <1>47, <1>a, StepArithmetic, NumbersAssumption DEF CancelAcquire, At, Go, CallsTyped,
     CallRecord, SameBut, Outs, Pcs, AcquireTo, Refused, Store!NextEpoch
<1>48. CASE FinishCancel(c)
  BY <1>48, <1>a, StepArithmetic, NumbersAssumption DEF FinishCancel, At, Go, CallsTyped,
     CallRecord, SameBut, Outs, Pcs
<1>49. CASE Leave(c)
  <2>1. [NewCall EXCEPT !.pc = "done", !.act = call[c].act] \in CallRecord
    <3>1. "done" \in Pcs /\ 0 \in 0..MaxTotalAttempts
      BY NumbersAssumption DEF Pcs
    <3>2. QED
      BY <1>a, <3>1, StepArithmetic DEF NewCall, CallRecord
  <2>2. QED
    BY <1>49, <1>a, <2>1 DEF Leave, SameBut, CallsTyped, NewCall
<1>50. CASE Lost(c)
  BY <1>50, <1>a, StepArithmetic, NumbersAssumption DEF Lost, At, Go, CallsTyped,
     CallRecord, SameBut, Outs, Pcs
<1>51. CASE Crash(c)
  BY <1>51, <1>a, StepArithmetic, NumbersAssumption DEF Crash, At, Go, CallsTyped,
     CallRecord, SameBut, Outs, Pcs
<1>q. QED
  BY <1>1, <1>2, <1>3, <1>4, <1>5, <1>6, <1>7, <1>8, <1>9, <1>10, <1>11, <1>12, <1>13,
     <1>14, <1>15, <1>16, <1>17, <1>18, <1>19, <1>20, <1>21, <1>22, <1>23, <1>24,
     <1>25, <1>26, <1>27, <1>28, <1>29, <1>30, <1>31, <1>32, <1>33, <1>34, <1>35,
     <1>36, <1>37, <1>38, <1>39, <1>40, <1>41, <1>42, <1>43, <1>44, <1>45, <1>46,
     <1>47, <1>48, <1>49, <1>50, <1>51 DEF Step, Progress, Deciding, Opening,
     Executing, Providing, Publishing, Recovering, Cancelling

\* Every action keeps what is known of the files and of the results.
LEMMA FilesKept == ASSUME Typed, NEW c \in Calls, Step(c) PROVE FilesTyped'
<1> USE DEF FilesTyped, noteVars, fileVars, Spaces, PubRows, Outs
<1>a. FilesTyped /\ call \in [Calls -> CallRecord] /\ call[c] \in CallRecord
  BY DEF Typed, CallsTyped
<1>b. CASE SameNotes /\ SameFiles
  BY <1>a, <1>b DEF SameNotes, SameFiles
<1>1. CASE RestoreTree(c)
  BY <1>1, <1>a DEF RestoreTree, SameNotes
<1>2. CASE RestoreWorktree(c)
  BY <1>2, <1>a DEF RestoreWorktree, SameNotes
<1>3. CASE AcceptUnknown(c)
  BY <1>3, <1>a DEF AcceptUnknown, SameFiles
<1>4. CASE DiscardTree(c)
  BY <1>4, <1>a DEF DiscardTree, SameNotes
<1>5. CASE PrepareWorkspace(c)
  BY <1>5, <1>a DEF PrepareWorkspace, SameNotes
<1>6. CASE CopyWorkspace(c)
  BY <1>6, <1>a DEF CopyWorkspace, SameNotes
<1>7. CASE OpenWorkspace(c)
  BY <1>7, <1>a DEF OpenWorkspace, SameNotes
<1>8. CASE RecordParticipant(c)
  <2>1. call[c].out \in Outs /\ call[c].saw \in SUBSET Effects /\ UNCHANGED fileVars
    BY <1>8, <1>a DEF RecordParticipant, At, SameFiles, Typed, CallsTyped, CallRecord
  <2>2. CASE SameNotes
    BY <2>1, <2>2, <1>b DEF SameFiles
  <2>3. CASE /\ res' = [res EXCEPT ![call[c].s] = call[c].out] /\ call[c].out # "bad"
             /\ reviewed' = [reviewed EXCEPT ![call[c].s] = call[c].saw]
    BY <2>1, <2>3, <1>a
  <2>4. QED
    BY <1>8, <2>2, <2>3 DEF RecordParticipant
<1>9. CASE CheckpointTree(c)
  BY <1>9, <1>a DEF CheckpointTree, SameNotes
<1>10. CASE RecordCheckpoint(c)
  BY <1>10, <1>a DEF RecordCheckpoint, SameNotes, CallRecord
<1>11. CASE ProviderWrites(c)
  <2>1. Effect(c) \in Effects
    BY <1>11, <1>a, NumbersAssumption DEF ProviderWrites, At, Effect, Effects, CallRecord,
       Typed, CallsTyped
  <2>2. QED
    BY <1>11, <2>1, <1>a DEF ProviderWrites, SameNotes
<1>12. CASE BeginPublish(c)
  BY <1>12, <1>a DEF BeginPublish, SameNotes
<1>13. CASE ApplyPatch(c)
  BY <1>13, <1>a DEF ApplyPatch, SameNotes
<1>14. CASE Preflight(c)
  BY <1>14, <1>a DEF Preflight, SameNotes
<1>15. CASE ApplyOperation(c)
  BY <1>15, <1>a DEF ApplyOperation, SameNotes
<1>16. CASE FinishPublish(c)
  BY <1>16, <1>a DEF FinishPublish, SameNotes
<1>17. CASE CleanUp(c)
  BY <1>17, <1>a DEF CleanUp, SameNotes
<1>c. CASE \/ Submit(c)
         \/ Enter(c)
         \/ Branch(c)
         \/ MoveRun(c)
         \/ MoveIsIllegal(c)
         \/ Decide(c)
         \/ BeginRestore(c)
         \/ ResetUnknown(c)
         \/ BeginAccept(c)
         \/ BeginDiscard(c)
         \/ RecordWorkspace(c)
         \/ Settle(c)
         \/ Materialize(c)
         \/ Dispatch(c)
         \/ PrepareParticipant(c)
         \/ BeginAttempt(c)
         \/ StartProvider(c)
         \/ RecordAttempt(c)
         \/ Reduce(c)
         \/ SucceedStep(c)
         \/ FailStep(c)
         \/ StepIsIllegal(c)
         \/ Beat(c)
         \/ ProviderReturns(c)
         \/ RecoverScan(c)
         \/ RecoverAcquire(c)
         \/ RecoverRead(c)
         \/ RecoverSteps(c)
         \/ RequestCancel(c)
         \/ CancelAcquire(c)
         \/ FinishCancel(c)
         \/ Leave(c)
         \/ Lost(c)
         \/ Crash(c)
  BY <1>b, <1>c DEF SameBut, SameStore, Submit, Enter, Branch, MoveRun, MoveIsIllegal,
     Decide, BeginRestore, ResetUnknown, BeginAccept, BeginDiscard, RecordWorkspace,
     Settle, Materialize, Dispatch, PrepareParticipant, BeginAttempt, StartProvider,
     RecordAttempt, Reduce, SucceedStep, FailStep, StepIsIllegal, Beat, ProviderReturns,
     RecoverScan, RecoverAcquire, RecoverRead, RecoverSteps, RequestCancel, CancelAcquire,
     FinishCancel, Leave, Lost, Crash, AcquireTo, Refused
<1>q. QED
  BY <1>1, <1>2, <1>3, <1>4, <1>5, <1>6, <1>7, <1>8, <1>9, <1>10, <1>11, <1>12, <1>13,
     <1>14, <1>15, <1>16, <1>17, <1>c DEF Step, Progress, Deciding, Opening,
     Executing, Providing, Publishing, Recovering, Cancelling
-----------------------------------------------------------------------------
(* The rows under what is proved of the store. *)

\* The two instances of the store are one.
LEMMA RowsAreTheStore ==
    /\ (RowFacts!TypeOK <=> Store!TypeOK) /\ (RowFacts!TypeOK' <=> Store!TypeOK')
    /\ RowFacts!Init <=> Store!Init
    /\ RowFacts!Next <=> Store!Next
    /\ RowFacts!vars = Store!vars /\ Store!vars = storeVars
    /\ (RowFacts!RunOp <=> Store!RunOp) /\ (RowFacts!StepOp <=> Store!StepOp)
    /\ (RowFacts!AttemptOp <=> Store!AttemptOp)
    /\ UNCHANGED RowFacts!vars <=> UNCHANGED storeVars
    /\ RowFacts!RunTerminal = Store!RunTerminal
<1> USE DEF RowFacts!RunTransitions, Store!RunTransitions, RowFacts!StepTransitions,
            Store!StepTransitions, RowFacts!AttemptTransitions, Store!AttemptTransitions,
            RowFacts!RunStatus, Store!RunStatus, RowFacts!RowStatus, Store!RowStatus,
            RowFacts!AttemptStatus, Store!AttemptStatus, RowFacts!RunTerminal, Store!RunTerminal
<1>1. (RowFacts!TypeOK <=> Store!TypeOK) /\ (RowFacts!TypeOK' <=> Store!TypeOK')
  BY DEF RowFacts!TypeOK, Store!TypeOK, RowFacts!Token, Store!Token, RowFacts!Attempt, Store!Attempt
<1>2. RowFacts!Init <=> Store!Init
  BY DEF RowFacts!Init, Store!Init
<1>3. /\ RowFacts!vars = Store!vars /\ Store!vars = storeVars
      /\ UNCHANGED RowFacts!vars <=> UNCHANGED storeVars
      /\ RowFacts!RunTerminal = Store!RunTerminal
  BY DEF RowFacts!vars, Store!vars, storeVars
<1> USE DEF RowFacts!Legal, Store!Legal, RowFacts!Fence, Store!Fence
<1>4. RowFacts!LeaseOp <=> Store!LeaseOp
  BY DEF RowFacts!LeaseOp, Store!LeaseOp, RowFacts!LeaseExpires, Store!LeaseExpires,
         RowFacts!AcquireLease, Store!AcquireLease, RowFacts!NextEpoch, Store!NextEpoch,
         RowFacts!Heartbeat, Store!Heartbeat, RowFacts!ReleaseLease, Store!ReleaseLease
<1>5. RowFacts!RunOp <=> Store!RunOp
  BY DEF RowFacts!RunOp, Store!RunOp, RowFacts!RequestCancellation, Store!RequestCancellation,
         RowFacts!FinalizeCancellation, Store!FinalizeCancellation, RowFacts!TransitionRun,
         Store!TransitionRun, RowFacts!CancelRow, Store!CancelRow, RowFacts!CancelAttempt,
         Store!CancelAttempt, RowFacts!OpenRow, Store!OpenRow, RowFacts!OpenAttempt,
         Store!OpenAttempt
<1>6. RowFacts!StepOp <=> Store!StepOp
  BY DEF RowFacts!StepOp, Store!StepOp, RowFacts!CreateStep, Store!CreateStep,
         RowFacts!TransitionStep, Store!TransitionStep, RowFacts!ResetStep, Store!ResetStep,
         RowFacts!AcceptStep, Store!AcceptStep, RowFacts!Retriable, Store!Retriable,
         RowFacts!OpenAttempt, Store!OpenAttempt
<1>7. RowFacts!AttemptOp <=> Store!AttemptOp
  BY DEF RowFacts!AttemptOp, Store!AttemptOp, RowFacts!CreateParticipant, Store!CreateParticipant,
         RowFacts!CreateAttempt, Store!CreateAttempt, RowFacts!TransitionParticipant,
         Store!TransitionParticipant, RowFacts!TransitionAttempt, Store!TransitionAttempt,
         RowFacts!ClassifyStaleAttempt, Store!ClassifyStaleAttempt, RowFacts!StaleTargets,
         Store!StaleTargets, RowFacts!OpenAttempt, Store!OpenAttempt
<1>8. QED
  BY <1>1, <1>2, <1>3, <1>4, <1>5, <1>6, <1>7 DEF RowFacts!Next, Store!Next

\* Rows keep their types, and what has ended stays so, in every step of the store.
LEMMA StoreKeeps ==
    ASSUME Store!TypeOK, Store!Next \/ UNCHANGED storeVars
    PROVE  /\ Store!TypeOK'
           /\ \A s \in Steps : step[s] = "succeeded" => step'[s] = "succeeded"
           /\ status \in Store!RunTerminal => status' = status
<1>1. RowFacts!TypeOK /\ [RowFacts!Next]_RowFacts!vars
  BY RowsAreTheStore DEF RowFacts!vars, storeVars
<1>2. RowFacts!TypeOK' /\ RowFacts!SettledKept
  BY <1>1, RowFacts!StepIsTyped, RowFacts!SettledStep, Assumptions
<1>3. QED
  BY <1>2, RowsAreTheStore DEF RowFacts!SettledKept

\* The row names a token that was handed out, after every step of the store.
LEMMA OwnerStaysIssued ==
    ASSUME Store!TypeOK, OwnerIsIssued, Store!Next \/ UNCHANGED storeVars
    PROVE  OwnerIsIssued'
<1> USE DEF OwnerIsIssued
<1>1. CASE Store!LeaseExpires
  BY <1>1 DEF Store!LeaseExpires, Store!TypeOK
<1>2. ASSUME NEW o \in Calls, Store!AcquireLease(o) PROVE OwnerIsIssued'
  BY <1>2 DEF Store!AcquireLease
<1>3. ASSUME NEW t \in issued, Store!Heartbeat(t) \/ Store!ReleaseLease(t)
      PROVE  OwnerIsIssued'
  <2>1. lease \in [owner : Calls \cup {NoOwner}, epoch : Nat, valid : BOOLEAN]
    BY DEF Store!TypeOK
  <2>2. /\ lease'.owner \in {lease.owner, NoOwner} /\ lease'.epoch = lease.epoch
        /\ issued' = issued
    BY <1>3, <2>1 DEF Store!Heartbeat, Store!ReleaseLease
  <2>3. QED
    BY <2>2
<1>4. CASE Store!RunOp \/ Store!StepOp \/ Store!AttemptOp \/ UNCHANGED storeVars
  <2>1. \/ RowFacts!RunOp \/ RowFacts!StepOp \/ RowFacts!AttemptOp \/ UNCHANGED RowFacts!vars
    BY <1>4, RowsAreTheStore
  <2>2. UNCHANGED <<lease, issued>>
    BY <2>1, RowFacts!LeaseUntouched, Assumptions
  <2>3. QED
    BY <2>2
<1>5. QED
  BY <1>1, <1>2, <1>3, <1>4 DEF Store!Next, Store!LeaseOp

\* Every step of the engine is one step of the store, or leaves the rows alone.
LEMMA StepIsOfTheStore ==
    ASSUME Typed, [Next]_vars
    PROVE  /\ Store!Next \/ UNCHANGED storeVars
           /\ \/ \E c \in Calls : Step(c) /\ StoreStep(c)
              \/ LeaseExpires
              \/ UNCHANGED vars
<1>1. ASSUME NEW c \in Calls, Step(c) PROVE Store!Next \/ UNCHANGED storeVars
  BY <1>1, CallStoreStep DEF StoreStep, FencedWrite, LeaseMove, Store!Next, Store!RunOp
<1>2. CASE LeaseExpires
  BY <1>2 DEF LeaseExpires, Store!Next, Store!LeaseOp
<1>3. CASE UNCHANGED vars
  BY <1>3 DEF vars, storeVars
<1>4. Operate => \E c \in Calls : Step(c)
  BY DEF Operate, Step
<1>5. QED
  BY <1>1, <1>2, <1>3, <1>4, CallStoreStep DEF Next

\* Nothing has happened yet in the initial state.
LEMMA InitTyped == Init => Typed
<1> SUFFICES ASSUME Init PROVE Typed
  OBVIOUS
<1>1. Store!TypeOK
  <2>1. RowFacts!TypeOK
    BY RowsAreTheStore, RowFacts!InitIsTyped, Assumptions DEF Init
  <2>2. QED
    BY <2>1, RowsAreTheStore
<1>2. OwnerIsIssued
  BY DEF Init, Store!Init, OwnerIsIssued
<1>3. NewCall \in CallRecord /\ 0 \in 0..MaxCrashes
  BY StepArithmetic, NumbersAssumption DEF NewCall, CallRecord, Pcs, Acts
<1>4. CallsTyped
  BY <1>3 DEF Init, CallsTyped, NewCall
<1>5. FilesTyped
  BY DEF Init, FilesTyped, Outs, Spaces, PubRows
<1>6. QED
  BY <1>1, <1>2, <1>4, <1>5 DEF Typed

\* Every step keeps the types.
LEMMA StepTyped == Typed /\ [Next]_vars => Typed'
<1> SUFFICES ASSUME Typed, [Next]_vars PROVE Typed'
  OBVIOUS
<1>1. Store!TypeOK' /\ OwnerIsIssued'
  BY StepIsOfTheStore, StoreKeeps, OwnerStaysIssued DEF Typed
<1>2. CASE UNCHANGED vars \/ LeaseExpires
  BY <1>1, <1>2 DEF Typed, CallsTyped, FilesTyped, vars, noteVars, fileVars, LeaseExpires
<1>3. ASSUME NEW c \in Calls, Step(c) PROVE Typed'
  BY <1>1, <1>3, CallKept, FilesKept DEF Typed
<1>4. QED
  BY <1>2, <1>3, StepIsOfTheStore

\* The state of the engine keeps its types, for any calls, any number of
\* rounds, attempts, crashes and takeovers.
THEOREM AlwaysTyped == Spec => []Typed
BY InitTyped, StepTyped, PTL DEF Spec

\* The engine is a client of the store: the rows of a run evolve as RunStore
\* allows, whatever the calls do and wherever they crash.
THEOREM EngineRespectsTheStore == Spec => StoreIsRespected
<1>1. Init => Store!Init
  BY DEF Init
<1>2. Typed /\ [Next]_vars => [Store!Next]_Store!vars
  BY StepIsOfTheStore, RowsAreTheStore DEF Store!vars, storeVars
<1>3. QED
  BY <1>1, <1>2, AlwaysTyped, PTL DEF Spec, StoreIsRespected, Store!Spec

\* What is proved of the store for every client holds of the engine: the fence
\* admits only the newest token, a late answer is dropped, and what was settled
\* stays settled.
THEOREM EngineInheritsTheStore ==
    Spec => /\ []RowFacts!EpochsAreExclusive /\ []RowFacts!OnlyNewestTokenWrites
            /\ RowFacts!OutcomesStand
<1>1. Store!Init => RowFacts!Init
  BY RowsAreTheStore
<1>2. [Store!Next]_Store!vars => [RowFacts!Next]_RowFacts!vars
  BY RowsAreTheStore DEF Store!vars, RowFacts!vars
<1>3. Store!Spec => RowFacts!Spec
  BY <1>1, <1>2, PTL DEF Store!Spec, RowFacts!Spec
<1>4. RowFacts!Spec => /\ []RowFacts!EpochsAreExclusive /\ []RowFacts!OnlyNewestTokenWrites
                   /\ RowFacts!OutcomesStand
  BY RowFacts!EpochsExclusive, RowFacts!OnlyNewestWrites, RowFacts!OutcomesStay, Assumptions, PTL
<1>5. QED
  BY <1>3, <1>4, EngineRespectsTheStore, PTL DEF StoreIsRespected

-----------------------------------------------------------------------------
(***************************************************************************)
(* What holds of the rows of a run whoever wrote them: the phases open in  *)
(* order, a cancelled run completes as nothing else, a write in doubt goes *)
(* on only by an operator's decision, and no writer starts without the     *)
(* consent that the architect asked for.                                   *)
(***************************************************************************)

\* The places of the walk through the phases: an attempt, the step around it,
\* its end, and the walk itself.
AttemptPcs == {"participant", "attempt", "att1", "att2", "calling", "called", "recorded"}
StartPcs   == {"materialize", "dispatch1", "dispatch2"}
SettlePcs  == {"reduce", "ckptfs", "ckptdb", "stepok"}
WalkPcs    == {"phase"} \cup StartPcs \cup AttemptPcs \cup SettlePcs

\* Every step before s is done, and the reviews among them asked for a fix.
Ready(s) ==
    \A r \in Steps : r < s => /\ step[r] = "succeeded"
                              /\ r \in Reviews => res[r] = "blockers"

\* PhasesInOrder, closed under going back: what starts rests on all before it.
RowsInOrder == \A s \in Steps : step[s] # "absent" => Ready(s)

\* A call about to open a step knows that all before it are done, also when it
\* has lost the lease since: what is done stays done.
PhaseIsReady ==
    \A c \in Calls : call[c].pc \in {"phase", "materialize"} => Ready(call[c].s)

\* The step that the owner of the lease works on is not done yet.
StepIsOpen ==
    \A c \in Calls : Holder(c) =>
        /\ call[c].pc \in StartPcs \cup AttemptPcs => step[call[c].s] # "succeeded"
        /\ call[c].pc = "dispatch2" => step[call[c].s] = "dispatching"

Consented == NeedsConsent /\ res[Architect] = "write" => recon = "granted"

Accepting(c) ==
    /\ call[c].pc \in {"ckptfs", "ckptdb"} /\ call[c].act = "accept"
    /\ step[call[c].s] = "unknown"

\* The owner of the lease is past the architect only with consent, unless it
\* carries out an operator's decision.
WalkHasConsent ==
    \A c \in Calls :
        Holder(c) /\ call[c].pc \in WalkPcs /\ call[c].s # Architect => Consented \/ Accepting(c)

\* Where a call of recover_stale_runs or request_cancel can be.
OutsidePcs == {"new", "done", "dead", "leave", "cancelling", "r_acquire", "r_read",
               "r_mark", "r_steps", "r_finish", "c_acquire"}

\* What undoes or settles a write in doubt carries an operator's decision.
DecidedPcs ==
    \A c \in Calls :
        /\ c \in RunCalls \/ call[c].pc \in OutsidePcs
        /\ call[c].pc \in {"restore", "restorefs", "reset"} => call[c].act = "restore"
        /\ call[c].pc \in {"accept", "acceptstep"} => call[c].act = "accept"

IInv ==
    /\ Typed
    /\ RowsInOrder
    /\ PhaseIsReady
    /\ StepIsOpen
    /\ WalkHasConsent
    /\ DecidedPcs
    /\ CancelIsSticky

-----------------------------------------------------------------------------
(* The walk: who takes part in it, and what it changes. *)

\* The actions of the walk: from the workspace to the end of a step.
Walking(c) ==
    \/ PrepareWorkspace(c) \/ RecordWorkspace(c) \/ OpenWorkspace(c) \/ Settle(c)
    \/ Materialize(c) \/ Dispatch(c) \/ PrepareParticipant(c) \/ BeginAttempt(c)
    \/ StartProvider(c) \/ Beat(c) \/ ProviderWrites(c) \/ ProviderReturns(c)
    \/ RecordAttempt(c) \/ RecordParticipant(c) \/ Reduce(c) \/ CheckpointTree(c)
    \/ RecordCheckpoint(c) \/ SucceedStep(c) \/ BeginAccept(c)

\* All other actions of a call.
Elsewhere(c) ==
    \/ Submit(c) \/ Enter(c) \/ Branch(c) \/ MoveRun(c) \/ MoveIsIllegal(c)
    \/ Decide(c) \/ BeginRestore(c) \/ RestoreTree(c) \/ RestoreWorktree(c)
    \/ ResetUnknown(c) \/ AcceptUnknown(c) \/ BeginDiscard(c) \/ DiscardTree(c)
    \/ CopyWorkspace(c) \/ FailStep(c) \/ StepIsIllegal(c) \/ BeginPublish(c)
    \/ ApplyPatch(c) \/ Preflight(c) \/ ApplyOperation(c) \/ FinishPublish(c)
    \/ CleanUp(c) \/ RecoverScan(c) \/ RecoverAcquire(c) \/ RecoverRead(c)
    \/ RecoverSteps(c) \/ RequestCancel(c) \/ CancelAcquire(c) \/ FinishCancel(c)
    \/ Leave(c) \/ Lost(c) \/ Crash(c)

\* Every action of a call is one of the walk or one outside it.
LEMMA StepIsSomewhere == ASSUME NEW c, Step(c) PROVE Walking(c) \/ Elsewhere(c)
BY DEF Step, Progress, Deciding, Opening, Executing, Providing, Publishing,
         Recovering, Cancelling, Walking, Elsewhere

\* An action outside the walk leaves the call outside it.
LEMMA ElsewhereLeavesTheWalk ==
    ASSUME Typed, NEW c \in Calls, Elsewhere(c)
    PROVE  call'[c].pc \notin WalkPcs
<1> USE DEF At, Go, WalkPcs, StartPcs, AttemptPcs, SettlePcs
<1>a. call \in [Calls -> CallRecord] /\ recon \in Recons
  BY DEF Typed, CallsTyped, Store!TypeOK
<1>1. CASE MoveRun(c)
  BY <1>1, <1>a, MoveFacts DEF MoveRun, CallRecord
<1>2. CASE RecoverSteps(c) \/ ApplyOperation(c)
  BY <1>2, <1>a DEF RecoverSteps, ApplyOperation, CallRecord
<1>3. CASE MoveIsIllegal(c) \/ BeginRestore(c) \/ RestoreTree(c)
  BY <1>3, <1>a DEF MoveIsIllegal, BeginRestore, RestoreTree, CallRecord
<1>4. CASE Decide(c)
  <2>1. \A act : DecisionPc(act) \notin WalkPcs
    BY DEF DecisionPc
  <2>2. QED
    BY <1>4, <1>a, <2>1 DEF Decide, CallRecord
<1>5. CASE Leave(c)
  BY <1>5, <1>a DEF Leave, NewCall
<1>6. CASE ResetUnknown(c)
  BY <1>6, <1>a DEF ResetUnknown, CallRecord
<1>7. CASE AcceptUnknown(c)
  BY <1>7, <1>a DEF AcceptUnknown, CallRecord
<1>8. CASE Submit(c) \/ Enter(c) \/ Branch(c) \/ RestoreWorktree(c)
  BY <1>8, <1>a DEF Submit, Enter, AcquireTo, Refused, Branch, EnteredPc,
         RestoreWorktree, CallRecord, NewCall
<1>9. CASE BeginDiscard(c) \/ DiscardTree(c) \/ CopyWorkspace(c) \/ FailStep(c)
  BY <1>9, <1>a DEF BeginDiscard, DiscardTree, CopyWorkspace, FailStep, CallRecord,
         NewCall
<1>10. CASE StepIsIllegal(c) \/ BeginPublish(c) \/ ApplyPatch(c) \/ Preflight(c)
  BY <1>10, <1>a DEF StepIsIllegal, BeginPublish, ApplyPatch, Preflight, CallRecord,
         NewCall
<1>11. CASE FinishPublish(c) \/ CleanUp(c) \/ RecoverScan(c) \/ RecoverAcquire(c)
  BY <1>11, <1>a DEF FinishPublish, CleanUp, RecoverScan, RecoverAcquire, AcquireTo,
         Refused, CallRecord, NewCall
<1>12. CASE RecoverRead(c) \/ RequestCancel(c) \/ CancelAcquire(c) \/ FinishCancel(c)
  BY <1>12, <1>a DEF RecoverRead, RequestCancel, CancelAcquire, AcquireTo, Refused,
         FinishCancel, CallRecord, NewCall
<1>13. CASE Lost(c) \/ Crash(c)
  BY <1>13, <1>a DEF Lost, Crash, CallRecord, NewCall
<1>q. QED
  BY <1>1, <1>2, <1>3, <1>4, <1>5, <1>6, <1>7, <1>8, <1>9, <1>10, <1>11, <1>12, <1>13
     DEF Elsewhere

\* A step opens in one place only: the call that materializes it.
LEMMA RowsOpened ==
    ASSUME Typed, NEW c \in Calls, Step(c), NEW s \in Steps,
           step'[s] # "absent", step[s] = "absent"
    PROVE  Materialize(c) /\ call[c].s = s
<1>a. call \in [Calls -> CallRecord] /\ step \in [Steps -> Store!RowStatus \cup {"absent"}]
  BY DEF Typed, CallsTyped, Store!TypeOK
<1> USE DEF Store!Legal, Store!StepTransitions, SameStore, storeVars
<1>1. CASE Materialize(c)
  BY <1>1, <1>a DEF Materialize, Store!CreateStep
<1>2. CASE Settle(c) \/ ResetUnknown(c)
  BY <1>2, <1>a DEF Settle, ResetUnknown, Store!ResetStep, Unknown
<1>3. CASE Dispatch(c) \/ SucceedStep(c) \/ FailStep(c)
  BY <1>3, <1>a DEF Dispatch, SucceedStep, FailStep, Store!TransitionStep, CallRecord
<1>4. CASE AcceptUnknown(c)
  BY <1>4, <1>a DEF AcceptUnknown, Store!AcceptStep
<1>5. CASE RecoverSteps(c)
  BY <1>5, <1>a DEF RecoverSteps, Store!TransitionStep, Store!ClassifyStaleAttempt, Doubt,
     ToClassify
<1>6. CASE FinishCancel(c)
  BY <1>6, <1>a DEF FinishCancel, Store!FinalizeCancellation, Store!CancelRow, Store!OpenRow
<1>7. CASE
    \/ Submit(c) \/ Enter(c) \/ Branch(c) \/ MoveRun(c) \/ MoveIsIllegal(c)
    \/ Decide(c) \/ BeginRestore(c) \/ RestoreTree(c) \/ RestoreWorktree(c)
    \/ BeginAccept(c) \/ BeginDiscard(c) \/ DiscardTree(c) \/ PrepareWorkspace(c)
    \/ CopyWorkspace(c) \/ RecordWorkspace(c) \/ OpenWorkspace(c)
    \/ PrepareParticipant(c) \/ BeginAttempt(c) \/ StartProvider(c)
    \/ RecordAttempt(c) \/ RecordParticipant(c) \/ Reduce(c) \/ CheckpointTree(c)
    \/ RecordCheckpoint(c) \/ StepIsIllegal(c) \/ ProviderWrites(c) \/ Beat(c)
    \/ ProviderReturns(c) \/ BeginPublish(c) \/ ApplyPatch(c) \/ Preflight(c)
    \/ ApplyOperation(c) \/ FinishPublish(c) \/ CleanUp(c) \/ RecoverScan(c)
    \/ RecoverAcquire(c) \/ RecoverRead(c) \/ RequestCancel(c) \/ CancelAcquire(c)
    \/ Leave(c) \/ Lost(c) \/ Crash(c)
  BY <1>7 DEF Submit, Enter, AcquireTo, Refused, Branch, EnteredPc, MoveRun,
         MoveIsIllegal, Decide, DecisionPc, Allowed, WorkspaceActions, BeginRestore,
         RestoreTree, RestoreWorktree, BeginAccept, BeginDiscard, DiscardTree,
         PrepareWorkspace, CopyWorkspace, RecordWorkspace, OpenWorkspace,
         PrepareParticipant, BeginAttempt, StartProvider, RecordAttempt,
         RecordParticipant, Reduce, CheckpointTree, RecordCheckpoint, StepIsIllegal,
         ProviderWrites, Beat, ProviderReturns, BeginPublish, ApplyPatch, Preflight,
         ApplyOperation, FinishPublish, CleanUp, RecoverScan, RecoverAcquire,
         RecoverRead, RequestCancel, CancelAcquire, Leave, Lost, Crash,
         Store!AcquireLease, Store!TransitionRun, Store!CreateParticipant,
         Store!CreateAttempt, Store!TransitionAttempt, Store!TransitionParticipant,
         Store!Heartbeat, Store!RequestCancellation, Store!ReleaseLease
<1>q. QED
  BY <1>1, <1>2, <1>3, <1>4, <1>5, <1>6, <1>7 DEF Step, Progress, Deciding, Opening,
     Executing,
     Providing, Publishing, Recovering, Cancelling

\* While a call is in the lease row, no other call writes a row: its step, its
\* participant, its results and the operator's decision stand.
LEMMA OthersFenced ==
    ASSUME Typed, NEW c \in Calls, StoreStep(c), NEW d \in Calls \ {c}, Holder(d)'
    PROVE  /\ Holder(d) /\ call'[d] = call[d]
           /\ UNCHANGED <<recon, step, part, att, res, reviewed>>
<1>1. call'[d] = call[d] /\ lease'.owner = d /\ d # NoOwner /\ d # c
  BY CallsAssumption DEF StoreStep, Holder
<1>2. ~LeaseMove(c)
  BY <1>1 DEF LeaseMove
<1>3. lease' = lease
  BY <1>2 DEF StoreStep, FencedWrite, storeVars, Store!RequestCancellation
<1>4. ~Holds(c)
  BY <1>1, <1>3, HolderHolds DEF Holds, Holder
<1>5. UNCHANGED <<recon, step, part, att, res, reviewed>>
  BY <1>2, <1>4 DEF StoreStep, FencedWrite, storeVars, Store!RequestCancellation
<1>6. QED
  BY <1>1, <1>3, <1>5 DEF Holder

\* What a provider's answer leaves of the call.
LEMMA ProviderAnswers ==
    ASSUME Typed, NEW c \in Calls, ProviderReturns(c)
    PROVE  /\ call[c].pc = "calling" /\ call'[c].pc = "called"
           /\ call'[c].epoch = call[c].epoch /\ call'[c].s = call[c].s
           /\ call'[c].i = call[c].i /\ call'[c].act = call[c].act
           /\ call'[c].seen = call[c].seen
           /\ call'[c].out \in Answers(c)
           /\ call'[c].saw = IF call[c].s \in Reviews THEN tree ELSE {}
<1>1. PICK out \in Answers(c) :
        call' = [call EXCEPT ![c].pc = "called", ![c].out = out,
                   ![c].saw = IF call[c].s \in Reviews THEN tree ELSE {}]
  BY DEF ProviderReturns
<1>2. call \in [Calls -> CallRecord]
  BY DEF Typed, CallsTyped
<1>3. QED
  BY <1>1, <1>2 DEF CallRecord, ProviderReturns, At

\* Walking takes no lease: who is in the row after such a step was there before.
LEMMA WalkingKeepsTheLease ==
    ASSUME Typed, NEW c \in Calls, Walking(c), Holder(c)'
    PROVE  Holder(c)
<1>a. /\ call \in [Calls -> CallRecord]
      /\ lease \in [owner : Calls \cup {NoOwner}, epoch : Nat, valid : BOOLEAN]
  BY DEF Typed, CallsTyped, Store!TypeOK
<1> USE DEF Holder, At, Go, SameStore, SameBut, storeVars
<1>1. CASE Beat(c)
  BY <1>1, <1>a DEF Beat, Store!Heartbeat, CallRecord
<1>2. CASE ProviderReturns(c)
  BY <1>2, ProviderAnswers DEF ProviderReturns
<1>3. CASE
    \/ PrepareWorkspace(c) \/ RecordWorkspace(c) \/ OpenWorkspace(c)
  BY <1>3, <1>a DEF PrepareWorkspace, RecordWorkspace, OpenWorkspace, Resume,
         CallRecord
<1>4. CASE
    \/ Settle(c) \/ Materialize(c) \/ Dispatch(c)
  BY <1>4, <1>a DEF Settle, Materialize, Dispatch, Store!ResetStep, Store!CreateStep,
         Store!TransitionStep, Resume, CallRecord
<1>5. CASE
    \/ PrepareParticipant(c) \/ BeginAttempt(c) \/ StartProvider(c)
  BY <1>5, <1>a DEF PrepareParticipant, BeginAttempt, StartProvider,
         Store!CreateParticipant, Store!CreateAttempt, Store!TransitionAttempt,
         Store!TransitionParticipant, CallRecord
<1>6. CASE
    \/ ProviderWrites(c) \/ RecordAttempt(c) \/ RecordParticipant(c)
  BY <1>6, <1>a DEF ProviderWrites, RecordAttempt, RecordParticipant,
         Store!TransitionAttempt, Store!TransitionParticipant, CallRecord
<1>7. CASE
    \/ Reduce(c) \/ CheckpointTree(c) \/ RecordCheckpoint(c)
  BY <1>7, <1>a DEF Reduce, CheckpointTree, RecordCheckpoint, CallRecord
<1>8. CASE
    \/ SucceedStep(c) \/ BeginAccept(c)
  BY <1>8, <1>a DEF SucceedStep, BeginAccept, Store!TransitionStep, Resume, CallRecord
<1>q. QED
  BY <1>1, <1>2, <1>3, <1>4, <1>5, <1>6, <1>7, <1>8 DEF Walking

\* A participant's result is written by its own call, or by an operator's
\* acceptance of a step in doubt.
LEMMA ResultsRecorded ==
    ASSUME Typed, NEW c \in Calls, Step(c), NEW s \in Steps, res'[s] # res[s]
    PROVE  /\ Holds(c) /\ call[c].s = s
           /\ \/ RecordParticipant(c)
              \/ AcceptUnknown(c) /\ step[s] \in {"unknown", "interrupted"}
<1>a. res \in [Steps -> (Outs \ {"bad"}) \cup {"none"}] /\ call[c].s \in Steps
  BY DEF Typed, CallsTyped, FilesTyped, CallRecord
<1> USE DEF SameNotes, noteVars
<1>1. CASE RecordParticipant(c)
  BY <1>1, <1>a DEF RecordParticipant, Store!TransitionParticipant, Holds
<1>2. CASE AcceptUnknown(c)
  BY <1>2, <1>a DEF AcceptUnknown, Store!AcceptStep, Holds
<1>3. CASE
    \/ Submit(c) \/ Enter(c) \/ Branch(c) \/ MoveRun(c) \/ MoveIsIllegal(c)
    \/ Decide(c) \/ BeginRestore(c) \/ RestoreTree(c) \/ RestoreWorktree(c)
    \/ ResetUnknown(c) \/ BeginAccept(c) \/ BeginDiscard(c) \/ DiscardTree(c)
    \/ PrepareWorkspace(c) \/ CopyWorkspace(c) \/ RecordWorkspace(c)
    \/ OpenWorkspace(c) \/ Settle(c) \/ Materialize(c) \/ Dispatch(c)
    \/ PrepareParticipant(c) \/ BeginAttempt(c) \/ StartProvider(c)
    \/ RecordAttempt(c) \/ Reduce(c) \/ CheckpointTree(c) \/ RecordCheckpoint(c)
    \/ SucceedStep(c) \/ FailStep(c) \/ StepIsIllegal(c) \/ ProviderWrites(c)
    \/ Beat(c) \/ ProviderReturns(c) \/ BeginPublish(c) \/ ApplyPatch(c)
    \/ Preflight(c) \/ ApplyOperation(c) \/ FinishPublish(c) \/ CleanUp(c)
    \/ RecoverScan(c) \/ RecoverAcquire(c) \/ RecoverRead(c) \/ RecoverSteps(c)
    \/ RequestCancel(c) \/ CancelAcquire(c) \/ FinishCancel(c) \/ Leave(c)
    \/ Lost(c) \/ Crash(c)
  BY <1>3 DEF Submit, Enter, AcquireTo, Refused, Branch, EnteredPc, MoveRun,
         MoveIsIllegal, Decide, DecisionPc, Allowed, WorkspaceActions, BeginRestore,
         RestoreTree, RestoreWorktree, ResetUnknown, BeginAccept, BeginDiscard,
         DiscardTree, PrepareWorkspace, CopyWorkspace, RecordWorkspace, OpenWorkspace,
         Settle, Materialize, Dispatch, PrepareParticipant, BeginAttempt,
         StartProvider, RecordAttempt, Reduce, CheckpointTree, RecordCheckpoint,
         SucceedStep, FailStep, StepIsIllegal, ProviderWrites, Beat, ProviderReturns,
         BeginPublish, ApplyPatch, Preflight, ApplyOperation, FinishPublish, CleanUp,
         RecoverScan, RecoverAcquire, RecoverRead, RecoverSteps, RequestCancel,
         CancelAcquire, FinishCancel, Leave, Lost, Crash, SameBut
<1>q. QED
  BY <1>1, <1>2, <1>3 DEF Step, Progress, Deciding, Opening, Executing,
     Providing, Publishing, Recovering, Cancelling

\* A step that is done keeps its status and its result.
LEMMA DoneStays ==
    ASSUME Typed, StepIsOpen, NEW c \in Calls, Step(c), NEW s \in Steps,
    step[s] = "succeeded"
    PROVE  step'[s] = "succeeded" /\ res'[s] = res[s]
<1>1. step'[s] = "succeeded"
  BY CallStoreStep, StoreKeeps DEF Typed, StoreStep, FencedWrite, LeaseMove, Store!Next,
     Store!RunOp
<1>2. ASSUME res'[s] # res[s] PROVE FALSE
  <2>1. Holder(c) /\ call[c].s = s /\ RecordParticipant(c)
    BY <1>2, ResultsRecorded, HolderHolds DEF Holds
  <2>2. QED
    BY <2>1 DEF RecordParticipant, At, StepIsOpen, AttemptPcs
<1>3. QED
  BY <1>1, <1>2

\* What is done before a step stays done.
LEMMA ReadyStays ==
    ASSUME Typed, StepIsOpen, NEW c \in Calls, Step(c), NEW s \in Steps, Ready(s)
    PROVE  Ready(s)'
BY DoneStays DEF Ready

\* Every step opens on finished ones.
LEMMA RowsInOrderKept ==
    ASSUME Typed, RowsInOrder, PhaseIsReady, StepIsOpen, NEW c \in Calls, Step(c)
    PROVE  RowsInOrder'
<1> SUFFICES ASSUME NEW s \in Steps, step'[s] # "absent" PROVE Ready(s)'
  BY DEF RowsInOrder
<1>1. CASE step[s] # "absent"
  BY <1>1, ReadyStays DEF RowsInOrder
<1>2. CASE step[s] = "absent"
  <2>1. Materialize(c) /\ call[c].s = s
    BY <1>2, RowsOpened
  <2>2. Ready(s)
    BY <2>1 DEF Materialize, At, PhaseIsReady
  <2>3. QED
    BY <2>2, ReadyStays
<1>3. QED
  BY <1>1, <1>2

\* The step after a finished one is ready, if a review asked for it.
LEMMA ReadyGoesOn ==
    ASSUME NEW s \in Steps, Ready(s)', step'[s] = "succeeded", s + 1 \in Steps,
           s \in Reviews => res'[s] = "blockers"
    PROVE  Ready(s + 1)'
BY StepArithmetic DEF Ready, Steps

\* A call reaches a phase through the finished one before it, also a call that
\* has lost its lease since.
LEMMA PhaseIsReadyKept ==
    ASSUME Typed, RowsInOrder, PhaseIsReady, StepIsOpen, NEW c \in Calls, Step(c)
    PROVE  PhaseIsReady'
<1>a. call \in [Calls -> CallRecord] /\ call[c].s \in Steps
  BY DEF Typed, CallsTyped, CallRecord
<1>b. \A d \in Calls \ {c} : call'[d] = call[d] /\ call[d].s \in Steps
  BY <1>a, CallStoreStep DEF StoreStep, CallRecord
<1> SUFFICES ASSUME NEW d \in Calls, call'[d].pc \in {"phase", "materialize"},
                    NEW n, n = call'[d].s
             PROVE  Ready(n)'
  BY DEF PhaseIsReady
<1>c. CASE d # c
  BY <1>b, <1>c, ReadyStays DEF PhaseIsReady
<1>d. PICK s \in Steps : s = call[c].s
  BY <1>a
<1>e. CASE d = c
  <2>p. call'[c].pc \in {"phase", "materialize"} /\ n = call'[c].s
    BY <1>e
  <2> USE DEF At, Go
  <2>1. CASE PrepareWorkspace(c) \/ RecordWorkspace(c) \/ OpenWorkspace(c)
    <3>1. n = Architect
      BY <2>1, <1>a, <2>p DEF PrepareWorkspace, RecordWorkspace, OpenWorkspace, Resume,
         NextPhase, CallRecord
    <3>2. \A r \in Steps : ~(r < n)
      BY <3>1 DEF Architect, Steps
    <3>3. QED
      BY <3>2 DEF Ready
  <2>2. ASSUME call'[c].pc = After(s, res[s]).pc, call'[c].s = After(s, res[s]).s,
               step'[s] = "succeeded", res'[s] = res[s], Ready(s)
        PROVE  Ready(n)'
    <3>1. n = s + 1 /\ n \in Steps /\ (s \in Reviews => res[s] = "blockers")
      BY <2>2, <2>p, AfterFacts
    <3>2. QED
      BY <2>2, <3>1, ReadyStays, ReadyGoesOn
  <2>3. CASE Settle(c)
    <3>1. Ready(s)
      BY <2>3, <1>d DEF Settle, PhaseIsReady
    <3>2. CASE \E pc \in {"cancelling", "blocked", "materialize"} : Go(c, pc)
      <4>1. n = s
        BY <3>2, <1>a, <1>d, <2>p DEF CallRecord
      <4>2. QED
        BY <3>1, <4>1, ReadyStays
    <3>3. CASE step[s] = "succeeded" /\ Resume(c, After(s, res[s]))
      BY <3>1, <3>3, <1>a, <2>2, DoneStays DEF Resume, CallRecord
    <3>4. QED
      BY <2>3, <1>d, <3>2, <3>3 DEF Settle
  <2>4. CASE SucceedStep(c)
    <3>1. /\ call'[c].pc = After(s, res[s]).pc /\ call'[c].s = After(s, res[s]).s
      BY <2>4, <1>a, <1>d DEF SucceedStep, Resume, CallRecord
    <3>2. step'[s] = "succeeded" /\ res'[s] = res[s]
      BY <2>4, <1>d DEF SucceedStep, Store!TransitionStep, SameBut, SameNotes, noteVars,
         Typed,
         Store!TypeOK
    <3>3. step[s] # "absent"
      BY <2>4, <1>d DEF SucceedStep, Store!TransitionStep, Store!Legal,
         Store!StepTransitions,
         Typed, Store!TypeOK
    <3>4. QED
      BY <2>2, <3>1, <3>2, <3>3 DEF RowsInOrder
  <2>5. CASE Materialize(c)
    BY <2>5, <1>a, <2>p DEF Materialize, CallRecord
  <2>6. CASE ProviderReturns(c)
    BY <2>6, <2>p, ProviderAnswers
  <2>7. CASE Dispatch(c) \/ PrepareParticipant(c) \/ BeginAttempt(c)
    BY <2>7, <1>a, <2>p DEF Dispatch, PrepareParticipant, BeginAttempt, CallRecord
  <2>8. CASE StartProvider(c) \/ Beat(c) \/ ProviderWrites(c)
    BY <2>8, <1>a, <2>p DEF StartProvider, Beat, ProviderWrites, CallRecord
  <2>9. CASE RecordAttempt(c) \/ RecordParticipant(c) \/ Reduce(c)
    BY <2>9, <1>a, <2>p DEF RecordAttempt, RecordParticipant, Reduce, CallRecord
  <2>10. CASE CheckpointTree(c) \/ RecordCheckpoint(c) \/ BeginAccept(c)
    BY <2>10, <1>a, <2>p DEF CheckpointTree, RecordCheckpoint, BeginAccept, CallRecord
  <2>11. CASE Elsewhere(c)
    BY <2>11, <2>p, ElsewhereLeavesTheWalk DEF WalkPcs, StartPcs
  <2>q. QED
    BY StepIsSomewhere, <2>1, <2>3, <2>4, <2>5, <2>6, <2>7, <2>8, <2>9, <2>10, <2>11
       DEF Walking
<1>q. QED
  BY <1>c, <1>e

\* What going on to another step leaves of the call.
LEMMA ResumedAt ==
    ASSUME Typed, NEW c \in Calls, NEW to, Resume(c, to)
    PROVE  /\ call'[c].pc = to.pc /\ call'[c].s = to.s /\ call'[c].i = 0
           /\ call'[c].epoch = call[c].epoch /\ call'[c].act = call[c].act
<1>1. call \in [Calls -> CallRecord]
  BY DEF Typed, CallsTyped
<1>2. QED
  BY <1>1 DEF Resume, CallRecord

\* The owner works on a step that is not done.
LEMMA StepIsOpenKept ==
    ASSUME Typed, StepIsOpen, NEW c \in Calls, Step(c)
    PROVE  StepIsOpen'
<1>a. call \in [Calls -> CallRecord] /\ step \in [Steps -> Store!RowStatus \cup {"absent"}]
  BY DEF Typed, CallsTyped, Store!TypeOK
<1> SUFFICES ASSUME NEW d \in Calls, Holder(d)', call'[d].pc \in StartPcs \cup AttemptPcs
             PROVE  /\ step'[call'[d].s] # "succeeded"
                    /\ call'[d].pc = "dispatch2" => step'[call'[d].s] = "dispatching"
  BY DEF StepIsOpen, StartPcs
<1>b. CASE d # c
  BY <1>b, OthersFenced, CallStoreStep DEF StepIsOpen
<1>c. CASE d = c
  <2>p. Holder(c)' /\ call'[c].pc \in StartPcs \cup AttemptPcs
    BY <1>c
  <2>a. CASE Elsewhere(c)
    BY <2>a, <2>p, ElsewhereLeavesTheWalk DEF WalkPcs
  <2>b. SUFFICES ASSUME Walking(c)
                 PROVE  /\ step'[call'[c].s] # "succeeded"
                        /\ call'[c].pc = "dispatch2" => step'[call'[c].s] = "dispatching"
    BY <2>a, <1>c, StepIsSomewhere
  <2>c. Holder(c)
    BY <2>p, <2>b, WalkingKeepsTheLease
  <2>d. PICK s \in Steps : s = call[c].s
    BY <1>a DEF CallRecord
  <2>e. /\ call[c].pc \in StartPcs \cup AttemptPcs => step[s] # "succeeded"
        /\ call[c].pc = "dispatch2" => step[s] = "dispatching"
    BY <2>c, <2>d DEF StepIsOpen
  <2> USE DEF At, Go, StartPcs, AttemptPcs
  <2>1. CASE Settle(c)
    <3>1. CASE Resume(c, After(s, res[s]))
      BY <3>1, <1>a, <2>p, AfterFacts DEF Resume, CallRecord
    <3>2. CASE ~Resume(c, After(s, res[s]))
      <4>1. step'[s] # "succeeded" /\ call'[c].s = s /\ call'[c].pc # "dispatch2"
        BY <2>1, <3>2, <1>a, <2>d, <2>p
        DEF Settle, Store!ResetStep, SameStore, storeVars, CallRecord
      <4>2. QED
        BY <4>1
    <3>3. QED
      BY <3>1, <3>2
  <2>2. CASE SucceedStep(c)
    BY <2>2, <2>d, <2>p, AfterFacts, ResumedAt DEF SucceedStep
  <2>3. CASE ProviderReturns(c)
    BY <2>3, <2>d, <2>e, ProviderAnswers DEF ProviderReturns, SameStore, storeVars
  <2>4. CASE BeginAttempt(c) \/ StartProvider(c) \/ RecordAttempt(c)
    <3>1. UNCHANGED step
      BY <2>4 DEF BeginAttempt, StartProvider, RecordAttempt, Store!CreateAttempt,
         Store!TransitionAttempt, Store!TransitionParticipant, SameStore, storeVars
    <3>2. /\ call[c].pc \in AttemptPcs /\ call'[c].s = s
          /\ call'[c].pc # "dispatch2"
      BY <2>4, <1>a, <2>d DEF BeginAttempt, StartProvider, RecordAttempt, CallRecord
    <3>3. QED
      BY <3>1, <3>2, <2>e
  <2>5. CASE Materialize(c)
    BY <2>5, <1>a, <2>d, <2>e, <2>p DEF Materialize, Store!CreateStep, SameStore,
           storeVars, CallRecord
  <2>6. CASE Dispatch(c)
    BY <2>6, <1>a, <2>d, <2>e, <2>p DEF Dispatch, Store!TransitionStep, SameStore,
           storeVars, CallRecord
  <2>7. CASE PrepareParticipant(c)
    BY <2>7, <1>a, <2>d, <2>e, <2>p DEF PrepareParticipant, Store!CreateParticipant,
           SameStore, storeVars, CallRecord
  <2>8. CASE Beat(c) \/ ProviderWrites(c)
    BY <2>8, <1>a, <2>d, <2>e, <2>p DEF Beat, ProviderWrites, Store!Heartbeat,
           SameStore, storeVars, CallRecord, Resume, NextPhase
  <2>9. CASE RecordParticipant(c) \/ Reduce(c)
    BY <2>9, <1>a, <2>d, <2>e, <2>p DEF RecordParticipant, Reduce,
           Store!TransitionParticipant, SameStore, storeVars, CallRecord, Resume,
           NextPhase
  <2>10. CASE CheckpointTree(c) \/ RecordCheckpoint(c)
    BY <2>10, <1>a, <2>d, <2>e, <2>p DEF CheckpointTree, RecordCheckpoint, SameStore,
           storeVars, CallRecord, Resume, NextPhase
  <2>11. CASE BeginAccept(c) \/ PrepareWorkspace(c)
    BY <2>11, <1>a, <2>d, <2>e, <2>p DEF BeginAccept, PrepareWorkspace, SameStore,
           storeVars, CallRecord, Resume, NextPhase
  <2>12. CASE RecordWorkspace(c) \/ OpenWorkspace(c)
    BY <2>12, <1>a, <2>d, <2>e, <2>p DEF RecordWorkspace, OpenWorkspace, SameStore,
           storeVars, CallRecord, Resume, NextPhase
  <2>q. QED
    BY <2>b, <2>1, <2>2, <2>3, <2>4, <2>5, <2>6, <2>7, <2>8, <2>9, <2>10, <2>11, <2>12
       DEF Walking
<1>q. QED
  BY <1>b, <1>c

\* Nothing leads past the architect but consent or an operator's acceptance.
LEMMA WalkHasConsentKept ==
    ASSUME Typed, WalkHasConsent, DecidedPcs, NEW c \in Calls, Step(c)
    PROVE  WalkHasConsent'
<1>a. /\ call \in [Calls -> CallRecord] /\ step \in [Steps -> Store!RowStatus \cup {"absent"}]
      /\ res \in [Steps -> (Outs \ {"bad"}) \cup {"none"}] /\ Architect \in Steps
  BY StepArithmetic DEF Typed, CallsTyped, FilesTyped, Store!TypeOK
<1> SUFFICES ASSUME NEW d \in Calls, Holder(d)', call'[d].pc \in WalkPcs,
                    call'[d].s # Architect
             PROVE  Consented' \/ Accepting(d)'
  BY DEF WalkHasConsent
<1>b. CASE d # c
  BY <1>b, OthersFenced, CallStoreStep DEF WalkHasConsent, Consented, Accepting
<1>c. CASE d = c
  <2>p. Holder(c)' /\ call'[c].pc \in WalkPcs /\ call'[c].s # Architect
    BY <1>c
  <2>a. CASE Elsewhere(c)
    BY <2>a, <2>p, ElsewhereLeavesTheWalk
  <2>b. SUFFICES ASSUME Walking(c) PROVE Consented' \/ Accepting(c)'
    BY <2>a, <1>c, StepIsSomewhere
  <2>c. Holder(c)
    BY <2>p, <2>b, WalkingKeepsTheLease
  <2>d. PICK s \in Steps : s = call[c].s
    BY <1>a DEF CallRecord
  <2>e. call[c].pc \in WalkPcs /\ s # Architect => Consented \/ Accepting(c)
    BY <2>c, <2>d DEF WalkHasConsent
  <2>f. ASSUME UNCHANGED recon, res'[Architect] = res[Architect], Consented PROVE Consented'
    BY <2>f DEF Consented
  <2> USE DEF At, Go, WalkPcs, StartPcs, AttemptPcs, SettlePcs, Consented, Accepting
  <2>1. CASE call'[c].pc = After(s, res[s]).pc /\ call'[c].s = After(s, res[s]).s
             /\ UNCHANGED <<recon, res>> /\ call[c].pc \in {"phase", "stepok"}
    <3>1. CASE s = Architect
      BY <2>1, <2>p, <3>1, AfterFacts
    <3>2. CASE s # Architect
      BY <2>1, <3>2, <2>e
    <3>3. QED
      BY <3>1, <3>2
  <2>2. CASE Settle(c)
    <3>1. CASE Resume(c, After(s, res[s]))
      BY <2>2, <3>1, <2>1, <1>a DEF Settle, Resume, CallRecord, SameStore, storeVars,
         SameBut,
         SameNotes, noteVars, Store!ResetStep
    <3>2. CASE ~Resume(c, After(s, res[s]))
      BY <2>2, <3>2, <1>a, <2>d, <2>e, <2>p
      DEF Settle, Store!ResetStep, SameStore, storeVars, CallRecord, SameBut, SameNotes,
         noteVars
    <3>3. QED
      BY <3>1, <3>2
  <2>3. CASE SucceedStep(c)
    BY <2>3, <2>d, <2>1, ResumedAt DEF SucceedStep, Store!TransitionStep, SameBut,
       SameNotes,
       noteVars
  <2>4. CASE ProviderReturns(c)
    BY <2>4, <2>d, <2>e, <2>p, ProviderAnswers
    DEF ProviderReturns, SameStore, storeVars, SameBut, SameNotes, noteVars
  <2>5. CASE RecordParticipant(c)
    <3>1. UNCHANGED recon /\ call'[c].s = s /\ call[c].pc = "recorded"
          /\ (res' = res \/ res' = [res EXCEPT ![s] = call[c].out])
      BY <2>5, <1>a, <2>d DEF RecordParticipant, Store!TransitionParticipant, CallRecord,
         SameNotes, noteVars
    <3>2. QED
      BY <1>a, <2>e, <2>p, <3>1
  <2>6. CASE BeginAccept(c)
    <3>1. PICK r \in Unknown : call' = [call EXCEPT ![c].pc = "ckptfs", ![c].s = r]
      BY <2>6 DEF BeginAccept
    <3>2. call'[c].pc = "ckptfs" /\ call'[c].act = "accept" /\ call'[c].s = r
      BY <2>6, <3>1, <1>a DEF BeginAccept, DecidedPcs, CallRecord
    <3>3. step'[r] = "unknown"
      BY <2>6 DEF BeginAccept, Unknown, SameStore, storeVars
    <3>4. QED
      BY <3>2, <3>3
  <2>7. CASE PrepareWorkspace(c) \/ RecordWorkspace(c) \/ OpenWorkspace(c)
    BY <2>7, <1>a, <2>p
    DEF PrepareWorkspace, RecordWorkspace, OpenWorkspace, Resume, NextPhase, CallRecord
  <2>8. CASE Materialize(c)
    BY <2>8, <1>a, <2>d, <2>e, <2>p DEF Materialize, Store!CreateStep, SameStore,
           storeVars, SameBut, SameNotes, noteVars, CallRecord
  <2>9. CASE Dispatch(c)
    BY <2>9, <1>a, <2>d, <2>e, <2>p DEF Dispatch, Store!TransitionStep, SameStore,
           storeVars, SameBut, SameNotes, noteVars, CallRecord
  <2>10. CASE PrepareParticipant(c)
    BY <2>10, <1>a, <2>d, <2>e, <2>p DEF PrepareParticipant, Store!CreateParticipant,
           SameStore, storeVars, SameBut, SameNotes, noteVars, CallRecord
  <2>11. CASE BeginAttempt(c)
    BY <2>11, <1>a, <2>d, <2>e, <2>p DEF BeginAttempt, Store!CreateAttempt, SameStore,
           storeVars, SameBut, SameNotes, noteVars, CallRecord
  <2>12. CASE StartProvider(c)
    BY <2>12, <1>a, <2>d, <2>e, <2>p DEF StartProvider, Store!TransitionAttempt,
           Store!TransitionParticipant, SameStore, storeVars, SameBut, SameNotes,
           noteVars, CallRecord
  <2>13. CASE RecordAttempt(c)
    BY <2>13, <1>a, <2>d, <2>e, <2>p DEF RecordAttempt, Store!TransitionAttempt,
           SameStore, storeVars, SameBut, SameNotes, noteVars, CallRecord
  <2>14. CASE Beat(c)
    BY <2>14, <1>a, <2>d, <2>e, <2>p DEF Beat, Store!Heartbeat, SameStore, storeVars,
           SameBut, SameNotes, noteVars, CallRecord
  <2>15. CASE ProviderWrites(c)
    BY <2>15, <1>a, <2>d, <2>e, <2>p DEF ProviderWrites, SameStore, storeVars,
           SameBut, SameNotes, noteVars, CallRecord
  <2>16. CASE Reduce(c)
    BY <2>16, <1>a, <2>d, <2>e, <2>p DEF Reduce, SameStore, storeVars, SameBut,
           SameNotes, noteVars, CallRecord
  <2>17. CASE CheckpointTree(c)
    BY <2>17, <1>a, <2>d, <2>e, <2>p DEF CheckpointTree, SameStore, storeVars,
           SameBut, SameNotes, noteVars, CallRecord
  <2>18. CASE RecordCheckpoint(c)
    BY <2>18, <1>a, <2>d, <2>e, <2>p DEF RecordCheckpoint, SameStore, storeVars,
           SameBut, SameNotes, noteVars, CallRecord
  <2>q. QED
    BY <2>b, <2>2, <2>3, <2>4, <2>5, <2>6, <2>7, <2>8, <2>9, <2>10, <2>11, <2>12, <2>13,
       <2>14, <2>15, <2>16, <2>17, <2>18 DEF Walking
<1>q. QED
  BY <1>b, <1>c

\* The places from which a call moves the run row.
LEMMA MovePcsAre ==
    MovePcs = {"begin", "restart", "authorize", "authorized", "decline", "mark_failed",
               "discarded", "resolve", "resolved", "pause", "blocked", "needs", "finalize",
               "approve", "applied", "park", "broken", "r_mark", "r_finish"}
BY DEF MovePcs, RunMoves

\* Only an operator's decision leads to where writes in doubt are settled.
LEMMA DecidedPcsKept ==
    ASSUME Typed, DecidedPcs, NEW c \in Calls, Step(c)
    PROVE  DecidedPcs'
<1>a. call \in [Calls -> CallRecord] /\ recon \in Recons
  BY DEF Typed, CallsTyped, Store!TypeOK
<1> DEFINE Decided == /\ c \in RunCalls \/ call'[c].pc \in OutsidePcs
                      /\ call'[c].pc \in {"restore", "restorefs", "reset"}
                           => call'[c].act = "restore"
                      /\ call'[c].pc \in {"accept", "acceptstep"} => call'[c].act = "accept"
<1>b. SUFFICES Decided
  BY CallStoreStep DEF StoreStep, DecidedPcs
<1>c. /\ c \in RunCalls \/ call[c].pc \in OutsidePcs
      /\ call[c].pc \in {"restore", "restorefs", "reset"} => call[c].act = "restore"
      /\ call[c].pc \in {"accept", "acceptstep"} => call[c].act = "accept"
  BY DEF DecidedPcs
<1> USE DEF At, Go, OutsidePcs
<1>1. CASE Decide(c)
  <2>1. PICK act : call'[c].act = act /\ call'[c].pc = DecisionPc(act)
    BY <1>1, <1>a DEF Decide, CallRecord
  <2>2. DecisionPc(act) \notin {"restorefs", "reset", "acceptstep"}
    BY DEF DecisionPc
  <2>3. /\ DecisionPc(act) = "restore" => act = "restore"
        /\ DecisionPc(act) = "accept" => act = "accept"
    BY DEF DecisionPc
  <2>4. QED
    BY <1>1, <1>c, <2>1, <2>2, <2>3 DEF Decide
<1>2. CASE MoveRun(c)
  <2>1. PICK next \in {"workspace", "begin", "authorized", "resolved", "leave", "publish",
                       "cleanup", "r_steps"} :
             /\ call' = [call EXCEPT ![c].pc = next]
             /\ next = RunMoves(c)[call[c].pc].next /\ call[c].pc \in MovePcs
    BY <1>2, <1>a, MoveFacts DEF MoveRun
  <2>2. call[c].pc \in {"r_mark", "r_finish"} => next \in {"r_steps", "leave"}
    BY <2>1 DEF RunMoves, Move, RecoveredAs
  <2>3. call[c].pc \in OutsidePcs => call[c].pc \in {"r_mark", "r_finish"}
    BY <2>1, MovePcsAre
  <2>4. QED
    BY <1>a, <1>c, <2>1, <2>2, <2>3 DEF CallRecord
<1>3. CASE MoveIsIllegal(c)
  BY <1>3, <1>a, <1>c, MovePcsAre DEF MoveIsIllegal, LastResort, CallRecord
<1>4. CASE Settle(c) \/ SucceedStep(c)
  <2>1. c \in RunCalls
    BY <1>4, <1>c DEF Settle, SucceedStep
  <2>2. CASE \E to : Resume(c, to) /\ to.pc \in {"pause", "phase", "needs", "finalize"}
    BY <2>1, <2>2, ResumedAt
  <2>3. CASE \E pc \in {"cancelling", "blocked", "materialize"} : Go(c, pc)
    BY <2>1, <2>3, <1>a DEF CallRecord
  <2>4. call[c].s \in Steps
    BY <1>a DEF CallRecord
  <2>5. QED
    BY <1>4, <2>2, <2>3, <2>4, AfterFacts DEF Settle, SucceedStep
<1>5. CASE PrepareWorkspace(c) \/ RecordWorkspace(c) \/ OpenWorkspace(c)
  <2>1. c \in RunCalls
    BY <1>5, <1>c DEF PrepareWorkspace, RecordWorkspace, OpenWorkspace
  <2>2. CASE Resume(c, NextPhase(Architect))
    BY <2>1, <2>2, ResumedAt DEF NextPhase
  <2>3. CASE \E pc \in {"preparing", "park"} : Go(c, pc)
    BY <2>1, <2>3, <1>a DEF CallRecord
  <2>5. QED
    BY <1>5, <2>2, <2>3 DEF PrepareWorkspace, RecordWorkspace, OpenWorkspace
<1>6. CASE ProviderReturns(c)
  BY <1>6, <1>c, ProviderAnswers
<1>7. CASE Leave(c)
  BY <1>7, <1>a DEF Leave, NewCall
<1>8. CASE Submit(c) \/ Enter(c) \/ Branch(c)
  BY <1>8, <1>a, <1>c DEF Submit, Enter, AcquireTo, Refused, Branch, EnteredPc,
         CallRecord
<1>9. CASE BeginRestore(c) \/ RestoreTree(c) \/ RestoreWorktree(c)
  BY <1>9, <1>a, <1>c DEF BeginRestore, RestoreTree, RestoreWorktree, CallRecord
<1>10. CASE ResetUnknown(c)
  BY <1>10, <1>a, <1>c DEF ResetUnknown, CallRecord
<1>r. CASE AcceptUnknown(c)
  BY <1>r, <1>a, <1>c DEF AcceptUnknown, CallRecord
<1>s. CASE BeginAccept(c)
  BY <1>s, <1>a, <1>c DEF BeginAccept, CallRecord
<1>11. CASE BeginDiscard(c) \/ DiscardTree(c) \/ CopyWorkspace(c)
  BY <1>11, <1>a, <1>c DEF BeginDiscard, DiscardTree, CopyWorkspace, CallRecord
<1>12. CASE Materialize(c) \/ Dispatch(c) \/ PrepareParticipant(c)
  BY <1>12, <1>a, <1>c DEF Materialize, Dispatch, PrepareParticipant, CallRecord
<1>13. CASE BeginAttempt(c) \/ StartProvider(c) \/ RecordAttempt(c)
  BY <1>13, <1>a, <1>c DEF BeginAttempt, StartProvider, RecordAttempt, CallRecord
<1>14. CASE RecordParticipant(c) \/ Reduce(c) \/ CheckpointTree(c)
  BY <1>14, <1>a, <1>c DEF RecordParticipant, Reduce, CheckpointTree, CallRecord
<1>15. CASE RecordCheckpoint(c) \/ FailStep(c) \/ StepIsIllegal(c)
  BY <1>15, <1>a, <1>c DEF RecordCheckpoint, FailStep, StepIsIllegal, CallRecord
<1>16. CASE ProviderWrites(c) \/ Beat(c) \/ BeginPublish(c)
  BY <1>16, <1>a, <1>c DEF ProviderWrites, Beat, BeginPublish, CallRecord
<1>17. CASE ApplyPatch(c) \/ Preflight(c) \/ ApplyOperation(c)
  BY <1>17, <1>a, <1>c DEF ApplyPatch, Preflight, ApplyOperation, CallRecord
<1>18. CASE FinishPublish(c) \/ CleanUp(c) \/ RecoverScan(c)
  BY <1>18, <1>a, <1>c DEF FinishPublish, CleanUp, RecoverScan, CallRecord
<1>19. CASE RecoverAcquire(c) \/ RecoverRead(c) \/ RecoverSteps(c)
  BY <1>19, <1>a, <1>c DEF RecoverAcquire, AcquireTo, Refused, RecoverRead,
         RecoverSteps, CallRecord
<1>20. CASE RequestCancel(c) \/ CancelAcquire(c) \/ FinishCancel(c)
  BY <1>20, <1>a, <1>c DEF RequestCancel, CancelAcquire, AcquireTo, Refused,
         FinishCancel, CallRecord
<1>21. CASE Lost(c) \/ Crash(c)
  BY <1>21, <1>a, <1>c DEF Lost, Crash, CallRecord
<1>q. QED
  BY <1>1, <1>2, <1>3, <1>4, <1>5, <1>6, <1>7, <1>8, <1>9, <1>10, <1>11, <1>12, <1>13,
     <1>14, <1>15, <1>16, <1>17, <1>18, <1>19, <1>20, <1>21, <1>r, <1>s
  DEF Step, Progress, Deciding, Opening, Executing, Providing, Publishing, Recovering,
      Cancelling

\* After a cancel request the run only ever ends cancelled or failed.
LEMMA CancelIsStickyKept ==
    ASSUME Typed, CancelIsSticky, NEW c \in Calls, Step(c)
    PROVE  CancelIsSticky'
<1>a. status \in Store!RunStatus /\ recon \in Recons
  BY DEF Typed, Store!TypeOK
<1> USE DEF CancelIsSticky, Store!Legal
<1>1. CASE MoveRun(c)
  <2>1. PICK to \in Store!RunStatus \ {"unknown", "pending", "cancelling"},
  value \in Recons :
             Store!TransitionRun(Tok(c), to, value)
    BY <1>1, <1>a, MoveFacts DEF MoveRun
  <2>2. QED
    BY <2>1 DEF Store!TransitionRun, Store!RunTransitions, Store!RunStatus
<1>2. CASE RequestCancel(c)
  BY <1>2 DEF RequestCancel, Store!RequestCancellation, SameStore, storeVars
<1>3. CASE FinishCancel(c)
  BY <1>3 DEF FinishCancel, Store!FinalizeCancellation, SameStore, storeVars
<1>4. CASE
    \/ Submit(c) \/ Enter(c) \/ Branch(c) \/ MoveIsIllegal(c) \/ Decide(c)
    \/ BeginRestore(c) \/ RestoreTree(c) \/ RestoreWorktree(c) \/ ResetUnknown(c)
    \/ BeginAccept(c) \/ AcceptUnknown(c) \/ BeginDiscard(c) \/ DiscardTree(c)
    \/ PrepareWorkspace(c) \/ CopyWorkspace(c) \/ RecordWorkspace(c)
    \/ OpenWorkspace(c) \/ Settle(c) \/ Materialize(c) \/ Dispatch(c)
    \/ PrepareParticipant(c) \/ BeginAttempt(c) \/ StartProvider(c)
    \/ RecordAttempt(c) \/ RecordParticipant(c) \/ Reduce(c) \/ CheckpointTree(c)
    \/ RecordCheckpoint(c) \/ SucceedStep(c) \/ FailStep(c) \/ StepIsIllegal(c)
    \/ ProviderWrites(c) \/ Beat(c) \/ ProviderReturns(c) \/ BeginPublish(c)
    \/ ApplyPatch(c) \/ Preflight(c) \/ ApplyOperation(c) \/ FinishPublish(c)
    \/ CleanUp(c) \/ RecoverScan(c) \/ RecoverAcquire(c) \/ RecoverRead(c)
    \/ RecoverSteps(c) \/ CancelAcquire(c) \/ Leave(c) \/ Lost(c) \/ Crash(c)
  BY <1>4 DEF Submit, Enter, AcquireTo, Refused, Branch, EnteredPc, MoveIsIllegal,
         Decide, DecisionPc, Allowed, WorkspaceActions, BeginRestore, RestoreTree,
         RestoreWorktree, ResetUnknown, BeginAccept, AcceptUnknown, BeginDiscard,
         DiscardTree, PrepareWorkspace, CopyWorkspace, RecordWorkspace, OpenWorkspace,
         Settle, Materialize, Dispatch, PrepareParticipant, BeginAttempt,
         StartProvider, RecordAttempt, RecordParticipant, Reduce, CheckpointTree,
         RecordCheckpoint, SucceedStep, FailStep, StepIsIllegal, ProviderWrites, Beat,
         ProviderReturns, BeginPublish, ApplyPatch, Preflight, ApplyOperation,
         FinishPublish, CleanUp, RecoverScan, RecoverAcquire, RecoverRead,
         RecoverSteps, CancelAcquire, Leave, Lost, Crash, Store!AcquireLease,
         Store!ResetStep, Store!AcceptStep, Store!CreateStep, Store!TransitionStep,
         Store!CreateParticipant, Store!CreateAttempt, Store!TransitionAttempt,
         Store!TransitionParticipant, Store!Heartbeat, Store!ClassifyStaleAttempt,
         Store!ReleaseLease, SameStore, storeVars
<1>q. QED
  BY <1>1, <1>2, <1>3, <1>4
  DEF Step, Progress, Deciding, Opening, Executing, Providing, Publishing, Recovering,
      Cancelling

\* The lists of attempts, for the facts about the store.
LEMMA AttemptLists ==
    ASSUME Typed
    PROVE  att \in [Steps -> Seq(RowFacts!Attempt)]
BY DEF Typed, Store!TypeOK, RowFacts!Attempt, Store!Attempt, RowFacts!AttemptStatus,
       Store!AttemptStatus, RowFacts!AttemptTransitions, Store!AttemptTransitions

\* Recording how an attempt went makes no list longer.
LEMMA RecordingAddsNothing ==
    ASSUME Typed, NEW t, NEW s \in Steps, NEW i, NEW target \in Store!AttemptStatus,
           \/ Store!TransitionAttempt(t, s, i, target)
           \/ Store!ClassifyStaleAttempt(t, s, i, target)
           \/ Store!FinalizeCancellation(t)
    PROVE  \A r \in Steps : Len(att'[r]) = Len(att[r])
<1>a. target \in RowFacts!AttemptStatus
  BY DEF RowFacts!AttemptStatus, Store!AttemptStatus, RowFacts!AttemptTransitions,
         Store!AttemptTransitions
<1>1. CASE Store!FinalizeCancellation(t)
  <2>1. att' = [p \in Steps |-> [j \in 1..Len(att[p]) |-> RowFacts!CancelAttempt(att[p][j])]]
    BY <1>1 DEF Store!FinalizeCancellation, Store!CancelAttempt, RowFacts!CancelAttempt,
       Store!OpenAttempt, RowFacts!OpenAttempt
  <2>2. QED
    BY <2>1, AttemptLists, RowFacts!CancelUpdate, Assumptions
<1>2. CASE \/ Store!TransitionAttempt(t, s, i, target)
           \/ Store!ClassifyStaleAttempt(t, s, i, target)
  <2>1. i \in 1..Len(att[s]) /\ att' = [att EXCEPT ![s][i].status = target]
    BY <1>2 DEF Store!TransitionAttempt, Store!ClassifyStaleAttempt
  <2>2. QED
    BY <1>a, <2>1, AttemptLists, RowFacts!StatusUpdate, Assumptions
<1>3. QED
  BY <1>1, <1>2

\* The only action that adds an attempt: _execute_participant, for the step the
\* call is at.
LEMMA AttemptBegun ==
    ASSUME Typed, NEW c \in Calls, Step(c), NEW s \in Steps, Len(att'[s]) > Len(att[s])
    PROVE  BeginAttempt(c) /\ call[c].s = s /\ call[c].pc = "attempt" /\ Holds(c) /\ ~CancelSeen
<1>a. /\ call \in [Calls -> CallRecord] /\ call[c].s \in Steps
      /\ att \in [Steps -> Seq(Store!Attempt)] /\ Len(att[s]) \in Nat
      /\ {"running", "failed", "succeeded", "unknown", "interrupted"}
           \subseteq Store!AttemptStatus
  BY DEF Typed, CallsTyped, CallRecord, Store!TypeOK, Store!AttemptStatus,
         Store!AttemptTransitions
<1> USE DEF SameStore, storeVars
<1>n. ~(Len(att'[s]) = Len(att[s])) /\ ~UNCHANGED att
  BY <1>a
<1>1. CASE BeginAttempt(c)
  BY <1>1, <1>a, <1>n DEF BeginAttempt, Store!CreateAttempt, Holds, At
<1>2. CASE StartProvider(c) \/ RecordAttempt(c)
  BY <1>2, <1>a, <1>n, RecordingAddsNothing
  DEF StartProvider, RecordAttempt, Store!TransitionParticipant
<1>3. CASE RecoverSteps(c)
  BY <1>3, <1>a, <1>n, RecordingAddsNothing DEF RecoverSteps, Store!TransitionStep, Doubt
<1>4. CASE FinishCancel(c)
  BY <1>4, <1>a, <1>n, RecordingAddsNothing DEF FinishCancel
<1>5. CASE
    \/ Submit(c) \/ Enter(c) \/ Branch(c) \/ MoveRun(c) \/ MoveIsIllegal(c)
    \/ Decide(c) \/ BeginRestore(c) \/ RestoreTree(c) \/ RestoreWorktree(c)
    \/ ResetUnknown(c) \/ BeginAccept(c) \/ AcceptUnknown(c) \/ BeginDiscard(c)
    \/ DiscardTree(c) \/ PrepareWorkspace(c) \/ CopyWorkspace(c)
    \/ RecordWorkspace(c) \/ OpenWorkspace(c) \/ Settle(c) \/ Materialize(c)
    \/ Dispatch(c) \/ PrepareParticipant(c) \/ RecordParticipant(c) \/ Reduce(c)
    \/ CheckpointTree(c) \/ RecordCheckpoint(c) \/ SucceedStep(c) \/ FailStep(c)
    \/ StepIsIllegal(c) \/ ProviderWrites(c) \/ Beat(c) \/ ProviderReturns(c)
    \/ BeginPublish(c) \/ ApplyPatch(c) \/ Preflight(c) \/ ApplyOperation(c)
    \/ FinishPublish(c) \/ CleanUp(c) \/ RecoverScan(c) \/ RecoverAcquire(c)
    \/ RecoverRead(c) \/ RequestCancel(c) \/ CancelAcquire(c) \/ Leave(c) \/ Lost(c)
    \/ Crash(c)
  BY <1>5, <1>n DEF Submit, Enter, AcquireTo, Refused, Branch, EnteredPc, MoveRun,
         MoveIsIllegal, Decide, DecisionPc, Allowed, WorkspaceActions, BeginRestore,
         RestoreTree, RestoreWorktree, ResetUnknown, BeginAccept, AcceptUnknown,
         BeginDiscard, DiscardTree, PrepareWorkspace, CopyWorkspace, RecordWorkspace,
         OpenWorkspace, Settle, Materialize, Dispatch, PrepareParticipant,
         RecordParticipant, Reduce, CheckpointTree, RecordCheckpoint, SucceedStep,
         FailStep, StepIsIllegal, ProviderWrites, Beat, ProviderReturns, BeginPublish,
         ApplyPatch, Preflight, ApplyOperation, FinishPublish, CleanUp, RecoverScan,
         RecoverAcquire, RecoverRead, RequestCancel, CancelAcquire, Leave, Lost,
         Crash, Store!AcquireLease, Store!TransitionRun, Store!ResetStep,
         Store!AcceptStep, Store!CreateStep, Store!TransitionStep,
         Store!CreateParticipant, Store!TransitionParticipant, Store!Heartbeat,
         Store!RequestCancellation, Store!ReleaseLease
<1>q. QED
  BY <1>1, <1>2, <1>3, <1>4, <1>5 DEF Step, Progress, Deciding, Opening, Executing,
     Providing, Publishing, Recovering, Cancelling

\* What takes a write in doubt any further: the reset and the acceptance that an
\* operator asked for.
LEMMA DoubtSettled ==
    ASSUME Typed, StepIsOpen, NEW c \in Calls, Step(c), NEW s \in Writers,
           step[s] = "unknown", step'[s] \in {"pending", "running", "succeeded"}
    PROVE  ResetUnknown(c) \/ AcceptUnknown(c)
<1>a. /\ call \in [Calls -> CallRecord] /\ call[c].s \in Steps /\ s \in Steps
      /\ step \in [Steps -> Store!RowStatus \cup {"absent"}]
  BY StepArithmetic DEF Typed, CallsTyped, CallRecord, Store!TypeOK
<1> USE DEF SameStore, storeVars
<1>1. CASE Settle(c)
  BY <1>1, <1>a DEF Settle, Store!ResetStep
<1>2. CASE Dispatch(c)
  <2>1. Holder(c) /\ call[c].s = s /\ step'[s] \in {"dispatching", "running"}
    BY <1>2, <1>a, HolderHolds DEF Dispatch, Store!TransitionStep
  <2>2. QED
    BY <1>2, <1>a, <2>1 DEF Dispatch, At, Store!TransitionStep, StepIsOpen
<1>3. CASE SucceedStep(c) \/ FailStep(c)
  BY <1>3, <1>a DEF SucceedStep, FailStep, Store!TransitionStep, Store!Legal,
     Store!StepTransitions
<1>4. CASE RecoverSteps(c)
  BY <1>4, <1>a DEF RecoverSteps, Store!TransitionStep, Store!ClassifyStaleAttempt, Doubt
<1>5. CASE FinishCancel(c)
  BY <1>5, <1>a DEF FinishCancel, Store!FinalizeCancellation, Store!CancelRow, Store!OpenRow
<1>6. CASE Materialize(c)
  BY <1>6, <1>a DEF Materialize, Store!CreateStep
<1>7. CASE
    \/ Submit(c) \/ Enter(c) \/ Branch(c) \/ MoveRun(c) \/ MoveIsIllegal(c)
    \/ Decide(c) \/ BeginRestore(c) \/ RestoreTree(c) \/ RestoreWorktree(c)
    \/ BeginAccept(c) \/ BeginDiscard(c) \/ DiscardTree(c) \/ PrepareWorkspace(c)
    \/ CopyWorkspace(c) \/ RecordWorkspace(c) \/ OpenWorkspace(c)
    \/ PrepareParticipant(c) \/ BeginAttempt(c) \/ StartProvider(c)
    \/ RecordAttempt(c) \/ RecordParticipant(c) \/ Reduce(c) \/ CheckpointTree(c)
    \/ RecordCheckpoint(c) \/ StepIsIllegal(c) \/ ProviderWrites(c) \/ Beat(c)
    \/ ProviderReturns(c) \/ BeginPublish(c) \/ ApplyPatch(c) \/ Preflight(c)
    \/ ApplyOperation(c) \/ FinishPublish(c) \/ CleanUp(c) \/ RecoverScan(c)
    \/ RecoverAcquire(c) \/ RecoverRead(c) \/ RequestCancel(c) \/ CancelAcquire(c)
    \/ Leave(c) \/ Lost(c) \/ Crash(c)
  BY <1>7 DEF Submit, Enter, AcquireTo, Refused, Branch, EnteredPc, MoveRun,
         MoveIsIllegal, Decide, DecisionPc, Allowed, WorkspaceActions, BeginRestore,
         RestoreTree, RestoreWorktree, BeginAccept, BeginDiscard, DiscardTree,
         PrepareWorkspace, CopyWorkspace, RecordWorkspace, OpenWorkspace,
         PrepareParticipant, BeginAttempt, StartProvider, RecordAttempt,
         RecordParticipant, Reduce, CheckpointTree, RecordCheckpoint, StepIsIllegal,
         ProviderWrites, Beat, ProviderReturns, BeginPublish, ApplyPatch, Preflight,
         ApplyOperation, FinishPublish, CleanUp, RecoverScan, RecoverAcquire,
         RecoverRead, RequestCancel, CancelAcquire, Leave, Lost, Crash,
         Store!AcquireLease, Store!TransitionRun, Store!CreateParticipant,
         Store!CreateAttempt, Store!TransitionAttempt, Store!TransitionParticipant,
         Store!Heartbeat, Store!RequestCancellation, Store!ReleaseLease
<1>8. CASE ResetUnknown(c) \/ AcceptUnknown(c)
  BY <1>8
<1>q. QED
  BY <1>1, <1>2, <1>3, <1>4, <1>5, <1>6, <1>7, <1>8 DEF Step, Progress, Deciding, Opening,
     Executing, Providing, Publishing, Recovering, Cancelling

-----------------------------------------------------------------------------
(* The invariant and what follows from it. *)

\* Nothing has started in the initial state.
LEMMA InitInv == Init => IInv
<1> SUFFICES ASSUME Init PROVE IInv
  OBVIOUS
<1>1. Typed
  BY InitTyped
<1>2. /\ \A s \in Steps : step[s] = "absent"
      /\ \A c \in Calls : call[c].pc = "new"
      /\ cancel = FALSE
  BY DEF Init, Store!Init, NewCall
<1>3. RowsInOrder /\ PhaseIsReady /\ StepIsOpen /\ WalkHasConsent /\ DecidedPcs /\ CancelIsSticky
  BY <1>2 DEF RowsInOrder, PhaseIsReady, StepIsOpen, StartPcs, AttemptPcs, SettlePcs,
     WalkPcs,
     WalkHasConsent, DecidedPcs, OutsidePcs, CancelIsSticky
<1>4. QED
  BY <1>1, <1>3 DEF IInv

\* A lease that expires, and a step of nobody, change nothing the invariant
\* speaks of: who is in the row stays there.
LEMMA NobodyMoves ==
    ASSUME IInv, LeaseExpires \/ UNCHANGED vars
    PROVE  IInv'
<1>1. Typed'
  BY StepTyped DEF IInv, Next
<1>2. UNCHANGED <<step, res, call, recon, cancel, status>>
  BY DEF LeaseExpires, Store!LeaseExpires, vars, storeVars, noteVars
<1>3. lease'.owner = lease.owner /\ lease'.epoch = lease.epoch
  BY DEF LeaseExpires, Store!LeaseExpires, vars, storeVars, IInv, Typed, Store!TypeOK
<1>4. QED
  BY <1>1, <1>2, <1>3 DEF IInv, RowsInOrder, Ready, PhaseIsReady, StepIsOpen,
     WalkHasConsent,
     Consented, Accepting, DecidedPcs, CancelIsSticky, Holder

\* Every step keeps the invariant.
LEMMA StepInv == IInv /\ [Next]_vars => IInv'
<1> SUFFICES ASSUME IInv, [Next]_vars PROVE IInv'
  OBVIOUS
<1>1. ASSUME NEW c \in Calls, Step(c) PROVE IInv'
  BY <1>1, StepTyped, RowsInOrderKept, PhaseIsReadyKept, StepIsOpenKept,
     WalkHasConsentKept, DecidedPcsKept, CancelIsStickyKept DEF IInv
<1>2. QED
  BY <1>1, NobodyMoves, StepIsOfTheStore DEF IInv

\* The inductive invariant of the walk through the phases.
THEOREM Invariance == Spec => []IInv
BY InitInv, StepInv, PTL DEF Spec

\* The rows of a run fit together: phases in order, a fix round only after
\* blockers, and a run that a person cancelled never completes as anything
\* else, for any calls, rounds, crashes and takeovers.
THEOREM RunsAreSound == Spec => []RunIsSound
<1>1. IInv => RunIsSound
  <2> SUFFICES ASSUME IInv PROVE RunIsSound
    OBVIOUS
  <2>1. TypeOK
    BY DEF IInv, Typed, CallsTyped, FilesTyped, TypeOK, CallRecord, Outs, Spaces, PubRows
  <2>2. PhasesInOrder
    <3> SUFFICES ASSUME NEW s \in Steps \ {Architect}, step[s] \notin {"absent", "cancelled"}
                 PROVE  /\ step[s - 1] = "succeeded"
                        /\ s \in Writers /\ s > 2 => res[s - 1] = "blockers"
      BY DEF PhasesInOrder
    <3>1. s - 1 \in Steps /\ s - 1 < s /\ Ready(s)
      BY StepArithmetic DEF IInv, RowsInOrder, Steps
    <3>2. s \in Writers /\ s > 2 => s - 1 \in Reviews
      BY <3>1 DEF Writers, Reviews, Steps, Architect
    <3>3. QED
      BY <3>1, <3>2 DEF Ready
  <2>3. QED
    BY <2>1, <2>2 DEF IInv, RunIsSound
<1>2. QED
  BY <1>1, Invariance, PTL

\* A write whose effects are unknown is never retried blindly: whoever resets
\* it or takes it for done is a call of run() with an operator's decision.
THEOREM DoubtIsDecided == Spec => DoubtNeedsDecision
<1>1. IInv /\ [Next]_vars =>
        [\A s \in Writers :
           step[s] = "unknown" /\ step'[s] \in {"pending", "running", "succeeded"}
           => \E c \in RunCalls : Holds(c) /\ call[c].act \in {"restore", "accept"}]_vars
  <2> SUFFICES ASSUME IInv, [Next]_vars, NEW s \in Writers, step[s] = "unknown",
                      step'[s] \in {"pending", "running", "succeeded"}
               PROVE  \E c \in RunCalls : Holds(c) /\ call[c].act \in {"restore", "accept"}
    OBVIOUS
  <2>1. PICK c \in Calls : Step(c)
    BY StepIsOfTheStore DEF IInv, LeaseExpires, Store!LeaseExpires, vars, storeVars
  <2>2. ResetUnknown(c) \/ AcceptUnknown(c)
    BY <2>1, DoubtSettled DEF IInv
  <2>3. call[c].pc \in {"reset", "acceptstep"} /\ Holds(c)
    BY <2>2 DEF ResetUnknown, AcceptUnknown, At, Holds, Store!ResetStep, Store!AcceptStep
  <2>4. c \in RunCalls /\ call[c].act \in {"restore", "accept"}
    BY <2>3 DEF IInv, DecidedPcs, OutsidePcs
  <2>5. QED
    BY <2>3, <2>4
<1>2. QED
  BY <1>1, Invariance, PTL DEF Spec, DoubtNeedsDecision

\* No writer is dispatched before consent where the architect asked for it,
\* through every resume, takeover and operator decision.
THEOREM WritesAwaitConsent == Spec => WritesNeedConsent
<1>1. IInv /\ [Next]_vars =>
        [\A s \in Writers :
           Len(att'[s]) > Len(att[s]) /\ NeedsConsent /\ res[Architect] = "write"
           => recon = "granted"]_vars
  <2> SUFFICES ASSUME IInv, [Next]_vars, NEW s \in Writers, Len(att'[s]) > Len(att[s]),
                      NeedsConsent, res[Architect] = "write"
               PROVE  recon = "granted"
    OBVIOUS
  <2>1. s \in Steps /\ s # Architect
    BY StepArithmetic
  <2>2. ~UNCHANGED att
    <3>1. Len(att[s]) \in Nat
      BY <2>1 DEF IInv, Typed, Store!TypeOK
    <3>2. QED
      BY <3>1
  <2>3. PICK c \in Calls : Step(c)
    BY <2>2, StepIsOfTheStore DEF IInv, LeaseExpires, Store!LeaseExpires, vars, storeVars
  <2>4. call[c].s = s /\ call[c].pc = "attempt" /\ Holder(c)
    BY <2>1, <2>3, AttemptBegun, HolderHolds DEF IInv, Holds
  <2>5. Consented \/ Accepting(c)
    BY <2>1, <2>4 DEF IInv, WalkHasConsent, WalkPcs, AttemptPcs
  <2>6. QED
    BY <2>4, <2>5 DEF Consented, Accepting
<1>2. QED
  BY <1>1, Invariance, PTL DEF Spec, WritesNeedConsent

-----------------------------------------------------------------------------
(***************************************************************************)
(* What isolation promises to the person whose folder a run works on: the  *)
(* original changes only after a review without blockers or by an          *)
(* operator's decision, a publication is complete when its journal says    *)
(* so, a protected copy is never lost while it is half applied, no writer  *)
(* builds on the leftovers of another, and an approved run left in the     *)
(* original exactly what its review saw.                                   *)
(***************************************************************************)

(* What one step of one call changes. *)

\* Which actions touch the files of a run.
LEMMA FilesChanged ==
    ASSUME NEW c \in Calls, Step(c)
    PROVE  /\ orig' # orig => ApplyPatch(c) \/ ApplyOperation(c)
           /\ pub' # pub => \/ BeginPublish(c) \/ Preflight(c) \/ ApplyOperation(c)
                            \/ FinishPublish(c)
           /\ space' # space => \/ RestoreWorktree(c) \/ DiscardTree(c)
                                \/ PrepareWorkspace(c) \/ CopyWorkspace(c)
                                \/ OpenWorkspace(c) \/ CleanUp(c)
           /\ tree' # tree => \/ RestoreTree(c) \/ RestoreWorktree(c)
                              \/ OpenWorkspace(c) \/ ProviderWrites(c)
           /\ head' # head => \/ RestoreWorktree(c) \/ OpenWorkspace(c)
                              \/ CheckpointTree(c)
           /\ reviewed' # reviewed => RecordParticipant(c)
<1> USE DEF SameFiles, SameNotes, SameBut, fileVars, noteVars
<1>1. CASE
   \/ RestoreTree(c) \/ RestoreWorktree(c) \/ DiscardTree(c) \/ PrepareWorkspace(c)
  BY <1>1 DEF RestoreTree, RestoreWorktree, DiscardTree, PrepareWorkspace, Resume,
       NextPhase
<1>2. CASE
   \/ CopyWorkspace(c) \/ OpenWorkspace(c) \/ ProviderWrites(c) \/ CheckpointTree(c)
  BY <1>2 DEF CopyWorkspace, OpenWorkspace, ProviderWrites, CheckpointTree, Resume,
       NextPhase
<1>3. CASE
   \/ RecordCheckpoint(c) \/ BeginPublish(c) \/ Preflight(c) \/ ApplyPatch(c)
  BY <1>3 DEF RecordCheckpoint, BeginPublish, Preflight, ApplyPatch
<1>4. CASE
   \/ ApplyOperation(c) \/ FinishPublish(c) \/ CleanUp(c) \/ RecordParticipant(c)
  BY <1>4 DEF ApplyOperation, FinishPublish, CleanUp, RecordParticipant
<1>5. CASE AcceptUnknown(c)
  BY <1>5 DEF AcceptUnknown
<1>6. CASE
   \/ Submit(c) \/ Enter(c) \/ Branch(c) \/ MoveRun(c) \/ MoveIsIllegal(c)
   \/ Decide(c) \/ BeginRestore(c) \/ ResetUnknown(c) \/ BeginAccept(c)
   \/ BeginDiscard(c) \/ RecordWorkspace(c) \/ Settle(c) \/ Materialize(c)
   \/ Dispatch(c) \/ PrepareParticipant(c) \/ BeginAttempt(c) \/ StartProvider(c)
   \/ RecordAttempt(c) \/ Reduce(c) \/ SucceedStep(c) \/ FailStep(c)
   \/ StepIsIllegal(c) \/ Beat(c) \/ ProviderReturns(c) \/ RecoverScan(c)
   \/ RecoverAcquire(c) \/ RecoverRead(c) \/ RecoverSteps(c) \/ RequestCancel(c)
   \/ CancelAcquire(c) \/ FinishCancel(c) \/ Leave(c) \/ Lost(c) \/ Crash(c)
  BY <1>6 DEF Submit, Enter, AcquireTo, Refused, Branch, EnteredPc, MoveRun,
       MoveIsIllegal, Decide, DecisionPc, Allowed, WorkspaceActions, BeginRestore,
       ResetUnknown, BeginAccept, BeginDiscard, RecordWorkspace, Settle, Materialize,
       Dispatch, PrepareParticipant, BeginAttempt, StartProvider, RecordAttempt,
       Reduce, SucceedStep, FailStep, StepIsIllegal, Beat, ProviderReturns,
       RecoverScan, RecoverAcquire, RecoverRead, RecoverSteps, RequestCancel,
       CancelAcquire, FinishCancel, Leave, Lost, Crash, Unknown, Resume, NextPhase
<1>q. QED
  BY <1>1, <1>2, <1>3, <1>4, <1>5, <1>6
  DEF Step, Progress, Deciding, Opening, Executing, Providing, Publishing, Recovering,
      Cancelling

\* How a call gets to the places that the invariants below speak of.
LEMMA Arrivals ==
    ASSUME Typed, NEW c \in Calls, Step(c)
    PROVE  /\ call'[c].pc = "reconcile" => Branch(c)
           /\ call'[c].pc \in {"preparing", "prepared"} =>
                PrepareWorkspace(c) \/ CopyWorkspace(c)
           /\ call'[c].pc = "reduce" => PrepareParticipant(c) \/ RecordParticipant(c)
           /\ call'[c].pc = "ckptfs" => Reduce(c) \/ BeginAccept(c)
           /\ call'[c].pc = "ckptdb" => CheckpointTree(c)
           /\ call'[c].pc = "acceptstep" => RecordCheckpoint(c)
           /\ call'[c].pc = "stepok" => Reduce(c) \/ RecordCheckpoint(c)
           /\ call'[c].pc = "called" => ProviderReturns(c)
           /\ call'[c].pc = "recorded" => RecordAttempt(c)
           /\ call'[c].pc = "finalize" => Settle(c) \/ SucceedStep(c)
           /\ call'[c].pc = "publish" => Decide(c) \/ MoveRun(c)
           /\ call'[c].pc = "pubfs" => BeginPublish(c)
           /\ call'[c].pc = "pubops" => Preflight(c) \/ ApplyOperation(c)
           /\ call'[c].pc = "pubdone" => ApplyPatch(c) \/ Preflight(c) \/ ApplyOperation(c)
           /\ call'[c].pc = "conflicted" => Preflight(c)
           /\ call'[c].pc = "approve" => BeginPublish(c) \/ FinishPublish(c)
           /\ call'[c].pc = "applied" => FinishPublish(c)
           /\ call'[c].pc = "cleanup" => MoveRun(c)
<1> USE DEF At, Go
<1>a. call \in [Calls -> CallRecord] /\ recon \in Recons
  BY DEF Typed, CallsTyped, Store!TypeOK
<1>b. call[c].s \in Steps
  BY <1>a DEF CallRecord
<1>1. CASE MoveRun(c)
  BY <1>1, <1>a, MoveFacts DEF MoveRun, CallRecord
<1>2. CASE Decide(c)
  <2>1. \A act : DecisionPc(act) \in
                   {"authorize", "decline", "mark_failed", "restore", "discard",
                    "publish", "resolve", "accept", "leave"}
    BY DEF DecisionPc
  <2>2. PICK act : call'[c].act = act /\ call'[c].pc = DecisionPc(act)
    BY <1>2, <1>a DEF Decide, CallRecord
  <2>3. QED
    BY <1>2, <2>1, <2>2
<1>r. CASE BeginAccept(c)
  <2>1. PICK r \in Unknown : call' = [call EXCEPT ![c].pc = "ckptfs", ![c].s = r]
    BY <1>r DEF BeginAccept
  <2>2. QED
    BY <1>r, <1>a, <2>1 DEF CallRecord
<1>s. CASE ProviderReturns(c)
  BY <1>s, ProviderAnswers
<1>3. CASE Settle(c) \/ SucceedStep(c)
  <2>1. CASE \E to : Resume(c, to) /\ to.pc \in {"pause", "phase", "needs", "finalize"}
    BY <1>3, <2>1, ResumedAt
  <2>2. CASE \E pc \in {"cancelling", "blocked", "materialize"} : Go(c, pc)
    BY <2>2, <1>a DEF CallRecord
  <2>3. QED
    BY <1>3, <1>b, <2>1, <2>2, AfterFacts DEF Settle, SucceedStep
<1>4. CASE Submit(c) \/ Enter(c) \/ Branch(c)
  BY <1>4, <1>a DEF Submit, Enter, AcquireTo, Refused, Branch, EnteredPc, CallRecord
<1>5. CASE MoveIsIllegal(c) \/ BeginRestore(c) \/ RestoreTree(c)
  BY <1>5, <1>a DEF MoveIsIllegal, BeginRestore, RestoreTree, CallRecord
<1>6. CASE ResetUnknown(c)
  BY <1>6, <1>a DEF ResetUnknown, Unknown, CallRecord
<1>7. CASE AcceptUnknown(c)
  BY <1>7, <1>a DEF AcceptUnknown, CallRecord
<1>8. CASE RestoreWorktree(c) \/ BeginDiscard(c) \/ DiscardTree(c)
  BY <1>8, <1>a DEF RestoreWorktree, BeginDiscard, DiscardTree, CallRecord
<1>9. CASE PrepareWorkspace(c) \/ CopyWorkspace(c) \/ RecordWorkspace(c)
  BY <1>9, <1>a DEF PrepareWorkspace, CopyWorkspace, RecordWorkspace, Resume,
       NextPhase, CallRecord
<1>10. CASE OpenWorkspace(c) \/ Materialize(c) \/ Dispatch(c)
  BY <1>10, <1>a DEF OpenWorkspace, Materialize, Dispatch, Resume, NextPhase,
       CallRecord
<1>11. CASE PrepareParticipant(c) \/ BeginAttempt(c) \/ StartProvider(c)
  BY <1>11, <1>a DEF PrepareParticipant, BeginAttempt, StartProvider, CallRecord
<1>12. CASE RecordAttempt(c) \/ RecordParticipant(c) \/ Reduce(c)
  BY <1>12, <1>a DEF RecordAttempt, RecordParticipant, Reduce, CallRecord
<1>13. CASE CheckpointTree(c) \/ RecordCheckpoint(c) \/ FailStep(c)
  BY <1>13, <1>a DEF CheckpointTree, RecordCheckpoint, FailStep, CallRecord
<1>14. CASE StepIsIllegal(c) \/ ProviderWrites(c) \/ Beat(c)
  BY <1>14, <1>a DEF StepIsIllegal, ProviderWrites, Beat, CallRecord
<1>15. CASE BeginPublish(c) \/ ApplyPatch(c) \/ Preflight(c)
  BY <1>15, <1>a DEF BeginPublish, ApplyPatch, Preflight, CallRecord
<1>16. CASE ApplyOperation(c) \/ FinishPublish(c) \/ CleanUp(c)
  BY <1>16, <1>a DEF ApplyOperation, FinishPublish, CleanUp, CallRecord
<1>17. CASE RecoverScan(c) \/ RecoverAcquire(c) \/ RecoverRead(c)
  BY <1>17, <1>a DEF RecoverScan, RecoverAcquire, AcquireTo, Refused, RecoverRead,
       CallRecord
<1>18. CASE RecoverSteps(c) \/ RequestCancel(c) \/ CancelAcquire(c)
  BY <1>18, <1>a DEF RecoverSteps, RequestCancel, CancelAcquire, AcquireTo, Refused,
       CallRecord
<1>19. CASE Leave(c)
  BY <1>19, <1>a DEF Leave, CallRecord
<1>20. CASE FinishCancel(c) \/ Lost(c) \/ Crash(c)
  BY <1>20, <1>a DEF FinishCancel, Lost, Crash, CallRecord
<1>q. QED
  BY <1>1, <1>2, <1>3, <1>r, <1>s, <1>4, <1>5, <1>6, <1>7, <1>8, <1>9, <1>10, <1>11,
     <1>12, <1>13, <1>14, <1>15, <1>16, <1>17, <1>18, <1>19, <1>20
  DEF Step, Progress, Deciding, Opening, Executing, Providing, Publishing, Recovering,
      Cancelling

\* What a step leaves of the record of the call.
LEMMA CallFields ==
    ASSUME Typed, NEW c \in Calls, Step(c)
    PROVE  /\ call'[c].act # call[c].act => Decide(c)
           /\ call'[c].seen # call[c].seen => RecoverRead(c) \/ call'[c].seen = "none"
           /\ call'[c].epoch # call[c].epoch =>
                call'[c].pc \in {"entered", "r_read", "cancelling"} \/ Leave(c)
           /\ call'[c].s # call[c].s =>
                call'[c].pc \in {"phase", "pause", "needs", "finalize", "ckptfs", "done"}
           /\ call'[c].out # call[c].out =>
                call'[c].pc \in {"called", "done"} \/ call'[c].out = "none"
           /\ call'[c].saw # call[c].saw =>
                call'[c].pc \in {"called", "ckptdb"} \/ call'[c].saw = {}
<1> USE DEF At, Go
<1>a. call \in [Calls -> CallRecord] /\ recon \in Recons
  BY DEF Typed, CallsTyped, Store!TypeOK
<1>b. call[c].s \in Steps
  BY <1>a DEF CallRecord
<1>3. CASE \/ Settle(c) \/ SucceedStep(c)
           \/ PrepareWorkspace(c) \/ RecordWorkspace(c) \/ OpenWorkspace(c)
  <2>1. CASE \E to : Resume(c, to) /\ to.pc \in {"pause", "phase", "needs", "finalize"}
    <3>1. PICK to : Resume(c, to) /\ to.pc \in {"pause", "phase", "needs", "finalize"}
      BY <2>1
    <3>2. call'[c] = [call[c] EXCEPT !.pc = to.pc, !.s = to.s, !.i = 0, !.out = "none"]
      BY <1>a, <3>1 DEF Resume
    <3>3. QED
      BY <1>a, <3>1, <3>2 DEF CallRecord
  <2>2. CASE \E pc : Go(c, pc)
    BY <2>2, <1>a DEF CallRecord
  <2>3. CASE Settle(c) \/ SucceedStep(c)
    BY <2>3, <1>b, <2>1, <2>2, AfterFacts DEF Settle, SucceedStep
  <2>4. CASE Resume(c, NextPhase(Architect))
    BY <2>4, <2>1 DEF NextPhase
  <2>5. QED
    BY <1>3, <2>2, <2>3, <2>4 DEF PrepareWorkspace, RecordWorkspace, OpenWorkspace
<1>2. CASE Decide(c)
  BY <1>2, <1>a DEF Decide, CallRecord
<1>4. CASE ProviderReturns(c)
  BY <1>4, ProviderAnswers
<1>5. CASE Leave(c)
  BY <1>5, <1>a DEF Leave, NewCall
<1>6. CASE Submit(c) \/ Enter(c) \/ Branch(c)
  BY <1>6, <1>a DEF Submit, Enter, AcquireTo, Refused, Branch, EnteredPc, CallRecord
<1>7. CASE MoveRun(c) \/ MoveIsIllegal(c) \/ BeginRestore(c)
  BY <1>7, <1>a DEF MoveRun, MoveIsIllegal, BeginRestore, CallRecord
<1>8. CASE ResetUnknown(c)
  BY <1>8, <1>a DEF ResetUnknown, Unknown, CallRecord
<1>9. CASE BeginAccept(c)
  BY <1>9, <1>a DEF BeginAccept, Unknown, CallRecord
<1>10. CASE AcceptUnknown(c)
  BY <1>10, <1>a DEF AcceptUnknown, CallRecord
<1>11. CASE RestoreTree(c) \/ RestoreWorktree(c) \/ BeginDiscard(c)
  BY <1>11, <1>a DEF RestoreTree, RestoreWorktree, BeginDiscard, CallRecord
<1>12. CASE DiscardTree(c) \/ CopyWorkspace(c) \/ Materialize(c)
  BY <1>12, <1>a DEF DiscardTree, CopyWorkspace, Materialize, CallRecord
<1>13. CASE Dispatch(c) \/ PrepareParticipant(c) \/ BeginAttempt(c)
  BY <1>13, <1>a DEF Dispatch, PrepareParticipant, BeginAttempt, CallRecord
<1>14. CASE StartProvider(c) \/ RecordAttempt(c) \/ RecordParticipant(c)
  BY <1>14, <1>a DEF StartProvider, RecordAttempt, RecordParticipant, CallRecord
<1>15. CASE Reduce(c) \/ CheckpointTree(c) \/ RecordCheckpoint(c)
  BY <1>15, <1>a DEF Reduce, CheckpointTree, RecordCheckpoint, CallRecord
<1>16. CASE FailStep(c) \/ StepIsIllegal(c) \/ ProviderWrites(c)
  BY <1>16, <1>a DEF FailStep, StepIsIllegal, ProviderWrites, CallRecord
<1>17. CASE Beat(c) \/ BeginPublish(c) \/ ApplyPatch(c)
  BY <1>17, <1>a DEF Beat, BeginPublish, ApplyPatch, CallRecord
<1>18. CASE Preflight(c) \/ ApplyOperation(c) \/ FinishPublish(c)
  BY <1>18, <1>a DEF Preflight, ApplyOperation, FinishPublish, CallRecord
<1>19. CASE CleanUp(c) \/ RecoverScan(c) \/ RecoverAcquire(c)
  BY <1>19, <1>a DEF CleanUp, RecoverScan, RecoverAcquire, AcquireTo, Refused,
       CallRecord
<1>20. CASE RecoverRead(c) \/ RecoverSteps(c) \/ RequestCancel(c)
  BY <1>20, <1>a DEF RecoverRead, RecoverSteps, RequestCancel, CallRecord
<1>21. CASE CancelAcquire(c) \/ FinishCancel(c) \/ Lost(c)
  BY <1>21, <1>a DEF CancelAcquire, AcquireTo, Refused, FinishCancel, Lost, CallRecord
<1>22. CASE Crash(c)
  BY <1>22, <1>a DEF Crash, CallRecord
<1>q. QED
  BY <1>2, <1>3, <1>4, <1>5, <1>6, <1>7, <1>8, <1>9, <1>10, <1>11, <1>12, <1>13,
     <1>14, <1>15, <1>16, <1>17, <1>18, <1>19, <1>20, <1>21, <1>22
  DEF Step, Progress, Deciding, Opening, Executing, Providing, Publishing, Recovering,
      Cancelling

\* What a step does to the rows.
LEMMA RowsChanged ==
    ASSUME Typed, NEW c \in Calls, Step(c), NEW s \in Steps
    PROVE  /\ part'[s] = "succeeded" /\ part[s] # "succeeded" =>
                Holds(c) /\ call[c].s = s /\ (RecordParticipant(c) \/ AcceptUnknown(c))
           /\ step'[s] = "succeeded" /\ step[s] # "succeeded" =>
                Holds(c) /\ call[c].s = s /\ (SucceedStep(c) \/ AcceptUnknown(c))
           /\ step'[s] = "unknown" /\ step[s] # "unknown" => s \in Writers
           /\ step'[s] = "cancelled" /\ step[s] # "cancelled" => FinishCancel(c)
           /\ status' # status => MoveRun(c) \/ RequestCancel(c) \/ FinishCancel(c)
           /\ recon' # recon => MoveRun(c)
           /\ cancel' # cancel => RequestCancel(c)
<1>a. /\ call \in [Calls -> CallRecord] /\ call[c].s \in Steps
      /\ step \in [Steps -> Store!RowStatus \cup {"absent"}]
      /\ part \in [Steps -> Store!RowStatus \cup {"absent"}]
  BY DEF Typed, CallsTyped, CallRecord, Store!TypeOK
<1> USE DEF SameStore, storeVars, Holds
<1>1. CASE ResetUnknown(c)
  BY <1>1, <1>a DEF ResetUnknown, Store!ResetStep, Unknown, Doubt, Store!CancelRow
<1>2. CASE AcceptUnknown(c)
  BY <1>2, <1>a DEF AcceptUnknown, Store!AcceptStep, Doubt, Store!CancelRow
<1>3. CASE Settle(c)
  BY <1>3, <1>a DEF Settle, Resume, Store!ResetStep, Doubt, Store!CancelRow
<1>4. CASE Materialize(c)
  BY <1>4, <1>a DEF Materialize, Store!CreateStep, Doubt, Store!CancelRow
<1>5. CASE Dispatch(c)
  BY <1>5, <1>a DEF Dispatch, Store!TransitionStep, Doubt, Store!CancelRow
<1>6. CASE PrepareParticipant(c)
  BY <1>6, <1>a DEF PrepareParticipant, Store!CreateParticipant, Doubt,
       Store!CancelRow
<1>7. CASE BeginAttempt(c)
  BY <1>7, <1>a DEF BeginAttempt, Store!CreateAttempt, Doubt, Store!CancelRow
<1>8. CASE StartProvider(c)
  BY <1>8, <1>a DEF StartProvider, Store!TransitionAttempt,
       Store!TransitionParticipant, Doubt, Store!CancelRow
<1>9. CASE RecordParticipant(c)
  BY <1>9, <1>a DEF RecordParticipant, Store!TransitionParticipant, Doubt,
       Store!CancelRow
<1>10. CASE SucceedStep(c)
  BY <1>10, <1>a DEF SucceedStep, Store!TransitionStep, Resume, Doubt, Store!CancelRow
<1>11. CASE FailStep(c)
  BY <1>11, <1>a DEF FailStep, Store!TransitionStep, Doubt, Store!CancelRow
<1>12. CASE RecoverSteps(c)
  BY <1>12, <1>a DEF RecoverSteps, Store!TransitionStep, Store!ClassifyStaleAttempt,
       Doubt, Store!CancelRow
<1>13. CASE FinishCancel(c)
  BY <1>13, <1>a DEF FinishCancel, Store!FinalizeCancellation, Doubt, Store!CancelRow
<1>14. CASE
   \/ Submit(c) \/ Enter(c) \/ Branch(c) \/ MoveRun(c) \/ MoveIsIllegal(c)
   \/ Decide(c) \/ BeginRestore(c) \/ RestoreTree(c) \/ RestoreWorktree(c)
   \/ BeginAccept(c) \/ BeginDiscard(c) \/ DiscardTree(c) \/ PrepareWorkspace(c)
   \/ CopyWorkspace(c) \/ RecordWorkspace(c) \/ OpenWorkspace(c) \/ RecordAttempt(c)
   \/ Reduce(c) \/ CheckpointTree(c) \/ RecordCheckpoint(c) \/ StepIsIllegal(c)
   \/ ProviderWrites(c) \/ Beat(c) \/ ProviderReturns(c) \/ BeginPublish(c)
   \/ ApplyPatch(c) \/ Preflight(c) \/ ApplyOperation(c) \/ FinishPublish(c)
   \/ CleanUp(c) \/ RecoverScan(c) \/ RecoverAcquire(c) \/ RecoverRead(c)
   \/ RequestCancel(c) \/ CancelAcquire(c) \/ Leave(c) \/ Lost(c) \/ Crash(c)
  BY <1>14, <1>a DEF Submit, Enter, AcquireTo, Refused, Branch, EnteredPc, MoveRun,
       MoveIsIllegal, Decide, DecisionPc, Allowed, WorkspaceActions, BeginRestore,
       RestoreTree, RestoreWorktree, BeginAccept, BeginDiscard, DiscardTree,
       PrepareWorkspace, CopyWorkspace, RecordWorkspace, OpenWorkspace, RecordAttempt,
       Reduce, CheckpointTree, RecordCheckpoint, StepIsIllegal, ProviderWrites, Beat,
       ProviderReturns, BeginPublish, ApplyPatch, Preflight, ApplyOperation,
       FinishPublish, CleanUp, RecoverScan, RecoverAcquire, RecoverRead,
       RequestCancel, CancelAcquire, Leave, Lost, Crash, Store!AcquireLease,
       Store!TransitionRun, Unknown, Resume, NextPhase, Store!TransitionAttempt,
       Store!Heartbeat, Store!RequestCancellation, Store!ReleaseLease
<1>q. QED
  BY <1>1, <1>2, <1>3, <1>4, <1>5, <1>6, <1>7, <1>8, <1>9, <1>10, <1>11, <1>12, <1>13,
     <1>14
  DEF Step, Progress, Deciding, Opening, Executing, Providing, Publishing, Recovering,
      Cancelling

\* The lease row changes hands where a call enters, recovers, cancels or leaves.
LEMMA LeaseTaken ==
    ASSUME Typed, NEW c \in Calls, Step(c), lease' # lease, ~Leave(c), ~Beat(c)
    PROVE  call'[c].pc \in {"entered", "r_read", "cancelling"}
<1>a. call \in [Calls -> CallRecord]
  BY DEF Typed, CallsTyped
<1> USE DEF SameStore, storeVars
<1>1. CASE Enter(c)
  BY <1>1, <1>a DEF Enter, AcquireTo, Refused, CallRecord
<1>2. CASE RecoverAcquire(c)
  BY <1>2, <1>a DEF RecoverAcquire, AcquireTo, Refused, CallRecord
<1>3. CASE CancelAcquire(c)
  BY <1>3, <1>a DEF CancelAcquire, AcquireTo, Refused, CallRecord
<1>4. CASE
   \/ Submit(c) \/ Branch(c) \/ MoveRun(c) \/ MoveIsIllegal(c) \/ Decide(c)
   \/ BeginRestore(c) \/ RestoreTree(c) \/ RestoreWorktree(c) \/ ResetUnknown(c)
   \/ BeginAccept(c) \/ AcceptUnknown(c) \/ BeginDiscard(c) \/ DiscardTree(c)
   \/ PrepareWorkspace(c) \/ CopyWorkspace(c) \/ RecordWorkspace(c)
   \/ OpenWorkspace(c) \/ Settle(c) \/ Materialize(c) \/ Dispatch(c)
  BY <1>4 DEF Submit, Branch, EnteredPc, MoveRun, MoveIsIllegal, Decide, DecisionPc,
       Allowed, WorkspaceActions, BeginRestore, RestoreTree, RestoreWorktree,
       ResetUnknown, BeginAccept, AcceptUnknown, BeginDiscard, DiscardTree,
       PrepareWorkspace, CopyWorkspace, RecordWorkspace, OpenWorkspace, Settle,
       Materialize, Dispatch, Store!TransitionRun, Store!ResetStep, Unknown,
       Store!AcceptStep, Resume, NextPhase, Store!CreateStep, Store!TransitionStep
<1>5. CASE
   \/ PrepareParticipant(c) \/ BeginAttempt(c) \/ StartProvider(c)
   \/ RecordAttempt(c) \/ RecordParticipant(c) \/ Reduce(c) \/ CheckpointTree(c)
   \/ RecordCheckpoint(c) \/ SucceedStep(c) \/ FailStep(c) \/ StepIsIllegal(c)
   \/ ProviderWrites(c) \/ ProviderReturns(c) \/ BeginPublish(c) \/ ApplyPatch(c)
   \/ Preflight(c) \/ ApplyOperation(c) \/ FinishPublish(c) \/ CleanUp(c)
   \/ RecoverScan(c)
  BY <1>5 DEF PrepareParticipant, BeginAttempt, StartProvider, RecordAttempt,
       RecordParticipant, Reduce, CheckpointTree, RecordCheckpoint, SucceedStep,
       FailStep, StepIsIllegal, ProviderWrites, ProviderReturns, BeginPublish,
       ApplyPatch, Preflight, ApplyOperation, FinishPublish, CleanUp, RecoverScan,
       Store!CreateParticipant, Store!CreateAttempt, Store!TransitionAttempt,
       Store!TransitionParticipant, Store!TransitionStep, Resume
<1>6. CASE
   \/ RecoverRead(c) \/ RecoverSteps(c) \/ RequestCancel(c) \/ FinishCancel(c)
   \/ Lost(c) \/ Crash(c)
  BY <1>6 DEF RecoverRead, RecoverSteps, RequestCancel, FinishCancel, Lost, Crash,
       Store!TransitionStep, Store!ClassifyStaleAttempt, Store!RequestCancellation,
       Store!FinalizeCancellation
<1>q. QED
  BY <1>1, <1>2, <1>3, <1>4, <1>5, <1>6
  DEF Step, Progress, Deciding, Opening, Executing, Providing, Publishing, Recovering,
      Cancelling

\* The way in goes one way.
LEMMA EarlyPcs ==
    ASSUME Typed, NEW c \in Calls, Step(c),
           call'[c].pc \in {"new", "admitted", "entered", "reconcile"}
    PROVE  call[c].pc \in {"new", "admitted", "entered"} /\ ~Decide(c)
<1> USE DEF At, Go
<1>a. call \in [Calls -> CallRecord] /\ recon \in Recons
  BY DEF Typed, CallsTyped, Store!TypeOK
<1>b. call[c].s \in Steps
  BY <1>a DEF CallRecord
<1>1. CASE MoveRun(c)
  BY <1>1, <1>a, MoveFacts DEF MoveRun, CallRecord
<1>2. CASE Decide(c)
  <2>1. \A act : DecisionPc(act) \in
                   {"authorize", "decline", "mark_failed", "restore", "discard",
                    "publish", "resolve", "accept", "leave"}
    BY DEF DecisionPc
  <2>2. PICK act : call'[c].act = act /\ call'[c].pc = DecisionPc(act)
    BY <1>2, <1>a DEF Decide, CallRecord
  <2>3. QED
    BY <1>2, <2>1, <2>2
<1>3. CASE Settle(c) \/ SucceedStep(c)
  <2>1. CASE \E to : Resume(c, to) /\ to.pc \in {"pause", "phase", "needs", "finalize"}
    BY <1>3, <2>1, ResumedAt
  <2>2. CASE \E pc \in {"cancelling", "blocked", "materialize"} : Go(c, pc)
    BY <2>2, <1>a DEF CallRecord
  <2>3. QED
    BY <1>3, <1>b, <2>1, <2>2, AfterFacts DEF Settle, SucceedStep
<1>r. CASE BeginAccept(c)
  <2>1. PICK r \in Unknown : call' = [call EXCEPT ![c].pc = "ckptfs", ![c].s = r]
    BY <1>r DEF BeginAccept
  <2>2. QED
    BY <1>r, <1>a, <2>1 DEF CallRecord
<1>s. CASE ProviderReturns(c)
  BY <1>s, ProviderAnswers
<1>4. CASE Submit(c)
  BY <1>4, <1>a DEF Submit, Decide, CallRecord
<1>5. CASE Enter(c)
  BY <1>5, <1>a DEF Enter, Decide, AcquireTo, Refused, CallRecord
<1>6. CASE Branch(c)
  BY <1>6, <1>a DEF Branch, Decide, EnteredPc, CallRecord
<1>7. CASE MoveIsIllegal(c) \/ BeginRestore(c) \/ RestoreTree(c)
  BY <1>7, <1>a DEF MoveIsIllegal, BeginRestore, RestoreTree, CallRecord
<1>8. CASE ResetUnknown(c)
  BY <1>8, <1>a DEF ResetUnknown, Unknown, CallRecord
<1>9. CASE AcceptUnknown(c)
  BY <1>9, <1>a DEF AcceptUnknown, CallRecord
<1>10. CASE RestoreWorktree(c) \/ BeginDiscard(c) \/ DiscardTree(c)
  BY <1>10, <1>a DEF RestoreWorktree, BeginDiscard, DiscardTree, CallRecord
<1>11. CASE PrepareWorkspace(c) \/ CopyWorkspace(c) \/ RecordWorkspace(c)
  BY <1>11, <1>a DEF PrepareWorkspace, CopyWorkspace, RecordWorkspace, Resume,
       NextPhase, CallRecord
<1>12. CASE OpenWorkspace(c) \/ Materialize(c) \/ Dispatch(c)
  BY <1>12, <1>a DEF OpenWorkspace, Materialize, Dispatch, Resume, NextPhase,
       CallRecord
<1>13. CASE PrepareParticipant(c) \/ BeginAttempt(c) \/ StartProvider(c)
  BY <1>13, <1>a DEF PrepareParticipant, BeginAttempt, StartProvider, CallRecord
<1>14. CASE RecordAttempt(c) \/ RecordParticipant(c) \/ Reduce(c)
  BY <1>14, <1>a DEF RecordAttempt, RecordParticipant, Reduce, CallRecord
<1>15. CASE CheckpointTree(c) \/ RecordCheckpoint(c) \/ FailStep(c)
  BY <1>15, <1>a DEF CheckpointTree, RecordCheckpoint, FailStep, CallRecord
<1>16. CASE StepIsIllegal(c) \/ ProviderWrites(c) \/ Beat(c)
  BY <1>16, <1>a DEF StepIsIllegal, ProviderWrites, Beat, CallRecord
<1>17. CASE BeginPublish(c) \/ ApplyPatch(c) \/ Preflight(c)
  BY <1>17, <1>a DEF BeginPublish, ApplyPatch, Preflight, CallRecord
<1>18. CASE ApplyOperation(c) \/ FinishPublish(c) \/ CleanUp(c)
  BY <1>18, <1>a DEF ApplyOperation, FinishPublish, CleanUp, CallRecord
<1>19. CASE RecoverScan(c) \/ RecoverAcquire(c) \/ RecoverRead(c)
  BY <1>19, <1>a DEF RecoverScan, RecoverAcquire, AcquireTo, Refused, RecoverRead,
       CallRecord
<1>20. CASE RecoverSteps(c) \/ RequestCancel(c) \/ CancelAcquire(c)
  BY <1>20, <1>a DEF RecoverSteps, RequestCancel, CancelAcquire, AcquireTo, Refused,
       CallRecord
<1>21. CASE Leave(c)
  BY <1>21, <1>a DEF Leave, CallRecord
<1>22. CASE FinishCancel(c) \/ Lost(c) \/ Crash(c)
  BY <1>22, <1>a DEF FinishCancel, Lost, Crash, CallRecord
<1>q. QED
  BY <1>1, <1>2, <1>3, <1>r, <1>s, <1>4, <1>5, <1>6, <1>7, <1>8, <1>9, <1>10, <1>11,
     <1>12, <1>13, <1>14, <1>15, <1>16, <1>17, <1>18, <1>19, <1>20, <1>21, <1>22
  DEF Step, Progress, Deciding, Opening, Executing, Providing, Publishing, Recovering,
      Cancelling

\* Who is in the lease row stays there under the same epoch, or has just taken
\* the lease.
LEMMA HolderStays ==
    ASSUME Typed, NEW c \in Calls, Step(c), Holder(c)'
    PROVE  Holder(c) \/ call'[c].pc \in {"entered", "r_read", "cancelling", "done"}
<1>a. /\ call \in [Calls -> CallRecord]
      /\ lease \in [owner : Calls \cup {NoOwner}, epoch : Nat, valid : BOOLEAN]
      /\ NoOwner \notin Calls /\ lease'.owner = c
  BY CallsAssumption DEF Typed, CallsTyped, Store!TypeOK, Holder
<1>1. CASE call'[c].pc \in {"entered", "r_read", "cancelling"}
  BY <1>1
<1>2. CASE call'[c].pc \notin {"entered", "r_read", "cancelling"}
  <2>1. CASE Leave(c)
    BY <2>1, <1>a DEF Leave, NewCall
  <2>2. CASE Beat(c)
    BY <2>2, <1>a DEF Beat, Store!Heartbeat, Tok, Holder
  <2>3. CASE ~Leave(c) /\ ~Beat(c)
    <3>1. UNCHANGED lease
      BY <1>2, <2>3, LeaseTaken
    <3>2. QED
      BY <1>2, <2>3, <3>1, CallFields DEF Holder
  <2>4. QED
    BY <2>1, <2>2, <2>3
<1>3. QED
  BY <1>1, <1>2

-----------------------------------------------------------------------------
(* Why the original may change. *)

\* The review that lets a run publish.
Approving(s) == s \in Reviews /\ step[s] = "succeeded" /\ res[s] = "ok"
Approved     == \E s \in Steps : Approving(s)
Applied      == \E c \in RunCalls : call[c].act = "apply"

\* Only a write is ever in doubt, and what is recorded of a reviewer is one of
\* the answers that a review can give; nobody else asks for changes.
AnswersKept ==
    /\ \A s \in Steps \ Writers : step[s] # "unknown"
    /\ \A s \in Steps \ Reviews : res[s] # "blockers"
    /\ \A s \in Reviews :
         /\ step[s] = "succeeded" => res[s] \in {"ok", "blockers"}
         /\ part[s] = "succeeded" => res[s] \in {"ok", "blockers", "blocked"}

\* What a call carries towards the rows fits the step that it is at.
AnswersFit ==
    \A c \in Calls :
        /\ call[c].pc \in {"called", "recorded"} =>
             IF call[c].s \in Reviews THEN call[c].out \in {"ok", "blockers", "blocked", "bad"}
             ELSE call[c].out # "blockers"
        /\ call[c].pc \in {"ckptfs", "ckptdb", "acceptstep"} => call[c].s \in Writers
        /\ Holder(c) /\ call[c].s \in Reviews =>
             /\ call[c].pc = "reduce" => res[call[c].s] \in {"ok", "blockers", "blocked"}
             /\ call[c].pc = "stepok" => res[call[c].s] \in {"ok", "blockers"}

\* A call decides at most once, and only after it entered.
ActIsLate ==
    \A c \in Calls :
        call[c].pc \in {"new", "admitted", "entered", "reconcile"} => call[c].act = "none"

\* Only a protected copy is ever applied by an operator.
OnlyShadowsApply == Mode # "shadow" => \A c \in Calls : call[c].act # "apply"

\* A call on its way to the original has a review, or its operator, behind it.
PublishingIsDue ==
    \A c \in Calls :
        /\ call[c].pc = "finalize" => Approved
        /\ call[c].pc \in {"publish", "pubfs", "pubops"} => call[c].act = "apply" \/ Approved

DueInv ==
    /\ IInv
    /\ AnswersKept
    /\ AnswersFit
    /\ ActIsLate
    /\ OnlyShadowsApply
    /\ PublishingIsDue
    /\ OriginalIsProtected

\* Steps keep to what a review can answer.
LEMMA AnswersKeptKept ==
    ASSUME IInv, AnswersKept, AnswersFit, NEW c \in Calls, Step(c)
    PROVE  AnswersKept'
<1>a. /\ call \in [Calls -> CallRecord] /\ call[c].s \in Steps
      /\ res \in [Steps -> (Outs \ {"bad"}) \cup {"none"}]
      /\ part \in [Steps -> Store!RowStatus \cup {"absent"}]
  BY DEF IInv, Typed, CallsTyped, FilesTyped, CallRecord, Store!TypeOK
<1>1. ASSUME NEW s \in Steps \ Writers PROVE step'[s] # "unknown"
  BY <1>1, RowsChanged DEF AnswersKept, IInv
<1>2. ASSUME NEW s \in Reviews, step'[s] = "succeeded" PROVE res'[s] \in {"ok", "blockers"}
  <2>a. s \in Steps
    BY DEF Reviews
  <2>1. CASE step[s] = "succeeded"
    BY <2>a, <2>1, DoneStays DEF AnswersKept, IInv
  <2>2. CASE SucceedStep(c) /\ Holds(c) /\ call[c].s = s
    BY <2>2, HolderHolds DEF SucceedStep, At, SameBut, SameNotes, noteVars, AnswersFit, Holds
  <2>3. CASE AcceptUnknown(c) /\ call[c].s = s
    BY <1>a, <2>a, <2>3 DEF AcceptUnknown
  <2>4. QED
    BY <1>2, <2>a, <2>1, <2>2, <2>3, RowsChanged DEF IInv
<1>3. ASSUME NEW s \in Reviews, part'[s] = "succeeded"
      PROVE  res'[s] \in {"ok", "blockers", "blocked"}
  <2>a. s \in Steps
    BY DEF Reviews
  <2>1. CASE RecordParticipant(c) /\ call[c].s = s
    <3>1. CASE call[c].out = "bad"
      BY <1>3, <1>a, <2>a, <2>1, <3>1 DEF RecordParticipant, Store!TransitionParticipant
    <3>2. CASE call[c].out # "bad"
      <4>1. res'[s] = call[c].out
        BY <1>a, <2>a, <2>1, <3>2 DEF RecordParticipant
      <4>2. QED
        BY <2>1, <3>2, <4>1 DEF RecordParticipant, At, AnswersFit
    <3>3. QED
      BY <3>1, <3>2
  <2>2. CASE AcceptUnknown(c) /\ call[c].s = s
    BY <1>a, <2>a, <2>2 DEF AcceptUnknown
  <2>3. CASE part[s] = "succeeded" /\ res'[s] = res[s]
    BY <2>3 DEF AnswersKept
  <2>4. QED
    BY <1>3, <2>a, <2>1, <2>2, <2>3, RowsChanged, ResultsRecorded DEF IInv
<1>4. ASSUME NEW s \in Steps \ Reviews PROVE res'[s] # "blockers"
  <2>1. CASE RecordParticipant(c) /\ call[c].s = s
    <3>1. CASE call[c].out = "bad"
      BY <2>1, <3>1 DEF RecordParticipant, SameNotes, noteVars, AnswersKept
    <3>2. CASE call[c].out # "bad"
      <4>1. res'[s] = call[c].out
        BY <1>a, <2>1, <3>2 DEF RecordParticipant
      <4>2. QED
        BY <2>1, <4>1 DEF RecordParticipant, At, AnswersFit
    <3>3. QED
      BY <3>1, <3>2
  <2>2. CASE AcceptUnknown(c) /\ call[c].s = s
    BY <1>a, <2>2 DEF AcceptUnknown
  <2>3. CASE res'[s] = res[s]
    BY <2>3 DEF AnswersKept
  <2>4. QED
    BY <2>1, <2>2, <2>3, ResultsRecorded DEF IInv
<1>5. QED
  BY <1>1, <1>2, <1>3, <1>4 DEF AnswersKept

\* A call takes no other answer to the rows than its step can have.
LEMMA AnswersFitKept ==
    ASSUME IInv, AnswersKept, AnswersFit, NEW c \in Calls, Step(c)
    PROVE  AnswersFit'
<1>a. /\ Typed /\ call \in [Calls -> CallRecord] /\ call[c].s \in Steps
      /\ res \in [Steps -> (Outs \ {"bad"}) \cup {"none"}]
      /\ \A s \in Reviews : s \in Steps /\ s \notin Writers /\ s # Architect
  BY DEF IInv, Typed, CallsTyped, FilesTyped, CallRecord, Reviews, Writers
<1>b. \A d \in Calls \ {c} : call'[d] = call[d]
  BY <1>a, CallStoreStep DEF StoreStep
<1>1. ASSUME NEW d \in Calls, call'[d].pc \in {"called", "recorded"}
      PROVE  IF call'[d].s \in Reviews
             THEN call'[d].out \in {"ok", "blockers", "blocked", "bad"}
             ELSE call'[d].out # "blockers"
  <2>1. CASE d # c
    BY <1>1, <1>b, <2>1 DEF AnswersFit
  <2>2. CASE d = c /\ ProviderReturns(c)
    <3>1. call'[c].s = call[c].s /\ call'[c].out \in Answers(c)
      BY <1>a, <2>2, ProviderAnswers
    <3>2. CASE call[c].s \in Reviews
      BY <1>a, <2>2, <3>1, <3>2 DEF Answers
    <3>3. CASE call[c].s = Architect
      BY <1>a, <2>2, <3>1, <3>3 DEF Answers
    <3>4. CASE call[c].s \in Writers /\ call[c].s # Architect
      BY <1>a, <2>2, <3>1, <3>4 DEF Answers
    <3>5. QED
      BY <1>a, <3>2, <3>3, <3>4, StepArithmetic
  <2>3. CASE d = c /\ RecordAttempt(c)
    <3>1. call[c].pc = "called" /\ call'[c].pc \in {"cancelling", "recorded"}
          /\ call'[c].s = call[c].s /\ call'[c].out = call[c].out
      BY <1>a, <2>3 DEF RecordAttempt, At, Go, CallRecord
    <3>2. QED
      BY <1>1, <2>3, <3>1 DEF AnswersFit
  <2>4. QED
    BY <1>1, <1>a, <2>1, <2>2, <2>3, Arrivals
<1>2. ASSUME NEW d \in Calls, call'[d].pc \in {"ckptfs", "ckptdb", "acceptstep"}
      PROVE  call'[d].s \in Writers
  <2>1. CASE d # c
    BY <1>2, <1>b, <2>1 DEF AnswersFit
  <2>2. CASE d = c /\ Reduce(c)
    BY <1>2, <1>a, <2>2 DEF Reduce, Go, CallRecord
  <2>3. CASE d = c /\ BeginAccept(c)
    <3>1. PICK s \in Unknown : call' = [call EXCEPT ![c].pc = "ckptfs", ![c].s = s]
      BY <2>3 DEF BeginAccept
    <3>2. s \in Writers
      BY DEF Unknown, AnswersKept
    <3>3. call'[c].s = s
      BY <1>a, <3>1 DEF CallRecord
    <3>4. QED
      BY <2>3, <3>2, <3>3
  <2>4. CASE d = c /\ (CheckpointTree(c) \/ RecordCheckpoint(c))
    <3>1. call[c].pc \in {"ckptfs", "ckptdb"} /\ call'[c].s = call[c].s
      BY <1>a, <2>4 DEF CheckpointTree, RecordCheckpoint, At, Go, CallRecord
    <3>2. QED
      BY <2>4, <3>1 DEF AnswersFit
  <2>5. QED
    BY <1>2, <1>a, <2>1, <2>2, <2>3, <2>4, Arrivals
<1>3. ASSUME NEW d \in Calls, Holder(d)', call'[d].s \in Reviews,
             call'[d].pc \in {"reduce", "stepok"}
      PROVE  /\ call'[d].pc = "reduce" => res'[call'[d].s] \in {"ok", "blockers", "blocked"}
             /\ call'[d].pc = "stepok" => res'[call'[d].s] \in {"ok", "blockers"}
  <2>1. CASE d # c
    BY <1>3, <1>a, <2>1, OthersFenced, CallStoreStep DEF AnswersFit
  <2>2. CASE d = c /\ PrepareParticipant(c)
    <3>1. /\ UNCHANGED res /\ call'[c].s = call[c].s
          /\ call'[c].pc = "reduce" => part[call[c].s] = "succeeded"
          /\ call'[c].pc # "stepok"
      BY <1>a, <2>2 DEF PrepareParticipant, Go, SameBut, SameNotes, noteVars, CallRecord
    <3>2. QED
      BY <1>3, <2>2, <3>1 DEF AnswersKept
  <2>3. CASE d = c /\ RecordParticipant(c)
    <3>1. /\ call'[c].s = call[c].s /\ call'[c].pc # "stepok" /\ call[c].pc = "recorded"
          /\ call'[c].pc = "reduce" => call[c].out # "bad" /\ res'[call[c].s] = call[c].out
      BY <1>a, <2>3 DEF RecordParticipant, At, CallRecord
    <3>2. QED
      BY <1>3, <2>3, <3>1 DEF AnswersFit
  <2>4. CASE d = c /\ Reduce(c)
    <3>1. /\ UNCHANGED res /\ call'[c].s = call[c].s /\ call[c].pc = "reduce"
          /\ call'[c].pc # "reduce"
          /\ call'[c].pc = "stepok" => res[call[c].s] # "blocked"
      BY <1>a, <2>4 DEF Reduce, At, Go, SameBut, SameNotes, noteVars, CallRecord
    <3>2. Holder(c)
      BY <1>3, <1>a, <2>4, HolderStays
    <3>3. QED
      BY <1>3, <2>4, <3>1, <3>2 DEF AnswersFit
  <2>5. CASE d = c /\ RecordCheckpoint(c)
    <3>1. call[c].pc = "ckptdb" /\ call'[c].s = call[c].s
      BY <1>a, <2>5 DEF RecordCheckpoint, At, CallRecord
    <3>2. QED
      BY <1>3, <1>a, <2>5, <3>1 DEF AnswersFit
  <2>6. QED
    BY <1>3, <1>a, <2>1, <2>2, <2>3, <2>4, <2>5, Arrivals
<1>4. QED
  BY <1>1, <1>2, <1>3 DEF AnswersFit

\* A decision is taken once.
LEMMA ActIsLateKept ==
    ASSUME IInv, ActIsLate, NEW c \in Calls, Step(c)
    PROVE  ActIsLate'
<1>a. Typed /\ call \in [Calls -> CallRecord]
  BY DEF IInv, Typed, CallsTyped
<1>b. \A d \in Calls \ {c} : call'[d] = call[d]
  BY <1>a, CallStoreStep DEF StoreStep
<1>1. call'[c].pc \in {"new", "admitted", "entered", "reconcile"} =>
        call[c].pc \in {"new", "admitted", "entered"} /\ ~Decide(c)
  BY <1>a, EarlyPcs
<1>2. call'[c].pc \in {"new", "admitted", "entered", "reconcile"} => call'[c].act = "none"
  BY <1>a, <1>1, CallFields DEF ActIsLate
<1>3. QED
  BY <1>b, <1>2 DEF ActIsLate

\* What an operator may decide depends on the workspace.
LEMMA OnlyShadowsApplyKept ==
    ASSUME IInv, OnlyShadowsApply, NEW c \in Calls, Step(c)
    PROVE  OnlyShadowsApply'
<1>a. Typed /\ call \in [Calls -> CallRecord]
  BY DEF IInv, Typed, CallsTyped
<1>b. \A d \in Calls \ {c} : call'[d] = call[d]
  BY <1>a, CallStoreStep DEF StoreStep
<1>1. ASSUME Mode # "shadow" PROVE call'[c].act # "apply"
  <2>1. CASE Decide(c)
    <3>1. PICK act \in Allowed \cup {"inspect"} : call'[c].act = act
      BY <1>a, <2>1 DEF Decide, CallRecord
    <3>2. WorkspaceActions \subseteq {"restore", "accept"}
      BY <1>1 DEF WorkspaceActions
    <3>3. QED
      BY <3>1, <3>2 DEF Allowed
  <2>2. CASE ~Decide(c)
    BY <1>a, <1>1, <2>2, CallFields DEF OnlyShadowsApply
  <2>3. QED
    BY <2>1, <2>2
<1>2. QED
  BY <1>b, <1>1 DEF OnlyShadowsApply

\* A review that lets a run publish keeps doing so, and an operator's decision
\* stays on its call.
LEMMA ReasonsStay ==
    ASSUME IInv, ActIsLate, NEW c \in Calls, Step(c)
    PROVE  /\ \A s \in Steps : Approving(s) => Approving(s)'
           /\ Approved => Approved'
           /\ Applied => Applied'
<1>1. \A s \in Steps : Approving(s) => Approving(s)'
  BY DoneStays DEF Approving, IInv
<1>2. ASSUME NEW d \in RunCalls, call[d].act = "apply" PROVE call'[d].act = "apply"
  <2>1. d \in Calls
    BY DEF Calls
  <2>2. CASE d # c
    BY <1>2, <2>1, <2>2, CallStoreStep DEF IInv, StoreStep
  <2>3. CASE d = c
    <3>1. ~Decide(c)
      BY <1>2, <2>3 DEF Decide, At, ActIsLate
    <3>2. QED
      BY <1>2, <2>3, <3>1, CallFields DEF IInv
  <2>4. QED
    BY <2>2, <2>3
<1>3. QED
  BY <1>1, <1>2 DEF Approved, Applied

\* Nothing but a review without blockers, or an operator who applies the
\* checkpoint, leads to the original.
LEMMA PublishingIsDueKept ==
    ASSUME IInv, AnswersKept, AnswersFit, ActIsLate, PublishingIsDue, NEW c \in Calls, Step(c)
    PROVE  PublishingIsDue'
<1>a. /\ Typed /\ call \in [Calls -> CallRecord] /\ call[c].s \in Steps
      /\ \A s \in Reviews : s \in Steps
  BY DEF IInv, Typed, CallsTyped, CallRecord, Reviews
<1>b. \A d \in Calls \ {c} : call'[d] = call[d]
  BY <1>a, CallStoreStep DEF StoreStep
<1>1. ASSUME NEW d \in Calls, call'[d].pc = "finalize" PROVE Approved'
  <2>1. CASE d # c
    BY <1>1, <1>b, <2>1, ReasonsStay DEF PublishingIsDue
  <2>2. CASE d = c
    <3>a. PICK s \in Steps : s = call[c].s
      BY <1>a
    <3>1. CASE Settle(c)
      <4>1. step[s] = "succeeded" /\ After(s, res[s]).pc = "finalize"
        <5>1. CASE \E pc \in {"cancelling", "blocked", "materialize"} : Go(c, pc)
          BY <1>1, <1>a, <2>2, <5>1 DEF Go, CallRecord
        <5>2. CASE step[s] = "succeeded" /\ Resume(c, After(s, res[s]))
          BY <1>1, <1>a, <2>2, <5>2, ResumedAt
        <5>3. QED
          BY <3>a, <3>1, <5>1, <5>2 DEF Settle
      <4>2. Approving(s)
        BY <4>1, AfterFacts DEF Approving, AnswersKept
      <4>3. QED
        BY <4>2, ReasonsStay DEF Approved
    <3>2. CASE SucceedStep(c)
      <4>1. /\ After(s, res[s]).pc = "finalize" /\ UNCHANGED res
            /\ call[c].pc = "stepok" /\ Holder(c)
        BY <1>1, <1>a, <2>2, <3>a, <3>2, ResumedAt, HolderHolds
        DEF SucceedStep, At, SameBut, SameNotes, noteVars, Store!TransitionStep
      <4>2. step'[s] = "succeeded"
        BY <3>a, <3>2 DEF SucceedStep, Store!TransitionStep, IInv, Typed, Store!TypeOK
      <4>3. s \in Reviews /\ res[s] = "ok"
        BY <3>a, <4>1, AfterFacts DEF AnswersFit
      <4>4. QED
        BY <4>1, <4>2, <4>3 DEF Approved, Approving
    <3>3. QED
      BY <1>1, <1>a, <2>2, <3>1, <3>2, Arrivals
  <2>3. QED
    BY <2>1, <2>2
<1>2. ASSUME NEW d \in Calls, call'[d].pc \in {"publish", "pubfs", "pubops"}
      PROVE  call'[d].act = "apply" \/ Approved'
  <2>1. CASE d # c
    BY <1>2, <1>b, <2>1, ReasonsStay DEF PublishingIsDue
  <2>2. CASE d = c /\ Decide(c)
    <3>1. PICK act : call'[c].act = act /\ call'[c].pc = DecisionPc(act)
      BY <1>a, <2>2 DEF Decide, CallRecord
    <3>2. DecisionPc(act) \in {"publish", "pubfs", "pubops"} => act = "apply"
      BY DEF DecisionPc
    <3>3. QED
      BY <1>2, <2>2, <3>1, <3>2
  <2>3. CASE d = c /\ MoveRun(c)
    <3>1. call[c].pc = "finalize"
      <4>1. /\ call[c].pc \in MovePcs
            /\ RunMoves(c)[call[c].pc].next \in {"publish", "pubfs", "pubops"}
        BY <1>2, <1>a, <2>3 DEF MoveRun, Go, CallRecord
      <4>2. QED
        BY <4>1 DEF MovePcs, RunMoves, Move, KeepOr, RecoveredAs
    <3>2. QED
      BY <3>1, ReasonsStay DEF PublishingIsDue
  <2>4. CASE d = c /\ (BeginPublish(c) \/ Preflight(c) \/ ApplyOperation(c))
    <3>1. call[c].pc \in {"publish", "pubfs", "pubops"} /\ call'[c].act = call[c].act
      BY <1>a, <2>4 DEF BeginPublish, Preflight, ApplyOperation, At, Go, CallRecord
    <3>2. QED
      BY <2>4, <3>1, ReasonsStay DEF PublishingIsDue
  <2>5. QED
    BY <1>2, <1>a, <2>1, <2>2, <2>3, <2>4, Arrivals
<1>3. QED
  BY <1>1, <1>2 DEF PublishingIsDue

\* The original changes under one of the two reasons, and neither goes away.
LEMMA OriginalIsProtectedKept ==
    ASSUME IInv, ActIsLate, PublishingIsDue, OriginalIsProtected, NEW c \in Calls, Step(c)
    PROVE  OriginalIsProtected'
<1>1. CASE UNCHANGED orig /\ (Approved \/ Applied => Approved' \/ Applied')
  BY <1>1 DEF OriginalIsProtected, Approved, Approving, Applied, Reviews
<1>2. CASE ApplyPatch(c) \/ ApplyOperation(c)
  <2>1. call[c].pc \in {"pubfs", "pubops"} /\ call[c].pc \notin OutsidePcs
    BY <1>2 DEF ApplyPatch, ApplyOperation, At, OutsidePcs
  <2>2. Approved \/ Applied
    BY <2>1 DEF PublishingIsDue, Applied, IInv, DecidedPcs
  <2>3. Approved' \/ Applied'
    BY <2>2, ReasonsStay
  <2>4. QED
    BY <2>3 DEF OriginalIsProtected, Approved, Approving, Applied, Reviews
<1>3. QED
  BY <1>1, <1>2, FilesChanged, ReasonsStay

\* Why the original may change, as an inductive invariant.
LEMMA DueStep == DueInv /\ [Next]_vars => DueInv'
<1> SUFFICES ASSUME DueInv, [Next]_vars PROVE DueInv'
  OBVIOUS
<1>1. IInv'
  BY StepInv DEF DueInv
<1>2. ASSUME NEW c \in Calls, Step(c) PROVE DueInv'
  BY <1>1, <1>2, AnswersKeptKept, AnswersFitKept, ActIsLateKept, OnlyShadowsApplyKept,
     PublishingIsDueKept, OriginalIsProtectedKept DEF DueInv
<1>3. CASE LeaseExpires \/ UNCHANGED vars
  <2>1. UNCHANGED <<step, part, res, call, orig>>
    BY <1>3 DEF LeaseExpires, Store!LeaseExpires, vars, storeVars, noteVars, fileVars
  <2>2. lease'.owner = lease.owner /\ lease'.epoch = lease.epoch
    BY <1>3 DEF LeaseExpires, Store!LeaseExpires, vars, storeVars, DueInv, IInv, Typed,
       Store!TypeOK
  <2>3. QED
    BY <1>1, <2>1, <2>2 DEF DueInv, AnswersKept, AnswersFit, ActIsLate, OnlyShadowsApply,
       PublishingIsDue, OriginalIsProtected, Approved, Approving, Holder
<1>4. QED
  BY <1>2, <1>3, StepIsOfTheStore DEF DueInv, IInv

\* In the initial state nothing is recorded, decided or published.
LEMMA DueInit == Init => DueInv
<1> SUFFICES ASSUME Init PROVE DueInv
  OBVIOUS
<1>1. /\ \A s \in Steps : step[s] = "absent" /\ part[s] = "absent"
      /\ \A s \in Steps : res[s] = "none"
      /\ \A c \in Calls : call[c].pc = "new" /\ call[c].act = "none"
      /\ orig = {}
  BY DEF Init, Store!Init, NewCall
<1>2. \A s \in Reviews : s \in Steps
  BY DEF Reviews
<1>3. IInv
  BY InitInv
<1>4. QED
  BY <1>1, <1>2, <1>3 DEF DueInv, AnswersKept, AnswersFit, ActIsLate, OnlyShadowsApply,
     PublishingIsDue, OriginalIsProtected

\* Why the original may change, in every state of the engine.
THEOREM PublishingInvariance == Spec => []DueInv
BY DueInit, DueStep, PTL DEF Spec

-----------------------------------------------------------------------------
(* A shadow: its copy, the journal of its publication, and how they end. *)

\* No operation of the journal's target is left to do.
Whole == pub.bound => pub.done
Quiet == \A c \in Calls : call[c].pc \notin PublishPcs

\* What the journal says of the original and of the copy.
JournalIsTrue ==
    /\ orig \subseteq pub.of
    /\ ~pub.bound => pub.of = {} /\ ~pub.done
    /\ pub.done => orig = pub.of
    /\ pub.bound => space # "no"
    /\ space = "gone" => Whole
    /\ \A c \in Calls : call[c].pc = "pubops" => pub.bound

\* The publication lock: one process at a time.
OnePublisher ==
    \A c, d \in Calls : call[c].pc \in PublishPcs /\ call[d].pc \in PublishPcs => c = d

\* Where the owner of the lease can still publish, the run has not ended.
RunIsOpen ==
    \A c \in Calls :
        Holder(c) /\ call[c].pc \in {"reconcile", "publish"} \cup PublishPcs
        => ~Terminal /\ status # "pending"

\* A run ends as published, and its copy is removed, when nobody publishes and
\* nothing is left to do.
CleanUpIsSafe ==
    \A c \in Calls :
        /\ call[c].pc = "pubdone" => Whole
        /\ Holder(c) /\ call[c].pc \in {"approve", "applied"} => Whole /\ Quiet
        /\ call[c].pc = "cleanup" => Whole /\ Quiet /\ Terminal

ShadowInv ==
    Mode = "shadow" => JournalIsTrue /\ OnePublisher /\ RunIsOpen /\ CleanUpIsSafe

\* Whoever publishes a shadow came in through the lock.
LEMMA PublisherEnters ==
    ASSUME Typed, Mode = "shadow", NEW c \in Calls, Step(c),
           call'[c].pc \in PublishPcs
    PROVE  \/ call[c].pc \in PublishPcs
           \/ BeginPublish(c) /\ LockFree(c) /\ Holder(c) /\ call[c].pc = "publish"
<1>1. ~ApplyPatch(c)
  BY DEF ApplyPatch
<1>2. Preflight(c) \/ ApplyOperation(c) => call[c].pc \in PublishPcs
  BY DEF Preflight, ApplyOperation, At, PublishPcs
<1>3. BeginPublish(c) => /\ call[c].pc = "publish" /\ Holder(c)
                         /\ LockFree(c) \/ Go(c, "approve") \/ Go(c, "park")
  BY HolderHolds DEF BeginPublish, At, Holds
<1>4. Go(c, "approve") \/ Go(c, "park") => call'[c].pc \notin PublishPcs
  BY DEF Go, Typed, CallsTyped, CallRecord, PublishPcs
<1>5. QED
  BY <1>1, <1>2, <1>3, <1>4, Arrivals DEF PublishPcs

\* The journal is written by who holds the lock only.
LEMMA JournalWritten ==
    ASSUME Typed, Mode = "shadow", NEW c \in Calls, Step(c)
    PROVE  \/ pub'.bound = pub.bound /\ pub'.done = pub.done /\ pub'.of = pub.of
           \/ Preflight(c) /\ call[c].pc \in PublishPcs
           \/ ApplyOperation(c) /\ call[c].pc \in PublishPcs
<1>a. pub \in [row : PubRows, bound : BOOLEAN, of : SUBSET Effects, done : BOOLEAN]
  BY DEF Typed, FilesTyped
<1>1. CASE BeginPublish(c) \/ FinishPublish(c)
  BY <1>1, <1>a DEF BeginPublish, FinishPublish
<1>2. CASE Preflight(c) \/ ApplyOperation(c)
  BY <1>2 DEF Preflight, ApplyOperation, At, PublishPcs
<1>3. QED
  BY <1>1, <1>2, FilesChanged

\* What is whole and quiet stays whole.
LEMMA WholeStays ==
    ASSUME Typed, Mode = "shadow", Whole, NEW c \in Calls, Step(c)
    PROVE  Whole' \/ (Preflight(c) /\ space = "yes" /\ call'[c].pc = "pubops")
<1>a. /\ pub \in [row : PubRows, bound : BOOLEAN, of : SUBSET Effects, done : BOOLEAN]
      /\ call \in [Calls -> CallRecord]
  BY DEF Typed, FilesTyped, CallsTyped
<1>b. pub.bound => pub.done
  BY DEF Whole
<1>c. SUFFICES \/ pub'.bound => pub'.done
               \/ (Preflight(c) /\ space = "yes" /\ call'[c].pc = "pubops")
  BY DEF Whole
<1>1. CASE Preflight(c)
  <2>1. \/ UNCHANGED pub
        \/ pub' = [pub EXCEPT !.done = pub.bound]
        \/ space = "yes" /\ call'[c].pc = "pubops"
    BY <1>1, <1>a DEF Preflight, Go, CallRecord
  <2>2. QED
    BY <1>1, <1>a, <1>b, <2>1
<1>2. CASE ApplyOperation(c)
  <2>1. UNCHANGED pub \/ pub' = [pub EXCEPT !.done = TRUE]
    BY <1>2 DEF ApplyOperation
  <2>2. QED
    BY <1>a, <1>b, <2>1
<1>3. QED
  BY <1>1, <1>2, <1>b, JournalWritten

\* The lock keeps publishers apart, also when the one before has lost its lease.
LEMMA OnePublisherKept ==
    ASSUME Typed, Mode = "shadow", OnePublisher, NEW c \in Calls, Step(c)
    PROVE  OnePublisher'
<1>1. \A d \in Calls \ {c} : call'[d] = call[d]
  BY CallStoreStep DEF StoreStep
<1>2. QED
  BY <1>1, PublisherEnters DEF OnePublisher, LockFree

\* No step makes the journal wrong: it is bound once, and the copy that its
\* operations come from is removed only when none is left to do.
LEMMA JournalIsTrueKept ==
    ASSUME Typed, Mode = "shadow", JournalIsTrue, CleanUpIsSafe, NEW c \in Calls, Step(c)
    PROVE  JournalIsTrue'
<1>a. /\ pub \in [row : PubRows, bound : BOOLEAN, of : SUBSET Effects, done : BOOLEAN]
      /\ call \in [Calls -> CallRecord] /\ space \in Spaces
  BY DEF Typed, FilesTyped, CallsTyped
<1>b. \A d \in Calls \ {c} : call'[d] = call[d]
  BY CallStoreStep DEF StoreStep
<1>1. CASE Preflight(c)
  <2>1. UNCHANGED <<orig, space>> /\ pub'.bound \in BOOLEAN
    BY <1>1, <1>a DEF Preflight
  <2>2. CASE UNCHANGED pub /\ call'[c].pc # "pubops"
    BY <1>b, <2>1, <2>2 DEF JournalIsTrue, Whole
  <2>3. CASE /\ head = orig /\ pub' = [pub EXCEPT !.done = pub.bound]
             /\ pub.bound => pub.of = head
             /\ call'[c].pc # "pubops"
    BY <1>a, <1>b, <2>1, <2>3 DEF JournalIsTrue, Whole
  <2>4. CASE /\ pub' = [pub EXCEPT !.bound = TRUE, !.of = head, !.done = FALSE]
             /\ pub.bound => pub.of = head
             /\ space = "yes"
    BY <1>a, <1>b, <2>1, <2>4 DEF JournalIsTrue, Whole
  <2>5. QED
    BY <1>1, <1>a, <2>2, <2>3, <2>4 DEF Preflight, Go, CallRecord
<1>2. CASE ApplyOperation(c)
  <2>1. UNCHANGED space /\ call[c].pc = "pubops" /\ pub.bound
    BY <1>2 DEF ApplyOperation, At, JournalIsTrue
  <2>2. CASE /\ pub.of \subseteq orig /\ UNCHANGED orig
             /\ pub' = [pub EXCEPT !.done = TRUE]
    BY <1>a, <1>b, <2>1, <2>2 DEF JournalIsTrue, Whole
  <2>3. CASE \E e \in pub.of \ orig : orig' = orig \cup {e} /\ UNCHANGED <<call, pub>>
    BY <1>a, <1>b, <2>1, <2>3 DEF JournalIsTrue, Whole
  <2>4. QED
    BY <1>2, <2>2, <2>3 DEF ApplyOperation
<1>3. CASE ~Preflight(c) /\ ~ApplyOperation(c)
  <2>1. pub'.bound = pub.bound /\ pub'.done = pub.done /\ pub'.of = pub.of
    BY <1>3, JournalWritten
  <2>2. UNCHANGED orig /\ call'[c].pc # "pubops"
    <3>1. ~ApplyPatch(c)
      BY DEF ApplyPatch
    <3>2. QED
      BY <1>3, <3>1, FilesChanged, Arrivals
  <2>3. CASE UNCHANGED space
    BY <1>b, <2>1, <2>2, <2>3 DEF JournalIsTrue, Whole
  <2>4. space' # "no" \/ UNCHANGED space
    BY FilesChanged DEF RestoreWorktree, DiscardTree, PrepareWorkspace,
       CopyWorkspace, OpenWorkspace, CleanUp
  <2>5. space' = "gone" => Whole \/ UNCHANGED space
    <3>1. CASE DiscardTree(c)
      BY <1>a, <3>1 DEF DiscardTree, Whole
    <3>2. CASE PrepareWorkspace(c)
      BY <1>a, <3>2 DEF PrepareWorkspace, JournalIsTrue, Whole
    <3>3. CASE CleanUp(c)
      BY <3>3 DEF CleanUp, CleanUpIsSafe, At
    <3>4. CASE CopyWorkspace(c) \/ OpenWorkspace(c) \/ RestoreWorktree(c)
      BY <3>4 DEF CopyWorkspace, OpenWorkspace, RestoreWorktree
    <3>5. QED
      BY <3>1, <3>2, <3>3, <3>4, FilesChanged
  <2>6. QED
    BY <1>b, <2>1, <2>2, <2>3, <2>4, <2>5 DEF JournalIsTrue, Whole
<1>4. QED
  BY <1>1, <1>2, <1>3

\* Only its owner takes a run to its end.
LEMMA OwnerEndsIt ==
    ASSUME Typed, NEW c \in Calls, Step(c), status' # status
    PROVE  \/ MoveRun(c) /\ Holder(c) /\ UNCHANGED lease /\ call[c].pc \in MovePcs
           \/ FinishCancel(c) /\ Holder(c) /\ UNCHANGED lease /\ call[c].pc = "cancelling"
           \/ status' = (IF status = "pending" THEN "cancelled" ELSE "cancelling")
<1>1. CASE MoveRun(c)
  BY <1>1, HolderHolds DEF MoveRun, Store!TransitionRun
<1>2. CASE FinishCancel(c)
  BY <1>2, HolderHolds DEF FinishCancel, Store!FinalizeCancellation, At, SameStore, storeVars
<1>3. CASE RequestCancel(c)
  BY <1>3 DEF RequestCancel, Store!RequestCancellation, SameStore, storeVars
<1>4. QED
  BY <1>1, <1>2, <1>3, RowsChanged, StepArithmetic

\* A run ends by its owner, and a cancel request ends only one that never began.
LEMMA RunIsOpenKept ==
    ASSUME Typed, Mode = "shadow", RunIsOpen, NEW c \in Calls, Step(c)
    PROVE  RunIsOpen'
<1> DEFINE Places == {"reconcile", "publish"} \cup PublishPcs
<1>a. call \in [Calls -> CallRecord]
  BY DEF Typed, CallsTyped
<1>b. "cancelling" \notin Store!RunTerminal
  BY DEF Store!RunTerminal, Store!RunStatus, Store!RunTransitions
<1>1. ASSUME NEW d \in Calls \ {c}, Holder(d)', call'[d].pc \in Places
      PROVE  ~Terminal' /\ status' # "pending"
  <2>1. Holder(d) /\ call'[d] = call[d]
    BY <1>1, OthersFenced, CallStoreStep
  <2>2. ~Terminal /\ status # "pending" /\ ~Holder(c)
    BY <1>1, <2>1 DEF RunIsOpen, Holder
  <2>3. QED
    BY <1>b, <2>2, OwnerEndsIt DEF Terminal
<1>2. ASSUME Holder(c)', call'[c].pc \in Places PROVE ~Terminal' /\ status' # "pending"
  <2>1. CASE Branch(c)
    <3>1. /\ UNCHANGED storeVars
          /\ call'[c].pc \in {"reconcile", "cancelling", "begin", "restart", "workspace"}
          /\ call'[c].pc = "reconcile" => status = "awaiting_reconciliation"
      BY <1>a, <2>1 DEF Branch, EnteredPc, Go, SameStore, CallRecord
    <3>2. "awaiting_reconciliation" \notin Store!RunTerminal
      BY DEF Store!RunTerminal, Store!RunStatus, Store!RunTransitions
    <3>3. QED
      BY <1>2, <3>1, <3>2 DEF Terminal, storeVars, PublishPcs
  <2>2. CASE MoveRun(c)
    <3>1. call[c].pc \in MovePcs /\ status' = RunMoves(c)[call[c].pc].to
          /\ call'[c].pc = RunMoves(c)[call[c].pc].next
      BY <1>a, <2>2 DEF MoveRun, Store!TransitionRun, Go, CallRecord
    <3>2. RunMoves(c)[call[c].pc].next \in Places => status' = "finalizing"
      BY <3>1 DEF MovePcs, RunMoves, Move, KeepOr, RecoveredAs, PublishPcs
    <3>3. "finalizing" \notin Store!RunTerminal
      BY DEF Store!RunTerminal, Store!RunStatus, Store!RunTransitions
    <3>4. QED
      BY <1>2, <3>1, <3>2, <3>3 DEF Terminal
  <2>3. CASE Decide(c) \/ BeginPublish(c) \/ Preflight(c) \/ ApplyOperation(c)
    <3>1. call[c].pc \in Places /\ UNCHANGED storeVars
      BY <2>3 DEF Decide, BeginPublish, Preflight, ApplyOperation, At, PublishPcs, SameStore
    <3>2. Holder(c)
      BY <1>2, HolderStays DEF PublishPcs
    <3>3. QED
      BY <3>1, <3>2 DEF RunIsOpen, Terminal, storeVars
  <2>4. ~ApplyPatch(c)
    BY DEF ApplyPatch
  <2>5. QED
    BY <1>2, <2>1, <2>2, <2>3, <2>4, Arrivals DEF PublishPcs
<1>3. QED
  BY <1>1, <1>2 DEF RunIsOpen

\* Between the last operation of a publication and the removal of the copy
\* nobody else gets to the lock: that takes the lease, and then the run is over.
LEMMA CleanUpIsSafeKept ==
    ASSUME Typed, Mode = "shadow", OnePublisher, RunIsOpen, CleanUpIsSafe,
           NEW c \in Calls, Step(c)
    PROVE  CleanUpIsSafe'
<1>a. /\ pub \in [row : PubRows, bound : BOOLEAN, of : SUBSET Effects, done : BOOLEAN]
      /\ call \in [Calls -> CallRecord]
  BY DEF Typed, FilesTyped, CallsTyped
<1>b. \A d \in Calls \ {c} : call'[d] = call[d]
  BY CallStoreStep DEF StoreStep
<1>c. ASSUME Whole, Quiet, ~(call[c].pc = "publish" /\ Holder(c)) PROVE Whole' /\ Quiet'
  <2>1. call[c].pc \notin PublishPcs
    BY <1>c DEF Quiet
  <2>2. Whole'
    BY <1>c, <2>1, WholeStays DEF Preflight, At, PublishPcs
  <2>3. QED
    BY <1>b, <1>c, <2>1, <2>2, PublisherEnters DEF Quiet
<1>1. ASSUME NEW d \in Calls, call'[d].pc = "pubdone" PROVE Whole'
  <2>1. CASE d # c
    <3>1. call[d].pc = "pubdone" /\ call[c].pc \notin PublishPcs
      BY <1>1, <1>b, <2>1 DEF OnePublisher, PublishPcs
    <3>2. QED
      BY <3>1, JournalWritten DEF CleanUpIsSafe, Whole
  <2>2. CASE d = c /\ Preflight(c)
    BY <1>1, <1>a, <2>2 DEF Preflight, Whole, Go, CallRecord
  <2>3. CASE d = c /\ ApplyOperation(c)
    <3>1. pub' = [pub EXCEPT !.done = TRUE] \/ (call' = call /\ call[c].pc = "pubops")
      BY <2>3 DEF ApplyOperation, At
    <3>2. QED
      BY <1>1, <1>a, <2>3, <3>1 DEF Whole
  <2>4. QED
    BY <1>1, <2>1, <2>2, <2>3, Arrivals DEF ApplyPatch
<1>2. ASSUME NEW d \in Calls, Holder(d)', call'[d].pc \in {"approve", "applied"}
      PROVE  Whole' /\ Quiet'
  <2>1. CASE d # c
    <3>1. Holder(d) /\ call'[d] = call[d]
      BY <1>2, <2>1, OthersFenced, CallStoreStep
    <3>2. ~Holder(c)
      BY <2>1, <3>1 DEF Holder
    <3>3. QED
      BY <1>2, <1>c, <3>1, <3>2 DEF CleanUpIsSafe
  <2>2. CASE d = c
    <3>1. ~BeginPublish(c)
      BY <1>2, <1>a, <2>2 DEF BeginPublish, Go, CallRecord
    <3>2. FinishPublish(c)
      BY <1>2, <2>2, <3>1, Arrivals
    <3>3. call[c].pc = "pubdone" /\ pub'.bound = pub.bound /\ pub'.done = pub.done
      BY <1>2, <1>a, <2>2, <3>2 DEF FinishPublish, At, Go, CallRecord
    <3>4. Whole'
      BY <3>3 DEF CleanUpIsSafe, Whole
    <3>5. Quiet'
      BY <1>2, <1>b, <2>2, <3>3 DEF OnePublisher, Quiet, PublishPcs
    <3>6. QED
      BY <3>4, <3>5
  <2>3. QED
    BY <2>1, <2>2
<1>3. ASSUME NEW d \in Calls, call'[d].pc = "cleanup" PROVE Whole' /\ Quiet' /\ Terminal'
  <2>1. CASE d # c
    <3>1. Whole /\ Quiet /\ Terminal
      BY <1>3, <1>b, <2>1 DEF CleanUpIsSafe
    <3>2. ~(call[c].pc = "publish" /\ Holder(c))
      BY <3>1 DEF RunIsOpen
    <3>3. status' = status
      BY <3>1, CallStoreStep, StoreKeeps
      DEF Typed, StoreStep, FencedWrite, LeaseMove, Store!Next, Store!RunOp, Terminal
    <3>4. QED
      BY <1>c, <3>1, <3>2, <3>3 DEF Terminal
  <2>2. CASE d = c
    <3>1. MoveRun(c)
      BY <1>3, <2>2, Arrivals
    <3>2. call[c].pc \in MovePcs /\ status' = RunMoves(c)[call[c].pc].to
          /\ RunMoves(c)[call[c].pc].next = "cleanup" /\ Holder(c)
      BY <1>3, <1>a, <2>2, <3>1, HolderHolds DEF MoveRun, Store!TransitionRun, Go, CallRecord
    <3>3. call[c].pc \in {"approve", "applied"} /\ status' \in {"approved", "needs_changes"}
      BY <3>2 DEF MovePcs, RunMoves, Move, KeepOr, RecoveredAs
    <3>4. {"approved", "needs_changes"} \subseteq Store!RunTerminal
      BY DEF Store!RunTerminal, Store!RunStatus, Store!RunTransitions
    <3>5. Whole /\ Quiet
      BY <3>2, <3>3 DEF CleanUpIsSafe
    <3>6. QED
      BY <1>c, <3>3, <3>4, <3>5 DEF Terminal
  <2>3. QED
    BY <2>1, <2>2
<1>4. QED
  BY <1>1, <1>2, <1>3 DEF CleanUpIsSafe

\* Every step keeps the journal and the copy together.
LEMMA ShadowStep == Typed /\ ShadowInv /\ [Next]_vars => ShadowInv'
<1> SUFFICES ASSUME Typed, ShadowInv, [Next]_vars, Mode = "shadow" PROVE ShadowInv'
  BY DEF ShadowInv
<1>1. ASSUME NEW c \in Calls, Step(c) PROVE ShadowInv'
  BY <1>1, JournalIsTrueKept, OnePublisherKept, RunIsOpenKept, CleanUpIsSafeKept
  DEF ShadowInv
<1>2. CASE LeaseExpires \/ UNCHANGED vars
  <2>1. UNCHANGED <<status, call, fileVars>>
    BY <1>2 DEF LeaseExpires, Store!LeaseExpires, vars, storeVars
  <2>2. lease'.owner = lease.owner /\ lease'.epoch = lease.epoch
    BY <1>2 DEF LeaseExpires, Store!LeaseExpires, vars, storeVars, Typed, Store!TypeOK
  <2>3. QED
    BY <2>1, <2>2 DEF ShadowInv, JournalIsTrue, OnePublisher, RunIsOpen, CleanUpIsSafe,
       Whole, Quiet, Holder, Terminal, fileVars
<1>3. QED
  BY <1>1, <1>2, StepIsOfTheStore

\* Nothing is bound and nobody publishes in the initial state.
LEMMA ShadowInit == Init => ShadowInv
BY DEF Init, NewCall, ShadowInv, JournalIsTrue, OnePublisher, RunIsOpen, CleanUpIsSafe,
   Whole, Quiet, PublishPcs

\* The inductive invariant of a shadow and its publication.
THEOREM ShadowInvariance == Spec => []ShadowInv
BY ShadowInit, ShadowStep, AlwaysTyped, PTL DEF Spec

\* Isolation, in every mode and for any calls, crashes, takeovers and
\* decisions: the original changes for a reason, its journal tells the truth,
\* and a copy is discarded only when nothing of it is half applied.
THEOREM IsolationHolds == Spec => []Isolation
<1>1. Typed /\ ShadowInv => PublishedIsComplete /\ DiscardLosesNothing
  BY DEF Typed, FilesTyped, ShadowInv, JournalIsTrue, Whole, PublishedIsComplete,
     DiscardLosesNothing
<1>2. DueInv => OriginalIsProtected
  BY DEF DueInv
<1>3. QED
  BY <1>1, <1>2, AlwaysTyped, PublishingInvariance, ShadowInvariance, PTL DEF Isolation

-----------------------------------------------------------------------------
(* What a writer starts from and what a review saw. *)

\* Providers are stopped with their lease, and work in a protected copy.
Killed == Mode = "shadow" /\ ~Lingering

\* The owner before its provider is called, and while it has an answer to take.
BeforePcs    == {"phase", "participant", "attempt", "att1", "att2"} \cup StartPcs
AnsweringPcs == {"calling", "called", "recorded", "reduce"}
CleanPcs     == {"preparing", "prepared", "ckptdb", "stepok"} \cup BeforePcs

\* The tree is its own last checkpoint wherever the owner of the lease is about
\* to build on it; only what its own writer does makes it differ.
TreeIsClean ==
    /\ space = "no" => tree = head
    /\ \A c \in Calls : Holder(c) =>
         /\ call[c].pc \in CleanPcs => tree = head
         /\ call[c].pc \in AnsweringPcs /\ call[c].s \notin Writers => tree = head

\* How the walk comes to a step and goes through it.
LEMMA WalkGoesOn ==
    ASSUME Typed, NEW c \in Calls, Step(c)
    PROVE  /\ call'[c].pc \in BeforePcs \ {"phase"} =>
                call[c].pc \in BeforePcs /\ call'[c].s = call[c].s
           /\ call'[c].pc \in AnsweringPcs =>
                call[c].pc \in BeforePcs \cup AnsweringPcs /\ call'[c].s = call[c].s
           /\ call'[c].pc = "phase" =>
                \/ PrepareWorkspace(c) \/ OpenWorkspace(c)
                \/ call[c].pc \in {"phase", "prepared", "stepok"}
<1>a. call \in [Calls -> CallRecord] /\ call[c].s \in Steps
  BY DEF Typed, CallsTyped, CallRecord
<1> USE DEF At, Go, BeforePcs, AnsweringPcs, StartPcs
<1>1. CASE PrepareWorkspace(c) \/ RecordWorkspace(c) \/ OpenWorkspace(c)
  <2>1. call'[c].pc \in {"phase", "preparing", "park"}
    BY <1>1, <1>a DEF PrepareWorkspace, RecordWorkspace, OpenWorkspace, Resume, NextPhase,
       CallRecord
  <2>2. QED
    BY <1>1, <2>1 DEF RecordWorkspace
<1>2. CASE Settle(c)
  <2>1. call[c].pc = "phase"
    BY <1>2 DEF Settle
  <2>2. CASE \E pc \in {"cancelling", "blocked", "materialize"} : Go(c, pc)
    BY <2>1, <2>2, <1>a DEF CallRecord
  <2>3. CASE Resume(c, After(call[c].s, res[call[c].s]))
    BY <1>a, <2>1, <2>3, ResumedAt, AfterFacts
  <2>4. QED
    BY <1>2, <2>2, <2>3 DEF Settle
<1>3. CASE SucceedStep(c)
  BY <1>3, <1>a, ResumedAt, AfterFacts DEF SucceedStep
<1>4. CASE ProviderReturns(c)
  BY <1>4, ProviderAnswers
<1>5. CASE Materialize(c) \/ Dispatch(c) \/ PrepareParticipant(c)
  BY <1>5, <1>a DEF Materialize, Dispatch, PrepareParticipant, CallRecord
<1>6. CASE BeginAttempt(c) \/ StartProvider(c) \/ Beat(c) \/ ProviderWrites(c)
  BY <1>6, <1>a DEF BeginAttempt, StartProvider, Beat, ProviderWrites, CallRecord
<1>7. CASE RecordAttempt(c) \/ RecordParticipant(c) \/ Reduce(c)
  BY <1>7, <1>a DEF RecordAttempt, RecordParticipant, Reduce, CallRecord
<1>8. CASE CheckpointTree(c) \/ RecordCheckpoint(c) \/ BeginAccept(c)
  BY <1>8, <1>a DEF CheckpointTree, RecordCheckpoint, BeginAccept, CallRecord
<1>9. CASE Elsewhere(c)
  BY <1>9, ElsewhereLeavesTheWalk DEF WalkPcs, AttemptPcs, SettlePcs
<1>q. QED
  BY StepIsSomewhere, <1>1, <1>2, <1>3, <1>4, <1>5, <1>6, <1>7, <1>8, <1>9 DEF Walking

\* Only the writer that owns the lease makes the tree differ from its checkpoint.
LEMMA CleanOrOwnWrite ==
    ASSUME Typed, Killed, NEW c \in Calls, Step(c)
    PROVE  \/ UNCHANGED <<tree, head>>
           \/ tree' = head' /\ head' \in {tree, head} /\ space = "yes"
           \/ /\ ProviderWrites(c) /\ UNCHANGED <<head, call>> /\ space = "yes"
              /\ Holder(c) /\ call[c].pc = "calling" /\ call[c].s \in Writers
<1>1. CASE ProviderWrites(c)
  BY <1>1 DEF ProviderWrites, Killed, Holder, At
<1>2. CASE RestoreTree(c)
  BY <1>2 DEF RestoreTree
<1>3. CASE CheckpointTree(c)
  BY <1>3 DEF CheckpointTree
<1>4. CASE OpenWorkspace(c)
  BY <1>4 DEF OpenWorkspace, Killed
<1>5. ~RestoreWorktree(c)
  BY DEF RestoreWorktree, Killed
<1>6. QED
  BY <1>1, <1>2, <1>3, <1>4, <1>5, FilesChanged

\* What the owner is about to build on stays clean.
LEMMA TreeIsCleanKept ==
    ASSUME Typed, AnswersFit, TreeIsClean, Killed, NEW c \in Calls, Step(c)
    PROVE  TreeIsClean'
<1>a. call \in [Calls -> CallRecord] /\ space \in Spaces /\ call[c].s \in Steps
  BY DEF Typed, CallsTyped, FilesTyped, CallRecord
<1>1. ASSUME space' = "no" PROVE tree' = head'
  <2>1. space = "no"
    BY <1>1, FilesChanged DEF RestoreWorktree, DiscardTree, PrepareWorkspace, CopyWorkspace,
       OpenWorkspace, CleanUp
  <2>2. QED
    BY <2>1, CleanOrOwnWrite DEF TreeIsClean
<1>2. ASSUME NEW d \in Calls \ {c}, Holder(d)', tree = head PROVE tree' = head'
  BY <1>2, CleanOrOwnWrite, OthersFenced, CallStoreStep DEF Holder
<1>3. ASSUME Holder(c)', tree = head,
             ~(call[c].pc = "calling" /\ call[c].s \in Writers) \/ ~UNCHANGED call
      PROVE  tree' = head'
  BY <1>3, CleanOrOwnWrite
<1>4. ASSUME Holder(c)', call'[c].pc \in CleanPcs PROVE tree' = head'
  <2>1. Holder(c)
    BY <1>4, HolderStays DEF CleanPcs, BeforePcs, StartPcs
  <2>2. ASSUME call[c].pc \in CleanPcs PROVE tree' = head'
    BY <1>3, <1>4, <2>1, <2>2 DEF TreeIsClean, CleanPcs, BeforePcs, StartPcs
  <2>3. CASE call'[c].pc \in BeforePcs \ {"phase"}
    BY <2>2, <2>3, WalkGoesOn DEF CleanPcs
  <2>4. CASE call'[c].pc = "phase"
    <3>1. ~(PrepareWorkspace(c))
      BY <1>a, <2>4 DEF PrepareWorkspace, Killed, Go, CallRecord
    <3>2. OpenWorkspace(c) => tree' = head'
      BY <1>a, <2>4 DEF OpenWorkspace, TreeIsVerified, Killed, Go, CallRecord
    <3>3. QED
      BY <2>2, <2>4, <3>1, <3>2, WalkGoesOn DEF CleanPcs, BeforePcs
  <2>5. CASE call'[c].pc \in {"preparing", "prepared"}
    <3>1. PrepareWorkspace(c) => space = "no" /\ UNCHANGED <<tree, head>>
      BY DEF PrepareWorkspace
    <3>2. CopyWorkspace(c) => call[c].pc = "preparing"
      BY DEF CopyWorkspace, At
    <3>3. QED
      BY <2>2, <2>5, <3>1, <3>2, Arrivals DEF TreeIsClean, CleanPcs
  <2>6. CASE call'[c].pc = "ckptdb"
    <3>1. CheckpointTree(c)
      BY <2>6, Arrivals
    <3>2. QED
      BY <1>a, <2>6, <3>1 DEF CheckpointTree, Go, CallRecord
  <2>7. CASE call'[c].pc = "stepok"
    <3>1. CASE RecordCheckpoint(c)
      BY <2>2, <3>1 DEF RecordCheckpoint, At, CleanPcs
    <3>2. CASE Reduce(c)
      <4>1. call[c].pc = "reduce" /\ call[c].s \notin Writers /\ UNCHANGED <<tree, head>>
        BY <1>a, <2>7, <3>2 DEF Reduce, At, Go, SameBut, SameFiles, fileVars, CallRecord
      <4>2. QED
        BY <2>1, <4>1 DEF TreeIsClean, AnsweringPcs
    <3>3. QED
      BY <2>7, <3>1, <3>2, Arrivals
  <2>8. QED
    BY <1>4, <2>3, <2>4, <2>5, <2>6, <2>7 DEF CleanPcs
<1>5. ASSUME Holder(c)', call'[c].pc \in AnsweringPcs, call'[c].s \notin Writers
      PROVE  tree' = head'
  <2>1. Holder(c)
    BY <1>5, HolderStays DEF AnsweringPcs
  <2>2. call[c].pc \in BeforePcs \cup AnsweringPcs /\ call[c].s \notin Writers
    BY <1>5, WalkGoesOn
  <2>3. QED
    BY <1>3, <1>5, <2>1, <2>2 DEF TreeIsClean, CleanPcs
<1>6. QED
  BY <1>1, <1>2, <1>4, <1>5, OthersFenced, CallStoreStep DEF TreeIsClean

\* Everything before the step that a call works on is done, and so it is before
\* a review that has answered.
WorkIsReady ==
    /\ \A c \in Calls : call[c].pc \in BeforePcs \cup AnsweringPcs => Ready(call[c].s)
    /\ \A s \in Reviews : part[s] = "succeeded" => Ready(s)

\* The review that counts is the one that saw the tree as it is.
ReviewIsFresh ==
    /\ \A s \in Reviews :
         part[s] = "succeeded" /\ ~(step[s] = "succeeded" /\ res[s] = "blockers")
         => reviewed[s] = tree /\ tree = head
    /\ \A s \in Reviews : step[s] = "succeeded" => part[s] = "succeeded"
    /\ \A c \in Calls : Holder(c) /\ call[c].s \in Reviews =>
         /\ call[c].pc \in {"called", "recorded"} => call[c].saw = tree
         /\ call[c].pc \in {"reduce", "stepok"} => part[call[c].s] = "succeeded"

\* What remembers that a run was approved is right.
ApprovalIsDue ==
    /\ status \in {"finalizing", "approved"} \/ recon = "parked_approved" => Approved
    /\ \A c \in Calls :
         /\ call[c].seen = "finalizing" => Approved
         /\ call[c].pc = "pubdone" => call[c].act = "apply" \/ Approved
         /\ call[c].pc = "approve" => Approved

\* What was published of an approved run is what its review saw.
OrigIsReviewed ==
    /\ Approved => \A c \in Calls : Holder(c) =>
         /\ call[c].pc = "pubops" => pub.of = head
         /\ call[c].pc \in {"pubdone", "approve", "applied"} => orig = head
    /\ status = "approved" => \E s \in Steps : Approving(s) /\ orig = reviewed[s]

\* What is worked on rests on finished steps.
LEMMA WorkIsReadyKept ==
    ASSUME IInv, AnswersFit, WorkIsReady, NEW c \in Calls, Step(c)
    PROVE  WorkIsReady'
<1>a. /\ call \in [Calls -> CallRecord] /\ \A d \in Calls : call[d].s \in Steps
      /\ \A s \in Reviews : s \in Steps /\ s \notin Writers
      /\ Typed
  BY DEF IInv, Typed, CallsTyped, CallRecord, Reviews, Writers
<1>b. PhaseIsReady'
  BY PhaseIsReadyKept DEF IInv
<1>1. ASSUME NEW d \in Calls, call'[d].pc \in BeforePcs \cup AnsweringPcs,
             NEW n, n = call'[d].s
      PROVE  Ready(n)'
  <2>1. CASE call'[d].pc = "phase"
    BY <1>1, <1>b, <2>1 DEF PhaseIsReady
  <2>2. CASE call'[d].pc # "phase"
    <3>1. call[d].pc \in BeforePcs \cup AnsweringPcs /\ call'[d].s = call[d].s
      BY <1>1, <1>a, <2>2, WalkGoesOn, CallStoreStep DEF StoreStep
    <3>2. n \in Steps /\ Ready(n)
      BY <1>1, <1>a, <3>1 DEF WorkIsReady
    <3>3. QED
      BY <3>2, ReadyStays DEF IInv
  <2>3. QED
    BY <2>1, <2>2
<1>2. ASSUME NEW s \in Reviews, part'[s] = "succeeded" PROVE Ready(s)'
  <2>1. CASE part[s] = "succeeded"
    BY <1>a, <2>1, ReadyStays DEF WorkIsReady, IInv
  <2>2. CASE part[s] # "succeeded"
    <3>1. RecordParticipant(c) /\ call[c].s = s
      BY <1>2, <1>a, <2>2, RowsChanged DEF AcceptUnknown, At, AnswersFit
    <3>2. Ready(s)
      BY <3>1 DEF RecordParticipant, At, WorkIsReady, AnsweringPcs
    <3>3. QED
      BY <1>a, <3>2, ReadyStays DEF IInv
  <2>3. QED
    BY <2>1, <2>2
<1>3. QED
  BY <1>1, <1>2 DEF WorkIsReady

\* The participant of a finished step stays as it is.
LEMMA PartStays ==
    ASSUME Typed, StepIsOpen, NEW c \in Calls, Step(c), NEW s \in Steps,
           step[s] = "succeeded", part[s] = "succeeded"
    PROVE  part'[s] = "succeeded"
<1>a. /\ call \in [Calls -> CallRecord] /\ call[c].s \in Steps
      /\ part \in [Steps -> Store!RowStatus \cup {"absent"}]
  BY DEF Typed, CallsTyped, CallRecord, Store!TypeOK
<1> USE DEF SameStore, storeVars
<1>1. CASE ResetUnknown(c)
  BY <1>1, <1>a DEF ResetUnknown, Store!ResetStep, Store!Retriable
<1>2. CASE AcceptUnknown(c)
  BY <1>2, <1>a DEF AcceptUnknown, Store!AcceptStep
<1>3. CASE Settle(c)
  BY <1>3, <1>a DEF Settle, Store!ResetStep, Store!Retriable
<1>4. CASE PrepareParticipant(c)
  BY <1>4, <1>a DEF PrepareParticipant, Store!CreateParticipant
<1>5. CASE BeginAttempt(c)
  <2>1. CASE UNCHANGED part
    BY <2>1
  <2>2. CASE Store!CreateAttempt(Tok(c), call[c].s)
    <3>1. Holder(c) /\ call[c].pc = "attempt"
      BY <1>5, <2>2, HolderHolds DEF BeginAttempt, At, Store!CreateAttempt
    <3>2. call[c].s # s
      BY <3>1 DEF StepIsOpen, AttemptPcs
    <3>3. QED
      BY <1>a, <2>2, <3>2 DEF Store!CreateAttempt
  <2>3. QED
    BY <1>5, <2>1, <2>2 DEF BeginAttempt
<1>6. CASE StartProvider(c)
  BY <1>6, <1>a DEF StartProvider, Store!TransitionParticipant, Store!TransitionAttempt,
     Store!Legal, Store!StepTransitions
<1>7. CASE RecordParticipant(c)
  BY <1>7, <1>a DEF RecordParticipant, Store!TransitionParticipant, Store!Legal,
     Store!StepTransitions
<1>8. CASE FinishCancel(c)
  BY <1>8, <1>a DEF FinishCancel, Store!FinalizeCancellation, Store!CancelRow, Store!OpenRow
<1>9. CASE
    \/ Submit(c) \/ Enter(c) \/ Branch(c) \/ MoveRun(c) \/ MoveIsIllegal(c)
    \/ Decide(c) \/ BeginRestore(c) \/ RestoreTree(c) \/ RestoreWorktree(c)
    \/ BeginAccept(c) \/ BeginDiscard(c) \/ DiscardTree(c)
    \/ PrepareWorkspace(c) \/ CopyWorkspace(c) \/ RecordWorkspace(c)
    \/ OpenWorkspace(c) \/ Materialize(c) \/ Dispatch(c)
    \/ RecordAttempt(c) \/ Reduce(c) \/ CheckpointTree(c) \/ RecordCheckpoint(c)
    \/ SucceedStep(c) \/ FailStep(c) \/ StepIsIllegal(c) \/ ProviderWrites(c)
    \/ Beat(c) \/ ProviderReturns(c) \/ BeginPublish(c) \/ ApplyPatch(c)
    \/ Preflight(c) \/ ApplyOperation(c) \/ FinishPublish(c) \/ CleanUp(c)
    \/ RecoverScan(c) \/ RecoverAcquire(c) \/ RecoverRead(c) \/ RecoverSteps(c)
    \/ RequestCancel(c) \/ CancelAcquire(c) \/ Leave(c) \/ Lost(c) \/ Crash(c)
  BY <1>9 DEF Submit, Enter, AcquireTo, Refused, Branch, EnteredPc, MoveRun,
       MoveIsIllegal, Decide, DecisionPc, Allowed, WorkspaceActions, BeginRestore,
       RestoreTree, RestoreWorktree, BeginAccept, BeginDiscard,
       DiscardTree, PrepareWorkspace, CopyWorkspace, RecordWorkspace, OpenWorkspace,
       Materialize, Dispatch, RecordAttempt, Reduce, CheckpointTree, RecordCheckpoint,
       SucceedStep, FailStep, StepIsIllegal, ProviderWrites, Beat, ProviderReturns,
       BeginPublish, ApplyPatch, Preflight, ApplyOperation, FinishPublish, CleanUp,
       RecoverScan, RecoverAcquire, RecoverRead, RecoverSteps, RequestCancel,
       CancelAcquire, Leave, Lost, Crash, Store!AcquireLease, Store!TransitionRun,
       Store!CreateStep, Store!TransitionStep, Store!TransitionAttempt,
       Store!ClassifyStaleAttempt, Store!Heartbeat, Store!RequestCancellation,
       Store!ReleaseLease
<1>q. QED
  BY <1>1, <1>2, <1>3, <1>4, <1>5, <1>6, <1>7, <1>8, <1>9 DEF Step, Progress, Deciding,
     Opening, Executing, Providing, Publishing, Recovering, Cancelling

\* No writer is at work once a review has answered that nothing changes.
LEMMA ReviewsAloneWithTree ==
    ASSUME IInv, WorkIsReady, NEW c \in Calls, Holder(c), call[c].pc = "calling",
           NEW w \in Writers, call[c].s = w,
           NEW s \in Reviews, part[s] = "succeeded",
           ~(step[s] = "succeeded" /\ res[s] = "blockers")
    PROVE  FALSE
<1>1. /\ w \in Steps /\ s \in Steps /\ w # s /\ w \in Nat /\ s \in Nat
      /\ s \notin Writers
  BY StepArithmetic DEF Reviews, Writers
<1>2. Ready(w) /\ Ready(s)
  BY DEF WorkIsReady, AnsweringPcs
<1>3. step[w] # "succeeded"
  BY DEF IInv, StepIsOpen, AttemptPcs
<1>4. CASE s < w
  BY <1>1, <1>2, <1>4 DEF Ready
<1>5. CASE w < s
  BY <1>1, <1>2, <1>3, <1>5 DEF Ready
<1>6. QED
  BY <1>1, <1>4, <1>5

\* No writer changes the tree between a review and what rests on it.
LEMMA ReviewIsFreshKept ==
    ASSUME IInv, AnswersFit, TreeIsClean, WorkIsReady, ReviewIsFresh, Killed,
           NEW c \in Calls, Step(c)
    PROVE  ReviewIsFresh'
<1>a. /\ call \in [Calls -> CallRecord] /\ \A d \in Calls : call[d].s \in Steps
      /\ \A s \in Reviews : s \in Steps /\ s \notin Writers
      /\ Typed /\ reviewed \in [Steps -> SUBSET Effects]
      /\ part \in [Steps -> Store!RowStatus \cup {"absent"}]
  BY DEF IInv, Typed, CallsTyped, FilesTyped, CallRecord, Reviews, Writers, Store!TypeOK
<1>1. ASSUME NEW s \in Reviews, RecordParticipant(c), call[c].s = s, part'[s] = "succeeded"
      PROVE  reviewed'[s] = tree' /\ tree' = head'
  <2>1. UNCHANGED <<tree, head>> /\ call[c].pc = "recorded"
    BY <1>1 DEF RecordParticipant, SameFiles, fileVars, At
  <2>2. call[c].out # "bad"
    BY <1>1, <1>a DEF RecordParticipant, Store!TransitionParticipant
  <2>3. reviewed'[s] = call[c].saw /\ Holder(c)
    BY <1>1, <1>a, <2>2, HolderHolds DEF RecordParticipant, Store!TransitionParticipant
  <2>4. call[c].saw = tree /\ tree = head
    BY <1>1, <1>a, <2>1, <2>3 DEF ReviewIsFresh, TreeIsClean, AnsweringPcs
  <2>5. QED
    BY <2>1, <2>3, <2>4
<1>2. ASSUME NEW s \in Reviews, part'[s] = "succeeded",
             ~(step'[s] = "succeeded" /\ res'[s] = "blockers")
      PROVE  reviewed'[s] = tree' /\ tree' = head'
  <2>1. CASE part[s] # "succeeded"
    BY <1>1, <1>2, <1>a, <2>1, RowsChanged DEF AcceptUnknown, At, AnswersFit
  <2>2. CASE RecordParticipant(c) /\ call[c].s = s
    BY <1>1, <1>2, <2>2
  <2>3. CASE part[s] = "succeeded" /\ ~(RecordParticipant(c) /\ call[c].s = s)
    <3>1. reviewed'[s] = reviewed[s]
      BY <1>a, <2>3, FilesChanged DEF RecordParticipant, SameNotes, noteVars
    <3>2. ~(step[s] = "succeeded" /\ res[s] = "blockers")
      BY <1>2, <1>a, DoneStays DEF IInv
    <3>3. reviewed[s] = tree /\ tree = head
      BY <2>3, <3>2 DEF ReviewIsFresh
    <3>4. ~(Holder(c) /\ call[c].pc = "calling" /\ call[c].s \in Writers)
      BY <2>3, <3>2, ReviewsAloneWithTree
    <3>5. QED
      BY <1>a, <3>1, <3>3, <3>4, CleanOrOwnWrite
  <2>4. QED
    BY <2>1, <2>2, <2>3
<1>3. ASSUME NEW s \in Reviews, step'[s] = "succeeded" PROVE part'[s] = "succeeded"
  <2>1. CASE step[s] = "succeeded"
    BY <1>a, <2>1, PartStays DEF ReviewIsFresh, IInv
  <2>2. CASE step[s] # "succeeded"
    <3>1. SucceedStep(c) /\ call[c].s = s /\ Holder(c)
      BY <1>3, <1>a, <2>2, RowsChanged, HolderHolds DEF AcceptUnknown, At, AnswersFit, Holds
    <3>2. UNCHANGED part /\ call[c].pc = "stepok"
      BY <3>1 DEF SucceedStep, Store!TransitionStep, At
    <3>3. QED
      BY <3>1, <3>2 DEF ReviewIsFresh
  <2>3. QED
    BY <2>1, <2>2
<1>4. ASSUME NEW d \in Calls, Holder(d)', call'[d].s \in Reviews
      PROVE  /\ call'[d].pc \in {"called", "recorded"} => call'[d].saw = tree'
             /\ call'[d].pc \in {"reduce", "stepok"} => part'[call'[d].s] = "succeeded"
  <2>1. CASE d # c
    <3>1. Holder(d) /\ call'[d] = call[d] /\ UNCHANGED part
      BY <1>4, <1>a, <2>1, OthersFenced, CallStoreStep
    <3>2. ~Holder(c)
      BY <2>1, <3>1 DEF Holder
    <3>3. ASSUME call[d].pc \in {"called", "recorded"} PROVE call[d].saw = tree'
      <4>1. tree = head /\ call[d].saw = tree
        BY <1>4, <1>a, <3>1, <3>3 DEF TreeIsClean, AnsweringPcs, ReviewIsFresh
      <4>2. QED
        BY <1>a, <3>2, <4>1, CleanOrOwnWrite
    <3>4. QED
      BY <1>4, <3>1, <3>3 DEF ReviewIsFresh
  <2>2. CASE d = c /\ call'[c].pc = "called"
    <3>1. ProviderReturns(c)
      BY <1>a, <2>2, Arrivals
    <3>2. UNCHANGED tree
      BY <3>1 DEF ProviderReturns, SameBut, SameFiles, fileVars
    <3>3. QED
      BY <1>4, <1>a, <2>2, <3>1, <3>2, ProviderAnswers
  <2>3. CASE d = c /\ call'[c].pc = "recorded"
    <3>1. RecordAttempt(c)
      BY <1>a, <2>3, Arrivals
    <3>2. /\ UNCHANGED tree /\ call[c].pc = "called"
          /\ call'[c].saw = call[c].saw /\ call'[c].s = call[c].s
      BY <1>a, <2>3, <3>1 DEF RecordAttempt, SameBut, SameFiles, fileVars, At, Go, CallRecord
    <3>3. Holder(c)
      BY <1>4, <1>a, <2>3, HolderStays
    <3>4. QED
      BY <1>4, <2>3, <3>2, <3>3 DEF ReviewIsFresh
  <2>4. CASE d = c /\ call'[c].pc = "reduce"
    <3>1. CASE PrepareParticipant(c)
      BY <1>a, <2>4, <3>1 DEF PrepareParticipant, Go, SameStore, storeVars, CallRecord
    <3>2. CASE RecordParticipant(c)
      BY <1>a, <2>4, <3>2 DEF RecordParticipant, Store!TransitionParticipant, CallRecord
    <3>3. QED
      BY <1>a, <2>4, <3>1, <3>2, Arrivals
  <2>5. CASE d = c /\ call'[c].pc = "stepok"
    <3>1. CASE Reduce(c)
      <4>1. UNCHANGED part /\ call[c].pc = "reduce" /\ call'[c].s = call[c].s
        BY <1>a, <2>5, <3>1 DEF Reduce, SameStore, storeVars, At, Go, CallRecord
      <4>2. Holder(c)
        BY <1>4, <1>a, <2>5, HolderStays
      <4>3. QED
        BY <1>4, <2>5, <4>1, <4>2 DEF ReviewIsFresh
    <3>2. CASE RecordCheckpoint(c)
      <4>1. call[c].pc = "ckptdb" /\ call'[c].s = call[c].s
        BY <1>a, <3>2 DEF RecordCheckpoint, At, CallRecord
      <4>2. QED
        BY <1>4, <1>a, <2>5, <4>1 DEF AnswersFit
    <3>3. QED
      BY <1>a, <2>5, <3>1, <3>2, Arrivals
  <2>6. QED
    BY <2>1, <2>2, <2>3, <2>4, <2>5
<1>5. QED
  BY <1>2, <1>3, <1>4 DEF ReviewIsFresh

\* Only an approving review leads to a status, a note or a place that says so.
LEMMA ApprovalIsDueKept ==
    ASSUME DueInv, ApprovalIsDue, NEW c \in Calls, Step(c)
    PROVE  ApprovalIsDue'
<1>a. /\ call \in [Calls -> CallRecord] /\ Typed /\ IInv /\ ActIsLate
      /\ Architect \in Steps
  BY StepArithmetic DEF DueInv, IInv, Typed, CallsTyped
<1>b. \A d \in Calls \ {c} : call'[d] = call[d]
  BY <1>a, CallStoreStep DEF StoreStep
<1>c. Approved => Approved'
  BY <1>a, ReasonsStay
<1>1. ASSUME status' \in {"finalizing", "approved"} PROVE Approved'
  <2>1. CASE status' = status
    BY <1>1, <1>c, <2>1 DEF ApprovalIsDue
  <2>2. CASE FinishCancel(c) /\ status' # status
    BY <1>1, <2>2 DEF FinishCancel, Store!FinalizeCancellation, SameStore, storeVars
  <2>3. CASE MoveRun(c) /\ call[c].pc \in MovePcs
    <3>1. RunMoves(c)[call[c].pc].to \in {"finalizing", "approved"}
      BY <1>1, <2>3 DEF MoveRun, Store!TransitionRun
    <3>2. \/ call[c].pc \in {"finalize", "approve"}
          \/ call[c].pc = "applied" /\ recon = "parked_approved"
      BY <2>3, <3>1 DEF RunMoves, MovePcs, Move, KeepOr, RecoveredAs
    <3>3. QED
      BY <1>c, <3>2 DEF DueInv, PublishingIsDue, ApprovalIsDue
  <2>4. QED
    BY <1>1, <1>a, <2>1, <2>2, <2>3, OwnerEndsIt
<1>2. ASSUME recon' = "parked_approved" PROVE Approved'
  <2>1. CASE recon = "parked_approved"
    BY <1>c, <2>1 DEF ApprovalIsDue
  <2>2. CASE recon # "parked_approved"
    <3>1. MoveRun(c)
      BY <1>2, <1>a, <2>2, RowsChanged
    <3>2. RunMoves(c)[call[c].pc].value = "parked_approved" /\ call[c].pc \in MovePcs
      BY <1>2, <3>1 DEF MoveRun, Store!TransitionRun
    <3>3. status = "finalizing" \/ call[c].seen = "finalizing"
      BY <2>2, <3>2 DEF RunMoves, MovePcs, Move, KeepOr, RecoveredAs, Parked
    <3>4. QED
      BY <1>c, <3>3 DEF ApprovalIsDue
  <2>3. QED
    BY <2>1, <2>2
<1>3. ASSUME NEW d \in Calls, call'[d].seen = "finalizing" PROVE Approved'
  <2>1. CASE RecoverRead(c) /\ d = c
    <3>1. call'[c].seen = status
      BY <1>a, <2>1 DEF RecoverRead, CallRecord
    <3>2. QED
      BY <1>3, <1>c, <2>1, <3>1 DEF ApprovalIsDue
  <2>2. CASE call'[d].seen = call[d].seen
    BY <1>3, <1>c, <2>2 DEF ApprovalIsDue
  <2>3. QED
    BY <1>3, <1>a, <1>b, <2>1, <2>2, CallFields
<1>4. ASSUME NEW d \in Calls, call'[d].pc = "pubdone"
      PROVE  call'[d].act = "apply" \/ Approved'
  <2>1. CASE d # c
    BY <1>4, <1>b, <1>c, <2>1 DEF ApprovalIsDue
  <2>2. CASE d = c
    <3>1. ApplyPatch(c) \/ Preflight(c) \/ ApplyOperation(c)
      BY <1>4, <1>a, <2>2, Arrivals
    <3>2. call[c].pc \in {"pubfs", "pubops"} /\ call'[c].act = call[c].act
      BY <1>a, <3>1 DEF ApplyPatch, Preflight, ApplyOperation, At, Go, CallRecord
    <3>3. QED
      BY <1>c, <2>2, <3>2 DEF DueInv, PublishingIsDue
  <2>3. QED
    BY <2>1, <2>2
<1>5. ASSUME NEW d \in Calls, call'[d].pc = "approve" PROVE Approved'
  <2>1. CASE d # c
    BY <1>5, <1>b, <1>c, <2>1 DEF ApprovalIsDue
  <2>2. CASE d = c
    <3>1. CASE BeginPublish(c)
      <4>1. call[c].pc = "publish" /\ Mode # "shadow"
        BY <1>5, <1>a, <2>2, <3>1 DEF BeginPublish, At, Go, CallRecord
      <4>2. QED
        BY <1>c, <4>1 DEF DueInv, PublishingIsDue, OnlyShadowsApply
    <3>2. CASE FinishPublish(c)
      <4>1. call[c].pc = "pubdone" /\ call[c].act # "apply"
        BY <1>5, <1>a, <2>2, <3>2 DEF FinishPublish, At, Go, CallRecord
      <4>2. QED
        BY <1>c, <4>1 DEF ApprovalIsDue
    <3>3. QED
      BY <1>5, <1>a, <2>2, <3>1, <3>2, Arrivals
  <2>3. QED
    BY <2>1, <2>2
<1>6. QED
  BY <1>1, <1>2, <1>3, <1>4, <1>5 DEF ApprovalIsDue

\* Everything that the two theorems below rest on, as one inductive invariant.
ReviewInv ==
    /\ DueInv
    /\ JournalIsTrue /\ OnePublisher /\ RunIsOpen /\ CleanUpIsSafe
    /\ TreeIsClean
    /\ WorkIsReady
    /\ ReviewIsFresh
    /\ ApprovalIsDue
    /\ OrigIsReviewed

\* A review that counts saw the tree as it is, which is its own checkpoint.
LEMMA ApprovedTree ==
    ASSUME ReviewIsFresh, NEW s \in Steps, Approving(s)
    PROVE  reviewed[s] = tree /\ tree = head
BY DEF Approving, ReviewIsFresh

\* What is published of an approved run is what its review saw.
LEMMA OrigIsReviewedKept ==
    ASSUME ReviewInv, Killed, NEW c \in Calls, Step(c)
    PROVE  OrigIsReviewed'
<1>a. /\ call \in [Calls -> CallRecord] /\ Typed /\ IInv /\ ActIsLate
      /\ pub \in [row : PubRows, bound : BOOLEAN, of : SUBSET Effects, done : BOOLEAN]
      /\ reviewed \in [Steps -> SUBSET Effects] /\ call[c].s \in Steps
  BY DEF ReviewInv, DueInv, IInv, Typed, CallsTyped, FilesTyped, CallRecord
<1>b. \A d \in Calls \ {c} : call'[d] = call[d]
  BY <1>a, CallStoreStep DEF StoreStep
<1>m. Mode = "shadow"
  BY DEF Killed
<1>c. ASSUME Approved PROVE UNCHANGED head
  <2>1. tree = head
    BY <1>c, ApprovedTree DEF Approved, ReviewInv
  <2>2. QED
    BY <1>a, <2>1, CleanOrOwnWrite
<1>d. ASSUME Approved', ~(SucceedStep(c) /\ Holder(c)) PROVE Approved
  <2>1. PICK s \in Steps : Approving(s)'
    BY <1>d DEF Approved
  <2>2. CASE step[s] = "succeeded"
    BY <1>a, <2>1, <2>2, DoneStays DEF Approved, Approving, IInv
  <2>3. CASE step[s] # "succeeded"
    <3>1. s \in Reviews /\ s \notin Writers /\ step'[s] = "succeeded"
      BY <2>1 DEF Approving, Reviews, Writers
    <3>2. AcceptUnknown(c) /\ call[c].s = s
      BY <1>a, <1>d, <2>3, <3>1, RowsChanged, HolderHolds DEF Holds
    <3>3. QED
      BY <3>1, <3>2 DEF AcceptUnknown, At, ReviewInv, DueInv, AnswersFit
  <2>4. QED
    BY <2>2, <2>3
<1>e. orig' # orig => call[c].pc = "pubops" /\ Holder(c)
  <2>1. ~ApplyPatch(c)
    BY <1>m DEF ApplyPatch
  <2>2. ApplyOperation(c) => call[c].pc = "pubops" /\ Holder(c)
    BY HolderHolds DEF ApplyOperation, At, Holds
  <2>3. QED
    BY <1>a, <2>1, <2>2, FilesChanged
<1>1. ASSUME Approved', NEW d \in Calls, d # c, Holder(d)'
      PROVE  /\ call'[d].pc = "pubops" => pub'.of = head'
             /\ call'[d].pc \in {"pubdone", "approve", "applied"} => orig' = head'
  <2>1. Holder(d) /\ call'[d] = call[d]
    BY <1>1, <1>a, OthersFenced, CallStoreStep
  <2>2. ~Holder(c)
    BY <1>1, <2>1 DEF Holder
  <2>3. Approved /\ UNCHANGED <<head, orig>>
    BY <1>1, <1>c, <1>d, <1>e, <2>2
  <2>4. call[d].pc = "pubops" => call[c].pc \notin PublishPcs
    BY <1>1 DEF ReviewInv, OnePublisher, PublishPcs
  <2>5. call[d].pc = "pubops" => pub'.of = pub.of
    BY <1>a, <1>m, <2>4, JournalWritten
  <2>6. QED
    BY <1>1, <2>1, <2>3, <2>5 DEF ReviewInv, OrigIsReviewed
<1>2. ASSUME Approved', Holder(c)',
             call'[c].pc \in {"pubops", "pubdone", "approve", "applied"}
      PROVE  /\ call'[c].pc = "pubops" => pub'.of = head'
             /\ call'[c].pc \in {"pubdone", "approve", "applied"} => orig' = head'
  <2>1. Holder(c)
    BY <1>2, <1>a, HolderStays
  <2>2. ~BeginPublish(c) /\ ~ApplyPatch(c)
    BY <1>2, <1>a, <1>m DEF BeginPublish, ApplyPatch, Go, CallRecord
  <2>3. Preflight(c) \/ ApplyOperation(c) \/ FinishPublish(c)
    BY <1>2, <1>a, <2>2, Arrivals
  <2>4. ~SucceedStep(c)
    BY <2>3 DEF SucceedStep, Preflight, ApplyOperation, FinishPublish, At
  <2>5. Approved /\ UNCHANGED head
    BY <1>2, <1>c, <1>d, <2>4
  <2>6. CASE Preflight(c)
    <3>1. UNCHANGED orig /\ (Go(c, "pubdone") \/ Go(c, "pubops"))
      BY <1>2, <1>a, <2>6 DEF Preflight, Go, CallRecord
    <3>2. CASE head = orig /\ Go(c, "pubdone")
      BY <1>a, <2>5, <3>1, <3>2 DEF Go, CallRecord
    <3>3. CASE /\ pub' = [pub EXCEPT !.bound = TRUE, !.of = head, !.done = FALSE]
               /\ Go(c, "pubops")
      BY <1>a, <2>5, <3>1, <3>3 DEF Go, CallRecord
    <3>4. QED
      BY <1>2, <1>a, <2>6, <3>2, <3>3 DEF Preflight, Go, CallRecord
  <2>7. CASE ApplyOperation(c)
    <3>1. call[c].pc = "pubops" /\ pub.of = head /\ orig \subseteq pub.of
      BY <2>1, <2>5, <2>7 DEF ApplyOperation, At, ReviewInv, OrigIsReviewed, JournalIsTrue
    <3>2. CASE UNCHANGED <<call, pub>>
      BY <1>2, <2>5, <3>1, <3>2
    <3>3. CASE pub.of \subseteq orig /\ UNCHANGED orig /\ Go(c, "pubdone")
      BY <1>2, <1>a, <2>5, <3>1, <3>3 DEF Go, CallRecord
    <3>4. QED
      BY <2>7, <3>2, <3>3 DEF ApplyOperation
  <2>8. CASE FinishPublish(c)
    <3>1. call[c].pc = "pubdone" /\ UNCHANGED orig
          /\ call'[c].pc \in {"approve", "applied"}
      BY <1>2, <1>a, <2>8 DEF FinishPublish, At, Go, CallRecord
    <3>2. QED
      BY <2>1, <2>5, <3>1 DEF ReviewInv, OrigIsReviewed
  <2>9. QED
    BY <2>3, <2>6, <2>7, <2>8
<1>3. ASSUME status' = "approved" PROVE \E s \in Steps : (Approving(s) /\ orig = reviewed[s])'
  <2>1. CASE status = "approved"
    <3>1. PICK s \in Steps : Approving(s) /\ orig = reviewed[s]
      BY <2>1 DEF ReviewInv, OrigIsReviewed
    <3>2. Approving(s)'
      BY <1>a, <3>1, ReasonsStay
    <3>3. UNCHANGED orig
      <4>1. Terminal
        BY <2>1 DEF Terminal, Store!RunTerminal, Store!RunStatus, Store!RunTransitions
      <4>2. QED
        BY <1>e, <4>1 DEF ReviewInv, RunIsOpen, PublishPcs
    <3>4. reviewed'[s] = reviewed[s]
      <4>1. ASSUME RecordParticipant(c), call[c].s = s PROVE UNCHANGED reviewed
        <5>1. call[c].out # "bad" => Holder(c) /\ call[c].pc = "recorded"
          BY <4>1, HolderHolds DEF RecordParticipant, Store!TransitionParticipant, At
        <5>2. call[c].out = "bad"
          BY <1>a, <3>1, <4>1, <5>1 DEF IInv, StepIsOpen, AttemptPcs, Approving
        <5>3. QED
          BY <4>1, <5>2 DEF RecordParticipant, SameNotes, noteVars
      <4>2. QED
        BY <1>a, <4>1, FilesChanged DEF RecordParticipant, SameNotes, noteVars
    <3>5. QED
      BY <3>1, <3>2, <3>3, <3>4 DEF Approving
  <2>2. CASE status # "approved"
    <3>1. MoveRun(c) /\ Holder(c) /\ call[c].pc \in MovePcs
      BY <1>3, <1>a, <2>2, OwnerEndsIt DEF FinishCancel, Store!FinalizeCancellation,
         SameStore, storeVars
    <3>2. RunMoves(c)[call[c].pc].to = "approved"
      BY <1>3, <3>1 DEF MoveRun, Store!TransitionRun
    <3>3. call[c].pc = "approve" \/ (call[c].pc = "applied" /\ recon = "parked_approved")
      BY <3>1, <3>2 DEF RunMoves, MovePcs, Move, KeepOr, RecoveredAs
    <3>4. Approved
      BY <3>3 DEF ReviewInv, ApprovalIsDue
    <3>5. orig = head
      BY <3>1, <3>3, <3>4 DEF ReviewInv, OrigIsReviewed
    <3>6. PICK s \in Steps : Approving(s)
      BY <3>4 DEF Approved
    <3>7. orig = reviewed[s]
      BY <3>5, <3>6, ApprovedTree DEF ReviewInv
    <3>8. UNCHANGED <<orig, reviewed, step, res>>
      BY <3>1 DEF MoveRun, Store!TransitionRun, SameBut, SameNotes, SameFiles, noteVars,
         fileVars
    <3>9. QED
      BY <3>6, <3>7, <3>8 DEF Approving
  <2>3. QED
    BY <2>1, <2>2
<1>4. QED
  BY <1>1, <1>2, <1>3 DEF OrigIsReviewed

\* Every step keeps it.
LEMMA ReviewStep == Killed /\ ReviewInv /\ [Next]_vars => ReviewInv'
<1> SUFFICES ASSUME Killed, ReviewInv, [Next]_vars PROVE ReviewInv'
  OBVIOUS
<1>1. DueInv' /\ IInv /\ Typed
  BY DueStep DEF ReviewInv, DueInv, IInv
<1>m. Mode = "shadow"
  BY DEF Killed
<1>2. JournalIsTrue' /\ OnePublisher' /\ RunIsOpen' /\ CleanUpIsSafe'
  BY <1>1, <1>m, ShadowStep DEF ReviewInv, ShadowInv
<1>3. ASSUME NEW c \in Calls, Step(c) PROVE ReviewInv'
  BY <1>1, <1>2, <1>3, <1>m, TreeIsCleanKept, WorkIsReadyKept, ReviewIsFreshKept,
     ApprovalIsDueKept, OrigIsReviewedKept DEF ReviewInv, DueInv
<1>4. CASE LeaseExpires \/ UNCHANGED vars
  <2>1. UNCHANGED <<status, recon, step, part, res, reviewed, call, fileVars>>
    BY <1>4 DEF LeaseExpires, Store!LeaseExpires, vars, storeVars, noteVars
  <2>2. lease'.owner = lease.owner /\ lease'.epoch = lease.epoch
    BY <1>1, <1>4 DEF LeaseExpires, Store!LeaseExpires, vars, storeVars, Typed, Store!TypeOK
  <2>3. TreeIsClean' /\ WorkIsReady'
    BY <2>1, <2>2 DEF ReviewInv, TreeIsClean, WorkIsReady, Ready, Holder, fileVars
  <2>4. ReviewIsFresh'
    BY <2>1, <2>2 DEF ReviewInv, ReviewIsFresh, Holder, fileVars
  <2>5. ApprovalIsDue' /\ OrigIsReviewed'
    BY <2>1, <2>2 DEF ReviewInv, ApprovalIsDue, OrigIsReviewed, Approved, Approving,
       Holder, fileVars
  <2>6. QED
    BY <1>1, <1>2, <2>3, <2>4, <2>5 DEF ReviewInv
<1>5. QED
  BY <1>1, <1>3, <1>4, StepIsOfTheStore

\* It holds before anything happened.
LEMMA ReviewInit == Killed /\ Init => ReviewInv
<1> SUFFICES ASSUME Killed, Init PROVE ReviewInv
  OBVIOUS
<1>1. /\ \A s \in Steps : step[s] = "absent" /\ part[s] = "absent"
      /\ \A c \in Calls : call[c].pc = "new" /\ call[c].seen = "none"
      /\ status = "pending" /\ recon = "none" /\ tree = head
  BY DEF Init, Store!Init, NewCall
<1>2. \A s \in Reviews : s \in Steps
  BY DEF Reviews
<1>3. DueInv
  BY DueInit
<1>4. JournalIsTrue /\ OnePublisher /\ RunIsOpen /\ CleanUpIsSafe
  BY ShadowInit DEF ShadowInv, Killed
<1>5. TreeIsClean /\ WorkIsReady /\ ReviewIsFresh
  BY <1>1, <1>2 DEF TreeIsClean, WorkIsReady, ReviewIsFresh, CleanPcs, BeforePcs,
     AnsweringPcs, StartPcs
<1>6. ApprovalIsDue /\ OrigIsReviewed
  BY <1>1 DEF ApprovalIsDue, OrigIsReviewed
<1>7. QED
  BY <1>3, <1>4, <1>5, <1>6 DEF ReviewInv

\* In a shadow whose providers are killed with their lease, a review is of
\* the tree as it is until its run ends.
THEOREM ReviewInvariance ==
    ASSUME Killed
    PROVE  Spec => []ReviewInv
<1>1. Init => ReviewInv
  BY ReviewInit
<1>2. ReviewInv /\ [Next]_vars => ReviewInv'
  BY ReviewStep
<1>3. QED
  BY <1>1, <1>2, PTL DEF Spec

\* Under the same assumption no writer is dispatched on the leftovers of an
\* earlier attempt, through every crash, takeover, restore and retry.
THEOREM WritersStartOnACheckpoint ==
    ASSUME Killed
    PROVE  Spec => WritersStartClean
<1>1. ReviewInv /\ [Next]_vars =>
        [\A s \in Writers : Len(att'[s]) > Len(att[s]) => tree = head]_vars
  <2> SUFFICES ASSUME ReviewInv, [Next]_vars, NEW s \in Writers, Len(att'[s]) > Len(att[s])
               PROVE  tree = head
    OBVIOUS
  <2>1. Typed /\ s \in Steps
    BY DEF ReviewInv, DueInv, IInv, Writers
  <2>2. PICK c \in Calls : Step(c)
    <3>1. ~(LeaseExpires \/ UNCHANGED vars)
      <4>1. Len(att[s]) \in Nat
        BY <2>1 DEF Typed, Store!TypeOK
      <4>2. QED
        BY <4>1 DEF LeaseExpires, Store!LeaseExpires, vars, storeVars
    <3>2. QED
      BY <2>1, <3>1, StepIsOfTheStore
  <2>3. call[c].pc = "attempt" /\ Holder(c)
    BY <2>1, <2>2, AttemptBegun, HolderHolds DEF Holds
  <2>4. QED
    BY <2>3 DEF ReviewInv, TreeIsClean, CleanPcs, BeforePcs
<1>2. QED
  BY <1>1, ReviewInvariance, PTL DEF Spec, WritersStartClean

\* And an approved run left in the original exactly what the approving review
\* saw, also when it was parked, taken over or applied by an operator.
THEOREM ApprovedAsReviewed ==
    ASSUME Killed
    PROVE  Spec => []ApprovedIsWhatWasReviewed
<1>1. ReviewInv => ApprovedIsWhatWasReviewed
  BY DEF ReviewInv, OrigIsReviewed, ApprovedIsWhatWasReviewed, Approving
<1>2. QED
  BY <1>1, ReviewInvariance, PTL
-----------------------------------------------------------------------------
(***************************************************************************)
(* What a person is shown of an approved run.  The engine decides the      *)
(* approval from one review, the view is a function of the last row of     *)
(* each stage; they agree because rows open in order only: nothing was     *)
(* opened after the review that approved, and all before it is done.       *)
(***************************************************************************)

ApprovalInv == DueInv /\ ApprovalIsDue

\* What is known of approvals holds for every kind of workspace.
THEOREM ApprovalInvariance == Spec => []ApprovalInv
<1>1. Init => ApprovalInv
  <2> SUFFICES ASSUME Init PROVE ApprovalInv
    OBVIOUS
  <2>1. /\ \A c \in Calls : call[c].pc = "new" /\ call[c].seen = "none"
        /\ status = "pending" /\ recon = "none"
    BY DEF Init, Store!Init, NewCall
  <2>2. QED
    BY <2>1, DueInit DEF ApprovalInv, ApprovalIsDue
<1>2. ApprovalInv /\ [Next]_vars => ApprovalInv'
  <2> SUFFICES ASSUME ApprovalInv, [Next]_vars PROVE ApprovalInv'
    OBVIOUS
  <2>1. DueInv' /\ IInv /\ Typed
    BY DueStep DEF ApprovalInv, DueInv, IInv
  <2>2. ASSUME NEW c \in Calls, Step(c) PROVE ApprovalIsDue'
    BY <2>2, ApprovalIsDueKept DEF ApprovalInv
  <2>3. ASSUME LeaseExpires \/ UNCHANGED vars PROVE ApprovalIsDue'
    <3>1. UNCHANGED <<status, recon, step, res, call>>
      BY <2>3 DEF LeaseExpires, Store!LeaseExpires, vars, storeVars, noteVars
    <3>2. QED
      BY <3>1 DEF ApprovalInv, ApprovalIsDue, Approved, Approving
  <2>4. QED
    BY <2>1, <2>2, <2>3, StepIsOfTheStore DEF ApprovalInv
<1>3. QED
  BY <1>1, <1>2, PTL DEF Spec

\* The last row of a set of rows is its greatest.
LEMMA LastIs ==
    ASSUME NEW S \in SUBSET Nat, NEW m \in S, \A t \in S : t <= m
    PROVE  Last(S) = m
<1>1. \A s \in S : (\A t \in S : t <= s) => s = m
  OBVIOUS
<1>2. QED
  BY <1>1 DEF Last

\* The rows of an approved run: all up to the review that approved, none after.
LEMMA ApprovedRows ==
    ASSUME RowsInOrder, NEW a \in Steps, Approving(a)
    PROVE  /\ \A s \in Steps : step[s] # "absent" <=> s <= a
           /\ \A s \in Steps : s <= a => step[s] = "succeeded"
<1>1. step[a] = "succeeded" /\ a \in Reviews /\ res[a] = "ok"
  BY DEF Approving
<1>2. \A s \in Steps : s < a => step[s] = "succeeded"
  BY <1>1 DEF RowsInOrder, Ready
<1>3. ASSUME NEW s \in Steps, a < s PROVE step[s] = "absent"
  BY <1>1, <1>3 DEF RowsInOrder, Ready
<1>4. \A s \in Steps : s < a \/ s = a \/ a < s
  BY StepArithmetic
<1>5. \A s \in Steps : s <= a <=> s < a \/ s = a
  BY StepArithmetic
<1>6. QED
  BY <1>1, <1>2, <1>3, <1>4, <1>5

\* The stages of an approved run end with the architect, the writer whose work
\* was reviewed, and the review itself.
LEMMA ApprovedStages ==
    ASSUME RowsInOrder, NEW a \in Steps, Approving(a)
    PROVE  /\ a - 1 \in Writers /\ a - 1 \in Steps /\ a # Architect
           /\ \A stage \in Stages : Rows(stage) # {}
           /\ Last(Rows("planning")) = Architect
           /\ Last(Rows("execution")) = a - 1
           /\ Last(Rows("review")) = a
           /\ CurrentStep = a
<1>1. a \in Reviews /\ a \in Nat /\ a % 2 = 1 /\ a >= 3 /\ a <= LastStep
  BY StepArithmetic DEF Approving, Reviews, Steps, Architect
<1>2. /\ a - 1 \in Writers /\ a - 1 \in Steps /\ a # Architect /\ a - 1 \in Nat
  BY <1>1, StepArithmetic DEF Writers, Steps, Architect
<1>3. \A s \in Steps : step[s] # "absent" <=> s <= a
  BY ApprovedRows
<1>4. Rows("planning") = {Architect}
  BY <1>1, <1>3, StepArithmetic DEF Rows, StageOf, Architect
<1>5. Rows("execution") = {s \in Writers : s <= a}
  BY <1>3, StepArithmetic DEF Rows, StageOf
<1>6. Rows("review") = {s \in Reviews : s <= a}
  <2>1. \A s \in Reviews : s \in Steps /\ s # Architect /\ s \notin Writers
    BY DEF Reviews, Writers
  <2>2. \A s \in Steps : StageOf(s) = "review" <=> s # Architect /\ s \notin Writers
    BY DEF StageOf
  <2>3. \A s \in Steps : StageOf(s) = "review" <=> s \in Reviews
    BY <2>1, <2>2, StepArithmetic
  <2>4. QED
    BY <1>3, <2>1, <2>3 DEF Rows
<1>7. Last(Rows("planning")) = Architect
  BY <1>4, LastIs DEF Architect
<1>8. Last(Rows("execution")) = a - 1
  <2>1. \A s \in Writers : s <= a => s <= a - 1
    BY <1>1 DEF Writers, Steps
  <2>2. a - 1 \in Rows("execution") /\ Rows("execution") \in SUBSET Nat
    <3>1. a - 1 <= a /\ \A s \in Writers : s \in Nat
      BY <1>1 DEF Writers, Steps
    <3>2. QED
      BY <1>2, <1>5, <3>1
  <2>3. \A t \in Rows("execution") : t <= a - 1
    BY <1>5, <2>1
  <2>4. QED
    BY <2>2, <2>3, LastIs
<1>9. Last(Rows("review")) = a
  <2>1. a \in Rows("review") /\ Rows("review") \in SUBSET Nat
    <3>1. a <= a /\ \A s \in Reviews : s \in Nat
      BY <1>1 DEF Reviews, Steps
    <3>2. QED
      BY <1>1, <1>6, <3>1
  <2>2. \A t \in Rows("review") : t <= a
    BY <1>6
  <2>3. QED
    BY <2>1, <2>2, LastIs
<1>10. CurrentStep = a
  <2> DEFINE S == {s \in Steps : step[s] # "absent"} \cup {Architect}
  <2>1. S \in SUBSET Nat /\ a \in S
    <3>1. a <= a /\ Architect \in Nat /\ \A s \in Steps : s \in Nat
      BY <1>1 DEF Steps, Architect
    <3>2. QED
      BY <1>3, <3>1
  <2>2. \A t \in S : t <= a
    BY <1>1, <1>3 DEF Architect
  <2>3. Last(S) = a
    <3> HIDE DEF S
    <3>1. QED
      BY <2>1, <2>2, LastIs
  <2>4. QED
    BY <2>3 DEF CurrentStep
<1>11. \A stage \in Stages : Rows(stage) # {}
  BY <1>1, <1>2, <1>4, <1>5, <1>6 DEF Stages
<1>12. QED
  BY <1>2, <1>7, <1>8, <1>9, <1>10, <1>11

\* Each stage of an approved run is complete in its last row.
LEMMA ApprovedIsRecorded ==
    ASSUME RowsInOrder, AnswersKept, NEW a \in Steps, Approving(a)
    PROVE  Recorded = [stage \in Stages |-> "complete"]
<1>1. \A s \in Steps : s <= a => step[s] = "succeeded"
  BY ApprovedRows
<1>2. StepState(Architect) = "complete"
  <2>1. step[Architect] = "succeeded" /\ res[Architect] # "blockers"
    BY <1>1, StepArithmetic DEF AnswersKept, Reviews, Steps, Architect
  <2>2. QED
    BY <2>1 DEF StepState, RunningStatuses, AttentionStatuses
<1>3. StepState(a - 1) = "complete"
  <2>1. a - 1 \in Steps /\ a - 1 \in Writers /\ a - 1 <= a
    BY ApprovedStages, StepArithmetic
  <2>2. a - 1 \notin Reviews
    BY <2>1 DEF Writers, Reviews
  <2>3. step[a - 1] = "succeeded" /\ res[a - 1] # "blockers"
    BY <1>1, <2>1, <2>2 DEF AnswersKept
  <2>4. QED
    BY <2>3 DEF StepState, RunningStatuses, AttentionStatuses
<1>4. StepState(a) = "complete"
  BY DEF Approving, StepState, RunningStatuses, AttentionStatuses
<1>5. \A stage \in Stages : StepState(Last(Rows(stage))) = "complete" /\ Rows(stage) # {}
  BY <1>2, <1>3, <1>4, ApprovedStages DEF Stages
<1>6. QED
  BY <1>5 DEF Recorded

\* An approved run is shown as whole, each stage complete and nothing active,
\* whatever earlier rounds asked for and whoever resumed, recovered or applied
\* it on the way.
THEOREM ApprovedRunsAreShownWhole == Spec => []ApprovedIsShownWhole
<1>1. ApprovalInv => ApprovedIsShownWhole
  <2> SUFFICES ASSUME ApprovalInv, Overall = "complete"
               PROVE  /\ \A stage \in Stages : StageStates[stage] = "complete"
                      /\ ActiveStage = "none"
    BY DEF ApprovedIsShownWhole
  <2>1. status = "approved"
    BY DEF Overall
  <2>2. PICK a \in Steps : Approving(a)
    BY <2>1 DEF ApprovalInv, ApprovalIsDue, Approved
  <2>3. Recorded = [stage \in Stages |-> "complete"]
    BY <2>2, ApprovedIsRecorded DEF ApprovalInv, DueInv, IInv
  <2>4. StageStates = [stage \in Stages |-> "complete"]
    BY <2>1, <2>3 DEF StageStates
  <2>5. CurrentStage \in Stages
    BY DEF CurrentStage, StageOf, Stages
  <2>6. {stage \in Stages : StageStates[stage] = "running"} = {}
    BY <2>4
  <2>7. ActiveStage = "none"
    BY <2>4, <2>5, <2>6 DEF ActiveStage
  <2>8. QED
    BY <2>4, <2>7
<1>2. QED
  BY <1>1, ApprovalInvariance, PTL
=============================================================================
