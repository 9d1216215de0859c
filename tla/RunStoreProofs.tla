--------------------------- MODULE RunStoreProofs ---------------------------
(* What holds of the run store for any number of clients, steps and attempts. *)
EXTENDS RunStore, SequenceTheorems, TLAPS

\* How the tokens handed out relate to the lease row.  EpochsAreExclusive is
\* not inductive without it: the next token is issued from the row's epoch.
LeaseIsNewest ==
    \A u \in issued :
        /\ u.epoch <= lease.epoch
        /\ u.epoch = lease.epoch /\ lease.owner # NoOwner => u.owner = lease.owner

IInv == TypeOK /\ LeaseIsNewest /\ EpochsAreExclusive /\ AttemptsFollowEpochs

\* What no operation does to the attempts of a participant: remove one,
\* rewrite its epoch, reopen it once it ended, or settle as succeeded one that
\* another epoch dispatched.  New attempts carry the epoch of the lease.
AttemptsKept ==
    \A p \in Parts :
        /\ Len(att'[p]) >= Len(att[p])
        /\ \A i \in 1..Len(att[p]) :
             /\ att'[p][i].epoch = att[p][i].epoch
             /\ att[p][i].status \notin OpenAttempt =>
                  att'[p][i].status = att[p][i].status
             /\ att[p][i].epoch < lease.epoch /\ att[p][i].status # "succeeded" =>
                  att'[p][i].status # "succeeded"
        /\ \A i \in 1..Len(att'[p]) :
             i > Len(att[p]) => att'[p][i].epoch = lease.epoch

-----------------------------------------------------------------------------
(* Lemmas about the operators of the store. *)

\* A token that passes the fence carries the epoch of the lease row.
LEMMA FenceIsCurrent ==
    ASSUME NEW t, Fence(t)
    PROVE  t.epoch = lease.epoch /\ t.owner = lease.owner
BY DEF Fence

\* Attempts that ended have no way back: not even to another end.
LEMMA EndedAttemptsStay ==
    ASSUME NEW a \in AttemptStatus, a \notin OpenAttempt,
           NEW b, Legal(AttemptTransitions, a, b)
    PROVE  a = b
BY DEF AttemptStatus, OpenAttempt, Legal, AttemptTransitions

\* Replacing the status of one attempt keeps the list, its epochs and every
\* other attempt.
LEMMA StatusUpdate ==
    ASSUME att \in [Parts -> Seq(Attempt)],
           NEW p \in Parts, NEW i \in 1..Len(att[p]), NEW target \in AttemptStatus,
           att' = [att EXCEPT ![p][i].status = target]
    PROVE  /\ att' \in [Parts -> Seq(Attempt)]
           /\ \A q \in Parts : Len(att'[q]) = Len(att[q])
           /\ \A q \in Parts : \A j \in 1..Len(att[q]) :
                /\ att'[q][j].epoch = att[q][j].epoch
                /\ att'[q][j].status = IF q = p /\ j = i THEN target ELSE att[q][j].status
<1> DEFINE new == [att[p][i] EXCEPT !.status = target]
           row == [att[p] EXCEPT ![i] = new]
<1>1. att[p] \in Seq(Attempt) /\ att[p][i] \in Attempt
  BY ElementOfSeq
<1>2. new \in Attempt /\ new.epoch = att[p][i].epoch /\ new.status = target
  BY <1>1 DEF Attempt
<1>3. row \in Seq(Attempt) /\ Len(row) = Len(att[p])
  BY <1>1, <1>2, ExceptSeq
<1>4. \A j \in 1..Len(att[p]) : row[j] = IF j = i THEN new ELSE att[p][j]
  BY <1>1, <1>2, ExceptSeq
<1>5. att' = [att EXCEPT ![p] = row]
  OBVIOUS
<1> HIDE DEF new, row
<1>6. QED
  BY <1>1, <1>2, <1>3, <1>4, <1>5

\* Cancelling the open attempts keeps the list and its epochs.
LEMMA CancelUpdate ==
    ASSUME att \in [Parts -> Seq(Attempt)],
           att' = [p \in Parts |-> [i \in 1..Len(att[p]) |-> CancelAttempt(att[p][i])]]
    PROVE  /\ att' \in [Parts -> Seq(Attempt)]
           /\ \A q \in Parts : Len(att'[q]) = Len(att[q])
           /\ \A q \in Parts : \A j \in 1..Len(att[q]) :
                /\ att'[q][j].epoch = att[q][j].epoch
                /\ att'[q][j].status = IF att[q][j].status \in OpenAttempt
                                       THEN "cancelled" ELSE att[q][j].status
<1>1. ASSUME NEW q \in Parts
      PROVE  /\ att'[q] \in Seq(Attempt)
             /\ Len(att'[q]) = Len(att[q])
             /\ \A j \in 1..Len(att[q]) :
                  /\ att'[q][j].epoch = att[q][j].epoch
                  /\ att'[q][j].status = IF att[q][j].status \in OpenAttempt
                                         THEN "cancelled" ELSE att[q][j].status
  <2> DEFINE row == [i \in 1..Len(att[q]) |-> CancelAttempt(att[q][i])]
  <2>1. att[q] \in Seq(Attempt) /\ Len(att[q]) \in Nat
    OBVIOUS
  <2>2. \A j \in 1..Len(att[q]) :
          /\ CancelAttempt(att[q][j]) \in Attempt
          /\ CancelAttempt(att[q][j]).epoch = att[q][j].epoch
          /\ CancelAttempt(att[q][j]).status =
               IF att[q][j].status \in OpenAttempt THEN "cancelled" ELSE att[q][j].status
    <3> SUFFICES ASSUME NEW j \in 1..Len(att[q])
                 PROVE  /\ CancelAttempt(att[q][j]) \in Attempt
                        /\ CancelAttempt(att[q][j]).epoch = att[q][j].epoch
                        /\ CancelAttempt(att[q][j]).status =
                             IF att[q][j].status \in OpenAttempt
                             THEN "cancelled" ELSE att[q][j].status
      OBVIOUS
    <3>1. att[q][j] \in Attempt
      BY <2>1, ElementOfSeq
    <3>2. "cancelled" \in AttemptStatus
      BY DEF AttemptStatus, AttemptTransitions
    <3>3. QED
      BY <3>1, <3>2 DEF CancelAttempt, Attempt
  <2>3. row \in Seq(Attempt)
    BY <2>1, <2>2, IsASeq
  <2>4. Len(row) = Len(att[q])
    BY <2>1, <2>3, LenProperties
  <2>5. att'[q] = row
    OBVIOUS
  <2>6. QED
    BY <2>2, <2>3, <2>4, <2>5
<1>2. QED
  BY <1>1

\* A new attempt leaves the earlier ones where they are.
LEMMA AppendUpdate ==
    ASSUME att \in [Parts -> Seq(Attempt)],
           NEW p \in Parts, NEW a \in Attempt,
           att' = [att EXCEPT ![p] = Append(@, a)]
    PROVE  /\ att' \in [Parts -> Seq(Attempt)]
           /\ \A q \in Parts :
                /\ Len(att'[q]) = IF q = p THEN Len(att[q]) + 1 ELSE Len(att[q])
                /\ \A j \in 1..Len(att[q]) : att'[q][j] = att[q][j]
           /\ att'[p][Len(att[p]) + 1] = a
<1>1. att[p] \in Seq(Attempt)
  OBVIOUS
<1>2. /\ Append(att[p], a) \in Seq(Attempt)
      /\ Len(Append(att[p], a)) = Len(att[p]) + 1
      /\ \A j \in 1..Len(att[p]) : Append(att[p], a)[j] = att[p][j]
      /\ Append(att[p], a)[Len(att[p]) + 1] = a
  BY <1>1, AppendProperties
<1>3. att' = [att EXCEPT ![p] = Append(att[p], a)]
  OBVIOUS
<1>4. QED
  BY <1>2, <1>3

-----------------------------------------------------------------------------
(* Every operation keeps the types of the rows. *)

LEMMA InitIsTyped == Init => TypeOK
<1> SUFFICES ASSUME Init PROVE TypeOK
  OBVIOUS
<1>1. status \in RunStatus /\ cancel \in BOOLEAN /\ recon \in Recons
  BY ReconAssumption DEF Init, RunStatus, RunTransitions
<1>2. lease \in [owner : Owners \cup {NoOwner}, epoch : Nat, valid : BOOLEAN]
  BY DEF Init
<1>3. issued \subseteq Token
  BY DEF Init
<1>4. /\ step \in [Steps -> RowStatus \cup {"absent"}]
      /\ part \in [Parts -> RowStatus \cup {"absent"}]
      /\ att \in [Parts -> Seq(Attempt)]
  BY DEF Init
<1>5. QED
  BY <1>1, <1>2, <1>3, <1>4 DEF TypeOK

LEMMA LeaseOpTyped == TypeOK /\ LeaseOp => TypeOK'
<1> SUFFICES ASSUME TypeOK, LeaseOp PROVE TypeOK'
  OBVIOUS
<1> USE DEF TypeOK
<1>1. CASE LeaseExpires
  BY <1>1 DEF LeaseExpires
<1>2. ASSUME NEW o \in Owners, AcquireLease(o) PROVE TypeOK'
  <2>1. NextEpoch(o) \in Nat
    BY DEF NextEpoch
  <2>2. lease' \in [owner : Owners \cup {NoOwner}, epoch : Nat, valid : BOOLEAN]
    BY <1>2, <2>1 DEF AcquireLease
  <2>3. issued' \subseteq Token
    BY <1>2, <2>1 DEF AcquireLease, Token
  <2>4. QED
    BY <1>2, <2>2, <2>3 DEF AcquireLease
<1>3. ASSUME NEW t \in issued, Heartbeat(t) PROVE TypeOK'
  BY <1>3 DEF Heartbeat
<1>4. ASSUME NEW t \in issued, ReleaseLease(t) PROVE TypeOK'
  BY <1>4 DEF ReleaseLease
<1>5. QED
  BY <1>1, <1>2, <1>3, <1>4 DEF LeaseOp

LEMMA RunOpTyped == TypeOK /\ RunOp => TypeOK'
<1> SUFFICES ASSUME TypeOK, RunOp PROVE TypeOK'
  OBVIOUS
<1> USE DEF TypeOK
<1>1. CASE RequestCancellation
  <2>1. status' \in RunStatus
    BY <1>1 DEF RequestCancellation, RunStatus, RunTransitions
  <2>2. QED
    BY <1>1, <2>1 DEF RequestCancellation
<1>2. ASSUME NEW t \in issued, FinalizeCancellation(t) PROVE TypeOK'
  <2>1. status' \in RunStatus
    BY <1>2 DEF FinalizeCancellation, RunStatus, RunTransitions
  <2>2. \A s \in RowStatus \cup {"absent"} : CancelRow(s) \in RowStatus \cup {"absent"}
    BY DEF CancelRow, RowStatus, StepTransitions
  <2>3. /\ step' \in [Steps -> RowStatus \cup {"absent"}]
        /\ part' \in [Parts -> RowStatus \cup {"absent"}]
    BY <1>2, <2>2 DEF FinalizeCancellation
  <2>4. att' \in [Parts -> Seq(Attempt)]
    BY <1>2, CancelUpdate DEF FinalizeCancellation
  <2>5. QED
    BY <1>2, <2>1, <2>3, <2>4 DEF FinalizeCancellation
<1>3. ASSUME NEW t \in issued, NEW target \in RunStatus, NEW value \in Recons,
             TransitionRun(t, target, value)
      PROVE TypeOK'
  BY <1>3 DEF TransitionRun
<1>4. QED
  BY <1>1, <1>2, <1>3 DEF RunOp

LEMMA StepOpTyped == TypeOK /\ StepOp => TypeOK'
<1> SUFFICES ASSUME TypeOK, NEW t \in issued, NEW s \in Steps,
                    \/ CreateStep(t, s)
                    \/ \E target \in RowStatus : TransitionStep(t, s, target)
                    \/ \E again \in BOOLEAN : ResetStep(t, s, again)
                    \/ AcceptStep(t, s)
             PROVE TypeOK'
  BY DEF StepOp
<1> USE DEF TypeOK
<1>1. {"pending", "succeeded"} \subseteq RowStatus
  BY DEF RowStatus, StepTransitions
<1>2. CASE CreateStep(t, s)
  BY <1>1, <1>2 DEF CreateStep
<1>3. ASSUME NEW target \in RowStatus, TransitionStep(t, s, target) PROVE TypeOK'
  BY <1>3 DEF TransitionStep
<1>4. ASSUME NEW again \in BOOLEAN, ResetStep(t, s, again) PROVE TypeOK'
  BY <1>1, <1>4 DEF ResetStep
<1>5. CASE AcceptStep(t, s)
  BY <1>1, <1>5 DEF AcceptStep
<1>6. QED
  BY <1>2, <1>3, <1>4, <1>5

LEMMA AttemptOpTyped == TypeOK /\ AttemptOp => TypeOK'
<1> SUFFICES ASSUME TypeOK, NEW t \in issued, NEW p \in Parts,
                    \/ CreateParticipant(t, p)
                    \/ \E target \in RowStatus : TransitionParticipant(t, p, target)
                    \/ CreateAttempt(t, p)
                    \/ \E i \in 1..Len(att[p]), target \in AttemptStatus :
                         \/ TransitionAttempt(t, p, i, target)
                         \/ ClassifyStaleAttempt(t, p, i, target)
             PROVE TypeOK'
  BY DEF AttemptOp
<1> USE DEF TypeOK
<1>1. {"pending", "dispatching"} \subseteq RowStatus
  BY DEF RowStatus, StepTransitions
<1>2. CASE CreateParticipant(t, p)
  BY <1>1, <1>2 DEF CreateParticipant
<1>3. ASSUME NEW target \in RowStatus, TransitionParticipant(t, p, target) PROVE TypeOK'
  BY <1>3 DEF TransitionParticipant
<1>4. CASE CreateAttempt(t, p)
  <2> DEFINE a == [status |-> "dispatching", epoch |-> t.epoch]
  <2>1. a \in Attempt
    BY DEF Token, Attempt, AttemptStatus, AttemptTransitions
  <2>2. att' = [att EXCEPT ![p] = Append(@, a)]
    BY <1>4 DEF CreateAttempt
  <2>3. att' \in [Parts -> Seq(Attempt)]
    BY <2>1, <2>2, AppendUpdate
  <2>4. QED
    BY <1>1, <1>4, <2>3 DEF CreateAttempt
<1>5. ASSUME NEW i \in 1..Len(att[p]), NEW target \in AttemptStatus,
             TransitionAttempt(t, p, i, target) \/ ClassifyStaleAttempt(t, p, i, target)
      PROVE TypeOK'
  <2>1. att' = [att EXCEPT ![p][i].status = target]
    BY <1>5 DEF TransitionAttempt, ClassifyStaleAttempt
  <2>2. att' \in [Parts -> Seq(Attempt)]
    BY <2>1, StatusUpdate
  <2>3. QED
    BY <1>5, <2>2 DEF TransitionAttempt, ClassifyStaleAttempt
<1>6. QED
  BY <1>2, <1>3, <1>4, <1>5

LEMMA StepIsTyped == TypeOK /\ [Next]_vars => TypeOK'
<1>1. TypeOK /\ UNCHANGED vars => TypeOK'
  BY DEF TypeOK, vars
<1>2. QED
  BY <1>1, LeaseOpTyped, RunOpTyped, StepOpTyped, AttemptOpTyped DEF Next

\* Every row holds, in every state, one of the values its column can take.
THEOREM TypeCorrect == Spec => []TypeOK
BY InitIsTyped, StepIsTyped, PTL DEF Spec

-----------------------------------------------------------------------------
(* The lease: tokens, epochs, and who can still write. *)

\* Only acquire_lease and release_lease touch the owner, only acquire_lease
\* the epoch and the tokens.
LEMMA LeaseUntouched ==
    ASSUME RunOp \/ StepOp \/ AttemptOp \/ UNCHANGED vars
    PROVE  UNCHANGED <<lease, issued>>
<1>1. RunOp => UNCHANGED <<lease, issued>>
  BY DEF RunOp, RequestCancellation, FinalizeCancellation, TransitionRun
<1>2. StepOp => UNCHANGED <<lease, issued>>
  BY DEF StepOp, CreateStep, TransitionStep, ResetStep, AcceptStep
<1>3. AttemptOp => UNCHANGED <<lease, issued>>
  BY DEF AttemptOp, CreateParticipant, TransitionParticipant, CreateAttempt,
         TransitionAttempt, ClassifyStaleAttempt
<1>4. QED
  BY <1>1, <1>2, <1>3 DEF vars

LEMMA LeaseStep ==
    TypeOK /\ LeaseIsNewest /\ EpochsAreExclusive /\ [Next]_vars
    => LeaseIsNewest' /\ EpochsAreExclusive' /\ lease.epoch <= lease'.epoch
<1> SUFFICES ASSUME TypeOK, LeaseIsNewest, EpochsAreExclusive, [Next]_vars
             PROVE  LeaseIsNewest' /\ EpochsAreExclusive' /\ lease.epoch <= lease'.epoch
  OBVIOUS
<1> USE DEF LeaseIsNewest, EpochsAreExclusive
<1>1. /\ lease \in [owner : Owners \cup {NoOwner}, epoch : Nat, valid : BOOLEAN]
      /\ issued \subseteq Token
  BY DEF TypeOK
<1>2. CASE RunOp \/ StepOp \/ AttemptOp \/ UNCHANGED vars
  BY <1>1, <1>2, LeaseUntouched
<1>3. CASE LeaseExpires
  BY <1>1, <1>3 DEF LeaseExpires
<1>4. ASSUME NEW t \in issued, Heartbeat(t) \/ ReleaseLease(t)
      PROVE  LeaseIsNewest' /\ EpochsAreExclusive' /\ lease.epoch <= lease'.epoch
  BY <1>1, <1>4 DEF Heartbeat, ReleaseLease
<1>5. ASSUME NEW o \in Owners, AcquireLease(o)
      PROVE  LeaseIsNewest' /\ EpochsAreExclusive' /\ lease.epoch <= lease'.epoch
  <2> DEFINE new == [owner |-> o, epoch |-> NextEpoch(o)]
  <2>1. /\ lease' = [owner |-> o, epoch |-> NextEpoch(o), valid |-> TRUE]
        /\ issued' = issued \cup {new}
    BY <1>5 DEF AcquireLease
  <2>2. \/ NextEpoch(o) = lease.epoch /\ lease.owner = o
        \/ NextEpoch(o) = lease.epoch + 1
    BY DEF NextEpoch
  <2>3. CASE NextEpoch(o) = lease.epoch /\ lease.owner = o
    <3>1. \A u \in issued : u.epoch = new.epoch => u.owner = new.owner
      BY <2>3, OwnersAssumption
    <3>2. QED
      BY <1>1, <2>1, <2>3, <3>1
  <2>4. CASE NextEpoch(o) = lease.epoch + 1
    <3>1. \A u \in issued : u.epoch \in Nat /\ u.epoch < new.epoch
      BY <1>1, <2>4 DEF Token
    <3>2. QED
      BY <1>1, <2>1, <2>4, <3>1
  <2>5. QED
    BY <2>2, <2>3, <2>4
<1>6. QED
  BY <1>2, <1>3, <1>4, <1>5 DEF Next, LeaseOp

-----------------------------------------------------------------------------
(* Attempts. *)

LEMMA AttemptsStep == TypeOK /\ [Next]_vars => AttemptsKept
<1> SUFFICES ASSUME TypeOK, [Next]_vars PROVE AttemptsKept
  OBVIOUS
<1>1. /\ att \in [Parts -> Seq(Attempt)]
      /\ \A p \in Parts : Len(att[p]) \in Nat
      /\ lease.epoch \in Nat
  <2>1. att \in [Parts -> Seq(Attempt)] /\ lease.epoch \in Nat
    BY DEF TypeOK
  <2>2. QED
    BY <2>1, LenProperties
<1>2. \A p \in Parts : \A i \in 1..Len(att[p]) : att[p][i] \in Attempt
  BY <1>1, ElementOfSeq
<1>3. CASE UNCHANGED att
  BY <1>1, <1>3 DEF AttemptsKept
<1>4. ASSUME NEW t \in issued, FinalizeCancellation(t) PROVE AttemptsKept
  <2>1. att' = [p \in Parts |-> [i \in 1..Len(att[p]) |-> CancelAttempt(att[p][i])]]
    BY <1>4 DEF FinalizeCancellation
  <2>2. /\ \A q \in Parts : Len(att'[q]) = Len(att[q])
        /\ \A q \in Parts : \A j \in 1..Len(att[q]) :
             /\ att'[q][j].epoch = att[q][j].epoch
             /\ att'[q][j].status = IF att[q][j].status \in OpenAttempt
                                    THEN "cancelled" ELSE att[q][j].status
    BY <1>1, <2>1, CancelUpdate
  <2>3. QED
    BY <1>1, <2>2 DEF AttemptsKept
<1>5. ASSUME NEW t \in issued, NEW p \in Parts, CreateAttempt(t, p) PROVE AttemptsKept
  <2> DEFINE a == [status |-> "dispatching", epoch |-> t.epoch]
  <2>1. t.epoch = lease.epoch
    BY <1>5, FenceIsCurrent DEF CreateAttempt
  <2>2. a \in Attempt
    BY <1>1, <2>1 DEF Attempt, AttemptStatus, AttemptTransitions
  <2>3. att' = [att EXCEPT ![p] = Append(@, a)]
    BY <1>5 DEF CreateAttempt
  <2>4. /\ \A q \in Parts :
             /\ Len(att'[q]) = IF q = p THEN Len(att[q]) + 1 ELSE Len(att[q])
             /\ \A j \in 1..Len(att[q]) : att'[q][j] = att[q][j]
        /\ att'[p][Len(att[p]) + 1].epoch = lease.epoch
    BY <1>1, <2>1, <2>2, <2>3, AppendUpdate
  <2>5. QED
    BY <1>1, <2>4 DEF AttemptsKept
<1>6. ASSUME NEW t \in issued, NEW p \in Parts,
             NEW i \in 1..Len(att[p]), NEW target \in AttemptStatus,
             TransitionAttempt(t, p, i, target) \/ ClassifyStaleAttempt(t, p, i, target)
      PROVE AttemptsKept
  <2>1. att' = [att EXCEPT ![p][i].status = target]
    BY <1>6 DEF TransitionAttempt, ClassifyStaleAttempt
  <2>2. att[p][i].status \notin OpenAttempt => target = att[p][i].status
    <3>1. att[p][i].status \in AttemptStatus
      BY <1>2 DEF Attempt
    <3>2. Legal(AttemptTransitions, att[p][i].status, target)
      BY <1>6 DEF TransitionAttempt, ClassifyStaleAttempt
    <3>3. QED
      BY <3>1, <3>2, EndedAttemptsStay
  <2>3. att[p][i].epoch < lease.epoch => target # "succeeded"
    <3>1. CASE TransitionAttempt(t, p, i, target)
      <4>1. att[p][i].epoch = lease.epoch
        BY <3>1, FenceIsCurrent DEF TransitionAttempt
      <4>2. QED
        BY <1>1, <4>1
    <3>2. CASE ClassifyStaleAttempt(t, p, i, target)
      BY <3>2 DEF ClassifyStaleAttempt, StaleTargets
    <3>3. QED
      BY <1>6, <3>1, <3>2
  <2>4. /\ \A q \in Parts : Len(att'[q]) = Len(att[q])
        /\ \A q \in Parts : \A j \in 1..Len(att[q]) :
             /\ att'[q][j].epoch = att[q][j].epoch
             /\ att'[q][j].status = IF q = p /\ j = i THEN target ELSE att[q][j].status
    BY <1>1, <2>1, StatusUpdate
  <2>5. QED
    BY <1>1, <2>2, <2>3, <2>4 DEF AttemptsKept
<1>7. LeaseOp \/ StepOp \/ UNCHANGED vars => UNCHANGED att
  BY DEF LeaseOp, LeaseExpires, AcquireLease, Heartbeat, ReleaseLease,
         StepOp, CreateStep, TransitionStep, ResetStep, AcceptStep, vars
<1>8. RunOp => AttemptsKept
  BY <1>3, <1>4 DEF RunOp, RequestCancellation, TransitionRun
<1>9. AttemptOp => AttemptsKept
  BY <1>3, <1>5, <1>6 DEF AttemptOp, CreateParticipant, TransitionParticipant
<1>10. QED
  BY <1>3, <1>7, <1>8, <1>9 DEF Next

LEMMA AttemptsFollow ==
    ASSUME TypeOK, TypeOK', AttemptsKept, AttemptsFollowEpochs,
           lease.epoch <= lease'.epoch
    PROVE  AttemptsFollowEpochs'
<1> SUFFICES ASSUME NEW p \in Parts,
                    NEW i \in 1..Len(att'[p]), NEW j \in 1..Len(att'[p]), i <= j
             PROVE  att'[p][i].epoch <= att'[p][j].epoch /\ att'[p][j].epoch <= lease'.epoch
  BY DEF AttemptsFollowEpochs
<1>1. /\ Len(att[p]) \in Nat /\ Len(att'[p]) \in Nat
      /\ lease.epoch \in Nat /\ lease'.epoch \in Nat
  <2>1. att[p] \in Seq(Attempt) /\ att'[p] \in Seq(Attempt)
    BY DEF TypeOK
  <2>2. QED
    BY <2>1, LenProperties DEF TypeOK
<1>2. \A k \in 1..Len(att'[p]) : att'[p][k].epoch \in Nat
  <2>1. att'[p] \in Seq(Attempt)
    BY DEF TypeOK
  <2>2. \A k \in 1..Len(att'[p]) : att'[p][k] \in Attempt
    BY <2>1, ElementOfSeq
  <2>3. QED
    BY <2>2 DEF Attempt
<1>3. CASE j <= Len(att[p])
  <2>1. i \in 1..Len(att[p]) /\ j \in 1..Len(att[p])
    BY <1>1, <1>3
  <2>2. att'[p][i].epoch = att[p][i].epoch /\ att'[p][j].epoch = att[p][j].epoch
    BY <2>1 DEF AttemptsKept
  <2>3. att[p][i].epoch <= att[p][j].epoch /\ att[p][j].epoch <= lease.epoch
    BY <2>1 DEF AttemptsFollowEpochs
  <2>4. att[p][j].epoch \in Nat
    BY <1>2, <2>2
  <2>5. QED
    BY <1>1, <2>2, <2>3, <2>4
<1>4. CASE j > Len(att[p])
  <2>1. att'[p][j].epoch = lease.epoch
    BY <1>4 DEF AttemptsKept
  <2>2. att'[p][i].epoch <= lease.epoch
    <3>1. CASE i <= Len(att[p])
      <4>1. i \in 1..Len(att[p])
        BY <1>1, <3>1
      <4>2. att'[p][i].epoch = att[p][i].epoch /\ att[p][i].epoch <= lease.epoch
        BY <4>1 DEF AttemptsFollowEpochs, AttemptsKept
      <4>3. QED
        BY <4>2
    <3>2. CASE i > Len(att[p])
      BY <1>1, <3>2 DEF AttemptsKept
    <3>3. QED
      BY <1>1, <3>1, <3>2
  <2>3. QED
    BY <1>1, <2>1, <2>2
<1>5. QED
  BY <1>1, <1>3, <1>4

-----------------------------------------------------------------------------
(* The inductive invariant and what follows from it. *)

LEMMA InitInv == Init => IInv
<1> SUFFICES ASSUME Init PROVE IInv
  OBVIOUS
<1>1. TypeOK
  BY InitIsTyped
<1>2. LeaseIsNewest /\ EpochsAreExclusive
  BY DEF Init, LeaseIsNewest, EpochsAreExclusive
<1>3. AttemptsFollowEpochs
  BY DEF Init, AttemptsFollowEpochs
<1>4. QED
  BY <1>1, <1>2, <1>3 DEF IInv

LEMMA StepInv == IInv /\ [Next]_vars => IInv'
BY StepIsTyped, LeaseStep, AttemptsStep, AttemptsFollow DEF IInv

THEOREM Invariance == Spec => []IInv
BY InitInv, StepInv, PTL DEF Spec

\* No two processes are ever given the same epoch, for any number of processes
\* and any number of takeovers.
THEOREM EpochsExclusive == Spec => []EpochsAreExclusive
<1>1. IInv => EpochsAreExclusive
  BY DEF IInv
<1>2. QED
  BY <1>1, Invariance, PTL

\* The fence admits only the newest token: whoever lost the lease to a later
\* owner can write nothing more.
THEOREM OnlyNewestWrites == Spec => []OnlyNewestTokenWrites
<1>1. IInv => OnlyNewestTokenWrites
  BY FenceIsCurrent DEF IInv, LeaseIsNewest, OnlyNewestTokenWrites
<1>2. QED
  BY <1>1, Invariance, PTL

\* The attempts of every participant are in the order of the epochs.
THEOREM AttemptsInOrder == Spec => []AttemptsFollowEpochs
<1>1. IInv => AttemptsFollowEpochs
  BY DEF IInv
<1>2. QED
  BY <1>1, Invariance, PTL

\* An answer that arrives after a takeover is never recorded as a success.
THEOREM LateAnswersDropped == Spec => LateAnswersAreDropped
<1>1. TypeOK /\ [Next]_vars =>
        [\A p \in Parts : \A i \in 1..Len(att[p]) :
           /\ att[p][i].epoch < lease.epoch
           /\ att[p][i].status # "succeeded"
           => att'[p][i].status # "succeeded"]_vars
  BY AttemptsStep DEF AttemptsKept
<1>2. QED
  BY <1>1, TypeCorrect, PTL DEF Spec, LateAnswersAreDropped

\* Attempts are append-only, and one that ended keeps how it ended.
THEOREM AttemptHistoryKept == Spec => AttemptHistoryIsKept
<1>1. TypeOK /\ [Next]_vars =>
        [\A p \in Parts : \A i \in 1..Len(att[p]) :
           /\ Len(att'[p]) >= Len(att[p])
           /\ att'[p][i].epoch = att[p][i].epoch
           /\ att[p][i].status \notin OpenAttempt
                => att'[p][i].status = att[p][i].status]_vars
  BY AttemptsStep DEF AttemptsKept
<1>2. QED
  BY <1>1, TypeCorrect, PTL DEF Spec, AttemptHistoryIsKept

-----------------------------------------------------------------------------
(* Settled work. *)

\* One step of the store, seen by succeeded steps and ended runs.
SettledKept ==
    /\ \A s \in Steps : step[s] = "succeeded" => step'[s] = "succeeded"
    /\ status \in RunTerminal => status' = status

LEMMA SettledStep == TypeOK /\ [Next]_vars => SettledKept
<1> SUFFICES ASSUME TypeOK, [Next]_vars PROVE SettledKept
  OBVIOUS
<1> USE DEF SettledKept
<1>1. /\ status \in RunStatus
      /\ step \in [Steps -> RowStatus \cup {"absent"}]
  BY DEF TypeOK
<1>2. \A target : status \in RunTerminal /\ Legal(RunTransitions, status, target)
                 => target = status
  BY DEF RunTerminal, Legal, RunTransitions
<1>3. CASE LeaseOp \/ UNCHANGED vars
  BY <1>3 DEF LeaseOp, LeaseExpires, AcquireLease, Heartbeat, ReleaseLease, vars
<1>4. CASE RunOp
  <2>1. CASE RequestCancellation
    BY <2>1 DEF RequestCancellation
  <2>2. ASSUME NEW t \in issued, FinalizeCancellation(t) PROVE SettledKept
    <3>1. status \in RunTerminal => status' = status
      BY <1>2, <2>2 DEF FinalizeCancellation
    <3>2. \A s \in Steps : step[s] = "succeeded" => step'[s] = "succeeded"
      BY <1>1, <2>2 DEF FinalizeCancellation, CancelRow, OpenRow
    <3>3. QED
      BY <3>1, <3>2
  <2>3. ASSUME NEW t \in issued, NEW target \in RunStatus, NEW value \in Recons,
               TransitionRun(t, target, value)
        PROVE SettledKept
    BY <1>2, <2>3 DEF TransitionRun
  <2>4. QED
    BY <1>4, <2>1, <2>2, <2>3 DEF RunOp
<1>5. CASE StepOp
  <2> SUFFICES ASSUME NEW t \in issued, NEW s \in Steps,
                      \/ CreateStep(t, s)
                      \/ \E target \in RowStatus : TransitionStep(t, s, target)
                      \/ \E again \in BOOLEAN : ResetStep(t, s, again)
                      \/ AcceptStep(t, s)
               PROVE SettledKept
    BY <1>5 DEF StepOp
  <2>1. CASE CreateStep(t, s)
    BY <1>1, <2>1 DEF CreateStep
  <2>2. ASSUME NEW target \in RowStatus, TransitionStep(t, s, target) PROVE SettledKept
    <3>1. step[s] = "succeeded" => target = "succeeded"
      BY <2>2 DEF TransitionStep, Legal, StepTransitions
    <3>2. QED
      BY <1>1, <2>2, <3>1 DEF TransitionStep
  <2>3. ASSUME NEW again \in BOOLEAN, ResetStep(t, s, again) PROVE SettledKept
    BY <1>1, <2>3 DEF ResetStep
  <2>4. CASE AcceptStep(t, s)
    BY <1>1, <2>4 DEF AcceptStep
  <2>5. QED
    BY <2>1, <2>2, <2>3, <2>4
<1>6. CASE AttemptOp
  BY <1>6 DEF AttemptOp, CreateParticipant, TransitionParticipant, CreateAttempt,
              TransitionAttempt, ClassifyStaleAttempt
<1>7. QED
  BY <1>3, <1>4, <1>5, <1>6 DEF Next

\* A succeeded step and the outcome of an ended run outlive every later write.
THEOREM SettledStays == Spec => SettledWorkStays
<1>1. TypeOK /\ [Next]_vars =>
        [/\ \A s \in Steps : step[s] = "succeeded" => step'[s] = "succeeded"
         /\ status \in RunTerminal => status' = status]_vars
  BY SettledStep DEF SettledKept
<1>2. QED
  BY <1>1, TypeCorrect, PTL DEF Spec, SettledWorkStays

\* No later write changes what has happened: the three facts above together.
THEOREM OutcomesStay == Spec => OutcomesStand
  BY LateAnswersDropped, AttemptHistoryKept, SettledStays DEF OutcomesStand
=============================================================================
