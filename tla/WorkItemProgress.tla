-------------------------- MODULE WorkItemProgress --------------------------
(* What a person is shown of a run: project_work_item_progress turns the     *)
(* rows of the run, its steps and their reports into three stages, an        *)
(* overall state and the stage that is active. It keeps no state: the view   *)
(* is a function of the rows DurableEngine changes. Narrative text, counts   *)
(* and the bounded history of earlier rounds are left out.                   *)
EXTENDS DurableEngine

Stages == {"planning", "execution", "review"}
RunningStatuses == {"dispatching", "running", "recovering", "finalizing", "cancelling"}
AttentionStatuses == {"failed", "blocked", "needs_changes", "unknown", "interrupted",
                      "awaiting_reconciliation"}

StageOf(s) == CASE s = Architect  -> "planning"
                [] s \in Writers  -> "execution"
                [] OTHER          -> "review"
Rows(stage) == {s \in Steps : StageOf(s) = stage /\ step[s] # "absent"}
Last(S) == CHOOSE s \in S : \A t \in S : t <= s
\* create_step points current_step_id at the step it inserts, the last one.
CurrentStep == Last({s \in Steps : step[s] # "absent"} \cup {Architect})
CurrentStage == StageOf(CurrentStep)

\* A report that asks for changes needs attention although its step succeeded.
StepState(s) ==
    CASE step[s] \in RunningStatuses   -> "running"
      [] step[s] = "cancelled"         -> "cancelled"
      [] step[s] \in AttentionStatuses -> "attention"
      [] step[s] = "succeeded"         -> IF res[s] = "blockers" THEN "attention" ELSE "complete"
      [] OTHER                         -> "pending"

\* A stage is its latest round, whatever earlier rounds say. RecordedFirst: its
\* earliest (a defect).
RecordedFirst == [stage \in Stages |->
                     IF Rows(stage) = {} THEN "pending"
                     ELSE StepState(CHOOSE s \in Rows(stage) : \A t \in Rows(stage) : s <= t)]
Recorded == [stage \in Stages |->
                IF Rows(stage) = {} THEN "pending" ELSE StepState(Last(Rows(stage)))]

Overall == CASE status = "approved"            -> "complete"
             [] status = "cancelled"           -> "cancelled"
             [] status \in AttentionStatuses   -> "attention"
             [] status \in RunningStatuses     -> "running"
             [] OTHER                          -> "pending"

\* Attention is put on the current stage only when the run itself ended there.
StageStates ==
    LET resumed == status = "recovering"
                   /\ step[CurrentStep] \in {"pending", "unknown", "interrupted"}
        shown == IF resumed THEN [Recorded EXCEPT ![CurrentStage] = "running"] ELSE Recorded
        blamed == Overall = "attention"
                  /\ status \notin {"awaiting_reconciliation", "unknown", "interrupted"}
                  /\ \A stage \in Stages : shown[stage] # "attention"
    IN  CASE Overall = "cancelled" ->
               [stage \in Stages |-> IF shown[stage] \in {"pending", "running"}
                                     THEN "cancelled" ELSE shown[stage]]
          [] blamed /\ step[CurrentStep] # "absent" ->
               [shown EXCEPT ![CurrentStage] = "attention"]
          [] OTHER -> shown

\* The current step's stage first, then the first one that runs, and for a
\* halted run the last one that needs attention; "none" when it is global.
ActiveStage ==
    LET In(state) == {stage \in Stages : StageStates[stage] = state}
        First(S) == IF "planning" \in S THEN "planning"
                    ELSE IF "execution" \in S THEN "execution" ELSE "review"
        Latest(S) == IF "review" \in S THEN "review"
                     ELSE IF "execution" \in S THEN "execution" ELSE "planning"
    IN  CASE step[CurrentStep] # "absent"
               /\ StageStates[CurrentStage] \in {"running", "attention"} -> CurrentStage
          [] OTHER ->
               CASE In("running") # {} -> First(In("running"))
                 [] In("running") = {} /\ Overall = "attention" /\ In("attention") # {} ->
                      Latest(In("attention"))
                 [] OTHER -> "none"

-----------------------------------------------------------------------------
\* An approved run is shown as whole: each stage complete and nothing active,
\* although the review of an earlier round asked for changes, a step was tried
\* again or the run was recovered on the way. The engine decides the approval
\* from one review, the view from the last row of each stage: they must agree.
ApprovedIsShownWhole ==
    Overall = "complete" => /\ \A stage \in Stages : StageStates[stage] = "complete"
                            /\ ActiveStage = "none"
=============================================================================
