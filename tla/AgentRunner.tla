---------------------------- MODULE AgentRunner ----------------------------
(***************************************************************************)
(* The isolated runner of local agents (runtimes/agent-runner): one        *)
(* idempotent job in the jobs database, the runner processes that callers  *)
(* start for it (a first call and its retries), the agent's own process,   *)
(* and the runner processes that carry a cancel request.                   *)
(*                                                                         *)
(* Every read of the job row, every UPDATE and every signal is a step of   *)
(* its own.  A connector gives up on its runner with SIGTERM and, a grace  *)
(* later, SIGKILL; the agent's process is in a session of its own and      *)
(* outlives a killed runner.  Events carry no decision and are left out.   *)
(***************************************************************************)
EXTENDS Naturals, FiniteSets

CONSTANTS
    Runners,        \* runner processes started to invoke the job
    Cancellers,     \* runner processes started to cancel it
    NoRunner,
    MaxDeaths       \* bound on runners killed without a SIGTERM first

ASSUME NobodyAssumption == NoRunner \notin Runners
ASSUME DeathsAssumption == MaxDeaths \in Nat

VARIABLES
    mode,       \* effect_mode of the job
    job,        \* its row
    at,         \* where each runner process is
    child,      \* the process of the agent that each runner spawned
    said,       \* the result message that it wrote before it ended
    answer,     \* the result message each caller received
    termed,     \* runners that received SIGTERM
    deaths,
    cancelled   \* a caller was told the job is cancelled (history)

runnerVars == <<mode, job, at, child, said, answer, termed, deaths, cancelled>>

Modes    == {"read-only", "workspace-write"}
Terminal == {"succeeded", "failed", "cancelled", "unknown"}
Codes    == {"none", "agent", "silent", "raised", "timeout", "lost", "cancelled",
             "job_running", "refused", "transport"}

NoJob    == [state |-> "absent"]
NoResult == [state |-> "none", code |-> "none", retryable |-> FALSE]
Result(s, c, r) == [state |-> s, code |-> c, retryable |-> r]
Row(s, p, res)  == [state |-> s, pid |-> p, result |-> res]

Idle  == [pc |-> "idle"]
To(p) == [pc |-> p]

RunnerInit ==
    /\ mode \in Modes
    /\ job = NoJob
    /\ at = [p \in Runners \cup Cancellers |-> Idle]
    /\ child = [r \in Runners |-> "none"]
    /\ said = [r \in Runners |-> NoResult]
    /\ answer = [p \in Runners \cup Cancellers |-> NoResult]
    /\ termed = {}
    /\ deaths = 0
    /\ cancelled = FALSE

Goes(p, where) == at' = [at EXCEPT ![p] = where]

\* An agent ends without a word, with something that is not the protocol, or
\* with a result: any state of the contract, and any word on a retry.  One that
\* is told to end does so too; those built with the SDK then answer cancelled,
\* to be retried, whatever they may have written.
Outputs == {"silent", "garbled", "answered"}
Answers == {Result(s, "agent", b) : s \in Terminal, b \in BOOLEAN}

Ends(r) ==
    \E out \in Outputs : \E res \in IF out = "answered" THEN Answers ELSE {NoResult} :
        /\ child' = [child EXCEPT ![r] = out]
        /\ said' = [said EXCEPT ![r] = res]

\* An effect that may have happened is never reported as a failure to retry.
\* A slip: what cannot be known is reported as failed.
AlwaysFailed(code, otherwise, retryable) == Result(otherwise, code, retryable)
Unsure(code, otherwise, retryable) ==
    IF mode = "workspace-write" THEN Result("unknown", code, FALSE)
                                ELSE Result(otherwise, code, retryable)

\* finish(): whatever the row says, the state and the result are replaced.
Finish(res) == job' = Row(res.state, NoRunner, res)

Tell(p, res) ==
    /\ answer' = [answer EXCEPT ![p] = res]
    /\ Goes(p, To("answered"))

\* os.kill(pid, 0): an agent that ended stays a zombie until its runner has
\* waited for it, or is gone.
Reaped(r) ==
    \/ at[r].pc \in {"unlocking", "exited", "parsing", "answered", "dead"}
    \/ at[r].pc \in {"stuck", "timedout"} /\ at[r].waited
PidAlive(r) == child[r] = "alive" \/ (child[r] # "none" /\ ~Reaped(r))

----------------------------------------------------------------------------
\* The invocation.

\* A slip: a job that failed is begun anew.
ReusedUnlessFailed == job # NoJob /\ job.state # "failed"
Reused == job # NoJob

\* One transaction looks the key up and inserts the row; a key that was used
\* for another request is refused.
BeginFirst(r) ==
    /\ at[r] = Idle /\ ~Reused
    /\ job' = Row("accepted", NoRunner, NoResult)
    /\ Goes(r, To("accepted"))
    /\ UNCHANGED <<mode, child, said, answer, termed, deaths, cancelled>>

BeginAgain(r) ==
    /\ at[r] = Idle /\ Reused
    /\ \/ /\ Goes(r, [pc |-> "waiting", seen |-> job])
          /\ UNCHANGED answer
       \/ Tell(r, Result("failed", "refused", FALSE))
    /\ UNCHANGED <<mode, job, child, said, termed, deaths, cancelled>>

\* The workspace is missing, or the agent cannot be started: the error leaves
\* through the command line, and the row keeps saying accepted.
RefuseStart(r) ==
    /\ at[r].pc = "accepted"
    /\ Tell(r, Result("failed", "refused", FALSE))
    /\ UNCHANGED <<mode, job, child, said, termed, deaths, cancelled>>

\* The read-only copy exceeds its limits.
RefuseCopy(r) ==
    /\ at[r].pc = "accepted" /\ mode = "read-only"
    /\ Goes(r, To("raised"))
    /\ UNCHANGED <<mode, job, child, said, answer, termed, deaths, cancelled>>

Spawn(r) ==
    /\ at[r].pc = "accepted"
    /\ child' = [child EXCEPT ![r] = "alive"]
    /\ Goes(r, To("locking"))
    /\ UNCHANGED <<mode, job, said, answer, termed, deaths, cancelled>>

\* The process is published to the signal handler under a lock that the
\* handler takes as well.
Publish(r) ==
    /\ at[r].pc = "locking"
    /\ Goes(r, To("spawned"))
    /\ UNCHANGED <<mode, job, child, said, answer, termed, deaths, cancelled>>

\* The row is set to running whatever it said; a result it holds stays.
SetRunning(r) ==
    /\ at[r].pc = "spawned"
    /\ job' = [job EXCEPT !.state = "running", !.pid = r]
    /\ Goes(r, To("communicating"))
    /\ UNCHANGED <<mode, child, said, answer, termed, deaths, cancelled>>

Communicated(r) ==
    /\ at[r].pc = "communicating" /\ child[r] \notin {"none", "alive"}
    /\ Goes(r, To("unlocking"))
    /\ UNCHANGED <<mode, job, child, said, answer, termed, deaths, cancelled>>

\* The process is withdrawn from the signal handler, under the lock again.
Withdraw(r) ==
    /\ at[r].pc = "unlocking"
    /\ Goes(r, To("exited"))
    /\ UNCHANGED <<mode, job, child, said, answer, termed, deaths, cancelled>>

\* A slip: communicate() without a timeout.
NeverExpires(r) == FALSE
Expires(r) == child[r] = "alive"

\* _terminate(): what the agent still writes is not read.  It is waited for
\* unless only SIGKILL ended it.
Timeout(r) ==
    /\ at[r].pc = "communicating" /\ Expires(r)
    /\ Ends(r)
    /\ \E w \in BOOLEAN : Goes(r, [pc |-> "timedout", waited |-> w])
    /\ UNCHANGED <<mode, job, answer, termed, deaths, cancelled>>

StoreTimeout(r) ==
    /\ at[r].pc = "timedout"
    /\ LET res == Unsure("timeout", "failed", TRUE) IN Finish(res) /\ Tell(r, res)
    /\ UNCHANGED <<mode, child, said, termed, deaths, cancelled>>

\* A slip: any stored result stands, in whatever state the row is.
AnyResultStands == job.result # NoResult
CancelStands == job.state \in {"cancelled", "unknown"} /\ job.result # NoResult

\* After the agent ended, a decision stored meanwhile wins over its result.
CheckCancelled(r) ==
    /\ at[r].pc = "exited"
    /\ IF CancelStands THEN Tell(r, job.result)
                       ELSE Goes(r, To("parsing")) /\ UNCHANGED answer
    /\ UNCHANGED <<mode, job, child, said, termed, deaths, cancelled>>

\* The agent's result is stored as it is: its state, and its word on a retry.
Reported(r) ==
    IF child[r] = "silent" THEN Result("failed", "silent", FALSE) ELSE said[r]

StoreReported(r) ==
    /\ at[r].pc = "parsing" /\ child[r] # "garbled"
    /\ LET res == Reported(r) IN Finish(res) /\ Tell(r, res)
    /\ UNCHANGED <<mode, child, said, termed, deaths, cancelled>>

RejectOutput(r) ==
    /\ at[r].pc = "parsing" /\ child[r] = "garbled"
    /\ Goes(r, To("raised"))
    /\ UNCHANGED <<mode, job, child, said, answer, termed, deaths, cancelled>>

StoreRaised(r) ==
    /\ at[r].pc = "raised"
    /\ LET res == Unsure("raised", "failed", FALSE) IN Finish(res) /\ Tell(r, res)
    /\ UNCHANGED <<mode, child, said, termed, deaths, cancelled>>

----------------------------------------------------------------------------
\* A retry waits for the job of an earlier call.

Lost(seen) == seen.state = "running" /\ seen.pid # NoRunner /\ ~PidAlive(seen.pid)

Reread(r) ==
    /\ at[r].pc = "waiting" /\ at[r].seen.state \notin Terminal
    /\ ~Lost(at[r].seen) /\ at[r].seen # job
    /\ Goes(r, [pc |-> "waiting", seen |-> job])
    /\ UNCHANGED <<mode, job, child, said, answer, termed, deaths, cancelled>>

DeclareLost(r) ==
    /\ at[r].pc = "waiting" /\ Lost(at[r].seen)
    /\ LET res == Unsure("lost", "failed", TRUE) IN Finish(res) /\ Tell(r, res)
    /\ UNCHANGED <<mode, child, said, termed, deaths, cancelled>>

\* The wait ends with a terminal row, or at the deadline with what there is.
StopWaiting(r) ==
    /\ at[r].pc = "waiting" /\ ~Lost(at[r].seen)
    /\ Tell(r, IF at[r].seen.result # NoResult THEN at[r].seen.result
               ELSE Result("failed", "job_running", TRUE))
    /\ UNCHANGED <<mode, job, child, said, termed, deaths, cancelled>>

----------------------------------------------------------------------------
\* A cancel request, in a process of its own.

CancelRead(x) ==
    /\ at[x] = Idle /\ job # NoJob
    /\ Goes(x, [pc |-> "deciding", seen |-> job])
    /\ UNCHANGED <<mode, job, child, said, answer, termed, deaths, cancelled>>

CancelStore(x) ==
    /\ at[x].pc = "deciding"
    /\ Finish(Unsure("cancelled", "cancelled", TRUE))
    /\ Goes(x, [at[x] EXCEPT !.pc = "signalling"])
    /\ UNCHANGED <<mode, child, said, answer, termed, deaths, cancelled>>

\* The agent may end on the signal or ignore it.
CancelSignal(x) ==
    /\ at[x].pc = "signalling"
    /\ LET seen == at[x].seen IN
       \/ /\ seen.state = "running" /\ seen.pid # NoRunner /\ child[seen.pid] = "alive"
          /\ Ends(seen.pid)
       \/ UNCHANGED <<child, said>>
    /\ Tell(x, Unsure("cancelled", "cancelled", TRUE))
    /\ cancelled' = TRUE
    /\ UNCHANGED <<mode, job, termed, deaths>>

----------------------------------------------------------------------------
\* The agent, the connector and the machine.

AgentEnds(r) ==
    /\ child[r] = "alive"
    /\ Ends(r)
    /\ UNCHANGED <<mode, job, at, answer, termed, deaths, cancelled>>

Running(r) == at[r].pc \notin {"idle", "answered", "dead", "stuck"}

\* terminate_active(): the handler runs on the main thread.  Inside the lock it
\* can never take it; before, there is nothing to end and the flag it sets is
\* not read.
Term(r) ==
    /\ Running(r) /\ r \notin termed
    /\ termed' = termed \cup {r}
    /\ \/ at[r].pc \in {"locking", "unlocking"} /\ UNCHANGED <<child, said>>
          /\ Goes(r, [pc |-> "stuck", waited |-> at[r].pc = "unlocking"])
       \/ /\ at[r].pc \in {"spawned", "communicating"} /\ child[r] = "alive"
          /\ Ends(r)
          /\ UNCHANGED at
       \/ /\ at[r].pc \notin {"locking", "unlocking"}
          /\ at[r].pc \in {"spawned", "communicating"} => child[r] # "alive"
          /\ UNCHANGED <<at, child, said>>
    /\ UNCHANGED <<mode, job, answer, deaths, cancelled>>

Dies(r) ==
    /\ Goes(r, To("dead"))
    /\ answer' = [answer EXCEPT ![r] = Result("failed", "transport", TRUE)]

\* The connector's grace is over: SIGKILL, and a transport error to the router.
Kill(r) ==
    /\ r \in termed /\ (Running(r) \/ at[r].pc = "stuck")
    /\ Dies(r)
    /\ UNCHANGED <<mode, job, child, said, termed, deaths, cancelled>>

\* Anything else that ends a runner: memory, a reboot of its container.
Death(r) ==
    /\ Running(r) /\ deaths < MaxDeaths
    /\ Dies(r)
    /\ deaths' = deaths + 1
    /\ UNCHANGED <<mode, job, child, said, termed, cancelled>>

----------------------------------------------------------------------------
Start(r) == BeginFirst(r) \/ BeginAgain(r)

Invoke(r) ==
    \/ RefuseStart(r) \/ RefuseCopy(r) \/ Spawn(r) \/ Publish(r) \/ SetRunning(r)
    \/ Communicated(r) \/ Withdraw(r) \/ Timeout(r) \/ StoreTimeout(r)
    \/ CheckCancelled(r) \/ StoreReported(r) \/ RejectOutput(r) \/ StoreRaised(r)

WaitForExisting(r) == DeclareLost(r) \/ StopWaiting(r)

Cancel(x) == CancelRead(x) \/ CancelStore(x) \/ CancelSignal(x)

Outside(r) == AgentEnds(r) \/ Term(r) \/ Kill(r) \/ Death(r)

RunnerNext ==
    \/ \E r \in Runners : Start(r) \/ Invoke(r) \/ Reread(r) \/ WaitForExisting(r) \/ Outside(r)
    \/ \E x \in Cancellers : Cancel(x)

\* A runner takes its steps; its deadlines are timeouts of its own, so that
\* neither the agent nor another runner need do anything.  A connector that
\* sent SIGTERM sends SIGKILL.
RunnerFairness ==
    \A r \in Runners : WF_runnerVars(Invoke(r)) /\ WF_runnerVars(WaitForExisting(r)) /\ WF_runnerVars(Kill(r))

RunnerSpec == RunnerInit /\ [][RunnerNext]_runnerVars /\ RunnerFairness

----------------------------------------------------------------------------
ResultOK(res) == res.state \in Terminal \cup {"none"} /\ res.code \in Codes /\ res.retryable \in BOOLEAN

\* Every variable has its type, and no row names both a process and a verdict.
RunnerTypeOK ==
    /\ mode \in Modes
    /\ job = NoJob \/ ( /\ job.state \in Terminal \cup {"accepted", "running"}
                        /\ job.pid \in Runners \cup {NoRunner}
                        /\ ResultOK(job.result)
                        /\ job.state \in Terminal => job.pid = NoRunner /\ job.result # NoResult )
    /\ \A p \in DOMAIN answer : ResultOK(answer[p]) /\ (answer[p] # NoResult <=> at[p].pc \in {"answered", "dead"})
    /\ child \in [Runners -> {"none", "alive"} \cup Outputs]
    /\ \A r \in Runners : said[r] \in IF child[r] = "answered" THEN Answers ELSE {NoResult}
    /\ termed \subseteq Runners /\ deaths \in 0..MaxDeaths /\ cancelled \in BOOLEAN

\* However many times a request is sent, and whatever dies between, its agent
\* is started at most once (store.begin, _wait_for_existing).
StartedOnce == Cardinality({r \in Runners : child[r] # "none"}) <= 1

\* What is kept of a job that may write, and what any of its callers is told, is
\* word for word the agent's own result, the failure of an agent that ended
\* without one, or that the effect is unknown and not to be retried: a timeout, a
\* cancel request and a process that is gone are never a failure, let alone a
\* success, whoever finds them and whatever was stored before.  The last three
\* codes say nothing of the effect: no agent was started by this call, or it
\* did not hear of its end (StoreTimeout, DeclareLost, CancelStore, StoreReported).
Kept == (IF job = NoJob THEN {} ELSE {job.result}) \cup {answer[p] : p \in DOMAIN answer}
AgentSaid(res)   == \E r \in Runners : child[r] = "answered" /\ res = said[r]
SaidNothing(res) == res = Result("failed", "silent", FALSE) /\ \E r \in Runners : child[r] = "silent"

UncertainWriteIsUnknown ==
    mode = "workspace-write" =>
        \A res \in Kept :
            \/ res.code \in {"none", "refused", "job_running", "transport"}
            \/ AgentSaid(res)
            \/ SaidNothing(res)
            \/ res.state = "unknown" /\ ~res.retryable

\* Once the call that started the agent has answered, the job is over: nothing
\* that waits for it or cancels it can find it running again.
AnsweredIsSettled ==
    (\E r \in Runners : at[r].pc = "answered" /\ child[r] # "none") => job.state \in Terminal

\* Every call ends: a hung agent, a row whose runner died and a handler that
\* waits for its own lock delay it, none of them for ever.
EveryCallEnds ==
    \A r \in Runners : at[r].pc # "idle" ~> at[r].pc \in {"answered", "dead"}

\* "Cancellation ... durably wins the race with the original invocation": once
\* a caller has been told, the job stays cancelled, or unknown if it may write.
CancelWins == cancelled => job.state \in {"cancelled", "unknown"}

\* "A cancelled or lost write job is unknown": the result of an agent that is
\* told to end, cancelled and to be retried, is stored as it is.
CancelledWriteIsUnknown ==
    (mode = "workspace-write" /\ job # NoJob) => job.state # "cancelled"
=============================================================================
