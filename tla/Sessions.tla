------------------------------- MODULE Sessions -------------------------------
(* One provider session shared by the runs of a workspace: each call reads   *)
(* the row (get_valid_session), has its turn on the thread it found or on a  *)
(* new one, and saves the thread and one more turn (upsert_session). Here    *)
(* are the runners without a memory of their own: external agents, which     *)
(* resume a thread by its id, and codex exec, which always opens one.        *)
EXTENDS Naturals, FiniteSets

CONSTANTS Callers, MaxTurns,
          Versions,     \* repository identity and provider version of a call
          MaxThreads,   \* bound: threads the provider opens
          MaxSaves      \* bound: turns the row counts

ASSUME SessionsAssumption ==
    {MaxTurns, MaxThreads, MaxSaves} \subseteq Nat /\ MaxTurns > 0 /\ IsFiniteSet(Callers)

VARIABLES runner,    \* how the profile runs its provider
          session,   \* the provider_sessions row
          caller,    \* per call: step, thread of its turn, what it presents
          threads,   \* threads opened so far
          turns      \* turns saved per thread

sessionVars == <<runner, session, caller, threads, turns>>

Forgetful == {"agent", "exec-json"}
NoThread == 0
NoProc == 0
IdleCaller == [pc |-> "idle", thread |-> NoThread, version |-> "none", ok |-> FALSE,
               proc |-> NoProc]
SessionsInit ==
    /\ runner \in Forgetful \union {"app-server", "sdk"}
    /\ session = [status |-> "none", thread |-> NoThread, count |-> 0, version |-> "none",
                  old |-> FALSE]
    /\ caller = [c \in Callers |-> IdleCaller]
    /\ threads = 0 /\ turns = [t \in 1..MaxThreads |-> 0]

Invalid(v) == session.old \/ session.count >= MaxTurns \/ session.version # v

\* get_valid_session marks a row it refuses stale, in a later transaction.
Look(c, v) ==
    /\ caller[c].pc = "idle" /\ session.count < MaxSaves
    /\ LET my == [IdleCaller EXCEPT !.pc = "turn", !.version = v] IN
       caller' = [caller EXCEPT ![c] =
          IF session.status # "active" THEN my
          ELSE IF Invalid(v) THEN [my EXCEPT !.pc = "mark"]
          ELSE [my EXCEPT !.thread = session.thread]]
    /\ UNCHANGED <<runner, session, threads, turns>>

MarkStale(c) ==
    /\ caller[c].pc = "mark" /\ caller' = [caller EXCEPT ![c].pc = "turn"]
    /\ session' = [session EXCEPT !.status = "stale"]
    /\ UNCHANGED <<runner, threads, turns>>

\* The turn is over: its thread, and whether it gave a valid report.
Answered(c, t, ok) ==
    caller' = [caller EXCEPT ![c].pc = "save", ![c].thread = t, ![c].ok = ok]
NewThread == threads < MaxThreads /\ threads' = threads + 1

\* An agent resumes the thread or opens one.
Turn(c, ok) ==
    /\ runner = "agent" /\ caller[c].pc = "turn"
    /\ IF caller[c].thread = NoThread THEN NewThread /\ Answered(c, threads + 1, ok)
       ELSE Answered(c, caller[c].thread, ok) /\ UNCHANGED threads
    /\ UNCHANGED <<runner, session, turns>>

\* codex exec is not told of a thread. Cut off before it names its own, the
\* engine keeps the one of the row.
ExecTurn(c, ok) ==
    /\ runner = "exec-json" /\ caller[c].pc = "turn"
    /\ \/ NewThread /\ Answered(c, threads + 1, ok)
       \/ ~ok /\ Answered(c, caller[c].thread, ok) /\ UNCHANGED threads
    /\ UNCHANGED <<runner, session, turns>>

\* A plausible defect: the upsert writes the count of the inserted row.
CountOfInsert == 1
\* ON CONFLICT: everything is replaced, the count of turns goes on.
CountAfter == session.count + 1
Save(c) ==
    /\ caller[c].pc = "save"
    /\ session' = [status |-> IF caller[c].ok THEN "active" ELSE "stale",
                   thread |-> caller[c].thread, count |-> CountAfter,
                   version |-> caller[c].version, old |-> FALSE]
    /\ turns' = [t \in DOMAIN turns |-> turns[t] + (IF t = caller[c].thread THEN 1 ELSE 0)]
    /\ caller' = [caller EXCEPT ![c] = IdleCaller] /\ UNCHANGED <<runner, threads>>

\* The lease was lost before the answer was saved, or the process of the call
\* died; a process that keeps sessions in memory dies with all its calls.
SaveIsLost(c) ==
    /\ caller[c].pc = "save" \/ (runner \in Forgetful /\ caller[c].pc \in {"mark", "turn"})
    /\ caller' = [caller EXCEPT ![c] = IdleCaller]
    /\ UNCHANGED <<runner, session, threads, turns>>

\* ttl_hours pass; expire_sessions of a maintenance marks what is over.
Expire ==
    /\ session.status = "active" /\ ~session.old /\ session' = [session EXCEPT !.old = TRUE]
    /\ UNCHANGED <<runner, caller, threads, turns>>
ExpireSessions ==
    /\ session.status = "active" /\ session.old
    /\ session' = [session EXCEPT !.status = "stale"]
    /\ UNCHANGED <<runner, caller, threads, turns>>

SessionsNext ==
    \/ \E c \in Callers : \/ \E v \in Versions : Look(c, v)
                          \/ MarkStale(c) \/ Save(c) \/ SaveIsLost(c)
                          \/ \E ok \in BOOLEAN : Turn(c, ok) \/ ExecTurn(c, ok)
    \/ Expire \/ ExpireSessions

\* max_turns is a limit for every runner (docs/consistency-operator-control.md,
\* section 8): no provider thread gathers more turns, but for those of calls
\* that looked before the limit was reached and saved after it. The app-server
\* and the SDK go on with the thread in their memory, whatever the row says.
ThreadLimitIsKept == \A t \in 1..MaxThreads : turns[t] <= MaxTurns + Cardinality(Callers) - 1

\* What holds: the limit is kept where the row alone names the thread.
ThreadsAreBounded == runner \in Forgetful => ThreadLimitIsKept
=============================================================================
