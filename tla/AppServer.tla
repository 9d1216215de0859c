------------------------------ MODULE AppServer ------------------------------
(* The runners that keep sessions in the memory of the router process:       *)
(* codex app-server (codex_app_server.py), one child process per session      *)
(* key, and the SDK (codex_sdk.py), one thread object per key. The calls of  *)
(* Sessions share one key. Two locks are held across waits: that of the      *)
(* table while a session is created, that of a session during a turn; both   *)
(* are free between a turn that failed and the removal of its session.       *)
EXTENDS Sessions

CONSTANT MaxProcs       \* bound: app-server processes started
ASSUME ProcsAssumption == MaxProcs \in Nat

VARIABLES cache,     \* the entry of the key in _SESSIONS, or in _THREADS
          procs      \* app-server processes: state, turns they work on

appServerVars == <<sessionVars, cache, procs>>

NoEntry == [proc |-> NoProc, thread |-> NoThread]
Procs == 1..MaxProcs
AppServerInit ==
    /\ SessionsInit
    /\ cache = NoEntry
    /\ procs = [p \in Procs |-> [state |-> "none", active |-> {}]]

\* Holders of _SESSIONS_LOCK across a step, and of the _turn_lock of p.
Creating == {c \in Callers : caller[c].pc = "creating"}
Turning(p) == {c \in Callers : caller[c].pc = "turning" /\ caller[c].proc = p}
Live(p) == procs[p].state = "live"
Ended == [state |-> "dead", active |-> {}]
Move(c, pc) == caller' = [caller EXCEPT ![c].pc = pc]

\* Without an entry a process is started and asked to initialize.
Fetch(c) ==
    /\ runner = "app-server" /\ caller[c].pc = "turn" /\ Creating = {}
    /\ \/ /\ cache # NoEntry /\ UNCHANGED procs
          /\ caller' = [caller EXCEPT ![c].pc = "queued", ![c].proc = cache.proc,
                                      ![c].thread = cache.thread]
       \/ /\ cache = NoEntry
          /\ \E p \in Procs :
                /\ procs[p].state = "none" /\ \A q \in 1..p-1 : procs[q].state # "none"
                /\ procs' = [procs EXCEPT ![p].state = "live"]
                /\ caller' = [caller EXCEPT ![c].pc = "creating", ![c].proc = p]
    /\ UNCHANGED <<runner, session, threads, turns, cache>>

\* resume_thread, or start_thread when that fails or there is none to resume.
Created(c) ==
    /\ caller[c].pc = "creating" /\ Live(caller[c].proc)
    /\ \E t \in {caller[c].thread, threads + 1} \ {NoThread} :
          /\ IF t = threads + 1 THEN NewThread ELSE UNCHANGED threads
          /\ cache' = [proc |-> caller[c].proc, thread |-> t]
          /\ caller' = [caller EXCEPT ![c].pc = "queued", ![c].thread = t]
    /\ UNCHANGED <<runner, session, turns, procs>>

\* No answer in time, or the process is gone: it is left as it is.
CreationFails(c) ==
    /\ caller[c].pc = "creating"
    /\ caller' = [caller EXCEPT ![c].pc = "save", ![c].ok = FALSE]
    /\ UNCHANGED <<runner, session, threads, turns, cache, procs>>

\* run_turn drains the late notifications and starts its own turn. A dead
\* process is noticed by poll, or by the pipe: then nothing is removed.
StartTurn(c) ==
    LET p == caller[c].proc IN
    /\ caller[c].pc = "queued" /\ Turning(p) = {}
    /\ \/ /\ Live(p) /\ Move(c, "turning")
          /\ procs' = [procs EXCEPT ![p].active = @ \union {c}]
       \/ /\ ~Live(p) /\ UNCHANGED procs
          /\ \E pc \in {"drop", "save"} : Move(c, pc)
    /\ UNCHANGED <<runner, session, threads, turns, cache>>

\* turn/completed names neither turn nor call: whoever listens takes it.
TurnCompleted(p, o) ==
    /\ Live(p) /\ o \in procs[p].active
    /\ procs' = [procs EXCEPT ![p].active = @ \ {o}]
    /\ IF Turning(p) = {} THEN UNCHANGED caller
       ELSE \E c \in Turning(p) : \E ok \in BOOLEAN :
               IF ok THEN Answered(c, caller[c].thread, TRUE) ELSE Move(c, "drop")
    /\ UNCHANGED <<runner, session, threads, turns, cache>>

\* The deadline passes, or the process ends; the lock of the turn is released.
GiveUp(c) ==
    /\ caller[c].pc = "turning" /\ Move(c, "drop")
    /\ UNCHANGED <<runner, session, threads, turns, cache, procs>>

\* KeepSession: a session is removed only after an exception (a defect).
KeepSession(c) ==
    /\ caller[c].pc = "drop" /\ Move(c, "save")
    /\ UNCHANGED <<runner, session, threads, turns, cache, procs>>
\* The entry of the key is removed, whichever session it is by now.
Drop(c) ==
    /\ caller[c].pc = "drop" /\ Creating = {}
    /\ IF cache = NoEntry THEN Move(c, "save")
       ELSE caller' = [caller EXCEPT ![c].pc = "close", ![c].proc = cache.proc]
    /\ cache' = NoEntry
    /\ UNCHANGED <<runner, session, threads, turns, procs>>

Close(c) ==
    /\ caller[c].pc = "close" /\ Move(c, "save")
    /\ procs' = [procs EXCEPT ![caller[c].proc] = Ended]
    /\ UNCHANGED <<runner, session, threads, turns, cache>>

\* The whole call holds _SDK_LOCK; a thread is kept for good.
SdkTurn(c, ok) ==
    /\ runner = "sdk" /\ caller[c].pc = "turn"
    /\ \/ /\ cache # NoEntry
          /\ Answered(c, cache.thread, ok) /\ UNCHANGED <<threads, cache>>
       \/ /\ cache = NoEntry
          /\ \E t \in {caller[c].thread, threads + 1} \ {NoThread} :
                /\ IF t = threads + 1 THEN NewThread ELSE UNCHANGED threads
                /\ cache' = [NoEntry EXCEPT !.thread = t] /\ Answered(c, t, ok)
    /\ UNCHANGED <<runner, session, turns, procs>>

\* A process is registered under the run that started it and ends with that
\* run's cancellation or lease, whoever uses it then.
EndedWithRun(p) ==
    /\ Live(p) /\ procs' = [procs EXCEPT ![p] = Ended]
    /\ UNCHANGED <<sessionVars, cache>>

RouterDies ==
    /\ runner \notin Forgetful /\ \E c \in Callers : caller[c].pc # "idle"
    /\ caller' = [c \in Callers |-> IdleCaller] /\ cache' = NoEntry
    /\ procs' = [p \in Procs |-> IF Live(p) THEN Ended ELSE procs[p]]
    /\ UNCHANGED <<runner, session, threads, turns>>

AppServerNext ==
    \/ SessionsNext /\ UNCHANGED <<cache, procs>>
    \/ \E c \in Callers : \/ Fetch(c) \/ Created(c) \/ CreationFails(c) \/ StartTurn(c)
                          \/ GiveUp(c) \/ Drop(c) \/ Close(c)
                          \/ \E ok \in BOOLEAN : SdkTurn(c, ok)
    \/ \E p \in Procs : EndedWithRun(p) \/ \E o \in Callers : TurnCompleted(p, o)
    \/ RouterDies

\* A call takes the answer of another's turn for its own only while the call
\* that gave that turn up is still removing the session: whoever finds a session
\* later never hears of earlier turns, whatever fails, closes or is replaced in
\* between (the removal after every failed turn, run_codex_app_server).
Removing(p) == \E d \in Callers : caller[d].pc \in {"drop", "close"} /\ caller[d].proc = p
AnswersStayWithTheirCall ==
    [][\A c \in Callers :
          /\ caller[c].pc = "turning" /\ caller'[c].pc = "save" /\ caller'[c].ok
          /\ c \in procs'[caller[c].proc].active
          => Removing(caller[c].proc)]_appServerVars

-----------------------------------------------------------------------------
(* "Drain them before starting a new correlated turn" (run_turn) promises    *)
(* more; it does not hold.                                                   *)
AnswersAreCorrelated ==
    [][\A c \in Callers :
          caller[c].pc = "turning" /\ caller'[c].pc = "save" /\ caller'[c].ok
          => c \notin procs'[caller[c].proc].active]_appServerVars
=============================================================================
