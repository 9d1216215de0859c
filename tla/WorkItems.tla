------------------------------ MODULE WorkItems ------------------------------
(***************************************************************************)
(* Work items (router/work_items.py): the durable task a person edits,     *)
(* continues, starts, archives and deletes, above the durable runs.  The   *)
(* module follows one item, the runs created for its revisions, and the    *)
(* clients (console threads, MCP calls, the CLI) that operate on it.       *)
(*                                                                         *)
(* Every operation reads the item first (get, which also synchronises the  *)
(* row with its run), decides on what it read, and writes later in a       *)
(* transaction that does not look at the row again.  The model keeps those *)
(* steps apart, so clients interleave between them.  The engine below is   *)
(* reduced to the statuses and the lease the items depend on.              *)
(***************************************************************************)
EXTENDS Naturals, Sequences, FiniteSets, SequencesExt

CONSTANTS
    Clients,
    NoClient,
    MaxOps,         \* bound on the operations explored, the creation included
    MaxCrashes      \* bound on the process deaths explored

ASSUME BoundsAssumption == MaxOps \in Nat \ {0} /\ MaxCrashes \in Nat
ASSUME NoClientAssumption == NoClient \notin Clients

VARIABLES
    item,       \* the work_items row and its last 'archived' event
    turns,      \* work_item_turns: revision, run
    links,      \* work_item_runs, by ordinal
    runs,       \* workflow_runs created for the item
    call,       \* where each client is
    ops, crashes,
    outdated,   \* clients whose knowledge another redirected (history)
    anomaly     \* what a client did on outdated knowledge (history)

vars == <<item, turns, links, runs, call, ops, crashes, outdated, anomaly>>

Terminal   == {"approved", "needs_changes", "failed", "cancelled"}
RunStatus  == Terminal \cup {"pending", "running", "interrupted", "cancelling",
                             "awaiting", "awaiting_one"}
Parked     == {"awaiting", "awaiting_one"}   \* several choices, or only one
ItemStatus == {"draft", "running", "cancelling", "completed", "failed",
               "cancelled", "needs_attention", "archived"}
Busy       == {"running", "cancelling"}
\* settle is reached through start and settle_all, get through every other.
Operations == {"continue", "update", "start", "settle_all", "cancel",
               "reconcile", "archive", "restore", "delete"}

Idle == [pc |-> "idle", op |-> "get", n |-> 0]

\* What a client saw of the item, with the status of its run ("none" without).
RunOf(it) ==
    IF it.run # 0 THEN it.run
    ELSE IF it.status = "archived" THEN 0
    ELSE SelectInSeq(runs, LAMBDA r : r.there /\ r.key = it.rev)
StatusOf(r) == IF r # 0 /\ runs[r].there THEN runs[r].status ELSE "none"

\* _run_to_item_status.
ItemStatusOf(s) ==
    CASE s = "approved" -> "completed"
      [] s \in {"cancelled", "failed", "cancelling"} -> s
      [] s \in {"needs_changes", "interrupted"} \cup Parked -> "needs_attention"
      [] s \in {"pending", "running"} -> "running"
      [] OTHER -> "draft"

\* A slip: every parked run is settled.
ResolutionOfAny(s) ==
    CASE s = "interrupted" -> "resume"
      [] s \in {"awaiting", "awaiting_one"} -> "reconcile"
      [] OTHER -> "none"

\* _automatic_resolution: the one recovery that leaves nothing to choose.
Resolution(s) ==
    CASE s = "interrupted"  -> "resume"
      [] s = "cancelling"   -> "finalize_cancel"
      [] s = "awaiting_one" -> "reconcile"
      [] OTHER -> "none"

\* A slip: a parked item that needs attention may be started.
ActionsWhenParked(st, s) ==
    IF st = "archived" THEN {"restore", "delete"}
    ELSE (IF st \in {"draft", "failed", "cancelled", "needs_attention"} THEN {"start"} ELSE {})
      \cup (IF st \in Busy THEN {"cancel"} ELSE {"archive"})

\* _allowed_actions: what the facades offer for an item and its run.
AllowedActions(st, s) ==
    IF st = "archived" THEN {"restore", "delete"}
    ELSE (IF st \in {"draft", "failed", "cancelled"}
             \/ (st = "needs_attention" /\ s \notin Parked) THEN {"start"} ELSE {})
      \cup (IF st \in Busy THEN {"cancel"} ELSE {"archive"})
      \cup (IF s \in Parked THEN {"reconcile"} ELSE {})
      \cup (IF \/ st \in {"completed", "failed", "cancelled"}
               \/ (st = "needs_attention" /\ s \notin Parked \cup {"none"})
            THEN {"continue"} ELSE {})

\* The refusals of each operation, on what the client read.
CanContinue(st, s) == st \notin Busy \cup {"archived"} /\ s \notin Parked
CanRestart(st, s) == st \in {"failed", "cancelled", "needs_attention"} /\ s \notin Parked
CanLaunch(st) == st \notin Busy \cup {"completed", "archived"}
CanArchive(st) == st \notin Busy

Init ==
    /\ item = [there |-> FALSE, status |-> "draft", rev |-> 1, run |-> 0,
               hidden |-> FALSE, text |-> 0, shelved |-> "none"]
    /\ turns = <<>> /\ links = <<>> /\ runs = <<>>
    /\ call = [c \in Clients |-> Idle]
    /\ ops = 0 /\ crashes = 0 /\ outdated = {} /\ anomaly = {}

(***************************************************************************)
(* Steps of a call.                                                        *)
(***************************************************************************)
Goto(c, r)  == call' = [call EXCEPT ![c] = r]
Again(c, op) == Goto(c, [call[c] EXCEPT !.pc = "read", !.op = op])
End(c)      == Goto(c, Idle)

\* A write of c that redirects the item: what the others decided before it is
\* overtaken when they write.
Flag(c) == anomaly' = anomaly \cup (IF c \in outdated THEN {"overtaken"} ELSE {})
Redirect(c) == Flag(c) /\ outdated' = Clients \ {c}
Record(c)   == Flag(c) /\ UNCHANGED outdated
Quiet == UNCHANGED <<outdated, anomaly>>

\* create: the row, its key and its first turn in one transaction.
Create(c) ==
    /\ call[c].pc = "idle" /\ ops = 0
    /\ item' = [item EXCEPT !.there = TRUE, !.text = 1]
    /\ turns' = <<[rev |-> 1, run |-> 0]>>
    /\ ops' = 1
    /\ UNCHANGED <<links, runs, call, crashes, outdated, anomaly>>

\* run_facade, status_facade and the console's threads: a request arrives.
Begin(c, op) ==
    /\ call[c].pc = "idle" /\ ops \in 1..MaxOps - 1
    /\ ops' = ops + 1
    /\ Goto(c, [pc |-> "read", op |-> op, n |-> ops + 1])
    /\ UNCHANGED <<item, turns, links, runs, crashes, outdated, anomaly>>

\* settle_workspace first lets recover_stale_runs mark the runs whose process
\* is gone, then settles the items it lists.
Recovered(r) ==
    IF r.there /\ r.owner = NoClient /\ r.status \in {"running", "cancelling"}
    THEN IF r.status = "cancelling" THEN {"cancelled"} ELSE {"interrupted", "awaiting"}
    ELSE {r.status}

SettleAll(c) ==
    /\ call[c].pc = "read" /\ call[c].op = "settle_all"
    /\ \E f \in [DOMAIN runs -> RunStatus] :
          /\ \A r \in DOMAIN runs : f[r] \in Recovered(runs[r])
          /\ runs' = [r \in DOMAIN runs |-> [runs[r] EXCEPT !.status = f[r]]]
    /\ IF item.there /\ ~item.hidden THEN Again(c, "settle") ELSE End(c)
    /\ UNCHANGED <<item, turns, links, ops, crashes, outdated, anomaly>>

\* get: the row and its run.  An automatic decision keeps resting on what settle
\* read, whatever its own get finds.
Read(c) ==
    /\ call[c].pc = "read" /\ call[c].op # "settle_all"
    /\ LET r == RunOf(item)
           s == StatusOf(r)
           stale == /\ s # "none" /\ item.status # "archived"
                    /\ item.run # r \/ item.status # ItemStatusOf(s)
       IN IF ~item.there \/ (call[c].op = "get" /\ ~stale) THEN End(c)
          ELSE Goto(c, [pc |-> IF stale THEN "sync" ELSE "act",
                        op |-> call[c].op, n |-> call[c].n,
                        st |-> item.status, rev |-> item.rev, run |-> r,
                        run_st |-> s, text |-> item.text])
    /\ outdated' = IF call[c].op = "reconcile_only" THEN outdated ELSE outdated \ {c}
    /\ UNCHANGED <<item, turns, links, runs, ops, crashes, anomaly>>

\* _link_run: a run is linked once, to the turn of the item's revision now.
Linked(r) == \E i \in DOMAIN links : links[i] = r
LinkRun(r) ==
    IF r = 0 \/ Linked(r) THEN UNCHANGED <<turns, links>>
    ELSE /\ links' = Append(links, r)
         /\ turns' = [i \in DOMAIN turns |->
                        IF turns[i].rev = item.rev /\ turns[i].run = 0
                        THEN [turns[i] EXCEPT !.run = r] ELSE turns[i]]

\* _sync: writes the status of the run that was read, and reads the row again.
\* The foreign keys refuse an item or a run that is gone.
Sync(c) ==
    LET my == call[c] IN
    /\ my.pc = "sync"
    /\ IF ~item.there \/ ~runs[my.run].there
       THEN End(c) /\ UNCHANGED <<item, turns, links>> /\ Quiet
       ELSE /\ LinkRun(my.run)
            /\ item' = [item EXCEPT !.run = my.run, !.status = ItemStatusOf(my.run_st)]
            /\ Goto(c, IF my.op = "get" THEN Idle
                       ELSE [my EXCEPT !.pc = "act", !.st = ItemStatusOf(my.run_st),
                                  !.rev = item.rev, !.text = item.text])
            /\ Record(c)
    /\ UNCHANGED <<runs, ops, crashes>>

\* A guard of the operation refuses (ValueError), or the workspace policy
\* refuses the launch (WorkspacePolicyError).
Refused(c) ==
    LET my == call[c] IN
    /\ my.pc = "act"
    /\ \/ my.op = "continue"  /\ ~CanContinue(my.st, my.run_st)
       \/ my.op = "update"    /\ my.st \in Busy
       \/ my.op = "restart"   /\ my.st \in {"failed", "cancelled", "needs_attention"}
                              /\ my.run_st \in Parked
       \/ my.op = "launch"
       \/ my.op = "settle"    /\ Resolution(my.run_st) = "none"
       \/ my.op = "cancel"    /\ my.run = 0
       \/ my.op \in {"reconcile", "reconcile_only"} /\ my.run = 0
       \/ my.op = "archive"   /\ (~CanArchive(my.st) \/ my.st = "archived")
       \/ my.op \in {"restore", "delete"} /\ my.st # "archived"
    /\ End(c)
    /\ UNCHANGED <<item, turns, links, runs, ops, crashes>> /\ Quiet

(***************************************************************************)
(* Editing.                                                                *)
(***************************************************************************)
\* A slip: the row keeps the run of the revision before.
RevisedKeepingRun(c, text) ==
    [item EXCEPT !.rev = call[c].rev + 1, !.status = "draft", !.text = text]

\* A new revision of the row under a new idempotency key, without a run.
Revised(c, text) ==
    [item EXCEPT !.rev = call[c].rev + 1, !.status = "draft", !.run = 0, !.text = text]

\* continue_item: the next revision and its turn; UNIQUE(item, revision)
\* refuses a second turn for one revision.
Continue(c) ==
    LET my == call[c] IN
    /\ my.pc = "act" /\ my.op = "continue" /\ CanContinue(my.st, my.run_st)
    /\ IF ~item.there \/ \E i \in DOMAIN turns : turns[i].rev = my.rev + 1
       THEN End(c) /\ UNCHANGED <<item, turns>> /\ Quiet
       ELSE /\ item' = [Revised(c, my.n) EXCEPT !.hidden = FALSE]
            /\ turns' = Append(turns, [rev |-> my.rev + 1, run |-> 0])
            /\ Again(c, "start")        \* run_facade starts what it continued
            /\ Redirect(c)
    /\ UNCHANGED <<links, runs, ops, crashes>>

\* update: a changed execution is a new revision (of the same turn); a changed
\* title is not.  Either way archived_at is cleared.
Update(c) ==
    LET my == call[c] IN
    /\ my.pc = "act" /\ my.op = "update" /\ my.st \notin Busy
    /\ \/ item' = [Revised(c, my.n) EXCEPT !.hidden = FALSE] /\ Redirect(c)
       \/ item' = [item EXCEPT !.rev = my.rev, !.hidden = FALSE] /\ Record(c)
    /\ Again(c, "get")
    /\ UNCHANGED <<turns, links, runs, ops, crashes>>

(***************************************************************************)
(* start: settle what can only be settled, prepare a restart, launch.      *)
(***************************************************************************)
Start(c) ==
    /\ call[c].pc = "act" /\ call[c].op = "start"
    /\ Again(c, IF Resolution(call[c].run_st) = "none" THEN "restart" ELSE "settle")
    /\ UNCHANGED <<item, turns, links, runs, ops, crashes>> /\ Quiet

\* _prepare_restart: a finished item gets a new revision of the same turn.
Restart(c) ==
    LET my == call[c] IN
    /\ my.pc = "act" /\ my.op = "restart"
    /\ \/ /\ CanRestart(my.st, my.run_st)
          /\ item' = IF item.there THEN Revised(c, item.text) ELSE item
          /\ Again(c, "launch") /\ Redirect(c)
       \/ /\ my.st \notin {"failed", "cancelled", "needs_attention"}
          /\ Goto(c, [my EXCEPT !.op = "launch"])
          /\ UNCHANGED item /\ Quiet
    /\ UNCHANGED <<turns, links, runs, ops, crashes>>

\* mark_started: the row runs from now on, before a run exists.
MarkStarted(c) ==
    LET my == call[c] IN
    /\ my.pc = "act" /\ my.op = "launch" /\ CanLaunch(my.st)
    /\ IF ~item.there THEN End(c) /\ UNCHANGED item /\ Quiet
       ELSE IF item.status \in Busy
       THEN Goto(c, [my EXCEPT !.pc = "create"]) /\ UNCHANGED item /\ Quiet
       ELSE /\ item' = [item EXCEPT !.status = "running", !.hidden = FALSE]
            /\ Goto(c, [my EXCEPT !.pc = "create"])
            /\ Redirect(c)
    /\ UNCHANGED <<turns, links, runs, ops, crashes>>

\* A slip: only a run that has ended answers for its key.
KnownEndedRun(rev) ==
    SelectInSeq(runs, LAMBDA r : r.there /\ r.key = rev /\ r.status \in Terminal)

\* The run that already has the idempotency key of a revision.
KnownRun(rev) == SelectInSeq(runs, LAMBDA r : r.there /\ r.key = rev)

\* run_workflow_impl and engine.run up to the run row: a configuration that
\* cannot be resolved is a result without a run, a known key returns its run
\* when the request is the same.
CreateRun(c) ==
    LET my  == call[c]
        old == KnownRun(my.rev)
        result(s) == Goto(c, [my EXCEPT !.pc = "record", !.run = 0, !.run_st = s])
    IN
    /\ my.pc = "create"
    /\ \/ result("failed") /\ UNCHANGED runs /\ Quiet
       \/ /\ old # 0
          /\ IF runs[old].text # my.text THEN result("failed")
             ELSE Goto(c, [my EXCEPT !.pc = "lease", !.run = old])
          /\ UNCHANGED runs /\ Quiet
       \/ /\ old = 0
          /\ IF ~item.there THEN End(c) /\ UNCHANGED runs /\ Quiet
             ELSE /\ runs' = Append(runs, [there |-> TRUE, key |-> my.rev, text |-> my.text,
                                           status |-> "pending", owner |-> NoClient])
                  /\ Goto(c, [my EXCEPT !.pc = "lease", !.run = Len(runs) + 1])
                  /\ Record(c)
    /\ UNCHANGED <<item, turns, links, ops, crashes>>

(***************************************************************************)
(* The engine, as far as the items depend on it.                           *)
(***************************************************************************)
Result(c, s) == Goto(c, [call[c] EXCEPT !.pc = "record", !.run_st = s])
Take(c, r, s) == runs' = [runs EXCEPT ![r].status = s, ![r].owner = IF s = "running" THEN c ELSE NoClient]

\* From here on the call executes the run, even that of an archived item.
Execution(c) ==
    /\ Goto(c, [call[c] EXCEPT !.pc = "execute"])
    /\ outdated' = Clients \ {c}
    /\ anomaly' = anomaly \cup (IF c \in outdated THEN {"overtaken"} ELSE {})
                          \cup (IF item.status = "archived" THEN {"archived run"} ELSE {})

\* engine.run from the lease on: a terminal run answers, a busy one answers
\* 'running', a cancelled one is finalised, a parked one needs the decision
\* the operation brought, the others execute.
Lease(c) ==
    LET my == call[c]
        s  == StatusOf(my.run)
    IN
    /\ my.pc = "lease"
    /\ \/ /\ s \in Terminal \cup {"none"}
          /\ IF s = "none" THEN End(c) ELSE Result(c, s)
          /\ UNCHANGED runs /\ Quiet
       \/ /\ s \notin Terminal \cup {"none"}
          /\ runs[my.run].owner # NoClient
          /\ Result(c, "running") /\ UNCHANGED runs /\ Quiet
       \/ /\ s = "cancelling" /\ runs[my.run].owner = NoClient
          /\ Take(c, my.run, "cancelled") /\ Result(c, "cancelled") /\ Quiet
       \/ /\ s \in Parked /\ my.op \notin {"reconcile", "reconcile_only"}
          /\ Result(c, s) /\ UNCHANGED runs /\ Quiet
       \/ /\ s \in Parked /\ my.op \in {"reconcile", "reconcile_only"}
          /\ \E t \in {"failed", "approved"} \cup (IF s = "awaiting" THEN {"running"} ELSE {}) :
                /\ Take(c, my.run, t)
                /\ IF t = "running"
                   THEN Execution(c)
                   ELSE Result(c, t) /\ Record(c)
       \/ /\ s \in {"pending", "running", "interrupted"}
          /\ runs[my.run].owner = NoClient
          /\ Take(c, my.run, "running")
          /\ Execution(c)
    /\ UNCHANGED <<item, turns, links, ops, crashes>>

\* The run ends: with a verdict, parked for a person, or cancelled.
Execute(c) ==
    LET my == call[c] IN
    /\ my.pc = "execute"
    /\ IF ~runs[my.run].there THEN End(c) /\ UNCHANGED runs
       ELSE \E t \in (IF runs[my.run].status = "cancelling" THEN {"cancelled"}
                      ELSE {"approved", "needs_changes", "failed"} \cup Parked) :
               Take(c, my.run, t) /\ Result(c, t)
    /\ UNCHANGED <<item, turns, links, ops, crashes>> /\ Quiet

\* record_result: links and reports whatever run the operation started from.
RecordResult(c) ==
    LET my == call[c] IN
    /\ my.pc = "record"
    /\ IF ~item.there \/ (my.run # 0 /\ ~runs[my.run].there)
       THEN End(c) /\ UNCHANGED <<item, turns, links>> /\ Quiet
       ELSE /\ LinkRun(my.run)
            /\ item' = [item EXCEPT !.run = IF my.run = 0 THEN @ ELSE my.run,
                                    !.status = ItemStatusOf(my.run_st)]
            /\ Again(c, "get") /\ Record(c)
    /\ UNCHANGED <<runs, ops, crashes>>

(***************************************************************************)
(* Decisions.                                                              *)
(***************************************************************************)
\* settle: resume, finish a cancellation, or take the only decision there is.
Settle(c) ==
    LET my == call[c]
        action == Resolution(my.run_st)
    IN
    /\ my.pc = "act" /\ my.op = "settle" /\ action # "none"
    /\ CASE action = "resume"          -> Goto(c, [my EXCEPT !.pc = "lease"])
         [] action = "finalize_cancel" -> Again(c, "cancel")
         [] action = "reconcile"       -> Again(c, "reconcile_only")
    /\ UNCHANGED <<item, turns, links, runs, ops, crashes>> /\ Quiet

\* reconcile: a person's decision, or the only one, carried by engine.run.
Reconcile(c) ==
    /\ call[c].pc = "act" /\ call[c].op \in {"reconcile", "reconcile_only"}
    /\ call[c].run # 0
    /\ Goto(c, [call[c] EXCEPT !.pc = "lease"])
    /\ UNCHANGED <<item, turns, links, runs, ops, crashes>> /\ Quiet

\* cancel: request_cancel on the run; without a live owner it is final.
Cancel(c) ==
    LET my == call[c]
        s  == StatusOf(my.run)
        t  == IF s \in Terminal THEN s
              ELSE IF s = "pending" \/ runs[my.run].owner = NoClient THEN "cancelled"
              ELSE "cancelling"
    IN
    /\ my.pc = "act" /\ my.op = "cancel" /\ my.run # 0
    /\ IF s = "none" THEN End(c) /\ UNCHANGED runs
       ELSE runs' = [runs EXCEPT ![my.run].status = t] /\ Result(c, t)
    /\ UNCHANGED <<item, turns, links, ops, crashes>> /\ Quiet

(***************************************************************************)
(* The archive.                                                            *)
(***************************************************************************)
\* archive: the event remembers the status that was read.
Archive(c) ==
    LET my == call[c] IN
    /\ my.pc = "act" /\ my.op = "archive" /\ CanArchive(my.st) /\ my.st # "archived"
    /\ item' = IF item.there
               THEN [item EXCEPT !.status = "archived", !.hidden = TRUE, !.shelved = my.st]
               ELSE item
    /\ Again(c, "get") /\ Redirect(c)
    /\ UNCHANGED <<turns, links, runs, ops, crashes>>

\* restore: back to the status of the last archived event.
Restore(c) ==
    LET my == call[c] IN
    /\ my.pc = "act" /\ my.op = "restore" /\ my.st = "archived"
    /\ item' = [item EXCEPT !.status = item.shelved, !.hidden = FALSE]
    /\ Again(c, "get") /\ Redirect(c)
    /\ UNCHANGED <<turns, links, runs, ops, crashes>>

\* delete: the item, its turns and links, and every run of its own.
Delete(c) ==
    LET my == call[c] IN
    /\ my.pc = "act" /\ my.op = "delete" /\ my.st = "archived"
    /\ item' = [item EXCEPT !.there = FALSE]
    /\ turns' = <<>> /\ links' = <<>>
    /\ runs' = [r \in DOMAIN runs |-> [runs[r] EXCEPT !.there = FALSE, !.owner = NoClient]]
    /\ End(c) /\ Redirect(c)
    /\ UNCHANGED <<ops, crashes>>

\* A client's process dies; the lease of the run it executed lapses.  A death
\* before the first write leaves what a refusal leaves.
Crash(c) ==
    /\ call[c].pc \in {"create", "lease", "execute", "record"} /\ crashes < MaxCrashes
    /\ crashes' = crashes + 1
    /\ runs' = [r \in DOMAIN runs |->
                  IF runs[r].owner = c THEN [runs[r] EXCEPT !.owner = NoClient] ELSE runs[r]]
    /\ anomaly' = anomaly \cup (IF call[c].pc = "create" \/ (call[c].pc = "record" /\ call[c].run = 0)
                          THEN {"crash before run"} ELSE {})
    /\ End(c)
    /\ UNCHANGED <<item, turns, links, ops, outdated>>

Step(c) ==
    \/ SettleAll(c) \/ Read(c) \/ Sync(c) \/ Refused(c)
    \/ Continue(c) \/ Update(c) \/ Start(c) \/ Restart(c) \/ MarkStarted(c)
    \/ CreateRun(c) \/ Lease(c) \/ Execute(c) \/ RecordResult(c)
    \/ Settle(c) \/ Reconcile(c) \/ Cancel(c)
    \/ Archive(c) \/ Restore(c) \/ Delete(c)
Next == \E c \in Clients :
    \/ Create(c) \/ (\E op \in Operations : Begin(c, op)) \/ Step(c) \/ Crash(c)

Spec == Init /\ [][Next]_vars

(***************************************************************************)
(* Properties.                                                             *)
(***************************************************************************)
TypeOK ==
    /\ item \in [there : BOOLEAN, status : ItemStatus, rev : Nat \ {0},
                 run : 0..Len(runs), hidden : BOOLEAN, text : 0..MaxOps,
                 shelved : ItemStatus \cup {"none"}]
    /\ \A i \in DOMAIN turns : turns[i] \in [rev : Nat \ {0}, run : 0..Len(runs)]
    /\ \A i \in DOMAIN links : links[i] \in DOMAIN runs
    /\ \A r \in DOMAIN runs :
          runs[r] \in [there : BOOLEAN, key : Nat \ {0}, text : 0..MaxOps,
                       status : RunStatus, owner : Clients \cup {NoClient}]
    /\ ops \in 0..MaxOps /\ crashes \in 0..MaxCrashes
    /\ anomaly \subseteq {"overtaken", "archived run", "crash before run"}

\* However clients retry, restart and race, one revision of an item is never
\* executed by two runs (create_run_with_input behind every start).
OneRunPerRevision ==
    \A r, s \in DOMAIN runs :
        runs[r].there /\ runs[s].there /\ runs[r].key = runs[s].key => r = s

\* Unless a client wrote on outdated knowledge, the run an item reports is the
\* one that executes its current text, and a turn's run is its revision's.
ReportsWhatItAsked ==
    "overtaken" \notin anomaly =>
        /\ item.there /\ item.run # 0 =>
              runs[item.run].key = item.rev /\ runs[item.run].text = item.text
        /\ \A i \in DOMAIN turns :
              turns[i].run # 0 => runs[turns[i].run].key = turns[i].rev

\* What executes is visible: a process works only for the current revision of
\* an item that exists and is not archived, so one run at a time.
ExecutingIsCurrent ==
    anomaly = {} =>
        \A r \in DOMAIN runs : runs[r].owner # NoClient =>
            item.there /\ item.status # "archived" /\ runs[r].key = item.rev

\* Items and runs match: each revision has its run, and only what the item
\* shows is executed.
RunsMatchItems == TypeOK /\ OneRunPerRevision /\ ExecutingIsCurrent

\* Every operation a facade is offered for an item (_allowed_actions, on the
\* status reflected by the public read) is one its service method accepts.
\* Cancelling waits for the run while a start is on its way.
Accepts(a, st, s, r) ==
    CASE a = "start"     -> Resolution(s) # "none" \/ CanRestart(st, s)
                            \/ (CanLaunch(st) /\ st \notin {"failed", "cancelled", "needs_attention"})
      [] a = "continue"  -> CanContinue(st, s)
      [] a = "archive"   -> CanArchive(st)
      [] a = "reconcile" -> r # 0
      [] a = "cancel"    -> r # 0 \/ \E c \in Clients : call[c].pc \in {"create", "record"}
      [] OTHER           -> st = "archived"
OfferedIsAccepted ==
    item.there /\ anomaly = {} =>
        LET r  == RunOf(item)
            s  == StatusOf(r)
            st == IF s = "none" \/ item.status = "archived" THEN item.status
                  ELSE ItemStatusOf(s)
        IN \A a \in AllowedActions(st, s) : Accepts(a, st, s, r)

\* An automatic settlement takes a decision that has an alternative.
Chooses(c) ==
    /\ call[c].pc = "lease" /\ call[c].op = "reconcile_only"
    /\ call'[c].pc \notin {"lease", "idle"}
    /\ runs[call[c].run].status = "awaiting" /\ runs'[call[c].run].status # "awaiting"

\* An automatic settlement never takes a decision that has an alternative,
\* though it reads the item and its run three times on the way (settle,
\* reconcile, engine.run), unless the item was redirected in between.
SettleNeverChooses ==
    [][\A c \in Clients : "overtaken" \notin anomaly \cup anomaly' => ~Chooses(c)]_vars

\* Archiving is reversible: what carries archived_at, and is therefore left
\* out of the lists, can be restored or deleted (restore, delete).
HiddenCanBeRestored == item.there /\ item.hidden => item.status = "archived"

\* A running item has a run, or a start that is about to create it, so it can
\* be cancelled, started again, edited or archived some day (start).
NoPhantomRunning ==
    item.there /\ item.status = "running" =>
        RunOf(item) # 0 \/ \E c \in Clients : call[c].pc \in {"create", "record"}

\* Every run of an item is the run of one of its turns (work_item_turns).
RunsHaveTurns ==
    \A i \in DOMAIN links : \E t \in DOMAIN turns : turns[t].run = links[i]

-----------------------------------------------------------------------------
(* What settle promises, whoever redirects the item meanwhile: "Apply only a *)
(* recovery decision that has no meaningful alternative" (work_items.py).    *)
(* It does not hold: the action chosen for one run is carried to the run     *)
(* that reconcile then finds.                                                *)

SettlesOnlyTheForced == [][\A c \in Clients : ~Chooses(c)]_vars
=============================================================================
