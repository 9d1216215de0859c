# A TLA+ model of Baldr Router

Baldr Router runs a multi-phase coding workflow (architect, implementer,
reviewer, fix rounds) on top of external provider processes.  What makes the
program hard is not any one phase but that a run is *durable*: it survives
crashes, is resumed by other processes, is cancelled by people while it works,
is reclassified by a recovery pass that runs in yet another process, and
changes files that must not be lost, repeated or published unreviewed.  Around
that core are work items that people edit while runs execute, a catalogue of
external agents that several operators administer, a runner that executes such
an agent at most once, a console, and the housekeeping of everything a run leaves
behind.  This directory models these parts, checks them with TLC and proves with
TLAPS, for any number of processes, steps, participants and attempts, what matters
most about the run store, the engine and what is shown of it, its workspaces and their
publication, a phase, work items, the catalogue of agents, the agent runner and the
housekeeping.

Paths below are relative to `src/router/src/baldr_router/` unless they say more.

## 1. Inventory

| Component | State it keeps | Operations | Talks to | Hard because | Module |
|---|---|---|---|---|---|
| **Durable store** `durability/state.py, store*.py` | SQLite rows: run, steps, participants, attempts, lease (owner, epoch, expiry), checkpoints | create, transition, lease, heartbeat, cancel, reset, accept, classify | every process | every operation is one `BEGIN IMMEDIATE` transaction, but callers of any age present tokens in any order | `RunStore` |
| **Workflow engine** `durability/engine.py, engine_snapshot.py, heartbeat.py` | a Python call stack; everything durable is in the store and the workspace | `run`, `request_cancel`, the phases, eight operator decisions | store, workspace, providers | state is read, then used many transactions later; errors are caught at five levels | `DurableEngine`, `PhaseExecution` |
| **Recovery** `durability/recovery.py, store_maintenance.py` | none of its own | `recover_stale_runs`, `stale_runs` | store | scan and acquisition are two transactions; it may die as well | `DurableEngine` |
| **Workspaces** `durability/git_workspace.py, shadow_workspace.py` | execution tree, shadow control state, Git worktree and commits, the original workspace | prepare, checkpoint, restore, publish, discard, clean up | store, file system | file effects happen between two lease checks, never under one | `DurableEngine`, `ShadowPublication` |
| **Publication journal** `durability/store_publications.py` | cursor, in-flight ordinal, status | create, set in flight, advance, mark | shadow workspace's file journal | two journals of one effect | `ShadowPublication` |
| **Phase reducers, teams, profiles** `durability/reducers.py, team_resolution.py, execution_profiles.py` | none | plan, reduce | engine | quorum, first success, votes of participants from several calls | `PhaseExecution` |
| **Retention and collection** `durability/store_maintenance.py, store_artifacts.py` | copies, artifact files, runs | maintain, collect, store | engine, disk | collection while another process works | `Retention`, `Artifacts` |
| **Provider sessions** `durability/store_execution.py` | session rows with turns and expiry | look up, save, invalidate | engine, providers | shared by the runs of a workspace | `Sessions` |
| **Evidence** `durability/evidence.py` | bundle directories | export | store, disk | partial exports, reuse by name | `Evidence` |
| **Phase deliverables** `phase_deliverables.py` | public reports of phases | materialize, backfill, page | engine, console | pages of a list that changes | `Deliverables`, `PhaseExecution` |
| **Work items** `work_items.py` | conversations, revisions, links to runs | start, continue, edit, settle, cancel, archive, restore, delete | engine, recovery | reads, decides, and writes later without looking again | `WorkItems` |
| **Work-item progress** `work_item_progress.py` | none: a view of a run's rows | project stages | store | several rounds of a stage, interrupted ones among them | `WorkItemProgress` |
| **Agents** `agent_registry.py, agent_sync.py, agent_sources.py, agent_manager*.py, agent_gateway.py` | manager catalogue, local registry, synchronisation bindings | publish, enable, disable, revoke, remove, sync, resolve | file system, network | locks that can be broken, two files written one after the other | `Agents` |
| **Agent runner** `../../../runtimes/agent-runner/` | jobs database, the agent's process | invoke, wait, cancel | router connector | retries, signals, two processes that settle one job | `AgentRunner` |
| **Console, preferences, trust** `console_service.py, workspace_policy.py, config.py` | config.toml, preferences, cached catalogues, start slots | compose, decide, trust, pin | work items, agents | threads and a CLI over one file without a lock | `Console` |
| **Providers** `codex*.py, kiro_cli.py, claude_cli.py, provider_registry.py, process_control.py` | child processes, app-server sessions | run, terminate | engine | they outlive what started them; one app-server session serves the runs of a workspace | `AppServer`, `Sessions`; external to `DurableEngine`, `PhaseExecution` |
| **Schema, identity, prompts** | schema version | migrate, fingerprint | store | one-shot or pure | – |
| **Validation, qualification, lab, launcher, facades** | their own files | – | public intents | outside the program's run | – |

What must hold, component by component: an epoch belongs to one process and only
the newest can write (store); attempts are an append-only history and late answers
are dropped (store); a write in doubt is never repeated without a decision (engine,
recovery); the original workspace changes only after an approving review or an
operator's order, and an approved run left there exactly what was reviewed (engine,
workspace); a publication is complete when it says so (workspace); consent precedes
the first write; a cancelled run is never completed; a run does not stay under way
for ever; the attempt budget holds and a verdict rests on the answers that are
stored (phase); one revision has one run and an automatic settlement takes no
decision for a person (work items); a registry that was written can be read and a
reference never changes its content (agents); an agent is started once and a write
of unknown outcome is called unknown (runner); nothing that is needed is collected
(housekeeping); protection is not consent and slots come back (console).

## 2. Plan

1. `RunStore` – the store under arbitrary clients, with its proofs. *Done.*
2. `DurableEngine` – engine, recovery, cancellation, workspaces and providers
   composed over `RunStore`. *Done, for one profile per phase*; `WorkItemProgress`
   shows a person the stages of such a run. *Done.*
3. `ShadowPublication` – the two publication journals, guarded operations, a person
   who edits, crash and retry.  *Done.*
4. `PhaseExecution` – several participants per phase, composed over `RunStore`.
   *Done.*
5. `WorkItems`, `Agents`, `AgentRunner`, `Console`. *Done.*
6. `Housekeeping`, composed of `Retention`, `Artifacts`, `Sessions`, `AppServer`,
   `Evidence` and `Deliverables`. *Done.*
7. Proofs: `RunStoreProofs`, `DurableEngineProofs` (which begins with the engine as
   an implementation of the store), `PublicationProofs`, `PhaseProofs`,
   `WorkItemsProofs`, `AgentsProofs`, `ServiceProofs` (the agent runner and the console),
   `HousekeepingProofs`.
   *Done for the properties named in section 14.*
8. An abstract publication (each path is as it was or as it was approved, and no
   foreign edit is overwritten) that `ShadowPublication` implements. *Open.*
9. Provider processes: `AppServer` has the app-server sessions that runs share, and
   what the heartbeat of another run does to them. *Done for Codex*; the adapters of
   Kiro and Claude start a process per call, which the engine has as external.

Every invariant that a passing run checks is a theorem, and so is every action property;
liveness stays with TLC.

## 3. RunStore

Every store operation is a single SQLite transaction, so each is one action.
Its guard is the conjunction of `_assert_fence`, the row lookups and
`assert_transition`; when the guard is false the code raises and the transaction
rolls back, which is the absence of a step.

| Model | Code |
|---|---|
| `status`, `cancel`, `recon` | `workflow_runs.status`, `cancel_requested_at`, `reconciliation_json` |
| `lease` | `lease_owner`, `lease_epoch`, and whether `lease_expires_at` is in the future |
| `issued` | the `LeaseToken`s that `acquire_lease` returned and some process may still hold |
| `step`, `part` | `workflow_steps.status`, `step_participants.status`; `"absent"` before the row exists |
| `att` | `step_attempts` of a participant in order, each with its status and epoch |
| `Legal`, the three tables | `assert_transition` and the tables of `state.py` |

Clients are not modelled: **any** issued token may be presented at any moment,
in any order, with any argument.  That covers zombies, recovery, operators and
cancel requests at once.  The data abstracted away: artifacts, events, error
texts, timestamps other than the lease expiry, attempt idempotency keys (a caller
always asks for attempt count + 1, so `create_attempt` always creates).  One
thing follows the code against expectation: `heartbeat` does not compare the
expiry, so it revives an expired lease that nobody took.

## 4. DurableEngine

A *call* is one invocation of `run()` (`RunCalls`: submission, resume or
operator decision), `recover_stale_runs()` (`RecoveryCalls`) or
`request_cancel()` (`CancelCalls`), each in a process of its own.  `call[c].pc`
is where it is; every store transaction and every file-system effect is an action
of its own, so calls interleave at each.  An action that writes the store *is*
the `RunStore` operation with the call's token (`Store == INSTANCE RunStore`):
there is no second copy of the store's rules.

* **Preparation** (`PrepareWorkspace`, `CopyWorkspace`, `RecordWorkspace`,
  `OpenWorkspace`): the row that announces a protected copy, the copy, the row that
  completes it.  Any of them may fail, which parks the run, and a crash or a lost
  lease in between leaves an announced copy that is not there.
* **Entering** (`Submit`, `Enter`, `Branch`): the terminal check of a resume,
  then `acquire_lease`, then the branch on the status – three separate moments,
  as in `run()`.  `running`, `finalizing` and terminal statuses fall through to
  execution, as they do in the code.
* **Decisions** (`Decide` and the actions after it): `reconciliation_status`
  determines what is `Allowed`; restore, accept, discard, apply and mark-failed
  are sequences of lease check, file effect and store writes, with the lease
  check and the file effect apart.
* **Run-row transitions** are a table (`RunMoves`): for each point of the engine,
  the target, the reconciliation it writes and where the call goes on.  A
  transition that has become illegal (only an unfenced cancel request or a run
  that had already ended makes it so) goes to `_engine_failure_result`
  (`"broken"`), or is swallowed where the code swallows it (`LastResort`).
* **Phases** (`Settle` … `SucceedStep`): replay, refuse, reset or materialize a
  step; two transactions to `running`; participant; attempt; provider; result of
  attempt, then of participant; reduce; workspace checkpoint, then its row; step.
  Steps are numbered: 1 the architect, even ones write, odd ones review.
* **Providers** are external: a writer's process may add its effect to the tree
  while the call waits, answers are drawn from `Answering`.  A review or the
  architect does not write (the read-only sandbox is assumed).  With `Lingering`
  a provider may still write after its lease was taken over, until the heartbeat
  kills it.
* **Workspaces** are sets of effects `<<step, attempt>>`: `tree` (execution root),
  `head` (checkpoint manifest of a shadow, HEAD of a worktree), `ckpt` (the
  store's checkpoint row), `orig` (the original) and `pub` (publication row and
  file journal).
* **Publication** (`BeginPublish` … `CleanUp`): for a shadow the journal is bound
  to one manifest, each operation is announced under the fence and may be the
  last before a crash; for a worktree one `git apply` between two lease checks,
  recognised when repeated by the reverse check; in place there is nothing to do.
  A person's edits show up as a conflict at any preflight.
* **Recovery** (`RecoverScan` … `RecoverSteps`, `RecoveredAs`) and
  **cancellation** (`RequestCancel`, `CancelAcquire`, `FinishCancel`).
* **Faults**: `Crash(c)` anywhere, `LeaseExpires` at any time, `Lost(c)` – a fence
  that rejects the caller, after which it leaves without writing.

Abstractions to know of: one profile per phase, so a step is its participant
(phases of several are in `PhaseExecution`); `Mode`, the isolation of the workspace, is a constant;
the operations of a shadow's publication, which `ShadowPublication` takes apart; sessions;
`publish_worktree_changes = false`, the provider-isolation refusal
before the first phase, and the legacy write-policy replay of the architect are
configuration paths left out; `allow_non_git` runs in place behave as `"in-place"`.
A worktree's removal and reconstruction by a restore are one step.

## 5. ShadowPublication

`DurableEngine` treats a shadow's publication as a few effects on sets.  This module
takes it apart: one checkpoint, the original folder path by path, the person who
keeps working there, and processes that take the lease from each other in the
middle of `publish` or decide to `discard`.

| Model | Code |
|---|---|
| `plan` | base and checkpoint manifest, and the paths `scan_workspace` leaves out (`hidden`) |
| `orig`, `author` | the original workspace; who last changed each path (read by properties only) |
| `journal.status, pub, count, active` | `status`, `publication.status`, `completed_count`, `active_operation` of `control/state.json` |
| `shadow` | what that file holds when a discard wrote it or removed it, what each discard has read of it, and whether a publisher went on from an older document (read by properties only) |
| `journal.moved` | the guard of the active operation, as what differs from it now: the entry or one of its parents by identity or content, or only the metadata of the parents |
| `row` | `workspace_publications`: status, `next_ordinal`, `inflight_ordinal` (-1 for NULL) |
| `owner`, `lock` | the lease; the OS lock of `_publication_lock` |
| `call[c]` | a process: where it is, the manifest it scanned, the operations it is past |

Three things are assumed of a plan.  What the scan leaves out is in neither manifest,
because one policy scans both.  A manifest is a tree (`TreesAssumption`): what is in it is
in directories that are in it, because the scan leaves a directory out with all that is
inside.  And `File("user")`, what the person writes from now on,
is not what base or checkpoint hold; a person who writes the very bytes of the plan
is nobody whose work could be lost.

A path is a number, in the order of path names; an entry is a kind and its data
(contents of a file, mode of a directory).  `Operations` and `Before` are the four
loops of `_apply` and their sort keys; the actions from `SkipOperation` to
`AdvanceCursor` are one turn of a loop, cut at each write of `state.json`, each
transaction and each effect on disk: `_operation_start`, its observer, the guard
and the effect (for a file: staging, second guard, `os.replace`),
`_operation_complete`, its observer.  `BlockOperation`, `RefuseOperation`,
`JournalMismatch`, `GuardFails` and `RmdirFails` are the ways out, which differ in
what they record.  `Leave` drops the OS lock, as the death of a process does.

Abstractions to know of.  Validating a guard and the effect after it are one step:
nothing in the program closes the gap between a `stat` and a `rename`, and no
property claims more.  An entry that was created and deleted again still counts as
moved.  The mode of the root, symbolic links, pruning, `clear_workspace_publication_inflight`
and `rollback` (which no engine path calls) are left out.

A discard takes no lock and is cut where the code is: it asks for its lease
(`CheckDiscard`), reads and judges `state.json` (`ReadDiscard`, `RefuseDiscard`), writes
back what it read with the status `discarded` (`MarkDiscarded`), and removes the tree
(`RemoveShadow`).  Between any two of these the lease may go to a publisher that starts to
apply.  The file is then no longer what the publishers wrote, and the model keeps the two
apart: `journal` is the state that the publishers carry in memory and write, `shadow.is`
says whether the file holds that (`"current"`), the document of a discard (`shadow.doc`,
`"discarded"`), or is removed with the copy.  `StateFile` is what a reader finds; the
publishers read it where `publish` does (`ScanOriginal`, `RecordConflict`, the last write
of `Finish`), and every write of theirs replaces the whole document (`Write`).  A publisher
that takes up a document older than its predecessor's is `astray`, and so is what it
writes from then on; `JournalsAgree` and `EffectsAreAnnounced` say what still holds then:
the row, which is fenced, is ahead of the file.

`DiscardStrandsNothing` has two parts: a discard that has its lease when it marks or
removes destroys nothing of which a part is in the original, and a discard that judges
the latest document judges rightly even if its lease is gone.  What is left is a real gap,
and `LateDiscardStrandsNothing` of section 15 states it.

Two limits that follow the code against expectation: a directory outside the
delta that the person deletes during the publication is created again by the
`mkdir` loop (the exception in `TheirsIsKept`), and a row that is `published`
ignores every later observation.

## 6. WorkItemProgress

The stages a console shows are a function of the run's rows, so the module extends
`DurableEngine` with definitions and no state: `Rows`, `Recorded` and `Overall` are what
the projection takes from the rows, `StageStates` and `ActiveStage` what
`work_item_progress.py` makes of it.  `ApprovedIsShownWhole` relates them to the engine: an
approved run, whatever rounds were repeated, interrupted or doubted on the way,
shows every stage as completed.  Narrative, milestones and the final report are
presentation and left out.  A run that ended while an admitted call executes again
(`engine.py:593`) can show a running stage under a terminal status; the property is
about approved runs only.

## 7. PhaseExecution

One phase of a run executed by several participants, again over `RunStore`.  The
plan (profiles, strategy, quorum, preset, team) is frozen by `Submit` from role
configurations, execution presets and team modes, as `_snapshot` does.  A call
prepares participants, counts the budget, and dispatches in parallel threads
(`work[c][p]`) or one after the other; `Work(c, p)` is a thread's next transaction,
`Wait`, `Abort`, `Drop`, `Serial` and `Serve` the loops around the futures, `Decide`
to `Deliver` the reduction, the step and its deliverable.  A cancel request, a lost
lease, a crash and `Recover` fall between any two of them; `BackfillScan` and
`BackfillWrite` are `ensure_work_item_deliverables` of a reader.

Abstractions: the phase reads (writing phases are in `DurableEngine`, and the code
refuses several writers); `StartProvider` merges the participant's transition, the
heartbeat's start and the spawn; `Recover` is one action, as its interleavings are in
`DurableEngine`; a crash after a cancel request is explored beyond the bound on
troubles, so that cancellation and crash meet.

## 8. WorkItems

One item, its turns, links and runs.  Every operation of the facade reads the item
(`Read`, with `Sync`, the reflection of the run's status), decides on what it read,
and writes in a later transaction; other clients come in between.  `CreateRun` is
`create_run_with_input` with its idempotency key, `Lease` and `Execute` are the
engine reduced to statuses, `RecordResult` what follows it.  `Settle` and `Reconcile`
are the automatic decisions: a settlement chooses its action for the run it read,
`reconcile` reads the item again and applies that action to the run it then finds.  A
`Crash` may hit a client anywhere, and `outdated` and `anomaly` are history variables:
they note that a client wrote on knowledge another client had redirected
(`"overtaken"`), or that something else irregular happened to the item.
`ReportsWhatItAsked`, `SettleNeverChooses` and the executing part of `RunsMatchItems`
hold but for such clients, which is how far the code goes: nothing in its writes looks
at the row again.  What a settlement does to a redirected item is in section 15
(`SettlesOnlyTheForced`).

## 9. Agents

`manager` is the service's table, `local` the registry file, `binding` the file of
the synchronisation, `lock` the lock directories of both files.  A client takes a
lock, reads, writes and releases in separate steps; `FindOldLock` and `BreakLock`
break what looks abandoned.  Two clients may both find a lock old; the one that removes
the directory second removes the lock which the first has made in the meantime.
`stolen` is a history variable of the files whose lock was taken from a living process
in this way, and `ever` of the contents a reference had: `RegistriesAreSound` and
`SyncIsCareful` claim that a reference keeps its content and its revocation while
`"registry"` is not stolen, and everything else in any case.  A remote request is asked, served, recorded and answered
in steps, so that a revocation can fall between the read and the write of an enable.
A synchronisation holds its own lock around discovery, plan, registry mutation and
its own file; sources are the manager, Kiro files and a repository, each of which may
be partial.  One durable run pins a digest (`Bind`, `Activate`) and invokes through
the gateway.  Signatures, transport and manifest validation are data and left out.

Removal, revocation and withdrawal look for active runs before they take the lock of
the registry, so the row of a run may come in between.  `met` is a history of the run:
the clients that decided (`Meets`) while its row was there.  `UsedVersionsStay` says
that none of *these* takes its version away, whatever the others change between its
look and its write; who looked earlier does (`UsedVersionsAreKept`, section 15), and the
run then fails at its next dispatch.  `SyncLock` is coarser than the code in
one respect: what `agent_sync.py:486-492` reads of the registry's file in four places,
without its lock, it reads at one instant.  A mixture of two documents can make a worse
plan, and nothing else: the change itself is made on the document that is read under the
lock, where `reconcile` checks it again.

## 10. AgentRunner

One job: `job` is its row, `at[p]` where a runner process is, `child[r]` the agent's
process (it is in a session of its own and outlives its runner), `answer` what each
caller was told.  Every read, `UPDATE` and signal is a step.  `BeginFirst` and
`BeginAgain` are `store.begin`; `Spawn` to `StoreRaised` the invocation;
`DeclareLost` and `StopWaiting` `_wait_for_existing`; `CancelRead`, `CancelStore`
and `CancelSignal` a cancellation.  An agent may say anything that the contract admits
(`Answers`: four states, and whether the error may be retried) at any time, also after
it was told to end (`Ends`): the SDK's answer to SIGTERM is `cancelled`, to be retried,
for a writing job too.  `Reported` stores what it said (`said`) as it is.  `UncertainWriteIsUnknown` separates
this from what the runner and the store conclude by themselves: what is kept of a write is
the agent's own word, or its failure to say any, or unknown.  That the agent's word
about a write may be `cancelled` is in section 15 (`CancelledWriteIsUnknown`).  `Term` has the handler that deadlocks on the
non-reentrant lock its thread holds (`runner.py:580`): such a runner is `stuck` until
the connector's `Kill`.

## 11. Console

Request threads with a chain of steps (`at`) over config.toml, the preferences and
the memoised catalogues.  A save of the file is load, truncate, fill without a lock;
a torn file reads as the defaults, and what a reader saves from it replaces the file.
`Fill` writes the whole file at once: a file mixed from two `write_text` calls that
interleave (`config.py:566`) is left out.
A catalogue is built outside the cache's lock.  A start takes a slot of the semaphore
without waiting and its worker gives it back; `lost` counts the slots that
exceptions outside the `except` clauses of `_compose` keep.

## 12. Housekeeping

`Retention`: allocation, publication and removal of one protected copy by an engine
process that may stall as a zombie whose file work is not fenced, against two
maintenance processes.  `Artifacts`: content-addressed files shared by rows.
`Sessions`: look up, turn, save, for the four ways of running a provider (`runner`).
`AppServer`: the calls of several runs in one router process that share a session of
the app-server (`cache` is the entry of `_SESSIONS`, `procs` the processes and the
turns they still work on) or a thread of the SDK.  The two locks of
`run_codex_app_server` are `Creating` and `Turning`; between `GiveUp` or a bad
`TurnCompleted` and `Drop` neither is held, and `EndedWithRun` is the heartbeat of the
run that started the process.  `Evidence`: two exporters of one run, whose
snapshot reads in no transaction.  `Deliverables`: a console's pages against steps
that end, are retried and are collected; its runs have fixed ordinals, the order in
which they were created.  No operation of one reads or writes state
of another, so `Housekeeping` composes them by a `scope`: a behaviour exercises one.

Known edges: `AnswersStayWithTheirCall` excepts the moment between a failed turn and
the removal of its session, in which a waiting call can hear the end of the turn that
was given up; what is removed then is whatever session the key has by that time, so a
newer one may be closed under its users, and a process whose `initialize` failed is
closed by nobody.  A copy's directory without `state.json` is retained for ever
(`RunsOutliveTheirCopies` is about copies that can be opened), and so is one whose
journal stayed at `preflight-complete` when the run was marked failed.  An index is
read in pages by the place of a row among the rows, and rows that are missing are copied
by the place of their step among the ended steps.  The two places agree as long as
nothing happens within a request and no step that an uncopied one precedes stops being
ended between two of them (`MovesUp`): `ReadersSeeOneDocument` claims a complete index
for sessions that were `calm` in this sense.  Otherwise an entry may repeat
(`phase_deliverables.py:962`) or be left out.

## 13. Runs

All bounds are constants of the `.cfg` files.  `MaxEpoch` bounds takeovers,
`MaxTotalAttempts` and `MaxTotal` *are* the code's attempt budget; `MaxOps`,
`MaxCrashes`, `MaxDeaths`, `MaxFaults`, `MaxTroubles`, `MaxEdits`, `MaxTime` bound
what the environment does.  Deadlock is checked for the console, whose clock or
world always has a step, and nowhere else: a run that ended, a process that
published, a client out of operations has nothing left to do.  Symmetry permutes
processes (and digests) that no definition distinguishes, and is not used with
liveness.

| Run | What it shows | Instance | States |
|---|---|---|---|
| `RunStore` | fencing, attempt history and settled work under arbitrary clients | 2 owners, 3 epochs, 1 step, 2 attempts; `FewStatuses` keeps the statuses that operations tell apart | 174 k |
| `Shadow` | protection of the original, what approval means, decisions on doubt, clean starts, with a preparation that may fail or be cut short | 2 `run` calls, recovery, 3 epochs, 4 attempts, answers good and bad | 613 k |
| `Cancel` | the run is sound and implements `RunStore` under a cancel request; consent precedes writing | 1 call, recovery, 1 cancel, 1 crash, lingering providers, answers that ask to write | 98 k |
| `Settles` | every run under way is ended, parked or reclassified; approval is shown whole | 2 calls, 2 recoveries, 1 crash, 1 fix round, 5 attempts, 4 epochs | 253 k |
| `Publication` | the two journals tell the truth, a person's work is kept, a discard with its lease strands nothing, `published` means applied | 3 processes, 3 paths (a directory, a file in it, a file), 5 deltas, 1 edit, 1 crash | 606 k |
| `WorkItems` | items and runs match; reports; offers; settlements | 2 clients, 4 operations, 1 death | 2.5 M |
| `Agents` | registry, manager and audit agree; used versions stay; careful synchronisation | 1 reference, 2 digests, 2 clients, 4 operations, 1 death | 907 k |
| `AgentRunner` | one start, what is kept of a write, settled answers, every call ends | 2 runners, 1 canceller, 1 death; a reading and a writing job; any answer of the contract | 139 k |
| `Phase` | budget, verdict, deliverable, settled answers | 2 participants, 2 calls, 3 epochs, 3 attempts; quorum review and unanimous architecture in parallel, first success in series; 1 trouble | 1.0 M |
| `Console` | choices are owned, slots come back | 2 requests, 1 slot, 3 folders, 1 agent, a catalogue that lives one tick | 697 k |
| `Housekeeping` | copies, threads, answers of shared sessions, evidence, pages | 2 maintainers, retentions of 1, 2 and 2 days over 3 days, 2 faults; 2 callers of one session with 2 turns, 4 threads, 4 saves and 2 app-server processes; 2 exporters, 2 files, 2 deaths; 3 runs, pages of one entry | 2.9 M |
| `Collection` | a violation: see section 15 | as `Housekeeping` | |

*Why the bounds are enough for what they show.*  Two `run` calls and a recovery
give every pair of a stale owner and a newer one, and a third epoch on top; four
attempts let a writer run, be doubted, be reset and run again, and still be
reviewed.  Crashes matter to the engine's safety only as a process that never moves
again, which every interleaving of a slow process already contains, hence
`MaxCrashes = 0` in `Shadow` and crashes where they change something: liveness,
refinement, publication (where a crash releases the OS lock) and files written in
two parts.  The five deltas of `Publication` are an edit with a new file, a removal
of a directory, the removal of one that holds an excluded file, the creation of a
private directory, and a file that turns into a directory: every operation and every
way out of one happens in some.  Three attempts for two participants let one be
repeated but not both, so the budget is met.  Two clients with four operations let
one read, the other act twice, and the first write; the third and fourth operation
put the item into each of its statuses first.  With two runners and a canceller a
retry and a cancellation meet the first call at each of its steps.  One console slot
for two requests makes the pool run out.  Retentions of one and two days keep the
conflict's, the failure's and the run's own deadline apart.  One agent reference
suffices for `Agents` because its rules are per reference, but for the catalogue's
limit; `SyncIsCareful` was also checked with two references and a limit of one.

*What is assumed of time.*  `Shadow` and `Settles` set `Lingering = FALSE`: a
provider that lost its lease no longer writes when the new owner checkpoints.  The
code aims at it (the heartbeat runs at half the lease and kills the process tree) but
does not enforce it: with `TRUE`, `ApprovedIsWhatWasReviewed` fails, because an old
provider may write after the new owner's review.  `Cancel` keeps it `TRUE`.  A day of
`Retention` is longer than one call of prepare or maintenance.

*Fairness.*  `TimelySpec` of the engine: weak fairness of `Progress(c)`, since a live
Python process keeps executing and every provider is run with a timeout; of
`RecoverScan(c)`, since recovery runs at every start and by workspace settlement; of
`DeadLeaseExpires`, since nothing renews a dead owner's lease.  It assumes that a
*live* owner's lease does not expire (its heartbeat renews it): without that a run
can be taken over for ever.  `Settles` keeps `"blocked"` among the answers, so that
a writer that does not write has a fair answer.  `AgentRunner`: weak fairness of a
runner's own steps and of its wait, which end by the runner's own deadlines, and of
`Kill`, the connector's second signal; none of the agent.  `Console`: weak fairness
of request threads and workers, which are scheduled; none of requests, the clock or
the agents.  Nothing is assumed of operators, writes or crashes anywhere.

## 14. Proofs

Everything here is proved by TLAPS for every value of the constants that the named
`ASSUME`s of the modules admit: any sets of processes, participants, callers or
exporters, any number of rounds, epochs and attempts, and any bound on faults.  TLC
evaluates the assumptions in every run.  Besides the types of the constants they say
only that `Nobody`-like values are no processes, that a configured role names
participants of the model (`RolesAssumption`, `NumbersAssumption`), that paths form a
tree and plans are as section 5 says (`PathsAssumption`, `PlansAssumption`,
`TreesAssumption`), and that
retention for everything (`RetainTerminal`) is not shorter than that of a failure or a conflict,
which are the defaults of the configuration.  `AsksAssumption` of `Console` says what a route
may be asked for: folders, profiles and agents of the model, and a safety mode that exists
(`work_items.py:802` refuses others first).

| Module | Theorem | States |
|---|---|---|
| `RunStoreProofs` | `EpochsExclusive`, `OnlyNewestWrites`, `AttemptsInOrder`, `OutcomesStay` | the fence (`OnlyNewestTokenWrites`), the order of attempts (`AttemptsFollowEpochs`), and `OutcomesStand`: late answers, the history of attempts, what is settled |
| `DurableEngineProofs`, 1 | `EngineRespectsTheStore`, `EngineInheritsTheStore` | `Spec => StoreIsRespected`; with it the theorems about the store hold of the engine |
| `DurableEngineProofs`, 2 | `RunsAreSound`, `DoubtIsDecided`, `WritesAwaitConsent` | `RunIsSound`, `DoubtNeedsDecision`, `WritesNeedConsent` |
| `DurableEngineProofs`, 3 | `IsolationHolds`, `WritersStartOnACheckpoint`, `ApprovedAsReviewed` | `Isolation`; `WritersStartClean`, `ApprovedIsWhatWasReviewed` |
| `DurableEngineProofs`, 4 | `ApprovedRunsAreShownWhole` | `ApprovedIsShownWhole` |
| `PublicationProofs` | `JournalsAreTrue`, `OriginalRespected`, `DiscardIsSafe`, `PublishedMeansApplied`, `TakeoversAreSafe` | `JournalsTellTheTruth`, `OriginalIsRespected`, `DiscardStrandsNothing`, `PublishedIsApplied`, `TakeoversDoNotConflict` |
| `PhaseProofs` | `VerdictsAreEarned`, `DeliverablesAreHonest`, `AnswersStay`, `BudgetHolds` | `VerdictIsEarned`, `DeliverableIsHonest`, `SettledAnswersStay`, `BudgetIsKept` |
| `WorkItemsProofs` | `RunsAndItemsMatch`, `ReportsTheRunOfItsText`, `OffersAreAccepted`, `SettlementsLeaveNoChoice` | `RunsMatchItems`, `ReportsWhatItAsked`, `OfferedIsAccepted`, `SettleNeverChooses` |
| `AgentsProofs` | `SoundRegistries`, `UsedVersionsAreSpared`, `CarefulSync` | `RegistriesAreSound`, `UsedVersionsStay`, `SyncIsCareful` |
| `ServiceProofs`, console | `OwnedChoices`, `SlotsHaveHolders` | `ChoicesAreOwned`; `SlotsAreKept`, the safe half of `SlotsComeBack` |
| `ServiceProofs`, runner | `OneAgent`, `UncertainWrites`, `NoAnswerBeforeTheEnd` | `StartedOnce`, `UncertainWriteIsUnknown`, `AnsweredIsSettled` |
| `HousekeepingProofs` | `ThreadsStayBounded`, `AnswersKeepTheirCall`, `CopiesKeepTheirRuns`, `NeededCopiesAreKept`, `EvidenceStaysWhole`, `ReadersStayWithOneDocument` | the six properties of the run `Housekeeping` |

Each module also has the type invariant and the inductive invariant as theorems.

**`RunStoreProofs`.**  `EpochsAreExclusive` is not inductive: the next token takes its
epoch from the lease row.  `LeaseIsNewest` adds that no issued epoch exceeds the row's
and that one that equals it belongs to the row's owner, unless the row has none.
`IInv == TypeOK /\ LeaseIsNewest /\ EpochsAreExclusive /\ AttemptsFollowEpochs` is
inductive.  The action properties come from two facts about a step, `AttemptsKept` (no
operation removes, re-dates or reopens an attempt, or settles an older epoch's as
succeeded) and `SettledKept`.

**`DurableEngineProofs`, 1: the store.**  Every action of a call maps to one operation of `RunStore`
with the call's token, or leaves the rows alone; a call presents a token that was
issued to it, which is what `Typed` knows of `call[c]`.  The store's theorems then
carry over by instantiation.

**`DurableEngineProofs`, 2: the rows.**  The rows alone do not tell why a phase may start, so the
invariant relates them to the call that walks: `PhaseIsReady` (whoever owns the lease
and is at step `s` has the steps before it succeeded), `StepIsOpen` (whoever starts or
settles a step finds it open), `WalkHasConsent`, `DecidedPcs` (who acts on a decision
carries one).  Calls without the lease need nothing: the fence rejects them.

**`DurableEngineProofs`, 3: isolation.**  First, why the original may change: a review without blockers
that succeeded stays on record, and an applied decision stays one (`DueInv`).  Then,
for a shadow, what the journal says: one publisher at a time behind the folder's lock,
whose run is open, and a clean-up only of what is published or unbound (`ShadowInv`).
Last, under `Killed` (a shadow, and `~Lingering`, the assumption on time of section 13),
`ReviewInv`: the tree is the last checkpoint wherever the owner builds on it, or
differs by the effect of the very writer that the owner waits for; after an approving
review no writer is ready, so tree, checkpoint and what was reviewed stay equal until
the original has them.  `Isolation` needs no such assumption.

`PublishedIsComplete` speaks of the journal and not of the row, and that is more than
wording.  The proof of the same statement about the row failed, and TLC has the reason:
an operator applies an empty checkpoint, so the row says published while the journal is
not yet bound; the lease is lost; a process left behind takes a checkpoint of its tree
between the next apply's `BeginPublish` and `Preflight`; the journal then binds the new
checkpoint while the row still says published.

**`DurableEngineProofs`, 4: what is shown.**  An approved run has an approving review
on record (`ApprovalInv`, in every mode of isolation), and rows open in order
(`RowsInOrder`: whoever opened a row, the ones before it had succeeded), so nothing was
opened after that review.  The last row of each stage is then the architect's, the
writer's whose work was reviewed, and the review's, and each is complete, since nobody
but a reviewer answers with blockers (`AnswersKept`).  No induction over the rounds is
needed: the order of the rows already says all of the earlier ones.

**`PublicationProofs`.**  For any tree of paths, any plan and any number of
publishers.  Everything a publisher does to the files it does behind the folder's
lock (`LockIsHeld`), so what one of them knows is disturbed only by the person, by a
discard, and by its own death, after which the next one begins with a scan.  On that
rest four layers.  `JournalInv`: a publisher that may act has announced its operation
in the row, under the number that the journal counts to; the lag of one is the moment
between the two writes.  `GuardInv`: between guard and effect the entry is still what
the plan was made for, unless the guard has noticed the person (`moved`), so that what
is replaced is never the person's work.  `TraceInv`: whatever Baldr left in the
original belongs to an operation that the journal has counted or still has as active,
and the journal says that it has begun; this is why a discard that reads the latest journal
judges rightly.  That one which keeps its lease destroys rightly is `Reserved`, a part of
`JournalInv`: while it has the lease nobody can announce anything in the row
(`FencedStep`), and what the row has not announced is not in the original
(`EffectsAreKnown`).  A discard that lost its lease may leave an old document in the file;
`DocumentsAreSpent` says that it is one of a publication that had not begun or was over
(no operation active, no guard taken), so that a publisher that takes it up is behind the
row and never ahead of it.  `ProgressInv`: a path that the person left alone is as the
plan wants it once the last operation that concerns it (`FinalOp`: its `chmod`,
`replace` or `remove`) was done or skipped, also when an earlier process did it and
this one found the effect there; so a row that becomes published tells the truth.
TLC checked the four as invariants at the bounds of the run before they were proved.
The steps are seen through a few shapes (a write of the row, of the journal, of the
disk, of the person) and a lemma that a bystander's knowledge survives each.

A fifth layer, `CalmInv`, carries `TakeoversAreSafe`: nobody dies, the person leaves the
folder alone, and the delta is a `PlainDelta`.  Then the original is a tree in which each
path is as in the base or as approved (`IsTree`, `AsPlanned`), a publisher knows what it
scanned (`Known`), what it is past has had its effect (`Effective`), and an operation that
is under way comes before all that remain.  From this no step finds a dispute: not the
plan, a preflight, a guard, `rmdir` or the last verification (`Disputes`).  The heart of
it is the order of the four loops: the parents of what is about to be created are there
(`DirectoriesComeFirst`), and a directory about to be removed is empty (`FolderIsEmpty`).
Both speak of ancestors at any depth.  `Above` is a recursive function on the tree of
paths: that it exists (`AboveIs`) and grows on the way down (`DepthGrows`) follows from the
fact that a parent is a smaller number, by the least path for which it would not be so.
TLC checked `CalmInv` on trees of three levels, with eleven plans and up to three
publishers, before it was proved.

**`PhaseProofs`.**  The invariant is about the call that owns the lease; what others
left behind is fenced out.  `MembersOnly`: rows exist only of the plan's participants.
`WorksAlone` and `OwnerKnows`: what the owner has queued, waits for, collected and
decided agrees with the rows, because nobody else writes them.  For the budget, the
threads of the owner that have counted and not yet opened their attempt are counted
with the rows (`Counted`).  Actions are seen through lemmas that say field by field
what they leave alone.

Here the proof corrected a property.  `VerdictIsEarned` once said that a verdict rests
on exactly the participants that succeeded.  With three calls and two troubles, beyond
the bounds of the run, TLC finds 58 steps that violate it: under first-success a
participant that had succeeded in an earlier call is passed over when one before it
succeeds now.  It now says so of the strategies that ask all (`Earned`), and what it
says is proved.

**`WorkItemsProofs`.**  Each action is first read once for all (the `...Effect` lemmas:
which rows it changed, and that they keep their types); what follows cites these.
*Rows*: a run is executed by the client that owns it, a revision has one run, runs go
only with their item.  *Knowing*, while nobody was overtaken: a client whose knowledge
is not outdated knows the item's revision and text, and the run it carries is of that
revision; hence what is reported is what was asked.  *SettlesForced*: what a settlement
carries was decided for want of an alternative and is still without one.
*SeesBusy* and *Started*, while nothing irregular happened: who read an item that is
executed saw it busy, and a busy item without a run is one that somebody is starting;
this is what offers rest on.

Here too the proof corrected a property.  `SettleNeverChooses` was claimed without
condition and is false with `MaxOps = 5` (section 15).  `OfferedIsAccepted` needed
`Started`: that a busy item without a run can be cancelled is true only because the
start that will create the run is on its way.

**`AgentsProofs`.**  What a process carries is *sound* whatever the others do: a document
that loads, a plan that withdraws only what its source manages and no longer offers.
What it carries is *based* on the registry (`Derives`: one accepted change of each entry)
only under the lock, so `Held` is claimed while the registry's lock is not stolen, and
with it that every content a reference ever had is still its entry's or its
tombstone's (`Traced`).  The attempt to prove immutability without that condition
failed at the removal of an old lock, and TLC then found the run of three clients that
is `VersionIsImmutable` in section 15.  For the versions that runs use there is an
invariant relative to that one (`Spared`): who decided with the row of the run there
carries no removal, revocation or withdrawal of what it uses (`Minds`), and the document
it is about to write leaves that entry as it found it under the lock (`Stays`).

**`ServiceProofs`, the console.**  A handler uses what it read some steps before, so the
invariant follows each thread: which kind of request can be at which step (`OnItsWay`), that
whoever will write the file has the consent for what it adds (`HasConsent`), and that whoever
will write a row has seen the agents it names in a complete catalogue, from the world, the
cache or a copy of either (`SawTheOffer`).  Consents and offers are histories that only grow,
so what others do disturbs none of it (`BystandersSound`); a truncated file reads as the
defaults and lists nobody.  The type invariant alone needs more than types: that no slot is
given back twice is the counting of `SlotsAreKept`, whose holders are the requests that took
one and, once they answered, their workers.  TLC checked the invariant at the bounds of the
run `Console` (698 thousand states) before it was proved.

**`ServiceProofs`, the runner.**  The module extends `Console` and `AgentRunner`, which share
no name (hence `RunnerSpec`, `RunnerInit`, ...) and no state.  The row knows who began it (`OneBegan`), a call that waits
knows that the row exists (`SeenExists`), and a process is where its call is
(`ChildFits`); with the types and `AnsweredIsSettled` that is the invariant `RunnerInv`.
`UncertainWriteIsUnknown` has one of its own relative to it: the copies of the row that
waiting calls and cancellations hold are as honest as the row (`CopiesAreHonest`),
for any answer of an agent.

**`HousekeepingProofs`.**  A behaviour exercises one component, so each has an invariant
of its own.  *Sessions*: the turns of a thread, together with those of the calls that
hold it and will save, never exceed the limit and the number of callers less one.
*AppServer*: a live process that is used, or at work, is the entry of the cache or about to
be closed, and a turn that nobody waits for was given up by somebody who is removing
its session.  *Retention*: where the engine can be once the run has ended, that it is
at rest when a day has passed, and that a copy whose row is closed was remade by an
engine without a lease.  *Evidence*: who writes has its directory for itself, and who is
about to make one has found no bundle that its own name would replace.
*Deliverables*: a reader of a report has the first lines of one report of one run, as
many as its cursor says (`LineByLine`).  For the index, a revision tells how many
deliverables were offered and who was the newest, not which they were: what was offered
then (`V` in `Kept`) differs from what is offered now by the newest run at most, so the
same number means the same set; and what nobody has copied comes after what was read, so
that the order of steps and that of rows agree so far (`PlacesAgree`).  The lemmas about
places (`PlacesTaken`, `PageIs`, `PageGoesOn`) hold for any finite set of runs and any
sizes of window and page.

*Only model-checked.*  The violation in `Artifacts`.  Liveness
(`RunsAreSettled`, `EveryCallEnds`, `SlotsComeBack`) and `ENABLED` are out of the
prover's reach.  Strings are opaque to it, so a constant that stands for a name is not
proved to be in `STRING` but assumed to be, as in `AnswersAssumption`.

## 15. Where code and documents disagree

* **`ReferencedFilesStay`** (run `Collection`) – `garbage_collect` unlinks the file
  of every artifact row it deleted (`durability/store_maintenance.py:319`), although
  a file is named by its content and rows of kept runs may name it too;
  `docs/consistency-operator-control.md:185` speaks of artifacts *not referenced*.

The following are stated in the modules and kept out of the runs.  Each is violated
when it is put in the named cfg in place of its properties.

| Definition | Where it fails | Promise | What the code does |
|---|---|---|---|
| `SucceededWritesAreKept` | `Shadow.cfg` | `docs/consistency-operator-control.md:138`: after `continue_from_shadow` the step in doubt runs again | a participant recorded as succeeded is replayed though the tree was restored without its effects (`engine.py:2390`) |
| `ApprovalIsNotDowngraded` | `Shadow.cfg` | comment at `recovery.py:117-119` | `review_approved` is computed from the status recovery happened to read; a second recovery forgets it, and applying ends `needs_changes` |
| `UnconfirmedWritesAreNotRepeated` (PROPERTY) | `Shadow.cfg` with `Mode = "worktree"`, `MaxEpoch = 4` | `docs/durable-orchestration.md:243`: `unknown` and reconciliation | a resume that takes an expired lease before recovery looked dispatches the write again |
| `CancelledRunsEndCancelled` | `Cancel.cfg` | `docs/consistency-operator-control.md:120-122` | a request just before a transition makes it illegal; outside a shadow the error handler ends the run as `failed` |
| `CrashedPublicationsResume` | `Publication.cfg` | `docs/durable-orchestration.md:304`: a retry skips what was applied and goes on | `_write_entry` stages beside the target, which changes the parent after the guard was taken; a death there leaves a guard no retry satisfies |
| `LateDiscardStrandsNothing` (PROPERTY) | `Publication.cfg` | `shadow_workspace.py:2430`: "A partially applied publication must be completed or rolled back before discard" | `discard` reads and judges the state (2426-2428), and later writes that state back (2433-2434) and removes the tree (2438), without the publication lock or a second look at its lease: c1 decides to discard and passes its check; its lease expires and c2 publishes; c1 reads a state that says nothing has begun; c2 makes its preflight, starts an operation, announces it and creates a directory in the original; c1 overwrites the journal of it and removes the copy |
| `CancelledWorkIsClosed` | `Phase.cfg` | `docs/consistency-operator-control.md:120`: attempts and participants become `cancelled` | a thread between its check and `create_attempt` opens an attempt after the run was finalized |
| `CancelWins` | `AgentRunner.cfg` | comment at `runner.py:504-508` | `set_running` and a late result may overwrite the stored cancellation |
| `CancelledWriteIsUnknown` | `AgentRunner.cfg` | `docs/external-agent-runtime.md:248-251`: "A cancelled or lost write job is `unknown`" | the runner stores the agent's own state and `retryable` (`runner.py:543-566`; `contract.py:175-193` admits `cancelled` with any `retryable`), and the SDK answers SIGTERM with `cancelled`, to be retried, also for a writing job (`agent.py:295-316`); only a cancellation that a request has stored is kept from that |
| `UsedVersionsAreKept` (PROPERTY) | `Agents.cfg` | `docs/external-agent-registry.md:303`: removal "fails while an active durable run still references it"; lines 115-116 the same of a synchronisation | the look for active runs (`cli.py:786`, `:811`; `agent_sync.py:820`) comes before the change and keeps no new run out: the version is taken from a run whose row comes in between |
| `HiddenCanBeRestored` | `WorkItems.cfg` | what is archived can be restored | an archive and a start that both read a draft: the result of the start replaces the status and leaves `archived_at` |
| `NoPhantomRunning` | `WorkItems.cfg` | a running item can be cancelled or started again | a death between `mark_started` and the creation of the run leaves an item that is running without one |
| `RunsHaveTurns` | `WorkItems.cfg` | every linked run is the run of a turn | an edit of the text is a new revision without a turn, so the run of that revision is linked to the item and to none of its turns |
| `ThreadLimitIsKept` | `Housekeeping.cfg` | `docs/consistency-operator-control.md:194-200`: a session ends after `max_turns` | the app-server and SDK runners go on with the thread in their memory, whatever the row says (`codex_app_server.py:353`, `codex_sdk.py:104`) |
| `AnswersAreCorrelated` (PROPERTY) | `Housekeeping.cfg` | comment at `codex_app_server.py:190`: late notifications are drained before a new correlated turn | `turn/completed` is matched to no turn: one that comes after the draining ends the wrong turn |
| `SettlesOnlyTheForced` (PROPERTY) | `WorkItems.cfg` with `Clients` of 2, `MaxOps = 5`, `MaxCrashes = 0`, `CONSTRAINT Redirected` | docstring at `work_items.py:1839`: "Apply only a recovery decision that has no meaningful alternative" | `settle` chooses for the run it read (1840-1842) and calls `reconcile` (1858), which reads the item again (2027) and applies the action to the run it finds; another client's start in between has put a new one there, and `mark_failed` is accepted for every run (`durability/engine.py:1474`) |
| `VersionIsImmutable` | `Agents.cfg` with `Refs = {1}`, `Clients = {c1, c2, c3}`, `MaxOps = 3` | `docs/external-agent-registry.md:266`: "An exact version is immutable" | of two processes that find a dead one's lock old, the second removes the directory the first has just made (`agent_registry.py:351-353`); both then write the registry, and the later one replaces what the earlier one published |
| `WithdrawnWasGone` (PROPERTY) | `Agents.cfg` with `Refs = {1, 2}`, `Digests = {d1}`, `Clients = {c1}`, `MaxOps = 6`, `MaxCrashes = 0` | `docs/external-agent-registry.md:115`: no lifecycle decision on an incomplete catalogue | the manager's catalogue is cut at its limit (`agent_manager.py:125`) and not reported as partial |

Related ways into the corner of `CrashedPublicationsResume`: dying between the removal
and the re-creation of a path that changes its kind, and between the `mkdir` of a
directory and its `chmod`; that is why takeovers without a person's edit are claimed
to be free of conflicts only for a `PlainDelta`.

`EndedWithRun` of `AppServer` and the exception in `AnswersStayWithTheirCall` are facts
a reader may not expect either: an app-server process is registered under the run
that started it, so cancelling that run ends the turn of another one.

Seen while proving: `PlainDelta` excluded one mode that a created directory
may have and admitted another, for which TLC has a conflict: between the `mkdir` and the
`chmod` (`durability/shadow_workspace.py:1957`, `:2031`) a takeover finds a mode that is neither the
old nor the new one.  `IndexIsComplete` once claimed more.  With five runs, a window of
one and pages of one, a run that leaves the ended ones between two pages (collected,
`durability/store_maintenance.py:288`, or retried) while an older ended one is not copied
yet makes the two orders of section 12 differ, and an entry is left out.  In the code the
window is 256 steps and a page up to 50 (`phase_deliverables.py:531`, `:969`), so it takes
a work item with more than 256 steps that were never copied.

Seen while reading, and in no module: the heartbeat of a call kills the
processes registered under its run's id, a successor's in the same router included
(`durability/heartbeat.py:43`); an isolation mode that is misspelt in the configuration
works in place in a folder without Git, where `worktree` would refuse
(`durability/git_workspace.py:674`), and as `auto` in a repository (line 700);
`first-success` with `min_successes = 2` over two profiles stops at one answer and then
misses its minimum, in every run (`execution_profiles.py:161`, `engine.py:2356`);
`run_command` forgets a process that did not react to being terminated
(`run.py`, its `finally`), so the count of orphans may miss it.

## 16. Not modelled, and why

Per component, with reasons, under `components` in `PROJECT.json`.  In short: the
provider adapters, but for the sessions the Codex runners share (`AppServer`), translate
between the engine and the tools' protocols, and are
external here, with what the engine relies on stated in section 4; schema migrations,
identity, prompts, Context7 and diagnostics are one-shot, pure or best-effort; MCP
server and CLI are plumbing around the operations modelled, except the commands that
edit trust and agents, which are in `Console` and `Agents`; launcher and facades are
clients of the public intents; the validation, qualification and lab trees drive the
code that is modelled and keep no state of their own.

## Running

    tlc -workers 2 -config Shadow.cfg MCDurableEngine.tla
    tlc -workers 2 -config Phase.cfg MCPhaseExecution.tla
    tlc -workers 2 -config Housekeeping.cfg MCHousekeeping.tla
    tlapm RunStoreProofs.tla          # and the other modules of section 14, minutes each

`PROJECT.json` names the module of every run, maps every definition to its source
lines and gives, for each property, a mutant: a plausible slip in one of the modelled
functions that the run then reports.  The slips are operators beside the definition
they distort; no specification uses them.
