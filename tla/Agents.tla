------------------------------- MODULE Agents -------------------------------
(***************************************************************************)
(* The catalogue of external agents: the Agent Manager service             *)
(* (agent_manager_service.py), the local registry file (agent_registry.py) *)
(* and the synchronisation that copies a source into the registry          *)
(* (agent_sync.py, agent_sources.py), with one durable run that resolves   *)
(* an agent through the gateway.                                           *)
(*                                                                         *)
(* Clients are operators' processes.  A mutation of the registry takes a   *)
(* lock directory, reads the file, and replaces it; a synchronisation      *)
(* holds a lock of its own around discovery's plan, the registry mutation  *)
(* and its own file.  A lock left by a process that died is broken by      *)
(* whoever finds it old.                                                   *)
(***************************************************************************)
EXTENDS Naturals, Sequences, FiniteSets

CONSTANTS
    Refs,           \* exact agent references, in catalogue order
    Digests,
    NoDigest,
    Clients,
    NoClient,
    CatalogLimit,   \* agent_manager.catalog_limit
    MaxOps,         \* bound on the operations explored
    MaxCrashes      \* bound on the process deaths explored

ASSUME RefsAssumption == Refs \subseteq Nat /\ IsFiniteSet(Refs) /\ CatalogLimit \in Nat \ {0}
ASSUME BoundsAssumption == MaxOps \in Nat /\ MaxCrashes \in Nat
ASSUME NobodyAssumption == NoDigest \notin Digests /\ NoClient \notin Clients

VARIABLES
    manager,    \* rows of agent_manifests
    local,      \* agents.json
    binding,    \* agents.sync.json, for each source
    lock,       \* who made the lock directory of each file
    call,       \* where each client is
    run,        \* one durable run, the agent it pinned and who decided while it
                \* was active (history)
    ops, crashes,
    ever,       \* digests each reference had in the registry (history)
    silent,     \* the service answered with success before recording (history)
    stolen      \* files whose lock was taken from a living process (history)

vars == <<manager, local, binding, lock, call, run, ops, crashes, ever, silent, stolen>>

Sources   == {"manager", "kiro", "repo"}
Files     == {"registry", "sync"}
Lifecycle == {"keep", "disable", "revoke"}
LocalOps  == {"publish", "enable", "disable", "revoke", "remove"}
RemoteOps == {"publish", "enable", "disable", "revoke"}

NoEntry == [dig |-> NoDigest, off |-> FALSE, revoked |-> FALSE, tomb |-> NoDigest]
NoBind  == [dig |-> NoDigest, by |-> "untracked"]
Idle    == [pc |-> "idle"]
NoRun   == [pc |-> "none", ref |-> 0, dig |-> NoDigest, met |-> {}]

Init ==
    /\ manager = [r \in Refs |-> [dig |-> NoDigest, on |-> FALSE, revoked |-> FALSE]]
    /\ local = [r \in Refs |-> NoEntry]
    /\ binding = [s \in Sources |-> [r \in Refs |-> NoBind]]
    /\ lock = [f \in Files |-> NoClient]
    /\ call = [c \in Clients |-> Idle]
    /\ run = NoRun /\ ops = 0 /\ crashes = 0
    /\ silent = FALSE /\ stolen = {} /\ ever = [r \in Refs |-> {}]

Goto(c, r) == call' = [call EXCEPT ![c] = r]
To(c, pc)  == Goto(c, [call[c] EXCEPT !.pc = pc])
End(c)     == Goto(c, Idle)

(***************************************************************************)
(* The Agent Manager service.                                              *)
(***************************************************************************)

\* resolve and catalog: a version is offered while enabled and not revoked.
Served(r) == manager[r].dig # NoDigest /\ manager[r].on /\ ~manager[r].revoked

\* catalog: the first rows by reference, up to the limit the client asked for.
Catalog == {r \in Refs : /\ Served(r)
                         /\ Cardinality({q \in Refs : Served(q) /\ q < r}) < CatalogLimit}

ManagerUnchanged == UNCHANGED <<manager, silent>>
LocalUnchanged   == UNCHANGED <<local, binding, lock, ever, stolen>>
Elsewhere        == UNCHANGED <<run, ops, crashes>>

\* active_runs_using_agent: the run is not ended and its row names the version.
InUse(r) == run.pc = "active" /\ run.ref = r

\* The client decides what to change, with the row of an active run there.
Meets(c) == run' = IF run.pc = "active" THEN [run EXCEPT !.met = @ \cup {c}] ELSE run

\* The requests that differ: only a publication carries a digest.
Requests(kinds) == {[op |-> o, ref |-> r, dig |-> d] :
                      o \in kinds, r \in Refs, d \in Digests \cup {NoDigest}}
Sensible(q) == (q.op = "publish") = (q.dig # NoDigest)

\* Nothing is recorded yet of a request, which will be answered as it ends.
Decided(ok) == [pc |-> "record", op |-> "admin", ok |-> ok, recorded |-> FALSE]

\* do_POST, authenticated: the policy allows the action or a denial is recorded.
RemoteBegin(c) ==
    /\ call[c].pc = "idle" /\ ops < MaxOps
    /\ ops' = ops + 1
    /\ \/ Goto(c, Decided(FALSE))
       \/ \E q \in Requests(RemoteOps) :
             /\ Sensible(q)
             /\ Goto(c, [pc |-> IF q.op = "enable" THEN "ask" ELSE "serve",
                         op |-> q.op, ref |-> q.ref, dig |-> q.dig])
    /\ ManagerUnchanged /\ LocalUnchanged /\ UNCHANGED <<run, crashes>>

\* set_enabled reads the row before its UPDATE opens the transaction.
RemoteAsk(c) ==
    LET my == call[c] IN
    /\ my.pc = "ask"
    /\ IF manager[my.ref].dig = NoDigest \/ manager[my.ref].revoked
       THEN Goto(c, Decided(FALSE)) ELSE To(c, "serve")
    /\ ManagerUnchanged /\ LocalUnchanged /\ Elsewhere

\* publish, set_enabled and revoke of the store.
RemoteServe(c) ==
    LET my == call[c]
        row == manager[my.ref]
        ok == IF my.op = "publish" THEN row.dig \in {NoDigest, my.dig} ELSE row.dig # NoDigest
        next == CASE my.op = "publish" -> IF row.dig # NoDigest THEN row
                                          ELSE [dig |-> my.dig, on |-> TRUE, revoked |-> FALSE]
                  [] my.op = "revoke" -> [row EXCEPT !.on = FALSE, !.revoked = TRUE]
                  [] OTHER -> [row EXCEPT !.on = my.op = "enable"]
    IN /\ my.pc = "serve"
       /\ manager' = IF ok THEN [manager EXCEPT ![my.ref] = next] ELSE manager
       /\ Goto(c, Decided(ok))
       /\ UNCHANGED silent /\ LocalUnchanged /\ Elsewhere

\* _admin and _post_failure answer what they have recorded.
MayAnswer(my) == my.recorded

RemoteRecord(c) ==
    /\ call[c].pc = "record" /\ ~call[c].recorded
    /\ Goto(c, [call[c] EXCEPT !.recorded = TRUE])
    /\ ManagerUnchanged /\ LocalUnchanged /\ Elsewhere

RemoteAnswer(c) ==
    /\ call[c].pc = "record" /\ MayAnswer(call[c])
    /\ silent' = (silent \/ (call[c].ok /\ ~call[c].recorded))
    /\ End(c)
    /\ UNCHANGED manager /\ LocalUnchanged /\ Elsewhere

(***************************************************************************)
(* The lock directory of a file.                                           *)
(***************************************************************************)
Old(f) == lock[f] # NoClient /\ call[lock[f]].pc = "dead"

Waits(f)  == IF f = "registry" THEN "lock_registry" ELSE "lock_sync"
Breaks(f) == IF f = "registry" THEN "break_registry" ELSE "break_sync"

\* mkdir fails and the directory is old: it will be removed.
FindOldLock(c, f) ==
    /\ Old(f) /\ To(c, Breaks(f))
    /\ ManagerUnchanged /\ LocalUnchanged /\ Elsewhere

\* rmdir: removes whatever directory is there now, also one that another
\* operator has made since.
BreakLock(c, f) ==
    /\ call[c].pc = Breaks(f)
    /\ lock' = [lock EXCEPT ![f] = NoClient] /\ To(c, Waits(f))
    /\ stolen' = stolen \cup (IF lock[f] = NoClient \/ Old(f) THEN {} ELSE {f})
    /\ UNCHANGED <<local, binding, ever>> /\ ManagerUnchanged /\ Elsewhere

\* The deadline passes: "registry is busy".  A synchronisation that waits for
\* the registry releases its own lock on the way out.
Busy(c, f) ==
    /\ lock[f] \notin {NoClient, c}
    /\ ~Old(f) /\ End(c)
    /\ lock' = IF f = "registry" /\ call[c].op = "sync"
               THEN [lock EXCEPT !["sync"] = NoClient] ELSE lock
    /\ UNCHANGED <<local, binding, ever, stolen>> /\ ManagerUnchanged /\ Elsewhere

(***************************************************************************)
(* The local registry.                                                     *)
(***************************************************************************)
\* A slip: removing a version forgets its digest.
RemovedWithoutTrace(e) == NoEntry
\* What remove leaves of an entry.
Removed(e) == [NoEntry EXCEPT !.tomb = e.dig]

\* _document: what a load accepts of an entry; anything else and no agent loads.
Loads(e) == /\ e.off => e.dig # NoDigest
            /\ e.revoked => e.off /\ e.tomb = e.dig
            /\ e.dig # NoDigest => e.tomb \in {NoDigest, e.dig}
Readable == \A r \in Refs : Loads(local[r])

\* publish refuses another digest than the entry or its tombstone has.
Immutable(e, d) == e.dig \in {NoDigest, d} /\ e.tomb \in {NoDigest, d}

\* The refusals of LocalAgentRegistryAdmin.
Accepts(op, e, d) ==
    CASE op = "publish" -> Immutable(e, d)
      [] op = "enable" -> e.dig # NoDigest /\ ~e.revoked
      [] op = "remove" -> e.dig # NoDigest /\ e.off /\ ~e.revoked
      [] OTHER -> e.dig # NoDigest

Changed(op, e, d) ==
    CASE op = "publish" -> [e EXCEPT !.dig = d]
      [] op = "enable"  -> [e EXCEPT !.off = FALSE]
      [] op = "disable" -> [e EXCEPT !.off = TRUE]
      [] op = "revoke"  -> [e EXCEPT !.off = TRUE, !.revoked = TRUE, !.tomb = e.dig]
      [] OTHER -> Removed(e)

\* The commands of `agent`: remove and revoke ask for active runs before the lock.
LocalBegin(c) ==
    /\ call[c].pc = "idle" /\ ops < MaxOps
    /\ ops' = ops + 1
    /\ \E q \in Requests(LocalOps) :
          /\ Sensible(q)
          /\ q.op \in {"remove", "revoke"} => ~InUse(q.ref)
          /\ Goto(c, [pc |-> "lock_registry", op |-> q.op, ref |-> q.ref, dig |-> q.dig])
    /\ Meets(c)
    /\ ManagerUnchanged /\ LocalUnchanged /\ UNCHANGED crashes

\* mkdir and _state: the mutation works on the document read here.
LocalLock(c) ==
    LET my == call[c] IN
    /\ my.pc = "lock_registry" /\ my.op # "sync" /\ lock["registry"] = NoClient
    /\ IF Readable /\ Accepts(my.op, local[my.ref], my.dig)
       THEN /\ lock' = [lock EXCEPT !["registry"] = c]
            /\ Goto(c, [pc |-> "write", op |-> my.op,
                        doc |-> [local EXCEPT ![my.ref] = Changed(my.op, @, my.dig)]])
       ELSE End(c) /\ UNCHANGED lock
    /\ UNCHANGED <<local, binding, ever, stolen>> /\ ManagerUnchanged /\ Elsewhere

\* _atomic_write_registry: the document replaces the file.
WriteRegistry(c) ==
    /\ call[c].pc = "write"
    /\ local' = call[c].doc
    /\ ever' = [r \in Refs |-> ever[r] \cup ({local'[r].dig} \ {NoDigest})]
    /\ To(c, "release")
    /\ UNCHANGED <<binding, lock, stolen>> /\ ManagerUnchanged /\ Elsewhere

\* rmdir in the finally: again whatever directory is there now.
ReleaseRegistry(c) ==
    /\ call[c].pc = "release"
    /\ lock' = [lock EXCEPT !["registry"] = NoClient]
    /\ IF call[c].op = "sync" THEN To(c, "save") ELSE End(c)
    /\ UNCHANGED <<local, binding, ever, stolen>> /\ ManagerUnchanged /\ Elsewhere

(***************************************************************************)
(* Synchronisation.  A discovery yields, for each reference, what the      *)
(* source offers (a digest, or none), which offers are not available, and  *)
(* whether it raised no warning.                                           *)
(***************************************************************************)
Found(offer, hidden, complete, real) ==
    [offer |-> offer, hidden |-> hidden, complete |-> complete, real |-> real]
Offered(f) == {r \in Refs : f[r] # NoDigest}

\* AgentManagerSource: what the service lists; only its own limit warns.
FromManager == {Found([r \in Refs |-> IF r \in Catalog THEN manager[r].dig ELSE NoDigest],
                      {}, TRUE, {r \in Refs : Served(r)})}

\* KiroAgentSource: a global definition may be shadowed by one of the workspace;
\* an unreadable directory, an invalid file or a silent CLI is a warning.
FromKiro == UNION {{Found(f, h, x, IF x THEN Offered(f) \ h ELSE Refs) :
                      h \in SUBSET Offered(f), x \in BOOLEAN} :
                   f \in [Refs -> Digests \cup {NoDigest}]}

\* DeclarativeAgentSource: the file as it is, cut at the limit with a warning.
FromRepo == {Found(f, {}, x, IF x THEN Offered(f) ELSE Refs) :
               f \in [Refs -> Digests \cup {NoDigest}], x \in BOOLEAN}

Discovery(s) == CASE s = "manager" -> FromManager
                  [] s = "kiro" -> FromKiro
                  [] OTHER -> FromRepo

\* sync --apply: discover_sources, before the lock.
SyncBegin(c) ==
    /\ call[c].pc = "idle" /\ ops < MaxOps
    /\ ops' = ops + 1
    /\ \E s \in Sources, m \in Lifecycle : \E found \in Discovery(s) :
          Goto(c, [pc |-> "lock_sync", op |-> "sync", src |-> s, missing |-> m, found |-> found])
    /\ ManagerUnchanged /\ LocalUnchanged /\ UNCHANGED <<run, crashes>>

\* A slip: an observed version that is disabled is enabled again.
SuggestedForAll(e, b, d, hidden) ==
    IF d = NoDigest THEN IF e.dig # NoDigest /\ b.by = "managed" /\ ~e.revoked THEN "withdraw" ELSE "none"
    ELSE IF {e.dig, e.tomb, b.dig} \ {NoDigest, d} # {} THEN "blocked"
    ELSE IF hidden THEN IF e.dig # NoDigest /\ b.by = "managed" /\ ~e.revoked THEN "withdraw" ELSE "none"
    ELSE IF e.dig = NoDigest THEN "publish"
    ELSE IF e.revoked THEN "blocked"
    ELSE IF e.off THEN "enable"
    ELSE IF b.by = "untracked" THEN "track" ELSE "none"

\* _plan: the suggested action for an entry, its binding and the offer.
Suggested(e, b, d, hidden) ==
    LET withdraw == IF e.dig # NoDigest /\ b.by = "managed" /\ ~e.revoked THEN "withdraw" ELSE "none"
    IN CASE d = NoDigest -> withdraw
         [] d # NoDigest /\ {e.dig, e.tomb, b.dig} \ {NoDigest, d} # {} -> "blocked"
         [] OTHER ->
              CASE hidden -> withdraw
                [] ~hidden /\ e.dig = NoDigest -> "publish"
                [] ~hidden /\ e.dig # NoDigest /\ e.revoked -> "blocked"
                [] OTHER -> IF e.off /\ b.by = "managed" THEN "enable"
                            ELSE IF b.by = "untracked" THEN "track" ELSE "none"

\* apply refuses a blocked plan and a lifecycle decision on a partial discovery.
Refuses(my, plan) ==
    \/ \E r \in Refs : plan[r] = "blocked"
    \/ my.missing # "keep" /\ ~my.found.complete

Action(my, r, plan) ==
    IF plan[r] = "withdraw"
    THEN IF my.missing = "keep" \/ (my.missing = "disable" /\ local[r].off) THEN "none" ELSE my.missing
    ELSE plan[r]

\* A slip: the runs are looked up for the versions to disable only.
DisablesOnly == {"disable"}
\* The changes that are refused for a version which an active run uses.
Withdrawals == {"disable", "revoke"}

\* _sync_lock, _load_state, _plan and the decision what to change.
SyncLock(c) ==
    LET my == call[c]
        plan == [r \in Refs |-> Suggested(local[r], binding[my.src][r],
                                          my.found.offer[r], r \in my.found.hidden)]
        acts == [r \in Refs |-> Action(my, r, plan)]
        used == \E r \in Refs : acts[r] \in Withdrawals /\ InUse(r)
        writes == \E r \in Refs : acts[r] \in {"publish", "enable", "disable", "revoke"}
    IN /\ my.pc = "lock_sync" /\ lock["sync"] = NoClient
       /\ IF ~Readable \/ Refuses(my, plan) \/ used
          THEN End(c) /\ UNCHANGED lock
          ELSE /\ lock' = [lock EXCEPT !["sync"] = c]
               /\ Goto(c, [pc |-> IF writes THEN "lock_registry" ELSE "save", op |-> "sync",
                           src |-> my.src, found |-> my.found, acts |-> acts,
                           state |-> binding])
       /\ Meets(c)
       /\ UNCHANGED <<local, binding, ever, stolen, ops, crashes>> /\ ManagerUnchanged

\* reconcile: checks the change set against the file again, all or nothing.
SyncReconcile(c) ==
    LET my == call[c]
        acts == my.acts
        ok == Readable /\ \A r \in Refs :
                /\ acts[r] = "publish" => Immutable(local[r], my.found.offer[r])
                /\ acts[r] \in {"enable", "disable", "revoke"} =>
                       Accepts(acts[r], local[r], NoDigest)
        doc == [r \in Refs |-> IF acts[r] \in {"publish", "enable", "disable", "revoke"}
                               THEN Changed(acts[r], local[r], my.found.offer[r]) ELSE local[r]]
    IN /\ my.pc = "lock_registry" /\ my.op = "sync" /\ lock["registry"] = NoClient
       /\ IF ~ok THEN End(c) /\ lock' = [lock EXCEPT !["sync"] = NoClient]
          ELSE IF doc = local THEN To(c, "save") /\ UNCHANGED lock
          ELSE /\ lock' = [lock EXCEPT !["registry"] = c]
               /\ Goto(c, [pc |-> "write", op |-> "sync", src |-> my.src, found |-> my.found,
                           acts |-> acts, state |-> my.state, doc |-> doc])
       /\ UNCHANGED <<local, binding, ever, stolen>> /\ ManagerUnchanged /\ Elsewhere

\* _write_state: the bindings of what was published and of what is tracked.
SyncSave(c) ==
    LET my == call[c]
        bind == [r \in Refs |->
                   CASE my.acts[r] = "publish" -> [dig |-> my.found.offer[r], by |-> "managed"]
                     [] my.acts[r] = "track" -> [dig |-> my.found.offer[r], by |-> "observed"]
                     [] OTHER -> my.state[my.src][r]]
    IN /\ my.pc = "save"
       /\ binding' = [my.state EXCEPT ![my.src] = bind]
       /\ lock' = [lock EXCEPT !["sync"] = NoClient]
       /\ End(c)
       /\ UNCHANGED <<local, ever, stolen>> /\ ManagerUnchanged /\ Elsewhere

(***************************************************************************)
(* A durable run resolves its agent when it starts and at each dispatch.   *)
(***************************************************************************)
\* CompositeAgentResolver: the manager, then the registry.
Resolved(r) == IF Served(r) THEN manager[r].dig
               ELSE IF Readable /\ local[r].dig # NoDigest /\ ~local[r].off THEN local[r].dig
               ELSE NoDigest

\* binding: the exact version and its digest go into the run's snapshot.
Bind ==
    /\ run.pc = "none"
    /\ \E r \in Refs : /\ Resolved(r) # NoDigest
                       /\ run' = [NoRun EXCEPT !.pc = "bound", !.ref = r, !.dig = Resolved(r)]
    /\ ManagerUnchanged /\ LocalUnchanged /\ UNCHANGED <<call, ops, crashes>>

\* The row of the run is created: active_runs_using_agent sees it.
Activate ==
    /\ run.pc = "bound" /\ run' = [run EXCEPT !.pc = "active", !.met = {}]
    /\ ManagerUnchanged /\ LocalUnchanged /\ UNCHANGED <<call, ops, crashes>>

\* resolve with expected_digest: the first resolver that knows the reference decides.
AcceptsDigest(r, d) == Resolved(r) = d

\* AgentGateway.invoke: a mismatch or an unknown agent fails the attempt.
Invoke ==
    /\ run.pc = "active"
    /\ run' = IF AcceptsDigest(run.ref, run.dig) THEN run ELSE NoRun
    /\ ManagerUnchanged /\ LocalUnchanged /\ UNCHANGED <<call, ops, crashes>>

EndRun ==
    /\ run.pc \in {"bound", "active"} /\ run' = NoRun
    /\ ManagerUnchanged /\ LocalUnchanged /\ UNCHANGED <<call, ops, crashes>>

(***************************************************************************)
(* A process dies; the directories it made stay, and grow old.             *)
(***************************************************************************)
Crash(c) ==
    /\ crashes < MaxCrashes /\ call[c].pc \notin {"idle", "dead"}
    /\ crashes' = crashes + 1
    /\ Goto(c, [pc |-> "dead"])
    /\ ManagerUnchanged /\ LocalUnchanged /\ UNCHANGED <<run, ops>>

Remote(c) == RemoteBegin(c) \/ RemoteAsk(c) \/ RemoteServe(c) \/ RemoteRecord(c) \/ RemoteAnswer(c)
Locking(c) ==
    \E f \in Files : \/ call[c].pc = Waits(f) /\ (FindOldLock(c, f) \/ Busy(c, f))
                     \/ BreakLock(c, f)
Local(c) == LocalBegin(c) \/ LocalLock(c) \/ WriteRegistry(c) \/ ReleaseRegistry(c)
Sync(c) == SyncBegin(c) \/ SyncLock(c) \/ SyncReconcile(c) \/ SyncSave(c)
Run == Bind \/ Activate \/ Invoke \/ EndRun

Next == Run \/ \E c \in Clients : Remote(c) \/ Locking(c) \/ Local(c) \/ Sync(c) \/ Crash(c)

Spec == Init /\ [][Next]_vars

(***************************************************************************)
(* Properties.                                                             *)
(***************************************************************************)
\* Every variable keeps its type.
TypeOK ==
    /\ manager \in [Refs -> [dig : Digests \cup {NoDigest}, on : BOOLEAN, revoked : BOOLEAN]]
    /\ local \in [Refs -> [dig : Digests \cup {NoDigest}, off : BOOLEAN, revoked : BOOLEAN,
                           tomb : Digests \cup {NoDigest}]]
    /\ binding \in [Sources -> [Refs -> [dig : Digests \cup {NoDigest},
                                         by : {"untracked", "managed", "observed"}]]]
    /\ lock \in [Files -> Clients \cup {NoClient}]
    /\ silent \in BOOLEAN /\ stolen \subseteq Files /\ ever \in [Refs -> SUBSET Digests]
    /\ ops \in 0..MaxOps /\ crashes \in 0..MaxCrashes

\* Whatever sequence of mutations, synchronisations and deaths wrote the
\* registry, the next load accepts it: the disabled and revoked lists name
\* registered agents, a revoked one is disabled and has the tombstone of its
\* digest, and no tombstone contradicts an entry (LocalAgentRegistry._document
\* refuses anything else, and then no agent resolves).
RegistryLoads == Readable

\* An exact reference never stands for two contents, also across its removal
\* and a new publication by hand or by a synchronisation (publish, reconcile,
\* remove and its tombstone), as long as no living process lost the lock.
OneContent == \A r \in Refs : Cardinality(ever[r]) <= 1
ReferenceIsImmutable == "registry" \notin stolen => OneContent

\* What is revoked stays revoked: at the manager also when an enable that had
\* read the row before the revocation writes after it, in the registry whatever
\* an operator or a synchronisation does (set_enabled, remove, reconcile and the
\* lock around each).
RevokedStays ==
    [][\A r \in Refs :
         /\ manager[r].revoked => manager'[r].revoked
         /\ local[r].revoked /\ "registry" \notin stolen => local'[r].revoked]_vars

\* A synchronisation writes the registry, which nobody took from it.
Synchronises(c) ==
    /\ call[c].pc = "write" /\ call'[c].pc = "release" /\ call[c].op = "sync"
    /\ "registry" \notin stolen

\* A synchronisation changes whether a version is enabled only for versions its
\* source manages; others keep what the operator decided (agent_sync._plan,
\* apply).
SyncKeepsManualState ==
    [][\A c \in Clients : \A r \in Refs :
         (Synchronises(c) /\ local[r].dig # NoDigest /\ local'[r].off # local[r].off)
           => call[c].state[call[c].src][r].by = "managed"]_vars

\* A synchronisation changes what it withdraws from the registry here.
Withdraws(c, r) == Synchronises(c) /\ ~local[r].off /\ local'[r].off

\* The catalogue of the manager had more than one page.
Clipped(my) == my.src = "manager" /\ Cardinality(my.found.real) > CatalogLimit

\* A synchronisation withdraws a version only when its source no longer offered
\* it, however the discovery was cut short (only a cut by the manager's own
\* limit goes unnoticed, see WithdrawnWasGone).
WithdrawnWasMissing ==
    [][\A c \in Clients : \A r \in Refs :
         Withdraws(c, r) => r \notin call[c].found.real \/ Clipped(call[c])]_vars

\* A synchronisation touches only what is its own, and takes nothing back that
\* is revoked or still offered.
SyncIsCareful == SyncKeepsManualState /\ WithdrawnWasMissing /\ RevokedStays

\* An administrative request the service answered with success has its audit
\* event, wherever the process dies (_admin).
AnsweredIsAudited == ~silent

\* An operator's command or a synchronisation takes the version out of the
\* registry, for good, or withdraws it.
TakesAway(c, r) ==
    /\ call[c].pc = "write" /\ call'[c].pc = "release" /\ "registry" \notin stolen
    /\ \/ local[r].dig # NoDigest /\ local'[r].dig = NoDigest
       \/ ~local[r].revoked /\ local'[r].revoked
       \/ Withdraws(c, r)

\* The version an active run pinned is removed, revoked or withdrawn only by who
\* decided it before the row of the run was there: between the look for active
\* runs and the write of the registry, whatever other operators and
\* synchronisations change, the decision never reaches the version of a run that
\* the look could find (cmd_agent_revoke, cmd_agent_remove, apply, reconcile).
UsedVersionsStay ==
    [][\A c \in Clients : \A r \in Refs : TakesAway(c, r) /\ InUse(r) => c \notin run.met]_vars

\* Registry, manager and audit agree after every step, and after every death.
RegistriesAreSound ==
    /\ TypeOK /\ RegistryLoads /\ ReferenceIsImmutable
    /\ AnsweredIsAudited

-----------------------------------------------------------------------------
(* Documented promises that do not hold.  "An exact version is immutable"    *)
(* (docs/external-agent-registry.md): of two operators who find a third's    *)
(* lock old, one may remove the lock that the other has taken since.         *)

VersionIsImmutable == OneContent

(* No lifecycle decision on an incomplete catalogue (the same document).     *)
(* With two references and a limit of one it does not hold.                  *)

WithdrawnWasGone ==
    [][\A c \in Clients : \A r \in Refs :
         Withdraws(c, r) => r \notin call[c].found.real]_vars

(* Removal "fails while an active durable run still references it" (the same *)
(* document).  A run whose row is created after the look for active runs     *)
(* loses its version, and fails at its next dispatch.                        *)

UsedVersionsAreKept ==
    [][\A c \in Clients : \A r \in Refs : ~(TakesAway(c, r) /\ InUse(r))]_vars
=============================================================================
