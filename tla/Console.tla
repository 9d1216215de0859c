------------------------------- MODULE Console -------------------------------
(***************************************************************************)
(* The web console (router/console_service.py) with the workspace policy   *)
(* and the configuration file it edits (workspace_policy.py, config.py)    *)
(* and the preferences of a workspace (work_items.set_preferences).        *)
(*                                                                         *)
(* Every HTTP request is a thread of one console process; the operator's   *)
(* CLI edits the same configuration file.  A handler is a chain of steps,  *)
(* `at` names the next one: what it read before (a cached catalogue, the   *)
(* configuration, the row of preferences) may be out of date when it       *)
(* writes.  The file is read whole, edited in memory, truncated and        *)
(* written; an empty file reads as the defaults.                           *)
(***************************************************************************)
EXTENDS Naturals, FiniteSets, FiniteSetsExt, Functions

CONSTANTS
    Requests,       \* request threads, each with one request
    Asks,           \* what a request may ask for
    Workspaces, GitRoots, Sensitive,
    Roles, Profiles, DefaultProfile,
    Agents,
    Locked,         \* the workspace the console was started for, or NoWorkspace
    NoWorkspace,
    MaxStarts,      \* slots of the start semaphore
    Ttl,            \* life of a cached catalogue, by key
    MaxTime         \* bound on the clock

Keys  == {"workspaces", "agents", "providers"}
Kinds == {"workbench", "compose", "action", "preferences", "agents", "profile", "trust", "untrust"}
SafetyModes == {"automatic", "worktree", "current", "non-git"}

ASSUME PolicyAssumption == GitRoots \subseteq Workspaces /\ Sensitive \subseteq Workspaces
ASSUME ProfileAssumption == DefaultProfile \in Profiles
ASSUME LockedAssumption == Locked \in Workspaces \cup {NoWorkspace} /\ NoWorkspace \notin Workspaces
ASSUME SizeAssumption == MaxStarts \in Nat \ {0} /\ MaxTime \in Nat /\ Ttl \in [Keys -> Nat \ {0}]

\* What the routes of the console and the commands of the CLI may be asked for;
\* a safety mode that does not exist is refused before anything else.
ASSUME AsksAssumption ==
    \A a \in Asks :
        /\ a.kind \in Kinds /\ a.ws \in Workspaces
        /\ a.kind = "profile" => a.profile \in Profiles
        /\ a.kind = "preferences" =>
              /\ a.safety \in SafetyModes \cup {"keep"}
              /\ a.sets_roles => a.roles \in [Roles -> SUBSET Profiles]
              /\ a.sets_pins => a.pins \in [Roles -> SUBSET Agents]

VARIABLES
    cfg,        \* config.toml
    prefs,      \* workspace_preferences
    items,      \* the work item each request composes: its status
    req,        \* the request threads
    worker,     \* the thread that starts the item of a request
    free,       \* slots left in the start semaphore
    memo,       \* the memoised catalogues
    world,      \* what the agent catalogue would report now
    clock, up,
    lost,       \* slots that never come back
    consents,   \* workspaces somebody accepted without Git (history)
    offered     \* agents a complete catalogue offered so far (history)

vars == <<cfg, prefs, items, req, worker, free, memo, world, clock, up, lost,
          consents, offered>>

Defaults == [profiles |-> {DefaultProfile}, trusted |-> {}, plain |-> {}, torn |-> FALSE]
Torn     == [Defaults EXCEPT !.torn = TRUE]
NoPrefs  == [safety |-> "current", roles |-> [r \in Roles |-> {DefaultProfile}],
             pins |-> [r \in Roles |-> {}], there |-> FALSE]
NoMemo   == [until |-> 0, value |-> {}]
NoAsk    == [kind |-> "none"]
Thread   == [at |-> "idle", ask |-> NoAsk, cfg |-> Defaults, row |-> NoPrefs,
             seen |-> {}, since |-> 0]

Finished    == {"answered", "refused"}

\* load_config: a file that is missing, or empty, is the defaults.
Loaded == [cfg EXCEPT !.torn = FALSE]

(***************************************************************************)
(* The workspace policy.                                                   *)
(***************************************************************************)
\* inspect_workspace(w, access="write").ok with the configuration c.
Allows(c, w, protected) ==
    /\ w \notin Sensitive
    /\ w \in c.trusted
    /\ w \in GitRoots \/ w \in c.plain \/ protected

\* trust_workspace refuses a path it protects, and a folder without Git.
Trustable(w, force, protected) ==
    w \notin Sensitive /\ (w \in GitRoots \/ force \/ protected)

\* A slip: a protected copy is remembered as consent to work without Git.
TrustAny(c, w, force) ==
    [c EXCEPT !.trusted = @ \cup {w}, !.plain = IF w \notin GitRoots THEN @ \cup {w} ELSE @]

\* What trust_workspace adds to the configuration it loaded.
Trust(c, w, force) ==
    [c EXCEPT !.trusted = @ \cup {w},
              !.plain = IF w \notin GitRoots /\ force THEN @ \cup {w} ELSE @]

\* untrust_workspace.
Untrust(c, w) == [c EXCEPT !.trusted = @ \ {w}, !.plain = @ \ {w}]

(***************************************************************************)
(* The steps of a thread.                                                  *)
(***************************************************************************)
\* A thread that has answered keeps nothing but what it was asked.
Goto(r, at)    == req' = [req EXCEPT ![r] = IF at \in Finished
                            THEN [Thread EXCEPT !.at = at, !.ask = req[r].ask]
                            ELSE [@ EXCEPT !.at = at]]
At(r, at)      == up /\ req[r].at = at
Around         == UNCHANGED <<world, clock, up, offered>>
Quiet          == UNCHANGED <<worker, free, lost, memo>> /\ Around
Rest           == UNCHANGED <<cfg, prefs, items, consents>> /\ Quiet

\* The configuration r will write, after its edit of what it loaded.
Edited(r, c) ==
    LET a == req[r].ask IN
    CASE a.kind = "profile"     -> [c EXCEPT !.profiles = @ \cup {a.profile}]
      [] a.kind = "preferences" -> Trust(c, a.ws, req[r].row.safety = "non-git")
      [] a.kind = "trust"       -> Trust(c, a.ws, a.force)
      [] OTHER                  -> Untrust(c, a.ws)

\* _attachments: a path that may not be attached fails the whole request.
Attachable(a) == a.readable

\* The first step behind the scope of a request.
AfterScope(a) ==
    CASE a.kind = "workbench"   -> "answered"
      [] a.kind = "compose"     -> IF Attachable(a) THEN "acquire" ELSE "refused"
      [] a.kind = "action"      -> "permit"
      [] OTHER                  -> "roles"

\* do_GET, do_POST, _authorize_api, _read_action_request, _scope; the CLI's
\* commands start at their edit.
Receive(r) ==
    /\ At(r, "idle")
    /\ \E a \in Asks :
         LET scoped == IF Locked = NoWorkspace THEN "workspaces"
                       ELSE IF a.ws # Locked THEN "refused" ELSE AfterScope(a)
             at == IF a.kind \in {"trust", "untrust"} THEN "load"
                   ELSE IF ~a.first_party THEN "refused"
                   ELSE CASE a.kind = "agents"  -> "agents"
                          [] a.kind = "profile" -> "providers"
                          [] OTHER              -> scoped
         IN req' = [req EXCEPT ![r].ask = a, ![r].at = at]
    /\ Rest

(***************************************************************************)
(* The catalogues and their cache.                                         *)
(***************************************************************************)
\* selectable_workspaces: the roots that are trusted, have preferences or items.
SelectableWorkspaces ==
    Loaded.trusted \cup {w \in Workspaces : prefs[w].there}
                   \cup {req[r].ask.ws : r \in {q \in Requests : items[q] # "none"}}

\* describe_agents: what can be listed now, and whether that is all.
DescribeAgents == world

\* describe_providers: built from the configuration.
DescribeProviders == Loaded.profiles

Catalogue(k) == CASE k = "workspaces" -> SelectableWorkspaces
                  [] k = "agents"     -> DescribeAgents
                  [] OTHER            -> DescribeProviders

\* _agent_overrides: the listing is complete and each agent can cover its phase.
Pinnable(a, v) == v.complete /\ \A role \in Roles : a.pins[role] \subseteq v.eligible

\* What r does with the catalogue k it asked for: _scope, _agent_overrides, or
\* _profiles, whose provider is a known one.
Served(r, k, v) ==
    LET a == req[r].ask IN
    CASE k = "workspaces" -> IF a.ws \in v THEN AfterScope(a) ELSE "refused"
      [] k = "providers"  -> "load"
      [] OTHER            -> IF a.kind = "agents" THEN "answered"
                             ELSE IF Pinnable(a, v) THEN "current" ELSE "refused"

\* _cached: an entry that has not expired answers; otherwise r builds a fresh
\* one outside the lock.
Look(r) == \E k \in Keys :
    /\ At(r, k)
    /\ IF memo[k].until > clock
       THEN Goto(r, Served(r, k, memo[k].value))
       ELSE req' = [req EXCEPT ![r].at = "store", ![r].seen = [key |-> k, value |-> Catalogue(k)],
                               ![r].since = clock]
    /\ Rest

\* Expired entries are swept by the time r looked, r's own expires from now.
Remember(r) ==
    LET k == req[r].seen.key IN
    /\ At(r, "store")
    /\ memo' = [j \in Keys |->
                  IF j = k THEN [until |-> clock + Ttl[k], value |-> req[r].seen.value]
                  ELSE IF memo[j].until > req[r].since THEN memo[j] ELSE NoMemo]
    /\ Goto(r, Served(r, k, req[r].seen.value))
    /\ UNCHANGED <<cfg, prefs, items, consents, worker, free, lost>> /\ Around

\* forget_providers, after a save.
Forget(r) ==
    /\ At(r, "forget")
    /\ memo' = [memo EXCEPT !["providers"] = NoMemo]
    /\ Goto(r, "answered")
    /\ UNCHANGED <<cfg, prefs, items, consents, worker, free, lost>> /\ Around

(***************************************************************************)
(* Editing the configuration file.                                         *)
(***************************************************************************)
\* trust_workspace, untrust_workspace, upsert_execution_profile up to the save.
Load(r) ==
    LET a == req[r].ask IN
    /\ At(r, "load")
    /\ IF a.kind = "trust" /\ ~Trustable(a.ws, a.force, FALSE) THEN Goto(r, "refused")
       ELSE req' = [req EXCEPT ![r].at = "truncate", ![r].cfg = Edited(r, Loaded)]
    /\ consents' = IF a.kind = "trust" /\ a.force THEN consents \cup {a.ws} ELSE consents
    /\ UNCHANGED <<cfg, prefs, items>> /\ Quiet

\* save_config: open for writing, then write.
Truncate(r) ==
    /\ At(r, "truncate")
    /\ cfg' = Torn
    /\ Goto(r, "fill")
    /\ UNCHANGED <<prefs, items, consents>> /\ Quiet

Fill(r) ==
    /\ At(r, "fill")
    /\ cfg' = req[r].cfg
    /\ Goto(r, CASE req[r].ask.kind = "preferences" -> "upsert"
                 [] req[r].ask.kind = "profile"     -> "forget"
                 [] OTHER                           -> "answered")
    /\ UNCHANGED <<prefs, items, consents>> /\ Quiet

(***************************************************************************)
(* Preferences.                                                            *)
(***************************************************************************)
\* _role_profiles: every phase is named, with profiles that exist now.
CompleteRoles(a) == \A role \in Roles : a.roles[role] # {} /\ a.roles[role] \subseteq Loaded.profiles

CheckRoles(r) ==
    /\ At(r, "roles")
    /\ LET a == req[r].ask IN
       Goto(r, IF a.sets_roles /\ ~CompleteRoles(a) THEN "refused"
               ELSE IF a.sets_pins THEN "agents" ELSE "current")
    /\ Rest

\* set_preferences up to trust_workspace: the row, the profiles it would name,
\* the policy of the safety mode and the consent it asks for.
ReadCurrent(r) ==
    LET a   == req[r].ask
        old == prefs[a.ws]
        new == [there  |-> TRUE,
                safety |-> IF a.safety = "keep" THEN old.safety ELSE a.safety,
                roles  |-> IF a.sets_roles THEN a.roles ELSE old.roles,
                pins   |-> IF a.sets_pins THEN a.pins ELSE old.pins]
        automatic == new.safety = "automatic"
        allowed   == Allows(Loaded, a.ws, automatic)
        consented == a.ws \in Loaded.plain \/ a.consent
        forced    == new.safety = "non-git"
    IN
    /\ At(r, "current")
    /\ IF \/ \E role \in Roles : ~(new.roles[role] \subseteq Loaded.profiles)
          \/ forced /\ ~consented
          \/ (forced \/ ~allowed) /\ ~Trustable(a.ws, forced, automatic)
       THEN Goto(r, "refused") /\ UNCHANGED consents
       ELSE /\ req' = [req EXCEPT ![r].row = new,
                                  ![r].at = IF forced \/ ~allowed THEN "load" ELSE "upsert"]
            /\ consents' = IF forced /\ a.consent THEN consents \cup {a.ws} ELSE consents
    /\ UNCHANGED <<cfg, prefs, items>> /\ Quiet

\* The whole row is written, from what r read and was asked for.
Upsert(r) ==
    /\ At(r, "upsert")
    /\ prefs' = [prefs EXCEPT ![req[r].ask.ws] = req[r].row]
    /\ Goto(r, "answered")
    /\ UNCHANGED <<cfg, items, consents>> /\ Quiet

(***************************************************************************)
(* Composing a task, and starting it in the background.                    *)
(***************************************************************************)
\* Without a free slot the answer is 429.
AcquireSlot(r) ==
    /\ At(r, "acquire")
    /\ IF free > 0 THEN free' = free - 1 /\ Goto(r, "create")
                   ELSE Goto(r, "refused") /\ UNCHANGED free
    /\ UNCHANGED <<cfg, prefs, items, consents, worker, lost, memo>> /\ Around

\* WorkItemService.create, or continue_item on the item of another request.
ItemOf(r) == IF req[r].ask.follow THEN {q \in Requests \ {r} : items[q] = "ended"} ELSE {r}

\* A task the policy or the service refuses gives its slot back; an exception
\* nobody expects here (an error of SQLite, of opening the store) keeps it.
Create(r) ==
    /\ At(r, "create")
    /\ \/ /\ \E i \in ItemOf(r) : /\ items' = [items EXCEPT ![i] = "draft"]
                                  /\ worker' = [worker EXCEPT ![r] = [at |-> "start", item |-> i]]
          /\ Goto(r, "answered")
          /\ UNCHANGED <<free, lost>>
       \/ /\ \/ free' = free + 1 /\ UNCHANGED lost
             \/ lost' = lost + 1 /\ UNCHANGED free
          /\ Goto(r, "refused")
          /\ UNCHANGED <<items, worker>>
    /\ UNCHANGED <<cfg, prefs, consents, memo>> /\ Around

\* WorkItemService.start in the thread: the item runs, or the start is refused
\* (by the policy, or since another start came first).
StartItem(r) ==
    LET i == worker[r].item IN
    /\ up /\ worker[r].at = "start"
    /\ \/ /\ items[i] = "draft"
          /\ items' = [items EXCEPT ![i] = "running"]
          /\ worker' = [worker EXCEPT ![r].at = "run"]
       \/ /\ worker' = [worker EXCEPT ![r].at = "release"]
          /\ UNCHANGED items
    /\ UNCHANGED <<cfg, prefs, consents, req, free, lost, memo>> /\ Around

\* The workflow ends, waits for a decision, or was cancelled by another request.
RunItem(r) ==
    LET i == worker[r].item IN
    /\ up /\ worker[r].at = "run"
    /\ \E s \in {"ended", "decision"} :
         items' = [items EXCEPT ![i] = IF @ = "running" THEN s ELSE @]
    /\ worker' = [worker EXCEPT ![r].at = "release"]
    /\ UNCHANGED <<cfg, prefs, consents, req, free, lost, memo>> /\ Around

\* A slip: only a start that succeeded gives its slot back.
ReleaseAfterSuccess(r) ==
    /\ up /\ worker[r].at = "release"
    /\ worker' = [worker EXCEPT ![r].at = "over"]
    /\ free' = IF items[worker[r].item] = "draft" THEN free ELSE free + 1
    /\ UNCHANGED <<cfg, prefs, items, consents, req, lost, memo>> /\ Around

\* finally: the slot comes back however the start went.
Release(r) ==
    /\ up /\ worker[r].at = "release"
    /\ worker' = [worker EXCEPT ![r].at = "over"]
    /\ free' = free + 1
    /\ UNCHANGED <<cfg, prefs, items, consents, req, lost, memo>> /\ Around

(***************************************************************************)
(* Decisions.                                                              *)
(***************************************************************************)
\* allowed_actions of an item, for what it waits for.
Permitted(i) == CASE items[i] = "running"  -> {"cancel"}
                  [] items[i] = "decision" -> {"cancel", "approve"}
                  [] OTHER                 -> {}

\* _actions: what the durable state permits now, not what the page showed.
Permit(r) ==
    /\ At(r, "permit")
    /\ \E i \in Requests : req' = [req EXCEPT ![r].seen = i, ![r].at =
            IF req[r].ask.action \in Permitted(i) THEN "apply" ELSE "refused"]
    /\ Rest

\* _run_action: the durable layer decides again under the lease of the run.
Apply(r) ==
    LET i == req[r].seen IN
    /\ At(r, "apply")
    /\ IF req[r].ask.action \in Permitted(i)
       THEN items' = [items EXCEPT ![i] = "ended"] /\ Goto(r, "answered")
       ELSE Goto(r, "refused") /\ UNCHANGED items
    /\ UNCHANGED <<cfg, prefs, consents>> /\ Quiet

(***************************************************************************)
(* The world around the console.                                           *)
(***************************************************************************)
Tick ==
    /\ clock < MaxTime
    /\ clock' = clock + 1
    /\ UNCHANGED <<cfg, prefs, items, req, worker, free, lost, memo, world, up, consents, offered>>

\* The agent manager answers or not; agents come and go.
World ==
    /\ world' \in [complete : BOOLEAN, eligible : SUBSET Agents]
    /\ world' # world
    /\ offered' = offered \cup (IF world'.complete THEN world'.eligible ELSE {})
    /\ UNCHANGED <<cfg, prefs, items, req, worker, free, lost, memo, clock, up, consents>>

\* The process ends, with its daemon threads; the file stays as it is.
Die ==
    /\ up /\ up' = FALSE
    /\ UNCHANGED <<cfg, prefs, items, req, worker, free, lost, memo, world, clock, consents, offered>>

Init ==
    /\ cfg \in {Defaults, [Defaults EXCEPT !.trusted = Workspaces \ Sensitive]}
    /\ prefs = [w \in Workspaces |-> NoPrefs]
    /\ items = [r \in Requests |-> "none"]
    /\ req = [r \in Requests |-> Thread]
    /\ worker = [r \in Requests |-> [at |-> "none", item |-> r]]
    /\ free = MaxStarts
    /\ memo = [k \in Keys |-> NoMemo]
    /\ world \in [complete : BOOLEAN, eligible : SUBSET Agents]
    /\ clock = 0 /\ up = TRUE /\ lost = 0 /\ consents = {}
    /\ offered = IF world.complete THEN world.eligible ELSE {}

Handle(r) ==
    \/ Look(r) \/ Remember(r) \/ Forget(r) \/ Load(r) \/ Truncate(r) \/ Fill(r)
    \/ CheckRoles(r) \/ ReadCurrent(r) \/ Upsert(r)
    \/ AcquireSlot(r) \/ Create(r) \/ Permit(r) \/ Apply(r)

StartWork(r) == StartItem(r) \/ RunItem(r) \/ Release(r)

Next ==
    \/ \E r \in Requests : Receive(r) \/ Handle(r) \/ StartWork(r)
    \/ Tick \/ World \/ Die

\* Threads are scheduled; requests, time, the agents and the end of the
\* process are not owed to anybody.
Fairness == \A r \in Requests : WF_vars(Handle(r)) /\ WF_vars(StartWork(r))

Spec == Init /\ [][Next]_vars /\ Fairness

(***************************************************************************)
(* Properties.                                                             *)
(***************************************************************************)
\* Working in a protected copy never counts as consent to work in a folder
\* without Git: whatever edits and torn reads race, the file lists only
\* folders somebody accepted (the comment of inspect_workspace).
ProtectionIsNotConsent == cfg.plain \subseteq consents

\* A pin names an agent that a complete catalogue offered: an unreachable
\* manager never decides what is pinned, however the cache ages and however
\* the saves of two tabs race (_agent_overrides).
PinsWereOffered == \A w \in Workspaces, role \in Roles : prefs[w].pins[role] \subseteq offered

\* Every variable holds one of the values the program can give it.
TypeOK ==
    /\ cfg.profiles \subseteq Profiles /\ cfg.trusted \subseteq Workspaces
    /\ cfg.plain \subseteq Workspaces
    /\ free \in 0..MaxStarts
    /\ \A w \in Workspaces : prefs[w].safety \in SafetyModes

\* What a start uses was chosen by somebody who could see it.
ChoicesAreOwned == TypeOK /\ ProtectionIsNotConsent /\ PinsWereOffered

\* However starts end, and whatever is refused, every slot an expected outcome
\* used comes back: a console that answers 429 accepts tasks again
\* (_compose, _start_in_background).  Requests is a finite set.
SlotsComeBack == <>[](~up \/ free + lost = MaxStarts)
==============================================================================
