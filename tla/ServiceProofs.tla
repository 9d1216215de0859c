---------------------------- MODULE ServiceProofs ----------------------------
(***************************************************************************)
(* Proofs about the two services at the edges of the router, which share   *)
(* nothing: the web console that people use, and the runner that starts    *)
(* local agents.                                                           *)
(*                                                                         *)
(* The console, for any requests, workers, folders, agents and caches: a   *)
(* choice that a start uses was made by somebody who could see it, and     *)
(* every slot for starts has at most one holder.                           *)
(*                                                                         *)
(* The agent runner, for any number of calls, of cancel requests and of    *)
(* deaths: its agent is started at most once, an uncertain write is never  *)
(* reported as a failure, and a call that answered leaves a job that is    *)
(* over.                                                                   *)
(***************************************************************************)
EXTENDS Console, AgentRunner, FiniteSetTheorems, TLAPS

-----------------------------------------------------------------------------
(* The console. *)

Catalogs  == [complete : BOOLEAN, eligible : SUBSET Agents]
Values    == (SUBSET Workspaces) \cup (SUBSET Profiles) \cup Catalogs
Configs   == [profiles : SUBSET Profiles, trusted : SUBSET Workspaces,
              plain : SUBSET Workspaces, torn : BOOLEAN]
Rows      == [there : BOOLEAN, safety : SafetyModes, roles : [Roles -> SUBSET Profiles],
              pins : [Roles -> SUBSET Agents]]
Places    == Keys \cup Finished \cup
             {"idle", "store", "forget", "load", "truncate", "fill", "roles", "current",
              "upsert", "acquire", "create", "permit", "apply"}
Threads   == [at : Places, ask : Asks \cup {NoAsk}, cfg : Configs, row : Rows,
              seen : {{}} \cup [key : Keys, value : Values] \cup Requests, since : Nat]
Workers   == [at : {"none", "start", "run", "release", "over"}, item : Requests]
ItemStates == {"none", "draft", "running", "decision", "ended"}

Typed ==
    /\ cfg \in Configs
    /\ prefs \in [Workspaces -> Rows]
    /\ items \in [Requests -> ItemStates]
    /\ req \in [Requests -> Threads]
    /\ worker \in [Requests -> Workers]
    /\ free \in Nat /\ lost \in Nat /\ clock \in Nat
    /\ memo \in [Keys -> [until : Nat, value : Values]]
    /\ world \in Catalogs

\* What a complete catalogue offered stays offered, so a copy of it may be old.
Honest(v) == v.complete => v.eligible \subseteq offered

\* The ways through the handlers: which request can be at which step.
OnItsWay(r) ==
    LET t == req[r]
        Asking(k) == t.at = k \/ (t.at = "store" /\ t.seen.key = k)
    IN /\ t.at # "idle" => t.ask \in Asks
       /\ items[r] # "none" => t.ask \in Asks
       /\ t.at = "store" => t.seen \in [key : Keys, value : Values]
       /\ Asking("workspaces") => t.ask.kind \in {"workbench", "compose", "action", "preferences"}
       /\ Asking("agents") => t.ask.kind = "agents" \/ (t.ask.kind = "preferences" /\ t.ask.sets_pins)
       /\ Asking("providers") => t.ask.kind = "profile"
       /\ t.at \in {"roles", "current", "upsert"} => t.ask.kind = "preferences"
       /\ t.at \in {"load", "truncate", "fill"} =>
            t.ask.kind \in {"profile", "preferences", "trust", "untrust"}

\* Whoever will write the file has the consent for what it adds.
HasConsent(r) ==
    LET t == req[r] IN
    /\ t.at = "load" /\ t.ask.kind = "preferences" /\ t.row.safety = "non-git" =>
          t.ask.ws \in consents
    /\ t.at \in {"truncate", "fill"} => t.cfg.plain \subseteq consents

\* Whoever will write a row has seen the agents it names on offer.
SawTheOffer(r) ==
    LET t == req[r] IN
    /\ t.at = "store" /\ t.seen.key = "agents" => Honest(t.seen.value)
    /\ t.at = "current" /\ t.ask.sets_pins =>
          \A role \in Roles : t.ask.pins[role] \subseteq offered
    /\ t.at \in {"load", "truncate", "fill", "upsert"} /\ t.ask.kind = "preferences" =>
          \A role \in Roles : t.row.pins[role] \subseteq offered

\* A slot is held by the request that took it, and then by its worker.
Working == {"start", "run", "release"}
Holders == {r \in Requests : req[r].at = "create" \/ worker[r].at \in Working}
SlotsAreKept ==
    /\ \A r \in Requests : worker[r].at # "none" => req[r].at = "answered"
    /\ IsFiniteSet(Holders)
    /\ free + lost + Cardinality(Holders) = MaxStarts

Sound(r) == OnItsWay(r) /\ HasConsent(r) /\ SawTheOffer(r)
Shared ==
    /\ cfg.plain \subseteq consents
    /\ \A w \in Workspaces, role \in Roles : prefs[w].pins[role] \subseteq offered
    /\ memo["agents"].until # 0 => Honest(memo["agents"].value)
    /\ world.complete => world.eligible \subseteq offered
IInv == Typed /\ (\A r \in Requests : Sound(r)) /\ Shared /\ SlotsAreKept

-----------------------------------------------------------------------------
(* The shapes of a step of the console. *)

LEMMA ThreadIsOne == Thread \in Threads /\ Thread.at = "idle"
<1>1. Defaults \in Configs
  BY ProfileAssumption DEF Defaults, Configs
<1>2. NoPrefs \in Rows
  BY ProfileAssumption DEF NoPrefs, Rows, SafetyModes
<1>3. QED
  BY <1>1, <1>2 DEF Thread, Threads, Places

\* Going somewhere moves one thread; who has answered keeps only the question.
LEMMA GotoIs ==
    ASSUME Typed, NEW r \in Requests, NEW p \in Places, Goto(r, p)
    PROVE  /\ req' \in [Requests -> Threads]
           /\ \A q \in Requests \ {r} : req'[q] = req[q]
           /\ req'[r].at = p /\ req'[r].ask = req[r].ask
           /\ p \notin Finished => /\ req'[r].cfg = req[r].cfg /\ req'[r].row = req[r].row
                                   /\ req'[r].seen = req[r].seen
<1>1. req \in [Requests -> Threads] /\ req[r] \in Threads
  BY DEF Typed
<1>2. CASE p \in Finished
  <2>1. req' = [req EXCEPT ![r] = [Thread EXCEPT !.at = p, !.ask = req[r].ask]]
    BY <1>2 DEF Goto
  <2>2. /\ [Thread EXCEPT !.at = p, !.ask = req[r].ask] \in Threads
        /\ [Thread EXCEPT !.at = p, !.ask = req[r].ask].at = p
        /\ [Thread EXCEPT !.at = p, !.ask = req[r].ask].ask = req[r].ask
    BY <1>1, ThreadIsOne DEF Threads
  <2> HIDE DEF Threads
  <2>3. QED
    BY <1>1, <1>2, <2>1, <2>2
<1>3. CASE p \notin Finished
  <2>1. req' = [req EXCEPT ![r] = [req[r] EXCEPT !.at = p]]
    BY <1>1, <1>3 DEF Goto
  <2>2. /\ [req[r] EXCEPT !.at = p] \in Threads
        /\ [req[r] EXCEPT !.at = p].at = p
        /\ [req[r] EXCEPT !.at = p].ask = req[r].ask
        /\ [req[r] EXCEPT !.at = p].cfg = req[r].cfg
        /\ [req[r] EXCEPT !.at = p].row = req[r].row
        /\ [req[r] EXCEPT !.at = p].seen = req[r].seen
    BY <1>1 DEF Threads
  <2>3. QED
    BY <1>1, <1>3, <2>1, <2>2
<1>4. QED
  BY <1>2, <1>3

\* What a request is at stays true while others move: consents and offers are
\* not taken back, and no item disappears.
LEMMA BystandersSound ==
    ASSUME \A q \in Requests : Sound(q), NEW r \in Requests,
           \A q \in Requests \ {r} : req'[q] = req[q] /\ (items'[q] # "none" => items[q] # "none"),
           consents \subseteq consents', offered \subseteq offered'
    PROVE  \A q \in Requests \ {r} : Sound(q)'
<1> SUFFICES ASSUME NEW q \in Requests \ {r} PROVE Sound(q)'
  OBVIOUS
<1>1. req'[q] = req[q] /\ (items'[q] # "none" => items[q] # "none") /\ Sound(q)
  OBVIOUS
<1>2. OnItsWay(q)'
  BY <1>1 DEF Sound, OnItsWay
<1>3. HasConsent(q)'
  BY <1>1 DEF Sound, HasConsent
<1>4. SawTheOffer(q)'
  BY <1>1 DEF Sound, SawTheOffer, Honest
<1>5. QED
  BY <1>2, <1>3, <1>4 DEF Sound

\* Nobody took or returned a slot.
LEMMA SlotsStay ==
    ASSUME SlotsAreKept, free' = free, lost' = lost,
           \A q \in Requests :
              /\ req'[q].at = "create" \/ worker'[q].at \in Working
                   <=> req[q].at = "create" \/ worker[q].at \in Working
              /\ worker'[q].at # "none" => req'[q].at = "answered"
    PROVE  SlotsAreKept'
<1>1. Holders' = Holders
  BY DEF Holders
<1>2. QED
  BY <1>1 DEF SlotsAreKept

\* A step of one thread that is none of those that take or return a slot.
LEMMA ThreadSlots ==
    ASSUME SlotsAreKept, NEW r \in Requests, UNCHANGED <<worker, free, lost>>,
           \A q \in Requests \ {r} : req'[q] = req[q],
           req[r].at \notin {"create", "answered"}, req'[r].at # "create"
    PROVE  SlotsAreKept'
<1>1. \A q \in Requests : worker'[q] = worker[q] /\ (worker[q].at # "none" => req[q].at = "answered")
  BY DEF SlotsAreKept
<1>2. worker[r].at = "none"
  BY <1>1
<1>3. QED
  BY <1>1, <1>2, SlotsStay DEF Working

\* What a step of one thread has to show.
LEMMA OneThread ==
    ASSUME IInv, NEW r \in Requests, Typed', Sound(r)', Shared', SlotsAreKept',
           \A q \in Requests \ {r} : req'[q] = req[q] /\ (items'[q] # "none" => items[q] # "none"),
           consents \subseteq consents', offered \subseteq offered'
    PROVE  IInv'
<1>1. \A q \in Requests \ {r} : Sound(q)'
  BY BystandersSound DEF IInv
<1>2. QED
  BY <1>1 DEF IInv

\* A thread that only moves on, and changes nothing that others see.
LEMMA MovesOn ==
    ASSUME IInv, NEW r \in Requests, Rest, NEW p \in Places, Goto(r, p),
           req[r].at \notin {"create", "answered"}, p # "create",
           Sound(r)'
    PROVE  IInv'
<1>1. /\ req' \in [Requests -> Threads]
      /\ \A q \in Requests \ {r} : req'[q] = req[q]
      /\ req'[r].at = p
  BY GotoIs DEF IInv
<1>2. Typed'
  BY <1>1 DEF IInv, Typed, Rest, Quiet, Around
<1>3. Shared'
  BY DEF IInv, Shared, Honest, Rest, Quiet, Around
<1>4. SlotsAreKept'
  BY <1>1, ThreadSlots DEF IInv, Rest, Quiet
<1>5. QED
  BY <1>1, <1>2, <1>3, <1>4, OneThread DEF Rest, Quiet, Around

\* Where a thread may go once its scope is known, without more to show.
Onward == Finished \cup {"acquire", "permit", "forget", "apply"}

LEMMA MovedSound ==
    ASSUME IInv, NEW r \in Requests, NEW p \in Onward \cup {"roles", "load", "current", "agents"},
           Goto(r, p), req[r].ask \in Asks, UNCHANGED <<offered, items>>,
           p = "roles" => req[r].ask.kind = "preferences",
           p = "load" => req[r].ask.kind = "profile",
           p = "agents" => req[r].ask.kind = "preferences" /\ req[r].ask.sets_pins,
           p = "current" => req[r].ask.kind = "preferences",
           p = "current" /\ req[r].ask.sets_pins =>
              \A role \in Roles : req[r].ask.pins[role] \subseteq offered
    PROVE  Sound(r)'
<1>1. p \in Places
  BY DEF Places, Onward, Finished, Keys
<1>2. req'[r].at = p /\ req'[r].ask = req[r].ask
  BY <1>1, GotoIs DEF IInv
<1>3. OnItsWay(r)'
  BY <1>2 DEF OnItsWay, Onward, Finished
<1>4. HasConsent(r)'
  BY <1>2 DEF HasConsent, Onward, Finished
<1>5. SawTheOffer(r)'
  BY <1>2 DEF SawTheOffer, Onward, Finished
<1>6. QED
  BY <1>3, <1>4, <1>5 DEF Sound

LEMMA ScopeLeads ==
    ASSUME NEW a, a.kind \in {"workbench", "compose", "action", "preferences"}
    PROVE  /\ AfterScope(a) \in Finished \cup {"acquire", "permit", "roles"}
           /\ AfterScope(a) = "roles" => a.kind = "preferences"
BY DEF AfterScope, Finished

\* What a catalogue leads to, for who asked for it and for one that is honest.
LEMMA ServedLeads ==
    ASSUME NEW r \in Requests, NEW k \in Keys, NEW v, req[r].ask \in Asks,
           k = "workspaces" => req[r].ask.kind \in {"workbench", "compose", "action", "preferences"},
           k = "agents" => /\ req[r].ask.kind = "agents"
                              \/ (req[r].ask.kind = "preferences" /\ req[r].ask.sets_pins)
                           /\ Honest(v),
           k = "providers" => req[r].ask.kind = "profile"
    PROVE  /\ Served(r, k, v) \in Finished \cup {"acquire", "permit", "roles", "load", "current"}
           /\ Served(r, k, v) = "roles" => req[r].ask.kind = "preferences"
           /\ Served(r, k, v) = "load" => req[r].ask.kind = "profile"
           /\ Served(r, k, v) = "current" => req[r].ask.kind = "preferences"
           /\ Served(r, k, v) = "current" /\ req[r].ask.sets_pins =>
                 \A role \in Roles : req[r].ask.pins[role] \subseteq offered
<1>1. CASE k = "workspaces"
  <2>1. Served(r, k, v) \in {AfterScope(req[r].ask), "refused"}
    BY <1>1 DEF Served
  <2>2. QED
    BY <1>1, <2>1, ScopeLeads DEF Finished
<1>2. CASE k = "providers"
  BY <1>2 DEF Served
<1>3. CASE k = "agents"
  <2>1. \/ Served(r, k, v) = "answered" \/ Served(r, k, v) = "refused"
        \/ Served(r, k, v) = "current" /\ req[r].ask.kind # "agents" /\ Pinnable(req[r].ask, v)
    BY <1>3 DEF Served
  <2>2. Pinnable(req[r].ask, v) => \A role \in Roles : req[r].ask.pins[role] \subseteq offered
    BY <1>3 DEF Pinnable, Honest
  <2>3. QED
    BY <1>3, <2>1, <2>2 DEF Finished
<1>4. QED
  BY <1>1, <1>2, <1>3 DEF Keys

LEMMA CatalogueIs ==
    ASSUME IInv, NEW k \in Keys
    PROVE  /\ Catalogue(k) \in Values
           /\ k = "agents" => Honest(Catalogue(k))
<1>1. CASE k = "workspaces"
  <2>1. Loaded.trusted \subseteq Workspaces
    BY DEF IInv, Typed, Configs, Loaded
  <2>2. \A q \in Requests : items[q] # "none" => req[q].ask.ws \in Workspaces
    BY AsksAssumption DEF IInv, Sound, OnItsWay
  <2>3. SelectableWorkspaces \subseteq Workspaces
    BY <2>1, <2>2 DEF SelectableWorkspaces
  <2>4. QED
    BY <1>1, <2>3 DEF Catalogue, Values
<1>2. CASE k = "agents"
  <2>1. Catalogue(k) = world
    BY <1>2 DEF Catalogue, DescribeAgents
  <2>2. world \in Catalogs /\ Honest(world)
    BY DEF IInv, Typed, Shared, Honest
  <2>3. QED
    <3>1. world \in Values
      BY <2>2 DEF Values
    <3>2. QED
      BY <2>1, <2>2, <3>1
<1>3. CASE k = "providers"
  <2>1. Loaded.profiles \subseteq Profiles
    BY DEF IInv, Typed, Configs, Loaded
  <2>2. QED
    <3>1. Catalogue(k) = Loaded.profiles
      BY <1>3 DEF Catalogue, DescribeProviders
    <3>2. QED
      <4>1. Loaded.profiles \in Values
        BY <2>1 DEF Values
      <4>2. QED
        BY <1>3, <3>1, <4>1
<1>4. QED
  BY <1>1, <1>2, <1>3 DEF Keys

-----------------------------------------------------------------------------
(* The steps of the console. *)

LEMMA ReceiveInv == ASSUME IInv, NEW r \in Requests, Receive(r) PROVE IInv'
<1>1. PICK a \in Asks, p \in Places :
        /\ req' = [req EXCEPT ![r].ask = a, ![r].at = p]
        /\ p \in {"load", "agents", "providers", "workspaces", "acquire", "permit", "roles"} \cup Finished
        /\ p = "load" => a.kind \in {"trust", "untrust"}
        /\ p = "agents" => a.kind = "agents"
        /\ p = "providers" => a.kind = "profile"
        /\ p = "workspaces" \/ p = "roles" =>
              a.kind \in {"workbench", "compose", "action", "preferences"}
        /\ p = "roles" => a.kind = "preferences"
  <2>1. PICK a \in Asks :
          LET scoped == IF Locked = NoWorkspace THEN "workspaces"
                        ELSE IF a.ws # Locked THEN "refused" ELSE AfterScope(a)
              next == IF a.kind \in {"trust", "untrust"} THEN "load"
                      ELSE IF ~a.first_party THEN "refused"
                      ELSE CASE a.kind = "agents"  -> "agents"
                             [] a.kind = "profile" -> "providers"
                             [] OTHER              -> scoped
          IN req' = [req EXCEPT ![r].ask = a, ![r].at = next]
    BY DEF Receive
  <2> DEFINE scoped == IF Locked = NoWorkspace THEN "workspaces"
                       ELSE IF a.ws # Locked THEN "refused" ELSE AfterScope(a)
             p == IF a.kind \in {"trust", "untrust"} THEN "load"
                  ELSE IF ~a.first_party THEN "refused"
                  ELSE CASE a.kind = "agents"  -> "agents"
                         [] a.kind = "profile" -> "providers"
                         [] OTHER              -> scoped
  <2>2. req' = [req EXCEPT ![r].ask = a, ![r].at = p]
    BY <2>1
  <2>3. a.kind \in Kinds
    BY AsksAssumption
  <2>4. CASE a.kind \in {"trust", "untrust"}
    <3>1. p = "load"
      BY <2>4
    <3> HIDE DEF p
    <3>2. QED
      <4>1. p \in Places
        BY <3>1 DEF Places
      <4>2. QED
        BY <2>2, <2>4, <3>1, <4>1 DEF Finished
  <2>5. CASE a.kind \in {"agents", "profile"}
    <3>1. \/ p = "refused"
          \/ p = "agents" /\ a.kind = "agents"
          \/ p = "providers" /\ a.kind = "profile"
      BY <2>5
    <3> HIDE DEF p
    <3>2. QED
      BY <2>2, <2>5, <3>1 DEF Places, Finished, Keys
  <2>6. CASE a.kind \in {"workbench", "compose", "action", "preferences"}
    <3>1. p \in {"refused", "workspaces", AfterScope(a)}
      BY <2>6
    <3> HIDE DEF p
    <3>2. p \in Places
      BY <2>6, <3>1, ScopeLeads DEF Places, Finished, Keys
    <3>3. QED
      <4>1. /\ p \in {"workspaces", "acquire", "permit", "roles"} \cup Finished
            /\ p = "roles" => a.kind = "preferences"
        BY <2>6, <3>1, ScopeLeads DEF Finished
      <4>2. QED
        BY <2>2, <2>6, <3>2, <4>1 DEF Finished
  <2>7. QED
    BY <2>3, <2>4, <2>5, <2>6 DEF Kinds
<1>2. req[r].at = "idle" /\ Rest
  BY DEF Receive, At
<1>3. /\ req' \in [Requests -> Threads]
      /\ \A q \in Requests \ {r} : req'[q] = req[q]
      /\ req'[r].at = p /\ req'[r].ask = a
  <2> DEFINE t == [req[r] EXCEPT !.ask = a, !.at = p]
  <2>1. req \in [Requests -> Threads] /\ req[r] \in Threads
    BY DEF IInv, Typed
  <2>2. t \in Threads /\ t.at = p /\ t.ask = a
    BY <2>1 DEF Threads
  <2>3. req' = [req EXCEPT ![r] = t]
    BY <1>1, <2>1
  <2> HIDE DEF t
  <2>4. QED
    BY <2>1, <2>2, <2>3
<1>4. Typed'
  BY <1>2, <1>3 DEF IInv, Typed, Rest, Quiet, Around
<1>5. Shared'
  BY <1>2 DEF IInv, Shared, Honest, Rest, Quiet, Around
<1>6. SlotsAreKept'
  BY <1>1, <1>2, <1>3, ThreadSlots DEF IInv, Rest, Quiet, Finished
<1>7. OnItsWay(r)'
  BY <1>1, <1>3 DEF OnItsWay, Finished
<1>8. HasConsent(r)' /\ SawTheOffer(r)'
  BY <1>1, <1>3 DEF HasConsent, SawTheOffer, Finished
<1>9. QED
  BY <1>2, <1>3, <1>4, <1>5, <1>6, <1>7, <1>8, OneThread DEF Sound, Rest, Quiet, Around

LEMMA LookInv == ASSUME IInv, NEW r \in Requests, Look(r) PROVE IInv'
<1>1. PICK k \in Keys :
        /\ At(r, k)
        /\ IF memo[k].until > clock
           THEN Goto(r, Served(r, k, memo[k].value))
           ELSE req' = [req EXCEPT ![r].at = "store",
                                   ![r].seen = [key |-> k, value |-> Catalogue(k)],
                                   ![r].since = clock]
        /\ Rest
  BY DEF Look
<1>2. /\ req[r].at = k /\ req[r].ask \in Asks /\ k \notin {"idle", "store", "create", "answered"}
      /\ k = "workspaces" => req[r].ask.kind \in {"workbench", "compose", "action", "preferences"}
      /\ k = "agents" => \/ req[r].ask.kind = "agents"
                         \/ req[r].ask.kind = "preferences" /\ req[r].ask.sets_pins
      /\ k = "providers" => req[r].ask.kind = "profile"
  BY <1>1 DEF At, Keys, IInv, Sound, OnItsWay
<1>3. CASE memo[k].until > clock
  <2> DEFINE p == Served(r, k, memo[k].value)
  <2>1. memo[k].until # 0
    BY <1>3 DEF IInv, Typed
  <2>2. k = "agents" => Honest(memo[k].value)
    BY <2>1 DEF IInv, Shared
  <2>3. /\ p \in Finished \cup {"acquire", "permit", "roles", "load", "current"}
        /\ p = "roles" => req[r].ask.kind = "preferences"
        /\ p = "load" => req[r].ask.kind = "profile"
        /\ p = "current" => req[r].ask.kind = "preferences"
        /\ p = "current" /\ req[r].ask.sets_pins =>
              \A role \in Roles : req[r].ask.pins[role] \subseteq offered
    BY <1>2, <2>2, ServedLeads
  <2>4. Goto(r, p)
    BY <1>1, <1>3
  <2> HIDE DEF p
  <2>5. p \in Places /\ p # "create" /\ p # "agents"
    BY <2>3 DEF Places, Finished
  <2>6. Sound(r)'
    BY <1>1, <1>2, <2>3, <2>4, <2>5, MovedSound DEF Onward, Rest, Quiet, Around
  <2>7. QED
    BY <1>1, <1>2, <2>4, <2>5, <2>6, MovesOn
<1>4. CASE ~(memo[k].until > clock)
  <2> DEFINE s == [key |-> k, value |-> Catalogue(k)]
  <2>1. s \in [key : Keys, value : Values] /\ s.key = k /\ (k = "agents" => Honest(s.value))
    BY CatalogueIs
  <2>2. req' = [req EXCEPT ![r].at = "store", ![r].seen = s, ![r].since = clock]
    BY <1>1, <1>4
  <2> HIDE DEF s
  <2>3. /\ req' \in [Requests -> Threads]
        /\ \A q \in Requests \ {r} : req'[q] = req[q]
        /\ req'[r].at = "store" /\ req'[r].ask = req[r].ask /\ req'[r].seen = s
    <3> DEFINE t == [req[r] EXCEPT !.at = "store", !.seen = s, !.since = clock]
    <3>1. req \in [Requests -> Threads] /\ req[r] \in Threads /\ clock \in Nat
      BY DEF IInv, Typed
    <3>2. t \in Threads /\ t.at = "store" /\ t.ask = req[r].ask /\ t.seen = s
      BY <2>1, <3>1 DEF Threads, Places
    <3>3. req' = [req EXCEPT ![r] = t]
      BY <2>2, <3>1
    <3> HIDE DEF t
    <3>4. QED
      BY <3>1, <3>2, <3>3
  <2>4. Typed'
    BY <1>1, <2>3 DEF IInv, Typed, Rest, Quiet, Around
  <2>5. Shared'
    BY <1>1 DEF IInv, Shared, Honest, Rest, Quiet, Around
  <2>6. SlotsAreKept'
    BY <1>1, <1>2, <2>3, ThreadSlots DEF IInv, Rest, Quiet
  <2>7. OnItsWay(r)'
    BY <1>2, <2>1, <2>3 DEF OnItsWay
  <2>8. HasConsent(r)' /\ SawTheOffer(r)'
    BY <1>1, <1>2, <2>1, <2>3 DEF HasConsent, SawTheOffer, Honest, Rest, Quiet, Around
  <2>9. QED
    BY <1>1, <2>3, <2>4, <2>5, <2>6, <2>7, <2>8, OneThread DEF Sound, Rest, Quiet, Around
<1>5. QED
  BY <1>3, <1>4

LEMMA RememberInv == ASSUME IInv, NEW r \in Requests, Remember(r) PROVE IInv'
<1> DEFINE k == req[r].seen.key
           v == req[r].seen.value
           p == Served(r, k, v)
<1>1. /\ req[r].at = "store" /\ req[r].ask \in Asks /\ k \in Keys /\ v \in Values
      /\ k = "workspaces" => req[r].ask.kind \in {"workbench", "compose", "action", "preferences"}
      /\ k = "agents" => \/ req[r].ask.kind = "agents"
                         \/ req[r].ask.kind = "preferences" /\ req[r].ask.sets_pins
      /\ k = "providers" => req[r].ask.kind = "profile"
      /\ k = "agents" => Honest(v)
  BY DEF Remember, At, IInv, Sound, OnItsWay, SawTheOffer
<1>2. /\ Goto(r, p)
      /\ memo' = [j \in Keys |->
                    IF j = k THEN [until |-> clock + Ttl[k], value |-> v]
                    ELSE IF memo[j].until > req[r].since THEN memo[j] ELSE NoMemo]
      /\ UNCHANGED <<cfg, prefs, items, consents, worker, free, lost, world, clock, up, offered>>
  BY DEF Remember, Around
<1>3. /\ p \in Finished \cup {"acquire", "permit", "roles", "load", "current"}
      /\ p = "roles" => req[r].ask.kind = "preferences"
      /\ p = "load" => req[r].ask.kind = "profile"
      /\ p = "current" => req[r].ask.kind = "preferences"
      /\ p = "current" /\ req[r].ask.sets_pins =>
            \A role \in Roles : req[r].ask.pins[role] \subseteq offered
  BY <1>1, ServedLeads
<1> HIDE DEF k, v, p
<1>4. p \in Places /\ p # "create" /\ p # "agents"
  BY <1>3 DEF Places, Finished
<1>5. Sound(r)'
  BY <1>1, <1>2, <1>3, <1>4, MovedSound DEF Onward
<1>6. memo' \in [Keys -> [until : Nat, value : Values]]
  <2>1. clock + Ttl[k] \in Nat
    BY <1>1, SizeAssumption DEF IInv, Typed
  <2>2. NoMemo \in [until : Nat, value : Values]
    BY DEF NoMemo, Values
  <2>3. QED
    BY <1>1, <1>2, <2>1, <2>2 DEF IInv, Typed
<1>7. memo'["agents"].until # 0 => Honest(memo'["agents"].value)
  <2>1. "agents" \in Keys
    BY DEF Keys
  <2>2. CASE k = "agents"
    BY <1>1, <1>2, <2>1, <2>2
  <2>3. CASE k # "agents"
    <3>1. memo'["agents"] = memo["agents"] \/ memo'["agents"] = NoMemo
      BY <1>2, <2>1, <2>3
    <3>2. QED
      BY <3>1 DEF NoMemo, IInv, Shared
  <2>4. QED
    BY <2>2, <2>3
<1>8. /\ req' \in [Requests -> Threads]
      /\ \A q \in Requests \ {r} : req'[q] = req[q]
      /\ req'[r].at = p
  BY <1>2, <1>4, GotoIs DEF IInv
<1>9. Typed'
  BY <1>2, <1>6, <1>8 DEF IInv, Typed
<1>10. Shared'
  BY <1>2, <1>7 DEF IInv, Shared, Honest
<1>11. SlotsAreKept'
  BY <1>1, <1>2, <1>4, <1>8, ThreadSlots DEF IInv
<1>12. QED
  BY <1>2, <1>5, <1>8, <1>9, <1>10, <1>11, OneThread

LEMMA ForgetInv == ASSUME IInv, NEW r \in Requests, Forget(r) PROVE IInv'
<1>1. /\ req[r].at = "forget" /\ req[r].ask \in Asks /\ Goto(r, "answered")
      /\ memo' = [memo EXCEPT !["providers"] = NoMemo]
      /\ UNCHANGED <<cfg, prefs, items, consents, worker, free, lost, world, clock, up, offered>>
  BY DEF Forget, At, Around, IInv, Sound, OnItsWay
<1>2. /\ req' \in [Requests -> Threads]
      /\ \A q \in Requests \ {r} : req'[q] = req[q]
      /\ req'[r].at = "answered"
  BY <1>1, GotoIs DEF IInv, Places, Finished
<1>3. NoMemo \in [until : Nat, value : Values]
  BY DEF NoMemo, Values
<1>4. /\ memo' \in [Keys -> [until : Nat, value : Values]]
      /\ memo'["agents"] = memo["agents"]
  BY <1>1, <1>3 DEF IInv, Typed, Keys
<1>5. Typed'
  BY <1>1, <1>2, <1>4 DEF IInv, Typed
<1>6. Shared'
  BY <1>1, <1>4 DEF IInv, Shared, Honest
<1>7. SlotsAreKept'
  BY <1>1, <1>2, ThreadSlots DEF IInv
<1>8. Sound(r)'
  BY <1>1, MovedSound DEF Onward, Finished
<1>9. QED
  BY <1>1, <1>2, <1>5, <1>6, <1>7, <1>8, OneThread

\* What is added to the configuration that was loaded is consented to.
LEMMA EditIsConsented ==
    ASSUME IInv, NEW r \in Requests, req[r].at = "load",
           NEW C, consents \subseteq C,
           req[r].ask.kind = "trust" /\ req[r].ask.force => req[r].ask.ws \in C
    PROVE  /\ Edited(r, Loaded) \in Configs
           /\ Edited(r, Loaded).plain \subseteq C
<1>1. /\ req[r].ask \in Asks
      /\ req[r].ask.kind \in {"profile", "preferences", "trust", "untrust"}
      /\ req[r].ask.kind = "preferences" /\ req[r].row.safety = "non-git" => req[r].ask.ws \in C
  BY DEF IInv, Sound, OnItsWay, HasConsent
<1>2. req[r].ask.ws \in Workspaces /\ (req[r].ask.kind = "profile" => req[r].ask.profile \in Profiles)
  BY <1>1, AsksAssumption
<1>3. Loaded \in Configs /\ Loaded.plain \subseteq C
  BY DEF IInv, Typed, Shared, Loaded, Configs
<1> HIDE DEF Loaded
<1>4. \A force : /\ Trust(Loaded, req[r].ask.ws, force) \in Configs
                 /\ (force => req[r].ask.ws \in C) =>
                       Trust(Loaded, req[r].ask.ws, force).plain \subseteq C
  BY <1>2, <1>3 DEF Trust, Configs
<1>5. CASE req[r].ask.kind = "profile"
  BY <1>2, <1>3, <1>5 DEF Edited, Configs
<1>6. CASE req[r].ask.kind = "preferences"
  <2>1. Edited(r, Loaded) = Trust(Loaded, req[r].ask.ws, req[r].row.safety = "non-git")
    BY <1>6 DEF Edited
  <2>2. QED
    BY <1>1, <1>4, <1>6, <2>1
<1>7. CASE req[r].ask.kind = "trust"
  <2>1. Edited(r, Loaded) = Trust(Loaded, req[r].ask.ws, req[r].ask.force)
    BY <1>7 DEF Edited
  <2>2. QED
    BY <1>4, <1>7, <2>1
<1>8. CASE req[r].ask.kind = "untrust"
  <2>1. Edited(r, Loaded) = Untrust(Loaded, req[r].ask.ws)
    BY <1>8 DEF Edited
  <2>2. QED
    <3>1. Untrust(Loaded, req[r].ask.ws) \in Configs
      BY <1>3 DEF Untrust, Configs
    <3>2. Untrust(Loaded, req[r].ask.ws).plain \subseteq Loaded.plain
      BY <1>3 DEF Untrust, Configs
    <3>3. QED
      BY <1>3, <2>1, <3>1, <3>2
<1>9. QED
  BY <1>1, <1>5, <1>6, <1>7, <1>8

LEMMA LoadInv == ASSUME IInv, NEW r \in Requests, Load(r) PROVE IInv'
<1>1. /\ req[r].at = "load" /\ req[r].ask \in Asks
      /\ req[r].ask.kind \in {"profile", "preferences", "trust", "untrust"}
  BY DEF Load, At, IInv, Sound, OnItsWay
<1>2. /\ consents \subseteq consents'
      /\ req[r].ask.kind = "trust" /\ req[r].ask.force => req[r].ask.ws \in consents'
      /\ UNCHANGED <<cfg, prefs, items, worker, free, lost, memo, world, clock, up, offered>>
  BY DEF Load, Quiet, Around
<1>3. Shared'
  BY <1>2 DEF IInv, Shared, Honest
<1>4. CASE Goto(r, "refused")
  <2>1. /\ req' \in [Requests -> Threads]
        /\ \A q \in Requests \ {r} : req'[q] = req[q]
        /\ req'[r].at = "refused"
    BY <1>4, GotoIs DEF IInv, Places, Finished
  <2>2. Typed'
    BY <1>2, <2>1 DEF IInv, Typed
  <2>3. SlotsAreKept'
    BY <1>1, <1>2, <2>1, ThreadSlots DEF IInv
  <2>4. Sound(r)'
    BY <1>1, <1>2, <1>4, MovedSound DEF Onward, Finished
  <2>5. QED
    BY <1>2, <1>3, <2>1, <2>2, <2>3, <2>4, OneThread
<1>5. CASE req' = [req EXCEPT ![r].at = "truncate", ![r].cfg = Edited(r, Loaded)]
  <2> DEFINE c == Edited(r, Loaded)
  <2>1. c \in Configs /\ c.plain \subseteq consents'
    BY <1>1, <1>2, EditIsConsented
  <2>2. req' = [req EXCEPT ![r].at = "truncate", ![r].cfg = c]
    BY <1>5
  <2> HIDE DEF c
  <2>3. /\ req' \in [Requests -> Threads]
        /\ \A q \in Requests \ {r} : req'[q] = req[q]
        /\ req'[r].at = "truncate" /\ req'[r].ask = req[r].ask /\ req'[r].row = req[r].row
        /\ req'[r].cfg = c
    <3> DEFINE t == [req[r] EXCEPT !.at = "truncate", !.cfg = c]
    <3>1. req \in [Requests -> Threads] /\ req[r] \in Threads
      BY DEF IInv, Typed
    <3>2. /\ t \in Threads /\ t.at = "truncate" /\ t.ask = req[r].ask
          /\ t.row = req[r].row /\ t.cfg = c
      BY <2>1, <3>1 DEF Threads, Places
    <3>3. req' = [req EXCEPT ![r] = t]
      BY <2>2, <3>1
    <3> HIDE DEF t
    <3>4. QED
      BY <3>1, <3>2, <3>3
  <2>4. Typed'
    BY <1>2, <2>3 DEF IInv, Typed
  <2>5. SlotsAreKept'
    BY <1>1, <1>2, <2>3, ThreadSlots DEF IInv
  <2>6. OnItsWay(r)' /\ HasConsent(r)'
    BY <1>1, <2>1, <2>3 DEF OnItsWay, HasConsent
  <2>7. SawTheOffer(r)'
    BY <1>1, <1>2, <2>3 DEF SawTheOffer, IInv, Sound
  <2>8. QED
    BY <1>2, <1>3, <2>3, <2>4, <2>5, <2>6, <2>7, OneThread DEF Sound
<1>6. QED
  BY <1>4, <1>5 DEF Load

LEMMA TruncateInv == ASSUME IInv, NEW r \in Requests, Truncate(r) PROVE IInv'
<1>1. /\ req[r].at = "truncate" /\ req[r].ask \in Asks
      /\ req[r].ask.kind \in {"profile", "preferences", "trust", "untrust"}
      /\ req[r].cfg.plain \subseteq consents
      /\ req[r].ask.kind = "preferences" => \A role \in Roles : req[r].row.pins[role] \subseteq offered
  BY DEF Truncate, At, IInv, Sound, OnItsWay, HasConsent, SawTheOffer
<1>2. /\ cfg' = Torn /\ Goto(r, "fill")
      /\ UNCHANGED <<prefs, items, consents, worker, free, lost, memo, world, clock, up, offered>>
  BY DEF Truncate, Quiet, Around
<1>3. Torn \in Configs /\ Torn.plain = {}
  BY ProfileAssumption DEF Torn, Defaults, Configs
<1>4. /\ req' \in [Requests -> Threads]
      /\ \A q \in Requests \ {r} : req'[q] = req[q]
      /\ req'[r].at = "fill" /\ req'[r].ask = req[r].ask /\ req'[r].row = req[r].row
      /\ req'[r].cfg = req[r].cfg
  <2>1. "fill" \in Places /\ "fill" \notin Finished
    BY DEF Places, Finished
  <2>2. QED
    BY <1>2, <2>1, GotoIs DEF IInv
<1>5. Typed'
  BY <1>2, <1>3, <1>4 DEF IInv, Typed
<1>6. Shared'
  BY <1>2, <1>3 DEF IInv, Shared, Honest
<1>7. SlotsAreKept'
  BY <1>1, <1>2, <1>4, ThreadSlots DEF IInv
<1>8. OnItsWay(r)' /\ HasConsent(r)' /\ SawTheOffer(r)'
  BY <1>1, <1>2, <1>4 DEF OnItsWay, HasConsent, SawTheOffer
<1>9. QED
  BY <1>2, <1>4, <1>5, <1>6, <1>7, <1>8, OneThread DEF Sound

LEMMA FillInv == ASSUME IInv, NEW r \in Requests, Fill(r) PROVE IInv'
<1>1. /\ req[r].at = "fill" /\ req[r].ask \in Asks
      /\ req[r].ask.kind \in {"profile", "preferences", "trust", "untrust"}
      /\ req[r].cfg.plain \subseteq consents
      /\ req[r].ask.kind = "preferences" => \A role \in Roles : req[r].row.pins[role] \subseteq offered
  BY DEF Fill, At, IInv, Sound, OnItsWay, HasConsent, SawTheOffer
<1>2. PICK p \in {"upsert", "forget", "answered"} :
        /\ Goto(r, p)
        /\ p = "upsert" => req[r].ask.kind = "preferences"
  BY DEF Fill
<1>3. /\ cfg' = req[r].cfg
      /\ UNCHANGED <<prefs, items, consents, worker, free, lost, memo, world, clock, up, offered>>
  BY DEF Fill, Quiet, Around
<1>4. p \in Places /\ (p # "answered" => p \notin Finished)
  BY DEF Places, Finished
<1>5. /\ req' \in [Requests -> Threads]
      /\ \A q \in Requests \ {r} : req'[q] = req[q]
      /\ req'[r].at = p /\ req'[r].ask = req[r].ask
      /\ p # "answered" => req'[r].row = req[r].row
  BY <1>2, <1>4, GotoIs DEF IInv
<1>6. Typed'
  <2>1. req[r].cfg \in Configs
    BY DEF IInv, Typed, Threads
  <2>2. QED
    BY <1>3, <1>5, <2>1 DEF IInv, Typed
<1>7. Shared'
  BY <1>1, <1>3 DEF IInv, Shared, Honest
<1>8. SlotsAreKept'
  BY <1>1, <1>2, <1>3, <1>5, ThreadSlots DEF IInv
<1>9. OnItsWay(r)' /\ HasConsent(r)' /\ SawTheOffer(r)'
  BY <1>1, <1>2, <1>3, <1>5 DEF OnItsWay, HasConsent, SawTheOffer
<1>10. QED
  BY <1>3, <1>5, <1>6, <1>7, <1>8, <1>9, OneThread DEF Sound

LEMMA CheckRolesInv == ASSUME IInv, NEW r \in Requests, CheckRoles(r) PROVE IInv'
<1>1. req[r].at = "roles" /\ req[r].ask \in Asks /\ req[r].ask.kind = "preferences"
  BY DEF CheckRoles, At, IInv, Sound, OnItsWay
<1>2. PICK p \in {"refused", "agents", "current"} :
        /\ Goto(r, p)
        /\ p = "agents" => req[r].ask.sets_pins
        /\ p = "current" => ~req[r].ask.sets_pins
  BY DEF CheckRoles
<1>3. Rest
  BY DEF CheckRoles
<1>4. p \in Places /\ p # "create" /\ p \in Onward \cup {"current", "agents"}
  BY DEF Places, Finished, Keys, Onward
<1>5. Sound(r)'
  BY <1>1, <1>2, <1>3, <1>4, MovedSound DEF Rest, Quiet, Around
<1>6. QED
  BY <1>1, <1>2, <1>3, <1>4, <1>5, MovesOn

LEMMA ReadCurrentInv == ASSUME IInv, NEW r \in Requests, ReadCurrent(r) PROVE IInv'
<1> DEFINE a   == req[r].ask
           old == prefs[a.ws]
           new == [there  |-> TRUE,
                   safety |-> IF a.safety = "keep" THEN old.safety ELSE a.safety,
                   roles  |-> IF a.sets_roles THEN a.roles ELSE old.roles,
                   pins   |-> IF a.sets_pins THEN a.pins ELSE old.pins]
           forced == new.safety = "non-git"
<1>1. /\ req[r].at = "current" /\ a \in Asks /\ a.kind = "preferences" /\ a.ws \in Workspaces
      /\ a.sets_pins => \A role \in Roles : a.pins[role] \subseteq offered
  <2>1. /\ req[r].at = "current" /\ a \in Asks /\ a.kind = "preferences"
        /\ a.sets_pins => \A role \in Roles : a.pins[role] \subseteq offered
    BY DEF ReadCurrent, At, IInv, Sound, OnItsWay, SawTheOffer
  <2> HIDE DEF a
  <2>2. QED
    BY <2>1, AsksAssumption
<1>2. UNCHANGED <<cfg, prefs, items, worker, free, lost, memo, world, clock, up, offered>>
  BY DEF ReadCurrent, Quiet, Around
<1>3. \/ Goto(r, "refused") /\ UNCHANGED consents
      \/ \E p \in {"load", "upsert"} :
           /\ req' = [req EXCEPT ![r].row = new, ![r].at = p]
           /\ forced => a.ws \in Loaded.plain \/ a.consent
           /\ consents' = IF forced /\ a.consent THEN consents \cup {a.ws} ELSE consents
  BY ZenonT(60) DEF ReadCurrent
<1>4. /\ new \in Rows
      /\ \A role \in Roles : new.pins[role] \subseteq offered
  <2>1. old \in Rows /\ \A role \in Roles : old.pins[role] \subseteq offered
    BY <1>1 DEF IInv, Typed, Shared
  <2>2. /\ a.safety \in SafetyModes \cup {"keep"}
        /\ a.sets_roles => a.roles \in [Roles -> SUBSET Profiles]
        /\ a.sets_pins => a.pins \in [Roles -> SUBSET Agents]
    BY <1>1, AsksAssumption
  <2> HIDE DEF a, old
  <2>3. QED
    BY <1>1, <2>1, <2>2 DEF Rows
<1> HIDE DEF new
<1>5. CASE Goto(r, "refused") /\ UNCHANGED consents
  <2>1. Rest
    BY <1>2, <1>5 DEF Rest, Quiet, Around
  <2>2. Sound(r)'
    BY <1>1, <1>2, <1>5, MovedSound DEF Onward, Finished
  <2>3. QED
    BY <1>1, <1>5, <2>1, <2>2, MovesOn DEF Places, Finished
<1>6. ASSUME NEW p \in {"load", "upsert"},
             req' = [req EXCEPT ![r].row = new, ![r].at = p],
             forced => a.ws \in Loaded.plain \/ a.consent,
             consents' = IF forced /\ a.consent THEN consents \cup {a.ws} ELSE consents
      PROVE  IInv'
  <2>1. consents \subseteq consents' /\ (forced => a.ws \in consents')
    BY <1>6 DEF Loaded, IInv, Shared, Typed, Configs
  <2>2. /\ req' \in [Requests -> Threads]
        /\ \A q \in Requests \ {r} : req'[q] = req[q]
        /\ req'[r].at = p /\ req'[r].ask = a /\ req'[r].row = new
    <3> DEFINE t == [req[r] EXCEPT !.row = new, !.at = p]
    <3>1. req \in [Requests -> Threads] /\ req[r] \in Threads
      BY DEF IInv, Typed
    <3>2. t \in Threads /\ t.at = p /\ t.ask = a /\ t.row = new
      BY <1>4, <3>1 DEF Threads, Places
    <3>3. req' = [req EXCEPT ![r] = t]
      BY <1>6, <3>1
    <3> HIDE DEF t
    <3>4. QED
      BY <3>1, <3>2, <3>3
  <2>3. Typed'
    BY <1>2, <2>2 DEF IInv, Typed
  <2>4. Shared'
    BY <1>2, <2>1 DEF IInv, Shared, Honest
  <2>5. SlotsAreKept'
    BY <1>1, <1>2, <2>2, ThreadSlots DEF IInv
  <2>6. OnItsWay(r)' /\ HasConsent(r)'
    BY <1>1, <2>1, <2>2 DEF OnItsWay, HasConsent
  <2>7. SawTheOffer(r)'
    BY <1>1, <1>2, <1>4, <2>2 DEF SawTheOffer
  <2>8. QED
    BY <1>2, <2>1, <2>2, <2>3, <2>4, <2>5, <2>6, <2>7, OneThread DEF Sound
<1>7. QED
  BY <1>3, <1>5, <1>6

LEMMA UpsertInv == ASSUME IInv, NEW r \in Requests, Upsert(r) PROVE IInv'
<1>1. /\ req[r].at = "upsert" /\ req[r].ask \in Asks /\ req[r].ask.kind = "preferences"
      /\ \A role \in Roles : req[r].row.pins[role] \subseteq offered
  BY DEF Upsert, At, IInv, Sound, OnItsWay, SawTheOffer
<1>2. /\ prefs' = [prefs EXCEPT ![req[r].ask.ws] = req[r].row]
      /\ Goto(r, "answered")
      /\ UNCHANGED <<cfg, items, consents, worker, free, lost, memo, world, clock, up, offered>>
  BY DEF Upsert, Quiet, Around
<1>3. /\ req' \in [Requests -> Threads]
      /\ \A q \in Requests \ {r} : req'[q] = req[q]
      /\ req'[r].at = "answered"
  BY <1>2, GotoIs DEF IInv, Places, Finished
<1>4. /\ prefs' \in [Workspaces -> Rows]
      /\ \A w \in Workspaces : prefs'[w] = prefs[w] \/ prefs'[w] = req[r].row
  <2>1. req[r].row \in Rows
    BY DEF IInv, Typed, Threads
  <2>2. QED
    BY <1>2, <2>1 DEF IInv, Typed
<1>5. Typed'
  BY <1>2, <1>3, <1>4 DEF IInv, Typed
<1>6. Shared'
  <2>1. \A w \in Workspaces, role \in Roles : prefs'[w].pins[role] \subseteq offered
    BY <1>1, <1>4 DEF IInv, Shared
  <2>2. QED
    BY <1>2, <2>1 DEF IInv, Shared, Honest
<1>7. SlotsAreKept'
  BY <1>1, <1>2, <1>3, ThreadSlots DEF IInv
<1>8. Sound(r)'
  BY <1>1, <1>2, MovedSound DEF Onward, Finished
<1>9. QED
  BY <1>2, <1>3, <1>5, <1>6, <1>7, <1>8, OneThread

LEMMA AcquireInv == ASSUME IInv, NEW r \in Requests, AcquireSlot(r) PROVE IInv'
<1>1. /\ req[r].at = "acquire" /\ req[r].ask \in Asks /\ worker[r].at = "none"
      /\ UNCHANGED <<cfg, prefs, items, consents, worker, lost, memo, world, clock, up, offered>>
  <2>1. req[r].at = "acquire"
    BY DEF AcquireSlot, At
  <2>2. QED
    BY <2>1 DEF AcquireSlot, Around, IInv, Sound, OnItsWay, SlotsAreKept
<1>2. Shared'
  BY <1>1 DEF IInv, Shared, Honest
<1>3. CASE free > 0
  <2>1. free' = free - 1 /\ Goto(r, "create")
    BY <1>3 DEF AcquireSlot
  <2>2. "create" \in Places
    BY DEF Places
  <2>3. /\ req' \in [Requests -> Threads]
        /\ \A q \in Requests \ {r} : req'[q] = req[q]
        /\ req'[r].at = "create" /\ req'[r].ask = req[r].ask
    BY <2>1, <2>2, GotoIs DEF IInv
  <2>4. free \in Nat /\ lost \in Nat /\ free' \in Nat
    BY <1>3, <2>1 DEF IInv, Typed
  <2>5. Typed'
    BY <1>1, <2>3, <2>4 DEF IInv, Typed
  <2>6. Sound(r)'
    BY <1>1, <2>3 DEF Sound, OnItsWay, HasConsent, SawTheOffer
  <2>7. SlotsAreKept'
    <3>1. Holders' = Holders \cup {r} /\ r \notin Holders
      BY <1>1, <2>3 DEF Holders, Working
    <3>2. IsFiniteSet(Holders') /\ Cardinality(Holders') = Cardinality(Holders) + 1
      BY <3>1, FS_AddElement DEF IInv, SlotsAreKept
    <3>3. Cardinality(Holders) \in Nat
      BY FS_CardinalityType DEF IInv, SlotsAreKept
    <3>4. free' + lost' + Cardinality(Holders') = MaxStarts
      BY <1>1, <2>1, <2>4, <3>2, <3>3 DEF IInv, SlotsAreKept
    <3>5. \A q \in Requests : worker'[q].at # "none" => req'[q].at = "answered"
      BY <1>1, <2>3 DEF IInv, SlotsAreKept
    <3>6. QED
      BY <3>2, <3>4, <3>5 DEF SlotsAreKept
  <2>8. QED
    BY <1>1, <1>2, <2>3, <2>5, <2>6, <2>7, OneThread
<1>4. CASE ~(free > 0)
  <2>1. Goto(r, "refused") /\ Rest
    BY <1>1, <1>4 DEF AcquireSlot, Rest, Quiet, Around
  <2>2. Sound(r)'
    BY <1>1, <2>1, MovedSound DEF Onward, Finished
  <2>3. QED
    BY <1>1, <2>1, <2>2, MovesOn DEF Places, Finished
<1>5. QED
  BY <1>3, <1>4

LEMMA CreateInv == ASSUME IInv, NEW r \in Requests, Create(r) PROVE IInv'
<1>1. /\ req[r].at = "create" /\ req[r].ask \in Asks /\ worker[r].at = "none"
      /\ UNCHANGED <<cfg, prefs, consents, memo, world, clock, up, offered>>
  <2>1. req[r].at = "create"
    BY DEF Create, At
  <2>2. QED
    BY <2>1 DEF Create, Around, IInv, Sound, OnItsWay, SlotsAreKept
<1>2. Shared'
  BY <1>1 DEF IInv, Shared, Honest
<1>3. PICK p \in Finished :
        /\ Goto(r, p)
        /\ \/ /\ \E i \in ItemOf(r) : /\ items' = [items EXCEPT ![i] = "draft"]
                                      /\ worker' = [worker EXCEPT ![r] = [at |-> "start", item |-> i]]
              /\ p = "answered"
              /\ UNCHANGED <<free, lost>>
           \/ /\ \/ free' = free + 1 /\ UNCHANGED lost
                 \/ lost' = lost + 1 /\ UNCHANGED free
              /\ UNCHANGED <<items, worker>>
  BY DEF Create, Finished
<1>4. /\ req' \in [Requests -> Threads]
      /\ \A q \in Requests \ {r} : req'[q] = req[q]
      /\ req'[r].at = p /\ req'[r].ask = req[r].ask
  BY <1>3, GotoIs DEF IInv, Places
<1>5. Sound(r)'
  BY <1>1, <1>3, <1>4 DEF Sound, OnItsWay, HasConsent, SawTheOffer, Finished
<1>6. CASE /\ \E i \in ItemOf(r) : /\ items' = [items EXCEPT ![i] = "draft"]
                                   /\ worker' = [worker EXCEPT ![r] = [at |-> "start", item |-> i]]
           /\ p = "answered"
           /\ UNCHANGED <<free, lost>>
  <2>1. PICK i \in ItemOf(r) : /\ items' = [items EXCEPT ![i] = "draft"]
                               /\ worker' = [worker EXCEPT ![r] = [at |-> "start", item |-> i]]
    BY <1>6
  <2>2. i \in Requests /\ (i = r \/ items[i] = "ended")
    BY DEF ItemOf
  <2>3. /\ items' \in [Requests -> ItemStates]
        /\ \A q \in Requests \ {r} : items'[q] # "none" => items[q] # "none"
    BY <2>1, <2>2 DEF IInv, Typed, ItemStates
  <2>4. /\ worker' \in [Requests -> Workers]
        /\ worker'[r].at = "start"
        /\ \A q \in Requests \ {r} : worker'[q] = worker[q]
    <3>1. [at |-> "start", item |-> i] \in Workers
      BY <2>2 DEF Workers
    <3>2. QED
      BY <2>1, <3>1 DEF IInv, Typed
  <2>5. Typed'
    BY <1>1, <1>4, <1>6, <2>3, <2>4 DEF IInv, Typed
  \* The slot passes from the request to its worker.
  <2>6. SlotsAreKept'
    BY <1>1, <1>4, <1>6, <2>4, SlotsStay DEF IInv, SlotsAreKept, Working
  <2>7. QED
    BY <1>1, <1>2, <1>4, <1>5, <2>3, <2>5, <2>6, OneThread
<1>7. CASE /\ \/ free' = free + 1 /\ UNCHANGED lost
              \/ lost' = lost + 1 /\ UNCHANGED free
           /\ UNCHANGED <<items, worker>>
  <2>1. /\ free \in Nat /\ lost \in Nat /\ free' \in Nat /\ lost' \in Nat
        /\ free' + lost' = free + lost + 1
    BY <1>7 DEF IInv, Typed
  <2>2. Typed'
    BY <1>1, <1>4, <1>7, <2>1 DEF IInv, Typed
  <2>3. SlotsAreKept'
    <3>1. Holders' = Holders \ {r} /\ r \in Holders
      BY <1>1, <1>3, <1>4, <1>7 DEF Holders, Working, Finished
    <3>2. IsFiniteSet(Holders') /\ Cardinality(Holders') = Cardinality(Holders) - 1
      BY <3>1, FS_RemoveElement DEF IInv, SlotsAreKept
    <3>3. Cardinality(Holders) \in Nat
      BY FS_CardinalityType DEF IInv, SlotsAreKept
    <3>4. free' + lost' + Cardinality(Holders') = MaxStarts
      <4>1. free + lost + Cardinality(Holders) = MaxStarts
        BY DEF IInv, SlotsAreKept
      <4>2. QED
        BY <1>7, <2>1, <3>2, <3>3, <4>1
    <3>5. \A q \in Requests : worker'[q].at # "none" => req'[q].at = "answered"
      BY <1>1, <1>4, <1>7 DEF IInv, SlotsAreKept
    <3>6. QED
      BY <3>2, <3>4, <3>5 DEF SlotsAreKept
  <2>4. QED
    BY <1>1, <1>2, <1>4, <1>5, <1>7, <2>2, <2>3, OneThread
<1>8. QED
  BY <1>3, <1>6, <1>7

LEMMA PermitInv == ASSUME IInv, NEW r \in Requests, Permit(r) PROVE IInv'
<1>1. req[r].at = "permit" /\ req[r].ask \in Asks /\ Rest
  BY DEF Permit, At, IInv, Sound, OnItsWay
<1>2. PICK i \in Requests, p \in {"apply", "refused"} :
        req' = [req EXCEPT ![r].seen = i, ![r].at = p]
  BY DEF Permit
<1>3. /\ req' \in [Requests -> Threads]
      /\ \A q \in Requests \ {r} : req'[q] = req[q]
      /\ req'[r].at = p /\ req'[r].ask = req[r].ask
  <2> DEFINE t == [req[r] EXCEPT !.seen = i, !.at = p]
  <2>1. req \in [Requests -> Threads] /\ req[r] \in Threads
    BY DEF IInv, Typed
  <2>2. t \in Threads /\ t.at = p /\ t.ask = req[r].ask
    BY <2>1 DEF Threads, Places, Finished
  <2>3. req' = [req EXCEPT ![r] = t]
    BY <1>2, <2>1
  <2> HIDE DEF t
  <2>4. QED
    BY <2>1, <2>2, <2>3
<1>4. Typed'
  BY <1>1, <1>3 DEF IInv, Typed, Rest, Quiet, Around
<1>5. Shared'
  BY <1>1 DEF IInv, Shared, Honest, Rest, Quiet, Around
<1>6. SlotsAreKept'
  BY <1>1, <1>3, ThreadSlots DEF IInv, Rest, Quiet
<1>7. Sound(r)'
  BY <1>1, <1>3 DEF Sound, OnItsWay, HasConsent, SawTheOffer
<1>8. QED
  BY <1>1, <1>3, <1>4, <1>5, <1>6, <1>7, OneThread DEF Rest, Quiet, Around

LEMMA ApplyInv == ASSUME IInv, NEW r \in Requests, Apply(r) PROVE IInv'
<1> DEFINE i == req[r].seen
<1>1. /\ req[r].at = "apply" /\ req[r].ask \in Asks
      /\ UNCHANGED <<cfg, prefs, consents, worker, free, lost, memo, world, clock, up, offered>>
  BY DEF Apply, At, IInv, Sound, OnItsWay, Quiet, Around
<1>2. PICK p \in Finished :
        /\ Goto(r, p)
        /\ \/ items' = items
           \/ req[r].ask.action \in Permitted(i) /\ items' = [items EXCEPT ![i] = "ended"]
  BY DEF Apply, Finished
<1>3. /\ req' \in [Requests -> Threads]
      /\ \A q \in Requests \ {r} : req'[q] = req[q]
      /\ req'[r].at = p /\ req'[r].ask = req[r].ask
  BY <1>2, GotoIs DEF IInv, Places
<1>4. /\ items' \in [Requests -> ItemStates]
      /\ \A q \in Requests : items'[q] # "none" => items[q] # "none"
  <2>1. req[r].ask.action \in Permitted(i) => items[i] \in {"running", "decision"}
    BY DEF Permitted
  <2> HIDE DEF i
  <2>2. QED
    BY <1>2, <2>1 DEF IInv, Typed, ItemStates
<1>5. Typed'
  BY <1>1, <1>3, <1>4 DEF IInv, Typed
<1>6. Shared'
  BY <1>1 DEF IInv, Shared, Honest
<1>7. SlotsAreKept'
  BY <1>1, <1>2, <1>3, ThreadSlots DEF IInv, Finished
<1>8. Sound(r)'
  BY <1>1, <1>2, <1>3 DEF Sound, OnItsWay, HasConsent, SawTheOffer, Finished
<1>9. QED
  BY <1>1, <1>3, <1>4, <1>5, <1>6, <1>7, <1>8, OneThread

\* A worker moves on and keeps its slot; what it does to an item, it does to
\* one that is there.
LEMMA WorkerInv ==
    ASSUME IInv, NEW r \in Requests,
           worker[r].at \in Working,
           worker' \in [Requests -> Workers], worker'[r].at \in Working,
           \A q \in Requests \ {r} : worker'[q] = worker[q],
           items' \in [Requests -> ItemStates],
           \A q \in Requests : items'[q] # "none" => items[q] # "none",
           UNCHANGED <<cfg, prefs, consents, req, free, lost, memo, world, clock, offered>>
    PROVE  IInv'
<1>1. Typed'
  BY DEF IInv, Typed
<1>2. Shared'
  BY DEF IInv, Shared, Honest
<1>3. SlotsAreKept'
  BY SlotsStay DEF IInv, SlotsAreKept, Working
<1>4. Sound(r)'
  BY DEF IInv, Sound, OnItsWay, HasConsent, SawTheOffer, Honest
<1>5. QED
  BY <1>1, <1>2, <1>3, <1>4, OneThread

LEMMA StartItemInv == ASSUME IInv, NEW r \in Requests, StartItem(r) PROVE IInv'
<1> DEFINE i == worker[r].item
<1>1. worker \in [Requests -> Workers] /\ worker[r] \in Workers /\ items \in [Requests -> ItemStates]
  BY DEF IInv, Typed
<1>2. PICK p \in {"run", "release"} :
        /\ worker' = [worker EXCEPT ![r].at = p]
        /\ items' = items \/ (items[i] = "draft" /\ items' = [items EXCEPT ![i] = "running"])
  BY DEF StartItem
<1>3. /\ worker' \in [Requests -> Workers] /\ worker'[r].at \in Working
      /\ \A q \in Requests \ {r} : worker'[q] = worker[q]
  BY <1>1, <1>2 DEF Workers, Working
<1> HIDE DEF i
<1>4. /\ items' \in [Requests -> ItemStates]
      /\ \A q \in Requests : items'[q] # "none" => items[q] # "none"
  BY <1>1, <1>2 DEF ItemStates
<1>5. /\ worker[r].at \in Working
      /\ UNCHANGED <<cfg, prefs, consents, req, free, lost, memo, world, clock, offered>>
  BY DEF StartItem, Around, Working
<1>6. QED
  BY <1>3, <1>4, <1>5, WorkerInv

LEMMA RunItemInv == ASSUME IInv, NEW r \in Requests, RunItem(r) PROVE IInv'
<1> DEFINE i == worker[r].item
<1>1. worker \in [Requests -> Workers] /\ worker[r] \in Workers /\ items \in [Requests -> ItemStates]
  BY DEF IInv, Typed
<1>2. PICK s \in {"ended", "decision"} :
        items' = [items EXCEPT ![i] = IF @ = "running" THEN s ELSE @]
  BY DEF RunItem
<1>3. /\ worker' \in [Requests -> Workers] /\ worker'[r].at \in Working
      /\ \A q \in Requests \ {r} : worker'[q] = worker[q]
  <2>1. worker' = [worker EXCEPT ![r].at = "release"]
    BY DEF RunItem
  <2>2. QED
    BY <1>1, <2>1 DEF Workers, Working
<1> HIDE DEF i
<1>4. /\ items' \in [Requests -> ItemStates]
      /\ \A q \in Requests : items'[q] # "none" => items[q] # "none"
  BY <1>1, <1>2 DEF ItemStates
<1>5. /\ worker[r].at \in Working
      /\ UNCHANGED <<cfg, prefs, consents, req, free, lost, memo, world, clock, offered>>
  BY DEF RunItem, Around, Working
<1>6. QED
  BY <1>3, <1>4, <1>5, WorkerInv

LEMMA ReleaseInv == ASSUME IInv, NEW r \in Requests, Release(r) PROVE IInv'
<1>1. /\ worker[r].at = "release" /\ req[r].at = "answered"
      /\ worker' = [worker EXCEPT ![r].at = "over"]
      /\ free' = free + 1
      /\ UNCHANGED <<cfg, prefs, items, consents, req, lost, memo, world, clock, up, offered>>
  BY DEF Release, Around, IInv, SlotsAreKept
<1>2. /\ worker' \in [Requests -> Workers] /\ worker'[r].at = "over"
      /\ \A q \in Requests \ {r} : worker'[q] = worker[q]
  <2>1. worker \in [Requests -> Workers] /\ worker[r] \in Workers
    BY DEF IInv, Typed
  <2>2. QED
    BY <1>1, <2>1 DEF Workers
<1>3. free \in Nat /\ lost \in Nat /\ free' \in Nat
  BY <1>1 DEF IInv, Typed
<1>4. Typed'
  BY <1>1, <1>2, <1>3 DEF IInv, Typed
<1>5. Shared'
  BY <1>1 DEF IInv, Shared, Honest
<1>6. Sound(r)'
  BY <1>1 DEF IInv, Sound, OnItsWay, HasConsent, SawTheOffer, Honest
<1>7. SlotsAreKept'
  <2>1. Holders' = Holders \ {r} /\ r \in Holders
    BY <1>1, <1>2 DEF Holders, Working
  <2>2. IsFiniteSet(Holders') /\ Cardinality(Holders') = Cardinality(Holders) - 1
    BY <2>1, FS_RemoveElement DEF IInv, SlotsAreKept
  <2>3. Cardinality(Holders) \in Nat
    BY FS_CardinalityType DEF IInv, SlotsAreKept
  <2>4. free' + lost' + Cardinality(Holders') = MaxStarts
    BY <1>1, <1>3, <2>2, <2>3 DEF IInv, SlotsAreKept
  <2>5. \A q \in Requests : worker'[q].at # "none" => req'[q].at = "answered"
    BY <1>1, <1>2 DEF IInv, SlotsAreKept
  <2>6. QED
    BY <2>2, <2>4, <2>5 DEF SlotsAreKept
<1>8. QED
  BY <1>1, <1>4, <1>5, <1>6, <1>7, OneThread

\* Time, the agents and the end of the process.
LEMMA OutsideInv == ASSUME IInv, Tick \/ World \/ Die \/ UNCHANGED vars PROVE IInv'
<1>1. /\ UNCHANGED <<cfg, prefs, items, req, worker, free, lost, memo, consents>>
      /\ offered \subseteq offered'
      /\ clock' \in Nat /\ world' \in Catalogs
      /\ world'.complete => world'.eligible \subseteq offered'
  <2>1. CASE Tick
    BY <2>1 DEF Tick, IInv, Typed, Shared
  <2>2. CASE World
    BY <2>2 DEF World, Catalogs, IInv, Typed
  <2>3. CASE Die
    BY <2>3 DEF Die, IInv, Typed, Shared
  <2>4. CASE UNCHANGED vars
    BY <2>4 DEF vars, IInv, Typed, Shared
  <2>5. QED
    BY <2>1, <2>2, <2>3, <2>4
<1>2. Typed'
  BY <1>1 DEF IInv, Typed
<1>3. Shared'
  BY <1>1 DEF IInv, Shared, Honest
<1>4. SlotsAreKept'
  BY <1>1, SlotsStay DEF IInv, SlotsAreKept
<1>5. ASSUME NEW r \in Requests PROVE Sound(r)'
  BY <1>1 DEF IInv, Sound, OnItsWay, HasConsent, SawTheOffer, Honest
<1>6. QED
  BY <1>2, <1>3, <1>4, <1>5 DEF IInv

LEMMA StepInv == IInv /\ [Next]_vars => IInv'
<1> SUFFICES ASSUME IInv, [Next]_vars PROVE IInv'
  OBVIOUS
<1>1. CASE Tick \/ World \/ Die \/ UNCHANGED vars
  BY <1>1, OutsideInv
<1>2. ASSUME NEW r \in Requests, Receive(r) \/ Handle(r) \/ StartWork(r) PROVE IInv'
  BY <1>2, ReceiveInv, LookInv, RememberInv, ForgetInv, LoadInv, TruncateInv, FillInv,
     CheckRolesInv, ReadCurrentInv, UpsertInv, AcquireInv, CreateInv, PermitInv, ApplyInv,
     StartItemInv, RunItemInv, ReleaseInv
  DEF Handle, StartWork
<1>3. QED
  BY <1>1, <1>2 DEF Next

LEMMA InitInv == Init => IInv
<1> SUFFICES ASSUME Init PROVE IInv
  OBVIOUS
<1>1. Defaults \in Configs /\ NoPrefs \in Rows /\ Thread \in Threads
  BY ProfileAssumption, ThreadIsOne DEF Defaults, Configs, NoPrefs, Rows, SafetyModes
<1>2. cfg \in Configs /\ cfg.plain = {}
  <2>1. Workspaces \ Sensitive \subseteq Workspaces
    OBVIOUS
  <2>2. QED
    <3>1. \/ cfg = Defaults
          \/ cfg = [Defaults EXCEPT !.trusted = Workspaces \ Sensitive]
      BY DEF Init
    <3>2. CASE cfg = Defaults
      BY <1>1, <3>2 DEF Defaults
    <3>3. CASE cfg = [Defaults EXCEPT !.trusted = Workspaces \ Sensitive]
      BY <2>1, <3>3, ProfileAssumption DEF Defaults, Configs
    <3>4. QED
      BY <3>1, <3>2, <3>3
<1>3. /\ prefs \in [Workspaces -> Rows]
      /\ \A w \in Workspaces, role \in Roles : prefs[w].pins[role] = {}
  BY <1>1 DEF Init, NoPrefs
<1>4. /\ items \in [Requests -> ItemStates] /\ \A r \in Requests : items[r] = "none"
  BY DEF Init, ItemStates
<1>5. /\ req \in [Requests -> Threads] /\ \A r \in Requests : req[r].at = "idle"
  BY <1>1, ThreadIsOne DEF Init
<1>6. /\ worker \in [Requests -> Workers] /\ \A r \in Requests : worker[r].at = "none"
  BY DEF Init, Workers
<1>7. /\ memo \in [Keys -> [until : Nat, value : Values]]
      /\ memo["agents"].until = 0
  <2>1. NoMemo \in [until : Nat, value : Values] /\ NoMemo.until = 0
    BY DEF NoMemo, Values
  <2>2. QED
    BY <2>1 DEF Init, Keys
<1>8. free \in Nat /\ free = MaxStarts /\ lost = 0 /\ clock = 0 /\ world \in Catalogs
  BY SizeAssumption DEF Init, Catalogs
<1>9. Typed
  BY <1>2, <1>3, <1>4, <1>5, <1>6, <1>7, <1>8 DEF Typed
<1>10. Shared
  BY <1>2, <1>3, <1>7 DEF Shared, Init
<1>11. SlotsAreKept
  <2>1. Holders = {}
    BY <1>5, <1>6 DEF Holders, Working
  <2>2. IsFiniteSet(Holders) /\ Cardinality(Holders) = 0
    BY <2>1, FS_EmptySet
  <2>3. QED
    BY <1>6, <1>8, <2>2 DEF SlotsAreKept
<1>12. ASSUME NEW r \in Requests PROVE Sound(r)
  BY <1>4, <1>5 DEF Sound, OnItsWay, HasConsent, SawTheOffer
<1>13. QED
  BY <1>9, <1>10, <1>11, <1>12 DEF IInv

THEOREM Invariance == Spec => []IInv
BY InitInv, StepInv, PTL DEF Spec

\* Whatever requests, edits of the CLI, old catalogues and torn reads race, a
\* folder without Git is listed only after somebody accepted it, and a pin names
\* an agent that a complete catalogue offered; every variable has its type.
THEOREM OwnedChoices == Spec => []ChoicesAreOwned
<1>1. IInv => ChoicesAreOwned
  <2> SUFFICES ASSUME IInv PROVE ChoicesAreOwned
    OBVIOUS
  <2>1. free \in 0..MaxStarts
    <3>1. Cardinality(Holders) \in Nat /\ free \in Nat /\ lost \in Nat
      BY FS_CardinalityType DEF IInv, Typed, SlotsAreKept
    <3>2. MaxStarts \in Nat /\ free + lost + Cardinality(Holders) = MaxStarts
      BY SizeAssumption DEF IInv, SlotsAreKept
    <3>3. QED
      BY <3>1, <3>2
  <2>2. TypeOK
    BY <2>1 DEF IInv, Typed, TypeOK, Configs, Rows
  <2>3. QED
    BY <2>2 DEF IInv, Shared, ChoicesAreOwned, ProtectionIsNotConsent, PinsWereOffered
<1>2. QED
  BY <1>1, Invariance, PTL

\* A slot of the start semaphore is free, lost to an error that nobody expects,
\* or held by exactly one request or worker: none is given back twice, and a
\* request that was refused holds none (_compose, _start_in_background).
THEOREM SlotsHaveHolders == Spec => []SlotsAreKept
<1>1. IInv => SlotsAreKept
  BY Zenon DEF IInv
<1>2. QED
  BY <1>1, Invariance, PTL

-----------------------------------------------------------------------------
(* The agent runner. *)

RunnerProcs   == Runners \cup Cancellers
RunnerResults == [state : Terminal \cup {"none"}, code : Codes, retryable : BOOLEAN]
JobRows       == [state : Terminal \cup {"accepted", "running"},
                  pid : Runners \cup {NoRunner}, result : RunnerResults]

\* Where the call that began the job can be, and where a call that found the
\* job begun, or a cancel request, can be.
FirstPcs == {"accepted", "locking", "spawned", "communicating", "timedout",
             "unlocking", "exited", "parsing", "raised", "stuck"}
SeenPcs  == {"waiting", "deciding", "signalling"}

RunnerPlaces == [pc : FirstPcs \cup {"idle", "answered", "dead"}]
                \cup [pc : SeenPcs, seen : JobRows]
                \cup [pc : {"stuck", "timedout"}, waited : BOOLEAN]

\* A stored row is over only with a verdict, which names no process.
Settled(row) == row.state \in Terminal => row.pid = NoRunner /\ row.result # NoResult

RunnerTyped ==
    /\ mode \in Modes
    /\ job # NoJob => job \in JobRows /\ Settled(job)
    /\ at \in [RunnerProcs -> RunnerPlaces]
    /\ child \in [Runners -> {"none", "alive"} \cup Outputs]
    /\ said \in [Runners -> RunnerResults]
    /\ \A r \in Runners : said[r] \in IF child[r] = "answered" THEN Answers ELSE {NoResult}
    /\ answer \in [RunnerProcs -> RunnerResults]
    /\ \A p \in RunnerProcs : answer[p] # NoResult <=> at[p].pc \in {"answered", "dead"}
    /\ termed \subseteq Runners
    /\ deaths \in 0..MaxDeaths
    /\ cancelled \in BOOLEAN

Began(r) == child[r] # "none" \/ at[r].pc \in FirstPcs

\* Only the call that inserted the row ever reaches the agent, and it does so
\* at most once.
OneBegan ==
    /\ \A r \in Runners : Began(r) => job # NoJob
    /\ \A r, q \in Runners : Began(r) /\ Began(q) => r = q

\* Nobody holds a copy of a row that was never inserted.
SeenExists == \A p \in RunnerProcs : at[p].pc \in SeenPcs => job # NoJob

\* What the call's place says of its agent.
ChildFits ==
    \A r \in Runners :
        /\ at[r].pc \in {"idle", "accepted"} \cup SeenPcs => child[r] = "none"
        /\ at[r].pc \in {"unlocking", "exited", "parsing", "timedout"} => child[r] \in Outputs

RunnerInv ==
    /\ RunnerTyped
    /\ OneBegan
    /\ SeenExists
    /\ ChildFits
    /\ AnsweredIsSettled

-----------------------------------------------------------------------------
(* Every step keeps the invariant. *)

\* Of an agent that ends, the place is one of an agent that ended, and its word
\* one of its kind.
LEMMA AgentGone ==
    ASSUME RunnerTyped, NEW r \in Runners, Ends(r)
    PROVE  /\ child' \in [Runners -> {"none", "alive"} \cup Outputs]
           /\ child'[r] \in Outputs
           /\ said' \in [Runners -> RunnerResults]
           /\ \A q \in Runners \ {r} : child'[q] = child[q] /\ said'[q] = said[q]
           /\ \A q \in Runners : said'[q] \in IF child'[q] = "answered" THEN Answers ELSE {NoResult}
<1>0. PICK out \in Outputs : \E res \in IF out = "answered" THEN Answers ELSE {NoResult} :
          /\ child' = [child EXCEPT ![r] = out]
          /\ said' = [said EXCEPT ![r] = res]
  BY DEF Ends
<1>1. PICK res \in IF out = "answered" THEN Answers ELSE {NoResult} :
          /\ child' = [child EXCEPT ![r] = out]
          /\ said' = [said EXCEPT ![r] = res]
  BY <1>0
<1>2. NoResult \in RunnerResults /\ Answers \subseteq RunnerResults
  BY DEF NoResult, Answers, Result, RunnerResults, Codes
<1>3. res \in RunnerResults
  BY <1>2
<1>4. /\ child'[r] = out /\ said'[r] = res
      /\ \A q \in Runners \ {r} : child'[q] = child[q] /\ said'[q] = said[q]
  BY <1>1 DEF RunnerTyped
<1>5. \A q \in Runners : said'[q] \in IF child'[q] = "answered" THEN Answers ELSE {NoResult}
  BY <1>1, <1>4 DEF RunnerTyped
<1>6. QED
  BY <1>1, <1>3, <1>4, <1>5 DEF RunnerTyped

\* Only an agent that was alive ends.
LEMMA EndKeeps ==
    ASSUME RunnerInv, NEW r \in Runners, child[r] = "alive", Ends(r),
           UNCHANGED <<mode, job, at, answer, deaths>>,
           termed' \subseteq Runners, cancelled' \in BOOLEAN
    PROVE  RunnerInv'
<1>1. RunnerTyped'
  BY AgentGone DEF RunnerInv, RunnerTyped
<1>2. \A q \in Runners : (child'[q] # "none") <=> (child[q] # "none")
  BY AgentGone DEF RunnerInv, Outputs
<1>3. ChildFits'
  BY AgentGone DEF RunnerInv, ChildFits, SeenPcs, Outputs
<1>4. OneBegan' /\ SeenExists' /\ AnsweredIsSettled'
  BY <1>2 DEF RunnerInv, OneBegan, Began, SeenExists, AnsweredIsSettled
<1>5. QED
  BY <1>1, <1>3, <1>4 DEF RunnerInv

LEMMA RunnerStepInv == RunnerInv /\ [RunnerNext]_runnerVars => RunnerInv'
<1> SUFFICES ASSUME RunnerInv, [RunnerNext]_runnerVars PROVE RunnerInv'
  OBVIOUS
<1> USE NobodyAssumption, DeathsAssumption
    DEF RunnerInv, RunnerTyped, OneBegan, SeenExists, ChildFits,
        AnsweredIsSettled, Goes, To, Idle, Row, Result, NoJob, NoResult, Settled,
        Began, RunnerProcs, RunnerResults, JobRows, FirstPcs, SeenPcs, RunnerPlaces,
        Terminal, Codes,
        Modes, Outputs
<1>1. ASSUME NEW r \in Runners, BeginFirst(r) PROVE RunnerInv'
  BY <1>1 DEF BeginFirst, Reused
<1>2. ASSUME NEW r \in Runners, BeginAgain(r) PROVE RunnerInv'
  <2>1. /\ job \in JobRows /\ job # NoJob /\ job' = job /\ at[r].pc = "idle"
        /\ UNCHANGED <<mode, child, said, termed, deaths, cancelled>>
    BY <1>2 DEF BeginAgain, Reused
  <2>2. CASE Goes(r, [pc |-> "waiting", seen |-> job]) /\ UNCHANGED answer
    <3>1. [pc |-> "waiting", seen |-> job] \in RunnerPlaces
      BY <2>1
    <3>2. /\ at' \in [RunnerProcs -> RunnerPlaces] /\ at'[r].pc = "waiting"
          /\ \A q \in RunnerProcs \ {r} : at'[q] = at[q]
      BY <2>2, <3>1
    <3>3. RunnerTyped'
      BY <2>1, <2>2, <3>2
    <3>4. OneBegan' /\ SeenExists' /\ ChildFits'
      <4> HIDE DEF RunnerResults, RunnerPlaces, JobRows
      <4>1. \A q \in Runners : Began(q)' => Began(q)
        BY <2>1, <3>2
      <4>2. ChildFits'
        <5>1. child'[r] = "none"
          BY <2>1
        <5>2. \A q \in Runners \ {r} : at'[q] = at[q] /\ child'[q] = child[q]
          BY <2>1, <3>2
        <5>3. \A q \in Runners \ {r} :
                  /\ at'[q].pc \in {"idle", "accepted"} \cup SeenPcs => child'[q] = "none"
                  /\ at'[q].pc \in {"unlocking", "exited", "parsing", "timedout"} => child'[q] \in Outputs
          BY <5>2
        <5>4. QED
          BY <3>2, <5>1, <5>3
      <4>3. SeenExists'
        BY <2>1, <3>2
      <4>4. QED
        BY <2>1, <4>1, <4>2, <4>3
    <3>5. AnsweredIsSettled'
      BY <2>1, <3>2
    <3>6. QED
      BY <3>3, <3>4, <3>5
  <2>3. CASE Tell(r, Result("failed", "refused", FALSE))
    BY <2>1, <2>3 DEF Tell
  <2>4. QED
    BY <1>2, <2>2, <2>3 DEF BeginAgain
<1>3. ASSUME NEW r \in Runners, RefuseStart(r) PROVE RunnerInv'
  BY <1>3 DEF RefuseStart, Tell
<1>4. ASSUME NEW r \in Runners, RefuseCopy(r) PROVE RunnerInv'
  BY <1>4 DEF RefuseCopy
<1>5. ASSUME NEW r \in Runners, Spawn(r) PROVE RunnerInv'
  BY <1>5 DEF Spawn
<1>6. ASSUME NEW r \in Runners, Publish(r) PROVE RunnerInv'
  BY <1>6 DEF Publish
<1>7. ASSUME NEW r \in Runners, SetRunning(r) PROVE RunnerInv'
  <2>1. /\ job \in JobRows /\ at[r].pc = "spawned" /\ at'[r].pc = "communicating"
        /\ \A q \in RunnerProcs \ {r} : at'[q] = at[q]
        /\ UNCHANGED <<mode, child, said, answer, termed, deaths, cancelled>>
    BY <1>7 DEF SetRunning
  <2>2. job' = Row("running", r, job.result)
    BY <1>7, <2>1 DEF SetRunning
  <2>3. RunnerTyped'
    BY <1>7, <2>1, <2>2 DEF SetRunning
  <2>4. OneBegan' /\ SeenExists' /\ ChildFits'
    BY <2>1, <2>2
  \* The call that answered, had it started the agent, would be this one.
  <2>5. AnsweredIsSettled'
    BY <2>1, <2>2
  <2>6. QED
    BY <2>3, <2>4, <2>5
<1>8. ASSUME NEW r \in Runners, Communicated(r) PROVE RunnerInv'
  BY <1>8 DEF Communicated
<1>9. ASSUME NEW r \in Runners, Withdraw(r) PROVE RunnerInv'
  BY <1>9 DEF Withdraw
<1>10. ASSUME NEW r \in Runners, Timeout(r) PROVE RunnerInv'
  <2>1. PICK w \in BOOLEAN : Goes(r, [pc |-> "timedout", waited |-> w])
    BY <1>10 DEF Timeout
  <2>2. /\ at[r].pc = "communicating" /\ child[r] = "alive" /\ Ends(r)
        /\ UNCHANGED <<mode, job, answer, termed, deaths, cancelled>>
    BY <1>10 DEF Timeout, Expires
  <2>3. [pc |-> "timedout", waited |-> w] \in RunnerPlaces
    OBVIOUS
  <2>4. /\ at' \in [RunnerProcs -> RunnerPlaces] /\ at'[r].pc = "timedout"
        /\ \A q \in RunnerProcs \ {r} : at'[q] = at[q]
    BY <2>1, <2>3
  <2> HIDE DEF RunnerResults, RunnerPlaces, JobRows
  <2>5. RunnerTyped'
    BY <2>2, <2>4, AgentGone
  <2>6. \A q \in Runners : Began(q)' => Began(q)
    BY <2>2, <2>4, AgentGone
  <2>7. ChildFits'
    BY <2>2, <2>4, AgentGone
  <2>8. OneBegan' /\ SeenExists' /\ AnsweredIsSettled'
    BY <2>2, <2>4, <2>6
  <2>9. QED
    BY <2>5, <2>7, <2>8
<1>11. ASSUME NEW r \in Runners, StoreTimeout(r) PROVE RunnerInv'
  BY <1>11 DEF StoreTimeout, Unsure, Finish, Tell
<1>12. ASSUME NEW r \in Runners, CheckCancelled(r) PROVE RunnerInv'
  <2>1. job \in JobRows /\ at[r].pc = "exited"
    BY <1>12 DEF CheckCancelled
  <2>2. CASE CancelStands
    <3>1. job.result \in RunnerResults /\ job.result # NoResult /\ job.state \in Terminal
      BY <2>1, <2>2 DEF CancelStands
    <3>2. /\ Tell(r, job.result)
          /\ UNCHANGED <<mode, job, child, said, termed, deaths, cancelled>>
      BY <1>12, <2>2 DEF CheckCancelled
    <3>3. RunnerTyped'
      BY <2>1, <3>1, <3>2 DEF Tell
    <3>4. QED
      BY <2>1, <3>1, <3>2, <3>3 DEF Tell
  <2>3. CASE ~CancelStands
    <3>1. /\ at' \in [RunnerProcs -> RunnerPlaces] /\ at'[r].pc = "parsing"
          /\ \A q \in RunnerProcs \ {r} : at'[q] = at[q]
          /\ UNCHANGED <<mode, job, child, said, answer, termed, deaths, cancelled>>
      BY <1>12, <2>3 DEF CheckCancelled
    <3> HIDE DEF RunnerResults, RunnerPlaces, JobRows
    <3>2. RunnerTyped' /\ ChildFits'
      BY <2>1, <3>1
    <3>3. \A q \in Runners : Began(q)' => Began(q)
      BY <2>1, <3>1
    <3>4. QED
      BY <2>1, <3>1, <3>2, <3>3
  <2>4. QED
    BY <2>2, <2>3
<1>13. ASSUME NEW r \in Runners, StoreReported(r) PROVE RunnerInv'
  <2> DEFINE res == Reported(r)
  <2>1. /\ at[r].pc = "parsing" /\ Finish(res) /\ Tell(r, res)
        /\ UNCHANGED <<mode, child, said, termed, deaths, cancelled>>
    BY <1>13 DEF StoreReported
  <2>2. child[r] \in {"silent", "answered"}
    BY <1>13 DEF StoreReported
  <2>3. res \in RunnerResults /\ res.state \in Terminal /\ res # NoResult
    BY <2>2 DEF Reported, Answers
  <2> HIDE DEF res
  <2>4. /\ at' \in [RunnerProcs -> RunnerPlaces] /\ at'[r].pc = "answered"
        /\ answer' \in [RunnerProcs -> RunnerResults] /\ answer'[r] = res
        /\ \A q \in RunnerProcs \ {r} : at'[q] = at[q] /\ answer'[q] = answer[q]
    BY <2>1, <2>3 DEF Tell
  <2>5. job' \in JobRows /\ Settled(job') /\ job'.state \in Terminal /\ job' # NoJob
    BY <2>1, <2>3 DEF Finish
  <2> HIDE DEF RunnerResults, RunnerPlaces, JobRows, Settled
  <2>6. RunnerTyped'
    BY <2>1, <2>3, <2>4, <2>5
  <2>7. \A q \in Runners : Began(q)' => Began(q)
    BY <2>1, <2>4
  <2>8. OneBegan' /\ SeenExists' /\ ChildFits' /\ AnsweredIsSettled'
    BY <2>1, <2>4, <2>5, <2>7
  <2>9. QED
    BY <2>6, <2>8
<1>14. ASSUME NEW r \in Runners, RejectOutput(r) PROVE RunnerInv'
  BY <1>14 DEF RejectOutput
<1>15. ASSUME NEW r \in Runners, StoreRaised(r) PROVE RunnerInv'
  BY <1>15 DEF StoreRaised, Unsure, Finish, Tell
<1>16. ASSUME NEW r \in Runners, Reread(r) PROVE RunnerInv'
  BY <1>16 DEF Reread
<1>17. ASSUME NEW r \in Runners, DeclareLost(r) PROVE RunnerInv'
  BY <1>17 DEF DeclareLost, Unsure, Finish, Tell
<1>18. ASSUME NEW r \in Runners, StopWaiting(r) PROVE RunnerInv'
  BY <1>18 DEF StopWaiting, Tell
<1>19. ASSUME NEW r \in Runners, AgentEnds(r) PROVE RunnerInv'
  BY <1>19, EndKeeps DEF AgentEnds
<1>20. ASSUME NEW r \in Runners, Term(r) PROVE RunnerInv'
  <2>1. /\ Running(r) /\ termed' \subseteq Runners
        /\ UNCHANGED <<mode, job, answer, deaths, cancelled>>
    BY <1>20 DEF Term
  <2>2. CASE child[r] = "alive" /\ Ends(r) /\ UNCHANGED at
    BY <1>20, <2>1, <2>2, EndKeeps DEF Term
  <2>3. CASE UNCHANGED <<at, child, said>>
    BY <2>1, <2>3
  <2>4. CASE /\ at[r].pc \in {"locking", "unlocking"} /\ UNCHANGED <<child, said>>
             /\ Goes(r, [pc |-> "stuck", waited |-> at[r].pc = "unlocking"])
    <3>1. [pc |-> "stuck", waited |-> at[r].pc = "unlocking"] \in RunnerPlaces
      OBVIOUS
    <3>2. /\ at' \in [RunnerProcs -> RunnerPlaces] /\ at'[r].pc = "stuck"
          /\ \A q \in RunnerProcs \ {r} : at'[q] = at[q]
      BY <2>4, <3>1
    <3> HIDE DEF RunnerResults, RunnerPlaces, JobRows
    <3>3. RunnerTyped' /\ ChildFits'
      BY <2>1, <2>4, <3>2
    <3>4. \A q \in Runners : Began(q)' => Began(q)
      BY <2>4, <3>2
    <3>5. QED
      BY <2>1, <2>4, <3>2, <3>3, <3>4
  <2>5. QED
    BY <1>20, <2>2, <2>3, <2>4 DEF Term
<1>21. ASSUME NEW r \in Runners, Kill(r) PROVE RunnerInv'
  BY <1>21 DEF Kill, Dies
<1>22. ASSUME NEW r \in Runners, Death(r) PROVE RunnerInv'
  BY <1>22 DEF Death, Dies, Running
<1>23. ASSUME NEW x \in Cancellers, CancelRead(x) PROVE RunnerInv'
  BY <1>23 DEF CancelRead
<1>24. ASSUME NEW x \in Cancellers, CancelStore(x) PROVE RunnerInv'
  <2>1. /\ job \in JobRows /\ at[x].pc = "deciding" /\ at[x].seen \in JobRows
        /\ UNCHANGED <<mode, child, said, answer, termed, deaths, cancelled>>
    BY <1>24 DEF CancelStore
  <2>2. /\ at' \in [RunnerProcs -> RunnerPlaces] /\ at'[x].pc = "signalling"
        /\ \A p \in RunnerProcs \ {x} : at'[p] = at[p]
    BY <1>24, <2>1 DEF CancelStore
  <2>3. job' \in JobRows /\ Settled(job') /\ job'.state \in Terminal /\ job' # NoJob
    BY <1>24, <2>1 DEF CancelStore, Unsure, Finish
  <2>4. RunnerTyped'
    <3>1. \A p \in RunnerProcs : answer'[p] # NoResult <=> at'[p].pc \in {"answered", "dead"}
      BY <2>1, <2>2
    <3>2. QED
      BY <2>1, <2>2, <2>3, <3>1
  <2>5. OneBegan' /\ SeenExists' /\ ChildFits'
    <3> HIDE DEF RunnerResults, RunnerPlaces, JobRows, Settled
    <3>1. \A r \in Runners : Began(r)' => Began(r)
      BY <2>1, <2>2
    <3>2. ChildFits'
      BY <2>1, <2>2
    <3>3. QED
      BY <2>1, <2>2, <2>3, <3>1, <3>2
  <2>6. AnsweredIsSettled'
    BY <2>3
  <2>7. QED
    BY <2>4, <2>5, <2>6
<1>25. ASSUME NEW x \in Cancellers, CancelSignal(x) PROVE RunnerInv'
  <2> DEFINE res == Unsure("cancelled", "cancelled", TRUE)
  <2>1. /\ at[x].pc = "signalling" /\ Tell(x, res) /\ cancelled' = TRUE
        /\ UNCHANGED <<mode, job, termed, deaths>>
    BY <1>25 DEF CancelSignal
  <2>2. res \in RunnerResults /\ res # NoResult
    BY DEF Unsure
  <2> HIDE DEF res
  <2>3. /\ at' \in [RunnerProcs -> RunnerPlaces] /\ at'[x].pc = "answered"
        /\ answer' \in [RunnerProcs -> RunnerResults] /\ answer'[x] = res
        /\ \A q \in RunnerProcs \ {x} : at'[q] = at[q] /\ answer'[q] = answer[q]
    BY <2>1, <2>2 DEF Tell
  <2>4. at[x].seen.pid # NoRunner => at[x].seen.pid \in Runners
    BY <2>1
  <2> HIDE DEF RunnerResults, RunnerPlaces, JobRows, Settled
  \* What the signal ends was alive, and is no canceller.
  <2>5. /\ child' \in [Runners -> {"none", "alive"} \cup Outputs]
        /\ said' \in [Runners -> RunnerResults]
        /\ \A q \in Runners : said'[q] \in IF child'[q] = "answered" THEN Answers ELSE {NoResult}
        /\ \A q \in Runners : child'[q] = child[q] \/ (child[q] = "alive" /\ child'[q] \in Outputs)
    <3>1. CASE UNCHANGED <<child, said>>
      BY <3>1
    <3>2. CASE \E q \in Runners : child[q] = "alive" /\ Ends(q)
      BY <3>2, AgentGone
    <3>3. QED
      BY <1>25, <2>4, <3>1, <3>2 DEF CancelSignal
  <2>6. RunnerTyped'
    BY <2>1, <2>2, <2>3, <2>5
  <2>7. ChildFits'
    BY <2>1, <2>3, <2>5
  <2>8. /\ \A q \in Runners : Began(q)' => Began(q)
        /\ \A q \in Runners : at'[q].pc = "answered" /\ child'[q] # "none"
                               => (at[q].pc = "answered" \/ q = x) /\ child[q] # "none"
    BY <2>1, <2>3, <2>5
  <2>9. at[x].pc \in SeenPcs /\ (x \in Runners => child[x] = "none")
    BY <2>1
  <2>10. OneBegan' /\ SeenExists' /\ AnsweredIsSettled'
    BY <2>1, <2>3, <2>8, <2>9
  <2>11. QED
    BY <2>6, <2>7, <2>10
<1>26. CASE UNCHANGED runnerVars
  BY <1>26 DEF runnerVars
<1>27. QED
  BY ZenonT(60), <1>1, <1>2, <1>3, <1>4, <1>5, <1>6, <1>7, <1>8, <1>9, <1>10,
     <1>11, <1>12, <1>13, <1>14, <1>15, <1>16, <1>17, <1>18, <1>19,
     <1>20, <1>21, <1>22, <1>23, <1>24, <1>25, <1>26
  DEF RunnerNext, Start, Invoke, WaitForExisting, Outside, Cancel

LEMMA RunnerInitInv == RunnerInit => RunnerInv
<1> SUFFICES ASSUME RunnerInit PROVE RunnerInv
  OBVIOUS
<1>1. RunnerTyped
  <2>1. mode \in Modes /\ job = NoJob /\ termed \subseteq Runners /\ cancelled \in BOOLEAN
    BY DEF RunnerInit
  <2>2. deaths \in 0..MaxDeaths
    BY DeathsAssumption DEF RunnerInit
  <2>3. child \in [Runners -> {"none", "alive"} \cup Outputs]
    BY DEF RunnerInit
  <2>4. Idle \in RunnerPlaces /\ Idle.pc = "idle"
    BY DEF Idle, RunnerPlaces
  <2>5. NoResult \in RunnerResults
    BY DEF NoResult, RunnerResults, Codes
  <2>6. /\ at \in [RunnerProcs -> RunnerPlaces] /\ answer \in [RunnerProcs -> RunnerResults]
        /\ \A p \in RunnerProcs : at[p] = Idle /\ answer[p] = NoResult
    BY <2>4, <2>5 DEF RunnerInit, RunnerProcs
  <2>7. said \in [Runners -> RunnerResults] /\ \A r \in Runners : said[r] = NoResult /\ child[r] = "none"
    BY <2>5 DEF RunnerInit
  <2>8. QED
    BY <2>1, <2>4, <2>6, <2>2, <2>3, <2>7 DEF RunnerTyped
<1>2. OneBegan /\ SeenExists /\ ChildFits
  BY DEF RunnerInit, OneBegan, Began, SeenExists, ChildFits, RunnerProcs, Idle, FirstPcs, SeenPcs
<1>3. AnsweredIsSettled
  BY DEF RunnerInit, AnsweredIsSettled, Idle
<1>4. QED
  BY <1>1, <1>2, <1>3 DEF RunnerInv

THEOREM RunnerInvariance == RunnerSpec => []RunnerInv
BY RunnerInitInv, RunnerStepInv, PTL DEF RunnerSpec

-----------------------------------------------------------------------------
(* What it implies. *)

\* Every variable has its type; an answer is there exactly when its caller has it.
THEOREM RunnerTypes == RunnerSpec => []RunnerTypeOK
<1>1. RunnerInv => RunnerTypeOK
  BY DEF RunnerInv, RunnerTyped, RunnerTypeOK, ResultOK, Settled, RunnerProcs,
         RunnerResults, JobRows, NoJob
<1>2. QED
  BY <1>1, RunnerInvariance, PTL

\* However many calls send the request, retry it or die with it, the agent of
\* the job is started at most once (store.begin, _wait_for_existing).
THEOREM OneAgent == RunnerSpec => []StartedOnce
<1>1. OneBegan => StartedOnce
  <2> SUFFICES ASSUME OneBegan PROVE StartedOnce
    OBVIOUS
  <2> DEFINE started == {r \in Runners : child[r] # "none"}
  <2>1. \A r, q \in started : r = q
    BY DEF OneBegan, Began
  <2>2. CASE started = {}
    <3>1. Cardinality(started) = 0
      BY <2>2, FS_EmptySet
    <3>2. QED
      BY <3>1 DEF StartedOnce
  <2>3. CASE started # {}
    <3>1. PICK r : started = {r}
      BY <2>1, <2>3
    <3>2. Cardinality(started) = 1
      BY <3>1, FS_Singleton
    <3>3. QED
      BY <3>2 DEF StartedOnce
  <2>4. QED
    BY <2>2, <2>3
<1>2. QED
  BY <1>1, RunnerInvariance, PTL DEF RunnerInv

(* What is kept of a job, and told of it. *)

\* What may be said of a write.
Credible(res) ==
    \/ res.code \in {"none", "refused", "job_running", "transport"}
    \/ AgentSaid(res)
    \/ SaidNothing(res)
    \/ res.state = "unknown" /\ ~res.retryable

\* An agent's last word does not change.
WordsStand ==
    \A r \in Runners : child[r] \in Outputs => child'[r] = child[r] /\ said'[r] = said[r]

LEMMA WordsStay == RunnerInv /\ [RunnerNext]_runnerVars => WordsStand
<1> SUFFICES ASSUME RunnerInv, [RunnerNext]_runnerVars PROVE WordsStand
  OBVIOUS
<1>1. CASE UNCHANGED <<child, said>>
  BY <1>1 DEF WordsStand
<1>2. CASE \E r \in Runners : child[r] = "alive" /\ Ends(r)
  BY <1>2, AgentGone DEF WordsStand, RunnerInv, Outputs
<1>3. CASE \E r \in Runners : Spawn(r)
  BY <1>3 DEF Spawn, WordsStand, RunnerInv, RunnerTyped, ChildFits, Outputs
<1>4. ASSUME NEW r \in Runners, Invoke(r), ~Spawn(r)
      PROVE  UNCHANGED <<child, said>> \/ (child[r] = "alive" /\ Ends(r))
  <2>1. CASE Timeout(r)
    BY <2>1 DEF Timeout, Expires
  <2>2. CASE StoreTimeout(r) \/ StoreReported(r) \/ StoreRaised(r)
    BY <2>2 DEF StoreTimeout, StoreReported, StoreRaised
  <2>3. CASE RefuseStart(r) \/ RefuseCopy(r) \/ Publish(r) \/ SetRunning(r) \/ Communicated(r)
             \/ Withdraw(r) \/ CheckCancelled(r) \/ RejectOutput(r)
    BY <2>3 DEF RefuseStart, RefuseCopy, Publish, SetRunning, Communicated, Withdraw,
                CheckCancelled, RejectOutput
  <2>4. QED
    BY <1>4, <2>1, <2>2, <2>3 DEF Invoke
<1>5. ASSUME NEW r \in Runners, Start(r) \/ Reread(r) \/ WaitForExisting(r)
      PROVE  UNCHANGED <<child, said>>
  BY <1>5 DEF Start, BeginFirst, BeginAgain, Reread, WaitForExisting, DeclareLost, StopWaiting
<1>6. ASSUME NEW r \in Runners, Outside(r)
      PROVE  UNCHANGED <<child, said>> \/ (child[r] = "alive" /\ Ends(r))
  <2>1. CASE AgentEnds(r) \/ Kill(r) \/ Death(r)
    BY <2>1 DEF AgentEnds, Kill, Death
  <2>2. CASE Term(r)
    BY <2>2 DEF Term
  <2>3. QED
    BY <1>6, <2>1, <2>2 DEF Outside
<1>7. ASSUME NEW x \in Cancellers, Cancel(x)
      PROVE  UNCHANGED <<child, said>> \/ (\E r \in Runners : child[r] = "alive" /\ Ends(r))
  <2>1. CASE CancelRead(x) \/ CancelStore(x)
    BY <2>1 DEF CancelRead, CancelStore
  <2>2. CASE CancelSignal(x)
    <3>1. at[x].seen.pid # NoRunner => at[x].seen.pid \in Runners
      BY <2>2 DEF CancelSignal, RunnerInv, RunnerTyped, RunnerProcs, RunnerPlaces, FirstPcs,
                  SeenPcs, JobRows
    <3>2. QED
      BY <2>2, <3>1 DEF CancelSignal
  <2>3. QED
    BY <1>7, <2>1, <2>2 DEF Cancel
<1>8. CASE UNCHANGED runnerVars
  BY <1>1, <1>8 DEF runnerVars
<1>9. QED
  BY <1>1, <1>2, <1>3, <1>4, <1>5, <1>6, <1>7, <1>8 DEF RunnerNext

\* A waiting call may answer with the row as it read it, which is not always the
\* row as it is.
CopiesAreHonest ==
    mode = "workspace-write" =>
        \A p \in RunnerProcs : at[p].pc = "waiting" => Credible(at[p].seen.result)

UncertainInv == UncertainWriteIsUnknown /\ CopiesAreHonest

LEMMA HonestStays ==
    ASSUME NEW res, Credible(res), WordsStand
    PROVE  Credible(res)'
BY DEF Credible, WordsStand, AgentSaid, SaidNothing, Outputs

\* A step that adds one result keeps the rest.
LEMMA OneMore ==
    ASSUME UncertainWriteIsUnknown, WordsStand, mode' = mode, NEW res,
           mode = "workspace-write" => Credible(res)',
           Kept' \subseteq Kept \cup {res}
    PROVE  UncertainWriteIsUnknown'
<1> SUFFICES ASSUME mode = "workspace-write" PROVE \A x \in Kept' : Credible(x)'
  BY DEF UncertainWriteIsUnknown, Credible
<1>1. \A x \in Kept : Credible(x)
  BY DEF UncertainWriteIsUnknown, Credible
<1>2. \A x \in Kept : Credible(x)'
  BY <1>1, HonestStays
<1>3. QED
  BY <1>2

\* Where that result comes from: an answer, the row, or both.
LEMMA ToldOne ==
    ASSUME RunnerTyped, NEW p \in RunnerProcs, NEW res,
           answer' = answer \/ answer' = [answer EXCEPT ![p] = res],
           job' = job \/ (job' # NoJob /\ job'.result = res)
    PROVE  Kept' \subseteq Kept \cup {res}
<1>1. /\ DOMAIN answer' = DOMAIN answer
      /\ \A q \in DOMAIN answer : answer'[q] = answer[q] \/ answer'[q] = res
  BY DEF RunnerTyped
<1>2. QED
  BY <1>1 DEF Kept

LEMMA UnsureIsHonest ==
    ASSUME NEW c, NEW o, NEW b, NEW res, res = Unsure(c, o, b), mode = "workspace-write"
    PROVE  Credible(res)'
BY DEF Credible, Unsure, Result

\* What a call waits with is the row of the step at which it read it.
LEMMA CopiesAreRows ==
    ASSUME RunnerInv, [RunnerNext]_runnerVars, NEW p \in RunnerProcs, at'[p].pc = "waiting"
    PROVE  at'[p] = at[p] \/ (job # NoJob /\ at'[p].seen = job)
<1>1. DOMAIN at = RunnerProcs /\ Runners \subseteq RunnerProcs /\ Cancellers \subseteq RunnerProcs
  BY DEF RunnerInv, RunnerTyped, RunnerProcs
<1>2. ASSUME NEW r \in Runners, BeginAgain(r) \/ Reread(r)
      PROVE  at'[p] = at[p] \/ (job # NoJob /\ at'[p].seen = job)
  <2>1. job # NoJob
    BY <1>1, <1>2 DEF BeginAgain, Reread, Reused, RunnerInv, SeenExists, SeenPcs
  <2>2. CASE Goes(r, [pc |-> "waiting", seen |-> job])
    BY <1>1, <2>1, <2>2 DEF Goes
  <2>3. CASE Goes(r, To("answered"))
    BY <1>1, <2>3 DEF Goes, To
  <2>4. QED
    BY <1>2, <2>2, <2>3 DEF BeginAgain, Reread, Tell
<1>3. ASSUME NEW r \in Runners, Invoke(r) \/ BeginFirst(r) \/ WaitForExisting(r) PROVE at'[p] = at[p]
  <2>1. CASE UNCHANGED at
    BY <2>1
  <2>2. CASE \E c \in FirstPcs \cup {"answered"} : Goes(r, To(c))
    BY <1>1, <2>2 DEF Goes, To, FirstPcs
  <2>3. CASE BeginFirst(r) \/ RefuseCopy(r) \/ Spawn(r) \/ Publish(r)
             \/ SetRunning(r) \/ Communicated(r) \/ Withdraw(r) \/ RejectOutput(r)
    BY <2>2, <2>3 DEF BeginFirst, RefuseCopy, Spawn, Publish, SetRunning,
                      Communicated, Withdraw, RejectOutput, FirstPcs
  <2>4. CASE Timeout(r)
    <3>1. PICK w \in BOOLEAN : Goes(r, [pc |-> "timedout", waited |-> w])
      BY <2>4 DEF Timeout
    <3>2. QED
      BY <1>1, <3>1 DEF Goes
  <2>5. CASE RefuseStart(r) \/ StoreTimeout(r) \/ StoreReported(r) \/ StoreRaised(r) \/ DeclareLost(r)
    BY <2>2, <2>5 DEF RefuseStart, StoreTimeout, StoreReported, StoreRaised, DeclareLost, Tell
  <2>6. CASE CheckCancelled(r) \/ StopWaiting(r)
    BY <2>2, <2>6 DEF CheckCancelled, StopWaiting, Tell, FirstPcs
  <2>7. QED
    BY <1>3, <2>3, <2>4, <2>5, <2>6 DEF Invoke, WaitForExisting
<1>4. ASSUME NEW r \in Runners, Outside(r) PROVE at'[p] = at[p]
  <2>1. CASE UNCHANGED at
    BY <2>1
  <2>2. CASE Goes(r, [pc |-> "stuck", waited |-> at[r].pc = "unlocking"]) \/ Goes(r, To("dead"))
    BY <1>1, <2>2 DEF Goes, To
  <2>3. QED
    BY <1>4, <2>1, <2>2 DEF Outside, AgentEnds, Term, Kill, Death, Dies
<1>5. ASSUME NEW x \in Cancellers, Cancel(x) PROVE at'[p] = at[p]
  <2>1. CASE CancelRead(x)
    BY <1>1, <2>1 DEF CancelRead, Goes
  <2>2. CASE CancelStore(x)
    <3>1. at[x] \in RunnerPlaces /\ at[x].pc = "deciding" /\ Goes(x, [at[x] EXCEPT !.pc = "signalling"])
      BY <1>1, <2>2 DEF CancelStore, RunnerInv, RunnerTyped
    <3>2. [at[x] EXCEPT !.pc = "signalling"].pc = "signalling"
      BY <3>1 DEF RunnerPlaces, SeenPcs, FirstPcs
    <3>3. QED
      BY <1>1, <3>1, <3>2 DEF Goes
  <2>3. CASE CancelSignal(x)
    <3>1. Goes(x, To("answered"))
      BY <2>3 DEF CancelSignal, Tell
    <3>2. QED
      BY <1>1, <3>1 DEF Goes, To
  <2>4. QED
    BY <1>5, <2>1, <2>2, <2>3 DEF Cancel
<1>6. CASE UNCHANGED runnerVars
  BY <1>6 DEF runnerVars
<1>7. QED
  BY <1>2, <1>3, <1>4, <1>5, <1>6 DEF RunnerNext, Start

LEMMA ModeStays == [RunnerNext]_runnerVars => mode' = mode
BY DEF RunnerNext, runnerVars, Start, BeginFirst, BeginAgain, Invoke, RefuseStart, RefuseCopy, Spawn,
       Publish, SetRunning, Communicated, Withdraw, Timeout, StoreTimeout, CheckCancelled, StoreReported,
       RejectOutput, StoreRaised, Reread, WaitForExisting, DeclareLost, StopWaiting, Outside, AgentEnds,
       Term, Kill, Death, Cancel, CancelRead, CancelStore, CancelSignal

LEMMA CopiesStep ==
    RunnerInv /\ UncertainInv /\ [RunnerNext]_runnerVars => CopiesAreHonest'
<1> SUFFICES ASSUME RunnerInv, UncertainInv, [RunnerNext]_runnerVars
             PROVE  CopiesAreHonest'
  OBVIOUS
<1>1. WordsStand /\ mode' = mode
  BY WordsStay, ModeStays
<1>2. ASSUME mode = "workspace-write", NEW p \in RunnerProcs, at'[p].pc = "waiting",
             NEW res, res = at'[p].seen.result
      PROVE  Credible(res)'
  <2>1. CASE at'[p] = at[p]
    BY <1>1, <1>2, <2>1, HonestStays DEF UncertainInv, CopiesAreHonest
  <2>2. CASE job # NoJob /\ at'[p].seen = job
    <3>1. res \in Kept
      BY <1>2, <2>2 DEF Kept
    <3>2. Credible(res)
      BY <1>2, <3>1 DEF UncertainInv, UncertainWriteIsUnknown, Credible
    <3>3. QED
      BY <1>1, <3>2, HonestStays
  <2>3. QED
    BY <1>2, <2>1, <2>2, CopiesAreRows
<1>3. QED
  BY <1>1, <1>2 DEF CopiesAreHonest, Credible, AgentSaid, SaidNothing

LEMMA UncertainStep ==
    RunnerInv /\ UncertainInv /\ [RunnerNext]_runnerVars => UncertainWriteIsUnknown'
<1> SUFFICES ASSUME RunnerInv, UncertainWriteIsUnknown, CopiesAreHonest, [RunnerNext]_runnerVars
             PROVE  UncertainWriteIsUnknown'
  BY DEF UncertainInv
<1>1. WordsStand /\ RunnerTyped
  BY WordsStay DEF RunnerInv
<1>2. ASSUME job' = job, answer' = answer, mode' = mode PROVE UncertainWriteIsUnknown'
  <2>1. Kept' = Kept
    BY <1>2 DEF Kept
  <2>2. Credible(NoResult)'
    BY DEF Credible, NoResult
  <2>3. QED
    BY <1>1, <1>2, <2>1, <2>2, OneMore
<1>3. ASSUME NEW p \in RunnerProcs, NEW res, mode' = mode, mode = "workspace-write" => Credible(res)',
             Tell(p, res) \/ answer' = answer, job' = job \/ Finish(res)
      PROVE  UncertainWriteIsUnknown'
  <2>1. job' = job \/ (job' # NoJob /\ job'.result = res)
    BY <1>3 DEF Finish, Row, NoJob
  <2>2. Kept' \subseteq Kept \cup {res}
    BY <1>1, <1>3, <2>1, ToldOne DEF Tell
  <2>3. QED
    BY <1>1, <1>3, <2>2, OneMore
<1>4. ASSUME mode = "workspace-write", job # NoJob, NEW res, res = job.result PROVE Credible(res)'
  <2>1. res \in Kept
    BY <1>4 DEF Kept
  <2>2. Credible(res)
    BY <1>4, <2>1 DEF UncertainWriteIsUnknown, Credible
  <2>3. QED
    BY <1>1, <2>2, HonestStays
<1>5. Runners \subseteq RunnerProcs /\ Cancellers \subseteq RunnerProcs
  BY DEF RunnerProcs
<1>6. ASSUME NEW c \in {"refused", "job_running", "transport"}, NEW b
      PROVE  Credible(Result("failed", c, b))'
  BY DEF Credible, Result
<1>7. ASSUME NEW r \in Runners, Start(r) PROVE UncertainWriteIsUnknown'
  <2>1. CASE BeginFirst(r)
    <3>1. job' # NoJob /\ job'.result = NoResult /\ answer' = answer /\ mode' = mode
      BY <2>1 DEF BeginFirst, Row, NoJob
    <3>2. Kept' \subseteq Kept \cup {NoResult}
      BY <1>1, <1>5, <3>1, ToldOne
    <3>3. Credible(NoResult)'
      BY DEF Credible, NoResult
    <3>4. QED
      BY <1>1, <3>1, <3>2, <3>3, OneMore
  <2>2. CASE BeginAgain(r)
    BY <1>2, <1>3, <1>5, <1>6, <2>2 DEF BeginAgain
  <2>3. QED
    BY <1>7, <2>1, <2>2 DEF Start
<1>8. ASSUME NEW r \in Runners, Invoke(r) PROVE UncertainWriteIsUnknown'
  <2>1. CASE RefuseCopy(r) \/ Spawn(r) \/ Publish(r) \/ Communicated(r) \/ Withdraw(r)
             \/ Timeout(r) \/ RejectOutput(r)
    BY <1>2, <2>1 DEF RefuseCopy, Spawn, Publish, Communicated, Withdraw, Timeout, RejectOutput
  <2>2. CASE RefuseStart(r)
    BY <1>3, <1>5, <1>6, <2>2 DEF RefuseStart
  <2>3. CASE SetRunning(r)
    <3>1. job # NoJob /\ job'.result = job.result /\ answer' = answer /\ mode' = mode
      BY <2>3 DEF SetRunning, RunnerInv, RunnerTyped, OneBegan, Began, FirstPcs, JobRows
    <3>2. Kept' \subseteq Kept
      BY <3>1 DEF Kept
    <3>3. PICK res : res = job.result
      OBVIOUS
    <3>4. mode = "workspace-write" => Credible(res)'
      BY <1>4, <3>1, <3>3
    <3>5. QED
      BY <1>1, <3>1, <3>2, <3>4, OneMore
  <2>4. CASE StoreTimeout(r)
    <3>0. PICK res : res = Unsure("timeout", "failed", TRUE)
      OBVIOUS
    <3>1. Finish(res) /\ Tell(r, res) /\ mode' = mode
      BY <3>0, <2>4 DEF StoreTimeout
    <3>2. mode = "workspace-write" => Credible(res)'
      BY <3>0, UnsureIsHonest
    <3>3. QED
      BY <1>3, <1>5, <3>1, <3>2
  <2>5. CASE CheckCancelled(r)
    <3>1. CASE CancelStands
      <4>1. job # NoJob
        BY <2>5 DEF CheckCancelled, RunnerInv, OneBegan, Began, FirstPcs
      <4>2. PICK res : res = job.result
        OBVIOUS
      <4>3. mode = "workspace-write" => Credible(res)'
        BY <1>4, <4>1, <4>2
      <4>4. Tell(r, res) /\ job' = job /\ mode' = mode
        BY <2>5, <3>1, <4>2 DEF CheckCancelled
      <4>5. QED
        BY <1>3, <1>5, <4>3, <4>4
    <3>2. CASE ~CancelStands
      BY <1>2, <2>5, <3>2 DEF CheckCancelled
    <3>3. QED
      BY <3>1, <3>2
  <2>6. CASE StoreReported(r)
    <3>1. child'[r] = child[r] /\ said'[r] = said[r] /\ child[r] \in {"silent", "answered"}
      BY <2>6 DEF StoreReported, RunnerInv, ChildFits, Outputs
    <3>0. PICK res : res = Reported(r)
      OBVIOUS
    <3>2. Credible(res)'
      BY <3>0, <3>1 DEF Credible, Reported, AgentSaid, SaidNothing
    <3>3. QED
      <4>1. Finish(res) /\ Tell(r, res) /\ mode' = mode
        BY <2>6, <3>0 DEF StoreReported
      <4>2. QED
        BY <1>3, <1>5, <3>2, <4>1
  <2>7. CASE StoreRaised(r)
    <3>0. PICK res : res = Unsure("raised", "failed", FALSE)
      OBVIOUS
    <3>1. Finish(res) /\ Tell(r, res) /\ mode' = mode
      BY <3>0, <2>7 DEF StoreRaised
    <3>2. mode = "workspace-write" => Credible(res)'
      BY <3>0, UnsureIsHonest
    <3>3. QED
      BY <1>3, <1>5, <3>1, <3>2
  <2>8. QED
    BY <1>8, <2>1, <2>2, <2>3, <2>4, <2>5, <2>6, <2>7 DEF Invoke
<1>9. ASSUME NEW r \in Runners, WaitForExisting(r) \/ Reread(r) PROVE UncertainWriteIsUnknown'
  <2>1. CASE DeclareLost(r)
    <3>0. PICK res : res = Unsure("lost", "failed", TRUE)
      OBVIOUS
    <3>1. Finish(res) /\ Tell(r, res) /\ mode' = mode
      BY <3>0, <2>1 DEF DeclareLost
    <3>2. mode = "workspace-write" => Credible(res)'
      BY <3>0, UnsureIsHonest
    <3>3. QED
      BY <1>3, <1>5, <3>1, <3>2
  <2>2. CASE StopWaiting(r)
    <3>0. PICK res : res = IF at[r].seen.result # NoResult THEN at[r].seen.result
                           ELSE Result("failed", "job_running", TRUE)
      OBVIOUS
    <3>1. at[r].pc = "waiting" /\ Tell(r, res) /\ job' = job /\ mode' = mode
      BY <2>2, <3>0 DEF StopWaiting
    <3>2. mode = "workspace-write" => Credible(at[r].seen.result)
      BY <1>5, <3>1 DEF CopiesAreHonest
    <3>3. mode = "workspace-write" => Credible(res)
      BY <3>0, <3>2 DEF Credible, Result
    <3>4. mode = "workspace-write" => Credible(res)'
      BY <1>1, <3>3, HonestStays
    <3>5. QED
      BY <1>3, <1>5, <3>1, <3>4
  <2>3. CASE Reread(r)
    BY <1>2, <2>3 DEF Reread
  <2>4. QED
    BY <1>9, <2>1, <2>2, <2>3 DEF WaitForExisting
<1>10. ASSUME NEW r \in Runners, Outside(r) PROVE UncertainWriteIsUnknown'
  <2>1. CASE AgentEnds(r) \/ Term(r)
    BY <1>2, <2>1 DEF AgentEnds, Term
  <2>2. CASE Kill(r) \/ Death(r)
    <3>0. PICK res : res = Result("failed", "transport", TRUE)
      OBVIOUS
    <3>1. /\ answer' = [answer EXCEPT ![r] = res] /\ job' = job /\ mode' = mode
      BY <2>2, <3>0 DEF Kill, Death, Dies
    <3>2. Credible(res)'
      BY <3>0 DEF Credible, Result
    <3>3. Kept' \subseteq Kept \cup {res}
      BY <1>1, <1>5, <3>1, ToldOne
    <3>4. QED
      BY <1>1, <3>1, <3>2, <3>3, OneMore
  <2>3. QED
    BY <1>10, <2>1, <2>2 DEF Outside
<1>11. ASSUME NEW x \in Cancellers, Cancel(x) PROVE UncertainWriteIsUnknown'
  <2>1. CASE CancelRead(x)
    BY <1>2, <2>1 DEF CancelRead
  <2>2. CASE CancelStore(x)
    <3>0. PICK res : res = Unsure("cancelled", "cancelled", TRUE)
      OBVIOUS
    <3>1. Finish(res) /\ answer' = answer /\ mode' = mode
      BY <3>0, <2>2 DEF CancelStore
    <3>2. mode = "workspace-write" => Credible(res)'
      BY <3>0, UnsureIsHonest
    <3>3. QED
      BY <1>3, <1>5, <3>1, <3>2
  <2>3. CASE CancelSignal(x)
    <3>0. PICK res : res = Unsure("cancelled", "cancelled", TRUE)
      OBVIOUS
    <3>1. Tell(x, res) /\ job' = job /\ mode' = mode
      BY <3>0, <2>3 DEF CancelSignal
    <3>2. mode = "workspace-write" => Credible(res)'
      BY <3>0, UnsureIsHonest
    <3>3. QED
      BY <1>3, <1>5, <3>1, <3>2
  <2>4. QED
    BY <1>11, <2>1, <2>2, <2>3 DEF Cancel
<1>12. CASE UNCHANGED runnerVars
  BY <1>2, <1>12 DEF runnerVars
<1>13. QED
  BY <1>7, <1>8, <1>9, <1>10, <1>11, <1>12 DEF RunnerNext

-----------------------------------------------------------------------------
\* What is kept of a job that may write, and what a caller is told of it, is the
\* agent's own word, that it ended without one, or that the effect is unknown and
\* not to be retried, whoever concludes it: the call, a retry that finds the
\* process gone, or a cancel request (StoreTimeout, DeclareLost, CancelStore).
THEOREM UncertainWrites == RunnerSpec => []UncertainWriteIsUnknown
<1>1. RunnerInit => UncertainInv
  <2> SUFFICES ASSUME RunnerInit PROVE UncertainInv
    OBVIOUS
  <2>1. \A res \in Kept : res.code = "none"
    BY DEF RunnerInit, Kept, NoResult, NoJob
  <2>2. CopiesAreHonest
    BY DEF RunnerInit, CopiesAreHonest, Idle, RunnerProcs
  <2>3. QED
    BY <2>1, <2>2 DEF UncertainWriteIsUnknown, UncertainInv
<1>2. UncertainInv => UncertainWriteIsUnknown
  BY DEF UncertainInv
<1>3. RunnerInv /\ UncertainInv /\ [RunnerNext]_runnerVars => UncertainInv'
  BY UncertainStep, CopiesStep DEF UncertainInv
<1>4. QED
  BY <1>1, <1>2, <1>3, RunnerInvariance, PTL DEF RunnerSpec

\* A call that started the agent and answered leaves a job that is over.
THEOREM NoAnswerBeforeTheEnd == RunnerSpec => []AnsweredIsSettled
BY RunnerInvariance, PTL DEF RunnerInv
==============================================================================
