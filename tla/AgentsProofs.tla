----------------------------- MODULE AgentsProofs -----------------------------
(***************************************************************************)
(* Proofs about the catalogue of agents, for any number of references,     *)
(* operators, operations and deaths: the registry can always be read, an   *)
(* exact reference keeps its content and its revocation while no living    *)
(* process loses the lock, a synchronisation touches only what is its own, *)
(* and nobody who could see that a run uses a version takes it away.       *)
(***************************************************************************)
EXTENDS Agents, FiniteSetTheorems, TLAPS

-----------------------------------------------------------------------------
(* What an operator's process carries, by where it is.                       *)

Digs   == Digests \cup {NoDigest}
Row    == [dig : Digs, on : BOOLEAN, revoked : BOOLEAN]
Entry  == [dig : Digs, off : BOOLEAN, revoked : BOOLEAN, tomb : Digs]
Docs   == [Refs -> Entry]
Tie    == [dig : Digs, by : {"untracked", "managed", "observed"}]
States == [Sources -> [Refs -> Tie]]
Discoveries == [offer : [Refs -> Digs], hidden : SUBSET Refs, complete : BOOLEAN,
                real : SUBSET Refs]
Changes == {"publish", "enable", "disable", "revoke"}
Acts    == [Refs -> Changes \cup {"track", "none"}]

Rest      == [pc : {"idle", "dead"}]
Asking    == [pc : {"ask", "serve"}, op : RemoteOps, ref : Refs, dig : Digs]
Deciding  == [pc : {"record"}, op : {"admin"}, ok : BOOLEAN, recorded : BOOLEAN]
Mutating  == [pc : {"lock_registry", "break_registry"}, op : LocalOps, ref : Refs, dig : Digs]
Writing   == [pc : {"write", "release"}, op : LocalOps, doc : Docs]
Planning  == [pc : {"lock_sync", "break_sync"}, op : {"sync"}, src : Sources,
              missing : Lifecycle, found : Discoveries]
Applying  == [pc : {"lock_registry", "break_registry", "save"}, op : {"sync"}, src : Sources,
              found : Discoveries, acts : Acts, state : States]
Replacing == [pc : {"write", "release", "save"}, op : {"sync"}, src : Sources,
              found : Discoveries, acts : Acts, state : States, doc : Docs]
Calls == Rest \cup Asking \cup Deciding \cup Mutating \cup Writing \cup Planning
         \cup Applying \cup Replacing

Runs == [pc : {"none", "bound", "active"}, ref : Refs \cup {0}, dig : Digs,
         met : SUBSET Clients]

Typed ==
    /\ manager \in [Refs -> Row] /\ local \in Docs /\ binding \in States
    /\ lock \in [Files -> Clients \cup {NoClient}]
    /\ call \in [Clients -> Calls] /\ run \in Runs
    /\ silent \in BOOLEAN /\ stolen \subseteq Files /\ ever \in [Refs -> SUBSET Digests]
    /\ ops \in 0..MaxOps /\ crashes \in 0..MaxCrashes

\* The version was not offered, or only the limit of the manager hid it.
Gone(my, r) == r \notin my.found.real \/ Clipped(my)

\* A complete discovery lists what there is.
Fair(my) == my.found.complete =>
    \A r \in Refs : my.found.offer[r] = NoDigest \/ r \in my.found.hidden => Gone(my, r)

\* A plan changes what its source manages, and withdraws what is gone.
Planned(my) == \A r \in Refs :
    /\ my.acts[r] \in {"enable", "disable", "revoke"} => my.state[my.src][r].by = "managed"
    /\ my.acts[r] \in {"disable", "revoke"} => Gone(my, r)

\* What a process carries, whatever the others do meanwhile.
Sound(my) ==
    /\ my.pc = "write" => \A r \in Refs : Loads(my.doc[r])
    /\ my \in Planning => Fair(my)
    /\ my \in Applying \cup Replacing => Planned(my)

Owed == \A r \in Refs : manager[r].revoked => manager[r].dig # NoDigest

\* The registry while nobody lost its lock.
Holds(c) == call[c].pc \in {"write", "release"} => lock["registry"] = c

\* One change of an entry.
Derives(e, n) == n = e \/ \E op \in LocalOps, d \in Digs : Accepts(op, e, d) /\ n = Changed(op, e, d)
Follows(my, r) ==
    /\ Derives(local[r], my.doc[r])
    /\ my.op = "sync" =>
          /\ my.doc[r].off # local[r].off => my.acts[r] \in {"enable", "disable", "revoke"}
          /\ my.doc[r].off /\ ~local[r].off => my.acts[r] \in {"disable", "revoke"}
Based(c) == call[c].pc = "write" => \A r \in Refs : Follows(call[c], r)

\* A digest the registry had is still its entry's, or its tombstone's.
Recalls(e, x) == x = e.dig \/ (e.dig = NoDigest /\ x = e.tomb)
Traced == \A r \in Refs : \A x \in ever[r] : Recalls(local[r], x)

\* What holds whoever took which lock.
Facts == Readable /\ Owed /\ ~silent /\ (\A c \in Clients : Sound(call[c]))

\* What needs the lock of the registry.
Held == "registry" \notin stolen => Traced /\ \A c \in Clients : Holds(c) /\ Based(c)

IInv == Typed /\ Facts /\ Held

-----------------------------------------------------------------------------
(* What a mutation does to an entry.                                         *)

LEMMA ChangedIs ==
    ASSUME NEW e \in Entry, NEW d \in Digs
    PROVE  /\ Changed("publish", e, d) = [e EXCEPT !.dig = d]
           /\ Changed("enable", e, d) = [e EXCEPT !.off = FALSE]
           /\ Changed("disable", e, d) = [e EXCEPT !.off = TRUE]
           /\ Changed("revoke", e, d) = [e EXCEPT !.off = TRUE, !.revoked = TRUE, !.tomb = e.dig]
           /\ Changed("remove", e, d) = Removed(e)
  BY DEF Changed

LEMMA RemovedIs ==
    ASSUME NEW e \in Entry
    PROVE  /\ Removed(e) \in Entry /\ Removed(e).dig = NoDigest /\ Removed(e).off = FALSE
           /\ Removed(e).revoked = FALSE /\ Removed(e).tomb = e.dig
<1>1. e.dig \in Digs /\ NoDigest \in Digs
  BY DEF Entry, Digs
<1>2. /\ NoEntry \in Entry /\ NoEntry.dig = NoDigest /\ NoEntry.off = FALSE
      /\ NoEntry.revoked = FALSE
  BY <1>1 DEF NoEntry, Entry
<1>3. Removed(e) = [NoEntry EXCEPT !.tomb = e.dig]
  BY DEF Removed
<1> QED BY <1>1, <1>2, <1>3 DEF Entry

LEMMA AcceptsIs ==
    ASSUME NEW e \in Entry, NEW d \in Digs
    PROVE  /\ Accepts("publish", e, d) <=> Immutable(e, d)
           /\ Accepts("enable", e, d) <=> e.dig # NoDigest /\ ~e.revoked
           /\ Accepts("disable", e, d) <=> e.dig # NoDigest
           /\ Accepts("revoke", e, d) <=> e.dig # NoDigest
           /\ Accepts("remove", e, d) <=> e.dig # NoDigest /\ e.off /\ ~e.revoked
  BY DEF Accepts

\* What every accepted change keeps: the file loads, a revocation stays, and a
\* digest leaves a trace.
Keeps(e, n) ==
    /\ n \in Entry /\ Loads(n)
    /\ e.revoked => n.revoked
    /\ \A x \in Digests : Recalls(e, x) => Recalls(n, x)
    /\ n.dig # NoDigest => n.tomb \in {NoDigest, n.dig}

LEMMA ChangeKeeps ==
    ASSUME NEW e \in Entry, Loads(e), NEW op \in LocalOps, NEW d \in Digs, Accepts(op, e, d)
    PROVE  /\ Keeps(e, Changed(op, e, d))
           /\ Changed(op, e, d).off # e.off => op \in {"enable", "disable", "revoke", "remove"}
           /\ Changed(op, e, d).off /\ ~e.off => op \in {"disable", "revoke"}
<1> DEFINE n == Changed(op, e, d)
<1>0. NoDigest \notin Digests /\ NoDigest \in Digs
  BY NobodyAssumption DEF Digs
<1>1. /\ e.dig \in Digs /\ e.tomb \in Digs /\ e.off \in BOOLEAN /\ e.revoked \in BOOLEAN
      /\ e.off => e.dig # NoDigest
      /\ e.revoked => e.off /\ e.tomb = e.dig
      /\ e.dig # NoDigest => e.tomb \in {NoDigest, e.dig}
  BY DEF Entry, Loads
<1>2. CASE op = "publish"
  <2>1. n = [e EXCEPT !.dig = d] /\ Immutable(e, d)
    BY <1>2, ChangedIs, AcceptsIs
  <2>2. /\ n \in Entry /\ n.dig = d /\ n.off = e.off /\ n.revoked = e.revoked /\ n.tomb = e.tomb
    BY <2>1 DEF Entry
  <2> HIDE DEF n
  <2>3. e.dig \in {NoDigest, d} /\ e.tomb \in {NoDigest, d}
    BY <2>1 DEF Immutable
  <2>4. Loads(n)
    BY <1>1, <2>2, <2>3 DEF Loads
  <2>5. \A x \in Digests : Recalls(e, x) => Recalls(n, x)
    BY <1>0, <1>1, <2>2, <2>3 DEF Recalls
  <2> QED BY <1>2, <2>2, <2>3, <2>4, <2>5 DEF Keeps, n
<1>3. CASE op = "enable"
  <2>1. n = [e EXCEPT !.off = FALSE] /\ ~e.revoked
    BY <1>3, ChangedIs, AcceptsIs
  <2>2. /\ n \in Entry /\ n.dig = e.dig /\ n.off = FALSE /\ n.revoked = e.revoked /\ n.tomb = e.tomb
    BY <2>1 DEF Entry
  <2> HIDE DEF n
  <2>3. Loads(n) /\ \A x \in Digests : Recalls(e, x) => Recalls(n, x)
    BY <1>1, <2>1, <2>2 DEF Loads, Recalls
  <2> QED BY <1>1, <1>3, <2>2, <2>3 DEF Keeps, n
<1>4. CASE op = "disable"
  <2>1. n = [e EXCEPT !.off = TRUE] /\ e.dig # NoDigest
    BY <1>4, ChangedIs, AcceptsIs
  <2>2. /\ n \in Entry /\ n.dig = e.dig /\ n.off = TRUE /\ n.revoked = e.revoked /\ n.tomb = e.tomb
    BY <2>1 DEF Entry
  <2> HIDE DEF n
  <2>3. Loads(n) /\ \A x \in Digests : Recalls(e, x) => Recalls(n, x)
    BY <1>1, <2>1, <2>2 DEF Loads, Recalls
  <2> QED BY <1>1, <1>4, <2>2, <2>3 DEF Keeps, n
<1>5. CASE op = "revoke"
  <2>1. n = [e EXCEPT !.off = TRUE, !.revoked = TRUE, !.tomb = e.dig] /\ e.dig # NoDigest
    BY <1>5, ChangedIs, AcceptsIs
  <2>2. /\ n \in Entry /\ n.dig = e.dig /\ n.off = TRUE /\ n.revoked = TRUE /\ n.tomb = e.dig
    BY <1>1, <2>1 DEF Entry
  <2> HIDE DEF n
  <2>3. Loads(n) /\ \A x \in Digests : Recalls(e, x) => Recalls(n, x)
    BY <1>1, <2>1, <2>2 DEF Loads, Recalls
  <2> QED BY <1>1, <1>5, <2>2, <2>3 DEF Keeps, n
<1>6. CASE op = "remove"
  <2>1. n = Removed(e) /\ e.dig # NoDigest /\ e.off /\ ~e.revoked
    BY <1>6, ChangedIs, AcceptsIs
  <2>2. /\ n \in Entry /\ n.dig = NoDigest /\ n.off = FALSE /\ n.revoked = FALSE /\ n.tomb = e.dig
    BY <2>1, RemovedIs
  <2> HIDE DEF n
  <2>3. Loads(n) /\ \A x \in Digests : Recalls(e, x) => Recalls(n, x)
    BY <1>0, <2>1, <2>2 DEF Loads, Recalls
  <2> QED BY <1>1, <1>6, <2>1, <2>2, <2>3 DEF Keeps, n
<1> QED BY <1>2, <1>3, <1>4, <1>5, <1>6 DEF LocalOps

LEMMA DerivedKeeps ==
    ASSUME NEW e \in Entry, Loads(e), NEW n, Derives(e, n)
    PROVE  Keeps(e, n)
<1>1. CASE n = e
  BY <1>1 DEF Keeps, Loads
<1>2. CASE \E op \in LocalOps, d \in Digs : Accepts(op, e, d) /\ n = Changed(op, e, d)
  BY <1>2, ChangeKeeps
<1> QED BY <1>1, <1>2 DEF Derives

-----------------------------------------------------------------------------
(* How a process moves, and what that leaves of the others.                  *)

Others(c) == \A d \in Clients : d # c => call'[d] = call[d]

LEMMA Moves ==
    ASSUME Typed, NEW c \in Clients, NEW my \in Calls, Goto(c, my)
    PROVE  call' \in [Clients -> Calls] /\ call'[c] = my /\ Others(c)
  BY DEF Typed, Goto, Others

LEMMA RestSound ==
    ASSUME NEW my \in Rest
    PROVE  my \in Calls /\ Sound(my) /\ my.pc \in {"idle", "dead"}
  BY DEF Rest, Calls, Sound, Planning, Applying, Replacing

LEMMA Ends ==
    ASSUME Typed, NEW c \in Clients, End(c)
    PROVE  /\ call' \in [Clients -> Calls] /\ Others(c) /\ Sound(call'[c])
           /\ call'[c].pc \in {"idle", "dead"}
<1>1. Idle \in Rest
  BY DEF Idle, Rest
<1>2. Idle \in Calls /\ Sound(Idle) /\ Idle.pc \in {"idle", "dead"}
  BY <1>1, RestSound
<1> QED BY <1>2, Moves DEF End

\* What a process carries stays sound while another moves.
LEMMA StillSound ==
    ASSUME NEW c \in Clients, Others(c), \A d \in Clients : Sound(call[d]), Sound(call'[c])
    PROVE  \A d \in Clients : Sound(call[d])'
<1>1. ASSUME NEW d \in Clients PROVE Sound(call'[d])
  BY DEF Others
<1> QED BY <1>1 DEF Sound, Fair, Planned, Gone, Clipped, Loads

\* A step that neither writes the registry nor touches its lock.
LEMMA HeldAside ==
    ASSUME Held, NEW c \in Clients, Others(c), UNCHANGED <<local, ever, stolen>>,
           lock'["registry"] = lock["registry"],
           call'[c].pc \notin {"write", "release"}
    PROVE  Held'
<1> SUFFICES ASSUME "registry" \notin stolen
             PROVE  Traced' /\ \A d \in Clients : Holds(d)' /\ Based(d)'
  BY DEF Held
<1>1. Traced'
  BY DEF Held, Traced, Recalls
<1>2. ASSUME NEW d \in Clients PROVE Holds(d)' /\ Based(d)'
  <2>1. CASE d = c
    BY <2>1 DEF Holds, Based
  <2>2. CASE d # c
    <3>1. call'[d] = call[d]
      BY <2>2 DEF Others
    <3> QED BY <3>1 DEF Held, Holds, Based, Follows, Derives
  <2> QED BY <2>1, <2>2
<1> QED BY <1>1, <1>2

\* A step of a process that leaves the registry and its lock alone.
LEMMA StepAside ==
    ASSUME Typed, Facts, Held, NEW c \in Clients, NEW my \in Calls, Goto(c, my), Sound(my),
           my.pc \notin {"write", "release"},
           UNCHANGED <<manager, local, binding, ever, stolen, silent>>, run' \in Runs,
           lock' \in [Files -> Clients \cup {NoClient}], lock'["registry"] = lock["registry"],
           ops' \in 0..MaxOps, crashes' \in 0..MaxCrashes
    PROVE  Typed' /\ Facts' /\ Held'
<1>1. call' \in [Clients -> Calls] /\ call'[c] = my /\ Others(c)
  BY Moves
<1>2. Typed'
  BY <1>1 DEF Typed
<1>3. \A d \in Clients : Sound(call[d])'
  BY <1>1, StillSound DEF Facts
<1>4. Facts'
  BY <1>3 DEF Facts, Readable, Loads, Owed
<1>5. Held'
  BY <1>1, HeldAside
<1> QED BY <1>2, <1>4, <1>5

LEMMA AskingSound ==
    ASSUME NEW my \in Asking \cup Deciding \cup Mutating
    PROVE  my \in Calls /\ Sound(my) /\ my.pc \notin {"write", "release"}
  BY DEF Asking, Deciding, Mutating, Calls, Sound, Planning, Applying, Replacing, RemoteOps, LocalOps

LEMMA PlanningSound ==
    ASSUME NEW my \in Planning, Fair(my)
    PROVE  my \in Calls /\ Sound(my) /\ my.pc \notin {"write", "release"}
  BY DEF Planning, Calls, Sound, Applying, Replacing

LEMMA ApplyingSound ==
    ASSUME NEW my \in Applying, Planned(my)
    PROVE  my \in Calls /\ Sound(my) /\ my.pc \notin {"write", "release"}
  BY DEF Planning, Calls, Sound, Applying, Replacing

-----------------------------------------------------------------------------
(* Requests to the manager.                                                  *)

LEMMA CallIs ==
    ASSUME Typed, NEW c \in Clients
    PROVE  /\ call[c].pc \in {"ask", "serve"} => call[c] \in Asking
           /\ call[c].pc = "record" => call[c] \in Deciding
           /\ call[c].pc = "lock_sync" => call[c] \in Planning
           /\ call[c].pc = "break_sync" => call[c] \in Planning
           /\ call[c].pc \in {"lock_registry", "break_registry"} =>
                 call[c] \in Mutating \cup Applying
           /\ call[c].pc \in {"write", "release"} => call[c] \in Writing \cup Replacing
           /\ call[c].pc = "save" => call[c] \in Applying \cup Replacing
<1>1. call[c] \in Calls
  BY DEF Typed
<1> QED BY <1>1 DEF Calls, Rest, Asking, Deciding, Mutating, Writing, Planning, Applying, Replacing

LEMMA Decides ==
    ASSUME NEW ok \in BOOLEAN
    PROVE  Decided(ok) \in Deciding
  BY DEF Decided, Deciding

LEMMA RemoteBeginInv ==
    ASSUME IInv, NEW c \in Clients, RemoteBegin(c)
    PROVE  IInv'
<1>1. /\ ops' = ops + 1 /\ ops < MaxOps
      /\ UNCHANGED <<manager, silent, local, binding, lock, ever, stolen, run, crashes>>
  BY DEF RemoteBegin, ManagerUnchanged, LocalUnchanged
<1>2. ops' \in 0..MaxOps
  BY <1>1, BoundsAssumption DEF IInv, Typed
<1>3. \E my \in Asking \cup Deciding : Goto(c, my)
  <2>1. CASE Goto(c, Decided(FALSE))
    BY <2>1, Decides
  <2>2. ASSUME NEW q \in Requests(RemoteOps),
               Goto(c, [pc |-> IF q.op = "enable" THEN "ask" ELSE "serve",
                        op |-> q.op, ref |-> q.ref, dig |-> q.dig])
        PROVE  \E my \in Asking : Goto(c, my)
    <3>1. q.op \in RemoteOps /\ q.ref \in Refs /\ q.dig \in Digs
      BY DEF Requests, Digs
    <3>2. [pc |-> IF q.op = "enable" THEN "ask" ELSE "serve",
           op |-> q.op, ref |-> q.ref, dig |-> q.dig] \in Asking
      BY <3>1 DEF Asking
    <3> QED BY <2>2, <3>2
  <2> QED BY <2>1, <2>2 DEF RemoteBegin
<1>4. PICK my \in Asking \cup Deciding : Goto(c, my)
  BY <1>3
<1>5. my \in Calls /\ Sound(my) /\ my.pc \notin {"write", "release"}
  BY AskingSound
<1> QED BY <1>1, <1>2, <1>4, <1>5, StepAside DEF IInv, Typed

LEMMA RemoteAskInv ==
    ASSUME IInv, NEW c \in Clients, RemoteAsk(c)
    PROVE  IInv'
<1>1. /\ call[c].pc = "ask"
      /\ UNCHANGED <<manager, silent, local, binding, lock, ever, stolen, run, crashes, ops>>
      /\ Goto(c, Decided(FALSE)) \/ Goto(c, [call[c] EXCEPT !.pc = "serve"])
  BY DEF RemoteAsk, ManagerUnchanged, LocalUnchanged, Elsewhere, To
<1>2. call[c] \in Asking
  BY <1>1, CallIs DEF IInv
<1>3. [call[c] EXCEPT !.pc = "serve"] \in Asking
  BY <1>2 DEF Asking
<1>4. PICK my \in Asking \cup Deciding : Goto(c, my)
  BY <1>1, <1>3, Decides
<1>5. my \in Calls /\ Sound(my) /\ my.pc \notin {"write", "release"}
  BY AskingSound
<1> QED BY <1>1, <1>4, <1>5, StepAside DEF IInv, Typed

\* publish, set_enabled and revoke: a row keeps its content and its revocation.
ServedRow(old, new) ==
    /\ new \in Row
    /\ old.revoked => new.revoked
    /\ new.revoked => new.dig # NoDigest

LEMMA RemoteServeRow ==
    ASSUME Typed, Owed, NEW c \in Clients, RemoteServe(c)
    PROVE  /\ manager' \in [Refs -> Row]
           /\ \A r \in Refs : ServedRow(manager[r], manager'[r])
           /\ \E ok \in BOOLEAN : Goto(c, Decided(ok))
<1> DEFINE my == call[c]
           row == manager[my.ref]
           ok == IF my.op = "publish" THEN row.dig \in {NoDigest, my.dig} ELSE row.dig # NoDigest
           new == CASE my.op = "publish" -> IF row.dig # NoDigest THEN row
                                         ELSE [dig |-> my.dig, on |-> TRUE, revoked |-> FALSE]
                  [] my.op = "revoke" -> [row EXCEPT !.on = FALSE, !.revoked = TRUE]
                  [] OTHER -> [row EXCEPT !.on = my.op = "enable"]
<1>1. /\ my.pc = "serve"
      /\ manager' = IF ok THEN [manager EXCEPT ![my.ref] = new] ELSE manager
      /\ Goto(c, Decided(ok))
  BY DEF RemoteServe
<1>2. my \in Asking
  BY <1>1, CallIs
<1>3. my.ref \in Refs /\ my.dig \in Digs /\ my.op \in RemoteOps /\ manager \in [Refs -> Row]
  BY <1>2 DEF Asking, Typed
<1>4. row \in Row /\ (row.revoked => row.dig # NoDigest)
  BY <1>3 DEF Owed
<1>5. \A r \in Refs : ServedRow(manager[r], manager[r])
  BY <1>3 DEF ServedRow, Owed
<1>6. ok => ServedRow(row, new)
  <2>1. CASE my.op = "publish" /\ row.dig # NoDigest
    <3>1. new = row
      BY <2>1
    <3> QED BY <1>4, <3>1 DEF ServedRow
  <2>2. CASE my.op = "publish" /\ row.dig = NoDigest
    <3>1. new = [dig |-> my.dig, on |-> TRUE, revoked |-> FALSE]
      BY <2>2
    <3> HIDE DEF new
    <3>2. new \in Row
      BY <1>3, <3>1 DEF Row
    <3>3. new.revoked = FALSE
      BY <3>1
    <3> QED BY <1>4, <2>2, <3>2, <3>3 DEF ServedRow
  <2>3. CASE my.op = "revoke"
    <3>1. new = [row EXCEPT !.on = FALSE, !.revoked = TRUE]
      BY <2>3
    <3>2. new \in Row /\ new.revoked /\ new.dig = row.dig
      BY <1>4, <3>1 DEF Row
    <3> QED BY <2>3, <3>2 DEF ServedRow
  <2>4. CASE my.op \notin {"publish", "revoke"}
    <3>1. new = [row EXCEPT !.on = my.op = "enable"]
      BY <2>4
    <3>2. new \in Row /\ new.revoked = row.revoked /\ new.dig = row.dig
      BY <1>4, <3>1 DEF Row
    <3> QED BY <3>2 DEF ServedRow
  <2> QED BY <2>1, <2>2, <2>3, <2>4
<1>7. ok \in BOOLEAN
  <2>1. CASE my.op = "publish"
    <3>1. ok = (row.dig \in {NoDigest, my.dig})
      BY <2>1
    <3> HIDE DEF ok
    <3> QED BY <3>1
  <2>2. CASE my.op # "publish"
    <3>1. ok = (row.dig # NoDigest)
      BY <2>2
    <3> QED BY <3>1
  <2> QED BY <2>1, <2>2
<1> HIDE DEF ok, new
<1>8. CASE ok
  <2>1. manager' = [manager EXCEPT ![my.ref] = new] /\ ServedRow(row, new)
    BY <1>1, <1>6, <1>8
  <2>2. new \in Row
    BY <2>1 DEF ServedRow
  <2>3. manager' \in [Refs -> Row]
    BY <1>3, <2>1, <2>2
  <2>4. \A r \in Refs : manager'[r] = IF r = my.ref THEN new ELSE manager[r]
    BY <1>3, <2>1
  <2>5. \A r \in Refs : ServedRow(manager[r], manager'[r])
    BY <1>5, <2>1, <2>4
  <2> QED BY <1>1, <1>7, <2>3, <2>5
<1>9. CASE ~ok
  <2>1. manager' = manager
    BY <1>1, <1>9
  <2> QED BY <1>1, <1>3, <1>5, <1>7, <2>1
<1> QED BY <1>8, <1>9

LEMMA RemoteServeInv ==
    ASSUME IInv, NEW c \in Clients, RemoteServe(c)
    PROVE  IInv'
<1>1. UNCHANGED <<silent, local, binding, lock, ever, stolen, run, crashes, ops>>
  BY DEF RemoteServe, LocalUnchanged, Elsewhere
<1>2. /\ manager' \in [Refs -> Row]
      /\ \A r \in Refs : ServedRow(manager[r], manager'[r])
  BY RemoteServeRow DEF IInv, Facts
<1>3. PICK ok \in BOOLEAN : Goto(c, Decided(ok))
  BY RemoteServeRow DEF IInv, Facts
<1>4. /\ Decided(ok) \in Calls /\ Sound(Decided(ok))
      /\ Decided(ok).pc \notin {"write", "release"}
  BY Decides, AskingSound
<1>5. /\ call' \in [Clients -> Calls] /\ call'[c] = Decided(ok) /\ Others(c)
  BY <1>3, <1>4, Moves DEF IInv
<1>6. Typed'
  BY <1>1, <1>2, <1>5 DEF IInv, Typed
<1>7. \A d \in Clients : Sound(call[d])'
  BY <1>4, <1>5, StillSound DEF IInv, Facts
<1>8. Owed'
  BY <1>2 DEF IInv, Facts, Owed, ServedRow
<1>9. Facts'
  BY <1>1, <1>7, <1>8 DEF IInv, Facts, Readable, Loads
<1>10. Held'
  BY <1>1, <1>4, <1>5, HeldAside DEF IInv
<1> QED BY <1>6, <1>9, <1>10 DEF IInv

LEMMA RemoteRecordInv ==
    ASSUME IInv, NEW c \in Clients, RemoteRecord(c)
    PROVE  IInv'
<1> DEFINE my == [call[c] EXCEPT !.recorded = TRUE]
<1>1. /\ call[c].pc = "record" /\ Goto(c, my)
      /\ UNCHANGED <<manager, silent, local, binding, lock, ever, stolen, run, crashes, ops>>
  BY DEF RemoteRecord, ManagerUnchanged, LocalUnchanged, Elsewhere
<1>2. call[c] \in Deciding
  BY <1>1, CallIs DEF IInv
<1>3. my \in Deciding
  BY <1>2 DEF Deciding
<1> HIDE DEF my
<1>4. my \in Calls /\ Sound(my) /\ my.pc \notin {"write", "release"}
  BY <1>3, AskingSound
<1> QED BY <1>1, <1>4, StepAside DEF IInv, Typed

LEMMA RemoteAnswerInv ==
    ASSUME IInv, NEW c \in Clients, RemoteAnswer(c)
    PROVE  IInv'
<1>1. /\ call[c].pc = "record" /\ call[c].recorded /\ Goto(c, Idle)
      /\ silent' = (silent \/ (call[c].ok /\ ~call[c].recorded))
      /\ UNCHANGED <<manager, local, binding, lock, ever, stolen, run, crashes, ops>>
  BY DEF RemoteAnswer, MayAnswer, End, LocalUnchanged, Elsewhere
<1>2. ~silent
  BY DEF IInv, Facts
<1>3. silent \in BOOLEAN
  BY DEF IInv, Typed
<1>4. silent' = silent
  BY <1>1, <1>2, <1>3
<1>5. Idle \in Rest
  BY DEF Idle, Rest
<1>6. Idle \in Calls /\ Sound(Idle) /\ Idle.pc \notin {"write", "release"}
  BY <1>5, RestSound
<1> QED BY <1>1, <1>4, <1>6, StepAside DEF IInv, Typed

-----------------------------------------------------------------------------
(* The locks, and the requests that wait for them.                           *)

LEMMA WaitsIs ==
    /\ Waits("registry") = "lock_registry" /\ Breaks("registry") = "break_registry"
    /\ Waits("sync") = "lock_sync" /\ Breaks("sync") = "break_sync"
  BY DEF Waits, Breaks

\* A waiting process only changes its place.
LEMMA Places ==
    ASSUME Typed, NEW c \in Clients, Sound(call[c]), NEW f \in Files,
           call[c].pc \in {Waits(f), Breaks(f)}, NEW p \in {Waits(f), Breaks(f)}
    PROVE  LET my == [call[c] EXCEPT !.pc = p]
           IN my \in Calls /\ Sound(my) /\ my.pc \notin {"write", "release"}
<1> DEFINE my == [call[c] EXCEPT !.pc = p]
<1>1. CASE f = "registry"
  <2>1. /\ call[c].pc \in {"lock_registry", "break_registry"}
        /\ p \in {"lock_registry", "break_registry"}
    BY <1>1, WaitsIs
  <2>2. CASE call[c] \in Mutating
    <3>1. my \in Mutating
      BY <2>1, <2>2 DEF Mutating
    <3> QED BY <3>1, AskingSound
  <2>3. CASE call[c] \in Applying
    <3>1. /\ my \in Applying /\ my.src = call[c].src /\ my.found = call[c].found
          /\ my.acts = call[c].acts /\ my.state = call[c].state
      BY <2>1, <2>3 DEF Applying
    <3> HIDE DEF my
    <3>2. Planned(call[c])
      BY <2>3 DEF Sound
    <3>3. Planned(my)
      BY <3>1, <3>2 DEF Planned, Gone, Clipped
    <3>4. my \in Calls /\ Sound(my) /\ my.pc \notin {"write", "release"}
      BY <3>1, <3>3, ApplyingSound
    <3> QED BY <3>4 DEF my
  <2> QED BY <2>1, <2>2, <2>3, CallIs
<1>2. CASE f = "sync"
  <2>1. call[c].pc \in {"lock_sync", "break_sync"} /\ p \in {"lock_sync", "break_sync"}
    BY <1>2, WaitsIs
  <2>2. call[c] \in Planning
    BY <2>1, CallIs
  <2>3. my \in Planning /\ my.src = call[c].src /\ my.found = call[c].found
    BY <2>1, <2>2 DEF Planning
  <2> HIDE DEF my
  <2>4. Fair(my)
    BY <2>2, <2>3 DEF Sound, Fair, Gone, Clipped
  <2>5. my \in Calls /\ Sound(my) /\ my.pc \notin {"write", "release"}
    BY <2>3, <2>4, PlanningSound
  <2> QED BY <2>5 DEF my
<1> QED BY <1>1, <1>2 DEF Files

LEMMA FindOldLockInv ==
    ASSUME IInv, NEW c \in Clients, NEW f \in Files, call[c].pc = Waits(f), FindOldLock(c, f)
    PROVE  IInv'
<1> DEFINE my == [call[c] EXCEPT !.pc = Breaks(f)]
<1>1. /\ Goto(c, my)
      /\ UNCHANGED <<manager, silent, local, binding, lock, ever, stolen, run, crashes, ops>>
  BY DEF FindOldLock, To, ManagerUnchanged, LocalUnchanged, Elsewhere
<1>2. my \in Calls /\ Sound(my) /\ my.pc \notin {"write", "release"}
  BY Places DEF IInv, Facts
<1> HIDE DEF my
<1> QED BY <1>1, <1>2, StepAside DEF IInv, Typed

LEMMA BusyInv ==
    ASSUME IInv, NEW c \in Clients, NEW f \in Files, Busy(c, f)
    PROVE  IInv'
<1>1. /\ Goto(c, Idle)
      /\ UNCHANGED <<manager, silent, local, binding, ever, stolen, run, crashes, ops>>
      /\ lock' = lock \/ lock' = [lock EXCEPT !["sync"] = NoClient]
  BY DEF Busy, End, ManagerUnchanged, Elsewhere
<1>2. lock \in [Files -> Clients \cup {NoClient}]
  BY DEF IInv, Typed
<1>3. lock' \in [Files -> Clients \cup {NoClient}] /\ lock'["registry"] = lock["registry"]
  BY <1>1, <1>2 DEF Files
<1>4. Idle \in Rest
  BY DEF Idle, Rest
<1>5. Idle \in Calls /\ Sound(Idle) /\ Idle.pc \notin {"write", "release"}
  BY <1>4, RestSound
<1> QED BY <1>1, <1>3, <1>5, StepAside DEF IInv, Typed

\* rmdir: whoever works under that lock from now on has lost it.
LEMMA BreakLockInv ==
    ASSUME IInv, NEW c \in Clients, NEW f \in Files, BreakLock(c, f)
    PROVE  IInv'
<1> DEFINE my == [call[c] EXCEPT !.pc = Waits(f)]
<1>1. /\ call[c].pc = Breaks(f) /\ Goto(c, my)
      /\ UNCHANGED <<manager, silent, local, binding, ever, run, crashes, ops>>
      /\ lock' = [lock EXCEPT ![f] = NoClient]
      /\ stolen' = stolen \cup (IF lock[f] = NoClient \/ Old(f) THEN {} ELSE {f})
  BY DEF BreakLock, To, ManagerUnchanged, Elsewhere
<1>2. my \in Calls /\ Sound(my) /\ my.pc \notin {"write", "release"}
  BY <1>1, Places DEF IInv, Facts
<1> HIDE DEF my
<1>3. call' \in [Clients -> Calls] /\ call'[c] = my /\ Others(c)
  BY <1>1, <1>2, Moves DEF IInv
<1>4. lock \in [Files -> Clients \cup {NoClient}] /\ stolen \subseteq Files
  BY DEF IInv, Typed
<1>5. lock' \in [Files -> Clients \cup {NoClient}]
  BY <1>1, <1>4
<1>6. stolen' \subseteq Files
  BY <1>1, <1>4
<1>7. Typed'
  BY <1>1, <1>3, <1>5, <1>6 DEF IInv, Typed
<1>8. \A d \in Clients : Sound(call[d])'
  BY <1>2, <1>3, StillSound DEF IInv, Facts
<1>9. Facts'
  BY <1>1, <1>8 DEF IInv, Facts, Readable, Loads, Owed
<1>10. Held'
  <2> SUFFICES ASSUME "registry" \notin stolen'
               PROVE  Traced' /\ \A d \in Clients : Holds(d)' /\ Based(d)'
    BY DEF Held
  <2>1. "registry" \notin stolen /\ Traced /\ \A d \in Clients : Holds(d) /\ Based(d)
    BY <1>1 DEF IInv, Held
  <2>2. Traced'
    BY <1>1, <2>1 DEF Traced, Recalls
  <2>3. ASSUME NEW d \in Clients, call'[d].pc \in {"write", "release"}
        PROVE  d # c /\ call'[d] = call[d] /\ lock'["registry"] = d
    <3>1. d # c /\ call'[d] = call[d]
      BY <1>2, <1>3, <2>3 DEF Others
    <3>2. lock["registry"] = d
      BY <2>1, <2>3, <3>1 DEF Holds
    <3>3. lock["registry"] # NoClient
      BY <3>2, NobodyAssumption
    <3>4. ~Old("registry")
      BY <2>3, <3>1, <3>2 DEF Old
    <3>5. f # "registry"
      BY <1>1, <3>3, <3>4
    <3> QED BY <1>1, <1>4, <3>1, <3>2, <3>5 DEF Files
  <2>4. \A d \in Clients : Holds(d)'
    BY <2>3 DEF Holds
  <2>5. ASSUME NEW d \in Clients, call'[d].pc = "write" PROVE Based(d)'
    <3>1. call'[d] = call[d] /\ Based(d)
      BY <2>1, <2>3, <2>5
    <3> QED BY <1>1, <3>1 DEF Based, Follows, Derives
  <2>6. \A d \in Clients : Based(d)'
    BY <2>5 DEF Based
  <2> QED BY <2>2, <2>4, <2>6
<1> QED BY <1>7, <1>9, <1>10 DEF IInv

LEMMA MeetsIs ==
    ASSUME Typed, NEW c \in Clients, Meets(c)
    PROVE  /\ run' \in Runs /\ run'.pc = run.pc /\ run'.ref = run.ref
           /\ \A d \in Clients : d # c /\ d \in run'.met => d \in run.met
<1>1. run \in Runs
  BY DEF Typed
<1>2. CASE run.pc = "active"
  <2>1. run' = [run EXCEPT !.met = @ \cup {c}]
    BY <1>2 DEF Meets
  <2> QED BY <1>1, <2>1 DEF Runs
<1>3. CASE run.pc # "active"
  <2>1. run' = run
    BY <1>3 DEF Meets
  <2> QED BY <1>1, <2>1
<1> QED BY <1>2, <1>3

LEMMA LocalBeginInv ==
    ASSUME IInv, NEW c \in Clients, LocalBegin(c)
    PROVE  IInv'
<1>1. /\ ops' = ops + 1 /\ ops < MaxOps
      /\ UNCHANGED <<manager, silent, local, binding, lock, ever, stolen, crashes>> /\ Meets(c)
  BY DEF LocalBegin, ManagerUnchanged, LocalUnchanged
<1>2. ops' \in 0..MaxOps
  BY <1>1, BoundsAssumption DEF IInv, Typed
<1>3. PICK q \in Requests(LocalOps) :
         Goto(c, [pc |-> "lock_registry", op |-> q.op, ref |-> q.ref, dig |-> q.dig])
  BY DEF LocalBegin
<1>4. q.op \in LocalOps /\ q.ref \in Refs /\ q.dig \in Digs
  BY DEF Requests, Digs
<1>5. [pc |-> "lock_registry", op |-> q.op, ref |-> q.ref, dig |-> q.dig] \in Mutating
  BY <1>4 DEF Mutating
<1>6. PICK my \in Mutating : Goto(c, my)
  BY <1>3, <1>5
<1>7. my \in Calls /\ Sound(my) /\ my.pc \notin {"write", "release"}
  BY AskingSound
<1> QED BY <1>1, <1>2, <1>6, <1>7, StepAside, MeetsIs DEF IInv, Typed

LEMMA CrashInv ==
    ASSUME IInv, NEW c \in Clients, Crash(c)
    PROVE  IInv'
<1> DEFINE my == [pc |-> "dead"]
<1>1. /\ crashes' = crashes + 1 /\ crashes < MaxCrashes /\ Goto(c, my)
      /\ UNCHANGED <<manager, silent, local, binding, lock, ever, stolen, run, ops>>
  BY DEF Crash, ManagerUnchanged, LocalUnchanged
<1>2. crashes' \in 0..MaxCrashes
  BY <1>1, BoundsAssumption DEF IInv, Typed
<1>3. my \in Rest
  BY DEF Rest
<1> HIDE DEF my
<1>4. my \in Calls /\ Sound(my) /\ my.pc \notin {"write", "release"}
  BY <1>3, RestSound
<1> QED BY <1>1, <1>2, <1>4, StepAside DEF IInv, Typed

-----------------------------------------------------------------------------
(* Under the lock of the registry.                                           *)

\* Whoever makes the lock directory is alone with the registry, and bases what
\* it will write on what it reads then.
LEMMA TakesRegistry ==
    ASSUME IInv, NEW c \in Clients, NEW my \in Calls, Goto(c, my), Sound(my), my.pc = "write",
           \A r \in Refs : Follows(my, r), lock["registry"] = NoClient,
           lock' = [lock EXCEPT !["registry"] = c],
           UNCHANGED <<manager, silent, local, binding, ever, stolen, run, crashes, ops>>
    PROVE  IInv'
<1>1. call' \in [Clients -> Calls] /\ call'[c] = my /\ Others(c)
  BY Moves DEF IInv
<1>2. lock \in [Files -> Clients \cup {NoClient}] /\ "registry" \in Files
  BY DEF IInv, Typed, Files
<1>3. lock' \in [Files -> Clients \cup {NoClient}] /\ lock'["registry"] = c
  BY <1>2
<1>4. Typed'
  BY <1>1, <1>3 DEF IInv, Typed
<1>5. \A d \in Clients : Sound(call[d])'
  BY <1>1, StillSound DEF IInv, Facts
<1>6. Facts'
  BY <1>5 DEF IInv, Facts, Readable, Loads, Owed
<1>7. Held'
  <2> SUFFICES ASSUME "registry" \notin stolen
               PROVE  Traced' /\ \A d \in Clients : Holds(d)' /\ Based(d)'
    BY DEF Held
  <2>1. Traced /\ \A d \in Clients : Holds(d)
    BY DEF IInv, Held
  <2>2. Traced'
    BY <2>1 DEF Traced, Recalls
  <2>3. ASSUME NEW d \in Clients, call'[d].pc \in {"write", "release"} PROVE d = c
    <3>1. CASE d # c
      <4>1. lock["registry"] = d
        BY <1>1, <2>1, <2>3, <3>1 DEF Others, Holds
      <4> QED BY <4>1, NobodyAssumption
    <3> QED BY <3>1
  <2>4. \A d \in Clients : Holds(d)'
    BY <1>3, <2>3 DEF Holds
  <2>5. \A r \in Refs : Follows(call[c], r)'
    BY <1>1 DEF Follows, Derives
  <2>6. \A d \in Clients : Based(d)'
    BY <2>3, <2>5 DEF Based
  <2> QED BY <2>2, <2>4, <2>6
<1> QED BY <1>4, <1>6, <1>7 DEF IInv

LEMMA LocalLockInv ==
    ASSUME IInv, NEW c \in Clients, LocalLock(c)
    PROVE  IInv'
<1> DEFINE my  == call[c]
           n   == Changed(my.op, local[my.ref], my.dig)
           doc == [local EXCEPT ![my.ref] = n]
           rec == [pc |-> "write", op |-> my.op, doc |-> doc]
<1>1. /\ my.pc = "lock_registry" /\ my.op # "sync" /\ lock["registry"] = NoClient
      /\ UNCHANGED <<manager, silent, local, binding, ever, stolen, run, crashes, ops>>
      /\ \/ /\ Accepts(my.op, local[my.ref], my.dig)
            /\ lock' = [lock EXCEPT !["registry"] = c] /\ Goto(c, rec)
         \/ Goto(c, Idle) /\ UNCHANGED lock
  BY DEF LocalLock, ManagerUnchanged, Elsewhere, End
<1>2. my \in Mutating
  BY <1>1, CallIs DEF IInv, Applying
<1>3. my.op \in LocalOps /\ my.ref \in Refs /\ my.dig \in Digs
  BY <1>2 DEF Mutating
<1>4. local \in [Refs -> Entry] /\ \A r \in Refs : Loads(local[r])
  BY DEF IInv, Typed, Docs, Facts, Readable
<1>5. CASE /\ Accepts(my.op, local[my.ref], my.dig)
           /\ lock' = [lock EXCEPT !["registry"] = c] /\ Goto(c, rec)
  <2>1. Keeps(local[my.ref], n)
    BY <1>3, <1>4, <1>5, ChangeKeeps
  <2>2. Derives(local[my.ref], n)
    BY <1>3, <1>5 DEF Derives
  <2> HIDE DEF n
  <2>3. n \in Entry /\ Loads(n)
    BY <2>1 DEF Keeps
  <2>4. doc \in Docs /\ \A r \in Refs : doc[r] = IF r = my.ref THEN n ELSE local[r]
    BY <1>3, <1>4, <2>3 DEF Docs
  <2> HIDE DEF doc
  <2>5. rec \in Writing /\ rec.pc = "write" /\ rec.op \in LocalOps /\ rec.doc = doc
    BY <1>3, <2>4 DEF Writing
  <2> HIDE DEF rec
  <2>6. rec \in Calls
    BY <2>5 DEF Calls
  <2>7. rec.op # "sync"
    BY <2>5 DEF LocalOps
  <2>8. \A r \in Refs : Loads(rec.doc[r])
    BY <1>4, <2>3, <2>4, <2>5
  <2>9. Sound(rec)
    BY <2>7, <2>8 DEF Sound, Planning, Applying, Replacing
  <2>10. \A r \in Refs : Derives(local[r], doc[r])
    BY <2>2, <2>4 DEF Derives
  <2>11. \A r \in Refs : Follows(rec, r)
    BY <2>5, <2>7, <2>10 DEF Follows
  <2> QED BY <1>1, <1>5, <2>5, <2>6, <2>9, <2>11, TakesRegistry
<1>6. CASE Goto(c, Idle) /\ UNCHANGED lock
  <2>1. Idle \in Rest
    BY DEF Idle, Rest
  <2>2. Idle \in Calls /\ Sound(Idle) /\ Idle.pc \notin {"write", "release"}
    BY <2>1, RestSound
  <2> QED BY <1>1, <1>6, <2>2, StepAside DEF IInv, Typed
<1> QED BY <1>1, <1>5, <1>6

\* What a process writes is one change of each entry it finds.
LEMMA WritesWhatFollows ==
    ASSUME IInv, NEW c \in Clients, call[c].pc = "write", "registry" \notin stolen, NEW r \in Refs
    PROVE  Keeps(local[r], call[c].doc[r]) /\ Follows(call[c], r)
<1>1. Follows(call[c], r)
  BY DEF IInv, Held, Based
<1>2. local[r] \in Entry /\ Loads(local[r])
  BY DEF IInv, Typed, Docs, Facts, Readable
<1>3. Derives(local[r], call[c].doc[r])
  BY <1>1 DEF Follows
<1> QED BY <1>1, <1>2, <1>3, DerivedKeeps

LEMMA WriteRegistryInv ==
    ASSUME IInv, NEW c \in Clients, WriteRegistry(c)
    PROVE  IInv'
<1> DEFINE my  == call[c]
           rec == [my EXCEPT !.pc = "release"]
<1>1. /\ my.pc = "write" /\ local' = my.doc /\ Goto(c, rec)
      /\ ever' = [r \in Refs |-> ever[r] \cup ({local'[r].dig} \ {NoDigest})]
      /\ UNCHANGED <<manager, silent, binding, lock, stolen, run, crashes, ops>>
  BY DEF WriteRegistry, To, ManagerUnchanged, Elsewhere
<1>2. my \in Writing \cup Replacing
  BY <1>1, CallIs DEF IInv
<1>3. my.doc \in Docs
  BY <1>2 DEF Writing, Replacing
<1>4. Sound(my)
  BY DEF IInv, Facts
<1>5. rec \in Calls /\ Sound(rec) /\ rec.pc = "release"
  <2>1. CASE my \in Writing
    <3>1. rec \in Writing /\ rec.pc = "release"
      BY <2>1 DEF Writing
    <3> HIDE DEF rec
    <3>2. rec \in Calls
      BY <3>1 DEF Calls
    <3>3. Sound(rec)
      BY <3>1 DEF Sound, Writing, Planning, Applying, Replacing, LocalOps
    <3> QED BY <3>1, <3>2, <3>3
  <2>2. CASE my \in Replacing
    <3>1. /\ rec \in Replacing /\ rec.pc = "release" /\ rec.src = my.src /\ rec.found = my.found
          /\ rec.acts = my.acts /\ rec.state = my.state
      BY <2>2 DEF Replacing
    <3> HIDE DEF rec
    <3>2. rec \in Calls
      BY <3>1 DEF Calls
    <3>3. Planned(my)
      BY <1>4, <2>2 DEF Sound
    <3>4. Planned(rec)
      BY <3>1, <3>3 DEF Planned, Gone, Clipped
    <3>5. Sound(rec)
      BY <3>1, <3>4 DEF Sound, Planning
    <3> QED BY <3>1, <3>2, <3>5
  <2> QED BY <1>2, <2>1, <2>2
<1> HIDE DEF rec
<1>6. call' \in [Clients -> Calls] /\ call'[c] = rec /\ Others(c)
  BY <1>1, <1>5, Moves DEF IInv
<1>7. \A r \in Refs : local'[r] \in Entry /\ local'[r].dig \in Digs
  BY <1>1, <1>3 DEF Docs, Entry
<1>8. ever' \in [Refs -> SUBSET Digests]
  <2>1. ever \in [Refs -> SUBSET Digests]
    BY DEF IInv, Typed
  <2>2. \A r \in Refs : ever[r] \cup ({local'[r].dig} \ {NoDigest}) \subseteq Digests
    BY <1>7, <2>1 DEF Digs
  <2> QED BY <1>1, <2>2
<1>9. Typed'
  BY <1>1, <1>3, <1>6, <1>8 DEF IInv, Typed
<1>10. \A d \in Clients : Sound(call[d])'
  BY <1>5, <1>6, StillSound DEF IInv, Facts
<1>11. Readable'
  <2>1. \A r \in Refs : Loads(my.doc[r])
    BY <1>1, <1>4 DEF Sound
  <2> QED BY <1>1, <2>1 DEF Readable, Loads
<1>12. Facts'
  BY <1>1, <1>10, <1>11 DEF IInv, Facts, Owed
<1>13. Held'
  <2> SUFFICES ASSUME "registry" \notin stolen
               PROVE  Traced' /\ \A d \in Clients : Holds(d)' /\ Based(d)'
    BY <1>1 DEF Held
  <2>1. Traced /\ \A d \in Clients : Holds(d)
    BY DEF IInv, Held
  <2>2. Traced'
    <3>1. ASSUME NEW r \in Refs, NEW x \in ever'[r] PROVE Recalls(local'[r], x)
      <4>1. x \in Digests /\ (x \in ever[r] \/ x = local'[r].dig)
        BY <1>1, <1>8
      <4>2. CASE x \in ever[r]
        <5>1. Recalls(local[r], x)
          BY <2>1, <4>2 DEF Traced
        <5>2. Keeps(local[r], my.doc[r])
          BY <1>1, WritesWhatFollows
        <5> QED BY <1>1, <4>1, <5>1, <5>2 DEF Keeps
      <4>3. CASE x = local'[r].dig
        BY <4>3 DEF Recalls
      <4> QED BY <4>1, <4>2, <4>3
    <3> QED BY <3>1 DEF Traced, Recalls
  <2>3. lock["registry"] = c /\ lock' = lock
    BY <1>1, <2>1 DEF Holds
  <2>4. ASSUME NEW d \in Clients, call'[d].pc \in {"write", "release"} PROVE d = c
    <3>1. CASE d # c
      <4>1. lock["registry"] = d
        BY <1>6, <2>1, <2>4, <3>1 DEF Others, Holds
      <4> QED BY <2>3, <4>1
    <3> QED BY <3>1
  <2>5. \A d \in Clients : Holds(d)'
    BY <2>3, <2>4 DEF Holds
  <2>6. \A d \in Clients : Based(d)'
    BY <1>5, <1>6, <2>4 DEF Based
  <2> QED BY <2>2, <2>5, <2>6
<1> QED BY <1>9, <1>12, <1>13 DEF IInv

LEMMA ReleaseRegistryInv ==
    ASSUME IInv, NEW c \in Clients, ReleaseRegistry(c)
    PROVE  IInv'
<1> DEFINE my == call[c]
           rec == IF my.op = "sync" THEN [my EXCEPT !.pc = "save"] ELSE Idle
<1>1. /\ my.pc = "release" /\ Goto(c, rec) /\ lock' = [lock EXCEPT !["registry"] = NoClient]
      /\ UNCHANGED <<manager, silent, local, binding, ever, stolen, run, crashes, ops>>
  BY DEF ReleaseRegistry, To, End, ManagerUnchanged, Elsewhere
<1>2. my \in Writing \cup Replacing
  BY <1>1, CallIs DEF IInv
<1>3. rec \in Calls /\ Sound(rec) /\ rec.pc \notin {"write", "release"}
  <2>1. CASE my.op # "sync"
    <3>1. Idle \in Rest
      BY DEF Idle, Rest
    <3>2. Idle \in Calls /\ Sound(Idle) /\ Idle.pc \notin {"write", "release"}
      BY <3>1, RestSound
    <3>3. rec = Idle
      BY <2>1
    <3> HIDE DEF rec
    <3> QED BY <3>2, <3>3
  <2>2. CASE my.op = "sync"
    <3>1. my \in Replacing
      BY <1>2, <2>2 DEF Writing, LocalOps
    <3>2. rec = [my EXCEPT !.pc = "save"]
      BY <2>2
    <3> HIDE DEF rec
    <3>3. /\ rec \in Replacing /\ rec.pc = "save" /\ rec.src = my.src /\ rec.found = my.found
          /\ rec.acts = my.acts /\ rec.state = my.state
      BY <3>1, <3>2 DEF Replacing
    <3>4. Planned(my)
      BY <3>1 DEF IInv, Facts, Sound
    <3>5. Planned(rec)
      BY <3>3, <3>4 DEF Planned, Gone, Clipped
    <3>6. Sound(rec) /\ rec \in Calls
      BY <3>3, <3>5 DEF Sound, Planning, Calls
    <3> QED BY <3>3, <3>6
  <2> QED BY <2>1, <2>2
<1> HIDE DEF rec
<1>4. call' \in [Clients -> Calls] /\ call'[c] = rec /\ Others(c)
  BY <1>1, <1>3, Moves DEF IInv
<1>5. lock' \in [Files -> Clients \cup {NoClient}]
  BY <1>1 DEF IInv, Typed
<1>6. Typed'
  BY <1>1, <1>4, <1>5 DEF IInv, Typed
<1>7. \A d \in Clients : Sound(call[d])'
  BY <1>3, <1>4, StillSound DEF IInv, Facts
<1>8. Facts'
  BY <1>1, <1>7 DEF IInv, Facts, Readable, Loads, Owed
<1>9. Held'
  <2> SUFFICES ASSUME "registry" \notin stolen
               PROVE  Traced' /\ \A d \in Clients : Holds(d)' /\ Based(d)'
    BY <1>1 DEF Held
  <2>1. Traced /\ \A d \in Clients : Holds(d)
    BY DEF IInv, Held
  <2>2. Traced'
    BY <1>1, <2>1 DEF Traced, Recalls
  <2>3. ASSUME NEW d \in Clients PROVE call'[d].pc \notin {"write", "release"}
    <3>1. CASE d = c
      BY <1>3, <1>4, <3>1
    <3>2. CASE d # c
      <4>1. lock["registry"] = c
        BY <1>1, <2>1 DEF Holds
      <4> QED BY <1>4, <2>1, <3>2, <4>1 DEF Others, Holds
    <3> QED BY <3>1, <3>2
  <2>4. \A d \in Clients : Holds(d)' /\ Based(d)'
    BY <2>3 DEF Holds, Based
  <2> QED BY <2>2, <2>4
<1> QED BY <1>6, <1>8, <1>9 DEF IInv

-----------------------------------------------------------------------------
(* Synchronisation.                                                          *)

\* What the manager serves beyond its catalogue is more than the limit.
LEMMA CatalogCutsAtLimit ==
    ASSUME NEW r \in Refs, Served(r), r \notin Catalog
    PROVE  Cardinality({q \in Refs : Served(q)}) > CatalogLimit
<1> DEFINE S == {q \in Refs : Served(q)}
           T == {q \in Refs : Served(q) /\ q < r}
<1>1. IsFiniteSet(S) /\ IsFiniteSet(T)
  BY RefsAssumption, FS_Subset
<1>2. r \in S /\ T \subseteq S \ {r}
  BY RefsAssumption
<1>3. ~(Cardinality(T) < CatalogLimit)
  BY DEF Catalog
<1> HIDE DEF S, T
<1>4. IsFiniteSet(S \ {r}) /\ Cardinality(S \ {r}) = Cardinality(S) - 1
  BY <1>1, <1>2, FS_RemoveElement
<1>5. Cardinality(T) <= Cardinality(S \ {r})
  BY <1>2, <1>4, FS_Subset
<1>6. Cardinality(S) \in Nat /\ Cardinality(T) \in Nat
  BY <1>1, FS_CardinalityType
<1>7. Cardinality(S) > CatalogLimit
  BY <1>3, <1>4, <1>5, <1>6, RefsAssumption
<1> QED BY <1>7 DEF S

\* A discovery that raised no warning shows what its source offers.
LEMMA DiscoveryIsFair ==
    ASSUME Typed, NEW s \in Sources, NEW found \in Discovery(s), NEW my, my.src = s, my.found = found
    PROVE  found \in Discoveries /\ Fair(my)
<1>0. NoDigest \in Digs
  BY DEF Digs
<1>1. CASE s = "manager"
  <2> DEFINE offer == [r \in Refs |-> IF r \in Catalog THEN manager[r].dig ELSE NoDigest]
             real  == {r \in Refs : Served(r)}
  <2>1. found = Found(offer, {}, TRUE, real)
    BY <1>1 DEF Discovery, FromManager
  <2>2. \A r \in Refs : manager[r].dig \in Digs
    BY DEF Typed, Row
  <2>3. offer \in [Refs -> Digs] /\ real \subseteq Refs
    BY <1>0, <2>2
  <2>4. \A r \in Refs : offer[r] = NoDigest => r \notin Catalog
    BY DEF Catalog, Served
  <2>5. ASSUME NEW r \in Refs, offer[r] = NoDigest
        PROVE  r \notin real \/ Cardinality(real) > CatalogLimit
    BY <2>4, <2>5, CatalogCutsAtLimit
  <2> HIDE DEF offer, real
  <2>6. /\ found \in Discoveries /\ found.offer = offer /\ found.hidden = {}
        /\ found.real = real
    BY <2>1, <2>3 DEF Found, Discoveries
  <2> QED BY <1>1, <2>5, <2>6 DEF Fair, Gone, Clipped
<1>2. CASE s = "kiro"
  <2>1. PICK f \in [Refs -> Digs] : \E h \in SUBSET Offered(f), x \in BOOLEAN :
           found = Found(f, h, x, IF x THEN Offered(f) \ h ELSE Refs)
    BY <1>2 DEF Discovery, FromKiro, Digs
  <2>2. PICK h \in SUBSET Offered(f), x \in BOOLEAN :
           found = Found(f, h, x, IF x THEN Offered(f) \ h ELSE Refs)
    BY <2>1
  <2> DEFINE real == IF x THEN Offered(f) \ h ELSE Refs
  <2>3. Offered(f) \subseteq Refs /\ \A r \in Refs : f[r] = NoDigest => r \notin Offered(f)
    BY DEF Offered
  <2>4. real \subseteq Refs /\ h \subseteq Refs
        /\ (x => \A r \in Refs : f[r] = NoDigest \/ r \in h => r \notin real)
    BY <2>3
  <2> HIDE DEF real
  <2>5. /\ found \in Discoveries /\ found.offer = f /\ found.hidden = h
        /\ found.complete = x /\ found.real = real
    BY <2>2, <2>4 DEF Found, Discoveries, real
  <2> QED BY <2>4, <2>5 DEF Fair, Gone
<1>3. CASE s = "repo"
  <2>1. PICK f \in [Refs -> Digs], x \in BOOLEAN :
           found = Found(f, {}, x, IF x THEN Offered(f) ELSE Refs)
    BY <1>3 DEF Discovery, FromRepo, Digs
  <2> DEFINE real == IF x THEN Offered(f) ELSE Refs
  <2>2. Offered(f) \subseteq Refs /\ \A r \in Refs : f[r] = NoDigest => r \notin Offered(f)
    BY DEF Offered
  <2>3. real \subseteq Refs /\ (x => \A r \in Refs : f[r] = NoDigest => r \notin real)
    BY <2>2
  <2> HIDE DEF real
  <2>4. /\ found \in Discoveries /\ found.offer = f /\ found.hidden = {}
        /\ found.complete = x /\ found.real = real
    BY <2>1, <2>3 DEF Found, Discoveries, real
  <2> QED BY <2>3, <2>4 DEF Fair, Gone
<1> QED BY <1>1, <1>2, <1>3 DEF Sources

LEMMA SyncBeginInv ==
    ASSUME IInv, NEW c \in Clients, SyncBegin(c)
    PROVE  IInv'
<1>1. /\ ops' = ops + 1 /\ ops < MaxOps
      /\ UNCHANGED <<manager, silent, local, binding, lock, ever, stolen, run, crashes>>
  BY DEF SyncBegin, ManagerUnchanged, LocalUnchanged
<1>2. ops' \in 0..MaxOps
  BY <1>1, BoundsAssumption DEF IInv, Typed
<1>3. PICK s \in Sources, m \in Lifecycle : \E found \in Discovery(s) :
         Goto(c, [pc |-> "lock_sync", op |-> "sync", src |-> s, missing |-> m, found |-> found])
  BY DEF SyncBegin
<1>4. PICK found \in Discovery(s) :
         Goto(c, [pc |-> "lock_sync", op |-> "sync", src |-> s, missing |-> m, found |-> found])
  BY <1>3
<1> DEFINE my == [pc |-> "lock_sync", op |-> "sync", src |-> s, missing |-> m, found |-> found]
<1>5. my.src = s /\ my.found = found
  OBVIOUS
<1>6. Fair(my) /\ found \in Discoveries
  BY <1>5, DiscoveryIsFair DEF IInv
<1>7. my \in Planning
  BY <1>6 DEF Planning
<1> HIDE DEF my
<1>8. my \in Calls /\ Sound(my) /\ my.pc \notin {"write", "release"}
  BY <1>6, <1>7, PlanningSound
<1>9. Goto(c, my)
  BY <1>4 DEF my
<1> QED BY <1>1, <1>2, <1>8, <1>9, StepAside DEF IInv, Typed

\* _plan: a withdrawal or an enabling needs a binding of the source's own.
LEMMA SuggestedIs ==
    ASSUME NEW e \in Entry, NEW b \in Tie, NEW d \in Digs, NEW hidden \in BOOLEAN
    PROVE  LET s == Suggested(e, b, d, hidden)
           IN /\ s \in {"withdraw", "none", "blocked", "publish", "enable", "track"}
              /\ s = "withdraw" => b.by = "managed" /\ (d = NoDigest \/ hidden)
              /\ s = "enable" => b.by = "managed"
<1> DEFINE s == Suggested(e, b, d, hidden)
           withdraw == IF e.dig # NoDigest /\ b.by = "managed" /\ ~e.revoked
                       THEN "withdraw" ELSE "none"
           mixed == {e.dig, e.tomb, b.dig} \ {NoDigest, d} # {}
<1>1. CASE d = NoDigest
  <2>1. s = withdraw
    BY <1>1 DEF Suggested
  <2> HIDE DEF s
  <2> QED BY <1>1, <2>1 DEF s
<1>2. CASE d # NoDigest /\ mixed
  <2>1. s = "blocked"
    BY <1>2 DEF Suggested
  <2> QED BY <2>1
<1>3. CASE d # NoDigest /\ ~mixed
  <2>1. s = CASE hidden -> withdraw
              [] ~hidden /\ e.dig = NoDigest -> "publish"
              [] ~hidden /\ e.dig # NoDigest /\ e.revoked -> "blocked"
              [] OTHER -> IF e.off /\ b.by = "managed" THEN "enable"
                          ELSE IF b.by = "untracked" THEN "track" ELSE "none"
    BY <1>3 DEF Suggested
  <2> HIDE DEF s, mixed
  <2>2. CASE hidden
    <3>1. s = withdraw
      BY <2>1, <2>2
    <3> QED BY <2>2, <3>1 DEF s
  <2>3. CASE ~hidden /\ e.dig = NoDigest
    <3>1. s = "publish"
      BY <2>1, <2>3
    <3> QED BY <3>1 DEF s
  <2>4. CASE ~hidden /\ e.dig # NoDigest /\ e.revoked
    <3>1. s = "blocked"
      BY <2>1, <2>4
    <3> QED BY <3>1 DEF s
  <2>5. CASE ~hidden /\ e.dig # NoDigest /\ ~e.revoked
    <3>1. s = IF e.off /\ b.by = "managed" THEN "enable"
              ELSE IF b.by = "untracked" THEN "track" ELSE "none"
      BY <2>1, <2>5
    <3> QED BY <3>1 DEF s
  <2> QED BY <2>2, <2>3, <2>4, <2>5
<1> QED BY <1>1, <1>2, <1>3

\* What is decided to change under the lock of the synchronisation.
LEMMA SyncLockInv ==
    ASSUME IInv, NEW c \in Clients, SyncLock(c)
    PROVE  IInv'
<1> DEFINE my   == call[c]
           plan == [r \in Refs |-> Suggested(local[r], binding[my.src][r],
                                             my.found.offer[r], r \in my.found.hidden)]
           acts == [r \in Refs |-> Action(my, r, plan)]
           writes == \E r \in Refs : acts[r] \in {"publish", "enable", "disable", "revoke"}
           p    == IF writes THEN "lock_registry" ELSE "save"
           rec  == [pc |-> p, op |-> "sync", src |-> my.src, found |-> my.found, acts |-> acts,
                    state |-> binding]
<1>1. /\ my.pc = "lock_sync"
      /\ UNCHANGED <<manager, silent, local, binding, ever, stolen, crashes, ops>>
      /\ Meets(c) /\ run' \in Runs
      /\ \/ End(c) /\ UNCHANGED lock
         \/ ~Refuses(my, plan) /\ lock' = [lock EXCEPT !["sync"] = c] /\ Goto(c, rec)
  BY MeetsIs DEF SyncLock, ManagerUnchanged, IInv
<1>2. my \in Planning
  BY <1>1, CallIs DEF IInv
<1>3. Fair(my)
  BY <1>2 DEF IInv, Facts, Sound
<1>4. CASE End(c) /\ UNCHANGED lock
  <2>1. Idle \in Rest
    BY DEF Idle, Rest
  <2>2. Idle \in Calls /\ Sound(Idle) /\ Idle.pc \notin {"write", "release"}
    BY <2>1, RestSound
  <2> QED BY <1>1, <1>4, <2>2, StepAside DEF IInv, Typed, End
<1>5. CASE ~Refuses(my, plan) /\ lock' = [lock EXCEPT !["sync"] = c] /\ Goto(c, rec)
  <2>1. /\ my.src \in Sources /\ my.missing \in Lifecycle /\ my.found \in Discoveries
        /\ my.found.offer \in [Refs -> Digs]
    BY <1>2 DEF Planning, Discoveries
  <2>2. local \in [Refs -> Entry] /\ binding \in [Sources -> [Refs -> Tie]]
    BY DEF IInv, Typed, Docs, States
  <2>3. ASSUME NEW r \in Refs
        PROVE  /\ plan[r] \in {"withdraw", "none", "publish", "enable", "track"}
               /\ plan[r] = "withdraw" => /\ binding[my.src][r].by = "managed"
                                          /\ my.found.offer[r] = NoDigest \/ r \in my.found.hidden
               /\ plan[r] = "enable" => binding[my.src][r].by = "managed"
    <3> DEFINE e == local[r]
               b == binding[my.src][r]
               d == my.found.offer[r]
               h == r \in my.found.hidden
    <3>1. e \in Entry /\ b \in Tie /\ d \in Digs /\ h \in BOOLEAN
      BY <2>1, <2>2
    <3>2. plan[r] = Suggested(e, b, d, h)
      OBVIOUS
    <3>3. plan[r] # "blocked"
      BY <1>5 DEF Refuses
    <3> HIDE DEF plan, e, b, d, h
    <3>4. /\ plan[r] \in {"withdraw", "none", "publish", "enable", "track"}
          /\ plan[r] = "withdraw" => b.by = "managed" /\ (d = NoDigest \/ h)
          /\ plan[r] = "enable" => b.by = "managed"
      BY <3>1, <3>2, <3>3, SuggestedIs
    <3> QED BY <3>4 DEF b, d, h
  <2>4. my.missing # "keep" => my.found.complete
    BY <1>5 DEF Refuses
  <2> HIDE DEF plan
  <2>5. ASSUME NEW r \in Refs
        PROVE  /\ acts[r] \in Changes \cup {"track", "none"}
               /\ acts[r] \in {"enable", "disable", "revoke"} => binding[my.src][r].by = "managed"
               /\ acts[r] \in {"disable", "revoke"} =>
                     my.missing # "keep"
                     /\ (my.found.offer[r] = NoDigest \/ r \in my.found.hidden)
    <3>1. acts[r] = IF plan[r] = "withdraw"
                    THEN IF my.missing = "keep" \/ (my.missing = "disable" /\ local[r].off)
                         THEN "none" ELSE my.missing
                    ELSE plan[r]
      BY DEF Action
    <3> HIDE DEF acts
    <3>2. CASE plan[r] # "withdraw"
      <4>1. acts[r] = plan[r]
        BY <3>1, <3>2
      <4> QED BY <2>3, <3>2, <4>1 DEF Changes
    <3>3. CASE plan[r] = "withdraw"
      <4>1. acts[r] = "none" \/ (acts[r] = my.missing /\ my.missing # "keep")
        BY <3>1, <3>3
      <4> QED BY <2>1, <2>3, <3>3, <4>1 DEF Changes, Lifecycle
    <3> QED BY <3>2, <3>3
  <2>6. acts \in Acts
    BY <2>5 DEF Acts
  <2>7. p \in {"lock_registry", "save"}
    OBVIOUS
  <2> HIDE DEF p, writes, acts
  <2>8. /\ rec \in Applying /\ rec.acts = acts /\ rec.state = binding /\ rec.src = my.src
        /\ rec.found = my.found
    BY <2>1, <2>2, <2>6, <2>7 DEF Applying, States
  <2> HIDE DEF rec
  <2>9. ASSUME NEW r \in Refs, acts[r] \in {"disable", "revoke"} PROVE Gone(rec, r)
    <3>1. Gone(my, r)
      BY <1>3, <2>4, <2>5, <2>9 DEF Fair
    <3> QED BY <2>8, <3>1 DEF Gone, Clipped
  <2>10. Planned(rec)
    BY <2>5, <2>8, <2>9 DEF Planned
  <2>11. rec \in Calls /\ Sound(rec) /\ rec.pc \notin {"write", "release"}
    BY <2>8, <2>10, ApplyingSound
  <2>12. lock' \in [Files -> Clients \cup {NoClient}] /\ lock'["registry"] = lock["registry"]
    BY <1>5 DEF IInv, Typed, Files
  <2> QED BY <1>1, <1>5, <2>11, <2>12, StepAside DEF IInv, Typed
<1> QED BY <1>1, <1>4, <1>5

\* reconcile: the change set against the file as it is now.
LEMMA SyncReconcileInv ==
    ASSUME IInv, NEW c \in Clients, SyncReconcile(c)
    PROVE  IInv'
<1> DEFINE my   == call[c]
           acts == my.acts
           doc  == [r \in Refs |-> IF acts[r] \in {"publish", "enable", "disable", "revoke"}
                                   THEN Changed(acts[r], local[r], my.found.offer[r]) ELSE local[r]]
           rec  == [pc |-> "write", op |-> "sync", src |-> my.src, found |-> my.found,
                    acts |-> acts, state |-> my.state, doc |-> doc]
           ok   == \A r \in Refs :
                      /\ acts[r] = "publish" => Immutable(local[r], my.found.offer[r])
                      /\ acts[r] \in {"enable", "disable", "revoke"} =>
                             Accepts(acts[r], local[r], NoDigest)
<1>1. /\ my.pc = "lock_registry" /\ my.op = "sync" /\ lock["registry"] = NoClient
      /\ UNCHANGED <<manager, silent, local, binding, ever, stolen, run, crashes, ops>>
      /\ \/ End(c) /\ lock' = [lock EXCEPT !["sync"] = NoClient]
         \/ To(c, "save") /\ UNCHANGED lock
         \/ ok /\ lock' = [lock EXCEPT !["registry"] = c] /\ Goto(c, rec)
  BY DEF SyncReconcile, ManagerUnchanged, Elsewhere
<1>2. my \in Applying
  BY <1>1, CallIs DEF IInv, Mutating, LocalOps
<1>3. Planned(my)
  BY <1>2 DEF IInv, Facts, Sound
<1>4. CASE End(c) /\ lock' = [lock EXCEPT !["sync"] = NoClient]
  <2>1. Idle \in Rest
    BY DEF Idle, Rest
  <2>2. Idle \in Calls /\ Sound(Idle) /\ Idle.pc \notin {"write", "release"}
    BY <2>1, RestSound
  <2>3. lock' \in [Files -> Clients \cup {NoClient}] /\ lock'["registry"] = lock["registry"]
    BY <1>4 DEF IInv, Typed, Files
  <2> QED BY <1>1, <1>4, <2>2, <2>3, StepAside DEF IInv, Typed, End
<1>5. CASE To(c, "save") /\ UNCHANGED lock
  <2> DEFINE new == [my EXCEPT !.pc = "save"]
  <2>1. /\ new \in Applying /\ new.src = my.src /\ new.found = my.found
        /\ new.acts = my.acts /\ new.state = my.state
    BY <1>2 DEF Applying
  <2>2. Goto(c, new)
    BY <1>5 DEF To
  <2> HIDE DEF new
  <2>3. Planned(new)
    BY <1>3, <2>1 DEF Planned, Gone, Clipped
  <2>4. new \in Calls /\ Sound(new) /\ new.pc \notin {"write", "release"}
    BY <2>1, <2>3, ApplyingSound
  <2> QED BY <1>1, <1>5, <2>2, <2>4, StepAside DEF IInv, Typed
<1>6. CASE ok /\ lock' = [lock EXCEPT !["registry"] = c] /\ Goto(c, rec)
  <2>1. /\ my.src \in Sources /\ my.found \in Discoveries /\ acts \in Acts /\ my.state \in States
        /\ my.found.offer \in [Refs -> Digs] /\ NoDigest \in Digs
    BY <1>2 DEF Applying, Discoveries, Digs
  <2>2. local \in [Refs -> Entry] /\ \A r \in Refs : Loads(local[r])
    BY DEF IInv, Typed, Docs, Facts, Readable
  <2>3. ASSUME NEW r \in Refs
        PROVE  /\ doc[r] \in Entry /\ Loads(doc[r]) /\ Derives(local[r], doc[r])
               /\ doc[r].off # local[r].off => acts[r] \in {"enable", "disable", "revoke"}
               /\ doc[r].off /\ ~local[r].off => acts[r] \in {"disable", "revoke"}
    <3>1. local[r] \in Entry /\ Loads(local[r]) /\ my.found.offer[r] \in Digs
      BY <2>1, <2>2
    <3>2. CASE acts[r] \in {"publish", "enable", "disable", "revoke"}
      <4>1. doc[r] = Changed(acts[r], local[r], my.found.offer[r])
        BY <3>2
      <4>2. acts[r] \in LocalOps
        BY <3>2 DEF LocalOps
      <4>3. /\ acts[r] = "publish" => Immutable(local[r], my.found.offer[r])
            /\ acts[r] \in {"enable", "disable", "revoke"} =>
                  Accepts(acts[r], local[r], NoDigest)
        BY <1>6
      <4> HIDE DEF doc, acts
      <4>4. Accepts(acts[r], local[r], my.found.offer[r])
        BY <2>1, <3>1, <3>2, <4>3, AcceptsIs
      <4>5. /\ Keeps(local[r], doc[r])
            /\ doc[r].off # local[r].off => acts[r] \in {"enable", "disable", "revoke", "remove"}
            /\ doc[r].off /\ ~local[r].off => acts[r] \in {"disable", "revoke"}
        BY <3>1, <4>1, <4>2, <4>4, ChangeKeeps
      <4>6. Derives(local[r], doc[r])
        BY <3>1, <4>1, <4>2, <4>4 DEF Derives
      <4> QED BY <3>2, <4>5, <4>6 DEF Keeps
    <3>3. CASE acts[r] \notin {"publish", "enable", "disable", "revoke"}
      <4>1. doc[r] = local[r]
        BY <3>3
      <4> HIDE DEF doc
      <4> QED BY <3>1, <4>1 DEF Derives
    <3> QED BY <3>2, <3>3
  <2>4. doc \in Docs
    BY <2>3 DEF Docs
  <2> HIDE DEF doc, ok, acts
  <2>5. /\ rec \in Replacing /\ rec.pc = "write" /\ rec.op = "sync" /\ rec.src = my.src
        /\ rec.found = my.found /\ rec.acts = acts /\ rec.state = my.state /\ rec.doc = doc
    BY <2>1, <2>4 DEF Replacing
  <2> HIDE DEF rec
  <2>6. Planned(rec)
    BY <1>3, <2>5 DEF Planned, Gone, Clipped, acts
  <2>7. Sound(rec) /\ rec \in Calls
    BY <2>3, <2>5, <2>6 DEF Sound, Planning, Calls
  <2>8. \A r \in Refs : Follows(rec, r)
    BY <2>3, <2>5 DEF Follows
  <2> QED BY <1>1, <1>6, <2>5, <2>7, <2>8, TakesRegistry
<1> QED BY <1>1, <1>4, <1>5, <1>6

LEMMA SyncSaveInv ==
    ASSUME IInv, NEW c \in Clients, SyncSave(c)
    PROVE  IInv'
<1> DEFINE my   == call[c]
           bind(r) == CASE my.acts[r] = "publish" -> [dig |-> my.found.offer[r], by |-> "managed"]
                        [] my.acts[r] = "track" -> [dig |-> my.found.offer[r], by |-> "observed"]
                        [] OTHER -> my.state[my.src][r]
           ties == [r \in Refs |-> bind(r)]
<1>1. /\ my.pc = "save" /\ Goto(c, Idle) /\ lock' = [lock EXCEPT !["sync"] = NoClient]
      /\ binding' = [my.state EXCEPT ![my.src] = ties]
      /\ UNCHANGED <<manager, silent, local, ever, stolen, run, crashes, ops>>
  BY DEF SyncSave, End, ManagerUnchanged, Elsewhere
<1>2. my \in Applying \cup Replacing
  BY <1>1, CallIs DEF IInv
<1>3. /\ my.src \in Sources /\ my.state \in [Sources -> [Refs -> Tie]]
      /\ my.found.offer \in [Refs -> Digs]
  BY <1>2 DEF Applying, Replacing, States, Discoveries
<1>4. ASSUME NEW r \in Refs PROVE bind(r) \in Tie
  <2>1. my.found.offer[r] \in Digs /\ my.state[my.src][r] \in Tie
    BY <1>3
  <2>2. CASE my.acts[r] = "publish"
    <3>1. bind(r) = [dig |-> my.found.offer[r], by |-> "managed"]
      BY <2>2
    <3> HIDE DEF bind
    <3> QED BY <2>1, <3>1 DEF Tie
  <2>3. CASE my.acts[r] = "track"
    <3>1. bind(r) = [dig |-> my.found.offer[r], by |-> "observed"]
      BY <2>3
    <3> HIDE DEF bind
    <3> QED BY <2>1, <3>1 DEF Tie
  <2>4. CASE my.acts[r] \notin {"publish", "track"}
    <3>1. bind(r) = my.state[my.src][r]
      BY <2>4
    <3> HIDE DEF bind
    <3> QED BY <2>1, <3>1
  <2> QED BY <2>2, <2>3, <2>4
<1> HIDE DEF bind
<1>5. ties \in [Refs -> Tie]
  BY <1>4
<1> HIDE DEF ties
<1>6. binding' \in States
  BY <1>1, <1>3, <1>5 DEF States
<1>7. lock' \in [Files -> Clients \cup {NoClient}] /\ lock'["registry"] = lock["registry"]
  BY <1>1 DEF IInv, Typed, Files
<1>8. /\ call' \in [Clients -> Calls] /\ Others(c) /\ Sound(call'[c])
      /\ call'[c].pc \in {"idle", "dead"}
  BY <1>1, Ends DEF IInv, End
<1>9. Typed'
  BY <1>1, <1>6, <1>7, <1>8 DEF IInv, Typed
<1>10. \A d \in Clients : Sound(call[d])'
  BY <1>8, StillSound DEF IInv, Facts
<1>11. Facts'
  BY <1>1, <1>10 DEF IInv, Facts, Readable, Loads, Owed
<1>12. Held'
  BY <1>1, <1>7, <1>8, HeldAside DEF IInv
<1> QED BY <1>9, <1>11, <1>12 DEF IInv

-----------------------------------------------------------------------------
(* The run, and the invariant.                                               *)

\* A step of the run touches nothing else.
LEMMA RunAside ==
    ASSUME IInv, run' \in Runs,
           UNCHANGED <<manager, local, binding, lock, call, ops, crashes, ever, silent, stolen>>
    PROVE  IInv'
<1>1. Typed'
  BY DEF IInv, Typed
<1>2. \A c \in Clients : Sound(call[c])'
  BY DEF IInv, Facts, Sound, Fair, Planned, Gone, Clipped, Loads
<1>3. Facts'
  BY <1>2 DEF IInv, Facts, Readable, Loads, Owed
<1>4. Held'
  BY DEF IInv, Held, Traced, Recalls, Holds, Based, Follows, Derives
<1> QED BY <1>1, <1>3, <1>4 DEF IInv

LEMMA ResolvedIs ==
    ASSUME Typed, NEW r \in Refs
    PROVE  Resolved(r) \in Digs
<1>1. manager[r].dig \in Digs /\ local[r].dig \in Digs /\ NoDigest \in Digs
  BY DEF Typed, Row, Docs, Entry, Digs
<1> QED BY <1>1 DEF Resolved

LEMMA NoRunIs == NoRun \in Runs /\ NoRun.pc = "none"
  BY DEF NoRun, Runs, Digs

\* A step of the run leaves it without anybody who met it, or as it was.
LEMMA RunInv ==
    ASSUME IInv, Run
    PROVE  IInv' /\ (run' = run \/ run'.met = {} \/ run'.pc = "none")
<1>1. run \in Runs
  BY DEF IInv, Typed
<1>2. UNCHANGED <<manager, local, binding, lock, call, ops, crashes, ever, silent, stolen>>
  BY DEF Run, Bind, Activate, Invoke, EndRun, ManagerUnchanged, LocalUnchanged
<1>3. run' \in Runs /\ (run' = run \/ run'.met = {} \/ run'.pc = "none")
  <2>1. CASE Bind
    <3>1. PICK r \in Refs : run' = [NoRun EXCEPT !.pc = "bound", !.ref = r, !.dig = Resolved(r)]
      BY <2>1 DEF Bind
    <3>2. Resolved(r) \in Digs
      BY ResolvedIs DEF IInv
    <3> QED BY <3>1, <3>2 DEF Runs, NoRun
  <2>2. CASE Activate
    <3>1. run' = [run EXCEPT !.pc = "active", !.met = {}]
      BY <2>2 DEF Activate
    <3> QED BY <1>1, <3>1 DEF Runs
  <2>3. CASE Invoke
    BY <1>1, <2>3, NoRunIs DEF Invoke
  <2>4. CASE EndRun
    BY <2>4, NoRunIs DEF EndRun
  <2> QED BY <2>1, <2>2, <2>3, <2>4 DEF Run
<1> QED BY <1>2, <1>3, RunAside

LEMMA InitInv == Init => IInv
<1> SUFFICES ASSUME Init PROVE IInv
  OBVIOUS
<1>0. NoDigest \in Digs
  BY DEF Digs
<1>1. manager \in [Refs -> Row] /\ \A r \in Refs : manager[r].revoked = FALSE
  BY <1>0 DEF Init, Row
<1>2. /\ NoEntry \in Entry /\ NoEntry.dig = NoDigest /\ NoEntry.off = FALSE
      /\ NoEntry.revoked = FALSE
  BY <1>0 DEF NoEntry, Entry
<1>3. local \in Docs /\ Readable
  <2>1. Loads(NoEntry)
    BY <1>2 DEF Loads
  <2> QED BY <1>2, <2>1 DEF Init, Docs, Readable
<1>4. binding \in States
  <2>1. NoBind \in Tie
    BY <1>0 DEF NoBind, Tie
  <2> QED BY <2>1 DEF Init, States
<1>5. Idle \in Rest
  BY DEF Idle, Rest
<1>6. Idle \in Calls /\ Sound(Idle) /\ Idle.pc \notin {"write", "release"}
  BY <1>5, RestSound
<1>7. /\ call \in [Clients -> Calls]
      /\ \A c \in Clients : Sound(call[c]) /\ call[c].pc \notin {"write", "release"}
  BY <1>6 DEF Init
<1>8. run \in Runs
  BY NoRunIs DEF Init
<1>9. Typed
  <2>1. lock \in [Files -> Clients \cup {NoClient}] /\ ever \in [Refs -> SUBSET Digests]
    BY DEF Init
  <2>2. silent = FALSE /\ stolen = {} /\ ops = 0 /\ crashes = 0
    BY DEF Init
  <2>3. 0 \in 0..MaxOps /\ 0 \in 0..MaxCrashes
    BY BoundsAssumption
  <2> QED BY <1>1, <1>3, <1>4, <1>7, <1>8, <2>1, <2>2, <2>3 DEF Typed
<1>10. Facts
  BY <1>1, <1>3, <1>7, <1>8 DEF Init, Facts, Owed
<1>11. Held
  BY <1>7 DEF Init, Held, Traced, Holds, Based
<1> QED BY <1>9, <1>10, <1>11 DEF IInv

LEMMA NextInv == IInv /\ [Next]_vars => IInv'
<1> SUFFICES ASSUME IInv, [Next]_vars PROVE IInv'
  OBVIOUS
<1>1. CASE UNCHANGED vars
  <2>1. run' \in Runs
    BY <1>1 DEF vars, IInv, Typed
  <2> QED BY <1>1, <2>1, RunAside DEF vars
<1>2. CASE Run
  BY <1>2, RunInv
<1>3. ASSUME NEW c \in Clients, Remote(c) PROVE IInv'
  BY <1>3, RemoteBeginInv, RemoteAskInv, RemoteServeInv, RemoteRecordInv, RemoteAnswerInv
     DEF Remote
<1>4. ASSUME NEW c \in Clients, Locking(c) PROVE IInv'
  <2>1. PICK f \in Files : \/ call[c].pc = Waits(f) /\ (FindOldLock(c, f) \/ Busy(c, f))
                           \/ BreakLock(c, f)
    BY <1>4 DEF Locking
  <2> QED BY <2>1, FindOldLockInv, BusyInv, BreakLockInv
<1>5. ASSUME NEW c \in Clients, Local(c) PROVE IInv'
  BY <1>5, LocalBeginInv, LocalLockInv, WriteRegistryInv, ReleaseRegistryInv DEF Local
<1>6. ASSUME NEW c \in Clients, Sync(c) PROVE IInv'
  BY <1>6, SyncBeginInv, SyncLockInv, SyncReconcileInv, SyncSaveInv DEF Sync
<1>7. ASSUME NEW c \in Clients, Crash(c) PROVE IInv'
  BY <1>7, CrashInv
<1> QED BY <1>1, <1>2, <1>3, <1>4, <1>5, <1>6, <1>7 DEF Next

LEMMA Inductive == Spec => []IInv
<1>1. Init => IInv
  BY InitInv
<1>2. IInv /\ [Next]_vars => IInv'
  BY NextInv
<1> QED BY <1>1, <1>2, PTL DEF Spec

-----------------------------------------------------------------------------
(* What follows.                                                             *)

\* What is recorded of a reference is one content.
LEMMA TracedIsOne ==
    ASSUME Typed, Readable, Traced
    PROVE  OneContent
<1>1. ASSUME NEW r \in Refs PROVE Cardinality(ever[r]) <= 1
  <2> DEFINE x == IF local[r].dig = NoDigest THEN local[r].tomb ELSE local[r].dig
  <2>1. ever[r] \subseteq {x}
    <3>1. ASSUME NEW y \in ever[r] PROVE y = x
      <4>1. y # NoDigest /\ Recalls(local[r], y)
        BY NobodyAssumption DEF Typed, Traced
      <4> QED BY <4>1 DEF Recalls
    <3> QED BY <3>1
  <2> HIDE DEF x
  <2>2. IsFiniteSet({x}) /\ Cardinality({x}) = 1
    BY FS_Singleton
  <2>3. IsFiniteSet(ever[r]) /\ Cardinality(ever[r]) <= Cardinality({x})
    BY <2>1, <2>2, FS_Subset
  <2> QED BY <2>2, <2>3
<1> QED BY <1>1 DEF OneContent

\* Whatever sequence of mutations, synchronisations and deaths there was, every
\* variable keeps its type, the registry loads, a reference keeps its content
\* while no living process loses the lock of the registry, and what the manager
\* answered with success is in its audit log.
THEOREM SoundRegistries == Spec => []RegistriesAreSound
<1>1. IInv => RegistriesAreSound
  <2> SUFFICES ASSUME IInv PROVE RegistriesAreSound
    OBVIOUS
  <2>1. TypeOK
    BY DEF IInv, Typed, TypeOK, Row, Docs, Entry, States, Tie, Digs
  <2>2. RegistryLoads /\ AnsweredIsAudited
    BY DEF IInv, Facts, RegistryLoads, AnsweredIsAudited
  <2>3. ReferenceIsImmutable
    BY TracedIsOne DEF IInv, Facts, Held, ReferenceIsImmutable
  <2> QED BY <2>1, <2>2, <2>3 DEF RegistriesAreSound
<1> QED BY <1>1, Inductive, PTL

-----------------------------------------------------------------------------
(* What a step may do to the registry and to the rows of the manager.        *)

\* Only WriteRegistry changes the registry, and only RemoteServe the manager.
LEMMA WhoWrites ==
    ASSUME [Next]_vars
    PROVE  /\ local' = local \/ \E c \in Clients : WriteRegistry(c)
           /\ manager' = manager \/ \E c \in Clients : RemoteServe(c)
<1> DEFINE Kept == local' = local /\ manager' = manager
<1>1. CASE UNCHANGED vars
  BY <1>1 DEF vars
<1>2. CASE Run
  BY <1>2 DEF Run, Bind, Activate, Invoke, EndRun, ManagerUnchanged, LocalUnchanged
<1>3. ASSUME NEW c \in Clients, Remote(c) PROVE Kept \/ (local' = local /\ RemoteServe(c))
  BY <1>3 DEF Remote, RemoteBegin, RemoteAsk, RemoteServe, RemoteRecord, RemoteAnswer,
     ManagerUnchanged, LocalUnchanged
<1>4. ASSUME NEW c \in Clients, Locking(c) PROVE Kept
  BY <1>4 DEF Locking, FindOldLock, Busy, BreakLock, ManagerUnchanged, LocalUnchanged
<1>5. ASSUME NEW c \in Clients, Local(c) PROVE Kept \/ (manager' = manager /\ WriteRegistry(c))
  BY <1>5 DEF Local, LocalBegin, LocalLock, WriteRegistry, ReleaseRegistry,
     ManagerUnchanged, LocalUnchanged
<1>6. ASSUME NEW c \in Clients, Sync(c) PROVE Kept
  BY <1>6 DEF Sync, SyncBegin, SyncLock, SyncReconcile, SyncSave, ManagerUnchanged,
     LocalUnchanged
<1>7. ASSUME NEW c \in Clients, Crash(c) PROVE Kept
  BY <1>7 DEF Crash, ManagerUnchanged, LocalUnchanged
<1> QED BY <1>1, <1>2, <1>3, <1>4, <1>5, <1>6, <1>7 DEF Next

\* Whoever writes the registry while nobody lost its lock is the one that holds it.
LEMMA OneWriter ==
    ASSUME IInv, "registry" \notin stolen, NEW c \in Clients, NEW d \in Clients,
           call[c].pc = "write", WriteRegistry(d)
    PROVE  c = d
  BY DEF IInv, Held, Holds, WriteRegistry

\* What a synchronisation writes is what its plan says.
LEMMA SyncWrites ==
    ASSUME IInv, [Next]_vars, NEW c \in Clients, Synchronises(c), NEW r \in Refs
    PROVE  \/ local'[r] = local[r]
           \/ /\ Planned(call[c])
              /\ local'[r].off # local[r].off =>
                    call[c].acts[r] \in {"enable", "disable", "revoke"}
              /\ local'[r].off /\ ~local[r].off => call[c].acts[r] \in {"disable", "revoke"}
<1>1. call[c].pc = "write" /\ call[c].op = "sync" /\ "registry" \notin stolen
  BY DEF Synchronises
<1>2. CASE local' = local
  BY <1>2
<1>3. CASE \E d \in Clients : WriteRegistry(d)
  <2>1. WriteRegistry(c)
    BY <1>1, <1>3, OneWriter
  <2>2. local' = call[c].doc
    BY <2>1 DEF WriteRegistry
  <2>3. Follows(call[c], r)
    BY <1>1, WritesWhatFollows
  <2>4. call[c] \in Replacing
    BY <1>1, CallIs DEF IInv, Writing, LocalOps
  <2>5. Planned(call[c])
    BY <2>4 DEF IInv, Facts, Sound
  <2> QED BY <1>1, <2>2, <2>3, <2>5 DEF Follows
<1> QED BY <1>2, <1>3, WhoWrites

LEMMA StepIsCareful ==
    ASSUME IInv, [Next]_vars
    PROVE  /\ \A c \in Clients : \A r \in Refs :
                 (Synchronises(c) /\ local[r].dig # NoDigest /\ local'[r].off # local[r].off)
                   => call[c].state[call[c].src][r].by = "managed"
           /\ \A c \in Clients : \A r \in Refs :
                 Withdraws(c, r) => r \notin call[c].found.real \/ Clipped(call[c])
<1>1. ASSUME NEW c \in Clients, NEW r \in Refs, Synchronises(c), local'[r].off # local[r].off
      PROVE  call[c].state[call[c].src][r].by = "managed"
  BY <1>1, SyncWrites DEF Planned
<1>2. ASSUME NEW c \in Clients, NEW r \in Refs, Withdraws(c, r)
      PROVE  r \notin call[c].found.real \/ Clipped(call[c])
  <2>1. Synchronises(c) /\ ~local[r].off /\ local'[r].off
    BY <1>2 DEF Withdraws
  <2>2. Planned(call[c]) /\ call[c].acts[r] \in {"disable", "revoke"}
    BY <2>1, SyncWrites
  <2> QED BY <2>2 DEF Planned, Gone
<1> QED BY <1>1, <1>2

LEMMA StepKeepsRevoked ==
    ASSUME IInv, [Next]_vars
    PROVE  \A r \in Refs :
              /\ manager[r].revoked => manager'[r].revoked
              /\ local[r].revoked /\ "registry" \notin stolen => local'[r].revoked
<1>1. ASSUME NEW r \in Refs, manager[r].revoked PROVE manager'[r].revoked
  <2>1. CASE manager' = manager
    BY <1>1, <2>1
  <2>2. ASSUME NEW c \in Clients, RemoteServe(c) PROVE manager'[r].revoked
    BY <1>1, <2>2, RemoteServeRow DEF IInv, Facts, ServedRow
  <2> QED BY <2>1, <2>2, WhoWrites
<1>2. ASSUME NEW r \in Refs, local[r].revoked, "registry" \notin stolen PROVE local'[r].revoked
  <2>1. CASE local' = local
    BY <1>2, <2>1
  <2>2. ASSUME NEW c \in Clients, WriteRegistry(c) PROVE local'[r].revoked
    <3>1. call[c].pc = "write" /\ local' = call[c].doc
      BY <2>2 DEF WriteRegistry
    <3>2. Keeps(local[r], call[c].doc[r])
      BY <1>2, <3>1, WritesWhatFollows
    <3> QED BY <1>2, <3>1, <3>2 DEF Keeps
  <2> QED BY <2>1, <2>2, WhoWrites
<1> QED BY <1>1, <1>2

\* A synchronisation enables, disables and withdraws only what its source
\* manages, withdraws only what a complete discovery no longer found, and nothing
\* that was revoked is taken back, at the manager or in the registry.
THEOREM CarefulSync == Spec => SyncIsCareful
<1>1. IInv /\ [Next]_vars =>
        [\A c \in Clients : \A r \in Refs :
           (Synchronises(c) /\ local[r].dig # NoDigest /\ local'[r].off # local[r].off)
             => call[c].state[call[c].src][r].by = "managed"]_vars
  BY StepIsCareful
<1>2. IInv /\ [Next]_vars =>
        [\A c \in Clients : \A r \in Refs :
           Withdraws(c, r) => r \notin call[c].found.real \/ Clipped(call[c])]_vars
  BY StepIsCareful
<1>3. IInv /\ [Next]_vars =>
        [\A r \in Refs :
           /\ manager[r].revoked => manager'[r].revoked
           /\ local[r].revoked /\ "registry" \notin stolen => local'[r].revoked]_vars
  BY StepKeepsRevoked
<1>4. Spec => SyncKeepsManualState
  BY <1>1, Inductive, PTL DEF Spec, SyncKeepsManualState
<1>5. Spec => WithdrawnWasMissing
  BY <1>2, Inductive, PTL DEF Spec, WithdrawnWasMissing
<1>6. Spec => RevokedStays
  BY <1>3, Inductive, PTL DEF Spec, RevokedStays
<1> QED BY <1>4, <1>5, <1>6, PTL DEF SyncIsCareful

-----------------------------------------------------------------------------
(* Who takes a version away that a run uses.                                 *)

\* An entry that is neither lost nor revoked by its change.
Stays(e, n) == /\ e.dig # NoDigest => n.dig # NoDigest
               /\ n.revoked => e.revoked

\* The change that a process has decided leaves the version alone.
Minds(my, r) ==
    /\ my \in Mutating => ~(my.op \in {"remove", "revoke"} /\ my.ref = r)
    /\ my \in Applying \cup Replacing => my.acts[r] \notin {"disable", "revoke"}

\* And so does the document that it is about to write.
Spares(my, r) ==
    Minds(my, r) /\ (my.pc = "write" /\ "registry" \notin stolen => Stays(local[r], my.doc[r]))

\* Whoever decided with the row of the run there spares the version it uses.
Spared == \A r \in Refs : InUse(r) => \A c \in run.met : Spares(call[c], r)

Quiet == {"idle", "dead", "ask", "serve", "record", "lock_sync", "break_sync"}

LEMMA QuietMinds ==
    ASSUME NEW my, my.pc \in Quiet, NEW r
    PROVE  Minds(my, r) /\ my.pc # "write"
  BY DEF Minds, Quiet, Mutating, Applying, Replacing

\* A process that goes on with what it has decided.
LEMMA GoesOn ==
    ASSUME NEW my \in Mutating \cup Applying \cup Replacing, NEW r \in Refs, Minds(my, r),
           NEW p \in {"lock_registry", "break_registry", "release", "save"}
    PROVE  Minds([my EXCEPT !.pc = p], r) /\ [my EXCEPT !.pc = p].pc = p
<1> DEFINE new == [my EXCEPT !.pc = p]
<1>1. CASE my \in Mutating
  <2>1. new.op = my.op /\ new.ref = my.ref /\ new.pc = p /\ new.op \in LocalOps
    BY <1>1 DEF Mutating
  <2> HIDE DEF new
  <2>2. new \notin Applying \cup Replacing
    BY <2>1 DEF Applying, Replacing, LocalOps
  <2>3. Minds(new, r)
    BY <1>1, <2>1, <2>2 DEF Minds
  <2> QED BY <2>1, <2>3 DEF new
<1>2. CASE my \in Applying \cup Replacing
  <2>1. new.op = "sync" /\ new.acts = my.acts /\ new.pc = p
    BY <1>2 DEF Applying, Replacing
  <2> HIDE DEF new
  <2>2. new \notin Mutating
    BY <2>1 DEF Mutating, LocalOps
  <2>3. Minds(new, r)
    BY <1>2, <2>1, <2>2 DEF Minds
  <2> QED BY <2>1, <2>3 DEF new
<1> QED BY <1>1, <1>2

LEMMA Steps ==
    ASSUME Typed, NEW c \in Clients, NEW my, Goto(c, my)
    PROVE  call'[c] = my /\ Others(c)
  BY DEF Typed, Goto, Others

\* While another process moves.
LEMMA OthersSpare ==
    ASSUME IInv, NEW c \in Clients, NEW d \in Clients, d # c, Others(c),
           stolen \subseteq stolen', local' = local \/ WriteRegistry(c),
           NEW r \in Refs, Spares(call[d], r)
    PROVE  Spares(call[d], r)'
<1>1. call'[d] = call[d]
  BY DEF Others
<1>2. CASE local' = local
  BY <1>1, <1>2 DEF Spares, Stays, Minds
<1>3. CASE WriteRegistry(c)
  <2>1. call[d].pc = "write" => "registry" \in stolen
    BY <1>3, OneWriter
  <2> QED BY <1>1, <2>1 DEF Spares, Minds
<1> QED BY <1>2, <1>3

\* The processes but one leave what is spared, if that one spares it too.
LEMMA SparedAside ==
    ASSUME IInv, Spared, NEW c \in Clients, Others(c), stolen \subseteq stolen',
           local' = local \/ WriteRegistry(c),
           run' \in Runs, run'.pc = run.pc, run'.ref = run.ref,
           \A d \in Clients : d # c /\ d \in run'.met => d \in run.met,
           \A r \in Refs : InUse(r) /\ c \in run'.met => Spares(call[c], r)'
    PROVE  Spared'
<1>1. ASSUME NEW r \in Refs, InUse(r)', NEW d \in run'.met PROVE Spares(call[d], r)'
  <2>1. InUse(r) /\ d \in Clients
    BY <1>1 DEF InUse, Runs
  <2>2. CASE d = c
    BY <1>1, <2>1, <2>2
  <2>3. CASE d # c
    <3>1. Spares(call[d], r)
      BY <1>1, <2>1, <2>3 DEF Spared
    <3> QED BY <2>1, <2>3, <3>1, OthersSpare
  <2> QED BY <2>2, <2>3
<1> QED BY <1>1 DEF Spared

\* A process that leaves the run and the registry alone.
LEMMA SparedStep ==
    ASSUME IInv, Spared, NEW c \in Clients, NEW my, Goto(c, my),
           stolen \subseteq stolen', UNCHANGED <<local, run>>,
           \A r \in Refs : InUse(r) /\ c \in run.met =>
              Minds(my, r) /\ (my.pc = "write" => Stays(local[r], my.doc[r]))
    PROVE  Spared'
<1>1. call'[c] = my /\ Others(c)
  BY Steps DEF IInv
<1>2. run' \in Runs
  BY DEF IInv, Typed
<1>3. ASSUME NEW r \in Refs, InUse(r), c \in run'.met PROVE Spares(call[c], r)'
  <2>1. Minds(my, r) /\ (my.pc = "write" => Stays(local[r], my.doc[r]))
    BY <1>3
  <2> QED BY <1>1, <2>1 DEF Spares, Minds, Stays
<1> QED BY <1>1, <1>2, <1>3, SparedAside

LEMMA QuietStep ==
    ASSUME IInv, Spared, NEW c \in Clients, NEW my, Goto(c, my), my.pc \in Quiet,
           UNCHANGED <<local, run, stolen>>
    PROVE  Spared'
<1>1. \A r : Minds(my, r) /\ my.pc # "write"
  BY QuietMinds
<1> QED BY <1>1, SparedStep

\* What a mutation leaves of an entry that it neither removes nor revokes.
LEMMA ChangeStays ==
    ASSUME NEW e \in Entry, NEW d \in Digs, NEW op \in {"publish", "enable", "disable"},
           Accepts(op, e, d)
    PROVE  Stays(e, Changed(op, e, d))
<1>1. CASE op = "publish"
  <2>1. Immutable(e, d) /\ Changed(op, e, d) = [e EXCEPT !.dig = d]
    BY <1>1, AcceptsIs, ChangedIs
  <2> QED BY <2>1 DEF Immutable, Stays, Entry
<1>2. CASE op = "enable"
  <2>1. Changed(op, e, d) = [e EXCEPT !.off = FALSE]
    BY <1>2, ChangedIs
  <2> QED BY <2>1 DEF Stays, Entry
<1>3. CASE op = "disable"
  <2>1. Changed(op, e, d) = [e EXCEPT !.off = TRUE]
    BY <1>3, ChangedIs
  <2> QED BY <2>1 DEF Stays, Entry
<1> QED BY <1>1, <1>2, <1>3

LEMMA RemoteSpares ==
    ASSUME IInv, Spared, NEW c \in Clients, Remote(c)
    PROVE  Spared'
<1>1. UNCHANGED <<local, run, stolen>>
  BY DEF Remote, RemoteBegin, RemoteAsk, RemoteServe, RemoteRecord, RemoteAnswer, LocalUnchanged,
     Elsewhere
<1>2. \A ok : Decided(ok).pc \in Quiet
  BY DEF Decided, Quiet
<1>3. Idle.pc \in Quiet
  BY DEF Idle, Quiet
<1>4. CASE RemoteBegin(c)
  <2>1. CASE Goto(c, Decided(FALSE))
    BY <1>1, <1>2, <2>1, QuietStep
  <2>2. CASE \E q \in Requests(RemoteOps) :
               Goto(c, [pc |-> IF q.op = "enable" THEN "ask" ELSE "serve",
                        op |-> q.op, ref |-> q.ref, dig |-> q.dig])
    <3>1. PICK q \in Requests(RemoteOps) :
               Goto(c, [pc |-> IF q.op = "enable" THEN "ask" ELSE "serve",
                        op |-> q.op, ref |-> q.ref, dig |-> q.dig])
      BY <2>2
    <3> DEFINE my == [pc |-> IF q.op = "enable" THEN "ask" ELSE "serve",
                      op |-> q.op, ref |-> q.ref, dig |-> q.dig]
    <3>2. my.pc \in Quiet
      BY DEF Quiet
    <3> HIDE DEF my
    <3>3. Goto(c, my)
      BY <3>1 DEF my
    <3> QED BY <1>1, <3>2, <3>3, QuietStep
  <2> QED BY <1>4, <2>1, <2>2 DEF RemoteBegin
<1>5. CASE RemoteAsk(c)
  <2>1. CASE Goto(c, Decided(FALSE))
    BY <1>1, <1>2, <2>1, QuietStep
  <2>2. CASE To(c, "serve")
    <3> DEFINE my == [call[c] EXCEPT !.pc = "serve"]
    <3>1. call[c] \in Asking
      BY <1>5, CallIs DEF RemoteAsk, IInv
    <3>2. my.pc \in Quiet
      BY <3>1 DEF Asking, Quiet
    <3> HIDE DEF my
    <3>3. Goto(c, my)
      BY <2>2 DEF To, my
    <3> QED BY <1>1, <3>2, <3>3, QuietStep
  <2> QED BY <1>5, <2>1, <2>2 DEF RemoteAsk
<1>6. CASE RemoteServe(c)
  <2>1. PICK ok : Goto(c, Decided(ok))
    BY <1>6 DEF RemoteServe
  <2> QED BY <1>1, <1>2, <2>1, QuietStep
<1>7. CASE RemoteRecord(c)
  <2> DEFINE my == [call[c] EXCEPT !.recorded = TRUE]
  <2>1. call[c] \in Deciding
    BY <1>7, CallIs DEF RemoteRecord, IInv
  <2>2. my.pc \in Quiet
    BY <2>1 DEF Deciding, Quiet
  <2> HIDE DEF my
  <2>3. Goto(c, my)
    BY <1>7 DEF RemoteRecord, my
  <2> QED BY <1>1, <2>2, <2>3, QuietStep
<1>8. CASE RemoteAnswer(c)
  BY <1>1, <1>3, <1>8, QuietStep DEF RemoteAnswer, End
<1> QED BY <1>4, <1>5, <1>6, <1>7, <1>8 DEF Remote

\* Waiting for a lock, and breaking it.
LEMMA LockingSpares ==
    ASSUME IInv, Spared, NEW c \in Clients, Locking(c)
    PROVE  Spared'
<1>1. UNCHANGED <<local, run>> /\ stolen \subseteq stolen'
  BY DEF Locking, FindOldLock, Busy, BreakLock, LocalUnchanged, Elsewhere
<1>2. CASE End(c)
  <2>1. Idle.pc \in Quiet
    BY DEF Idle, Quiet
  <2>2. \A r : Minds(Idle, r) /\ Idle.pc # "write"
    BY <2>1, QuietMinds
  <2> QED BY <1>1, <1>2, <2>2, SparedStep DEF End
<1>3. ASSUME NEW p \in {"lock_registry", "break_registry"},
             call[c].pc \in {"lock_registry", "break_registry"}, To(c, p)
      PROVE  Spared'
  <2>1. call[c] \in Mutating \cup Applying
    BY <1>3, CallIs DEF IInv
  <2>2. ASSUME NEW r \in Refs, InUse(r), c \in run.met
        PROVE  Minds([call[c] EXCEPT !.pc = p], r) /\ [call[c] EXCEPT !.pc = p].pc = p
    <3>1. Minds(call[c], r)
      BY <2>2 DEF Spared, Spares
    <3> QED BY <2>1, <3>1, GoesOn
  <2>3. p # "write"
    OBVIOUS
  <2> QED BY <1>1, <1>3, <2>2, <2>3, SparedStep DEF To
<1>4. ASSUME NEW p \in {"lock_sync", "break_sync"},
             call[c].pc \in {"lock_sync", "break_sync"}, To(c, p)
      PROVE  Spared'
  <2> DEFINE my == [call[c] EXCEPT !.pc = p]
  <2>1. call[c] \in Planning
    BY <1>4, CallIs DEF IInv
  <2>2. my.pc \in Quiet
    BY <2>1 DEF Planning, Quiet
  <2> HIDE DEF my
  <2>3. \A r : Minds(my, r) /\ my.pc # "write"
    BY <2>2, QuietMinds
  <2>4. Goto(c, my)
    BY <1>4 DEF To, my
  <2> QED BY <1>1, <2>3, <2>4, SparedStep
<1>5. PICK f \in Files : \/ call[c].pc = Waits(f) /\ (FindOldLock(c, f) \/ Busy(c, f))
                         \/ BreakLock(c, f)
  BY DEF Locking
<1>6. \/ Busy(c, f)
      \/ call[c].pc = Waits(f) /\ To(c, Breaks(f))
      \/ call[c].pc = Breaks(f) /\ To(c, Waits(f))
  BY <1>5 DEF FindOldLock, BreakLock
<1>7. \/ Waits(f) = "lock_registry" /\ Breaks(f) = "break_registry"
      \/ Waits(f) = "lock_sync" /\ Breaks(f) = "break_sync"
  BY DEF Waits, Breaks
<1>8. CASE Busy(c, f)
  BY <1>2, <1>8 DEF Busy
<1> QED BY <1>3, <1>4, <1>6, <1>7, <1>8

LEMMA LocalBeginSpares ==
    ASSUME IInv, Spared, NEW c \in Clients, LocalBegin(c)
    PROVE  Spared'
<1>1. PICK q \in Requests(LocalOps) :
         /\ q.op \in {"remove", "revoke"} => ~InUse(q.ref)
         /\ Goto(c, [pc |-> "lock_registry", op |-> q.op, ref |-> q.ref, dig |-> q.dig])
  BY DEF LocalBegin
<1> DEFINE my == [pc |-> "lock_registry", op |-> q.op, ref |-> q.ref, dig |-> q.dig]
<1>2. my.pc = "lock_registry" /\ my.op = q.op /\ my.ref = q.ref /\ my.op \in LocalOps
  BY DEF Requests
<1>3. Goto(c, my)
  BY <1>1
<1> HIDE DEF my
<1>4. ASSUME NEW r \in Refs, InUse(r) PROVE Minds(my, r)
  <2>1. my \notin Applying \cup Replacing
    BY <1>2 DEF Applying, Replacing, LocalOps
  <2> QED BY <1>1, <1>2, <1>4, <2>1 DEF Minds
<1>5. call'[c] = my /\ Others(c)
  BY <1>3, Steps DEF IInv
<1>6. local' = local /\ stolen' = stolen /\ Meets(c)
  BY DEF LocalBegin, LocalUnchanged
<1>7. \A r \in Refs : InUse(r) => Spares(call[c], r)'
  BY <1>2, <1>4, <1>5 DEF Spares, Minds
<1> QED BY <1>5, <1>6, <1>7, MeetsIs, SparedAside DEF IInv

LEMMA LocalSpares ==
    ASSUME IInv, Spared, NEW c \in Clients, LocalLock(c) \/ WriteRegistry(c) \/ ReleaseRegistry(c)
    PROVE  Spared'
<1>1. UNCHANGED <<run, stolen>> /\ run' \in Runs
  BY DEF LocalLock, WriteRegistry, ReleaseRegistry, Elsewhere, IInv, Typed
<1>2. Idle.pc \in Quiet
  BY DEF Idle, Quiet
<1>3. CASE LocalLock(c)
  <2> DEFINE my  == call[c]
             n   == Changed(my.op, local[my.ref], my.dig)
             doc == [local EXCEPT ![my.ref] = n]
             rec == [pc |-> "write", op |-> my.op, doc |-> doc]
  <2>1. /\ my.pc = "lock_registry" /\ my.op # "sync" /\ local' = local
        /\ \/ Accepts(my.op, local[my.ref], my.dig) /\ Goto(c, rec)
           \/ Goto(c, Idle)
    BY <1>3 DEF LocalLock, End
  <2>2. CASE Goto(c, Idle)
    BY <1>1, <1>2, <2>1, <2>2, QuietStep
  <2>3. CASE Accepts(my.op, local[my.ref], my.dig) /\ Goto(c, rec)
    <3>1. my \in Mutating
      BY <2>1, CallIs DEF IInv, Applying
    <3>2. my.op \in LocalOps /\ my.ref \in Refs /\ my.dig \in Digs
      BY <3>1 DEF Mutating
    <3>3. local \in [Refs -> Entry]
      BY DEF IInv, Typed, Docs
    <3>4. ASSUME NEW r \in Refs, Minds(my, r) PROVE Stays(local[r], doc[r])
      <4>1. CASE r # my.ref
        <5>1. doc[r] = local[r]
          BY <3>3, <4>1
        <5> HIDE DEF doc
        <5> QED BY <5>1 DEF Stays
      <4>2. CASE r = my.ref
        <5>1. my.op \in {"publish", "enable", "disable"}
          BY <3>1, <3>2, <3>4, <4>2 DEF Minds, LocalOps
        <5>2. Stays(local[r], n)
          BY <2>3, <3>2, <3>3, <4>2, <5>1, ChangeStays
        <5>3. doc[r] = n
          BY <3>3, <4>2
        <5> HIDE DEF doc, n
        <5> QED BY <5>2, <5>3
      <4> QED BY <4>1, <4>2
    <3> HIDE DEF doc
    <3>5. rec.pc = "write" /\ rec.doc = doc /\ rec.op = my.op
      OBVIOUS
    <3> HIDE DEF rec
    <3>6. \A r : Minds(rec, r)
      BY <2>1, <3>5 DEF Minds, Mutating, Applying, Replacing
    <3>7. \A r \in Refs : InUse(r) /\ c \in run.met => Minds(my, r)
      BY DEF Spared, Spares
    <3> QED BY <1>1, <2>1, <2>3, <3>4, <3>5, <3>6, <3>7, SparedStep
  <2> QED BY <2>1, <2>2, <2>3
<1>4. CASE WriteRegistry(c)
  <2> DEFINE rec == [call[c] EXCEPT !.pc = "release"]
  <2>1. call[c].pc = "write" /\ Goto(c, rec)
    BY <1>4 DEF WriteRegistry, To
  <2>2. call'[c] = rec /\ Others(c)
    BY <2>1, Steps DEF IInv
  <2>3. call[c] \in Writing \cup Replacing
    BY <2>1, CallIs DEF IInv
  <2>4. ASSUME NEW r \in Refs, Minds(call[c], r) PROVE Minds(rec, r) /\ rec.pc # "write"
    <3>1. CASE call[c] \in Replacing
      BY <2>4, <3>1, GoesOn
    <3>2. CASE call[c] \in Writing
      <4>1. rec.pc = "release" /\ rec.op # "sync"
        BY <3>2 DEF Writing, LocalOps
      <4> HIDE DEF rec
      <4> QED BY <4>1 DEF Minds, Mutating, Applying, Replacing
    <3> QED BY <2>3, <3>1, <3>2
  <2> HIDE DEF rec
  <2>5. ASSUME NEW r \in Refs, InUse(r), c \in run'.met PROVE Spares(call[c], r)'
    <3>1. Minds(call[c], r)
      BY <1>1, <2>5 DEF Spared, Spares
    <3>2. Minds(rec, r) /\ rec.pc # "write"
      BY <2>4, <3>1
    <3> QED BY <2>2, <3>2 DEF Spares, Minds
  <2> QED BY <1>1, <1>4, <2>2, <2>5, SparedAside
<1>5. CASE ReleaseRegistry(c)
  <2>1. call[c].pc = "release" /\ local' = local /\ (Goto(c, Idle) \/ (call[c].op = "sync" /\ To(c, "save")))
    BY <1>5 DEF ReleaseRegistry, End
  <2>2. CASE Goto(c, Idle)
    BY <1>1, <1>2, <2>1, <2>2, QuietStep
  <2>3. CASE call[c].op = "sync" /\ To(c, "save")
    <3>1. call[c] \in Replacing
      BY <2>1, <2>3, CallIs DEF IInv, Writing, LocalOps
    <3>2. ASSUME NEW r \in Refs, InUse(r), c \in run.met
          PROVE  Minds([call[c] EXCEPT !.pc = "save"], r) /\ [call[c] EXCEPT !.pc = "save"].pc = "save"
      <4>1. Minds(call[c], r)
        BY <3>2 DEF Spared, Spares
      <4> QED BY <3>1, <4>1, GoesOn
    <3> QED BY <1>1, <2>1, <2>3, <3>2, SparedStep DEF To
  <2> QED BY <2>1, <2>2, <2>3
<1> QED BY <1>3, <1>4, <1>5

\* What a synchronisation decides under its lock, with the runs looked up there.
LEMMA SyncLockSpares ==
    ASSUME IInv, Spared, NEW c \in Clients, SyncLock(c)
    PROVE  Spared'
<1>1. local' = local /\ stolen' = stolen /\ Meets(c)
  BY DEF SyncLock
<1>2. PICK my : /\ Goto(c, my)
                /\ \/ my.pc \in Quiet
                   \/ /\ my.pc \in {"lock_registry", "save"} /\ my.op = "sync"
                      /\ \A r \in Refs : InUse(r) => my.acts[r] \notin Withdrawals
  <2> DEFINE m    == call[c]
             plan == [r \in Refs |-> Suggested(local[r], binding[m.src][r],
                                               m.found.offer[r], r \in m.found.hidden)]
             acts == [r \in Refs |-> Action(m, r, plan)]
             writes == \E r \in Refs : acts[r] \in {"publish", "enable", "disable", "revoke"}
             p    == IF writes THEN "lock_registry" ELSE "save"
             rec  == [pc |-> p, op |-> "sync", src |-> m.src, found |-> m.found, acts |-> acts,
                      state |-> binding]
  <2>1. \/ Goto(c, Idle)
        \/ Goto(c, rec) /\ \A r \in Refs : InUse(r) => acts[r] \notin Withdrawals
    BY DEF SyncLock, End
  <2>2. CASE Goto(c, Idle)
    <3>1. Idle.pc \in Quiet
      BY DEF Idle, Quiet
    <3> QED BY <2>2, <3>1
  <2>3. CASE Goto(c, rec) /\ \A r \in Refs : InUse(r) => acts[r] \notin Withdrawals
    <3>1. p \in {"lock_registry", "save"}
      OBVIOUS
    <3> HIDE DEF p, acts
    <3>2. rec.pc \in {"lock_registry", "save"} /\ rec.op = "sync" /\ rec.acts = acts
      BY <3>1
    <3> HIDE DEF rec
    <3> QED BY <2>3, <3>2
  <2> QED BY <2>1, <2>2, <2>3
<1>3. call'[c] = my /\ Others(c)
  BY <1>2, Steps DEF IInv
<1>4. ASSUME NEW r \in Refs, InUse(r) PROVE Spares(call[c], r)'
  <2>1. CASE my.pc \in Quiet
    BY <1>3, <2>1, QuietMinds DEF Spares, Minds
  <2>2. CASE my.pc \notin Quiet
    <3>1. my.pc # "write" /\ my.op = "sync" /\ my.acts[r] \notin {"disable", "revoke"}
      BY <1>2, <1>4, <2>2 DEF Withdrawals
    <3>2. Minds(my, r)
      BY <3>1 DEF Minds, Mutating, LocalOps
    <3> QED BY <1>3, <3>1, <3>2 DEF Spares, Minds
  <2> QED BY <2>1, <2>2
<1> QED BY <1>1, <1>3, <1>4, MeetsIs, SparedAside DEF IInv

LEMMA ReconcileSpares ==
    ASSUME IInv, Spared, NEW c \in Clients, SyncReconcile(c)
    PROVE  Spared'
<1> DEFINE my   == call[c]
           acts == my.acts
           doc  == [r \in Refs |-> IF acts[r] \in {"publish", "enable", "disable", "revoke"}
                                   THEN Changed(acts[r], local[r], my.found.offer[r]) ELSE local[r]]
           rec  == [pc |-> "write", op |-> "sync", src |-> my.src, found |-> my.found,
                    acts |-> acts, state |-> my.state, doc |-> doc]
           ok   == \A r \in Refs :
                      /\ acts[r] = "publish" => Immutable(local[r], my.found.offer[r])
                      /\ acts[r] \in {"enable", "disable", "revoke"} =>
                             Accepts(acts[r], local[r], NoDigest)
<1>1. /\ my.pc = "lock_registry" /\ my.op = "sync" /\ UNCHANGED <<local, run, stolen>>
      /\ Goto(c, Idle) \/ To(c, "save") \/ (ok /\ Goto(c, rec))
  BY DEF SyncReconcile, End, Elsewhere
<1>2. my \in Applying
  BY <1>1, CallIs DEF IInv, Mutating, LocalOps
<1>3. \A r \in Refs : InUse(r) /\ c \in run.met => Minds(my, r)
  BY DEF Spared, Spares
<1>4. CASE Goto(c, Idle)
  <2>1. Idle.pc \in Quiet
    BY DEF Idle, Quiet
  <2> QED BY <1>1, <1>4, <2>1, QuietStep
<1>5. CASE To(c, "save")
  <2>1. \A r \in Refs : Minds(my, r) =>
           Minds([my EXCEPT !.pc = "save"], r) /\ [my EXCEPT !.pc = "save"].pc = "save"
    BY <1>2, GoesOn
  <2> QED BY <1>1, <1>3, <1>5, <2>1, SparedStep DEF To
<1>6. CASE ok /\ Goto(c, rec)
  <2>1. my.found.offer \in [Refs -> Digs] /\ NoDigest \in Digs /\ local \in [Refs -> Entry]
    BY <1>2 DEF Applying, Discoveries, Digs, IInv, Typed, Docs
  <2>2. ASSUME NEW r \in Refs, Minds(my, r) PROVE Stays(local[r], doc[r])
    <3>1. acts[r] \notin {"disable", "revoke"}
      BY <1>2, <2>2 DEF Minds
    <3>2. CASE acts[r] \in {"publish", "enable"}
      <4>1. doc[r] = Changed(acts[r], local[r], my.found.offer[r])
        BY <3>2
      <4>2. /\ acts[r] = "publish" => Immutable(local[r], my.found.offer[r])
            /\ acts[r] = "enable" => Accepts(acts[r], local[r], NoDigest)
        BY <1>6
      <4>3. local[r] \in Entry /\ my.found.offer[r] \in Digs
        BY <2>1
      <4> HIDE DEF doc, acts
      <4>4. Accepts(acts[r], local[r], my.found.offer[r])
        BY <2>1, <3>2, <4>2, <4>3, AcceptsIs
      <4> QED BY <3>2, <4>1, <4>3, <4>4, ChangeStays
    <3>3. CASE acts[r] \notin {"publish", "enable"}
      <4>1. doc[r] = local[r]
        BY <3>1, <3>3
      <4> HIDE DEF doc
      <4> QED BY <4>1 DEF Stays
    <3> QED BY <3>2, <3>3
  <2> HIDE DEF doc, ok, acts
  <2>3. rec.pc = "write" /\ rec.op = "sync" /\ rec.acts = acts /\ rec.doc = doc
    OBVIOUS
  <2> HIDE DEF rec
  <2>4. ASSUME NEW r \in Refs, Minds(my, r) PROVE Minds(rec, r)
    <3>1. rec \notin Mutating
      BY <2>3 DEF Mutating
    <3> QED BY <1>2, <2>3, <2>4, <3>1 DEF Minds, acts
  <2> QED BY <1>1, <1>3, <1>6, <2>2, <2>3, <2>4, SparedStep
<1> QED BY <1>1, <1>4, <1>5, <1>6

LEMMA SyncSpares ==
    ASSUME IInv, Spared, NEW c \in Clients, Sync(c)
    PROVE  Spared'
<1>1. CASE SyncBegin(c)
  <2>1. PICK s \in Sources, m \in Lifecycle : \E found \in Discovery(s) :
          Goto(c, [pc |-> "lock_sync", op |-> "sync", src |-> s, missing |-> m, found |-> found])
    BY <1>1 DEF SyncBegin
  <2>2. PICK found :
          Goto(c, [pc |-> "lock_sync", op |-> "sync", src |-> s, missing |-> m, found |-> found])
    BY <2>1
  <2> DEFINE my == [pc |-> "lock_sync", op |-> "sync", src |-> s, missing |-> m, found |-> found]
  <2>3. my.pc \in Quiet
    BY DEF Quiet
  <2>4. Goto(c, my)
    BY <2>2
  <2> HIDE DEF my
  <2>5. UNCHANGED <<local, run, stolen>>
    BY <1>1 DEF SyncBegin, LocalUnchanged
  <2> QED BY <2>3, <2>4, <2>5, QuietStep
<1>2. CASE SyncSave(c)
  <2>1. Idle.pc \in Quiet
    BY DEF Idle, Quiet
  <2>2. UNCHANGED <<local, run, stolen>> /\ Goto(c, Idle)
    BY <1>2 DEF SyncSave, Elsewhere, End
  <2> QED BY <2>1, <2>2, QuietStep
<1> QED BY <1>1, <1>2, SyncLockSpares, ReconcileSpares DEF Sync

LEMMA NextSpares == IInv /\ IInv' /\ Spared /\ [Next]_vars => Spared'
<1> SUFFICES ASSUME IInv, IInv', Spared, [Next]_vars PROVE Spared'
  OBVIOUS
<1>1. ASSUME UNCHANGED <<call, local, stolen>>, run' = run \/ run'.met = {} \/ run'.pc = "none"
      PROVE  Spared'
  <2>1. CASE run' = run
    BY <1>1, <2>1 DEF Spared, Spares, Minds, Stays, InUse
  <2>2. CASE run'.met = {} \/ run'.pc = "none"
    BY <2>2 DEF Spared, InUse
  <2> QED BY <1>1, <2>1, <2>2
<1>2. CASE UNCHANGED vars
  BY <1>1, <1>2 DEF vars
<1>3. CASE Run
  <2>1. UNCHANGED <<call, local, stolen>>
    BY <1>3 DEF Run, Bind, Activate, Invoke, EndRun, LocalUnchanged
  <2> QED BY <1>1, <1>3, <2>1, RunInv
<1>4. ASSUME NEW c \in Clients, Local(c) PROVE Spared'
  BY <1>4, LocalBeginSpares, LocalSpares DEF Local
<1>5. ASSUME NEW c \in Clients, Crash(c) PROVE Spared'
  <2> DEFINE my == [pc |-> "dead"]
  <2>1. my.pc \in Quiet
    BY DEF Quiet
  <2>2. Goto(c, my) /\ UNCHANGED <<local, run, stolen>>
    BY <1>5 DEF Crash, LocalUnchanged
  <2> HIDE DEF my
  <2> QED BY <2>1, <2>2, QuietStep
<1> QED BY <1>2, <1>3, <1>4, <1>5, RemoteSpares, LockingSpares, SyncSpares DEF Next

LEMMA AlwaysSpared == Spec => []Spared
<1>1. Init => Spared
  BY DEF Init, NoRun, Spared, InUse
<1> QED BY <1>1, NextSpares, Inductive, PTL DEF Spec

\* The version an active run pinned is removed, revoked or withdrawn only by who
\* decided it before the row of the run was there, whatever other operators and
\* synchronisations do in between and wherever processes die, while no living
\* process loses the lock of the registry.
THEOREM UsedVersionsAreSpared == Spec => UsedVersionsStay
<1>1. ASSUME IInv, Spared, [Next]_vars, NEW c \in Clients, NEW r \in Refs,
             TakesAway(c, r), InUse(r), c \in run.met
      PROVE  FALSE
  <2>1. call[c].pc = "write" /\ "registry" \notin stolen
    BY <1>1 DEF TakesAway
  <2>2. Minds(call[c], r) /\ Stays(local[r], call[c].doc[r])
    BY <1>1, <2>1 DEF Spared, Spares
  <2>3. local' = local \/ local' = call[c].doc
    <3>1. ASSUME NEW d \in Clients, WriteRegistry(d) PROVE local' = call[c].doc
      BY <1>1, <2>1, <3>1, OneWriter DEF WriteRegistry
    <3> QED BY <1>1, <3>1, WhoWrites
  <2>4. ~(local[r].dig # NoDigest /\ local'[r].dig = NoDigest)
    BY <2>2, <2>3 DEF Stays
  <2>5. ~(~local[r].revoked /\ local'[r].revoked)
    BY <2>2, <2>3 DEF Stays
  <2>6. Withdraws(c, r)
    BY <1>1, <2>4, <2>5 DEF TakesAway
  <2>7. call[c].acts[r] \in {"disable", "revoke"}
    BY <1>1, <2>6, SyncWrites DEF Withdraws
  <2>8. call[c] \in Replacing
    BY <1>1, <2>1, <2>6, CallIs DEF IInv, Withdraws, Synchronises, Writing, LocalOps
  <2> QED BY <2>2, <2>7, <2>8 DEF Minds
<1>2. IInv /\ Spared /\ [Next]_vars =>
        [\A c \in Clients : \A r \in Refs : TakesAway(c, r) /\ InUse(r) => c \notin run.met]_vars
  BY <1>1
<1> QED BY <1>2, Inductive, AlwaysSpared, PTL DEF Spec, UsedVersionsStay
=============================================================================
