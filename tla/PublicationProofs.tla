------------------------- MODULE PublicationProofs -------------------------
(***************************************************************************)
(* What the two journals of a publication say, what publishing may do to   *)
(* the original, what a discard and a published row promise, and that      *)
(* takeovers alone lead to no conflict, proved for every number of         *)
(* publishers, every tree of paths and every plan.                         *)
(***************************************************************************)
EXTENDS ShadowPublication, FiniteSetTheorems, WellFoundedInduction, TLAPS

-----------------------------------------------------------------------------
(* The inductive invariant *)

\* From the lock to the last step, a publisher is the holder of the lock.
LockedPcs == {"plan", "mark", "scan", "reconcile", "announce", "preflight", "present",
              "settled", "resume", "apply", "started", "effect", "staged", "effected",
              "completed", "finish", "applied", "verified", "published", "conflict"}
LockIsHeld == \A c \in Publishers : call[c].pc \in LockedPcs => lock = c

\* A publisher that took up an old document is behind the row.
Behind == shadow.astray /\ row.next > journal.count

\* The intent of the active operation is in the row, unless the row is further.
IntentIsShown ==
    \/ row.status = "published" \/ Behind
    \/ row.inflight = journal.count /\ row.next = journal.count

\* A publisher that may act or complete has announced it; one that completed has
\* no operation left.
Announced(c) ==
    /\ call[c].pc \in {"effect", "staged", "effected", "present"} => IntentIsShown
    /\ call[c].pc \in {"preflight", "resume"} /\ journal.active # NoOp => IntentIsShown
    /\ call[c].pc = "announce" =>
          row.status = "published" \/ Behind \/ row.next = journal.count
    /\ call[c].pc \in {"completed", "settled", "applied"} => journal.active = NoOp
    /\ call[c].pc \in {"started", "effect", "staged", "effected", "present"} =>
          journal.active # NoOp

Marked == \E p \in Paths : author[p] = "baldr"
EffectsAreKnown ==
    Marked => row.status = "published" \/ row.inflight # -1 \/ row.next > 0

\* A document a discard has read or written is of no operation under way, and
\* not further than the row was.
Unsafe == {"preflight-complete", "applying"}
Lags(n) ==
    row.status # "published" => n <= row.next + 1 /\ (n > row.next => row.inflight = row.next)
Spent(doc) == doc.active = NoOp /\ doc.moved = {} /\ doc.pub \notin Unsafe /\ Lags(doc.count)
Tidy ==
    /\ journal.active = NoOp => journal.moved = {}
    /\ journal.pub \notin Unsafe => journal.active = NoOp
DocumentsAreSpent ==
    /\ Tidy
    /\ Spent(shadow.doc) /\ shadow.doc.status # "conflicted"
    /\ \A c \in Publishers : Spent(shadow.seen[c])

\* While a discard has the lease, nothing can be announced.
DiscardPcs == {"discard", "discarding", "marking", "removing"}
Reserved(c) ==
    call[c].pc \in DiscardPcs /\ owner = c =>
        row.status # "published" /\ row.inflight = -1 /\ row.next = 0

JournalInv ==
    /\ JournalsAgree /\ EffectsAreKnown /\ DocumentsAreSpent
    /\ \A c \in Publishers : Announced(c) /\ Reserved(c)

\* Only a directory is put back outside of the delta.
OpIsSound ==
    journal.active # NoOp => InDelta(journal.active.path) \/ journal.active.action = "mkdir"

\* What the preflight found at the paths of the delta.
PlannedPcs == {"resume", "apply", "started", "effect", "staged", "effected", "completed"}
Planned(c) ==
    call[c].pc \in PlannedPcs =>
        \A p \in Paths : InDelta(p) => call[c].cur[p] \in {plan.base[p], plan.goal[p], Absent}

\* Between the guard and the effect: what was checked holds unless the person
\* came in between.
ActingPcs == {"started", "effect", "staged"}
Guarded(c) ==
    call[c].pc \in ActingPcs =>
        /\ journal.active \in Operations(call[c].cur) \cap call[c].done
        /\ journal.pub = "applying"
        /\ call[c].pc = "staged" => journal.active.action = "replace"
        /\ "entry" \notin journal.moved =>
              /\ Needed(c, journal.active) /\ AsExpected(c, journal.active)
              /\ journal.active.action = "chmod" => orig[journal.active.path].kind # "file"

GuardInv == OpIsSound /\ \A c \in Publishers : Planned(c) /\ Guarded(c)

\* The effect of the active operation, when Baldr is the last who changed its path.
ActiveIsThere ==
    LET o == journal.active IN
    CASE o.action = "remove" -> orig[o.path] = Absent
      [] o.action = "mkdir"  -> IsDir(orig[o.path])
      [] OTHER               -> orig[o.path] = plan.goal[o.path]

\* Baldr's traces are those of operations in the journal, and the journal says
\* of itself that it has begun.
TracesAreJournaled ==
    \A p \in Paths : author[p] = "baldr" /\ ~shadow.astray =>
        /\ journal.pub \in {"preflight-complete", "applying", "published"}
        /\ journal.count = 0 =>
              journal.active # NoOp /\ p = journal.active.path /\ ActiveIsThere

\* A publisher past the resumption works on an operation that had no effect yet.
HeirPcs == {"apply", "started", "effect", "staged", "finish", "applied", "verified"}
Inherits(c) ==
    /\ call[c].pc \in HeirPcs =>
          (journal.count = 0 /\ journal.active # NoOp /\ ~shadow.astray =>
              author[journal.active.path] # "baldr")

TraceInv == TracesAreJournaled /\ \A c \in Publishers : Inherits(c)

\* The operation that leaves a path of the delta as the plan wants it.
FinalOp(p) ==
    [action |-> IF IsDir(plan.goal[p]) THEN "chmod"
                ELSE IF plan.goal[p].kind = "file" THEN "replace" ELSE "remove",
     path |-> p]
NothingToDo(c, p) == plan.goal[p] = Absent /\ call[c].cur[p] = Absent
Reached(c, p) == NothingToDo(c, p) \/ FinalOp(p) \in call[c].done

OursAndInDelta(p) == InDelta(p) /\ author[p] # "person"

EarlyPcs == {"new", "lock", "plan", "mark", "scan", "reconcile", "announce",
             "preflight", "present", "resume"}
ScannedPcs == {"reconcile", "announce", "preflight", "present", "settled"}

\* How far a publisher is with every path that the person left alone.
Progress(c) ==
    /\ call[c].pc \in EarlyPcs => call[c].done = {}
    /\ call[c].pc \in ScannedPcs =>
          \A p \in Paths : OursAndInDelta(p) => orig[p] = call[c].cur[p]
    /\ call[c].pc \in {"present", "settled"} => call[c].cur = Merged(call[c].cur)
    /\ call[c].pc \in PlannedPcs =>
          \A p \in Paths : OursAndInDelta(p) /\ Reached(c, p) =>
             (call[c].pc \in ActingPcs /\ p = journal.active.path) \/ orig[p] = plan.goal[p]
    /\ call[c].pc \in PlannedPcs =>
          \A p \in Paths : FinalOp(p) \in call[c].done =>
             \A o \in Operations(call[c].cur) : o.path = p /\ InDelta(p) => o \in call[c].done
    /\ call[c].pc \in ActingPcs =>
          (FinalOp(journal.active.path) \in call[c].done /\ InDelta(journal.active.path)
             => journal.active = FinalOp(journal.active.path))
    /\ call[c].pc \in {"finish", "applied", "verified", "published"} =>
          \A p \in Paths : OursAndInDelta(p) => orig[p] = plan.goal[p]

ProgressInv == \A c \in Publishers : Progress(c)


-----------------------------------------------------------------------------
(* Types *)

JournalRecord == [status : Status,
                  pub : {"none", "preflight-complete", "applying", "conflicted", "published"},
                  count : Nat, active : Operation \cup {NoOp},
                  moved : SUBSET {"entry", "parents"}]
ShadowRecord == [is : {"current", "discarded", "removed"}, doc : Document,
                 seen : [Publishers -> Document], astray : BOOLEAN]
PublicationRow == [status : {"none", "planned", "applying", "conflicted", "published"},
                   next : Nat, inflight : Nat \cup {-1}]
CallState == [pc : Pcs, cur : Manifest, done : SUBSET Operation]

LEMMA EntryTypes ==
    /\ Absent \in Entry /\ Absent.kind = "none"
    /\ \A d \in {"old", "new", "user", "default", "private"} :
          /\ File(d) \in Entry /\ File(d).kind = "file"
          /\ Directory(d) \in Entry /\ IsDir(Directory(d))
    /\ \A e \in Entry : e.kind \in {"none", "file", "directory"}
    /\ \A e \in Entry : e.kind = "none" <=> e = Absent
  BY DEF Entry, Absent, File, Directory, IsDir

LEMMA PlanTypes ==
    ASSUME plan \in Plans
    PROVE  /\ plan.base \in Manifest /\ plan.goal \in Manifest
           /\ \A p \in Paths : plan.base[p] \in Entry /\ plan.goal[p] \in Entry
           /\ \A p \in Paths : InDelta(p) => p \notin plan.hidden
           /\ \A p \in Paths : plan.base[p] # File("user") /\ plan.goal[p] # File("user")
<1>1. plan \in [base : Manifest, goal : Manifest, hidden : SUBSET Paths]
  BY PlansAssumption
<1>2. plan.base \in Manifest /\ plan.goal \in Manifest
  BY <1>1
<1>3. \A p \in Paths : plan.base[p] \in Entry /\ plan.goal[p] \in Entry
  BY <1>2 DEF Manifest
<1>4. \A p \in Paths : p \in plan.hidden => plan.base[p] = Absent /\ plan.goal[p] = Absent
  BY PlansAssumption
<1>5. \A p \in Paths : InDelta(p) => p \notin plan.hidden
  BY <1>4 DEF InDelta
<1>6. \A p \in Paths : plan.base[p] # File("user") /\ plan.goal[p] # File("user")
  BY PlansAssumption
<1>7. QED
  BY <1>2, <1>3, <1>5, <1>6

LEMMA ManifestTypes ==
    ASSUME plan \in Plans, NEW m \in Manifest
    PROVE  /\ \A p \in Paths : m[p] \in Entry
           /\ Scan(m) \in Manifest /\ Merged(m) \in Manifest
           /\ \A p \in Paths : p \notin plan.hidden => Scan(m)[p] = m[p]
           /\ \A p \in Paths : Merged(m)[p] = IF InDelta(p) THEN plan.goal[p] ELSE m[p]
           /\ Operations(m) \subseteq Operation
<1>1. \A p \in Paths : m[p] \in Entry
  BY DEF Manifest
<1>2. Scan(m) \in Manifest
  BY <1>1, EntryTypes DEF Scan, Manifest
<1>3. Merged(m) \in Manifest
  BY <1>1, PlanTypes DEF Merged, Manifest
<1>4. \A p \in Paths : p \notin plan.hidden => Scan(m)[p] = m[p]
  BY DEF Scan
<1>5. \A p \in Paths : Merged(m)[p] = IF InDelta(p) THEN plan.goal[p] ELSE m[p]
  BY DEF Merged
<1>6. \A S : S \subseteq Paths => Op("remove", S) \subseteq Operation /\ Op("mkdir", S) \subseteq Operation
                 /\ Op("replace", S) \subseteq Operation /\ Op("chmod", S) \subseteq Operation
  BY DEF Op, Operation, Action
<1>7. Operations(m) \subseteq Operation
  <2> DEFINE R == {p \in Paths : m[p] # Absent /\ Merged(m)[p].kind # m[p].kind}
             E == {p \in Paths : IsDir(Merged(m)[p])}
             F == {p \in Paths : Merged(m)[p].kind = "file"}
  <2>1. Operations(m) = Op("remove", R) \cup Op("mkdir", E) \cup Op("replace", F) \cup Op("chmod", E)
    BY DEF Operations
  <2>2. R \subseteq Paths /\ E \subseteq Paths /\ F \subseteq Paths
    OBVIOUS
  <2> HIDE DEF R, E, F
  <2>3. QED
    BY <2>1, <2>2, <1>6
<1>8. QED
  BY <1>1, <1>2, <1>3, <1>4, <1>5, <1>7

\* What a step of one publisher leaves of the calls.
Others(c) == \A d \in Publishers : d # c => call'[d] = call[d]

LEMMA GotoCall ==
    ASSUME TypeOK, NEW c \in Publishers, NEW pc \in Pcs, Goto(c, pc)
    PROVE  /\ call' \in [Publishers -> CallState] /\ Others(c)
           /\ call'[c].pc = pc /\ call'[c].cur = call[c].cur /\ call'[c].done = call[c].done
<1>1. call \in [Publishers -> CallState]
  BY DEF TypeOK, CallState
<1>2. call[c] \in CallState
  BY <1>1
<1>3. \A x \in CallState : /\ [x EXCEPT !.pc = pc] \in CallState
                           /\ [x EXCEPT !.pc = pc].pc = pc
                           /\ [x EXCEPT !.pc = pc].cur = x.cur
                           /\ [x EXCEPT !.pc = pc].done = x.done
  BY DEF CallState
<1>4. call' = [call EXCEPT ![c] = [call[c] EXCEPT !.pc = pc]]
  BY DEF Goto
<1> DEFINE x == [call[c] EXCEPT !.pc = pc]
<1>5. /\ x \in CallState /\ x.pc = pc /\ x.cur = call[c].cur /\ x.done = call[c].done
  BY <1>2, <1>3
<1> HIDE DEF x
<1>6. call'[c] = x /\ Others(c) /\ call' \in [Publishers -> CallState]
  BY <1>1, <1>4, <1>5 DEF Others, x
<1>7. QED
  BY <1>5, <1>6

LEMMA LeaveCall ==
    ASSUME TypeOK, NEW c \in Publishers, Leave(c)
    PROVE  /\ call' \in [Publishers -> CallState] /\ Others(c)
           /\ call'[c].pc = "done" /\ call'[c].done = {}
           /\ lock' = (IF lock = c THEN Nobody ELSE lock)
<1>1. call \in [Publishers -> CallState]
  BY DEF TypeOK, CallState
<1> DEFINE x == [NewCall EXCEPT !.pc = "done"]
<1>2. Nothing \in Manifest
  BY EntryTypes DEF Nothing, Manifest
<1>3. x \in CallState /\ x.pc = "done" /\ x.done = {}
  BY <1>2 DEF NewCall, CallState, Pcs
<1>4. call' = [call EXCEPT ![c] = x] /\ lock' = (IF lock = c THEN Nobody ELSE lock)
  BY DEF Leave
<1> HIDE DEF x
<1>5. call'[c] = x /\ Others(c) /\ call' \in [Publishers -> CallState]
  BY <1>1, <1>3, <1>4 DEF Others
<1>6. QED
  BY <1>3, <1>4, <1>5

\* A publisher that scans, and one that is done with an operation.
LEMMA CallFields ==
    ASSUME TypeOK, NEW c \in Publishers, NEW pc \in Pcs
    PROVE  /\ call[c] \in CallState
           /\ \A m \in Manifest :
                 call' = [call EXCEPT ![c].pc = pc, ![c].cur = m] =>
                    /\ call' \in [Publishers -> CallState] /\ Others(c)
                    /\ call'[c].pc = pc /\ call'[c].cur = m /\ call'[c].done = call[c].done
           /\ \A o \in Operation :
                 /\ call' = [call EXCEPT ![c].pc = pc, ![c].done = @ \cup {o}] =>
                       /\ call' \in [Publishers -> CallState] /\ Others(c)
                       /\ call'[c].pc = pc /\ call'[c].cur = call[c].cur
                       /\ call'[c].done = call[c].done \cup {o}
                 /\ call' = [call EXCEPT ![c].done = @ \cup {o}] =>
                       /\ call' \in [Publishers -> CallState] /\ Others(c)
                       /\ call'[c].pc = call[c].pc /\ call'[c].cur = call[c].cur
                       /\ call'[c].done = call[c].done \cup {o}
<1>1. call \in [Publishers -> CallState] /\ call[c] \in CallState
  BY DEF TypeOK, CallState
<1>2. \A x \in CallState, m \in Manifest :
          /\ [x EXCEPT !.pc = pc, !.cur = m] \in CallState
          /\ [x EXCEPT !.pc = pc, !.cur = m].pc = pc
          /\ [x EXCEPT !.pc = pc, !.cur = m].cur = m
          /\ [x EXCEPT !.pc = pc, !.cur = m].done = x.done
  BY DEF CallState
<1>3. \A x \in CallState, o \in Operation :
          /\ [x EXCEPT !.pc = pc, !.done = @ \cup {o}] \in CallState
          /\ [x EXCEPT !.pc = pc, !.done = @ \cup {o}].pc = pc
          /\ [x EXCEPT !.pc = pc, !.done = @ \cup {o}].cur = x.cur
          /\ [x EXCEPT !.pc = pc, !.done = @ \cup {o}].done = x.done \cup {o}
  BY DEF CallState
<1>4. \A x \in CallState, o \in Operation :
          /\ [x EXCEPT !.done = @ \cup {o}] \in CallState
          /\ [x EXCEPT !.done = @ \cup {o}].pc = x.pc
          /\ [x EXCEPT !.done = @ \cup {o}].cur = x.cur
          /\ [x EXCEPT !.done = @ \cup {o}].done = x.done \cup {o}
  BY DEF CallState
<1>5. \A x \in CallState : call' = [call EXCEPT ![c] = x] =>
          call'[c] = x /\ Others(c) /\ call' \in [Publishers -> CallState]
  BY <1>1 DEF Others
<1>6. ASSUME NEW m \in Manifest, call' = [call EXCEPT ![c].pc = pc, ![c].cur = m]
      PROVE  /\ call' \in [Publishers -> CallState] /\ Others(c)
             /\ call'[c].pc = pc /\ call'[c].cur = m /\ call'[c].done = call[c].done
  <2> DEFINE x == [call[c] EXCEPT !.pc = pc, !.cur = m]
  <2>1. x \in CallState /\ x.pc = pc /\ x.cur = m /\ x.done = call[c].done
    BY <1>1, <1>2
  <2>2. call' = [call EXCEPT ![c] = x]
    BY <1>1, <1>6
  <2> HIDE DEF x
  <2>3. QED
    BY <1>5, <2>1, <2>2
<1>7. ASSUME NEW o \in Operation, call' = [call EXCEPT ![c].pc = pc, ![c].done = @ \cup {o}]
      PROVE  /\ call' \in [Publishers -> CallState] /\ Others(c)
             /\ call'[c].pc = pc /\ call'[c].cur = call[c].cur
             /\ call'[c].done = call[c].done \cup {o}
  <2> DEFINE x == [call[c] EXCEPT !.pc = pc, !.done = @ \cup {o}]
  <2>1. x \in CallState /\ x.pc = pc /\ x.cur = call[c].cur /\ x.done = call[c].done \cup {o}
    BY <1>1, <1>3
  <2>2. call' = [call EXCEPT ![c] = x]
    BY <1>1, <1>7
  <2> HIDE DEF x
  <2>3. QED
    BY <1>5, <2>1, <2>2
<1>8. ASSUME NEW o \in Operation, call' = [call EXCEPT ![c].done = @ \cup {o}]
      PROVE  /\ call' \in [Publishers -> CallState] /\ Others(c)
             /\ call'[c].pc = call[c].pc /\ call'[c].cur = call[c].cur
             /\ call'[c].done = call[c].done \cup {o}
  <2> DEFINE x == [call[c] EXCEPT !.done = @ \cup {o}]
  <2>1. x \in CallState /\ x.pc = call[c].pc /\ x.cur = call[c].cur
        /\ x.done = call[c].done \cup {o}
    BY <1>1, <1>4
  <2>2. call' = [call EXCEPT ![c] = x]
    BY <1>1, <1>8
  <2> HIDE DEF x
  <2>3. QED
    BY <1>5, <2>1, <2>2
<1>9. QED
  BY <1>1, <1>6, <1>7, <1>8

\* The fields of the journal after each way to write it.
JournalIs(s, p, n, o, m) ==
    /\ journal' \in JournalRecord
    /\ journal'.status = s /\ journal'.pub = p /\ journal'.count = n
    /\ journal'.active = o /\ journal'.moved = m

LEMMA JournalWrites ==
    ASSUME TypeOK, NEW s \in Status,
           NEW p \in {"none", "preflight-complete", "applying", "conflicted", "published"},
           NEW o \in Operation \cup {NoOp}, NEW m \in SUBSET {"entry", "parents"}
    PROVE  /\ journal \in JournalRecord
           /\ journal' = [journal EXCEPT !.status = s] =>
                 JournalIs(s, journal.pub, journal.count, journal.active, journal.moved)
           /\ journal' = [journal EXCEPT !.status = s, !.pub = p] =>
                 JournalIs(s, p, journal.count, journal.active, journal.moved)
           /\ journal' = [journal EXCEPT !.status = s, !.pub = p, !.active = o, !.moved = m] =>
                 JournalIs(s, p, journal.count, o, m)
           /\ journal' = [journal EXCEPT !.count = @ + 1, !.active = NoOp, !.moved = {}] =>
                 JournalIs(journal.status, journal.pub, journal.count + 1, NoOp, {})
           /\ journal' = [journal EXCEPT !.moved = m] =>
                 JournalIs(journal.status, journal.pub, journal.count, journal.active, m)
           /\ journal' = [journal EXCEPT !.status = s, !.active = NoOp, !.moved = {}, !.pub = p] =>
                 JournalIs(s, p, journal.count, NoOp, {})
<1>1. journal \in JournalRecord
  BY DEF TypeOK, JournalRecord, Document
<1> DEFINE Is(x, y, t, q, n, a, v) ==
             /\ y \in JournalRecord
             /\ y.status = t /\ y.pub = q /\ y.count = n /\ y.active = a /\ y.moved = v
<1>2. \A x \in JournalRecord : Is(x, [x EXCEPT !.status = s], s, x.pub, x.count, x.active, x.moved)
  BY DEF JournalRecord
<1>3. \A x \in JournalRecord :
         Is(x, [x EXCEPT !.status = s, !.pub = p], s, p, x.count, x.active, x.moved)
  BY DEF JournalRecord
<1>4. \A x \in JournalRecord :
         Is(x, [x EXCEPT !.status = s, !.pub = p, !.active = o, !.moved = m], s, p, x.count, o, m)
  BY DEF JournalRecord
<1>5. \A x \in JournalRecord :
         Is(x, [x EXCEPT !.count = @ + 1, !.active = NoOp, !.moved = {}],
            x.status, x.pub, x.count + 1, NoOp, {})
  <2>1. \A x \in JournalRecord : \A k \in Nat : \A v \in SUBSET {"entry", "parents"} :
           Is(x, [x EXCEPT !.count = k, !.active = NoOp, !.moved = v],
              x.status, x.pub, k, NoOp, v)
    BY DEF JournalRecord
  <2>2. TAKE x \in JournalRecord
  <2>3. x.count + 1 \in Nat /\ {} \in SUBSET {"entry", "parents"}
    BY DEF JournalRecord
  <2> HIDE DEF Is
  <2>4. Is(x, [x EXCEPT !.count = x.count + 1, !.active = NoOp, !.moved = {}],
           x.status, x.pub, x.count + 1, NoOp, {})
    BY <2>1, <2>3
  <2>5. QED
    BY <2>4
<1>6. \A x \in JournalRecord : Is(x, [x EXCEPT !.moved = m], x.status, x.pub, x.count, x.active, m)
  BY DEF JournalRecord
<1>7. \A x \in JournalRecord :
         Is(x, [x EXCEPT !.status = s, !.active = NoOp, !.moved = {}, !.pub = p],
            s, p, x.count, NoOp, {})
  BY DEF JournalRecord
<1>8. \A y, t, q, n, a, v : journal' = y /\ Is(journal, y, t, q, n, a, v) => JournalIs(t, q, n, a, v)
  BY DEF JournalIs
<1> HIDE DEF Is
<1>9. QED
  BY <1>1, <1>2, <1>3, <1>4, <1>5, <1>6, <1>7, <1>8

\* ... and those of a document that is written over it.
LEMMA DocumentWrites ==
    ASSUME NEW doc \in Document, NEW s \in Status,
           NEW p \in {"none", "preflight-complete", "applying", "conflicted", "published"}
    PROVE  /\ journal' = doc => JournalIs(doc.status, doc.pub, doc.count, doc.active, doc.moved)
           /\ journal' = [doc EXCEPT !.status = s, !.pub = p] =>
                 JournalIs(s, p, doc.count, doc.active, doc.moved)
           /\ journal' = [doc EXCEPT !.status = s, !.active = NoOp, !.moved = {}, !.pub = p] =>
                 JournalIs(s, p, doc.count, NoOp, {})
<1> DEFINE Is(y, t, q, n, a, v) ==
             /\ y \in JournalRecord
             /\ y.status = t /\ y.pub = q /\ y.count = n /\ y.active = a /\ y.moved = v
<1>1. Is(doc, doc.status, doc.pub, doc.count, doc.active, doc.moved)
  BY DEF Document, JournalRecord
<1>2. Is([doc EXCEPT !.status = s, !.pub = p], s, p, doc.count, doc.active, doc.moved)
  BY DEF Document, JournalRecord
<1>3. \A v \in SUBSET {"entry", "parents"} :
         Is([doc EXCEPT !.status = s, !.active = NoOp, !.moved = v, !.pub = p],
            s, p, doc.count, NoOp, v)
  BY DEF Document, JournalRecord
<1>4. \A y, t, q, n, a, v : journal' = y /\ Is(y, t, q, n, a, v) => JournalIs(t, q, n, a, v)
  BY DEF JournalIs
<1> HIDE DEF Is
<1>5. QED
  BY <1>1, <1>2, <1>3, <1>4

\* The fields of the row after each way to write it.
RowIs(s, n, i) ==
    row' \in PublicationRow /\ row'.status = s /\ row'.next = n /\ row'.inflight = i

LEMMA RowWrites ==
    ASSUME TypeOK, NEW s \in {"none", "planned", "applying", "conflicted", "published"},
           NEW n \in Nat
    PROVE  /\ row \in PublicationRow
           /\ row' = [row EXCEPT !.status = s] => RowIs(s, row.next, row.inflight)
           /\ Advance(n) =>
                 \/ row.status = "published" /\ row' = row
                 \/ /\ row.status # "published"
                    /\ RowIs("applying", IF n > row.next THEN n ELSE row.next,
                             IF n > row.inflight THEN -1 ELSE row.inflight)
           /\ Announce(n) =>
                 \/ (row.status = "published" \/ row.next > n) /\ row' = row
                 \/ /\ row.status # "published" /\ ~(row.next > n)
                    /\ RowIs("applying", row.next, n)
<1>1. row \in PublicationRow
  BY DEF TypeOK, PublicationRow
<1> DEFINE Is(y, t, m, i) ==
             y \in PublicationRow /\ y.status = t /\ y.next = m /\ y.inflight = i
<1>2. \A x \in PublicationRow : Is([x EXCEPT !.status = s], s, x.next, x.inflight)
  BY DEF PublicationRow
<1>3. \A x \in PublicationRow :
         Is([x EXCEPT !.next = IF n > @ THEN n ELSE @, !.status = "applying",
                      !.inflight = IF n > @ THEN -1 ELSE @],
            "applying", IF n > x.next THEN n ELSE x.next, IF n > x.inflight THEN -1 ELSE x.inflight)
  BY DEF PublicationRow
<1>4. \A x \in PublicationRow :
         Is([x EXCEPT !.inflight = n, !.status = "applying"], "applying", x.next, n)
  BY DEF PublicationRow
<1>5. \A y, t, m, i : row' = y /\ Is(y, t, m, i) => RowIs(t, m, i)
  BY DEF RowIs
<1> HIDE DEF Is
<1>6. row' = [row EXCEPT !.status = s] => RowIs(s, row.next, row.inflight)
  BY <1>1, <1>2, <1>5
<1>7. QED
  BY <1>1, <1>3, <1>4, <1>5, <1>6 DEF Advance, Announce

-----------------------------------------------------------------------------
(* What a step does to the parts of the state.                              *)

DiskSame == orig' = orig /\ author' = author
JournalSame ==
    JournalIs(journal'.status, journal.pub, journal.count, journal.active, journal.moved)
RowSame ==
    /\ row' \in PublicationRow /\ row'.next = row.next /\ row'.inflight = row.inflight
    /\ row.status = "published" => row'.status = "published"

\* What a document says but for its status; and the documents a step may leave
\* with the discards: those that were there, and what one of them may read.
SameData(d, e) ==
    d.pub = e.pub /\ d.count = e.count /\ d.active = e.active /\ d.moved = e.moved
Readable(d) ==
    \/ SameData(d, NewJournal) \/ SameData(d, shadow.doc)
    \/ \E c \in Publishers : SameData(d, shadow.seen[c])
    \/ ~DiscardIsUnsafe(journal) /\ SameData(d, journal)
ShadowKept ==
    /\ shadow' \in ShadowRecord /\ (shadow.astray => shadow'.astray)
    /\ Readable(shadow'.doc) /\ \A c \in Publishers : Readable(shadow'.seen[c])
    /\ shadow'.doc.status \in {shadow.doc.status, "checkpointed", "discarded"}

Framed ==
    /\ plan' = plan /\ owner' \in Publishers \cup {Nobody} /\ lock' \in Publishers \cup {Nobody}
    /\ ShadowKept /\ edits' \in 0..MaxEdits /\ crashes' \in 0..MaxCrashes

\* The calls after a step of c from one place to another.
Moves(c, from, to) ==
    /\ call' \in [Publishers -> CallState] /\ Others(c)
    /\ call[c].pc = from /\ call'[c].pc = to
    /\ call'[c].cur = call[c].cur /\ call'[c].done = call[c].done

\* A publisher leaves, the lock with it if it was its own.
Retires(c) ==
    /\ call' \in [Publishers -> CallState] /\ Others(c)
    /\ call'[c].pc = "done" /\ call'[c].done = {}
    /\ lock' = (IF lock = c THEN Nobody ELSE lock)
    /\ row'.status = "published" /\ row.status # "published" => call[c].pc = "published"

\* The steps of c that only look and decide, and where they lead.
Leads(c, to) ==
    LET from == call[c].pc IN
    \/ from = "new" /\ to = "lock" /\ lock' = lock
    \/ from = "new" /\ to = "discard" /\ lock' = lock
       /\ ~MayBeModified /\ row.status # "published" /\ row' = row
    \/ from = "lock" /\ to = "plan" /\ lock = Nobody /\ lock' = c
    \/ from = "plan" /\ to = "mark" /\ lock' = lock
    \/ from = "mark" /\ to = "scan" /\ lock' = lock
    \/ /\ <<from, to>> \in {<<"discard", "discarding">>, <<"discarding", "marking">>,
                            <<"marking", "removing">>}
       /\ lock' = lock /\ row' = row /\ owner' = owner
       /\ from = "discarding" => ~DiscardIsUnsafe(StateFile)
    \/ from \in LockedPcs /\ to = "conflict" /\ lock' = lock
    \/ from = "preflight" /\ to = "finish" /\ lock' = lock
       /\ journal.active = NoOp /\ call[c].cur = Merged(call[c].cur)
    \/ from = "preflight" /\ to = "present" /\ lock' = lock
       /\ journal.active # NoOp /\ call[c].cur = Merged(call[c].cur)
    \/ from = "resume" /\ to = "effected" /\ lock' = lock
       /\ journal.active # NoOp /\ EffectIsThere(c, journal.active)
    \/ from = "resume" /\ to = "apply" /\ lock' = lock
       /\ ~(journal.active # NoOp /\ EffectIsThere(c, journal.active))
    \/ from = "apply" /\ to = "verified" /\ lock' = lock /\ Remaining(c) = {}

Walks(c) ==
    \E to \in Pcs : /\ Moves(c, call[c].pc, to) /\ Leads(c, to)
                    /\ row'.status = "published" => row.status = "published"

Scans(c) ==
    /\ call' \in [Publishers -> CallState] /\ Others(c) /\ lock' = lock
    /\ call[c].pc = "scan" /\ call'[c].pc = "reconcile" /\ shadow.is # "removed"
    /\ call'[c].cur = Scan(orig) /\ call'[c].done = call[c].done
    /\ row'.status = "published" => row.status = "published"

Skips(c) ==
    \E o \in Remaining(c) :
       /\ IsNext(c, o) /\ ~Needed(c, o)
       /\ call' \in [Publishers -> CallState] /\ Others(c) /\ lock' = lock
       /\ call[c].pc = "apply" /\ call'[c].pc = "apply"
       /\ call'[c].cur = call[c].cur /\ call'[c].done = call[c].done \cup {o}
       /\ row'.status = "published" => row.status = "published"

\* Steps that leave the original, the journal and the cursor as they are.
Quiet(c) ==
    /\ Framed /\ edits' = edits /\ DiskSame /\ JournalSame /\ RowSame
    /\ Retires(c) \/ Walks(c) \/ Scans(c) \/ Skips(c)

LEMMA SameParts ==
    ASSUME TypeOK
    PROVE  /\ journal' = journal => JournalSame
           /\ \A s \in Status : journal' = [journal EXCEPT !.status = s] => JournalSame
           /\ row' = row => RowSame
           /\ \A s \in {"planned", "applying", "conflicted", "published"} :
                 row' = [row EXCEPT !.status = s] =>
                    /\ row'.status = s
                    /\ row.status # "published" \/ s = "published" => RowSame
           /\ shadow' = shadow => ShadowKept
           /\ UNCHANGED <<rest, lock, owner>> => Framed /\ edits' = edits /\ lock' = lock
<1>1. journal' = journal => JournalSame
  BY DEF TypeOK, JournalSame, JournalIs, JournalRecord, Document
<1>2. ASSUME NEW s \in Status, journal' = [journal EXCEPT !.status = s]
      PROVE  JournalSame
  <2>1. "none" \in {"none", "preflight-complete", "applying", "conflicted", "published"}
        /\ NoOp \in Operation \cup {NoOp} /\ {} \in SUBSET {"entry", "parents"}
    OBVIOUS
  <2>2. JournalIs(s, journal.pub, journal.count, journal.active, journal.moved)
    BY <1>2, <2>1, JournalWrites
  <2>3. QED
    BY <2>2 DEF JournalSame, JournalIs
<1>3. row' = row => RowSame
  BY DEF TypeOK, RowSame, PublicationRow
<1>4. ASSUME NEW s \in {"planned", "applying", "conflicted", "published"},
             row' = [row EXCEPT !.status = s]
      PROVE  /\ row'.status = s
             /\ row.status # "published" \/ s = "published" => RowSame
  <2>1. s \in {"none", "planned", "applying", "conflicted", "published"} /\ 0 \in Nat
    OBVIOUS
  <2>2. RowIs(s, row.next, row.inflight)
    BY <1>4, <2>1, RowWrites
  <2>3. QED
    BY <2>2 DEF RowIs, RowSame
<1>5. shadow' = shadow => ShadowKept
  BY DEF TypeOK, ShadowRecord, ShadowKept, Readable, SameData
<1>6. UNCHANGED <<rest, lock, owner>> => Framed /\ edits' = edits /\ lock' = lock
  BY <1>5 DEF TypeOK, Framed, rest
<1>7. QED
  BY <1>1, <1>2, <1>3, <1>4, <1>5, <1>6

\* Documents are journals; a document that is not older says what the journal says.
LEMMA DocumentTypes ==
    ASSUME TypeOK
    PROVE  /\ Document = JournalRecord /\ journal \in Document /\ NewJournal \in Document
           /\ StateFile \in Document /\ StateFile \in {shadow.doc, journal}
           /\ shadow \in ShadowRecord /\ shadow.doc \in Document
           /\ \A c \in Publishers : shadow.seen[c] \in Document
           /\ \A doc \in Document :
                 /\ [doc EXCEPT !.status = "discarded"] \in Document
                 /\ SameData([doc EXCEPT !.status = "discarded"], doc)
           /\ \A doc \in Document : ~IsOlder(doc) => SameData(doc, journal)
           /\ ~IsOlder(journal)
<1>1. Document = JournalRecord
  BY DEF Document, JournalRecord
<1>2. journal \in Document /\ shadow \in ShadowRecord
  BY DEF TypeOK, ShadowRecord
<1>3. NewJournal \in Document
  BY DEF NewJournal, Document, Status
<1>4. shadow.doc \in Document /\ \A c \in Publishers : shadow.seen[c] \in Document
  BY <1>2 DEF ShadowRecord
<1>5. \A doc \in Document, s \in Status :
         [doc EXCEPT !.status = s] \in Document /\ SameData([doc EXCEPT !.status = s], doc)
  BY DEF Document, SameData
<1>6. \A doc \in Document : ~IsOlder(doc) => SameData(doc, journal)
  <2> TAKE doc \in Document
  <2>1. journal.status \in Status
    BY <1>2 DEF Document
  <2>2. SameData([doc EXCEPT !.status = journal.status], doc)
    BY <1>5, <2>1
  <2>3. QED
    BY <2>2 DEF IsOlder, SameData
<1>7. ~IsOlder(journal)
  BY <1>2 DEF IsOlder, Document
<1>8. QED
  BY <1>1, <1>2, <1>3, <1>4, <1>5, <1>6, <1>7 DEF StateFile, Status

\* What a write of the state leaves with the discards.
LEMMA WriteKeeps ==
    ASSUME TypeOK, NEW doc, NEW stale \in BOOLEAN, Write(doc, stale)
    PROVE  /\ Framed /\ edits' = edits /\ lock' = lock /\ owner' = owner /\ plan' = plan
           /\ crashes' = crashes /\ journal' = doc
           /\ stale /\ shadow.is = "discarded" => shadow'.astray
<1>1. /\ plan' = plan /\ edits' = edits /\ lock' = lock /\ owner' = owner
      /\ crashes' = crashes /\ journal' = doc
      /\ shadow' = IF shadow.is = "discarded"
                   THEN [shadow EXCEPT !.is = "current", !.doc = NewJournal,
                                       !.astray = @ \/ stale]
                   ELSE shadow
  BY DEF Write
<1>2. ShadowKept /\ (stale /\ shadow.is = "discarded" => shadow'.astray)
  <2>1. CASE shadow.is = "discarded"
    <3> DEFINE b == shadow.astray \/ stale
    <3>1. b \in BOOLEAN
      BY DocumentTypes DEF ShadowRecord
    <3>2. shadow' = [shadow EXCEPT !.is = "current", !.doc = NewJournal, !.astray = b]
      BY <2>1, <1>1
    <3> HIDE DEF b
    <3>3. /\ shadow' \in ShadowRecord /\ shadow'.doc = NewJournal /\ shadow'.astray = b
          /\ shadow'.seen = shadow.seen
      BY <3>1, <3>2, DocumentTypes DEF ShadowRecord
    <3>4. /\ Readable(shadow'.doc) /\ shadow'.doc.status = "checkpointed"
          /\ \A c \in Publishers : Readable(shadow'.seen[c])
      BY <3>3 DEF Readable, SameData, NewJournal
    <3>5. QED
      BY <3>3, <3>4 DEF ShadowKept, b
  <2>2. CASE shadow.is # "discarded"
    BY <2>2, <1>1, SameParts
  <2>3. QED
    BY <2>1, <2>2
<1>3. QED
  BY <1>1, <1>2 DEF Framed, TypeOK

\* A publisher that leaves, with nothing but its own call changed.
LEMMA LeavesQuietly ==
    ASSUME TypeOK, NEW c \in Publishers, Leave(c), DiskSame, JournalSame, RowSame,
           plan' = plan, edits' = edits, owner' \in Publishers \cup {Nobody},
           ShadowKept, crashes' \in 0..MaxCrashes,
           row'.status = "published" /\ row.status # "published" => call[c].pc = "published"
    PROVE  Quiet(c)
<1>1. Retires(c)
  BY LeaveCall DEF Retires
<1>2. lock' \in Publishers \cup {Nobody}
  BY LeaveCall DEF TypeOK
<1>3. Framed
  BY <1>2 DEF Framed, TypeOK
<1>4. QED
  BY <1>1, <1>3 DEF Quiet

\* A publisher that goes on, with nothing but its own call changed.
LEMMA WalksQuietly ==
    ASSUME TypeOK, NEW c \in Publishers, NEW to \in Pcs, Goto(c, to), Leads(c, to),
           DiskSame, JournalSame, RowSame, Framed, edits' = edits,
           row'.status = "published" => row.status = "published"
    PROVE  Quiet(c)
<1>1. Moves(c, call[c].pc, to)
  BY GotoCall DEF Moves
<1>2. Walks(c)
  BY <1>1 DEF Walks
<1>3. QED
  BY <1>2 DEF Quiet

\* What a discard, or one that dies, leaves with the discards.
LEMMA DiscardKeeps ==
    ASSUME TypeOK, NEW c \in Publishers,
           ReadDiscard(c) \/ MarkDiscarded(c) \/ RemoveShadow(c) \/ Crash(c)
    PROVE  ShadowKept
<1> DEFINE Shadow(i, d, f) == [is |-> i, doc |-> d, seen |-> f, astray |-> shadow.astray]
           At(d) == [shadow.seen EXCEPT ![c] = d]
<1>t. /\ shadow \in ShadowRecord /\ shadow.doc \in Document
      /\ NewJournal \in Document /\ shadow.seen \in [Publishers -> Document]
      /\ shadow.is \in {"current", "discarded", "removed"} /\ shadow.astray \in BOOLEAN
  BY DocumentTypes DEF ShadowRecord
<1>1. ASSUME NEW i \in {"current", "discarded", "removed"}, NEW d \in Document, Readable(d),
             NEW e \in Document, Readable(e), shadow' = Shadow(i, d, At(e)),
             d.status \in {shadow.doc.status, "checkpointed", "discarded"}
      PROVE  ShadowKept
  <2>1. /\ shadow' \in ShadowRecord /\ shadow'.doc = d /\ shadow'.astray = shadow.astray
        /\ shadow'.seen = At(e)
    BY <1>1, <1>t DEF ShadowRecord
  <2>2. \A b \in Publishers : shadow'.seen[b] \in {shadow.seen[b], e}
    BY <2>1, <1>t
  <2>3. \A b \in Publishers : Readable(shadow.seen[b])
    BY DEF Readable, SameData
  <2>4. QED
    BY <2>1, <2>2, <2>3, <1>1 DEF ShadowKept
<1>2. /\ Readable(NewJournal) /\ Readable(shadow.doc) /\ NewJournal.status = "checkpointed"
      /\ \A b \in Publishers : Readable(shadow.seen[b])
  BY DEF Readable, SameData, NewJournal
<1>3. CASE ReadDiscard(c)
  <2>1. /\ ~DiscardIsUnsafe(StateFile)
        /\ shadow' = [shadow EXCEPT !.seen[c] = StateFile]
    BY <1>3 DEF ReadDiscard
  <2>2. StateFile \in Document /\ Readable(StateFile)
    BY <2>1, <1>2, DocumentTypes DEF Readable, SameData
  <2> HIDE DEF At
  <2>3. shadow' = Shadow(shadow.is, shadow.doc, At(StateFile))
    BY <2>1, <1>t DEF ShadowRecord, At
  <2> HIDE DEF Shadow
  <2>4. QED
    BY <2>2, <2>3, <1>1, <1>2, <1>t
<1>4. CASE MarkDiscarded(c)
  <2> DEFINE d == [shadow.seen[c] EXCEPT !.status = "discarded"]
  <2>1. /\ d \in Document /\ SameData(d, shadow.seen[c]) /\ d.status = "discarded"
    BY DocumentTypes DEF Document
  <2>2. Readable(d)
    BY <2>1 DEF Readable
  <2>3. \/ shadow' = [shadow EXCEPT !.seen[c] = NewJournal]
        \/ shadow' = [[shadow EXCEPT !.seen[c] = NewJournal] EXCEPT !.is = "discarded", !.doc = d]
    BY <1>4 DEF MarkDiscarded
  <2> HIDE DEF At, d
  <2>4. \/ shadow' = Shadow(shadow.is, shadow.doc, At(NewJournal))
        \/ shadow' = Shadow("discarded", d, At(NewJournal))
    BY <2>3, <1>t DEF ShadowRecord, At
  <2> HIDE DEF Shadow
  <2>5. QED
    BY <2>1, <2>2, <2>4, <1>1, <1>2, <1>t
<1>5. CASE RemoveShadow(c)
  <2>1. shadow' = [shadow EXCEPT !.is = "removed", !.doc = NewJournal]
    BY <1>5 DEF RemoveShadow
  <2>2. At(shadow.seen[c]) = shadow.seen
    BY <1>t
  <2> HIDE DEF At
  <2>3. shadow' = Shadow("removed", NewJournal, At(shadow.seen[c]))
    BY <2>1, <2>2, <1>t DEF ShadowRecord
  <2>4. shadow.seen[c] \in Document
    BY <1>t
  <2> HIDE DEF Shadow
  <2>5. QED
    BY <2>3, <2>4, <1>1, <1>2, <1>t
<1>6. CASE Crash(c)
  <2>1. shadow' = [shadow EXCEPT !.seen[c] = NewJournal]
    BY <1>6 DEF Crash
  <2> HIDE DEF At
  <2>2. shadow' = Shadow(shadow.is, shadow.doc, At(NewJournal))
    BY <2>1, <1>t DEF ShadowRecord, At
  <2> HIDE DEF Shadow
  <2>3. QED
    BY <2>2, <1>1, <1>2, <1>t
<1>7. QED
  BY <1>3, <1>4, <1>5, <1>6

QuietScan(c) == ScanOriginal(c) /\ ~IsOlder(StateFile)
QuietPreflight(c) == Preflight(c) /\ call[c].cur = Merged(call[c].cur)

QuietSteps(c) ==
    \/ Begin(c) \/ Lock(c) \/ LockTimesOut(c) \/ CreatePublication(c) \/ MarkApplying(c)
    \/ QuietScan(c) \/ ShadowIsGone(c) \/ QuietPreflight(c) \/ Conflict(c)
    \/ ResumeActive(c) \/ RmdirFails(c) \/ Verify(c) \/ MarkPublished(c)
    \/ MarkConflicted(c) \/ Rejected(c) \/ BeginDiscard(c) \/ CheckDiscard(c)
    \/ ReadDiscard(c) \/ RefuseDiscard(c) \/ MarkDiscarded(c) \/ RemoveShadow(c) \/ Crash(c)
    \/ \E o \in Remaining(c) :
          SkipOperation(c, o) \/ BlockOperation(c, o) \/ JournalMismatch(c, o)

LEMMA QuietStep ==
    ASSUME TypeOK, NEW c \in Publishers, QuietSteps(c)
    PROVE  Quiet(c)
<1> USE SameParts
<1>p. {"lock", "plan", "mark", "scan", "reconcile", "finish", "present", "conflict", "effected",
       "apply", "verified", "discard", "discarding", "marking", "removing"} \subseteq Pcs
  BY DEF Pcs
<1>t. /\ lock \in Publishers \cup {Nobody} /\ owner \in Publishers \cup {Nobody}
      /\ edits \in 0..MaxEdits /\ crashes \in 0..MaxCrashes
  BY DEF TypeOK
<1>1. CASE Begin(c)
  <2>1. /\ DiskSame /\ JournalSame /\ RowSame /\ Framed /\ edits' = edits /\ row' = row
        /\ Goto(c, "lock") /\ Leads(c, "lock")
    BY <1>1, <1>t DEF Begin, DiskSame, Framed, Leads, disk, rest
  <2>2. QED
    BY <2>1, <1>p, WalksQuietly
<1>2. CASE Lock(c)
  <2>1. /\ DiskSame /\ JournalSame /\ RowSame /\ Framed /\ edits' = edits /\ row' = row
        /\ Goto(c, "plan") /\ Leads(c, "plan")
    BY <1>2, <1>t DEF Lock, DiskSame, Framed, Leads, disk, rest
  <2>2. QED
    BY <2>1, <1>p, WalksQuietly
<1>3. CASE LockTimesOut(c)
  <2>1. /\ DiskSame /\ JournalSame /\ RowSame /\ row' = row /\ Leave(c)
        /\ plan' = plan /\ edits' = edits /\ owner' = owner /\ shadow' = shadow /\ crashes' = crashes
    BY <1>3 DEF LockTimesOut, DiskSame, disk, rest
  <2>2. QED
    BY <2>1, <1>t, LeavesQuietly
<1>4. CASE CreatePublication(c)
  <2>1. /\ DiskSame /\ JournalSame /\ Framed /\ edits' = edits
        /\ Goto(c, "mark") /\ Leads(c, "mark")
    BY <1>4, <1>t DEF CreatePublication, Stay, DiskSame, Framed, Leads, disk, rest
  <2>2. RowSame /\ (row'.status = "published" => row.status = "published")
    BY <1>4 DEF CreatePublication
  <2>3. QED
    BY <2>1, <2>2, <1>p, WalksQuietly
<1>5. CASE MarkApplying(c)
  <2>1. /\ DiskSame /\ JournalSame /\ Framed /\ edits' = edits
        /\ Goto(c, "scan") /\ Leads(c, "scan")
    BY <1>5, <1>t DEF MarkApplying, Stay, DiskSame, Framed, Leads, disk, rest
  <2>2. RowSame /\ (row'.status = "published" => row.status = "published")
    BY <1>5 DEF MarkApplying
  <2>3. QED
    BY <2>1, <2>2, <1>p, WalksQuietly
<1>6. CASE QuietScan(c)
  <2>0. SameData(StateFile, journal) /\ StateFile \in Document
    BY <1>6, DocumentTypes DEF QuietScan
  <2>1. /\ DiskSame /\ RowSame /\ plan' = plan /\ owner' = owner
        /\ crashes' = crashes /\ edits' = edits /\ row' = row
        /\ lock' = lock /\ call[c].pc = "scan" /\ journal' = StateFile /\ shadow.is # "removed"
        /\ shadow' = [shadow EXCEPT !.astray = @ \/ IsOlder(StateFile)]
        /\ call' = [call EXCEPT ![c].pc = "reconcile", ![c].cur = Scan(orig)]
    BY <1>6 DEF QuietScan, ScanOriginal, DiskSame, disk
  <2>j. JournalSame
    BY <2>0, <2>1, DocumentTypes DEF JournalSame, JournalIs, SameData
  <2>s. shadow' = shadow
    <3>1. shadow' = [shadow EXCEPT !.astray = shadow.astray]
      BY <1>6, <2>1, DocumentTypes DEF QuietScan, ShadowRecord
    <3>2. QED
      BY <3>1, DocumentTypes DEF ShadowRecord
  <2>f. Framed
    BY <2>1, <2>s, <1>t DEF Framed
  <2>2. Scan(orig) \in Manifest
    BY ManifestTypes DEF TypeOK
  <2>3. /\ call' \in [Publishers -> CallState] /\ Others(c)
        /\ call'[c].pc = "reconcile" /\ call'[c].cur = Scan(orig)
        /\ call'[c].done = call[c].done
    <3>1. "reconcile" \in Pcs
      BY <1>p
    <3>2. QED
      BY <2>1, <2>2, <3>1, CallFields
  <2>4. Scans(c)
    BY <2>1, <2>3 DEF Scans
  <2>5. QED
    BY <2>1, <2>4, <2>j, <2>f DEF Quiet
<1>7. CASE ShadowIsGone(c)
  <2>1. /\ DiskSame /\ JournalSame /\ RowSame /\ row' = row /\ Leave(c)
        /\ plan' = plan /\ edits' = edits /\ owner' = owner /\ shadow' = shadow /\ crashes' = crashes
    BY <1>7 DEF ShadowIsGone, DiskSame, disk, rest
  <2>2. QED
    BY <2>1, <1>t, LeavesQuietly
<1>8. CASE QuietPreflight(c)
  <2> DEFINE to == IF journal.active = NoOp THEN "finish" ELSE "present"
  <2>1. /\ DiskSame /\ JournalSame /\ RowSame /\ Framed /\ edits' = edits /\ row' = row
        /\ Goto(c, to) /\ Leads(c, to) /\ to \in Pcs
    BY <1>8, <1>t, <1>p DEF QuietPreflight, Preflight, Stay, DiskSame, Framed, Leads, disk, rest
  <2> HIDE DEF to
  <2>2. QED
    BY <2>1, WalksQuietly
<1>9. CASE Conflict(c)
  <2>0. /\ Framed /\ edits' = edits /\ lock' = lock
        /\ journal' = [journal EXCEPT !.status = "conflicted"]
    BY <1>9, WriteKeeps DEF Conflict
  <2>1. /\ DiskSame /\ RowSame /\ row' = row
        /\ Goto(c, "conflict") /\ Leads(c, "conflict")
    BY <1>9, <2>0 DEF Conflict, DiskSame, Leads, LockedPcs, disk
  <2>2. JournalSame
    BY <2>0 DEF Status
  <2>3. QED
    BY <2>0, <2>1, <2>2, <1>p, WalksQuietly
<1>10. CASE ResumeActive(c)
  <2> DEFINE to == IF journal.active # NoOp /\ EffectIsThere(c, journal.active)
                   THEN "effected" ELSE "apply"
  <2>1. /\ DiskSame /\ JournalSame /\ RowSame /\ Framed /\ edits' = edits /\ row' = row
        /\ Goto(c, to) /\ Leads(c, to) /\ to \in Pcs
    BY <1>10, <1>t, <1>p DEF ResumeActive, Stay, DiskSame, Framed, Leads, disk, rest
  <2> HIDE DEF to
  <2>2. QED
    BY <2>1, WalksQuietly
<1>11. CASE RmdirFails(c)
  <2>1. /\ DiskSame /\ JournalSame /\ RowSame /\ Framed /\ edits' = edits /\ row' = row
        /\ Goto(c, "conflict") /\ Leads(c, "conflict")
    BY <1>11, <1>t DEF RmdirFails, Stay, DiskSame, Framed, Leads, LockedPcs, disk, rest
  <2>2. QED
    BY <2>1, <1>p, WalksQuietly
<1>12. CASE Verify(c)
  <2> DEFINE to == IF Verified(c) THEN "verified" ELSE "conflict"
  <2>1. /\ DiskSame /\ JournalSame /\ RowSame /\ Framed /\ edits' = edits /\ row' = row
        /\ Goto(c, to) /\ Leads(c, to) /\ to \in Pcs
    BY <1>12, <1>t, <1>p DEF Verify, Stay, DiskSame, Framed, Leads, LockedPcs, disk, rest
  <2> HIDE DEF to
  <2>2. QED
    BY <2>1, WalksQuietly
<1>13. CASE MarkPublished(c)
  <2>1. /\ DiskSame /\ JournalSame /\ Leave(c) /\ call[c].pc = "published"
        /\ plan' = plan /\ edits' = edits /\ owner' = owner /\ shadow' = shadow /\ crashes' = crashes
    BY <1>13 DEF MarkPublished, DiskSame, disk, rest
  <2>2. RowSame
    BY <1>13 DEF MarkPublished
  <2>3. QED
    BY <2>1, <2>2, <1>t, LeavesQuietly
<1>14. CASE MarkConflicted(c)
  <2>1. /\ DiskSame /\ JournalSame /\ Leave(c)
        /\ plan' = plan /\ edits' = edits /\ owner' = owner /\ shadow' = shadow /\ crashes' = crashes
    BY <1>14 DEF MarkConflicted, DiskSame, disk, rest
  <2>2. RowSame /\ (row'.status = "published" => row.status = "published")
    BY <1>14 DEF MarkConflicted
  <2>3. QED
    BY <2>1, <2>2, <1>t, LeavesQuietly
<1>15. CASE Rejected(c)
  <2>1. /\ DiskSame /\ JournalSame /\ RowSame /\ row' = row /\ Leave(c)
        /\ plan' = plan /\ edits' = edits /\ owner' = owner /\ shadow' = shadow /\ crashes' = crashes
    BY <1>15 DEF Rejected, DiskSame, disk, rest
  <2>2. QED
    BY <2>1, <1>t, LeavesQuietly
<1>16. CASE BeginDiscard(c)
  <2>1. /\ DiskSame /\ JournalSame /\ RowSame /\ Framed /\ edits' = edits /\ row' = row
        /\ Goto(c, "discard") /\ Leads(c, "discard")
    BY <1>16, <1>t DEF BeginDiscard, DiskSame, Framed, Leads, disk, rest
  <2>2. QED
    BY <2>1, <1>p, WalksQuietly
<1>17. CASE CheckDiscard(c)
  <2>1. /\ DiskSame /\ JournalSame /\ RowSame /\ Framed /\ edits' = edits /\ row' = row
        /\ Goto(c, "discarding") /\ Leads(c, "discarding")
    BY <1>17, <1>t DEF CheckDiscard, Stay, DiskSame, Framed, Leads, disk, rest
  <2>2. QED
    BY <2>1, <1>p, WalksQuietly
<1>18. CASE ReadDiscard(c) \/ MarkDiscarded(c)
  <2> DEFINE to == IF call[c].pc = "discarding" THEN "marking" ELSE "removing"
  <2>1. /\ DiskSame /\ JournalSame /\ RowSame /\ row' = row /\ edits' = edits
        /\ plan' = plan /\ owner' = owner /\ crashes' = crashes
        /\ Goto(c, to) /\ Leads(c, to) /\ to \in Pcs
    BY <1>18, <1>p DEF ReadDiscard, MarkDiscarded, DiskSame, Leads, disk
  <2>2. ShadowKept
    BY <1>18, DiscardKeeps
  <2>3. Framed
    BY <1>18, <2>1, <2>2, <1>t DEF Framed, ReadDiscard, MarkDiscarded
  <2> HIDE DEF to
  <2>4. QED
    BY <2>1, <2>3, WalksQuietly
<1>19. CASE RefuseDiscard(c) \/ RemoveShadow(c)
  <2>1. /\ DiskSame /\ JournalSame /\ RowSame /\ row' = row /\ Leave(c)
        /\ plan' = plan /\ edits' = edits /\ owner' = owner /\ crashes' = crashes
    BY <1>19 DEF RefuseDiscard, RemoveShadow, DiskSame, disk, rest
  <2>2. ShadowKept
    BY <1>19, DiscardKeeps DEF RefuseDiscard, rest
  <2>3. QED
    BY <2>1, <2>2, <1>t, LeavesQuietly
<1>c. CASE Crash(c)
  <2>1. /\ DiskSame /\ JournalSame /\ RowSame /\ row' = row /\ Leave(c)
        /\ plan' = plan /\ edits' = edits /\ owner' = owner
        /\ crashes' = crashes + 1 /\ crashes < MaxCrashes
    BY <1>c DEF Crash, DiskSame, disk
  <2>2. crashes' \in 0..MaxCrashes
    BY <2>1, <1>t, BoundsAssumption
  <2>3. ShadowKept
    BY <1>c, DiscardKeeps
  <2>4. QED
    BY <2>1, <2>2, <2>3, <1>t, LeavesQuietly
<1>20. ASSUME NEW o \in Remaining(c), SkipOperation(c, o)
       PROVE  Quiet(c)
  <2>1. /\ DiskSame /\ JournalSame /\ RowSame /\ Framed /\ edits' = edits /\ row' = row
        /\ lock' = lock /\ call[c].pc = "apply" /\ IsNext(c, o) /\ ~Needed(c, o)
        /\ call' = [call EXCEPT ![c].done = @ \cup {o}]
    BY <1>20, <1>t DEF SkipOperation, Stay, DiskSame, Framed, disk, rest
  <2>2. o \in Operation
    BY ManifestTypes, <1>p, CallFields DEF Remaining, TypeOK, CallState
  <2>3. Skips(c)
    BY <2>1, <2>2, <1>p, CallFields DEF Skips
  <2>4. QED
    BY <2>1, <2>3 DEF Quiet
<1>21. ASSUME NEW o \in Remaining(c), BlockOperation(c, o)
       PROVE  Quiet(c)
  <2>1. /\ DiskSame /\ JournalSame /\ RowSame /\ row' = row
        /\ plan' = plan /\ edits' = edits /\ shadow' = shadow /\ crashes' = crashes /\ owner' = owner
        /\ Leave(c) \/ (Goto(c, "conflict") /\ lock' = lock)
    BY <1>21 DEF BlockOperation, DiskSame, disk, rest
  <2>2. Goto(c, "conflict") /\ lock' = lock => Framed /\ Leads(c, "conflict")
    BY <2>1, <1>t, <1>21 DEF Framed, Leads, BlockOperation, LockedPcs, TypeOK
  <2>3. QED
    BY <2>1, <2>2, <1>t, <1>p, LeavesQuietly, WalksQuietly
<1>22. ASSUME NEW o \in Remaining(c), JournalMismatch(c, o)
       PROVE  Quiet(c)
  <2>1. /\ DiskSame /\ JournalSame /\ RowSame /\ row' = row /\ Leave(c)
        /\ plan' = plan /\ edits' = edits /\ owner' = owner /\ shadow' = shadow /\ crashes' = crashes
    BY <1>22 DEF JournalMismatch, DiskSame, disk, rest
  <2>2. QED
    BY <2>1, <1>t, LeavesQuietly
<1>23. QED
  BY <1>1, <1>2, <1>3, <1>4, <1>5, <1>6, <1>7, <1>8, <1>9, <1>10, <1>11, <1>12, <1>13,
     <1>14, <1>15, <1>16, <1>17, <1>18, <1>19, <1>c, <1>20, <1>21, <1>22 DEF QuietSteps

-----------------------------------------------------------------------------
(* The other steps: one part of the state each, and the call.               *)

\* A step that writes the row, and one that writes the journal.
RowStep(c, from, to) ==
    Framed /\ edits' = edits /\ lock' = lock /\ DiskSame /\ JournalSame /\ Moves(c, from, to)
JournalStep(c, from, to) ==
    Framed /\ edits' = edits /\ lock' = lock /\ DiskSame /\ row' = row /\ Moves(c, from, to)

LEMMA RowSteps ==
    ASSUME TypeOK, NEW c \in Publishers
    PROVE  /\ Reconcile(c) =>
                 /\ RowStep(c, "reconcile", IF journal.active = NoOp THEN "preflight" ELSE "announce")
                 /\ row.status = "published" \/ CanAdvance(row.next, journal.count)
                 /\ IF journal.count > row.next THEN Advance(journal.count) ELSE row' = row
           /\ Reannounce(c) =>
                 /\ RowStep(c, "announce", "preflight") /\ Announce(journal.count)
                 /\ row.status = "published" \/ CanAnnounce(journal.count)
           /\ AnnounceOperation(c) =>
                 /\ RowStep(c, "started", "effect") /\ Announce(journal.count)
                 /\ row.status = "published" \/ CanAnnounce(journal.count)
           /\ AdvanceCursor(c) =>
                 /\ \/ RowStep(c, "completed", "apply")
                    \/ RowStep(c, "settled", "applied")
                 /\ Advance(journal.count)
                 /\ row.status = "published" \/ CanAdvance(journal.count - 1, journal.count)
<1> USE SameParts
<1>p. {"preflight", "announce", "effect", "apply", "applied"} \subseteq Pcs
  BY DEF Pcs
<1>t. row.next \in Nat /\ journal.count \in Nat
  BY DEF TypeOK, Document
<1>1. ASSUME Reconcile(c)
      PROVE  /\ RowStep(c, "reconcile", IF journal.active = NoOp THEN "preflight" ELSE "announce")
             /\ row.status = "published" \/ CanAdvance(row.next, journal.count)
             /\ IF journal.count > row.next THEN Advance(journal.count) ELSE row' = row
  <2> DEFINE to == IF journal.active = NoOp THEN "preflight" ELSE "announce"
  <2>1. /\ DiskSame /\ JournalSame /\ Framed /\ edits' = edits /\ lock' = lock
        /\ Goto(c, to) /\ to \in Pcs /\ call[c].pc = "reconcile"
        /\ IF journal.count > row.next THEN Advance(journal.count) ELSE row' = row
        /\ row.status = "published" \/ CanAdvance(row.next, journal.count)
    BY <1>1, <1>p DEF Reconcile, Stay, DiskSame, disk, rest
  <2> HIDE DEF to
  <2>2. Moves(c, "reconcile", to)
    BY <2>1, GotoCall DEF Moves
  <2>3. RowStep(c, "reconcile", to)
    BY <2>1, <2>2 DEF RowStep
  <2>4. QED
    BY <2>1, <2>3, <1>t DEF to
<1>2. ASSUME Reannounce(c)
      PROVE  /\ RowStep(c, "announce", "preflight") /\ Announce(journal.count)
             /\ row.status = "published" \/ CanAnnounce(journal.count)
  <2>1. /\ DiskSame /\ JournalSame /\ Framed /\ edits' = edits /\ lock' = lock
        /\ Goto(c, "preflight") /\ call[c].pc = "announce" /\ Announce(journal.count)
        /\ row.status = "published" \/ CanAnnounce(journal.count)
    BY <1>2 DEF Reannounce, Stay, DiskSame, disk, rest
  <2>2. Moves(c, "announce", "preflight")
    BY <2>1, <1>p, GotoCall DEF Moves
  <2>3. QED
    BY <2>1, <2>2 DEF RowStep
<1>3. ASSUME AnnounceOperation(c)
      PROVE  /\ RowStep(c, "started", "effect") /\ Announce(journal.count)
             /\ row.status = "published" \/ CanAnnounce(journal.count)
  <2>1. /\ DiskSame /\ JournalSame /\ Framed /\ edits' = edits /\ lock' = lock
        /\ Goto(c, "effect") /\ call[c].pc = "started" /\ Announce(journal.count)
        /\ row.status = "published" \/ CanAnnounce(journal.count)
    BY <1>3 DEF AnnounceOperation, Stay, DiskSame, disk, rest
  <2>2. Moves(c, "started", "effect")
    BY <2>1, <1>p, GotoCall DEF Moves
  <2>3. QED
    BY <2>1, <2>2 DEF RowStep
<1>4. ASSUME AdvanceCursor(c)
      PROVE  /\ \/ RowStep(c, "completed", "apply")
                \/ RowStep(c, "settled", "applied")
             /\ Advance(journal.count)
             /\ row.status = "published" \/ CanAdvance(journal.count - 1, journal.count)
  <2>1. /\ DiskSame /\ JournalSame /\ Framed /\ edits' = edits /\ lock' = lock
        /\ Advance(journal.count)
        /\ row.status = "published" \/ CanAdvance(journal.count - 1, journal.count)
        /\ \/ call[c].pc = "completed" /\ Goto(c, "apply")
           \/ call[c].pc = "settled" /\ Goto(c, "applied")
    BY <1>4 DEF AdvanceCursor, Stay, DiskSame, disk, rest
  <2>2. Moves(c, "completed", "apply") \/ Moves(c, "settled", "applied")
    BY <2>1, <1>p, GotoCall DEF Moves
  <2>3. QED
    BY <2>1, <2>2 DEF RowStep
<1>5. QED
  BY <1>1, <1>2, <1>3, <1>4

\* Where a publisher starts on its operations.
OpenPlan(c) == Preflight(c) /\ call[c].cur # Merged(call[c].cur)
Refusal(c) == (\E o \in Remaining(c) : RefuseOperation(c, o)) \/ GuardFails(c)
Refuses(c) == Refusal(c) /\ ~IsOlder(StateFile)
Finishes(c) == Finish(c) /\ (call[c].pc = "finish" \/ ~IsOlder(StateFile))
Stages(c) == Perform(c) /\ journal.active.action = "replace"

PubAfterConflict ==
    IF journal.active = NoOp /\ journal.count = 0 THEN "conflicted" ELSE journal.pub

LEMMA JournalSteps ==
    ASSUME TypeOK, NEW c \in Publishers
    PROVE  /\ OpenPlan(c) =>
                 /\ JournalStep(c, "preflight", "resume") /\ ~PreflightFails(call[c].cur)
                 /\ JournalIs("publishing", "preflight-complete", journal.count,
                              journal.active, journal.moved)
           /\ Refuses(c) =>
                 /\ \E from \in {"apply", "effect", "staged"} : JournalStep(c, from, "conflict")
                 /\ JournalIs("conflicted", PubAfterConflict, journal.count,
                              journal.active, journal.moved)
           /\ Stages(c) =>
                 /\ JournalStep(c, "effect", "staged") /\ journal.moved = {}
                 /\ JournalIs(journal.status, journal.pub, journal.count,
                              journal.active, {"parents"})
           /\ CompleteOperation(c) =>
                 /\ \/ JournalStep(c, "effected", "completed")
                    \/ JournalStep(c, "present", "settled")
                 /\ JournalIs(journal.status, journal.pub, journal.count + 1, NoOp, {})
           /\ Finishes(c) =>
                 /\ \E from \in EndPcs : JournalStep(c, from, "published")
                 /\ JournalIs("published", journal'.pub, journal.count, NoOp, {})
                 /\ journal'.pub = "published" \/ (journal'.pub = "none" /\ journal.pub = "none")
<1> USE SameParts
<1>p. {"resume", "conflict", "staged", "completed", "settled", "published"} \subseteq Pcs
  BY DEF Pcs
<1> DEFINE Pubs == {"none", "preflight-complete", "applying", "conflicted", "published"}
<1>t. /\ "publishing" \in Status /\ "conflicted" \in Status /\ "published" \in Status
      /\ "preflight-complete" \in Pubs /\ "conflicted" \in Pubs /\ "published" \in Pubs
      /\ "none" \in Pubs /\ journal.pub \in Pubs /\ NoOp \in Operation \cup {NoOp}
      /\ {"parents"} \in SUBSET {"entry", "parents"} /\ {} \in SUBSET {"entry", "parents"}
  BY DEF TypeOK, Document, Status
<1>1. ASSUME OpenPlan(c)
      PROVE  /\ JournalStep(c, "preflight", "resume") /\ ~PreflightFails(call[c].cur)
             /\ JournalIs("publishing", "preflight-complete", journal.count,
                          journal.active, journal.moved)
  <2>1. /\ DiskSame /\ row' = row /\ Framed /\ edits' = edits /\ lock' = lock
        /\ Goto(c, "resume") /\ call[c].pc = "preflight" /\ ~PreflightFails(call[c].cur)
        /\ journal' = [journal EXCEPT !.status = "publishing", !.pub = "preflight-complete"]
    BY <1>1, WriteKeeps DEF OpenPlan, Preflight, DiskSame, disk
  <2>2. Moves(c, "preflight", "resume")
    BY <2>1, <1>p, GotoCall DEF Moves
  <2>3. QED
    BY <2>1, <2>2, <1>t, JournalWrites DEF JournalStep
<1>2. ASSUME Refuses(c)
      PROVE  /\ \E from \in {"apply", "effect", "staged"} : JournalStep(c, from, "conflict")
             /\ JournalIs("conflicted", PubAfterConflict, journal.count,
                          journal.active, journal.moved)
  <2> DEFINE doc == StateFile
             p == IF doc.active = NoOp /\ doc.count = 0 THEN "conflicted" ELSE doc.pub
  <2>0. SameData(doc, journal) /\ doc \in Document
    BY <1>2, DocumentTypes DEF Refuses
  <2>1. /\ DiskSame /\ row' = row
        /\ Goto(c, "conflict") /\ call[c].pc \in {"apply", "effect", "staged"} /\ RecordConflict
    BY <1>2 DEF Refuses, Refusal, RefuseOperation, GuardFails, DiskSame, disk
  <2>2. Moves(c, call[c].pc, "conflict")
    BY <2>1, <1>p, GotoCall DEF Moves
  <2>3. p = PubAfterConflict /\ p \in Pubs
    BY <2>0, <1>t DEF PubAfterConflict, SameData
  <2>w. /\ Write([doc EXCEPT !.status = "conflicted", !.pub = p], IsOlder(doc))
        /\ IsOlder(doc) \in BOOLEAN
    BY <2>1 DEF RecordConflict, IsOlder
  <2> HIDE DEF doc, p
  <2>4. /\ Framed /\ edits' = edits /\ lock' = lock
        /\ journal' = [doc EXCEPT !.status = "conflicted", !.pub = p]
    BY <2>w, WriteKeeps
  <2>5. JournalIs("conflicted", p, doc.count, doc.active, doc.moved)
    BY <2>0, <2>3, <2>4, <1>t, DocumentWrites
  <2>6. JournalIs("conflicted", PubAfterConflict, journal.count, journal.active, journal.moved)
    BY <2>0, <2>3, <2>5 DEF SameData
  <2>7. QED
    BY <2>1, <2>2, <2>4, <2>6 DEF JournalStep
<1>3. ASSUME Stages(c)
      PROVE  /\ JournalStep(c, "effect", "staged") /\ journal.moved = {}
             /\ JournalIs(journal.status, journal.pub, journal.count,
                          journal.active, {"parents"})
  <2>1. /\ DiskSame /\ row' = row /\ Framed /\ edits' = edits /\ lock' = lock
        /\ Goto(c, "staged") /\ call[c].pc = "effect" /\ journal.moved = {}
        /\ journal' = [journal EXCEPT !.moved = {"parents"}]
    BY <1>3 DEF Stages, Perform, GuardHolds, Stay, DiskSame, disk, rest
  <2>2. Moves(c, "effect", "staged")
    BY <2>1, <1>p, GotoCall DEF Moves
  <2>3. QED
    BY <2>1, <2>2, <1>t, JournalWrites DEF JournalStep
<1>4. ASSUME CompleteOperation(c)
      PROVE  /\ \/ JournalStep(c, "effected", "completed")
                \/ JournalStep(c, "present", "settled")
             /\ JournalIs(journal.status, journal.pub, journal.count + 1, NoOp, {})
  <2>1. /\ DiskSame /\ row' = row /\ Framed /\ edits' = edits /\ lock' = lock
        /\ journal' = [journal EXCEPT !.count = @ + 1, !.active = NoOp, !.moved = {}]
        /\ \/ call[c].pc = "effected" /\ Goto(c, "completed")
           \/ call[c].pc = "present" /\ Goto(c, "settled")
    BY <1>4, WriteKeeps DEF CompleteOperation, DiskSame, disk
  <2>2. Moves(c, "effected", "completed") \/ Moves(c, "present", "settled")
    BY <2>1, <1>p, GotoCall DEF Moves
  <2>3. QED
    BY <2>1, <2>2, <1>t, JournalWrites DEF JournalStep
<1>5. ASSUME Finishes(c)
      PROVE  /\ \E from \in EndPcs : JournalStep(c, from, "published")
             /\ JournalIs("published", journal'.pub, journal.count, NoOp, {})
             /\ journal'.pub = "published" \/ (journal'.pub = "none" /\ journal.pub = "none")
  <2> DEFINE doc == IF call[c].pc = "finish" THEN journal ELSE StateFile
             p == IF doc.pub = "none" /\ call[c].pc # "verified" THEN doc.pub ELSE "published"
  <2>0. SameData(doc, journal) /\ doc \in Document
    <3>1. SameData(journal, journal)
      BY DEF SameData
    <3>2. QED
      BY <1>5, <3>1, DocumentTypes DEF Finishes
  <2>1. /\ DiskSame /\ row' = row /\ Goto(c, "published") /\ call[c].pc \in EndPcs
        /\ Write([doc EXCEPT !.status = "published", !.active = NoOp, !.moved = {}, !.pub = p],
                 IsOlder(doc))
    BY <1>5 DEF Finishes, Finish, DiskSame, disk
  <2>2. Moves(c, call[c].pc, "published")
    BY <2>1, <1>p, GotoCall DEF Moves
  <2>3. p \in Pubs /\ (p = "published" \/ (p = "none" /\ journal.pub = "none"))
    BY <2>0 DEF SameData
  <2> HIDE DEF doc, p
  <2>4. /\ Framed /\ edits' = edits /\ lock' = lock
        /\ journal' = [doc EXCEPT !.status = "published", !.active = NoOp, !.moved = {}, !.pub = p]
    BY <2>1, WriteKeeps DEF IsOlder
  <2>5. JournalIs("published", p, doc.count, NoOp, {})
    BY <2>0, <2>3, <2>4, <1>t, DocumentWrites
  <2>6. JournalIs("published", journal'.pub, journal.count, NoOp, {}) /\ journal'.pub = p
    BY <2>0, <2>5 DEF SameData, JournalIs
  <2>7. QED
    BY <2>1, <2>2, <2>3, <2>4, <2>6 DEF JournalStep
<1>6. QED
  BY <1>1, <1>2, <1>3, <1>4, <1>5

\* What Baldr writes at the path of the active operation.
PutEntry(c) ==
    LET o == journal.active IN
    CASE o.action = "remove" -> Absent
      [] o.action = "mkdir"  -> Directory("default")
      [] OTHER               -> Merged(call[c].cur)[o.path]

Puts(c) == (Perform(c) /\ journal.active.action # "replace") \/ Swap(c)

LEMMA StartStep ==
    ASSUME TypeOK, NEW c \in Publishers, NEW o \in Remaining(c), StartOperation(c, o)
    PROVE  /\ Framed /\ edits' = edits /\ lock' = lock /\ DiskSame /\ row' = row
           /\ call' \in [Publishers -> CallState] /\ Others(c)
           /\ call[c].pc = "apply" /\ call'[c].pc = "started" /\ call'[c].cur = call[c].cur
           /\ call'[c].done = call[c].done \cup {o}
           /\ o \in Operation
           /\ JournalIs("publishing", "applying", journal.count, o,
                        IF journal.active = o THEN journal.moved ELSE {})
           /\ IsNext(c, o) /\ ~Blocked(o) /\ Needed(c, o) /\ AsExpected(c, o)
           /\ journal.active \in {NoOp, o}
<1> USE SameParts
<1>p. "started" \in Pcs /\ "publishing" \in Status
      /\ "applying" \in {"none", "preflight-complete", "applying", "conflicted", "published"}
  BY DEF Pcs, Status
<1>o. o \in Operation
  BY ManifestTypes, <1>p, CallFields DEF Remaining, TypeOK, CallState
<1> DEFINE m == IF journal.active = o THEN journal.moved ELSE {}
<1>m. m \in SUBSET {"entry", "parents"} /\ o \in Operation \cup {NoOp}
  BY <1>o DEF TypeOK, Document
<1>1. /\ DiskSame /\ row' = row /\ Framed /\ edits' = edits /\ lock' = lock
      /\ call[c].pc = "apply" /\ IsNext(c, o) /\ ~Blocked(o) /\ Needed(c, o) /\ AsExpected(c, o)
      /\ journal.active \in {NoOp, o}
      /\ journal' = [journal EXCEPT !.status = "publishing", !.pub = "applying",
                                    !.active = o, !.moved = m]
      /\ call' = [call EXCEPT ![c].pc = "started", ![c].done = @ \cup {o}]
  BY WriteKeeps DEF StartOperation, DiskSame, disk
<1> HIDE DEF m
<1>2. JournalIs("publishing", "applying", journal.count, o, m)
  BY <1>1, <1>p, <1>m, JournalWrites
<1>3. /\ call' \in [Publishers -> CallState] /\ Others(c)
      /\ call'[c].pc = "started" /\ call'[c].cur = call[c].cur
      /\ call'[c].done = call[c].done \cup {o}
  BY <1>1, <1>p, <1>o, CallFields
<1>4. QED
  BY <1>1, <1>2, <1>3, <1>o DEF m

LEMMA PutStep ==
    ASSUME TypeOK, NEW c \in Publishers, Puts(c)
    PROVE  /\ Framed /\ edits' = edits /\ lock' = lock /\ JournalSame /\ row' = row
           /\ orig' \in Manifest /\ author' \in [Paths -> {"nobody", "baldr", "person"}]
           /\ "entry" \notin journal.moved
           /\ \/ Moves(c, "effect", "effected") /\ journal.active \in Operation
                 /\ journal.active.action # "replace"
              \/ Moves(c, "staged", "effected")
           /\ \A p \in Paths : p # journal.active.path => orig'[p] = orig[p] /\ author'[p] = author[p]
           /\ journal.active \in Operation /\ (call[c].pc = "staged" => journal.active.action = "replace")
                 => /\ journal.active.path \in Paths
                    /\ orig'[journal.active.path] = PutEntry(c)
                    /\ author'[journal.active.path] = "baldr"
<1> USE SameParts
<1> DEFINE o == journal.active
           q == journal.active.path
<1>p. "effected" \in Pcs
  BY DEF Pcs
<1>t. /\ orig \in Manifest /\ author \in [Paths -> {"nobody", "baldr", "person"}]
      /\ o \in Operation \cup {NoOp} /\ Absent \in Entry /\ Directory("default") \in Entry
      /\ \A p \in Paths : Merged(call[c].cur)[p] \in Entry
  <2>1. call[c].cur \in Manifest
    BY <1>p, CallFields DEF CallState
  <2>2. Merged(call[c].cur) \in Manifest
    BY <2>1, ManifestTypes DEF TypeOK
  <2>3. QED
    BY <2>2, EntryTypes DEF TypeOK, Document, Manifest
<1>1. /\ Framed /\ edits' = edits /\ lock' = lock /\ JournalSame /\ row' = row
      /\ Goto(c, "effected") /\ "entry" \notin journal.moved
      /\ call[c].pc \in {"effect", "staged"}
      /\ call[c].pc = "effect" => o.action \in {"remove", "mkdir", "chmod"} /\ Put(q, PutEntry(c))
      /\ call[c].pc = "staged" => Put(q, Merged(call[c].cur)[q])
  <2>1. CASE Swap(c)
    BY <2>1 DEF Swap, Stay, rest
  <2>2. CASE Perform(c) /\ o.action # "replace"
    <3>1. /\ Stay /\ row' = row /\ journal.moved = {} /\ call[c].pc = "effect"
          /\ journal' = journal /\ Goto(c, "effected")
          /\ \/ o.action = "remove" /\ Put(q, Absent)
             \/ o.action = "mkdir" /\ Put(q, Directory("default"))
             \/ o.action = "chmod" /\ Put(q, Merged(call[c].cur)[q])
      BY <2>2 DEF Perform, GuardHolds
    <3>2. Put(q, PutEntry(c))
      BY <3>1 DEF PutEntry
    <3>3. QED
      BY <3>1, <3>2 DEF Stay
  <2>3. QED
    BY <2>1, <2>2 DEF Puts
<1>2. Moves(c, "effect", "effected") \/ Moves(c, "staged", "effected")
  BY <1>1, <1>p, GotoCall DEF Moves
<1>3. call[c].pc = "effect" => o \in Operation /\ o.action # "replace"
  BY <1>1, <1>t DEF NoOp, Operation
<1>4. o \in Operation => q \in Paths
  BY DEF Operation
<1>5. o \notin Operation => q \notin Paths
  BY <1>t, PathsAssumption DEF NoOp, Operation
<1>6. PICK e : Put(q, e) /\ (call[c].pc = "effect" => e = PutEntry(c))
                         /\ (call[c].pc = "staged" => e = Merged(call[c].cur)[q])
  BY <1>1
<1>7. o \in Operation => e \in Entry
  BY <1>1, <1>4, <1>6, <1>t DEF PutEntry
<1>8. \A p \in Paths : /\ orig'[p] = IF p = q THEN e ELSE orig[p]
                       /\ author'[p] = IF p = q THEN "baldr" ELSE author[p]
  BY <1>6, <1>t DEF Put, Manifest
<1>9. orig' \in Manifest /\ author' \in [Paths -> {"nobody", "baldr", "person"}]
  BY <1>4, <1>5, <1>6, <1>7, <1>t DEF Put, Manifest
<1>10. o \in Operation /\ (call[c].pc = "staged" => o.action = "replace")
           => orig'[q] = PutEntry(c) /\ author'[q] = "baldr" /\ q \in Paths
  BY <1>1, <1>4, <1>6, <1>8 DEF PutEntry
<1> HIDE DEF o, q
<1>11. \A p \in Paths : p # q => orig'[p] = orig[p] /\ author'[p] = author[p]
  BY <1>8
<1>12. \/ Moves(c, "effect", "effected") /\ o \in Operation /\ o.action # "replace"
       \/ Moves(c, "staged", "effected")
  BY <1>2, <1>3 DEF Moves
<1>13. QED
  BY <1>1, <1>9, <1>10, <1>11, <1>12 DEF o, q

\* What the person does to a path shows, and a change at the active operation moves its guard.
LEMMA EditStep ==
    ASSUME TypeOK, NEW p \in Paths, NEW e \in PersonalEntries(p), NEW renamed \in BOOLEAN,
           Edit(p, e, renamed)
    PROVE  /\ Framed /\ edits' = edits + 1 /\ lock' = lock /\ call' = call /\ row' = row
           /\ orig' \in Manifest /\ author' \in [Paths -> {"nobody", "baldr", "person"}]
           /\ JournalIs(journal.status, journal.pub, journal.count, journal.active, journal'.moved)
           /\ journal.moved \subseteq journal'.moved
           /\ journal.active = NoOp => journal'.moved = journal.moved
           /\ \A q \in Paths : \/ orig'[q] = orig[q] /\ author'[q] = author[q]
                               \/ /\ author'[q] = "person"
                                  /\ q = journal.active.path /\ journal.active # NoOp
                                        => "entry" \in journal'.moved
<1>t. /\ orig \in Manifest /\ author \in [Paths -> {"nobody", "baldr", "person"}]
      /\ plan \in Plans /\ edits \in 0..MaxEdits
  BY DEF TypeOK
<1>1. e \in Entry
  BY <1>t, EntryTypes, PlanTypes DEF PersonalEntries, Manifest
<1> DEFINE lost == IF IsDir(e) THEN {} ELSE Inside(p)
           m == journal.moved \cup Touches(p, e, renamed)
<1>2. /\ orig' = [q \in Paths |-> IF q = p THEN e ELSE IF q \in lost THEN Absent ELSE orig[q]]
      /\ author' = [q \in Paths |-> IF q \in lost \cup {p} THEN "person" ELSE author[q]]
      /\ journal' = [journal EXCEPT !.moved = m]
      /\ edits' = edits + 1 /\ edits < MaxEdits
      /\ UNCHANGED <<plan, row, owner, lock, call, shadow, crashes>>
  BY DEF Edit
<1>3. lost \subseteq Inside(p)
  OBVIOUS
<1>4. Touches(p, e, renamed) \subseteq {"entry", "parents"}
  BY DEF Touches
<1>5. m \in SUBSET {"entry", "parents"}
  BY <1>4 DEF TypeOK, Document
<1>6. JournalIs(journal.status, journal.pub, journal.count, journal.active, m)
  <2> HIDE DEF m
  <2>1. "published" \in Status /\ NoOp \in Operation \cup {NoOp}
        /\ "none" \in {"none", "preflight-complete", "applying", "conflicted", "published"}
    BY DEF Status
  <2>2. QED
    BY <1>2, <1>5, <2>1, JournalWrites
<1>7. \A q \in Inside(p) \cup {p} : q = journal.active.path /\ journal.active # NoOp => "entry" \in m
  BY DEF Touches, Inside
<1>n. journal.active = NoOp => m = journal.moved
  BY DEF Touches
<1>8. Framed
  BY <1>2, <1>t, BoundsAssumption, SameParts DEF Framed, TypeOK
<1> HIDE DEF lost
<1>9. orig' \in Manifest
  <2>1. Absent \in Entry /\ \A q \in Paths : orig[q] \in Entry
    BY <1>t, EntryTypes DEF Manifest
  <2>2. QED
    BY <1>1, <1>2, <2>1 DEF Manifest
<1>10. author' \in [Paths -> {"nobody", "baldr", "person"}]
  BY <1>2, <1>t
<1>11. \A q \in Paths : q \notin lost \cup {p} => orig'[q] = orig[q] /\ author'[q] = author[q]
  BY <1>2
<1>12. \A q \in Paths : q \in lost \cup {p} => author'[q] = "person"
  BY <1>2
<1>13. journal'.moved = m /\ journal.moved \subseteq m
  BY <1>6 DEF JournalIs
<1> HIDE DEF m
<1>14. \A q \in Paths : \/ orig'[q] = orig[q] /\ author'[q] = author[q]
                        \/ /\ author'[q] = "person"
                           /\ q = journal.active.path /\ journal.active # NoOp
                                => "entry" \in journal'.moved
  <2> TAKE q \in Paths
  <2>1. CASE q \in lost \cup {p}
    <3>1. q \in Inside(p) \cup {p}
      BY <2>1, <1>3
    <3>2. QED
      BY <2>1, <3>1, <1>7, <1>12, <1>13
  <2>2. CASE q \notin lost \cup {p}
    BY <2>2, <1>11
  <2>3. QED
    BY <2>1, <2>2
<1>15. QED
  BY <1>2, <1>6, <1>8, <1>9, <1>10, <1>13, <1>14, <1>n

\* A publisher takes up what a discard wrote, which is older than what there was.
AdoptSteps(c) ==
    /\ IsOlder(StateFile)
    /\ ScanOriginal(c) \/ Refusal(c) \/ (Finish(c) /\ call[c].pc # "finish")
Adopted ==
    /\ shadow'.astray /\ journal' \in JournalRecord
    /\ journal'.count = shadow.doc.count
    /\ journal'.active \in {shadow.doc.active, NoOp} /\ journal'.moved \in {shadow.doc.moved, {}}
Adopts(c) ==
    /\ Framed /\ edits' = edits /\ lock' = lock /\ DiskSame /\ row' = row /\ Adopted
    /\ \/ Scans(c)
       \/ \E from \in {"apply", "effect", "staged"} : Moves(c, from, "conflict")
       \/ \E from \in {"applied", "verified"} : Moves(c, from, "published")

LEMMA AdoptStep ==
    ASSUME TypeOK, NEW c \in Publishers, AdoptSteps(c)
    PROVE  Adopts(c)
<1>p. {"reconcile", "conflict", "published"} \subseteq Pcs
  BY DEF Pcs
<1> DEFINE doc == shadow.doc
           Pubs == {"none", "preflight-complete", "applying", "conflicted", "published"}
<1>1. shadow.is = "discarded" /\ StateFile = doc /\ IsOlder(doc)
  BY DocumentTypes DEF AdoptSteps, StateFile
<1>2. doc \in Document /\ shadow \in ShadowRecord /\ doc.pub \in Pubs
      /\ "conflicted" \in Status /\ "published" \in Status
      /\ "conflicted" \in Pubs /\ "published" \in Pubs
  BY DocumentTypes DEF Document, Status
<1>3. CASE ScanOriginal(c)
  <2>1. /\ DiskSame /\ row' = row /\ plan' = plan /\ edits' = edits /\ owner' = owner
        /\ crashes' = crashes /\ lock' = lock /\ journal' = doc /\ call[c].pc = "scan"
        /\ shadow' = [shadow EXCEPT !.astray = @ \/ IsOlder(doc)]
        /\ call' = [call EXCEPT ![c].pc = "reconcile", ![c].cur = Scan(orig)]
    BY <1>1, <1>3 DEF ScanOriginal, DiskSame, disk
  <2>2. shadow' = [shadow EXCEPT !.astray = TRUE]
    BY <1>1, <2>1
  <2>3. ShadowKept /\ shadow'.astray
    BY <1>2, <2>2, DocumentTypes DEF ShadowRecord, ShadowKept, Readable, SameData
  <2>4. Framed
    BY <2>1, <2>3 DEF Framed, TypeOK
  <2>5. Adopted
    BY <1>2, <2>1, <2>3, DocumentTypes DEF Adopted
  <2>6. Scan(orig) \in Manifest
    BY ManifestTypes DEF TypeOK
  <2>7. Scans(c)
    <3>1. "reconcile" \in Pcs
      BY <1>p
    <3>2. /\ call' \in [Publishers -> CallState] /\ Others(c)
          /\ call'[c].pc = "reconcile" /\ call'[c].cur = Scan(orig)
          /\ call'[c].done = call[c].done
      BY <2>1, <2>6, <3>1, CallFields
    <3>3. QED
      BY <2>1, <3>2, <1>1 DEF Scans
  <2>8. QED
    BY <2>1, <2>4, <2>5, <2>7 DEF Adopts
<1>4. CASE Refusal(c)
  <2> DEFINE p == IF doc.active = NoOp /\ doc.count = 0 THEN "conflicted" ELSE doc.pub
  <2>1. /\ DiskSame /\ row' = row
        /\ Goto(c, "conflict") /\ call[c].pc \in {"apply", "effect", "staged"}
        /\ Write([doc EXCEPT !.status = "conflicted", !.pub = p], IsOlder(doc))
    BY <1>1, <1>4 DEF Refusal, RefuseOperation, GuardFails, RecordConflict, DiskSame, disk
  <2>2. Moves(c, call[c].pc, "conflict")
    BY <2>1, <1>p, GotoCall DEF Moves
  <2>3. p \in Pubs
    BY <1>2
  <2> HIDE DEF p, doc
  <2>4. /\ Framed /\ edits' = edits /\ lock' = lock /\ shadow'.astray
        /\ journal' = [doc EXCEPT !.status = "conflicted", !.pub = p]
    BY <2>1, <1>1, WriteKeeps DEF IsOlder
  <2>5. JournalIs("conflicted", p, doc.count, doc.active, doc.moved)
    BY <1>2, <2>3, <2>4, DocumentWrites
  <2>6. Adopted
    BY <2>4, <2>5 DEF Adopted, JournalIs, doc
  <2>7. QED
    BY <2>1, <2>2, <2>4, <2>6 DEF Adopts
<1>5. CASE Finish(c) /\ call[c].pc # "finish"
  <2> DEFINE p == IF doc.pub = "none" /\ call[c].pc # "verified" THEN doc.pub ELSE "published"
  <2>1. /\ DiskSame /\ row' = row /\ Goto(c, "published") /\ call[c].pc \in {"applied", "verified"}
        /\ Write([doc EXCEPT !.status = "published", !.active = NoOp, !.moved = {}, !.pub = p],
                 IsOlder(doc))
    BY <1>1, <1>5 DEF Finish, EndPcs, DiskSame, disk
  <2>2. Moves(c, call[c].pc, "published")
    BY <2>1, <1>p, GotoCall DEF Moves
  <2>3. p \in Pubs
    BY <1>2
  <2> HIDE DEF p, doc
  <2>4. /\ Framed /\ edits' = edits /\ lock' = lock /\ shadow'.astray
        /\ journal' = [doc EXCEPT !.status = "published", !.active = NoOp, !.moved = {}, !.pub = p]
    BY <2>1, <1>1, WriteKeeps DEF IsOlder
  <2>5. JournalIs("published", p, doc.count, NoOp, {})
    BY <1>2, <2>3, <2>4, DocumentWrites
  <2>6. Adopted
    BY <2>4, <2>5 DEF Adopted, JournalIs, doc
  <2>7. QED
    BY <2>1, <2>2, <2>4, <2>6 DEF Adopts
<1>6. QED
  BY <1>3, <1>4, <1>5 DEF AdoptSteps

\* The steps of a publisher that are not quiet.
Writes(c) ==
    \/ Reconcile(c) \/ Reannounce(c) \/ AnnounceOperation(c) \/ AdvanceCursor(c)
    \/ OpenPlan(c) \/ Refuses(c) \/ Stages(c) \/ CompleteOperation(c) \/ Finishes(c)
    \/ (\E o \in Remaining(c) : StartOperation(c, o)) \/ Puts(c)
Acts(c) == Quiet(c) \/ Writes(c) \/ Adopts(c)
Edits == \E p \in Paths : \E e \in PersonalEntries(p), renamed \in BOOLEAN : Edit(p, e, renamed)

LEMMA StepActs ==
    ASSUME TypeOK, NEW c \in Publishers,
           Prepare(c) \/ Apply(c) \/ Conclude(c) \/ Discard(c) \/ Crash(c)
    PROVE  Acts(c)
<1>1. CASE Prepare(c)
  <2>1. Prepare(c) => \/ QuietSteps(c) \/ Reconcile(c) \/ Reannounce(c) \/ OpenPlan(c)
                      \/ AdoptSteps(c)
    BY DEF Prepare, QuietSteps, QuietPreflight, QuietScan, OpenPlan, AdoptSteps
  <2>2. QED
    BY <1>1, <2>1, QuietStep, AdoptStep DEF Acts, Writes
<1>2. CASE Apply(c)
  <2>1. Perform(c) => Stages(c) \/ Puts(c)
    BY DEF Stages, Puts
  <2>2. Apply(c) => \/ QuietSteps(c) \/ AnnounceOperation(c) \/ AdvanceCursor(c) \/ Refuses(c)
                    \/ (\E o \in Remaining(c) : StartOperation(c, o)) \/ Puts(c) \/ Stages(c)
                    \/ CompleteOperation(c) \/ AdoptSteps(c)
    BY <2>1 DEF Apply, QuietSteps, Refusal, Refuses, AdoptSteps, Puts
  <2>3. QED
    BY <1>2, <2>2, QuietStep, AdoptStep DEF Acts, Writes
<1>3. CASE Conclude(c) \/ Discard(c) \/ Crash(c)
  <2>1. Conclude(c) \/ Discard(c) \/ Crash(c) => QuietSteps(c) \/ Finishes(c) \/ AdoptSteps(c)
    BY DEF Conclude, Discard, QuietSteps, Finishes, AdoptSteps
  <2>2. QED
    BY <1>3, <2>1, QuietStep, AdoptStep DEF Acts, Writes
<1>4. QED
  BY <1>1, <1>2, <1>3

\* Only the owner of the lease writes a row that is not published yet.
Fenced(c) == owner' \in {owner, c} /\ (row' # row => owner = c \/ row.status = "published")

LEMMA FencedStep ==
    ASSUME NEW c \in Publishers,
           Prepare(c) \/ Apply(c) \/ Conclude(c) \/ Discard(c) \/ Crash(c)
    PROVE  Fenced(c)
<1>1. UNCHANGED <<row, owner>> => Fenced(c)
  BY DEF Fenced
<1>2. CASE Prepare(c)
  <2>1. Begin(c) => Fenced(c)
    BY DEF Begin, Fenced
  <2>2. CreatePublication(c) \/ MarkApplying(c) => Fenced(c)
    BY DEF CreatePublication, MarkApplying, Stay, Observes, Fenced
  <2>3. Reconcile(c) \/ Reannounce(c) => Fenced(c)
    BY DEF Reconcile, Reannounce, Stay, Observes, Fenced
  <2>4. Lock(c) \/ LockTimesOut(c) \/ ScanOriginal(c) \/ ShadowIsGone(c) => UNCHANGED <<row, owner>>
    BY DEF Lock, LockTimesOut, ScanOriginal, ShadowIsGone
  <2>5. Preflight(c) \/ Conflict(c) \/ ResumeActive(c) => UNCHANGED <<row, owner>>
    BY DEF Preflight, Conflict, ResumeActive, Stay, Write
  <2>6. QED
    BY <1>1, <1>2, <2>1, <2>2, <2>3, <2>4, <2>5 DEF Prepare
<1>3. CASE Apply(c)
  <2>1. ASSUME NEW o \in Remaining(c),
               SkipOperation(c, o) \/ StartOperation(c, o) \/ RefuseOperation(c, o)
                  \/ BlockOperation(c, o) \/ JournalMismatch(c, o)
        PROVE  UNCHANGED <<row, owner>>
    BY <2>1 DEF SkipOperation, StartOperation, RefuseOperation, BlockOperation, JournalMismatch,
                RecordConflict, Write, Stay
  <2>2. AnnounceOperation(c) \/ AdvanceCursor(c) => Fenced(c)
    BY DEF AnnounceOperation, AdvanceCursor, Stay, Observes, Fenced
  <2>3. Perform(c) \/ Swap(c) \/ GuardFails(c) \/ RmdirFails(c) \/ CompleteOperation(c)
           => UNCHANGED <<row, owner>>
    BY DEF Perform, Swap, GuardFails, RmdirFails, CompleteOperation, RecordConflict, Write, Stay
  <2>4. QED
    BY <1>1, <1>3, <2>1, <2>2, <2>3 DEF Apply
<1>4. CASE Conclude(c)
  <2>1. Verify(c) \/ Finish(c) \/ Rejected(c) => UNCHANGED <<row, owner>>
    BY DEF Verify, Finish, Rejected, Write, Stay
  <2>2. MarkPublished(c) \/ MarkConflicted(c) => Fenced(c)
    BY DEF MarkPublished, MarkConflicted, Fenced
  <2>3. QED
    BY <1>1, <1>4, <2>1, <2>2 DEF Conclude
<1>5. CASE Discard(c) \/ Crash(c)
  <2>1. BeginDiscard(c) => Fenced(c)
    BY DEF BeginDiscard, Fenced
  <2>2. CheckDiscard(c) \/ ReadDiscard(c) \/ RefuseDiscard(c) \/ MarkDiscarded(c)
           \/ RemoveShadow(c) \/ Crash(c) => UNCHANGED <<row, owner>>
    BY DEF CheckDiscard, ReadDiscard, RefuseDiscard, MarkDiscarded, RemoveShadow, Crash, Stay
  <2>3. QED
    BY <1>1, <1>5, <2>1, <2>2 DEF Discard
<1>6. QED
  BY <1>2, <1>3, <1>4, <1>5

LEMMA StepCases ==
    ASSUME TypeOK, Next
    PROVE  (\E c \in Publishers : Acts(c) /\ Fenced(c)) \/ Edits
  BY StepActs, FencedStep DEF Next, Edits

\* The row after a step that announces or advances is a row.
LEMMA RowAfter ==
    ASSUME TypeOK, NEW c \in Publishers,
           Reconcile(c) \/ Reannounce(c) \/ AnnounceOperation(c) \/ AdvanceCursor(c)
    PROVE  row' \in PublicationRow
<1>1. journal.count \in Nat
      /\ "planned" \in {"none", "planned", "applying", "conflicted", "published"}
  BY DEF TypeOK, Document
<1>2. row \in PublicationRow
      /\ (Advance(journal.count) \/ Announce(journal.count) => row' \in PublicationRow)
  BY <1>1, RowWrites DEF RowIs
<1>3. QED
  BY <1>2, RowSteps

\* From where a publisher writes, and to where.
LEMMA WriteMoves ==
    ASSUME TypeOK, NEW c \in Publishers, Writes(c)
    PROVE  /\ call[c].pc \in LockedPcs /\ call'[c].pc \in LockedPcs
           /\ call'[c].pc \in ScannedPcs \cup PlannedPcs =>
                 call[c].pc \in ScannedPcs \cup PlannedPcs
           /\ lock' = lock /\ Others(c) /\ edits' = edits /\ call'[c].cur = call[c].cur
           /\ Framed /\ call' \in [Publishers -> CallState]
           /\ journal' \in JournalRecord /\ row' \in PublicationRow /\ orig' \in Manifest
           /\ author' \in [Paths -> {"nobody", "baldr", "person"}]
<1> USE DEF LockedPcs, EndPcs, ScannedPcs, PlannedPcs
<1>t. row \in PublicationRow /\ orig \in Manifest
      /\ author \in [Paths -> {"nobody", "baldr", "person"}]
  BY DEF TypeOK, PublicationRow
<1>1. CASE Reconcile(c)
  BY <1>1, <1>t, RowSteps, RowAfter DEF RowStep, Moves, DiskSame, JournalSame, JournalIs
<1>2. CASE Reannounce(c)
  BY <1>2, <1>t, RowSteps, RowAfter DEF RowStep, Moves, DiskSame, JournalSame, JournalIs
<1>3. CASE AnnounceOperation(c)
  BY <1>3, <1>t, RowSteps, RowAfter DEF RowStep, Moves, DiskSame, JournalSame, JournalIs
<1>4. CASE AdvanceCursor(c)
  BY <1>4, <1>t, RowSteps, RowAfter DEF RowStep, Moves, DiskSame, JournalSame, JournalIs
<1>5. CASE OpenPlan(c)
  BY <1>5, <1>t, JournalSteps DEF JournalStep, Moves, DiskSame, JournalIs
<1>6. CASE Refuses(c)
  BY <1>6, <1>t, JournalSteps DEF JournalStep, Moves, DiskSame, JournalIs
<1>7. CASE Stages(c)
  BY <1>7, <1>t, JournalSteps DEF JournalStep, Moves, DiskSame, JournalIs
<1>8. CASE CompleteOperation(c)
  BY <1>8, <1>t, JournalSteps DEF JournalStep, Moves, DiskSame, JournalIs
<1>9. CASE Finishes(c)
  BY <1>9, <1>t, JournalSteps DEF JournalStep, Moves, DiskSame, JournalIs
<1>10. CASE \E o \in Remaining(c) : StartOperation(c, o)
  BY <1>10, <1>t, StartStep DEF DiskSame, JournalIs
<1>11. CASE Puts(c)
  BY <1>11, <1>t, PutStep DEF Moves, JournalSame, JournalIs
<1>12. QED
  BY <1>1, <1>2, <1>3, <1>4, <1>5, <1>6, <1>7, <1>8, <1>9, <1>10, <1>11 DEF Writes

\* ... and from where and to where it takes up a document.
LEMMA AdoptMoves ==
    ASSUME TypeOK, NEW c \in Publishers, Adopts(c)
    PROVE  /\ call[c].pc \in LockedPcs /\ call'[c].pc \in {"reconcile", "conflict", "published"}
           /\ lock' = lock /\ Others(c) /\ edits' = edits
           /\ Framed /\ call' \in [Publishers -> CallState] /\ journal' \in JournalRecord
           /\ row' = row /\ orig' = orig /\ author' = author
  BY DEF Adopts, Adopted, Scans, Moves, LockedPcs, DiskSame

LEMMA TypeInit == Init => TypeOK
<1> SUFFICES ASSUME Init PROVE TypeOK
  OBVIOUS
<1>1. plan \in Plans /\ orig \in Manifest
  BY PlanTypes DEF Init
<1>2. Nothing \in Manifest
  BY EntryTypes DEF Nothing, Manifest
<1>3. NewCall \in [pc : Pcs, cur : Manifest, done : SUBSET Operation]
  BY <1>2 DEF NewCall, Pcs
<1>4. call \in [Publishers -> [pc : Pcs, cur : Manifest, done : SUBSET Operation]]
  BY <1>3 DEF Init
<1>5. journal \in Document /\ NewJournal \in Document
  BY DEF Init, NewJournal, Document, Status
<1>6. row \in [status : {"none", "planned", "applying", "conflicted", "published"},
               next : Nat, inflight : Nat \cup {-1}]
  BY DEF Init
<1>7. author \in [Paths -> {"nobody", "baldr", "person"}]
  BY DEF Init
<1>8. owner \in Publishers \cup {Nobody} /\ lock \in Publishers \cup {Nobody}
  BY DEF Init
<1>s. shadow \in [is : {"current", "discarded", "removed"}, doc : Document,
                  seen : [Publishers -> Document], astray : BOOLEAN]
  BY <1>5 DEF Init, NewShadow
<1>9. edits = 0 /\ crashes = 0 /\ MaxEdits \in Nat /\ MaxCrashes \in Nat
  BY BoundsAssumption DEF Init
<1>10. edits \in 0..MaxEdits /\ crashes \in 0..MaxCrashes
  BY <1>9
<1>11. QED
  BY <1>1, <1>4, <1>5, <1>6, <1>7, <1>8, <1>s, <1>10 DEF TypeOK

LEMMA TypeStep == TypeOK /\ [Next]_vars => TypeOK'
<1> SUFFICES ASSUME TypeOK, [Next]_vars PROVE TypeOK'
  OBVIOUS
<1>t. row \in PublicationRow /\ orig \in Manifest
      /\ author \in [Paths -> {"nobody", "baldr", "person"}]
  BY DEF TypeOK, PublicationRow
<1>1. CASE UNCHANGED vars
  BY <1>1 DEF TypeOK, vars
<1>2. ASSUME Framed, call' \in [Publishers -> CallState], journal' \in JournalRecord,
             row' \in PublicationRow, orig' \in Manifest,
             author' \in [Paths -> {"nobody", "baldr", "person"}]
      PROVE  TypeOK'
  BY <1>2 DEF TypeOK, Framed, ShadowKept, ShadowRecord, CallState, Document, JournalRecord,
              PublicationRow
<1>3. ASSUME NEW c \in Publishers, Quiet(c) PROVE TypeOK'
  <2>1. call' \in [Publishers -> CallState]
    BY <1>3 DEF Quiet, Retires, Walks, Moves, Scans, Skips
  <2>2. QED
    BY <1>2, <1>3, <1>t, <2>1 DEF Quiet, DiskSame, JournalSame, JournalIs, RowSame
<1>4. ASSUME NEW c \in Publishers, Writes(c) \/ Adopts(c) PROVE TypeOK'
  BY <1>2, <1>4, <1>t, WriteMoves, AdoptMoves
<1>5. CASE Edits
  <2>1. call \in [Publishers -> CallState]
    BY DEF TypeOK, CallState
  <2>2. QED
    BY <1>2, <1>5, <1>t, <2>1, EditStep DEF Edits, JournalIs
<1>6. QED
  BY <1>1, <1>3, <1>4, <1>5, StepCases DEF Acts

\* Every variable keeps its type.
THEOREM TypeCorrect == Spec => []TypeOK
  BY TypeInit, TypeStep, PTL DEF Spec

-----------------------------------------------------------------------------
(* The lock keeps the others out.                                           *)

\* While a publisher has the lock, the others only come, leave, or discard.
LEMMA Bystander ==
    ASSUME TypeOK, LockIsHeld, NEW c \in Publishers, NEW e \in Publishers, e # c, Acts(c),
           call[e].pc \in LockedPcs
    PROVE  Quiet(c) /\ call'[e] = call[e] /\ lock' = lock
<1>1. lock = e /\ e # Nobody
  BY BoundsAssumption DEF LockIsHeld
<1>2. call[c].pc \notin LockedPcs
  BY <1>1 DEF LockIsHeld
<1>3. Quiet(c)
  BY <1>2, WriteMoves, AdoptMoves DEF Acts
<1>4. Others(c)
  BY <1>3 DEF Quiet, Retires, Walks, Moves, Scans, Skips
<1>5. lock' = lock
  BY <1>1, <1>2, <1>3 DEF Quiet, Retires, Walks, Leads, Scans, Skips
<1>6. QED
  BY <1>3, <1>4, <1>5 DEF Others

LEMMA OthersStay ==
    ASSUME TypeOK, NEW c \in Publishers, NEW e \in Publishers, e # c, Acts(c)
    PROVE  call'[e] = call[e]
<1>1. Others(c)
  BY WriteMoves, AdoptMoves DEF Acts, Quiet, Retires, Walks, Moves, Scans, Skips
<1>2. QED
  BY <1>1 DEF Others

LEMMA LockStep == TypeOK /\ LockIsHeld /\ [Next]_vars => LockIsHeld'
<1> SUFFICES ASSUME TypeOK, LockIsHeld, [Next]_vars, NEW e \in Publishers,
                    call'[e].pc \in LockedPcs
             PROVE  lock' = e
  BY DEF LockIsHeld
<1>1. CASE UNCHANGED vars
  BY <1>1 DEF LockIsHeld, vars
<1>2. CASE Edits
  BY <1>2, EditStep DEF LockIsHeld, Edits
<1>3. ASSUME NEW c \in Publishers, Acts(c) PROVE lock' = e
  <2>1. CASE e # c
    BY <1>3, <2>1, Bystander, OthersStay DEF LockIsHeld
  <2>2. CASE e = c /\ (Writes(c) \/ Adopts(c))
    BY <2>2, WriteMoves, AdoptMoves DEF LockIsHeld
  <2>3. CASE e = c /\ Quiet(c)
    <3>1. call'[c].pc \in LockedPcs
      BY <2>3
    <3>2. CASE Retires(c)
      BY <3>1, <3>2 DEF Retires, LockedPcs
    <3>3. CASE Walks(c)
      BY <2>3, <3>1, <3>3 DEF Walks, Moves, Leads, LockedPcs, LockIsHeld
    <3>4. CASE Scans(c) \/ Skips(c)
      BY <2>3, <3>1, <3>4 DEF Scans, Skips, LockedPcs, LockIsHeld
    <3>5. QED
      BY <2>3, <3>2, <3>3, <3>4 DEF Quiet
  <2>4. QED
    BY <1>3, <2>1, <2>2, <2>3 DEF Acts
<1>4. QED
  BY <1>1, <1>2, <1>3, StepCases

-----------------------------------------------------------------------------
(* The two journals.                                                        *)

\* Quiet steps and edits keep what the journals say.
LEMMA JournalsStay ==
    ASSUME JournalInv, DiskSame \/ (\A p \in Paths : author'[p] = "baldr" => author[p] = "baldr"),
           JournalSame \/ JournalIs(journal.status, journal.pub, journal.count, journal.active,
                                    journal'.moved),
           RowSame, shadow.astray => shadow'.astray
    PROVE  JournalsAgree' /\ EffectsAreKnown' /\ (IntentIsShown => IntentIsShown')
<1>1. /\ row'.next = row.next /\ row'.inflight = row.inflight /\ journal'.count = journal.count
      /\ row.status = "published" => row'.status = "published"
  BY DEF RowSame, JournalSame, JournalIs
<1>2. Marked' => Marked
  BY DEF Marked, DiskSame
<1>3. QED
  BY <1>1, <1>2 DEF JournalInv, JournalsAgree, EffectsAreKnown, IntentIsShown, Behind

LEMMA JournalInit == Init => JournalInv
<1> SUFFICES ASSUME Init PROVE JournalInv
  OBVIOUS
<1>1. \A c \in Publishers : call[c].pc = "new" /\ shadow.seen[c] = NewJournal
  BY DEF Init, NewCall, NewShadow
<1>2. /\ journal = NewJournal /\ shadow.doc = NewJournal /\ row.next = 0 /\ row.inflight = -1
      /\ \A p \in Paths : author[p] = "nobody"
  BY DEF Init, NewShadow
<1>3. Spent(NewJournal) /\ NewJournal.status # "conflicted"
  BY <1>2 DEF NewJournal, Spent, Lags, Unsafe
<1>4. DocumentsAreSpent
  BY <1>1, <1>2, <1>3 DEF DocumentsAreSpent, Tidy, NewJournal
<1>5. JournalsAgree /\ EffectsAreKnown
  BY <1>2 DEF NewJournal, JournalsAgree, EffectsAreKnown, Marked
<1>6. \A c \in Publishers : Announced(c) /\ Reserved(c)
  BY <1>1 DEF Announced, Reserved, DiscardPcs
<1>7. QED
  BY <1>4, <1>5, <1>6 DEF JournalInv

LEMMA FramedStep ==
    ASSUME TypeOK, Edits \/ \E c \in Publishers : Acts(c)
    PROVE  Framed /\ (shadow.astray => shadow'.astray)
<1>1. Framed
  BY EditStep, WriteMoves, AdoptMoves DEF Edits, Acts, Quiet
<1>2. QED
  BY <1>1 DEF Framed, ShadowKept

\* Whatever the step: the row never falls behind a document it has kept up with.
LEMMA LagsStay ==
    ASSUME TypeOK, JournalInv, Edits \/ \E c \in Publishers : Acts(c), NEW n \in Nat, Lags(n)
    PROVE  Lags(n)'
<1>t. /\ row.next \in Nat /\ row.inflight \in Nat \cup {-1} /\ journal.count \in Nat
      /\ JournalsAgree
      /\ "planned" \in {"none", "planned", "applying", "conflicted", "published"}
  BY DEF TypeOK, Document, JournalInv
<1>1. RowSame => Lags(n)'
  BY DEF RowSame, Lags
<1>2. CASE Edits
  BY <1>1, <1>2, EditStep, SameParts DEF Edits
<1>3. ASSUME NEW c \in Publishers, Reconcile(c) \/ Reannounce(c) \/ AnnounceOperation(c)
                                     \/ AdvanceCursor(c)
      PROVE  Lags(n)'
  <2>1. Advance(journal.count) =>
           \/ row.status = "published" /\ row' = row
           \/ /\ row.status # "published"
              /\ row'.next = IF journal.count > row.next THEN journal.count ELSE row.next
              /\ row'.inflight = IF journal.count > row.inflight THEN -1 ELSE row.inflight
    BY <1>t, RowWrites DEF RowIs
  <2>2. Announce(journal.count) =>
           \/ (row.status = "published" \/ row.next > journal.count) /\ row' = row
           \/ /\ row.status # "published" /\ ~(row.next > journal.count)
              /\ row'.next = row.next /\ row'.inflight = journal.count
    BY <1>t, RowWrites DEF RowIs
  <2>3. row' = row => Lags(n)'
    BY DEF Lags
  <2>4. CASE Advance(journal.count)
    <3>1. CASE row' = row
      BY <2>3, <3>1
    <3>2. CASE row.status # "published" /\ journal.count > row.next
      BY <1>t, <2>1, <2>4, <3>2 DEF Lags
    <3>3. CASE row.status # "published" /\ ~(journal.count > row.next)
      BY <1>t, <2>1, <2>4, <3>3 DEF Lags
    <3>4. QED
      BY <2>1, <2>4, <3>1, <3>2, <3>3
  <2>5. CASE Announce(journal.count) /\ (row.status = "published" \/ CanAnnounce(journal.count))
    BY <1>t, <2>2, <2>3, <2>5 DEF Lags, CanAnnounce
  <2>6. QED
    BY <1>3, <2>3, <2>4, <2>5, RowSteps
<1>4. ASSUME NEW c \in Publishers, Acts(c) PROVE Lags(n)'
  <2>1. CASE Quiet(c)
    BY <1>1, <2>1 DEF Quiet
  <2>2. CASE Adopts(c)
    BY <1>1, <2>2, SameParts DEF Adopts
  <2>3. CASE OpenPlan(c) \/ Refuses(c) \/ Stages(c) \/ CompleteOperation(c) \/ Finishes(c)
    BY <1>1, <2>3, JournalSteps, SameParts DEF JournalStep
  <2>4. CASE (\E o \in Remaining(c) : StartOperation(c, o)) \/ Puts(c)
    BY <1>1, <2>4, StartStep, PutStep, SameParts
  <2>5. QED
    BY <1>3, <1>4, <2>1, <2>2, <2>3, <2>4 DEF Acts, Writes
<1>5. QED
  BY <1>2, <1>4

\* A journal outside of an attempt has nothing under way.
LEMMA TidyStep ==
    ASSUME TypeOK, JournalInv, Edits \/ \E c \in Publishers : Acts(c)
    PROVE  Tidy'
<1>t. Tidy /\ Spent(shadow.doc)
  BY DEF JournalInv, DocumentsAreSpent
<1>1. CASE Edits
  BY <1>1, <1>t, EditStep DEF Edits, JournalIs, Tidy
<1>2. ASSUME NEW c \in Publishers, Acts(c) PROVE Tidy'
  <2>s. JournalSame => Tidy'
    BY <1>t DEF JournalSame, JournalIs, Tidy
  <2>1. CASE Quiet(c)
    BY <2>1, <2>s DEF Quiet
  <2>2. CASE Adopts(c)
    BY <2>2, <1>t DEF Adopts, Adopted, Spent, Tidy
  <2>3. CASE Reconcile(c) \/ Reannounce(c) \/ AnnounceOperation(c) \/ AdvanceCursor(c)
    BY <2>3, <2>s, RowSteps DEF RowStep
  <2>4. CASE OpenPlan(c)
    BY <2>4, <1>t, JournalSteps DEF JournalIs, Tidy, Unsafe
  <2>5. CASE Refuses(c)
    BY <2>5, <1>t, JournalSteps DEF JournalIs, PubAfterConflict, Tidy, Unsafe
  <2>6. CASE Stages(c)
    <3>1. /\ call[c].pc = "effect" /\ journal'.pub = journal.pub /\ journal'.active = journal.active
      BY <2>6, JournalSteps DEF JournalStep, Moves, JournalIs
    <3>2. Announced(c)
      BY DEF JournalInv
    <3>3. QED
      BY <3>1, <3>2, <1>t DEF Announced, Tidy
  <2>7. CASE CompleteOperation(c) \/ Finishes(c)
    BY <2>7, JournalSteps DEF JournalIs, Tidy
  <2>8. CASE \E o \in Remaining(c) : StartOperation(c, o)
    BY <2>8, StartStep DEF JournalIs, Tidy, Unsafe, NoOp, Operation, Action
  <2>9. CASE Puts(c)
    BY <2>9, <2>s, PutStep
  <2>10. QED
    BY <1>2, <2>1, <2>2, <2>3, <2>4, <2>5, <2>6, <2>7, <2>8, <2>9 DEF Acts, Writes
<1>3. QED
  BY <1>1, <1>2

\* What a discard reads or writes is spent, and stays so.
LEMMA DocumentsStep ==
    ASSUME TypeOK, JournalInv, Edits \/ \E c \in Publishers : Acts(c)
    PROVE  DocumentsAreSpent'
<1>1. Framed
  BY FramedStep
<1>2. ASSUME NEW d \in Document, Readable(d) PROVE Spent(d)
  <2>1. \A e \in Document : SameData(d, e) /\ Spent(e) => Spent(d)
    BY DEF SameData, Spent
  <2>2. NewJournal \in Document /\ journal \in Document /\ shadow.doc \in Document
        /\ \A c \in Publishers : shadow.seen[c] \in Document
    BY DocumentTypes
  <2>3. Spent(NewJournal)
    BY DEF NewJournal, Spent, Lags, Unsafe, TypeOK
  <2>4. ~DiscardIsUnsafe(journal) => Spent(journal)
    BY DEF DiscardIsUnsafe, Unsafe, Spent, Lags, JournalInv, DocumentsAreSpent, Tidy, JournalsAgree
  <2>5. Spent(shadow.doc) /\ \A c \in Publishers : Spent(shadow.seen[c])
    BY DEF JournalInv, DocumentsAreSpent
  <2>6. QED
    BY <1>2, <2>1, <2>2, <2>3, <2>4, <2>5 DEF Readable
<1>3. \A n \in Nat : Lags(n) => Lags(n)'
  BY LagsStay
<1>4. shadow' \in ShadowRecord
  BY <1>1 DEF Framed, ShadowKept
<1>5. /\ shadow'.doc \in Document /\ Readable(shadow'.doc)
      /\ \A c \in Publishers : shadow'.seen[c] \in Document /\ Readable(shadow'.seen[c])
      /\ shadow'.doc.status \in {shadow.doc.status, "checkpointed", "discarded"}
  BY <1>1, <1>4 DEF Framed, ShadowKept, ShadowRecord
<1>6. ASSUME NEW d \in Document, Readable(d)
      PROVE  d.active = NoOp /\ d.moved = {} /\ d.pub \notin Unsafe /\ Lags(d.count)'
  <2>1. d.count \in Nat
    BY DEF Document
  <2>2. QED
    BY <1>2, <1>3, <1>6, <2>1 DEF Spent
<1>7. Spent(shadow.doc)' /\ \A c \in Publishers : Spent(shadow.seen[c])'
  BY <1>5, <1>6 DEF Spent, Lags
<1>8. (shadow.doc.status # "conflicted")'
  BY <1>5 DEF JournalInv, DocumentsAreSpent
<1>9. QED
  BY <1>7, <1>8, TidyStep DEF DocumentsAreSpent

\* Nobody but the owner of the lease announces what a discard rules out.
LEMMA ReservedStep ==
    ASSUME TypeOK, LockIsHeld, JournalInv, NEW c \in Publishers, Acts(c), Fenced(c),
           NEW e \in Publishers
    PROVE  Reserved(e)'
<1>r. Reserved(e)
  BY DEF JournalInv
<1>1. SUFFICES ASSUME call'[e].pc \in DiscardPcs, owner' = e
               PROVE  row'.status # "published" /\ row'.inflight = -1 /\ row'.next = 0
  BY DEF Reserved
<1>2. CASE e # c
  <2>1. call'[e] = call[e] /\ owner = e
    BY <1>1, <1>2, OthersStay DEF Fenced
  <2>2. row' = row
    BY <1>1, <1>2, <1>r, <2>1 DEF Fenced, Reserved
  <2>3. QED
    BY <1>1, <1>r, <2>1, <2>2 DEF Reserved
<1>3. CASE e = c
  <2>1. call'[c].pc \in DiscardPcs
    BY <1>1, <1>3
  <2>2. Quiet(c)
    BY <2>1, WriteMoves, AdoptMoves DEF Acts, LockedPcs, DiscardPcs
  <2>3. Walks(c)
    BY <2>1, <2>2 DEF Quiet, Retires, Scans, Skips, DiscardPcs
  <2>4. Leads(c, call'[c].pc)
    BY <2>3 DEF Walks, Moves
  <2>5. row' = row
        /\ \/ ~MayBeModified /\ row.status # "published"
           \/ call[c].pc \in DiscardPcs /\ owner' = owner
    BY <2>1, <2>4 DEF Leads, DiscardPcs, LockedPcs
  <2>6. CASE call[c].pc \in DiscardPcs /\ owner' = owner
    BY <1>1, <1>3, <1>r, <2>5, <2>6 DEF Reserved
  <2>7. CASE ~MayBeModified /\ row.status # "published"
    <3>1. row.inflight = -1 /\ row.next = 0
      BY <2>7 DEF MayBeModified, TypeOK
    <3>2. QED
      BY <2>5, <2>7, <3>1
  <2>8. QED
    BY <2>5, <2>6, <2>7
<1>4. QED
  BY <1>2, <1>3

\* The journals themselves, and what is announced in them.
LEMMA JournalsStep ==
    TypeOK /\ LockIsHeld /\ JournalInv /\ Next =>
        JournalsAgree' /\ EffectsAreKnown' /\ \A c \in Publishers : Announced(c)'
<1> DEFINE Goal == JournalsAgree' /\ EffectsAreKnown' /\ \A c \in Publishers : Announced(c)'
<1> SUFFICES ASSUME TypeOK, LockIsHeld, JournalInv, Next PROVE Goal
  OBVIOUS
<1>t. /\ row.next \in Nat /\ row.inflight \in Nat \cup {-1} /\ journal.count \in Nat
      /\ JournalsAgree /\ EffectsAreKnown
      /\ "planned" \in {"none", "planned", "applying", "conflicted", "published"}
  BY DEF TypeOK, Document, JournalInv
<1>k. Framed => (shadow.astray => shadow'.astray)
  BY DEF Framed, ShadowKept
<1>2. CASE Edits
  <2>1. /\ call' = call /\ row' = row /\ Framed
        /\ JournalIs(journal.status, journal.pub, journal.count, journal.active, journal'.moved)
        /\ \A q \in Paths : author'[q] = "baldr" => author[q] = "baldr"
    BY <1>2, EditStep DEF Edits
  <2>2. RowSame
    BY <2>1, SameParts
  <2>3. JournalsAgree' /\ EffectsAreKnown' /\ (IntentIsShown => IntentIsShown')
    BY <2>1, <2>2, <1>k, JournalsStay
  <2>4. ASSUME NEW c \in Publishers PROVE Announced(c)'
    BY <2>1, <2>3, <1>k DEF Announced, Behind, JournalInv, JournalIs
  <2>5. QED
    BY <2>3, <2>4
<1>3. ASSUME NEW c \in Publishers, Quiet(c) PROVE Goal
  <2>1. JournalsAgree' /\ EffectsAreKnown' /\ (IntentIsShown => IntentIsShown')
    BY <1>3, <1>k, JournalsStay DEF Quiet
  <2>2. /\ row'.next = row.next /\ journal'.count = journal.count
        /\ journal'.active = journal.active
        /\ row.status = "published" => row'.status = "published"
        /\ Behind => Behind'
    BY <1>3, <1>k DEF Quiet, RowSame, JournalSame, JournalIs, Behind
  <2>3. ASSUME NEW e \in Publishers, call'[e].pc = call[e].pc PROVE Announced(e)'
    BY <2>1, <2>2, <2>3 DEF Announced, JournalInv
  <2>4. ASSUME NEW e \in Publishers, e # c PROVE Announced(e)'
    BY <1>3, <2>3, <2>4, OthersStay DEF Acts
  <2>5. Announced(c)'
    <3>1. CASE Retires(c) \/ Scans(c) \/ Skips(c)
      BY <3>1 DEF Announced, Retires, Scans, Skips
    <3>2. CASE Walks(c)
      BY <2>1, <2>2, <3>2 DEF Announced, Walks, Moves, Leads, LockedPcs, JournalInv
    <3>3. QED
      BY <1>3, <3>1, <3>2 DEF Quiet
  <2>6. QED
    BY <2>1, <2>4, <2>5
<1>4. ASSUME NEW c \in Publishers, Writes(c) \/ Adopts(c), JournalsAgree', EffectsAreKnown',
             Announced(c)'
      PROVE  Goal
  <2>1. ASSUME NEW e \in Publishers, e # c PROVE Announced(e)'
    <3>1. call'[e] = call[e] /\ call[c].pc \in LockedPcs
      BY <1>4, <2>1, OthersStay, WriteMoves, AdoptMoves DEF Acts
    <3>2. call'[e].pc \notin LockedPcs
      BY <2>1, <3>1 DEF LockIsHeld
    <3>3. QED
      BY <3>2 DEF Announced, LockedPcs
  <2>2. QED
    BY <1>4, <2>1
<1>5. ASSUME NEW c \in Publishers, Writes(c)
      PROVE  JournalsAgree' /\ EffectsAreKnown' /\ Announced(c)'
  <2>c. Announced(c)
    BY DEF JournalInv
  <2>k. DiskSame => Marked' = Marked
    BY DEF DiskSame, Marked
  <2>a. Advance(journal.count) =>
           \/ row.status = "published" /\ row' = row
           \/ /\ row.status # "published"
              /\ row'.next = IF journal.count > row.next THEN journal.count ELSE row.next
              /\ row'.inflight = IF journal.count > row.inflight THEN -1 ELSE row.inflight
    BY <1>t, RowWrites DEF RowIs
  <2>b. Announce(journal.count) =>
           \/ (row.status = "published" \/ row.next > journal.count) /\ row' = row
           \/ /\ row.status # "published" /\ ~(row.next > journal.count)
              /\ row'.next = row.next /\ row'.inflight = journal.count
    BY <1>t, RowWrites DEF RowIs
  <2>s. JournalSame => journal'.count = journal.count /\ journal'.active = journal.active
    BY DEF JournalSame, JournalIs
  <2>f. Framed /\ (shadow.astray => shadow'.astray)
    BY <1>5, <1>k, WriteMoves
  <2>1. CASE Reconcile(c)
    <3>1. /\ DiskSame /\ JournalSame
          /\ call'[c].pc = IF journal.active = NoOp THEN "preflight" ELSE "announce"
          /\ row.status = "published" \/ CanAdvance(row.next, journal.count)
          /\ IF journal.count > row.next THEN Advance(journal.count) ELSE row' = row
      BY <2>1, RowSteps DEF RowStep, Moves
    <3>2. JournalsAgree' /\ EffectsAreKnown'
          /\ (row'.status = "published" \/ Behind' \/ row'.next = journal'.count)
      <4>1. CASE row.status = "published"
        BY <4>1, <3>1, <2>a, <2>k, <2>s, <1>t DEF JournalsAgree, EffectsAreKnown
      <4>2. CASE row.status # "published" /\ ~(journal.count > row.next)
        BY <4>2, <3>1, <2>f, <2>k, <2>s, <1>t DEF JournalsAgree, EffectsAreKnown, Behind
      <4>3. CASE row.status # "published" /\ journal.count > row.next
        BY <4>3, <3>1, <2>a, <2>f, <2>s, <1>t DEF JournalsAgree, EffectsAreKnown
      <4>4. QED
        BY <4>1, <4>2, <4>3
    <3>3. Announced(c)'
      BY <3>1, <3>2, <2>s DEF Announced
    <3>4. QED
      BY <3>2, <3>3
  <2>2. CASE Reannounce(c) \/ AnnounceOperation(c)
    <3>1. /\ DiskSame /\ JournalSame /\ Announce(journal.count)
          /\ call'[c].pc = "preflight" \/ (call[c].pc = "started" /\ call'[c].pc = "effect")
          /\ row.status = "published" \/ CanAnnounce(journal.count)
      BY <2>2, RowSteps DEF RowStep, Moves
    <3>2. JournalsAgree' /\ EffectsAreKnown' /\ IntentIsShown'
      <4>1. CASE row.status = "published"
        BY <4>1, <3>1, <2>b, <2>k, <2>s, <1>t DEF JournalsAgree, EffectsAreKnown, IntentIsShown
      <4>2. CASE row.status # "published"
        BY <4>2, <3>1, <2>b, <2>f, <2>k, <2>s, <1>t
           DEF JournalsAgree, EffectsAreKnown, IntentIsShown, Behind, CanAnnounce
      <4>3. QED
        BY <4>1, <4>2
    <3>3. Announced(c)'
      BY <3>1, <3>2, <2>c, <2>s DEF Announced
    <3>4. QED
      BY <3>2, <3>3
  <2>3. CASE AdvanceCursor(c)
    <3>1. /\ DiskSame /\ JournalSame /\ Advance(journal.count)
          /\ call[c].pc \in {"completed", "settled"} /\ call'[c].pc \in {"apply", "applied"}
          /\ row.status = "published" \/ CanAdvance(journal.count - 1, journal.count)
      BY <2>3, RowSteps DEF RowStep, Moves
    <3>2. JournalsAgree' /\ EffectsAreKnown'
      <4>1. CASE row.status = "published"
        BY <4>1, <3>1, <2>a, <2>k, <2>s, <1>t DEF JournalsAgree, EffectsAreKnown
      <4>2. CASE row.status # "published"
        BY <4>2, <3>1, <2>a, <2>f, <2>k, <2>s, <1>t DEF JournalsAgree, EffectsAreKnown, CanAdvance
      <4>3. QED
        BY <4>1, <4>2
    <3>3. Announced(c)'
      BY <3>1, <2>c, <2>s DEF Announced
    <3>4. QED
      BY <3>2, <3>3
  <2>4. CASE OpenPlan(c)
    <3>1. /\ DiskSame /\ row' = row /\ call[c].pc = "preflight" /\ call'[c].pc = "resume"
          /\ journal'.count = journal.count /\ journal'.active = journal.active
      BY <2>4, JournalSteps DEF JournalStep, Moves, JournalIs
    <3>2. QED
      BY <3>1, <2>c, <2>f, <2>k, <1>t DEF JournalsAgree, EffectsAreKnown, Announced, IntentIsShown, Behind
  <2>5. CASE Refuses(c)
    <3>1. /\ DiskSame /\ row' = row /\ call'[c].pc = "conflict"
          /\ journal'.count = journal.count
      BY <2>5, JournalSteps DEF JournalStep, Moves, JournalIs
    <3>2. QED
      BY <3>1, <2>f, <2>k, <1>t DEF JournalsAgree, EffectsAreKnown, Announced
  <2>6. CASE Stages(c)
    <3>1. /\ DiskSame /\ row' = row /\ call[c].pc = "effect" /\ call'[c].pc = "staged"
          /\ journal'.count = journal.count /\ journal'.active = journal.active
      BY <2>6, JournalSteps DEF JournalStep, Moves, JournalIs
    <3>2. QED
      BY <3>1, <2>c, <2>f, <2>k, <1>t DEF JournalsAgree, EffectsAreKnown, Announced, IntentIsShown, Behind
  <2>7. CASE CompleteOperation(c)
    <3>1. /\ DiskSame /\ row' = row
          /\ call[c].pc \in {"effected", "present"} /\ call'[c].pc \in {"completed", "settled"}
          /\ journal'.count = journal.count + 1 /\ journal'.active = NoOp
      BY <2>7, JournalSteps DEF JournalStep, Moves, JournalIs
    <3>2. IntentIsShown
      BY <3>1, <2>c DEF Announced
    <3>3. QED
      BY <3>1, <3>2, <2>f, <2>k, <1>t DEF JournalsAgree, EffectsAreKnown, Announced, IntentIsShown, Behind
  <2>8. CASE Finishes(c)
    <3>1. /\ DiskSame /\ row' = row /\ call'[c].pc = "published"
          /\ journal'.count = journal.count
      BY <2>8, JournalSteps DEF JournalStep, Moves, JournalIs
    <3>2. QED
      BY <3>1, <2>f, <2>k, <1>t DEF JournalsAgree, EffectsAreKnown, Announced
  <2>9. CASE \E o \in Remaining(c) : StartOperation(c, o)
    <3>1. /\ DiskSame /\ row' = row /\ call'[c].pc = "started"
          /\ journal'.count = journal.count /\ journal'.active # NoOp
      BY <2>9, StartStep DEF JournalIs, Operation, Action, NoOp
    <3>2. QED
      BY <3>1, <2>f, <2>k, <1>t DEF JournalsAgree, EffectsAreKnown, Announced
  <2>10. CASE Puts(c)
    <3>1. /\ row' = row /\ JournalSame
          /\ call[c].pc \in {"effect", "staged"} /\ call'[c].pc = "effected"
      BY <2>10, PutStep DEF Moves
    <3>2. IntentIsShown
      BY <3>1, <2>c DEF Announced
    <3>3. journal.active # NoOp
      BY <3>1, <2>c DEF Announced
    <3>4. QED
      BY <3>1, <3>2, <3>3, <2>f, <2>s, <1>t
         DEF JournalsAgree, EffectsAreKnown, Announced, IntentIsShown, Behind
  <2>11. QED
    BY <1>5, <2>1, <2>2, <2>3, <2>4, <2>5, <2>6, <2>7, <2>8, <2>9, <2>10 DEF Writes
<1>6. ASSUME NEW c \in Publishers, Adopts(c) PROVE Goal
  <2>1. /\ row' = row /\ DiskSame /\ shadow'.astray /\ journal'.count = shadow.doc.count
        /\ call'[c].pc \in {"reconcile", "conflict", "published"}
    BY <1>6, AdoptMoves DEF Adopts, Adopted
  <2>2. Lags(journal'.count)
    BY <2>1 DEF JournalInv, DocumentsAreSpent, Spent
  <2>3. JournalsAgree' /\ EffectsAreKnown'
    BY <2>1, <2>2, <1>t DEF JournalsAgree, EffectsAreKnown, Marked, DiskSame, Lags
  <2>4. Announced(c)'
    BY <2>1 DEF Announced
  <2>5. QED
    BY <1>4, <1>6, <2>3, <2>4
<1>7. QED
  BY <1>2, <1>3, <1>4, <1>5, <1>6, StepCases DEF Acts

LEMMA JournalStepInv == TypeOK /\ LockIsHeld /\ JournalInv /\ [Next]_vars => JournalInv'
<1> SUFFICES ASSUME TypeOK, LockIsHeld, JournalInv, [Next]_vars PROVE JournalInv'
  OBVIOUS
<1>1. CASE UNCHANGED vars
  BY <1>1 DEF JournalInv, JournalsAgree, EffectsAreKnown, Marked, DocumentsAreSpent, Tidy, Spent,
              Lags, Announced, IntentIsShown, Behind, Reserved, vars
<1>2. CASE Next
  <2>1. JournalsAgree' /\ EffectsAreKnown' /\ \A c \in Publishers : Announced(c)'
    BY <1>2, JournalsStep
  <2>2. DocumentsAreSpent'
    BY <1>2, StepCases, DocumentsStep
  <2>3. ASSUME NEW e \in Publishers PROVE Reserved(e)'
    <3>1. CASE Edits
      <4>1. owner' = owner /\ row' = row /\ call' = call
        BY <3>1 DEF Edits, Edit
      <4>2. QED
        BY <4>1 DEF JournalInv, Reserved
    <3>2. QED
      BY <1>2, <3>1, StepCases, ReservedStep
  <2>4. QED
    BY <2>1, <2>2, <2>3 DEF JournalInv
<1>3. QED
  BY <1>1, <1>2

\* The database is at most one operation behind the files and never ahead of them,
\* and once an effect of Baldr is in the original, the row says that it may be.
THEOREM JournalsAreTrue == Spec => []JournalsTellTheTruth
<1>1. Init => TypeOK /\ LockIsHeld /\ JournalInv
  BY TypeInit, JournalInit DEF Init, NewCall, LockIsHeld, LockedPcs
<1>2. TypeOK /\ LockIsHeld /\ JournalInv /\ [Next]_vars => (TypeOK /\ LockIsHeld /\ JournalInv)'
  BY TypeStep, LockStep, JournalStepInv
<1>3. TypeOK /\ JournalInv => JournalsTellTheTruth
  BY DEF JournalInv, EffectsAreKnown, RowKnowsEffects, Marked, MayBeModified, JournalsTellTheTruth
<1>4. QED
  BY <1>1, <1>2, <1>3, PTL DEF Spec

-----------------------------------------------------------------------------
(* The operations, and the guard of the one that is started.                *)

\* Which operations a plan has at which paths.
LEMMA OperationsAre ==
    ASSUME plan \in Plans, NEW m \in Manifest
    PROVE  /\ \A o \in Operations(m) :
                 /\ o \in Operation /\ o.path \in Paths
                 /\ o.action \in {"remove", "mkdir", "replace", "chmod"}
                 /\ o.action = "remove" => /\ m[o.path] # Absent
                                           /\ Merged(m)[o.path].kind # m[o.path].kind
                 /\ o.action \in {"mkdir", "chmod"} => IsDir(Merged(m)[o.path])
                 /\ o.action = "replace" => Merged(m)[o.path].kind = "file"
           /\ \A p \in Paths :
                 /\ m[p] # Absent /\ Merged(m)[p].kind # m[p].kind
                       => [action |-> "remove", path |-> p] \in Operations(m)
                 /\ IsDir(Merged(m)[p]) => [action |-> "chmod", path |-> p] \in Operations(m)
                 /\ Merged(m)[p].kind = "file"
                       => [action |-> "replace", path |-> p] \in Operations(m)
<1> DEFINE R == {p \in Paths : m[p] # Absent /\ Merged(m)[p].kind # m[p].kind}
           E == {p \in Paths : IsDir(Merged(m)[p])}
           F == {p \in Paths : Merged(m)[p].kind = "file"}
<1>1. Operations(m) = Op("remove", R) \cup Op("mkdir", E) \cup Op("replace", F) \cup Op("chmod", E)
  BY DEF Operations
<1>2. R \subseteq Paths /\ E \subseteq Paths /\ F \subseteq Paths
  OBVIOUS
<1>3. /\ \A p \in Paths : p \in R <=> m[p] # Absent /\ Merged(m)[p].kind # m[p].kind
      /\ \A p \in Paths : p \in E <=> IsDir(Merged(m)[p])
      /\ \A p \in Paths : p \in F <=> Merged(m)[p].kind = "file"
  OBVIOUS
<1> HIDE DEF R, E, F
<1>4. \A S : S \subseteq Paths =>
         /\ \A o \in Op("remove", S)  : o \in Operation /\ o.path \in S /\ o.action = "remove"
         /\ \A o \in Op("mkdir", S)   : o \in Operation /\ o.path \in S /\ o.action = "mkdir"
         /\ \A o \in Op("replace", S) : o \in Operation /\ o.path \in S /\ o.action = "replace"
         /\ \A o \in Op("chmod", S)   : o \in Operation /\ o.path \in S /\ o.action = "chmod"
  BY DEF Op, Operation, Action
<1>5. ASSUME NEW o \in Operations(m)
      PROVE  /\ o \in Operation /\ o.path \in Paths
             /\ o.action \in {"remove", "mkdir", "replace", "chmod"}
             /\ o.action = "remove" => o.path \in R
             /\ o.action \in {"mkdir", "chmod"} => o.path \in E
             /\ o.action = "replace" => o.path \in F
  BY <1>1, <1>2, <1>4, <1>5
<1>6. \A p : /\ p \in R => [action |-> "remove", path |-> p] \in Op("remove", R)
             /\ p \in E => [action |-> "chmod", path |-> p] \in Op("chmod", E)
             /\ p \in F => [action |-> "replace", path |-> p] \in Op("replace", F)
  BY DEF Op
<1>7. QED
  BY <1>1, <1>3, <1>5, <1>6

\* What a publisher's plan says is the same when its scan is.
LEMMA Views ==
    ASSUME plan' = plan, NEW e \in Publishers, call'[e].cur = call[e].cur
    PROVE  /\ \A p : InDelta(p)' <=> InDelta(p)
           /\ Merged(call[e].cur)' = Merged(call[e].cur)
           /\ Operations(call[e].cur)' = Operations(call[e].cur)
           /\ \A o \in Operation : orig'[o.path] = orig[o.path] =>
                 (Needed(e, o)' <=> Needed(e, o)) /\ (AsExpected(e, o)' <=> AsExpected(e, o))
<1>1. \A p : InDelta(p)' <=> InDelta(p)
  BY DEF InDelta
<1>2. Merged(call[e].cur)' = Merged(call[e].cur)
  BY DEF Merged, InDelta
<1>3. Operations(call[e].cur)' = Operations(call[e].cur)
  BY <1>2 DEF Operations
<1>4. \A o \in Operation : orig'[o.path] = orig[o.path] =>
          (Needed(e, o)' <=> Needed(e, o)) /\ (AsExpected(e, o)' <=> AsExpected(e, o))
  BY <1>2 DEF Needed, AsExpected, Operation, Action
<1>5. QED
  BY <1>1, <1>2, <1>3, <1>4

\* An operation that passed its checks is one of the delta, or puts back a directory.
LEMMA NeedsDelta ==
    ASSUME TypeOK, NEW c \in Publishers, NEW o \in Operations(call[c].cur),
           Needed(c, o), AsExpected(c, o)
    PROVE  InDelta(o.path) \/ o.action = "mkdir"
<1> DEFINE m == call[c].cur
<1>1. m \in Manifest /\ plan \in Plans
  BY DEF TypeOK
<1>2. /\ o.path \in Paths /\ o.action \in {"remove", "mkdir", "replace", "chmod"}
      /\ o.action = "remove" => Merged(m)[o.path].kind # m[o.path].kind
      /\ ~InDelta(o.path) => Merged(m)[o.path] = m[o.path]
  BY <1>1, OperationsAre, ManifestTypes
<1>3. QED
  BY <1>2 DEF Needed, AsExpected

\* A preflight that passes leaves the base, the goal, or nothing at each path of the delta.
LEMMA PreflightPlans ==
    ASSUME NEW m, ~PreflightFails(m)
    PROVE  \A p \in Paths : InDelta(p) => m[p] \in {plan.base[p], plan.goal[p], Absent}
  BY DEF PreflightFails, Conflicting, InDelta

LEMMA GuardStep == TypeOK /\ LockIsHeld /\ JournalInv /\ GuardInv /\ [Next]_vars => GuardInv'
<1> SUFFICES ASSUME TypeOK, LockIsHeld, JournalInv, GuardInv, [Next]_vars PROVE GuardInv'
  OBVIOUS
<1>t. journal.active \in Operation \cup {NoOp} /\ NoOp \notin Operation
      /\ \A c \in Publishers : call[c].cur \in Manifest
  BY DEF TypeOK, Document, NoOp, Operation, Action
<1>g. OpIsSound /\ \A c \in Publishers : Planned(c) /\ Guarded(c)
  BY DEF GuardInv
<1>op. \A c \in Publishers : call[c].pc \in ActingPcs => journal.active \in Operation
  BY <1>t, OperationsAre DEF TypeOK, GuardInv, Guarded
\* What keeps the invariant when the plan and the operation are the same.
<1>s. plan' = plan /\ journal'.active \in {NoOp, journal.active} => OpIsSound'
  BY <1>g DEF OpIsSound, InDelta
<1>v. ASSUME NEW e \in Publishers, plan' = plan, call'[e].cur = call[e].cur,
             call'[e].pc \in PlannedPcs => call[e].pc \in PlannedPcs
      PROVE  Planned(e)'
  BY <1>v, <1>g DEF Planned, InDelta
<1>w. ASSUME NEW e \in Publishers, plan' = plan, call'[e] = call[e], journal'.pub = journal.pub,
             journal'.active = journal.active, journal.moved \subseteq journal'.moved,
             "entry" \notin journal'.moved /\ journal.active \in Operation
                => orig'[journal.active.path] = orig[journal.active.path]
      PROVE  Guarded(e)'
  <2>1. CASE call[e].pc \in ActingPcs
    <3>1. /\ journal.active \in Operations(call[e].cur)' \cap call[e].done
          /\ journal.active \in Operation
      BY <1>w, <1>g, <1>op, <2>1, Views DEF Guarded
    <3>2. ASSUME "entry" \notin journal'.moved
          PROVE  /\ Needed(e, journal.active)' /\ AsExpected(e, journal.active)'
                 /\ journal.active.action = "chmod" => orig'[journal.active.path].kind # "file"
      <4>1. orig'[journal.active.path] = orig[journal.active.path] /\ "entry" \notin journal.moved
        BY <1>w, <3>1, <3>2
      <4>2. /\ Needed(e, journal.active) /\ AsExpected(e, journal.active)
            /\ journal.active.action = "chmod" => orig[journal.active.path].kind # "file"
        BY <1>g, <2>1, <4>1 DEF Guarded
      <4> DEFINE o == journal.active
      <4>3. o \in Operation /\ o = journal'.active
        BY <1>w, <3>1
      <4> HIDE DEF o
      <4>4. (Needed(e, o)' <=> Needed(e, o)) /\ (AsExpected(e, o)' <=> AsExpected(e, o))
        <5>1. \A r \in Operation : orig'[r.path] = orig[r.path] =>
                 (Needed(e, r)' <=> Needed(e, r)) /\ (AsExpected(e, r)' <=> AsExpected(e, r))
          BY <1>w, Views
        <5>2. QED
          BY <4>1, <4>3, <5>1 DEF o
      <4>5. QED
        BY <4>1, <4>2, <4>4, <1>w DEF o
    <3>3. QED
      BY <1>w, <1>g, <2>1, <3>1, <3>2 DEF Guarded
  <2>2. CASE call[e].pc \notin ActingPcs
    BY <1>w, <2>2 DEF Guarded
  <2>3. QED
    BY <2>1, <2>2
<1>1. CASE UNCHANGED vars
  BY <1>1, <1>g, <1>s, <1>v, <1>w DEF GuardInv, vars
<1>2. CASE Edits
  <2>1. /\ plan' = plan /\ call' = call
        /\ JournalIs(journal.status, journal.pub, journal.count, journal.active, journal'.moved)
        /\ journal.moved \subseteq journal'.moved
        /\ \A q \in Paths : q = journal.active.path /\ journal.active # NoOp =>
              "entry" \in journal'.moved \/ orig'[q] = orig[q]
    BY <1>2, EditStep DEF Edits, Framed
  <2>2. journal.active \in Operation => journal.active.path \in Paths
    BY DEF Operation
  <2>3. "entry" \notin journal'.moved /\ journal.active \in Operation
           => orig'[journal.active.path] = orig[journal.active.path]
    BY <2>1, <2>2, <1>t
  <2>4. QED
    BY <2>1, <2>3, <1>s, <1>v, <1>w DEF GuardInv, JournalIs
<1>3. ASSUME NEW c \in Publishers, Quiet(c) PROVE GuardInv'
  <2>1. /\ plan' = plan /\ orig' = orig
        /\ journal'.pub = journal.pub /\ journal'.active = journal.active
        /\ journal'.moved = journal.moved
    BY <1>3 DEF Quiet, Framed, DiskSame, JournalSame, JournalIs
  <2>2. ASSUME NEW e \in Publishers, e # c PROVE Planned(e)' /\ Guarded(e)'
    <3>1. call'[e] = call[e]
      BY <1>3, <2>2, OthersStay DEF Acts
    <3>2. QED
      BY <2>1, <3>1, <1>v, <1>w
  <2>3. Planned(c)' /\ Guarded(c)'
    <3>1. call'[c].pc \notin ActingPcs
      BY <1>3 DEF Quiet, Retires, Walks, Moves, Leads, Scans, Skips, ActingPcs
    <3>2. CASE call'[c].pc \notin PlannedPcs
      BY <3>1, <3>2 DEF Planned, Guarded
    <3>3. CASE call'[c].pc \in PlannedPcs
      <4>1. call'[c].cur = call[c].cur /\ call[c].pc \in PlannedPcs
        BY <1>3, <3>3 DEF Quiet, Retires, Walks, Moves, Leads, Scans, Skips, PlannedPcs
      <4>2. QED
        BY <2>1, <3>1, <4>1, <1>v DEF Guarded
    <3>4. QED
      BY <3>2, <3>3
  <2>4. QED
    BY <2>1, <2>2, <2>3, <1>s DEF GuardInv
<1>4. ASSUME NEW c \in Publishers, Writes(c) \/ Adopts(c), OpIsSound', Planned(c)', Guarded(c)'
      PROVE  GuardInv'
  <2>1. ASSUME NEW e \in Publishers, e # c PROVE Planned(e)' /\ Guarded(e)'
    <3>1. call'[e] = call[e] /\ call[c].pc \in LockedPcs
      BY <1>4, <2>1, OthersStay, WriteMoves, AdoptMoves DEF Acts
    <3>2. call'[e].pc \notin LockedPcs
      BY <2>1, <3>1 DEF LockIsHeld
    <3>3. QED
      BY <3>2 DEF Planned, Guarded, LockedPcs, PlannedPcs, ActingPcs
  <2>2. QED
    BY <1>4, <2>1 DEF GuardInv
<1>5. ASSUME NEW c \in Publishers, Writes(c)
      PROVE  OpIsSound' /\ Planned(c)' /\ Guarded(c)'
  <2>0. plan' = plan /\ call'[c].cur = call[c].cur
    BY <1>5, WriteMoves DEF Framed
  <2>n. call'[c].pc \notin ActingPcs => Guarded(c)'
    BY DEF Guarded
  <2>1. CASE Reconcile(c) \/ Reannounce(c)
    <3>1. JournalSame /\ call'[c].pc \notin PlannedPcs
      BY <2>1, RowSteps DEF RowStep, Moves, PlannedPcs
    <3>2. QED
      BY <2>0, <3>1, <1>s DEF JournalSame, JournalIs, Planned, Guarded, PlannedPcs, ActingPcs
  <2>2. CASE AnnounceOperation(c)
    <3>1. /\ JournalSame /\ DiskSame /\ call[c].pc = "started" /\ call'[c].pc = "effect"
          /\ call'[c].done = call[c].done
      BY <2>2, RowSteps DEF RowStep, Moves
    <3>2. OpIsSound' /\ Planned(c)'
      BY <2>0, <3>1, <1>s, <1>v DEF JournalSame, JournalIs, PlannedPcs
    <3>3. Guarded(c)'
      <4>1. /\ journal'.active = journal.active /\ journal'.pub = journal.pub
            /\ journal'.moved = journal.moved /\ orig' = orig
        BY <3>1 DEF JournalSame, JournalIs, DiskSame
      <4>2. /\ journal.active \in Operations(call[c].cur) \cap call[c].done
            /\ journal.pub = "applying" /\ journal.active \in Operation
            /\ "entry" \notin journal.moved =>
                  /\ Needed(c, journal.active) /\ AsExpected(c, journal.active)
                  /\ journal.active.action = "chmod" => orig[journal.active.path].kind # "file"
        BY <3>1, <1>g, <1>op DEF Guarded, ActingPcs
      <4>3. \A r \in Operation :
               (Needed(c, r)' <=> Needed(c, r)) /\ (AsExpected(c, r)' <=> AsExpected(c, r))
        BY <2>0, <4>1, Views
      <4>4. Needed(c, journal.active)' <=> Needed(c, journal.active)
        BY <4>1, <4>2, <4>3
      <4>5. AsExpected(c, journal.active)' <=> AsExpected(c, journal.active)
        BY <4>1, <4>2, <4>3
      <4>6. Operations(call[c].cur)' = Operations(call[c].cur)
        BY <2>0, Views
      <4>7. QED
        BY <3>1, <4>1, <4>2, <4>4, <4>5, <4>6 DEF Guarded
    <3>4. QED
      BY <3>2, <3>3
  <2>3. CASE AdvanceCursor(c)
    <3>1. /\ JournalSame
          /\ \/ call[c].pc = "completed" /\ call'[c].pc = "apply"
             \/ call'[c].pc = "applied"
      BY <2>3, RowSteps DEF RowStep, Moves
    <3>2. Planned(c)'
      BY <2>0, <3>1, <1>v DEF PlannedPcs
    <3>3. QED
      BY <2>0, <2>n, <3>1, <3>2, <1>s DEF JournalSame, JournalIs, ActingPcs
  <2>4. CASE OpenPlan(c)
    <3>1. /\ journal'.active = journal.active /\ call'[c].pc = "resume"
          /\ ~PreflightFails(call[c].cur)
      BY <2>4, JournalSteps DEF JournalStep, Moves, JournalIs
    <3>2. \A p \in Paths : InDelta(p) => call[c].cur[p] \in {plan.base[p], plan.goal[p], Absent}
      BY <3>1, PreflightPlans
    <3>3. Planned(c)'
      BY <2>0, <3>2 DEF Planned, InDelta
    <3>4. QED
      BY <2>0, <2>n, <3>1, <3>3, <1>s DEF ActingPcs
  <2>5. CASE Refuses(c)
    <3>1. journal'.active = journal.active /\ call'[c].pc = "conflict"
      BY <2>5, JournalSteps DEF JournalStep, Moves, JournalIs
    <3>2. QED
      BY <2>0, <2>n, <3>1, <1>s DEF Planned, PlannedPcs, ActingPcs
  <2>6. CASE Stages(c)
    <3>1. /\ call[c].pc = "effect" /\ call'[c].pc = "staged" /\ call'[c].done = call[c].done
          /\ DiskSame /\ journal.moved = {} /\ journal'.pub = journal.pub
          /\ journal'.active = journal.active
          /\ journal.active.action = "replace"
      BY <2>6, JournalSteps DEF JournalStep, Moves, JournalIs, Stages
    <3>2. OpIsSound' /\ Planned(c)'
      BY <2>0, <3>1, <1>s, <1>v DEF PlannedPcs
    <3>3. Guarded(c)'
      <4>1. orig' = orig
        BY <3>1 DEF DiskSame
      <4>2. /\ journal.active \in Operations(call[c].cur) \cap call[c].done
            /\ journal.pub = "applying" /\ journal.active \in Operation
            /\ Needed(c, journal.active) /\ AsExpected(c, journal.active)
        BY <3>1, <1>g, <1>op DEF Guarded, ActingPcs
      <4>3. \A r \in Operation :
               (Needed(c, r)' <=> Needed(c, r)) /\ (AsExpected(c, r)' <=> AsExpected(c, r))
        BY <2>0, <4>1, Views
      <4>4. Needed(c, journal.active)' <=> Needed(c, journal.active)
        BY <3>1, <4>2, <4>3
      <4>5. AsExpected(c, journal.active)' <=> AsExpected(c, journal.active)
        BY <3>1, <4>2, <4>3
      <4>6. Operations(call[c].cur)' = Operations(call[c].cur)
        BY <2>0, Views
      <4>7. QED
        BY <3>1, <4>1, <4>2, <4>4, <4>5, <4>6 DEF Guarded
    <3>4. QED
      BY <3>2, <3>3
  <2>7. CASE CompleteOperation(c)
    <3>1. /\ journal'.active = NoOp
          /\ \/ call[c].pc = "effected" /\ call'[c].pc = "completed"
             \/ call'[c].pc = "settled"
      BY <2>7, JournalSteps DEF JournalStep, Moves, JournalIs
    <3>2. Planned(c)'
      BY <2>0, <3>1, <1>v DEF PlannedPcs
    <3>3. QED
      BY <2>0, <2>n, <3>1, <3>2, <1>s DEF ActingPcs
  <2>8. CASE Finishes(c)
    <3>1. journal'.active = NoOp /\ call'[c].pc = "published"
      BY <2>8, JournalSteps DEF JournalStep, Moves, JournalIs
    <3>2. QED
      BY <2>0, <2>n, <3>1, <1>s DEF Planned, PlannedPcs, ActingPcs
  <2>9. ASSUME NEW o \in Remaining(c), StartOperation(c, o)
        PROVE  OpIsSound' /\ Planned(c)' /\ Guarded(c)'
    <3>1. /\ DiskSame /\ call[c].pc = "apply" /\ call'[c].pc = "started"
          /\ call'[c].done = call[c].done \cup {o} /\ o \in Operation
          /\ journal'.active = o /\ journal'.pub = "applying"
          /\ ~Blocked(o) /\ Needed(c, o) /\ AsExpected(c, o)
      BY <2>9, StartStep DEF JournalIs
    <3>2. o \in Operations(call[c].cur)
      BY DEF Remaining
    <3>3. InDelta(o.path) \/ o.action = "mkdir"
      BY <3>1, <3>2, NeedsDelta
    <3>4. OpIsSound'
      BY <2>0, <3>1, <3>3 DEF OpIsSound, InDelta
    <3>5. Planned(c)'
      BY <2>0, <3>1, <1>v DEF PlannedPcs
    <3>6. Guarded(c)'
      <4>1. orig' = orig
        BY <3>1 DEF DiskSame
      <4>2. Needed(c, o)' /\ AsExpected(c, o)' /\ Operations(call[c].cur)' = Operations(call[c].cur)
        BY <2>0, <3>1, <4>1, Views
      <4>3. o.action = "chmod" => orig[o.path].kind # "file"
        BY <3>1 DEF Blocked
      <4>4. Needed(c, journal.active)' /\ AsExpected(c, journal.active)'
        BY <3>1, <4>2
      <4>5. QED
        BY <3>1, <3>2, <4>1, <4>2, <4>3, <4>4 DEF Guarded
    <3>7. QED
      BY <3>4, <3>5, <3>6
  <2>10. CASE Puts(c)
    <3>1. /\ JournalSame /\ call[c].pc \in {"effect", "staged"} /\ call'[c].pc = "effected"
      BY <2>10, PutStep DEF Moves
    <3>2. Planned(c)'
      BY <2>0, <3>1, <1>v DEF PlannedPcs
    <3>3. QED
      BY <2>0, <2>n, <3>1, <3>2, <1>s DEF JournalSame, JournalIs, ActingPcs
  <2>11. QED
    BY <1>5, <2>1, <2>2, <2>3, <2>4, <2>5, <2>6, <2>7, <2>8, <2>9, <2>10 DEF Writes
<1>6. ASSUME NEW c \in Publishers, Adopts(c) PROVE GuardInv'
  <2>1. /\ plan' = plan /\ journal'.active = NoOp
        /\ call'[c].pc \in {"reconcile", "conflict", "published"}
    BY <1>6, AdoptMoves DEF Adopts, Adopted, Framed, JournalInv, DocumentsAreSpent, Spent
  <2>2. OpIsSound' /\ Planned(c)' /\ Guarded(c)'
    BY <2>1, <1>s DEF Planned, PlannedPcs, Guarded, ActingPcs
  <2>3. QED
    BY <1>4, <1>6, <2>2
<1>7. QED
  BY <1>1, <1>2, <1>3, <1>4, <1>5, <1>6, StepCases DEF Acts

-----------------------------------------------------------------------------
(* The original changes as announced, and not where the person is at work.  *)

\* Nobody but the person writes to the original, except for the put.
LEMMA OnlyPuts ==
    ASSUME TypeOK, [Next]_vars, edits' = edits
    PROVE  DiskSame \/ \E c \in Publishers : Puts(c)
<1>1. CASE UNCHANGED vars
  BY <1>1 DEF vars, DiskSame
<1>2. CASE Edits
  <2>1. edits' = edits + 1 /\ edits \in Nat
    BY <1>2, EditStep, BoundsAssumption DEF Edits, TypeOK
  <2>2. QED
    BY <2>1
<1>3. ASSUME NEW c \in Publishers, Acts(c) PROVE DiskSame \/ Puts(c)
  <2>1. Quiet(c) \/ Adopts(c) => DiskSame
    BY DEF Quiet, Adopts
  <2>2. Reconcile(c) \/ Reannounce(c) \/ AnnounceOperation(c) \/ AdvanceCursor(c) => DiskSame
    BY RowSteps DEF RowStep
  <2>3. OpenPlan(c) \/ Refuses(c) \/ Stages(c) \/ CompleteOperation(c) \/ Finishes(c) => DiskSame
    BY JournalSteps DEF JournalStep
  <2>4. (\E o \in Remaining(c) : StartOperation(c, o)) => DiskSame
    BY StartStep
  <2>5. QED
    BY <1>3, <2>1, <2>2, <2>3, <2>4 DEF Acts, Writes
<1>4. QED
  BY <1>1, <1>2, <1>3, StepCases

\* A put finds what the plan was made for, and leaves what the plan wants.
LEMMA PutRespects ==
    ASSUME TypeOK, JournalInv, GuardInv, NEW c \in Publishers, Puts(c)
    PROVE  LET q == journal.active.path IN
           /\ q \in Paths /\ \A p \in Paths : p # q => orig'[p] = orig[p]
           /\ journal.pub = "applying" /\ IntentIsShown
           /\ orig[q] # File("user")
           /\ InDelta(q) \/ (orig[q] = Absent /\ IsDir(orig'[q]))
<1> DEFINE o == journal.active
           q == journal.active.path
           m == call[c].cur
<1>1. /\ call[c].pc \in {"effect", "staged"} /\ "entry" \notin journal.moved
      /\ \A p \in Paths : p # q => orig'[p] = orig[p]
  BY PutStep DEF Moves
<1>2. /\ o \in Operations(m) /\ journal.pub = "applying" /\ Needed(c, o) /\ AsExpected(c, o)
      /\ o.action = "chmod" => orig[q].kind # "file"
      /\ call[c].pc = "staged" => o.action = "replace"
  BY <1>1 DEF GuardInv, Guarded, ActingPcs
<1>3. m \in Manifest /\ plan \in Plans /\ orig \in Manifest
  BY DEF TypeOK
<1>4. /\ o \in Operation /\ q \in Paths /\ o.action \in {"remove", "mkdir", "replace", "chmod"}
      /\ o.action = "remove" => m[q] # Absent
  BY <1>2, <1>3, OperationsAre
<1>5. IntentIsShown
  BY <1>1 DEF JournalInv, Announced
<1>6. orig'[q] = PutEntry(c)
  BY <1>2, <1>4, PutStep
<1>7. InDelta(q) \/ o.action = "mkdir"
  BY <1>2, NeedsDelta
<1>8. CASE o.action = "mkdir"
  <2>1. orig[q] = Absent
    BY <1>2, <1>8 DEF Needed
  <2>2. IsDir(orig'[q]) /\ Absent # File("user")
    BY <1>6, <1>8 DEF PutEntry, Directory, IsDir, Absent, File
  <2>3. QED
    BY <1>1, <1>2, <1>4, <1>5, <2>1, <2>2
<1>9. CASE InDelta(q) /\ o.action # "mkdir"
  <2>1. m[q] \in {plan.base[q], plan.goal[q], Absent}
    BY <1>1, <1>4, <1>9 DEF GuardInv, Planned, PlannedPcs
  <2>2. Absent # File("user") /\ plan.base[q] # File("user") /\ plan.goal[q] # File("user")
    BY <1>3, <1>4, PlanTypes DEF Absent, File
  <2>3. File("user").kind = "file"
    BY DEF File
  <2>4. orig[q] \in {m[q], Absent} \/ o.action = "chmod"
    BY <1>2, <1>4, <1>9 DEF AsExpected
  <2>5. orig[q] # File("user")
    BY <1>2, <2>1, <2>2, <2>3, <2>4
  <2>6. QED
    BY <1>1, <1>2, <1>4, <1>5, <1>9, <2>5
<1>10. QED
  BY <1>7, <1>8, <1>9

GuardedInv == TypeOK /\ LockIsHeld /\ JournalInv /\ GuardInv

LEMMA GuardedInvariant == Spec => []GuardedInv
<1>1. Init => GuardedInv
  <2>1. Init => LockIsHeld /\ (\A c \in Publishers : Planned(c) /\ Guarded(c)) /\ OpIsSound
    BY DEF Init, NewCall, NewJournal, LockIsHeld, LockedPcs, Planned, PlannedPcs, Guarded, ActingPcs, OpIsSound
  <2>2. QED
    BY <2>1, TypeInit, JournalInit DEF GuardedInv, GuardInv
<1>2. GuardedInv /\ [Next]_vars => GuardedInv'
  BY TypeStep, LockStep, JournalStepInv, GuardStep DEF GuardedInv
<1>3. QED
  BY <1>1, <1>2, PTL DEF Spec

\* The original changes as announced in both journals, and never where the person is at work.
THEOREM OriginalRespected == Spec => OriginalIsRespected
<1> DEFINE Kept ==
             \A p \in Paths : orig'[p] # orig[p] /\ edits' = edits =>
                /\ orig[p] # File("user")
                /\ InDelta(p) \/ (orig[p] = Absent /\ IsDir(orig'[p]))
           Said ==
             \A p \in Paths : orig'[p] # orig[p] /\ edits' = edits =>
                /\ journal.active.path = p /\ journal.pub = "applying"
                /\ \/ row.status = "published"
                   \/ row.inflight = journal.count /\ row.next = journal.count
                   \/ shadow.astray /\ row.next > journal.count
<1>1. ASSUME GuardedInv, [Next]_vars PROVE [Kept]_vars /\ [Said]_vars
  <2> SUFFICES ASSUME NEW p \in Paths, orig'[p] # orig[p], edits' = edits
               PROVE  /\ orig[p] # File("user")
                      /\ InDelta(p) \/ (orig[p] = Absent /\ IsDir(orig'[p]))
                      /\ journal.active.path = p /\ journal.pub = "applying"
                      /\ \/ row.status = "published"
                         \/ row.inflight = journal.count /\ row.next = journal.count
                         \/ shadow.astray /\ row.next > journal.count
    OBVIOUS
  <2>1. TypeOK /\ JournalInv /\ GuardInv
    BY <1>1 DEF GuardedInv
  <2>2. PICK c \in Publishers : Puts(c)
    BY <1>1, <2>1, OnlyPuts DEF DiskSame
  <2> DEFINE q == journal.active.path
  <2>3. /\ q \in Paths /\ \A r \in Paths : r # q => orig'[r] = orig[r]
        /\ journal.pub = "applying" /\ IntentIsShown
        /\ orig[q] # File("user")
        /\ InDelta(q) \/ (orig[q] = Absent /\ IsDir(orig'[q]))
    BY <2>1, <2>2, PutRespects
  <2> HIDE DEF q
  <2>4. p = q
    BY <2>3
  <2>5. QED
    BY <2>3, <2>4 DEF IntentIsShown, Behind, q
<1>2. GuardedInv /\ [Next]_vars => [Kept]_vars /\ [Said]_vars
  BY <1>1
<1>3. Spec => [][Kept]_vars /\ [][Said]_vars
  BY <1>2, GuardedInvariant, PTL DEF Spec
<1>4. QED
  BY <1>3 DEF OriginalIsRespected, TheirsIsKept, EffectsAreAnnounced

-----------------------------------------------------------------------------
(* What Baldr left in the original, and what the file journal says of it.   *)

\* An effect that is there is seen by whoever resumes.
LEMMA TraceIsSeen ==
    ASSUME TypeOK, OpIsSound, NEW c \in Publishers, journal.active # NoOp, ActiveIsThere
    PROVE  EffectIsThere(c, journal.active)
<1> DEFINE o == journal.active
<1>1. o \in Operation /\ o.path \in Paths /\ o.action \in {"remove", "mkdir", "replace", "chmod"}
  BY DEF TypeOK, Document, Operation, Action
<1>2. InDelta(o.path) => Merged(call[c].cur)[o.path] = plan.goal[o.path]
  BY <1>1, ManifestTypes DEF TypeOK
<1>3. InDelta(o.path) \/ o.action = "mkdir"
  BY DEF OpIsSound
<1>4. QED
  BY <1>1, <1>2, <1>3 DEF ActiveIsThere, EffectIsThere

TracedInv == GuardedInv /\ TraceInv

LEMMA TraceStep == TracedInv /\ [Next]_vars => TraceInv'
<1> SUFFICES ASSUME TracedInv, [Next]_vars PROVE TraceInv'
  OBVIOUS
<1>i. TypeOK /\ LockIsHeld /\ JournalInv /\ GuardInv /\ TracesAreJournaled
      /\ OpIsSound /\ \A c \in Publishers : Inherits(c)
  BY DEF TracedInv, GuardedInv, TraceInv, GuardInv
<1>t. /\ journal.active \in Operation \cup {NoOp} /\ NoOp \notin Operation /\ journal.count \in Nat
      /\ \A o \in Operation : o.path \in Paths
  BY <1>i DEF TypeOK, Document, NoOp, Operation, Action
<1>a. shadow.astray => shadow'.astray
  BY <1>i, StepCases, FramedStep DEF vars
<1>b. shadow'.astray => TraceInv'
  BY DEF TraceInv, TracesAreJournaled, Inherits, HeirPcs
<1> SUFFICES ASSUME ~shadow.astray, ~shadow'.astray PROVE TraceInv'
  BY <1>a, <1>b
\* The same original, the same operation, and no less said.
<1>s. ASSUME DiskSame, plan' = plan, journal'.count = journal.count,
             journal'.active = journal.active,
             journal'.pub \in {journal.pub, "preflight-complete", "applying"}
      PROVE  TracesAreJournaled'
  BY <1>s, <1>i DEF TracesAreJournaled, ActiveIsThere, DiskSame
<1>1. CASE UNCHANGED vars
  BY <1>1, <1>i DEF TraceInv, TracesAreJournaled, ActiveIsThere, Inherits, HeirPcs, vars
<1>2. CASE Edits
  <2>1. /\ plan' = plan /\ call' = call /\ journal'.count = journal.count
        /\ journal'.active = journal.active /\ journal'.pub = journal.pub
        /\ \A q \in Paths : (orig'[q] = orig[q] /\ author'[q] = author[q]) \/ author'[q] = "person"
    BY <1>2, <1>i, EditStep DEF Edits, Framed, JournalIs
  <2>2. ASSUME NEW p \in Paths, author'[p] = "baldr"
        PROVE  /\ journal.pub \in {"preflight-complete", "applying", "published"}
               /\ journal.count = 0 =>
                     journal.active # NoOp /\ p = journal.active.path /\ ActiveIsThere'
    <3>1. author[p] = "baldr" /\ orig'[p] = orig[p]
      BY <2>1, <2>2
    <3>2. QED
      BY <3>1, <2>1, <1>i DEF TracesAreJournaled, ActiveIsThere
  <2>3. TracesAreJournaled'
    BY <2>1, <2>2 DEF TracesAreJournaled
  <2>4. ASSUME NEW e \in Publishers PROVE Inherits(e)'
    <3>1. journal.active # NoOp => journal.active.path \in Paths
      BY <1>t
    <3>2. QED
      BY <3>1, <2>1, <1>i DEF Inherits, HeirPcs
  <2>5. QED
    BY <2>3, <2>4 DEF TraceInv
<1>3. ASSUME NEW c \in Publishers, Quiet(c) PROVE TraceInv'
  <2>1. /\ plan' = plan /\ DiskSame /\ journal'.count = journal.count
        /\ journal'.pub = journal.pub /\ journal'.active = journal.active
    BY <1>3 DEF Quiet, Framed, JournalSame, JournalIs
  <2>2. ASSUME NEW e \in Publishers, call'[e].pc = call[e].pc PROVE Inherits(e)'
    BY <2>1, <2>2, <1>i DEF Inherits, HeirPcs, DiskSame
  <2>3. ASSUME NEW e \in Publishers, e # c PROVE Inherits(e)'
    BY <1>3, <1>i, <2>2, <2>3, OthersStay DEF Acts
  <2>4. Inherits(c)'
    <3>1. CASE call[c].pc = "resume" /\ call'[c].pc = "apply" /\ Walks(c)
      <4>1. ~(journal.active # NoOp /\ EffectIsThere(c, journal.active))
        BY <3>1 DEF Walks, Moves, Leads
      <4>2. journal.count = 0 /\ journal.active # NoOp => author[journal.active.path] # "baldr"
        <5>1. SUFFICES ASSUME journal.count = 0, journal.active # NoOp,
                              author[journal.active.path] = "baldr"
                       PROVE  FALSE
          OBVIOUS
        <5>2. ActiveIsThere
          BY <5>1, <1>t, <1>i DEF TracesAreJournaled
        <5>3. QED
          BY <4>1, <5>1, <5>2, <1>i, TraceIsSeen
      <4>3. QED
        BY <4>2, <2>1 DEF Inherits, HeirPcs, DiskSame
    <3>2. CASE call[c].pc = "preflight" /\ call'[c].pc = "finish" /\ Walks(c)
      <4>1. journal.active = NoOp
        BY <3>2 DEF Walks, Moves, Leads, LockedPcs
      <4>2. QED
        BY <4>1, <2>1 DEF Inherits, HeirPcs
    <3>3. CASE call[c].pc = "apply" /\ call'[c].pc \in {"apply", "verified"}
      BY <2>1, <3>3, <1>i DEF Inherits, HeirPcs, DiskSame
    <3>4. CASE call'[c].pc \notin HeirPcs
      BY <3>4 DEF Inherits, HeirPcs
    <3>5. \/ call'[c].pc \notin HeirPcs
          \/ call[c].pc = "apply" /\ call'[c].pc \in {"apply", "verified"}
          \/ call[c].pc = "preflight" /\ call'[c].pc = "finish" /\ Walks(c)
          \/ call[c].pc = "resume" /\ call'[c].pc = "apply" /\ Walks(c)
      BY <1>3 DEF Quiet, Retires, Walks, Moves, Leads, Scans, Skips, HeirPcs
    <3>6. QED
      BY <3>1, <3>2, <3>3, <3>4, <3>5
  <2>5. QED
    BY <2>1, <2>3, <2>4, <1>s DEF TraceInv
<1>4. ASSUME NEW c \in Publishers, Writes(c), TracesAreJournaled', Inherits(c)'
      PROVE  TraceInv'
  <2>1. ASSUME NEW e \in Publishers, e # c PROVE Inherits(e)'
    <3>1. call'[e] = call[e] /\ call[c].pc \in LockedPcs
      BY <1>4, <1>i, <2>1, OthersStay, WriteMoves DEF Acts
    <3>2. call'[e].pc \notin LockedPcs
      BY <1>i, <2>1, <3>1 DEF LockIsHeld
    <3>3. QED
      BY <3>2 DEF Inherits, HeirPcs, LockedPcs
  <2>2. QED
    BY <1>4, <2>1 DEF TraceInv
<1>5. ASSUME NEW c \in Publishers, Writes(c)
      PROVE  TracesAreJournaled' /\ Inherits(c)'
  <2>0. plan' = plan
    BY <1>5, <1>i, WriteMoves DEF Framed
  <2>n. call'[c].pc \notin HeirPcs => Inherits(c)'
    BY DEF Inherits, HeirPcs
  <2>j. JournalSame => /\ journal'.count = journal.count /\ journal'.pub = journal.pub
                       /\ journal'.active = journal.active
    BY DEF JournalSame, JournalIs
  <2>1. CASE Reconcile(c) \/ Reannounce(c)
    <3>1. /\ JournalSame /\ DiskSame
          /\ call'[c].pc \notin HeirPcs
      BY <2>1, <1>i, RowSteps DEF RowStep, Moves, HeirPcs
    <3>2. QED
      BY <2>0, <2>n, <2>j, <3>1, <1>s
  <2>2. CASE AnnounceOperation(c)
    <3>1. JournalSame /\ DiskSame /\ call[c].pc = "started" /\ call'[c].pc = "effect"
      BY <2>2, <1>i, RowSteps DEF RowStep, Moves
    <3>2. Inherits(c)'
      BY <3>1, <2>j, <1>i DEF Inherits, HeirPcs, DiskSame
    <3>3. QED
      BY <2>0, <2>j, <3>1, <3>2, <1>s
  <2>3. CASE AdvanceCursor(c)
    <3>1. JournalSame /\ DiskSame /\ call[c].pc \in {"completed", "settled"}
      BY <2>3, <1>i, RowSteps DEF RowStep, Moves
    <3>2. journal.active = NoOp
      BY <3>1, <1>i DEF JournalInv, Announced
    <3>3. QED
      BY <2>0, <2>j, <3>1, <3>2, <1>s DEF Inherits
  <2>4. CASE OpenPlan(c)
    <3>1. /\ DiskSame /\ call'[c].pc = "resume" /\ journal'.pub = "preflight-complete"
          /\ journal'.count = journal.count /\ journal'.active = journal.active
      BY <2>4, <1>i, JournalSteps DEF JournalStep, Moves, JournalIs
    <3>2. QED
      BY <2>0, <2>n, <3>1, <1>s DEF HeirPcs
  <2>5. CASE Refuses(c)
    <3>1. /\ DiskSame /\ call'[c].pc = "conflict" /\ journal'.pub = PubAfterConflict
          /\ journal'.count = journal.count /\ journal'.active = journal.active
      BY <2>5, <1>i, JournalSteps DEF JournalStep, Moves, JournalIs
    <3>2. CASE journal'.pub = journal.pub
      BY <2>0, <2>n, <3>1, <3>2, <1>s DEF HeirPcs
    <3>3. CASE journal.active = NoOp /\ journal.count = 0
      <4>1. \A p \in Paths : author'[p] # "baldr"
        BY <3>1, <3>3, <1>i DEF TracesAreJournaled, DiskSame
      <4>2. QED
        BY <2>n, <3>1, <4>1 DEF TracesAreJournaled, HeirPcs
    <3>4. QED
      BY <3>1, <3>2, <3>3 DEF PubAfterConflict
  <2>6. CASE Stages(c)
    <3>1. /\ DiskSame /\ call[c].pc = "effect" /\ call'[c].pc = "staged"
          /\ journal'.pub = journal.pub
          /\ journal'.count = journal.count /\ journal'.active = journal.active
      BY <2>6, <1>i, JournalSteps DEF JournalStep, Moves, JournalIs
    <3>2. Inherits(c)'
      BY <3>1, <1>i DEF Inherits, HeirPcs, DiskSame
    <3>3. QED
      BY <2>0, <3>1, <3>2, <1>s
  <2>7. CASE CompleteOperation(c)
    <3>1. /\ DiskSame /\ call'[c].pc \in {"completed", "settled"}
          /\ journal'.pub = journal.pub /\ journal'.count = journal.count + 1
      BY <2>7, <1>i, JournalSteps DEF JournalStep, Moves, JournalIs
    <3>2. journal'.count # 0
      BY <3>1, <1>t
    <3>3. QED
      BY <2>n, <3>1, <3>2, <1>i DEF TracesAreJournaled, DiskSame, HeirPcs
  <2>8. CASE Finishes(c)
    <3>1. /\ DiskSame /\ call[c].pc \in EndPcs /\ call'[c].pc = "published"
          /\ journal'.pub = "published" \/ (journal'.pub = "none" /\ journal.pub = "none")
          /\ journal'.count = journal.count
      BY <2>8, <1>i, JournalSteps DEF JournalStep, Moves, JournalIs
    <3>2. journal.count = 0 => \A p \in Paths : author[p] # "baldr"
      BY <3>1, <1>i DEF TracesAreJournaled, Inherits, HeirPcs, EndPcs
    <3>3. QED
      BY <2>n, <3>1, <3>2, <1>i DEF TracesAreJournaled, DiskSame, HeirPcs
  <2>9. ASSUME NEW o \in Remaining(c), StartOperation(c, o)
        PROVE  TracesAreJournaled' /\ Inherits(c)'
    <3>1. /\ DiskSame /\ call[c].pc = "apply" /\ call'[c].pc = "started" /\ o \in Operation
          /\ journal'.pub = "applying" /\ journal'.count = journal.count /\ journal'.active = o
          /\ journal.active \in {NoOp, o}
      BY <2>9, <1>i, StartStep DEF JournalIs
    <3>2. CASE journal.active = NoOp /\ journal.count = 0
      <4>1. \A p \in Paths : author'[p] # "baldr"
        BY <3>1, <3>2, <1>i DEF TracesAreJournaled, DiskSame
      <4>2. QED
        BY <3>1, <4>1, <1>t DEF TracesAreJournaled, Inherits, HeirPcs
    <3>3. CASE journal.active = o
      <4>1. Inherits(c)'
        BY <3>1, <3>3, <1>i DEF Inherits, HeirPcs, DiskSame
      <4>2. QED
        BY <2>0, <3>1, <3>3, <4>1, <1>s
    <3>4. CASE journal.count # 0
      BY <3>1, <3>4, <1>i DEF TracesAreJournaled, Inherits, HeirPcs, DiskSame
    <3>5. QED
      BY <3>1, <3>2, <3>3, <3>4
  <2>10. CASE Puts(c)
    <3> DEFINE q == journal.active.path
    <3>1. /\ JournalSame /\ call[c].pc \in {"effect", "staged"} /\ call'[c].pc = "effected"
          /\ \A p \in Paths : p # q => author'[p] = author[p]
      BY <2>10, <1>i, PutStep DEF Moves
    <3>2. journal.pub = "applying" /\ q \in Paths
      BY <2>10, <1>i, PutRespects
    <3>3. journal.active \in Operation /\ (call[c].pc = "staged" => journal.active.action = "replace")
      BY <3>1, <1>i, <1>t DEF JournalInv, Announced, GuardInv, Guarded, ActingPcs
    <3>4. orig'[q] = PutEntry(c)
      BY <2>10, <3>3, <1>i, PutStep
    <3>5. InDelta(q) => Merged(call[c].cur)[q] = plan.goal[q]
      BY <3>2, <1>i, ManifestTypes DEF TypeOK
    <3>6. journal.active.action \in {"remove", "mkdir", "replace", "chmod"}
      BY <3>3 DEF Operation, Action
    <3>7. InDelta(q) \/ journal.active.action = "mkdir"
      BY <3>3, <1>t, <1>i DEF OpIsSound
    <3>8. Absent # Directory("default") /\ IsDir(Directory("default"))
      BY DEF Absent, Directory, IsDir
    <3>9. /\ journal.active.action = "remove" => orig'[q] = Absent
          /\ journal.active.action = "mkdir" => IsDir(orig'[q])
          /\ journal.active.action \in {"replace", "chmod"} => orig'[q] = plan.goal[q]
      BY <3>4, <3>5, <3>6, <3>7, <3>8 DEF PutEntry
    <3>10. ActiveIsThere'
      BY <2>0, <2>j, <3>1, <3>6, <3>9 DEF ActiveIsThere
    <3>11. journal.active # NoOp
      BY <3>3, <1>t
    <3>12. ASSUME NEW p \in Paths, author'[p] = "baldr", journal.count = 0 PROVE p = q
      BY <3>1, <3>12, <1>i DEF TracesAreJournaled
    <3>13. TracesAreJournaled'
      BY <2>j, <3>1, <3>2, <3>10, <3>11, <3>12 DEF TracesAreJournaled
    <3>14. QED
      BY <2>n, <3>1, <3>13 DEF HeirPcs
  <2>11. QED
    BY <1>5, <2>1, <2>2, <2>3, <2>4, <2>5, <2>6, <2>7, <2>8, <2>9, <2>10 DEF Writes
<1>6. ASSUME NEW c \in Publishers, Adopts(c) PROVE FALSE
  BY <1>6 DEF Adopts, Adopted
<1>7. QED
  BY <1>1, <1>2, <1>3, <1>4, <1>5, <1>6, <1>i, StepCases DEF Acts

LEMMA TracedInvariant == Spec => []TracedInv
<1>1. Init => TraceInv
  BY DEF Init, NewCall, TraceInv, TracesAreJournaled, Inherits, HeirPcs
<1>2. TracedInv /\ [Next]_vars => TraceInv'
  BY TraceStep
<1>3. TracedInv <=> GuardedInv /\ TraceInv
  BY DEF TracedInv
<1>4. QED
  BY <1>1, <1>2, <1>3, GuardedInvariant, PTL DEF Spec

\* A discard decides on a document that it finds safe.
LEMMA DecidesSafely ==
    ASSUME TypeOK, [Next]_vars, NEW c \in Publishers, Decides(c)
    PROVE  ~DiscardIsUnsafe(StateFile)
<1>1. call[c].pc = "discarding" /\ call'[c].pc = "marking"
  BY DEF Decides
<1>2. ~UNCHANGED vars /\ ~Edits
  BY <1>1, EditStep DEF vars, Edits
<1>3. Acts(c)
  <2>1. \A e \in Publishers : e # c => ~Acts(e)
    BY <1>1, OthersStay
  <2>2. QED
    BY <1>2, <2>1, StepCases
<1>4. Quiet(c)
  BY <1>1, <1>3, WriteMoves, AdoptMoves DEF Acts, LockedPcs
<1>5. Leads(c, "marking")
  BY <1>1, <1>4 DEF Quiet, Retires, Walks, Moves, Scans, Skips
<1>6. QED
  BY <1>1, <1>5 DEF Leads, LockedPcs

\* A discard never strands a part of a publication in the original while it has
\* its lease, and decides rightly on what the publishers wrote last.
THEOREM DiscardIsSafe == Spec => DiscardStrandsNothing
<1> DEFINE Safe ==
             \A c \in Publishers :
                /\ Destroys(c) /\ owner = c => Untouched
                /\ Decides(c) /\ shadow.is = "current" /\ ~shadow.astray =>
                      Untouched \/ journal.pub = "published"
<1>1. ASSUME TracedInv, [Next]_vars PROVE Safe
  <2> SUFFICES ASSUME NEW c \in Publishers
               PROVE  /\ Destroys(c) /\ owner = c => Untouched
                      /\ Decides(c) /\ shadow.is = "current" /\ ~shadow.astray =>
                            Untouched \/ journal.pub = "published"
    OBVIOUS
  <2>i. TypeOK /\ JournalInv /\ TracesAreJournaled
    BY <1>1 DEF TracedInv, GuardedInv, TraceInv
  <2>1. ASSUME Destroys(c), owner = c PROVE Untouched
    <3>1. row.status # "published" /\ row.inflight = -1 /\ row.next = 0
      BY <2>1, <2>i DEF Destroys, JournalInv, Reserved, DiscardPcs
    <3>2. ~Marked
      BY <2>i, <3>1 DEF JournalInv, EffectsAreKnown
    <3>3. QED
      BY <3>2 DEF Marked, Untouched
  <2>2. ASSUME Decides(c), shadow.is = "current", ~shadow.astray
        PROVE  Untouched \/ journal.pub = "published"
    <3>1. ~DiscardIsUnsafe(journal)
      BY <1>1, <2>2, <2>i, DecidesSafely DEF StateFile
    <3>2. QED
      BY <2>2, <2>i, <3>1 DEF DiscardIsUnsafe, TracesAreJournaled, Untouched
  <2>3. QED
    BY <2>1, <2>2
<1>2. TracedInv /\ [Next]_vars => [Safe]_vars
  BY <1>1
<1>3. QED
  BY <1>2, TracedInvariant, PTL DEF Spec, DiscardStrandsNothing

-----------------------------------------------------------------------------
(* A published row: every path of the plan is done.                         *)

\* The operation that comes last at a path of the delta.
LEMMA FinalFacts ==
    ASSUME plan \in Plans, NEW m \in Manifest, NEW p \in Paths, InDelta(p)
    PROVE  /\ FinalOp(p).path = p
           /\ IsDir(plan.goal[p]) => FinalOp(p).action = "chmod"
           /\ plan.goal[p].kind = "file" => FinalOp(p).action = "replace"
           /\ plan.goal[p] = Absent => FinalOp(p).action = "remove"
           /\ IsDir(plan.goal[p]) \/ plan.goal[p].kind = "file" \/ plan.goal[p] = Absent
           /\ (plan.goal[p] = Absent /\ m[p] = Absent) \/ FinalOp(p) \in Operations(m)
           /\ \A r \in Operations(m) : r.path = p =>
                 /\ r.action \in {"remove", "mkdir", "replace", "chmod"}
                 /\ r.action \in {"mkdir", "chmod"} => IsDir(plan.goal[p])
                 /\ r.action = "replace" => plan.goal[p].kind = "file"
                 /\ r.action = "remove" => m[p] # Absent
                 /\ plan.goal[p] = Absent => r.action = "remove"
                 /\ r.action = FinalOp(p).action => r = FinalOp(p)
<1>1. plan.goal[p] \in Entry /\ m[p] \in Entry /\ Merged(m)[p] = plan.goal[p]
  BY PlanTypes, ManifestTypes
<1>2. /\ IsDir(plan.goal[p]) \/ plan.goal[p].kind = "file" \/ plan.goal[p] = Absent
      /\ ~(IsDir(plan.goal[p]) /\ plan.goal[p].kind = "file")
      /\ plan.goal[p] = Absent => ~IsDir(plan.goal[p]) /\ plan.goal[p].kind # "file"
      /\ plan.goal[p] = Absent /\ m[p] # Absent => plan.goal[p].kind # m[p].kind
  BY <1>1, EntryTypes DEF IsDir
<1>3. /\ FinalOp(p).path = p
      /\ IsDir(plan.goal[p]) => FinalOp(p) = [action |-> "chmod", path |-> p]
      /\ plan.goal[p].kind = "file" => FinalOp(p) = [action |-> "replace", path |-> p]
      /\ plan.goal[p] = Absent => FinalOp(p) = [action |-> "remove", path |-> p]
  BY <1>2 DEF FinalOp
<1>4. /\ IsDir(plan.goal[p]) => FinalOp(p).action = "chmod"
      /\ plan.goal[p].kind = "file" => FinalOp(p).action = "replace"
      /\ plan.goal[p] = Absent => FinalOp(p).action = "remove"
  BY <1>3
<1>5. (plan.goal[p] = Absent /\ m[p] = Absent) \/ FinalOp(p) \in Operations(m)
  <2>1. CASE IsDir(plan.goal[p])
    BY <2>1, <1>1, <1>3, OperationsAre
  <2>2. CASE plan.goal[p].kind = "file"
    BY <2>2, <1>1, <1>3, OperationsAre
  <2>3. CASE plan.goal[p] = Absent /\ m[p] # Absent
    BY <2>3, <1>1, <1>2, <1>3, OperationsAre
  <2>4. QED
    BY <1>2, <2>1, <2>2, <2>3
<1>6. ASSUME NEW r \in Operations(m), r.path = p
      PROVE  /\ r.action \in {"remove", "mkdir", "replace", "chmod"}
             /\ r.action \in {"mkdir", "chmod"} => IsDir(plan.goal[p])
             /\ r.action = "replace" => plan.goal[p].kind = "file"
             /\ r.action = "remove" => m[p] # Absent
             /\ r \in Operation
  BY <1>1, <1>6, OperationsAre
<1>7. \A r, s \in Operation : r.path = s.path /\ r.action = s.action => r = s
  BY DEF Operation
<1>8. FinalOp(p) \in Operation
  BY DEF FinalOp, Operation, Action
<1>9. ASSUME NEW r \in Operations(m), r.path = p, r.action = FinalOp(p).action
      PROVE  r = FinalOp(p)
  BY <1>3, <1>6, <1>7, <1>8, <1>9
<1>10. \A r \in Operations(m) : r.path = p /\ plan.goal[p] = Absent => r.action = "remove"
  BY <1>2, <1>6
<1>11. QED
  BY <1>2, <1>3, <1>4, <1>5, <1>6, <1>9, <1>10

\* When its last operation is next, a path has no other left.
LEMMA FinalIsLast ==
    ASSUME TypeOK, NEW c \in Publishers, NEW p \in Paths, InDelta(p), IsNext(c, FinalOp(p))
    PROVE  \A r \in Operations(call[c].cur) :
              r.path = p => r \in call[c].done \cup {FinalOp(p)}
<1> SUFFICES ASSUME NEW r \in Operations(call[c].cur), r.path = p,
                    r \notin call[c].done, r # FinalOp(p)
             PROVE  FALSE
  OBVIOUS
<1> DEFINE o == FinalOp(p)
           m == call[c].cur
<1>1. m \in Manifest /\ plan \in Plans
  BY DEF TypeOK
<1>2. Before(o, r)
  BY DEF IsNext, Remaining
<1>3. /\ o.path = p /\ o.action \in {"chmod", "replace", "remove"}
      /\ r.action \in {"remove", "mkdir", "replace", "chmod"}
      /\ o.action = "replace" => r.action \notin {"mkdir", "chmod"}
      /\ o.action = "remove" => r.action = "remove"
  <2>1. \/ IsDir(plan.goal[p]) /\ o.action = "chmod"
        \/ plan.goal[p].kind = "file" /\ o.action = "replace" /\ ~IsDir(plan.goal[p])
        \/ plan.goal[p] = Absent /\ o.action = "remove"
    BY <1>1, FinalFacts DEF IsDir
  <2>2. /\ o.path = p
        /\ r.action \in {"remove", "mkdir", "replace", "chmod"}
        /\ r.action \in {"mkdir", "chmod"} => IsDir(plan.goal[p])
        /\ plan.goal[p] = Absent => r.action = "remove"
    BY <1>1, FinalFacts
  <2>3. QED
    BY <2>1, <2>2
<1>4. Phase(o) < Phase(r)
  BY <1>2, <1>3 DEF Before
<1> HIDE DEF o
<1>5. QED
  BY <1>3, <1>4 DEF Phase

\* What is skipped at its last operation is as the plan wants it.
LEMMA SkippedIsApplied ==
    ASSUME TypeOK, NEW c \in Publishers, NEW p \in Paths, InDelta(p), ~Needed(c, FinalOp(p))
    PROVE  orig[p] = plan.goal[p]
<1>1. call[c].cur \in Manifest /\ plan \in Plans
  BY DEF TypeOK
<1>2. /\ FinalOp(p).path = p
      /\ \/ FinalOp(p).action = "chmod" \/ FinalOp(p).action = "replace"
         \/ FinalOp(p).action = "remove" /\ plan.goal[p] = Absent
      /\ Merged(call[c].cur)[p] = plan.goal[p]
  BY <1>1, FinalFacts, ManifestTypes
<1>3. QED
  BY <1>2 DEF Needed

\* Progress depends on what is kept by the steps of the others, and by the person.
LEMMA ProgressStays ==
    ASSUME NEW e \in Publishers, Progress(e), plan' = plan, call'[e] = call[e],
           journal'.active = journal.active,
           \A p \in Paths : \/ orig'[p] = orig[p] /\ author'[p] = author[p]
                            \/ author'[p] = "person"
    PROVE  Progress(e)'
<1>1. /\ \A p : InDelta(p)' <=> InDelta(p)
      /\ Merged(call[e].cur)' = Merged(call[e].cur)
      /\ Operations(call[e].cur)' = Operations(call[e].cur)
  BY Views
<1>2. \A p : FinalOp(p)' = FinalOp(p) /\ (Reached(e, p)' <=> Reached(e, p))
  BY DEF FinalOp, Reached, NothingToDo
<1>3. \A p \in Paths : OursAndInDelta(p)' => OursAndInDelta(p) /\ orig'[p] = orig[p]
  BY <1>1 DEF OursAndInDelta
<1>4. /\ call'[e].pc \in EarlyPcs => call'[e].done = {}
      /\ call'[e].pc \in {"present", "settled"} => call'[e].cur = Merged(call[e].cur)'
  BY <1>1 DEF Progress
<1>5. call'[e].pc \in ScannedPcs =>
          \A p \in Paths : OursAndInDelta(p)' => orig'[p] = call'[e].cur[p]
  BY <1>3 DEF Progress
<1>6. call'[e].pc \in PlannedPcs =>
          \A p \in Paths : OursAndInDelta(p)' /\ Reached(e, p)' =>
             (call'[e].pc \in ActingPcs /\ p = journal'.active.path) \/ orig'[p] = plan'.goal[p]
  BY <1>2, <1>3 DEF Progress
<1>7. call'[e].pc \in PlannedPcs =>
          \A p \in Paths : FinalOp(p)' \in call'[e].done =>
             \A o \in Operations(call[e].cur)' : o.path = p /\ InDelta(p)' => o \in call'[e].done
  BY <1>1, <1>2 DEF Progress
<1>8. call'[e].pc \in ActingPcs =>
          (FinalOp(journal.active.path)' \in call'[e].done /\ InDelta(journal.active.path)'
             => journal'.active = FinalOp(journal.active.path)')
  BY <1>1, <1>2 DEF Progress, FinalOp, InDelta
<1>9. call'[e].pc \in {"finish", "applied", "verified", "published"} =>
          \A p \in Paths : OursAndInDelta(p)' => orig'[p] = plan'.goal[p]
  BY <1>3 DEF Progress
<1>10. QED
  BY <1>4, <1>5, <1>6, <1>7, <1>8, <1>9 DEF Progress

ProgressedInv == TracedInv /\ ProgressInv

LEMMA ProgressStep == ProgressedInv /\ [Next]_vars => ProgressInv'
<1> SUFFICES ASSUME ProgressedInv, [Next]_vars PROVE ProgressInv'
  OBVIOUS
<1>i. /\ TypeOK /\ LockIsHeld /\ JournalInv /\ GuardInv /\ OpIsSound
      /\ \A c \in Publishers : Progress(c)
  BY DEF ProgressedInv, TracedInv, GuardedInv, ProgressInv, GuardInv
<1>t. /\ plan \in Plans /\ orig \in Manifest /\ \A c \in Publishers : call[c].cur \in Manifest
      /\ journal.active \in Operation \cup {NoOp} /\ NoOp \notin Operation
      /\ \A o \in Operation : o.path \in Paths
  BY <1>i DEF TypeOK, Document, NoOp, Operation, Action
<1> DEFINE Applied(c) == \A p \in Paths : OursAndInDelta(p) => orig[p] = plan.goal[p]
           Scanned(c) == \A p \in Paths : OursAndInDelta(p) => orig[p] = call[c].cur[p]
           Ordered(c) == \A p \in Paths : FinalOp(p) \in call[c].done =>
                            \A o \in Operations(call[c].cur) :
                               o.path = p /\ InDelta(p) => o \in call[c].done
           Arrived(c) == \A p \in Paths : OursAndInDelta(p) /\ Reached(c, p) =>
                            orig[p] = plan.goal[p]
\* What the parts of the invariant are for a publisher at rest or at work.
<1>e. \A c \in Publishers : call[c].pc \in EarlyPcs => call[c].done = {}
  BY <1>i DEF Progress
<1>f. \A c \in Publishers : call[c].pc \in ScannedPcs => Scanned(c)
  BY <1>i DEF Progress
<1>h. \A c \in Publishers : call[c].pc \in {"present", "settled"} =>
         call[c].cur = Merged(call[c].cur)
  BY <1>i DEF Progress
<1>j. \A c \in Publishers : call[c].pc \in PlannedPcs \ ActingPcs => Arrived(c)
  BY <1>i DEF Progress
<1>k. \A c \in Publishers : call[c].pc \in PlannedPcs => Ordered(c)
  BY <1>i DEF Progress
<1>m. \A c \in Publishers : Scanned(c) /\ call[c].cur = Merged(call[c].cur) => Applied(c)
  <2> TAKE c \in Publishers
  <2>1. \A p \in Paths : InDelta(p) => Merged(call[c].cur)[p] = plan.goal[p]
    BY <1>t, ManifestTypes
  <2>2. QED
    BY <2>1 DEF OursAndInDelta
<1>1. CASE UNCHANGED vars
  BY <1>1, <1>i, ProgressStays DEF ProgressInv, vars
<1>2. CASE Edits
  <2>1. /\ plan' = plan /\ call' = call /\ journal'.active = journal.active
        /\ \A q \in Paths : (orig'[q] = orig[q] /\ author'[q] = author[q]) \/ author'[q] = "person"
    BY <1>2, <1>i, EditStep DEF Edits, Framed, JournalIs
  <2>2. QED
    BY <2>1, <1>i, ProgressStays DEF ProgressInv
\* Those that do not step, and do not have the lock.
<1>3. ASSUME NEW c \in Publishers, Acts(c), NEW e \in Publishers, e # c PROVE Progress(e)'
  <2>1. call'[e] = call[e]
    BY <1>3, <1>i, OthersStay
  <2>2. CASE call[e].pc \in LockedPcs
    <3>1. Quiet(c)
      BY <1>3, <1>i, <2>2, Bystander
    <3>2. plan' = plan /\ orig' = orig /\ author' = author /\ journal'.active = journal.active
      BY <3>1 DEF Quiet, Framed, DiskSame, JournalSame, JournalIs
    <3>3. QED
      BY <2>1, <3>2, <1>i, ProgressStays
  <2>3. CASE call[e].pc \notin LockedPcs
    <3>1. call'[e].pc \in EarlyPcs => call'[e].done = {}
      BY <2>1, <1>e
    <3>2. call'[e].pc \notin ScannedPcs \cup PlannedPcs \cup ActingPcs \cup
                             {"present", "settled", "finish", "applied", "verified", "published"}
      BY <2>1, <2>3 DEF LockedPcs, ScannedPcs, PlannedPcs, ActingPcs
    <3>3. QED
      BY <3>1, <3>2 DEF Progress
  <2>4. QED
    BY <2>2, <2>3
\* Ways to establish it for the publisher that steps, by where it arrives.
<1> DEFINE Late == ScannedPcs \cup PlannedPcs \cup ActingPcs \cup
                   {"present", "settled", "finish", "applied", "verified", "published"}
<1>4. ASSUME NEW c \in Publishers, call'[c].pc \notin Late,
             call'[c].pc \in EarlyPcs => call'[c].done = {}
      PROVE  Progress(c)'
  BY <1>4 DEF Progress
<1>5. ASSUME NEW c \in Publishers, Applied(c)',
             call'[c].pc \in {"finish", "applied", "verified", "published"}
      PROVE  Progress(c)'
  BY <1>5 DEF Progress, EarlyPcs, ScannedPcs, PlannedPcs, ActingPcs
<1>6. ASSUME NEW c \in Publishers, Scanned(c)', call'[c].pc \in ScannedPcs,
             call'[c].pc \in EarlyPcs => call'[c].done = {},
             call'[c].pc \in {"present", "settled"} => (call[c].cur = Merged(call[c].cur))'
      PROVE  Progress(c)'
  BY <1>6 DEF Progress, ScannedPcs, PlannedPcs, ActingPcs
<1>7. ASSUME NEW c \in Publishers, Arrived(c)', Ordered(c)', call'[c].pc \in PlannedPcs \ ActingPcs,
             call'[c].pc \in EarlyPcs => call'[c].done = {}
      PROVE  Progress(c)'
  BY <1>7 DEF Progress, ScannedPcs, PlannedPcs, ActingPcs
\* The parts are kept with the original, and what a publisher saw and did.
<1>8. ASSUME NEW c \in Publishers, plan' = plan, DiskSame, call'[c].cur = call[c].cur
      PROVE  /\ Scanned(c) => Scanned(c)'
             /\ Applied(c) => Applied(c)'
             /\ call[c].cur = Merged(call[c].cur) => (call[c].cur = Merged(call[c].cur))'
             /\ call'[c].done = call[c].done /\ Arrived(c) => Arrived(c)'
             /\ call'[c].done = call[c].done /\ Ordered(c) => Ordered(c)'
  <2>1. /\ \A p : InDelta(p)' <=> InDelta(p)
        /\ Merged(call[c].cur)' = Merged(call[c].cur)
        /\ Operations(call[c].cur)' = Operations(call[c].cur)
    BY <1>8, Views
  <2>2. \A p : FinalOp(p)' = FinalOp(p)
    BY <1>8 DEF FinalOp
  <2>3. call'[c].done = call[c].done => \A p : Reached(c, p)' <=> Reached(c, p)
    BY <1>8, <2>2 DEF Reached, NothingToDo
  <2>4. \A p \in Paths : OursAndInDelta(p)' <=> OursAndInDelta(p)
    BY <1>8, <2>1 DEF OursAndInDelta, DiskSame
  <2>5. Scanned(c) => Scanned(c)'
    BY <1>8, <2>4 DEF DiskSame
  <2>6. Applied(c) => Applied(c)'
    BY <1>8, <2>4 DEF DiskSame
  <2>7. call'[c].done = call[c].done /\ Arrived(c) => Arrived(c)'
    BY <1>8, <2>3, <2>4 DEF DiskSame
  <2>8. call'[c].done = call[c].done /\ Ordered(c) => Ordered(c)'
    BY <2>1, <2>2
  <2>9. QED
    BY <1>8, <2>1, <2>5, <2>6, <2>7, <2>8
\* An operation is added to those that are done.
<1>9. ASSUME NEW c \in Publishers, NEW o \in Remaining(c), IsNext(c, o), plan' = plan,
             call'[c].cur = call[c].cur, call'[c].done = call[c].done \cup {o}, Ordered(c)
      PROVE  Ordered(c)'
  <2>1. /\ \A p : InDelta(p)' <=> InDelta(p)
        /\ Operations(call[c].cur)' = Operations(call[c].cur)
        /\ \A p : FinalOp(p)' = FinalOp(p)
    BY <1>9, Views DEF FinalOp
  <2>2. ASSUME NEW p \in Paths, FinalOp(p) \in call[c].done \cup {o}, InDelta(p),
               NEW r \in Operations(call[c].cur), r.path = p
        PROVE  r \in call[c].done \cup {o}
    <3>1. CASE FinalOp(p) \in call[c].done
      BY <2>2, <3>1, <1>9
    <3>2. CASE FinalOp(p) = o
      BY <2>2, <3>2, <1>9, <1>i, FinalIsLast
    <3>3. QED
      BY <2>2, <3>1, <3>2
  <2>3. QED
    BY <2>1, <2>2, <1>9
<1>s. ASSUME NEW c \in Publishers, Scans(c), plan' = plan, DiskSame PROVE Progress(c)'
  <2>1. /\ call[c].pc = "scan" /\ call'[c].pc = "reconcile"
        /\ call'[c].cur = Scan(orig) /\ call'[c].done = call[c].done
    BY <1>s DEF Scans
  <2>2. call'[c].done = {}
    BY <2>1, <1>e DEF EarlyPcs
  <2>3. \A p \in Paths : InDelta(p) => Scan(orig)[p] = orig[p]
    BY <1>t, PlanTypes, ManifestTypes
  <2>4. Scanned(c)'
    BY <1>s, <2>1, <2>3 DEF OursAndInDelta, InDelta, DiskSame
  <2>5. call'[c].pc \in ScannedPcs /\ call'[c].pc \notin {"present", "settled"}
    BY <2>1 DEF ScannedPcs
  <2>6. QED
    BY <2>2, <2>4, <2>5, <1>6
<1>10. ASSUME NEW c \in Publishers, Quiet(c) PROVE Progress(c)'
  <2>1. plan' = plan /\ DiskSame
    BY <1>10 DEF Quiet, Framed
  <2>2. CASE Retires(c)
    <3>1. call'[c].pc = "done"
      BY <2>2 DEF Retires
    <3>2. call'[c].pc \notin Late /\ call'[c].pc \notin EarlyPcs
      BY <3>1 DEF ScannedPcs, PlannedPcs, ActingPcs, EarlyPcs
    <3>3. QED
      BY <3>2, <1>4
  <2>3. CASE Scans(c)
    BY <2>1, <2>3, <1>s
  <2>4. CASE Skips(c)
    <3>1. PICK o \in Remaining(c) :
             /\ IsNext(c, o) /\ ~Needed(c, o)
             /\ call[c].pc = "apply" /\ call'[c].pc = "apply"
             /\ call'[c].cur = call[c].cur /\ call'[c].done = call[c].done \cup {o}
      BY <2>4 DEF Skips
    <3>2. Arrived(c) /\ Ordered(c)
      BY <3>1, <1>j, <1>k DEF PlannedPcs, ActingPcs
    <3>3. Ordered(c)'
      BY <2>1, <3>1, <3>2, <1>9
    <3>4. ASSUME NEW p \in Paths, OursAndInDelta(p)', Reached(c, p)'
          PROVE  orig'[p] = plan'.goal[p]
      <4>1. OursAndInDelta(p) /\ InDelta(p)
        BY <2>1, <3>4 DEF OursAndInDelta, InDelta, DiskSame
      <4>2. Reached(c, p) \/ FinalOp(p) = o
        BY <2>1, <3>1, <3>4 DEF Reached, NothingToDo, FinalOp
      <4>3. CASE Reached(c, p)
        BY <2>1, <3>2, <4>1, <4>3 DEF DiskSame
      <4>4. CASE FinalOp(p) = o
        BY <2>1, <3>1, <4>1, <4>4, <1>i, SkippedIsApplied DEF DiskSame
      <4>5. QED
        BY <4>2, <4>3, <4>4
    <3>5. call'[c].pc \in PlannedPcs \ ActingPcs /\ call'[c].pc \notin EarlyPcs
      BY <3>1 DEF PlannedPcs, ActingPcs, EarlyPcs
    <3>6. QED
      BY <3>3, <3>4, <3>5, <1>7
  <2>5. CASE Walks(c)
    <3>1. PICK to \in Pcs : Moves(c, call[c].pc, to) /\ Leads(c, to)
      BY <2>5 DEF Walks
    <3>2. call'[c].pc = to /\ call'[c].cur = call[c].cur /\ call'[c].done = call[c].done
      BY <3>1 DEF Moves
    <3>k. /\ Scanned(c) => Scanned(c)'
          /\ Applied(c) => Applied(c)'
          /\ call[c].cur = Merged(call[c].cur) => (call[c].cur = Merged(call[c].cur))'
          /\ Arrived(c) => Arrived(c)'
          /\ Ordered(c) => Ordered(c)'
      BY <2>1, <3>2, <1>8
    <3>3. CASE to \in {"lock", "plan", "mark", "scan", "discard", "discarding", "marking",
                     "removing", "conflict"}
      <4>1. call'[c].pc \notin Late
        BY <3>2, <3>3 DEF ScannedPcs, PlannedPcs, ActingPcs
      <4>2. call'[c].pc \in EarlyPcs => call[c].pc \in EarlyPcs
        BY <3>1, <3>2, <3>3 DEF Leads, EarlyPcs, LockedPcs
      <4>3. QED
        BY <3>2, <4>1, <4>2, <1>4, <1>e
    <3>4. CASE call[c].pc = "preflight" /\ to \in {"finish", "present"}
      <4>1. Scanned(c) /\ call[c].cur = Merged(call[c].cur) /\ call[c].done = {}
        BY <3>1, <3>4, <1>e, <1>f DEF Leads, ScannedPcs, EarlyPcs
      <4>2. Applied(c)' /\ Scanned(c)' /\ (call[c].cur = Merged(call[c].cur))'
        BY <3>k, <4>1, <1>m
      <4>3. CASE to = "finish"
        BY <3>2, <4>2, <4>3, <1>5
      <4>4. CASE to = "present"
        <5>1. call'[c].pc \in ScannedPcs
          BY <3>2, <4>4 DEF ScannedPcs
        <5>2. QED
          BY <3>2, <4>1, <4>2, <5>1, <1>6
      <4>5. QED
        BY <3>4, <4>3, <4>4
    <3>5. CASE call[c].pc = "resume" /\ to \in {"effected", "apply"}
      <4>1. Arrived(c) /\ Ordered(c)
        BY <3>5, <1>j, <1>k DEF PlannedPcs, ActingPcs
      <4>2. call'[c].pc \in PlannedPcs \ ActingPcs /\ call'[c].pc \notin EarlyPcs
        BY <3>2, <3>5 DEF PlannedPcs, ActingPcs, EarlyPcs
      <4>3. QED
        BY <3>k, <4>1, <4>2, <1>7
    <3>6. CASE call[c].pc = "apply" /\ to = "verified"
      <4>1. Remaining(c) = {} /\ Arrived(c)
        BY <3>1, <3>6, <1>j DEF Leads, LockedPcs, PlannedPcs, ActingPcs
      <4>2. ASSUME NEW p \in Paths, InDelta(p) PROVE Reached(c, p)
        <5>1. NothingToDo(c, p) \/ FinalOp(p) \in Operations(call[c].cur)
          BY <4>2, <1>t, FinalFacts DEF NothingToDo
        <5>2. QED
          BY <4>1, <5>1 DEF Reached, Remaining
      <4>3. Applied(c)
        BY <4>1, <4>2 DEF OursAndInDelta
      <4>4. QED
        BY <3>2, <3>k, <3>6, <4>3, <1>5
    <3>7. QED
      BY <3>1, <3>3, <3>4, <3>5, <3>6 DEF Leads
  <2>6. QED
    BY <1>10, <2>2, <2>3, <2>4, <2>5 DEF Quiet
\* A publisher at work keeps its progress while the original stays.
<1>11. ASSUME NEW c \in Publishers, plan' = plan, DiskSame, journal'.active = journal.active,
              call'[c].cur = call[c].cur, call'[c].done = call[c].done,
              call[c].pc \in ActingPcs, call'[c].pc \in ActingPcs
       PROVE  Progress(c)'
  <2>1. /\ \A p : InDelta(p)' <=> InDelta(p)
        /\ \A p : FinalOp(p)' = FinalOp(p) /\ (Reached(c, p)' <=> Reached(c, p))
        /\ \A p : OursAndInDelta(p)' <=> OursAndInDelta(p)
    BY <1>11, Views DEF FinalOp, Reached, NothingToDo, OursAndInDelta, DiskSame, InDelta
  <2>2. /\ call[c].pc \in PlannedPcs /\ call'[c].pc \in PlannedPcs
        /\ call'[c].pc \notin EarlyPcs \cup ScannedPcs \cup {"present", "settled", "finish", "applied", "verified", "published"}
    BY <1>11 DEF PlannedPcs, ActingPcs, EarlyPcs, ScannedPcs
  <2>3. Ordered(c)'
    BY <2>2, <1>11, <1>8, <1>k
  <2>4. \A p \in Paths : OursAndInDelta(p)' /\ Reached(c, p)' =>
           (call'[c].pc \in ActingPcs /\ p = journal'.active.path) \/ orig'[p] = plan'.goal[p]
    BY <2>1, <2>2, <1>11, <1>i DEF Progress, DiskSame
  <2>5. FinalOp(journal.active.path)' \in call'[c].done /\ InDelta(journal.active.path)'
           => journal'.active = FinalOp(journal.active.path)'
    <3>1. FinalOp(journal.active.path) \in call[c].done /\ InDelta(journal.active.path)
             => journal.active = FinalOp(journal.active.path)
      BY <1>11, <1>i DEF Progress
    <3>2. QED
      BY <3>1, <1>11 DEF FinalOp, InDelta
  <2>6. QED
    BY <2>2, <2>3, <2>4, <2>5 DEF Progress
<1>12. ASSUME NEW c \in Publishers, Writes(c) PROVE Progress(c)'
  <2>0. plan' = plan /\ call'[c].cur = call[c].cur
    BY <1>12, <1>i, WriteMoves DEF Framed
  <2>j. JournalSame => journal'.active = journal.active
    BY DEF JournalSame, JournalIs
  <2>1. CASE Reconcile(c) \/ Reannounce(c)
    <3>1. /\ DiskSame /\ call[c].pc \in {"reconcile", "announce"}
          /\ call'[c].pc \in {"announce", "preflight"} /\ call'[c].done = call[c].done
      BY <2>1, <1>i, RowSteps DEF RowStep, Moves
    <3>2. Scanned(c) /\ call[c].done = {}
      BY <3>1, <1>e, <1>f DEF EarlyPcs, ScannedPcs
    <3>3. call'[c].pc \in ScannedPcs /\ call'[c].pc \notin {"present", "settled"}
      BY <3>1 DEF ScannedPcs
    <3>4. Scanned(c)'
      BY <2>0, <3>1, <3>2, <1>8
    <3>5. QED
      BY <3>1, <3>2, <3>3, <3>4, <1>6
  <2>2. CASE AnnounceOperation(c)
    <3>1. /\ DiskSame /\ JournalSame /\ call[c].pc = "started" /\ call'[c].pc = "effect"
          /\ call'[c].done = call[c].done
      BY <2>2, <1>i, RowSteps DEF RowStep, Moves
    <3>2. call[c].pc \in ActingPcs /\ call'[c].pc \in ActingPcs
      BY <3>1 DEF ActingPcs
    <3>3. QED
      BY <2>0, <2>j, <3>1, <3>2, <1>11
  <2>3. CASE AdvanceCursor(c)
    <3>1. /\ DiskSame /\ call'[c].done = call[c].done
          /\ \/ call[c].pc = "completed" /\ call'[c].pc = "apply"
             \/ call[c].pc = "settled" /\ call'[c].pc = "applied"
      BY <2>3, <1>i, RowSteps DEF RowStep, Moves
    <3>2. CASE call[c].pc = "completed" /\ call'[c].pc = "apply"
      <4>1. Arrived(c) /\ Ordered(c)
        BY <3>2, <1>j, <1>k DEF PlannedPcs, ActingPcs
      <4>2. Arrived(c)' /\ Ordered(c)'
        BY <2>0, <3>1, <4>1, <1>8
      <4>3. call'[c].pc \in PlannedPcs \ ActingPcs /\ call'[c].pc \notin EarlyPcs
        BY <3>2 DEF PlannedPcs, ActingPcs, EarlyPcs
      <4>4. QED
        BY <4>2, <4>3, <1>7
    <3>3. CASE call[c].pc = "settled" /\ call'[c].pc = "applied"
      <4>1. Scanned(c) /\ call[c].cur = Merged(call[c].cur)
        BY <3>3, <1>f, <1>h DEF ScannedPcs
      <4>2. Applied(c)'
        BY <2>0, <3>1, <4>1, <1>8, <1>m
      <4>3. QED
        BY <3>3, <4>2, <1>5
    <3>4. QED
      BY <3>1, <3>2, <3>3
  <2>4. CASE OpenPlan(c)
    <3>1. /\ DiskSame /\ call[c].pc = "preflight" /\ call'[c].pc = "resume"
          /\ call'[c].done = call[c].done
      BY <2>4, <1>i, JournalSteps DEF JournalStep, Moves
    <3>2. Scanned(c) /\ call[c].done = {}
      BY <3>1, <1>e, <1>f DEF EarlyPcs, ScannedPcs
    <3>3. Arrived(c) /\ Ordered(c)
      BY <3>2 DEF Reached, NothingToDo
    <3>4. Arrived(c)' /\ Ordered(c)'
      BY <2>0, <3>1, <3>3, <1>8
    <3>5. call'[c].pc \in PlannedPcs \ ActingPcs
      BY <3>1 DEF PlannedPcs, ActingPcs
    <3>6. QED
      BY <3>1, <3>2, <3>4, <3>5, <1>7
  <2>5. CASE Refuses(c)
    <3>1. call'[c].pc = "conflict"
      BY <2>5, <1>i, JournalSteps DEF JournalStep, Moves
    <3>2. call'[c].pc \notin Late /\ call'[c].pc \notin EarlyPcs
      BY <3>1 DEF ScannedPcs, PlannedPcs, ActingPcs, EarlyPcs
    <3>3. QED
      BY <3>2, <1>4
  <2>6. CASE Stages(c)
    <3>1. /\ DiskSame /\ call[c].pc = "effect" /\ call'[c].pc = "staged"
          /\ call'[c].done = call[c].done /\ journal'.active = journal.active
      BY <2>6, <1>i, JournalSteps DEF JournalStep, Moves, JournalIs
    <3>2. call[c].pc \in ActingPcs /\ call'[c].pc \in ActingPcs
      BY <3>1 DEF ActingPcs
    <3>3. QED
      BY <2>0, <3>1, <3>2, <1>11
  <2>7. CASE CompleteOperation(c)
    <3>1. /\ DiskSame /\ call'[c].done = call[c].done
          /\ \/ call[c].pc = "effected" /\ call'[c].pc = "completed"
             \/ call[c].pc = "present" /\ call'[c].pc = "settled"
      BY <2>7, <1>i, JournalSteps DEF JournalStep, Moves
    <3>2. CASE call[c].pc = "effected" /\ call'[c].pc = "completed"
      <4>1. Arrived(c) /\ Ordered(c)
        BY <3>2, <1>j, <1>k DEF PlannedPcs, ActingPcs
      <4>2. Arrived(c)' /\ Ordered(c)'
        BY <2>0, <3>1, <4>1, <1>8
      <4>3. call'[c].pc \in PlannedPcs \ ActingPcs /\ call'[c].pc \notin EarlyPcs
        BY <3>2 DEF PlannedPcs, ActingPcs, EarlyPcs
      <4>4. QED
        BY <4>2, <4>3, <1>7
    <3>3. CASE call[c].pc = "present" /\ call'[c].pc = "settled"
      <4>1. Scanned(c) /\ call[c].cur = Merged(call[c].cur)
        BY <3>3, <1>f, <1>h DEF ScannedPcs
      <4>2. Scanned(c)' /\ (call[c].cur = Merged(call[c].cur))'
        BY <2>0, <3>1, <4>1, <1>8
      <4>3. call'[c].pc \in ScannedPcs /\ call'[c].pc \notin EarlyPcs
        BY <3>3 DEF ScannedPcs, EarlyPcs
      <4>4. QED
        BY <4>2, <4>3, <1>6
    <3>4. QED
      BY <3>1, <3>2, <3>3
  <2>8. CASE Finishes(c)
    <3>1. DiskSame /\ call[c].pc \in EndPcs /\ call'[c].pc = "published"
      BY <2>8, <1>i, JournalSteps DEF JournalStep, Moves
    <3>2. Applied(c)
      BY <3>1, <1>i DEF Progress, EndPcs
    <3>3. Applied(c)'
      BY <2>0, <3>1, <3>2, <1>8
    <3>4. QED
      BY <3>1, <3>3, <1>5
  <2>9. ASSUME NEW o \in Remaining(c), StartOperation(c, o)
        PROVE  Progress(c)'
    <3>1. /\ DiskSame /\ call[c].pc = "apply" /\ call'[c].pc = "started" /\ o \in Operation
          /\ call'[c].done = call[c].done \cup {o} /\ journal'.active = o /\ IsNext(c, o)
      BY <2>9, <1>i, StartStep DEF JournalIs
    <3>2. Arrived(c) /\ Ordered(c)
      BY <3>1, <1>j, <1>k DEF PlannedPcs, ActingPcs
    <3>3. Ordered(c)'
      BY <2>0, <3>1, <3>2, <1>9
    <3>4. ASSUME NEW p \in Paths, OursAndInDelta(p)', Reached(c, p)', p # o.path
          PROVE  orig'[p] = plan'.goal[p]
      <4>1. OursAndInDelta(p)
        BY <2>0, <3>1, <3>4 DEF OursAndInDelta, InDelta, DiskSame
      <4>2. FinalOp(p).path = p
        BY DEF FinalOp
      <4>3. Reached(c, p)
        BY <2>0, <3>1, <3>4, <4>2 DEF Reached, NothingToDo, FinalOp
      <4>4. QED
        BY <2>0, <3>1, <3>2, <4>1, <4>3 DEF DiskSame
    <3>5. FinalOp(o.path) \in call[c].done \cup {o} /\ InDelta(o.path) => o = FinalOp(o.path)
      <4>1. o \in Operations(call[c].cur) /\ o \notin call[c].done /\ o.path \in Paths
        BY <3>1, <1>t DEF Remaining
      <4>2. QED
        BY <3>2, <4>1
    <3>6. FinalOp(o.path)' = FinalOp(o.path) /\ (InDelta(o.path)' <=> InDelta(o.path))
      BY <2>0 DEF FinalOp, InDelta
    <3>7. /\ call'[c].pc \in ActingPcs /\ call'[c].pc \in PlannedPcs
          /\ call'[c].pc \notin EarlyPcs \cup ScannedPcs \cup
                       {"present", "settled", "finish", "applied", "verified", "published"}
      BY <3>1 DEF PlannedPcs, ActingPcs, EarlyPcs, ScannedPcs
    <3>8. FinalOp(journal.active.path)' \in call'[c].done /\ InDelta(journal.active.path)'
             => journal'.active = FinalOp(journal.active.path)'
      <4>1. FinalOp(o.path)' \in call'[c].done /\ InDelta(o.path)' => o = FinalOp(o.path)'
        BY <3>1, <3>5, <3>6
      <4>2. QED
        BY <3>1, <4>1 DEF FinalOp, InDelta
    <3>9. \A p \in Paths : OursAndInDelta(p)' /\ Reached(c, p)' =>
             (call'[c].pc \in ActingPcs /\ p = journal'.active.path) \/ orig'[p] = plan'.goal[p]
      BY <3>1, <3>4, <3>7
    <3>10. QED
      BY <3>3, <3>7, <3>8, <3>9 DEF Progress
  <2>10. CASE Puts(c)
    <3> DEFINE q == journal.active.path
               o == journal.active
    <3>1. /\ call[c].pc \in {"effect", "staged"} /\ call'[c].pc = "effected"
          /\ call'[c].done = call[c].done
          /\ \A p \in Paths : p # q => orig'[p] = orig[p] /\ author'[p] = author[p]
      BY <2>10, <1>i, PutStep DEF Moves
    <3>2. /\ o \in Operations(call[c].cur) /\ o \in call[c].done
          /\ o \in Operation /\ q \in Paths
          /\ call[c].pc = "staged" => o.action = "replace"
      BY <3>1, <1>i, <1>t, OperationsAre DEF GuardInv, Guarded, ActingPcs
    <3>3. orig'[q] = PutEntry(c)
      BY <2>10, <3>2, <1>i, PutStep
    <3>4. /\ \A p : InDelta(p)' <=> InDelta(p)
          /\ Operations(call[c].cur)' = Operations(call[c].cur)
          /\ \A p : FinalOp(p)' = FinalOp(p) /\ (Reached(c, p)' <=> Reached(c, p))
      BY <2>0, <3>1, Views DEF FinalOp, Reached, NothingToDo
    <3>5. call[c].pc \in ActingPcs /\ call[c].pc \in PlannedPcs
      BY <3>1 DEF ActingPcs, PlannedPcs
    <3>6. Ordered(c)'
      BY <3>1, <3>4, <3>5, <1>k
    <3>7. ASSUME NEW p \in Paths, OursAndInDelta(p)', Reached(c, p)'
          PROVE  orig'[p] = plan'.goal[p]
      <4>1. InDelta(p) /\ Reached(c, p)
        BY <3>4, <3>7 DEF OursAndInDelta
      <4>2. CASE p # q
        <5>1. OursAndInDelta(p)
          BY <3>1, <3>7, <4>1, <4>2 DEF OursAndInDelta
        <5>2. QED
          BY <2>0, <3>1, <3>5, <4>1, <4>2, <5>1, <1>i DEF Progress
      <4>3. CASE p = q
        <5>1. ~NothingToDo(c, p)
          BY <3>2, <4>1, <4>3, <1>t, FinalFacts DEF NothingToDo
        <5>2. o = FinalOp(q)
          BY <3>5, <4>1, <4>3, <5>1, <1>i DEF Progress, Reached
        <5>3. \/ o.action = "chmod" \/ o.action = "replace"
              \/ o.action = "remove" /\ plan.goal[q] = Absent
          BY <3>2, <4>1, <4>3, <5>2, <1>t, FinalFacts
        <5>4. Merged(call[c].cur)[q] = plan.goal[q]
          BY <4>1, <4>3, <1>t, ManifestTypes
        <5>5. PutEntry(c) = plan.goal[q]
          BY <5>3, <5>4 DEF PutEntry
        <5>6. QED
          BY <2>0, <3>3, <4>3, <5>5
      <4>4. QED
        BY <4>2, <4>3
    <3>8. call'[c].pc \in PlannedPcs \ ActingPcs /\ call'[c].pc \notin EarlyPcs
      BY <3>1 DEF PlannedPcs, ActingPcs, EarlyPcs
    <3>9. QED
      BY <3>6, <3>7, <3>8, <1>7
  <2>11. QED
    BY <1>12, <2>1, <2>2, <2>3, <2>4, <2>5, <2>6, <2>7, <2>8, <2>9, <2>10 DEF Writes
<1>13. ASSUME NEW c \in Publishers, Adopts(c) PROVE Progress(c)'
  <2>1. plan' = plan /\ DiskSame
    BY <1>13 DEF Adopts, Framed
  <2>2. CASE Scans(c)
    BY <2>1, <2>2, <1>s
  <2>3. CASE \E from \in {"apply", "effect", "staged"} : Moves(c, from, "conflict")
    <3>1. call'[c].pc = "conflict"
      BY <2>3 DEF Moves
    <3>2. call'[c].pc \notin Late /\ call'[c].pc \notin EarlyPcs
      BY <3>1 DEF ScannedPcs, PlannedPcs, ActingPcs, EarlyPcs
    <3>3. QED
      BY <3>2, <1>4
  <2>4. CASE \E from \in {"applied", "verified"} : Moves(c, from, "published")
    <3>1. /\ call[c].pc \in {"applied", "verified"} /\ call'[c].pc = "published"
          /\ call'[c].cur = call[c].cur
      BY <2>4 DEF Moves
    <3>2. Applied(c)
      BY <3>1, <1>i DEF Progress
    <3>3. Applied(c)'
      BY <2>1, <3>1, <3>2, <1>8
    <3>4. QED
      BY <3>1, <3>3, <1>5
  <2>5. QED
    BY <1>13, <2>2, <2>3, <2>4 DEF Adopts
<1>14. QED
  <2>1. ASSUME NEW c \in Publishers, Acts(c), NEW e \in Publishers PROVE Progress(e)'
    BY <2>1, <1>3, <1>10, <1>12, <1>13 DEF Acts
  <2>2. QED
    BY <2>1, <1>1, <1>2, <1>i, StepCases DEF ProgressInv

LEMMA ProgressedInvariant == Spec => []ProgressedInv
<1>1. Init => ProgressInv
  BY DEF Init, NewCall, NewJournal, ProgressInv, Progress, EarlyPcs, ScannedPcs, PlannedPcs, ActingPcs
<1>2. ProgressedInv /\ [Next]_vars => ProgressInv'
  BY ProgressStep
<1>3. ProgressedInv <=> TracedInv /\ ProgressInv
  BY DEF ProgressedInv
<1>4. QED
  BY <1>1, <1>2, <1>3, TracedInvariant, PTL DEF Spec

\* A row becomes published at the end of a publication, and not otherwise.
LEMMA OnlyTheEndPublishes ==
    ASSUME TypeOK, [Next]_vars, row'.status = "published", row.status # "published"
    PROVE  \E c \in Publishers : call[c].pc = "published"
<1>t. journal.count \in Nat
      /\ "planned" \in {"none", "planned", "applying", "conflicted", "published"}
  BY DEF TypeOK, Document
<1>1. ~Edits /\ ~(UNCHANGED vars)
  BY EditStep DEF Edits, vars
<1>2. ASSUME NEW c \in Publishers, Quiet(c) PROVE call[c].pc = "published"
  BY <1>2 DEF Quiet, Retires, Walks, Scans, Skips
<1>3. ASSUME NEW c \in Publishers, Writes(c) PROVE FALSE
  <2>1. ~(Advance(journal.count) \/ Announce(journal.count)) /\ row' # row
    BY <1>t, RowWrites DEF RowIs
  <2>2. ~(Reconcile(c) \/ Reannounce(c) \/ AnnounceOperation(c) \/ AdvanceCursor(c))
    BY <2>1, RowSteps
  <2>3. ~(OpenPlan(c) \/ Refuses(c) \/ Stages(c) \/ CompleteOperation(c) \/ Finishes(c))
    BY <2>1, JournalSteps DEF JournalStep
  <2>4. ~((\E o \in Remaining(c) : StartOperation(c, o)) \/ Puts(c))
    BY <2>1, StartStep, PutStep
  <2>5. QED
    BY <1>3, <2>2, <2>3, <2>4 DEF Writes
<1>4. ASSUME NEW c \in Publishers, Adopts(c) PROVE FALSE
  BY <1>4 DEF Adopts
<1>5. QED
  BY <1>1, <1>2, <1>3, <1>4, StepCases DEF Acts

\* A row says published only when the delta is in the original, on every path
\* the person has not changed since.
THEOREM PublishedMeansApplied == Spec => PublishedIsApplied
<1> DEFINE Honest ==
             row'.status = "published" /\ row.status # "published" =>
                \A p \in Paths : InDelta(p) /\ author[p] # "person" => orig[p] = plan.goal[p]
<1>1. ASSUME ProgressedInv, [Next]_vars PROVE [Honest]_vars
  <2> SUFFICES ASSUME row'.status = "published", row.status # "published",
                      NEW p \in Paths, InDelta(p), author[p] # "person"
               PROVE  orig[p] = plan.goal[p]
    OBVIOUS
  <2>1. TypeOK /\ ProgressInv
    BY <1>1 DEF ProgressedInv, TracedInv, GuardedInv
  <2>2. PICK c \in Publishers : call[c].pc = "published"
    BY <1>1, <2>1, OnlyTheEndPublishes
  <2>3. QED
    BY <2>1, <2>2 DEF ProgressInv, Progress, OursAndInDelta
<1>2. ProgressedInv /\ [Next]_vars => [Honest]_vars
  BY <1>1
<1>3. QED
  BY <1>2, ProgressedInvariant, PTL DEF Spec, PublishedIsApplied

-----------------------------------------------------------------------------
(* The tree of paths.                                                       *)

\* What is above p is in every set that holds p's parent and the parents of
\* its members: so Above, a recursion along the parents, is well defined.
LEMMA AboveIs ==
    \A p \in Paths :
       Above[p] = IF Parent[p] = 0 THEN {} ELSE {Parent[p]} \cup Above[Parent[p]]
<1> DEFINE Up(x, S) == Parent[x] # 0 => Parent[x] \in S
           Closed(p, S) == Up(p, S) /\ \A x \in S : Up(x, S)
           f == [p \in Paths |-> {a \in Paths : \A S \in SUBSET Paths : Closed(p, S) => a \in S}]
           F(g) == [p \in Paths |-> IF Parent[p] = 0 THEN {} ELSE {Parent[p]} \cup g[Parent[p]]]
<1>1. ASSUME NEW p \in Paths, Parent[p] = 0 PROVE f[p] = {}
  <2>1. Closed(p, {}) /\ {} \in SUBSET Paths
    BY <1>1
  <2> HIDE DEF Closed
  <2>2. QED
    BY <2>1
<1>2. ASSUME NEW p \in Paths, Parent[p] # 0 PROVE f[p] = {Parent[p]} \cup f[Parent[p]]
  <2> DEFINE r == Parent[p]
             T == {r} \cup f[r]
  <2>1. r \in Paths
    BY <1>2, PathsAssumption
  <2>f. \A x \in Paths : \A a : a \in f[x] <=> a \in Paths /\ \A S \in SUBSET Paths : Closed(x, S) => a \in S
    OBVIOUS
  <2>p. \A x \in Paths : Parent[x] # 0 => Parent[x] \in Paths
    BY PathsAssumption
  <2> HIDE DEF f
  <2>2. Up(r, T)
    BY <2>1, <2>f, <2>p
  <2>3. \A x \in f[r] : Up(x, T)
    BY <2>1, <2>f, <2>p
  <2>4. Closed(p, T)
    BY <2>2, <2>3
  <2>5. T \in SUBSET Paths
    BY <2>1, <2>f
  <2>6. f[p] \subseteq T
    <3> HIDE DEF T, Closed
    <3>1. QED
      BY <2>4, <2>5, <2>f
  <2>7. r \in f[p]
    BY <1>2, <2>1, <2>f
  <2>8. \A S \in SUBSET Paths : Closed(p, S) => Closed(r, S)
    BY <1>2
  <2>9. f[r] \subseteq f[p]
    BY <2>1, <2>8, <2>f
  <2>10. QED
    BY <2>6, <2>7, <2>9
<1> HIDE DEF f
<1>3. f = F(f)
  <2>1. f = [p \in Paths |-> f[p]]
    BY DEF f
  <2>2. \A p \in Paths : f[p] = IF Parent[p] = 0 THEN {} ELSE {Parent[p]} \cup f[Parent[p]]
    BY <1>1, <1>2
  <2>3. QED
    BY <2>1, <2>2
<1>4. Above = CHOOSE g : g = F(g)
  BY DEF Above
<1>5. Above = F(Above)
  <2> HIDE DEF F
  <2>1. QED
    BY <1>3, <1>4
<1>6. QED
  BY <1>5

\* What is above a path are paths with smaller numbers, and all that is above them.
LEMMA AboveIsSmaller ==
    \A p \in Paths : \A a \in Above[p] : a \in Paths /\ a < p /\ Above[a] \subseteq Above[p]
<1> DEFINE Fine(p) == \A a \in Above[p] : a \in Paths /\ a < p /\ Above[a] \subseteq Above[p]
           B == {p \in Paths : ~Fine(p)}
           R == OpToRel(<, Nat)
<1>n. Paths \subseteq Nat /\ \A p \in Paths : Parent[p] < p /\ Parent[p] \in Paths \cup {0}
  BY PathsAssumption
<1>1. SUFFICES B = {}
  OBVIOUS
<1>2. SUFFICES ASSUME B # {} PROVE FALSE
  OBVIOUS
<1>3. IsWellFoundedOn(R, Nat)
  BY NatLessThanWellFounded
<1>4. B \in SUBSET Nat
  BY <1>n
<1>5. \A i, j \in Nat : j < i => <<j, i>> \in R
  BY DEF OpToRel
<1>6. \E p \in B : \A j \in B : ~ (<<j, p>> \in R)
  <2> HIDE DEF B, R
  <2>1. QED
    BY <1>2, <1>3, <1>4, WFMin
<1>7. PICK p \in B : \A j \in B : ~ (j < p)
  <2> HIDE DEF B, R
  <2>1. QED
    BY <1>4, <1>5, <1>6
<1>8. p \in Paths /\ p \in Nat /\ ~Fine(p)
  BY <1>4, <1>7
<1>9. Above[p] = IF Parent[p] = 0 THEN {} ELSE {Parent[p]} \cup Above[Parent[p]]
  BY <1>8, AboveIs
<1>10. CASE Parent[p] = 0
  BY <1>8, <1>9, <1>10
<1>11. CASE Parent[p] # 0
  <2>1. Parent[p] \in Paths /\ Parent[p] \in Nat /\ Parent[p] < p
    BY <1>8, <1>11, <1>n
  <2>2. Fine(Parent[p])
    BY <1>7, <2>1
  <2>3. \A a \in Above[p] : a = Parent[p] \/ a \in Above[Parent[p]]
    BY <1>9, <1>11
  <2>4. Above[Parent[p]] \subseteq Above[p]
    BY <1>9, <1>11
  <2>5. ASSUME NEW a \in Above[Parent[p]]
        PROVE  a \in Paths /\ a < p /\ Above[a] \subseteq Above[p]
    <3>1. a \in Paths /\ a < Parent[p] /\ Above[a] \subseteq Above[Parent[p]]
      BY <2>2
    <3>2. a \in Nat
      BY <3>1, <1>n
    <3>3. QED
      BY <3>1, <3>2, <2>1, <2>4, <1>8
  <2>6. Fine(p)
    BY <2>1, <2>3, <2>4, <2>5
  <2>7. QED
    BY <2>6, <1>8
<1>12. QED
  BY <1>10, <1>11

\* A path is deeper than those above it, and not above itself.
LEMMA DepthGrows ==
    ASSUME NEW p \in Paths, NEW a \in Above[p]
    PROVE  /\ a \in Paths /\ a # p /\ a \notin Above[a]
           /\ Depth(a) \in Nat /\ Depth(p) \in Nat /\ Depth(a) < Depth(p)
<1>1. a \in Paths /\ a < p /\ Above[a] \subseteq Above[p] /\ a \in Nat /\ p \in Nat
  BY AboveIsSmaller, PathsAssumption
<1>2. a \notin Above[a] /\ a # p
  BY <1>1, AboveIsSmaller
<1>3. \A x \in Above[p] : x \in 1..p
  <2> TAKE x \in Above[p]
  <2>1. x \in Paths /\ x < p
    BY AboveIsSmaller
  <2>2. x \in Nat \ {0}
    BY <2>1, PathsAssumption
  <2>3. QED
    BY <1>1, <2>1, <2>2
<1>4. IsFiniteSet(1..p)
  BY <1>1, FS_Interval
<1>5. Above[p] \in SUBSET (1..p)
  BY <1>3
<1>6. IsFiniteSet(Above[p])
  BY <1>4, <1>5, FS_Subset
<1>7. Above[a] \in SUBSET Above[p] /\ Above[a] # Above[p]
  BY <1>1, <1>2
<1>8. /\ IsFiniteSet(Above[a]) /\ Cardinality(Above[a]) <= Cardinality(Above[p])
      /\ Cardinality(Above[p]) # Cardinality(Above[a])
  BY <1>6, <1>7, FS_Subset
<1>9. Cardinality(Above[a]) \in Nat /\ Cardinality(Above[p]) \in Nat
  BY <1>6, <1>8, FS_CardinalityType
<1>10. QED
  BY <1>1, <1>2, <1>8, <1>9 DEF Depth

-----------------------------------------------------------------------------
(* Takeovers alone: nothing is in conflict.                                 *)

\* The steps of a publisher that is not killed, and those that find a conflict.
Steps(c) == Prepare(c) \/ Apply(c) \/ Conclude(c) \/ Discard(c)
Disputes(c) ==
    \/ Conflict(c) \/ Refusal(c) \/ RmdirFails(c)
    \/ Verify(c) /\ ~Verified(c)
    \/ \E o \in Remaining(c) : BlockOperation(c, o)

\* Without a dispute nothing is marked as conflicted, and a publisher whose
\* effect is under way completes it.
Agreed(c) ==
    /\ call'[c].pc # "conflict"
    /\ journal'.status = "conflicted" => journal.status = "conflicted"
    /\ row'.status = "conflicted" => row.status = "conflicted" \/ call[c].pc = "conflict"
    /\ call[c].pc \in {"staged", "effected"} =>
          \/ call'[c].pc = "effected" \/ journal'.moved = {}
          \/ call'[c].pc = "done" /\ shadow.is = "removed"

\* Only the person edits, and only a crash is a crash.
LEMMA StepsAreCalm ==
    ASSUME TypeOK, NEW c \in Publishers, Steps(c)
    PROVE  /\ plan' = plan /\ edits' = edits /\ crashes' = crashes
           /\ shadow.is = "removed" => shadow'.is = "removed"
<1> DEFINE Same == /\ plan' = plan /\ edits' = edits /\ crashes' = crashes
                   /\ shadow.is = "removed" => shadow'.is = "removed"
<1>t. shadow \in ShadowRecord
  BY DocumentTypes
<1>w. ASSUME NEW doc, NEW b, Write(doc, b) PROVE Same
  BY <1>w DEF Write
<1>1. CASE Prepare(c)
  <2>1. Begin(c) \/ Lock(c) \/ LockTimesOut(c) \/ ShadowIsGone(c) => Same
    BY DEF Begin, Lock, LockTimesOut, ShadowIsGone, rest
  <2>2. (\/ CreatePublication(c) \/ MarkApplying(c) \/ ScanOriginal(c) \/ Reconcile(c)
         \/ Reannounce(c) \/ ResumeActive(c)) => Same
    BY DEF CreatePublication, MarkApplying, ScanOriginal, Reconcile, Reannounce, ResumeActive,
           Stay, rest
  <2>3. Preflight(c) \/ Conflict(c) => Same
    BY <1>w DEF Preflight, Conflict, Stay, rest
  <2>4. QED
    BY <1>1, <2>1, <2>2, <2>3 DEF Prepare
<1>2. CASE Apply(c)
  <2>1. ASSUME NEW o \in Remaining(c),
               SkipOperation(c, o) \/ BlockOperation(c, o) \/ JournalMismatch(c, o)
        PROVE  Same
    BY <2>1 DEF SkipOperation, BlockOperation, JournalMismatch, Stay, rest
  <2>2. ASSUME NEW o \in Remaining(c), StartOperation(c, o) \/ RefuseOperation(c, o)
        PROVE  Same
    BY <2>2, <1>w DEF StartOperation, RefuseOperation, RecordConflict
  <2>3. AnnounceOperation(c) \/ Perform(c) \/ Swap(c) \/ RmdirFails(c) \/ AdvanceCursor(c) => Same
    BY DEF AnnounceOperation, Perform, Swap, RmdirFails, AdvanceCursor, Stay, rest
  <2>4. GuardFails(c) \/ CompleteOperation(c) => Same
    BY <1>w DEF GuardFails, CompleteOperation, RecordConflict
  <2>5. QED
    BY <1>2, <2>1, <2>2, <2>3, <2>4 DEF Apply
<1>3. CASE Conclude(c) \/ Discard(c)
  <2>1. Verify(c) \/ MarkPublished(c) \/ MarkConflicted(c) \/ Rejected(c) => Same
    BY DEF Verify, MarkPublished, MarkConflicted, Rejected, Stay, rest
  <2>2. Finish(c) => Same
    BY <1>w DEF Finish
  <2>3. BeginDiscard(c) \/ CheckDiscard(c) \/ RefuseDiscard(c) => Same
    BY DEF BeginDiscard, CheckDiscard, RefuseDiscard, Stay, rest
  <2>4. ReadDiscard(c) \/ MarkDiscarded(c) \/ RemoveShadow(c) => Same
    BY <1>t DEF ReadDiscard, MarkDiscarded, RemoveShadow, ShadowRecord
  <2>5. QED
    BY <1>3, <2>1, <2>2, <2>3, <2>4 DEF Conclude, Discard
<1>4. QED
  BY <1>1, <1>2, <1>3 DEF Steps

LEMMA OnlyDisputes ==
    ASSUME TypeOK, NEW c \in Publishers, Steps(c), ~Disputes(c),
           shadow.doc.status # "conflicted"
    PROVE  Agreed(c)
<1> USE SameParts
<1>t. journal.count \in Nat
      /\ "planned" \in {"none", "planned", "applying", "conflicted", "published"}
  BY DEF TypeOK, Document
<1>a. Advance(journal.count) \/ Announce(journal.count) =>
         (row'.status = "conflicted" => row.status = "conflicted")
  BY <1>t, RowWrites DEF RowIs
\* The ways a step ends.
<1>g. ASSUME NEW pc \in Pcs, Goto(c, pc), pc # "conflict", call[c].pc \notin {"staged", "effected"},
             journal'.status = "conflicted" => journal.status = "conflicted",
             row'.status = "conflicted" => row.status = "conflicted"
      PROVE  Agreed(c)
  BY <1>g, GotoCall DEF Agreed
<1>l. ASSUME Leave(c), call[c].pc \notin {"staged", "effected"},
             journal'.status = "conflicted" => journal.status = "conflicted",
             row'.status = "conflicted" => row.status = "conflicted" \/ call[c].pc = "conflict"
      PROVE  Agreed(c)
  BY <1>l, LeaveCall DEF Agreed
<1>s. StateFile.status = "conflicted" => journal.status = "conflicted"
  BY DEF StateFile
<1>p. {"lock", "plan", "mark", "scan", "reconcile", "announce", "preflight", "finish", "present",
       "resume", "effected", "apply", "started", "effect", "staged", "completed", "settled",
       "applied", "verified", "published", "discard", "discarding", "marking",
       "removing"} \subseteq Pcs \ {"conflict"}
  BY DEF Pcs
<1>1. CASE Prepare(c)
  <2>1. CASE Begin(c) \/ Lock(c)
    BY <2>1, <1>g, <1>p DEF Begin, Lock
  <2>2. CASE LockTimesOut(c) \/ ShadowIsGone(c)
    <3>1. /\ Leave(c) /\ journal' = journal /\ row' = row
          /\ call[c].pc = "lock" \/ shadow.is = "removed"
      BY <2>2 DEF LockTimesOut, ShadowIsGone
    <3>2. QED
      BY <3>1, LeaveCall DEF Agreed
  <2>3. CASE CreatePublication(c) \/ MarkApplying(c)
    <3>1. row'.status = "conflicted" => row.status = "conflicted"
      BY <2>3 DEF CreatePublication, MarkApplying
    <3>2. QED
      BY <2>3, <3>1, <1>g, <1>p DEF CreatePublication, MarkApplying
  <2>4. CASE ScanOriginal(c)
    <3>1. Scan(orig) \in Manifest /\ "reconcile" \in Pcs
      BY ManifestTypes, <1>p DEF TypeOK
    <3>2. call'[c].pc = "reconcile" /\ call[c].pc = "scan" /\ journal' = StateFile /\ row' = row
      BY <2>4, <3>1, CallFields DEF ScanOriginal
    <3>3. QED
      BY <3>2, <1>s DEF Agreed
  <2>5. CASE Reconcile(c) \/ Reannounce(c)
    <3>1. PICK pc \in {"preflight", "announce"} : Goto(c, pc)
      BY <2>5 DEF Reconcile, Reannounce
    <3>2. row'.status = "conflicted" => row.status = "conflicted"
      BY <2>5, <1>a, RowSteps
    <3>3. QED
      BY <2>5, <3>1, <3>2, <1>g, <1>p DEF Reconcile, Reannounce
  <2>6. CASE Preflight(c)
    <3>1. PICK pc \in {"finish", "present", "resume"} : Goto(c, pc)
      BY <2>6 DEF Preflight
    <3>2. journal'.status = "conflicted" => journal.status = "conflicted"
      BY <2>6 DEF Preflight, Write, TypeOK, Document
    <3>3. QED
      BY <2>6, <3>1, <3>2, <1>g, <1>p DEF Preflight
  <2>7. CASE ResumeActive(c)
    <3>1. PICK pc \in {"effected", "apply"} : Goto(c, pc)
      BY <2>7 DEF ResumeActive
    <3>2. QED
      BY <2>7, <3>1, <1>g, <1>p DEF ResumeActive
  <2>8. QED
    BY <1>1, <2>1, <2>2, <2>3, <2>4, <2>5, <2>6, <2>7 DEF Prepare, Disputes
<1>2. CASE Apply(c)
  <2>1. ASSUME NEW o \in Remaining(c), SkipOperation(c, o) PROVE Agreed(c)
    <3>1. o \in Operation
      BY ManifestTypes, <1>p, CallFields DEF Remaining, TypeOK, CallState
    <3>2. call'[c].pc = "apply" /\ call[c].pc = "apply" /\ journal' = journal /\ row' = row
      BY <2>1, <3>1, <1>p, CallFields DEF SkipOperation
    <3>3. QED
      BY <3>2 DEF Agreed
  <2>2. ASSUME NEW o \in Remaining(c), StartOperation(c, o) PROVE Agreed(c)
    BY <2>2, StartStep DEF Agreed, JournalIs
  <2>3. ASSUME NEW o \in Remaining(c), JournalMismatch(c, o) PROVE Agreed(c)
    BY <2>3, <1>l DEF JournalMismatch
  <2>4. CASE AnnounceOperation(c)
    BY <2>4, <1>a, <1>g, <1>p, RowSteps DEF AnnounceOperation
  <2>5. CASE AdvanceCursor(c)
    <3>1. PICK pc \in {"apply", "applied"} : Goto(c, pc)
      BY <2>5 DEF AdvanceCursor
    <3>2. QED
      BY <2>5, <3>1, <1>a, <1>g, <1>p, RowSteps DEF AdvanceCursor
  <2>6. CASE Stages(c)
    BY <2>6, JournalSteps DEF Agreed, JournalStep, JournalIs, Moves
  <2>7. CASE CompleteOperation(c)
    BY <2>7, JournalSteps DEF Agreed, JournalStep, JournalIs, Moves
  <2>8. CASE Puts(c)
    <3>1. journal' = journal
      BY <2>8 DEF Puts, Perform, Swap
    <3>2. QED
      BY <2>8, <3>1, PutStep DEF Agreed, Moves
  <2>9. QED
    BY <1>2, <2>1, <2>2, <2>3, <2>4, <2>5, <2>6, <2>7, <2>8 DEF Apply, Disputes, Refusal, Stages, Puts
<1>3. CASE Conclude(c)
  <2>1. CASE Verify(c)
    <3>1. Goto(c, "verified")
      BY <2>1 DEF Verify, Disputes
    <3>2. QED
      BY <2>1, <3>1, <1>g, <1>p DEF Verify
  <2>2. CASE Finish(c)
    <3>1. journal'.status = "published" /\ row' = row
      BY <2>2, DocumentTypes DEF Finish, Write, Document
    <3>2. QED
      BY <2>2, <3>1, <1>g, <1>p DEF Finish, EndPcs
  <2>3. CASE MarkPublished(c) \/ MarkConflicted(c)
    <3>1. row'.status = "conflicted" => row.status = "conflicted" \/ call[c].pc = "conflict"
      BY <2>3 DEF MarkPublished, MarkConflicted
    <3>2. QED
      BY <2>3, <3>1, <1>l DEF MarkPublished, MarkConflicted
  <2>4. CASE Rejected(c)
    BY <2>4, <1>l DEF Rejected, FencedPcs
  <2>5. QED
    BY <1>3, <2>1, <2>2, <2>3, <2>4 DEF Conclude
<1>4. CASE Discard(c)
  <2>1. CASE BeginDiscard(c) \/ CheckDiscard(c)
    BY <2>1, <1>g, <1>p DEF BeginDiscard, CheckDiscard
  <2>2. CASE ReadDiscard(c) \/ MarkDiscarded(c)
    BY <2>2, <1>g, <1>p DEF ReadDiscard, MarkDiscarded
  <2>3. CASE RefuseDiscard(c) \/ RemoveShadow(c)
    BY <2>3, <1>l DEF RefuseDiscard, RemoveShadow
  <2>4. QED
    BY <1>4, <2>1, <2>2, <2>3 DEF Discard
<1>5. QED
  BY <1>1, <1>2, <1>3, <1>4 DEF Steps

\* The plan a publisher sees is that of the person's folder or of the copy.
SeenPcs == ScannedPcs \cup PlannedPcs
Known(c) ==
    \A p \in Paths : /\ call[c].cur[p] \in {plan.base[p], plan.goal[p]}
                     /\ orig[p] \in {call[c].cur[p], plan.goal[p]}

\* An operation that is done had its effect, but for the one under way.
Effective(c) ==
    \A o \in call[c].done :
       /\ o \in Operations(call[c].cur)
       /\ EffectIsThere(c, o) \/ (call[c].pc \in ActingPcs /\ o = journal.active)

Undisturbed(c) ==
    /\ call[c].pc \in SeenPcs => Known(c)
    /\ call[c].pc \in {"reconcile", "announce", "preflight"} =>
          \A p \in Paths : orig[p] = call[c].cur[p]
    /\ call[c].pc \in PlannedPcs => Effective(c)
    /\ call[c].pc \in ActingPcs =>
          /\ ParentsAreReal(journal.active.path)
          /\ \A r \in Remaining(c) : Before(journal.active, r)

Calm == edits = 0 /\ crashes = 0 /\ PlainDelta
AsPlanned == \A p \in Paths : orig[p] \in {plan.base[p], plan.goal[p]}
IsTree == \A p \in Paths : orig[p] # Absent => ParentsAreReal(p)
GuardIsFresh ==
    \/ journal.moved = {}
    \/ /\ journal.moved = {"parents"}
       /\ \/ \E c \in Publishers : call[c].pc \in {"staged", "effected"}
          \/ shadow.is = "removed" /\ \A c \in Publishers : call[c].pc \notin SeenPcs
NoConflict ==
    /\ journal.status # "conflicted" /\ row.status # "conflicted"
    /\ \A c \in Publishers : call[c].pc # "conflict"

CalmInv ==
    Calm => /\ AsPlanned /\ IsTree /\ GuardIsFresh /\ NoConflict
            /\ \A c \in Publishers : Undisturbed(c)

\* What a plan without a change of kind asks for at a path that is as in the
\* base or as in the copy.
LEMMA PlainPlans ==
    ASSUME plan \in Plans, PlainDelta, NEW m \in Manifest,
           \A p \in Paths : m[p] \in {plan.base[p], plan.goal[p]}
    PROVE  /\ \A p \in Paths :
                 /\ Merged(m)[p] = plan.goal[p]
                 /\ m[p] # Absent /\ plan.goal[p].kind # m[p].kind => plan.goal[p] = Absent
                 /\ plan.goal[p].kind = "file" => m[p] = Absent \/ m[p].kind = "file"
                 /\ IsDir(plan.goal[p]) => m[p] = Absent \/ IsDir(m[p])
                 /\ IsDir(plan.goal[p]) /\ m[p] = Absent => plan.goal[p] = Directory("default")
                 /\ m[p] # plan.goal[p] => InDelta(p) /\ m[p] = plan.base[p]
           /\ \A p \in Paths : plan.goal[p] # Absent => \A a \in Above[p] : IsDir(plan.goal[a])
           /\ \A p \in Paths : IsDir(plan.goal[p]) =>
                 [action |-> "mkdir", path |-> p] \in Operations(m)
<1>t. \A p \in Paths : /\ plan.base[p] \in Entry /\ plan.goal[p] \in Entry
                       /\ Merged(m)[p] = IF InDelta(p) THEN plan.goal[p] ELSE m[p]
  BY PlanTypes, ManifestTypes
<1>e. /\ Absent.kind = "none"
      /\ \A e \in Entry : e.kind \in {"none", "file", "directory"} /\ (e.kind = "none" <=> e = Absent)
  BY EntryTypes
<1>1. \A p \in Paths : Merged(m)[p] = plan.goal[p]
  BY <1>t DEF InDelta
<1>2. \A p \in Paths : m[p] # plan.goal[p] => InDelta(p) /\ m[p] = plan.base[p]
  BY DEF InDelta
<1>3. \A p \in Paths : m[p] # plan.goal[p] =>
         \/ m[p].kind = plan.goal[p].kind
         \/ plan.goal[p] = Absent
         \/ m[p] = Absent /\ (IsDir(plan.goal[p]) => plan.goal[p] = Directory("default"))
  BY <1>2 DEF PlainDelta
<1>4. \A p \in Paths :
         /\ m[p] # Absent /\ plan.goal[p].kind # m[p].kind => plan.goal[p] = Absent
         /\ plan.goal[p].kind = "file" => m[p] = Absent \/ m[p].kind = "file"
         /\ IsDir(plan.goal[p]) => m[p] = Absent \/ IsDir(m[p])
         /\ IsDir(plan.goal[p]) /\ m[p] = Absent => plan.goal[p] = Directory("default")
  <2> TAKE p \in Paths
  <2>1. CASE m[p] = plan.goal[p]
    BY <2>1, <1>e DEF IsDir
  <2>2. CASE m[p] # plan.goal[p]
    BY <2>2, <1>3, <1>e, <1>t DEF IsDir
  <2>3. QED
    BY <2>1, <2>2
<1>5. \A p \in Paths : plan.goal[p] # Absent => \A a \in Above[p] : IsDir(plan.goal[a])
  BY TreesAssumption DEF IsDir
<1>6. ASSUME NEW p \in Paths, IsDir(plan.goal[p])
      PROVE  [action |-> "mkdir", path |-> p] \in Operations(m)
  <2>1. IsDir(Merged(m)[p])
    BY <1>1, <1>6
  <2>2. [action |-> "mkdir", path |-> p] \in Op("mkdir", {q \in Paths : IsDir(Merged(m)[q])})
    BY <2>1 DEF Op
  <2>3. QED
    BY <2>2 DEF Operations
<1>7. QED
  BY <1>1, <1>2, <1>4, <1>5, <1>6

\* An operation that is needed finds what the plan was made for.
LEMMA NeededIsExpected ==
    ASSUME TypeOK, PlainDelta, NEW c \in Publishers, Known(c),
           NEW o \in Operations(call[c].cur), Needed(c, o)
    PROVE  /\ AsExpected(c, o) /\ orig[o.path] = call[c].cur[o.path]
           /\ o.action # "remove" => plan.goal[o.path] # Absent
           /\ o.action = "remove" => plan.goal[o.path] = Absent
<1> DEFINE m == call[c].cur
           p == o.path
<1>t. m \in Manifest /\ plan \in Plans /\ \A q \in Paths : m[q] \in {plan.base[q], plan.goal[q]}
  BY DEF TypeOK, Known
<1>1. /\ p \in Paths /\ o.action \in {"remove", "mkdir", "replace", "chmod"}
      /\ o.action = "remove" => m[p] # Absent /\ Merged(m)[p].kind # m[p].kind
      /\ o.action \in {"mkdir", "chmod"} => IsDir(Merged(m)[p])
      /\ o.action = "replace" => Merged(m)[p].kind = "file"
  BY <1>t, OperationsAre
<1>2. /\ Merged(m)[p] = plan.goal[p]
      /\ m[p] # Absent /\ plan.goal[p].kind # m[p].kind => plan.goal[p] = Absent
      /\ plan.goal[p].kind = "file" => m[p] = Absent \/ m[p].kind = "file"
      /\ IsDir(plan.goal[p]) => m[p] = Absent \/ IsDir(m[p])
  BY <1>1, <1>t, PlainPlans
<1>3. orig[p] \in {m[p], plan.goal[p]}
  BY <1>1 DEF Known
<1>e. Absent.kind = "none"
  BY EntryTypes
<1>4. CASE o.action = "remove"
  <2>1. plan.goal[p] = Absent
    BY <1>1, <1>2, <1>4
  <2>2. QED
    BY <2>1, <1>3, <1>4 DEF Needed, AsExpected
<1>5. CASE o.action = "mkdir"
  <2>1. plan.goal[p] # Absent /\ orig[p] = Absent
    BY <1>1, <1>2, <1>5, <1>e DEF Needed, IsDir
  <2>2. QED
    BY <2>1, <1>3, <1>5 DEF AsExpected
<1>6. CASE o.action = "replace"
  <2>1. plan.goal[p] # Absent /\ orig[p] = m[p]
    BY <1>1, <1>2, <1>3, <1>6, <1>e DEF Needed
  <2>2. m[p].kind # "file" => m[p] = Absent
    BY <1>1, <1>2, <1>6
  <2>3. QED
    BY <2>1, <2>2, <1>1, <1>2, <1>6 DEF AsExpected
<1>7. CASE o.action = "chmod"
  <2>1. plan.goal[p] # Absent /\ orig[p] = m[p]
    BY <1>1, <1>2, <1>3, <1>7, <1>e DEF Needed, IsDir
  <2>2. QED
    BY <2>1, <1>7 DEF AsExpected
<1>8. QED
  BY <1>1, <1>4, <1>5, <1>6, <1>7

\* What is to be done at a path comes after the directories above it are made.
LEMMA DirectoriesComeFirst ==
    ASSUME TypeOK, NEW c \in Publishers, NEW o \in Operation, NEW r \in Operation,
           r.action = "mkdir", o.action \in {"mkdir", "replace", "chmod"},
           r.path \in Above[o.path] \/ (r.path = o.path /\ o.action # "mkdir")
    PROVE  ~Before(o, r) /\ o # r
<1>1. o.path \in Paths
  BY DEF Operation
<1>2. CASE o.action # "mkdir"
  <2>1. Phase(r) = 2
    BY DEF Phase
  <2>2. Phase(o) = 3 \/ Phase(o) = 4
    BY <1>2 DEF Phase
  <2>3. ~(Phase(o) < Phase(r))
    BY <2>1, <2>2
  <2>4. o.action # r.action
    BY <1>2
  <2>5. QED
    BY <2>3, <2>4 DEF Before
<1>3. CASE o.action = "mkdir"
  <2>1. r.path \in Above[o.path]
    BY <1>3
  <2>2. /\ Depth(r.path) \in Nat /\ Depth(o.path) \in Nat /\ Depth(r.path) < Depth(o.path)
        /\ r.path # o.path
    BY <1>1, <2>1, DepthGrows
  <2>3. ~(Phase(o) < Phase(r))
    BY <1>3 DEF Phase
  <2>4. ~(Depth(o.path) < Depth(r.path) \/ (Depth(o.path) = Depth(r.path) /\ o.path < r.path))
    BY <2>2
  <2>5. QED
    BY <1>3, <2>2, <2>3, <2>4 DEF Before
<1>4. QED
  BY <1>2, <1>3

\* The next operation of a publisher finds the directories above its path.
LEMMA NextIsPrepared ==
    ASSUME TypeOK, PlainDelta, IsTree, NEW c \in Publishers, call[c].pc = "apply",
           Known(c), Effective(c), NEW o \in Remaining(c), IsNext(c, o)
    PROVE  ~Blocked(o) /\ (Needed(c, o) => ParentsAreReal(o.path))
<1> DEFINE m == call[c].cur
           p == o.path
<1>t. m \in Manifest /\ plan \in Plans /\ \A q \in Paths : m[q] \in {plan.base[q], plan.goal[q]}
  BY DEF TypeOK, Known
<1>o. o \in Operations(m)
  BY DEF Remaining
<1>1. /\ o \in Operation /\ p \in Paths /\ o.action \in {"remove", "mkdir", "replace", "chmod"}
      /\ o.action \in {"mkdir", "chmod"} => IsDir(Merged(m)[p])
      /\ o.action = "replace" => Merged(m)[p].kind = "file"
  BY <1>t, <1>o, OperationsAre
<1>e. Absent.kind = "none"
  BY EntryTypes
\* A directory of the copy is there or not, and never a file.
<1>2. \A q \in Paths : IsDir(plan.goal[q]) => orig[q].kind # "file"
  <2>1. \A q \in Paths : IsDir(plan.goal[q]) => m[q] = Absent \/ IsDir(m[q])
    BY <1>t, PlainPlans
  <2>2. QED
    BY <2>1, <1>e DEF Known, IsDir
\* A directory that comes before the operation was made.
<1>3. ASSUME NEW q \in Paths, IsDir(plan.goal[q]), o.action # "remove",
             q \in Above[p] \/ (q = p /\ o.action # "mkdir")
      PROVE  IsDir(orig[q])
  <2> DEFINE r == [action |-> "mkdir", path |-> q]
  <2>1. r \in Operations(m)
    BY <1>3, <1>t, PlainPlans
  <2>2. r \in Operation /\ r.action = "mkdir" /\ r.path = q
    BY DEF Operation, Action
  <2> HIDE DEF r
  <2>3. ~Before(o, r) /\ o # r
    BY <2>2, <1>1, <1>3, DirectoriesComeFirst
  <2>4. r \in call[c].done
    BY <2>1, <2>3 DEF IsNext, Remaining
  <2>5. EffectIsThere(c, r)
    BY <2>4 DEF Effective, ActingPcs
  <2>6. QED
    BY <2>2, <2>5 DEF EffectIsThere
<1>4. o.action # "remove" => plan.goal[p] # Absent
  BY <1>1, <1>t, <1>e, PlainPlans DEF IsDir
<1>5. o.action # "remove" => \A q \in Above[p] : q \in Paths /\ IsDir(plan.goal[q]) /\ IsDir(orig[q])
  <2>1. o.action # "remove" => \A q \in Above[p] : IsDir(plan.goal[q])
    BY <1>1, <1>4, <1>t, PlainPlans
  <2>2. \A q \in Above[p] : q \in Paths
    BY <1>1, AboveIsSmaller
  <2>3. QED
    BY <2>1, <2>2, <1>3
<1>6. ~Blocked(o)
  <2> SUFFICES ASSUME o.action \in {"mkdir", "chmod"}
               PROVE  /\ \A q \in Above[p] : orig[q].kind # "file"
                      /\ orig[p].kind # "file"
                      /\ o.action = "chmod" => orig[p] # Absent
    BY DEF Blocked
  <2>1. IsDir(plan.goal[p])
    BY <1>1, <1>t, PlainPlans
  <2>2. o.action = "chmod" => IsDir(orig[p])
    BY <2>1, <1>1, <1>3
  <2>3. QED
    BY <2>1, <2>2, <1>1, <1>2, <1>5, <1>e DEF IsDir
<1>7. Needed(c, o) => ParentsAreReal(p)
  <2>1. CASE o.action = "remove"
    BY <2>1, <1>1 DEF Needed, IsTree
  <2>2. CASE o.action # "remove"
    BY <2>2, <1>5 DEF ParentsAreReal
  <2>3. QED
    BY <2>1, <2>2
<1>8. QED
  BY <1>6, <1>7

\* A preflight passes, and so does the verification, when nobody interferes.
LEMMA ChecksPass ==
    ASSUME TypeOK, PlainDelta, NEW c \in Publishers, Known(c)
    PROVE  /\ (\A p \in Paths : orig[p] = call[c].cur[p]) => ~PreflightFails(call[c].cur)
           /\ Verified(c)
<1> DEFINE m == call[c].cur
<1>t. m \in Manifest /\ plan \in Plans /\ \A q \in Paths : m[q] \in {plan.base[q], plan.goal[q]}
  BY DEF TypeOK, Known
<1>1. \A p \in Paths : Merged(m)[p] = plan.goal[p]
  BY <1>t, PlainPlans
<1>2. ASSUME \A p \in Paths : orig[p] = m[p]
      PROVE  ~PreflightFails(m)
  <2>1. \A p \in Paths : ~Conflicting(plan.base, plan.goal, m, journal.active, p)
    BY <1>t DEF Conflicting
  <2>2. \A p \in Paths : ~Unmanaged(m, p)
    BY <1>2 DEF Unmanaged, Inside
  <2>3. QED
    BY <2>1, <2>2 DEF PreflightFails
<1>3. Verified(c)
  <2>1. \A p \in Paths : Scan(orig)[p] \in {m[p], Merged(m)[p]}
    <3> TAKE p \in Paths
    <3>1. CASE p \in plan.hidden
      <4>1. plan.base[p] = Absent /\ plan.goal[p] = Absent
        BY <3>1, <1>t, PlansAssumption
      <4>2. Scan(orig)[p] = Absent
        BY <3>1 DEF Scan
      <4>3. QED
        BY <4>1, <4>2, <1>1
    <3>2. CASE p \notin plan.hidden
      <4>1. Scan(orig)[p] = orig[p]
        BY <3>2 DEF Scan
      <4>2. QED
        BY <4>1, <1>1 DEF Known
    <3>3. QED
      BY <3>1, <3>2
  <2>2. \A p \in Paths : ~Conflicting(m, Merged(m), Scan(orig), NoOp, p)
    <3> TAKE p \in Paths
    <3>1. CASE m[p] = Merged(m)[p]
      BY <3>1, <2>1 DEF Conflicting
    <3>2. CASE m[p] # Merged(m)[p]
      BY <3>2, <2>1 DEF Conflicting
    <3>3. QED
      BY <3>1, <3>2
  <2>3. QED
    BY <2>2 DEF Verified
<1>4. QED
  BY <1>2, <1>3

\* A directory that is to be removed is empty by then.
LEMMA FolderIsEmpty ==
    ASSUME TypeOK, PlainDelta, NEW c \in Publishers, call[c].pc \in ActingPcs, Guarded(c),
           Known(c), Effective(c), journal.active.action = "remove",
           \A r \in Remaining(c) : Before(journal.active, r)
    PROVE  \A q \in Inside(journal.active.path) : orig[q] = Absent
<1> DEFINE m == call[c].cur
           o == journal.active
           p == journal.active.path
<1>t. m \in Manifest /\ plan \in Plans /\ \A q \in Paths : m[q] \in {plan.base[q], plan.goal[q]}
  BY DEF TypeOK, Known
<1>e. Absent.kind = "none" /\ \A e \in Entry : e.kind = "none" <=> e = Absent
  BY EntryTypes
<1>1. o \in Operations(m)
  BY DEF Guarded
<1>2. p \in Paths /\ m[p] # Absent /\ Merged(m)[p].kind # m[p].kind /\ o \in Operation
  BY <1>1, <1>t, OperationsAre
<1>3. plan.goal[p] = Absent
  BY <1>2, <1>t, PlainPlans
<1> SUFFICES ASSUME NEW q \in Paths, p \in Above[q], orig[q] # Absent
             PROVE  FALSE
  BY DEF Inside
<1>4. plan.goal[q] = Absent
  <2>1. plan.goal[q] # Absent => IsDir(plan.goal[p])
    BY <1>t, PlainPlans
  <2>2. QED
    BY <2>1, <1>3, <1>e DEF IsDir
<1>5. m[q] # Absent /\ Merged(m)[q].kind # m[q].kind
  <2>1. m[q] # Absent
    BY <1>4 DEF Known
  <2>2. m[q] \in Entry /\ Merged(m)[q] = Absent
    BY <1>t, <1>4, PlainPlans, ManifestTypes
  <2>3. QED
    BY <2>1, <2>2, <1>e
<1> DEFINE r == [action |-> "remove", path |-> q]
<1>6. r \in Operations(m)
  BY <1>5, <1>t, OperationsAre
<1>7. r.action = "remove" /\ r.path = q
  OBVIOUS
<1> HIDE DEF r
<1>8. p # q /\ Depth(p) \in Nat /\ Depth(q) \in Nat /\ Depth(p) < Depth(q)
  BY DepthGrows
<1>9. r \notin call[c].done
  <2>1. ~EffectIsThere(c, r)
    BY <1>7 DEF EffectIsThere
  <2>2. r # o
    BY <1>7, <1>8
  <2>3. QED
    BY <2>1, <2>2 DEF Effective
<1>10. Before(o, r)
  BY <1>6, <1>9 DEF Remaining
<1>11. ~(Phase(o) < Phase(r))
  BY <1>7 DEF Phase
<1>12. Depth(p) > Depth(q) \/ (Depth(p) = Depth(q) /\ p > q)
  BY <1>7, <1>10, <1>11 DEF Before
<1>13. QED
  BY <1>8, <1>12

\* Nobody but the holder of the lock is at work.
LEMMA OneWorks ==
    ASSUME LockIsHeld, NEW c \in Publishers, NEW d \in Publishers,
           call[c].pc \in LockedPcs, call[d].pc \in LockedPcs
    PROVE  c = d
  BY DEF LockIsHeld

\* Where nobody interferes and nobody is killed, no step finds a conflict.
LEMMA NothingToDispute ==
    ASSUME GuardedInv, CalmInv, Calm, NEW c \in Publishers
    PROVE  ~Disputes(c)
<1>i. /\ TypeOK /\ LockIsHeld /\ Guarded(c) /\ Undisturbed(c)
      /\ PlainDelta /\ IsTree /\ GuardIsFresh /\ NoConflict
  BY DEF GuardedInv, GuardInv, CalmInv, Calm
<1>1. ~Conflict(c)
  <2> SUFFICES ASSUME call[c].pc = "preflight" PROVE ~PreflightFails(call[c].cur)
    BY DEF Conflict
  <2>1. Known(c) /\ \A p \in Paths : orig[p] = call[c].cur[p]
    BY <1>i DEF Undisturbed, SeenPcs, ScannedPcs
  <2>2. QED
    BY <2>1, <1>i, ChecksPass
<1>2. call[c].pc = "apply" => Known(c) /\ Effective(c)
  BY <1>i DEF Undisturbed, SeenPcs, PlannedPcs
<1>3. \A o \in Remaining(c) : ~BlockOperation(c, o)
  BY <1>i, <1>2, NextIsPrepared DEF BlockOperation
<1>4. \A o \in Remaining(c) : ~RefuseOperation(c, o)
  <2> SUFFICES ASSUME NEW o \in Remaining(c), call[c].pc = "apply", IsNext(c, o), Needed(c, o)
               PROVE  ParentsAreReal(o.path) /\ AsExpected(c, o)
    BY DEF RefuseOperation
  <2>1. o \in Operations(call[c].cur)
    BY DEF Remaining
  <2>2. QED
    BY <2>1, <1>i, <1>2, NextIsPrepared, NeededIsExpected
<1>5. ~(Verify(c) /\ ~Verified(c))
  BY <1>i, <1>2, ChecksPass DEF Verify
<1>6. ~GuardFails(c)
  <2>1. ASSUME call[c].pc = "effect", journal.moved # {} PROVE FALSE
    <3>1. PICK d \in Publishers : call[d].pc \in {"staged", "effected"}
      BY <1>i, <2>1 DEF GuardIsFresh, SeenPcs, PlannedPcs
    <3>2. c = d
      BY <1>i, <2>1, <3>1, OneWorks DEF LockedPcs
    <3>3. QED
      BY <2>1, <3>1, <3>2
  <2>2. "entry" \notin journal.moved
    BY <1>i DEF GuardIsFresh
  <2>3. QED
    BY <2>1, <2>2 DEF GuardFails, GuardHolds
<1>7. ~RmdirFails(c)
  <2>1. ASSUME call[c].pc = "effect", journal.active.action = "remove"
        PROVE  \A q \in Inside(journal.active.path) : orig[q] = Absent
    <3>1. /\ call[c].pc \in ActingPcs /\ Known(c) /\ Effective(c)
          /\ \A r \in Remaining(c) : Before(journal.active, r)
      BY <2>1, <1>i DEF Undisturbed, SeenPcs, PlannedPcs, ActingPcs
    <3>2. QED
      BY <2>1, <3>1, <1>i, FolderIsEmpty
  <2>2. QED
    BY <2>1 DEF RmdirFails
<1>8. QED
  BY <1>1, <1>3, <1>4, <1>5, <1>6, <1>7 DEF Disputes, Refusal

\* What is skipped has its effect already.
LEMMA SkippedIsThere ==
    ASSUME TypeOK, PlainDelta, NEW c \in Publishers, Known(c),
           NEW o \in Operations(call[c].cur), ~Needed(c, o)
    PROVE  EffectIsThere(c, o)
<1> DEFINE m == call[c].cur
           p == o.path
<1>t. m \in Manifest /\ plan \in Plans /\ \A q \in Paths : m[q] \in {plan.base[q], plan.goal[q]}
  BY DEF TypeOK, Known
<1>1. /\ p \in Paths /\ o.action \in {"remove", "mkdir", "replace", "chmod"}
      /\ o.action \in {"mkdir", "chmod"} => IsDir(Merged(m)[p])
  BY <1>t, OperationsAre
<1>2. /\ Merged(m)[p] = plan.goal[p]
      /\ IsDir(plan.goal[p]) => m[p] = Absent \/ IsDir(m[p])
  BY <1>1, <1>t, PlainPlans
<1>3. orig[p] \in {m[p], plan.goal[p]}
  BY <1>1 DEF Known
<1>4. o.action = "mkdir" => IsDir(orig[p])
  BY <1>1, <1>2, <1>3 DEF Needed
<1>5. QED
  BY <1>1, <1>4 DEF Needed, EffectIsThere

\* Baldr writes what the plan wants.
LEMMA PutIsPlanned ==
    ASSUME TypeOK, PlainDelta, NEW c \in Publishers, Known(c),
           journal.active \in Operations(call[c].cur), Needed(c, journal.active)
    PROVE  PutEntry(c) = plan.goal[journal.active.path]
<1> DEFINE m == call[c].cur
           o == journal.active
           p == journal.active.path
<1>t. m \in Manifest /\ plan \in Plans /\ \A q \in Paths : m[q] \in {plan.base[q], plan.goal[q]}
  BY DEF TypeOK, Known
<1>1. /\ p \in Paths /\ o.action \in {"remove", "mkdir", "replace", "chmod"}
      /\ o.action \in {"mkdir", "chmod"} => IsDir(Merged(m)[p])
  BY <1>t, OperationsAre
<1>2. /\ Merged(m)[p] = plan.goal[p]
      /\ IsDir(plan.goal[p]) /\ m[p] = Absent => plan.goal[p] = Directory("default")
  BY <1>1, <1>t, PlainPlans
<1>3. /\ orig[p] = m[p]
      /\ o.action = "remove" => plan.goal[p] = Absent
  BY <1>t, NeededIsExpected
<1>4. o.action = "mkdir" => plan.goal[p] = Directory("default")
  BY <1>1, <1>2, <1>3 DEF Needed
<1>5. QED
  BY <1>1, <1>2, <1>3, <1>4 DEF PutEntry

\* An operation leaves the effects of the others at its path.
LEMMA EffectsStay ==
    ASSUME TypeOK, PlainDelta, NEW c \in Publishers, Known(c),
           journal.active \in Operations(call[c].cur), Needed(c, journal.active),
           NEW r \in Operations(call[c].cur), r.path = journal.active.path,
           r = journal.active \/ EffectIsThere(c, r),
           plan' = plan, call'[c].cur = call[c].cur,
           orig'[r.path] = plan.goal[r.path]
    PROVE  EffectIsThere(c, r)'
<1> DEFINE m == call[c].cur
           o == journal.active
           p == r.path
<1>t. m \in Manifest /\ plan \in Plans /\ \A q \in Paths : m[q] \in {plan.base[q], plan.goal[q]}
  BY DEF TypeOK, Known
<1>1. /\ p \in Paths /\ r.action \in {"remove", "mkdir", "replace", "chmod"}
      /\ r.action = "remove" => m[p] # Absent /\ Merged(m)[p].kind # m[p].kind
      /\ r.action \in {"mkdir", "chmod"} => IsDir(Merged(m)[p])
  BY <1>t, OperationsAre
<1>2. /\ Merged(m)[p] = plan.goal[p]
      /\ m[p] # Absent /\ plan.goal[p].kind # m[p].kind => plan.goal[p] = Absent
  BY <1>1, <1>t, PlainPlans
<1>3. Merged(call[c].cur)' = Merged(call[c].cur)
  BY Views
<1>4. r.action = "remove" => orig'[p] = Absent
  BY <1>1, <1>2
<1>5. r.action = "mkdir" => IsDir(orig'[p])
  BY <1>1, <1>2
<1>6. Merged(call[c].cur)'[p] = orig'[p]
  BY <1>2, <1>3
<1>7. QED
  BY <1>1, <1>4, <1>5, <1>6 DEF EffectIsThere

\* The original stays a tree.
LEMMA TreeStays ==
    ASSUME TypeOK, PlainDelta, IsTree, NEW c \in Publishers, call[c].pc \in ActingPcs, Guarded(c),
           "entry" \notin journal.moved, Undisturbed(c),
           \A q \in Paths : q # journal.active.path => orig'[q] = orig[q],
           orig'[journal.active.path] = plan.goal[journal.active.path]
    PROVE  IsTree'
<1> DEFINE m == call[c].cur
           o == journal.active
           p == journal.active.path
<1>u. /\ Known(c) /\ Effective(c) /\ ParentsAreReal(p)
      /\ \A r \in Remaining(c) : Before(o, r)
  BY DEF Undisturbed, SeenPcs, PlannedPcs, ActingPcs
<1>t. m \in Manifest /\ plan \in Plans /\ \A q \in Paths : m[q] \in {plan.base[q], plan.goal[q]}
  BY <1>u DEF TypeOK, Known
<1>1. o \in Operations(m) /\ Needed(c, o)
  BY DEF Guarded
<1>2. /\ p \in Paths /\ o.action \in {"remove", "mkdir", "replace", "chmod"}
      /\ o.action \in {"mkdir", "chmod"} => IsDir(Merged(m)[p])
      /\ o.action = "replace" => Merged(m)[p].kind = "file"
      /\ Merged(m)[p] = plan.goal[p]
      /\ plan.goal[p].kind = "file" => m[p] = Absent \/ m[p].kind = "file"
  BY <1>1, <1>t, OperationsAre, PlainPlans
<1>3. orig[p] = m[p] /\ (o.action = "remove" => plan.goal[p] = Absent)
  BY <1>1, <1>u, NeededIsExpected
<1>e. Absent.kind = "none"
  BY EntryTypes
\* What is in p is in a directory still, or nothing is in p.
<1>4. \A x \in Paths : p \in Above[x] /\ orig[x] # Absent => IsDir(orig'[p])
  <2> SUFFICES ASSUME NEW x \in Paths, p \in Above[x], orig[x] # Absent PROVE IsDir(orig'[p])
    OBVIOUS
  <2>1. IsDir(orig[p])
    BY DEF IsTree, ParentsAreReal
  <2>2. CASE o.action = "remove"
    <3>1. \A q \in Inside(p) : orig[q] = Absent
      BY <1>u, <2>2, FolderIsEmpty
    <3>2. QED
      BY <3>1 DEF Inside
  <2>3. CASE o.action = "mkdir" \/ o.action = "chmod"
    BY <2>3, <1>2
  <2>4. CASE o.action = "replace"
    BY <2>1, <2>4, <1>2, <1>3, <1>e DEF IsDir
  <2>5. QED
    BY <2>2, <2>3, <2>4, <1>2
<1>5. ASSUME NEW x \in Paths, orig'[x] # Absent, NEW a \in Above[x]
      PROVE  IsDir(orig'[a])
  <2>1. a \in Paths /\ a # x
    BY DepthGrows
  <2>2. CASE x = p
    <3>1. IsDir(orig[a])
      BY <2>2, <1>u DEF ParentsAreReal
    <3>2. QED
      BY <2>1, <2>2, <3>1
  <2>3. CASE x # p /\ a # p
    <3>1. IsDir(orig[a])
      BY <2>3, <1>5 DEF IsTree, ParentsAreReal
    <3>2. QED
      BY <2>1, <2>3, <3>1
  <2>4. CASE x # p /\ a = p
    BY <2>4, <1>4, <1>5
  <2>5. QED
    BY <2>2, <2>3, <2>4
<1>6. QED
  BY <1>5 DEF IsTree, ParentsAreReal

\* What a publisher found stays true while it and the original stay as they are.
LEMMA FoundStays ==
    ASSUME NEW e \in Publishers, plan' = plan, call'[e].cur = call[e].cur, orig' = orig
    PROVE  /\ Known(e) => Known(e)'
           /\ (\A p \in Paths : orig[p] = call[e].cur[p])
                 => (\A p \in Paths : orig'[p] = call'[e].cur[p])
           /\ \A o : EffectIsThere(e, o)' <=> EffectIsThere(e, o)
           /\ Operations(call[e].cur)' = Operations(call[e].cur)
<1>1. /\ Merged(call[e].cur)' = Merged(call[e].cur)
      /\ Operations(call[e].cur)' = Operations(call[e].cur)
  BY Views
<1>2. \A o : EffectIsThere(e, o)' <=> EffectIsThere(e, o)
  BY <1>1 DEF EffectIsThere
<1>3. QED
  BY <1>1, <1>2 DEF Known

LEMMA UndisturbedStays ==
    ASSUME NEW e \in Publishers, Undisturbed(e), plan' = plan, call'[e] = call[e], orig' = orig,
           journal'.active = journal.active
    PROVE  Undisturbed(e)'
<1>1. /\ Known(e) => Known(e)'
      /\ \A o : EffectIsThere(e, o)' <=> EffectIsThere(e, o)
      /\ Operations(call[e].cur)' = Operations(call[e].cur)
  BY FoundStays
<1>2. Remaining(e)' = Remaining(e)
  BY <1>1 DEF Remaining
<1>3. Effective(e) => Effective(e)'
  BY <1>1 DEF Effective
<1>4. call'[e].pc \in ActingPcs =>
          /\ ParentsAreReal(journal.active.path)'
          /\ \A r \in Remaining(e)' : Before(journal'.active, r)
  <2>1. ParentsAreReal(journal.active.path)' <=> ParentsAreReal(journal.active.path)
    BY DEF ParentsAreReal
  <2>2. QED
    BY <2>1, <1>2 DEF Undisturbed
<1>5. QED
  BY <1>1, <1>3, <1>4 DEF Undisturbed

\* What moved since the guard was taken, and who wrote it.
LEMMA GuardStays ==
    ASSUME GuardedInv, GuardIsFresh, NEW c \in Publishers, Acts(c), Agreed(c), ~Disputes(c),
           shadow.is = "removed" => shadow'.is = "removed"
    PROVE  GuardIsFresh'
<1>i. TypeOK /\ LockIsHeld /\ DocumentsAreSpent
  BY DEF GuardedInv, JournalInv
<1>1. \/ journal'.moved = journal.moved
      \/ journal'.moved = {}
      \/ journal'.moved = {"parents"} /\ call'[c].pc = "staged"
  <2>1. CASE Quiet(c)
    BY <2>1 DEF Quiet, JournalSame, JournalIs
  <2>2. CASE Reconcile(c) \/ Reannounce(c) \/ AnnounceOperation(c) \/ AdvanceCursor(c)
    BY <2>2, <1>i, RowSteps DEF RowStep, JournalSame, JournalIs
  <2>3. CASE OpenPlan(c) \/ Stages(c) \/ CompleteOperation(c) \/ Finishes(c)
    BY <2>3, <1>i, JournalSteps DEF JournalStep, JournalIs, Moves
  <2>4. CASE \E o \in Remaining(c) : StartOperation(c, o)
    BY <2>4, <1>i, StartStep DEF JournalIs
  <2>5. CASE Puts(c)
    BY <2>5, <1>i, PutStep DEF JournalSame, JournalIs
  <2>6. ~Refuses(c)
    BY DEF Disputes, Refuses
  <2>7. CASE Adopts(c)
    BY <2>7, <1>i DEF Adopts, Adopted, DocumentsAreSpent, Spent
  <2>8. QED
    BY <2>1, <2>2, <2>3, <2>4, <2>5, <2>6, <2>7 DEF Acts, Writes
<1>2. ASSUME journal'.moved = journal.moved, journal.moved # {},
             NEW d \in Publishers, call[d].pc \in {"staged", "effected"}
      PROVE  GuardIsFresh'
  <2>1. CASE d = c /\ call'[c].pc = "done" /\ shadow.is = "removed"
    <3>1. ASSUME NEW e \in Publishers, e # c PROVE call'[e].pc \notin SeenPcs
      <4>1. call[e].pc \notin LockedPcs
        BY <1>2, <1>i, <2>1, <3>1, OneWorks DEF LockedPcs
      <4>2. QED
        BY <4>1, <3>1, <1>i, OthersStay DEF LockedPcs, SeenPcs, ScannedPcs, PlannedPcs
    <3>2. call'[c].pc \notin SeenPcs
      BY <2>1 DEF SeenPcs, ScannedPcs, PlannedPcs
    <3>3. QED
      BY <1>2, <2>1, <3>1, <3>2 DEF GuardIsFresh
  <2>2. CASE d = c /\ call'[c].pc = "effected"
    BY <2>2, <1>2 DEF GuardIsFresh
  <2>3. CASE d # c
    BY <2>3, <1>2, <1>i, OthersStay DEF GuardIsFresh
  <2>4. QED
    BY <2>1, <2>2, <2>3, <1>2 DEF Agreed
<1>3. ASSUME journal'.moved = journal.moved, journal.moved # {},
             shadow.is = "removed", \A e \in Publishers : call[e].pc \notin SeenPcs
      PROVE  GuardIsFresh'
  <2>1. call'[c].pc \notin SeenPcs
    <3>1. Writes(c) => call'[c].pc \notin SeenPcs
      BY <1>3, <1>i, WriteMoves DEF SeenPcs
    <3>2. Quiet(c) => Retires(c) \/ Walks(c)
      BY <1>3 DEF Quiet, Scans, Skips, SeenPcs, PlannedPcs
    <3>3. Walks(c) => call'[c].pc \notin SeenPcs
      BY <1>3 DEF Walks, Moves, Leads, SeenPcs, ScannedPcs, PlannedPcs
    <3>4. Retires(c) => call'[c].pc \notin SeenPcs
      BY DEF Retires, SeenPcs, ScannedPcs, PlannedPcs
    <3>5. Adopts(c) => call'[c].pc \notin SeenPcs
      BY <1>3 DEF Adopts, Scans, Moves, SeenPcs, ScannedPcs, PlannedPcs
    <3>6. QED
      BY <3>1, <3>2, <3>3, <3>4, <3>5 DEF Acts
  <2>2. \A e \in Publishers : e # c => call'[e] = call[e]
    BY <1>i, OthersStay
  <2>3. QED
    BY <1>3, <2>1, <2>2 DEF GuardIsFresh
<1>4. QED
  BY <1>1, <1>2, <1>3 DEF GuardIsFresh

\* The publisher whose effect it is, and the original after it.
LEMMA PutsStay ==
    ASSUME ProgressedInv, CalmInv, Calm, NEW c \in Publishers, Puts(c)
    PROVE  AsPlanned' /\ IsTree' /\ Undisturbed(c)'
<1> DEFINE m == call[c].cur
           o == journal.active
           p == journal.active.path
<1>i. /\ TypeOK /\ Guarded(c) /\ Undisturbed(c) /\ PlainDelta /\ IsTree /\ AsPlanned
  BY DEF ProgressedInv, TracedInv, GuardedInv, GuardInv, CalmInv, Calm
<1>t. m \in Manifest /\ plan \in Plans
  BY <1>i DEF TypeOK
<1>1. /\ plan' = plan /\ JournalSame /\ "entry" \notin journal.moved
      /\ call[c].pc \in {"effect", "staged"} /\ call'[c].pc = "effected"
      /\ call'[c].cur = m /\ call'[c].done = call[c].done
  BY <1>i, PutStep DEF Framed, Moves
<1>2. /\ call[c].pc \in ActingPcs /\ Known(c) /\ Effective(c)
  BY <1>1, <1>i DEF Undisturbed, SeenPcs, PlannedPcs, ActingPcs
<1>3. /\ o \in Operations(m) /\ Needed(c, o)
      /\ call[c].pc = "staged" => o.action = "replace"
  BY <1>1, <1>2, <1>i DEF Guarded
<1>4. o \in Operation /\ p \in Paths
  BY <1>3, <1>t, OperationsAre
<1>5. orig'[p] = plan.goal[p] /\ \A q \in Paths : q # p => orig'[q] = orig[q]
  <2>1. orig'[p] = PutEntry(c) /\ \A q \in Paths : q # p => orig'[q] = orig[q]
    BY <1>3, <1>4, <1>i, PutStep
  <2>2. PutEntry(c) = plan.goal[p]
    BY <1>2, <1>3, <1>i, PutIsPlanned
  <2>3. QED
    BY <2>1, <2>2
<1>6. AsPlanned'
  BY <1>1, <1>5, <1>i DEF AsPlanned
<1>7. IsTree'
  BY <1>1, <1>2, <1>5, <1>i, TreeStays
<1>8. Known(c)'
  BY <1>1, <1>2, <1>5 DEF Known
<1>9. Operations(call[c].cur)' = Operations(call[c].cur)
  BY <1>1, Views
<1>10. ASSUME NEW r \in call[c].done PROVE r \in Operations(m) /\ EffectIsThere(c, r)'
  <2>1. r \in Operations(m) /\ (r = o \/ EffectIsThere(c, r))
    BY <1>2 DEF Effective
  <2>2. r.path \in Paths
    BY <2>1, <1>t, OperationsAre
  <2>3. CASE r.path = p
    <3>1. orig'[r.path] = plan.goal[r.path]
      BY <2>3, <1>5
    <3>2. QED
      BY <2>1, <2>3, <3>1, <1>1, <1>2, <1>3, <1>i, EffectsStay
  <2>4. CASE r.path # p
    <3>1. orig'[r.path] = orig[r.path] /\ EffectIsThere(c, r)
      BY <2>1, <2>2, <2>4, <1>5
    <3>2. Merged(call[c].cur)' = Merged(call[c].cur)
      BY <1>1, Views
    <3>3. QED
      BY <2>1, <3>1, <3>2 DEF EffectIsThere
  <2>5. QED
    BY <2>1, <2>3, <2>4
<1>11. Effective(c)'
  BY <1>1, <1>9, <1>10 DEF Effective
<1>12. QED
  BY <1>1, <1>6, <1>7, <1>8, <1>11 DEF Undisturbed, SeenPcs, ScannedPcs, PlannedPcs, ActingPcs

\* The publisher that steps, when the original stays as it is.
LEMMA WorkerStays ==
    ASSUME ProgressedInv, CalmInv, Calm, NEW c \in Publishers, Acts(c), ~Disputes(c), ~Puts(c)
    PROVE  orig' = orig /\ Undisturbed(c)'
<1>i. /\ TypeOK /\ Undisturbed(c) /\ PlainDelta /\ AsPlanned /\ IsTree /\ Progress(c)
  BY DEF ProgressedInv, TracedInv, GuardedInv, GuardInv, CalmInv, Calm, ProgressInv
<1>e. call[c].pc \in EarlyPcs => call[c].done = {}
  BY <1>i DEF Progress
<1> DEFINE Idle == call'[c].pc \notin SeenPcs
           Same == plan' = plan /\ orig' = orig /\ call'[c].cur = call[c].cur
                   /\ call'[c].done = call[c].done
\* Where a publisher arrives, and what it needs there.
<1>1. ASSUME orig' = orig, Idle PROVE orig' = orig /\ Undisturbed(c)'
  BY <1>1 DEF Undisturbed, SeenPcs, ScannedPcs, PlannedPcs, ActingPcs
<1>2. ASSUME Same, call[c].pc \in SeenPcs, call'[c].pc \in SeenPcs \ ActingPcs,
             call'[c].pc \in {"reconcile", "announce", "preflight"} =>
                call[c].pc \in {"reconcile", "announce", "preflight"},
             call'[c].pc \in PlannedPcs =>
                call[c].done = {} \/ call[c].pc \in PlannedPcs \ ActingPcs
      PROVE  orig' = orig /\ Undisturbed(c)'
  <2>1. /\ Known(c) => Known(c)'
        /\ (\A p \in Paths : orig[p] = call[c].cur[p])
              => (\A p \in Paths : orig'[p] = call'[c].cur[p])
        /\ \A o : EffectIsThere(c, o)' <=> EffectIsThere(c, o)
        /\ Operations(call[c].cur)' = Operations(call[c].cur)
    BY <1>2, FoundStays
  <2>2. Known(c)
    BY <1>2, <1>i DEF Undisturbed
  <2>3. call'[c].pc \in PlannedPcs => Effective(c)'
    <3>1. CASE call[c].done = {}
      BY <1>2, <3>1 DEF Effective
    <3>2. CASE call[c].pc \in PlannedPcs \ ActingPcs
      <4>1. \A o \in call[c].done : o \in Operations(call[c].cur) /\ EffectIsThere(c, o)
        BY <3>2, <1>i DEF Undisturbed, Effective
      <4>2. QED
        BY <4>1, <2>1, <1>2 DEF Effective
    <3>3. QED
      BY <1>2, <3>1, <3>2
  <2>4. QED
    BY <1>2, <1>i, <2>1, <2>2, <2>3 DEF Undisturbed
<1>3. ASSUME Same, call[c].pc \in ActingPcs, call'[c].pc \in ActingPcs,
             journal'.active = journal.active
      PROVE  orig' = orig /\ Undisturbed(c)'
  <2>1. /\ Known(c) => Known(c)'
        /\ \A o : EffectIsThere(c, o)' <=> EffectIsThere(c, o)
        /\ Operations(call[c].cur)' = Operations(call[c].cur)
    BY <1>3, FoundStays
  <2>2. /\ Known(c) /\ Effective(c) /\ ParentsAreReal(journal.active.path)
        /\ \A r \in Remaining(c) : Before(journal.active, r)
    BY <1>3, <1>i DEF Undisturbed, SeenPcs, PlannedPcs, ActingPcs
  <2>3. Effective(c)'
    BY <2>1, <2>2, <1>3 DEF Effective
  <2>4. ParentsAreReal(journal.active.path)'
    BY <2>2, <1>3 DEF ParentsAreReal
  <2>5. \A r \in Remaining(c)' : Before(journal'.active, r)
    BY <2>1, <2>2, <1>3 DEF Remaining
  <2>6. call'[c].pc \notin {"reconcile", "announce", "preflight"}
    BY <1>3 DEF ActingPcs
  <2>7. QED
    BY <1>3, <2>1, <2>2, <2>3, <2>4, <2>5, <2>6 DEF Undisturbed
<1>s. ASSUME Scans(c), plan' = plan, orig' = orig PROVE orig' = orig /\ Undisturbed(c)'
  <2>1. call'[c].pc = "reconcile" /\ call'[c].cur = Scan(orig)
    BY <1>s DEF Scans
  <2>2. \A p \in Paths : Scan(orig)[p] = orig[p]
    <3> TAKE p \in Paths
    <3>1. plan \in Plans
      BY <1>i DEF TypeOK
    <3>2. p \in plan.hidden => plan.base[p] = Absent /\ plan.goal[p] = Absent
      BY <3>1, PlansAssumption
    <3>3. p \in plan.hidden => orig[p] = Absent
      BY <3>2, <1>i DEF AsPlanned
    <3>4. QED
      BY <3>3 DEF Scan
  <2>3. Known(c)' /\ \A p \in Paths : orig'[p] = call'[c].cur[p]
    BY <1>s, <2>1, <2>2, <1>i DEF Known, AsPlanned
  <2>4. QED
    BY <1>s, <2>1, <2>3 DEF Undisturbed, PlannedPcs, ActingPcs
<1>4. CASE Quiet(c)
  <2>1. plan' = plan /\ orig' = orig
    BY <1>4 DEF Quiet, Framed, DiskSame
  <2>2. CASE Retires(c)
    BY <2>1, <2>2, <1>1 DEF Retires, SeenPcs, ScannedPcs, PlannedPcs
  <2>3. CASE Walks(c)
    <3>1. PICK to \in Pcs : Moves(c, call[c].pc, to) /\ Leads(c, to)
      BY <2>3 DEF Walks
    <3>2. Same /\ call'[c].pc = to
      BY <2>1, <3>1 DEF Moves
    <3>3. \/ to \notin SeenPcs
          \/ call[c].pc = "preflight" /\ to = "present"
          \/ call[c].pc = "resume" /\ to \in {"effected", "apply"}
      BY <3>1 DEF Leads, SeenPcs, ScannedPcs, PlannedPcs
    <3>4. CASE to \notin SeenPcs
      BY <3>2, <3>4, <1>1
    <3>5. CASE call[c].pc = "preflight" /\ to = "present"
      BY <3>2, <3>5, <1>2 DEF SeenPcs, ScannedPcs, PlannedPcs, ActingPcs
    <3>6. CASE call[c].pc = "resume" /\ to \in {"effected", "apply"}
      BY <3>2, <3>6, <1>2, <1>e DEF SeenPcs, ScannedPcs, PlannedPcs, ActingPcs, EarlyPcs
    <3>7. QED
      BY <3>3, <3>4, <3>5, <3>6
  <2>4. CASE Scans(c)
    BY <2>1, <2>4, <1>s
  <2>5. CASE Skips(c)
    <3>1. PICK o \in Remaining(c) :
             /\ ~Needed(c, o) /\ call[c].pc = "apply" /\ call'[c].pc = "apply"
             /\ call'[c].cur = call[c].cur /\ call'[c].done = call[c].done \cup {o}
      BY <2>5 DEF Skips
    <3>2. Known(c) /\ Effective(c) /\ o \in Operations(call[c].cur)
      BY <3>1, <1>i DEF Undisturbed, SeenPcs, PlannedPcs, Remaining
    <3>3. EffectIsThere(c, o)
      BY <3>1, <3>2, <1>i, SkippedIsThere
    <3>4. /\ Known(c)'
          /\ \A r : EffectIsThere(c, r)' <=> EffectIsThere(c, r)
          /\ Operations(call[c].cur)' = Operations(call[c].cur)
      BY <2>1, <3>1, <3>2, FoundStays
    <3>5. Effective(c)'
      BY <3>1, <3>2, <3>3, <3>4 DEF Effective, ActingPcs
    <3>6. QED
      BY <2>1, <3>1, <3>4, <3>5 DEF Undisturbed, ActingPcs
  <2>6. QED
    BY <1>4, <2>2, <2>3, <2>4, <2>5 DEF Quiet
<1>5. CASE Reconcile(c) \/ Reannounce(c) \/ AnnounceOperation(c) \/ AdvanceCursor(c)
  <2>1. \E from, to \in Pcs :
           /\ RowStep(c, from, to)
           /\ \/ from \in {"reconcile", "announce"} /\ to \in {"announce", "preflight"}
              \/ from = "started" /\ to = "effect"
              \/ from = "completed" /\ to = "apply"
              \/ from = "settled" /\ to = "applied"
    BY <1>5, <1>i, RowSteps DEF Pcs
  <2>2. PICK from \in Pcs, to \in Pcs :
           /\ RowStep(c, from, to)
           /\ \/ from \in {"reconcile", "announce"} /\ to \in {"announce", "preflight"}
              \/ from = "started" /\ to = "effect"
              \/ from = "completed" /\ to = "apply"
              \/ from = "settled" /\ to = "applied"
    BY <2>1
  <2>3. /\ Same /\ call[c].pc = from /\ call'[c].pc = to /\ journal'.active = journal.active
    BY <2>2 DEF RowStep, Framed, DiskSame, JournalSame, JournalIs, Moves
  <2>4. CASE from \in {"reconcile", "announce"} /\ to \in {"announce", "preflight"}
    BY <2>3, <2>4, <1>2 DEF SeenPcs, ScannedPcs, PlannedPcs, ActingPcs
  <2>5. CASE from = "started" /\ to = "effect"
    BY <2>3, <2>5, <1>3 DEF ActingPcs
  <2>6. CASE from = "completed" /\ to = "apply"
    BY <2>3, <2>6, <1>2 DEF SeenPcs, ScannedPcs, PlannedPcs, ActingPcs
  <2>7. CASE from = "settled" /\ to = "applied"
    BY <2>3, <2>7, <1>1 DEF SeenPcs, ScannedPcs, PlannedPcs
  <2>8. QED
    BY <2>2, <2>4, <2>5, <2>6, <2>7
<1>6. CASE OpenPlan(c) \/ Stages(c) \/ CompleteOperation(c) \/ Finishes(c)
  <2>1. PICK from \in Pcs, to \in Pcs :
           /\ JournalStep(c, from, to)
           /\ \/ from = "preflight" /\ to = "resume"
              \/ from = "effect" /\ to = "staged" /\ journal'.active = journal.active
              \/ from = "effected" /\ to = "completed"
              \/ from = "present" /\ to = "settled"
              \/ from \in EndPcs /\ to = "published"
    <3>1. {"preflight", "resume", "effect", "staged", "effected", "completed", "present",
           "settled", "published"} \cup EndPcs \subseteq Pcs
      BY DEF Pcs, EndPcs
    <3>2. QED
      BY <3>1, <1>6, <1>i, JournalSteps DEF JournalIs
  <2>2. Same /\ call[c].pc = from /\ call'[c].pc = to
    BY <2>1 DEF JournalStep, Framed, DiskSame, Moves
  <2>3. CASE from = "preflight" /\ to = "resume"
    BY <2>2, <2>3, <1>2, <1>e DEF SeenPcs, ScannedPcs, PlannedPcs, ActingPcs, EarlyPcs
  <2>4. CASE from = "effect" /\ to = "staged" /\ journal'.active = journal.active
    BY <2>2, <2>4, <1>3 DEF ActingPcs
  <2>5. CASE from = "effected" /\ to = "completed"
    BY <2>2, <2>5, <1>2 DEF SeenPcs, ScannedPcs, PlannedPcs, ActingPcs
  <2>6. CASE from = "present" /\ to = "settled"
    BY <2>2, <2>6, <1>2 DEF SeenPcs, ScannedPcs, PlannedPcs, ActingPcs
  <2>7. CASE from \in EndPcs /\ to = "published"
    BY <2>2, <2>7, <1>1 DEF SeenPcs, ScannedPcs, PlannedPcs
  <2>8. QED
    BY <2>1, <2>3, <2>4, <2>5, <2>6, <2>7
<1>7. ASSUME NEW o \in Remaining(c), StartOperation(c, o) PROVE orig' = orig /\ Undisturbed(c)'
  <2>1. /\ plan' = plan /\ orig' = orig
        /\ call[c].pc = "apply" /\ call'[c].pc = "started" /\ call'[c].cur = call[c].cur
        /\ call'[c].done = call[c].done \cup {o}
        /\ journal'.active = o /\ IsNext(c, o)
    BY <1>7, <1>i, StartStep DEF Framed, DiskSame, JournalIs
  <2>2. Known(c) /\ Effective(c) /\ o \in Operations(call[c].cur)
    BY <2>1, <1>i DEF Undisturbed, SeenPcs, PlannedPcs, Remaining
  <2>3. /\ Known(c)'
        /\ \A r : EffectIsThere(c, r)' <=> EffectIsThere(c, r)
        /\ Operations(call[c].cur)' = Operations(call[c].cur)
    BY <2>1, <2>2, FoundStays
  <2>4. \A r \in call[c].done : r \in Operations(call[c].cur) /\ EffectIsThere(c, r)
    BY <2>1, <2>2 DEF Effective, ActingPcs
  <2>5. Effective(c)'
    BY <2>1, <2>2, <2>3, <2>4 DEF Effective, ActingPcs
  <2>6. ParentsAreReal(journal.active.path)'
    <3>1. ParentsAreReal(o.path)
      BY <1>7 DEF StartOperation
    <3>2. QED
      BY <2>1, <3>1 DEF ParentsAreReal
  <2>7. \A r \in Remaining(c)' : Before(journal'.active, r)
    <3>1. Remaining(c)' = Remaining(c) \ {o}
      BY <2>1, <2>3 DEF Remaining
    <3>2. QED
      BY <2>1, <3>1 DEF IsNext
  <2>8. QED
    BY <2>1, <2>3, <2>5, <2>6, <2>7 DEF Undisturbed
<1>8. CASE Adopts(c)
  <2>1. plan' = plan /\ orig' = orig
    BY <1>8 DEF Adopts, Framed, DiskSame
  <2>2. CASE Scans(c)
    BY <2>1, <2>2, <1>s
  <2>3. CASE call'[c].pc \in {"conflict", "published"}
    BY <2>1, <2>3, <1>1 DEF SeenPcs, ScannedPcs, PlannedPcs
  <2>4. QED
    BY <1>8, <2>2, <2>3 DEF Adopts, Moves
<1>9. ~Refuses(c)
  BY DEF Disputes, Refuses
<1>10. QED
  BY <1>4, <1>5, <1>6, <1>7, <1>8, <1>9 DEF Acts, Writes

LEMMA CalmStep == ProgressedInv /\ CalmInv /\ [Next]_vars => CalmInv'
<1> SUFFICES ASSUME ProgressedInv, CalmInv, [Next]_vars, Calm'
             PROVE  /\ AsPlanned' /\ IsTree' /\ GuardIsFresh' /\ NoConflict'
                    /\ \A e \in Publishers : Undisturbed(e)'
  BY DEF CalmInv
<1>i. GuardedInv /\ TypeOK /\ LockIsHeld /\ shadow.doc.status # "conflicted"
  BY DEF ProgressedInv, TracedInv, GuardedInv, JournalInv, DocumentsAreSpent
<1>b. edits \in Nat /\ crashes \in Nat
  BY <1>i, BoundsAssumption DEF TypeOK
<1>1. CASE UNCHANGED vars
  <2>1. /\ plan' = plan /\ orig' = orig /\ journal' = journal /\ row' = row /\ call' = call
        /\ shadow' = shadow /\ edits' = edits /\ crashes' = crashes
    BY <1>1 DEF vars
  <2>2. Calm
    BY <2>1 DEF Calm, PlainDelta, InDelta
  <2>3. AsPlanned' /\ IsTree' /\ GuardIsFresh' /\ NoConflict'
    BY <2>1, <2>2 DEF CalmInv, AsPlanned, IsTree, ParentsAreReal, GuardIsFresh, NoConflict
  <2>4. \A e \in Publishers : Undisturbed(e)'
    BY <2>1, <2>2, UndisturbedStays DEF CalmInv
  <2>5. QED
    BY <2>3, <2>4
<1>2. CASE Edits
  <2>1. edits' = edits + 1
    BY <1>2, <1>i, EditStep DEF Edits
  <2>2. edits' = 0
    BY DEF Calm
  <2>3. QED
    BY <2>1, <2>2, <1>b
<1>3. ASSUME NEW c \in Publishers, Crash(c) PROVE FALSE
  <2>1. crashes' = crashes + 1 /\ crashes' = 0
    BY <1>3 DEF Crash, Calm
  <2>2. QED
    BY <2>1, <1>b
<1>4. ASSUME NEW c \in Publishers, Steps(c)
      PROVE  /\ AsPlanned' /\ IsTree' /\ GuardIsFresh' /\ NoConflict'
             /\ \A e \in Publishers : Undisturbed(e)'
  <2>1. /\ plan' = plan /\ edits' = edits /\ crashes' = crashes
        /\ shadow.is = "removed" => shadow'.is = "removed"
    BY <1>4, <1>i, StepsAreCalm
  <2>2. Calm
    BY <2>1 DEF Calm, PlainDelta, InDelta
  <2>3. /\ AsPlanned /\ IsTree /\ GuardIsFresh /\ NoConflict
        /\ \A e \in Publishers : Undisturbed(e)
    BY <2>2 DEF CalmInv
  <2>4. ~Disputes(c)
    BY <2>2, <1>i, NothingToDispute
  <2>5. Agreed(c)
    BY <2>4, <1>4, <1>i, OnlyDisputes
  <2>6. Acts(c)
    BY <1>4, <1>i, StepActs DEF Steps
  <2>7. GuardIsFresh'
    BY <2>1, <2>3, <2>4, <2>5, <2>6, <1>i, GuardStays
  <2>8. \A e \in Publishers : e # c => call'[e] = call[e]
    BY <2>6, <1>i, OthersStay
  <2>9. NoConflict'
    BY <2>3, <2>5, <2>8 DEF NoConflict, Agreed
  <2>10. AsPlanned' /\ IsTree' /\ Undisturbed(c)'
    <3>1. CASE Puts(c)
      BY <3>1, <2>2, PutsStay
    <3>2. CASE ~Puts(c)
      <4>1. orig' = orig /\ Undisturbed(c)'
        BY <3>2, <2>2, <2>4, <2>6, WorkerStays
      <4>2. QED
        BY <4>1, <2>1, <2>3 DEF AsPlanned, IsTree, ParentsAreReal
    <3>3. QED
      BY <3>1, <3>2
  <2>11. ASSUME NEW e \in Publishers, e # c PROVE Undisturbed(e)'
    <3>1. CASE call[e].pc \in LockedPcs
      <4>1. Quiet(c)
        BY <3>1, <2>6, <2>11, <1>i, Bystander
      <4>2. orig' = orig /\ journal'.active = journal.active
        BY <4>1 DEF Quiet, DiskSame, JournalSame, JournalIs
      <4>3. QED
        BY <4>2, <2>1, <2>3, <2>8, <2>11, UndisturbedStays
    <3>2. CASE call[e].pc \notin LockedPcs
      <4>1. call'[e].pc \notin SeenPcs
        BY <3>2, <2>8, <2>11 DEF LockedPcs, SeenPcs, ScannedPcs, PlannedPcs
      <4>2. QED
        BY <4>1 DEF Undisturbed, SeenPcs, ScannedPcs, PlannedPcs, ActingPcs
    <3>3. QED
      BY <3>1, <3>2
  <2>12. QED
    BY <2>7, <2>9, <2>10, <2>11
<1>5. Next => (\E c \in Publishers : Steps(c) \/ Crash(c)) \/ Edits
  BY DEF Next, Steps, Edits
<1>6. QED
  BY <1>1, <1>2, <1>3, <1>4, <1>5

LEMMA CalmInit == Init => CalmInv
<1> SUFFICES ASSUME Init PROVE CalmInv
  OBVIOUS
<1>1. plan \in Plans /\ orig = plan.base
  BY DEF Init
<1>2. AsPlanned
  BY <1>1 DEF AsPlanned
<1>3. IsTree
  BY <1>1, TreesAssumption DEF IsTree, ParentsAreReal, IsDir
<1>4. GuardIsFresh /\ journal.status # "conflicted" /\ row.status # "conflicted"
  BY DEF Init, NewJournal, GuardIsFresh
<1>5. \A c \in Publishers : call[c].pc = "new"
  BY DEF Init, NewCall
<1>6. NoConflict /\ \A c \in Publishers : Undisturbed(c)
  BY <1>4, <1>5 DEF NoConflict, Undisturbed, SeenPcs, ScannedPcs, PlannedPcs, ActingPcs
<1>7. QED
  BY <1>2, <1>3, <1>4, <1>6 DEF CalmInv

\* Publishers that are taken over at any moment, but not killed, and a person
\* who leaves the folder alone: there is no conflict, in the file or in the row.
THEOREM TakeoversAreSafe == Spec => []TakeoversDoNotConflict
<1>1. Init => CalmInv
  BY CalmInit
<1>2. ProgressedInv /\ CalmInv /\ [Next]_vars => CalmInv'
  BY CalmStep
<1>3. CalmInv => TakeoversDoNotConflict
  BY DEF CalmInv, Calm, NoConflict, TakeoversDoNotConflict
<1>4. QED
  BY <1>1, <1>2, <1>3, ProgressedInvariant, PTL DEF Spec
=============================================================================
