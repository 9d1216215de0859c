-------------------------- MODULE ShadowPublication --------------------------
(***************************************************************************)
(* Publishing a protected copy back into the folder of a person who keeps  *)
(* working there (shadow_workspace.py publish and discard, the observer in *)
(* git_workspace.py, the rows of store_publications.py).                   *)
(*                                                                         *)
(* One effect is recorded in two journals: the file state.json of the      *)
(* shadow and a fenced row of the database.  Publishers are processes that *)
(* take over the lease from each other, crash, and come back; the person   *)
(* edits any path at any moment.                                           *)
(*                                                                         *)
(* A path is a number: its place in the order of path names.  An entry is  *)
(* a kind and its data: what a file holds, which mode a directory has.     *)
(***************************************************************************)
EXTENDS Integers, FiniteSets

CONSTANTS
    Publishers,     \* processes that publish or discard, one call each
    Nobody,
    Paths,
    Parent,         \* Parent[p], or 0 for the root of the workspace
    Plans,          \* the deltas explored, with the paths the scan leaves out
    MaxEdits,       \* bound on edits by the person explored
    MaxCrashes      \* bound on crashes explored

Absent  == [kind |-> "none", data |-> "none"]
Entry   == {Absent} \cup [kind : {"file", "directory"},
                          data : {"old", "new", "user", "default", "private"}]
File(d) == [kind |-> "file", data |-> d]
Directory(mode) == [kind |-> "directory", data |-> mode]
Manifest == [Paths -> Entry]

Action  == {"remove", "mkdir", "replace", "chmod"}
NoOp    == [action |-> "none", path |-> 0]
Operation == [action : Action, path : Paths]

ASSUME PathsAssumption ==
    /\ Paths \subseteq Nat \ {0} /\ Parent \in [Paths -> Paths \cup {0}]
    /\ \A p \in Paths : Parent[p] < p
\* What a scan left out is in neither manifest, and what the person writes from
\* now on ("user") is not what was there or what Baldr made.
ASSUME PlansAssumption ==
    /\ Plans \subseteq [base : Manifest, goal : Manifest, hidden : SUBSET Paths]
    /\ \A q \in Plans : \A p \in Paths :
          /\ p \in q.hidden => q.base[p] = Absent /\ q.goal[p] = Absent
          /\ File("user") \notin {q.base[p], q.goal[p]}
ASSUME BoundsAssumption ==
    Nobody \notin Publishers /\ MaxEdits \in Nat /\ MaxCrashes \in Nat

VARIABLES
    plan,       \* base and checkpoint manifest, and the excluded paths
    orig,       \* the original workspace
    author,     \* who last changed a path: a history variable
    journal,    \* the state as publishers know it: what they read from and write to
                \* control/state.json, and what moved since its guard was taken
    shadow,     \* that file, and what discards have read of it
    row,        \* the row of workspace_publications
    owner,      \* the process with the newest lease
    lock,       \* the holder of the publication lock of this folder
    call,       \* the state of each publisher
    edits, crashes

vars  == <<plan, orig, author, journal, shadow, row, owner, lock, call, edits, crashes>>
disk  == <<orig, author>>
rest  == <<plan, shadow, edits, crashes>>   \* what only writes and discards change

-----------------------------------------------------------------------------
(* Paths and manifests *)

Above[p \in Paths] ==
    IF Parent[p] = 0 THEN {} ELSE {Parent[p]} \cup Above[Parent[p]]
\* A manifest is the scan of a tree, and the scan leaves out all that is in a
\* directory it leaves out: what is there is in directories that are there.
ASSUME TreesAssumption ==
    \A q \in Plans : \A m \in {q.base, q.goal} : \A p \in Paths :
        m[p] # Absent => \A a \in Above[p] : m[a].kind = "directory"
Inside(p) == {q \in Paths : p \in Above[q]}
Depth(p)  == Cardinality(Above[p])
IsDir(e)  == e.kind = "directory"

\* scan_workspace: the policy leaves some paths out.
Scan(m) == [p \in Paths |-> IF p \in plan.hidden THEN Absent ELSE m[p]]

\* Only the delta is laid over what the person has now.
InDelta(p) == plan.base[p] # plan.goal[p]
Merged(cur) == [p \in Paths |-> IF InDelta(p) THEN plan.goal[p] ELSE cur[p]]

\* A slip: what an earlier attempt applied counts as an edit.
ConflictingWhenApplied(base, goal, cur, active, p) ==
    base[p] # goal[p] /\ cur[p] # base[p] /\ ~(active # NoOp /\ p = active.path)

\* A path in conflict, where a started operation may explain an absence.
Conflicting(base, goal, cur, active, p) ==
    IF base[p] = goal[p]
    THEN /\ \E q \in Above[p] : IsDir(base[q]) /\ ~IsDir(goal[q])
         /\ cur[p] # base[p]
    ELSE /\ cur[p] \notin {base[p], goal[p]}
         /\ ~(/\ active # NoOp /\ cur[p] = Absent
              /\ p = active.path \/ active.path \in Above[p])

\* A directory to be removed holds something the scan did not see.
Unmanaged(cur, p) ==
    /\ IsDir(cur[p]) /\ ~IsDir(Merged(cur)[p]) /\ IsDir(orig[p])
    /\ \E q \in Inside(p) : orig[q] # Absent /\ cur[q] = Absent

PreflightFails(cur) ==
    \E p \in Paths : \/ Conflicting(plan.base, plan.goal, cur, journal.active, p)
                     \/ Unmanaged(cur, p)

-----------------------------------------------------------------------------
(* The operations of a publication, and their order *)

Op(a, S) == {[action |-> a, path |-> p] : p \in S}

Operations(cur) ==
    LET want == Merged(cur)
        dirs == {p \in Paths : IsDir(want[p])}
    IN  Op("remove", {p \in Paths : cur[p] # Absent /\ want[p].kind # cur[p].kind})
        \cup Op("mkdir", dirs)
        \cup Op("replace", {p \in Paths : want[p].kind = "file"})
        \cup Op("chmod", dirs)

Phase(o) == CASE o.action = "remove" -> 1 [] o.action = "mkdir" -> 2
              [] o.action = "replace" -> 3 [] o.action = "chmod" -> 4

Before(o, r) ==
    \/ Phase(o) < Phase(r)
    \/ /\ o.action = r.action /\ o.path # r.path
       /\ CASE o.action = "remove"  -> \/ Depth(o.path) > Depth(r.path)
                                       \/ Depth(o.path) = Depth(r.path) /\ o.path > r.path
            [] o.action = "mkdir"   -> \/ Depth(o.path) < Depth(r.path)
                                       \/ Depth(o.path) = Depth(r.path) /\ o.path < r.path
            [] o.action = "replace" -> o.path < r.path
            [] o.action = "chmod"   -> \/ Depth(o.path) > Depth(r.path)
                                       \/ Depth(o.path) = Depth(r.path) /\ o.path < r.path

Remaining(c) == Operations(call[c].cur) \ call[c].done
IsNext(c, o) == o \in Remaining(c) /\ \A r \in Remaining(c) \ {o} : Before(o, r)

\* A slip: an entry of the right kind is taken for the right entry.
NeededByKind(c, o) ==
    IF o.action = "remove" THEN orig[o.path] # Absent
    ELSE orig[o.path].kind # Merged(call[c].cur)[o.path].kind

\* The look at the disk that decides whether an operation is needed at all.
Needed(c, o) ==
    CASE o.action = "remove"  -> orig[o.path] # Absent
      [] o.action = "mkdir"   -> orig[o.path] = Absent
      [] o.action = "replace" -> orig[o.path] # Merged(call[c].cur)[o.path]
      [] o.action = "chmod"   -> orig[o.path] # Merged(call[c].cur)[o.path]

\* Parents must be real directories; these phases look before they ask.
ParentsAreReal(p) == \A q \in Above[p] : IsDir(orig[q])
Blocked(o) ==
    /\ o.action \in {"mkdir", "chmod"}
    /\ \/ \E q \in Above[o.path] : orig[q].kind = "file"
       \/ orig[o.path].kind = "file"
       \/ o.action = "chmod" /\ orig[o.path] = Absent

\* verify_expected: the entry is still what the plan was made for.
AsExpected(c, o) ==
    LET found == orig[o.path]  seen == call[c].cur[o.path]
        sameKind == (seen.kind = Merged(call[c].cur)[o.path].kind)
    IN  CASE o.action = "remove"  -> found = seen
          [] o.action = "mkdir"   -> found = Absent
          [] o.action = "replace" -> found = IF sameKind THEN seen ELSE Absent
          [] o.action = "chmod"   -> sameKind => found = seen

\* Whether the effect of an operation that was announced before is there.
EffectIsThere(c, o) ==
    CASE o.action = "remove"  -> orig[o.path] = Absent
      [] o.action = "mkdir"   -> IsDir(orig[o.path])
      [] OTHER -> orig[o.path] = Merged(call[c].cur)[o.path]

-----------------------------------------------------------------------------
(* Publishers *)

Nothing == [p \in Paths |-> Absent]
NewCall == [pc |-> "new", cur |-> Nothing, done |-> {}]
NewJournal == [status |-> "checkpointed", pub |-> "none", count |-> 0,
               active |-> NoOp, moved |-> {}]

\* The file holds what the publishers wrote ("current") or what a discard wrote
\* over it (doc), or the copy is removed.  A publisher is astray that took up a
\* document older than its predecessor's: a history variable.
NewShadow == [is |-> "current", doc |-> NewJournal,
              seen |-> [c \in Publishers |-> NewJournal], astray |-> FALSE]

Init ==
    /\ plan \in Plans /\ orig = plan.base
    /\ author = [p \in Paths |-> "nobody"]
    /\ journal = NewJournal /\ shadow = NewShadow
    /\ row = [status |-> "none", next |-> 0, inflight |-> -1]
    /\ owner = Nobody /\ lock = Nobody
    /\ call = [c \in Publishers |-> NewCall]
    /\ edits = 0 /\ crashes = 0

Goto(c, pc) == call' = [call EXCEPT ![c].pc = pc]
Leave(c) ==
    /\ call' = [call EXCEPT ![c] = [NewCall EXCEPT !.pc = "done"]]
    /\ lock' = IF lock = c THEN Nobody ELSE lock
Stay == UNCHANGED <<rest, lock, owner>>

StateFile == IF shadow.is = "discarded" THEN shadow.doc ELSE journal
IsOlder(doc) == [doc EXCEPT !.status = journal.status] # journal

\* _write_state replaces the whole document: what a discard wrote is lost, and
\* what a publisher wrote too, if it did not read its document anew.
Write(doc, stale) ==
    /\ journal' = doc
    /\ shadow' = IF shadow.is = "discarded"
                 THEN [shadow EXCEPT !.is = "current", !.doc = NewJournal,
                                     !.astray = @ \/ stale]
                 ELSE shadow
    /\ UNCHANGED <<plan, edits, crashes, lock, owner>>

\* Writes to the row are fenced; a published row is left alone, lease or not.
Observes(c) == row.status = "published" \/ owner = c

\* A person asks for it, or the review approved: the lease moves here.
Begin(c) ==
    /\ call[c].pc = "new"
    /\ owner' = c /\ Goto(c, "lock")
    /\ UNCHANGED <<rest, disk, journal, row, lock>>

Lock(c) ==
    /\ call[c].pc = "lock" /\ lock = Nobody
    /\ lock' = c /\ Goto(c, "plan")
    /\ UNCHANGED <<rest, disk, journal, row, owner>>

LockTimesOut(c) ==
    /\ call[c].pc = "lock" /\ lock # Nobody
    /\ Leave(c) /\ UNCHANGED <<rest, disk, journal, row, owner>>

\* The row is bound to the checkpoint; the same plan finds it again.
CreatePublication(c) ==
    /\ call[c].pc = "plan" /\ owner = c /\ shadow.is # "removed"
    /\ row' = IF row.status = "none" THEN [row EXCEPT !.status = "planned"] ELSE row
    /\ Goto(c, "mark") /\ UNCHANGED <<disk, journal>> /\ Stay

MarkApplying(c) ==
    /\ call[c].pc = "mark" /\ Observes(c)
    /\ row' = IF row.status = "published" THEN row ELSE [row EXCEPT !.status = "applying"]
    /\ Goto(c, "scan") /\ UNCHANGED <<disk, journal>> /\ Stay

\* A status of discarded stops nobody who can read the document.
ScanOriginal(c) ==
    /\ call[c].pc = "scan" /\ shadow.is # "removed"
    /\ call' = [call EXCEPT ![c].pc = "reconcile", ![c].cur = Scan(orig)]
    /\ journal' = StateFile
    /\ shadow' = [shadow EXCEPT !.astray = @ \/ IsOlder(StateFile)]
    /\ UNCHANGED <<plan, edits, crashes, lock, owner, disk, row>>

\* Where the files of the copy are needed: removing a tree takes a while, and a
\* publisher under way may or may not find what it looks for.
ReadingPcs == {"plan", "scan", "preflight", "apply", "effect", "staged", "applied", "verified"}
ShadowIsGone(c) ==
    /\ call[c].pc \in ReadingPcs /\ shadow.is = "removed"
    /\ Leave(c) /\ UNCHANGED <<rest, disk, journal, row, owner>>

\* A slip: the cursor moves and the intent stays behind.
AdvanceKeepingIntent(next) ==
    IF row.status = "published" THEN UNCHANGED row
    ELSE row' = [row EXCEPT !.next = IF next > @ THEN next ELSE @, !.status = "applying"]

\* advance_workspace_publication: a cursor that only moves from where it is
\* expected, and with its intent; it is left alone where it is further already.
CanAdvance(expected, next) ==
    next > row.next =>
        /\ row.next = expected
        /\ row.inflight = -1 \/ (row.inflight = row.next /\ next = row.inflight + 1)
Advance(next) ==
    IF row.status = "published" THEN UNCHANGED row
    ELSE row' = [row EXCEPT !.next = IF next > @ THEN next ELSE @,
                            !.status = "applying",
                            !.inflight = IF next > @ THEN -1 ELSE @]
\* set_workspace_publication_inflight: a no-op behind the cursor.
CanAnnounce(n) == row.next > n \/ (row.next = n /\ row.inflight \in {-1, n})
Announce(n) ==
    IF row.status = "published" \/ row.next > n THEN UNCHANGED row
    ELSE row' = [row EXCEPT !.inflight = n, !.status = "applying"]

Reconcile(c) ==
    /\ call[c].pc = "reconcile" /\ Observes(c)
    /\ row.status = "published" \/ CanAdvance(row.next, journal.count)
    /\ IF journal.count > row.next THEN Advance(journal.count) ELSE UNCHANGED row
    /\ Goto(c, IF journal.active = NoOp THEN "preflight" ELSE "announce")
    /\ UNCHANGED <<disk, journal>> /\ Stay

Reannounce(c) ==
    /\ call[c].pc = "announce" /\ Observes(c)
    /\ row.status = "published" \/ CanAnnounce(journal.count)
    /\ Announce(journal.count) /\ Goto(c, "preflight")
    /\ UNCHANGED <<disk, journal>> /\ Stay

\* Checked against the manifest of the scan, before the first write.
Preflight(c) ==
    /\ call[c].pc = "preflight" /\ ~PreflightFails(call[c].cur)
    /\ IF call[c].cur = Merged(call[c].cur)
       THEN /\ Goto(c, IF journal.active = NoOp THEN "finish" ELSE "present")
            /\ UNCHANGED journal /\ Stay
       ELSE /\ Goto(c, "resume")
            /\ Write([journal EXCEPT !.status = "publishing",
                                     !.pub = "preflight-complete"], FALSE)
    /\ UNCHANGED <<disk, row>>

Conflict(c) ==
    /\ call[c].pc = "preflight" /\ PreflightFails(call[c].cur)
    /\ Write([journal EXCEPT !.status = "conflicted"], FALSE)
    /\ Goto(c, "conflict") /\ UNCHANGED <<disk, row>>

\* What an earlier publisher announced may have happened already.
ResumeActive(c) ==
    /\ call[c].pc = "resume"
    /\ Goto(c, IF journal.active # NoOp /\ EffectIsThere(c, journal.active)
               THEN "effected" ELSE "apply")
    /\ UNCHANGED <<disk, journal, row>> /\ Stay

SkipOperation(c, o) ==
    /\ call[c].pc = "apply" /\ IsNext(c, o) /\ ~Blocked(o) /\ ~Needed(c, o)
    /\ call' = [call EXCEPT ![c].done = @ \cup {o}]
    /\ UNCHANGED <<disk, journal, row>> /\ Stay

\* The guard of a new operation is taken now; a started one keeps its own.
StartOperation(c, o) ==
    /\ call[c].pc = "apply" /\ IsNext(c, o) /\ ~Blocked(o) /\ Needed(c, o)
    /\ ParentsAreReal(o.path) /\ AsExpected(c, o)
    /\ journal.active \in {NoOp, o}
    /\ Write([journal EXCEPT !.status = "publishing", !.pub = "applying", !.active = o,
                             !.moved = IF journal.active = o THEN @ ELSE {}], FALSE)
    /\ call' = [call EXCEPT ![c].pc = "started", ![c].done = @ \cup {o}]
    /\ UNCHANGED <<disk, row>>

\* _record_operation_conflict: discard stays safe while nothing has happened.
RecordConflict ==
    LET doc == StateFile IN
    Write([doc EXCEPT !.status = "conflicted",
                      !.pub = IF doc.active = NoOp /\ doc.count = 0
                              THEN "conflicted" ELSE @], IsOlder(doc))

RefuseOperation(c, o) ==
    /\ call[c].pc = "apply" /\ IsNext(c, o) /\ ~Blocked(o) /\ Needed(c, o)
    /\ ~(ParentsAreReal(o.path) /\ AsExpected(c, o))
    /\ o.action # "remove" \/ journal.active \in {NoOp, o}
    /\ RecordConflict /\ Goto(c, "conflict") /\ UNCHANGED <<disk, row>>

\* Conflicts that raise without a record: a directory changed its type.
BlockOperation(c, o) ==
    /\ call[c].pc = "apply" /\ IsNext(c, o) /\ Blocked(o)
    /\ IF orig[o.path] = Absent /\ \A q \in Above[o.path] : orig[q].kind # "file"
       THEN Leave(c) /\ UNCHANGED owner
       ELSE Goto(c, "conflict") /\ UNCHANGED <<lock, owner>>
    /\ UNCHANGED <<rest, disk, journal, row>>

\* Another operation comes first than the one that was started: no way on.
JournalMismatch(c, o) ==
    /\ call[c].pc = "apply" /\ IsNext(c, o) /\ ~Blocked(o) /\ Needed(c, o)
    /\ journal.active \notin {NoOp, o}
    /\ o.action = "remove" \/ (AsExpected(c, o) /\ ParentsAreReal(o.path))
    /\ Leave(c) /\ UNCHANGED <<rest, disk, journal, row, owner>>

\* The intent in the database, before the effect.
AnnounceOperation(c) ==
    /\ call[c].pc = "started" /\ Observes(c)
    /\ row.status = "published" \/ CanAnnounce(journal.count)
    /\ Announce(journal.count) /\ Goto(c, "effect")
    /\ UNCHANGED <<disk, journal>> /\ Stay

\* A slip: only the file of the operation is guarded once it is announced.
GuardIsTrusted == "parents" \notin journal.moved

\* _validate_operation_guard, at once with the effect that follows it.
GuardHolds == journal.moved = {}

Put(p, e) ==
    /\ orig' = [orig EXCEPT ![p] = e] /\ author' = [author EXCEPT ![p] = "baldr"]

Perform(c) ==
    LET o == journal.active IN
    /\ call[c].pc = "effect" /\ GuardHolds
    /\ \/ /\ o.action = "remove"
          /\ \A q \in Inside(o.path) : orig[q] = Absent
          /\ Put(o.path, Absent) /\ Goto(c, "effected") /\ UNCHANGED journal
       \/ /\ o.action = "mkdir"
          /\ Put(o.path, Directory("default")) /\ Goto(c, "effected") /\ UNCHANGED journal
       \/ /\ o.action = "chmod"
          /\ Put(o.path, Merged(call[c].cur)[o.path]) /\ Goto(c, "effected")
          /\ UNCHANGED journal
       \/ /\ o.action = "replace"     \* the staging file touches the parent
          /\ journal' = [journal EXCEPT !.moved = {"parents"}]
          /\ Goto(c, "staged") /\ UNCHANGED disk
    /\ UNCHANGED row /\ Stay

\* os.replace, after a check that forgives the parent's timestamps.
Swap(c) ==
    /\ call[c].pc = "staged" /\ "entry" \notin journal.moved
    /\ Put(journal.active.path, Merged(call[c].cur)[journal.active.path])
    /\ Goto(c, "effected") /\ UNCHANGED <<journal, row>> /\ Stay

GuardFails(c) ==
    /\ \/ call[c].pc = "effect" /\ ~GuardHolds
       \/ call[c].pc = "staged" /\ "entry" \in journal.moved
    /\ RecordConflict /\ Goto(c, "conflict") /\ UNCHANGED <<disk, row>>

\* rmdir refuses what somebody else put into the directory.
RmdirFails(c) ==
    /\ call[c].pc = "effect" /\ GuardHolds /\ journal.active.action = "remove"
    /\ \E q \in Inside(journal.active.path) : orig[q] # Absent
    /\ Goto(c, "conflict") /\ UNCHANGED <<disk, journal, row>> /\ Stay

CompleteOperation(c) ==
    /\ call[c].pc \in {"effected", "present"}
    /\ Write([journal EXCEPT !.count = @ + 1, !.active = NoOp, !.moved = {}], FALSE)
    /\ Goto(c, IF call[c].pc = "effected" THEN "completed" ELSE "settled")
    /\ UNCHANGED <<disk, row>>

AdvanceCursor(c) ==
    /\ call[c].pc \in {"completed", "settled"} /\ Observes(c)
    /\ row.status = "published" \/ CanAdvance(journal.count - 1, journal.count)
    /\ Advance(journal.count)
    /\ Goto(c, IF call[c].pc = "completed" THEN "apply" ELSE "applied")
    /\ UNCHANGED <<disk, journal>> /\ Stay

\* The verification: every path of the plan is as it was scanned or as wanted.
Verified(c) ==
    LET cur == call[c].cur IN
    ~\E p \in Paths : Conflicting(cur, Merged(cur), Scan(orig), NoOp, p)

Verify(c) ==
    /\ call[c].pc = "apply" /\ Remaining(c) = {}
    /\ Goto(c, IF Verified(c) THEN "verified" ELSE "conflict")
    /\ UNCHANGED <<disk, journal, row>> /\ Stay

\* Where nothing was left to do, the document of the scan is written; otherwise
\* it is read again.
EndPcs == {"finish", "applied", "verified"}
Finish(c) ==
    LET doc == IF call[c].pc = "finish" THEN journal ELSE StateFile IN
    /\ call[c].pc \in EndPcs
    /\ Write([doc EXCEPT !.status = "published", !.active = NoOp, !.moved = {},
                         !.pub = IF @ = "none" /\ call[c].pc # "verified"
                                 THEN @ ELSE "published"], IsOlder(doc))
    /\ Goto(c, "published") /\ UNCHANGED <<disk, row>>

MarkPublished(c) ==
    /\ call[c].pc = "published" /\ owner = c /\ row.inflight = -1
    /\ row' = [row EXCEPT !.status = "published"]
    /\ Leave(c) /\ UNCHANGED <<rest, disk, journal, owner>>

\* A row that was published stays so: the transition raises instead.
MarkConflicted(c) ==
    /\ call[c].pc = "conflict" /\ owner = c
    /\ row' = IF row.status = "published" THEN row ELSE [row EXCEPT !.status = "conflicted"]
    /\ Leave(c) /\ UNCHANGED <<rest, disk, journal, owner>>

\* A fence that rejects a publisher, or a row that contradicts it.
FencedPcs == {"reconcile", "announce", "started", "completed", "settled"}
Rejected(c) ==
    /\ \/ call[c].pc \in {"plan", "published", "conflict", "discard"} /\ owner # c
       \/ call[c].pc = "published" /\ row.inflight # -1
       \/ call[c].pc = "mark" /\ owner # c /\ row.status # "published"
       \/ call[c].pc \in FencedPcs /\ ~Observes(c)
    /\ Leave(c) /\ UNCHANGED <<rest, disk, journal, row, owner>>

-----------------------------------------------------------------------------
(* Discarding instead of publishing *)

\* _shadow_publication_may_have_modified_original
MayBeModified ==
    row.inflight # -1 \/ row.next > 0 \/ row.status = "applying"

BeginDiscard(c) ==
    /\ call[c].pc = "new" /\ ~MayBeModified /\ row.status # "published"
    /\ owner' = c /\ Goto(c, "discard")
    /\ UNCHANGED <<rest, disk, journal, row, lock>>

\* The lease is asserted here, and never again: no lock is taken either.
CheckDiscard(c) ==
    /\ call[c].pc = "discard" /\ owner = c
    /\ Goto(c, "discarding") /\ UNCHANGED <<disk, journal, row>> /\ Stay

\* A slip: a preflight that is repeated looks like one that was the first.
UnsafeWhileApplying(doc) == doc.pub = "applying"

DiscardIsUnsafe(doc) == doc.pub \in {"preflight-complete", "applying"}

\* The document is read and judged ...
ReadDiscard(c) ==
    /\ call[c].pc = "discarding"
    /\ shadow.is # "removed" /\ ~DiscardIsUnsafe(StateFile)
    /\ shadow' = [shadow EXCEPT !.seen[c] = StateFile]
    /\ Goto(c, "marking") /\ UNCHANGED <<plan, edits, crashes, disk, journal, row, lock, owner>>

RefuseDiscard(c) ==
    /\ call[c].pc = "discarding"
    /\ shadow.is = "removed" \/ DiscardIsUnsafe(StateFile)
    /\ Leave(c) /\ UNCHANGED <<rest, disk, journal, row, owner>>

\* ... written back as it was read, whatever has been written since ...
MarkDiscarded(c) ==
    /\ call[c].pc = "marking"
    /\ shadow' = LET read == [shadow EXCEPT !.seen[c] = NewJournal] IN
                 IF shadow.is = "removed" THEN read
                 ELSE [read EXCEPT !.is = "discarded",
                                   !.doc = [shadow.seen[c] EXCEPT !.status = "discarded"]]
    /\ Goto(c, "removing") /\ UNCHANGED <<plan, edits, crashes, disk, journal, row, lock, owner>>

\* ... and the copy is removed, whatever its file says by then.
RemoveShadow(c) ==
    /\ call[c].pc = "removing"
    /\ shadow' = [shadow EXCEPT !.is = "removed", !.doc = NewJournal]
    /\ Leave(c) /\ UNCHANGED <<plan, edits, crashes, disk, journal, row, owner>>

-----------------------------------------------------------------------------
(* The person, and crashes *)

\* Saving a file may or may not touch the directory it is in.
Touches(p, e, renamed) ==
    LET o == journal.active IN
    IF o = NoOp THEN {}
    ELSE (IF p = o.path \/ p \in Above[o.path] THEN {"entry"} ELSE {})
         \cup (IF \/ p \in Above[o.path]
                  \/ /\ renamed \/ (orig[p] = Absent) # (e = Absent)
                     /\ Parent[p] \in Above[o.path] \cup {0}   \* the root is above all
               THEN {"parents"} ELSE {})

Edit(p, e, renamed) ==
    /\ edits < MaxEdits
    /\ e = Absent \/ ParentsAreReal(p)
    /\ e # Absent \/ orig[p] # Absent
    /\ LET lost == IF IsDir(e) THEN {} ELSE Inside(p) IN
       /\ orig' = [q \in Paths |-> IF q = p THEN e
                                   ELSE IF q \in lost THEN Absent ELSE orig[q]]
       /\ author' = [q \in Paths |-> IF q \in lost \cup {p} THEN "person" ELSE author[q]]
    /\ journal' = [journal EXCEPT !.moved = @ \cup Touches(p, e, renamed)]
    /\ edits' = edits + 1
    /\ UNCHANGED <<plan, shadow, row, owner, lock, call, crashes>>

Crash(c) ==
    /\ call[c].pc \notin {"new", "done"} /\ crashes < MaxCrashes
    /\ crashes' = crashes + 1
    /\ shadow' = [shadow EXCEPT !.seen[c] = NewJournal]
    /\ Leave(c) /\ UNCHANGED <<plan, edits, disk, journal, row, owner>>

-----------------------------------------------------------------------------

Prepare(c) ==
    \/ Begin(c) \/ Lock(c) \/ LockTimesOut(c) \/ CreatePublication(c) \/ MarkApplying(c)
    \/ ScanOriginal(c) \/ ShadowIsGone(c) \/ Reconcile(c) \/ Reannounce(c)
    \/ Preflight(c) \/ Conflict(c) \/ ResumeActive(c)

Apply(c) ==
    \/ \E o \in Remaining(c) :
          \/ SkipOperation(c, o) \/ StartOperation(c, o) \/ RefuseOperation(c, o)
          \/ BlockOperation(c, o) \/ JournalMismatch(c, o)
    \/ AnnounceOperation(c) \/ Perform(c) \/ Swap(c) \/ GuardFails(c) \/ RmdirFails(c)
    \/ CompleteOperation(c) \/ AdvanceCursor(c)

Conclude(c) ==
    \/ Verify(c) \/ Finish(c) \/ MarkPublished(c) \/ MarkConflicted(c) \/ Rejected(c)

Discard(c) ==
    \/ BeginDiscard(c) \/ CheckDiscard(c) \/ ReadDiscard(c) \/ RefuseDiscard(c)
    \/ MarkDiscarded(c) \/ RemoveShadow(c)

PersonalEntries(p) == {File("user"), Directory("default"), Absent, plan.base[p], orig[p]}

Next ==
    \/ \E c \in Publishers : Prepare(c) \/ Apply(c) \/ Conclude(c) \/ Discard(c) \/ Crash(c)
    \/ \E p \in Paths : \E e \in PersonalEntries(p), renamed \in BOOLEAN :
          Edit(p, e, renamed)

Spec == Init /\ [][Next]_vars

-----------------------------------------------------------------------------
(* Properties *)

Status == {"checkpointed", "publishing", "conflicted", "published", "discarded"}
Pcs == {"new", "lock", "plan", "mark", "scan", "reconcile", "announce", "preflight",
        "present", "settled", "resume", "apply", "started", "effect", "staged", "effected",
        "completed", "finish", "applied", "verified", "published", "conflict", "discard",
        "discarding", "marking", "removing", "done"}

Document == [status : Status,
             pub : {"none", "preflight-complete", "applying", "conflicted", "published"},
             count : Nat, active : Operation \cup {NoOp},
             moved : SUBSET {"entry", "parents"}]

\* Every variable has its type.
TypeOK ==
    /\ plan \in Plans /\ orig \in Manifest
    /\ author \in [Paths -> {"nobody", "baldr", "person"}]
    /\ journal \in Document
    /\ shadow \in [is : {"current", "discarded", "removed"}, doc : Document,
                   seen : [Publishers -> Document], astray : BOOLEAN]
    /\ row \in [status : {"none", "planned", "applying", "conflicted", "published"},
                next : Nat, inflight : Nat \cup {-1}]
    /\ owner \in Publishers \cup {Nobody} /\ lock \in Publishers \cup {Nobody}
    /\ call \in [Publishers -> [pc : Pcs, cur : Manifest, done : SUBSET Operation]]
    /\ edits \in 0..MaxEdits /\ crashes \in 0..MaxCrashes

\* Publication never changes a file the person wrote, and changes nothing
\* outside the delta, but for a directory it may put back (verify_expected, the
\* guard, the merged target).
TheirsIsKept ==
    [][\A p \in Paths : orig'[p] # orig[p] /\ edits' = edits =>
          /\ orig[p] # File("user")
          /\ InDelta(p) \/ (orig[p] = Absent /\ IsDir(orig'[p]))]_vars

\* An effect on the original was announced in both journals, under one number,
\* but for a publisher astray whom the row is ahead of (_operation_start and
\* set_workspace_publication_inflight before the effect).
EffectsAreAnnounced ==
    [][\A p \in Paths : orig'[p] # orig[p] /\ edits' = edits =>
          /\ journal.active.path = p /\ journal.pub = "applying"
          /\ \/ row.status = "published"
             \/ row.inflight = journal.count /\ row.next = journal.count
             \/ shadow.astray /\ row.next > journal.count]_vars

\* The database is never ahead of the files, unless a discard wrote an older
\* document over them, and behind by one operation at most, whose intent it
\* still shows (the order of _operation_complete and its observer, and the
\* reconciliation of publication_state).
JournalsAgree ==
    row.status # "published" =>
        /\ shadow.astray \/ row.next <= journal.count
        /\ journal.count <= row.next + 1
        /\ row.inflight \in {-1, row.next}
        /\ journal.count > row.next => row.inflight = row.next

\* What the row says of the original can be trusted: once an effect is there,
\* it may have been modified (_shadow_publication_may_have_modified_original).
RowKnowsEffects ==
    (\E p \in Paths : author[p] = "baldr") => MayBeModified \/ row.status = "published"

Untouched == \A p \in Paths : author[p] # "baldr"
Decides(c)  == call[c].pc = "discarding" /\ call'[c].pc = "marking"
Destroys(c) == call[c].pc \in {"marking", "removing"} /\ shadow'.is # shadow.is

\* A discard that has its lease until the end never marks or removes a copy of
\* which a part is in the original; and one that decides on what the publishers
\* wrote last decides rightly even if the lease is gone (the look at the row and
\* the lease before, the look at the document in discard; what a discard does
\* that lost its lease after its decision is LateDiscardStrandsNothing below).
DiscardStrandsNothing ==
    [][\A c \in Publishers :
          /\ Destroys(c) /\ owner = c => Untouched
          /\ Decides(c) /\ shadow.is = "current" /\ ~shadow.astray =>
                Untouched \/ journal.pub = "published"]_vars

\* A row says published only when the delta is in the original, on every path
\* the person has not changed since.
PublishedIsApplied ==
    [][row'.status = "published" /\ row.status # "published" =>
          \A p \in Paths : InDelta(p) /\ author[p] # "person" => orig[p] = plan.goal[p]]_vars

\* Publishers that are taken over at any moment, but not killed, and a person
\* who leaves the folder alone: there is no conflict, when the delta neither
\* changes the kind of a path nor creates a directory with a mode of its own
\* (a takeover sees the mode that mkdir gave it, before the chmod).
PlainDelta ==
    \A p \in Paths :
        InDelta(p) =>
          \/ plan.base[p].kind = plan.goal[p].kind
          \/ plan.goal[p] = Absent
          \/ plan.base[p] = Absent /\ (IsDir(plan.goal[p]) => plan.goal[p] = Directory("default"))
TakeoversDoNotConflict ==
    edits = 0 /\ crashes = 0 /\ PlainDelta =>
        journal.status # "conflicted" /\ row.status # "conflicted"

\* What the two journals say can be acted upon, whoever wrote them last.
JournalsTellTheTruth ==
    TypeOK /\ JournalsAgree /\ RowKnowsEffects

\* The original changes as announced, and never where the person is at work.
OriginalIsRespected == TheirsIsKept /\ EffectsAreAnnounced

-----------------------------------------------------------------------------
(* Two documented promises that do not hold.                                 *)

\* A retry skips what was applied and goes on with the rest, so without an edit
\* nothing can be in conflict (docs/durable-orchestration.md).
CrashedPublicationsResume ==
    edits = 0 => journal.status # "conflicted"

\* "A partially applied publication must be completed or rolled back before
\* discard" (shadow_workspace.py discard): its look at the document is no longer
\* true when it marks and removes the copy.
LateDiscardStrandsNothing ==
    [][\A c \in Publishers : Destroys(c) => Untouched \/ journal.pub = "published"]_vars
=============================================================================
