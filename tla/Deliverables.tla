----------------------------- MODULE Deliverables -----------------------------
(* The public reports of a work item's phases, and the pages in which a      *)
(* console reads them. One run after another ends its step of a stage; the   *)
(* engine copies the report into a phase_deliverables row in a transaction   *)
(* of its own, and a reader first copies what the engine did not. A reader   *)
(* follows cursors over many requests; each request is several statements,   *)
(* and steps end, are retried and are collected between any two of them.     *)
EXTENDS Naturals, FiniteSets, Sequences

CONSTANTS Reports,       \* what a step can report
          Entries,       \* per report: lines it has; 0 when unavailable
          Large,         \* reports whose whole output is too large to be read again
          Void,          \* no report, an invalid one or one that is too large
          NoRow,
          Ordinals,      \* bound: runs of the work item, 1..n
          Wanted,        \* bound: ordinals a reader asks for, 0 for the newest
          Window,        \* steps that are materialized implicitly
          Recent,        \* the same when one phase is inspected
          PageSize,
          MaxRetries     \* bound: retries of a step

ASSUME DeliverablesAssumption ==
    /\ Entries \in [Reports -> Nat] /\ Large \subseteq Reports
    /\ Void \in Reports /\ Entries[Void] = 0 /\ NoRow \notin Reports
    /\ Ordinals \subseteq Nat \ {0} /\ Wanted \subseteq Ordinals \cup {0} /\ 0 \in Wanted /\ MaxRetries \in Nat
    /\ {Window, Recent, PageSize} \subseteq Nat \ {0}

VARIABLES stepOf,    \* per run: its step is absent, running, ended or collected
          output,    \* per run: the report in the step's output artifact
          shelf,     \* per run: its phase_deliverables row
          retried,
          reader     \* the console's request and what it has seen so far

deliverableVars == <<stepOf, output, shelf, retried, reader>>

Runs(status) == {r \in Ordinals : stepOf[r] = status}
Shelved == {r \in Ordinals : shelf[r] # NoRow}
Unshelved == Runs("ended") \ Shelved
Started == Cardinality(Ordinals \ Runs("absent"))   \* also work_items.current_run_id
Among(S, offset, size) ==
    {r \in S : Cardinality({q \in S : q > r}) \in offset..(offset + size - 1)}
Newest(S, offset, size) ==
    LET page == Among(S, offset, size) IN
    [i \in 1..Cardinality(page) |->
        CHOOSE r \in page : Cardinality({q \in page : q > r}) = i - 1]

NoCursor == [revision |-> <<>>, offset |-> 0]
Nobody == [kind |-> "none", want |-> 0, pc |-> "idle", cursor |-> NoCursor, todo |-> {},
           at |-> 0, total |-> 0, seen |-> <<>>, calm |-> TRUE]

DeliverablesInit == /\ stepOf = [r \in Ordinals |-> "absent"]
                    /\ output = [r \in Ordinals |-> Void]
                    /\ shelf = [r \in Ordinals |-> NoRow]
                    /\ retried = 0 /\ reader = Nobody

\* The document of a report has its lines, or none and no digest; read back
\* from the step's output it may have none although the engine's has.
Upsert(r, document) == shelf' = [shelf EXCEPT ![r] = document]
Legacy(report) == IF report \in Large THEN Void ELSE report
LinesOf(r) == Entries[shelf[r]]

-----------------------------------------------------------------------------
(* The work item's runs. A request that is under way notices nothing of      *)
(* them; calm says of a reader of the index that none of this happened       *)
(* between its statements, and between two of its requests only what leaves  *)
(* the order of steps and rows the same. What a finished session has seen is *)
(* true of the moment it ends.                                               *)

Over == reader.pc \in {"idle", "done"}
DisturbIf(lost) == reader' = IF Over THEN Nobody
                             ELSE [reader EXCEPT !.calm = @ /\ reader.pc = "open" /\ ~lost]
Disturb == DisturbIf(FALSE)

StartRun == /\ Runs("running") = {} /\ Started + 1 \in Ordinals
            /\ stepOf' = [stepOf EXCEPT ![Started + 1] = "running"]
            /\ Disturb /\ UNCHANGED <<output, shelf, retried>>

EndStep == /\ \E r \in Runs("running"), c \in Reports :
                 /\ stepOf' = [stepOf EXCEPT ![r] = "ended"]
                 /\ output' = [output EXCEPT ![r] = c]
           /\ Disturb /\ UNCHANGED <<shelf, retried>>

\* The engine's transaction after the one that ended the step.
Materialize == /\ Started \in Runs("ended") /\ shelf[Started] # output[Started]
               /\ Upsert(Started, output[Started])
               /\ Disturb /\ UNCHANGED <<stepOf, output, retried>>

\* Steps are copied by their place among the ended ones, rows are shown by their
\* place among the rows: when run r is ended no longer, older runs that nobody
\* copied move up in one order and not in the other.
MovesUp(r) == \E q \in Unshelved : q < r

\* The row of the earlier attempt stays while the step runs again.
RetryStep == /\ Started \in Runs("ended") /\ retried < MaxRetries /\ retried' = retried + 1
             /\ stepOf' = [stepOf EXCEPT ![Started] = "running"]
             /\ DisturbIf(MovesUp(Started)) /\ UNCHANGED <<output, shelf>>

\* garbage_collect takes a run and its steps; deliverables of it stay, and one
\* that nobody had copied is gone for good.
CollectRun == \E r \in Runs("ended") :
    /\ stepOf' = [stepOf EXCEPT ![r] = "collected"]
    /\ DisturbIf(shelf[r] = NoRow \/ MovesUp(r))
    /\ UNCHANGED <<output, shelf, retried>>

-----------------------------------------------------------------------------
(* Requests. The rows to copy are read in one statement, with the output     *)
(* each step had then, and copied in a transaction each.                     *)

ToCopy(S) == {[run |-> r, report |-> output[r]] : r \in S \ Shelved}
Copying(S, next) == reader' = [reader EXCEPT !.todo = ToCopy(S), !.pc = next]
Asked(S) == IF reader.want = 0 THEN S ELSE S \intersect {reader.want}

\* A session opens with the item's overview, its index or one phase's report.
Open == /\ Over
        /\ \E kind \in {"overview", "index", "inspect"}, want \in Wanted :
              /\ kind # "inspect" => want = 0
              /\ reader' = [Nobody EXCEPT !.kind = kind, !.want = want, !.pc = "ensure",
                                          !.calm = kind # "inspect"]
        /\ UNCHANGED <<stepOf, output, shelf, retried>>

Follow == /\ reader.pc = "open" /\ reader' = [reader EXCEPT !.pc = "ensure"]
          /\ UNCHANGED <<stepOf, output, shelf, retried>>

Ensure ==
    /\ reader.pc = "ensure"
    /\ CASE reader.kind = "inspect"  -> Copying(Among(Asked(Runs("ended")), 0, Recent), "inspect")
         [] reader.kind = "index"    -> Copying(Among(Runs("ended"), 0, Window), "count")
         [] reader.kind = "overview" -> Copying(Among(Runs("ended"), 0, Window), "page")
    /\ UNCHANGED <<stepOf, output, shelf, retried>>

\* _source_for_step finds nothing of a run that was collected since.
Source(r) == stepOf[r] # "collected"

CopyRow == \E row \in reader.todo :
    /\ IF Source(row.run) THEN Upsert(row.run, Legacy(row.report)) ELSE UNCHANGED shelf
    /\ reader' = [reader EXCEPT !.todo = @ \ {row}]
    /\ UNCHANGED <<stepOf, output, retried>>

\* Nothing left to copy for the statement named pc.
Ready(pc) == reader.pc = pc /\ reader.todo = {}

CountRows == /\ Ready("count")
             /\ reader' = [reader EXCEPT !.total = Cardinality(Shelved), !.pc = "missing"]
             /\ UNCHANGED <<stepOf, output, shelf, retried>>

\* What a cursor of the index is good for. RevisionOfRun: without the total (a
\* defect).
RevisionOfRun(total) == <<Started>>
Revision(total) == <<total, Started>>

CursorAt(revision, offset, total) ==
    IF offset \in 1..(total - 1) THEN [revision |-> revision, offset |-> offset] ELSE NoCursor
Answer(cursor) == [reader EXCEPT !.cursor = cursor, !.at = 0, !.total = 0,
                                 !.pc = IF cursor = NoCursor THEN "done" ELSE "open"]
Refuse == reader' = Nobody

\* The overview has shown its rows and now says where the index goes on; the
\* index accepts a cursor of this very revision.
CountMissing ==
    /\ reader.pc = "missing"
    /\ LET total == reader.total + Cardinality(Unshelved)
           cursor == reader.cursor
       IN  CASE reader.kind = "overview" ->
                  reader' = [Answer(CursorAt(Revision(total), Len(reader.seen), total))
                               EXCEPT !.kind = "index"]
             [] OTHER ->
                  IF cursor = NoCursor \/ (cursor.revision = Revision(total) /\ cursor.offset < total)
                  THEN reader' = [reader EXCEPT !.pc = "page", !.total = total, !.at = cursor.offset,
                                    !.todo = ToCopy(Among(Runs("ended"), cursor.offset, PageSize))]
                  ELSE Refuse
    /\ UNCHANGED <<stepOf, output, shelf, retried>>

\* The overview: one page of the size of the window, and counted only then.
ReadOverview ==
    /\ Ready("page") /\ reader.kind = "overview"
    /\ reader' = [reader EXCEPT !.seen = Newest(Shelved, 0, Window), !.pc = "count"]
    /\ UNCHANGED <<stepOf, output, shelf, retried>>

ReadPage ==
    /\ Ready("page") /\ reader.kind = "index"
    /\ LET page == Newest(Shelved, reader.at, PageSize) IN
          reader' = [Answer(CursorAt(Revision(reader.total), reader.at + Len(page), reader.total))
                       EXCEPT !.seen = @ \o page]
    /\ UNCHANGED <<stepOf, output, shelf, retried>>

SameDocument(cursor, r) == cursor.revision = <<shelf[r], r>>

Inspect ==
    /\ Ready("inspect")
    /\ LET found == Among(Asked(Shelved), 0, 1) IN
          IF found = {} THEN Refuse
          ELSE \E r \in found :
             LET cursor == reader.cursor
                 last == LinesOf(r)
                 next == cursor.offset + PageSize
                 page == [i \in 1..(IF next > last THEN last - cursor.offset ELSE PageSize) |->
                              <<r, shelf[r], cursor.offset + i>>]
             IN  IF cursor = NoCursor \/ (SameDocument(cursor, r) /\ cursor.offset < last)
                 THEN reader' = [Answer(CursorAt(<<shelf[r], r>>, next, last))
                                   EXCEPT !.seen = @ \o page]
                 ELSE Refuse
    /\ UNCHANGED <<stepOf, output, shelf, retried>>

DeliverablesNext ==
    \/ StartRun \/ EndStep \/ Materialize \/ RetryStep \/ CollectRun
    \/ Open \/ Follow \/ Ensure \/ CopyRow \/ CountRows \/ CountMissing
    \/ ReadOverview \/ ReadPage \/ Inspect

-----------------------------------------------------------------------------
\* Who follows the cursors of one report to the end has read every line of one
\* report of one run in order, although the row may be replaced by that of a
\* retried step, or another run may become the newest, between two pages.
PagesAreOneDocument ==
    reader.kind = "inspect" /\ reader.pc = "done" =>
        \E r \in Ordinals, c \in Reports :
            reader.seen = [i \in 1..Entries[c] |-> <<r, c, i>>]

\* Who follows the cursors of the index to the end, or has them from the
\* overview, has seen each deliverable once, the newest first, if the session
\* was calm: nothing happened inside a request, and between two of them only
\* what leaves the order of steps and rows as it was.
IndexIsComplete ==
    reader.kind = "index" /\ reader.pc = "done" /\ reader.calm =>
        \A r, q \in Among(Shelved, 0, Cardinality(Shelved)) :
            /\ Cardinality({i \in DOMAIN reader.seen : reader.seen[i] = r}) = 1
            /\ \A i, j \in DOMAIN reader.seen :
                  reader.seen[i] = r /\ reader.seen[j] = q /\ r > q => i < j

\* Whoever reads a report or the index in pages reads one document.
ReadersSeeOneDocument == PagesAreOneDocument /\ IndexIsComplete
=============================================================================
