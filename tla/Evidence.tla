------------------------------- MODULE Evidence -------------------------------
(* Evidence bundles of a run, exported by every call that ends a workflow or *)
(* asks for it (create_workflow_evidence): the state is projected, a bundle  *)
(* of that state is reused when it is complete, else a directory is made and *)
(* filled file by file with the hashes last. Two exports of one state race   *)
(* for the directory, and a process may die between two files.               *)
EXTENDS Naturals, FiniteSets

CONSTANTS Exporters,
          Files,        \* files before artifact-hashes.json, manifest first
          MaxStates,    \* bound: durable states the run goes through
          MaxDeaths,    \* bound: exporters that die
          NoBundle

ASSUME EvidenceAssumption ==
    /\ {Files, MaxStates, MaxDeaths} \subseteq Nat /\ Files > 0 /\ MaxStates > 0
    /\ NoBundle \notin Exporters

VARIABLES durable,   \* state of the run's rows, numbered
          bundles,   \* per directory: the state it is of, files, hashes
          exporter,  \* per call: step, what it read, its directory
          deaths

evidenceVars == <<durable, bundles, exporter, deaths>>

\* What one export reads, at first the run and then its steps and events.
Projection == {p \in [run : 1..MaxStates, rest : 1..MaxStates] : p.run <= p.rest}
Unread == [run |-> 0, rest |-> 0]

\* br-workflow-<run>-<fingerprint>, and the same with a suffix of its own.
Names == Projection \X (Exporters \union {NoBundle})
Missing == [made |-> FALSE, of |-> Unread, files |-> 0, hashed |-> 0]
NewExport == [pc |-> "idle", saw |-> Unread, dir |-> NoBundle]

EvidenceInit ==
    /\ durable = 1 /\ bundles = [n \in Names |-> Missing]
    /\ exporter = [e \in Exporters |-> NewExport] /\ deaths = 0

WorkGoesOn == /\ durable < MaxStates /\ durable' = durable + 1
              /\ UNCHANGED <<bundles, exporter, deaths>>

\* snapshot_run reads table after table in no transaction.
ReadRun(e) ==
    /\ exporter[e].pc = "idle"
    /\ exporter' = [exporter EXCEPT ![e].pc = "rest", ![e].saw.run = durable]
    /\ UNCHANGED <<durable, bundles, deaths>>

ReadRest(e) ==
    /\ exporter[e].pc = "rest"
    /\ exporter' = [exporter EXCEPT ![e].pc = "look", ![e].saw.rest = durable]
    /\ UNCHANGED <<durable, bundles, deaths>>

\* _bundle_is_complete: every file is there and its hash is the recorded one.
Complete(n) == bundles[n].files = Files /\ bundles[n].hashed = Files
\* UsableByManifest: a directory with a manifest taken for a bundle (a defect).
UsableByManifest(n) == bundles[n].files > 0
Usable(n) == bundles[n].files > 0 /\ Complete(n)
MayReuse(e, n) == bundles[n].of = exporter[e].saw /\ Usable(n)

FindExisting(e) ==
    /\ exporter[e].pc = "look"
    /\ \E n \in Names : MayReuse(e, n)
          /\ exporter' = [exporter EXCEPT ![e].pc = "answered", ![e].dir = n]
    /\ UNCHANGED <<durable, bundles, deaths>>

FindNothing(e) ==
    /\ exporter[e].pc = "look" /\ \A n \in Names : ~MayReuse(e, n)
    /\ exporter' = [exporter EXCEPT ![e].pc = "make"]
    /\ UNCHANGED <<durable, bundles, deaths>>

\* mkdir is exclusive: who comes second takes a directory of its own.
MakeDirectory(e) ==
    /\ exporter[e].pc = "make"
    /\ LET plain == <<exporter[e].saw, NoBundle>>
           name == IF bundles[plain].made THEN <<exporter[e].saw, e>> ELSE plain IN
          /\ bundles' = [bundles EXCEPT ![name] = [Missing EXCEPT !.made = TRUE]]
          /\ exporter' = [exporter EXCEPT ![e].pc = "write", ![e].dir = name]
    /\ UNCHANGED <<durable, deaths>>

\* The manifest names the state; the other files are of the same projection.
WriteFile(e) ==
    /\ exporter[e].pc = "write" /\ bundles[exporter[e].dir].files < Files
    /\ bundles' = [bundles EXCEPT ![exporter[e].dir].files = @ + 1,
                                  ![exporter[e].dir].of = exporter[e].saw]
    /\ UNCHANGED <<durable, exporter, deaths>>

WriteHashes(e) ==
    /\ exporter[e].pc = "write" /\ bundles[exporter[e].dir].files = Files
    /\ bundles' = [bundles EXCEPT ![exporter[e].dir].hashed = Files]
    /\ exporter' = [exporter EXCEPT ![e].pc = "answered"]
    /\ UNCHANGED <<durable, deaths>>

Again(e) ==
    /\ exporter[e].pc = "answered" /\ exporter' = [exporter EXCEPT ![e] = NewExport]
    /\ UNCHANGED <<durable, bundles, deaths>>

ExporterDies(e) ==
    /\ exporter[e].pc \in {"look", "make", "write"} /\ deaths < MaxDeaths /\ deaths' = deaths + 1
    /\ exporter' = [exporter EXCEPT ![e] = NewExport]
    /\ UNCHANGED <<durable, bundles>>

EvidenceNext ==
    \/ WorkGoesOn
    \/ \E e \in Exporters : \/ ReadRun(e) \/ ReadRest(e) \/ FindExisting(e) \/ FindNothing(e)
                            \/ MakeDirectory(e) \/ WriteFile(e) \/ WriteHashes(e)
                            \/ Again(e) \/ ExporterDies(e)

\* A call answers with a bundle that is complete and of the state it read,
\* also when it reuses one, when two exports race, and after an export that
\* died half way left a directory of the same name.
EvidenceIsWhole ==
    \A e \in Exporters : exporter[e].pc = "answered" =>
        /\ bundles[exporter[e].dir].of = exporter[e].saw
        /\ bundles[exporter[e].dir].files = Files /\ bundles[exporter[e].dir].hashed = Files
=============================================================================
