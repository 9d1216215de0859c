------------------------------ MODULE Artifacts ------------------------------
(* Content-addressed artifact files and the rows that refer to them: the     *)
(* store writes the file of a content inside the transaction that inserts    *)
(* its row (store_artifact), garbage_collect deletes the rows of forgotten   *)
(* runs in one transaction and the files after it. A file is named by the    *)
(* hash of its content, so rows of different runs share it.                  *)
EXTENDS Naturals

CONSTANTS Contents,      \* contents large or private enough to be a file
          Keepers,       \* runs that maintenance keeps
          Forgotten,     \* runs past retain_terminal_days
          Writers, NoContent

VARIABLES rows,      \* committed artifacts: [run, content]
          files,     \* contents with a file
          writer,    \* per store_artifact call: step and the row it inserts
          collector  \* step, paths still to remove, paths it found referenced

artifactVars == <<rows, files, writer, collector>>

Row == [run : Keepers \union Forgotten, content : Contents]
Referenced == {r.content : r \in rows}
IdleWriter == [pc |-> "idle", row |-> NoContent]

ArtifactsInit ==
    /\ rows \in SUBSET Row /\ files = Referenced
    /\ writer = [w \in Writers |-> IdleWriter]
    /\ collector = [pc |-> "idle", paths |-> {}, referenced |-> {}]

\* BEGIN IMMEDIATE: one writing transaction at a time.
NoTransaction == \A w \in Writers : writer[w].pc = "idle"

\* _prepare_artifact writes the file unless it is there already.
PrepareArtifact(w, r) ==
    /\ NoTransaction /\ r.run \in Keepers
    /\ files' = files \union {r.content}
    /\ writer' = [writer EXCEPT ![w] = [pc |-> "insert", row |-> r]]
    /\ UNCHANGED <<rows, collector>>

InsertArtifact(w) ==
    /\ writer[w].pc = "insert" /\ rows' = rows \union {writer[w].row}
    /\ writer' = [writer EXCEPT ![w] = IdleWriter]
    /\ UNCHANGED <<files, collector>>

\* The transaction is lost, the file stays.
WriterDies(w) ==
    /\ writer[w].pc = "insert" /\ writer' = [writer EXCEPT ![w] = IdleWriter]
    /\ UNCHANGED <<rows, files, collector>>

DeleteRows ==
    /\ collector.pc = "idle" /\ NoTransaction
    /\ LET gone == {r \in rows : r.run \in Forgotten} IN
          /\ gone # {} /\ rows' = rows \ gone
          /\ collector' = [pc |-> "unlink", paths |-> {r.content : r \in gone},
                           referenced |-> {}]
    /\ UNCHANGED <<files, writer>>

\* The paths of the deleted rows, whoever else refers to them.
UnlinkRemoved ==
    /\ collector.pc = "unlink" /\ collector.paths # {}
    /\ \E p \in collector.paths : /\ files' = files \ {p}
                                  /\ collector' = [collector EXCEPT !.paths = @ \ {p}]
    /\ UNCHANGED <<rows, writer>>

ReadReferenced ==
    /\ collector.pc = "unlink" /\ collector.paths = {}
    /\ collector' = [collector EXCEPT !.pc = "sweep", !.referenced = Referenced,
                                      !.paths = files]
    /\ UNCHANGED <<rows, files, writer>>

\* Every other file under the artifacts directory, committed rows or not.
SweepFile ==
    /\ collector.pc = "sweep" /\ collector.paths # {}
    /\ \E p \in collector.paths :
          /\ files' = IF p \in collector.referenced THEN files ELSE files \ {p}
          /\ collector' = [collector EXCEPT !.paths = @ \ {p}]
    /\ UNCHANGED <<rows, writer>>

EndCollection ==
    /\ collector.pc = "sweep" /\ collector.paths = {}
    /\ collector' = [pc |-> "idle", paths |-> {}, referenced |-> {}]
    /\ UNCHANGED <<rows, files, writer>>

ArtifactsNext ==
    \/ \E w \in Writers : \/ \E r \in Row : PrepareArtifact(w, r)
                          \/ InsertArtifact(w) \/ WriterDies(w)
    \/ DeleteRows \/ UnlinkRemoved \/ ReadReferenced \/ SweepFile \/ EndCollection

\* Maintenance collects artifacts nothing refers to
\* (docs/consistency-operator-control.md:185): the file of a committed row
\* stays. The code removes it when a forgotten run held the same content.
ReferencedFilesStay == Referenced \subseteq files
=============================================================================
