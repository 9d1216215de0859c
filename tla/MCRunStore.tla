----------------------------- MODULE MCRunStore -----------------------------
(* RunStore with one read-only step of one participant, so that a reset may  *)
(* also run again a participant that succeeded.                              *)
EXTENDS RunStore, TLC

CONSTANTS o1, o2, read, reader

MCStepOf == (reader :> read)

Symmetry == Permutations(Owners)

\* Rows of every kind vary independently, so the instance keeps a few statuses
\* of each: those the other operations tell apart.
FewStatuses ==
    /\ status \in {"pending", "running", "cancelling", "approved", "cancelled"}
    /\ \A s \in Steps : step[s] \in {"absent", "pending", "running", "unknown", "succeeded"}
    /\ \A p \in Parts : part[p] \in {"absent", "pending", "dispatching", "succeeded"}
=============================================================================
