----------------------------- MODULE MCWorkItems -----------------------------
EXTENDS WorkItems, TLC
Symmetry == Permutations(Clients)
\* What follows a write on outdated knowledge is explored for fewer operations.
Bound == "overtaken" \in anomaly => ops <= 3
\* Enough for a settlement whose item is edited and started again meanwhile.
Redirected ==
    /\ anomaly = {}
    /\ \A c \in Clients : call[c].op \notin {"continue", "cancel", "archive", "restore", "delete", "reconcile"}
=============================================================================
