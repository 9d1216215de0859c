------------------------------ MODULE MCAgents ------------------------------
EXTENDS Agents, TLC
Symmetry == Permutations(Clients) \cup Permutations(Digests)
=============================================================================
