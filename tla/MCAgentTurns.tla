---- MODULE MCAgentTurns ----
EXTENDS AgentTurns, TLC
Symmetry == Permutations(Calls)
====
