------------------------- MODULE MCPrekeyMaintenance -------------------------
EXTENDS PrekeyMaintenance, TLC

Symmetry == Permutations(Procs)
==============================================================================
