----------------------------- MODULE MCSendPath ------------------------------
EXTENDS SendPath, TLC

Symmetry == Permutations(Senders) \union Permutations(Devices)
==============================================================================
