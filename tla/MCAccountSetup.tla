---------------------------- MODULE MCAccountSetup ----------------------------
(* Three commands at a time on two accounts.                               *)
EXTENDS AccountSetup, TLC

Symmetric == Permutations(Procs) \union Permutations(Accounts)
==============================================================================
