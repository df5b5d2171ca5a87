--------------------------- MODULE MCAccountStore ----------------------------
(* Two callers (a listen() daemon and a cron or command-line send) on an   *)
(* account with two sessions: one session shows message numbers reused,    *)
(* two show one caller's chain rolled back by another's commit.  The       *)
(* proofs take any number of callers.                                      *)
EXTENDS AccountStore
==============================================================================
