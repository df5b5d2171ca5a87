--------------------------- MODULE MCDoubleRatchet ---------------------------
EXTENDS DoubleRatchet

(* A writes more than B, enough to overflow a store of one key.            *)
MCQuota == [p \in Party |-> IF p = A THEN 4 ELSE 2]
==============================================================================
