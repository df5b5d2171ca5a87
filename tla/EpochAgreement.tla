---------------------------- MODULE EpochAgreement ----------------------------
(***************************************************************************)
(* What the post-quantum ratchet promises the two ends of a session.       *)
(*                                                                         *)
(* The parties build the same sequence of epoch secrets.  They take turns: *)
(* when both hold the same secrets one of them, by turn, adds a fresh one, *)
(* and nothing more is added until the other has learnt it.                *)
(***************************************************************************)
EXTENDS Naturals, Sequences

CONSTANTS Party,        (* the two ends of the session                     *)
          Proposer(_),  (* who makes the secret of an epoch                *)
          Secret,       (* the values a secret can take                    *)
          MaxEpoch      (* bound on the number of epochs                   *)

VARIABLE secrets        (* [Party -> Seq(Secret)]                          *)

Init == secrets = [p \in Party |-> << >>]

Epoch(p) == Len(secrets[p])

Level == \A p, q \in Party : secrets[p] = secrets[q]

Fresh(x) == \A p \in Party : \A i \in 1..Epoch(p) : secrets[p][i] # x

(* The party whose turn it is adds a secret nobody has used.               *)
Propose(p) ==
  /\ Level
  /\ Epoch(p) < MaxEpoch
  /\ p = Proposer(Epoch(p) + 1)
  /\ \E x \in Secret : /\ Fresh(x)
                       /\ secrets' = [secrets EXCEPT ![p] = Append(@, x)]

(* The other party learns exactly that secret.                             *)
Learn(p) ==
  \E q \in Party : /\ Epoch(q) = Epoch(p) + 1
                   /\ secrets' = [secrets EXCEPT ![p] = secrets[q]]

Next == \E p \in Party : Propose(p) \/ Learn(p)

Spec == Init /\ [][Next]_secrets
==============================================================================
