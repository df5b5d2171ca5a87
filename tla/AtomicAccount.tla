---------------------------- MODULE AtomicAccount ----------------------------
(***************************************************************************)
(* What the account store promises its callers, without locks or files.    *)
(*                                                                         *)
(* The account is one value.  A send reserves the next message number of a *)
(* session and is then the only holder of that number until it is put on   *)
(* the wire or dropped (a crash or a failed PUT skips it).  A receive      *)
(* advances the receiving side.  Each of these is a single step.           *)
(***************************************************************************)
EXTENDS Naturals

CONSTANTS Procs,       (* callers: daemon, cron jobs, command-line sends   *)
          Sessions,    (* keys of nativeRatchetSessions                    *)
          NoTicket,    (* "holds no message number"                        *)
          MaxCounter   (* bound on the chain counters                      *)

VARIABLES account,     (* [Sessions -> [ns, nr]]: the crypto state         *)
          ticket,      (* the message number each caller owns, or NoTicket *)
          wire         (* the message numbers handed to the server         *)

vars == <<account, ticket, wire>>

Init ==
  /\ account = [s \in Sessions |-> [ns |-> 0, nr |-> 0]]
  /\ ticket = [p \in Procs |-> NoTicket]
  /\ wire = {}

Reserve(p, s) ==
  /\ ticket[p] = NoTicket
  /\ account[s].ns < MaxCounter
  /\ account' = [account EXCEPT ![s].ns = @ + 1]
  /\ ticket' = [ticket EXCEPT ![p] = <<s, account[s].ns>>]
  /\ UNCHANGED wire

Accept(s) ==
  /\ account[s].nr < MaxCounter
  /\ account' = [account EXCEPT ![s].nr = @ + 1]
  /\ UNCHANGED <<ticket, wire>>

Transmit(p) ==
  /\ ticket[p] # NoTicket
  /\ wire' = wire \union {ticket[p]}
  /\ ticket' = [ticket EXCEPT ![p] = NoTicket]
  /\ UNCHANGED account

Drop(p) ==
  /\ ticket[p] # NoTicket
  /\ ticket' = [ticket EXCEPT ![p] = NoTicket]
  /\ UNCHANGED <<account, wire>>

Next ==
  \/ \E p \in Procs, s \in Sessions : Reserve(p, s)
  \/ \E s \in Sessions : Accept(s)
  \/ \E p \in Procs : Transmit(p) \/ Drop(p)

Spec == Init /\ [][Next]_vars
==============================================================================
