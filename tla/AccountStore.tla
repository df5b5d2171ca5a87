---------------------------- MODULE AccountStore -----------------------------
(***************************************************************************)
(* locked_account() of native/store.py together with the atomic_write_-    *)
(* secure() of config.py it persists with, and the two ways its callers    *)
(* use it: a send that takes the next message number under the lock and    *)
(* PUTs outside it, and a receive that advances the receiving chain.       *)
(*                                                                         *)
(* The account file is abstracted to what a lost update would damage: per  *)
(* session, ns (messages encrypted so far) and nr (messages decrypted).    *)
(***************************************************************************)
EXTENDS Naturals

CONSTANTS Procs,       (* processes or threads sharing one account file    *)
          Sessions,    (* keys of nativeRatchetSessions                    *)
          NoProc,      (* "the flock is free"                              *)
          NoTicket,    (* "no message number taken"                        *)
          MaxCounter   (* bound: no chain is advanced past this            *)

ASSUME NoProcAssumption == NoProc \notin Procs
ASSUME NoTicketAssumption == NoTicket \notin Sessions \X Nat
ASSUME MaxCounterAssumption == MaxCounter \in Nat

VARIABLES disk,        (* contents of the account file                     *)
          lock,        (* who holds the flock on <config>.lock             *)
          pc,          (* where each caller is                             *)
          mode,        (* what its body does: send, receive, or read only  *)
          sess,        (* the session its body advances                    *)
          cfg,         (* the dict json.load produced for it               *)
          tmp,         (* the temp file of its atomic_write_secure         *)
          ticket,      (* message number its body encrypted with           *)
          wire         (* message numbers the server was handed            *)

callVars == <<mode, sess>>
vars == <<disk, lock, pc, mode, sess, cfg, tmp, ticket, wire>>

Modes == {"send", "receive", "read"}

(* "open": lock file opened, waiting in flock().  "unlock": persisted,     *)
(* about to close the descriptor.  "abort": about to close it with nothing *)
(* persisted (body raised, write failed, or write=False).  "put": outside  *)
(* the lock, about to PUT what was encrypted.                              *)
Holding == {"locked", "body", "persist", "replace", "unlock", "abort"}
PcValues == {"idle", "open", "put"} \union Holding

Config == [Sessions -> [ns : 0..MaxCounter, nr : 0..MaxCounter]]
NewAccount == [s \in Sessions |-> [ns |-> 0, nr |-> 0]]

Ticket(c, s) == <<s, c[s].ns>>

Init ==
  /\ disk = NewAccount
  /\ lock = NoProc
  /\ pc = [p \in Procs |-> "idle"]
  /\ mode = [p \in Procs |-> "read"]
  /\ sess \in [Procs -> Sessions]
  /\ cfg = [p \in Procs |-> NewAccount]
  /\ tmp = [p \in Procs |-> NewAccount]
  /\ ticket = [p \in Procs |-> NoTicket]
  /\ wire = {}

Goto(p, from, to) ==
  /\ pc[p] = from
  /\ pc' = [pc EXCEPT ![p] = to]

(* The call is over for p, one way or another: its locals are gone.        *)
Forget(p) ==
  /\ mode' = [mode EXCEPT ![p] = "read"]
  /\ cfg' = [cfg EXCEPT ![p] = NewAccount]
  /\ tmp' = [tmp EXCEPT ![p] = NewAccount]

(* os.open of the sidecar lock file: a fresh open file description, so the *)
(* lock excludes other threads of the same process as well.                *)
Open(p) ==
  /\ Goto(p, "idle", "open")
  /\ \E m \in Modes : mode' = [mode EXCEPT ![p] = m]
  /\ \E s \in Sessions : sess' = [sess EXCEPT ![p] = s]
  /\ UNCHANGED <<disk, lock, cfg, tmp, ticket, wire>>

(* Mutant: the lock excludes only callers of other processes.              *)
FlockShared(p) ==
  /\ Goto(p, "open", "locked")
  /\ lock' = p
  /\ UNCHANGED <<disk, callVars, cfg, tmp, ticket, wire>>

Flock(p) ==
  /\ Goto(p, "open", "locked")
  /\ lock = NoProc
  /\ lock' = p
  /\ UNCHANGED <<disk, callVars, cfg, tmp, ticket, wire>>

(* Mutant: the config loaded once, before the lock.                        *)
LoadEarly(p) ==
  /\ Goto(p, "locked", "body")
  /\ UNCHANGED <<disk, lock, callVars, cfg, tmp, ticket, wire>>

(* json.load inside the lock: never a snapshot taken before it.            *)
Load(p) ==
  /\ Goto(p, "locked", "body")
  /\ cfg' = [cfg EXCEPT ![p] = disk]
  /\ UNCHANGED <<disk, lock, callVars, tmp, ticket, wire>>

BodySend(p) ==
  /\ mode[p] = "send"
  /\ Goto(p, "body", "persist")
  /\ cfg[p][sess[p]].ns < MaxCounter
  /\ ticket' = [ticket EXCEPT ![p] = Ticket(cfg[p], sess[p])]
  /\ cfg' = [cfg EXCEPT ![p][sess[p]].ns = @ + 1]
  /\ UNCHANGED <<disk, lock, callVars, tmp, wire>>

BodyReceive(p) ==
  /\ mode[p] = "receive"
  /\ Goto(p, "body", "persist")
  /\ cfg[p][sess[p]].nr < MaxCounter
  /\ cfg' = [cfg EXCEPT ![p][sess[p]].nr = @ + 1]
  /\ UNCHANGED <<disk, lock, callVars, tmp, ticket, wire>>

(* write=False: the body only reads (credentials, ids).                    *)
BodyRead(p) ==
  /\ mode[p] = "read"
  /\ Goto(p, "body", "abort")
  /\ UNCHANGED <<disk, lock, callVars, cfg, tmp, ticket, wire>>

(* The body raises (SignalAPIError from GET /v2/keys, ValueError from a    *)
(* decrypt), possibly after it already mutated the dict in memory.         *)
BodyRaises(p) ==
  /\ pc[p] \in {"body", "persist"}
  /\ Goto(p, pc[p], "abort")
  /\ ticket' = [ticket EXCEPT ![p] = NoTicket]
  /\ UNCHANGED <<disk, lock, callVars, cfg, tmp, wire>>

(* mkstemp, write, flush, fsync.                                           *)
WriteTmp(p) ==
  /\ Goto(p, "persist", "replace")
  /\ tmp' = [tmp EXCEPT ![p] = cfg[p]]
  /\ UNCHANGED <<disk, lock, callVars, cfg, ticket, wire>>

(* os.replace: the commit point.                                           *)
Replace(p) ==
  /\ Goto(p, "replace", "unlock")
  /\ disk' = tmp[p]
  /\ UNCHANGED <<lock, callVars, cfg, tmp, ticket, wire>>

(* Mutant: the error of a failed write is swallowed.                       *)
WriteFailsSilently(p) ==
  /\ pc[p] \in {"persist", "replace"}
  /\ Goto(p, pc[p], "unlock")
  /\ UNCHANGED <<disk, lock, callVars, cfg, tmp, ticket, wire>>

(* An OSError while writing or renaming: the temp file is unlinked and the *)
(* exception leaves locked_account through its finally clause.             *)
WriteFails(p) ==
  /\ pc[p] \in {"persist", "replace"}
  /\ Goto(p, pc[p], "abort")
  /\ ticket' = [ticket EXCEPT ![p] = NoTicket]
  /\ UNCHANGED <<disk, lock, callVars, cfg, tmp, wire>>

(* Mutant: every commit is taken for one with something to PUT.            *)
CloseToPut(p) ==
  /\ Goto(p, "unlock", "put")
  /\ lock' = NoProc
  /\ Forget(p)
  /\ UNCHANGED <<disk, sess, ticket, wire>>

(* Mutant: no finally clause.                                              *)
CloseLeaksLock(p) ==
  /\ Goto(p, "abort", "idle")
  /\ Forget(p)
  /\ UNCHANGED <<disk, lock, sess, ticket, wire>>

(* os.close in the finally clause releases the flock on either path.       *)
CloseCommitted(p) ==
  /\ Goto(p, "unlock", IF mode[p] = "send" THEN "put" ELSE "idle")
  /\ lock' = NoProc
  /\ Forget(p)
  /\ UNCHANGED <<disk, sess, ticket, wire>>

CloseAborted(p) ==
  /\ Goto(p, "abort", "idle")
  /\ lock' = NoProc
  /\ Forget(p)
  /\ UNCHANGED <<disk, sess, ticket, wire>>

(* The PUT reaches the server.                                             *)
Put(p) ==
  /\ Goto(p, "put", "idle")
  /\ wire' = wire \union {ticket[p]}
  /\ ticket' = [ticket EXCEPT ![p] = NoTicket]
  /\ UNCHANGED <<disk, lock, callVars, cfg, tmp>>

(* The PUT fails: the message number stays spent.                          *)
PutFails(p) ==
  /\ Goto(p, "put", "idle")
  /\ ticket' = [ticket EXCEPT ![p] = NoTicket]
  /\ UNCHANGED <<disk, lock, callVars, cfg, tmp, wire>>

(* The process dies anywhere; the kernel closes its descriptors.           *)
Crash(p) ==
  /\ pc[p] # "idle"
  /\ pc' = [pc EXCEPT ![p] = "idle"]
  /\ lock' = IF lock = p THEN NoProc ELSE lock
  /\ ticket' = [ticket EXCEPT ![p] = NoTicket]
  /\ Forget(p)
  /\ UNCHANGED <<disk, sess, wire>>

(* Everything a caller does once it has called locked_account.             *)
Step(p) ==
  \/ Flock(p) \/ Load(p)
  \/ BodySend(p) \/ BodyReceive(p) \/ BodyRead(p) \/ BodyRaises(p)
  \/ WriteTmp(p) \/ Replace(p) \/ WriteFails(p)
  \/ CloseCommitted(p) \/ CloseAborted(p)
  \/ Put(p) \/ PutFails(p)

Next == \E p \in Procs : Open(p) \/ Step(p) \/ Crash(p)

Spec == Init /\ [][Next]_vars

(* A caller that is not blocked keeps running.  Nothing is assumed of who  *)
(* wins the flock, and nobody is obliged to call.                          *)
FairSpec == Spec /\ \A p \in Procs : WF_vars(Step(p))
------------------------------------------------------------------------------
TypeOK ==
  /\ disk \in Config
  /\ lock \in Procs \union {NoProc}
  /\ pc \in [Procs -> PcValues]
  /\ mode \in [Procs -> Modes]
  /\ sess \in [Procs -> Sessions]
  /\ cfg \in [Procs -> Config]
  /\ tmp \in [Procs -> Config]
  /\ ticket \in [Procs -> (Sessions \X (0..MaxCounter)) \union {NoTicket}]
  /\ wire \in SUBSET (Sessions \X (0..MaxCounter))

(* The numbers callers hold once their state is persisted.                 *)
Issued(p) == IF pc[p] \in {"unlock", "put"} THEN ticket[p] ELSE NoTicket

(* No message number is used twice: one about to be PUT is neither on the  *)
(* wire already nor about to be PUT by somebody else.  A reused number is  *)
(* one the peer drops as a replay (store.py, module docstring).            *)
NoCounterReuse ==
  \A p \in Procs : Issued(p) # NoTicket =>
    /\ Issued(p) \notin wire
    /\ \A q \in Procs \ {p} : Issued(q) # Issued(p)

(* No commit undoes another caller's: a send never rolls a receiving chain *)
(* back to what it was when the send started, nor a receive a sending one. *)
NeverRollsBack ==
  [][\A s \in Sessions : /\ disk'[s].ns >= disk[s].ns
                         /\ disk'[s].nr >= disk[s].nr]_disk

(* With all its steps, crashes and failures the lock-load-persist protocol *)
(* behaves as if every send and receive were one atomic step.              *)
Atomic == INSTANCE AtomicAccount
            WITH account <- disk,
                 ticket <- [p \in Procs |-> Issued(p)]
AtomicSpec == Atomic!Spec

(* Every holder lets go of the lock, whatever its body does.               *)
LockReleased == \A p \in Procs : (lock = p) ~> (lock # p)
==============================================================================
