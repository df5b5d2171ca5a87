------------------------ MODULE AccountStore_proofs --------------------------
(***************************************************************************)
(* Proofs about AccountStore, for any number of callers and sessions and   *)
(* any bound on the counters.  The lock makes each caller's snapshot of    *)
(* the account current until it commits (IInv); counter uniqueness,        *)
(* monotonic commits and the refinement of AtomicAccount follow from that. *)
(***************************************************************************)
EXTENDS AccountStore, TLAPS

(* The lock is held exactly between flock and close.                       *)
LockInv == \A p \in Procs : pc[p] \in Holding <=> lock = p

(* What a body makes of the account it loaded.                             *)
Advanced(p) == IF mode[p] = "send"
               THEN [disk EXCEPT ![sess[p]].ns = @ + 1]
               ELSE [disk EXCEPT ![sess[p]].nr = @ + 1]

(* The snapshot a caller works on is the disk's present contents, and what *)
(* it is about to write is one step ahead of them.                         *)
SnapshotInv ==
  \A p \in Procs :
    /\ pc[p] = "body" => cfg[p] = disk
    /\ pc[p] \in {"persist", "replace"} => cfg[p] = Advanced(p)
    /\ pc[p] = "replace" => tmp[p] = cfg[p]
    /\ pc[p] \in {"persist", "replace", "unlock"} => mode[p] # "read"

(* Only a send owns a number, from its encryption until its PUT; until it  *)
(* has persisted, the number is the next one of the account on disk.       *)
TicketInv ==
  \A p \in Procs :
    /\ pc[p] \in {"idle", "open", "locked", "body", "abort"} => ticket[p] = NoTicket
    /\ pc[p] \in {"persist", "replace"} =>
         ticket[p] = IF mode[p] = "send" THEN Ticket(disk, sess[p]) ELSE NoTicket
    /\ pc[p] = "unlock" => (mode[p] = "send" <=> ticket[p] # NoTicket)
    /\ pc[p] = "put" => ticket[p] # NoTicket

(* Every number that left the lock is below the chain's counter on disk.   *)
SpentInv ==
  /\ \A p \in Procs : Issued(p) # NoTicket => Issued(p)[2] < disk[Issued(p)[1]].ns
  /\ \A t \in wire : t[2] < disk[t[1]].ns

IInv == LockInv /\ SnapshotInv /\ TicketInv /\ SpentInv /\ NoCounterReuse
------------------------------------------------------------------------------
USE NoProcAssumption, NoTicketAssumption, MaxCounterAssumption

(* A new account, all its chains at 0, is an account.                      *)
LEMMA NewAccountIsConfig == NewAccount \in Config
  BY DEF NewAccount, Config

(* The program starts with every variable in its type.                     *)
LEMMA TypeInit == Init => TypeOK
  BY NewAccountIsConfig DEF Init, TypeOK, PcValues, Modes

(* One more message on a chain below the bound is again an account.        *)
LEMMA AdvanceIsConfig ==
  ASSUME NEW c \in Config, NEW s \in Sessions
  PROVE  /\ c[s].ns < MaxCounter => [c EXCEPT ![s].ns = @ + 1] \in Config
         /\ c[s].nr < MaxCounter => [c EXCEPT ![s].nr = @ + 1] \in Config
         /\ Ticket(c, s) \in Sessions \X (0..MaxCounter)
  BY DEF Config, Ticket

(* A caller about to PUT has a number to PUT: the types need TicketInv.    *)
LEMMA TypeStep == TypeOK /\ TicketInv /\ [Next]_vars => TypeOK'
<1> SUFFICES ASSUME TypeOK, TicketInv, [Next]_vars PROVE TypeOK'
  OBVIOUS
<1> USE DEF TypeOK
<1>1. CASE UNCHANGED vars
  BY <1>1 DEF vars, callVars
<1>2. ASSUME NEW p \in Procs, Open(p) PROVE TypeOK'
  BY <1>2 DEF Open, Goto, PcValues, Modes
<1>3. ASSUME NEW p \in Procs, Flock(p) PROVE TypeOK'
  BY <1>3 DEF Flock, Goto, PcValues, Holding, callVars
<1>4. ASSUME NEW p \in Procs, Load(p) PROVE TypeOK'
  BY <1>4 DEF Load, Goto, PcValues, Holding, callVars
<1>5. ASSUME NEW p \in Procs, BodySend(p) PROVE TypeOK'
  <2>1. /\ cfg[p] \in Config
        /\ sess[p] \in Sessions
    OBVIOUS
  <2>2. [cfg[p] EXCEPT ![sess[p]].ns = @ + 1] \in Config
    BY <1>5, <2>1, AdvanceIsConfig DEF BodySend
  <2>3. cfg' \in [Procs -> Config]
    BY <1>5, <2>2 DEF BodySend
  <2>4. ticket' \in [Procs -> (Sessions \X (0..MaxCounter)) \union {NoTicket}]
    BY <1>5, <2>1, AdvanceIsConfig DEF BodySend
  <2> QED
    BY <1>5, <2>3, <2>4 DEF BodySend, Goto, PcValues, Holding, callVars
<1>6. ASSUME NEW p \in Procs, BodyReceive(p) PROVE TypeOK'
  <2>1. /\ cfg[p] \in Config
        /\ sess[p] \in Sessions
    OBVIOUS
  <2>2. [cfg[p] EXCEPT ![sess[p]].nr = @ + 1] \in Config
    BY <1>6, <2>1, AdvanceIsConfig DEF BodyReceive
  <2>3. cfg' \in [Procs -> Config]
    BY <1>6, <2>2 DEF BodyReceive
  <2> QED
    BY <1>6, <2>3 DEF BodyReceive, Goto, PcValues, Holding, callVars
<1>7. ASSUME NEW p \in Procs, BodyRead(p) PROVE TypeOK'
  BY <1>7 DEF BodyRead, Goto, PcValues, Holding, callVars
<1>8. ASSUME NEW p \in Procs, BodyRaises(p) PROVE TypeOK'
  BY <1>8 DEF BodyRaises, Goto, PcValues, Holding, callVars
<1>9. ASSUME NEW p \in Procs, WriteTmp(p) PROVE TypeOK'
  BY <1>9 DEF WriteTmp, Goto, PcValues, Holding, callVars
<1>10. ASSUME NEW p \in Procs, Replace(p) PROVE TypeOK'
  BY <1>10 DEF Replace, Goto, PcValues, Holding, callVars
<1>11. ASSUME NEW p \in Procs, WriteFails(p) PROVE TypeOK'
  BY <1>11 DEF WriteFails, Goto, PcValues, Holding, callVars
<1>12. ASSUME NEW p \in Procs, CloseCommitted(p) PROVE TypeOK'
  BY <1>12, NewAccountIsConfig DEF CloseCommitted, Forget, Goto, PcValues, Modes
<1>13. ASSUME NEW p \in Procs, CloseAborted(p) PROVE TypeOK'
  BY <1>13, NewAccountIsConfig DEF CloseAborted, Forget, Goto, PcValues, Modes
<1>14. ASSUME NEW p \in Procs, Put(p) PROVE TypeOK'
  <2>1. ticket[p] \in Sessions \X (0..MaxCounter)
    BY <1>14 DEF Put, Goto, TicketInv
  <2> QED
    BY <1>14, <2>1 DEF Put, Goto, PcValues, callVars
<1>15. ASSUME NEW p \in Procs, PutFails(p) PROVE TypeOK'
  BY <1>15 DEF PutFails, Goto, PcValues, callVars
<1>16. ASSUME NEW p \in Procs, Crash(p) PROVE TypeOK'
  BY <1>16, NewAccountIsConfig DEF Crash, Forget, PcValues, Modes
<1> QED
  BY <1>1, <1>2, <1>3, <1>4, <1>5, <1>6, <1>7, <1>8, <1>9, <1>10, <1>11,
     <1>12, <1>13, <1>14, <1>15, <1>16 DEF Next, Step
------------------------------------------------------------------------------
(* The lock.                                                               *)

(* Callers past flock hold the lock and no other caller does: no step of   *)
(* locked_account breaks that.                                             *)
LEMMA LockStep == TypeOK /\ LockInv /\ [Next]_vars => LockInv'
<1> SUFFICES ASSUME TypeOK, LockInv, [Next]_vars PROVE LockInv'
  OBVIOUS
<1> USE DEF LockInv, Holding
<1>1. CASE UNCHANGED vars
  BY <1>1 DEF vars
<1>2. ASSUME NEW p \in Procs, Open(p) \/ Put(p) \/ PutFails(p) PROVE LockInv'
  BY <1>2 DEF TypeOK, Open, Put, PutFails, Goto
<1>3. ASSUME NEW p \in Procs, Flock(p) PROVE LockInv'
  BY <1>3 DEF TypeOK, Flock, Goto
<1>4. ASSUME NEW p \in Procs,
             \/ Load(p) \/ BodySend(p) \/ BodyReceive(p) \/ BodyRead(p)
             \/ BodyRaises(p) \/ WriteTmp(p) \/ Replace(p) \/ WriteFails(p)
      PROVE LockInv'
  BY <1>4 DEF TypeOK, Load, BodySend, BodyReceive, BodyRead, BodyRaises, WriteTmp,
              Replace, WriteFails, Goto
<1>5. ASSUME NEW p \in Procs, CloseCommitted(p) \/ CloseAborted(p) PROVE LockInv'
  BY <1>5 DEF TypeOK, CloseCommitted, CloseAborted, Goto
<1>6. ASSUME NEW p \in Procs, Crash(p) PROVE LockInv'
  BY <1>6 DEF TypeOK, Crash
<1> QED
  BY <1>1, <1>2, <1>3, <1>4, <1>5, <1>6 DEF Next, Step

(* While one caller holds the lock, no other is past flock.                *)
LEMMA MutualExclusion ==
  ASSUME LockInv, NEW p \in Procs, NEW q \in Procs, q # p, pc[p] \in Holding
  PROVE  pc[q] \notin Holding
  BY DEF LockInv
------------------------------------------------------------------------------
(* The snapshot.  Only Replace changes the disk, and then nobody else is   *)
(* in a body.                                                              *)

(* The snapshot of a caller in its body is what the disk holds: nobody else*)
(* may replace the file while it has the lock.                             *)
LEMMA SnapshotStep ==
  TypeOK /\ LockInv /\ SnapshotInv /\ [Next]_vars => SnapshotInv'
<1> SUFFICES ASSUME TypeOK, LockInv, SnapshotInv, [Next]_vars PROVE SnapshotInv'
  OBVIOUS
<1> USE DEF SnapshotInv, Advanced
<1>1. CASE UNCHANGED vars
  BY <1>1 DEF vars, callVars
<1>2. ASSUME NEW p \in Procs, Open(p) \/ Flock(p) PROVE SnapshotInv'
  BY <1>2 DEF TypeOK, Open, Flock, Goto, callVars
<1>3. ASSUME NEW p \in Procs, Load(p) PROVE SnapshotInv'
  BY <1>3 DEF TypeOK, Load, Goto, callVars
<1>4. ASSUME NEW p \in Procs, BodySend(p) PROVE SnapshotInv'
  BY <1>4 DEF TypeOK, BodySend, Goto, callVars
<1>5. ASSUME NEW p \in Procs, BodyReceive(p) PROVE SnapshotInv'
  BY <1>5 DEF TypeOK, BodyReceive, Goto, callVars
<1>6. ASSUME NEW p \in Procs, BodyRead(p) \/ BodyRaises(p) \/ WriteFails(p)
      PROVE SnapshotInv'
  BY <1>6 DEF TypeOK, BodyRead, BodyRaises, WriteFails, Goto, callVars
<1>7. ASSUME NEW p \in Procs, WriteTmp(p) PROVE SnapshotInv'
  BY <1>7 DEF TypeOK, WriteTmp, Goto, callVars
<1>8. ASSUME NEW p \in Procs, Replace(p) PROVE SnapshotInv'
  <2> SUFFICES ASSUME NEW q \in Procs
               PROVE  /\ pc'[q] \notin {"body", "persist", "replace"}
                      /\ pc'[q] = "unlock" => mode'[q] # "read"
    OBVIOUS
  <2>1. CASE q = p
    BY <1>8, <2>1 DEF TypeOK, Replace, Goto, callVars
  <2>2. CASE q # p
    BY <1>8, <2>2, MutualExclusion DEF TypeOK, Replace, Goto, callVars, Holding
  <2> QED
    BY <2>1, <2>2
<1>9. ASSUME NEW p \in Procs, CloseCommitted(p) \/ CloseAborted(p)
      PROVE SnapshotInv'
  BY <1>9 DEF TypeOK, CloseCommitted, CloseAborted, Forget, Goto
<1>10. ASSUME NEW p \in Procs, Put(p) \/ PutFails(p) PROVE SnapshotInv'
  BY <1>10 DEF TypeOK, Put, PutFails, Goto, callVars
<1>11. ASSUME NEW p \in Procs, Crash(p) PROVE SnapshotInv'
  BY <1>11 DEF TypeOK, Crash, Forget
<1> QED
  BY <1>1, <1>2, <1>3, <1>4, <1>5, <1>6, <1>7, <1>8, <1>9, <1>10, <1>11
  DEF Next, Step
------------------------------------------------------------------------------
(* Message numbers.                                                        *)

(* A message number is never mistaken for the mark of a caller without one.*)
LEMMA TicketsAreNotNoTicket ==
  ASSUME TypeOK, NEW p \in Procs
  PROVE  /\ sess[p] \in Sessions
         /\ Ticket(disk, sess[p]) \in Sessions \X (0..MaxCounter)
         /\ Ticket(disk, sess[p]) # NoTicket
  <1>1. /\ disk \in Config
        /\ sess[p] \in Sessions
    BY DEF TypeOK
  <1>2. Ticket(disk, sess[p]) \in Sessions \X (0..MaxCounter)
    BY <1>1, AdvanceIsConfig
  <1>3. Ticket(disk, sess[p]) \in Sessions \X Nat
    BY <1>2
  <1> QED
    BY <1>1, <1>2, <1>3

(* A caller that is about to PUT owns a message number, one that has not   *)
(* sent has none.                                                          *)
LEMMA TicketStep ==
  TypeOK /\ LockInv /\ SnapshotInv /\ TicketInv /\ [Next]_vars => TicketInv'
<1> SUFFICES ASSUME TypeOK, LockInv, SnapshotInv, TicketInv, [Next]_vars
             PROVE TicketInv'
  OBVIOUS
<1> USE DEF TicketInv
<1>1. CASE UNCHANGED vars
  BY <1>1 DEF vars, callVars, Ticket
<1>2. ASSUME NEW p \in Procs, Open(p) \/ Flock(p) \/ Load(p) PROVE TicketInv'
  BY <1>2 DEF TypeOK, Open, Flock, Load, Goto, callVars, Ticket
<1>3. ASSUME NEW p \in Procs, BodySend(p) PROVE TicketInv'
  <2>1. ticket' = [ticket EXCEPT ![p] = Ticket(disk, sess[p])]
    BY <1>3 DEF BodySend, Goto, SnapshotInv
  <2> QED
    BY <1>3, <2>1 DEF TypeOK, BodySend, Goto, callVars, Ticket
<1>4. ASSUME NEW p \in Procs, BodyReceive(p) PROVE TicketInv'
  BY <1>4 DEF TypeOK, BodyReceive, Goto, callVars, Ticket
<1>5. ASSUME NEW p \in Procs, BodyRead(p) \/ BodyRaises(p) \/ WriteFails(p)
      PROVE TicketInv'
  BY <1>5 DEF TypeOK, BodyRead, BodyRaises, WriteFails, Goto, callVars, Ticket
<1>6. ASSUME NEW p \in Procs, WriteTmp(p) PROVE TicketInv'
  BY <1>6 DEF TypeOK, WriteTmp, Goto, callVars, Ticket
<1>7. ASSUME NEW p \in Procs, Replace(p) PROVE TicketInv'
  <2>1. /\ mode[p] # "read"
        /\ ticket[p] = IF mode[p] = "send" THEN Ticket(disk, sess[p]) ELSE NoTicket
        /\ Ticket(disk, sess[p]) # NoTicket
    BY <1>7, TicketsAreNotNoTicket DEF Replace, Goto, SnapshotInv
  <2>2. pc[p] \in Holding
    BY <1>7 DEF Replace, Goto, Holding
  <2> SUFFICES ASSUME NEW q \in Procs PROVE TicketInv!(q)'
    OBVIOUS
  <2>3. CASE q = p
    BY <1>7, <2>1, <2>3 DEF TypeOK, Replace, Goto, callVars
  <2>4. CASE q # p
    <3>1. pc[q] \notin Holding
      BY <2>2, <2>4, MutualExclusion
    <3> QED
      BY <1>7, <2>4, <3>1 DEF TypeOK, Replace, Goto, callVars, Holding
  <2> QED
    BY <2>3, <2>4
<1>8. ASSUME NEW p \in Procs, CloseCommitted(p) \/ CloseAborted(p)
      PROVE TicketInv'
  BY <1>8 DEF TypeOK, CloseCommitted, CloseAborted, Forget, Goto,
                           Ticket, SnapshotInv, Modes
<1>9. ASSUME NEW p \in Procs, Put(p) \/ PutFails(p) PROVE TicketInv'
  BY <1>9 DEF TypeOK, Put, PutFails, Goto, callVars, Ticket
<1>10. ASSUME NEW p \in Procs, Crash(p) PROVE TicketInv'
  BY <1>10 DEF TypeOK, Crash, Forget, Ticket
<1> QED
  BY <1>1, <1>2, <1>3, <1>4, <1>5, <1>6, <1>7, <1>8, <1>9, <1>10 DEF Next, Step
------------------------------------------------------------------------------
(* What a commit does to the account: one chain moves on by one, and a     *)
(* number is issued exactly if it is the sending chain.                    *)
LEMMA ReplaceEffect ==
  ASSUME TypeOK, IInv, NEW p \in Procs, Replace(p)
  PROVE  /\ disk' = Advanced(p)
         /\ disk \in Config /\ disk' \in Config /\ sess[p] \in Sessions
         /\ Issued(p) = NoTicket
         /\ mode[p] = "send" => Issued(p)' = Ticket(disk, sess[p])
         /\ mode[p] # "send" => Issued(p)' = NoTicket
         /\ \A q \in Procs \ {p} : Issued(q)' = Issued(q)
         /\ wire' = wire
<1>1. disk' = Advanced(p)
  BY DEF Replace, Goto, IInv, SnapshotInv
<1>2. disk \in Config /\ disk' \in Config /\ sess[p] \in Sessions
  BY DEF TypeOK, Replace, Goto
<1>3. /\ pc[p] = "replace" /\ pc' = [pc EXCEPT ![p] = "unlock"]
      /\ ticket' = ticket /\ wire' = wire
      /\ pc \in [Procs -> PcValues]
  BY DEF Replace, Goto, TypeOK
<1>4. ticket[p] = IF mode[p] = "send" THEN Ticket(disk, sess[p]) ELSE NoTicket
  BY <1>3 DEF IInv, TicketInv
<1> QED
  BY <1>1, <1>2, <1>3, <1>4 DEF Issued

(* Nothing but a commit touches the disk.                                  *)
LEMMA DiskUnchanged ==
  ASSUME [Next]_vars, \A p \in Procs : ~Replace(p)
  PROVE  disk' = disk
  BY DEF Next, Step, vars, Open, Flock, Load, BodySend, BodyReceive, BodyRead,
         BodyRaises, WriteTmp, WriteFails, CloseCommitted, CloseAborted, Put,
         PutFails, Crash

(* One record of the account after its ns or nr was advanced.              *)
LEMMA AdvanceCounter ==
  ASSUME NEW r \in [ns : 0..MaxCounter, nr : 0..MaxCounter]
  PROVE  /\ [r EXCEPT !.ns = @ + 1].ns = r.ns + 1
         /\ [r EXCEPT !.ns = @ + 1].nr = r.nr
         /\ [r EXCEPT !.nr = @ + 1].nr = r.nr + 1
         /\ [r EXCEPT !.nr = @ + 1].ns = r.ns
  OBVIOUS

(* Advancing one chain of one session moves that counter on by one and no  *)
(* other.                                                                  *)
LEMMA AdvancedCounters ==
  ASSUME disk \in Config, NEW p \in Procs, sess[p] \in Sessions, NEW s \in Sessions
  PROVE  /\ Advanced(p)[s].ns =
              IF mode[p] = "send" /\ s = sess[p] THEN disk[s].ns + 1 ELSE disk[s].ns
         /\ Advanced(p)[s].nr =
              IF mode[p] # "send" /\ s = sess[p] THEN disk[s].nr + 1 ELSE disk[s].nr
<1>1. /\ disk[s] \in [ns : 0..MaxCounter, nr : 0..MaxCounter]
      /\ DOMAIN disk = Sessions
  BY DEF Config
<1>2. CASE s # sess[p]
  BY <1>1, <1>2, Zenon DEF Advanced
<1>3. CASE s = sess[p] /\ mode[p] = "send"
  <2>1. Advanced(p)[s] = [disk[s] EXCEPT !.ns = @ + 1]
    BY <1>1, <1>3, Zenon DEF Advanced
  <2> QED
    BY <1>1, <1>3, <2>1, AdvanceCounter
<1>4. CASE s = sess[p] /\ mode[p] # "send"
  <2>1. Advanced(p)[s] = [disk[s] EXCEPT !.nr = @ + 1]
    BY <1>1, <1>4, Zenon DEF Advanced
  <2> QED
    BY <1>1, <1>4, <2>1, AdvanceCounter
<1> QED
  BY <1>2, <1>3, <1>4

(* A commit replaces the account by one that is at least as far on every   *)
(* chain.                                                                  *)
LEMMA CommitsAdvance ==
  TypeOK /\ IInv /\ [Next]_vars =>
    \A s \in Sessions : disk'[s].ns >= disk[s].ns /\ disk'[s].nr >= disk[s].nr
<1> SUFFICES ASSUME TypeOK, IInv, [Next]_vars, NEW s \in Sessions
             PROVE  disk'[s].ns >= disk[s].ns /\ disk'[s].nr >= disk[s].nr
  OBVIOUS
<1>1. disk[s].ns \in Nat /\ disk[s].nr \in Nat
  BY DEF TypeOK, Config
<1>2. CASE \A p \in Procs : ~Replace(p)
  BY <1>1, <1>2, DiskUnchanged
<1>3. ASSUME NEW p \in Procs, Replace(p)
      PROVE  disk'[s].ns >= disk[s].ns /\ disk'[s].nr >= disk[s].nr
  <2>1. disk' = Advanced(p) /\ disk \in Config /\ sess[p] \in Sessions
    BY <1>3, ReplaceEffect
  <2> QED
    BY <1>1, <2>1, AdvancedCounters
<1> QED
  BY <1>2, <1>3
------------------------------------------------------------------------------
(* Who gets to own a number: nobody, except by committing a send.          *)
LEMMA IssuedOnlyByReplace ==
  ASSUME TypeOK, IInv, NEW p \in Procs, Open(p) \/ Step(p) \/ Crash(p), ~Replace(p),
         NEW q \in Procs
  PROVE  Issued(q)' \in {Issued(q), NoTicket}
<1> USE DEF Issued, Goto, TypeOK
<1>1. CASE q # p
  BY <1>1 DEF Step, Open, Flock, Load, BodySend, BodyReceive, BodyRead, BodyRaises,
              WriteTmp, WriteFails, CloseCommitted, CloseAborted, Put, PutFails,
              Crash
<1>2. CASE q = p
  BY <1>2 DEF Step, Open, Flock, Load, BodySend, BodyReceive, BodyRead, BodyRaises,
              WriteTmp, WriteFails, CloseCommitted, CloseAborted, Put, PutFails,
              Crash
<1> QED
  BY <1>1, <1>2

(* ... and only Put hands one to the server, forgetting it.                *)
LEMMA PutEffect ==
  ASSUME TypeOK, IInv, NEW p \in Procs, Put(p)
  PROVE  /\ Issued(p) # NoTicket
         /\ wire' = wire \union {Issued(p)}
         /\ Issued(p)' = NoTicket
         /\ \A q \in Procs \ {p} : Issued(q)' = Issued(q)
         /\ disk' = disk
  BY DEF Put, Goto, Issued, TypeOK, IInv, TicketInv

(* Only the caller that PUTs touches the wire.                             *)
LEMMA WireOnlyByPut ==
  ASSUME [Next]_vars, \A p \in Procs : ~Put(p)
  PROVE  wire' = wire
  BY DEF Next, Step, vars, Open, Flock, Load, BodySend, BodyReceive, BodyRead,
         BodyRaises, WriteTmp, Replace, WriteFails, CloseCommitted, CloseAborted,
         PutFails, Crash

(* Every other step leaves the disk and the wire alone and issues nothing. *)
LEMMA QuietStep ==
  ASSUME TypeOK, IInv, [Next]_vars, \A p \in Procs : ~Replace(p) /\ ~Put(p)
  PROVE  /\ disk' = disk /\ wire' = wire
         /\ \A q \in Procs : Issued(q)' \in {Issued(q), NoTicket}
<1>1. disk' = disk /\ wire' = wire
  BY DiskUnchanged, WireOnlyByPut
<1>2. CASE UNCHANGED vars
  BY <1>1, <1>2 DEF vars, Issued
<1>3. ASSUME NEW p \in Procs, Open(p) \/ Step(p) \/ Crash(p)
      PROVE  \A q \in Procs : Issued(q)' \in {Issued(q), NoTicket}
  BY <1>3, IssuedOnlyByReplace
<1> QED
  BY <1>1, <1>2, <1>3 DEF Next

(* The number a caller owns is a message number or none.                   *)
LEMMA IssuedType ==
  ASSUME TypeOK, NEW p \in Procs
  PROVE  Issued(p) \in (Sessions \X (0..MaxCounter)) \union {NoTicket}
  BY DEF TypeOK, Issued

(* Every number on the wire or owned lies below the chain on disk, after   *)
(* any step.                                                               *)
LEMMA SpentStep == TypeOK /\ IInv /\ [Next]_vars => SpentInv'
<1> SUFFICES ASSUME TypeOK, IInv, [Next]_vars PROVE SpentInv'
  OBVIOUS
<1>1. /\ \A p \in Procs : Issued(p) # NoTicket =>
           Issued(p)[1] \in Sessions /\ Issued(p)[2] \in 0..MaxCounter
      /\ \A t \in wire : t[1] \in Sessions /\ t[2] \in 0..MaxCounter
      /\ \A s \in Sessions : disk[s].ns \in Nat
  BY IssuedType DEF TypeOK, Config
<1>2. SpentInv
  BY DEF IInv
<1>3. ASSUME NEW p \in Procs, Replace(p) PROVE SpentInv'
  <2>1. /\ disk' = Advanced(p) /\ disk \in Config /\ sess[p] \in Sessions
        /\ wire' = wire
        /\ \A q \in Procs \ {p} : Issued(q)' = Issued(q)
        /\ Issued(p)' = IF mode[p] = "send" THEN Ticket(disk, sess[p]) ELSE NoTicket
    BY <1>3, ReplaceEffect
  <2>2. \A s \in Sessions : /\ disk'[s].ns \in Nat /\ disk'[s].ns >= disk[s].ns
                            /\ mode[p] = "send" /\ s = sess[p] =>
                                 disk'[s].ns = disk[s].ns + 1
    BY <1>1, <2>1, AdvancedCounters
  <2>3. \A t \in wire' : t[2] < disk'[t[1]].ns
    BY <1>1, <1>2, <2>1, <2>2 DEF SpentInv
  <2>4. ASSUME NEW q \in Procs, Issued(q)' # NoTicket
        PROVE  Issued(q)'[2] < disk'[Issued(q)'[1]].ns
    <3>1. CASE q # p
      BY <1>1, <1>2, <2>1, <2>2, <2>4, <3>1 DEF SpentInv
    <3>2. CASE q = p
      BY <1>1, <2>1, <2>2, <2>4, <3>2 DEF Ticket
    <3> QED
      BY <3>1, <3>2
  <2> QED
    BY <2>3, <2>4 DEF SpentInv
<1>4. ASSUME NEW p \in Procs, Put(p) PROVE SpentInv'
  BY <1>2, <1>4, PutEffect DEF SpentInv
<1>5. CASE \A p \in Procs : ~Replace(p) /\ ~Put(p)
  BY <1>2, <1>5, QuietStep DEF SpentInv
<1> QED
  BY <1>3, <1>4, <1>5

(* No step gives a caller a number that was sent or that another caller    *)
(* owns.                                                                   *)
LEMMA ReuseStep == TypeOK /\ IInv /\ [Next]_vars => NoCounterReuse'
<1> SUFFICES ASSUME TypeOK, IInv, [Next]_vars PROVE NoCounterReuse'
  OBVIOUS
<1>1. NoCounterReuse /\ SpentInv
  BY DEF IInv
<1>2. ASSUME NEW p \in Procs, Replace(p) PROVE NoCounterReuse'
  <2>1. /\ wire' = wire
        /\ \A q \in Procs \ {p} : Issued(q)' = Issued(q)
        /\ Issued(p)' = IF mode[p] = "send" THEN Ticket(disk, sess[p]) ELSE NoTicket
    BY <1>2, ReplaceEffect
  <2>2. disk[sess[p]].ns \in Nat
    BY DEF TypeOK, Config
  <2>3. Ticket(disk, sess[p]) \notin wire
    BY <1>1, <2>2 DEF SpentInv, Ticket
  <2>4. \A q \in Procs : Ticket(disk, sess[p]) # Issued(q)
    BY <1>1, <2>2, TicketsAreNotNoTicket DEF SpentInv, Ticket
  <2> QED
    BY <1>1, <2>1, <2>3, <2>4 DEF NoCounterReuse
<1>3. ASSUME NEW p \in Procs, Put(p) PROVE NoCounterReuse'
  BY <1>1, <1>3, PutEffect DEF NoCounterReuse
<1>4. CASE \A p \in Procs : ~Replace(p) /\ ~Put(p)
  BY <1>1, <1>4, QuietStep DEF NoCounterReuse
<1> QED
  BY <1>2, <1>3, <1>4
------------------------------------------------------------------------------
Inductive == TypeOK /\ IInv

(* The inductive invariant holds of the initial account.                   *)
LEMMA InductiveInit == Init => Inductive
<1> SUFFICES ASSUME Init PROVE IInv
  BY TypeInit DEF Inductive
<1>1. \A p \in Procs : pc[p] = "idle" /\ ticket[p] = NoTicket /\ lock # p
  BY DEF Init
<1>2. wire = {}
  BY DEF Init
<1> QED
  BY <1>1, <1>2 DEF IInv, LockInv, SnapshotInv, TicketInv, SpentInv,
                    NoCounterReuse, Issued, Holding

(* Every step of every caller keeps the inductive invariant.               *)
LEMMA InductiveStep == Inductive /\ [Next]_vars => Inductive'
  BY TypeStep, LockStep, SnapshotStep, TicketStep, SpentStep, ReuseStep
  DEF Inductive, IInv

(* The inductive invariant holds in every reachable state.                 *)
LEMMA Invariance == Spec => []Inductive
  BY InductiveInit, InductiveStep, PTL DEF Spec

(* Every variable keeps its type: chains stay within the bound, a caller   *)
(* owns one message number or none, and only numbers reach the wire.       *)
THEOREM TypeCorrect == Spec => []TypeOK
<1>1. Inductive => TypeOK
  BY DEF Inductive
<1> QED
  BY <1>1, Invariance, PTL

(* No interleaving, crash or failed write makes two sends use the same     *)
(* message number of a session (locked_account, store.py).                 *)
THEOREM CountersAreUnique == Spec => []NoCounterReuse
<1>1. Inductive => NoCounterReuse
  BY DEF Inductive, IInv
<1> QED
  BY <1>1, Invariance, PTL

(* No commit of the account undoes an earlier one.                         *)
THEOREM CommitsNeverRollBack == Spec => NeverRollsBack
<1>1. Inductive /\ [Next]_vars =>
        [\A s \in Sessions : /\ disk'[s].ns >= disk[s].ns
                             /\ disk'[s].nr >= disk[s].nr]_disk
  BY CommitsAdvance DEF Inductive
<1> QED
  BY <1>1, Invariance, PTL DEF Spec, NeverRollsBack
------------------------------------------------------------------------------
(* Refinement: the commit of a send is Reserve, that of a receive Accept,  *)
(* and a PUT or its failure Transmit or Drop; all else is invisible.       *)

(* The initial account is an initial state of the atomic one.              *)
LEMMA AtomicInit == Init => Atomic!Init
<1> SUFFICES ASSUME Init PROVE Atomic!Init
  OBVIOUS
<1>1. \A p \in Procs : Issued(p) = NoTicket
  BY DEF Init, Issued
<1> QED
  BY <1>1 DEF Init, Atomic!Init, NewAccount

(* How the mapped ticket function changes when one caller's number does.   *)
LEMMA IssuedUpdate ==
  ASSUME NEW p \in Procs, \A q \in Procs \ {p} : Issued(q)' = Issued(q)
  PROVE  [q \in Procs |-> Issued(q)]' =
           [[q \in Procs |-> Issued(q)] EXCEPT ![p] = Issued(p)']
<1>1. \A q \in Procs : Issued(q)' = IF q = p THEN Issued(p)' ELSE Issued(q)
  OBVIOUS
<1> QED
  BY <1>1, Zenon

(* The rename of atomic_write_secure is a send or a receive of the atomic  *)
(* account.                                                                *)
LEMMA ReplaceRefines ==
  ASSUME TypeOK, IInv, NEW p \in Procs, Replace(p)
  PROVE  Atomic!Next
<1>1. /\ disk' = Advanced(p)
      /\ disk \in Config /\ disk' \in Config /\ sess[p] \in Sessions
      /\ Issued(p) = NoTicket
      /\ mode[p] = "send" => Issued(p)' = Ticket(disk, sess[p])
      /\ mode[p] # "send" => Issued(p)' = NoTicket
      /\ \A q \in Procs \ {p} : Issued(q)' = Issued(q)
      /\ wire' = wire
  BY ReplaceEffect
<1>2. [q \in Procs |-> Issued(q)]' =
        [[q \in Procs |-> Issued(q)] EXCEPT ![p] = Issued(p)']
  BY <1>1, IssuedUpdate
<1>3. /\ disk[sess[p]].ns \in Nat /\ disk[sess[p]].nr \in Nat
      /\ disk'[sess[p]].ns <= MaxCounter /\ disk'[sess[p]].nr <= MaxCounter
  BY <1>1 DEF Config
<1>4. CASE mode[p] = "send"
  <2>1. disk[sess[p]].ns < MaxCounter
    BY <1>1, <1>3, <1>4, AdvancedCounters
  <2>2. disk' = [disk EXCEPT ![sess[p]].ns = @ + 1]
    BY <1>1, <1>4, Zenon DEF Advanced
  <2>3. [q \in Procs |-> Issued(q)]' =
          [[q \in Procs |-> Issued(q)] EXCEPT ![p] = <<sess[p], disk[sess[p]].ns>>]
    BY <1>1, <1>2, <1>4, Zenon DEF Ticket
  <2>4. [q \in Procs |-> Issued(q)][p] = NoTicket
    BY <1>1
  <2>5. Atomic!Reserve(p, sess[p])
    BY <1>1, <2>1, <2>2, <2>3, <2>4, Zenon DEF Atomic!Reserve
  <2> QED
    BY <1>1, <2>5, Zenon DEF Atomic!Next
<1>5. CASE mode[p] # "send"
  <2>1. disk[sess[p]].nr < MaxCounter
    BY <1>1, <1>3, <1>5, AdvancedCounters
  <2>2. disk' = [disk EXCEPT ![sess[p]].nr = @ + 1]
    BY <1>1, <1>5, Zenon DEF Advanced
  <2>3. [q \in Procs |-> Issued(q)]' = [q \in Procs |-> Issued(q)]
    BY <1>1, <1>5
  <2>4. Atomic!Accept(sess[p])
    BY <1>1, <2>1, <2>2, <2>3, Zenon DEF Atomic!Accept
  <2> QED
    BY <1>1, <2>4, Zenon DEF Atomic!Next
<1> QED
  BY <1>4, <1>5

(* The PUT after the lock is the transmission of the atomic account.       *)
LEMMA PutRefines ==
  ASSUME TypeOK, IInv, NEW p \in Procs, Put(p)
  PROVE  Atomic!Next
<1>1. /\ Issued(p) # NoTicket
      /\ wire' = wire \union {Issued(p)}
      /\ Issued(p)' = NoTicket
      /\ \A q \in Procs \ {p} : Issued(q)' = Issued(q)
      /\ disk' = disk
  BY PutEffect
<1>2. [q \in Procs |-> Issued(q)]' =
        [[q \in Procs |-> Issued(q)] EXCEPT ![p] = NoTicket]
  BY <1>1, IssuedUpdate, Zenon
<1>3. [q \in Procs |-> Issued(q)][p] = Issued(p)
  OBVIOUS
<1>4. Atomic!Transmit(p)
  BY <1>1, <1>2, <1>3, Zenon DEF Atomic!Transmit
<1> QED
  BY <1>4, Zenon DEF Atomic!Next

(* Any other step drops at most the number of the caller that takes it.    *)
LEMMA QuietRefines ==
  ASSUME TypeOK, IInv, NEW p \in Procs, Open(p) \/ Step(p) \/ Crash(p),
         ~Replace(p), ~Put(p), disk' = disk, wire' = wire
  PROVE  [Atomic!Next]_(Atomic!vars)
<1>1. \A q \in Procs \ {p} : Issued(q)' = Issued(q)
  BY DEF Issued, Goto, TypeOK, Step, Open, Flock, Load, BodySend, BodyReceive,
         BodyRead, BodyRaises, WriteTmp, WriteFails, CloseCommitted,
         CloseAborted, PutFails, Crash
<1>2. Issued(p)' \in {Issued(p), NoTicket}
  BY IssuedOnlyByReplace
<1>3. CASE Issued(p)' = Issued(p)
  <2>1. [q \in Procs |-> Issued(q)]' = [q \in Procs |-> Issued(q)]
    BY <1>1, <1>3
  <2> QED
    BY <2>1 DEF Atomic!vars
<1>4. CASE Issued(p) # NoTicket /\ Issued(p)' = NoTicket
  <2>1. [q \in Procs |-> Issued(q)]' =
          [[q \in Procs |-> Issued(q)] EXCEPT ![p] = NoTicket]
    BY <1>1, <1>4, IssuedUpdate, Zenon
  <2>2. [q \in Procs |-> Issued(q)][p] # NoTicket
    BY <1>4
  <2>3. Atomic!Drop(p)
    BY <2>1, <2>2, Zenon DEF Atomic!Drop
  <2> QED
    BY <2>3, Zenon DEF Atomic!Next
<1> QED
  BY <1>2, <1>3, <1>4

(* Every step of locked_account is a step of the atomic account or         *)
(* invisible to it.                                                        *)
LEMMA AtomicStep ==
  TypeOK /\ IInv /\ [Next]_vars => [Atomic!Next]_(Atomic!vars)
<1> SUFFICES ASSUME TypeOK, IInv, [Next]_vars PROVE [Atomic!Next]_(Atomic!vars)
  OBVIOUS
<1>1. CASE UNCHANGED vars
  <2>1. [q \in Procs |-> Issued(q)]' = [q \in Procs |-> Issued(q)]
    BY <1>1 DEF vars, Issued
  <2> QED
    BY <1>1, <2>1 DEF vars, Atomic!vars
<1>2. ASSUME NEW p \in Procs, Replace(p) PROVE Atomic!Next
  BY <1>2, ReplaceRefines
<1>3. ASSUME NEW p \in Procs, Put(p) PROVE Atomic!Next
  BY <1>3, PutRefines
<1>4. CASE Next /\ \A p \in Procs : ~Replace(p) /\ ~Put(p)
  <2>1. disk' = disk /\ wire' = wire
    BY <1>4, QuietStep
  <2>2. PICK p \in Procs : Open(p) \/ Step(p) \/ Crash(p)
    BY <1>4 DEF Next
  <2> QED
    BY <1>4, <2>1, <2>2, QuietRefines
<1> QED
  BY <1>1, <1>2, <1>3, <1>4

(* locked_account with all its interleavings, crashes and failed writes    *)
(* implements the account whose sends and receives are single steps.       *)
THEOREM ImplementsAtomicAccount == Spec => AtomicSpec
<1>1. Init => Atomic!Init
  BY AtomicInit
<1>2. Inductive /\ [Next]_vars => [Atomic!Next]_(Atomic!vars)
  BY AtomicStep DEF Inductive
<1> QED
  BY <1>1, <1>2, Invariance, PTL DEF Spec, AtomicSpec, Atomic!Spec
=============================================================================
