----------------------- MODULE PrekeyMaintenance_proofs -----------------------
(***************************************************************************)
(* The prekeys of the server and of the account stay in step: proved for   *)
(* any number of overlapping refreshes, and any intervals that satisfy     *)
(* MaintenanceAssumption.                                                  *)
(***************************************************************************)
EXTENDS PrekeyMaintenance, TLAPS

(***************************************************************************)
(* Types, with the fields of the records.                                  *)
(***************************************************************************)

Entries == [id : Ids, at : Nat]

Accts == [active : Ids, rotatedAt : Nat, pool : SUBSET Entries, nextId : 2 .. MaxKeys + 1,
          nextBatch : 1 .. MaxBatches + 1, stamp : Nat]

Calls == [by : Callers, force : BOOLEAN, t : Nat, low : BOOLEAN,
          key : Ids \union {0}, batch : 0 .. MaxBatches]

RecordsOK ==
  /\ now \in 0 .. MaxTime
  /\ acct \in Accts
  /\ server \in [key : Ids, batches : SUBSET (1 .. MaxBatches)]
  /\ pc \in [Procs -> {"idle", "count", "generate", "upload", "activate", "stamp"}]
  /\ call \in [Procs -> Calls]
  /\ replaced \in [Ids -> [at : Int, active : BOOLEAN]]

(* Nothing on record is of the future.                                     *)
PastOK ==
  /\ acct.rotatedAt <= now /\ acct.stamp <= now
  /\ \A e \in acct.pool : e.at <= now
  /\ \A p \in Procs : call[p].t <= now
  /\ \A k \in Ids : replaced[k].at <= now

Types == RecordsOK /\ PastOK

(* The records say what TypeOK says.                                       *)
LEMMA TypesImplyTypeOK == Types => TypeOK
<1> SUFFICES ASSUME RecordsOK, PastOK PROVE TypeOK
  BY DEF Types
<1>1. now \in 0 .. MaxTime /\ now \in Nat
  BY MaintenanceAssumption DEF RecordsOK
<1>2. acct.active \in Ids /\ acct.rotatedAt \in 0 .. now /\ acct.stamp \in 0 .. now
  BY <1>1 DEF RecordsOK, PastOK, Accts
<1>3. acct.pool \subseteq [id : Ids, at : 0 .. now]
  BY <1>1 DEF RecordsOK, PastOK, Accts, Entries
<1>4. acct.nextId \in 2 .. (MaxKeys + 1) /\ acct.nextBatch \in 1 .. (MaxBatches + 1)
  BY DEF RecordsOK, Accts
<1>5. server.key \in Ids /\ server.batches \subseteq 1 .. MaxBatches
  BY DEF RecordsOK
<1>6. \A p \in Procs : /\ call[p].t \in 0 .. now
                       /\ call[p].key \in Ids \union {0}
                       /\ call[p].batch \in 0 .. MaxBatches
  BY <1>1 DEF RecordsOK, PastOK, Calls
<1> QED
  BY <1>1, <1>2, <1>3, <1>4, <1>5, <1>6 DEF TypeOK, RecordsOK

(* A linked account has its types.                                         *)
LEMMA TypesInit == Init => Types
<1> SUFFICES ASSUME Init PROVE Types
  OBVIOUS
<1>1. 1 \in Ids /\ Refresh \in Nat /\ 2 \in 2 .. MaxKeys + 1 /\ 1 \in 1 .. MaxBatches + 1
  BY MaintenanceAssumption DEF Ids
<1>2. acct \in Accts
  BY <1>1 DEF Init, Accts
<1>3. call \in [Procs -> Calls]
  BY MaintenanceAssumption DEF Init, NoCall, Calls, Callers
<1>4. RecordsOK
  BY <1>1, <1>2, <1>3, MaintenanceAssumption DEF Init, RecordsOK
<1>5. PastOK
  BY <1>1 DEF Init, PastOK, NoCall
<1> QED
  BY <1>4, <1>5 DEF Types

(* What a call that ends leaves behind.                                    *)
LEMMA NoCallTypes == NoCall \in Calls /\ NoCall.t = 0 /\ NoCall.key = 0
  BY MaintenanceAssumption DEF NoCall, Calls, Callers

(* A return, with or without a stamp to come.                              *)
LEMMA ReturnTypes ==
  ASSUME RecordsOK, PastOK, NEW p \in Procs, Return(p) \/ Leave(p), now \in Nat
  PROVE  /\ pc' \in [Procs -> {"idle", "count", "generate", "upload", "activate", "stamp"}]
         /\ call' \in [Procs -> Calls]
         /\ \A q \in Procs : call'[q].t <= now
         /\ \A q \in Procs \ {p} : pc'[q] = pc[q] /\ call'[q] = call[q]
         /\ \/ pc'[p] = "idle"
            \/ pc'[p] = "stamp" /\ call'[p] = call[p] /\ call[p].by = "maintain"
  BY NoCallTypes DEF Return, Leave, RecordsOK, PastOK

(* What the server and the history are after an accepted upload.           *)
LEMMA AcceptTypes ==
  ASSUME RecordsOK, PastOK, NEW p \in Procs, Accept(p)
  PROVE  /\ server' \in [key : Ids, batches : SUBSET (1 .. MaxBatches)]
         /\ replaced' \in [Ids -> [at : Int, active : BOOLEAN]]
         /\ \A k \in Ids : replaced'[k].at <= now
         /\ server'.key = IF call[p].key = 0 THEN server.key ELSE call[p].key
         /\ \A b \in server'.batches : b \in server.batches \/ b = call[p].batch
<1>1. /\ call[p].key \in Ids \union {0}
      /\ call[p].batch \in 0 .. MaxBatches
      /\ server.key \in Ids /\ server.batches \in SUBSET (1 .. MaxBatches)
      /\ now \in Int
  BY MaintenanceAssumption DEF RecordsOK, Calls
<1>2. server' = [key |-> IF call[p].key = 0 THEN server.key ELSE call[p].key,
                 batches |-> IF call[p].batch = 0 THEN server.batches
                             ELSE server.batches \union {call[p].batch}]
  BY DEF Accept
<1>3. replaced' = IF call[p].key = 0 THEN replaced
                  ELSE [replaced EXCEPT ![server.key] =
                          [at |-> now, active |-> acct.active = server.key]]
  BY DEF Accept
<1>4. call[p].batch # 0 => call[p].batch \in 1 .. MaxBatches
  BY <1>1, MaintenanceAssumption
<1>5. server' \in [key : Ids, batches : SUBSET (1 .. MaxBatches)]
  BY <1>1, <1>2, <1>4
<1>6. replaced' \in [Ids -> [at : Int, active : BOOLEAN]]
  BY <1>1, <1>3 DEF RecordsOK
<1>7. \A k \in Ids : replaced'[k].at <= now
  BY <1>1, <1>3 DEF RecordsOK, PastOK
<1> QED
  BY <1>2, <1>5, <1>6, <1>7

(* The pool after an activation.                                           *)
LEMMA CleanTypes ==
  ASSUME RecordsOK, PastOK, NEW p \in Procs
  PROVE  /\ Clean(acct.pool, call[p].t) \subseteq acct.pool
         /\ Clean(Archived(call[p]), call[p].t) \subseteq
              acct.pool \union {[id |-> acct.active, at |-> call[p].t]}
         /\ [id |-> acct.active, at |-> call[p].t] \in Entries
  BY DEF Clean, Archived, RecordsOK, Accts, Calls, Entries

(* The answer to the GET goes into one field.                              *)
LEMMA CountTypes ==
  ASSUME RecordsOK, NEW p \in Procs, Count(p)
  PROVE  /\ call' \in [Procs -> Calls]
         /\ \A q \in Procs : call'[q].t = call[q].t /\ call'[q].key = call[q].key
         /\ \A q \in Procs \ {p} : call'[q] = call[q]
<1> DEFINE low == server.batches = {}
<1>1. low \in BOOLEAN
  OBVIOUS
<1>2. call' = [call EXCEPT ![p].low = low]
  BY DEF Count
<1> HIDE DEF low
<1> QED
  BY <1>1, <1>2 DEF RecordsOK, Calls

(* Every step of the refreshes, the peers and the clock keeps the types.   *)
LEMMA TypesStep == Types /\ [Next]_vars => Types'
<1> SUFFICES ASSUME RecordsOK, PastOK, [Next]_vars PROVE RecordsOK' /\ PastOK'
  BY DEF Types
<1>0. now \in Nat /\ now \in 0 .. MaxTime
  BY MaintenanceAssumption DEF RecordsOK
<1>1. CASE UNCHANGED vars
  BY <1>1 DEF vars, RecordsOK, PastOK
<1>2. ASSUME NEW p \in Procs, NEW by \in Callers, NEW force \in BOOLEAN, Begin(p, by, force)
      PROVE  RecordsOK' /\ PastOK'
  <2>1. [NoCall EXCEPT !.by = by, !.force = force, !.t = now] \in Calls
    BY <1>0, NoCallTypes DEF Calls
  <2>2. [NoCall EXCEPT !.by = by, !.force = force, !.t = now].t = now
    BY DEF NoCall
  <2>3. call' \in [Procs -> Calls] /\ \A q \in Procs : call'[q].t <= now
    BY <1>0, <1>2, <2>1, <2>2 DEF Begin, RecordsOK, PastOK
  <2> QED
    BY <1>2, <2>3 DEF Begin, Goto, RecordsOK, PastOK
<1>3. ASSUME NEW p \in Procs, Count(p) PROVE RecordsOK' /\ PastOK'
  BY <1>3, CountTypes DEF Count, Goto, RecordsOK, PastOK
<1>4. ASSUME NEW p \in Procs, Generate(p) PROVE RecordsOK' /\ PastOK'
  <2> DEFINE c == call[p]
             rotates == RotationNeeded(c)
             tops == TopUpNeeded(c)
  <2>1. /\ rotates => acct.nextId <= MaxKeys
        /\ tops => acct.nextBatch <= MaxBatches
        /\ acct' = [acct EXCEPT !.pool = Parked(c),
                                !.nextId = IF rotates THEN @ + 1 ELSE @,
                                !.nextBatch = IF tops THEN @ + 1 ELSE @]
        /\ UNCHANGED <<now, server, replaced>>
    BY <1>4 DEF Generate
  <2>2. acct \in Accts /\ c \in Calls /\ c.t <= now /\ rotates \in BOOLEAN /\ tops \in BOOLEAN
    BY DEF RecordsOK, PastOK, RotationNeeded, TopUpNeeded
  <2>3. /\ rotates => acct.nextId \in Ids /\ acct.nextId + 1 \in 2 .. MaxKeys + 1
        /\ tops => acct.nextBatch \in 1 .. MaxBatches /\ acct.nextBatch + 1 \in 1 .. MaxBatches + 1
    BY <2>1, <2>2, MaintenanceAssumption DEF Accts, Ids
  <2>4. /\ Parked(c) \subseteq acct.pool \union {[id |-> acct.nextId, at |-> c.t]}
        /\ ~rotates => Parked(c) = acct.pool
    BY DEF Parked
  <2>5. Parked(c) \subseteq Entries /\ \A e \in Parked(c) : e.at <= now
    BY <2>2, <2>3, <2>4 DEF Accts, Calls, Entries, PastOK
  <2> HIDE DEF rotates, tops
  <2>6. acct' \in Accts /\ acct'.pool = Parked(c)
    BY <2>1, <2>2, <2>3, <2>5 DEF Accts
  <2>7. acct'.rotatedAt = acct.rotatedAt /\ acct'.stamp = acct.stamp
    BY <2>1, <2>2 DEF Accts
  <2>8. /\ pc' \in [Procs -> {"idle", "count", "generate", "upload", "activate", "stamp"}]
        /\ call' \in [Procs -> Calls]
        /\ \A q \in Procs : call'[q].t <= now
    <3>1. CASE rotates \/ tops
      <4>1. /\ pc' = [pc EXCEPT ![p] = "upload"]
            /\ call' = [call EXCEPT ![p].key = IF rotates THEN acct.nextId ELSE 0,
                                    ![p].batch = IF tops THEN acct.nextBatch ELSE 0]
        BY <1>4, <3>1 DEF Generate, rotates, tops
      <4>2. /\ (IF rotates THEN acct.nextId ELSE 0) \in Ids \union {0}
            /\ (IF tops THEN acct.nextBatch ELSE 0) \in 0 .. MaxBatches
        BY <2>3, MaintenanceAssumption
      <4>3. call' = [call EXCEPT ![p] = [c EXCEPT !.key = IF rotates THEN acct.nextId ELSE 0,
                                                  !.batch = IF tops THEN acct.nextBatch ELSE 0]]
        BY <4>1 DEF RecordsOK, Calls
      <4>4. /\ [c EXCEPT !.key = IF rotates THEN acct.nextId ELSE 0,
                         !.batch = IF tops THEN acct.nextBatch ELSE 0] \in Calls
            /\ [c EXCEPT !.key = IF rotates THEN acct.nextId ELSE 0,
                         !.batch = IF tops THEN acct.nextBatch ELSE 0].t = c.t
        BY <2>2, <4>2 DEF Calls
      <4> QED
        BY <4>1, <4>3, <4>4 DEF RecordsOK, PastOK
    <3>2. CASE ~(rotates \/ tops)
      <4>1. Return(p)
        BY <1>4, <3>2 DEF Generate, rotates, tops
      <4> QED
        BY <1>0, <4>1, ReturnTypes
    <3> QED
      BY <3>1, <3>2
  <2> QED
    BY <2>1, <2>5, <2>6, <2>7, <2>8 DEF RecordsOK, PastOK
<1>5. ASSUME NEW p \in Procs, Upload(p) PROVE RecordsOK' /\ PastOK'
  BY <1>5, AcceptTypes DEF Upload, Goto, RecordsOK, PastOK
<1>6. ASSUME NEW p \in Procs, AnswerLost(p) PROVE RecordsOK' /\ PastOK'
  BY <1>0, <1>6, AcceptTypes, ReturnTypes DEF AnswerLost, RecordsOK, PastOK
<1>7. ASSUME NEW p \in Procs, Activate(p) PROVE RecordsOK' /\ PastOK'
  <2>1. acct \in Accts /\ call[p] \in Calls /\ call[p].t <= now
    BY DEF RecordsOK, PastOK
  <2>2. /\ Return(p) /\ UNCHANGED <<now, server, replaced>>
        /\ acct' = IF call[p].key = 0
                   THEN [acct EXCEPT !.pool = Clean(acct.pool, call[p].t)]
                   ELSE [acct EXCEPT !.active = call[p].key, !.rotatedAt = call[p].t,
                                     !.pool = Clean(Archived(call[p]), call[p].t)]
    BY <1>7 DEF Activate
  <2>3. call[p].key # 0 => call[p].key \in Ids
    BY <2>1 DEF Calls
  <2>4. /\ acct'.pool \subseteq acct.pool \union {[id |-> acct.active, at |-> call[p].t]}
        /\ acct'.rotatedAt \in {acct.rotatedAt, call[p].t}
        /\ acct'.stamp = acct.stamp
    BY <2>1, <2>2, CleanTypes DEF Accts
  <2>5. acct' \in Accts
    BY <2>1, <2>2, <2>3, CleanTypes DEF Accts, Calls
  <2>6. \A e \in acct'.pool : e.at <= now
    BY <2>1, <2>4 DEF PastOK
  <2> QED
    BY <1>0, <2>1, <2>2, <2>4, <2>5, <2>6, ReturnTypes DEF RecordsOK, PastOK
<1>8. ASSUME NEW p \in Procs, Stamp(p) PROVE RecordsOK' /\ PastOK'
  <2>1. acct \in Accts /\ call[p] \in Calls /\ call[p].t <= now
    BY DEF RecordsOK, PastOK
  <2>2. /\ acct' \in Accts /\ acct'.stamp = call[p].t
        /\ acct'.rotatedAt = acct.rotatedAt /\ acct'.pool = acct.pool
    BY <1>8, <2>1 DEF Stamp, Accts, Calls
  <2> QED
    BY <1>0, <1>8, <2>1, <2>2, ReturnTypes DEF Stamp, RecordsOK, PastOK
<1>9. ASSUME NEW p \in Procs, Abandon(p) PROVE RecordsOK' /\ PastOK'
  BY <1>0, <1>9, ReturnTypes DEF Abandon, RecordsOK, PastOK
<1>10. CASE Consume
  BY <1>10 DEF Consume, RecordsOK, PastOK
<1>11. CASE Tick
  <2>1. now' = now + 1 /\ now' \in 0 .. MaxTime /\ UNCHANGED <<acct, server, pc, call, replaced>>
    BY <1>0, <1>11, MaintenanceAssumption DEF Tick
  <2> QED
    BY <1>0, <2>1 DEF RecordsOK, PastOK, Accts, Entries, Calls
<1> QED
  BY <1>1, <1>2, <1>3, <1>4, <1>5, <1>6, <1>7, <1>8, <1>9, <1>10, <1>11 DEF Next, Step

(* The account, the server and the callers keep their types: ids within    *)
(* what was generated, and no time of the future (refresh_prekeys).        *)
THEOREM TypeCorrect == Spec => []TypeOK
  BY TypesInit, TypesStep, TypesImplyTypeOK, PTL DEF Spec

-----------------------------------------------------------------------------
(***************************************************************************)
(* The keys.  A refresh that rotates has a key in flight between its two   *)
(* commits; one that found the rotation recent rests.                      *)
(***************************************************************************)

Flying(p) == pc[p] \in {"upload", "activate"} /\ call[p].key # 0

Rested(p) == pc[p] \in {"upload", "activate"} /\ call[p].key = 0

KeptSince(k, t) == \E e \in acct.pool : e.id = k /\ e.at >= t

(* No call outlives the time it is given.                                  *)
Timely == \A p \in Procs : pc[p] # "idle" => now <= call[p].t + MaxStall

(* Every key in flight was generated once, is parked in the pool, and is   *)
(* nobody else's.                                                          *)
Generated ==
  /\ acct.active < acct.nextId /\ server.key < acct.nextId
  /\ \A k \in Ids : replaced[k].at >= 0 => k < acct.nextId

Owned ==
  /\ \A p \in Procs : Flying(p) => /\ call[p].key < acct.nextId
                                   /\ call[p].key # acct.active
                                   /\ KeptSince(call[p].key, call[p].t)
  /\ \A p, q \in Procs : p # q /\ Flying(p) /\ Flying(q) => call[p].key # call[q].key

(* A call that does not rotate, or that is about to stamp the account, is  *)
(* less than an interval later than the last rotation.                     *)
Rotated ==
  \A p \in Procs : pc[p] = "stamp" \/ Rested(p) => call[p].t < acct.rotatedAt + Refresh

(* No call under way, and none to come before the next rotation, is late   *)
(* enough to clean the entry of the key the server serves.                 *)
Young(e) ==
  /\ acct.rotatedAt <= e.at + MaxStall
  /\ \A p \in Procs :
       /\ pc[p] = "activate" /\ Flying(p) => call[p].t <= e.at + MaxStall
       /\ Rested(p) => call[p].t < e.at + Refresh + MaxStall

Served ==
  server.key = acct.active \/ \E e \in acct.pool : e.id = server.key /\ Young(e)

Numbered ==
  /\ \A b \in server.batches : b < acct.nextBatch
  /\ \A p \in Procs : pc[p] = "upload" => call[p].batch < acct.nextBatch

(* A key that was active when it was replaced is never in flight again,    *)
(* and is active or archived until its time is over.                       *)
Remembered(k) ==
  \/ acct.active = k
  \/ now + MaxStall > replaced[k].at + Archive
  \/ KeptSince(k, replaced[k].at - MaxStall)

Lasting ==
  \A k \in Ids : replaced[k].at >= 0 /\ replaced[k].active =>
    Remembered(k) /\ \A p \in Procs : Flying(p) => call[p].key # k

KeysInv == Types /\ Timely /\ Generated /\ Owned /\ Rotated /\ Served /\ Numbered /\ Lasting

(* The arithmetic of the records.                                          *)
Numbers ==
  /\ now \in Nat /\ acct.rotatedAt \in Nat /\ acct.rotatedAt <= now
  /\ acct.active \in Nat /\ acct.nextId \in Nat /\ acct.nextBatch \in Nat
  /\ server.key \in Nat /\ server.key \in Ids
  /\ \A b \in server.batches : b \in Nat
  /\ \A p \in Procs : /\ call[p].t \in Nat /\ call[p].t <= now
                      /\ call[p].key \in Nat /\ call[p].batch \in Nat
  /\ \A e \in acct.pool : e.id \in Nat /\ e.at \in Nat /\ e.at <= now
  /\ \A k \in Ids : k \in Nat /\ replaced[k].at \in Int /\ replaced[k].at <= now

LEMMA TypesNumbers == Types => Numbers
<1> SUFFICES ASSUME RecordsOK, PastOK PROVE Numbers
  BY DEF Types
<1>1. Ids \subseteq Nat
  BY MaintenanceAssumption DEF Ids
<1>2. acct \in Accts
  BY DEF RecordsOK
<1>3. /\ now \in Nat /\ acct.rotatedAt \in Nat /\ acct.rotatedAt <= now
      /\ acct.active \in Nat /\ acct.nextId \in Nat /\ acct.nextBatch \in Nat
  <2>1. now \in Nat
    BY MaintenanceAssumption DEF RecordsOK
  <2>2. acct.active \in Ids /\ acct.rotatedAt \in Nat
    BY <1>2 DEF Accts
  <2>3. acct.nextId \in 2 .. MaxKeys + 1 /\ acct.nextBatch \in 1 .. MaxBatches + 1
    BY <1>2 DEF Accts
  <2>4. acct.nextId \in Nat /\ acct.nextBatch \in Nat
    BY <2>3, MaintenanceAssumption
  <2> QED
    BY <1>1, <2>1, <2>2, <2>4 DEF PastOK
<1>4. server.key \in Nat /\ server.key \in Ids /\ \A b \in server.batches : b \in Nat
  <2>1. server.key \in Ids /\ server.batches \subseteq 1 .. MaxBatches
    BY DEF RecordsOK
  <2>2. 1 .. MaxBatches \subseteq Nat
    BY MaintenanceAssumption
  <2> QED
    BY <1>1, <2>1, <2>2
<1>5. ASSUME NEW p \in Procs
      PROVE  /\ call[p].t \in Nat /\ call[p].t <= now
             /\ call[p].key \in Nat /\ call[p].batch \in Nat
  <2>1. call[p] \in Calls
    BY DEF RecordsOK
  <2>2. call[p].t \in Nat /\ call[p].key \in Ids \union {0} /\ call[p].batch \in 0 .. MaxBatches
    BY <2>1 DEF Calls
  <2>3. call[p].t <= now
    BY DEF PastOK
  <2>4. call[p].batch \in Nat
    BY <2>2, MaintenanceAssumption
  <2>5. call[p].key \in Nat
    <3>1. \A k \in Ids \union {0} : k \in Nat
      BY <1>1
    <3> QED
      BY <2>2, <3>1
  <2> QED
    BY <2>2, <2>3, <2>4, <2>5
<1>6. \A e \in acct.pool : e.id \in Nat /\ e.at \in Nat /\ e.at <= now
  BY <1>1 DEF RecordsOK, PastOK, Accts, Entries
<1>7. \A k \in Ids : k \in Nat /\ replaced[k].at \in Int /\ replaced[k].at <= now
  BY <1>1 DEF RecordsOK, PastOK
<1> QED
  BY <1>2, <1>3, <1>4, <1>5, <1>6, <1>7 DEF Numbers

LEMMA ConstantsNumbers == Refresh \in Nat /\ MaxStall \in Nat /\ Archive \in Nat
  BY MaintenanceAssumption

LEMMA NextNumbers == Types /\ [Next]_vars => Numbers /\ Numbers'
  BY TypesNumbers, TypesStep, PTL

(* What a step of p leaves to the other callers.                           *)
Others(p) == \A q \in Procs \ {p} : pc'[q] = pc[q] /\ call'[q] = call[q]

SameKeys ==
  /\ acct'.active = acct.active /\ acct'.rotatedAt = acct.rotatedAt
  /\ acct'.pool = acct.pool /\ acct'.nextId = acct.nextId
  /\ acct'.nextBatch = acct.nextBatch

KeysLeft == Timely /\ Generated /\ Owned /\ Rotated /\ Served /\ Numbered /\ Lasting

(* A step that touches no key: a call begins, counts, ends or stamps.      *)
LEMMA QuietKeeps ==
  ASSUME KeysInv, Numbers, Numbers', NEW p \in Procs, Others(p), SameKeys,
         UNCHANGED <<now, server, replaced>>,
         pc'[p] \in {"idle", "count", "generate", "stamp"},
         pc'[p] = "stamp" => call'[p].t < acct.rotatedAt + Refresh,
         pc'[p] # "idle" => now <= call'[p].t + MaxStall
  PROVE  KeysLeft'
<1>0. /\ \A q \in Procs : Flying(q)' => q # p /\ Flying(q) /\ call'[q] = call[q] /\ pc'[q] = pc[q]
      /\ \A q \in Procs : Rested(q)' => q # p /\ Rested(q) /\ call'[q] = call[q] /\ pc'[q] = pc[q]
  BY DEF Others, Flying, Rested
<1>1. Timely'
  BY DEF Timely, Others, KeysInv
<1>2. Generated'
  BY DEF Generated, SameKeys, KeysInv
<1>3. Owned'
  BY <1>0 DEF Owned, KeptSince, SameKeys, KeysInv
<1>4. Rotated'
  BY <1>0 DEF Rotated, SameKeys, KeysInv, Others
<1>5. Served'
  BY <1>0 DEF Served, Young, SameKeys, KeysInv
<1>6. Numbered'
  BY DEF Numbered, SameKeys, KeysInv, Others
<1>7. Lasting'
  BY <1>0 DEF Lasting, Remembered, KeptSince, SameKeys, KeysInv
<1> QED
  BY <1>1, <1>2, <1>3, <1>4, <1>5, <1>6, <1>7 DEF KeysLeft

(* The server takes an upload: the new key is its caller's, parked since   *)
(* the call began, and the key it replaces is remembered.                  *)
LEMMA AcceptKeeps ==
  ASSUME KeysInv, Numbers, Numbers', NEW p \in Procs, pc[p] = "upload", Accept(p), Others(p),
         UNCHANGED <<now, acct>>,
         pc'[p] = "idle" \/ (pc'[p] = "activate" /\ call'[p] = call[p])
  PROVE  KeysLeft'
<1>0. /\ \A q \in Procs : Flying(q)' => Flying(q) /\ call'[q] = call[q]
      /\ \A q \in Procs : Rested(q)' => Rested(q) /\ call'[q] = call[q]
      /\ \A q \in Procs : pc'[q] # "idle" => pc[q] # "idle" /\ call'[q] = call[q]
      /\ \A q \in Procs : pc'[q] = "activate" => q = p \/ pc[q] = "activate"
      /\ \A q \in Procs : pc'[q] = "stamp" => pc[q] = "stamp"
      /\ \A q \in Procs : pc'[q] = "upload" => pc[q] = "upload"
  BY DEF Others, Flying, Rested
<1>1. Timely'
  BY <1>0 DEF Timely, KeysInv
<1>2. ASSUME call[p].key = 0
      PROVE  Generated' /\ Owned' /\ Rotated' /\ Served' /\ Lasting'
  <2>1. server'.key = server.key /\ replaced' = replaced
    BY <1>2 DEF Accept
  <2>2. Generated' /\ Owned' /\ Rotated'
    BY <1>0, <2>1 DEF Generated, Owned, Rotated, KeptSince, KeysInv
  <2>3. \A q \in Procs : pc'[q] = "activate" /\ Flying(q)' => pc[q] = "activate" /\ Flying(q)
    BY <1>0, <1>2 DEF Flying
  <2>4. Served'
    BY <1>0, <2>1, <2>3 DEF Served, Young, KeysInv
  <2>5. Lasting'
    BY <1>0, <2>1 DEF Lasting, Remembered, KeptSince, KeysInv
  <2> QED
    BY <2>2, <2>4, <2>5
<1>3. ASSUME call[p].key # 0
      PROVE  Generated' /\ Owned' /\ Rotated' /\ Served' /\ Lasting'
  <2>1. /\ server'.key = call[p].key
        /\ replaced' = [replaced EXCEPT ![server.key] =
                          [at |-> now, active |-> acct.active = server.key]]
        /\ Flying(p)
    BY <1>3 DEF Accept, Flying
  <2>2. PICK e \in acct.pool : e.id = call[p].key /\ e.at >= call[p].t
    BY <2>1 DEF KeysInv, Owned, KeptSince
  <2>3. \A k \in Ids : k # server.key => replaced'[k] = replaced[k]
    BY <2>1 DEF KeysInv, Types, RecordsOK
  <2>4. /\ replaced'[server.key].at = now
        /\ replaced'[server.key].active => acct.active = server.key
    BY <2>1 DEF KeysInv, Types, RecordsOK, Numbers
  <2>5. Generated'
    BY <2>1, <2>3, <2>4 DEF Generated, Owned, KeysInv
  <2>6. Owned' /\ Rotated'
    BY <1>0 DEF Owned, Rotated, KeptSince, KeysInv
  <2>7. now <= e.at + MaxStall
    BY <2>2, ConstantsNumbers DEF KeysInv, Timely, Numbers
  <2>8. Young(e)'
    BY <1>0, <2>7, ConstantsNumbers, MaintenanceAssumption DEF Young, Numbers
  <2>9. Served'
    BY <2>1, <2>2, <2>8 DEF Served
  <2>10. ASSUME NEW k \in Ids, replaced'[k].at >= 0, replaced'[k].active
         PROVE  Remembered(k)' /\ \A q \in Procs : Flying(q)' => call'[q].key # k
    <3>1. CASE k # server.key
      BY <1>0, <2>3, <2>10, <3>1 DEF Lasting, Remembered, KeptSince, KeysInv
    <3>2. CASE k = server.key
      BY <1>0, <2>4, <2>10, <3>2 DEF Owned, Remembered, KeysInv
    <3> QED
      BY <3>1, <3>2
  <2> QED
    BY <2>5, <2>6, <2>9, <2>10 DEF Lasting
<1>4. Numbered'
  <2>1. \A b \in server'.batches : b \in server.batches \/ b = call[p].batch
    BY AcceptTypes DEF KeysInv, Types
  <2> QED
    BY <1>0, <2>1 DEF Numbered, KeysInv
<1> QED
  BY <1>1, <1>2, <1>3, <1>4 DEF KeysLeft

(* Phase 1: what Generate leaves, with a new key parked or with a rotation *)
(* that is recent.                                                         *)
LEMMA GenerateKeeps ==
  ASSUME KeysInv, Numbers, Numbers', NEW p \in Procs, Generate(p)
  PROVE  KeysLeft'
<1> DEFINE c == call[p]
           rotates == RotationNeeded(c)
           tops == TopUpNeeded(c)
           key == IF rotates THEN acct.nextId ELSE 0
           batch == IF tops THEN acct.nextBatch ELSE 0
<1>0. /\ acct' = [acct EXCEPT !.pool = Parked(c),
                              !.nextId = IF rotates THEN @ + 1 ELSE @,
                              !.nextBatch = IF tops THEN @ + 1 ELSE @]
      /\ UNCHANGED <<now, server, replaced>>
      /\ pc[p] = "generate"
  BY DEF Generate
<1>a. acct \in Accts /\ c \in Calls /\ call \in [Procs -> Calls]
      /\ pc \in [Procs -> {"idle", "count", "generate", "upload", "activate", "stamp"}]
  BY DEF KeysInv, Types, RecordsOK
<1>1. /\ acct'.active = acct.active /\ acct'.rotatedAt = acct.rotatedAt
      /\ acct'.pool = Parked(c)
      /\ acct'.nextId = IF rotates THEN acct.nextId + 1 ELSE acct.nextId
      /\ acct'.nextBatch = IF tops THEN acct.nextBatch + 1 ELSE acct.nextBatch
  BY <1>0, <1>a DEF Accts
<1>2. /\ rotates => acct'.pool = acct.pool \union {[id |-> acct.nextId, at |-> c.t]}
      /\ ~rotates => acct'.pool = acct.pool /\ c.t < acct.rotatedAt + Refresh
  BY <1>1, ConstantsNumbers DEF Parked, RotationNeeded, Numbers
<1>3. acct.pool \subseteq acct'.pool /\ acct'.nextId >= acct.nextId
      /\ acct'.nextBatch >= acct.nextBatch
  BY <1>1, <1>2 DEF Numbers
<1>4. CASE rotates \/ tops
  <2>1. /\ pc' = [pc EXCEPT ![p] = "upload"]
        /\ call' = [call EXCEPT ![p].key = key, ![p].batch = batch]
    BY <1>4 DEF Generate
  <2> HIDE DEF key, batch
  <2>2. /\ pc'[p] = "upload" /\ call'[p].key = key /\ call'[p].batch = batch
        /\ call'[p].t = c.t /\ Others(p)
    BY <1>a, <2>1 DEF Calls, Others
  <2>3. /\ \A q \in Procs : q # p => (Flying(q)' <=> Flying(q)) /\ (Rested(q)' <=> Rested(q))
        /\ \A q \in Procs : q # p => pc'[q] = pc[q] /\ call'[q] = call[q]
    BY <2>2 DEF Others, Flying, Rested
  <2>4. /\ Flying(p)' => rotates /\ call'[p].key = acct.nextId
        /\ Rested(p)' => ~rotates
    BY <2>2 DEF Flying, Rested, key, Numbers, KeysInv, Generated, Types, RecordsOK, Accts
  <2>5. Timely'
    BY <1>0, <2>2, <2>3 DEF Timely, KeysInv
  <2>6. Generated'
    BY <1>0, <1>1, <1>3 DEF Generated, KeysInv, Numbers
  <2>7. Owned'
    <3>1. ASSUME NEW q \in Procs, Flying(q)'
          PROVE  /\ call'[q].key < acct'.nextId /\ call'[q].key # acct'.active
                 /\ KeptSince(call[q].key, call[q].t)'
      <4>1. CASE q = p
        <5>1. rotates /\ call'[q].key = acct.nextId /\ call'[q].t = c.t
          BY <2>2, <2>4, <3>1, <4>1
        <5>2. [id |-> acct.nextId, at |-> c.t] \in acct'.pool
          BY <1>2, <5>1
        <5>3. KeptSince(call[q].key, call[q].t)'
          BY <5>1, <5>2 DEF KeptSince, Numbers
        <5> QED
          BY <1>1, <5>1, <5>3 DEF KeysInv, Generated, Numbers
      <4>2. CASE q # p
        BY <1>1, <1>3, <2>3, <3>1, <4>2 DEF Owned, KeptSince, KeysInv, Numbers
      <4> QED
        BY <4>1, <4>2
    <3>2. \A q, r \in Procs : q # r /\ Flying(q)' /\ Flying(r)' => call'[q].key # call'[r].key
      BY <2>3, <2>4 DEF Owned, KeysInv, Numbers
    <3> QED
      BY <3>1, <3>2 DEF Owned
  <2>8. Rotated'
    BY <1>1, <1>2, <2>2, <2>3, <2>4 DEF Rotated, KeysInv
  <2>9. Served'
    <3>1. CASE server.key = acct.active
      BY <1>0, <1>1, <3>1 DEF Served
    <3>2. CASE server.key # acct.active
      <4>1. PICK e \in acct.pool : e.id = server.key /\ Young(e)
        BY <3>2 DEF KeysInv, Served
      <4>2. ~rotates => c.t < e.at + Refresh + MaxStall
        BY <1>2, <4>1, ConstantsNumbers DEF Young, Numbers
      <4>3. Young(e)'
        BY <1>1, <2>2, <2>3, <2>4, <4>1, <4>2 DEF Young
      <4> QED
        BY <1>0, <1>3, <4>1, <4>3 DEF Served
    <3> QED
      BY <3>1, <3>2
  <2>10. Numbered'
    <3>1. batch < acct'.nextBatch
      BY <1>1 DEF batch, Numbers, KeysInv, Types, RecordsOK, Accts
    <3> QED
      BY <1>0, <1>3, <2>2, <2>3, <3>1 DEF Numbered, KeysInv, Numbers
  <2>11. Lasting'
    BY <1>0, <1>1, <1>3, <2>3, <2>4 DEF Lasting, Remembered, KeptSince, KeysInv, Generated, Numbers
  <2> QED
    BY <2>5, <2>6, <2>7, <2>8, <2>9, <2>10, <2>11 DEF KeysLeft
<1>5. CASE ~(rotates \/ tops)
  <2>1. Return(p)
    BY <1>5 DEF Generate
  <2>2. SameKeys
    BY <1>1, <1>2, <1>5 DEF SameKeys
  <2>3. /\ Others(p)
        /\ \/ pc'[p] = "idle"
           \/ pc'[p] = "stamp" /\ call'[p] = call[p]
    BY <2>1, ReturnTypes DEF KeysInv, Types, Numbers, Others
  <2> QED
    BY <1>0, <1>2, <1>5, <2>2, <2>3, QuietKeeps DEF KeysInv, Timely
<1> QED
  BY <1>4, <1>5

(* Phase 2 without a new key: only the clean-up touches the pool, and it   *)
(* drops nothing that is served, in flight or still to be remembered.      *)
LEMMA CleanKeeps ==
  ASSUME KeysInv, Numbers, NEW p \in Procs, pc[p] = "activate",
         NEW e \in acct.pool,
         \/ Young(e)
         \/ now <= e.at + Archive
  PROVE  call[p].t - e.at <= Archive
<1>1. now <= call[p].t + MaxStall /\ call[p].t <= now
  BY DEF KeysInv, Timely, Numbers
<1>2. CASE Young(e)
  <2>1. Flying(p) \/ Rested(p)
    BY DEF Flying, Rested
  <2>2. \/ call[p].t <= e.at + MaxStall
        \/ call[p].t < e.at + Refresh + MaxStall
    BY <1>2, <2>1 DEF Young
  <2> QED
    BY <2>2, MaintenanceAssumption DEF Numbers
<1>3. CASE now <= e.at + Archive
  BY <1>1, <1>3, ConstantsNumbers DEF Numbers
<1> QED
  BY <1>2, <1>3

(* Phase 2: the key becomes the active one, and the one it replaces is     *)
(* archived.                                                               *)
LEMMA ActivateKeeps ==
  ASSUME KeysInv, Numbers, Numbers', NEW p \in Procs, Activate(p)
  PROVE  KeysLeft'
<1> DEFINE c == call[p]
           old == [id |-> acct.active, at |-> c.t]
<1>0. /\ pc[p] = "activate" /\ Return(p) /\ UNCHANGED <<now, server, replaced>>
      /\ acct' = IF c.key = 0
                 THEN [acct EXCEPT !.pool = Clean(acct.pool, c.t)]
                 ELSE [acct EXCEPT !.active = c.key, !.rotatedAt = c.t,
                                   !.pool = Clean(Archived(c), c.t)]
  BY DEF Activate
<1>1. /\ Others(p)
      /\ pc'[p] = "idle" \/ (pc'[p] = "stamp" /\ call'[p] = call[p])
  BY <1>0, ReturnTypes DEF KeysInv, Types, Numbers, Others
<1>a. acct \in Accts
  BY DEF KeysInv, Types, RecordsOK
<1>2. /\ acct'.nextId = acct.nextId /\ acct'.nextBatch = acct.nextBatch
      /\ c.key = 0 => /\ acct'.active = acct.active /\ acct'.rotatedAt = acct.rotatedAt
                      /\ acct'.pool = Clean(acct.pool, c.t)
      /\ c.key # 0 => /\ acct'.active = c.key /\ acct'.rotatedAt = c.t
                      /\ acct'.pool = Clean(Archived(c), c.t)
  BY <1>0, <1>a DEF Accts
<1>3. /\ \A q \in Procs : Flying(q)' => q # p /\ Flying(q) /\ call'[q] = call[q] /\ pc'[q] = pc[q]
      /\ \A q \in Procs : Rested(q)' => q # p /\ Rested(q) /\ call'[q] = call[q] /\ pc'[q] = pc[q]
      /\ \A q \in Procs : q # p => pc'[q] = pc[q] /\ call'[q] = call[q]
      /\ \A q \in Procs : pc'[q] # "idle" => pc[q] # "idle" /\ call'[q] = call[q]
  BY <1>0, <1>1 DEF Others, Flying, Rested
<1>4. \A q \in Procs : pc[q] # "idle" => now <= call[q].t + MaxStall
  BY DEF KeysInv, Timely
<1>5. now <= c.t + MaxStall /\ c.t <= now
  BY <1>0, <1>4 DEF Numbers
<1>b. now \in Nat /\ c.t \in Nat
  BY DEF Numbers
<1>c. PICK archived : archived = old
  OBVIOUS
<1>6. c.key # 0 => Flying(p) /\ c.key # acct.active /\ c.key < acct.nextId
  BY <1>0 DEF Flying, KeysInv, Owned
<1>7. ASSUME NEW e \in acct.pool, e.id # c.key, Young(e) \/ now <= e.at + Archive
      PROVE  e \in acct'.pool
  <2>1. c.t - e.at <= Archive
    BY <1>0, <1>7, CleanKeeps
  <2> QED
    BY <1>2, <1>7, <2>1 DEF Clean, Archived
<1>8. c.key # 0 => old \in acct'.pool
  <2>1. ASSUME c.key # 0 PROVE old \in Archived(c)
    BY <1>6, <2>1 DEF Archived
  <2>2. c.t - old.at <= Archive
    BY ConstantsNumbers DEF Numbers
  <2> QED
    BY <1>2, <2>1, <2>2 DEF Clean
<1>9. 0 \notin {e.id : e \in acct.pool}
  BY <1>a DEF Accts, Entries, Ids
<1>10. Timely'
  BY <1>0, <1>3 DEF Timely, KeysInv
<1>11. Generated'
  BY <1>0, <1>2, <1>6 DEF Generated, KeysInv
<1>12. Owned'
  <2>1. ASSUME NEW q \in Procs, Flying(q)'
        PROVE  /\ call'[q].key < acct'.nextId /\ call'[q].key # acct'.active
               /\ KeptSince(call[q].key, call[q].t)'
    <3>1. q # p /\ Flying(q) /\ call'[q] = call[q] /\ pc[q] # "idle"
      BY <1>3, <2>1 DEF Flying
    <3>2. call[q].key # c.key
      BY <1>6, <3>1 DEF KeysInv, Owned, Flying
    <3>3. PICK e \in acct.pool : e.id = call[q].key /\ e.at >= call[q].t
      BY <3>1 DEF KeysInv, Owned, KeptSince
    <3>4. now <= e.at + Archive
      BY <1>4, <3>1, <3>3, MaintenanceAssumption DEF Numbers
    <3>5. e \in acct'.pool
      BY <1>7, <3>2, <3>3, <3>4
    <3> QED
      BY <1>2, <3>1, <3>2, <3>3, <3>5 DEF KeptSince, KeysInv, Owned
  <2>2. \A q, r \in Procs : q # r /\ Flying(q)' /\ Flying(r)' => call'[q].key # call'[r].key
    BY <1>3 DEF KeysInv, Owned
  <2> QED
    BY <2>1, <2>2 DEF Owned
<1>13. Rotated'
  <2>1. ASSUME NEW q \in Procs, pc'[q] = "stamp" \/ Rested(q)'
        PROVE  call'[q].t < acct'.rotatedAt + Refresh
    <3>1. call'[q] = call[q]
      BY <1>3, <2>1 DEF Rested
    <3>2. CASE c.key # 0
      <4>1. call[q].t <= now
        BY DEF Numbers
      <4> QED
        BY <1>2, <1>5, <3>1, <3>2, <4>1, MaintenanceAssumption DEF Numbers
    <3>3. CASE c.key = 0
      <4>1. pc[q] = "stamp" \/ Rested(q)
        BY <1>0, <1>3, <2>1, <3>3 DEF Rested
      <4> QED
        BY <1>2, <3>1, <3>3, <4>1 DEF KeysInv, Rotated
    <3> QED
      BY <3>2, <3>3
  <2> QED
    BY <2>1 DEF Rotated
<1>14. Served'
  <2>1. CASE c.key = 0 /\ server.key = acct.active
    BY <1>0, <1>2, <2>1 DEF Served
  <2>2. CASE c.key # 0 /\ server.key = c.key
    BY <1>0, <1>2, <2>2 DEF Served
  <2>3. CASE c.key # 0 /\ server.key = acct.active
    <3>1. archived.id = acct.active /\ archived.at = c.t /\ archived \in acct'.pool
      BY <1>8, <1>c, <2>3
    <3>2. acct'.rotatedAt <= archived.at + MaxStall
      BY <1>2, <1>b, <2>3, <3>1, ConstantsNumbers
    <3>3. ASSUME NEW q \in Procs, Flying(q)' \/ Rested(q)'
          PROVE  /\ call'[q].t <= archived.at + MaxStall
                 /\ call'[q].t < archived.at + Refresh + MaxStall
      <4>1. call'[q].t \in Nat /\ call'[q].t <= now
        BY <1>0 DEF Numbers
      <4> QED
        BY <1>5, <1>b, <3>1, <4>1, MaintenanceAssumption
    <3>4. Young(archived)'
      BY <3>2, <3>3 DEF Young
    <3> QED
      BY <1>0, <2>3, <3>1, <3>4 DEF Served
  <2>4. CASE server.key # acct.active /\ server.key # c.key
    <3>1. PICK e \in acct.pool : e.id = server.key /\ Young(e)
      BY <2>4 DEF KeysInv, Served
    <3>2. e \in acct'.pool
      BY <1>7, <2>4, <3>1
    <3>3. acct'.rotatedAt <= e.at + MaxStall
      BY <1>0, <1>2, <1>6, <3>1 DEF Young
    <3>4. Young(e)'
      BY <1>3, <3>1, <3>3 DEF Young
    <3> QED
      BY <1>0, <3>1, <3>2, <3>4 DEF Served
  <2>5. c.key = 0 => server.key # c.key
    BY DEF KeysInv, Types, RecordsOK, Ids
  <2> QED
    BY <2>1, <2>2, <2>3, <2>4, <2>5
<1>15. Numbered'
  BY <1>0, <1>1, <1>2, <1>3 DEF Numbered, KeysInv
<1>16. Lasting'
  <2>1. ASSUME NEW k \in Ids, replaced[k].at >= 0, replaced[k].active
        PROVE  Remembered(k)' /\ \A q \in Procs : Flying(q)' => call'[q].key # k
    <3>1. /\ Remembered(k)
          /\ \A q \in Procs : Flying(q) => call[q].key # k
          /\ replaced[k].at \in Int /\ replaced[k].at <= now
      <4>1. replaced[k].at \in Int /\ replaced[k].at <= now
        BY DEF Numbers
      <4>2. Remembered(k) /\ \A q \in Procs : Flying(q) => call[q].key # k
        BY <2>1 DEF KeysInv, Lasting
      <4> QED
        BY <4>1, <4>2
    <3>2. ASSUME now + MaxStall > replaced[k].at + Archive PROVE Remembered(k)'
      BY <1>0, <3>2 DEF Remembered
    <3>3. ASSUME acct.active = k PROVE Remembered(k)'
      <4>1. c.key = 0 => Remembered(k)'
        BY <1>2, <3>3 DEF Remembered
      <4>2. c.t >= replaced[k].at - MaxStall
        BY <1>5, <1>b, <3>1, ConstantsNumbers
      <4>3. c.key # 0 => Remembered(k)'
        BY <1>0, <1>8, <3>3, <4>2 DEF Remembered, KeptSince
      <4> QED
        BY <4>1, <4>3
    <3>4. ASSUME KeptSince(k, replaced[k].at - MaxStall),
                 ~(now + MaxStall > replaced[k].at + Archive)
          PROVE  Remembered(k)'
      <4>1. PICK e \in acct.pool : e.id = k /\ e.at >= replaced[k].at - MaxStall
        BY <3>4 DEF KeptSince
      <4>2. now <= e.at + Archive
        <5>1. e.at \in Nat
          BY DEF Numbers
        <5> QED
          BY <1>b, <3>1, <3>4, <4>1, <5>1, ConstantsNumbers
      <4>3. k # c.key
        BY <1>6, <1>9, <3>1, <4>1
      <4>4. e \in acct'.pool
        BY <1>7, <4>1, <4>2, <4>3
      <4> QED
        BY <1>0, <4>1, <4>4 DEF Remembered, KeptSince
    <3>5. Remembered(k)'
      BY <3>1, <3>2, <3>3, <3>4 DEF Remembered
    <3> QED
      BY <1>3, <3>1, <3>5
  <2> QED
    BY <1>0, <2>1 DEF Lasting
<1> QED
  BY <1>10, <1>11, <1>12, <1>13, <1>14, <1>15, <1>16 DEF KeysLeft

(* A new account: nothing in flight, and its key is on the server.         *)
LEMMA KeysInit == Init => KeysInv
<1> SUFFICES ASSUME Init PROVE KeysInv
  OBVIOUS
<1>1. \A p \in Procs : pc[p] = "idle" /\ ~Flying(p) /\ ~Rested(p)
  BY DEF Init, Flying, Rested
<1>2. \A k \in Ids : replaced[k].at = -1
  BY DEF Init
<1>3. acct.active = 1 /\ acct.nextId = 2 /\ server.key = 1 /\ server.batches = {}
  BY DEF Init
<1>4. Timely /\ Owned /\ Rotated /\ Numbered
  BY <1>1, <1>3 DEF Timely, Owned, Rotated, Numbered
<1>5. Generated /\ Lasting
  BY <1>2, <1>3 DEF Generated, Lasting
<1>6. Served
  BY <1>3 DEF Served
<1> QED
  BY <1>4, <1>5, <1>6, TypesInit DEF KeysInv

(* The clock waits for a call that has had its time; what it may clean     *)
(* next was due.                                                           *)
LEMMA TickKeeps ==
  ASSUME KeysInv, Numbers, Numbers', Tick
  PROVE  KeysLeft'
<1>1. /\ now' = now + 1 /\ UNCHANGED <<acct, server, pc, call, replaced>>
      /\ \A p \in Procs : pc[p] # "idle" => now < call[p].t + MaxStall
  BY DEF Tick
<1>2. Timely'
  BY <1>1, ConstantsNumbers DEF Timely, Numbers
<1>3. Generated' /\ Owned' /\ Rotated' /\ Served' /\ Numbered'
  BY <1>1 DEF KeysInv, Generated, Owned, Rotated, Served, Young, Numbered, Flying, Rested,
              KeptSince
<1>4. \A k \in Ids : Remembered(k) => Remembered(k)'
  BY <1>1, ConstantsNumbers DEF Remembered, KeptSince, Numbers
<1>5. Lasting'
  BY <1>1, <1>4 DEF KeysInv, Lasting, Flying
<1> QED
  BY <1>2, <1>3, <1>5 DEF KeysLeft

LEMMA ConsumeKeeps ==
  ASSUME KeysInv, Consume
  PROVE  KeysLeft'
<1>1. /\ server'.key = server.key /\ server'.batches = {}
      /\ UNCHANGED <<now, acct, pc, call, replaced>>
  BY DEF Consume, KeysInv, Types, RecordsOK
<1> QED
  BY <1>1 DEF KeysInv, KeysLeft, Timely, Generated, Owned, Rotated, Served, Young, Numbered,
              Lasting, Remembered, Flying, Rested, KeptSince

(* A call that begins or ends, an answer counted, an account stamped.      *)
LEMMA CallsKeep ==
  ASSUME KeysInv, Numbers, Numbers', NEW p \in Procs,
         \/ \E by \in Callers, force \in BOOLEAN : Begin(p, by, force)
         \/ Count(p) \/ Stamp(p) \/ Abandon(p)
  PROVE  KeysLeft'
<1>0. /\ call \in [Procs -> Calls] /\ acct \in Accts /\ now \in Nat
      /\ pc \in [Procs -> {"idle", "count", "generate", "upload", "activate", "stamp"}]
  BY DEF KeysInv, Types, RecordsOK, Numbers
<1>1. ASSUME NEW by \in Callers, NEW force \in BOOLEAN, Begin(p, by, force)
      PROVE  KeysLeft'
  <2>1. /\ pc'[p] = "count" /\ call'[p].t = now /\ Others(p)
        /\ UNCHANGED <<now, acct, server, replaced>>
    BY <1>0, <1>1 DEF Begin, Goto, NoCall, Others
  <2> QED
    BY <1>0, <2>1, QuietKeeps, ConstantsNumbers DEF SameKeys
<1>2. CASE Count(p)
  <2>1. /\ pc[p] = "count" /\ pc'[p] = "generate" /\ call'[p].t = call[p].t /\ Others(p)
        /\ UNCHANGED <<now, acct, server, replaced>>
    BY <1>0, <1>2, CountTypes DEF Count, Goto, Others, KeysInv, Types
  <2>2. now <= call'[p].t + MaxStall
    BY <2>1 DEF KeysInv, Timely
  <2> QED
    BY <2>1, <2>2, QuietKeeps DEF SameKeys
<1>3. CASE Stamp(p)
  <2>1. /\ pc'[p] = "idle" /\ Others(p) /\ UNCHANGED <<now, server, replaced>>
        /\ acct' = [acct EXCEPT !.stamp = call[p].t]
    BY <1>0, <1>3 DEF Stamp, Leave, Others
  <2>2. SameKeys
    BY <1>0, <2>1 DEF SameKeys, Accts
  <2> QED
    BY <2>1, <2>2, QuietKeeps
<1>4. CASE Abandon(p)
  <2>1. pc'[p] = "idle" /\ Others(p) /\ UNCHANGED <<now, acct, server, replaced>>
    BY <1>0, <1>4 DEF Abandon, Leave, Others
  <2> QED
    BY <2>1, QuietKeeps DEF SameKeys
<1> QED
  BY <1>1, <1>2, <1>3, <1>4

(* The invariant is inductive, whatever refreshes overlap.                 *)
LEMMA KeysStep == KeysInv /\ [Next]_vars => KeysInv'
<1> SUFFICES ASSUME KeysInv, [Next]_vars PROVE KeysLeft'
  BY TypesStep DEF KeysInv, KeysLeft
<1>0. Numbers /\ Numbers'
  BY NextNumbers DEF KeysInv
<1>1. CASE UNCHANGED vars
  BY <1>1 DEF vars, KeysInv, KeysLeft, Timely, Generated, Owned, Rotated, Served, Young,
              Numbered, Lasting, Remembered, Flying, Rested, KeptSince
<1>2. ASSUME NEW p \in Procs, \/ \E by \in Callers, force \in BOOLEAN : Begin(p, by, force)
                              \/ Count(p) \/ Stamp(p) \/ Abandon(p)
      PROVE  KeysLeft'
  BY <1>0, <1>2, CallsKeep
<1>3. ASSUME NEW p \in Procs, Generate(p) PROVE KeysLeft'
  BY <1>0, <1>3, GenerateKeeps
<1>4. ASSUME NEW p \in Procs, Upload(p) PROVE KeysLeft'
  <2>1. pc[p] = "upload" /\ Accept(p) /\ UNCHANGED <<now, acct, call>>
        /\ pc' = [pc EXCEPT ![p] = "activate"]
    BY <1>4 DEF Upload, Goto
  <2>2. Others(p) /\ pc'[p] = "activate" /\ call'[p] = call[p]
    BY <2>1 DEF Others, KeysInv, Types, RecordsOK
  <2> QED
    BY <1>0, <2>1, <2>2, AcceptKeeps
<1>5. ASSUME NEW p \in Procs, AnswerLost(p) PROVE KeysLeft'
  <2>1. pc[p] = "upload" /\ Accept(p) /\ UNCHANGED <<now, acct>> /\ Leave(p)
    BY <1>5 DEF AnswerLost
  <2>2. Others(p) /\ pc'[p] = "idle"
    BY <2>1 DEF Leave, Others, KeysInv, Types, RecordsOK
  <2> QED
    BY <1>0, <2>1, <2>2, AcceptKeeps
<1>6. ASSUME NEW p \in Procs, Activate(p) PROVE KeysLeft'
  BY <1>0, <1>6, ActivateKeeps
<1>7. CASE Consume
  BY <1>7, ConsumeKeeps
<1>8. CASE Tick
  BY <1>0, <1>8, TickKeeps
<1> QED
  BY <1>1, <1>2, <1>3, <1>4, <1>5, <1>6, <1>7, <1>8 DEF Next, Step

(* What the server offers, and what is about to be offered, is held.       *)
LEMMA KeysImplyHeld == KeysInv => ServerKeysHeld
<1> SUFFICES ASSUME KeysInv PROVE ServerKeysHeld
  OBVIOUS
<1>1. Held(server.key)
  BY DEF KeysInv, Served, Held
<1>2. \A b \in server.batches : b < acct.nextBatch
  BY DEF KeysInv, Numbered
<1>3. \A p \in Procs : pc[p] \in {"upload", "activate"} /\ call[p].key # 0 => Held(call[p].key)
  BY DEF KeysInv, Owned, Flying, KeptSince, Held
<1> QED
  BY <1>1, <1>2, <1>3 DEF ServerKeysHeld

LEMMA KeysImplyLast == KeysInv => ActiveKeysLast
<1> SUFFICES ASSUME KeysInv, NEW k \in Ids, replaced[k].at >= 0, replaced[k].active,
                    now + MaxStall <= replaced[k].at + Archive
             PROVE  Held(k)
  BY DEF ActiveKeysLast, Kept
<1>1. Numbers /\ Remembered(k)
  BY TypesNumbers DEF KeysInv, Lasting
<1>2. ~(now + MaxStall > replaced[k].at + Archive)
  BY <1>1, ConstantsNumbers DEF Numbers
<1> QED
  BY <1>1, <1>2 DEF Remembered, KeptSince, Held

(* Whatever the server offers to peers, or is about to be offered, the     *)
(* account can decrypt with, however many refreshes overlap, fail or lose  *)
(* their answer (refresh_prekeys, _clean_archived).                        *)
THEOREM ServedIsHeld == Spec => []ServerKeysHeld
  BY KeysInit, KeysStep, KeysImplyHeld, PTL DEF Spec

(* A key that was active when the server replaced it decrypts late         *)
(* messages for the archive age less the duration of a refresh             *)
(* (_clean_archived, ARCHIVE_AGE_MS).                                      *)
THEOREM ReplacedActiveKeysLast == Spec => []ActiveKeysLast
  BY KeysInit, KeysStep, KeysImplyLast, PTL DEF Spec

(* The stamp is never an interval later than the last rotation.            *)
LEMMA StampInit == Init => StampHonest
  BY MaintenanceAssumption DEF Init, StampHonest

LEMMA StampStep == KeysInv /\ StampHonest /\ [Next]_vars => StampHonest'
<1> SUFFICES ASSUME KeysInv, StampHonest, [Next]_vars PROVE StampHonest'
  OBVIOUS
<1>0. acct \in Accts /\ Numbers
  BY TypesNumbers DEF KeysInv, Types, RecordsOK
<1>a. acct.stamp \in Nat /\ acct.stamp <= now
  BY <1>0 DEF Accts, KeysInv, Types, PastOK
<1>2. ASSUME NEW p \in Procs, Activate(p) PROVE StampHonest'
  <2>1. /\ acct'.stamp = acct.stamp
        /\ acct'.rotatedAt = IF call[p].key = 0 THEN acct.rotatedAt ELSE call[p].t
    BY <1>0, <1>2 DEF Activate, Accts
  <2>2. now <= call[p].t + MaxStall
    BY <1>2 DEF Activate, KeysInv, Timely
  <2> QED
    BY <1>0, <1>a, <2>1, <2>2, MaintenanceAssumption DEF StampHonest, Numbers
<1>3. ASSUME NEW p \in Procs, Stamp(p) PROVE StampHonest'
  <2>1. acct'.stamp = call[p].t /\ acct'.rotatedAt = acct.rotatedAt
    BY <1>0, <1>3 DEF Stamp, Accts
  <2>2. call[p].t < acct.rotatedAt + Refresh
    BY <1>3 DEF Stamp, KeysInv, Rotated
  <2> QED
    BY <1>0, <2>1, <2>2, ConstantsNumbers DEF StampHonest, Numbers
<1>4. ASSUME NEW p \in Procs, Generate(p) PROVE StampHonest'
  <2>1. acct'.stamp = acct.stamp /\ acct'.rotatedAt = acct.rotatedAt
    BY <1>0, <1>4 DEF Generate, Accts
  <2> QED
    BY <2>1 DEF StampHonest
<1>5. CASE UNCHANGED acct
  BY <1>5 DEF StampHonest
<1> QED
  BY <1>2, <1>3, <1>4, <1>5 DEF Next, Step, vars, Begin, Count, Upload, AnswerLost, Abandon,
                               Consume, Tick

(* Once upkeep is stamped as done, the rotation is not overdue             *)
(* (maintain_if_due).                                                      *)
THEOREM StampIsHonest == Spec => []StampHonest
  BY KeysInit, KeysStep, StampInit, StampStep, PTL DEF Spec
==============================================================================
