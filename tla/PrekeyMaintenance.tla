-------------------------- MODULE PrekeyMaintenance --------------------------
(***************************************************************************)
(* The upkeep of a device's prekeys: native/maintenance.py, run by several *)
(* callers at once against one account file and one server.                *)
(*                                                                         *)
(* A refresh asks the server how many one-time prekeys are left, commits   *)
(* new private keys to the account, uploads their public halves outside    *)
(* the lock, and only when the server has answered makes the new signed    *)
(* prekey the active one.  Each block under the lock is one step, which is *)
(* what AccountStore shows of locked_account.                              *)
(*                                                                         *)
(* Data: the signed prekey and the last-resort Kyber prekey go through the *)
(* same steps and are one key here; a batch of one-time prekeys is one     *)
(* number; the server is low when it has no batch left.                    *)
(***************************************************************************)
EXTENDS Integers, FiniteSets

CONSTANTS Procs,       (* callers: daemons reconnecting, the command line  *)
          Refresh,     (* REFRESH_INTERVAL_MS                              *)
          Archive,     (* ARCHIVE_AGE_MS                                   *)
          MaxStall,    (* bound on how long a refresh takes                *)
          MaxTime,     (* bound on the clock                               *)
          MaxKeys,     (* bound on the signed prekeys generated            *)
          MaxBatches   (* bound on the batches generated                   *)

(* A refresh takes less than an interval, and replaced keys are kept for   *)
(* longer than that: two days, against thirty.                             *)
ASSUME MaintenanceAssumption ==
  /\ Refresh \in Nat \ {0} /\ MaxStall \in Nat /\ MaxStall < Refresh
  /\ Archive \in Nat /\ Archive + 1 >= Refresh + MaxStall
  /\ MaxTime \in Nat /\ MaxTime >= Refresh
  /\ MaxKeys \in Nat \ {0} /\ MaxBatches \in Nat

VARIABLES now,         (* the clock                                        *)
          acct,        (* the account file: active, rotatedAt, pool (the   *)
                       (* previousSignedPreKeys), nextId, nextBatch, stamp *)
          server,      (* the server: key, batches                         *)
          pc,          (* where each caller is                             *)
          call,        (* its locals: by, force, t (now_ms), low, key,     *)
                       (* batch; 0 stands for "none"                       *)
          replaced     (* history: [id -> when the server replaced it and  *)
                       (* whether it was the active key then], or -1       *)

vars == <<now, acct, server, pc, call, replaced>>

Ids == 1..MaxKeys
Callers == {"maintain", "refresh"}
NoCall == [by |-> "refresh", force |-> FALSE, t |-> 0, low |-> FALSE,
           key |-> 0, batch |-> 0]

(* A linked account: key 1 is active and on the server, and no rotation    *)
(* time is recorded.                                                       *)
Init ==
  /\ now = Refresh
  /\ acct = [active |-> 1, rotatedAt |-> 0, pool |-> {}, nextId |-> 2,
             nextBatch |-> 1, stamp |-> 0]
  /\ server = [key |-> 1, batches |-> {}]
  /\ pc = [p \in Procs |-> "idle"]
  /\ call = [p \in Procs |-> NoCall]
  /\ replaced = [k \in Ids |-> [at |-> -1, active |-> FALSE]]

Goto(p, from, to) == pc[p] = from /\ pc' = [pc EXCEPT ![p] = to]

Leave(p) == /\ pc' = [pc EXCEPT ![p] = "idle"]
            /\ call' = [call EXCEPT ![p] = NoCall]

(* Where a refresh that has nothing more to do returns to.                 *)
Return(p) == IF call[p].by = "maintain"
             THEN pc' = [pc EXCEPT ![p] = "stamp"] /\ UNCHANGED call
             ELSE Leave(p)

-----------------------------------------------------------------------------
(* maintain_if_due: nothing unless the last run is an interval ago.        *)
Due == ~(acct.stamp <= now /\ now - acct.stamp < Refresh)

\* Mutant: the account is stamped before the refresh.
BeginStamped(p, by, force) ==
  /\ Goto(p, "idle", "count")
  /\ by = "maintain" => Due /\ ~force
  /\ call' = [call EXCEPT ![p] = [NoCall EXCEPT !.by = by, !.force = force,
                                                !.t = now]]
  /\ acct' = [acct EXCEPT !.stamp = IF by = "maintain" THEN now ELSE @]
  /\ UNCHANGED <<now, server, replaced>>

Begin(p, by, force) ==
  /\ Goto(p, "idle", "count")
  /\ by = "maintain" => Due /\ ~force
  /\ call' = [call EXCEPT ![p] = [NoCall EXCEPT !.by = by, !.force = force,
                                                !.t = now]]
  /\ UNCHANGED <<now, acct, server, replaced>>

(* GET /v2/keys                                                            *)
Count(p) ==
  /\ Goto(p, "count", "generate")
  /\ call' = [call EXCEPT ![p].low = server.batches = {}]
  /\ UNCHANGED <<now, acct, server, replaced>>

(* Phase 1: generate what is needed and commit it, parked in the pool.     *)
TopUpNeeded(c) == c.force \/ c.low

RotationNeeded(c) ==
  LET age == c.t - acct.rotatedAt IN c.force \/ age >= Refresh \/ age < 0

\* Mutant: the new key is kept in memory until the server has it.
ParkedNowhere(c) == acct.pool

Parked(c) == IF RotationNeeded(c)
             THEN acct.pool \union {[id |-> acct.nextId, at |-> c.t]}
             ELSE acct.pool

Generate(p) ==
  LET c == call[p]
      rotates == RotationNeeded(c)
      tops == TopUpNeeded(c)
  IN /\ pc[p] = "generate"
     /\ rotates => acct.nextId <= MaxKeys
     /\ tops => acct.nextBatch <= MaxBatches
     /\ acct' = [acct EXCEPT
          !.pool = Parked(c),
          !.nextId = IF rotates THEN @ + 1 ELSE @,
          !.nextBatch = IF tops THEN @ + 1 ELSE @]
     /\ IF rotates \/ tops
        THEN /\ pc' = [pc EXCEPT ![p] = "upload"]
             /\ call' = [call EXCEPT
                  ![p].key = IF rotates THEN acct.nextId ELSE 0,
                  ![p].batch = IF tops THEN acct.nextBatch ELSE 0]
        ELSE Return(p)
     /\ UNCHANGED <<now, server, replaced>>

(* The server takes the upload.                                            *)
Accept(p) ==
  LET k == call[p].key
      b == call[p].batch
  IN /\ server' = [key |-> IF k = 0 THEN server.key ELSE k,
                   batches |-> IF b = 0 THEN server.batches
                               ELSE server.batches \union {b}]
     /\ replaced' = IF k = 0 THEN replaced
                    ELSE [replaced EXCEPT ![server.key] =
                            [at |-> now, active |-> acct.active = server.key]]

(* PUT /v2/keys, answered.                                                 *)
Upload(p) ==
  /\ Goto(p, "upload", "activate")
  /\ Accept(p)
  /\ UNCHANGED <<now, acct, call>>

(* PUT /v2/keys, accepted, but the answer is lost: the call raises.        *)
AnswerLost(p) ==
  /\ pc[p] = "upload"
  /\ Accept(p)
  /\ Leave(p)
  /\ UNCHANGED <<now, acct>>

\* Mutant: the age is counted from the rotation interval.
CleanEarly(pool, t) == {e \in pool : t - e.at < Refresh}

(* _clean_archived                                                         *)
Clean(pool, t) == {e \in pool : t - e.at <= Archive}

\* Mutant: the entry records when it expires.
ArchivedExpiry(c) ==
  LET old == IF acct.active = c.key THEN {}
             ELSE {[id |-> acct.active, at |-> c.t + Archive]}
  IN {e \in acct.pool \union old : e.id # c.key}

(* The pool once key c.key is active: the key it replaces is archived and  *)
(* its own placeholder removed.                                            *)
Archived(c) ==
  LET old == IF acct.active = c.key THEN {}
             ELSE {[id |-> acct.active, at |-> c.t]}
  IN {e \in acct.pool \union old : e.id # c.key}

(* Phase 2: the server accepted.                                           *)
Activate(p) ==
  LET c == call[p] IN
  /\ pc[p] = "activate"
  /\ acct' = IF c.key = 0
             THEN [acct EXCEPT !.pool = Clean(@, c.t)]
             ELSE [acct EXCEPT !.active = c.key, !.rotatedAt = c.t,
                               !.pool = Clean(Archived(c), c.t)]
  /\ Return(p)
  /\ UNCHANGED <<now, server, replaced>>

(* maintain_if_due stamps the account only after a refresh that worked.    *)
Stamp(p) ==
  /\ pc[p] = "stamp"
  /\ acct' = [acct EXCEPT !.stamp = call[p].t]
  /\ Leave(p)
  /\ UNCHANGED <<now, server, replaced>>

(* A call that fails, a server that rejects, a commit that fails, a kill.  *)
Abandon(p) ==
  /\ pc[p] # "idle"
  /\ Leave(p)
  /\ UNCHANGED <<now, acct, server, replaced>>

(* The peers use up the one-time prekeys.                                  *)
Consume ==
  /\ server.batches # {}
  /\ server' = [server EXCEPT !.batches = {}]
  /\ UNCHANGED <<now, acct, pc, call, replaced>>

Tick ==
  /\ now < MaxTime
  /\ \A p \in Procs : pc[p] # "idle" => now < call[p].t + MaxStall
  /\ now' = now + 1
  /\ UNCHANGED <<acct, server, pc, call, replaced>>

Step(p) ==
  \/ \E by \in Callers, force \in BOOLEAN : Begin(p, by, force)
  \/ Count(p) \/ Generate(p) \/ Upload(p) \/ AnswerLost(p) \/ Activate(p)
  \/ Stamp(p) \/ Abandon(p)

Next == (\E p \in Procs : Step(p)) \/ Consume \/ Tick

Spec == Init /\ [][Next]_vars

-----------------------------------------------------------------------------
(* Properties.                                                             *)

Held(k) == acct.active = k \/ \E e \in acct.pool : e.id = k

TypeOK ==
  /\ now \in 0..MaxTime
  /\ acct.active \in Ids /\ acct.rotatedAt \in 0..now /\ acct.stamp \in 0..now
  /\ acct.pool \subseteq [id : Ids, at : 0..now]
  /\ acct.nextId \in 2..(MaxKeys + 1) /\ acct.nextBatch \in 1..(MaxBatches + 1)
  /\ server.key \in Ids /\ server.batches \subseteq 1..MaxBatches
  /\ pc \in [Procs -> {"idle", "count", "generate", "upload", "activate",
                       "stamp"}]
  /\ \A p \in Procs : /\ call[p].t \in 0..now
                      /\ call[p].key \in Ids \union {0}
                      /\ call[p].batch \in 0..MaxBatches

(* Whatever the server offers to peers, or is about to be offered, the     *)
(* account can decrypt with: privates are committed before the upload, and *)
(* no clean-up of an overlapping refresh drops a key that is still served. *)
ServerKeysHeld ==
  /\ Held(server.key)
  /\ \A b \in server.batches : b < acct.nextBatch
  /\ \A p \in Procs : pc[p] \in {"upload", "activate"} /\ call[p].key # 0
                        => Held(call[p].key)

(* Once upkeep is stamped as done, rotation is not overdue: a failed       *)
(* refresh never postpones the next attempt.  maintain_if_due.             *)
StampHonest == acct.stamp - acct.rotatedAt < Refresh

(* A key that was active when the server replaced it decrypts late         *)
(* messages for the archive age (less the time the refresh itself took),   *)
(* whatever overlaps.  refresh_prekeys, _clean_archived.                   *)
Kept(k) == now + MaxStall <= replaced[k].at + Archive => Held(k)

ActiveKeysLast ==
  \A k \in Ids : replaced[k].at >= 0 /\ replaced[k].active => Kept(k)

(* The same of every key the server ever served, as the module's docstring *)
(* says of replaced keys.                                                  *)
ReplacedKeysLast == \A k \in Ids : replaced[k].at >= 0 => Kept(k)
==============================================================================
