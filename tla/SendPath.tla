------------------------------- MODULE SendPath ------------------------------
(***************************************************************************)
(* send_message_native() and _prepare_outgoing() of native/messaging.py:   *)
(* one recipient, whose devices join, leave and reinstall behind our back. *)
(*                                                                         *)
(* Preparing reads and writes the account under its lock, so it is one     *)
(* step (module AccountStore).  The PUT happens outside the lock.  The     *)
(* server accepts a PUT only if it addresses exactly the registered        *)
(* devices (409 otherwise) with their registration ids (410 otherwise).    *)
(***************************************************************************)
EXTENDS Naturals, FiniteSets

CONSTANTS
  Senders,      \* sends that may overlap
  Devices,      \* device ids of the recipient (without our own)
  MaxSends, MaxJoins, MaxReinstalls, MaxOpens, MaxFaults  \* bounds

ASSUME BoundsAssumption ==
  {MaxSends, MaxJoins, MaxReinstalls, MaxOpens, MaxFaults} \subseteq Nat

VARIABLES
  reg,          \* server: [Devices -> registration id, 0 if not registered]
  installs,     \* server: [Devices -> registration ids given out so far]
  known,        \* devices: [Devices -> sessions this installation can decrypt on]
  sess,         \* account: nativeRatchetSessions, [Devices -> session, 0 if none]
  cache,        \* account: nativeDevices, [Devices -> cached id, 0 if none]
  opened,       \* [Devices -> sessions ever opened with it]; names the next one
  pc,           \* [Senders -> {"idle", "prepare", "put", "reconcile", "retry"}]
  out,          \* [Senders -> per-device messages prepared]
  drop          \* [Senders -> drop_ids taken from a 409 or 410 answer]

VARIABLES sends, joins, reinstalls, opens, faults    \* counters for the bounds

\* History, read by the properties only.
VARIABLES
  unreadable,   \* accepted messages their device cannot decrypt
  disturbed,    \* [Senders -> something changed or failed under this send]
  gaveUp,       \* senders that returned False with nothing having disturbed them
  calm          \* nothing failed, and nothing happened during another's send

server == <<reg, installs, known>>
account == <<sess, cache, opened>>
sender == <<pc, out, drop>>
counters == <<sends, joins, reinstalls, opens, faults>>
history == <<unreadable, disturbed, gaveUp, calm>>
vars == <<server, account, sender, counters, history>>

Registered == {d \in Devices : reg[d] # 0}

Message == [dev : Devices, prekey : BOOLEAN, reg : Nat, session : Nat]

Init ==
  /\ \E S \in SUBSET Devices :
       /\ reg = [d \in Devices |-> IF d \in S THEN 1 ELSE 0]
       /\ installs = reg
  /\ known = [d \in Devices |-> {}]
  /\ sess = [d \in Devices |-> 0]
  /\ cache = [d \in Devices |-> 0]
  /\ opened = [d \in Devices |-> 0]
  /\ pc = [p \in Senders |-> "idle"]
  /\ out = [p \in Senders |-> {}]
  /\ drop = [p \in Senders |-> {}]
  /\ sends = 0 /\ joins = 0 /\ reinstalls = 0 /\ opens = 0 /\ faults = 0
  /\ unreadable = {}
  /\ disturbed = [p \in Senders |-> FALSE]
  /\ gaveUp = {}
  /\ calm = TRUE
------------------------------------------------------------------------------
\* The recipient's devices.

Sending == {p \in Senders : pc[p] # "idle"}

Disturb ==
  /\ disturbed' = [p \in Senders |-> disturbed[p] \/ p \in Sending]
  /\ calm' = (calm /\ Sending = {})

Install(d) ==
  /\ installs' = [installs EXCEPT ![d] = @ + 1]
  /\ reg' = [reg EXCEPT ![d] = installs[d] + 1]
  /\ known' = [known EXCEPT ![d] = {}]
  /\ Disturb

Join(d) ==
  /\ installs[d] = 0
  /\ joins < MaxJoins
  /\ joins' = joins + 1
  /\ Install(d)
  /\ UNCHANGED <<account, sender, sends, reinstalls, opens, faults, unreadable,
                 gaveUp>>

Leave(d) ==
  /\ reg[d] # 0
  /\ joins < MaxJoins
  /\ joins' = joins + 1
  /\ reg' = [reg EXCEPT ![d] = 0]
  /\ Disturb
  /\ UNCHANGED <<installs, known, account, sender, sends, reinstalls, opens,
                 faults, unreadable, gaveUp>>

\* The same device id with a new installation: a fresh registration id, and
\* none of the old sessions.
Reinstall(d) ==
  /\ installs[d] # 0
  /\ reinstalls < MaxReinstalls
  /\ reinstalls' = reinstalls + 1
  /\ Install(d)
  /\ UNCHANGED <<account, sender, sends, joins, opens, faults, unreadable, gaveUp>>

\* The device opens a session with us and receive() stores it: the device
\* cache is not touched.
PeerOpens(d) ==
  /\ reg[d] # 0
  /\ opens < MaxOpens
  /\ opens' = opens + 1
  /\ opened' = [opened EXCEPT ![d] = @ + 1]
  /\ sess' = [sess EXCEPT ![d] = opened[d] + 1]
  /\ known' = [known EXCEPT ![d] = @ \union {opened[d] + 1}]
  /\ calm' = (calm /\ Sending = {})
  /\ UNCHANGED <<reg, installs, cache, sender, sends, joins, reinstalls, faults,
                 unreadable, disturbed, gaveUp>>
------------------------------------------------------------------------------
\* One send.

Start(p) ==
  /\ pc[p] = "idle"
  /\ sends < MaxSends
  /\ sends' = sends + 1
  /\ pc' = [pc EXCEPT ![p] = "prepare"]
  /\ disturbed' = [disturbed EXCEPT ![p] = FALSE]
  /\ calm' = (calm /\ Sending = {})
  /\ UNCHANGED <<server, account, out, drop, joins, reinstalls, opens, faults,
                 unreadable, gaveUp>>

Finish(p) ==
  /\ pc' = [pc EXCEPT ![p] = "idle"]
  /\ out' = [out EXCEPT ![p] = {}]
  /\ drop' = [drop EXCEPT ![p] = {}]

Fail(p) ==
  /\ Finish(p)
  /\ gaveUp' = IF disturbed[p] THEN gaveUp ELSE gaveUp \union {p}

Cached == {d \in Devices : cache[d] # 0}

CanFast == Cached # {} /\ \A d \in Cached : sess[d] # 0

\* Every cached device has a session: whispers, without asking the server.
PrepareFast(p) ==
  /\ pc[p] = "prepare"
  /\ CanFast
  /\ out' = [out EXCEPT ![p] =
       {[dev |-> d, prekey |-> FALSE, reg |-> cache[d], session |-> sess[d]] :
          d \in Cached}]
  /\ pc' = [pc EXCEPT ![p] = "put"]
  /\ UNCHANGED <<server, account, drop, counters, history>>

\* GET /v2/keys lists the registered devices: a PREKEY message on a new session
\* where none is kept, a whisper elsewhere.
Fresh(kept) == {d \in Registered : kept[d] = 0}

EncryptToRegistered(p, kept, prekeys) ==
  LET new == [d \in Devices |-> IF d \in Fresh(kept) THEN opened[d] + 1 ELSE kept[d]]
  IN /\ sess' = new
     /\ opened' = [d \in Devices |-> IF d \in Fresh(kept) THEN new[d] ELSE opened[d]]
     /\ out' = [out EXCEPT ![p] =
          {[dev |-> d, prekey |-> d \in prekeys, reg |-> reg[d], session |-> new[d]] :
             d \in Registered}]

Without(ids) == [d \in Devices |-> IF d \in ids THEN 0 ELSE sess[d]]

\* Mutants: vanished devices stay cached; the sessions of dropped devices are
\* kept.
BuildKeepsCache(p, dropIds) ==
  LET kept == Without(dropIds \union (Cached \ Registered))
  IN /\ EncryptToRegistered(p, kept, Fresh(kept))
     /\ cache' = [d \in Devices |-> IF d \in Registered THEN reg[d] ELSE cache[d]]

BuildKeepsSessions(p, dropIds) ==
  /\ EncryptToRegistered(p, sess, Fresh(sess))
  /\ cache' = reg

\* drop_ids lose their sessions first, and so do cached devices the server no
\* longer lists; the cache becomes what the server listed.
BuildFromBundle(p, dropIds) ==
  LET kept == Without(dropIds \union (Cached \ Registered))
  IN /\ EncryptToRegistered(p, kept, Fresh(kept))
     /\ cache' = reg

PrepareBundle(p) ==
  /\ pc[p] = "prepare"
  /\ ~CanFast
  /\ BuildFromBundle(p, {})
  /\ pc' = [pc EXCEPT ![p] = "put"]
  /\ UNCHANGED <<server, drop, counters, history>>

\* Mutant: the retry drops what the server named and asks it nothing.
ReconcileUnasked(p) ==
  /\ pc[p] = "reconcile"
  /\ sess' = [d \in Devices |-> IF d \in drop[p] THEN 0 ELSE sess[d]]
  /\ cache' = [d \in Devices |-> IF d \in drop[p] THEN 0 ELSE cache[d]]
  /\ out' = [out EXCEPT ![p] =
       {[dev |-> d, prekey |-> FALSE, reg |-> cache[d], session |-> sess[d]] :
          d \in Cached \ drop[p]}]
  /\ pc' = [pc EXCEPT ![p] = "retry"]
  /\ drop' = [drop EXCEPT ![p] = {}]
  /\ UNCHANGED <<server, opened, counters, history>>

Reconcile(p) ==
  /\ pc[p] = "reconcile"
  /\ BuildFromBundle(p, drop[p])
  /\ pc' = [pc EXCEPT ![p] = "retry"]
  /\ drop' = [drop EXCEPT ![p] = {}]
  /\ UNCHANGED <<server, counters, history>>

\* "no target devices".
NoTargets(p) ==
  /\ pc[p] \in {"put", "retry"}
  /\ out[p] = {}
  /\ Finish(p)
  /\ UNCHANGED <<server, account, counters, history>>

Addressed(p) == {m.dev : m \in out[p]}
Mismatched(p) == (Registered \ Addressed(p)) \union (Addressed(p) \ Registered)
Stale(p) == {m.dev : m \in {n \in out[p] : n.reg # reg[n.dev]}}

Putting(p) == pc[p] \in {"put", "retry"} /\ out[p] # {}

\* The devices get the messages: a PREKEY message teaches a device its session.
Accept(p) ==
  /\ Mismatched(p) = {} /\ Stale(p) = {}
  /\ known' = [d \in Devices |->
       known[d] \union {m.session : m \in {n \in out[p] : n.dev = d /\ n.prekey}}]
  /\ unreadable' = unreadable \union
       {m \in out[p] : ~m.prekey /\ m.session \notin known[m.dev]}

PutAccepted(p) ==
  /\ Putting(p)
  /\ Accept(p)
  /\ Finish(p)
  /\ UNCHANGED <<reg, installs, account, counters, disturbed, gaveUp, calm>>

\* Mutant: drop_ids gets messages for device ids.
RejectedConfused(p) ==
  /\ Putting(p)
  /\ Mismatched(p) \union Stale(p) # {}
  /\ pc[p] = "put"
  /\ pc' = [pc EXCEPT ![p] = "reconcile"]
  /\ out' = [out EXCEPT ![p] = {}]
  /\ drop' = [drop EXCEPT ![p] = out[p]]
  /\ UNCHANGED <<server, account, counters, unreadable, disturbed, gaveUp, calm>>

\* 409 before 410; the first of either is reconciled, the second gives up.
Rejected(p) ==
  LET ids == IF Mismatched(p) # {} THEN Mismatched(p) ELSE Stale(p)
  IN /\ Putting(p)
     /\ ids # {}
     /\ \/ /\ pc[p] = "put"
           /\ pc' = [pc EXCEPT ![p] = "reconcile"]
           /\ out' = [out EXCEPT ![p] = {}]
           /\ drop' = [drop EXCEPT ![p] = ids]
           /\ UNCHANGED gaveUp
        \/ /\ pc[p] = "retry"
           /\ Fail(p)
     /\ UNCHANGED <<server, account, counters, unreadable, disturbed, calm>>

Fault(p) ==
  /\ faults < MaxFaults
  /\ faults' = faults + 1
  /\ calm' = FALSE
  /\ Finish(p)
  /\ UNCHANGED <<account, sends, joins, reinstalls, opens, disturbed, gaveUp>>

\* GET /v2/keys fails, or the process dies before the commit.
PrepareFails(p) ==
  /\ pc[p] \in {"prepare", "reconcile"}
  /\ Fault(p)
  /\ UNCHANGED <<server, unreadable>>

\* The PUT is lost, refused for another reason (429, 5xx), or the process
\* dies before it: the state stays committed.
PutLost(p) ==
  /\ Putting(p)
  /\ Fault(p)
  /\ UNCHANGED <<server, unreadable>>

\* The server accepted, its answer is lost.
AnswerLost(p) ==
  /\ Putting(p)
  /\ Accept(p)
  /\ Fault(p)
  /\ UNCHANGED <<reg, installs>>

Step(p) ==
  \/ PrepareFast(p) \/ PrepareBundle(p) \/ Reconcile(p)
  \/ NoTargets(p) \/ PutAccepted(p) \/ Rejected(p)

Next ==
  \/ \E d \in Devices : Join(d) \/ Leave(d) \/ Reinstall(d) \/ PeerOpens(d)
  \/ \E p \in Senders : \/ Start(p) \/ Step(p)
                        \/ PrepareFails(p) \/ PutLost(p) \/ AnswerLost(p)

Spec == Init /\ [][Next]_vars
------------------------------------------------------------------------------
TypeOK ==
  /\ {reg, installs, sess, cache, opened} \subseteq [Devices -> Nat]
  /\ known \in [Devices -> SUBSET Nat]
  /\ pc \in [Senders -> {"idle", "prepare", "put", "reconcile", "retry"}]
  /\ out \in [Senders -> SUBSET Message]
  /\ drop \in [Senders -> SUBSET Devices]
  /\ {sends, joins, reinstalls, opens, faults} \subseteq Nat
  /\ unreadable \in SUBSET Message
  /\ disturbed \in [Senders -> BOOLEAN]
  /\ gaveUp \in SUBSET Senders
  /\ calm \in BOOLEAN

(* What the server accepts, the addressed device can decrypt.              *)
AcceptedReadable == unreadable = {}

(* If nothing fails and nothing happens during a send, devices may join,   *)
(* leave and open sessions, or they may reinstall, and everything accepted *)
(* can be decrypted.  Both together are not repaired: a fetch of the       *)
(* bundle, caused by a join, pairs the stored session with the new         *)
(* registration id, and no 410 tells of the reinstall.                     *)
ReadableAfterChanges ==
  (calm /\ (reinstalls = 0 \/ joins + opens = 0)) => AcceptedReadable

(* A cached device always has a session, whoever wrote the account last:   *)
(* the fast path never silently degrades, and dropping a device drops both *)
(* of its entries.                                                         *)
CachedHaveSessions == \A d \in Cached : sess[d] # 0

(* One retry is enough: a send that nothing disturbed does not give up,    *)
(* however wrong its idea of the recipient's devices was when it started   *)
(* (messaging.py: "retry once").                                           *)
RetrySuffices == gaveUp = {}
==============================================================================
