--------------------------- MODULE SendPath_proofs ---------------------------
(***************************************************************************)
(* Overlapping sends to a recipient whose devices change: proved for any   *)
(* number of senders and devices, and any number of changes.               *)
(***************************************************************************)
EXTENDS SendPath, TLAPS

Stages == {"idle", "prepare", "put", "reconcile", "retry"}

Maps == [Devices -> Nat]

(* The records of TypeOK, one by one, with the room the bounds leave.      *)
Types ==
  /\ reg \in Maps /\ installs \in Maps /\ sess \in Maps /\ cache \in Maps /\ opened \in Maps
  /\ known \in [Devices -> SUBSET Nat]
  /\ pc \in [Senders -> Stages]
  /\ out \in [Senders -> SUBSET Message]
  /\ drop \in [Senders -> SUBSET Devices]
  /\ sends \in Nat /\ joins \in Nat /\ reinstalls \in Nat /\ opens \in Nat /\ faults \in Nat
  /\ unreadable \in SUBSET Message
  /\ disturbed \in [Senders -> BOOLEAN]
  /\ gaveUp \in SUBSET Senders
  /\ calm \in BOOLEAN

LEMMA TypesAreTypeOK == Types <=> TypeOK
  BY DEF Types, TypeOK, Maps, Stages

LEMMA TypesInit == Init => Types
<1> SUFFICES ASSUME Init PROVE Types
  OBVIOUS
<1>1. reg \in Maps /\ installs \in Maps
  BY DEF Init, Maps
<1> QED
  BY <1>1 DEF Init, Types, Maps, Stages, Message

(* A step that ends a send.                                                *)
LEMMA FinishTypes ==
  ASSUME Types, NEW p \in Senders, Finish(p)
  PROVE  /\ pc' \in [Senders -> Stages] /\ out' \in [Senders -> SUBSET Message]
         /\ drop' \in [Senders -> SUBSET Devices]
         /\ pc'[p] = "idle"
         /\ \A q \in Senders \ {p} : pc'[q] = pc[q] /\ out'[q] = out[q] /\ drop'[q] = drop[q]
  BY DEF Types, Finish, Stages

(* What the devices learn from an accepted PUT.                            *)
LEMMA AcceptTypes ==
  ASSUME Types, NEW p \in Senders, Accept(p)
  PROVE  /\ known' \in [Devices -> SUBSET Nat]
         /\ unreadable' \in SUBSET Message
<1>1. out[p] \in SUBSET Message
  BY DEF Types
<1>2. \A m \in out[p] : m.session \in Nat
  BY <1>1 DEF Message
<1>3. \A d \in Devices :
        known[d] \union {m.session : m \in {n \in out[p] : n.dev = d /\ n.prekey}} \in SUBSET Nat
  BY <1>2 DEF Types
<1>4. known' \in [Devices -> SUBSET Nat]
  BY <1>3 DEF Accept
<1>5. unreadable' \in SUBSET Message
  BY <1>1 DEF Accept, Types
<1> QED
  BY <1>4, <1>5

(* A device comes back as a new installation.                              *)
LEMMA InstallTypes ==
  ASSUME Types, NEW d \in Devices, Install(d)
  PROVE  /\ reg' \in Maps /\ installs' \in Maps /\ known' \in [Devices -> SUBSET Nat]
         /\ disturbed' \in [Senders -> BOOLEAN] /\ calm' \in BOOLEAN
  BY DEF Types, Install, Disturb, Sending, Maps

(* The account after a fetch of the bundle: a session for every registered *)
(* device, the cache what the server listed, messages to exactly those.    *)
LEMMA BundleEffect ==
  ASSUME Types, NEW p \in Senders, NEW ids \in SUBSET Devices, BuildFromBundle(p, ids)
  PROVE  /\ sess' \in Maps /\ opened' \in Maps /\ cache' = reg
         /\ out' \in [Senders -> SUBSET Message]
         /\ \A d \in Registered : sess'[d] # 0
         /\ {m.dev : m \in out'[p]} = Registered
         /\ \A m \in out'[p] : m.reg = reg[m.dev] /\ m.session = sess'[m.dev]
         /\ \A q \in Senders \ {p} : out'[q] = out[q]
         /\ \A d \in Devices : sess'[d] # 0 => d \in Registered \/ (sess[d] # 0 /\ d \notin Cached)
         /\ \A m \in out'[p] : /\ m.dev \in Registered
                             /\ ~m.prekey => /\ sess[m.dev] # 0 /\ m.session = sess[m.dev]
                                             /\ m.dev \notin ids
         /\ \A d \in Registered :
              \/ sess[d] # 0 /\ sess'[d] = sess[d] /\ d \notin ids
              \/ \E m \in out'[p] : m.dev = d /\ m.prekey /\ m.session = sess'[d]
<1> DEFINE kept == Without(ids \union (Cached \ Registered))
           new == [d \in Devices |-> IF d \in Fresh(kept) THEN opened[d] + 1 ELSE kept[d]]
           messages == {[dev |-> d, prekey |-> d \in Fresh(kept), reg |-> reg[d],
                         session |-> new[d]] : d \in Registered}
<1>1. kept \in Maps
  BY DEF Types, Without, Maps
<1>2. /\ sess' = new /\ cache' = reg
      /\ opened' = [d \in Devices |-> IF d \in Fresh(kept) THEN new[d] ELSE opened[d]]
      /\ out' = [out EXCEPT ![p] = messages]
  BY DEF BuildFromBundle, EncryptToRegistered
<1>3. Fresh(kept) = {d \in Registered : kept[d] = 0} /\ Registered \subseteq Devices
  BY DEF Fresh, Registered
<1>a. \A d \in Devices : kept[d] # 0 => /\ kept[d] = sess[d] /\ d \notin ids
                                        /\ d \in Cached => d \in Registered
  BY DEF Types, Without, Maps
<1> HIDE DEF kept
<1>4. new \in Maps /\ opened' \in Maps
  BY <1>1, <1>2 DEF Types, Maps
<1>5. \A d \in Registered : new[d] # 0
  BY <1>1, <1>3 DEF Types, Maps
<1>6. /\ messages \in SUBSET Message
      /\ {m.dev : m \in messages} = Registered
      /\ \A m \in messages : m.reg = reg[m.dev] /\ m.session = new[m.dev]
      /\ \A m \in messages : m.dev \in Registered /\ (m.prekey <=> m.dev \in Fresh(kept))
      /\ \A d \in Registered :
           \E m \in messages : m.dev = d /\ (m.prekey <=> d \in Fresh(kept)) /\ m.session = new[d]
  <2> HIDE DEF new
  <2> DEFINE M(d) == [dev |-> d, prekey |-> d \in Fresh(kept), reg |-> reg[d],
                      session |-> new[d]]
  <2>1. \A d \in Registered : new[d] \in Nat /\ reg[d] \in Nat /\ d \in Devices
    BY <1>3, <1>4 DEF Types, Maps
  <2>2. \A d \in Registered : M(d) \in Message
    BY <2>1 DEF Message
  <2>3. \A d \in Registered : /\ M(d).dev = d /\ M(d).reg = reg[d] /\ M(d).session = new[d]
                              /\ M(d).prekey <=> d \in Fresh(kept)
    OBVIOUS
  <2>4. messages = {M(d) : d \in Registered}
    OBVIOUS
  <2> HIDE DEF M, messages
  <2> QED
    BY <2>2, <2>3, <2>4
<1>7. \A d \in Devices : /\ d \notin Fresh(kept) => new[d] = kept[d]
                         /\ d \in Fresh(kept) => d \in Registered
  BY <1>3
<1> HIDE DEF messages, new
<1>8. out'[p] = messages /\ sess' = new
  BY <1>2 DEF Types
<1>9. \A d \in Registered : d \notin Fresh(kept) => kept[d] # 0
  BY <1>3
<1>b. /\ \A d \in Devices : d \in Registered \/ new[d] = kept[d]
      /\ \A d \in Devices : d \notin Fresh(kept) => new[d] = kept[d]
  BY <1>7
<1>10. ASSUME NEW d \in Devices, sess'[d] # 0, d \notin Registered
       PROVE  sess[d] # 0 /\ d \notin Cached
  <2>1. kept[d] # 0
    BY <1>8, <1>10, <1>b
  <2> QED
    BY <1>a, <1>10, <2>1
<1>11. \A m \in messages : ~m.prekey => /\ sess[m.dev] # 0 /\ m.session = sess[m.dev]
                                        /\ m.dev \notin ids
  <2>1. ASSUME NEW m \in messages, ~m.prekey
        PROVE  sess[m.dev] # 0 /\ m.session = sess[m.dev] /\ m.dev \notin ids
    <3>1. m.dev \in Registered /\ m.dev \notin Fresh(kept) /\ m.dev \in Devices
      BY <1>3, <1>6, <2>1
    <3>2. kept[m.dev] # 0 /\ new[m.dev] = kept[m.dev] /\ m.session = new[m.dev]
      BY <1>6, <1>9, <1>b, <3>1
    <3> QED
      BY <1>a, <3>1, <3>2
  <2> QED
    BY <2>1
<1>12. \A d \in Registered :
         \/ sess[d] # 0 /\ sess'[d] = sess[d] /\ d \notin ids
         \/ \E m \in messages : m.dev = d /\ m.prekey /\ m.session = sess'[d]
  <2>1. ASSUME NEW d \in Registered, d \notin Fresh(kept)
        PROVE  sess[d] # 0 /\ sess'[d] = sess[d] /\ d \notin ids
    <3>1. d \in Devices /\ kept[d] # 0 /\ new[d] = kept[d]
      BY <1>3, <1>9, <1>b, <2>1
    <3> QED
      BY <1>8, <1>a, <3>1
  <2>2. ASSUME NEW d \in Registered, d \in Fresh(kept)
        PROVE  \E m \in messages : m.dev = d /\ m.prekey /\ m.session = sess'[d]
    BY <1>6, <1>8, <2>2
  <2> QED
    BY <2>1, <2>2
<1> QED
  BY <1>2, <1>4, <1>5, <1>6, <1>8, <1>10, <1>11, <1>12 DEF Types

LEMMA TypesStep == Types /\ [Next]_vars => Types'
<1> SUFFICES ASSUME Types, [Next]_vars PROVE Types'
  OBVIOUS
<1> USE DEF server, account, sender, counters, history
<1>1. CASE UNCHANGED vars
  BY <1>1 DEF vars, Types
<1>2. ASSUME NEW d \in Devices, Join(d) PROVE Types'
  BY <1>2, InstallTypes DEF Join, Types
<1>3. ASSUME NEW d \in Devices, Leave(d) PROVE Types'
  BY <1>3 DEF Leave, Disturb, Sending, Types, Maps
<1>4. ASSUME NEW d \in Devices, Reinstall(d) PROVE Types'
  BY <1>4, InstallTypes DEF Reinstall, Types
<1>5. ASSUME NEW d \in Devices, PeerOpens(d) PROVE Types'
  BY <1>5 DEF PeerOpens, Sending, Types, Maps
<1>6. ASSUME NEW p \in Senders, Start(p) PROVE Types'
  BY <1>6 DEF Start, Sending, Types, Stages
<1>7. ASSUME NEW p \in Senders, PrepareFast(p) PROVE Types'
  <2>1. {[dev |-> d, prekey |-> FALSE, reg |-> cache[d], session |-> sess[d]] : d \in Cached}
          \in SUBSET Message
    <3>1. \A d \in Cached : d \in Devices /\ cache[d] \in Nat /\ sess[d] \in Nat
      BY DEF Types, Maps, Cached
    <3>2. \A d \in Cached :
            [dev |-> d, prekey |-> FALSE, reg |-> cache[d], session |-> sess[d]] \in Message
      BY <3>1 DEF Message
    <3> QED
      BY <3>2
  <2> QED
    BY <1>7, <2>1 DEF PrepareFast, Types, Stages
<1>8. ASSUME NEW p \in Senders, PrepareBundle(p) PROVE Types'
  BY <1>8, BundleEffect DEF PrepareBundle, Types, Stages
<1>9. ASSUME NEW p \in Senders, Reconcile(p) PROVE Types'
  BY <1>9, BundleEffect DEF Reconcile, Types, Stages
<1>10. ASSUME NEW p \in Senders, NoTargets(p) PROVE Types'
  BY <1>10, FinishTypes DEF NoTargets, Types
<1>11. ASSUME NEW p \in Senders, PutAccepted(p) PROVE Types'
  BY <1>11, FinishTypes, AcceptTypes DEF PutAccepted, Types
<1>12. ASSUME NEW p \in Senders, Rejected(p) PROVE Types'
  <2>1. Mismatched(p) \in SUBSET Devices /\ Stale(p) \in SUBSET Devices
    BY DEF Mismatched, Stale, Registered, Addressed, Types, Message
  <2> QED
    BY <1>12, <2>1, FinishTypes DEF Rejected, Fail, Types, Stages
<1>13. ASSUME NEW p \in Senders, Fault(p),
              \/ UNCHANGED <<reg, installs, known, unreadable>>
              \/ Accept(p) /\ UNCHANGED <<reg, installs>>
       PROVE  Types'
  <2>1. faults' = faults + 1 /\ calm' = FALSE /\ Finish(p)
        /\ UNCHANGED <<sess, cache, opened, sends, joins, reinstalls, opens, disturbed, gaveUp>>
    BY <1>13 DEF Fault
  <2>2. faults' \in Nat
    BY <2>1 DEF Types
  <2>3. calm' \in BOOLEAN
    BY <2>1
  <2>4. known' \in [Devices -> SUBSET Nat] /\ unreadable' \in SUBSET Message
        /\ UNCHANGED <<reg, installs>>
    BY <1>13, AcceptTypes DEF Types
  <2> QED
    BY <2>1, <2>2, <2>3, <2>4, FinishTypes DEF Types
<1>14. ASSUME NEW p \in Senders, PrepareFails(p) \/ PutLost(p) \/ AnswerLost(p) PROVE Types'
  BY <1>13, <1>14 DEF PrepareFails, PutLost, AnswerLost
<1> QED
  BY <1>1, <1>2, <1>3, <1>4, <1>5, <1>6, <1>7, <1>8, <1>9, <1>10, <1>11, <1>12, <1>14
     DEF Next, Step

(* The account, the server and the sends keep their types.                 *)
THEOREM TypeCorrect == Spec => []TypeOK
  BY TypesInit, TypesStep, TypesAreTypeOK, PTL DEF Spec

-----------------------------------------------------------------------------
(***************************************************************************)
(* Sessions and cache.                                                     *)
(***************************************************************************)

LEMMA CachedInit == Init => CachedHaveSessions
  BY DEF Init, CachedHaveSessions, Cached

LEMMA CachedStep == Types /\ CachedHaveSessions /\ [Next]_vars => CachedHaveSessions'
<1> SUFFICES ASSUME Types, CachedHaveSessions, [Next]_vars PROVE CachedHaveSessions'
  OBVIOUS
<1> USE DEF server, account, sender, counters, history
<1>1. CASE UNCHANGED <<sess, cache>>
  BY <1>1 DEF CachedHaveSessions, Cached
<1>2. ASSUME NEW d \in Devices, PeerOpens(d) PROVE CachedHaveSessions'
  <2>1. sess' = [sess EXCEPT ![d] = opened[d] + 1] /\ cache' = cache /\ opened[d] \in Nat
    BY <1>2 DEF PeerOpens, Types, Maps
  <2> QED
    BY <2>1 DEF CachedHaveSessions, Cached, Types, Maps
<1>3. ASSUME NEW p \in Senders, NEW ids \in SUBSET Devices, BuildFromBundle(p, ids)
      PROVE  CachedHaveSessions'
  BY <1>3, BundleEffect DEF CachedHaveSessions, Cached, Registered
<1>4. ASSUME NEW p \in Senders, PrepareBundle(p) \/ Reconcile(p) PROVE CachedHaveSessions'
  <2>1. {} \in SUBSET Devices /\ drop[p] \in SUBSET Devices
    BY DEF Types
  <2> QED
    BY <1>3, <1>4, <2>1 DEF PrepareBundle, Reconcile
<1> QED
  BY <1>1, <1>2, <1>4 DEF Next, Step, vars, Join, Leave, Reinstall, Start, PrepareFast, NoTargets,
                          PutAccepted, Rejected, PrepareFails, PutLost, AnswerLost, Fault

(* A cached device always has a session (_prepare_outgoing: the fast path). *)
THEOREM CachedDevicesHaveSessions == Spec => []CachedHaveSessions
  BY TypesInit, TypesStep, CachedInit, CachedStep, PTL DEF Spec

-----------------------------------------------------------------------------
(***************************************************************************)
(* The retry.  A retry that nothing disturbed addresses exactly the        *)
(* registered devices under their ids, so the server has nothing to say.   *)
(***************************************************************************)

Exact(p) == Mismatched(p) = {} /\ Stale(p) = {}

RetryInv ==
  /\ gaveUp = {}
  /\ \A p \in Senders : pc[p] = "retry" /\ ~disturbed[p] => Exact(p)

(* What was fetched is what is addressed.                                  *)
LEMMA BundleIsExact ==
  ASSUME Types, NEW p \in Senders, NEW ids \in SUBSET Devices, BuildFromBundle(p, ids),
         UNCHANGED reg
  PROVE  Exact(p)'
<1>1. /\ {m.dev : m \in out'[p]} = Registered
      /\ \A m \in out'[p] : m.reg = reg[m.dev]
  BY BundleEffect
<1>2. Registered' = Registered
  BY DEF Registered
<1> QED
  BY <1>1, <1>2 DEF Exact, Mismatched, Stale, Addressed

(* What others do leaves what is addressed alone.                          *)
LEMMA ExactFrame ==
  ASSUME NEW q \in Senders, Exact(q), out'[q] = out[q], UNCHANGED reg
  PROVE  Exact(q)'
  BY DEF Exact, Mismatched, Stale, Addressed, Registered

LEMMA RetryInit == Init => RetryInv
  BY DEF Init, RetryInv

LEMMA RetryStep == Types /\ RetryInv /\ [Next]_vars => RetryInv'
<1> SUFFICES ASSUME Types, RetryInv, [Next]_vars PROVE RetryInv'
  OBVIOUS
<1> USE DEF server, account, sender, counters, history
<1>1. CASE UNCHANGED vars
  BY <1>1, ExactFrame DEF vars, RetryInv
<1>2. ASSUME Disturb, UNCHANGED <<pc, gaveUp>> PROVE RetryInv'
  BY <1>2 DEF Disturb, Sending, RetryInv, Types
<1>3. ASSUME NEW d \in Devices, Join(d) \/ Leave(d) \/ Reinstall(d) PROVE RetryInv'
  BY <1>2, <1>3 DEF Join, Leave, Reinstall, Install
<1>4. ASSUME NEW d \in Devices, PeerOpens(d) PROVE RetryInv'
  BY <1>4, ExactFrame DEF PeerOpens, RetryInv
<1>5. ASSUME NEW p \in Senders,
             pc'[p] # "retry",
             \A q \in Senders \ {p} : pc'[q] = pc[q] /\ out'[q] = out[q]
                                      /\ disturbed'[q] = disturbed[q],
             UNCHANGED <<reg, gaveUp>>
      PROVE  RetryInv'
  BY <1>5, ExactFrame DEF RetryInv
<1>6. ASSUME NEW p \in Senders, Start(p) PROVE RetryInv'
  BY <1>5, <1>6 DEF Start, Types
<1>7. ASSUME NEW p \in Senders, PrepareFast(p) PROVE RetryInv'
  BY <1>5, <1>7 DEF PrepareFast, Types
<1>8. ASSUME NEW p \in Senders, PrepareBundle(p) PROVE RetryInv'
  BY <1>5, <1>8, BundleEffect DEF PrepareBundle, Types
<1>9. ASSUME NEW p \in Senders, Reconcile(p) PROVE RetryInv'
  <2>1. /\ drop[p] \in SUBSET Devices /\ BuildFromBundle(p, drop[p])
        /\ UNCHANGED <<reg, disturbed, gaveUp>> /\ pc' = [pc EXCEPT ![p] = "retry"]
    BY <1>9 DEF Reconcile, Types
  <2>2. /\ Exact(p)'
        /\ \A q \in Senders \ {p} : pc'[q] = pc[q] /\ out'[q] = out[q]
    BY <2>1, BundleIsExact, BundleEffect DEF Types
  <2> QED
    BY <2>1, <2>2, ExactFrame DEF RetryInv
<1>10. ASSUME NEW p \in Senders, Finish(p), UNCHANGED <<reg, disturbed, gaveUp>> PROVE RetryInv'
  BY <1>5, <1>10, FinishTypes
<1>11. ASSUME NEW p \in Senders, Rejected(p) PROVE RetryInv'
  <2>1. ~Exact(p) /\ UNCHANGED <<reg, disturbed>>
    BY <1>11 DEF Rejected, Exact
  <2>2. CASE pc[p] = "retry" /\ Fail(p)
    <3>1. disturbed[p]
      BY <2>1, <2>2 DEF RetryInv
    <3> QED
      BY <1>10, <2>1, <2>2, <3>1 DEF Fail
  <2>3. CASE pc' = [pc EXCEPT ![p] = "reconcile"] /\ out' = [out EXCEPT ![p] = {}]
             /\ UNCHANGED gaveUp
    BY <1>5, <2>1, <2>3 DEF Types
  <2> QED
    BY <1>11, <2>2, <2>3 DEF Rejected
<1>12. ASSUME NEW p \in Senders,
              \/ NoTargets(p) \/ PutAccepted(p) \/ PrepareFails(p) \/ PutLost(p) \/ AnswerLost(p)
       PROVE  RetryInv'
  BY <1>10, <1>12 DEF NoTargets, PutAccepted, PrepareFails, PutLost, AnswerLost, Fault
<1> QED
  BY <1>1, <1>3, <1>4, <1>6, <1>7, <1>8, <1>9, <1>11, <1>12 DEF Next, Step

LEMMA RetryImplies == RetryInv => RetrySuffices
  BY DEF RetryInv, RetrySuffices

(* One retry is enough for a send that nothing disturbs (messaging.py:     *)
(* "retry once").                                                          *)
THEOREM OneRetrySuffices == Spec => []RetrySuffices
  BY TypesInit, TypesStep, RetryInit, RetryStep, RetryImplies, PTL DEF Spec

-----------------------------------------------------------------------------
(***************************************************************************)
(* What is accepted can be decrypted, as long as nothing fails or happens  *)
(* during a send and the recipient's devices either come and go or         *)
(* reinstall.                                                              *)
(***************************************************************************)

(* Ids grow with the installations; a device that never was has nothing.   *)
Installed ==
  \A d \in Devices : /\ cache[d] <= installs[d] /\ reg[d] <= installs[d]
                     /\ installs[d] = 0 => sess[d] = 0
                     /\ joins = 0 /\ installs[d] # 0 => reg[d] # 0

(* With the same devices throughout and none opening a session, all of     *)
(* them are cached, or none is and none has a session.                     *)
SameDevices ==
  joins = 0 /\ opens = 0 =>
    /\ \A d \in Devices : sess[d] # 0 => cache[d] # 0
    /\ Cached = {} \/ Cached = Registered

(* When all is calm, a send under way is alone.                            *)
Alone ==
  calm => /\ \A p, q \in Sending : p = q
          /\ \A p \in Sending : ~disturbed[p]

Mild == reinstalls = 0 \/ (joins = 0 /\ opens = 0)

Posting(p) == pc[p] \in {"put", "retry"}

(* A PREKEY message under way will teach the device its session.           *)
Teaches(d) ==
  \E p \in Senders : /\ Posting(p)
                     /\ \E m \in out[p] : m.dev = d /\ m.prekey /\ m.session = sess[d]

(* The sessions of devices that are as we know them are good.              *)
Trusted(d) == reinstalls = 0 \/ cache[d] = reg[d]

Sound ==
  \A d \in Registered : sess[d] # 0 /\ Trusted(d) => sess[d] \in known[d] \/ Teaches(d)

Whispers ==
  \A p \in Senders : Posting(p) =>
    \A m \in out[p] :
      ~m.prekey /\ m.dev \in Registered /\ m.reg = reg[m.dev] => m.session \in known[m.dev]

(* Messages made without asking the server go to the cached devices.       *)
FromCache(p) ==
  /\ Addressed(p) = Cached /\ Cached # {}
  /\ \A m \in out[p] : ~m.prekey /\ m.reg = cache[m.dev]

Sources == \A p \in Senders : pc[p] = "put" => Exact(p) \/ FromCache(p)

(* The server named every device that is not as we knew it.                *)
Drops ==
  \A p \in Senders : pc[p] = "reconcile" /\ reinstalls # 0 =>
    \A d \in Registered : sess[d] # 0 /\ cache[d] # reg[d] => d \in drop[p]

CalmInv == calm /\ Mild => unreadable = {} /\ Sound /\ Whispers /\ Sources /\ Drops

ReadInv ==
  Types /\ CachedHaveSessions /\ RetryInv /\ Installed /\ SameDevices /\ Alone /\ CalmInv

LEMMA ReadInit == Init => Installed /\ SameDevices /\ Alone /\ CalmInv
<1> SUFFICES ASSUME Init PROVE Installed /\ SameDevices /\ Alone /\ CalmInv
  OBVIOUS
<1>1. PICK S \in SUBSET Devices : /\ reg = [d \in Devices |-> IF d \in S THEN 1 ELSE 0]
                                  /\ installs = reg
  BY DEF Init
<1>2. Installed
  BY <1>1 DEF Init, Installed
<1>3. SameDevices
  BY DEF Init, SameDevices, Cached
<1>4. Alone
  BY DEF Init, Alone, Sending
<1>5. CalmInv
  BY DEF Init, CalmInv, Sound, Whispers, Sources, Drops, Registered, Posting
<1> QED
  BY <1>2, <1>3, <1>4, <1>5

-----------------------------------------------------------------------------
(* The account and the server, whatever else goes on.                      *)

LEMMA InstalledStep == Types /\ Installed /\ [Next]_vars => Installed'
<1> SUFFICES ASSUME Types, Installed, [Next]_vars PROVE Installed'
  OBVIOUS
<1> USE DEF server, account, sender, counters, history
<1>1. CASE UNCHANGED <<reg, installs, sess, cache, joins>>
  BY <1>1 DEF Installed
<1>2. ASSUME NEW d \in Devices, Install(d), UNCHANGED <<sess, cache>>,
             joins' = joins + 1 \/ UNCHANGED joins
      PROVE  Installed'
  BY <1>2 DEF Install, Installed, Types, Maps
<1>3. ASSUME NEW d \in Devices, Leave(d) PROVE Installed'
  <2>1. reg' = [reg EXCEPT ![d] = 0] /\ joins' = joins + 1
        /\ UNCHANGED <<installs, sess, cache>>
    BY <1>3 DEF Leave
  <2> QED
    BY <2>1 DEF Installed, Types, Maps
<1>4. ASSUME NEW d \in Devices, PeerOpens(d) PROVE Installed'
  <2>1. sess' = [sess EXCEPT ![d] = opened[d] + 1] /\ reg[d] # 0
        /\ UNCHANGED <<reg, installs, cache, joins>>
    BY <1>4 DEF PeerOpens
  <2> QED
    BY <2>1 DEF Installed, Types, Maps
<1>5. ASSUME NEW p \in Senders, NEW ids \in SUBSET Devices, BuildFromBundle(p, ids),
             UNCHANGED <<reg, installs, joins>>
      PROVE  Installed'
  <2>1. /\ cache' = reg
        /\ \A d \in Devices : sess'[d] # 0 => reg[d] # 0 \/ sess[d] # 0
    BY <1>5, BundleEffect DEF Registered
  <2> QED
    BY <1>5, <2>1 DEF Installed, Types, Maps
<1>6. ASSUME NEW p \in Senders, PrepareBundle(p) \/ Reconcile(p) PROVE Installed'
  <2>1. {} \in SUBSET Devices /\ drop[p] \in SUBSET Devices
    BY DEF Types
  <2> QED
    BY <1>5, <1>6, <2>1 DEF PrepareBundle, Reconcile
<1>7. ASSUME NEW d \in Devices, Join(d) \/ Reinstall(d) PROVE Installed'
  BY <1>2, <1>7 DEF Join, Reinstall
<1> QED
  BY <1>1, <1>3, <1>4, <1>6, <1>7 DEF Next, Step, vars, Start, PrepareFast, NoTargets,
                          PutAccepted, Rejected, PrepareFails, PutLost, AnswerLost, Fault

LEMMA SameDevicesStep ==
  Types /\ Installed /\ SameDevices /\ [Next]_vars => SameDevices'
<1> SUFFICES ASSUME Types, Installed, SameDevices, [Next]_vars PROVE SameDevices'
  OBVIOUS
<1> USE DEF server, account, sender, counters, history
<1>1. CASE UNCHANGED <<reg, sess, cache, joins, opens>>
  BY <1>1 DEF SameDevices, Cached, Registered
<1>2. ASSUME joins' = joins + 1 \/ opens' = opens + 1 PROVE SameDevices'
  BY <1>2, TypesStep DEF SameDevices, Types
<1>3. ASSUME NEW d \in Devices, Reinstall(d) PROVE SameDevices'
  <2>1. /\ installs[d] # 0 /\ reg' = [reg EXCEPT ![d] = installs[d] + 1]
        /\ UNCHANGED <<sess, cache, joins, opens>>
    BY <1>3 DEF Reinstall, Install
  <2>2. joins = 0 => Registered' = Registered
    BY <2>1 DEF Installed, Registered, Types, Maps
  <2> QED
    BY <2>1, <2>2 DEF SameDevices, Cached
<1>4. ASSUME NEW p \in Senders, NEW ids \in SUBSET Devices, BuildFromBundle(p, ids),
             UNCHANGED <<reg, joins, opens>>
      PROVE  SameDevices'
  <2>1. /\ cache' = reg
        /\ \A d \in Devices : sess'[d] # 0 => d \in Registered \/ (sess[d] # 0 /\ d \notin Cached)
    BY <1>4, BundleEffect
  <2>2. Cached' = Registered'
    BY <1>4, <2>1 DEF Cached, Registered
  <2> QED
    BY <1>4, <2>1, <2>2 DEF SameDevices, Cached, Registered
<1>5. ASSUME NEW p \in Senders, PrepareBundle(p) \/ Reconcile(p) PROVE SameDevices'
  <2>1. {} \in SUBSET Devices /\ drop[p] \in SUBSET Devices
    BY DEF Types
  <2> QED
    BY <1>4, <1>5, <2>1 DEF PrepareBundle, Reconcile
<1> QED
  BY <1>1, <1>2, <1>3, <1>5 DEF Next, Step, vars, Join, Leave, PeerOpens, Start, PrepareFast,
                 NoTargets, PutAccepted, Rejected, PrepareFails, PutLost, AnswerLost, Fault

-----------------------------------------------------------------------------
(* Calm: a change, an opened session and a start end it when a send is     *)
(* under way; a fault always does.                                         *)
LEMMA AloneStep == Types /\ Alone /\ [Next]_vars => Alone'
<1> SUFFICES ASSUME Types, Alone, [Next]_vars, calm'
             PROVE  /\ \A p, q \in Sending' : p = q
                    /\ \A p \in Sending' : ~disturbed'[p]
  BY DEF Alone
<1> USE DEF server, account, sender, counters, history
<1>1. ASSUME calm, UNCHANGED disturbed, Sending' \subseteq Sending
      PROVE  /\ \A p, q \in Sending' : p = q
             /\ \A p \in Sending' : ~disturbed'[p]
  BY <1>1 DEF Alone, Sending
<1>2. CASE UNCHANGED vars
  BY <1>1, <1>2 DEF vars, Sending
<1>3. ASSUME Sending' = {}
      PROVE  /\ \A p, q \in Sending' : p = q
             /\ \A p \in Sending' : ~disturbed'[p]
  BY <1>3
<1>4. ASSUME NEW d \in Devices, Join(d) \/ Leave(d) \/ Reinstall(d) \/ PeerOpens(d)
      PROVE  Sending' = {}
  BY <1>4 DEF Join, Leave, Reinstall, PeerOpens, Install, Disturb, Sending
<1>5. ASSUME NEW p \in Senders, Start(p)
      PROVE  /\ \A q, r \in Sending' : q = r
             /\ \A q \in Sending' : ~disturbed'[q]
  <2>1. Sending = {} /\ pc' = [pc EXCEPT ![p] = "prepare"]
        /\ disturbed' = [disturbed EXCEPT ![p] = FALSE]
    BY <1>5 DEF Start
  <2>2. Sending' = {p}
    BY <2>1 DEF Sending, Types
  <2>3. disturbed'[p] = FALSE
    BY <2>1 DEF Types
  <2> QED
    BY <2>2, <2>3
<1>6. ASSUME NEW p \in Senders, Step(p)
      PROVE  calm /\ UNCHANGED disturbed /\ Sending' \subseteq Sending
  BY <1>6 DEF Step, PrepareFast, PrepareBundle, Reconcile, NoTargets, PutAccepted, Rejected,
              Finish, Fail, Putting, Sending, Types
<1>7. ASSUME NEW p \in Senders, PrepareFails(p) \/ PutLost(p) \/ AnswerLost(p)
      PROVE  FALSE
  BY <1>7 DEF PrepareFails, PutLost, AnswerLost, Fault
<1> QED
  BY <1>1, <1>2, <1>3, <1>4, <1>5, <1>6, <1>7 DEF Next

-----------------------------------------------------------------------------
(* What is readable, step by step.  In each lemma all is calm and mild.    *)

Readable == unreadable = {} /\ Sound /\ Whispers /\ Sources /\ Drops

Quiet == \A p \in Senders : pc[p] = "idle"

(* A change of the recipient's devices, with no send under way.            *)
LEMMA ChangeKeeps ==
  ASSUME Types, Installed, Readable, Quiet, NEW d \in Devices,
         \/ Join(d) \/ Leave(d) \/ Reinstall(d) \/ PeerOpens(d), Mild'
  PROVE  Readable'
<1> USE DEF server, account, sender, counters, history
<1>0. UNCHANGED <<cache, pc, unreadable>>
  BY DEF Join, Leave, Reinstall, PeerOpens
<1>1. Quiet' /\ unreadable' = {}
  BY <1>0 DEF Quiet, Readable
<1>2. \A e \in Registered : sess[e] # 0 /\ Trusted(e) => sess[e] \in known[e]
  BY DEF Readable, Sound, Teaches, Quiet, Posting
<1>3. ASSUME Join(d) PROVE \A e \in Registered' : sess'[e] # 0 /\ Trusted(e)' => sess'[e] \in known'[e]
  <2>1. /\ installs[d] = 0 /\ joins' = joins + 1 /\ UNCHANGED <<sess, reinstalls>>
        /\ reg' = [reg EXCEPT ![d] = installs[d] + 1] /\ known' = [known EXCEPT ![d] = {}]
    BY <1>3 DEF Join, Install
  <2>2. reinstalls = 0
    BY <2>1 DEF Mild, Types
  <2>3. sess[d] = 0
    BY <2>1 DEF Installed
  <2> QED
    BY <1>2, <2>1, <2>2, <2>3 DEF Registered, Trusted, Types, Maps
<1>4. ASSUME Leave(d) PROVE \A e \in Registered' : sess'[e] # 0 /\ Trusted(e)' => sess'[e] \in known'[e]
  <2>1. /\ joins' = joins + 1 /\ UNCHANGED <<sess, reinstalls, known>>
        /\ reg' = [reg EXCEPT ![d] = 0]
    BY <1>4 DEF Leave
  <2>2. reinstalls = 0
    BY <2>1 DEF Mild, Types
  <2> QED
    BY <1>2, <2>1, <2>2 DEF Registered, Trusted, Types, Maps
<1>5. ASSUME Reinstall(d) PROVE \A e \in Registered' : sess'[e] # 0 /\ Trusted(e)' => sess'[e] \in known'[e]
  <2>1. /\ reinstalls' = reinstalls + 1 /\ UNCHANGED <<sess, cache>>
        /\ reg' = [reg EXCEPT ![d] = installs[d] + 1] /\ known' = [known EXCEPT ![d] = {}]
    BY <1>5 DEF Reinstall, Install
  <2>2. reinstalls' # 0 /\ cache'[d] # reg'[d]
    BY <2>1 DEF Installed, Types, Maps
  <2>3. \A e \in Registered' : Trusted(e)' => e # d /\ e \in Registered /\ Trusted(e)
    BY <2>1, <2>2 DEF Registered, Trusted, Types, Maps
  <2> QED
    BY <1>2, <2>1, <2>3 DEF Registered, Types
<1>6. ASSUME PeerOpens(d) PROVE \A e \in Registered' : sess'[e] # 0 /\ Trusted(e)' => sess'[e] \in known'[e]
  <2>1. /\ opens' = opens + 1 /\ UNCHANGED <<reg, reinstalls>>
        /\ sess' = [sess EXCEPT ![d] = opened[d] + 1]
        /\ known' = [known EXCEPT ![d] = known[d] \union {opened[d] + 1}]
    BY <1>6 DEF PeerOpens
  <2>2. reinstalls = 0
    BY <2>1 DEF Mild, Types
  <2> QED
    BY <1>2, <2>1, <2>2 DEF Registered, Trusted, Types, Maps
<1>7. \A e \in Registered' : sess'[e] # 0 /\ Trusted(e)' => sess'[e] \in known'[e]
  BY <1>3, <1>4, <1>5, <1>6
<1>8. (Quiet /\ unreadable = {}
        /\ (\A e \in Registered : sess[e] # 0 /\ Trusted(e) => sess[e] \in known[e]))'
      => Readable'
  BY DEF Quiet, Readable, Sound, Whispers, Sources, Drops, Posting
<1> QED
  BY <1>1, <1>7, <1>8

(* A send that is alone: what its end needs, and what it makes of the      *)
(* account.                                                                *)
Only(p) == \A q \in Senders \ {p} : pc[q] = "idle"

LEMMA EndKeeps ==
  ASSUME NEW p \in Senders, Only(p), Types, Finish(p), unreadable' = {},
         \A d \in Registered' : sess'[d] # 0 /\ Trusted(d)' => sess'[d] \in known'[d]
  PROVE  Readable'
<1>1. \A q \in Senders : pc'[q] = "idle"
  BY FinishTypes DEF Only
<1> QED
  BY <1>1 DEF Readable, Sound, Whispers, Sources, Drops, Posting

LEMMA BundleKeeps ==
  ASSUME NEW p \in Senders, Only(p), Types, Readable, NEW ids \in SUBSET Devices,
         BuildFromBundle(p, ids), UNCHANGED <<reg, known, reinstalls, unreadable>>,
         NEW to \in {"put", "retry"}, pc' = [pc EXCEPT ![p] = to],
         \A d \in Registered : sess[d] # 0 /\ d \notin ids => sess[d] \in known[d]
  PROVE  Readable'
<1>1. /\ pc'[p] = to /\ \A q \in Senders : q # p => pc'[q] = "idle"
  BY DEF Only, Types
<1>2. Registered' = Registered /\ Posting(p)'
  BY <1>1 DEF Registered, Posting
<1>3. Sound'
  <2>1. ASSUME NEW d \in Registered PROVE sess'[d] \in known[d] \/ Teaches(d)'
    <3>1. \/ sess[d] # 0 /\ sess'[d] = sess[d] /\ d \notin ids
          \/ \E m \in out'[p] : m.dev = d /\ m.prekey /\ m.session = sess'[d]
      BY BundleEffect
    <3> QED
      BY <1>2, <3>1 DEF Teaches
  <2> QED
    BY <1>2, <2>1 DEF Sound
<1>4. Whispers'
  <2>1. \A m \in out'[p] : ~m.prekey => m.session \in known[m.dev]
    BY BundleEffect
  <2> QED
    BY <1>1, <2>1 DEF Whispers, Posting
<1>5. Sources'
  BY <1>1, BundleIsExact DEF Sources
<1>6. Drops'
  BY <1>1 DEF Drops
<1> QED
  BY <1>3, <1>4, <1>5, <1>6 DEF Readable

LEMMA PrepareKeeps ==
  ASSUME ReadInv, Readable, Mild, NEW p \in Senders, Only(p),
         PrepareFast(p) \/ PrepareBundle(p) \/ Reconcile(p)
  PROVE  Readable'
<1> USE DEF server, account, sender, counters, history
<1>0. Types /\ Installed /\ SameDevices /\ CachedHaveSessions
  BY DEF ReadInv
<1>1. ~Posting(p) /\ \A d \in Devices : ~Teaches(d)
  BY DEF PrepareFast, PrepareBundle, Reconcile, Posting, Teaches, Only
<1>2. \A d \in Registered : sess[d] # 0 /\ Trusted(d) => sess[d] \in known[d]
  BY <1>1 DEF Readable, Sound, Registered
<1>3. CASE PrepareFast(p)
  <2>1. /\ CanFast /\ pc' = [pc EXCEPT ![p] = "put"]
        /\ UNCHANGED <<reg, known, sess, cache, reinstalls, unreadable>>
        /\ out' = [out EXCEPT ![p] =
             {[dev |-> d, prekey |-> FALSE, reg |-> cache[d], session |-> sess[d]] : d \in Cached}]
    BY <1>3 DEF PrepareFast
  <2>2. /\ pc'[p] = "put" /\ \A q \in Senders : q # p => pc'[q] = "idle"
        /\ out'[p] =
             {[dev |-> d, prekey |-> FALSE, reg |-> cache[d], session |-> sess[d]] : d \in Cached}
    BY <1>0, <2>1 DEF Only, Types
  <2>3. /\ \A m \in out'[p] : /\ m.dev \in Cached /\ ~m.prekey
                              /\ m.reg = cache[m.dev] /\ m.session = sess[m.dev]
        /\ {m.dev : m \in out'[p]} = Cached
    <3> DEFINE W(d) == [dev |-> d, prekey |-> FALSE, reg |-> cache[d], session |-> sess[d]]
    <3>1. \A d \in Cached : W(d).dev = d /\ W(d).reg = cache[d] /\ W(d).session = sess[d]
      OBVIOUS
    <3>2. \A d \in Cached : ~W(d).prekey
      OBVIOUS
    <3>3. out'[p] = {W(d) : d \in Cached}
      BY <2>2
    <3> HIDE DEF W
    <3> QED
      BY <3>1, <3>2, <3>3
  <2>4. Cached # {} /\ \A d \in Cached : sess[d] # 0
    BY <2>1 DEF CanFast
  <2>5. Cached' = Cached /\ Registered' = Registered
    BY <2>1 DEF Cached, Registered
  <2>6. Sound'
    BY <1>2, <2>1, <2>5 DEF Sound, Trusted
  <2>7. ASSUME NEW m \in out'[p], m.dev \in Registered, m.reg = reg[m.dev]
        PROVE  m.session \in known[m.dev]
    BY <1>2, <2>3, <2>4, <2>7 DEF Trusted
  <2>8. Whispers'
    BY <2>1, <2>2, <2>5, <2>7 DEF Whispers, Posting
  <2>9. FromCache(p)'
    BY <2>1, <2>3, <2>4, <2>5 DEF FromCache, Addressed
  <2>10. Sources' /\ Drops'
    BY <2>2, <2>9 DEF Sources, Drops
  <2> QED
    BY <2>1, <2>6, <2>8, <2>10 DEF Readable
<1>4. CASE PrepareBundle(p)
  <2>1. /\ ~CanFast /\ BuildFromBundle(p, {}) /\ pc' = [pc EXCEPT ![p] = "put"]
        /\ UNCHANGED <<reg, known, reinstalls, unreadable>>
    BY <1>4 DEF PrepareBundle
  <2>2. Cached = {}
    BY <1>0, <2>1 DEF CanFast, CachedHaveSessions
  <2>3. ASSUME NEW d \in Registered, sess[d] # 0 PROVE sess[d] \in known[d]
    <3>1. d \in Devices /\ cache[d] = 0
      BY <2>2 DEF Cached, Registered
    <3>2. reinstalls = 0
      BY <1>0, <2>3, <3>1 DEF Mild, SameDevices
    <3> QED
      BY <1>2, <2>3, <3>2 DEF Trusted
  <2> QED
    BY <1>0, <2>1, <2>3, BundleKeeps
<1>5. CASE Reconcile(p)
  <2>1. /\ pc[p] = "reconcile" /\ BuildFromBundle(p, drop[p]) /\ pc' = [pc EXCEPT ![p] = "retry"]
        /\ UNCHANGED <<reg, known, reinstalls, unreadable>>
    BY <1>5 DEF Reconcile
  <2>2. drop[p] \in SUBSET Devices
    BY <1>0 DEF Types
  <2>3. \A d \in Registered : sess[d] # 0 /\ d \notin drop[p] => sess[d] \in known[d]
    BY <1>2, <2>1 DEF Readable, Drops, Trusted
  <2> QED
    BY <1>0, <2>1, <2>2, <2>3, BundleKeeps
<1> QED
  BY <1>3, <1>4, <1>5

(* The devices that get exactly what they are sent can decrypt it.         *)
LEMMA AcceptKeeps ==
  ASSUME ReadInv, Readable, NEW p \in Senders, Only(p), PutAccepted(p)
  PROVE  Readable'
<1> USE DEF server, account, sender, counters, history
<1>0. /\ Types /\ Posting(p) /\ Exact(p) /\ Finish(p)
      /\ UNCHANGED <<reg, sess, cache, reinstalls>>
      /\ known' = [d \in Devices |->
           known[d] \union {m.session : m \in {n \in out[p] : n.dev = d /\ n.prekey}}]
      /\ unreadable' = unreadable \union
           {m \in out[p] : ~m.prekey /\ m.session \notin known[m.dev]}
  BY DEF ReadInv, PutAccepted, Putting, Posting, Accept, Exact
<1>1. \A m \in out[p] : m.dev \in Registered /\ m.reg = reg[m.dev]
  BY <1>0 DEF Exact, Mismatched, Stale, Addressed
<1>2. unreadable' = {}
  BY <1>0, <1>1 DEF Readable, Whispers
<1>3. ASSUME NEW d \in Registered, sess[d] # 0, Trusted(d) PROVE sess[d] \in known'[d]
  <2>1. d \in Devices
    BY DEF Registered
  <2>2. CASE sess[d] \in known[d]
    BY <1>0, <2>1, <2>2
  <2>3. CASE Teaches(d)
    <3>1. PICK m \in out[p] : m.dev = d /\ m.prekey /\ m.session = sess[d]
      BY <2>3 DEF Teaches, Only, Posting
    <3> QED
      BY <1>0, <2>1, <3>1
  <2> QED
    BY <1>3, <2>2, <2>3 DEF Readable, Sound
<1>4. Registered' = Registered /\ \A d \in Devices : Trusted(d)' => Trusted(d)
  BY <1>0 DEF Registered, Trusted
<1> QED
  BY <1>0, <1>2, <1>3, <1>4, EndKeeps DEF Registered

(* A rejection names every device that is not as we knew it.               *)
LEMMA RejectKeeps ==
  ASSUME ReadInv, Readable, Mild, NEW p \in Senders, Only(p), calm, Rejected(p)
  PROVE  Readable'
<1> USE DEF server, account, sender, counters, history
<1>0. /\ Types /\ SameDevices
      /\ ~Exact(p) /\ Putting(p)
      /\ UNCHANGED <<reg, known, sess, cache, reinstalls, joins, opens, unreadable>>
  BY DEF ReadInv, Rejected, Exact
<1>1. pc[p] # "retry"
  <2>1. pc[p] # "idle" => ~disturbed[p]
    BY DEF ReadInv, Alone, Sending
  <2> QED
    BY <1>0, <2>1 DEF ReadInv, RetryInv
<1>2. pc[p] = "put" /\ FromCache(p)
  BY <1>0, <1>1 DEF Putting, Readable, Sources
<1>3. /\ pc' = [pc EXCEPT ![p] = "reconcile"]
      /\ drop' = [drop EXCEPT ![p] = IF Mismatched(p) # {} THEN Mismatched(p) ELSE Stale(p)]
  BY <1>1 DEF Rejected
<1>4. /\ pc'[p] = "reconcile" /\ \A q \in Senders : q # p => pc'[q] = "idle"
      /\ drop'[p] = IF Mismatched(p) # {} THEN Mismatched(p) ELSE Stale(p)
  BY <1>0, <1>3 DEF Only, Types
<1>5. \A d \in Devices : ~Teaches(d)
  BY <1>2 DEF Teaches, Only, Posting, FromCache
<1>6. Registered' = Registered
  BY <1>0 DEF Registered
<1>7. Sound'
  BY <1>0, <1>5, <1>6 DEF Readable, Sound, Trusted, Registered
<1>8. Whispers' /\ Sources'
  BY <1>4 DEF Whispers, Sources, Posting
<1>9. ASSUME reinstalls # 0, NEW d \in Registered, cache[d] # reg[d]
      PROVE  d \in drop'[p]
  <2>1. Cached = Registered
    BY <1>0, <1>2, <1>9 DEF Mild, SameDevices, FromCache
  <2>2. Addressed(p) = Registered
    BY <1>2, <2>1 DEF FromCache
  <2>3. Mismatched(p) = {}
    BY <2>2 DEF Mismatched
  <2>4. PICK m \in out[p] : m.dev = d
    BY <2>2 DEF Addressed
  <2>5. m.reg = cache[d]
    BY <1>2, <2>4 DEF FromCache
  <2>6. d \in Stale(p)
    BY <1>9, <2>4, <2>5 DEF Stale
  <2> QED
    BY <1>4, <2>3, <2>6
<1>10. Drops'
  BY <1>0, <1>4, <1>6, <1>9 DEF Drops
<1> QED
  BY <1>0, <1>7, <1>8, <1>10 DEF Readable

LEMMA CalmStep == ReadInv /\ [Next]_vars => CalmInv'
<1> SUFFICES ASSUME ReadInv, [Next]_vars, calm', Mild' PROVE Readable'
  BY DEF CalmInv, Readable
<1> USE DEF server, account, sender, counters, history
<1>0. Types /\ Installed
  BY DEF ReadInv
<1>2. ASSUME NEW p \in Senders, PrepareFails(p) \/ PutLost(p) \/ AnswerLost(p) PROVE Readable'
  BY <1>2 DEF PrepareFails, PutLost, AnswerLost, Fault
<1>3. ASSUME calm, Mild PROVE Readable
  BY <1>3 DEF ReadInv, CalmInv, Readable
<1>1. CASE UNCHANGED vars
  <2>1. Readable
    BY <1>1, <1>3 DEF vars, Mild
  <2>2. Registered' = Registered /\ Cached' = Cached
    BY <1>1 DEF vars, Registered, Cached
  <2>3. Sound' /\ Whispers' /\ Drops'
    BY <1>1, <2>1, <2>2 DEF vars, Readable, Sound, Whispers, Drops, Trusted, Teaches, Posting
  <2>4. \A p \in Senders : (Exact(p) => Exact(p)') /\ (FromCache(p) => FromCache(p)')
    BY <1>1, <2>2 DEF vars, Exact, FromCache, Mismatched, Stale, Addressed
  <2>5. Sources'
    BY <1>1, <2>1, <2>4 DEF vars, Readable, Sources
  <2> QED
    BY <1>1, <2>1, <2>3, <2>5 DEF vars, Readable
<1>4. ASSUME NEW d \in Devices, Join(d) \/ Leave(d) \/ Reinstall(d) \/ PeerOpens(d)
      PROVE  Readable'
  <2>1. calm /\ Quiet
    BY <1>4 DEF Join, Leave, Reinstall, PeerOpens, Install, Disturb, Sending, Quiet
  <2>2. Mild
    <3>1. joins' \in {joins, joins + 1} /\ opens' \in {opens, opens + 1}
          /\ reinstalls' \in {reinstalls, reinstalls + 1}
      BY <1>4 DEF Join, Leave, Reinstall, PeerOpens
    <3> QED
      BY <1>0, <3>1 DEF Mild, Types
  <2> QED
    BY <1>0, <1>3, <1>4, <2>1, <2>2, ChangeKeeps
<1>5. ASSUME NEW p \in Senders, Start(p) PROVE Readable'
  <2>1. /\ calm /\ Quiet /\ pc' = [pc EXCEPT ![p] = "prepare"]
        /\ UNCHANGED <<reg, known, sess, cache, out, joins, opens, reinstalls, unreadable>>
    BY <1>5 DEF Start, Sending, Quiet
  <2>2. \A q \in Senders : pc'[q] \in {"idle", "prepare"}
    BY <1>0, <2>1 DEF Quiet, Types
  <2>3. Readable
    BY <1>3, <2>1 DEF Mild
  <2>4. Sound'
    BY <2>1, <2>3 DEF Readable, Sound, Teaches, Quiet, Posting, Registered, Trusted
  <2>5. Whispers' /\ Sources' /\ Drops'
    BY <2>2 DEF Whispers, Sources, Drops, Posting
  <2> QED
    BY <2>1, <2>3, <2>4, <2>5 DEF Readable
<1>6. ASSUME NEW p \in Senders, Step(p) PROVE Readable'
  <2>1. calm /\ Mild /\ pc[p] # "idle"
    BY <1>6 DEF Step, PrepareFast, PrepareBundle, Reconcile, NoTargets, PutAccepted, Rejected,
                Putting, Mild
  <2>2. Only(p)
    BY <2>1 DEF ReadInv, Alone, Sending, Only
  <2>3. Readable
    BY <1>3, <2>1
  <2>4. CASE PrepareFast(p) \/ PrepareBundle(p) \/ Reconcile(p)
    BY <2>1, <2>2, <2>3, <2>4, PrepareKeeps
  <2>5. CASE NoTargets(p)
    <3>1. /\ out[p] = {} /\ Finish(p)
          /\ UNCHANGED <<reg, known, sess, cache, reinstalls, unreadable>>
      BY <2>5 DEF NoTargets
    <3>2. \A d \in Devices : ~Teaches(d)
      BY <2>2, <3>1 DEF Teaches, Only, Posting
    <3>3. \A d \in Registered : sess[d] # 0 /\ Trusted(d) => sess[d] \in known[d]
      BY <2>3, <3>2 DEF Readable, Sound, Registered
    <3> QED
      BY <1>0, <2>2, <2>3, <3>1, <3>3, EndKeeps DEF Registered, Trusted, Readable
  <2>6. CASE PutAccepted(p)
    BY <2>2, <2>3, <2>6, AcceptKeeps
  <2>7. CASE Rejected(p)
    BY <2>1, <2>2, <2>3, <2>7, RejectKeeps
  <2> QED
    BY <1>6, <2>4, <2>5, <2>6, <2>7 DEF Step
<1> QED
  BY <1>1, <1>2, <1>4, <1>5, <1>6 DEF Next

LEMMA ReadStep == ReadInv /\ [Next]_vars => ReadInv'
  BY TypesStep, CachedStep, RetryStep, InstalledStep, SameDevicesStep, AloneStep, CalmStep
     DEF ReadInv

LEMMA ReadImplies == ReadInv => ReadableAfterChanges
<1> SUFFICES ASSUME ReadInv, calm, reinstalls = 0 \/ joins + opens = 0 PROVE unreadable = {}
  BY DEF ReadableAfterChanges, AcceptedReadable
<1>1. Mild
  BY DEF Mild, ReadInv, Types
<1> QED
  BY <1>1 DEF ReadInv, CalmInv

(* Whatever the recipient's devices did before a send, what the server     *)
(* accepts of it can be decrypted (_prepare_outgoing: drop_ids, the cached *)
(* devices that vanished).                                                 *)
THEOREM AcceptedIsReadable == Spec => []ReadableAfterChanges
<1>1. Init => ReadInv
  BY TypesInit, CachedInit, RetryInit, ReadInit DEF ReadInv
<1> QED
  BY <1>1, ReadStep, ReadImplies, PTL DEF Spec
==============================================================================
