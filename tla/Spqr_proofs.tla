----------------------------- MODULE Spqr_proofs -----------------------------
(***************************************************************************)
(* Proofs about the post-quantum ratchet, native/pure/spqr.py: the epochs  *)
(* of a session (Spqr) and the message keys of one direction of one epoch  *)
(* (KeyWindow), for every value of their constants.                        *)
(*                                                                         *)
(* Spqr.  NothingBreaks is about what a receiver finds in a chunk, so the  *)
(* inductive invariant has to say what both parties stand for: a joint     *)
(* phase (Exchange while they are in one epoch, Handover while one of them *)
(* has ended it), which of their states go together (InStep), and what     *)
(* each has stored of the key and the secret of the epoch (OfferData,      *)
(* AnswerData).  The messages under way tell the truth about their sender  *)
(* as long as its epoch lasts (MessageOK); that every step within an epoch *)
(* leaves them true is Advances.  The refinement of EpochAgreement follows *)
(* from the same invariant.                                                *)
(*                                                                         *)
(* KeyWindow.  NoKeyTwice is not inductive: it needs to know that a kept   *)
(* key was never handed out (KeptUnused) and that nothing beyond the chain *)
(* was (AheadUnused).  RefusalsJustified needs the converse: every unused  *)
(* key inside the window is kept (WindowKept), and the chain's own key is  *)
(* used (ChainKeyUsed).  StoreBounded needs only that gc cuts the store    *)
(* down to an interval of MaxOoo + 1 numbers.                              *)
(***************************************************************************)
EXTENDS Spqr, KeyWindow, FiniteSetTheorems, SequenceTheorems, TLAPS

-----------------------------------------------------------------------------
(* Spqr: the invariant.                                                    *)

(* The states of the party that offers the key of the epoch.               *)
OfferKinds == {"keys_unsampled", "keys_sampled", "header_sent", "ct1_received",
               "ek_sent_ct1_received"}

(* The states of the answering party once it has encapsulated: the secret  *)
(* of the epoch is fixed.                                                  *)
BoundKinds == {"ct1_sampled", "ek_received_ct1_sampled", "ct1_acknowledged",
               "ct2_sampled"}

(* The fields of a state.                                                  *)
Fields == {"kind", "epoch", "auth", "hdr", "ek", "dk", "es", "ct1", "sending",
           "receiving"}

(* Which states of the offering party s and the answering party t of one   *)
(* epoch go together.                                                      *)
InStep(s, t) ==
  \/ s.kind = "keys_unsampled" /\ t.kind = "no_header_received"
  \/ /\ s.kind = "keys_sampled"
     /\ t.kind \in {"no_header_received", "header_received", "ct1_sampled"}
  \/ /\ s.kind = "header_sent"
     /\ t.kind \in {"ct1_sampled", "ek_received_ct1_sampled"}
  \/ s.kind = "ct1_received" /\ t.kind \in BoundKinds
  \/ s.kind = "ek_sent_ct1_received" /\ t.kind = "ct2_sampled"

(* The bodies the parties cut into chunks, told from what the invariant    *)
(* keeps of them: the key s offers and the secret t answered with.         *)
HdrOf(s) == <<"hdr", s.dk, s.auth>>
EkOf(s) == <<"ek", s.dk>>
SecretOf(t) == t.auth[t.epoch]
Ct1Of(t) == <<"ct1", SecretOf(t)>>
Ct2Of(t) == <<"ct2", SecretOf(t), <<t.auth, SecretOf(t)>>>>

(* A decoder with at least one chunk, all of them of this body.            *)
Holds(d, body) == d = <<d[1], d[2]>> /\ d[1] \in Nat \ {0} /\ d[2] = body

(* What the offering party s has stored, in each of its states.            *)
OfferData(s, t) ==
  /\ s.kind = "keys_sampled" => s.ek = s.dk /\ s.sending = HdrOf(s)
  /\ s.kind \in {"header_sent", "ct1_received"} => s.sending = EkOf(s)
  /\ s.kind = "header_sent" => Holds(s.receiving, Ct1Of(t))
  /\ s.kind \in {"ct1_received", "ek_sent_ct1_received"} => s.ct1 = SecretOf(t)
  /\ s.kind = "ek_sent_ct1_received" => Holds(s.receiving, Ct2Of(t))

(* What the answering party t has stored, in each of its states.           *)
AnswerData(s, t) ==
  /\ t.kind = "no_header_received" =>
       \/ t.receiving = EmptyDecoder
       \/ s.kind # "keys_unsampled" /\ Holds(t.receiving, HdrOf(s))
  /\ t.kind \in {"header_received", "ct1_sampled", "ct1_acknowledged"} => t.hdr = s.dk
  /\ t.kind = "header_received" => t.receiving = EmptyDecoder
  /\ t.kind = "ct1_sampled" =>
       t.receiving = EmptyDecoder \/ Holds(t.receiving, EkOf(s))
  /\ t.kind = "ct1_acknowledged" => Holds(t.receiving, EkOf(s))
  /\ t.kind = "ek_received_ct1_sampled" => t.ek = s.dk
  /\ t.kind \in {"ct1_sampled", "ct1_acknowledged", "ek_received_ct1_sampled"} =>
       SecretOf(t) = <<s.dk, t.es>> /\ t.ct1 = SecretOf(t)
  /\ t.kind \in {"ct1_sampled", "ek_received_ct1_sampled"} => t.sending = Ct1Of(t)
  /\ t.kind = "ct2_sampled" => t.sending = Ct2Of(t)

(* Both parties are in one epoch: s offers and t answers.  Before t has    *)
(* encapsulated the chains are equal, afterwards t is one secret ahead.    *)
(* Samples come by turns, so their number is known too.                    *)
Exchange(s, t, n) ==
  /\ s.epoch = t.epoch /\ InStep(s, t)
  /\ s.kind # "keys_unsampled" => s.epoch <= MaxEpoch /\ s.dk \in 1..n
  /\ t.kind \notin BoundKinds =>
       /\ t.auth = s.auth
       /\ n = IF s.kind = "keys_unsampled" THEN 2 * s.epoch - 2
                                          ELSE 2 * s.epoch - 1
  /\ t.kind \in BoundKinds =>
       /\ t.auth = Append(s.auth, SecretOf(t)) /\ n = 2 * s.epoch
       /\ SecretOf(t) \in Nat \X Nat /\ SecretOf(t)[1] = s.dk
  /\ OfferData(s, t) /\ AnswerData(s, t)

(* s has finished the epoch and t, whose second part it decoded, has not   *)
(* yet heard of the next one.                                              *)
Handover(s, t, n) ==
  /\ s.kind = "no_header_received" /\ t.kind = "ct2_sampled"
  /\ s.epoch = t.epoch + 1 /\ t.epoch <= MaxEpoch
  /\ s.auth = t.auth /\ n = 2 * t.epoch
  /\ s.receiving = EmptyDecoder

(* A offers in the odd epochs, B in the even ones.                         *)
Turn(p, e) == p = IF e % 2 = 1 THEN A ELSE B

(* The joint phase of the session.                                         *)
Round == \E p \in Party :
  \/ Exchange(st[p], st[Peer(p)], samples) /\ Turn(p, st[p].epoch)
  \/ Handover(st[p], st[Peer(p)], samples) /\ Turn(Peer(p), st[p].epoch)

(* Secrets made of at most n samples.                                      *)
Pairs(n) == (0..n) \X (0..n)

(* A state as a call leaves it: saved, in bounds, and with the secrets of  *)
(* its epochs mixed in.                                                    *)
IsState(s, n) ==
  /\ DOMAIN s = Fields /\ s.kind \in Kinds /\ Save(s) = s
  /\ s.epoch \in 1..(MaxEpoch + 1)
  /\ s.auth \in Seq(Pairs(n))
  /\ Len(s.auth) = IF s.kind \in BoundKinds THEN s.epoch ELSE s.epoch - 1
  /\ {s.hdr, s.ek, s.dk, s.es} \subseteq 0..n
  /\ s.ct1 \in Pairs(n) \union {None}

(* A chain in step with the state it is stored with.                       *)
IsChain(c, s) ==
  /\ DOMAIN c = {"secrets", "sendEpoch", "oldest"} /\ c.secrets = s.auth
  /\ c.sendEpoch \in 0..(s.epoch - 1)
  /\ c.sendEpoch <= MaxEpoch
  /\ c.oldest \in 0..c.sendEpoch
  /\ c.oldest > 0 => c.oldest + 1 <= c.sendEpoch

(* A chunk or an acknowledgement of the epoch of its sender s tells how    *)
(* far s has come, and the chunk is of the body s still stands for.        *)
Sent(s, m) ==
  /\ m.type = "hdr" =>
       s.kind \in OfferKinds \ {"keys_unsampled"} /\ m.chunk = HdrOf(s)
  /\ m.type = "ek" =>
       /\ s.kind \in OfferKinds \ {"keys_unsampled", "keys_sampled"}
       /\ m.chunk = EkOf(s)
  /\ m.type = "ek_ct1_ack" =>
       s.kind \in {"ct1_received", "ek_sent_ct1_received"} /\ m.chunk = EkOf(s)
  /\ m.type = "ct1_ack" => s.kind = "ek_sent_ct1_received"
  /\ m.type = "ct1" => s.kind \in BoundKinds /\ m.chunk = Ct1Of(s)
  /\ m.type = "ct2" => s.kind = "ct2_sampled" /\ m.chunk = Ct2Of(s)

(* A message from s to r is from no epoch after the sender's; one from the *)
(* future of the receiver carries nothing; one of the epoch of both tells  *)
(* the truth about s.                                                      *)
MessageOK(r, s, m) ==
  /\ m.epoch \in 1..s.epoch /\ m.epoch <= MaxEpoch
  /\ m.epoch > r.epoch => m.type = "none"
  /\ m.epoch = r.epoch /\ r.epoch = s.epoch => Sent(s, m)

(* The inductive invariant.                                                *)
IInv ==
  /\ samples \in Nat /\ DOMAIN st = Party /\ DOMAIN chain = Party /\ DOMAIN net = Party
  /\ \A p \in Party :
       /\ IsState(st[p], samples) /\ IsChain(chain[p], st[p])
       /\ IsABag(net[p])
       /\ \A m \in BagToSet(net[p]) : MessageOK(st[p], st[Peer(p)], m)
  /\ Round

-----------------------------------------------------------------------------
(* Spqr: states, messages and steps.                                       *)

(* There are two parties.                                                  *)
LEMMA PeerOther ==
  ASSUME NEW p \in Party
  PROVE  /\ Peer(p) \in Party /\ Peer(p) # p /\ Peer(Peer(p)) = p
         /\ Party = {p, Peer(p)}
BY SpqrAssumption DEF Peer, Party

(* What a stored state keeps of a state, and that storing is idempotent.   *)
LEMMA SaveFields ==
  ASSUME NEW s, DOMAIN s = Fields, s.kind \in Kinds
  PROVE  /\ DOMAIN Save(s) = Fields
         /\ Save(s).kind = s.kind
         /\ Save(s).epoch = s.epoch
         /\ Save(s).auth = s.auth
         /\ \A f \in Fields : Save(s)[f] = s[f] \/ Save(s)[f] = Blank[f]
         /\ \A f \in Stored[s.kind] : Save(s)[f] = s[f]
         /\ Save(Save(s)) = Save(s)
<1>1. /\ {"kind", "epoch", "auth"} \subseteq Fields
      /\ Stored[s.kind] \subseteq Fields
      /\ Blank.kind = "keys_unsampled"
  BY DEF Fields, Kinds, Stored, Blank
<1>2. /\ DOMAIN Save(s) = Fields
      /\ \A f \in Fields :
           Save(s)[f] = IF f \in {"kind", "epoch", "auth"} \union Stored[s.kind]
                        THEN s[f] ELSE Blank[f]
  BY DEF Save
<1>3. Save(s).kind = s.kind
  BY <1>1, <1>2
<1>4. Save(Save(s)) = [f \in Fields |->
              IF f \in {"kind", "epoch", "auth"} \union Stored[s.kind]
              THEN Save(s)[f] ELSE Blank[f]]
  BY <1>2, <1>3 DEF Save
<1>5. Save(s) = [f \in Fields |->
              IF f \in {"kind", "epoch", "auth"} \union Stored[s.kind]
              THEN s[f] ELSE Blank[f]]
  BY <1>2 DEF Save
<1>6. Save(Save(s)) = Save(s)
  BY <1>1, <1>2, <1>4, <1>5
<1> QED BY <1>1, <1>2, <1>3, <1>6

(* Every field of a stored state is kept or blank; the fields its kind     *)
(* stores are kept.                                                        *)
LEMMA SavedFields ==
  ASSUME NEW s, DOMAIN s = Fields, s.kind \in Kinds
  PROVE  /\ Save(s).hdr \in {s.hdr, 0} /\ Save(s).ek \in {s.ek, 0}
         /\ Save(s).dk \in {s.dk, 0} /\ Save(s).es \in {s.es, 0}
         /\ Save(s).ct1 \in {s.ct1, None}
         /\ "hdr" \in Stored[s.kind] => Save(s).hdr = s.hdr
         /\ "ek" \in Stored[s.kind] => Save(s).ek = s.ek
         /\ "dk" \in Stored[s.kind] => Save(s).dk = s.dk
         /\ "es" \in Stored[s.kind] => Save(s).es = s.es
         /\ "ct1" \in Stored[s.kind] => Save(s).ct1 = s.ct1
         /\ "sending" \in Stored[s.kind] => Save(s).sending = s.sending
         /\ "receiving" \in Stored[s.kind] => Save(s).receiving = s.receiving
<1>1. /\ Blank.hdr = 0 /\ Blank.ek = 0 /\ Blank.dk = 0 /\ Blank.es = 0
      /\ Blank.ct1 = None
  BY DEF Blank
<1>2. \A f \in Fields : Save(s)[f] = s[f] \/ Save(s)[f] = Blank[f]
  BY SaveFields
<1>3. \A f \in Stored[s.kind] : Save(s)[f] = s[f]
  BY SaveFields
<1>4. {"hdr", "ek", "dk", "es", "ct1"} \subseteq Fields
  BY DEF Fields
<1> QED BY <1>1, <1>2, <1>3, <1>4

(* A state in bounds is in bounds when stored.                             *)
LEMMA SavedState ==
  ASSUME NEW u, NEW n \in Nat, DOMAIN u = Fields, u.kind \in Kinds,
         u.epoch \in 1..(MaxEpoch + 1), u.auth \in Seq(Pairs(n)),
         Len(u.auth) = IF u.kind \in BoundKinds THEN u.epoch ELSE u.epoch - 1,
         u.hdr \in 0..n, u.ek \in 0..n, u.dk \in 0..n, u.es \in 0..n,
         u.ct1 \in Pairs(n) \union {None}
  PROVE  /\ IsState(Save(u), n)
         /\ Save(u).kind = u.kind /\ Save(u).epoch = u.epoch
         /\ Save(u).auth = u.auth
<1> DEFINE w == Save(u)
<1>1. /\ DOMAIN w = Fields /\ w.kind = u.kind /\ w.epoch = u.epoch
      /\ w.auth = u.auth /\ Save(w) = w
  BY SaveFields
<1>2. /\ w.hdr \in {u.hdr, 0} /\ w.ek \in {u.ek, 0} /\ w.dk \in {u.dk, 0}
      /\ w.es \in {u.es, 0} /\ w.ct1 \in {u.ct1, None}
  BY SavedFields
<1> HIDE DEF w
<1>3. {w.hdr, w.ek, w.dk, w.es} \subseteq 0..n
  BY <1>2
<1>4. IsState(w, n)
  BY <1>1, <1>2, <1>3 DEF IsState
<1> QED BY <1>1, <1>4 DEF w

(* The fields stored for each kind of state.                               *)
LEMMA StoredOf ==
  /\ Stored["keys_unsampled"] = {}
  /\ Stored["keys_sampled"] = {"ek", "dk", "sending"}
  /\ Stored["header_sent"] = {"dk", "sending", "receiving"}
  /\ Stored["ct1_received"] = {"dk", "ct1", "sending"}
  /\ Stored["ek_sent_ct1_received"] = {"dk", "ct1", "receiving"}
  /\ Stored["no_header_received"] = {"receiving"}
  /\ Stored["header_received"] = {"hdr", "receiving"}
  /\ Stored["ct1_sampled"] = {"hdr", "es", "ct1", "sending", "receiving"}
  /\ Stored["ek_received_ct1_sampled"] = {"es", "ek", "ct1", "sending"}
  /\ Stored["ct1_acknowledged"] = {"hdr", "es", "ct1", "receiving"}
  /\ Stored["ct2_sampled"] = {"sending"}
BY DEF Stored

(* A message put on the wire.                                              *)
LEMMA BagAdd ==
  ASSUME NEW b, IsABag(b), NEW m
  PROVE  /\ IsABag(b (+) SetToBag({m}))
         /\ BagToSet(b (+) SetToBag({m})) = BagToSet(b) \union {m}
<1>1. \A e \in DOMAIN b : b[e] \in Nat /\ b[e] > 0
  BY DEF IsABag
<1> QED BY <1>1 DEF IsABag, BagToSet, SetToBag, (+)

(* A message taken off the wire.                                           *)
LEMMA BagRemove ==
  ASSUME NEW b, IsABag(b), NEW m
  PROVE  /\ IsABag(b (-) SetToBag({m}))
         /\ BagToSet(b (-) SetToBag({m})) \subseteq BagToSet(b)
<1>1. \A e \in DOMAIN b : b[e] \in Nat /\ b[e] > 0
  BY DEF IsABag
<1> QED BY <1>1 DEF IsABag, BagToSet, SetToBag, (-)

(* A state in bounds stays so while samples are taken.                     *)
LEMMA StateGrows ==
  ASSUME NEW s, NEW n \in Nat, NEW k \in Nat, n <= k, IsState(s, n)
  PROVE  IsState(s, k)
<1>1. 0..n \subseteq 0..k /\ Pairs(n) \subseteq Pairs(k)
  BY DEF Pairs
<1>2. s.auth \in Seq(Pairs(k))
  BY <1>1 DEF IsState
<1> QED BY <1>1, <1>2 DEF IsState

(* The joint phase as seen by party p in state s, its peer in state t.     *)
Paired(p, s, t, n) ==
  \/ Exchange(s, t, n) /\ Turn(p, s.epoch)
  \/ Exchange(t, s, n) /\ Turn(Peer(p), t.epoch)
  \/ Handover(s, t, n) /\ Turn(Peer(p), s.epoch)
  \/ Handover(t, s, n) /\ Turn(p, t.epoch)

(* Both ways of stating the joint phase agree.                             *)
LEMMA RoundIsPaired ==
  ASSUME NEW p \in Party
  PROVE  Round <=> Paired(p, st[p], st[Peer(p)], samples)
BY PeerOther DEF Round, Paired

(* What a step of one party x has to show to keep the invariant.           *)
LEMMA StepKeeps ==
  ASSUME IInv, NEW x \in Party, NEW s, NEW c, samples' \in Nat, samples <= samples',
         st' = [st EXCEPT ![x] = s], chain' = [chain EXCEPT ![x] = c],
         IsState(s, samples'), IsChain(c, s),
         DOMAIN net' = Party, \A p \in Party : IsABag(net'[p]),
         \A m \in BagToSet(net'[x]) : MessageOK(s, st[Peer(x)], m),
         \A m \in BagToSet(net'[Peer(x)]) : MessageOK(st[Peer(x)], s, m),
         Paired(x, s, st[Peer(x)], samples')
  PROVE  IInv'
<1>1. /\ DOMAIN st' = Party /\ DOMAIN chain' = Party
      /\ st'[x] = s /\ chain'[x] = c
      /\ st'[Peer(x)] = st[Peer(x)] /\ chain'[Peer(x)] = chain[Peer(x)]
  BY PeerOther DEF IInv
<1>2. IsState(st[Peer(x)], samples')
  BY StateGrows, PeerOther DEF IInv
<1>3. IsChain(chain[Peer(x)], st[Peer(x)])
  BY PeerOther DEF IInv
<1>4. Round'
  BY <1>1, PeerOther DEF Round, Paired
<1>5. Peer(Peer(x)) = x /\ Party = {x, Peer(x)}
  BY PeerOther
<1>6. ASSUME NEW p \in Party
      PROVE  /\ IsState(st[p], samples)' /\ IsChain(chain[p], st[p])'
             /\ \A m \in BagToSet(net'[p]) : MessageOK(st'[p], st'[Peer(p)], m)
  <2>1. CASE p = x
    BY <1>1, <2>1
  <2>2. CASE p = Peer(x)
    BY <1>1, <1>2, <1>3, <1>5, <2>2
  <2> QED BY <1>5, <2>1, <2>2
<1> QED BY <1>1, <1>4, <1>6 DEF IInv

(* u is a state the same party may reach from s within the epoch without   *)
(* taking back what its messages have told the peer.                       *)
Advances(s, u) ==
  /\ u.epoch = s.epoch
  /\ s.kind \in OfferKinds \ {"keys_unsampled"} =>
       u.kind \in OfferKinds \ {"keys_unsampled"} /\ u.dk = s.dk /\ u.auth = s.auth
  /\ s.kind \in OfferKinds \ {"keys_unsampled", "keys_sampled"} =>
       u.kind \in OfferKinds \ {"keys_unsampled", "keys_sampled"}
  /\ s.kind \in {"ct1_received", "ek_sent_ct1_received"} =>
       u.kind \in {"ct1_received", "ek_sent_ct1_received"}
  /\ s.kind = "ek_sent_ct1_received" => u.kind = s.kind
  /\ s.kind \in BoundKinds => u.kind \in BoundKinds /\ u.auth = s.auth
  /\ s.kind = "ct2_sampled" => u.kind = s.kind

(* A party that advances leaves every message true, those under way to it  *)
(* and those it has sent.                                                  *)
LEMMA MessagesStay ==
  ASSUME NEW s, NEW u, NEW t, NEW m, Advances(s, u)
  PROVE  /\ MessageOK(t, s, m) => MessageOK(t, u, m)
         /\ MessageOK(s, t, m) => MessageOK(u, t, m)
<1>1. MessageOK(s, t, m) => MessageOK(u, t, m)
  BY DEF Advances, MessageOK
<1>2. Sent(s, m) => Sent(u, m)
  BY DEF Sent, Advances, HdrOf, EkOf, Ct1Of, Ct2Of, SecretOf, BoundKinds, OfferKinds
<1> QED BY <1>1, <1>2 DEF MessageOK, Advances

(* SampleKeys: the offering party has drawn its key.                       *)
LEMMA Sampled ==
  ASSUME NEW s, NEW t, NEW n \in Nat, NEW k \in Nat, k = n + 1,
         IsState(s, n), Exchange(s, t, n), s.kind = "keys_unsampled",
         s.epoch <= MaxEpoch,
         NEW u, DOMAIN u = Fields,
         u.kind = "keys_sampled" /\ u.ek = k /\ u.dk = k,
         u.epoch = s.epoch /\ u.auth = s.auth,
         u.es = s.es /\ u.hdr = s.hdr /\ u.ct1 = s.ct1,
         u.sending = <<"hdr", k, s.auth>>
  PROVE  /\ IsState(Save(u), k) /\ Exchange(Save(u), t, k)
         /\ Advances(s, Save(u))
         /\ Save(u).kind = u.kind /\ Save(u).sending = u.sending
<1> DEFINE w == Save(u)
<1>2. u.kind \in Kinds /\ u.kind \notin BoundKinds /\ s.kind \notin BoundKinds
  BY DEF Kinds, BoundKinds
<1>3. /\ IsState(w, k)
      /\ w.kind = "keys_sampled" /\ w.epoch = s.epoch /\ w.auth = s.auth
  <2>1. IsState(s, k)
    BY StateGrows
  <2>2. /\ u.epoch \in 1..(MaxEpoch + 1) /\ u.auth \in Seq(Pairs(k))
        /\ Len(u.auth) = IF u.kind \in BoundKinds THEN u.epoch ELSE u.epoch - 1
        /\ u.hdr \in 0..k /\ u.es \in 0..k
        /\ u.ct1 \in Pairs(k) \union {None}
    BY <1>2, <2>1 DEF IsState
  <2>3. u.ek \in 0..k /\ u.dk \in 0..k
    OBVIOUS
  <2> QED BY <1>2, <2>1, <2>2, <2>3, SavedState
<1>4. w.ek = k /\ w.dk = k /\ w.sending = u.sending
  BY <1>2, SavedFields, StoredOf
<1> HIDE DEF w
<1>5. Exchange(w, t, k)
  <2>1. t.kind = "no_header_received" /\ s.epoch \in Nat /\ s.epoch = t.epoch
        /\ t.auth = s.auth /\ n = 2 * s.epoch - 2 /\ t.receiving = EmptyDecoder
    BY DEF Exchange, InStep, IsState, BoundKinds, AnswerData
  <2>2. InStep(w, t)
    BY <1>3, <2>1 DEF InStep
  <2>3. OfferData(w, t)
    BY <1>3, <1>4 DEF OfferData, HdrOf
  <2>4. AnswerData(w, t)
    BY <2>1 DEF AnswerData
  <2>5. k = 2 * s.epoch - 1 /\ k \in 1..k
    BY <2>1
  <2> QED BY <1>3, <1>4, <2>1, <2>2, <2>3, <2>4, <2>5 DEF Exchange, BoundKinds
<1>6. Advances(s, w)
  BY <1>3 DEF Advances, OfferKinds, BoundKinds
<1> QED BY <1>3, <1>4, <1>5, <1>6 DEF w

(* Kind and epoch of a state fix whether it belongs to the offering party. *)
LEMMA OfferMoves ==
  ASSUME NEW s, NEW t, NEW n \in Nat, NEW w,
         IsState(s, n), IsState(t, n), Exchange(s, t, n), s.kind # "keys_unsampled",
         w.kind # "keys_unsampled", w.epoch = s.epoch, w.auth = s.auth,
         w.dk = s.dk, InStep(w, t), OfferData(w, t)
  PROVE  Exchange(w, t, n)
<1>1. AnswerData(s, t) => AnswerData(w, t)
  BY DEF AnswerData, HdrOf, EkOf
<1> QED BY <1>1 DEF Exchange

(* The same for the answering party: what its state says of the secret is  *)
(* about its kind and its chain only.                                      *)
LEMMA AnswerMoves ==
  ASSUME NEW s, NEW t, NEW n \in Nat, NEW w,
         IsState(s, n), IsState(t, n), Exchange(t, s, n),
         w.kind \in BoundKinds <=> s.kind \in BoundKinds,
         w.epoch = s.epoch, w.auth = s.auth,
         InStep(t, w), AnswerData(t, w)
  PROVE  Exchange(t, w, n)
<1>1. OfferData(t, s) => OfferData(t, w)
  BY DEF OfferData, Ct1Of, Ct2Of, SecretOf
<1> QED BY <1>1 DEF Exchange, SecretOf

(* The secret of the epoch is a pair of samples.                           *)
LEMMA SecretIsPair ==
  ASSUME NEW s, NEW n \in Nat, IsState(s, n), s.kind \in BoundKinds
  PROVE  SecretOf(s) \in Pairs(n)
<1>1. s.epoch \in 1..Len(s.auth) /\ s.auth \in Seq(Pairs(n))
  BY SpqrAssumption DEF IsState
<1> QED BY <1>1 DEF SecretOf

(* The first chunk of ct1: header_sent.                                    *)
LEMMA CiphertextBegins ==
  ASSUME NEW s, NEW t, NEW n \in Nat, IsState(s, n), IsState(t, n),
         Exchange(s, t, n),
         s.kind = "keys_sampled",
         t.kind \in BoundKinds,
         NEW d, Holds(d, Ct1Of(t)),
         NEW u, DOMAIN u = Fields, u.kind = "header_sent",
         u.epoch = s.epoch, u.auth = s.auth,
         u.hdr = s.hdr, u.ek = 0, u.dk = s.dk, u.es = s.es,
         u.ct1 = s.ct1, u.sending = EkBody(s), u.receiving = d
  PROVE  /\ IsState(Save(u), n) /\ Exchange(Save(u), t, n)
         /\ Advances(s, Save(u)) /\ Save(u).auth = s.auth
<1> DEFINE w == Save(u)
<1>1. u.kind \in Kinds /\ (u.kind \in BoundKinds <=> s.kind \in BoundKinds)
  BY DEF Kinds, BoundKinds
<1>2. IsState(w, n) /\ w.kind = u.kind /\ w.epoch = s.epoch /\ w.auth = s.auth
  <2>1. /\ s.epoch \in 1..(MaxEpoch + 1) /\ s.auth \in Seq(Pairs(n))
        /\ Len(s.auth) = IF s.kind \in BoundKinds THEN s.epoch ELSE s.epoch - 1
        /\ s.hdr \in 0..n /\ s.ek \in 0..n /\ s.dk \in 0..n /\ s.es \in 0..n
        /\ t.dk \in 0..n /\ 0 \in 0..n /\ s.ct1 \in Pairs(n) \union {None}
    BY DEF IsState
  <2> QED BY <1>1, <2>1, SavedState
<1>3. w.dk = u.dk /\ w.sending = u.sending /\ w.receiving = u.receiving
  BY <1>1, SavedFields, StoredOf
<1> HIDE DEF w
<1>4. InStep(w, t)
  BY <1>2 DEF InStep, Exchange, BoundKinds
<1>5. OfferData(w, t)
  BY <1>2, <1>3 DEF OfferData, EkOf, EkBody, Exchange
<1>6. Exchange(w, t, n)
  BY <1>1, <1>2, <1>3, <1>4, <1>5, OfferMoves
<1>7. Advances(s, w)
  BY <1>2, <1>3 DEF Advances, OfferKinds, BoundKinds
<1> QED BY <1>2, <1>6, <1>7 DEF w

(* Another chunk of ct1 that does not complete it.                         *)
LEMMA CiphertextGrows ==
  ASSUME NEW s, NEW t, NEW n \in Nat, IsState(s, n), IsState(t, n),
         Exchange(s, t, n),
         s.kind = "header_sent",
         NEW d, Holds(d, Ct1Of(t)),
         NEW u, DOMAIN u = Fields, u.kind = "header_sent",
         u.epoch = s.epoch, u.auth = s.auth,
         u.hdr = s.hdr, u.ek = s.ek, u.dk = s.dk, u.es = s.es,
         u.ct1 = s.ct1, u.sending = s.sending, u.receiving = d
  PROVE  /\ IsState(Save(u), n) /\ Exchange(Save(u), t, n)
         /\ Advances(s, Save(u)) /\ Save(u).auth = s.auth
<1> DEFINE w == Save(u)
<1>1. u.kind \in Kinds /\ (u.kind \in BoundKinds <=> s.kind \in BoundKinds)
  BY DEF Kinds, BoundKinds
<1>2. IsState(w, n) /\ w.kind = u.kind /\ w.epoch = s.epoch /\ w.auth = s.auth
  <2>1. /\ s.epoch \in 1..(MaxEpoch + 1) /\ s.auth \in Seq(Pairs(n))
        /\ Len(s.auth) = IF s.kind \in BoundKinds THEN s.epoch ELSE s.epoch - 1
        /\ s.hdr \in 0..n /\ s.ek \in 0..n /\ s.dk \in 0..n /\ s.es \in 0..n
        /\ t.dk \in 0..n /\ 0 \in 0..n /\ s.ct1 \in Pairs(n) \union {None}
    BY DEF IsState
  <2> QED BY <1>1, <2>1, SavedState
<1>3. w.dk = u.dk /\ w.sending = u.sending /\ w.receiving = u.receiving
  BY <1>1, SavedFields, StoredOf
<1> HIDE DEF w
<1>4. InStep(w, t)
  BY <1>2 DEF InStep, Exchange, BoundKinds
<1>5. OfferData(w, t)
  BY <1>2, <1>3 DEF OfferData, EkOf, Exchange
<1>6. Exchange(w, t, n)
  BY <1>1, <1>2, <1>3, <1>4, <1>5, OfferMoves
<1>7. Advances(s, w)
  BY <1>2, <1>3 DEF Advances, OfferKinds, BoundKinds
<1> QED BY <1>2, <1>6, <1>7 DEF w

(* ct1 is complete: ct1_received.                                          *)
LEMMA CiphertextDecodes ==
  ASSUME NEW s, NEW t, NEW n \in Nat, IsState(s, n), IsState(t, n),
         Exchange(s, t, n),
         s.kind = "header_sent",
         t.kind \in BoundKinds,
         NEW u, DOMAIN u = Fields, u.kind = "ct1_received",
         u.epoch = s.epoch, u.auth = s.auth,
         u.hdr = s.hdr, u.ek = s.ek, u.dk = s.dk, u.es = s.es,
         u.ct1 = SecretOf(t), u.sending = s.sending, u.receiving = None
  PROVE  /\ IsState(Save(u), n) /\ Exchange(Save(u), t, n)
         /\ Advances(s, Save(u)) /\ Save(u).auth = s.auth
<1> DEFINE w == Save(u)
<1>1. u.kind \in Kinds /\ (u.kind \in BoundKinds <=> s.kind \in BoundKinds)
  BY DEF Kinds, BoundKinds
<1>2. IsState(w, n) /\ w.kind = u.kind /\ w.epoch = s.epoch /\ w.auth = s.auth
  <2>1. /\ s.epoch \in 1..(MaxEpoch + 1) /\ s.auth \in Seq(Pairs(n))
        /\ Len(s.auth) = IF s.kind \in BoundKinds THEN s.epoch ELSE s.epoch - 1
        /\ s.hdr \in 0..n /\ s.ek \in 0..n /\ s.dk \in 0..n /\ s.es \in 0..n
        /\ t.dk \in 0..n /\ 0 \in 0..n /\ s.ct1 \in Pairs(n) \union {None}
    BY DEF IsState
  <2>2. SecretOf(t) \in Pairs(n)
    BY SecretIsPair
  <2> QED BY <1>1, <2>1, <2>2, SavedState
<1>3. w.dk = u.dk /\ w.ct1 = u.ct1 /\ w.sending = u.sending
  BY <1>1, SavedFields, StoredOf
<1> HIDE DEF w
<1>4. InStep(w, t)
  BY <1>2 DEF InStep, Exchange, BoundKinds
<1>5. OfferData(w, t)
  BY <1>2, <1>3 DEF OfferData, EkOf, Exchange
<1>6. Exchange(w, t, n)
  BY <1>1, <1>2, <1>3, <1>4, <1>5, OfferMoves
<1>7. Advances(s, w)
  BY <1>2, <1>3 DEF Advances, OfferKinds, BoundKinds
<1> QED BY <1>2, <1>6, <1>7 DEF w

(* The first chunk of ct2: ek_sent_ct1_received.                           *)
LEMMA SecondPartBegins ==
  ASSUME NEW s, NEW t, NEW n \in Nat, IsState(s, n), IsState(t, n),
         Exchange(s, t, n),
         s.kind = "ct1_received",
         t.kind = "ct2_sampled",
         NEW d, Holds(d, Ct2Of(t)),
         NEW u, DOMAIN u = Fields, u.kind = "ek_sent_ct1_received",
         u.epoch = s.epoch, u.auth = s.auth,
         u.hdr = s.hdr, u.ek = s.ek, u.dk = s.dk, u.es = s.es,
         u.ct1 = s.ct1, u.sending = None, u.receiving = d
  PROVE  /\ IsState(Save(u), n) /\ Exchange(Save(u), t, n)
         /\ Advances(s, Save(u)) /\ Save(u).auth = s.auth
<1> DEFINE w == Save(u)
<1>1. u.kind \in Kinds /\ (u.kind \in BoundKinds <=> s.kind \in BoundKinds)
  BY DEF Kinds, BoundKinds
<1>2. IsState(w, n) /\ w.kind = u.kind /\ w.epoch = s.epoch /\ w.auth = s.auth
  <2>1. /\ s.epoch \in 1..(MaxEpoch + 1) /\ s.auth \in Seq(Pairs(n))
        /\ Len(s.auth) = IF s.kind \in BoundKinds THEN s.epoch ELSE s.epoch - 1
        /\ s.hdr \in 0..n /\ s.ek \in 0..n /\ s.dk \in 0..n /\ s.es \in 0..n
        /\ t.dk \in 0..n /\ 0 \in 0..n /\ s.ct1 \in Pairs(n) \union {None}
    BY DEF IsState
  <2> QED BY <1>1, <2>1, SavedState
<1>3. w.dk = u.dk /\ w.ct1 = u.ct1 /\ w.receiving = u.receiving
  BY <1>1, SavedFields, StoredOf
<1> HIDE DEF w
<1>4. InStep(w, t)
  BY <1>2 DEF InStep, Exchange, BoundKinds
<1>5. OfferData(w, t)
  BY <1>2, <1>3 DEF OfferData, EkOf, Exchange
<1>6. Exchange(w, t, n)
  BY <1>1, <1>2, <1>3, <1>4, <1>5, OfferMoves
<1>7. Advances(s, w)
  BY <1>2, <1>3 DEF Advances, OfferKinds, BoundKinds
<1> QED BY <1>2, <1>6, <1>7 DEF w

(* Another chunk of ct2 that does not complete it.                         *)
LEMMA SecondPartGrows ==
  ASSUME NEW s, NEW t, NEW n \in Nat, IsState(s, n), IsState(t, n),
         Exchange(s, t, n),
         s.kind = "ek_sent_ct1_received",
         NEW d, Holds(d, Ct2Of(t)),
         NEW u, DOMAIN u = Fields, u.kind = "ek_sent_ct1_received",
         u.epoch = s.epoch, u.auth = s.auth,
         u.hdr = s.hdr, u.ek = s.ek, u.dk = s.dk, u.es = s.es,
         u.ct1 = s.ct1, u.sending = s.sending, u.receiving = d
  PROVE  /\ IsState(Save(u), n) /\ Exchange(Save(u), t, n)
         /\ Advances(s, Save(u)) /\ Save(u).auth = s.auth
<1> DEFINE w == Save(u)
<1>1. u.kind \in Kinds /\ (u.kind \in BoundKinds <=> s.kind \in BoundKinds)
  BY DEF Kinds, BoundKinds
<1>2. IsState(w, n) /\ w.kind = u.kind /\ w.epoch = s.epoch /\ w.auth = s.auth
  <2>1. /\ s.epoch \in 1..(MaxEpoch + 1) /\ s.auth \in Seq(Pairs(n))
        /\ Len(s.auth) = IF s.kind \in BoundKinds THEN s.epoch ELSE s.epoch - 1
        /\ s.hdr \in 0..n /\ s.ek \in 0..n /\ s.dk \in 0..n /\ s.es \in 0..n
        /\ t.dk \in 0..n /\ 0 \in 0..n /\ s.ct1 \in Pairs(n) \union {None}
    BY DEF IsState
  <2> QED BY <1>1, <2>1, SavedState
<1>3. w.dk = u.dk /\ w.ct1 = u.ct1 /\ w.receiving = u.receiving
  BY <1>1, SavedFields, StoredOf
<1> HIDE DEF w
<1>4. InStep(w, t)
  BY <1>2 DEF InStep, Exchange, BoundKinds
<1>5. OfferData(w, t)
  BY <1>2, <1>3 DEF OfferData, EkOf, Exchange
<1>6. Exchange(w, t, n)
  BY <1>1, <1>2, <1>3, <1>4, <1>5, OfferMoves
<1>7. Advances(s, w)
  BY <1>2, <1>3 DEF Advances, OfferKinds, BoundKinds
<1> QED BY <1>2, <1>6, <1>7 DEF w

(* A chunk of the header that does not complete it.                        *)
LEMMA HeaderGrows ==
  ASSUME NEW s, NEW t, NEW n \in Nat, IsState(s, n), IsState(t, n),
         Exchange(t, s, n),
         s.kind = "no_header_received",
         t.kind # "keys_unsampled",
         NEW d, Holds(d, HdrOf(t)),
         NEW u, DOMAIN u = Fields, u.kind = "no_header_received",
         u.epoch = s.epoch, u.auth = s.auth,
         u.hdr = s.hdr, u.ek = s.ek, u.dk = s.dk, u.es = s.es,
         u.ct1 = s.ct1, u.sending = s.sending, u.receiving = d
  PROVE  /\ IsState(Save(u), n) /\ Exchange(t, Save(u), n)
         /\ Advances(s, Save(u)) /\ Save(u).auth = s.auth
<1> DEFINE w == Save(u)
<1>1. u.kind \in Kinds /\ (u.kind \in BoundKinds <=> s.kind \in BoundKinds)
  BY DEF Kinds, BoundKinds
<1>2. IsState(w, n) /\ w.kind = u.kind /\ w.epoch = s.epoch /\ w.auth = s.auth
  <2>1. /\ s.epoch \in 1..(MaxEpoch + 1) /\ s.auth \in Seq(Pairs(n))
        /\ Len(s.auth) = IF s.kind \in BoundKinds THEN s.epoch ELSE s.epoch - 1
        /\ s.hdr \in 0..n /\ s.ek \in 0..n /\ s.dk \in 0..n /\ s.es \in 0..n
        /\ t.dk \in 0..n /\ 0 \in 0..n /\ s.ct1 \in Pairs(n) \union {None}
    BY DEF IsState
  <2> QED BY <1>1, <2>1, SavedState
<1>3. w.receiving = u.receiving
  BY <1>1, SavedFields, StoredOf
<1> HIDE DEF w
<1>4. InStep(t, w)
  BY <1>2 DEF InStep, Exchange, BoundKinds, OfferKinds
<1>5. AnswerData(t, w)
  BY <1>2, <1>3 DEF AnswerData, HdrOf, EkOf, Ct1Of, Ct2Of, SecretOf, Exchange
<1>6. Exchange(t, w, n)
  BY <1>1, <1>2, <1>3, <1>4, <1>5, AnswerMoves
<1>7. Advances(s, w)
  BY <1>2, <1>3 DEF Advances, OfferKinds, BoundKinds
<1> QED BY <1>2, <1>6, <1>7 DEF w

(* The header is complete: header_received.                                *)
LEMMA HeaderDecodes ==
  ASSUME NEW s, NEW t, NEW n \in Nat, IsState(s, n), IsState(t, n),
         Exchange(t, s, n),
         s.kind = "no_header_received",
         t.kind # "keys_unsampled",
         NEW u, DOMAIN u = Fields, u.kind = "header_received",
         u.epoch = s.epoch, u.auth = s.auth,
         u.hdr = t.dk, u.ek = s.ek, u.dk = s.dk, u.es = s.es,
         u.ct1 = s.ct1, u.sending = s.sending, u.receiving = EmptyDecoder
  PROVE  /\ IsState(Save(u), n) /\ Exchange(t, Save(u), n)
         /\ Advances(s, Save(u)) /\ Save(u).auth = s.auth
<1> DEFINE w == Save(u)
<1>1. u.kind \in Kinds /\ (u.kind \in BoundKinds <=> s.kind \in BoundKinds)
  BY DEF Kinds, BoundKinds
<1>2. IsState(w, n) /\ w.kind = u.kind /\ w.epoch = s.epoch /\ w.auth = s.auth
  <2>1. /\ s.epoch \in 1..(MaxEpoch + 1) /\ s.auth \in Seq(Pairs(n))
        /\ Len(s.auth) = IF s.kind \in BoundKinds THEN s.epoch ELSE s.epoch - 1
        /\ s.hdr \in 0..n /\ s.ek \in 0..n /\ s.dk \in 0..n /\ s.es \in 0..n
        /\ t.dk \in 0..n /\ 0 \in 0..n /\ s.ct1 \in Pairs(n) \union {None}
    BY DEF IsState
  <2> QED BY <1>1, <2>1, SavedState
<1>3. w.hdr = u.hdr /\ w.receiving = u.receiving
  BY <1>1, SavedFields, StoredOf
<1> HIDE DEF w
<1>4. InStep(t, w)
  BY <1>2 DEF InStep, Exchange, BoundKinds, OfferKinds
<1>5. AnswerData(t, w)
  BY <1>2, <1>3 DEF AnswerData, HdrOf, EkOf, Ct1Of, Ct2Of, SecretOf, Exchange
<1>6. Exchange(t, w, n)
  BY <1>1, <1>2, <1>3, <1>4, <1>5, AnswerMoves
<1>7. Advances(s, w)
  BY <1>2, <1>3 DEF Advances, OfferKinds, BoundKinds
<1> QED BY <1>2, <1>6, <1>7 DEF w

(* A chunk of the key that does not complete it.                           *)
LEMMA KeyGrows ==
  ASSUME NEW s, NEW t, NEW n \in Nat, IsState(s, n), IsState(t, n),
         Exchange(t, s, n),
         s.kind \in {"ct1_sampled", "ct1_acknowledged"},
         NEW d, Holds(d, EkOf(t)),
         NEW u, DOMAIN u = Fields, u.kind = s.kind,
         u.epoch = s.epoch, u.auth = s.auth,
         u.hdr = s.hdr, u.ek = s.ek, u.dk = s.dk, u.es = s.es,
         u.ct1 = s.ct1, u.sending = s.sending, u.receiving = d
  PROVE  /\ IsState(Save(u), n) /\ Exchange(t, Save(u), n)
         /\ Advances(s, Save(u)) /\ Save(u).auth = s.auth
<1> DEFINE w == Save(u)
<1>1. u.kind \in Kinds /\ (u.kind \in BoundKinds <=> s.kind \in BoundKinds)
  BY DEF Kinds, BoundKinds
<1>2. IsState(w, n) /\ w.kind = u.kind /\ w.epoch = s.epoch /\ w.auth = s.auth
  <2>1. /\ s.epoch \in 1..(MaxEpoch + 1) /\ s.auth \in Seq(Pairs(n))
        /\ Len(s.auth) = IF s.kind \in BoundKinds THEN s.epoch ELSE s.epoch - 1
        /\ s.hdr \in 0..n /\ s.ek \in 0..n /\ s.dk \in 0..n /\ s.es \in 0..n
        /\ t.dk \in 0..n /\ 0 \in 0..n /\ s.ct1 \in Pairs(n) \union {None}
    BY DEF IsState
  <2> QED BY <1>1, <2>1, SavedState
<1>3. /\ w.hdr = u.hdr /\ w.es = u.es /\ w.ct1 = u.ct1
      /\ w.receiving = u.receiving
      /\ s.kind = "ct1_sampled" => w.sending = s.sending
  BY <1>1, SavedFields, StoredOf
<1> HIDE DEF w
<1>4. InStep(t, w)
  BY <1>2 DEF InStep, Exchange, BoundKinds, OfferKinds
<1>5. AnswerData(t, w)
  BY <1>2, <1>3 DEF AnswerData, HdrOf, EkOf, Ct1Of, Ct2Of, SecretOf, Exchange
<1>6. Exchange(t, w, n)
  BY <1>1, <1>2, <1>3, <1>4, <1>5, AnswerMoves
<1>7. Advances(s, w)
  BY <1>2, <1>3 DEF Advances, OfferKinds, BoundKinds
<1> QED BY <1>2, <1>6, <1>7 DEF w

(* The same, with an acknowledgement of ct1: ct1_acknowledged.             *)
LEMMA KeyAcknowledges ==
  ASSUME NEW s, NEW t, NEW n \in Nat, IsState(s, n), IsState(t, n),
         Exchange(t, s, n),
         s.kind = "ct1_sampled",
         t.kind = "ct1_received",
         NEW d, Holds(d, EkOf(t)),
         NEW u, DOMAIN u = Fields, u.kind = "ct1_acknowledged",
         u.epoch = s.epoch, u.auth = s.auth,
         u.hdr = s.hdr, u.ek = s.ek, u.dk = s.dk, u.es = s.es,
         u.ct1 = s.ct1, u.sending = None, u.receiving = d
  PROVE  /\ IsState(Save(u), n) /\ Exchange(t, Save(u), n)
         /\ Advances(s, Save(u)) /\ Save(u).auth = s.auth
<1> DEFINE w == Save(u)
<1>1. u.kind \in Kinds /\ (u.kind \in BoundKinds <=> s.kind \in BoundKinds)
  BY DEF Kinds, BoundKinds
<1>2. IsState(w, n) /\ w.kind = u.kind /\ w.epoch = s.epoch /\ w.auth = s.auth
  <2>1. /\ s.epoch \in 1..(MaxEpoch + 1) /\ s.auth \in Seq(Pairs(n))
        /\ Len(s.auth) = IF s.kind \in BoundKinds THEN s.epoch ELSE s.epoch - 1
        /\ s.hdr \in 0..n /\ s.ek \in 0..n /\ s.dk \in 0..n /\ s.es \in 0..n
        /\ t.dk \in 0..n /\ 0 \in 0..n /\ s.ct1 \in Pairs(n) \union {None}
    BY DEF IsState
  <2> QED BY <1>1, <2>1, SavedState
<1>3. w.hdr = u.hdr /\ w.es = u.es /\ w.ct1 = u.ct1 /\ w.receiving = u.receiving
  BY <1>1, SavedFields, StoredOf
<1> HIDE DEF w
<1>4. InStep(t, w)
  BY <1>2 DEF InStep, Exchange, BoundKinds, OfferKinds
<1>5. AnswerData(t, w)
  BY <1>2, <1>3 DEF AnswerData, HdrOf, EkOf, Ct1Of, Ct2Of, SecretOf, Exchange
<1>6. Exchange(t, w, n)
  BY <1>1, <1>2, <1>3, <1>4, <1>5, AnswerMoves
<1>7. Advances(s, w)
  BY <1>2, <1>3 DEF Advances, OfferKinds, BoundKinds
<1> QED BY <1>2, <1>6, <1>7 DEF w

(* The key is complete but ct1 is not acknowledged:                        *)
(* ek_received_ct1_sampled.                                                *)
LEMMA KeyDecodes ==
  ASSUME NEW s, NEW t, NEW n \in Nat, IsState(s, n), IsState(t, n),
         Exchange(t, s, n),
         s.kind = "ct1_sampled",
         t.kind \in {"header_sent", "ct1_received"},
         NEW u, DOMAIN u = Fields, u.kind = "ek_received_ct1_sampled",
         u.epoch = s.epoch, u.auth = s.auth,
         u.hdr = 0, u.ek = t.dk, u.dk = s.dk, u.es = s.es,
         u.ct1 = s.ct1, u.sending = s.sending, u.receiving = None
  PROVE  /\ IsState(Save(u), n) /\ Exchange(t, Save(u), n)
         /\ Advances(s, Save(u)) /\ Save(u).auth = s.auth
<1> DEFINE w == Save(u)
<1>1. u.kind \in Kinds /\ (u.kind \in BoundKinds <=> s.kind \in BoundKinds)
  BY DEF Kinds, BoundKinds
<1>2. IsState(w, n) /\ w.kind = u.kind /\ w.epoch = s.epoch /\ w.auth = s.auth
  <2>1. /\ s.epoch \in 1..(MaxEpoch + 1) /\ s.auth \in Seq(Pairs(n))
        /\ Len(s.auth) = IF s.kind \in BoundKinds THEN s.epoch ELSE s.epoch - 1
        /\ s.hdr \in 0..n /\ s.ek \in 0..n /\ s.dk \in 0..n /\ s.es \in 0..n
        /\ t.dk \in 0..n /\ 0 \in 0..n /\ s.ct1 \in Pairs(n) \union {None}
    BY DEF IsState
  <2> QED BY <1>1, <2>1, SavedState
<1>3. w.es = u.es /\ w.ek = u.ek /\ w.ct1 = u.ct1 /\ w.sending = u.sending
  BY <1>1, SavedFields, StoredOf
<1> HIDE DEF w
<1>4. InStep(t, w)
  BY <1>2 DEF InStep, Exchange, BoundKinds, OfferKinds
<1>5. AnswerData(t, w)
  BY <1>2, <1>3 DEF AnswerData, HdrOf, EkOf, Ct1Of, Ct2Of, SecretOf, Exchange
<1>6. Exchange(t, w, n)
  BY <1>1, <1>2, <1>3, <1>4, <1>5, AnswerMoves
<1>7. Advances(s, w)
  BY <1>2, <1>3 DEF Advances, OfferKinds, BoundKinds
<1> QED BY <1>2, <1>6, <1>7 DEF w

(* The key is complete and ct1 acknowledged: ct2_sampled.                  *)
LEMMA CiphertextFollows ==
  ASSUME NEW s, NEW t, NEW n \in Nat, IsState(s, n), IsState(t, n),
         Exchange(t, s, n),
         s.kind \in {"ct1_sampled", "ct1_acknowledged", "ek_received_ct1_sampled"},
         t.kind = "ct1_received",
         NEW u, DOMAIN u = Fields, u.kind = "ct2_sampled",
         u.epoch = s.epoch, u.auth = s.auth,
         u.hdr = 0, u.ek = 0, u.dk = s.dk, u.es = 0,
         u.ct1 = None, u.sending = Ct2Of(s), u.receiving = None
  PROVE  /\ IsState(Save(u), n) /\ Exchange(t, Save(u), n)
         /\ Advances(s, Save(u)) /\ Save(u).auth = s.auth
<1> DEFINE w == Save(u)
<1>1. u.kind \in Kinds /\ (u.kind \in BoundKinds <=> s.kind \in BoundKinds)
  BY DEF Kinds, BoundKinds
<1>2. IsState(w, n) /\ w.kind = u.kind /\ w.epoch = s.epoch /\ w.auth = s.auth
  <2>1. /\ s.epoch \in 1..(MaxEpoch + 1) /\ s.auth \in Seq(Pairs(n))
        /\ Len(s.auth) = IF s.kind \in BoundKinds THEN s.epoch ELSE s.epoch - 1
        /\ s.hdr \in 0..n /\ s.ek \in 0..n /\ s.dk \in 0..n /\ s.es \in 0..n
        /\ t.dk \in 0..n /\ 0 \in 0..n /\ s.ct1 \in Pairs(n) \union {None}
    BY DEF IsState
  <2> QED BY <1>1, <2>1, SavedState
<1>3. w.sending = u.sending
  BY <1>1, SavedFields, StoredOf
<1> HIDE DEF w
<1>4. InStep(t, w)
  BY <1>2 DEF InStep, Exchange, BoundKinds, OfferKinds
<1>5. AnswerData(t, w)
  BY <1>2, <1>3 DEF AnswerData, HdrOf, EkOf, Ct1Of, Ct2Of, SecretOf, Exchange
<1>6. Exchange(t, w, n)
  BY <1>1, <1>2, <1>3, <1>4, <1>5, AnswerMoves
<1>7. Advances(s, w)
  BY <1>2, <1>3 DEF Advances, OfferKinds, BoundKinds
<1> QED BY <1>2, <1>6, <1>7 DEF w

(* The answering party encapsulates: the secret of the epoch is fixed.     *)
LEMMA Encapsulated ==
  ASSUME NEW s, NEW t, NEW n \in Nat, NEW k \in Nat, k = n + 1,
         IsState(s, n), IsState(t, n), Exchange(t, s, n),
         s.kind = "header_received",
         NEW u, DOMAIN u = Fields, u.kind = "ct1_sampled",
         u.epoch = s.epoch, u.auth = Append(s.auth, u.ct1),
         u.hdr = s.hdr, u.ek = s.ek, u.dk = s.dk, u.es = k,
         u.ct1 = <<s.hdr, k>>, u.sending = <<"ct1", u.ct1>>,
         u.receiving = s.receiving
  PROVE  /\ IsState(Save(u), k) /\ Exchange(t, Save(u), k)
         /\ Advances(s, Save(u))
         /\ Save(u).sending = u.sending
         /\ u.ct1 \in Pairs(k) /\ u.ct1[2] > n /\ s.epoch <= MaxEpoch /\ s.auth = t.auth
<1> DEFINE w == Save(u)
<1>0. PICK x : x = u.ct1
  OBVIOUS
<1>1. u.kind \in Kinds /\ u.kind \in BoundKinds /\ s.kind \notin BoundKinds
  BY DEF Kinds, BoundKinds
<1>2. /\ t.kind = "keys_sampled" /\ t.epoch = s.epoch /\ s.epoch <= MaxEpoch
      /\ t.dk \in 1..n /\ s.auth = t.auth /\ n = 2 * s.epoch - 1
      /\ s.hdr = t.dk /\ s.receiving = EmptyDecoder /\ OfferData(t, s)
  BY <1>1 DEF Exchange, InStep, AnswerData, BoundKinds
<1>3. x \in Pairs(k) /\ x = <<x[1], x[2]>> /\ x[1] = t.dk /\ x[2] = k /\ x[2] > n
  BY <1>0, <1>2 DEF Pairs
<1>4. /\ s.epoch \in 1..(MaxEpoch + 1) /\ s.epoch \in Nat
      /\ s.auth \in Seq(Pairs(k)) /\ Len(s.auth) = s.epoch - 1
      /\ s.hdr \in 0..k /\ s.ek \in 0..k /\ s.dk \in 0..k
  <2>1. IsState(s, k)
    BY StateGrows
  <2> QED BY <1>1, <2>1, SpqrAssumption DEF IsState
<1>5. /\ u.auth \in Seq(Pairs(k)) /\ Len(u.auth) = s.epoch
      /\ u.auth[s.epoch] = x
  BY <1>0, <1>3, <1>4
<1>6. IsState(w, k) /\ w.kind = u.kind /\ w.epoch = s.epoch /\ w.auth = u.auth
  <2>1. u.es \in 0..k
    OBVIOUS
  <2> QED BY <1>0, <1>1, <1>3, <1>4, <1>5, <2>1, SavedState
<1>7. /\ w.hdr = u.hdr /\ w.es = u.es /\ w.ct1 = u.ct1
      /\ w.sending = u.sending /\ w.receiving = u.receiving
  BY <1>1, SavedFields, StoredOf
<1> HIDE DEF w
<1>8. SecretOf(w) = x
  BY <1>5, <1>6 DEF SecretOf
<1>9. InStep(t, w)
  BY <1>2, <1>6 DEF InStep
<1>10. AnswerData(t, w)
  BY <1>0, <1>2, <1>3, <1>6, <1>7, <1>8 DEF AnswerData, Ct1Of
<1>11. OfferData(t, w)
  BY <1>2 DEF OfferData
<1>12. Exchange(t, w, k)
  <2>1. k = 2 * s.epoch /\ t.dk \in 1..k
    BY <1>2, <1>4
  <2>2. x \in Nat \X Nat
    BY <1>3 DEF Pairs
  <2> QED BY <1>1, <1>2, <1>3, <1>6, <1>8, <1>9, <1>10, <1>11, <2>1, <2>2
          DEF Exchange
<1>13. Advances(s, w)
  BY <1>6 DEF Advances, OfferKinds, BoundKinds
<1> QED BY <1>0, <1>2, <1>3, <1>6, <1>7, <1>12, <1>13 DEF w

(* The offering party decodes the second part: it has the secret too.      *)
LEMMA EpochEnds ==
  ASSUME NEW s, NEW t, NEW n \in Nat, IsState(s, n), IsState(t, n),
         Exchange(s, t, n), s.kind = "ek_sent_ct1_received",
         NEW u, DOMAIN u = Fields, u.kind = "no_header_received",
         u.epoch = s.epoch + 1, u.auth = Append(s.auth, SecretOf(t)),
         u.hdr = s.hdr, u.ek = s.ek, u.dk = 0, u.es = s.es,
         u.ct1 = None, u.sending = s.sending, u.receiving = EmptyDecoder
  PROVE  /\ IsState(Save(u), n) /\ Handover(Save(u), t, n)
         /\ Save(u).epoch = s.epoch + 1
         /\ Save(u).auth = Append(s.auth, SecretOf(t))
<1> DEFINE w == Save(u)
<1>1. u.kind \in Kinds /\ u.kind \notin BoundKinds /\ s.kind \notin BoundKinds
  BY DEF Kinds, BoundKinds
<1>2. /\ t.kind = "ct2_sampled" /\ t.kind \in BoundKinds /\ t.epoch = s.epoch
      /\ s.epoch <= MaxEpoch /\ t.auth = Append(s.auth, SecretOf(t))
      /\ n = 2 * s.epoch
  BY DEF Exchange, InStep, BoundKinds
<1>3. SecretOf(t) \in Pairs(n)
  BY <1>2, SecretIsPair
<1>4. /\ s.epoch \in 1..(MaxEpoch + 1) /\ s.epoch \in Nat /\ MaxEpoch \in Nat
      /\ s.auth \in Seq(Pairs(n)) /\ Len(s.auth) = s.epoch - 1
      /\ s.hdr \in 0..n /\ s.ek \in 0..n /\ s.es \in 0..n
  BY <1>1, SpqrAssumption DEF IsState
<1>5. u.auth \in Seq(Pairs(n)) /\ Len(u.auth) = s.epoch
  BY <1>3, <1>4
<1>6. u.epoch \in 1..(MaxEpoch + 1) /\ Len(u.auth) = u.epoch - 1 /\ u.dk \in 0..n
  BY <1>2, <1>4, <1>5
<1>7. IsState(w, n) /\ w.kind = u.kind /\ w.epoch = u.epoch /\ w.auth = u.auth
  BY <1>1, <1>4, <1>5, <1>6, SavedState
<1>8. w.receiving = u.receiving
  BY <1>1, SavedFields, StoredOf
<1> HIDE DEF w
<1>9. Handover(w, t, n)
  BY <1>2, <1>4, <1>7, <1>8 DEF Handover
<1> QED BY <1>7, <1>9 DEF w

(* The answering party hears of the next epoch and offers a key in its     *)
(* turn.                                                                   *)
LEMMA RolledOver ==
  ASSUME NEW s, NEW t, NEW n \in Nat, IsState(s, n), IsState(t, n),
         Handover(t, s, n),
         NEW u, DOMAIN u = Fields, u.kind = "keys_unsampled",
         u.epoch = s.epoch + 1, u.auth = s.auth,
         u.hdr = s.hdr, u.ek = s.ek, u.dk = s.dk, u.es = s.es,
         u.ct1 = s.ct1, u.sending = None, u.receiving = s.receiving
  PROVE  /\ IsState(Save(u), n) /\ Exchange(Save(u), t, n)
         /\ Save(u).epoch = t.epoch
         /\ Save(u).auth = s.auth /\ Save(u).kind = u.kind
<1> DEFINE w == Save(u)
<1>1. u.kind \in Kinds /\ u.kind \notin BoundKinds
  BY DEF Kinds, BoundKinds
<1>2. /\ t.kind = "no_header_received" /\ s.kind \in BoundKinds
      /\ t.kind \notin BoundKinds
      /\ t.epoch = s.epoch + 1 /\ s.epoch <= MaxEpoch /\ t.auth = s.auth
      /\ n = 2 * s.epoch /\ t.receiving = EmptyDecoder
  BY DEF Handover, BoundKinds
<1>3. /\ s.epoch \in 1..(MaxEpoch + 1) /\ s.epoch \in Nat /\ MaxEpoch \in Nat
      /\ s.auth \in Seq(Pairs(n)) /\ Len(s.auth) = s.epoch
      /\ s.hdr \in 0..n /\ s.ek \in 0..n /\ s.dk \in 0..n /\ s.es \in 0..n
      /\ s.ct1 \in Pairs(n) \union {None}
  BY <1>2, SpqrAssumption DEF IsState
<1>4. u.epoch \in 1..(MaxEpoch + 1) /\ Len(u.auth) = u.epoch - 1
  BY <1>2, <1>3
<1>5. IsState(w, n) /\ w.kind = u.kind /\ w.epoch = u.epoch /\ w.auth = u.auth
  BY <1>1, <1>3, <1>4, SavedState
<1> HIDE DEF w
<1>6. InStep(w, t) /\ OfferData(w, t) /\ AnswerData(w, t)
  BY <1>2, <1>5 DEF InStep, OfferData, AnswerData
<1>7. n = 2 * w.epoch - 2
  BY <1>2, <1>3, <1>5
<1>8. Exchange(w, t, n)
  BY <1>2, <1>5, <1>6, <1>7 DEF Exchange
<1> QED BY <1>2, <1>5, <1>8 DEF w

(* The two parties in some joint phase, either way round.                  *)
Joint(s, t, n) == \/ Exchange(s, t, n) \/ Exchange(t, s, n)
                  \/ Handover(s, t, n) \/ Handover(t, s, n)

(* A decoder that holds one body holds it after one more of its chunks.    *)
LEMMA ChunkAdded ==
  ASSUME NEW d, NEW body, d = EmptyDecoder \/ Holds(d, body)
  PROVE  Holds(AddChunk(d, body), body)
<1>1. d[1] \in Nat /\ (d[1] = 0 \/ d[2] = body)
  BY DEF EmptyDecoder, Holds
<1> QED BY <1>1 DEF AddChunk, Holds

(* What each kind of state takes a chunk from.                             *)
LEMMA HeedsOf ==
  /\ Heeds["keys_unsampled"] = {} /\ Heeds["header_received"] = {}
  /\ Heeds["ct2_sampled"] = {}
  /\ Heeds["keys_sampled"] = {"ct1"} /\ Heeds["header_sent"] = {"ct1"}
  /\ Heeds["ct1_received"] = {"ct2"} /\ Heeds["ek_sent_ct1_received"] = {"ct2"}
  /\ Heeds["no_header_received"] = {"hdr"}
  /\ Heeds["ct1_sampled"] = {"ek", "ek_ct1_ack"}
  /\ Heeds["ct1_acknowledged"] = {"ek", "ek_ct1_ack"}
  /\ Heeds["ek_received_ct1_sampled"] = {"ct1_ack", "ek_ct1_ack"}
BY DEF Heeds

(* A heeded message is from the peer's present state in the exchange of    *)
(* this epoch: its chunk is of the body the decoder is at.                 *)
LEMMA HeededMessage ==
  ASSUME NEW s, NEW t, NEW n \in Nat, NEW m, IsState(s, n), IsState(t, n),
         Joint(s, t, n), MessageOK(s, t, m), Heeded(s, m)
  PROVE  /\ s.kind \in {"keys_sampled", "header_sent"} =>
              /\ Exchange(s, t, n) /\ t.kind \in BoundKinds
              /\ Holds(Got(s, m), Ct1Of(t))
         /\ s.kind \in {"ct1_received", "ek_sent_ct1_received"} =>
              /\ Exchange(s, t, n) /\ t.kind = "ct2_sampled"
              /\ Holds(Got(s, m), Ct2Of(t))
         /\ s.kind = "no_header_received" =>
              /\ Exchange(t, s, n) /\ t.kind # "keys_unsampled"
              /\ Holds(Got(s, m), HdrOf(t))
         /\ s.kind \in {"ct1_sampled", "ct1_acknowledged"} =>
              /\ Exchange(t, s, n) /\ t.kind \in {"header_sent", "ct1_received"}
              /\ s.kind = "ct1_acknowledged" => t.kind = "ct1_received"
              /\ m.type = "ek_ct1_ack" => t.kind = "ct1_received"
              /\ Holds(Got(s, m), EkOf(t))
         /\ s.kind = "ek_received_ct1_sampled" =>
              Exchange(t, s, n) /\ t.kind = "ct1_received"
         /\ s.kind \in {"keys_sampled", "header_sent", "ct1_received",
               "ek_sent_ct1_received", "no_header_received", "ct1_sampled",
               "ct1_acknowledged", "ek_received_ct1_sampled"}
<1>1. m.epoch = s.epoch /\ m.type \in Heeds[s.kind]
  BY DEF Heeded
<1>2. s.kind \in {"keys_sampled", "header_sent", "ct1_received",
               "ek_sent_ct1_received", "no_header_received", "ct1_sampled",
               "ct1_acknowledged", "ek_received_ct1_sampled"}
  <2>1. s.kind \in Kinds
    BY DEF IsState
  <2> QED BY <1>1, <2>1, HeedsOf DEF Kinds
<1>3. s.epoch \in Nat /\ t.epoch \in Nat /\ m.epoch <= t.epoch
  BY SpqrAssumption DEF IsState, MessageOK
<1>4. Exchange(s, t, n) \/ Exchange(t, s, n)
  BY <1>1, <1>2, <1>3 DEF Joint, Handover
<1>5. Sent(t, m)
  BY <1>1, <1>4 DEF MessageOK, Exchange
<1>6. CASE s.kind \in {"keys_sampled", "header_sent"}
  <2>1. m.type = "ct1" /\ t.kind \in BoundKinds /\ m.chunk = Ct1Of(t)
    BY <1>1, <1>5, <1>6, HeedsOf DEF Sent
  <2>2. Exchange(s, t, n)
    BY <1>4, <1>6 DEF Exchange, InStep, BoundKinds
  <2>3. s.kind = "header_sent" => Holds(s.receiving, Ct1Of(t))
    BY <2>2 DEF Exchange, OfferData
  <2>4. Holds(Got(s, m), Ct1Of(t))
    BY <1>6, <2>1, <2>3, ChunkAdded DEF Got
  <2> QED BY <1>6, <2>1, <2>2, <2>4
<1>7. CASE s.kind \in {"ct1_received", "ek_sent_ct1_received"}
  <2>1. m.type = "ct2" /\ t.kind = "ct2_sampled" /\ m.chunk = Ct2Of(t)
    BY <1>1, <1>5, <1>7, HeedsOf DEF Sent
  <2>2. Exchange(s, t, n)
    BY <1>4, <1>7 DEF Exchange, InStep, BoundKinds
  <2>3. s.kind = "ek_sent_ct1_received" => Holds(s.receiving, Ct2Of(t))
    BY <2>2 DEF Exchange, OfferData
  <2>4. Holds(Got(s, m), Ct2Of(t))
    BY <1>7, <2>1, <2>3, ChunkAdded DEF Got
  <2> QED BY <1>7, <2>1, <2>2, <2>4
<1>8. CASE s.kind = "no_header_received"
  <2>1. /\ m.type = "hdr" /\ t.kind # "keys_unsampled" /\ m.chunk = HdrOf(t)
        /\ t.kind \in OfferKinds
    BY <1>1, <1>5, <1>8, HeedsOf DEF Sent
  <2>2. Exchange(t, s, n)
    BY <1>4, <1>8 DEF Exchange, InStep
  <2>3. s.receiving = EmptyDecoder \/ Holds(s.receiving, HdrOf(t))
    BY <1>8, <2>2 DEF Exchange, AnswerData
  <2>4. Holds(Got(s, m), HdrOf(t))
    BY <1>8, <2>1, <2>3, ChunkAdded DEF Got
  <2> QED BY <1>8, <2>1, <2>2, <2>4
<1>9. CASE s.kind \in {"ct1_sampled", "ct1_acknowledged"}
  <2>1. /\ m.type \in {"ek", "ek_ct1_ack"} /\ m.chunk = EkOf(t)
        /\ t.kind \in OfferKinds \ {"keys_unsampled", "keys_sampled"}
        /\ m.type = "ek_ct1_ack" => t.kind \in {"ct1_received", "ek_sent_ct1_received"}
    <3>1. m.type \in {"ek", "ek_ct1_ack"}
      BY <1>1, <1>9, HeedsOf
    <3> QED BY <1>5, <3>1 DEF Sent, OfferKinds
  <2>2. Exchange(t, s, n)
    BY <1>4, <1>9 DEF Exchange, InStep
  <2>3. s.receiving = EmptyDecoder \/ Holds(s.receiving, EkOf(t))
    BY <1>9, <2>2 DEF Exchange, AnswerData
  <2>4. Holds(Got(s, m), EkOf(t))
    BY <1>9, <2>1, <2>3, ChunkAdded DEF Got
  <2>5. /\ t.kind \in {"header_sent", "ct1_received"}
        /\ s.kind = "ct1_acknowledged" => t.kind = "ct1_received"
        /\ m.type = "ek_ct1_ack" => t.kind = "ct1_received"
    BY <1>9, <2>1, <2>2 DEF Exchange, InStep
  <2> QED BY <1>9, <2>2, <2>4, <2>5
<1>10. CASE s.kind = "ek_received_ct1_sampled"
  <2>1. t.kind \in {"ct1_received", "ek_sent_ct1_received"}
    <3>1. m.type \in {"ct1_ack", "ek_ct1_ack"}
      BY <1>1, <1>10, HeedsOf
    <3> QED BY <1>5, <3>1 DEF Sent
  <2>2. Exchange(t, s, n)
    BY <1>4, <1>10 DEF Exchange, InStep
  <2>3. t.kind = "ct1_received"
    BY <1>10, <2>1, <2>2 DEF Exchange, InStep
  <2> QED BY <1>10, <2>2, <2>3
<1> QED BY <1>2, <1>6, <1>7, <1>8, <1>9, <1>10

(* What a state decodes is what its peer offers: nothing it receives is    *)
(* erroneous.                                                              *)
LEMMA NothingErroneous ==
  ASSUME NEW s, NEW t, NEW n \in Nat, NEW m, IsState(s, n), IsState(t, n),
         Joint(s, t, n), MessageOK(s, t, m), Heeded(s, m)
  PROVE  /\ ~BadHeader(s, m) /\ ~BadKey(s, m) /\ ~BadCiphertext(s, m)
         /\ s.kind = "ek_sent_ct1_received" => Opened(s, m) = SecretOf(t)
<1>1. ~BadHeader(s, m)
  <2> SUFFICES ASSUME s.kind = "no_header_received" PROVE ~BadHeader(s, m)
    BY DEF BadHeader
  <2>1. Body(s, m) = HdrOf(t) /\ Exchange(t, s, n)
    BY HeededMessage DEF Holds, Body
  <2>2. t.auth = s.auth
    BY <2>1 DEF Exchange, BoundKinds
  <2> QED BY <2>1, <2>2 DEF BadHeader, HdrOf
<1>2. ~BadKey(s, m)
  <2> SUFFICES ASSUME s.kind \in {"ct1_sampled", "ct1_acknowledged"}
               PROVE  ~BadKey(s, m)
    BY DEF BadKey
  <2>1. Body(s, m) = EkOf(t) /\ Exchange(t, s, n)
    BY HeededMessage DEF Holds, Body
  <2>2. s.hdr = t.dk
    BY <2>1 DEF Exchange, AnswerData
  <2> QED BY <2>1, <2>2 DEF BadKey, EkOf
<1>3. ASSUME s.kind = "ek_sent_ct1_received"
      PROVE  Opened(s, m) = SecretOf(t) /\ ~BadCiphertext(s, m)
  <2>1. /\ Body(s, m) = Ct2Of(t) /\ Exchange(s, t, n)
        /\ t.kind \in BoundKinds
    BY <1>3, HeededMessage DEF Holds, Body, BoundKinds
  <2>2. /\ s.ct1 = SecretOf(t) /\ SecretOf(t)[1] = s.dk
        /\ t.auth = Append(s.auth, SecretOf(t))
    BY <1>3, <2>1 DEF Exchange, OfferData
  <2>3. Body(s, m)[1] = "ct2" /\ Body(s, m)[2] = SecretOf(t)
        /\ Body(s, m)[3] = <<t.auth, SecretOf(t)>>
    BY <2>1 DEF Ct2Of
  <2>4. Opened(s, m) = SecretOf(t)
    BY <2>2, <2>3 DEF Opened, Decaps
  <2> QED BY <2>2, <2>3, <2>4 DEF BadCiphertext
<1> QED BY <1>1, <1>2, <1>3 DEF BadCiphertext

(* The invariant, for one party and its peer.                              *)
LEMMA PartyFacts ==
  ASSUME IInv, NEW p \in Party
  PROVE  /\ Peer(p) \in Party
         /\ IsState(st[p], samples) /\ IsState(st[Peer(p)], samples)
         /\ IsChain(chain[p], st[p]) /\ IsABag(net[p])
         /\ Paired(p, st[p], st[Peer(p)], samples)
         /\ Joint(st[p], st[Peer(p)], samples)
         /\ \A m \in BagToSet(net[p]) : MessageOK(st[p], st[Peer(p)], m)
         /\ samples \in Nat
<1>1. Paired(p, st[p], st[Peer(p)], samples)
  BY RoundIsPaired DEF IInv
<1>2. Joint(st[p], st[Peer(p)], samples)
  BY <1>1 DEF Paired, Joint
<1> QED BY <1>1, <1>2, PeerOther DEF IInv

(* The epochs of the parties are at most one apart, and no message is from *)
(* after the receiver's next epoch.                                        *)
LEMMA EpochRange ==
  ASSUME NEW s, NEW t, NEW n \in Nat, IsState(s, n), IsState(t, n), Joint(s, t, n),
         NEW m, MessageOK(s, t, m)
  PROVE  /\ s.epoch \in Nat \ {0} /\ m.epoch \in Nat \ {0}
         /\ Len(s.auth) \in Nat /\ m.epoch - 1 <= Len(s.auth)
         /\ m.epoch > s.epoch => Handover(t, s, n) /\ m.epoch = s.epoch + 1
<1>1. /\ s.epoch \in Nat \ {0} /\ t.epoch \in Nat \ {0} /\ m.epoch \in Nat \ {0}
      /\ m.epoch <= t.epoch
  BY SpqrAssumption DEF IsState, MessageOK
<1>2. /\ Len(s.auth) \in Nat /\ Len(s.auth) >= s.epoch - 1
      /\ s.kind \in BoundKinds => Len(s.auth) = s.epoch
  BY <1>1 DEF IsState
<1>3. CASE m.epoch > s.epoch
  <2>1. Handover(t, s, n)
    BY <1>1, <1>3 DEF Joint, Exchange, Handover
  <2>2. t.epoch = s.epoch + 1 /\ s.kind \in BoundKinds
    BY <2>1 DEF Handover, BoundKinds
  <2> QED BY <1>1, <1>2, <1>3, <2>1, <2>2
<1>4. CASE ~(m.epoch > s.epoch)
  BY <1>1, <1>2, <1>4
<1> QED BY <1>3, <1>4

(* The link a party sends with is there, and only messages of at least two *)
(* epochs ago have lost theirs.                                            *)
LEMMA ChainRange ==
  ASSUME NEW c, NEW s, NEW n \in Nat, IsState(s, n), IsChain(c, s)
  PROVE  /\ s.epoch \in Nat \ {0} /\ c.sendEpoch \in Nat /\ c.oldest \in Nat
         /\ c.oldest <= c.sendEpoch /\ c.sendEpoch <= s.epoch - 1
         /\ c.oldest > 0 => c.oldest + 1 <= c.sendEpoch
         /\ c.secrets = s.auth /\ Len(s.auth) \in Nat /\ s.epoch - 1 <= Len(s.auth)
         /\ DOMAIN c = {"secrets", "sendEpoch", "oldest"}
<1>1. s.epoch \in Nat \ {0} /\ Len(s.auth) \in Nat /\ s.epoch - 1 <= Len(s.auth)
  BY SpqrAssumption DEF IsState
<1> QED BY <1>1, SpqrAssumption DEF IsChain

(* recv raises for no message but a late one.                              *)
LEMMA OnlyLateRaises ==
  ASSUME IInv, NEW p \in Party, NEW m \in BagToSet(net[p]), Raises(p, m)
  PROVE  Late(p, m) /\ m.epoch + 2 <= st[p].epoch
<1> DEFINE s == st[p]
           t == st[Peer(p)]
<1>1. /\ IsState(s, samples) /\ IsState(t, samples) /\ Joint(s, t, samples)
      /\ MessageOK(s, t, m) /\ samples \in Nat /\ IsChain(chain[p], s)
  BY PartyFacts
<1>2. /\ s.epoch \in Nat \ {0} /\ m.epoch \in Nat \ {0}
      /\ m.epoch - 1 <= Len(s.auth) /\ Len(s.auth) \in Nat
      /\ m.epoch > s.epoch => Handover(t, s, samples)
  BY <1>1, EpochRange
<1>3. /\ chain[p].sendEpoch \in Nat /\ chain[p].oldest \in Nat
      /\ chain[p].oldest <= chain[p].sendEpoch
      /\ chain[p].sendEpoch <= s.epoch - 1
      /\ chain[p].oldest > 0 => chain[p].oldest + 1 <= chain[p].sendEpoch
      /\ chain[p].secrets = s.auth
  BY <1>1, ChainRange
<1>4. ~FromFuture(p, m)
  BY <1>2 DEF FromFuture, Handover
<1>5. ~Erroneous(s, m)
  BY <1>1, NothingErroneous DEF Erroneous
<1>6. ~(s.kind = "ek_sent_ct1_received" /\ OutOfStep(p))
  <2> SUFFICES ASSUME s.kind = "ek_sent_ct1_received" PROVE ~OutOfStep(p)
    OBVIOUS
  <2>1. Len(s.auth) = s.epoch - 1
    BY <1>1 DEF IsState, BoundKinds
  <2> QED BY <1>2, <1>3, <2>1 DEF OutOfStep, CurrentEpoch
<1>7. NoLink(p, m)
  BY <1>4, <1>5, <1>6 DEF Raises
<1>8. m.epoch - 1 < chain[p].oldest
  BY <1>2, <1>3, <1>7 DEF NoLink, HasLink, CurrentEpoch
<1> QED BY <1>2, <1>3, <1>8 DEF Late

(* The invariant implies NothingBreaks.                                    *)
LEMMA BreaksNothing == IInv => NothingBreaks
<1> SUFFICES ASSUME IInv, NEW p \in Party
             PROVE  /\ st[p].kind = "header_received" => ~OutOfStep(p)
                    /\ ~SendKeyFails(chain[p], st[p].epoch - 1)
  BY OnlyLateRaises DEF NothingBreaks
<1>1. IsState(st[p], samples) /\ IsChain(chain[p], st[p]) /\ samples \in Nat
  BY PartyFacts
<1>2. /\ st[p].epoch \in Nat \ {0} /\ chain[p].sendEpoch \in Nat
      /\ chain[p].oldest \in Nat /\ chain[p].oldest <= chain[p].sendEpoch
      /\ chain[p].sendEpoch <= st[p].epoch - 1
      /\ chain[p].secrets = st[p].auth /\ Len(st[p].auth) \in Nat
      /\ st[p].epoch - 1 <= Len(st[p].auth)
  BY <1>1, ChainRange
<1>3. st[p].kind = "header_received" => ~OutOfStep(p)
  BY <1>1, <1>2 DEF IsState, BoundKinds, OutOfStep, CurrentEpoch
<1>4. ~SendKeyFails(chain[p], st[p].epoch - 1)
  BY <1>2 DEF SendKeyFails, HasLink, CurrentEpoch
<1> QED BY <1>3, <1>4

(* Sending leaves a chain in step.                                         *)
LEMMA ChainMoves ==
  ASSUME NEW c, NEW s, NEW n \in Nat, IsState(s, n), IsChain(c, s),
         NEW u, NEW k \in Nat, IsState(u, k), u.epoch = s.epoch, s.epoch <= MaxEpoch,
         NEW d, DOMAIN d = DOMAIN c, d.secrets = u.auth, d.oldest = c.oldest
  PROVE  /\ IsChain(MoveSendEpoch(d, s.epoch - 1), u)
         /\ MoveSendEpoch(d, s.epoch - 1).secrets = u.auth
<1>1. /\ s.epoch \in Nat \ {0} /\ c.sendEpoch \in Nat /\ c.oldest \in Nat
      /\ c.oldest <= c.sendEpoch /\ c.sendEpoch <= s.epoch - 1
      /\ c.oldest > 0 => c.oldest + 1 <= c.sendEpoch
      /\ DOMAIN c = {"secrets", "sendEpoch", "oldest"}
  BY ChainRange
<1> DEFINE e == s.epoch - 1
           o == IF e > c.oldest + 1 THEN e - 1 ELSE c.oldest
           v == MoveSendEpoch(d, e)
<1>2. /\ DOMAIN d = {"secrets", "sendEpoch", "oldest"}
      /\ d.secrets = u.auth /\ d.oldest = c.oldest
  BY <1>1
<1>3. v = [d EXCEPT !.sendEpoch = e, !.oldest = o]
  BY <1>2 DEF MoveSendEpoch
<1>4. e \in Nat /\ o \in 0..e /\ (o > 0 => o + 1 <= e)
  BY <1>1
<1>5. e \in 0..(u.epoch - 1) /\ e <= MaxEpoch
  BY <1>1, SpqrAssumption
<1> HIDE DEF v, e, o
<1>6. /\ DOMAIN v = {"secrets", "sendEpoch", "oldest"}
      /\ v.secrets = u.auth /\ v.sendEpoch = e /\ v.oldest = o
  BY <1>2, <1>3
<1>7. IsChain(v, u)
  BY <1>4, <1>5, <1>6 DEF IsChain
<1> QED BY <1>6, <1>7 DEF v, e

(* The message each kind of state sends.                                   *)
LEMMA TypeOf ==
  /\ MessageType["keys_unsampled"] = "hdr" /\ MessageType["keys_sampled"] = "hdr"
  /\ MessageType["header_sent"] = "ek" /\ MessageType["ct1_received"] = "ek_ct1_ack"
  /\ MessageType["ek_sent_ct1_received"] = "ct1_ack"
  /\ MessageType["no_header_received"] = "none"
  /\ MessageType["header_received"] = "ct1" /\ MessageType["ct1_sampled"] = "ct1"
  /\ MessageType["ek_received_ct1_sampled"] = "ct1"
  /\ MessageType["ct1_acknowledged"] = "none" /\ MessageType["ct2_sampled"] = "ct2"
BY DEF MessageType

(* What a party sends next is true of the state it sends it from.          *)
LEMMA OwnMessage ==
  ASSUME NEW s, NEW t, NEW n \in Nat, IsState(s, n), IsState(t, n), Joint(s, t, n),
         s.kind \notin {"keys_unsampled", "header_received"}, s.epoch <= MaxEpoch,
         NEW m, m.epoch = s.epoch, m.type = MessageType[s.kind], m.chunk = s.sending
  PROVE  MessageOK(t, s, m)
<1>1. s.epoch \in Nat \ {0} /\ t.epoch \in Nat \ {0} /\ s.kind \in Kinds
  BY SpqrAssumption DEF IsState
<1>2. m.epoch \in 1..s.epoch /\ m.epoch <= MaxEpoch
  BY <1>1
<1>3. ASSUME m.epoch > t.epoch PROVE m.type = "none"
  <2>1. Handover(s, t, n)
    BY <1>1, <1>3 DEF Joint, Exchange, Handover
  <2> QED BY <2>1, TypeOf DEF Handover
<1>4. ASSUME t.epoch = s.epoch PROVE Sent(s, m)
  <2>1. Exchange(s, t, n) \/ Exchange(t, s, n)
    BY <1>1, <1>4 DEF Joint, Handover
  <2>2. CASE Exchange(s, t, n)
    <3>1. s.kind \in OfferKinds \ {"keys_unsampled"}
      BY <2>2 DEF Exchange, InStep, OfferKinds
    <3>2. /\ s.kind = "keys_sampled" => s.sending = HdrOf(s)
          /\ s.kind \in {"header_sent", "ct1_received"} => s.sending = EkOf(s)
      BY <2>2 DEF Exchange, OfferData
    <3> QED BY <3>1, <3>2, TypeOf DEF Sent, OfferKinds
  <2>3. CASE Exchange(t, s, n)
    <3>1. s.kind \in BoundKinds \union {"no_header_received"}
      BY <2>3 DEF Exchange, InStep, BoundKinds
    <3>2. /\ s.kind \in {"ct1_sampled", "ek_received_ct1_sampled"} => s.sending = Ct1Of(s)
          /\ s.kind = "ct2_sampled" => s.sending = Ct2Of(s)
      BY <2>3 DEF Exchange, AnswerData
    <3> QED BY <3>1, <3>2, TypeOf DEF Sent, BoundKinds
  <2> QED BY <2>1, <2>2, <2>3
<1> QED BY <1>2, <1>3, <1>4 DEF MessageOK

(* A step that sends: the new state is paired with the peer's and is no    *)
(* earlier than the old one.                                               *)
LEMMA EmitKeeps ==
  ASSUME IInv, NEW x \in Party, NEW u, NEW c, Emit(x, u, c),
         samples' \in Nat, samples <= samples',
         NEW w, w = Save(u), IsState(w, samples'), Advances(st[x], w),
         Paired(x, w, st[Peer(x)], samples'),
         w.kind \notin {"keys_unsampled", "header_received"},
         MessageType[w.kind] = MessageType[st[x].kind],
         u.epoch = w.epoch, u.sending = w.sending,
         DOMAIN c = DOMAIN chain[x], c.secrets = w.auth, c.oldest = chain[x].oldest
  PROVE  /\ IInv'
         /\ chain'[x].secrets = w.auth /\ st'[x] = w
         /\ \A p \in Party : p # x => chain'[p] = chain[p]
<1> DEFINE s == st[x]
           t == st[Peer(x)]
           m == Message(MessageType[s.kind], u)
           d == MoveSendEpoch(c, u.epoch - 1)
<1>1. /\ IsState(s, samples) /\ IsState(t, samples) /\ IsChain(chain[x], s)
      /\ samples \in Nat /\ Peer(x) \in Party
      /\ \A k \in BagToSet(net[x]) : MessageOK(s, t, k)
      /\ IsABag(net[x])
  BY PartyFacts
<1>2. /\ \A k \in BagToSet(net[Peer(x)]) : MessageOK(t, s, k)
      /\ IsABag(net[Peer(x)])
  BY PartyFacts, PeerOther
<1>3. /\ s.epoch <= MaxEpoch /\ w.epoch = s.epoch
      /\ st' = [st EXCEPT ![x] = w] /\ chain' = [chain EXCEPT ![x] = d]
      /\ net' = [net EXCEPT ![Peer(x)] = net[Peer(x)] (+) SetToBag({m})]
  BY DEF Emit, Advances
<1>4. IsState(t, samples')
  BY <1>1, StateGrows
<1>5. Joint(w, t, samples')
  BY DEF Paired, Joint
<1>6. MessageOK(t, w, m)
  <2>1. m.epoch = w.epoch /\ m.type = MessageType[w.kind] /\ m.chunk = w.sending
    BY DEF Message
  <2> HIDE DEF m, t, s
  <2> QED BY <1>3, <1>4, <1>5, <2>1, OwnMessage
<1>7. IsChain(d, w) /\ d.secrets = w.auth
  <2> HIDE DEF s, t
  <2> QED BY <1>1, <1>3, ChainMoves
<1> HIDE DEF d, m
<1>8. /\ DOMAIN net' = Party
      /\ net'[Peer(x)] = net[Peer(x)] (+) SetToBag({m})
      /\ net'[x] = net[x]
      /\ \A p \in Party : p = x \/ p = Peer(x)
  BY <1>1, <1>3, PeerOther DEF IInv
<1>9. /\ IsABag(net'[Peer(x)])
      /\ BagToSet(net'[Peer(x)]) = BagToSet(net[Peer(x)]) \union {m}
  <2>1. PICK b : b = net[Peer(x)]
    OBVIOUS
  <2>2. /\ IsABag(b (+) SetToBag({m}))
        /\ BagToSet(b (+) SetToBag({m})) = BagToSet(b) \union {m}
    BY <1>2, <2>1, BagAdd
  <2> QED BY <1>8, <2>1, <2>2
<1>10. \A p \in Party : IsABag(net'[p])
  BY <1>1, <1>8, <1>9
<1>11. \A k \in BagToSet(net'[x]) : MessageOK(w, t, k)
  BY <1>1, <1>8, MessagesStay
<1>12. \A k \in BagToSet(net'[Peer(x)]) : MessageOK(t, w, k)
  BY <1>2, <1>6, <1>9, MessagesStay
<1>13. IInv'
  BY <1>3, <1>7, <1>8, <1>10, <1>11, <1>12, StepKeeps
<1>14. chain'[x] = d /\ st'[x] = w /\ \A p \in Party : p # x => chain'[p] = chain[p]
  BY <1>3 DEF IInv
<1> QED BY <1>7, <1>13, <1>14

(* A step that receives.                                                   *)
LEMMA TakeKeeps ==
  ASSUME IInv, NEW x \in Party, NEW m \in BagToSet(net[x]), NEW u, NEW secret,
         Take(x, m, u, secret),
         NEW w, w = Save(u), IsState(w, samples),
         \A k : MessageOK(st[x], st[Peer(x)], k) => MessageOK(w, st[Peer(x)], k),
         \A k : MessageOK(st[Peer(x)], st[x], k) => MessageOK(st[Peer(x)], w, k),
         Paired(x, w, st[Peer(x)], samples),
         w.epoch >= st[x].epoch,
         \/ secret = None /\ w.auth = st[x].auth
         \/ secret # None /\ w.auth = Append(st[x].auth, secret)
  PROVE  /\ IInv'
         /\ chain'[x].secrets = w.auth /\ st'[x] = w
         /\ \A p \in Party : p # x => chain'[p] = chain[p]
<1> DEFINE s == st[x]
           t == st[Peer(x)]
           d == AddEpoch(chain[x], secret)
<1>1. /\ IsState(s, samples) /\ IsChain(chain[x], s)
      /\ samples \in Nat /\ Peer(x) \in Party
      /\ \A k \in BagToSet(net[x]) : MessageOK(s, t, k)
      /\ IsABag(net[x])
  BY PartyFacts
<1>2. /\ \A k \in BagToSet(net[Peer(x)]) : MessageOK(t, s, k)
      /\ IsABag(net[Peer(x)])
  BY PartyFacts, PeerOther
<1>3. /\ st' = [st EXCEPT ![x] = w] /\ chain' = [chain EXCEPT ![x] = d]
      /\ net' = [net EXCEPT ![x] = net[x] (-) SetToBag({m})]
      /\ samples' = samples
  BY DEF Take
<1>4. IsChain(d, w) /\ d.secrets = w.auth
  <2>1. /\ s.epoch \in Nat \ {0} /\ w.epoch \in Nat /\ chain[x].sendEpoch \in Nat
        /\ chain[x].sendEpoch <= s.epoch - 1 /\ chain[x].sendEpoch <= MaxEpoch
        /\ chain[x].oldest \in 0..chain[x].sendEpoch
        /\ chain[x].oldest > 0 => chain[x].oldest + 1 <= chain[x].sendEpoch
        /\ chain[x].secrets = s.auth
        /\ DOMAIN chain[x] = {"secrets", "sendEpoch", "oldest"}
    BY <1>1, SpqrAssumption DEF IsChain, IsState
  <2>2. /\ DOMAIN d = {"secrets", "sendEpoch", "oldest"} /\ d.secrets = w.auth
        /\ d.sendEpoch = chain[x].sendEpoch /\ d.oldest = chain[x].oldest
    <3>1. CASE secret = None
      BY <2>1, <3>1 DEF AddEpoch
    <3>2. CASE secret # None
      <4>1. d = [chain[x] EXCEPT !.secrets = Append(chain[x].secrets, secret)]
        BY <3>2 DEF AddEpoch
      <4> HIDE DEF d
      <4>2. w.auth = Append(chain[x].secrets, secret)
        BY <2>1, <3>2
      <4> QED BY <2>1, <4>1, <4>2
    <3> QED BY <3>1, <3>2
  <2>3. chain[x].sendEpoch \in 0..(w.epoch - 1)
    BY <2>1
  <2> HIDE DEF d, s
  <2> QED BY <2>1, <2>2, <2>3 DEF IsChain
<1> HIDE DEF d
<1>5. /\ DOMAIN net' = Party
      /\ net'[x] = net[x] (-) SetToBag({m})
      /\ net'[Peer(x)] = net[Peer(x)]
      /\ \A p \in Party : p = x \/ p = Peer(x)
  BY <1>1, <1>3, PeerOther DEF IInv
<1>6. /\ IsABag(net'[x]) /\ BagToSet(net'[x]) \subseteq BagToSet(net[x])
  <2>1. PICK b : b = net[x]
    OBVIOUS
  <2>2. IsABag(b (-) SetToBag({m})) /\ BagToSet(b (-) SetToBag({m})) \subseteq BagToSet(b)
    BY <1>1, <2>1, BagRemove
  <2> QED BY <1>5, <2>1, <2>2
<1>7. \A p \in Party : IsABag(net'[p])
  BY <1>2, <1>5, <1>6
<1>8. \A k \in BagToSet(net'[x]) : MessageOK(w, t, k)
  BY <1>1, <1>6
<1>9. \A k \in BagToSet(net'[Peer(x)]) : MessageOK(t, w, k)
  BY <1>2, <1>5
<1>10. /\ samples' \in Nat /\ samples <= samples' /\ IsState(w, samples')
       /\ Paired(x, w, t, samples')
  BY <1>1, <1>3
<1>12. IInv'
  BY <1>3, <1>4, <1>5, <1>7, <1>8, <1>9, <1>10, StepKeeps
<1>11. chain'[x] = d /\ st'[x] = w /\ \A p \in Party : p # x => chain'[p] = chain[p]
  BY <1>3 DEF IInv
<1> QED BY <1>4, <1>11, <1>12

(* A step that adds no secret to a chain.                                  *)
Quiet == \A p \in Party : chain'[p].secrets = chain[p].secrets

(* In which joint phases a party of each kind is.                          *)
LEMMA TurnsOf ==
  ASSUME NEW p, NEW s, NEW t, NEW n, Paired(p, s, t, n)
  PROVE  /\ Exchange(s, t, n) => Turn(p, s.epoch)
         /\ Exchange(t, s, n) => Turn(Peer(p), t.epoch)
         /\ Handover(s, t, n) => Turn(Peer(p), s.epoch)
         /\ Handover(t, s, n) => Turn(p, t.epoch)
         /\ s.kind = "keys_unsampled" => Exchange(s, t, n)
         /\ s.kind = "header_received" => Exchange(t, s, n)
<1>1. Exchange(s, t, n) =>
       /\ s.kind \in OfferKinds
       /\ t.kind \in BoundKinds \union {"no_header_received", "header_received"}
  BY DEF Exchange, InStep, OfferKinds, BoundKinds
<1>2. Exchange(t, s, n) =>
       /\ t.kind \in OfferKinds
       /\ s.kind \in BoundKinds \union {"no_header_received", "header_received"}
  BY DEF Exchange, InStep, OfferKinds, BoundKinds
<1>3. Handover(s, t, n) => s.kind = "no_header_received" /\ t.kind = "ct2_sampled"
  BY DEF Handover
<1>4. Handover(t, s, n) => t.kind = "no_header_received" /\ s.kind = "ct2_sampled"
  BY DEF Handover
<1> QED BY <1>1, <1>2, <1>3, <1>4 DEF Paired, OfferKinds, BoundKinds

(* To stay is to advance.                                                  *)
LEMMA AdvancesSelf == ASSUME NEW s PROVE Advances(s, s)
BY DEF Advances

(* Continue: nothing but the wire and the send epoch changes.              *)
LEMMA ContinueKeeps ==
  ASSUME IInv, NEW x \in Party, Continue(x)
  PROVE  IInv' /\ Quiet
<1> DEFINE s == st[x]
<1>1. /\ IsState(s, samples) /\ IsChain(chain[x], s)
      /\ samples \in Nat /\ Paired(x, s, st[Peer(x)], samples)
  BY PartyFacts
<1>2. Emit(x, s, chain[x]) /\ samples' = samples
      /\ s.kind \notin {"keys_unsampled", "header_received"}
  BY DEF Continue
<1>3. s = Save(s)
  BY <1>1 DEF IsState
<1>4. chain[x].secrets = s.auth
  BY <1>1 DEF IsChain
<1>5. IsState(s, samples') /\ Paired(x, s, st[Peer(x)], samples')
      /\ samples' \in Nat /\ samples <= samples'
  BY <1>1, <1>2
<1>6. Advances(s, s)
  BY AdvancesSelf
<1>7. IInv' /\ chain'[x].secrets = s.auth
      /\ \A p \in Party : p # x => chain'[p] = chain[p]
  BY <1>2, <1>3, <1>4, <1>5, <1>6, EmitKeeps
<1> QED BY <1>4, <1>7 DEF Quiet

(* SampleKeys keeps the invariant.                                         *)
LEMMA SampleKeysKeeps ==
  ASSUME IInv, NEW x \in Party, SampleKeys(x)
  PROVE  IInv' /\ Quiet
<1> DEFINE s == st[x]
           t == st[Peer(x)]
<1>1. /\ IsState(s, samples) /\ IsState(t, samples) /\ IsChain(chain[x], s)
      /\ samples \in Nat /\ Paired(x, s, t, samples)
  BY PartyFacts
<1>2. PICK k : k = samples + 1
  OBVIOUS
<1>3. PICK v : v = [s EXCEPT !.kind = "keys_sampled", !.ek = k, !.dk = k]
  OBVIOUS
<1>4. PICK u : u = [v EXCEPT !.sending = HeaderBody(v)]
  OBVIOUS
<1>5. /\ s.kind = "keys_unsampled" /\ samples' = k
      /\ Emit(x, u, chain[x]) /\ s.epoch <= MaxEpoch
  BY <1>2, <1>3, <1>4 DEF SampleKeys, Emit
<1>6. Exchange(s, t, samples) /\ Turn(x, s.epoch)
  BY <1>1, <1>5, TurnsOf
<1>7. /\ DOMAIN v = Fields /\ v.kind = "keys_sampled" /\ v.ek = k /\ v.dk = k
      /\ v.epoch = s.epoch /\ v.auth = s.auth /\ v.es = s.es
      /\ v.hdr = s.hdr /\ v.ct1 = s.ct1
  BY <1>1, <1>3 DEF IsState, Fields
<1>8. /\ DOMAIN u = Fields /\ u.kind = "keys_sampled" /\ u.ek = k /\ u.dk = k
      /\ u.epoch = s.epoch /\ u.auth = s.auth /\ u.es = s.es
      /\ u.hdr = s.hdr /\ u.ct1 = s.ct1 /\ u.sending = <<"hdr", k, s.auth>>
  BY <1>4, <1>7 DEF Fields, HeaderBody
<1> HIDE DEF s, t
<1>9. k \in Nat /\ k = samples + 1
  BY <1>1, <1>2
<1>10. /\ IsState(Save(u), k) /\ Exchange(Save(u), t, k) /\ Advances(s, Save(u))
       /\ Save(u).kind = u.kind /\ Save(u).sending = u.sending
  BY <1>1, <1>5, <1>6, <1>8, <1>9, Sampled
<1>11. PICK w : w = Save(u)
  OBVIOUS
<1>12. w.epoch = u.epoch /\ w.auth = s.auth
  <2>1. u.kind \in Kinds
    BY <1>8 DEF Kinds
  <2> QED BY <1>8, <1>11, <2>1, SaveFields
<1>13. Paired(x, w, t, k)
  BY <1>6, <1>8, <1>10, <1>11, <1>12 DEF Paired
<1>14. chain[x].secrets = s.auth
  BY <1>1 DEF IsChain
<1>15. /\ samples' \in Nat /\ samples <= samples' /\ IsState(w, samples')
       /\ Paired(x, w, t, samples')
  BY <1>1, <1>5, <1>9, <1>10, <1>11, <1>13
<1>16. /\ w.kind \notin {"keys_unsampled", "header_received"}
       /\ MessageType[w.kind] = MessageType[s.kind] /\ u.sending = w.sending
       /\ Advances(s, w)
  BY <1>5, <1>8, <1>10, <1>11, TypeOf
<1>17. IInv' /\ chain'[x].secrets = w.auth
       /\ \A p \in Party : p # x => chain'[p] = chain[p]
  BY <1>5, <1>11, <1>12, <1>14, <1>15, <1>16, EmitKeeps DEF s, t
<1> QED BY <1>12, <1>14, <1>17 DEF Quiet

(* What the encapsulating party adds to its chain: a fresh secret, in its  *)
(* turn, while both hold the same.                                         *)
LEMMA EncapsulateKeeps ==
  ASSUME IInv, NEW x \in Party, Encapsulate(x)
  PROVE  /\ IInv'
         /\ \E y \in Pairs(samples') :
              /\ y[2] > samples
              /\ chain'[x].secrets = Append(chain[x].secrets, y)
         /\ chain'[Peer(x)] = chain[Peer(x)]
         /\ chain[x].secrets = chain[Peer(x)].secrets
         /\ Len(chain[x].secrets) + 1 = st[x].epoch /\ st[x].epoch <= MaxEpoch
         /\ Turn(Peer(x), st[x].epoch)
<1> DEFINE s == st[x]
           t == st[Peer(x)]
<1>1. /\ IsState(s, samples) /\ IsState(t, samples) /\ IsChain(chain[x], s)
      /\ samples \in Nat /\ Paired(x, s, t, samples)
  BY PartyFacts
<1>2. PICK k : k = samples + 1
  OBVIOUS
<1>3. PICK y : y = <<s.hdr, k>>
  OBVIOUS
<1>4. PICK v : v = [s EXCEPT !.kind = "ct1_sampled", !.es = k, !.ct1 = y,
                             !.auth = Append(@, y)]
  OBVIOUS
<1>5. PICK u : u = [v EXCEPT !.sending = Ct1Body(v)]
  OBVIOUS
<1>6. /\ s.kind = "header_received" /\ samples' = k
      /\ Emit(x, u, AddEpoch(chain[x], y))
  BY <1>2, <1>3, <1>4, <1>5 DEF Encapsulate
<1>7. Exchange(t, s, samples) /\ Turn(Peer(x), t.epoch)
  BY <1>1, <1>6, TurnsOf
<1>8. /\ DOMAIN v = Fields /\ v.kind = "ct1_sampled" /\ v.epoch = s.epoch
      /\ v.auth = Append(s.auth, y) /\ v.es = k /\ v.ct1 = y
      /\ v.hdr = s.hdr /\ v.ek = s.ek /\ v.dk = s.dk /\ v.receiving = s.receiving
  BY <1>1, <1>4 DEF IsState, Fields
<1>9. /\ DOMAIN u = Fields /\ u.kind = "ct1_sampled" /\ u.epoch = s.epoch
      /\ u.auth = Append(s.auth, y) /\ u.es = k /\ u.ct1 = y
      /\ u.hdr = s.hdr /\ u.ek = s.ek /\ u.dk = s.dk /\ u.receiving = s.receiving
      /\ u.sending = <<"ct1", y>>
  BY <1>5, <1>8 DEF Fields, Ct1Body
<1> HIDE DEF s, t
<1>10. k \in Nat /\ k = samples + 1
  BY <1>1, <1>2
<1>11. /\ IsState(Save(u), k) /\ Exchange(t, Save(u), k) /\ Advances(s, Save(u))
       /\ Save(u).sending = u.sending
       /\ y \in Pairs(k) /\ y[2] > samples /\ s.epoch <= MaxEpoch
       /\ s.auth = t.auth
  <2>1. PICK n \in Nat : n = samples
    BY <1>1
  <2>2. /\ IsState(s, n) /\ IsState(t, n) /\ Exchange(t, s, n)
        /\ s.kind = "header_received" /\ k \in Nat /\ k = n + 1
    BY <1>1, <1>6, <1>7, <1>10, <2>1
  <2>3. /\ IsState(Save(u), k) /\ Exchange(t, Save(u), k)
        /\ Advances(s, Save(u)) /\ Save(u).sending = u.sending
        /\ y \in Pairs(k) /\ y[2] > n /\ s.epoch <= MaxEpoch
        /\ s.auth = t.auth
    <3>1. /\ u.auth = Append(s.auth, u.ct1) /\ u.ct1 = <<s.hdr, k>>
          /\ u.sending = <<"ct1", u.ct1>> /\ u.ct1 = y
      BY <1>3, <1>9
    <3>2. /\ DOMAIN u = Fields /\ u.kind = "ct1_sampled" /\ u.epoch = s.epoch
          /\ u.es = k /\ u.hdr = s.hdr /\ u.ek = s.ek /\ u.dk = s.dk
          /\ u.receiving = s.receiving
      BY <1>9
    <3> QED BY <2>2, <3>1, <3>2, Encapsulated
  <2> QED BY <2>1, <2>3
<1>12. PICK w : w = Save(u)
  OBVIOUS
<1>13. w.epoch = u.epoch /\ w.auth = u.auth /\ w.kind = u.kind
  <2>1. u.kind \in Kinds
    BY <1>9 DEF Kinds
  <2> QED BY <1>9, <1>12, <2>1, SaveFields
<1>14. PICK c : c = AddEpoch(chain[x], y)
  OBVIOUS
<1>15. /\ chain[x].secrets = s.auth
       /\ DOMAIN chain[x] = {"secrets", "sendEpoch", "oldest"}
  BY <1>1 DEF IsChain
<1>16. DOMAIN c = DOMAIN chain[x] /\ c.secrets = w.auth /\ c.oldest = chain[x].oldest
  <2>1. y # None
    BY <1>3 DEF None
  <2>2. c = [chain[x] EXCEPT !.secrets = Append(chain[x].secrets, y)]
    BY <1>14, <2>1 DEF AddEpoch
  <2> QED BY <1>9, <1>13, <1>15, <2>2
<1>17. /\ samples' \in Nat /\ samples <= samples' /\ IsState(w, samples')
       /\ Paired(x, w, t, samples')
  BY <1>1, <1>6, <1>7, <1>10, <1>11, <1>12 DEF Paired
<1>18. /\ w.kind \notin {"keys_unsampled", "header_received"}
       /\ MessageType[w.kind] = MessageType[s.kind] /\ u.sending = w.sending
       /\ Advances(s, w)
  BY <1>6, <1>9, <1>11, <1>12, <1>13, TypeOf
<1>19. IInv' /\ chain'[x].secrets = w.auth
       /\ \A p \in Party : p # x => chain'[p] = chain[p]
  BY <1>6, <1>12, <1>13, <1>14, <1>16, <1>17, <1>18, EmitKeeps DEF s, t
<1>20. /\ Len(s.auth) + 1 = s.epoch /\ t.epoch = s.epoch
       /\ chain[Peer(x)].secrets = t.auth
  <2>1. Len(s.auth) = s.epoch - 1 /\ s.epoch \in Nat
    BY <1>1, <1>6, SpqrAssumption DEF IsState, BoundKinds
  <2>2. chain[Peer(x)].secrets = t.auth
    BY PeerOther DEF IInv, IsChain, t
  <2>3. t.epoch = s.epoch
    BY <1>7 DEF Exchange
  <2> QED BY <2>1, <2>2, <2>3
<1> QED BY <1>6, <1>7, <1>9, <1>11, <1>13, <1>15, <1>19, <1>20, PeerOther DEF s

(* A message is taken off the wire and the receiver advances within its    *)
(* epoch.                                                                  *)
LEMMA MovesOn ==
  ASSUME IInv, NEW x \in Party, NEW m \in BagToSet(net[x]), NEW u,
         Take(x, m, u, None),
         IsState(Save(u), samples), Advances(st[x], Save(u)),
         Save(u).auth = st[x].auth,
         \/ /\ Exchange(st[x], st[Peer(x)], samples)
            /\ Exchange(Save(u), st[Peer(x)], samples)
         \/ /\ Exchange(st[Peer(x)], st[x], samples)
            /\ Exchange(st[Peer(x)], Save(u), samples)
  PROVE  IInv' /\ Quiet
<1> DEFINE s == st[x]
           t == st[Peer(x)]
<1>1. PICK w : w = Save(u)
  OBVIOUS
<1>2. /\ IsState(s, samples) /\ IsChain(chain[x], s) /\ samples \in Nat
      /\ Paired(x, s, t, samples)
  BY PartyFacts
<1>3. /\ Exchange(s, t, samples) => Turn(x, s.epoch)
      /\ Exchange(t, s, samples) => Turn(Peer(x), t.epoch)
  BY <1>2, TurnsOf
<1>4. w.epoch = s.epoch /\ w.epoch >= s.epoch /\ chain[x].secrets = s.auth
  BY <1>1, <1>2, SpqrAssumption DEF Advances, IsState, IsChain
<1>5. Paired(x, w, t, samples)
  BY <1>1, <1>3, <1>4 DEF Paired
<1>6. /\ \A k : MessageOK(s, t, k) => MessageOK(w, t, k)
      /\ \A k : MessageOK(t, s, k) => MessageOK(t, w, k)
  BY <1>1, MessagesStay
<1>7. /\ IInv' /\ chain'[x].secrets = w.auth
      /\ \A p \in Party : p # x => chain'[p] = chain[p]
  BY <1>1, <1>4, <1>5, <1>6, TakeKeeps
<1> QED BY <1>1, <1>4, <1>7 DEF Quiet

(* Ignore keeps the invariant.                                             *)
LEMMA IgnoreKeeps ==
  ASSUME IInv, NEW x \in Party, NEW m \in BagToSet(net[x]), Ignore(x, m)
  PROVE  IInv' /\ Quiet
<1>1. PICK w : w = st[x]
  OBVIOUS
<1>2. /\ IsState(w, samples) /\ IsChain(chain[x], w) /\ samples \in Nat
      /\ Paired(x, w, st[Peer(x)], samples)
  BY <1>1, PartyFacts
<1>3. Take(x, m, w, None) /\ w = Save(w)
  BY <1>1, <1>2 DEF Ignore, IsState
<1>4. w.epoch >= st[x].epoch /\ chain[x].secrets = w.auth
  BY <1>1, <1>2, SpqrAssumption DEF IsState, IsChain
<1>6. /\ \A k : MessageOK(st[x], st[Peer(x)], k) => MessageOK(w, st[Peer(x)], k)
      /\ \A k : MessageOK(st[Peer(x)], st[x], k) => MessageOK(st[Peer(x)], w, k)
      /\ w.auth = st[x].auth
  BY <1>1
<1>5. /\ IInv' /\ chain'[x].secrets = w.auth
      /\ \A p \in Party : p # x => chain'[p] = chain[p]
  BY <1>2, <1>3, <1>4, <1>6, TakeKeeps
<1> QED BY <1>4, <1>5 DEF Quiet

(* The turn of an epoch is not that of the next.                           *)
LEMMA TurnsAlternate ==
  ASSUME NEW e \in Nat PROVE (e + 1) % 2 = 1 <=> e % 2 # 1
OBVIOUS

(* RollOver keeps the invariant: the handover ends.                        *)
LEMMA RollOverKeeps ==
  ASSUME IInv, NEW x \in Party, NEW m \in BagToSet(net[x]), RollOver(x, m)
  PROVE  IInv' /\ Quiet
<1> DEFINE s == st[x]
           t == st[Peer(x)]
<1>1. PICK u : u = [s EXCEPT !.kind = "keys_unsampled", !.epoch = @ + 1,
                             !.sending = None]
  OBVIOUS
<1>2. /\ IsState(s, samples) /\ IsState(t, samples) /\ IsChain(chain[x], s)
      /\ samples \in Nat /\ Paired(x, s, t, samples) /\ Joint(s, t, samples)
      /\ MessageOK(s, t, m)
      /\ \A k \in BagToSet(net[x]) : MessageOK(s, t, k)
  BY PartyFacts
<1>3. Take(x, m, u, None) /\ m.epoch = s.epoch + 1
  BY <1>1 DEF RollOver, RollsOver
<1>4. s.epoch \in Nat \ {0} /\ t.epoch \in Nat
  BY <1>2, SpqrAssumption DEF IsState
<1>5. Handover(t, s, samples) /\ Turn(x, t.epoch)
  <2>1. Handover(t, s, samples)
    BY <1>2, <1>3, <1>4, EpochRange
  <2> QED BY <1>2, <2>1, TurnsOf
<1>6. /\ DOMAIN u = Fields /\ u.kind = "keys_unsampled"
      /\ u.epoch = s.epoch + 1 /\ u.auth = s.auth
      /\ u.hdr = s.hdr /\ u.ek = s.ek /\ u.dk = s.dk /\ u.es = s.es
      /\ u.ct1 = s.ct1 /\ u.sending = None /\ u.receiving = s.receiving
  BY <1>1, <1>2 DEF IsState, Fields
<1> HIDE DEF s, t
<1>7. /\ IsState(Save(u), samples) /\ Exchange(Save(u), t, samples)
      /\ Save(u).epoch = t.epoch
      /\ Save(u).auth = s.auth /\ Save(u).kind = u.kind
  BY <1>2, <1>5, <1>6, RolledOver
<1>8. PICK w : w = Save(u)
  OBVIOUS
<1>9. Paired(x, w, t, samples)
  BY <1>5, <1>7, <1>8 DEF Paired
<1>10. t.epoch = s.epoch + 1 /\ w.epoch = s.epoch + 1 /\ w.kind = "keys_unsampled"
  BY <1>5, <1>6, <1>7, <1>8 DEF Handover
<1>11. ASSUME NEW k, MessageOK(s, t, k) PROVE MessageOK(w, t, k)
  <2>1. k.epoch \in Nat /\ k.epoch <= t.epoch
    BY <1>4, <1>11 DEF MessageOK
  <2>2. k.epoch > s.epoch => k.type = "none"
    BY <1>11 DEF MessageOK
  <2>3. k.epoch = w.epoch => Sent(t, k)
    BY <1>4, <1>10, <2>2 DEF Sent
  <2> QED BY <1>4, <1>10, <1>11, <2>1, <2>2, <2>3 DEF MessageOK
<1>12. ASSUME NEW k, MessageOK(t, s, k) PROVE MessageOK(t, w, k)
  <2>1. k.epoch \in 1..s.epoch /\ k.epoch <= MaxEpoch
    BY <1>12 DEF MessageOK
  <2> QED BY <1>4, <1>10, <2>1 DEF MessageOK
<1>13. w.epoch >= s.epoch /\ chain[x].secrets = s.auth /\ w.auth = s.auth
  BY <1>2, <1>4, <1>7, <1>8, <1>10 DEF IsChain
<1>14. /\ IInv' /\ chain'[x].secrets = w.auth
       /\ \A p \in Party : p # x => chain'[p] = chain[p]
  <2>1. /\ \A k : MessageOK(s, t, k) => MessageOK(w, t, k)
        /\ \A k : MessageOK(t, s, k) => MessageOK(t, w, k)
    BY <1>11, <1>12
  <2>2. IsState(w, samples)
    BY <1>7, <1>8
  <2> QED BY <1>3, <1>8, <1>9, <1>13, <2>1, <2>2, TakeKeeps DEF s, t
<1> QED BY <1>13, <1>14 DEF Quiet

(* DecodeCt2 keeps the invariant, and gives the receiver the secret the    *)
(* peer has already: the handover begins.                                  *)
LEMMA DecodeCt2Keeps ==
  ASSUME IInv, NEW x \in Party, NEW m \in BagToSet(net[x]), DecodeCt2(x, m)
  PROVE  /\ IInv'
         /\ chain'[x].secrets = chain[Peer(x)].secrets
         /\ chain'[Peer(x)] = chain[Peer(x)]
         /\ Len(chain[Peer(x)].secrets) = Len(chain[x].secrets) + 1
<1> DEFINE s == st[x]
           t == st[Peer(x)]
<1>1. /\ IsState(s, samples) /\ IsState(t, samples) /\ IsChain(chain[x], s)
      /\ samples \in Nat /\ Paired(x, s, t, samples) /\ Joint(s, t, samples)
      /\ MessageOK(s, t, m) /\ IsChain(chain[Peer(x)], t)
  BY PartyFacts, PeerOther DEF IInv
<1>2. s.kind = "ek_sent_ct1_received" /\ Heeded(s, m)
  BY DEF DecodeCt2
<1>3. Opened(s, m) = SecretOf(t) /\ Exchange(s, t, samples)
      /\ t.kind = "ct2_sampled"
  BY <1>1, <1>2, NothingErroneous, HeededMessage
<1>4. Turn(x, s.epoch)
  BY <1>1, <1>3, TurnsOf
<1>5. PICK y : y = SecretOf(t)
  OBVIOUS
<1>6. PICK u : u = [s EXCEPT !.kind = "no_header_received", !.epoch = @ + 1,
                             !.auth = Append(@, y), !.dk = 0,
                             !.ct1 = None, !.receiving = EmptyDecoder]
  OBVIOUS
<1>7. Take(x, m, u, y)
  BY <1>3, <1>5, <1>6 DEF DecodeCt2
<1>8. /\ DOMAIN u = Fields /\ u.kind = "no_header_received"
      /\ u.epoch = s.epoch + 1 /\ u.auth = Append(s.auth, y)
      /\ u.hdr = s.hdr /\ u.ek = s.ek /\ u.dk = 0 /\ u.es = s.es
      /\ u.ct1 = None /\ u.sending = s.sending /\ u.receiving = EmptyDecoder
  BY <1>1, <1>6 DEF IsState, Fields
<1>9. s.epoch \in Nat \ {0} /\ t.epoch = s.epoch /\ t.auth = Append(s.auth, y)
      /\ y \in Pairs(samples)
  <2>1. t.kind \in BoundKinds
    BY <1>3 DEF BoundKinds
  <2>2. y \in Pairs(samples)
    BY <1>1, <1>5, <2>1, SecretIsPair
  <2>3. s.epoch \in Nat \ {0}
    BY <1>1, SpqrAssumption DEF IsState
  <2>4. t.epoch = s.epoch /\ t.auth = Append(s.auth, SecretOf(t))
    BY <1>3, <2>1 DEF Exchange
  <2> QED BY <1>5, <2>2, <2>3, <2>4
<1> HIDE DEF s, t
<1>10. /\ IsState(Save(u), samples) /\ Handover(Save(u), t, samples)
       /\ Save(u).epoch = s.epoch + 1
       /\ Save(u).auth = Append(s.auth, y)
  BY <1>1, <1>2, <1>3, <1>5, <1>8, EpochEnds
<1>11. PICK w : w = Save(u)
  OBVIOUS
<1>12. w.epoch = s.epoch + 1 /\ Turn(x, t.epoch) /\ Turn(Peer(x), w.epoch)
  <2>1. w.epoch = s.epoch + 1
    BY <1>10, <1>11
  <2>2. w.epoch % 2 = 1 <=> s.epoch % 2 # 1
    <3>1. PICK e \in Nat : e = s.epoch
      BY <1>9
    <3> QED BY <2>1, <3>1, TurnsAlternate
  <2>3. (x = A /\ Peer(x) = B) \/ (x = B /\ Peer(x) = A)
    <3>1. x \in {A, B} /\ Peer(x) \in {A, B} /\ Peer(x) # x
      BY PeerOther DEF Party
    <3> QED BY <3>1
  <2>4. Turn(Peer(x), w.epoch)
    BY <1>4, <2>2, <2>3, SpqrAssumption DEF Turn
  <2> QED BY <1>4, <1>9, <2>1, <2>4
<1>13. Paired(x, w, t, samples)
  BY <1>10, <1>11, <1>12 DEF Paired
<1>14. ASSUME NEW k, MessageOK(s, t, k) PROVE MessageOK(w, t, k)
  <2>1. k.epoch \in 1..t.epoch /\ k.epoch <= MaxEpoch
    BY <1>14 DEF MessageOK
  <2> QED BY <1>9, <1>12, <2>1 DEF MessageOK
<1>15. ASSUME NEW k, MessageOK(t, s, k) PROVE MessageOK(t, w, k)
  <2>1. k.epoch \in 1..s.epoch /\ k.epoch <= MaxEpoch
    BY <1>15 DEF MessageOK
  <2> QED BY <1>9, <1>12, <2>1 DEF MessageOK
<1>16. y # None
  <2>1. y = <<y[1], y[2]>>
    BY <1>9 DEF Pairs
  <2>2. Len(y) = 2 /\ Len(None) = 0
    BY <2>1 DEF None
  <2> QED BY <2>2
<1>17. w.epoch >= s.epoch /\ w.auth = Append(s.auth, y)
  BY <1>9, <1>10, <1>11
<1>18. /\ IInv' /\ chain'[x].secrets = w.auth
       /\ \A p \in Party : p # x => chain'[p] = chain[p]
  <2>1. /\ \A k : MessageOK(s, t, k) => MessageOK(w, t, k)
        /\ \A k : MessageOK(t, s, k) => MessageOK(t, w, k)
    BY <1>14, <1>15
  <2>2. IsState(w, samples) /\ Take(x, m, u, y) /\ w = Save(u)
    BY <1>7, <1>10, <1>11
  <2>3. Paired(x, w, st[Peer(x)], samples) /\ w.epoch >= st[x].epoch
    BY <1>13, <1>17 DEF s, t
  <2>4. \/ y = None /\ w.auth = st[x].auth
        \/ y # None /\ w.auth = Append(st[x].auth, y)
    BY <1>16, <1>17 DEF s
  <2>5. /\ \A k : MessageOK(st[x], st[Peer(x)], k) => MessageOK(w, st[Peer(x)], k)
        /\ \A k : MessageOK(st[Peer(x)], st[x], k) => MessageOK(st[Peer(x)], w, k)
    BY <2>1 DEF s, t
  <2> QED BY <2>2, <2>3, <2>4, <2>5, TakeKeeps
<1>19. chain[x].secrets = s.auth /\ chain[Peer(x)].secrets = t.auth
  BY <1>1 DEF IsChain
<1>20. Len(t.auth) = Len(s.auth) + 1
  BY <1>1, <1>9 DEF IsState
<1> QED BY <1>9, <1>17, <1>18, <1>19, <1>20, PeerOther

(* DecodeHeader keeps the invariant.                                       *)
LEMMA DecodeHeaderKeeps ==
  ASSUME IInv, NEW x \in Party, NEW m \in BagToSet(net[x]), DecodeHeader(x, m),
         st[x].kind = "no_header_received"
  PROVE  IInv' /\ Quiet
<1> DEFINE s == st[x]
           t == st[Peer(x)]
<1>1. /\ IsState(s, samples) /\ IsState(t, samples) /\ samples \in Nat
      /\ Joint(s, t, samples) /\ MessageOK(s, t, m)
  BY PartyFacts
<1>2. Heeded(s, m)
  BY DEF DecodeHeader
<1>3. Exchange(t, s, samples) /\ t.kind # "keys_unsampled"
      /\ Holds(Got(s, m), HdrOf(t))
  BY <1>1, <1>2, HeededMessage
<1>3a. Body(s, m)[2] = t.dk
  BY <1>3 DEF Body, Holds, HdrOf
<1>4. PICK u : u = [s EXCEPT !.kind = "header_received", !.hdr = t.dk,
                    !.receiving = EmptyDecoder]
  OBVIOUS
<1>5. Take(x, m, u, None)
  BY <1>3a, <1>3, <1>4 DEF DecodeHeader
<1>6. /\ DOMAIN u = Fields /\ u.kind = "header_received"
      /\ u.epoch = s.epoch /\ u.auth = s.auth
      /\ u.hdr = t.dk /\ u.ek = s.ek /\ u.dk = s.dk /\ u.es = s.es
      /\ u.ct1 = s.ct1 /\ u.sending = s.sending /\ u.receiving = EmptyDecoder
  BY <1>1, <1>4 DEF IsState, Fields
<1> HIDE DEF s, t
<1>7. /\ IsState(Save(u), samples) /\ Exchange(t, Save(u), samples)
      /\ Advances(s, Save(u)) /\ Save(u).auth = s.auth
  <2>1. s.kind = "no_header_received"
    BY DEF s
  <2> QED BY <1>1, <1>3, <1>6, <2>1, HeaderDecodes
<1> QED BY <1>3, <1>5, <1>7, MovesOn DEF s, t

(* DecodeCt1 keeps the invariant.                                          *)
LEMMA DecodeCt1Keeps ==
  ASSUME IInv, NEW x \in Party, NEW m \in BagToSet(net[x]), DecodeCt1(x, m),
         st[x].kind = "header_sent"
  PROVE  IInv' /\ Quiet
<1> DEFINE s == st[x]
           t == st[Peer(x)]
<1>1. /\ IsState(s, samples) /\ IsState(t, samples) /\ samples \in Nat
      /\ Joint(s, t, samples) /\ MessageOK(s, t, m)
  BY PartyFacts
<1>2. Heeded(s, m)
  BY DEF DecodeCt1
<1>3. Exchange(s, t, samples) /\ t.kind \in BoundKinds
      /\ Holds(Got(s, m), Ct1Of(t))
  BY <1>1, <1>2, HeededMessage
<1>3a. Body(s, m)[2] = SecretOf(t)
  BY <1>3 DEF Body, Holds, Ct1Of
<1>4. PICK u : u = [s EXCEPT !.kind = "ct1_received", !.ct1 = SecretOf(t),
                    !.receiving = None]
  OBVIOUS
<1>5. Take(x, m, u, None)
  BY <1>3a, <1>3, <1>4 DEF DecodeCt1
<1>6. /\ DOMAIN u = Fields /\ u.kind = "ct1_received"
      /\ u.epoch = s.epoch /\ u.auth = s.auth
      /\ u.hdr = s.hdr /\ u.ek = s.ek /\ u.dk = s.dk /\ u.es = s.es
      /\ u.ct1 = SecretOf(t) /\ u.sending = s.sending /\ u.receiving = None
  BY <1>1, <1>4 DEF IsState, Fields
<1> HIDE DEF s, t
<1>7. /\ IsState(Save(u), samples) /\ Exchange(Save(u), t, samples)
      /\ Advances(s, Save(u)) /\ Save(u).auth = s.auth
  <2>1. s.kind = "header_sent"
    BY DEF s
  <2> QED BY <1>1, <1>3, <1>6, <2>1, CiphertextDecodes
<1> QED BY <1>3, <1>5, <1>7, MovesOn DEF s, t

(* Collect, by the kind of the receiver: the first chunk of ct1.           *)
LEMMA CollectFirstCt1Keeps ==
  ASSUME IInv, NEW x \in Party, NEW m \in BagToSet(net[x]), Collect(x, m),
         st[x].kind = "keys_sampled"
  PROVE  IInv' /\ Quiet
<1> DEFINE s == st[x]
           t == st[Peer(x)]
<1>1. /\ IsState(s, samples) /\ IsState(t, samples) /\ samples \in Nat
      /\ Joint(s, t, samples) /\ MessageOK(s, t, m)
  BY PartyFacts
<1>2. Heeded(s, m)
  BY DEF Collect
<1>3. Exchange(s, t, samples) /\ t.kind \in BoundKinds
      /\ Holds(Got(s, m), Ct1Of(t))
  BY <1>1, <1>2, HeededMessage
<1>3a. PICK d : d = Got(s, m)
  OBVIOUS
<1>3b. PICK v : v = [s EXCEPT !.receiving = d]
  OBVIOUS
<1>4. PICK u : u = [v EXCEPT !.kind = "header_sent", !.sending = EkBody(s), !.ek = 0]
  OBVIOUS
<1>5. Take(x, m, u, None)
  BY <1>3a, <1>3b, <1>4 DEF Collect
<1>6. /\ DOMAIN u = Fields /\ u.kind = "header_sent"
      /\ u.epoch = s.epoch /\ u.auth = s.auth
      /\ u.hdr = s.hdr /\ u.ek = 0 /\ u.dk = s.dk /\ u.es = s.es
      /\ u.ct1 = s.ct1 /\ u.sending = EkBody(s) /\ u.receiving = d
  BY <1>1, <1>3b, <1>4 DEF IsState, Fields
<1> HIDE DEF s, t
<1>7. /\ IsState(Save(u), samples) /\ Exchange(Save(u), t, samples)
      /\ Advances(s, Save(u)) /\ Save(u).auth = s.auth
  <2>1. s.kind = "keys_sampled"
    BY DEF s
  <2> QED BY <1>1, <1>3, <1>3a, <1>6, <2>1, CiphertextBegins
<1> QED BY <1>3, <1>5, <1>7, MovesOn DEF s, t

(* Further chunks of ct1.                                                  *)
LEMMA CollectCt1Keeps ==
  ASSUME IInv, NEW x \in Party, NEW m \in BagToSet(net[x]), Collect(x, m),
         st[x].kind = "header_sent"
  PROVE  IInv' /\ Quiet
<1> DEFINE s == st[x]
           t == st[Peer(x)]
<1>1. /\ IsState(s, samples) /\ IsState(t, samples) /\ samples \in Nat
      /\ Joint(s, t, samples) /\ MessageOK(s, t, m)
  BY PartyFacts
<1>2. Heeded(s, m)
  BY DEF Collect
<1>3. Exchange(s, t, samples)
      /\ Holds(Got(s, m), Ct1Of(t))
  BY <1>1, <1>2, HeededMessage
<1>3a. PICK d : d = Got(s, m)
  OBVIOUS
<1>3b. PICK v : v = [s EXCEPT !.receiving = d]
  OBVIOUS
<1>4. PICK u : u = v
  OBVIOUS
<1>5. Take(x, m, u, None)
  BY <1>3a, <1>3b, <1>4 DEF Collect
<1>6. /\ DOMAIN u = Fields /\ u.kind = "header_sent"
      /\ u.epoch = s.epoch /\ u.auth = s.auth
      /\ u.hdr = s.hdr /\ u.ek = s.ek /\ u.dk = s.dk /\ u.es = s.es
      /\ u.ct1 = s.ct1 /\ u.sending = s.sending /\ u.receiving = d
  BY <1>1, <1>3b, <1>4 DEF IsState, Fields
<1> HIDE DEF s, t
<1>7. /\ IsState(Save(u), samples) /\ Exchange(Save(u), t, samples)
      /\ Advances(s, Save(u)) /\ Save(u).auth = s.auth
  <2>1. s.kind = "header_sent"
    BY DEF s
  <2> QED BY <1>1, <1>3, <1>3a, <1>6, <2>1, CiphertextGrows
<1> QED BY <1>3, <1>5, <1>7, MovesOn DEF s, t

(* The first chunk of ct2.                                                 *)
LEMMA CollectFirstCt2Keeps ==
  ASSUME IInv, NEW x \in Party, NEW m \in BagToSet(net[x]), Collect(x, m),
         st[x].kind = "ct1_received"
  PROVE  IInv' /\ Quiet
<1> DEFINE s == st[x]
           t == st[Peer(x)]
<1>1. /\ IsState(s, samples) /\ IsState(t, samples) /\ samples \in Nat
      /\ Joint(s, t, samples) /\ MessageOK(s, t, m)
  BY PartyFacts
<1>2. Heeded(s, m)
  BY DEF Collect
<1>3. Exchange(s, t, samples) /\ t.kind = "ct2_sampled"
      /\ Holds(Got(s, m), Ct2Of(t))
  BY <1>1, <1>2, HeededMessage
<1>3a. PICK d : d = Got(s, m)
  OBVIOUS
<1>3b. PICK v : v = [s EXCEPT !.receiving = d]
  OBVIOUS
<1>4. PICK u : u = [v EXCEPT !.kind = "ek_sent_ct1_received", !.sending = None]
  OBVIOUS
<1>5. Take(x, m, u, None)
  BY <1>3a, <1>3b, <1>4 DEF Collect
<1>6. /\ DOMAIN u = Fields /\ u.kind = "ek_sent_ct1_received"
      /\ u.epoch = s.epoch /\ u.auth = s.auth
      /\ u.hdr = s.hdr /\ u.ek = s.ek /\ u.dk = s.dk /\ u.es = s.es
      /\ u.ct1 = s.ct1 /\ u.sending = None /\ u.receiving = d
  BY <1>1, <1>3b, <1>4 DEF IsState, Fields
<1> HIDE DEF s, t
<1>7. /\ IsState(Save(u), samples) /\ Exchange(Save(u), t, samples)
      /\ Advances(s, Save(u)) /\ Save(u).auth = s.auth
  <2>1. s.kind = "ct1_received"
    BY DEF s
  <2> QED BY <1>1, <1>3, <1>3a, <1>6, <2>1, SecondPartBegins
<1> QED BY <1>3, <1>5, <1>7, MovesOn DEF s, t

(* Further chunks of ct2.                                                  *)
LEMMA CollectCt2Keeps ==
  ASSUME IInv, NEW x \in Party, NEW m \in BagToSet(net[x]), Collect(x, m),
         st[x].kind = "ek_sent_ct1_received"
  PROVE  IInv' /\ Quiet
<1> DEFINE s == st[x]
           t == st[Peer(x)]
<1>1. /\ IsState(s, samples) /\ IsState(t, samples) /\ samples \in Nat
      /\ Joint(s, t, samples) /\ MessageOK(s, t, m)
  BY PartyFacts
<1>2. Heeded(s, m)
  BY DEF Collect
<1>3. Exchange(s, t, samples)
      /\ Holds(Got(s, m), Ct2Of(t))
  BY <1>1, <1>2, HeededMessage
<1>3a. PICK d : d = Got(s, m)
  OBVIOUS
<1>3b. PICK v : v = [s EXCEPT !.receiving = d]
  OBVIOUS
<1>4. PICK u : u = v
  OBVIOUS
<1>5. Take(x, m, u, None)
  BY <1>3a, <1>3b, <1>4 DEF Collect
<1>6. /\ DOMAIN u = Fields /\ u.kind = "ek_sent_ct1_received"
      /\ u.epoch = s.epoch /\ u.auth = s.auth
      /\ u.hdr = s.hdr /\ u.ek = s.ek /\ u.dk = s.dk /\ u.es = s.es
      /\ u.ct1 = s.ct1 /\ u.sending = s.sending /\ u.receiving = d
  BY <1>1, <1>3b, <1>4 DEF IsState, Fields
<1> HIDE DEF s, t
<1>7. /\ IsState(Save(u), samples) /\ Exchange(Save(u), t, samples)
      /\ Advances(s, Save(u)) /\ Save(u).auth = s.auth
  <2>1. s.kind = "ek_sent_ct1_received"
    BY DEF s
  <2> QED BY <1>1, <1>3, <1>3a, <1>6, <2>1, SecondPartGrows
<1> QED BY <1>3, <1>5, <1>7, MovesOn DEF s, t

(* Chunks of the header.                                                   *)
LEMMA CollectHeaderKeeps ==
  ASSUME IInv, NEW x \in Party, NEW m \in BagToSet(net[x]), Collect(x, m),
         st[x].kind = "no_header_received"
  PROVE  IInv' /\ Quiet
<1> DEFINE s == st[x]
           t == st[Peer(x)]
<1>1. /\ IsState(s, samples) /\ IsState(t, samples) /\ samples \in Nat
      /\ Joint(s, t, samples) /\ MessageOK(s, t, m)
  BY PartyFacts
<1>2. Heeded(s, m)
  BY DEF Collect
<1>3. Exchange(t, s, samples) /\ t.kind # "keys_unsampled"
      /\ Holds(Got(s, m), HdrOf(t))
  BY <1>1, <1>2, HeededMessage
<1>3a. PICK d : d = Got(s, m)
  OBVIOUS
<1>3b. PICK v : v = [s EXCEPT !.receiving = d]
  OBVIOUS
<1>4. PICK u : u = v
  OBVIOUS
<1>5. Take(x, m, u, None)
  BY <1>3a, <1>3b, <1>4 DEF Collect
<1>6. /\ DOMAIN u = Fields /\ u.kind = "no_header_received"
      /\ u.epoch = s.epoch /\ u.auth = s.auth
      /\ u.hdr = s.hdr /\ u.ek = s.ek /\ u.dk = s.dk /\ u.es = s.es
      /\ u.ct1 = s.ct1 /\ u.sending = s.sending /\ u.receiving = d
  BY <1>1, <1>3b, <1>4 DEF IsState, Fields
<1> HIDE DEF s, t
<1>7. /\ IsState(Save(u), samples) /\ Exchange(t, Save(u), samples)
      /\ Advances(s, Save(u)) /\ Save(u).auth = s.auth
  <2>1. s.kind = "no_header_received"
    BY DEF s
  <2> QED BY <1>1, <1>3, <1>3a, <1>6, <2>1, HeaderGrows
<1> QED BY <1>3, <1>5, <1>7, MovesOn DEF s, t

(* Chunks of the key, with or without an acknowledgement.                  *)
LEMMA CollectKeyKeeps ==
  ASSUME IInv, NEW x \in Party, NEW m \in BagToSet(net[x]), Collect(x, m),
         st[x].kind \in {"ct1_sampled", "ct1_acknowledged"}
  PROVE  IInv' /\ Quiet
<1> DEFINE s == st[x]
           t == st[Peer(x)]
<1>1. /\ IsState(s, samples) /\ IsState(t, samples) /\ samples \in Nat
      /\ Joint(s, t, samples) /\ MessageOK(s, t, m)
  BY PartyFacts
<1>2. Heeded(s, m)
  BY DEF Collect
<1>3. /\ Exchange(t, s, samples) /\ Holds(Got(s, m), EkOf(t))
      /\ m.type = "ek_ct1_ack" => t.kind = "ct1_received"
  BY <1>1, <1>2, HeededMessage
<1>4. PICK d : d = Got(s, m)
  OBVIOUS
<1>5. PICK v : v = [s EXCEPT !.receiving = d]
  OBVIOUS
<1>6. /\ DOMAIN v = Fields /\ v.kind = s.kind /\ v.epoch = s.epoch /\ v.auth = s.auth
      /\ v.hdr = s.hdr /\ v.ek = s.ek /\ v.dk = s.dk /\ v.es = s.es
      /\ v.ct1 = s.ct1 /\ v.sending = s.sending /\ v.receiving = d
  BY <1>1, <1>5 DEF IsState, Fields
<1>7. CASE s.kind = "ct1_sampled" /\ m.type = "ek_ct1_ack"
  <2>1. PICK u : u = [v EXCEPT !.kind = "ct1_acknowledged", !.sending = None]
    OBVIOUS
  <2>2. Take(x, m, u, None)
    BY <1>4, <1>5, <1>7, <2>1 DEF Collect
  <2>3. /\ DOMAIN u = Fields /\ u.kind = "ct1_acknowledged"
        /\ u.epoch = s.epoch /\ u.auth = s.auth
        /\ u.hdr = s.hdr /\ u.ek = s.ek /\ u.dk = s.dk /\ u.es = s.es
        /\ u.ct1 = s.ct1 /\ u.sending = None /\ u.receiving = d
    BY <1>6, <2>1 DEF Fields
  <2> HIDE DEF s, t
  <2>4. /\ IsState(Save(u), samples) /\ Exchange(t, Save(u), samples)
        /\ Advances(s, Save(u)) /\ Save(u).auth = s.auth
    BY <1>1, <1>3, <1>4, <1>7, <2>3, KeyAcknowledges
  <2> QED BY <1>3, <2>2, <2>4, MovesOn DEF s, t
<1>8. CASE ~(s.kind = "ct1_sampled" /\ m.type = "ek_ct1_ack")
  <2>1. Take(x, m, v, None)
    BY <1>4, <1>5, <1>8 DEF Collect
  <2>2. s.kind \in {"ct1_sampled", "ct1_acknowledged"}
    OBVIOUS
  <2> HIDE DEF s, t
  <2>3. /\ IsState(Save(v), samples) /\ Exchange(t, Save(v), samples)
        /\ Advances(s, Save(v)) /\ Save(v).auth = s.auth
    BY <1>1, <1>3, <1>4, <1>6, <2>2, KeyGrows
  <2> QED BY <1>3, <2>1, <2>3, MovesOn DEF s, t
<1> QED BY <1>7, <1>8

(* Collect keeps the invariant.                                            *)
LEMMA CollectKeeps ==
  ASSUME IInv, NEW x \in Party, NEW m \in BagToSet(net[x]), Collect(x, m)
  PROVE  IInv' /\ Quiet
<1>1. /\ IsState(st[x], samples) /\ IsState(st[Peer(x)], samples)
      /\ samples \in Nat /\ Joint(st[x], st[Peer(x)], samples)
      /\ MessageOK(st[x], st[Peer(x)], m)
  BY PartyFacts
<1>2. Heeded(st[x], m) /\ st[x].kind # "ek_received_ct1_sampled"
  BY DEF Collect
<1>3. st[x].kind \in {"keys_sampled", "header_sent", "ct1_received",
               "ek_sent_ct1_received", "no_header_received", "ct1_sampled",
               "ct1_acknowledged"}
  BY <1>1, <1>2, HeededMessage
<1> QED BY <1>3, CollectFirstCt1Keeps, CollectCt1Keeps, CollectFirstCt2Keeps,
           CollectCt2Keeps, CollectHeaderKeeps, CollectKeyKeeps

(* _send_ct2: with the key in hand the second part follows.                *)
LEMMA SecondPartFollows ==
  ASSUME IInv, NEW x \in Party, NEW m \in BagToSet(net[x]),
         Exchange(st[Peer(x)], st[x], samples), st[Peer(x)].kind = "ct1_received",
         st[x].kind \in {"ct1_sampled", "ct1_acknowledged", "ek_received_ct1_sampled"},
         NEW k, DOMAIN k = Fields, k.epoch = st[x].epoch, k.auth = st[x].auth,
         k.ek = st[Peer(x)].dk, k.dk = st[x].dk, k.es = st[x].es, k.ct1 = st[x].ct1,
         Take(x, m, SendCt2(k), None)
  PROVE  IInv' /\ Quiet
<1> DEFINE s == st[x]
           t == st[Peer(x)]
<1>1. /\ IsState(s, samples) /\ IsState(t, samples) /\ samples \in Nat
  BY PartyFacts
<1>2. SecretOf(s) = <<t.dk, s.es>> /\ s.ct1 = SecretOf(s)
  BY DEF Exchange, AnswerData
<1>3. PICK u : u = SendCt2(k)
  OBVIOUS
<1>4. Ct2Body(k) = Ct2Of(s)
  BY <1>2 DEF Ct2Body, Ct2Of
<1>5. /\ DOMAIN u = Fields /\ u.kind = "ct2_sampled"
      /\ u.epoch = s.epoch /\ u.auth = s.auth
      /\ u.hdr = 0 /\ u.ek = 0 /\ u.dk = s.dk /\ u.es = 0
      /\ u.ct1 = None /\ u.sending = Ct2Of(s) /\ u.receiving = None
  BY <1>3, <1>4 DEF SendCt2, Fields
<1> HIDE DEF s, t
<1>6. Exchange(t, s, samples) /\ t.kind = "ct1_received"
      /\ s.kind \in {"ct1_sampled", "ct1_acknowledged", "ek_received_ct1_sampled"}
  BY DEF s, t
<1>7. /\ IsState(Save(u), samples) /\ Exchange(t, Save(u), samples)
      /\ Advances(s, Save(u)) /\ Save(u).auth = s.auth
  BY <1>1, <1>5, <1>6, CiphertextFollows
<1>8. Take(x, m, u, None)
  BY <1>3
<1> QED BY <1>6, <1>7, <1>8, MovesOn DEF s, t

(* Acknowledge keeps the invariant.                                        *)
LEMMA AcknowledgeKeeps ==
  ASSUME IInv, NEW x \in Party, NEW m \in BagToSet(net[x]), Acknowledge(x, m)
  PROVE  IInv' /\ Quiet
<1> DEFINE s == st[x]
           t == st[Peer(x)]
<1>1. /\ IsState(s, samples) /\ IsState(t, samples) /\ samples \in Nat
      /\ Joint(s, t, samples) /\ MessageOK(s, t, m)
  BY PartyFacts
<1>2. Heeded(s, m) /\ s.kind = "ek_received_ct1_sampled" /\ Take(x, m, SendCt2(s), None)
  BY DEF Acknowledge
<1>3. Exchange(t, s, samples) /\ t.kind = "ct1_received"
  BY <1>1, <1>2, HeededMessage
<1>4. s.ek = t.dk /\ DOMAIN s = Fields
  BY <1>1, <1>2, <1>3 DEF Exchange, AnswerData, IsState
<1>5. PICK k : k = s
  OBVIOUS
<1> QED BY <1>2, <1>3, <1>4, <1>5, SecondPartFollows

(* DecodeKey keeps the invariant.                                          *)
LEMMA DecodeKeyKeeps ==
  ASSUME IInv, NEW x \in Party, NEW m \in BagToSet(net[x]), DecodeKey(x, m)
  PROVE  IInv' /\ Quiet
<1> DEFINE s == st[x]
           t == st[Peer(x)]
<1>1. /\ IsState(s, samples) /\ IsState(t, samples) /\ samples \in Nat
      /\ Joint(s, t, samples) /\ MessageOK(s, t, m)
  BY PartyFacts
<1>2. Heeded(s, m) /\ s.kind \in {"ct1_sampled", "ct1_acknowledged"}
  BY DEF DecodeKey
<1>3. /\ Exchange(t, s, samples) /\ t.kind \in {"header_sent", "ct1_received"}
      /\ s.kind = "ct1_acknowledged" => t.kind = "ct1_received"
      /\ m.type = "ek_ct1_ack" => t.kind = "ct1_received"
      /\ Holds(Got(s, m), EkOf(t))
  BY <1>1, <1>2, HeededMessage
<1>4. Body(s, m)[2] = t.dk
  BY <1>3 DEF Body, Holds, EkOf
<1>5. PICK k : k = [s EXCEPT !.ek = t.dk]
  OBVIOUS
<1>6. /\ DOMAIN k = Fields /\ k.kind = s.kind /\ k.epoch = s.epoch /\ k.auth = s.auth
      /\ k.hdr = s.hdr /\ k.ek = t.dk /\ k.dk = s.dk /\ k.es = s.es
      /\ k.ct1 = s.ct1 /\ k.sending = s.sending /\ k.receiving = s.receiving
  BY <1>1, <1>5 DEF IsState, Fields
<1>7. CASE s.kind = "ct1_acknowledged" \/ m.type = "ek_ct1_ack"
  <2>1. Take(x, m, SendCt2(k), None)
    BY <1>4, <1>5, <1>7 DEF DecodeKey
  <2>2. t.kind = "ct1_received"
    BY <1>3, <1>7
  <2> QED BY <1>2, <1>3, <1>6, <2>1, <2>2, SecondPartFollows
<1>8. CASE ~(s.kind = "ct1_acknowledged" \/ m.type = "ek_ct1_ack")
  <2>1. PICK u : u = [k EXCEPT !.kind = "ek_received_ct1_sampled", !.hdr = 0,
                               !.receiving = None]
    OBVIOUS
  <2>2. Take(x, m, u, None)
    BY <1>4, <1>5, <1>8, <2>1 DEF DecodeKey
  <2>3. /\ DOMAIN u = Fields /\ u.kind = "ek_received_ct1_sampled"
        /\ u.epoch = s.epoch /\ u.auth = s.auth
        /\ u.hdr = 0 /\ u.ek = t.dk /\ u.dk = s.dk /\ u.es = s.es
        /\ u.ct1 = s.ct1 /\ u.sending = s.sending /\ u.receiving = None
    BY <1>6, <2>1 DEF Fields
  <2>4. s.kind = "ct1_sampled"
    BY <1>2, <1>8
  <2> HIDE DEF s, t
  <2>5. /\ IsState(Save(u), samples) /\ Exchange(t, Save(u), samples)
        /\ Advances(s, Save(u)) /\ Save(u).auth = s.auth
    BY <1>1, <1>3, <2>3, <2>4, KeyDecodes
  <2> QED BY <1>3, <2>2, <2>5, MovesOn DEF s, t
<1> QED BY <1>7, <1>8

(* A lost message, and one whose recv raised, disturb nothing.             *)
LEMMA LoseKeeps ==
  ASSUME IInv, NEW x \in Party, NEW m,
         net' = [net EXCEPT ![x] = net[x] (-) SetToBag({m})],
         UNCHANGED <<st, chain, samples>>
  PROVE  IInv' /\ Quiet
<1>1. IsABag(net[x])
  BY PartyFacts
<1>2. /\ IsABag(net[x] (-) SetToBag({m}))
      /\ BagToSet(net[x] (-) SetToBag({m})) \subseteq BagToSet(net[x])
  <2>1. PICK b : b = net[x]
    OBVIOUS
  <2> QED BY <1>1, <2>1, BagRemove
<1>3. /\ DOMAIN net' = Party
      /\ \A p \in Party : /\ IsABag(net'[p])
                          /\ BagToSet(net'[p]) \subseteq BagToSet(net[p])
  BY <1>2 DEF IInv
<1>4. Round'
  BY DEF IInv, Round
<1>5. IInv'
  BY <1>3, <1>4 DEF IInv
<1> QED BY <1>5 DEF Quiet

(* The first state satisfies the invariant.                                *)
LEMMA SpqrInit == Init => IInv
<1> SUFFICES ASSUME Init PROVE IInv
  OBVIOUS
<1>1. PICK a : a = Blank
  OBVIOUS
<1>2. PICK b : b = [Blank EXCEPT !.kind = "no_header_received", !.receiving = EmptyDecoder]
  OBVIOUS
<1>3. A \in Party /\ B \in Party /\ A # B /\ Party = {A, B} /\ Peer(A) = B
  BY SpqrAssumption DEF Party, Peer
<1>4. /\ DOMAIN st = Party /\ st[A] = a /\ st[B] = b
      /\ DOMAIN chain = Party /\ DOMAIN net = Party /\ samples = 0
      /\ \A p \in Party : /\ chain[p] = [secrets |-> << >>, sendEpoch |-> 0, oldest |-> 0]
                          /\ net[p] = EmptyBag
  BY <1>1, <1>2, <1>3 DEF Init
<1>5. /\ DOMAIN a = Fields /\ a.kind = "keys_unsampled" /\ a.epoch = 1 /\ a.auth = << >>
      /\ a.hdr = 0 /\ a.ek = 0 /\ a.dk = 0 /\ a.es = 0 /\ a.ct1 = None
      /\ a.sending = None /\ a.receiving = None
  BY <1>1 DEF Blank, Fields
<1>6. /\ DOMAIN b = Fields /\ b.kind = "no_header_received" /\ b.epoch = 1
      /\ b.auth = << >> /\ b.hdr = 0 /\ b.ek = 0 /\ b.dk = 0 /\ b.es = 0
      /\ b.ct1 = None /\ b.sending = None /\ b.receiving = EmptyDecoder
  BY <1>2 DEF Blank, Fields
<1>7. Save(a) = a
  <2>1. Stored[a.kind] = {}
    BY <1>5, StoredOf
  <2>2. \A f \in Fields : Save(a)[f] = a[f]
    BY <1>1, <1>5 DEF Save
  <2>3. a = [f \in Fields |-> a[f]] /\ Save(a) = [f \in Fields |-> Save(a)[f]]
    BY <1>1, <1>5 DEF Blank, Fields, Save
  <2> QED BY <2>2, <2>3
<1>8. Save(b) = b
  <2>1. Stored[b.kind] = {"receiving"}
    BY <1>6, StoredOf
  <2>2. \A f \in Fields : f \in {"kind", "epoch", "auth", "receiving"} \/ b[f] = Blank[f]
    BY <1>6 DEF Blank, Fields
  <2>3. \A f \in Fields : Save(b)[f] = b[f]
    BY <1>6, <2>1, <2>2 DEF Save
  <2>4. b = [f \in Fields |-> b[f]] /\ Save(b) = [f \in Fields |-> Save(b)[f]]
    BY <1>2, <1>6 DEF Blank, Fields, Save
  <2> QED BY <2>3, <2>4
<1>9. MaxEpoch \in Nat /\ MaxEpoch > 0 /\ 1 \in 1..(MaxEpoch + 1)
      /\ << >> \in Seq(Pairs(0)) /\ Len(<< >>) = 1 - 1
  BY SpqrAssumption
<1>10. IsState(a, 0) /\ IsState(b, 0)
  <2>1. /\ a.kind \in Kinds /\ a.kind \notin BoundKinds
        /\ b.kind \in Kinds /\ b.kind \notin BoundKinds
    BY <1>5, <1>6 DEF Kinds, BoundKinds
  <2> QED BY <1>5, <1>6, <1>7, <1>8, <1>9, <2>1 DEF IsState
<1>11. Exchange(a, b, 0) /\ Turn(A, a.epoch)
  <2>1. InStep(a, b) /\ OfferData(a, b) /\ AnswerData(a, b)
    BY <1>5, <1>6 DEF InStep, OfferData, AnswerData
  <2>2. Turn(A, a.epoch)
    BY <1>5 DEF Turn
  <2> QED BY <1>5, <1>6, <2>1, <2>2 DEF Exchange, BoundKinds
<1>12. Round
  BY <1>3, <1>4, <1>11 DEF Round
<1>13. ASSUME NEW p \in Party
       PROVE  /\ IsState(st[p], samples) /\ IsChain(chain[p], st[p])
              /\ IsABag(net[p]) /\ BagToSet(net[p]) = {}
  <2>1. st[p].auth = << >> /\ st[p].epoch = 1 /\ IsState(st[p], samples)
    BY <1>3, <1>4, <1>5, <1>6, <1>10
  <2>2. IsChain(chain[p], st[p])
    BY <1>4, <1>9, <2>1 DEF IsChain
  <2>3. IsABag(net[p]) /\ BagToSet(net[p]) = {}
    BY <1>4 DEF EmptyBag, SetToBag, IsABag, BagToSet
  <2> QED BY <2>1, <2>2, <2>3
<1> QED BY <1>4, <1>12, <1>13 DEF IInv

(* Receive keeps the invariant; only DecodeCt2 adds a secret.              *)
LEMMA ReceiveKeeps ==
  ASSUME IInv, NEW x \in Party, NEW m \in BagToSet(net[x]),
         \/ Ignore(x, m) \/ RollOver(x, m) \/ Collect(x, m)
         \/ DecodeHeader(x, m) \/ DecodeCt1(x, m) \/ DecodeKey(x, m)
         \/ Acknowledge(x, m) \/ Refuse(x, m)
  PROVE  IInv' /\ Quiet
<1>1. CASE Ignore(x, m)
  BY <1>1, IgnoreKeeps
<1>2. CASE RollOver(x, m)
  BY <1>2, RollOverKeeps
<1>3. CASE Collect(x, m)
  BY <1>3, CollectKeeps
<1>4. CASE DecodeHeader(x, m)
  BY <1>4, DecodeHeaderKeeps DEF DecodeHeader
<1>5. CASE DecodeCt1(x, m)
  BY <1>5, DecodeCt1Keeps DEF DecodeCt1
<1>6. CASE DecodeKey(x, m)
  BY <1>6, DecodeKeyKeeps
<1>7. CASE Acknowledge(x, m)
  BY <1>7, AcknowledgeKeeps
<1>8. CASE Refuse(x, m)
  BY <1>8, LoseKeeps DEF Refuse
<1> QED BY <1>1, <1>2, <1>3, <1>4, <1>5, <1>6, <1>7, <1>8

(* Party x adopts the secret its peer has fixed for the epoch.             *)
Learns(x) ==
  /\ chain'[x].secrets = chain[Peer(x)].secrets
  /\ chain'[Peer(x)] = chain[Peer(x)]
  /\ Len(chain[Peer(x)].secrets) = Len(chain[x].secrets) + 1

(* Party x fixes a fresh secret for an epoch that is its turn.             *)
Proposes(x) ==
  /\ \E y \in Pairs(samples') :
       /\ y[2] > samples
       /\ chain'[x].secrets = Append(chain[x].secrets, y)
  /\ chain'[Peer(x)] = chain[Peer(x)]
  /\ chain[x].secrets = chain[Peer(x)].secrets
  /\ Len(chain[x].secrets) + 1 = st[x].epoch /\ st[x].epoch <= MaxEpoch
  /\ Turn(Peer(x), st[x].epoch)

(* Every step keeps the invariant and is one of three kinds: it adds no    *)
(* secret, or Encapsulate adds a fresh one, or DecodeCt2 the peer's.       *)
LEMMA StepKinds ==
  ASSUME IInv, Next
  PROVE  IInv' /\ (Quiet \/ \E x \in Party : Learns(x) \/ Proposes(x))
<1> SUFFICES ASSUME NEW x \in Party, Send(x) \/ Receive(x) \/ Lose(x)
             PROVE  IInv' /\ (Quiet \/ Learns(x) \/ Proposes(x))
  BY DEF Next
<1>1. CASE Send(x)
  BY <1>1, SampleKeysKeeps, EncapsulateKeeps, ContinueKeeps DEF Send, Proposes
<1>2. CASE Receive(x)
  BY <1>2, ReceiveKeeps, DecodeCt2Keeps DEF Receive, Learns
<1>3. CASE Lose(x)
  BY <1>3, LoseKeeps DEF Lose
<1> QED BY <1>1, <1>2, <1>3

(* Every step keeps the invariant.                                         *)
LEMMA SpqrNext == IInv /\ [Next]_vars => IInv'
<1>1. ASSUME IInv, UNCHANGED vars PROVE IInv'
  BY <1>1 DEF vars, IInv, Round
<1> QED BY <1>1, StepKinds

(* The invariant holds of every behaviour.                                 *)
LEMMA SpqrInvariant == Spec => []IInv
BY SpqrInit, SpqrNext, PTL DEF Spec

(* The invariant implies the type invariant.                               *)
LEMMA InvariantTyped == IInv => TypeOK
<1>1. ASSUME IInv PROVE TypeOK
  <2> USE <1>1
  <2>1. samples \in Numbers
    <3>1. PICK p \in Party : \/ Exchange(st[p], st[Peer(p)], samples)
                             \/ Handover(st[p], st[Peer(p)], samples)
      BY DEF IInv, Round
    <3>2. /\ st[p].epoch \in 1..(MaxEpoch + 1) /\ st[Peer(p)].epoch \in 1..(MaxEpoch + 1)
          /\ samples \in Nat /\ MaxEpoch \in Nat
      BY <3>1, PeerOther, SpqrAssumption DEF IInv, IsState
    <3>3. CASE Handover(st[p], st[Peer(p)], samples)
      BY <3>2, <3>3 DEF Handover, Numbers
    <3>4. CASE Exchange(st[p], st[Peer(p)], samples)
      <4>1. CASE st[p].kind = "keys_unsampled"
        <5>1. st[Peer(p)].kind \notin BoundKinds
          BY <3>4, <4>1 DEF Exchange, InStep, BoundKinds
        <5>2. samples = 2 * st[p].epoch - 2
          BY <3>4, <4>1, <5>1 DEF Exchange
        <5> QED BY <3>2, <5>2 DEF Numbers
      <4>2. CASE st[p].kind # "keys_unsampled"
        <5>1. st[p].epoch <= MaxEpoch
          BY <3>4, <4>2 DEF Exchange
        <5>2. samples = 2 * st[p].epoch \/ samples = 2 * st[p].epoch - 1
          BY <3>4, <4>2 DEF Exchange
        <5> QED BY <3>2, <5>1, <5>2 DEF Numbers
      <4> QED BY <4>1, <4>2
    <3> QED BY <3>1, <3>3, <3>4
  <2>2. 0..samples \subseteq Numbers /\ Pairs(samples) \subseteq Secrets
    BY <2>1, SpqrAssumption DEF Numbers, Secrets, Pairs
  <2>3. ASSUME NEW p \in Party
        PROVE  /\ st[p].kind \in Kinds /\ st[p].epoch \in 1..(MaxEpoch + 1)
               /\ st[p].auth \in Seq(Secrets)
               /\ {st[p].hdr, st[p].ek, st[p].dk, st[p].es} \subseteq Numbers
               /\ st[p].ct1 \in Secrets \union {None}
               /\ chain[p].secrets \in Seq(Secrets)
               /\ chain[p].oldest \in 0..chain[p].sendEpoch
               /\ chain[p].sendEpoch \in 0..MaxEpoch
               /\ IsABag(net[p])
    <3>1. IsState(st[p], samples) /\ IsChain(chain[p], st[p]) /\ IsABag(net[p])
      BY PartyFacts
    <3>2. st[p].auth \in Seq(Secrets)
      BY <2>2, <3>1 DEF IsState
    <3>3. chain[p].sendEpoch \in 0..MaxEpoch
      BY <3>1, SpqrAssumption DEF IsChain, IsState
    <3> QED BY <2>2, <3>1, <3>2, <3>3 DEF IsState, IsChain
  <2> QED BY <2>1, <2>3 DEF TypeOK
<1> QED BY <1>1

(* The same after a step.                                                  *)
LEMMA InvariantTypedNext == IInv' => TypeOK'
BY InvariantTyped, PTL

(* Type correctness of both ends of a session, for every Needed, Capacity  *)
(* and MaxEpoch: no more than two samples are taken in an epoch, and the   *)
(* send epoch and the oldest link of a chain stay in their bounds.         *)
THEOREM TypeCorrect == Spec => []TypeOK
BY InvariantTyped, SpqrInvariant, PTL

(* Whatever is lost or overtaken, send never raises and recv raises only   *)
(* for a message of at least two epochs ago: no MAC fails, no key differs  *)
(* from its header, no message is from the future.                         *)
THEOREM SessionsNeverBreak == Spec => []NothingBreaks
BY BreaksNothing, SpqrInvariant, PTL

-----------------------------------------------------------------------------
(* The first chains are those of EpochAgreement.                           *)
LEMMA AgreementInit == Init => Agreement!Init
BY DEF Init, Agreement!Init

(* Every step is one of EpochAgreement or a stutter: Encapsulate proposes  *)
(* a fresh secret in the party's turn, DecodeCt2 adopts the peer's.        *)
LEMMA AgreementStep ==
  ASSUME IInv, [Next]_vars
  PROVE  [Agreement!Next]_([p \in Party |-> chain[p].secrets])
<1> DEFINE sec == [p \in Party |-> chain[p].secrets]
<1>0. /\ sec' = [p \in Party |-> chain'[p].secrets]
      /\ samples \in Nat
  BY DEF IInv
<1>1. CASE UNCHANGED vars
  BY <1>1 DEF vars
<1>2. CASE Quiet
  BY <1>2 DEF Quiet
<1>3. ASSUME NEW x \in Party, Learns(x) PROVE Agreement!Next
  <2>1. Party = {x, Peer(x)} /\ Peer(x) # x /\ Peer(x) \in Party
    BY PeerOther
  <2>2. sec' = [sec EXCEPT ![x] = sec[Peer(x)]]
    BY <1>3, <2>1 DEF Learns
  <2>3. Agreement!Epoch(Peer(x)) = Agreement!Epoch(x) + 1
    BY <1>3, <2>1 DEF Learns, Agreement!Epoch
  <2>4. Agreement!Learn(x)
    BY <2>1, <2>2, <2>3 DEF Agreement!Learn
  <2> QED BY <2>4 DEF Agreement!Next
<1>4. ASSUME NEW x \in Party, Proposes(x) PROVE Agreement!Next
  <2>1. Party = {x, Peer(x)} /\ Peer(x) # x /\ Peer(x) \in Party /\ Peer(Peer(x)) = x
    BY PeerOther
  <2>2. PICK y \in Pairs(samples') :
          y[2] > samples /\ chain'[x].secrets = Append(chain[x].secrets, y)
    BY <1>4 DEF Proposes
  <2>3. sec' = [sec EXCEPT ![x] = Append(@, y)]
    BY <1>4, <2>1, <2>2 DEF Proposes
  <2>4. Agreement!Level
    BY <1>4, <2>1 DEF Proposes, Agreement!Level
  <2>5. /\ Agreement!Epoch(x) + 1 = st[x].epoch /\ Agreement!Epoch(x) \in Nat
        /\ st[x].epoch <= MaxEpoch /\ Agreement!Epoch(x) < MaxEpoch
    <3>1. IsState(st[x], samples) /\ IsChain(chain[x], st[x])
      BY PartyFacts
    <3>2. Len(chain[x].secrets) \in Nat
      BY <3>1 DEF IsState, IsChain
    <3> QED BY <1>4, <3>2, SpqrAssumption DEF Proposes, Agreement!Epoch
  <2>6. x = IF (Agreement!Epoch(x) + 1) % 2 = 1 THEN B ELSE A
    <3>1. Turn(Peer(x), st[x].epoch)
      BY <1>4 DEF Proposes
    <3>2. (x = A /\ Peer(x) = B) \/ (x = B /\ Peer(x) = A)
      <4>1. x \in {A, B} /\ Peer(x) \in {A, B}
        BY <2>1 DEF Party
      <4> QED BY <2>1, <4>1
    <3> QED BY <2>5, <3>1, <3>2, SpqrAssumption DEF Turn
  <2>7. Agreement!Fresh(y)
    <3> SUFFICES ASSUME NEW p \in Party, NEW i \in 1..Len(chain[p].secrets)
                 PROVE  chain[p].secrets[i] # y
      BY DEF Agreement!Fresh, Agreement!Epoch
    <3>1. IsState(st[p], samples) /\ IsChain(chain[p], st[p])
      BY PartyFacts
    <3>2. chain[p].secrets \in Seq(Pairs(samples))
      BY <3>1 DEF IsState, IsChain
    <3>3. chain[p].secrets[i] \in Pairs(samples)
      BY <3>2
    <3>4. chain[p].secrets[i][2] <= samples
      BY <1>0, <3>3 DEF Pairs
    <3> QED BY <1>0, <2>2, <3>3, <3>4 DEF Pairs
  <2>8. y \in Secrets
    <3>1. samples' \in Numbers
      BY SpqrNext, InvariantTypedNext DEF TypeOK
    <3>2. \A n \in Numbers : Pairs(n) \subseteq Secrets
      BY SpqrAssumption DEF Numbers, Secrets, Pairs
    <3> QED BY <2>2, <3>1, <3>2
  <2>9. Agreement!Propose(x)
    BY <2>3, <2>4, <2>5, <2>6, <2>7, <2>8 DEF Agreement!Propose
  <2> QED BY <2>9 DEF Agreement!Next
<1> QED BY <1>1, <1>2, <1>3, <1>4, StepKinds

(* Spqr implements EpochAgreement: the chains of the two parties never     *)
(* differ by more than the last secret, and no party adopts another one.   *)
THEOREM EpochsAgree == Spec => AgreementSpec
<1>1. IInv /\ [Next]_vars => [Agreement!Next]_([p \in Party |-> chain[p].secrets])
  BY AgreementStep
<1> QED BY AgreementInit, <1>1, SpqrInvariant, PTL DEF Spec, AgreementSpec, Agreement!Spec

-----------------------------------------------------------------------------
(* KeyWindow.                                                              *)

(* What is kept was overtaken and never handed out.                        *)
KeptUnused == \A i \in prev : i < ctr /\ given[i] = 0

(* Nothing beyond the chain was handed out.                                *)
AheadUnused == \A i \in Index : i > ctr => given[i] = 0

(* The key the chain stands at was.                                        *)
ChainKeyUsed == \A i \in Index : i = ctr => given[i] = 1

(* Every unused key behind the chain and inside the window is kept.        *)
WindowKept ==
  \A i \in Index : i < ctr /\ given[i] = 0 /\ ~Trimmed(i) => i \in prev

(* The inductive invariant of the window.                                  *)
WindowIInv == /\ WindowTypeOK
        /\ NoKeyTwice
        /\ KeptUnused
        /\ AheadUnused
        /\ ChainKeyUsed
        /\ WindowKept

-----------------------------------------------------------------------------
(* What an early message leaves in the store: only keys it passed over or  *)
(* that were kept before, and all of these that its window still reaches.  *)
LEMMA AdvanceKeeps ==
  ASSUME WindowIInv, NEW at \in 1..sent, Advance(at)
  PROVE  /\ prev' \subseteq (prev \union (ctr + 1)..(at - 1))
         /\ \A i \in prev \union (ctr + 1)..(at - 1) :
              i + MaxOoo >= at => i \in prev'
<1> USE KeyWindowAssumption
<1> DEFINE keys == Retained(at) \union Skipped(at)
<1>1. /\ prev \subseteq Nat /\ ctr \in Nat /\ at \in Nat /\ at > ctr
      /\ MaxOoo \in Nat /\ \A i \in prev : i < ctr
  BY DEF WindowIInv, WindowTypeOK, KeptUnused, Index, Advance
<1>2. keys \subseteq prev \union (ctr + 1)..(at - 1)
  BY DEF Retained, Skipped
<1>3. \A i \in prev \union (ctr + 1)..(at - 1) : i + MaxOoo >= at => i \in keys
  BY <1>1 DEF Retained, Skipped
<1>4. prev' = Gc(keys, at - 1)
  BY DEF Advance
<1>5. prev' \subseteq keys
  BY <1>4 DEF Gc
<1>6. \A i \in keys : i + MaxOoo >= at => i \in prev'
  <2> HIDE DEF keys
  <2> SUFFICES ASSUME NEW i \in keys, i + MaxOoo >= at PROVE i \in prev'
    OBVIOUS
  <2>1. i \in Nat
    <3>1. i \in prev \/ i \in (ctr + 1)..(at - 1)
      BY <1>2
    <3>2. CASE i \in prev
      BY <1>1, <3>2
    <3>3. CASE i \in (ctr + 1)..(at - 1)
      BY <1>1, <3>3
    <3> QED BY <3>1, <3>2, <3>3
  <2>2. i + MaxOoo >= at - 1
    BY <1>1, <2>1
  <2> QED BY <1>4, <2>2 DEF Gc
<1> HIDE DEF keys
<1> QED BY <1>2, <1>3, <1>5, <1>6

(* The first state satisfies the invariant.                                *)
LEMMA WindowInitIInv == WindowInit => WindowIInv
BY KeyWindowAssumption
   DEF WindowInit, WindowIInv, WindowTypeOK, NoKeyTwice, KeptUnused, AheadUnused, ChainKeyUsed,
       WindowKept, Index

(* Every step keeps the invariant.                                         *)
LEMMA WindowNextIInv == WindowIInv /\ [WindowNext]_windowVars => WindowIInv'
<1> SUFFICES ASSUME WindowIInv, [WindowNext]_windowVars PROVE WindowIInv'
  OBVIOUS
<1> USE KeyWindowAssumption DEF WindowIInv, Index
<1>1. CASE NextKey
  BY <1>1 DEF NextKey, WindowTypeOK, NoKeyTwice, KeptUnused, AheadUnused,
              ChainKeyUsed, WindowKept, Trimmed
<1>2. ASSUME NEW at \in 1..sent, Advance(at) PROVE WindowIInv'
  <2> USE <1>2
  <2>1. /\ at \in Nat /\ at \in Index /\ at > ctr /\ ctr' = at /\ sent' = sent
        /\ given' = [given EXCEPT ![at] = @ + 1] /\ given[at] = 0
        /\ ctr \in Nat /\ sent \in Nat /\ sent <= MaxSent /\ at <= sent
    BY DEF Advance, HandOut, WindowTypeOK, AheadUnused
  <2>2. /\ prev' \subseteq (prev \union (ctr + 1)..(at - 1))
        /\ \A i \in prev \union (ctr + 1)..(at - 1) :
             i + MaxOoo >= at => i \in prev'
    BY AdvanceKeeps
  <2>3. WindowTypeOK'
    BY <2>1, <2>2 DEF WindowTypeOK
  <2>4. NoKeyTwice'
    BY <2>1 DEF NoKeyTwice, WindowTypeOK
  <2>5. KeptUnused'
    BY <2>1, <2>2 DEF KeptUnused, AheadUnused, WindowTypeOK
  <2>6. AheadUnused'
    BY <2>1 DEF AheadUnused, WindowTypeOK
  <2>7. ChainKeyUsed'
    BY <2>1 DEF ChainKeyUsed, WindowTypeOK
  <2>8. WindowKept'
    <3> SUFFICES ASSUME NEW i \in Index, i < at, given'[i] = 0, i + MaxOoo >= at
                 PROVE  i \in prev'
      BY <2>1 DEF WindowKept, Trimmed
    <3>1. given[i] = 0 /\ i # at
      BY <2>1 DEF WindowTypeOK
    <3>2. i # ctr
      BY <3>1 DEF ChainKeyUsed
    <3>3. i < ctr => i \in prev
      BY <2>1, <3>1 DEF WindowKept, Trimmed
    <3>4. i > ctr => i \in (ctr + 1)..(at - 1)
      BY <2>1
    <3> QED BY <2>1, <2>2, <3>2, <3>3, <3>4
  <2> QED BY <2>3, <2>4, <2>5, <2>6, <2>7, <2>8
<1>3. ASSUME NEW at \in 1..sent, TakeKept(at) PROVE WindowIInv'
  <2> USE <1>3
  <2>1. /\ at \in Index /\ at < ctr /\ at \in prev /\ prev' = prev \ {at}
        /\ ctr' = ctr /\ sent' = sent
        /\ given' = [given EXCEPT ![at] = @ + 1] /\ given[at] = 0
    BY DEF TakeKept, KeyRaises, HandOut, KeptUnused, WindowTypeOK
  <2>2. WindowTypeOK'
    BY <2>1 DEF WindowTypeOK
  <2>3. NoKeyTwice' /\ ChainKeyUsed'
    BY <2>1 DEF NoKeyTwice, ChainKeyUsed, WindowTypeOK
  <2>4. KeptUnused' /\ AheadUnused'
    BY <2>1 DEF KeptUnused, AheadUnused, WindowTypeOK
  <2>5. WindowKept'
    BY <2>1 DEF WindowKept, Trimmed, WindowTypeOK
  <2> QED BY <2>2, <2>3, <2>4, <2>5
<1>4. CASE UNCHANGED windowVars
  BY <1>4 DEF windowVars, WindowTypeOK, NoKeyTwice, KeptUnused, AheadUnused, ChainKeyUsed,
              WindowKept, Trimmed
<1> QED BY <1>1, <1>2, <1>3, <1>4 DEF WindowNext, Key

(* The invariant holds of every behaviour.                                 *)
LEMMA WindowInvariant == WindowSpec => []WindowIInv
BY WindowInitIInv, WindowNextIInv, PTL DEF WindowSpec

-----------------------------------------------------------------------------
(* Type correctness of the key window, for every window and jump.          *)
THEOREM WindowTypeCorrect == WindowSpec => []WindowTypeOK
<1>1. WindowIInv => WindowTypeOK
  BY DEF WindowIInv
<1> QED BY WindowInvariant, <1>1, PTL

(* No message key is handed out twice, however messages are duplicated,    *)
(* lost and reordered: a replay never decrypts again.                      *)
THEOREM KeysAreUsedOnce == WindowSpec => []NoKeyTwice
<1>1. WindowIInv => NoKeyTwice
  BY DEF WindowIInv
<1> QED BY WindowInvariant, <1>1, PTL

(* The only messages refused are replays and those outside the window: the *)
(* clearing and trimming of the store never costs a message inside it.     *)
THEOREM OnlyJustifiedRefusals == WindowSpec => []RefusalsJustified
<1>1. WindowIInv => RefusalsJustified
  <2> SUFFICES ASSUME WindowIInv, NEW at \in 1..sent, KeyRaises(at),
                      ~Trimmed(at), ~JumpTooFar(at)
               PROVE  given[at] = 1
    BY DEF RefusalsJustified
  <2>1. at \in Index /\ at \in Nat /\ ctr \in Nat /\ given[at] \in Nat
    BY KeyWindowAssumption DEF WindowIInv, WindowTypeOK, Index
  <2>2. CASE at = ctr
    BY <2>1, <2>2 DEF WindowIInv, ChainKeyUsed
  <2>3. CASE at < ctr /\ at \notin prev
    BY <2>1, <2>3 DEF WindowIInv, WindowKept, NoKeyTwice
  <2> QED BY <2>2, <2>3 DEF KeyRaises
<1> QED BY WindowInvariant, <1>1, PTL

-----------------------------------------------------------------------------
(* The list is trimmed only when it has outgrown the window.               *)
LEMMA TrimSizeExceedsWindow == TrimSize \in Nat /\ MaxOoo + 1 <= TrimSize
<1>1. MaxOoo \in Nat
  BY KeyWindowAssumption
<1>2. (MaxOoo * 11) \div 10 \in Nat /\ MaxOoo <= (MaxOoo * 11) \div 10
  BY <1>1
<1> QED BY <1>1, <1>2 DEF TrimSize

(* gc leaves either a store below its limit or the keys of an interval of  *)
(* MaxOoo + 1 numbers.                                                     *)
LEMMA GcBounds ==
  ASSUME NEW at \in Nat, at > 0, NEW keys, keys \subseteq 0..(at - 1)
  PROVE  Cardinality(Gc(keys, at - 1)) <= TrimSize
<1>0. MaxOoo \in Nat /\ TrimSize \in Nat /\ MaxOoo + 1 <= TrimSize
  BY KeyWindowAssumption, TrimSizeExceedsWindow
<1>1. IsFiniteSet(keys) /\ Cardinality(keys) \in Nat
  <2>1. at - 1 \in Int /\ 0 \in Int
    OBVIOUS
  <2>2. IsFiniteSet(0..(at - 1))
    BY <2>1, FS_Interval
  <2>3. IsFiniteSet(keys)
    BY <2>2, FS_Subset
  <2> QED BY <2>3, FS_CardinalityType
<1>2. CASE Cardinality(keys) < TrimSize
  BY <1>0, <1>1, <1>2 DEF Gc
<1>3. CASE Cardinality(keys) >= TrimSize
  <2> DEFINE window == (at - 1 - MaxOoo)..(at - 1)
             kept == {i \in keys : i + MaxOoo >= at - 1}
  <2>1. kept \subseteq window
    <3> SUFFICES ASSUME NEW i \in keys, i + MaxOoo >= at - 1
                 PROVE  i \in window
      OBVIOUS
    <3>1. i \in 0..(at - 1)
      OBVIOUS
    <3> QED BY <1>0, <3>1
  <2>2. IsFiniteSet(window) /\ Cardinality(window) = MaxOoo + 1
    <3>1. at - 1 - MaxOoo \in Int /\ at - 1 \in Int
      BY <1>0
    <3>2. IsFiniteSet(window) /\ Cardinality(window) =
            IF at - 1 - MaxOoo > at - 1 THEN 0
            ELSE (at - 1) - (at - 1 - MaxOoo) + 1
      BY <3>1, FS_Interval
    <3> QED BY <1>0, <3>2
  <2>3. Cardinality(kept) <= MaxOoo + 1 /\ Cardinality(kept) \in Nat
    <3> HIDE DEF window, kept
    <3> QED BY <2>1, <2>2, FS_Subset, FS_CardinalityType
  <2>4. Gc(keys, at - 1) = kept
    BY <1>3 DEF Gc
  <2> HIDE DEF kept
  <2> QED BY <1>0, <2>3, <2>4
<1> QED BY <1>0, <1>1, <1>2, <1>3

(* However many messages are overtaken, the store never holds more keys    *)
(* than the limit at which gc starts.                                      *)
THEOREM StoreIsBounded == WindowSpec => []StoreBounded
<1>1. WindowInit => StoreBounded
  BY TrimSizeExceedsWindow, FS_EmptySet DEF WindowInit, StoreBounded
<1>2. WindowIInv /\ StoreBounded /\ [WindowNext]_windowVars => StoreBounded'
  <2> SUFFICES ASSUME WindowIInv, StoreBounded, [WindowNext]_windowVars PROVE StoreBounded'
    OBVIOUS
  <2>1. ASSUME NEW at \in 1..sent, Advance(at) PROVE StoreBounded'
    <3> DEFINE keys == Retained(at) \union Skipped(at)
    <3>1. at \in Nat /\ at > 0 /\ ctr \in Nat /\ at > ctr
      BY <2>1, KeyWindowAssumption DEF WindowIInv, WindowTypeOK, Advance
    <3>2. keys \subseteq 0..(at - 1)
      <4>1. \A i \in prev : i \in Nat /\ i < ctr
        BY KeyWindowAssumption DEF WindowIInv, WindowTypeOK, KeptUnused, Index
      <4>2. Retained(at) \subseteq 0..(at - 1)
        BY <3>1, <4>1 DEF Retained
      <4>3. Skipped(at) \subseteq 0..(at - 1)
        BY <3>1 DEF Skipped
      <4> QED BY <4>2, <4>3
    <3>3. prev' = Gc(keys, at - 1)
      BY <2>1 DEF Advance
    <3> HIDE DEF keys
    <3> QED BY <3>1, <3>2, <3>3, GcBounds DEF StoreBounded
  <2>2. ASSUME NEW at \in 1..sent, TakeKept(at) PROVE StoreBounded'
    <3>1. prev \subseteq Index /\ IsFiniteSet(Index)
      BY KeyWindowAssumption, FS_Interval DEF WindowIInv, WindowTypeOK, Index
    <3>2. IsFiniteSet(prev)
      BY <3>1, FS_Subset
    <3>3. prev' \in SUBSET prev
      BY <2>2 DEF TakeKept
    <3>4. /\ Cardinality(prev') <= Cardinality(prev)
          /\ Cardinality(prev') \in Nat /\ Cardinality(prev) \in Nat
      BY <3>2, <3>3, FS_Subset, FS_CardinalityType
    <3> QED BY <3>4, TrimSizeExceedsWindow DEF StoreBounded
  <2>3. CASE NextKey \/ UNCHANGED windowVars
    BY <2>3 DEF NextKey, windowVars, StoreBounded
  <2> QED BY <2>1, <2>2, <2>3 DEF WindowNext, Key
<1> QED BY WindowInvariant, <1>1, <1>2, PTL DEF WindowSpec
==============================================================================
