------------------------- MODULE DoubleRatchet_proofs ------------------------
(***************************************************************************)
(* No message key is used twice, no message is read twice, no key that was *)
(* used is kept, and a message of the session in use can be read: proved   *)
(* for any number of messages, any skip limit, and any losses, repeats and *)
(* dropped sessions.                                                       *)
(*                                                                         *)
(* Sending: the last result mixed into a sending chain holds a key pair    *)
(* its owner generated for that chain alone, so two chains never meet; and *)
(* on one chain the counter only grows.  Receiving: the second part.  What *)
(* a decryption does, the counters, and what can be read: the last three.  *)
(***************************************************************************)
EXTENDS DoubleRatchet, FiniteSetTheorems, SequenceTheorems, TLAPS

KeyPair == Party \X Nat

Chain == Seq(SUBSET KeyPair)

Mixed(c) == c[Len(c)]

(* A chain somebody sends on: all its latest key pairs were generated.     *)
Grown(c) ==
  /\ c \in Chain /\ c # << >>
  /\ \A k \in Mixed(c) : k \in KeyPair /\ k[2] <= fresh[k[1]]

(* A stored session, and that its sending chain is its owner's own.        *)
IsSession(s) ==
  s = [rk |-> s.rk, dhs |-> s.dhs, dhr |-> s.dhr, cks |-> s.cks, ckr |-> s.ckr,
       ns |-> s.ns, nr |-> s.nr, pn |-> s.pn, skipped |-> s.skipped]

Sends(p, s) ==
  /\ IsSession(s) /\ s.rk \in Chain /\ s.ns \in Nat
  /\ Grown(s.cks) /\ s.dhs \in Mixed(s.cks) /\ s.dhs[1] = p /\ s.dhs \in KeyPair
  /\ s.dhs[2] <= fresh[p]
  /\ \A m \in sent : m.key[1] = s.cks => m.key[2] < s.ns

IsMessage(m) ==
  /\ m.dh \in KeyPair /\ m.dh[2] <= fresh[m.dh[1]]
  /\ m.kind \in {"prekey", "whisper"}
  /\ m.kind = "prekey" => m.base \in KeyPair
  /\ m.key = <<m.key[1], m.key[2]>> /\ Grown(m.key[1]) /\ m.key[2] \in Nat

FreshInv ==
  /\ fresh \in [Party -> Nat]
  /\ DOMAIN session = Party /\ DOMAIN net = Party
  /\ \A m \in sent : IsMessage(m)
  /\ \A p \in Party : net[p] \subseteq sent
  /\ \A p \in Party : session[p] # NoSession => Sends(p, session[p])
  /\ \A p, q \in Party :
       p # q /\ session[p] # NoSession /\ session[q] # NoSession =>
         session[p].cks # session[q].cks
  /\ KeysAreFresh

(* Initially nobody has a session or has sent anything.                    *)
LEMMA FreshInit == Init => FreshInv
  BY DEF Init, FreshInv, KeysAreFresh

(* The peer is the other one.                                              *)
LEMMA PeerIsParty == ASSUME NEW p \in Party PROVE Peer(p) \in Party /\ Peer(p) # p
<1>1. \E q \in Party : q # p
  BY RatchetAssumption DEF Party
<1> QED
  BY <1>1 DEF Peer

(* More key pairs leave old chains as they were.                           *)
LEMMA GrownStays ==
  ASSUME NEW c, Grown(c), fresh \in [Party -> Nat], fresh' \in [Party -> Nat],
         \A p \in Party : fresh'[p] >= fresh[p]
  PROVE  Grown(c)'
<1>1. ASSUME NEW k \in Mixed(c) PROVE k \in KeyPair /\ k[2] <= fresh'[k[1]]
  <2>1. k \in KeyPair /\ k[2] <= fresh[k[1]]
    BY DEF Grown
  <2>2. k[1] \in Party /\ k[2] \in Nat
    BY <2>1 DEF KeyPair
  <2> QED
    BY <2>1, <2>2
<1> QED
  BY <1>1 DEF Grown, Mixed

(* A chain with a new key pair is no old chain.                            *)
LEMMA NewChain ==
  ASSUME NEW c, NEW old, NEW p \in Party, NEW k \in KeyPair, k[1] = p, k[2] > fresh[p],
         fresh \in [Party -> Nat], k \in Mixed(c), Grown(old)
  PROVE  c # old
  BY DEF Grown, Mixed, KeyPair

(* Mixing one more result in.                                              *)
LEMMA AppendMixes ==
  ASSUME NEW c \in Chain, NEW k \in SUBSET KeyPair
  PROVE  Append(c, k) \in Chain /\ Append(c, k) # << >> /\ Mixed(Append(c, k)) = k
<1> DEFINE d == Append(c, k)
<1>1. Len(c) \in Nat /\ d \in Chain /\ Len(d) = Len(c) + 1 /\ d[Len(c) + 1] = k
  BY DEF Chain
<1> HIDE DEF d
<1>2. Mixed(d) = k
  BY <1>1 DEF Mixed
<1>3. d # << >>
  <2>1. Len(d) # 0
    BY <1>1
  <2>2. Len(<< >>) = 0
    OBVIOUS
  <2> QED
    BY <2>1, <2>2
<1> QED
  BY <1>1, <1>2, <1>3 DEF d

(* A session at the start of the sending chain that new and dh begin.      *)
StartsAt(t, new, dh) ==
  /\ IsSession(t) /\ t.rk \in Chain /\ t.dhs = new /\ t.ns = 0
  /\ t.cks \in Chain /\ t.cks # << >> /\ Mixed(t.cks) = {new, dh}

(* A session whose sending side is that of s.                              *)
SendsLike(t, s) ==
  IsSession(t) /\ t.rk = s.rk /\ t.cks = s.cks /\ t.dhs = s.dhs /\ t.ns = s.ns

(* The shape of a session survives every update of a field.                *)
LEMMA SkipKeeps ==
  ASSUME NEW s, IsSession(s), NEW until
  PROVE  SendsLike(SkipTo(s, until), s)
  BY DEF SkipTo, IsSession, SendsLike

(* A ratchet step starts a sending chain on the new pair.                  *)
LEMMA RatchetStarts ==
  ASSUME NEW s, IsSession(s), s.rk \in Chain, s.dhs \in KeyPair,
         NEW dh \in KeyPair, NEW new \in KeyPair
  PROVE  StartsAt(Ratchet(s, dh, new), new, dh)
<1> DEFINE receiving == Append(s.rk, {s.dhs, dh})
           root == Append(receiving, {new, dh})
           t == Ratchet(s, dh, new)
<1>1. {s.dhs, dh} \in SUBSET KeyPair /\ {new, dh} \in SUBSET KeyPair
  OBVIOUS
<1>2. receiving \in Chain
  BY <1>1, AppendMixes
<1>3. root \in Chain /\ root # << >> /\ Mixed(root) = {new, dh}
  BY <1>1, <1>2, AppendMixes
<1>5. t = [rk |-> root, dhs |-> new, dhr |-> dh, cks |-> root, ckr |-> receiving,
           ns |-> 0, nr |-> 0, pn |-> s.ns, skipped |-> s.skipped]
  BY DEF Ratchet
<1> HIDE DEF receiving, root, t
<1>6. IsSession(t) /\ t.rk = root /\ t.cks = root /\ t.dhs = new /\ t.ns = 0
  BY <1>5 DEF IsSession
<1> QED
  BY <1>3, <1>6 DEF t, StartsAt

(* What a decryption makes of a session: the sending chain is kept, or it  *)
(* is one of a new pair.                                                   *)
LEMMA DecryptedSends ==
  ASSUME NEW s, IsSession(s), s.rk \in Chain, s.dhs \in KeyPair,
         NEW m, m.dh \in KeyPair, NEW new \in KeyPair
  PROVE  IF Turns(s, m) THEN StartsAt(Decrypted(s, m, new), new, m.dh)
                        ELSE SendsLike(Decrypted(s, m, new), s)
<1> DEFINE u == Turned(s, m, new)
           a == Advanced(s, m, new)
           t == Decrypted(s, m, new)
<1>1. IF Turns(s, m) THEN StartsAt(u, new, m.dh) ELSE SendsLike(u, s)
  <2> DEFINE v == SkipTo(s, m.pn)
  <2>1. IsSession(v) /\ v.rk \in Chain /\ v.dhs \in KeyPair
    BY SkipKeeps DEF SendsLike
  <2>2. u = IF Turns(s, m) THEN Ratchet(v, m.dh, new) ELSE s
    BY DEF Turned
  <2> HIDE DEF v, u
  <2>3. StartsAt(Ratchet(v, m.dh, new), new, m.dh)
    BY <2>1, RatchetStarts
  <2>4. SendsLike(s, s)
    BY DEF SendsLike
  <2> QED
    BY <2>2, <2>3, <2>4
<1>2. SendsLike(a, u)
  <2>1. a = SkipTo(u, m.n)
    BY DEF Advanced
  <2>2. IsSession(u)
    BY <1>1 DEF StartsAt, SendsLike
  <2> HIDE DEF a, u
  <2> QED
    BY <2>1, <2>2, SkipKeeps
<1>3. KeptAt(s, m) # {} => SendsLike(t, s) /\ ~Turns(s, m)
  <2> SUFFICES ASSUME KeptAt(s, m) # {} PROVE SendsLike(t, s) /\ ~Turns(s, m)
    OBVIOUS
  <2> DEFINE kept == RemoveAt(s.skipped, CHOOSE j \in KeptAt(s, m) : TRUE)
  <2>1. t = [s EXCEPT !.skipped = kept]
    BY DEF Decrypted
  <2> HIDE DEF t, kept
  <2>2. SendsLike(t, s)
    BY <2>1 DEF IsSession, SendsLike
  <2> QED
    BY <2>2 DEF Turns
<1>4. KeptAt(s, m) = {} => SendsLike(t, u)
  <2> SUFFICES ASSUME KeptAt(s, m) = {} PROVE SendsLike(t, u)
    OBVIOUS
  <2>1. t = [a EXCEPT !.nr = a.nr + 1]
    BY DEF Decrypted
  <2> HIDE DEF t, a, u
  <2> QED
    BY <1>2, <2>1 DEF IsSession, SendsLike
<1> HIDE DEF t, u
<1>5. KeptAt(s, m) = {} /\ Turns(s, m) => StartsAt(t, new, m.dh)
  BY <1>1, <1>4 DEF StartsAt, SendsLike
<1>6. KeptAt(s, m) = {} /\ ~Turns(s, m) => SendsLike(t, s)
  BY <1>1, <1>4 DEF SendsLike
<1> QED
  BY <1>3, <1>5, <1>6 DEF t

(* The fields of a message that a property looks at.                       *)
LEMMA MessageFields ==
  ASSUME NEW p, NEW s, NEW n, NEW kind, NEW base, NEW m,
         m = Encrypted(s, p, n, kind, base)
  PROVE  /\ m.dh = s.dhs /\ m.key = <<s.cks, s.ns>>
         /\ m.kind = kind /\ m.base = base
  BY DEF Encrypted

(* A step of p leaves everything else as it was: it may generate key pairs *)
(* and send a message on a chain that is nobody else's.                    *)
LEMMA OthersKeep ==
  ASSUME FreshInv, NEW p \in Party, NEW t,
         NEW news, sent' = sent \union news, \A m, n \in news : m = n,
         \A m \in news :
           /\ IsMessage(m)'
           /\ \A n \in sent : n.key # m.key
           /\ \A q \in Party : q # p /\ session[q] # NoSession => session[q].cks # m.key[1],
         session' = [session EXCEPT ![p] = t],
         fresh' \in [Party -> Nat], \A q \in Party : fresh'[q] >= fresh[q],
         DOMAIN net' = Party, \A q \in Party : net'[q] \subseteq net[q] \union news,
         t # NoSession => /\ Sends(p, t)'
                          /\ \A q \in Party : q # p /\ session[q] # NoSession =>
                                                session[q].cks # t.cks
  PROVE  FreshInv'
<1>0. fresh \in [Party -> Nat]
  BY DEF FreshInv
<1>1. DOMAIN session' = Party /\ session'[p] = t
      /\ \A q \in Party : q # p => session'[q] = session[q]
  BY DEF FreshInv
<1>2. \A m \in sent' : IsMessage(m)'
  <2>1. ASSUME NEW m \in sent PROVE IsMessage(m)'
    <3>1. IsMessage(m) /\ fresh \in [Party -> Nat]
      BY DEF FreshInv
    <3>2. Grown(m.key[1])'
      BY <3>1, GrownStays DEF IsMessage
    <3>3. m.dh[2] <= fresh'[m.dh[1]]
      <4>1. m.dh[1] \in Party /\ m.dh[2] \in Nat /\ m.dh[2] <= fresh[m.dh[1]]
        BY <3>1 DEF IsMessage, KeyPair
      <4> QED
        BY <3>1, <4>1
    <3> QED
      BY <3>1, <3>2, <3>3 DEF IsMessage
  <2> QED
    BY <2>1
<1>3. ASSUME NEW q \in Party, session'[q] # NoSession PROVE Sends(q, session[q])'
  <2>1. CASE q = p
    BY <1>1, <1>3, <2>1
  <2>2. CASE q # p
    <3>1. Sends(q, session[q]) /\ fresh \in [Party -> Nat]
      BY <1>1, <1>3, <2>2 DEF FreshInv
    <3>2. Grown(session[q].cks)'
      <4> DEFINE c == session[q].cks
      <4>1. PICK old : old = c
        OBVIOUS
      <4>2. Grown(old)'
        BY <3>1, <4>1, GrownStays DEF Sends
      <4> QED
        BY <1>1, <2>2, <4>1, <4>2
    <3>4. \A m \in sent' : m.key[1] = session[q].cks => m.key[2] < session[q].ns
      BY <1>1, <1>3, <2>2, <3>1 DEF Sends
    <3>3. session[q].dhs[2] <= fresh'[q]
      <4>1. session[q].dhs[2] \in Nat /\ session[q].dhs[2] <= fresh[q]
        BY <3>1 DEF Sends, KeyPair
      <4> QED
        BY <3>1, <4>1
    <3> QED
      BY <1>1, <2>2, <3>1, <3>2, <3>3, <3>4 DEF Sends, Mixed
  <2> QED
    BY <2>1, <2>2
<1>4. ASSUME NEW q \in Party, NEW r \in Party, q # r, session'[q] # NoSession,
             session'[r] # NoSession
      PROVE  session'[q].cks # session'[r].cks
  BY <1>1, <1>4 DEF FreshInv
<1>5. \A q \in Party : net'[q] \subseteq sent'
  BY DEF FreshInv
<1>6. KeysAreFresh'
  BY DEF FreshInv, KeysAreFresh
<1> QED
  BY <1>1, <1>2, <1>3, <1>4, <1>5, <1>6 DEF FreshInv

(* A message sent on chain and counter of s.                               *)
LEMMA TransmitKeeps ==
  ASSUME FreshInv, NEW p \in Party, NEW s, NEW kind \in {"prekey", "whisper"}, NEW base,
         kind = "prekey" => base \in KeyPair,
         Transmit(p, s, kind, base),
         fresh' \in [Party -> Nat], \A q \in Party : fresh'[q] >= fresh[q],
         IsSession(s), s.rk \in Chain, s.ns \in Nat, Grown(s.cks)', s.dhs \in Mixed(s.cks),
         s.dhs \in KeyPair, s.dhs[1] = p, s.dhs[2] <= fresh'[p],
         \A m \in sent : m.key[1] = s.cks => m.key[2] < s.ns,
         \A q \in Party : q # p /\ session[q] # NoSession => session[q].cks # s.cks
  PROVE  FreshInv'
<1>1. PICK m : /\ m = Encrypted(s, p, Cardinality(SentBy(p)), kind, base)
               /\ session' = [session EXCEPT ![p] = [s EXCEPT !.ns = s.ns + 1]]
               /\ sent' = sent \union {m}
               /\ net' = [net EXCEPT ![Peer(p)] = net[Peer(p)] \union {m}]
  BY DEF Transmit
<1>2. m.dh = s.dhs /\ m.key = <<s.cks, s.ns>> /\ m.kind = kind /\ m.base = base
  BY <1>1, MessageFields
<1>3. PICK t : t = [s EXCEPT !.ns = s.ns + 1]
  OBVIOUS
<1>4. /\ IsSession(t) /\ t.rk = s.rk /\ t.cks = s.cks /\ t.dhs = s.dhs /\ t.ns = s.ns + 1
  BY <1>3 DEF IsSession
<1>5. IsMessage(m)'
  BY <1>2 DEF IsMessage
<1>6. ASSUME NEW n \in sent PROVE n.key # m.key
  <2>1. n.key = <<n.key[1], n.key[2]>>
    BY DEF FreshInv, IsMessage
  <2>2. n.key[1] = s.cks => n.key[2] < s.ns
    OBVIOUS
  <2> QED
    BY <1>2, <2>1, <2>2
<1>7. Sends(p, t)'
  <2>1. \A n \in sent' : n.key[1] = t.cks => n.key[2] < t.ns
    <3>1. \A n \in sent : n.key[1] = s.cks => n.key[2] \in Nat /\ n.key[2] < s.ns
      BY DEF FreshInv, IsMessage
    <3>2. m.key[1] = s.cks /\ m.key[2] = s.ns
      BY <1>2
    <3> QED
      BY <1>1, <1>4, <3>1, <3>2
  <2>2. PICK c : c = s.cks
    OBVIOUS
  <2>3. Grown(t.cks)'
    BY <1>4
  <2> QED
    BY <1>4, <2>1, <2>3 DEF Sends, Mixed
<1>8. DOMAIN net' = Party /\ \A q \in Party : net'[q] \subseteq net[q] \union {m}
  BY <1>1, PeerIsParty DEF FreshInv
<1>9. \A q \in Party : q # p /\ session[q] # NoSession =>
        session[q].cks # t.cks /\ session[q].cks # m.key[1]
  BY <1>2, <1>4
<1>10. PICK news : news = {m}
  OBVIOUS
<1>11. sent' = sent \union news /\ \A a, b \in news : a = b
  BY <1>1, <1>10
<1>12. \A a \in news :
         /\ IsMessage(a)'
         /\ \A n \in sent : n.key # a.key
         /\ \A q \in Party : q # p /\ session[q] # NoSession => session[q].cks # a.key[1]
  BY <1>5, <1>6, <1>9, <1>10
<1>13. session' = [session EXCEPT ![p] = t]
  BY <1>1, <1>3
<1>14. \A q \in Party : net'[q] \subseteq net[q] \union news
  BY <1>8, <1>10
<1>15. t # NoSession => /\ Sends(p, t)'
                       /\ \A q \in Party : q # p /\ session[q] # NoSession =>
                                             session[q].cks # t.cks
  BY <1>7, <1>9
<1> QED
  BY <1>8, <1>11, <1>12, <1>13, <1>14, <1>15, OthersKeep

(* A first message: two new key pairs, the second on the chain.            *)
LEMMA SendPrekeyKeeps ==
  ASSUME FreshInv, NEW p \in Party, SendPrekey(p)
  PROVE  FreshInv'
<1> DEFINE s == Initiator(p)
           one == NewKey(p, 1)
           two == NewKey(p, 2)
           theirs == Prekey(Peer(p))
           key == <<{one, theirs}, {two, theirs}>>
<1>1. fresh \in [Party -> Nat] /\ fresh' = [fresh EXCEPT ![p] = fresh[p] + 2]
  BY DEF SendPrekey, FreshInv
<1>2. /\ fresh' \in [Party -> Nat] /\ \A q \in Party : fresh'[q] >= fresh[q]
      /\ fresh'[p] = fresh[p] + 2
  BY <1>1
<1>3. /\ one \in KeyPair /\ two \in KeyPair /\ theirs \in KeyPair
      /\ two[1] = p /\ two[2] = fresh[p] + 2
      /\ theirs[1] = Peer(p) /\ theirs[2] = 0
  BY <1>1, PeerIsParty DEF NewKey, Prekey, KeyPair
<1>4. s = [rk |-> key, dhs |-> two, dhr |-> theirs, cks |-> key, ckr |-> None,
           ns |-> 0, nr |-> 0, pn |-> 0, skipped |-> << >>]
  BY DEF Initiator
<1> HIDE DEF one, two, theirs
<1>5. {one, theirs} \in SUBSET KeyPair /\ {two, theirs} \in SUBSET KeyPair
  BY <1>3
<1>6. key \in Chain /\ key # << >> /\ Mixed(key) = {two, theirs}
  BY <1>5 DEF Chain, Mixed
<1> HIDE DEF key, s
<1>7. /\ IsSession(s) /\ s.rk = key /\ s.cks = key /\ s.dhs = two /\ s.ns = 0
  BY <1>4 DEF IsSession
<1>8. PICK c : c = key
  OBVIOUS
<1>9. Grown(c)'
  BY <1>2, <1>3, <1>6, <1>8, PeerIsParty DEF Grown, Mixed
<1>10. ASSUME NEW old, Grown(old) PROVE old # key
  BY <1>1, <1>3, <1>6, <1>10, NewChain
<1>11. \A m \in sent : m.key[1] # key
  BY <1>10 DEF FreshInv, IsMessage
<1>12. \A q \in Party : session[q] # NoSession => session[q].cks # key
  BY <1>10 DEF FreshInv, Sends
<1>13. Transmit(p, s, "prekey", one)
  BY DEF SendPrekey, s, one
<1>14. PICK t : t = s
  OBVIOUS
<1> QED
  BY <1>2, <1>3, <1>6, <1>7, <1>8, <1>9, <1>11, <1>12, <1>13, <1>14, TransmitKeeps

(* A later message, on the stored session.                                 *)
LEMMA SendWhisperKeeps ==
  ASSUME FreshInv, NEW p \in Party, SendWhisper(p)
  PROVE  FreshInv'
<1>1. PICK s : s = session[p]
  OBVIOUS
<1>2. Sends(p, s) /\ Transmit(p, s, "whisper", None) /\ UNCHANGED fresh
  BY <1>1 DEF SendWhisper, FreshInv
<1>3. fresh \in [Party -> Nat] /\ \A q \in Party : fresh'[q] >= fresh[q]
  BY <1>2 DEF FreshInv
<1>4. Grown(s.cks)'
  <2>1. Grown(s.cks)
    BY <1>2 DEF Sends
  <2> QED
    BY <1>2, <2>1 DEF Grown, Mixed
<1>5. \A q \in Party : q # p /\ session[q] # NoSession => session[q].cks # s.cks
  BY <1>1 DEF FreshInv, SendWhisper
<1> QED
  BY <1>2, <1>3, <1>4, <1>5, TransmitKeeps DEF Sends

(* A step that sends nothing and stores t, which may turn to a new chain.  *)
LEMMA StoreKeeps ==
  ASSUME FreshInv, NEW p \in Party, NEW t, UNCHANGED sent,
         session' = [session EXCEPT ![p] = t],
         fresh' \in [Party -> Nat], \A q \in Party : fresh'[q] >= fresh[q],
         DOMAIN net' = Party, \A q \in Party : net'[q] \subseteq net[q],
         t # NoSession => /\ Sends(p, t)'
                          /\ \A q \in Party : q # p /\ session[q] # NoSession =>
                                                session[q].cks # t.cks
  PROVE  FreshInv'
<1>1. PICK news : news = {}
  OBVIOUS
<1>2. sent' = sent \union news /\ \A a, b \in news : a = b
  BY <1>1
<1>3. \A a \in news :
        /\ IsMessage(a)'
        /\ \A n \in sent : n.key # a.key
        /\ \A q \in Party : q # p /\ session[q] # NoSession => session[q].cks # a.key[1]
  BY <1>1
<1>4. \A q \in Party : net'[q] \subseteq net[q] \union news
  BY <1>1
<1> QED
  BY <1>2, <1>3, <1>4, OthersKeep

(* A first message turns the session it starts.                            *)
LEMMA ResponderTurns ==
  ASSUME NEW p \in Party, NEW m, m.base \in KeyPair, m.dh \in KeyPair
  PROVE  LET s == Responder(p, m.base)
         IN IsSession(s) /\ s.rk \in Chain /\ s.dhs \in KeyPair /\ Turns(s, m)
<1> DEFINE root == <<{m.base, Prekey(p)}>>
<1>1. PICK s : s = Responder(p, m.base)
  OBVIOUS
<1>2. s = [rk |-> root, dhs |-> Prekey(p), dhr |-> None, cks |-> root,
           ckr |-> None, ns |-> 0, nr |-> 0, pn |-> 0, skipped |-> << >>]
  BY <1>1 DEF Responder
<1>3. Prekey(p) \in KeyPair
  BY DEF Prekey, KeyPair
<1>4. {m.base, Prekey(p)} \in SUBSET KeyPair
  BY <1>3
<1>5. root \in Chain
  BY <1>4 DEF Chain
<1> HIDE DEF root
<1>6. IsSession(s) /\ s.rk = root /\ s.dhs = Prekey(p) /\ s.dhr = None /\ s.skipped = << >>
  BY <1>2 DEF IsSession
<1>7. KeptAt(s, m) = {}
  BY <1>6 DEF KeptAt
<1>8. s.dhr # m.dh
  <2>1. m.dh # << >>
    <3>1. PICK a \in Party, b \in Nat : m.dh = <<a, b>>
      BY DEF KeyPair
    <3>2. Len(<<a, b>>) = 2 /\ Len(<< >>) = 0
      OBVIOUS
    <3> QED
      BY <3>1, <3>2
  <2> QED
    BY <1>6, <2>1 DEF None
<1> QED
  BY <1>1, <1>3, <1>5, <1>6, <1>7, <1>8 DEF Turns

(* A message decrypted.                                                    *)
LEMMA OpenKeeps ==
  ASSUME FreshInv, NEW p \in Party, NEW m \in net[p], Open(p, m)
  PROVE  FreshInv'
<1>1. IsMessage(m) /\ fresh \in [Party -> Nat]
  BY DEF FreshInv
<1>2. PICK s : s = SessionFor(p, m)
  OBVIOUS
<1>3. PICK new : new = NewKey(p, 1)
  OBVIOUS
<1>4. new \in KeyPair /\ new[1] = p /\ new[2] = fresh[p] + 1
  BY <1>1, <1>3 DEF NewKey, KeyPair
<1>5. PICK t : t = Decrypted(s, m, new)
  OBVIOUS
<1>6. /\ session' = [session EXCEPT ![p] = t]
      /\ fresh' = [fresh EXCEPT ![p] = IF Turns(s, m) THEN fresh[p] + 1 ELSE fresh[p]]
      /\ UNCHANGED sent
  BY <1>2, <1>3, <1>5 DEF Open
<1>7. DOMAIN net' = Party /\ \A q \in Party : net'[q] \subseteq net[q]
  BY DEF Open, Acked, FreshInv
<1>8. m.kind = "prekey" =>
        IsSession(s) /\ s.rk \in Chain /\ s.dhs \in KeyPair /\ Turns(s, m)
  BY <1>1, <1>2, ResponderTurns DEF IsMessage, SessionFor
<1>9. m.kind = "whisper" => session[p] # NoSession /\ s = session[p] /\ Sends(p, s)
  <2> SUFFICES ASSUME m.kind = "whisper"
               PROVE  session[p] # NoSession /\ s = session[p] /\ Sends(p, s)
    OBVIOUS
  <2>1. s = session[p]
    BY <1>2 DEF SessionFor
  <2>2. session[p] # NoSession
    BY DEF Open, Readable
  <2> QED
    BY <2>1, <2>2 DEF FreshInv
<1>10. IsSession(s) /\ s.rk \in Chain /\ s.dhs \in KeyPair
  BY <1>1, <1>8, <1>9 DEF IsMessage, Sends
<1>11. IF Turns(s, m) THEN StartsAt(t, new, m.dh) ELSE SendsLike(t, s)
  BY <1>1, <1>4, <1>5, <1>10, DecryptedSends DEF IsMessage
<1>12. fresh' \in [Party -> Nat] /\ \A q \in Party : fresh'[q] >= fresh[q]
  BY <1>1, <1>6
<1>13. CASE Turns(s, m)
  <2>1. fresh'[p] = fresh[p] + 1
    BY <1>1, <1>6, <1>13
  <2>2. PICK c : c = t.cks
    OBVIOUS
  <2>3. /\ IsSession(t) /\ t.rk \in Chain /\ t.dhs = new /\ t.ns = 0
        /\ c \in Chain /\ c # << >> /\ Mixed(c) = {new, m.dh}
    BY <1>11, <1>13, <2>2 DEF StartsAt
  <2>4. m.dh \in KeyPair /\ m.dh[1] \in Party /\ m.dh[2] \in Nat /\ m.dh[2] <= fresh[m.dh[1]]
    BY <1>1 DEF IsMessage, KeyPair
  <2>5. m.dh[2] <= fresh'[m.dh[1]]
    BY <1>1, <1>12, <2>4
  <2>6. Grown(c)'
    <3>1. \A k \in {new, m.dh} : k \in KeyPair /\ k[2] <= fresh'[k[1]]
      BY <1>1, <1>4, <2>1, <2>4, <2>5
    <3> QED
      BY <2>3, <3>1 DEF Grown, Mixed
  <2>7. ASSUME NEW old, Grown(old) PROVE old # c
    <3>1. new \in Mixed(c) /\ new[2] > fresh[p]
      BY <1>1, <1>4, <2>3
    <3> QED
      BY <1>1, <1>4, <2>7, <3>1, NewChain
  <2>8. \A n \in sent : n.key[1] # c
    BY <2>7 DEF FreshInv, IsMessage
  <2>9. \A q \in Party : q # p /\ session[q] # NoSession => session[q].cks # t.cks
    BY <2>2, <2>7 DEF FreshInv, Sends
  <2>10. Sends(p, t)'
    BY <1>1, <1>4, <1>6, <2>1, <2>2, <2>3, <2>6, <2>8 DEF Sends, Mixed
  <2> QED
    BY <1>6, <1>7, <1>12, <2>9, <2>10, StoreKeeps
<1>14. CASE ~Turns(s, m)
  <2>1. session[p] # NoSession /\ s = session[p] /\ Sends(p, s)
    BY <1>1, <1>8, <1>9, <1>14 DEF IsMessage
  <2>2. fresh' = fresh
    BY <1>1, <1>6, <1>14
  <2>3. IsSession(t) /\ t.rk = s.rk /\ t.cks = s.cks /\ t.dhs = s.dhs /\ t.ns = s.ns
    BY <1>11, <1>14 DEF SendsLike
  <2>4. Sends(p, t)'
    BY <1>6, <2>1, <2>2, <2>3 DEF Sends, Grown, Mixed
  <2>5. \A q \in Party : q # p /\ session[q] # NoSession => session[q].cks # t.cks
    BY <2>1, <2>3 DEF FreshInv
  <2> QED
    BY <1>6, <1>7, <1>12, <2>4, <2>5, StoreKeeps
<1> QED
  BY <1>13, <1>14

(* Every step keeps the sending chains apart.                              *)
LEMMA FreshStep == FreshInv /\ [Next]_vars => FreshInv'
<1> SUFFICES ASSUME FreshInv, [Next]_vars PROVE FreshInv'
  OBVIOUS
<1>0. fresh \in [Party -> Nat]
  BY DEF FreshInv
<1>1. ASSUME NEW p \in Party, SendPrekey(p) PROVE FreshInv'
  BY <1>1, SendPrekeyKeeps
<1>2. ASSUME NEW p \in Party, SendWhisper(p) PROVE FreshInv'
  BY <1>2, SendWhisperKeeps
<1>3. ASSUME NEW p \in Party, Forget(p) PROVE FreshInv'
  <2>1. /\ session' = [session EXCEPT ![p] = NoSession]
        /\ UNCHANGED <<fresh, sent, net>>
    BY <1>3 DEF Forget
  <2>2. /\ fresh' \in [Party -> Nat] /\ \A q \in Party : fresh'[q] >= fresh[q]
        /\ DOMAIN net' = Party /\ \A q \in Party : net'[q] \subseteq net[q]
    BY <1>0, <2>1 DEF FreshInv
  <2> QED
    BY <2>1, <2>2, StoreKeeps
<1>4. ASSUME NEW p \in Party, NEW m \in net[p], Open(p, m) PROVE FreshInv'
  BY <1>4, OpenKeeps
<1>5. ASSUME NEW p \in Party, NEW m \in net[p], net' = [net EXCEPT ![p] = net[p] \ {m}],
             UNCHANGED <<session, fresh, sent>>
      PROVE  FreshInv'
  BY <1>5 DEF FreshInv, Sends, IsMessage, Grown, Mixed, KeysAreFresh
<1>6. ASSUME NEW p \in Party, NEW m \in net[p], Refuse(p, m) PROVE FreshInv'
  BY <1>5, <1>6 DEF Refuse
<1>7. ASSUME NEW p \in Party, NEW m \in net[p], Lose(p, m) PROVE FreshInv'
  BY <1>5, <1>7 DEF Lose
<1>8. CASE UNCHANGED vars
  BY <1>8 DEF vars, FreshInv, Sends, IsMessage, Grown, Mixed, KeysAreFresh
<1> QED
  BY <1>1, <1>2, <1>3, <1>4, <1>6, <1>7, <1>8 DEF Next

(* No message key is used for two messages, through any replacement of     *)
(* sessions and any order of messages.  ratchet_encrypt, _dh_ratchet,      *)
(* init_sender_session, accept_prekey.                                     *)
THEOREM MessageKeysAreFresh == Spec => []KeysAreFresh
<1>1. FreshInv => KeysAreFresh
  BY DEF FreshInv
<1> QED
  BY FreshInit, FreshStep, <1>1, PTL DEF Spec

-----------------------------------------------------------------------------
(***************************************************************************)
(* What was read is not read again, and its key is not kept.  A session    *)
(* remembers what it has passed by where its receiving chain stands: every *)
(* key on a shorter chain, and those below nr on the chain itself.  What   *)
(* it keeps is of the past too, and is none of the keys it has used.       *)
(***************************************************************************)
Key == Chain \X Nat

Entry == [dh : KeyPair \union {None}, n : Nat, key : Key]

KeysOf(ks) == {ks[i].key : i \in DOMAIN ks}

Distinct(ks) == \A i, j \in DOMAIN ks : ks[i].key = ks[j].key => i = j

IsStore(ks) == ks \in Seq(Entry) /\ Distinct(ks)

Shape(s) ==
  /\ IsSession(s)
  /\ s.rk \in Chain /\ s.rk # << >> /\ s.dhs \in KeyPair
  /\ s.dhr \in KeyPair \union {None}
  /\ s.ckr \in Chain /\ Len(s.ckr) <= Len(s.rk)
  /\ s.ckr # << >> => s.ckr[1] = s.rk[1]
  /\ s.ns \in Nat /\ s.nr \in Nat /\ s.pn \in Nat
  /\ IsStore(s.skipped)

Passed(s, k) ==
  /\ k \in Key /\ k[1] # << >> /\ k[1][1] = s.rk[1]
  /\ Len(k[1]) < Len(s.ckr) \/ (k[1] = s.ckr /\ k[2] < s.nr)

(* K are keys that s has used.                                             *)
Used(s, K) ==
  /\ Shape(s)
  /\ \A k \in K : Passed(s, k) /\ k \notin KeysOf(s.skipped)
  /\ \A k \in KeysOf(s.skipped) : Passed(s, k)

(* A full store loses keys and gains none.                                 *)
LEMMA NewestPart ==
  ASSUME NEW ks, IsStore(ks)
  PROVE  IsStore(Newest(ks)) /\ KeysOf(Newest(ks)) \subseteq KeysOf(ks)
<1> DEFINE from == Len(ks) - MaxSkip + 1
           cut == SubSeq(ks, from, Len(ks))
<1>1. CASE Len(ks) <= MaxSkip
  BY <1>1 DEF Newest
<1>2. CASE ~(Len(ks) <= MaxSkip)
  <2>1. Newest(ks) = cut
    BY <1>2 DEF Newest
  <2>2. /\ ks \in Seq(Entry) /\ Len(ks) \in Nat /\ MaxSkip \in Nat
        /\ from \in Int /\ from >= 1 /\ DOMAIN ks = 1 .. Len(ks)
    BY <1>2, RatchetAssumption DEF IsStore
  <2>3. \A i \in from .. Len(ks) : ks[i] \in Entry
    BY <2>2
  <2>4. cut \in Seq(Entry) /\ Len(cut) = MaxSkip
        /\ \A i \in 1 .. MaxSkip : cut[i] = ks[from + i - 1]
    <3> HIDE DEF from
    <3>1. /\ SubSeq(ks, from, Len(ks)) \in Seq(Entry)
          /\ Len(SubSeq(ks, from, Len(ks))) = IF from <= Len(ks) THEN Len(ks) - from + 1 ELSE 0
          /\ \A i \in 1 .. Len(ks) - from + 1 : SubSeq(ks, from, Len(ks))[i] = ks[from + i - 1]
      BY <2>2, <2>3, SubSeqProperties
    <3>2. Len(ks) - from + 1 = MaxSkip /\ (from <= Len(ks) \/ MaxSkip = 0)
      BY <2>2 DEF from
    <3> QED
      BY <2>2, <3>1, <3>2
  <2> HIDE DEF cut
  <2>5. DOMAIN cut = 1 .. MaxSkip
    BY <2>4
  <2>6. \A i \in 1 .. MaxSkip : from + i - 1 \in DOMAIN ks
    BY <2>2
  <2>7. KeysOf(cut) \subseteq KeysOf(ks)
    BY <2>4, <2>5, <2>6 DEF KeysOf
  <2>8. Distinct(cut)
    <3> SUFFICES ASSUME NEW i \in 1 .. MaxSkip, NEW j \in 1 .. MaxSkip,
                        cut[i].key = cut[j].key
                 PROVE  i = j
      BY <2>5 DEF Distinct
    <3>1. ks[from + i - 1].key = ks[from + j - 1].key
      BY <2>4
    <3>2. from + i - 1 = from + j - 1
      BY <2>6, <3>1 DEF IsStore, Distinct
    <3> QED
      BY <2>2, <3>2
  <2> QED
    BY <2>1, <2>4, <2>7, <2>8 DEF IsStore
<1> QED
  BY <1>1, <1>2

(* Two stores without a common key make one.                               *)
LEMMA ConcatPart ==
  ASSUME NEW a, NEW b, IsStore(a), IsStore(b), KeysOf(a) \intersect KeysOf(b) = {}
  PROVE  IsStore(a \o b) /\ KeysOf(a \o b) \subseteq KeysOf(a) \union KeysOf(b)
<1> DEFINE c == a \o b
<1>1. /\ a \in Seq(Entry) /\ b \in Seq(Entry)
      /\ Len(a) \in Nat /\ Len(b) \in Nat
      /\ DOMAIN a = 1 .. Len(a) /\ DOMAIN b = 1 .. Len(b)
  BY DEF IsStore
<1>2. /\ c \in Seq(Entry) /\ Len(c) = Len(a) + Len(b)
      /\ \A i \in 1 .. Len(a) + Len(b) : c[i] = IF i <= Len(a) THEN a[i] ELSE b[i - Len(a)]
  BY <1>1, ConcatProperties
<1> HIDE DEF c
<1>3. DOMAIN c = 1 .. Len(a) + Len(b)
  BY <1>1, <1>2
<1>4. ASSUME NEW i \in DOMAIN c
      PROVE  \/ i \in DOMAIN a /\ c[i] = a[i]
             \/ i > Len(a) /\ i - Len(a) \in DOMAIN b /\ c[i] = b[i - Len(a)]
  BY <1>1, <1>2, <1>3
<1>5. KeysOf(c) \subseteq KeysOf(a) \union KeysOf(b)
  BY <1>4 DEF KeysOf
<1>6. ASSUME NEW i \in DOMAIN c, NEW j \in DOMAIN c, c[i].key = c[j].key PROVE i = j
  <2>1. CASE i \in DOMAIN a /\ c[i] = a[i]
    <3>1. c[i].key \in KeysOf(a)
      BY <2>1 DEF KeysOf
    <3>2. j \in DOMAIN a /\ c[j] = a[j]
      BY <1>4, <1>6, <3>1 DEF KeysOf
    <3> QED
      BY <1>6, <2>1, <3>2 DEF IsStore, Distinct
  <2>2. CASE i > Len(a) /\ i - Len(a) \in DOMAIN b /\ c[i] = b[i - Len(a)]
    <3>1. c[i].key \in KeysOf(b)
      BY <2>2 DEF KeysOf
    <3>2. j > Len(a) /\ j - Len(a) \in DOMAIN b /\ c[j] = b[j - Len(a)]
      BY <1>4, <1>6, <3>1 DEF KeysOf
    <3>3. i - Len(a) = j - Len(a)
      BY <1>6, <2>2, <3>2 DEF IsStore, Distinct
    <3> QED
      BY <1>1, <1>3, <3>3
  <2> QED
    BY <1>4, <2>1, <2>2
<1> QED
  BY <1>2, <1>5, <1>6 DEF IsStore, Distinct, c

(* What is before and after the entry that is taken.                       *)
LEMMA CutAt ==
  ASSUME NEW ks \in Seq(Entry), NEW i \in DOMAIN ks
  PROVE  /\ SubSeq(ks, 1, i - 1) \in Seq(Entry) /\ Len(SubSeq(ks, 1, i - 1)) = i - 1
         /\ \A j \in 1 .. i - 1 : SubSeq(ks, 1, i - 1)[j] = ks[j]
         /\ SubSeq(ks, i + 1, Len(ks)) \in Seq(Entry)
         /\ Len(SubSeq(ks, i + 1, Len(ks))) = Len(ks) - i
         /\ \A j \in 1 .. Len(ks) - i : SubSeq(ks, i + 1, Len(ks))[j] = ks[i + j]
<1> DEFINE a == SubSeq(ks, 1, i - 1)
           b == SubSeq(ks, i + 1, Len(ks))
<1>1. Len(ks) \in Nat /\ DOMAIN ks = 1 .. Len(ks) /\ i \in 1 .. Len(ks)
  OBVIOUS
<1>2. \A j \in 1 .. Len(ks) : ks[j] \in Entry
  BY <1>1
<1>3. /\ a \in Seq(Entry) /\ Len(a) = i - 1
      /\ \A j \in 1 .. i - 1 : a[j] = ks[j]
  <2>1. \A j \in 1 .. (i - 1) : ks[j] \in Entry
    BY <1>1, <1>2
  <2>2. /\ SubSeq(ks, 1, i - 1) \in Seq(Entry)
        /\ Len(SubSeq(ks, 1, i - 1)) = IF 1 <= i - 1 THEN (i - 1) - 1 + 1 ELSE 0
        /\ \A j \in 1 .. (i - 1) - 1 + 1 : SubSeq(ks, 1, i - 1)[j] = ks[1 + j - 1]
    BY <1>1, <2>1, SubSeqProperties
  <2> QED
    BY <1>1, <2>2
<1>4. /\ b \in Seq(Entry) /\ Len(b) = Len(ks) - i
      /\ \A j \in 1 .. Len(ks) - i : b[j] = ks[i + j]
  <2>1. \A j \in i + 1 .. Len(ks) : ks[j] \in Entry
    BY <1>1, <1>2
  <2>2. /\ SubSeq(ks, i + 1, Len(ks)) \in Seq(Entry)
        /\ Len(SubSeq(ks, i + 1, Len(ks))) =
             IF i + 1 <= Len(ks) THEN Len(ks) - (i + 1) + 1 ELSE 0
        /\ \A j \in 1 .. Len(ks) - (i + 1) + 1 :
             SubSeq(ks, i + 1, Len(ks))[j] = ks[(i + 1) + j - 1]
    BY <1>1, <2>1, SubSeqProperties
  <2> QED
    BY <1>1, <2>2
<1> QED
  BY <1>3, <1>4

(* A key that is taken is gone.                                            *)
LEMMA RemovePart ==
  ASSUME NEW ks, IsStore(ks), NEW i \in DOMAIN ks
  PROVE  /\ IsStore(RemoveAt(ks, i))
         /\ KeysOf(RemoveAt(ks, i)) \subseteq KeysOf(ks) \ {ks[i].key}
<1> DEFINE a == SubSeq(ks, 1, i - 1)
           b == SubSeq(ks, i + 1, Len(ks))
<1>1. /\ ks \in Seq(Entry) /\ Len(ks) \in Nat /\ DOMAIN ks = 1 .. Len(ks) /\ i \in 1 .. Len(ks)
  BY DEF IsStore
<1>3. /\ a \in Seq(Entry) /\ Len(a) = i - 1
      /\ \A j \in 1 .. i - 1 : a[j] = ks[j]
  BY <1>1, CutAt
<1>4. /\ b \in Seq(Entry) /\ Len(b) = Len(ks) - i
      /\ \A j \in 1 .. Len(ks) - i : b[j] = ks[i + j]
  BY <1>1, CutAt
<1>5. RemoveAt(ks, i) = a \o b
  BY DEF RemoveAt
<1> HIDE DEF a, b
<1>6. DOMAIN a = 1 .. i - 1 /\ DOMAIN b = 1 .. Len(ks) - i
  BY <1>1, <1>3, <1>4
<1>7. KeysOf(a) \subseteq KeysOf(ks) \ {ks[i].key}
  <2>1. ASSUME NEW j \in 1 .. i - 1 PROVE a[j].key \in KeysOf(ks) \ {ks[i].key}
    <3>1. j \in DOMAIN ks /\ j # i
      BY <1>1
    <3> QED
      BY <1>3, <3>1 DEF IsStore, Distinct, KeysOf
  <2> QED
    BY <1>6, <2>1 DEF KeysOf
<1>8. KeysOf(b) \subseteq KeysOf(ks) \ {ks[i].key}
  <2>1. ASSUME NEW j \in 1 .. Len(ks) - i PROVE b[j].key \in KeysOf(ks) \ {ks[i].key}
    <3>1. i + j \in DOMAIN ks /\ i + j # i
      BY <1>1
    <3> QED
      BY <1>4, <3>1 DEF IsStore, Distinct, KeysOf
  <2> QED
    BY <1>6, <2>1 DEF KeysOf
<1>9. Distinct(a)
  BY <1>1, <1>3, <1>6 DEF IsStore, Distinct
<1>10. Distinct(b)
  <2> SUFFICES ASSUME NEW j \in 1 .. Len(ks) - i, NEW k \in 1 .. Len(ks) - i,
                      b[j].key = b[k].key
               PROVE  j = k
    BY <1>6 DEF Distinct
  <2>1. i + j \in DOMAIN ks /\ i + k \in DOMAIN ks
    BY <1>1
  <2>2. i + j = i + k
    BY <1>4, <2>1 DEF IsStore, Distinct
  <2> QED
    BY <1>1, <2>2
<1>11. KeysOf(a) \intersect KeysOf(b) = {}
  <2> SUFFICES ASSUME NEW j \in 1 .. i - 1, NEW k \in 1 .. Len(ks) - i,
                      a[j].key = b[k].key
               PROVE  FALSE
    BY <1>6 DEF KeysOf
  <2>1. j \in DOMAIN ks /\ i + k \in DOMAIN ks
    BY <1>1
  <2>2. j = i + k
    BY <1>3, <1>4, <2>1 DEF IsStore, Distinct
  <2> QED
    BY <1>1, <2>2
<1> QED
  BY <1>3, <1>4, <1>5, <1>7, <1>8, <1>9, <1>10, <1>11, ConcatPart DEF IsStore

(* The keys passed over on the receiving chain.                            *)
LEMMA SkippedAhead ==
  ASSUME NEW s, Shape(s), NEW until \in Nat, s.nr < until, s.ckr # None
  PROVE  /\ IsStore(SkippedKeys(s, until))
         /\ \A k \in KeysOf(SkippedKeys(s, until)) :
              k \in Key /\ k[1] = s.ckr /\ k[2] >= s.nr /\ k[2] < until
<1> DEFINE ks == SkippedKeys(s, until)
           num == until - s.nr
<1>1. num \in Nat /\ s.nr \in Nat /\ s.ckr \in Chain /\ s.dhr \in KeyPair \union {None}
  BY DEF Shape
<1>2. ks = [i \in 1 .. num |->
              [dh |-> s.dhr, n |-> s.nr + i - 1, key |-> <<s.ckr, s.nr + i - 1>>]]
  BY DEF SkippedKeys
<1> HIDE DEF ks
<1>3. \A i \in 1 .. num : s.nr + i - 1 \in Nat /\ s.nr + i - 1 >= s.nr /\ s.nr + i - 1 < until
  BY <1>1
<1> HIDE DEF num
<1>4. DOMAIN ks = 1 .. num /\ \A i \in 1 .. num : /\ ks[i].key = <<s.ckr, s.nr + i - 1>>
                                                /\ ks[i] \in Entry
  BY <1>1, <1>2, <1>3 DEF Entry, Key
<1>5. ks \in Seq(Entry)
  BY <1>1, <1>2, <1>4
<1>6. Distinct(ks)
  <2> SUFFICES ASSUME NEW i \in 1 .. num, NEW j \in 1 .. num, ks[i].key = ks[j].key
               PROVE  i = j
    BY <1>4 DEF Distinct
  <2>1. s.nr + i - 1 = s.nr + j - 1
    BY <1>4
  <2> QED
    BY <1>1, <2>1
<1>7. ASSUME NEW k \in KeysOf(ks)
      PROVE  k \in Key /\ k[1] = s.ckr /\ k[2] >= s.nr /\ k[2] < until
  <2>1. PICK i \in 1 .. num : k = <<s.ckr, s.nr + i - 1>>
    BY <1>4 DEF KeysOf
  <2> QED
    BY <1>1, <1>3, <2>1 DEF Key
<1> QED
  BY <1>5, <1>6, <1>7 DEF IsStore, ks

(* Passing over keys uses none of them.                                    *)
LEMMA SkipUsed ==
  ASSUME NEW s, NEW K, Used(s, K), NEW until \in Nat
  PROVE  Used(SkipTo(s, until), K) /\ SkipTo(s, until).rk = s.rk
<1>1. CASE s.nr >= until \/ s.ckr = None
  BY <1>1 DEF SkipTo
<1>2. CASE ~(s.nr >= until \/ s.ckr = None)
  <2> DEFINE ahead == SkippedKeys(s, until)
             both == s.skipped \o ahead
             t == SkipTo(s, until)
  <2>1. /\ Shape(s) /\ s.nr \in Nat /\ s.nr < until /\ s.ckr # None
        /\ IsStore(s.skipped) /\ IsSession(s)
    BY <1>2 DEF Used, Shape
  <2>2. /\ IsStore(ahead)
        /\ \A k \in KeysOf(ahead) : k \in Key /\ k[1] = s.ckr /\ k[2] >= s.nr /\ k[2] < until
    BY <2>1, SkippedAhead
  <2>3. t = [s EXCEPT !.skipped = Newest(both), !.nr = until]
    BY <1>2 DEF SkipTo
  <2> HIDE DEF ahead, t
  <2>4. ASSUME NEW k, Passed(s, k) PROVE k \notin KeysOf(ahead)
    <3>1. k[2] \in Nat
      BY <2>4 DEF Passed, Key
    <3>2. k[1] = s.ckr => k[2] < s.nr
      BY <2>1, <2>4 DEF Passed, Shape, Chain
    <3> QED
      BY <2>1, <2>2, <3>1, <3>2
  <2>5. IsStore(both) /\ KeysOf(both) \subseteq KeysOf(s.skipped) \union KeysOf(ahead)
    BY <2>1, <2>2, <2>4, ConcatPart DEF Used
  <2> HIDE DEF both
  <2>6. IsStore(Newest(both)) /\ KeysOf(Newest(both)) \subseteq KeysOf(both)
    BY <2>5, NewestPart
  <2>7. /\ IsSession(t) /\ t.rk = s.rk /\ t.dhs = s.dhs /\ t.dhr = s.dhr /\ t.ckr = s.ckr
        /\ t.ns = s.ns /\ t.pn = s.pn /\ t.nr = until /\ t.skipped = Newest(both)
    BY <2>1, <2>3 DEF IsSession
  <2>8. Shape(t)
    BY <2>1, <2>6, <2>7 DEF Shape
  <2>9. ASSUME NEW k, Passed(s, k) PROVE Passed(t, k)
    <3>1. k[2] \in Nat
      BY <2>9 DEF Passed, Key
    <3> QED
      BY <2>1, <2>7, <2>9, <3>1 DEF Passed
  <2>10. ASSUME NEW k \in KeysOf(ahead) PROVE Passed(t, k)
    BY <2>1, <2>2, <2>7 DEF Passed, Shape, None
  <2>11. Used(t, K)
    BY <2>4, <2>5, <2>6, <2>7, <2>8, <2>9, <2>10 DEF Used
  <2> QED
    BY <2>7, <2>11 DEF t
<1> QED
  BY <1>1, <1>2

(* One more result makes a longer chain of the same origin.                *)
LEMMA AppendGrows ==
  ASSUME NEW c \in Chain, c # << >>, NEW k \in SUBSET KeyPair
  PROVE  /\ Append(c, k) \in Chain /\ Append(c, k) # << >>
         /\ Len(Append(c, k)) = Len(c) + 1 /\ Append(c, k)[1] = c[1]
<1>1. Append(c, k) \in Chain /\ Append(c, k) # << >>
  BY AppendMixes
<1>2. Len(c) \in Nat /\ Len(c) # 0
  BY DEF Chain
<1> QED
  BY <1>1, <1>2 DEF Chain

(* A ratchet step leaves every key behind.                                 *)
LEMMA RatchetUsed ==
  ASSUME NEW s, NEW K, Used(s, K), NEW dh \in KeyPair, NEW new \in KeyPair
  PROVE  /\ Used(Ratchet(s, dh, new), K)
         /\ Ratchet(s, dh, new).rk # << >> /\ Ratchet(s, dh, new).rk[1] = s.rk[1]
<1> DEFINE receiving == Append(s.rk, {s.dhs, dh})
           root == Append(receiving, {new, dh})
           t == Ratchet(s, dh, new)
<1>1. Shape(s)
  BY DEF Used
<1>2. {s.dhs, dh} \in SUBSET KeyPair /\ {new, dh} \in SUBSET KeyPair
  BY <1>1 DEF Shape
<1>3. /\ receiving \in Chain /\ receiving # << >>
      /\ Len(receiving) = Len(s.rk) + 1 /\ receiving[1] = s.rk[1]
  BY <1>1, <1>2, AppendGrows DEF Shape
<1>4. t = [rk |-> root, dhs |-> new, dhr |-> dh, cks |-> root, ckr |-> receiving,
           ns |-> 0, nr |-> 0, pn |-> s.ns, skipped |-> s.skipped]
  BY DEF Ratchet
<1> HIDE DEF receiving
<1>5. /\ root \in Chain /\ root # << >>
      /\ Len(root) = Len(receiving) + 1 /\ root[1] = receiving[1]
  BY <1>2, <1>3, AppendGrows
<1> HIDE DEF root, t
<1>6. /\ IsSession(t) /\ t.rk = root /\ t.dhs = new /\ t.dhr = dh /\ t.ckr = receiving
      /\ t.ns = 0 /\ t.nr = 0 /\ t.pn = s.ns /\ t.skipped = s.skipped
  BY <1>4 DEF IsSession
<1>7. Len(s.rk) \in Nat /\ Len(s.ckr) \in Nat /\ Len(s.ckr) <= Len(s.rk)
  BY <1>1 DEF Shape, Chain
<1>8. Shape(t)
  BY <1>1, <1>3, <1>5, <1>6, <1>7 DEF Shape
<1>9. ASSUME NEW k, Passed(s, k) PROVE Passed(t, k)
  <2>1. Len(k[1]) \in Nat /\ Len(k[1]) <= Len(s.ckr)
    BY <1>7, <1>9 DEF Passed, Key, Chain
  <2>2. Len(k[1]) < Len(t.ckr)
    BY <1>3, <1>6, <1>7, <2>1
  <2> QED
    BY <1>3, <1>5, <1>6, <1>9, <2>2 DEF Passed
<1>10. Used(t, K)
  BY <1>6, <1>8, <1>9 DEF Used
<1> QED
  BY <1>3, <1>5, <1>6, <1>10 DEF t

(* A message that decrypts has a key that was not used, and now it is.     *)
LEMMA DecryptUsed ==
  ASSUME NEW s, NEW K, Used(s, K), NEW new \in KeyPair,
         NEW m, m.dh \in KeyPair, m.n \in Nat, m.pn \in Nat, m.key \in Key, m.key[1] # << >>,
         CanDecrypt(s, m, new)
  PROVE  /\ m.key \notin K
         /\ Used(Decrypted(s, m, new), K \union {m.key})
         /\ Decrypted(s, m, new).rk[1] = s.rk[1]
<1> DEFINE u == Turned(s, m, new)
           a == Advanced(s, m, new)
           t == Decrypted(s, m, new)
<1>1. KeyFor(s, m, new) = m.key /\ Shape(s)
  BY DEF CanDecrypt, Used
<1>2. CASE KeptAt(s, m) # {}
  <2>1. PICK i : i = (CHOOSE j \in KeptAt(s, m) : TRUE) /\ i \in KeptAt(s, m)
    BY <1>2
  <2>2. i \in DOMAIN s.skipped /\ s.skipped[i].key = m.key
    BY <1>1, <1>2, <2>1 DEF KeyFor, KeptAt
  <2>3. t = [s EXCEPT !.skipped = RemoveAt(s.skipped, i)]
    BY <1>2, <2>1 DEF Decrypted
  <2> HIDE DEF t
  <2>4. PICK r : r = RemoveAt(s.skipped, i)
    OBVIOUS
  <2>5. IsStore(r) /\ KeysOf(r) \subseteq KeysOf(s.skipped) \ {m.key}
    BY <1>1, <2>2, <2>4, RemovePart DEF Shape
  <2>6. /\ IsSession(t) /\ t.rk = s.rk /\ t.dhs = s.dhs /\ t.dhr = s.dhr /\ t.ckr = s.ckr
        /\ t.ns = s.ns /\ t.pn = s.pn /\ t.nr = s.nr /\ t.skipped = r
    BY <1>1, <2>3, <2>4 DEF IsSession, Shape
  <2>7. Shape(t)
    BY <1>1, <2>5, <2>6 DEF Shape
  <2>8. \A k : Passed(s, k) => Passed(t, k)
    BY <2>6 DEF Passed
  <2>9. m.key \in KeysOf(s.skipped)
    BY <2>2 DEF KeysOf
  <2>10. Used(t, K \union {m.key})
    BY <2>5, <2>6, <2>7, <2>8, <2>9 DEF Used
  <2> QED
    BY <2>6, <2>9, <2>10 DEF t, Used
<1>3. CASE KeptAt(s, m) = {}
  <2>1. Used(u, K) /\ u.rk[1] = s.rk[1]
    <3>1. CASE Turns(s, m)
      <4> DEFINE v == SkipTo(s, m.pn)
      <4>1. Used(v, K) /\ v.rk = s.rk
        BY SkipUsed
      <4>2. u = Ratchet(v, m.dh, new)
        BY <3>1 DEF Turned
      <4> HIDE DEF u, v
      <4> QED
        BY <4>1, <4>2, RatchetUsed
    <3>2. CASE ~Turns(s, m)
      BY <3>2 DEF Turned
    <3> QED
      BY <3>1, <3>2
  <2>2. a = SkipTo(u, m.n)
    BY DEF Advanced
  <2>3. t = [a EXCEPT !.nr = a.nr + 1]
    BY <1>3 DEF Decrypted
  <2>4. m.key = <<a.ckr, a.nr>>
    BY <1>1, <1>3 DEF KeyFor
  <2> HIDE DEF u, a, t
  <2>5. Used(a, K) /\ a.rk = u.rk
    BY <2>1, <2>2, SkipUsed
  <2>6. Shape(a) /\ a.nr \in Nat /\ a.ckr # << >>
    BY <2>4, <2>5 DEF Used, Shape
  <2>7. /\ IsSession(t) /\ t.rk = a.rk /\ t.dhs = a.dhs /\ t.dhr = a.dhr /\ t.ckr = a.ckr
        /\ t.ns = a.ns /\ t.pn = a.pn /\ t.nr = a.nr + 1 /\ t.skipped = a.skipped
    BY <2>3, <2>6 DEF IsSession, Shape
  <2>8. Shape(t)
    BY <2>6, <2>7 DEF Shape
  <2>9. ASSUME NEW k, Passed(a, k) PROVE Passed(t, k) /\ k # m.key
    <3>1. k[2] \in Nat /\ Len(a.ckr) \in Nat
      BY <2>6, <2>9 DEF Passed, Key, Shape, Chain
    <3>2. k # <<a.ckr, a.nr>>
      BY <2>6, <2>9, <3>1 DEF Passed
    <3>3. Passed(t, k)
      BY <2>6, <2>7, <2>9, <3>1 DEF Passed
    <3> QED
      BY <2>4, <3>2, <3>3
  <2>10. Passed(t, m.key)
    BY <2>4, <2>6, <2>7 DEF Passed, Shape
  <2>11. Used(t, K \union {m.key})
    BY <2>5, <2>7, <2>8, <2>9, <2>10 DEF Used
  <2> QED
    BY <2>1, <2>5, <2>7, <2>9, <2>11 DEF t, Used
<1> QED
  BY <1>2, <1>3

(***************************************************************************)
(* Where the handshakes of p come from: it began them with a key pair of   *)
(* its own, or it has read the first message of the peer.                  *)
(***************************************************************************)
Origin(p, root) ==
  \/ \E m \in opened[p] : m.kind = "prekey" /\ root = {m.base, Prekey(p)}
  \/ \E b \in KeyPair : /\ b[1] = p /\ b[2] >= 1 /\ b[2] <= fresh[p]
                        /\ root = {b, Prekey(Peer(p))}

OriginInv ==
  /\ opened \in [Party -> SUBSET sent] /\ reopened \in [Party -> SUBSET sent]
  /\ \A m \in sent : m.n \in Nat /\ m.pn \in Nat
  /\ \A m \in sent : m.kind = "prekey" => m.base[2] >= 1 /\ m.base[2] <= fresh[m.base[1]]
  /\ \A m, n \in sent : m.kind = "prekey" /\ n.kind = "prekey" /\ m.base = n.base => m = n
  /\ \A p \in Party : \A m \in net[p] : m.kind = "prekey" => m.base[1] = Peer(p)
  /\ \A p \in Party : \A m \in opened[p] : Origin(p, RootOf(m.key[1]))
  /\ \A p \in Party : session[p] # NoSession => Origin(p, RootOf(session[p].rk))

(* The keys that p has used in the handshake root, unless it was restarted.*)
UsedKeys(p, root) ==
  {m.key : m \in {n \in opened[p] : RootOf(n.key[1]) = root /\ root \notin restarted}}

OnceInv ==
  /\ \A p \in Party : session[p] # NoSession =>
       Used(session[p], UsedKeys(p, RootOf(session[p].rk)))
  /\ OpenedOnce

ForgetInv == FreshInv /\ OriginInv /\ OnceInv

(* Initially nothing was read.                                             *)
LEMMA ForgetInit == Init => ForgetInv
  BY FreshInit DEF Init, ForgetInv, OriginInv, OnceInv, OpenedOnce

(* There are two of them.                                                  *)
LEMMA PeerOfPeer == ASSUME NEW p \in Party PROVE Peer(Peer(p)) = p
  BY PeerIsParty DEF Party

(* A handshake goes on coming from where it came from.                     *)
LEMMA OriginStays ==
  ASSUME NEW p \in Party, NEW root, Origin(p, root), opened[p] \subseteq opened'[p],
         fresh \in [Party -> Nat], fresh' \in [Party -> Nat], fresh'[p] >= fresh[p]
  PROVE  Origin(p, root)'
<1>1. CASE \E m \in opened[p] : m.kind = "prekey" /\ root = {m.base, Prekey(p)}
  BY <1>1 DEF Origin, Prekey
<1>2. CASE \E b \in KeyPair : /\ b[1] = p /\ b[2] >= 1 /\ b[2] <= fresh[p]
                              /\ root = {b, Prekey(Peer(p))}
  <2>1. PICK b \in KeyPair : /\ b[1] = p /\ b[2] >= 1 /\ b[2] <= fresh[p]
                             /\ root = {b, Prekey(Peer(p))}
    BY <1>2
  <2>2. b[2] \in Nat /\ b[2] <= fresh'[p]
    BY <2>1 DEF KeyPair
  <2> QED
    BY <2>1, <2>2 DEF Origin
<1> QED
  BY <1>1, <1>2 DEF Origin

(* A session that has used keys has used some of them.                     *)
LEMMA UsedLess ==
  ASSUME NEW s, NEW K, NEW L, Used(s, K), L \subseteq K
  PROVE  Used(s, L)
  BY DEF Used

(* What does not change a session keeps it as it is.                       *)
LEMMA SessionStays ==
  ASSUME OnceInv, NEW p \in Party, session'[p] = session[p], opened'[p] = opened[p],
         restarted \subseteq restarted', session'[p] # NoSession
  PROVE  Used(session[p], UsedKeys(p, RootOf(session[p].rk)))'
<1>1. PICK s : s = session[p]
  OBVIOUS
<1>2. PICK K : K = UsedKeys(p, RootOf(s.rk))
  OBVIOUS
<1>3. PICK L : L = UsedKeys(p, RootOf(s.rk))'
  OBVIOUS
<1>4. Used(s, K)
  BY <1>1, <1>2 DEF OnceInv
<1>5. L \subseteq K
  BY <1>2, <1>3 DEF UsedKeys
<1>6. Used(s, L)
  BY <1>4, <1>5, UsedLess
<1> QED
  BY <1>1, <1>3, <1>6

(* The handshakes after a step that stores t for p and may send m.         *)
LEMMA OriginStep ==
  ASSUME FreshInv, FreshInv', OriginInv, NEW p \in Party, NEW t,
         session' = [session EXCEPT ![p] = t],
         NEW news, sent' = sent \union news, \A m, n \in news : m = n,
         \A m \in news :
           /\ m.n \in Nat /\ m.pn \in Nat
           /\ m.kind = "prekey" => /\ m.base[1] = p /\ m.base[2] > fresh[p]
                                   /\ m.base[2] <= fresh'[p],
         \A q \in Party : fresh'[q] >= fresh[q],
         \A q \in Party : net'[q] \subseteq net[q] \union (IF q = Peer(p) THEN news ELSE {}),
         \A q \in Party : opened[q] \subseteq opened'[q],
         opened' \in [Party -> SUBSET sent], reopened' \in [Party -> SUBSET sent],
         \A q \in Party : \A m \in opened'[q] : \/ m \in opened[q]
                                                \/ Origin(q, RootOf(m.key[1]))',
         t # NoSession => Origin(p, RootOf(t.rk))'
  PROVE  OriginInv'
<1>1. fresh \in [Party -> Nat] /\ fresh' \in [Party -> Nat] /\ \A m \in sent' : IsMessage(m)'
  BY DEF FreshInv
<1>2. opened' \in [Party -> SUBSET sent'] /\ reopened' \in [Party -> SUBSET sent']
  <2>1. SUBSET sent \subseteq SUBSET sent'
    OBVIOUS
  <2> QED
    BY <2>1
<1>3. \A m \in sent' : m.n \in Nat /\ m.pn \in Nat
  BY DEF OriginInv
<1>4. ASSUME NEW m \in sent', m.kind = "prekey"
      PROVE  m.base[2] >= 1 /\ m.base[2] <= fresh'[m.base[1]]
  <2>1. m.base[1] \in Party /\ m.base[2] \in Nat
    BY <1>1, <1>4 DEF IsMessage, KeyPair
  <2>2. CASE m \in sent
    <3>1. m.base[2] >= 1 /\ m.base[2] <= fresh[m.base[1]]
      BY <1>4, <2>2 DEF OriginInv
    <3> QED
      BY <1>1, <2>1, <3>1
  <2>3. CASE m \in news
    BY <1>1, <1>4, <2>1, <2>3
  <2> QED
    BY <2>2, <2>3
<1>5. ASSUME NEW m \in sent, NEW n \in news, m.kind = "prekey", n.kind = "prekey"
      PROVE  m.base # n.base
  <2>1. m.base[2] <= fresh[m.base[1]] /\ m.base[1] \in Party /\ m.base[2] \in Nat
    BY <1>5 DEF OriginInv, FreshInv, IsMessage, KeyPair
  <2>2. n.base[1] = p /\ n.base[2] > fresh[p] /\ n.base[2] \in Nat
    BY <1>1, <1>5 DEF IsMessage, KeyPair
  <2> QED
    BY <1>1, <2>1, <2>2
<1>6. \A m, n \in sent' : m.kind = "prekey" /\ n.kind = "prekey" /\ m.base = n.base => m = n
  BY <1>5 DEF OriginInv
<1>7. ASSUME NEW q \in Party, NEW m \in net'[q], m.kind = "prekey" PROVE m.base[1] = Peer(q)
  BY <1>7, PeerOfPeer DEF OriginInv
<1>8. ASSUME NEW q \in Party, NEW m \in opened'[q] PROVE Origin(q, RootOf(m.key[1]))'
  <2>1. CASE m \in opened[q]
    <3>1. PICK root : root = RootOf(m.key[1])
      OBVIOUS
    <3>2. Origin(q, root)
      BY <2>1, <3>1 DEF OriginInv
    <3>3. Origin(q, root)'
      BY <1>1, <3>2, OriginStays
    <3> QED
      BY <3>1, <3>3
  <2> QED
    BY <2>1
<1>9. ASSUME NEW q \in Party, session'[q] # NoSession
      PROVE  Origin(q, RootOf(session[q].rk))'
  <2>0. session'[q] = IF q = p THEN t ELSE session[q]
    BY DEF FreshInv
  <2>1. CASE q = p
    BY <1>9, <2>0, <2>1
  <2>2. CASE q # p
    <3>1. PICK root : root = RootOf(session[q].rk)
      OBVIOUS
    <3>2. Origin(q, root)
      BY <1>9, <2>0, <2>2, <3>1 DEF OriginInv
    <3>3. Origin(q, root)'
      BY <1>1, <3>2, OriginStays
    <3>4. RootOf(session[q].rk)' = root
      BY <2>0, <2>2, <3>1 DEF RootOf
    <3> QED
      BY <3>3, <3>4
  <2> QED
    BY <2>1, <2>2
<1> QED
  BY <1>2, <1>3, <1>4, <1>6, <1>7, <1>8, <1>9 DEF OriginInv

(* The sending side of a session that has sent one more.                   *)
LEMMA SentUsed ==
  ASSUME NEW s, NEW K, Used(s, K), NEW t, t = [s EXCEPT !.ns = s.ns + 1]
  PROVE  Used(t, K) /\ t.rk = s.rk
<1>1. /\ IsSession(t) /\ t.rk = s.rk /\ t.dhs = s.dhs /\ t.dhr = s.dhr /\ t.ckr = s.ckr
      /\ t.ns = s.ns + 1 /\ t.pn = s.pn /\ t.nr = s.nr /\ t.skipped = s.skipped
  BY DEF Used, Shape, IsSession
<1> QED
  BY <1>1 DEF Used, Shape, Passed

(* A step that leaves the history alone and stores t.                      *)
LEMMA QuietStores ==
  ASSUME FreshInv, OnceInv, NEW p \in Party, NEW t,
         session' = [session EXCEPT ![p] = t], UNCHANGED <<opened, reopened, restarted>>,
         t # NoSession => Used(t, UsedKeys(p, RootOf(t.rk)))
  PROVE  OnceInv'
<1>1. \A q \in Party : session'[q] = IF q = p THEN t ELSE session[q]
  BY DEF FreshInv
<1>2. ASSUME NEW q \in Party, session'[q] # NoSession
      PROVE  Used(session[q], UsedKeys(q, RootOf(session[q].rk)))'
  <2>1. CASE q # p
    BY <1>1, <1>2, <2>1, SessionStays
  <2>2. CASE q = p
    <3>1. UsedKeys(p, RootOf(t.rk))' = UsedKeys(p, RootOf(t.rk))
      BY DEF UsedKeys
    <3>2. PICK K : K = UsedKeys(p, RootOf(t.rk))
      OBVIOUS
    <3> QED
      BY <1>1, <1>2, <2>2, <3>1, <3>2
  <2> QED
    BY <2>1, <2>2
<1>3. OpenedOnce'
  BY DEF OnceInv, OpenedOnce
<1> QED
  BY <1>2, <1>3 DEF OnceInv

(* A first message begins a handshake in which nothing was used.           *)
LEMMA SendPrekeyOnce ==
  ASSUME ForgetInv, FreshInv', NEW p \in Party, SendPrekey(p)
  PROVE  OriginInv' /\ OnceInv'
<1>0. FreshInv /\ OriginInv /\ OnceInv
  BY DEF ForgetInv
<1> DEFINE one == NewKey(p, 1)
           two == NewKey(p, 2)
           theirs == Prekey(Peer(p))
           key == <<{one, theirs}, {two, theirs}>>
<1>1. PICK s : s = Initiator(p)
  OBVIOUS
<1>2. PICK m : /\ m = Encrypted(s, p, Cardinality(SentBy(p)), "prekey", one)
               /\ session' = [session EXCEPT ![p] = [s EXCEPT !.ns = s.ns + 1]]
               /\ sent' = sent \union {m}
               /\ net' = [net EXCEPT ![Peer(p)] = net[Peer(p)] \union {m}]
               /\ UNCHANGED history
  BY <1>1 DEF SendPrekey, Transmit
<1>3. fresh \in [Party -> Nat] /\ fresh' = [fresh EXCEPT ![p] = fresh[p] + 2]
      /\ fresh' \in [Party -> Nat]
  BY <1>0 DEF SendPrekey, FreshInv
<1>4. /\ one \in KeyPair /\ two \in KeyPair /\ theirs \in KeyPair
      /\ one = <<p, fresh[p] + 1>> /\ one[1] = p /\ one[2] = fresh[p] + 1
  BY <1>3, PeerIsParty DEF NewKey, Prekey, KeyPair
<1>5. s = [rk |-> key, dhs |-> two, dhr |-> theirs, cks |-> key, ckr |-> None,
           ns |-> 0, nr |-> 0, pn |-> 0, skipped |-> << >>]
  BY <1>1 DEF Initiator
<1>6. m.n = 0 /\ m.pn = 0 /\ m.base = one /\ m.kind = "prekey"
  BY <1>2, <1>5 DEF Encrypted
<1>7. key \in Chain /\ key # << >> /\ key[1] = {one, theirs}
  <2>1. {one, theirs} \in SUBSET KeyPair /\ {two, theirs} \in SUBSET KeyPair
    BY <1>4
  <2> QED
    BY <2>1 DEF Chain
<1> HIDE DEF one, two, key
<1>8. ASSUME NEW n \in opened[p] PROVE RootOf(n.key[1]) # {one, theirs}
  <2>1. Origin(p, RootOf(n.key[1])) /\ opened[p] \subseteq sent
    BY <1>0 DEF OriginInv
  <2>2. ASSUME NEW o \in opened[p], o.kind = "prekey" PROVE {o.base, Prekey(p)} # {one, theirs}
    <3>1. o.base \in KeyPair /\ o.base[2] <= fresh[o.base[1]]
      BY <1>0, <2>1, <2>2 DEF OriginInv, FreshInv, IsMessage
    <3>2. o.base # one
      BY <1>3, <1>4, <3>1 DEF KeyPair
    <3>3. Prekey(p) # one
      BY <1>3, <1>4 DEF Prekey
    <3> QED
      BY <3>2, <3>3
  <2>3. ASSUME NEW b \in KeyPair, b[1] = p, b[2] <= fresh[p]
        PROVE  {b, theirs} # {one, theirs}
    <3>1. b # one /\ theirs # one
      BY <1>3, <1>4, <2>3, PeerIsParty DEF KeyPair, Prekey
    <3> QED
      BY <3>1
  <2> HIDE DEF theirs
  <2> QED
    BY <2>1, <2>2, <2>3 DEF Origin, theirs
<1>9. PICK t : t = [s EXCEPT !.ns = s.ns + 1]
  OBVIOUS
<1>10. Used(s, {})
  <2>1. /\ IsSession(s) /\ s.rk = key /\ s.dhs = two /\ s.dhr = theirs /\ s.ckr = << >>
        /\ s.ns = 0 /\ s.nr = 0 /\ s.pn = 0 /\ s.skipped = << >>
    BY <1>5 DEF IsSession, None
  <2>2. << >> \in Chain /\ Len(<< >>) = 0 /\ Len(key) \in Nat
    BY <1>7 DEF Chain
  <2>3. << >> \in Seq(Entry) /\ DOMAIN << >> = {}
    OBVIOUS
  <2>4. IsStore(s.skipped) /\ KeysOf(s.skipped) = {}
    BY <2>1, <2>3 DEF IsStore, Distinct, KeysOf
  <2>5. Shape(s)
    BY <1>4, <1>7, <2>1, <2>2, <2>4 DEF Shape
  <2> QED
    BY <2>4, <2>5 DEF Used
<1>11. Used(t, {}) /\ t.rk = key
  BY <1>5, <1>9, <1>10, SentUsed
<1>12. UsedKeys(p, RootOf(t.rk)) = {}
  BY <1>7, <1>8, <1>11 DEF UsedKeys, RootOf
<1>13. OnceInv'
  BY <1>0, <1>2, <1>9, <1>11, <1>12, QuietStores DEF history
<1>14. Origin(p, RootOf(t.rk))'
  <2>1. fresh'[p] = fresh[p] + 2 /\ RootOf(t.rk) = {one, theirs} /\ fresh[p] \in Nat
    BY <1>3, <1>7, <1>11 DEF RootOf
  <2>2. one \in KeyPair /\ one[1] = p /\ one[2] >= 1 /\ one[2] <= fresh'[p]
    BY <1>4, <2>1
  <2>3. PICK b : b = one
    OBVIOUS
  <2>4. b \in KeyPair /\ b[1] = p /\ b[2] >= 1 /\ b[2] <= fresh'[p]
        /\ RootOf(t.rk) = {b, Prekey(Peer(p))}
    BY <2>1, <2>2, <2>3
  <2> QED
    BY <2>4 DEF Origin, Prekey, Peer
<1>15. PICK news : news = {m}
  OBVIOUS
<1>16. sent' = sent \union news /\ \A a, b \in news : a = b
  BY <1>2, <1>15
<1>17. \A a \in news : /\ a.n \in Nat /\ a.pn \in Nat
                       /\ a.kind = "prekey" => /\ a.base[1] = p /\ a.base[2] > fresh[p]
                                               /\ a.base[2] <= fresh'[p]
  BY <1>3, <1>4, <1>6, <1>15
<1>18. \A q \in Party : net'[q] \subseteq net[q] \union (IF q = Peer(p) THEN news ELSE {})
  BY <1>0, <1>2, <1>15 DEF FreshInv
<1>19. \A q \in Party : fresh'[q] >= fresh[q]
  BY <1>3
<1>20. /\ \A q \in Party : opened[q] \subseteq opened'[q]
       /\ opened' \in [Party -> SUBSET sent] /\ reopened' \in [Party -> SUBSET sent]
       /\ \A q \in Party : \A o \in opened'[q] : o \in opened[q]
  BY <1>0, <1>2 DEF OriginInv, history
<1>21. session' = [session EXCEPT ![p] = t]
  BY <1>2, <1>9
<1>22. OriginInv'
  BY <1>0, <1>14, <1>16, <1>17, <1>18, <1>19, <1>20, <1>21, OriginStep
<1> QED
  BY <1>13, <1>22

(* A later message changes nothing of what was read.                       *)
LEMMA SendWhisperOnce ==
  ASSUME ForgetInv, FreshInv', NEW p \in Party, SendWhisper(p)
  PROVE  OriginInv' /\ OnceInv'
<1>0. FreshInv /\ OriginInv /\ OnceInv /\ session[p] # NoSession /\ UNCHANGED fresh
  BY DEF ForgetInv, SendWhisper
<1>1. PICK s : s = session[p]
  OBVIOUS
<1>2. PICK m : /\ m = Encrypted(s, p, Cardinality(SentBy(p)), "whisper", None)
               /\ session' = [session EXCEPT ![p] = [s EXCEPT !.ns = s.ns + 1]]
               /\ sent' = sent \union {m}
               /\ net' = [net EXCEPT ![Peer(p)] = net[Peer(p)] \union {m}]
               /\ UNCHANGED history
  BY <1>1 DEF SendWhisper, Transmit
<1>3. PICK K : K = UsedKeys(p, RootOf(s.rk))
  OBVIOUS
<1>4. Used(s, K) /\ Origin(p, RootOf(s.rk))
  BY <1>0, <1>1, <1>3 DEF OnceInv, OriginInv
<1>5. m.n \in Nat /\ m.pn \in Nat /\ m.kind = "whisper"
  BY <1>2, <1>4 DEF Encrypted, Used, Shape
<1>6. PICK t : t = [s EXCEPT !.ns = s.ns + 1]
  OBVIOUS
<1>7. Used(t, K) /\ t.rk = s.rk
  BY <1>4, <1>6, SentUsed
<1>8. OnceInv'
  BY <1>0, <1>2, <1>3, <1>6, <1>7, QuietStores DEF history
<1>9. /\ fresh \in [Party -> Nat] /\ fresh' \in [Party -> Nat]
      /\ \A q \in Party : fresh'[q] >= fresh[q]
  BY <1>0 DEF FreshInv
<1>10. Origin(p, RootOf(t.rk))'
  <2>1. PICK root : root = RootOf(t.rk)
    OBVIOUS
  <2>2. Origin(p, root)
    BY <1>4, <1>7, <2>1
  <2>3. Origin(p, root)'
    BY <1>2, <1>9, <2>2, OriginStays DEF history
  <2> QED
    BY <2>1, <2>3
<1>15. PICK news : news = {m}
  OBVIOUS
<1>16. sent' = sent \union news /\ \A a, b \in news : a = b
  BY <1>2, <1>15
<1>17. \A a \in news : a.n \in Nat /\ a.pn \in Nat /\ a.kind # "prekey"
  BY <1>5, <1>15
<1>18. \A q \in Party : net'[q] \subseteq net[q] \union (IF q = Peer(p) THEN news ELSE {})
  BY <1>0, <1>2, <1>15 DEF FreshInv
<1>20. /\ \A q \in Party : opened[q] \subseteq opened'[q]
       /\ opened' \in [Party -> SUBSET sent] /\ reopened' \in [Party -> SUBSET sent]
       /\ \A q \in Party : \A o \in opened'[q] : o \in opened[q]
  BY <1>0, <1>2 DEF OriginInv, history
<1>21. session' = [session EXCEPT ![p] = t]
  BY <1>2, <1>6
<1>22. OriginInv'
  BY <1>0, <1>9, <1>10, <1>16, <1>17, <1>18, <1>20, <1>21, OriginStep
<1> QED
  BY <1>8, <1>22

(* A first message starts a session that has used nothing.                 *)
LEMMA ResponderUsed ==
  ASSUME NEW p \in Party, NEW m, m.base \in KeyPair, m.dh \in KeyPair
  PROVE  /\ Used(Responder(p, m.base), {})
         /\ RootOf(Responder(p, m.base).rk) = {m.base, Prekey(p)}
<1> DEFINE root == <<{m.base, Prekey(p)}>>
<1>1. PICK s : s = Responder(p, m.base)
  OBVIOUS
<1>2. s = [rk |-> root, dhs |-> Prekey(p), dhr |-> None, cks |-> root,
           ckr |-> None, ns |-> 0, nr |-> 0, pn |-> 0, skipped |-> << >>]
  BY <1>1 DEF Responder
<1>3. Prekey(p) \in KeyPair /\ {m.base, Prekey(p)} \in SUBSET KeyPair
  BY DEF Prekey, KeyPair
<1>4. root \in Chain /\ root # << >> /\ root[1] = {m.base, Prekey(p)} /\ Len(root) \in Nat
  BY <1>3 DEF Chain
<1> HIDE DEF root
<1>5. /\ IsSession(s) /\ s.rk = root /\ s.dhs = Prekey(p) /\ s.dhr = None /\ s.ckr = << >>
      /\ s.ns = 0 /\ s.nr = 0 /\ s.pn = 0 /\ s.skipped = << >>
  BY <1>2 DEF IsSession, None
<1>6. << >> \in Chain /\ Len(<< >>) = 0
  BY DEF Chain
<1>7. << >> \in Seq(Entry) /\ DOMAIN << >> = {}
  OBVIOUS
<1>8. IsStore(s.skipped) /\ KeysOf(s.skipped) = {}
  BY <1>5, <1>7 DEF IsStore, Distinct, KeysOf
<1>9. Shape(s)
  BY <1>3, <1>4, <1>5, <1>6, <1>8 DEF Shape
<1>10. Used(s, {})
  BY <1>8, <1>9 DEF Used
<1> QED
  BY <1>1, <1>4, <1>5, <1>10 DEF RootOf

(* What the handshake of a first message that was not read has used.       *)
LEMMA FirstIsNew ==
  ASSUME FreshInv, OriginInv, NEW p \in Party, NEW m \in net[p], m.kind = "prekey",
         m \notin opened[p], NEW n \in opened[p]
  PROVE  RootOf(n.key[1]) # {m.base, Prekey(p)}
<1>1. /\ m \in sent /\ m.base \in KeyPair /\ m.base[1] = Peer(p) /\ m.base[2] >= 1
      /\ opened[p] \subseteq sent /\ Origin(p, RootOf(n.key[1]))
  BY DEF FreshInv, OriginInv, IsMessage
<1>2. m.base # Prekey(p) /\ m.base # Prekey(Peer(p))
  BY <1>1 DEF Prekey, KeyPair
<1>3. ASSUME NEW o \in opened[p], o.kind = "prekey"
      PROVE  {o.base, Prekey(p)} # {m.base, Prekey(p)}
  <2>1. o.base # m.base
    BY <1>1, <1>3 DEF OriginInv
  <2> QED
    BY <1>2, <2>1
<1>4. ASSUME NEW b \in KeyPair, b[1] = p
      PROVE  {b, Prekey(Peer(p))} # {m.base, Prekey(p)}
  <2>1. b # m.base
    BY <1>1, <1>4, PeerIsParty
  <2> QED
    BY <1>2, <2>1
<1> QED
  BY <1>1, <1>3, <1>4 DEF Origin

(* A decrypted message uses a key for the first time.                      *)
LEMMA OpenOnce ==
  ASSUME ForgetInv, FreshInv', NEW p \in Party, NEW m \in net[p], Open(p, m)
  PROVE  OriginInv' /\ OnceInv'
<1>0. FreshInv /\ OriginInv /\ OnceInv
  BY DEF ForgetInv
<1>1. /\ m \in sent /\ IsMessage(m) /\ m.n \in Nat /\ m.pn \in Nat
      /\ m.dh \in KeyPair /\ m.key \in Key /\ m.key[1] # << >>
      /\ fresh \in [Party -> Nat]
  <2>1. m \in sent /\ IsMessage(m) /\ m.n \in Nat /\ m.pn \in Nat /\ fresh \in [Party -> Nat]
    BY <1>0 DEF FreshInv, OriginInv
  <2>2. m.key[1] \in Chain /\ m.key[2] \in Nat /\ m.key = <<m.key[1], m.key[2]>>
    BY <2>1 DEF IsMessage, Grown
  <2>3. m.key \in Key
    BY <2>2 DEF Key
  <2> QED
    BY <2>1, <2>3 DEF IsMessage, Grown
<1>2. PICK s : s = SessionFor(p, m)
  OBVIOUS
<1>3. PICK new : new = NewKey(p, 1)
  OBVIOUS
<1>4. new \in KeyPair
  BY <1>1, <1>3 DEF NewKey, KeyPair
<1>5. PICK t : t = Decrypted(s, m, new)
  OBVIOUS
<1>6. PICK root : root = RootOf(s.rk)
  OBVIOUS
<1>7. /\ session' = [session EXCEPT ![p] = t] /\ UNCHANGED sent
      /\ fresh' = [fresh EXCEPT ![p] = IF Turns(s, m) THEN fresh[p] + 1 ELSE fresh[p]]
      /\ CanDecrypt(s, m, new)
  BY <1>2, <1>3, <1>5 DEF Open, Readable
<1>8. /\ opened' = [opened EXCEPT ![p] = opened[p] \union {m}]
      /\ reopened' = IF m \in opened[p]
                     THEN [reopened EXCEPT ![p] = reopened[p] \union {m}] ELSE reopened
      /\ restarted' = IF m.kind = "prekey" /\ m \in opened[p]
                      THEN restarted \union {RootOf(m.key[1])} ELSE restarted
  BY DEF Open, Record
<1>9. opened \in [Party -> SUBSET sent] /\ reopened \in [Party -> SUBSET sent]
  BY <1>0 DEF OriginInv
<1>10. m.kind = "prekey" => Used(s, {}) /\ root = {m.base, Prekey(p)}
  BY <1>1, <1>2, <1>6, ResponderUsed DEF SessionFor, IsMessage
<1>11. m.kind = "whisper" => /\ session[p] # NoSession /\ s = session[p]
                             /\ Used(s, UsedKeys(p, root)) /\ Origin(p, root)
  <2> SUFFICES ASSUME m.kind = "whisper"
               PROVE  /\ session[p] # NoSession /\ s = session[p]
                      /\ Used(s, UsedKeys(p, root)) /\ Origin(p, root)
    OBVIOUS
  <2>1. s = session[p]
    BY <1>2 DEF SessionFor
  <2>2. session[p] # NoSession
    BY DEF Open, Readable
  <2> QED
    BY <1>0, <1>6, <2>1, <2>2 DEF OnceInv, OriginInv
<1>12. Used(s, {})
  <2>1. PICK K : K = UsedKeys(p, root)
    OBVIOUS
  <2>2. m.kind = "whisper" => Used(s, {})
    BY <1>11, <2>1, UsedLess
  <2> QED
    BY <1>1, <1>10, <2>2 DEF IsMessage
<1>13. RootOf(m.key[1]) = root /\ RootOf(t.rk) = root
  <2>1. PICK K : K = {}
    OBVIOUS
  <2>2. Used(t, K \union {m.key}) /\ t.rk[1] = s.rk[1]
    BY <1>1, <1>4, <1>5, <1>7, <1>12, <2>1, DecryptUsed
  <2>3. Passed(t, m.key)
    BY <2>2 DEF Used
  <2> QED
    BY <1>6, <2>2, <2>3 DEF Passed, RootOf
<1>14. PICK K : K = {n.key : n \in {o \in opened[p] :
                                     RootOf(o.key[1]) = root /\ root \notin restarted'}}
  OBVIOUS
<1>15. Used(s, K)
  <2>1. CASE m.kind = "whisper"
    <3>1. PICK L : L = UsedKeys(p, root)
      OBVIOUS
    <3>2. K \subseteq L
      BY <1>8, <1>14, <2>1, <3>1 DEF UsedKeys
    <3> QED
      BY <1>11, <2>1, <3>1, <3>2, UsedLess
  <2>2. CASE m.kind = "prekey" /\ m \in opened[p]
    <3>1. root \in restarted'
      BY <1>8, <1>13, <2>2
    <3>2. K = {}
      BY <1>14, <3>1
    <3> QED
      BY <1>12, <3>2
  <2>3. CASE m.kind = "prekey" /\ m \notin opened[p]
    <3>1. \A n \in opened[p] : RootOf(n.key[1]) # root
      BY <1>0, <1>10, <2>3, FirstIsNew
    <3>2. K = {}
      BY <1>14, <3>1
    <3> QED
      BY <1>12, <3>2
  <2> QED
    BY <1>1, <2>1, <2>2, <2>3 DEF IsMessage
<1>16. m.key \notin K /\ Used(t, K \union {m.key})
  BY <1>1, <1>4, <1>5, <1>7, <1>15, DecryptUsed
<1>17. Used(session[p], UsedKeys(p, RootOf(session[p].rk)))'
  <2>1. PICK L : L = UsedKeys(p, root)'
    OBVIOUS
  <2>2. opened'[p] = opened[p] \union {m}
    BY <1>8, <1>9
  <2>3. L \subseteq K \union {m.key}
    BY <1>14, <2>1, <2>2 DEF UsedKeys
  <2>4. PICK M : M = K \union {m.key}
    OBVIOUS
  <2>5. Used(t, L)
    BY <1>16, <2>3, <2>4, UsedLess
  <2>6. session'[p] = t
    BY <1>0, <1>7 DEF FreshInv
  <2> QED
    BY <1>13, <2>1, <2>5, <2>6
<1>18. ASSUME NEW q \in Party, q # p, session'[q] # NoSession
       PROVE  Used(session[q], UsedKeys(q, RootOf(session[q].rk)))'
  <2>1. session'[q] = session[q] /\ opened'[q] = opened[q] /\ restarted \subseteq restarted'
    BY <1>0, <1>7, <1>8, <1>9, <1>18 DEF FreshInv
  <2> QED
    BY <1>0, <1>18, <2>1, SessionStays
<1>19. OpenedOnce'
  <2> SUFFICES ASSUME NEW q \in Party, NEW o \in reopened'[q], o.kind # "prekey"
               PROVE  RootOf(o.key[1]) \in restarted'
    BY DEF OpenedOnce
  <2>1. CASE o \in reopened[q]
    BY <1>0, <1>8, <2>1 DEF OnceInv, OpenedOnce
  <2>2. CASE o \notin reopened[q]
    <3>1. o = m /\ q = p /\ m \in opened[p]
      BY <1>8, <1>9, <2>2
    <3>2. root \notin restarted' => m.key \in K
      BY <1>13, <1>14, <3>1
    <3> QED
      BY <1>13, <1>16, <3>1, <3>2
  <2> QED
    BY <2>1, <2>2
<1>20. OnceInv'
  BY <1>17, <1>18, <1>19 DEF OnceInv
<1>21. fresh' \in [Party -> Nat] /\ \A q \in Party : fresh'[q] >= fresh[q]
  BY <1>1, <1>7
<1>22. Origin(p, root)'
  <2>1. CASE m.kind = "prekey"
    <3>1. m \in opened'[p]
      BY <1>8, <1>9
    <3> QED
      BY <1>10, <2>1, <3>1 DEF Origin, Prekey
  <2>2. CASE m.kind = "whisper"
    <3>1. opened[p] \subseteq opened'[p]
      BY <1>8, <1>9
    <3> QED
      BY <1>1, <1>11, <1>21, <2>2, <3>1, OriginStays
  <2> QED
    BY <1>1, <2>1, <2>2 DEF IsMessage
<1>23. PICK news : news = {}
  OBVIOUS
<1>24. sent' = sent \union news /\ \A a, b \in news : a = b
  BY <1>7, <1>23
<1>25. \A q \in Party : net'[q] \subseteq net[q] \union (IF q = Peer(p) THEN news ELSE {})
  BY <1>0 DEF FreshInv, Open, Acked
<1>26. /\ opened' \in [Party -> SUBSET sent] /\ reopened' \in [Party -> SUBSET sent]
       /\ \A q \in Party : opened[q] \subseteq opened'[q]
  BY <1>1, <1>8, <1>9
<1>27. \A q \in Party : \A o \in opened'[q] : o \in opened[q] \/ Origin(q, RootOf(o.key[1]))'
  BY <1>8, <1>9, <1>13, <1>22
<1>28. \A a \in news : /\ a.n \in Nat /\ a.pn \in Nat
                       /\ a.kind = "prekey" => /\ a.base[1] = p /\ a.base[2] > fresh[p]
                                               /\ a.base[2] <= fresh'[p]
  BY <1>23
<1>29. Origin(p, RootOf(t.rk))'
  BY <1>13, <1>22
<1>30. OriginInv'
  BY <1>0, <1>7, <1>21, <1>24, <1>25, <1>26, <1>27, <1>28, <1>29, OriginStep
<1> QED
  BY <1>20, <1>30

(* A step that neither sends nor reads.                                    *)
LEMMA QuietOrigin ==
  ASSUME FreshInv, OriginInv, UNCHANGED <<fresh, sent, opened, reopened>>,
         \A q \in Party : net'[q] \subseteq net[q],
         \A q \in Party : session'[q] = session[q] \/ session'[q] = NoSession
  PROVE  OriginInv'
<1>0. fresh \in [Party -> Nat] /\ fresh' \in [Party -> Nat]
      /\ \A q \in Party : fresh'[q] >= fresh[q] /\ opened[q] \subseteq opened'[q]
  BY DEF FreshInv
<1>1. ASSUME NEW q \in Party, NEW root, Origin(q, root) PROVE Origin(q, root)'
  BY <1>0, <1>1, OriginStays
<1>2. ASSUME NEW q \in Party, NEW m \in opened'[q] PROVE Origin(q, RootOf(m.key[1]))'
  <2>1. PICK root : root = RootOf(m.key[1])
    OBVIOUS
  <2>2. Origin(q, root)
    BY <2>1 DEF OriginInv
  <2>3. Origin(q, root)'
    BY <1>1, <2>2
  <2> QED
    BY <2>1, <2>3
<1>3. ASSUME NEW q \in Party, session'[q] # NoSession
      PROVE  Origin(q, RootOf(session[q].rk))'
  <2>1. PICK root : root = RootOf(session[q].rk)
    OBVIOUS
  <2>2. session'[q] = session[q]
    BY <1>3
  <2>3. Origin(q, root)
    BY <1>3, <2>1, <2>2 DEF OriginInv
  <2>4. Origin(q, root)'
    BY <1>1, <2>3
  <2>5. RootOf(session[q].rk)' = root
    BY <2>1, <2>2 DEF RootOf
  <2> QED
    BY <2>4, <2>5
<1>4. /\ opened' \in [Party -> SUBSET sent'] /\ reopened' \in [Party -> SUBSET sent']
      /\ \A m \in sent' : m.n \in Nat /\ m.pn \in Nat
      /\ \A m \in sent' : m.kind = "prekey" => m.base[2] >= 1 /\ m.base[2] <= fresh'[m.base[1]]
      /\ \A m, n \in sent' : m.kind = "prekey" /\ n.kind = "prekey" /\ m.base = n.base => m = n
  BY DEF OriginInv
<1>5. \A q \in Party : \A m \in net'[q] : m.kind = "prekey" => m.base[1] = Peer(q)
  BY DEF OriginInv
<1> QED
  BY <1>2, <1>3, <1>4, <1>5 DEF OriginInv

(* Every step keeps the three invariants.                                  *)
LEMMA ForgetStep == ForgetInv /\ [Next]_vars => ForgetInv'
<1> SUFFICES ASSUME ForgetInv, [Next]_vars PROVE ForgetInv'
  OBVIOUS
<1>0. FreshInv /\ OriginInv /\ OnceInv /\ FreshInv'
  BY FreshStep DEF ForgetInv
<1>1. ASSUME NEW p \in Party, SendPrekey(p) PROVE ForgetInv'
  BY <1>0, <1>1, SendPrekeyOnce DEF ForgetInv
<1>2. ASSUME NEW p \in Party, SendWhisper(p) PROVE ForgetInv'
  BY <1>0, <1>2, SendWhisperOnce DEF ForgetInv
<1>3. ASSUME NEW p \in Party, Forget(p) PROVE ForgetInv'
  <2>1. /\ session' = [session EXCEPT ![p] = NoSession]
        /\ UNCHANGED <<fresh, sent, net, opened, reopened, restarted>>
    BY <1>3 DEF Forget, history
  <2>2. OnceInv'
    BY <1>0, <2>1, QuietStores
  <2>3. OriginInv'
    BY <1>0, <2>1, QuietOrigin DEF FreshInv
  <2> QED
    BY <1>0, <2>2, <2>3 DEF ForgetInv
<1>4. ASSUME NEW p \in Party, NEW m \in net[p], Open(p, m) PROVE ForgetInv'
  BY <1>0, <1>4, OpenOnce DEF ForgetInv
<1>5. ASSUME NEW p \in Party, NEW m \in net[p], Refuse(p, m) \/ Lose(p, m) PROVE ForgetInv'
  <2>1. /\ \A q \in Party : net'[q] \subseteq net[q]
        /\ UNCHANGED <<session, fresh, sent, opened, reopened, restarted>>
    BY <1>0, <1>5 DEF Refuse, Lose, history, FreshInv
  <2>2. OnceInv'
    BY <1>0, <2>1 DEF OnceInv, OpenedOnce, UsedKeys
  <2>3. OriginInv'
    BY <1>0, <2>1, QuietOrigin
  <2> QED
    BY <1>0, <2>2, <2>3 DEF ForgetInv
<1>6. CASE UNCHANGED vars
  <2>1. UNCHANGED <<session, fresh, sent, net, opened, reopened, restarted>>
    BY <1>6 DEF vars, history
  <2>2. OnceInv'
    BY <1>0, <2>1 DEF OnceInv, OpenedOnce, UsedKeys
  <2>3. OriginInv'
    BY <1>0, <2>1, QuietOrigin
  <2> QED
    BY <1>0, <2>2, <2>3 DEF ForgetInv
<1> QED
  BY <1>1, <1>2, <1>3, <1>4, <1>5, <1>6 DEF Next

(* A message delivered again is not decrypted again, unless a repeated     *)
(* prekey message restarted the session.  ratchet_decrypt.                 *)
THEOREM WhispersOpenOnce == Spec => []OpenedOnce
<1>1. ForgetInv => OpenedOnce
  BY DEF ForgetInv, OnceInv
<1> QED
  BY ForgetInit, ForgetStep, <1>1, PTL DEF Spec

(* The key of a message that was read is gone from the session, unless a   *)
(* repeated prekey message restarted it.  ratchet_decrypt,                 *)
(* _skip_message_keys.                                                     *)
THEOREM ReadKeysAreForgotten == Spec => []KeysAreForgotten
<1>1. ForgetInv => KeysAreForgotten
  <2> SUFFICES ASSUME ForgetInv, NEW p \in Party, session[p] # NoSession,
                      NEW k \in ToSet(session[p].skipped), NEW m \in opened[p],
                      k.key = m.key, RootOf(m.key[1]) \notin restarted
               PROVE  FALSE
    BY DEF KeysAreForgotten
  <2>1. Used(session[p], UsedKeys(p, RootOf(session[p].rk)))
    BY DEF ForgetInv, OnceInv
  <2>2. m.key \in KeysOf(session[p].skipped)
    BY DEF ToSet, KeysOf
  <2>3. RootOf(m.key[1]) = RootOf(session[p].rk)
    BY <2>1, <2>2 DEF Used, Passed, RootOf
  <2>4. m.key \in UsedKeys(p, RootOf(session[p].rk))
    BY <2>3 DEF UsedKeys
  <2> QED
    BY <2>1, <2>2, <2>4 DEF Used
<1> QED
  BY ForgetInit, ForgetStep, <1>1, PTL DEF Spec

-----------------------------------------------------------------------------
(***************************************************************************)
(* What a decryption does to a session: one of three forms.  The key was   *)
(* kept and is taken; or the receiving chain goes on to the message; or it *)
(* turns to the next chain.  On the way keys are passed over, and each is  *)
(* in the store afterwards or among those evicted.                         *)
(***************************************************************************)
(* r are the last MaxSkip entries of ks, or all of them.                   *)
IsNewest(r, ks) ==
  /\ r \in Seq(Entry) /\ Len(r) <= MaxSkip /\ Len(r) <= Len(ks)
  /\ Len(r) = Len(ks) \/ Len(r) = MaxSkip
  /\ \A i \in 1 .. Len(r) : r[i] = ks[i + (Len(ks) - Len(r))]

(* Which entries a full store keeps.                                       *)
LEMMA NewestIsNewest ==
  ASSUME NEW ks \in Seq(Entry)
  PROVE  IsNewest(Newest(ks), ks)
<1> DEFINE from == Len(ks) - MaxSkip + 1
           cut == SubSeq(ks, from, Len(ks))
<1>1. Len(ks) \in Nat /\ MaxSkip \in Nat /\ MaxSkip >= 1 /\ DOMAIN ks = 1 .. Len(ks)
  BY RatchetAssumption
<1>2. CASE Len(ks) <= MaxSkip
  <2>1. Newest(ks) = ks
    BY <1>2 DEF Newest
  <2>2. \A i \in 1 .. Len(ks) : i + (Len(ks) - Len(ks)) = i
    BY <1>1
  <2> QED
    BY <1>1, <1>2, <2>1, <2>2 DEF IsNewest
<1>3. CASE ~(Len(ks) <= MaxSkip)
  <2>1. Newest(ks) = cut
    BY <1>3 DEF Newest
  <2>2. from \in Int /\ from >= 1 /\ from <= Len(ks) /\ Len(ks) - from + 1 = MaxSkip
    BY <1>1, <1>3
  <2>3. \A i \in from .. Len(ks) : ks[i] \in Entry
    BY <1>1, <2>2
  <2>4. cut \in Seq(Entry) /\ Len(cut) = MaxSkip
        /\ \A i \in 1 .. MaxSkip : cut[i] = ks[from + i - 1]
    <3> HIDE DEF from
    <3>1. /\ SubSeq(ks, from, Len(ks)) \in Seq(Entry)
          /\ Len(SubSeq(ks, from, Len(ks))) = IF from <= Len(ks) THEN Len(ks) - from + 1 ELSE 0
          /\ \A i \in 1 .. Len(ks) - from + 1 : SubSeq(ks, from, Len(ks))[i] = ks[from + i - 1]
      BY <1>1, <2>2, <2>3, SubSeqProperties
    <3> QED
      BY <2>2, <3>1
  <2> HIDE DEF cut
  <2>5. \A i \in 1 .. MaxSkip : from + i - 1 = i + (Len(ks) - MaxSkip)
    BY <1>1
  <2> QED
    BY <1>1, <1>3, <2>1, <2>4, <2>5 DEF IsNewest
<1> QED
  BY <1>2, <1>3

(* The newest of the newest and of what follows them.                      *)
LEMMA NewestJoin ==
  ASSUME NEW a \in Seq(Entry), NEW b \in Seq(Entry), NEW r, NEW z,
         IsNewest(r, a), IsNewest(z, r \o b)
  PROVE  IsNewest(z, a \o b)
<1> DEFINE c == r \o b
           d == a \o b
<1>1. /\ r \in Seq(Entry) /\ z \in Seq(Entry) /\ MaxSkip \in Nat
      /\ Len(a) \in Nat /\ Len(b) \in Nat /\ Len(r) \in Nat /\ Len(z) \in Nat
  BY RatchetAssumption DEF IsNewest
<1>2. /\ Len(c) = Len(r) + Len(b)
      /\ \A i \in 1 .. Len(r) + Len(b) : c[i] = IF i <= Len(r) THEN r[i] ELSE b[i - Len(r)]
  BY <1>1, ConcatProperties
<1>3. /\ Len(d) = Len(a) + Len(b)
      /\ \A i \in 1 .. Len(a) + Len(b) : d[i] = IF i <= Len(a) THEN a[i] ELSE b[i - Len(a)]
  BY <1>1, ConcatProperties
<1>4. /\ Len(z) <= MaxSkip /\ Len(z) <= Len(c) /\ (Len(z) = Len(c) \/ Len(z) = MaxSkip)
      /\ \A i \in 1 .. Len(z) : z[i] = c[i + (Len(c) - Len(z))]
  BY DEF IsNewest
<1>5. /\ Len(r) <= MaxSkip /\ Len(r) <= Len(a) /\ (Len(r) = Len(a) \/ Len(r) = MaxSkip)
      /\ \A i \in 1 .. Len(r) : r[i] = a[i + (Len(a) - Len(r))]
  BY DEF IsNewest
<1> HIDE DEF c, d
<1>6. Len(z) <= Len(d) /\ (Len(z) = Len(d) \/ Len(z) = MaxSkip)
  BY <1>1, <1>2, <1>3, <1>4, <1>5
<1>7. ASSUME NEW i \in 1 .. Len(z) PROVE z[i] = d[i + (Len(d) - Len(z))]
  <2>1. PICK j : j = i + (Len(c) - Len(z))
    OBVIOUS
  <2>2. j \in 1 .. Len(r) + Len(b) /\ z[i] = c[j]
    BY <1>1, <1>2, <1>4, <2>1
  <2>3. PICK k : k = i + (Len(d) - Len(z))
    OBVIOUS
  <2>4. k \in 1 .. Len(a) + Len(b) /\ k = j + (Len(a) - Len(r)) /\ k - Len(a) = j - Len(r)
    BY <1>1, <1>2, <1>3, <1>5, <2>1, <2>2, <2>3
  <2>5. CASE j <= Len(r)
    <3>1. c[j] = r[j] /\ r[j] = a[k] /\ k <= Len(a)
      BY <1>1, <1>2, <1>5, <2>2, <2>4, <2>5
    <3> QED
      BY <1>3, <2>2, <2>3, <2>4, <3>1
  <2>6. CASE ~(j <= Len(r))
    <3>1. c[j] = b[j - Len(r)] /\ ~(k <= Len(a))
      BY <1>1, <1>2, <2>2, <2>4, <2>6
    <3> QED
      BY <1>3, <2>2, <2>3, <2>4, <3>1
  <2> QED
    BY <2>5, <2>6
<1> QED
  BY <1>1, <1>4, <1>6, <1>7 DEF IsNewest, d

(* What a store keeps was there, and what was there is kept or was too old.*)
LEMMA NewestHolds ==
  ASSUME NEW ks \in Seq(Entry), NEW r, IsNewest(r, ks)
  PROVE  /\ \A i \in DOMAIN r : \E j \in DOMAIN ks : r[i] = ks[j]
         /\ \A j \in DOMAIN ks : \/ j \in 1 .. Len(ks) - MaxSkip
                                 \/ \E i \in DOMAIN r : r[i] = ks[j]
<1>1. /\ r \in Seq(Entry) /\ Len(r) <= MaxSkip /\ Len(r) <= Len(ks)
      /\ Len(r) = Len(ks) \/ Len(r) = MaxSkip
      /\ \A i \in 1 .. Len(r) : r[i] = ks[i + (Len(ks) - Len(r))]
  BY DEF IsNewest
<1>2. /\ Len(r) \in Nat /\ Len(ks) \in Nat /\ MaxSkip \in Nat
      /\ DOMAIN r = 1 .. Len(r) /\ DOMAIN ks = 1 .. Len(ks)
  BY <1>1, RatchetAssumption
<1>3. PICK n \in Nat, l \in Nat : n = Len(ks) /\ l = Len(r)
  BY <1>2
<1>4. l <= MaxSkip /\ l <= n /\ (l = n \/ l = MaxSkip) /\ MaxSkip \in Nat
  BY <1>1, <1>2, <1>3
<1>5. ASSUME NEW i \in DOMAIN r PROVE \E j \in DOMAIN ks : r[i] = ks[j]
  <2>1. i \in 1 .. l
    BY <1>2, <1>3
  <2>2. i + (n - l) \in 1 .. n
    BY <1>4, <2>1
  <2>3. PICK j \in 1 .. n : j = i + (n - l)
    BY <2>2
  <2>4. r[i] = ks[j]
    BY <1>1, <1>3, <2>1, <2>3
  <2> QED
    BY <1>2, <1>3, <2>4
<1>6. ASSUME NEW j \in DOMAIN ks, j \notin 1 .. Len(ks) - MaxSkip
      PROVE  \E i \in DOMAIN r : r[i] = ks[j]
  <2>0. j \in 1 .. n /\ j \notin 1 .. n - MaxSkip
    BY <1>2, <1>3, <1>6
  <2>1. j \in 1 .. n /\ j > n - MaxSkip
    BY <1>4, <2>0
  <2>2. j - (n - l) \in 1 .. l /\ (j - (n - l)) + (n - l) = j
    BY <1>4, <2>1
  <2>3. PICK i \in 1 .. l : i + (n - l) = j
    BY <2>2
  <2>4. r[i] = ks[j]
    BY <1>1, <1>3, <2>3
  <2> QED
    BY <1>2, <1>3, <2>4
<1> QED
  BY <1>5, <1>6

(* The entries made for the keys passed over.                              *)
LEMMA SkippedEntries ==
  ASSUME NEW s, Shape(s), NEW until \in Nat
  PROVE  LET ks == SkippedKeys(s, until) IN
         /\ ks \in Seq(Entry)
         /\ s.ckr = None \/ s.nr >= until => Len(ks) = 0
         /\ \A i \in DOMAIN ks :
              /\ s.ckr # None /\ ks[i].dh = s.dhr /\ ks[i].n = ks[i].key[2]
              /\ ks[i].key[1] = s.ckr
         /\ \A n \in Nat : s.ckr # None /\ s.nr <= n /\ n < until =>
              \E i \in DOMAIN ks : ks[i].key = <<s.ckr, n>>
<1>1. PICK ks : ks = SkippedKeys(s, until)
  OBVIOUS
<1>2. s.nr \in Nat /\ s.ckr \in Chain /\ s.dhr \in KeyPair \union {None}
  BY DEF Shape
<1>3. CASE s.ckr = None
  BY <1>1, <1>3 DEF SkippedKeys
<1>4. CASE s.ckr # None
  <2>1. PICK num : num = until - s.nr
    OBVIOUS
  <2>2. num \in Int
    BY <1>2, <2>1
  <2>3. ks = [i \in 1 .. num |->
                [dh |-> s.dhr, n |-> s.nr + i - 1, key |-> <<s.ckr, s.nr + i - 1>>]]
    BY <1>1, <1>4, <2>1 DEF SkippedKeys
  <2>4. ASSUME NEW i \in 1 .. num
        PROVE  /\ ks[i].dh = s.dhr /\ ks[i].n = s.nr + i - 1 /\ s.nr + i - 1 \in Nat
               /\ ks[i].key = <<s.ckr, s.nr + i - 1>> /\ ks[i] \in Entry
    <3>1. s.nr + i - 1 \in Nat
      BY <1>2, <2>2
    <3>2. PICK n \in Nat : n = s.nr + i - 1
      BY <3>1
    <3>3. ks[i] = [dh |-> s.dhr, n |-> n, key |-> <<s.ckr, n>>]
      BY <2>3, <3>2
    <3>4. ks[i] \in Entry
      BY <1>2, <3>3 DEF Entry, Key
    <3> QED
      BY <3>2, <3>3, <3>4
  <2>5. DOMAIN ks = 1 .. num
    BY <2>3
  <2>6. CASE num >= 0
    <3>1. ks \in Seq(Entry) /\ Len(ks) = num
      BY <2>2, <2>3, <2>4, <2>6
    <3>2. s.nr >= until => Len(ks) = 0
      BY <1>2, <2>1, <2>6, <3>1
    <3>3. ASSUME NEW n \in Nat, s.nr <= n, n < until
          PROVE  \E i \in DOMAIN ks : ks[i].key = <<s.ckr, n>>
      <4>1. PICK i : i = n - s.nr + 1
        OBVIOUS
      <4>2. i \in 1 .. num /\ s.nr + i - 1 = n
        BY <1>2, <2>1, <3>3, <4>1
      <4> QED
        BY <2>4, <2>5, <4>2
    <3>4. \A i \in DOMAIN ks : /\ ks[i].dh = s.dhr /\ ks[i].n = ks[i].key[2]
                              /\ ks[i].key[1] = s.ckr
      BY <2>4, <2>5
    <3> QED
      BY <1>1, <1>4, <3>1, <3>2, <3>3, <3>4
  <2>7. CASE ~(num >= 0)
    <3>1. 1 .. num = {}
      BY <2>2, <2>7
    <3>2. ks = << >>
      BY <2>3, <3>1
    <3>3. s.nr >= until
      BY <1>2, <2>1, <2>2, <2>7
    <3>4. ks \in Seq(Entry) /\ Len(ks) = 0 /\ DOMAIN ks = {}
      BY <2>5, <3>1, <3>2
    <3> QED
      BY <1>1, <1>2, <3>3, <3>4
  <2> QED
    BY <2>2, <2>6, <2>7
<1> QED
  BY <1>3, <1>4

(* An empty tail changes nothing.                                          *)
LEMMA NothingJoined ==
  ASSUME NEW a \in Seq(Entry), Len(a) <= MaxSkip, NEW b \in Seq(Entry), Len(b) = 0
  PROVE  IsNewest(a, a \o b) /\ a \o b = a
<1>1. b = << >>
  OBVIOUS
<1>2. a \o << >> = a
  BY ConcatEmptySeq
<1>3. Len(a) \in Nat
  OBVIOUS
<1>4. \A i \in 1 .. Len(a) : i + (Len(a) - Len(a)) = i
  BY <1>3
<1>5. IsNewest(a, a)
  BY <1>3, <1>4 DEF IsNewest
<1> QED
  BY <1>1, <1>2, <1>5

(* Everything but what passing over keys changes.                          *)
SameLine(t, s) ==
  /\ t.rk = s.rk /\ t.dhs = s.dhs /\ t.dhr = s.dhr /\ t.cks = s.cks /\ t.ckr = s.ckr
  /\ t.ns = s.ns /\ t.pn = s.pn

(* What passing over keys makes of a session.                              *)
LEMMA SkipForm ==
  ASSUME NEW s, Used(s, {}), Len(s.skipped) <= MaxSkip, NEW until \in Nat
  PROVE  LET t == SkipTo(s, until) IN
         /\ Used(t, {}) /\ SameLine(t, s)
         /\ t.nr = IF s.nr >= until \/ s.ckr = None THEN s.nr ELSE until
         /\ IsNewest(t.skipped, s.skipped \o SkippedKeys(s, until))
<1>1. PICK t : t = SkipTo(s, until)
  OBVIOUS
<1>2. PICK ks : ks = SkippedKeys(s, until)
  OBVIOUS
<1>3. ks \in Seq(Entry) /\ (s.ckr = None \/ s.nr >= until => Len(ks) = 0)
  BY <1>2, SkippedEntries DEF Used
<1>4. s.skipped \in Seq(Entry) /\ IsSession(s) /\ s.nr \in Nat
  BY DEF Used, Shape, IsStore
<1>5. PICK K : K = {}
  OBVIOUS
<1>8. Used(t, K)
  BY <1>1, <1>5, SkipUsed
<1>6. CASE s.nr >= until \/ s.ckr = None
  <2>1. t = s
    BY <1>1, <1>6 DEF SkipTo
  <2>2. IsNewest(s.skipped, s.skipped \o ks)
    BY <1>3, <1>4, <1>6, NothingJoined
  <2> QED
    BY <1>1, <1>2, <1>5, <1>6, <1>8, <2>1, <2>2 DEF SameLine
<1>7. CASE ~(s.nr >= until \/ s.ckr = None)
  <2>1. PICK both : both = s.skipped \o ks
    OBVIOUS
  <2>2. both \in Seq(Entry)
    BY <1>3, <1>4, <2>1
  <2>3. t = [s EXCEPT !.skipped = Newest(both), !.nr = until]
    BY <1>1, <1>2, <1>7, <2>1 DEF SkipTo
  <2>4. SameLine(t, s) /\ t.nr = until /\ t.skipped = Newest(both)
    BY <1>4, <2>3 DEF IsSession, SameLine
  <2>5. IsNewest(Newest(both), both)
    BY <2>2, NewestIsNewest
  <2> QED
    BY <1>1, <1>2, <1>5, <1>7, <1>8, <2>1, <2>4, <2>5
<1> QED
  BY <1>6, <1>7

(* The entries of two stores put together.                                 *)
LEMMA ConcatHolds ==
  ASSUME NEW a \in Seq(Entry), NEW b \in Seq(Entry)
  PROVE  a \o b \in Seq(Entry) /\ ToSet(a \o b) = ToSet(a) \union ToSet(b)
<1> DEFINE c == a \o b
<1>1. /\ c \in Seq(Entry) /\ Len(c) = Len(a) + Len(b)
      /\ \A i \in 1 .. Len(a) + Len(b) : c[i] = IF i <= Len(a) THEN a[i] ELSE b[i - Len(a)]
  BY ConcatProperties
<1> HIDE DEF c
<1>2. PICK x \in Nat, y \in Nat : x = Len(a) /\ y = Len(b)
  OBVIOUS
<1>3. DOMAIN a = 1 .. x /\ DOMAIN b = 1 .. y /\ DOMAIN c = 1 .. x + y
  BY <1>1, <1>2
<1>4. \A i \in 1 .. x + y : c[i] = IF i <= x THEN a[i] ELSE b[i - x]
  BY <1>1, <1>2
<1>5. ASSUME NEW i \in 1 .. x + y PROVE c[i] \in ToSet(a) \union ToSet(b)
  <2>1. CASE i <= x
    <3>1. i \in DOMAIN a /\ c[i] = a[i]
      BY <1>2, <1>3, <1>4, <2>1
    <3> QED
      BY <3>1 DEF ToSet
  <2>2. CASE ~(i <= x)
    <3>1. PICK j : j = i - x
      OBVIOUS
    <3>2. j \in DOMAIN b /\ c[i] = b[j]
      BY <1>2, <1>3, <1>4, <2>2, <3>1
    <3> QED
      BY <3>2 DEF ToSet
  <2> QED
    BY <2>1, <2>2
<1>6. ASSUME NEW i \in 1 .. x PROVE a[i] \in ToSet(c)
  <2>1. i \in 1 .. x + y /\ i <= x
    BY <1>2
  <2>2. c[i] = a[i]
    BY <1>4, <2>1
  <2> QED
    BY <1>3, <2>1, <2>2 DEF ToSet
<1>7. ASSUME NEW i \in 1 .. y PROVE b[i] \in ToSet(c)
  <2>1. PICK j : j = i + x
    OBVIOUS
  <2>2. j \in 1 .. x + y /\ ~(j <= x) /\ j - x = i
    BY <1>2, <2>1
  <2>3. c[j] = b[i]
    BY <1>4, <2>2
  <2> QED
    BY <1>3, <2>2, <2>3 DEF ToSet
<1> QED
  BY <1>1, <1>3, <1>5, <1>6, <1>7 DEF c, ToSet

(* A key that there was no room for is one of those that were evicted.     *)
LEMMA StoreHolds ==
  ASSUME NEW ks \in Seq(Entry), NEW r, IsNewest(r, ks), NEW gone,
         gone = {ks[i].key : i \in 1 .. (Len(ks) - MaxSkip)}
  PROVE  /\ ToSet(r) \subseteq ToSet(ks)
         /\ \A e \in ToSet(ks) : e.key \in gone \/ e \in ToSet(r)
         /\ Len(r) <= MaxSkip
<1>1. /\ \A i \in DOMAIN r : \E j \in DOMAIN ks : r[i] = ks[j]
      /\ \A j \in DOMAIN ks : \/ j \in 1 .. Len(ks) - MaxSkip
                              \/ \E i \in DOMAIN r : r[i] = ks[j]
  BY NewestHolds
<1>2. ToSet(r) \subseteq ToSet(ks)
  BY <1>1 DEF ToSet
<1>3. ASSUME NEW e \in ToSet(ks) PROVE e.key \in gone \/ e \in ToSet(r)
  <2>1. PICK j \in DOMAIN ks : e = ks[j]
    BY DEF ToSet
  <2>2. j \in 1 .. Len(ks) - MaxSkip => e.key \in gone
    BY <2>1
  <2>3. (\E i \in DOMAIN r : r[i] = ks[j]) => e \in ToSet(r)
    BY <2>1 DEF ToSet
  <2> QED
    BY <1>1, <2>2, <2>3
<1> QED
  BY <1>2, <1>3 DEF IsNewest

(* The keys are those of the entries.                                      *)
LEMMA KeysHeld ==
  ASSUME NEW ks
  PROVE  KeysOf(ks) = {e.key : e \in ToSet(ks)}
  BY DEF KeysOf, ToSet

(* A header with the key of its message.                                   *)
IsWhole(m) ==
  /\ m.dh \in KeyPair /\ m.n \in Nat /\ m.pn \in Nat
  /\ m.key \in Key /\ m.key[1] # << >> /\ m.n = m.key[2]

IsPassed(e, c, dh) == e.key[1] = c /\ e.dh = dh /\ e.n = e.key[2]

(* What decrypting m makes of s: the key was kept, ...                     *)
TookKept(t, s, m) ==
  /\ SameLine(t, s) /\ t.nr = s.nr /\ m.key \in KeysOf(s.skipped)
  /\ ToSet(t.skipped) \subseteq ToSet(s.skipped)
  /\ \A k \in KeysOf(s.skipped) : k = m.key \/ k \in KeysOf(t.skipped)

(* ... or it is further on the chain, ...                                  *)
WentOn(t, s, m, gone) ==
  /\ SameLine(t, s) /\ s.dhr = m.dh /\ s.ckr = m.key[1]
  /\ s.nr <= m.n /\ t.nr = m.n + 1
  /\ \A e \in ToSet(t.skipped) : e \in ToSet(s.skipped) \/ IsPassed(e, s.ckr, s.dhr)
  /\ KeysOf(s.skipped) \subseteq KeysOf(t.skipped) \union gone
  /\ \A n \in Nat : s.nr <= n /\ n < m.n => <<s.ckr, n>> \in KeysOf(t.skipped) \union gone

(* ... or on the next one.                                                 *)
TurnedOn(t, s, m, new, gone) ==
  /\ m.key[1] = Append(s.rk, {s.dhs, m.dh}) /\ t.rk = Append(m.key[1], {new, m.dh})
  /\ t.cks = t.rk /\ t.ckr = m.key[1] /\ t.dhs = new /\ t.dhr = m.dh
  /\ t.ns = 0 /\ t.nr = m.n + 1 /\ t.pn = s.ns
  /\ \A e \in ToSet(t.skipped) :
       \/ e \in ToSet(s.skipped) \/ IsPassed(e, m.key[1], m.dh)
       \/ s.ckr # None /\ IsPassed(e, s.ckr, s.dhr)
  /\ KeysOf(s.skipped) \subseteq KeysOf(t.skipped) \union gone
  /\ \A n \in Nat : s.ckr # None /\ s.nr <= n /\ n < m.pn =>
                      <<s.ckr, n>> \in KeysOf(t.skipped) \union gone
  /\ \A n \in Nat : n < m.n => <<m.key[1], n>> \in KeysOf(t.skipped) \union gone

(* A key taken from the store: the others stay.                            *)
LEMMA RemoveHolds ==
  ASSUME NEW ks, IsStore(ks), NEW i \in DOMAIN ks
  PROVE  LET r == RemoveAt(ks, i) IN
         /\ r \in Seq(Entry) /\ Len(r) <= Len(ks) /\ ToSet(r) \subseteq ToSet(ks)
         /\ \A e \in ToSet(ks) : e = ks[i] \/ e \in ToSet(r)
<1> DEFINE a == SubSeq(ks, 1, i - 1)
           b == SubSeq(ks, i + 1, Len(ks))
<1>1. /\ ks \in Seq(Entry) /\ Len(ks) \in Nat /\ DOMAIN ks = 1 .. Len(ks) /\ i \in 1 .. Len(ks)
  BY DEF IsStore
<1>3. /\ a \in Seq(Entry) /\ Len(a) = i - 1
      /\ \A j \in 1 .. i - 1 : a[j] = ks[j]
  BY <1>1, CutAt
<1>4. /\ b \in Seq(Entry) /\ Len(b) = Len(ks) - i
      /\ \A j \in 1 .. Len(ks) - i : b[j] = ks[i + j]
  BY <1>1, CutAt
<1>5. PICK r : r = RemoveAt(ks, i)
  OBVIOUS
<1>6. r = a \o b
  BY <1>5 DEF RemoveAt
<1> HIDE DEF a, b
<1>7. r \in Seq(Entry) /\ ToSet(r) = ToSet(a) \union ToSet(b) /\ Len(r) = Len(a) + Len(b)
  BY <1>3, <1>4, <1>6, ConcatHolds, ConcatProperties
<1>8. PICK n \in Nat : n = Len(ks)
  BY <1>1
<1>9. DOMAIN ks = 1 .. n /\ DOMAIN a = 1 .. i - 1 /\ DOMAIN b = 1 .. n - i /\ i \in 1 .. n
  BY <1>1, <1>3, <1>4, <1>8
<1>10. \A j \in 1 .. n - i : b[j] = ks[i + j]
  BY <1>4, <1>8
<1>11. ToSet(a) \subseteq ToSet(ks)
  <2>1. ASSUME NEW j \in 1 .. i - 1 PROVE a[j] \in ToSet(ks)
    <3>1. j \in 1 .. n /\ a[j] = ks[j]
      BY <1>3, <1>9
    <3> QED
      BY <1>9, <3>1 DEF ToSet
  <2> QED
    BY <1>9, <2>1 DEF ToSet
<1>12. ToSet(b) \subseteq ToSet(ks)
  <2>1. ASSUME NEW j \in 1 .. n - i PROVE b[j] \in ToSet(ks)
    <3>1. PICK k \in 1 .. n : k = i + j
      BY <1>9
    <3> QED
      BY <1>9, <1>10, <3>1 DEF ToSet
  <2> QED
    BY <1>9, <2>1 DEF ToSet
<1>13. ASSUME NEW e \in ToSet(ks) PROVE e = ks[i] \/ e \in ToSet(r)
  <2>1. PICK j \in 1 .. n : e = ks[j]
    BY <1>9 DEF ToSet
  <2>2. CASE j < i
    <3>1. j \in 1 .. i - 1
      BY <1>9, <2>2
    <3> QED
      BY <1>3, <1>7, <1>9, <2>1, <3>1 DEF ToSet
  <2>3. CASE j > i
    <3>1. PICK k \in 1 .. n - i : i + k = j
      <4>1. j - i \in 1 .. n - i /\ i + (j - i) = j
        BY <1>9, <2>3
      <4> QED
        BY <4>1
    <3>2. b[k] = e
      BY <1>10, <2>1, <3>1
    <3> QED
      BY <1>7, <1>9, <3>2 DEF ToSet
  <2> QED
    BY <1>9, <2>1, <2>2, <2>3
<1>14. Len(r) <= Len(ks)
  BY <1>3, <1>4, <1>7, <1>8, <1>9
<1> QED
  BY <1>5, <1>7, <1>11, <1>12, <1>13, <1>14

(* The three ways to decrypt.                                              *)
LEMMA DecryptForms ==
  ASSUME NEW s, Used(s, {}), Len(s.skipped) <= MaxSkip, NEW new \in KeyPair,
         NEW m, IsWhole(m), CanDecrypt(s, m, new), NEW t, t = Decrypted(s, m, new),
         NEW gone, gone = Evicted(s, m, new)
  PROVE  /\ Len(t.skipped) <= MaxSkip
         /\ \/ KeptAt(s, m) # {} /\ ~Turns(s, m) /\ TookKept(t, s, m)
            \/ KeptAt(s, m) = {} /\ ~Turns(s, m) /\ WentOn(t, s, m, gone)
            \/ KeptAt(s, m) = {} /\ Turns(s, m) /\ TurnedOn(t, s, m, new, gone)
<1>1. KeyFor(s, m, new) = m.key
  BY DEF CanDecrypt
<1>2. /\ Shape(s) /\ IsSession(s) /\ s.skipped \in Seq(Entry) /\ IsStore(s.skipped)
      /\ s.nr \in Nat /\ s.rk \in Chain /\ s.dhs \in KeyPair /\ Len(s.skipped) \in Nat
  BY DEF Used, Shape, IsStore
<1>3. CASE KeptAt(s, m) # {}
  <2>1. PICK i : i = (CHOOSE j \in KeptAt(s, m) : TRUE) /\ i \in KeptAt(s, m)
    BY <1>3
  <2>2. i \in DOMAIN s.skipped /\ s.skipped[i].key = m.key
    BY <1>1, <1>3, <2>1 DEF KeyFor, KeptAt
  <2>3. PICK r : r = RemoveAt(s.skipped, i)
    OBVIOUS
  <2>4. t = [s EXCEPT !.skipped = r]
    BY <1>3, <2>1, <2>3 DEF Decrypted
  <2>5. SameLine(t, s) /\ t.nr = s.nr /\ t.skipped = r
    BY <1>2, <2>4 DEF IsSession, SameLine
  <2>6. /\ r \in Seq(Entry) /\ Len(r) <= Len(s.skipped) /\ ToSet(r) \subseteq ToSet(s.skipped)
        /\ \A e \in ToSet(s.skipped) : e = s.skipped[i] \/ e \in ToSet(r)
    BY <1>2, <2>2, <2>3, RemoveHolds
  <2>7. m.key \in KeysOf(s.skipped)
    BY <2>2 DEF KeysOf
  <2>8. ASSUME NEW k \in KeysOf(s.skipped) PROVE k = m.key \/ k \in KeysOf(r)
    <3>1. PICK e \in ToSet(s.skipped) : e.key = k
      BY KeysHeld
    <3>2. e \in ToSet(r) => k \in KeysOf(r)
      BY <3>1, KeysHeld
    <3> QED
      BY <2>2, <2>6, <3>1, <3>2
  <2>9. TookKept(t, s, m)
    BY <2>5, <2>6, <2>7, <2>8 DEF TookKept
  <2>10. Len(t.skipped) <= MaxSkip
    BY <1>2, <2>5, <2>6, RatchetAssumption
  <2> QED
    BY <1>3, <2>9, <2>10 DEF Turns
<1>4. CASE KeptAt(s, m) = {} /\ ~Turns(s, m)
  <2>1. PICK ks : ks = SkippedKeys(s, m.n)
    OBVIOUS
  <2>2. PICK a : a = SkipTo(s, m.n)
    OBVIOUS
  <2>3. m.n \in Nat /\ s.dhr = m.dh /\ Turned(s, m, new) = s
    BY <1>4 DEF IsWhole, Turns, Turned
  <2>4. a = Advanced(s, m, new) /\ t = [a EXCEPT !.nr = a.nr + 1]
    BY <1>4, <2>2, <2>3 DEF Advanced, Decrypted
  <2>5. /\ Used(a, {}) /\ SameLine(a, s)
        /\ a.nr = IF s.nr >= m.n \/ s.ckr = None THEN s.nr ELSE m.n
        /\ IsNewest(a.skipped, s.skipped \o ks)
    BY <2>1, <2>2, <2>3, SkipForm
  <2>6. SameLine(t, a) /\ t.nr = a.nr + 1 /\ t.skipped = a.skipped
    <3>1. IsSession(a)
      BY <2>5 DEF Used, Shape
    <3> QED
      BY <2>4, <3>1 DEF IsSession, SameLine
  <2>7. m.key = <<a.ckr, a.nr>>
    BY <1>1, <1>4, <2>4 DEF KeyFor
  <2>8. s.ckr = m.key[1] /\ s.ckr # None /\ a.nr = m.n
    BY <2>5, <2>7 DEF IsWhole, SameLine, None
  <2>9. s.nr <= m.n
    BY <1>2, <2>3, <2>5, <2>8
  <2>10. PICK all : all = s.skipped \o ks
    OBVIOUS
  <2>11. /\ ks \in Seq(Entry)
         /\ \A i \in DOMAIN ks : IsPassed(ks[i], s.ckr, s.dhr)
         /\ \A n \in Nat : s.nr <= n /\ n < m.n => \E i \in DOMAIN ks : ks[i].key = <<s.ckr, n>>
    BY <1>2, <2>1, <2>3, <2>8, SkippedEntries DEF IsPassed
  <2>12. all \in Seq(Entry) /\ ToSet(all) = ToSet(s.skipped) \union ToSet(ks)
    BY <1>2, <2>10, <2>11, ConcatHolds
  <2>13. gone = {all[i].key : i \in 1 .. (Len(all) - MaxSkip)}
    <3>1. s.skipped \o << >> = s.skipped
      BY <1>2, ConcatEmptySeq
    <3> QED
      BY <1>4, <2>1, <2>3, <2>10, <3>1 DEF Evicted
  <2>14. /\ ToSet(t.skipped) \subseteq ToSet(all)
         /\ \A e \in ToSet(all) : e.key \in gone \/ e \in ToSet(t.skipped)
         /\ Len(t.skipped) <= MaxSkip
    BY <2>5, <2>6, <2>10, <2>12, <2>13, StoreHolds
  <2>15. \A e \in ToSet(t.skipped) : e \in ToSet(s.skipped) \/ IsPassed(e, s.ckr, s.dhr)
    BY <2>11, <2>12, <2>14 DEF ToSet
  <2>16. \A e \in ToSet(all) : e.key \in KeysOf(t.skipped) \union gone
    BY <2>14, KeysHeld
  <2>17. KeysOf(s.skipped) \subseteq KeysOf(t.skipped) \union gone
    BY <2>12, <2>16, KeysHeld
  <2>18. ASSUME NEW n \in Nat, s.nr <= n, n < m.n
         PROVE  <<s.ckr, n>> \in KeysOf(t.skipped) \union gone
    <3>1. PICK i \in DOMAIN ks : ks[i].key = <<s.ckr, n>>
      BY <2>11, <2>18
    <3>2. ks[i] \in ToSet(all)
      BY <2>12 DEF ToSet
    <3> QED
      BY <2>16, <3>1, <3>2
  <2>19. SameLine(t, s)
    BY <2>5, <2>6 DEF SameLine
  <2>20. WentOn(t, s, m, gone)
    BY <2>3, <2>6, <2>8, <2>9, <2>15, <2>17, <2>18, <2>19 DEF WentOn
  <2> QED
    BY <1>4, <2>14, <2>20
<1>5. CASE KeptAt(s, m) = {} /\ Turns(s, m)
  <2> DEFINE receiving == Append(s.rk, {s.dhs, m.dh})
             root == Append(receiving, {new, m.dh})
  <2>1. PICK v : v = SkipTo(s, m.pn)
    OBVIOUS
  <2>2. PICK tail : tail = SkippedKeys(s, m.pn)
    OBVIOUS
  <2>3. PICK u : u = Ratchet(v, m.dh, new)
    OBVIOUS
  <2>4. PICK ks : ks = SkippedKeys(u, m.n)
    OBVIOUS
  <2>5. PICK a : a = SkipTo(u, m.n)
    OBVIOUS
  <2>6. m.n \in Nat /\ m.pn \in Nat /\ m.dh \in KeyPair /\ Turned(s, m, new) = u
    BY <1>5, <2>1, <2>3 DEF IsWhole, Turned
  <2>7. a = Advanced(s, m, new) /\ t = [a EXCEPT !.nr = a.nr + 1]
    BY <1>5, <2>5, <2>6 DEF Advanced, Decrypted
  <2>8. /\ Used(v, {}) /\ SameLine(v, s)
        /\ IsNewest(v.skipped, s.skipped \o tail)
    BY <2>1, <2>2, <2>6, SkipForm
  <2>9. Used(u, {})
    <3>1. PICK K : K = {}
      OBVIOUS
    <3>2. Used(u, K)
      BY <2>3, <2>6, <2>8, <3>1, RatchetUsed
    <3> QED
      BY <3>1, <3>2
  <2>10. /\ u.rk = root /\ u.dhs = new /\ u.dhr = m.dh /\ u.cks = root /\ u.ckr = receiving
         /\ u.ns = 0 /\ u.nr = 0 /\ u.pn = s.ns /\ u.skipped = v.skipped
    BY <2>3, <2>8 DEF Ratchet, SameLine
  <2> HIDE DEF receiving, root
  <2>11. /\ Used(a, {}) /\ SameLine(a, u)
         /\ IsNewest(a.skipped, u.skipped \o ks)
    <3>1. Len(u.skipped) <= MaxSkip
      BY <2>8, <2>10 DEF IsNewest
    <3> QED
      BY <2>4, <2>5, <2>6, <2>9, <3>1, SkipForm
  <2>12. SameLine(t, a) /\ t.nr = a.nr + 1 /\ t.skipped = a.skipped
    <3>1. IsSession(a)
      BY <2>11 DEF Used, Shape
    <3> QED
      BY <2>7, <3>1 DEF IsSession, SameLine
  <2>13. m.key = <<a.ckr, a.nr>>
    BY <1>1, <1>5, <2>7 DEF KeyFor
  <2>14. m.key[1] = receiving /\ a.nr = m.n
    BY <2>10, <2>11, <2>13 DEF IsWhole, SameLine
  <2>15. PICK old : old = s.skipped \o tail
    OBVIOUS
  <2>16. PICK all : all = old \o ks
    OBVIOUS
  <2>17. /\ tail \in Seq(Entry)
         /\ \A i \in DOMAIN tail : s.ckr # None /\ IsPassed(tail[i], s.ckr, s.dhr)
         /\ \A n \in Nat : s.ckr # None /\ s.nr <= n /\ n < m.pn =>
              \E i \in DOMAIN tail : tail[i].key = <<s.ckr, n>>
    BY <1>2, <2>2, <2>6, SkippedEntries DEF IsPassed
  <2>18. /\ ks \in Seq(Entry)
         /\ \A i \in DOMAIN ks : IsPassed(ks[i], m.key[1], m.dh)
         /\ \A n \in Nat : n < m.n => \E i \in DOMAIN ks : ks[i].key = <<m.key[1], n>>
    <3>1. Shape(u) /\ u.ckr = m.key[1] /\ u.dhr = m.dh /\ u.nr = 0 /\ u.ckr # None
      BY <2>9, <2>10, <2>14 DEF Used, IsWhole, None
    <3>2. /\ ks \in Seq(Entry)
          /\ \A i \in DOMAIN ks :
               /\ ks[i].dh = u.dhr /\ ks[i].n = ks[i].key[2]
               /\ ks[i].key[1] = u.ckr
          /\ \A n \in Nat : u.ckr # None /\ u.nr <= n /\ n < m.n =>
               \E i \in DOMAIN ks : ks[i].key = <<u.ckr, n>>
      BY <2>4, <2>6, <3>1, SkippedEntries
    <3>3. \A n \in Nat : u.nr <= n
      BY <3>1
    <3> QED
      BY <3>1, <3>2, <3>3 DEF IsPassed
  <2>19. old \in Seq(Entry) /\ ToSet(old) = ToSet(s.skipped) \union ToSet(tail)
    BY <1>2, <2>15, <2>17, ConcatHolds
  <2>20. all \in Seq(Entry) /\ ToSet(all) = ToSet(old) \union ToSet(ks)
    BY <2>16, <2>18, <2>19, ConcatHolds
  <2>21. gone = {all[i].key : i \in 1 .. (Len(all) - MaxSkip)}
    BY <1>5, <2>2, <2>4, <2>6, <2>15, <2>16 DEF Evicted
  <2>22. IsNewest(t.skipped, all)
    <3>1. PICK r : r = v.skipped
      OBVIOUS
    <3>2. PICK z : z = a.skipped
      OBVIOUS
    <3>3. IsNewest(r, old) /\ IsNewest(z, r \o ks)
      BY <2>8, <2>10, <2>11, <2>15, <3>1, <3>2
    <3>4. IsNewest(z, old \o ks)
      BY <2>18, <2>19, <3>3, NewestJoin
    <3> QED
      BY <2>12, <2>16, <3>2, <3>4
  <2>23. /\ ToSet(t.skipped) \subseteq ToSet(all)
         /\ \A e \in ToSet(all) : e.key \in gone \/ e \in ToSet(t.skipped)
         /\ Len(t.skipped) <= MaxSkip
    BY <2>20, <2>21, <2>22, StoreHolds
  <2>24. ASSUME NEW e \in ToSet(t.skipped)
         PROVE  \/ e \in ToSet(s.skipped) \/ IsPassed(e, m.key[1], m.dh)
                \/ s.ckr # None /\ IsPassed(e, s.ckr, s.dhr)
    <3>1. e \in ToSet(s.skipped) \/ e \in ToSet(tail) \/ e \in ToSet(ks)
      BY <2>19, <2>20, <2>23
    <3> QED
      BY <2>17, <2>18, <3>1 DEF ToSet
  <2>25. \A e \in ToSet(all) : e.key \in KeysOf(t.skipped) \union gone
    BY <2>23, KeysHeld
  <2>26. KeysOf(s.skipped) \subseteq KeysOf(t.skipped) \union gone
    BY <2>19, <2>20, <2>25, KeysHeld
  <2>27. ASSUME NEW n \in Nat, s.ckr # None, s.nr <= n, n < m.pn
         PROVE  <<s.ckr, n>> \in KeysOf(t.skipped) \union gone
    <3>1. PICK i \in DOMAIN tail : tail[i].key = <<s.ckr, n>>
      BY <2>17, <2>27
    <3>2. tail[i] \in ToSet(all)
      BY <2>19, <2>20 DEF ToSet
    <3> QED
      BY <2>25, <3>1, <3>2
  <2>28. ASSUME NEW n \in Nat, n < m.n
         PROVE  <<m.key[1], n>> \in KeysOf(t.skipped) \union gone
    <3>1. PICK i \in DOMAIN ks : ks[i].key = <<m.key[1], n>>
      BY <2>18, <2>28
    <3>2. ks[i] \in ToSet(all)
      BY <2>20 DEF ToSet
    <3> QED
      BY <2>25, <3>1, <3>2
  <2>29. /\ t.rk = root /\ t.cks = t.rk /\ t.ckr = m.key[1] /\ t.dhs = new /\ t.dhr = m.dh
         /\ t.ns = 0 /\ t.nr = m.n + 1 /\ t.pn = s.ns
    BY <2>10, <2>11, <2>12, <2>14 DEF SameLine
  <2>30. TurnedOn(t, s, m, new, gone)
    BY <2>14, <2>24, <2>26, <2>27, <2>28, <2>29 DEF TurnedOn, receiving, root
  <2> QED
    BY <1>5, <2>23, <2>30
<1> QED
  BY <1>3, <1>4, <1>5

-----------------------------------------------------------------------------
(***************************************************************************)
(* The counters of a session stay within what its two sides have sent.     *)
(***************************************************************************)
(* How far the counters of a session are, and that its store is no fuller  *)
(* than MAX_SKIP.                                                          *)
Fits(p, s) ==
  /\ s.cks = s.rk /\ s.dhr \in KeyPair
  /\ s.ns <= Cardinality(SentBy(p)) /\ s.pn <= Cardinality(SentBy(p))
  /\ s.nr <= Quota[Peer(p)] /\ Len(s.skipped) <= MaxSkip

IsCounted(m) ==
  /\ m.from \in Party /\ m.id \in Nat /\ m.id < Cardinality(SentBy(m.from))
  /\ m.n = m.key[2] /\ m.n < Quota[m.from] /\ m.pn <= Quota[m.from]

TypeInv ==
  /\ IsFiniteSet(sent)
  /\ \A m \in sent : IsCounted(m)
  /\ \A p \in Party : /\ Cardinality(SentBy(p)) <= Quota[p]
                      /\ net[p] \subseteq SentBy(Peer(p))
                      /\ session[p] # NoSession => Fits(p, session[p])

(* Initially nobody has sent anything.                                     *)
LEMMA TypeInit == Init => TypeInv
<1> SUFFICES ASSUME Init PROVE TypeInv
  OBVIOUS
<1>1. /\ sent = {} /\ \A p \in Party : net[p] = {} /\ session[p] = NoSession
  BY DEF Init
<1>2. \A p \in Party : SentBy(p) = {}
  BY <1>1 DEF SentBy
<1>3. IsFiniteSet({}) /\ Cardinality({}) = 0
  BY FS_EmptySet
<1>4. \A p \in Party : Quota[p] \in Nat
  BY RatchetAssumption
<1> QED
  BY <1>1, <1>2, <1>3, <1>4 DEF TypeInv

(* What p has sent can be counted.                                         *)
LEMMA SentCount == ASSUME TypeInv, NEW p \in Party PROVE Cardinality(SentBy(p)) \in Nat
<1>1. SentBy(p) \subseteq sent /\ IsFiniteSet(sent)
  BY DEF SentBy, TypeInv
<1> QED
  BY <1>1, FS_Subset, FS_CardinalityType

(* One more message is counted once.                                       *)
LEMMA OneMore ==
  ASSUME IsFiniteSet(sent), NEW p \in Party, NEW m, m.from = p,
         \A n \in SentBy(p) : n.id < Cardinality(SentBy(p)),
         m.id = Cardinality(SentBy(p)), sent' = sent \union {m}
  PROVE  /\ IsFiniteSet(sent') /\ SentBy(p)' = SentBy(p) \union {m}
         /\ \A q \in Party :
              /\ Cardinality(SentBy(q)) \in Nat
              /\ Cardinality(SentBy(q))' = Cardinality(SentBy(q)) + (IF q = p THEN 1 ELSE 0)
         /\ \A q \in Party : q # p => SentBy(q)' = SentBy(q)
<1>1. IsFiniteSet(sent')
  BY FS_AddElement
<1>2. ASSUME NEW q \in Party PROVE IsFiniteSet(SentBy(q)) /\ Cardinality(SentBy(q)) \in Nat
  <2>1. SentBy(q) \subseteq sent
    BY DEF SentBy
  <2> QED
    BY <2>1, FS_Subset, FS_CardinalityType
<1>4. m \notin SentBy(p)
  BY <1>2
<1>5. SentBy(p)' = SentBy(p) \union {m}
  BY DEF SentBy
<1>6. \A q \in Party : q # p => SentBy(q)' = SentBy(q)
  BY DEF SentBy
<1>7. Cardinality(SentBy(p) \union {m}) = Cardinality(SentBy(p)) + 1
  BY <1>2, <1>4, FS_AddElement
<1>8. ASSUME NEW q \in Party
      PROVE  Cardinality(SentBy(q))' = Cardinality(SentBy(q)) + (IF q = p THEN 1 ELSE 0)
  <2>1. CASE q # p
    BY <1>2, <1>6, <2>1
  <2>2. CASE q = p
    <3>1. Cardinality(SentBy(p))' = Cardinality(SentBy(p)) + 1
      BY <1>5, <1>7
    <3>2. SentBy(q)' = SentBy(p)' /\ SentBy(q) = SentBy(p)
      BY <2>2 DEF SentBy
    <3>3. Cardinality(SentBy(q))' = Cardinality(SentBy(q)) + 1
      BY <3>1, <3>2
    <3> QED
      BY <2>2, <3>3
  <2> QED
    BY <2>1, <2>2
<1> QED
  BY <1>1, <1>2, <1>5, <1>6, <1>8

(* A message sent on s.                                                    *)
LEMMA TransmitFits ==
  ASSUME FreshInv, TypeInv, NEW p \in Party, NEW s, NEW kind, NEW base,
         Transmit(p, s, kind, base), Shape(s), Fits(p, s)
  PROVE  TypeInv'
<1>1. PICK m : /\ m = Encrypted(s, p, Cardinality(SentBy(p)), kind, base)
               /\ session' = [session EXCEPT ![p] = [s EXCEPT !.ns = s.ns + 1]]
               /\ sent' = sent \union {m}
               /\ net' = [net EXCEPT ![Peer(p)] = net[Peer(p)] \union {m}]
               /\ Cardinality(SentBy(p)) < Quota[p]
  BY DEF Transmit
<1>2. /\ m.from = p /\ m.id = Cardinality(SentBy(p)) /\ m.n = s.ns /\ m.pn = s.pn
      /\ m.key[2] = s.ns
  BY <1>1 DEF Encrypted
<1>3. \A n \in SentBy(p) : n.id < Cardinality(SentBy(p))
  BY DEF TypeInv, IsCounted, SentBy
<1>4. IsFiniteSet(sent)
  BY DEF TypeInv
<1>5. /\ IsFiniteSet(sent') /\ SentBy(p)' = SentBy(p) \union {m}
      /\ \A q \in Party :
           /\ Cardinality(SentBy(q)) \in Nat
           /\ Cardinality(SentBy(q))' = Cardinality(SentBy(q)) + (IF q = p THEN 1 ELSE 0)
      /\ \A q \in Party : q # p => SentBy(q)' = SentBy(q)
  BY <1>1, <1>2, <1>3, <1>4, OneMore
<1>6. \A q \in Party : Quota[q] \in Nat
  BY RatchetAssumption
<1>7. /\ s.ns \in Nat /\ s.pn \in Nat /\ IsSession(s)
      /\ s.ns <= Cardinality(SentBy(p)) /\ s.pn <= Cardinality(SentBy(p))
  BY DEF Shape, Fits
<1>0. /\ Cardinality(SentBy(p)) \in Nat
      /\ Cardinality(SentBy(p))' = Cardinality(SentBy(p)) + 1
  <2>1. Cardinality(SentBy(p))' = Cardinality(SentBy(p)) + (IF p = p THEN 1 ELSE 0)
    BY <1>5
  <2> QED
    BY <1>5, <2>1
<1>8. ASSUME NEW n \in sent' PROVE IsCounted(n)'
  <2>1. CASE n = m
    <3>1. n.from = p /\ n.id < Cardinality(SentBy(p))'
      BY <1>0, <1>2, <2>1
    <3>2. n.id < Cardinality(SentBy(n.from))'
      BY <3>1 DEF SentBy
    <3> QED
      BY <1>1, <1>2, <1>5, <1>6, <1>7, <2>1, <3>2 DEF IsCounted
  <2>2. CASE n \in sent
    <3>1. IsCounted(n)
      BY <2>2 DEF TypeInv
    <3>2. PICK q \in Party : q = n.from
      BY <3>1 DEF IsCounted
    <3>3. n.id < Cardinality(SentBy(n.from))'
      <4>1. n.id \in Nat /\ n.id < Cardinality(SentBy(q))
        BY <3>1, <3>2 DEF IsCounted
      <4>3. n.id < Cardinality(SentBy(q))'
        BY <1>5, <4>1
      <4> QED
        BY <3>2, <4>3 DEF SentBy
    <3> QED
      BY <3>1, <3>3 DEF IsCounted
  <2> QED
    BY <1>1, <2>1, <2>2
<1>9. PICK t : t = [s EXCEPT !.ns = s.ns + 1]
  OBVIOUS
<1>10. /\ t.rk = s.rk /\ t.cks = s.cks /\ t.dhr = s.dhr /\ t.ns = s.ns + 1
       /\ t.pn = s.pn /\ t.nr = s.nr /\ t.skipped = s.skipped
  BY <1>7, <1>9 DEF IsSession
<1>11. Fits(p, t)'
  BY <1>0, <1>7, <1>10 DEF Fits
<1>12. /\ session'[p] = t /\ \A q \in Party : q # p => session'[q] = session[q]
       /\ \A q \in Party : net'[q] \subseteq net[q] \union (IF q = Peer(p) THEN {m} ELSE {})
  BY <1>1, <1>9 DEF FreshInv
<1>13. ASSUME NEW q \in Party
       PROVE  /\ Cardinality(SentBy(q))' <= Quota[q]
              /\ session'[q] # NoSession => Fits(q, session[q])'
  <2>1. CASE q = p
    <3>1. Cardinality(SentBy(q)) < Quota[q]
      BY <1>1, <2>1
    <3>2. Cardinality(SentBy(q))' <= Quota[q]
      BY <1>5, <1>6, <2>1, <3>1
    <3>3. Fits(q, t)'
      BY <1>11, <2>1 DEF Fits, SentBy
    <3> QED
      BY <1>12, <2>1, <3>2, <3>3
  <2>2. CASE q # p
    BY <1>5, <1>12, <2>2 DEF TypeInv, Fits
  <2> QED
    BY <2>1, <2>2
<1>14. ASSUME NEW q \in Party PROVE net'[q] \subseteq SentBy(Peer(q))'
  <2>1. net[q] \subseteq SentBy(Peer(q))'
    BY <1>5, PeerIsParty DEF TypeInv
  <2>2. q = Peer(p) => Peer(q) = p
    BY PeerOfPeer
  <2> QED
    BY <1>5, <1>12, <2>1, <2>2
<1> QED
  BY <1>5, <1>8, <1>13, <1>14 DEF TypeInv

(* A step that sends nothing and stores t.                                 *)
LEMMA StoreFits ==
  ASSUME FreshInv, TypeInv, NEW p \in Party, NEW t, UNCHANGED sent,
         session' = [session EXCEPT ![p] = t], \A q \in Party : net'[q] \subseteq net[q],
         t # NoSession => Fits(p, t)
  PROVE  TypeInv'
<1>1. /\ session'[p] = t /\ \A q \in Party : q # p => session'[q] = session[q]
  BY DEF FreshInv
<1>2. \A q \in Party : SentBy(q)' = SentBy(q)
  BY DEF SentBy
<1>3. ASSUME NEW m \in sent' PROVE IsCounted(m)'
  BY <1>2 DEF TypeInv, IsCounted
<1>4. ASSUME NEW q \in Party
      PROVE  /\ Cardinality(SentBy(q))' <= Quota[q]
             /\ net'[q] \subseteq SentBy(Peer(q))'
             /\ session'[q] # NoSession => Fits(q, session[q])'
  <2>1. CASE q = p
    BY <1>1, <1>2, <2>1, PeerIsParty DEF TypeInv, Fits
  <2>2. CASE q # p
    BY <1>1, <1>2, <2>2, PeerIsParty DEF TypeInv, Fits
  <2> QED
    BY <2>1, <2>2
<1> QED
  BY <1>3, <1>4 DEF TypeInv

(* The session a first message is sent on.                                 *)
LEMMA InitiatorForm ==
  ASSUME NEW p \in Party, fresh[p] \in Nat
  PROVE  LET s == Initiator(p)
             one == NewKey(p, 1)
             two == NewKey(p, 2)
             theirs == Prekey(Peer(p))
         IN /\ one = <<p, fresh[p] + 1>> /\ two = <<p, fresh[p] + 2>>
            /\ one \in KeyPair /\ two \in KeyPair /\ theirs \in KeyPair
            /\ Used(s, {}) /\ s.rk = <<{one, theirs}, {two, theirs}>> /\ s.cks = s.rk
            /\ s.dhs = two /\ s.dhr = theirs /\ s.ckr = << >>
            /\ s.ns = 0 /\ s.nr = 0 /\ s.pn = 0 /\ s.skipped = << >>
<1> DEFINE one == NewKey(p, 1)
           two == NewKey(p, 2)
           theirs == Prekey(Peer(p))
           key == <<{one, theirs}, {two, theirs}>>
<1>1. PICK s : s = Initiator(p)
  OBVIOUS
<1>2. /\ one = <<p, fresh[p] + 1>> /\ two = <<p, fresh[p] + 2>>
      /\ one \in KeyPair /\ two \in KeyPair /\ theirs \in KeyPair
  BY PeerIsParty DEF NewKey, Prekey, KeyPair
<1>3. s = [rk |-> key, dhs |-> two, dhr |-> theirs, cks |-> key, ckr |-> None,
           ns |-> 0, nr |-> 0, pn |-> 0, skipped |-> << >>]
  BY <1>1 DEF Initiator
<1>4. key \in Chain /\ key # << >> /\ Len(key) \in Nat
  <2>1. {one, theirs} \in SUBSET KeyPair /\ {two, theirs} \in SUBSET KeyPair
    BY <1>2
  <2> QED
    BY <2>1 DEF Chain
<1> HIDE DEF key
<1>5. /\ IsSession(s) /\ s.rk = key /\ s.dhs = two /\ s.dhr = theirs /\ s.cks = key
      /\ s.ckr = << >> /\ s.ns = 0 /\ s.nr = 0 /\ s.pn = 0 /\ s.skipped = << >>
  BY <1>3 DEF IsSession, None
<1>6. << >> \in Chain /\ Len(<< >>) = 0
  BY DEF Chain
<1>7. << >> \in Seq(Entry) /\ DOMAIN << >> = {}
  OBVIOUS
<1>8. IsStore(s.skipped) /\ KeysOf(s.skipped) = {}
  BY <1>5, <1>7 DEF IsStore, Distinct, KeysOf
<1>9. Shape(s)
  BY <1>2, <1>4, <1>5, <1>6, <1>8 DEF Shape
<1>10. Used(s, {})
  BY <1>8, <1>9 DEF Used
<1> QED
  BY <1>1, <1>2, <1>5, <1>10 DEF key

(* The session a first message is read with.                               *)
LEMMA ResponderForm ==
  ASSUME NEW p \in Party, NEW m, m.base \in KeyPair, m.dh \in KeyPair
  PROVE  LET s == Responder(p, m.base)
         IN /\ Used(s, {}) /\ Turns(s, m) /\ s.rk = <<{m.base, Prekey(p)}>>
            /\ s.dhs = Prekey(p) /\ s.ckr = << >>
            /\ s.ns = 0 /\ s.nr = 0 /\ s.pn = 0 /\ s.skipped = << >>
<1>1. PICK s : s = Responder(p, m.base)
  OBVIOUS
<1>2. /\ s.rk = <<{m.base, Prekey(p)}>> /\ s.dhs = Prekey(p) /\ s.ckr = << >>
      /\ s.ns = 0 /\ s.nr = 0 /\ s.pn = 0 /\ s.skipped = << >>
  BY <1>1 DEF Responder, None
<1> QED
  BY <1>1, <1>2, ResponderUsed, ResponderTurns

(* What a message that is decrypted is, and what becomes of the session.   *)
Opens(p, m, s, new, t, gone) ==
  /\ m \in sent /\ m.from = Peer(p) /\ IsMessage(m) /\ IsWhole(m) /\ IsCounted(m)
  /\ new = NewKey(p, 1) /\ new \in KeyPair /\ new[1] = p /\ new[2] = fresh[p] + 1
  /\ Used(s, {}) /\ Len(s.skipped) <= MaxSkip /\ CanDecrypt(s, m, new)
  /\ m.kind = "prekey" => s = Responder(p, m.base) /\ Turns(s, m)
  /\ m.kind = "whisper" => session[p] # NoSession /\ s = session[p]
  /\ session' = [session EXCEPT ![p] = t] /\ UNCHANGED sent
  /\ session'[p] = t /\ \A q \in Party : q # p => session'[q] = session[q]
  /\ \A q \in Party : net'[q] \subseteq net[q]
  /\ fresh' = [fresh EXCEPT ![p] = IF Turns(s, m) THEN fresh[p] + 1 ELSE fresh[p]]
  /\ Len(t.skipped) <= MaxSkip
  /\ \/ KeptAt(s, m) # {} /\ ~Turns(s, m) /\ TookKept(t, s, m)
     \/ KeptAt(s, m) = {} /\ ~Turns(s, m) /\ WentOn(t, s, m, gone)
     \/ KeptAt(s, m) = {} /\ Turns(s, m) /\ TurnedOn(t, s, m, new, gone)
  /\ evicted' = evicted \union gone
  /\ opened' = [opened EXCEPT ![p] = opened[p] \union {m}]
  /\ severed' = IF m.kind = "prekey" /\ m \in opened[p] /\ HasSentOn(p, m.key[1])
                THEN severed \union {RootOf(m.key[1])} ELSE severed

(* Every message sent has a whole header.                                  *)
LEMMA MessageWhole ==
  ASSUME FreshInv, OriginInv, TypeInv, NEW m \in sent
  PROVE  IsMessage(m) /\ IsWhole(m) /\ IsCounted(m)
<1>1. IsMessage(m) /\ IsCounted(m) /\ m.n \in Nat /\ m.pn \in Nat
  BY DEF FreshInv, TypeInv, OriginInv
<1>2. m.key[1] \in Chain /\ m.key[2] \in Nat /\ m.key = <<m.key[1], m.key[2]>>
  BY <1>1 DEF IsMessage, Grown
<1>3. m.key \in Key
  BY <1>2 DEF Key
<1> QED
  BY <1>1, <1>3 DEF IsMessage, Grown, IsCounted, IsWhole

(* A message that is opened is read in one of the three forms.             *)
LEMMA OpenForm ==
  ASSUME ForgetInv, TypeInv, NEW p \in Party, NEW m \in net[p], Open(p, m)
  PROVE  \E s, new, t, gone : Opens(p, m, s, new, t, gone)
<1>0. FreshInv /\ OriginInv /\ OnceInv
  BY DEF ForgetInv
<1>1. m \in sent /\ m.from = Peer(p)
  BY DEF TypeInv, SentBy
<1>2. IsMessage(m) /\ IsWhole(m) /\ IsCounted(m) /\ fresh \in [Party -> Nat]
  BY <1>0, <1>1, MessageWhole DEF FreshInv
<1>3. PICK s : s = SessionFor(p, m)
  OBVIOUS
<1>4. PICK new : new = NewKey(p, 1)
  OBVIOUS
<1>5. new \in KeyPair /\ new[1] = p /\ new[2] = fresh[p] + 1
  BY <1>2, <1>4 DEF NewKey, KeyPair
<1>6. PICK t : t = Decrypted(s, m, new)
  OBVIOUS
<1>7. PICK gone : gone = Evicted(s, m, new)
  OBVIOUS
<1>8. /\ session' = [session EXCEPT ![p] = t] /\ UNCHANGED sent
      /\ fresh' = [fresh EXCEPT ![p] = IF Turns(s, m) THEN fresh[p] + 1 ELSE fresh[p]]
      /\ CanDecrypt(s, m, new)
  BY <1>3, <1>4, <1>6 DEF Open, Readable
<1>9. /\ evicted' = evicted \union gone
      /\ opened' = [opened EXCEPT ![p] = opened[p] \union {m}]
      /\ severed' = IF m.kind = "prekey" /\ m \in opened[p] /\ HasSentOn(p, m.key[1])
                    THEN severed \union {RootOf(m.key[1])} ELSE severed
  BY <1>3, <1>4, <1>7 DEF Open, Record
<1>10. m.kind = "prekey" =>
         /\ s = Responder(p, m.base) /\ Turns(s, m)
         /\ Used(s, {}) /\ s.skipped = << >>
  BY <1>2, <1>3, ResponderForm DEF SessionFor, IsMessage, IsWhole
<1>11. m.kind = "whisper" => /\ session[p] # NoSession /\ s = session[p]
                             /\ Used(s, {}) /\ Len(s.skipped) <= MaxSkip
  <2> SUFFICES ASSUME m.kind = "whisper"
               PROVE  /\ session[p] # NoSession /\ s = session[p]
                      /\ Used(s, {}) /\ Len(s.skipped) <= MaxSkip
    OBVIOUS
  <2>1. s = session[p]
    BY <1>3 DEF SessionFor
  <2>2. session[p] # NoSession
    BY DEF Open, Readable
  <2>3. PICK K : K = UsedKeys(p, RootOf(s.rk))
    OBVIOUS
  <2>4. Used(s, K)
    BY <1>0, <2>1, <2>2, <2>3 DEF OnceInv
  <2>5. Used(s, {})
    BY <2>4 DEF Used
  <2> QED
    BY <2>1, <2>2, <2>5 DEF TypeInv, Fits
<1>12. Used(s, {}) /\ Len(s.skipped) <= MaxSkip
  <2>1. s.skipped = << >> => Len(s.skipped) <= MaxSkip
    BY RatchetAssumption
  <2> QED
    BY <1>2, <1>10, <1>11, <2>1 DEF IsMessage
<1>13. /\ Len(t.skipped) <= MaxSkip
       /\ \/ KeptAt(s, m) # {} /\ ~Turns(s, m) /\ TookKept(t, s, m)
          \/ KeptAt(s, m) = {} /\ ~Turns(s, m) /\ WentOn(t, s, m, gone)
          \/ KeptAt(s, m) = {} /\ Turns(s, m) /\ TurnedOn(t, s, m, new, gone)
  BY <1>2, <1>5, <1>6, <1>7, <1>8, <1>12, DecryptForms
<1>14. /\ session'[p] = t /\ \A q \in Party : q # p => session'[q] = session[q]
       /\ \A q \in Party : net'[q] \subseteq net[q]
  BY <1>0, <1>8 DEF FreshInv, Open, Acked
<1>15. Opens(p, m, s, new, t, gone)
  BY <1>1, <1>2, <1>4, <1>5, <1>8, <1>9, <1>10, <1>11, <1>12, <1>13, <1>14 DEF Opens
<1> QED
  BY <1>15

(* A message decrypted.                                                    *)
LEMMA OpenFits ==
  ASSUME ForgetInv, TypeInv, NEW p \in Party, NEW m, NEW s, NEW new, NEW t, NEW gone,
         Opens(p, m, s, new, t, gone)
  PROVE  TypeInv'
<1>1. m.n \in Nat /\ m.dh \in KeyPair /\ m.n + 1 <= Quota[Peer(p)]
  <2>1. Quota[Peer(p)] \in Nat /\ m.n \in Nat /\ m.dh \in KeyPair
    BY RatchetAssumption, PeerIsParty DEF Opens, IsWhole
  <2>2. m.n < Quota[Peer(p)]
    BY DEF Opens, IsCounted
  <2> QED
    BY <2>1, <2>2
<1>2. m.kind = "whisper" => Fits(p, s)
  BY DEF Opens, TypeInv
<1>3. Cardinality(SentBy(p)) \in Nat
  BY SentCount
<1>4. m.kind = "prekey" => s.ns = 0 /\ Turns(s, m)
  BY ResponderForm DEF Opens, IsMessage
<1>5. m.kind \in {"prekey", "whisper"} /\ Len(t.skipped) <= MaxSkip
  BY DEF Opens, IsMessage
<1>6. Fits(p, t)
  <2>1. CASE TookKept(t, s, m) /\ ~Turns(s, m)
    BY <1>2, <1>4, <1>5, <2>1 DEF TookKept, SameLine, Fits
  <2>2. CASE WentOn(t, s, m, gone) /\ ~Turns(s, m)
    BY <1>1, <1>2, <1>4, <1>5, <2>2 DEF WentOn, SameLine, Fits
  <2>3. CASE TurnedOn(t, s, m, new, gone)
    BY <1>1, <1>2, <1>3, <1>4, <1>5, <2>3 DEF TurnedOn, Fits
  <2> QED
    BY <2>1, <2>2, <2>3 DEF Opens
<1>7. FreshInv /\ UNCHANGED sent /\ session' = [session EXCEPT ![p] = t]
      /\ \A q \in Party : net'[q] \subseteq net[q]
  BY DEF ForgetInv, Opens
<1> QED
  BY <1>6, <1>7, StoreFits

(* Every step keeps the counters in their bounds.                          *)
LEMMA TypeStep == ForgetInv /\ TypeInv /\ [Next]_vars => TypeInv'
<1> SUFFICES ASSUME ForgetInv, TypeInv, [Next]_vars PROVE TypeInv'
  OBVIOUS
<1>0. FreshInv /\ OnceInv
  BY DEF ForgetInv
<1>1. ASSUME NEW p \in Party, SendPrekey(p) PROVE TypeInv'
  <2>1. fresh[p] \in Nat
    BY <1>0 DEF FreshInv
  <2>2. PICK s : s = Initiator(p)
    OBVIOUS
  <2>3. /\ Used(s, {}) /\ s.cks = s.rk /\ s.dhr \in KeyPair
        /\ s.ns = 0 /\ s.nr = 0 /\ s.pn = 0 /\ s.skipped = << >>
    BY <2>1, <2>2, InitiatorForm
  <2>4. Cardinality(SentBy(p)) \in Nat
    BY SentCount
  <2>5. Quota[Peer(p)] \in Nat /\ MaxSkip \in Nat
    BY RatchetAssumption, PeerIsParty
  <2>6. Fits(p, s) /\ Shape(s)
    BY <2>3, <2>4, <2>5 DEF Fits, Used
  <2>7. PICK base : base = NewKey(p, 1)
    OBVIOUS
  <2>8. Transmit(p, s, "prekey", base)
    BY <1>1, <2>2, <2>7 DEF SendPrekey
  <2> QED
    BY <1>0, <2>6, <2>8, TransmitFits
<1>2. ASSUME NEW p \in Party, SendWhisper(p) PROVE TypeInv'
  <2>1. PICK s : s = session[p]
    OBVIOUS
  <2>2. Transmit(p, s, "whisper", None) /\ s # NoSession
    BY <1>2, <2>1 DEF SendWhisper
  <2>3. Fits(p, s) /\ Shape(s)
    BY <1>0, <2>1, <2>2 DEF TypeInv, OnceInv, Used
  <2> QED
    BY <1>0, <2>2, <2>3, TransmitFits
<1>3. ASSUME NEW p \in Party, Forget(p) PROVE TypeInv'
  <2>1. /\ session' = [session EXCEPT ![p] = NoSession]
        /\ UNCHANGED <<sent, net>>
    BY <1>3 DEF Forget
  <2> QED
    BY <1>0, <2>1, StoreFits
<1>4. ASSUME NEW p \in Party, NEW m \in net[p], Open(p, m) PROVE TypeInv'
  BY <1>4, OpenForm, OpenFits
<1>5. ASSUME UNCHANGED <<session, sent>>, \A q \in Party : net'[q] \subseteq net[q]
      PROVE  TypeInv'
  BY <1>5, PeerIsParty DEF TypeInv, IsCounted, Fits, SentBy
<1>6. ASSUME NEW p \in Party, NEW m \in net[p], Refuse(p, m) \/ Lose(p, m) PROVE TypeInv'
  BY <1>0, <1>5, <1>6 DEF Refuse, Lose, FreshInv
<1>7. CASE UNCHANGED vars
  BY <1>5, <1>7 DEF vars
<1> QED
  BY <1>1, <1>2, <1>3, <1>4, <1>6, <1>7 DEF Next

(* The sessions are well formed, their counters stay within what was sent  *)
(* and their stores within MAX_SKIP.  ratchet_encrypt, ratchet_decrypt,    *)
(* _skip_message_keys.                                                     *)
THEOREM TypeCorrect == Spec => []TypeOK
<1>1. ForgetInv /\ TypeInv => TypeOK
  <2> SUFFICES ASSUME ForgetInv, TypeInv PROVE TypeOK
    OBVIOUS
  <2>1. \A p \in Party : Quota[p] \in Nat
    BY RatchetAssumption
  <2>2. ASSUME NEW p \in Party, session[p] # NoSession
        PROVE  LET s == session[p] IN
               /\ {s.rk, s.cks} \subseteq Chains \ {None} /\ s.ckr \in Chains
               /\ s.dhs \in Pairs /\ s.dhr \in Pairs
               /\ {s.ns, s.nr, s.pn} \subseteq 0 .. Quota[A] + Quota[B]
               /\ Len(s.skipped) <= MaxSkip
    <3>1. PICK s : s = session[p]
      OBVIOUS
    <3>2. Fits(p, s) /\ Shape(s)
      BY <2>2, <3>1 DEF ForgetInv, OnceInv, Used, TypeInv
    <3>3. Cardinality(SentBy(p)) <= Quota[p] /\ Cardinality(SentBy(p)) \in Nat
      BY SentCount DEF TypeInv
    <3>4. /\ Quota[p] \in Nat /\ Quota[Peer(p)] \in Nat /\ Quota[A] \in Nat /\ Quota[B] \in Nat
          /\ Quota[p] <= Quota[A] + Quota[B] /\ Quota[Peer(p)] <= Quota[A] + Quota[B]
      BY <2>1, PeerIsParty DEF Party
    <3>5. s.ns \in 0 .. Quota[A] + Quota[B] /\ s.pn \in 0 .. Quota[A] + Quota[B]
      BY <3>2, <3>3, <3>4 DEF Fits, Shape
    <3>6. s.nr \in 0 .. Quota[A] + Quota[B]
      BY <3>2, <3>4 DEF Fits, Shape
    <3>7. s.rk \in Chains \ {None} /\ s.cks = s.rk /\ s.ckr \in Chains
      BY <3>2 DEF Fits, Shape, Chains, Pairs, Chain, KeyPair, None
    <3> QED
      BY <3>1, <3>2, <3>5, <3>6, <3>7 DEF Fits, Shape, Pairs, KeyPair
  <2>3. \A p \in Party : net[p] \subseteq SentBy(Peer(p)) /\ opened[p] \subseteq sent
    BY DEF TypeInv, ForgetInv, OriginInv
  <2> QED
    BY <2>2, <2>3 DEF TypeOK
<1>2. Init => ForgetInv /\ TypeInv
  BY ForgetInit, TypeInit
<1>3. ForgetInv /\ TypeInv /\ [Next]_vars => ForgetInv' /\ TypeInv'
  BY ForgetStep, TypeStep
<1> QED
  BY <1>1, <1>2, <1>3, PTL DEF Spec

-----------------------------------------------------------------------------
(***************************************************************************)
(* Which messages can be read.  The two sessions of a handshake turn in    *)
(* step: one of them holds the chain that follows the other's (Linked), so *)
(* what a device has sent is on its sending chain, two results earlier, or *)
(* earlier still (OwnLine, PairLine), and what a session is to receive is  *)
(* behind it, and then was read, kept or evicted, or on its receiving      *)
(* chain, or on the next one (PeerLine).  A repeated first message breaks  *)
(* this where something was sent on the session it replaces: the roots in  *)
(* severed.  A first message that was not answered is the beginning of its *)
(* handshake for both (Unanswered, FirstLine).                             *)
(***************************************************************************)
SameRoot(c, d) == RootOf(c) = RootOf(d)

(* The next chain of whoever holds t, begun in answer to that of s.        *)
Follows(t, s) == t.rk = Append(s.rk, {t.dhs, s.dhs})

Linked(s, u) ==
  SameRoot(u.rk, s.rk) /\ RootOf(s.rk) \notin severed => Follows(s, u) \/ Follows(u, s)

(* A first message that its receiver has not answered.                     *)
Unanswered(m) ==
  /\ m.kind = "prekey"
  /\ \A n \in sent : n.from = Peer(m.from) => ~SameRoot(n.key[1], m.key[1])

MessageLine(m) ==
  /\ m.dh[1] = m.from /\ m.dh[2] >= 1 /\ Len(m.key[1]) >= 2
  /\ Origin(m.from, RootOf(m.key[1]))
  /\ m.kind = "prekey" =>
       /\ m.base[1] = m.from /\ m.n = 0 /\ m.pn = 0
       /\ m.key[1] = <<{m.base, Prekey(Peer(m.from))}, {m.dh, Prekey(Peer(m.from))}>>

(* Two messages of one sender.                                             *)
PairLine(m, n) ==
  /\ m.dh = n.dh <=> m.key[1] = n.key[1]
  /\ SameRoot(m.key[1], n.key[1]) /\ RootOf(m.key[1]) \notin severed =>
       /\ Len(m.key[1]) = Len(n.key[1]) => m.key[1] = n.key[1]
       /\ Len(n.key[1]) + 2 = Len(m.key[1]) => n.n < m.pn
  /\ Unanswered(m) /\ SameRoot(m.key[1], n.key[1]) => n.key[1] = m.key[1]

Behind(s, k) == Len(k[1]) < Len(s.ckr) \/ (k[1] = s.ckr /\ k[2] < s.nr)

(* Where a message can be, seen from the session of its receiver: behind,  *)
(* and then accounted for; ahead on the same chain; or on the next one.    *)
Reach(p, s, m) ==
  \/ /\ Behind(s, m.key)
     /\ m \in opened[p] \/ m.key \in evicted \/ m.key \in KeysOf(s.skipped)
  \/ m.key[1] = s.ckr /\ m.n >= s.nr
  \/ m.key[1] = Append(s.rk, {s.dhs, m.dh})

(* The receiving chain is one that the peer has sent on, and so are those  *)
(* of the keys kept.                                                       *)
FormLine(p, s) ==
  /\ Len(s.rk) >= 2 /\ s.dhs[2] >= 1
  /\ s.ckr = None => Len(s.rk) = 2 /\ s.dhr[2] = 0
  /\ s.ckr # None =>
       /\ s.rk = Append(s.ckr, {s.dhs, s.dhr})
       /\ \E m \in sent : m.from = Peer(p) /\ m.key = <<s.ckr, s.nr - 1>> /\ m.dh = s.dhr
  /\ \A e \in ToSet(s.skipped) :
       /\ e.n = e.key[2]
       /\ \E m \in sent : m.from = Peer(p) /\ m.key[1] = e.key[1] /\ m.dh = e.dh

(* What p has sent is on the sending chain of s or on an earlier one.      *)
OwnLine(p, s) ==
  /\ \A m \in sent : m.from = p => (m.dh = s.dhs <=> m.key[1] = s.rk)
  /\ RootOf(s.rk) \notin severed =>
       \A m \in sent : m.from = p /\ SameRoot(m.key[1], s.rk) =>
         /\ Len(m.key[1]) <= Len(s.rk)
         /\ Len(m.key[1]) = Len(s.rk) => m.key[1] = s.rk
         /\ Len(m.key[1]) + 2 = Len(s.rk) => m.n < s.pn

PeerLine(p, s) ==
  RootOf(s.rk) \notin severed =>
    \A m \in sent : m.from = Peer(p) /\ SameRoot(m.key[1], s.rk) => Reach(p, s, m)

FirstLine(p, s) ==
  \A m \in sent : m.from = p /\ Unanswered(m) /\ SameRoot(m.key[1], s.rk) => s.rk = m.key[1]

SessionLine(p, s) ==
  /\ FormLine(p, s) /\ OwnLine(p, s) /\ PeerLine(p, s) /\ FirstLine(p, s)
  /\ session[Peer(p)] # NoSession => Linked(s, session[Peer(p)])

LineInv ==
  /\ \A m \in sent : MessageLine(m)
  /\ \A m, n \in sent : m.from = n.from => PairLine(m, n)
  /\ \A p \in Party : session[p] # NoSession => SessionLine(p, session[p])

RatchetInv == ForgetInv /\ TypeInv /\ LineInv

(* Initially there is nothing to be in line.                               *)
LEMMA LineInit == Init => LineInv
  BY DEF Init, LineInv

(* Two longer chains are the same only if the shorter ones are.            *)
LEMMA AppendSame ==
  ASSUME NEW c \in Chain, NEW d \in Chain, NEW x, NEW y, Append(c, x) = Append(d, y)
  PROVE  c = d /\ x = y
<1>1. c \in Seq(SUBSET KeyPair) /\ d \in Seq(SUBSET KeyPair)
  BY DEF Chain
<1>2. Len(c) \in Nat /\ Len(d) \in Nat /\ DOMAIN c = 1 .. Len(c) /\ DOMAIN d = 1 .. Len(d)
  BY <1>1
<1>3. PICK a : a = Append(c, x) /\ a = Append(d, y)
  OBVIOUS
<1>4. /\ Len(a) = Len(c) + 1 /\ a[Len(c) + 1] = x /\ \A i \in 1 .. Len(c) : a[i] = c[i]
  BY <1>1, <1>3
<1>5. /\ Len(a) = Len(d) + 1 /\ a[Len(d) + 1] = y /\ \A i \in 1 .. Len(d) : a[i] = d[i]
  BY <1>1, <1>3
<1>6. Len(c) = Len(d)
  <2>1. PICK i \in Nat, j \in Nat : i = Len(c) /\ j = Len(d)
    BY <1>2
  <2>2. i + 1 = j + 1
    BY <1>4, <1>5, <2>1
  <2>3. i = j
    BY <2>2
  <2> QED
    BY <2>1, <2>3
<1>7. \A i \in 1 .. Len(c) : c[i] = d[i]
  BY <1>4, <1>5, <1>6
<1>8. c = d
  BY <1>1, <1>2, <1>6, <1>7
<1> QED
  BY <1>4, <1>5, <1>6, <1>8

(* A message goes on being what it is.                                     *)
LEMMA MessageStays ==
  ASSUME FreshInv, FreshInv', NEW m \in sent, MessageLine(m),
         \A q \in Party : fresh'[q] >= fresh[q] /\ opened[q] \subseteq opened'[q]
  PROVE  MessageLine(m)'
<1>0. fresh \in [Party -> Nat] /\ fresh' \in [Party -> Nat]
  BY DEF FreshInv
<1>1. m.dh \in KeyPair /\ m.dh[1] = m.from
  BY DEF MessageLine, FreshInv, IsMessage
<1>2. PICK q \in Party : q = m.from
  BY <1>1 DEF KeyPair
<1>3. PICK root : root = RootOf(m.key[1])
  OBVIOUS
<1>4. Origin(q, root)
  BY <1>2, <1>3 DEF MessageLine
<1>5. Origin(q, root)'
  BY <1>0, <1>4, OriginStays
<1>6. Origin(m.from, RootOf(m.key[1]))'
  BY <1>2, <1>3, <1>5 DEF Origin
<1> QED
  BY <1>6 DEF MessageLine

(* What a step leaves as it was when it sends nothing.                     *)
LEMMA MessagesStay ==
  ASSUME FreshInv, FreshInv', LineInv, UNCHANGED sent, severed \subseteq severed',
         \A q \in Party : fresh'[q] >= fresh[q] /\ opened[q] \subseteq opened'[q]
  PROVE  /\ \A m \in sent' : MessageLine(m)'
         /\ \A m, n \in sent' : m.from = n.from => PairLine(m, n)'
<1>1. \A m \in sent' : MessageLine(m)'
  BY MessageStays DEF LineInv
<1>2. ASSUME NEW m \in sent', NEW n \in sent', m.from = n.from PROVE PairLine(m, n)'
  <2>1. PairLine(m, n)
    BY <1>2 DEF LineInv
  <2>2. Unanswered(m)' => Unanswered(m)
    BY DEF Unanswered
  <2> QED
    BY <2>1, <2>2 DEF PairLine
<1> QED
  BY <1>1, <1>2

(* A step that neither sends nor reads.                                    *)
LEMMA QuietLine ==
  ASSUME FreshInv, LineInv, UNCHANGED <<fresh, sent, opened, evicted, severed>>,
         \A q \in Party : session'[q] = session[q] \/ session'[q] = NoSession, FreshInv'
  PROVE  LineInv'
<1>1. /\ \A m \in sent' : MessageLine(m)'
      /\ \A m, n \in sent' : m.from = n.from => PairLine(m, n)'
  <2>1. \A q \in Party : fresh'[q] >= fresh[q] /\ opened[q] \subseteq opened'[q]
    BY DEF FreshInv
  <2> QED
    BY <2>1, MessagesStay
<1>2. ASSUME NEW q \in Party, session'[q] # NoSession PROVE SessionLine(q, session[q])'
  <2>1. PICK s : s = session[q]
    OBVIOUS
  <2>2. session'[q] = s /\ SessionLine(q, s)
    BY <1>2, <2>1 DEF LineInv
  <2>3. FormLine(q, s)' /\ OwnLine(q, s)' /\ PeerLine(q, s)' /\ FirstLine(q, s)'
    <3>1. FormLine(q, s)'
      BY <2>2 DEF SessionLine, FormLine
    <3>2. OwnLine(q, s)'
      BY <2>2 DEF SessionLine, OwnLine
    <3>3. PeerLine(q, s)'
      BY <2>2 DEF SessionLine, PeerLine, Reach
    <3>4. FirstLine(q, s)'
      BY <2>2 DEF SessionLine, FirstLine, Unanswered
    <3> QED
      BY <3>1, <3>2, <3>3, <3>4
  <2>4. session'[Peer(q)] # NoSession => Linked(s, session[Peer(q)])'
    BY <2>2, PeerIsParty DEF SessionLine, Linked
  <2>5. SessionLine(q, s)'
    BY <2>3, <2>4 DEF SessionLine
  <2> QED
    BY <2>2, <2>5
<1> QED
  BY <1>1, <1>2 DEF LineInv

(* A party is p or its peer.                                               *)
LEMMA TwoParties ==
  ASSUME NEW p \in Party, NEW q \in Party
  PROVE  q = p \/ q = Peer(p)
  BY PeerIsParty DEF Party

(* The peer has read of a chain at most what was sent on it.               *)
LEMMA ReadSent ==
  ASSUME NEW p \in Party, NEW s, NEW u, Shape(s), Shape(u), FormLine(Peer(p), u),
         Len(s.rk) >= 2, Follows(u, s), FreshInv,
         \A n \in sent : n.key[1] = s.rk => n.key[2] < s.ns
  PROVE  u.ckr = s.rk /\ s.ns >= u.nr
<1>1. /\ s.rk \in Chain /\ u.rk \in Chain /\ u.ckr \in Chain /\ s.ns \in Nat /\ u.nr \in Nat
      /\ u.dhs \in KeyPair /\ s.dhs \in KeyPair
  BY DEF Shape
<1>2. u.rk = Append(s.rk, {u.dhs, s.dhs}) /\ {u.dhs, s.dhs} \in SUBSET KeyPair
  BY <1>1 DEF Follows
<1>3. u.ckr # None
  <2>1. s.rk # << >>
    <3>1. Len(<< >>) = 0
      OBVIOUS
    <3> QED
      BY <3>1
  <2>2. Len(u.rk) = Len(s.rk) + 1 /\ Len(s.rk) \in Nat
    BY <1>1, <1>2, <2>1, AppendGrows DEF Chain
  <2> QED
    BY <2>2 DEF FormLine
<1>4. /\ u.rk = Append(u.ckr, {u.dhs, u.dhr})
      /\ \E m \in sent : m.from = Peer(Peer(p)) /\ m.key = <<u.ckr, u.nr - 1>> /\ m.dh = u.dhr
  BY <1>3 DEF FormLine
<1>5. u.ckr = s.rk
  <2>1. PICK x : x = {u.dhs, s.dhs}
    OBVIOUS
  <2>2. PICK y : y = {u.dhs, u.dhr}
    OBVIOUS
  <2>3. PICK c : c = s.rk
    OBVIOUS
  <2>4. PICK d : d = u.ckr
    OBVIOUS
  <2>5. c \in Chain /\ d \in Chain /\ Append(c, x) = Append(d, y)
    BY <1>1, <1>2, <1>4, <2>1, <2>2, <2>3, <2>4
  <2>6. c = d
    BY <2>5, AppendSame
  <2> QED
    BY <2>3, <2>4, <2>6
<1>6. PICK m \in sent : m.key = <<u.ckr, u.nr - 1>>
  BY <1>4
<1>7. m.key[1] = s.rk /\ m.key[2] = u.nr - 1
  BY <1>5, <1>6
<1>8. u.nr - 1 < s.ns
  BY <1>7
<1>9. s.ns >= u.nr
  <2>1. PICK i \in Nat, j \in Nat : i = u.nr /\ j = s.ns
    BY <1>1
  <2>2. i - 1 < j
    BY <1>8, <2>1
  <2>3. j >= i
    BY <2>2
  <2> QED
    BY <2>1, <2>3
<1> QED
  BY <1>5, <1>9

(* A message sent on s: it takes its place on both sides.                  *)
LEMMA TransmitLine ==
  ASSUME RatchetInv, FreshInv', NEW p \in Party, NEW s,
         NEW kind \in {"prekey", "whisper"}, NEW base, Transmit(p, s, kind, base),
         \A q \in Party : fresh'[q] >= fresh[q],
         Used(s, {}), s.cks = s.rk, s.dhs[1] = p, SessionLine(p, s), Origin(p, RootOf(s.rk))',
         \A n \in sent : n.key[1] = s.rk => n.key[2] < s.ns,
         kind = "prekey" =>
           /\ base[1] = p /\ s.ns = 0 /\ s.pn = 0
           /\ s.rk = <<{base, Prekey(Peer(p))}, {s.dhs, Prekey(Peer(p))}>>
           /\ \A n \in sent : ~SameRoot(n.key[1], s.rk)
  PROVE  LineInv'
<1>0. FreshInv /\ TypeInv /\ LineInv /\ OnceInv /\ OriginInv
  BY DEF RatchetInv, ForgetInv
<1>1. PICK m : /\ m = Encrypted(s, p, Cardinality(SentBy(p)), kind, base)
               /\ session' = [session EXCEPT ![p] = [s EXCEPT !.ns = s.ns + 1]]
               /\ sent' = sent \union {m} /\ UNCHANGED history
  BY DEF Transmit
<1>2. /\ m.from = p /\ m.dh = s.dhs /\ m.n = s.ns /\ m.pn = s.pn /\ m.kind = kind
      /\ m.base = base /\ m.key[1] = s.rk /\ m.key[2] = s.ns
  BY <1>1 DEF Encrypted
<1>3. PICK t : t = [s EXCEPT !.ns = s.ns + 1]
  OBVIOUS
<1>4. /\ t.rk = s.rk /\ t.dhs = s.dhs /\ t.dhr = s.dhr /\ t.ckr = s.ckr
      /\ t.pn = s.pn /\ t.nr = s.nr /\ t.skipped = s.skipped
  <2>1. IsSession(s)
    BY DEF Used, Shape
  <2> QED
    BY <1>3, <2>1 DEF IsSession
<1>5. /\ session'[p] = t /\ \A q \in Party : q # p => session'[q] = session[q]
      /\ UNCHANGED <<opened, evicted, severed>>
  BY <1>0, <1>1, <1>3 DEF FreshInv, history
<1>6. FormLine(p, s) /\ OwnLine(p, s) /\ PeerLine(p, s) /\ FirstLine(p, s)
  BY DEF SessionLine
<1>7. Len(s.rk) \in Nat /\ Len(s.rk) >= 2
  BY <1>6 DEF Used, Shape, Chain, FormLine
<1>8. MessageLine(m)'
  <2>1. Origin(m.from, RootOf(m.key[1]))'
    BY <1>2 DEF Origin, RootOf
  <2>2. m.dh[1] = m.from /\ m.dh[2] >= 1 /\ Len(m.key[1]) >= 2
    BY <1>2, <1>6 DEF FormLine
  <2>3. m.kind = "prekey" =>
          /\ m.base[1] = m.from /\ m.n = 0 /\ m.pn = 0
          /\ m.key[1] = <<{m.base, Prekey(Peer(m.from))}, {m.dh, Prekey(Peer(m.from))}>>
    BY <1>2
  <2> QED
    BY <2>1, <2>2, <2>3 DEF MessageLine, Prekey
<1>9. ASSUME NEW n \in sent PROVE MessageLine(n)'
  BY <1>0, <1>5, MessageStays DEF LineInv
<1>10. ASSUME NEW n \in sent, Unanswered(n)' PROVE Unanswered(n)
  BY <1>1, <1>10 DEF Unanswered
<1>11. ASSUME NEW n \in sent, NEW o \in sent, n.from = o.from PROVE PairLine(n, o)'
  <2>1. PairLine(n, o)
    BY <1>0, <1>11 DEF LineInv
  <2> QED
    BY <1>5, <1>10, <2>1 DEF PairLine
<1>12. ASSUME NEW n \in sent, n.from = p
       PROVE  PairLine(m, n)' /\ PairLine(n, m)'
  <2>1. n.dh = s.dhs <=> n.key[1] = s.rk
    BY <1>6, <1>12 DEF OwnLine
  <2>2. SameRoot(n.key[1], s.rk) /\ RootOf(s.rk) \notin severed =>
          /\ Len(n.key[1]) <= Len(s.rk)
          /\ Len(n.key[1]) = Len(s.rk) => n.key[1] = s.rk
          /\ Len(n.key[1]) + 2 = Len(s.rk) => n.n < s.pn
    BY <1>6, <1>12 DEF OwnLine
  <2>3. Len(n.key[1]) \in Nat
    BY <1>0 DEF FreshInv, IsMessage, Grown, Chain
  <2>4. ~(Unanswered(m)' /\ SameRoot(m.key[1], n.key[1]))
    BY <1>2 DEF Unanswered, SameRoot
  <2>5. Unanswered(n)' /\ SameRoot(n.key[1], m.key[1]) => m.key[1] = n.key[1]
    BY <1>2, <1>6, <1>10, <1>12 DEF FirstLine, SameRoot
  <2>6. PairLine(m, n)'
    BY <1>2, <1>5, <2>1, <2>2, <2>4 DEF PairLine, SameRoot
  <2>7. PairLine(n, m)'
    BY <1>2, <1>5, <1>7, <2>1, <2>2, <2>3, <2>5 DEF PairLine, SameRoot
  <2> QED
    BY <2>6, <2>7
<1>13. PairLine(m, m)'
  <2>1. Len(m.key[1]) + 2 # Len(m.key[1])
    BY <1>2, <1>7
  <2> QED
    BY <2>1 DEF PairLine
<1>14. \A n, o \in sent' : n.from = o.from => PairLine(n, o)'
  BY <1>1, <1>2, <1>11, <1>12, <1>13
<1>15. Peer(p) \in Party /\ Peer(p) # p /\ Peer(Peer(p)) = p
  BY PeerIsParty, PeerOfPeer
<1>16. SessionLine(p, t)'
  <2>1. FormLine(p, t)'
    BY <1>1, <1>4, <1>6 DEF FormLine
  <2>2. OwnLine(p, t)'
    <3>1. \A n \in sent' : n.from = p => (n.dh = t.dhs <=> n.key[1] = t.rk)
      BY <1>1, <1>2, <1>4, <1>6 DEF OwnLine
    <3>2. ASSUME RootOf(t.rk) \notin severed', NEW n \in sent', n.from = p,
                 SameRoot(n.key[1], t.rk)
          PROVE  /\ Len(n.key[1]) <= Len(t.rk)
                 /\ Len(n.key[1]) = Len(t.rk) => n.key[1] = t.rk
                 /\ Len(n.key[1]) + 2 = Len(t.rk) => n.n < t.pn
      <4>1. CASE n = m
        BY <1>2, <1>4, <1>7, <4>1
      <4>2. CASE n \in sent
        BY <1>4, <1>5, <1>6, <3>2, <4>2 DEF OwnLine
      <4> QED
        BY <1>1, <4>1, <4>2
    <3> QED
      BY <3>1, <3>2 DEF OwnLine
  <2>3. PeerLine(p, t)'
    BY <1>1, <1>2, <1>4, <1>5, <1>6, <1>15 DEF PeerLine, Reach, Behind
  <2>4. FirstLine(p, t)'
    BY <1>1, <1>2, <1>4, <1>6, <1>10 DEF FirstLine
  <2>5. session'[Peer(p)] # NoSession => Linked(t, session[Peer(p)])'
    BY <1>4, <1>5, <1>15 DEF SessionLine, Linked, Follows
  <2> QED
    BY <2>1, <2>2, <2>3, <2>4, <2>5 DEF SessionLine
<1>17. ASSUME session'[Peer(p)] # NoSession
       PROVE  SessionLine(Peer(p), session[Peer(p)])'
  <2>1. PICK q \in Party : q = Peer(p)
    BY <1>15
  <2>2. PICK u : u = session[q] /\ session'[q] = u
    BY <1>5, <1>15, <2>1
  <2>3. /\ FormLine(q, u) /\ OwnLine(q, u) /\ PeerLine(q, u) /\ FirstLine(q, u)
        /\ Linked(s, u) /\ Peer(q) = p /\ q # p
    BY <1>0, <1>15, <1>17, <2>1, <2>2 DEF LineInv, SessionLine
  <2>4. FormLine(q, u)'
    BY <1>1, <2>3 DEF FormLine
  <2>5. OwnLine(q, u)'
    BY <1>1, <1>2, <1>5, <2>3 DEF OwnLine
  <2>6. FirstLine(q, u)'
    BY <1>1, <1>2, <1>10, <2>3 DEF FirstLine
  <2>7. ASSUME SameRoot(s.rk, u.rk), RootOf(u.rk) \notin severed
        PROVE  Reach(q, u, m)
    <3>1. CASE Follows(s, u)
      <4>1. {s.dhs, u.dhs} = {u.dhs, s.dhs}
        OBVIOUS
      <4> QED
        BY <1>2, <3>1, <4>1 DEF Follows, Reach
    <3>2. CASE Follows(u, s)
      <4>1. Shape(s) /\ Shape(u)
        BY <1>0, <1>17, <2>1, <2>2 DEF Used, OnceInv
      <4>2. FormLine(Peer(p), u)
        BY <2>1, <2>3
      <4>3. u.ckr = s.rk /\ s.ns >= u.nr
        BY <1>0, <1>7, <3>2, <4>1, <4>2, ReadSent
      <4> QED
        BY <1>2, <4>3 DEF Reach
    <3> QED
      BY <2>3, <2>7, <3>1, <3>2 DEF Linked, SameRoot
  <2>8. PeerLine(q, u)'
    BY <1>1, <1>2, <1>5, <2>3, <2>7 DEF PeerLine, Reach
  <2>9. session'[Peer(q)] # NoSession => Linked(u, session[Peer(q)])'
    BY <1>4, <1>5, <2>3 DEF Linked, SameRoot, Follows
  <2>10. SessionLine(q, u)'
    BY <2>3, <2>4, <2>5, <2>6, <2>8, <2>9 DEF SessionLine
  <2> QED
    BY <2>1, <2>2, <2>10
<1>18. ASSUME NEW q \in Party, session'[q] # NoSession PROVE SessionLine(q, session[q])'
  <2>1. CASE q = p
    BY <1>5, <1>16, <2>1
  <2>2. CASE q = Peer(p)
    BY <1>17, <1>18, <2>2
  <2> QED
    BY <2>1, <2>2, TwoParties
<1> QED
  BY <1>1, <1>8, <1>9, <1>14, <1>18 DEF LineInv

(* Nothing goes back to a handshake that is about to begin.                *)
LEMMA NewRoot ==
  ASSUME FreshInv, OriginInv, NEW p \in Party, NEW q \in Party, NEW root, Origin(q, root)
  PROVE  root # {NewKey(p, 1), Prekey(Peer(p))}
<1>1. PICK one : one = NewKey(p, 1)
  OBVIOUS
<1>2. fresh \in [Party -> Nat] /\ opened \in [Party -> SUBSET sent]
  BY DEF FreshInv, OriginInv
<1>3. one[1] = p /\ one[2] = fresh[p] + 1 /\ fresh[p] \in Nat
  BY <1>1, <1>2 DEF NewKey
<1>4. \A r \in Party : one # Prekey(r)
  <2>1. \A r \in Party : Prekey(r)[2] = 0
    BY DEF Prekey
  <2>2. one[2] # 0
    BY <1>3
  <2> QED
    BY <2>1, <2>2
<1>5. ~(one[2] <= fresh[one[1]])
  BY <1>3
<1>6. Peer(q) \in Party /\ Peer(p) \in Party
  BY PeerIsParty
<1>7. ASSUME NEW b, NEW r \in Party, b[2] <= fresh[b[1]]
      PROVE  {b, Prekey(r)} # {one, Prekey(Peer(p))}
  BY <1>4, <1>5, <1>7
<1>8. CASE \E m \in opened[q] : m.kind = "prekey" /\ root = {m.base, Prekey(q)}
  BY <1>1, <1>2, <1>7, <1>8 DEF OriginInv
<1>9. CASE \E b \in KeyPair : /\ b[1] = q /\ b[2] >= 1 /\ b[2] <= fresh[q]
                              /\ root = {b, Prekey(Peer(q))}
  BY <1>1, <1>6, <1>7, <1>9
<1> QED
  BY <1>8, <1>9 DEF Origin

(* A first message begins a line of its own.                               *)
LEMMA SendPrekeyLine ==
  ASSUME RatchetInv, FreshInv', NEW p \in Party, SendPrekey(p)
  PROVE  LineInv'
<1>0. FreshInv /\ TypeInv /\ LineInv /\ OnceInv /\ OriginInv
  BY DEF RatchetInv, ForgetInv
<1>1. fresh \in [Party -> Nat] /\ fresh' = [fresh EXCEPT ![p] = fresh[p] + 2]
  BY <1>0 DEF SendPrekey, FreshInv
<1>2. \A q \in Party : fresh'[q] >= fresh[q]
  BY <1>1
<1>3. PICK one : one = NewKey(p, 1)
  OBVIOUS
<1>4. PICK two : two = NewKey(p, 2)
  OBVIOUS
<1>5. PICK theirs : theirs = Prekey(Peer(p))
  OBVIOUS
<1>6. PICK s : s = Initiator(p)
  OBVIOUS
<1>7. /\ one = <<p, fresh[p] + 1>> /\ two = <<p, fresh[p] + 2>>
      /\ one \in KeyPair /\ two \in KeyPair /\ theirs \in KeyPair
      /\ Used(s, {}) /\ s.rk = <<{one, theirs}, {two, theirs}>> /\ s.cks = s.rk
      /\ s.dhs = two /\ s.dhr = theirs /\ s.ckr = << >>
      /\ s.ns = 0 /\ s.nr = 0 /\ s.pn = 0 /\ s.skipped = << >>
  BY <1>1, <1>3, <1>4, <1>5, <1>6, InitiatorForm
<1>8. RootOf(s.rk) = {one, theirs} /\ Len(s.rk) = 2 /\ theirs[2] = 0
  BY <1>5, <1>7 DEF RootOf, Prekey
<1>9. /\ one[1] = p /\ one[2] = fresh[p] + 1 /\ two[1] = p /\ two[2] = fresh[p] + 2
      /\ fresh[p] \in Nat
  BY <1>1, <1>7
<1>10. ASSUME NEW q \in Party, NEW root, Origin(q, root) PROVE root # RootOf(s.rk)
  BY <1>0, <1>3, <1>5, <1>8, <1>10, NewRoot
<1>11. ASSUME NEW n \in sent PROVE ~SameRoot(n.key[1], s.rk)
  <2>1. n.dh \in KeyPair /\ n.dh[1] = n.from /\ Origin(n.from, RootOf(n.key[1]))
    BY <1>0 DEF LineInv, MessageLine, FreshInv, IsMessage
  <2>2. PICK q \in Party : q = n.from
    BY <2>1 DEF KeyPair
  <2>3. PICK root : root = RootOf(n.key[1])
    OBVIOUS
  <2>4. Origin(q, root)
    BY <2>1, <2>2, <2>3
  <2> QED
    BY <1>10, <2>3, <2>4 DEF SameRoot
<1>12. ASSUME NEW n \in sent PROVE n.dh # s.dhs /\ n.key[1] # s.rk
  <2>1. n.dh[2] <= fresh[n.dh[1]]
    BY <1>0 DEF FreshInv, IsMessage
  <2>2. n.dh # two
    BY <1>9, <2>1
  <2>3. n.key[1] # s.rk
    BY <1>11 DEF SameRoot
  <2> QED
    BY <1>7, <2>2, <2>3
<1>13. SessionLine(p, s)
  <2>1. FormLine(p, s)
    <3>1. ToSet(s.skipped) = {}
      BY <1>7 DEF ToSet
    <3> QED
      BY <1>7, <1>8, <1>9, <3>1 DEF FormLine, None
  <2>2. OwnLine(p, s)
    BY <1>11, <1>12 DEF OwnLine
  <2>3. PeerLine(p, s)
    BY <1>11 DEF PeerLine
  <2>4. FirstLine(p, s)
    BY <1>11 DEF FirstLine
  <2>5. session[Peer(p)] # NoSession => Linked(s, session[Peer(p)])
    <3>1. SUFFICES ASSUME session[Peer(p)] # NoSession
                   PROVE  Linked(s, session[Peer(p)])
      OBVIOUS
    <3>2. PICK q \in Party : q = Peer(p)
      BY PeerIsParty
    <3>3. PICK root : root = RootOf(session[q].rk)
      OBVIOUS
    <3>4. Origin(q, root)
      BY <1>0, <3>1, <3>2, <3>3 DEF OriginInv
    <3>5. root # RootOf(s.rk)
      BY <1>10, <3>4
    <3> QED
      BY <3>2, <3>3, <3>5 DEF Linked, SameRoot
  <2> QED
    BY <2>1, <2>2, <2>3, <2>4, <2>5 DEF SessionLine
<1>14. Origin(p, RootOf(s.rk))'
  <2>1. fresh'[p] = fresh[p] + 2
    BY <1>1
  <2>2. one \in KeyPair /\ one[1] = p /\ one[2] >= 1 /\ one[2] <= fresh'[p]
    BY <1>7, <1>9, <2>1
  <2>3. RootOf(s.rk) = {one, Prekey(Peer(p))}
    BY <1>5, <1>8
  <2> QED
    BY <2>2, <2>3 DEF Origin
<1>15. Transmit(p, s, "prekey", one)
  BY <1>3, <1>6 DEF SendPrekey
<1>16. \A n \in sent : n.key[1] = s.rk => n.key[2] < s.ns
  BY <1>12
<1>17. /\ one[1] = p /\ s.ns = 0 /\ s.pn = 0
       /\ s.rk = <<{one, Prekey(Peer(p))}, {s.dhs, Prekey(Peer(p))}>>
       /\ \A n \in sent : ~SameRoot(n.key[1], s.rk)
  BY <1>5, <1>7, <1>9, <1>11
<1>18. s.dhs[1] = p /\ s.cks = s.rk /\ Used(s, {})
  BY <1>7, <1>9
<1> QED
  BY <1>2, <1>13, <1>14, <1>15, <1>16, <1>17, <1>18, TransmitLine

(* A later message goes on along the line of its session.                  *)
LEMMA SendWhisperLine ==
  ASSUME RatchetInv, FreshInv', NEW p \in Party, SendWhisper(p)
  PROVE  LineInv'
<1>0. FreshInv /\ TypeInv /\ LineInv /\ OnceInv /\ OriginInv
  BY DEF RatchetInv, ForgetInv
<1>1. PICK s : s = session[p]
  OBVIOUS
<1>2. session[p] # NoSession /\ Transmit(p, s, "whisper", None) /\ UNCHANGED fresh
  BY <1>1 DEF SendWhisper
<1>3. /\ Sends(p, s) /\ Fits(p, s) /\ SessionLine(p, s) /\ Origin(p, RootOf(s.rk))
      /\ fresh \in [Party -> Nat] /\ fresh' \in [Party -> Nat]
  BY <1>0, <1>1, <1>2 DEF FreshInv, TypeInv, LineInv, OriginInv
<1>4. Used(s, {})
  <2>1. PICK K : K = UsedKeys(p, RootOf(s.rk))
    OBVIOUS
  <2>2. Used(s, K)
    BY <1>0, <1>1, <1>2, <2>1 DEF OnceInv
  <2> QED
    BY <2>2 DEF Used
<1>5. \A q \in Party : fresh'[q] >= fresh[q]
  BY <1>2, <1>3
<1>6. Origin(p, RootOf(s.rk))'
  <2>1. PICK root : root = RootOf(s.rk)
    OBVIOUS
  <2>2. Origin(p, root) /\ opened[p] \subseteq opened'[p] /\ fresh'[p] >= fresh[p]
    BY <1>2, <1>3, <1>5, <2>1 DEF Transmit, history
  <2>3. Origin(p, root)'
    BY <1>3, <2>2, OriginStays
  <2> QED
    BY <2>1, <2>3 DEF Origin
<1>7. s.cks = s.rk /\ s.dhs[1] = p /\ \A n \in sent : n.key[1] = s.rk => n.key[2] < s.ns
  BY <1>3 DEF Fits, Sends
<1>8. PICK kind \in {"prekey", "whisper"} : kind = "whisper"
  OBVIOUS
<1>9. Transmit(p, s, kind, None) /\ kind # "prekey"
  BY <1>2, <1>8
<1> QED
  BY <1>3, <1>4, <1>5, <1>6, <1>7, <1>9, TransmitLine

(* What a step that reads leaves to show: the new session.                 *)
LEMMA OpenLine ==
  ASSUME RatchetInv, FreshInv', NEW p \in Party, NEW m, NEW s, NEW new, NEW t, NEW gone,
         Opens(p, m, s, new, t, gone),
         FormLine(p, t)', OwnLine(p, t)', PeerLine(p, t)', FirstLine(p, t)',
         session[Peer(p)] # NoSession => Linked(t, session[Peer(p)])'
  PROVE  LineInv'
<1>0. FreshInv /\ LineInv /\ OriginInv
  BY DEF RatchetInv, ForgetInv
<1>1. /\ session'[p] = t /\ \A q \in Party : q # p => session'[q] = session[q]
      /\ evicted \subseteq evicted' /\ severed \subseteq severed' /\ UNCHANGED sent
      /\ \A q \in Party : q # p => opened'[q] = opened[q]
  BY <1>0 DEF Opens, OriginInv
<1>2. \A q \in Party : fresh'[q] >= fresh[q] /\ opened[q] \subseteq opened'[q]
  BY <1>0 DEF Opens, FreshInv, OriginInv
<1>3. /\ \A n \in sent' : MessageLine(n)'
      /\ \A n, o \in sent' : n.from = o.from => PairLine(n, o)'
  BY <1>0, <1>1, <1>2, MessagesStay
<1>4. Peer(p) \in Party /\ Peer(p) # p /\ Peer(Peer(p)) = p
  BY PeerIsParty, PeerOfPeer
<1>5. SessionLine(p, t)'
  <2>1. session'[Peer(p)] = session[Peer(p)]
    BY <1>1, <1>4
  <2>2. session'[Peer(p)] # NoSession => Linked(t, session[Peer(p)])'
    BY <2>1
  <2> QED
    BY <2>2 DEF SessionLine
<1>6. ASSUME session'[Peer(p)] # NoSession PROVE SessionLine(Peer(p), session[Peer(p)])'
  <2>1. PICK q \in Party : q = Peer(p)
    BY <1>4
  <2>2. PICK u : u = session[q] /\ session'[q] = u
    BY <1>1, <1>4, <2>1
  <2>3. SessionLine(q, u) /\ Peer(q) = p /\ q # p /\ opened'[q] = opened[q]
    BY <1>0, <1>1, <1>4, <1>6, <2>1, <2>2 DEF LineInv
  <2>4. FormLine(q, u)'
    BY <1>1, <2>3 DEF SessionLine, FormLine
  <2>5. OwnLine(q, u)'
    BY <1>1, <2>3 DEF SessionLine, OwnLine
  <2>6. PeerLine(q, u)'
    BY <1>1, <2>3 DEF SessionLine, PeerLine, Reach
  <2>7. FirstLine(q, u)'
    BY <1>1, <2>3 DEF SessionLine, FirstLine, Unanswered
  <2>8. Linked(t, session[q])'
    <3>1. Linked(t, session[Peer(p)])'
      BY <1>1, <1>4, <1>6
    <3> QED
      BY <2>1, <3>1
  <2>9. session'[Peer(q)] # NoSession => Linked(u, session[Peer(q)])'
    BY <1>1, <2>2, <2>3, <2>8 DEF Linked, SameRoot
  <2>10. SessionLine(q, u)'
    BY <2>4, <2>5, <2>6, <2>7, <2>9 DEF SessionLine
  <2> QED
    BY <2>1, <2>2, <2>10
<1>7. ASSUME NEW q \in Party, session'[q] # NoSession PROVE SessionLine(q, session[q])'
  <2>1. CASE q = p
    BY <1>1, <1>5, <2>1
  <2>2. CASE q = Peer(p)
    BY <1>6, <1>7, <2>2
  <2> QED
    BY <2>1, <2>2, TwoParties
<1> QED
  BY <1>3, <1>7 DEF LineInv

(* What a later message is read with.                                      *)
LEMMA ReadsWith ==
  ASSUME RatchetInv, NEW p \in Party, NEW m, NEW s, NEW new, NEW t, NEW gone,
         Opens(p, m, s, new, t, gone)
  PROVE  /\ m.kind \in {"prekey", "whisper"} /\ severed \subseteq severed'
         /\ m.kind = "whisper" =>
              /\ session[p] # NoSession /\ s = session[p]
              /\ SessionLine(p, s) /\ Sends(p, s) /\ Fits(p, s)
         /\ ~Turns(s, m) => m.kind = "whisper"
         /\ m \in opened'[p] /\ opened[p] \subseteq opened'[p]
         /\ \A n \in sent : n.key = m.key => n = m
         /\ \A n \in sent : /\ n.key = <<n.key[1], n.n>> /\ n.n \in Nat /\ n.key[1] \in Chain
                            /\ IsMessage(n)
<1>1. FreshInv /\ LineInv /\ TypeInv /\ OriginInv
  BY DEF RatchetInv, ForgetInv
<1>2. m.kind \in {"prekey", "whisper"} /\ severed \subseteq severed' /\ m \in sent
  BY DEF Opens, IsMessage
<1>3. m.kind = "whisper" => /\ session[p] # NoSession /\ s = session[p]
                            /\ SessionLine(p, s) /\ Sends(p, s) /\ Fits(p, s)
  BY <1>1 DEF Opens, LineInv, FreshInv, TypeInv
<1>4. ~Turns(s, m) => m.kind = "whisper"
  BY <1>2 DEF Opens
<1>5. m \in opened'[p] /\ opened[p] \subseteq opened'[p]
  BY <1>1 DEF Opens, OriginInv
<1>6. \A n \in sent : n.key = m.key => n = m
  BY <1>1, <1>2 DEF FreshInv, KeysAreFresh
<1>7. ASSUME NEW n \in sent
      PROVE  /\ n.key = <<n.key[1], n.n>> /\ n.n \in Nat /\ n.key[1] \in Chain
             /\ IsMessage(n)
  BY <1>1, MessageWhole DEF IsMessage, IsCounted, Grown
<1> QED
  BY <1>2, <1>3, <1>4, <1>5, <1>6, <1>7

(* A kept key is used: the others stay where they were.                    *)
LEMMA KeptLine ==
  ASSUME RatchetInv, FreshInv', NEW p \in Party, NEW m, NEW s, NEW new, NEW t, NEW gone,
         Opens(p, m, s, new, t, gone), ~Turns(s, m), TookKept(t, s, m)
  PROVE  LineInv'
<1>1. /\ SessionLine(p, s) /\ severed \subseteq severed'
      /\ m \in opened'[p] /\ opened[p] \subseteq opened'[p]
      /\ \A n \in sent : n.key = m.key => n = m
  BY ReadsWith
<1>2. UNCHANGED sent /\ evicted' = evicted \union gone
  BY DEF Opens
<1>3. SameLine(t, s) /\ t.nr = s.nr /\ ToSet(t.skipped) \subseteq ToSet(s.skipped)
      /\ \A k \in KeysOf(s.skipped) : k = m.key \/ k \in KeysOf(t.skipped)
  BY DEF TookKept
<1>4. FormLine(p, t)'
  BY <1>1, <1>2, <1>3 DEF SessionLine, FormLine, SameLine
<1>5. OwnLine(p, t)'
  BY <1>1, <1>2, <1>3 DEF SessionLine, OwnLine, SameLine
<1>6. PeerLine(p, t)'
  <2>1. ASSUME NEW n \in sent, Reach(p, s, n) PROVE Reach(p, t, n)'
    BY <1>1, <1>2, <1>3, <2>1 DEF Reach, Behind, SameLine
  <2> QED
    BY <1>1, <1>2, <1>3, <2>1 DEF SessionLine, PeerLine, SameLine
<1>7. FirstLine(p, t)'
  BY <1>1, <1>2, <1>3 DEF SessionLine, FirstLine, SameLine, Unanswered
<1>8. session[Peer(p)] # NoSession => Linked(t, session[Peer(p)])'
  <2>1. session'[Peer(p)] = session[Peer(p)]
    BY PeerIsParty DEF Opens
  <2> QED
    BY <1>1, <1>3, <2>1 DEF SessionLine, Linked, SameLine, Follows
<1> QED
  BY <1>4, <1>5, <1>6, <1>7, <1>8, OpenLine

(* The receiving chain goes on to m: what was passed is kept or evicted.   *)
LEMMA WentOnLine ==
  ASSUME RatchetInv, FreshInv', NEW p \in Party, NEW m, NEW s, NEW new, NEW t, NEW gone,
         Opens(p, m, s, new, t, gone), ~Turns(s, m), WentOn(t, s, m, gone)
  PROVE  LineInv'
<1>1. /\ SessionLine(p, s) /\ severed \subseteq severed'
      /\ m \in opened'[p] /\ opened[p] \subseteq opened'[p]
      /\ \A n \in sent : n.key = m.key => n = m
      /\ \A n \in sent : n.key = <<n.key[1], n.n>> /\ n.n \in Nat
  BY ReadsWith
<1>2. /\ UNCHANGED sent /\ evicted' = evicted \union gone /\ m \in sent /\ m.from = Peer(p)
      /\ m.key[1] # << >> /\ s.nr \in Nat
  BY DEF Opens, IsWhole, Used, Shape
<1>3. /\ SameLine(t, s) /\ s.dhr = m.dh /\ s.ckr = m.key[1]
      /\ s.nr <= m.n /\ t.nr = m.n + 1
      /\ \A e \in ToSet(t.skipped) : e \in ToSet(s.skipped) \/ IsPassed(e, s.ckr, s.dhr)
      /\ KeysOf(s.skipped) \subseteq KeysOf(t.skipped) \union gone
      /\ \A n \in Nat : s.nr <= n /\ n < m.n => <<s.ckr, n>> \in KeysOf(t.skipped) \union gone
  BY DEF WentOn
<1>4. FormLine(p, t)'
  <2>1. m.key = <<t.ckr, t.nr - 1>> /\ m.dh = t.dhr
    BY <1>1, <1>2, <1>3 DEF SameLine
  <2>2. t.ckr # None /\ t.rk = Append(t.ckr, {t.dhs, t.dhr})
    BY <1>1, <1>2, <1>3 DEF SessionLine, FormLine, SameLine, None
  <2>3. ASSUME NEW e \in ToSet(t.skipped)
        PROVE  /\ e.n = e.key[2]
               /\ \E n \in sent : n.from = Peer(p) /\ n.key[1] = e.key[1] /\ n.dh = e.dh
    BY <1>1, <1>2, <1>3 DEF SessionLine, FormLine, IsPassed
  <2>4. Len(t.rk) >= 2 /\ t.dhs[2] >= 1
    BY <1>1, <1>3 DEF SessionLine, FormLine, SameLine
  <2> QED
    BY <1>2, <2>1, <2>2, <2>3, <2>4 DEF FormLine
<1>5. OwnLine(p, t)'
  BY <1>1, <1>2, <1>3 DEF SessionLine, OwnLine, SameLine
<1>6. PeerLine(p, t)'
  <2>1. ASSUME NEW n \in sent, Reach(p, s, n) PROVE Reach(p, t, n)'
    <3>0. n.key[1] = s.ckr => n.key = <<s.ckr, n.n>> /\ n.key[2] = n.n /\ n.n \in Nat
      BY <1>1
    <3>1. CASE /\ Behind(s, n.key)
               /\ n \in opened[p] \/ n.key \in evicted \/ n.key \in KeysOf(s.skipped)
      <4>1. Behind(t, n.key)
        BY <1>1, <1>2, <1>3, <3>0, <3>1 DEF Behind, SameLine
      <4> QED
        BY <1>1, <1>2, <1>3, <3>1, <4>1 DEF Reach
    <3>2. CASE n.key[1] = s.ckr /\ n.n > m.n
      BY <1>1, <1>2, <1>3, <3>2 DEF Reach, SameLine
    <3>3. CASE n.key[1] = s.ckr /\ n.n >= s.nr /\ n.n <= m.n
      <4>1. Behind(t, n.key)
        BY <1>1, <1>2, <1>3, <3>0, <3>3 DEF Behind, SameLine
      <4>2. CASE n.n = m.n
        <5>1. n.key = m.key
          BY <1>1, <1>2, <1>3, <3>0, <3>3, <4>2
        <5> QED
          BY <1>1, <4>1, <5>1 DEF Reach
      <4>3. CASE n.n < m.n
        BY <1>2, <1>3, <3>0, <3>3, <4>1, <4>3 DEF Reach
      <4> QED
        BY <1>1, <1>2, <3>3, <4>2, <4>3
    <3>4. CASE n.key[1] = Append(s.rk, {s.dhs, n.dh})
      BY <1>3, <3>4 DEF Reach, SameLine
    <3>5. n.n > m.n \/ n.n <= m.n
      BY <1>1, <1>2
    <3> QED
      BY <2>1, <3>1, <3>2, <3>3, <3>4, <3>5 DEF Reach
  <2> QED
    BY <1>1, <1>2, <1>3, <2>1 DEF SessionLine, PeerLine, SameLine
<1>7. FirstLine(p, t)'
  BY <1>1, <1>2, <1>3 DEF SessionLine, FirstLine, SameLine, Unanswered
<1>8. session[Peer(p)] # NoSession => Linked(t, session[Peer(p)])'
  <2>1. session'[Peer(p)] = session[Peer(p)]
    BY PeerIsParty DEF Opens
  <2> QED
    BY <1>1, <1>3, <2>1 DEF SessionLine, Linked, SameLine, Follows
<1> QED
  BY <1>4, <1>5, <1>6, <1>7, <1>8, OpenLine

(* A first message that starts a session anew severs what was sent on it.  *)
LEMMA NothingAnswered ==
  ASSUME RatchetInv, NEW p \in Party, NEW m, NEW s, NEW new, NEW t, NEW gone,
         Opens(p, m, s, new, t, gone), m.kind = "prekey",
         RootOf(m.key[1]) \notin severed',
         NEW n \in sent, n.from = p
  PROVE  ~SameRoot(n.key[1], m.key[1])
<1>0. FreshInv /\ LineInv /\ OriginInv
  BY DEF RatchetInv, ForgetInv
<1> SUFFICES ASSUME SameRoot(n.key[1], m.key[1]) PROVE FALSE
  OBVIOUS
<1>1. HasSentOn(p, m.key[1])
  BY DEF HasSentOn, SentBy, SameRoot
<1>2. m \notin opened[p]
  BY <1>1 DEF Opens
<1>3. /\ m \in sent /\ m.from = Peer(p) /\ m.base \in KeyPair
      /\ m.base[1] = m.from /\ RootOf(m.key[1]) = {m.base, Prekey(Peer(m.from))}
  <2>1. m \in sent /\ m.from = Peer(p) /\ IsMessage(m)
    BY DEF Opens
  <2>2. MessageLine(m)
    BY <1>0, <2>1 DEF LineInv
  <2>3. m.key[1] = <<{m.base, Prekey(Peer(m.from))}, {m.dh, Prekey(Peer(m.from))}>>
    BY <2>2 DEF MessageLine
  <2>4. RootOf(m.key[1]) = {m.base, Prekey(Peer(m.from))}
    BY <2>3 DEF RootOf
  <2> QED
    BY <2>1, <2>2, <2>4 DEF MessageLine, IsMessage
<1>4. Peer(p) \in Party /\ Peer(p) # p /\ Peer(Peer(p)) = p
  BY PeerIsParty, PeerOfPeer
<1>5. m.base[2] >= 1 /\ opened \in [Party -> SUBSET sent]
  BY <1>0, <1>3 DEF OriginInv, Opens
<1>6. m.base # Prekey(p) /\ m.base # Prekey(Peer(p))
  BY <1>3, <1>5 DEF Prekey
<1>7. PICK root : root = RootOf(n.key[1])
  OBVIOUS
<1>8. Origin(p, root) /\ root = {m.base, Prekey(p)}
  BY <1>0, <1>3, <1>4, <1>7 DEF LineInv, MessageLine, SameRoot
<1>9. CASE \E o \in opened[p] : o.kind = "prekey" /\ root = {o.base, Prekey(p)}
  <2>1. PICK o \in opened[p] : o.kind = "prekey" /\ root = {o.base, Prekey(p)}
    BY <1>9
  <2>2. o \in sent /\ o.base = m.base
    BY <1>5, <1>6, <1>8, <2>1
  <2>3. o = m
    BY <1>0, <1>3, <2>1, <2>2 DEF OriginInv
  <2> QED
    BY <1>2, <2>3
<1>10. CASE \E b \in KeyPair : /\ b[1] = p /\ b[2] >= 1 /\ b[2] <= fresh[p]
                               /\ root = {b, Prekey(Peer(p))}
  <2>1. PICK b \in KeyPair : b[1] = p /\ root = {b, Prekey(Peer(p))}
    BY <1>10
  <2>2. b = m.base
    BY <1>6, <1>8, <2>1
  <2> QED
    BY <1>3, <1>4, <2>1, <2>2
<1> QED
  BY <1>8, <1>9, <1>10 DEF Origin

(* The chains of a turn: m is on the next one, and the new one is longer.  *)
LEMMA TurnChains ==
  ASSUME RatchetInv, NEW p \in Party, NEW m, NEW s, NEW new, NEW t, NEW gone,
         Opens(p, m, s, new, t, gone), TurnedOn(t, s, m, new, gone)
  PROVE  /\ Len(s.rk) \in Nat /\ Len(s.rk) >= 1 /\ Len(s.ckr) \in Nat /\ Len(s.ckr) <= Len(s.rk)
         /\ Len(m.key[1]) = Len(s.rk) + 1 /\ Len(t.rk) = Len(s.rk) + 2
         /\ SameRoot(m.key[1], s.rk) /\ SameRoot(t.rk, s.rk)
         /\ \A n \in sent : n.dh # new /\ n.key[1] # t.rk
<1>0. FreshInv
  BY DEF RatchetInv, ForgetInv
<1>1. /\ s.rk \in Chain /\ s.rk # << >> /\ s.dhs \in KeyPair /\ s.ckr \in Chain
      /\ Len(s.ckr) <= Len(s.rk) /\ m.dh \in KeyPair /\ new \in KeyPair
  BY DEF Opens, Used, Shape, IsWhole
<1>2. {s.dhs, m.dh} \in SUBSET KeyPair /\ {new, m.dh} \in SUBSET KeyPair
  BY <1>1
<1>3. PICK c : c = m.key[1]
  OBVIOUS
<1>4. c = Append(s.rk, {s.dhs, m.dh}) /\ t.rk = Append(c, {new, m.dh})
  BY <1>3 DEF TurnedOn
<1>5. c \in Chain /\ c # << >> /\ Len(c) = Len(s.rk) + 1 /\ c[1] = s.rk[1]
  BY <1>1, <1>2, <1>4, AppendGrows
<1>6. Len(t.rk) = Len(c) + 1 /\ t.rk[1] = c[1]
  BY <1>2, <1>4, <1>5, AppendGrows
<1>7. Len(s.rk) \in Nat /\ Len(s.rk) >= 1 /\ Len(s.ckr) \in Nat
  BY <1>1 DEF Chain
<1>8. ASSUME NEW n \in sent PROVE n.dh # new /\ n.key[1] # t.rk
  <2>1. new[1] = p /\ new[2] = fresh[p] + 1 /\ fresh \in [Party -> Nat]
    BY <1>0 DEF Opens, FreshInv
  <2>2. n.dh[2] <= fresh[n.dh[1]] /\ Grown(n.key[1])
    BY <1>0 DEF FreshInv, IsMessage
  <2>3. n.dh # new
    BY <2>1, <2>2
  <2>4. Mixed(t.rk) = {new, m.dh}
    BY <1>2, <1>4, <1>5, AppendMixes
  <2>5. PICK d : d = t.rk
    OBVIOUS
  <2>6. PICK old : old = n.key[1]
    OBVIOUS
  <2>7. new \in Mixed(d) /\ new[2] > fresh[p] /\ Grown(old)
    BY <2>1, <2>2, <2>4, <2>5, <2>6
  <2>8. d # old
    BY <1>1, <2>1, <2>7, NewChain
  <2> QED
    BY <2>3, <2>5, <2>6, <2>8
<1> QED
  BY <1>1, <1>3, <1>5, <1>6, <1>7, <1>8 DEF SameRoot, RootOf

(* The new receiving chain is that of m.                                   *)
LEMMA TurnForm ==
  ASSUME RatchetInv, NEW p \in Party, NEW m, NEW s, NEW new, NEW t, NEW gone,
         Opens(p, m, s, new, t, gone), TurnedOn(t, s, m, new, gone)
  PROVE  FormLine(p, t)'
<1>0. FreshInv
  BY DEF RatchetInv, ForgetInv
<1>2. /\ UNCHANGED sent /\ m \in sent /\ m.from = Peer(p) /\ m.key[1] # << >>
      /\ new[2] = fresh[p] + 1 /\ fresh[p] \in Nat
  BY <1>0 DEF Opens, IsWhole, FreshInv
<1>3. /\ m.key = <<m.key[1], m.n>> /\ m.n \in Nat
      /\ m.kind = "whisper" => SessionLine(p, s)
      /\ m.kind \in {"prekey", "whisper"}
  BY <1>2, ReadsWith
<1>4. m.kind = "prekey" => ToSet(s.skipped) = {} /\ s.ckr = None
  <2> SUFFICES ASSUME m.kind = "prekey" PROVE ToSet(s.skipped) = {} /\ s.ckr = None
    OBVIOUS
  <2>1. s = Responder(p, m.base)
    BY DEF Opens
  <2>2. s.skipped = << >> /\ s.ckr = << >>
    BY <2>1 DEF Responder, None
  <2> QED
    BY <2>2 DEF ToSet, None
<1>5. /\ t.rk = Append(t.ckr, {t.dhs, t.dhr}) /\ t.ckr = m.key[1] /\ t.dhs = new
      /\ t.dhr = m.dh /\ t.nr = m.n + 1
      /\ \A e \in ToSet(t.skipped) :
           \/ e \in ToSet(s.skipped) \/ IsPassed(e, m.key[1], m.dh)
           \/ s.ckr # None /\ IsPassed(e, s.ckr, s.dhr)
  BY DEF TurnedOn
<1>6. Len(t.rk) >= 2
  BY TurnChains
<1>7. m.key = <<t.ckr, t.nr - 1>>
  BY <1>3, <1>5
<1>8. ASSUME NEW e \in ToSet(t.skipped)
      PROVE  /\ e.n = e.key[2]
             /\ \E n \in sent : n.from = Peer(p) /\ n.key[1] = e.key[1] /\ n.dh = e.dh
  <2>1. CASE e \in ToSet(s.skipped)
    BY <1>3, <1>4, <2>1 DEF SessionLine, FormLine
  <2>2. CASE IsPassed(e, m.key[1], m.dh)
    BY <1>2, <2>2 DEF IsPassed
  <2>3. CASE s.ckr # None /\ IsPassed(e, s.ckr, s.dhr)
    <3>1. FormLine(p, s)
      BY <1>3, <1>4, <2>3 DEF SessionLine
    <3>2. PICK n \in sent : n.from = Peer(p) /\ n.key = <<s.ckr, s.nr - 1>> /\ n.dh = s.dhr
      BY <2>3, <3>1 DEF FormLine
    <3> QED
      BY <2>3, <3>2 DEF IsPassed
  <2> QED
    BY <1>5, <2>1, <2>2, <2>3
<1>9. t.ckr # None /\ t.dhs[2] >= 1
  BY <1>2, <1>5 DEF None
<1> QED
  BY <1>2, <1>5, <1>6, <1>7, <1>8, <1>9 DEF FormLine

(* Nothing was sent on the new sending chain yet.                          *)
LEMMA TurnOwn ==
  ASSUME RatchetInv, NEW p \in Party, NEW m, NEW s, NEW new, NEW t, NEW gone,
         Opens(p, m, s, new, t, gone), TurnedOn(t, s, m, new, gone)
  PROVE  OwnLine(p, t)'
<1>1. /\ UNCHANGED sent /\ m \in sent /\ t.dhs = new /\ t.pn = s.ns
  BY DEF Opens, TurnedOn
<1>2. /\ Len(s.rk) \in Nat /\ Len(s.rk) >= 1 /\ Len(t.rk) = Len(s.rk) + 2
      /\ SameRoot(m.key[1], s.rk) /\ SameRoot(t.rk, s.rk)
      /\ \A n \in sent : n.dh # new /\ n.key[1] # t.rk
  BY TurnChains
<1>3. /\ m.kind = "whisper" => SessionLine(p, s) /\ Sends(p, s) /\ Fits(p, s)
      /\ m.kind \in {"prekey", "whisper"} /\ severed \subseteq severed'
      /\ \A n \in sent : n.key = <<n.key[1], n.n>> /\ n.n \in Nat /\ n.key[1] \in Chain
  BY ReadsWith
<1>4. ASSUME RootOf(t.rk) \notin severed', NEW n \in sent, n.from = p, SameRoot(n.key[1], t.rk)
      PROVE  /\ Len(n.key[1]) <= Len(t.rk)
             /\ Len(n.key[1]) = Len(t.rk) => n.key[1] = t.rk
             /\ Len(n.key[1]) + 2 = Len(t.rk) => n.n < t.pn
  <2>1. CASE m.kind = "prekey"
    <3>1. RootOf(m.key[1]) \notin severed' /\ SameRoot(n.key[1], m.key[1])
      BY <1>2, <1>4 DEF SameRoot
    <3> QED
      BY <1>4, <2>1, <3>1, NothingAnswered
  <2>2. CASE m.kind = "whisper"
    <3>1. RootOf(s.rk) \notin severed /\ SameRoot(n.key[1], s.rk)
      BY <1>2, <1>3, <1>4 DEF SameRoot
    <3>2. Len(n.key[1]) <= Len(s.rk) /\ (Len(n.key[1]) = Len(s.rk) => n.key[1] = s.rk)
      BY <1>3, <1>4, <2>2, <3>1 DEF SessionLine, OwnLine
    <3>3. Len(n.key[1]) \in Nat
      BY <1>3 DEF Chain
    <3>4. n.key[1] = s.rk => n.n < s.ns
      BY <1>3, <2>2 DEF Sends, Fits
    <3>5. PICK i \in Nat, j \in Nat : i = Len(n.key[1]) /\ j = Len(s.rk)
      BY <1>2, <3>3
    <3>6. i <= j /\ Len(t.rk) = j + 2
      BY <1>2, <3>2, <3>5
    <3>7. i <= j + 2 /\ i # j + 2 /\ (i + 2 = j + 2 => i = j)
      BY <3>6
    <3> QED
      BY <1>1, <3>2, <3>4, <3>5, <3>6, <3>7
  <2> QED
    BY <1>3, <2>1, <2>2
<1> QED
  BY <1>1, <1>2, <1>4 DEF OwnLine

(* A first message that is not severed was not answered.                   *)
LEMMA FirstUnanswered ==
  ASSUME RatchetInv, NEW p \in Party, NEW m, NEW s, NEW new, NEW t, NEW gone,
         Opens(p, m, s, new, t, gone), m.kind = "prekey", RootOf(m.key[1]) \notin severed'
  PROVE  Unanswered(m)
<1>1. m.from = Peer(p) /\ Peer(Peer(p)) = p
  BY PeerOfPeer DEF Opens
<1>2. \A n \in sent : n.from = p => ~SameRoot(n.key[1], m.key[1])
  BY NothingAnswered
<1> QED
  BY <1>1, <1>2 DEF Unanswered

(* What the peer has sent is behind, or on the new receiving chain.        *)
LEMMA TurnPeer ==
  ASSUME RatchetInv, NEW p \in Party, NEW m, NEW s, NEW new, NEW t, NEW gone,
         Opens(p, m, s, new, t, gone), TurnedOn(t, s, m, new, gone)
  PROVE  PeerLine(p, t)'
<1>0. LineInv
  BY DEF RatchetInv
<1>1. /\ UNCHANGED sent /\ m \in sent /\ m.from = Peer(p) /\ evicted' = evicted \union gone
      /\ s.nr \in Nat /\ m.n \in Nat
  BY DEF Opens, IsWhole, Used, Shape
<1>2. /\ t.ckr = m.key[1] /\ t.nr = m.n + 1
      /\ m.key[1] = Append(s.rk, {s.dhs, m.dh})
      /\ KeysOf(s.skipped) \subseteq KeysOf(t.skipped) \union gone
      /\ \A n \in Nat : s.ckr # None /\ s.nr <= n /\ n < m.pn =>
                          <<s.ckr, n>> \in KeysOf(t.skipped) \union gone
      /\ \A n \in Nat : n < m.n => <<m.key[1], n>> \in KeysOf(t.skipped) \union gone
  BY DEF TurnedOn
<1>3. /\ Len(s.rk) \in Nat /\ Len(s.rk) >= 1 /\ Len(s.ckr) \in Nat /\ Len(s.ckr) <= Len(s.rk)
      /\ Len(m.key[1]) = Len(s.rk) + 1
      /\ SameRoot(m.key[1], s.rk) /\ SameRoot(t.rk, s.rk)
  BY TurnChains
<1>4. /\ m.kind = "whisper" => SessionLine(p, s)
      /\ m.kind \in {"prekey", "whisper"} /\ severed \subseteq severed'
      /\ m \in opened'[p] /\ opened[p] \subseteq opened'[p]
      /\ \A n \in sent : n.key = m.key => n = m
      /\ \A n \in sent : /\ n.key = <<n.key[1], n.n>> /\ n.n \in Nat /\ n.key[1] \in Chain
                         /\ IsMessage(n)
  BY ReadsWith
<1> SUFFICES ASSUME RootOf(t.rk) \notin severed', NEW n \in sent,
                    n.from = Peer(p), SameRoot(n.key[1], t.rk)
             PROVE  Reach(p, t, n)'
  BY <1>1 DEF PeerLine
<1>5. /\ RootOf(s.rk) \notin severed /\ RootOf(m.key[1]) \notin severed
      /\ RootOf(m.key[1]) \notin severed'
      /\ SameRoot(n.key[1], s.rk) /\ SameRoot(m.key[1], n.key[1])
  BY <1>3, <1>4 DEF SameRoot
<1>6. PairLine(m, n)
  BY <1>0, <1>1 DEF LineInv
<1>7. n.key = <<n.key[1], n.n>> /\ n.n \in Nat /\ n.key[2] = n.n /\ Len(n.key[1]) \in Nat
  <2>1. n.key = <<n.key[1], n.n>> /\ n.n \in Nat /\ n.key[1] \in Chain
    BY <1>4
  <2> QED
    BY <2>1 DEF Chain
<1>8. CASE n.key[1] = m.key[1]
  <2>1. CASE n.n >= m.n + 1
    BY <1>2, <1>8, <2>1 DEF Reach
  <2>2. CASE n.n = m.n
    <3>1. n = m
      BY <1>1, <1>4, <1>7, <1>8, <2>2
    <3>2. Behind(t, n.key)
      BY <1>1, <1>2, <1>7, <1>8, <2>2 DEF Behind
    <3> QED
      BY <1>4, <3>1, <3>2 DEF Reach
  <2>3. CASE n.n < m.n
    <3>1. Behind(t, n.key)
      BY <1>1, <1>2, <1>7, <1>8, <2>3 DEF Behind
    <3>2. n.key \in KeysOf(t.skipped) \union gone
      BY <1>2, <1>7, <1>8, <2>3
    <3> QED
      BY <1>1, <3>1, <3>2 DEF Reach
  <2> QED
    BY <1>1, <1>7, <2>1, <2>2, <2>3
<1>9. CASE m.kind = "prekey"
  <2>1. Unanswered(m)
    BY <1>5, <1>9, FirstUnanswered
  <2>2. n.key[1] = m.key[1]
    BY <1>5, <1>6, <2>1 DEF PairLine
  <2> QED
    BY <1>8, <2>2
<1>10. CASE m.kind = "whisper"
  <2>1. Reach(p, s, n)
    BY <1>4, <1>5, <1>10 DEF SessionLine, PeerLine
  <2>2. CASE /\ Behind(s, n.key)
             /\ n \in opened[p] \/ n.key \in evicted \/ n.key \in KeysOf(s.skipped)
    <3>1. Len(n.key[1]) <= Len(s.ckr)
      BY <1>3, <1>7, <2>2 DEF Behind
    <3>2. Len(n.key[1]) < Len(t.ckr)
      BY <1>2, <1>3, <1>7, <3>1
    <3> QED
      BY <1>1, <1>2, <1>4, <2>2, <3>2 DEF Reach, Behind
  <2>3. CASE n.key[1] = s.ckr /\ n.n >= s.nr
    <3>1. s.ckr # None
      <4>1. n.key[1] # << >>
        BY <1>4 DEF IsMessage, Grown
      <4> QED
        BY <2>3, <4>1 DEF None
    <3>2. Len(s.rk) = Len(s.ckr) + 1
      <4>1. s.rk = Append(s.ckr, {s.dhs, s.dhr})
        BY <1>4, <1>10, <3>1 DEF SessionLine, FormLine
      <4>2. s.ckr \in Chain
        BY <1>4, <2>3
      <4> QED
        BY <4>1, <4>2 DEF Chain
    <3>3. Len(n.key[1]) + 2 = Len(m.key[1])
      BY <1>3, <2>3, <3>2
    <3>4. n.n < m.pn
      BY <1>5, <1>6, <3>3 DEF PairLine
    <3>5. n.key \in KeysOf(t.skipped) \union gone
      BY <1>1, <1>2, <1>7, <2>3, <3>1, <3>4
    <3>6. Len(n.key[1]) < Len(t.ckr)
      BY <1>2, <1>7, <3>3
    <3> QED
      BY <1>1, <3>5, <3>6 DEF Reach, Behind
  <2>4. CASE n.key[1] = Append(s.rk, {s.dhs, n.dh})
    <3>1. Len(n.key[1]) = Len(m.key[1])
      <4>1. s.rk \in Chain
        BY DEF Opens, Used, Shape
      <4> QED
        BY <1>2, <2>4, <4>1 DEF Chain
    <3>2. n.key[1] = m.key[1]
      BY <1>5, <1>6, <3>1 DEF PairLine
    <3> QED
      BY <1>8, <3>2
  <2> QED
    BY <2>1, <2>2, <2>3, <2>4 DEF Reach
<1> QED
  BY <1>4, <1>9, <1>10

(* m answers what p has sent.                                              *)
LEMMA TurnFirst ==
  ASSUME RatchetInv, NEW p \in Party, NEW m, NEW s, NEW new, NEW t, NEW gone,
         Opens(p, m, s, new, t, gone), TurnedOn(t, s, m, new, gone)
  PROVE  FirstLine(p, t)'
<1>1. UNCHANGED sent /\ m \in sent /\ m.from = Peer(p)
  BY DEF Opens
<1>2. SameRoot(m.key[1], s.rk) /\ SameRoot(t.rk, s.rk)
  BY TurnChains
<1> QED
  BY <1>1, <1>2 DEF FirstLine, Unanswered, SameRoot

(* The peer still sends on the chain of m.                                 *)
LEMMA TurnLinked ==
  ASSUME RatchetInv, NEW p \in Party, NEW m, NEW s, NEW new, NEW t, NEW gone,
         Opens(p, m, s, new, t, gone), TurnedOn(t, s, m, new, gone),
         session[Peer(p)] # NoSession
  PROVE  Linked(t, session[Peer(p)])'
<1>0. FreshInv /\ LineInv /\ OnceInv
  BY DEF RatchetInv, ForgetInv
<1>1. PICK q \in Party : q = Peer(p)
  BY PeerIsParty
<1>2. PICK u : u = session[q] /\ session'[q] = u
  BY <1>1, PeerIsParty DEF Opens
<1>3. SessionLine(q, u) /\ Shape(u)
  BY <1>0, <1>1, <1>2 DEF LineInv, OnceInv, Used
<1>4. /\ m \in sent /\ m.from = q
      /\ m.key[1] = Append(s.rk, {s.dhs, m.dh}) /\ t.rk = Append(m.key[1], {new, m.dh})
      /\ t.dhs = new
  BY <1>1 DEF Opens, TurnedOn
<1>5. /\ Len(s.rk) \in Nat /\ Len(m.key[1]) = Len(s.rk) + 1
      /\ SameRoot(m.key[1], s.rk) /\ SameRoot(t.rk, s.rk)
  BY TurnChains
<1>6. /\ m.kind = "whisper" => SessionLine(p, s)
      /\ m.kind \in {"prekey", "whisper"} /\ severed \subseteq severed'
  BY ReadsWith
<1> SUFFICES ASSUME SameRoot(u.rk, t.rk), RootOf(t.rk) \notin severed'
             PROVE  Follows(t, u)
  BY <1>1, <1>2 DEF Linked
<1>7. /\ RootOf(s.rk) \notin severed /\ RootOf(u.rk) \notin severed
      /\ RootOf(m.key[1]) \notin severed'
      /\ SameRoot(u.rk, s.rk) /\ SameRoot(m.key[1], u.rk)
  BY <1>5, <1>6 DEF SameRoot
<1>8. u.rk = m.key[1]
  <2>1. CASE m.kind = "prekey"
    <3>1. Unanswered(m)
      BY <1>7, <2>1, FirstUnanswered
    <3> QED
      BY <1>3, <1>4, <1>7, <3>1 DEF SessionLine, FirstLine
  <2>2. CASE m.kind = "whisper"
    <3>1. Linked(s, u)
      BY <1>1, <1>2, <1>6, <2>2 DEF SessionLine
    <3>2. /\ Len(m.key[1]) <= Len(u.rk)
          /\ Len(m.key[1]) = Len(u.rk) => m.key[1] = u.rk
      BY <1>3, <1>4, <1>7 DEF SessionLine, OwnLine
    <3>3. u.rk \in Chain /\ s.rk \in Chain /\ Len(u.rk) \in Nat
      BY <1>3 DEF Opens, Used, Shape, Chain
    <3>4. CASE Follows(s, u)
      <4>1. Len(s.rk) = Len(u.rk) + 1
        BY <3>3, <3>4 DEF Follows, Chain
      <4> QED
        BY <1>5, <3>2, <3>3, <4>1
    <3>5. CASE Follows(u, s)
      <4>1. Len(u.rk) = Len(s.rk) + 1
        BY <3>3, <3>5 DEF Follows, Chain
      <4> QED
        BY <1>5, <3>2, <4>1
    <3> QED
      BY <1>7, <3>1, <3>4, <3>5 DEF Linked
  <2> QED
    BY <1>6, <2>1, <2>2
<1>9. u.dhs = m.dh
  BY <1>3, <1>4, <1>8 DEF SessionLine, OwnLine
<1> QED
  BY <1>4, <1>8, <1>9 DEF Follows

(* Both sessions turn to the next chain in step.                           *)
LEMMA TurnLine ==
  ASSUME RatchetInv, FreshInv', NEW p \in Party, NEW m, NEW s, NEW new, NEW t, NEW gone,
         Opens(p, m, s, new, t, gone), TurnedOn(t, s, m, new, gone)
  PROVE  LineInv'
<1>1. FormLine(p, t)' /\ OwnLine(p, t)'
  BY TurnForm, TurnOwn
<1>2. PeerLine(p, t)' /\ FirstLine(p, t)'
  BY TurnPeer, TurnFirst
<1>3. session[Peer(p)] # NoSession => Linked(t, session[Peer(p)])'
  BY TurnLinked
<1> QED
  BY <1>1, <1>2, <1>3, OpenLine

(* Every step keeps the messages and the sessions on their lines.          *)
LEMMA LineStep == RatchetInv /\ FreshInv' /\ [Next]_vars => LineInv'
<1> SUFFICES ASSUME RatchetInv, FreshInv', [Next]_vars PROVE LineInv'
  OBVIOUS
<1>0. ForgetInv /\ FreshInv /\ TypeInv /\ LineInv
  BY DEF RatchetInv, ForgetInv
<1>1. ASSUME NEW p \in Party, SendPrekey(p) PROVE LineInv'
  BY <1>1, SendPrekeyLine
<1>2. ASSUME NEW p \in Party, SendWhisper(p) PROVE LineInv'
  BY <1>2, SendWhisperLine
<1>3. ASSUME NEW p \in Party, Forget(p) PROVE LineInv'
  BY <1>0, <1>3, QuietLine DEF Forget, FreshInv, history
<1>4. ASSUME NEW p \in Party, NEW m \in net[p], Open(p, m) PROVE LineInv'
  <2>1. PICK s, new, t, gone : Opens(p, m, s, new, t, gone)
    BY <1>0, <1>4, OpenForm
  <2>2. CASE ~Turns(s, m) /\ TookKept(t, s, m)
    BY <2>1, <2>2, KeptLine
  <2>3. CASE ~Turns(s, m) /\ WentOn(t, s, m, gone)
    BY <2>1, <2>3, WentOnLine
  <2>4. CASE TurnedOn(t, s, m, new, gone)
    BY <2>1, <2>4, TurnLine
  <2> QED
    BY <2>1, <2>2, <2>3, <2>4 DEF Opens
<1>5. ASSUME NEW p \in Party, NEW m \in net[p], Refuse(p, m) \/ Lose(p, m) PROVE LineInv'
  BY <1>0, <1>5, QuietLine DEF Refuse, Lose, history
<1>6. CASE UNCHANGED vars
  BY <1>0, <1>6, QuietLine DEF vars, history
<1> QED
  BY <1>1, <1>2, <1>3, <1>4, <1>5, <1>6 DEF Next

(* Where passing over keys leaves the receiving chain.                     *)
LEMMA SkipPlace ==
  ASSUME NEW s, IsSession(s), s.nr \in Nat, s.ckr # None, NEW until \in Nat
  PROVE  /\ SkipTo(s, until).ckr = s.ckr
         /\ SkipTo(s, until).nr = IF s.nr >= until THEN s.nr ELSE until
<1>1. PICK ks : ks = Newest(s.skipped \o SkippedKeys(s, until))
  OBVIOUS
<1>2. SkipTo(s, until) = IF s.nr >= until THEN s ELSE [s EXCEPT !.skipped = ks, !.nr = until]
  BY <1>1 DEF SkipTo
<1> QED
  BY <1>2 DEF IsSession

(* Where a ratchet step leaves it.                                         *)
LEMMA RatchetPlace ==
  ASSUME NEW s, NEW dh, NEW new, NEW t, t = Ratchet(s, dh, new)
  PROVE  IsSession(t) /\ t.nr = 0 /\ t.ckr = Append(s.rk, {s.dhs, dh})
<1>1. PICK receiving : receiving = Append(s.rk, {s.dhs, dh})
  OBVIOUS
<1>2. PICK root : root = Append(receiving, {new, dh})
  OBVIOUS
<1>3. t = [rk |-> root, dhs |-> new, dhr |-> dh, cks |-> root, ckr |-> receiving,
           ns |-> 0, nr |-> 0, pn |-> s.ns, skipped |-> s.skipped]
  BY <1>1, <1>2 DEF Ratchet
<1> QED
  BY <1>1, <1>3 DEF IsSession

(* The key of a message on the next chain.                                 *)
LEMMA NextKey ==
  ASSUME NEW s, NEW new, NEW m, m.n \in Nat, m.key = <<m.key[1], m.n>>,
         m.key[1] # None, m.key[1] = Append(s.rk, {s.dhs, m.dh}),
         NEW u, u = Ratchet(s, m.dh, new), NEW a, a = SkipTo(u, m.n)
  PROVE  <<a.ckr, a.nr>> = m.key
<1>1. IsSession(u) /\ u.nr = 0 /\ u.ckr = m.key[1]
  BY RatchetPlace
<1>2. a.ckr = u.ckr /\ a.nr = IF u.nr >= m.n THEN u.nr ELSE m.n
  BY <1>1, SkipPlace
<1>3. a.nr = m.n
  BY <1>1, <1>2
<1> QED
  BY <1>1, <1>2, <1>3

(* A chain of two results.                                                 *)
LEMMA TwoMixed == ASSUME NEW x, NEW y PROVE Append(<<x>>, y) = <<x, y>>
<1>1. PICK c : c = <<x>>
  OBVIOUS
<1>2. PICK d : d = Append(c, y)
  OBVIOUS
<1>3. PICK e : e = <<x, y>>
  OBVIOUS
<1>4. c \in Seq({x, y}) /\ Len(c) = 1 /\ c[1] = x
  BY <1>1
<1>5. e \in Seq({x, y}) /\ Len(e) = 2 /\ e[1] = x /\ e[2] = y
  BY <1>3
<1>6. d \in Seq({x, y}) /\ Len(d) = 2 /\ d[1] = x /\ d[2] = y
  <2>1. PICK S : S = {x, y}
    OBVIOUS
  <2>2. c \in Seq(S) /\ y \in S
    BY <1>4, <2>1
  <2>3. /\ d \in Seq(S) /\ Len(d) = Len(c) + 1
        /\ d[Len(c) + 1] = y /\ \A i \in 1 .. Len(c) : d[i] = c[i]
    BY <1>2, <2>2
  <2> QED
    BY <1>4, <2>1, <2>3
<1>7. \A i \in 1 .. 2 : d[i] = e[i]
  BY <1>5, <1>6
<1>8. d = e
  BY <1>5, <1>6, <1>7
<1> QED
  BY <1>1, <1>2, <1>3, <1>8

(* A first message always decrypts.                                        *)
LEMMA FirstReadable ==
  ASSUME RatchetInv, NEW p \in Party, NEW m \in net[p], m.kind = "prekey"
  PROVE  Readable(p, m)
<1>0. FreshInv /\ OriginInv /\ TypeInv /\ LineInv
  BY DEF RatchetInv, ForgetInv
<1>1. m \in sent /\ m.from = Peer(p) /\ Peer(Peer(p)) = p
  BY <1>0, PeerOfPeer DEF TypeInv, SentBy
<1>2. IsMessage(m) /\ IsWhole(m) /\ MessageLine(m)
  BY <1>0, <1>1, MessageWhole DEF LineInv
<1>3. PICK new : new = NewKey(p, 1)
  OBVIOUS
<1>4. PICK s : s = Responder(p, m.base)
  OBVIOUS
<1>5. /\ Used(s, {}) /\ Turns(s, m) /\ s.rk = <<{m.base, Prekey(p)}>>
      /\ s.dhs = Prekey(p) /\ s.ckr = << >>
  BY <1>2, <1>4, ResponderForm DEF IsMessage
<1>6. KeptAt(s, m) = {} /\ SkipTo(s, m.pn) = s
  BY <1>5 DEF Turns, SkipTo, None
<1>7. PICK u : u = Ratchet(s, m.dh, new)
  OBVIOUS
<1>8. PICK a : a = SkipTo(u, m.n)
  OBVIOUS
<1>9. Turned(s, m, new) = u /\ Advanced(s, m, new) = a
  BY <1>5, <1>6, <1>7, <1>8 DEF Turned, Advanced
<1>10. /\ m.n = 0 /\ m.key = <<m.key[1], m.n>>
       /\ m.key[1] = <<{m.base, Prekey(p)}, {m.dh, Prekey(p)}>> /\ m.key[1] # None
  BY <1>1, <1>2 DEF MessageLine, IsMessage, IsWhole, None
<1>11. m.key[1] = Append(s.rk, {s.dhs, m.dh})
  <2>1. {m.dh, Prekey(p)} = {Prekey(p), m.dh}
    OBVIOUS
  <2>2. PICK x : x = {m.base, Prekey(p)}
    OBVIOUS
  <2>3. PICK y : y = {Prekey(p), m.dh}
    OBVIOUS
  <2>4. Append(<<x>>, y) = <<x, y>>
    BY TwoMixed
  <2>5. s.rk = <<x>> /\ m.key[1] = <<x, y>>
    BY <1>5, <1>10, <2>1, <2>2, <2>3
  <2>6. {s.dhs, m.dh} = y
    BY <1>5, <2>3
  <2> QED
    BY <2>4, <2>5, <2>6
<1>12. KeyFor(s, m, new) = m.key
  <2>1. <<a.ckr, a.nr>> = m.key
    <3>1. m.n \in Nat
      BY <1>10
    <3>2. m.key = <<m.key[1], m.n>> /\ m.key[1] # None
      BY <1>10
    <3> QED
      BY <1>7, <1>8, <1>11, <3>1, <3>2, NextKey
  <2> QED
    BY <1>6, <1>9, <2>1 DEF KeyFor
<1>13. ~TooFar(s, m, new)
  <2>1. u.nr = 0
    BY <1>7, RatchetPlace
  <2>2. ~Overreaches(u, m.n)
    BY <1>10, <2>1, RatchetAssumption DEF Overreaches
  <2>3. ~Overreaches(s, m.pn)
    BY <1>5 DEF Overreaches, None
  <2> QED
    BY <1>9, <2>2, <2>3 DEF TooFar
<1> QED
  BY <1>3, <1>4, <1>12, <1>13 DEF Readable, CanDecrypt, SessionFor

(* What the store holds of m, it holds under the header of m.              *)
LEMMA KeptIsOwn ==
  ASSUME RatchetInv, NEW p \in Party, NEW s, Used(s, {}), FormLine(p, s),
         NEW m \in sent, m.from = Peer(p), m.key = <<m.key[1], m.n>>
  PROVE  /\ \A i \in KeptAt(s, m) : s.skipped[i].key = m.key
         /\ m.key \in KeysOf(s.skipped) => KeptAt(s, m) # {}
<1>1. s.skipped \in Seq(Entry)
  BY DEF Used, Shape, IsStore
<1>2. ASSUME NEW i \in DOMAIN s.skipped
      PROVE  s.skipped[i].key = m.key <=> s.skipped[i].dh = m.dh /\ s.skipped[i].n = m.n
  <2>1. PICK e : e = s.skipped[i]
    OBVIOUS
  <2>2. e \in ToSet(s.skipped) /\ e \in Entry
    BY <1>1, <2>1 DEF ToSet
  <2>3. e.n = e.key[2] /\ e.key = <<e.key[1], e.key[2]>>
    BY <2>2 DEF FormLine, Entry, Key
  <2>4. PICK n \in sent : n.from = Peer(p) /\ n.key[1] = e.key[1] /\ n.dh = e.dh
    BY <2>2 DEF FormLine
  <2>5. m.dh = n.dh <=> m.key[1] = n.key[1]
    BY <2>4 DEF RatchetInv, LineInv, PairLine
  <2>6. e.key = m.key <=> e.key[1] = m.key[1] /\ e.key[2] = m.n
    BY <2>3
  <2> QED
    BY <2>1, <2>3, <2>4, <2>5, <2>6
<1> QED
  BY <1>2 DEF KeptAt, KeysOf

(* A later message of the session in use decrypts, but for the exceptions. *)
LEMMA LaterReadable ==
  ASSUME RatchetInv, NEW p \in Party, NEW m \in net[p], m.kind = "whisper",
         InSession(p, m), m \notin opened[p], m.key \notin evicted,
         ~TooFar(session[p], m, NewKey(p, 1)), RootOf(m.key[1]) \notin severed
  PROVE  Readable(p, m)
<1>0. FreshInv /\ OriginInv /\ OnceInv /\ TypeInv /\ LineInv
  BY DEF RatchetInv, ForgetInv
<1>1. m \in sent /\ m.from = Peer(p)
  BY <1>0 DEF TypeInv, SentBy
<1>2. IsMessage(m) /\ IsWhole(m) /\ MessageLine(m)
  BY <1>0, <1>1, MessageWhole DEF LineInv
<1>3. /\ m.key = <<m.key[1], m.n>> /\ m.n \in Nat /\ m.pn \in Nat /\ m.key[1] \in Chain
      /\ m.key[1] # << >> /\ m.key[2] = m.n /\ m.dh \in KeyPair
  BY <1>2 DEF IsMessage, IsWhole, Grown
<1>4. PICK new : new = NewKey(p, 1)
  OBVIOUS
<1>5. PICK s : s = session[p]
  OBVIOUS
<1>6. session[p] # NoSession /\ RootOf(s.rk) = RootOf(m.key[1])
  BY <1>5 DEF InSession
<1>7. SessionLine(p, s)
  BY <1>0, <1>5, <1>6 DEF LineInv
<1>8. Used(s, {})
  <2>1. PICK K : K = UsedKeys(p, RootOf(s.rk))
    OBVIOUS
  <2>2. Used(s, K)
    BY <1>0, <1>5, <1>6, <2>1 DEF OnceInv
  <2> QED
    BY <2>2 DEF Used
<1>9. /\ IsSession(s) /\ s.rk \in Chain /\ s.ckr \in Chain /\ Len(s.ckr) <= Len(s.rk)
      /\ s.nr \in Nat /\ Len(s.rk) \in Nat /\ Len(s.ckr) \in Nat /\ Len(m.key[1]) \in Nat
  BY <1>3, <1>8 DEF Used, Shape, Chain
<1>10. Reach(p, s, m)
  BY <1>1, <1>6, <1>7 DEF SessionLine, PeerLine, SameRoot
<1>11. /\ \A i \in KeptAt(s, m) : s.skipped[i].key = m.key
       /\ m.key \in KeysOf(s.skipped) => KeptAt(s, m) # {}
  BY <1>1, <1>3, <1>7, <1>8, KeptIsOwn DEF SessionLine
<1>12. ~Behind(s, m.key) => KeptAt(s, m) = {}
  <2>1. KeptAt(s, m) # {} => m.key \in KeysOf(s.skipped)
    BY <1>11 DEF KeptAt, KeysOf
  <2>2. m.key \in KeysOf(s.skipped) => Behind(s, m.key)
    BY <1>8 DEF Used, Passed, Behind
  <2> QED
    BY <2>1, <2>2
<1>13. ASSUME s.ckr # None
       PROVE  s.dhr = m.dh <=> s.ckr = m.key[1]
  <2>1. PICK n \in sent : n.from = Peer(p) /\ n.key = <<s.ckr, s.nr - 1>> /\ n.dh = s.dhr
    BY <1>7, <1>13 DEF SessionLine, FormLine
  <2>2. m.dh = n.dh <=> m.key[1] = n.key[1]
    BY <1>0, <1>1, <2>1 DEF LineInv, PairLine
  <2> QED
    BY <2>1, <2>2
<1>14. KeyFor(s, m, new) = m.key
  <2>1. CASE Behind(s, m.key) /\ m.key \in KeysOf(s.skipped)
    <3>1. KeptAt(s, m) # {}
      BY <1>11, <2>1
    <3>2. PICK i : i = (CHOOSE j \in KeptAt(s, m) : TRUE) /\ i \in KeptAt(s, m)
      BY <3>1
    <3>3. s.skipped[i].key = m.key
      BY <1>11, <3>2
    <3> QED
      BY <3>1, <3>2, <3>3 DEF KeyFor
  <2>2. CASE m.key[1] = s.ckr /\ m.n >= s.nr
    <3>1. ~Behind(s, m.key)
      BY <1>3, <1>9, <2>2 DEF Behind
    <3>2. KeptAt(s, m) = {} /\ ~Turns(s, m)
      BY <1>3, <1>12, <1>13, <2>2, <3>1 DEF Turns, None
    <3>3. PICK a : a = SkipTo(s, m.n)
      OBVIOUS
    <3>4. a = Advanced(s, m, new)
      BY <3>2, <3>3 DEF Advanced, Turned
    <3>5. a.ckr = s.ckr /\ a.nr = IF s.nr >= m.n THEN s.nr ELSE m.n
      BY <1>3, <1>9, <2>2, <3>3, SkipPlace DEF None
    <3>6. a.nr = m.n
      BY <1>3, <1>9, <2>2, <3>5
    <3> QED
      BY <1>3, <2>2, <3>2, <3>4, <3>5, <3>6 DEF KeyFor
  <2>3. CASE m.key[1] = Append(s.rk, {s.dhs, m.dh})
    <3>1. Len(m.key[1]) = Len(s.rk) + 1
      BY <1>9, <2>3 DEF Chain
    <3>2. ~Behind(s, m.key) /\ m.key[1] # s.ckr
      BY <1>9, <3>1 DEF Behind
    <3>3. s.dhr # m.dh
      <4>1. CASE s.ckr = None
        <5>1. s.dhr[2] = 0
          BY <1>7, <4>1 DEF SessionLine, FormLine
        <5>2. m.dh[2] >= 1
          BY <1>2 DEF MessageLine
        <5> QED
          BY <5>1, <5>2
      <4>2. CASE s.ckr # None
        BY <1>13, <3>2, <4>2
      <4> QED
        BY <4>1, <4>2
    <3>4. KeptAt(s, m) = {} /\ Turns(s, m)
      BY <1>12, <3>2, <3>3 DEF Turns
    <3>5. PICK v : v = SkipTo(s, m.pn)
      OBVIOUS
    <3>6. v.rk = s.rk /\ v.dhs = s.dhs
      BY <1>9, <3>5, SkipKeeps DEF SendsLike
    <3>7. PICK u : u = Ratchet(v, m.dh, new)
      OBVIOUS
    <3>8. PICK a : a = SkipTo(u, m.n)
      OBVIOUS
    <3>9. a = Advanced(s, m, new)
      BY <3>4, <3>5, <3>7, <3>8 DEF Advanced, Turned
    <3>10. <<a.ckr, a.nr>> = m.key
      <4>1. m.key[1] = Append(v.rk, {v.dhs, m.dh})
        BY <2>3, <3>6
      <4>2. m.key[1] # None
        BY <1>3 DEF None
      <4>3. m.n \in Nat /\ m.key = <<m.key[1], m.n>>
        BY <1>3
      <4> QED
        BY <3>7, <3>8, <4>1, <4>2, <4>3, NextKey
    <3> QED
      BY <3>4, <3>9, <3>10 DEF KeyFor
  <2> QED
    BY <1>10, <2>1, <2>2, <2>3 DEF Reach
<1>15. CanDecrypt(s, m, new)
  BY <1>4, <1>5, <1>14 DEF CanDecrypt
<1> QED
  BY <1>4, <1>5, <1>6, <1>15 DEF Readable, SessionFor

(* A message of the session its receiver holds decrypts, in whatever order *)
(* messages come and however many were lost: the only exceptions are those *)
(* read before, those too far ahead, those whose key a full store dropped, *)
(* and a session restarted by a repeated prekey message after its holder   *)
(* had sent on it.  A first message always decrypts.                       *)
(* ratchet_decrypt, _skip_message_keys, accept_prekey.                     *)
THEOREM SessionMessagesAreReadable == Spec => []InSessionReadable
<1>1. RatchetInv => InSessionReadable
  <2> SUFFICES ASSUME RatchetInv, NEW p \in Party, NEW m \in net[p], ~Readable(p, m)
               PROVE  /\ m.kind = "whisper"
                      /\ \/ ~InSession(p, m)
                         \/ m \in opened[p]
                         \/ m.key \in evicted
                         \/ TooFar(session[p], m, NewKey(p, 1))
                         \/ RootOf(m.key[1]) \in severed
    BY DEF InSessionReadable
  <2>1. m.kind \in {"prekey", "whisper"}
    BY DEF RatchetInv, ForgetInv, FreshInv, IsMessage
  <2> QED
    BY <2>1, FirstReadable, LaterReadable
<1>2. Init => RatchetInv
  BY ForgetInit, TypeInit, LineInit DEF RatchetInv
<1>3. RatchetInv /\ [Next]_vars => RatchetInv'
  <2> SUFFICES ASSUME RatchetInv, [Next]_vars PROVE RatchetInv'
    OBVIOUS
  <2>1. ForgetInv' /\ TypeInv'
    BY ForgetStep, TypeStep DEF RatchetInv
  <2>2. FreshInv'
    BY <2>1 DEF ForgetInv
  <2>3. LineInv'
    BY <2>2, LineStep
  <2> QED
    BY <2>1, <2>3 DEF RatchetInv
<1> QED
  BY <1>1, <1>2, <1>3, PTL DEF Spec
==============================================================================
