---------------------------- MODULE DoubleRatchet ----------------------------
(***************************************************************************)
(* The double ratchet between two devices that both run this code:         *)
(* native/ratchet.py, with the two places that call it, encrypt_prekey and *)
(* encrypt_whisper of native/messaging.py and _decrypt_envelope of         *)
(* native/receive.py.                                                      *)
(*                                                                         *)
(* A call works on a copy of the stored session and stores it under the    *)
(* account lock when it succeeds, so each is one step, and one that raises *)
(* changes nothing.  Messages are lost before the server has them, they    *)
(* overtake each other, and the server delivers again what it has no ack   *)
(* of.                                                                     *)
(*                                                                         *)
(* Keys are terms.  A key pair is its owner and a number (0: the signed    *)
(* prekey), a Diffie-Hellman result the set of both pairs, a root or chain *)
(* key the sequence of the results mixed into it, and a message key a      *)
(* chain with a position; a message decrypts with its own key only.  The   *)
(* post-quantum salt of the key is the subject of Spqr and KeyWindow.      *)
(***************************************************************************)
EXTENDS Naturals, Sequences, FiniteSets, SequencesExt

CONSTANTS A, B,          (* the two devices                                *)
          NoSession,     (* no entry in nativeRatchetSessions              *)
          MaxSkip,       (* MAX_SKIP                                       *)
          Quota,         (* bound: [Party -> messages it sends]            *)
          MaxRepeats,    (* bound on the messages delivered again          *)
          MaxForgets     (* bound on the sessions dropped by a sender      *)

Party == {A, B}
Peer(p) == CHOOSE q \in Party : q # p

ASSUME RatchetAssumption == /\ A # B
                            /\ MaxSkip \in Nat \ {0}
                            /\ Quota \in [Party -> Nat]
                            /\ MaxRepeats \in Nat /\ MaxForgets \in Nat

VARIABLES session,       (* [Party -> Session or NoSession]                *)
          fresh,         (* [Party -> key pairs it has generated]          *)
          sent,          (* all messages sent                              *)
          net,           (* [Party -> messages under way to it]            *)
          opened,        (* history: [Party -> messages it has decrypted]  *)
          reopened,      (* history: ... decrypted more than once          *)
          evicted,       (* history: keys dropped from a full store        *)
          restarted,     (* history: roots accepted more than once         *)
          severed,       (* history: ... by a party that had sent on them  *)
          repeats, forgets

history == <<opened, reopened, evicted, restarted, severed>>
vars == <<session, fresh, sent, net, history, repeats, forgets>>

None == << >>
Prekey(p) == <<p, 0>>
NewKey(p, i) == <<p, fresh[p] + i>>

Init ==
  /\ session = [p \in Party |-> NoSession]
  /\ fresh = [p \in Party |-> 0]
  /\ sent = {}
  /\ net = [p \in Party |-> {}]
  /\ opened = [p \in Party |-> {}]
  /\ reopened = [p \in Party |-> {}]
  /\ evicted = {} /\ restarted = {} /\ severed = {}
  /\ repeats = 0 /\ forgets = 0

(* The secret of the handshake that a session or a message goes back to.   *)
RootOf(key) == key[1]

-----------------------------------------------------------------------------
(* Sessions.                                                               *)

(* init_sender_session                                                     *)
Initiator(p) ==
  LET theirs == Prekey(Peer(p))
      dh == NewKey(p, 2)
      key == <<{NewKey(p, 1), theirs}, {dh, theirs}>>
  IN [rk |-> key, dhs |-> dh, dhr |-> theirs, cks |-> key, ckr |-> None,
      ns |-> 0, nr |-> 0, pn |-> 0, skipped |-> << >>]

(* accept_prekey, before it decrypts the message inside.                   *)
Responder(p, base) ==
  LET root == <<{base, Prekey(p)}>>
  IN [rk |-> root, dhs |-> Prekey(p), dhr |-> None, cks |-> root,
      ckr |-> None, ns |-> 0, nr |-> 0, pn |-> 0, skipped |-> << >>]

(* ratchet_encrypt: the next message, its header and the key it is made of.*)
Encrypted(s, from, id, kind, base) ==
  [from |-> from, id |-> id, kind |-> kind, base |-> base,
   dh |-> s.dhs, n |-> s.ns, pn |-> s.pn, key |-> <<s.cks, s.ns>>]

-----------------------------------------------------------------------------
(* ratchet_decrypt.                                                        *)

Overreaches(s, until) == s.ckr # None /\ s.nr + MaxSkip < until

SkippedKeys(s, until) ==
  IF s.ckr = None THEN << >>
  ELSE [i \in 1..(until - s.nr) |->
          [dh |-> s.dhr, n |-> s.nr + i - 1, key |-> <<s.ckr, s.nr + i - 1>>]]

\* Mutant: the store keeps one key more than it should.
NewestAndOne(keys) ==
  IF Len(keys) <= MaxSkip + 1 THEN keys
  ELSE SubSeq(keys, Len(keys) - MaxSkip, Len(keys))

Newest(keys) ==
  IF Len(keys) <= MaxSkip THEN keys
  ELSE SubSeq(keys, Len(keys) - MaxSkip + 1, Len(keys))

(* _skip_message_keys: keep the keys up to until, the newest MaxSkip.      *)
SkipTo(s, until) ==
  IF s.nr >= until \/ s.ckr = None THEN s
  ELSE [s EXCEPT !.skipped = Newest(@ \o SkippedKeys(s, until)), !.nr = until]

\* Mutant: ns is reset before pn takes it.
RatchetResets(s, dh, new) ==
  LET receiving == Append(s.rk, {s.dhs, dh})
      root == Append(receiving, {new, dh})
  IN [rk |-> root, dhs |-> new, dhr |-> dh, cks |-> root, ckr |-> receiving,
      ns |-> 0, nr |-> 0, pn |-> 0, skipped |-> s.skipped]

(* _dh_ratchet on the peer's new key dh, with a new pair of our own.       *)
Ratchet(s, dh, new) ==
  LET receiving == Append(s.rk, {s.dhs, dh})
      root == Append(receiving, {new, dh})
  IN [rk |-> root, dhs |-> new, dhr |-> dh, cks |-> root, ckr |-> receiving,
      ns |-> 0, nr |-> 0, pn |-> s.ns, skipped |-> s.skipped]

KeptAt(s, m) ==
  {i \in DOMAIN s.skipped : s.skipped[i].dh = m.dh /\ s.skipped[i].n = m.n}

(* The session turned to the chain of m, and advanced to m on it.          *)
Turns(s, m) == KeptAt(s, m) = {} /\ s.dhr # m.dh

Turned(s, m, new) ==
  IF Turns(s, m) THEN Ratchet(SkipTo(s, m.pn), m.dh, new) ELSE s

Advanced(s, m, new) == SkipTo(Turned(s, m, new), m.n)

TooFar(s, m, new) ==
  /\ KeptAt(s, m) = {}
  /\ \/ Turns(s, m) /\ Overreaches(s, m.pn)
     \/ Overreaches(Turned(s, m, new), m.n)

KeyFor(s, m, new) ==
  IF KeptAt(s, m) # {}
  THEN s.skipped[CHOOSE i \in KeptAt(s, m) : TRUE].key
  ELSE LET t == Advanced(s, m, new) IN <<t.ckr, t.nr>>

CanDecrypt(s, m, new) == ~TooFar(s, m, new) /\ KeyFor(s, m, new) = m.key

\* Mutant: a kept key stays in the store.
DecryptedKeeping(s, m, new) ==
  IF KeptAt(s, m) # {} THEN s
  ELSE [Advanced(s, m, new) EXCEPT !.nr = @ + 1]

(* The session after m was decrypted.                                      *)
Decrypted(s, m, new) ==
  IF KeptAt(s, m) # {}
  THEN [s EXCEPT !.skipped = RemoveAt(@, CHOOSE i \in KeptAt(s, m) : TRUE)]
  ELSE [Advanced(s, m, new) EXCEPT !.nr = @ + 1]

(* The keys that there is no room for on the way: all but the newest       *)
(* MaxSkip of those kept before and those passed over.                     *)
Evicted(s, m, new) ==
  LET tail == IF Turns(s, m) THEN SkippedKeys(s, m.pn) ELSE << >>
      all == s.skipped \o tail \o SkippedKeys(Turned(s, m, new), m.n)
  IN IF KeptAt(s, m) # {} THEN {}
     ELSE {all[i].key : i \in 1..(Len(all) - MaxSkip)}

-----------------------------------------------------------------------------
(* Sending.                                                                *)

SentBy(p) == {m \in sent : m.from = p}

Transmit(p, s, kind, base) ==
  LET m == Encrypted(s, p, Cardinality(SentBy(p)), kind, base)
  IN /\ Cardinality(SentBy(p)) < Quota[p]
     /\ session' = [session EXCEPT ![p] = [s EXCEPT !.ns = @ + 1]]
     /\ sent' = sent \union {m}
     /\ net' = [net EXCEPT ![Peer(p)] = @ \union {m}]
     /\ UNCHANGED <<history, repeats, forgets>>

(* encrypt_prekey: no session is stored, a bundle is fetched.              *)
SendPrekey(p) ==
  /\ session[p] = NoSession
  /\ Transmit(p, Initiator(p), "prekey", NewKey(p, 1))
  /\ fresh' = [fresh EXCEPT ![p] = @ + 2]

(* encrypt_whisper: every later message on a stored session.               *)
SendWhisper(p) ==
  /\ session[p] # NoSession
  /\ Transmit(p, session[p], "whisper", None)
  /\ UNCHANGED fresh

(* _prepare_outgoing drops the session of a device the server called stale *)
(* or no longer lists.                                                     *)
Forget(p) ==
  /\ session[p] # NoSession
  /\ forgets < MaxForgets /\ forgets' = forgets + 1
  /\ session' = [session EXCEPT ![p] = NoSession]
  /\ UNCHANGED <<fresh, sent, net, history, repeats>>

-----------------------------------------------------------------------------
(* Receiving.                                                              *)

(* The session m is decrypted with: a prekey message always starts anew.   *)
SessionFor(p, m) ==
  IF m.kind = "prekey" THEN Responder(p, m.base) ELSE session[p]

Readable(p, m) ==
  /\ m.kind = "whisper" => session[p] # NoSession
  /\ CanDecrypt(SessionFor(p, m), m, NewKey(p, 1))

(* The ack reaches the server, or the message is delivered once more.      *)
Acked(p, m) ==
  \/ net' = [net EXCEPT ![p] = @ \ {m}] /\ UNCHANGED repeats
  \/ repeats < MaxRepeats /\ repeats' = repeats + 1 /\ UNCHANGED net

HasSentOn(p, key) == \E m \in SentBy(p) : RootOf(m.key[1]) = RootOf(key)

Record(p, m) ==
  LET root == RootOf(m.key[1])
      again == m.kind = "prekey" /\ m \in opened[p]
  IN /\ opened' = [opened EXCEPT ![p] = @ \union {m}]
     /\ reopened' = IF m \in opened[p]
                    THEN [reopened EXCEPT ![p] = @ \union {m}] ELSE reopened
     /\ evicted' = evicted \union
                   Evicted(SessionFor(p, m), m, NewKey(p, 1))
     /\ restarted' = IF again THEN restarted \union {root} ELSE restarted
     /\ severed' = IF again /\ HasSentOn(p, m.key[1])
                   THEN severed \union {root} ELSE severed

\* Mutant: a ratchet step reuses the own key pair.
OpenStale(p, m) ==
  LET s == SessionFor(p, m) IN
  /\ Readable(p, m)
  /\ session' = [session EXCEPT ![p] = Decrypted(s, m, s.dhs)]
  /\ Acked(p, m)
  /\ Record(p, m)
  /\ UNCHANGED <<fresh, sent, forgets>>

Open(p, m) ==
  LET s == SessionFor(p, m)
      new == NewKey(p, 1)
  IN /\ Readable(p, m)
     /\ session' = [session EXCEPT ![p] = Decrypted(s, m, new)]
     /\ fresh' = [fresh EXCEPT ![p] = IF Turns(s, m) THEN @ + 1 ELSE @]
     /\ Acked(p, m)
     /\ Record(p, m)
     /\ UNCHANGED <<sent, forgets>>

(* It raises: the envelope is quarantined and acked.                       *)
Refuse(p, m) ==
  /\ ~Readable(p, m)
  /\ net' = [net EXCEPT ![p] = @ \ {m}]
  /\ UNCHANGED <<session, fresh, sent, history, repeats, forgets>>

(* The PUT of a message fails.                                             *)
Lose(p, m) ==
  /\ m \notin opened[p]
  /\ net' = [net EXCEPT ![p] = @ \ {m}]
  /\ UNCHANGED <<session, fresh, sent, history, repeats, forgets>>

Next ==
  \E p \in Party :
    \/ SendPrekey(p) \/ SendWhisper(p) \/ Forget(p)
    \/ \E m \in net[p] : Open(p, m) \/ Refuse(p, m) \/ Lose(p, m)

Spec == Init /\ [][Next]_vars

-----------------------------------------------------------------------------
(* Properties.                                                             *)

Pairs == Party \X Nat
Chains == Seq(SUBSET Pairs)

TypeOK ==
  /\ \A p \in Party :
       session[p] # NoSession =>
         LET s == session[p] IN
         /\ {s.rk, s.cks} \subseteq Chains \ {None} /\ s.ckr \in Chains
         /\ s.dhs \in Pairs /\ s.dhr \in Pairs
         /\ {s.ns, s.nr, s.pn} \subseteq 0..Quota[A] + Quota[B]
         /\ Len(s.skipped) <= MaxSkip
  /\ \A p \in Party : net[p] \subseteq SentBy(Peer(p)) /\ opened[p] \subseteq sent

(* No message key is used for two messages, through any replacement of     *)
(* sessions.  ratchet_encrypt, _dh_ratchet, init_sender_session.           *)
KeysAreFresh ==
  \A m1, m2 \in sent : m1.key = m2.key => m1 = m2

(* A message of the session its receiver holds decrypts, in whatever order *)
(* messages come and however many were lost: the only exceptions are those *)
(* read before, those too far ahead, those whose key a full store dropped, *)
(* and a session restarted by a repeated prekey message after its holder   *)
(* had sent on it.  A first message always decrypts.                       *)
(* ratchet_decrypt, _skip_message_keys, accept_prekey.                     *)
InSession(p, m) ==
  /\ session[p] # NoSession
  /\ RootOf(session[p].rk) = RootOf(m.key[1])

InSessionReadable ==
  \A p \in Party : \A m \in net[p] :
    ~Readable(p, m) =>
      /\ m.kind = "whisper"
      /\ \/ ~InSession(p, m)
         \/ m \in opened[p]
         \/ m.key \in evicted
         \/ TooFar(session[p], m, NewKey(p, 1))
         \/ RootOf(m.key[1]) \in severed

(* A message delivered again is not decrypted again, unless a repeated     *)
(* prekey message restarted the session.                                   *)
OpenedOnce ==
  \A p \in Party : \A m \in reopened[p] :
    m.kind = "prekey" \/ RootOf(m.key[1]) \in restarted

(* The key of a message that was read is gone from the session, unless a   *)
(* repeated prekey message restarted it.                                   *)
KeysAreForgotten ==
  \A p \in Party : session[p] # NoSession =>
    \A k \in ToSet(session[p].skipped) : \A m \in opened[p] :
      k.key = m.key => RootOf(m.key[1]) \in restarted
==============================================================================
