-------------------------------- MODULE Spqr --------------------------------
(***************************************************************************)
(* The post-quantum ratchet of one session: native/pure/spqr.py, both ends *)
(* of it, over a channel that loses and reorders messages.                 *)
(*                                                                         *)
(* In every epoch one party offers a key (header, then encapsulation key)  *)
(* and the other answers with a ciphertext in two parts; both are cut into *)
(* chunks, one chunk rides on each message, and the roles swap for the     *)
(* next epoch.  A call works on a decoded copy of the stored state and     *)
(* returns the new one, so each send or recv is one step and a raise       *)
(* leaves the state as it was.                                             *)
(*                                                                         *)
(* Data: a key pair and an encapsulation are the number of the sample that *)
(* made them (0: the empty bytes); a secret is the pair of both; a MAC key *)
(* is the sequence of secrets mixed into it.  A decoder is the number of   *)
(* chunks it holds and the body they encode, or Garbage when they mix.     *)
(* The key a message gets within its epoch is module KeyWindow.            *)
(***************************************************************************)
EXTENDS Naturals, Sequences, FiniteSets, Bags

CONSTANTS A, B,        (* the initiator and the responder of the session   *)
          Needed,      (* chunks that decode a body                        *)
          Capacity,    (* bound on the messages under way to a party       *)
          MaxEpoch     (* bound: a party past this epoch sends nothing     *)

Party == {A, B}
Peer(p) == CHOOSE q \in Party : q # p

ASSUME SpqrAssumption == /\ A # B
                         /\ Needed \in Nat /\ Needed > 1
                         /\ Capacity \in Nat \ {0}
                         /\ MaxEpoch \in Nat \ {0}

VARIABLES st,          (* [Party -> States]                                *)
          chain,       (* [Party -> Chain]                                 *)
          net,         (* [Party -> bag of messages under way to it]       *)
          samples      (* samples of randomness taken so far               *)

vars == <<st, chain, net, samples>>

None == << >>
Garbage == <<"garbage", <<0, 0>>, None>>

-----------------------------------------------------------------------------
(* The state of one party.                                                 *)

Kinds == {"keys_unsampled", "keys_sampled", "header_sent", "ct1_received",
          "ek_sent_ct1_received", "no_header_received", "header_received",
          "ct1_sampled", "ek_received_ct1_sampled", "ct1_acknowledged",
          "ct2_sampled"}

Blank == [kind |-> "keys_unsampled", epoch |-> 1, auth |-> << >>,
          hdr |-> 0, ek |-> 0, dk |-> 0, es |-> 0, ct1 |-> None,
          sending |-> None, receiving |-> None]

EmptyDecoder == <<0, None>>

(* The fields the protobuf message of each kind stores, and so all that is *)
(* left of a state in the next call.                                       *)
Stored ==
  [keys_unsampled          |-> {},
   keys_sampled            |-> {"ek", "dk", "sending"},
   header_sent             |-> {"dk", "sending", "receiving"},
   ct1_received            |-> {"dk", "ct1", "sending"},
   ek_sent_ct1_received    |-> {"dk", "ct1", "receiving"},
   no_header_received      |-> {"receiving"},
   header_received         |-> {"hdr", "receiving"},
   ct1_sampled             |-> {"hdr", "es", "ct1", "sending", "receiving"},
   ek_received_ct1_sampled |-> {"es", "ek", "ct1", "sending"},
   ct1_acknowledged        |-> {"hdr", "es", "ct1", "receiving"},
   ct2_sampled             |-> {"sending"}]

Save(s) == [f \in DOMAIN s |->
              IF f \in {"kind", "epoch", "auth"} \union Stored[s.kind]
              THEN s[f] ELSE Blank[f]]

Init ==
  /\ st = [p \in Party |->
             IF p = A THEN Blank
             ELSE [Blank EXCEPT !.kind = "no_header_received",
                                !.receiving = EmptyDecoder]]
  /\ chain = [p \in Party |-> [secrets |-> << >>, sendEpoch |-> 0, oldest |-> 0]]
  /\ net = [p \in Party |-> EmptyBag]
  /\ samples = 0

-----------------------------------------------------------------------------
(* Bodies: what the chunks of one stream encode.                           *)

HeaderBody(s) == <<"hdr", s.dk, s.auth>>
EkBody(s) == <<"ek", s.ek>>
Ct1Body(s) == <<"ct1", s.ct1>>
Ct2Body(s) == <<"ct2", <<s.ek, s.es>>, <<s.auth, s.ct1>>>>

AddChunk(d, body) ==
  <<d[1] + 1, IF d[1] = 0 \/ d[2] = body THEN body ELSE Garbage>>

Complete(d) == d[1] >= Needed

(* Only the two parts of one ciphertext for this key open to its secret.   *)
Decaps(dk, ct1, ct2) ==
  IF ct1 = ct2 /\ ct1[1] = dk THEN ct1 ELSE <<0, 0>>

-----------------------------------------------------------------------------
(* The chain of epochs.                                                    *)

CurrentEpoch(c) == Len(c.secrets)

AddEpoch(c, secret) ==
  IF secret = None THEN c ELSE [c EXCEPT !.secrets = Append(@, secret)]

(* The assertion of add_epoch.                                             *)
OutOfStep(p) == st[p].epoch # CurrentEpoch(chain[p]) + 1

HasLink(c, epoch) == epoch \in c.oldest..CurrentEpoch(c)

\* Mutant: one link too many is dropped, that of the send epoch itself.
MoveDropsAll(c, epoch) ==
  [c EXCEPT !.sendEpoch = epoch,
            !.oldest = IF epoch > @ + 1 THEN epoch + 1 ELSE @]

\* Mutant: no epoch prior to the send epoch is kept.
MoveKeepsNone(c, epoch) ==
  [c EXCEPT !.sendEpoch = epoch, !.oldest = epoch]

(* Sending in a new epoch drops the links before its predecessor.          *)
MoveSendEpoch(c, epoch) ==
  [c EXCEPT !.sendEpoch = epoch,
            !.oldest = IF epoch > @ + 1 THEN epoch - 1 ELSE @]

SendKeyFails(c, epoch) == epoch < c.sendEpoch \/ ~HasLink(c, epoch)

-----------------------------------------------------------------------------
(* send: the message of each kind of state.                                *)

MessageType ==
  [keys_unsampled          |-> "hdr",
   keys_sampled            |-> "hdr",
   header_sent             |-> "ek",
   ct1_received            |-> "ek_ct1_ack",
   ek_sent_ct1_received    |-> "ct1_ack",
   no_header_received      |-> "none",
   header_received         |-> "ct1",
   ct1_sampled             |-> "ct1",
   ek_received_ct1_sampled |-> "ct1",
   ct1_acknowledged        |-> "none",
   ct2_sampled             |-> "ct2"]

Message(type, s) == [epoch |-> s.epoch, type |-> type, chunk |-> s.sending]

(* Store state s and chain c with the key of this message taken, and put   *)
(* the message on the wire.                                                *)
Emit(p, s, c) ==
  /\ BagCardinality(net[Peer(p)]) < Capacity
  /\ st[p].epoch <= MaxEpoch
  /\ ~SendKeyFails(c, s.epoch - 1)
  /\ st' = [st EXCEPT ![p] = Save(s)]
  /\ chain' = [chain EXCEPT ![p] = MoveSendEpoch(c, s.epoch - 1)]
  /\ net' = [net EXCEPT ![Peer(p)] =
               @ (+) SetToBag({Message(MessageType[st[p].kind], s)})]

SampleKeys(p) ==
  LET k == samples + 1
      s == [st[p] EXCEPT !.kind = "keys_sampled", !.ek = k, !.dk = k]
  IN /\ st[p].kind = "keys_unsampled"
     /\ samples' = k
     /\ Emit(p, [s EXCEPT !.sending = HeaderBody(s)], chain[p])

\* Mutant: every message of ct1 encapsulates anew.
EncapsulateAgain(p) ==
  LET r == samples + 1
      secret == <<st[p].hdr, r>>
      s == [st[p] EXCEPT !.kind = "ct1_sampled", !.es = r, !.ct1 = secret,
                         !.auth = Append(@, secret)]
  IN /\ st[p].kind \in {"header_received", "ct1_sampled"}
     /\ samples' = r
     /\ Emit(p, [s EXCEPT !.sending = Ct1Body(s)], AddEpoch(chain[p], secret))

(* The first part of the ciphertext already fixes the secret of the epoch. *)
Encapsulate(p) ==
  LET r == samples + 1
      secret == <<st[p].hdr, r>>
      s == [st[p] EXCEPT !.kind = "ct1_sampled", !.es = r, !.ct1 = secret,
                         !.auth = Append(@, secret)]
  IN /\ st[p].kind = "header_received"
     /\ ~OutOfStep(p)
     /\ samples' = r
     /\ Emit(p, [s EXCEPT !.sending = Ct1Body(s)], AddEpoch(chain[p], secret))

Continue(p) ==
  /\ st[p].kind \notin {"keys_unsampled", "header_received"}
  /\ Emit(p, st[p], chain[p])
  /\ UNCHANGED samples

Send(p) == SampleKeys(p) \/ Encapsulate(p) \/ Continue(p)

-----------------------------------------------------------------------------
(* recv.  Which messages of its own epoch a state takes a chunk or an      *)
(* acknowledgement from; it takes the key of any other message and         *)
(* otherwise ignores it.                                                   *)

Heeds ==
  [keys_unsampled          |-> {},
   keys_sampled            |-> {"ct1"},
   header_sent             |-> {"ct1"},
   ct1_received            |-> {"ct2"},
   ek_sent_ct1_received    |-> {"ct2"},
   no_header_received      |-> {"hdr"},
   header_received         |-> {},
   ct1_sampled             |-> {"ek", "ek_ct1_ack"},
   ek_received_ct1_sampled |-> {"ct1_ack", "ek_ct1_ack"},
   ct1_acknowledged        |-> {"ek", "ek_ct1_ack"},
   ct2_sampled             |-> {}]

\* Mutant: only a header of the next epoch ends this one.
RollsOverOnHeader(s, m) ==
  s.kind = "ct2_sampled" /\ m.epoch = s.epoch + 1 /\ m.type = "hdr"

RollsOver(s, m) == s.kind = "ct2_sampled" /\ m.epoch = s.epoch + 1

Heeded(s, m) == m.epoch = s.epoch /\ m.type \in Heeds[s.kind]

(* The decoder after a heeded chunk.                                       *)
Got(s, m) == AddChunk(IF s.kind \in {"keys_sampled", "ct1_received"}
                      THEN EmptyDecoder ELSE s.receiving, m.chunk)

Decodes(s, m) == Complete(Got(s, m))
Body(s, m) == Got(s, m)[2]

(* What raises.                                                            *)
NoLink(p, m) == ~HasLink(chain[p], m.epoch - 1)
Late(p, m) == m.epoch - 1 < chain[p].oldest
FromFuture(p, m) ==
  /\ m.epoch > st[p].epoch
  /\ st[p].kind # "ct2_sampled"

Opened(s, m) == Decaps(s.dk, s.ct1, Body(s, m)[2])

BadHeader(s, m) ==
  /\ s.kind = "no_header_received"
  /\ Body(s, m)[1] # "hdr" \/ Body(s, m)[3] # s.auth

BadKey(s, m) ==
  /\ s.kind \in {"ct1_sampled", "ct1_acknowledged"}
  /\ Body(s, m) # <<"ek", s.hdr>>

BadCiphertext(s, m) ==
  /\ s.kind = "ek_sent_ct1_received"
  /\ \/ Body(s, m)[1] # "ct2"
     \/ Body(s, m)[3] # <<Append(s.auth, Opened(s, m)), s.ct1>>

Erroneous(s, m) ==
  /\ Heeded(s, m)
  /\ s.kind \in {"no_header_received", "ct1_sampled", "ct1_acknowledged",
                 "ek_sent_ct1_received"}
  /\ Decodes(s, m)
  /\ BadHeader(s, m) \/ BadKey(s, m) \/ BadCiphertext(s, m)

Raises(p, m) ==
  \/ NoLink(p, m)
  \/ FromFuture(p, m)
  \/ Erroneous(st[p], m)
  \/ /\ st[p].kind = "ek_sent_ct1_received"
     /\ Heeded(st[p], m) /\ Decodes(st[p], m) /\ OutOfStep(p)

-----------------------------------------------------------------------------
(* recv: the transitions.                                                  *)

(* Take m off the wire; unless recv raises, store state s and the secret.  *)
Take(p, m, s, secret) ==
  /\ ~Raises(p, m)
  /\ st' = [st EXCEPT ![p] = Save(s)]
  /\ chain' = [chain EXCEPT ![p] = AddEpoch(@, secret)]
  /\ net' = [net EXCEPT ![p] = @ (-) SetToBag({m})]
  /\ UNCHANGED samples

Ignore(p, m) ==
  /\ ~RollsOver(st[p], m) /\ ~Heeded(st[p], m)
  /\ Take(p, m, st[p], None)

RollOver(p, m) ==
  /\ RollsOver(st[p], m)
  /\ Take(p, m, [st[p] EXCEPT !.kind = "keys_unsampled", !.epoch = @ + 1,
                              !.sending = None], None)

(* A chunk that does not complete what is being received; the first one of *)
(* a ciphertext part changes the state, and so does an acknowledgement.    *)
Collect(p, m) ==
  LET s == st[p]
      d == [s EXCEPT !.receiving = Got(s, m)]
  IN /\ Heeded(s, m)
     /\ s.kind # "ek_received_ct1_sampled"
     /\ ~Decodes(s, m)
     /\ Take(p, m,
          CASE s.kind = "keys_sampled" ->
                 [d EXCEPT !.kind = "header_sent", !.sending = EkBody(s),
                           !.ek = 0]
            [] s.kind = "ct1_received" ->
                 [d EXCEPT !.kind = "ek_sent_ct1_received", !.sending = None]
            [] s.kind = "ct1_sampled" /\ m.type = "ek_ct1_ack" ->
                 [d EXCEPT !.kind = "ct1_acknowledged", !.sending = None]
            [] OTHER -> d,
          None)

DecodeHeader(p, m) ==
  LET s == st[p] IN
  /\ s.kind = "no_header_received" /\ Heeded(s, m) /\ Decodes(s, m)
  /\ Take(p, m, [s EXCEPT !.kind = "header_received", !.hdr = Body(s, m)[2],
                          !.receiving = EmptyDecoder], None)

DecodeCt1(p, m) ==
  LET s == st[p] IN
  /\ s.kind = "header_sent" /\ Heeded(s, m) /\ Decodes(s, m)
  /\ Take(p, m, [s EXCEPT !.kind = "ct1_received", !.ct1 = Body(s, m)[2],
                          !.receiving = None], None)

(* _send_ct2                                                               *)
SendCt2(s) ==
  [s EXCEPT !.kind = "ct2_sampled", !.sending = Ct2Body(s), !.ek = 0,
            !.es = 0, !.ct1 = None, !.hdr = 0, !.receiving = None]

DecodeKey(p, m) ==
  LET s == st[p]
      k == [s EXCEPT !.ek = Body(s, m)[2]]
  IN /\ s.kind \in {"ct1_sampled", "ct1_acknowledged"}
     /\ Heeded(s, m) /\ Decodes(s, m)
     /\ Take(p, m,
          IF s.kind = "ct1_acknowledged" \/ m.type = "ek_ct1_ack"
          THEN SendCt2(k)
          ELSE [k EXCEPT !.kind = "ek_received_ct1_sampled", !.hdr = 0,
                         !.receiving = None],
          None)

Acknowledge(p, m) ==
  /\ st[p].kind = "ek_received_ct1_sampled" /\ Heeded(st[p], m)
  /\ Take(p, m, SendCt2(st[p]), None)

DecodeCt2(p, m) ==
  LET s == st[p] IN
  /\ s.kind = "ek_sent_ct1_received" /\ Heeded(s, m) /\ Decodes(s, m)
  /\ Take(p, m, [s EXCEPT !.kind = "no_header_received", !.epoch = @ + 1,
                          !.auth = Append(@, Opened(s, m)), !.dk = 0,
                          !.ct1 = None, !.receiving = EmptyDecoder],
          Opened(s, m))

(* recv raised: the stored state is as before, and the message is lost on  *)
(* this caller.                                                            *)
Refuse(p, m) ==
  /\ Raises(p, m)
  /\ net' = [net EXCEPT ![p] = @ (-) SetToBag({m})]
  /\ UNCHANGED <<st, chain, samples>>

Receive(p) ==
  \E m \in BagToSet(net[p]) :
    \/ Ignore(p, m) \/ RollOver(p, m) \/ Collect(p, m)
    \/ DecodeHeader(p, m) \/ DecodeCt1(p, m) \/ DecodeKey(p, m)
    \/ Acknowledge(p, m) \/ DecodeCt2(p, m) \/ Refuse(p, m)

(* The channel loses a message.                                            *)
Lose(p) ==
  /\ \E m \in BagToSet(net[p]) :
       net' = [net EXCEPT ![p] = @ (-) SetToBag({m})]
  /\ UNCHANGED <<st, chain, samples>>

Next == \E p \in Party : Send(p) \/ Receive(p) \/ Lose(p)

Spec == Init /\ [][Next]_vars

(* Both users go on writing, and of what one of them writes again and      *)
(* again something arrives again and again.                                *)
FairSpec == Spec /\ \A p \in Party : WF_vars(Send(p)) /\ SF_vars(Receive(p))

-----------------------------------------------------------------------------
(* Properties.                                                             *)

Numbers == 0..(2 * MaxEpoch)
Secrets == Numbers \X Numbers

TypeOK ==
  /\ samples \in Numbers
  /\ \A p \in Party :
       /\ st[p].kind \in Kinds /\ st[p].epoch \in 1..(MaxEpoch + 1)
       /\ st[p].auth \in Seq(Secrets)
       /\ {st[p].hdr, st[p].ek, st[p].dk, st[p].es} \subseteq Numbers
       /\ st[p].ct1 \in Secrets \union {None}
       /\ chain[p].secrets \in Seq(Secrets)
       /\ chain[p].oldest \in 0..chain[p].sendEpoch
       /\ chain[p].sendEpoch \in 0..MaxEpoch
       /\ IsABag(net[p])

(* Whatever is lost or overtaken, send never raises (no assertion, no      *)
(* epoch that decreases, no missing link), and recv raises for no message  *)
(* but one sent at least two epochs before the receiver's own: no MAC      *)
(* fails, no key differs from its header, nothing is from the future.      *)
(* States.send, States.recv, Chain.add_epoch, send_key and recv_key.       *)
NothingBreaks ==
  \A p \in Party :
    /\ st[p].kind = "header_received" => ~OutOfStep(p)
    /\ ~SendKeyFails(chain[p], st[p].epoch - 1)
    /\ \A m \in BagToSet(net[p]) :
         Raises(p, m) => Late(p, m) /\ m.epoch + 2 <= st[p].epoch

(* The chains of the two parties grow as EpochAgreement says: by turns, by *)
(* fresh secrets, and never by one the other does not learn next.          *)
Agreement ==
  INSTANCE EpochAgreement WITH
    secrets <- [p \in Party |-> chain[p].secrets],
    Proposer <- LAMBDA e : IF e % 2 = 1 THEN B ELSE A,
    Secret <- Secrets
AgreementSpec == Agreement!Spec

(* Neither party ever waits for a chunk or an acknowledgement the other    *)
(* has stopped sending: every epoch gets its secret on both sides.         *)
EpochsComplete ==
  <>(\A p \in Party : CurrentEpoch(chain[p]) = MaxEpoch)
==============================================================================
