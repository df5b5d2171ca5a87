----------------------------- MODULE ReceiveLoop -----------------------------
(***************************************************************************)
(* _receive_async() of native/receive.py, run by listen() (persistent, with*)
(* a callback) or by receive() (drain, returns a list), against Signal's   *)
(* per-device mailbox.  The server keeps an envelope until it is acked and *)
(* pushes everything it keeps again on the next connection.                *)
(*                                                                         *)
(* Per envelope the loop does: lock the account, decrypt, persist, unlock; *)
(* parse; quarantine or journal; ack; call back.  It may die between any   *)
(* two of these, and the connection may drop under it.  One session key is *)
(* modelled; the entries of nativeRatchetSessions are independent.         *)
(***************************************************************************)
EXTENDS Naturals, Sequences, FiniteSets, SequencesExt

CONSTANTS
  Envelopes,    \* everything peers may send us
  Kind,         \* [Envelopes -> Kinds]
  Base,         \* [Envelopes -> sessions]: the session it is encrypted under
  Own,          \* the session our own first send established
  NoSession,    \* no entry for this session key
  NoEnv,        \* "no envelope in hand"
  QueueEmpty,   \* the /api/v1/queue/empty request
  Modes,        \* the ways the loop may be called, with what peers send
  MaxMessages,  \* max_messages
  MaxFaults,    \* bound on drops, failed connects, deadlines, callback errors
  MaxCrashes    \* bound on kills of the process

(* "silent" decrypts to content without user text; "badcontent" decrypts   *)
(* to bytes parse_content rejects with ValueError.                         *)
Kinds == {"prekey", "whisper", "silent", "badcontent", "sealed", "receipt"}
Sessions == {Base[e] : e \in Envelopes} \union {Own}

ASSUME EnvelopesAssumption == /\ NoEnv \notin Envelopes
                              /\ QueueEmpty \notin Envelopes
                              /\ Kind \in [Envelopes -> Kinds]
ASSUME SessionsAssumption == NoSession \notin Sessions
ASSUME ModeAssumption == /\ Modes \subseteq [drain : BOOLEAN, listen : BOOLEAN,
                                          journal : BOOLEAN, spqr : BOOLEAN,
                                          mail : SUBSET Envelopes, sends : Nat]
                         /\ \A m \in Modes : m.listen => ~m.drain
                         /\ {MaxFaults, MaxCrashes} \subseteq Nat
                         /\ MaxMessages \in Nat \ {0}

VARIABLES
  mode,         \* how the loop is called, the same after every restart, the
                \* kind of the sessions, the envelopes that may arrive,
                \* and how many concurrent sends there may be
  mailbox,      \* Seq(Envelopes): what the server still keeps for us
  conn,         \* TRUE: the websocket is up
  inbound,      \* requests pushed to us and not yet received
  acks,         \* acks sent and not yet processed by the server
  lock,         \* holder of the account lock: "free", "loop" or "sender"
  session,      \* on disk: the session stored for the peer
  consumed,     \* on disk: envelopes whose message key is used up
  journal,      \* on disk: <config>.inbox.jsonl
  quarantine,   \* on disk: <config>.undecryptable.jsonl
  pc,           \* where the loop is
  cur,          \* the envelope in hand
  messages,     \* parsed messages of this connection
  faults, crashes, sends \* counters for the bounds

\* History of the run, read by the properties only.
VARIABLES
  deleted,      \* envelopes the server deleted
  decrypted,    \* envelopes whose plaintext was produced and committed
  dispatched,   \* envelopes the callback was called with
  returned      \* envelopes receive() returned to its caller

net == <<mailbox, conn, inbound, acks>>
store == <<session, consumed>>
spool == <<journal, quarantine>>
history == <<deleted, decrypted, dispatched, returned>>
counters == <<faults, crashes, sends>>
vars == <<mode, net, lock, store, spool, pc, cur, messages, counters, history>>

Drain == mode.drain       \* one-shot, or a persistent connection
Listen == mode.listen     \* listen(callback), or receive(), which returns a list
Journal == mode.journal   \* journal=True
Spqr == mode.spqr         \* sessions carry SPQR state (PQXDH peers)

PcValues == {"off", "connect", "recv", "lock", "body", "parse", "quarantine",
             "journal", "ack", "dispatch", "callback"}

Init ==
  /\ mode \in Modes
  /\ mailbox = <<>> /\ conn = FALSE /\ inbound = <<>> /\ acks = {}
  /\ lock = "free"
  /\ session \in {NoSession, Own} /\ consumed = {}
  /\ journal = {} /\ quarantine = {}
  /\ pc = "off" /\ cur = NoEnv /\ messages = {}
  /\ faults = 0 /\ crashes = 0 /\ sends = 0
  /\ deleted = {} /\ decrypted = {} /\ dispatched = {} /\ returned = {}
------------------------------------------------------------------------------
\* The server.

\* A peer answers on our own session only once we have opened one.
Arrive(e) ==
  /\ e \in mode.mail
  /\ e \notin deleted \union Range(mailbox)
  /\ Base[e] = Own => session # NoSession
  /\ mailbox' = Append(mailbox, e)
  /\ inbound' = IF conn THEN Append(inbound, e) ELSE inbound
  /\ UNCHANGED <<mode, conn, acks, lock, store, spool, pc, cur, messages, counters,
                 history>>

\* The mailbox keeps an envelope once; a second ack of it finds nothing left.
ServerAck(e) ==
  /\ e \in acks
  /\ acks' = acks \ {e}
  /\ \/ \E i \in DOMAIN mailbox : mailbox[i] = e /\ mailbox' = RemoveAt(mailbox, i)
     \/ e \notin Range(mailbox) /\ UNCHANGED mailbox
  /\ deleted' = deleted \union {e}
  /\ UNCHANGED <<mode, conn, inbound, lock, store, spool, pc, cur, messages, counters,
                 decrypted, dispatched, returned>>

Fault == /\ faults < MaxFaults
         /\ faults' = faults + 1

\* The connection breaks; acks on their way are lost.  The loop notices at
\* its next recv or send.
Drop ==
  /\ conn
  /\ Fault
  /\ conn' = FALSE
  /\ acks' = {}
  /\ UNCHANGED <<mode, mailbox, inbound, lock, store, spool, pc, cur, messages, crashes,
                 sends, history>>
------------------------------------------------------------------------------
\* Another process or thread sending through the same account file.

SenderLock ==
  /\ sends < mode.sends
  /\ lock = "free"
  /\ lock' = "sender"
  /\ sends' = sends + 1
  /\ UNCHANGED <<mode, net, store, spool, pc, cur, messages, faults, crashes, history>>

\* A first send to the peer stores a session; a later one advances its
\* sending chain, which receiving does not depend on.
SenderCommit ==
  /\ lock = "sender"
  /\ lock' = "free"
  /\ session' \in {session, IF session = NoSession THEN Own ELSE session}
  /\ UNCHANGED <<mode, net, consumed, spool, pc, cur, messages, counters, history>>
------------------------------------------------------------------------------
Limit == ~Listen /\ Cardinality(messages) >= MaxMessages

\* At the top of the loop, about to wait for the next request.
Receiving == pc = "recv" /\ ~Limit

\* Leaving _receive_async: the locals are gone, and the websocket is closed
\* with a handshake, behind the acks already sent.
Leave ==
  /\ pc' = "off"
  /\ cur' = NoEnv
  /\ messages' = {}
  /\ conn' = FALSE
  /\ inbound' = <<>>
  /\ UNCHANGED <<mode, mailbox>>

\* An exception out of the loop.  listen() catches it and reconnects after a
\* backoff; receive() passes it on, and the list of messages is lost.
Raise ==
  /\ Leave
  /\ UNCHANGED <<store, spool, sends, history>>

\* Mutant: the list is lost on the way out.
ReturnNothing == Leave /\ UNCHANGED <<acks, lock, store, spool, sends, history>>

Return ==
  /\ Leave
  /\ returned' = IF ~Listen THEN returned \union messages ELSE returned
  /\ UNCHANGED <<acks, lock, store, spool, sends, deleted, decrypted, dispatched>>

\* Credentials are read under the lock, then the socket is opened.
ReadCredentials ==
  /\ pc = "off"
  /\ lock = "free"
  /\ pc' = "connect"
  /\ UNCHANGED <<mode, net, lock, store, spool, cur, messages, counters, history>>

Connect ==
  /\ pc = "connect"
  /\ conn' = TRUE
  /\ inbound' = Append(mailbox, QueueEmpty)
  /\ pc' = "recv"
  /\ UNCHANGED <<mode, mailbox, acks, lock, store, spool, cur, messages, counters,
                 history>>

ConnectFails ==
  /\ pc = "connect"
  /\ Fault
  /\ Raise
  /\ UNCHANGED <<acks, lock, crashes>>

\* Mutant: every request is taken for an envelope.
RecvAny ==
  /\ Receiving
  /\ inbound # <<>>
  /\ cur' = Head(inbound)
  /\ inbound' = Tail(inbound)
  /\ pc' = "lock"
  /\ UNCHANGED <<mode, mailbox, conn, acks, lock, store, spool, messages, counters,
                 history>>

Recv ==
  /\ Receiving
  /\ inbound # <<>>
  /\ Head(inbound) # QueueEmpty
  /\ cur' = Head(inbound)
  /\ inbound' = Tail(inbound)
  /\ pc' = "lock"
  /\ UNCHANGED <<mode, mailbox, conn, acks, lock, store, spool, messages, counters,
                 history>>

\* The queue/empty request is acked too; a drain ends there.
RecvQueueEmpty ==
  /\ Receiving
  /\ conn
  /\ inbound # <<>>
  /\ Head(inbound) = QueueEmpty
  /\ \/ /\ Drain
        /\ Return
        /\ UNCHANGED <<faults, crashes>>
     \/ /\ ~Drain
        /\ inbound' = Tail(inbound)
        /\ UNCHANGED <<mode, mailbox, conn, acks, lock, store, spool, pc, cur, messages,
                       counters, history>>

\* recv() or send() on a closed connection.
ConnectionClosed ==
  /\ Receiving \/ pc = "ack"
  /\ ~conn
  /\ Raise
  /\ UNCHANGED <<acks, lock, faults, crashes>>

\* Drain mode gives up after an idle timeout; persistent mode stops at its
\* deadline or when stop() says so.
Timeout ==
  /\ Receiving
  /\ IF Drain THEN inbound = <<>> /\ UNCHANGED faults ELSE Fault
  /\ Return
  /\ UNCHANGED crashes

Lock ==
  /\ pc = "lock"
  /\ lock = "free"
  /\ lock' = "loop"
  /\ pc' = "body"
  /\ UNCHANGED <<mode, net, store, spool, cur, messages, counters, history>>

\* The stored session still has the key of this whisper.
Readable(e) == session = Base[e] /\ e \notin consumed

Whispers == {"whisper", "silent", "badcontent"}

Decryptable(e) ==
  \/ Kind[e] = "prekey"
  \/ Kind[e] \in Whispers /\ Readable(e)

\* Errors of the decrypt that are not ValueError: SpqrError, which the SPQR
\* chain raises for a key it already handed out, and which a message of
\* another session may or may not run into.
MayRaiseSpqrError(e) ==
  /\ Spqr
  /\ Kind[e] \in Whispers
  /\ session # NoSession
  /\ ~Readable(e)

MustRaiseSpqrError(e) == MayRaiseSpqrError(e) /\ session = Base[e]

\* Decrypt, then persist and unlock.  A PREKEY message always builds a fresh
\* session in place of the stored one, and its chain starts over.
DecryptOk ==
  /\ pc = "body"
  /\ Decryptable(cur)
  /\ IF Kind[cur] = "prekey"
     THEN /\ session' = Base[cur]
          /\ consumed' = {e \in consumed : Base[e] # Base[cur]} \union {cur}
     ELSE /\ session' = session
          /\ consumed' = consumed \union {cur}
  /\ decrypted' = decrypted \union {cur}
  /\ lock' = "free"
  /\ pc' = "parse"
  /\ UNCHANGED <<mode, net, spool, cur, messages, counters, deleted, dispatched,
                 returned>>

\* Nothing to decrypt (a receipt envelope).
DecryptNothing ==
  /\ pc = "body"
  /\ Kind[cur] = "receipt"
  /\ lock' = "free"
  /\ pc' = "ack"
  /\ UNCHANGED <<mode, net, store, spool, cur, messages, counters, history>>

\* Mutant: what cannot be decrypted is acked and forgotten.
DecryptDiscards ==
  /\ pc = "body"
  /\ Kind[cur] # "receipt"
  /\ ~Decryptable(cur)
  /\ lock' = "free"
  /\ pc' = "ack"
  /\ UNCHANGED <<mode, net, store, spool, cur, messages, counters, history>>

\* NotImplementedError (sealed) or ValueError: nothing is persisted.
DecryptCaught ==
  /\ pc = "body"
  /\ Kind[cur] # "receipt"
  /\ ~Decryptable(cur)
  /\ ~MustRaiseSpqrError(cur)
  /\ lock' = "free"
  /\ pc' = "quarantine"
  /\ UNCHANGED <<mode, net, store, spool, cur, messages, counters, history>>

\* Anything else leaves the loop: not quarantined, not acked.
DecryptUncaught ==
  /\ pc = "body"
  /\ MayRaiseSpqrError(cur)
  /\ lock' = "free"
  /\ Raise
  /\ UNCHANGED <<acks, faults, crashes>>

\* Mutant: acked without being journaled.
ParseUnjournaled ==
  /\ pc = "parse"
  /\ pc' = IF Kind[cur] = "badcontent" THEN "quarantine" ELSE "ack"
  /\ messages' = IF Kind[cur] \in {"prekey", "whisper"}
                 THEN messages \union {cur} ELSE messages
  /\ UNCHANGED <<mode, net, lock, store, spool, cur, counters, history>>

Parse ==
  /\ pc = "parse"
  /\ pc' = CASE Kind[cur] = "badcontent" -> "quarantine"
             [] Kind[cur] = "silent" -> "ack"
             [] OTHER -> IF Journal THEN "journal" ELSE "ack"
  /\ messages' = IF Kind[cur] \in {"prekey", "whisper"}
                 THEN messages \union {cur} ELSE messages
  /\ UNCHANGED <<mode, net, lock, store, spool, cur, counters, history>>

\* Mutant: quarantined but left on the server.
QuarantineUnacked ==
  /\ pc = "quarantine"
  /\ quarantine' = quarantine \union {cur}
  /\ pc' = "recv"
  /\ UNCHANGED <<mode, net, lock, store, journal, cur, messages, counters, history>>

Quarantine ==
  /\ pc = "quarantine"
  /\ quarantine' = quarantine \union {cur}
  /\ pc' = "ack"
  /\ UNCHANGED <<mode, net, lock, store, journal, cur, messages, counters, history>>

JournalMsg ==
  /\ pc = "journal"
  /\ journal' = journal \union {cur}
  /\ pc' = "ack"
  /\ UNCHANGED <<mode, net, lock, store, quarantine, cur, messages, counters,
                 history>>

SendAck ==
  /\ pc = "ack"
  /\ conn
  /\ acks' = acks \union {cur}
  /\ pc' = IF Listen /\ cur \in messages THEN "dispatch" ELSE "recv"
  /\ UNCHANGED <<mode, mailbox, conn, inbound, lock, store, spool, cur, messages, counters,
                 history>>

\* max_messages reached after an ack.
ReturnEarly ==
  /\ pc = "recv"
  /\ Limit
  /\ Return
  /\ UNCHANGED <<faults, crashes>>

\* Mutant: the callback runs under the account lock.
DispatchLocked ==
  /\ pc = "dispatch"
  /\ lock = "free"
  /\ lock' = "loop"
  /\ dispatched' = dispatched \union {cur}
  /\ pc' = "callback"
  /\ UNCHANGED <<mode, net, store, spool, cur, messages, counters, deleted,
                 decrypted, returned>>

\* The callback runs outside the account lock ...
Dispatch ==
  /\ pc = "dispatch"
  /\ dispatched' = dispatched \union {cur}
  /\ pc' = "callback"
  /\ UNCHANGED <<mode, net, lock, store, spool, cur, messages, counters, deleted,
                 decrypted, returned>>

\* ... because it may send, which takes the lock.
CallbackReturns ==
  /\ pc = "callback"
  /\ lock = "free"
  /\ session' \in {session, IF session = NoSession THEN Own ELSE session}
  /\ pc' = "recv"
  /\ UNCHANGED <<mode, net, lock, consumed, spool, cur, messages, counters, history>>

CallbackRaises ==
  /\ pc = "callback"
  /\ Fault
  /\ Raise
  /\ UNCHANGED <<acks, lock, crashes>>

\* The process is killed, and its last acks may not get out; or a spool write
\* fails and its OSError leaves the loop.
Crash ==
  /\ pc # "off"
  /\ crashes < MaxCrashes
  /\ crashes' = crashes + 1
  /\ Raise
  /\ acks' \in {acks, {}}
  /\ UNCHANGED faults
  /\ lock' = IF lock = "loop" THEN "free" ELSE lock

Step ==
  \/ ReadCredentials \/ Connect \/ Recv \/ RecvQueueEmpty \/ ConnectionClosed
  \/ Lock \/ DecryptOk \/ DecryptNothing \/ DecryptCaught \/ DecryptUncaught
  \/ Parse \/ Quarantine \/ JournalMsg \/ SendAck \/ ReturnEarly
  \/ Dispatch \/ CallbackReturns

Next ==
  \/ \E e \in Envelopes : Arrive(e) \/ ServerAck(e)
  \/ Drop \/ ConnectFails \/ Timeout \/ CallbackRaises \/ Crash
  \/ SenderLock \/ SenderCommit
  \/ Step

Spec == Init /\ [][Next]_vars

\* The daemon (or cron) runs the loop again and again, a sender that holds
\* the lock finishes, and the server processes what reaches it.  Arrivals,
\* faults and sends are not obliged to happen.
FairSpec == /\ Spec
            /\ WF_vars(Step)
            /\ WF_vars(SenderCommit)
            /\ \A e \in Envelopes : WF_vars(ServerAck(e))
------------------------------------------------------------------------------
TypeOK ==
  /\ mode \in Modes
  /\ mailbox \in Seq(Envelopes)
  /\ conn \in BOOLEAN
  /\ inbound \in Seq(Envelopes \union {QueueEmpty})
  /\ acks \in SUBSET Envelopes
  /\ lock \in {"free", "loop", "sender"}
  /\ session \in Sessions \union {NoSession}
  /\ pc \in PcValues
  /\ cur \in Envelopes \union {NoEnv}
  /\ {consumed, journal, quarantine, messages, deleted, decrypted, dispatched,
      returned} \subseteq SUBSET Envelopes
  /\ {faults, crashes, sends} \subseteq Nat

(* Everything but receipts has something to lose.                          *)
Payload(e) == Kind[e] \notin {"receipt", "silent"}

(* An envelope is acked only once it is safe in a spool file, so that      *)
(* neither a crash nor a callback error downstream can lose it             *)
(* (receive.py: quarantine and journal before the ack; README, journal=).  *)
AckedIsSafe ==
  Journal => \A e \in acks \union deleted :
               Payload(e) => e \in journal \union quarantine

\* Decrypted, and on its way to the list and the journal.
InHand(e) == cur = e /\ pc \in {"parse", "journal"}

(* A message that was decrypted ends up readable in the journal before the *)
(* server forgets it: "nothing is lost" (receive.py, listen docstring).    *)
(* A kill between the commit of the ratchet and the journal breaks it: the *)
(* redelivered envelope has no key any more.                               *)
NothingLost ==
  Journal => \A e \in deleted \intersect decrypted :
               Kind[e] \in {"prekey", "whisper"} => e \in journal \/ InHand(e)

(* Nothing else loses a message with a journal: no dropped connection, no  *)
(* lost ack, no redelivery and no callback that raises, which is what the  *)
(* docstring is about.                                                     *)
NothingLostUnlessKilled == crashes = 0 => NothingLost

(* As long as nothing breaks, receive() returns what it acked: no message  *)
(* is gone from the server and in nobody's hands.  A SpqrError breaks it:  *)
(* like any exception it takes the list of messages with it.               *)
AckedIsReturned ==
  (~Listen /\ ~Spqr /\ faults = 0 /\ crashes = 0) => \A e \in deleted \intersect decrypted :
               Kind[e] \in {"prekey", "whisper"} =>
                 e \in messages \union returned \union journal \/ InHand(e)

(* The mailbox is drained: no envelope blocks those behind it for ever.  A *)
(* message of an SPQR session may, when it is delivered again.             *)
MailboxDrains == (~Spqr /\ mailbox # <<>>) ~> mailbox = <<>>

Undecryptable(e) == pc = "body" /\ cur = e /\ Payload(e) /\ ~Decryptable(e)
Preserved(e) == e \in quarantine \union journal

(* An envelope that fails to decrypt is preserved in the spool files       *)
(* ("always preserved ... before their ack", receive.py).                  *)
UndecryptablePreserved ==
  \A e \in Envelopes : Undecryptable(e) ~> Preserved(e)

(* It is, in sessions without SPQR state, through drops, kills and any     *)
(* number of deliveries.  Without a journal, an envelope that was          *)
(* decrypted and acked before is not kept when it comes once more.         *)
PlainUndecryptablePreserved ==
  \A e \in Envelopes :
    (~Spqr /\ Undecryptable(e) /\ (Journal \/ e \notin decrypted)) ~> Preserved(e)

(* A callback that sends gets the account lock and returns.                *)
CallbackEnds == (pc = "callback") ~> (pc # "callback")
==============================================================================
