-------------------------- MODULE ReceiveLoop_proofs -------------------------
(***************************************************************************)
(* The safety properties of the receive loop, proved for any envelopes,    *)
(* any mode and any number of drops, kills and concurrent sends.  The ack  *)
(* rule comes first: what it rests on is that no path reaches the ack      *)
(* without passing a spool file.                                           *)
(***************************************************************************)
EXTENDS ReceiveLoop, SequenceTheorems, TLAPS

(* What the loop is about to ack is already safe.                          *)
ReadyToAck ==
  Journal /\ pc = "ack" /\ Payload(cur) => cur \in journal \union quarantine

Safe == AckedIsSafe /\ ReadyToAck

(* Initially nothing was acked.                                            *)
LEMMA SafeInit == Init => Safe
  BY DEF Init, Safe, AckedIsSafe, ReadyToAck, Journal

(* Leaving the loop, for whatever reason, acks nothing more, forgets cur.  *)
LEMMA LeaveIsSafe ==
  ASSUME Safe, Leave, acks' \subseteq acks, UNCHANGED <<mode, spool, deleted>>
  PROVE  Safe'
  BY DEF Leave, Safe, AckedIsSafe, ReadyToAck, Payload, Journal, spool

(* The steps that do not leave the loop and touch neither the acks nor the *)
(* spool files keep what is safe safe, unless they arrive at the ack.      *)
LEMMA ElsewhereIsSafe ==
  ASSUME Safe, acks' \subseteq acks, UNCHANGED <<mode, spool, deleted>>,
         pc' # "ack" \/ UNCHANGED <<pc, cur>>
  PROVE  Safe'
  BY DEF Safe, AckedIsSafe, ReadyToAck, Payload, Journal, spool

(* Every step of the loop, the server and the sender preserves Safe.       *)
LEMMA SafeStep == Safe /\ [Next]_vars => Safe'
<1> SUFFICES ASSUME Safe, [Next]_vars PROVE Safe'
  OBVIOUS
<1> USE DEF Journal, net, store, spool, counters, history
<1>1. CASE UNCHANGED vars
  BY <1>1, ElsewhereIsSafe DEF vars
<1>2. ASSUME NEW e \in Envelopes, Arrive(e) PROVE Safe'
  BY <1>2, ElsewhereIsSafe DEF Arrive
<1>3. ASSUME NEW e \in Envelopes, ServerAck(e) PROVE Safe'
  BY <1>3 DEF ServerAck, Safe, AckedIsSafe, ReadyToAck, Payload
<1>4. CASE Drop
  BY <1>4, ElsewhereIsSafe DEF Drop
<1>5. CASE SenderLock \/ SenderCommit
  BY <1>5, ElsewhereIsSafe DEF SenderLock, SenderCommit
<1>6. CASE ReadCredentials \/ Connect \/ Recv \/ Lock
  BY <1>6, ElsewhereIsSafe DEF ReadCredentials, Connect, Recv, Lock
<1>7. CASE ConnectFails \/ ConnectionClosed \/ DecryptUncaught \/ CallbackRaises \/ Crash
  BY <1>7, LeaveIsSafe DEF ConnectFails, ConnectionClosed, DecryptUncaught,
                           CallbackRaises, Crash, Raise, Leave
<1>8. CASE Timeout \/ ReturnEarly
  BY <1>8, LeaveIsSafe DEF Timeout, ReturnEarly, Return, Leave
<1>9. CASE RecvQueueEmpty
  <2>1. CASE Drain /\ Return
    BY <2>1, LeaveIsSafe DEF Return, Leave
  <2>2. CASE UNCHANGED <<mode, acks, spool, deleted, pc, cur>>
    BY <2>2, ElsewhereIsSafe
  <2> QED
    BY <1>9, <2>1, <2>2 DEF RecvQueueEmpty
<1>10. CASE DecryptOk \/ DecryptCaught
  BY <1>10, ElsewhereIsSafe DEF DecryptOk, DecryptCaught
<1>11. CASE DecryptNothing
  \* Receipt envelopes carry nothing to lose.
  BY <1>11 DEF DecryptNothing, Safe, AckedIsSafe, ReadyToAck, Payload
<1>12. CASE Parse
  <2>1. Journal /\ pc' = "ack" => Kind[cur] = "silent"
    BY <1>12 DEF Parse
  <2> QED
    BY <1>12, <2>1 DEF Parse, Safe, AckedIsSafe, ReadyToAck, Payload
<1>13. CASE Quarantine \/ JournalMsg
  BY <1>13 DEF Quarantine, JournalMsg, Safe, AckedIsSafe, ReadyToAck, Payload
<1>14. CASE SendAck
  BY <1>14 DEF SendAck, Safe, AckedIsSafe, ReadyToAck, Payload
<1>15. CASE Dispatch \/ CallbackReturns
  BY <1>15, ElsewhereIsSafe DEF Dispatch, CallbackReturns
<1> QED
  BY <1>1, <1>2, <1>3, <1>4, <1>5, <1>6, <1>7, <1>8, <1>9, <1>10, <1>11, <1>12,
     <1>13, <1>14, <1>15 DEF Next, Step

(* With journal=True, everything the loop acks and everything the server   *)
(* therefore deletes is in the journal or in the quarantine file, whatever *)
(* is dropped, killed or redelivered (_receive_async, receive.py).         *)
THEOREM AckedIsAlwaysSafe == Spec => []AckedIsSafe
<1>1. Safe => AckedIsSafe
  BY DEF Safe
<1> QED
  BY <1>1, SafeInit, SafeStep, PTL DEF Spec

(***************************************************************************)
(* What was decrypted is not lost.  Decrypting uses the message key up, so *)
(* from then on the message is in one place only: in the hand of the loop, *)
(* which reaches the journal (or the list) before anything can make it     *)
(* leave, but a kill.                                                      *)
(***************************************************************************)

Text(e) == Kind[e] \in {"prekey", "whisper"}

(* With a journal and without a kill, what is decrypted is journaled.      *)
Journaled ==
  /\ crashes \in Nat
  /\ Journal /\ crashes = 0 =>
       \A e \in decrypted : Text(e) => e \in journal \/ InHand(e)

(* Nothing moves a message out of hand but the steps named here.           *)
LEMMA ElsewhereJournaled ==
  ASSUME Journaled, UNCHANGED <<mode, decrypted, journal>>,
         crashes' \in Nat, crashes <= crashes',
         \/ crashes' # 0
         \/ UNCHANGED <<pc, cur>>
         \/ pc \notin {"parse", "journal"}
  PROVE  Journaled'
  BY DEF Journaled, Text, InHand, Journal

(* Every step leaves what was decrypted in hand or in the journal.         *)
LEMMA JournaledStep == Journaled /\ [Next]_vars => Journaled'
<1> SUFFICES ASSUME Journaled, [Next]_vars PROVE Journaled'
  OBVIOUS
<1>0. crashes \in Nat
  BY DEF Journaled
<1> USE DEF net, store, spool, counters, history
<1>1. CASE UNCHANGED vars
  BY <1>0, <1>1, ElsewhereJournaled DEF vars
<1>2. CASE \E e \in Envelopes : Arrive(e) \/ ServerAck(e)
  BY <1>0, <1>2, ElsewhereJournaled DEF Arrive, ServerAck
<1>3. CASE Drop \/ SenderLock \/ SenderCommit
  BY <1>0, <1>3, ElsewhereJournaled DEF Drop, SenderLock, SenderCommit
<1>4. CASE ReadCredentials \/ Connect \/ Recv \/ Lock
  BY <1>0, <1>4, ElsewhereJournaled DEF ReadCredentials, Connect, Recv, Lock, Receiving
<1>5. CASE ConnectFails \/ ConnectionClosed \/ DecryptUncaught \/ CallbackRaises
  BY <1>0, <1>5, ElsewhereJournaled DEF ConnectFails, ConnectionClosed, DecryptUncaught,
                                  CallbackRaises, Raise, Leave, Receiving
<1>6. CASE Timeout \/ ReturnEarly
  BY <1>0, <1>6, ElsewhereJournaled DEF Timeout, ReturnEarly, Return, Leave, Receiving
<1>7. CASE RecvQueueEmpty
  <2>1. CASE Return /\ UNCHANGED crashes
    BY <1>0, <1>7, <2>1, ElsewhereJournaled DEF RecvQueueEmpty, Return, Leave, Receiving
  <2>2. CASE UNCHANGED <<mode, crashes, decrypted, journal, pc, cur>>
    BY <1>0, <2>2, ElsewhereJournaled
  <2> QED
    BY <1>7, <2>1, <2>2 DEF RecvQueueEmpty
<1>8. CASE DecryptNothing \/ DecryptCaught
  BY <1>0, <1>8, ElsewhereJournaled DEF DecryptNothing, DecryptCaught
<1>9. CASE DecryptOk
  \* Nothing else is in hand while the next envelope is decrypted.
  BY <1>9 DEF DecryptOk, Journaled, Text, InHand, Journal
<1>10. CASE Parse
  <2>1. Journal /\ Text(cur) => pc' = "journal"
    BY <1>10 DEF Parse, Text
  <2> QED
    BY <1>10, <2>1 DEF Parse, Journaled, Text, InHand, Journal
<1>11. CASE JournalMsg
  BY <1>11 DEF JournalMsg, Journaled, Text, InHand, Journal
<1>12. CASE Quarantine \/ SendAck \/ Dispatch \/ CallbackReturns
  BY <1>0, <1>12, ElsewhereJournaled DEF Quarantine, SendAck, Dispatch, CallbackReturns
<1>13. CASE Crash
  <2>1. crashes' = crashes + 1 /\ UNCHANGED <<mode, decrypted, journal>>
    BY <1>13 DEF Crash, Raise, Leave
  <2> QED
    BY <1>0, <2>1, ElsewhereJournaled
<1> QED
  BY <1>1, <1>2, <1>3, <1>4, <1>5, <1>6, <1>7, <1>8, <1>9, <1>10, <1>11, <1>12,
     <1>13 DEF Next, Step

(* With journal=True a message the server has deleted is in the journal,   *)
(* through any drops, redeliveries and callback errors, unless the process *)
(* was killed (listen, receive.py: "so nothing is lost").                  *)
THEOREM NothingIsLostUnlessKilled == Spec => []NothingLostUnlessKilled
<1>1. Init => Journaled
  BY DEF Init, Journaled
<1>2. Journaled => NothingLostUnlessKilled
  BY DEF Journaled, NothingLostUnlessKilled, NothingLost, Text
<1> QED
  BY <1>1, <1>2, JournaledStep, PTL DEF Spec

(***************************************************************************)
(* What receive() acked, it returns.  As long as nothing breaks, the only  *)
(* way out of the loop is a return with the list of messages.              *)
(***************************************************************************)

Calm == ~Listen /\ ~Spqr /\ faults = 0 /\ crashes = 0

(* The connection is up wherever the loop needs it.                        *)
Connected == Calm => conn \/ pc \in {"off", "connect"}

(* What is decrypted is about to be listed, listed or returned.            *)
Listed ==
  Calm => \A e \in decrypted :
            Text(e) => e \in messages \union returned \/ (cur = e /\ pc = "parse")

Handed == Connected /\ Listed /\ {faults, crashes} \subseteq Nat

(* The steps inside the loop that keep the lists.                          *)
LEMMA ElsewhereHanded ==
  ASSUME Handed, UNCHANGED <<mode, crashes, decrypted, messages, returned>>,
         faults' \in Nat, faults <= faults',
         Calm' => conn' \/ pc' \in {"off", "connect"},
         UNCHANGED <<pc, cur>> \/ pc # "parse"
  PROVE  Handed'
  BY DEF Handed, Connected, Listed, Text, Calm, Listen, Spqr

(* A return hands the list over.                                           *)
LEMMA ReturnHands ==
  ASSUME Handed, Return, pc # "parse", crashes' = crashes, faults' \in Nat,
         faults <= faults'
  PROVE  Handed'
  BY DEF Handed, Connected, Listed, Text, Calm, Listen, Spqr, Return, Leave

(* A step that is no longer calm has nothing to show.                      *)
LEMMA NotCalm ==
  ASSUME ~Calm', {faults', crashes'} \subseteq Nat
  PROVE  Handed'
  BY DEF Handed, Connected, Listed

(* Every step keeps what was decrypted listed, or leaves the calm.         *)
LEMMA HandedStep == Handed /\ [Next]_vars => Handed'
<1> SUFFICES ASSUME Handed, [Next]_vars PROVE Handed'
  OBVIOUS
<1> USE DEF net, store, spool, counters, history
<1>0. {faults, crashes} \subseteq Nat /\ (Calm => conn \/ pc \in {"off", "connect"})
  BY DEF Handed, Connected
<1>1. CASE UNCHANGED vars
  BY <1>0, <1>1, ElsewhereHanded DEF vars, Calm, Listen, Spqr
<1>2. CASE \E e \in Envelopes : Arrive(e) \/ ServerAck(e)
  BY <1>0, <1>2, ElsewhereHanded DEF Arrive, ServerAck, Calm, Listen, Spqr
<1>3. CASE SenderLock \/ SenderCommit
  BY <1>0, <1>3, ElsewhereHanded DEF SenderLock, SenderCommit, Calm, Listen, Spqr
<1>4. CASE ReadCredentials \/ Connect
  BY <1>0, <1>4, ElsewhereHanded DEF ReadCredentials, Connect, Calm, Listen, Spqr
<1>5. CASE Recv \/ Lock \/ DecryptNothing \/ DecryptCaught
  BY <1>0, <1>5, ElsewhereHanded DEF Recv, Lock, DecryptNothing, DecryptCaught, Receiving,
                                    Calm, Listen, Spqr
<1>6. CASE Quarantine \/ JournalMsg \/ SendAck \/ Dispatch \/ CallbackReturns
  BY <1>0, <1>6, ElsewhereHanded DEF Quarantine, JournalMsg, SendAck, Dispatch,
                                    CallbackReturns, Calm, Listen, Spqr
<1>7. CASE Drop \/ ConnectFails \/ CallbackRaises \/ Crash
  <2>1. /\ {faults', crashes'} \subseteq Nat
        /\ faults' > 0 \/ crashes' > 0
    BY <1>0, <1>7 DEF Drop, ConnectFails, CallbackRaises, Crash, Fault
  <2> QED
    BY <2>1, NotCalm DEF Calm
<1>8. CASE ConnectionClosed \/ DecryptUncaught
  <2>1. ~Calm
    BY <1>0, <1>8 DEF ConnectionClosed, DecryptUncaught, MayRaiseSpqrError, Receiving, Calm
  <2>2. UNCHANGED <<mode, faults, crashes>>
    BY <1>8 DEF ConnectionClosed, DecryptUncaught, Raise, Leave
  <2> QED
    BY <1>0, <2>1, <2>2, NotCalm DEF Calm, Listen, Spqr
<1>9. CASE Timeout \/ ReturnEarly
  <2>1. Return /\ pc # "parse" /\ crashes' = crashes /\ faults' \in {faults, faults + 1}
    BY <1>9 DEF Timeout, ReturnEarly, Receiving, Fault, Return
  <2> QED
    BY <1>0, <2>1, ReturnHands
<1>10. CASE RecvQueueEmpty
  <2>1. CASE Return /\ UNCHANGED <<faults, crashes>>
    BY <1>0, <1>10, <2>1, ReturnHands DEF RecvQueueEmpty, Receiving
  <2>2. CASE UNCHANGED <<mode, conn, faults, crashes, decrypted, messages, returned, pc, cur>>
    BY <1>0, <2>2, ElsewhereHanded DEF Calm, Listen, Spqr
  <2> QED
    BY <1>10, <2>1, <2>2 DEF RecvQueueEmpty
<1>11. CASE DecryptOk
  BY <1>11 DEF DecryptOk, Handed, Connected, Listed, Text, Calm, Listen, Spqr
<1>12. CASE Parse
  <2>1. /\ pc = "parse" /\ pc' # "parse"
        /\ messages' = IF Text(cur) THEN messages \union {cur} ELSE messages
        /\ UNCHANGED <<mode, conn, faults, crashes, decrypted, returned, cur>>
    BY <1>12 DEF Parse, Text
  <2> QED
    BY <2>1 DEF Handed, Connected, Listed, Text, Calm, Listen, Spqr
<1> QED
  BY <1>1, <1>2, <1>3, <1>4, <1>5, <1>6, <1>7, <1>8, <1>9, <1>10, <1>11, <1>12
     DEF Next, Step

(* A call of receive() in which nothing breaks returns every message it    *)
(* acked, also when it ends early at max_messages (_receive_async).        *)
THEOREM AckedIsHandedOver == Spec => []AckedIsReturned
<1>1. Init => Handed
  BY DEF Init, Handed, Connected, Listed
<1>2. Handed => AckedIsReturned
  BY DEF Handed, Listed, Calm, Text, AckedIsReturned, InHand
<1> QED
  BY <1>1, <1>2, HandedStep, PTL DEF Spec

(***************************************************************************)
(* Type correctness.  What is not obvious is that no step takes the        *)
(* envelope in hand for something else than an envelope: the request that  *)
(* announces an empty queue is never in hand, and nothing is decrypted,    *)
(* parsed, spooled, acked or dispatched while the hand is empty.           *)
(***************************************************************************)

(* The loop holds an envelope wherever it works on one.                    *)
HoldsEnvelope == pc \notin {"off", "connect", "recv"} => cur \in Envelopes

Typed == TypeOK /\ HoldsEnvelope

(* Deleting an envelope leaves a sequence of envelopes.                    *)
LEMMA RemoveAtType ==
  ASSUME NEW S, NEW s \in Seq(S), NEW i \in DOMAIN s
  PROVE  RemoveAt(s, i) \in Seq(S)
<1>1. /\ DOMAIN s = 1..Len(s) /\ Len(s) \in Nat
      /\ \A j \in 1..Len(s) : s[j] \in S
  OBVIOUS
<1>2. SubSeq(s, 1, i - 1) \in Seq(S)
  <2>1. 1 \in Int /\ i - 1 \in Int /\ \A j \in 1..(i - 1) : s[j] \in S
    BY <1>1
  <2> QED
    BY <2>1, SubSeqProperties
<1>3. SubSeq(s, i + 1, Len(s)) \in Seq(S)
  <2>1. i + 1 \in Int /\ Len(s) \in Int /\ \A j \in (i + 1)..Len(s) : s[j] \in S
    BY <1>1
  <2> QED
    BY <2>1, SubSeqProperties
<1> QED
  BY <1>2, <1>3, ConcatProperties DEF RemoveAt

(* The sessions of the envelopes and our own are sessions.                 *)
LEMMA SessionsAreSessions ==
  Own \in Sessions /\ \A e \in Envelopes : Base[e] \in Sessions
  BY DEF Sessions

(* Leaving the loop, with any counters and any list returned, empties the  *)
(* hand.                                                                   *)
LEMMA LeaveIsTyped ==
  ASSUME Typed, Leave, acks' \in SUBSET Envelopes, lock' \in {"free", "loop", "sender"},
         UNCHANGED <<store, spool, sends, deleted, decrypted, dispatched>>,
         returned' \in SUBSET Envelopes, {faults', crashes'} \subseteq Nat
  PROVE  Typed'
<1>1. /\ mode' \in Modes /\ conn' \in BOOLEAN /\ pc' \in PcValues
      /\ mailbox' \in Seq(Envelopes) /\ cur' \in Envelopes \union {NoEnv}
  BY DEF Leave, Typed, TypeOK, PcValues
<1>2. /\ session' \in Sessions \union {NoSession}
      /\ {consumed', journal', quarantine', deleted', decrypted', dispatched'}
            \subseteq SUBSET Envelopes
      /\ sends' \in Nat
  BY DEF Typed, TypeOK, store, spool
<1>3. HoldsEnvelope'
  BY DEF HoldsEnvelope, Leave
<1>4. messages' \in SUBSET Envelopes /\ inbound' \in Seq(Envelopes \union {QueueEmpty})
  BY DEF Leave
<1> QED
  BY <1>1, <1>2, <1>3, <1>4 DEF Typed, TypeOK

(* A server acts on the mailbox and on what it pushes, nothing else.       *)
LEMMA ServerIsTyped ==
  ASSUME Typed, NEW e \in Envelopes, Arrive(e) \/ ServerAck(e)
  PROVE  Typed'
<1> USE DEF Typed, TypeOK, HoldsEnvelope, store, spool, counters, history
<1>1. CASE Arrive(e)
  <2>1. /\ Append(mailbox, e) \in Seq(Envelopes)
        /\ Append(inbound, e) \in Seq(Envelopes \union {QueueEmpty})
    BY AppendProperties
  <2> QED
    BY <1>1, <2>1 DEF Arrive
<1>2. CASE ServerAck(e)
  <2>1. mailbox' \in Seq(Envelopes)
    BY <1>2, RemoveAtType DEF ServerAck
  <2> QED
    BY <1>2, <2>1 DEF ServerAck
<1> QED
  BY <1>1, <1>2

(* Receiving takes an envelope in hand, or drops the empty-queue request.  *)
LEMMA ReceiveIsTyped ==
  ASSUME Typed, Connect \/ Recv \/ RecvQueueEmpty
  PROVE  Typed'
<1> USE DEF Typed, TypeOK, HoldsEnvelope, net, store, spool, counters, history
<1>1. CASE Connect
  <2>1. Append(mailbox, QueueEmpty) \in Seq(Envelopes \union {QueueEmpty})
    <3>1. mailbox \in Seq(Envelopes \union {QueueEmpty})
      OBVIOUS
    <3> QED
      BY <3>1, AppendProperties
  <2> QED
    BY <1>1, <2>1 DEF Connect, PcValues
<1>2. inbound # <<>> => /\ Head(inbound) \in Envelopes \union {QueueEmpty}
                        /\ Tail(inbound) \in Seq(Envelopes \union {QueueEmpty})
  BY HeadTailProperties
<1>3. CASE Recv
  BY <1>2, <1>3 DEF Recv, PcValues
<1>4. CASE RecvQueueEmpty
  <2>1. CASE Return /\ UNCHANGED <<faults, crashes>>
    BY <2>1, LeaveIsTyped DEF Return
  <2>2. CASE /\ inbound # <<>> /\ inbound' = Tail(inbound)
             /\ UNCHANGED <<mode, mailbox, conn, acks, lock, store, spool, pc, cur,
                            messages, counters, history>>
    BY <1>2, <2>2
  <2> QED
    BY <1>4, <2>1, <2>2 DEF RecvQueueEmpty
<1> QED
  BY <1>1, <1>3, <1>4

(* Every way out of the loop is typed.                                     *)
LEMMA ExitIsTyped ==
  ASSUME Typed, \/ ConnectFails \/ ConnectionClosed \/ Timeout \/ DecryptUncaught
                \/ ReturnEarly \/ CallbackRaises \/ Crash
  PROVE  Typed'
<1>1. Leave
  BY DEF ConnectFails, ConnectionClosed, Timeout, DecryptUncaught, ReturnEarly,
         CallbackRaises, Crash, Raise, Return
<1>2. UNCHANGED <<store, spool, sends, deleted, decrypted, dispatched>>
  BY DEF ConnectFails, ConnectionClosed, Timeout, DecryptUncaught, ReturnEarly,
         CallbackRaises, Crash, Raise, Return, history
<1>3. acks' \in SUBSET Envelopes /\ lock' \in {"free", "loop", "sender"}
  BY DEF ConnectFails, ConnectionClosed, Timeout, DecryptUncaught, ReturnEarly,
         CallbackRaises, Crash, Return, Typed, TypeOK
<1>4. returned' \in SUBSET Envelopes
  BY DEF ConnectFails, ConnectionClosed, Timeout, DecryptUncaught, ReturnEarly,
         CallbackRaises, Crash, Raise, Return, history, Typed, TypeOK
<1>5. {faults', crashes'} \subseteq Nat
  BY DEF ConnectFails, ConnectionClosed, Timeout, DecryptUncaught, ReturnEarly,
         CallbackRaises, Crash, Fault, Typed, TypeOK
<1> QED
  BY <1>1, <1>2, <1>3, <1>4, <1>5, LeaveIsTyped

(* What the loop does to the envelope in hand is typed.                    *)
LEMMA HandleIsTyped ==
  ASSUME Typed, \/ DecryptOk \/ DecryptNothing \/ DecryptCaught \/ Parse \/ Quarantine
                \/ JournalMsg \/ SendAck \/ Dispatch \/ CallbackReturns
  PROVE  Typed'
<1> USE DEF Typed, TypeOK, HoldsEnvelope, PcValues, net, store, spool, counters, history
<1>1. CASE DecryptOk
  BY <1>1, SessionsAreSessions DEF DecryptOk
<1>2. CASE DecryptNothing \/ DecryptCaught
  BY <1>2 DEF DecryptNothing, DecryptCaught
<1>3. CASE Parse
  BY <1>3 DEF Parse
<1>4. CASE Quarantine \/ JournalMsg
  BY <1>4 DEF Quarantine, JournalMsg
<1>5. CASE SendAck
  BY <1>5 DEF SendAck
<1>6. CASE Dispatch
  BY <1>6 DEF Dispatch
<1>7. CASE CallbackReturns
  BY <1>7, SessionsAreSessions DEF CallbackReturns
<1> QED
  BY <1>1, <1>2, <1>3, <1>4, <1>5, <1>6, <1>7

(* Every step keeps the types.                                             *)
LEMMA TypedStep == Typed /\ [Next]_vars => Typed'
<1> SUFFICES ASSUME Typed, [Next]_vars PROVE Typed'
  OBVIOUS
<1> USE DEF net, store, spool, counters, history
<1>1. CASE UNCHANGED vars
  BY <1>1 DEF vars, Typed, TypeOK, HoldsEnvelope
<1>2. CASE \E e \in Envelopes : Arrive(e) \/ ServerAck(e)
  BY <1>2, ServerIsTyped
<1>3. CASE Drop
  <2>1. acks' \in SUBSET Envelopes /\ conn' \in BOOLEAN
    BY <1>3 DEF Drop
  <2>2. faults' \in Nat
    BY <1>3 DEF Drop, Fault, Typed, TypeOK
  <2> QED
    BY <1>3, <2>1, <2>2 DEF Drop, Typed, TypeOK, HoldsEnvelope
<1>4. CASE SenderLock
  BY <1>4 DEF SenderLock, Typed, TypeOK, HoldsEnvelope
<1>5. CASE SenderCommit
  BY <1>5, SessionsAreSessions DEF SenderCommit, Typed, TypeOK, HoldsEnvelope
<1>6. CASE ReadCredentials \/ Lock
  BY <1>6 DEF ReadCredentials, Lock, Typed, TypeOK, HoldsEnvelope, PcValues
<1>7. CASE Connect \/ Recv \/ RecvQueueEmpty
  BY <1>7, ReceiveIsTyped
<1>8. CASE \/ ConnectFails \/ ConnectionClosed \/ Timeout \/ DecryptUncaught
           \/ ReturnEarly \/ CallbackRaises \/ Crash
  BY <1>8, ExitIsTyped
<1>9. CASE \/ DecryptOk \/ DecryptNothing \/ DecryptCaught \/ Parse \/ Quarantine
           \/ JournalMsg \/ SendAck \/ Dispatch \/ CallbackReturns
  BY <1>9, HandleIsTyped
<1> QED
  BY <1>1, <1>2, <1>3, <1>4, <1>5, <1>6, <1>7, <1>8, <1>9 DEF Next, Step

(* Every variable keeps its type: the mailbox and every set of envelopes   *)
(* hold envelopes only, through any traffic, drops and kills               *)
(* (_receive_async, receive.py).                                           *)
THEOREM TypeCorrect == Spec => []TypeOK
<1>1. Init => Typed
  <2> SUFFICES ASSUME Init PROVE Typed
    OBVIOUS
  <2>1. session \in Sessions \union {NoSession}
    BY SessionsAreSessions DEF Init
  <2>2. conn \in BOOLEAN /\ mode \in Modes /\ cur \in Envelopes \union {NoEnv}
    BY DEF Init
  <2>3. lock \in {"free", "loop", "sender"} /\ pc \in PcValues
    BY DEF Init, PcValues
  <2>4. {faults, crashes, sends} \subseteq Nat
    BY DEF Init
  <2>5. /\ mailbox \in Seq(Envelopes)
        /\ inbound \in Seq(Envelopes \union {QueueEmpty})
    BY DEF Init
  <2>6. {acks, consumed, journal, quarantine, messages, deleted, decrypted,
         dispatched, returned} \subseteq SUBSET Envelopes
    BY DEF Init
  <2>7. HoldsEnvelope
    BY DEF Init, HoldsEnvelope
  <2> QED
    BY <2>1, <2>2, <2>3, <2>4, <2>5, <2>6, <2>7 DEF Typed, TypeOK
<1>2. Typed => TypeOK
  BY DEF Typed
<1> QED
  BY <1>1, <1>2, TypedStep, PTL DEF Spec
==============================================================================
