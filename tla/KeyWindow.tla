------------------------------ MODULE KeyWindow ------------------------------
(***************************************************************************)
(* The message keys of one direction of one epoch: _EpochDir and           *)
(* _KeyHistory of native/pure/spqr.py.                                     *)
(*                                                                         *)
(* The sender numbers its messages 1, 2, ...  The receiver derives their   *)
(* keys in order; a message that arrives early makes it derive and keep    *)
(* the keys of those it overtook, a message that arrives late finds its    *)
(* key among them.  Messages are lost, duplicated and reordered at will.   *)
(* The key of message i is written i.  A call that raises stores nothing.  *)
(***************************************************************************)
EXTENDS Naturals, FiniteSets

CONSTANTS MaxJump,     (* how far ahead of the chain a message may be      *)
          MaxOoo,      (* how far behind the chain a key can still be had  *)
          MaxSent      (* bound on the messages sent in the epoch          *)

ASSUME KeyWindowAssumption == /\ MaxJump \in Nat
                              /\ MaxOoo \in Nat
                              /\ MaxSent \in Nat

Index == 1..MaxSent

VARIABLES sent,        (* messages sent so far                             *)
          ctr,         (* keys the receiving chain has derived             *)
          prev,        (* the keys kept for messages that were overtaken   *)
          given        (* history: how often each key was handed out       *)

windowVars == <<sent, ctr, prev, given>>

WindowInit ==
  /\ sent = 0
  /\ ctr = 0
  /\ prev = {}
  /\ given = [i \in Index |-> 0]

HandOut(at) == given' = [given EXCEPT ![at] = @ + 1]

(* next_key, on the sender's side.                                         *)
NextKey ==
  /\ sent < MaxSent
  /\ sent' = sent + 1
  /\ UNCHANGED <<ctr, prev, given>>

-----------------------------------------------------------------------------
(* _KeyHistory                                                             *)

TrimSize == (MaxOoo * 11) \div 10 + 1

\* Mutant: gc forgets to replace the list.
GcNothing(keys, current) == keys

(* gc: nothing is dropped until the list has outgrown the window.          *)
Gc(keys, current) ==
  IF Cardinality(keys) >= TrimSize
  THEN {i \in keys : i + MaxOoo >= current}
  ELSE keys

-----------------------------------------------------------------------------
(* key(at)                                                                 *)

JumpTooFar(at) == at > ctr + MaxJump
Trimmed(at) == at + MaxOoo < ctr

KeyRaises(at) ==
  \/ JumpTooFar(at)
  \/ at = ctr
  \/ at < ctr /\ (Trimmed(at) \/ at \notin prev)

(* What is kept of the keys passed over, and of those kept before.         *)
Skipped(at) == {i \in (ctr + 1)..(at - 1) : i + MaxOoo >= at}

\* Mutant: every gap clears the store.
RetainedNothing(at) == IF at > ctr + 1 THEN {} ELSE prev

Retained(at) == IF at > ctr + MaxOoo THEN {} ELSE prev

\* Mutant: the loop derives one key too many.
AdvancePast(at) ==
  /\ at > ctr
  /\ ~KeyRaises(at)
  /\ prev' = Gc(Retained(at) \union Skipped(at), at - 1)
  /\ ctr' = at + 1
  /\ HandOut(at)
  /\ UNCHANGED sent

(* The message is ahead of the chain: gc sees the chain at at - 1, then    *)
(* the key of at itself is derived and handed out.                         *)
Advance(at) ==
  /\ at > ctr
  /\ ~KeyRaises(at)
  /\ prev' = Gc(Retained(at) \union Skipped(at), at - 1)
  /\ ctr' = at
  /\ HandOut(at)
  /\ UNCHANGED sent

\* Mutant: the key stays in the store.
TakeKeptTwice(at) ==
  /\ at < ctr
  /\ ~KeyRaises(at)
  /\ HandOut(at)
  /\ UNCHANGED <<sent, ctr, prev>>

(* The message was overtaken: its key is taken out of the store.           *)
TakeKept(at) ==
  /\ at < ctr
  /\ ~KeyRaises(at)
  /\ prev' = prev \ {at}
  /\ HandOut(at)
  /\ UNCHANGED <<sent, ctr>>

Key(at) == Advance(at) \/ TakeKept(at)

WindowNext == NextKey \/ \E at \in 1..sent : Key(at)

WindowSpec == WindowInit /\ [][WindowNext]_windowVars

-----------------------------------------------------------------------------
(* Properties.                                                             *)

WindowTypeOK ==
  /\ sent \in 0..MaxSent
  /\ ctr \in 0..sent
  /\ prev \subseteq Index
  /\ given \in [Index -> Nat]

(* No key is handed out twice, however messages are duplicated: a replayed *)
(* message is always refused.  _EpochDir.key, _KeyHistory.get.             *)
NoKeyTwice == \A i \in Index : given[i] <= 1

(* A message is refused only if its key was handed out before, or it is    *)
(* more than MaxOoo behind or more than MaxJump ahead of the chain: no     *)
(* clearing and no trimming loses a key inside the window.                 *)
RefusalsJustified ==
  \A at \in 1..sent :
    KeyRaises(at) => \/ given[at] = 1
                     \/ Trimmed(at)
                     \/ JumpTooFar(at)

(* The store is bounded although gc is lazy.  _KeyHistory.gc.              *)
StoreBounded == Cardinality(prev) <= TrimSize
==============================================================================
