-------------------------- MODULE AlertEngine_proofs --------------------------
(***************************************************************************)
(* The safety properties of the alert cycles, proved for any alerts, any   *)
(* number of overlapping cycles, any day and quiet hours, and any number   *)
(* of faults.                                                              *)
(***************************************************************************)
EXTENDS AlertEngine, TLAPS

(* A batch is a part of what is to be sent.                                *)
LEMMA BatchesAreParts ==
  ASSUME NEW S, NEW batch \in Batches(S)
  PROVE  batch \subseteq S
  BY DEF Batches, kSubset

(* The hour stays on the dial.                                             *)
LEMMA ClockTurns == clock \in Hours => (clock + 1) % Day \in Hours
<1> SUFFICES ASSUME clock \in Hours PROVE (clock + 1) % Day \in Hours
  OBVIOUS
<1>1. Day \in Nat \ {0} /\ clock + 1 \in Nat
  BY BoundsAssumption DEF Hours
<1>2. (clock + 1) % Day \in 0 .. Day - 1
  BY <1>1
<1> QED
  BY <1>2 DEF Hours

(***************************************************************************)
(* Types.                                                                  *)
(***************************************************************************)

(* The cycles' part of TypeOK.                                             *)
CycleOK ==
  /\ pc \in [Runs -> {"idle", "send", "commit"}]
  /\ {todo, handled, kept} \subseteq [Runs -> SUBSET Alerts]
  /\ \A r \in Runs : todo[r] \subseteq handled[r] \intersect Pushable
  /\ \A r \in Runs : pc[r] = "idle" => handled[r] = {}

(* The part of the files, the history and the counters.                    *)
FilesOK ==
  /\ {active, notified, pushed, disclaimed, settled, pruned, refired} \subseteq SUBSET Alerts
  /\ clock \in Hours
  /\ window \in Windows
  /\ enabled \in BOOLEAN
  /\ {fires, clears, faults} \subseteq Nat

(* The two parts are the whole type invariant.                             *)
LEMMA TypeParts == TypeOK <=> FilesOK /\ CycleOK
  BY DEF TypeOK, FilesOK, CycleOK

(* The end of a cycle leaves nothing.                                      *)
LEMMA EndKeepsTypes ==
  ASSUME CycleOK, NEW r \in Runs, End(r)
  PROVE  CycleOK'
  BY DEF CycleOK, End

(* A cycle takes on alerts of the active file.                             *)
LEMMA ProceedKeepsTypes ==
  ASSUME CycleOK, FilesOK, NEW r \in Runs,
         NEW chosen, NEW done, chosen \subseteq done \intersect Pushable, done \subseteq New,
         Proceed(r, chosen, done), disclaimed' \in SUBSET Alerts
  PROVE  FilesOK' /\ CycleOK'
<1>1. done \in SUBSET Alerts /\ chosen \in SUBSET Alerts
  BY DEF FilesOK, New
<1>2. CycleOK'
  BY <1>1 DEF CycleOK, Proceed
<1>3. FilesOK'
  BY DEF FilesOK, Proceed, ReadFiles, files, config
<1> QED
  BY <1>2, <1>3

(* What Select chooses is new, pushable and among what it handles.         *)
LEMMA SelectProceeds ==
  ASSUME FilesOK, NEW r \in Runs, Select(r)
  PROVE  \E chosen, done :
           /\ chosen \subseteq done \intersect Pushable
           /\ done \subseteq New
           /\ Proceed(r, chosen, done)
           /\ done \intersect Pushable \subseteq chosen \union disclaimed'
           /\ disclaimed \subseteq disclaimed'
           /\ disclaimed' \in SUBSET Alerts
<1> DEFINE all == IF Quiet THEN ToPush \intersect Critical ELSE ToPush
           chosen == IF enabled THEN all ELSE {}
           done == all \union (New \ Pushable)
<1>1. all \subseteq New \intersect Pushable
  BY DEF ToPush
<1>2. Proceed(r, chosen, done)
  BY DEF Select
<1>3. disclaimed' = IF enabled THEN disclaimed ELSE disclaimed \union all
  BY DEF Select
<1>4. New \subseteq Alerts /\ disclaimed \subseteq Alerts
  BY DEF FilesOK, New
<1> HIDE DEF all
<1>5. chosen \subseteq done \intersect Pushable /\ done \subseteq New
  BY <1>1
<1>6. done \intersect Pushable \subseteq chosen \union disclaimed'
  BY <1>1, <1>3
<1>7. disclaimed \subseteq disclaimed' /\ disclaimed' \in SUBSET Alerts
  BY <1>1, <1>3, <1>4
<1> QED
  BY <1>2, <1>5, <1>6, <1>7

(* Empty files and idle cycles have their types.                           *)
LEMMA TypeInit == Init => TypeOK
  BY BoundsAssumption, WindowsAssumption DEF Init, TypeOK, Hours

(* Every step of the producer, the clock, the user and the cycles keeps    *)
(* the types.                                                              *)
LEMMA TypeStep == TypeOK /\ [Next]_vars => TypeOK'
<1> SUFFICES ASSUME FilesOK, CycleOK, [Next]_vars PROVE FilesOK' /\ CycleOK'
  BY TypeParts DEF TypeOK, FilesOK, CycleOK
<1> USE DEF files, config, counters, history
<1>1. CASE UNCHANGED vars
  BY <1>1 DEF vars, cycle, FilesOK, CycleOK
<1>2. ASSUME NEW a \in Alerts, Fire(a) PROVE FilesOK' /\ CycleOK'
  BY <1>2 DEF Fire, cycle, FilesOK, CycleOK
<1>3. ASSUME NEW a \in Alerts, Clear(a) PROVE FilesOK' /\ CycleOK'
  BY <1>3 DEF Clear, cycle, FilesOK, CycleOK
<1>4. CASE Tick
  BY <1>4, ClockTurns DEF Tick, cycle, FilesOK, CycleOK
<1>5. CASE ToggleChannel
  BY <1>5 DEF ToggleChannel, cycle, FilesOK, CycleOK
<1>6. ASSUME NEW r \in Runs, NothingNew(r) \/ Defer(r) PROVE FilesOK' /\ CycleOK'
  BY <1>6, EndKeepsTypes DEF NothingNew, Defer, ReadFiles, FilesOK
<1>7. ASSUME NEW r \in Runs, OnlyInfo(r) PROVE FilesOK' /\ CycleOK'
  <2>1. Proceed(r, {}, New) /\ disclaimed' = disclaimed
    BY <1>7 DEF OnlyInfo
  <2> QED
    BY <2>1, ProceedKeepsTypes DEF FilesOK
<1>8. ASSUME NEW r \in Runs, Select(r) PROVE FilesOK' /\ CycleOK'
  BY <1>8, SelectProceeds, ProceedKeepsTypes
<1>9. ASSUME NEW r \in Runs, SendBatch(r) PROVE FilesOK' /\ CycleOK'
  <2>1. PICK batch \in Batches(todo[r]) :
          Deliver(batch) /\ todo' = [todo EXCEPT ![r] = @ \ batch]
    BY <1>9 DEF SendBatch
  <2>2. batch \subseteq Alerts
    BY BatchesAreParts DEF CycleOK
  <2> QED
    BY <1>9, <2>1, <2>2 DEF SendBatch, Deliver, FilesOK, CycleOK
<1>10. ASSUME NEW r \in Runs, SendFails(r) PROVE FilesOK' /\ CycleOK'
  <2>1. PICK batch \in Batches(todo[r]) \union {{}} : Deliver(batch)
    BY <1>10 DEF SendFails
  <2>2. batch \subseteq Alerts
    BY BatchesAreParts DEF CycleOK
  <2> QED
    BY <1>10, <2>1, <2>2, EndKeepsTypes DEF SendFails, Deliver, FilesOK
<1>11. ASSUME NEW r \in Runs, Truncate(r) PROVE FilesOK' /\ CycleOK'
  BY <1>11 DEF Truncate, ReadFiles, StillActive, FilesOK, CycleOK
<1>12. ASSUME NEW r \in Runs, Write(r) PROVE FilesOK' /\ CycleOK'
  <2>1. kept[r] \union handled[r] \subseteq Alerts
    BY DEF CycleOK
  <2> QED
    BY <1>12, <2>1, EndKeepsTypes DEF Write, FilesOK
<1>13. ASSUME NEW r \in Runs, Crash(r) PROVE FilesOK' /\ CycleOK'
  BY <1>13, EndKeepsTypes DEF Crash, FilesOK
<1> QED
  BY <1>1, <1>2, <1>3, <1>4, <1>5, <1>6, <1>7, <1>8, <1>9, <1>10, <1>11, <1>12,
     <1>13 DEF Next, Step

(* The cycles keep their types: what is to be sent is pushable and part of *)
(* what the commit will mark, and an idle cycle marks nothing.             *)
THEOREM TypeCorrect == Spec => []TypeOK
  BY TypeInit, TypeStep, PTL DEF Spec

(***************************************************************************)
(* Who was told.  The invariant: what the files list, what a commit keeps, *)
(* and what a cycle has sent of its alerts, all were told; and an alert    *)
(* that a commit dropped is in none of these until it fires again.         *)
(***************************************************************************)

Told == pushed \union disclaimed \union refired

NotifiedTold == notified \intersect Pushable \subseteq Told
KeptTold == \A r \in Runs : kept[r] \intersect Pushable \subseteq Told
HandledTold == \A r \in Runs : (handled[r] \ todo[r]) \intersect Pushable \subseteq Told
PrunedGone ==
  /\ pruned \intersect (active \union notified) = {}
  /\ \A r \in Runs : pruned \intersect (kept[r] \union handled[r]) = {}
CommitSentAll == \A r \in Runs : pc[r] = "commit" => todo[r] = {}

ToldInv == /\ TypeOK /\ NotifiedTold /\ KeptTold /\ HandledTold
           /\ PrunedGone /\ CommitSentAll

(* Initially no alert is listed and no cycle runs.                         *)
LEMMA ToldInit == Init => ToldInv
  BY TypeInit DEF Init, ToldInv, NotifiedTold, KeptTold, HandledTold, PrunedGone,
                  CommitSentAll

(* The end of a cycle forgets, so nothing is left to be told.              *)
LEMMA EndKeepsTold ==
  ASSUME ToldInv, NEW r \in Runs, End(r), Told \subseteq Told', TypeOK',
         notified' \intersect Pushable \subseteq Told',
         pruned' \subseteq pruned, active' = active,
         pruned \intersect notified' = {}
  PROVE  ToldInv'
<1>1. CycleOK
  BY TypeParts DEF ToldInv
<1> QED
  BY <1>1 DEF End, ToldInv, NotifiedTold, KeptTold, HandledTold, PrunedGone,
              CommitSentAll, CycleOK

(* A cycle that begins handles alerts of the active file, and has told     *)
(* whoever it will not push.                                               *)
LEMMA ProceedKeepsTold ==
  ASSUME ToldInv, TypeOK', NEW r \in Runs, NEW chosen, NEW done,
         Proceed(r, chosen, done), done \subseteq New,
         done \intersect Pushable \subseteq chosen \union disclaimed',
         disclaimed \subseteq disclaimed'
  PROVE  ToldInv'
<1>1. CycleOK
  BY TypeParts DEF ToldInv
<1>2. UNCHANGED <<active, notified, kept, pushed, pruned, refired>>
  BY DEF Proceed, files
<1>3. /\ todo' = [todo EXCEPT ![r] = chosen]
      /\ handled' = [handled EXCEPT ![r] = done]
      /\ pc' = [pc EXCEPT ![r] = "send"]
  BY DEF Proceed
<1>4. Told \subseteq Told' /\ disclaimed' \subseteq Told'
  BY <1>2 DEF Told
<1>5. NotifiedTold' /\ KeptTold'
  BY <1>2, <1>4 DEF ToldInv, NotifiedTold, KeptTold
<1>6. HandledTold'
  BY <1>1, <1>3, <1>4 DEF ToldInv, HandledTold, CycleOK
<1>7. PrunedGone'
  BY <1>1, <1>2, <1>3 DEF ToldInv, PrunedGone, CycleOK, New
<1>8. CommitSentAll'
  BY <1>1, <1>3 DEF ToldInv, CommitSentAll, CycleOK
<1> QED
  BY <1>5, <1>6, <1>7, <1>8 DEF ToldInv

(* An alert that fires is told again, or is in no file and in no cycle.    *)
LEMMA FireKeepsTold ==
  ASSUME ToldInv, TypeOK', NEW a \in Alerts, Fire(a)
  PROVE  ToldInv'
<1>1. UNCHANGED <<notified, pc, todo, handled, kept>>
  BY DEF Fire, cycle
<1>2. /\ active' = active \union {a}
      /\ pushed' = pushed \ {a}
      /\ disclaimed' = disclaimed \ {a}
      /\ pruned' = pruned \ {a}
      /\ refired' = IF Suppressed(a) THEN refired \union {a} ELSE refired \ {a}
  BY DEF Fire
<1>3. Told \ {a} \subseteq Told'
  BY <1>2 DEF Told
<1>4. a \in Told' \/ /\ a \notin notified
                     /\ \A r \in Runs : a \notin kept[r] \union handled[r]
  <2>1. CASE Suppressed(a)
    BY <1>2, <2>1 DEF Told
  <2>2. CASE ~Suppressed(a)
    <3>1. a \notin Handled /\ (a \in pruned \/ a \notin notified \union Kept)
      BY <2>2 DEF Suppressed
    <3>2. \A r \in Runs : a \notin handled[r]
      BY <3>1 DEF Handled
    <3>3. CASE a \in pruned
      BY <3>2, <3>3 DEF ToldInv, PrunedGone
    <3>4. CASE a \notin notified \union Kept
      BY <3>2, <3>4 DEF Kept
    <3> QED
      BY <3>1, <3>3, <3>4
  <2> QED
    BY <2>1, <2>2
<1>5. NotifiedTold' /\ KeptTold' /\ HandledTold'
  BY <1>1, <1>3, <1>4 DEF ToldInv, NotifiedTold, KeptTold, HandledTold
<1>6. PrunedGone' /\ CommitSentAll'
  BY <1>1, <1>2 DEF ToldInv, PrunedGone, CommitSentAll
<1> QED
  BY <1>5, <1>6 DEF ToldInv

(* A truncated file and what the commit keeps hold nothing dropped.        *)
LEMMA TruncateKeepsTold ==
  ASSUME ToldInv, TypeOK', NEW r \in Runs, Truncate(r)
  PROVE  ToldInv'
<1>1. CycleOK
  BY TypeParts DEF ToldInv
<1>2. /\ todo[r] = {}
      /\ notified' = {}
      /\ kept' = [kept EXCEPT ![r] = notified \intersect active]
      /\ pc' = [pc EXCEPT ![r] = "commit"]
      /\ pruned' = (pruned \union (Alerts \ active)) \ (Handled \union Kept)
      /\ UNCHANGED <<active, todo, handled, pushed, disclaimed, refired>>
  BY DEF Truncate, StillActive
<1>3. Told' = Told
  BY <1>2 DEF Told
<1>4. NotifiedTold' /\ KeptTold' /\ HandledTold' /\ CommitSentAll'
  BY <1>1, <1>2, <1>3 DEF ToldInv, NotifiedTold, KeptTold, HandledTold, CommitSentAll,
                          CycleOK
<1>5. PrunedGone'
  <2>1. pruned' \intersect active = {}
    BY <1>2 DEF ToldInv, PrunedGone
  <2>2. \A q \in Runs : pruned' \intersect handled[q] = {}
    BY <1>2 DEF Handled
  <2>3. \A q \in Runs : pruned' \intersect kept[q] = {}
    BY <1>2 DEF Kept
  <2> QED
    BY <1>1, <1>2, <2>1, <2>2, <2>3 DEF PrunedGone, CycleOK
<1> QED
  BY <1>4, <1>5 DEF ToldInv

(* Every step keeps who was told in step with what is listed.              *)
LEMMA ToldStep == ToldInv /\ [Next]_vars => ToldInv'
<1> SUFFICES ASSUME ToldInv, [Next]_vars PROVE ToldInv'
  OBVIOUS
<1>0. TypeOK' /\ CycleOK
  BY TypeStep, TypeParts DEF ToldInv
<1>1. CASE UNCHANGED vars
  BY <1>0, <1>1 DEF vars, cycle, files, history, ToldInv, NotifiedTold, KeptTold,
                    HandledTold, PrunedGone, CommitSentAll, Told
<1>2. ASSUME NEW a \in Alerts, Fire(a) PROVE ToldInv'
  BY <1>0, <1>2, FireKeepsTold
<1>3. ASSUME NEW a \in Alerts, Clear(a) PROVE ToldInv'
  <2>1. UNCHANGED <<notified, pc, todo, handled, kept, pushed, disclaimed, refired>>
    BY <1>3 DEF Clear, cycle
  <2>2. /\ active' = active \ {a}
        /\ pruned' = pruned \union ({a} \ (notified \union Kept \union Handled))
    BY <1>3 DEF Clear
  <2>3. a \in pruned' \ pruned =>
          a \notin notified /\ \A r \in Runs : a \notin kept[r] \union handled[r]
    BY <2>2 DEF Kept, Handled
  <2>4. PrunedGone'
    BY <2>1, <2>2, <2>3 DEF ToldInv, PrunedGone
  <2> QED
    BY <1>0, <2>1, <2>4 DEF ToldInv, NotifiedTold, KeptTold, HandledTold, CommitSentAll, Told
<1>4. CASE Tick \/ ToggleChannel
  BY <1>0, <1>4 DEF Tick, ToggleChannel, cycle, files, history, ToldInv, NotifiedTold,
                    KeptTold, HandledTold, PrunedGone, CommitSentAll, Told
<1>5. ASSUME NEW r \in Runs, NothingNew(r) \/ Defer(r) PROVE ToldInv'
  <2>1. End(r) /\ UNCHANGED <<files, history>>
    BY <1>5 DEF NothingNew, Defer
  <2> QED
    BY <1>0, <2>1, EndKeepsTold DEF files, history, Told, ToldInv, NotifiedTold, PrunedGone
<1>6. ASSUME NEW r \in Runs, OnlyInfo(r) PROVE ToldInv'
  <2>1. Proceed(r, {}, New) /\ disclaimed' = disclaimed /\ New \intersect Pushable = {}
    BY <1>6 DEF OnlyInfo, ToPush
  <2> QED
    BY <1>0, <2>1, ProceedKeepsTold
<1>7. ASSUME NEW r \in Runs, Select(r) PROVE ToldInv'
  <2>1. FilesOK
    BY TypeParts DEF ToldInv
  <2> QED
    BY <1>0, <1>7, <2>1, SelectProceeds, ProceedKeepsTold
<1>8. ASSUME NEW r \in Runs, SendBatch(r) PROVE ToldInv'
  <2>1. PICK batch \in Batches(todo[r]) :
          pushed' = pushed \union batch /\ todo' = [todo EXCEPT ![r] = @ \ batch]
    BY <1>8 DEF SendBatch, Deliver
  <2>2. UNCHANGED <<active, notified, pc, handled, kept, disclaimed, pruned, refired>>
    BY <1>8 DEF SendBatch, files
  <2>3. Told \subseteq Told' /\ batch \subseteq Told'
    BY <2>1, <2>2 DEF Told
  <2>4. HandledTold'
    BY <1>0, <2>1, <2>2, <2>3 DEF ToldInv, HandledTold, CycleOK
  <2>5. CommitSentAll'
    BY <1>0, <2>1, <2>2 DEF ToldInv, CommitSentAll, CycleOK
  <2> QED
    BY <1>0, <2>2, <2>3, <2>4, <2>5 DEF ToldInv, NotifiedTold, KeptTold, PrunedGone
<1>9. ASSUME NEW r \in Runs, SendFails(r) PROVE ToldInv'
  <2>1. pushed \subseteq pushed' /\ End(r)
    BY <1>9 DEF SendFails, Deliver
  <2>2. UNCHANGED <<active, notified, disclaimed, pruned, refired>>
    BY <1>9 DEF SendFails, files
  <2> QED
    BY <1>0, <2>1, <2>2, EndKeepsTold DEF Told, ToldInv, NotifiedTold, PrunedGone
<1>10. ASSUME NEW r \in Runs, Truncate(r) PROVE ToldInv'
  BY <1>0, <1>10, TruncateKeepsTold
<1>11. ASSUME NEW r \in Runs, Write(r) PROVE ToldInv'
  <2>1. /\ notified' = kept[r] \union handled[r]
        /\ End(r)
        /\ pc[r] = "commit"
        /\ UNCHANGED <<active, pushed, disclaimed, pruned, refired>>
    BY <1>11 DEF Write
  <2>2. todo[r] = {}
    BY <2>1 DEF ToldInv, CommitSentAll
  <2>3. Told' = Told
    BY <2>1 DEF Told
  <2>4. (kept[r] \union handled[r]) \intersect Pushable \subseteq Told
    BY <2>2 DEF ToldInv, KeptTold, HandledTold
  <2>5. pruned \intersect (kept[r] \union handled[r]) = {}
    BY DEF ToldInv, PrunedGone
  <2> QED
    BY <1>0, <2>1, <2>3, <2>4, <2>5, EndKeepsTold
<1>12. ASSUME NEW r \in Runs, Crash(r) PROVE ToldInv'
  <2>1. End(r) /\ UNCHANGED <<files, pushed, disclaimed, pruned, refired>>
    BY <1>12 DEF Crash
  <2> QED
    BY <1>0, <2>1, EndKeepsTold DEF files, Told, ToldInv, NotifiedTold, PrunedGone
<1> QED
  BY <1>1, <1>2, <1>3, <1>4, <1>5, <1>6, <1>7, <1>8, <1>9, <1>10, <1>11, <1>12
     DEF Next, Step

(* However cycles overlap, fail and die, the notified file hides no        *)
(* pushable alert that nobody was told about, but for the refired          *)
(* (notify_from_config, AlertDiff.commit).                                 *)
THEOREM HiddenWasTold == Spec => []NotifiedWasPushed
<1>1. ToldInv => NotifiedWasPushed
  BY DEF ToldInv, NotifiedTold, NotifiedWasPushed, Told
<1> QED
  BY <1>1, ToldInit, ToldStep, PTL DEF Spec

(***************************************************************************)
(* Nothing twice.  The invariant: what is settled is in the notified file, *)
(* or, during a lone commit, in what that commit will write.               *)
(***************************************************************************)

NoCommit == \A q \in Runs : pc[q] # "commit"

SettledListed ==
  /\ settled \subseteq active
  /\ NoCommit => settled \subseteq notified
  /\ \A r \in Runs : pc[r] = "commit" /\ Alone(r) => settled \subseteq kept[r] \union handled[r]

SettledInv == TypeOK /\ SettledListed

(* Without a step of a commit, what is settled stays listed.               *)
LEMMA ElsewhereSettled ==
  ASSUME SettledInv, TypeOK', notified' = notified,
         settled' \subseteq settled, settled' \subseteq active',
         \A q \in Runs : \/ pc'[q] = pc[q] /\ kept'[q] = kept[q] /\ handled'[q] = handled[q]
                         \/ pc[q] # "commit" /\ pc'[q] # "commit"
  PROVE  SettledInv'
  BY DEF SettledInv, SettledListed, NoCommit, Alone

(* Every step keeps what is settled listed.                                *)
LEMMA SettledStep == SettledInv /\ [Next]_vars => SettledInv'
<1> SUFFICES ASSUME SettledInv, [Next]_vars PROVE SettledInv'
  OBVIOUS
<1>0. TypeOK' /\ CycleOK /\ settled \subseteq active
  BY TypeStep, TypeParts DEF SettledInv, SettledListed
<1>1. CASE UNCHANGED vars
  BY <1>0, <1>1 DEF vars, cycle, files, history, SettledInv, SettledListed, NoCommit, Alone
<1>2. ASSUME NEW a \in Alerts, Fire(a) \/ Clear(a) PROVE SettledInv'
  <2>1. /\ settled' = settled \ {a}
        /\ active \ {a} \subseteq active'
        /\ UNCHANGED <<notified, pc, kept, handled>>
    BY <1>2 DEF Fire, Clear, cycle
  <2> QED
    BY <1>0, <2>1, ElsewhereSettled
<1>3. CASE Tick \/ ToggleChannel
  <2>1. UNCHANGED <<active, notified, settled, pc, kept, handled>>
    BY <1>3 DEF Tick, ToggleChannel, cycle, files, history
  <2> QED
    BY <1>0, <2>1, ElsewhereSettled
<1>4. ASSUME NEW r \in Runs, NothingNew(r) \/ Defer(r) PROVE SettledInv'
  <2>1. End(r) /\ pc[r] = "idle" /\ UNCHANGED <<files, history>>
    BY <1>4 DEF NothingNew, Defer
  <2> QED
    BY <1>0, <2>1, ElsewhereSettled DEF End, files, history, CycleOK
<1>5. ASSUME NEW r \in Runs, OnlyInfo(r) \/ Select(r) PROVE SettledInv'
  <2>1. PICK chosen, done : Proceed(r, chosen, done)
    BY <1>5 DEF OnlyInfo, Select
  <2>2. /\ pc[r] = "idle"
        /\ pc' = [pc EXCEPT ![r] = "send"]
        /\ handled' = [handled EXCEPT ![r] = done]
        /\ UNCHANGED <<active, notified, kept, settled>>
    BY <2>1 DEF Proceed, files
  <2> QED
    BY <1>0, <2>2, ElsewhereSettled DEF CycleOK
<1>6. ASSUME NEW r \in Runs, SendBatch(r) PROVE SettledInv'
  <2>1. UNCHANGED <<active, notified, pc, kept, handled, settled>>
    BY <1>6 DEF SendBatch, files
  <2> QED
    BY <1>0, <2>1, ElsewhereSettled
<1>7. ASSUME NEW r \in Runs, SendFails(r) PROVE SettledInv'
  <2>1. pc[r] = "send" /\ End(r) /\ UNCHANGED <<files, settled>>
    BY <1>7 DEF SendFails
  <2> QED
    BY <1>0, <2>1, ElsewhereSettled DEF End, files, CycleOK
<1>8. ASSUME NEW r \in Runs, Truncate(r) PROVE SettledInv'
  \* The first commit keeps what is settled; beside another it is not alone.
  <2>1. /\ pc[r] = "send"
        /\ pc' = [pc EXCEPT ![r] = "commit"]
        /\ kept' = [kept EXCEPT ![r] = notified \intersect active]
        /\ UNCHANGED <<active, handled, settled>>
    BY <1>8 DEF Truncate, StillActive
  <2>2. pc'[r] = "commit" /\ ~NoCommit'
    BY <1>0, <2>1 DEF NoCommit, CycleOK
  <2>3. ASSUME NEW q \in Runs, pc'[q] = "commit", Alone(q)'
        PROVE  settled \subseteq kept'[q] \union handled'[q]
    <3>1. q = r
      BY <2>2, <2>3 DEF Alone
    <3>2. NoCommit
      BY <1>0, <2>1, <2>3, <3>1 DEF Alone, NoCommit, CycleOK
    <3>3. kept'[r] = notified \intersect active
      BY <1>0, <2>1 DEF CycleOK
    <3> QED
      BY <3>1, <3>2, <3>3 DEF SettledInv, SettledListed
  <2> QED
    BY <1>0, <2>1, <2>2, <2>3 DEF SettledInv, SettledListed
<1>9. ASSUME NEW r \in Runs, Write(r) PROVE SettledInv'
  <2>1. /\ pc[r] = "commit"
        /\ notified' = kept[r] \union handled[r]
        /\ settled' = IF Alone(r) THEN settled \union (handled[r] \intersect active) ELSE {}
        /\ End(r)
        /\ active' = active
    BY <1>9 DEF Write
  <2>2. CASE ~Alone(r)
    BY <1>0, <2>1, <2>2 DEF SettledInv, SettledListed
  <2>3. CASE Alone(r)
    <3>1. settled' \subseteq notified' /\ settled' \subseteq active'
      BY <1>0, <2>1, <2>3 DEF SettledInv, SettledListed
    <3>2. \A q \in Runs : pc'[q] # "commit"
      BY <1>0, <2>1, <2>3 DEF Alone, End, CycleOK
    <3> QED
      BY <1>0, <3>1, <3>2 DEF SettledInv, SettledListed
  <2> QED
    BY <2>2, <2>3
<1>10. ASSUME NEW r \in Runs, Crash(r) PROVE SettledInv'
  <2>1. End(r) /\ UNCHANGED files
        /\ settled' = IF pc[r] = "commit" THEN {} ELSE settled
    BY <1>10 DEF Crash
  <2>2. CASE pc[r] = "commit"
    BY <1>0, <2>1, <2>2 DEF SettledInv, SettledListed
  <2>3. CASE pc[r] # "commit"
    BY <1>0, <2>1, <2>3, ElsewhereSettled DEF End, files, CycleOK
  <2> QED
    BY <2>2, <2>3
<1> QED
  BY <1>1, <1>2, <1>3, <1>4, <1>5, <1>6, <1>7, <1>8, <1>9, <1>10 DEF Next, Step

(* An alert that was handled and stands is selected by no later cycle,     *)
(* unless that reads the notified file during another's commit.            *)
THEOREM HandledIsNotRepushed == Spec => NoRepush
<1>1. Init => SettledInv
  BY TypeInit DEF Init, SettledInv, SettledListed
<1>2. SettledInv /\ [Next]_vars =>
        [\A r \in Runs : pc'[r] = "send" /\ Alone(r) =>
           (todo'[r] \ todo[r]) \intersect settled = {}]_vars
  <2> SUFFICES ASSUME SettledInv, Next, NEW r \in Runs, pc'[r] = "send", Alone(r)
               PROVE  (todo'[r] \ todo[r]) \intersect settled = {}
    OBVIOUS
  <2>0. CycleOK
    BY TypeParts DEF SettledInv
  \* Only a cycle that begins adds to what it will send, and it has just
  \* read the notified file.
  <2>1. ASSUME NEW q \in Runs, OnlyInfo(q) \/ Select(q)
        PROVE  (todo'[r] \ todo[r]) \intersect settled = {}
    <3>1. FilesOK
      BY TypeParts DEF SettledInv
    <3>2. PICK chosen, done : chosen \subseteq New /\ Proceed(q, chosen, done)
      BY <2>1, <3>1, SelectProceeds DEF OnlyInfo
    <3>3. todo' = [todo EXCEPT ![q] = chosen] /\ pc[q] = "idle"
      BY <3>2 DEF Proceed
    <3>4. CASE q # r
      BY <2>0, <3>3, <3>4 DEF CycleOK
    <3>5. CASE q = r
      <4>1. NoCommit
        BY <3>3, <3>5 DEF Alone, NoCommit
      <4> QED
        BY <2>0, <3>2, <3>3, <3>5, <4>1 DEF CycleOK, SettledInv, SettledListed, New
    <3> QED
      BY <3>4, <3>5
  <2>2. ASSUME NEW q \in Runs, \/ NothingNew(q) \/ Defer(q) \/ SendFails(q)
                               \/ Write(q) \/ Crash(q)
        PROVE  (todo'[r] \ todo[r]) \intersect settled = {}
    BY <2>0, <2>2 DEF NothingNew, Defer, SendFails, Write, Crash, End, CycleOK
  <2>3. ASSUME NEW q \in Runs, SendBatch(q) \/ Truncate(q)
        PROVE  (todo'[r] \ todo[r]) \intersect settled = {}
    BY <2>0, <2>3 DEF SendBatch, Truncate, CycleOK
  <2>4. CASE Tick \/ ToggleChannel \/ \E a \in Alerts : Fire(a) \/ Clear(a)
    BY <2>4 DEF Tick, ToggleChannel, Fire, Clear, cycle
  <2> QED
    BY <2>1, <2>2, <2>3, <2>4 DEF Next, Step
<1> QED
  BY <1>1, <1>2, SettledStep, PTL DEF Spec, NoRepush
==============================================================================
