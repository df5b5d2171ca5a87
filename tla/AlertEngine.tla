----------------------------- MODULE AlertEngine -----------------------------
(***************************************************************************)
(* notify_from_config() of engine.py with AlertDiff of dedupe.py and the   *)
(* batching send() of sender.py: cron cycles that diff the active-alerts   *)
(* file against the notified file, push what is new, and record what was   *)
(* handled.  The producer rewrites the active file whenever it likes, and  *)
(* cycles may overlap when a send takes longer than the cron period.  The  *)
(* clock goes round the day, and quiet hours may wrap past midnight.       *)
(***************************************************************************)
EXTENDS Naturals, FiniteSets, FiniteSetsExt

CONSTANTS
  Runs,         \* notify cycles that may overlap
  Alerts,       \* alert lines
  Pushable,     \* those that match push_keywords
  Critical,     \* those that match critical_keywords
  MaxPerMessage,\* max_per_message
  Day,          \* hours of a day
  Windows,      \* quiet_hours of the config: start and end
  MaxFires, MaxClears,  \* bounds on what the producer does
  MaxFaults     \* bound on failed sends, kills, races for the notified file and
                \* edits of the config

ASSUME AlertsAssumption == /\ IsFiniteSet(Alerts)
                           /\ {Pushable, Critical} \subseteq SUBSET Alerts
ASSUME BoundsAssumption ==
  /\ {MaxPerMessage, Day} \subseteq Nat \ {0}
  /\ {MaxFires, MaxClears, MaxFaults} \subseteq Nat

Hours == 0 .. Day - 1
ASSUME WindowsAssumption == Windows \subseteq [start : Hours, end : Hours]

VARIABLES
  active,       \* the active file
  notified,     \* the notified file
  clock,        \* the hour of the day
  window,       \* the configured quiet hours
  enabled,      \* channels.signal.enabled of the config
  pc,           \* [Runs -> {"idle", "send", "commit"}]
  todo,         \* [Runs -> alerts still to be sent]
  handled,      \* [Runs -> what the cycle commits if all is sent]
  kept          \* [Runs -> what its commit keeps of the notified file]

VARIABLES fires, clears, faults    \* counters for the bounds

\* History, read by the properties only.
VARIABLES
  pushed,       \* alerts pushed since they last fired
  disclaimed,   \* alerts marked handled with the channel disabled ("NOT sent")
  settled,      \* alerts committed as handled and standing ever since
  pruned,       \* cleared alerts a commit has dropped from the notified file
  refired       \* alerts that fired again before a commit could, or under a cycle

files == <<active, notified>>
config == <<clock, window, enabled>>
cycle == <<pc, todo, handled, kept>>
counters == <<fires, clears, faults>>
history == <<pushed, disclaimed, settled, pruned, refired>>
vars == <<files, config, cycle, counters, history>>

Init ==
  /\ active = {} /\ notified = {}
  /\ clock = 0 /\ window \in Windows /\ enabled = TRUE
  /\ pc = [r \in Runs |-> "idle"]
  /\ todo = [r \in Runs |-> {}]
  /\ handled = [r \in Runs |-> {}]
  /\ kept = [r \in Runs |-> {}]
  /\ fires = 0 /\ clears = 0 /\ faults = 0
  /\ pushed = {} /\ disclaimed = {} /\ settled = {} /\ pruned = Alerts /\ refired = {}
------------------------------------------------------------------------------
\* The producer, the clock and the user.

Handled == UNION {handled[r] : r \in Runs}
Kept == UNION {kept[r] : r \in Runs}

\* A line that fires again is the same line: it is taken for handled if a
\* running cycle handles it, or if no cycle has committed since it cleared.
Suppressed(a) == a \in Handled \/ a \in (notified \union Kept) \ pruned

Fire(a) ==
  /\ a \notin active
  /\ fires < MaxFires
  /\ fires' = fires + 1
  /\ active' = active \union {a}
  /\ pushed' = pushed \ {a}
  /\ disclaimed' = disclaimed \ {a}
  /\ settled' = settled \ {a}
  /\ pruned' = pruned \ {a}
  /\ refired' = IF Suppressed(a) THEN refired \union {a} ELSE refired \ {a}
  /\ UNCHANGED <<notified, config, cycle, clears, faults>>

Clear(a) ==
  /\ a \in active
  /\ clears < MaxClears
  /\ clears' = clears + 1
  /\ active' = active \ {a}
  /\ settled' = settled \ {a}
  /\ pruned' = pruned \union ({a} \ (notified \union Kept \union Handled))
  /\ UNCHANGED <<notified, config, cycle, fires, faults, pushed,
                 disclaimed, refired>>

Tick ==
  /\ clock' = (clock + 1) % Day
  /\ UNCHANGED <<files, window, enabled, cycle, counters, history>>

ToggleChannel ==
  /\ faults < MaxFaults
  /\ faults' = faults + 1
  /\ enabled' = ~enabled
  /\ UNCHANGED <<files, clock, window, cycle, fires, clears, history>>
------------------------------------------------------------------------------
\* Mutant: a window of length zero lasts all day.
in_quiet_hours_strict(start, end, now) ==
  IF start < end THEN start <= now /\ now < end ELSE now >= start \/ now < end

\* The half-open window, which may wrap past midnight.
in_quiet_hours(start, end, now) ==
  IF start <= end THEN start <= now /\ now < end ELSE now >= start \/ now < end

Quiet == in_quiet_hours(window.start, window.end, clock)

\* One cycle.  new() is active minus notified.
New == active \ notified
ToPush == New \intersect Pushable

\* A cycle that reads the files while another rewrites one finds it empty, and
\* of two commits at once the later write undoes the earlier: bounded as a fault.
Alone(r) == \A q \in Runs \ {r} : pc[q] # "commit"

ReadFiles(r) ==
  /\ faults' = IF Alone(r) THEN faults ELSE faults + 1
  /\ faults' <= MaxFaults
  /\ UNCHANGED <<fires, clears>>

\* A cycle ends and leaves nothing but the files.
End(r) ==
  /\ pc' = [pc EXCEPT ![r] = "idle"]
  /\ todo' = [todo EXCEPT ![r] = {}]
  /\ handled' = [handled EXCEPT ![r] = {}]
  /\ kept' = [kept EXCEPT ![r] = {}]

\* A cycle that has something to send, or at least to commit.
Proceed(r, chosen, done) ==
  /\ pc[r] = "idle"
  /\ ReadFiles(r)
  /\ pc' = [pc EXCEPT ![r] = "send"]
  /\ todo' = [todo EXCEPT ![r] = chosen]
  /\ handled' = [handled EXCEPT ![r] = done]
  /\ UNCHANGED <<files, config, kept, pushed, settled, pruned, refired>>

\* "no new alerts": returns without a commit.
NothingNew(r) ==
  /\ pc[r] = "idle"
  /\ ReadFiles(r)
  /\ New = {}
  /\ End(r)
  /\ UNCHANGED <<files, config, history>>

\* Every new alert is info only: marked handled without a push.
OnlyInfo(r) ==
  /\ New # {}
  /\ ToPush = {}
  /\ Proceed(r, {}, New)
  /\ UNCHANGED disclaimed

\* Quiet hours and nothing critical: everything waits, nothing is committed.
Defer(r) ==
  /\ pc[r] = "idle"
  /\ ToPush # {}
  /\ Quiet
  /\ ToPush \intersect Critical = {}
  /\ ReadFiles(r)
  /\ End(r)
  /\ UNCHANGED <<files, config, history>>

\* Mutant: only what is info only is marked handled.
SelectForgetting(r) ==
  LET chosen == IF Quiet THEN ToPush \intersect Critical ELSE ToPush
  IN /\ chosen # {}
     /\ Proceed(r, IF enabled THEN chosen ELSE {}, New \ Pushable)
     /\ disclaimed' = IF enabled THEN disclaimed ELSE disclaimed \union chosen

\* Quiet hours let the critical alerts through; the rest stay unhandled.
\* With the channel disabled nothing is sent, yet all is marked handled.
Select(r) ==
  LET chosen == IF Quiet THEN ToPush \intersect Critical ELSE ToPush
  IN /\ chosen # {}
     /\ Proceed(r, IF enabled THEN chosen ELSE {}, chosen \union (New \ Pushable))
     /\ disclaimed' = IF enabled THEN disclaimed ELSE disclaimed \union chosen

\* The next message: max_per_message lines, or what is left.
Batches(S) ==
  IF Cardinality(S) <= MaxPerMessage THEN {S} ELSE kSubset(MaxPerMessage, S)

Deliver(batch) == pushed' = pushed \union batch

SendBatch(r) ==
  /\ pc[r] = "send"
  /\ todo[r] # {}
  /\ \E batch \in Batches(todo[r]) :
       /\ Deliver(batch)
       /\ todo' = [todo EXCEPT ![r] = @ \ batch]
  /\ UNCHANGED <<files, config, pc, handled, kept, counters, disclaimed, settled,
                 pruned, refired>>

\* A batch fails, before the server took it or with its answer lost: send()
\* stops there, nothing is committed and the next cycle retries everything.
SendFails(r) ==
  /\ pc[r] = "send"
  /\ todo[r] # {}
  /\ faults < MaxFaults
  /\ faults' = faults + 1
  /\ \E batch \in Batches(todo[r]) \union {{}} : Deliver(batch)
  /\ End(r)
  /\ UNCHANGED <<files, config, fires, clears,
                 disclaimed, settled, pruned, refired>>

\* Mutant: commit() prunes nothing.
KeepsAll == notified

\* Mutant: commit() keeps nothing.
KeepsNone == {}

\* What commit() keeps of the notified file.
StillActive == notified \intersect active

\* commit(): both files are read again, and write_text truncates the notified
\* file before it writes.
Truncate(r) ==
  /\ pc[r] = "send"
  /\ todo[r] = {}
  /\ ReadFiles(r)
  /\ pc' = [pc EXCEPT ![r] = "commit"]
  /\ kept' = [kept EXCEPT ![r] = StillActive]
  /\ notified' = {}
  /\ pruned' = (pruned \union (Alerts \ active)) \ (Handled \union Kept)
  /\ UNCHANGED <<active, config, todo, handled, pushed, disclaimed, settled,
                 refired>>

Write(r) ==
  /\ pc[r] = "commit"
  /\ notified' = kept[r] \union handled[r]
  /\ settled' = IF Alone(r) THEN settled \union (handled[r] \intersect active) ELSE {}
  /\ End(r)
  /\ UNCHANGED <<active, config, counters, pushed, disclaimed, pruned, refired>>

\* Killed: what is handled is not committed, and a truncated file stays empty.
Crash(r) ==
  /\ pc[r] # "idle"
  /\ faults < MaxFaults
  /\ faults' = faults + 1
  /\ settled' = IF pc[r] = "commit" THEN {} ELSE settled
  /\ End(r)
  /\ UNCHANGED <<files, config, fires, clears, pushed, disclaimed, pruned,
                 refired>>

Step(r) ==
  \/ NothingNew(r) \/ OnlyInfo(r) \/ Defer(r) \/ Select(r)
  \/ SendBatch(r) \/ Truncate(r) \/ Write(r)

Next ==
  \/ \E a \in Alerts : Fire(a) \/ Clear(a)
  \/ Tick \/ ToggleChannel
  \/ \E r \in Runs : Step(r) \/ SendFails(r) \/ Crash(r)

Spec == Init /\ [][Next]_vars

\* A cycle that begins outside the quiet hours.
Awake(r) == ~Quiet /\ (NothingNew(r) \/ OnlyInfo(r) \/ Select(r))

\* The clock goes on, a started cycle goes on, and cron starts cycles all day:
\* the hours that are not quiet are longer than the cron period.
FairSpec == /\ Spec
            /\ WF_vars(Tick)
            /\ \A r \in Runs : WF_vars(Step(r)) /\ SF_vars(Awake(r))
------------------------------------------------------------------------------
TypeOK ==
  /\ {active, notified, pushed, disclaimed, settled, pruned, refired} \subseteq SUBSET Alerts
  /\ clock \in Hours
  /\ window \in Windows
  /\ enabled \in BOOLEAN
  /\ pc \in [Runs -> {"idle", "send", "commit"}]
  /\ {todo, handled, kept} \subseteq [Runs -> SUBSET Alerts]
  /\ \A r \in Runs : todo[r] \subseteq handled[r] \intersect Pushable
  /\ \A r \in Runs : pc[r] = "idle" => handled[r] = {}
  /\ {fires, clears, faults} \subseteq Nat

(* No cycle selects an alert that is handled and has stood ever since,     *)
(* whatever else failed, crashed or overlapped (dedupe.py: "an alert we    *)
(* just handled won't notify again while it stays active"); unless it      *)
(* reads the notified file while another cycle rewrites it, or two cycles  *)
(* rewrote it at the same time.                                            *)
NoRepush ==
  [][\A r \in Runs : pc'[r] = "send" /\ Alone(r) =>
       (todo'[r] \ todo[r]) \intersect settled = {}]_vars

(* The notified file lists no pushable alert that nobody was told about    *)
(* since it last fired: neither a failed send, nor a crash, nor a cycle    *)
(* that overlaps another one marks as handled what was not sent, and an    *)
(* alert that cleared "drops out, and re-notifies if it fires again later" *)
(* (dedupe.py).  That takes a commit in between, which a cycle without new *)
(* alerts does not make (engine.py returns early): `refired'.              *)
NotifiedWasPushed ==
  notified \intersect Pushable \subseteq pushed \union disclaimed \union refired

(* An alert that stands is pushed in the end, unless it was marked handled *)
(* with the channel disabled, or is one of the refired: quiet hours, failed*)
(* sends and crashes only defer it (engine.py: "deferred, not dropped").   *)
EventuallyPushed ==
  \A a \in Pushable :
    (a \in active) ~> \/ a \in pushed \union disclaimed \/ a \notin active
                     \/ a \in refired \intersect notified
==============================================================================
