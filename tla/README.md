# TLA+ models of signal-notify

`signal-notify` pushes alerts to a Signal account from a linked device, and
reads its mailbox, without a Signal client: it speaks the server's HTTP and
websocket protocols, keeps the account in one JSON file, and implements PQXDH,
the Double Ratchet and SPQR itself. The modules here model the parts of
`src/src/signalnotify/` where interleavings, crashes, lost calls and stale data
decide whether a message arrives. Paths below are relative to that directory;
`PROJECT.json` maps every definition to its lines.

Run a model with `tlc -config <file>.cfg <module>`, a proof with
`tlapm <module>.tla`.

## 1. The system

| component | state it keeps | operations | interacts with |
|---|---|---|---|
| Account store: `native/store.py`, `config.py` | the account file, the flock on `<config>.lock`, a temp file | `locked_account`, `atomic_write_secure`, data-directory migration | everything that touches keys or sessions goes through it, from several processes |
| Receive loop: `native/receive.py` | the websocket, the message list of the connection, two spool files (`.inbox.jsonl`, `.undecryptable.jsonl`) | `receive()`, `listen()`: decrypt, quarantine or journal, ack, call back | server mailbox; account store per envelope; the callback may send |
| Send path: `native/messaging.py` | in the account: `nativeRatchetSessions`, `nativeDevices` | `send_message_native`: prepare under the lock, PUT outside it, reconcile 409/410 once | server's device list and bundles; account store |
| Alert engine: `engine.py`, `dedupe.py` | the active and the notified file, neither under a lock | `notify_from_config`, `AlertDiff.new`, `AlertDiff.commit` | an external producer writes the active file; batch sender |
| Batch sender, policy: `sender.py`, `policy.py` | none | `send`, `chunk`, `in_quiet_hours`, `matches_any` | send path, once per batch |
| Double ratchet: `native/ratchet.py` | a session: root, chains, counters, skipped keys, SPQR state | PQXDH, encrypt, decrypt | called by send path and receive loop |
| SPQR: `native/pure/spqr.py` | per session: key-exchange state, chain of epochs, key histories | `send`, `recv`, serialised between calls | called by the ratchet |
| Prekey maintenance: `native/maintenance.py` | in the account: prekey records, pools of replaced keys, rotation times | `refresh_prekeys` in three locked phases, `maintain_if_due` | server's key store; account store; receive loop calls it on connect |
| Account setup: `native/provisioning.py`, `native/registration.py`, `cli.py`, `config.py` | `accounts.json` and the account files, in the new or the legacy directory | `link`, `register`, `verify`, `save_account_config`, `get_data_dir` with its migration, `find_account_config` | server's registration; account store, which it writes without the lock |
| Attachments, crypto, other commands, Rust bindings | none that is shared | single HTTP calls, encryption, parsing | all of the above |

The processes are a `listen()` daemon, cron jobs that run `notify`, and
command-line sends. They share the account file and nothing else; the flock is
the only synchronisation. The alert engine's files have no lock.

What is hard, and what makes each part correct:

* *Account store*: a message number must never be used twice, although senders
  run in parallel and may die or fail to write at any point; no writer may undo
  another's commit; nobody may keep the lock.
* *Receive loop*: an ack deletes the envelope, a decryption uses up its key and
  commits that, and between the two the process may die or the connection drop,
  after which the server pushes the envelope again. No message may be in
  nobody's hands; one bad envelope must not block the rest; a callback that
  sends must not wait for its own loop.
* *Send path*: the devices of the recipient change without notice. What the
  server accepts must be readable, and one retry must be enough.
* *Alert engine*: sends fail half way, are deferred by quiet hours, and cycles
  overlap. An alert must not be lost, and not be repeated once handled.
* *Ratchet and SPQR*: messages are lost, reordered and repeated; both sides must
  keep deriving the same keys, and internal assertions must hold.
* *Prekey maintenance*: the server must never hand out a prekey whose private
  half this device does not have, whatever call fails or overlaps.
* *Account setup*: a device is registered before its keys are saved, the saves take no
  lock, and the migration moves one file after the other, in several processes. A
  registered device must end up on disk with its keys, and the store in one piece.

`PROJECT.json` lists the hazards line by line, each with the properties that
would catch it, and what those properties except.

## 2. Modules

| module | models | checked by |
|---|---|---|
| `AtomicAccount` | abstract: an account whose sends and receives are single steps | refined by `AccountStore` |
| `AccountStore` | `locked_account`, `atomic_write_secure` and how sends and receives use them | `MCAccountStore` |
| `AccountStore_proofs` | proofs for any number of callers and sessions | `tlapm` |
| `ReceiveLoop` | `_receive_async` under `receive()` and `listen()`, with the server's mailbox | `MCReceiveLoop` |
| `ReceiveLoop_proofs` | proofs for any envelopes, bounds and modes | `tlapm` |
| `AlertEngine` | `notify_from_config`, `AlertDiff`, `in_quiet_hours`, `send` and `chunk` | `MCAlertEngine` |
| `AlertEngine_proofs` | proofs for any alerts, cycles and quiet hours | `tlapm` |
| `AccountSetup` | `link_device_async`, `_register`, `_verify`, `save_account_config`, `get_data_dir`, `find_account_config`, and uses of the account beside them | `MCAccountSetup` |
| `AccountSetup_proofs` | proofs for any commands, accounts and faults | `tlapm` |
| `SendPath` | `send_message_native` and `_prepare_outgoing` | `MCSendPath` |
| `SendPath_proofs` | proofs for any senders, devices and changes | `tlapm` |
| `DoubleRatchet` | sessions of two parties: the root, chain and skipped keys of `ratchet.py` as messages are sent and received | `MCDoubleRatchet` |
| `DoubleRatchet_proofs` | proofs for any messages and skip limit | `tlapm` |
| `EpochAgreement` | abstract: two parties build one sequence of secrets by turns | refined by `Spqr` |
| `Spqr` | `spqr.send` and `spqr.recv`, both ends of a session, and the channel | `MCSpqr` |
| `KeyWindow` | `_EpochDir` and `_KeyHistory`: the message keys of an epoch and direction | `MCKeyWindow` |
| `Spqr_proofs` | proofs of `Spqr`, `KeyWindow` and the refinement, for any constants | `tlapm` |
| `PrekeyMaintenance` | `refresh_prekeys` and `maintain_if_due`, several callers, the server's keys | `MCPrekeyMaintenance` |
| `PrekeyMaintenance_proofs` | proofs for any callers and intervals | `tlapm` |

Definitions marked *Mutant* are plausible bugs. They are part of no
specification: each is put in place of the definition it precedes to see that
the property named in `PROJECT.json` then fails.

### AccountStore and AtomicAccount

A caller opens the lock file, waits in `flock`, loads the JSON, runs its body,
writes a temp file, renames it, closes the descriptor, and, if it sent, PUTs
outside the lock. Each is a step, so that everything may happen in between,
also a crash (which releases the flock, as the kernel does), an exception of
the body and a failed write. The account is reduced to what a lost update
damages: per session the number of messages encrypted (`ns`) and decrypted
(`nr`). Which session is touched, and whether the caller sends, receives or only
reads, is free.

`AtomicAccount` knows only `Reserve` (a send takes a number), `Accept` (a receive
advances), `Transmit` and `Drop`. The refinement maps the disk to the account and
the number a caller owns after the rename to its reservation: the rename is the
point where a send or a receive takes effect.

### ReceiveLoop

The loop goes `connect`, `recv`, `lock`, `body`, `parse`, `quarantine` or
`journal`, `ack`, `dispatch`, `callback`. The server keeps envelopes until an ack
reaches it and pushes all it keeps on the next connection; a dropped connection
loses the acks under way. `consumed` is the set of envelopes whose message key
is used up on disk, so that a second delivery does not decrypt; a PREKEY
envelope replaces the session and starts over. Sealed-sender envelopes are not
supported by the code and raise `NotImplementedError`, which is quarantined.
`mode` says how the loop is called, what may arrive, how many sends run beside it, and
whether the sessions carry SPQR state: SPQR's `recv` runs before the
ratchet's and raises `SpqrError`, which is not a `ValueError`, when asked for a
key it has handed out. A concurrent sender takes the lock and may open a session.
Leaving the loop closes the websocket with a handshake, behind the acks already sent;
only a broken connection or a kill loses acks.

### AlertEngine

One cycle computes `active \ notified`, keeps what is pushable, drops what
quiet hours hold back, sends in batches and commits. The producer and the
configuration change at any time, and the clock goes round the day; `Quiet` is
`in_quiet_hours` of the configured window and the hour. A batch may fail with or without
having reached the server, and the cycle may be killed. The commit is two steps, because
`write_text` truncates the file before it writes: `Truncate` reads both files and leaves
an empty one, `Write` fills it. A kill in between leaves it empty, another cycle may read
it empty, and of two commits at once the later write undoes the earlier.

The history variables say what the properties are about: `pushed` and `disclaimed` (told
since it last fired), `settled` (committed as handled and standing ever since), and
`refired` (fired again while a cycle still handled it or before any commit could drop it).

### AccountSetup

Each process runs one command for one account: `link`, `register`, `verify`, or a use of
the account, which may be a daemon that goes on to its next transaction. A `link` takes
the provisioning message, registers the device, uploads one-time prekeys (best effort),
resolves the data directory and saves; `register` and `verify` move the verification
session of the number on the server, and `verify` registers and saves. `get_data_dir` is
taken apart into its three checks, the listing, the move of each entry in sorted order
and the marker, since several processes run it at a time. `save_account_config` reads
`accounts.json`, writes it, and writes the account file, each atomic, none under a lock.
A process draws a name for an account file at most once, and the name is identified with
the process that draws it, as the files of earlier runs are with their accounts.

Keys are named by the process that made them: `LinkingPayload` and `RegistrationPayload`
say which are published and which privates come back, `Saved` what the file then holds.
The server keeps the device registered last. Three sets record how things went wrong:
`broken` (killed, no answer, a failed write), `raced` (a file moved away under the
migration) and `overlapped` (wrote beside another writer of the same account or of
`accounts.json`).

### SendPath

The account part of a send runs under the lock and is one step, which
`AccountStore` justifies; the PUT is another. The server accepts exactly the
registered devices with their registration ids. Devices join, leave, reinstall
(new registration id, old sessions gone) and open sessions with us. A message is
*unreadable* if it is a whisper on a session its device does not know.

### DoubleRatchet

Two devices that both run this code. A send opens a session if none is stored
(`SendPrekey`) and whispers on it otherwise; a receive starts anew for a PREKEY message and
uses the stored session for a whisper. Each call works on a copy that is stored under the
account lock only if it succeeds, so each is one step; one that raises is quarantined and
acked (`Refuse`). Each party may forget its session, which is what the send path does to a
device the server calls stale.

Keys are terms: a Diffie-Hellman result is the set of its two key pairs, a root or chain
key the sequence of results mixed into it, a message key a chain and a position. Two
parties agree on a key exactly when they mixed the same results in the same order, and a
message decrypts with its own key and no other. `skipped` is a sequence because the code
evicts by insertion order. What the store may drop (`Evicted`) is counted apart from the
code that drops: all but the newest `MaxSkip` of the keys passed over.

### Spqr and EpochAgreement

Both ends of one session. `send` and `recv` decode the stored state, work on the
copy and return a new one, so each call is one step, and a raise stores nothing:
`Refuse` loses the message and leaves the state. The channel is a bag per
direction, so messages overtake each other and get lost. All eleven states are
there, with the fields each one's protobuf message keeps (`Stored`): what a state
does not store is gone in the next call.

What the cryptography is made of is reduced to what decides whether it fits. A key
pair or an encapsulation is the number of the sample that made it, a secret is the
pair of both, and a MAC key is the sequence of secrets mixed into it: `verify_hdr`
fails exactly when the two sides' sequences differ. A body is decoded from any
`Needed` chunks, which is what the erasure code is for. If chunks of different
bodies reach one decoder it decodes garbage, so that mixing two streams is an
error the properties see. `Heeds` and
`MessageType` are the two tables of the protocol, one row per state; the actions of
`recv` are its transitions.

`EpochAgreement` says what the two ends promise each other: by turns, one of them
adds a fresh secret when both hold the same ones, and nothing is added until the
other has learnt exactly that secret.

### KeyWindow

The sequel to `Spqr` within one epoch: which key a message gets. `ctr` is the key the
receiving chain has derived last, `prev` the keys kept for overtaken messages, and
`given` counts how often a key was handed out. Any message sent so far may arrive at
any time and any number of times. `Advance` is one call of `_EpochDir.key` with its
clearing, its loop and its lazy `gc`; `gc` sees the chain one short of the message,
as in the code.

### PrekeyMaintenance

The callers share the account file and the server. A refresh is `Count` (the GET),
`Generate` (phase 1 under the lock), `Upload` (the PUT) and `Activate` (phase 2 under
the lock); each phase is one step, which `AccountStore` justifies. `AnswerLost` is a
PUT that the server took and the caller saw fail; `Abandon` is every other failure and
a kill. A caller's clock is read once at its start and used in all phases, so the
modelled clock runs on while it waits (`MaxStall` bounds by how much).

## 3. Runs

| run | shows | bounds, and why they suffice |
|---|---|---|
| `account_store` | `NoCounterReuse`, `NeverRollsBack`, `AtomicSpec`, `LockReleased` | 2 callers, 2 sessions, chains to 2. One session shows reuse, two show one caller's commit undoing another's; a second advance per chain shows what follows a skipped number. More callers are covered by the proofs |
| `receive` | `AckedIsSafe`, `NothingLostUnlessKilled`, `AckedIsReturned`, `MailboxDrains`, `PlainUndecryptablePreserved`, `CallbackEnds` | `listen(journal=True)` on sessions with and without SPQR state, a draining `receive()` and a persistent one with a limit. A PREKEY, a whisper on its session, a reply on ours, a receipt, content without text, a sealed envelope and one that does not parse, up to three of them per mode; `max_messages` 2, so every exit occurs; 1 fault, 1 kill, 1 concurrent send: every envelope can come twice and the second delivery be disturbed again |
| `receive_poison` | violation of `UndecryptablePreserved` with SPQR state | 1 kill |
| `alert_cycle` | `NotifiedWasPushed`, `NoRepush`, `EventuallyPushed` | 2 overlapping cycles, 3 alerts (critical, pushable, info), 1 per message so that batches occur, a day of 3 hours with a window that wraps and one of length zero, 1 fault (a failed send, a kill, also within a commit, a read or a commit beside another commit, or an edit of the config), 3 firings and 1 clearing, so that an alert fires again. The safety properties are proved for all values |
| `send_overlap` | `CachedHaveSessions`, `RetrySuffices`, `ReadableAfterChanges` | 2 senders, 2 devices, 3 sends; 2 joins or leaves, 1 reinstall, 1 session opened by the peer, 1 lost call, at any time |
| `send_lost` | violation of `AcceptedReadable` | 1 lost PUT |
| `session` | `KeysAreFresh`, `InSessionReadable`, `OpenedOnce`, `KeysAreForgotten` | 4 messages one way and 2 the other, so each side turns the ratchet, leaves a tail on its old chain, and a store of 1 key (`MaxSkip`) overflows and refuses; 2 repeated deliveries, which are what it takes to restart a session and read a whisper again; 1 forgotten session; any loss and order |
| `spqr` | `NothingBreaks`, `AgreementSpec`, `EpochsComplete` | 2 messages under way in each direction, 3 chunks per body, 4 epochs. Two messages overtake each other; of three chunks the first changes the state, the second only collects and the third completes; four epochs let each side take each role twice and the links of the first epochs be dropped while a message of them is still under way. Deadlock is checked |
| `key_window` | `NoKeyTwice`, `RefusalsJustified`, `StoreBounded` | `MaxOoo` 10 is the smallest window whose lazy trimming (a tenth more) differs from an eager one; 15 messages pass the window and make `gc` run; a jump of 12 reaches past the window, where the store is cleared |
| `prekey_overlap` | `ServerKeysHeld`, `StampHonest`, `ActiveKeysLast` | 2 callers (interchangeable), rotation and archive age of 2 ticks, a refresh that takes up to 1 tick, 3 rotations after linking, one batch of one-time keys, 4 ticks: a replaced key ages out within the run while another refresh is between its phases |
| `setup` | `MigrationWhole`, `RegisteredIsKept` | 3 processes, 2 accounts (each interchangeable), any of the four commands each, a store that starts in either directory with any of the accounts, 2 kills or lost answers. Two processes race, a third comes after them or uses what they wrote; two accounts share one `accounts.json`. Both are proved for all values |
| `register_keys` | violation of `AdvertisedIsKept` | `register` and `verify` of one account, no faults needed |

`CHECK_DEADLOCK FALSE` is set where the bounds let the system stop (no more
envelopes, sends or commands); the account store never stops and is checked for
deadlock, as are the alert cycles and SPQR.

What the passing properties do not say:

* `NothingLostUnlessKilled` leaves out a kill between the commit of the ratchet and the
  journal. It loses the message: the redelivered envelope no longer decrypts and is
  quarantined. TLC shows it when `NothingLost` is checked instead. The docstring of
  `listen()` ("so nothing is lost") speaks of callbacks that crash, and for
  those it holds.
* `NothingBreaks` allows `recv` to refuse a message of at least two epochs before the
  receiver's own: `send_key` keeps one epoch before the one it sends in. Such a
  message is lost to its user. It takes a delay by a whole key exchange.
* `EpochsComplete` is about two users who go on writing. A session in which only one
  side writes never completes an epoch, by design.
* `RefusalsJustified` counts a jump of more than `MaxJump` as justified. It is the limit
  the code states; since a refused message does not move the chain, later messages
  of that epoch are refused too.
* `ActiveKeysLast` grants the archive age less `MaxStall`: `archivedAt` is the time the
  refresh began, not the time the server replaced the key. It is about keys that were
  active when they were replaced. "Replaced keys are kept for 30 days" is not true of the
  others: a key is parked with the time it was made as its `archivedAt`. If the server
  took the upload and the answer was lost (or the process died before phase 2), peers use
  that key, but here it never becomes active, and a device that then stays off for longer
  than 30 days drops it in the same refresh that replaces it on the server, before the
  mailbox is read. TLC shows it when `ReplacedKeysLast` is checked instead.
* `InSessionReadable`, `OpenedOnce` and `KeysAreForgotten` are about the session the
  receiver holds, and a PREKEY message always replaces that. If one is delivered again after
  a reply was sent (its ack was lost, or the process died before it), the party that sent
  the reply starts over with a new key pair: what the peer writes after reading the reply
  cannot be decrypted, and whispers it had read are read again when they are repeated too.
  If both ends write their first message before they read the other's, each ends with the
  session the other began, and every later whisper fails at both ends, although
  `docs/customizing.md:110` says of the shared store "so you can alternate". The
  properties name these cases (`severed`, `restarted`, `InSession`) and no others.
* `AckedIsReturned` is about calls in which nothing breaks. If the connection does,
  or if a redelivered envelope raises `SpqrError`, `receive()` raises and the list
  of messages already acked is gone; without `journal=True` the documentation
  promises nothing else.
* `PlainUndecryptablePreserved` is about sessions without SPQR state, for the reason
  `receive_poison` shows. Without a journal it leaves out an envelope that was decrypted
  before: the caller has it.
* `NotifiedWasPushed` and `EventuallyPushed` except the alerts that are `refired`. A cycle
  without new alerts returns before its commit (`engine.py:67`), so an alert that cleared
  stays in the notified file until some other alert is new; if it fires again before that,
  it is not pushed. The same happens if it clears and fires while a cycle is sending it.
  `dedupe.py:11-12` promises otherwise ("drops out, and re-notifies if it fires again
  later"). Both also take an alert marked handled with the channel disabled as done; the
  code says so in its output ("NOT sent").
* The README's "exactly once per alert instance" is not stated as a property: after a
  failed batch the earlier batches are pushed again, which is the price of retrying.
* `NoRepush` is about alerts that were handled when a cycle selects, and that it can read:
  it excepts a cycle that reads the notified file during another's commit, and ends with
  two commits at once, of which the later write undoes the earlier. Two overlapping
  cycles also both push what both found new; no lock and no document says otherwise.
* `RegisteredIsKept` excepts processes in `broken`, `raced` and `overlapped`. Each of these
  happens in the code: a kill between the registration and the save leaves a device
  whose keys nobody has; `get_data_dir` is called after the registration, so the
  `FileNotFoundError` of a lost migration race costs a registered device as well; a daemon
  that loaded the old account before a relink saves it afterwards; and of two saves at a
  time for different accounts the later write of `accounts.json` drops the other's entry.
* `ReadableAfterChanges` holds for sends that nothing fails in and nothing happens
  during. A join during a send, a second sender that overtakes the first PREKEY
  message, or a lost PUT break it, all for the one reason `send_lost` shows: a
  stored session makes every later message a whisper, whether or not the peer ever
  got the PREKEY message.

## 4. Where code and documents differ

* `receive_poison`: "Undecryptable envelopes are always preserved". With SPQR state
  a redelivered envelope raises `SpqrError` through the loop. It is neither
  quarantined nor acked, and since it comes first on every connection, the
  envelopes behind it wait too.
* `register_keys`: "Registration IDs MUST match what we advertised to the server".
  `_verify` passes no `responder_keys` to `save_account_config`, which then draws new
  registration ids and stores no signed and no Kyber prekey. The private halves of what
  the registration published exist nowhere.
* `send_lost`: "a crash between persist and PUT can only skip a message key, which
  the ratchet tolerates". Of a first send it loses the message that would have
  set up the peer's session.

Two more, seen while reading or in the runs above, without a run of their own: the
refired alerts of `dedupe.py:11-12` described in section 3; and the backoff of `listen()`,
which is said to be "reset after a healthy connection" and is reset only when a connection
lasts its whole hour and ends without an error (`receive.py:543`): connections that are
healthy for less and then drop are counted as consecutive failures.

## 5. Fairness

* `AccountStore`: weak fairness of each caller's own steps. A process that is not
  blocked is scheduled; nothing is assumed about who wins the flock, and no one is
  obliged to call. `LockReleased` needs no more, since a holder is never blocked.
* `ReceiveLoop`: weak fairness of the loop (a daemon or cron starts it again after
  every exit), of a sender that holds the lock, and of the server processing an
  ack that reached it. Faults, kills, arrivals and sends are bounded and not
  obliged to happen.
* `AlertEngine`: weak fairness of the clock and of each cycle's steps, and strong
  fairness of beginning a cycle outside the quiet hours: cron starts one every few
  minutes, and the time that is not quiet is longer than that. Without the last, cycles
  might begin in quiet hours only. Failures are bounded: with a server that refuses for
  ever nothing can be promised.
* `Spqr`: weak fairness of each party's sending, since the ratchet advances only when
  users write, and strong fairness of each party's receiving: the channel may lose any
  message, but of what is sent again and again something arrives. Loss itself is
  unbounded.
* `AccountSetup`, `DoubleRatchet`, `KeyWindow`, `PrekeyMaintenance`, `SendPath`: safety only, no
  fairness.

## 6. Proofs

`AccountStore_proofs` assumes only the named assumptions on the constants (`NoProc` is
no caller, `NoTicket` no message number, the bound is a natural number). It proves
`TypeCorrect`, `CountersAreUnique`, `CommitsNeverRollBack` and
`ImplementsAtomicAccount`.

None of them is inductive. What holds them together is `IInv`:

1. `LockInv`: the callers past `flock` are exactly the holder of the lock.
2. `SnapshotInv`: the dict a caller loaded is still what the disk holds, and what
   it is about to write is that plus one step. It rests on 1: only a holder renames.
3. `TicketInv`: who owns a message number, and that until the rename it is the next
   one of the chain on disk. It rests on 2.
4. `SpentInv`: every number on the wire or owned after the rename is below the chain
   on disk. A rename moves the chain past the number it issues (2, 3).
5. `NoCounterReuse` follows: a number just issued equals the old counter, all others
   lie below it.

That commits never roll back is the effect of one rename given 2. The refinement
maps a rename to `Reserve` or `Accept`, a PUT to `Transmit`, a failed PUT or a crash
to `Drop`, and every other step to a stutter. `IInv` was checked with TLC before it
was proved.

`ReceiveLoop_proofs` proves four of the properties from the constants' assumptions, for
every set of envelopes, all traffic, drops and kills, action by action.
`TypeCorrect` needs that the loop holds an envelope wherever it works on one
(`HoldsEnvelope`): the request that announces the empty queue is never decrypted, spooled
or acked as one. The server's ack takes the one copy of the envelope out of the mailbox.
`AckedIsAlwaysSafe` says in addition (`Safe`) that an envelope in hand at the ack is in a
spool file unless it has nothing to lose. `NothingIsLostUnlessKilled` looks at all that is
decrypted, not only at what is deleted (`Journaled`): between the commit of the ratchet
and the journal the envelope stays in hand. `AckedIsHandedOver` follows the message from
there through the list of the connection to the caller (`Handed`), as long as the
connection holds.

`Spqr_proofs` proves `TypeCorrect`, `SessionsNeverBreak` and `EpochsAgree` (the refinement of
`EpochAgreement`) for any number of chunks, messages under way and epochs. Whether a MAC
fits depends on what both ends have mixed in, so the invariant (`IInv`) is about the two of
them at once:

1. `Round`: either both are in one epoch, one offering and the other answering in the
   order of the turns (`Exchange`), or one has just ended it (`Handover`). `InStep` says which
   states go together, and that the chains are equal until the answerer encapsulates
   and differ by its secret after that.
2. `OfferData` and `AnswerData`: every key, ciphertext and decoder stored is of this
   epoch. A decoder holds chunks of one body only, never a mixture.
3. `MessageOK`: a message of the present epoch tells the truth about how far its sender
   has come, and its chunk is of the body the sender still stands for. `Advances` is what a
   step within an epoch must not take back, and `MessagesStay` that it then leaves all
   messages true, however long they are delayed.
4. `IsState` and `IsChain`: what is stored is what the next call reads (`Save` is
   idempotent), and the links kept are those of the send epoch and its predecessor.

From 3 a heeded chunk is of the body the decoder is at (`HeededMessage`), so nothing is
erroneous, and by 1 nothing is from the future; what is left to raise is a message two
epochs late (`OnlyLateRaises`). Each transition is proved first between states as records,
then for the action. For the refinement, `Encapsulate` is a step of `Propose`, `DecodeCt2`
one of `Learn`, and all others leave the chains alone (`StepKinds`). TLC checked `IInv` at
three epochs before it was proved.

The same module proves all four properties of `KeyWindow` for every window, jump
and bound. `NoKeyTwice` and `RefusalsJustified` rest on one invariant, `WindowIInv`: a kept key
is below the chain and unused (`KeptUnused`), a key ahead of the chain is unused
(`AheadUnused`), the key of the chain itself is used (`ChainKeyUsed`), and every unused
key inside the window is kept (`WindowKept`). The last is what `clear` and `gc` could
break; `AdvanceKeeps` is the lemma about them. `StoreIsBounded` adds that a
trimmed list fits into the window, by cardinality, and that one call adds no more.
This is where proof goes beyond the run: the deployed window is 2000 keys wide.

`AlertEngine_proofs` proves `TypeCorrect`, `HiddenWasTold` and `HandledIsNotRepushed` for
any alerts, cycles, day, quiet hours and faults. The first safety property adds what the
cycles in flight are about to write (`ToldInv`): everything a cycle is about to mark
handled was told, is an exception, or is still to be sent. The second adds that what is
settled stays in the notified file unless a commit is half done (`SettledInv`).

`AccountSetup_proofs` proves `TypeCorrect`, `MigrationIsWhole` and
`RegisteredDevicesAreKept` for any processes, accounts and faults. The
order of the moves carries it: `accounts.json` goes last, so a legacy directory without
it is empty, a process that is moving has on its list all that is left, and whoever is
past `get_data_dir` has nothing left to move.

`RegisteredIsKept` says where a device must end up; its invariant (`SetupInv`) says what can
get in the way, for a process that no exception names (`Clean`). The name of an account
file belongs to one account for ever (`Owner`), in both directories, in every list about to
be written and in the locals of every command, so no other account's write hits the file.
On its way (`KeptOf`) the process is the only one of its account that has registered and
not saved, saves alone, and its account is used by nobody meanwhile. Once it has saved
(`Settled`), the file is listed, every list about to be written has the same entry, and
every transaction on that file holds what is in it. What breaks one of these is what puts
a process in `overlapped`, and the migration takes nothing away because whoever has got so
far is past it. TLC checked `SetupInv` on the run before it was proved.

`PrekeyMaintenance_proofs` proves `TypeCorrect`, `ServedIsHeld`, `ReplacedActiveKeysLast`
and `StampIsHonest` from one invariant, `KeysInv`, for any number of callers and any times
with `Archive + 1 >= Refresh + MaxStall`. The deployed values (30 days, 2 days, seconds)
are far on the safe side of this; it is sufficient, and nothing is claimed about values
that break it. The hard part is the key whose upload was accepted while the answer was
lost: it is served but not active, and only its entry in the pool keeps it. `Served` says
that this entry is too young for any clean-up under way or to come before the next
rotation, which needs that ids in flight differ (`Owned`), that no call is older than
`MaxStall` (`Timely`), and that a call that does not rotate comes within an interval of
the last rotation (`Rotated`). `Lasting` is the same for the keys that were active.

`SendPath_proofs` proves `TypeCorrect`, `CachedDevicesHaveSessions`, `OneRetrySuffices` and
`AcceptedIsReadable` for any senders, devices and changes. `OneRetrySuffices` says what an
undisturbed retry addresses: exactly the registered devices with their registration ids.
`AcceptedIsReadable` (`ReadInv`) says, while all is calm, that each session of a device that
is as we know it is known to the device, or is about to be taught by a PREKEY message
under way (`Sound`), that whispers under way are on known sessions (`Whispers`), and that
the server names every device that is not as we knew it (`Drops`).

`DoubleRatchet_proofs` proves all five properties of the module, `TypeCorrect`,
`MessageKeysAreFresh`, `WhispersOpenOnce`, `ReadKeysAreForgotten` and
`SessionMessagesAreReadable`, for any number of messages, any skip limit, and any losses,
repeats and forgotten sessions. A message key is a chain and a position. The last result mixed
into a sending chain holds a key pair its owner made for this chain alone, so the sending
chains of two sessions are never the same (`FreshInv`, `NewChain`); and along one chain
every message sent is below the counter of the session. A decryption either turns to a new
pair or leaves the sending side alone (`DecryptedSends`).

`WhispersOpenOnce` and `ReadKeysAreForgotten` rest on one invariant (`OnceInv`). A key is *passed* by a session if it is on
a chain shorter than its receiving chain, or on that chain below `nr`. Every key that was
used and every key that is kept is passed, no used key is kept, and no key is kept twice;
skipping, evicting and turning keep this (`SkipUsed`, `NewestPart`, `RatchetUsed`), and a
message that decrypts has either a kept key, which is removed, or the next one, which
nothing passed has (`DecryptUsed`). This speaks of one handshake. That a new session begins a
handshake of which nothing was read is `OriginInv`: each root goes back to a key pair
that one first message alone has.

That the messages of a session can be read takes both ends at once (`LineInv`). Unless a
repeated first message has severed the handshake:

1. One session's root chain follows the other's by one result (`Linked`), so the two turn
   in step. What a device has sent is on its sending chain, exactly two results earlier
   and then below `pn`, or earlier still (`OwnLine`; `PairLine` says the same of two
   messages).
2. Seen from its receiver, a message is behind the session, and then it was read, is kept,
   or was evicted; or it is ahead on the receiving chain; or it is on the chain the next
   turn leads to (`Reach`, in `PeerLine`). No fourth place exists: this is where a lost
   `pn`, a key pair used again or a key skipped without being kept would show.
3. The receiving chain and the kept keys carry the header key of messages the peer has
   sent (`FormLine`), so that the lookup by header and the key agree (`KeptIsOwn`).
4. A first message that was not answered is the beginning of the handshake for its sender
   too (`Unanswered`, `FirstLine`), and an answer to a handshake restarted is what severs
   it (`NothingAnswered`).

`DecryptForms` gives the three things a decryption can do to a session as relations
between records: it takes a kept key, goes on along the chain, or turns. Each is then
shown to keep `LineInv` (`KeptLine`, `WentOnLine`, `TurnLine`), as are the sends
(`TransmitLine`); `LaterReadable` goes through the three places of `Reach`. TLC checked
`LineInv` on the run's instance before it was proved.

Model-checked only: the liveness properties (TLAPS 1.4.5 does neither fairness nor
ENABLED). Every invariant and every action property that a passing run checks is proved.

## 7. Not modelled

Field elements, ML-KEM and Kyber arithmetic, the erasure code, protobuf, padding and
the provisioning cipher are data: the repository checks them against vectors.
Argument parsing, logging, QR codes, attachments and the Rust bindings keep no state that
others share. File modes are left out; so is a power loss after the rename (the code
fsyncs the file, not the directory). Of the send path, a single recipient is
modelled: recipients share no state but the lock. Of the receive loop, a single
session key: the entries of `nativeRatchetSessions` are independent.

Of the double ratchet, AES, HMAC, HKDF and the JSON form of a session are left out, as are
one-time and Kyber prekeys, which change the secret of a handshake and not its order.
Of SPQR, the negotiation down to V0 and the wrap of the encoder's index after 65 536
chunks are left out. Of prekey maintenance, the two kinds of rotating keys go through
the same steps and are one. The wrap of prekey ids at 0xFFFFFF is left out: it takes some
16.7 million ids to reach. The delays of `listen()`'s backoff are left out: the loop starts
again after every exit, at no particular time. Of `save_account_config`, that two draws of a
six-digit name collide is left out: a name is free when no file has it, also if a save that
was killed has listed it already.

## 8. Plan

What is left, in this order.

1. The delays of `listen()`'s backoff, and with them how long a mailbox may wait.
