----------------------------- MODULE AccountSetup -----------------------------
(***************************************************************************)
(* How an account comes to be on disk, and is found there: link_device_    *)
(* async() and save_account_config() of provisioning.py, _register() and   *)
(* _verify() of cli.py, get_data_dir() of config.py, which moves a store   *)
(* from its legacy directory, and find_account_config() of messaging.py.   *)
(* Every command is a process of its own and may be killed at any step;    *)
(* several may run side by side, together with the commands and daemons    *)
(* that use an account through locked_account().                           *)
(*                                                                         *)
(* A command generates keys at most once, so that its process names them:  *)
(* <<p, identity, kind>> is key material made by p, in                     *)
(* generate_linking_payload() or generate_registration_payload(), and the  *)
(* device p is the one whose keys p published.  It draws a name for an     *)
(* account file at most once too, so that the name it draws is p as well;  *)
(* that two draws of six digits collide is left out.                       *)
(***************************************************************************)
EXTENDS Naturals, FiniteSets

CONSTANTS
  Procs,        \* processes, one command each
  Accounts,     \* phone numbers, with their ACI
  NoFile,       \* a file that does not exist
  NoAccount,    \* the process has not started
  Commands,     \* the commands that are run
  MaxFaults     \* bound on kills, lost answers and failed writes

Json == "accounts.json"
Marker == "MIGRATED-TO-SIGNAL-NOTIFY.txt"

\* The names of account files: that of the file an account had before, and
\* those the processes draw.
Paths == Accounts \union Procs

\* An account file of an earlier run.
Old == "old"
OldFile == [device |-> Old, keys |-> {}]

Devices == Procs \union {Old}
Identities == {"aci", "pni"}
Keys == (Procs \union {"random"}) \X Identities \X
          {"registrationId", "signedPreKey", "kyberPreKey", "oneTimePreKeys",
           "identityPrivateKey"}
AccountFiles == [device : Devices, keys : SUBSET Keys]

ASSUME NamesAssumption == /\ NoAccount \notin Accounts
                          /\ Accounts \intersect Procs = {} /\ Old \notin Procs
                          /\ \A A \in SUBSET Accounts : NoFile \notin [A -> Paths]
                          /\ NoFile \notin AccountFiles
                          /\ {Json, Marker} \intersect Paths = {}
ASSUME CommandsAssumption ==
  /\ Commands \subseteq {"link", "register", "verify", "use"}
  /\ MaxFaults \in Nat

VARIABLES
  json,         \* [Dirs -> accounts.json: a function from accounts to paths]
  file,         \* [Dirs -> [Paths -> account file]]
  marker,       \* [Dirs -> BOOLEAN]: MIGRATED-TO-SIGNAL-NOTIFY.txt is there
  newest,       \* [Accounts -> the device registered last] (server)
  stocked,      \* devices whose one-time prekeys are uploaded (server)
  session,      \* [Accounts -> verification session] (server)
  pc,           \* [Procs -> where the command is]
  cmd,          \* [Procs -> Commands]
  acct,         \* [Procs -> Accounts]
  todo,         \* [Procs -> directory entries still to be moved]
  mem           \* [Procs -> the other locals of the command]

\* History, read by the properties only.
VARIABLES
  broken,       \* processes killed, without an answer or with a failed write
  raced,        \* processes that lost a file to another migration
  overlapped    \* processes that wrote beside another writer

disk == <<json, file, marker>>
server == <<newest, stocked, session>>
history == <<broken, raced, overlapped>>
vars == <<disk, server, pc, cmd, acct, todo, mem, history>>

Dirs == {"legacy", "new"}
Terminal == {"saved", "over", "stopped"}

NoLocals == [signer |-> "pni", kept |-> {}, list |-> <<>>,
             path |-> NoFile, content |-> NoFile]

Init ==
  /\ \E d \in Dirs, A \in SUBSET Accounts :
       /\ json = [e \in Dirs |-> IF e = d /\ A # {} THEN [a \in A |-> a] ELSE NoFile]
       /\ file = [e \in Dirs |-> [x \in Paths |->
                    IF e = d /\ x \in A THEN OldFile ELSE NoFile]]
  /\ marker = [d \in Dirs |-> FALSE]
  /\ newest = [a \in Accounts |-> Old]
  /\ stocked = {}
  /\ session = [a \in Accounts |-> "none"]
  /\ pc = [p \in Procs |-> "idle"]
  /\ cmd = [p \in Procs |-> "none"]
  /\ acct = [p \in Procs |-> NoAccount]
  /\ todo = [p \in Procs |-> {}]
  /\ mem = [p \in Procs |-> NoLocals]
  /\ broken = {} /\ raced = {} /\ overlapped = {}

Goto(p, to) == pc' = [pc EXCEPT ![p] = to]

\* The command ends, and its locals are gone.
End(p, to) == /\ Goto(p, to)
              /\ mem' = [mem EXCEPT ![p] = NoLocals]
              /\ todo' = [todo EXCEPT ![p] = {}]

Start(p, c, a) ==
  /\ pc[p] = "idle"
  /\ cmd' = [cmd EXCEPT ![p] = c]
  /\ acct' = [acct EXCEPT ![p] = a]
  /\ Goto(p, CASE c = "link" -> "provision" [] c = "register" -> "create"
               [] c = "verify" -> "submit" [] c = "use" -> "dir")
  /\ UNCHANGED <<disk, server, todo, mem, history>>
------------------------------------------------------------------------------
\* What the generated payload publishes, and which of the privates come back.

PreKeys(g) == {g} \X Identities \X {"registrationId", "signedPreKey", "kyberPreKey"}
OneTimeKeys(g) == {<<g, "aci", "oneTimePreKeys">>}
IdentityKeys(g) == {g} \X Identities \X {"identityPrivateKey"}

\* Mutant: the privates are generated, published and dropped.
DiscardingPayload(g, pni) ==
  [published |-> PreKeys(g), keys |-> {}, signer |-> IF pni THEN "pni" ELSE "aci"]

\* generate_linking_payload() returns the privates of all it publishes, and
\* signs the PNI prekeys with the PNI identity, if it was given one.
LinkingPayload(g, pni) ==
  [published |-> PreKeys(g), keys |-> PreKeys(g) \union OneTimeKeys(g),
   signer |-> IF pni THEN "pni" ELSE "aci"]

\* generate_registration_payload() makes both identities as well.
RegistrationPayload(g) ==
  [published |-> PreKeys(g) \union IdentityKeys(g),
   keys |-> PreKeys(g) \union IdentityKeys(g)]

\* What save_account_config() writes: without a registration id in
\* responder_keys it draws one, which is not the one that was published.
Saved(g, responder) ==
  [device |-> g,
   keys |-> responder \union
     {<<"random", i, "registrationId">> :
        i \in {j \in Identities : <<g, j, "registrationId">> \notin responder}}]
------------------------------------------------------------------------------
\* link: the phone scans the code and sends the identities.

\* Two of these overlap when one has registered and not yet saved while the
\* other registers, saves or uses the same account; accounts.json is shared
\* by the saves of all accounts.
Unsaved == {"upload", "dir", "legacy", "marked", "list", "move", "ready",
            "writelist", "writefile"}
Registered(p) == pc[p] \in Unsaved /\ cmd[p] \in {"link", "verify"}
Saving(p) == pc[p] \in {"writelist", "writefile"}
Using(p) == pc[p] = "persist"

Overlap(p, others) ==
  overlapped' = IF others \subseteq {p} THEN overlapped
                ELSE overlapped \union others \union {p}

Provision(p) ==
  /\ pc[p] = "provision"
  /\ \E pni \in BOOLEAN :
       LET payload == LinkingPayload(p, pni)
       IN mem' = [mem EXCEPT ![p].kept = payload.keys, ![p].signer = payload.signer]
  /\ Goto(p, "registerdevice")
  /\ UNCHANGED <<disk, server, cmd, acct, todo, history>>

\* The server takes a device whose PNI prekeys verify under the PNI identity.
Accept(p) ==
  /\ newest' = [newest EXCEPT ![acct[p]] = p]
  /\ Overlap(p, {q \in Procs : acct[q] = acct[p] /\ Registered(q)})

RegisterDevice(p) ==
  /\ pc[p] = "registerdevice"
  /\ mem[p].signer = "pni"
  /\ Accept(p)
  /\ Goto(p, "upload")
  /\ UNCHANGED <<disk, stocked, session, cmd, acct, todo, mem, broken, raced>>

\* A provisioning message that does not decode, a closed socket, or a PUT
\* that is refused: nothing was registered.
LinkFails(p) ==
  /\ pc[p] \in {"provision", "registerdevice"}
  /\ End(p, "stopped")
  /\ UNCHANGED <<disk, server, cmd, acct, history>>

\* Best effort: a failed upload is not an error.
UploadOneTimePrekeys(p) ==
  /\ pc[p] = "upload"
  /\ stocked' \in {stocked, stocked \union {p}}
  /\ Goto(p, "dir")
  /\ UNCHANGED <<disk, newest, session, cmd, acct, todo, mem, history>>
------------------------------------------------------------------------------
\* register and verify: the verification session of a number, the newest one
\* if there are several.

\* POST /v1/verification/session: the code may be requested, or a captcha is
\* asked for, by the answer or by a 428.  With --captcha the command goes on.
CreateSession(p) ==
  /\ pc[p] = "create"
  /\ \E s \in {"open", "captcha"}, captcha \in BOOLEAN :
       /\ session' = [session EXCEPT ![acct[p]] = s]
       /\ Goto(p, CASE captcha -> "captcha"
                    [] ~captcha /\ s = "open" -> "requestcode"
                    [] ~captcha /\ s = "captcha" -> "over")
  /\ UNCHANGED <<disk, newest, stocked, cmd, acct, todo, mem, history>>

SubmitCaptcha(p) ==
  /\ pc[p] = "captcha"
  /\ \E s \in {"open", "captcha"} :
       /\ session' = [session EXCEPT ![acct[p]] = s]
       /\ Goto(p, IF s = "open" THEN "requestcode" ELSE "over")
  /\ UNCHANGED <<disk, newest, stocked, cmd, acct, todo, mem, history>>

RequestCode(p) ==
  /\ pc[p] = "requestcode"
  /\ session[acct[p]] = "open"
  /\ session' = [session EXCEPT ![acct[p]] = "coded"]
  /\ Goto(p, "over")
  /\ UNCHANGED <<disk, newest, stocked, cmd, acct, todo, mem, history>>

\* A verified code lets the command generate the account's keys, of which it
\* hands the identities to save_account_config() and drops the rest.
SubmitCode(p) ==
  /\ pc[p] = "submit"
  /\ session[acct[p]] \in {"coded", "verified"}
  /\ session' = [session EXCEPT ![acct[p]] = "verified"]
  /\ mem' = [mem EXCEPT ![p].kept = RegistrationPayload(p).keys \intersect IdentityKeys(p)]
  /\ Goto(p, "registeraccount")
  /\ UNCHANGED <<disk, newest, stocked, cmd, acct, todo, history>>

\* An error of the server, or a code that does not verify.
RegistrationFails(p) ==
  /\ pc[p] \in {"create", "captcha", "requestcode", "submit", "registeraccount"}
  /\ End(p, "stopped")
  /\ UNCHANGED <<disk, server, cmd, acct, history>>

\* POST /v1/registration uses the session up.
RegisterAccount(p) ==
  /\ pc[p] = "registeraccount"
  /\ session[acct[p]] = "verified"
  /\ session' = [session EXCEPT ![acct[p]] = "none"]
  /\ Accept(p)
  /\ Goto(p, "dir")
  /\ UNCHANGED <<disk, stocked, cmd, acct, todo, mem, broken, raced>>
------------------------------------------------------------------------------
\* get_data_dir(), at the start of every use and before every save.

Entries(d) == {x \in Paths : file[d][x] # NoFile}
              \union (IF json[d] # NoFile THEN {Json} ELSE {})
              \union (IF marker[d] THEN {Marker} ELSE {})

CheckNew(p) ==
  /\ pc[p] = "dir"
  /\ Goto(p, IF json["new"] # NoFile THEN "ready" ELSE "legacy")
  /\ UNCHANGED <<disk, server, cmd, acct, todo, mem, history>>

CheckLegacy(p) ==
  /\ pc[p] = "legacy"
  /\ Goto(p, IF json["legacy"] = NoFile THEN "ready" ELSE "marked")
  /\ UNCHANGED <<disk, server, cmd, acct, todo, mem, history>>

CheckMarker(p) ==
  /\ pc[p] = "marked"
  /\ Goto(p, IF marker["legacy"] THEN "ready" ELSE "list")
  /\ UNCHANGED <<disk, server, cmd, acct, todo, mem, history>>

ListDir(p) ==
  /\ pc[p] = "list"
  /\ todo' = [todo EXCEPT ![p] = Entries("legacy")]
  /\ Goto(p, "move")
  /\ UNCHANGED <<disk, server, cmd, acct, mem, history>>

\* Mutant: in the order of os.listdir.
AnyEntry(p, e) == e \in todo[p]

\* The entries are moved in sorted order: digits, capitals, small letters.
NextEntry(p, e) ==
  /\ e \in todo[p]
  /\ e = Marker => todo[p] \subseteq {Marker, Json}
  /\ e = Json => todo[p] = {Json}

Move(p) ==
  /\ pc[p] = "move"
  /\ \E e \in Entries("legacy") :
       /\ NextEntry(p, e)
       /\ todo' = [todo EXCEPT ![p] = @ \ {e}]
       /\ file' = IF e \notin Paths THEN file
                  ELSE [file EXCEPT !["new"][e] = file["legacy"][e],
                                    !["legacy"][e] = NoFile]
       /\ json' = IF e # Json THEN json
                  ELSE [json EXCEPT !["new"] = json["legacy"], !["legacy"] = NoFile]
       /\ marker' = IF e # Marker THEN marker
                    ELSE [marker EXCEPT !["new"] = TRUE, !["legacy"] = FALSE]
  /\ UNCHANGED <<server, pc, cmd, acct, mem, history>>

\* FileNotFoundError: another process has moved the entry.  It leaves the
\* command, also one that has just registered a device.
MoveFails(p) ==
  /\ pc[p] = "move"
  /\ \E e \in todo[p] \ Entries("legacy") : NextEntry(p, e)
  /\ raced' = raced \union {p}
  /\ End(p, "stopped")
  /\ UNCHANGED <<disk, server, cmd, acct, broken, overlapped>>

WriteMarker(p) ==
  /\ pc[p] = "move"
  /\ todo[p] = {}
  /\ marker' = [marker EXCEPT !["legacy"] = TRUE]
  /\ Goto(p, "ready")
  /\ UNCHANGED <<json, file, server, cmd, acct, todo, mem, history>>
------------------------------------------------------------------------------
\* save_account_config(): no lock is taken.

Listed(p) == mem[p].list
ListOf(d) == IF json[d] = NoFile THEN <<>> ELSE json[d]

\* A name is drawn until there is no file of that name.
FreshPath(p, x) == x = p /\ file["new"][x] = NoFile

\* Mutant: an account that is listed keeps no path.
ReadListForgets(p) ==
  /\ pc[p] = "ready"
  /\ cmd[p] \in {"link", "verify"}
  /\ \E x \in Paths :
       /\ FreshPath(p, x)
       /\ mem' = [mem EXCEPT
                    ![p].path = x,
                    ![p].list = [a \in DOMAIN ListOf("new") \union {acct[p]} |->
                       IF a \in DOMAIN ListOf("new") THEN mem[p].path ELSE x]]
  /\ Overlap(p, {})
  /\ Goto(p, "writelist")
  /\ UNCHANGED <<disk, server, cmd, acct, todo, broken, raced>>

ReadList(p) ==
  /\ pc[p] = "ready"
  /\ cmd[p] \in {"link", "verify"}
  /\ \E x \in Paths :
       /\ IF acct[p] \in DOMAIN ListOf("new")
          THEN x = ListOf("new")[acct[p]] ELSE FreshPath(p, x)
       /\ mem' = [mem EXCEPT
                    ![p].path = x,
                    ![p].list = [a \in DOMAIN ListOf("new") \union {acct[p]} |->
                                   IF a = acct[p] THEN x ELSE ListOf("new")[a]]]
  /\ Overlap(p, {q \in Procs : \/ Saving(q)
                               \/ acct[q] = acct[p] /\ (Using(q) \/ Registered(q))})
  /\ Goto(p, "writelist")
  /\ UNCHANGED <<disk, server, cmd, acct, todo, broken, raced>>

WriteList(p) ==
  /\ pc[p] = "writelist"
  /\ json' = [json EXCEPT !["new"] = Listed(p)]
  /\ Goto(p, "writefile")
  /\ UNCHANGED <<file, marker, server, cmd, acct, todo, mem, history>>

WriteFile(p) ==
  /\ pc[p] = "writefile"
  /\ file' = [file EXCEPT !["new"][mem[p].path] = Saved(p, mem[p].kept)]
  /\ End(p, "saved")
  /\ UNCHANGED <<json, marker, server, cmd, acct, history>>
------------------------------------------------------------------------------
\* Using an account: find_account_config(), then locked_account().

\* The file of an account, whether it is selected or the first of the list.
find_account_config(a) ==
  IF a \in DOMAIN ListOf("new") THEN file["new"][ListOf("new")[a]] ELSE NoFile

FindAccountConfig(p) ==
  /\ pc[p] = "ready"
  /\ cmd[p] = "use"
  /\ find_account_config(acct[p]) # NoFile
  /\ mem' = [mem EXCEPT ![p].path = ListOf("new")[acct[p]]]
  /\ Goto(p, "found")
  /\ UNCHANGED <<disk, server, cmd, acct, todo, history>>

\* None: "no native Signal account configuration found".
NotFound(p) ==
  /\ pc[p] = "ready"
  /\ cmd[p] = "use"
  /\ find_account_config(acct[p]) = NoFile
  /\ End(p, "over")
  /\ UNCHANGED <<disk, server, cmd, acct, history>>

Load(p) ==
  /\ pc[p] = "found"
  /\ \A q \in Procs : Using(q) => mem[q].path # mem[p].path
  /\ mem' = [mem EXCEPT ![p].content = file["new"][mem[p].path]]
  /\ Overlap(p, {q \in Procs : acct[q] = acct[p] /\ Saving(q)})
  /\ Goto(p, "persist")
  /\ UNCHANGED <<disk, server, cmd, acct, todo, broken, raced>>

\* What the transaction changed is not part of this model; a daemon goes on
\* to its next transaction.
Persist(p) ==
  /\ pc[p] = "persist"
  /\ file' = [file EXCEPT !["new"][mem[p].path] = mem[p].content]
  /\ \/ End(p, "over")
     \/ /\ Goto(p, "found")
        /\ mem' = [mem EXCEPT ![p].content = NoFile]
        /\ UNCHANGED todo
  /\ UNCHANGED <<json, marker, server, cmd, acct, history>>
------------------------------------------------------------------------------
\* A kill, or an OSError of a write; every write is atomic.
Break(p) ==
  /\ pc[p] \notin Terminal \union {"idle"}
  /\ Cardinality(broken) < MaxFaults
  /\ broken' = broken \union {p}
  /\ End(p, "stopped")
  /\ UNCHANGED <<disk, server, cmd, acct, raced, overlapped>>

\* The server registered the device, and the answer is lost.
AnswerLost(p) ==
  /\ \/ pc[p] = "registerdevice" /\ mem[p].signer = "pni"
     \/ pc[p] = "registeraccount" /\ session[acct[p]] = "verified"
  /\ Cardinality(broken) < MaxFaults
  /\ broken' = broken \union {p}
  /\ Accept(p)
  /\ session' = IF pc[p] = "registeraccount"
                THEN [session EXCEPT ![acct[p]] = "none"] ELSE session
  /\ End(p, "stopped")
  /\ UNCHANGED <<disk, stocked, cmd, acct, raced>>

Link(p) == \/ Provision(p) \/ RegisterDevice(p) \/ LinkFails(p)
           \/ UploadOneTimePrekeys(p)
Register(p) == CreateSession(p) \/ SubmitCaptcha(p) \/ RequestCode(p)
Verify(p) == SubmitCode(p) \/ RegisterAccount(p)
GetDataDir(p) == \/ CheckNew(p) \/ CheckLegacy(p) \/ CheckMarker(p) \/ ListDir(p)
                 \/ Move(p) \/ MoveFails(p) \/ WriteMarker(p)
SaveAccountConfig(p) == ReadList(p) \/ WriteList(p) \/ WriteFile(p)
Use(p) == FindAccountConfig(p) \/ NotFound(p) \/ Load(p) \/ Persist(p)

Next == \E p \in Procs :
          \/ \E c \in Commands, a \in Accounts : Start(p, c, a)
          \/ Link(p) \/ Register(p) \/ Verify(p) \/ RegistrationFails(p)
          \/ GetDataDir(p) \/ SaveAccountConfig(p) \/ Use(p)
          \/ Break(p) \/ AnswerLost(p)

Spec == Init /\ [][Next]_vars
------------------------------------------------------------------------------
TypeOK ==
  /\ \A d \in Dirs : \/ json[d] = NoFile
                     \/ \E A \in SUBSET Accounts : json[d] \in [A -> Paths]
  /\ \A d \in Dirs, x \in Paths : file[d][x] \in AccountFiles \union {NoFile}
  /\ marker \in [Dirs -> BOOLEAN]
  /\ newest \in [Accounts -> Devices]
  /\ stocked \subseteq Procs
  /\ session \in [Accounts -> {"none", "open", "captcha", "coded", "verified"}]
  /\ acct \in [Procs -> Accounts \union {NoAccount}]
  /\ todo \in [Procs -> SUBSET (Paths \union {Json, Marker})]
  /\ {broken, raced, overlapped} \subseteq SUBSET Procs

(* The migration keeps the store in one piece, however often it is killed  *)
(* and restarted and whoever runs it at the same time: as soon as the new  *)
(* directory has an accounts.json no account file is left behind, and no   *)
(* file is in both directories ("two live copies of ratchet state would    *)
(* diverge", config.py).                                                   *)
MigrationWhole ==
  /\ json["new"] # NoFile => \A x \in Paths : file["legacy"][x] = NoFile
  /\ json["new"] = NoFile \/ json["legacy"] = NoFile
  /\ \A x \in Paths : file["new"][x] = NoFile \/ file["legacy"][x] = NoFile

Published(p) ==
  IF cmd[p] = "link" THEN LinkingPayload(p, TRUE).published
                     ELSE RegistrationPayload(p).published

Found(p) == find_account_config(acct[p])

(* The file found for the account is the one of the device p registered,   *)
(* and holds every private a peer may need of it.                          *)
Kept(p) ==
  /\ Found(p) # NoFile
  /\ Found(p).device = p
  /\ cmd[p] = "link" =>
       /\ Published(p) \subseteq Found(p).keys
       /\ p \in stocked => OneTimeKeys(p) \subseteq Found(p).keys

(* The device registered last for an account is on its way to the disk, or *)
(* is found there with its keys, through any number of other commands,     *)
(* migrations and uses; unless the command was killed, got no answer or    *)
(* failed to write, lost a race with another migration, or wrote beside    *)
(* another writer.                                                         *)
RegisteredIsKept ==
  \A p \in Procs :
    pc[p] # "idle" /\ newest[acct[p]] = p =>
      Registered(p) \/ Kept(p) \/ p \in broken \union raced \union overlapped

(* What a registration advertised to the server is what the account file   *)
(* holds ("Registration IDs MUST match what we advertised to the server",  *)
(* provisioning.py).                                                       *)
AdvertisedIsKept ==
  \A p \in Procs :
    pc[p] = "saved" /\ newest[acct[p]] = p /\ p \notin overlapped =>
      Found(p) # NoFile /\ Published(p) \subseteq Found(p).keys
==============================================================================
