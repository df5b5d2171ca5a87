-------------------------- MODULE AccountSetup_proofs --------------------------
(***************************************************************************)
(* What is proved of AccountSetup, for any number of processes and of      *)
(* accounts, any commands and any number of faults:                        *)
(*                                                                         *)
(* 1. The migration of the account store keeps it in one piece.            *)
(*    MigrationWhole is not inductive.  What makes it so is the order of   *)
(*    the moves: accounts.json goes last, so that a legacy directory       *)
(*    without it is empty (JsonLast), a process in the middle still has on *)
(*    its list all that is left (ListCovers), and whoever is past          *)
(*    get_data_dir() finds nothing left to move (PastMigration).           *)
(*                                                                         *)
(* 2. The types, and that the device registered last is kept.  The names   *)
(*    of account files belong to one account for ever (Owner), so that two *)
(*    accounts never share a file (ListsInv, LocalsAt); a process that no  *)
(*    exception names goes to the disk alone (KeptOf): no other process of *)
(*    its account has registered and not saved, nobody saves beside it,    *)
(*    its entry is in every list about to be written, and a transaction on *)
(*    its file writes back what is there (Settled).                        *)
(***************************************************************************)
EXTENDS AccountSetup, TLAPS

LegacyEmpty == \A x \in Paths : file["legacy"][x] = NoFile

\* The functions keep their domains.
Shape ==
  /\ json = [d \in Dirs |-> json[d]]
  /\ file = [d \in Dirs |-> [x \in Paths |-> file[d][x]]]
  /\ marker \in [Dirs -> BOOLEAN]
  /\ pc = [p \in Procs |-> pc[p]]
  /\ todo = [p \in Procs |-> todo[p]]

JsonLast == json["legacy"] = NoFile => LegacyEmpty

MarkerAfter == marker["legacy"] => json["legacy"] = NoFile

ListCovers ==
  \A p \in Procs : pc[p] = "move" =>
    /\ \A x \in Paths : file["legacy"][x] # NoFile => x \in todo[p]
    /\ json["legacy"] # NoFile => Json \in todo[p]

Past == {"ready", "writelist", "writefile", "found", "persist"}

PastMigration ==
  \A p \in Procs : pc[p] \in Past => json["legacy"] = NoFile

IInv == /\ Shape /\ MigrationWhole /\ JsonLast /\ MarkerAfter /\ ListCovers
        /\ PastMigration

\* The initial states satisfy the invariant.
LEMMA InitIInv == Init => IInv
<1> SUFFICES ASSUME Init PROVE IInv
  OBVIOUS
<1>1. PICK d \in Dirs, A \in SUBSET Accounts :
        /\ json = [e \in Dirs |-> IF e = d /\ A # {} THEN [a \in A |-> a] ELSE NoFile]
        /\ file = [e \in Dirs |-> [x \in Paths |->
                     IF e = d /\ x \in A THEN OldFile ELSE NoFile]]
  BY DEF Init
<1>2. PICK home : home = [a \in A |-> a]
  OBVIOUS
<1>4. /\ json["new"] = IF d = "new" /\ A # {} THEN home ELSE NoFile
      /\ json["legacy"] = IF d = "legacy" /\ A # {} THEN home ELSE NoFile
      /\ \A x \in Paths : file["new"][x] = IF d = "new" /\ x \in A
                                           THEN OldFile ELSE NoFile
      /\ \A x \in Paths : file["legacy"][x] = IF d = "legacy" /\ x \in A
                                              THEN OldFile ELSE NoFile
      /\ \A e \in Dirs : file[e] = [x \in Paths |-> file[e][x]]
  BY <1>1, <1>2 DEF Dirs
<1>5. Shape
  <2>1. json = [e \in Dirs |-> json[e]]
    BY <1>1
  <2>2. file = [e \in Dirs |-> [x \in Paths |-> file[e][x]]]
    BY <1>1
  <2> QED BY <2>1, <2>2 DEF Init, Shape
<1>6. home # NoFile
  <2>1. home \in [A -> Paths]
    BY <1>2 DEF Paths
  <2> QED BY <2>1, NamesAssumption
<1>7. MigrationWhole /\ JsonLast
  <2>1. CASE d = "new"
    BY <1>4, <2>1 DEF MigrationWhole, JsonLast, LegacyEmpty
  <2>2. CASE d = "legacy"
    BY <1>4, <1>6, <2>2 DEF MigrationWhole, JsonLast, LegacyEmpty
  <2> QED BY <2>1, <2>2 DEF Dirs
<1>8. MarkerAfter /\ ListCovers /\ PastMigration
  BY DEF Init, MarkerAfter, ListCovers, PastMigration, Past, Dirs
<1> QED BY <1>5, <1>7, <1>8 DEF IInv

\* A step of p that leaves the disk alone, and does not enter a migration or
\* leave one by itself.
LEMMA Aside ==
  ASSUME IInv, NEW p \in Procs, NEW to, UNCHANGED disk,
         pc' = [pc EXCEPT ![p] = to],
         todo' = todo \/ todo' = [todo EXCEPT ![p] = {}],
         to # "move",
         to \in Past => json["legacy"] = NoFile
  PROVE  IInv'
<1>1. Shape' /\ MigrationWhole' /\ JsonLast' /\ MarkerAfter'
  BY DEF IInv, Shape, MigrationWhole, JsonLast, MarkerAfter, LegacyEmpty, disk
<1>2. ListCovers'
  <2> SUFFICES ASSUME NEW q \in Procs, pc'[q] = "move"
               PROVE  /\ \A x \in Paths : file'["legacy"][x] # NoFile => x \in todo'[q]
                      /\ json'["legacy"] # NoFile => Json \in todo'[q]
    BY DEF ListCovers
  <2>1. q # p /\ pc[q] = "move"
    BY DEF IInv, Shape
  <2>2. todo'[q] = todo[q]
    BY <2>1 DEF IInv, Shape
  <2> QED BY <2>1, <2>2 DEF IInv, ListCovers, disk
<1>3. PastMigration'
  BY DEF IInv, Shape, PastMigration, disk
<1> QED BY <1>1, <1>2, <1>3 DEF IInv

\* get_data_dir() ends in "ready" only when nothing is left in the legacy
\* directory, and starts moving with all that is there on its list.
LEMMA ChecksPreserve ==
  ASSUME IInv, NEW p \in Procs,
         CheckNew(p) \/ CheckLegacy(p) \/ CheckMarker(p) \/ ListDir(p)
  PROVE  IInv'
<1>1. CASE CheckNew(p)
  <2>1. json["new"] # NoFile => json["legacy"] = NoFile
    BY DEF IInv, MigrationWhole
  <2>2. \/ json["new"] # NoFile /\ pc' = [pc EXCEPT ![p] = "ready"]
        \/ pc' = [pc EXCEPT ![p] = "legacy"]
    BY <1>1 DEF CheckNew, Goto
  <2>3. UNCHANGED disk /\ todo' = todo
    BY <1>1 DEF CheckNew
  <2> QED BY <2>1, <2>2, <2>3, Aside DEF Past
<1>2. CASE CheckLegacy(p)
  <2>1. \/ json["legacy"] = NoFile /\ pc' = [pc EXCEPT ![p] = "ready"]
        \/ pc' = [pc EXCEPT ![p] = "marked"]
    BY <1>2 DEF CheckLegacy, Goto
  <2>2. UNCHANGED disk /\ todo' = todo
    BY <1>2 DEF CheckLegacy
  <2> QED BY <2>1, <2>2, Aside DEF Past
<1>3. CASE CheckMarker(p)
  <2>1. marker["legacy"] => json["legacy"] = NoFile
    BY DEF IInv, MarkerAfter
  <2>2. \/ marker["legacy"] /\ pc' = [pc EXCEPT ![p] = "ready"]
        \/ pc' = [pc EXCEPT ![p] = "list"]
    BY <1>3 DEF CheckMarker, Goto
  <2>3. UNCHANGED disk /\ todo' = todo
    BY <1>3 DEF CheckMarker
  <2> QED BY <2>1, <2>2, <2>3, Aside DEF Past
<1>4. CASE ListDir(p)
  <2>1. /\ UNCHANGED disk
        /\ pc' = [pc EXCEPT ![p] = "move"]
        /\ todo' = [todo EXCEPT ![p] = Entries("legacy")]
    BY <1>4 DEF ListDir, Goto
  <2>2. Shape' /\ MigrationWhole' /\ JsonLast' /\ MarkerAfter'
    BY <2>1 DEF IInv, Shape, MigrationWhole, JsonLast, MarkerAfter, LegacyEmpty, disk
  <2>3. ListCovers'
    <3>1. /\ \A x \in Paths : file["legacy"][x] # NoFile => x \in Entries("legacy")
          /\ json["legacy"] # NoFile => Json \in Entries("legacy")
      BY DEF Entries
    <3> QED BY <2>1, <3>1 DEF IInv, Shape, ListCovers, disk
  <2>4. PastMigration'
    BY <2>1 DEF IInv, Shape, PastMigration, disk, Past
  <2> QED BY <2>2, <2>3, <2>4 DEF IInv
<1> QED BY <1>1, <1>2, <1>3, <1>4

\* A move takes an account file while accounts.json is still there, or
\* accounts.json when it is the last.
LEMMA MovePreserves ==
  ASSUME IInv, NEW p \in Procs, Move(p)
  PROVE  IInv'
<1>1. PICK e \in Entries("legacy") :
        /\ NextEntry(p, e)
        /\ todo' = [todo EXCEPT ![p] = @ \ {e}]
        /\ file' = IF e \notin Paths THEN file
                   ELSE [file EXCEPT !["new"][e] = file["legacy"][e],
                                     !["legacy"][e] = NoFile]
        /\ json' = IF e # Json THEN json
                   ELSE [json EXCEPT !["new"] = json["legacy"], !["legacy"] = NoFile]
        /\ marker' = IF e # Marker THEN marker
                     ELSE [marker EXCEPT !["new"] = TRUE, !["legacy"] = FALSE]
  BY DEF Move
<1>2. pc' = pc /\ pc[p] = "move"
  BY DEF Move
<1>3. /\ Json # Marker /\ Json \notin Paths /\ Marker \notin Paths
      /\ todo' = [q \in Procs |-> todo'[q]]
  BY <1>1, NamesAssumption DEF Json, Marker, IInv, Shape
<1>4. CASE e \in Paths
  <2>1. json' = json /\ marker' = marker
    BY <1>1, <1>3, <1>4
  <2>2. /\ file' = [file EXCEPT !["new"][e] = file["legacy"][e], !["legacy"][e] = NoFile]
        /\ file["legacy"][e] # NoFile
    BY <1>1, <1>3, <1>4 DEF Entries
  <2> DEFINE old == file["legacy"]
             new == file["new"]
  <2>a. /\ file' = [file EXCEPT !["new"] = [new EXCEPT ![e] = old[e]],
                                !["legacy"] = [old EXCEPT ![e] = NoFile]]
        /\ old = [x \in Paths |-> old[x]] /\ new = [x \in Paths |-> new[x]]
        /\ file = [d \in Dirs |-> file[d]]
    BY <2>2 DEF IInv, Shape, Dirs
  <2>b. /\ file'["new"] = [new EXCEPT ![e] = old[e]]
        /\ file'["legacy"] = [old EXCEPT ![e] = NoFile]
        /\ file' = [d \in Dirs |-> file'[d]]
    BY <2>a DEF Dirs
  <2>3. /\ \A x \in Paths : file'["legacy"][x] = IF x = e THEN NoFile ELSE file["legacy"][x]
        /\ \A x \in Paths : file'["new"][x] = IF x = e THEN file["legacy"][e]
                                                       ELSE file["new"][x]
        /\ file' = [d \in Dirs |-> [x \in Paths |-> file'[d][x]]]
    BY <1>4, <2>a, <2>b DEF Dirs
  <2>4. Shape'
    BY <1>2, <1>3, <2>1, <2>3 DEF IInv, Shape
  <2>5. MigrationWhole' /\ JsonLast' /\ MarkerAfter' /\ PastMigration'
    BY <1>2, <2>1, <2>3 DEF IInv, MigrationWhole, JsonLast, MarkerAfter, PastMigration,
                             LegacyEmpty
  <2>6. ListCovers'
    BY <1>1, <1>2, <1>3, <1>4, <2>1, <2>3 DEF IInv, Shape, ListCovers
  <2> QED BY <2>4, <2>5, <2>6 DEF IInv
<1>5. CASE e = Json
  <2>1. /\ file' = file /\ marker' = marker
        /\ json' = [json EXCEPT !["new"] = json["legacy"], !["legacy"] = NoFile]
    BY <1>1, <1>3, <1>5
  <2>2. todo[p] = {Json}
    BY <1>1, <1>5 DEF NextEntry
  <2>3. LegacyEmpty
    BY <1>2, <1>3, <2>2 DEF IInv, ListCovers, LegacyEmpty
  <2>4. json'["legacy"] = NoFile
    BY <2>1 DEF IInv, Shape, Dirs
  <2>5. Shape'
    BY <1>2, <1>3, <2>1 DEF IInv, Shape
  <2>6. MigrationWhole' /\ JsonLast' /\ MarkerAfter' /\ PastMigration'
    BY <2>1, <2>3, <2>4 DEF IInv, MigrationWhole, JsonLast, MarkerAfter, PastMigration,
                             LegacyEmpty
  <2>7. ListCovers'
    BY <1>2, <2>1, <2>3, <2>4 DEF ListCovers, LegacyEmpty
  <2> QED BY <2>5, <2>6, <2>7 DEF IInv
<1>6. CASE e = Marker
  <2>1. /\ file' = file /\ json' = json
        /\ marker' = [marker EXCEPT !["new"] = TRUE, !["legacy"] = FALSE]
    BY <1>1, <1>3, <1>6
  <2>2. Shape' /\ MarkerAfter'
    BY <1>2, <1>3, <2>1 DEF IInv, Shape, MarkerAfter, Dirs
  <2>3. MigrationWhole' /\ JsonLast' /\ PastMigration'
    BY <1>2, <2>1 DEF IInv, MigrationWhole, JsonLast, PastMigration, LegacyEmpty
  <2>4. ListCovers'
    BY <1>1, <1>2, <1>3, <1>6, <2>1 DEF IInv, Shape, ListCovers
  <2> QED BY <2>2, <2>3, <2>4 DEF IInv
<1> QED BY <1>1, <1>4, <1>5, <1>6 DEF Entries

\* The marker is written over an empty list: accounts.json is gone.
LEMMA MarkerPreserves ==
  ASSUME IInv, NEW p \in Procs, WriteMarker(p)
  PROVE  IInv'
<1>1. /\ pc[p] = "move" /\ todo[p] = {}
      /\ marker' = [marker EXCEPT !["legacy"] = TRUE]
      /\ pc' = [pc EXCEPT ![p] = "ready"]
      /\ json' = json /\ file' = file /\ todo' = todo
  BY DEF WriteMarker, Goto
<1>2. json["legacy"] = NoFile
  BY <1>1 DEF IInv, ListCovers
<1>3. Shape' /\ MarkerAfter'
  BY <1>1, <1>2 DEF IInv, Shape, MarkerAfter, Dirs
<1>4. MigrationWhole' /\ JsonLast'
  BY <1>1 DEF IInv, MigrationWhole, JsonLast, LegacyEmpty
<1>5. ListCovers' /\ PastMigration'
  BY <1>1, <1>2 DEF IInv, Shape, ListCovers, PastMigration
<1> QED BY <1>3, <1>4, <1>5 DEF IInv

\* The writes of save_account_config() and of a transaction come after
\* get_data_dir().
LEMMA WritesPreserve ==
  ASSUME IInv, NEW p \in Procs, WriteList(p) \/ WriteFile(p) \/ Persist(p)
  PROVE  IInv'
<1>1. /\ pc[p] \in {"writelist", "writefile", "persist"}
      /\ \/ pc' = pc
         \/ \E to \in {"writefile", "saved", "over", "found"} : pc' = [pc EXCEPT ![p] = to]
      /\ todo' = todo \/ todo' = [todo EXCEPT ![p] = {}]
      /\ marker' = marker
  BY DEF WriteList, WriteFile, Persist, Goto, End
<1>2. json["legacy"] = NoFile /\ LegacyEmpty
  BY <1>1 DEF IInv, PastMigration, Past, JsonLast
<1>3. \/ file' = file /\ json' = [json EXCEPT !["new"] = Listed(p)]
      \/ json' = json /\ \E x, c : file' = [file EXCEPT !["new"][x] = c]
  BY DEF WriteList, WriteFile, Persist
<1>4. /\ json'["legacy"] = NoFile
      /\ \A x \in Paths : file'["legacy"][x] = NoFile
  BY <1>2, <1>3 DEF IInv, Shape, Dirs, LegacyEmpty
<1>5. /\ json' = [d \in Dirs |-> json'[d]]
      /\ file' = [d \in Dirs |-> [x \in Paths |-> file'[d][x]]]
  BY <1>3 DEF IInv, Shape, Dirs
<1>6. Shape'
  BY <1>1, <1>5 DEF IInv, Shape
<1>7. MigrationWhole' /\ JsonLast' /\ MarkerAfter' /\ ListCovers' /\ PastMigration'
  BY <1>4 DEF MigrationWhole, JsonLast, MarkerAfter, ListCovers, PastMigration, LegacyEmpty
<1> QED BY <1>6, <1>7 DEF IInv

\* Every other step leaves the disk alone.
LEMMA OthersPreserve ==
  ASSUME IInv, NEW p \in Procs,
         \/ \E c \in Commands, a \in Accounts : Start(p, c, a)
         \/ Link(p) \/ Register(p) \/ Verify(p) \/ RegistrationFails(p)
         \/ MoveFails(p) \/ ReadList(p) \/ FindAccountConfig(p) \/ NotFound(p)
         \/ Load(p) \/ Break(p) \/ AnswerLost(p)
  PROVE  IInv'
<1>1. CASE \E c \in Commands, a \in Accounts : Start(p, c, a)
  <2>1. /\ \E to \in {"provision", "create", "submit", "dir"} : pc' = [pc EXCEPT ![p] = to]
        /\ UNCHANGED disk /\ todo' = todo
    BY <1>1, CommandsAssumption DEF Start, Goto
  <2> QED BY <2>1, Aside DEF Past
<1>2. CASE Link(p) \/ Register(p) \/ Verify(p) \/ RegistrationFails(p) \/ MoveFails(p)
           \/ NotFound(p) \/ Break(p) \/ AnswerLost(p)
  <2>1. /\ \E to \in {"registerdevice", "upload", "stopped", "dir", "captcha",
                      "requestcode", "over", "registeraccount"} : pc' = [pc EXCEPT ![p] = to]
        /\ UNCHANGED disk
        /\ todo' = todo \/ todo' = [todo EXCEPT ![p] = {}]
    BY <1>2 DEF Link, Provision, RegisterDevice, LinkFails, UploadOneTimePrekeys, Register,
                CreateSession, SubmitCaptcha, RequestCode, Verify, SubmitCode,
                RegisterAccount, RegistrationFails, MoveFails, NotFound, Break, AnswerLost,
                Goto, End
  <2> QED BY <2>1, Aside DEF Past
<1>3. CASE ReadList(p) \/ FindAccountConfig(p) \/ Load(p)
  <2>1. /\ pc[p] \in Past
        /\ \E to \in {"writelist", "found", "persist"} : pc' = [pc EXCEPT ![p] = to]
        /\ UNCHANGED disk /\ todo' = todo
    BY <1>3 DEF ReadList, FindAccountConfig, Load, Goto, Past
  <2>2. json["legacy"] = NoFile
    BY <2>1 DEF IInv, PastMigration
  <2> QED BY <2>1, <2>2, Aside
<1> QED BY <1>1, <1>2, <1>3

\* Every step keeps the invariant of the migration.
LEMMA NextIInv == IInv /\ [Next]_vars => IInv'
<1> SUFFICES ASSUME IInv, [Next]_vars PROVE IInv'
  OBVIOUS
<1>1. CASE UNCHANGED vars
  BY <1>1 DEF vars, disk, IInv, Shape, MigrationWhole, JsonLast, MarkerAfter, ListCovers,
              PastMigration, LegacyEmpty
<1>2. ASSUME NEW p \in Procs,
             \/ \E c \in Commands, a \in Accounts : Start(p, c, a)
             \/ Link(p) \/ Register(p) \/ Verify(p) \/ RegistrationFails(p)
             \/ GetDataDir(p) \/ SaveAccountConfig(p) \/ Use(p)
             \/ Break(p) \/ AnswerLost(p)
      PROVE  IInv'
  BY <1>2, ChecksPreserve, MovePreserves, MarkerPreserves, WritesPreserve, OthersPreserve
  DEF GetDataDir, SaveAccountConfig, Use
<1> QED BY <1>1, <1>2 DEF Next

(* The migration keeps the store in one piece: once the new directory has  *)
(* an accounts.json no account file is left in the old one, there is never *)
(* a second accounts.json, and no account file is in both.                 *)
THEOREM MigrationIsWhole == Spec => []MigrationWhole
<1>1. Init => IInv
  BY InitIInv
<1>2. IInv /\ [Next]_vars => IInv'
  BY NextIInv
<1>3. IInv => MigrationWhole
  BY DEF IInv
<1> QED BY <1>1, <1>2, <1>3, PTL DEF Spec
------------------------------------------------------------------------------
\* The way of a registered device to the disk.

\* A name drawn by a process belongs to the account of its command, and an
\* earlier one to the account it is named after: for ever.
Owner(of, x) == IF x \in Accounts THEN x ELSE of[x]

\* A list of accounts each with a name of its own.
OwnList(of, l) ==
  \E A \in SUBSET Accounts : l \in [A -> Paths] /\ \A a \in A : Owner(of, l[a]) = a

\* An entry of a list: account a is at x.
Lists(l, a, x) == a \in DOMAIN l /\ l[a] = x

ListsInv == \A d \in Dirs : json[d] # NoFile => OwnList(acct, json[d])

Locals == {"signer", "kept", "list", "path", "content"}
Secrets(p) == PreKeys(p) \union OneTimeKeys(p)

\* What is in the locals of a command at label l.
LocalsAt(p, l, c, m, of) ==
  /\ DOMAIN m = Locals
  /\ m.kept \subseteq Keys
  /\ m.content \in AccountFiles \union {NoFile}
  /\ l \in {"writelist", "writefile", "found", "persist"} =>
       m.path \in Paths /\ Owner(of, m.path) = of[p]
  /\ l \in {"writelist", "writefile"} =>
       OwnList(of, m.list) /\ Lists(m.list, of[p], m.path)
  /\ l \in {"registerdevice"} \union Unsaved /\ c = "link" => Secrets(p) \subseteq m.kept

\* Which commands come to label l, and that they have an account.
CommandAt(l, c, a) ==
  /\ l = "idle" <=> a = NoAccount
  /\ l \in {"provision", "registerdevice", "upload"} => c = "link"
  /\ l \in {"submit", "registeraccount"} => c = "verify"
  /\ l \in {"writelist", "writefile"} => c \in {"link", "verify"}

ProcsInv ==
  \A p \in Procs : /\ CommandAt(pc[p], cmd[p], acct[p])
                   /\ LocalsAt(p, pc[p], cmd[p], mem[p], acct)

Domains == /\ mem = [p \in Procs |-> mem[p]]
           /\ cmd = [p \in Procs |-> cmd[p]]

AcceptedInv == \A a \in Accounts : newest[a] \in Procs => acct[newest[a]] = a

Excepted == broken \union raced \union overlapped

\* p registered last for its account, and no exception names it.
Clean(p) == pc[p] # "idle" /\ newest[acct[p]] = p /\ p \notin Excepted

\* The file of p is listed for its account and will stay so: no list about
\* to be written drops it, and no transaction writes anything else to it.
Settled(p) ==
  /\ json["new"] # NoFile /\ json["legacy"] = NoFile
  /\ acct[p] \in DOMAIN json["new"]
  /\ Found(p) # NoFile /\ Found(p).device = p
  /\ cmd[p] = "link" => Secrets(p) \subseteq Found(p).keys
  /\ \A q \in Procs :
       /\ Saving(q) => Lists(mem[q].list, acct[p], json["new"][acct[p]])
       /\ Using(q) /\ mem[q].path = json["new"][acct[p]] => mem[q].content = Found(p)

\* The way of a clean process to the disk.
KeptOf(p) ==
  /\ Registered(p) \/ (pc[p] = "saved" /\ cmd[p] \in {"link", "verify"})
  /\ \A q \in Procs : q # p /\ acct[q] = acct[p] => ~Registered(q)
  /\ Saving(p) => \A q \in Procs : /\ Saving(q) => q = p
                                   /\ Using(q) => acct[q] # acct[p]
  /\ pc[p] = "writefile" =>
       json["new"] # NoFile /\ Lists(json["new"], acct[p], mem[p].path)
  /\ pc[p] = "saved" => Settled(p)

KeptInv == \A p \in Procs : Clean(p) => KeptOf(p)

SetupInv == /\ TypeOK /\ Domains /\ ListsInv /\ ProcsInv /\ AcceptedInv /\ KeptInv

\* A list is not the mark of a file that is not there.
LEMMA ListIsNoFile ==
  ASSUME NEW l, OwnList(acct, l)
  PROVE  l # NoFile
BY NamesAssumption DEF OwnList

\* An entry of a list names a file that its account owns.
LEMMA ListOwns ==
  ASSUME NEW of, NEW l, OwnList(of, l), NEW a \in DOMAIN l
  PROVE  a \in Accounts /\ l[a] \in Paths /\ Owner(of, l[a]) = a
BY DEF OwnList

\* What p does to the labels and the locals.
LEMMA PointWise ==
  ASSUME IInv, SetupInv, NEW p \in Procs, NEW to, NEW m,
         pc' = [pc EXCEPT ![p] = to], mem' = [mem EXCEPT ![p] = m]
  PROVE  /\ pc'[p] = to /\ mem'[p] = m
         /\ \A q \in Procs : q # p => pc'[q] = pc[q] /\ mem'[q] = mem[q]
         /\ pc' = [q \in Procs |-> pc'[q]] /\ mem' = [q \in Procs |-> mem'[q]]
<1>1. pc = [q \in Procs |-> pc[q]] /\ mem = [q \in Procs |-> mem[q]]
  BY DEF IInv, Shape, SetupInv, Domains
<1> QED BY <1>1

\* A step of p keeps what is known of the labels and the locals, if it
\* holds of p after it.
LEMMA ProcsKeep ==
  ASSUME IInv, SetupInv, NEW p \in Procs, NEW to, NEW m,
         pc' = [pc EXCEPT ![p] = to], mem' = [mem EXCEPT ![p] = m],
         cmd' = cmd, acct' = acct,
         CommandAt(to, cmd[p], acct[p]), LocalsAt(p, to, cmd[p], m, acct)
  PROVE  ProcsInv' /\ Domains'
<1>1. /\ pc'[p] = to /\ mem'[p] = m
      /\ \A q \in Procs : q # p => pc'[q] = pc[q] /\ mem'[q] = mem[q]
      /\ mem' = [q \in Procs |-> mem'[q]]
  BY PointWise
<1>2. \A q \in Procs : /\ CommandAt(pc[q], cmd[q], acct[q])
                       /\ LocalsAt(q, pc[q], cmd[q], mem[q], acct)
  BY DEF SetupInv, ProcsInv
<1>3. \A q \in Procs : /\ CommandAt(pc'[q], cmd[q], acct[q])
                       /\ LocalsAt(q, pc'[q], cmd[q], mem'[q], acct)
  BY <1>1, <1>2
<1> QED BY <1>1, <1>3 DEF ProcsInv, Domains, SetupInv

\* A command that has ended, or not come far, needs no locals.
LEMMA EndedLocals ==
  ASSUME NEW p, NEW c, NEW to, to \in {"saved", "over", "stopped"}
  PROVE  LocalsAt(p, to, c, NoLocals, acct)
BY DEF LocalsAt, NoLocals, Locals, Unsaved

\* The command of p may come to label to, and has an account.
LEMMA CommandAfter ==
  ASSUME SetupInv, NEW p \in Procs, pc[p] # "idle", NEW to, to # "idle",
         to \in {"provision", "registerdevice", "upload"} => cmd[p] = "link",
         to \in {"submit", "registeraccount"} => cmd[p] = "verify",
         to \in {"writelist", "writefile"} => cmd[p] \in {"link", "verify"}
  PROVE  CommandAt(to, cmd[p], acct[p]) /\ acct[p] \in Accounts
<1>1. CommandAt(pc[p], cmd[p], acct[p]) /\ acct[p] \in Accounts \union {NoAccount}
  BY DEF SetupInv, ProcsInv, TypeOK
<1> QED BY <1>1 DEF CommandAt

\* The server, the lists of entries and the history keep their types.
OtherTypes ==
  /\ marker \in [Dirs -> BOOLEAN] /\ stocked \subseteq Procs
  /\ session \in [Accounts -> {"none", "open", "captcha", "coded", "verified"}]
  /\ todo \in [Procs -> SUBSET (Paths \union {Json, Marker})]
  /\ {broken, raced, overlapped} \subseteq SUBSET Procs

\* A step that leaves the disk and the accounts alone keeps the types.
LEMMA TypesFrom ==
  ASSUME SetupInv, OtherTypes', UNCHANGED <<json, file, newest, acct>>
  PROVE  TypeOK'
BY DEF SetupInv, TypeOK, OtherTypes

\* A step of p that neither writes a file nor registers a device, nor
\* enters a save or a transaction.
LEMMA QuietKeeps ==
  ASSUME IInv, SetupInv, NEW p \in Procs, NEW to, NEW m,
         pc[p] \notin Terminal \union {"idle"},
         pc' = [pc EXCEPT ![p] = to], mem' = [mem EXCEPT ![p] = m],
         UNCHANGED <<json, file, newest, cmd, acct>>,
         OtherTypes', Excepted \subseteq Excepted',
         to \notin {"idle", "saved", "writelist", "writefile", "persist"},
         CommandAt(to, cmd[p], acct[p]), LocalsAt(p, to, cmd[p], m, acct),
         to \in Unsaved /\ cmd[p] \in {"link", "verify"} => Registered(p),
         Registered(p) => to \in Unsaved \/ p \in Excepted'
  PROVE  SetupInv'
<1>1. /\ pc'[p] = to /\ mem'[p] = m
      /\ \A q \in Procs : q # p => pc'[q] = pc[q] /\ mem'[q] = mem[q]
  BY PointWise
<1>2. ProcsInv' /\ Domains'
  BY ProcsKeep
<1>3. TypeOK'
  BY TypesFrom
<1>4. ListsInv' /\ AcceptedInv'
  BY DEF SetupInv, ListsInv, AcceptedInv
<1>5. /\ \A q \in Procs : Saving(q)' => Saving(q) /\ q # p
      /\ \A q \in Procs : Using(q)' => Using(q) /\ q # p
      /\ \A q \in Procs : Registered(q)' => Registered(q)
  BY <1>1 DEF Saving, Using, Registered
<1>6. ASSUME NEW q \in Procs, Clean(q)' PROVE KeptOf(q)'
  <2>1. Clean(q) /\ q \notin Excepted'
    BY <1>1, <1>6 DEF Clean
  <2>2. KeptOf(q)
    BY <2>1 DEF SetupInv, KeptInv
  <2>3. CASE q = p
    <3>1. Registered(p) /\ to \in Unsaved
      BY <2>1, <2>2, <2>3 DEF KeptOf, Terminal
    <3>2. Registered(p)'
      BY <1>1, <3>1 DEF Registered
    <3> QED BY <1>1, <1>5, <2>2, <2>3, <3>1, <3>2 DEF KeptOf
  <2>4. CASE q # p
    <3>1. pc'[q] = pc[q] /\ mem'[q] = mem[q]
      BY <1>1, <2>4
    <3>2. Settled(q) => Settled(q)'
      BY <1>1, <1>5 DEF Settled, Found, find_account_config, ListOf
    <3>3. Registered(q) => Registered(q)'
      BY <3>1 DEF Registered
    <3>4. Saving(q)' => Saving(q)
      BY <1>5
    <3> QED BY <1>1, <1>5, <2>2, <3>1, <3>2, <3>3, <3>4 DEF KeptOf
  <2> QED BY <2>3, <2>4
<1>7. KeptInv'
  BY <1>6 DEF KeptInv
<1> QED BY <1>2, <1>3, <1>4, <1>7 DEF SetupInv

\* mem is left alone: the same locals at another label.
LEMMA SameLocals ==
  ASSUME IInv, SetupInv, NEW p \in Procs, NEW to,
         to \in {"writelist", "writefile", "found", "persist"} => pc[p] = to,
         to \in {"registerdevice"} \union Unsaved /\ cmd[p] = "link" =>
           pc[p] \in {"registerdevice"} \union Unsaved
  PROVE  /\ LocalsAt(p, to, cmd[p], mem[p], acct)
         /\ mem' = mem => mem' = [mem EXCEPT ![p] = mem[p]]
<1>1. LocalsAt(p, pc[p], cmd[p], mem[p], acct)
  BY DEF SetupInv, ProcsInv
<1>2. mem = [q \in Procs |-> mem[q]]
  BY DEF SetupInv, Domains
<1> QED BY <1>1, <1>2 DEF LocalsAt

\* A command that ends without having saved: nothing was registered, or an
\* exception names it.
LEMMA EndKeeps ==
  ASSUME IInv, SetupInv, NEW p \in Procs, NEW to \in {"over", "stopped"},
         pc[p] \notin Terminal \union {"idle"}, End(p, to),
         UNCHANGED <<json, file, newest, cmd, acct>>,
         marker' = marker, stocked' = stocked, session' = session,
         {broken', raced', overlapped'} \subseteq SUBSET Procs,
         Excepted \subseteq Excepted', Registered(p) => p \in Excepted'
  PROVE  SetupInv'
<1>1. pc' = [pc EXCEPT ![p] = to] /\ mem' = [mem EXCEPT ![p] = NoLocals]
  BY DEF End, Goto
<1>2. CommandAt(to, cmd[p], acct[p])
  BY CommandAfter
<1>3. LocalsAt(p, to, cmd[p], NoLocals, acct)
  BY EndedLocals
<1>4. OtherTypes'
  <2>1. todo' \in [Procs -> SUBSET (Paths \union {Json, Marker})]
    BY DEF End, SetupInv, TypeOK
  <2> QED BY <2>1 DEF SetupInv, TypeOK, OtherTypes
<1>5. to \notin Unsaved
  BY DEF Unsaved
<1> QED BY <1>1, <1>2, <1>3, <1>4, <1>5, QuietKeeps

\* A command that ends early: a failure, a lost race or a kill.
LEMMA FailuresKeep ==
  ASSUME IInv, SetupInv, NEW p \in Procs,
         LinkFails(p) \/ RegistrationFails(p) \/ MoveFails(p) \/ NotFound(p) \/ Break(p)
  PROVE  SetupInv'
<1>1. {broken, raced, overlapped} \subseteq SUBSET Procs
  BY DEF SetupInv, TypeOK
<1>2. CASE LinkFails(p) \/ RegistrationFails(p)
  <2>1. /\ pc[p] \notin Terminal \union {"idle"} /\ ~Registered(p)
        /\ End(p, "stopped")
        /\ UNCHANGED <<json, file, newest, cmd, acct>>
        /\ marker' = marker /\ stocked' = stocked /\ session' = session
        /\ UNCHANGED <<broken, raced, overlapped>>
    BY <1>2 DEF LinkFails, RegistrationFails, Registered, Unsaved, Terminal, disk, server,
                history
  <2> QED BY <1>1, <2>1, EndKeeps DEF Excepted
<1>3. CASE MoveFails(p)
  <2>1. /\ pc[p] = "move" /\ End(p, "stopped")
        /\ UNCHANGED <<json, file, newest, cmd, acct>>
        /\ marker' = marker /\ stocked' = stocked /\ session' = session
        /\ raced' = raced \union {p} /\ UNCHANGED <<broken, overlapped>>
    BY <1>3 DEF MoveFails, disk, server
  <2>2. pc[p] \notin Terminal \union {"idle"}
    BY <2>1 DEF Terminal
  <2> QED BY <1>1, <2>1, <2>2, EndKeeps DEF Excepted
<1>4. CASE NotFound(p)
  <2>1. /\ pc[p] = "ready" /\ cmd[p] = "use" /\ End(p, "over")
        /\ UNCHANGED <<json, file, newest, cmd, acct>>
        /\ marker' = marker /\ stocked' = stocked /\ session' = session
        /\ UNCHANGED <<broken, raced, overlapped>>
    BY <1>4 DEF NotFound, disk, server, history
  <2>2. pc[p] \notin Terminal \union {"idle"} /\ ~Registered(p)
    BY <2>1 DEF Terminal, Registered
  <2> QED BY <1>1, <2>1, <2>2, EndKeeps DEF Excepted
<1>5. CASE Break(p)
  <2>1. /\ pc[p] \notin Terminal \union {"idle"} /\ End(p, "stopped")
        /\ UNCHANGED <<json, file, newest, cmd, acct>>
        /\ marker' = marker /\ stocked' = stocked /\ session' = session
        /\ broken' = broken \union {p} /\ UNCHANGED <<raced, overlapped>>
    BY <1>5 DEF Break, disk, server
  <2> QED BY <1>1, <2>1, EndKeeps DEF Excepted
<1> QED BY <1>2, <1>3, <1>4, <1>5

\* A step that only goes on to label to.
LEMMA GoKeeps ==
  ASSUME IInv, SetupInv, NEW p \in Procs, NEW to,
         pc[p] \notin Terminal \union {"idle"},
         pc' = [pc EXCEPT ![p] = to], mem' = mem,
         UNCHANGED <<json, file, newest, cmd, acct>>, OtherTypes',
         UNCHANGED history,
         to \notin {"idle", "saved", "writelist", "writefile", "persist", "found",
                    "provision", "registerdevice", "upload", "submit", "registeraccount"},
         to \in Unsaved => pc[p] \in Unsaved,
         pc[p] \in Unsaved => to \in Unsaved
  PROVE  SetupInv'
<1>1. CommandAt(to, cmd[p], acct[p])
  BY CommandAfter
<1>2. LocalsAt(p, to, cmd[p], mem[p], acct) /\ mem' = [mem EXCEPT ![p] = mem[p]]
  BY SameLocals
<1>3. to \in Unsaved /\ cmd[p] \in {"link", "verify"} => Registered(p)
  BY DEF Registered
<1>4. Registered(p) => to \in Unsaved
  BY DEF Registered
<1>5. Excepted \subseteq Excepted'
  BY DEF Excepted, history
<1>6. to \notin {"idle", "saved", "writelist", "writefile", "persist"}
  OBVIOUS
<1>7. PICK m : m = mem[p]
  OBVIOUS
<1> QED BY <1>1, <1>2, <1>3, <1>4, <1>5, <1>6, <1>7, QuietKeeps

\* The steps of a verification session, before any registration.
LEMMA VerificationKeeps ==
  ASSUME IInv, SetupInv, NEW p \in Procs, Register(p)
  PROVE  SetupInv'
<1>1. /\ pc[p] \in {"create", "captcha", "requestcode"} /\ mem' = mem
      /\ UNCHANGED <<json, file, newest, cmd, acct>> /\ UNCHANGED history
      /\ marker' = marker /\ stocked' = stocked /\ todo' = todo
  BY DEF Register, CreateSession, SubmitCaptcha, RequestCode, disk
<1>2. PICK to \in {"captcha", "requestcode", "over"} : pc' = [pc EXCEPT ![p] = to]
  BY DEF Register, CreateSession, SubmitCaptcha, RequestCode, Goto
<1>3. \E s \in {"open", "captcha", "coded"} : session' = [session EXCEPT ![acct[p]] = s]
  BY DEF Register, CreateSession, SubmitCaptcha, RequestCode
<1>4. OtherTypes'
  <2>1. session' \in [Accounts -> {"none", "open", "captcha", "coded", "verified"}]
    BY <1>3 DEF SetupInv, TypeOK
  <2> QED BY <1>1, <2>1 DEF SetupInv, TypeOK, OtherTypes, history
<1>5. pc[p] \notin Terminal \union {"idle"} /\ pc[p] \notin Unsaved /\ to \notin Unsaved
  BY <1>1 DEF Terminal, Unsaved
<1> QED BY <1>1, <1>2, <1>4, <1>5, GoKeeps

\* What ListDir() lists.
LEMMA EntriesTyped == Entries("legacy") \subseteq Paths \union {Json, Marker}
BY DEF Entries

\* The checks of get_data_dir(), and the marker it leaves behind.
LEMMA DirKeeps ==
  ASSUME IInv, SetupInv, NEW p \in Procs,
         \/ CheckNew(p) \/ CheckLegacy(p) \/ CheckMarker(p) \/ ListDir(p)
         \/ WriteMarker(p)
  PROVE  SetupInv'
<1>1. /\ pc[p] \in {"dir", "legacy", "marked", "list", "move"} /\ mem' = mem
      /\ UNCHANGED <<json, file, newest, cmd, acct>> /\ UNCHANGED history
      /\ stocked' = stocked /\ session' = session
      /\ todo' = todo \/ todo' = [todo EXCEPT ![p] = Entries("legacy")]
      /\ marker' = marker \/ marker' = [marker EXCEPT !["legacy"] = TRUE]
  BY DEF CheckNew, CheckLegacy, CheckMarker, ListDir, WriteMarker, disk, server
<1>2. PICK to \in {"ready", "legacy", "marked", "list", "move"} : pc' = [pc EXCEPT ![p] = to]
  BY DEF CheckNew, CheckLegacy, CheckMarker, ListDir, WriteMarker, Goto
<1>3. OtherTypes'
  <2>1. todo' \in [Procs -> SUBSET (Paths \union {Json, Marker})]
    BY <1>1, EntriesTyped DEF SetupInv, TypeOK
  <2>2. marker' \in [Dirs -> BOOLEAN]
    BY <1>1 DEF SetupInv, TypeOK
  <2> QED BY <1>1, <2>1, <2>2 DEF SetupInv, TypeOK, OtherTypes, history
<1>4. pc[p] \notin Terminal \union {"idle"} /\ pc[p] \in Unsaved /\ to \in Unsaved
  BY <1>1 DEF Terminal, Unsaved
<1> QED BY <1>1, <1>2, <1>3, <1>4, GoKeeps

\* The one-time prekeys are uploaded, or not.
LEMMA UploadKeeps ==
  ASSUME IInv, SetupInv, NEW p \in Procs, UploadOneTimePrekeys(p)
  PROVE  SetupInv'
<1>1. /\ pc[p] = "upload" /\ pc' = [pc EXCEPT ![p] = "dir"] /\ mem' = mem
      /\ UNCHANGED <<json, file, newest, cmd, acct>> /\ UNCHANGED history
      /\ session' = session /\ todo' = todo /\ marker' = marker
      /\ stocked' \in {stocked, stocked \union {p}}
  BY DEF UploadOneTimePrekeys, Goto, disk
<1>2. OtherTypes'
  BY <1>1 DEF SetupInv, TypeOK, OtherTypes, history
<1>3. pc[p] \notin Terminal \union {"idle"} /\ pc[p] \in Unsaved /\ "dir" \in Unsaved
  BY <1>1 DEF Terminal, Unsaved
<1> QED BY <1>1, <1>2, <1>3, GoKeeps

\* The privates of both payloads are keys.
LEMMA KeysOfPayloads ==
  ASSUME NEW p \in Procs
  PROVE  /\ Secrets(p) \subseteq Keys /\ IdentityKeys(p) \subseteq Keys
         /\ \A pni : LinkingPayload(p, pni).keys = Secrets(p)
BY DEF Secrets, PreKeys, OneTimeKeys, IdentityKeys, Keys, LinkingPayload, Identities

\* The locals after an assignment to some of them.
LEMMA LocalsAssigned ==
  ASSUME IInv, SetupInv, NEW p \in Procs
  PROVE  /\ DOMAIN mem[p] = Locals
         /\ mem[p].kept \subseteq Keys
         /\ mem[p].content \in AccountFiles \union {NoFile}
BY DEF SetupInv, ProcsInv, LocalsAt

\* The phone has answered: the keys of the device are generated.
LEMMA ProvisionKeeps ==
  ASSUME IInv, SetupInv, NEW p \in Procs, Provision(p)
  PROVE  SetupInv'
<1>1. PICK pni \in BOOLEAN :
        mem' = [mem EXCEPT ![p].kept = LinkingPayload(p, pni).keys,
                           ![p].signer = LinkingPayload(p, pni).signer]
  BY DEF Provision
<1>2. PICK sg : sg = LinkingPayload(p, pni).signer
  OBVIOUS
<1>3. PICK m : m = [mem[p] EXCEPT !.kept = Secrets(p), !.signer = sg]
  OBVIOUS
<1>4. mem' = [mem EXCEPT ![p] = m]
  BY <1>1, <1>2, <1>3, KeysOfPayloads DEF SetupInv, Domains
<1>5. /\ pc[p] = "provision" /\ pc' = [pc EXCEPT ![p] = "registerdevice"]
      /\ UNCHANGED <<json, file, newest, cmd, acct>> /\ UNCHANGED history
      /\ session' = session /\ todo' = todo /\ marker' = marker /\ stocked' = stocked
  BY DEF Provision, Goto, disk, server
<1>6. OtherTypes'
  BY <1>5 DEF SetupInv, TypeOK, OtherTypes, history
<1>7. cmd[p] = "link"
  BY <1>5 DEF SetupInv, ProcsInv, CommandAt
<1>8. CommandAt("registerdevice", cmd[p], acct[p])
  BY <1>5, <1>7, CommandAfter
<1>9. DOMAIN m = Locals /\ m.kept = Secrets(p) /\ m.content = mem[p].content
  BY <1>3, LocalsAssigned DEF Locals
<1>10. LocalsAt(p, "registerdevice", cmd[p], m, acct)
  BY <1>9, LocalsAssigned, KeysOfPayloads DEF LocalsAt
<1>11. /\ pc[p] \notin Terminal \union {"idle"} /\ ~Registered(p)
       /\ "registerdevice" \notin Unsaved
  BY <1>5 DEF Terminal, Registered, Unsaved
<1>12. Excepted \subseteq Excepted'
  BY <1>5 DEF Excepted, history
<1> QED BY <1>4, <1>5, <1>6, <1>8, <1>10, <1>11, <1>12, QuietKeeps

\* The code is verified: the keys of the account are generated.
LEMMA SubmitCodeKeeps ==
  ASSUME IInv, SetupInv, NEW p \in Procs, SubmitCode(p)
  PROVE  SetupInv'
<1>1. PICK k : k = RegistrationPayload(p).keys \intersect IdentityKeys(p)
  OBVIOUS
<1>2. PICK m : m = [mem[p] EXCEPT !.kept = k]
  OBVIOUS
<1>3. mem' = [mem EXCEPT ![p] = m]
  BY <1>1, <1>2 DEF SubmitCode
<1>4. /\ pc[p] = "submit" /\ pc' = [pc EXCEPT ![p] = "registeraccount"]
      /\ UNCHANGED <<json, file, newest, cmd, acct>> /\ UNCHANGED history
      /\ session' = [session EXCEPT ![acct[p]] = "verified"]
      /\ todo' = todo /\ marker' = marker /\ stocked' = stocked
  BY DEF SubmitCode, Goto, disk
<1>5. OtherTypes'
  <2>1. session' \in [Accounts -> {"none", "open", "captcha", "coded", "verified"}]
    BY <1>4 DEF SetupInv, TypeOK
  <2> QED BY <1>4, <2>1 DEF SetupInv, TypeOK, OtherTypes, history
<1>6. cmd[p] = "verify"
  BY <1>4 DEF SetupInv, ProcsInv, CommandAt
<1>7. CommandAt("registeraccount", cmd[p], acct[p])
  BY <1>4, <1>6, CommandAfter
<1>8. DOMAIN m = Locals /\ m.kept \subseteq Keys /\ m.content = mem[p].content
  BY <1>1, <1>2, LocalsAssigned, KeysOfPayloads DEF Locals
<1>9. LocalsAt(p, "registeraccount", cmd[p], m, acct)
  BY <1>6, <1>8, LocalsAssigned DEF LocalsAt, Unsaved
<1>10. /\ pc[p] \notin Terminal \union {"idle"} /\ ~Registered(p)
       /\ "registeraccount" \notin Unsaved
  BY <1>4 DEF Terminal, Registered, Unsaved
<1>11. Excepted \subseteq Excepted'
  BY <1>4 DEF Excepted, history
<1> QED BY <1>3, <1>4, <1>5, <1>7, <1>9, <1>10, <1>11, QuietKeeps

\* What an entry of accounts.json names belongs to its account.
LEMMA ListedOwns ==
  ASSUME SetupInv, NEW a, a \in DOMAIN ListOf("new")
  PROVE  /\ json["new"] # NoFile /\ ListOf("new") = json["new"]
         /\ a \in Accounts /\ json["new"][a] \in Paths
         /\ Owner(acct, json["new"][a]) = a
<1>1. json["new"] # NoFile /\ ListOf("new") = json["new"]
  BY DEF ListOf
<1>2. OwnList(acct, json["new"])
  BY <1>1 DEF SetupInv, ListsInv, Dirs
<1>3. PICK l : l = json["new"]
  OBVIOUS
<1>4. a \in Accounts /\ l[a] \in Paths /\ Owner(acct, l[a]) = a
  BY <1>1, <1>2, <1>3, ListOwns
<1> QED BY <1>1, <1>3, <1>4

\* A use has found the account.
LEMMA FindKeeps ==
  ASSUME IInv, SetupInv, NEW p \in Procs, FindAccountConfig(p)
  PROVE  SetupInv'
<1>1. PICK x : x = ListOf("new")[acct[p]]
  OBVIOUS
<1>2. PICK m : m = [mem[p] EXCEPT !.path = x]
  OBVIOUS
<1>3. mem' = [mem EXCEPT ![p] = m]
  BY <1>1, <1>2 DEF FindAccountConfig
<1>4. /\ pc[p] = "ready" /\ cmd[p] = "use" /\ pc' = [pc EXCEPT ![p] = "found"]
      /\ UNCHANGED <<json, file, newest, cmd, acct>> /\ UNCHANGED history
      /\ todo' = todo /\ marker' = marker /\ stocked' = stocked /\ session' = session
  BY DEF FindAccountConfig, Goto, disk, server
<1>5. OtherTypes'
  BY <1>4 DEF SetupInv, TypeOK, OtherTypes, history
<1>6. acct[p] \in DOMAIN ListOf("new")
  BY DEF FindAccountConfig, find_account_config
<1>7. x \in Paths /\ Owner(acct, x) = acct[p]
  BY <1>1, <1>6, ListedOwns
<1>8. CommandAt("found", cmd[p], acct[p])
  BY <1>4, CommandAfter
<1>9. /\ DOMAIN m = Locals /\ m.kept = mem[p].kept /\ m.content = mem[p].content
      /\ m.path = x
  BY <1>2, LocalsAssigned DEF Locals
<1>10. LocalsAt(p, "found", cmd[p], m, acct)
  BY <1>4, <1>7, <1>9, LocalsAssigned DEF LocalsAt
<1>11. pc[p] \notin Terminal \union {"idle"} /\ ~Registered(p)
  BY <1>4 DEF Terminal, Registered
<1>12. Excepted \subseteq Excepted' /\ "found" \notin Unsaved
  BY <1>4 DEF Excepted, history, Unsaved
<1> QED BY <1>3, <1>4, <1>5, <1>8, <1>10, <1>11, <1>12, QuietKeeps

\* The server takes p as the newest device of its account.
LEMMA AcceptKeeps ==
  ASSUME IInv, SetupInv, NEW p \in Procs,
         pc[p] \in {"registerdevice", "registeraccount"}, cmd[p] \in {"link", "verify"},
         \E to \in {"upload", "dir", "stopped"} : \E m :
           /\ pc' = [pc EXCEPT ![p] = to] /\ mem' = [mem EXCEPT ![p] = m]
           /\ CommandAt(to, cmd[p], acct[p]) /\ LocalsAt(p, to, cmd[p], m, acct)
           /\ to = "stopped" => p \in broken',
         UNCHANGED <<json, file, cmd, acct>>, OtherTypes',
         newest' = [newest EXCEPT ![acct[p]] = p], overlapped \subseteq overlapped',
         \/ \A q \in Procs : acct[q] = acct[p] /\ Registered(q) => q = p
         \/ p \in overlapped',
         broken \subseteq broken', raced \subseteq raced'
  PROVE  SetupInv'
<1>t. PICK to \in {"upload", "dir", "stopped"} : \E m :
        /\ pc' = [pc EXCEPT ![p] = to] /\ mem' = [mem EXCEPT ![p] = m]
        /\ CommandAt(to, cmd[p], acct[p]) /\ LocalsAt(p, to, cmd[p], m, acct)
        /\ to = "stopped" => p \in broken'
  OBVIOUS
<1>0. PICK m :
        /\ pc' = [pc EXCEPT ![p] = to] /\ mem' = [mem EXCEPT ![p] = m]
        /\ CommandAt(to, cmd[p], acct[p]) /\ LocalsAt(p, to, cmd[p], m, acct)
        /\ to = "stopped" => p \in broken'
  BY <1>t
<1>1. /\ pc'[p] = to /\ mem'[p] = m
      /\ \A q \in Procs : q # p => pc'[q] = pc[q] /\ mem'[q] = mem[q]
  BY <1>0, PointWise
<1>2. ProcsInv' /\ Domains'
  BY <1>0, ProcsKeep
<1>3. acct[p] \in Accounts
  BY DEF SetupInv, ProcsInv, CommandAt, TypeOK
<1>4. TypeOK'
  <2>1. newest' \in [Accounts -> Devices]
    BY <1>3 DEF SetupInv, TypeOK, Devices
  <2> QED BY <2>1 DEF SetupInv, TypeOK, OtherTypes
<1>5. ListsInv' /\ AcceptedInv'
  BY <1>3 DEF SetupInv, ListsInv, AcceptedInv, TypeOK
<1>6. /\ \A q \in Procs : Saving(q)' => Saving(q) /\ q # p
      /\ \A q \in Procs : Using(q)' => Using(q) /\ q # p
      /\ \A q \in Procs : q # p => (Registered(q)' <=> Registered(q))
  BY <1>1 DEF Saving, Using, Registered
<1>9. ASSUME NEW q \in Procs, Clean(q)' PROVE KeptOf(q)'
  <2>1. CASE q = p
    <3>1. p \notin broken' /\ p \notin overlapped'
      BY <1>9, <2>1 DEF Clean, Excepted
    <3>2. to \in {"upload", "dir"}
      BY <1>0, <3>1
    <3>3. Registered(p)'
      BY <1>1, <3>2 DEF Registered, Unsaved
    <3>4. \A r \in Procs : r # p /\ acct[r] = acct[p] => ~Registered(r)'
      BY <1>6, <3>1
    <3>5. ~Saving(p)' /\ pc'[p] # "writefile" /\ pc'[p] # "saved"
      BY <1>1, <3>2 DEF Saving
    <3> QED BY <2>1, <3>3, <3>4, <3>5 DEF KeptOf
  <2>2. CASE q # p
    <3>1. pc'[q] = pc[q] /\ mem'[q] = mem[q]
      BY <1>1, <2>2
    <3>2. pc[q] # "idle" /\ acct[q] \in Accounts
      BY <1>9, <3>1 DEF Clean, SetupInv, ProcsInv, CommandAt, TypeOK
    <3>3. acct[q] # acct[p] /\ newest[acct[q]] = q
      BY <1>3, <1>9, <2>2, <3>2 DEF Clean, SetupInv, TypeOK
    <3>4. Clean(q)
      BY <1>9, <3>2, <3>3 DEF Clean, Excepted
    <3>5. KeptOf(q)
      BY <3>4 DEF SetupInv, KeptInv
    <3>6. Settled(q) => Settled(q)'
      BY <1>1, <1>6 DEF Settled, Found, find_account_config, ListOf
    <3>7. Registered(q) => Registered(q)'
      BY <3>1 DEF Registered
    <3>8. \A r \in Procs : r # q /\ acct[r] = acct[q] => ~Registered(r)'
      BY <1>6, <3>3, <3>5 DEF KeptOf
    <3>9. Saving(q)' => Saving(q)
      BY <1>6
    <3> QED BY <1>6, <3>1, <3>5, <3>6, <3>7, <3>8, <3>9 DEF KeptOf
  <2> QED BY <2>1, <2>2
<1>10. KeptInv'
  BY <1>9 DEF KeptInv
<1> QED BY <1>2, <1>4, <1>5, <1>10 DEF SetupInv

\* A registration, with its answer or without.
LEMMA RegisterKeeps ==
  ASSUME IInv, SetupInv, NEW p \in Procs,
         RegisterDevice(p) \/ RegisterAccount(p) \/ AnswerLost(p)
  PROVE  SetupInv'
<1>1. /\ newest' = [newest EXCEPT ![acct[p]] = p]
      /\ overlapped \subseteq overlapped' /\ overlapped' \subseteq Procs
      /\ \/ \A q \in Procs : acct[q] = acct[p] /\ Registered(q) => q = p
         \/ p \in overlapped'
  <2>1. /\ newest' = [newest EXCEPT ![acct[p]] = p]
        /\ Overlap(p, {q \in Procs : acct[q] = acct[p] /\ Registered(q)})
    BY DEF RegisterDevice, RegisterAccount, AnswerLost, Accept
  <2> QED BY <2>1 DEF Overlap, SetupInv, TypeOK
<1>2. /\ pc[p] \in {"registerdevice", "registeraccount"}
      /\ UNCHANGED <<json, file, cmd, acct>>
      /\ marker' = marker /\ stocked' = stocked /\ raced' = raced
      /\ session' = session \/ session' = [session EXCEPT ![acct[p]] = "none"]
      /\ todo' = todo \/ todo' = [todo EXCEPT ![p] = {}]
      /\ broken' = broken \/ broken' = broken \union {p}
  BY DEF RegisterDevice, RegisterAccount, AnswerLost, disk, End
<1>3. OtherTypes'
  <2>1. session' \in [Accounts -> {"none", "open", "captcha", "coded", "verified"}]
    BY <1>2 DEF SetupInv, TypeOK
  <2>2. todo' \in [Procs -> SUBSET (Paths \union {Json, Marker})]
    BY <1>2 DEF SetupInv, TypeOK
  <2>3. {broken', raced', overlapped'} \subseteq SUBSET Procs
    BY <1>1, <1>2 DEF SetupInv, TypeOK
  <2> QED BY <1>2, <2>1, <2>2, <2>3 DEF SetupInv, TypeOK, OtherTypes
<1>4. /\ pc[p] = "registerdevice" => cmd[p] = "link"
      /\ pc[p] = "registeraccount" => cmd[p] = "verify"
      /\ cmd[p] \in {"link", "verify"}
  BY <1>2 DEF SetupInv, ProcsInv, CommandAt
<1>5. broken \subseteq broken' /\ raced \subseteq raced'
  BY <1>2
<1>6. CASE AnswerLost(p)
  <2>1. /\ pc' = [pc EXCEPT ![p] = "stopped"] /\ mem' = [mem EXCEPT ![p] = NoLocals]
        /\ p \in broken'
    BY <1>6 DEF AnswerLost, End, Goto
  <2>2. CommandAt("stopped", cmd[p], acct[p])
    BY <1>2, CommandAfter
  <2>3. LocalsAt(p, "stopped", cmd[p], NoLocals, acct)
    BY EndedLocals
  <2>4. \E tt \in {"upload", "dir", "stopped"} : \E n :
        /\ pc' = [pc EXCEPT ![p] = tt] /\ mem' = [mem EXCEPT ![p] = n]
        /\ CommandAt(tt, cmd[p], acct[p]) /\ LocalsAt(p, tt, cmd[p], n, acct)
        /\ tt = "stopped" => p \in broken'
    BY <2>1, <2>2, <2>3
  <2>5. pc[p] \in {"registerdevice", "registeraccount"}
    BY <1>2
  <2>6. UNCHANGED <<json, file, cmd, acct>>
    BY <1>2
  <2>7. cmd[p] \in {"link", "verify"}
    BY <1>4
  <2>8. OtherTypes'
    BY <1>3
  <2> QED BY <1>1, <1>5, <2>4, <2>5, <2>6, <2>7, <2>8, AcceptKeeps
<1>7. CASE RegisterDevice(p) \/ RegisterAccount(p)
  <2>1. PICK to \in {"upload", "dir"} :
          /\ pc' = [pc EXCEPT ![p] = to] /\ mem' = mem
          /\ to = "upload" => pc[p] = "registerdevice"
          /\ to = "dir" => pc[p] = "registeraccount"
    BY <1>7 DEF RegisterDevice, RegisterAccount, Goto
  <2>2. CommandAt(to, cmd[p], acct[p])
    BY <1>2, <1>4, <2>1, CommandAfter
  <2>3. LocalsAt(p, to, cmd[p], mem[p], acct) /\ mem' = [mem EXCEPT ![p] = mem[p]]
    BY <1>2, <1>4, <2>1, SameLocals
  <2>4. \E tt \in {"upload", "dir", "stopped"} : \E n :
        /\ pc' = [pc EXCEPT ![p] = tt] /\ mem' = [mem EXCEPT ![p] = n]
        /\ CommandAt(tt, cmd[p], acct[p]) /\ LocalsAt(p, tt, cmd[p], n, acct)
        /\ tt = "stopped" => p \in broken'
    BY <2>1, <2>2, <2>3
  <2>5. pc[p] \in {"registerdevice", "registeraccount"}
    BY <1>2
  <2>6. UNCHANGED <<json, file, cmd, acct>>
    BY <1>2
  <2>7. cmd[p] \in {"link", "verify"}
    BY <1>4
  <2>8. OtherTypes'
    BY <1>3
  <2> QED BY <1>1, <1>5, <2>4, <2>5, <2>6, <2>7, <2>8, AcceptKeeps
<1> QED BY <1>6, <1>7

\* A command starts: nothing of it was anywhere before.
LEMMA StartKeeps ==
  ASSUME IInv, SetupInv, NEW p \in Procs, NEW c \in Commands, NEW a \in Accounts,
         Start(p, c, a)
  PROVE  SetupInv'
<1>1. /\ pc[p] = "idle" /\ cmd' = [cmd EXCEPT ![p] = c] /\ acct' = [acct EXCEPT ![p] = a]
      /\ UNCHANGED <<json, file, newest>> /\ UNCHANGED history /\ mem' = mem
      /\ todo' = todo /\ marker' = marker /\ stocked' = stocked /\ session' = session
  BY DEF Start, disk, server
<1>2. PICK to \in {"provision", "create", "submit", "dir"} :
        /\ pc' = [pc EXCEPT ![p] = to]
        /\ to = "provision" => c = "link"
        /\ to = "submit" => c = "verify"
        /\ to = "dir" => c = "use"
  BY CommandsAssumption DEF Start, Goto
<1>3. acct[p] = NoAccount /\ NoAccount \notin Accounts
  BY <1>1, NamesAssumption DEF SetupInv, ProcsInv, CommandAt
<1>4. /\ pc'[p] = to /\ cmd'[p] = c /\ acct'[p] = a
      /\ \A q \in Procs : q # p =>
           pc'[q] = pc[q] /\ cmd'[q] = cmd[q] /\ acct'[q] = acct[q]
      /\ cmd' = [q \in Procs |-> cmd'[q]] /\ acct' \in [Procs -> Accounts \union {NoAccount}]
  BY <1>1, <1>2 DEF IInv, Shape, SetupInv, Domains, TypeOK
<1>5. \A b \in Accounts : newest[b] # p
  BY <1>3 DEF SetupInv, AcceptedInv
<1>6. ASSUME NEW l, OwnList(acct, l)
      PROVE  OwnList(acct', l)
  <2>1. PICK A \in SUBSET Accounts :
          l \in [A -> Paths] /\ \A b \in A : Owner(acct, l[b]) = b
    BY <1>6 DEF OwnList
  <2>2. \A b \in A : l[b] \in Accounts \/ l[b] # p
    BY <1>3, <2>1 DEF Owner
  <2>3. \A b \in A : Owner(acct', l[b]) = b
    BY <1>4, <2>1, <2>2 DEF Owner, Paths
  <2> QED BY <2>1, <2>3 DEF OwnList
<1>7. ProcsInv' /\ Domains'
  <2>1. ASSUME NEW q \in Procs
        PROVE  CommandAt(pc'[q], cmd'[q], acct'[q])
    <3>1. CommandAt(pc[q], cmd[q], acct[q])
      BY DEF SetupInv, ProcsInv
    <3>2. CASE q = p
      BY <1>2, <1>3, <1>4, <3>2 DEF CommandAt
    <3>3. CASE q # p
      BY <1>4, <3>1, <3>3
    <3> QED BY <3>2, <3>3
  <2>2. ASSUME NEW q \in Procs
        PROVE  LocalsAt(q, pc'[q], cmd'[q], mem[q], acct')
    <3>1. LocalsAt(q, pc[q], cmd[q], mem[q], acct)
      BY DEF SetupInv, ProcsInv
    <3>2. CASE q = p
      <4>1. /\ to \notin {"writelist", "writefile", "found", "persist", "registerdevice"}
            /\ to \in Unsaved => c # "link"
        BY <1>2 DEF Unsaved
      <4> QED BY <1>4, <3>1, <3>2, <4>1 DEF LocalsAt
    <3>3. CASE q # p
      <4>1. PICK l : l = mem[q].list
        OBVIOUS
      <4>2. /\ pc'[q] = pc[q] /\ cmd'[q] = cmd[q] /\ acct'[q] = acct[q]
        BY <1>4, <3>3
      <4>3. OwnList(acct, mem[q].list) => OwnList(acct', mem[q].list)
        BY <1>6, <4>1
      <4>4. pc[q] \in {"writelist", "writefile", "found", "persist"} =>
              /\ mem[q].path \in Paths
              /\ Owner(acct', mem[q].path) = acct'[q]
        <5> SUFFICES ASSUME pc[q] \in {"writelist", "writefile", "found", "persist"}
                     PROVE  /\ mem[q].path \in Paths
                            /\ Owner(acct', mem[q].path) = acct'[q]
          OBVIOUS
        <5>1. /\ mem[q].path \in Paths /\ Owner(acct, mem[q].path) = acct[q]
              /\ acct[q] # NoAccount
          BY <3>1 DEF LocalsAt, SetupInv, ProcsInv, CommandAt
        <5>2. mem[q].path \in Accounts \/ mem[q].path # p
          BY <1>3, <5>1 DEF Owner
        <5> QED BY <1>4, <4>2, <5>1, <5>2 DEF Owner, Paths
      <4> QED BY <3>1, <4>2, <4>3, <4>4 DEF LocalsAt
    <3> QED BY <3>2, <3>3
  <2> QED BY <1>1, <1>4, <2>1, <2>2 DEF ProcsInv, Domains, SetupInv
<1>8. TypeOK'
  BY <1>1, <1>4 DEF SetupInv, TypeOK, history
<1>9. ListsInv'
  <2> SUFFICES ASSUME NEW d \in Dirs, json[d] # NoFile PROVE OwnList(acct', json[d])
    BY <1>1 DEF ListsInv
  <2>1. PICK l : l = json[d]
    OBVIOUS
  <2>2. OwnList(acct, json[d])
    BY DEF SetupInv, ListsInv
  <2> QED BY <1>6, <2>1, <2>2
<1>10. AcceptedInv'
  BY <1>1, <1>4, <1>5 DEF SetupInv, AcceptedInv
<1>11. /\ \A q \in Procs : Saving(q)' => Saving(q) /\ q # p
       /\ \A q \in Procs : Using(q)' => Using(q) /\ q # p
       /\ \A q \in Procs : Registered(q)' => Registered(q) /\ q # p
  BY <1>2, <1>4 DEF Saving, Using, Registered, Unsaved
<1>12. ASSUME NEW q \in Procs, Clean(q)' PROVE KeptOf(q)'
  <2>1. q # p
    <3>1. CASE q = p
      BY <1>1, <1>4, <1>5, <1>12, <3>1 DEF Clean
    <3> QED BY <3>1
  <2>2. pc'[q] = pc[q] /\ cmd'[q] = cmd[q] /\ acct'[q] = acct[q]
    BY <1>4, <2>1
  <2>3. Clean(q)
    BY <1>1, <1>12, <2>2 DEF Clean, Excepted, history
  <2>4. KeptOf(q)
    BY <2>3 DEF SetupInv, KeptInv
  <2>5. Settled(q) => Settled(q)'
    BY <1>1, <1>11, <2>2 DEF Settled, Found, find_account_config, ListOf
  <2>6. Registered(q) => Registered(q)'
    BY <2>2 DEF Registered
  <2>7. \A r \in Procs : r # q /\ acct'[r] = acct'[q] => ~Registered(r)'
    BY <1>4, <1>11, <2>2, <2>4 DEF KeptOf
  <2>8. Saving(q)' => \A r \in Procs : /\ Saving(r)' => r = q
                                       /\ Using(r)' => acct'[r] # acct'[q]
    BY <1>4, <1>11, <2>2, <2>4 DEF KeptOf
  <2> QED BY <1>1, <2>2, <2>4, <2>5, <2>6, <2>7, <2>8 DEF KeptOf
<1>13. KeptInv'
  BY <1>12 DEF KeptInv
<1> QED BY <1>7, <1>8, <1>9, <1>10, <1>13 DEF SetupInv

\* While accounts.json is in the legacy directory nobody has got to a save,
\* so that no clean process depends on what is moved.
LEMMA EarlyKeeps ==
  ASSUME IInv, SetupInv, json["legacy"] # NoFile,
         UNCHANGED <<pc, mem, cmd, acct, newest, broken, raced, overlapped>>,
         TypeOK', ListsInv'
  PROVE  SetupInv'
<1>1. ProcsInv' /\ Domains' /\ AcceptedInv'
  BY DEF SetupInv, ProcsInv, Domains, AcceptedInv
<1>2. ASSUME NEW q \in Procs, Clean(q)' PROVE KeptOf(q)'
  <2>1. KeptOf(q)
    BY <1>2 DEF Clean, Excepted, SetupInv, KeptInv
  <2>2. pc[q] # "saved"
    BY <2>1 DEF KeptOf, Settled
  <2>3. pc[q] \notin {"writelist", "writefile"}
    BY DEF IInv, PastMigration, Past
  <2> QED BY <2>1, <2>2, <2>3 DEF KeptOf, Registered, Saving
<1> QED BY <1>1, <1>2 DEF SetupInv, KeptInv

\* A move of the migration: everything it moves keeps its type and its
\* owner, and nobody has saved yet.
LEMMA MoveKeeps ==
  ASSUME IInv, SetupInv, NEW p \in Procs, Move(p)
  PROVE  SetupInv'
<1>1. PICK e \in Entries("legacy") :
        /\ todo' = [todo EXCEPT ![p] = @ \ {e}]
        /\ file' = IF e \notin Paths THEN file
                   ELSE [file EXCEPT !["new"][e] = file["legacy"][e],
                                     !["legacy"][e] = NoFile]
        /\ json' = IF e # Json THEN json
                   ELSE [json EXCEPT !["new"] = json["legacy"], !["legacy"] = NoFile]
        /\ marker' = IF e # Marker THEN marker
                     ELSE [marker EXCEPT !["new"] = TRUE, !["legacy"] = FALSE]
  BY DEF Move
<1>2. /\ pc[p] = "move"
      /\ UNCHANGED <<pc, mem, cmd, acct, newest, broken, raced, overlapped>>
      /\ UNCHANGED <<stocked, session>>
  BY DEF Move, server, history
<1>3. Json # Marker /\ Json \notin Paths /\ Marker \notin Paths
  BY NamesAssumption DEF Json, Marker
<1>4. OtherTypes'
  <2>1. todo' \in [Procs -> SUBSET (Paths \union {Json, Marker})]
    BY <1>1 DEF SetupInv, TypeOK
  <2>2. marker' \in [Dirs -> BOOLEAN]
    BY <1>1 DEF SetupInv, TypeOK
  <2> QED BY <1>2, <2>1, <2>2 DEF SetupInv, TypeOK, OtherTypes
<1>5. CASE e \in Paths
  <2>1. json' = json
    BY <1>1, <1>3, <1>5
  <2>2. /\ file' = [file EXCEPT !["new"][e] = file["legacy"][e], !["legacy"][e] = NoFile]
        /\ file["legacy"][e] # NoFile
    BY <1>1, <1>3, <1>5 DEF Entries
  <2>3. json["legacy"] # NoFile
    BY <1>5, <2>2 DEF IInv, JsonLast, LegacyEmpty
  <2>4. \A d \in Dirs, x \in Paths : file'[d][x] \in AccountFiles \union {NoFile}
    <3>1. /\ "legacy" \in Dirs /\ "new" \in Dirs
          /\ file = [d \in Dirs |-> [x \in Paths |-> file[d][x]]]
      BY DEF IInv, Shape, Dirs
    <3>2. file["legacy"][e] \in AccountFiles \union {NoFile}
      BY <1>5, <3>1 DEF SetupInv, TypeOK
    <3>3. \A d \in Dirs, x \in Paths :
            file'[d][x] \in {file[d][x], file["legacy"][e], NoFile}
      BY <1>5, <2>2, <3>1
    <3> QED BY <3>2, <3>3 DEF SetupInv, TypeOK
  <2>5. TypeOK'
    BY <1>2, <1>4, <2>1, <2>4 DEF SetupInv, TypeOK, OtherTypes
  <2>6. ListsInv'
    BY <1>2, <2>1 DEF SetupInv, ListsInv
  <2> QED BY <1>2, <2>3, <2>5, <2>6, EarlyKeeps
<1>6. CASE e = Json
  <2>1. /\ file' = file
        /\ json' = [json EXCEPT !["new"] = json["legacy"], !["legacy"] = NoFile]
    BY <1>1, <1>3, <1>6
  <2>2. json["legacy"] # NoFile
    BY <1>1, <1>3, <1>6 DEF Entries
  <2>3. json'["new"] = json["legacy"] /\ json'["legacy"] = NoFile
    BY <2>1 DEF IInv, Shape, Dirs
  <2>4. \A d \in Dirs : json'[d] # NoFile => json'[d] = json["legacy"]
    BY <2>3 DEF Dirs
  <2>5. OwnList(acct, json["legacy"])
    BY <2>2 DEF SetupInv, ListsInv, Dirs
  <2>6. ListsInv'
    BY <1>2, <2>4, <2>5 DEF ListsInv
  <2>7. TypeOK'
    <3>1. \A d \in Dirs : \/ json'[d] = NoFile
                          \/ \E A \in SUBSET Accounts : json'[d] \in [A -> Paths]
      BY <2>4, <2>5 DEF OwnList
    <3> QED BY <1>2, <1>4, <2>1, <3>1 DEF SetupInv, TypeOK, OtherTypes
  <2> QED BY <1>2, <2>2, <2>6, <2>7, EarlyKeeps
<1>7. CASE e = Marker
  <2>1. file' = file /\ json' = json
    BY <1>1, <1>3, <1>7
  <2>2. pc' = [pc EXCEPT ![p] = "move"]
    BY <1>2 DEF IInv, Shape
  <2>3. pc[p] \notin Terminal \union {"idle"} /\ pc[p] \in Unsaved /\ "move" \in Unsaved
    BY <1>2 DEF Terminal, Unsaved
  <2>4. UNCHANGED <<json, file, newest, cmd, acct>> /\ UNCHANGED history /\ mem' = mem
    BY <1>2, <2>1 DEF history
  <2> QED BY <1>4, <2>2, <2>3, <2>4, GoKeeps
<1> QED BY <1>1, <1>5, <1>6, <1>7 DEF Entries

\* save_account_config() has read accounts.json: the list it will write
\* keeps every entry of the others.
LEMMA ReadListKeeps ==
  ASSUME IInv, SetupInv, NEW p \in Procs, ReadList(p)
  PROVE  SetupInv'
<1>1. PICK x \in Paths :
        /\ IF acct[p] \in DOMAIN ListOf("new")
           THEN x = ListOf("new")[acct[p]] ELSE FreshPath(p, x)
        /\ mem' = [mem EXCEPT
                     ![p].path = x,
                     ![p].list = [a \in DOMAIN ListOf("new") \union {acct[p]} |->
                                    IF a = acct[p] THEN x ELSE ListOf("new")[a]]]
  BY DEF ReadList
<1>2. PICK l : l = [a \in DOMAIN ListOf("new") \union {acct[p]} |->
                      IF a = acct[p] THEN x ELSE ListOf("new")[a]]
  OBVIOUS
<1>3. PICK m : m = [mem[p] EXCEPT !.path = x, !.list = l]
  OBVIOUS
<1>4. mem' = [mem EXCEPT ![p] = m]
  BY <1>1, <1>2, <1>3 DEF SetupInv, Domains
<1>5. /\ pc[p] = "ready" /\ cmd[p] \in {"link", "verify"}
      /\ pc' = [pc EXCEPT ![p] = "writelist"]
      /\ UNCHANGED <<json, file, newest, cmd, acct>>
      /\ todo' = todo /\ marker' = marker /\ stocked' = stocked /\ session' = session
      /\ broken' = broken /\ raced' = raced
  BY DEF ReadList, Goto, disk, server
<1>6. /\ pc'[p] = "writelist" /\ mem'[p] = m
      /\ \A q \in Procs : q # p => pc'[q] = pc[q] /\ mem'[q] = mem[q]
  BY <1>4, <1>5, PointWise
<1> DEFINE S == {q \in Procs : \/ Saving(q)
                               \/ acct[q] = acct[p] /\ (Using(q) \/ Registered(q))}
<1>8. /\ overlapped \subseteq overlapped' /\ overlapped' \subseteq Procs
      /\ S \subseteq {p} \/ S \union {p} \subseteq overlapped'
  BY DEF ReadList, Overlap, SetupInv, TypeOK
<1>9. CommandAt("writelist", cmd[p], acct[p]) /\ acct[p] \in Accounts
  BY <1>5, CommandAfter
<1>10. DOMAIN m = Locals /\ m.kept = mem[p].kept /\ m.content = mem[p].content
       /\ m.path = x /\ m.list = l
  BY <1>3, LocalsAssigned DEF Locals
<1>11. Registered(p)
  BY <1>5 DEF Registered, Unsaved
<1>12. /\ \A a \in DOMAIN ListOf("new") : /\ a \in Accounts /\ ListOf("new")[a] \in Paths
                                          /\ Owner(acct, ListOf("new")[a]) = a
  BY ListedOwns
<1>13. Owner(acct, x) = acct[p]
  <2>1. CASE acct[p] \in DOMAIN ListOf("new")
    BY <1>1, <1>12, <2>1
  <2>2. CASE acct[p] \notin DOMAIN ListOf("new")
    BY <1>1, <2>2, NamesAssumption DEF FreshPath, Owner
  <2> QED BY <2>1, <2>2
<1>14. OwnList(acct, l)
  <2>1. PICK A \in SUBSET Accounts : A = DOMAIN ListOf("new") \union {acct[p]}
    BY <1>9, <1>12
  <2>2. l = [a \in A |-> l[a]] /\ \A a \in A : l[a] \in Paths /\ Owner(acct, l[a]) = a
    BY <1>2, <1>12, <1>13, <2>1
  <2> QED BY <2>2 DEF OwnList
<1>15. Lists(l, acct[p], x)
  BY <1>2 DEF Lists
<1>16. LocalsAt(p, "writelist", cmd[p], m, acct)
  <2>1. LocalsAt(p, "ready", cmd[p], mem[p], acct)
    BY <1>5 DEF SetupInv, ProcsInv
  <2> QED BY <1>10, <1>13, <1>14, <1>15, <2>1 DEF LocalsAt, Unsaved
<1>17. ProcsInv' /\ Domains'
  BY <1>4, <1>5, <1>9, <1>16, ProcsKeep
<1>18. TypeOK' /\ ListsInv' /\ AcceptedInv'
  <2>1. OtherTypes'
    BY <1>5, <1>8 DEF SetupInv, TypeOK, OtherTypes
  <2> QED BY <1>5, <2>1, TypesFrom DEF SetupInv, ListsInv, AcceptedInv
<1>19. /\ \A q \in Procs : Saving(q)' => Saving(q) \/ q = p
       /\ \A q \in Procs : Using(q)' => Using(q) /\ q # p
       /\ \A q \in Procs : Registered(q)' <=> Registered(q)
  BY <1>5, <1>6 DEF Saving, Using, Registered, Unsaved
<1>20. ASSUME NEW q \in Procs, Clean(q)' PROVE KeptOf(q)'
  <2>1. q \notin overlapped' /\ Clean(q)
    BY <1>5, <1>6, <1>8, <1>20 DEF Clean, Excepted
  <2>2. KeptOf(q)
    BY <2>1 DEF SetupInv, KeptInv
  <2>3. CASE q = p
    <3>1. \A r \in Procs : /\ Saving(r) => r = p
                           /\ Using(r) /\ acct[r] = acct[p] => r = p
      BY <1>8, <2>1, <2>3
    <3>2. Saving(p)' => \A r \in Procs : /\ Saving(r)' => r = p
                                         /\ Using(r)' => acct'[r] # acct'[p]
      BY <1>5, <1>19, <3>1
    <3>3. pc'[p] # "writefile" /\ pc'[p] # "saved"
      BY <1>6
    <3> QED BY <1>5, <1>11, <1>19, <2>2, <2>3, <3>2, <3>3 DEF KeptOf
  <2>4. CASE q # p
    <3>1. pc'[q] = pc[q] /\ mem'[q] = mem[q]
      BY <1>6, <2>4
    <3>2. ~Saving(q)
      BY <1>8, <2>1, <2>4
    <3>3. acct[p] # acct[q]
      BY <1>11, <2>2, <2>4 DEF KeptOf
    <3>4. Settled(q) => Settled(q)'
      <4> SUFFICES ASSUME Settled(q) PROVE Settled(q)'
        OBVIOUS
      <4>1. ListOf("new") = json["new"] /\ acct[q] \in DOMAIN json["new"]
        BY DEF Settled, ListOf
      <4>2. Lists(l, acct[q], json["new"][acct[q]])
        BY <1>2, <3>3, <4>1 DEF Lists
      <4>3. \A r \in Procs : Saving(r)' => Lists(mem'[r].list, acct[q], json["new"][acct[q]])
        BY <1>6, <1>10, <1>19, <4>2 DEF Settled
      <4>4. \A r \in Procs : Using(r)' => Using(r) /\ mem'[r] = mem[r]
        BY <1>6, <1>19
      <4> QED BY <1>5, <4>3, <4>4 DEF Settled, Found, find_account_config, ListOf
    <3>5. pc[q] # "writefile" /\ ~Saving(q)'
      BY <3>1, <3>2 DEF Saving
    <3> QED BY <1>5, <1>19, <2>2, <3>1, <3>4, <3>5 DEF KeptOf
  <2> QED BY <2>3, <2>4
<1> QED BY <1>17, <1>18, <1>20 DEF SetupInv, KeptInv

\* accounts.json is written: the list of p, which keeps the entry of every
\* clean process.
LEMMA WriteListKeeps ==
  ASSUME IInv, SetupInv, NEW p \in Procs, WriteList(p)
  PROVE  SetupInv'
<1>1. PICK m : m = mem[p]
  OBVIOUS
<1>2. /\ pc[p] = "writelist" /\ pc' = [pc EXCEPT ![p] = "writefile"] /\ mem' = mem
      /\ json' = [json EXCEPT !["new"] = m.list]
      /\ UNCHANGED <<file, newest, cmd, acct>> /\ UNCHANGED history
      /\ todo' = todo /\ marker' = marker /\ stocked' = stocked /\ session' = session
  BY <1>1 DEF WriteList, Goto, Listed, server
<1>3. mem' = [mem EXCEPT ![p] = m]
  BY <1>1, <1>2 DEF SetupInv, Domains
<1>4. /\ pc'[p] = "writefile" /\ mem'[p] = m
      /\ \A q \in Procs : q # p => pc'[q] = pc[q] /\ mem'[q] = mem[q]
  BY <1>2, <1>3, PointWise
<1>5. LocalsAt(p, "writelist", cmd[p], m, acct)
  BY <1>1, <1>2 DEF SetupInv, ProcsInv
<1>6. /\ LocalsAt(p, "writefile", cmd[p], m, acct)
      /\ OwnList(acct, m.list) /\ Lists(m.list, acct[p], m.path)
  BY <1>5 DEF LocalsAt, Unsaved
<1>7. cmd[p] \in {"link", "verify"}
  BY <1>2 DEF SetupInv, ProcsInv, CommandAt
<1>8. CommandAt("writefile", cmd[p], acct[p])
  BY <1>2, <1>7, CommandAfter
<1>9. ProcsInv' /\ Domains'
  BY <1>2, <1>3, <1>6, <1>8, ProcsKeep
<1>10. json'["new"] = m.list /\ json'["legacy"] = json["legacy"]
  BY <1>2 DEF IInv, Shape, Dirs
<1>11. m.list # NoFile
  <2>1. PICK l : l = m.list
    OBVIOUS
  <2> QED BY <1>6, <2>1, ListIsNoFile
<1>12. ListsInv'
  BY <1>2, <1>6, <1>10 DEF SetupInv, ListsInv, Dirs
<1>13. TypeOK' /\ AcceptedInv'
  <2>1. \A d \in Dirs : \/ json'[d] = NoFile
                        \/ \E A \in SUBSET Accounts : json'[d] \in [A -> Paths]
    BY <1>6, <1>10 DEF OwnList, SetupInv, TypeOK, Dirs
  <2> QED BY <1>2, <2>1 DEF SetupInv, TypeOK, AcceptedInv, history
<1>14. \A q \in Procs : /\ Saving(q)' <=> Saving(q)
                        /\ Using(q)' <=> Using(q)
                        /\ Registered(q)' <=> Registered(q)
  BY <1>2, <1>4, <1>7 DEF Saving, Using, Registered, Unsaved
<1>15. ASSUME NEW q \in Procs, Clean(q)' PROVE KeptOf(q)'
  <2>1. Clean(q)
    BY <1>2, <1>4, <1>15 DEF Clean, Excepted, history
  <2>2. KeptOf(q)
    BY <2>1 DEF SetupInv, KeptInv
  <2>3. Saving(p)
    BY <1>2 DEF Saving
  <2>4. CASE q = p
    <3>1. Registered(p)
      BY <1>2, <1>7 DEF Registered, Unsaved
    <3> QED BY <1>2, <1>4, <1>6, <1>10, <1>11, <1>14, <2>2, <2>3, <2>4, <3>1 DEF KeptOf
  <2>5. CASE q # p
    <3>1. pc'[q] = pc[q] /\ mem'[q] = mem[q] /\ ~Saving(q)
      BY <1>4, <2>2, <2>3, <2>5 DEF KeptOf
    <3>2. Settled(q) => Settled(q)'
      <4> SUFFICES ASSUME Settled(q) PROVE Settled(q)'
        OBVIOUS
      <4>1. Lists(m.list, acct[q], json["new"][acct[q]])
        BY <1>1, <2>3 DEF Settled
      <4>2. /\ acct[q] \in DOMAIN json'["new"] /\ json'["new"] # NoFile
            /\ json'["new"][acct[q]] = json["new"][acct[q]]
        BY <1>10, <1>11, <4>1 DEF Lists
      <4>3. Found(q)' = Found(q)
        BY <1>2, <4>2 DEF Settled, Found, find_account_config, ListOf
      <4> QED BY <1>2, <1>10, <1>14, <4>2, <4>3 DEF Settled
    <3>3. pc[q] # "writefile" /\ ~Saving(q)'
      BY <1>14, <3>1 DEF Saving
    <3> QED BY <1>2, <1>14, <2>2, <3>1, <3>2, <3>3 DEF KeptOf
  <2> QED BY <2>4, <2>5
<1> QED BY <1>9, <1>12, <1>13, <1>15 DEF SetupInv, KeptInv

\* What save_account_config() writes is an account file of p, with the
\* privates that were handed to it.
LEMMA SavedIs ==
  ASSUME NEW p \in Procs, NEW k, k \subseteq Keys
  PROVE  /\ Saved(p, k) \in AccountFiles /\ Saved(p, k) # NoFile
         /\ Saved(p, k).device = p /\ k \subseteq Saved(p, k).keys
<1> DEFINE drawn == {<<"random", i, "registrationId">> :
                       i \in {j \in Identities : <<p, j, "registrationId">> \notin k}}
<1>1. Saved(p, k) \in AccountFiles
  <2>1. drawn \subseteq Keys
    <3>1. \A i \in Identities : <<"random", i, "registrationId">> \in Keys
      BY DEF Keys
    <3> QED BY <3>1
  <2>2. k \union drawn \in SUBSET Keys /\ p \in Devices
    BY <2>1 DEF Devices
  <2>3. Saved(p, k) = [device |-> p, keys |-> k \union drawn]
    BY DEF Saved
  <2> QED BY <2>2, <2>3 DEF AccountFiles
<1> QED BY <1>1, NamesAssumption DEF Saved

\* One file of the new directory is written.
LEMMA OneFile ==
  ASSUME IInv, SetupInv, NEW x \in Paths, NEW c \in AccountFiles \union {NoFile},
         file' = [file EXCEPT !["new"][x] = c]
  PROVE  /\ file'["new"][x] = c
         /\ \A y \in Paths : y # x => file'["new"][y] = file["new"][y]
         /\ \A d \in Dirs, y \in Paths : file'[d][y] \in AccountFiles \union {NoFile}
<1>1. /\ file = [d \in Dirs |-> [y \in Paths |-> file[d][y]]] /\ "new" \in Dirs
  BY DEF IInv, Shape, Dirs
<1>2. /\ file'["new"][x] = c
      /\ \A y \in Paths : y # x => file'["new"][y] = file["new"][y]
  BY <1>1
<1>3. \A d \in Dirs, y \in Paths : file'[d][y] \in {file[d][y], c}
  BY <1>1
<1> QED BY <1>2, <1>3 DEF SetupInv, TypeOK

\* The account file is written, where the list says it is.
LEMMA WriteFileKeeps ==
  ASSUME IInv, SetupInv, NEW p \in Procs, WriteFile(p)
  PROVE  SetupInv'
<1>1. PICK m : m = mem[p]
  OBVIOUS
<1>2. /\ pc[p] = "writefile" /\ pc' = [pc EXCEPT ![p] = "saved"]
      /\ mem' = [mem EXCEPT ![p] = NoLocals] /\ todo' = [todo EXCEPT ![p] = {}]
      /\ file' = [file EXCEPT !["new"][m.path] = Saved(p, m.kept)]
      /\ UNCHANGED <<json, newest, cmd, acct>> /\ UNCHANGED history
      /\ marker' = marker /\ stocked' = stocked /\ session' = session
  BY <1>1 DEF WriteFile, End, Goto, server
<1>3. /\ pc'[p] = "saved"
      /\ \A q \in Procs : q # p => pc'[q] = pc[q] /\ mem'[q] = mem[q]
  BY <1>2, PointWise
<1>4. LocalsAt(p, "writefile", cmd[p], m, acct)
  BY <1>1, <1>2 DEF SetupInv, ProcsInv
<1>5. /\ m.path \in Paths /\ Owner(acct, m.path) = acct[p] /\ m.kept \subseteq Keys
      /\ cmd[p] = "link" => Secrets(p) \subseteq m.kept
  BY <1>4 DEF LocalsAt, Unsaved
<1>6. PICK c : c = Saved(p, m.kept)
  OBVIOUS
<1>7. PICK x \in Paths : x = m.path
  BY <1>5
<1>8. /\ c \in AccountFiles /\ c # NoFile /\ c.device = p
      /\ cmd[p] = "link" => Secrets(p) \subseteq c.keys
  <2>1. PICK k : k = m.kept
    OBVIOUS
  <2> QED BY <1>5, <1>6, <2>1, SavedIs
<1>9. /\ file'["new"][x] = c
      /\ \A y \in Paths : y # x => file'["new"][y] = file["new"][y]
      /\ \A d \in Dirs, y \in Paths : file'[d][y] \in AccountFiles \union {NoFile}
  <2>1. file' = [file EXCEPT !["new"][x] = c] /\ c \in AccountFiles \union {NoFile}
    BY <1>2, <1>6, <1>7, <1>8
  <2> QED BY <2>1, OneFile
<1>10. cmd[p] \in {"link", "verify"}
  BY <1>2 DEF SetupInv, ProcsInv, CommandAt
<1>11. CommandAt("saved", cmd[p], acct[p])
  BY <1>2, CommandAfter
<1>12. LocalsAt(p, "saved", cmd[p], NoLocals, acct)
  BY EndedLocals
<1>13. ProcsInv' /\ Domains'
  BY <1>2, <1>11, <1>12, ProcsKeep
<1>14. TypeOK' /\ AcceptedInv' /\ ListsInv'
  <2>1. todo' \in [Procs -> SUBSET (Paths \union {Json, Marker})]
    BY <1>2 DEF SetupInv, TypeOK
  <2> QED BY <1>2, <1>9, <2>1 DEF SetupInv, TypeOK, AcceptedInv, ListsInv, history
<1>15. /\ \A q \in Procs : Saving(q)' => Saving(q) /\ q # p
       /\ \A q \in Procs : Using(q)' => Using(q) /\ q # p
       /\ \A q \in Procs : Registered(q)' => Registered(q)
       /\ \A q \in Procs : q # p => (Registered(q)' <=> Registered(q))
  BY <1>2, <1>3 DEF Saving, Using, Registered, Unsaved
<1>16. Saving(p) /\ Registered(p)
  BY <1>2, <1>10 DEF Saving, Registered, Unsaved
<1>17. ASSUME NEW q \in Procs, Clean(q)' PROVE KeptOf(q)'
  <2>1. Clean(q)
    BY <1>2, <1>3, <1>17 DEF Clean, Excepted, history
  <2>2. KeptOf(q)
    BY <2>1 DEF SetupInv, KeptInv
  <2>3. CASE q = p
    <3>1. json["new"] # NoFile /\ Lists(json["new"], acct[p], x)
      BY <1>1, <1>2, <1>7, <2>2, <2>3 DEF KeptOf
    <3>2. json["legacy"] = NoFile
      BY <1>2 DEF IInv, PastMigration, Past
    <3>3. Found(p)' = c
      BY <1>2, <1>9, <3>1 DEF Found, find_account_config, ListOf, Lists
    <3>4. \A r \in Procs : ~Saving(r)'
      BY <1>15, <1>16, <2>2, <2>3 DEF KeptOf
    <3>5. ASSUME NEW r \in Procs, Using(r)' PROVE mem'[r].path # x
      <4>1. Using(r) /\ r # p /\ acct[r] # acct[p]
        BY <1>15, <1>16, <2>2, <2>3, <3>5 DEF KeptOf
      <4>2. Owner(acct, mem[r].path) = acct[r]
        BY <4>1 DEF Using, SetupInv, ProcsInv, LocalsAt
      <4> QED BY <1>3, <1>5, <1>7, <4>1, <4>2
    <3>6. Settled(p)'
      BY <1>2, <1>8, <3>1, <3>2, <3>3, <3>4, <3>5 DEF Settled, Lists
    <3> QED BY <1>2, <1>3, <1>10, <1>15, <2>2, <2>3, <3>4, <3>6 DEF KeptOf
  <2>4. CASE q # p
    <3>1. pc'[q] = pc[q] /\ mem'[q] = mem[q] /\ ~Saving(q) /\ acct[p] # acct[q]
      BY <1>3, <1>16, <2>2, <2>4 DEF KeptOf
    <3>2. Settled(q) => Settled(q)'
      <4> SUFFICES ASSUME Settled(q) PROVE Settled(q)'
        OBVIOUS
      <4>1. PICK y : y = json["new"][acct[q]]
        OBVIOUS
      <4>2. y \in Paths /\ Owner(acct, y) = acct[q]
        <5>1. acct[q] \in DOMAIN ListOf("new")
          BY DEF Settled, ListOf
        <5>2. PICK a : a = acct[q]
          OBVIOUS
        <5> QED BY <4>1, <5>1, <5>2, ListedOwns
      <4>3. file'["new"][y] = file["new"][y]
        BY <1>5, <1>7, <1>9, <3>1, <4>2
      <4>4. Found(q)' = Found(q)
        BY <1>2, <4>1, <4>3 DEF Settled, Found, find_account_config, ListOf
      <4> QED BY <1>2, <1>3, <1>15, <4>4 DEF Settled
    <3>3. ~Saving(q)' /\ pc[q] # "writefile"
      BY <1>15, <3>1 DEF Saving
    <3> QED BY <1>2, <1>15, <2>2, <2>4, <3>1, <3>2, <3>3 DEF KeptOf
  <2> QED BY <2>3, <2>4
<1> QED BY <1>13, <1>14, <1>17 DEF SetupInv, KeptInv

\* A transaction loads the file of its account: that of the clean process,
\* if there is one, and none that is being saved.
LEMMA LoadKeeps ==
  ASSUME IInv, SetupInv, NEW p \in Procs, Load(p)
  PROVE  SetupInv'
<1>1. PICK c : c = file["new"][mem[p].path]
  OBVIOUS
<1>2. PICK m : m = [mem[p] EXCEPT !.content = c]
  OBVIOUS
<1>3. mem' = [mem EXCEPT ![p] = m]
  BY <1>1, <1>2 DEF Load
<1>4. /\ pc[p] = "found" /\ pc' = [pc EXCEPT ![p] = "persist"]
      /\ UNCHANGED <<json, file, newest, cmd, acct>>
      /\ todo' = todo /\ marker' = marker /\ stocked' = stocked /\ session' = session
      /\ broken' = broken /\ raced' = raced
  BY DEF Load, Goto, disk, server
<1> DEFINE S == {q \in Procs : acct[q] = acct[p] /\ Saving(q)}
<1>5. /\ overlapped \subseteq overlapped' /\ overlapped' \subseteq Procs
      /\ S \subseteq {p} \/ S \union {p} \subseteq overlapped'
  BY DEF Load, Overlap, SetupInv, TypeOK
<1>6. /\ pc'[p] = "persist" /\ mem'[p] = m
      /\ \A q \in Procs : q # p => pc'[q] = pc[q] /\ mem'[q] = mem[q]
  BY <1>3, <1>4, PointWise
<1>7. LocalsAt(p, "found", cmd[p], mem[p], acct)
  BY <1>4 DEF SetupInv, ProcsInv
<1>8. mem[p].path \in Paths /\ Owner(acct, mem[p].path) = acct[p]
  BY <1>7 DEF LocalsAt
<1>9. c \in AccountFiles \union {NoFile}
  BY <1>1, <1>8 DEF SetupInv, TypeOK, Dirs
<1>10. /\ DOMAIN m = Locals /\ m.kept = mem[p].kept /\ m.content = c
       /\ m.path = mem[p].path
  BY <1>2, LocalsAssigned DEF Locals
<1>11. LocalsAt(p, "persist", cmd[p], m, acct)
  BY <1>8, <1>9, <1>10, LocalsAssigned DEF LocalsAt, Unsaved
<1>12. CommandAt("persist", cmd[p], acct[p])
  BY <1>4, CommandAfter
<1>13. ProcsInv' /\ Domains'
  BY <1>3, <1>4, <1>11, <1>12, ProcsKeep
<1>14. TypeOK' /\ ListsInv' /\ AcceptedInv'
  <2>1. OtherTypes'
    BY <1>4, <1>5 DEF SetupInv, TypeOK, OtherTypes
  <2> QED BY <1>4, <2>1, TypesFrom DEF SetupInv, ListsInv, AcceptedInv
<1>15. /\ \A q \in Procs : Saving(q)' => Saving(q) /\ q # p
       /\ \A q \in Procs : q # p => (Using(q)' <=> Using(q))
       /\ \A q \in Procs : Registered(q)' <=> Registered(q)
       /\ ~Registered(p)
  BY <1>4, <1>6 DEF Saving, Using, Registered, Unsaved
<1>16. ASSUME NEW q \in Procs, Clean(q)' PROVE KeptOf(q)'
  <2>1. Clean(q) /\ q \notin overlapped'
    BY <1>4, <1>5, <1>6, <1>16 DEF Clean, Excepted
  <2>2. KeptOf(q)
    BY <2>1 DEF SetupInv, KeptInv
  <2>3. q # p
    BY <1>4, <1>15, <2>2 DEF KeptOf
  <2>4. pc'[q] = pc[q] /\ mem'[q] = mem[q]
    BY <1>6, <2>3
  <2>5. Saving(q) => acct[p] # acct[q]
    BY <1>5, <2>1, <2>3
  <2>6. Saving(q)' => \A r \in Procs : /\ Saving(r)' => r = q
                                       /\ Using(r)' => acct'[r] # acct'[q]
    BY <1>4, <1>15, <2>2, <2>5 DEF KeptOf
  <2>7. Settled(q) => Settled(q)'
    <3> SUFFICES ASSUME Settled(q) PROVE Settled(q)'
      OBVIOUS
    <3>1. Found(q)' = Found(q)
      BY <1>4 DEF Found, find_account_config, ListOf
    <3>2. m.path = json["new"][acct[q]] => m.content = Found(q)
      BY <1>1, <1>10 DEF Settled, Found, find_account_config, ListOf
    <3>3. \A r \in Procs : Using(r)' /\ mem'[r].path = json["new"][acct[q]] =>
            mem'[r].content = Found(q)
      BY <1>6, <1>15, <3>2 DEF Settled
    <3>4. \A r \in Procs : Saving(r)' => Lists(mem'[r].list, acct[q], json["new"][acct[q]])
      BY <1>6, <1>15 DEF Settled
    <3> QED BY <1>4, <3>1, <3>3, <3>4 DEF Settled
  <2> QED BY <1>4, <1>15, <2>2, <2>4, <2>6, <2>7 DEF KeptOf
<1> QED BY <1>13, <1>14, <1>16 DEF SetupInv, KeptInv

\* A transaction writes back what it loaded.
LEMMA PersistKeeps ==
  ASSUME IInv, SetupInv, NEW p \in Procs, Persist(p)
  PROVE  SetupInv'
<1>1. PICK x, c : x = mem[p].path /\ c = mem[p].content
  OBVIOUS
<1>2. /\ pc[p] = "persist" /\ file' = [file EXCEPT !["new"][x] = c]
      /\ UNCHANGED <<json, newest, cmd, acct>> /\ UNCHANGED history
      /\ marker' = marker /\ stocked' = stocked /\ session' = session
      /\ todo' = todo \/ todo' = [todo EXCEPT ![p] = {}]
  BY <1>1 DEF Persist, End, server
<1>3. LocalsAt(p, "persist", cmd[p], mem[p], acct)
  BY <1>2 DEF SetupInv, ProcsInv
<1>4. /\ x \in Paths /\ Owner(acct, x) = acct[p]
      /\ c \in AccountFiles \union {NoFile}
  BY <1>1, <1>3 DEF LocalsAt
<1>5. /\ file'["new"][x] = c
      /\ \A y \in Paths : y # x => file'["new"][y] = file["new"][y]
      /\ \A d \in Dirs, y \in Paths : file'[d][y] \in AccountFiles \union {NoFile}
  BY <1>2, <1>4, OneFile
<1>w. \E to \in {"over", "found"} : \E m :
        /\ pc' = [pc EXCEPT ![p] = to] /\ mem' = [mem EXCEPT ![p] = m]
        /\ CommandAt(to, cmd[p], acct[p]) /\ LocalsAt(p, to, cmd[p], m, acct)
  <2>1. CASE End(p, "over")
    <3>1. pc' = [pc EXCEPT ![p] = "over"] /\ mem' = [mem EXCEPT ![p] = NoLocals]
      BY <2>1 DEF End, Goto
    <3>2. CommandAt("over", cmd[p], acct[p])
      BY <1>2, CommandAfter
    <3>3. LocalsAt(p, "over", cmd[p], NoLocals, acct)
      BY EndedLocals
    <3> QED BY <3>1, <3>2, <3>3
  <2>2. CASE Goto(p, "found") /\ mem' = [mem EXCEPT ![p].content = NoFile]
    <3>1. PICK n : n = [mem[p] EXCEPT !.content = NoFile]
      OBVIOUS
    <3>2. pc' = [pc EXCEPT ![p] = "found"] /\ mem' = [mem EXCEPT ![p] = n]
      BY <2>2, <3>1 DEF Goto
    <3>3. CommandAt("found", cmd[p], acct[p])
      BY <1>2, CommandAfter
    <3>4. /\ DOMAIN n = Locals /\ n.kept = mem[p].kept /\ n.content = NoFile
          /\ n.path = x
      BY <1>1, <3>1, LocalsAssigned DEF Locals
    <3>5. LocalsAt(p, "found", cmd[p], n, acct)
      BY <1>4, <3>4, LocalsAssigned DEF LocalsAt, Unsaved
    <3> QED BY <3>2, <3>3, <3>5
  <2> QED BY <2>1, <2>2 DEF Persist
<1>t. PICK to \in {"over", "found"} : \E m :
        /\ pc' = [pc EXCEPT ![p] = to] /\ mem' = [mem EXCEPT ![p] = m]
        /\ CommandAt(to, cmd[p], acct[p]) /\ LocalsAt(p, to, cmd[p], m, acct)
  BY <1>w
<1>6. PICK m :
        /\ pc' = [pc EXCEPT ![p] = to] /\ mem' = [mem EXCEPT ![p] = m]
        /\ CommandAt(to, cmd[p], acct[p]) /\ LocalsAt(p, to, cmd[p], m, acct)
  BY <1>t
<1>7. /\ pc'[p] = to /\ mem'[p] = m
      /\ \A q \in Procs : q # p => pc'[q] = pc[q] /\ mem'[q] = mem[q]
  BY <1>6, PointWise
<1>8. ProcsInv' /\ Domains'
  BY <1>2, <1>6, ProcsKeep
<1>9. TypeOK' /\ ListsInv' /\ AcceptedInv'
  <2>1. todo' \in [Procs -> SUBSET (Paths \union {Json, Marker})]
    BY <1>2 DEF SetupInv, TypeOK
  <2> QED BY <1>2, <1>5, <2>1 DEF SetupInv, TypeOK, ListsInv, AcceptedInv, history
<1>10. /\ \A q \in Procs : Saving(q)' => Saving(q) /\ q # p
       /\ \A q \in Procs : Using(q)' => Using(q) /\ q # p
       /\ \A q \in Procs : Registered(q)' <=> Registered(q)
       /\ ~Registered(p) /\ Using(p)
  BY <1>2, <1>6, <1>7 DEF Saving, Using, Registered, Unsaved
<1>11. ASSUME NEW q \in Procs, Clean(q)' PROVE KeptOf(q)'
  <2>1. Clean(q)
    BY <1>2, <1>7, <1>11 DEF Clean, Excepted, history
  <2>2. KeptOf(q)
    BY <2>1 DEF SetupInv, KeptInv
  <2>3. q # p
    BY <1>2, <1>10, <2>2 DEF KeptOf
  <2>4. pc'[q] = pc[q] /\ mem'[q] = mem[q]
    BY <1>7, <2>3
  <2>5. Settled(q) => Settled(q)'
    <3> SUFFICES ASSUME Settled(q) PROVE Settled(q)'
      OBVIOUS
    <3>1. PICK y : y = json["new"][acct[q]]
      OBVIOUS
    <3>2. y \in Paths
      <4>1. acct[q] \in DOMAIN ListOf("new")
        BY DEF Settled, ListOf
      <4>2. PICK a : a = acct[q]
        OBVIOUS
      <4> QED BY <3>1, <4>1, <4>2, ListedOwns
    <3>3. Found(q) = file["new"][y]
      BY <3>1 DEF Settled, Found, find_account_config, ListOf
    <3>4. y = x => c = Found(q)
      BY <1>1, <1>10, <3>1 DEF Settled
    <3>5. file'["new"][y] = Found(q)
      BY <1>5, <3>2, <3>3, <3>4
    <3>6. Found(q)' = Found(q)
      BY <1>2, <3>1, <3>5 DEF Settled, Found, find_account_config, ListOf
    <3> QED BY <1>2, <1>7, <1>10, <3>6 DEF Settled
  <2>6. Saving(q)' => \A r \in Procs : /\ Saving(r)' => r = q
                                       /\ Using(r)' => acct'[r] # acct'[q]
    BY <1>2, <1>10, <2>2 DEF KeptOf
  <2> QED BY <1>2, <1>10, <2>2, <2>4, <2>5, <2>6 DEF KeptOf
<1> QED BY <1>8, <1>9, <1>11 DEF SetupInv, KeptInv

\* The initial states satisfy the invariant: no command has started, and a
\* file is named after its account.
LEMMA InitSetupInv == Init => SetupInv
<1> SUFFICES ASSUME Init PROVE SetupInv
  OBVIOUS
<1>1. PICK d \in Dirs, A \in SUBSET Accounts :
        /\ json = [e \in Dirs |-> IF e = d /\ A # {} THEN [a \in A |-> a] ELSE NoFile]
        /\ file = [e \in Dirs |-> [x \in Paths |->
                     IF e = d /\ x \in A THEN OldFile ELSE NoFile]]
  BY DEF Init
<1>2. PICK home : home = [a \in A |-> a]
  OBVIOUS
<1>3. home \in [A -> Paths] /\ \A a \in A : Owner(acct, home[a]) = a
  BY <1>2 DEF Paths, Owner
<1>4. \A e \in Dirs : json[e] \in {home, NoFile}
  BY <1>1, <1>2
<1>5. ListsInv
  BY <1>3, <1>4 DEF ListsInv, OwnList
<1>6. /\ OldFile \in AccountFiles
      /\ \A e \in Dirs, x \in Paths : file[e][x] \in {OldFile, NoFile}
  BY <1>1 DEF OldFile, AccountFiles, Devices
<1>7. TypeOK
  <2>1. \A e \in Dirs : \/ json[e] = NoFile
                        \/ \E B \in SUBSET Accounts : json[e] \in [B -> Paths]
    BY <1>3, <1>4
  <2>2. newest \in [Accounts -> Devices]
    BY DEF Init, Devices
  <2> QED BY <1>6, <2>1, <2>2 DEF Init, TypeOK
<1>8. Domains
  BY DEF Init, Domains
<1>9. ProcsInv
  BY DEF Init, ProcsInv, CommandAt, LocalsAt, NoLocals, Locals, Unsaved
<1>10. AcceptedInv /\ KeptInv
  BY NamesAssumption DEF Init, AcceptedInv, KeptInv, Clean
<1> QED BY <1>5, <1>7, <1>8, <1>9, <1>10 DEF SetupInv

\* Every step keeps the invariant.
LEMMA NextSetupInv ==
  ASSUME IInv, SetupInv, [Next]_vars
  PROVE  SetupInv'
<1>1. CASE UNCHANGED vars
  <2>1. UNCHANGED <<json, file, marker, newest, stocked, session, pc, cmd, acct, todo, mem,
                    broken, raced, overlapped>>
    BY <1>1 DEF vars, disk, server, history
  <2>2. TypeOK' /\ Domains' /\ ListsInv' /\ AcceptedInv' /\ ProcsInv'
    BY <2>1 DEF SetupInv, TypeOK, Domains, ListsInv, AcceptedInv, ProcsInv
  <2>3. ASSUME NEW p \in Procs, Clean(p)' PROVE KeptOf(p)'
    <3>1. KeptOf(p)
      BY <2>1, <2>3 DEF Clean, Excepted, SetupInv, KeptInv
    <3>2. Settled(p) => Settled(p)'
      BY <2>1 DEF Settled, Found, find_account_config, ListOf, Saving, Using
    <3> QED BY <2>1, <3>1, <3>2 DEF KeptOf, Registered, Saving, Using
  <2> QED BY <2>2, <2>3 DEF SetupInv, KeptInv
<1>2. ASSUME NEW p \in Procs,
             \/ \E c \in Commands, a \in Accounts : Start(p, c, a)
             \/ Link(p) \/ Register(p) \/ Verify(p) \/ RegistrationFails(p)
             \/ GetDataDir(p) \/ SaveAccountConfig(p) \/ Use(p)
             \/ Break(p) \/ AnswerLost(p)
      PROVE  SetupInv'
  <2>1. CASE \E c \in Commands, a \in Accounts : Start(p, c, a)
    BY <2>1, StartKeeps
  <2>2. CASE Link(p)
    BY <2>2, ProvisionKeeps, RegisterKeeps, FailuresKeep, UploadKeeps DEF Link
  <2>3. CASE Register(p)
    BY <2>3, VerificationKeeps
  <2>4. CASE Verify(p) \/ AnswerLost(p)
    BY <2>4, SubmitCodeKeeps, RegisterKeeps DEF Verify
  <2>5. CASE RegistrationFails(p) \/ Break(p)
    BY <2>5, FailuresKeep
  <2>6. CASE GetDataDir(p)
    BY <2>6, DirKeeps, MoveKeeps, FailuresKeep DEF GetDataDir
  <2>7. CASE SaveAccountConfig(p)
    BY <2>7, ReadListKeeps, WriteListKeeps, WriteFileKeeps DEF SaveAccountConfig
  <2>8. CASE Use(p)
    BY <2>8, FindKeeps, FailuresKeep, LoadKeeps, PersistKeeps DEF Use
  <2> QED BY <1>2, <2>1, <2>2, <2>3, <2>4, <2>5, <2>6, <2>7, <2>8
<1> QED BY <1>1, <1>2 DEF Next

\* Both invariants hold in every reachable state.
LEMMA SetupInvariant == Spec => []SetupInv
<1>1. Init => IInv /\ SetupInv
  BY InitIInv, InitSetupInv
<1>2. IInv /\ SetupInv /\ [Next]_vars => IInv' /\ SetupInv'
  BY NextIInv, NextSetupInv
<1> QED BY <1>1, <1>2, PTL DEF Spec

(* Every variable keeps its type, the account files and the lists of       *)
(* accounts with them.                                                     *)
THEOREM TypeCorrect == Spec => []TypeOK
<1>1. SetupInv => TypeOK
  BY DEF SetupInv
<1> QED BY <1>1, SetupInvariant, PTL

(* The device registered last for an account is on its way to the disk or  *)
(* found there with its keys, unless one of the exceptions names the       *)
(* command that registered it.                                             *)
THEOREM RegisteredDevicesAreKept == Spec => []RegisteredIsKept
<1>1. ASSUME SetupInv PROVE RegisteredIsKept
  <2> SUFFICES ASSUME NEW p \in Procs, pc[p] # "idle", newest[acct[p]] = p,
                      ~Registered(p), p \notin broken \union raced \union overlapped
               PROVE  Kept(p)
    BY DEF RegisteredIsKept
  <2>1. KeptOf(p)
    BY <1>1 DEF SetupInv, KeptInv, Clean, Excepted
  <2>2. Settled(p)
    BY <2>1 DEF KeptOf
  <2>3. cmd[p] = "link" => Published(p) \union OneTimeKeys(p) \subseteq Secrets(p)
    BY DEF Published, LinkingPayload, Secrets
  <2> QED BY <2>2, <2>3 DEF Settled, Kept
<1> QED BY <1>1, SetupInvariant, PTL
==============================================================================
