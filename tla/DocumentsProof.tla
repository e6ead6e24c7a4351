---------------------------- MODULE DocumentsProof ----------------------------
(***************************************************************************)
(* Proofs about Session and Documents for every set of processes, users,   *)
(* entries and keys and any number of commands: whose credentials a file   *)
(* holds, that accounts and settings last, that what is listed has been    *)
(* stored, that updates which do not overlap are kept, and that the        *)
(* signatures of an intact file are neither lost nor doubled.              *)
(***************************************************************************)
EXTENDS Documents, TLAPS

\* The credentials of one user.
Pure == {Of(u) : u \in Users \cup {Nobody}}

\* Files and processes hold the credentials of one user.
Identity ==
  /\ file = [f \in Files |-> file[f]] /\ cloud = [p \in Procs |-> cloud[p]]
  /\ mixed \in BOOLEAN
  /\ ~ mixed =>
       /\ \A p \in Procs : cloud[p] \in Pure
       /\ \A f \in Accounts : IsWhole(file[f]) => file[f] \in Pure

Builds == builds \cup gone

\* A copy of a list holds what is stored, and what its command is to store.
Copied(w, known) ==
  /\ w.op = "publish" =>
       /\ w.item \in Items
       /\ w.copy \subseteq known \cup (IF w.at = "store" THEN {w.item} ELSE {})
  /\ w.op \in {"unlist", "remove"} => w.copy \subseteq known

WorkTypes == work \in [Procs -> ListWork \cup FileWork \cup {None}]

Listing ==
  /\ WorkTypes
  /\ member \in SUBSET Items
  /\ project \in (SUBSET Items) \cup {Absent}
  /\ builds \in SUBSET Items
  /\ projectFile # Partial => projectFile \subseteq Items \cap Builds
  /\ \A p \in Procs : work[p] # None => Copied(work[p], Builds)
  /\ ListedStored

\* A file with n signatures, all of them good.
Sound(content, n) ==
  /\ content \in Contents /\ ~ content.cut
  /\ Len(content.marks) = n
  /\ \A i \in 1..n : content.marks[i].good = TRUE

\* The files of a command are there once it uses them.
Present(w) ==
  w.op \in {"sign", "strip"} =>
    /\ host[w.from] \in Contents
    /\ w.at = "append" => host[w.to] \in Contents

\* A signature is being added to, or taken from, an intact file.  A file that
\* verifies is what was hashed with a signature more; the source of a strip stays
\* as it was.
Steady(w) ==
  /\ w \in FileWork /\ Sound(w.hashed, w.from)
  /\ w.op = "sign" =>
       /\ w.to = w.from + 1
       /\ w.at = "verify" /\ Verifies(host[w.to], w.key) => Sound(host[w.to], w.to)
  /\ w.op = "strip" =>
       /\ w.from > 0 /\ w.to = w.from - 1 /\ host[w.from] = w.hashed
       /\ w.at = "verify" => Sound(host[w.to], w.to)

Signing ==
  /\ WorkTypes /\ keys \subseteq Keys
  /\ host \in [0..Depth -> Contents \cup {Absent}]
  /\ intact \subseteq 0..Depth /\ steady \subseteq Procs
  /\ \A p \in Procs : work[p] # None => Present(work[p])
  /\ \A p \in steady : Steady(work[p])
  /\ \A n \in intact : Sound(host[n], n)

\* Credentials without a user are empty.
Proper == {c \in Credentials : c.uid = Nobody => c = Of(Nobody)}

AccountContents == Proper \cup {Absent, Partial}
SettingsContents == Values \cup {Absent, Partial}

SessionTypes ==
  /\ file \in [Files -> AccountContents \cup SettingsContents]
  /\ \A f \in Accounts : file[f] \in AccountContents
  /\ \A f \in Settings : file[f] \in SettingsContents
  /\ pc \in [Procs -> {"off", "idle", "write", "settings", "between", "workspace"}]
  /\ target \in [Procs -> Files]
  /\ cloud \in [Procs -> Proper]
  /\ global \in [Procs -> BOOLEAN]
  /\ memory \in [Procs -> [workspace : Values \cup {Absent}, settings : Values]]
  /\ alone \in [Procs -> BOOLEAN]
  /\ asked \in [Procs -> SUBSET Settings]
  /\ settled \in [Files -> Users \cup {Nobody, Unknown} \cup Values]
  /\ \A f \in Settings : settled[f] \in Values \cup {Unknown}

\* A process that is alone is the only one.
Only ==
  \A p, q \in Procs : alone[p] /\ q # p => pc[p] # "off" /\ pc[q] = "off"

Home(p) == Destination(~ global[p])

Opened(p, f) == pc[p] \in {"write", "settings", "workspace"} /\ target[p] = f

\* What a process has open, and what it has when it is off.
Aims(p) ==
  /\ pc[p] = "settings" => target[p] = "settings"
  /\ pc[p] = "workspace" => target[p] = "workspace"
  /\ pc[p] = "write" => target[p] = Home(p) \/ (target[p] = "workspace" /\ "workspace" \in asked[p])
  /\ "workspace" \in asked[p] \/ pc[p] = "workspace" => memory[p].workspace # Absent
  /\ pc[p] = "off" => cloud[p] = Of(Nobody)

\* A file of credentials has what was made of it: u logged in, or nobody.
Agrees(content, u) ==
  IF u = Nobody THEN content \in {Absent, Of(Nobody)}
  ELSE IsWhole(content) /\ content.uid = u

\* Settings are what they were, but for the SDK directory of a workspace.
Same(f, v, w) == v = w \/ (f = "workspace" /\ v = WithSdk[w])

Holds(f) ==
  IF f \in Accounts THEN Agrees(file[f], settled[f]) ELSE Same(f, file[f], settled[f])

Kept ==
  \A f \in Files :
    settled[f] # Unknown => Holds(f) \/ (file[f] = Partial /\ \E p \in Procs : Opened(p, f))

\* Credentials that a process may write agree with the file that it would
\* write them to.
Account(p) ==
  settled[Home(p)] # Unknown =>
    /\ pc[p] = "write" /\ target[p] = Home(p) => Agrees(cloud[p], settled[Home(p)])
    /\ cloud[p].refresh # Nobody => cloud[p].uid = settled[Home(p)]

\* So do the settings of the only process, as far as it has not been asked to
\* change them.
Memory(p) ==
  alone[p] =>
    /\ \A f \in Settings \ asked[p] : settled[f] # Unknown => Same(f, memory[p][f], settled[f])
    /\ pc[p] \in {"between", "workspace"} => file["settings"] = memory[p].settings

Keeping ==
  /\ SessionTypes /\ Only /\ Kept
  /\ \A p \in Procs : Aims(p) /\ Account(p) /\ Memory(p)

\* A process at work does nothing else.
Busy == WorkTypes /\ \A p \in Procs : work[p] # None => pc[p] = "idle"

\* A copy is the list that was read with the change that was asked for.
Faithful(w) ==
  /\ w.op = "grant" => w.copy = w.seen \cup {w.item}
  /\ w.op = "withdraw" => w.copy = w.seen \ {w.item}

Updating ==
  /\ raced \in BOOLEAN
  /\ \A p \in Procs : work[p] # None => Faithful(work[p])
  /\ UpdatesKept

IInv == Identity /\ Listing /\ Signing /\ Keeping /\ Busy /\ Updating

-----------------------------------------------------------------------------
LEMMA WorkOf ==
  ASSUME WorkTypes, NEW p \in Procs, work[p] # None
  PROVE  /\ work[p].op \in {"sign", "strip"} => work[p] \in FileWork
         /\ work[p].op \notin {"sign", "strip"} => work[p] \in ListWork
BY DEF WorkTypes, ListWork, FileWork

LEMMA PureIs ==
  /\ Of(Nobody) \in Pure
  /\ \A u \in Users : Of(u) \in Pure
  /\ \A c \in Pure : Of(c.uid) \in Pure
BY DEF Pure, Of

LEMMA ProperIs ==
  /\ Of(Nobody) \in Proper /\ Of(Nobody).uid = Nobody /\ Of(Nobody).refresh = Nobody
  /\ \A u \in Users \cup {Nobody} : Of(u) \in Proper /\ Of(u).uid = u
  /\ \A c \in Proper : c \in Credentials /\ IsWhole(c) /\ c.uid \in Users \cup {Nobody}
  /\ \A v \in Values : IsWhole(v)
BY SessionAssumption DEF Proper, Of, Credentials, IsWhole

\* What a workspace has once it is loaded.
LEMMA SdkIs ==
  /\ \A v \in Values : WithSdk[v] \in Values /\ WithSdk[WithSdk[v]] = WithSdk[v]
  /\ \A f, v : Same(f, v, v)
  /\ \A f, v, w : w \in Values /\ Same(f, v, w) => v \in Values
BY SessionAssumption DEF Same

LEMMA KeepingInit == Init => Keeping
<1> SUFFICES ASSUME Init PROVE Keeping
  OBVIOUS
<1>1. SessionTypes
  <2>1. PICK login \in {Absent} \cup {Of(u) : u \in Users}, made \in Workspaces :
          file = [f \in Files |-> CASE f = "shared" -> login
                                    [] f = "workspace" -> made
                                    [] OTHER -> Absent]
    BY DEF Init
  <2>2. login \in AccountContents /\ made \in SettingsContents
    BY <2>1, ProperIs, SessionAssumption DEF AccountContents, SettingsContents
  <2>3. /\ file["shared"] = login /\ file["workspace"] = made
        /\ file["local"] = Absent /\ file["settings"] = Absent
    BY <2>1 DEF Files, Accounts, Settings
  <2>4. /\ file \in [Files -> AccountContents \cup SettingsContents]
        /\ \A f \in Accounts : file[f] \in AccountContents
        /\ \A f \in Settings : file[f] \in SettingsContents
    BY <2>1, <2>2, <2>3 DEF AccountContents, SettingsContents, Files, Accounts, Settings
  <2>5. memory \in [Procs -> [workspace : Values \cup {Absent}, settings : Values]]
    BY SessionAssumption DEF Init, Fresh
  <2>6. settled = [f \in Files |-> AtFirst(f)]
    BY DEF Init
  <2>7. \A f \in Accounts : AtFirst(f) \in Users \cup {Nobody}
    BY <2>1, <2>3, ProperIs DEF AtFirst, Accounts
  <2>8. \A f \in Settings : AtFirst(f) \in Values \cup {Unknown}
    BY <2>1, <2>3, SessionAssumption DEF AtFirst, Settings, Accounts
  <2> QED BY <2>4, <2>5, <2>6, <2>7, <2>8, ProperIs DEF Init, SessionTypes, Files, Settings
<1>2. Only
  BY DEF Init, Only
<1>4. Kept
  <2> SUFFICES ASSUME NEW f \in Files, settled[f] # Unknown PROVE Holds(f)
    BY DEF Kept
  <2>1. settled[f] = AtFirst(f)
    BY DEF Init
  <2>2. CASE f \in Accounts
    <3>1. file[f] = Absent \/ \E u \in Users : file[f] = Of(u)
      BY <2>2 DEF Init, Accounts, Files, Settings
    <3>2. CASE file[f] = Absent
      BY <2>1, <2>2, <3>2 DEF AtFirst, Holds, Agrees
    <3>3. CASE file[f] # Absent
      <4>1. PICK u \in Users : file[f] = Of(u)
        BY <3>1, <3>3
      <4>2. IsWhole(file[f]) /\ file[f].uid = u /\ u # Nobody
        BY <4>1, ProperIs, SessionAssumption
      <4> QED BY <2>1, <2>2, <3>3, <4>2 DEF AtFirst, Holds, Agrees
    <3> QED BY <3>2, <3>3
  <2>3. CASE f \notin Accounts
    BY <2>1, <2>3 DEF AtFirst, Holds, Same
  <2> QED BY <2>2, <2>3
<1>3. \A p \in Procs : Aims(p) /\ Account(p) /\ Memory(p)
  BY ProperIs DEF Init, Aims, Account, Memory
<1> QED BY <1>1, <1>2, <1>3, <1>4 DEF Keeping

LEMMA InitInv == DocumentsInit => IInv
<1> SUFFICES ASSUME DocumentsInit PROVE IInv
  OBVIOUS
<1>1. Identity
  <2>1. PICK login \in {Absent} \cup {Of(u) : u \in Users}, made \in Workspaces :
          file = [f \in Files |-> CASE f = "shared" -> login
                                    [] f = "workspace" -> made
                                    [] OTHER -> Absent]
    BY DEF DocumentsInit, Init
  <2>2. file["shared"] = login /\ file["local"] = Absent
    BY <2>1 DEF Files, Accounts, Settings
  <2>3. login = Absent \/ login \in Pure
    BY <2>1, PureIs
  <2>4. file = [f \in Files |-> file[f]]
    BY <2>1
  <2> QED BY <2>2, <2>3, <2>4, PureIs
       DEF DocumentsInit, Init, Identity, Accounts, IsWhole
<1>2. WorkTypes
  BY DEF DocumentsInit, WorkTypes
<1>3. Listing
  BY <1>2 DEF DocumentsInit, Listing, ListedStored
<1>4. Signing
  <2>1. 0 \in 0..Depth /\ Unsigned \in Contents /\ Sound(Unsigned, 0)
    BY DocumentsAssumption DEF Unsigned, Contents, Sound
  <2>2. host[0] = Unsigned /\ host \in [0..Depth -> Contents \cup {Absent}]
    BY <2>1 DEF DocumentsInit
  <2> QED BY <1>2, <2>1, <2>2 DEF DocumentsInit, Signing
<1>5. Keeping /\ Busy
  BY <1>2, KeepingInit DEF DocumentsInit, Busy
<1>6. Updating
  BY DEF DocumentsInit, Updating, UpdatesKept
<1> QED BY <1>1, <1>3, <1>4, <1>5, <1>6 DEF IInv

-----------------------------------------------------------------------------
(***************************************************************************)
(* Identity.  A process that is gone, or that stores credentials, or one   *)
(* that opens, writes or removes a file.                                   *)
(***************************************************************************)
LEMMA IdentityStays ==
  ASSUME Identity, UNCHANGED <<file, cloud, mixed>>
  PROVE  Identity'
BY DEF Identity, Pure

LEMMA IdentityGone ==
  ASSUME Identity, NEW p \in Procs, Gone(p), UNCHANGED file, UNCHANGED mixed
  PROVE  Identity'
BY PureIs DEF Identity, Gone, Pure

LEMMA IdentityOpen ==
  ASSUME Identity, NEW p \in Procs, NEW f, Open(p, f), UNCHANGED mixed,
         \/ UNCHANGED cloud
         \/ \E c : cloud' = [cloud EXCEPT ![p] = c] /\ (~ mixed => c \in Pure)
  PROVE  Identity'
BY DEF Identity, Open, IsWhole, Pure

LEMMA IdentityWrite ==
  ASSUME Identity, NEW p \in Procs, Write(p),
         cloud' = cloud \/ cloud' = [cloud EXCEPT ![p] = Of(Nobody)]
  PROVE  Identity'
<1>1. PICK c : file' = [file EXCEPT ![target[p]] = c] /\ (target[p] \in Accounts => c = cloud[p])
  BY DEF Write
<1>2. mixed' = mixed
  BY DEF Write
<1>3. ~ mixed => \A q \in Procs : cloud'[q] \in Pure
  BY PureIs DEF Identity
<1>4. ~ mixed => \A f \in Accounts : IsWhole(file'[f]) => file'[f] \in Pure
  BY <1>1 DEF Identity, Accounts, Files
<1>5. file' = [f \in Files |-> file'[f]] /\ cloud' = [q \in Procs |-> cloud'[q]]
  BY <1>1 DEF Identity
<1> QED BY <1>2, <1>3, <1>4, <1>5 DEF Identity, Pure

LEMMA IdentityLoad ==
  ASSUME Identity, NEW p \in Procs, Start(p)
  PROVE  Identity'
<1>1. ~ mixed => Loaded \in Pure
  BY PureIs DEF Identity, Loaded, Source, Accounts
<1> QED BY <1>1 DEF Start, Identity, Pure

LEMMA IdentityProcess ==
  ASSUME Identity, NEW p \in Procs, Process(p)
  PROVE  Identity'
<1>1. CASE Start(p)
  BY <1>1, IdentityLoad
<1>2. CASE Written(p) \/ FinalizeSettings(p)
  BY <1>2, IdentityWrite DEF Written, FinalizeSettings, Keeps
<1>3. CASE End(p)
  BY <1>3, IdentityWrite DEF End, Gone
<1>4. CASE Finalize(p)
  BY <1>4, IdentityOpen DEF Finalize, Keeps
<1>5. CASE FinalizeWorkspace(p)
  BY <1>5, IdentityOpen, IdentityGone DEF FinalizeWorkspace, Keeps
<1>6. CASE Crash(p) \/ FinalizeError(p)
  BY <1>6, IdentityGone DEF Crash, FinalizeError
<1> QED BY <1>1, <1>2, <1>3, <1>4, <1>5, <1>6 DEF Process

LEMMA IdentityCommand ==
  ASSUME Identity, NEW p \in Procs, Command(p)
  PROVE  Identity'
<1>1. CASE Login(p)
  BY <1>1, IdentityOpen, PureIs DEF Login, Store
<1>2. CASE LoginBrowser(p)
  <2>1. ~ mixed => cloud[p] \in Pure
    BY DEF Identity
  <2> QED BY <1>2, <2>1, IdentityOpen DEF LoginBrowser, Store
<1>3. CASE LoginRefused(p)
  <2>1. CASE p \in Listeners
    BY <1>3, <2>1 DEF LoginRefused, Identity
  <2>2. CASE p \notin Listeners
    BY <1>3, <2>2, IdentityGone DEF LoginRefused
  <2> QED BY <2>1, <2>2
<1>4. CASE Fails(p)
  BY <1>4, IdentityGone DEF Fails
<1>5. CASE Logout(p)
  <2>1. PICK f : file' = [file EXCEPT ![f] = Absent]
    BY <1>5 DEF Logout
  <2>2. \A g \in Files : file'[g] \in {file[g], Absent}
    BY <2>1 DEF Identity
  <2>3. ~ mixed => \A g \in Accounts : IsWhole(file'[g]) => file'[g] \in Pure
    BY <2>2 DEF Identity, IsWhole, Files
  <2>4. file' = [g \in Files |-> file'[g]]
    BY <2>1 DEF Identity
  <2>5. cloud' = [cloud EXCEPT ![p] = Of(Nobody)] /\ mixed' = mixed
    BY <1>5 DEF Logout
  <2> QED BY <2>3, <2>4, <2>5, PureIs DEF Identity, Pure
<1>6. CASE Refresh(p)
  <2>1. ~ mixed => Of(cloud[p].uid) \in Pure
    BY PureIs DEF Identity
  <2> QED BY <1>6, <2>1 DEF Refresh, Refreshes, Identity, Pure
<1>7. CASE RefreshOld(p)
  <2>1. ~ mixed => Of(cloud[p].uid) \in Pure
    BY PureIs DEF Identity
  <2> QED BY <1>7, <2>1, IdentityOpen DEF RefreshOld, Refreshes
<1>8. CASE Set(p)
  BY <1>8, IdentityStays DEF Set
<1>9. CASE Initialize(p) \/ SaveWorkspace(p)
  BY <1>9, IdentityOpen DEF Initialize, SaveWorkspace, Saves
<1> QED BY <1>1, <1>2, <1>3, <1>4, <1>5, <1>6, <1>7, <1>8, <1>9 DEF Command

\* The commands of Documents leave the files to Session.
LEMMA RequestStays ==
  ASSUME NEW p \in Procs, Request(p)
  PROVE  Stays /\ work[p] = None /\ pc[p] = "idle"
BY DEF Request, UpdateMember, RemoveBuild, RemoveProject, Publish, AddMember, PublishKey,
       RemoveKey, Sign, Strip, Reads, Begins, Ready, CloudReady

LEMMA ProgressStays ==
  ASSUME NEW p \in Procs, Progress(p), ~ Failed(p)
  PROVE  Stays
BY DEF Progress, StoreBuild, SaveProject, SaveMember, Answered, DeleteBuild, DeleteProject,
       Export, Opens, Copies, Appends, Signed, Strips, Stripped, Reported, Writes

LEMMA IdentityStep ==
  ASSUME Identity, Next
  PROVE  Identity'
<1> PICK p \in Procs : Session(p) \/ Request(p) \/ Progress(p)
  BY DEF Next
<1>1. CASE Session(p)
  BY <1>1, IdentityProcess, IdentityCommand DEF Session, Counted, Process
<1>2. CASE Request(p)
  BY <1>2, RequestStays, IdentityStays DEF Stays
<1>3. CASE Progress(p)
  <2>1. CASE Failed(p)
    BY <2>1, IdentityStays, IdentityGone DEF Failed, Stays
  <2>2. CASE ~ Failed(p)
    BY <1>3, <2>2, ProgressStays, IdentityStays DEF Stays
  <2> QED BY <2>1, <2>2
<1> QED BY <1>1, <1>2, <1>3

-----------------------------------------------------------------------------
(***************************************************************************)
(* Lists and signatures.  First the steps that touch neither, then what    *)
(* the steps of lists leave of the files.                                  *)
(***************************************************************************)
LEMMA IdleStep ==
  ASSUME Listing, Signing, NEW p \in Procs, UNCHANGED <<serviceVars, host, intact>>,
         UNCHANGED <<work, steady>> \/ (Done(p) /\ steady' = steady \ {p})
  PROVE  Listing' /\ Signing'
<1>1. WorkTypes'
  BY DEF Listing, WorkTypes, Done, Works
<1>2. /\ \A q \in Procs : work'[q] # None => work[q] # None /\ work'[q] = work[q]
      /\ \A q \in steady' : q \in steady /\ work'[q] = work[q]
  BY DEF Listing, WorkTypes, Done, Works, Signing
<1>3. Listing'
  BY <1>1, <1>2 DEF Listing, Builds, ListedStored, serviceVars
<1>4. \A q \in steady' : Steady(work[q])'
  BY <1>2 DEF Signing, Steady
<1>5. \A q \in Procs : work'[q] # None => Present(work[q])'
  BY <1>2 DEF Signing, Present
<1>6. \A n \in intact : Sound(host[n], n)
  BY DEF Signing
<1>7. keys' \subseteq Keys /\ steady' \subseteq Procs /\ host' = host /\ intact' = intact
  BY DEF Signing, serviceVars
<1> QED BY <1>1, <1>3, <1>4, <1>5, <1>6, <1>7 DEF Signing

LEMMA SessionStep ==
  ASSUME Listing, Signing, NEW p \in Procs, Session(p) \/ Failed(p)
  PROVE  Listing' /\ Signing'
<1>1. /\ UNCHANGED <<serviceVars, host, intact>>
      /\ UNCHANGED <<work, steady>> \/ (Done(p) /\ steady' = steady \ {p})
  BY DEF Session, Failed, documentVars, hostVars
<1> QED BY <1>1, IdleStep

LEMMA SigningKept ==
  ASSUME Signing, WorkTypes', keys' \subseteq Keys, UNCHANGED hostVars, NEW p \in Procs,
         \A q \in Procs \ {p} : work'[q] = work[q],
         work[p] # None => work[p] \in ListWork,
         work'[p] # None => work'[p] \in ListWork
  PROVE  Signing'
<1>1. p \notin steady
  BY DocumentsAssumption DEF Signing, Steady, ListWork, FileWork
<1>2. work'[p] # None => work'[p].op \notin {"sign", "strip"}
  BY DEF ListWork
<1>3. UNCHANGED <<host, intact, steady>>
  BY DEF hostVars
<1>4. \A q \in steady' : Steady(work[q])'
  BY <1>1, <1>3 DEF Signing, Steady
<1>5. \A q \in Procs : work'[q] # None => Present(work[q])'
  BY <1>2, <1>3 DEF Signing, Present
<1>6. \A n \in intact' : Sound(host'[n], n)
  BY <1>3 DEF Signing
<1> QED BY <1>3, <1>4, <1>5, <1>6 DEF Signing

-----------------------------------------------------------------------------
(***************************************************************************)
(* A command that has read a list, or the settings file.                   *)
(***************************************************************************)
LEMMA WorksStep ==
  ASSUME Listing, Signing, NEW p \in Procs, NEW w \in ListWork, Works(p, w), work[p] = None,
         Copied(w, Builds), UNCHANGED <<serviceVars, hostVars>>
  PROVE  Listing' /\ Signing'
<1>1. WorkTypes'
  BY DEF Listing, WorkTypes, Works
<1>2. \A q \in Procs : work'[q] = IF q = p THEN w ELSE work[q]
  BY DEF Listing, WorkTypes, Works
<1>3. Listing'
  BY <1>1, <1>2 DEF Listing, Builds, ListedStored, serviceVars
<1>4. Signing'
  BY <1>1, <1>2, SigningKept DEF serviceVars, Signing
<1> QED BY <1>3, <1>4

LEMMA ListRequests ==
  ASSUME Listing, Signing, NEW p \in Procs,
         UpdateMember(p) \/ RemoveBuild(p) \/ RemoveProject(p) \/ Publish(p)
  PROVE  Listing' /\ Signing'
<1>1. ASSUME NEW o \in {"grant", "withdraw", "publish", "unlist", "remove"},
             NEW at \in {"store", "save"}, NEW item \in Items \cup {None},
             NEW copy \in SUBSET Items, NEW exports \in BOOLEAN, NEW seen \in SUBSET Items,
             Reads(p, o, at, item, copy, exports, seen),
             o = "publish" => item \in Items,
             o = "publish" => copy \subseteq Builds \cup (IF at = "store" THEN {item} ELSE {}),
             o \in {"unlist", "remove"} => copy \subseteq Builds
      PROVE  Listing' /\ Signing'
  <2> DEFINE w == [op |-> o, at |-> at, item |-> item, copy |-> copy,
                   exports |-> exports, seen |-> seen]
  <2>1. w \in ListWork
    BY DEF ListWork
  <2>2. Copied(w, Builds)
    BY <1>1 DEF Copied
  <2>3. Works(p, w) /\ work[p] = None /\ UNCHANGED <<serviceVars, hostVars>>
    BY <1>1 DEF Reads, Ready
  <2> QED BY <2>1, <2>2, <2>3, WorksStep
<1>2. CASE UpdateMember(p)
  <2>1. PICK right \in Items :
          \/ Reads(p, "grant", "save", right, member \cup {right}, FALSE, member)
          \/ Reads(p, "withdraw", "save", right, member \ {right}, FALSE, member)
    BY <1>2 DEF UpdateMember
  <2>2. /\ member \in SUBSET Items /\ member \cup {right} \in SUBSET Items
        /\ member \ {right} \in SUBSET Items
    BY DEF Listing
  <2> QED BY <1>1, <2>1, <2>2
<1>3. CASE RemoveBuild(p)
  <2>1. PICK build \in builds :
          Reads(p, "unlist", "save", build, project \ {build}, FALSE, project)
    BY <1>3 DEF RemoveBuild
  <2>2. /\ build \in Items /\ project \in SUBSET Items /\ project \ {build} \in SUBSET Items
        /\ project \ {build} \subseteq Builds
    BY <1>3 DEF RemoveBuild, Listing, ListedStored, Builds
  <2> QED BY <1>1, <2>1, <2>2
<1>4. CASE RemoveProject(p)
  <2>1. PICK path \in BOOLEAN : Reads(p, "remove", "store", None, project, path, project)
    BY <1>4 DEF RemoveProject
  <2>2. project \in SUBSET Items /\ project \subseteq Builds
    BY <1>4 DEF RemoveProject, Listing, ListedStored, Builds
  <2> QED BY <1>1, <2>1, <2>2
<1>5. CASE Publish(p)
  <2>1. PICK build \in Items, dryrun \in BOOLEAN :
          Reads(p, "publish", "store", build, projectFile \cup {build}, ~ dryrun, {})
    BY <1>5 DEF Publish
  <2>2. /\ projectFile \cup {build} \in SUBSET Items
        /\ projectFile \cup {build} \subseteq Builds \cup {build}
        /\ {} \in SUBSET Items /\ (~ dryrun) \in BOOLEAN
    BY <1>5 DEF Publish, Listing
  <2> QED BY <1>1, <2>1, <2>2
<1> QED BY <1>2, <1>3, <1>4, <1>5

-----------------------------------------------------------------------------
(***************************************************************************)
(* What a write of a list leaves of the other commands: more is stored     *)
(* than before, and a command is over, goes on, or has deleted a build.    *)
(***************************************************************************)
LEMMA Advance ==
  ASSUME WorkTypes, NEW p \in Procs, work[p] # None, work[p] \in ListWork,
         \/ Done(p)
         \/ \E at \in {"save", "answer", "export"} : GoesOn(p, at)
         \/ \E build : work' = [work EXCEPT ![p].copy = @ \ {build}]
  PROVE  /\ WorkTypes'
         /\ \A q \in Procs \ {p} : work'[q] = work[q]
         /\ work'[p] # None =>
              /\ work'[p] \in ListWork /\ work'[p].op = work[p].op
              /\ work'[p].item = work[p].item /\ work'[p].copy \subseteq work[p].copy
<1>1. CASE Done(p)
  BY <1>1 DEF Done, Works, WorkTypes
<1>2. CASE \E at \in {"save", "answer", "export"} : GoesOn(p, at)
  <2>1. PICK at \in {"save", "answer", "export"} : work' = [work EXCEPT ![p].at = at]
    BY <1>2 DEF GoesOn
  <2>2. [work[p] EXCEPT !.at = at] \in ListWork
    BY <2>1 DEF ListWork
  <2>3. work'[p] = [work[p] EXCEPT !.at = at] /\ \A q \in Procs \ {p} : work'[q] = work[q]
    BY <2>1 DEF WorkTypes
  <2>4. WorkTypes'
    BY <2>1, <2>2 DEF WorkTypes
  <2> QED BY <2>2, <2>3, <2>4 DEF ListWork
<1>3. CASE \E build : work' = [work EXCEPT ![p].copy = @ \ {build}]
  <2>1. PICK build : work' = [work EXCEPT ![p].copy = @ \ {build}]
    BY <1>3
  <2>2. [work[p] EXCEPT !.copy = @ \ {build}] \in ListWork
    BY DEF ListWork
  <2>3. /\ work'[p] = [work[p] EXCEPT !.copy = @ \ {build}]
        /\ \A q \in Procs \ {p} : work'[q] = work[q]
    BY <2>1 DEF WorkTypes
  <2>4. WorkTypes'
    BY <2>1, <2>2 DEF WorkTypes
  <2> QED BY <2>2, <2>3, <2>4 DEF ListWork
<1> QED BY <1>1, <1>2, <1>3

LEMMA CopiedMore ==
  ASSUME NEW w, NEW a, NEW b, Copied(w, a), a \subseteq b
  PROVE  Copied(w, b)
BY DEF Copied

LEMMA StoreBuildStep ==
  ASSUME Listing, Signing, NEW p \in Procs, StoreBuild(p)
  PROVE  Listing' /\ Signing'
<1>1. WorkTypes /\ work[p] # None /\ work[p].op = "publish" /\ work[p].at = "store"
  BY DEF StoreBuild, At, Listing
<1>2. work[p] \in ListWork
  BY <1>1, WorkOf
<1>3. /\ WorkTypes' /\ \A q \in Procs \ {p} : work'[q] = work[q]
      /\ work'[p] # None =>
           /\ work'[p] \in ListWork /\ work'[p].op = work[p].op
           /\ work'[p].item = work[p].item /\ work'[p].copy \subseteq work[p].copy
  BY <1>1, <1>2, Advance DEF StoreBuild
<1>4. Signing'
  BY <1>2, <1>3, SigningKept DEF StoreBuild, Signing
<1>5. /\ builds' = builds \cup {work[p].item}
      /\ UNCHANGED <<member, project, projectFile, gone>>
  BY DEF StoreBuild
<1>6. Builds' = Builds \cup {work[p].item}
  BY <1>5 DEF Builds
<1>7. work[p].item \in Items
  BY <1>1 DEF Listing, Copied
<1>8. \A q \in Procs : work'[q] # None => Copied(work'[q], Builds')
  <2>1. Copied(work[p], Builds)
    BY <1>1 DEF Listing
  <2>2. work'[p] # None => Copied(work'[p], Builds')
    BY <1>1, <1>3, <1>6, <2>1 DEF Copied
  <2>3. ASSUME NEW q \in Procs \ {p}, work'[q] # None PROVE Copied(work'[q], Builds')
    BY <1>3, <1>6, <2>3, CopiedMore DEF Listing
  <2> QED BY <2>2, <2>3
<1>9. ListedStored' /\ builds' \in SUBSET Items
  BY <1>5, <1>7 DEF Listing, ListedStored
<1> QED BY <1>3, <1>4, <1>5, <1>6, <1>8, <1>9 DEF Listing

LEMMA SaveStep ==
  ASSUME Listing, Signing, NEW p \in Procs, SaveProject(p) \/ SaveMember(p) \/ Answered(p)
  PROVE  Listing' /\ Signing'
<1>1. /\ WorkTypes /\ work[p] # None
      /\ work[p].op \in {"grant", "withdraw", "add", "publish", "unlist", "remove"}
  BY DEF SaveProject, SaveMember, Answered, At, Listing
<1>2. work[p] \in ListWork /\ Copied(work[p], Builds) /\ work[p].copy \in SUBSET Items
  BY <1>1, WorkOf DEF Listing, ListWork
<1>3. /\ WorkTypes' /\ \A q \in Procs \ {p} : work'[q] = work[q]
      /\ work'[p] # None =>
           /\ work'[p] \in ListWork /\ work'[p].op = work[p].op
           /\ work'[p].item = work[p].item /\ work'[p].copy \subseteq work[p].copy
  BY <1>1, <1>2, Advance DEF SaveProject, SaveMember, Answered
<1>4. /\ UNCHANGED <<builds, projectFile, gone>> /\ UNCHANGED hostVars /\ keys' = keys
      /\ work[p].at \in {"save", "answer"}
  BY DEF SaveProject, SaveMember, Answered, At, serviceVars
<1>5. Signing'
  BY <1>2, <1>3, <1>4, SigningKept DEF Signing
<1>6. /\ member' \in SUBSET Items /\ project' \in (SUBSET Items) \cup {Absent}
      /\ project' = project \/ project' \subseteq Builds
  <2>1. CASE SaveProject(p)
    <3>1. work[p].copy \subseteq Builds
      BY <1>2, <2>1 DEF SaveProject, At, Copied
    <3> QED BY <1>2, <2>1, <3>1 DEF SaveProject, Listing
  <2>2. CASE SaveMember(p)
    BY <1>2, <2>2 DEF SaveMember, Listing
  <2>3. CASE Answered(p)
    BY <2>3 DEF Answered, serviceVars, Listing
  <2> QED BY <2>1, <2>2, <2>3
<1>7. Builds' = Builds /\ ListedStored'
  BY <1>4, <1>6 DEF Builds, Listing, ListedStored
<1>8. \A q \in Procs : work'[q] # None => Copied(work'[q], Builds)
  <2>1. work'[p] # None => Copied(work'[p], Builds)
    BY <1>2, <1>3, <1>4 DEF Copied
  <2> QED BY <1>3, <2>1 DEF Listing
<1> QED BY <1>3, <1>4, <1>5, <1>6, <1>7, <1>8 DEF Listing

LEMMA DeleteStep ==
  ASSUME Listing, Signing, NEW p \in Procs, DeleteBuild(p) \/ DeleteProject(p)
  PROVE  Listing' /\ Signing'
<1>1. WorkTypes /\ work[p] # None /\ work[p].op = "remove"
  BY DEF DeleteBuild, DeleteProject, At, Listing
<1>2. work[p] \in ListWork
  BY <1>1, WorkOf
<1>3. /\ WorkTypes' /\ \A q \in Procs \ {p} : work'[q] = work[q]
      /\ work'[p] # None =>
           /\ work'[p] \in ListWork /\ work'[p].op = work[p].op
           /\ work'[p].item = work[p].item /\ work'[p].copy \subseteq work[p].copy
  <2>1. \/ GoesOn(p, "answer")
        \/ \E build : work' = [work EXCEPT ![p].copy = @ \ {build}]
    BY DEF DeleteBuild, DeleteProject
  <2> QED BY <1>1, <1>2, <2>1, Advance
<1>4. /\ UNCHANGED hostVars /\ keys' = keys /\ member' = member /\ projectFile' = projectFile
      /\ project' \in {project, Absent}
  BY DEF DeleteBuild, DeleteProject
<1>5. Signing'
  BY <1>2, <1>3, <1>4, SigningKept DEF Signing
<1>6. builds' \in SUBSET Items /\ builds \cup gone \subseteq builds' \cup gone'
  BY DEF DeleteBuild, DeleteProject, Listing
<1>7. \A q \in Procs : work'[q] # None => Copied(work'[q], Builds')
  <2>1. Copied(work[p], Builds)
    BY <1>1 DEF Listing
  <2>2. work'[p] # None => Copied(work'[p], Builds')
    BY <1>1, <1>3, <1>6, <2>1 DEF Copied, Builds
  <2>3. ASSUME NEW q \in Procs \ {p}, work'[q] # None PROVE Copied(work'[q], Builds')
    BY <1>3, <1>6, <2>3, CopiedMore DEF Listing, Builds
  <2> QED BY <2>2, <2>3
<1>8. ListedStored'
  BY <1>4, <1>6 DEF Listing, ListedStored
<1> QED BY <1>3, <1>4, <1>5, <1>6, <1>7, <1>8 DEF Listing, Builds

LEMMA ExportStep ==
  ASSUME Listing, Signing, NEW p \in Procs, Export(p)
  PROVE  Listing' /\ Signing'
<1>1. /\ WorkTypes /\ work[p] # None /\ work[p].at = "export"
      /\ work[p].op \in {"publish", "remove"}
  BY DEF Export, At, Listing
<1>2. work[p] \in ListWork /\ Copied(work[p], Builds)
  BY <1>1, WorkOf DEF Listing
<1>3. WorkTypes' /\ \A q \in Procs : work'[q] # None => work'[q] = work[q]
  BY <1>1 DEF Export, Done, Works, WorkTypes
<1>4. \A q \in Procs \ {p} : work'[q] = work[q]
  BY <1>1 DEF Export, Done, Works, WorkTypes
<1>5. Signing'
  BY <1>2, <1>3, <1>4, SigningKept DEF Export, Signing
<1>6. projectFile' # Partial => projectFile' = work[p].copy
  BY DEF Export
<1>7. work[p].copy \subseteq Items \cap Builds
  BY <1>1, <1>2 DEF Copied, ListWork
<1> QED BY <1>3, <1>5, <1>6, <1>7 DEF Export, Listing, ListedStored, Builds

(***************************************************************************)
(* Rights of a member, and key documents.                                  *)
(***************************************************************************)
LEMMA AddMemberStep ==
  ASSUME Listing, Signing, NEW p \in Procs, AddMember(p)
  PROVE  Listing' /\ Signing'
<1>1. PICK rights \in SUBSET Items :
        /\ member' = rights
        /\ Works(p, [op |-> "add", at |-> "answer", item |-> None, copy |-> rights,
                     exports |-> FALSE, seen |-> {}])
  BY DEF AddMember
<1> DEFINE w == [op |-> "add", at |-> "answer", item |-> None, copy |-> rights,
                 exports |-> FALSE, seen |-> {}]
<1>2. w \in ListWork /\ Copied(w, Builds)
  BY DEF ListWork, Copied
<1>3. /\ work[p] = None /\ UNCHANGED <<project, builds, projectFile, keys, gone>>
      /\ UNCHANGED hostVars
  BY DEF AddMember, Ready
<1>4. WorkTypes' /\ \A q \in Procs : work'[q] = IF q = p THEN w ELSE work[q]
  BY <1>1, <1>2 DEF Works, Listing, WorkTypes
<1>5. Listing'
  BY <1>1, <1>2, <1>3, <1>4 DEF Listing, Builds, ListedStored
<1>6. Signing'
  BY <1>2, <1>3, <1>4, SigningKept DEF Signing
<1> QED BY <1>5, <1>6

LEMMA KeyStep ==
  ASSUME Listing, Signing, NEW p \in Procs, PublishKey(p) \/ RemoveKey(p)
  PROVE  Listing' /\ Signing'
<1>1. /\ UNCHANGED <<member, project, builds, projectFile, gone, work>> /\ UNCHANGED hostVars
      /\ keys' \subseteq Keys /\ work[p] = None
  BY DEF PublishKey, RemoveKey, Ready, Signing
<1>2. WorkTypes'
  BY <1>1 DEF Listing, WorkTypes
<1>3. Listing'
  BY <1>1, <1>2 DEF Listing, Builds, ListedStored
<1>4. Signing'
  BY <1>1, <1>2, SigningKept
<1> QED BY <1>3, <1>4

-----------------------------------------------------------------------------
(***************************************************************************)
(* Files of the host.  A signature appended or stripped; then, of each     *)
(* step, what it leaves of the commands of others.                         *)
(***************************************************************************)
LEMMA SoundAppend ==
  ASSUME NEW n \in Nat, NEW c, Sound(c, n), NEW k \in Keys
  PROVE  Sound([c EXCEPT !.marks = Append(@, [key |-> k, good |-> TRUE])], n + 1)
<1> DEFINE Mark == [key : Keys, good : BOOLEAN]
           m == [key |-> k, good |-> TRUE]
           d == [c EXCEPT !.marks = Append(@, m)]
<1>1. /\ c \in [cut : BOOLEAN, marks : Seq(Mark)] /\ c.cut = FALSE /\ c.marks \in Seq(Mark)
      /\ Len(c.marks) = n /\ \A i \in 1..n : c.marks[i].good = TRUE
  BY DEF Sound, Contents
<1>2. m \in Mark /\ m.good = TRUE
  OBVIOUS
<1> HIDE DEF Mark, m
<1>3. /\ Append(c.marks, m) \in Seq(Mark) /\ Len(Append(c.marks, m)) = n + 1
      /\ \A i \in 1..n : Append(c.marks, m)[i] = c.marks[i]
      /\ Append(c.marks, m)[n + 1] = m
  BY <1>1, <1>2
<1>4. d.cut = FALSE /\ d.marks = Append(c.marks, m) /\ d \in [cut : BOOLEAN, marks : Seq(Mark)]
  BY <1>1, <1>3
<1>5. \A i \in 1..n + 1 : d.marks[i].good = TRUE
  BY <1>1, <1>2, <1>3, <1>4
<1> QED BY <1>3, <1>4, <1>5 DEF Sound, Contents, Mark, m

LEMMA SoundFront ==
  ASSUME NEW n \in Nat, n > 0, NEW c, Sound(c, n)
  PROVE  c.marks # <<>> /\ Sound([c EXCEPT !.marks = Front(@)], n - 1)
<1> DEFINE Mark == [key : Keys, good : BOOLEAN]
           d == [c EXCEPT !.marks = Front(@)]
<1>1. /\ c \in [cut : BOOLEAN, marks : Seq(Mark)] /\ c.cut = FALSE /\ c.marks \in Seq(Mark)
      /\ Len(c.marks) = n /\ \A i \in 1..n : c.marks[i].good = TRUE
  BY DEF Sound, Contents
<1> HIDE DEF Mark
<1>2. /\ Front(c.marks) \in Seq(Mark) /\ Len(Front(c.marks)) = n - 1
      /\ \A i \in 1..n - 1 : Front(c.marks)[i] = c.marks[i]
  BY <1>1 DEF Front
<1>3. d.cut = FALSE /\ d.marks = Front(c.marks) /\ d \in [cut : BOOLEAN, marks : Seq(Mark)]
  BY <1>1, <1>2
<1>4. \A i \in 1..n - 1 : d.marks[i].good = TRUE
  BY <1>1, <1>2, <1>3
<1>5. c.marks # <<>>
  BY <1>1
<1> QED BY <1>2, <1>3, <1>4, <1>5 DEF Sound, Contents, Mark

\* Any file with a signature more, and with one less.
LEMMA ContentsAre ==
  ASSUME NEW c \in Contents
  PROVE  /\ Half \in Contents
         /\ \A k \in Keys, good \in BOOLEAN :
              LET m == [key |-> k, good |-> good]
              IN  /\ [c EXCEPT !.marks = Append(@, m)] \in Contents
                  /\ [c EXCEPT !.marks = Append(@, m)].marks # <<>>
                  /\ Last([c EXCEPT !.marks = Append(@, m)].marks) = m
         /\ c.marks # <<>> => [c EXCEPT !.marks = Front(@)] \in Contents
<1> DEFINE Mark == [key : Keys, good : BOOLEAN]
<1>1. c \in [cut : BOOLEAN, marks : Seq(Mark)] /\ c.marks \in Seq(Mark)
  BY DEF Contents
<1>2. Half \in Contents
  BY DEF Half, Contents
<1>3. ASSUME NEW k \in Keys, NEW good \in BOOLEAN, NEW m, m = [key |-> k, good |-> good]
      PROVE  /\ [c EXCEPT !.marks = Append(@, m)] \in Contents
             /\ [c EXCEPT !.marks = Append(@, m)].marks # <<>>
             /\ Last([c EXCEPT !.marks = Append(@, m)].marks) = m
  <2>1. m \in Mark
    BY <1>3
  <2> HIDE DEF Mark
  <2>2. /\ Append(c.marks, m) \in Seq(Mark) /\ Len(Append(c.marks, m)) = Len(c.marks) + 1
        /\ Append(c.marks, m)[Len(c.marks) + 1] = m /\ Append(c.marks, m) # <<>>
    BY <1>1, <2>1
  <2>3. /\ [c EXCEPT !.marks = Append(@, m)].marks = Append(c.marks, m)
        /\ [c EXCEPT !.marks = Append(@, m)] \in [cut : BOOLEAN, marks : Seq(Mark)]
    BY <1>1, <2>2
  <2> QED BY <2>2, <2>3 DEF Last, Contents, Mark
<1>4. c.marks # <<>> => [c EXCEPT !.marks = Front(@)] \in Contents
  <2> HIDE DEF Mark
  <2>1. c.marks # <<>> => Front(c.marks) \in Seq(Mark)
    BY <1>1 DEF Front
  <2>2. c.marks # <<>> => [c EXCEPT !.marks = Front(@)] \in [cut : BOOLEAN, marks : Seq(Mark)]
    BY <1>1, <2>1
  <2> QED BY <2>2 DEF Contents, Mark
<1> QED BY <1>2, <1>3, <1>4

LEMMA ListingKept ==
  ASSUME Listing, WorkTypes', UNCHANGED serviceVars,
         \A q \in Procs : work'[q] # None =>
           work'[q] = work[q] \/ work'[q].op \in {"sign", "strip"}
  PROVE  Listing'
<1>1. \A q \in Procs : work'[q] # None => Copied(work'[q], Builds)
  <2>1. ASSUME NEW q \in Procs, work'[q] # None
        PROVE  Copied(work'[q], Builds)
    <3>1. CASE work'[q] = work[q]
      BY <2>1, <3>1 DEF Listing
    <3>2. CASE work'[q].op \in {"sign", "strip"}
      BY <3>2 DEF Copied
    <3> QED BY <2>1, <3>1, <3>2
  <2> QED BY <2>1
<1> QED BY <1>1 DEF Listing, Builds, ListedStored, serviceVars

LEMMA BeginsStep ==
  ASSUME Listing, Signing, NEW p \in Procs, NEW o \in {"sign", "strip"},
         NEW from \in 0..Depth, NEW to \in 0..Depth, NEW k \in Keys,
         host[from] # Absent, Begins(p, o, from, to, k),
         o = "sign" => to = from + 1, o = "strip" => from > 0 /\ to = from - 1
  PROVE  Listing' /\ Signing'
<1> DEFINE w == [op |-> o, at |-> "copy", from |-> from, to |-> to, hashed |-> host[from],
                 key |-> k]
<1>1. host[from] \in Contents
  BY DEF Signing
<1>2. w \in FileWork
  BY <1>1 DEF FileWork
<1>3. Works(p, w) /\ work[p] = None /\ UNCHANGED <<host, intact>> /\ UNCHANGED serviceVars
  BY DEF Begins, Ready
<1>4. WorkTypes' /\ \A q \in Procs : work'[q] = IF q = p THEN w ELSE work[q]
  BY <1>2, <1>3 DEF Works, Listing, WorkTypes
<1>5. Listing'
  BY <1>3, <1>4, ListingKept
<1>6. \A q \in Procs : work'[q] # None => Present(work[q])'
  BY <1>1, <1>3, <1>4 DEF Signing, Present
<1>7. \A q \in steady' : Steady(work[q])'
  <2>1. ASSUME NEW q \in steady', q # p PROVE Steady(work[q])'
    <3>1. q \in steady /\ work'[q] = work[q]
      BY <1>4, <2>1 DEF Begins, Signing
    <3> QED BY <1>3, <3>1 DEF Signing, Steady
  <2>2. ASSUME p \in steady' PROVE Steady(work[p])'
    <3>1. from \in intact
      BY <1>3, <2>2 DEF Begins, Signing
    <3>2. Sound(host[from], from)
      BY <3>1 DEF Signing
    <3>3. work'[p] = w /\ host' = host
      BY <1>3, <1>4
    <3> QED BY <1>2, <3>2, <3>3 DEF Steady
  <2> QED BY <2>1, <2>2
<1>8. keys' \subseteq Keys /\ steady' \subseteq Procs /\ \A n \in intact' : Sound(host[n], n)
  BY <1>3 DEF Begins, Signing, serviceVars
<1> QED BY <1>3, <1>4, <1>5, <1>6, <1>7, <1>8 DEF Signing

LEMMA FileRequests ==
  ASSUME Listing, Signing, NEW p \in Procs, Sign(p) \/ Strip(p)
  PROVE  Listing' /\ Signing'
<1>1. CASE Sign(p)
  <2>1. PICK n \in 0..Depth - 1, k \in keys : host[n] # Absent /\ Begins(p, "sign", n, n + 1, k)
    BY <1>1 DEF Sign
  <2>2. n \in 0..Depth /\ n + 1 \in 0..Depth /\ k \in Keys
    BY DocumentsAssumption DEF Signing
  <2> QED BY <2>1, <2>2, BeginsStep
<1>2. CASE Strip(p)
  <2>1. PICK n \in 1..Depth, k \in keys : host[n] # Absent /\ Begins(p, "strip", n, n - 1, k)
    BY <1>2 DEF Strip
  <2>2. n \in 0..Depth /\ n - 1 \in 0..Depth /\ n > 0 /\ k \in Keys
    BY DocumentsAssumption DEF Signing
  <2> QED BY <2>1, <2>2, BeginsStep
<1> QED BY <1>1, <1>2

LEMMA FileAdvance ==
  ASSUME WorkTypes, NEW p \in Procs, work[p] # None, work[p].op \in {"sign", "strip"},
         NEW at \in {"copy", "fill", "append", "verify"}, GoesOn(p, at)
  PROVE  /\ work[p] \in FileWork
         /\ WorkTypes' /\ \A q \in Procs \ {p} : work'[q] = work[q]
         /\ work'[p] \in FileWork /\ work'[p].at = at
         /\ work'[p].op = work[p].op /\ work'[p].from = work[p].from
         /\ work'[p].to = work[p].to /\ work'[p].hashed = work[p].hashed
         /\ work'[p].key = work[p].key
<1>1. work[p] \in FileWork
  BY WorkOf
<1>2. /\ [work[p] EXCEPT !.at = at] \in FileWork
      /\ work' = [work EXCEPT ![p] = [work[p] EXCEPT !.at = at]]
  BY <1>1 DEF FileWork, GoesOn
<1>3. work'[p] = [work[p] EXCEPT !.at = at] /\ \A q \in Procs \ {p} : work'[q] = work[q]
  BY <1>2 DEF WorkTypes
<1>4. WorkTypes'
  BY <1>2 DEF WorkTypes
<1> QED BY <1>1, <1>2, <1>3, <1>4 DEF FileWork

LEMMA WritesStep ==
  ASSUME Listing, Signing, NEW p \in Procs, work[p] # None, work[p].op \in {"sign", "strip"},
         NEW at \in {"copy", "fill", "append", "verify"}, GoesOn(p, at),
         NEW content \in Contents, Writes(p, work[p].to, content),
         p \in steady => Steady(work[p])'
  PROVE  Listing' /\ Signing'
<1> DEFINE n == work[p].to
<1>1. /\ work[p] \in FileWork
      /\ WorkTypes' /\ \A q \in Procs \ {p} : work'[q] = work[q]
      /\ work'[p] \in FileWork /\ work'[p].op = work[p].op /\ work'[p].from = work[p].from
      /\ work'[p].to = n
  BY FileAdvance DEF Listing
<1>2. n \in 0..Depth /\ work[p].from \in 0..Depth
  BY <1>1 DEF FileWork
<1>3. /\ host' = [host EXCEPT ![n] = content] /\ intact' = intact \ {n}
      /\ steady' = {q \in steady : q = p \/ ~ (\/ work[q].to = n
                                               \/ work[q].op = "strip" /\ work[q].from = n)}
      /\ UNCHANGED serviceVars
  BY DEF Writes
<1>4. /\ host' \in [0..Depth -> Contents \cup {Absent}] /\ host'[n] = content
      /\ \A m \in 0..Depth : m # n => host'[m] = host[m]
  BY <1>2, <1>3 DEF Signing
<1>5. Listing'
  <2>1. work'[p].op \in {"sign", "strip"}
    BY <1>1
  <2> QED BY <1>1, <1>3, <2>1, ListingKept
<1>6. ASSUME NEW q \in Procs, work'[q] # None PROVE Present(work[q])'
  <2>1. CASE q = p
    <3>1. host[work[p].from] \in Contents
      BY DEF Signing, Present
    <3> QED BY <1>1, <1>2, <1>4, <2>1, <3>1 DEF Present
  <2>2. CASE q # p
    <3>1. work'[q] = work[q] /\ Present(work[q])
      BY <1>1, <1>6, <2>2 DEF Signing
    <3>2. work[q].op \in {"sign", "strip"} => work[q].from \in 0..Depth /\ work[q].to \in 0..Depth
      BY <1>6, <3>1, WorkOf DEF Listing, FileWork
    <3> QED BY <1>4, <3>1, <3>2 DEF Present
  <2> QED BY <2>1, <2>2
<1>7. ASSUME NEW q \in steady' PROVE Steady(work[q])'
  <2>1. CASE q = p
    BY <1>3, <2>1
  <2>2. CASE q # p
    <3>1. /\ work'[q] = work[q] /\ Steady(work[q])
          /\ ~ (work[q].to = n \/ (work[q].op = "strip" /\ work[q].from = n))
      BY <1>1, <1>3, <2>2 DEF Signing
    <3>2. work[q].from \in 0..Depth /\ work[q].to \in 0..Depth
      BY <3>1 DEF Steady, FileWork
    <3> QED BY <1>4, <3>1, <3>2 DEF Steady
  <2> QED BY <2>1, <2>2
<1>8. \A m \in intact' : Sound(host'[m], m)
  BY <1>3, <1>4 DEF Signing
<1>9. keys' \subseteq Keys /\ intact' \subseteq 0..Depth /\ steady' \subseteq Procs
  BY <1>3 DEF Signing, serviceVars
<1> QED BY <1>1, <1>4, <1>5, <1>6, <1>7, <1>8, <1>9 DEF Signing

LEMMA CopyStep ==
  ASSUME Listing, Signing, NEW p \in Procs, Opens(p) \/ Copies(p)
  PROVE  Listing' /\ Signing'
<1>1. work[p] # None /\ work[p].op \in {"sign", "strip"} /\ WorkTypes
  BY DEF Opens, Copies, At, Listing
<1>2. work[p] \in FileWork /\ host[work[p].from] \in Contents
  BY <1>1, WorkOf DEF Signing, Present
<1>3. PICK at \in {"fill", "append"}, content \in Contents :
        /\ GoesOn(p, at) /\ Writes(p, work[p].to, content)
        /\ at = "append" => work[p].op = "sign"
  BY <1>2, ContentsAre DEF Opens, Copies, At
<1>4. ASSUME p \in steady PROVE Steady(work[p])'
  <2>1. Steady(work[p])
    BY <1>4 DEF Signing
  <2>2. /\ work'[p] \in FileWork /\ work'[p].at = at
        /\ work'[p].op = work[p].op /\ work'[p].from = work[p].from
        /\ work'[p].to = work[p].to /\ work'[p].hashed = work[p].hashed
        /\ work'[p].key = work[p].key
    BY <1>1, <1>3, FileAdvance
  <2>3. work[p].op = "strip" => host'[work[p].from] = host[work[p].from]
    <3>1. work[p].from \in Nat /\ work[p].from \in 0..Depth
      BY <1>2, DocumentsAssumption DEF FileWork
    <3>2. work[p].op = "strip" => work[p].from # work[p].to
      BY <2>1, <3>1 DEF Steady
    <3>3. host' = [host EXCEPT ![work[p].to] = content]
      BY <1>3 DEF Writes
    <3> QED BY <3>1, <3>2, <3>3 DEF Signing
  <2> QED BY <2>1, <2>2, <2>3 DEF Steady
<1> QED BY <1>1, <1>3, <1>4, WritesStep

LEMMA AppendsStep ==
  ASSUME Listing, Signing, NEW p \in Procs, Appends(p)
  PROVE  Listing' /\ Signing'
<1> DEFINE copy == host[work[p].to]
           mark(good) == [key |-> work[p].key, good |-> good]
           signed(good) == [copy EXCEPT !.marks = Append(@, mark(good))]
<1>1. work[p] # None /\ work[p].op = "sign" /\ work[p].at = "append" /\ WorkTypes
  BY DEF Appends, At, Listing
<1>2. /\ work[p] \in FileWork /\ copy \in Contents /\ work[p].key \in Keys
      /\ work[p].to \in 0..Depth /\ work[p].from \in Nat
  BY <1>1, WorkOf, DocumentsAssumption DEF Signing, Present, FileWork
<1>3. PICK good \in BOOLEAN :
        /\ IF copy = work[p].hashed THEN good \/ copy.cut ELSE ~ good
        /\ Writes(p, work[p].to, signed(good))
  BY DEF Appends
<1>4. GoesOn(p, "verify")
  BY DEF Appends
<1>5. signed(good) \in Contents /\ Last(signed(good).marks) = mark(good)
  BY <1>2, ContentsAre
<1>6. ASSUME p \in steady PROVE Steady(work[p])'
  <2>1. Steady(work[p])
    BY <1>6 DEF Signing
  <2>2. /\ work'[p] \in FileWork /\ work'[p].at = "verify"
        /\ work'[p].op = work[p].op /\ work'[p].from = work[p].from
        /\ work'[p].to = work[p].to /\ work'[p].hashed = work[p].hashed
        /\ work'[p].key = work[p].key
    BY <1>1, <1>4, FileAdvance
  <2>3. host'[work[p].to] = signed(good)
    BY <1>2, <1>3 DEF Writes, Signing
  <2>4. ASSUME Verifies(signed(good), work[p].key) PROVE Sound(signed(good), work[p].to)
    <3>1. mark(good) = [key |-> work[p].key, good |-> TRUE]
      BY <1>5, <2>4 DEF Verifies
    <3>2. good = TRUE
      BY <3>1
    <3>3. copy = work[p].hashed /\ Sound(copy, work[p].from) /\ work[p].to = work[p].from + 1
      BY <1>1, <1>3, <2>1, <3>2 DEF Steady
    <3> HIDE DEF copy
    <3> QED BY <1>2, <3>2, <3>3, SoundAppend
  <2> HIDE DEF signed
  <2> QED BY <1>1, <2>1, <2>2, <2>3, <2>4 DEF Steady
<1> HIDE DEF signed
<1> QED BY <1>1, <1>3, <1>4, <1>5, <1>6, WritesStep

LEMMA StripsStep ==
  ASSUME Listing, Signing, NEW p \in Procs, Strips(p)
  PROVE  Listing' /\ Signing'
<1> DEFINE source == host[work[p].from]
           stripped == IF source.marks = <<>> THEN Half ELSE [source EXCEPT !.marks = Front(@)]
<1>1. work[p] # None /\ work[p].op = "strip" /\ work[p].at = "fill" /\ WorkTypes
  BY DEF Strips, At, Listing
<1>2. /\ work[p] \in FileWork /\ source \in Contents
      /\ work[p].to \in 0..Depth /\ work[p].from \in Nat
  BY <1>1, WorkOf, DocumentsAssumption DEF Signing, Present, FileWork
<1>3. GoesOn(p, "verify") /\ Writes(p, work[p].to, stripped)
  BY DEF Strips
<1>4. stripped \in Contents
  BY <1>2, ContentsAre
<1>5. ASSUME p \in steady PROVE Steady(work[p])'
  <2>1. /\ Steady(work[p]) /\ work[p].from > 0 /\ work[p].to = work[p].from - 1
        /\ source = work[p].hashed /\ Sound(source, work[p].from)
    BY <1>1, <1>5 DEF Signing, Steady
  <2>2. /\ work'[p] \in FileWork /\ work'[p].at = "verify"
        /\ work'[p].op = work[p].op /\ work'[p].from = work[p].from
        /\ work'[p].to = work[p].to /\ work'[p].hashed = work[p].hashed
        /\ work'[p].key = work[p].key
    BY <1>1, <1>3, FileAdvance
  <2>3. host' = [host EXCEPT ![work[p].to] = stripped]
    BY <1>3 DEF Writes
  <2>4. host'[work[p].to] = stripped /\ host'[work[p].from] = source
    <3>1. work[p].from # work[p].to /\ work[p].from \in 0..Depth
      BY <1>2, <2>1 DEF FileWork
    <3> QED BY <1>2, <2>3, <3>1 DEF Signing
  <2>5. Sound(stripped, work[p].to)
    <3> HIDE DEF source
    <3> QED BY <1>2, <2>1, SoundFront
  <2> HIDE DEF stripped
  <2> QED BY <1>1, <2>1, <2>2, <2>4, <2>5 DEF Steady
<1> HIDE DEF stripped
<1> QED BY <1>1, <1>3, <1>4, <1>5, WritesStep

LEMMA ReportedStep ==
  ASSUME Listing, Signing, NEW p \in Procs, Signed(p) \/ Stripped(p)
  PROVE  Listing' /\ Signing'
<1>1. /\ work[p] # None /\ work[p].op \in {"sign", "strip"} /\ work[p].at = "verify"
      /\ Reported(p)
  BY DEF Signed, Stripped, At
<1>2. /\ Done(p) /\ steady' = steady \ {p} /\ host' = host /\ UNCHANGED serviceVars
      /\ intact' = IF p \in steady THEN intact \cup {work[p].to} ELSE intact
  BY <1>1 DEF Reported
<1>3. /\ WorkTypes'
      /\ \A q \in Procs : work'[q] # None => work[q] # None /\ work'[q] = work[q]
      /\ \A q \in Procs \ {p} : work'[q] = work[q]
  BY <1>2 DEF Done, Works, Listing, WorkTypes
<1>4. Listing'
  BY <1>2, <1>3, ListingKept
<1>5. ASSUME p \in steady PROVE work[p].to \in 0..Depth /\ Sound(host[work[p].to], work[p].to)
  <2>1. Steady(work[p]) /\ work[p].to \in 0..Depth
    BY <1>5 DEF Signing, Steady, FileWork
  <2> QED BY <1>1, <2>1 DEF Signed, Stripped, At, Steady
<1>6. \A n \in intact' : n \in 0..Depth /\ Sound(host[n], n)
  BY <1>2, <1>5 DEF Signing
<1>7. \A q \in steady' : Steady(work[q])'
  BY <1>2, <1>3 DEF Signing, Steady
<1>8. \A q \in Procs : work'[q] # None => Present(work[q])'
  BY <1>2, <1>3 DEF Signing, Present
<1>9. keys' \subseteq Keys /\ steady' \subseteq Procs
  BY <1>2 DEF Signing, serviceVars
<1> QED BY <1>2, <1>3, <1>4, <1>6, <1>7, <1>8, <1>9 DEF Signing

-----------------------------------------------------------------------------
(***************************************************************************)
(* What the sessions keep: files against what was made of them.  First     *)
(* what any step of one process leaves of the invariant, if its own part   *)
(* of it holds, then the steps.                                            *)
(***************************************************************************)
LEMMA KeepingStays ==
  ASSUME Keeping, UNCHANGED <<file, pc, target, cloud, global, memory, alone, asked, settled>>
  PROVE  Keeping'
BY DEF Keeping, SessionTypes, Only, Kept, Holds, Same, Opened, Aims, Account, Memory, Home, Agrees,
   AccountContents, SettingsContents, IsWhole, Destination

\* What a step of p makes of a file.
FileKept(p, f) ==
  settled'[f] # Unknown =>
    \/ Holds(f)'
    \/ file'[f] = Partial /\ Opened(p, f)'
    \/ settled'[f] = settled[f] /\ file'[f] = file[f] /\ (Opened(p, f) => Opened(p, f)')

\* A step of p leaves the other processes as they are.
Apart(p) ==
  \A q \in Procs \ {p} :
    /\ pc'[q] = pc[q] /\ target'[q] = target[q] /\ cloud'[q] = cloud[q]
    /\ global'[q] = global[q] /\ memory'[q] = memory[q] /\ alone'[q] = alone[q]
    /\ asked'[q] = asked[q]

LEMMA KeepingStep ==
  ASSUME Keeping, NEW p \in Procs, pc[p] # "off", Apart(p), SessionTypes',
         alone'[p] => alone[p] /\ pc'[p] # "off",
         \A f \in Files : FileKept(p, f),
         alone[p] \/ \A f \in Accounts : settled'[f] \in {settled[f], Unknown},
         Aims(p)', Account(p)', Memory(p)'
  PROVE  Keeping'
<1>1. Only'
  BY DEF Keeping, Only, Apart, SessionTypes
<1>2. Kept'
  <2> SUFFICES ASSUME NEW f \in Files, settled'[f] # Unknown, ~ Holds(f)'
               PROVE  file'[f] = Partial /\ \E q \in Procs : Opened(q, f)'
    BY DEF Kept
  <2>1. CASE file'[f] = Partial /\ Opened(p, f)'
    BY <2>1
  <2>2. CASE settled'[f] = settled[f] /\ file'[f] = file[f] /\ (Opened(p, f) => Opened(p, f)')
    <3>1. ~ Holds(f)
      BY <2>2 DEF Holds
    <3>2. PICK q \in Procs : file[f] = Partial /\ Opened(q, f)
      BY <2>2, <3>1 DEF Keeping, Kept
    <3>3. Opened(q, f)'
      BY <2>2, <3>2 DEF Apart, Opened
    <3> QED BY <2>2, <3>2, <3>3
  <2> QED BY <2>1, <2>2 DEF FileKept
<1>3. ASSUME NEW q \in Procs \ {p} PROVE Aims(q)' /\ Account(q)' /\ Memory(q)'
  <2>1. ~ alone[q]
    BY DEF Keeping, Only
  <2>2. Aims(q)'
    BY DEF Keeping, Aims, Apart, Home
  <2>3. Memory(q)'
    BY <2>1 DEF Memory, Apart
  <2>4. Account(q)'
    <3>1. Home(q)' = Home(q) /\ Home(q) \in Accounts
      BY DEF Home, Apart, Destination, Accounts
    <3>2. CASE alone[p]
      <4>1. pc[q] = "off" /\ cloud[q].refresh = Nobody
        BY <3>2, ProperIs DEF Keeping, Only, Aims
      <4> QED BY <4>1 DEF Apart, Account
    <3>3. CASE \A f \in Accounts : settled'[f] \in {settled[f], Unknown}
      BY <3>1, <3>3 DEF Keeping, Account, Apart
    <3> QED BY <3>2, <3>3
  <2> QED BY <2>2, <2>3, <2>4
<1> QED BY <1>1, <1>2, <1>3 DEF Keeping

LEMMA MemoryIs ==
  ASSUME SessionTypes, NEW p \in Procs
  PROVE  /\ memory[p].workspace \in Values \cup {Absent} /\ memory[p].settings \in Values
         /\ memory[p]["workspace"] = memory[p].workspace
         /\ memory[p]["settings"] = memory[p].settings
BY DEF SessionTypes

\* A process that has nothing open goes, or one whose files are seen to.
LEMMA KeepingGone ==
  ASSUME Keeping, NEW p \in Procs, pc[p] # "off", Gone(p), target' \in [Procs -> Files],
         \A q \in Procs \ {p} : target'[q] = target[q],
         file' \in [Files -> AccountContents \cup SettingsContents],
         settled' \in [Files -> Users \cup {Nobody, Unknown} \cup Values],
         \A f \in Accounts :
           /\ file'[f] = file[f] /\ settled'[f] \in {settled[f], Unknown}
           /\ Opened(p, f) => settled'[f] = Unknown,
         \A f \in Settings :
           /\ file'[f] \in SettingsContents /\ settled'[f] \in Values \cup {Unknown}
           /\ settled'[f] # Unknown =>
                \/ Same(f, file'[f], settled'[f])
                \/ ~ Opened(p, f) /\ file'[f] = file[f] /\ settled'[f] = settled[f]
  PROVE  Keeping'
<1>1. SessionTypes'
  <2>1. Fresh \in [workspace : Values \cup {Absent}, settings : Values]
    BY SessionAssumption DEF Fresh
  <2>2. \A f \in Accounts : file'[f] \in AccountContents
    BY DEF Keeping, SessionTypes
  <2> QED BY <2>1, <2>2, ProperIs DEF Gone, Goes, Keeping, SessionTypes, AccountContents, SettingsContents
<1>2. Apart(p) /\ ~ alone'[p] /\ pc'[p] = "off" /\ cloud'[p] = Of(Nobody) /\ asked'[p] = {}
  BY DEF Gone, Goes, Apart, Keeping, SessionTypes
<1>3. \A f \in Files : FileKept(p, f)
  <2>1. \A f \in Accounts : FileKept(p, f)
    BY DEF FileKept
  <2>2. \A f \in Settings : settled'[f] # Unknown /\ Same(f, file'[f], settled'[f]) => Holds(f)'
    BY DEF Holds, Same, Settings, Accounts
  <2>3. \A f \in Settings : FileKept(p, f)
    BY <2>2 DEF FileKept
  <2> QED BY <2>1, <2>3 DEF Files
<1>4. Aims(p)' /\ Account(p)' /\ Memory(p)'
  BY <1>2, ProperIs DEF Aims, Account, Memory
<1> QED BY <1>1, <1>2, <1>3, <1>4, KeepingStep

LEMMA KeepingCrash ==
  ASSUME Keeping, NEW p \in Procs, Crash(p)
  PROVE  Keeping'
<1>1. /\ pc[p] # "off" /\ Gone(p) /\ target' \in [Procs -> Files] /\ file' = file
      /\ \A q \in Procs \ {p} : target'[q] = target[q]
  BY DEF Crash, Keeping, SessionTypes, Files, Settings
<1>2. /\ settled' \in [Files -> Users \cup {Nobody, Unknown} \cup Values]
      /\ \A f \in Files : /\ settled'[f] \in {settled[f], Unknown}
                          /\ Opened(p, f) => settled'[f] = Unknown
  BY DEF Crash, Keeping, SessionTypes, Opened
<1> QED BY <1>1, <1>2, KeepingGone DEF Keeping, SessionTypes, Files, AccountContents, SettingsContents

LEMMA KeepingFails ==
  ASSUME Keeping, NEW p \in Procs, pc[p] = "idle", Gone(p), UNCHANGED <<file, target, settled>>
  PROVE  Keeping'
<1>1. \A f \in Files : ~ Opened(p, f)
  BY DEF Opened
<1> QED BY <1>1, KeepingGone DEF Keeping, SessionTypes, Files, AccountContents, SettingsContents

LEMMA KeepingFinalizeWorkspace ==
  ASSUME Keeping, NEW p \in Procs, FinalizeWorkspace(p)
  PROVE  Keeping'
<1>1. pc[p] = "between" /\ \A f \in Files : ~ Opened(p, f)
  BY DEF FinalizeWorkspace, Opened
<1>2. CASE memory[p].workspace = Absent
  <2>1. Gone(p) /\ settled' = Claimed(p, settled) /\ UNCHANGED <<file, target>>
    BY <1>2 DEF FinalizeWorkspace
  <2>2. asked[p] \subseteq {"settings"} /\ asked[p] \subseteq Settings
    BY <1>2 DEF Keeping, Aims, SessionTypes, Settings
  <2>3. alone[p] => memory[p]["settings"] = file["settings"]
    BY <1>1, MemoryIs DEF Keeping, Memory
  <2>4. \A f \in Files : \/ settled'[f] \in {settled[f], Unknown}
                         \/ f = "settings" /\ alone[p] /\ settled'[f] = memory[p]["settings"]
    BY <2>1, <2>2 DEF Claimed
  <2>5. \A f \in Accounts : settled'[f] = settled[f]
    BY <2>1, <2>2 DEF Claimed, Accounts, Files
  <2>6. settled' \in [Files -> Users \cup {Nobody, Unknown} \cup Values]
    BY <2>1, <2>4, MemoryIs DEF Claimed, Keeping, SessionTypes
  <2>7. \A f \in Settings :
          /\ file'[f] \in SettingsContents /\ settled'[f] \in Values \cup {Unknown}
          /\ settled'[f] # Unknown =>
               \/ Same(f, file'[f], settled'[f])
               \/ ~ Opened(p, f) /\ file'[f] = file[f] /\ settled'[f] = settled[f]
    BY <1>1, <2>1, <2>3, <2>4, MemoryIs DEF Keeping, SessionTypes, Files, Same
  <2> QED BY <1>1, <2>1, <2>5, <2>6, <2>7, KeepingGone DEF Keeping, SessionTypes, Files
<1>3. CASE memory[p].workspace # Absent
  <2>1. /\ Open(p, "workspace") /\ Goes(p, "workspace") /\ Keeps /\ UNCHANGED settled
    BY <1>3 DEF FinalizeWorkspace
  <2>2. SessionTypes' /\ Apart(p)
    BY <2>1 DEF Open, Goes, Keeps, Keeping, SessionTypes, Apart, Files, Settings, Accounts,
                AccountContents, SettingsContents
  <2>3. /\ target'[p] = "workspace" /\ pc'[p] = "workspace" /\ file'["workspace"] = Partial
        /\ \A f \in Files \ {"workspace"} : file'[f] = file[f]
    BY <2>1 DEF Open, Goes, Keeping, SessionTypes, Files, Settings
  <2>4. \A f \in Files : FileKept(p, f)
    BY <1>1, <2>1, <2>3 DEF FileKept, Opened
  <2>5. Aims(p)' /\ Account(p)' /\ Memory(p)'
    BY <1>1, <1>3, <2>1, <2>3 DEF Keeping, Aims, Account, Memory, Home, Destination, Keeps, Files, Settings
  <2> QED BY <1>1, <2>1, <2>2, <2>3, <2>4, <2>5, KeepingStep DEF Keeps
<1> QED BY <1>2, <1>3

LEMMA KeepingEnd ==
  ASSUME Keeping, NEW p \in Procs, End(p)
  PROVE  Keeping'
<1>1. /\ pc[p] = "workspace" /\ target[p] = "workspace" /\ memory[p]["workspace"] \in Values
      /\ memory[p]["settings"] \in Values
  BY MemoryIs DEF End, Keeping, Aims
<1>2. /\ Gone(p) /\ target' = [target EXCEPT ![p] = "settings"]
      /\ file' = [file EXCEPT !["workspace"] = memory[p]["workspace"]]
      /\ settled' = Claimed(p, Rewritten(p))
  BY <1>1 DEF End, Write, Accounts
<1>3. \A f \in Files : settled'[f] =
        IF f \in asked[p] THEN IF alone[p] THEN memory[p][f] ELSE Unknown
        ELSE IF f = "workspace" /\ ~ alone[p] THEN Unknown ELSE settled[f]
  BY <1>1, <1>2 DEF Claimed, Rewritten, Accounts, Keeping, SessionTypes
<1>4. /\ settled' = [f \in Files |-> settled'[f]]
      /\ asked[p] \subseteq Settings
  BY <1>2 DEF Claimed, Keeping, SessionTypes
<1>5. \A f \in Accounts : file'[f] = file[f] /\ settled'[f] = settled[f] /\ ~ Opened(p, f)
  BY <1>1, <1>2, <1>3, <1>4 DEF Accounts, Settings, Files, Opened, Keeping, SessionTypes
<1>6. alone[p] => /\ file["settings"] = memory[p]["settings"]
                  /\ \A f \in Settings \ asked[p] : settled[f] # Unknown => Same(f, memory[p][f], settled[f])
  BY <1>1, MemoryIs DEF Keeping, Memory
<1>7. \A f \in Settings :
        /\ file'[f] \in SettingsContents /\ settled'[f] \in Values \cup {Unknown}
        /\ settled'[f] # Unknown =>
             \/ Same(f, file'[f], settled'[f])
             \/ ~ Opened(p, f) /\ file'[f] = file[f] /\ settled'[f] = settled[f]
  <2>1. file'["workspace"] = memory[p]["workspace"] /\ file'["settings"] = file["settings"]
    BY <1>2 DEF Keeping, SessionTypes, Files, Settings
  <2>2. ~ Opened(p, "settings")
    BY <1>1 DEF Opened
  <2>3. file'["settings"] \in SettingsContents /\ file'["workspace"] \in SettingsContents
    BY <1>1, <2>1 DEF Keeping, SessionTypes, Settings, SettingsContents
  <2>4. \A f \in Settings : settled'[f] \in Values \cup {Unknown}
    BY <1>1, <1>3 DEF Keeping, SessionTypes, Files, Settings
  <2>5. settled'["workspace"] # Unknown => Same("workspace", file'["workspace"], settled'["workspace"])
    BY <1>3, <1>6, <2>1, SdkIs DEF Files, Settings
  <2>6. settled'["settings"] # Unknown =>
          \/ Same("settings", file'["settings"], settled'["settings"])
          \/ file'["settings"] = file["settings"] /\ settled'["settings"] = settled["settings"]
    BY <1>3, <1>6, <2>1, SdkIs DEF Files, Settings
  <2> QED BY <2>2, <2>3, <2>4, <2>5, <2>6 DEF Settings
<1>8. settled' \in [Files -> Users \cup {Nobody, Unknown} \cup Values]
  <2>1. \A f \in Files : settled'[f] \in Users \cup {Nobody, Unknown} \cup Values
    BY <1>5, <1>7 DEF Files, Keeping, SessionTypes
  <2> QED BY <1>4, <2>1
<1>9. /\ file' \in [Files -> AccountContents \cup SettingsContents]
      /\ target' \in [Procs -> Files] /\ \A q \in Procs \ {p} : target'[q] = target[q]
  BY <1>1, <1>2 DEF Keeping, SessionTypes, SettingsContents, Files, Settings
<1> QED BY <1>1, <1>2, <1>5, <1>7, <1>8, <1>9, KeepingGone

\* A file is opened, or written, and the process goes on.
LEMMA KeepingFinalize ==
  ASSUME Keeping, NEW p \in Procs, Finalize(p)
  PROVE  Keeping'
<1>1. /\ pc[p] = "idle" /\ Open(p, "settings") /\ Goes(p, "settings") /\ Keeps /\ UNCHANGED settled
  BY DEF Finalize
<1>2. SessionTypes' /\ Apart(p)
  BY <1>1 DEF Open, Goes, Keeps, Keeping, SessionTypes, Apart, Files, Settings, Accounts,
              AccountContents, SettingsContents
<1>3. /\ target'[p] = "settings" /\ pc'[p] = "settings" /\ file'["settings"] = Partial
      /\ \A f \in Files \ {"settings"} : file'[f] = file[f]
  BY <1>1 DEF Open, Goes, Keeping, SessionTypes, Files, Settings
<1>4. \A f \in Files : FileKept(p, f)
  BY <1>1, <1>3 DEF FileKept, Opened
<1>5. Aims(p)' /\ Account(p)' /\ Memory(p)'
  BY <1>1, <1>3 DEF Keeping, Aims, Account, Memory, Home, Destination, Keeps, Files, Settings
<1> QED BY <1>1, <1>2, <1>3, <1>4, <1>5, KeepingStep DEF Keeps

LEMMA KeepingFinalizeSettings ==
  ASSUME Keeping, NEW p \in Procs, FinalizeSettings(p)
  PROVE  Keeping'
<1>1. /\ pc[p] = "settings" /\ target[p] = "settings" /\ memory[p]["settings"] \in Values
  BY MemoryIs DEF FinalizeSettings, Keeping, Aims
<1>2. /\ target' = [target EXCEPT ![p] = "settings"] /\ Goes(p, "between") /\ Keeps
      /\ file' = [file EXCEPT !["settings"] = memory[p]["settings"]]
      /\ settled' = IF alone[p] /\ "settings" \notin asked[p] THEN settled
                    ELSE [settled EXCEPT !["settings"] = Unknown]
  BY <1>1 DEF FinalizeSettings, Write, Accounts, Rewritten
<1>3. SessionTypes' /\ Apart(p)
  BY <1>1, <1>2 DEF Goes, Keeps, Keeping, SessionTypes, Apart, Files, Settings, Accounts,
                    AccountContents, SettingsContents
<1>4. /\ pc'[p] = "between" /\ file'["settings"] = memory[p]["settings"]
      /\ \A f \in Files \ {"settings"} : /\ file'[f] = file[f] /\ settled'[f] = settled[f]
                                         /\ ~ Opened(p, f)
      /\ \A f \in Files : settled'[f] \in {settled[f], Unknown}
  BY <1>1, <1>2 DEF Goes, Keeping, SessionTypes, Files, Settings, Opened
<1>5. settled'["settings"] # Unknown => Holds("settings")'
  BY <1>1, <1>2, <1>4 DEF Keeping, SessionTypes, Memory, Holds, Same, Accounts, Settings, Files
<1>6. \A f \in Files : FileKept(p, f)
  BY <1>4, <1>5 DEF FileKept
<1>7. Aims(p)' /\ Account(p)'
  BY <1>1, <1>2, <1>4 DEF Keeping, Aims, Account, Home, Destination, Keeps, Files, Accounts
<1>8. Memory(p)'
  BY <1>1, <1>2, <1>4, MemoryIs DEF Keeping, Memory, Keeps, Files
<1> QED BY <1>1, <1>2, <1>3, <1>4, <1>6, <1>7, <1>8, KeepingStep DEF Keeps, Files

LEMMA KeepingWritten ==
  ASSUME Keeping, NEW p \in Procs, Written(p)
  PROVE  Keeping'
<1>1. /\ pc[p] = "write" /\ pc' = [pc EXCEPT ![p] = "idle"]
      /\ UNCHANGED <<cloud, global, memory, alone>> /\ target' = [target EXCEPT ![p] = "settings"]
      /\ asked' = [asked EXCEPT ![p] = @ \ {target[p]}]
      /\ Home(p) \in Accounts /\ Home(p)' = Home(p)
  BY DEF Written, Write, Goes, Home, Destination, Accounts
<1>2. /\ pc'[p] = "idle" /\ asked'[p] = asked[p] \ {target[p]}
      /\ \A q \in Procs \ {p} : pc'[q] = pc[q] /\ target'[q] = target[q] /\ asked'[q] = asked[q]
  BY <1>1 DEF Keeping, SessionTypes
<1>3. \/ target[p] = Home(p)
      \/ target[p] = "workspace" /\ memory[p]["workspace"] \in Values
  BY <1>1, MemoryIs DEF Keeping, Aims
<1>4. /\ Aims(p)' /\ Account(p)' /\ Memory(p)' /\ \A f \in Files : FileKept(p, f)
      /\ \A f \in Accounts : settled'[f] = settled[f]
  <2>1. CASE target[p] = Home(p)
    <3>1. settled' = settled /\ file' = [file EXCEPT ![Home(p)] = cloud[p]]
      BY <1>1, <2>1 DEF Written, Write, Saved
    <3>2. \A f \in Files : f = Home(p) /\ settled[f] # Unknown => Holds(f)'
      BY <1>1, <2>1, <3>1 DEF Keeping, Account, Holds, Agrees, IsWhole, SessionTypes, Files
    <3>3. \A f \in Files : FileKept(p, f)
      BY <2>1, <3>1, <3>2 DEF FileKept, Opened, Keeping, SessionTypes
    <3>4. asked'[p] = asked[p]
      BY <1>1, <1>2, <2>1 DEF Keeping, SessionTypes, Accounts, Settings
    <3>5. Aims(p)' /\ Account(p)'
      BY <1>1, <1>2, <3>1, <3>4 DEF Aims, Account, Keeping
    <3>6. Memory(p)'
      BY <1>1, <1>2, <3>1, <3>4 DEF Memory, Keeping, Same
    <3> QED BY <3>1, <3>3, <3>5, <3>6
  <2>2. CASE target[p] = "workspace"
    <3>1. /\ settled' = [settled EXCEPT !["workspace"] =
                            IF alone[p] THEN memory[p]["workspace"] ELSE Unknown]
          /\ file' = [file EXCEPT !["workspace"] = memory[p]["workspace"]]
      BY <2>2 DEF Written, Write, Saved, Accounts
    <3>2. /\ settled'["workspace"] = (IF alone[p] THEN memory[p]["workspace"] ELSE Unknown)
          /\ file'["workspace"] = memory[p]["workspace"]
          /\ \A f \in Files \ {"workspace"} : settled'[f] = settled[f] /\ file'[f] = file[f]
      BY <3>1 DEF Keeping, SessionTypes, Files, Settings
    <3>3. settled'["workspace"] # Unknown => Holds("workspace")'
      BY <3>2 DEF Holds, Same, Accounts
    <3>4. \A f \in Files : FileKept(p, f)
      BY <2>2, <3>2, <3>3 DEF FileKept, Opened
    <3>5. Aims(p)'
      BY <1>1, <1>2 DEF Aims, Keeping
    <3>6. Account(p)' /\ \A f \in Accounts : settled'[f] = settled[f]
      BY <1>1, <1>2, <3>2 DEF Account, Keeping, Accounts, Files
    <3>7. Memory(p)'
      <4> SUFFICES ASSUME alone[p], NEW f \in Settings \ asked'[p], settled'[f] # Unknown
                   PROVE  Same(f, memory[p][f], settled'[f])
        BY <1>1, <1>2 DEF Memory, Same
      <4>1. CASE f = "workspace"
        BY <3>2, <4>1 DEF Same
      <4>2. CASE f # "workspace"
        BY <1>2, <2>2, <3>2, <4>2 DEF Keeping, Memory, Files
      <4> QED BY <4>1, <4>2
    <3> QED BY <3>4, <3>5, <3>6, <3>7
  <2> QED BY <1>3, <2>1, <2>2
<1>5. SessionTypes' /\ Apart(p)
  <2>1. Apart(p)
    BY <1>1, <1>2 DEF Apart
  <2>2. file' = [file EXCEPT ![target[p]] = IF target[p] \in Accounts THEN cloud[p] ELSE memory[p][target[p]]]
    BY DEF Written, Write
  <2>3. target[p] \in Accounts \/ (target[p] \in Settings /\ memory[p][target[p]] \in SettingsContents)
    BY <1>1, <1>3 DEF Settings, SettingsContents
  <2>4. /\ file' \in [Files -> AccountContents \cup SettingsContents]
        /\ \A f \in Accounts : file'[f] \in AccountContents
        /\ \A f \in Settings : file'[f] \in SettingsContents
    BY <2>2, <2>3 DEF Keeping, SessionTypes, AccountContents, Files, Accounts, Settings
  <2>5. /\ settled' \in [Files -> Users \cup {Nobody, Unknown} \cup Values]
        /\ \A f \in Settings : settled'[f] \in Values \cup {Unknown}
    <3>1. CASE target[p] = Home(p)
      BY <1>1, <3>1 DEF Written, Saved, Keeping, SessionTypes
    <3>2. CASE target[p] = "workspace" /\ memory[p]["workspace"] \in Values
      BY <3>2 DEF Written, Saved, Keeping, SessionTypes, Files, Accounts, Settings
    <3> QED BY <1>3, <3>1, <3>2
  <2>6. asked' \in [Procs -> SUBSET Settings]
    BY <1>1 DEF Keeping, SessionTypes
  <2> QED BY <1>1, <2>1, <2>4, <2>5, <2>6 DEF Keeping, SessionTypes, Files, Settings
<1> QED BY <1>1, <1>2, <1>4, <1>5, KeepingStep

\* The process loads what the files hold.
LEMMA KeepingStart ==
  ASSUME Keeping, NEW p \in Procs, Start(p)
  PROVE  Keeping'
<1>1. /\ pc[p] = "off" /\ pc' = [pc EXCEPT ![p] = "idle"]
      /\ cloud' = [cloud EXCEPT ![p] = Loaded] /\ global' = [global EXCEPT ![p] = (Source = "shared")]
      /\ memory' = [memory EXCEPT ![p] = LoadSettings]
      /\ alone' = [q \in Procs |-> q = p /\ \A r \in Procs : pc[r] = "off"]
      /\ asked' = [asked EXCEPT ![p] = {}]
      /\ UNCHANGED <<file, target, settled>>
  BY DEF Start
<1>2. Source \in Accounts /\ (IsWhole(file[Source]) => Loaded = file[Source])
      /\ (~ IsWhole(file[Source]) => Loaded = Of(Nobody))
  BY DEF Source, Loaded, Accounts
<1>3. SessionTypes'
  <2>1. Loaded \in Proper
    BY <1>2, ProperIs DEF Keeping, SessionTypes, AccountContents, IsWhole
  <2>2. LoadSettings \in [workspace : Values \cup {Absent}, settings : Values]
    BY SessionAssumption, SdkIs
       DEF LoadSettings, Keeping, SessionTypes, SettingsContents, IsWhole, Settings
  <2>3. (Source = "shared") \in BOOLEAN
    OBVIOUS
  <2> QED BY <1>1, <2>1, <2>2, <2>3 DEF Keeping, SessionTypes, AccountContents, SettingsContents
<1>4. /\ \A q \in Procs \ {p} : /\ pc'[q] = pc[q] /\ cloud'[q] = cloud[q] /\ global'[q] = global[q]
                                /\ memory'[q] = memory[q] /\ ~ alone'[q] /\ asked'[q] = asked[q]
      /\ pc'[p] = "idle" /\ cloud'[p] = Loaded /\ global'[p] = (Source = "shared")
      /\ memory'[p] = LoadSettings /\ asked'[p] = {}
      /\ alone'[p] => \A r \in Procs : pc[r] = "off"
  BY <1>1 DEF Keeping, SessionTypes
<1>5. Only'
  BY <1>4 DEF Only
<1>6. Kept'
  <2>1. \A q \in Procs, f \in Files : Opened(q, f) => Opened(q, f)'
    BY <1>1, <1>4 DEF Opened
  <2> QED BY <1>1, <2>1 DEF Keeping, Kept, Holds, Same
<1>7. ASSUME NEW q \in Procs \ {p} PROVE Aims(q)' /\ Account(q)' /\ Memory(q)'
  <2>1. Home(q)' = Home(q)
    BY <1>4 DEF Home
  <2> QED BY <1>1, <1>4, <2>1 DEF Keeping, Aims, Account, Memory, Same
<1>8. Aims(p)' /\ Account(p)' /\ Memory(p)'
  <2>1. Aims(p)'
    BY <1>4 DEF Aims
  <2>2. Account(p)'
    <3>1. Home(p)' = Source
      BY <1>2, <1>4 DEF Home, Destination, Accounts
    <3>2. ASSUME settled[Source] # Unknown, Loaded.refresh # Nobody
          PROVE  Loaded.uid = settled[Source]
      <4>1. IsWhole(file[Source]) /\ Loaded = file[Source] /\ Loaded # Of(Nobody)
        BY <1>2, <3>2, ProperIs
      <4>2. Agrees(file[Source], settled[Source])
        BY <1>2, <3>2, <4>1 DEF Keeping, Kept, Holds, Files, IsWhole
      <4> QED BY <4>1, <4>2 DEF Agrees, IsWhole
    <3> QED BY <1>1, <1>4, <3>1, <3>2 DEF Account
  <2>3. Memory(p)'
    <3> SUFFICES ASSUME alone'[p], NEW f \in Settings, settled[f] # Unknown
                 PROVE  Same(f, LoadSettings[f], settled[f])
      BY <1>1, <1>4 DEF Memory, Same
    <3>1. Same(f, file[f], settled[f]) /\ IsWhole(file[f]) /\ settled[f] \in Values
      <4>1. \A q \in Procs : ~ Opened(q, f)
        BY <1>4 DEF Opened
      <4>2. Holds(f) /\ settled[f] \in Values
        BY <4>1 DEF Keeping, Kept, SessionTypes, Files
      <4>3. Same(f, file[f], settled[f])
        BY <4>2 DEF Holds, Settings, Accounts
      <4> QED BY <4>2, <4>3, ProperIs, SdkIs
    <3>2. CASE f = "settings"
      BY <3>1, <3>2 DEF LoadSettings, Same
    <3>3. CASE f = "workspace"
      <4>1. LoadSettings[f] = WithSdk[file[f]]
        BY <3>1, <3>3 DEF LoadSettings
      <4> QED BY <3>1, <3>3, <4>1, SdkIs DEF Same
    <3> QED BY <3>2, <3>3 DEF Settings
  <2> QED BY <2>1, <2>2, <2>3
<1> QED BY <1>3, <1>5, <1>6, <1>7, <1>8 DEF Keeping

LEMMA KeepingStore ==
  ASSUME Keeping, NEW p \in Procs, pc[p] = "idle", NEW creds \in Proper, NEW local \in BOOLEAN,
         Store(p, creds, local)
  PROVE  Keeping'
<1> DEFINE f == Destination(local)
           made == IF alone[p] THEN creds.uid ELSE Unknown
<1>1. /\ cloud' = [cloud EXCEPT ![p] = creds] /\ global' = [global EXCEPT ![p] = ~ local]
      /\ file' = [file EXCEPT ![f] = Partial] /\ target' = [target EXCEPT ![p] = f]
      /\ pc' = [pc EXCEPT ![p] = "write"] /\ settled' = [settled EXCEPT ![f] = made]
      /\ UNCHANGED <<memory, alone, asked>>
  BY DEF Store, Open, Goes
<1>2. f \in Accounts /\ f \in Files /\ f \notin Settings /\ made \in Users \cup {Nobody, Unknown}
      /\ f # "settings"
  BY ProperIs DEF Destination, Accounts, Files, Settings
<1>3. SessionTypes'
  <2>1. /\ file' \in [Files -> AccountContents \cup SettingsContents]
        /\ \A g \in Accounts : file'[g] \in AccountContents
        /\ \A g \in Settings : file'[g] \in SettingsContents
    BY <1>1, <1>2 DEF Keeping, SessionTypes, AccountContents, SettingsContents, Files
  <2>2. /\ settled' \in [Files -> Users \cup {Nobody, Unknown} \cup Values]
        /\ \A g \in Settings : settled'[g] \in Values \cup {Unknown}
    BY <1>1, <1>2 DEF Keeping, SessionTypes, Files
  <2> QED BY <1>1, <1>2, <2>1, <2>2 DEF Keeping, SessionTypes
<1>4. /\ Apart(p) /\ pc'[p] = "write" /\ target'[p] = f /\ cloud'[p] = creds /\ global'[p] = ~ local
      /\ settled'[f] = made /\ file'[f] = Partial
      /\ \A g \in Files \ {f} : settled'[g] = settled[g] /\ file'[g] = file[g]
  BY <1>1, <1>2 DEF Apart, Keeping, SessionTypes
<1>5. \A g \in Files : FileKept(p, g)
  <2>1. ~ \E g \in Files : Opened(p, g)
    BY DEF Opened
  <2>2. file'[f] = Partial /\ Opened(p, f)'
    BY <1>4 DEF Opened, Destination
  <2> QED BY <1>4, <2>1, <2>2 DEF FileKept, Opened
<1>6. Home(p)' = f
  BY <1>4 DEF Home
<1>7. Aims(p)'
  BY <1>1, <1>4, <1>6 DEF Keeping, Aims
<1>8. Account(p)'
  <2>1. made # Unknown => Agrees(creds, made) /\ creds.uid = made
    BY ProperIs DEF Agrees, Proper
  <2> QED BY <1>4, <1>6, <2>1 DEF Account, Agrees, IsWhole
<1>9. Memory(p)'
  BY <1>1, <1>2, <1>4 DEF Keeping, Memory, Files
<1> QED BY <1>1, <1>3, <1>4, <1>5, <1>7, <1>8, <1>9, KeepingStep

LEMMA KeepingRefused ==
  ASSUME Keeping, NEW p \in Procs, LoginRefused(p)
  PROVE  Keeping'
<1>1. CASE p \notin Listeners
  BY <1>1, KeepingFails DEF LoginRefused
<1>2. CASE p \in Listeners
  <2>1. PICK u \in Users : cloud' = [cloud EXCEPT ![p] = Tried(p, u)]
    BY <1>2 DEF LoginRefused
  <2>2. /\ pc[p] = "idle"
        /\ UNCHANGED <<file, pc, target, global, memory, alone, asked, settled>>
    BY <1>2 DEF LoginRefused
  <2>3. Tried(p, u) \in Proper /\ Tried(p, u).refresh = Nobody
    <3>1. cloud[p] \in Credentials
      BY DEF Keeping, SessionTypes, Proper
    <3>2. /\ Tried(p, u) \in Credentials /\ Tried(p, u).uid = u
          /\ Tried(p, u).refresh = Nobody
      BY <3>1 DEF Tried, Credentials
    <3> QED BY <3>2, SessionAssumption DEF Proper
  <2>4. SessionTypes' /\ Apart(p) /\ cloud'[p].refresh = Nobody
    BY <2>1, <2>2, <2>3 DEF Keeping, SessionTypes, Apart, AccountContents, SettingsContents
  <2>5. \A f \in Files : FileKept(p, f)
    BY <2>2 DEF FileKept, Opened
  <2>6. Aims(p)' /\ Account(p)' /\ Memory(p)'
    BY <2>2, <2>4 DEF Keeping, Aims, Account, Memory, Home, Destination
  <2> QED BY <2>2, <2>4, <2>5, <2>6, KeepingStep DEF Files
<1> QED BY <1>1, <1>2

LEMMA KeepingLogout ==
  ASSUME Keeping, NEW p \in Procs, Logout(p)
  PROVE  Keeping'
<1> DEFINE f == Home(p)
           made == IF alone[p] THEN Nobody ELSE Unknown
<1>1. /\ pc[p] = "idle" /\ file' = [file EXCEPT ![f] = Absent]
      /\ settled' = [settled EXCEPT ![f] = made]
      /\ cloud' = [cloud EXCEPT ![p] = Of(Nobody)] /\ global' = [global EXCEPT ![p] = FALSE]
      /\ UNCHANGED <<pc, target, memory, alone, asked>>
  BY DEF Logout, Home
<1>2. f \in Accounts /\ f \in Files /\ f \notin Settings
  BY DEF Home, Destination, Accounts, Files, Settings
<1>3. SessionTypes'
  <2>1. /\ file' \in [Files -> AccountContents \cup SettingsContents]
        /\ \A g \in Accounts : file'[g] \in AccountContents
        /\ \A g \in Settings : file'[g] \in SettingsContents
    BY <1>1, <1>2 DEF Keeping, SessionTypes, AccountContents, SettingsContents, Files
  <2>2. /\ settled' \in [Files -> Users \cup {Nobody, Unknown} \cup Values]
        /\ \A g \in Settings : settled'[g] \in Values \cup {Unknown}
    BY <1>1, <1>2 DEF Keeping, SessionTypes, Files
  <2> QED BY <1>1, <2>1, <2>2, ProperIs DEF Keeping, SessionTypes
<1>4. /\ Apart(p) /\ cloud'[p] = Of(Nobody) /\ pc'[p] = "idle"
      /\ \A g \in Files : settled'[g] = (IF g = f THEN made ELSE settled[g])
                          /\ file'[g] = (IF g = f THEN Absent ELSE file[g])
  BY <1>1, <1>2 DEF Apart, Keeping, SessionTypes
<1>5. \A g \in Files : FileKept(p, g)
  <2>1. \A g \in Files : ~ Opened(p, g)
    BY <1>1 DEF Opened
  <2>2. \A g \in Files : g = f /\ made # Unknown => Holds(g)'
    BY <1>2, <1>4 DEF Holds, Agrees
  <2> QED BY <1>4, <2>1, <2>2 DEF FileKept
<1>6. Aims(p)' /\ Account(p)'
  BY <1>1, <1>4, ProperIs DEF Keeping, Aims, Account
<1>7. Memory(p)'
  BY <1>1, <1>2, <1>4 DEF Keeping, Memory, Files
<1>8. alone[p] \/ \A g \in Accounts : settled'[g] \in {settled[g], Unknown}
  BY <1>4 DEF Files
<1> QED BY <1>1, <1>3, <1>4, <1>5, <1>6, <1>7, <1>8, KeepingStep

LEMMA KeepingRefresh ==
  ASSUME Keeping, NEW p \in Procs, Refresh(p)
  PROVE  Keeping'
<1>1. /\ pc[p] = "idle" /\ cloud' = [cloud EXCEPT ![p] = Of(cloud[p].uid)]
      /\ cloud[p].refresh # Nobody /\ cloud[p].refresh = cloud[p].uid
      /\ UNCHANGED <<file, pc, target, global, memory, alone, asked, settled>>
  BY DEF Refresh, Refreshes
<1>2. Of(cloud[p].uid) \in Proper /\ Of(cloud[p].uid).uid = cloud[p].uid
  BY ProperIs DEF Keeping, SessionTypes
<1>3. SessionTypes' /\ Apart(p) /\ cloud'[p].uid = cloud[p].uid
  BY <1>1, <1>2 DEF Keeping, SessionTypes, Apart, AccountContents, SettingsContents
<1>4. \A f \in Files : FileKept(p, f)
  BY <1>1 DEF FileKept, Opened
<1>5. Aims(p)' /\ Account(p)' /\ Memory(p)'
  BY <1>1, <1>3 DEF Keeping, Aims, Account, Memory, Home, Destination
<1> QED BY <1>1, <1>3, <1>4, <1>5, KeepingStep DEF Files

LEMMA KeepingRefreshOld ==
  ASSUME Keeping, NEW p \in Procs, RefreshOld(p)
  PROVE  Keeping'
<1> DEFINE f == Home(p)
<1>1. /\ pc[p] = "idle" /\ cloud' = [cloud EXCEPT ![p] = Of(cloud[p].uid)]
      /\ cloud[p].refresh # Nobody /\ cloud[p].refresh = cloud[p].uid
      /\ file' = [file EXCEPT ![f] = Partial] /\ target' = [target EXCEPT ![p] = f]
      /\ pc' = [pc EXCEPT ![p] = "write"]
      /\ UNCHANGED <<global, memory, alone, asked, settled>>
  BY DEF RefreshOld, Refreshes, Open, Goes, Home
<1>2. /\ Of(cloud[p].uid) \in Proper /\ Of(cloud[p].uid).uid = cloud[p].uid
      /\ IsWhole(Of(cloud[p].uid))
  BY ProperIs DEF Keeping, SessionTypes
<1>3. f \in Accounts /\ f \in Files /\ f \notin Settings /\ f # "settings" /\ Home(p)' = f
  BY <1>1 DEF Home, Destination, Accounts, Files, Settings
<1>4. SessionTypes'
  <2>1. /\ file' \in [Files -> AccountContents \cup SettingsContents]
        /\ \A g \in Accounts : file'[g] \in AccountContents
        /\ \A g \in Settings : file'[g] \in SettingsContents
    BY <1>1, <1>3 DEF Keeping, SessionTypes, AccountContents, SettingsContents, Files
  <2> QED BY <1>1, <1>2, <1>3, <2>1 DEF Keeping, SessionTypes
<1>5. /\ Apart(p) /\ pc'[p] = "write" /\ target'[p] = f /\ cloud'[p] = Of(cloud[p].uid)
      /\ file'[f] = Partial /\ \A g \in Files \ {f} : file'[g] = file[g]
  BY <1>1, <1>3 DEF Apart, Keeping, SessionTypes
<1>6. \A g \in Files : FileKept(p, g)
  <2>1. \A g \in Files : ~ Opened(p, g)
    BY <1>1 DEF Opened
  <2>2. \A g \in Files : g = f => Opened(p, g)'
    BY <1>5 DEF Opened
  <2> QED BY <1>1, <1>5, <2>1, <2>2 DEF FileKept
<1>7. Aims(p)'
  BY <1>1, <1>3, <1>5 DEF Keeping, Aims
<1>8. Account(p)'
  <2>1. settled[f] # Unknown => cloud[p].uid = settled[f]
    BY <1>1 DEF Keeping, Account
  <2> QED BY <1>1, <1>2, <1>3, <1>5, <2>1 DEF Account, Agrees, IsWhole
<1>9. Memory(p)'
  BY <1>1, <1>3, <1>5 DEF Keeping, Memory, Files
<1> QED BY <1>1, <1>4, <1>5, <1>6, <1>7, <1>8, <1>9, KeepingStep DEF Files

LEMMA KeepingSet ==
  ASSUME Keeping, NEW p \in Procs, Set(p)
  PROVE  Keeping'
<1>1. PICK f \in Settings, v \in Values :
        /\ memory[p][f] \notin {Absent, v}
        /\ memory' = [memory EXCEPT ![p][f] = v]
        /\ asked' = [asked EXCEPT ![p] = @ \cup {f}]
  BY DEF Set
<1>2. /\ pc[p] = "idle"
      /\ UNCHANGED <<file, pc, target, cloud, global, alone, settled>>
  BY DEF Set
<1>3. /\ memory'[p] \in [workspace : Values \cup {Absent}, settings : Values]
      /\ \A g \in Settings \ {f} : memory'[p][g] = memory[p][g]
      /\ f = "workspace" => memory'[p].workspace = v
      /\ f = "settings" => memory'[p].workspace = memory[p].workspace
      /\ memory' = [memory EXCEPT ![p] = memory'[p]]
  BY <1>1 DEF Keeping, SessionTypes, Settings
<1>4. asked'[p] = asked[p] \cup {f}
  BY <1>1 DEF Keeping, SessionTypes
<1>5. SessionTypes' /\ Apart(p)
  BY <1>1, <1>2, <1>3, <1>4 DEF Keeping, SessionTypes, Apart, AccountContents, SettingsContents
<1>6. \A g \in Files : FileKept(p, g)
  BY <1>2 DEF FileKept, Opened
<1>7. Aims(p)'
  <2>1. v # Absent
    BY SessionAssumption
  <2> QED BY <1>2, <1>3, <1>4, <2>1 DEF Keeping, Aims, Settings
<1>8. Account(p)' /\ Memory(p)'
  BY <1>2, <1>3, <1>4 DEF Keeping, Account, Memory, Home, Destination, Same
<1> QED BY <1>2, <1>5, <1>6, <1>7, <1>8, KeepingStep DEF Files

LEMMA KeepingSaves ==
  ASSUME Keeping, NEW p \in Procs, NEW v \in Values, pc[p] = "idle", Saves(p, v)
  PROVE  Keeping'
<1>1. /\ pc[p] = "idle"
      /\ memory' = [memory EXCEPT ![p].workspace = v]
      /\ asked' = [asked EXCEPT ![p] = @ \cup {"workspace"}]
      /\ file' = [file EXCEPT !["workspace"] = Partial]
      /\ target' = [target EXCEPT ![p] = "workspace"]
      /\ pc' = [pc EXCEPT ![p] = "write"]
      /\ UNCHANGED <<cloud, global, alone, settled>>
  BY DEF Saves, Open, Goes
<1>2. /\ memory'[p] \in [workspace : Values \cup {Absent}, settings : Values]
      /\ memory'[p]["settings"] = memory[p]["settings"]
      /\ memory'[p].workspace = v /\ v # Absent
      /\ memory' = [memory EXCEPT ![p] = memory'[p]]
  BY <1>1, SessionAssumption DEF Keeping, SessionTypes
<1>3. /\ pc'[p] = "write" /\ target'[p] = "workspace" /\ file'["workspace"] = Partial
      /\ asked'[p] = asked[p] \cup {"workspace"}
      /\ \A g \in Files \ {"workspace"} : file'[g] = file[g]
  BY <1>1 DEF Keeping, SessionTypes, Files, Settings
<1>4. SessionTypes' /\ Apart(p)
  <2>1. /\ file' \in [Files -> AccountContents \cup SettingsContents]
        /\ \A g \in Accounts : file'[g] \in AccountContents
        /\ \A g \in Settings : file'[g] \in SettingsContents
    BY <1>1 DEF Keeping, SessionTypes, AccountContents, SettingsContents, Files, Accounts
  <2>2. "workspace" \in Files /\ "workspace" \in Settings
    BY DEF Files, Settings
  <2> QED BY <1>1, <1>2, <1>3, <2>1, <2>2 DEF Keeping, SessionTypes, Apart
<1>5. \A g \in Files : FileKept(p, g)
  BY <1>1, <1>3 DEF FileKept, Opened
<1>6. Aims(p)' /\ Account(p)'
  BY <1>1, <1>2, <1>3 DEF Keeping, Aims, Account, Home, Destination
<1>7. Memory(p)'
  BY <1>1, <1>2, <1>3 DEF Keeping, Memory, Settings, Same
<1> QED BY <1>1, <1>4, <1>5, <1>6, <1>7, KeepingStep DEF Files

LEMMA KeepingCommand ==
  ASSUME Keeping, NEW p \in Procs, Command(p)
  PROVE  Keeping'
<1>1. CASE Login(p)
  <2>1. PICK u \in Users, local \in BOOLEAN : Store(p, Of(u), local)
    BY <1>1 DEF Login
  <2> QED BY <1>1, <2>1, ProperIs, KeepingStore DEF Login
<1>2. CASE LoginBrowser(p)
  <2>1. PICK local \in BOOLEAN : Store(p, cloud[p], local)
    BY <1>2 DEF LoginBrowser
  <2> QED BY <1>2, <2>1, KeepingStore DEF LoginBrowser, Keeping, SessionTypes
<1>3. CASE Fails(p)
  BY <1>3, KeepingFails DEF Fails
<1>4. CASE Initialize(p) \/ SaveWorkspace(p)
  BY <1>4, SessionAssumption, KeepingSaves DEF Initialize, SaveWorkspace
<1> QED BY <1>1, <1>2, <1>3, <1>4, KeepingRefused, KeepingLogout, KeepingRefresh,
           KeepingRefreshOld, KeepingSet DEF Command

LEMMA KeepingProcess ==
  ASSUME Keeping, NEW p \in Procs, Process(p)
  PROVE  Keeping'
<1>1. CASE FinalizeError(p)
  BY <1>1, KeepingFails DEF FinalizeError
<1> QED BY <1>1, KeepingStart, KeepingWritten, KeepingCrash, KeepingFinalize,
           KeepingFinalizeSettings, KeepingFinalizeWorkspace, KeepingEnd DEF Process

LEMMA PcOf ==
  ASSUME pc \in [Procs -> {"off", "idle", "write", "settings", "between", "workspace"}],
         NEW p \in Procs, Process(p) \/ Command(p)
  PROVE  \A q \in Procs \ {p} : pc'[q] = pc[q]
<1>1. (\E s : Goes(p, s)) \/ UNCHANGED pc
  <2>1. CASE Process(p)
    BY <2>1 DEF Process, Start, Written, Crash, Finalize, FinalizeSettings, FinalizeWorkspace, End,
                FinalizeError, Gone, Goes
  <2>2. CASE Command(p)
    BY <2>2 DEF Command, Login, LoginBrowser, LoginRefused, Fails, Logout, Refresh, RefreshOld, Set,
                Initialize, SaveWorkspace, Saves, Store, Gone, Goes
  <2> QED BY <2>1, <2>2
<1> QED BY <1>1 DEF Goes

LEMMA KeepingNext ==
  ASSUME Keeping, Busy, WorkTypes', Next
  PROVE  Keeping' /\ Busy'
<1> PICK p \in Procs : Session(p) \/ Request(p) \/ Progress(p)
  BY DEF Next
<1>1. CASE Session(p)
  <2>1. Process(p) \/ Command(p)
    BY <1>1 DEF Session, Counted, Process
  <2>2. work'[p] = None /\ \A q \in Procs \ {p} : work'[q] = work[q]
    BY <1>1 DEF Session, documentVars, Done, Works, Busy, WorkTypes
  <2>3. Busy'
    BY <2>1, <2>2, PcOf DEF Busy, Keeping, SessionTypes
  <2> QED BY <2>1, <2>3, KeepingProcess, KeepingCommand
<1>2. CASE Request(p)
  <2>1. Stays /\ pc[p] = "idle"
    BY <1>2, RequestStays
  <2>2. \A q \in Procs \ {p} : work'[q] = work[q]
    BY <1>2 DEF Request, UpdateMember, RemoveBuild, RemoveProject, Publish, AddMember,
                PublishKey, RemoveKey, Sign, Strip, Reads, Begins, Works, Busy, WorkTypes
  <2> QED BY <2>1, <2>2, KeepingStays DEF Stays, Busy
<1>3. CASE Progress(p)
  <2>1. work[p] # None /\ pc[p] = "idle"
    BY <1>3 DEF Progress, StoreBuild, SaveProject, SaveMember, Answered, DeleteBuild, DeleteProject,
                Export, Opens, Copies, Appends, Signed, Strips, Stripped, Failed, At, Busy
  <2>2. \A q \in Procs \ {p} : work'[q] = work[q]
    BY <1>3 DEF Progress, StoreBuild, SaveProject, SaveMember, Answered, DeleteBuild, DeleteProject,
                Export, Opens, Copies, Appends, Signed, Strips, Stripped, Reported, Failed, Done,
                GoesOn, Works, Busy, WorkTypes
  <2>3. CASE Stays
    BY <2>1, <2>2, <2>3, KeepingStays DEF Stays, Busy
  <2>4. CASE ~ Stays
    <3>1. Gone(p) /\ Done(p) /\ UNCHANGED <<file, target, settled>>
      BY <1>3, <2>4, ProgressStays DEF Failed
    <3>2. work'[p] = None /\ \A q \in Procs \ {p} : pc'[q] = pc[q]
      BY <3>1 DEF Done, Works, Gone, Goes, Busy, WorkTypes, Keeping, SessionTypes
    <3> QED BY <2>1, <2>2, <3>1, <3>2, KeepingFails DEF Busy
  <2> QED BY <2>3, <2>4
<1> QED BY <1>1, <1>2, <1>3

-----------------------------------------------------------------------------
(***************************************************************************)
(* Updates.                                                                *)
(***************************************************************************)
LEMMA UpdatingKept ==
  ASSUME Updating, UNCHANGED <<member, expected, raced>>,
         \A q \in Procs : work'[q] # None =>
           \/ work[q] # None /\ work'[q] = work[q]
           \/ Faithful(work'[q])
  PROVE  Updating'
<1>1. \A q \in Procs : work'[q] # None => Faithful(work'[q])
  BY DEF Updating
<1> QED BY <1>1 DEF Updating, UpdatesKept, Faithful

LEMMA UpdatingRequest ==
  ASSUME Updating, WorkTypes, NEW p \in Procs, Request(p), ~ AddMember(p)
  PROVE  Updating'
<1>1. CASE PublishKey(p) \/ RemoveKey(p)
  BY <1>1, UpdatingKept DEF PublishKey, RemoveKey
<1>2. CASE ~ (PublishKey(p) \/ RemoveKey(p))
  <2>1. PICK w : Works(p, w) /\ Faithful(w) /\ UNCHANGED serviceVars
    <3>1. CASE UpdateMember(p)
      BY <3>1 DEF UpdateMember, Reads, Faithful
    <3>2. CASE RemoveBuild(p) \/ RemoveProject(p) \/ Publish(p)
      BY <3>2 DEF RemoveBuild, RemoveProject, Publish, Reads, Faithful
    <3>3. CASE Sign(p) \/ Strip(p)
      BY <3>3 DEF Sign, Strip, Begins, Faithful
    <3> QED BY <1>2, <3>1, <3>2, <3>3 DEF Request
  <2>2. \A q \in Procs : work'[q] = IF q = p THEN w ELSE work[q]
    BY <2>1 DEF Works, WorkTypes
  <2> QED BY <2>1, <2>2, UpdatingKept DEF serviceVars
<1> QED BY <1>1, <1>2

\* What is left of a command that goes on.
LEMMA UpdatingWork ==
  ASSUME Updating, WorkTypes, NEW p \in Procs, Progress(p)
  PROVE  \A q \in Procs : work'[q] # None => Faithful(work'[q])
<1>1. work[p] # None /\ Faithful(work[p])
  BY DEF Progress, StoreBuild, SaveProject, SaveMember, Answered, DeleteBuild, DeleteProject,
         Export, Opens, Copies, Appends, Signed, Strips, Stripped, Failed, At, Updating
<1>2. \/ Done(p) \/ UNCHANGED work \/ (\E at : GoesOn(p, at))
      \/ work[p].op = "remove" /\ \E build : work' = [work EXCEPT ![p].copy = @ \ {build}]
  BY DEF Progress, StoreBuild, SaveProject, SaveMember, Answered, DeleteBuild, DeleteProject,
         Export, Opens, Copies, Appends, Signed, Strips, Stripped, Reported, Failed, At
<1>3. CASE Done(p) \/ UNCHANGED work
  BY <1>3 DEF Updating, Done, Works, WorkTypes
<1>4. CASE \E at : GoesOn(p, at)
  <2>1. PICK at : work' = [work EXCEPT ![p].at = at]
    BY <1>4 DEF GoesOn
  <2>2. \A q \in Procs \ {p} : work'[q] = work[q]
    BY <2>1 DEF WorkTypes
  <2>3. work'[p] = [work[p] EXCEPT !.at = at]
    BY <2>1 DEF WorkTypes
  <2>4. Faithful(work'[p])
    <3>1. CASE work[p] \in ListWork
      BY <1>1, <2>3, <3>1 DEF Faithful, ListWork
    <3>2. CASE work[p] \in FileWork
      BY <2>3, <3>2 DEF Faithful, FileWork
    <3> QED BY <1>1, <3>1, <3>2 DEF WorkTypes
  <2> QED BY <2>2, <2>4 DEF Updating
<1>5. CASE work[p].op = "remove" /\ \E build : work' = [work EXCEPT ![p].copy = @ \ {build}]
  <2>1. work[p] \in ListWork
    BY <1>1, <1>5, WorkOf
  <2>2. PICK build : work' = [work EXCEPT ![p].copy = @ \ {build}]
    BY <1>5
  <2>3. work'[p] = [work[p] EXCEPT !.copy = @ \ {build}] /\ \A q \in Procs \ {p} : work'[q] = work[q]
    BY <2>2 DEF WorkTypes
  <2>4. Faithful(work'[p])
    BY <1>5, <2>1, <2>3 DEF Faithful, ListWork
  <2> QED BY <2>3, <2>4 DEF Updating
<1> QED BY <1>2, <1>3, <1>4, <1>5

LEMMA UpdatingProgress ==
  ASSUME Updating, Listing, NEW p \in Procs, Progress(p)
  PROVE  Updating'
<1>1. \A q \in Procs : work'[q] # None => Faithful(work'[q])
  BY UpdatingWork DEF Listing
<1>2. CASE SaveMember(p)
  <2>1. /\ work[p] # None /\ work[p].op \in {"grant", "withdraw"} /\ Faithful(work[p])
        /\ member' = work[p].copy
        /\ raced' = (raced \/ member # work[p].seen)
        /\ expected' = IF raced' THEN {}
                       ELSE IF work[p].op = "grant" THEN expected \cup {work[p].item}
                       ELSE expected \ {work[p].item}
    BY <1>2 DEF SaveMember, At, Updating
  <2>2. raced' \in BOOLEAN
    BY <2>1 DEF Updating
  <2>3. ASSUME ~ raced' PROVE member' = expected'
    <3>1. ~ raced /\ member = work[p].seen /\ member = expected
      BY <2>1, <2>3 DEF Updating, UpdatesKept
    <3> QED BY <2>1, <2>3, <3>1 DEF Faithful
  <2> QED BY <1>1, <2>2, <2>3 DEF Updating, UpdatesKept, Faithful
<1>3. CASE ~ SaveMember(p)
  <2>1. UNCHANGED <<member, expected, raced>>
    BY <1>3 DEF Progress, StoreBuild, SaveProject, Answered, DeleteBuild, DeleteProject, Export,
                Opens, Copies, Appends, Signed, Strips, Stripped, Reported, Writes, Failed, serviceVars
  <2> QED BY <1>1, <2>1, UpdatingKept
<1> QED BY <1>2, <1>3

LEMMA UpdatingStep ==
  ASSUME Updating, Listing, Next
  PROVE  Updating'
<1> PICK p \in Procs : Session(p) \/ Request(p) \/ Progress(p)
  BY DEF Next
<1>1. CASE Session(p)
  <2>1. /\ UNCHANGED serviceVars
        /\ \A q \in Procs : work'[q] # None => work[q] # None /\ work'[q] = work[q]
    BY <1>1 DEF Session, documentVars, Done, Works, Listing, WorkTypes
  <2> QED BY <2>1, UpdatingKept DEF serviceVars
<1>2. CASE AddMember(p)
  <2>1. PICK rights \in SUBSET Items :
          /\ member' = rights /\ expected' = rights /\ raced' = FALSE
          /\ Works(p, [op |-> "add", at |-> "answer", item |-> None, copy |-> rights,
                       exports |-> FALSE, seen |-> {}])
    BY <1>2 DEF AddMember
  <2>2. \A q \in Procs : work'[q] # None => Faithful(work'[q])
    BY <2>1 DEF Works, Listing, WorkTypes, Updating, Faithful
  <2> QED BY <2>1, <2>2 DEF Updating, UpdatesKept, Faithful
<1> QED BY <1>1, <1>2, UpdatingRequest, UpdatingProgress DEF Listing

-----------------------------------------------------------------------------
LEMMA NextInv == IInv /\ [Next]_<<vars, documentVars>> => IInv'
<1> SUFFICES ASSUME IInv, [Next]_<<vars, documentVars>> PROVE IInv'
  OBVIOUS
<1>1. CASE UNCHANGED <<vars, documentVars>>
  <2>1. Identity'
    BY <1>1, IdentityStays DEF vars, sessionVars, historyVars, IInv
  <2>2. UNCHANGED serviceVars /\ UNCHANGED <<work, host, intact, steady, keys>>
    BY <1>1 DEF documentVars, serviceVars, hostVars
  <2>3. WorkTypes'
    BY <2>2 DEF IInv, Listing, WorkTypes
  <2>4. Listing'
    BY <2>2, <2>3, ListingKept DEF IInv
  <2>5. Signing'
    BY <2>2, <2>3 DEF IInv, Signing, Steady, Present
  <2>6. Keeping' /\ Busy'
    BY <1>1, <2>2, <2>3, KeepingStays DEF IInv, vars, sessionVars, historyVars, Busy
  <2>7. Updating'
    BY <2>2, UpdatingKept DEF IInv, serviceVars
  <2> QED BY <2>1, <2>4, <2>5, <2>6, <2>7 DEF IInv
<1>2. CASE Next
  <2>1. Identity'
    BY <1>2, IdentityStep DEF IInv
  <2>2. PICK p \in Procs : Session(p) \/ Request(p) \/ Progress(p)
    BY <1>2 DEF Next
  <2>3. Listing' /\ Signing'
    <3>1. CASE Session(p) \/ Failed(p)
      BY <3>1, SessionStep DEF IInv
    <3>2. CASE Request(p)
      BY <3>2, ListRequests, AddMemberStep, KeyStep, FileRequests DEF Request, IInv
    <3>3. CASE Progress(p) /\ ~ Failed(p)
      BY <3>3, StoreBuildStep, SaveStep, DeleteStep, ExportStep, CopyStep, AppendsStep, StripsStep,
         ReportedStep DEF Progress, IInv
    <3> QED BY <2>2, <3>1, <3>2, <3>3
  <2>4. Keeping' /\ Busy'
    BY <1>2, <2>3, KeepingNext DEF IInv, Listing
  <2>5. Updating'
    BY <1>2, UpdatingStep DEF IInv
  <2> QED BY <2>1, <2>3, <2>4, <2>5 DEF IInv
<1> QED BY <1>1, <1>2

LEMMA Inductive == Spec => []IInv
<1> QED BY InitInv, NextInv, PTL DEF Spec

(***************************************************************************)
(* The credentials in a file are one user's (Cloud.cpp:72-178,             *)
(* App.cpp:162-193), but for a listener that went on after a token that    *)
(* was refused.                                                            *)
(***************************************************************************)
THEOREM OneUser == Spec => []OneIdentity
<1>1. IInv => OneIdentity
  BY DEF IInv, Identity, OneIdentity, Pure
<1> QED BY <1>1, Inductive, PTL

(***************************************************************************)
(* A project lists builds that have been stored (Connector.cpp:308-320     *)
(* stores a build before the project that lists it).                       *)
(***************************************************************************)
THEOREM Stored == Spec => []ListedStored
<1>1. IInv => ListedStored
  BY DEF IInv, Listing
<1> QED BY <1>1, Inductive, PTL

(***************************************************************************)
(* A file that keys.sign or a strip made of an intact one has as many good *)
(* signatures as suffixes, whatever else is done to other files, and       *)
(* however often it is interrupted (KeysGroup.cpp:328-391, 405-566).       *)
(***************************************************************************)
THEOREM Signatures == Spec => []SignaturesCounted
<1>1. IInv => SignaturesCounted
  BY DocumentsAssumption DEF IInv, Signing, SignaturesCounted, Sound
<1> QED BY <1>1, Inductive, PTL

(***************************************************************************)
(* A login or a logout lasts until the next (Cloud.cpp:72-178, the refresh *)
(* of App.cpp:162-193).                                                    *)
(***************************************************************************)
THEOREM AccountLasts == Spec => []AccountKept
<1>1. IInv => AccountKept
  <2> SUFFICES ASSUME IInv, NEW f \in Accounts, settled[f] # Unknown, ~ Writing(f)
               PROVE  Agrees(file[f], settled[f])
    BY DEF AccountKept, Agrees
  <2> QED BY DEF IInv, Keeping, Kept, Holds, Opened, Writing, Files
<1> QED BY <1>1, Inductive, PTL

(***************************************************************************)
(* A setting reported as set is in its file once a command has saved it    *)
(* (WorkspaceSettings.hpp:72-80, Cloud.cpp:446, 474-475) or the process    *)
(* has ended in order (App.cpp:192-207), and a later lone process adds no  *)
(* more than an SDK directory (WorkspaceSettings.cpp:14-21).               *)
(***************************************************************************)
THEOREM SettingsLast == Spec => []SettingsKept
<1>1. IInv => SettingsKept
  <2> SUFFICES ASSUME IInv, NEW f \in Settings, settled[f] # Unknown, ~ Writing(f)
               PROVE  Same(f, file[f], settled[f])
    BY DEF SettingsKept, Same
  <2>1. f \notin Accounts
    BY DEF Settings, Accounts
  <2> QED BY <2>1 DEF IInv, Keeping, Kept, Holds, Opened, Writing, Files
<1> QED BY <1>1, Inductive, PTL

(***************************************************************************)
(* The rights of a member are what the updates that the service carried    *)
(* out make of them, reported or not, unless two of them overlapped        *)
(* (TeamGroup.cpp:145-180).                                                *)
(***************************************************************************)
THEOREM UpdatesLast == Spec => []UpdatesKept
<1>1. IInv => UpdatesKept
  BY DEF IInv, Updating
<1> QED BY <1>1, Inductive, PTL
=============================================================================
