------------------------------ MODULE Documents ------------------------------
(***************************************************************************)
(* What the sl processes of a workspace do to the documents of the cloud   *)
(* service: team.add and team.update, a project with its builds            *)
(* (Connector::publish_project(), cloud.remove), and the keys with which   *)
(* keys.sign and keys.verify treat files of the host.                      *)
(*                                                                         *)
(* The service (external) reads and writes one document at a time.  Nobody *)
(* locks anything: an update reads a document, changes the copy and writes *)
(* the copy back.  Of a document only its entries count: rights of the     *)
(* member, builds.  Any call may fail, before or after the service has     *)
(* carried it out; the error stays pending and the rest of the command     *)
(* does nothing.                                                           *)
(***************************************************************************)
EXTENDS Session, SequencesExt

CONSTANTS
  Items,  \* entries of documents
  Keys,
  None,   \* no command
  Depth,  \* bound: how often a file is signed
  MaxRequests, \* bound: commands of Documents that all of the processes run
  MaxMixed     \* bound: commands of both kinds, if there are both

\* A file, which may be cut short, and the signatures appended to it.  A good one
\* is of all that is before it; a cut file does not end in one by accident, and
\* two signatures of the same with one key are not told apart.
Contents == [cut : BOOLEAN, marks : Seq([key : Keys, good : BOOLEAN])]

\* The commands, and how far they are.
FileWork == [op : {"sign", "strip"}, at : {"copy", "fill", "append", "verify"},
             from : 0..Depth, to : 0..Depth, hashed : Contents, key : Keys]

ListWork == [op : {"grant", "withdraw", "add", "publish", "unlist", "remove"},
             at : {"store", "save", "answer", "export"}, item : Items \cup {None},
             copy : SUBSET Items, exports : BOOLEAN, seen : SUBSET Items]

ASSUME DocumentsAssumption ==
  /\ Depth \in Nat \ {0} /\ MaxRequests \in Nat /\ MaxMixed \in Nat
  /\ Absent \notin Contents /\ None \notin FileWork

VARIABLES
  member,       \* the rights of the member
  project,      \* the builds that the project lists, if it exists
  builds,       \* the builds that are stored
  projectFile,  \* the builds in the project's settings file of the workspace
  keys,         \* the key documents
  host,         \* the files <name>, <name>.signed, <name>.signed.signed, ...
  work,         \* the command that a process executes
  gone,         \* history: builds that cloud.remove deleted
  expected,     \* history: what the updates that the service carried out amount
                \* to, one after the other
  raced,        \* history: a copy that was not up to date has been written
                \* since the last team.add
  intact,       \* history: the files that a command reported, or that were there,
                \* and that nobody has written since
  steady,       \* history: processes that work on an intact file, undisturbed
  requests      \* history: how many commands of this module have been run

serviceVars == <<member, project, builds, projectFile, keys, gone, expected, raced>>
hostVars == <<host, intact, steady>>
documentVars == <<serviceVars, hostVars, work, requests>>

Half == [cut |-> TRUE, marks |-> <<>>]
Unsigned == [cut |-> FALSE, marks |-> <<>>]

\* The member is on the team, the keys have been published.
DocumentsInit ==
  /\ Init
  /\ member = {} /\ project = Absent /\ builds = {} /\ projectFile = {}
  /\ keys = Keys
  /\ host = [n \in 0..Depth |-> IF n = 0 THEN Unsigned ELSE Absent]
  /\ work = [p \in Procs |-> None]
  /\ gone = {} /\ expected = {} /\ raced = FALSE
  /\ intact = {0} /\ steady = {} /\ requests = 0

-----------------------------------------------------------------------------
Stays == UNCHANGED <<file, pc, target, cloud, loggedIn, global, memory, alone,
                     asked, settled, mixed>>

Ready(p) == CloudReady(p) /\ InWorkspace(p) /\ work[p] = None

Works(p, w) == work' = [work EXCEPT ![p] = w]

\* A command ends, or goes on at another call.
Done(p) == Works(p, None)
GoesOn(p, at) == work' = [work EXCEPT ![p].at = at]

\* A call of the command fails.  One that is at "answer" has had its effect.
Failed(p) ==
  /\ work[p] # None
  /\ Done(p)
  /\ IF p \in Listeners THEN Stays ELSE Gone(p) /\ UNCHANGED <<file, target, settled, mixed>>
  /\ steady' = steady \ {p}
  /\ UNCHANGED <<serviceVars, host, intact>>

-----------------------------------------------------------------------------
\* Reading.

Reads(p, o, at, item, copy, exports, seen) ==
  /\ Ready(p)
  /\ Works(p, [op |-> o, at |-> at, item |-> item, copy |-> copy,
               exports |-> exports, seen |-> seen])
  /\ Stays /\ UNCHANGED <<serviceVars, hostVars>>

\* Mutant of UpdateMember: the rights are not read.
UpdateMemberAfresh(p) ==
  \E right \in Items : Reads(p, "grant", "save", right, {right}, FALSE, member)

\* team.update; with dryrun it ends here.
UpdateMember(p) ==
  \E right \in Items :
    \/ Reads(p, "grant", "save", right, member \cup {right}, FALSE, member)
    \/ Reads(p, "withdraw", "save", right, member \ {right}, FALSE, member)

\* cloud.remove of a build, which is taken from the list and not deleted.
RemoveBuild(p) ==
  /\ project # Absent
  /\ \E build \in builds :
       Reads(p, "unlist", "save", build, project \ {build}, FALSE, project)

\* cloud.remove of a project; its settings file is kept in step if a path is
\* given.
RemoveProject(p) ==
  /\ project # Absent
  /\ \E path \in BOOLEAN : Reads(p, "remove", "store", None, project, path, project)

\* Connector::publish_project() goes by the settings file of the workspace,
\* and with dryrun only leaves it as it is.  Each publication makes a build.
Publish(p) ==
  /\ projectFile # Partial
  /\ \E build \in Items \ (builds \cup gone), dryrun \in BOOLEAN :
       Reads(p, "publish", "store", build, projectFile \cup {build}, ~ dryrun, {})

-----------------------------------------------------------------------------
\* Writing.

At(p, ops, at) == work[p] # None /\ work[p].op \in ops /\ work[p].at = at

\* The build that save_build() stores.
StoreBuild(p) ==
  /\ At(p, {"publish"}, "store")
  /\ builds' = builds \cup {work[p].item}
  /\ GoesOn(p, "save")
  /\ Stays
  /\ UNCHANGED <<member, project, projectFile, keys, gone, expected, raced, hostVars>>

\* Mutant of SaveProject: it is not asked whether the build could be stored.
SaveProjectRegardless(p) ==
  /\ At(p, {"publish", "unlist"}, "save") \/ At(p, {"publish"}, "store")
  /\ project' = work[p].copy
  /\ GoesOn(p, "answer")
  /\ Stays
  /\ UNCHANGED <<member, builds, projectFile, keys, gone, expected, raced, hostVars>>

\* save() of the whole project.
SaveProject(p) ==
  /\ At(p, {"publish", "unlist"}, "save")
  /\ project' = work[p].copy
  /\ GoesOn(p, "answer")
  /\ Stays
  /\ UNCHANGED <<member, builds, projectFile, keys, gone, expected, raced, hostVars>>

\* save() of all rights of the member.  After a race nothing is expected.
SaveMember(p) ==
  /\ At(p, {"grant", "withdraw"}, "save")
  /\ member' = work[p].copy
  /\ raced' = (raced \/ member # work[p].seen)
  /\ expected' = IF raced' THEN {}
                 ELSE IF work[p].op = "grant" THEN expected \cup {work[p].item}
                 ELSE expected \ {work[p].item}
  /\ GoesOn(p, "answer")
  /\ Stays /\ UNCHANGED <<project, builds, projectFile, keys, gone, hostVars>>

\* team.add writes the rights that it is given, whatever they were.
AddMember(p) ==
  /\ Ready(p)
  /\ \E rights \in SUBSET Items :
       /\ member' = rights /\ expected' = rights /\ raced' = FALSE
       /\ Works(p, [op |-> "add", at |-> "answer", item |-> None, copy |-> rights,
                    exports |-> FALSE, seen |-> {}])
  /\ Stays /\ UNCHANGED <<project, builds, projectFile, keys, gone, hostVars>>

\* The answer arrives; what the command did is reported, or goes on.
Answered(p) ==
  /\ At(p, {"grant", "withdraw", "add", "publish", "unlist", "remove"}, "answer")
  /\ IF work[p].exports THEN GoesOn(p, "export") ELSE Done(p)
  /\ Stays /\ UNCHANGED <<serviceVars, hostVars>>

\* cloud.remove deletes the builds one by one, and then the project.
DeleteBuild(p) ==
  /\ At(p, {"remove"}, "store")
  /\ \E build \in work[p].copy :
       /\ builds' = builds \ {build}
       /\ gone' = gone \cup {build}
       /\ work' = [work EXCEPT ![p].copy = @ \ {build}]
  /\ Stays /\ UNCHANGED <<member, project, projectFile, keys, expected, raced, hostVars>>

DeleteProject(p) ==
  /\ At(p, {"remove"}, "store") /\ work[p].copy = {}
  /\ project' = Absent
  /\ GoesOn(p, "answer")
  /\ Stays
  /\ UNCHANGED <<member, builds, projectFile, keys, gone, expected, raced, hostVars>>

\* export_file() into the settings file, which is emptied first.
Export(p) ==
  /\ At(p, {"publish", "remove"}, "export")
  /\ \/ projectFile' = Partial /\ projectFile # Partial /\ UNCHANGED work
     \/ projectFile' = work[p].copy /\ projectFile = Partial /\ Done(p)
  /\ Stays
  /\ UNCHANGED <<member, project, builds, keys, gone, expected, raced, hostVars>>

-----------------------------------------------------------------------------
\* Keys.  keys.revoke executes keys.verify, which fails for want of a hash, and
\* revokes nothing.

PublishKey(p) ==
  /\ Ready(p)
  /\ \E k \in Keys \ keys : keys' = keys \cup {k}
  /\ Stays
  /\ UNCHANGED <<member, project, builds, projectFile, gone, expected, raced, hostVars, work>>

RemoveKey(p) ==
  /\ Ready(p)
  /\ \E k \in Keys : keys' = keys \ {k}
  /\ Stays
  /\ UNCHANGED <<member, project, builds, projectFile, gone, expected, raced, hostVars, work>>

\* Auth::verify()
Verifies(content, k) ==
  content.marks # <<>> /\ Last(content.marks) = [key |-> k, good |-> TRUE]

Begins(p, o, from, to, k) ==
  /\ Ready(p)
  /\ Works(p, [op |-> o, at |-> "copy", from |-> from, to |-> to,
               hashed |-> host[from], key |-> k])
  /\ steady' = IF from \in intact THEN steady \cup {p} ELSE steady \ {p}
  /\ Stays /\ UNCHANGED <<serviceVars, host, intact>>

\* keys.sign with append: the file, whatever it holds, is hashed and the hash is
\* signed.  Without append the signature is only printed.
Sign(p) ==
  \E n \in 0..Depth - 1, k \in keys :
    host[n] # Absent /\ Begins(p, "sign", n, n + 1, k)

\* keys.verify with strip: the last signature has to be of one of the keys.
Strip(p) ==
  \E n \in 1..Depth, k \in keys :
    host[n] # Absent /\ Verifies(host[n], k) /\ Begins(p, "strip", n, n - 1, k)

\* A process writes a file: what others make of it, or take from it without a
\* verification, is no longer certain.
Writes(p, n, content) ==
  /\ host' = [host EXCEPT ![n] = content]
  /\ intact' = intact \ {n}
  /\ steady' = {q \in steady : q = p \/ ~ (\/ work[q].to = n
                                           \/ work[q].op = "strip" /\ work[q].from = n)}
  /\ Stays /\ UNCHANGED serviceVars

\* File(File::IsOverwrite::yes, ...)
Opens(p) ==
  At(p, {"sign", "strip"}, "copy") /\ Writes(p, work[p].to, Half) /\ GoesOn(p, "fill")

\* The file is copied as it is now ...
Copies(p) ==
  /\ At(p, {"sign"}, "fill")
  /\ Writes(p, work[p].to, host[work[p].from]) /\ GoesOn(p, "append")

\* ... and the signature of what was hashed appended.
Appends(p) ==
  /\ At(p, {"sign"}, "append")
  /\ LET copy == host[work[p].to]
     IN  \E good \in BOOLEAN :
           /\ IF copy = work[p].hashed THEN good \/ copy.cut ELSE ~ good
           /\ Writes(p, work[p].to,
                     [copy EXCEPT !.marks = Append(@, [key |-> work[p].key, good |-> good])])
  /\ GoesOn(p, "verify")

Reported(p) ==
  /\ intact' = IF p \in steady THEN intact \cup {work[p].to} ELSE intact
  /\ steady' = steady \ {p}
  /\ Done(p) /\ Stays /\ UNCHANGED <<serviceVars, host>>

\* Mutant of Signed: the signed file is not verified.
SignedUnverified(p) == At(p, {"sign"}, "verify") /\ Reported(p)

\* If the signed file does not verify, the command fails and the file remains.
Signed(p) ==
  /\ At(p, {"sign"}, "verify")
  /\ Verifies(host[work[p].to], work[p].key)
  /\ Reported(p)

\* The file as it is now, short of the length of a signature.
Strips(p) ==
  /\ At(p, {"strip"}, "fill")
  /\ LET source == host[work[p].from]
     IN  Writes(p, work[p].to, IF source.marks = <<>> THEN Half
                               ELSE [source EXCEPT !.marks = Front(@)])
  /\ GoesOn(p, "verify")

Stripped(p) == At(p, {"strip"}, "verify") /\ Reported(p)

-----------------------------------------------------------------------------
Request(p) ==
  \/ UpdateMember(p) \/ RemoveBuild(p) \/ RemoveProject(p)
  \/ Publish(p) \/ AddMember(p) \/ PublishKey(p) \/ RemoveKey(p)
  \/ Sign(p) \/ Strip(p)

Progress(p) ==
  \/ StoreBuild(p) \/ SaveProject(p) \/ SaveMember(p) \/ Answered(p)
  \/ DeleteBuild(p) \/ DeleteProject(p) \/ Export(p)
  \/ Opens(p) \/ Copies(p) \/ Appends(p) \/ Signed(p) \/ Strips(p) \/ Stripped(p)
  \/ Failed(p)

\* A process that is killed drops what it was doing.
Session(p) ==
  \/ /\ work[p] = None /\ UNCHANGED <<documentVars>>
     /\ (Process(p) /\ UNCHANGED commands) \/ Counted(p)
  \/ /\ work[p] # None /\ Crash(p) /\ UNCHANGED commands
     /\ Done(p) /\ steady' = steady \ {p}
     /\ UNCHANGED <<serviceVars, host, intact, requests>>

Room == commands > 0 /\ requests > 0 => commands + requests <= MaxMixed

Next ==
  /\ \E p \in Procs :
       \/ Session(p)
       \/ requests < MaxRequests /\ requests' = requests + 1 /\ UNCHANGED commands /\ Request(p)
       \/ Progress(p) /\ UNCHANGED <<commands, requests>>
  /\ Room'

Spec == DocumentsInit /\ [][Next]_<<vars, documentVars>>

-----------------------------------------------------------------------------
(***************************************************************************)
(* What the project lists has been stored before: another process finds    *)
(* the builds that it reads about, unless a cloud.remove deleted them.     *)
(* Failures and crashes between the calls, lost answers, and updates that  *)
(* overwrite one another, only make the list shorter.                      *)
(***************************************************************************)
ListedStored == project # Absent => project \subseteq builds \cup gone

(***************************************************************************)
(* As long as no two updates overlap, so that one writes a copy that it    *)
(* read before the other wrote its own, the rights of the member are what  *)
(* the updates that the service carried out make of them one after         *)
(* another: those that were reported, and those of which the answer was    *)
(* lost or whose process was killed before it came.  Nothing in the code   *)
(* guards against the overlap; the next team.add ends what it did.         *)
(***************************************************************************)
UpdatesKept == ~ raced => member = expected

(***************************************************************************)
(* A file that keys.sign or a strip reported, made from one that was       *)
(* intact, has as many good signatures as suffixes, whoever signed,        *)
(* stripped, failed or was killed in between, as long as nobody else wrote *)
(* it or, for a strip, its source at that time, or has written it since.   *)
(* Of any other file nothing is claimed: a keys.sign that fails leaves a   *)
(* copy that is not signed.                                                *)
(***************************************************************************)
SignaturesCounted ==
  \A n \in intact :
    /\ host[n] # Absent /\ ~ host[n].cut
    /\ Len(host[n].marks) = n
    /\ \A i \in 1..n : host[n].marks[i].good
=============================================================================
