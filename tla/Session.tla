------------------------------- MODULE Session -------------------------------
(***************************************************************************)
(* The sessions of several sl processes that share four files: the         *)
(* credentials of the workspace ("local") and of the user ("shared"), the  *)
(* settings of the workspace and the user's settings.  A process loads all *)
(* of them when it starts, changes its copies, writes credentials and some *)
(* settings at once, and all settings when it ends without an error.  A    *)
(* file is written by opening it, which empties it, and writing it: other  *)
(* processes may look between.                                             *)
(*                                                                         *)
(* Of a setting only its value counts, of credentials whose uid, token and *)
(* refresh token they are.  The age of a token is open: any use may find   *)
(* it older than 59 minutes.                                               *)
(***************************************************************************)
EXTENDS Naturals

CONSTANTS
  Procs,      \* processes
  Listeners,  \* those in listen mode, which go on after a command that failed
  Users,
  Nobody,     \* an empty uid or token
  Values,     \* of a setting
  Default,    \* of a setting that was never set
  WithSdk,    \* of a workspace, once a missing SDK directory is put in
  Workspaces, \* the workspace's file, when it starts
  Absent,     \* no file
  Partial,    \* a file that is not JSON: empty, or written halfway
  Unknown,    \* history: nothing is claimed of a file
  MaxCommands \* bound: commands of Session that all of the processes run

Accounts == {"local", "shared"}
Settings == {"workspace", "settings"}
Files == Accounts \cup Settings

Credentials == [uid : Users \cup {Nobody}, token : Users \cup {Nobody},
                refresh : Users \cup {Nobody}]

ASSUME SessionAssumption ==
  /\ Listeners \subseteq Procs
  /\ Nobody \notin Users
  /\ Default \in Values /\ WithSdk \in [Values -> Values]
  /\ Workspaces \subseteq Values \cup {Absent}
  /\ \A v \in Values : WithSdk[WithSdk[v]] = WithSdk[v]
  /\ {Absent, Partial} \cap (Values \cup Credentials) = {}
  /\ MaxCommands \in Nat

Of(u) == [uid |-> u, token |-> u, refresh |-> u]

VARIABLES
  file,      \* contents of the files
  pc,        \* where a process is
  target,    \* the file that it writes, if it does
  cloud,     \* cloud_service().cloud().credentials()
  loggedIn,  \* credentials().uid() is not empty
  global,    \* credentials().is_global()
  memory,    \* its settings; those of a workspace may be invalid
  alone,     \* history: no other process has run since it started
  asked,     \* history: the settings that its commands reported as set
  settled,   \* history: what a process that was alone made of a file, or found
  mixed,     \* history: a listener went on after a token was refused
  commands   \* history: how many commands have been run

sessionVars == <<file, pc, target, cloud, loggedIn, global, memory>>
historyVars == <<alone, asked, settled, mixed, commands>>
vars == <<sessionVars, historyVars>>

IsWhole(content) == content \notin {Absent, Partial}

Fresh == [workspace |-> Absent, settings |-> Default]

\* What a login, or a workspace's settings, made of a file before.
AtFirst(f) ==
  IF f \in Accounts THEN IF file[f] = Absent THEN Nobody ELSE file[f].uid
  ELSE IF file[f] = Absent THEN Unknown ELSE file[f]

\* Somebody may have logged in before, and set up the workspace.
Init ==
  /\ \E login, own \in {Absent} \cup {Of(u) : u \in Users}, made \in Workspaces :
       file = [f \in Files |-> CASE f = "shared" -> login
                                 [] f = "workspace" -> made
                                 [] OTHER -> Absent]
  /\ pc = [p \in Procs |-> "off"]
  /\ target = [p \in Procs |-> "settings"]
  /\ cloud = [p \in Procs |-> Of(Nobody)]
  /\ loggedIn = [p \in Procs |-> FALSE] /\ global = [p \in Procs |-> FALSE]
  /\ memory = [p \in Procs |-> Fresh]
  /\ alone = [p \in Procs |-> FALSE]
  /\ asked = [p \in Procs |-> {}]
  /\ settled = [f \in Files |-> AtFirst(f)]
  /\ mixed = FALSE /\ commands = 0

-----------------------------------------------------------------------------
\* App::initialize().

\* Credentials::load(): those of the workspace, or else the user's.  What is
\* not JSON counts as missing.
Source == IF IsWhole(file["local"]) THEN "local" ELSE "shared"

Loaded == IF IsWhole(file[Source]) THEN file[Source] ELSE Of(Nobody)

\* The settings of a workspace that is not JSON are invalid, and so kept from
\* being saved; valid ones get an SDK directory.  The user's start afresh.
LoadSettings ==
  [workspace |-> IF IsWhole(file["workspace"]) THEN WithSdk[file["workspace"]]
                 ELSE Absent,
   settings |-> IF IsWhole(file["settings"]) THEN file["settings"] ELSE Default]

Start(p) ==
  /\ pc[p] = "off"
  /\ pc' = [pc EXCEPT ![p] = "idle"]
  /\ cloud' = [cloud EXCEPT ![p] = Loaded]
  /\ loggedIn' = [loggedIn EXCEPT ![p] = Loaded.uid # Nobody]
  /\ global' = [global EXCEPT ![p] = (Source = "shared")]
  /\ memory' = [memory EXCEPT ![p] = LoadSettings]
  /\ alone' = [q \in Procs |-> q = p /\ \A r \in Procs : pc[r] = "off"]
  /\ asked' = [asked EXCEPT ![p] = {}]
  /\ UNCHANGED <<file, target, settled, mixed>>

\* JsonDocument().save() into a file opened with IsOverwrite::yes ...
Open(p, f) ==
  /\ file' = [file EXCEPT ![f] = Partial]
  /\ target' = [target EXCEPT ![p] = f]

\* ... and written.
Write(p) ==
  LET f == target[p]
  IN  /\ file' = [file EXCEPT ![f] = IF f \in Accounts THEN cloud[p] ELSE memory[p][f]]
      /\ target' = [target EXCEPT ![p] = "settings"]
      /\ UNCHANGED mixed

\* Settings that are written at the end: what was claimed of them holds on if the
\* process is alone and was not asked to change them.
Rewritten(p) ==
  LET f == target[p]
  IN  IF f \in Accounts \/ (alone[p] /\ f \notin asked[p]) THEN settled
      ELSE [settled EXCEPT ![f] = Unknown]

\* Settings that a command writes at once are claimed then.
Saved(p) ==
  LET f == target[p]
  IN  IF f \in Accounts THEN settled
      ELSE [settled EXCEPT ![f] = IF alone[p] THEN memory[p][f] ELSE Unknown]

\* At the end of a process the settings that it was asked to change are claimed
\* to be in their files.
Claimed(p, claims) ==
  [f \in Files |-> IF f \notin asked[p] THEN claims[f]
                   ELSE IF alone[p] THEN memory[p][f] ELSE Unknown]

Goes(p, where) == pc' = [pc EXCEPT ![p] = where]

Keeps == UNCHANGED <<cloud, loggedIn, global, memory, alone, asked>>

\* The process is gone, and its memory.
Gone(p) ==
  /\ Goes(p, "off")
  /\ cloud' = [cloud EXCEPT ![p] = Of(Nobody)]
  /\ loggedIn' = [loggedIn EXCEPT ![p] = FALSE]
  /\ global' = [global EXCEPT ![p] = FALSE]
  /\ memory' = [memory EXCEPT ![p] = Fresh]
  /\ alone' = [alone EXCEPT ![p] = FALSE]
  /\ asked' = [asked EXCEPT ![p] = {}]

Written(p) ==
  /\ pc[p] = "write"
  /\ Write(p) /\ Goes(p, "idle") /\ settled' = Saved(p)
  /\ asked' = [asked EXCEPT ![p] = @ \ {target[p]}]
  /\ UNCHANGED <<cloud, loggedIn, global, memory, alone>>

\* App::finalize() of main(): the user's settings ...
Finalize(p) ==
  /\ pc[p] = "idle"
  /\ Open(p, "settings") /\ Goes(p, "settings") /\ Keeps
  /\ UNCHANGED <<settled, mixed>>

FinalizeSettings(p) ==
  /\ pc[p] = "settings"
  /\ Write(p) /\ Goes(p, "between") /\ Keeps /\ settled' = Rewritten(p)

\* Mutant of FinalizeWorkspace: the commands are relied on to save them.
FinalizeWorkspaceNever(p) ==
  /\ pc[p] = "between"
  /\ Gone(p) /\ settled' = Claimed(p, settled) /\ UNCHANGED <<file, target, mixed>>

\* ... then those of a valid workspace.
FinalizeWorkspace(p) ==
  /\ pc[p] = "between"
  /\ IF memory[p].workspace = Absent
     THEN Gone(p) /\ settled' = Claimed(p, settled) /\ UNCHANGED <<file, target>>
     ELSE Open(p, "workspace") /\ Goes(p, "workspace") /\ Keeps /\ UNCHANGED settled
  /\ UNCHANGED mixed

End(p) ==
  pc[p] = "workspace" /\ Write(p) /\ Gone(p) /\ settled' = Claimed(p, Rewritten(p))

\* With an error pending, as after the last command of a listener, the saves of
\* App::finalize() do nothing.
FinalizeError(p) ==
  /\ pc[p] = "idle"
  /\ Gone(p) /\ UNCHANGED <<file, target, settled, mixed>>

\* A process is killed.  It may leave a file that is half written.
Crash(p) ==
  /\ pc[p] # "off"
  /\ Gone(p)
  /\ settled' = IF pc[p] \in {"write", "settings", "workspace"}
                THEN [settled EXCEPT ![target[p]] = Unknown] ELSE settled
  /\ target' = [target EXCEPT ![p] = "settings"]
  /\ UNCHANGED <<file, mixed>>

-----------------------------------------------------------------------------
\* cloud.login, cloud.logout, cloud.refresh and is_cloud_ready().

Destination(local) == IF local THEN "local" ELSE "shared"

\* credentials().copy(), set_global(), save_credentials().
Store(p, creds, local) ==
  /\ cloud' = [cloud EXCEPT ![p] = creds]
  /\ loggedIn' = [loggedIn EXCEPT ![p] = creds.uid # Nobody]
  /\ global' = [global EXCEPT ![p] = ~ local]
  /\ Open(p, Destination(local)) /\ Goes(p, "write")
  /\ settled' = [settled EXCEPT ![Destination(local)] =
                   IF alone[p] THEN creds.uid ELSE Unknown]
  /\ UNCHANGED <<memory, alone, asked, mixed>>

\* With email and password, or with uid and a refresh token that is accepted.
Login(p) ==
  /\ pc[p] = "idle"
  /\ \E u \in Users, local \in BOOLEAN : Store(p, Of(u), local)

\* cloud.login without email and uid launches the browser, and stores what the
\* process has loaded, be it nothing, where `local` says.
LoginBrowser(p) ==
  /\ pc[p] = "idle"
  /\ \E local \in BOOLEAN : Store(p, cloud[p], local)

\* uid and refresh token are put into the credentials before they are tried.
\* When the service refuses them the error stays pending, so that the calls
\* that store them do nothing.
Tried(p, u) == [cloud[p] EXCEPT !.uid = u, !.refresh = Nobody]

\* Mutant of LoginRefused: the result of refresh_login() is not looked at.
LoginRefusedStored(p) ==
  /\ pc[p] = "idle"
  /\ \E u \in Users, local \in BOOLEAN : Store(p, Tried(p, u), local)

\* A command that fails ends sl through exit(1), without finalize(); a listener
\* answers the browser and goes on.
LoginRefused(p) ==
  /\ pc[p] = "idle"
  /\ IF p \in Listeners
     THEN /\ \E u \in Users : cloud' = [cloud EXCEPT ![p] = Tried(p, u)]
          /\ mixed' = TRUE
          /\ UNCHANGED <<pc, loggedIn, global, memory, alone, asked>>
     ELSE Gone(p) /\ UNCHANGED mixed
  /\ UNCHANGED <<file, target, settled>>

\* No user, a password or a token missing, a login or a refresh that is refused,
\* a command of any group that fails.
Fails(p) ==
  /\ pc[p] = "idle" /\ p \notin Listeners
  /\ Gone(p) /\ UNCHANGED <<file, target, settled, mixed>>

Logout(p) ==
  /\ pc[p] = "idle" /\ loggedIn[p]
  /\ LET f == Destination(~ global[p])
     IN  /\ file' = [file EXCEPT ![f] = Absent]
         /\ settled' = [settled EXCEPT ![f] = IF alone[p] THEN Nobody ELSE Unknown]
  /\ cloud' = [cloud EXCEPT ![p] = Of(Nobody)]
  /\ loggedIn' = [loggedIn EXCEPT ![p] = FALSE]
  /\ global' = [global EXCEPT ![p] = FALSE]
  /\ UNCHANGED <<pc, target, memory, alone, asked, mixed>>

\* refresh_login() of the service.
Refreshes(p) ==
  /\ cloud[p].refresh # Nobody /\ cloud[p].refresh = cloud[p].uid
  /\ cloud' = [cloud EXCEPT ![p] = Of(cloud[p].uid)]

\* cloud.refresh keeps the new token to itself.
Refresh(p) ==
  /\ pc[p] = "idle"
  /\ Refreshes(p)
  /\ UNCHANGED <<file, pc, target, loggedIn, global, memory, alone, asked, settled, mixed>>

\* Mutant of RefreshOld: the flag is_global is not carried over.
RefreshOldLocal(p) ==
  /\ pc[p] = "idle"
  /\ Refreshes(p)
  /\ Open(p, "local") /\ Goes(p, "write")
  /\ loggedIn' = [loggedIn EXCEPT ![p] = TRUE]
  /\ UNCHANGED <<global, memory, alone, asked, settled, mixed>>

\* initialize_cloud() with a token older than 59 minutes: refreshed, and saved
\* where it came from.
RefreshOld(p) ==
  /\ pc[p] = "idle"
  /\ Refreshes(p)
  /\ Open(p, Destination(~ global[p])) /\ Goes(p, "write")
  /\ loggedIn' = [loggedIn EXCEPT ![p] = TRUE]
  /\ UNCHANGED <<global, memory, alone, asked, settled, mixed>>

\* is_cloud_ready() lets a command go on: the token is not old.
CloudReady(p) == pc[p] = "idle" /\ cloud[p].token # Nobody

-----------------------------------------------------------------------------
\* Settings.

\* settings.set, debug.analyze and a shortcut that is added: in memory, as is what
\* sl --update records of the version that it downloads among the user's.
Set(p) ==
  /\ pc[p] = "idle"
  /\ \E f \in Settings, v \in Values :
       /\ memory[p][f] \notin {Absent, v}
       /\ memory' = [memory EXCEPT ![p][f] = v]
       /\ asked' = [asked EXCEPT ![p] = @ \cup {f}]
  /\ UNCHANGED <<file, pc, target, cloud, loggedIn, global, alone, settled, mixed>>

\* WorkspaceSettings::save() in a command.
Saves(p, v) ==
  /\ memory' = [memory EXCEPT ![p].workspace = v]
  /\ asked' = [asked EXCEPT ![p] = @ \cup {"workspace"}]
  /\ Open(p, "workspace") /\ Goes(p, "write")
  /\ UNCHANGED <<cloud, loggedIn, global, alone, settled, mixed>>

\* sl --initialize: fresh settings.
Initialize(p) ==
  pc[p] = "idle" /\ memory[p].workspace = Absent /\ Saves(p, Default)

\* Commands are for a workspace whose settings are valid.
InWorkspace(p) == memory[p].workspace # Absent

\* cloud.connect, conn.connect and conn.ping with what they were asked to save,
\* and a job that cannot be published.
SaveWorkspace(p) ==
  pc[p] = "idle" /\ InWorkspace(p) /\ \E v \in Values : Saves(p, v)

Command(p) ==
  \/ Initialize(p) \/ Set(p) \/ Fails(p)
  \/ /\ InWorkspace(p)
     /\ \/ Login(p) \/ LoginBrowser(p) \/ LoginRefused(p)
        \/ Logout(p) \/ Refresh(p) \/ RefreshOld(p) \/ SaveWorkspace(p)

Process(p) ==
  \/ Start(p) \/ Written(p) \/ FinalizeError(p) \/ Crash(p)
  \/ Finalize(p) \/ FinalizeSettings(p) \/ FinalizeWorkspace(p) \/ End(p)

Counted(p) == commands < MaxCommands /\ commands' = commands + 1 /\ Command(p)

-----------------------------------------------------------------------------
Writing(f) == \E p \in Procs :
  pc[p] \in {"write", "settings", "workspace"} /\ target[p] = f

(***************************************************************************)
(* The credentials in a file are those of one user: a login that fails     *)
(* halfway, with the new uid set and the old token in place, is not        *)
(* stored.  A listener that goes on after such a failure is left out.      *)
(***************************************************************************)
OneIdentity ==
  ~ mixed =>
    \A f \in Accounts : IsWhole(file[f]) => \E u \in Users \cup {Nobody} :
                                             file[f] = Of(u)

(***************************************************************************)
(* What a login or a logout made of a file lasts until the next one: when  *)
(* no other sl was running then, no refresh of a later one brings an old   *)
(* user back or puts one user's credentials in another's place.            *)
(***************************************************************************)
AccountKept ==
  \A f \in Accounts :
    settled[f] # Unknown /\ ~ Writing(f)
      => IF settled[f] = Nobody THEN file[f] \in {Absent, Of(Nobody)}
         ELSE IsWhole(file[f]) /\ file[f].uid = settled[f]

(***************************************************************************)
(* A setting that a command of the only process reported as set is in the  *)
(* file: at once if the command saves it, else when its process has ended  *)
(* and no error was pending.  A later process that is the only one does    *)
(* not change it unasked, but for the SDK directory of a workspace that    *)
(* names none, whatever fails or is killed outside the write itself.       *)
(***************************************************************************)
SettingsKept ==
  \A f \in Settings :
    settled[f] # Unknown /\ ~ Writing(f) =>
      \/ file[f] = settled[f]
      \/ f = "workspace" /\ file[f] = WithSdk[settled[f]]
=============================================================================
