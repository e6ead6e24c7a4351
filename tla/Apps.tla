-------------------------------- MODULE Apps --------------------------------
(***************************************************************************)
(* The commands that change and use the applications of a device:          *)
(* app.clean, whose main thread removes what is in a folder while a        *)
(* detached thread shows progress, and waits for that thread on a          *)
(* condition; app.install, with run=true as well; and app.run.             *)
(*                                                                         *)
(* A copy of an application is "old", or "new" if the command that is      *)
(* executed has installed it.  Anything asked of the device may fail.      *)
(***************************************************************************)
EXTENDS FiniteSets

CONSTANTS
  Names,   \* of entries of a folder of applications
  Hidden   \* the names that begin with a dot

ASSUME AppsAssumption == IsFiniteSet(Names) /\ Hidden \subseteq Names

VARIABLES
  mounted,   \* folders of applications that the device has
  folder,    \* folder -> name -> copy
  request,   \* the command
  pc,        \* where the main thread is
  at,        \* folder that is cleaned
  left,      \* entries of it that are not handled
  removed,   \* folder -> path_list
  error,     \* is_error()
  complete,  \* thread_argument.is_clean_complete
  thread,    \* where the progress thread is
  ran,       \* copy that run_app() started
  answer,    \* what the command returned
  before     \* history: folder, when the command began

appsVars == <<mounted, folder, request, pc, at, left, removed, error, complete,
              thread, ran, answer, before>>

Folders == {"flash", "ram"}

Copies == {"none", "old", "new"}

Requests ==
  [op : {"clean"}, in : {{"flash"}, {"ram"}, Folders}]
    \cup [op : {"run"}, name : Names, in : {{"flash"}, {"ram"}, Folders}]
    \cup [op : {"install"}, name : Names, in : Folders, clean : BOOLEAN, run : BOOLEAN]

Nothing == [f \in Folders |-> {}]

AppsInit ==
  /\ mounted \in {{"flash"}, Folders}
  /\ folder \in [Folders -> [Names -> {"none", "old"}]]
  /\ \A f \in Folders \ mounted : \A n \in Names : folder[f][n] = "none"
  /\ request = [op |-> "none"] /\ pc = "idle" /\ at = "flash"
  /\ left = {} /\ removed = Nothing /\ error = FALSE
  /\ complete = FALSE /\ thread = "none"
  /\ ran = "none" /\ answer = "none" /\ before = folder

Entries(f) == {n \in Names : folder[f][n] # "none"}

-----------------------------------------------------------------------------
\* Another command; the one before it has returned.
AppsBegin(r) ==
  /\ pc = "idle"
  /\ request' = r
  /\ pc' = CASE r.op = "clean" -> "clean" [] r.op = "run" -> "run" [] OTHER -> "install"
  /\ at' = IF r.op = "clean" /\ "flash" \notin r.in THEN "ram" ELSE "flash"
  /\ folder' = [f \in Folders |->
                  [n \in Names |-> IF folder[f][n] = "none" THEN "none" ELSE "old"]]
  /\ before' = folder'
  /\ left' = {} /\ removed' = Nothing /\ error' = FALSE
  /\ complete' = FALSE /\ thread' = "none" /\ ran' = "none" /\ answer' = "none"
  /\ UNCHANGED mounted

Returns(result) ==
  /\ pc' = "idle" /\ answer' = result

\* is_connection_ready() fails, or the device is gone between two folders.
NoConnection ==
  /\ pc \in {"clean", "install", "run"}
  /\ Returns("failure")
  /\ UNCHANGED <<mounted, folder, request, at, left, removed, error, complete, thread,
                 ran, before>>

-----------------------------------------------------------------------------
\* clean_directory().

\* A folder that is missing is an error, with which the next one is not cleaned.
CleanMissing ==
  /\ pc = "clean" /\ at \notin mounted
  /\ error' = TRUE /\ Returns("failure")
  /\ UNCHANGED <<mounted, folder, request, at, left, removed, complete, thread, ran, before>>

CleanStart ==
  /\ pc = "clean" /\ at \in mounted
  /\ pc' = "remove" /\ left' = Entries(at)
  /\ complete' = FALSE /\ thread' = "show"
  /\ UNCHANGED <<mounted, folder, request, at, removed, error, ran, answer, before>>

\* Mutant of CleanRemove: an entry is listed whether or not it could be removed.
CleanRemoveUnchecked(n) ==
  /\ pc = "remove" /\ n \in left
  /\ left' = left \ {n}
  /\ removed' = (IF n \in Hidden THEN removed ELSE [removed EXCEPT ![at] = @ \cup {n}])
  /\ IF n \in Hidden \/ error THEN UNCHANGED <<folder, error>>
     ELSE \/ folder' = [folder EXCEPT ![at][n] = "none"] /\ UNCHANGED error
          \/ error' = TRUE /\ UNCHANGED folder
  /\ UNCHANGED <<mounted, request, pc, at, complete, thread, ran, answer, before>>

\* With an error pending, the remaining calls of remove() do nothing.
CleanRemove(n) ==
  /\ pc = "remove" /\ n \in left
  /\ left' = left \ {n}
  /\ IF n \in Hidden \/ error THEN UNCHANGED <<folder, removed, error>>
     ELSE \/ /\ folder' = [folder EXCEPT ![at][n] = "none"]
             /\ removed' = [removed EXCEPT ![at] = @ \cup {n}]
             /\ UNCHANGED error
          \/ error' = TRUE /\ UNCHANGED <<folder, removed>>
  /\ UNCHANGED <<mounted, request, pc, at, complete, thread, ran, answer, before>>

\* Mutant of CleanWait: the mutex is released before the wait begins.
CleanWaitUnlocked ==
  /\ left = {}
  /\ \/ pc = "remove" /\ pc' = "flagged" /\ complete' = TRUE
     \/ pc = "flagged" /\ pc' = "wait" /\ complete' = complete
  /\ UNCHANGED <<mounted, folder, request, at, left, removed, error, thread, ran,
                 answer, before>>

\* The flag is set, and the wait begins, with the mutex held: the thread reads
\* the flag with the mutex held, too, and signals only when it has read TRUE.
CleanWait ==
  /\ pc = "remove" /\ left = {}
  /\ pc' = "wait" /\ complete' = TRUE
  /\ UNCHANGED <<mounted, folder, request, at, left, removed, error, thread, ran,
                 answer, before>>

\* A wakeup that nobody signalled; with an error pending the library may not
\* wait at all.  The thread is left with an argument that is gone: it changes
\* nothing but what is displayed, and is followed no further.
CleanWakes == pc = "wait" /\ pc' = "leave" /\ thread' = "none"
              /\ UNCHANGED <<mounted, folder, request, at, left, removed, error, complete,
                             ran, answer, before>>

\* The second folder is cleaned unless an error is pending.
CleanLeave ==
  /\ pc = "leave"
  /\ IF "ram" \in request.in /\ at = "flash" /\ ~error
     THEN pc' = "clean" /\ at' = "ram" /\ UNCHANGED answer
     ELSE Returns(IF error THEN "failure" ELSE "success") /\ UNCHANGED at
  /\ UNCHANGED <<mounted, folder, request, left, removed, error, complete, thread, ran,
                 before>>

\* The progress thread: update_progress(), the flag, 250 ms.
ThreadShows ==
  /\ thread \in {"show", "last"}
  /\ thread' = CASE thread = "last" -> "signal" [] complete -> "last" [] OTHER -> "show"
  /\ UNCHANGED <<mounted, folder, request, pc, at, left, removed, error, complete, ran,
                 answer, before>>

ThreadSignals ==
  /\ thread = "signal" /\ thread' = "none"
  /\ pc' = (IF pc = "wait" THEN "leave" ELSE pc)
  /\ UNCHANGED <<mounted, folder, request, at, left, removed, error, complete, ran,
                 answer, before>>

-----------------------------------------------------------------------------
\* Installer::install(), after get_installer_options(): with clean=true other
\* copies are deleted first.
Deleted == IF request.clean
           THEN [f \in Folders |-> [folder[f] EXCEPT ![request.name] = "none"]]
           ELSE folder

\* Mutant of InstallFails: the application is run although an error is pending.
InstallFailsRuns ==
  /\ pc = "install" /\ error' = TRUE
  /\ folder' \in {folder, Deleted}
  /\ IF request.run THEN pc' = "run" /\ UNCHANGED answer ELSE Returns("failure")
  /\ UNCHANGED <<mounted, request, at, left, removed, complete, thread, ran, before>>

InstallFails ==
  /\ pc = "install" /\ error' = TRUE
  /\ folder' \in {folder, Deleted}
  /\ Returns("failure")
  /\ UNCHANGED <<mounted, request, at, left, removed, complete, thread, ran, before>>

Install ==
  /\ pc = "install" /\ request.in \in mounted
  /\ folder' = [Deleted EXCEPT ![request.in][request.name] = "new"]
  /\ IF request.run THEN pc' = "run" /\ UNCHANGED answer ELSE Returns("success")
  /\ UNCHANGED <<mounted, request, at, left, removed, error, complete, thread, ran, before>>

\* run(): a name is looked for in flash, then in ram; a path is taken as it is.
Candidates == IF request.op = "install" THEN Folders ELSE request.in

Found == IF "flash" \in Candidates /\ folder["flash"][request.name] # "none" THEN "flash"
         ELSE "ram"

Run ==
  /\ pc = "run"
  /\ \/ /\ Found \in Candidates /\ folder[Found][request.name] # "none"
        /\ ran' = folder[Found][request.name] /\ error' = FALSE /\ Returns("success")
     \/ error' = TRUE /\ Returns("failure") /\ UNCHANGED ran
  /\ UNCHANGED <<mounted, folder, request, at, left, removed, complete, thread, before>>

-----------------------------------------------------------------------------
AppsMain ==
  \/ CleanMissing \/ CleanStart \/ (\E n \in Names : CleanRemove(n)) \/ CleanWait
  \/ CleanLeave \/ InstallFails \/ Install \/ Run

AppsThread == ThreadShows \/ ThreadSignals

AppsNext ==
  \/ \E r \in Requests : AppsBegin(r)
  \/ NoConnection \/ CleanWakes
  \/ AppsMain \/ AppsThread

AppsSpec == AppsInit /\ [][AppsNext]_appsVars

\* Both threads are scheduled; no command is ever owed to the program.
AppsFairness == WF_appsVars(AppsMain) /\ WF_appsVars(AppsThread)

-----------------------------------------------------------------------------
Visible(f) == {n \in Names \ Hidden : before[f][n] # "none"}

(***************************************************************************)
(* app.clean lists as removed exactly what is gone, whichever remove()     *)
(* fails and whenever its thread is woken; it succeeds only if no visible  *)
(* entry of the folders it was asked to clean is left; and it never        *)
(* touches a hidden one.                                                   *)
(***************************************************************************)
CleanSound ==
  request.op = "clean" =>
    /\ \A f \in Folders : removed[f] = {n \in Names : before[f][n] # folder[f][n]}
    /\ \A f \in Folders : removed[f] \cap Hidden = {}
    /\ answer = "success" => \A f \in request.in : removed[f] = Visible(f)

(***************************************************************************)
(* app.install:run=true runs what it has installed, never an older copy,   *)
(* as long as older copies are deleted (clean, the default); the suffix    *)
(* and the name that an application can be installed under are not in the  *)
(* model.                                                                  *)
(***************************************************************************)
RanInstalled ==
  request.op = "install" /\ request.clean => ran \in {"none", "new"}

(***************************************************************************)
(* app.clean returns: the main thread never waits for a signal that has    *)
(* already been given.                                                     *)
(***************************************************************************)
CleanReturns == pc = "wait" ~> pc = "idle"
=============================================================================
