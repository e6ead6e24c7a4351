------------------------------ MODULE Dispatch ------------------------------
(***************************************************************************)
(* What one line `sl --switches group.command ...` does, line after line   *)
(* in one workspace: switches and shortcuts first, then the list of        *)
(* commands, which runs here or, when the workspace is connected to a job  *)
(* server, is published to it, and the exit code.  Another sl, in          *)
(* cloud.listen, is the job server; a browser may publish jobs to it too.  *)
(*                                                                         *)
(* A command is a record of its group, its name and its arguments as they  *)
(* were typed (module Command).  What a handler does is left to the other  *)
(* modules: here it succeeds or fails, except for cloud.connect and        *)
(* cloud.listen, which decide where the commands run.                      *)
(***************************************************************************)
EXTENDS Command

CONSTANTS
  Inputs,     \* commands
  Lines,      \* the lines that may be typed
  Shortcuts,  \* the commands behind shortcuts
  Jobs,       \* the commands that a browser may publish
  NoCommand,  \* an empty job, a line without a shortcut
  Timed       \* job_info().timeout() is not indefinite

ASSUME DispatchAssumption ==
  /\ NoCommand \notin Inputs
  /\ Lines \subseteq Seq(Inputs) /\ <<>> \in Lines
  /\ Shortcuts \subseteq Inputs /\ Jobs \subseteq Inputs
  /\ Timed \in BOOLEAN
  /\ \A input \in Inputs : \A i \in 1..Len(input.args) :
       \E k \in DOMAIN Alphabet : input.args[i].name = Alphabet[k]

\* CommandInput: the group is looked up by name or shortcut; a word without
\* a dot has no group.
HasGroup(input) == input.group # "none"

\* Group::execute_command: the name is looked up in get_command_list().
HasCommand(input) == input.name # "missing"

\* execute_command_list() keeps the commands of the cloud group that contain
\* "listen" or "connect" out of the text that it publishes.
Withheld(input) == input.group = "cloud" /\ input.name \in {"listen", "connect"}

VARIABLES
  pc,          \* where main() of the client is
  line,        \* its commands
  switches,    \* "unknown", "invalid" or "good" switches
  refused,     \* --shortcut= has no name, or the name of a switch
  saved,       \* the command behind the shortcut that the line calls, if any
  workspace,   \* workspace_settings().is_valid()
  job,         \* job_info().job_id() is not empty
  stored,      \* ... in the file
  next,        \* position in the line
  text,        \* command.length() > 0 in execute_command_list()
  status,      \* its ExecutionStatus
  ran,         \* history: commands of the line that ran here, with outcomes
  posts,       \* history: publications of this line
  code,        \* exit code
  server,      \* the other sl: where cloud.listen is
  pointer,     \* its m_job_server is not null
  interrupted, \* its is_interrupted()
  queue,       \* jobs that it has not taken yet
  taken,       \* the job that its callback executes
  answer       \* its answer to the client's last job

clientVars == <<pc, line, switches, refused, saved, next, text, status, ran,
                posts, code>>
settingsVars == <<workspace, job, stored>>
serverVars == <<server, pointer, interrupted, taken>>
vars == <<clientVars, settingsVars, serverVars, queue, answer>>

Requests == [by : {"client", "browser"}, command : Inputs \cup {NoCommand}]

Statuses == {"skipped", "failed", "success"}

TypeOK ==
  /\ pc \in {"switches", "shortcuts", "saved", "check", "publish", "waiting",
             "run", "finalize", "exit"}
  /\ line \in Lines
  /\ switches \in {"good", "unknown", "invalid"}
  /\ refused \in BOOLEAN
  /\ saved \in Inputs \cup {NoCommand}
  /\ workspace \in BOOLEAN /\ job \in BOOLEAN /\ stored \in BOOLEAN
  /\ next \in 1..Len(line) + 1
  /\ text \in BOOLEAN
  /\ status \in Statuses
  /\ ran \in Seq({"success", "failed", "syntax_error"})
  /\ posts \in 0..Len(line)
  /\ code \in {"none", "0", "1"}
  /\ server \in {"off", "wait", "execute", "answer", "asserted"}
  /\ pointer \in BOOLEAN /\ interrupted \in BOOLEAN
  /\ queue \subseteq Requests
  /\ taken \in Requests \cup {NoCommand}
  /\ answer \in {"none", "output", "null"}

\* The line that main() is given.
Typing ==
  /\ pc' = "switches" /\ line' \in Lines
  /\ switches' = "good" /\ refused' = FALSE /\ saved' = NoCommand
  /\ next' = 1 /\ text' = FALSE /\ status' = "skipped"
  /\ ran' = <<>> /\ posts' = 0 /\ code' = "none"

Init ==
  /\ pc = "exit" /\ line = <<>> /\ switches = "good" /\ refused = FALSE
  /\ saved = NoCommand /\ next = 1 /\ text = FALSE /\ status = "skipped"
  /\ ran = <<>> /\ posts = 0 /\ code = "0"
  /\ workspace \in BOOLEAN /\ stored \in {FALSE, workspace} /\ job = stored
  /\ server = "off" /\ pointer = FALSE
  /\ interrupted = FALSE /\ queue = {} /\ taken = NoCommand /\ answer = "none"

\* The next sl: App::initialize() loads the settings.  A job that the last one
\* gave up has no command and is dropped.
Start ==
  /\ pc = "exit"
  /\ Typing
  /\ job' = stored
  /\ answer' = "none"
  /\ queue' = {q \in queue : q.by # "client"}
  /\ UNCHANGED <<workspace, stored, serverVars>>

\* exit(1) of main() skips App::finalize().
ExitFailed ==
  /\ pc' = "exit" /\ code' = "1"

-----------------------------------------------------------------------------
\* Switch::handle_switches.

\* A word with a dash that is neither a switch nor a shortcut ends sl before
\* anything else is looked at.
UnknownSwitch ==
  switches' = "unknown" /\ ExitFailed /\ UNCHANGED workspace

\* --initialize makes a workspace; --verbose, --json and the like set the
\* printer; --help= calls handlers that only print.
Switched == workspace' \in {workspace, TRUE}

\* A value of --report or --graph is refused, with --initialize already done.
InvalidSwitch == switches' = "invalid" /\ ExitFailed /\ Switched

GoodSwitches ==
  switches' = "good" /\ pc' = "shortcuts" /\ Switched /\ UNCHANGED code

HandleSwitches ==
  /\ pc = "switches"
  /\ UnknownSwitch \/ InvalidSwitch \/ GoodSwitches
  /\ UNCHANGED <<line, refused, saved, next, text, status, ran, posts, job,
                 stored, serverVars, queue, answer>>

\* --shortcut=<name> keeps the line in the settings, and goes on to execute it;
\* without a name, or with the name of a switch, sl ends, but only after the
\* shortcuts that the line calls have been executed.
HandleShortcuts ==
  /\ pc = "shortcuts"
  /\ refused' \in BOOLEAN
  /\ saved' \in Shortcuts \cup {NoCommand}
  /\ IF saved' # NoCommand THEN pc' = "saved" /\ UNCHANGED code
     ELSE IF refused' THEN ExitFailed
     ELSE pc' = "check" /\ UNCHANGED code
  /\ UNCHANGED <<line, switches, next, text, status, ran, posts, settingsVars,
                 serverVars, queue, answer>>

\* What Group::execute_command may answer.
Outcomes(input) ==
  IF ~ HasGroup(input) \/ ~ HasCommand(input) THEN {"syntax_error"}
  ELSE IF ~ IsValid(input.args) THEN {"failed"}
  ELSE {"success", "failed"}

\* cloud.connect keeps the job at once, in memory and in the file.
Connects(input, outcome) ==
  IF /\ input.group = "cloud" /\ input.name = "connect" /\ outcome = "success"
     /\ workspace
  THEN \E id \in BOOLEAN : job' = id /\ stored' = id
  ELSE UNCHANGED <<job, stored>>

\* execute_shortcut(): the command with its ?1, ?2 replaced runs here, whatever
\* the workspace is connected to, and without a look at the workspace.
ExecuteShortcut ==
  /\ pc = "saved"
  /\ \/ \E outcome \in Outcomes(saved) :
          /\ Connects(saved, outcome)
          /\ IF outcome = "success" /\ ~ refused
             THEN pc' = "check" /\ UNCHANGED code
             ELSE ExitFailed
     \/ /\ ExitFailed  \* too few or too many arguments
        /\ UNCHANGED <<job, stored>>
  /\ UNCHANGED <<line, switches, refused, saved, next, text, status, ran,
                 posts, workspace, serverVars, queue, answer>>

-----------------------------------------------------------------------------
\* Group::execute_command_list.

\* Mutant of CheckList: groups are looked up when their command runs.
CheckListLate ==
  /\ pc = "check"
  /\ IF ~ workspace /\ line # <<>>
     THEN ExitFailed
     ELSE pc' = (IF job THEN "publish" ELSE "run") /\ UNCHANGED code
  /\ UNCHANGED <<line, switches, refused, saved, next, text, status, ran, posts,
                 settingsVars, serverVars, queue, answer>>

CheckList ==
  /\ pc = "check"
  /\ IF (\E i \in DOMAIN line : ~ HasGroup(line[i]))
        \/ (~ workspace /\ line # <<>>)
     THEN ExitFailed
     ELSE pc' = (IF job THEN "publish" ELSE "run") /\ UNCHANGED code
  /\ UNCHANGED <<line, switches, refused, saved, next, text, status, ran, posts,
                 settingsVars, serverVars, queue, answer>>

\* The next command of the loop is added to the text, which is published in
\* each turn once there is one.  The job itself carries permissions and team:
\* the text is printed and put into nothing.
PublishJob ==
  /\ pc = "publish" /\ next <= Len(line)
  /\ text' = (text \/ ~ Withheld(line[next]))
  /\ next' = next + 1
  /\ IF text'
     THEN /\ posts' = posts + 1
          /\ queue' = queue \cup {[by |-> "client", command |-> NoCommand]}
          /\ pc' = "waiting"
     ELSE UNCHANGED <<posts, queue, pc>>
  /\ answer' = "none"
  /\ UNCHANGED <<line, switches, refused, saved, status, ran, code,
                 settingsVars, serverVars>>

Published ==
  /\ pc = "waiting" /\ answer = "output"
  /\ status' = "success"
  /\ pc' = "publish"
  /\ UNCHANGED <<line, switches, refused, saved, next, text, ran, posts, code,
                 settingsVars, serverVars, queue, answer>>

\* Mutant of NotPublished: the client goes on waiting after its timeout.
NotPublishedPolls ==
  /\ pc = "waiting" /\ (answer = "null" \/ (answer = "none" /\ Timed))
  /\ status' = "failed"
  /\ job' = FALSE /\ stored' = FALSE
  /\ UNCHANGED <<pc, line, switches, refused, saved, next, text, ran, posts,
                 code, workspace, serverVars, queue, answer>>

\* No answer in time, or an empty one: the job server is forgotten.
NotPublished ==
  /\ pc = "waiting" /\ (answer = "null" \/ (answer = "none" /\ Timed))
  /\ status' = "failed"
  /\ job' = FALSE /\ stored' = FALSE
  /\ pc' = "publish"
  /\ UNCHANGED <<line, switches, refused, saved, next, text, ran, posts, code,
                 workspace, serverVars, queue, answer>>

\* Mutant of EndOfPublish: a publication that failed is repeated here.
EndOfPublishAgain ==
  /\ pc = "publish" /\ next > Len(line)
  /\ IF status # "success" THEN pc' = "run" /\ next' = 1
     ELSE pc' = "finalize" /\ UNCHANGED next
  /\ UNCHANGED <<line, switches, refused, saved, text, status, ran, posts,
                 code, settingsVars, serverVars, queue, answer>>

\* Only if nothing at all was published do the commands run here.
EndOfPublish ==
  /\ pc = "publish" /\ next > Len(line)
  /\ IF status = "skipped" THEN pc' = "run" /\ next' = 1
     ELSE pc' = "finalize" /\ UNCHANGED next
  /\ UNCHANGED <<line, switches, refused, saved, text, status, ran, posts,
                 code, settingsVars, serverVars, queue, answer>>

Execute ==
  /\ pc = "run" /\ next <= Len(line)
  /\ \E outcome \in Outcomes(line[next]) :
       /\ ran' = Append(ran, outcome)
       /\ Connects(line[next], outcome)
       /\ IF outcome = "success" THEN UNCHANGED <<pc, code>>
          ELSE ExitFailed
  /\ next' = next + 1
  /\ UNCHANGED <<line, switches, refused, saved, text, status, posts,
                 workspace, serverVars, queue, answer>>

EndOfRun ==
  /\ pc = "run" /\ next > Len(line)
  /\ pc' = "finalize"
  /\ UNCHANGED <<line, switches, refused, saved, next, text, status, ran,
                 posts, code, settingsVars, serverVars, queue, answer>>

\* App::finalize() writes the settings, main() returns 0.
Finalize ==
  /\ pc = "finalize"
  /\ pc' = "exit" /\ code' = "0"
  /\ stored' = IF workspace THEN job ELSE stored
  /\ UNCHANGED <<line, switches, refused, saved, next, text, status, ran,
                 posts, workspace, job, serverVars, queue, answer>>

Client ==
  \/ HandleSwitches \/ HandleShortcuts \/ ExecuteShortcut
  \/ CheckList \/ PublishJob \/ Published \/ NotPublished \/ EndOfPublish
  \/ Execute \/ EndOfRun \/ Finalize

-----------------------------------------------------------------------------
\* The other sl: CloudGroup::listen and its callback.

Listen ==
  /\ server = "off"
  /\ server' = "wait" /\ pointer' = TRUE
  /\ UNCHANGED <<clientVars, settingsVars, interrupted, taken, queue,
                 answer>>

Interrupt ==
  /\ server # "off" /\ ~ interrupted
  /\ interrupted' = TRUE
  /\ UNCHANGED <<clientVars, settingsVars, server, pointer, taken,
                 queue, answer>>

\* A browser, or another client of the service, publishes a job.
Browse ==
  /\ \A q \in queue : q.by # "browser"
  /\ \E c \in Jobs \cup {NoCommand} :
       queue' = queue \cup {[by |-> "browser", command |-> c]}
  /\ UNCHANGED <<clientVars, settingsVars, serverVars, answer>>

Answers(q, a) == answer' = IF q.by = "client" /\ pc = "waiting" THEN a ELSE answer

\* handle_cloud_listen(): the assertion, the interrupt, a job of another type
\* or an empty one, and a job with a command.
HandleJob ==
  /\ server = "wait"
  /\ \E q \in queue :
       /\ queue' = queue \ {q}
       /\ IF ~ pointer
          THEN server' = "asserted" /\ UNCHANGED <<taken, answer>>
          ELSE IF interrupted \/ (q.by = "browser" /\ q.command = NoCommand)
          THEN Answers(q, "null") /\ UNCHANGED <<server, taken>>
          ELSE IF q.command = NoCommand
          THEN Answers(q, "output") /\ UNCHANGED <<server, taken>>
          ELSE server' = "execute" /\ taken' = q /\ UNCHANGED answer
  /\ UNCHANGED <<clientVars, settingsVars, pointer, interrupted>>

\* A listen() inside: it sets the pointer to its own server and, at its end, to
\* null.
ExecuteJob ==
  /\ server = "execute"
  /\ server' = "answer"
  /\ \E outcome \in Outcomes(taken.command) :
       IF taken.command.name = "listen" /\ outcome = "success"
       THEN pointer' = FALSE
       ELSE UNCHANGED pointer
  /\ UNCHANGED <<clientVars, settingsVars, interrupted, taken, queue, answer>>

AnswerJob ==
  /\ server = "answer"
  /\ server' = "wait" /\ taken' = NoCommand
  /\ Answers(taken, "output")
  /\ UNCHANGED <<clientVars, settingsVars, pointer, interrupted, queue>>

\* start() returns, after an interrupt or at its timeout.
StopListen ==
  /\ server = "wait"
  /\ server' = "off"
  /\ pointer' = FALSE /\ interrupted' = FALSE
  /\ UNCHANGED <<clientVars, settingsVars, taken, queue, answer>>

Server ==
  Listen \/ Interrupt \/ HandleJob \/ ExecuteJob \/ AnswerJob \/ StopListen

Next == Start \/ Client \/ Server \/ Browse

Spec == Init /\ [][Next]_vars

\* main() runs; the service and the server owe the client nothing.
FairSpec == Spec /\ WF_vars(Client)

-----------------------------------------------------------------------------
(***************************************************************************)
(* A line with an unknown switch or group is refused as a whole: none of   *)
(* its commands runs or is published before the mistake is noticed         *)
(* (execute_command_list() checks all groups first).                       *)
(***************************************************************************)
RefusedWhole ==
  switches = "unknown" \/ (\E i \in DOMAIN line : ~ HasGroup(line[i]))
    => ran = <<>> /\ posts = 0 /\ code # "0"

(***************************************************************************)
(* The commands of a line run here or are published, never both, although  *)
(* the publication may fail midway.  Here they run from left to right, the *)
(* first that fails ends the line with exit code 1, and a line that ended  *)
(* with 0 without having been published has run completely.                *)
(***************************************************************************)
HereOrThere ==
  /\ ran = <<>> \/ posts = 0
  /\ \A i \in DOMAIN ran :
       ran[i] # "success" => i = Len(ran) /\ pc = "exit" /\ code = "1"
  /\ code = "0" /\ posts = 0 => ran = [i \in DOMAIN line |-> "success"]

\* What CommandLines calls the fate of a line, and the rest of its variables.
Fate == IF posts > 0 THEN "there" ELSE IF ran # <<>> THEN "here" ELSE "open"

Left == Len(line) - Len(ran)

Faulty == \E i \in DOMAIN line : ~ HasGroup(line[i])

Failed == \E i \in DOMAIN ran : ran[i] # "success"

Promise ==
  INSTANCE CommandLines
    WITH fate <- Fate, left <- Left, faulty <- Faulty, failed <- Failed, code <- code

(***************************************************************************)
(* Line after line, whatever switches, shortcuts, the settings and the     *)
(* other sl do: a line is refused before it has an effect, or it runs      *)
(* here, or it is published, and its exit code says so.                    *)
(***************************************************************************)
KeepsPromise == Promise!Spec

(***************************************************************************)
(* The arguments of every command that a line may hold reach its handler   *)
(* as they were typed.                                                     *)
(***************************************************************************)
ArgumentsBound == \A i \in DOMAIN line : Bound(line[i].args)

(***************************************************************************)
(* A line that waits for a job server with a timeout goes on, whatever the *)
(* server does, so that every line ends.                                   *)
(***************************************************************************)
LineEnds == Timed => (pc = "waiting" ~> pc = "exit")

(***************************************************************************)
(* What cloud.connect promises: "Commans will be posted to the job id while*)
(* the job server is active."  (Cloud.cpp:372)                             *)
(***************************************************************************)
CommandsPosted == \A q \in queue : q.by = "client" => q.command # NoCommand
=============================================================================
