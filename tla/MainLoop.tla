------------------------------ MODULE MainLoop ------------------------------
(***************************************************************************)
(* main.cpp after the groups are registered: the commands of the command   *)
(* line run, then one loop drives the three updaters (terminal, task       *)
(* monitor, debug trace) until none of them is busy, and then finalizes.   *)
(* utilities/Updater, groups/Terminal, groups/Task and groups/DebugTrace   *)
(* give each updater its timers and its update() step.                     *)
(*                                                                         *)
(* The terminal may watch an application (terminal.run:while=<name>).  It  *)
(* never asks the device about it: it looks into the static snapshot that  *)
(* Task::update() last stored, so two updaters with timers of their own    *)
(* interact through m_latest_snapshot.                                     *)
(*                                                                         *)
(* Time is counted in turns of the loop; what the device's tasks print is  *)
(* left out.  Every timer is capped at MaxTime, above all durations.       *)
(***************************************************************************)
EXTENDS Integers, FiniteSets

CONSTANTS
  Pids,         \* process ids of the device, 0 is the system's
  Durations,    \* values of the duration arguments in turns; 0 is for ever
  Period,       \* updater -> its update period, in turns
  MinDuration,  \* Terminal::m_minimum_duration
  MissLimit,    \* 50 in Terminal::update()
  MaxTime       \* where the model stops counting time

Updaters == {"terminal", "task", "debug"}

ASSUME LoopAssumption ==
  /\ Pids \subseteq Nat \ {0}
  /\ Durations \subseteq Nat
  /\ Period \in [Updaters -> Nat \ {0}]
  /\ MinDuration \in Nat /\ MissLimit \in Nat /\ MaxTime \in Nat
  /\ \A d \in Durations : d <= MaxTime
  /\ \A u \in Updaters : Period[u] <= MaxTime
  /\ MinDuration < MaxTime

VARIABLES
  pc,           \* where the main thread is
  busy,         \* is_busy
  listening,    \* session_settings().is_listen_mode()
  interrupted,  \* m_is_interrupted, set by the SIGINT handler
  running,      \* updater -> m_duration_timer.is_running()
  elapsed,      \* updater -> value of m_duration_timer
  since,        \* updater -> value of m_update_timer
  duration,     \* updater -> m_duration
  initialized,  \* updater -> m_is_initialized
  whileName,    \* m_while_name is set
  whilePid,     \* m_while_pid
  misses,       \* m_while_pid_counter
  latest,       \* Task::m_latest_snapshot: pid -> the task that has it
  tasks,        \* the device's tasks: pid -> the task that has it
  connected,    \* the device answers
  writeBlock    \* the device's stdout blocks its writers

loopVars == <<pc, busy, listening, interrupted>>
timerVars == <<running, elapsed, since, duration, initialized>>
watchVars == <<whileName, whilePid, misses>>
deviceVars == <<tasks, connected, writeBlock>>
vars == <<loopVars, timerVars, watchVars, latest, deviceVars>>

\* What runs under a pid: nothing, the watched application, another task.
Tasks == {"none", "watched", "other"}

InLoop == {"switch", "terminal", "task", "debug", "wait", "again"}

TypeOK ==
  /\ pc \in {"commands", "start", "finalize", "disconnect", "done", "failed"} \cup InLoop
  /\ busy \in BOOLEAN /\ listening \in BOOLEAN /\ interrupted \in BOOLEAN
  /\ running \in [Updaters -> BOOLEAN]
  /\ elapsed \in [Updaters -> 0..MaxTime]
  /\ since \in [Updaters -> 0..MaxTime]
  /\ duration \in [Updaters -> Durations \cup {0}]
  /\ initialized \in [Updaters -> BOOLEAN]
  /\ whileName \in BOOLEAN
  /\ whilePid \in Pids \cup {-1, 0}
  /\ misses \in 0..(MissLimit + 1)
  /\ latest \in [Pids -> Tasks]
  /\ tasks \in [Pids -> Tasks]
  /\ connected \in BOOLEAN /\ writeBlock \in BOOLEAN

Init ==
  /\ pc = "commands" /\ busy = TRUE
  /\ listening \in BOOLEAN /\ interrupted = FALSE
  /\ running = [u \in Updaters |-> FALSE]
  /\ elapsed = [u \in Updaters |-> 0]
  /\ since = [u \in Updaters |-> 0]
  /\ duration = [u \in Updaters |-> 0]
  /\ initialized = [u \in Updaters |-> FALSE]
  /\ whileName = FALSE /\ whilePid = 0 /\ misses = 0
  /\ latest = [p \in Pids |-> "none"]
  /\ tasks = [p \in Pids |-> "none"]
  /\ connected = TRUE /\ writeBlock = FALSE

-----------------------------------------------------------------------------
\* Updater.

\* start_timers() of an updater that is not running; a running ClockTimer
\* either goes on or starts again.
StartTimers(u) ==
  /\ running' = [running EXCEPT ![u] = TRUE]
  /\ elapsed' \in IF running[u] THEN {elapsed, [elapsed EXCEPT ![u] = 0]}
                  ELSE {[elapsed EXCEPT ![u] = 0]}
  /\ since' = [since EXCEPT ![u] = 0]

ExpiredByUpdateTimer(u) == running[u] /\ duration[u] # 0 /\ since[u] >= duration[u]

Expired(u) == running[u] /\ duration[u] # 0 /\ elapsed[u] >= duration[u]

IsTimeToUpdate(u) == running[u] /\ ~ Expired(u) /\ since[u] >= Period[u]

-----------------------------------------------------------------------------
\* The device and the user, at any moment.

StartTask(p, t) ==
  /\ tasks[p] = "none"
  /\ t = "watched" => \A q \in Pids : tasks[q] # "watched"
  /\ tasks' = [tasks EXCEPT ![p] = t]
  /\ UNCHANGED <<loopVars, timerVars, watchVars, latest, connected, writeBlock>>

ExitTask(p) ==
  /\ tasks[p] # "none"
  /\ tasks' = [tasks EXCEPT ![p] = "none"]
  /\ UNCHANGED <<loopVars, timerVars, watchVars, latest, connected, writeBlock>>

Unplug ==
  /\ connected
  /\ connected' = FALSE
  /\ UNCHANGED <<loopVars, timerVars, watchVars, latest, tasks, writeBlock>>

\* The handler is installed just before the loop.
Sigint ==
  /\ pc \in InLoop
  /\ interrupted' = TRUE
  /\ UNCHANGED <<pc, busy, listening, timerVars, watchVars, latest, deviceVars>>

-----------------------------------------------------------------------------
\* Commands that start an updater: those of the command line, then in listen
\* mode those that a worker of LocalServer runs beside the main thread.  A
\* command of the command line that fails ends the program with exit(1),
\* whatever was started before it.

CanRun ==
  \/ pc = "commands"
  \/ listening /\ pc \in {"start", "finalize", "disconnect"} \cup InLoop

RunTerminal(d, watch) ==
  /\ CanRun /\ connected
  /\ StartTimers("terminal")
  /\ duration' = [duration EXCEPT !["terminal"] = d]
  /\ initialized' = [initialized EXCEPT !["terminal"] = TRUE]
  /\ writeBlock' = TRUE
  /\ whileName' = (watch \/ whileName)
  /\ whilePid' = IF watch THEN -1 ELSE whilePid
  /\ UNCHANGED <<loopVars, misses, latest, tasks, connected>>

\* The log file cannot be opened: the arguments are stored already, and a
\* terminal that runs goes on with them.
RunTerminalFails(d, watch) ==
  /\ CanRun /\ connected
  /\ pc' = IF pc = "commands" THEN "failed" ELSE pc
  /\ duration' = [duration EXCEPT !["terminal"] = d]
  /\ whileName' = (watch \/ whileName)
  /\ whilePid' = IF watch THEN -1 ELSE whilePid
  /\ UNCHANGED <<busy, listening, interrupted, running, elapsed, since,
                 initialized, misses, latest, deviceVars>>

StartMonitor(u, d) ==
  /\ CanRun /\ connected
  /\ StartTimers(u)
  /\ duration' = [duration EXCEPT ![u] = d]
  /\ initialized' = [initialized EXCEPT ![u] = TRUE]
  /\ UNCHANGED <<loopVars, watchVars, latest, deviceVars>>

Analyze(d) == StartMonitor("task", d)

ExecuteTrace(d) == StartMonitor("debug", d)

CommandFails ==
  /\ pc = "commands"
  /\ pc' = "failed"
  /\ UNCHANGED <<busy, listening, interrupted, timerVars, watchVars, latest,
                 deviceVars>>

CommandsDone ==
  /\ pc = "commands"
  /\ pc' = IF listening \/ \E u \in Updaters : running[u] THEN "start" ELSE "done"
  /\ UNCHANGED <<busy, listening, interrupted, timerVars, watchVars, latest,
                 deviceVars>>

-----------------------------------------------------------------------------
\* The loop.

\* task.initialize() starts the task monitor for whatever updater runs, and
\* leaves it as initialized as it was.  It does not when the device is known to
\* be gone, or when in listen mode no command has connected one.
StartLoop ==
  /\ pc = "start"
  /\ pc' = "switch"
  /\ \/ StartTimers("task")
     \/ /\ ~ connected \/ \A u \in Updaters : ~ running[u]
        /\ UNCHANGED <<running, elapsed, since>>
  /\ UNCHANGED <<busy, listening, interrupted, duration, initialized, watchVars,
                 latest, deviceVars>>

SwitchedOffDebug ==
  IF initialized["terminal"] /\ ~ running["terminal"]
  THEN [running EXCEPT !["debug"] = FALSE] ELSE running

\* The terminal acts as a master off switch.
SwitchedOff ==
  IF initialized["terminal"] /\ ~ running["terminal"]
  THEN [u \in Updaters |-> FALSE] ELSE running

Switch ==
  /\ pc = "switch"
  /\ pc' = "terminal"
  /\ busy' = listening
  /\ running' = SwitchedOff
  /\ UNCHANGED <<listening, interrupted, elapsed, since, duration, initialized,
                 watchVars, latest, deviceVars>>

\* The part all updates share: expiry, the restart of the update timer, busy.
Update(u, runs) ==
  /\ running' = [running EXCEPT ![u] = runs /\ ~ Expired(u)]
  /\ since' = IF IsTimeToUpdate(u) THEN [since EXCEPT ![u] = 0] ELSE since
  /\ busy' = (busy \/ running'[u])

\* Task::get_pid_from_name() and Task::is_pid_running().
FindPid(snapshot) ==
  LET found == {p \in Pids : snapshot[p] = "watched"}
  IN IF found = {} THEN -1 ELSE CHOOSE p \in found : TRUE

IsPidRunning(p, snapshot) == p = 0 \/ (p \in Pids /\ snapshot[p] # "none")

\* The pid Terminal::update() checks: looked up by name until it is found.
CheckedPid == IF whilePid < 0 /\ whileName THEN FindPid(latest) ELSE whilePid

CountMissesAfresh(missing, counted) ==
  IF missing THEN IF counted THEN 1 ELSE misses ELSE 0

\* m_while_pid_counter after a check that finds the process missing or not.
\* A later terminal.run does not reset it; the model stops above the limit.
CountMisses(missing, counted) ==
  IF missing
  THEN IF counted /\ misses <= MissLimit THEN misses + 1 ELSE misses
  ELSE 0

TerminalUpdate ==
  LET pid == CheckedPid
      late == elapsed["terminal"] > MinDuration
      never == pid < 0 /\ late
      missing == ~ never /\ ~ IsPidRunning(pid, latest)
      next == IF never THEN misses ELSE CountMisses(missing, late)
  IN
  /\ pc = "terminal"
  /\ pc' = "task"
  /\ IF IsTimeToUpdate("terminal")
     THEN /\ misses' = next
          /\ whilePid' = IF missing /\ ~ late THEN -1 ELSE pid
          /\ Update("terminal", running["terminal"] /\ ~ never /\ next <= MissLimit)
     ELSE UNCHANGED <<misses, whilePid>> /\ Update("terminal", running["terminal"])
  /\ UNCHANGED <<listening, interrupted, elapsed, duration, initialized,
                 whileName, latest, deviceVars>>

SampledEveryTurn ==
  IF connected /\ IsTimeToUpdate("task") THEN tasks ELSE [p \in Pids |-> "none"]

\* m_latest_snapshot; without a device get_info() returns an empty list.
Sampled ==
  IF ~ IsTimeToUpdate("task") THEN latest
  ELSE IF connected THEN tasks ELSE [p \in Pids |-> "none"]

TaskUpdate ==
  /\ pc = "task"
  /\ pc' = "debug"
  /\ latest' = Sampled
  /\ Update("task", running["task"])
  /\ UNCHANGED <<listening, interrupted, elapsed, duration, initialized,
                 watchVars, deviceVars>>

DebugUpdate ==
  /\ pc = "debug"
  /\ pc' = "wait"
  /\ Update("debug", running["debug"])
  /\ UNCHANGED <<listening, interrupted, elapsed, duration, initialized,
                 watchVars, latest, deviceVars>>

\* One turn passes on every timer that runs.
Wait ==
  /\ pc = "wait"
  /\ pc' = "again"
  /\ elapsed' = [u \in Updaters |-> IF running[u] /\ elapsed[u] < MaxTime
                                    THEN elapsed[u] + 1 ELSE elapsed[u]]
  /\ since' = [u \in Updaters |-> IF running[u] /\ since[u] < Period[u]
                                  THEN since[u] + 1 ELSE since[u]]
  /\ UNCHANGED <<busy, listening, interrupted, running, duration, initialized,
                 watchVars, latest, deviceVars>>

Again ==
  /\ pc = "again"
  /\ pc' = IF busy /\ ~ interrupted THEN "switch" ELSE "finalize"
  /\ UNCHANGED <<busy, listening, interrupted, timerVars, watchVars, latest,
                 deviceVars>>

FinalizeRunning ==
  /\ pc = "finalize"
  /\ pc' = "disconnect"
  /\ writeBlock' = (writeBlock /\ ~ (running["terminal"] /\ connected))
  /\ running' = [running EXCEPT !["debug"] = @ /\ ~ initialized["debug"]]
  /\ initialized' = [initialized EXCEPT !["debug"] = FALSE]
  /\ UNCHANGED <<busy, listening, interrupted, elapsed, since, duration,
                 watchVars, latest, tasks, connected>>

\* terminal.finalize() removes the write block of a device that still
\* answers, and debug_trace.finalize() stops its timers.
Finalize ==
  /\ pc = "finalize"
  /\ pc' = "disconnect"
  /\ writeBlock' = (writeBlock /\ ~ (initialized["terminal"] /\ connected))
  /\ running' = [running EXCEPT !["debug"] = @ /\ ~ initialized["debug"]]
  /\ initialized' = [initialized EXCEPT !["debug"] = FALSE]
  /\ UNCHANGED <<busy, listening, interrupted, elapsed, since, duration,
                 watchVars, latest, tasks, connected>>

\* The settings are saved and the device is left.
Disconnect ==
  /\ pc = "disconnect"
  /\ pc' = "done"
  /\ UNCHANGED <<busy, listening, interrupted, timerVars, watchVars, latest,
                 deviceVars>>

-----------------------------------------------------------------------------
Commands ==
  \/ \E d \in Durations, watch \in BOOLEAN :
       RunTerminal(d, watch) \/ RunTerminalFails(d, watch)
  \/ \E d \in Durations : Analyze(d) \/ ExecuteTrace(d)
  \/ CommandFails

Main ==
  \/ CommandsDone \/ StartLoop \/ Switch \/ TerminalUpdate \/ TaskUpdate
  \/ DebugUpdate \/ Wait \/ Again \/ Finalize \/ Disconnect

Device ==
  \/ \E p \in Pids : ExitTask(p) \/ \E t \in Tasks \ {"none"} : StartTask(p, t)
  \/ Unplug

Next == Commands \/ Main \/ Device \/ Sigint

Spec == Init /\ [][Next]_vars

\* The main thread is never stopped; device and user owe nothing.
FairSpec == Spec /\ WF_vars(Main)

-----------------------------------------------------------------------------
(***************************************************************************)
(* "terminal can act as a master off switch" (main.cpp): once the terminal *)
(* has stopped, for whatever reason, sl ends, although task.initialize()   *)
(* made the task monitor run for ever.  In listen mode the loop goes on.   *)
(***************************************************************************)
TerminalEndsLoop ==
  (pc \in InLoop /\ initialized["terminal"] /\ ~ running["terminal"] /\ ~ listening)
    ~> (pc = "done")

(***************************************************************************)
(* terminal.run:duration=<n> ends sl whatever the application, the device  *)
(* and the other updaters do.                                              *)
(***************************************************************************)
DurationEndsLoop ==
  (pc \in InLoop /\ initialized["terminal"] /\ duration["terminal"] # 0 /\ ~ listening)
    ~> (pc = "done")

(***************************************************************************)
(* The device's stdout does not keep blocking the processes that write to  *)
(* it when sl ends in order and still has the device, however the loop was *)
(* left.  In listen mode a worker may run terminal.run after               *)
(* terminal.finalize(), and the block stays.                               *)
(***************************************************************************)
WriteBlockRemoved == pc = "done" /\ connected /\ ~ listening => ~ writeBlock

WatchedGone == \A p \in Pids : tasks[p] # "watched"

PidFree == whilePid \in Pids => tasks[whilePid] = "none"

(***************************************************************************)
(* A terminal that watches an application stops when the application is    *)
(* gone for good, provided its pid is not given to another task and the    *)
(* task monitor keeps taking snapshots.                                    *)
(***************************************************************************)
WatchEndsTerminal ==
  <>[](WatchedGone /\ PidFree /\ running["task"] /\ whileName /\ ~ listening)
    => <>[](~ running["terminal"] \/ interrupted \/ pc \notin InLoop)
=============================================================================
