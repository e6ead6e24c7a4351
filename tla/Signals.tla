------------------------------- MODULE Signals -------------------------------
(***************************************************************************)
(* task.signal (groups/Task.cpp): a signal for a process or a thread of    *)
(* the device.  A process that is given by name is looked up first, with a *)
(* request of its own; the signal is sent with another one, by number.     *)
(* The device's processes start and exit in between.                       *)
(*                                                                         *)
(* A command may complain, that is print a failure, and still return       *)
(* true: the exit code is what it returns.                                 *)
(***************************************************************************)
EXTENDS Naturals

CONSTANTS
  Threads,  \* ids of threads
  Pids,     \* ids of processes
  Applications,    \* of applications
  NoName    \* no name is given

ASSUME SignalsAssumption ==
  Threads \subseteq Nat \ {0} /\ Pids \subseteq Nat \ {0} /\ NoName \notin Applications

VARIABLES
  tasks,       \* thread -> the process it belongs to
  mode,        \* of the device: "os", "bootloader", or "gone"
  linked,      \* what connection() has: "os", "bootloader", or "none"
  sending,        \* where the command is
  signal,      \* its arguments
  target,      \* pid_value; 0 for -1
  complained,  \* a failure has been printed
  returned,    \* what the command returned: "none", "true" or "false"
  hit,         \* what the signal was delivered to
  moved        \* history: processes came or went under target after the lookup

signalVars == <<tasks, mode, linked, sending, signal, target, complained, returned, hit,
                moved>>

NoTask == [pid |-> 0, name |-> NoName]

\* 0 and NoName stand for arguments that are not given; value is data.
Signals ==
  [known : BOOLEAN, name : Applications \cup {NoName}, pid : Pids \cup {0},
   id : Threads \cup {0}]

\* One command is enough: all that it leaves to the next is the link, which may have
\* been made before.
SignalsInit ==
  /\ tasks = [t \in Threads |-> NoTask]
  /\ mode \in {"os", "bootloader", "gone"} /\ linked \in {"os", "bootloader", "none"}
  /\ mode # "gone" => linked \in {"none", mode}
  /\ sending = "idle" /\ signal = [known |-> FALSE, name |-> NoName, pid |-> 0, id |-> 0]
  /\ target = 0 /\ complained = FALSE /\ returned = "none"
  /\ hit = {} /\ moved = FALSE

-----------------------------------------------------------------------------
\* The device, at any moment.

Moved(p) == moved' = (moved \/ (sending = "kill" /\ p = target))

\* A thread of a process that runs has that process' name.
StartThread(t, p, n) ==
  /\ mode = "os" /\ tasks[t] = NoTask
  /\ \A u \in Threads : tasks[u].pid = p => tasks[u].name = n
  /\ tasks' = [tasks EXCEPT ![t] = [pid |-> p, name |-> n]]
  /\ Moved(p)
  /\ UNCHANGED <<mode, linked, sending, signal, target, complained, returned, hit>>

ExitThread(t) ==
  /\ tasks[t] # NoTask
  /\ tasks' = [tasks EXCEPT ![t] = NoTask]
  /\ Moved(tasks[t].pid)
  /\ UNCHANGED <<mode, linked, sending, signal, target, complained, returned, hit>>

\* A link does not survive its device: one that is attached again answers over a
\* new link only.
Unplug ==
  /\ mode # "gone" /\ mode' = "gone"
  /\ tasks' = [t \in Threads |-> NoTask]
  /\ moved' = (moved \/ sending = "kill")
  /\ UNCHANGED <<linked, sending, signal, target, complained, returned, hit>>

Attach(m) ==
  /\ mode = "gone" /\ linked = "none" /\ mode' = m
  /\ UNCHANGED <<tasks, linked, sending, signal, target, complained, returned, hit, moved>>

\* Another command finds out that the link is dead.
Disconnect ==
  /\ sending = "idle" /\ mode = "gone" /\ linked # "none" /\ linked' = "none"
  /\ UNCHANGED <<tasks, mode, sending, signal, target, complained, returned, hit, moved>>

-----------------------------------------------------------------------------
\* task.signal.

SignalReturn(result) == sending' = "idle" /\ returned' = result

\* is_connection_ready(): a link that is up, or one that is made now.
SignalBegin(s) ==
  /\ sending = "idle" /\ returned = "none" /\ sending' = "target"
  /\ linked = "os" \/ (linked = "none" /\ mode = "os")
  /\ linked' = "os"
  /\ signal' = s /\ complained' = ~ s.known
  /\ UNCHANGED <<tasks, mode, target, returned, hit, moved>>

\* Without a device, and with a bootloader, the failure is printed and no error
\* is pending: the retry loop has reset it.
SignalNotReady(s) ==
  /\ sending = "idle" /\ returned = "none" /\ linked # "os"
  /\ linked' = IF linked = "none" /\ mode = "bootloader" THEN mode ELSE linked
  /\ signal' = s /\ SignalReturn("true") /\ complained' = TRUE
  /\ UNCHANGED <<tasks, mode, target, hit, moved>>

SignalFails == SignalReturn("false") /\ complained' = TRUE

\* The pid: of the process with the name if one is given, which has to be found
\* even if the thread that is given makes it unnecessary.
SignalTarget ==
  /\ sending = "target"
  /\ IF signal.name # NoName
     THEN \/ /\ \E t \in Threads : tasks[t].name = signal.name /\ target' = tasks[t].pid
             /\ sending' = "kill" /\ UNCHANGED <<complained, returned>>
          \/ SignalFails /\ UNCHANGED target
     ELSE IF signal.pid = 0 /\ signal.id = 0
     THEN SignalFails /\ UNCHANGED target
     ELSE target' = signal.pid /\ sending' = "kill" /\ UNCHANGED <<complained, returned>>
  /\ UNCHANGED <<tasks, mode, linked, signal, hit, moved>>

\* Mutant of Reached: both requests are sent with the pid.
ReachedByPid ==
  {t \in Threads : IF signal.id # 0 THEN t = target /\ tasks[t] # NoTask
                   ELSE tasks[t].pid = target /\ tasks[t] # NoTask}

\* I_SYS_PTHREADKILL or I_SYS_KILL.
Reached ==
  {t \in Threads : IF signal.id # 0 THEN t = signal.id /\ tasks[t] # NoTask
                   ELSE tasks[t].pid = target /\ tasks[t] # NoTask}

\* A signal that was not recognized is sent as -1, which the device may refuse.
SignalKill ==
  /\ sending = "kill"
  /\ \/ /\ mode = "os" /\ Reached # {}
        /\ hit' = {[thread |-> t, task |-> tasks[t]] : t \in Reached}
        /\ SignalReturn("true") /\ UNCHANGED complained
     \/ SignalFails /\ UNCHANGED hit
  /\ UNCHANGED <<tasks, mode, linked, signal, target, moved>>

-----------------------------------------------------------------------------
SignalsNext ==
  \/ \E t \in Threads : ExitThread(t)
                          \/ \E p \in Pids, n \in Applications : StartThread(t, p, n)
  \/ Unplug \/ Disconnect \/ \E m \in {"os", "bootloader"} : Attach(m)
  \/ \E s \in Signals : SignalBegin(s) \/ SignalNotReady(s)
  \/ SignalTarget \/ SignalKill

SignalsSpec == SignalsInit /\ [][SignalsNext]_signalVars

-----------------------------------------------------------------------------
(***************************************************************************)
(* A signal reaches what was asked for and nothing else: the thread of the *)
(* id, or the threads of the process with the name or the pid.  Between    *)
(* lookup and signal the pid may pass to another process; no other way     *)
(* leads to a wrong one.  An id without a pid asks for the thread; what a  *)
(* pid that is given with a name or an id asks for is left open: the help  *)
(* of the two claims precedence for each, and the code takes the id.  And  *)
(* task.signal that neither fails nor complains has reached something.     *)
(***************************************************************************)
SignalSound ==
  /\ \A h \in hit :
       LET thread == signal.id # 0 /\ h.thread = signal.id
           named == signal.name # NoName /\ (h.task.name = signal.name \/ moved)
           numbered == signal.pid # 0 /\ h.task.pid = signal.pid
       IN  thread \/ ((signal.id = 0 \/ signal.pid # 0) /\ (named \/ numbered))
  /\ returned = "true" /\ ~ complained => hit # {}
=============================================================================
