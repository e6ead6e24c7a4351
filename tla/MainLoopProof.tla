--------------------------- MODULE MainLoopProof ---------------------------
(***************************************************************************)
(* What TLAPS proves of MainLoop: its type invariant, that the device is   *)
(* not left with blocking writers, and that a watched application that     *)
(* runs on is not cut off.                                                 *)
(***************************************************************************)
EXTENDS MCMainLoop, TLAPS

LEMMA TypeInit == Init => TypeOK
<1>1. ASSUME Init PROVE elapsed \in [Updaters -> 0..MaxTime] /\ since \in [Updaters -> 0..MaxTime]
  BY <1>1, LoopAssumption DEF Init
<1>2. ASSUME Init PROVE misses \in 0..(MissLimit + 1)
  BY <1>2, LoopAssumption DEF Init
<1> QED BY <1>1, <1>2 DEF Init, TypeOK, Tasks

LEMMA Names == /\ "terminal" \in Updaters /\ "task" \in Updaters /\ "debug" \in Updaters
               /\ "none" \in Tasks
BY DEF Updaters, Tasks

\* The timers after the helpers that actions share.
LEMMA StartTimersType ==
  ASSUME TypeOK, NEW u \in Updaters, StartTimers(u)
  PROVE  /\ running' \in [Updaters -> BOOLEAN]
         /\ elapsed' \in [Updaters -> 0..MaxTime]
         /\ since' \in [Updaters -> 0..MaxTime]
BY LoopAssumption DEF TypeOK, StartTimers

LEMMA UpdateType ==
  ASSUME TypeOK, NEW u \in Updaters, NEW runs \in BOOLEAN, Update(u, runs)
  PROVE  /\ running' \in [Updaters -> BOOLEAN]
         /\ since' \in [Updaters -> 0..MaxTime]
         /\ busy' \in BOOLEAN
<1>1. running' \in [Updaters -> BOOLEAN]
  BY DEF TypeOK, Update, Expired
<1>2. since' \in [Updaters -> 0..MaxTime]
  BY LoopAssumption DEF TypeOK, Update
<1>3. busy' \in BOOLEAN
  BY <1>1 DEF TypeOK, Update
<1> QED BY <1>1, <1>2, <1>3

LEMMA CheckedPidType ==
  ASSUME TypeOK
  PROVE  CheckedPid \in Pids \cup {-1, 0}
BY DEF TypeOK, CheckedPid, FindPid

LEMMA CountMissesType ==
  ASSUME TypeOK, NEW missing \in BOOLEAN, NEW counted \in BOOLEAN
  PROVE  CountMisses(missing, counted) \in 0..(MissLimit + 1)
BY LoopAssumption DEF TypeOK, CountMisses

\* A command that starts an updater keeps the types.
LEMMA CommandType ==
  ASSUME TypeOK, Commands
  PROVE  TypeOK'
<1>1. ASSUME NEW d \in Durations, NEW watch \in BOOLEAN, RunTerminal(d, watch)
      PROVE  TypeOK'
  BY <1>1, StartTimersType, Names DEF TypeOK, RunTerminal, loopVars
<1>2. ASSUME NEW u \in Updaters, NEW d \in Durations, StartMonitor(u, d)
      PROVE  TypeOK'
  BY <1>2, StartTimersType DEF TypeOK, StartMonitor, loopVars, watchVars, deviceVars
<1>3. ASSUME NEW d \in Durations, Analyze(d) \/ ExecuteTrace(d)
      PROVE  TypeOK'
  BY <1>2, <1>3, Names DEF Analyze, ExecuteTrace
<1>4. CASE CommandFails
  BY <1>4 DEF TypeOK, CommandFails, timerVars, watchVars, deviceVars
<1>5. ASSUME NEW d \in Durations, NEW watch \in BOOLEAN, RunTerminalFails(d, watch)
      PROVE  TypeOK'
  BY <1>5, Names DEF TypeOK, RunTerminalFails, deviceVars
<1> QED BY <1>1, <1>3, <1>4, <1>5 DEF Commands

LEMMA TerminalUpdateType ==
  ASSUME TypeOK, TerminalUpdate
  PROVE  TypeOK'
<1> DEFINE pid == CheckedPid
           late == elapsed["terminal"] > MinDuration
           never == pid < 0 /\ late
           missing == ~ never /\ ~ IsPidRunning(pid, latest)
           next == IF never THEN misses ELSE CountMisses(missing, late)
<1>1. pid \in Pids \cup {-1, 0}
  BY CheckedPidType
<1>2. next \in 0..(MissLimit + 1)
  BY CountMissesType, missing \in BOOLEAN, late \in BOOLEAN DEF TypeOK
<1>3. PICK runs \in BOOLEAN : Update("terminal", runs)
  <2>1. CASE IsTimeToUpdate("terminal")
    BY <2>1, (running["terminal"] /\ ~ never /\ next <= MissLimit) \in BOOLEAN
       DEF TerminalUpdate
  <2>2. CASE ~ IsTimeToUpdate("terminal")
    BY <2>2, Names DEF TerminalUpdate, TypeOK
  <2> QED BY <2>1, <2>2
<1>4. /\ running' \in [Updaters -> BOOLEAN]
      /\ since' \in [Updaters -> 0..MaxTime]
      /\ busy' \in BOOLEAN
  BY <1>3, UpdateType, Names
<1>5. misses' \in 0..(MissLimit + 1) /\ whilePid' \in Pids \cup {-1, 0}
  BY <1>1, <1>2 DEF TerminalUpdate, TypeOK
<1> QED
  BY <1>4, <1>5 DEF TypeOK, TerminalUpdate, deviceVars, InLoop

LEMMA MainType ==
  ASSUME TypeOK, Main
  PROVE  TypeOK'
<1>1. CASE CommandsDone
  BY <1>1 DEF TypeOK, CommandsDone, timerVars, watchVars, deviceVars
<1>2. CASE StartLoop
  <2>1. /\ running' \in [Updaters -> BOOLEAN]
        /\ elapsed' \in [Updaters -> 0..MaxTime]
        /\ since' \in [Updaters -> 0..MaxTime]
    BY <1>2, StartTimersType, Names DEF StartLoop, TypeOK
  <2> QED BY <1>2, <2>1 DEF TypeOK, StartLoop, watchVars, deviceVars, InLoop
<1>3. CASE Switch
  BY <1>3 DEF TypeOK, Switch, SwitchedOff, watchVars, deviceVars, InLoop
<1>4. CASE TerminalUpdate
  BY <1>4, TerminalUpdateType
<1>5. CASE TaskUpdate
  <2>1. /\ running' \in [Updaters -> BOOLEAN]
        /\ since' \in [Updaters -> 0..MaxTime]
        /\ busy' \in BOOLEAN
    BY <1>5, UpdateType, Names DEF TaskUpdate, TypeOK
  <2>2. latest' \in [Pids -> Tasks]
    BY <1>5 DEF TaskUpdate, Sampled, TypeOK, Tasks
  <2> QED BY <1>5, <2>1, <2>2 DEF TypeOK, TaskUpdate, watchVars, deviceVars, InLoop
<1>6. CASE DebugUpdate
  <2>1. /\ running' \in [Updaters -> BOOLEAN]
        /\ since' \in [Updaters -> 0..MaxTime]
        /\ busy' \in BOOLEAN
    BY <1>6, UpdateType, Names DEF DebugUpdate, TypeOK
  <2> QED BY <1>6, <2>1 DEF TypeOK, DebugUpdate, watchVars, deviceVars, InLoop
<1>7. CASE Wait
  <2>1. elapsed' \in [Updaters -> 0..MaxTime] /\ since' \in [Updaters -> 0..MaxTime]
    BY <1>7, LoopAssumption DEF Wait, TypeOK
  <2> QED BY <1>7, <2>1 DEF TypeOK, Wait, watchVars, deviceVars, InLoop
<1>8. CASE Again
  BY <1>8 DEF TypeOK, Again, timerVars, watchVars, deviceVars, InLoop
<1>9. CASE Finalize
  BY <1>9 DEF TypeOK, Finalize, watchVars
<1>10. CASE Disconnect
  BY <1>10 DEF TypeOK, Disconnect, timerVars, watchVars, deviceVars
<1> QED
  BY <1>1, <1>2, <1>3, <1>4, <1>5, <1>6, <1>7, <1>8, <1>9, <1>10 DEF Main

LEMMA OutsideType ==
  ASSUME TypeOK, Device \/ Sigint
  PROVE  TypeOK'
<1>1. ASSUME NEW p \in Pids, NEW t \in Tasks \ {"none"}, StartTask(p, t)
      PROVE  TypeOK'
  BY <1>1 DEF TypeOK, StartTask, loopVars, timerVars, watchVars
<1>2. ASSUME NEW p \in Pids, ExitTask(p)
      PROVE  TypeOK'
  BY <1>2 DEF TypeOK, ExitTask, Tasks, loopVars, timerVars, watchVars
<1>3. CASE Unplug
  BY <1>3 DEF TypeOK, Unplug, loopVars, timerVars, watchVars
<1>4. CASE Sigint
  BY <1>4 DEF TypeOK, Sigint, timerVars, watchVars, deviceVars
<1> QED BY <1>1, <1>2, <1>3, <1>4 DEF Device

(***************************************************************************)
(* Every variable of the loop keeps its type: in particular the count of   *)
(* misses stops just above the limit and m_while_pid is a pid, -1 or 0.    *)
(***************************************************************************)
THEOREM TypeCorrect == Spec => []TypeOK
<1>1. TypeOK /\ [Next]_vars => TypeOK'
  <2>1. ASSUME TypeOK, UNCHANGED vars PROVE TypeOK'
    BY <2>1 DEF TypeOK, vars, loopVars, timerVars, watchVars, deviceVars
  <2> QED BY <2>1, CommandType, MainType, OutsideType DEF Next
<1> QED BY <1>1, TypeInit, PTL DEF Spec

-----------------------------------------------------------------------------
(***************************************************************************)
(* Why the block is removed: only a terminal that was initialized blocks   *)
(* the writers, and it stays initialized and running while commands run,   *)
(* so that the loop is entered and Finalize reached; after Finalize no     *)
(* command runs outside listen mode.                                       *)
(***************************************************************************)
BlockInv ==
  /\ TypeOK
  /\ writeBlock => initialized["terminal"]
  /\ pc = "commands" /\ writeBlock => running["terminal"]
  /\ pc \in {"disconnect", "done"} /\ connected /\ ~ listening => ~ writeBlock

\* An action that touches neither the block nor the terminal, and does not
\* get beyond Finalize.
LEMMA BlockKept ==
  ASSUME BlockInv,
         writeBlock' = writeBlock, listening' = listening,
         connected' => connected,
         initialized'["terminal"] = initialized["terminal"],
         pc' = "commands" => pc = "commands" /\ (running["terminal"] => running'["terminal"]),
         pc' \in {"disconnect", "done"} => pc \in {"disconnect", "done"} \/ ~ writeBlock
  PROVE  /\ writeBlock' => initialized'["terminal"]
         /\ pc' = "commands" /\ writeBlock' => running'["terminal"]
         /\ pc' \in {"disconnect", "done"} /\ connected' /\ ~ listening' => ~ writeBlock'
BY DEF BlockInv

LEMMA BlockStep == BlockInv /\ [Next]_vars => BlockInv'
<1> SUFFICES ASSUME BlockInv, [Next]_vars PROVE BlockInv'
  OBVIOUS
<1> USE DEF loopVars, timerVars, watchVars, deviceVars
<1>1. TypeOK /\ TypeOK'
  <2>1. ASSUME UNCHANGED vars PROVE TypeOK'
    BY <2>1 DEF BlockInv, TypeOK, vars
  <2> QED BY <2>1, CommandType, MainType, OutsideType DEF Next, BlockInv
<1> DEFINE Rest ==
      /\ writeBlock' => initialized'["terminal"]
      /\ pc' = "commands" /\ writeBlock' => running'["terminal"]
      /\ pc' \in {"disconnect", "done"} /\ connected' /\ ~ listening' => ~ writeBlock'
<1>2. Rest
  <2>1. ASSUME NEW d \in Durations, NEW watch \in BOOLEAN, RunTerminal(d, watch)
        PROVE  Rest
    BY <1>1, <2>1 DEF RunTerminal, StartTimers, CanRun, TypeOK, Updaters, InLoop
  <2>2. ASSUME NEW u \in Updaters, NEW d \in Durations, StartMonitor(u, d)
        PROVE  Rest
    BY <1>1, <2>2 DEF BlockInv, StartMonitor, StartTimers, TypeOK, Updaters
  <2>3. ASSUME NEW d \in Durations, Analyze(d) \/ ExecuteTrace(d)
        PROVE  Rest
    BY <2>2, <2>3, Names DEF Analyze, ExecuteTrace
  <2>4. CASE CommandFails \/ StartLoop \/ Switch \/ Wait \/ Again \/ Disconnect
    BY <2>4, BlockKept
       DEF CommandFails, StartLoop, Switch, Wait, Again, Disconnect
  <2>5. CASE CommandsDone
    BY <2>5, BlockKept DEF CommandsDone, BlockInv, Updaters
  <2>6. CASE TerminalUpdate \/ TaskUpdate \/ DebugUpdate
    BY <2>6, BlockKept DEF TerminalUpdate, TaskUpdate, DebugUpdate
  <2>7. CASE Finalize
    BY <1>1, <2>7 DEF BlockInv, Finalize, TypeOK, Updaters
  <2>8. CASE Device \/ Sigint
    BY <2>8, BlockKept DEF Device, StartTask, ExitTask, Unplug, Sigint, InLoop
  <2>9. ASSUME NEW d \in Durations, NEW watch \in BOOLEAN, RunTerminalFails(d, watch)
        PROVE  Rest
    BY <2>9, BlockKept DEF RunTerminalFails
  <2>10. CASE UNCHANGED vars
    BY <2>10, BlockKept DEF vars
  <2> QED
    BY <2>1, <2>3, <2>4, <2>5, <2>6, <2>7, <2>8, <2>9,
       <2>10 DEF Next, Commands, Main
<1> QED BY <1>1, <1>2 DEF BlockInv

(***************************************************************************)
(* When sl ends in order outside listen mode and still has the device, the *)
(* device's stdout does not block its writers, for every set of durations  *)
(* and periods and whatever device, user and other updaters do.            *)
(***************************************************************************)
THEOREM BlockRemoved == Spec => []WriteBlockRemoved
<1>1. Init => BlockInv
  BY TypeInit, Names DEF Init, BlockInv
<1>2. BlockInv => WriteBlockRemoved
  BY DEF BlockInv, WriteBlockRemoved
<1> QED BY <1>1, <1>2, BlockStep, PTL DEF Spec

-----------------------------------------------------------------------------
(***************************************************************************)
(* Why a watched application is not cut off: the pid was found in a        *)
(* snapshot, and every snapshot since was taken of a device on which that  *)
(* process ran, so that no check misses it, at whatever paces the two      *)
(* updaters run.                                                           *)
(***************************************************************************)
Watched == held => Alive /\ latest[whilePid] # "none"

LEMMA FoundIsListed ==
  ASSUME TypeOK, FindPid(latest) \in Pids
  PROVE  latest[FindPid(latest)] = "watched"
<1> DEFINE found == {p \in Pids : latest[p] = "watched"}
<1>1. found # {}
  BY LoopAssumption DEF FindPid
<1>2. FindPid(latest) \in found
  BY <1>1 DEF FindPid
<1> QED BY <1>2

\* The only step that gives the terminal a pid is a check that looks it up.
LEMMA PidGiven ==
  ASSUME TypeOK, Next, whilePid' \in Pids, whilePid' # whilePid
  PROVE  latest' = latest /\ latest[whilePid'] = "watched"
<1> USE DEF loopVars, timerVars, watchVars, deviceVars
<1>1. -1 \notin Pids
  BY LoopAssumption
<1>2. ASSUME NEW d \in Durations, NEW watch \in BOOLEAN,
             RunTerminal(d, watch) \/ RunTerminalFails(d, watch)
      PROVE  FALSE
  BY <1>1, <1>2 DEF RunTerminal, RunTerminalFails
<1>3. ASSUME NEW d \in Durations, Analyze(d) \/ ExecuteTrace(d) PROVE FALSE
  BY <1>3 DEF Analyze, ExecuteTrace, StartMonitor
<1>4. CASE CommandFails \/ Sigint \/ Device
  BY <1>4 DEF CommandFails, Sigint, Device, StartTask, ExitTask, Unplug
<1>5. CASE TerminalUpdate
  <2>1. latest' = latest /\ whilePid' = CheckedPid
    BY <1>1, <1>5 DEF TerminalUpdate
  <2>2. CheckedPid = FindPid(latest)
    BY <2>1 DEF CheckedPid
  <2> QED BY <2>1, <2>2, FoundIsListed
<1>6. CASE Main /\ ~ TerminalUpdate
  BY <1>6 DEF Main, CommandsDone, StartLoop, Switch, TaskUpdate, DebugUpdate, Wait,
              Again, Finalize, Disconnect
<1> QED BY <1>2, <1>3, <1>4, <1>5, <1>6 DEF Next, Commands

\* A new snapshot is of the device as it is.
LEMMA NewSnapshot ==
  ASSUME TypeOK, Next, latest' # latest
  PROVE  /\ whilePid' = whilePid /\ tasks' = tasks /\ connected' = connected
         /\ connected => latest' = tasks
<1> USE DEF loopVars, timerVars, watchVars, deviceVars
<1>1. TaskUpdate
  BY DEF Next, Commands, Main, Device, RunTerminal, RunTerminalFails, Analyze, ExecuteTrace,
         StartMonitor, CommandFails, CommandsDone, StartLoop, Switch, TerminalUpdate,
         DebugUpdate, Wait, Again, Finalize, Disconnect, StartTask, ExitTask, Unplug, Sigint
<1> QED BY <1>1 DEF TaskUpdate, Sampled

LEMMA WatchedStep == TypeOK /\ Watched /\ [WatchNext]_<<vars, held>> => Watched'
<1> SUFFICES ASSUME TypeOK, Watched, [WatchNext]_<<vars, held>>, held' PROVE Watched'
  BY DEF Watched
<1>1. CASE UNCHANGED <<vars, held>>
  BY <1>1 DEF Watched, Alive, vars, watchVars, deviceVars
<1>2. CASE WatchNext
  <2>1. Next /\ Alive' /\ whilePid' \in Pids /\ (held \/ whilePid' # whilePid)
    BY <1>2 DEF WatchNext, Alive
  <2>2. CASE whilePid' # whilePid
    BY <2>1, <2>2, PidGiven DEF Watched
  <2>3. CASE whilePid' = whilePid /\ latest' = latest
    BY <2>1, <2>3 DEF Watched
  <2>4. CASE whilePid' = whilePid /\ latest' # latest
    BY <2>1, <2>4, NewSnapshot DEF Watched, Alive
  <2> QED BY <2>2, <2>3, <2>4
<1> QED BY <1>1, <1>2

\* With the process in the snapshot, a check keeps the terminal running.
LEMMA WatchedCheck ==
  ASSUME TypeOK, Watched, held, TerminalUpdate, running["terminal"], ~ running'["terminal"]
  PROVE  Expired("terminal")
<1>1. whilePid \in Pids /\ latest[whilePid] # "none" /\ whilePid \in Nat
  BY LoopAssumption DEF Watched, Alive
<1>2. CheckedPid = whilePid /\ ~ CheckedPid < 0
  BY <1>1 DEF CheckedPid
<1>3. IsPidRunning(CheckedPid, latest)
  BY <1>1, <1>2 DEF IsPidRunning
<1>4. \A counted \in BOOLEAN : CountMisses(FALSE, counted) <= MissLimit
  BY LoopAssumption DEF CountMisses
<1>5. Update("terminal", running["terminal"])
  BY <1>2, <1>3, <1>4 DEF TerminalUpdate, CountMisses
<1> QED BY <1>5, Names DEF Update, TypeOK

LEMMA OthersLeaveIt ==
  ASSUME TypeOK, Next, pc = "terminal", running["terminal"], ~ running'["terminal"]
  PROVE  TerminalUpdate
<1> USE DEF loopVars, timerVars, watchVars, deviceVars
<1>1. ASSUME NEW d \in Durations, NEW watch \in BOOLEAN,
             RunTerminal(d, watch) \/ RunTerminalFails(d, watch)
      PROVE  FALSE
  BY <1>1, Names DEF RunTerminal, RunTerminalFails, StartTimers, TypeOK
<1>2. ASSUME NEW d \in Durations, Analyze(d) \/ ExecuteTrace(d) PROVE FALSE
  BY <1>2, Names DEF Analyze, ExecuteTrace, StartMonitor, StartTimers, TypeOK
<1>3. CASE CommandFails \/ Sigint \/ Device
  BY <1>3 DEF CommandFails, Sigint, Device, StartTask, ExitTask, Unplug
<1>4. CASE Main
  BY <1>4 DEF Main, CommandsDone, StartLoop, Switch, TaskUpdate, DebugUpdate, Wait,
              Again, Finalize, Disconnect
<1> QED BY <1>1, <1>2, <1>3, <1>4 DEF Next, Commands

(***************************************************************************)
(* A watched application that keeps running on a connected device is not   *)
(* cut off before the duration is over: Terminal::update() finds it in     *)
(* every snapshot of Task::update(), for all pids, periods and limits.     *)
(***************************************************************************)
THEOREM WatchedIsKept == WatchSpec => LiveWatchKept
<1> DEFINE WInv == TypeOK /\ Watched
<1>1. WatchInit => WInv
  BY TypeInit DEF WatchInit, Watched
<1>2. WInv /\ [WatchNext]_<<vars, held>> => WInv'
  <2>1. ASSUME TypeOK, UNCHANGED vars PROVE TypeOK'
    BY <2>1 DEF TypeOK, vars, loopVars, timerVars, watchVars, deviceVars
  <2>2. ASSUME TypeOK, Next PROVE TypeOK'
    BY <2>2, CommandType, MainType, OutsideType DEF Next
  <2> QED BY <2>1, <2>2, WatchedStep DEF WatchNext
<1> DEFINE Kept == pc = "terminal" /\ running["terminal"] /\ ~ running'["terminal"] /\ held
                     => Expired("terminal")
<1>3. WInv /\ [WatchNext]_<<vars, held>> => [Kept]_<<vars, held>>
  BY OthersLeaveIt, WatchedCheck DEF WatchNext
<1> QED BY <1>1, <1>2, <1>3, PTL DEF WatchSpec, LiveWatchKept
=============================================================================
