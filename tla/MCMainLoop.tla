----------------------------- MODULE MCMainLoop -----------------------------
(***************************************************************************)
(* MainLoop with one history variable, and its bounds for TLC.  held: ever *)
(* since the terminal found the pid it watches, that process has run on a  *)
(* connected device.                                                       *)
(***************************************************************************)
EXTENDS MainLoop

CONSTANT ListenModes  \* values of is_listen_mode() that a run looks at

VARIABLE held

MCPeriod == [u \in Updaters |-> IF u = "task" THEN 2 ELSE 1]

Alive == whilePid \in Pids /\ connected /\ tasks[whilePid] # "none"

WatchInit == Init /\ held = FALSE

WatchNext == Next /\ held' = (Alive' /\ (held \/ whilePid' # whilePid))

WatchSpec == WatchInit /\ [][WatchNext]_<<vars, held>>

MCInit == WatchInit /\ listening \in ListenModes

\* A bound: commands of a worker leave the debug trace alone, which shares
\* nothing with the terminal but `busy`.
WorkerCommands == listening => ~ initialized'["debug"]

MCNext == WatchNext /\ WorkerCommands

MCSpec == MCInit /\ [][MCNext]_<<vars, held>>

MCFairSpec == MCSpec /\ WF_<<vars, held>>(Main /\ MCNext)

(***************************************************************************)
(* A watched application that keeps running is not cut off: while its      *)
(* process lives and the device answers, Terminal::update() stops the      *)
(* terminal only because its duration is over, although it decides on      *)
(* snapshots that another updater takes at another pace.                   *)
(***************************************************************************)
LiveWatchKept ==
  [][pc = "terminal" /\ running["terminal"] /\ ~ running'["terminal"] /\ held
       => Expired("terminal")]_<<vars, held>>
=============================================================================
