------------------------------- MODULE Report -------------------------------
(***************************************************************************)
(* The report of `sl --json`: how SlPrinter pairs the objects that it      *)
(* opens and closes.  A command opens an object, prints its options, makes *)
(* the connection or the cloud ready in sections of their own, and prints  *)
(* its results in an "output" section, which is closed, together with the  *)
(* command's object, by whoever writes its result first: the body, an      *)
(* error() or the SlPrinter::Output guard that goes out of scope.  The     *)
(* main loop prints with the same SlPrinter; in listen mode a command of   *)
(* LocalServer is then in the middle of its body.                          *)
(*                                                                         *)
(* Of the JSON only the nesting is kept, as the number of objects that are *)
(* open.  The main loop prints a section in one step, although the calls   *)
(* of two threads may alternate even within one: SlPrinter has no mutex.   *)
(***************************************************************************)
EXTENDS Integers

CONSTANTS
  MaxObjects,  \* bound on the objects that a body has open, and on how often
               \* a command goes on after its result
  MaxDepth     \* bound on what the debug trace may leave open

ASSUME ReportAssumption == MaxObjects \in Nat /\ MaxDepth \in Nat

VARIABLES
  depth,       \* objects open in json(), closed too often if negative
  isOutput,    \* m_is_output
  openCount,   \* m_output_open_count
  cmd,         \* where the running command is
  objects,     \* open_object() calls of its body that it did not close
  guards,      \* Printer::Object guards of its body
  main,        \* where the main thread is
  listening,   \* is_listen_mode()
  terminal,    \* terminal.is_running()
  updated,     \* terminal.is_initialized() or debug_trace.is_initialized()
  debug,       \* debug_trace.is_running()
  isTerminal,  \* is_terminal of main()
  base,        \* history: depth when the command began
  results,     \* history: "result" keys that it wrote
  tidy,        \* history: no section was opened inside its sections, by it or
               \* by the main loop
  unclosed,    \* history: 1 if it opened a command that nobody closes, -1 if it
               \* went on after its own was closed
  again        \* history: how many commands went on so

printerVars == <<depth, isOutput, openCount>>
bodyVars == <<cmd, objects, guards>>
mainVars == <<main, listening, terminal, updated, debug, isTerminal>>
closing == <<unclosed, again>>
historyVars == <<base, results, tidy, closing>>
vars == <<printerVars, bodyVars, mainVars, historyVars>>

TypeOK ==
  /\ depth \in Int
  /\ isOutput \in BOOLEAN
  /\ openCount \in 0..MaxObjects
  /\ cmd \in {"idle", "opened", "ready", "guard", "body", "return"}
  /\ objects \in 0..MaxObjects
  /\ guards \in 0..MaxObjects
  /\ main \in {"cli", "loop", "frames", "terminal", "done"}
  /\ listening \in BOOLEAN
  /\ terminal \in BOOLEAN /\ updated \in BOOLEAN /\ debug \in BOOLEAN
  /\ isTerminal \in BOOLEAN
  /\ base \in Int
  /\ results \in Nat
  /\ tidy \in BOOLEAN
  /\ unclosed \in {-1, 0, 1}
  /\ again \in Nat

Init ==
  /\ depth = 0 /\ isOutput = FALSE /\ openCount = 0
  /\ cmd = "idle" /\ objects = 0 /\ guards = 0
  /\ main = "cli" /\ listening \in BOOLEAN
  /\ terminal = FALSE /\ updated = FALSE /\ debug = FALSE
  /\ isTerminal = FALSE
  /\ base = 0 /\ results = 0 /\ tidy = TRUE
  /\ unclosed = 0 /\ again = 0

-----------------------------------------------------------------------------
(***************************************************************************)
(* What SlPrinter's calls do to its state, a record of the three printer   *)
(* variables and the results written.                                      *)
(***************************************************************************)
Now == [depth |-> depth, isOutput |-> isOutput, openCount |-> openCount,
        results |-> results]

Becomes(p) ==
  /\ depth' = p.depth /\ isOutput' = p.isOutput /\ openCount' = p.openCount

Deeper(p, by) == [depth |-> p.depth + by, isOutput |-> p.isOutput,
                  openCount |-> p.openCount, results |-> p.results]

OpenCommand(p) == Deeper(p, 1)

OpenOutput(p) == [depth |-> p.depth + 1, isOutput |-> TRUE, openCount |-> 0,
                  results |-> p.results]

\* Mutant of CloseOutput: the objects of the body are left open.
CloseOutputOnly(p, result) ==
  IF ~ p.isOutput THEN p
  ELSE [p EXCEPT !.depth = @ - (IF result THEN 2 ELSE 1), !.isOutput = FALSE,
                 !.results = IF result THEN @ + 1 ELSE @]

\* The objects of the body, the section and, when the key is "result", the
\* command.
CloseOutput(p, result) ==
  IF ~ p.isOutput THEN p
  ELSE [depth |-> p.depth - p.openCount - (IF result THEN 2 ELSE 1),
        isOutput |-> FALSE,
        openCount |-> 0,
        results |-> IF result THEN p.results + 1 ELSE p.results]

Error(p) == CloseOutput(p, TRUE)

\* open_command("..."), an output with any contents, and its result.
Section(p) == CloseOutput(OpenOutput(OpenCommand(p)), TRUE)

-----------------------------------------------------------------------------
\* A command, of the command line or of a worker of LocalServer.

Ends(p) ==
  /\ Becomes(p) /\ results' = p.results
  /\ cmd' = "idle" /\ objects' = 0 /\ guards' = 0
  /\ UNCHANGED <<main, listening, isTerminal, base, tidy, again>>

Fails(p) == Ends(p) /\ UNCHANGED <<terminal, updated, debug, unclosed>>

GoesOn(p, next) ==
  /\ Becomes(p) /\ results' = p.results
  /\ cmd' = next
  /\ UNCHANGED <<objects, guards, mainVars, base, tidy>>

Begin ==
  /\ cmd = "idle"
  /\ \/ main = "cli"
     \/ listening /\ main \in {"loop", "frames", "terminal"}
  /\ depth < MaxDepth
  /\ Becomes(OpenCommand(Now))
  /\ cmd' = "opened"
  /\ base' = depth /\ results' = 0 /\ tidy' = TRUE /\ unclosed' = 0
  /\ UNCHANGED <<objects, guards, mainVars, again>>

\* is_valid() of `help` and of a command that is only validated returns false
\* without a section: the close_fail() of the command does nothing.
Help ==
  /\ cmd = "opened"
  /\ Ends(CloseOutput(Now, TRUE))
  /\ unclosed' = 1
  /\ UNCHANGED <<terminal, updated, debug>>

Invalid ==
  /\ cmd = "opened"
  /\ Fails(CloseOutput(Error(OpenOutput(Now)), TRUE))

\* The options are opened and closed.  debug.trace:enabled=false is over then.
Valid ==
  /\ cmd = "opened"
  /\ GoesOn(Now, "ready") /\ UNCHANGED closing

Disabled ==
  /\ cmd = "ready"
  /\ Ends(Now)
  /\ unclosed' = 1
  /\ UNCHANGED <<terminal, updated, debug>>

\* is_connection_ready() when it has to connect, and is_cloud_ready(): the
\* section closes with a serial number or a user id.
Prepare ==
  /\ cmd = "ready"
  /\ \/ GoesOn(Now, "guard")
     \/ GoesOn(CloseOutput(OpenOutput(Now), FALSE), "guard")
  /\ UNCHANGED closing

\* They fail: error() or the result closes the section and the command, and
\* the close_fail() of the command finds it closed.
Unready == CloseOutput(CloseOutput(Error(OpenOutput(Now)), TRUE), TRUE)

NotReady ==
  /\ cmd = "ready"
  /\ Fails(Unready)

\* fs.archive does not return after its close_fail(): what it prints, and its
\* result, land in whatever is open around its command.
NotReadyGoesOn ==
  /\ cmd = "ready" /\ again < MaxObjects
  /\ GoesOn(Unready, "guard")
  /\ unclosed' = -1 /\ again' = again + 1

\* SlPrinter::Output printer_output_guard(printer()).
Guard ==
  /\ cmd = "guard"
  /\ GoesOn(OpenOutput(Now), "body") /\ UNCHANGED closing

OpenObject ==
  /\ cmd = "body" /\ objects < MaxObjects
  /\ depth' = depth + 1
  /\ openCount' = IF isOutput THEN openCount + 1 ELSE openCount
  /\ objects' = objects + 1
  /\ UNCHANGED <<isOutput, cmd, guards, mainVars, historyVars>>

CloseObject ==
  /\ cmd = "body" /\ objects > 0
  /\ depth' = depth - 1
  /\ openCount' = IF isOutput /\ openCount > 0 THEN openCount - 1 ELSE openCount
  /\ objects' = objects - 1
  /\ UNCHANGED <<isOutput, cmd, guards, mainVars, historyVars>>

\* Printer::Object of a scope in the body: json() counts it, SlPrinter does not.
EnterScope ==
  /\ cmd = "body" /\ guards < MaxObjects
  /\ depth' = depth + 1
  /\ guards' = guards + 1
  /\ UNCHANGED <<isOutput, openCount, cmd, objects, mainVars, historyVars>>

LeaveScope ==
  /\ cmd \in {"body", "return"} /\ guards > 0
  /\ depth' = depth - 1
  /\ guards' = guards - 1
  /\ UNCHANGED <<isOutput, openCount, cmd, objects, mainVars, historyVars>>

\* A command inside the command: cloud.listen runs those of its jobs.
Nested ==
  /\ cmd = "body"
  /\ Becomes(Section(Now))
  /\ tidy' = FALSE
  /\ UNCHANGED <<bodyVars, mainVars, base, results, closing>>

\* error() or close_fail() or close_success() in the body, which then only
\* prints keys; or the body returns without them.
Conclude ==
  /\ cmd = "body"
  /\ GoesOn(IF isOutput THEN Error(Now) ELSE Now, "return") /\ UNCHANGED closing

Return ==
  /\ cmd = "body"
  /\ GoesOn(Now, "return") /\ UNCHANGED closing

\* cloud.listen opens cloud.listen.finalize as the last thing it does.
OpenAnother ==
  /\ cmd = "return" /\ guards = 0 /\ unclosed = 0
  /\ GoesOn(OpenCommand(Now), "return")
  /\ unclosed' = 1 /\ UNCHANGED again

\* The scopes are left, then the Output guard closes what is not closed yet.
\* terminal.run and debug.trace have started their updaters.
Finish ==
  /\ cmd = "return" /\ guards = 0
  /\ Ends(CloseOutput(Now, TRUE))
  /\ terminal' \in {terminal, TRUE} /\ debug' \in {debug, TRUE}
  /\ updated' = (updated \/ terminal' \/ debug')
  /\ UNCHANGED unclosed

-----------------------------------------------------------------------------
\* The main thread.

\* What it prints while a command of a worker runs lands in that command.
Prints(p) ==
  /\ Becomes(p)
  /\ tidy' = (tidy /\ cmd = "idle")
  /\ UNCHANGED <<bodyVars, base, results, closing>>

\* The "terminal.begin" object stays open while the terminal runs.  Before it,
\* DebugTrace::initialize() opens a command that nothing closes, unless the
\* command line has disconnected the device.
StartLoop ==
  /\ main = "cli" /\ cmd = "idle" /\ (terminal \/ debug \/ listening)
  /\ main' = "loop"
  /\ isTerminal' = terminal
  /\ \E connected \in BOOLEAN :
       Prints(Deeper(Now, (IF debug /\ connected THEN 1 ELSE 0)
                          + (IF terminal THEN 1 ELSE 0)))
  /\ UNCHANGED <<listening, terminal, updated, debug>>

TerminalStops ==
  /\ main = "loop" /\ terminal
  /\ terminal' = FALSE
  /\ UNCHANGED <<printerVars, bodyVars, main, listening, updated, debug,
                 isTerminal, historyVars>>

\* Its duration, or the terminal that stopped.
DebugStops ==
  /\ main = "loop" /\ debug
  /\ debug' = FALSE
  /\ UNCHANGED <<printerVars, bodyVars, main, listening, terminal, updated,
                 isTerminal, historyVars>>

\* DebugTrace::update() with frames: the terminal's object is closed, each
\* frame is a command of its own, and the object is opened again.
CloseTerminal ==
  /\ main = "loop" /\ debug
  /\ main' = "frames"
  /\ Prints(Deeper(Now, IF terminal THEN -1 ELSE 0))
  /\ UNCHANGED <<listening, terminal, updated, debug, isTerminal>>

Frames ==
  /\ main = "frames"
  /\ main' = "terminal"
  /\ Prints(Section(Now))
  /\ UNCHANGED <<listening, terminal, updated, debug, isTerminal>>

\* Without frames the update goes straight on to opening it.
NoFrames ==
  /\ main = "loop" /\ debug
  /\ main' = "terminal"
  /\ UNCHANGED <<printerVars, bodyVars, listening, terminal, updated, debug,
                 isTerminal, historyVars>>

OpenTerminal ==
  /\ main = "terminal" /\ depth < MaxDepth
  /\ main' = "loop"
  /\ Prints(Deeper(Now, IF terminal THEN 1 ELSE 0))
  /\ UNCHANGED <<listening, terminal, updated, debug, isTerminal>>

\* The terminal's finalize() and the debug trace's print a section each.
Finalize(p) == IF updated THEN Section(p) ELSE p

\* Mutant of LoopEnds: is_terminal is not consulted.
LoopEndsTwice ==
  /\ main = "loop"
  /\ main' = "done"
  /\ Prints(Finalize(Deeper(Now, -1)))
  /\ terminal' = FALSE /\ debug' = FALSE
  /\ UNCHANGED <<listening, updated, isTerminal>>

LoopEnds ==
  /\ main = "loop"
  /\ main' = "done"
  /\ Prints(Finalize(Deeper(Now, IF isTerminal THEN -1 ELSE 0)))
  /\ terminal' = FALSE /\ debug' = FALSE
  /\ UNCHANGED <<listening, updated, isTerminal>>

\* No updater was started, or a command failed: exit(1).
Exit ==
  /\ main = "cli" /\ cmd = "idle" /\ ~ listening
  /\ main' = "done"
  /\ UNCHANGED <<printerVars, bodyVars, listening, terminal, updated, debug,
                 isTerminal, historyVars>>

-----------------------------------------------------------------------------
Command ==
  \/ Begin \/ Help \/ Invalid \/ Valid \/ Disabled \/ Prepare \/ NotReady
  \/ NotReadyGoesOn \/ Guard \/ OpenObject \/ CloseObject \/ EnterScope
  \/ LeaveScope \/ Nested \/ Conclude \/ Return \/ OpenAnother \/ Finish

Main ==
  \/ StartLoop \/ TerminalStops \/ DebugStops \/ CloseTerminal \/ Frames \/ NoFrames
  \/ OpenTerminal \/ LoopEnds \/ Exit

Next == Command \/ Main

Spec == Init /\ [][Next]_vars

-----------------------------------------------------------------------------
Ended == cmd # "idle" /\ cmd' = "idle"

(***************************************************************************)
(* Wherever a command leaves off, at an invalid argument, without a        *)
(* device, with an error in the middle of its objects and scopes or at its *)
(* end, as many objects are open as when it began, but for four commands:  *)
(* the object of `help`, that of debug.trace:enabled=false and that of     *)
(* "cloud.listen.finalize" are left open, and an fs.archive whose login    *)
(* failed closes one that is not its own.                                  *)
(***************************************************************************)
CommandCloses == [][Ended /\ tidy' => depth' = base + unclosed']_vars

(***************************************************************************)
(* A command reports one result: the guard, close_fail() and error() that  *)
(* all mean to write it never add a second one to the object.  It speaks   *)
(* of the commands that leave the nesting as it was: help reports none,    *)
(* and an fs.archive that goes on reports two.                             *)
(***************************************************************************)
OneResult == [][Ended /\ tidy' /\ unclosed' = 0 => results' = 1]_vars

(***************************************************************************)
(* On the command line nothing is closed that is not open, however         *)
(* terminal.run, debug.trace, help and nested commands are combined, but   *)
(* for the one object that each fs.archive closes which goes on after a    *)
(* failed login.                                                           *)
(***************************************************************************)
NeverUnderflow == ~ listening => depth >= - again
=============================================================================
