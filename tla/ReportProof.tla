----------------------------- MODULE ReportProof -----------------------------
(***************************************************************************)
(* What TLAPS proves of Report: its type invariant, what a command leaves  *)
(* open when it ends, that it reports one result, and that on the command  *)
(* line nothing is closed that is not open, but by a command that went on. *)
(***************************************************************************)
EXTENDS Report, TLAPS

-----------------------------------------------------------------------------
\* What the printer counts: objects are only counted, and a section is only
\* open, in the body of a command.
Counted ==
  /\ isOutput => cmd \in {"body", "return"}
  /\ ~ isOutput => openCount = 0
  /\ openCount <= objects
  /\ cmd \notin {"body", "return"} => objects = 0 /\ guards = 0
  /\ cmd \in {"opened", "ready"} => unclosed = 0
  /\ cmd \in {"guard", "body"} => unclosed \in {-1, 0}

\* What a command has open, as long as nothing else printed into it.
Owns ==
  /\ cmd \in {"opened", "ready", "guard"} => depth = base + 1 + unclosed
  /\ cmd = "body" =>
       /\ isOutput /\ openCount = objects
       /\ depth = base + 2 + objects + guards + unclosed
  /\ cmd = "return" /\ isOutput => depth = base + 2 + openCount + guards + unclosed
  /\ cmd = "return" /\ ~ isOutput => depth = base + guards + unclosed
  /\ cmd \in {"opened", "ready", "guard", "body"} /\ unclosed = 0 => results = 0
  /\ cmd = "return" /\ isOutput /\ unclosed = 0 => results = 0
  /\ cmd = "return" /\ ~ isOutput /\ unclosed = 0 => results = 1

\* On the command line: what is open at least, whatever the commands left.
AtLeast ==
  /\ cmd # "idle" => main = "cli" /\ base + again >= 0
  /\ cmd # "idle" /\ unclosed = -1 => base + again >= 1
  /\ cmd = "idle" => depth + again >= 0
  /\ cmd \in {"opened", "ready", "guard"} => depth = base + 1 + unclosed
  /\ cmd = "body" =>
       /\ isOutput => openCount = objects
       /\ depth = base + 2 + objects + guards + unclosed
  /\ cmd = "return" /\ isOutput => depth >= base + 2 + openCount + guards + unclosed
  /\ cmd = "return" /\ ~ isOutput => depth >= base + guards + unclosed
  /\ main \in {"loop", "frames", "terminal"} /\ terminal => isTerminal
  /\ main = "loop" /\ isTerminal => depth + again >= 1
  /\ main \in {"frames", "terminal"} /\ isTerminal /\ ~ terminal => depth + again >= 1

\* The types of TypeOK, the flags apart from the numbers and names.
Flags ==
  /\ isOutput \in BOOLEAN /\ listening \in BOOLEAN /\ terminal \in BOOLEAN
  /\ updated \in BOOLEAN /\ debug \in BOOLEAN /\ isTerminal \in BOOLEAN
  /\ tidy \in BOOLEAN

Numbers ==
  /\ depth \in Int /\ base \in Int /\ results \in Nat
  /\ openCount \in 0..MaxObjects
  /\ objects \in 0..MaxObjects
  /\ guards \in 0..MaxObjects
  /\ cmd \in {"idle", "opened", "ready", "guard", "body", "return"}
  /\ main \in {"cli", "loop", "frames", "terminal", "done"}
  /\ unclosed \in {-1, 0, 1} /\ again \in Nat

Balanced ==
  /\ Numbers
  /\ Counted
  /\ tidy => Owns
  /\ ~ listening => AtLeast

IInv == Flags /\ Balanced
-----------------------------------------------------------------------------
\* The printer's calls on a record of its state.

\* What p has in its fields.
Fields(p, d, out, n, res) ==
  p.depth = d /\ p.isOutput = out /\ p.openCount = n /\ p.results = res

LEMMA NowIs == Fields(Now, depth, isOutput, openCount, results)
BY DEF Now, Fields

LEMMA DeeperIs ==
  ASSUME NEW p, NEW by
  PROVE  Fields(Deeper(p, by), p.depth + by, p.isOutput, p.openCount, p.results)
BY DEF Deeper, Fields

LEMMA OpenOutputIs ==
  ASSUME NEW p
  PROVE  Fields(OpenOutput(p), p.depth + 1, TRUE, 0, p.results)
BY DEF OpenOutput, Fields

LEMMA CloseIs ==
  ASSUME NEW p, NEW result \in BOOLEAN
  PROVE  /\ p.isOutput =>
              Fields(CloseOutput(p, result),
                     p.depth - p.openCount - (IF result THEN 2 ELSE 1), FALSE, 0,
                     IF result THEN p.results + 1 ELSE p.results)
         /\ ~ p.isOutput => CloseOutput(p, result) = p
BY DEF CloseOutput, Fields

\* A command's section that is closed at once: it leaves the depth alone and no
\* section open.
LEMMA SectionIs ==
  ASSUME NEW p, p.depth \in Int
  PROVE  Fields(Section(p), p.depth, FALSE, 0, p.results + 1)
<1> DEFINE c == OpenCommand(p)
           o == OpenOutput(c)
<1>1. Fields(c, p.depth + 1, p.isOutput, p.openCount, p.results)
  BY DeeperIs DEF OpenCommand
<1>2. Fields(o, c.depth + 1, TRUE, 0, c.results)
  BY OpenOutputIs
<1>3. Fields(CloseOutput(o, TRUE), o.depth - 0 - 2, FALSE, 0, o.results + 1)
  BY <1>2, CloseIs DEF Fields
<1> HIDE DEF c, o
<1>4. o.depth - 0 - 2 = p.depth /\ o.results = p.results
  BY <1>1, <1>2 DEF Fields
<1>5. Fields(CloseOutput(o, TRUE), p.depth, FALSE, 0, p.results + 1)
  BY <1>3, <1>4
<1> QED BY <1>5 DEF Section, c, o

\* A section that fails, once its command is opened, closes the two; what would
\* close it again finds it closed.
LEMMA FailedIs ==
  ASSUME NEW p, p.depth \in Int
  PROVE  /\ Fields(Error(OpenOutput(p)), p.depth - 1, FALSE, 0, p.results + 1)
         /\ CloseOutput(Error(OpenOutput(p)), TRUE) = Error(OpenOutput(p))
<1> DEFINE o == OpenOutput(p)
<1>1. Fields(o, p.depth + 1, TRUE, 0, p.results)
  BY OpenOutputIs
<1>2. Fields(Error(o), o.depth - 0 - 2, FALSE, 0, o.results + 1)
  BY <1>1, CloseIs DEF Fields, Error
<1> HIDE DEF o
<1>3. Fields(Error(o), p.depth - 1, FALSE, 0, p.results + 1)
  BY <1>1, <1>2 DEF Fields
<1>4. CloseOutput(Error(o), TRUE) = Error(o)
  BY <1>3, CloseIs DEF Fields
<1> QED BY <1>3, <1>4 DEF o

\* The command's steps that print p, and the main thread's, in plain variables.
LEMMA GoesOnIs ==
  ASSUME NEW p, NEW next, NEW d, NEW out, NEW n, NEW res,
         Fields(p, d, out, n, res), GoesOn(p, next)
  PROVE  /\ depth' = d /\ isOutput' = out /\ openCount' = n /\ results' = res
         /\ cmd' = next
         /\ UNCHANGED <<objects, guards, mainVars, base, tidy>>
BY DEF Fields, GoesOn, Becomes

LEMMA EndsIs ==
  ASSUME NEW p, NEW d, NEW out, NEW n, NEW res,
         Fields(p, d, out, n, res), Ends(p)
  PROVE  /\ depth' = d /\ isOutput' = out /\ openCount' = n /\ results' = res
         /\ cmd' = "idle" /\ objects' = 0 /\ guards' = 0
         /\ UNCHANGED <<main, listening, isTerminal, base, tidy, again>>
BY DEF Fields, Ends, Becomes

LEMMA PrintsIs ==
  ASSUME NEW p, NEW d, NEW out, NEW n, NEW res,
         Fields(p, d, out, n, res), Prints(p)
  PROVE  /\ depth' = d /\ isOutput' = out /\ openCount' = n
         /\ tidy' = (tidy /\ cmd = "idle")
         /\ UNCHANGED <<bodyVars, base, results, closing>>
BY DEF Fields, Prints, Becomes

\* What the printer holds when it closes a section of the running command.
LEMMA CloseNowIs ==
  ASSUME NEW result \in BOOLEAN
  PROVE  /\ isOutput =>
              Fields(CloseOutput(Now, result),
                     depth - openCount - (IF result THEN 2 ELSE 1), FALSE, 0,
                     IF result THEN results + 1 ELSE results)
         /\ ~ isOutput => CloseOutput(Now, result) = Now
BY NowIs, CloseIs DEF Fields

LEMMA DeeperNowIs ==
  ASSUME NEW by
  PROVE  Fields(Deeper(Now, by), depth + by, isOutput, openCount, results)
BY NowIs, DeeperIs DEF Fields

LEMMA OpenNowIs == Fields(OpenOutput(Now), depth + 1, TRUE, 0, results)
BY NowIs, OpenOutputIs DEF Fields

LEMMA SectionNowIs ==
  ASSUME depth \in Int
  PROVE  Fields(Section(Now), depth, FALSE, 0, results + 1)
BY NowIs, SectionIs DEF Fields

LEMMA FailedNowIs ==
  ASSUME depth \in Int
  PROVE  /\ Fields(Error(OpenOutput(Now)), depth - 1, FALSE, 0, results + 1)
         /\ CloseOutput(Error(OpenOutput(Now)), TRUE) = Error(OpenOutput(Now))
BY NowIs, FailedIs DEF Fields

-----------------------------------------------------------------------------
LEMMA Start == Init => IInv
<1> SUFFICES ASSUME Init PROVE IInv
  OBVIOUS
<1>1. Flags
  BY DEF Init, Flags
<1>2. Balanced
  BY ReportAssumption DEF Init, Balanced, Numbers, Counted, Owns, AtLeast
<1> QED BY <1>1, <1>2 DEF IInv

\* The printer's calls keep its flag a flag.
LEMMA FlagAfter ==
  ASSUME Flags
  PROVE  /\ Now.isOutput \in BOOLEAN
         /\ \A p, by : Deeper(p, by).isOutput = p.isOutput
         /\ \A p : OpenOutput(p).isOutput \in BOOLEAN
         /\ \A p, result : p.isOutput \in BOOLEAN => CloseOutput(p, result).isOutput \in BOOLEAN
BY DEF Flags, Now, Deeper, OpenOutput, CloseOutput

LEMMA FlagsCommand ==
  ASSUME Flags, Command
  PROVE  Flags'
<1> USE DEF Flags, Becomes, mainVars
<1>1. CASE Begin
  BY <1>1, FlagAfter DEF Begin, OpenCommand
<1>2. CASE Help \/ Disabled
  BY <1>2, FlagAfter DEF Help, Disabled, Ends
<1>3. CASE Invalid \/ NotReady \/ NotReadyGoesOn
  BY <1>3, FlagAfter
     DEF Invalid, NotReady, NotReadyGoesOn, Unready, Error, Fails, Ends, GoesOn
<1>4. CASE Valid \/ Prepare \/ Guard \/ OpenAnother
  BY <1>4, FlagAfter DEF Valid, Prepare, Guard, OpenAnother, OpenCommand, GoesOn
<1>5. CASE OpenObject \/ CloseObject \/ EnterScope \/ LeaveScope
  BY <1>5 DEF OpenObject, CloseObject, EnterScope, LeaveScope, historyVars
<1>6. CASE Nested
  BY <1>6, FlagAfter DEF Nested, Section
<1>7. CASE Conclude \/ Return
  BY <1>7, FlagAfter DEF Conclude, Return, Error, GoesOn
<1>8. CASE Finish
  BY <1>8, FlagAfter DEF Finish, Ends
<1> QED BY <1>1, <1>2, <1>3, <1>4, <1>5, <1>6, <1>7, <1>8 DEF Command

LEMMA FlagsMain ==
  ASSUME Flags, Main
  PROVE  Flags'
<1> USE DEF Flags, Becomes
<1>1. ASSUME NEW p, p.isOutput \in BOOLEAN, Prints(p)
      PROVE  isOutput' \in BOOLEAN /\ tidy' \in BOOLEAN
  BY <1>1 DEF Prints
<1>2. CASE StartLoop
  BY <1>1, <1>2, FlagAfter DEF StartLoop
<1>3. CASE TerminalStops \/ DebugStops \/ NoFrames \/ Exit
  BY <1>3 DEF TerminalStops, DebugStops, NoFrames, Exit, printerVars, historyVars
<1>4. CASE CloseTerminal \/ OpenTerminal
  BY <1>1, <1>4, FlagAfter DEF CloseTerminal, OpenTerminal
<1>5. CASE Frames
  <2>1. Section(Now).isOutput \in BOOLEAN
    BY FlagAfter DEF Section
  <2> QED BY <1>1, <1>5, <2>1 DEF Frames
<1>6. CASE LoopEnds
  <2> DEFINE p == Deeper(Now, IF isTerminal THEN -1 ELSE 0)
  <2>1. p.isOutput \in BOOLEAN
    BY FlagAfter
  <2>2. Finalize(p).isOutput \in BOOLEAN
    BY <2>1, FlagAfter DEF Finalize, Section
  <2>3. Prints(Finalize(p)) /\ UNCHANGED <<listening, updated, isTerminal>>
        /\ terminal' = FALSE /\ debug' = FALSE
    BY <1>6 DEF LoopEnds
  <2>4. isOutput' \in BOOLEAN /\ tidy' \in BOOLEAN
    BY <1>1, <2>2, <2>3
  <2> QED BY <2>3, <2>4
<1> QED BY <1>2, <1>3, <1>4, <1>5, <1>6 DEF Main

\* The steps that open a command and make it ready.
LEMMA PreparingSteps ==
  ASSUME IInv, \/ Begin \/ Help \/ Invalid \/ Valid \/ Disabled \/ Prepare
               \/ NotReady \/ NotReadyGoesOn \/ Guard
  PROVE  Balanced'
<1>0. depth \in Int
  BY DEF IInv, Balanced, Numbers
<1> USE ReportAssumption DEF mainVars, closing
<1> DEFINE failed == Error(OpenOutput(Now))
<1>1. CASE Begin
  <2>1. depth' = depth + 1 /\ isOutput' = isOutput /\ openCount' = openCount
    BY <1>1, DeeperNowIs DEF Begin, Becomes, OpenCommand, Fields
  <2>11. Numbers' /\ Counted'
    BY <1>1, <2>1 DEF Begin, IInv, Flags, Balanced, Numbers, Counted, Owns, AtLeast
  <2>12. tidy' => Owns'
    BY <1>1, <2>1 DEF Begin, IInv, Flags, Balanced, Numbers, Counted, Owns, AtLeast
  <2>13. ~ listening' => AtLeast'
    BY <1>1, <2>1 DEF Begin, IInv, Flags, Balanced, Numbers, Counted, Owns, AtLeast
  <2> QED BY <2>11, <2>12, <2>13 DEF Balanced
<1>2. CASE Help
  <2>1. ~ isOutput
    BY <1>2 DEF Help, IInv, Balanced, Counted
  <2>2. Fields(CloseOutput(Now, TRUE), depth, isOutput, openCount, results)
    BY <2>1, CloseNowIs, NowIs
  <2>3. Ends(CloseOutput(Now, TRUE))
    BY <1>2 DEF Help
  <2>4. /\ depth' = depth /\ isOutput' = isOutput /\ openCount' = openCount /\ results' = results
        /\ cmd' = "idle" /\ objects' = 0 /\ guards' = 0
        /\ UNCHANGED <<main, listening, isTerminal, base, tidy, again>>
    BY <2>2, <2>3, EndsIs
  <2> QED BY <1>2, <2>4 DEF Help, IInv, Flags, Balanced, Numbers, Counted, Owns, AtLeast
<1>3. CASE Invalid
  <2>1. Fields(CloseOutput(failed, TRUE), depth - 1, FALSE, 0, results + 1)
    BY <1>0, FailedNowIs
  <2>2. Ends(CloseOutput(failed, TRUE)) /\ tidy' = tidy
    BY <1>3 DEF Invalid, Fails, Ends
  <2>3. /\ depth' = depth - 1 /\ isOutput' = FALSE /\ openCount' = 0 /\ results' = results + 1
        /\ cmd' = "idle" /\ objects' = 0 /\ guards' = 0
        /\ UNCHANGED <<main, listening, isTerminal, base, tidy, again>>
    BY <2>1, <2>2, EndsIs
  <2> HIDE DEF failed
  <2> QED BY <1>3, <2>2, <2>3 DEF Invalid, Fails, IInv, Flags, Balanced, Numbers, Counted, Owns, AtLeast
<1>4. CASE Valid
  <2>1. /\ depth' = depth /\ isOutput' = isOutput /\ openCount' = openCount /\ results' = results
        /\ cmd' = "ready" /\ UNCHANGED <<objects, guards, mainVars, base, tidy>>
    BY <1>4, NowIs, GoesOnIs DEF Valid
  <2> QED BY <1>4, <2>1 DEF Valid, IInv, Flags, Balanced, Numbers, Counted, Owns, AtLeast
<1>5. CASE Disabled
  <2>1. /\ depth' = depth /\ isOutput' = isOutput /\ openCount' = openCount /\ results' = results
        /\ cmd' = "idle" /\ objects' = 0 /\ guards' = 0
        /\ UNCHANGED <<main, listening, isTerminal, base, tidy, again>>
    BY <1>5, NowIs, EndsIs DEF Disabled
  <2> QED BY <1>5, <2>1 DEF Disabled, IInv, Flags, Balanced, Numbers, Counted, Owns, AtLeast
<1>6. CASE Prepare
  <2>1. cmd = "ready" /\ tidy' = tidy /\ unclosed' = unclosed /\ again' = again
    BY <1>6 DEF Prepare, GoesOn
  <2>2. CASE GoesOn(Now, "guard")
    <3>1. /\ depth' = depth /\ isOutput' = isOutput /\ openCount' = openCount /\ results' = results
          /\ cmd' = "guard" /\ UNCHANGED <<objects, guards, mainVars, base, tidy>>
      BY <2>2, NowIs, GoesOnIs
    <3>11. Numbers' /\ Counted'
      BY <2>1, <3>1 DEF IInv, Flags, Balanced, Numbers, Counted, Owns, AtLeast
    <3>12. tidy' => Owns'
      BY <2>1, <3>1 DEF IInv, Flags, Balanced, Numbers, Counted, Owns, AtLeast
    <3>13. ~ listening' => AtLeast'
      BY <2>1, <3>1 DEF IInv, Flags, Balanced, Numbers, Counted, Owns, AtLeast
    <3> QED BY <3>11, <3>12, <3>13 DEF Balanced
  <2>3. CASE GoesOn(CloseOutput(OpenOutput(Now), FALSE), "guard")
    <3>1. Fields(CloseOutput(OpenOutput(Now), FALSE), (depth + 1) - 0 - 1, FALSE, 0, results)
      BY OpenNowIs, CloseIs DEF Fields
    <3>2. /\ depth' = (depth + 1) - 0 - 1 /\ isOutput' = FALSE /\ openCount' = 0 /\ results' = results
          /\ cmd' = "guard" /\ UNCHANGED <<objects, guards, mainVars, base, tidy>>
      BY <2>3, <3>1, GoesOnIs
    <3>11. Numbers' /\ Counted'
      BY <2>1, <3>2 DEF IInv, Flags, Balanced, Numbers, Counted, Owns, AtLeast
    <3>12. tidy' => Owns'
      BY <2>1, <3>2 DEF IInv, Flags, Balanced, Numbers, Counted, Owns, AtLeast
    <3>13. ~ listening' => AtLeast'
      BY <2>1, <3>2 DEF IInv, Flags, Balanced, Numbers, Counted, Owns, AtLeast
    <3> QED BY <3>11, <3>12, <3>13 DEF Balanced
  <2> QED BY <1>6, <2>2, <2>3 DEF Prepare
<1>7. CASE NotReady
  <2>1. Fields(CloseOutput(CloseOutput(failed, TRUE), TRUE), depth - 1, FALSE, 0, results + 1)
    BY <1>0, FailedNowIs
  <2>2. /\ Ends(CloseOutput(CloseOutput(failed, TRUE), TRUE)) /\ tidy' = tidy
        /\ cmd = "ready" /\ UNCHANGED <<terminal, updated, debug, unclosed>>
    BY <1>7 DEF NotReady, Unready, Fails, Ends
  <2>3. /\ depth' = depth - 1 /\ isOutput' = FALSE /\ openCount' = 0 /\ results' = results + 1
        /\ cmd' = "idle" /\ objects' = 0 /\ guards' = 0
        /\ UNCHANGED <<main, listening, isTerminal, base, tidy, again>>
    BY <2>1, <2>2, EndsIs
  <2> HIDE DEF failed
  <2>11. Numbers' /\ Counted'
    BY <2>2, <2>3 DEF IInv, Flags, Balanced, Numbers, Counted, Owns, AtLeast
  <2>12. tidy' => Owns'
    BY <2>2, <2>3 DEF IInv, Flags, Balanced, Numbers, Counted, Owns, AtLeast
  <2>13. ~ listening' => AtLeast'
    BY <2>2, <2>3 DEF IInv, Flags, Balanced, Numbers, Counted, Owns, AtLeast
  <2> QED BY <2>11, <2>12, <2>13 DEF Balanced
<1>8. CASE Guard
  <2>1. /\ depth' = depth + 1 /\ isOutput' = TRUE /\ openCount' = 0 /\ results' = results
        /\ cmd' = "body" /\ UNCHANGED <<objects, guards, mainVars, base, tidy>>
    BY <1>8, OpenNowIs, GoesOnIs DEF Guard
  <2> QED BY <1>8, <2>1 DEF Guard, IInv, Flags, Balanced, Numbers, Counted, Owns, AtLeast
<1>9. CASE NotReadyGoesOn
  <2>1. Fields(Unready, depth - 1, FALSE, 0, results + 1)
    BY <1>0, FailedNowIs DEF Unready
  <2>2. GoesOn(Unready, "guard") /\ cmd = "ready" /\ unclosed' = -1 /\ again' = again + 1
    BY <1>9 DEF NotReadyGoesOn
  <2>3. /\ depth' = depth - 1 /\ isOutput' = FALSE /\ openCount' = 0 /\ results' = results + 1
        /\ cmd' = "guard" /\ UNCHANGED <<objects, guards, mainVars, base, tidy>>
    BY <2>1, <2>2, GoesOnIs
  <2> QED BY <2>2, <2>3 DEF IInv, Flags, Balanced, Numbers, Counted, Owns, AtLeast
<1> QED BY <1>1, <1>2, <1>3, <1>4, <1>5, <1>6, <1>7, <1>8, <1>9

\* The steps of a command's body and its end.
LEMMA BodySteps ==
  ASSUME IInv, \/ OpenObject \/ CloseObject \/ EnterScope \/ LeaveScope \/ Nested
               \/ Conclude \/ Return \/ OpenAnother \/ Finish
  PROVE  Balanced'
<1> USE ReportAssumption DEF mainVars, historyVars, closing
<1>1. CASE OpenObject
  BY <1>1 DEF OpenObject, IInv, Flags, Balanced, Numbers, Counted, Owns, AtLeast
<1>2. CASE CloseObject
  BY <1>2 DEF CloseObject, IInv, Flags, Balanced, Numbers, Counted, Owns, AtLeast
<1>3. CASE EnterScope
  BY <1>3 DEF EnterScope, IInv, Flags, Balanced, Numbers, Counted, Owns, AtLeast
<1>4. CASE LeaveScope
  BY <1>4 DEF LeaveScope, IInv, Flags, Balanced, Numbers, Counted, Owns, AtLeast
<1>5. CASE Nested
  <2>1. depth \in Int
    BY DEF IInv, Balanced, Numbers
  <2>2. depth' = depth /\ isOutput' = FALSE /\ openCount' = 0
    BY <1>5, <2>1, SectionNowIs DEF Nested, Becomes, Fields
  <2> QED BY <1>5, <2>2 DEF Nested, bodyVars, IInv, Flags, Balanced, Numbers, Counted, Owns, AtLeast
<1>6. CASE Conclude
  <2>1. cmd = "body" /\ tidy' = tidy /\ unclosed' = unclosed /\ again' = again
    BY <1>6 DEF Conclude, GoesOn
  <2>2. CASE isOutput
    <3>1. Fields(Error(Now), depth - openCount - 2, FALSE, 0, results + 1)
      BY <2>2, CloseNowIs DEF Error
    <3>2. GoesOn(Error(Now), "return")
      BY <1>6, <2>2 DEF Conclude
    <3>3. /\ depth' = depth - openCount - 2 /\ isOutput' = FALSE /\ openCount' = 0 /\ results' = results + 1
          /\ cmd' = "return" /\ UNCHANGED <<objects, guards, mainVars, base, tidy>>
      BY <3>1, <3>2, GoesOnIs DEF Conclude
    <3>11. Numbers' /\ Counted'
      BY <2>1, <2>2, <3>3 DEF IInv, Flags, Balanced, Numbers, Counted, Owns, AtLeast
    <3>12. tidy' => Owns'
      BY <2>1, <2>2, <3>3 DEF IInv, Flags, Balanced, Numbers, Counted, Owns, AtLeast
    <3>13. ~ listening' => AtLeast'
      BY <2>1, <2>2, <3>3 DEF IInv, Flags, Balanced, Numbers, Counted, Owns, AtLeast
    <3> QED BY <3>11, <3>12, <3>13 DEF Balanced
  <2>3. CASE ~ isOutput
    <3>1. /\ depth' = depth /\ isOutput' = isOutput /\ openCount' = openCount /\ results' = results
          /\ cmd' = "return" /\ UNCHANGED <<objects, guards, mainVars, base, tidy>>
      BY <1>6, <2>3, NowIs, GoesOnIs DEF Conclude
    <3>11. Numbers' /\ Counted'
      BY <2>1, <2>3, <3>1 DEF IInv, Flags, Balanced, Numbers, Counted, Owns, AtLeast
    <3>12. tidy' => Owns'
      BY <2>1, <2>3, <3>1 DEF IInv, Flags, Balanced, Numbers, Counted, Owns, AtLeast
    <3>13. ~ listening' => AtLeast'
      BY <2>1, <2>3, <3>1 DEF IInv, Flags, Balanced, Numbers, Counted, Owns, AtLeast
    <3> QED BY <3>11, <3>12, <3>13 DEF Balanced
  <2> QED BY <2>2, <2>3
<1>7. CASE Return
  <2>1. /\ depth' = depth /\ isOutput' = isOutput /\ openCount' = openCount /\ results' = results
        /\ cmd' = "return" /\ UNCHANGED <<objects, guards, mainVars, base, tidy>>
    BY <1>7, NowIs, GoesOnIs DEF Return
  <2> QED BY <1>7, <2>1 DEF Return, IInv, Flags, Balanced, Numbers, Counted, Owns, AtLeast
<1>8. CASE Finish
  <2>1. /\ cmd = "return" /\ guards = 0 /\ tidy' = tidy /\ unclosed' = unclosed
        /\ terminal' \in {terminal, TRUE}
    BY <1>8 DEF Finish, Ends
  <2>2. Ends(CloseOutput(Now, TRUE))
    BY <1>8 DEF Finish
  <2>3. CASE isOutput
    <3>1. Fields(CloseOutput(Now, TRUE), depth - openCount - 2, FALSE, 0, results + 1)
      BY <2>3, CloseNowIs
    <3>2. /\ depth' = depth - openCount - 2 /\ isOutput' = FALSE /\ openCount' = 0 /\ results' = results + 1
          /\ cmd' = "idle" /\ objects' = 0 /\ guards' = 0
          /\ UNCHANGED <<main, listening, isTerminal, base, tidy, again>>
      BY <2>2, <3>1, EndsIs DEF Finish
    <3> QED BY <2>1, <2>3, <3>2 DEF IInv, Flags, Balanced, Numbers, Counted, Owns, AtLeast
  <2>4. CASE ~ isOutput
    <3>1. Fields(CloseOutput(Now, TRUE), depth, isOutput, openCount, results)
      BY <2>4, CloseNowIs, NowIs
    <3>2. /\ depth' = depth /\ isOutput' = isOutput /\ openCount' = openCount /\ results' = results
          /\ cmd' = "idle" /\ objects' = 0 /\ guards' = 0
          /\ UNCHANGED <<main, listening, isTerminal, base, tidy, again>>
      BY <2>2, <3>1, EndsIs DEF Finish
    <3> QED BY <2>1, <2>4, <3>2 DEF IInv, Flags, Balanced, Numbers, Counted, Owns, AtLeast
  <2> QED BY <2>3, <2>4
<1>9. CASE OpenAnother
  <2>1. Fields(OpenCommand(Now), depth + 1, isOutput, openCount, results)
    BY DeeperNowIs DEF OpenCommand
  <2>2. /\ GoesOn(OpenCommand(Now), "return") /\ cmd = "return" /\ guards = 0
        /\ unclosed = 0 /\ unclosed' = 1 /\ again' = again
    BY <1>9 DEF OpenAnother
  <2>3. /\ depth' = depth + 1 /\ isOutput' = isOutput /\ openCount' = openCount /\ results' = results
        /\ cmd' = "return" /\ UNCHANGED <<objects, guards, mainVars, base, tidy>>
    BY <2>1, <2>2, GoesOnIs
  <2> QED BY <2>2, <2>3 DEF IInv, Flags, Balanced, Numbers, Counted, Owns, AtLeast
<1> QED BY <1>1, <1>2, <1>3, <1>4, <1>5, <1>6, <1>7, <1>8, <1>9

\* The steps of the main thread.
LEMMA MainSteps ==
  ASSUME IInv, Main
  PROVE  Balanced'
<1> USE ReportAssumption DEF printerVars, bodyVars, historyVars, closing
<1>0. depth \in Int
  BY DEF IInv, Balanced, Numbers
<1>1. CASE StartLoop
  <2>1. PICK connected \in BOOLEAN :
          Prints(Deeper(Now, (IF debug /\ connected THEN 1 ELSE 0)
                             + (IF terminal THEN 1 ELSE 0)))
    BY <1>1 DEF StartLoop
  <2> DEFINE by == (IF debug /\ connected THEN 1 ELSE 0) + (IF terminal THEN 1 ELSE 0)
  <2>2. by \in Nat /\ (terminal => by >= 1)
    OBVIOUS
  <2>3. Fields(Deeper(Now, by), depth + by, isOutput, openCount, results)
    BY DeeperNowIs
  <2> HIDE DEF by
  <2>4. /\ depth' = depth + by /\ isOutput' = isOutput /\ openCount' = openCount
        /\ tidy' = (tidy /\ cmd = "idle")
        /\ UNCHANGED <<bodyVars, base, results, closing>>
    BY <2>1, <2>3, PrintsIs DEF by
  <2>11. Numbers' /\ Counted'
    BY <1>1, <2>2, <2>4 DEF StartLoop, IInv, Flags, Balanced, Numbers, Counted, Owns, AtLeast
  <2>12. tidy' => Owns'
    BY <1>1, <2>2, <2>4 DEF StartLoop, IInv, Flags, Balanced, Numbers, Counted, Owns, AtLeast
  <2>13. ~ listening' => AtLeast'
    BY <1>1, <2>2, <2>4 DEF StartLoop, IInv, Flags, Balanced, Numbers, Counted, Owns, AtLeast
  <2> QED BY <2>11, <2>12, <2>13 DEF Balanced
<1>2. CASE TerminalStops
  BY <1>2 DEF TerminalStops, IInv, Flags, Balanced, Numbers, Counted, Owns, AtLeast
<1>3. CASE DebugStops
  BY <1>3 DEF DebugStops, IInv, Flags, Balanced, Numbers, Counted, Owns, AtLeast
<1>4. CASE CloseTerminal
  <2>1. /\ depth' = depth + (IF terminal THEN -1 ELSE 0) /\ isOutput' = isOutput /\ openCount' = openCount
        /\ tidy' = (tidy /\ cmd = "idle")
        /\ UNCHANGED <<bodyVars, base, results, closing>>
    BY <1>4, DeeperNowIs, PrintsIs DEF CloseTerminal
  <2>11. Numbers' /\ Counted'
    BY <1>4, <2>1 DEF CloseTerminal, IInv, Flags, Balanced, Numbers, Counted, Owns, AtLeast
  <2>12. tidy' => Owns'
    BY <1>4, <2>1 DEF CloseTerminal, IInv, Flags, Balanced, Numbers, Counted, Owns, AtLeast
  <2>13. ~ listening' => AtLeast'
    BY <1>4, <2>1 DEF CloseTerminal, IInv, Flags, Balanced, Numbers, Counted, Owns, AtLeast
  <2> QED BY <2>11, <2>12, <2>13 DEF Balanced
<1>5. CASE Frames
  <2>1. /\ depth' = depth /\ isOutput' = FALSE /\ openCount' = 0
        /\ tidy' = (tidy /\ cmd = "idle")
        /\ UNCHANGED <<bodyVars, base, results, closing>>
    BY <1>5, <1>0, SectionNowIs, PrintsIs DEF Frames
  <2>11. Numbers' /\ Counted'
    BY <1>5, <2>1 DEF Frames, IInv, Flags, Balanced, Numbers, Counted, Owns, AtLeast
  <2>12. tidy' => Owns'
    BY <1>5, <2>1 DEF Frames, IInv, Flags, Balanced, Numbers, Counted, Owns, AtLeast
  <2>13. ~ listening' => AtLeast'
    BY <1>5, <2>1 DEF Frames, IInv, Flags, Balanced, Numbers, Counted, Owns, AtLeast
  <2> QED BY <2>11, <2>12, <2>13 DEF Balanced
<1>6. CASE NoFrames
  BY <1>6 DEF NoFrames, IInv, Flags, Balanced, Numbers, Counted, Owns, AtLeast
<1>7. CASE OpenTerminal
  <2>1. /\ depth' = depth + (IF terminal THEN 1 ELSE 0) /\ isOutput' = isOutput /\ openCount' = openCount
        /\ tidy' = (tidy /\ cmd = "idle")
        /\ UNCHANGED <<bodyVars, base, results, closing>>
    BY <1>7, DeeperNowIs, PrintsIs DEF OpenTerminal
  <2>11. Numbers' /\ Counted'
    BY <1>7, <2>1 DEF OpenTerminal, IInv, Flags, Balanced, Numbers, Counted, Owns, AtLeast
  <2>12. tidy' => Owns'
    BY <1>7, <2>1 DEF OpenTerminal, IInv, Flags, Balanced, Numbers, Counted, Owns, AtLeast
  <2>13. ~ listening' => AtLeast'
    BY <1>7, <2>1 DEF OpenTerminal, IInv, Flags, Balanced, Numbers, Counted, Owns, AtLeast
  <2> QED BY <2>11, <2>12, <2>13 DEF Balanced
<1>8. CASE LoopEnds
  <2> DEFINE by == IF isTerminal THEN -1 ELSE 0
             p == Deeper(Now, by)
  <2>1. by \in Int
    OBVIOUS
  <2>2. Fields(p, depth + by, isOutput, openCount, results)
    BY DeeperNowIs
  <2>3. p.depth \in Int
    BY <1>0, <2>1, <2>2 DEF Fields
  <2>4. Prints(Finalize(p))
    BY <1>8 DEF LoopEnds
  <2>5. /\ depth' = depth + by
        /\ \/ isOutput' = isOutput /\ openCount' = openCount
           \/ isOutput' = FALSE /\ openCount' = 0
    <3> HIDE DEF p, by
    <3>1. CASE updated
      <4>1. Fields(Finalize(p), p.depth, FALSE, 0, p.results + 1)
        BY <2>3, <3>1, SectionIs DEF Finalize
      <4> QED BY <2>2, <2>4, <4>1, PrintsIs DEF Fields
    <3>2. CASE ~ updated
      BY <2>2, <2>4, <3>2, PrintsIs DEF Finalize
    <3> QED BY <3>1, <3>2
  <2>6. tidy' = (tidy /\ cmd = "idle") /\ UNCHANGED <<bodyVars, base, results, closing>>
    BY <2>4 DEF Prints
  <2> HIDE DEF p
  <2>11. Numbers' /\ Counted'
    BY <1>8, <2>5, <2>6 DEF LoopEnds, IInv, Flags, Balanced, Numbers, Counted, Owns, AtLeast
  <2>12. tidy' => Owns'
    BY <1>8, <2>5, <2>6 DEF LoopEnds, IInv, Flags, Balanced, Numbers, Counted, Owns, AtLeast
  <2>13. ~ listening' => AtLeast'
    BY <1>8, <2>5, <2>6 DEF LoopEnds, IInv, Flags, Balanced, Numbers, Counted, Owns, AtLeast
  <2> QED BY <2>11, <2>12, <2>13 DEF Balanced
<1>9. CASE Exit
  BY <1>9 DEF Exit, IInv, Flags, Balanced, Numbers, Counted, Owns, AtLeast
<1> QED BY <1>1, <1>2, <1>3, <1>4, <1>5, <1>6, <1>7, <1>8, <1>9 DEF Main

LEMMA Step == IInv /\ [Next]_vars => IInv'
<1> SUFFICES ASSUME IInv, [Next]_vars PROVE IInv'
  OBVIOUS
<1>1. CASE Next
  <2>1. Flags'
    BY <1>1, FlagsCommand, FlagsMain DEF Next, IInv
  <2>2. Balanced'
    BY <1>1, PreparingSteps, BodySteps, MainSteps DEF Next, Command
  <2> QED BY <2>1, <2>2 DEF IInv
<1>2. CASE UNCHANGED vars
  <2> USE <1>2 DEF vars, printerVars, bodyVars, mainVars, historyVars, closing
  <2>1. Flags'
    BY DEF IInv, Flags
  <2>2. Balanced'
    BY DEF IInv, Balanced, Numbers, Counted, Owns, AtLeast
  <2> QED BY <2>1, <2>2 DEF IInv
<1> QED BY <1>1, <1>2

LEMMA Types == IInv => TypeOK
<1> SUFFICES ASSUME IInv PROVE TypeOK
  OBVIOUS
<1> QED BY DEF IInv, Flags, Balanced, Numbers, TypeOK

LEMMA Invariance == Spec => []IInv
BY Start, Step, PTL DEF Spec

(***************************************************************************)
(* Type correctness of the printer, the command and the main thread: the   *)
(* printer never counts more objects than a body has open.                 *)
(***************************************************************************)
THEOREM TypeCorrect == Spec => []TypeOK
BY Invariance, Types, PTL

(***************************************************************************)
(* On the command line nothing is closed that is not open, however many    *)
(* commands left something open before, except by a command that went on   *)
(* after its own was closed, and then one object.                          *)
(***************************************************************************)
THEOREM Underflow == Spec => []NeverUnderflow
<1>1. IInv => NeverUnderflow
  <2> SUFFICES ASSUME IInv, ~ listening PROVE depth + again >= 0
    BY ReportAssumption DEF NeverUnderflow, IInv, Balanced, Numbers
  <2>1. depth \in Int /\ base \in Int /\ objects \in Nat /\ guards \in Nat
        /\ openCount \in Nat /\ again \in Nat /\ unclosed \in {-1, 0, 1}
    BY ReportAssumption DEF IInv, Balanced, Numbers
  <2> QED BY <2>1 DEF IInv, Balanced, Numbers, Counted, AtLeast
<1> QED BY <1>1, Invariance, PTL

\* The steps that end a command.
LEMMA Ending ==
  ASSUME IInv, [Next]_vars, Ended
  PROVE  Help \/ Invalid \/ Disabled \/ NotReady \/ Finish
BY DEF Ended, Next, Command, Main, vars, bodyVars, Begin, Valid, Prepare, Guard, GoesOn,
       OpenObject, CloseObject, EnterScope, LeaveScope, Nested, Conclude, Return,
       NotReadyGoesOn, OpenAnother, StartLoop, TerminalStops, DebugStops,
       CloseTerminal, Frames, NoFrames, OpenTerminal, LoopEnds, Exit, Prints

\* What a command that nothing else printed into leaves.
LEMMA EndsClosed ==
  ASSUME IInv, [Next]_vars, Ended, tidy'
  PROVE  depth' = base + unclosed' /\ (unclosed' = 0 => results' = 1)
<1>0. /\ depth \in Int /\ base \in Int /\ openCount \in Int /\ objects \in Int
      /\ guards \in Int /\ unclosed \in Int
  BY ReportAssumption DEF IInv, Balanced, Numbers
<1> DEFINE failed == Error(OpenOutput(Now))
<1>1. CASE Help \/ Disabled
  <2>1. cmd \in {"opened", "ready"} /\ unclosed' = 1
    BY <1>1 DEF Help, Disabled
  <2>4. ~ isOutput
    BY <2>1 DEF IInv, Balanced, Counted
  <2>5. Ends(Now)
    BY <1>1, <2>4, CloseNowIs DEF Help, Disabled
  <2>2. depth' = depth /\ tidy' = tidy
    BY <2>5, NowIs, EndsIs
  <2>3. depth = base + 1
    BY <1>0, <2>1, <2>2 DEF IInv, Flags, Balanced, Counted, Owns
  <2> QED BY <1>0, <2>1, <2>2, <2>3
<1>2. CASE Invalid \/ NotReady
  <2>1. /\ Fields(CloseOutput(failed, TRUE), depth - 1, FALSE, 0, results + 1)
        /\ CloseOutput(CloseOutput(failed, TRUE), TRUE) = CloseOutput(failed, TRUE)
    BY <1>0, FailedNowIs
  <2>2. /\ Ends(CloseOutput(failed, TRUE)) /\ tidy' = tidy /\ unclosed' = unclosed
        /\ cmd \in {"opened", "ready"}
    BY <1>2, <2>1 DEF Invalid, NotReady, Unready, Fails, Ends
  <2>3. depth' = depth - 1 /\ results' = results + 1
    BY <2>1, <2>2, EndsIs
  <2>4. depth = base + 1 /\ results = 0 /\ unclosed = 0
    BY <1>0, <2>2 DEF IInv, Flags, Balanced, Counted, Owns
  <2> QED BY <1>0, <2>2, <2>3, <2>4
<1>3. CASE Finish
  <2>1. /\ Ends(CloseOutput(Now, TRUE)) /\ cmd = "return" /\ guards = 0
        /\ tidy' = tidy /\ unclosed' = unclosed
    BY <1>3 DEF Finish, Ends
  <2>2. CASE isOutput
    <3>1. Fields(CloseOutput(Now, TRUE), depth - openCount - 2, FALSE, 0, results + 1)
      BY <2>2, CloseNowIs
    <3>2. depth' = depth - openCount - 2 /\ results' = results + 1
      BY <2>1, <3>1, EndsIs
    <3>3. /\ depth = base + 2 + openCount + guards + unclosed
          /\ unclosed = 0 => results = 0
      BY <2>1, <2>2 DEF IInv, Flags, Balanced, Owns
    <3> QED BY <1>0, <2>1, <3>2, <3>3
  <2>3. CASE ~ isOutput
    <3>1. Fields(CloseOutput(Now, TRUE), depth, isOutput, openCount, results)
      BY <2>3, CloseNowIs, NowIs
    <3>2. depth' = depth /\ results' = results
      BY <2>1, <3>1, EndsIs
    <3>3. depth = base + guards + unclosed /\ (unclosed = 0 => results = 1)
      BY <2>1, <2>3 DEF IInv, Flags, Balanced, Owns
    <3> QED BY <1>0, <2>1, <3>2, <3>3
  <2> QED BY <2>2, <2>3
<1> QED BY <1>1, <1>2, <1>3, Ending

(***************************************************************************)
(* As many objects are open when a command ends as when it began, but for  *)
(* the one more that a command leaves which opened another, or was only    *)
(* asked for its help, and the one less of a command that went on after    *)
(* its own was closed.                                                     *)
(***************************************************************************)
THEOREM Closes == Spec => CommandCloses
<1>1. IInv /\ [Next]_vars => [Ended /\ tidy' => depth' = base + unclosed']_vars
  BY EndsClosed
<1> QED BY <1>1, Invariance, PTL DEF Spec, CommandCloses

(***************************************************************************)
(* A command writes its result exactly once.                               *)
(***************************************************************************)
THEOREM ReportsOnce == Spec => OneResult
<1>1. IInv /\ [Next]_vars => [Ended /\ tidy' /\ unclosed' = 0 => results' = 1]_vars
  BY EndsClosed
<1> QED BY <1>1, Invariance, PTL DEF Spec, OneResult
=============================================================================
