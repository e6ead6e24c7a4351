---------------------------- MODULE DispatchProof ----------------------------
(***************************************************************************)
(* Proofs about Dispatch for every set of commands and lines of any        *)
(* length: its types, that a line with a mistake is refused as a whole,    *)
(* that its commands run here or are published, never both, which is the   *)
(* promise of CommandLines, and that their arguments reach the handlers as *)
(* they were typed.                                                        *)
(***************************************************************************)
EXTENDS Dispatch, TLAPS

Early == {"switches", "shortcuts", "saved", "check"}

\* Nothing has been done before the list of commands is checked ...
Untouched ==
  pc \in Early => ran = <<>> /\ posts = 0 /\ status = "skipped" /\ next = 1

\* ... and nothing is done unless it has passed.
Passed ==
  /\ switches = "unknown" => pc = "exit" /\ ran = <<>> /\ posts = 0 /\ code = "1"
  /\ pc \in {"publish", "waiting", "run", "finalize"} =>
       \A i \in DOMAIN line : HasGroup(line[i])
  /\ pc # "exit" => code = "none"
  /\ pc = "exit" => code # "none"

Publishing ==
  /\ pc \in {"publish", "waiting"} => ran = <<>> /\ posts <= next - 1
  /\ pc = "publish" /\ status = "skipped" => posts = 0
  /\ pc = "publish" /\ status # "skipped" => posts # 0
  /\ pc = "waiting" => posts # 0

Running ==
  /\ pc = "run" => posts = 0 /\ ran = [i \in 1..next - 1 |-> "success"]
  /\ pc = "finalize" /\ posts = 0 => ran = [i \in 1..Len(line) |-> "success"]

IInv == TypeOK /\ Untouched /\ Passed /\ Publishing /\ Running /\ RefusedWhole /\ HereOrThere

-----------------------------------------------------------------------------
LEMMA LineIs ==
  ASSUME NEW l \in Lines
  PROVE  /\ l \in Seq(Inputs) /\ Len(l) \in Nat /\ DOMAIN l = 1..Len(l)
         /\ \A i \in 1..Len(l) : l[i] \in Inputs
BY DispatchAssumption

LEMMA InitInv == Init => IInv
<1> SUFFICES ASSUME Init PROVE IInv
  OBVIOUS
<1>1. TypeOK
  <2>1. line \in Lines /\ Len(line) = 0 /\ ran \in Seq({"success", "failed", "syntax_error"})
    BY DispatchAssumption DEF Init
  <2>2. stored \in BOOLEAN /\ job \in BOOLEAN /\ posts \in 0..Len(line)
        /\ next \in 1..Len(line) + 1 /\ queue \subseteq Requests
    <3>1. 0 \in 0..0 /\ 1 \in 1..0 + 1
      OBVIOUS
    <3>2. stored \in BOOLEAN /\ job \in BOOLEAN /\ queue \subseteq Requests
      BY DEF Init
    <3>3. posts = 0 /\ next = 1
      BY DEF Init
    <3> QED BY <2>1, <3>1, <3>2, <3>3
  <2> QED BY <2>1, <2>2 DEF Init, TypeOK, Statuses
<1>2. Untouched /\ Passed /\ Publishing /\ Running
  BY DEF Init, Untouched, Passed, Publishing, Running, Early
<1>3. RefusedWhole /\ HereOrThere
  BY DEF Init, RefusedWhole, HereOrThere
<1> QED BY <1>1, <1>2, <1>3 DEF IInv

(***************************************************************************)
(* The other sl and the browser leave the client's variables alone.        *)
(***************************************************************************)
LEMMA ServerStep ==
  ASSUME IInv, Server \/ Browse
  PROVE  IInv'
<1> USE DEF IInv
<1>1. UNCHANGED clientVars /\ UNCHANGED settingsVars
  BY DEF Server, Browse, Listen, Interrupt, HandleJob, ExecuteJob, AnswerJob,
         StopListen, settingsVars, clientVars
<1>2. /\ server' \in {"off", "wait", "execute", "answer", "asserted"}
      /\ pointer' \in BOOLEAN /\ interrupted' \in BOOLEAN
      /\ taken' \in Requests \cup {NoCommand} /\ queue' \subseteq Requests
      /\ answer' \in {"none", "output", "null"}
  <2>1. CASE Listen
    BY <2>1 DEF Listen, TypeOK
  <2>2. CASE Interrupt
    BY <2>2 DEF Interrupt, TypeOK
  <2>3. CASE HandleJob
    BY <2>3 DEF HandleJob, TypeOK, Answers
  <2>4. CASE ExecuteJob
    BY <2>4 DEF ExecuteJob, TypeOK
  <2>5. CASE AnswerJob
    BY <2>5 DEF AnswerJob, TypeOK, Answers
  <2>6. CASE StopListen
    BY <2>6 DEF StopListen, TypeOK
  <2>7. CASE Browse
    BY <2>7, DispatchAssumption DEF Browse, TypeOK, Requests, serverVars
  <2> QED BY <2>1, <2>2, <2>3, <2>4, <2>5, <2>6, <2>7 DEF Server
<1>3. TypeOK'
  BY <1>1, <1>2 DEF TypeOK, clientVars, settingsVars
<1>4. Untouched' /\ Passed' /\ Publishing' /\ Running' /\ RefusedWhole' /\ HereOrThere'
  BY <1>1 DEF clientVars, Untouched, Passed, Publishing, Running, RefusedWhole, HereOrThere
<1> QED BY <1>3, <1>4

(***************************************************************************)
(* The next line begins.                                                   *)
(***************************************************************************)
LEMMA StartStep ==
  ASSUME IInv, Start
  PROVE  IInv'
<1> USE DEF IInv
<1>1. line' \in Lines /\ Len(line') \in Nat
  BY LineIs DEF Start, Typing
<1>2. TypeOK'
  <2>1. queue' \subseteq Requests /\ ran' \in Seq({"success", "failed", "syntax_error"})
    BY DEF Start, Typing, TypeOK
  <2>2. posts' \in 0..Len(line') /\ next' \in 1..Len(line') + 1
    BY <1>1 DEF Start, Typing
  <2> QED BY <1>1, <2>1, <2>2 DEF Start, Typing, TypeOK, Statuses, serverVars
<1>3. Untouched' /\ Passed' /\ Publishing' /\ Running'
  BY DEF Start, Typing, Untouched, Passed, Publishing, Running, Early
<1>4. RefusedWhole' /\ HereOrThere'
  BY DEF Start, Typing, RefusedWhole, HereOrThere
<1> QED BY <1>2, <1>3, <1>4

LEMMA ConnectsTypes ==
  ASSUME TypeOK, NEW i, NEW o, Connects(i, o)
  PROVE  job' \in BOOLEAN /\ stored' \in BOOLEAN
BY DEF Connects, TypeOK

(***************************************************************************)
(* Everything before the list of commands: it goes on, or ends with 1.     *)
(***************************************************************************)
LEMMA EarlyStep ==
  ASSUME IInv, HandleSwitches \/ HandleShortcuts \/ ExecuteShortcut \/ CheckList
  PROVE  IInv'
<1> USE DEF IInv
<1>1. pc \in Early /\ line \in Lines /\ Len(line) \in Nat
  BY LineIs DEF HandleSwitches, HandleShortcuts, ExecuteShortcut, CheckList, Early, TypeOK
<1>2. UNCHANGED <<line, next, text, status, ran, posts>>
  BY DEF HandleSwitches, HandleShortcuts, ExecuteShortcut, CheckList
<1>3. /\ UNCHANGED serverVars /\ queue' \subseteq Requests /\ answer' = answer
      /\ workspace' \in BOOLEAN /\ job' \in BOOLEAN /\ stored' \in BOOLEAN
  <2>1. CASE HandleSwitches
    BY <2>1 DEF HandleSwitches, UnknownSwitch, InvalidSwitch, GoodSwitches, Switched, TypeOK
  <2>2. CASE HandleShortcuts
    BY <2>2 DEF HandleShortcuts, TypeOK, settingsVars
  <2>3. CASE ExecuteShortcut
    BY <2>3, ConnectsTypes DEF ExecuteShortcut, TypeOK
  <2>4. CASE CheckList
    BY <2>4 DEF CheckList, TypeOK, settingsVars
  <2> QED BY <2>1, <2>2, <2>3, <2>4
<1>4. \/ pc' \in Early /\ code' = code /\ switches' # "unknown"
      \/ pc' = "exit" /\ code' = "1"
      \/ /\ pc' \in {"publish", "run"} /\ code' = code /\ switches' = switches
         /\ \A i \in DOMAIN line : HasGroup(line[i])
  <2>1. CASE HandleSwitches
    BY <2>1 DEF HandleSwitches, UnknownSwitch, InvalidSwitch, GoodSwitches, ExitFailed, Early
  <2>2. CASE HandleShortcuts
    BY <2>2, <1>1 DEF HandleShortcuts, ExitFailed, Early, Passed
  <2>3. CASE ExecuteShortcut
    BY <2>3, <1>1 DEF ExecuteShortcut, ExitFailed, Early, Passed
  <2>4. CASE CheckList
    BY <2>4, <1>1 DEF CheckList, ExitFailed, Early
  <2> QED BY <2>1, <2>2, <2>3, <2>4
<1>5. /\ switches' \in {"good", "unknown", "invalid"} /\ refused' \in BOOLEAN
      /\ saved' \in Inputs \cup {NoCommand}
  BY DispatchAssumption
  DEF HandleSwitches, UnknownSwitch, InvalidSwitch, GoodSwitches, HandleShortcuts, ExecuteShortcut, CheckList, TypeOK
<1>6. TypeOK'
  BY <1>1, <1>2, <1>3, <1>4, <1>5 DEF TypeOK, serverVars, Early
<1>7. Untouched' /\ Passed'
  BY <1>1, <1>2, <1>4 DEF Untouched, Passed, Early
<1>8. Publishing' /\ Running'
  <2>1. ran' = <<>> /\ posts' = 0 /\ status' = "skipped" /\ next' = 1
    BY <1>1, <1>2 DEF Untouched
  <2>2. pc' \notin {"waiting", "finalize"} /\ next' - 1 = 0
    BY <1>4, <2>1 DEF Early
  <2>3. [i \in 1..0 |-> "success"] = <<>>
    OBVIOUS
  <2> QED BY <2>1, <2>2, <2>3 DEF Publishing, Running
<1>9. RefusedWhole' /\ HereOrThere'
  BY <1>1, <1>2, <1>4 DEF Untouched, Passed, RefusedWhole, HereOrThere, Early
<1> QED BY <1>6, <1>7, <1>8, <1>9

-----------------------------------------------------------------------------
(***************************************************************************)
(* The line is published.                                                  *)
(***************************************************************************)
LEMMA PublishStep ==
  ASSUME IInv, PublishJob \/ Published \/ NotPublished
  PROVE  IInv'
<1> USE DEF IInv
<1>1. line \in Lines /\ Len(line) \in Nat /\ pc \in {"publish", "waiting"}
  BY LineIs DEF PublishJob, Published, NotPublished, TypeOK
<1>2. UNCHANGED <<line, switches, refused, saved, ran, code, workspace, serverVars>>
  BY DEF PublishJob, Published, NotPublished, settingsVars
<1>3. TypeOK'
  <2>1. CASE PublishJob
    <3>1. NoCommand \in Inputs \cup {NoCommand}
      OBVIOUS
    <3>2. [by |-> "client", command |-> NoCommand] \in Requests
      BY <3>1 DEF Requests
    <3>3. queue' \subseteq Requests
      BY <2>1, <3>2 DEF PublishJob, TypeOK
    <3>4. posts' \in 0..Len(line) /\ next' \in 1..Len(line) + 1
      BY <2>1, <1>1 DEF PublishJob, Publishing, TypeOK
    <3>5. pc' \in {"publish", "waiting"} /\ text' \in BOOLEAN /\ status' = status
          /\ answer' = "none" /\ UNCHANGED settingsVars
      BY <2>1 DEF PublishJob
    <3> QED BY <1>1, <1>2, <3>3, <3>4, <3>5 DEF TypeOK, serverVars, settingsVars
  <2>2. CASE Published \/ NotPublished
    <3>1. UNCHANGED <<posts, next, text, queue, answer>> /\ status' \in Statuses
          /\ pc' = "publish" /\ job' \in BOOLEAN /\ stored' \in BOOLEAN
      BY <2>2 DEF Published, NotPublished, TypeOK, Statuses, settingsVars
    <3> QED BY <1>2, <3>1 DEF TypeOK, serverVars
  <2> QED BY <2>1, <2>2
<1>4. Untouched' /\ Passed'
  BY <1>1, <1>2 DEF PublishJob, Published, NotPublished, Untouched, Passed, Early
<1>5. Publishing' /\ Running'
  <2>1. CASE PublishJob
    BY <2>1, <1>1, <1>2 DEF PublishJob, Publishing, Running, TypeOK
  <2>2. CASE Published \/ NotPublished
    BY <2>2, <1>1, <1>2 DEF Published, NotPublished, Publishing, Running
  <2> QED BY <2>1, <2>2
<1>6. RefusedWhole' /\ HereOrThere'
  BY <1>1, <1>2 DEF Publishing, Passed, RefusedWhole, HereOrThere
<1> QED BY <1>3, <1>4, <1>5, <1>6

LEMMA EndOfPublishStep ==
  ASSUME IInv, EndOfPublish
  PROVE  IInv'
<1> USE DEF IInv
<1>1. line \in Lines /\ Len(line) \in Nat /\ pc = "publish" /\ ran = <<>>
  BY LineIs DEF EndOfPublish, TypeOK, Publishing
<1>2. TypeOK'
  BY <1>1 DEF EndOfPublish, TypeOK, settingsVars, serverVars
<1>3. Untouched' /\ Passed' /\ Publishing'
  BY <1>1 DEF EndOfPublish, Untouched, Passed, Publishing, Early
<1>4. Running'
  <2>1. [i \in 1..0 |-> "success"] = <<>>
    OBVIOUS
  <2> QED BY <1>1, <2>1 DEF EndOfPublish, Running, Publishing
<1>5. RefusedWhole' /\ HereOrThere'
  BY <1>1 DEF EndOfPublish, RefusedWhole, HereOrThere, Passed
<1> QED BY <1>2, <1>3, <1>4, <1>5

-----------------------------------------------------------------------------
(***************************************************************************)
(* The commands run here.                                                  *)
(***************************************************************************)
LEMMA ExecuteStep ==
  ASSUME IInv, Execute
  PROVE  IInv'
<1> USE DEF IInv
<1>1. /\ line \in Lines /\ Len(line) \in Nat /\ DOMAIN line = 1..Len(line)
      /\ pc = "run" /\ posts = 0 /\ next \in 1..Len(line) /\ code = "none"
      /\ ran = [i \in 1..next - 1 |-> "success"]
  BY LineIs DEF Execute, TypeOK, Running, Passed
<1>2. PICK outcome \in Outcomes(line[next]) :
        /\ ran' = Append(ran, outcome)
        /\ Connects(line[next], outcome)
        /\ IF outcome = "success" THEN UNCHANGED <<pc, code>> ELSE ExitFailed
  BY DEF Execute
<1>3. outcome \in {"success", "failed", "syntax_error"}
  BY <1>2 DEF Outcomes
<1>4. /\ Len(ran) = next - 1 /\ Len(ran') = next /\ DOMAIN ran' = 1..next
      /\ ran'[next] = outcome /\ \A i \in 1..next - 1 : ran'[i] = "success"
      /\ ran' \in Seq({"success", "failed", "syntax_error"})
  BY <1>1, <1>2, <1>3 DEF TypeOK
<1>5. TypeOK'
  <2>1. job' \in BOOLEAN /\ stored' \in BOOLEAN
    BY <1>2, ConnectsTypes
  <2> QED BY <1>1, <1>2, <1>4, <2>1 DEF Execute, TypeOK, ExitFailed, serverVars
<1>6. Untouched' /\ Passed' /\ Publishing'
  BY <1>1, <1>2 DEF Execute, ExitFailed, Untouched, Passed, Publishing, Early
<1>7. Running'
  <2>1. outcome = "success" => ran' = [i \in 1..next |-> "success"]
    BY <1>1, <1>2, <1>4
  <2>2. pc' = "run" => outcome = "success"
    BY <1>2 DEF ExitFailed
  <2>3. next' - 1 = next /\ pc' # "finalize" /\ posts' = 0
    BY <1>1, <1>2 DEF Execute, ExitFailed
  <2> QED BY <2>1, <2>2, <2>3 DEF Running
<1>8. RefusedWhole' /\ HereOrThere'
  <2>1. switches' # "unknown" /\ line' = line /\ \A i \in DOMAIN line : HasGroup(line[i])
    BY <1>1 DEF Execute, Passed
  <2>2. RefusedWhole'
    BY <2>1 DEF RefusedWhole, HasGroup
  <2>3. posts' = 0 /\ code' # "0"
    BY <1>1, <1>2 DEF Execute, ExitFailed
  <2>4. \A i \in DOMAIN ran' :
          ran'[i] # "success" => i = Len(ran') /\ pc' = "exit" /\ code' = "1"
    BY <1>1, <1>2, <1>4 DEF ExitFailed
  <2> QED BY <2>2, <2>3, <2>4 DEF HereOrThere
<1> QED BY <1>5, <1>6, <1>7, <1>8

LEMMA EndStep ==
  ASSUME IInv, EndOfRun \/ Finalize
  PROVE  IInv'
<1> USE DEF IInv
<1>1. /\ line \in Lines /\ Len(line) \in Nat /\ DOMAIN line = 1..Len(line)
      /\ pc \in {"run", "finalize"} /\ code = "none"
  BY LineIs DEF EndOfRun, Finalize, TypeOK, Passed
<1>2. posts = 0 => pc' \in {"finalize", "exit"} /\ ran = [i \in 1..Len(line) |-> "success"]
  <2>1. CASE EndOfRun
    <3>1. next = Len(line) + 1
      BY <2>1, <1>1 DEF EndOfRun, TypeOK
    <3>2. next - 1 = Len(line)
      BY <3>1, <1>1
    <3> QED BY <2>1, <3>2 DEF EndOfRun, Running
  <2>2. CASE Finalize
    BY <2>2 DEF Finalize, Running
  <2> QED BY <2>1, <2>2
<1>3. TypeOK'
  BY <1>1 DEF EndOfRun, Finalize, TypeOK, settingsVars, serverVars
<1>4. Untouched' /\ Passed' /\ Publishing'
  BY <1>1 DEF EndOfRun, Finalize, Untouched, Passed, Publishing, Early
<1>5. Running'
  BY <1>1, <1>2 DEF EndOfRun, Finalize, Running
<1>6. RefusedWhole'
  BY <1>1 DEF EndOfRun, Finalize, RefusedWhole, Passed, HasGroup
<1>7. HereOrThere'
  <2>1. UNCHANGED <<ran, posts, line>> /\ \A i \in DOMAIN ran : ran[i] = "success"
    BY <1>1 DEF EndOfRun, Finalize, HereOrThere
  <2> QED BY <1>1, <1>2, <2>1 DEF EndOfRun, Finalize, HereOrThere
<1> QED BY <1>3, <1>4, <1>5, <1>6, <1>7

-----------------------------------------------------------------------------
LEMMA NextInv == IInv /\ [Next]_vars => IInv'
<1> SUFFICES ASSUME IInv, [Next]_vars PROVE IInv'
  OBVIOUS
<1>1. CASE UNCHANGED vars
  BY <1>1 DEF vars, clientVars, settingsVars, serverVars, IInv, TypeOK, Untouched, Passed,
              Publishing, Running, RefusedWhole, HereOrThere
<1>2. CASE Start
  BY <1>2, StartStep
<1>3. CASE Server \/ Browse
  BY <1>3, ServerStep
<1>4. CASE Client
  BY <1>4, EarlyStep, PublishStep, EndOfPublishStep, ExecuteStep, EndStep DEF Client
<1> QED BY <1>1, <1>2, <1>3, <1>4 DEF Next

LEMMA Inductive == Spec => []IInv
<1> QED BY InitInv, NextInv, PTL DEF Spec

(***************************************************************************)
(* The types of the variables of the line, the settings and the server.    *)
(***************************************************************************)
THEOREM TypeCorrect == Spec => []TypeOK
<1>1. IInv => TypeOK
  BY DEF IInv
<1> QED BY <1>1, Inductive, PTL

(***************************************************************************)
(* A line with an unknown switch or group does nothing (Switch.cpp:92-140, *)
(* Group.cpp:128-174).                                                     *)
(***************************************************************************)
THEOREM Refused == Spec => []RefusedWhole
<1>1. IInv => RefusedWhole
  BY DEF IInv
<1> QED BY <1>1, Inductive, PTL

(***************************************************************************)
(* Commands run here or are published, in their order, and the first that  *)
(* fails is the last (Group.cpp:176-212).                                  *)
(***************************************************************************)
THEOREM RunsOnce == Spec => []HereOrThere
<1>1. IInv => HereOrThere
  BY DEF IInv
<1> QED BY <1>1, Inductive, PTL

-----------------------------------------------------------------------------
(***************************************************************************)
(* Dispatch keeps the promise of CommandLines: whatever changes none of    *)
(* the line, what ran, the number of publications and the exit code is no  *)
(* step of it.                                                             *)
(***************************************************************************)
fateVars == <<line, ran, posts, code>>

LEMMA SameFate ==
  ASSUME UNCHANGED <<line, ran, posts>>
  PROVE  Fate' = Fate /\ Left' = Left /\ Faulty' = Faulty /\ Failed' = Failed
BY DEF Fate, Left, Faulty, Failed

LEMMA SamePromise ==
  ASSUME UNCHANGED fateVars
  PROVE  UNCHANGED Promise!promised
BY SameFate DEF fateVars, Promise!promised

LEMMA RefuseStep ==
  ASSUME IInv, pc # "exit", ran = <<>>, posts = 0, UNCHANGED <<line, ran, posts>>, code' = "1"
  PROVE  Promise!Refuse
<1>1. code = "none" /\ Fate = "open"
  BY DEF IInv, Passed, Fate
<1> QED BY <1>1, SameFate DEF Promise!Refuse

\* The switches, the shortcuts and the check of the list.
LEMMA EarlyPromise ==
  ASSUME IInv, HandleSwitches \/ HandleShortcuts \/ ExecuteShortcut \/ CheckList
  PROVE  Promise!Next \/ UNCHANGED Promise!promised
<1>1. pc \in Early /\ pc # "exit"
  BY DEF HandleSwitches, HandleShortcuts, ExecuteShortcut, CheckList, Early
<1>2. ran = <<>> /\ posts = 0
  BY <1>1 DEF IInv, Untouched
<1>3. UNCHANGED <<line, ran, posts>>
  BY DEF HandleSwitches, HandleShortcuts, ExecuteShortcut, CheckList
<1>4. code' = code \/ code' = "1"
  BY DEF HandleSwitches, UnknownSwitch, InvalidSwitch, GoodSwitches, HandleShortcuts,
         ExecuteShortcut, CheckList, ExitFailed
<1> QED BY <1>1, <1>2, <1>3, <1>4, RefuseStep, SamePromise DEF Promise!Next, fateVars

LEMMA StartPromise ==
  ASSUME IInv, Start
  PROVE  Promise!Begin
<1>1. code # "none" /\ code' = "none" /\ ran' = <<>> /\ posts' = 0 /\ line' \in Lines
  BY DEF IInv, Passed, Start, Typing
<1>2. Fate' = "open" /\ Failed' = FALSE /\ Faulty' \in BOOLEAN
  BY <1>1 DEF Fate, Failed, Faulty
<1>3. Left' \in Nat
  BY <1>1, LineIs DEF Left
<1> QED BY <1>1, <1>2, <1>3 DEF Promise!Begin

\* Only the first publication of a line counts.
LEMMA PublishPromise ==
  ASSUME IInv, PublishJob
  PROVE  Promise!Next \/ UNCHANGED Promise!promised
<1>1. pc = "publish" /\ code = "none" /\ ~ Faulty /\ ran = <<>> /\ posts \in Nat
  BY LineIs DEF PublishJob, IInv, TypeOK, Passed, Publishing, Faulty
<1>2. UNCHANGED <<line, ran, code>>
  BY DEF PublishJob
<1>3. Left' = Left /\ Faulty' = Faulty /\ Failed' = Failed
  BY <1>2 DEF Left, Faulty, Failed
<1>4. CASE posts' = posts
  BY <1>2, <1>4, SamePromise DEF fateVars
<1>5. CASE posts' = posts + 1
  <2>1. Fate' = "there"
    BY <1>1, <1>5 DEF Fate
  <2>2. Fate \in {"open", "there"}
    BY <1>1 DEF Fate
  <2> QED BY <1>1, <1>2, <1>3, <2>1, <2>2 DEF Promise!Next, Promise!Publish, Promise!promised
<1> QED BY <1>4, <1>5 DEF PublishJob

\* A command that runs here is the next one, and none before it has failed.
LEMMA ExecutePromise ==
  ASSUME IInv, Execute
  PROVE  Promise!RunHere
<1>1. pc = "run" /\ code = "none" /\ ~ Faulty /\ posts = 0 /\ posts' = 0 /\ line' = line
  BY DEF Execute, IInv, Passed, Running, Faulty
<1>2. /\ next \in Nat /\ next >= 1 /\ next <= Len(line) /\ Len(line) \in Nat
      /\ ran \in Seq({"success", "failed", "syntax_error"})
  BY LineIs DEF Execute, IInv, TypeOK
<1>3. ran = [i \in 1..next - 1 |-> "success"] /\ Len(ran) = next - 1
  <2>1. ran = [i \in 1..next - 1 |-> "success"]
    BY <1>1 DEF IInv, Running
  <2>2. Len(ran) \in Nat /\ DOMAIN ran = 1..Len(ran) /\ DOMAIN ran = 1..next - 1
    BY <1>2, <2>1
  <2> QED BY <1>2, <2>1, <2>2
<1>4. PICK outcome \in {"success", "failed", "syntax_error"} :
        /\ ran' = Append(ran, outcome)
        /\ IF outcome = "success" THEN UNCHANGED <<pc, code>> ELSE ExitFailed
  BY DEF Execute, Outcomes
<1>5. /\ Len(ran') = Len(ran) + 1 /\ ran' # <<>> /\ DOMAIN ran' = 1..Len(ran) + 1
      /\ ran'[Len(ran) + 1] = outcome
      /\ \A i \in 1..Len(ran) : ran'[i] = ran[i]
  BY <1>2, <1>4
<1>6. Left > 0 /\ Left' = Left - 1 /\ Faulty' = Faulty
  BY <1>1, <1>2, <1>3, <1>5 DEF Left, Faulty
<1>7. Fate # "there" /\ Fate' = "here"
  BY <1>1, <1>5 DEF Fate
<1>8. ~ Failed
  BY <1>3 DEF Failed
<1>9. \/ Failed' = Failed /\ code' = code
      \/ Failed' = TRUE /\ code' = "1"
  <2>1. CASE outcome = "success"
    <3>1. \A i \in DOMAIN ran' : ran'[i] = "success"
      BY <1>2, <1>3, <1>5, <2>1
    <3> QED BY <1>4, <1>8, <2>1, <3>1 DEF Failed
  <2>2. CASE outcome # "success"
    <3>1. Len(ran) + 1 \in DOMAIN ran'
      BY <1>2, <1>3, <1>5
    <3>2. Failed'
      BY <1>5, <2>2, <3>1 DEF Failed
    <3> QED BY <1>4, <2>2, <3>2 DEF ExitFailed, Failed
  <2> QED BY <2>1, <2>2
<1> QED BY <1>1, <1>6, <1>7, <1>9 DEF Promise!RunHere

LEMMA FinalizePromise ==
  ASSUME IInv, Finalize
  PROVE  Promise!Succeed
<1>1. pc = "finalize" /\ code = "none" /\ code' = "0" /\ ~ Faulty
  BY DEF Finalize, IInv, Passed, Faulty
<1>2. UNCHANGED <<line, ran, posts>>
  BY DEF Finalize
<1>3. posts \in Nat /\ Len(line) \in Nat
  BY LineIs DEF IInv, TypeOK
<1>4. CASE posts > 0
  <2>1. Fate = "there" /\ ~ Failed
    BY <1>3, <1>4 DEF Fate, Failed, IInv, HereOrThere
  <2> QED BY <1>1, <1>2, <2>1, SameFate DEF Promise!Succeed
<1>5. CASE posts = 0
  <2>1. ran = [i \in 1..Len(line) |-> "success"]
    BY <1>1, <1>5 DEF IInv, Running
  <2>2. Len(ran) = Len(line) /\ DOMAIN ran = 1..Len(line)
    <3>1. Len(ran) \in Nat /\ DOMAIN ran = 1..Len(ran) /\ DOMAIN ran = 1..Len(line)
      BY <2>1 DEF IInv, TypeOK
    <3> QED BY <1>3, <3>1
  <2>3. Left = 0 /\ ~ Failed
    BY <1>3, <2>1, <2>2 DEF Left, Failed
  <2> QED BY <1>1, <1>2, <2>3, SameFate DEF Promise!Succeed
<1> QED BY <1>3, <1>4, <1>5

LEMMA PromiseStep == IInv /\ [Next]_vars => [Promise!Next]_(Promise!promised)
<1> SUFFICES ASSUME IInv, [Next]_vars
             PROVE  Promise!Next \/ UNCHANGED Promise!promised
  OBVIOUS
<1>1. CASE Start
  BY <1>1, StartPromise DEF Promise!Next
<1>2. CASE HandleSwitches \/ HandleShortcuts \/ ExecuteShortcut \/ CheckList
  BY <1>2, EarlyPromise
<1>3. CASE PublishJob
  BY <1>3, PublishPromise
<1>4. CASE Execute
  BY <1>4, ExecutePromise DEF Promise!Next
<1>5. CASE Finalize
  BY <1>5, FinalizePromise DEF Promise!Next
<1>6. CASE Published \/ NotPublished \/ EndOfPublish \/ EndOfRun
  BY <1>6, SamePromise DEF Published, NotPublished, EndOfPublish, EndOfRun, fateVars
<1>7. CASE Server \/ Browse
  <2>1. UNCHANGED clientVars
    BY <1>7 DEF Server, Browse, Listen, Interrupt, HandleJob, ExecuteJob, AnswerJob, StopListen
  <2> QED BY <2>1, SamePromise DEF clientVars, fateVars
<1>8. CASE UNCHANGED vars
  BY <1>8, SamePromise DEF vars, clientVars, fateVars
<1> QED BY <1>1, <1>2, <1>3, <1>4, <1>5, <1>6, <1>7, <1>8 DEF Next, Client

(***************************************************************************)
(* Dispatch implements CommandLines for all lines, shortcuts and jobs: a   *)
(* line is refused untouched, runs here in order up to its first failure,  *)
(* or is published, and the exit code says which (Group.cpp:120-215).      *)
(***************************************************************************)
THEOREM PromiseIsKept == Spec => KeepsPromise
<1>1. Init => Promise!Init
  <2> SUFFICES ASSUME Init PROVE Promise!Init
    OBVIOUS
  <2>1. Fate = "open" /\ Faulty = FALSE /\ Failed = FALSE
    BY DEF Init, Fate, Faulty, Failed
  <2>2. Left = 0
    BY DEF Init, Left
  <2> QED BY <2>1, <2>2 DEF Init, Promise!Init
<1> QED BY <1>1, PromiseStep, Inductive, PTL DEF Spec, KeepsPromise, Promise!Spec

-----------------------------------------------------------------------------
(***************************************************************************)
(* A name that is typed has a place in the alphabet.                       *)
(***************************************************************************)
LEMMA PositionIs ==
  ASSUME NEW k \in DOMAIN Alphabet
  PROVE  Position(Alphabet[k]) \in 1..Len(Alphabet)
BY CommandAssumption DEF Position

(***************************************************************************)
(* Where one argument alone speaks of r it is the first, and where none    *)
(* does the default is taken.                                              *)
(***************************************************************************)
LEMMA LookupIs ==
  ASSUME NEW args, NEW r,
         \A i \in Places(args) :
           \E k \in DOMAIN Alphabet : args[i].name = Alphabet[k]
  PROVE  /\ Speaking(args, r) = {} => Lookup(args, r) = r.default
         /\ \A i : Speaking(args, r) = {i} => Lookup(args, r) = Parsed(args[i]).value
<1>1. ASSUME NEW i, Speaking(args, r) = {i}
      PROVE  Lookup(args, r) = Parsed(args[i]).value
  <2>1. i \in Places(args)
    BY <1>1 DEF Speaking
  <2>2. Position(args[i].name) \in Nat
    BY <2>1, PositionIs, CommandAssumption
  <2>3. \A j \in Speaking(args, r) : Position(args[i].name) <= Position(args[j].name)
    BY <1>1, <2>2
  <2>4. FirstOf(args, r) = i
    BY <1>1, <2>3 DEF FirstOf
  <2> QED BY <1>1, <2>4 DEF Lookup
<1> QED BY <1>1 DEF Lookup

(***************************************************************************)
(* Arguments with names of the alphabet are bound: in a valid command each *)
(* is a place, none being the one that asks for the verdict, and none has  *)
(* the empty name, so that what was typed for r is what speaks of it.      *)
(***************************************************************************)
LEMMA ArgumentsOf ==
  ASSUME NEW args,
         \A i \in 1..Len(args) : \E k \in DOMAIN Alphabet : args[i].name = Alphabet[k]
  PROVE  Bound(args)
<1> SUFFICES ASSUME IsValid(args), \A i \in 1..Len(args) : args[i].name # Empty,
                    NEW r \in Reference
             PROVE  LET typed == {i \in 1..Len(args) : args[i].name \in NamesTyped(r)}
                    IN  /\ typed = {} /\ r.default # Remark
                           => ArgumentValue(args, r) = InDecimal(r, r.default)
                        /\ \A i \in typed :
                             typed = {i} /\ Parsed(args[i]).value # Remark
                             => ArgumentValue(args, r) = Meant(args[i], r)
  BY DEF Bound
<1> DEFINE typed == {i \in 1..Len(args) : args[i].name \in NamesTyped(r)}
<1>1. Places(args) = 1..Len(args)
  BY DEF IsValid, IsValidate, Places
<1>2. Speaking(args, r) = typed
  BY <1>1 DEF Speaking, Names, NamesTyped
<1>3. /\ Speaking(args, r) = {} => Lookup(args, r) = r.default
      /\ \A i : Speaking(args, r) = {i} => Lookup(args, r) = Parsed(args[i]).value
  BY <1>1, LookupIs
<1>4. typed = {} /\ r.default # Remark => ArgumentValue(args, r) = InDecimal(r, r.default)
  BY <1>2, <1>3 DEF ArgumentValue
<1>5. ASSUME NEW i \in typed, typed = {i}, Parsed(args[i]).value # Remark
      PROVE  ArgumentValue(args, r) = Meant(args[i], r)
  BY <1>2, <1>3, <1>5 DEF ArgumentValue, Meant
<1> QED BY <1>4, <1>5

(***************************************************************************)
(* The arguments of every command of a line reach its handler as they were *)
(* typed, whatever the reference, the alphabet and the commands: is_valid()*)
(* leaves nothing that the lookup could mistake.                           *)
(***************************************************************************)
THEOREM ArgumentsReach == Spec => []ArgumentsBound
<1>1. IInv => ArgumentsBound
  <2> SUFFICES ASSUME IInv, NEW i \in DOMAIN line
               PROVE  Bound(line[i].args)
    BY DEF ArgumentsBound
  <2>1. line[i] \in Inputs
    BY LineIs DEF IInv, TypeOK
  <2>2. \A k \in 1..Len(line[i].args) : \E n \in DOMAIN Alphabet : line[i].args[k].name = Alphabet[n]
    BY <2>1, DispatchAssumption
  <2> QED BY <2>2, ArgumentsOf
<1> QED BY <1>1, Inductive, PTL
=============================================================================
