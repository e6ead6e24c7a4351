----------------------------- MODULE ConnectProof -----------------------------
(***************************************************************************)
(* Proofs about Connect for every set of ports, every setting and every    *)
(* width of the retry counter: its types, the bound on the passes, and     *)
(* which port a try ends up with.                                          *)
(***************************************************************************)
EXTENDS Connect, TLAPS

\* Where the loop stands in its count.
Counted ==
  /\ pc = "idle" => passes = 0
  /\ pc = "pass" => passes = counter - 1 /\ counter >= 1
  /\ pc = "scan" => passes = counter
  /\ pc \in {"pass", "scan"} => counter <= 1 \/ counter < Limit
  /\ pc = "finish" => passes <= 1 \/ passes < Limit

\* What is still to be tried, and what was found.
Found ==
  /\ pc = "scan" => todo \subseteq path
  /\ pc # "idle" /\ fresh /\ linked # NoPort => linked \in path \ Blacklist
  /\ pc = "scan" /\ linked # NoPort => ~ error
  /\ AnsweringPortWins

IInv == TypeOK /\ Counted /\ Found

-----------------------------------------------------------------------------
(***************************************************************************)
(* retry_count + 1 as a u32: 0 for the largest count, the sum otherwise    *)
(* (Connection.cpp:475 and 495).                                           *)
(***************************************************************************)
LEMMA LimitIs ==
  TypeOK => Limit = IF retries = Modulus - 1 THEN 0 ELSE retries + 1
<1> SUFFICES ASSUME TypeOK
             PROVE  Limit = IF retries = Modulus - 1 THEN 0 ELSE retries + 1
  OBVIOUS
<1>1. retries \in 0..(Modulus - 1) /\ Modulus \in Nat \ {0, 1}
  BY ConnectAssumption DEF TypeOK
<1>2. CASE retries = Modulus - 1
  BY <1>1, <1>2 DEF Limit
<1>3. CASE retries # Modulus - 1
  BY <1>1, <1>3 DEF Limit
<1> QED BY <1>2, <1>3

LEMMA AnyIsAPath == Any \in AllPaths /\ Paths \subseteq AllPaths /\ Preferred \in AllPaths
  BY DEF AllPaths

LEMMA InitInv == Init => IInv
<1> SUFFICES ASSUME Init PROVE IInv
  OBVIOUS
<1>0. 0 \in 0..(Modulus - 1) /\ 0 \in 0..Modulus
  BY ConnectAssumption
<1>1. TypeOK
  BY <1>0, AnyIsAPath DEF Init, TypeOK, Kinds
<1>2. Counted /\ Found
  BY DEF Init, Counted, Found, AnsweringPortWins
<1> QED BY <1>1, <1>2 DEF IInv

-----------------------------------------------------------------------------
(***************************************************************************)
(* A device that comes or goes, or a transfer that notices, leaves the     *)
(* loop's own state alone.                                                 *)
(***************************************************************************)
LEMMA HostStep == IInv /\ (Host \/ LinkLost) => IInv'
<1> SUFFICES ASSUME IInv, Host \/ LinkLost PROVE IInv'
  OBVIOUS
<1> USE DEF IInv
<1>1. ASSUME NEW p \in Ports, Detach(p) PROVE IInv'
  <2>1. TypeOK'
    BY <1>1 DEF Detach, TypeOK, Kinds, linkVars, loopVars
  <2>2. Counted' /\ Found'
    BY <1>1 DEF Detach, Counted, Found, AnsweringPortWins, Limit, linkVars,
                loopVars
  <2> QED BY <2>1, <2>2
<1>2. ASSUME NEW p \in Ports, NEW k \in Kinds, Attach(p, k) PROVE IInv'
  <2>1. TypeOK'
    BY <1>2 DEF Attach, TypeOK, linkVars, loopVars
  <2>2. Counted' /\ Found'
    BY <1>2 DEF Attach, Counted, Found, AnsweringPortWins, Limit, linkVars,
                loopVars
  <2> QED BY <2>1, <2>2
<1>3. CASE LinkLost
  <2>1. TypeOK'
    BY <1>3 DEF LinkLost, TypeOK, hostVars, loopVars
  <2>2. Counted' /\ Found'
    BY <1>3 DEF LinkLost, Counted, Found, AnsweringPortWins, Limit, hostVars,
                loopVars
  <2> QED BY <2>1, <2>2
<1> QED BY <1>1, <1>2, <1>3 DEF Host

(***************************************************************************)
(* A command that starts no try leaves the loop idle.                      *)
(***************************************************************************)
LEMMA IdleStep ==
  ASSUME IInv, pc = "idle", UNCHANGED <<sessionPath, pc, loopVars>>, TypeOK'
  PROVE  IInv'
  BY DEF IInv, Counted, Found, AnsweringPortWins, loopVars

(***************************************************************************)
(* try_connect() enters the loop with the first attempt counted and none   *)
(* made, or skips it because an error is pending.                          *)
(***************************************************************************)
LEMMA EnterStep ==
  ASSUME NEW o \in {"ready", "readyBoot", "connect"}, NEW p \in AllPaths,
         NEW r \in 0..(Modulus - 1), IInv, TryConnect(o, p, r)
  PROVE  IInv'
<1>1. TypeOK'
  <2>1. path' \in AllPaths
    BY DEF TryConnect, UsesSession, IInv, TypeOK
  <2>2. retries' \in 0..(Modulus - 1)
    BY ConnectAssumption DEF TryConnect, UsesSession
  <2>3. counter' \in 0..(Modulus - 1) /\ passes' \in 0..Modulus
    BY ConnectAssumption DEF TryConnect
  <2>4. pc' \in {"idle", "pass", "scan", "finish"}
    BY DEF TryConnect
  <2> QED
    BY <2>1, <2>2, <2>3, <2>4
    DEF TryConnect, IInv, TypeOK, hostVars, linkVars
<1>2. Counted'
  BY DEF TryConnect, Counted
<1>3. Found'
  <2>1. fresh' = (linked = NoPort) /\ linked' = linked
    BY DEF TryConnect, linkVars
  <2>2. fresh' => linked' = NoPort
    BY <2>1, Zenon
  <2>3. pc' # "scan" /\ passes' = 0
    BY DEF TryConnect
  <2> QED BY <2>2, <2>3, ConnectAssumption DEF Found, AnsweringPortWins
<1> QED BY <1>1, <1>2, <1>3 DEF IInv

LEMMA CommandStep == IInv /\ Commands => IInv'
<1> SUFFICES ASSUME IInv, Commands PROVE IInv'
  OBVIOUS
<1>0. TypeOK
  BY DEF IInv
<1>1. CASE Reset
  <2>1. TypeOK'
    BY <1>0, <1>1 DEF Reset, TypeOK, Kinds, loopVars
  <2> QED BY <1>1, <2>1, IdleStep DEF Reset
<1>2. CASE CommandFails
  <2>1. TypeOK'
    BY <1>0, <1>2 DEF CommandFails, TypeOK, hostVars, loopVars
  <2> QED BY <1>2, <2>1, IdleStep DEF CommandFails
<1>3. CASE OtherThread
  <2>1. TypeOK'
    BY <1>0, <1>3 DEF OtherThread, TypeOK, hostVars, loopVars
  <2> QED BY <1>3, <2>1, IdleStep DEF OtherThread
<1>4. ASSUME NEW failed \in SUBSET Ports, Ping(failed) PROVE IInv'
  <2>1. linked' \in Ports \cup {NoPort} /\ boot' \in BOOLEAN
    BY <1>0, <1>4 DEF Ping, TypeOK
  <2>2. error' \in BOOLEAN
    <3>1. error' = (error \/ attached = {} \/ failed # {})
      BY <1>4 DEF Ping
    <3> QED BY <3>1
  <2>3. outcome' \in {"none", "ok", "failed"}
    BY <1>4 DEF Ping
  <2>4. TypeOK'
    BY <1>0, <1>4, <2>1, <2>2, <2>3 DEF Ping, TypeOK, hostVars, loopVars
  <2> QED BY <1>4, <2>4, IdleStep DEF Ping
<1>5. ASSUME NEW p \in Ports, ConnectFull(p) PROVE IInv'
  <2>1. linked' \in Ports \cup {NoPort} /\ boot' \in BOOLEAN /\ error' \in BOOLEAN
    BY <1>0, <1>5 DEF ConnectFull, TypeOK
  <2>2. TypeOK'
    BY <1>0, <1>5, <2>1 DEF ConnectFull, TypeOK, hostVars, loopVars
  <2> QED BY <1>5, <2>2, IdleStep DEF ConnectFull
<1>6. ASSUME NEW o \in {"ready", "readyBoot"}, Ready(o) PROVE IInv'
  <2>1. CASE linked # NoPort
    <3>1. pc = "idle" /\ AlreadyLinked(o)
      BY <1>6, <2>1 DEF Ready
    <3>2. TypeOK'
      BY <1>0, <3>1
      DEF AlreadyLinked, TypeOK, hostVars, linkVars, loopVars
    <3> QED BY <3>1, <3>2, IdleStep DEF AlreadyLinked
  <2>2. CASE linked = NoPort
    <3> DEFINE r == IF Preferred = Any THEN DefaultRetry ELSE PreferredRetry
    <3>1. TryConnect(o, Preferred, r)
      BY <1>6, <2>2 DEF Ready
    <3>2. r \in 0..(Modulus - 1)
      BY ConnectAssumption
    <3> QED BY <3>1, <3>2, AnyIsAPath, EnterStep
  <2> QED BY <2>1, <2>2
<1>7. ASSUME NEW p \in Paths, NEW r \in Retries, ConnectPath(p, r) PROVE IInv'
  <2>1. p \in AllPaths /\ r \in 0..(Modulus - 1)
    BY AnyIsAPath, ConnectAssumption
  <2> QED BY <1>7, <2>1, EnterStep DEF ConnectPath
<1> QED BY <1>1, <1>2, <1>3, <1>4, <1>5, <1>6, <1>7 DEF Commands

-----------------------------------------------------------------------------
LEMMA PassStep == IInv /\ Pass => IInv'
<1> SUFFICES ASSUME IInv, Pass PROVE IInv'
  OBVIOUS
<1>1. TypeOK /\ Counted /\ Found
  BY DEF IInv
<1>2. passes' = passes + 1
  BY <1>1, ConnectAssumption DEF Pass, TypeOK, Counted
<1>3. TypeOK'
  <2>1. passes' \in 0..Modulus
    BY <1>1, <1>2, ConnectAssumption DEF Pass, TypeOK, Counted
  <2>2. todo' \in SUBSET Ports
    BY <1>1 DEF Pass, TypeOK
  <2> QED BY <1>1, <2>1, <2>2 DEF Pass, TypeOK, hostVars
<1>4. Counted'
  BY <1>1, <1>2 DEF Pass, TypeOK, Counted, Limit
<1>5. Found'
  BY <1>1 DEF Pass, Found, AnsweringPortWins
<1> QED BY <1>3, <1>4, <1>5 DEF IInv

LEMMA TryStep == ASSUME IInv, NEW p \in todo, Try(p) PROVE IInv'
<1>1. TypeOK /\ Counted /\ Found /\ p \in Ports /\ p \in path
  BY DEF IInv, TypeOK, Found, Try
<1>2. linked' \in {p, NoPort} /\ boot' \in BOOLEAN /\ error' \in BOOLEAN
  BY <1>1 DEF Try, TypeOK, linkVars
<1>3. linked' # NoPort => linked' = p /\ p \notin Blacklist /\ ~ error'
  BY DEF Try, linkVars
<1>4. TypeOK'
  BY <1>1, <1>2 DEF Try, TypeOK, hostVars
<1>5. Counted'
  BY <1>1 DEF Try, Counted, Limit
<1>6. Found'
  BY <1>1, <1>3 DEF Try, Found, AnsweringPortWins
<1> QED BY <1>4, <1>5, <1>6 DEF IInv

LEMMA PassEndStep == IInv /\ PassEnd => IInv'
<1> SUFFICES ASSUME IInv, PassEnd PROVE IInv'
  OBVIOUS
<1>1. TypeOK /\ Counted /\ Found
  BY DEF IInv
<1>2. Limit = (IF retries = Modulus - 1 THEN 0 ELSE retries + 1) /\ Limit' = Limit
  BY <1>1, LimitIs DEF PassEnd, Limit
<1>3. CASE linked = NoPort /\ counter < Limit
  <2>1. /\ error' = FALSE /\ counter' = counter + 1
        /\ pc' = IF counter + 1 < Limit THEN "pass" ELSE "finish"
        /\ pc = "scan" /\ linked' = NoPort /\ passes' = passes
    BY <1>3 DEF PassEnd
  <2>2. TypeOK'
    <3>1. counter' \in 0..(Modulus - 1)
      BY <1>1, <1>2, <1>3, <2>1, ConnectAssumption DEF TypeOK
    <3> QED BY <1>1, <2>1, <3>1 DEF PassEnd, TypeOK, hostVars
  <2>3. Counted'
    BY <1>1, <1>2, <1>3, <2>1 DEF TypeOK, Counted
  <2>4. Found'
    BY <2>1 DEF Found, AnsweringPortWins
  <2> QED BY <2>2, <2>3, <2>4 DEF IInv
<1>4. CASE ~ (linked = NoPort /\ counter < Limit)
  <2>1. /\ pc' = "finish" /\ pc = "scan"
        /\ UNCHANGED <<error, counter, linked, passes, path, fresh>>
    BY <1>4 DEF PassEnd
  <2>2. TypeOK'
    BY <1>1, <2>1 DEF PassEnd, TypeOK, hostVars
  <2>3. Counted'
    BY <1>1, <1>2, <2>1 DEF Counted
  <2>4. Found'
    BY <1>1, <2>1 DEF Found, AnsweringPortWins
  <2> QED BY <2>2, <2>3, <2>4 DEF IInv
<1> QED BY <1>3, <1>4

LEMMA FinishStep == IInv /\ Finish => IInv'
<1> SUFFICES ASSUME IInv, Finish PROVE IInv'
  OBVIOUS
<1>1. TypeOK
  BY DEF IInv
<1>2. sessionPath' \in AllPaths
  BY <1>1 DEF Finish, TypeOK
<1>3. error' \in BOOLEAN /\ outcome' \in {"none", "ok", "failed"}
  <2>1. error' = (error \/ (op = "connect" /\ linked = NoPort))
    BY DEF Finish
  <2>2. outcome' \in {"none", "ok", "failed"}
    BY DEF Finish
  <2> QED BY <2>1, <2>2
<1>4. TypeOK'
  BY <1>1, <1>2, <1>3, AnyIsAPath, ConnectAssumption DEF Finish, TypeOK, hostVars
<1>5. Counted' /\ Found'
  BY DEF Finish, Counted, Found, AnsweringPortWins
<1> QED BY <1>4, <1>5 DEF IInv

(***************************************************************************)
(* The invariant that the theorems below rest on is kept by every step.    *)
(***************************************************************************)
LEMMA NextInv == IInv /\ [Next]_vars => IInv'
<1> SUFFICES ASSUME IInv, [Next]_vars PROVE IInv'
  OBVIOUS
<1>1. CASE Commands
  BY <1>1, CommandStep
<1>2. CASE Loop
  BY <1>2, PassStep, TryStep, PassEndStep, FinishStep DEF Loop
<1>3. CASE Host \/ LinkLost
  BY <1>3, HostStep
<1>4. CASE UNCHANGED vars
  BY <1>4 DEF IInv, TypeOK, Counted, Found, AnsweringPortWins, Limit, vars,
              hostVars, linkVars, loopVars
<1> QED BY <1>1, <1>2, <1>3, <1>4 DEF Next

LEMMA Invariance == Spec => []IInv
  BY InitInv, NextInv, PTL DEF Spec

-----------------------------------------------------------------------------
(***************************************************************************)
(* The state of the connection and of the retry loop keeps its types; in   *)
(* particular no retry count makes the u32 counter leave its range.        *)
(***************************************************************************)
THEOREM TypeCorrect == Spec => []TypeOK
<1>1. IInv => TypeOK
  BY DEF IInv
<1> QED BY <1>1, Invariance, PTL

(***************************************************************************)
(* Whatever the devices do, try_connect_to_any() lists the ports at most   *)
(* retry_count times, or once (Connection.cpp:441-495).                    *)
(***************************************************************************)
THEOREM RetriesBounded == Spec => []RetryBound
<1>1. IInv => RetryBound
  <2> SUFFICES ASSUME IInv PROVE RetryBound
    OBVIOUS
  <2>1. TypeOK /\ Counted
    BY DEF IInv
  <2>2. passes <= 1 \/ passes < Limit
    BY <2>1, LimitIs, ConnectAssumption DEF TypeOK, Counted
  <2> QED BY <2>1, <2>2, LimitIs, ConnectAssumption DEF RetryBound, TypeOK
<1> QED BY <1>1, Invariance, PTL

(***************************************************************************)
(* A port that a try connects to matches its path and is not blacklisted   *)
(* (Connection.cpp:453-466).                                               *)
(***************************************************************************)
THEOREM PortChosen == Spec => []ChosenFromPath
<1>1. IInv => ChosenFromPath
  BY DEF IInv, Found, ChosenFromPath
<1> QED BY <1>1, Invariance, PTL

(***************************************************************************)
(* No error of a port tried in vain outlives the try that found another    *)
(* (Connection.cpp:442, 455 and 476).                                      *)
(***************************************************************************)
THEOREM NoErrorLeft == Spec => []AnsweringPortWins
<1>1. IInv => AnsweringPortWins
  BY DEF IInv, Found
<1> QED BY <1>1, Invariance, PTL
=============================================================================
