-------------------------- MODULE LocalServerProof --------------------------
(***************************************************************************)
(* LocalServer is correct for any number of clients and slots: its type    *)
(* invariant, its four safety invariants, and that it implements Sessions. *)
(***************************************************************************)
EXTENDS LocalServer, TLAPS

\* A worker has a socket only from Take to Release, and needs one to serve.
WorkerHasSocket ==
  \A w \in Slots :
    /\ worker[w] \in {"free", "spawned", "ending"} => socket[w] = NoConn
    /\ worker[w] \in Executing \cup {"terminal"} => socket[w] # NoConn

\* The printer's queue holds lines of the session that executes, if any.
OutOfExecuting ==
  \A c \in out : c # NoConn => \E w \in Slots : worker[w] \in Executing /\ socket[w] = c

IInv ==
  /\ TypeOK
  /\ SocketOwnedOnce
  /\ WorkerHasSocket
  /\ SerialSessions
  /\ TerminalNeverRefused
  /\ OutOfExecuting
  /\ RepliesSeparate

-----------------------------------------------------------------------------
\* The initial state is well typed.
LEMMA TypeInit == Init => TypeOK
<1> USE ServerAssumption DEF ServerAssumption
<1>1. Init => TypeOK
  <2> SUFFICES ASSUME Init PROVE TypeOK
    OBVIOUS
  <2>1. /\ scan \in Slots
        /\ lines \in 0..MaxLines
        /\ mutex \in Slots \cup {0} /\ terminalMutex \in Slots \cup {0}
    BY DEF Init, Slots
  <2>2. /\ reply \in [Conns -> SUBSET (Conns \cup {NoConn})]
        /\ conn \in [Conns -> {"idle", "backlog", "accepted", "claimed", "closed", "dropped"}]
    BY DEF Init
  <2>3. /\ worker \in [Slots -> WorkerStates]
        /\ socket \in [Slots -> Conns \cup {NoConn}]
        /\ socketStatus \in [Slots -> BOOLEAN]
    BY DEF Init, WorkerStates
  <2>4. QED
    BY <2>1, <2>2, <2>3 DEF Init, TypeOK, ListenerStates
<1>2. QED
  BY <1>1

\* Every step of the listener, of a worker and of the outside keeps the types.
LEMMA TypeStep == TypeOK /\ [Next]_vars => TypeOK'
<1> USE ServerAssumption DEF ServerAssumption
<1>1. TypeOK /\ [Next]_vars => TypeOK'
  <2> SUFFICES ASSUME TypeOK, [Next]_vars PROVE TypeOK'
    OBVIOUS
  <2> USE DEF TypeOK, Slots, ListenerStates, WorkerStates, listenerVars,
              workerVars, lockVars, outputVars
  <2>1. CASE CheckInterrupted
    BY <2>1 DEF CheckInterrupted
  <2>2. CASE Spawn
    BY <2>2 DEF Spawn
  <2>3. CASE NextSlot
    BY <2>3 DEF NextSlot
  <2>4. CASE Sync
    BY <2>4 DEF Sync
  <2>5. ASSUME NEW c \in Conns, Accept(c) PROVE TypeOK'
    BY <2>5 DEF Accept
  <2>6. ASSUME NEW c \in Conns, Connect(c) PROVE TypeOK'
    BY <2>6 DEF Connect
  <2>7. ASSUME NEW c \in Conns, HangUp(c) PROVE TypeOK'
    BY <2>7 DEF HangUp
  <2>8. CASE PushTerminal
    BY <2>8 DEF PushTerminal
  <2>9. CASE PrintMain
    BY <2>9 DEF PrintMain
  <2>10. CASE Interrupt
    BY <2>10 DEF Interrupt
  <2>11. ASSUME NEW w \in Slots, Worker(w) PROVE TypeOK'
    <3>1. CASE Take(w)
      BY <3>1 DEF Take
    <3>2. CASE Lock(w)
      BY <3>2 DEF Lock
    <3>3. CASE Exit(w)
      BY <3>3 DEF Exit
    <3>4. CASE RespondNull(w)
      BY <3>4 DEF RespondNull, Release
    <3>5. CASE RespondGetWeb(w)
      BY <3>5 DEF RespondGetWeb, Release
    <3>6. CASE RespondPostCommand(w)
      BY <3>6 DEF RespondPostCommand
    <3>7. CASE Reply(w)
      BY <3>7 DEF Reply
    <3>8. CASE RespondTerminal(w)
      <4>1. CASE terminalMutex = 0
        BY <2>11, <3>8, <4>1 DEF RespondTerminal
      <4>2. CASE terminalMutex # 0
        <5>1. /\ Release(w) /\ socket[w] \in open
              /\ refused' = refused \cup {socket[w]}
              /\ UNCHANGED <<terminalMutex, socketStatus, listener, scan, interrupted,
                             acceptSocket, open, lines, out, reply>>
          BY <3>8, <4>2 DEF RespondTerminal
        <5>2. refused' \subseteq Conns
          BY <5>1
        <5>3. QED
          BY <5>1, <5>2 DEF Release
      <4>3. QED
        BY <4>1, <4>2
    <3>9. CASE MonitorSocket(w)
      BY <3>9 DEF MonitorSocket
    <3>10. CASE SendLine(w)
      BY <3>10 DEF SendLine
    <3>11. CASE CloseTerminal(w)
      BY <3>11 DEF CloseTerminal, Release
    <3>12. CASE CloudListen(w)
      BY <3>12 DEF CloudListen
    <3>13. CASE StopListening(w)
      BY <3>13 DEF StopListening
    <3>14. QED
      BY <2>11, <3>1, <3>2, <3>3, <3>4, <3>5, <3>6, <3>7, <3>8, <3>9, <3>10,
         <3>11, <3>12, <3>13 DEF Worker
  <2>12. CASE UNCHANGED vars
    BY <2>12 DEF vars
  <2>13. QED
    BY <2>1, <2>2, <2>3, <2>4, <2>5, <2>6, <2>7, <2>8, <2>9, <2>10, <2>11,
       <2>12 DEF Next, Listener, Environment
<1>2. QED
  BY <1>1

\* Every variable keeps its type, whatever the number of slots and clients.
THEOREM TypeCorrect == Spec => []TypeOK
  BY TypeInit, TypeStep, PTL DEF Spec

-----------------------------------------------------------------------------
\* The part of IInv a step has to preserve beside the types.
Sound ==
  /\ SocketOwnedOnce
  /\ WorkerHasSocket
  /\ SerialSessions
  /\ TerminalNeverRefused
  /\ OutOfExecuting
  /\ RepliesSeparate

\* Steps that touch neither sockets, nor locks, nor replies.
LEMMA QuietStep ==
  ASSUME Sound,
         UNCHANGED <<conn, acceptSocket, worker, socket, lockVars, reply, refused>>,
         out' \subseteq out \cup {NoConn}
  PROVE  Sound'
  BY DEF Sound, SocketOwnedOnce, WorkerHasSocket, SerialSessions,
         TerminalNeverRefused, OutOfExecuting, RepliesSeparate, lockVars

\* The end of a session: the worker owned the mutex and executes nothing.
LEMMA ReleaseStep ==
  ASSUME TypeOK, Sound, NEW w \in Slots, worker[w] \in {"run", "terminal"},
         Release(w), UNCHANGED <<acceptSocket, reply, refused>>,
         out' \subseteq out \cup {NoConn},
         terminalMutex' = IF worker[w] = "terminal" THEN 0 ELSE terminalMutex
  PROVE  Sound'
<1> USE ServerAssumption DEF ServerAssumption, Release, TypeOK
<1>1. SocketOwnedOnce'
  BY DEF Sound, SocketOwnedOnce
<1>2. WorkerHasSocket'
  BY DEF Sound, WorkerHasSocket, Executing
<1>3. SerialSessions'
  BY DEF Sound, SerialSessions, InSession, Executing, Slots
<1>4. TerminalNeverRefused'
  BY DEF Sound, TerminalNeverRefused, Slots
<1>5. OutOfExecuting'
  BY DEF Sound, OutOfExecuting, Executing
<1>6. RepliesSeparate'
  BY DEF Sound, RepliesSeparate
<1>7. QED
  BY <1>1, <1>2, <1>3, <1>4, <1>5, <1>6 DEF Sound

\* A worker that begins or ends to listen goes on executing.
LEMMA ExecutingStep ==
  ASSUME TypeOK, Sound, NEW w \in Slots, worker[w] \in Executing,
         NEW s \in Executing, worker' = [worker EXCEPT ![w] = s],
         UNCHANGED <<acceptSocket, conn, socket, lockVars, out, reply, refused>>
  PROVE  Sound'
<1> USE DEF TypeOK, lockVars
<1>1. SocketOwnedOnce' /\ RepliesSeparate'
  BY DEF Sound, SocketOwnedOnce, RepliesSeparate
<1>2. WorkerHasSocket'
  BY DEF Sound, WorkerHasSocket, Executing
<1>3. SerialSessions'
  BY DEF Sound, SerialSessions, InSession, Executing
<1>4. TerminalNeverRefused'
  BY DEF Sound, TerminalNeverRefused, Executing
<1>5. OutOfExecuting'
  BY DEF Sound, OutOfExecuting, Executing
<1>6. QED
  BY <1>1, <1>2, <1>3, <1>4, <1>5 DEF Sound

\* A session that asks for the terminal always finds the terminal mutex free.
LEMMA TerminalFree ==
  ASSUME TypeOK, Sound, NEW w \in Slots, worker[w] = "run"
  PROVE  terminalMutex = 0
<1> USE ServerAssumption DEF ServerAssumption
<1>1. mutex = w
  BY DEF Sound, SerialSessions, InSession, Executing
<1>2. ASSUME NEW v \in Slots, terminalMutex = v PROVE FALSE
  <2>1. worker[v] = "terminal"
    BY <1>2 DEF Sound, TerminalNeverRefused
  <2>2. mutex = v
    BY <2>1 DEF Sound, SerialSessions, InSession, Executing
  <2>3. QED
    BY <1>1, <2>1, <2>2
<1>3. QED
  BY <1>2 DEF TypeOK

\* The steps of a worker that are inside its session or hand it a socket.
LEMMA WorkerStep ==
  ASSUME TypeOK, Sound, NEW w \in Slots, Worker(w)
  PROVE  Sound'
<1> USE ServerAssumption DEF ServerAssumption, listenerVars, workerVars, lockVars, outputVars
<1>1. CASE Take(w)
  <2> USE <1>1 DEF Take, TypeOK
  <2>1. SocketOwnedOnce'
    <3>1. ASSUME NEW v \in Slots, socket[v] # NoConn PROVE socket[v] # acceptSocket
      BY <3>1 DEF Sound, SocketOwnedOnce
    <3>2. socket[w] = NoConn
      BY DEF Sound, WorkerHasSocket, Executing
    <3>3. ASSUME NEW c \in Conns
          PROVE  /\ conn'[c] = "accepted" <=> acceptSocket' = c
                 /\ conn'[c] = "claimed" <=> \E v \in Slots : socket'[v] = c
      <4>1. CASE c = acceptSocket
        BY <4>1 DEF Sound, SocketOwnedOnce
      <4>2. CASE c # acceptSocket
        <5>1. conn'[c] = conn[c] /\ conn[c] # "accepted"
          BY <4>2 DEF Sound, SocketOwnedOnce
        <5>2. (\E v \in Slots : socket'[v] = c) <=> \E v \in Slots : socket[v] = c
          BY <4>2, <3>2
        <5>3. QED
          BY <5>1, <5>2 DEF Sound, SocketOwnedOnce
      <4>3. QED
        BY <4>1, <4>2
    <3>4. \A u, v \in Slots : socket'[u] = socket'[v] /\ u # v => socket'[u] = NoConn
      BY <3>1 DEF Sound, SocketOwnedOnce
    <3>5. QED
      BY <3>3, <3>4 DEF SocketOwnedOnce
  <2>2. WorkerHasSocket'
    BY DEF Sound, WorkerHasSocket, Executing
  <2>3. SerialSessions'
    BY DEF Sound, SerialSessions, InSession, Executing
  <2>4. TerminalNeverRefused'
    BY DEF Sound, TerminalNeverRefused
  <2>5. OutOfExecuting'
    BY DEF Sound, OutOfExecuting, Executing
  <2>6. RepliesSeparate'
    BY DEF Sound, RepliesSeparate
  <2>7. QED
    BY <2>1, <2>2, <2>3, <2>4, <2>5, <2>6 DEF Sound
<1>2. CASE Lock(w)
  <2> USE <1>2 DEF Lock, TypeOK
  <2>1. SocketOwnedOnce' /\ WorkerHasSocket' /\ RepliesSeparate'
    BY DEF Sound, SocketOwnedOnce, WorkerHasSocket, RepliesSeparate, Executing
  <2>2. SerialSessions'
    BY DEF Sound, SerialSessions, InSession, Executing, Slots
  <2>3. TerminalNeverRefused' /\ OutOfExecuting'
    BY DEF Sound, TerminalNeverRefused, OutOfExecuting, Executing
  <2>4. QED
    BY <2>1, <2>2, <2>3 DEF Sound
<1>3. CASE Exit(w)
  <2> USE <1>3 DEF Exit, TypeOK
  <2>1. SocketOwnedOnce' /\ WorkerHasSocket' /\ RepliesSeparate'
    BY DEF Sound, SocketOwnedOnce, WorkerHasSocket, RepliesSeparate, Executing
  <2>2. SerialSessions'
    BY DEF Sound, SerialSessions, InSession, Executing, Slots
  <2>3. TerminalNeverRefused' /\ OutOfExecuting'
    BY DEF Sound, TerminalNeverRefused, OutOfExecuting, Executing
  <2>4. QED
    BY <2>1, <2>2, <2>3 DEF Sound
<1>4. CASE RespondNull(w)
  BY <1>4, ReleaseStep DEF RespondNull
<1>5. CASE RespondGetWeb(w)
  BY <1>5, ReleaseStep DEF RespondGetWeb
<1>6. CASE RespondPostCommand(w)
  <2> USE <1>6 DEF RespondPostCommand, TypeOK
  <2>1. SocketOwnedOnce' /\ RepliesSeparate'
    BY DEF Sound, SocketOwnedOnce, RepliesSeparate
  <2>2. WorkerHasSocket'
    BY DEF Sound, WorkerHasSocket, Executing
  <2>3. SerialSessions'
    BY DEF Sound, SerialSessions, InSession, Executing, Slots
  <2>4. TerminalNeverRefused'
    BY DEF Sound, TerminalNeverRefused
  <2>5. OutOfExecuting'
    BY DEF Sound, OutOfExecuting, Executing
  <2>6. QED
    BY <2>1, <2>2, <2>3, <2>4, <2>5 DEF Sound
<1>7. CASE Reply(w)
  <2> USE <1>7 DEF Reply, TypeOK
  <2>1. SocketOwnedOnce' /\ WorkerHasSocket' /\ OutOfExecuting'
    BY DEF Sound, SocketOwnedOnce, WorkerHasSocket, OutOfExecuting, Executing
  <2>2. SerialSessions'
    BY DEF Sound, SerialSessions, InSession, Executing, Slots
  <2>3. TerminalNeverRefused'
    BY DEF Sound, TerminalNeverRefused
  <2>4. RepliesSeparate'
    <3>1. ASSUME NEW v \in Slots, worker[v] \in Executing PROVE v = w
      BY <3>1 DEF Sound, SerialSessions, InSession, Executing
    <3>2. out \subseteq {socket[w], NoConn}
      BY <3>1 DEF Sound, OutOfExecuting, Executing
    <3>3. QED
      BY <3>2 DEF Sound, RepliesSeparate
  <2>5. QED
    BY <2>1, <2>2, <2>3, <2>4 DEF Sound
<1>8. CASE RespondTerminal(w)
  <2>0. terminalMutex = 0
    BY <1>8, TerminalFree DEF RespondTerminal
  <2> USE <1>8, <2>0 DEF RespondTerminal, TypeOK
  <2>1. SocketOwnedOnce' /\ RepliesSeparate'
    BY DEF Sound, SocketOwnedOnce, RepliesSeparate
  <2>2. WorkerHasSocket'
    BY DEF Sound, WorkerHasSocket, Executing
  <2>3. SerialSessions'
    BY DEF Sound, SerialSessions, InSession, Executing, Slots
  <2>4. TerminalNeverRefused'
    BY DEF Sound, TerminalNeverRefused, Slots
  <2>5. OutOfExecuting'
    BY DEF Sound, OutOfExecuting, Executing
  <2>6. QED
    BY <2>1, <2>2, <2>3, <2>4, <2>5 DEF Sound
<1>9. CASE MonitorSocket(w)
  BY <1>9, QuietStep DEF MonitorSocket
<1>10. CASE SendLine(w)
  BY <1>10, QuietStep DEF SendLine
<1>11. CASE CloseTerminal(w)
  BY <1>11, ReleaseStep DEF CloseTerminal
<1>12. CASE CloudListen(w)
  BY <1>12, ExecutingStep DEF CloudListen, Executing
<1>13. CASE StopListening(w)
  BY <1>13, ExecutingStep DEF StopListening, Executing
<1>14. QED
  BY <1>1, <1>2, <1>3, <1>4, <1>5, <1>6, <1>7, <1>8, <1>9, <1>10, <1>11,
     <1>12, <1>13 DEF Worker

\* The invariant holds at the start and is kept by every step.
LEMMA SoundInit == Init => Sound
<1> USE ServerAssumption DEF ServerAssumption, Init
<1>1. Init => SocketOwnedOnce /\ WorkerHasSocket /\ SerialSessions
  BY DEF SocketOwnedOnce, WorkerHasSocket, SerialSessions, InSession, Executing, Slots
<1>2. Init => TerminalNeverRefused /\ OutOfExecuting /\ RepliesSeparate
  BY DEF TerminalNeverRefused, OutOfExecuting, RepliesSeparate, Slots
<1>3. QED
  BY <1>1, <1>2 DEF Sound

LEMMA SoundStep == TypeOK /\ Sound /\ [Next]_vars => Sound'
<1> SUFFICES ASSUME TypeOK, Sound, [Next]_vars PROVE Sound'
  OBVIOUS
<1> USE ServerAssumption DEF ServerAssumption, listenerVars, workerVars, lockVars, outputVars
<1>1. CASE CheckInterrupted
  BY <1>1, QuietStep DEF CheckInterrupted
<1>2. CASE Spawn
  <2> USE <1>2 DEF Spawn, TypeOK
  <2>1. SocketOwnedOnce' /\ RepliesSeparate'
    BY DEF Sound, SocketOwnedOnce, RepliesSeparate
  <2>2. WorkerHasSocket'
    BY DEF Sound, WorkerHasSocket, Executing
  <2>3. SerialSessions'
    BY DEF Sound, SerialSessions, InSession, Executing
  <2>4. TerminalNeverRefused'
    BY DEF Sound, TerminalNeverRefused
  <2>5. OutOfExecuting'
    BY DEF Sound, OutOfExecuting, Executing
  <2>6. QED
    BY <2>1, <2>2, <2>3, <2>4, <2>5 DEF Sound
<1>3. CASE NextSlot
  BY <1>3, QuietStep DEF NextSlot
<1>4. CASE Sync
  BY <1>4, QuietStep DEF Sync
<1>5. ASSUME NEW c \in Conns, Accept(c) PROVE Sound'
  <2> USE <1>5 DEF Accept, TypeOK
  <2>1. SocketOwnedOnce'
    BY DEF Sound, SocketOwnedOnce
  <2>2. UNCHANGED <<worker, socket, lockVars, out, reply, refused>>
    OBVIOUS
  <2>3. QED
    BY <2>1, <2>2 DEF Sound, WorkerHasSocket, SerialSessions,
       TerminalNeverRefused, OutOfExecuting, RepliesSeparate
<1>6. ASSUME NEW c \in Conns, Connect(c) PROVE Sound'
  <2> USE <1>6 DEF Connect, TypeOK
  <2>1. SocketOwnedOnce'
    BY DEF Sound, SocketOwnedOnce
  <2>2. UNCHANGED <<worker, socket, lockVars, out, reply, refused>>
    OBVIOUS
  <2>3. QED
    BY <2>1, <2>2 DEF Sound, WorkerHasSocket, SerialSessions,
       TerminalNeverRefused, OutOfExecuting, RepliesSeparate
<1>7. ASSUME NEW c \in Conns, HangUp(c) PROVE Sound'
  BY <1>7, QuietStep DEF HangUp
<1>8. CASE PushTerminal
  BY <1>8, QuietStep DEF PushTerminal
<1>9. CASE PrintMain
  BY <1>9, QuietStep DEF PrintMain
<1>10. CASE Interrupt
  BY <1>10, QuietStep DEF Interrupt
<1>11. ASSUME NEW w \in Slots, Worker(w) PROVE Sound'
  BY <1>11, WorkerStep
<1>12. CASE UNCHANGED vars
  BY <1>12, QuietStep DEF vars
<1>13. QED
  BY <1>1, <1>2, <1>3, <1>4, <1>5, <1>6, <1>7, <1>8, <1>9, <1>10, <1>11,
     <1>12 DEF Next, Listener, Environment

\* The inductive invariant holds for every number of clients and slots.
THEOREM Invariance == Spec => []IInv
<1>1. Init => IInv
  BY TypeInit, SoundInit DEF IInv, Sound
<1>2. IInv /\ [Next]_vars => IInv'
  BY TypeStep, SoundStep DEF IInv, Sound
<1>3. QED
  BY <1>1, <1>2, PTL DEF Spec

\* No socket is duplicated or leaked by the hand-over to the workers.
THEOREM OwnedOnce == Spec => []SocketOwnedOnce
  BY Invariance, PTL DEF IInv

\* At most one HTTP session is open: m_accept_socket_mutex serialises them.
THEOREM Serial == Spec => []SerialSessions
  BY Invariance, PTL DEF IInv

\* The 409 answer of respond_terminal() is unreachable.
THEOREM NeverRefused == Spec => []TerminalNeverRefused
  BY Invariance, PTL DEF IInv

\* A reply holds no line that a command of another session printed.
THEOREM Separate == Spec => []RepliesSeparate
  BY Invariance, PTL DEF IInv

-----------------------------------------------------------------------------
\* Refinement.  Every step moves at most one connection, along Sessions.

LEMMA AbstractInit == Init => Abstract!Init
  BY ServerAssumption DEF ServerAssumption, Init, Abstract!Init, Status, ClientView

\* What a client sees of a connection depends on these variables only.
LEMMA SameStatus ==
  ASSUME UNCHANGED <<conn, mutex, socket>>
  PROVE  Status' = Status
  BY DEF Status, ClientView

\* The status of a connection by the place of its socket.
LEMMA StatusOf ==
  ASSUME NEW c \in Conns
  PROVE  /\ conn[c] = "idle" => Status[c] = "new"
         /\ conn[c] \in {"backlog", "accepted"} => Status[c] = "waiting"
         /\ conn[c] = "claimed" /\ mutex # 0 /\ socket[mutex] = c => Status[c] = "serving"
         /\ conn[c] = "claimed" /\ ~ (mutex # 0 /\ socket[mutex] = c) => Status[c] = "waiting"
         /\ conn[c] = "closed" => Status[c] = "over"
         /\ conn[c] = "dropped" => Status[c] = "lost"
  BY DEF Status, ClientView

LEMMA StatusOfPrime ==
  ASSUME NEW c \in Conns
  PROVE  /\ conn'[c] = "idle" => Status'[c] = "new"
         /\ conn'[c] \in {"backlog", "accepted"} => Status'[c] = "waiting"
         /\ conn'[c] = "claimed" /\ mutex' # 0 /\ socket'[mutex'] = c => Status'[c] = "serving"
         /\ conn'[c] = "claimed" /\ ~ (mutex' # 0 /\ socket'[mutex'] = c) => Status'[c] = "waiting"
         /\ conn'[c] = "closed" => Status'[c] = "over"
         /\ conn'[c] = "dropped" => Status'[c] = "lost"
  BY DEF Status, ClientView

\* Two statuses are equal when they agree on every connection.
LEMMA SameStatusPointwise ==
  ASSUME \A c \in Conns : Status'[c] = Status[c]
  PROVE  Status' = Status
  BY DEF Status, ClientView

\* One connection moved: an abstract step.
LEMMA OneMoved ==
  ASSUME NEW c \in Conns, \A d \in Conns \ {c} : Status'[d] = Status[d],
         \/ Status[c] = "new" /\ Status'[c] = "waiting"
         \/ Status[c] = "waiting" /\ Status'[c] = "serving" /\ Abstract!Serving = {}
         \/ Status[c] = "serving" /\ Status'[c] = "over"
         \/ Status[c] = "waiting" /\ Status'[c] = "lost"
  PROVE  Abstract!Next
<1>1. /\ Status = [d \in Conns |-> Status[d]]
      /\ Status' = [d \in Conns |-> Status'[d]]
  BY DEF Status
<1>2. Status' = [Status EXCEPT ![c] = Status'[c]]
  BY <1>1
<1>3. QED
  BY <1>2 DEF Abstract!Next, Abstract!Move

\* The socket of a session: closing it ends the session, if it had a socket.
LEMMA ReleaseRefines ==
  ASSUME IInv, NEW w \in Slots, worker[w] \in {"run", "terminal"}, Release(w)
  PROVE  Abstract!Next \/ Status' = Status
<1> USE ServerAssumption DEF ServerAssumption, IInv, TypeOK
<1>1. mutex = w /\ mutex # 0 /\ mutex' = 0
  BY DEF SerialSessions, InSession, Executing, Release, Slots
<1>2. ASSUME NEW d \in Conns, d # socket[w] PROVE Status'[d] = Status[d]
  <2>1. conn'[d] = conn[d]
    BY <1>2 DEF Release
  <2>2. conn[d] \in {"idle", "backlog", "accepted", "claimed", "closed", "dropped"}
    OBVIOUS
  <2>3. ~ (mutex # 0 /\ socket[mutex] = d) /\ ~ (mutex' # 0 /\ socket'[mutex'] = d)
    BY <1>1, <1>2
  <2>4. QED
    BY <2>1, <2>2, <2>3, StatusOf, StatusOfPrime
<1>3. CASE socket[w] \in Conns
  <2>1. conn[socket[w]] = "claimed" /\ conn'[socket[w]] = "closed"
    BY <1>3 DEF SocketOwnedOnce, Release
  <2>2. Status[socket[w]] = "serving" /\ Status'[socket[w]] = "over"
    BY <1>1, <1>3, <2>1, StatusOf, StatusOfPrime
  <2>3. QED
    BY <1>2, <1>3, <2>2, OneMoved
<1>4. CASE socket[w] \notin Conns
  BY <1>2, <1>4, SameStatusPointwise
<1>5. QED
  BY <1>3, <1>4

LEMMA RefinementStep == IInv /\ [Next]_vars => [Abstract!Next]_Status
<1> SUFFICES ASSUME IInv, [Next]_vars PROVE Abstract!Next \/ Status' = Status
  OBVIOUS
<1> USE ServerAssumption DEF ServerAssumption, IInv, TypeOK, listenerVars,
        workerVars, lockVars, outputVars
<1>1. ASSUME NEW c \in Conns, Connect(c) PROVE Abstract!Next
  <2>1. \A d \in Conns \ {c} : Status'[d] = Status[d]
    BY <1>1 DEF Connect, Status, ClientView
  <2>2. Status[c] = "new" /\ Status'[c] = "waiting"
    BY <1>1, StatusOf, StatusOfPrime DEF Connect
  <2>3. QED
    BY <2>1, <2>2, OneMoved
<1>2. ASSUME NEW c \in Conns, Accept(c) PROVE Abstract!Next \/ Status' = Status
  <2>1. Status[c] = "waiting" /\ Status'[c] = "waiting"
    BY <1>2, StatusOf, StatusOfPrime DEF Accept
  <2>2. \A d \in Conns \ {c, acceptSocket} : Status'[d] = Status[d]
    BY <1>2 DEF Accept, Status, ClientView
  <2>3. CASE acceptSocket \in Conns
    <3>1. conn[acceptSocket] = "accepted" /\ acceptSocket # c
      BY <1>2, <2>3 DEF SocketOwnedOnce, Accept
    <3>2. conn'[acceptSocket] = "dropped"
      BY <1>2, <2>3, <3>1 DEF Accept
    <3>3. Status[acceptSocket] = "waiting" /\ Status'[acceptSocket] = "lost"
      BY <2>3, <3>1, <3>2, StatusOf, StatusOfPrime
    <3>4. \A d \in Conns \ {acceptSocket} : Status'[d] = Status[d]
      BY <2>1, <2>2
    <3>5. QED
      BY <2>3, <3>3, <3>4, OneMoved
  <2>4. CASE acceptSocket \notin Conns
    BY <2>1, <2>2, <2>4, SameStatusPointwise
  <2>5. QED
    BY <2>3, <2>4
<1>3. ASSUME NEW w \in Slots, Take(w) PROVE Status' = Status
  <2>1. mutex # w /\ mutex' = mutex
    BY <1>3 DEF Take, SerialSessions, InSession, Executing
  <2>2. mutex # 0 => mutex \in Slots /\ socket'[mutex] = socket[mutex]
    BY <1>3, <2>1 DEF Take
  <2>3. ASSUME NEW d \in Conns PROVE Status'[d] = Status[d]
    <3>1. CASE d = acceptSocket
      <4>1. conn[d] = "accepted" /\ conn'[d] = "claimed"
        BY <1>3, <3>1 DEF Take, SocketOwnedOnce
      <4>2. mutex # 0 => socket[mutex] # d
        BY <2>2, <4>1 DEF SocketOwnedOnce
      <4>3. QED
        BY <2>1, <2>2, <4>1, <4>2, StatusOf, StatusOfPrime
    <3>2. CASE d # acceptSocket
      <4>1. conn'[d] = conn[d]
        BY <1>3, <3>2 DEF Take
      <4>2. QED
        BY <2>1, <2>2, <4>1 DEF Status, ClientView
    <3>3. QED
      BY <3>1, <3>2
  <2>4. QED
    BY <2>3, SameStatusPointwise
<1>4. ASSUME NEW w \in Slots, Lock(w) PROVE Abstract!Next \/ Status' = Status
  <2>1. mutex = 0 /\ mutex' = w /\ w # 0 /\ UNCHANGED <<conn, socket>>
    BY <1>4 DEF Lock, Slots
  <2>2. ASSUME NEW d \in Conns, d # socket[w] PROVE Status'[d] = Status[d]
    BY <2>1, <2>2 DEF Status, ClientView
  <2>3. CASE socket[w] \in Conns
    <3>1. conn[socket[w]] = "claimed"
      BY <2>3 DEF SocketOwnedOnce
    <3>2. Status[socket[w]] = "waiting" /\ Status'[socket[w]] = "serving"
      BY <2>1, <2>3, <3>1, StatusOf, StatusOfPrime
    <3>3. Abstract!Serving = {}
      <4>1. ASSUME NEW d \in Conns PROVE Status[d] # "serving"
        <5>1. conn[d] \in {"idle", "backlog", "accepted", "claimed", "closed", "dropped"}
          OBVIOUS
        <5>2. QED
          BY <2>1, <5>1, StatusOf
      <4>2. QED
        BY <4>1 DEF Abstract!Serving
    <3>4. QED
      BY <2>2, <2>3, <3>2, <3>3, OneMoved
  <2>4. CASE socket[w] \notin Conns
    BY <2>2, <2>4, SameStatusPointwise
  <2>5. QED
    BY <2>3, <2>4
<1>5. ASSUME NEW w \in Slots, Worker(w) PROVE Abstract!Next \/ Status' = Status
  <2>1. CASE \/ Exit(w) \/ RespondPostCommand(w) \/ CloudListen(w)
             \/ StopListening(w) \/ Reply(w) \/ MonitorSocket(w) \/ SendLine(w)
    BY <2>1, SameStatus
    DEF Exit, RespondPostCommand, CloudListen, StopListening, Reply, MonitorSocket,
        SendLine
  <2>2. CASE RespondNull(w) \/ RespondGetWeb(w) \/ CloseTerminal(w)
    BY <2>2, ReleaseRefines DEF RespondNull, RespondGetWeb, CloseTerminal
  <2>3. CASE RespondTerminal(w)
    <3>1. terminalMutex = 0
      BY <2>3, TerminalFree DEF RespondTerminal, Sound
    <3>2. UNCHANGED <<conn, mutex, socket>>
      BY <2>3, <3>1 DEF RespondTerminal
    <3>3. QED
      BY <3>2, SameStatus
  <2>4. QED
    BY <1>3, <1>4, <1>5, <2>1, <2>2, <2>3 DEF Worker
<1>6. CASE CheckInterrupted \/ Spawn \/ NextSlot \/ Sync
  BY <1>6, SameStatus DEF CheckInterrupted, Spawn, NextSlot, Sync
<1>7. ASSUME NEW c \in Conns, HangUp(c) PROVE Status' = Status
  BY <1>7, SameStatus DEF HangUp
<1>8. CASE PushTerminal \/ PrintMain \/ Interrupt \/ UNCHANGED vars
  BY <1>8, SameStatus DEF PushTerminal, PrintMain, Interrupt, vars
<1>9. QED
  BY <1>1, <1>2, <1>5, <1>6, <1>7, <1>8 DEF Next, Listener, Environment

\* The server implements Sessions for every number of clients and slots.
THEOREM Implementation == Spec => ImplementsSessions
<1>1. Init => Abstract!Init
  BY AbstractInit
<1>2. IInv /\ [Next]_vars => [Abstract!Next]_Status
  BY RefinementStep
<1>3. QED
  BY <1>1, <1>2, Invariance, PTL DEF Spec, ImplementsSessions, Abstract!Spec
=============================================================================
