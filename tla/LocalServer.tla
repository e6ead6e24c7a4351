---------------------------- MODULE LocalServer ----------------------------
(***************************************************************************)
(* utilities/LocalServer.cpp: the HTTP server of `sl --listen`.            *)
(*                                                                         *)
(* One listener thread accepts connections and hands each of them, through *)
(* the member m_accept_socket, to a worker thread it starts in a free slot *)
(* of m_thread_array.  The worker first moves the socket out of the member *)
(* and then takes m_accept_socket_mutex, which it keeps for its whole HTTP *)
(* session (SERIAL_REQUESTS_ONLY).  The listener takes and releases the    *)
(* same mutex once after it started the worker.                            *)
(*                                                                         *)
(* Abstractions: an HTTP request is one step that the worker chooses among *)
(* those a peer may send; the printer's output queue is the set of the     *)
(* sessions whose posted commands have lines in it (NoConn for lines of no *)
(* posted command: the main thread's, and the progress of a page that is   *)
(* sent); the terminal's output queue is the number of its lines.  The end *)
(* of the process, which follows a SIGINT, is no step: what is claimed of  *)
(* sessions is claimed until then.                                         *)
(***************************************************************************)
EXTENDS Integers

CONSTANTS Conns,     \* the connections clients may open
          NoConn,    \* no socket
          NumSlots,  \* the size of m_thread_array, 16 in the code
          MaxLines   \* bound on the lines waiting in the terminal's queue

ASSUME ServerAssumption ==
  /\ NoConn \notin Conns
  /\ NumSlots \in Nat \ {0}
  /\ MaxLines \in Nat

VARIABLES
  listener,      \* where the listener thread is
  scan,          \* the slot of m_thread_array it looks at
  acceptSocket,  \* m_accept_socket
  conn,          \* connection -> where its socket is
  open,          \* the connections whose peer has not hung up
  worker,        \* slot -> where its thread is
  socket,        \* slot -> the socket its thread owns
  mutex,         \* holder of m_accept_socket_mutex: a slot, or 0
  terminalMutex, \* holder of m_terminal_mutex: a slot, or 0
  socketStatus,  \* slot -> MonitorSocketThread::m_socket_status
  lines,         \* lines in the terminal's queue
  out,           \* sessions with a line in printer().queue()
  reply,         \* connection -> sessions whose lines its replies held
  refused,       \* connections answered with 409 Conflict
  interrupted    \* session_settings().is_interrupted()

listenerVars == <<listener, scan, interrupted>>
workerVars == <<worker, socket, socketStatus>>
lockVars == <<mutex, terminalMutex>>
outputVars == <<lines, out, reply, refused>>
vars == <<listenerVars, acceptSocket, conn, open, workerVars, lockVars,
          outputVars>>

Slots == 1..NumSlots

ListenerStates == {"check", "accept", "scan", "sync", "exit"}
WorkerStates ==
  {"free", "spawned", "lock", "run", "exec", "listen", "terminal", "ending"}

\* The worker runs a posted command list, in "listen" its cloud.listen.
Executing == {"exec", "listen"}

\* The states of a worker between taking and releasing m_accept_socket_mutex.
InSession == Executing \cup {"run", "terminal"}

TypeOK ==
  /\ listener \in ListenerStates
  /\ scan \in Slots
  /\ acceptSocket \in Conns \cup {NoConn}
  /\ conn \in [Conns -> {"idle", "backlog", "accepted", "claimed", "closed", "dropped"}]
  /\ open \subseteq Conns
  /\ worker \in [Slots -> WorkerStates]
  /\ socket \in [Slots -> Conns \cup {NoConn}]
  /\ mutex \in Slots \cup {0}
  /\ terminalMutex \in Slots \cup {0}
  /\ socketStatus \in [Slots -> BOOLEAN]
  /\ lines \in 0..MaxLines
  /\ out \subseteq Conns \cup {NoConn}
  /\ reply \in [Conns -> SUBSET (Conns \cup {NoConn})]
  /\ refused \subseteq Conns
  /\ interrupted \in BOOLEAN

\* start() has printed the "listen" section: its lines are in the queue.
Init ==
  /\ listener = "check" /\ scan = 1 /\ interrupted = FALSE
  /\ acceptSocket = NoConn
  /\ conn = [c \in Conns |-> "idle"]
  /\ open = {}
  /\ worker = [w \in Slots |-> "free"]
  /\ socket = [w \in Slots |-> NoConn]
  /\ socketStatus = [w \in Slots |-> FALSE]
  /\ mutex = 0 /\ terminalMutex = 0
  /\ lines = 0 /\ out = {NoConn}
  /\ reply = [c \in Conns |-> {}]
  /\ refused = {}

-----------------------------------------------------------------------------
\* Clients, the main thread and the user.

Connect(c) ==
  /\ conn[c] = "idle"
  /\ conn' = [conn EXCEPT ![c] = "backlog"]
  /\ open' = open \cup {c}
  /\ UNCHANGED <<listenerVars, acceptSocket, workerVars, lockVars, outputVars>>

\* The end of the stream, after the requests the peer had sent before it.
HangUp(c) ==
  /\ c \in open
  /\ open' = open \ {c}
  /\ UNCHANGED <<listenerVars, acceptSocket, conn, workerVars, lockVars, outputVars>>

\* The main loop runs Terminal::update, which pushes the device's output.
PushTerminal ==
  /\ lines < MaxLines
  /\ lines' = lines + 1
  /\ UNCHANGED <<listenerVars, acceptSocket, conn, open, workerVars, lockVars,
                 out, reply, refused>>

\* The main loop prints (debug trace, terminal sections).
PrintMain ==
  /\ out' = out \cup {NoConn}
  /\ UNCHANGED <<listenerVars, acceptSocket, conn, open, workerVars, lockVars,
                 lines, reply, refused>>

Interrupt ==
  /\ interrupted' = TRUE
  /\ UNCHANGED <<listener, scan, acceptSocket, conn, open, workerVars, lockVars,
                 outputVars>>

-----------------------------------------------------------------------------
\* The listener thread.

CheckInterrupted ==
  /\ listener = "check"
  /\ listener' = IF interrupted THEN "exit" ELSE "accept"
  /\ UNCHANGED <<scan, interrupted, acceptSocket, conn, open, workerVars,
                 lockVars, outputVars>>

\* The move assignment closes the socket that was still in the member.
Accept(c) ==
  /\ listener = "accept"
  /\ conn[c] = "backlog"
  /\ acceptSocket' = c
  /\ conn' = [d \in Conns |-> IF d = c THEN "accepted"
                              ELSE IF d = acceptSocket THEN "dropped"
                              ELSE conn[d]]
  /\ listener' = "scan" /\ scan' = 1
  /\ UNCHANGED <<interrupted, open, workerVars, lockVars, outputVars>>

Spawn ==
  /\ listener = "scan"
  /\ worker[scan] = "free"
  /\ worker' = [worker EXCEPT ![scan] = "spawned"]
  /\ listener' = "sync"
  /\ UNCHANGED <<scan, interrupted, acceptSocket, conn, open, socket,
                 socketStatus, lockVars, outputVars>>

\* The last slot ends the search: the socket stays in the member.
NextSlot ==
  /\ listener = "scan"
  /\ worker[scan] # "free"
  /\ IF scan = NumSlots
     THEN listener' = "check" /\ UNCHANGED scan
     ELSE scan' = scan + 1 /\ UNCHANGED listener
  /\ UNCHANGED <<interrupted, acceptSocket, conn, open, workerVars, lockVars,
                 outputVars>>

\* The guard is taken and released at once, when the loop breaks.
Sync ==
  /\ listener = "sync"
  /\ mutex = 0
  /\ listener' = "check"
  /\ UNCHANGED <<scan, interrupted, acceptSocket, conn, open, workerVars,
                 lockVars, outputVars>>

-----------------------------------------------------------------------------
\* A worker thread.

\* MUTANT of Take: the socket is copied out of the member, not moved.
TakeCopy(w) ==
  /\ worker[w] = "spawned"
  /\ socket' = [socket EXCEPT ![w] = acceptSocket]
  /\ conn' = [c \in Conns |-> IF c = acceptSocket THEN "claimed" ELSE conn[c]]
  /\ worker' = [worker EXCEPT ![w] = "lock"]
  /\ UNCHANGED <<listenerVars, acceptSocket, open, socketStatus, lockVars,
                 outputVars>>

Take(w) ==
  /\ worker[w] = "spawned"
  /\ socket' = [socket EXCEPT ![w] = acceptSocket]
  /\ acceptSocket' = NoConn
  /\ conn' = [c \in Conns |-> IF c = acceptSocket THEN "claimed" ELSE conn[c]]
  /\ worker' = [worker EXCEPT ![w] = "lock"]
  /\ UNCHANGED <<listenerVars, open, socketStatus, lockVars, outputVars>>

\* MUTANT of Lock: sessions do not wait for one another.
LockParallel(w) ==
  /\ worker[w] = "lock"
  /\ mutex' = w
  /\ worker' = [worker EXCEPT ![w] = "run"]
  /\ UNCHANGED <<listenerVars, acceptSocket, conn, open, socket, socketStatus,
                 terminalMutex, outputVars>>

Lock(w) ==
  /\ worker[w] = "lock"
  /\ mutex = 0
  /\ mutex' = w
  /\ worker' = [worker EXCEPT ![w] = "run"]
  /\ UNCHANGED <<listenerVars, acceptSocket, conn, open, socket, socketStatus,
                 terminalMutex, outputVars>>

\* MUTANT of Release: the guard outlives the session.
ReleaseKeepsMutex(w) ==
  /\ worker' = [worker EXCEPT ![w] = "ending"]
  /\ conn' = [c \in Conns |-> IF c = socket[w] THEN "closed" ELSE conn[c]]
  /\ socket' = [socket EXCEPT ![w] = NoConn]
  /\ UNCHANGED mutex

\* HttpServer::run returns: the socket is closed and the guard released.
Release(w) ==
  /\ worker' = [worker EXCEPT ![w] = "ending"]
  /\ conn' = [c \in Conns |-> IF c = socket[w] THEN "closed" ELSE conn[c]]
  /\ socket' = [socket EXCEPT ![w] = NoConn]
  /\ mutex' = 0

\* respond() with a null request: the peer hung up, or there is no socket.
RespondNull(w) ==
  /\ worker[w] = "run"
  /\ socket[w] \notin open
  /\ Release(w)
  /\ UNCHANGED <<listenerVars, acceptSocket, open, socketStatus, terminalMutex,
                 outputVars>>

\* respond_get_web(): a page of the web path, whose progress the printer puts
\* into its queue, or a bad request, which prints nothing; then stop.
RespondGetWeb(w) ==
  /\ worker[w] = "run"
  /\ socket[w] \in open
  /\ out' \in {out, out \cup {NoConn}}
  /\ Release(w)
  /\ UNCHANGED <<listenerVars, acceptSocket, open, socketStatus, terminalMutex,
                 lines, reply, refused>>

\* respond_post_command(): a newline is printed, then the command list runs.
RespondPostCommand(w) ==
  /\ worker[w] = "run"
  /\ socket[w] \in open
  /\ worker' = [worker EXCEPT ![w] = "exec"]
  /\ out' = out \cup {socket[w]}
  /\ UNCHANGED <<listenerVars, acceptSocket, conn, open, socket, socketStatus,
                 lockVars, lines, reply, refused>>

\* A command of the list is cloud.listen: it serves jobs until SIGINT.
CloudListen(w) ==
  /\ worker[w] = "exec"
  /\ worker' = [worker EXCEPT ![w] = "listen"]
  /\ UNCHANGED <<listenerVars, acceptSocket, conn, open, socket, socketStatus,
                 lockVars, outputVars>>

\* handle_cloud_listen(): the interrupt is noticed and the job server stopped.
StopListening(w) ==
  /\ worker[w] = "listen"
  /\ interrupted
  /\ worker' = [worker EXCEPT ![w] = "exec"]
  /\ UNCHANGED <<listenerVars, acceptSocket, conn, open, socket, socketStatus,
                 lockVars, outputVars>>

\* MUTANT of Reply: `if` for the `while` that empties the queue.
ReplyOneLine(w) ==
  /\ worker[w] = "exec"
  /\ \E line \in out : /\ reply' = [reply EXCEPT ![socket[w]] = @ \cup {line}]
                       /\ out' = out \ {line}
  /\ worker' = [worker EXCEPT ![w] = "run"]
  /\ UNCHANGED <<listenerVars, acceptSocket, conn, open, socket, socketStatus,
                 lockVars, lines, refused>>

\* The whole queue goes to the reply; the session goes on.
Reply(w) ==
  /\ worker[w] = "exec"
  /\ reply' = [reply EXCEPT ![socket[w]] = @ \cup out]
  /\ out' = {}
  /\ worker' = [worker EXCEPT ![w] = "run"]
  /\ UNCHANGED <<listenerVars, acceptSocket, conn, open, socket, socketStatus,
                 lockVars, lines, refused>>

\* respond_terminal(): try_lock() succeeds and the stream starts with a monitor
\* thread on the socket, or the peer gets 409 and the session stops.
RespondTerminal(w) ==
  /\ worker[w] = "run"
  /\ socket[w] \in open
  /\ IF terminalMutex = 0
     THEN /\ terminalMutex' = w
          /\ socketStatus' = [socketStatus EXCEPT ![w] = TRUE]
          /\ worker' = [worker EXCEPT ![w] = "terminal"]
          /\ UNCHANGED <<conn, socket, mutex, refused>>
     ELSE /\ refused' = refused \cup {socket[w]}
          /\ Release(w)
          /\ UNCHANGED <<terminalMutex, socketStatus>>
  /\ UNCHANGED <<listenerVars, acceptSocket, open, lines, out, reply>>

\* MUTANT of MonitorSocket: the monitor waits for a byte, not for the end.
MonitorSocketByteOnly(w) ==
  /\ worker[w] = "terminal"
  /\ socketStatus[w]
  /\ socket[w] \in open
  /\ socketStatus' = [socketStatus EXCEPT ![w] = FALSE]
  /\ UNCHANGED <<listenerVars, acceptSocket, conn, open, worker, socket,
                 lockVars, outputVars>>

\* The monitor thread's read returns: the peer hung up or sent a byte.
MonitorSocket(w) ==
  /\ worker[w] = "terminal"
  /\ socketStatus[w]
  /\ socketStatus' = [socketStatus EXCEPT ![w] = FALSE]
  /\ UNCHANGED <<listenerVars, acceptSocket, conn, open, worker, socket,
                 lockVars, outputVars>>

SendLine(w) ==
  /\ worker[w] = "terminal"
  /\ lines > 0
  /\ lines' = lines - 1
  /\ UNCHANGED <<listenerVars, acceptSocket, conn, open, workerVars, lockVars,
                 out, reply, refused>>

\* MUTANT of CloseTerminal: unlock() is missing.
CloseTerminalLocked(w) ==
  /\ worker[w] = "terminal"
  /\ lines = 0
  /\ ~ socketStatus[w]
  /\ Release(w)
  /\ UNCHANGED <<listenerVars, acceptSocket, open, socketStatus, terminalMutex,
                 outputVars>>

\* The status is read with the queue empty; the monitor is joined and the
\* terminal mutex released before respond_get() stops the session.
CloseTerminal(w) ==
  /\ worker[w] = "terminal"
  /\ lines = 0
  /\ ~ socketStatus[w]
  /\ terminalMutex' = 0
  /\ Release(w)
  /\ UNCHANGED <<listenerVars, acceptSocket, open, socketStatus, outputVars>>

\* The thread function returned: is_running() is false from now on.
Exit(w) ==
  /\ worker[w] = "ending"
  /\ worker' = [worker EXCEPT ![w] = "free"]
  /\ UNCHANGED <<listenerVars, acceptSocket, conn, open, socket, socketStatus,
                 lockVars, outputVars>>

-----------------------------------------------------------------------------
Listener ==
  \/ CheckInterrupted \/ Spawn \/ NextSlot \/ Sync
  \/ \E c \in Conns : Accept(c)

Worker(w) ==
  \/ Take(w) \/ Lock(w) \/ Exit(w)
  \/ RespondNull(w) \/ RespondGetWeb(w)
  \/ RespondPostCommand(w) \/ CloudListen(w) \/ StopListening(w) \/ Reply(w)
  \/ RespondTerminal(w) \/ MonitorSocket(w) \/ SendLine(w) \/ CloseTerminal(w)

Environment ==
  \/ \E c \in Conns : Connect(c) \/ HangUp(c)
  \/ PushTerminal \/ PrintMain \/ Interrupt

Next == Listener \/ Environment \/ \E w \in Slots : Worker(w)

Spec == Init /\ [][Next]_vars

(***************************************************************************)
(* Fairness: every thread that can run does; a thread that waits for a     *)
(* mutex gets it if it is released again and again (the mutexes are not    *)
(* starved for ever, although they are not FIFO); clients hang up in the   *)
(* end; the terminal's queue is found empty again and again, since the     *)
(* device produces its output slower than a socket takes it; and a posted  *)
(* list that is not in cloud.listen ends (Reply), as every other command   *)
(* does that answers or times out.  Nothing makes a cloud.listen end but   *)
(* SIGINT, after which main() ends the process: the properties below claim *)
(* nothing of sessions after either.                                       *)
(***************************************************************************)
Fairness ==
  /\ WF_vars(Listener) /\ SF_vars(Sync)
  /\ \A c \in Conns : WF_vars(HangUp(c))
  /\ \A w \in Slots :
       /\ WF_vars(Take(w)) /\ SF_vars(Lock(w)) /\ WF_vars(Exit(w))
       /\ WF_vars(RespondNull(w)) /\ WF_vars(Reply(w))
       /\ WF_vars(MonitorSocket(w)) /\ WF_vars(SendLine(w))
       /\ SF_vars(CloseTerminal(w))

FairSpec == Spec /\ Fairness

-----------------------------------------------------------------------------
(***************************************************************************)
(* A socket has exactly one owner: the member, or one worker, from the     *)
(* accept to its close; the hand-over through m_accept_socket neither      *)
(* duplicates a socket nor leaks one.                                      *)
(***************************************************************************)
SocketOwnedOnce ==
  /\ \A c \in Conns :
       /\ conn[c] = "accepted" <=> acceptSocket = c
       /\ conn[c] = "claimed" <=> \E w \in Slots : socket[w] = c
  /\ \A v, w \in Slots : socket[v] = socket[w] /\ v # w => socket[v] = NoConn

(***************************************************************************)
(* One session at a time: a worker inside an HTTP session holds            *)
(* m_accept_socket_mutex, and no command of another session can interleave *)
(* with its use of the device connection.                                  *)
(***************************************************************************)
SerialSessions == \A w \in Slots : worker[w] \in InSession <=> mutex = w

(***************************************************************************)
(* The 409 of respond_terminal() is dead code while requests are serial:   *)
(* m_terminal_mutex is held only by the worker that is in its terminal     *)
(* loop, so no session ever finds it taken.                                *)
(***************************************************************************)
TerminalNeverRefused ==
  /\ refused = {}
  /\ \A w \in Slots : terminalMutex = w <=> worker[w] = "terminal"

(***************************************************************************)
(* The printer's queue is shared by all sessions: a reply to a POST never  *)
(* holds a line that a command of another session printed, in whatever     *)
(* order they ran.  It may hold the progress of a page that another        *)
(* session was sent (NoConn), as it may hold the main thread's lines.      *)
(***************************************************************************)
RepliesSeparate == \A c \in Conns : reply[c] \subseteq {c, NoConn}

(***************************************************************************)
(* Clients see the connections of Sessions: a connection waits in the      *)
(* backlog, in the member and in a worker that does not hold the mutex.    *)
(***************************************************************************)
ClientView(c) ==
  CASE conn[c] = "idle" -> "new"
    [] conn[c] \in {"backlog", "accepted"} -> "waiting"
    [] conn[c] = "claimed" -> IF mutex # 0 /\ socket[mutex] = c
                              THEN "serving" ELSE "waiting"
    [] conn[c] = "closed" -> "over"
    [] conn[c] = "dropped" -> "lost"

Status == [c \in Conns |-> ClientView(c)]

Abstract == INSTANCE Sessions WITH status <- Status

\* The server implements Sessions as long as the process lives: sessions are
\* serial, none is cut, and a connection is lost only before its session.
ImplementsSessions == Abstract!Spec

(***************************************************************************)
(* SIGINT ends the process and whatever session it is in; a session that   *)
(* posted cloud.listen occupies the server until then.                     *)
(***************************************************************************)
Occupied == interrupted \/ \E w \in Slots : worker[w] = "listen"

(***************************************************************************)
(* A worker that took a socket serves it to the end, however many workers  *)
(* and the listener compete for the mutex, unless sl is interrupted or     *)
(* some session listens for jobs.                                          *)
(***************************************************************************)
ClaimedIsServed ==
  \A c \in Conns : conn[c] = "claimed" ~> (conn[c] = "closed" \/ Occupied)

(***************************************************************************)
(* A peer in the backlog is accepted unless sl is interrupted or some      *)
(* session listens for jobs: the lock the listener takes after each start  *)
(* never stops it for good, although it waits for whole sessions there.    *)
(***************************************************************************)
BacklogDrained ==
  \A c \in Conns : conn[c] = "backlog" ~> (conn[c] # "backlog" \/ Occupied)

(***************************************************************************)
(* LocalServer.cpp says "start the server in a new thread" of every        *)
(* accepted connection: none is dropped unserved.                          *)
(***************************************************************************)
AcceptedIsServed == \A c \in Conns : conn[c] # "dropped"
=============================================================================
