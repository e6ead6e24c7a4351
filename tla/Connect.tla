------------------------------- MODULE Connect -------------------------------
(***************************************************************************)
(* How sl finds and keeps the device that its commands talk to:            *)
(* Connector::is_connection_ready(), which every device command calls      *)
(* first, the commands conn.connect and conn.ping, and the retry loop that *)
(* they share (Connection::try_connect_to_any()).  Meanwhile devices come, *)
(* go, and come back as something else.                                    *)
(*                                                                         *)
(* A path is the set of ports it matches: the empty path matches them all, *)
(* a driver name its own, a full path one.  Link::connect() does nothing   *)
(* while an error is pending, like every call of the API below src/.       *)
(***************************************************************************)
EXTENDS Integers, FiniteSets

CONSTANTS
  Ports,           \* ports of the host, serial and usb
  NoPort,          \* not connected
  Paths,           \* partial paths a user may give
  Preferred,       \* workspace_settings().get_preferred_connection().get_path()
  PreferredRetry,  \* ... .get_retry()
  Blacklist,       \* workspace_settings().get_blacklist()
  Retries,         \* values of conn.connect:retry=
  DefaultRetry,    \* 10 in TryConnect
  Modulus          \* 2^32: retry counts are u32

Any == Ports

ASSUME ConnectAssumption ==
  /\ NoPort \notin Ports
  /\ Paths \subseteq SUBSET Ports /\ Preferred \in SUBSET Ports
  /\ Blacklist \subseteq Ports
  /\ Modulus \in Nat \ {0, 1}
  /\ Retries \subseteq 0..(Modulus - 1)
  /\ PreferredRetry \in 0..(Modulus - 1) /\ DefaultRetry \in 0..(Modulus - 1)

VARIABLES
  attached,     \* ports with a device
  kind,         \* port -> what answers there, "silent" without a device
  linked,       \* the port of the connection, or NoPort
  boot,         \* connection()->is_bootloader()
  error,        \* is_error(): an error is pending
  sessionPath,  \* session_settings().path()
  pc,           \* where the retry loop is
  op,           \* the command it runs for
  given,        \* driver path of the options that try_connect() was called with
  path,         \* driver path of options_with_session_path
  retries,      \* its retry_count
  counter,      \* retry_counter
  todo,         \* listed ports that the pass has not tried yet
  outcome,      \* what the last command returned
  passes,       \* history: passes over the list of this try, Modulus for more
  fresh         \* history: nothing was connected when this try began

hostVars == <<attached, kind>>
linkVars == <<linked, boot, error>>
loopVars == <<op, given, path, retries, counter, todo, passes, fresh>>
vars == <<hostVars, linkVars, sessionPath, pc, loopVars, outcome>>

Kinds == {"os", "bootloader", "silent"}

AllPaths == Paths \cup {Preferred, Any}

TypeOK ==
  /\ attached \in SUBSET Ports
  /\ kind \in [Ports -> Kinds]
  /\ linked \in Ports \cup {NoPort}
  /\ boot \in BOOLEAN /\ error \in BOOLEAN
  /\ sessionPath \in AllPaths
  /\ pc \in {"idle", "pass", "scan", "finish"}
  /\ op \in {"none", "ready", "readyBoot", "connect"}
  /\ given \in AllPaths /\ path \in AllPaths
  /\ retries \in 0..(Modulus - 1)
  /\ counter \in 0..(Modulus - 1)
  /\ todo \in SUBSET Ports
  /\ outcome \in {"none", "ok", "failed"}
  /\ passes \in 0..Modulus
  /\ fresh \in BOOLEAN

Init ==
  /\ attached = {} /\ kind = [p \in Ports |-> "silent"]
  /\ linked = NoPort /\ boot = FALSE /\ error = FALSE
  /\ sessionPath = Any
  /\ pc = "idle" /\ op = "none"
  /\ given = Any /\ path = Any /\ retries = 0 /\ counter = 0 /\ todo = {}
  /\ outcome = "none"
  /\ passes = 0 /\ fresh = TRUE

-----------------------------------------------------------------------------
\* The host and the device.

Attach(p, k) ==
  /\ p \notin attached
  /\ attached' = attached \cup {p}
  /\ kind' = [kind EXCEPT ![p] = k]
  /\ UNCHANGED <<linkVars, sessionPath, pc, loopVars, outcome>>

Detach(p) ==
  /\ p \in attached
  /\ attached' = attached \ {p}
  /\ kind' = [kind EXCEPT ![p] = "silent"]
  /\ UNCHANGED <<linkVars, sessionPath, pc, loopVars, outcome>>

\* Some transfer finds that the device is gone.
LinkLost ==
  /\ linked # NoPort /\ linked \notin attached
  /\ linked' = NoPort /\ boot' = FALSE
  /\ UNCHANGED <<hostVars, error, sessionPath, pc, loopVars, outcome>>

-----------------------------------------------------------------------------
\* What commands do between two tries.

\* os.reset and os.invokebootloader, once there is a connection.  With
\* reconnect=true the library may find the device again, as whatever it is now;
\* os.invokebootloader leaves a bootloader as it is.
Reset ==
  /\ pc = "idle" /\ linked # NoPort
  /\ \/ /\ attached' = attached \ {linked}
        /\ kind' = [kind EXCEPT ![linked] = "silent"]
        /\ linked' = NoPort /\ boot' = FALSE
     \/ \E k \in {"os", "bootloader"} :
          /\ kind' = [kind EXCEPT ![linked] = k] /\ boot' = (k = "bootloader")
          /\ attached' = attached \cup {linked} /\ UNCHANGED linked
  /\ UNCHANGED <<error, sessionPath, pc, loopVars, outcome>>

\* A command ends with an error; the next command runs in the same thread,
\* or in another one, which has an error context of its own.
CommandFails ==
  /\ pc = "idle"
  /\ error' = TRUE
  /\ UNCHANGED <<hostVars, linked, boot, sessionPath, pc, loopVars, outcome>>

OtherThread ==
  /\ pc = "idle"
  /\ error' = FALSE
  /\ UNCHANGED <<hostVars, linked, boot, sessionPath, pc, loopVars, outcome>>

Responds(p) == p \in attached /\ kind[p] # "silent"

\* conn.ping: each port that answers is connected and disconnected again.
\* failed are the ports that left an error, which is never reset: from then on
\* no port is connected.
Ping(failed) ==
  LET answered == {p \in attached \ Blacklist : Responds(p)}
  IN
  /\ pc = "idle"
  /\ failed \subseteq attached \ Blacklist
  /\ error' = (error \/ attached = {} \/ failed # {})
  /\ \/ ~ error /\ ~ (answered \subseteq failed) /\ linked' = NoPort /\ boot' = FALSE
     \/ (error' \/ answered = {}) /\ UNCHANGED <<linked, boot>>
  /\ outcome' = IF error' THEN "failed" ELSE "ok"
  /\ UNCHANGED <<hostVars, sessionPath, pc, loopVars>>

\* conn.connect with a full path connects at once, and without retries.  What
\* Link::connect() does to a live connection is not in src/.
ConnectFull(p) ==
  /\ pc = "idle" /\ linked = NoPort
  /\ IF ~ error /\ Responds(p)
     THEN /\ linked' = p /\ boot' = (kind[p] = "bootloader")
          /\ error' = FALSE /\ outcome' = "ok"
     ELSE /\ error' = TRUE /\ outcome' = "failed"
          /\ UNCHANGED <<linked, boot>>
  /\ UNCHANGED <<hostVars, sessionPath, pc, loopVars>>

-----------------------------------------------------------------------------
\* try_connect(): the session's path replaces an empty one, and the retry
\* count that came with it; with an error pending nothing is tried.
UsesSession(p) == p = Any /\ sessionPath # Any

TryConnect(o, p, r) ==
  /\ op' = o /\ given' = p
  /\ path' = IF UsesSession(p) THEN sessionPath ELSE p
  /\ retries' = IF UsesSession(p) THEN DefaultRetry ELSE r
  /\ counter' = 1 /\ todo' = {} /\ passes' = 0 /\ fresh' = (linked = NoPort)
  /\ pc' = IF error THEN "finish" ELSE "pass"
  /\ UNCHANGED <<hostVars, linkVars, sessionPath, outcome>>

\* is_connection_ready() of a device command, bootOk when a bootloader will do.
AlreadyLinked(o) ==
  /\ outcome' = IF boot /\ o = "ready" THEN "failed" ELSE "ok"
  /\ UNCHANGED <<hostVars, linkVars, sessionPath, pc, loopVars>>

Ready(o) ==
  /\ pc = "idle"
  /\ IF linked # NoPort
     THEN AlreadyLinked(o)
     ELSE TryConnect(o, Preferred,
                     IF Preferred = Any THEN DefaultRetry ELSE PreferredRetry)

\* conn.connect with a partial path or none.
ConnectPath(p, r) ==
  /\ pc = "idle"
  /\ TryConnect("connect", p, r)

-----------------------------------------------------------------------------
\* try_connect_to_any().

Pass ==
  /\ pc = "pass"
  /\ pc' = "scan"
  /\ error' = FALSE
  /\ todo' = IF linked = NoPort THEN attached \cap path ELSE {}
  /\ passes' = IF passes < Modulus THEN passes + 1 ELSE passes
  /\ UNCHANGED <<hostVars, linked, boot, sessionPath, op, given, path, retries,
                 counter, outcome, fresh>>

\* Mutants of Try: the error of another port is not reset, and Link::connect()
\* does nothing; the ports after the one that answered are tried too.
TryAfterError(p) ==
  /\ pc = "scan" /\ linked = NoPort
  /\ todo' = todo \ {p}
  /\ IF p \in Blacklist \/ error THEN UNCHANGED linkVars
     ELSE IF Responds(p)
          THEN linked' = p /\ boot' = (kind[p] = "bootloader") /\ error' = FALSE
          ELSE error' = TRUE /\ UNCHANGED <<linked, boot>>
  /\ UNCHANGED <<hostVars, sessionPath, pc, op, given, path, retries, counter,
                 outcome, passes, fresh>>

TryOnwards(p) ==
  /\ pc = "scan"
  /\ todo' = todo \ {p}
  /\ IF p \in Blacklist THEN UNCHANGED linkVars
     ELSE IF Responds(p)
          THEN linked' = p /\ boot' = (kind[p] = "bootloader") /\ error' = FALSE
          ELSE error' = TRUE /\ UNCHANGED <<linked, boot>>
  /\ UNCHANGED <<hostVars, sessionPath, pc, op, given, path, retries, counter,
                 outcome, passes, fresh>>

Try(p) ==
  /\ pc = "scan" /\ linked = NoPort
  /\ todo' = todo \ {p}
  /\ IF p \in Blacklist THEN UNCHANGED linkVars
     ELSE IF Responds(p)
          THEN linked' = p /\ boot' = (kind[p] = "bootloader") /\ error' = FALSE
          ELSE error' = TRUE /\ UNCHANGED <<linked, boot>>
  /\ UNCHANGED <<hostVars, sessionPath, pc, op, given, path, retries, counter,
                 outcome, passes, fresh>>

Limit == (retries + 1) % Modulus

\* Mutants of PassEnd: the limit is one too high; the counter stands still.
PassEndOneMore ==
  /\ pc = "scan" /\ (todo = {} \/ linked # NoPort)
  /\ todo' = {}
  /\ IF linked = NoPort /\ counter <= Limit
     THEN /\ error' = FALSE
          /\ counter' = counter + 1
          /\ pc' = IF counter <= Limit THEN "pass" ELSE "finish"
     ELSE /\ pc' = "finish"
          /\ UNCHANGED <<error, counter>>
  /\ UNCHANGED <<hostVars, linked, boot, sessionPath, op, given, path, retries,
                 outcome, passes, fresh>>

PassEndUncounted ==
  /\ pc = "scan" /\ (todo = {} \/ linked # NoPort)
  /\ todo' = {}
  /\ IF linked = NoPort /\ counter < Limit
     THEN error' = FALSE /\ pc' = "pass"
     ELSE pc' = "finish" /\ UNCHANGED error
  /\ UNCHANGED <<hostVars, linked, boot, sessionPath, op, given, path, retries,
                 counter, outcome, passes, fresh>>

\* The end of a pass: wait and count, also when there is no further pass.
PassEnd ==
  /\ pc = "scan" /\ (todo = {} \/ linked # NoPort)
  /\ todo' = {}
  /\ IF linked = NoPort /\ counter < Limit
     THEN /\ error' = FALSE
          /\ counter' = counter + 1
          /\ pc' = IF counter + 1 < Limit THEN "pass" ELSE "finish"
     ELSE /\ pc' = "finish"
          /\ UNCHANGED <<error, counter>>
  /\ UNCHANGED <<hostVars, linked, boot, sessionPath, op, given, path, retries,
                 outcome, passes, fresh>>

\* The rest of try_connect(), and of the command that called it; the locals
\* are gone.
Finish ==
  LET found == ~ error /\ linked # NoPort
  IN
  /\ pc = "finish"
  /\ pc' = "idle"
  /\ sessionPath' = IF found THEN given ELSE sessionPath
  /\ outcome' = IF found /\ (boot => op # "ready") THEN "ok" ELSE "failed"
  /\ error' = (error \/ (op = "connect" /\ linked = NoPort))
  /\ op' = "none" /\ given' = Any /\ path' = Any /\ retries' = 0
  /\ counter' = 0 /\ todo' = {} /\ passes' = 0 /\ fresh' = TRUE
  /\ UNCHANGED <<hostVars, linked, boot>>

-----------------------------------------------------------------------------
Commands ==
  \/ Reset \/ CommandFails \/ OtherThread
  \/ \E failed \in SUBSET Ports : Ping(failed)
  \/ \E p \in Ports : ConnectFull(p)
  \/ \E o \in {"ready", "readyBoot"} : Ready(o)
  \/ \E p \in Paths, r \in Retries : ConnectPath(p, r)

Loop == Pass \/ (\E p \in todo : Try(p)) \/ PassEnd \/ Finish

Host == \E p \in Ports : Detach(p) \/ \E k \in Kinds : Attach(p, k)

Next == Commands \/ Loop \/ Host \/ LinkLost

Spec == Init /\ [][Next]_vars

\* Once called, the loop runs on; it never waits for a device.
FairSpec == Spec /\ WF_vars(Loop)

-----------------------------------------------------------------------------
(***************************************************************************)
(* A try passes over the list of ports at most retry_count times, and once *)
(* when it is 0 or when retry_count + 1 wraps to 0.                        *)
(***************************************************************************)
RetryBound == passes <= IF Limit <= 1 THEN 1 ELSE retries

(***************************************************************************)
(* The port that a try connects to is one that its path, or the session's, *)
(* matches and that is not blacklisted, whatever comes and goes meanwhile. *)
(***************************************************************************)
ChosenFromPath ==
  pc \in {"scan", "finish"} /\ fresh /\ linked # NoPort
    => linked \in path \ Blacklist

(***************************************************************************)
(* A try that did find a device has no error pending from a port that was  *)
(* tried in vain before: such an error would make it, and every call after *)
(* it, fail.                                                               *)
(***************************************************************************)
AnsweringPortWins == pc = "finish" /\ linked # NoPort /\ passes > 0 => ~ error

(***************************************************************************)
(* However many ports there are and however the devices behave, a command  *)
(* gets its answer.                                                        *)
(***************************************************************************)
TryEnds == pc # "idle" ~> pc = "idle"

(***************************************************************************)
(* A device that stays and answers, on a port that the path matches and    *)
(* the blacklist does not, is enough for a try to connect.                 *)
(***************************************************************************)
DeviceFound ==
  \A p \in Ports \ Blacklist :
    (pc = "pass" /\ p \in path /\ [](p \in attached /\ kind[p] = "os"))
      ~> (linked # NoPort)
=============================================================================
