# TLA+ specifications of sl

This directory holds a formal model of `sl`, the Stratify Labs command line
tool of this repository: TLA+ modules translated from the C++ sources under
`src/app/src`, TLC configurations that check them on small instances, and
theorems about them whose proofs TLAPS checks for every value of the constants.

File names below are relative to `src/app/src/`. `PROJECT.json` maps every
definition that models code to the lines it models.

* [1 The system](#1-the-system): inventory of components
* [2 Modules](#2-modules): what models what, and how
* [3 Runs](#3-runs): what TLC checks, with which bounds
* [4 Proofs](#4-proofs): what is proved, and how
* [5 Findings](#5-findings): where the code disagrees with its documentation
* [6 Not modelled](#6-not-modelled)
* [7 Plan](#7-plan)

## 1 The system

`sl` takes commands such as `conn.connect:path=usb` or `terminal.run:while=app`.
A *group* (`conn`, `terminal`, `task`, `cloud`, `app`, `fs`, ...) executes each
of them. Most commands talk to one device over one connection
(`connection()`, of the Stratify API), some to a cloud service. Three groups are
also *updaters*: a command starts them and the main loop drives them afterwards.
With `--listen`, `sl` is an HTTP server on the local host: a browser posts
commands and reads the terminal's output as an event stream. With
`cloud.listen` it takes jobs from the cloud service, and a workspace that is
connected to such a job server publishes its lines to it.

Three kinds of concurrency exist. The main thread's loop interleaves three
updaters; in listen mode the listener and up to sixteen worker threads run
beside it, on the same connection, printer and settings; and several `sl`
processes share a workspace's files and the documents of the cloud. The device,
the user, the browser and the cloud act at any moment.

| Component | State it keeps | Operations | Interacts with | What is hard, and what makes it correct |
|---|---|---|---|---|
| **LocalServer** (`utilities/LocalServer`) | `m_accept_socket`, thread array of 16, three mutexes, terminal output queue | accept, start a worker, `respond_*` handlers, monitor of the socket | main loop (queue of terminal lines), printer (reply), groups (commands of a POST) | hand-over of a socket through a member; one session at a time; a session as long as a browser tab lives; every accepted peer should be served |
| **main loop, Updater** (`main.cpp`, `utilities/Updater`) | timers, periods and durations of three updaters, `is_busy`, `m_is_interrupted` | run commands, start, turn, finalize, SIGINT | Terminal, Task, DebugTrace | must end when its updaters do, must restore the device; timers expire only when asked |
| **Terminal** (`groups/Terminal`) | watched name and pid, miss counter, log file, queue of lines | run, update, finalize | Task's snapshot, LocalServer's queue, device stdout | watches an application through a snapshot somebody else takes |
| **Task** (`groups/Task`) | static `m_latest_snapshot`, per-task history | initialize, update, analyze, signal, list, finalize | Terminal (snapshot), device | the snapshot is stale when the monitor pauses or stops |
| **DebugTrace** (`groups/DebugTrace`) | timers | initialize, update, trace, analyze, finalize | Terminal (closes and reopens its JSON object), printer | prints in the middle of what others print |
| **Connection, Connector** (`groups/Connection`, `Connector`) | the connection, the session's path and retry options, the pending error | `is_connection_ready`, `conn.connect`, `conn.ping`, `conn.list`, retry loop | every device command; workspace settings (preferred connection, blacklist) | devices come and go; a pending error disables every later call; u32 retry arithmetic |
| **SlPrinter** (`SlPrinter`) | `m_is_output`, `m_output_open_count`, JSON nesting, output queue | open and close of command, output, objects, error | everybody | a report has to be balanced on every error path; no mutex |
| **Command** (`Command`) | name, arguments, the handler's reference | parse, validate, look an argument up | Group, every handler | long and short names, empty values, defaults, help before all |
| **Group** (`Group`) | registered commands, loaded input | `execute_command_list`, dispatch | Cloud (publishes jobs), every group | a line is refused as a whole; runs here or elsewhere, not both; the first failure ends it |
| **Switch, Shortcut** | parsed switches, shortcuts in the settings | handle switches, handle and execute shortcuts | App, Group | many ways to end `sl` before its commands |
| **App, Credentials, settings** (`App`, `settings/*`, `groups/Settings`) | credentials in two files, settings in two, copies in memory | start, login state, cloud readiness, set, finalize | Cloud, every group | several processes, files written as a whole and only at an orderly end, a refused login halfway |
| **Cloud** (`groups/Cloud`) | job server handle, credentials | login, logout, refresh, connect, listen, publish_job, remove, install | Group, App, cloud service library | timeouts, one job server, documents nobody locks |
| **Team, Keys** (`groups/TeamGroup`, `groups/KeysGroup`) | documents of the cloud; signed files of the host | add, update; publish, sign, verify, remove | Cloud | read, change, write back; a file that is signed while another process changes it |
| **Application** (`groups/Application`) | progress thread of clean | run, install, publish, clean, ping | device file system, cloud | condition variable between a detached thread and its starter; which copy is run |
| **FileSystem** (`groups/FileSystem`) | none beyond a command | copy, remove, mkdir, write, read, verify, download, bundle, archive, ... | file systems of device and host | several calls, each of which may fail, and nothing is undone; pages, sizes and alignments |
| **Packager, OperatingSystem** (`utilities/*`) | temporary directory, archive, hash | gather, archive, seal, hash; download, check, decrypt, extract | os.pack, fs.archive, cloud.install | tools whose failure is ignored; the order of hash and decryption |
| **Bsp** (`groups/Bsp`) | none | pack, reset, install, publish | Packager, Connection | the device is gone after a reset |
| Mcu, Flash, Admin, Bench, Report, User, Thing, Hardware, GcovParser, DeviceExecutionContext | none of their own | one request to the device, the host or the service library per command | connection, cloud | none of concurrency |
| Framework, Usb; Script, Sdk | | | | not registered; not compiled |

The Stratify API (`printer`, `sos::Link`, `thread`, `inet`, `chrono`) and the
cloud service library are git submodules that are absent here. What they do is
modelled only from how `src/` uses them, and `PROJECT.json` marks such
definitions as external.

The hazards that were met while reading are listed in `PROJECT.json` with the
line where each bites and the properties that watch it.

## 2 Modules

```
Sessions            what --listen promises its clients          (abstract)
LocalServer         listener, workers, HTTP handlers            implements Sessions
  MCLocalServer     symmetry                                    runs server, server_live, hand_over
  LocalServerProof  invariants and refinement
MainLoop            main.cpp's loop, Terminal, Task, DebugTrace
  MCMainLoop        periods, history variable                   runs main_loop, main_loop_live
  MainLoopProof     types, write block, watched application
Connect             Connector, conn.connect, conn.ping, os.reset, retry loop
  MCConnect         three ports                                 run connect
  ConnectProof      counters, blacklist, pending error
Files               fs.copy, fs.mkdir, fs.remove
  MCFiles           trees of two levels                         runs files, all_copied
  FilesProof        what a copy and a remove leave behind
Command             arguments as typed, and what a handler is given
CommandLines        what a line is promised                     (abstract)
Dispatch            switches, shortcuts, command lists, jobs    EXTENDS Command,
                                                                implements CommandLines
  MCDispatch        commands, lines of up to two                runs dispatch, posted
  DispatchProof     refused whole, here or there, arguments, refinement
Session             several sl: credentials and settings files
Documents           team, projects, keys, signatures            EXTENDS Session
  MCDocuments       two processes, up to three commands         run cloud
  DocumentsProof    identities, accounts, settings, builds, updates, signatures
Report              SlPrinter's JSON objects
  ReportProof       balance of the report
Transfer            fs.write, read, verify, download, bundle
Apps                app.clean, app.install, app.run
Packages            os.pack, fs.archive, cloud.install:compiler
Signals             task.signal
Install             os.install and cloud.install
  MCCommands        Report, Transfer, Apps, Packages,
                    Signals, Install                            run commands
  CommandsProof     Transfer, Apps, Packages, Signals, Install
```

Definitions that a comment calls *mutant* are plausible bugs of the definition
next to them. They take part in no behaviour; replacing the definition by
its mutant makes the property that watches it fail, which shows that the
property depends on that part of the code.

### LocalServer and Sessions

The listener thread is a program counter (`listener`): `check` reads
`is_interrupted()`, `accept` waits for a connection and moves it into
`m_accept_socket`, `scan` looks at one slot of `m_thread_array` after the other,
`sync` takes and releases `m_accept_socket_mutex`. A worker (`worker[w]`) is
`spawned` until it has moved the socket out of the member, `lock` until it has
the mutex, then `run` (HttpServer waits for a request), `exec` (a posted command
list runs), `listen` (that list is in `cloud.listen`, which waits for SIGINT),
`terminal` (the event stream) and `ending`. `conn[c]` is where the
socket of client `c` is; `dropped` says that it was closed before a worker took
it.

*Abstractions.* A request is a step that a worker chooses among those a peer may
send. What `printer().queue()` holds is the set of sessions whose posted commands
printed, which is what `RepliesSeparate` has to tell apart; `NoConn` stands for the
lines of no posted command, the main thread's and the progress that
`respond_get_web()` has the printer show while it sends a page. SIGINT ends the
process, and with it any session (`main.cpp:216-245`); that end is no step of the
model, and what the properties claim of sessions they claim until SIGINT. `m_connection_mutex` is nested inside
the accept mutex and is left out. The data race on `m_accept_socket` itself
is abstracted to atomic moves: the hand-over already loses connections then.
`respond_task()` and `respond_debug()` are called by nobody.

*Sessions* states the promise in four steps of a client's connection (waiting,
serving, over, lost), at most one of them serving. `Status` is the refinement
mapping. A connection is *serving* when its worker holds the mutex.

### MainLoop

One action per piece of the loop body: `Switch` (master off switch and `busy`),
one update per updater, `Wait`, `Again`, and after it `Finalize` and
`Disconnect`. Commands are those that start an updater, with their failures. On
the command line they run before the loop; in listen mode a worker runs them at
any moment beside it. Tasks of the device start and exit at will and a pid may be
given to another task. `latest` is the static snapshot that links Task to
Terminal.

*Abstractions.* Time is a count of turns; the output that the terminal copies is
left out (LocalServer has its queue); the names in a snapshot are "the watched
application" and "another task". A running `ClockTimer` that is started again
either goes on or restarts: the class is not in `src/`.

### Connect

`pc` is where the retry loop is: `pass` (the list of ports is made), `scan` (one
`Try` per port), `finish` (the command gets its answer). A path is the set of
ports that it matches. `Attach` and `Detach` are enabled between any two steps.
`Link::connect()` does nothing while an error is pending: `Connection.cpp`
relies on it and resets the error before each port.

*Abstractions.* Serial options (baud rate, stop bits) are data. What
`Link::connect()` does on a live connection is not in `src/`; `ConnectFull` is
therefore restricted to a link that is not connected.

### Report

`depth` is the number of JSON objects open. The calls of SlPrinter
(`OpenCommand`, `OpenOutput`, `CloseOutput`, `Error`) are functions on a record of
its members; a command is a path through them from `Begin` to `Finish`, with
every early return found in the groups (`Help`, `Invalid`, `Disabled`,
`NotReady`). Three paths leave the nesting changed and one more closes what is not
its own (`NotReadyGoesOn`: `fs.archive` goes on after its result). `unclosed` says
by how much, and `OpenAnother` is the command that `cloud.listen` opens as the last
thing it does. The main loop's prints are actions of their own and, in listen mode,
alternate with those of a command.

*Abstractions.* Keys, tables, Markdown and YAML layouts have no counterpart. The
main loop prints a section in one step.

### Files

A file system is a tree: at each path there is nothing, a directory or a file. The
content of a file of the source is its path, so that a file in the wrong place
is noticed; `part` is a file opened for writing and not written to its end. The
commands are sequences of calls of the library, one action per call or per pair
of calls with nothing between: a copy reads both infos (`CopyInfo`), makes or
checks the destination (`CopyDirectory`, `CopyFile`), and for each entry skips it
or prepares, opens and transfers it. Every call may fail; `Fail` returns with
what was done so far. `check`, `base` and `info` are
`is_check_destination_overwrite`, `destination_link_path` and
`destination_info`, read once and used for every entry. In a remove a failure is
only remembered (`error`), and the calls after it do nothing.

*Abstractions.* What the calls do to a tree is the library's, which is absent:
`read_directory` with recursion lists files (the code makes the directories that
are missing itself), without it the entries of one level; `File::IsOverwrite::yes`
truncates. Source and destination do not overlap. The order of a list is open.
A connection that is lost is a call that fails. A timestamp in the destination's
name and the options `hidden` and `remove` of fs.copy, which the code reads
nowhere, have no counterpart.

### Command and Dispatch

A command is a record of its group, its name and its arguments as they were
typed. `Typed` are the words of an argument; `IsValid`, `Lookup` and
`ArgumentValue` say what a handler is given, `Bound` what it should be given,
written without a look at the code's search order: by the names that an argument
has (`NamesTyped`; an empty shortcut is none) and by what the value means (`Meant`).
Two conversions are functions on the values concerned: `Unquoted` takes the quotes
off, `Decimal` turns a number that begins with 0x into the same in decimal
(`InDecimal`, for arguments of type int). `Dispatch` is the life of one
line after the other: `HandleSwitches`, `HandleShortcuts`, `ExecuteShortcut`,
`CheckList`, then `PublishJob`/`Published`/`NotPublished` or `Execute`, and the
exit code. The job server is another `sl` in `cloud.listen`; a browser publishes
jobs to it, too, and one of them may be `cloud.listen` itself, which leaves
`m_job_server` null (`pointer`) and the server asserted at the next job.

*CommandLines* states what a line can rely on in five steps: it begins, is refused
while its fate is open, runs one command here, is published, succeeds. Its steps
carry the order (nothing runs after a failure, nothing is refused once something
ran) and the exclusion (a published line is never run). `Fate`, `Left`, `Faulty` and
`Failed` are the refinement mapping. A second publication of the same line is no
step of it: the promise is about where a line goes, and what the job server
makes of it is the run `posted`.

*Abstractions.* What a handler does is left to the other modules: here it
succeeds or fails. A text is not split into words. The service keeps a job until
somebody answers it, and may drop one that its client gave up.

### Session and Documents

`pc[p]` is where process `p` is: `idle` between two commands, `write` while it
writes a file it saves at once (credentials, and the workspace's settings in
`Saves`), `settings`, `between` and `workspace` on its way out; with an error pending
it ends without a save (`FinalizeError`). A workspace that is loaded gets an SDK
directory if it names none (`WithSdk`). A file is opened, which empties it, in one step, and written in another, so
that other processes and a crash may come between. Credentials are records of
whose uid, token and refresh token they are.

`Documents` adds the cloud's documents and the signed files of the host. An update
reads a document into `work[p].copy`, changes the copy and writes it back. Each call
is a step (`work[p].at`): `store` and `save` wait for a call to be carried out,
`answer` for its answer, so that a failure or a kill at `answer` is a call that had
its effect and was not reported. `keys.sign` is five of them: `Sign` hashes whatever
the file holds, `Opens` empties the destination, `Copies` fills it, `Appends` adds the
signature of what was hashed and `Signed` verifies; `keys.verify` with strip is
`Strip`, `Opens`, `Strips`, `Stripped`. A file is whether it is cut short, and its
signatures, each with its key and whether it is of all that precedes it.

*History variables* carry what the properties compare with: `settled` is what a process that was alone made of a file, or found at first, `asked` the settings that were reported
as set, `mixed` that a listener went on after a refused login, `expected` what
the updates that the service carried out amount to, `raced` that somebody wrote a
stale copy since the last `team.add`, `intact` the files that a command reported or
that were there and that nobody has written since, `steady` the processes that work
on an intact file and that no other has disturbed.

*Abstractions.* Any use of a token may find it older than 59 minutes. A setting
is a value, not a tree of keys. The service reads and writes one document at a
time; a `remove()` of a build or of a project that it carried out and reported
as failed shows as a failure after `DeleteBuild` or `DeleteProject`. Two signatures of
the same content by one key are not told apart, and a file that is cut short does
not by accident end in a signature.

### Transfer, Apps and Packages

One behaviour is of one of them; a command of these groups keeps nothing in the
process. `Transfer` moves bytes page by page with any size, location and page
size; `First` is where a read begins, `location` in a file and 0 in an asset;
`Verified` and `AssetRead` are the readers, as operators over what the
writers leave. `Apps` has the two threads of `clean_directory()` as program
counters (`pc`, `thread`): the flag is set and the wait begun with the mutex held,
which makes them one step. `Packages` follows an archive from the source
directory to the destination and back: `Gather` one file at a time, `Archive` (7z,
which may stop early unnoticed), `Seal`, `HashProduct`, `Write`; then `Download`
whatever the url has, `CheckHash`, `Decrypt`, `RunArchive`.

*Abstractions.* A hash is modelled by what it is of. An archive is the set of its
files and whether it is whole, sealed and carries its key. The suffix and the
name that an application can be installed under are left out. A removal that fails
has removed nothing: one that took effect and was reported as failed would be
missing in the list of `app.clean`.

### Signals and Install

What a command asks of something that is not in this repository, and when.
`Signals` is `Task::signal()` in three steps, ready, `SignalTarget` (the first
request, which turns a name into a pid) and `SignalKill` (the second), with a
device whose processes start and exit in between and that may go, or come back
with a bootloader. `complained` is what has been printed, `returned` what the
handler returns, which is all that the exit code knows. `Install` is
`Bsp::install()` up to `Installer::install()`, and of `CloudGroup::install()` what
it needs before and asks for: `Search` looks at one entry of the workspace per
step and `Import` reads the chosen project again, while anybody may `Edit` it.

*Abstractions.* A signal is known or not, its number and value are data. A project
is its type and its hardware id. Options that are only passed on are left out; the installer
succeeds or fails.

## 3 Runs

| Run | Question | Bounds | Distinct states |
|---|---|---|---|
| `server` | safety and refinement under all interleavings | 3 clients, 2 slots, 1 line | 464,120 |
| `server_live` | are sessions served and the backlog drained | 2 clients, 2 slots | 32,729 |
| `hand_over` | is every accepted connection served (no) | 2 clients, 2 slots | |
| `main_loop` | is the device restored, is a live watched application kept | 1 pid, durations 0 and 3, MissLimit 1, MaxTime 3, with and without listen mode | 1,409,202 |
| `main_loop_live` | does the loop end when it should | the same, command line only | 51,390 |
| `connect` | retry bound, choice of the port, error handling, termination | 3 ports (serial, usb, one blacklisted), retries 0, 2, 3, modulus 4 | 134,784 |
| `files` | what a copy or a remove reports and leaves behind | 4 paths in two levels, all trees and options | 411,292 |
| `all_copied` | are all files of a directory copied (no) | the same | |
| `dispatch` | is a line refused whole, run here or there, ended; do arguments arrive | lines of up to 2 commands, 7 argument names, a quoted and two hexadecimal values, one shortcut, one job, job server on or off | 145,065 |
| `posted` | are commands posted to the job server (no) | the same | |
| `cloud` | credentials, settings, documents and signatures under races, failures and crashes | 2 processes, one listening, 2 users, 2 values (one without an SDK directory), 2 entries, 1 key, Depth 2, MaxCommands 2, MaxRequests 3, MaxMixed 2 | 1,282,696 |
| `commands` | balance of the report; transfers, bundles, applications, archives, signals, installations | 2 objects, depth 6; files of 3 bytes, assets of 4, pages of 1 to 3; 3 names in 2 folders; 3 source files, 2 filters; 2 threads, 2 pids, 2 names; 2 hardware ids, 1 device, 2 folders | 1,241,392 |

What the properties say, by run:

* `server`: a socket has one owner (`SocketOwnedOnce`), no `/terminal` is refused
  while sessions are serial (`TerminalNeverRefused`), a reply holds no line that a
  posted command of another session printed (`RepliesSeparate`), and the server does what `Sessions` says
  (`ImplementsSessions`). `server_live`: a socket a worker took is served to its
  end (`ClaimedIsServed`), the backlog is drained (`BacklogDrained`), both unless
  sl is interrupted or a session posted `cloud.listen`.
* `main_loop`: the device's writers are not blocked at an orderly end
  (`WriteBlockRemoved`), a watched application that runs is not cut off
  (`LiveWatchKept`). `main_loop_live`: `TerminalEndsLoop`, `DurationEndsLoop`, and
  `WatchEndsTerminal` while the task monitor samples.
* `connect`: `RetryBound`, `AnsweringPortWins` (no error of another port is left),
  `TryEnds`, `DeviceFound` (a device that stays is found).
* `files`: `CopySound`, `OneBroken` (at most one file is left incomplete),
  `ExistingKept`, `RemoveSound`.
* `dispatch`: `RefusedWhole`, `ArgumentsBound` (what is typed for an argument, and
  nothing else, reaches its handler, converted), `KeepsPromise` (the client implements
  `CommandLines`), `LineEnds`.
* `cloud`: `OneIdentity` (a credentials file is one user's), `AccountKept` (a login
  or logout lasts), `SettingsKept` (what was reported as set is in the file, at once
  or after an orderly end), `ListedStored` (the builds of the project can be
  downloaded), `UpdatesKept` (a member's rights are what the updates that were carried
  out amount to, reported or not, unless two overlapped), `SignaturesCounted` (a file
  that was signed undisturbed has as many good signatures as suffixes).
* `commands`: `NeverUnderflow`, `CommandCloses` (a report is balanced, but for the
  four commands that `unclosed` and `again` account for); `TransferSound` (what is
  reported was written, and nothing else was touched), `AssetsRead`; `CleanSound`,
  `CleanReturns`, `RanInstalled`; `PackageSound`, `InstalledAsPacked`; `SignalSound`
  (a signal reaches the thread, the name or the pid asked for; only a pid that
  changes hands between the two requests leads astray; with both an id and a pid
  either is accepted, since the help promises precedence to each); `InstallSound` (an OS of this
  device is found and installed, unless a project is edited or an entry vanishes
  meanwhile, and an update is asked only of a device that is there).

*Why the bounds are enough.* The server needs two workers to compete for the
mutex and one connection more than slots, so that the search finds all of them
busy; the third client also arrives while the second waits. Slots and clients
are interchangeable, and clients are a symmetry set (not in the liveness run). In
the loop the terminal's period is one turn and the monitor's is two, so that it
decides on a snapshot at least one turn old; `MissLimit = 1` needs two misses in a
row, the smallest number at which forgetting the reset can be told from it;
durations reach past `MinDuration` and `MaxTime` is not below any of them. The
modulus 4 of `connect` makes `retry = 3` the value that wraps to 0; each port is
of a different kind for the paths. The trees of `files` have a directory in a
directory, an entry beside it and a name that a single file may take in a
directory, which is where the branches of the code differ; commands follow one
another on what earlier ones left.

A line of two commands is the shortest whose first command can run before the
second is found wrong, and whose publication can fail after one succeeded; the
words of `dispatch` are the long and the short name of a required argument, an
optional number without a short name, `help`, `validateSyntax`, an unknown and
an empty one, alone and in pairs; its values are empty, quoted, hexadecimal and a
remark. Three commands of two processes are the smallest number with which two
overlap and a third comes before or after. `Documents` runs three (`MaxRequests`).
`Session` runs two (`MaxCommands`) and begins with what a third has left, a login and
a workspace, of which `settled` claims that they last; the start and the end of any
number of processes may follow. If both kinds occur there are two (`MaxMixed`), since
they share no more than the credentials and the end of a process. With `Depth` 2 a
signed file is signed again and stripped; every file operation, every call and every end
of a process may be the point of a crash. Users and entries are symmetry sets.
Two objects in a command are the smallest number whose order of closing can
differ; depth 6 leaves room for the two objects of the main loop, the four of a
nested command and its section. Files of 0 to 3 bytes with pages of 1 to 3, sizes
of 0 to 4 and locations of 0 to 2 have every relation of these at a boundary: a
page that divides the size or does not, a location behind the end, a size above
the file's. Assets of 0 to 4 bytes reach past one alignment. Two visible names and
a hidden one let a removal fail with something left; three source files are one
filtered, one never packed and one packed. Two threads and two pids let a process
exit and another take its pid, or its thread; two folders let the search meet a
wrong, unreadable or vanished one before the right one, two hardware ids one for
another device. The theorems of section 4
do not depend on the bounds.

`MCMainLoop` restricts worker commands in listen mode to those that leave the
debug trace alone (`WorkerCommands`), which shares only `busy` with the rest.
`MCCommands` runs six modules that share no state in one run: a behaviour is of one
of them.

*Deadlock* is checked in `files`, `dispatch` and `cloud`, where a command can always
follow or a command that ended stays so by an action of its own. Elsewhere it is
not: the program ends (`pc = "done"`, `listener = "exit"`, the last turn of a
report), and a server without further clients waits.

*Fairness.* `LocalServer!Fairness`: threads run; a thread that waits for a mutex
gets it if it is released again and again (strong fairness of `Lock` and `Sync`:
pthread mutexes do not starve a waiter for ever on the supported hosts, although
they are not FIFO); clients hang up at last, because a browser closes its
stream; the terminal's queue is found empty again and again, because a socket of
the local host drains faster than a device prints; a posted command list
returns (weak fairness of `Reply`), because every other command of `sl` answers or
times out, except `cloud.listen`, which returns on SIGINT alone (`worker` is `listen`
until then). After SIGINT `main()` destroys the server and returns, whatever
session is open; `Occupied` takes both cases out of `ClaimedIsServed` and
`BacklogDrained`. Nothing is assumed of
clients connecting, posting or of the user. `MainLoop!FairSpec`: the main thread
is never stopped; device, user and worker commands owe nothing. `Connect!FairSpec`:
the retry loop, once called, runs on; it never blocks on a device.
`Dispatch!FairSpec`: `main()` of the client runs; the service and the job server
owe it no answer. `AppsFairness`: both threads of a clean are scheduled.

## 4 Proofs

| Module | Theorems | Assumption |
|---|---|---|
| `LocalServerProof` | `TypeCorrect`, `OwnedOnce`, `Serial`, `NeverRefused`, `Separate`, `Implementation` | `ServerAssumption` |
| `MainLoopProof` | `TypeCorrect`, `BlockRemoved`, `WatchedIsKept` | `LoopAssumption` |
| `ConnectProof` | `TypeCorrect`, `RetriesBounded`, `PortChosen`, `NoErrorLeft` | `ConnectAssumption` |
| `ReportProof` | `TypeCorrect`, `Underflow`, `Closes`, `ReportsOnce` | `ReportAssumption` |
| `FilesProof` | `FilesTypes`, `CopyIsSound`, `AtMostOneBroken`, `ExistingFilesKept`, `RemoveIsSound` | `FilesAssumption` |
| `DispatchProof` | `TypeCorrect`, `Refused`, `RunsOnce`, `PromiseIsKept`, `ArgumentsReach` | `DispatchAssumption`, `CommandAssumption` |
| `DocumentsProof` | `OneUser`, `AccountLasts`, `SettingsLast`, `Stored`, `UpdatesLast`, `Signatures` | `SessionAssumption`, `DocumentsAssumption` |
| `CommandsProof` | `TransferIsSound`, `AssetsAreRead`, `CleanIsSound`, `InstalledIsRun`, `PackageIsSound`, `InstalledIsPacked`, `SignalIsSound`, `InstallIsSound` | `TransferAssumption`, `AppsAssumption`, `PackagesAssumption`, `SignalsAssumption`, `InstallAssumption` |

The assumptions say of the constants what the code's types say: at least one
slot, u32 retry counts, positive periods, `NoConn` and `NoPort` are no
connection and no port, a missing command is no command, an empty uid no user,
0 neither a thread nor a pid, an absent or half-written file neither a setting nor
credentials nor a file to sign, an SDK directory put in once for all, no command
not a command, "true" no remark in angle brackets, the name of an argument a word of
the alphabet in which the names are sorted, page sizes positive, the assets of a
bundle a list of names.
`FilesAssumption` says that the paths form a tree of finite depth below `Top`
(each path below it is in or is a path of the first level).

*LocalServer.* No single property is inductive. The invariant joins them:
sockets have one owner, the holder of the accept mutex is exactly the worker in
a session, the holder of the terminal mutex is exactly the worker in its event
loop, and lines of a posted command are in the queue only while that session's worker
executes (`exec` or `listen`). Because the terminal mutex is taken only under the accept mutex, the
`try_lock` cannot fail, which is why the 409 branch is dead code. The refinement
then follows step by step: `Connect` opens, `Lock` starts a session (no other is
open, by the invariant), `Release` ends it, `Accept` may lose the connection it
overwrites, which waited; everything else leaves `Status` as it is.

*MainLoop.* `BlockInv` says that a block on the command line implies that the
terminal is initialized until `Finalize` has run, after which it is gone unless
the device is.

`WatchedIsKept` is about `WatchSpec` of `MCMainLoop`, which is `Spec` with the history
variable `held` and none of TLC's bounds. Its invariant `Watched` says that the snapshot lists the
watched process as long as `held`: a pid is only ever taken from a snapshot that
lists it (`PidGiven`), and every snapshot after that is of a device on which it
runs (`NewSnapshot`). Whatever the two periods and the limit are, no check then
counts a miss.

*Connect.* The counter and the number of passes go together while the loop runs,
and the counter never passes the limit, so passes are bounded for every modulus.
A port found on a fresh link came from `todo`, a subset of the path, and passed
the blacklist; a successful try resets the error.

*Report.* `IInv == Flags /\ Balanced`. `Flags` are the types of the Boolean
variables; of `Balanced`, `Counted` ties the section and the count to where the
command is, and `Owns` and `AtLeast` say where `depth` stands relative to `base` at
each point of a tidy command: `base` + command + section + objects + scopes +
`unclosed`, with `openCount` equal to the objects that `CloseOutput` will close.
`unclosed` is 1 for a command that leaves an object open, -1 for an `fs.archive` that
goes on after its own was closed. On the command line `base` itself is at least the
number of objects that the main loop has open, less one for each such `fs.archive`
(`again`).

*Files.* During a copy every place of the destination is *clean*: as it was, a
directory that was made, or the copy of its entry. Only the place of the entry
that is open may be empty or partial. `Copying` says this, and that the entries
not in `todo` are copied; it needs that each entry has a place of its own
(`Goal`), and that what is listed exists, since otherwise making a directory could
hit a place that counts as copied. For `ExistingKept` the invariant shows why the
check of the directory instead of the entry is safe, if useless: with it, no
entry is ever opened. `Removing` says which entries are gone as long as no error
is pending; that everything below them is gone too follows because the
destination is a tree, which every step preserves.

*Dispatch.* `RefusedWhole` and `HereOrThere` are not inductive: that a line runs here
only if nothing was published depends on `status`, which is `skipped` exactly as long
as there was no publication (`Publishing`), and that what ran is a prefix of the
line without a failure on `next` (`Running`). `Passed` carries the check of the
groups, and `Untouched` that nothing happens before it.

With the same invariant every step refines one of `CommandLines`: before the list is
checked a line can only be refused, since nothing has happened; `Passed` makes a
line that runs or is published free of faults; `Running` makes `Execute` the next
command of a line in which none has failed, and `Finalize` a success of all of them
unless something was published. `HereOrThere` itself is left to the proof
(`RunsOnce`); the run checks the refinement, which says more. `ArgumentsReach` needs
no more than the types: that `CHOOSE` finds the first detail that speaks of an
argument, the only one unless both its names are typed, and that the details are
sorted by an order in which each name has a place (`PositionIs`). It excludes
empty words, which the code takes for every argument without a shortcut; what the
two conversions do is whatever the constants say, for any such functions.

*Documents.* `Identity` adds to the files what the processes hold in memory;
`mixed` is the one way out of it. `Listing` adds what a process has read and is
about to write: a copy is no longer than what is stored, and the build of its
own command, once it is past `store`; that stays true however many others write in
between, because `builds` never shrinks but by `gone`.

`Signing` is what `SignaturesCounted` needs of work in progress. `Present` says that
the files of a command are there when it uses them, since nobody deletes one.
`Steady` is about a process that nobody has disturbed: it hashed a `Sound` file with
as many good signatures as its name has suffixes, and, in a signature, a destination
that verifies is that file with one signature more, because `Appends` makes a good
signature only of a destination that is equal to what was hashed; in a strip the
source still is what it was. Any write of another process to the destination, or to
the source of a strip, makes it not steady (`Writes`), and the result is not claimed
to be intact. A source that changes while it is signed needs no such exception:
the signature that is appended is not good, and `Signed` refuses it.

`Keeping` is what makes an account or a setting last. `Only` says that beside a process
that is `alone` all others are off, `Kept` that a file is what `settled` says unless a
process has it open, and `Aims` which file a process has open. `Account` says of
every process that the credentials it may still write are of the user in
`settled`, and `Memory` of one that is alone that its settings are those of the files, but for what it was asked to change and for the SDK directory that loading puts in
(`Same`, which is why `WithSdk` has to be idempotent). The reads at its start establish
both, its saves need them, those at once (`Written`) as well as those at the end. `Busy`
ties the two modules together: a process that is in a
command of `Documents` is idle in `Session`. `Updating` needs of each process only
that its copy is what it read with the change that was asked for (`Faithful`): as
`SaveMember` sets `raced` when the rights are no longer what was read, a copy that is
saved otherwise is the expected one with that change, and since `expected` changes
when the service carries the update out, it does not matter whether its answer comes.

*Transfer.* What a loop over pages leaves behind is an invariant of its pages, so no
induction over the data is needed. `Around` says that every byte outside the pages
written so far is as it was, `Copied` that those inside are the source's, `Filled` the
same where blank pages may be stepped over, which an erased destination allows
(a read begins at `First`, so that one lemma serves files and assets),
and `Complete` that a command that succeeds has come to its end. Each step is then
one `Overlay` or one concatenation, of which the lemmas `OverlayIs` and `JoinedIs` say
what each byte is. For a bundle, `Header(k)` and `Content(k)` say what is in the cells
of the first k entries and the contents of the first k assets. An entry's start is
computed from the sizes before it, and a content is put wherever the image ends;
`Bundled` says that the two agree at every step. `AssetsRead` is about the first
asset of a name: sources may have a name in common, and the reader finds the
first.

*Apps.* `Listed` makes the list of what was removed, and `Cleaned` what is still to
be handled, part of the invariant: as long as no error is pending, what was
visible is removed or in `left`. The progress thread appears in no conjunct:
`CleanSound` holds whenever it is woken. `Fresh` says that between installation and
run no older copy of that name exists in any folder.

*Packages.* As long as no error is pending, what is gathered and what is still to
be gathered are together what is wanted; an error never goes away before
`Destroy`, which is why an incomplete temporary directory is never hashed.
`Holds` follows the archive through sealing, hash and destination, and back
from the hash that was given to the files that are extracted: `CheckHash` is
the only step that establishes it, and `Decrypt` and `RunArchive` only lose files.

*Signals and Install.* Both need to know what was true when the choice was made and
has not been disturbed since: a thread with the pid `target` still has the name
unless `moved` (`Aimed`: at the id if one is given, else at the name or the pid, which
is one of the outcomes that `SignalSound` allows); a folder that was passed does not fit, and the chosen one does,
unless it is in `edited`. Threads of one process have one name, which makes a pid
as good as its name.

*Only model-checked:* liveness (`ClaimedIsServed`, `BacklogDrained`,
`TerminalEndsLoop`, `DurationEndsLoop`, `WatchEndsTerminal`, `TryEnds`,
`DeviceFound`, `LineEnds`, `CleanReturns`), which the prover cannot treat. Every
invariant, action property and refinement that a run checks is also a theorem.

## 5 Findings

Each of these has a run that violates the property that states the documentation.

| Run | Code | What the run shows |
|---|---|---|
| `hand_over` | `utilities/LocalServer.cpp:44` | a second accept overwrites the member before the first worker emptied it: the first connection is closed unserved; the same happens when all slots are busy |
| `all_copied` | `groups/FileSystem.cpp:723` | `fs.copy` of a directory into an existing one without overwrite copies nothing, not even what is missing, and reports success |
| `posted` | `groups/Cloud.cpp:471` | in a workspace that is joined to a job server, a line is published without its commands, reported a success and executed nowhere |

*Known divergences without a run.* Each was met while translating the code and is
either in the models, as the reason for a condition in a property, or said to be
left out.

Main loop and connection:

* After the task monitor's duration the snapshot keeps a dead application alive;
  the terminal never stops (`groups/Terminal.cpp:64`, documented at 179-180).
* `retry=n` gives n attempts, not n retries (`groups/Connection.cpp:437`, 276).
* With a device connected already, `conn.connect:path=...` reports it as the one
  specified (`groups/Connection.cpp:447`, 244-246).
* The help of `task.signal:pid` says that "if specified, `kill()` will be used rather
  than `pthread_kill()`" (`groups/Task.cpp:442-443`); when an `id` is given, too, the
  code uses `pthread_kill()` (535-543). `SignalSound` takes neither side.
* Without a connection, or with a bootloader, `task.signal` reports a failure and
  returns true, and a signal that it reports as not recognized is sent as -1
  (`groups/Task.cpp:505-517`), where `utilities/Switch.cpp:967` promises exit code 1 for
  a command that fails.

Lines and jobs:

* In a workspace connected to a job server a line is published once per command, and
  each publication is printed with the text of all commands so far; a line
  `work cloud.connect:job=none` publishes twice and never disconnects, where
  `groups/Cloud.cpp:378` gives `job=none` as the way to do so.
* A `cloud.listen` that a browser posts leaves `m_job_server` null, and the next job
  meets the assertion at `groups/Cloud.cpp:583`.
* Shortcuts run here even when the workspace is connected.
* A failed publication ends with exit code 0, where the text on exit codes
  (`utilities/Switch.cpp:966-969`) promises another one for a failure.
* The long and the short spelling of one argument are not found to be duplicates.
  An empty word, as a comma at the end of a line leaves it, is taken for every
  argument that has no shortcut, since the empty shortcut matches it
  (`Command.cpp:170-191`, 244-273); `Bound` leaves both out.
* Of an argument that is given empty, the report shows the default and the handler
  gets the empty value (`Command.cpp:304-316`, `Printed`).
* `cloud.listen` opens `cloud.listen.finalize` after its result and nobody closes it
  (`groups/Cloud.cpp:574`); `help` and `debug.trace:enabled=false` leave an object
  open, too. Whatever follows is nested inside (`unclosed`).
* The progress of a page that the server sends to a browser is printed into the
  queue from which the next POST's reply is made (`utilities/LocalServer.cpp:177-180`,
  320).
* `sl --update=<version>` downloads the latest version; the one given is only
  printed (`App.cpp:293-329`).

Sessions and documents:

* `cloud.login` without email and uid stores what has been loaded before the browser
  answers; `cloud.refresh` is not saved; a listener that goes on after a refused
  login keeps the new uid with the old token (`mixed`).
* A process that starts while another writes the settings takes them for missing
  and writes defaults at its end.
* Nothing locks a document (`raced`).
* A setting is not saved by a process that ends with an error pending, such as a
  listener whose last command failed (`App.cpp:203-204`).
* A `keys.sign` that fails or is killed after it opened its destination leaves a copy
  that is cut short or not signed under the final name, and a later `keys.sign` takes
  it as it is (`groups/KeysGroup.cpp:329-331`, 382-386).
* `keys.revoke` executes `verify()`, which fails for want of its arguments.
* `cloud.remove` of a build only takes it from the list; one of a project that fails
  leaves a project that lists builds which are deleted (`gone`).
* `report.list` and `report.remove` do nothing and report success.
* `report.parse` fills no output file (`groups/Report.cpp:368`): what it writes, shows or
  publishes is empty. `hardware.ping` without an id asks for the user's
  (`groups/HardwareGroup.cpp:51`), where line 36 says the current hardware.

Files, applications and archives:

* A file copied into an existing directory replaces the file there even without
  overwrite (`groups/FileSystem.cpp:663`, `base = Top` in `ExistingKept`), and so does
  a copy to a destination whose info could not be read (610, `info`); a directory is
  skipped as hidden by its own name and not by those of its files (718).
* `fs.read` of a source in an assets file ignores `location`
  (`groups/FileSystem.cpp:1292`, 1318-1321), which 1195-1199 documents as the location
  in the source. `TransferSound` says what it does: the asset is read from its beginning.
* `append` and `readwrite` of `fs.write` are read and not used; `location` of
  `fs.verify` seeks in the destination only.
* `fs.bundle` reports success when its source is missing; an asset of size 0 reads as
  not found; assets in subdirectories cannot be read.
* `fs.download` empties the destination first and leaves a file whose hash is wrong.
* `app.install:run=true,clean=false` may run an older copy in flash.
* `clean_directory()` waits on its condition once; after a spurious wakeup the
  thread uses a stack that is gone (`groups/Application.cpp:625`).
* `fs.archive:encrypt=true` without a key shows an empty `key256` and removes the key
  from the archive, where 1988-1989 promises that the random key will be displayed:
  nobody can open it (`groups/FileSystem.cpp:2118`, 2127).
* A filter of `os.pack` is matched against the whole path, the source's included.
* `fs.archive` of a directory shows the hash of an archive also when copying it to
  the destination failed; `extract=true` of a directory always fails; `fs.archive`
  goes on after a cloud that is not ready (2031-2035), so that its second result closes
  what is open around it (`again`).
* `cloud.install:compiler` with a name or a version that the list of packages does
  not have is no error at the download (`utilities/Packager.cpp:268-277`): the command
  fails later, at the hash of a file that is not there, and with `dryrun`, which
  extracts nothing, it reports success although nothing was downloaded.
* `cloud.install:update=true`, documented to "check for os and app updates of the
  attached device" (`groups/Cloud.cpp:773`), asks the installer for neither
  (910-911) unless `os` or `application` is given too.
* "either `id` or `url` or `update` is required" is never reported by `cloud.install`:
  `update` is not empty but `false` by default (`groups/Cloud.cpp:851-856`).
* After an entry of the workspace vanished, the search of `os.install` finds nothing
  more (`groups/Bsp.cpp:274`, `broken`).
* What 7z and a self-extracting archive return is ignored
  (`utilities/Packager.cpp:153`, 367; `halted` and `whole`).

## 6 Not modelled

* Script and Sdk groups are commented out of the build; Framework and Usb are not
  registered; nothing that is compiled uses `DeviceExecutionContext`; `Process` and
  `Job` are empty. The configuration of mbedtls and the symbol table are data.
* What the absent submodules do inside: the link protocol, the thread classes'
  destructors, `JsonPrinter`, the cloud service library, the installer.
* Two threads in one transaction of the link: the main loop uses the connection
  without `m_connection_mutex`.
* `Packager::do_upload()` beyond its guard (`utilities/Packager.cpp:192-194`): every
  caller that is compiled sets `upload` to false (`groups/Bsp.cpp:792`,
  `groups/FileSystem.cpp:2119`).
* The end of the process after SIGINT while a session is open.
* The self-update of `sl` (`App.cpp:117-391`), which replaces the program through the
  host's package tools.
* What the installer does with a request of `Install`: the reset, the reconnection and
  the comparison of versions are its own.
* `task.list`, `os.publish`, `os.authenticate`, `cloud.sync`, and the groups Mcu, Flash, Admin, Bench, Report, User, Thing and
  Hardware: one request per command, the state of which is in the device or the
  service.
* A bundle whose source files change between header and data; overlapping source and
  destination of a copy; the layout of what is printed.

## 7 Plan

Done, in this order: the components in which several threads meet (LocalServer and
Sessions, MainLoop), the one that every device command depends on (Connect), the
one that every command uses (Report), the commands that may destroy a user's
files (Files); then what a line does before and instead of its commands (Dispatch,
Command), what several processes share (Session, Documents), and what single
commands do on their own (Transfer, Apps, Packages) and what they ask of others
(Signals, Install).

Left, most important first:

1. Installation with reconnection, as a composition of Install, Connect and Apps: an
   installation resets the device it goes on to use.
2. Abstract specifications of further components, of which the candidates are a
   copy of `Files` (all, or an error and what was done) and an account of `Session`.
