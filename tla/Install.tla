------------------------------- MODULE Install -------------------------------
(***************************************************************************)
(* What os.install (groups/Bsp.cpp) and cloud.install (groups/Cloud.cpp)   *)
(* ask the installer to do.  os.install without a path searches the        *)
(* folders of the workspace for a project of an OS that fits the connected *)
(* device, and reads the project that it has chosen again before it is     *)
(* installed, while others may edit, add or delete projects.               *)
(*                                                                         *)
(* The installer is not part of this repository: it succeeds or fails.     *)
(***************************************************************************)

CONSTANTS
  Hardware, \* hardware ids that a project may be for
  Boards,   \* those of the devices that may be attached
  NoBoard,
  Projects  \* folders of the workspace

\* What else a path may be: not given, an image, or nothing that is there.
NoPath == "not given"
Image == "image"
Nowhere == "missing"

ASSUME InstallAssumption ==
  /\ NoBoard \notin Boards
  /\ Projects \cap {NoPath, Image, Nowhere} = {}

VARIABLES
  document,   \* folder -> its project settings
  plugged,    \* the device that is attached
  connected,  \* connection()->info().hardware_id() while is_connected()
  phase,      \* where the command is
  install,    \* its arguments
  todo,       \* entries of project_list that are left
  chosen,     \* project_path
  broken,     \* an error is pending, with which no further entry looks like a folder
  order,      \* what Installer::install() was given
  result,     \* what the command returned
  edited      \* history: folders that were edited since the command began, or
              \* since one was chosen

installVars == <<document, plugged, connected, phase, install, todo, chosen, broken, order,
                 result, edited>>

\* No folder, and a folder whose project cannot be read.
Absent == [type |-> "absent", board |-> NoBoard]
Unreadable == [type |-> "unreadable", board |-> NoBoard]

\* An id in a spelling that is not compared, with upper case digits and with or without
\* 0x, is as good as another one.
Readable == [type : {"os", "app"}, board : Hardware]

Documents == Readable \cup {Absent, Unreadable}

\* Whether os.install has a destination and a key, given or in the settings, and
\* whether that of cloud.install is on the host.
Installs ==
  [op : {"os"}, path : Projects \cup {NoPath, Image, Nowhere}, destination : BOOLEAN,
   sign : BOOLEAN]
    \cup [op : {"cloud"}, update : BOOLEAN, os : BOOLEAN, app : BOOLEAN, host : BOOLEAN]

NoRequest == [op |-> "none"]
NothingOrdered == [op |-> "none"]

\* One command is enough: all that it leaves to the next is the connection, which may
\* have been made before, also to a device that is gone.
InstallInit ==
  /\ document \in [Projects -> Documents]
  /\ plugged \in Boards \cup {NoBoard} /\ connected \in Boards \cup {NoBoard}
  /\ phase = "idle" /\ install = NoRequest /\ todo = {} /\ chosen = NoPath /\ broken = FALSE
  /\ order = NothingOrdered /\ result = "none" /\ edited = {}

-----------------------------------------------------------------------------
\* Users and other processes, at any moment.

Edit(f, d) ==
  /\ document' = [document EXCEPT ![f] = d]
  /\ edited' = edited \cup {f}
  /\ UNCHANGED <<plugged, connected, phase, install, todo, chosen, broken, order, result>>

Plug(b) ==
  /\ plugged' = b
  /\ UNCHANGED <<document, connected, phase, install, todo, chosen, broken, order, result,
                 edited>>

-----------------------------------------------------------------------------
InstallBegin(r) ==
  /\ phase = "idle" /\ result = "none" /\ phase' = "check"
  /\ install' = r /\ edited' = {}
  /\ UNCHANGED <<document, plugged, connected, todo, chosen, broken, order, result>>

InstallReturn(r) == phase' = "idle" /\ result' = r

\* is_connection_ready() is asked, which a bootloader satisfies as well.
NeedsDevice(r) ==
  IF r.op = "os" THEN r.path = NoPath \/ ~ r.destination
  ELSE ~ r.host \/ r.os \/ r.app

\* cloud.install needs a build with the cloud's service, os.install the cloud for its
\* keys.
NeedsCloud(r) == r.op = "os" => r.sign

Connected == IF connected # NoBoard \/ ~ NeedsDevice(install) THEN connected ELSE plugged

\* Cloud, device, path or project are not there.
InstallStops ==
  /\ \/ /\ phase = "check"
        /\ NeedsCloud(install) \/ (NeedsDevice(install) /\ connected = NoBoard)
        /\ UNCHANGED connected
     \/ /\ phase = "check"
        /\ connected' = Connected /\ (NeedsDevice(install) => connected' # NoBoard)
        /\ install.op = "os" /\ install.path \in Projects \cup {Nowhere}
        /\ install.path \in Projects => document[install.path] = Absent
     \/ phase = "import" /\ document[chosen] \notin Readable /\ UNCHANGED connected
  /\ InstallReturn("failure")
  /\ UNCHANGED <<document, plugged, install, todo, chosen, broken, order, edited>>

\* Where the command goes from here, and the folders that it will look at.
Check ==
  /\ phase = "check"
  /\ connected' = Connected
  /\ NeedsDevice(install) => connected' # NoBoard
  /\ \/ /\ install.op = "os" => install.path = Image
        /\ phase' = "install" /\ UNCHANGED <<todo, chosen, edited>>
     \/ /\ install.op = "os" /\ install.path \in Projects
        /\ document[install.path] # Absent
        /\ phase' = "import" /\ chosen' = install.path /\ UNCHANGED <<todo, edited>>
     \/ /\ install.op = "os" /\ install.path = NoPath
        /\ phase' = "search" /\ todo' = {f \in Projects : document[f] # Absent}
        /\ UNCHANGED <<chosen, edited>>
  /\ UNCHANGED <<document, plugged, install, broken, order, result>>

Fits(d) == d.type = "os" /\ d.board = connected

\* Mutant of Search: without its parentheses the condition on two spellings of the
\* hardware id accepts an application with the second one.
SearchEither(f) ==
  /\ phase = "search" /\ f \in todo
  /\ todo' = todo \ {f}
  /\ IF document[f].board = connected
     THEN phase' = "import" /\ chosen' = f /\ edited' = {}
     ELSE UNCHANGED <<phase, chosen, edited>>
  /\ UNCHANGED <<document, plugged, connected, install, broken, order, result>>

\* The next entry of the list, in whatever order it is.  The error of a project
\* that cannot be read is guarded, that of a folder that is gone since it was
\* listed is not.
Search(f) ==
  /\ phase = "search" /\ f \in todo
  /\ broken' = (broken \/ document[f] = Absent)
  /\ IF ~ broken /\ Fits(document[f])
     THEN todo' = {} /\ phase' = "import" /\ chosen' = f /\ edited' = {}
     ELSE todo' = todo \ {f} /\ UNCHANGED <<phase, chosen, edited>>
  /\ UNCHANGED <<document, plugged, connected, install, order, result>>

NotFound ==
  /\ phase = "search" /\ todo = {}
  /\ InstallReturn("not found")
  /\ UNCHANGED <<document, plugged, connected, install, todo, chosen, broken, order, edited>>

\* The project is read once more, and not compared again.
Import ==
  /\ phase = "import" /\ document[chosen] \in Readable
  /\ phase' = "install"
  /\ UNCHANGED <<document, plugged, connected, install, todo, chosen, broken, order, result,
                 edited>>

\* Installer::install(), with what get_installer_options() made of the arguments;
\* the device restarts and may not come back.
RunInstaller ==
  /\ phase = "install"
  /\ order' = IF install.op = "os"
              THEN [op |-> "os", project |-> chosen]
              ELSE [op |-> "cloud", os |-> install.update /\ install.os,
                    app |-> install.update /\ install.app]
  /\ \E r \in {"success", "failure"} : InstallReturn(r)
  /\ UNCHANGED <<document, plugged, connected, install, todo, chosen, broken, edited>>

-----------------------------------------------------------------------------
InstallNext ==
  \/ \E f \in Projects : Search(f) \/ \E d \in Documents : Edit(f, d)
  \/ \E b \in Boards \cup {NoBoard} : Plug(b)
  \/ \E r \in Installs : InstallBegin(r)
  \/ InstallStops \/ Check \/ NotFound \/ Import \/ RunInstaller

InstallSpec == InstallInit /\ [][InstallNext]_installVars

-----------------------------------------------------------------------------
Searched == install.op = "os" /\ install.path = NoPath

PackageFits ==
  order.op = "os" /\ Searched =>
    chosen \in Projects /\ (chosen \in edited \/ Fits(document[chosen]))

PackageFound ==
  result = "not found" /\ ~ broken => \A f \in Projects \ edited : ~ Fits(document[f])

UpdatesDevice == order.op = "cloud" /\ (order.os \/ order.app) => connected # NoBoard

(***************************************************************************)
(* os.install without a path installs nothing but an OS of the device that *)
(* is connected, unless the project is edited after it was chosen: it is   *)
(* read again, but not compared again.  It finds such an OS if a folder    *)
(* has it, whatever is in the folders listed before; only what is edited   *)
(* meanwhile may be missed, and everything once a folder that was listed   *)
(* is gone (broken).  And cloud.install, which combines its flags once for *)
(* the connection and once for the installer, never asks for an update     *)
(* without a device.                                                       *)
(***************************************************************************)
InstallSound == PackageFits /\ PackageFound /\ UpdatesDevice
=============================================================================
