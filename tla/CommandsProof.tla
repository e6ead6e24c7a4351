--------------------------- MODULE CommandsProof -----------------------------
(***************************************************************************)
(* Proofs about Apps, for every set of names: that app.clean lists and     *)
(* removes what it should, and that app.install runs what it installed.    *)
(* Proofs about Packages, for every set of files: that an archive holds    *)
(* what was packed, and that only this is installed under its hash.        *)
(* Proofs about Signals, for every set of processes, and about Install,    *)
(* for every set of folders and devices.                                   *)
(* Proofs about Transfer, for files, pages and assets of any size: that    *)
(* what is written, read and bundled is what comes out.                    *)
(***************************************************************************)
EXTENDS Apps, Packages, Signals, Install, Transfer, SequenceTheorems, TLAPS

Types ==
  /\ mounted \in SUBSET Folders
  /\ folder \in [Folders -> [Names -> Copies]] /\ before \in [Folders -> [Names -> Copies]]
  /\ request \in Requests \cup {[op |-> "none"]}
  /\ pc \in {"idle", "clean", "remove", "wait", "leave", "install", "run"}
  /\ at \in Folders /\ left \in SUBSET Names /\ removed \in [Folders -> SUBSET Names]
  /\ error \in BOOLEAN /\ complete \in BOOLEAN
  /\ thread \in {"none", "show", "last", "signal"}
  /\ ran \in Copies /\ answer \in {"none", "success", "failure"}

\* Which commands may be where.
Placed ==
  /\ pc \in {"clean", "remove", "wait", "leave"} => request.op = "clean" /\ at \in request.in
  /\ pc = "install" => request.op = "install"
  /\ pc = "run" => request.op \in {"install", "run"}
  /\ pc # "idle" => answer = "none"

\* What is listed is what is gone, and nothing hidden is.
Listed ==
  request.op = "clean" =>
    \A f \in Folders :
      /\ removed[f] = {n \in Names : before[f][n] # folder[f][n]}
      /\ removed[f] \cap Hidden = {}
      /\ \A n \in Names : folder[f][n] \in {before[f][n], "none"}

\* How far a clean without an error has come.
Cleaned ==
  /\ pc \in {"wait", "leave"} => left = {}
  /\ pc = "remove" => left \subseteq Entries(at)
  /\ pc \in {"clean", "remove", "wait", "leave"} /\ ~ error =>
       (at = "ram" /\ "flash" \in request.in
          => removed["flash"] = Visible("flash"))
  /\ pc \in {"remove", "wait", "leave"} /\ ~ error => Visible(at) \ left \subseteq removed[at]
  /\ request.op = "clean" /\ answer = "success" =>
       \A f \in request.in : removed[f] = Visible(f)

\* Between an install that deletes and the run, only new copies are left.
Fresh ==
  request.op = "install" /\ request.clean =>
    /\ ran \in {"none", "new"}
    /\ pc = "run" => \A f \in Folders : folder[f][request.name] \in {"none", "new"}

IInv == Types /\ Placed /\ Listed /\ Cleaned /\ Fresh

-----------------------------------------------------------------------------
(***************************************************************************)
(* Everything listed was visible when the command began.                   *)
(***************************************************************************)
LEMMA ListedVisible ==
  ASSUME Types, Listed, request.op = "clean", NEW f \in Folders
  PROVE  removed[f] \subseteq Visible(f)
BY DEF Types, Listed, Visible

LEMMA RequestShapes ==
  ASSUME NEW r \in Requests
  PROVE  /\ r.op \in {"clean", "run", "install"}
         /\ r.op = "clean" => r.in \in {{"flash"}, {"ram"}, Folders}
         /\ r.op = "run" => r.name \in Names /\ r.in \in {{"flash"}, {"ram"}, Folders}
         /\ r.op = "install" => r.name \in Names /\ r.in \in Folders
BY DEF Requests

LEMMA InitInv == AppsInit => IInv
<1> SUFFICES ASSUME AppsInit PROVE IInv
  OBVIOUS
<1>1. Types
  <2>1. folder \in [Folders -> [Names -> Copies]]
    BY DEF AppsInit, Copies
  <2>2. mounted \in SUBSET Folders /\ removed \in [Folders -> SUBSET Names]
    BY DEF AppsInit, Folders, Nothing
  <2> QED BY <2>1, <2>2 DEF AppsInit, Types, Folders, Copies
<1>2. Placed /\ Listed /\ Cleaned /\ Fresh
  BY DEF AppsInit, Nothing, Placed, Listed, Cleaned, Fresh
<1> QED BY <1>1, <1>2 DEF IInv

-----------------------------------------------------------------------------
(***************************************************************************)
(* A new command starts from what the last one left.                       *)
(***************************************************************************)
LEMMA AppsBeginStep ==
  ASSUME IInv, NEW r \in Requests, AppsBegin(r)
  PROVE  IInv'
<1> USE DEF IInv
<1>1. folder' \in [Folders -> [Names -> Copies]]
  BY DEF AppsBegin, Types, Copies
<1>2. /\ r.op \in {"clean", "run", "install"}
      /\ r.op = "clean" => r.in \in {{"flash"}, {"ram"}, Folders}
  BY RequestShapes
<1>3. Types'
  BY <1>1, <1>2 DEF AppsBegin, Types, Nothing, Folders, Copies
<1>4. Placed'
  BY <1>2 DEF AppsBegin, Placed, Folders
<1>5. Listed'
  BY <1>1 DEF AppsBegin, Listed, Nothing
<1>6. Cleaned'
  BY <1>2 DEF AppsBegin, Cleaned, Folders
<1>7. Fresh'
  BY DEF AppsBegin, Fresh
<1> QED BY <1>3, <1>4, <1>5, <1>6, <1>7

(***************************************************************************)
(* A command that ends without success, or a wakeup, changes nothing else. *)
(***************************************************************************)
LEMMA EndStep ==
  ASSUME IInv, NoConnection \/ CleanMissing \/ CleanWakes
  PROVE  IInv'
<1> USE DEF IInv
<1>1. Types'
  BY DEF NoConnection, CleanMissing, CleanWakes, Returns, Types
<1>2. Placed'
  BY DEF NoConnection, CleanMissing, CleanWakes, Returns, Placed
<1>3. Listed'
  BY DEF NoConnection, CleanMissing, CleanWakes, Returns, Listed
<1>4. Cleaned'
  BY DEF NoConnection, CleanMissing, CleanWakes, Returns, Cleaned, Visible, Placed
<1>5. Fresh'
  BY DEF NoConnection, CleanMissing, CleanWakes, Returns, Fresh
<1> QED BY <1>1, <1>2, <1>3, <1>4, <1>5

(***************************************************************************)
(* The progress thread changes nothing of the command but wakes it.        *)
(***************************************************************************)
LEMMA ThreadStep ==
  ASSUME IInv, AppsThread
  PROVE  IInv'
<1> USE DEF IInv
<1>1. Types'
  BY DEF AppsThread, ThreadShows, ThreadSignals, Types
<1>2. Placed'
  BY DEF AppsThread, ThreadShows, ThreadSignals, Placed
<1>3. Listed'
  BY DEF AppsThread, ThreadShows, ThreadSignals, Listed
<1>4. Cleaned'
  BY DEF AppsThread, ThreadShows, ThreadSignals, Cleaned, Visible, Entries
<1>5. Fresh'
  BY DEF AppsThread, ThreadShows, ThreadSignals, Fresh
<1> QED BY <1>1, <1>2, <1>3, <1>4, <1>5

-----------------------------------------------------------------------------
(***************************************************************************)
(* The main thread of app.clean.                                           *)
(***************************************************************************)
LEMMA CleanStartStep ==
  ASSUME IInv, CleanStart
  PROVE  IInv'
<1> USE DEF IInv
<1>1. Types'
  BY DEF CleanStart, Types, Entries
<1>2. Placed' /\ Listed' /\ Fresh'
  BY DEF CleanStart, Placed, Listed, Fresh
<1>3. Visible(at) \ Entries(at) \subseteq removed[at]
  BY DEF CleanStart, Placed, Listed, Visible, Entries, Types
<1>4. Cleaned'
  BY <1>3 DEF CleanStart, Cleaned, Visible, Placed, Entries
<1> QED BY <1>1, <1>2, <1>4

LEMMA CleanRemoveStep ==
  ASSUME IInv, NEW n \in Names, CleanRemove(n)
  PROVE  IInv'
<1> USE DEF IInv
<1>1. request.op = "clean" /\ at \in Folders /\ pc = "remove" /\ answer = "none"
  BY DEF CleanRemove, Placed, Types
<1>2. Types'
  <2>1. folder' \in [Folders -> [Names -> Copies]]
    <3>1. [folder EXCEPT ![at][n] = "none"] \in [Folders -> [Names -> Copies]]
      BY <1>1 DEF Types, Copies
    <3> QED BY <1>1, <3>1 DEF CleanRemove, Types
  <2>2. removed' \in [Folders -> SUBSET Names]
    <3>1. [removed EXCEPT ![at] = @ \cup {n}] \in [Folders -> SUBSET Names]
      BY <1>1 DEF Types
    <3> QED BY <1>1, <3>1 DEF CleanRemove, Types
  <2> QED BY <2>1, <2>2 DEF CleanRemove, Types
<1>3. Placed' /\ Fresh'
  BY <1>1 DEF CleanRemove, Placed, Fresh
<1>4. CASE /\ ~ (n \in Hidden \/ error) /\ error' = error
             /\ folder' = [folder EXCEPT ![at][n] = "none"]
             /\ removed' = [removed EXCEPT ![at] = @ \cup {n}]
  <2>1. n \in Entries(at)
    BY <1>1 DEF CleanRemove, Cleaned
  <2>2. Listed'
    BY <1>1, <1>4, <2>1 DEF CleanRemove, Listed, Types, Entries
  <2>3. Cleaned'
    BY <1>1, <1>4, <2>1 DEF CleanRemove, Cleaned, Types, Visible, Entries, Folders
  <2> QED BY <1>2, <1>3, <2>2, <2>3
<1>5. CASE folder' = folder /\ removed' = removed /\ (error' \/ n \in Hidden)
  <2>1. Listed'
    BY <1>5 DEF CleanRemove, Listed
  <2>2. Cleaned'
    BY <1>1, <1>5 DEF CleanRemove, Cleaned, Types, Visible, Entries
  <2> QED BY <1>2, <1>3, <2>1, <2>2
<1> QED BY <1>1, <1>4, <1>5 DEF CleanRemove

LEMMA CleanWaitStep ==
  ASSUME IInv, CleanWait
  PROVE  IInv'
<1> USE DEF IInv
<1>1. Types'
  BY DEF CleanWait, Types
<1>2. Placed' /\ Listed' /\ Fresh'
  BY DEF CleanWait, Placed, Listed, Fresh
<1>3. Cleaned'
  BY DEF CleanWait, Cleaned, Visible
<1> QED BY <1>1, <1>2, <1>3

LEMMA CleanLeaveStep ==
  ASSUME IInv, CleanLeave
  PROVE  IInv'
<1> USE DEF IInv
<1>1. request.op = "clean" /\ at \in request.in /\ at \in Folders /\ left = {}
  BY DEF CleanLeave, Placed, Types, Cleaned
<1>2. request.in \in {{"flash"}, {"ram"}, Folders}
  BY <1>1, RequestShapes DEF Types
<1>3. Types'
  BY DEF CleanLeave, Returns, Types, Folders
<1>4. Placed'
  BY <1>1 DEF CleanLeave, Returns, Placed
<1>5. Listed' /\ Fresh'
  BY <1>1 DEF CleanLeave, Returns, Listed, Fresh
<1>6. ~ error => removed[at] = Visible(at)
  BY <1>1, ListedVisible DEF CleanLeave, Cleaned
<1>7. Cleaned'
  BY <1>1, <1>2, <1>6 DEF CleanLeave, Returns, Cleaned, Visible, Folders, Placed
<1> QED BY <1>3, <1>4, <1>5, <1>7

-----------------------------------------------------------------------------
(***************************************************************************)
(* app.install and app.run.                                                *)
(***************************************************************************)
LEMMA InstallStep ==
  ASSUME IInv, InstallFails \/ Install
  PROVE  IInv'
<1> USE DEF IInv
<1>1. request.op = "install" /\ pc = "install"
  BY DEF InstallFails, Install, Placed
<1>2. request.name \in Names /\ request.in \in Folders
  BY <1>1, RequestShapes DEF Types
<1>3. Deleted \in [Folders -> [Names -> Copies]]
  BY <1>2 DEF Deleted, Types, Copies
<1>4. folder' \in [Folders -> [Names -> Copies]]
  <2>1. CASE InstallFails
    BY <2>1, <1>3 DEF InstallFails, Types
  <2>2. CASE Install
    BY <2>2, <1>2, <1>3 DEF Install, Copies
  <2> QED BY <2>1, <2>2
<1>5. Types'
  BY <1>4 DEF InstallFails, Install, Returns, Types
<1>6. Placed' /\ Listed' /\ Cleaned'
  BY <1>1 DEF InstallFails, Install, Returns, Placed, Listed, Cleaned
<1>7. Fresh'
  <2>1. CASE InstallFails
    BY <2>1, <1>1 DEF InstallFails, Returns, Fresh
  <2>2. CASE Install
    <3>1. ASSUME request.clean, NEW f \in Folders
          PROVE  folder'[f][request.name] \in {"none", "new"}
      BY <3>1, <2>2, <1>2, <1>3 DEF Install, Deleted, Types
    <3> QED BY <2>2, <3>1 DEF Install, Fresh
  <2> QED BY <2>1, <2>2
<1> QED BY <1>5, <1>6, <1>7

LEMMA RunStep ==
  ASSUME IInv, Run
  PROVE  IInv'
<1> USE DEF IInv
<1>1. pc = "run" /\ request.op \in {"install", "run"}
  BY DEF Run, Placed
<1>2. request.name \in Names /\ Found \in Folders
  BY <1>1, RequestShapes DEF Types, Found, Folders
<1>3. folder[Found][request.name] \in Copies
  BY <1>2 DEF Types
<1>4. Types'
  BY <1>3 DEF Run, Returns, Types
<1>5. Placed' /\ Listed' /\ Cleaned'
  BY <1>1 DEF Run, Returns, Placed, Listed, Cleaned
<1>6. Fresh'
  BY <1>1, <1>2 DEF Run, Returns, Fresh
<1> QED BY <1>4, <1>5, <1>6

-----------------------------------------------------------------------------
LEMMA NextInv == IInv /\ [AppsNext]_appsVars => IInv'
<1> SUFFICES ASSUME IInv, [AppsNext]_appsVars PROVE IInv'
  OBVIOUS
<1>1. CASE UNCHANGED appsVars
  BY <1>1 DEF appsVars, IInv, Types, Placed, Listed, Cleaned, Fresh, Visible, Entries
<1>2. CASE \E r \in Requests : AppsBegin(r)
  BY <1>2, AppsBeginStep
<1>3. CASE NoConnection \/ CleanWakes
  BY <1>3, EndStep
<1>4. CASE AppsThread
  BY <1>4, ThreadStep
<1>5. CASE AppsMain
  <2>1. CASE CleanMissing
    BY <2>1, EndStep
  <2>2. CASE CleanStart
    BY <2>2, CleanStartStep
  <2>3. CASE \E n \in Names : CleanRemove(n)
    BY <2>3, CleanRemoveStep
  <2>4. CASE CleanWait
    BY <2>4, CleanWaitStep
  <2>5. CASE CleanLeave
    BY <2>5, CleanLeaveStep
  <2>6. CASE InstallFails \/ Install
    BY <2>6, InstallStep
  <2>7. CASE Run
    BY <2>7, RunStep
  <2> QED BY <1>5, <2>1, <2>2, <2>3, <2>4, <2>5, <2>6, <2>7 DEF AppsMain
<1> QED BY <1>1, <1>2, <1>3, <1>4, <1>5 DEF AppsNext

LEMMA Inductive == AppsSpec => []IInv
<1> QED BY InitInv, NextInv, PTL DEF AppsSpec

(***************************************************************************)
(* app.clean lists what it removed, removes what is visible, and nothing   *)
(* that is hidden (Application.cpp:562-633).                               *)
(***************************************************************************)
THEOREM CleanIsSound == AppsSpec => []CleanSound
<1>1. IInv => CleanSound
  BY DEF IInv, Listed, Cleaned, CleanSound
<1> QED BY <1>1, Inductive, PTL

(***************************************************************************)
(* app.install:run=true runs what it installed (Application.cpp:339-364).  *)
(***************************************************************************)
THEOREM InstalledIsRun == AppsSpec => []RanInstalled
<1>1. IInv => RanInstalled
  BY DEF IInv, Fresh, RanInstalled
<1> QED BY <1>1, Inductive, PTL

-----------------------------------------------------------------------------
\* Packages.

\* An archive of those files, or a part of one that is known not to be whole.
Holds(archive, files) ==
  /\ archive \in Archives /\ archive.files \subseteq files
  /\ archive.whole => archive.files = files

Done == (stage = "destroy" /\ ~failed) \/ (stage = "idle" /\ reply = "success")

\* Which commands may be where.
Staged ==
  /\ stage \in {"idle", "list", "gather", "seal", "hash", "write", "download", "extract",
                "decrypt", "run", "destroy"}
  /\ failed \in BOOLEAN /\ wanted \in SUBSET Sources
  /\ package \in Archives \cup {Missing} /\ product \in Archives \cup {Missing}
  /\ stage \in {"list", "gather", "seal", "hash", "write"} => asked \in PackRequests
  /\ stage \in {"download", "extract", "decrypt", "run"} =>
       /\ asked \in InstallRequests \cup DeployRequests
       /\ sdk = {}

\* From the source to the destination, no file is lost without an error.
Packing ==
  /\ stage = "list" => temp = {}
  /\ stage = "gather" =>
       temp \cup pending \subseteq wanted /\ (~failed => temp \cup pending = wanted)
  /\ stage \in {"seal", "hash", "write"} => ~failed /\ Holds(product, wanted)
  /\ stage = "seal" => ~product.sealed
  /\ stage \in {"hash", "write"} => product.sealed = asked.sblob
  /\ stage = "write" => digest = product
  /\ asked.op \in {"pack", "archive"} /\ Done =>
       package = digest /\ Holds(package, wanted) /\ package.sealed = asked.sblob

\* From the hash to the files that are extracted.
Installing ==
  /\ shown # Missing => Holds(shown, packed)
  /\ stage \in {"decrypt", "run"} =>
       /\ product \in Archives /\ ~asked.dryrun
       /\ asked.hash => Holds(product, packed)
  /\ asked.op = "compiler" /\ asked.hash =>
       /\ sdk \subseteq packed
       /\ Done /\ ~asked.dryrun /\ ~halted => sdk = packed

PInv == Staged /\ Packing /\ Installing

(***************************************************************************)
(* A part of an archive is not whole.                                      *)
(***************************************************************************)
LEMMA CutHolds ==
  ASSUME NEW archive \in Archives, NEW part \in Cut(archive)
  PROVE  /\ part \in Archives /\ ~part.whole
         /\ part.files \subseteq archive.files /\ part.sealed = archive.sealed
BY DEF Cut, Archives

(***************************************************************************)
(* A command is asked for, or refused, between two others.                 *)
(***************************************************************************)
LEMMA PackagesBeginStep ==
  ASSUME PInv,
         \/ \E r \in PackRequests : BeginPack(r)
         \/ \E r \in InstallRequests \cup DeployRequests : BeginInstall(r)
         \/ Refused
  PROVE  PInv'
<1>1. CASE \E r \in PackRequests : BeginPack(r)
  BY <1>1 DEF BeginPack, BeginsPackager, PInv, Staged, Packing, Installing, Done, Holds,
              PackRequests
<1>2. CASE \E r \in InstallRequests \cup DeployRequests : BeginInstall(r)
  BY <1>2 DEF BeginInstall, BeginsPackager, PInv, Staged, Packing, Installing, Done, Holds,
              InstallRequests, DeployRequests
<1>3. CASE Refused
  BY <1>3 DEF Refused, PInv, Staged, Packing, Installing, Done, Holds
<1> QED BY <1>1, <1>2, <1>3

LEMMA ConvertStep ==
  ASSUME PInv, NEW r \in ConvertRequests, Convert(r)
  PROVE  PInv'
<1> DEFINE made == [package EXCEPT !.sealed = ~r.extract,
                                   !.keyed = ~r.extract /\ ~r.key]
<1>1. package \in Archives /\ r.op = "convert"
  BY DEF PInv, Staged, Convert, ConvertRequests
<1>2. made \in Archives
  BY <1>1 DEF Archives, ConvertRequests
<1>3. package' \in Archives
  BY <1>1, <1>2, CutHolds DEF Convert
<1> QED BY <1>1, <1>3
    DEF Convert, PInv, Staged, Packing, Installing, Done, Holds

(***************************************************************************)
(* Up to the destination (Packager::publish, os.pack, fs.archive).         *)
(***************************************************************************)
LEMMA PackStep ==
  ASSUME PInv, List \/ (\E f \in Sources : Gather(f)) \/ Archive \/ Seal \/ HashProduct
  PROVE  PInv'
<1>1. asked \in PackRequests /\ asked.op \in {"pack", "archive"} /\ asked.sblob \in BOOLEAN
  BY DEF PInv, Staged, List, Gather, Archive, Seal, HashProduct, PackRequests
<1>2. CASE List
  <2>1. /\ stage = "list" /\ stage' = "gather" /\ temp' = {} /\ wanted' \in SUBSET Sources
        /\ pending' \subseteq wanted' /\ failed' \in BOOLEAN
        /\ ~failed' => pending' = wanted'
    BY <1>2 DEF List, Entered, PInv, Staged, Packing
  <2> QED BY <1>1, <1>2, <2>1 DEF List, PInv, Staged, Packing, Installing, Done, Holds
<1>3. CASE \E f \in Sources : Gather(f)
  BY <1>1, <1>3 DEF Gather, PInv, Staged, Packing, Installing, Done, Holds
<1>4. CASE Archive
  <2> DEFINE made == [files |-> temp, whole |-> TRUE, sealed |-> FALSE, keyed |-> FALSE]
  <2>1. CASE failed'
    BY <1>1, <1>4, <2>1 DEF Archive, PInv, Staged, Packing, Installing, Done, Holds
  <2>2. CASE ~failed'
    <3>1. ~failed /\ product' \in {made} \cup Cut(made) /\ stage' = "seal"
      BY <1>4, <2>2 DEF Archive
    <3>2. temp = wanted /\ made \in Archives
      BY <1>4, <3>1 DEF Archive, PInv, Staged, Packing, Archives
    <3>3. Holds(product', wanted) /\ ~product'.sealed /\ product' \in Archives
      <4>1. CASE product' = made
        BY <3>2, <4>1 DEF Holds
      <4>2. CASE product' \in Cut(made)
        <5>1. /\ product' \in Archives /\ ~product'.whole
              /\ product'.files \subseteq made.files /\ product'.sealed = made.sealed
          BY <3>2, <4>2, CutHolds
        <5> QED BY <3>2, <5>1 DEF Holds
      <4> QED BY <3>1, <4>1, <4>2
    <3> QED BY <1>1, <1>4, <2>2, <3>1, <3>3
        DEF Archive, PInv, Staged, Packing, Installing, Done, Holds
  <2> QED BY <2>1, <2>2
<1>5. CASE Seal
  <2>1. CASE stage' = "destroy"
    BY <1>1, <1>5, <2>1 DEF Seal, PInv, Staged, Packing, Installing, Done, Holds
  <2>2. CASE stage' = "hash"
    <3>1. /\ stage = "seal" /\ product \in Archives /\ ~product.sealed
          /\ Holds(product, wanted) /\ failed' = failed
      BY <1>5, <2>2 DEF Seal, PInv, Packing, Holds
    <3>2. product' \in Archives /\ product'.sealed = asked.sblob
          /\ product'.files = product.files /\ product'.whole = product.whole
      BY <1>1, <1>5, <2>2, <3>1 DEF Seal, Archives
    <3> QED BY <1>1, <1>5, <2>2, <3>1, <3>2
        DEF Seal, PInv, Staged, Packing, Installing, Done, Holds
  <2> QED BY <1>5, <2>1, <2>2 DEF Seal
<1>6. CASE HashProduct
  <2>1. /\ stage = "hash" /\ product' = product /\ failed' \in BOOLEAN
        /\ \/ stage' = "write" /\ digest' = product /\ failed' = failed
           \/ stage' = "destroy" /\ failed'
    BY <1>6 DEF HashProduct, PInv, Staged
  <2>2. Staged'
    BY <1>1, <1>6, <2>1 DEF HashProduct, PInv, Staged
  <2>3. Packing'
    BY <1>1, <1>6, <2>1 DEF HashProduct, PInv, Packing, Done, Holds
  <2>4. Installing'
    BY <1>1, <1>6, <2>1 DEF HashProduct, PInv, Installing, Holds
  <2> QED BY <2>2, <2>3, <2>4 DEF PInv
<1> QED BY <1>2, <1>3, <1>4, <1>5, <1>6

LEMMA WriteStep ==
  ASSUME PInv, Write
  PROVE  PInv'
<1>1. /\ asked.op \in {"pack", "archive"} /\ stage = "write" /\ stage' = "destroy"
      /\ digest = product /\ Holds(product, wanted) /\ product.sealed = asked.sblob
      /\ ~failed
  BY DEF PInv, Staged, Packing, Write, PackRequests
<1>2. shown' # Missing => Holds(shown', packed')
  BY <1>1 DEF Write, PInv, Installing
<1>3. package' \in Archives \cup {Missing}
  BY <1>1, CutHolds DEF Write, PInv, Staged, Holds
<1>4. Staged'
  BY <1>1, <1>3 DEF Write, PInv, Staged
<1>5. Packing'
  BY <1>1 DEF Write, PInv, Staged, Packing, Done, Holds
<1>6. Installing'
  BY <1>1, <1>2 DEF Write, Installing
<1> QED BY <1>4, <1>5, <1>6 DEF PInv

(***************************************************************************)
(* From the url to the destination (Packager::deploy).                     *)
(***************************************************************************)
LEMMA DownloadStep ==
  ASSUME PInv, Download
  PROVE  PInv'
<1>1. Offered \ {Missing} \subseteq Archives
  BY CutHolds DEF Offered, Others, PInv, Staged, Archives
<1>2. asked.op \in {"compiler", "deploy"} /\ asked \in InstallRequests \cup DeployRequests
  BY DEF Download, PInv, Staged, InstallRequests, DeployRequests
<1> QED BY <1>1, <1>2 DEF Download, PInv, Staged, Packing, Installing, Done, Holds

LEMMA CheckHashStep ==
  ASSUME PInv, CheckHash
  PROVE  PInv'
<1>1. /\ asked.op \in {"compiler", "deploy"} /\ asked \in InstallRequests \cup DeployRequests
      /\ asked.hash \in BOOLEAN /\ asked.dryrun \in BOOLEAN /\ stage = "extract"
  BY DEF CheckHash, PInv, Staged, InstallRequests, DeployRequests
<1>2. CASE stage' = "destroy"
  BY <1>1, <1>2 DEF CheckHash, Extracts, PInv, Staged, Packing, Installing, Done, Holds
<1>3. CASE stage' = "decrypt"
  <2>1. /\ ~failed' /\ ~asked.dryrun /\ product \in Archives /\ product' = product
        /\ asked.hash => product = shown
    BY <1>1, <1>3 DEF CheckHash, Extracts, PInv, Staged
  <2>2. asked.hash => Holds(product, packed)
    BY <2>1 DEF PInv, Staged, Installing, Missing, Archives
  <2> QED BY <1>1, <1>3, <2>1, <2>2
      DEF CheckHash, Extracts, PInv, Staged, Packing, Installing, Done, Holds
<1> QED BY <1>1, <1>2, <1>3 DEF CheckHash, Extracts

LEMMA DecryptStep ==
  ASSUME PInv, Decrypt
  PROVE  PInv'
<1>1. /\ asked.op \in {"compiler", "deploy"} /\ asked \in InstallRequests \cup DeployRequests
      /\ stage = "decrypt" /\ product \in Archives /\ asked.hash \in BOOLEAN
  BY DEF Decrypt, PInv, Staged, Installing, InstallRequests, DeployRequests
<1>2. CASE stage' = "destroy"
  BY <1>1, <1>2 DEF Decrypt, Extracts, PInv, Staged, Packing, Installing, Done, Holds
<1>3. CASE stage' = "run"
  <2>1. /\ product' \in Archives
        /\ \/ product'.files = product.files /\ product'.whole = product.whole
           \/ product'.files = {} /\ ~product'.whole
    BY <1>1, <1>3 DEF Decrypt, Extracts, Archives
  <2> QED BY <1>1, <1>3, <2>1
      DEF Decrypt, Extracts, PInv, Staged, Packing, Installing, Done, Holds
<1> QED BY <1>2, <1>3 DEF Decrypt, Extracts

LEMMA RunArchiveStep ==
  ASSUME PInv, RunArchive
  PROVE  PInv'
<1>1. /\ asked.op \in {"compiler", "deploy"} /\ asked.hash \in BOOLEAN
      /\ stage = "run" /\ stage' = "destroy" /\ product \in Archives
  BY DEF RunArchive, PInv, Staged, Installing, InstallRequests, DeployRequests
<1> QED BY <1>1 DEF RunArchive, PInv, Staged, Packing, Installing, Done, Holds

LEMMA DestroyStep ==
  ASSUME PInv, Destroy
  PROVE  PInv'
BY DEF Destroy, PInv, Staged, Packing, Installing, Done, Holds

-----------------------------------------------------------------------------
LEMMA PackagesInductive == PackagesSpec => []PInv
<1>1. PackagesInit => PInv
  BY DEF PackagesInit, PInv, Staged, Packing, Installing, Done
<1>2. PInv /\ [PackagesNext]_packagesVars => PInv'
  <2> SUFFICES ASSUME PInv, [PackagesNext]_packagesVars PROVE PInv'
    OBVIOUS
  <2>1. CASE UNCHANGED packagesVars
    BY <2>1 DEF packagesVars, PInv, Staged, Packing, Installing, Done, Holds
  <2>2. CASE PackagesNext
    BY <2>2, PackagesBeginStep, ConvertStep, PackStep, WriteStep, DownloadStep,
       CheckHashStep, DecryptStep, RunArchiveStep, DestroyStep DEF PackagesNext
  <2> QED BY <2>1, <2>2
<1> QED BY <1>1, <1>2, PTL DEF PackagesSpec

(***************************************************************************)
(* What os.pack and fs.archive write is what they were asked to pack, and  *)
(* what the hash is of (Packager.cpp:36-187).                              *)
(***************************************************************************)
THEOREM PackageIsSound == PackagesSpec => []PackageSound
<1>1. PInv => PackageSound
  BY DEF PInv, Packing, Done, Holds, PackageSound
<1> QED BY <1>1, PackagesInductive, PTL

(***************************************************************************)
(* Under the hash of a package nothing but its files is extracted, and all *)
(* of them unless a tool stopped early (Packager.cpp:253-371).             *)
(***************************************************************************)
THEOREM InstalledIsPacked == PackagesSpec => []InstalledAsPacked
<1>1. PInv => InstalledAsPacked
  BY DEF PInv, Installing, Done, InstalledAsPacked
<1> QED BY <1>1, PackagesInductive, PTL

-----------------------------------------------------------------------------
\* Threads of one process have one name.
Uniform ==
  /\ tasks \in [Threads -> [pid : Pids, name : Applications] \cup {NoTask}]
  /\ \A t, u \in Threads :
       tasks[t] # NoTask /\ tasks[u] # NoTask /\ tasks[t].pid = tasks[u].pid
         => tasks[t].name = tasks[u].name

\* What target stands for between lookup and signal.
Aimed ==
  sending = "kill" =>
    \/ signal.id # 0
    \/ signal.name = NoName /\ target = signal.pid
    \/ signal.name # NoName
       /\ \/ moved
          \/ \A t \in Threads : tasks[t] # NoTask /\ tasks[t].pid = target
                                => tasks[t].name = signal.name

SInv ==
  /\ Uniform /\ Aimed /\ SignalSound
  /\ signal.name \in Applications \cup {NoName}
  /\ sending \in {"idle", "target", "kill"}
  /\ sending # "idle" => returned = "none"
  /\ returned = "none" => hit = {}

(***************************************************************************)
(* What starts, exits or is unplugged either is not the target, or is      *)
(* remembered in moved.                                                    *)
(***************************************************************************)
LEMMA TasksStep ==
  ASSUME SInv,
         \/ Unplug
         \/ \E t \in Threads : ExitThread(t)
                               \/ \E p \in Pids, n \in Applications : StartThread(t, p, n)
  PROVE  SInv'
<1>1. CASE Unplug
  <2>1. Uniform'
    BY <1>1 DEF Unplug, Uniform
  <2>2. Aimed'
    BY <1>1 DEF Unplug, Aimed, SInv
  <2> QED BY <1>1, <2>1, <2>2 DEF Unplug, SInv, SignalSound
<1>2. ASSUME NEW t \in Threads, ExitThread(t) PROVE SInv'
  <2>1. \A u \in Threads : tasks'[u] = IF u = t THEN NoTask ELSE tasks[u]
    BY <1>2 DEF ExitThread, SInv, Uniform
  <2>2. Uniform'
    BY <1>2, <2>1 DEF ExitThread, SInv, Uniform
  <2>3. Aimed'
    BY <1>2, <2>1 DEF ExitThread, Moved, SInv, Aimed
  <2>4. SignalSound'
    BY <1>2 DEF ExitThread, Moved, SInv, SignalSound
  <2> QED BY <1>2, <2>2, <2>3, <2>4 DEF ExitThread, SInv
<1>3. ASSUME NEW t \in Threads, NEW p \in Pids, NEW n \in Applications,
             StartThread(t, p, n)
      PROVE  SInv'
  <2>1. \A u \in Threads :
          tasks'[u] = IF u = t THEN [pid |-> p, name |-> n] ELSE tasks[u]
    BY <1>3 DEF StartThread, SInv, Uniform
  <2>2. \A u \in Threads : tasks[u].pid = p => tasks[u].name = n
    BY <1>3 DEF StartThread
  <2>3. Uniform'
    <3>1. tasks' \in [Threads -> [pid : Pids, name : Applications] \cup {NoTask}]
      BY <1>3 DEF StartThread, SInv, Uniform
    <3> QED BY <2>1, <2>2, <3>1 DEF SInv, Uniform
  <2>4. Aimed'
    <3>1. CASE sending = "kill" /\ p = target
      <4>1. moved'
        BY <1>3, <3>1 DEF StartThread, Moved
      <4> QED BY <1>3, <3>1, <4>1 DEF StartThread, SInv, Aimed
    <3>2. CASE sending = "kill" /\ p # target
      <4>1. \A u \in Threads : tasks'[u] # NoTask /\ tasks'[u].pid = target
                               => tasks[u] # NoTask /\ tasks'[u] = tasks[u]
        BY <2>1, <3>2
      <4>2. moved' <=> moved
        BY <1>3, <3>2 DEF StartThread, Moved
      <4> QED BY <1>3, <3>2, <4>1, <4>2 DEF StartThread, SInv, Aimed
    <3>3. CASE sending # "kill"
      BY <1>3, <3>3 DEF StartThread, Aimed
    <3> QED BY <3>1, <3>2, <3>3
  <2>5. SignalSound'
    BY <1>3 DEF StartThread, Moved, SInv, SignalSound
  <2> QED BY <1>3, <2>3, <2>4, <2>5 DEF StartThread, SInv
<1> QED BY <1>1, <1>2, <1>3

(***************************************************************************)
(* The lookup aims at a process of the name, the signal goes where target  *)
(* says.                                                                   *)
(***************************************************************************)
LEMMA SignalStep ==
  ASSUME SInv,
         SignalTarget \/ SignalKill \/ \E s \in Signals : SignalBegin(s) \/ SignalNotReady(s)
  PROVE  SInv'
<1> USE DEF SInv
<1>1. ASSUME NEW s \in Signals, SignalBegin(s) \/ SignalNotReady(s) PROVE SInv'
  <2>1. s.name \in Applications \cup {NoName}
    BY DEF Signals
  <2> QED BY <1>1, <2>1
      DEF SignalBegin, SignalNotReady, SignalReturn, Uniform, Aimed, SignalSound
<1>2. CASE SignalTarget
  <2>1. Uniform' /\ SignalSound'
    BY <1>2 DEF SignalTarget, SignalFails, SignalReturn, Uniform, SignalSound
  <2>2. Aimed'
    <3>1. CASE signal.name = NoName
      BY <1>2, <3>1 DEF SignalTarget, SignalFails, SignalReturn, Aimed
    <3>2. CASE signal.name # NoName /\ sending' = "kill"
      <4>1. PICK t \in Threads : tasks[t].name = signal.name /\ target' = tasks[t].pid
        BY <1>2, <3>2 DEF SignalTarget, SignalFails, SignalReturn
      <4>2. tasks[t] # NoTask
        BY <3>2, <4>1 DEF NoTask
      <4>3. \A u \in Threads : tasks[u] # NoTask /\ tasks[u].pid = target'
                               => tasks[u].name = signal.name
        BY <4>1, <4>2 DEF Uniform
      <4> QED BY <1>2, <3>2, <4>3 DEF SignalTarget, Aimed
    <3>3. CASE sending' # "kill"
      BY <3>3 DEF Aimed
    <3> QED BY <3>1, <3>2, <3>3
  <2> QED BY <1>2, <2>1, <2>2 DEF SignalTarget, SignalFails, SignalReturn
<1>3. CASE SignalKill
  <2>1. Uniform' /\ Aimed'
    BY <1>3 DEF SignalKill, SignalFails, SignalReturn, Uniform, Aimed
  <2>2. ASSUME NEW h \in hit'
        PROVE  \/ signal.id # 0 /\ h.thread = signal.id
               \/ signal.id = 0 /\ signal.name # NoName
                  /\ (h.task.name = signal.name \/ moved)
               \/ signal.id = 0 /\ signal.pid # 0 /\ h.task.pid = signal.pid
    <3>1. PICK t \in Reached : h = [thread |-> t, task |-> tasks[t]]
      BY <1>3, <2>2 DEF SignalKill
    <3>2. /\ sending = "kill" /\ h.thread = t /\ h.task = tasks[t] /\ tasks[t] # NoTask
          /\ signal.id # 0 => t = signal.id
          /\ signal.id = 0 => tasks[t].pid = target
      BY <1>3, <3>1 DEF SignalKill, Reached
    <3>3. tasks[t].pid # 0
      <4>1. tasks[t] \in [pid : Pids, name : Applications]
        BY <3>1, <3>2 DEF Reached, Uniform
      <4> QED BY <4>1, SignalsAssumption
    <3> QED BY <3>1, <3>2, <3>3 DEF Reached, Aimed
  <2>3. returned' = "true" => hit' # {}
    BY <1>3 DEF SignalKill, SignalFails, SignalReturn
  <2>4. SignalSound'
    BY <1>3, <2>2, <2>3 DEF SignalKill, SignalSound
  <2> QED BY <1>3, <2>1, <2>4 DEF SignalKill, SignalFails, SignalReturn
<1> QED BY <1>1, <1>2, <1>3

(***************************************************************************)
(* A signal reaches a thread or a process that was asked for, however      *)
(* processes start and exit meanwhile, unless one takes over a pid that    *)
(* was looked up (groups/Task.cpp:416-562).                                *)
(***************************************************************************)
THEOREM SignalIsSound == SignalsSpec => []SignalSound
<1>1. SignalsInit => SInv
  BY DEF SignalsInit, SInv, Uniform, Aimed, SignalSound
<1>2. SInv /\ [SignalsNext]_signalVars => SInv'
  <2> SUFFICES ASSUME SInv, [SignalsNext]_signalVars PROVE SInv'
    OBVIOUS
  <2>1. CASE Disconnect \/ (\E m \in {"os", "bootloader"} : Attach(m)) \/ UNCHANGED signalVars
    BY <2>1 DEF Disconnect, Attach, signalVars, SInv, Uniform, Aimed, SignalSound
  <2> QED BY <2>1, TasksStep, SignalStep DEF SignalsNext
<1>3. SInv => SignalSound
  BY DEF SInv
<1> QED BY <1>1, <1>2, <1>3, PTL DEF SignalsSpec

-----------------------------------------------------------------------------
\* What a search has chosen fits, and what it has passed does not.
Choosing ==
  Searched /\ phase \in {"import", "install"} =>
    chosen \in Projects /\ (chosen \in edited \/ Fits(document[chosen]))

Passed ==
  phase = "search" /\ ~ broken =>
    \A f \in Projects \ edited : f \in todo \/ ~ Fits(document[f])

\* cloud.install has the device that it asks the installer to update.
Linked ==
  /\ phase # "idle" => install.op \in {"os", "cloud"}
  /\ phase \notin {"idle", "check"} /\ install.op = "cloud" /\ NeedsDevice(install)
       => connected # NoBoard

NInv ==
  /\ document \in [Projects -> Documents] /\ broken \in BOOLEAN
  /\ phase \in {"idle", "check", "search", "import", "install"}
  /\ todo \subseteq Projects
  /\ phase # "idle" => result = "none"
  /\ result = "none" => order = NothingOrdered
  /\ Choosing /\ Passed /\ Linked /\ InstallSound

(***************************************************************************)
(* An edit excuses its folder.                                             *)
(***************************************************************************)
LEMMA EditStep ==
  ASSUME NInv, NEW f \in Projects, NEW d \in Documents, Edit(f, d)
  PROVE  NInv'
<1>1. /\ document' \in [Projects -> Documents]
      /\ \A g \in Projects : g # f => document'[g] = document[g]
      /\ edited' = edited \cup {f}
  BY DEF Edit, NInv
<1>2. Choosing' /\ PackageFits'
  BY <1>1 DEF Edit, NInv, InstallSound, Choosing, PackageFits, Searched, Fits
<1>3. Passed' /\ PackageFound'
  BY <1>1 DEF Edit, NInv, InstallSound, Passed, PackageFound, Fits
<1>4. Linked' /\ UpdatesDevice'
  BY DEF Edit, NInv, InstallSound, Linked, UpdatesDevice, NeedsDevice
<1> QED BY <1>1, <1>2, <1>3, <1>4 DEF Edit, NInv, InstallSound

(***************************************************************************)
(* The steps of the search: an entry is chosen or passed, or none is left. *)
(***************************************************************************)
LEMMA SearchStep ==
  ASSUME NInv, NotFound \/ \E f \in Projects : Search(f)
  PROVE  NInv'
<1> USE DEF NInv, InstallSound
<1>1. CASE NotFound
  <2>1. Linked' /\ UpdatesDevice'
    BY <1>1 DEF NotFound, InstallReturn, Linked, UpdatesDevice, NothingOrdered
  <2> QED BY <1>1, <2>1 DEF NotFound, InstallReturn, Choosing, Passed, PackageFits,
                            PackageFound, Searched, Fits, NothingOrdered
<1>2. ASSUME NEW f \in Projects, Search(f) PROVE NInv'
  <2>1. Choosing' /\ PackageFits'
    BY <1>2 DEF Search, Choosing, PackageFits, Searched, Fits, NothingOrdered
  <2>2. Passed'
    BY <1>2 DEF Search, Passed, Fits
  <2>3. Linked' /\ UpdatesDevice'
    BY <1>2 DEF Search, Linked, UpdatesDevice, NothingOrdered
  <2> QED BY <1>2, <2>1, <2>2, <2>3 DEF Search, PackageFound
<1> QED BY <1>1, <1>2

(***************************************************************************)
(* The steps before and after it.                                          *)
(***************************************************************************)
InstallingNext ==
  \/ \E r \in Installs : InstallBegin(r)
  \/ InstallStops \/ Check \/ Import \/ RunInstaller

LEMMA InstallingStep == NInv /\ InstallingNext => NInv'
<1> SUFFICES ASSUME NInv, InstallingNext PROVE NInv'
  OBVIOUS
<1>1. ASSUME NEW r \in Installs, InstallBegin(r) PROVE NInv'
  BY <1>1 DEF Installs, NInv, InstallSound, InstallBegin, Choosing, Passed, Linked, PackageFits,
              PackageFound, UpdatesDevice, NothingOrdered
<1>2. CASE InstallStops
  <2>1. /\ phase # "idle" /\ phase' = "idle" /\ result' = "failure"
        /\ UNCHANGED <<document, todo, broken, order>>
    BY <1>2 DEF InstallStops, InstallReturn
  <2> QED BY <2>1 DEF NInv, InstallSound, Choosing, Passed, Linked, PackageFits,
                      PackageFound, UpdatesDevice, NothingOrdered
<1>3. CASE Check
  <2>1. \A f \in Projects : document[f] = Absent => ~ Fits(document[f])'
    BY <1>3 DEF Check, Fits, Absent
  <2>2. todo' \subseteq Projects /\ Passed'
    BY <1>3, <2>1 DEF NInv, Check, Passed
  <2>3. PackageFits' /\ PackageFound' /\ UpdatesDevice'
    BY <1>3 DEF NInv, Check, PackageFits, PackageFound, UpdatesDevice, NothingOrdered
  <2>4. ~ (Searched' /\ phase' \in {"import", "install"})
    BY <1>3, InstallAssumption DEF Check, Searched, NoPath, Image
  <2>5. Choosing'
    BY <2>4 DEF Choosing
  <2>6. Linked'
    BY <1>3 DEF NInv, Check, Linked, NeedsDevice
  <2> QED BY <1>3, <2>2, <2>3, <2>5, <2>6 DEF NInv, InstallSound, Check
<1>4. CASE Import
  <2>1. Linked' /\ UpdatesDevice'
    BY <1>4, InstallAssumption
    DEF NInv, InstallSound, Import, Linked, UpdatesDevice, NeedsDevice, NothingOrdered
  <2> QED BY <1>4, <2>1 DEF NInv, InstallSound, Import, Choosing, Passed, PackageFits,
                            PackageFound, Searched, Fits, NothingOrdered
<1>5. CASE RunInstaller
  <2>1. UpdatesDevice'
    BY <1>5 DEF NInv, RunInstaller, InstallReturn, Linked, UpdatesDevice, NeedsDevice
  <2> QED BY <1>5, <2>1 DEF NInv, InstallSound, RunInstaller, InstallReturn, Choosing, Passed,
                            Linked, PackageFits, PackageFound, Searched, Fits
<1> QED BY <1>1, <1>2, <1>3, <1>4, <1>5 DEF InstallingNext

(***************************************************************************)
(* os.install without a path finds an OS of the connected device that is   *)
(* there, installs that or a project that was edited after it was chosen,  *)
(* and cloud.install updates a device only that is connected               *)
(* (groups/Bsp.cpp:236-343, groups/Cloud.cpp:858-912).                     *)
(***************************************************************************)
THEOREM InstallIsSound == InstallSpec => []InstallSound
<1>1. InstallInit => NInv
  <2> SUFFICES ASSUME InstallInit PROVE NInv
    OBVIOUS
  <2>1. Choosing /\ Passed /\ Linked /\ PackageFits /\ PackageFound /\ UpdatesDevice
    BY DEF InstallInit, Choosing, Passed, Linked, PackageFits, PackageFound, UpdatesDevice,
           NothingOrdered
  <2> QED BY <2>1 DEF InstallInit, NInv, InstallSound
<1>2. NInv /\ [InstallNext]_installVars => NInv'
  <2> SUFFICES ASSUME NInv, [InstallNext]_installVars PROVE NInv'
    OBVIOUS
  <2>1. CASE UNCHANGED installVars \/ \E b \in Boards \cup {NoBoard} : Plug(b)
    BY <2>1 DEF installVars, Plug, NInv, InstallSound, Choosing, Passed, Linked, PackageFits,
                PackageFound, UpdatesDevice, NeedsDevice, Searched, Fits
  <2>2. CASE \E f \in Projects : \E d \in Documents : Edit(f, d)
    BY <2>2, EditStep
  <2>3. CASE NotFound \/ \E f \in Projects : Search(f)
    BY <2>3, SearchStep
  <2>4. CASE InstallingNext
    BY <2>4, InstallingStep
  <2>5. \/ UNCHANGED installVars \/ \E b \in Boards \cup {NoBoard} : Plug(b)
        \/ \E f \in Projects : \E d \in Documents : Edit(f, d)
        \/ NotFound \/ \E f \in Projects : Search(f)
        \/ InstallingNext
    BY DEF InstallNext, InstallingNext
  <2> QED BY <2>1, <2>2, <2>3, <2>4, <2>5
<1>3. NInv => InstallSound
  BY DEF NInv
<1> QED BY <1>1, <1>2, <1>3, PTL DEF InstallSpec

-----------------------------------------------------------------------------
(***************************************************************************)
(* Transfer.                                                               *)
(***************************************************************************)
TransferTypes ==
  /\ task \in Tasks /\ written \in Nat
  /\ from \in Seq(Bytes) /\ to \in Seq(Bytes) /\ was \in Seq(Bytes)
  /\ step \in {"open", "header", "data", "pages", "end", "hash", "idle"}
  /\ outcome \in {"none", "failure", "success"}

\* Which commands may be where.
Stages ==
  /\ step = "open" => written = 0 /\ to = was
  /\ step \in {"header", "data"} => task.op = "bundle"
  /\ step \in {"pages", "end", "hash"} => task.op # "bundle"
  /\ step = "end" => task.op = "blank" /\ written = Asked
  /\ step = "hash" => task.op = "download"
  /\ outcome # "none" => step = "idle"

\* What fs.write has not come to is as it was.
Around ==
  task.op \in {"write", "blank"} =>
    /\ written <= Asked
    /\ Len(to) >= Len(was)
    /\ \A i \in Nat : i >= 1 /\ i <= Len(was)
                      /\ (i <= task.location \/ i > task.location + written)
         => to[i] = was[i]

\* Where a command puts what is available, and what it has put there.
Put(off) ==
  /\ written <= Len(Available)
  /\ written > 0 => Len(to) >= off + written
  /\ \A i, j \in Nat : i >= 1 /\ i <= written /\ j = off + i => to[j] = Available[i]

Copied ==
  /\ task.op = "write" => Put(task.location)
  /\ task.op = "read" /\ (step = "pages" \/ outcome = "success") => Put(0) /\ Len(to) = written
  /\ task.op = "append" =>
       /\ Put(Len(was)) /\ Len(to) = Len(was) + written
       /\ \A i \in Nat : i >= 1 /\ i <= Len(was) => to[i] = was[i]

\* On an erased destination, blank pages are there already.
Filled ==
  task.op = "blank" /\ Erased /\ Len(was) >= task.location + Asked /\ Asked <= Len(from) =>
    \A i, j \in Nat : i >= 1 /\ i <= written /\ j = task.location + i => to[j] = from[i]

\* A command that succeeds has come to the end.
Complete ==
  outcome = "success" =>
    /\ task.op \in {"write", "read", "append"} => written = Len(Available)
    /\ task.op = "blank" /\ Asked <= Len(from) => written = Asked
    /\ task.op = "download" /\ task.hash => to = from

TInv == TransferTypes /\ Stages /\ Around /\ Copied /\ Filled /\ Complete

LEMMA LeastIs ==
  ASSUME NEW a \in Int, NEW b \in Int
  PROVE  /\ Least(a, b) \in Int /\ Least(a, b) <= a /\ Least(a, b) <= b
         /\ Least(a, b) = a \/ Least(a, b) = b
BY DEF Least

(***************************************************************************)
(* What a part of a file is, and a file with something written over it.    *)
(***************************************************************************)
LEMMA PartEnd ==
  ASSUME NEW S, NEW f \in Seq(S), NEW off \in Nat, NEW n \in Nat, NEW end \in Nat,
         end = IF off + n <= Len(f) THEN off + n ELSE Len(f)
  PROVE  /\ Part(f, off, n) \in Seq(S)
         /\ off <= end => Len(Part(f, off, n)) = end - off
         /\ off > end => Len(Part(f, off, n)) = 0
         /\ \A i \in 1..end - (off + 1) + 1 : Part(f, off, n)[i] = f[off + 1 + i - 1]
<1>1. Len(f) \in Nat /\ end <= Len(f)
  BY LenProperties
<1>2. Part(f, off, n) = SubSeq(f, off + 1, end)
  BY <1>1 DEF Least, Part
<1>3. \A i \in off + 1..end : f[i] \in S
  BY <1>1, ElementOfSeq
<1>4. /\ SubSeq(f, off + 1, end) \in Seq(S)
      /\ Len(SubSeq(f, off + 1, end)) = IF off + 1 <= end THEN end - (off + 1) + 1 ELSE 0
      /\ \A i \in 1..end - (off + 1) + 1 : SubSeq(f, off + 1, end)[i] = f[off + 1 + i - 1]
  BY <1>1, <1>3, SubSeqProperties
<1> QED BY <1>1, <1>2, <1>4

LEMMA PartIs ==
  ASSUME NEW S, NEW f \in Seq(S), NEW off \in Nat, NEW n \in Nat
  PROVE  Part(f, off, n) \in Seq(S) /\ Len(Part(f, off, n)) \in Nat
<1>1. PICK end \in Nat : end = IF off + n <= Len(f) THEN off + n ELSE Len(f)
  BY LenProperties
<1>2. Part(f, off, n) \in Seq(S)
  BY <1>1, PartEnd
<1> QED BY <1>2, LenProperties

LEMMA PartLength ==
  ASSUME NEW S, NEW f \in Seq(S), NEW off \in Nat, NEW n \in Nat
  PROVE  Len(Part(f, off, n)) =
           IF off + n <= Len(f) THEN n ELSE IF off <= Len(f) THEN Len(f) - off ELSE 0
<1>1. PICK end \in Nat : end = IF off + n <= Len(f) THEN off + n ELSE Len(f)
  BY LenProperties
<1>2. ASSUME off <= end
      PROVE  Len(Part(f, off, n)) = end - off
  BY <1>1, <1>2, PartEnd
<1>4. ASSUME off > end
      PROVE  Len(Part(f, off, n)) = 0
  BY <1>1, <1>4, PartEnd
<1>3. Len(f) \in Nat
  BY LenProperties
<1> QED BY <1>1, <1>2, <1>3, <1>4

LEMMA PartElement ==
  ASSUME NEW S, NEW f \in Seq(S), NEW off \in Nat, NEW n \in Nat, NEW i \in Nat, NEW j \in Nat,
         i >= 1, i <= Len(Part(f, off, n)), j = off + i
  PROVE  Part(f, off, n)[i] = f[j]
<1>1. PICK end \in Nat : end = IF off + n <= Len(f) THEN off + n ELSE Len(f)
  BY LenProperties
<1>2. /\ off <= end => Len(Part(f, off, n)) = end - off
      /\ off > end => Len(Part(f, off, n)) = 0
  BY <1>1, PartEnd
<1>3. \A k \in 1..end - (off + 1) + 1 : Part(f, off, n)[k] = f[off + 1 + k - 1]
  BY <1>1, PartEnd
<1>4. i \in 1..end - (off + 1) + 1 /\ off + 1 + i - 1 = j
  BY <1>2
<1> QED BY <1>3, <1>4

LEMMA PrefixIs ==
  ASSUME NEW S, NEW f \in Seq(S), NEW n \in Nat
  PROVE  /\ Part(f, 0, n) \in Seq(S)
         /\ Len(Part(f, 0, n)) \in Nat
         /\ Len(Part(f, 0, n)) = IF n <= Len(f) THEN n ELSE Len(f)
         /\ \A i \in Nat : i >= 1 /\ i <= Len(Part(f, 0, n)) => Part(f, 0, n)[i] = f[i]
<1>1. PICK off \in Nat : off = 0
  OBVIOUS
<1>2. Len(f) \in Nat
  BY LenProperties
<1>3. Part(f, off, n) \in Seq(S)
  BY PartIs
<1>4. Len(Part(f, off, n)) \in Nat
  BY PartIs
<1>5. Len(Part(f, off, n)) =
        IF off + n <= Len(f) THEN n ELSE IF off <= Len(f) THEN Len(f) - off ELSE 0
  BY PartLength
<1>7. Len(Part(f, off, n)) = IF n <= Len(f) THEN n ELSE Len(f)
  BY <1>1, <1>2, <1>5
<1>8. ASSUME NEW i \in Nat, i >= 1, i <= Len(Part(f, off, n))
      PROVE  Part(f, off, n)[i] = f[i]
  <2>1. i = off + i
    BY <1>1
  <2> QED BY <1>8, <2>1, PartElement
<1> QED BY <1>1, <1>3, <1>4, <1>7, <1>8

LEMMA PrefixElement ==
  ASSUME NEW S, NEW f \in Seq(S), NEW n \in Nat, NEW i \in Nat, i >= 1, i <= Len(Part(f, 0, n))
  PROVE  Part(f, 0, n)[i] = f[i]
BY PrefixIs

LEMMA OverlayIs ==
  ASSUME NEW S, Zero \in S, NEW f \in Seq(S), NEW off \in Nat, NEW b \in Seq(S)
  PROVE  /\ Overlay(f, off, b) \in Seq(S)
         /\ Len(Overlay(f, off, b)) \in Nat
         /\ Len(Overlay(f, off, b)) >= Len(f)
         /\ b # <<>> => Len(Overlay(f, off, b)) >= off + Len(b)
         /\ \A i \in Nat : i >= 1 /\ i <= Len(f) /\ (i <= off \/ i > off + Len(b))
              => Overlay(f, off, b)[i] = f[i]
         /\ \A i, j \in Nat : i >= 1 /\ i <= Len(b) /\ j = off + i => Overlay(f, off, b)[j] = b[i]
<1>1. Len(f) \in Nat /\ Len(b) \in Nat
  BY LenProperties
<1>2. CASE b = <<>>
  <2>1. Overlay(f, off, b) = f
    BY <1>2 DEF Overlay
  <2>2. Len(b) = 0
    BY <1>2
  <2> QED BY <1>1, <1>2, <2>1, <2>2
<1>3. CASE b # <<>>
  <2> DEFINE n == IF Len(f) > off + Len(b) THEN Len(f) ELSE off + Len(b)
             e(i) == IF i \in off + 1..off + Len(b) THEN b[i - off]
                     ELSE IF i <= Len(f) THEN f[i] ELSE Zero
  <2>1. Overlay(f, off, b) = [i \in 1..n |-> e(i)]
    BY <1>3 DEF Overlay
  <2>2. n \in Nat /\ n >= Len(f) /\ n >= off + Len(b)
    BY <1>1
  <2>3. \A i \in 1..n : e(i) \in S
    <3> TAKE i \in 1..n
    <3>1. CASE i \in off + 1..off + Len(b)
      <4>1. i - off \in 1..Len(b)
        BY <1>1, <3>1
      <4> QED BY <3>1, <4>1, ElementOfSeq
    <3>2. CASE i \notin off + 1..off + Len(b) /\ i <= Len(f)
      <4>1. i \in 1..Len(f)
        BY <1>1, <2>2, <3>2
      <4> QED BY <3>2, <4>1, ElementOfSeq
    <3>3. CASE i \notin off + 1..off + Len(b) /\ ~ i <= Len(f)
      BY <3>3
    <3> QED BY <3>1, <3>2, <3>3
  <2>4. [i \in 1..n |-> e(i)] \in Seq(S) /\ Len([i \in 1..n |-> e(i)]) = n
    <3> HIDE DEF n, e
    <3> QED BY <2>2, <2>3
  <2>5. \A i \in 1..n : Overlay(f, off, b)[i] = e(i)
    BY <2>1
  <2>6. Overlay(f, off, b) \in Seq(S) /\ Len(Overlay(f, off, b)) = n
    <3> HIDE DEF n, e
    <3> QED BY <2>1, <2>4
  <2>7. ASSUME NEW i \in Nat, i >= 1, i <= Len(f), i <= off \/ i > off + Len(b)
        PROVE  Overlay(f, off, b)[i] = f[i]
    <3>1. i \in 1..n /\ i \notin off + 1..off + Len(b)
      BY <1>1, <2>2, <2>7
    <3> QED BY <2>5, <2>7, <3>1
  <2>8. ASSUME NEW i \in Nat, NEW j \in Nat, i >= 1, i <= Len(b), j = off + i
        PROVE  Overlay(f, off, b)[j] = b[i]
    <3>1. j \in 1..n /\ j \in off + 1..off + Len(b) /\ j - off = i
      BY <1>1, <2>2, <2>8
    <3> QED BY <2>5, <3>1
  <2> HIDE DEF n, e
  <2> QED BY <2>2, <2>6, <2>7, <2>8
<1> QED BY <1>2, <1>3

LEMMA OverlayOld ==
  ASSUME NEW S, Zero \in S, NEW f \in Seq(S), NEW off \in Nat, NEW b \in Seq(S),
         NEW i \in Nat, i >= 1, i <= Len(f), i <= off \/ i > off + Len(b)
  PROVE  Overlay(f, off, b)[i] = f[i]
BY OverlayIs

LEMMA OverlayNew ==
  \A off \in Nat : \A f, b \in Seq(Bytes) : \A i \in 1..Len(b) :
    Overlay(f, off, b)[off + i] = b[i]
<1> TAKE off \in Nat
<1> TAKE f, b \in Seq(Bytes)
<1> TAKE i \in 1..Len(b)
<1>1. Len(b) \in Nat
  BY LenProperties
<1>2. PICK j \in Nat : j = off + i
  BY <1>1
<1>3. i \in Nat /\ i >= 1 /\ i <= Len(b)
  BY <1>1
<1>4. Overlay(f, off, b)[j] = b[i]
  BY <1>2, <1>3, OverlayIs, TransferAssumption
<1> QED BY <1>2, <1>4

\* What is appended goes behind.
LEMMA JoinedIs ==
  ASSUME NEW S, NEW f \in Seq(S), NEW b \in Seq(S)
  PROVE  /\ f \o b \in Seq(S)
         /\ Len(f \o b) \in Nat
         /\ Len(f \o b) = Len(f) + Len(b)
         /\ \A i \in Nat : i >= 1 /\ i <= Len(f) => (f \o b)[i] = f[i]
         /\ \A i, j \in Nat : i >= 1 /\ i <= Len(b) /\ j = Len(f) + i => (f \o b)[j] = b[i]
<1>1. Len(f) \in Nat /\ Len(b) \in Nat
  BY LenProperties
<1>2. /\ f \o b \in Seq(S) /\ Len(f \o b) = Len(f) + Len(b)
      /\ \A i \in 1..Len(f) + Len(b) : (f \o b)[i] = IF i <= Len(f) THEN f[i] ELSE b[i - Len(f)]
  BY ConcatProperties
<1>3. ASSUME NEW i \in Nat, i >= 1, i <= Len(f)
      PROVE  (f \o b)[i] = f[i]
  <2>1. i \in 1..Len(f) + Len(b)
    BY <1>1, <1>3
  <2> QED BY <1>2, <1>3, <2>1
<1>4. ASSUME NEW i \in Nat, NEW j \in Nat, i >= 1, i <= Len(b), j = Len(f) + i
      PROVE  (f \o b)[j] = b[i]
  <2>1. j \in 1..Len(f) + Len(b) /\ ~ j <= Len(f) /\ j - Len(f) = i
    BY <1>1, <1>4
  <2> QED BY <1>2, <2>1
<1> QED BY <1>1, <1>2, <1>3, <1>4

LEMMA TaskIs ==
  ASSUME task \in Tasks
  PROVE  /\ task.location \in Nat /\ task.size \in Nat /\ task.page \in Nat /\ task.page >= 1
         /\ task.hash \in BOOLEAN /\ task.asset \in BOOLEAN
         /\ task.op \in {"write", "blank", "read", "append", "download", "bundle"}
<1>1. task \in WriteTasks \/ task \in ReadTasks \/ task \in DownloadTasks \/ task \in BundleTasks
  BY DEF Tasks
<1>2. /\ task.location \in 0..MaxLocation \/ task.location = 0
      /\ task.size \in 0..MaxSize + 1 \/ task.size = 0
      /\ task.page \in PageSizes /\ task.hash \in BOOLEAN /\ task.asset \in BOOLEAN
      /\ task.op \in {"write", "blank", "read", "append", "download", "bundle"}
  <2>1. CASE task \in WriteTasks
    BY <2>1 DEF WriteTasks
  <2>2. CASE task \in ReadTasks
    BY <2>2 DEF ReadTasks
  <2>3. CASE task \in DownloadTasks
    BY <2>3 DEF DownloadTasks
  <2>4. CASE task \in BundleTasks
    BY <2>4 DEF BundleTasks
  <2> QED BY <1>1, <2>1, <2>2, <2>3, <2>4
<1>3. MaxLocation \in Nat /\ MaxSize \in Nat /\ \A p \in PageSizes : p \in Nat /\ p >= 1
  BY TransferAssumption
<1>4. task.location \in Nat
  BY <1>2, <1>3
<1>5. task.size \in Nat
  BY <1>2, <1>3
<1>6. task.page \in Nat /\ task.page >= 1
  BY <1>2, <1>3
<1> QED BY <1>2, <1>4, <1>5, <1>6

LEMMA AvailableIs ==
  ASSUME TransferTypes
  PROVE  /\ Asked \in Nat /\ Len(from) \in Nat /\ Len(to) \in Nat /\ Len(was) \in Nat
         /\ Available \in Seq(Bytes) /\ Len(Available) \in Nat /\ Len(Available) <= Asked
<1>1. Asked \in Nat /\ Len(from) \in Nat /\ Len(to) \in Nat /\ Len(was) \in Nat
  BY TaskIs, LenProperties DEF TransferTypes, Asked
<1>2. First \in Nat /\ from \in Seq(Bytes)
  BY TaskIs DEF TransferTypes, First
<1>3. Part(from, First, Asked) \in Seq(Bytes) /\ Len(Part(from, First, Asked)) \in Nat
  BY <1>1, <1>2, PartIs
<1>4. Len(Part(from, First, Asked)) =
        IF First + Asked <= Len(from) THEN Asked
        ELSE IF First <= Len(from) THEN Len(from) - First ELSE 0
  BY <1>1, <1>2, PartLength
<1>5. Len(Part(from, First, Asked)) <= Asked
  BY <1>1, <1>2, <1>4
<1> QED BY <1>1, <1>3, <1>5 DEF Available

LEMMA AskedStays ==
  ASSUME UNCHANGED <<from, task>>
  PROVE  Asked' = Asked /\ Available' = Available
BY DEF Asked, Available, First, Part, Least

LEMMA TransferInitInv == TransferInit => TInv
<1> SUFFICES ASSUME TransferInit PROVE TInv
  OBVIOUS
<1>1. TransferTypes
  <2>1. UpTo(MaxSize) \subseteq Seq(Bytes)
    BY DEF UpTo
  <2>2. from \in Seq(Bytes) /\ to \in Seq(Bytes)
    <3>1. CASE task.op = "bundle"
      BY <3>1 DEF TransferInit
    <3>2. CASE task.op # "bundle"
      BY <2>1, <3>2 DEF TransferInit
    <3> QED BY <3>1, <3>2
  <2> QED BY <2>2 DEF TransferInit, TransferTypes
<1>2. Stages
  BY DEF TransferInit, Stages
<1>3. Around /\ Copied /\ Filled /\ Complete
  BY <1>1, AvailableIs DEF TransferInit, Around, Copied, Filled, Complete, Put
<1> QED BY <1>1, <1>2, <1>3 DEF TInv

(***************************************************************************)
(* A command begins, ends or fails: what has been moved is not touched.    *)
(***************************************************************************)
LEMMA OpenStep == TInv /\ Open => TInv'
<1> SUFFICES ASSUME TInv, Open PROVE TInv'
  OBVIOUS
<1> USE DEF TInv
<1>1. Asked' = Asked /\ Available' = Available
  BY AskedStays DEF Open
<1>2. TransferTypes'
  BY DEF Open, TransferTypes
<1>3. Stages'
  BY DEF Open, Stages
<1>4. Around' /\ Filled' /\ Complete'
  <2>1. task.op \in {"write", "blank"} => to' = to
    BY DEF Open
  <2>2. outcome' # "success" /\ written' = written /\ written = 0
    BY DEF Open, Stages
  <2>3. Around'
    BY <1>1, <2>1, <2>2 DEF Open, Around
  <2>4. Filled'
    BY <2>2 DEF Filled
  <2> QED BY <2>2, <2>3, <2>4 DEF Complete
<1>5. Copied'
  <2>1. written' = written /\ written = 0 /\ outcome' # "success" /\ to = was /\ was' = was /\ task' = task
    BY DEF Open, Stages
  <2>2. task.op = "read" => Len(to') = 0
    BY DEF Open
  <2>3. task.op \in {"write", "append"} => to' = to
    BY DEF Open
  <2>4. Len(Available) >= 0 /\ Len(was) \in Nat
    BY AvailableIs
  <2> QED BY <1>1, <2>1, <2>2, <2>3, <2>4 DEF Copied, Put
<1> QED BY <1>2, <1>3, <1>4, <1>5

LEMMA StopStep ==
  ASSUME TInv, step # "idle", UNCHANGED to, Stop("failure") \/ Stop("success"),
         outcome' = "success" => Complete' /\ (task.op = "read" => step = "pages")
  PROVE  TInv'
<1> USE DEF TInv
<1>1. Asked' = Asked /\ Available' = Available
  BY AskedStays DEF Stop
<1>2. TransferTypes'
  BY DEF Stop, TransferTypes
<1>3. Stages'
  BY DEF Stop, Stages
<1>4. Around' /\ Filled' /\ Complete'
  <2>1. Around'
    BY <1>1 DEF Stop, Around
  <2>2. Filled'
    BY <1>1 DEF Stop, Filled, Erased
  <2>3. Complete'
    BY DEF Stop, Complete
  <2> QED BY <2>1, <2>2, <2>3
<1>5. Copied'
  BY <1>1 DEF Stop, Copied, Put
<1> QED BY <1>2, <1>3, <1>4, <1>5

LEMMA FailsStep == TInv /\ TransferFails => TInv'
BY StopStep DEF TransferFails, Stop

LEMMA HashStep == TInv /\ Hash => TInv'
<1> SUFFICES ASSUME TInv, Hash PROVE TInv'
  OBVIOUS
<1>1. task.op = "download" /\ task' = task /\ from' = from /\ to' = to /\ task.hash \in BOOLEAN
  BY TaskIs DEF TInv, TransferTypes, Stages, Hash, Stop
<1>2. outcome' = "success" => ~ task.hash \/ to = from
  BY <1>1 DEF Hash, Stop
<1>3. outcome' = "success" => Complete'
  BY <1>1, <1>2 DEF Complete
<1>4. step # "idle" /\ (Stop("failure") \/ Stop("success"))
  BY DEF Hash
<1> QED BY <1>1, <1>3, <1>4, StopStep DEF Hash

LEMMA PagesStep == TInv /\ Pages => TInv'
<1> SUFFICES ASSUME TInv, Pages PROVE TInv'
  OBVIOUS
<1>1. CASE task.op = "download"
  <2>1. UNCHANGED <<from, to, was, task, written, assets, image, outcome>> /\ step' = "hash"
    BY <1>1 DEF Pages
  <2>2. Asked' = Asked /\ Available' = Available
    BY <2>1, AskedStays
  <2>3. TransferTypes'
    BY <2>1 DEF TInv, TransferTypes
  <2>4. Stages'
    BY <1>1, <2>1 DEF TInv, Stages, Pages
  <2>5. Around' /\ Copied' /\ Filled'
    BY <1>1, <2>1 DEF Around, Copied, Filled
  <2>6. Complete'
    BY <1>1, <2>1 DEF TInv, Stages, Pages, Complete
  <2> QED BY <2>3, <2>4, <2>5, <2>6 DEF TInv
<1>2. CASE task.op # "download"
  <2>1. UNCHANGED <<from, to, was, task, written>> /\ Stop("success") /\ step \in {"pages", "end"}
    BY <1>2 DEF Pages, Stop
  <2>2. Asked' = Asked /\ Available' = Available
    BY <2>1, AskedStays
  <2>3. Asked \in Nat /\ Len(from) \in Nat /\ Len(Available) \in Nat /\ written \in Nat
    BY AvailableIs DEF TInv, TransferTypes
  <2>4. task.op \in {"write", "read", "append"} => written = Len(Available)
    <3>1. ASSUME task.op \in {"write", "read", "append"}
          PROVE  written >= Len(Available) /\ written <= Len(Available)
      BY <3>1, <2>1 DEF TInv, Stages, Copied, Put, Pages
    <3> QED BY <2>3, <3>1
  <2>5. task.op = "blank" /\ Asked <= Len(from) => written = Asked
    <3>1. ASSUME task.op = "blank"
          PROVE  written <= Asked /\ (written = Asked \/ written >= Len(from))
      BY <3>1 DEF TInv, Stages, Around, Pages
    <3> QED BY <2>3, <3>1
  <2>6. Complete'
    BY <1>2, <2>1, <2>2, <2>4, <2>5 DEF Complete
  <2>7. task.op = "read" => step = "pages"
    BY <2>1 DEF TInv, Stages
  <2>8. step # "idle"
    BY <2>1
  <2> QED BY <2>1, <2>6, <2>7, <2>8, StopStep
<1> QED BY <1>1, <1>2

LEMMA AddsIs ==
  ASSUME NEW cells, NEW next \in {"data", "idle"}, Adds(cells, next), written \in Nat,
         step \in {"header", "data"}, outcome = "none"
  PROVE  /\ UNCHANGED <<from, to, was, task, assets>>
         /\ written' \in Nat /\ step' \in {"header", "data", "idle"}
         /\ outcome' = IF step' = "idle" THEN "success" ELSE "none"
<1>1. written' \in Nat
  BY DEF Adds
<1>2. step' \in {"header", "data", "idle"}
  BY DEF Adds
<1> QED BY <1>1, <1>2 DEF Adds

LEMMA BundleStep == TInv /\ (AddEntry \/ AddData \/ BundleNothing) => TInv'
<1> SUFFICES ASSUME TInv, AddEntry \/ AddData \/ BundleNothing PROVE TInv'
  OBVIOUS
<1>1. UNCHANGED <<from, to, was, task>> /\ task.op = "bundle" /\ step \in {"header", "data"}
  BY DEF AddEntry, AddData, BundleNothing, Adds, TInv, Stages
<1>2. /\ written' \in Nat /\ step' \in {"header", "data", "idle"}
      /\ outcome' \in {"none", "failure", "success"} /\ (outcome' # "none" => step' = "idle")
  <2>1. written \in Nat /\ outcome = "none"
    BY <1>1 DEF TInv, TransferTypes, Stages
  <2>2. CASE BundleNothing
    BY <2>1, <2>2 DEF BundleNothing
  <2>3. CASE AddEntry \/ AddData
    <3> DEFINE i == written + 1
               entry == <<[name |-> Asset[i], start |-> Start(i), size |-> Len(assets[i])]>>
                          \o Zeros(EntrySize - 1)
               data == assets[i] \o Zeros(Aligned(Len(assets[i])) - Len(assets[i]))
    <3>1. Adds(entry, "data") \/ Adds(data, "idle")
      BY <2>3 DEF AddEntry, AddData
    <3> HIDE DEF entry, data
    <3>2. written' \in Nat /\ step' \in {"header", "data", "idle"}
          /\ outcome' = IF step' = "idle" THEN "success" ELSE "none"
      <4>1. CASE Adds(entry, "data")
        BY <1>1, <2>1, <4>1, AddsIs
      <4>2. CASE Adds(data, "idle")
        BY <1>1, <2>1, <4>2, AddsIs
      <4> QED BY <3>1, <4>1, <4>2
    <3> QED BY <3>2
  <2> QED BY <2>2, <2>3
<1>3. TransferTypes'
  BY <1>1, <1>2 DEF TInv, TransferTypes
<1>4. Stages'
  BY <1>1, <1>2 DEF TInv, Stages
<1>5. Around' /\ Copied' /\ Filled' /\ Complete'
  BY <1>1 DEF Around, Copied, Filled, Complete
<1> QED BY <1>3, <1>4, <1>5 DEF TInv

(***************************************************************************)
(* A page carries on what has been put.                                    *)
(***************************************************************************)
LEMMA PageIs ==
  ASSUME NEW f \in Seq(Bytes), NEW k \in Nat, NEW n \in Nat, n >= 1, k < Len(f)
  PROVE  /\ Part(f, k, n) \in Seq(Bytes) /\ Part(f, k, n) # <<>>
         /\ Len(Part(f, k, n)) \in Nat /\ Len(Part(f, k, n)) >= 1
         /\ k + Len(Part(f, k, n)) <= Len(f)
         /\ \A i, j \in Nat :
              i >= 1 /\ i <= Len(Part(f, k, n)) /\ j = k + i => Part(f, k, n)[i] = f[j]
<1>1. Len(f) \in Nat
  BY LenProperties
<1>2. Part(f, k, n) \in Seq(Bytes)
  BY PartIs
<1>3. Len(Part(f, k, n)) \in Nat
  BY PartIs
<1>4. Len(Part(f, k, n)) = IF k + n <= Len(f) THEN n ELSE IF k <= Len(f) THEN Len(f) - k ELSE 0
  BY PartLength
<1>5. Len(Part(f, k, n)) >= 1 /\ k + Len(Part(f, k, n)) <= Len(f)
  BY <1>1, <1>4
<1>6. Part(f, k, n) # <<>>
  <2>1. ASSUME Part(f, k, n) = <<>>
        PROVE  FALSE
    BY <1>5, <2>1, EmptySeq
  <2> QED BY <2>1
<1>7. ASSUME NEW i \in Nat, NEW j \in Nat, i >= 1, i <= Len(Part(f, k, n)), j = k + i
      PROVE  Part(f, k, n)[i] = f[j]
  BY <1>7, PartElement
<1> QED BY <1>2, <1>3, <1>5, <1>6, <1>7

\* The next n bytes of what is available, put where the last ended.
LEMMA PutNext ==
  ASSUME TInv, NEW off \in Nat, Put(off), written < Len(Available), UNCHANGED <<from, task>>,
         NEW n \in Nat, written' = written + n, written + n <= Len(Available),
         to' \in Seq(Bytes), Len(to') >= off + written + n,
         \A i \in Nat : i >= 1 /\ i <= off + written /\ i <= Len(to) => to'[i] = to[i],
         \A i, j \in Nat : i >= 1 /\ i <= n /\ j = off + written + i
            => to'[j] = Available[written + i]
  PROVE  Put(off)'
<1>1. Available' = Available /\ written \in Nat /\ Len(to) \in Nat
  BY AskedStays, AvailableIs DEF TInv, TransferTypes
<1>2. ASSUME NEW i \in Nat, NEW j \in Nat, i >= 1, i <= written', j = off + i
      PROVE  to'[j] = Available'[i]
  <2>1. CASE i <= written
    <3>1. to[j] = Available[i]
      BY <1>2, <2>1 DEF Put
    <3>2. Len(to) >= off + written
      BY <1>1, <1>2, <2>1 DEF Put
    <3>3. j >= 1 /\ j <= off + written /\ j <= Len(to)
      BY <1>1, <1>2, <2>1, <3>2
    <3> QED BY <1>1, <3>1, <3>3
  <2>2. CASE i > written
    <3>1. PICK m \in Nat : m = i - written
      BY <1>1, <2>2
    <3>2. m >= 1 /\ m <= n /\ j = off + written + m /\ written + m = i
      BY <1>1, <1>2, <2>2, <3>1
    <3> QED BY <1>1, <3>2
  <2> QED BY <1>1, <2>1, <2>2
<1>3. Len(to') >= off + written'
  BY <1>1
<1> QED BY <1>1, <1>2, <1>3 DEF Put

LEMMA PageStep == TInv /\ Page => TInv'
<1> SUFFICES ASSUME TInv, Page PROVE TInv'
  OBVIOUS
<1> DEFINE page == Part(Available, written, task.page)
           n == Len(page)
<1>1. /\ UNCHANGED <<from, was, task, step, outcome>> /\ written' = written + n
      /\ to' = (IF task.op = "write" THEN Overlay(to, task.location + written, page) ELSE to \o page)
      /\ step = "pages" /\ task.op # "blank" /\ written < Len(Available)
  BY DEF Page, Goes
<1>2. /\ Available \in Seq(Bytes) /\ Len(Available) \in Nat /\ Len(to) \in Nat /\ Len(was) \in Nat
      /\ to \in Seq(Bytes) /\ written \in Nat /\ Asked \in Nat /\ Len(Available) <= Asked
      /\ task.location \in Nat /\ task.page \in Nat /\ task.page >= 1
      /\ task.op # "bundle" /\ outcome = "none"
  BY <1>1, AvailableIs, TaskIs DEF TInv, TransferTypes, Stages
<1>3. Available' = Available /\ Asked' = Asked
  BY <1>1, AskedStays
<1>4. page \in Seq(Bytes) /\ page # <<>> /\ n \in Nat /\ n >= 1 /\ written + n <= Len(Available)
  BY <1>1, <1>2, PageIs
<1>5. \A i, j \in Nat : i >= 1 /\ i <= n /\ j = written + i => page[i] = Available[j]
  BY <1>1, <1>2, PageIs
<1> HIDE DEF page, n
<1>6. CASE task.op = "write"
  <2> PICK off \in Nat : off = task.location
    BY <1>2
  <2> PICK end \in Nat : end = off + written
    BY <1>2
  <2>0. Zero \in Bytes /\ to \in Seq(Bytes) /\ page \in Seq(Bytes)
    BY <1>2, <1>4, TransferAssumption
  <2>1. to' = Overlay(to, end, page)
    BY <1>1, <1>6
  <2>2. /\ to' \in Seq(Bytes) /\ Len(to') \in Nat /\ Len(to') >= Len(to)
        /\ Len(to') >= end + n
    BY <2>1, <1>2, <1>4, OverlayIs, TransferAssumption DEF n
  <2>3. \A i \in Nat : i >= 1 /\ i <= Len(to) /\ (i <= end \/ i > end + n) => to'[i] = to[i]
    <3> TAKE i \in Nat
    <3> HAVE i >= 1 /\ i <= Len(to) /\ (i <= end \/ i > end + n)
    <3>1. i <= end \/ i > end + Len(page)
      BY DEF n
    <3>2. Overlay(to, end, page)[i] = to[i]
      BY <2>0, <3>1, OverlayOld
    <3> QED BY <2>1, <3>2
  <2>4. \A i, j \in Nat : i >= 1 /\ i <= n /\ j = end + i => to'[j] = page[i]
    <3> SUFFICES ASSUME NEW i \in Nat, NEW j \in Nat, i >= 1, i <= n, j = end + i
                 PROVE  to'[j] = page[i]
      OBVIOUS
    <3>1. i <= Len(page)
      BY DEF n
    <3>2. \A m \in 1..Len(page) : Overlay(to, end, page)[end + m] = page[m]
      BY ONLY end \in Nat, <2>0, OverlayNew
    <3>3. i \in 1..Len(page)
      BY <1>4, <3>1 DEF n
    <3> QED BY <2>1, <3>2, <3>3
  <2>5. Around'
    <3>0. Len(to) >= Len(was)
      BY <1>6 DEF TInv, Around
    <3>1. written' <= Asked'
      BY <1>1, <1>2, <1>3, <1>4
    <3>3. Len(to') >= Len(was')
      BY <1>1, <1>2, <2>2, <3>0
    <3>2. ASSUME NEW i \in Nat, i >= 1, i <= Len(was), i <= off \/ i > off + written'
          PROVE  to'[i] = was[i]
      <4>1. i <= Len(to) /\ (i <= end \/ i > end + n) /\ (i <= off \/ i > off + written)
        <5>1. i <= Len(to)
          BY <1>2, <3>0, <3>2
        <5>2. written' = written + n /\ end = off + written
          BY <1>1
        <5>3. written \in Nat /\ n \in Nat
          BY <1>2, <1>4
        <5>4. CASE i <= off
          BY <5>1, <5>2, <5>3, <5>4
        <5>5. CASE i > off + written'
          BY <5>1, <5>2, <5>3, <5>5
        <5> QED BY <5>4, <5>5, <3>2
      <4>2. to[i] = was[i]
        BY <1>6, <3>2, <4>1 DEF TInv, Around
      <4> QED BY <2>3, <3>2, <4>1, <4>2
    <3> QED BY <1>1, <3>1, <3>2, <3>3 DEF Around
  <2>6. Put(off)'
    <3>1. Put(off)
      BY <1>6 DEF TInv, Copied
    <3>2. \A i, j \in Nat : i >= 1 /\ i <= n /\ j = off + written + i => to'[j] = Available[written + i]
      <4> TAKE i, j \in Nat
      <4> HAVE i >= 1 /\ i <= n /\ j = off + written + i
      <4>1. page[i] = Available[written + i]
        BY <1>2, <1>5
      <4> QED BY <2>4, <4>1
    <3>3. \A i \in Nat : i >= 1 /\ i <= off + written /\ i <= Len(to) => to'[i] = to[i]
      BY <2>3
    <3>4. Len(to') >= off + written + n
      BY <1>2, <1>4, <2>2
    <3> QED BY <1>1, <1>4, <2>2, <3>1, <3>2, <3>3, <3>4, PutNext
  <2>7. Copied' /\ Filled' /\ Complete' /\ Stages'
    BY <1>1, <1>2, <1>6, <2>6 DEF TInv, Stages, Copied, Filled, Complete
  <2> QED BY <1>1, <1>2, <1>4, <2>2, <2>5, <2>7 DEF TInv, TransferTypes
<1>7. CASE task.op # "write"
  <2>1. to' = to \o page
    BY <1>1, <1>7
  <2>2. to' \in Seq(Bytes) /\ Len(to') \in Nat /\ Len(to') = Len(to) + n
    BY <2>1, <1>2, <1>4, JoinedIs DEF n
  <2>3. \A i \in Nat : i >= 1 /\ i <= Len(to) => to'[i] = to[i]
    BY <2>1, <1>2, <1>4, JoinedIs
  <2>4. \A i, j \in Nat : i >= 1 /\ i <= n /\ j = Len(to) + i => to'[j] = page[i]
    BY <2>1, <1>2, <1>4, JoinedIs DEF n
  <2>5. ASSUME NEW off \in Nat, Put(off), Len(to) = off + written
        PROVE  Put(off)'
    <3>1. \A i, j \in Nat : i >= 1 /\ i <= n /\ j = off + written + i => to'[j] = Available[written + i]
      <4> TAKE i, j \in Nat
      <4> HAVE i >= 1 /\ i <= n /\ j = off + written + i
      <4>1. page[i] = Available[written + i]
        BY <1>2, <1>5
      <4> QED BY <2>4, <2>5, <4>1
    <3>2. Len(to') >= off + written + n
      BY <1>2, <1>4, <2>2, <2>5
    <3> QED BY <1>1, <1>4, <2>2, <2>3, <2>5, <3>1, <3>2, PutNext
  <2>6. CASE task.op = "read"
    <3>1. Put(0) /\ Len(to) = 0 + written
      BY <1>1, <1>2, <2>6 DEF TInv, Copied
    <3>2. Put(0)' /\ Len(to') = written'
      BY <1>1, <1>2, <1>4, <2>2, <2>5, <3>1
    <3> QED BY <1>1, <1>2, <1>4, <2>2, <2>6, <3>2
            DEF TInv, TransferTypes, Stages, Around, Copied, Filled, Complete
  <2>7. CASE task.op = "append"
    <3>1. Put(Len(was)) /\ Len(to) = Len(was) + written
      BY <2>7 DEF TInv, Copied
    <3>2. PICK off \in Nat : off = Len(was)
      BY <1>2
    <3>3. Put(off)'
      BY <2>5, <3>1, <3>2
    <3>4. Put(Len(was))'
      BY <1>1, <3>2, <3>3 DEF Put
    <3>5. Len(to') = Len(was') + written'
      BY <1>1, <1>2, <1>4, <2>2, <3>1
    <3>6. \A i \in Nat : i >= 1 /\ i <= Len(was') => to'[i] = was'[i]
      <4>1. \A i \in Nat : i >= 1 /\ i <= Len(was) => to[i] = was[i] /\ i <= Len(to)
        BY <1>2, <2>7, <3>1 DEF TInv, Copied
      <4> QED BY <1>1, <2>3, <4>1
    <3>7. Copied'
      BY <1>1, <2>7, <3>4, <3>5, <3>6 DEF Copied
    <3> QED BY <1>1, <1>2, <1>4, <2>2, <2>7, <3>7
            DEF TInv, TransferTypes, Stages, Around, Filled, Complete
  <2>8. CASE task.op = "download"
    BY <1>1, <1>2, <1>4, <2>2, <2>8 DEF TInv, TransferTypes, Stages, Around, Copied, Filled, Complete
  <2>9. task.op \in {"read", "append", "download"}
    BY <1>1, <1>2, <1>7, TaskIs DEF TInv, TransferTypes
  <2> QED BY <2>6, <2>7, <2>8, <2>9
<1> QED BY <1>6, <1>7

LEMMA BlankPageStep == TInv /\ BlankPage => TInv'
<1> SUFFICES ASSUME TInv, BlankPage PROVE TInv'
  OBVIOUS
<1> DEFINE read == Part(from, written, task.page)
           n == Least(task.page, Asked - written)
           e(i) == IF i <= Len(read) THEN read[i] ELSE Blank
           page == [i \in 1..n |-> e(i)]
<1>1. /\ UNCHANGED <<from, was, task, outcome>> /\ written' = written + Len(page)
      /\ to' = (IF \A i \in DOMAIN page : page[i] = Blank THEN to
                ELSE Overlay(to, task.location + written, page))
      /\ step = "pages" /\ task.op = "blank" /\ read # <<>>
      /\ step' = (IF Len(page) = task.page THEN "pages" ELSE "end")
  BY DEF BlankPage
<1>2. /\ Asked \in Nat /\ Len(from) \in Nat /\ Len(to) \in Nat /\ Len(was) \in Nat
      /\ to \in Seq(Bytes) /\ from \in Seq(Bytes) /\ written \in Nat
      /\ task.location \in Nat /\ task.page \in Nat /\ task.page >= 1
      /\ outcome = "none" /\ Blank \in Bytes /\ Zero \in Bytes
  BY <1>1, AvailableIs, TaskIs, TransferAssumption DEF TInv, TransferTypes, Stages
<1>3. /\ written <= Asked /\ Len(to) >= Len(was)
      /\ \A i \in Nat : i >= 1 /\ i <= Len(was)
                        /\ (i <= task.location \/ i > task.location + written)
           => to[i] = was[i]
  BY <1>1 DEF TInv, Around
<1>4. Asked' = Asked /\ Available' = Available
  BY <1>1, AskedStays
<1>5. n \in Nat /\ n <= task.page /\ written + n <= Asked /\ (n # task.page => written + n = Asked)
  <2>1. n = task.page \/ n = Asked - written
    BY DEF Least
  <2>2. n <= task.page /\ n <= Asked - written
    BY <1>2, <1>3 DEF Least
  <2> QED BY <1>2, <1>3, <2>1, <2>2
<1>6. read \in Seq(Bytes)
  BY <1>2, PartIs
<1>7. Len(read) \in Nat
  BY <1>2, PartIs
<1>8. Asked <= Len(from) => n <= Len(read)
  <2>1. Len(read) = IF written + task.page <= Len(from) THEN task.page
                    ELSE IF written <= Len(from) THEN Len(from) - written ELSE 0
    <3>1. from \in Seq(Bytes) /\ written \in Nat /\ task.page \in Nat
      BY <1>2
    <3> QED BY ONLY <3>1, PartLength DEF read
  <2> HIDE DEF n, read
  <2> QED BY <1>2, <1>3, <1>5, <2>1
<1>9. ASSUME NEW k \in Nat, NEW i \in Nat, k >= 1, k <= Len(read), i = written + k
      PROVE  read[k] = from[i]
  <2>1. from \in Seq(Bytes) /\ written \in Nat /\ task.page \in Nat
    BY <1>2
  <2> QED BY ONLY <1>9, <2>1, k \in Nat, i \in Nat, PartElement DEF read
<1> HIDE DEF n, read
<1>10. \A i \in 1..n : e(i) \in Bytes
  <2> TAKE i \in 1..n
  <2>1. CASE i <= Len(read)
    <3>1. i \in 1..Len(read)
      BY <1>5, <1>7, <2>1
    <3> QED BY <1>6, <2>1, <3>1, ElementOfSeq
  <2>2. CASE ~ i <= Len(read)
    BY <1>2, <2>2
  <2> QED BY <2>1, <2>2
<1>11. /\ page \in Seq(Bytes) /\ Len(page) = n /\ DOMAIN page = 1..n
       /\ \A i \in 1..n : page[i] = e(i)
  <2> HIDE DEF e
  <2> QED BY <1>5, <1>10
<1> HIDE DEF page, e
<1> PICK off \in Nat : off = task.location
  BY <1>2
<1> PICK end \in Nat : end = off + written
  BY <1>2
<1>21. to \in Seq(Bytes) /\ page \in Seq(Bytes) /\ Zero \in Bytes
  BY <1>2, <1>11
<1>12. \/ (\A i \in 1..n : page[i] = Blank) /\ to' = to
       \/ to' = Overlay(to, end, page)
  BY <1>1, <1>11
<1>13. to' \in Seq(Bytes) /\ Len(to') \in Nat /\ Len(to') >= Len(to)
  <2>1. CASE to' = to
    BY <1>2, <2>1
  <2>2. CASE to' = Overlay(to, end, page)
    BY <1>2, <1>11, <2>2, OverlayIs
  <2> QED BY <1>12, <2>1, <2>2
<1>14. ASSUME NEW i \in Nat, i >= 1, i <= Len(to), i <= end \/ i > end + n
       PROVE  to'[i] = to[i]
  <2>1. CASE to' = Overlay(to, end, page)
    <3>1. i <= end \/ i > end + Len(page)
      BY <1>11, <1>14
    <3>2. Overlay(to, end, page)[i] = to[i]
      BY ONLY <1>21, i \in Nat, end \in Nat, <1>14, <3>1, OverlayOld
    <3> QED BY <2>1, <3>2
  <2> QED BY <1>12, <2>1
<1>15. written' = written + n /\ written' \in Nat /\ written' <= Asked
  BY <1>1, <1>2, <1>5, <1>11
<1>16. Around'
  <2>1. written' <= Asked' /\ Len(to') >= Len(was')
    <3>1. Len(to') >= Len(was)
      BY <1>2, <1>3, <1>13
    <3> QED BY <1>1, <1>4, <1>15, <3>1
  <2>2. ASSUME NEW i \in Nat, i >= 1, i <= Len(was), i <= off \/ i > off + written'
        PROVE  to'[i] = was[i]
    <3>1. i <= Len(to)
      BY <1>2, <1>3, <2>2
    <3>0. written \in Nat /\ n \in Nat /\ (i <= off \/ i > off + (written + n))
      BY <1>2, <1>5, <1>15, <2>2
    <3>2. i <= end \/ i > end + n
      BY ONLY <3>0, i \in Nat, off \in Nat, end = off + written
    <3>3. i <= off \/ i > off + written
      BY ONLY <3>0, i \in Nat, off \in Nat
    <3>4. to[i] = was[i]
      BY <1>3, <2>2, <3>3
    <3> QED BY <1>14, <2>2, <3>1, <3>2, <3>4
  <2> QED BY <1>1, <2>1, <2>2 DEF Around
<1>17. Filled'
  <2>1. SUFFICES ASSUME Erased, Len(was) >= off + Asked, Asked <= Len(from),
                        NEW i \in Nat, NEW j \in Nat, i >= 1, i <= written', j = off + i
                 PROVE  to'[j] = from[i]
    BY <1>1, <1>4 DEF Filled, Erased
  <2>2. j >= 1 /\ j <= Len(was) /\ j <= Len(to)
    <3>1. j >= 1
      BY <2>1
    <3>2. j <= Len(was)
      <4>1. i <= Asked
        BY <1>2, <1>15, <2>1
      <4>2. j = off + i /\ Len(was) >= off + Asked /\ Asked \in Nat /\ Len(was) \in Nat
        BY <1>2, <2>1
      <4> QED BY ONLY <4>1, <4>2, off \in Nat, i \in Nat
    <3> QED BY <1>2, <1>3, <3>1, <3>2
  <2>3. CASE i <= written
    <3>1. to[j] = from[i]
      BY <1>1, <2>1, <2>3 DEF TInv, Filled
    <3>2. j <= end
      BY <1>2, <2>1, <2>3
    <3> QED BY <1>14, <2>2, <3>1, <3>2
  <2>4. CASE i > written
    <3>1. PICK k \in Nat : k = i - written
      BY <1>2, <2>4
    <3>2. k >= 1 /\ k <= n /\ i = written + k /\ j = end + k /\ j > off + written
      <4>1. k >= 1 /\ i = written + k
        BY <1>2, <2>4, <3>1
      <4>2. k <= n
        BY <1>2, <1>5, <1>15, <2>1, <3>1
      <4>3. j = end + k
        BY <1>2, <2>1, <3>1
      <4>4. j > off + written
        BY <1>2, <4>1, <4>3
      <4> QED BY <4>1, <4>2, <4>3, <4>4
    <3>3. k <= Len(read)
      BY <1>5, <1>7, <1>8, <2>1, <3>2
    <3>4. page[k] = from[i]
      <4>1. k \in 1..n
        BY <1>5, <3>2
      <4>2. page[k] = read[k]
        BY <1>11, <3>3, <4>1 DEF e
      <4> QED BY <1>9, <3>2, <3>3, <4>2
    <3>5. CASE to' = Overlay(to, end, page)
      <4>1. Overlay(to, end, page)[j] = page[k]
        <5>1. k \in 1..Len(page) /\ j = end + k
          BY <1>5, <1>11, <3>2
        <5>2. \A m \in 1..Len(page) : Overlay(to, end, page)[end + m] = page[m]
          BY ONLY end \in Nat, <1>21, OverlayNew
        <5> QED BY <5>1, <5>2
      <4> QED BY <3>4, <3>5, <4>1
    <3>6. CASE (\A m \in 1..n : page[m] = Blank) /\ to' = to
      <4>1. from[i] = Blank
        BY <1>5, <3>2, <3>4, <3>6
      <4>2. to[j] = was[j]
        BY <1>3, <2>2, <3>2
      <4>3. was[j] = Blank
        <5>1. j \in DOMAIN was
          BY <1>2, <2>2, LenProperties DEF TInv, TransferTypes
        <5> QED BY <2>1, <5>1 DEF Erased
      <4> QED BY <3>6, <4>1, <4>2, <4>3
    <3> QED BY <1>12, <3>5, <3>6
  <2> QED BY <1>2, <2>1, <2>3, <2>4
<1>18. Stages'
  <2>1. step' = "pages" \/ (step' = "end" /\ written' = Asked)
    BY <1>1, <1>5, <1>11, <1>15
  <2> QED BY <1>1, <1>2, <1>4, <2>1 DEF TInv, Stages
<1>19. TransferTypes'
  BY <1>1, <1>13, <1>15 DEF TInv, TransferTypes
<1>20. Copied' /\ Complete'
  BY <1>1, <1>2 DEF Copied, Complete
<1> QED BY <1>16, <1>17, <1>18, <1>19, <1>20 DEF TInv

LEMMA TransferInductive == TransferSpec => []TInv
<1>1. TInv /\ [TransferNext]_transferVars => TInv'
  <2> SUFFICES ASSUME TInv, [TransferNext]_transferVars PROVE TInv'
    OBVIOUS
  <2>1. CASE TransferEnded \/ UNCHANGED transferVars
    <3>1. UNCHANGED <<from, to, was, task, written, step, outcome>>
      BY <2>1 DEF TransferEnded, transferVars
    <3>2. Asked' = Asked /\ Available' = Available
      BY <3>1, AskedStays
    <3>3. TransferTypes' /\ Stages'
      BY <3>1, <3>2 DEF TInv, TransferTypes, Stages
    <3>4. Around' /\ Filled'
      BY <3>1, <3>2 DEF TInv, Around, Filled, Erased
    <3>5. Copied' /\ Complete'
      BY <3>1, <3>2 DEF TInv, Copied, Put, Complete
    <3> QED BY <3>3, <3>4, <3>5 DEF TInv
  <2> QED BY <2>1, OpenStep, FailsStep, PageStep, BlankPageStep, PagesStep, HashStep, BundleStep
          DEF TransferNext
<1> QED BY <1>1, TransferInitInv, PTL DEF TransferSpec

-----------------------------------------------------------------------------
LEMMA JoinedOld ==
  ASSUME NEW S, NEW f \in Seq(S), NEW b \in Seq(S), NEW i \in Nat, i >= 1, i <= Len(f)
  PROVE  (f \o b)[i] = f[i]
BY JoinedIs

LEMMA SameFile ==
  ASSUME NEW S, NEW f \in Seq(S), NEW g \in Seq(S), Len(f) = Len(g),
         \A i \in Nat : i >= 1 /\ i <= Len(f) => f[i] = g[i]
  PROVE  f = g
<1>1. Len(f) \in Nat
  BY LenProperties
<1>2. \A i \in 1..Len(f) : f[i] = g[i]
  BY <1>1
<1> QED BY <1>2, SeqEqual

\* A file that has the first n bytes of the source where fs.verify looks.
LEMMA VerifiedIs ==
  ASSUME TInv, from # <<>>, Asked <= Len(from), Len(to) >= task.location + Asked,
         \A i, j \in Nat : i >= 1 /\ i <= Asked /\ j = task.location + i => to[j] = from[i]
  PROVE  Verified
<1>1. /\ Asked \in Nat /\ Len(from) \in Nat /\ Len(to) \in Nat
      /\ to \in Seq(Bytes) /\ from \in Seq(Bytes) /\ task.location \in Nat
  BY AvailableIs, TaskIs DEF TInv, TransferTypes
<1> PICK off \in Nat : off = task.location
  BY <1>1
<1> DEFINE p == Part(to, off, Asked)
           q == Part(from, 0, Asked)
<1>2. p \in Seq(Bytes) /\ q \in Seq(Bytes)
  BY <1>1, PartIs, PrefixIs
<1>3. Len(p) = Asked
  BY <1>1, PartLength
<1>4. Len(q) = Asked
  BY <1>1, PrefixIs
<1>5. ASSUME NEW i \in Nat, i >= 1, i <= Asked
      PROVE  p[i] = q[i]
  <2>1. PICK j \in Nat : j = off + i
    OBVIOUS
  <2>2. i <= Len(p)
    BY <1>3, <1>5
  <2>3. p[i] = to[j]
    <3>1. to \in Seq(Bytes) /\ Asked \in Nat
      BY <1>1
    <3> QED BY ONLY <3>1, off \in Nat, i \in Nat, j \in Nat, <1>5, <2>1, <2>2, PartElement DEF p
  <2>4. q[i] = from[i]
    BY <1>1, <1>4, <1>5, PrefixElement
  <2>5. to[j] = from[i]
    BY <1>5, <2>1
  <2> QED BY <2>3, <2>4, <2>5
<1>6. p = q
  <2> HIDE DEF p, q
  <2> QED BY <1>2, <1>3, <1>4, <1>5, SameFile
<1> QED BY <1>6 DEF Verified, Asked

LEMMA AvailableElement ==
  ASSUME TInv, task.op = "write", NEW i \in Nat, i >= 1, i <= Len(Available)
  PROVE  Available[i] = from[i]
<1>1. Available = Part(from, 0, Asked) /\ Asked \in Nat /\ from \in Seq(Bytes)
  BY AvailableIs DEF Available, First, TInv, TransferTypes
<1> QED BY <1>1, PrefixIs

LEMMA WriteVerified ==
  ASSUME TInv, Succeeded({"write"}), from # <<>>, Asked <= Len(from)
  PROVE  Verified
<1>1. /\ Asked \in Nat /\ Len(from) \in Nat /\ from \in Seq(Bytes) /\ task.size \in Nat
      /\ task.op = "write" /\ outcome = "success"
  BY AvailableIs, TaskIs DEF Succeeded, TInv, TransferTypes
<1>2. Available = Part(from, 0, Asked)
  BY <1>1 DEF Available, First
<1>3. Len(Available) = Asked
  BY <1>1, <1>2, PrefixIs
<1>4. Asked > 0
  BY <1>1, EmptySeq DEF Asked
<1>5. written = Asked /\ Put(task.location)
  BY <1>1, <1>3 DEF TInv, Complete, Copied
<1>6. Len(to) >= task.location + Asked
  BY <1>4, <1>5 DEF Put
<1>7. ASSUME NEW i \in Nat, NEW j \in Nat, i >= 1, i <= Asked, j = task.location + i
      PROVE  to[j] = from[i]
  <2>1. to[j] = Available[i]
    BY <1>5, <1>7 DEF Put
  <2> QED BY <1>1, <1>3, <1>7, <2>1, AvailableElement
<1> QED BY <1>6, <1>7, VerifiedIs

LEMMA BlankVerified ==
  ASSUME TInv, Succeeded({"blank"}), from # <<>>, Asked <= Len(from),
         Erased, Len(was) >= task.location + Asked
  PROVE  Verified
<1>1. task.op = "blank" /\ outcome = "success"
  BY DEF Succeeded
<1>2. written = Asked
  BY <1>1 DEF TInv, Complete
<1>3. Len(to) >= task.location + Asked
  <2>1. Len(to) >= Len(was) /\ Len(to) \in Nat /\ Len(was) \in Nat /\ Asked \in Nat /\ task.location \in Nat
    BY <1>1, AvailableIs, TaskIs DEF TInv, TransferTypes, Around
  <2> QED BY <2>1
<1>4. \A i, j \in Nat : i >= 1 /\ i <= Asked /\ j = task.location + i => to[j] = from[i]
  BY <1>1, <1>2 DEF TInv, Filled
<1> QED BY <1>3, <1>4, VerifiedIs

LEMMA ReadExact ==
  ASSUME TInv, Succeeded({"read"})
  PROVE  to = Part(from, IF task.asset THEN 0 ELSE task.location, Asked)
<1>1. /\ task.op = "read" /\ outcome = "success" /\ to \in Seq(Bytes) /\ Available \in Seq(Bytes)
  BY AvailableIs DEF Succeeded, TInv, TransferTypes
<1>2. Available = Part(from, IF task.asset THEN 0 ELSE task.location, Asked)
  BY <1>1 DEF Available, First
<1>3. written = Len(Available) /\ Put(0) /\ Len(to) = written
  BY <1>1 DEF TInv, Complete, Copied
<1>4. ASSUME NEW i \in Nat, i >= 1, i <= Len(to)
      PROVE  to[i] = Available[i]
  <2>1. i = 0 + i
    OBVIOUS
  <2> QED BY <1>3, <1>4, <2>1 DEF Put
<1>5. to = Available
  BY <1>1, <1>3, <1>4, SameFile
<1> QED BY <1>2, <1>5

LEMMA AppendExact ==
  ASSUME TInv, Succeeded({"append"})
  PROVE  to = was \o Part(from, IF task.asset THEN 0 ELSE task.location, Asked)
<1>1. /\ task.op = "append" /\ outcome = "success" /\ to \in Seq(Bytes) /\ was \in Seq(Bytes)
      /\ Available \in Seq(Bytes) /\ Len(Available) \in Nat /\ Len(was) \in Nat
  BY AvailableIs DEF Succeeded, TInv, TransferTypes
<1>2. Available = Part(from, IF task.asset THEN 0 ELSE task.location, Asked)
  BY <1>1 DEF Available, First
<1>3. /\ written = Len(Available) /\ Put(Len(was)) /\ Len(to) = Len(was) + written
      /\ \A i \in Nat : i >= 1 /\ i <= Len(was) => to[i] = was[i]
  BY <1>1 DEF TInv, Complete, Copied
<1> DEFINE w == was \o Available
<1>4. w \in Seq(Bytes) /\ Len(w) = Len(was) + Len(Available)
  BY <1>1, JoinedIs
<1>5. ASSUME NEW i \in Nat, i >= 1, i <= Len(to)
      PROVE  to[i] = w[i]
  <2>1. CASE i <= Len(was)
    BY <1>1, <1>3, <1>5, <2>1, JoinedIs
  <2>2. CASE i > Len(was)
    <3>1. PICK k \in Nat : k = i - Len(was)
      BY <1>1, <2>2
    <3>2. k >= 1 /\ k <= Len(Available) /\ i = Len(was) + k
      BY <1>1, <1>3, <1>5, <2>2, <3>1
    <3>3. to[i] = Available[k]
      BY <1>3, <3>2 DEF Put
    <3>4. w[i] = Available[k]
      BY <1>1, <3>2, JoinedIs
    <3> QED BY <3>3, <3>4
  <2>3. i <= Len(was) \/ i > Len(was)
    BY <1>1
  <2> HIDE DEF w
  <2> QED BY <2>1, <2>2, <2>3
<1>6. to = w
  <2> HIDE DEF w
  <2> QED BY <1>1, <1>3, <1>4, <1>5, SameFile
<1> QED BY <1>2, <1>6

(***************************************************************************)
(* fs.write, fs.read and fs.download move what they are asked to move, for *)
(* files and pages of any size and at any location, which fs.read of an    *)
(* asset ignores: a page carries on where the last has ended, and none     *)
(* touches what is around.                                                 *)
(***************************************************************************)
THEOREM TransferIsSound == TransferSpec => []TransferSound
<1>1. TInv => TransferSound
  <2> SUFFICES ASSUME TInv PROVE TransferSound
    OBVIOUS
  <2>1. /\ was \in Seq(Bytes) /\ to \in Seq(Bytes) /\ Asked \in Nat /\ Len(was) \in Nat /\ Len(to) \in Nat
        /\ DOMAIN was = 1..Len(was) /\ task.location \in Nat /\ written \in Nat
    BY AvailableIs, TaskIs, LenProperties DEF TInv, TransferTypes
  <2>2. Succeeded({"download"}) /\ task.hash => to = from
    BY DEF Succeeded, TInv, Complete
  <2>3. ASSUME task.op \in {"write", "blank"}, NEW i \in DOMAIN was,
               i <= task.location \/ i > task.location + Asked
        PROVE  to[i] = was[i]
    <3>1. i \in Nat /\ i >= 1 /\ i <= Len(was)
      BY <2>1
    <3>2. written <= Asked
      BY <2>3 DEF TInv, Around
    <3>3. i <= task.location \/ i > task.location + written
      BY <2>1, <2>3, <3>1, <3>2
    <3> QED BY <2>3, <3>1, <3>3 DEF TInv, Around
  <2>4. ASSUME task.op = "append"
        PROVE  Part(to, 0, Len(was)) = was
    <3>1. /\ Len(to) = Len(was) + written
          /\ \A i \in Nat : i >= 1 /\ i <= Len(was) => to[i] = was[i]
      BY <2>4 DEF TInv, Copied
    <3> DEFINE p == Part(to, 0, Len(was))
    <3>2. p \in Seq(Bytes)
      BY <2>1, PrefixIs
    <3>3. Len(p) = Len(was)
      BY <2>1, <3>1, PrefixIs
    <3>4. ASSUME NEW i \in Nat, i >= 1, i <= Len(p)
          PROVE  p[i] = was[i]
      <4>1. p[i] = to[i]
        BY <2>1, <3>4, PrefixIs
      <4> QED BY <3>1, <3>3, <3>4, <4>1
    <3> HIDE DEF p
    <3>5. p = was
      BY <2>1, <3>2, <3>3, <3>4, SameFile
    <3> QED BY <3>5 DEF p
  <2> QED BY <2>2, <2>3, <2>4, WriteVerified, BlankVerified, ReadExact, AppendExact DEF TransferSound
<1> QED BY <1>1, TransferInductive, PTL

-----------------------------------------------------------------------------
(***************************************************************************)
(* Assets.  A cell of an assets file, where the i-th entry is, and where   *)
(* the entries end.                                                        *)
(***************************************************************************)
Cells == Bytes \cup Nat \cup [name : STRING, start : Nat, size : Nat]

Place(i) == CountSize + (i - 1) * EntrySize + 1

Base(k) == CountSize + k * EntrySize

\* The first k entries are written ...
Header(k) ==
  /\ Len(image) >= Base(k)
  /\ image[1] = Len(Asset)
  /\ \A i \in 1..k :
       /\ Start(i) \in Nat
       /\ Entry(i) = [name |-> Asset[i], start |-> Start(i), size |-> Len(assets[i])]

\* ... and the contents of the first k assets, where the entries say.
Content(k) ==
  \A j \in 1..k :
    /\ Start(j) + Len(assets[j]) <= Len(image)
    /\ \A m, n \in Nat : m >= 1 /\ m <= Len(assets[j]) /\ n = Start(j) + m
         => image[n] = assets[j][m]

Bundled ==
  /\ step = "header" /\ Len(Asset) > 0 =>
       written < Len(Asset) /\ Header(written) /\ Len(image) = Base(written)
  /\ step = "data" =>
       /\ written < Len(Asset) /\ Header(Len(Asset)) /\ Content(written)
       /\ Len(image) = Start(written + 1)
  /\ step = "idle" /\ image # <<>> => Header(Len(Asset)) /\ Content(Len(Asset))
  /\ step \in {"open", "pages", "end", "hash"} => image = <<>>

BundleTypes == image \in Seq(Cells) /\ assets \in [DOMAIN Asset -> Seq(Bytes)]

BInv == TInv /\ BundleTypes /\ Bundled

LEMMA AssetIs ==
  /\ Len(Asset) \in Nat /\ DOMAIN Asset = 1..Len(Asset)
  /\ \A i \in 1..Len(Asset) : Asset[i] \in STRING
  /\ BundleTypes => \A i \in 1..Len(Asset) : assets[i] \in Seq(Bytes) /\ Len(assets[i]) \in Nat
<1>1. Asset \in Seq(STRING)
  BY TransferAssumption
<1>2. Len(Asset) \in Nat /\ DOMAIN Asset = 1..Len(Asset)
  BY <1>1, LenProperties
<1>3. \A i \in 1..Len(Asset) : Asset[i] \in STRING
  BY <1>1, ElementOfSeq
<1>4. ASSUME BundleTypes, NEW i \in 1..Len(Asset)
      PROVE  assets[i] \in Seq(Bytes) /\ Len(assets[i]) \in Nat
  BY <1>2, <1>4, LenProperties DEF BundleTypes
<1> QED BY <1>2, <1>3, <1>4

LEMMA Products ==
  ASSUME NEW E \in Nat, E >= 1, NEW k \in Nat, NEW i \in Nat, i < k
  PROVE  i * E \in Nat /\ k * E \in Nat /\ i * E + 1 <= k * E /\ (i + 1) * E = i * E + E
<1>1. i * E \in Nat /\ k * E \in Nat /\ (i + 1) * E = i * E + E
  OBVIOUS
<1>2. PICK d \in Nat : k = i + 1 + d
  <2>1. k - i - 1 \in Nat /\ k = i + 1 + (k - i - 1)
    OBVIOUS
  <2> QED BY <2>1
<1>3. k * E = i * E + E + d * E /\ d * E \in Nat
  BY <1>2
<1> QED BY <1>1, <1>3

LEMMA PlaceIs ==
  ASSUME NEW k \in Nat
  PROVE  /\ Base(k) \in Nat /\ Base(k) >= 1 /\ Base(0) = CountSize
         /\ Base(k + 1) = Base(k) + EntrySize /\ Place(k + 1) = Base(k) + 1
         /\ \A i \in 1..k : Place(i) \in Nat /\ Place(i) >= 1 /\ Place(i) <= Base(k)
<1>1. CountSize \in Nat /\ CountSize >= 1 /\ EntrySize \in Nat /\ EntrySize >= 1
  BY TransferAssumption
<1>2. k * EntrySize \in Nat /\ (k + 1) * EntrySize = k * EntrySize + EntrySize
  BY <1>1, Products
<1>3. ASSUME NEW i \in 1..k
      PROVE  Place(i) \in Nat /\ Place(i) >= 1 /\ Place(i) <= Base(k)
  <2>1. PICK p \in Nat : p = i - 1 /\ p < k
    OBVIOUS
  <2>2. p * EntrySize \in Nat /\ p * EntrySize + 1 <= k * EntrySize
    BY <1>1, <2>1, Products
  <2>3. Place(i) = CountSize + p * EntrySize + 1
    BY <2>1 DEF Place
  <2> QED BY <1>1, <1>2, <2>2, <2>3 DEF Base
<1>4. Base(0) = CountSize
  BY <1>1 DEF Base
<1>5. Place(k + 1) = Base(k) + 1
  <2>1. (k + 1) - 1 = k
    OBVIOUS
  <2> QED BY <2>1 DEF Place, Base
<1> QED BY <1>1, <1>2, <1>3, <1>4, <1>5 DEF Base

LEMMA AlignedIs ==
  ASSUME NEW n \in Nat
  PROVE  Aligned(n) \in Nat /\ Aligned(n) >= n
<1>1. n \div 4 \in Nat /\ n < (n \div 4) * 4 + 4
  OBVIOUS
<1> QED BY <1>1 DEF Aligned

LEMMA ZerosIs ==
  ASSUME NEW n \in Nat
  PROVE  Zeros(n) \in Seq(Bytes) /\ Zeros(n) \in Seq(Cells) /\ Len(Zeros(n)) = n
<1>1. Zero \in Bytes /\ Zero \in Cells
  BY TransferAssumption DEF Cells
<1> QED BY <1>1 DEF Zeros

LEMMA EntryIs == \A i : Entry(i) = image[Place(i)]
BY DEF Entry, Place

\* Where the next asset starts, and that it is a number.
LEMMA StartIs ==
  ASSUME BundleTypes, NEW k \in Nat, k <= Len(Asset), Header(k)
  PROVE  /\ Start(1) = Base(Len(Asset))
         /\ \A i \in 1..k : Start(i + 1) = Start(i) + Aligned(Len(assets[i]))
         /\ \A i \in 1..k + 1 : Start(i) \in Nat
<1>1. Start(1) = Base(Len(Asset)) /\ Base(Len(Asset)) \in Nat
  BY PlaceIs, AssetIs DEF Start, Base
<1>2. ASSUME NEW i \in 1..k
      PROVE  Start(i + 1) = Start(i) + Aligned(Len(assets[i])) /\ Start(i + 1) \in Nat
  <2>1. i + 1 # 1 /\ (i + 1) - 1 = i /\ i \in 1..Len(Asset)
    BY AssetIs
  <2>2. Start(i + 1) = Entry(i).start + Aligned(Entry(i).size)
    BY <2>1 DEF Start
  <2>3. Entry(i).start = Start(i) /\ Entry(i).size = Len(assets[i]) /\ Start(i) \in Nat
    BY DEF Header
  <2>4. Len(assets[i]) \in Nat
    BY <2>1, AssetIs
  <2>5. Aligned(Len(assets[i])) \in Nat
    BY <2>4, AlignedIs
  <2>6. Start(i + 1) = Start(i) + Aligned(Len(assets[i]))
    BY <2>2, <2>3
  <2> QED BY <2>3, <2>5, <2>6
<1>3. ASSUME NEW i \in 1..k + 1
      PROVE  Start(i) \in Nat
  <2>1. CASE i = 1
    BY <1>1, <2>1
  <2>2. CASE i # 1
    <3>1. PICK p \in 1..k : i = p + 1
      <4>1. i - 1 \in 1..k /\ i = (i - 1) + 1
        BY <2>2
      <4> QED BY <4>1
    <3> QED BY <1>2, <3>1
  <2> QED BY <2>1, <2>2
<1> QED BY <1>1, <1>2, <1>3

(***************************************************************************)
(* What is appended changes no entry and no content.                       *)
(***************************************************************************)
LEMMA Appended ==
  ASSUME BundleTypes, NEW k \in Nat, k <= Len(Asset), Header(k),
         NEW cells \in Seq(Cells), image' = image \o cells, assets' = assets
  PROVE  /\ Header(k)' /\ BundleTypes' /\ Len(image') = Len(image) + Len(cells)
         /\ \A i \in 1..k + 1 : Start(i)' = Start(i)
         /\ \A i, j \in Nat : i >= 1 /\ i <= Len(cells) /\ j = Len(image) + i
              => image'[j] = cells[i]
         /\ \A j \in 0..k : Content(j) => Content(j)'
<1>1. image \in Seq(Cells) /\ Len(image) \in Nat /\ Len(cells) \in Nat
  BY LenProperties DEF BundleTypes
<1>2. image' \in Seq(Cells) /\ Len(image') = Len(image) + Len(cells)
  BY <1>1, JoinedIs
<1>3. ASSUME NEW i \in Nat, i >= 1, i <= Len(image)
      PROVE  image'[i] = image[i]
  BY <1>1, <1>3, JoinedIs
<1>4. ASSUME NEW i \in Nat, NEW j \in Nat, i >= 1, i <= Len(cells), j = Len(image) + i
      PROVE  image'[j] = cells[i]
  BY <1>1, <1>4, JoinedIs
<1>5. Base(k) \in Nat /\ Base(k) >= 1 /\ Len(image) >= Base(k)
  BY PlaceIs DEF Header
<1>6. ASSUME NEW i \in 1..k
      PROVE  Entry(i)' = Entry(i)
  <2>1. Place(i) \in Nat /\ Place(i) >= 1 /\ Place(i) <= Len(image)
    <3>1. Place(i) \in Nat /\ Place(i) >= 1 /\ Place(i) <= Base(k)
      BY PlaceIs
    <3> QED BY <1>1, <1>5, <3>1
  <2>2. image'[Place(i)] = image[Place(i)]
    BY <1>3, <2>1
  <2> QED BY <2>2 DEF Entry, Place
<1>7. ASSUME NEW i \in 1..k + 1
      PROVE  Start(i)' = Start(i)
  <2>1. CASE i = 1
    BY <2>1 DEF Start
  <2>2. CASE i # 1
    <3>1. i - 1 \in 1..k
      BY <2>2
    <3>2. Entry(i - 1)' = Entry(i - 1)
      BY <1>6, <3>1
    <3> QED BY <2>2, <3>2 DEF Start
  <2> QED BY <2>1, <2>2
<1>8. Header(k)'
  <2>1. image'[1] = image[1]
    BY <1>1, <1>3, <1>5
  <2>2. Len(image') >= Base(k)
    BY <1>1, <1>2, <1>5
  <2>3. ASSUME NEW i \in 1..k
        PROVE  /\ Start(i)' \in Nat
               /\ Entry(i)' = [name |-> Asset[i], start |-> Start(i)', size |-> Len(assets'[i])]
    <3>1. Start(i)' = Start(i) /\ Entry(i)' = Entry(i)
      BY <1>6, <1>7
    <3> QED BY <3>1 DEF Header
  <2> QED BY <2>1, <2>2, <2>3 DEF Header, Base
<1>9. ASSUME NEW j \in 0..k, Content(j)
      PROVE  Content(j)'
  <2> SUFFICES ASSUME NEW i \in 1..j
               PROVE  /\ Start(i)' + Len(assets'[i]) <= Len(image')
                      /\ \A m, n \in Nat : m >= 1 /\ m <= Len(assets'[i]) /\ n = Start(i)' + m
                           => image'[n] = assets'[i][m]
    BY DEF Content
  <2>1. Start(i)' = Start(i)
    BY <1>7
  <2>2. Start(i) \in Nat /\ Len(assets[i]) \in Nat /\ Start(i) + Len(assets[i]) <= Len(image)
    BY <1>9, AssetIs DEF Header, Content
  <2>3. Start(i) + Len(assets[i]) <= Len(image')
    BY <1>1, <1>2, <2>2
  <2>4. ASSUME NEW m \in Nat, NEW n \in Nat, m >= 1, m <= Len(assets[i]), n = Start(i) + m
        PROVE  image'[n] = assets[i][m]
    <3>1. n >= 1 /\ n <= Len(image)
      BY <1>1, <2>2, <2>4
    <3>2. image[n] = assets[i][m]
      BY <1>9, <2>4 DEF Content
    <3> QED BY <1>3, <3>1, <3>2
  <2> QED BY <2>1, <2>3, <2>4
<1> QED BY <1>2, <1>4, <1>7, <1>8, <1>9 DEF BundleTypes

LEMMA AddEntryStep == BInv /\ AddEntry => BundleTypes' /\ Bundled'
<1> SUFFICES ASSUME BInv, AddEntry PROVE BundleTypes' /\ Bundled'
  OBVIOUS
<1>1. step = "header" /\ written < Len(Asset)
  BY DEF AddEntry
<1>2. /\ written \in Nat /\ Len(Asset) \in Nat /\ BundleTypes
      /\ Header(written) /\ Len(image) = Base(written)
  BY <1>1, AssetIs DEF BInv, TInv, TransferTypes, Bundled
<1> PICK k \in Nat : k = written
  BY <1>2
<1> DEFINE i == k + 1
           e == [name |-> Asset[i], start |-> Start(i), size |-> Len(assets[i])]
           cells == <<e>> \o Zeros(EntrySize - 1)
<1>3. i \in 1..Len(Asset) /\ k <= Len(Asset) /\ i \in Nat /\ Header(k)
  BY <1>1, <1>2
<1>4. Start(i) \in Nat
  <2>1. i \in 1..k + 1
    OBVIOUS
  <2> QED BY <1>2, <1>3, <2>1, StartIs
<1>5. e \in Cells
  BY <1>2, <1>3, <1>4, AssetIs DEF Cells
<1>6. Adds(cells, "data")
  BY DEF AddEntry
<1>7. e.name = Asset[i] /\ e.start = Start(i) /\ e.size = Len(assets[i])
  OBVIOUS
<1>8. e = [name |-> Asset[i], start |-> Start(i), size |-> Len(assets[i])]
  OBVIOUS
<1> HIDE DEF e
<1>9. cells \in Seq(Cells) /\ Len(cells) = EntrySize /\ cells[1] = e /\ EntrySize \in Nat /\ EntrySize >= 1
  <2>1. EntrySize - 1 \in Nat /\ EntrySize \in Nat /\ EntrySize >= 1
    BY TransferAssumption
  <2>2. <<e>> \in Seq(Cells) /\ Len(<<e>>) = 1 /\ <<e>>[1] = e
    BY <1>5
  <2>3. Zeros(EntrySize - 1) \in Seq(Cells) /\ Len(Zeros(EntrySize - 1)) = EntrySize - 1
    BY <2>1, ZerosIs
  <2>4. cells \in Seq(Cells) /\ Len(cells) = 1 + (EntrySize - 1)
    BY <2>2, <2>3, JoinedIs
  <2>5. cells[1] = e
    BY <2>2, <2>3, JoinedIs
  <2> QED BY <2>1, <2>4, <2>5
<1> HIDE DEF cells
<1>10. /\ image' = image \o cells /\ assets' = assets
       /\ written' = (IF i = Len(Asset) THEN 0 ELSE i)
       /\ step' = (IF i = Len(Asset) THEN "data" ELSE "header")
  BY <1>1, <1>6 DEF Adds
<1>11. Header(k)' /\ BundleTypes' /\ Len(image') = Len(image) + Len(cells)
  BY <1>2, <1>3, <1>9, <1>10, Appended
<1>12. \A m \in 1..k + 1 : Start(m)' = Start(m)
  BY <1>2, <1>3, <1>9, <1>10, Appended
<1>13. Base(k) \in Nat /\ Base(i) = Base(k) + EntrySize /\ Place(i) = Base(k) + 1
  BY PlaceIs
<1>14. image'[Place(i)] = e
  <2>1. PICK j \in Nat : j = Len(image) + 1
    BY <1>2, <1>13
  <2>2. image'[j] = cells[1]
    BY <1>2, <1>3, <1>9, <1>10, <2>1, Appended
  <2> QED BY <1>2, <1>9, <1>13, <2>1, <2>2
<1>15. Len(image') = Base(i)
  BY <1>2, <1>9, <1>11, <1>13
<1>16. Header(i)'
  <2>1. Entry(i)' = e /\ Start(i)' = Start(i) /\ assets' = assets
    BY <1>10, <1>12, <1>14 DEF Entry, Place
  <2>2. ASSUME NEW m \in 1..i
        PROVE  /\ Start(m)' \in Nat
               /\ Entry(m)' = [name |-> Asset[m], start |-> Start(m)', size |-> Len(assets'[m])]
    <3>1. CASE m \in 1..k
      BY <1>11, <3>1 DEF Header
    <3>2. CASE m \notin 1..k
      <4>1. m = i
        BY <3>2
      <4> QED BY <1>4, <1>8, <2>1, <4>1
    <3> QED BY <3>1, <3>2
  <2>3. image'[1] = Len(Asset)
    BY <1>11 DEF Header
  <2>4. Len(image') >= Base(i)
    BY <1>9, <1>13, <1>15
  <2> QED BY <2>2, <2>3, <2>4 DEF Header, Base
<1>17. CASE i = Len(Asset)
  <2>1. written' = 0 /\ step' = "data"
    BY <1>10, <1>17
  <2>2. Header(Len(Asset))'
    BY <1>16, <1>17
  <2>3. Content(0)'
    BY DEF Content
  <2>4. Start(1)' = Base(Len(Asset))
    BY DEF Start, Base
  <2>5. Len(image') = Start(0 + 1)'
    BY <1>15, <1>17, <2>4
  <2> QED BY <1>3, <1>11, <2>1, <2>2, <2>3, <2>5 DEF Bundled, Content
<1>18. CASE i # Len(Asset)
  <2>1. written' = i /\ step' = "header" /\ i < Len(Asset)
    BY <1>2, <1>3, <1>10, <1>18
  <2>2. Len(image') = Base(written)'
    BY <1>15, <2>1 DEF Base
  <2>3. Header(written)'
    <3> HIDE DEF i
    <3> QED BY <1>16, <2>1 DEF Header, Base
  <2> QED BY <1>11, <2>1, <2>2, <2>3 DEF Bundled
<1> QED BY <1>17, <1>18

LEMMA AddDataStep == BInv /\ AddData => BundleTypes' /\ Bundled'
<1> SUFFICES ASSUME BInv, AddData PROVE BundleTypes' /\ Bundled'
  OBVIOUS
<1>1. step = "data" /\ written < Len(Asset)
  BY DEF AddData
<1>2. /\ written \in Nat /\ Len(Asset) \in Nat /\ BundleTypes
      /\ Header(Len(Asset)) /\ Content(written) /\ Len(image) = Start(written + 1)
  BY <1>1, AssetIs DEF BInv, TInv, TransferTypes, Bundled
<1> PICK k \in Nat : k = written
  BY <1>2
<1> PICK N \in Nat : N = Len(Asset)
  BY <1>2
<1> DEFINE i == k + 1
           asset == assets[i]
           size == Len(asset)
           cells == asset \o Zeros(Aligned(size) - size)
<1>3. i \in 1..Len(Asset) /\ i \in 1..N /\ k < N /\ i \in Nat
  BY <1>1, <1>2
<1>4. asset \in Seq(Bytes) /\ size \in Nat
  BY <1>2, <1>3, AssetIs
<1>5. Aligned(size) \in Nat /\ Aligned(size) >= size
  BY <1>4, AlignedIs
<1>6. Adds(cells, "idle")
  BY DEF AddData
<1>7. asset = assets[i] /\ size = Len(assets[i]) /\ size = Len(asset)
  OBVIOUS
<1> HIDE DEF asset, size
<1>8. cells \in Seq(Cells) /\ Len(cells) = Aligned(size)
  <2>1. Aligned(size) - size \in Nat
    BY <1>4, <1>5
  <2>2. asset \in Seq(Cells)
    BY <1>4, SeqMonotonic DEF Cells
  <2>3. Zeros(Aligned(size) - size) \in Seq(Cells) /\ Len(Zeros(Aligned(size) - size)) = Aligned(size) - size
    BY <2>1, ZerosIs
  <2> DEFINE zeros == Zeros(Aligned(size) - size)
  <2>4. cells \in Seq(Cells) /\ Len(cells) = size + Len(zeros)
    <3>1. cells = asset \o zeros /\ zeros \in Seq(Cells)
      BY <2>3
    <3> HIDE DEF zeros, cells
    <3>2. asset \o zeros \in Seq(Cells)
      BY ONLY <2>2, <3>1, JoinedIs
    <3>3. Len(asset \o zeros) = Len(asset) + Len(zeros)
      BY ONLY <2>2, <3>1, JoinedIs
    <3> QED BY <1>7, <3>1, <3>2, <3>3
  <2>5. Len(zeros) = Aligned(size) - size
    BY <2>3
  <2> HIDE DEF cells, zeros
  <2>6. Len(cells) = Aligned(size)
    BY ONLY <1>4, <1>5, <2>4, <2>5
  <2> QED BY <2>4, <2>6
<1>9. ASSUME NEW m \in Nat, m >= 1, m <= size
      PROVE  cells[m] = asset[m]
  <2>1. Aligned(size) - size \in Nat
    BY <1>4, <1>5
  <2> DEFINE zeros == Zeros(Aligned(size) - size)
  <2>2. zeros \in Seq(Bytes)
    BY <2>1, ZerosIs
  <2>3. m <= Len(asset) /\ cells = asset \o zeros
    BY <1>7, <1>9
  <2> HIDE DEF zeros, cells
  <2>4. (asset \o zeros)[m] = asset[m]
    BY ONLY <1>4, <1>9, m \in Nat, <2>2, <2>3, JoinedOld
  <2> QED BY <2>3, <2>4
<1> HIDE DEF cells
<1>10. /\ image' = image \o cells /\ assets' = assets
       /\ written' = (IF i = N THEN 0 ELSE i)
       /\ step' = (IF i = N THEN "idle" ELSE "data")
  BY <1>1, <1>6 DEF Adds
<1>11. N <= Len(Asset) /\ Header(N)
  BY <1>2
<1>12. Header(N)' /\ BundleTypes' /\ Len(image') = Len(image) + Len(cells)
  BY <1>2, <1>8, <1>10, <1>11, Appended
<1>13. \A m \in 1..N + 1 : Start(m)' = Start(m)
  BY <1>2, <1>8, <1>10, <1>11, Appended
<1>14. \A m \in 1..N : Start(m + 1) = Start(m) + Aligned(Len(assets[m]))
  BY <1>2, <1>11, StartIs
<1>15. Content(k)'
  <2>1. k \in 0..N /\ Content(k)
    BY <1>2, <1>3
  <2> QED BY <1>2, <1>8, <1>10, <1>11, <2>1, Appended
<1>16. Start(i) \in Nat /\ Start(i)' = Start(i) /\ Len(image) = Start(i)
  <2>1. \A m \in 1..N + 1 : Start(m) \in Nat
    BY <1>2, <1>11, StartIs
  <2>2. i \in 1..N + 1 /\ i = written + 1
    BY <1>3
  <2> QED BY <1>2, <1>13, <2>1, <2>2
<1>17. Len(image') = Start(i) + Aligned(size)
  BY <1>8, <1>12, <1>16
<1>18. Content(i)'
  <2>1. Start(i)' + Len(assets'[i]) <= Len(image')
    BY <1>4, <1>5, <1>7, <1>10, <1>16, <1>17
  <2>2. ASSUME NEW m \in Nat, NEW n \in Nat, m >= 1, m <= size, n = Start(i) + m
        PROVE  image'[n] = asset[m]
    <3>1. m <= Len(cells) /\ n = Len(image) + m
      BY <1>4, <1>5, <1>8, <1>16, <2>2
    <3>2. image'[n] = cells[m]
      BY <1>2, <1>8, <1>10, <1>11, <2>2, <3>1, Appended
    <3> QED BY <1>9, <2>2, <3>2
  <2>3. \A m, n \in Nat : m >= 1 /\ m <= Len(assets'[i]) /\ n = Start(i)' + m => image'[n] = assets'[i][m]
    <3>1. assets'[i] = asset /\ Len(assets'[i]) = size /\ Start(i)' = Start(i)
      BY <1>7, <1>10, <1>16
    <3> QED BY <2>2, <3>1
  <2>4. ASSUME NEW j \in 1..i
        PROVE  /\ Start(j)' + Len(assets'[j]) <= Len(image')
               /\ \A m, n \in Nat : m >= 1 /\ m <= Len(assets'[j]) /\ n = Start(j)' + m
                    => image'[n] = assets'[j][m]
    <3>1. CASE j \in 1..k
      BY <1>15, <3>1 DEF Content
    <3>2. CASE j \notin 1..k
      <4>1. j = i
        BY <3>2
      <4> QED BY <2>1, <2>3, <4>1
    <3> QED BY <3>1, <3>2
  <2> QED BY <2>4 DEF Content
<1>19. CASE i = N
  <2>1. step' = "idle"
    BY <1>10, <1>19
  <2>2. Header(Len(Asset))' /\ Content(Len(Asset))'
    BY <1>12, <1>18, <1>19
  <2> QED BY <1>12, <2>1, <2>2 DEF Bundled
<1>20. CASE i # N
  <2>1. written' = i /\ step' = "data" /\ i < Len(Asset) /\ written' = k + 1
    BY <1>3, <1>10, <1>20
  <2>2. Header(Len(Asset))'
    BY <1>12
  <2>3. Content(written)'
    BY <1>18, <2>1 DEF Content
  <2>4. Len(image') = Start(written + 1)'
    <3>1. i + 1 \in 1..N + 1
      BY <1>3
    <3>2. Start(i + 1)' = Start(i + 1)
      BY <1>13, <3>1
    <3>3. Start(i + 1) = Start(i) + Aligned(size)
      BY <1>3, <1>7, <1>14
    <3>4. Start(written + 1)' = Start(i + 1)'
      BY <2>1 DEF Start, Entry
    <3> QED BY <1>17, <3>2, <3>3, <3>4
  <2> QED BY <1>12, <2>1, <2>2, <2>3, <2>4 DEF Bundled
<1> QED BY <1>19, <1>20

LEMMA BundleInductive == TransferSpec => []BInv
<1>1. TransferInit => BundleTypes /\ Bundled
  <2> SUFFICES ASSUME TransferInit PROVE BundleTypes /\ Bundled
    OBVIOUS
  <2>1. image = <<>> /\ step = "open"
    BY DEF TransferInit
  <2>2. assets \in [DOMAIN Asset -> Seq(Bytes)]
    <3>1. UpTo(MaxAsset) \subseteq Seq(Bytes)
      BY DEF UpTo
    <3>2. CASE task.op = "bundle"
      BY <3>1, <3>2 DEF TransferInit
    <3>3. CASE task.op # "bundle"
      BY <3>3, EmptySeq DEF TransferInit
    <3> QED BY <3>2, <3>3
  <2>3. image \in Seq(Cells)
    BY <2>1
  <2> QED BY <2>1, <2>2, <2>3 DEF BundleTypes, Bundled
<1>2. BInv /\ [TransferNext]_transferVars => BundleTypes' /\ Bundled'
  <2> SUFFICES ASSUME BInv, [TransferNext]_transferVars PROVE BundleTypes' /\ Bundled'
    OBVIOUS
  <2>1. CASE Open
    <3>1. step' \in {"header", "pages"} /\ UNCHANGED <<assets, written>> /\ written = 0
          /\ (step' = "header" <=> task.op = "bundle")
          /\ image' = (IF task.op = "bundle" /\ Len(Asset) > 0
                       THEN <<Len(Asset)>> \o [n \in 1..CountSize - 1 |-> Zero] ELSE <<>>)
      BY <2>1 DEF Open, BInv, TInv, Stages
    <3>2. CASE task.op = "bundle" /\ Len(Asset) > 0
      <4> DEFINE count == <<Len(Asset)>>
                 rest == Zeros(CountSize - 1)
      <4>1. CountSize - 1 \in Nat /\ CountSize \in Nat /\ Len(Asset) \in Nat
        BY TransferAssumption, AssetIs
      <4>2. count \in Seq(Cells) /\ Len(count) = 1 /\ count[1] = Len(Asset)
        BY <4>1 DEF Cells
      <4>3. rest \in Seq(Cells) /\ Len(rest) = CountSize - 1
        BY <4>1, ZerosIs
      <4>4. image' = count \o rest
        BY <3>1, <3>2 DEF Zeros
      <4> HIDE DEF count, rest
      <4>5. image' \in Seq(Cells)
        BY ONLY <4>2, <4>3, <4>4, JoinedIs
      <4>6. Len(image') = Len(count) + Len(rest)
        BY ONLY <4>2, <4>3, <4>4, JoinedIs
      <4>7. image'[1] = Len(Asset)
        BY <4>2, <4>3, <4>4, JoinedIs
      <4>8. Len(image') = Base(0) /\ Base(0) \in Nat
        BY <4>1, <4>2, <4>3, <4>6, PlaceIs
      <4>9. Header(0)'
        BY <4>7, <4>8 DEF Header, Base
      <4>10. Header(written)' /\ Len(image') = Base(written)' /\ written' = 0
        BY <3>1, <4>8, <4>9 DEF Header, Base
      <4> QED BY <3>1, <3>2, <4>5, <4>10 DEF Bundled, BundleTypes, BInv
    <3>3. CASE ~ (task.op = "bundle" /\ Len(Asset) > 0)
      <4>1. image' = <<>> /\ image' \in Seq(Cells)
        BY <3>1, <3>3
      <4> QED BY <3>1, <3>3, <4>1 DEF Bundled, BundleTypes, BInv
    <3> QED BY <3>2, <3>3
  <2>2. CASE BundleNothing
    <3>1. image' = <<>> /\ step' = "idle" /\ assets' = assets
      BY <2>2 DEF BundleNothing
    <3> QED BY <3>1 DEF Bundled, BundleTypes, BInv
  <2>3. CASE TransferFails \/ Page \/ BlankPage \/ Pages \/ Hash
    <3>1. /\ UNCHANGED <<image, assets>> /\ step' \in {"pages", "end", "hash", "idle"}
          /\ step \in {"open", "pages", "end", "hash"}
      <4>1. CASE TransferFails
        BY <4>1 DEF TransferFails, Stop, BInv, TInv, TransferTypes, Stages
      <4>2. CASE Page
        BY <4>2 DEF Page, Goes
      <4>3. CASE BlankPage
        BY <4>3 DEF BlankPage
      <4>4. CASE Pages
        BY <4>4 DEF Pages, Stop
      <4>5. CASE Hash
        BY <4>5 DEF Hash, Stop
      <4> QED BY <2>3, <4>1, <4>2, <4>3, <4>4, <4>5
    <3>2. image' = <<>>
      BY <3>1 DEF BInv, Bundled
    <3> QED BY <3>1, <3>2 DEF BInv, Bundled, BundleTypes
  <2>4. CASE TransferEnded \/ UNCHANGED transferVars
    <3>1. UNCHANGED <<image, assets, written, step>>
      BY <2>4 DEF TransferEnded, transferVars
    <3>2. \A i : Entry(i)' = Entry(i)
      BY <3>1 DEF Entry
    <3>3. \A i : Start(i)' = Start(i)
      BY <3>2 DEF Start
    <3>4. \A k : Header(k) <=> Header(k)'
      BY <3>1, <3>2, <3>3 DEF Header, Base
    <3>5. \A k : Content(k) <=> Content(k)'
      BY <3>1, <3>3 DEF Content
    <3>6. Header(written)' <=> Header(written)
      BY <3>1, <3>2, <3>3 DEF Header, Base
    <3>7. Content(written)' <=> Content(written)
      BY <3>1, <3>3 DEF Content
    <3>8. Base(written)' = Base(written) /\ Start(written + 1)' = Start(written + 1)
      BY <3>1, <3>2 DEF Base, Start, Entry
    <3>9. Bundled'
      BY <3>1, <3>4, <3>5, <3>6, <3>7, <3>8 DEF BInv, Bundled
    <3> QED BY <3>1, <3>9 DEF BInv, BundleTypes
  <2> QED BY <2>1, <2>2, <2>3, <2>4, AddEntryStep, AddDataStep DEF TransferNext
<1>3. TransferInit /\ [][TransferNext]_transferVars /\ []TInv => []BInv
  <2>1. TInv /\ BundleTypes /\ Bundled <=> BInv
    BY DEF BInv
  <2> QED BY <1>1, <1>2, <2>1, PTL
<1> QED BY <1>3, TransferInductive, PTL DEF TransferSpec

(***************************************************************************)
(* An assets file gives back every asset that was bundled, for any number  *)
(* of assets of any sizes: each starts in the entries where the one before *)
(* it, padded, ends, and that is where its content has been appended.      *)
(***************************************************************************)
THEOREM AssetsAreRead == TransferSpec => []AssetsRead
<1>1. BInv => AssetsRead
  <2> SUFFICES ASSUME BInv, step = "idle", image # <<>>, NEW i \in DOMAIN Asset,
                      \A j \in 1..i - 1 : Asset[j] # Asset[i]
               PROVE  AssetRead(Asset[i]) = assets[i]
    BY DEF AssetsRead
  <2> PICK N \in Nat : N = Len(Asset)
    BY AssetIs
  <2> DEFINE entries == {j \in 1..image[1] : Entry(j).name = Asset[i]}
             entry == Entry(CHOOSE j \in entries : \A l \in entries : j <= l)
             size == Len(assets[i])
  <2>1. Header(N) /\ Content(N) /\ i \in 1..N /\ image[1] = N /\ image \in Seq(Cells)
    BY AssetIs DEF BInv, Bundled, Header, BundleTypes
  <2>2. \A j \in 1..N : Entry(j).name = Asset[j]
    BY <2>1 DEF Header
  <2>3. i \in entries /\ \A l \in entries : i <= l
    <3>1. i \in entries
      BY <2>1, <2>2
    <3>2. ASSUME NEW l \in entries, ~ i <= l
          PROVE  FALSE
      <4>1. l \in 1..i - 1
        BY <2>1, <3>2
      <4> QED BY <2>1, <2>2, <4>1
    <3> QED BY <3>1, <3>2
  <2>4. (CHOOSE j \in entries : \A l \in entries : j <= l) = i
    <3>1. \A j \in entries : j \in Int
      BY <2>1
    <3> HIDE DEF entries
    <3> QED BY <2>3, <3>1
  <2>5. entry.start = Start(i) /\ entry.size = size /\ Start(i) \in Nat
    BY <2>1, <2>4 DEF Header
  <2>6. assets[i] \in Seq(Bytes) /\ size \in Nat /\ Len(image) \in Nat
    BY <2>1, AssetIs, LenProperties DEF BInv
  <2> DEFINE off == Start(i)
             p == Part(image, off, size)
  <2>7. AssetRead(Asset[i]) = p
    BY <2>5 DEF AssetRead
  <2>8. off \in Nat /\ off + size <= Len(image)
        /\ \A m, n \in Nat : m >= 1 /\ m <= size /\ n = off + m => image[n] = assets[i][m]
    BY <2>1, <2>5 DEF Content
  <2>9. size = Len(assets[i])
    OBVIOUS
  <2> HIDE DEF off, size
  <2>10. p \in Seq(Cells)
    BY <2>1, <2>6, <2>8, PartIs
  <2>11. Len(p) = size
    BY <2>1, <2>6, <2>8, PartLength
  <2>12. ASSUME NEW m \in Nat, m >= 1, m <= Len(p)
         PROVE  p[m] = assets[i][m]
    <3>1. PICK n \in Nat : n = off + m
      BY <2>8
    <3>2. p[m] = image[n]
      BY ONLY <2>1, <2>6, <2>8, m \in Nat, n \in Nat, <2>12, <3>1, PartElement DEF p
    <3> QED BY <2>8, <2>11, <2>12, <3>1, <3>2
  <2>13. assets[i] \in Seq(Cells)
    BY <2>6, SeqMonotonic DEF Cells
  <2> HIDE DEF p
  <2>14. p = assets[i]
    BY <2>9, <2>10, <2>11, <2>12, <2>13, SameFile
  <2> QED BY <2>7, <2>14
<1> QED BY <1>1, BundleInductive, PTL
=============================================================================
