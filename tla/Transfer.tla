------------------------------ MODULE Transfer -------------------------------
(***************************************************************************)
(* FileSystemGroup's commands that move bytes: fs.write, fs.read and       *)
(* fs.download, page by page, and fs.bundle, which makes an assets file of *)
(* the files of the host; fs.verify and the reading of an asset are        *)
(* operators over what they leave.  A behaviour is one command, with any   *)
(* options, on any files.  Any page may fail: the command then fails, and  *)
(* what was written remains.                                               *)
(*                                                                         *)
(* A file is a sequence of bytes; a write beyond its end fills the gap.    *)
(* An assets file is laid out as the code does it, with the size of the    *)
(* count and of a directory entry as parameters; the count and an entry    *)
(* are written whole into the first of their cells.                        *)
(***************************************************************************)
EXTENDS Integers, Sequences

CONSTANTS
  Bytes,
  Blank,        \* the byte that an erased page is full of
  Zero,         \* what is in a gap, and padding
  Asset,        \* names of the assets, sorted; sources may have one in common
  CountSize,    \* sizeof(count)
  EntrySize,    \* sizeof(drive_assetfs_dirent_t)
  MaxSize,      \* bound: bytes of a file
  MaxAsset,     \* bound: bytes of an asset
  MaxLocation,  \* bound: where a transfer begins
  PageSizes     \* bound: sizes of a page

ASSUME TransferAssumption ==
  /\ Blank \in Bytes /\ Zero \in Bytes
  /\ Asset \in Seq(STRING)
  /\ CountSize \in Nat \ {0} /\ EntrySize \in Nat \ {0}
  /\ MaxSize \in Nat /\ MaxAsset \in Nat /\ MaxLocation \in Nat
  /\ PageSizes \subseteq Nat \ {0}

VARIABLES
  from,     \* the source
  to,       \* the destination
  was,      \* history: the destination before
  task,     \* the command
  written,  \* bytes, or entries, that are done
  step,     \* where the command is
  assets,   \* the files that are bundled
  image,    \* the assets file
  outcome

transferVars == <<from, to, was, task, written, step, assets, image, outcome>>

WriteTasks == [op : {"write", "blank"}, location : 0..MaxLocation, asset : {FALSE},
               size : 0..MaxSize + 1, page : PageSizes, hash : {FALSE}]

\* The source of fs.read may be an asset, <file>.assetfs/<name>.
ReadTasks == [op : {"read", "append"}, location : 0..MaxLocation, asset : BOOLEAN,
              size : 0..MaxSize + 1, page : PageSizes, hash : {FALSE}]

DownloadTasks == [op : {"download"}, location : {0}, asset : {FALSE}, size : {0},
                  page : PageSizes, hash : BOOLEAN]

BundleTasks == [op : {"bundle"}, location : {0}, asset : {FALSE}, size : {0},
                page : PageSizes, hash : {FALSE}]

Tasks == WriteTasks \cup ReadTasks \cup DownloadTasks \cup BundleTasks

UpTo(n) == UNION {[1..k -> Bytes] : k \in 0..n}

Least(a, b) == IF a < b THEN a ELSE b

\* A bundle has assets and no source, the others a source and no assets.
TransferInit ==
  /\ task \in Tasks
  /\ IF task.op = "bundle"
     THEN /\ from = <<>> /\ to = <<>>
          /\ assets \in [DOMAIN Asset -> UpTo(MaxAsset)]
     ELSE /\ from \in UpTo(MaxSize) /\ to \in UpTo(MaxSize)
          /\ assets = [i \in DOMAIN Asset |-> <<>>]
  /\ was = to /\ written = 0 /\ image = <<>>
  /\ step = "open" /\ outcome = "none"

-----------------------------------------------------------------------------
\* The library: seek() and write(), and read() of so many bytes.

Overlay(f, at, bytes) ==
  IF bytes = <<>> THEN f
  ELSE [i \in 1..(IF Len(f) > at + Len(bytes) THEN Len(f) ELSE at + Len(bytes)) |->
          IF i \in at + 1..at + Len(bytes) THEN bytes[i - at]
          ELSE IF i <= Len(f) THEN f[i] ELSE Zero]

Part(f, at, n) == SubSeq(f, at + 1, Least(at + n, Len(f)))

-----------------------------------------------------------------------------
Stop(result) ==
  /\ step' = "idle" /\ outcome' = result
  /\ UNCHANGED <<from, was, task, written, assets, image>>

\* No connection, a path that does not exist, a page size that is not positive,
\* or a failure of the library at any page.
TransferFails ==
  /\ step # "idle" /\ task.op # "bundle"
  /\ Stop("failure") /\ UNCHANGED to

\* The destination of fs.write is opened without being created or truncated; a
\* download, or a read that does not append, empties it.  An asset that is empty
\* is not found.
Open ==
  /\ step = "open" /\ (task.asset => from # <<>>)
  /\ step' = (IF task.op = "bundle" THEN "header" ELSE "pages")
  /\ to' = (IF task.op \in {"read", "download"} THEN <<>> ELSE to)
  /\ image' = (IF task.op = "bundle" /\ Len(Asset) > 0
               THEN <<Len(Asset)>> \o [i \in 1..CountSize - 1 |-> Zero] ELSE <<>>)
  /\ UNCHANGED <<from, was, task, written, assets, outcome>>

\* `size`, or all.
Asked == IF task.size > 0 THEN task.size ELSE Len(from)

\* fs.read seeks `location` in a file; an asset is copied out of its assets file
\* and read from the beginning.
First == IF task.op \in {"read", "append"} /\ ~ task.asset THEN task.location ELSE 0

Available == Part(from, First, Asked)

Goes(n) ==
  /\ written' = written + n
  /\ UNCHANGED <<from, was, task, step, assets, image, outcome>>

\* A page of File::write(): into the destination, or at the end of it.
Page ==
  /\ step = "pages" /\ task.op # "blank" /\ written < Len(Available)
  /\ LET page == Part(Available, written, task.page)
     IN  /\ to' = IF task.op = "write"
                  THEN Overlay(to, task.location + written, page) ELSE to \o page
         /\ Goes(Len(page))

\* fs.write:blank=<byte>.  A page that the source does not fill is filled up,
\* and cut at `size`; one that is blank is stepped over.
BlankPage ==
  LET read == Part(from, written, task.page)
      page == [i \in 1..Least(task.page, Asked - written) |->
                 IF i <= Len(read) THEN read[i] ELSE Blank]
  IN  /\ step = "pages" /\ task.op = "blank" /\ read # <<>>
      /\ to' = IF \A i \in DOMAIN page : page[i] = Blank THEN to
               ELSE Overlay(to, task.location + written, page)
      /\ written' = written + Len(page)
      /\ step' = (IF Len(page) = task.page THEN "pages" ELSE "end")
      /\ UNCHANGED <<from, was, task, assets, image, outcome>>

\* The end of the source; the answer to a download may be short.
Pages ==
  /\ step \in {"pages", "end"}
  /\ CASE task.op = "blank" -> step = "end" \/ written >= Len(from)
       [] task.op = "download" -> TRUE
       [] OTHER -> written >= Len(Available)
  /\ IF task.op = "download"
     THEN /\ step' = "hash"
          /\ UNCHANGED <<from, to, was, task, written, assets, image, outcome>>
     ELSE Stop("success") /\ UNCHANGED to

\* Mutant of Hash: a hash that does not match is only reported.
HashReported == step = "hash" /\ Stop("success") /\ UNCHANGED to

\* The file is read again.  One that is not what the hash is of remains.
Hash ==
  /\ step = "hash"
  /\ Stop(IF task.hash /\ to # from THEN "failure" ELSE "success")
  /\ UNCHANGED to

-----------------------------------------------------------------------------
\* gather_assets(): first the count and the entries, with the sizes that the
\* files have, then their contents.

Aligned(size) == (size \div 4) * 4 + 4

Zeros(n) == [i \in 1..n |-> Zero]

Entry(i) == image[CountSize + (i - 1) * EntrySize + 1]

Start(i) == IF i = 1 THEN CountSize + Len(Asset) * EntrySize
            ELSE Entry(i - 1).start + Aligned(Entry(i - 1).size)

Adds(cells, next) ==
  /\ image' = image \o cells
  /\ written' = (IF written + 1 = Len(Asset) THEN 0 ELSE written + 1)
  /\ step' = (IF written + 1 = Len(Asset) THEN next ELSE step)
  /\ outcome' = (IF step' = "idle" THEN "success" ELSE outcome)
  /\ UNCHANGED <<from, to, was, task, assets>>

AddEntry ==
  /\ step = "header" /\ written < Len(Asset)
  /\ LET i == written + 1
     IN  Adds(<<[name |-> Asset[i], start |-> Start(i), size |-> Len(assets[i])]>>
                \o Zeros(EntrySize - 1), "data")

\* Mutant of AddData: a size that is aligned is not padded.
AddDataTight ==
  /\ step = "data"
  /\ LET i == written + 1
         size == Len(assets[i])
     IN  Adds(assets[i] \o Zeros(((size + 3) \div 4) * 4 - size), "idle")

AddData ==
  /\ step = "data" /\ written < Len(Asset)
  /\ LET i == written + 1
         size == Len(assets[i])
     IN  Adds(assets[i] \o Zeros(Aligned(size) - size), "idle")

\* A source that is missing leaves an error pending, with which no assets file
\* is created; success is reported all the same.  So it is when there are no
\* assets.
BundleNothing ==
  /\ step \in {"header", "data"}
  /\ image' = <<>> /\ step' = "idle" /\ outcome' = "success"
  /\ UNCHANGED <<from, to, was, task, written, assets>>

\* The command has ended.
TransferEnded == step = "idle" /\ UNCHANGED transferVars

TransferNext ==
  \/ Open \/ TransferFails \/ Page \/ BlankPage \/ Pages \/ Hash
  \/ AddEntry \/ AddData \/ BundleNothing \/ TransferEnded

TransferSpec == TransferInit /\ [][TransferNext]_transferVars

-----------------------------------------------------------------------------
\* fs.verify of the destination with the options of fs.write: `location` seeks
\* in the destination.
Verified ==
  LET size == IF task.size > 0 THEN task.size
              ELSE IF from = <<>> THEN Len(to) ELSE Len(from)
  IN  Part(to, task.location, size) = Part(from, 0, size)

\* fs.read of an asset: the first entry of that name; nothing if it is empty.
AssetRead(name) ==
  LET entries == {i \in 1..image[1] : Entry(i).name = name}
      entry == Entry(CHOOSE i \in entries : \A j \in entries : i <= j)
  IN  Part(image, entry.start, entry.size)

Succeeded(ops) == step = "idle" /\ outcome = "success" /\ task.op \in ops

Erased == \A i \in DOMAIN was : was[i] = Blank

(***************************************************************************)
(* fs.verify finds what fs.write wrote, also if it stepped over blank      *)
(* pages of an erased destination that is large enough; fs.read leaves the *)
(* part of the source that was asked for, of an asset what is at its       *)
(* beginning, wherever `location` is, behind what was there with append; a *)
(* download that is given a hash is complete.  And whatever fails and      *)
(* wherever, fs.write changes no byte before `location` or behind what it  *)
(* has been asked to write, and an fs.read that appends none that was      *)
(* there.  So for every size, location and page size, at the boundaries    *)
(* too.  The exceptions: a source that is empty, which fs.verify compares  *)
(* with all that there is, and one that is shorter than `size`.            *)
(***************************************************************************)
TransferSound ==
  /\ from # <<>> /\ Asked <= Len(from) =>
       /\ Succeeded({"write"}) => Verified
       /\ Succeeded({"blank"}) /\ Erased /\ Len(was) >= task.location + Asked => Verified
  /\ LET at == IF task.asset THEN 0 ELSE task.location
     IN  /\ Succeeded({"read"}) => to = Part(from, at, Asked)
         /\ Succeeded({"append"}) => to = was \o Part(from, at, Asked)
  /\ Succeeded({"download"}) /\ task.hash => to = from
  /\ task.op \in {"write", "blank"} =>
       \A i \in DOMAIN was :
         i <= task.location \/ i > task.location + Asked => to[i] = was[i]
  /\ task.op = "append" => Part(to, 0, Len(was)) = was

(***************************************************************************)
(* Every asset of a bundle, the first of its name, is read as it was when  *)
(* it was bundled: the starts in the entries, computed from the sizes      *)
(* before any content is written, are where the contents end up.           *)
(***************************************************************************)
AssetsRead ==
  step = "idle" /\ task.op = "bundle" /\ image # <<>> =>
    \A i \in DOMAIN Asset :
      (\A j \in 1..i - 1 : Asset[j] # Asset[i]) => AssetRead(Asset[i]) = assets[i]
=============================================================================
