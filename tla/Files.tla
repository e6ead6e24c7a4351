-------------------------------- MODULE Files --------------------------------
(***************************************************************************)
(* FileSystemGroup's commands that change a file system: fs.copy, fs.mkdir *)
(* and fs.remove, on a device or on the host.  Each is a sequence of calls *)
(* of Link::FileSystem and Link::File (external), any of which may fail:   *)
(* a full or read-only file system, a cable that is pulled.  The library   *)
(* remembers a failure in the thread's error context, and while it does,   *)
(* the calls after it do nothing.                                          *)
(*                                                                         *)
(* A tree gives what is at each path at or below the source or the         *)
(* destination: nothing, a directory, or a file.  The content of a file of *)
(* the source is the file's path in it, so that what was copied where      *)
(* shows.  The contents "old" and "part" are only found in the             *)
(* destination: a file of its own, and one that is opened for writing and  *)
(* not written to its end.                                                 *)
(***************************************************************************)
EXTENDS Naturals

CONSTANTS
  Paths,   \* relative to the source and to the destination
  Top,     \* the source and the destination themselves
  Above,   \* the directories of the tree that a path is in
  Inside   \* in a destination that is a directory, the name of a source file

ASSUME FilesAssumption ==
  /\ Top \in Paths /\ Inside \in Paths \ {Top}
  /\ Above \in [Paths -> SUBSET Paths]
  /\ Above[Top] = {} /\ Above[Inside] = {Top}
  /\ \A p \in Paths \ {Top} :
       Top \in Above[p] /\ \E q \in Above[p] \cup {p} : Above[q] = {Top}
  /\ \A p \in Paths : p \notin Above[p] /\ \A q \in Above[p] : Above[q] \subseteq Above[p]
  /\ {"none", "dir", "old", "part"} \cap Paths = {}

Contents == Paths \cup {"old", "part"}
Trees == [Paths -> Contents \cup {"none", "dir"}]

\* The options of the command, and two facts about its paths: the name of the
\* source begins with a '.', the destination is in the device's /app.
Options == [overwrite : BOOLEAN, recursive : BOOLEAN, all : BOOLEAN,
            hidden : BOOLEAN, appfs : BOOLEAN]

VARIABLES
  source,   \* the tree that is copied
  target,   \* the tree that is copied to, made or removed
  parent,   \* the directory that target is in exists
  pc,       \* where the command is
  op,       \* which command it is
  options,
  info,     \* destination_info, as it was read
  check,    \* is_check_destination_overwrite
  base,     \* destination_link_path
  todo,     \* the entries of the list that are not handled
  entry,    \* the one that is handled
  error,    \* is_error()
  result,   \* what the command returned
  before,   \* history: target when the command began
  listed    \* history: the list

commandVars == <<op, options, info, check, base, todo, entry, error>>
vars == <<source, target, parent, pc, commandVars, result, before, listed>>

IsFile(x) == x \in Contents
Kind(x) == IF IsFile(x) THEN "file" ELSE x

Below(p) == {q \in Paths : p \in Above[q]}

\* Whatever exists is in directories.
WellFormed(tree) ==
  \A p \in Paths : tree[p] # "none" => \A q \in Above[p] : tree[q] = "dir"

Types ==
  /\ source \in Trees /\ target \in Trees
  /\ parent \in BOOLEAN
  /\ pc \in {"idle", "info", "directory", "file", "entries", "open", "transfer",
             "tree"}
  /\ op \in {"copy", "mkdir", "remove"}
  /\ options \in Options
  /\ info \in {"none", "dir", "file"}
  /\ check \in BOOLEAN
  /\ base \in {Top, Inside}
  /\ todo \in SUBSET Paths /\ entry \in Paths
  /\ error \in BOOLEAN
  /\ result \in {"none", "success", "failure"}
  /\ before \in Trees
  /\ listed \in SUBSET Paths

\* The variables have their types, and the destination is a tree.
TypeOK == Types /\ WellFormed(target)

Init ==
  /\ source \in {t \in Trees : /\ WellFormed(t)
                               /\ \A p \in Paths : IsFile(t[p]) => t[p] = p}
  /\ target \in {t \in [Paths -> {"none", "dir", "old"}] : WellFormed(t)}
  /\ parent \in BOOLEAN /\ (target[Top] # "none" => parent)
  /\ pc = "idle" /\ op = "copy"
  /\ options = [overwrite |-> FALSE, recursive |-> FALSE, all |-> FALSE,
                hidden |-> FALSE, appfs |-> FALSE]
  /\ info = "none" /\ check = FALSE /\ base = Top
  /\ todo = {} /\ entry = Top /\ error = FALSE
  /\ result = "none"
  /\ before = target /\ listed = {}

-----------------------------------------------------------------------------
\* The library: what its calls make of a tree.

Put(tree, p, x) == [tree EXCEPT ![p] = x]

\* Without what is removed, or with the directories made.
Without(tree, gone) == [p \in Paths |-> IF p \in gone THEN "none" ELSE tree[p]]
WithDirectories(tree, made) ==
  [p \in Paths |-> IF p \in made THEN "dir" ELSE tree[p]]

\* read_directory(): the entries of a directory, or with IsRecursive::yes the
\* files at or below them.
Entries(tree, recursive) ==
  IF recursive THEN {p \in Below(Top) : IsFile(tree[p])}
               ELSE {p \in Below(Top) : Above[p] = {Top} /\ tree[p] # "none"}

Missing(p) == {q \in Above[p] : target[q] = "none"}

\* directory_exists() of the directory that p of the destination is in.
HasParent(p) ==
  IF p = Top THEN parent ELSE \A q \in Above[p] : target[q] = "dir"

-----------------------------------------------------------------------------
\* The end of a command.
Return(success) ==
  /\ pc' = "idle" /\ result' = (IF success THEN "success" ELSE "failure")
  /\ UNCHANGED <<source, commandVars, before, listed>>

Fail == Return(FALSE) /\ UNCHANGED <<target, parent>>

Begin(o, opts) ==
  /\ pc = "idle"
  /\ op' = o /\ options' = opts
  /\ info' = "none" /\ check' = FALSE /\ base' = Top
  /\ todo' = {} /\ entry' = Top /\ error' = FALSE
  /\ before' = target /\ listed' = {}
  /\ \/ pc' = "info" /\ result' = "none"
     \/ pc' = "idle" /\ result' = "failure"    \* no connection
  /\ UNCHANGED <<source, target, parent>>

-----------------------------------------------------------------------------
\* fs.mkdir: what exists at the path is left as it is.
Mkdir ==
  /\ pc = "info" /\ op = "mkdir"
  /\ \/ target[Top] # "none" /\ Return(TRUE) /\ UNCHANGED <<target, parent>>
     \/ /\ target[Top] = "none" /\ parent
        /\ target' = Put(target, Top, "dir")
        /\ Return(TRUE) /\ UNCHANGED parent
     \/ Fail

-----------------------------------------------------------------------------
\* fs.copy, once per command.

\* get_info() of the source and of the destination; a destination that cannot
\* be read is taken for one that does not exist.
CopyInfo ==
  /\ pc = "info" /\ op = "copy"
  /\ \/ Fail
     \/ /\ source[Top] # "none"
        /\ info' \in {Kind(target[Top]), "none"}
        /\ check' = (info' = "file")
        /\ pc' = IF source[Top] = "dir" THEN "directory" ELSE "file"
        /\ UNCHANGED <<source, target, parent, op, options, base, todo, entry,
                       error, result, before, listed>>

ReadList(list) ==
  /\ pc' = "entries" /\ todo' = list /\ listed' = list
  /\ UNCHANGED <<source, op, options, info, entry, error, result, before>>

\* Mutants of CopyDirectory: an existing destination is emptied first; the check
\* of what exists is forgotten.
CopyDirectoryAfresh ==
  /\ pc = "directory"
  /\ \/ Fail
     \/ /\ info = "dir"
        /\ target' = Without(target, Below(Top))
        /\ check' = (~ options.overwrite)
        /\ ReadList(Entries(source, options.recursive))
        /\ UNCHANGED <<parent, base>>

CopyDirectoryUnchecked ==
  /\ pc = "directory"
  /\ \/ Fail
     \/ /\ info = "dir"
        /\ ReadList(Entries(source, options.recursive))
        /\ UNCHANGED <<target, parent, check, base>>

\* The source is a directory.  A list that cannot be read leaves an error
\* pending, with which no entry is copied.
CopyDirectory ==
  /\ pc = "directory"
  /\ \/ Fail
     \/ /\ info = "none" /\ parent' = TRUE     \* created, but not all of it
        /\ Return(FALSE) /\ UNCHANGED target
     \/ /\ info = "none" /\ ~ IsFile(target[Top])
        /\ parent' = TRUE /\ target' = Put(target, Top, "dir")
        /\ \/ /\ ReadList(Entries(source, options.recursive))
              /\ UNCHANGED <<check, base>>
           \/ Return(FALSE)
     \/ /\ info = "dir"
        /\ check' = (~ options.overwrite)
        /\ ReadList(Entries(source, options.recursive))
        /\ UNCHANGED <<target, parent, base>>

\* The source is a file: it is copied into a directory under its own name, and
\* over a file only with overwrite.
CopyFile ==
  /\ pc = "file"
  /\ \/ info = "file" /\ ~ options.overwrite /\ Fail
     \/ /\ info = "file" => options.overwrite
        /\ base' = IF info = "dir" THEN Inside ELSE Top
        /\ ReadList({Top})
        /\ UNCHANGED <<target, parent, check>>

-----------------------------------------------------------------------------
\* fs.copy, once per entry of the list.

Goal(e) == IF source[Top] = "dir" THEN e ELSE base

\* is_destination_valid: of the destination of the command, not of the entry.
IsDestinationValid == check /\ target[base] # "none"

Skips == options.hidden \/ (IsDestinationValid /\ ~ options.overwrite)

SkipEntry(e) ==
  /\ pc = "entries" /\ op = "copy" /\ e \in todo /\ Skips
  /\ \/ /\ todo' = todo \ {e}
        /\ UNCHANGED <<source, target, parent, pc, op, options, info, check,
                       base, entry, error, result, before, listed>>
     \/ Fail

Handles(e) == pc = "entries" /\ op = "copy" /\ e \in todo /\ ~ Skips

Open(e) ==
  /\ entry' = e /\ pc' = "open"
  /\ UNCHANGED <<source, op, options, info, check, base, todo, error, result,
                 before, listed>>

\* In /app, what is at the destination is removed before the file is created.
PrepareApp(e) ==
  /\ Handles(e) /\ options.appfs
  /\ \/ ~ IsDestinationValid /\ Open(e) /\ UNCHANGED <<target, parent>>
     \/ /\ IsDestinationValid /\ IsFile(target[Goal(e)])
        /\ target' = Put(target, Goal(e), "none")
        /\ \/ Open(e)
           \/ Return(FALSE)     \* the source file does not exist
        /\ UNCHANGED parent
     \/ Fail

MakeParent(e) ==
  \/ /\ parent' = TRUE
     /\ target' = WithDirectories(target, Missing(Goal(e)))
     /\ WellFormed(target')
     /\ Open(e)
  \/ /\ parent' \in {parent, TRUE}
     /\ \E made \in SUBSET Missing(Goal(e)) :
          target' = WithDirectories(target, made)
     /\ WellFormed(target') /\ (target'[Top] # "none" => parent')
     /\ Return(FALSE)

\* Elsewhere, the directory of the destination is made if recursive is set: all
\* of the directories that are missing, or some of them before a failure.
PrepareFile(e) ==
  /\ Handles(e) /\ ~ options.appfs
  /\ \/ HasParent(Goal(e)) /\ Open(e) /\ UNCHANGED <<target, parent>>
     \/ ~ HasParent(Goal(e)) /\ options.recursive /\ MakeParent(e)
     \/ Fail

\* The destination is opened before the source, and truncated.
OpenEntry ==
  /\ pc = "open"
  /\ \/ /\ HasParent(Goal(entry)) /\ target[Goal(entry)] # "dir"
        /\ target' = Put(target, Goal(entry), "part")
        /\ pc' = "transfer"
        /\ UNCHANGED <<source, parent, commandVars, result, before, listed>>
     \/ Fail

\* Mutant of TransferEntry: is_error() is not consulted, and the loop goes on.
TransferEntryUnchecked ==
  /\ pc = "transfer"
  /\ \/ /\ IsFile(source[entry])
        /\ target' = Put(target, Goal(entry), source[entry])
     \/ UNCHANGED target
  /\ todo' = todo \ {entry} /\ pc' = "entries"
  /\ UNCHANGED <<source, parent, op, options, info, check, base, entry, error,
                 result, before, listed>>

\* A source that is a directory can be opened but not read.
TransferEntry ==
  /\ pc = "transfer"
  /\ \/ /\ IsFile(source[entry])
        /\ target' = Put(target, Goal(entry), source[entry])
        /\ todo' = todo \ {entry} /\ pc' = "entries"
        /\ UNCHANGED <<source, parent, op, options, info, check, base, entry,
                       error, result, before, listed>>
     \/ Fail

CopyEnd ==
  /\ pc = "entries" /\ op = "copy" /\ todo = {}
  /\ Return(TRUE) /\ UNCHANGED <<target, parent>>

-----------------------------------------------------------------------------
\* fs.remove.

\* remove_directory() with IsRecursive::yes, or what it did before it failed.
RemovesTree(p) == target' = Without(target, Below(p) \cup {p})
RemovesPart(p) ==
  \E gone \in SUBSET (Below(p) \cup {p}) :
    target' = Without(target, gone) /\ WellFormed(target')

RemoveInfo ==
  /\ pc = "info" /\ op = "remove"
  /\ \/ Fail
     \/ /\ options.all /\ target[Top] = "dir"
        /\ pc' = "entries" /\ todo' = Entries(target, FALSE) /\ listed' = todo'
        /\ UNCHANGED <<source, target, parent, op, options, info, check, base,
                       entry, error, result, before>>
     \/ /\ ~ options.all /\ target[Top] # "none"
        /\ pc' = "tree"
        /\ UNCHANGED <<source, target, parent, commandVars, result, before, listed>>

\* Mutant of RemoveEntry: the error is reset after the warning.
RemoveEntryReset(e) ==
  /\ pc = "entries" /\ op = "remove" /\ e \in todo
  /\ todo' = todo \ {e}
  /\ \/ UNCHANGED target
     \/ target[e] = "dir" /\ options.recursive /\ RemovesTree(e)
     \/ IsFile(target[e]) /\ target' = Put(target, e, "none")
  /\ UNCHANGED <<source, parent, pc, op, options, info, check, base, entry,
                 error, result, before, listed>>

\* One entry of the list; after a failure the calls for the others do nothing.
RemoveEntry(e) ==
  /\ pc = "entries" /\ op = "remove" /\ e \in todo
  /\ todo' = todo \ {e}
  /\ \/ error /\ UNCHANGED <<target, error>>
     \/ error' = TRUE /\ UNCHANGED target
     \/ /\ ~ error /\ target[e] = "dir" /\ options.recursive
        /\ \/ RemovesTree(e) /\ UNCHANGED error
           \/ RemovesPart(e) /\ error' = TRUE
     \/ /\ ~ error /\ target[e] = "dir" /\ ~ options.recursive
        /\ UNCHANGED <<target, error>>
     \/ /\ ~ error /\ IsFile(target[e])
        /\ target' = Put(target, e, "none") /\ UNCHANGED error
  /\ UNCHANGED <<source, parent, pc, op, options, info, check, base, entry,
                 result, before, listed>>

RemoveEnd ==
  /\ pc = "entries" /\ op = "remove" /\ todo = {}
  /\ Return(~ error) /\ UNCHANGED <<target, parent>>

\* Without all: a directory only with recursive.
RemoveTop ==
  /\ pc = "tree"
  /\ \/ /\ target[Top] = "dir" /\ options.recursive
        /\ \/ RemovesTree(Top) /\ Return(TRUE)
           \/ RemovesPart(Top) /\ Return(FALSE)
     \/ IsFile(target[Top]) /\ target' = Put(target, Top, "none") /\ Return(TRUE)
     \/ Return(FALSE) /\ UNCHANGED target
  /\ UNCHANGED parent

-----------------------------------------------------------------------------
Next ==
  \/ \E o \in {"copy", "mkdir", "remove"}, opts \in Options : Begin(o, opts)
  \/ Mkdir
  \/ CopyInfo \/ CopyDirectory \/ CopyFile
  \/ \E e \in Paths : SkipEntry(e) \/ PrepareApp(e) \/ PrepareFile(e)
  \/ OpenEntry \/ TransferEntry \/ CopyEnd
  \/ RemoveInfo \/ (\E e \in Paths : RemoveEntry(e)) \/ RemoveEnd \/ RemoveTop

Spec == Init /\ [][Next]_vars

-----------------------------------------------------------------------------
Succeeded(o) == pc = "idle" /\ op = o /\ result = "success"

(***************************************************************************)
(* A copy that succeeds, and that did not skip its entries, leaves every   *)
(* entry that it listed at its place in the destination, complete.         *)
(***************************************************************************)
CopySound ==
  Succeeded("copy") /\ ~ options.hidden /\ ~ (check /\ ~ options.overwrite) =>
    \A e \in listed : target[Goal(e)] = source[e]

(***************************************************************************)
(* A copy, wherever it fails, costs the destination at most one file: what *)
(* else changed is a file that was copied completely or a directory that   *)
(* was made.  Nothing is undone, and after a failure no more is opened.    *)
(***************************************************************************)
OneBroken ==
  op = "copy" =>
    \A p \in Paths :
      \/ target[p] = before[p]
      \/ before[p] = "none" /\ target[p] = "dir"
      \/ \E e \in listed : p = Goal(e) /\ target[p] = source[e]
      \/ p = Goal(entry) /\ target[p] \in {"none", "part"}

(***************************************************************************)
(* Without overwrite a copy changes no file of the destination, if the     *)
(* destination could be read and is not the directory of a single file.    *)
(***************************************************************************)
ExistingKept ==
  op = "copy" /\ ~ options.overwrite /\ base = Top /\ info = Kind(before[Top]) =>
    \A p \in Paths : IsFile(before[p]) => target[p] = before[p]

(***************************************************************************)
(* A remove that succeeds removed all that it was asked for, and one that  *)
(* does not ask for the directory itself, or not for directories, leaves   *)
(* them; whatever happens, nothing appears or is replaced.                 *)
(***************************************************************************)
Asked(p) ==
  /\ options.all => p # Top
  /\ options.all /\ ~ options.recursive =>
       Above[p] = {Top} /\ IsFile(before[p])

RemoveSound ==
  /\ Succeeded("remove") => \A p \in Paths : Asked(p) => target[p] = "none"
  /\ op = "remove" =>
       \A p \in Paths :
         \/ target[p] = before[p]
         \/ target[p] = "none" /\ Asked(p)

(***************************************************************************)
(* "If the source is a directory, all files in the directory are copied":  *)
(* at least those that the destination did not have.  It is false without  *)
(* overwrite, when the destination is a directory: whether an entry exists *)
(* is asked of the directory and not of the entry, so that all are skipped.*)
(***************************************************************************)
AllCopied ==
  Succeeded("copy") /\ ~ options.hidden /\ source[Top] = "dir" =>
    \A e \in listed : before[e] = "none" => target[e] = source[e]

=============================================================================
