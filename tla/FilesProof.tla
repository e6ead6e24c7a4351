----------------------------- MODULE FilesProof -----------------------------
(***************************************************************************)
(* What TLAPS proves of Files: its type invariant, and what a copy and a   *)
(* remove leave behind, for every tree.                                    *)
(***************************************************************************)
EXTENDS Files, TLAPS

-----------------------------------------------------------------------------
\* Where the command is.
Where ==
  /\ pc \in {"directory", "file", "open", "transfer"} => op = "copy"
  /\ pc = "tree" => op = "remove" /\ ~ options.all
  /\ pc = "directory" => source[Top] = "dir"
  /\ pc = "file" => source[Top] \notin {"none", "dir"}
  /\ pc \in {"directory", "file"} => check = (info = "file")
  /\ pc \in {"info", "directory", "file", "tree"} =>
       target = before /\ base = Top /\ ~ error
  /\ todo \subseteq listed

\* An entry's place has what it should, or nothing has happened to it.
Clean(p) ==
  \/ target[p] = before[p]
  \/ before[p] = "none" /\ target[p] = "dir"
  \/ \E e \in listed : p = Goal(e) /\ target[p] = source[e]

\* In the loop over the list of a copy.
Copying ==
  op = "copy" /\ pc \in {"entries", "open", "transfer"} =>
    /\ IF source[Top] = "dir" THEN base = Top /\ (check => ~ options.overwrite)
                              ELSE listed = {Top}
    /\ \A e \in listed : source[e] # "none"
    /\ ~ options.hidden /\ ~ (check /\ ~ options.overwrite) =>
         \A e \in listed \ todo : target[Goal(e)] = source[e]
    /\ pc # "entries" => entry \in todo
    /\ pc = "transfer" => target[Goal(entry)] = "part"
    /\ \A p \in Paths :
         \/ Clean(p)
         \/ pc # "entries" /\ p = Goal(entry) /\ target[p] \in {"none", "part"}
    /\ ~ options.overwrite /\ base = Top /\ info = Kind(before[Top]) =>
         \/ before[Top] = "none"
         \/ pc = "entries" /\ before[Top] = "dir" /\ check /\ target = before

\* In the loop over the list of a remove.
Removing ==
  op = "remove" /\ pc = "entries" =>
    /\ options.all
    /\ listed = {p \in Below(Top) : Above[p] = {Top} /\ before[p] # "none"}
    /\ ~ error => \A e \in listed \ todo :
                    \/ target[e] = "none"
                    \/ ~ options.recursive /\ target[e] = "dir"
    /\ \A p \in Paths : \/ target[p] = before[p]
                        \/ target[p] = "none" /\ Asked(p)

\* What a command left that returned.
Results ==
  pc = "idle" => CopySound /\ OneBroken /\ ExistingKept /\ RemoveSound

IInv ==
  /\ Types
  /\ WellFormed(target) /\ WellFormed(before)
  /\ Where /\ Copying /\ Removing /\ Results

-----------------------------------------------------------------------------
\* Trees.

LEMMA PutTypes ==
  ASSUME NEW t \in Trees, NEW p \in Paths, NEW x \in Contents \cup {"none", "dir"}
  PROVE  /\ Put(t, p, x) \in Trees
         /\ Put(t, p, x)[p] = x
         /\ \A q \in Paths \ {p} : Put(t, p, x)[q] = t[q]
BY DEF Trees, Put

\* What is not a directory may become a file where there is a directory for it,
\* or go.
LEMMA PutWellFormed ==
  ASSUME NEW t \in Trees, NEW p \in Paths, NEW x \in Contents \cup {"none"},
         WellFormed(t), t[p] # "dir",
         x = "none" \/ \A q \in Above[p] : t[q] = "dir"
  PROVE  WellFormed(Put(t, p, x))
<1> SUFFICES ASSUME NEW r \in Paths, Put(t, p, x)[r] # "none", NEW q \in Above[r]
             PROVE  Put(t, p, x)[q] = "dir"
  BY DEF WellFormed
<1>1. q \in Paths /\ p \notin Above[p] BY FilesAssumption
<1>2. CASE r = p
  <2>1. x # "none" BY <1>2, PutTypes
  <2>2. q # p /\ t[q] = "dir" BY <1>1, <1>2, <2>1
  <2> QED BY <1>1, <2>2, PutTypes
<1>3. CASE r # p
  <2>1. t[r] # "none" BY <1>3, PutTypes
  <2>2. t[q] = "dir" BY <2>1 DEF WellFormed
  <2>3. q # p BY <2>2
  <2> QED BY <1>1, <2>2, <2>3, PutTypes
<1> QED BY <1>2, <1>3

LEMMA PutTopWellFormed ==
  ASSUME NEW t \in Trees, WellFormed(t), t[Top] \in {"none", "dir"}
  PROVE  WellFormed(Put(t, Top, "dir"))
<1> SUFFICES ASSUME NEW r \in Paths, Put(t, Top, "dir")[r] # "none", NEW q \in Above[r]
             PROVE  Put(t, Top, "dir")[q] = "dir"
  BY DEF WellFormed
<1>1. q \in Paths /\ Top \in Paths /\ Above[Top] = {} BY FilesAssumption
<1>2. r # Top BY <1>1
<1>3. t[r] # "none" BY <1>1, <1>2, PutTypes
<1>4. t[q] = "dir" BY <1>3 DEF WellFormed
<1>5. CASE q = Top BY <1>1, <1>5, PutTypes
<1>6. CASE q # Top BY <1>1, <1>4, <1>6, PutTypes
<1> QED BY <1>5, <1>6

LEMMA WithoutTypes ==
  ASSUME NEW t \in Trees, NEW gone
  PROVE  /\ Without(t, gone) \in Trees
         /\ \A q \in Paths : Without(t, gone)[q] = IF q \in gone THEN "none" ELSE t[q]
BY DEF Trees, Without

LEMMA MadeTypes ==
  ASSUME NEW t \in Trees, NEW made
  PROVE  /\ WithDirectories(t, made) \in Trees
         /\ \A q \in Paths : WithDirectories(t, made)[q] = IF q \in made THEN "dir" ELSE t[q]
BY DEF Trees, WithDirectories

LEMMA WithoutTreeWellFormed ==
  ASSUME NEW t \in Trees, WellFormed(t), NEW p \in Paths
  PROVE  WellFormed(Without(t, Below(p) \cup {p}))
<1> DEFINE gone == Below(p) \cup {p}
<1> SUFFICES ASSUME NEW r \in Paths, Without(t, gone)[r] # "none", NEW q \in Above[r]
             PROVE  Without(t, gone)[q] = "dir"
  BY DEF WellFormed
<1>1. q \in Paths /\ Above[q] \subseteq Above[r] BY FilesAssumption
<1>2. r \notin gone /\ t[r] # "none" BY WithoutTypes
<1>3. t[q] = "dir" BY <1>2 DEF WellFormed
<1>4. q \notin gone BY <1>1, <1>2 DEF Below
<1> QED BY <1>1, <1>3, <1>4, WithoutTypes

\* Below what is not a directory there is nothing.
LEMMA NothingBelow ==
  ASSUME NEW t \in Trees, WellFormed(t), NEW p \in Paths, t[p] # "dir",
         NEW q \in Below(p)
  PROVE  t[q] = "none"
BY DEF WellFormed, Below

\* The strings are none of the paths.
LEMMA Kinds ==
  /\ "none" \notin Contents /\ "dir" \notin Contents
  /\ "old" \in Contents /\ "part" \in Contents
  /\ \A x \in Contents : Kind(x) = "file"
  /\ Kind("none") = "none" /\ Kind("dir") = "dir"
BY FilesAssumption DEF Contents, Kind, IsFile

LEMMA Tops == Top \in Paths /\ Inside \in Paths /\ Above[Top] = {}
BY FilesAssumption

LEMMA GoalTypes ==
  ASSUME Types, NEW e \in Paths
  PROVE  Goal(e) \in Paths
BY Tops DEF Types, Goal

-----------------------------------------------------------------------------
\* The invariant implies the properties, wherever the command is.
LEMMA Standing ==
  ASSUME IInv
  PROVE  CopySound /\ OneBroken /\ ExistingKept /\ RemoveSound
<1> USE DEF IInv
<1>1. CASE pc = "idle" BY <1>1 DEF Results
<1>2. CASE pc # "idle"
  <2>1. CopySound BY <1>2 DEF CopySound, Succeeded
  <2>2. CASE pc \in {"info", "directory", "file", "tree"}
    <3>1. target = before BY <2>2 DEF Where
    <3>2. OneBroken /\ ExistingKept BY <3>1 DEF OneBroken, ExistingKept
    <3>3. RemoveSound BY <1>2, <3>1 DEF RemoveSound, Succeeded
    <3> QED BY <2>1, <3>2, <3>3
  <2>3. CASE pc \in {"entries", "open", "transfer"} /\ op = "copy"
    <3>1. OneBroken BY <2>3 DEF OneBroken, Copying, Clean
    <3>2. ExistingKept
      <4> SUFFICES ASSUME ~ options.overwrite, base = Top, info = Kind(before[Top]),
                          NEW p \in Paths, IsFile(before[p])
                   PROVE  target[p] = before[p]
        BY DEF ExistingKept
      <4>1. CASE before[Top] = "none"
        <5>1. p = Top \/ Top \in Above[p] BY FilesAssumption
        <5>2. before[p] = "none" BY <4>1, <5>1 DEF WellFormed
        <5> QED BY <5>2, Kinds DEF IsFile
      <4>2. CASE target = before BY <4>2
      <4> QED BY <2>3, <4>1, <4>2 DEF Copying
    <3>3. RemoveSound BY <1>2, <2>3 DEF RemoveSound, Succeeded
    <3> QED BY <2>1, <3>1, <3>2, <3>3
  <2>4. CASE pc = "entries" /\ op = "remove"
    <3>1. OneBroken /\ ExistingKept BY <2>4 DEF OneBroken, ExistingKept
    <3>2. RemoveSound BY <2>4 DEF RemoveSound, Succeeded, Removing
    <3> QED BY <2>1, <3>1, <3>2
  <2>5. CASE pc \in {"entries", "open", "transfer"} /\ op = "mkdir"
    <3>1. OneBroken /\ ExistingKept BY <2>5 DEF OneBroken, ExistingKept
    <3>2. RemoveSound BY <1>2, <2>5 DEF RemoveSound, Succeeded
    <3> QED BY <2>1, <3>1, <3>2
  <2>6. /\ op \in {"copy", "mkdir", "remove"}
        /\ pc \in {"info", "directory", "file", "entries", "open", "transfer", "tree"}
    BY <1>2 DEF Types
  <2>7. pc \in {"open", "transfer"} => op = "copy" BY DEF Where
  <2> HIDE DEF IInv
  <2> QED BY <2>2, <2>3, <2>4, <2>5, <2>6, <2>7
<1> QED BY <1>1, <1>2

\* A command that fails leaves what it has done.
LEMMA FailStep ==
  ASSUME IInv, Fail
  PROVE  IInv'
<1> USE DEF Fail, Return, commandVars
<1>1. CopySound /\ OneBroken /\ ExistingKept /\ RemoveSound BY Standing
<1>2. Types' BY DEF IInv, Types
<1>3. WellFormed(target)' /\ WellFormed(before)' BY DEF IInv, WellFormed
<1>4. Where' BY DEF IInv, Where
<1>5. Copying' /\ Removing' BY DEF Copying, Removing
<1>6. CopySound' BY DEF CopySound, Succeeded
<1>7. OneBroken' BY <1>1 DEF OneBroken, Goal
<1>8. ExistingKept' BY <1>1 DEF ExistingKept
<1>9. RemoveSound'
  BY <1>1, <1>3 DEF RemoveSound, Succeeded, Asked
<1> QED BY <1>2, <1>3, <1>4, <1>5, <1>6, <1>7, <1>8, <1>9 DEF IInv, Results

LEMMA BeginStep ==
  ASSUME IInv, NEW o \in {"copy", "mkdir", "remove"}, NEW opts \in Options, Begin(o, opts)
  PROVE  IInv'
<1> USE DEF Begin
<1>1. Types' BY Tops DEF IInv, Types
<1>2. WellFormed(target)' /\ WellFormed(before)' BY DEF IInv, WellFormed
<1>3. Where' BY DEF Where
<1>4. Copying' /\ Removing' BY DEF Copying, Removing
<1>5. Results'
  BY <1>2 DEF Results, CopySound, OneBroken, ExistingKept, RemoveSound, Succeeded
<1> QED BY <1>1, <1>2, <1>3, <1>4, <1>5 DEF IInv

LEMMA InitInv ==
  ASSUME Init
  PROVE  IInv
<1>1. Types
  <2>1. target \in Trees BY DEF Init, Trees, Contents
  <2>2. options \in Options BY DEF Init, Options
  <2> QED BY <2>1, <2>2, Tops DEF Init, Types
<1>2. WellFormed(target) /\ WellFormed(before) BY DEF Init
<1>3. Where BY DEF Init, Where
<1>4. Copying /\ Removing BY DEF Init, Copying, Removing
<1>5. Results
  BY <1>2 DEF Init, Results, CopySound, OneBroken, ExistingKept, RemoveSound, Succeeded
<1> QED BY <1>1, <1>2, <1>3, <1>4, <1>5 DEF IInv

-----------------------------------------------------------------------------
\* fs.mkdir.
LEMMA MkdirStep ==
  ASSUME IInv, Mkdir
  PROVE  IInv'
<1>1. CASE Fail BY <1>1, FailStep
<1>2. CASE Return(TRUE) /\ (UNCHANGED target \/ (target[Top] = "none" /\ target' = Put(target, Top, "dir")))
  <2>1. Types' /\ WellFormed(target')
    <3>1. target \in Trees /\ WellFormed(target) BY DEF IInv, Types
    <3>2. target' \in Trees /\ WellFormed(target')
      BY <1>2, <3>1, Tops, PutTypes, PutTopWellFormed
    <3>3. parent' = parent BY DEF Mkdir, Fail
    <3> QED BY <1>2, <3>2, <3>3 DEF IInv, Types, Return, commandVars
  <2>2. WellFormed(target)' /\ WellFormed(before)'
    BY <1>2, <2>1 DEF IInv, WellFormed, Return
  <2>3. Where' BY <1>2 DEF IInv, Where, Return, commandVars
  <2>4. op' = "mkdir" /\ pc' = "idle" BY <1>2 DEF Mkdir, Return, commandVars
  <2>5. Results'
    BY <2>2, <2>4 DEF Results, CopySound, OneBroken, ExistingKept, RemoveSound, Succeeded
  <2>6. Copying' /\ Removing' BY <2>4 DEF Copying, Removing
  <2> QED BY <2>1, <2>2, <2>3, <2>5, <2>6 DEF IInv
<1> QED BY <1>1, <1>2 DEF Mkdir

-----------------------------------------------------------------------------
\* fs.copy.
LEMMA CopyInfoStep ==
  ASSUME IInv, CopyInfo
  PROVE  IInv'
<1>1. CASE Fail BY <1>1, FailStep
<1>2. CASE ~ Fail
  <2>0. pc = "info" /\ op = "copy" /\ source[Top] # "none"
    BY <1>2 DEF CopyInfo
  <2>1. /\ info' \in {Kind(target[Top]), "none"} /\ check' = (info' = "file")
        /\ pc' = IF source[Top] = "dir" THEN "directory" ELSE "file"
        /\ UNCHANGED <<source, target, parent, op, options, base, todo, entry,
                       error, result, before, listed>>
    BY <1>2 DEF CopyInfo
  <2>2. Kind(target[Top]) \in {"none", "dir", "file"}
    BY Tops DEF IInv, Types, Trees, Kind, IsFile
  <2>3. Types' BY <2>1, <2>2 DEF IInv, Types
  <2>4. WellFormed(target)' /\ WellFormed(before)' BY <2>1 DEF IInv, WellFormed
  <2>5. Where' BY <2>0, <2>1 DEF IInv, Where
  <2>6. Copying' /\ Removing' /\ Results' BY <2>1 DEF Copying, Removing, Results
  <2> QED BY <2>3, <2>4, <2>5, <2>6 DEF IInv
<1> QED BY <1>1, <1>2

\* The loop over the list begins.
LEMMA CopyingStarts ==
  ASSUME IInv, op = "copy", pc \in {"directory", "file"},
         NEW list \in SUBSET Paths, ReadList(list),
         target' \in Trees, parent' \in BOOLEAN, check' \in BOOLEAN, base' \in {Top, Inside},
         WellFormed(target'),
         \A p \in Paths : target'[p] = before[p] \/ (before[p] = "none" /\ target'[p] = "dir"),
         \A e \in list : source[e] # "none",
         IF source[Top] = "dir" THEN base' = Top /\ (check' => ~ options.overwrite)
                                ELSE list = {Top},
         ~ options.overwrite /\ base' = Top /\ info = Kind(before[Top]) =>
           \/ before[Top] = "none"
           \/ before[Top] = "dir" /\ check' /\ target' = before
  PROVE  IInv'
<1> USE DEF ReadList
<1>1. Types' BY DEF IInv, Types
<1>2. WellFormed(target)' /\ WellFormed(before)' BY DEF IInv, WellFormed
<1>3. Where' BY DEF Where
<1>4. Removing' /\ Results' BY DEF Removing, Results
<1>5. Copying' BY DEF Copying, Clean
<1> QED BY <1>1, <1>2, <1>3, <1>4, <1>5 DEF IInv

LEMMA CopyDirectoryStep ==
  ASSUME IInv, CopyDirectory
  PROVE  IInv'
<1> DEFINE list == Entries(source, options.recursive)
<1>1. /\ pc = "directory" /\ op = "copy" /\ source[Top] = "dir"
      /\ target = before /\ base = Top /\ check = (info = "file")
  BY DEF CopyDirectory, IInv, Where
<1>2. /\ target \in Trees /\ target' \in Trees /\ options.overwrite \in BOOLEAN
      /\ parent' \in BOOLEAN /\ info \in {"none", "dir", "file"}
  <2>1. /\ target \in Trees /\ options.overwrite \in BOOLEAN
        /\ parent \in BOOLEAN /\ info \in {"none", "dir", "file"}
    BY DEF IInv, Types, Options
  <2>2. target' \in {target, Put(target, Top, "dir")} /\ parent' \in {parent, TRUE}
    BY DEF CopyDirectory, Fail
  <2>3. Put(target, Top, "dir") \in Trees BY <2>1, Tops, PutTypes
  <2> QED BY <2>1, <2>2, <2>3
<1>3. list \in SUBSET Paths /\ \A e \in list : source[e] # "none"
  BY Kinds DEF Entries, Below, IsFile
<1>4. CASE Fail BY <1>4, FailStep
<1>5. CASE info = "none" /\ Return(FALSE) /\ parent' = TRUE /\ UNCHANGED target
  <2>1. Types' BY <1>5 DEF IInv, Types, Return, commandVars
  <2>2. WellFormed(target)' /\ WellFormed(before)' BY <1>5 DEF IInv, WellFormed, Return
  <2>3. Where' /\ Copying' /\ Removing'
    BY <1>5 DEF IInv, Where, Copying, Removing, Return, commandVars
  <2>4. Results'
    BY <1>1, <1>5, <2>2 DEF Results, CopySound, OneBroken, ExistingKept, RemoveSound,
                            Succeeded, Return, commandVars
  <2> QED BY <2>1, <2>2, <2>3, <2>4 DEF IInv
<1>6. CASE /\ info = "none" /\ ~ IsFile(target[Top])
           /\ parent' = TRUE /\ target' = Put(target, Top, "dir")
  <2>1. target[Top] \in {"none", "dir"}
    BY <1>2, <1>6, Tops DEF Trees, IsFile
  <2>2. WellFormed(target') BY <1>2, <1>6, <2>1, PutTopWellFormed DEF IInv
  <2>3. \A p \in Paths :
          target'[p] = before[p] \/ (before[p] = "none" /\ target'[p] = "dir")
    BY <1>1, <1>2, <1>6, <2>1, Tops, PutTypes
  <2>4. info = Kind(before[Top]) => before[Top] = "none"
    BY <1>1, <1>6, <2>1, Kinds
  <2>5. CASE ReadList(list) /\ UNCHANGED <<check, base>>
    BY <1>1, <1>2, <1>3, <1>6, <2>2, <2>3, <2>4, <2>5, CopyingStarts DEF IInv, Types
  <2>6. CASE Return(FALSE)
    <3>1. Types' BY <1>2, <2>6 DEF IInv, Types, Return, commandVars
    <3>2. WellFormed(target)' /\ WellFormed(before)'
      BY <2>2, <2>6 DEF IInv, WellFormed, Return
    <3>3. Where' /\ Copying' /\ Removing'
      BY <2>6 DEF IInv, Where, Copying, Removing, Return, commandVars
    <3>4. op' = "copy" /\ before' = before /\ result' = "failure"
      BY <1>1, <2>6 DEF Return, commandVars
    <3>5. OneBroken' BY <2>3, <3>4 DEF OneBroken
    <3>6. ExistingKept'
      BY <2>3, <3>4, Kinds DEF ExistingKept, IsFile
    <3>7. CopySound' /\ RemoveSound'
      BY <3>2, <3>4 DEF CopySound, RemoveSound, Succeeded
    <3> QED BY <3>1, <3>2, <3>3, <3>5, <3>6, <3>7 DEF IInv, Results
  <2> QED BY <1>6, <2>5, <2>6, <1>4, <1>5 DEF CopyDirectory
<1>7. CASE /\ info = "dir" /\ check' = (~ options.overwrite) /\ ReadList(list)
           /\ UNCHANGED <<target, parent, base>>
  <2>1. WellFormed(target') BY <1>7 DEF IInv, WellFormed
  <2>2. info = Kind(before[Top]) => before[Top] = "dir"
    BY <1>1, <1>2, <1>7, Tops, Kinds DEF Trees
  <2> QED BY <1>1, <1>2, <1>3, <1>7, <2>1, <2>2, CopyingStarts DEF IInv, Types
<1> QED BY <1>4, <1>5, <1>6, <1>7 DEF CopyDirectory

LEMMA CopyFileStep ==
  ASSUME IInv, CopyFile
  PROVE  IInv'
<1>1. /\ pc = "file" /\ op = "copy" /\ source[Top] \notin {"none", "dir"}
      /\ target = before /\ base = Top
  BY DEF CopyFile, IInv, Where
<1>2. CASE Fail BY <1>2, FailStep
<1>3. CASE /\ info = "file" => options.overwrite
           /\ base' = IF info = "dir" THEN Inside ELSE Top
           /\ ReadList({Top})
           /\ UNCHANGED <<target, parent, check>>
  <2>1. WellFormed(target') BY <1>3 DEF IInv, WellFormed
  <2>2. base' \in {Top, Inside} /\ Top \in Paths /\ (base' = Top => info # "dir")
    BY <1>3, Tops, FilesAssumption
  <2>3. ~ options.overwrite /\ base' = Top /\ info = Kind(before[Top]) =>
          before[Top] = "none"
    <3>1. info \in {"none", "dir", "file"} /\ before[Top] \in Contents \cup {"none", "dir"}
      BY Tops DEF IInv, Types, Trees
    <3> QED BY <1>3, <2>2, <3>1, Kinds
  <2> QED BY <1>1, <1>3, <2>1, <2>2, <2>3, CopyingStarts DEF IInv, Types
<1> QED BY <1>2, <1>3 DEF CopyFile

LEMMA SkipEntryStep ==
  ASSUME IInv, NEW e \in Paths, SkipEntry(e)
  PROVE  IInv'
<1>1. CASE Fail BY <1>1, FailStep
<1>2. CASE ~ Fail
  <2>1. /\ pc = "entries" /\ op = "copy" /\ Skips /\ todo' = todo \ {e}
        /\ UNCHANGED <<source, target, parent, pc, op, options, info, check,
                       base, entry, error, result, before, listed>>
    BY <1>2 DEF SkipEntry
  <2>2. Types' BY <2>1 DEF IInv, Types
  <2>3. WellFormed(target)' /\ WellFormed(before)' BY <2>1 DEF IInv, WellFormed
  <2>4. Where' BY <2>1 DEF IInv, Where
  <2>5. Removing' /\ Results' BY <2>1 DEF Removing, Results
  <2>6. options.hidden \/ (check /\ ~ options.overwrite)
    BY <2>1 DEF Skips, IsDestinationValid
  <2>7. Copying' BY <2>1, <2>6 DEF IInv, Copying, Clean, Goal
  <2> QED BY <2>2, <2>3, <2>4, <2>5, <2>7 DEF IInv
<1> QED BY <1>1, <1>2

\* What holds when an entry that is not skipped is taken from the list.
LEMMA HandlesFacts ==
  ASSUME IInv, NEW e \in Paths, Handles(e)
  PROVE  /\ e \in listed /\ e \in todo /\ source[e] # "none"
         /\ ~ options.hidden /\ ~ (IsDestinationValid /\ ~ options.overwrite)
         /\ \A p \in Paths : Clean(p)
         /\ source[Top] = "dir" => base = Top /\ ~ IsDestinationValid
         /\ source[Top] # "dir" => listed = {Top}
         /\ ~ options.overwrite /\ base = Top /\ info = Kind(before[Top]) =>
              before[Top] = "none"
<1>1. e \in listed /\ e \in todo BY DEF Handles, IInv, Where
<1>2. ~ options.hidden /\ ~ (IsDestinationValid /\ ~ options.overwrite)
  BY DEF Handles, Skips
<1>3. op = "copy" /\ pc = "entries" BY DEF Handles
<1>4. /\ IF source[Top] = "dir" THEN base = Top /\ (check => ~ options.overwrite)
                                ELSE listed = {Top}
      /\ \A d \in listed : source[d] # "none"
      /\ \A p \in Paths : Clean(p)
      /\ ~ options.overwrite /\ base = Top /\ info = Kind(before[Top]) =>
           \/ before[Top] = "none"
           \/ pc = "entries" /\ before[Top] = "dir" /\ check /\ target = before
  BY <1>3 DEF IInv, Copying
<1> QED BY <1>1, <1>2, <1>4 DEF IsDestinationValid

\* An entry is opened: its directory may have been made, or in /app its file
\* removed.
LEMMA Opening ==
  ASSUME IInv, NEW e \in Paths, Handles(e), Open(e),
         target' \in Trees, parent' \in BOOLEAN, WellFormed(target'),
         \A p \in Paths : \/ target'[p] = target[p]
                          \/ target[p] = "none" /\ target'[p] = "dir"
                          \/ p = Goal(e) /\ target'[p] = "none"
  PROVE  IInv'
<1> USE DEF Open
<1>0. /\ e \in listed /\ e \in todo /\ source[e] # "none"
      /\ source[Top] = "dir" => base = Top
      /\ source[Top] # "dir" => listed = {Top}
  BY HandlesFacts
<1>1. Types' BY DEF IInv, Types
<1>2. WellFormed(target)' /\ WellFormed(before)' BY DEF IInv, WellFormed
<1>3. Where' BY DEF Handles, IInv, Where
<1>4. Removing' /\ Results' BY DEF Removing, Results
<1>5. op = "copy" /\ pc = "entries" /\ todo \subseteq listed
  BY DEF Handles, IInv, Where
<1>6. \A d \in listed : source[d] # "none" BY <1>5 DEF IInv, Copying
<1>7. \A d \in Paths : Goal(d)' = Goal(d) BY DEF Goal
<1>8. \A p \in Paths : Clean(p)' \/ (p = Goal(e) /\ target'[p] = "none")
  <2> SUFFICES ASSUME NEW p \in Paths, ~ (p = Goal(e) /\ target'[p] = "none")
               PROVE  Clean(p)'
    OBVIOUS
  <2>1. Clean(p) BY HandlesFacts
  <2>2. CASE target'[p] = target[p] BY <2>1, <2>2 DEF Clean, Goal
  <2>3. CASE target[p] = "none" /\ target'[p] = "dir"
    <3>1. before[p] = "none" BY <1>6, <2>1, <2>3 DEF Clean
    <3> QED BY <2>3, <3>1 DEF Clean
  <2> QED BY <2>2, <2>3
<1>9. ~ options.hidden /\ ~ (check /\ ~ options.overwrite) =>
        \A d \in listed \ todo : target'[Goal(d)] = source[d]
  <2> SUFFICES ASSUME ~ options.hidden, ~ (check /\ ~ options.overwrite),
                      NEW d \in listed \ todo
               PROVE  target'[Goal(d)] = source[d]
    OBVIOUS
  <2>1. target[Goal(d)] = source[d] BY <1>5 DEF IInv, Copying
  <2>2. source[d] # "none" BY <1>6
  <2>3. Goal(d) \in Paths BY GoalTypes DEF IInv, Types
  <2>4. d # e /\ source[Top] = "dir" BY <1>0
  <2>5. Goal(d) # Goal(e) BY <2>4 DEF Goal
  <2> QED BY <2>1, <2>2, <2>3, <2>5
<1>10. ~ options.overwrite /\ base = Top /\ info = Kind(before[Top]) =>
         before[Top] = "none"
  BY HandlesFacts
<1>11. Copying'
  <2>1. entry' = e /\ pc' = "open" /\ Goal(entry') = Goal(e) OBVIOUS
  <2>2. IF source[Top] = "dir" THEN base = Top /\ (check => ~ options.overwrite)
                               ELSE listed = {Top}
    BY <1>5 DEF IInv, Copying
  <2>3. \A p \in Paths : Clean(p)' \/ (p = Goal(e) /\ target'[p] \in {"none", "part"})
    BY <1>8
  <2>4. (~ options.hidden /\ ~ (check /\ ~ options.overwrite) =>
          \A d \in listed \ todo : target[Goal(d)] = source[d])'
    BY <1>9 DEF Goal
  <2>5. (\A p \in Paths : Clean(p) \/ (pc # "entries" /\ p = Goal(entry)
                                       /\ target[p] \in {"none", "part"}))'
    BY <2>1, <2>3 DEF Goal
  <2>6. (~ options.overwrite /\ base = Top /\ info = Kind(before[Top]) =>
           before[Top] = "none")'
    BY <1>10
  <2> QED BY <1>0, <1>6, <2>1, <2>2, <2>4, <2>5, <2>6 DEF Copying
<1> QED BY <1>1, <1>2, <1>3, <1>4, <1>11 DEF IInv

\* A copy that returns with the destination changed.
LEMMA CopyReturns ==
  ASSUME IInv, op = "copy", Return(FALSE),
         target' \in Trees, parent' \in BOOLEAN, WellFormed(target'),
         OneBroken', ExistingKept'
  PROVE  IInv'
<1> USE DEF Return, commandVars
<1>1. Types' BY DEF IInv, Types
<1>2. WellFormed(target)' /\ WellFormed(before)' BY DEF IInv, WellFormed
<1>3. Where' BY DEF IInv, Where
<1>4. Copying' /\ Removing' BY DEF Copying, Removing
<1>5. CopySound' /\ RemoveSound'
  BY <1>2 DEF CopySound, RemoveSound, Succeeded
<1> QED BY <1>1, <1>2, <1>3, <1>4, <1>5 DEF IInv, Results

LEMMA NothingBefore ==
  ASSUME IInv, before[Top] = "none", NEW p \in Paths
  PROVE  before[p] = "none"
<1>1. p = Top \/ Top \in Above[p] BY FilesAssumption
<1> QED BY <1>1 DEF IInv, WellFormed

LEMMA PrepareAppStep ==
  ASSUME IInv, NEW e \in Paths, PrepareApp(e)
  PROVE  IInv'
<1>0. Handles(e) /\ target \in Trees /\ parent \in BOOLEAN /\ WellFormed(target)
  BY DEF PrepareApp, IInv, Types
<1>1. CASE Fail BY <1>1, FailStep
<1>2. CASE Open(e) /\ UNCHANGED <<target, parent>>
  <2>1. WellFormed(target') BY <1>0, <1>2 DEF WellFormed
  <2> QED BY <1>0, <1>2, <2>1, Opening
<1>3. CASE /\ IsDestinationValid /\ IsFile(target[Goal(e)])
           /\ target' = Put(target, Goal(e), "none") /\ UNCHANGED parent
  <2>1. Goal(e) \in Paths BY GoalTypes DEF IInv
  <2>2. target' \in Trees /\ WellFormed(target')
    BY <1>0, <1>3, <2>1, PutTypes, PutWellFormed, Kinds DEF IsFile
  <2>3. \A p \in Paths : IF p = Goal(e) THEN target'[p] = "none" ELSE target'[p] = target[p]
    BY <1>0, <1>3, <2>1, PutTypes
  <2>4. CASE Open(e) BY <1>0, <1>3, <2>2, <2>3, <2>4, Opening
  <2>5. CASE Return(FALSE)
    <3>0. UNCHANGED <<source, op, options, info, base, entry, before, listed>>
      BY <2>5 DEF Return, commandVars
    <3>1. Goal(e) = Goal(entry)' /\ options.overwrite
      BY <1>0, <1>3, <3>0, HandlesFacts DEF Goal, IInv, Types, Options
    <3>2. OneBroken'
      <4> SUFFICES ASSUME NEW p \in Paths
                   PROVE  \/ Clean(p)' \/ (p = Goal(entry)' /\ target'[p] = "none")
        BY DEF OneBroken, Clean
      <4>1. CASE p # Goal(e) BY <1>0, <2>3, <3>0, <4>1, HandlesFacts DEF Clean, Goal
      <4> QED BY <2>3, <3>1, <4>1
    <3>3. ExistingKept' BY <3>0, <3>1 DEF ExistingKept
    <3> QED BY <1>0, <1>3, <2>2, <2>5, <3>2, <3>3, CopyReturns DEF Handles
  <2> QED BY <1>0, <1>3, <2>4, <2>5, <1>1, <1>2 DEF PrepareApp
<1> QED BY <1>1, <1>2, <1>3 DEF PrepareApp

LEMMA PrepareFileStep ==
  ASSUME IInv, NEW e \in Paths, PrepareFile(e)
  PROVE  IInv'
<1>0. Handles(e) /\ target \in Trees /\ parent \in BOOLEAN /\ WellFormed(target)
  BY DEF PrepareFile, IInv, Types
<1>1. CASE Fail BY <1>1, FailStep
<1>2. CASE Open(e) /\ UNCHANGED <<target, parent>>
  <2>1. WellFormed(target') BY <1>0, <1>2 DEF WellFormed
  <2> QED BY <1>0, <1>2, <2>1, Opening
<1>3. CASE MakeParent(e)
  <2>1. PICK made \in SUBSET Missing(Goal(e)) : target' = WithDirectories(target, made)
    BY <1>3 DEF MakeParent
  <2>2. target' \in Trees /\ parent' \in BOOLEAN /\ WellFormed(target')
    BY <1>0, <1>3, <2>1, MadeTypes DEF MakeParent
  <2>3. \A p \in Paths : \/ target'[p] = target[p]
                         \/ target[p] = "none" /\ target'[p] = "dir"
    BY <1>0, <2>1, MadeTypes DEF Missing
  <2>4. CASE Open(e) BY <1>0, <2>2, <2>3, <2>4, Opening
  <2>5. CASE Return(FALSE)
    <3>0. UNCHANGED <<source, op, options, info, base, entry, before, listed>>
      BY <2>5 DEF Return, commandVars
    <3>1. \A p \in Paths : Clean(p)'
      <4> SUFFICES ASSUME NEW p \in Paths PROVE Clean(p)'
        OBVIOUS
      <4>1. Clean(p) /\ (\A d \in listed : source[d] # "none")
        BY <1>0, HandlesFacts DEF IInv, Copying, Handles
      <4>2. CASE target'[p] = target[p] BY <3>0, <4>1, <4>2 DEF Clean, Goal
      <4>3. CASE target[p] = "none" /\ target'[p] = "dir"
        <5>1. before[p] = "none" BY <4>1, <4>3 DEF Clean
        <5> QED BY <3>0, <4>3, <5>1 DEF Clean
      <4> QED BY <2>3, <4>2, <4>3
    <3>2. OneBroken' BY <3>1 DEF OneBroken, Clean
    <3>3. ExistingKept'
      <4> SUFFICES ASSUME ~ options.overwrite, base = Top, info = Kind(before[Top]),
                          NEW p \in Paths, IsFile(before[p])
                   PROVE  FALSE
        BY <3>0 DEF ExistingKept
      <4>1. before[p] = "none" BY <1>0, HandlesFacts, NothingBefore
      <4> QED BY <4>1, Kinds DEF IsFile
    <3> QED BY <1>0, <2>2, <2>5, <3>2, <3>3, CopyReturns DEF Handles
  <2> QED BY <1>3, <2>4, <2>5 DEF MakeParent
<1> QED BY <1>1, <1>2, <1>3 DEF PrepareFile

\* The entry that is open is the only one that is not as it was or should be.
LEMMA EntryFacts ==
  ASSUME IInv, pc \in {"open", "transfer"}
  PROVE  /\ op = "copy" /\ todo \subseteq listed /\ entry \in todo
         /\ Goal(entry) \in Paths
         /\ IF source[Top] = "dir" THEN base = Top /\ (check => ~ options.overwrite)
                                   ELSE listed = {Top}
         /\ \A e \in listed : source[e] # "none"
         /\ \A e \in listed \ {entry} : Goal(e) # Goal(entry)
         /\ ~ options.hidden /\ ~ (check /\ ~ options.overwrite) =>
              \A e \in listed \ todo : target[Goal(e)] = source[e]
         /\ pc = "transfer" => target[Goal(entry)] = "part"
         /\ \A p \in Paths \ {Goal(entry)} : Clean(p)
         /\ ~ options.overwrite /\ base = Top /\ info = Kind(before[Top]) =>
              before[Top] = "none"
<1>1. op = "copy" /\ todo \subseteq listed BY DEF IInv, Where
<1>2. entry \in todo BY <1>1 DEF IInv, Copying
<1>3. Goal(entry) \in Paths BY GoalTypes DEF IInv, Types
<1>4. IF source[Top] = "dir" THEN base = Top /\ (check => ~ options.overwrite)
                             ELSE listed = {Top}
  BY <1>1 DEF IInv, Copying
<1>5. \A e \in listed \ {entry} : Goal(e) # Goal(entry)
  BY <1>1, <1>2, <1>4 DEF Goal
<1>6. \A p \in Paths \ {Goal(entry)} : Clean(p)
  BY <1>1 DEF IInv, Copying
<1> QED BY <1>1, <1>2, <1>3, <1>4, <1>5, <1>6 DEF IInv, Copying

LEMMA OpenEntryStep ==
  ASSUME IInv, OpenEntry
  PROVE  IInv'
<1> DEFINE g == Goal(entry)
<1>1. CASE Fail BY <1>1, FailStep
<1>2. CASE ~ Fail
  <2>1. /\ pc = "open" /\ HasParent(g) /\ target[g] # "dir"
        /\ target' = Put(target, g, "part") /\ pc' = "transfer"
        /\ UNCHANGED <<source, parent, commandVars, result, before, listed>>
    BY <1>2 DEF OpenEntry
  <2>2. target \in Trees /\ WellFormed(target) /\ g \in Paths
    BY <2>1, EntryFacts DEF IInv, Types
  <2>3. \A q \in Above[g] : target[q] = "dir" BY <2>1, Tops DEF HasParent
  <2>4. target' \in Trees /\ WellFormed(target')
    BY <2>1, <2>2, <2>3, PutTypes, PutWellFormed, Kinds
  <2>5. \A p \in Paths : IF p = g THEN target'[p] = "part" ELSE target'[p] = target[p]
    <3>1. "part" \in Contents \cup {"none", "dir"} BY Kinds
    <3> HIDE DEF g
    <3> QED BY <2>1, <2>2, <3>1, PutTypes
  <2> HIDE DEF g
  <2>6. Types' BY <2>1, <2>4 DEF IInv, Types, commandVars
  <2>7. WellFormed(target)' /\ WellFormed(before)' BY <2>1, <2>4 DEF IInv, WellFormed
  <2>8. Where' BY <2>1, EntryFacts DEF Where, commandVars
  <2>9. Removing' /\ Results' BY <2>1 DEF Removing, Results
  <2>10. Goal(entry') = g /\ \A e : Goal(e)' = Goal(e)
    BY <2>1 DEF Goal, g, commandVars
  <2>11. \A p \in Paths : Clean(p)' \/ (p = g /\ target'[p] = "part")
    <3> SUFFICES ASSUME NEW p \in Paths \ {g} PROVE Clean(p)'
      BY <2>5
    <3>1. Clean(p) BY <2>1, EntryFacts DEF g
    <3> QED BY <2>1, <2>5, <3>1 DEF Clean, Goal, commandVars
  <2>12. ~ options.hidden /\ ~ (check /\ ~ options.overwrite) =>
           \A e \in listed \ todo : target'[Goal(e)] = source[e]
    <3> SUFFICES ASSUME ~ options.hidden, ~ (check /\ ~ options.overwrite),
                        NEW e \in listed \ todo
                 PROVE  target'[Goal(e)] = source[e]
      OBVIOUS
    <3>1. target[Goal(e)] = source[e] /\ Goal(e) # g
      BY <2>1, EntryFacts DEF g
    <3>2. Goal(e) \in Paths BY GoalTypes DEF IInv, Types
    <3> QED BY <2>5, <3>1, <3>2
  <2>13. Copying'
    <3>1. (~ options.hidden /\ ~ (check /\ ~ options.overwrite) =>
             \A e \in listed \ todo : target[Goal(e)] = source[e])'
      BY <2>1, <2>12 DEF Goal, commandVars
    <3>2. (\A p \in Paths : Clean(p) \/ (pc # "entries" /\ p = Goal(entry)
                                         /\ target[p] \in {"none", "part"}))'
      BY <2>1, <2>10, <2>11 DEF Goal, commandVars
    <3>3. (target[Goal(entry)] = "part")'
      BY <2>1, <2>2, <2>5, <2>10 DEF Goal, commandVars
    <3> QED BY <2>1, <3>1, <3>2, <3>3, EntryFacts DEF Copying, commandVars
  <2> QED BY <2>6, <2>7, <2>8, <2>9, <2>13 DEF IInv
<1> QED BY <1>1, <1>2

LEMMA TransferEntryStep ==
  ASSUME IInv, TransferEntry
  PROVE  IInv'
<1> DEFINE g == Goal(entry)
<1>1. CASE Fail BY <1>1, FailStep
<1>2. CASE ~ Fail
  <2>1. /\ pc = "transfer" /\ IsFile(source[entry])
        /\ target' = Put(target, g, source[entry])
        /\ todo' = todo \ {entry} /\ pc' = "entries"
        /\ UNCHANGED <<source, parent, op, options, info, check, base, entry,
                       error, result, before, listed>>
    BY <1>2 DEF TransferEntry
  <2>2. target \in Trees /\ WellFormed(target) /\ g \in Paths /\ target[g] = "part"
    BY <2>1, EntryFacts DEF IInv, Types
  <2>3. \A q \in Above[g] : target[q] = "dir" BY <2>2, Kinds DEF WellFormed
  <2>4. target' \in Trees /\ WellFormed(target')
    BY <2>1, <2>2, <2>3, PutTypes, PutWellFormed, Kinds DEF IsFile
  <2>5. \A p \in Paths : IF p = g THEN target'[p] = source[entry]
                                  ELSE target'[p] = target[p]
    BY <2>1, <2>2, PutTypes DEF IsFile
  <2> HIDE DEF g
  <2>6. Types' BY <2>1, <2>4 DEF IInv, Types
  <2>7. WellFormed(target)' /\ WellFormed(before)' BY <2>1, <2>4 DEF IInv, WellFormed
  <2>8. Where' BY <2>1, EntryFacts DEF Where
  <2>9. Removing' /\ Results' BY <2>1, EntryFacts DEF Removing, Results
  <2>10. entry \in listed BY <2>1, EntryFacts
  <2>11. \A p \in Paths : Clean(p)'
    <3> SUFFICES ASSUME NEW p \in Paths PROVE Clean(p)'
      OBVIOUS
    <3>1. CASE p = g BY <2>1, <2>5, <2>10, <3>1 DEF Clean, Goal, g
    <3>2. CASE p # g
      <4>1. Clean(p) BY <2>1, <3>2, EntryFacts DEF g
      <4> QED BY <2>1, <2>5, <3>2, <4>1 DEF Clean, Goal
    <3> QED BY <3>1, <3>2
  <2>12. ~ options.hidden /\ ~ (check /\ ~ options.overwrite) =>
           \A e \in listed \ todo' : target'[Goal(e)] = source[e]
    <3> SUFFICES ASSUME ~ options.hidden, ~ (check /\ ~ options.overwrite),
                        NEW e \in listed \ todo'
                 PROVE  target'[Goal(e)] = source[e]
      OBVIOUS
    <3>1. CASE e = entry BY <2>2, <2>5, <3>1 DEF g
    <3>2. CASE e # entry
      <4>1. target[Goal(e)] = source[e] /\ Goal(e) # g
        BY <2>1, <3>2, EntryFacts DEF g
      <4>2. Goal(e) \in Paths BY GoalTypes DEF IInv, Types
      <4> QED BY <2>5, <4>1, <4>2
    <3> QED BY <3>1, <3>2
  <2>13. Copying'
    <3>1. (~ options.hidden /\ ~ (check /\ ~ options.overwrite) =>
             \A e \in listed \ todo : target[Goal(e)] = source[e])'
      BY <2>1, <2>12 DEF Goal
    <3> QED BY <2>1, <2>11, <3>1, EntryFacts DEF Copying
  <2> QED BY <2>6, <2>7, <2>8, <2>9, <2>13 DEF IInv
<1> QED BY <1>1, <1>2

LEMMA CopyEndStep ==
  ASSUME IInv, CopyEnd
  PROVE  IInv'
<1> USE DEF CopyEnd, Return, commandVars
<1>1. CopySound /\ OneBroken /\ ExistingKept /\ RemoveSound BY Standing
<1>2. Types' BY DEF IInv, Types
<1>3. WellFormed(target)' /\ WellFormed(before)' BY DEF IInv, WellFormed
<1>4. Where' BY DEF IInv, Where
<1>5. Copying' /\ Removing' BY DEF Copying, Removing
<1>6. CopySound' BY DEF CopySound, Succeeded, IInv, Copying, Goal
<1>7. OneBroken' BY <1>1 DEF OneBroken, Goal
<1>8. ExistingKept' BY <1>1 DEF ExistingKept
<1>9. RemoveSound' BY <1>3 DEF RemoveSound, Succeeded
<1> QED BY <1>2, <1>3, <1>4, <1>5, <1>6, <1>7, <1>8, <1>9 DEF IInv, Results

-----------------------------------------------------------------------------
\* fs.remove.

\* A remove that returns with the destination changed.
LEMMA RemoveReturns ==
  ASSUME IInv, op = "remove", NEW success \in BOOLEAN, Return(success),
         target' \in Trees, parent' \in BOOLEAN, WellFormed(target'),
         \A p \in Paths : \/ target'[p] = before[p]
                          \/ target'[p] = "none" /\ Asked(p),
         success => \A p \in Paths : Asked(p) => target'[p] = "none"
  PROVE  IInv'
<1> USE DEF Return, commandVars
<1>1. Types' BY DEF IInv, Types
<1>2. WellFormed(target)' /\ WellFormed(before)' BY DEF IInv, WellFormed
<1>3. Where' BY DEF IInv, Where
<1>4. Copying' /\ Removing' BY DEF Copying, Removing
<1>5. CopySound' /\ OneBroken' /\ ExistingKept'
  BY DEF CopySound, OneBroken, ExistingKept, Succeeded
<1>6. RemoveSound' BY <1>2 DEF RemoveSound, Succeeded, Asked
<1> QED BY <1>1, <1>2, <1>3, <1>4, <1>5, <1>6 DEF IInv, Results

LEMMA RemoveInfoStep ==
  ASSUME IInv, RemoveInfo
  PROVE  IInv'
<1>0. pc = "info" /\ op = "remove" /\ target = before /\ ~ error /\ base = Top
  BY DEF RemoveInfo, IInv, Where
<1>1. CASE Fail BY <1>1, FailStep
<1>2. CASE /\ options.all /\ target[Top] = "dir"
           /\ pc' = "entries" /\ todo' = Entries(target, FALSE) /\ listed' = todo'
           /\ UNCHANGED <<source, target, parent, op, options, info, check, base,
                          entry, error, result, before>>
  <2>1. todo' = {p \in Below(Top) : Above[p] = {Top} /\ before[p] # "none"}
    BY <1>0, <1>2 DEF Entries
  <2>2. Types' BY <1>2, <2>1 DEF IInv, Types, Below
  <2>3. WellFormed(target)' /\ WellFormed(before)' BY <1>2 DEF IInv, WellFormed
  <2>4. Where' BY <1>2 DEF Where
  <2>5. Copying' /\ Results' BY <1>0, <1>2 DEF Copying, Results
  <2>6. Removing' BY <1>0, <1>2, <2>1 DEF Removing, Below
  <2> QED BY <2>2, <2>3, <2>4, <2>5, <2>6 DEF IInv
<1>3. CASE /\ ~ options.all /\ target[Top] # "none" /\ pc' = "tree"
           /\ UNCHANGED <<source, target, parent, commandVars, result, before, listed>>
  <2> USE DEF commandVars
  <2>1. Types' BY <1>3 DEF IInv, Types
  <2>2. WellFormed(target)' /\ WellFormed(before)' BY <1>3 DEF IInv, WellFormed
  <2>3. Where' BY <1>0, <1>3 DEF IInv, Where
  <2>4. Copying' /\ Removing' /\ Results' BY <1>3 DEF Copying, Removing, Results
  <2> QED BY <2>1, <2>2, <2>3, <2>4 DEF IInv
<1> QED BY <1>1, <1>2, <1>3 DEF RemoveInfo

\* What one entry's removal may do.
LEMMA EntryRemoved ==
  ASSUME IInv, NEW e \in Paths, RemoveEntry(e)
  PROVE  /\ target' \in Trees /\ WellFormed(target') /\ error' \in BOOLEAN
         /\ \A p \in Paths : \/ target'[p] = target[p]
                             \/ target'[p] = "none" /\ p \in Below(e) \cup {e} /\
                                (options.recursive \/ (p = e /\ IsFile(target[e])))
         /\ ~ error' => /\ ~ error
                        /\ \/ target'[e] = "none"
                           \/ ~ options.recursive /\ target'[e] = "dir"
<1>0. target \in Trees /\ WellFormed(target) /\ error \in BOOLEAN
  BY DEF IInv, Types
<1>1. CASE UNCHANGED target /\ error' = TRUE
  BY <1>0, <1>1 DEF WellFormed
<1>2. CASE ~ error /\ target[e] = "dir" /\ options.recursive /\ RemovesTree(e) /\ UNCHANGED error
  <2>1. target' \in Trees /\ \A p \in Paths :
          target'[p] = IF p \in Below(e) \cup {e} THEN "none" ELSE target[p]
    BY <1>0, <1>2, WithoutTypes DEF RemovesTree
  <2>2. WellFormed(target') BY <1>0, <1>2, WithoutTreeWellFormed DEF RemovesTree
  <2> QED BY <1>0, <1>2, <2>1, <2>2
<1>3. CASE ~ error /\ target[e] = "dir" /\ options.recursive /\ RemovesPart(e) /\ error' = TRUE
  <2>1. PICK gone \in SUBSET (Below(e) \cup {e}) :
          target' = Without(target, gone) /\ WellFormed(target')
    BY <1>3 DEF RemovesPart
  <2>2. target' \in Trees /\ \A p \in Paths :
          target'[p] = IF p \in gone THEN "none" ELSE target[p]
    BY <1>0, <2>1, WithoutTypes
  <2> QED BY <1>0, <1>3, <2>1, <2>2
<1>4. CASE ~ error /\ target[e] = "dir" /\ ~ options.recursive /\ UNCHANGED <<target, error>>
  BY <1>0, <1>4 DEF WellFormed
<1>5. CASE ~ error /\ IsFile(target[e]) /\ target' = Put(target, e, "none") /\ UNCHANGED error
  <2>1. target' \in Trees /\ WellFormed(target')
    BY <1>0, <1>5, PutTypes, PutWellFormed, Kinds DEF IsFile
  <2>2. \A p \in Paths : IF p = e THEN target'[p] = "none" ELSE target'[p] = target[p]
    BY <1>0, <1>5, PutTypes
  <2> QED BY <1>0, <1>5, <2>1, <2>2
<1>6. CASE error /\ UNCHANGED <<target, error>>
  BY <1>0, <1>6 DEF WellFormed
<1> QED BY <1>1, <1>2, <1>3, <1>4, <1>5, <1>6 DEF RemoveEntry

LEMMA RemoveEntryStep ==
  ASSUME IInv, NEW e \in Paths, RemoveEntry(e)
  PROVE  IInv'
<1>1. /\ pc = "entries" /\ op = "remove" /\ e \in todo /\ todo' = todo \ {e}
      /\ UNCHANGED <<source, parent, pc, op, options, info, check, base, entry,
                     result, before, listed>>
  BY DEF RemoveEntry
<1>2. target' \in Trees /\ WellFormed(target') /\ error' \in BOOLEAN
  BY EntryRemoved
<1>3. /\ options.all /\ e \in listed
      /\ listed = {p \in Below(Top) : Above[p] = {Top} /\ before[p] # "none"}
      /\ ~ error => \A d \in listed \ todo :
                      \/ target[d] = "none"
                      \/ ~ options.recursive /\ target[d] = "dir"
      /\ \A p \in Paths : \/ target[p] = before[p]
                          \/ target[p] = "none" /\ Asked(p)
  BY <1>1 DEF IInv, Removing, Where
<1>4. Types' BY <1>1, <1>2 DEF IInv, Types
<1>5. WellFormed(target)' /\ WellFormed(before)' BY <1>1, <1>2 DEF IInv, WellFormed
<1>6. Where' BY <1>1, <1>3 DEF IInv, Where
<1>7. Copying' /\ Results' BY <1>1 DEF Copying, Results
<1>8. \A p \in Paths : \/ target'[p] = before[p]
                       \/ target'[p] = "none" /\ Asked(p)
  <2> SUFFICES ASSUME NEW p \in Paths, target'[p] # target[p]
               PROVE  target'[p] = "none" /\ Asked(p)
    BY <1>3
  <2>1. /\ target'[p] = "none" /\ p \in Below(e) \cup {e}
        /\ options.recursive \/ (p = e /\ IsFile(target[e]))
    BY EntryRemoved
  <2>2. p # Top /\ Above[e] = {Top} BY <1>3, <2>1, Tops DEF Below
  <2>3. IsFile(target[e]) => IsFile(before[e]) BY <1>3, Kinds DEF IsFile
  <2> QED BY <2>1, <2>2, <2>3 DEF Asked
<1>9. ~ error' => \A d \in listed \ todo' :
                    \/ target'[d] = "none"
                    \/ ~ options.recursive /\ target'[d] = "dir"
  <2> SUFFICES ASSUME ~ error', NEW d \in listed \ todo'
               PROVE  \/ target'[d] = "none"
                      \/ ~ options.recursive /\ target'[d] = "dir"
    OBVIOUS
  <2>1. CASE d = e BY <2>1, EntryRemoved
  <2>2. CASE d # e
    <3>1. d \in Paths /\ ~ error BY EntryRemoved DEF IInv, Types
    <3>2. target[d] = "none" \/ (~ options.recursive /\ target[d] = "dir")
      BY <1>1, <1>3, <2>2, <3>1
    <3>3. target'[d] = target[d] \/ target'[d] = "none" BY <3>1, EntryRemoved
    <3> QED BY <3>2, <3>3
  <2> QED BY <2>1, <2>2
<1>10. Removing' BY <1>1, <1>3, <1>8, <1>9 DEF Removing, Asked
<1> QED BY <1>4, <1>5, <1>6, <1>7, <1>10 DEF IInv

LEMMA RemoveEndStep ==
  ASSUME IInv, RemoveEnd
  PROVE  IInv'
<1>1. /\ pc = "entries" /\ op = "remove" /\ todo = {} /\ Return(~ error)
      /\ UNCHANGED <<target, parent>> /\ error \in BOOLEAN
  BY DEF RemoveEnd, IInv, Types
<1>2. target \in Trees /\ parent \in BOOLEAN /\ WellFormed(target)
  BY DEF IInv, Types
<1>3. /\ options.all
      /\ listed = {p \in Below(Top) : Above[p] = {Top} /\ before[p] # "none"}
      /\ ~ error => \A d \in listed :
                      \/ target[d] = "none"
                      \/ ~ options.recursive /\ target[d] = "dir"
      /\ \A p \in Paths : \/ target[p] = before[p]
                          \/ target[p] = "none" /\ Asked(p)
  BY <1>1 DEF IInv, Removing
<1>4. ASSUME ~ error, NEW p \in Paths, Asked(p)
      PROVE  target[p] = "none"
  <2>1. p # Top BY <1>3, <1>4 DEF Asked
  <2>2. CASE ~ options.recursive
    <3>1. Above[p] = {Top} /\ IsFile(before[p]) BY <1>3, <1>4, <2>2 DEF Asked
    <3>2. p \in listed BY <1>3, <3>1, Kinds DEF Below, IsFile
    <3>3. target[p] # "none" => target[p] = before[p] BY <1>3
    <3> QED BY <1>3, <1>4, <3>1, <3>2, <3>3, Kinds DEF IsFile
  <2>3. CASE options.recursive
    <3>1. PICK q \in Above[p] \cup {p} : Above[q] = {Top} BY <2>1, FilesAssumption
    <3>2. q \in Paths /\ q \in Below(Top) BY <3>1, FilesAssumption DEF Below
    <3>3. CASE before[q] = "none" 
      <4>1. target[q] = "none" BY <1>3, <3>2, <3>3
      <4> QED BY <1>2, <3>1, <3>2, <4>1, NothingBelow DEF Below
    <3>4. CASE before[q] # "none"
      <4>1. q \in listed BY <1>3, <3>1, <3>2, <3>4
      <4>2. target[q] = "none" BY <1>3, <1>4, <2>3, <4>1
      <4> QED BY <1>2, <3>1, <3>2, <4>2, NothingBelow DEF Below
    <3> QED BY <3>3, <3>4
  <2> QED BY <2>2, <2>3
<1>5. WellFormed(target') BY <1>1, <1>2
<1> QED BY <1>1, <1>2, <1>3, <1>4, <1>5, RemoveReturns

LEMMA RemoveTopStep ==
  ASSUME IInv, RemoveTop
  PROVE  IInv'
<1>1. /\ pc = "tree" /\ op = "remove" /\ target = before /\ ~ options.all
      /\ UNCHANGED parent /\ target \in Trees /\ parent \in BOOLEAN
      /\ WellFormed(target) /\ Top \in Paths
  BY Tops DEF RemoveTop, IInv, Types, Where
<1>2. \A p \in Paths : Asked(p) BY <1>1 DEF Asked
<1>3. \A p \in Paths : p \in Below(Top) \cup {Top} BY FilesAssumption DEF Below
<1>4. CASE RemovesTree(Top) /\ Return(TRUE)
  <2>1. target' \in Trees /\ WellFormed(target') /\ \A p \in Paths : target'[p] = "none"
    BY <1>1, <1>3, <1>4, WithoutTypes, WithoutTreeWellFormed DEF RemovesTree
  <2> QED BY <1>1, <1>2, <1>4, <2>1, RemoveReturns
<1>5. CASE RemovesPart(Top) /\ Return(FALSE)
  <2>1. PICK gone \in SUBSET (Below(Top) \cup {Top}) :
          target' = Without(target, gone) /\ WellFormed(target')
    BY <1>5 DEF RemovesPart
  <2>2. target' \in Trees /\ \A p \in Paths :
          target'[p] = IF p \in gone THEN "none" ELSE target[p]
    BY <1>1, <2>1, WithoutTypes
  <2> QED BY <1>1, <1>2, <1>5, <2>1, <2>2, RemoveReturns
<1>6. CASE IsFile(target[Top]) /\ target' = Put(target, Top, "none") /\ Return(TRUE)
  <2>1. target' \in Trees /\ WellFormed(target') /\ target'[Top] = "none"
    BY <1>1, <1>6, PutTypes, PutWellFormed, Kinds DEF IsFile
  <2>2. \A p \in Paths : target'[p] = "none"
    BY <1>3, <2>1 DEF WellFormed, Below
  <2> QED BY <1>1, <1>2, <1>6, <2>1, <2>2, RemoveReturns
<1>7. CASE Return(FALSE) /\ UNCHANGED target
  <2>1. WellFormed(target') BY <1>1, <1>7
  <2> QED BY <1>1, <1>2, <1>7, <2>1, RemoveReturns
<1> QED BY <1>4, <1>5, <1>6, <1>7 DEF RemoveTop

-----------------------------------------------------------------------------
LEMMA Unchanged ==
  ASSUME IInv, UNCHANGED vars
  PROVE  IInv'
<1> USE DEF vars, commandVars
<1>1. CopySound /\ OneBroken /\ ExistingKept /\ RemoveSound BY Standing
<1>2. Types' BY DEF IInv, Types
<1>3. WellFormed(target)' /\ WellFormed(before)' BY DEF IInv, WellFormed
<1>4. Where' BY DEF IInv, Where
<1>5. Copying' BY DEF IInv, Copying, Clean, Goal
<1>6. Removing' BY DEF IInv, Removing, Asked
<1>7. CopySound' BY <1>1 DEF CopySound, Succeeded, Goal
<1>8. OneBroken' BY <1>1 DEF OneBroken, Goal
<1>9. ExistingKept' BY <1>1 DEF ExistingKept
<1>10. RemoveSound' BY <1>1, <1>3 DEF RemoveSound, Succeeded, Asked
<1> QED BY <1>2, <1>3, <1>4, <1>5, <1>6, <1>7, <1>8, <1>9, <1>10 DEF IInv, Results

LEMMA StepInv ==
  ASSUME IInv, [Next]_vars
  PROVE  IInv'
<1>1. ASSUME NEW o \in {"copy", "mkdir", "remove"}, NEW opts \in Options, Begin(o, opts)
      PROVE  IInv'
  BY <1>1, BeginStep
<1>2. CASE Mkdir BY <1>2, MkdirStep
<1>3. CASE CopyInfo BY <1>3, CopyInfoStep
<1>4. CASE CopyDirectory BY <1>4, CopyDirectoryStep
<1>5. CASE CopyFile BY <1>5, CopyFileStep
<1>6. ASSUME NEW e \in Paths, SkipEntry(e) PROVE IInv' BY <1>6, SkipEntryStep
<1>7. ASSUME NEW e \in Paths, PrepareApp(e) PROVE IInv' BY <1>7, PrepareAppStep
<1>8. ASSUME NEW e \in Paths, PrepareFile(e) PROVE IInv' BY <1>8, PrepareFileStep
<1>9. CASE OpenEntry BY <1>9, OpenEntryStep
<1>10. CASE TransferEntry BY <1>10, TransferEntryStep
<1>11. CASE CopyEnd BY <1>11, CopyEndStep
<1>12. CASE RemoveInfo BY <1>12, RemoveInfoStep
<1>13. ASSUME NEW e \in Paths, RemoveEntry(e) PROVE IInv' BY <1>13, RemoveEntryStep
<1>14. CASE RemoveEnd BY <1>14, RemoveEndStep
<1>15. CASE RemoveTop BY <1>15, RemoveTopStep
<1>16. CASE UNCHANGED vars BY <1>16, Unchanged
<1> QED
  BY <1>1, <1>2, <1>3, <1>4, <1>5, <1>6, <1>7, <1>8, <1>9, <1>10, <1>11, <1>12,
     <1>13, <1>14, <1>15, <1>16 DEF Next

LEMMA Inductive == Spec => []IInv
<1>1. Init => IInv BY InitInv
<1>2. IInv /\ [Next]_vars => IInv' BY StepInv
<1> QED BY <1>1, <1>2, PTL DEF Spec

-----------------------------------------------------------------------------
(***************************************************************************)
(* The variables keep their types, and the destination remains a tree.     *)
(***************************************************************************)
THEOREM FilesTypes == Spec => []TypeOK
<1>1. IInv => TypeOK BY DEF IInv, TypeOK
<1> QED BY <1>1, Inductive, PTL

(***************************************************************************)
(* fs.copy that reports success copied every entry of its list, unless it  *)
(* skipped them (FileSystem.cpp, copy), whatever the trees and whichever   *)
(* calls of the library fail.                                              *)
(***************************************************************************)
THEOREM CopyIsSound == Spec => []CopySound
<1>1. IInv => CopySound BY Standing
<1> QED BY <1>1, Inductive, PTL

(***************************************************************************)
(* At any point of a copy, one file of the destination at most is neither  *)
(* as it was nor as it should become: the loop stops at the first failure. *)
(***************************************************************************)
THEOREM AtMostOneBroken == Spec => []OneBroken
<1>1. IInv => OneBroken BY Standing
<1> QED BY <1>1, Inductive, PTL

(***************************************************************************)
(* Without overwrite no existing file is changed, as long as the           *)
(* destination could be read and is the place that is written to.          *)
(***************************************************************************)
THEOREM ExistingFilesKept == Spec => []ExistingKept
<1>1. IInv => ExistingKept BY Standing
<1> QED BY <1>1, Inductive, PTL

(***************************************************************************)
(* fs.remove removes what it was asked for if it reports success, and      *)
(* never anything else (FileSystem.cpp, remove).                           *)
(***************************************************************************)
THEOREM RemoveIsSound == Spec => []RemoveSound
<1>1. IInv => RemoveSound BY Standing
<1> QED BY <1>1, Inductive, PTL
=============================================================================
