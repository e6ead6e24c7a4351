------------------------------ MODULE Packages -------------------------------
(***************************************************************************)
(* The Packager, which gathers a directory into a self-extracting archive  *)
(* and extracts one, and the commands that use it: os.pack, fs.archive     *)
(* and cloud.install:compiler=true, one after the other.                   *)
(*                                                                         *)
(* Anything asked of the library may fail: an error is then pending, with  *)
(* which the calls that follow do nothing.  What 7z and the archive itself *)
(* return is ignored: each may stop with a part of its work done and be    *)
(* taken for complete.  A hash is modelled by the archive that it is of.   *)
(***************************************************************************)
EXTENDS FiniteSets

CONSTANTS
  Sources,  \* files that a source directory can have
  Junk,     \* those that are never packed: .DS_Store, and all below __MACOSX
  Foreign,  \* a file that is in an archive of someone else
  Filters   \* bound: the files that a filter matches

ASSUME PackagesAssumption ==
  /\ IsFiniteSet(Sources) /\ Junk \subseteq Sources /\ Foreign \notin Sources
  /\ Filters \subseteq SUBSET Sources

VARIABLES
  package,  \* file that os.pack or fs.archive has made last
  asked,    \* the command
  stage,    \* where it is
  wanted,   \* history: the files that the command should pack
  pending,  \* entries that are not gathered yet
  temp,     \* files in m_temporary_directory_path
  product,  \* file at m_archive_path
  digest,   \* m_hash
  shown,    \* the hash that was displayed last
  packed,   \* history: the files that should be in the archive of that hash
  sdk,      \* files that the command has extracted into the destination
  halted,   \* history: the archive was not whole, or did not extract all it holds
  failed,   \* is_error()
  reply     \* what the command returned

packagesVars == <<package, asked, stage, wanted, pending, temp, product, digest,
                  shown, packed, sdk, halted, failed, reply>>

\* An archive: what it holds, whether 7z and those who copied it wrote all of
\* it, whether it is an _sblob, and whether that has its key in it.
Archives == [files : SUBSET (Sources \cup {Foreign}), whole : BOOLEAN,
             sealed : BOOLEAN, keyed : BOOLEAN]

Missing == [missing |-> TRUE]

PackRequests == [op : {"pack", "archive"}, sblob : BOOLEAN, filter : Filters]

ConvertRequests == [op : {"convert"}, extract : BOOLEAN, key : BOOLEAN]

InstallRequests ==
  [op : {"compiler"}, url : {"none", "package", "http"}, hash : BOOLEAN, dryrun : BOOLEAN]

\* fs.archive:extract=true of a directory.
DeployRequests == [op : {"deploy"}, url : {"none"}, hash : BOOLEAN, dryrun : {FALSE}]

PackagesInit ==
  /\ package = Missing
  /\ asked = [op |-> "none"] /\ stage = "idle" /\ wanted = {} /\ pending = {} /\ temp = {}
  /\ product = Missing /\ digest = Missing /\ shown = Missing /\ packed = {}
  /\ sdk = {} /\ halted = FALSE /\ failed = FALSE /\ reply = "none"

Cut(archive) ==
  {[archive EXCEPT !.whole = FALSE, !.files = part] :
     part \in SUBSET archive.files \ {archive.files}}

-----------------------------------------------------------------------------
\* A temporary directory that cannot be created has the effect of a source, or a
\* url, that cannot be read.
BeginsPackager(request, first) ==
  /\ stage = "idle" /\ stage' = first /\ asked' = request
  /\ wanted' = {} /\ pending' = {} /\ temp' = {} /\ product' = Missing /\ digest' = Missing
  /\ sdk' = {} /\ halted' = FALSE /\ reply' = "none"
  /\ failed' = FALSE
  /\ UNCHANGED <<package, shown, packed>>

\* effective_destination, the source and the key have been found.
BeginPack(request) == BeginsPackager(request, "list")

\* The cloud is ready, or is not there in this build; the destination is given.
BeginInstall(request) == BeginsPackager(request, "download")

\* Arguments, destination, key, source or cloud are not there.
Refused ==
  /\ stage = "idle" /\ reply' = "failure"
  /\ asked' = [op |-> "none"] /\ wanted' = {} /\ sdk' = {} /\ halted' = FALSE
  /\ UNCHANGED <<package, stage, pending, temp, product, digest, shown,
                 packed, failed>>

\* fs.archive of a file: an _sblob is made of it, with its key in it if none is
\* given, or a plain file of an _sblob.
Convert(request) ==
  /\ stage = "idle" /\ package # Missing /\ package.sealed = request.extract
  /\ asked' = request /\ wanted' = {} /\ sdk' = {} /\ halted' = FALSE
  /\ LET made == [package EXCEPT !.sealed = ~request.extract,
                                      !.keyed = ~request.extract /\ ~request.key]
     IN  \/ package' = made /\ reply' = "success"
         \/ package' \in Cut(made) \cup {package} /\ reply' = "failure"
  /\ UNCHANGED <<stage, pending, temp, product, digest, shown, packed, failed>>

-----------------------------------------------------------------------------
\* get_directory_entries(), less the entries that contain a filter.
Entered(tree) == (tree \ Junk) \ asked.filter

\* Whatever the directory holds by now.  One that cannot be read, or an entry
\* without info, is an error.
List ==
  /\ stage = "list" /\ stage' = "gather"
  /\ \E tree \in SUBSET Sources : wanted' = Entered(tree)
  /\ \/ pending' = wanted' /\ UNCHANGED failed
     \/ pending' = {} /\ failed' = TRUE
  /\ UNCHANGED <<package, asked, temp, product, digest, shown, packed, sdk,
                 halted, reply>>

\* Mutant of Gather: the error of a file that cannot be copied is reset.
GatherSkips(f) ==
  /\ stage = "gather" /\ f \in pending
  /\ pending' = pending \ {f}
  /\ temp' \in {temp, temp \cup {f}}
  /\ UNCHANGED <<package, asked, stage, wanted, product, digest, shown, packed,
                 sdk, halted, failed, reply>>

\* One file is copied into the temporary directory.
Gather(f) ==
  /\ stage = "gather" /\ f \in pending
  /\ pending' = pending \ {f}
  /\ \/ ~failed /\ temp' = temp \cup {f} /\ UNCHANGED failed
     \/ failed' = TRUE /\ UNCHANGED temp
  /\ UNCHANGED <<package, asked, stage, wanted, product, digest, shown, packed,
                 sdk, halted, reply>>

\* OperatingSystem::archive(): 7z, in the temporary directory.  With an error
\* pending the source is not valid, and there is nothing to archive; without
\* 7z nothing is made, and cannot be read.
Archive ==
  /\ stage = "gather" /\ pending = {}
  /\ LET made == [files |-> temp, whole |-> TRUE, sealed |-> FALSE, keyed |-> FALSE]
     IN  \/ ~failed /\ product' \in {made} \cup Cut(made) /\ stage' = "seal"
            /\ UNCHANGED failed
         \/ failed' = TRUE /\ stage' = "destroy" /\ UNCHANGED product
  /\ UNCHANGED <<package, asked, wanted, pending, temp, digest, shown, packed, sdk,
                 halted, reply>>

\* create_secure_file(); os.pack leaves the key in it, fs.archive removes it.
Seal ==
  /\ stage = "seal"
  /\ \/ /\ stage' = "hash"
        /\ product' = IF asked.sblob
                      THEN [product EXCEPT !.sealed = TRUE, !.keyed = asked.op = "pack"]
                      ELSE product
        /\ UNCHANGED failed
     \/ asked.sblob /\ failed' = TRUE /\ stage' = "destroy" /\ UNCHANGED product
  /\ UNCHANGED <<package, asked, wanted, pending, temp, digest, shown, packed, sdk,
                 halted, reply>>

\* The hash of what is published: of the _sblob, if there is one.
HashProduct ==
  /\ stage = "hash"
  /\ \/ digest' = product /\ stage' = "write" /\ UNCHANGED failed
     \/ failed' = TRUE /\ stage' = "destroy" /\ UNCHANGED digest
  /\ UNCHANGED <<package, asked, wanted, pending, temp, product, shown, packed, sdk,
                 halted, reply>>

\* The archive is copied to the destination, which is truncated first.  The hash
\* is displayed even if that fails, by fs.archive only of a secured archive.
Write ==
  /\ stage = "write" /\ stage' = "destroy"
  /\ IF asked.op = "pack" \/ asked.sblob
     THEN shown' = digest /\ packed' = wanted ELSE UNCHANGED <<shown, packed>>
  /\ \/ package' = product /\ UNCHANGED failed
     \/ package' \in Cut(product) \cup {package} /\ failed' = TRUE
  /\ UNCHANGED <<asked, wanted, pending, temp, product, digest, sdk, halted, reply>>

-----------------------------------------------------------------------------
\* What someone else has put where the url points.
Others == [files : {{Foreign}}, whole : {TRUE}, sealed : {FALSE}, keyed : {FALSE}]

\* What the url, or without one the list of packages, leads to.  A download
\* that is cut short may still have a status of ok.
Offered ==
  CASE asked.op = "deploy" -> {}
    [] asked.url = "package" -> {package}
    [] OTHER -> {package} \cup Others
                  \cup (IF package # Missing /\ asked.url = "http" THEN Cut(package) ELSE {})

\* do_download().  That the list of packages has none of that name and version
\* is no error.
Download ==
  /\ stage = "download" /\ stage' = "extract"
  /\ \/ product' \in Offered \ {Missing} /\ UNCHANGED failed
     \/ asked.url = "none" /\ UNCHANGED <<product, failed>>
     \/ failed' = TRUE /\ UNCHANGED product
  /\ UNCHANGED <<package, asked, wanted, pending, temp, digest, shown, packed, sdk,
                 halted, reply>>

Extracts(next, file) ==
  /\ stage' = next /\ product' = file
  /\ UNCHANGED <<package, asked, wanted, pending, temp, shown, packed, sdk, halted,
                 reply>>

\* Mutant of CheckHash: the hash that is given is compared with the one of the
\* package that was made, and not with the one of the download.
CheckHashElsewhere ==
  /\ stage = "extract"
  /\ \/ /\ failed \/ asked.dryrun
        /\ Extracts("destroy", product) /\ UNCHANGED <<digest, failed>>
     \/ /\ ~failed /\ ~asked.dryrun /\ product # Missing
        /\ digest' = package
        /\ failed' = (asked.hash /\ digest' # shown)
        /\ Extracts(IF failed' THEN "destroy" ELSE "decrypt", product)

\* do_extract(), up to the hash.  A dry run does not come to it.
CheckHash ==
  /\ stage = "extract"
  /\ \/ /\ failed \/ asked.dryrun
        /\ Extracts("destroy", product) /\ UNCHANGED <<digest, failed>>
     \/ /\ ~failed /\ ~asked.dryrun /\ product # Missing
        /\ digest' = product
        /\ failed' = (asked.hash /\ digest' # shown)
        /\ Extracts(IF failed' THEN "destroy" ELSE "decrypt", product)
     \/ /\ ~failed /\ ~asked.dryrun /\ failed' = TRUE
        /\ Extracts("destroy", product) /\ UNCHANGED digest

\* create_plain_file().  No key is given to cloud.install: without the one in
\* the file, nothing that can be run comes out of it.
Decrypt ==
  /\ stage = "decrypt"
  /\ \/ /\ Extracts("run", IF ~product.sealed THEN product
                           ELSE IF product.keyed
                                THEN [product EXCEPT !.sealed = FALSE, !.keyed = FALSE]
                                ELSE [product EXCEPT !.sealed = FALSE, !.whole = FALSE,
                                                     !.files = {}])
        /\ UNCHANGED failed
     \/ /\ product.sealed /\ failed' = TRUE
        /\ Extracts("destroy", product)
  /\ UNCHANGED digest

\* OperatingSystem::extract(): the archive is run in the destination.  That it
\* could not be started is an error, what it returns is not.
RunArchive ==
  /\ stage = "run" /\ stage' = "destroy"
  /\ \/ /\ product.whole /\ sdk' = product.files
        /\ UNCHANGED <<halted, failed>>
     \/ sdk' \in SUBSET product.files /\ halted' = TRUE /\ UNCHANGED failed
     \/ failed' = TRUE /\ UNCHANGED <<sdk, halted>>
  /\ UNCHANGED <<package, asked, wanted, pending, temp, product, digest, shown,
                 packed, reply>>

-----------------------------------------------------------------------------
\* ~Packager(), under an ErrorScope; then the command returns.
Destroy ==
  /\ stage = "destroy" /\ stage' = "idle"
  /\ temp' = {} /\ product' = Missing /\ failed' = FALSE
  /\ reply' = (IF failed THEN "failure" ELSE "success")
  /\ UNCHANGED <<package, asked, wanted, pending, digest, shown, packed, sdk,
                 halted>>

PackagesNext ==
  \/ \E request \in PackRequests : BeginPack(request)
  \/ \E request \in InstallRequests \cup DeployRequests : BeginInstall(request)
  \/ \E request \in ConvertRequests : Convert(request)
  \/ Refused
  \/ List \/ (\E f \in Sources : Gather(f)) \/ Archive \/ Seal \/ HashProduct \/ Write
  \/ Download \/ CheckHash \/ Decrypt \/ RunArchive \/ Destroy

PackagesSpec == PackagesInit /\ [][PackagesNext]_packagesVars

-----------------------------------------------------------------------------
(***************************************************************************)
(* os.pack and fs.archive that report success have written the archive     *)
(* whose hash they display, secured if it should be, and, unless 7z        *)
(* stopped early, with every file of the source that is not filtered and   *)
(* no other: no file that could not be copied is passed over.              *)
(***************************************************************************)
PackageSound ==
  stage = "idle" /\ asked.op \in {"pack", "archive"} /\ reply = "success" =>
    /\ package = digest /\ package.sealed = asked.sblob
    /\ package.files \subseteq wanted
    /\ package.whole => package.files = wanted

(***************************************************************************)
(* cloud.install:compiler=true with the hash that was displayed extracts   *)
(* nothing but files that were packed under that hash, whatever is         *)
(* downloaded and whatever fails; and if it reports success, all of them,  *)
(* unless 7z or the archive stopped early, which nobody looks at.          *)
(***************************************************************************)
InstalledAsPacked ==
  asked.op = "compiler" /\ asked.hash =>
    /\ sdk \subseteq packed
    /\ stage = "idle" /\ reply = "success" /\ ~asked.dryrun /\ ~halted =>
         sdk = packed
=============================================================================
