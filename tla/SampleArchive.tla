---------------------------- MODULE SampleArchive ----------------------------
(***************************************************************************)
(* The collector of HWP samples (hwp_sample_archive.py): every document a  *)
(* pinned commit tracks is taken from the commit's archive, verified and   *)
(* recorded in a manifest that the next run uses as its cache.  A run may  *)
(* die between any two steps and is started again over what it left.       *)
(*                                                                         *)
(* One repository stands for the six, which are handled one after another  *)
(* with the same code.  A file is known by its blob: two files have the    *)
(* same SHA-256 when they are the same blob.  Documents are extracted in   *)
(* any order.                                                              *)
(***************************************************************************)
EXTENDS Naturals

CONSTANTS
    Paths,         \* the paths that any commit tracks
    Blobs,         \* the contents of tracked files and of LFS objects
    Damaged,       \* a content that is none of them
    None,
    Tree,          \* what a commit tracks: [path -> [blob, lfs]] for each commit
    MaxFaults      \* bound: crashes, failed or cut off downloads, damaged files

Commits == DOMAIN Tree

ASSUME TreeAssumption ==
    /\ 1 \in Commits /\ Commits \subseteq Nat
    /\ \A c \in Commits :
         /\ DOMAIN Tree[c] \subseteq Paths
         /\ \A p \in DOMAIN Tree[c] : Tree[c][p] \in [blob : Blobs, lfs : Blobs \cup {None}]
    /\ {Damaged, None} \cap Blobs = {}
    /\ MaxFaults \in Nat

VARIABLES
    commit,        \* the commit the installed program has pinned
    pc,            \* the collector's place in the code
    todo,          \* missing_entries
    current,       \* the entry being extracted
    records,       \* records_by_path, a set
    disk,          \* by-repository: what is at each path
    zips,          \* .downloads: the archive of each commit
    unique,        \* the contents in the unique view
    manifest,      \* manifest.json, None when there is none or it is torn
    faults

vars == <<commit, pc, todo, current, records, disk, zips, unique, manifest, faults>>

Places == {"idle", "archive", "open", "extract", "lfs", "record", "unlink", "clear",
           "link", "overwrite", "write", "finished"}

Record == [commit : Commits, path : Paths, blob : Blobs, sha : Blobs \cup {Damaged}]

Entries    == DOMAIN Tree[commit]
Entry(p)   == Tree[commit][p]

\* What a verified file holds: the LFS object where the blob is a pointer to one.
Expected(c, p) == IF Tree[c][p].lfs = None THEN Tree[c][p].blob ELSE Tree[c][p].lfs

TypeOK ==
    /\ commit \in Commits
    /\ pc \in Places
    /\ todo \subseteq Paths
    /\ current \in Paths \cup {None}
    /\ records \subseteq Record
    /\ disk \in [Paths -> Blobs \cup {Damaged, None}]
    /\ zips \in [Commits -> {"none", "whole", "cut"}]
    /\ unique \subseteq Blobs \cup {Damaged}
    /\ manifest \in (SUBSET Record) \cup {None}
    /\ faults \in 0..MaxFaults

Init ==
    /\ commit = 1
    /\ pc = "idle" /\ todo = {} /\ current = None /\ records = {}
    /\ disk = [p \in Paths |-> None]
    /\ zips = [c \in Commits |-> "none"]
    /\ unique = {} /\ manifest = None
    /\ faults = 0

Fault == faults < MaxFaults /\ faults' = faults + 1

\* An exception, or the end of the process: the locals are gone, files stay.
Stop == pc' = "idle" /\ todo' = {} /\ current' = None /\ records' = {}

-----------------------------------------------------------------------------

\* _load_previous_records.
Previous == IF manifest = None THEN {} ELSE manifest

\* Mutant: the content is not hashed again.
CachedWithoutHash(p) ==
    {r \in Previous : /\ r.path = p /\ r.commit = commit /\ r.blob = Entry(p).blob
                      /\ disk[p] # None}

\* _cached_record: the record of this very entry, and the file it described.
Cached(p) ==
    {r \in Previous : /\ r.path = p
                      /\ r.commit = commit
                      /\ r.blob = Entry(p).blob
                      /\ disk[p] = r.sha}

\* enumerate_repository, and the first loop of collect_repository.
Start ==
    /\ pc \in {"idle", "finished"}
    /\ records' = UNION {Cached(p) : p \in Entries}
    /\ todo' = {p \in Entries : Cached(p) = {}}
    /\ pc' = IF todo' = {} THEN "clear" ELSE "archive"
    /\ UNCHANGED <<commit, current, disk, zips, unique, manifest, faults>>

\* An archive that an earlier run left is used as it is.
HasArchive ==
    /\ pc = "archive"
    /\ zips[commit] # "none"
    /\ pc' = "open"
    /\ UNCHANGED <<commit, todo, current, records, disk, zips, unique, manifest, faults>>

\* _download: temporary.replace(destination) at the end of the response.
DownloadArchive ==
    /\ pc = "archive"
    /\ zips[commit] = "none"
    /\ zips' = [zips EXCEPT ![commit] = "whole"]
    /\ pc' = "open"
    /\ UNCHANGED <<commit, todo, current, records, disk, unique, manifest, faults>>

\* The connection ends early, which response.read does not report.
DownloadIsCutOff ==
    /\ pc = "archive"
    /\ zips[commit] = "none"
    /\ Fault
    /\ zips' = [zips EXCEPT ![commit] = "cut"]
    /\ pc' = "open"
    /\ UNCHANGED <<commit, todo, current, records, disk, unique, manifest>>

\* ZipFile raises on an archive that has no directory at its end.
OpenArchive ==
    /\ pc = "open"
    /\ IF zips[commit] = "whole"
       THEN pc' = "extract" /\ UNCHANGED <<todo, current, records>>
       ELSE Stop
    /\ UNCHANGED <<commit, disk, zips, unique, manifest, faults>>

\* Mutant: a file that is there is not replaced.
ExtractWhereMissing(p) ==
    /\ pc = "extract"
    /\ p \in todo
    /\ disk[p] = None
    /\ current' = p
    /\ disk' = [disk EXCEPT ![p] = Entry(p).blob]
    /\ pc' = IF Entry(p).lfs = None THEN "record" ELSE "lfs"
    /\ UNCHANGED <<commit, todo, records, zips, unique, manifest, faults>>

\* The member replaces the file, and its Git hash is the entry's.
Extract(p) ==
    /\ pc = "extract"
    /\ p \in todo
    /\ current' = p
    /\ disk' = [disk EXCEPT ![p] = Entry(p).blob]
    /\ pc' = IF Entry(p).lfs = None THEN "record" ELSE "lfs"
    /\ UNCHANGED <<commit, todo, records, zips, unique, manifest, faults>>

\* The object replaces the pointer.
DownloadObject ==
    /\ pc = "lfs"
    /\ disk' = [disk EXCEPT ![current] = Entry(current).lfs]
    /\ pc' = "record"
    /\ UNCHANGED <<commit, todo, current, records, zips, unique, manifest, faults>>

\* Mutant: the object is taken as it comes.
ObjectIsTrusted ==
    /\ pc = "lfs"
    /\ Fault
    /\ disk' = [disk EXCEPT ![current] = Damaged]
    /\ pc' = "record"
    /\ UNCHANGED <<commit, todo, current, records, zips, unique, manifest>>

\* Cut off, or another object: the size or the hash shows it after the replace.
ObjectIsWrong ==
    /\ pc = "lfs"
    /\ Fault
    /\ disk' = [disk EXCEPT ![current] = Damaged]
    /\ Stop
    /\ UNCHANGED <<commit, zips, unique, manifest>>

RecordFile ==
    /\ pc = "record"
    /\ records' = records \cup {[commit |-> commit, path |-> current,
                                 blob |-> Entry(current).blob, sha |-> disk[current]]}
    /\ todo' = todo \ {current}
    /\ current' = None
    /\ pc' = IF todo' = {} THEN "unlink" ELSE "extract"
    /\ UNCHANGED <<commit, disk, zips, unique, manifest, faults>>

UnlinkArchive ==
    /\ pc = "unlink"
    /\ zips' = [zips EXCEPT ![commit] = "none"]
    /\ pc' = "clear"
    /\ UNCHANGED <<commit, todo, current, records, disk, unique, manifest, faults>>

-----------------------------------------------------------------------------
(* build_unique_view and the manifest. *)

ClearUnique ==
    /\ pc = "clear"
    /\ unique' = {}
    /\ pc' = "link"
    /\ UNCHANGED <<commit, todo, current, records, disk, zips, manifest, faults>>

\* Mutant: the view is keyed by the path.
LinkPaths ==
    /\ pc = "link"
    /\ unique' = {r.path : r \in records}
    /\ pc' = "overwrite"
    /\ UNCHANGED <<commit, todo, current, records, disk, zips, manifest, faults>>

LinkUnique ==
    /\ pc = "link"
    /\ unique' = {disk[r.path] : r \in records}
    /\ pc' = "overwrite"
    /\ UNCHANGED <<commit, todo, current, records, disk, zips, manifest, faults>>

\* write_text empties the file before it writes.
OverwriteManifest ==
    /\ pc = "overwrite"
    /\ manifest' = None
    /\ pc' = "write"
    /\ UNCHANGED <<commit, todo, current, records, disk, zips, unique, faults>>

WriteManifest ==
    /\ pc = "write"
    /\ manifest' = records
    /\ pc' = "finished"
    /\ UNCHANGED <<commit, todo, current, records, disk, zips, unique, faults>>

-----------------------------------------------------------------------------
(* Faults, and a new version of the program. *)

\* The process dies; a download fails for good; an entry is refused.
Die ==
    /\ pc \notin {"idle", "finished"}
    /\ Fault
    /\ Stop
    /\ UNCHANGED <<commit, disk, zips, unique, manifest>>

DamageFile(p) ==
    /\ pc \in {"idle", "finished"}
    /\ Fault
    /\ disk' = [disk EXCEPT ![p] = Damaged]
    /\ Stop
    /\ UNCHANGED <<commit, zips, unique, manifest>>

PinNextCommit ==
    /\ pc \in {"idle", "finished"}
    /\ commit + 1 \in Commits
    /\ commit' = commit + 1
    /\ Stop
    /\ UNCHANGED <<disk, zips, unique, manifest, faults>>

CollectorStep ==
    \/ Start
    \/ HasArchive
    \/ DownloadArchive
    \/ OpenArchive
    \/ \E p \in Paths : Extract(p)
    \/ DownloadObject
    \/ RecordFile
    \/ UnlinkArchive
    \/ ClearUnique
    \/ LinkUnique
    \/ OverwriteManifest
    \/ WriteManifest

Next ==
    \/ CollectorStep
    \/ DownloadIsCutOff
    \/ ObjectIsWrong
    \/ Die
    \/ \E p \in Paths : DamageFile(p)
    \/ PinNextCommit

Spec     == Init /\ [][Next]_vars
\* Somebody starts the collector again until it is through.
FairSpec == Spec /\ WF_vars(CollectorStep)

-----------------------------------------------------------------------------

\* What a manifest says of a path of a commit is what that commit tracks there,
\* whatever earlier runs, crashes and damaged files left behind.
ManifestIsTrue ==
    manifest # None =>
        \A r \in manifest :
            /\ r.path \in DOMAIN Tree[r.commit]
            /\ r.sha = Expected(r.commit, r.path)

\* A run that finished has every document of its commit on disk as tracked, and
\* a unique view of exactly their contents.
FinishedIsComplete ==
    pc = "finished" =>
        /\ \A p \in Entries : disk[p] = Expected(commit, p)
        /\ {r.path : r \in manifest} = Entries
        /\ unique = {Expected(commit, p) : p \in Entries}

\* The manifest tells the truth and a finished run is complete, whatever earlier runs,
\* crashes, cut off downloads and damaged files left behind (hwp_sample_archive.py).
ArchiveIsTrue == ManifestIsTrue /\ FinishedIsComplete

-----------------------------------------------------------------------------
(* The inductive invariant of ArchiveIsTrue. *)

PathsOf(S) == {r.path : r \in S}

\* A record of this run is of an entry that was verified and is on disk.
RecordsInv ==
    \A r \in records :
        /\ r.commit = commit
        /\ r.path \in Entries \ todo
        /\ r.sha = Expected(commit, r.path)
        /\ disk[r.path] = r.sha

\* Every entry is missing or recorded, at every place of a run.
EntriesInv ==
    /\ pc = "idle" => records = {}
    /\ pc # "idle" => Entries = todo \cup PathsOf(records)
    /\ pc \in {"lfs", "record"} => current \in todo
    /\ pc = "lfs" => Entry(current).lfs # None
    /\ pc = "record" => disk[current] = Expected(commit, current)
    /\ pc \in {"unlink", "clear", "link", "overwrite", "write", "finished"} => todo = {}

\* The view is of the records, and the manifest, once it is written, is the records.
ViewInv ==
    /\ pc \in {"overwrite", "write", "finished"} =>
          unique = {Expected(commit, p) : p \in Entries}
    /\ pc = "finished" => manifest = records

ArchiveInv == TypeOK /\ RecordsInv /\ EntriesInv /\ ViewInv /\ ManifestIsTrue

-----------------------------------------------------------------------------

\* A collection that is started again and again ends, unless the archive it
\* kept is one that was cut off.
CollectionEnds == []<>(pc = "finished" \/ zips[commit] = "cut")
=============================================================================
