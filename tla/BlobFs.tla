------------------------------- MODULE BlobFs -------------------------------
(***************************************************************************)
(* The part of a Unix file system that the content store of rv-store       *)
(* relies on: one directory entry per blob, the page cache, and what is    *)
(* left of both after a power loss.                                        *)
(*                                                                         *)
(* A file incarnation (an inode with its timestamps, what `file_stamp`     *)
(* tells apart) is a member of Ino and is never reused.  Blob files are    *)
(* written once under a temporary name and never changed in place.         *)
(***************************************************************************)
EXTENDS Naturals, FiniteSets

CONSTANTS
    Blob,      \* blob ids; each has one path in the store
    Ino,       \* file incarnations
    NoFile     \* "no file at this path"

ASSUME NoFileAssumption == NoFile \notin Ino

VARIABLES
    dir,       \* the file at each blob's path, as every process sees it
    diskDir,   \* the files a power loss may leave at each blob's path
    used,      \* the incarnations created so far
    good,      \* the incarnations whose bytes hash to the blob id
    safe,      \* the incarnations whose bytes reached the disk
    lost       \* the incarnations whose writeback failed: a later fsync of
               \* one reports success although the bytes are not on disk

fsVars == <<dir, diskDir, used, good, safe, lost>>

File == Ino \cup {NoFile}

FsTypeOK ==
    /\ dir \in [Blob -> File]
    /\ diskDir \in [Blob -> SUBSET File]
    /\ used \in SUBSET Ino
    /\ good \in SUBSET used
    /\ safe \in SUBSET used
    /\ lost \in SUBSET used

FsInit ==
    /\ dir = [b \in Blob |-> NoFile]
    /\ diskDir = [b \in Blob |-> {NoFile}]
    /\ used = {}
    /\ good = {}
    /\ safe = {}
    /\ lost = {}

(***************************************************************************)
(* `persist_noclobber`: a complete temporary file gets the blob's name.    *)
(* Neither its bytes nor its directory entry is on disk yet.               *)
(***************************************************************************)
LinkFile(b, i) ==
    /\ dir[b] = NoFile
    /\ i \in Ino \ used
    /\ used' = used \cup {i}
    /\ good' = good \cup {i}
    /\ dir' = [dir EXCEPT ![b] = i]
    /\ diskDir' = [diskDir EXCEPT ![b] = @ \cup {i}]
    /\ UNCHANGED <<safe, lost>>

(* `remove_file`: the removal is not durable until the directory is synced. *)
UnlinkFile(b) ==
    /\ dir' = [dir EXCEPT ![b] = NoFile]
    /\ diskDir' = [diskDir EXCEPT ![b] = @ \cup {NoFile}]
    /\ UNCHANGED <<used, good, safe, lost>>

(* `sync_data` on the file that is at the path now; a missing file is skipped. *)
SyncData(b) ==
    /\ safe' = safe \cup (used \cap ({dir[b]} \ lost))
    /\ UNCHANGED <<dir, diskDir, used, good, lost>>

(* `sync_all` on every directory from the blob's shard to the blob root. *)
SyncDir(b) ==
    /\ diskDir' = [diskDir EXCEPT ![b] = {dir[b]}]
    /\ UNCHANGED <<dir, used, good, safe, lost>>

(* `syncfs`: everything written so far. *)
SyncFilesystem ==
    /\ safe' = safe \cup (used \ lost)
    /\ diskDir' = [b \in Blob |-> {dir[b]}]
    /\ UNCHANGED <<dir, used, good, lost>>

(* Writeback of some files that are not on disk yet fails. *)
WritebackError ==
    /\ \E gone \in SUBSET (used \ safe) : lost' = lost \cup gone
    /\ UNCHANGED <<dir, diskDir, used, good, safe>>

(***************************************************************************)
(* A power loss: each directory entry is one the disk may hold, and a file *)
(* whose bytes were not on disk may be torn.  What is left is on disk.     *)
(***************************************************************************)
FsPowerLoss ==
    \E left \in [Blob -> File], torn \in SUBSET (used \ safe) :
        /\ \A b \in Blob : left[b] \in diskDir[b]
        /\ dir' = left
        /\ diskDir' = [b \in Blob |-> {left[b]}]
        /\ good' = good \ torn
        /\ safe' = used
        /\ lost' = {}
        /\ UNCHANGED used
=============================================================================
