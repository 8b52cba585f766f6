-------------------------------- MODULE Spool --------------------------------
(***************************************************************************)
(* The local evidence spool of a collector (spool.py), its garbage         *)
(* collection (_prune_file_chunks and its callers in retention.py) and the *)
(* snapshots of it that a recovery host keeps beside the database's log    *)
(* (mainnet_pending_evidence_v2.py).                                       *)
(*                                                                         *)
(* Four processes: the capture thread and the recorder of the collector,   *)
(* which crash together; the collection of unreferenced chunks; the export *)
(* of pending archives.  The last two exclude each other by pruning_lock;  *)
(* spool_lock is held within one action at a time, and file operations     *)
(* outside it are actions of their own.  Floors, file times and backups    *)
(* only restrict what is pruned and are left open.                         *)
(***************************************************************************)
EXTENDS Integers, Sequences, SequencesExt

CONSTANTS
    Captures,   \* captures that may be saved
    Refs,       \* the chunks of each
    MaxCrashes  \* bound on the crashes of the collector

Chunks == UNION {Refs[c] : c \in Captures}

ASSUME SpoolAssumption == MaxCrashes \in Nat

VARIABLES
    chunks,    \* files under chunks/
    archive,   \* of each: "none", "pending", "recorded", "pruned"; "lost" with the primary
    pins,      \* files under writing/
    marker,    \* .gc-active exists
    journal,   \* captures with a line in .gc-pins
    writer,    \* the running save
    recorder,  \* captures in the database whose archive is not yet moved
    crashes,
    pruner,    \* holder of pruning_lock: "none", "gc" or "export"
    gc,        \* the running collection
    export,    \* the running export
    db,        \* captures in the order of their commits
    flushed,   \* how many of these commits the recovery host has
    snapshot,  \* the latest published snapshot
    lost       \* the primary host was lost and replaced

collector == <<writer, recorder, crashes>>
marks     == <<pins, marker, journal>>
pruning   == <<pruner, gc, export>>
recovery  == <<flushed, snapshot, lost>>
vars      == <<chunks, archive, marks, collector, pruning, db, recovery>>

Idle == [at |-> "idle"]
RefsOf(S) == UNION {Refs[c] : c \in S}
In(area)  == {c \in Captures : archive[c] = area}

Init ==
    /\ chunks = {} /\ archive = [c \in Captures |-> "none"]
    /\ pins = {} /\ marker = FALSE /\ journal = {}
    /\ writer = Idle /\ recorder = {} /\ crashes = 0
    /\ pruner = "none" /\ gc = Idle /\ export = Idle
    /\ db = <<>> /\ flushed = 0 /\ lost = FALSE
    /\ snapshot = [saved |-> {}, manifests |-> {}]

-----------------------------------------------------------------------------
(***************************************************************************)
(* Saving a capture: its chunks are pinned, and announced to a running     *)
(* collection, before any of them is written or found to exist.            *)
(***************************************************************************)

\* A pin that a running collection does not hear of.
Journal_silent(c) == journal
Journal(c) == IF marker THEN journal \union {c} ELSE journal

Pin(c) ==
    /\ writer = Idle /\ archive[c] = "none" /\ c \notin pins
    /\ pins' = pins \union {c}
    /\ journal' = Journal(c)
    /\ writer' = [at |-> "writing", of |-> c, left |-> Refs[c]]
    /\ UNCHANGED <<chunks, archive, marker, recorder, crashes, pruning, db, recovery>>

\* A chunk file that exists is not written again.
WriteChunk(d) ==
    /\ writer.at = "writing" /\ d \in writer.left
    /\ chunks' = chunks \union {d}
    /\ writer' = [at |-> "writing", of |-> writer.of, left |-> writer.left \ {d}]
    /\ UNCHANGED <<archive, marks, recorder, crashes, pruning, db, recovery>>

Publish ==
    /\ writer.at = "writing" /\ writer.left = {}
    /\ archive' = [archive EXCEPT ![writer.of] = "pending"]
    /\ writer' = [at |-> "published", of |-> writer.of]
    /\ UNCHANGED <<chunks, marks, recorder, crashes, pruning, db, recovery>>

Unpin ==
    /\ writer.at = "published"
    /\ pins' = pins \ {writer.of}
    /\ writer' = Idle
    /\ UNCHANGED <<chunks, archive, marker, journal, recorder, crashes, pruning, db, recovery>>

-----------------------------------------------------------------------------
(***************************************************************************)
(* The recorder: a pending archive is read, committed and then moved.      *)
(***************************************************************************)

Whole(c) == Refs[c] \subseteq chunks

\* Recording again, after a crash, what the database has.
Import(c) ==
    /\ recorder = {} /\ archive[c] = "pending" /\ Whole(c)
    /\ db' = IF c \in ToSet(db) THEN db ELSE Append(db, c)
    /\ recorder' = {c}
    /\ UNCHANGED <<chunks, archive, marks, writer, crashes, pruning, recovery>>

Recorded ==
    /\ recorder # {}
    /\ archive' = [c \in Captures |-> IF c \in recorder THEN "recorded" ELSE archive[c]]
    /\ recorder' = {}
    /\ UNCHANGED <<chunks, marks, writer, crashes, pruning, db, recovery>>

\* The pin of an unfinished save stays.
CrashCollector ==
    /\ crashes < MaxCrashes /\ (writer # Idle \/ recorder # {})
    /\ writer' = Idle /\ recorder' = {} /\ crashes' = crashes + 1
    /\ UNCHANGED <<chunks, archive, marks, pruning, db, recovery>>

-----------------------------------------------------------------------------
(***************************************************************************)
(* Pruning: recorded archives, then chunks that nothing references.        *)
(***************************************************************************)

StartPruning ==
    /\ pruner = "none"
    /\ pruner' = "gc" /\ gc' = [at |-> "archives", live |-> {}, todo |-> {}]
    /\ UNCHANGED <<chunks, archive, marks, collector, export, db, recovery>>

\* prune_spool, prune_compacted_spool, prune_report_spool.
PruneArchive(c) ==
    /\ gc.at = "archives" /\ archive[c] = "recorded"
    /\ archive' = [archive EXCEPT ![c] = "pruned"]
    /\ UNCHANGED <<chunks, marks, collector, pruning, db, recovery>>

\* Under spool_lock: a new journal, the marker, and the pins that are there.
Mark ==
    /\ gc.at = "archives"
    /\ journal' = {} /\ marker' = TRUE
    /\ gc' = [at |-> "first", live |-> RefsOf(pins), todo |-> {}]
    /\ UNCHANGED <<chunks, archive, pins, collector, pruner, export, db, recovery>>

\* The areas in the order of their scan: an archive only ever moves forward.
Area(step) == IF step = "first" THEN "pending" ELSE "recorded"

List(step) ==
    /\ gc.at = step
    /\ gc' = [at |-> IF step = "first" THEN "first read" ELSE "second read",
              live |-> gc.live, todo |-> In(Area(step))]
    /\ UNCHANGED <<chunks, archive, marks, collector, pruner, export, db, recovery>>

\* An archive that was moved since it was listed is read where it is now.
ReadArchive(c) ==
    /\ gc.at \in {"first read", "second read"} /\ c \in gc.todo
    /\ gc' = [at |-> gc.at, live |-> gc.live \union Refs[c], todo |-> gc.todo \ {c}]
    /\ UNCHANGED <<chunks, archive, marks, collector, pruner, export, db, recovery>>

ListedAll ==
    /\ gc.at \in {"first read", "second read"} /\ gc.todo = {}
    /\ gc' = [at |-> IF gc.at = "first read" THEN "second" ELSE "removing",
              live |-> gc.live, todo |-> {}]
    /\ UNCHANGED <<chunks, archive, marks, collector, pruner, export, db, recovery>>

\* remove_batch: the journal is read, and files removed, under spool_lock.
RemoveBatch(S) ==
    LET live == gc.live \union RefsOf(journal)
    IN  /\ gc.at = "removing" /\ S # {} /\ S \intersect gc.live = {}
        /\ chunks' = chunks \ (S \ live)
        /\ gc' = [at |-> "removing", live |-> live, todo |-> {}]
        /\ UNCHANGED <<archive, marks, collector, pruner, export, db, recovery>>

FinishPruning ==
    /\ gc.at = "removing"
    /\ marker' = FALSE /\ journal' = {}
    /\ gc' = Idle /\ pruner' = "none"
    /\ UNCHANGED <<chunks, archive, pins, collector, export, db, recovery>>

\* A killed process releases its lock and leaves the marker.
CrashPruning ==
    /\ gc # Idle
    /\ gc' = Idle /\ pruner' = "none"
    /\ UNCHANGED <<chunks, archive, marks, collector, export, db, recovery>>

-----------------------------------------------------------------------------
(***************************************************************************)
(* Snapshots: the pending archives of one moment, then the position that   *)
(* the database's log had after it, then the wait for the recovery host to *)
(* have that log.                                                          *)
(***************************************************************************)

StartExport ==
    /\ pruner = "none"
    /\ pruner' = "export" /\ export' = [at |-> "locked"]
    /\ UNCHANGED <<chunks, archive, marks, collector, gc, db, recovery>>

\* Under the spool locks.
Select ==
    /\ export.at = "locked"
    /\ export' = [at |-> "selected", manifests |-> In("pending"),
                  saved |-> {c \in Captures : archive[c] \notin {"none", "lost"}}]
    /\ UNCHANGED <<chunks, archive, marks, collector, pruner, gc, db, recovery>>

\* A barrier at what the recovery host has already.
Source_received == flushed
Source == Len(db)

\* Every reference of the selected archives is read and verified, then
\* database_barrier takes the insert position.
Barrier ==
    /\ export.at = "selected" /\ \A c \in export.manifests : Whole(c)
    /\ export' = [at |-> "barrier", manifests |-> export.manifests, saved |-> export.saved,
                  source |-> Source]
    /\ UNCHANGED <<chunks, archive, marks, collector, pruner, gc, db, recovery>>

\* A snapshot that does not wait for the log.
Acknowledged_always == TRUE
Acknowledged == flushed >= export.source

\* extract_snapshot, publish_snapshot.
PublishSnapshot ==
    /\ export.at = "barrier" /\ Acknowledged
    /\ snapshot' = [saved |-> export.saved, manifests |-> export.manifests]
    /\ export' = Idle /\ pruner' = "none"
    /\ UNCHANGED <<chunks, archive, marks, collector, gc, db, flushed, lost>>

\* A limit, a timeout, a broken stream: the published snapshots stay.
AbortExport ==
    /\ export # Idle
    /\ export' = Idle /\ pruner' = "none"
    /\ UNCHANGED <<chunks, archive, marks, collector, gc, db, recovery>>

\* The log reaches the recovery host.
Flush ==
    /\ flushed < Len(db)
    /\ flushed' = flushed + 1
    /\ UNCHANGED <<chunks, archive, marks, collector, pruning, db, snapshot, lost>>

\* The primary is lost.  The database is restored from its log, and
\* restore_snapshot fills a new spool.
Restore ==
    /\ ~lost
    /\ lost' = TRUE
    /\ db' = SubSeq(db, 1, flushed)
    /\ archive' = [c \in Captures |-> CASE c \in snapshot.manifests -> "pending"
                                        [] archive[c] = "none" -> "none"
                                        [] OTHER -> "lost"]
    /\ chunks' = RefsOf(snapshot.manifests)
    /\ pins' = {} /\ marker' = FALSE /\ journal' = {}
    /\ writer' = Idle /\ recorder' = {}
    /\ pruner' = "none" /\ gc' = Idle /\ export' = Idle
    /\ UNCHANGED <<crashes, flushed, snapshot>>

-----------------------------------------------------------------------------
Next ==
    \/ \E c \in Captures : Pin(c) \/ Import(c) \/ PruneArchive(c) \/ ReadArchive(c)
    \/ \E d \in Chunks : WriteChunk(d)
    \/ Publish \/ Unpin \/ Recorded \/ CrashCollector
    \/ StartPruning \/ Mark \/ ListedAll \/ FinishPruning \/ CrashPruning
    \/ \E step \in {"first", "second"} : List(step)
    \/ \E S \in SUBSET chunks : RemoveBatch(S)
    \/ StartExport \/ Select \/ Barrier \/ PublishSnapshot \/ AbortExport
    \/ Flush \/ Restore

\* The recorder's loop keeps draining what is pending.
Spec == Init /\ [][Next]_vars /\ WF_vars(Recorded \/ \E c \in Captures : Import(c))

-----------------------------------------------------------------------------
(***************************************************************************)
(* Properties.                                                             *)
(***************************************************************************)

\* No archive loses a chunk to a collection that ran beside the save that found
\* the chunk on disk, beside the recorder that moved the archive, or after a crash
\* of any of them.
ArchivesAreWhole == \A c \in In("pending") \union In("recorded") : Whole(c)

\* What was saved before the cut of the published snapshot survives the loss of
\* the primary: it is in the database restored from the log, or in the restored
\* spool.
SnapshotIsComplete ==
    \A c \in snapshot.saved : c \in ToSet(SubSeq(db, 1, flushed)) \/ c \in snapshot.manifests

\* And it reaches the database, through crashes, repeated recording and the loss
\* of the primary.
SavedIsRecorded ==
    \A c \in Captures : c \in snapshot.saved ~> c \in ToSet(db)
=============================================================================
