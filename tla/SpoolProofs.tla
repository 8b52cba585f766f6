---------------------------- MODULE SpoolProofs -----------------------------
(***************************************************************************)
(* Theorems about Spool, for every set of captures and every way in which  *)
(* they share chunks.                                                      *)
(***************************************************************************)
EXTENDS Spool, TLAPS

\* Where an archive may be.
AreaNames == {"none", "pending", "recorded", "pruned", "lost"}
\* The steps of a collection.
Phases == {"archives", "first", "first read", "second", "second read", "removing"}

\* Chunks that the running collection will not remove.
Spared(c) == Refs[c] \subseteq gc.live \union RefsOf(journal)

\* What a save in progress relies on: it is pinned, what it has written or found
\* is still there, and a collection that has started knows of it.
WriterInv ==
    /\ writer.at \in {"idle", "writing", "published"}
    /\ writer.at = "writing" =>
          /\ writer.of \in Captures /\ writer.of \in pins
          /\ archive[writer.of] = "none"
          /\ Refs[writer.of] \ writer.left \subseteq chunks
          /\ gc.at \notin {"idle", "archives"} => Spared(writer.of)
    /\ writer.at = "published" => writer.of \in Captures
    /\ recorder \subseteq In("pending")

\* What the scan of the archives has seen: an archive is spared, still to be read,
\* or will be listed, and it moves from pending to recorded only.
ScanInv ==
    /\ gc.at \in {"idle"} \union Phases
    /\ gc.at \notin {"idle", "archives"} => marker
    /\ gc.at = "first read" => \A c \in In("pending") : Spared(c) \/ c \in gc.todo
    /\ gc.at \in {"second", "second read", "removing"} => \A c \in In("pending") : Spared(c)
    /\ gc.at = "second read" => \A c \in In("recorded") : Spared(c) \/ c \in gc.todo
    /\ gc.at = "removing" => \A c \in In("recorded") : Spared(c)

WholeInv ==
    /\ archive \in [Captures -> AreaNames]
    /\ snapshot.manifests \subseteq Captures
    /\ export.at \in {"idle", "locked", "selected", "barrier"}
    /\ export.at \in {"selected", "barrier"} => export.manifests \subseteq Captures
    /\ ArchivesAreWhole

SpoolInv == WriterInv /\ ScanInv /\ WholeInv

\* An empty spool has nothing to lose.
LEMMA SpoolInit == Init => SpoolInv
BY DEF Init, SpoolInv, WriterInv, ScanInv, WholeInv, ArchivesAreWhole, In, Idle, AreaNames

\* Saves, moves, collections, prunes and crashes keep the invariant.
LEMMA SpoolStep == SpoolInv /\ [Next]_vars => SpoolInv'
<1> SUFFICES ASSUME SpoolInv, [Next]_vars PROVE SpoolInv'
  OBVIOUS
<1> USE DEF SpoolInv, WriterInv, ScanInv, WholeInv, ArchivesAreWhole, In, Whole, Spared, RefsOf,
            AreaNames, Phases
<1>1. ASSUME NEW c \in Captures, Pin(c) PROVE SpoolInv'
  <2>1. \A k : Spared(k) => Spared(k)'
    <3>1. gc' = gc /\ journal \subseteq journal'
      BY <1>1 DEF Pin, Journal, pruning
    <3>2. RefsOf(journal) \subseteq RefsOf(journal')
      BY <3>1
    <3> QED
      BY <3>1, <3>2
  <2>2. marker => Spared(c)'
    BY <1>1 DEF Pin, Journal
  <2>3. WriterInv'
    BY <1>1, <2>2 DEF Pin, pruning
  <2>4. ScanInv'
    <3> HIDE DEF Spared
    <3> QED
      BY <1>1, <2>1 DEF Pin, pruning
  <2> QED
    BY <1>1, <2>3, <2>4 DEF Pin, pruning, recovery
<1>2. ASSUME NEW d \in Chunks, WriteChunk(d) PROVE SpoolInv'
  BY <1>2 DEF WriteChunk, marks, pruning, recovery
<1>3. CASE Publish
  BY <1>3 DEF Publish, marks, pruning, recovery
<1>4. CASE Unpin
  BY <1>4 DEF Unpin, Idle, pruning, recovery
<1>5. ASSUME NEW c \in Captures, Import(c) PROVE SpoolInv'
  BY <1>5 DEF Import, marks, pruning, recovery
<1>6. CASE Recorded
  BY <1>6 DEF Recorded, marks, pruning, recovery
<1>7. CASE CrashCollector
  BY <1>7 DEF CrashCollector, Idle, marks, pruning, recovery
<1>8. CASE StartPruning
  BY <1>8 DEF StartPruning, marks, collector, recovery
<1>9. ASSUME NEW c \in Captures, PruneArchive(c) PROVE SpoolInv'
  BY <1>9 DEF PruneArchive, marks, collector, pruning, recovery
<1>10. CASE Mark
  BY <1>10 DEF Mark, collector, recovery
<1>11. ASSUME NEW step \in {"first", "second"}, List(step) PROVE SpoolInv'
  <2>1. /\ gc'.at = IF step = "first" THEN "first read" ELSE "second read"
        /\ gc'.live = gc.live
        /\ gc'.todo = In(IF step = "first" THEN "pending" ELSE "recorded")
    BY <1>11 DEF List, Area
  <2>2. UNCHANGED <<chunks, archive, marks, collector, pruner, export, db, recovery>>
    BY <1>11 DEF List
  <2>3. \A k : Spared(k)' <=> Spared(k)
    BY <2>1, <2>2 DEF marks
  <2>4. gc.at = step
    BY <1>11 DEF List
  <2> HIDE DEF Spared
  <2>5. WriterInv'
    BY <2>1, <2>2, <2>3, <2>4 DEF marks, collector
  <2>6. ScanInv'
    BY <2>1, <2>2, <2>3, <2>4 DEF marks
  <2> QED
    BY <2>2, <2>5, <2>6 DEF recovery
<1>12. ASSUME NEW c \in Captures, ReadArchive(c) PROVE SpoolInv'
  BY <1>12 DEF ReadArchive, marks, collector, recovery
<1>13. CASE ListedAll
  BY <1>13 DEF ListedAll, marks, collector, recovery
<1>14. ASSUME NEW S \in SUBSET chunks, RemoveBatch(S) PROVE SpoolInv'
  BY <1>14 DEF RemoveBatch, marks, collector, recovery
<1>15. CASE FinishPruning \/ CrashPruning
  <2>1. /\ gc'.at = "idle"
        /\ UNCHANGED <<chunks, archive, pins, collector, export, recovery>>
    <3>1. CASE FinishPruning
      BY <3>1 DEF FinishPruning, Idle
    <3>2. CASE CrashPruning
      BY <3>2 DEF CrashPruning, Idle, marks
    <3> QED
      BY <1>15, <3>1, <3>2
  <2> QED
    BY <2>1 DEF collector, recovery
<1>16. CASE StartExport \/ Select \/ Barrier \/ PublishSnapshot \/ AbortExport
  <2>1. UNCHANGED <<chunks, archive, marks, collector, gc>>
    BY <1>16 DEF StartExport, Select, Barrier, PublishSnapshot, AbortExport
  <2>2. WriterInv' /\ ScanInv' /\ ArchivesAreWhole'
    BY <2>1 DEF marks, collector
  <2>3. /\ snapshot'.manifests \subseteq Captures
        /\ export'.at \in {"idle", "locked", "selected", "barrier"}
        /\ export'.at \in {"selected", "barrier"} => export'.manifests \subseteq Captures
    <3>1. CASE StartExport
      BY <3>1 DEF StartExport, recovery
    <3>2. CASE Select
      BY <3>2 DEF Select, recovery
    <3>3. CASE Barrier
      BY <3>3 DEF Barrier, recovery
    <3>4. CASE PublishSnapshot
      BY <3>4 DEF PublishSnapshot, Idle
    <3>5. CASE AbortExport
      BY <3>5 DEF AbortExport, Idle, recovery
    <3> QED
      BY <1>16, <3>1, <3>2, <3>3, <3>4, <3>5
  <2> QED
    BY <2>1, <2>2, <2>3
<1>17. CASE Flush
  BY <1>17 DEF Flush, marks, collector, pruning
<1>18. CASE Restore
  <2>1. WriterInv' /\ ScanInv'
    BY <1>18 DEF Restore, Idle
  <2>2. WholeInv'
    <3>1. /\ archive' \in [Captures -> AreaNames]
          /\ \A c \in Captures : archive'[c] \in {"pending", "recorded"} => c \in snapshot.manifests
      BY <1>18 DEF Restore
    <3>2. /\ chunks' = UNION {Refs[c] : c \in snapshot.manifests}
          /\ snapshot' = snapshot /\ export' = Idle
      BY <1>18 DEF Restore
    <3>3. ArchivesAreWhole'
      <4> SUFFICES ASSUME NEW c \in Captures, archive'[c] \in {"pending", "recorded"}
                   PROVE  Refs[c] \subseteq chunks'
        OBVIOUS
      <4>1. c \in snapshot.manifests
        BY <3>1
      <4> QED
        BY <3>2, <4>1, Zenon
    <3>4. snapshot'.manifests \subseteq Captures
      BY <3>2
    <3>5. /\ export'.at \in {"idle", "locked", "selected", "barrier"}
          /\ export'.at \in {"selected", "barrier"} => export'.manifests \subseteq Captures
      BY <3>2 DEF Idle
    <3> QED
      BY <3>1, <3>3, <3>4, <3>5
  <2> QED
    BY <2>1, <2>2
<1>19. CASE UNCHANGED vars
  BY <1>19 DEF vars, marks, collector, pruning, recovery
<1> QED
  BY <1>1, <1>2, <1>3, <1>4, <1>5, <1>6, <1>7, <1>8, <1>9, <1>10, <1>11, <1>12, <1>13, <1>14,
     <1>15, <1>16, <1>17, <1>18, <1>19 DEF Next

\* No archive of the spool ever loses a chunk: not to a collection that ran beside
\* the save that found the chunk on disk, nor to one that listed the areas while
\* the recorder moved the archive, nor after a crash of any of them.
THEOREM ArchivesStayWhole == Spec => []ArchivesAreWhole
<1>1. SpoolInv => ArchivesAreWhole
  BY DEF SpoolInv, WholeInv
<1> QED
  BY <1>1, SpoolInit, SpoolStep, PTL DEF Spec

-----------------------------------------------------------------------------
(***************************************************************************)
(* Snapshots.  An archive leaves the pending area only after its commit,   *)
(* so what a selection of pending archives does not contain is in the log  *)
(* before the barrier that follows.                                        *)
(***************************************************************************)

\* The first n commits of a log.
FirstOf(s, n) == {s[i] : i \in 1..n}

LogInv ==
    /\ db \in Seq(Captures)
    /\ flushed \in Nat /\ flushed <= Len(db)
    /\ In("recorded") \union In("pruned") \union recorder \subseteq FirstOf(db, Len(db))

ExportInv ==
    /\ export.at = "selected" => export.saved \subseteq export.manifests \union FirstOf(db, Len(db))
    /\ export.at = "barrier" =>
          /\ export.source \in Nat /\ export.source <= Len(db)
          /\ export.saved \subseteq export.manifests \union FirstOf(db, export.source)
    /\ snapshot.saved \subseteq snapshot.manifests \union FirstOf(db, flushed)

SnapshotInv == SpoolInv /\ LogInv /\ ExportInv

\* The elements of a prefix of the log are its first commits.
LEMMA PrefixIsLogged ==
    ASSUME db \in Seq(Captures), NEW n \in Nat, n <= Len(db)
    PROVE  ToSet(SubSeq(db, 1, n)) = FirstOf(db, n)
<1>1. DOMAIN SubSeq(db, 1, n) = 1..n /\ \A i \in 1..n : SubSeq(db, 1, n)[i] = db[i]
  OBVIOUS
<1> QED
  BY <1>1 DEF ToSet, FirstOf

\* No snapshot is taken at the start.
LEMMA SnapshotInit == Init => SnapshotInv
<1> SUFFICES ASSUME Init PROVE LogInv /\ ExportInv
  BY SpoolInit DEF SnapshotInv
<1>1. db \in Seq(Captures) /\ Len(db) = 0
  BY DEF Init
<1> QED
  BY <1>1 DEF Init, LogInv, ExportInv, In, Idle

\* A longer log, or one cut where the recovery host has it, keeps what is known of
\* its beginning.
LEMMA LogGrows ==
    ASSUME LogInv, NEW c \in Captures, db' = Append(db, c)
    PROVE  /\ db' \in Seq(Captures) /\ Len(db') = Len(db) + 1
           /\ \A n \in Nat : n <= Len(db) => FirstOf(db', n) = FirstOf(db, n)
           /\ FirstOf(db, Len(db)) \subseteq FirstOf(db', Len(db'))
           /\ c \in FirstOf(db', Len(db'))
<1>1. db \in Seq(Captures) /\ Len(db) \in Nat
  BY DEF LogInv
<1>2. /\ db' \in Seq(Captures) /\ Len(db') = Len(db) + 1
      /\ \A i \in 1..Len(db) : db'[i] = db[i]
      /\ db'[Len(db) + 1] = c
  BY <1>1
<1>3. ASSUME NEW n \in Nat, n <= Len(db) PROVE FirstOf(db', n) = FirstOf(db, n)
  <2>1. \A i \in 1..n : db'[i] = db[i]
    BY <1>1, <1>2, <1>3
  <2> QED
    BY <2>1 DEF FirstOf
<1>4. FirstOf(db, Len(db)) \subseteq FirstOf(db', Len(db'))
  BY <1>1, <1>2 DEF FirstOf
<1>5. c \in FirstOf(db', Len(db'))
  BY <1>1, <1>2 DEF FirstOf
<1> QED
  BY <1>2, <1>3, <1>4, <1>5

\* Every step keeps the log, the running export and the published snapshot
\* consistent with each other.
LEMMA SnapshotStep == SnapshotInv /\ [Next]_vars => SnapshotInv'
<1> SUFFICES ASSUME SnapshotInv, [Next]_vars PROVE LogInv' /\ ExportInv'
  BY SpoolStep DEF SnapshotInv
<1>1. SpoolInv /\ LogInv /\ ExportInv
  BY DEF SnapshotInv
<1>2. Len(db) \in Nat /\ recorder \subseteq In("pending")
  BY <1>1 DEF LogInv, SpoolInv, WriterInv
\* Steps that commit nothing and record or prune what is in the log.
<1>3. ASSUME UNCHANGED <<db, recovery, export>>,
             In("recorded")' \union In("pruned")' \union recorder'
                \subseteq In("recorded") \union In("pruned") \union recorder
      PROVE  LogInv' /\ ExportInv'
  BY <1>1, <1>3 DEF LogInv, ExportInv, recovery
<1>4. ASSUME NEW c \in Captures, Import(c) PROVE LogInv' /\ ExportInv'
  <2>1. /\ recorder' = {c} /\ UNCHANGED <<archive, export, flushed, snapshot>>
        /\ In("recorded")' = In("recorded") /\ In("pruned")' = In("pruned")
    BY <1>4 DEF Import, pruning, recovery, In
  <2>2. CASE c \in ToSet(db) /\ db' = db
    <3>1. c \in FirstOf(db, Len(db))
      BY <1>1, <2>2 DEF ToSet, FirstOf, LogInv
    <3> QED
      BY <1>1, <2>1, <2>2, <3>1 DEF LogInv, ExportInv
  <2>3. CASE db' = Append(db, c)
    <3>1. /\ db' \in Seq(Captures) /\ Len(db') = Len(db) + 1
          /\ \A n \in Nat : n <= Len(db) => FirstOf(db', n) = FirstOf(db, n)
          /\ FirstOf(db, Len(db)) \subseteq FirstOf(db', Len(db'))
          /\ c \in FirstOf(db', Len(db'))
      BY <1>1, <2>3, LogGrows
    <3>2. LogInv'
      BY <1>1, <1>2, <2>1, <3>1 DEF LogInv
    <3>3. ExportInv'
      BY <1>1, <1>2, <2>1, <3>1 DEF LogInv, ExportInv
    <3> QED
      BY <3>2, <3>3
  <2> QED
    BY <1>4, <2>2, <2>3 DEF Import
<1>5. CASE Recorded
  BY <1>3, <1>5 DEF Recorded, In, pruning
<1>6. ASSUME NEW c \in Captures, PruneArchive(c) PROVE LogInv' /\ ExportInv'
  BY <1>1, <1>3, <1>6 DEF PruneArchive, In, collector, pruning, SpoolInv, WholeInv
<1>7. CASE Publish
  BY <1>1, <1>3, <1>7 DEF Publish, In, pruning, SpoolInv, WholeInv
<1>8. CASE CrashCollector
  BY <1>3, <1>8 DEF CrashCollector, In, pruning
\* What leaves archives and recorder alone.
<1>9. ASSUME UNCHANGED <<archive, recorder, db, recovery, export>> PROVE LogInv' /\ ExportInv'
  BY <1>3, <1>9 DEF In
<1>10. ASSUME NEW c \in Captures, Pin(c) \/ ReadArchive(c) PROVE LogInv' /\ ExportInv'
  BY <1>9, <1>10 DEF Pin, ReadArchive, collector, pruning
<1>11. ASSUME NEW d \in Chunks, WriteChunk(d) PROVE LogInv' /\ ExportInv'
  BY <1>9, <1>11 DEF WriteChunk, pruning
<1>12. CASE Unpin \/ StartPruning \/ Mark \/ ListedAll \/ FinishPruning \/ CrashPruning \/ UNCHANGED vars
  BY <1>9, <1>12 DEF Unpin, StartPruning, Mark, ListedAll, FinishPruning, CrashPruning, vars,
     collector, pruning
<1>13. ASSUME NEW step \in {"first", "second"}, List(step) PROVE LogInv' /\ ExportInv'
  BY <1>9, <1>13 DEF List, collector
<1>14. ASSUME NEW S \in SUBSET chunks, RemoveBatch(S) PROVE LogInv' /\ ExportInv'
  BY <1>9, <1>14 DEF RemoveBatch, collector
\* The export.
<1>15. CASE StartExport \/ AbortExport
  <2>1. export'.at \in {"locked", "idle"} /\ UNCHANGED <<archive, recorder, db, flushed, snapshot>>
    BY <1>15 DEF StartExport, AbortExport, Idle, collector, recovery
  <2> QED
    BY <1>1, <2>1 DEF LogInv, ExportInv, In
<1>16. CASE Select
  <2>1. export'.saved \subseteq export'.manifests \union In("recorded") \union In("pruned")
    BY <1>1, <1>16 DEF Select, In, SpoolInv, WholeInv, AreaNames
  <2> QED
    BY <1>1, <1>16, <2>1 DEF Select, LogInv, ExportInv, In, collector, recovery
<1>17. CASE Barrier
  BY <1>1, <1>2, <1>17 DEF Barrier, Source, LogInv, ExportInv, In, collector, recovery
<1>18. CASE PublishSnapshot
  <2>1. FirstOf(db, export.source) \subseteq FirstOf(db, flushed)
    BY <1>1, <1>18 DEF PublishSnapshot, Acknowledged, LogInv, ExportInv, FirstOf
  <2> QED
    BY <1>1, <1>18, <2>1 DEF PublishSnapshot, Idle, LogInv, ExportInv, In, collector
<1>19. CASE Flush
  <2>1. FirstOf(db, flushed) \subseteq FirstOf(db, flushed')
    BY <1>1, <1>2, <1>19 DEF Flush, LogInv, FirstOf
  <2> QED
    BY <1>1, <1>2, <1>19, <2>1 DEF Flush, LogInv, ExportInv, In, collector, pruning
<1>20. CASE Restore
  <2>1. /\ db' \in Seq(Captures) /\ Len(db') = flushed /\ flushed \in Nat
        /\ \A i \in 1..flushed : db'[i] = db[i]
    BY <1>1, <1>20 DEF Restore, LogInv
  <2>2. FirstOf(db', flushed) = FirstOf(db, flushed)
    BY <2>1 DEF FirstOf
  <2>3. In("recorded")' = {} /\ In("pruned")' = {} /\ recorder' = {} /\ export'.at = "idle"
    BY <1>20 DEF Restore, In, Idle
  <2> QED
    BY <1>1, <1>20, <2>1, <2>2, <2>3 DEF Restore, LogInv, ExportInv
<1> QED
  BY <1>4, <1>5, <1>6, <1>7, <1>8, <1>10, <1>11, <1>12, <1>13, <1>14, <1>15, <1>16, <1>17,
     <1>18, <1>19, <1>20 DEF Next

\* What was saved before the cut of a published snapshot is in the log that the
\* recovery host has or in the snapshot itself: the loss of the primary loses none
\* of it, although captures are recorded, moved and pruned while the snapshot is
\* taken.
THEOREM SnapshotsAreComplete == Spec => []SnapshotIsComplete
<1>1. SnapshotInv => SnapshotIsComplete
  BY PrefixIsLogged DEF SnapshotInv, LogInv, ExportInv, SnapshotIsComplete
<1> QED
  BY <1>1, SnapshotInit, SnapshotStep, PTL DEF Spec
=============================================================================
