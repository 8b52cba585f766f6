------------------------------- MODULE Archive -------------------------------
(***************************************************************************)
(* The archive of block evidence: captures are recorded as manifests over  *)
(* shared, content-addressed chunks (block_observer.py), replayed once     *)
(* into outcomes and credit (reconciliation.py, qualifiers.py), converted  *)
(* to compact copies (compaction.py) and expired once a policy and a       *)
(* verified backup allow it (retention.py).                                *)
(*                                                                         *)
(* record, resolve, prune, collect_unused_chunks and each batch of a       *)
(* retention run are transactions that hold the lock they need and are one *)
(* action each.  A retention run is a sequence of them with its floor and  *)
(* its backup proof read once, at the start; it may stop after any of      *)
(* them.  The floor is planned from reads of other transactions and        *)
(* written later.  A time is only compared with the start of a verified backup, so  *)
(* a backup is the set of rows that existed when it started.               *)
(***************************************************************************)
EXTENDS Integers, FiniteSetsExt

CONSTANTS
    Captures,           \* archived captures of blocks, complete or failed
    Height, Block, Previous, Digest, \* of each capture
    Refs,               \* the chunks of its manifest
    Complete,           \* captures that validate_snapshot accepts
    Compact,            \* captures recorded in the compact format
    Provable,           \* conflicting captures that a resolution policy can prove equal
    Top, RoundLength,   \* bound on the heights, blocks_per_round
    CapRounds, MarginRounds, MaxMissing, \* raw_block_rounds, settled_margin_rounds, the gap policy
    Cited,              \* blocks that a reservation without a collateral outcome was selected from
    AfterHeight,        \* where backfill resumes
    Lag                 \* how far past the newest block the next capture may be

Heights == 0..Top
Chunks  == UNION {Refs[a] : a \in Captures}
None    == -1
Nobody  == "nobody"

ASSUME ArchiveAssumption ==
    /\ \A a \in Captures : Height[a] \in Heights
    /\ Complete \subseteq Captures /\ Compact \subseteq Complete /\ Provable \subseteq Complete
    /\ Top \in Nat /\ RoundLength \in Nat \ {0} /\ MaxMissing \in Nat /\ Nobody \notin Captures

VARIABLES
    attempt,     \* capture_attempts: "absent", "live" or "expired"
    observed,    \* the capture of the observed_blocks row at a height, or Nobody
    alerts,      \* conflicting-block alerts <<capture, kind>>
    resolved,    \* captures whose identity alert has a resolution
    seen, contiguous, \* the observation_stream row
    stored,      \* observation_chunks
    lastRef,     \* chunk_last_ref: a height, or None when there is no row
    credited,    \* heights whose block is replayed: reconciled_blocks, credited_blocks
    copy,        \* compact_block_copies: "absent", "live" or "expired"
    converting,  \* the height whose full capture backfill has read, or None
    floor,       \* retention_floors.block_height
    target,      \* the floor that the run has planned and not yet written, or None
    backup,      \* what the latest verified backup covers
    run          \* where the retention run is; its floor is the recorded one, its proof the backup

evidence == <<attempt, stored, lastRef>>
stream   == <<observed, alerts, resolved, seen, contiguous>>
copies   == <<copy, converting>>
keeping  == <<floor, target, backup, run>>
vars     == <<evidence, stream, credited, copies, keeping>>

Kinds == {"identity", "neighbor"}
NoBackup == [attempts |-> {}, copies |-> {}, resolutions |-> {}, observed |-> {}]

\* initialize(launch_height = 0).
Init ==
    /\ attempt = [a \in Captures |-> "absent"]
    /\ stored = {} /\ lastRef = [c \in Chunks |-> None]
    /\ observed = [h \in Heights |-> Nobody]
    /\ alerts = {} /\ resolved = {}
    /\ seen = -1 /\ contiguous = -1
    /\ credited = {}
    /\ copy = [h \in Heights |-> "absent"] /\ converting = None
    /\ floor = -1 /\ target = None /\ backup = NoBackup /\ run = "idle"

-----------------------------------------------------------------------------
(***************************************************************************)
(* What the archive holds.                                                 *)
(***************************************************************************)

Recorded(obs) == {h \in Heights : obs[h] # Nobody}

\* The view unresolved_observation_conflicts.
ConflictsIn(al, res) ==
    {Height[x[1]] : x \in {y \in al : y[2] = "neighbor" \/ y[1] \notin res}}
Conflicts == ConflictsIn(alerts, resolved)

\* manifest_references: an expired manifest has none.
ManifestRefs(a) == IF attempt[a] = "expired" THEN {} ELSE Refs[a]

\* _unpack of one capture.
Unpacks(a) == attempt[a] = "live" /\ Refs[a] \subseteq stored

\* The evidence of a block: its compact copy where there is one, else its
\* manifest and every chunk of it.
Evident(h) ==
    /\ observed[h] # Nobody
    /\ CASE copy[h] = "live"    -> TRUE
         [] copy[h] = "expired" -> FALSE
         [] OTHER               -> Unpacks(observed[h])

\* BlockStore.read.
Readable(h) == Evident(h) /\ h \notin Conflicts

RoundHeights(n) == {h \in Heights : h \div RoundLength + 1 = n}
LastHeight(n)   == n * RoundLength - 1
Newest          == Max(Recorded(observed))
CurrentRound    == Newest \div RoundLength + 1

\* As RoundCoverage, by round_gaps(round)["complete"].
RoundCoverage_uncredited(n) ==
    LET rows == RoundHeights(n) \intersect Recorded(observed)
    IN  /\ rows # {} /\ seen >= LastHeight(n)
        /\ RoundHeights(n) \intersect Conflicts = {}
        /\ Cardinality(RoundHeights(n) \ rows) <= MaxMissing

\* round_gaps(round)["credited_complete"].
RoundCoverage(n) ==
    LET rows == RoundHeights(n) \intersect Recorded(observed)
    IN  /\ rows # {} /\ seen >= LastHeight(n)
        /\ RoundHeights(n) \intersect Conflicts = {}
        /\ Cardinality(RoundHeights(n) \ rows) <= MaxMissing
        /\ rows \subseteq credited

-----------------------------------------------------------------------------
(***************************************************************************)
(* BlockStore.record.                                                      *)
(***************************************************************************)

\* A captured block must be the one its height already has, with its digest.
IdentityConflict(a) ==
    LET b == observed[Height[a]]
    IN  b # Nobody /\ (Block[b] # Block[a] \/ Digest[b] # Digest[a])

\* Both neighbours are checked, a later block recovered first included.
NeighborConflict(a) ==
    \/ /\ Height[a] - 1 \in Recorded(observed)
       /\ Block[observed[Height[a] - 1]] # Previous[a]
    \/ /\ Height[a] + 1 \in Recorded(observed)
       /\ Previous[observed[Height[a] + 1]] # Block[a]

\* As Advance, through conflicts.
Advance_unchecked(from, obs, conflicts) ==
    Max({k \in from..Top : \A j \in (from + 1)..k : obs[j] # Nobody})

\* _advance from a contiguous height: as far as the blocks are observed, not in
\* conflict and linked to the one below.
Advance(from, obs, conflicts) ==
    Max({k \in from..Top : \A j \in (from + 1)..k :
            /\ obs[j] # Nobody /\ j \notin conflicts
            /\ (j > 0 /\ obs[j - 1] # Nobody) => Previous[obs[j]] = Block[obs[j - 1]]})

\* A new conflict takes the contiguous height back below it.
RollBack(conflicts) ==
    IF \E h \in conflicts : h <= contiguous THEN Min(conflicts) - 1 ELSE contiguous

Greatest(f, S, h) == [c \in Chunks |-> IF c \in S THEN Max({f[c], h}) ELSE f[c]]

\* As Track, without the references of a recovered older block.
Track_newestOnly(h, obs, refs, previousRefs) ==
    LET below == {k \in Recorded(obs) : k < h}
    IN  IF below = {} \/ \E k \in Recorded(obs) : k > h THEN lastRef
        ELSE [c \in Chunks |-> IF c \in refs THEN None
                 ELSE Greatest(lastRef, previousRefs, Max(below))[c]]

\* _track of an observed block and the chunks of its manifest: a row stays only
\* for a chunk that the newest block no longer references.
Track(h, obs, refs, previousRefs) ==
    LET below == {k \in Recorded(obs) : k < h}
        rows  == {c \in Chunks : lastRef[c] # None}
    IN  IF \E k \in Recorded(obs) : k > h THEN Greatest(lastRef, refs \intersect rows, h)
        ELSE IF below = {} THEN lastRef
        ELSE [c \in Chunks |-> IF c \in refs THEN None
                  ELSE Greatest(lastRef, previousRefs, Max(below))[c]]

\* Chunks of a repeated capture that its block's own manifest does not have.
TrackExtra(f, extra, obs) == IF extra = {} THEN f ELSE Greatest(f, extra, Max(Recorded(obs)))

\* The references of the block below, from the manifest or as this process
\* remembers them.
PreviousRefs(h) ==
    LET below == {k \in Recorded(observed) : k < h}
    IN  IF below = {} THEN {{}}
        ELSE {ManifestRefs(observed[Max(below)]), Refs[observed[Max(below)]]}

Record(a) ==
    LET h        == Height[a]
        identity == a \in Complete /\ IdentityConflict(a)
        neighbor == a \in Complete /\ NeighborConflict(a)
        error    == a \notin Complete \/ identity \/ neighbor
        obs      == IF error \/ observed[h] # Nobody THEN observed
                    ELSE [observed EXCEPT ![h] = a]
        back     == RollBack(ConflictsIn(alerts', resolved))
        refs     == IF obs[h] = a THEN Refs[a] ELSE ManifestRefs(obs[h])
    IN  /\ attempt[a] = "absent" /\ h <= seen + Lag
        /\ attempt' = [attempt EXCEPT ![a] = "live"]
        /\ stored' = stored \union Refs[a]
        /\ alerts' = alerts \union {k \in {<<a, "identity">>} : identity}
                           \union {k \in {<<a, "neighbor">>} : neighbor}
        /\ seen' = Max({seen, h})
        /\ observed' = obs
        /\ contiguous' = IF error THEN back
                         ELSE Advance(back, obs, ConflictsIn(alerts', resolved))
        /\ \/ error /\ lastRef' = lastRef
           \/ /\ ~error
              /\ \E previous \in PreviousRefs(h) :
                    lastRef' = TrackExtra(Track(h, obs, refs, previous), Refs[a] \ refs, obs)
        /\ UNCHANGED <<resolved, credited, copies, keeping>>

\* ordering_conflicts.resolve: one alert of a conflict about the same block, by
\* the proof of a capture that met nothing but that conflict.
Resolve(a, b) ==
    LET block == observed[Height[a]]
    IN  /\ <<a, "identity">> \in alerts /\ a \notin resolved
        /\ block # Nobody /\ Block[a] = Block[block]
        /\ <<b, "identity">> \in alerts /\ <<b, "neighbor">> \notin alerts
        /\ Block[b] = Block[block] /\ Height[b] = Height[a]
        /\ b \in Provable /\ Unpacks(block) /\ Unpacks(b)
        /\ resolved' = resolved \union {a}
        /\ contiguous' = Advance(contiguous, observed, ConflictsIn(alerts, resolved'))
        /\ UNCHANGED <<evidence, observed, alerts, seen, credited, copies, keeping>>

-----------------------------------------------------------------------------
(***************************************************************************)
(* The pool's use of the archive.                                          *)
(***************************************************************************)

\* reconcile_block and credit_block of a block: it is read in full.  (Replay has
\* the order of the backlog and the blocks that are held.)
Credit(h) ==
    /\ Readable(h) /\ h \notin credited
    /\ credited' = credited \union {h}
    /\ UNCHANGED <<evidence, stream, copies, keeping>>

-----------------------------------------------------------------------------
(***************************************************************************)
(* Retention and compaction.                                               *)
(***************************************************************************)

\* A verified base backup: what was there when it started.  The next one is not
\* taken before this one is superseded, and no run relies on it any more.
Backup ==
    /\ backup = NoBackup
    /\ backup' = [attempts |-> {a \in Captures : attempt[a] # "absent"},
                  copies |-> {h \in Heights : copy[h] # "absent"},
                  resolutions |-> resolved,
                  observed |-> Recorded(observed)]
    /\ UNCHANGED <<evidence, stream, credited, copies, floor, target, run>>

Supersede ==
    /\ backup # NoBackup /\ run = "idle"
    /\ backup' = NoBackup
    /\ UNCHANGED <<evidence, stream, credited, copies, floor, target, run>>

\* retention.plan, the block floor: whole rounds, in order, while each of them may
\* go.  Which rounds are settled is left open (Settlement has what it takes).
Expirable(n, settled) ==
    /\ \/ n <= CurrentRound - CapRounds
       \/ n \in settled /\ CurrentRound >= n + MarginRounds
    /\ RoundCoverage(n)
    /\ \E h \in backup.observed : h >= LastHeight(n)

TargetFloor(settled) ==
    LET first == (floor + 1) \div RoundLength + 1
        ends  == {n \in first..(CurrentRound - 1) : \A k \in first..n : Expirable(k, settled)}
    IN  IF ends = {} THEN floor ELSE LastHeight(Max(ends))

\* The coverage of each round is read in a transaction of its own, all of them
\* before the floor is written; the reads are one step here.  A floor that does not
\* rise is not written.
PlanRun ==
    /\ run = "idle" /\ backup # NoBackup /\ Recorded(observed) # {}
    /\ \E settled \in SUBSET (1..(CurrentRound - 1)) :
          \/ TargetFloor(settled) = floor /\ run' = "expiring" /\ target' = None
          \/ TargetFloor(settled) # floor /\ run' = "planned" /\ target' = TargetFloor(settled)
    /\ UNCHANGED <<evidence, stream, credited, copies, floor, backup>>

StoreFloor ==
    /\ run = "planned"
    /\ floor' = target /\ target' = None
    /\ run' = "expiring"
    /\ UNCHANGED <<evidence, stream, credited, copies, backup>>

\* As MayExpire, cited or not.
MayExpire_cited(a) ==
    attempt[a] = "live" /\ Height[a] <= floor /\ a \in backup.attempts

MayExpire(a) ==
    /\ attempt[a] = "live" /\ Height[a] <= floor
    /\ a \in backup.attempts
    /\ Block[a] \notin Cited

ExpireAttempt(a) ==
    /\ run = "expiring" /\ MayExpire(a)
    /\ attempt' = [attempt EXCEPT ![a] = "expired"]
    /\ UNCHANGED <<stored, lastRef, stream, credited, copies, keeping>>

\* The chunks whose last reference is under the floor, without those that an
\* unexpired capture under the floor still references.
Removable ==
    {c \in stored : lastRef[c] # None /\ lastRef[c] <= floor}
        \ UNION {ManifestRefs(a) : a \in {x \in Captures : attempt[x] = "live" /\ Height[x] <= floor}}

\* The run goes on when nothing is left to expire, or after max_blocks manifests.
RemoveChunks ==
    /\ run = "expiring"
    /\ stored' = stored \ Removable
    /\ lastRef' = [c \in Chunks |-> IF c \in Removable THEN None ELSE lastRef[c]]
    /\ run' = "copies"
    /\ UNCHANGED <<attempt, stream, credited, copies, floor, target, backup>>

ExpireCopies ==
    /\ run = "copies"
    /\ copy' = [h \in Heights |->
                  IF copy[h] = "live" /\ h <= floor /\ h \in backup.copies /\ Block[observed[h]] \notin Cited
                  THEN "expired" ELSE copy[h]]
    /\ run' = "idle"
    /\ UNCHANGED <<evidence, stream, credited, converting, floor, target, backup>>

CrashRun ==
    /\ run # "idle"
    /\ run' = "idle" /\ target' = None
    /\ UNCHANGED <<evidence, stream, credited, copies, floor, backup>>

\* compaction.backfill of a full capture: read in one transaction, and its copy
\* inserted in another.
ReadFull(h) ==
    /\ converting = None /\ h > AfterHeight
    /\ Readable(h) /\ copy[h] = "absent" /\ observed[h] \notin Compact
    /\ converting' = h
    /\ UNCHANGED <<evidence, stream, credited, copy, keeping>>

StoreCopy ==
    /\ converting # None
    /\ copy' = [copy EXCEPT ![converting] = "live"]
    /\ converting' = None
    /\ UNCHANGED <<evidence, stream, credited, keeping>>

\* compaction.prune: the full capture goes once a backup has its replacement.
Prune(h) ==
    /\ observed[h] # Nobody /\ attempt[observed[h]] = "live" /\ copy[h] = "live"
    /\ h \in credited
    /\ observed[h] \in backup.attempts /\ h \in backup.copies
    /\ h \notin Conflicts
    /\ \A a \in resolved : Height[a] = h => a \in backup.resolutions
    /\ attempt' = [attempt EXCEPT ![observed[h]] = "expired"]
    /\ UNCHANGED <<stored, lastRef, stream, credited, copies, keeping>>

\* collect_unused_chunks: what no surviving capture references.
Unused == stored \ UNION {ManifestRefs(a) : a \in {x \in Captures : attempt[x] # "absent"}}

CollectUnused ==
    /\ backup # NoBackup /\ Unused # {}
    /\ stored' = stored \ Unused
    /\ lastRef' = [c \in Chunks |-> IF c \notin stored' THEN None ELSE lastRef[c]]
    /\ UNCHANGED <<attempt, stream, credited, copies, keeping>>

-----------------------------------------------------------------------------
Next ==
    \/ \E a \in Captures : Record(a) \/ ExpireAttempt(a)
    \/ \E a, b \in Captures : Resolve(a, b)
    \/ \E h \in Heights : Credit(h) \/ ReadFull(h) \/ Prune(h)
    \/ StoreCopy
    \/ Backup \/ Supersede \/ PlanRun \/ StoreFloor \/ RemoveChunks \/ ExpireCopies \/ CrashRun \/ CollectUnused

Spec == Init /\ [][Next]_vars

-----------------------------------------------------------------------------
(***************************************************************************)
(* Properties.                                                             *)
(***************************************************************************)

\* A chunk is removed by its last reference, by an index that record, recovery of
\* older blocks and repeated captures keep incrementally: no unexpired observed
\* block ever loses a chunk, whatever was recovered, expired or collected around it.
ObservedIsWhole ==
    \A h \in Recorded(observed) :
        attempt[observed[h]] = "live" => Refs[observed[h]] \subseteq stored

\* The block that an open reservation was selected from can be replayed (for the
\* outcome of its collateral) through expiry, conversion and pruning.
CitedIsEvident == \A h \in Recorded(observed) : Block[observed[h]] \in Cited => Evident(h)

\* Evidence becomes expirable only for work that is done: of every round under the
\* floor no more blocks are without credit than the policy lets be missing, whatever
\* was recorded, recovered or disputed while a floor was planned and written, and
\* through runs that stop anywhere (retention.plan, round_coverage).
FloorIsCredited ==
    \A n \in 1..(Top \div RoundLength + 1) :
        LastHeight(n) <= floor => Cardinality(RoundHeights(n) \ credited) <= MaxMissing

\* Everything up to the contiguous height is observed, linked and free of
\* unresolved conflicts: what status reports as missing starts above it.
ContiguousIsSound ==
    \A h \in 0..contiguous :
        /\ observed[h] # Nobody /\ h \notin Conflicts
        /\ h > 0 => Previous[observed[h]] = Block[observed[h - 1]]
=============================================================================
