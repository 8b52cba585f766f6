---------------------------- MODULE ArchiveProofs ----------------------------
(***************************************************************************)
(* Theorems about Archive, for every set of captures, blocks and chunks,   *)
(* every policy of retention and every cited block.                        *)
(***************************************************************************)
EXTENDS Archive, Sums

TypeOK ==
    /\ attempt \in [Captures -> {"absent", "live", "expired"}]
    /\ observed \in [Heights -> Captures \union {Nobody}]
    /\ alerts \subseteq Captures \X Kinds
    /\ contiguous \in -1..Top
    /\ lastRef \in [Chunks -> {None} \union Heights]
    /\ copy \in [Heights -> {"absent", "live", "expired"}]
    /\ converting \in {None} \union Heights
    /\ floor \in Int /\ floor >= -1
    /\ target \in Int /\ target >= -1

\* What is observed at a height is a capture of it, that was recorded.
ObservedIsRecorded ==
    \A h \in Recorded(observed) : Height[observed[h]] = h /\ attempt[observed[h]] # "absent"

\* A row of the index is not older than the last observed block with the chunk.
IndexIsLate ==
    /\ \A h \in Recorded(observed), c \in Chunks :
          c \in ManifestRefs(observed[h]) => lastRef[c] = None \/ lastRef[c] >= h
    /\ Recorded(observed) = {} => \A c \in Chunks : lastRef[c] = None

\* A block that is cited keeps its full capture or its copy.
CitedIsKept ==
    \A h \in Recorded(observed) :
        Block[observed[h]] \in Cited =>
            copy[h] = "live" \/ (copy[h] = "absent" /\ attempt[observed[h]] = "live")

\* Only observed blocks are converted.
CopiesAreObserved ==
    /\ \A h \in Heights : copy[h] # "absent" => h \in Recorded(observed)
    /\ converting # None => converting \in Recorded(observed)

\* The inductive invariant.
IInv ==
    /\ TypeOK /\ ObservedIsRecorded /\ IndexIsLate /\ CitedIsKept /\ CopiesAreObserved
    /\ ObservedIsWhole /\ ContiguousIsSound

-----------------------------------------------------------------------------
(***************************************************************************)
(* Greatest and least heights.                                             *)
(***************************************************************************)

\* The greatest of finitely many numbers.
LEMMA MaxIs ==
    ASSUME NEW S, IsFiniteSet(S), \A x \in S : x \in Int, S # {}
    PROVE  Max(S) \in S /\ \A y \in S : Max(S) >= y
BY GreatestOne DEF Max

\* The least of finitely many numbers.
LEMMA MinIs ==
    ASSUME NEW S, IsFiniteSet(S), \A x \in S : x \in Int, S # {}
    PROVE  Min(S) \in S /\ \A y \in S : Min(S) <= y
BY LeastOne DEF Min

\* Heights are finitely many numbers.
LEMMA HeightsFinite ==
    ASSUME NEW S \in SUBSET Heights
    PROVE  IsFiniteSet(S) /\ \A x \in S : x \in Int
<1>1. IsFiniteSet(0..Top)
  BY ArchiveAssumption, FS_Interval
<1>2. IsFiniteSet(S)
  BY <1>1, FS_Subset DEF Heights
<1>3. \A x \in S : x \in Int
  BY ArchiveAssumption DEF Heights
<1> QED
  BY <1>2, <1>3

\* The greater of two numbers.
LEMMA MaxOfTwo ==
    ASSUME NEW a \in Int, NEW b \in Int
    PROVE  /\ Max({a, b}) = a \/ Max({a, b}) = b
           /\ Max({a, b}) >= a /\ Max({a, b}) >= b
<1> DEFINE S == {a, b}
<1>1. \E x \in S : \A y \in S : x >= y
  OBVIOUS
<1>2. Max(S) \in S /\ \A y \in S : Max(S) >= y
  BY <1>1 DEF Max
<1> QED
  BY <1>2

-----------------------------------------------------------------------------
(***************************************************************************)
(* The index of last references.                                           *)
(***************************************************************************)

\* Rows of S are raised to h at least.
LEMMA GreatestRows ==
    ASSUME NEW f \in [Chunks -> {None} \union Heights], NEW S, NEW h \in Heights
    PROVE  /\ Greatest(f, S, h) \in [Chunks -> {None} \union Heights]
           /\ \A c \in Chunks : IF c \in S THEN Greatest(f, S, h)[c] >= f[c] /\ Greatest(f, S, h)[c] >= h
                                ELSE Greatest(f, S, h)[c] = f[c]
<1> DEFINE g == Greatest(f, S, h)
<1>1. g = [c \in Chunks |-> IF c \in S THEN Max({f[c], h}) ELSE f[c]]
  BY DEF Greatest
<1>2. \A c \in Chunks : g[c] = IF c \in S THEN Max({f[c], h}) ELSE f[c]
  BY <1>1
<1>3. h \in Int /\ \A c \in Chunks : f[c] \in Int
  BY ArchiveAssumption DEF Heights, None
<1>4. \A c \in Chunks : /\ Max({f[c], h}) = f[c] \/ Max({f[c], h}) = h
                        /\ Max({f[c], h}) >= f[c] /\ Max({f[c], h}) >= h
  BY <1>3, MaxOfTwo
<1> HIDE DEF g
<1>5. \A c \in Chunks : g[c] \in {None} \union Heights
  BY <1>2, <1>4
<1>6. g = [c \in Chunks |-> g[c]]
  BY <1>1 DEF g
<1>7. g \in [Chunks -> {None} \union Heights]
  BY <1>5, <1>6
<1> QED
  BY <1>2, <1>4, <1>7 DEF g

\* No row is older than the blocks of R that want its chunk.
Late(f, want, R) ==
    \A k \in R : \A c \in Chunks : c \in want[k] => f[c] = None \/ f[c] >= k

\* Tracking a block keeps every row late enough: a new block, an older block
\* that is recovered, and the newest block captured again.
LEMMA TrackIsLate ==
    ASSUME TypeOK, NEW obs \in [Heights -> Captures \union {Nobody}], NEW h \in Recorded(obs),
           NEW refs, NEW previous, NEW want, want[h] \subseteq refs,
           Late(lastRef, want, Recorded(obs) \ {h}),
           Recorded(obs) = {h} => Late(lastRef, want, {h})
    PROVE  /\ Track(h, obs, refs, previous) \in [Chunks -> {None} \union Heights]
           /\ Late(Track(h, obs, refs, previous), want, Recorded(obs))
<1> DEFINE R == Recorded(obs)
<1> DEFINE below == {k \in R : k < h}
<1> DEFINE rows == {c \in Chunks : lastRef[c] # None}
<1> DEFINE g == Track(h, obs, refs, previous)
<1>1. /\ lastRef \in [Chunks -> {None} \union Heights] /\ R \subseteq Heights /\ h \in Heights
      /\ \A k \in R : k \in Nat
  BY ArchiveAssumption DEF TypeOK, Recorded, Heights
<1>2. \A c \in Chunks : lastRef[c] \in Int
  BY <1>1, ArchiveAssumption DEF Heights, None
<1>3. CASE \E k \in R : k > h
  <2>1. g = Greatest(lastRef, refs \intersect rows, h)
    BY <1>3 DEF Track
  <2>2. /\ g \in [Chunks -> {None} \union Heights]
        /\ \A c \in Chunks :
              IF c \in refs \intersect rows THEN g[c] >= lastRef[c] /\ g[c] >= h
              ELSE g[c] = lastRef[c]
    <3> HIDE DEF g, rows
    <3> QED
      BY <1>1, <2>1, GreatestRows
  <2>3. \A c \in Chunks : g[c] \in Int
    BY <2>2, ArchiveAssumption DEF Heights, None
  <2> HIDE DEF g
  <2>4. ASSUME NEW k \in R, NEW c \in Chunks, c \in want[k] PROVE g[c] = None \/ g[c] >= k
    <3>1. CASE k = h
      BY <2>2, <2>4, <3>1
    <3>2. CASE k # h
      <4>1. lastRef[c] = None \/ lastRef[c] >= k
        BY <2>4, <3>2 DEF Late
      <4> QED
        BY <1>1, <1>2, <2>2, <2>3, <4>1
    <3> QED
      BY <3>1, <3>2
  <2> QED
    BY <2>2, <2>4 DEF Late, g
<1>4. CASE ~(\E k \in R : k > h) /\ below = {}
  <2>1. g = lastRef
    BY <1>4, Zenon DEF Track
  <2>2. R = {h}
    BY <1>1, <1>4
  <2> QED
    BY <1>1, <2>1, <2>2
<1>5. CASE ~(\E k \in R : k > h) /\ below # {}
  <2> DEFINE m == Max(below)
  <2> DEFINE raised == Greatest(lastRef, previous, m)
  <2>1. g = [c \in Chunks |-> IF c \in refs THEN None ELSE raised[c]]
    BY <1>5 DEF Track
  <2>2. below \in SUBSET Heights
    BY <1>1
  <2>3. m \in below /\ \A k \in below : m >= k
    <3> HIDE DEF below
    <3> QED
      BY <1>5, <2>2, HeightsFinite, MaxIs
  <2>4. m \in Heights
    BY <2>2, <2>3
  <2>5. /\ raised \in [Chunks -> {None} \union Heights]
        /\ \A c \in Chunks : IF c \in previous THEN raised[c] >= lastRef[c] /\ raised[c] >= m
                             ELSE raised[c] = lastRef[c]
    <3> HIDE DEF m
    <3> QED
      BY <1>1, <2>4, GreatestRows
  <2> HIDE DEF raised, g, m
  <2>6. g \in [Chunks -> {None} \union Heights]
    BY <2>1, <2>5
  <2>7. ASSUME NEW k \in R, NEW c \in Chunks, c \in want[k] PROVE g[c] = None \/ g[c] >= k
    <3>1. CASE c \in refs
      BY <2>1, <3>1
    <3>2. CASE c \notin refs
      <4>1. k # h /\ g[c] = raised[c]
        BY <2>1, <2>7, <3>2
      <4>2. k \in below /\ m >= k /\ m \in Int /\ k \in Int
        BY <1>1, <1>5, <2>3, <2>4, <4>1, ArchiveAssumption DEF Heights
      <4>3. lastRef[c] = None \/ lastRef[c] >= k
        BY <2>7, <4>1 DEF Late
      <4>4. raised[c] \in Int
        BY <2>5, ArchiveAssumption DEF Heights, None
      <4> QED
        BY <1>2, <2>5, <4>1, <4>2, <4>3, <4>4
    <3> QED
      BY <3>1, <3>2
  <2> QED
    BY <2>6, <2>7 DEF Late, g
<1> QED
  BY <1>3, <1>4, <1>5

\* So do the chunks of a repeated capture.
LEMMA ExtraIsLate ==
    ASSUME NEW obs \in [Heights -> Captures \union {Nobody}], Recorded(obs) # {},
           NEW f \in [Chunks -> {None} \union Heights], NEW extra, NEW want,
           Late(f, want, Recorded(obs))
    PROVE  /\ TrackExtra(f, extra, obs) \in [Chunks -> {None} \union Heights]
           /\ Late(TrackExtra(f, extra, obs), want, Recorded(obs))
<1> DEFINE R == Recorded(obs)
<1> DEFINE m == Max(R)
<1> DEFINE g == Greatest(f, extra, m)
<1>1. R \in SUBSET Heights
  BY DEF Recorded
<1>2. m \in R /\ \A k \in R : m >= k
  <2> HIDE DEF R
  <2>1. R # {}
    BY DEF R
  <2> QED
    BY <1>1, <2>1, HeightsFinite, MaxIs
<1>3. CASE extra = {}
  BY <1>3 DEF TrackExtra
<1>4. CASE extra # {}
  <2>1. TrackExtra(f, extra, obs) = g
    BY <1>4 DEF TrackExtra
  <2>2. m \in Heights
    BY <1>1, <1>2
  <2>3. /\ g \in [Chunks -> {None} \union Heights]
        /\ \A c \in Chunks : IF c \in extra THEN g[c] >= f[c] /\ g[c] >= m ELSE g[c] = f[c]
    <3> HIDE DEF m
    <3> QED
      BY <2>2, GreatestRows
  <2>4. /\ m \in Int /\ \A k \in R : k \in Int
        /\ \A c \in Chunks : f[c] \in Int /\ g[c] \in Int
    BY <1>1, <2>2, <2>3, ArchiveAssumption DEF Heights, None
  <2> HIDE DEF g, m
  <2>5. ASSUME NEW k \in R, NEW c \in Chunks, c \in want[k] PROVE g[c] = None \/ g[c] >= k
    <3>1. f[c] = None \/ f[c] >= k
      BY <2>5 DEF Late
    <3> QED
      BY <1>2, <2>3, <2>4, <3>1
  <2> QED
    BY <2>1, <2>3, <2>5 DEF Late
<1> QED
  BY <1>3, <1>4

-----------------------------------------------------------------------------
(***************************************************************************)
(* The contiguous height.                                                  *)
(***************************************************************************)

\* Observed and linked, and free of conflicts, up to m.
Linked(m, obs) ==
    \A h \in 0..m : obs[h] # Nobody /\ (h > 0 => Previous[obs[h]] = Block[obs[h - 1]])
Sound(m, obs, conflicts) == Linked(m, obs) /\ \A h \in 0..m : h \notin conflicts

\* _advance goes on from a sound height to a sound one.
LEMMA AdvanceIsSound ==
    ASSUME NEW from \in -1..Top, NEW obs, NEW conflicts, Sound(from, obs, conflicts)
    PROVE  Advance(from, obs, conflicts) \in -1..Top /\ Sound(Advance(from, obs, conflicts), obs, conflicts)
<1> DEFINE good(j) == /\ obs[j] # Nobody /\ j \notin conflicts
                      /\ (j > 0 /\ obs[j - 1] # Nobody) => Previous[obs[j]] = Block[obs[j - 1]]
<1> DEFINE S == {k \in from..Top : \A j \in (from + 1)..k : good(j)}
<1> DEFINE m == Advance(from, obs, conflicts)
<1>1. Top \in Nat /\ from \in Int /\ from >= -1 /\ from <= Top
  BY ArchiveAssumption
<1>2. from \in S
  BY <1>1
<1>3. IsFiniteSet(S) /\ \A x \in S : x \in Int
  <2>1. IsFiniteSet(from..Top)
    BY <1>1, FS_Interval
  <2>2. S \in SUBSET (from..Top)
    OBVIOUS
  <2> HIDE DEF S
  <2>3. IsFiniteSet(S)
    BY <2>1, <2>2, FS_Subset
  <2> QED
    BY <1>1, <2>2, <2>3
<1>4. m = Max(S)
  BY DEF Advance
<1>5. m \in S
  <2> HIDE DEF S
  <2> QED
    BY <1>2, <1>3, <1>4, MaxIs
<1>6. m \in from..Top /\ \A j \in (from + 1)..m : good(j)
  BY <1>5
<1> HIDE DEF m, S
<1>7. m \in Int /\ m \in -1..Top
  BY <1>1, <1>6
<1>8. ASSUME NEW h \in 0..m
      PROVE  /\ obs[h] # Nobody /\ h \notin conflicts
             /\ h > 0 => Previous[obs[h]] = Block[obs[h - 1]]
  <2>1. CASE h <= from
    <3>1. h \in 0..from
      BY <1>1, <1>7, <2>1
    <3> QED
      BY <3>1 DEF Sound, Linked
  <2>2. CASE h > from
    <3>1. h \in (from + 1)..m
      BY <1>1, <1>7, <2>2
    <3>2. ASSUME h > 0 PROVE obs[h - 1] # Nobody
      <4>1. CASE h - 1 <= from
        <5>1. h - 1 \in 0..from
          BY <1>1, <1>7, <3>2, <4>1
        <5> QED
          BY <5>1 DEF Sound, Linked
      <4>2. CASE h - 1 > from
        <5>1. h - 1 \in (from + 1)..m
          BY <1>1, <1>7, <4>2
        <5> QED
          BY <1>6, <5>1
      <4> QED
        BY <1>1, <1>7, <4>1, <4>2
    <3> QED
      BY <1>6, <3>1, <3>2
  <2> QED
    BY <1>1, <1>7, <2>1, <2>2
<1> QED
  BY <1>7, <1>8 DEF Sound, Linked, m

\* A conflict takes the contiguous height below it.
LEMMA RollBackIsSound ==
    ASSUME contiguous \in -1..Top, NEW obs, NEW conflicts \in SUBSET Heights, Linked(contiguous, obs)
    PROVE  RollBack(conflicts) \in -1..Top /\ Sound(RollBack(conflicts), obs, conflicts)
<1> DEFINE m == RollBack(conflicts)
<1>1. Top \in Nat /\ contiguous \in Int
  BY ArchiveAssumption
<1>2. \A h \in conflicts : h \in Int /\ h >= 0
  BY <1>1 DEF Heights
<1>3. m \in -1..contiguous /\ m \in -1..Top /\ \A h \in 0..m : h \notin conflicts
  <2>1. CASE \E h \in conflicts : h <= contiguous
    <3> DEFINE l == Min(conflicts)
    <3>1. l \in conflicts /\ \A y \in conflicts : l <= y
      <4>1. IsFiniteSet(conflicts) /\ \A x \in conflicts : x \in Int
        BY HeightsFinite
      <4> QED
        BY <2>1, <4>1, MinIs
    <3>2. m = l - 1
      BY <2>1 DEF RollBack
    <3> HIDE DEF l, m
    <3> QED
      BY <1>1, <1>2, <2>1, <3>1, <3>2
  <2>2. CASE ~ \E h \in conflicts : h <= contiguous
    <3>1. m = contiguous
      BY <2>2 DEF RollBack
    <3> HIDE DEF m
    <3> QED
      BY <1>1, <1>2, <2>2, <3>1
  <2> QED
    BY <2>1, <2>2
<1> HIDE DEF m
<1>4. \A h \in 0..m : h \in 0..contiguous
  BY <1>1, <1>3
<1> QED
  BY <1>3, <1>4 DEF Sound, Linked, m

\* Conflicts are about heights, and resolutions end some of them.
LEMMA ConflictsAreHeights ==
    ASSUME NEW al \in SUBSET (Captures \X Kinds), NEW res
    PROVE  /\ ConflictsIn(al, res) \in SUBSET Heights
           /\ \A more : ConflictsIn(al, res \union more) \subseteq ConflictsIn(al, res)
BY ArchiveAssumption DEF ConflictsIn

-----------------------------------------------------------------------------
(***************************************************************************)
(* Every step keeps the invariant.                                         *)
(***************************************************************************)

\* An archive starts empty.
LEMMA ArchiveInit == Init => IInv
<1> SUFFICES ASSUME Init PROVE IInv
  OBVIOUS
<1> USE DEF Init
<1>1. Top \in Nat
  BY ArchiveAssumption
<1>2. TypeOK
  BY <1>1 DEF TypeOK, None
<1>3. Recorded(observed) = {}
  BY DEF Recorded
<1>4. ObservedIsRecorded /\ CitedIsKept /\ ObservedIsWhole
  BY <1>3 DEF ObservedIsRecorded, CitedIsKept, ObservedIsWhole
<1>5. IndexIsLate /\ CopiesAreObserved
  BY <1>3 DEF IndexIsLate, CopiesAreObserved
<1>6. ContiguousIsSound
  <2>1. 0..contiguous = {}
    OBVIOUS
  <2> QED
    BY <2>1 DEF ContiguousIsSound
<1> QED
  BY <1>2, <1>4, <1>5, <1>6 DEF IInv

\* What changes neither the evidence nor the observed blocks.
LEMMA ArchiveSame ==
    ASSUME IInv, UNCHANGED <<attempt, observed, alerts, resolved, contiguous, stored, lastRef, copy,
                             converting>>,
           floor' \in Int, floor' >= -1, target' \in Int, target' >= -1
    PROVE  IInv'
<1> USE DEF IInv
<1>1. TypeOK' /\ ObservedIsRecorded' /\ CitedIsKept' /\ CopiesAreObserved'
  BY DEF TypeOK, ObservedIsRecorded, CitedIsKept, CopiesAreObserved
<1>2. IndexIsLate' /\ ObservedIsWhole'
  BY DEF IndexIsLate, ObservedIsWhole, ManifestRefs
<1>3. ContiguousIsSound'
  BY DEF ContiguousIsSound, Conflicts
<1> QED
  BY <1>1, <1>2, <1>3

\* Soundness of the contiguous height depends on the stream only.
LEMMA ContiguousSame ==
    ASSUME ContiguousIsSound, UNCHANGED <<observed, alerts, resolved, contiguous>>
    PROVE  ContiguousIsSound'
BY DEF ContiguousIsSound, Conflicts

\* A full capture expires where no cited block loses its last evidence.
LEMMA ExpiringOne ==
    ASSUME IInv, NEW a \in Captures, attempt' = [attempt EXCEPT ![a] = "expired"],
           \A h \in Recorded(observed) :
               observed[h] = a /\ Block[a] \in Cited => copy[h] = "live",
           attempt[a] # "absent",
           UNCHANGED <<stored, lastRef, stream, copies, floor, target>>
    PROVE  IInv'
<1> USE DEF IInv
<1>1. /\ attempt' \in [Captures -> {"absent", "live", "expired"}]
      /\ attempt'[a] = "expired" /\ \A x \in Captures : x # a => attempt'[x] = attempt[x]
      /\ UNCHANGED <<observed, alerts, resolved, contiguous, stored, lastRef, copy, converting, floor, target>>
  BY DEF TypeOK, stream, copies
<1>2. \A h \in Recorded(observed) : observed[h] \in Captures /\ h \in Heights
  BY DEF TypeOK, Recorded
<1>3. TypeOK' /\ CopiesAreObserved' /\ ContiguousIsSound'
  BY <1>1, ContiguousSame DEF TypeOK, CopiesAreObserved
<1>4. ObservedIsRecorded'
  BY <1>1, <1>2 DEF ObservedIsRecorded
<1>5. \A x \in Captures : ManifestRefs(x)' \subseteq ManifestRefs(x)
  BY <1>1 DEF ManifestRefs
<1>6. IndexIsLate'
  <2> SUFFICES ASSUME NEW h \in Recorded(observed), NEW c \in Chunks,
                      c \in ManifestRefs(observed[h])'
               PROVE  lastRef[c] = None \/ lastRef[c] >= h
    BY <1>1 DEF IndexIsLate
  <2>1. c \in ManifestRefs(observed[h])
    BY <1>1, <1>2 DEF ManifestRefs
  <2> QED
    BY <2>1 DEF IndexIsLate
<1>7. ObservedIsWhole'
  BY <1>1, <1>2 DEF ObservedIsWhole
<1>8. CitedIsKept'
  <2> SUFFICES ASSUME NEW h \in Recorded(observed), Block[observed[h]] \in Cited
               PROVE  copy[h] = "live" \/ (copy[h] = "absent" /\ attempt'[observed[h]] = "live")
    BY <1>1 DEF CitedIsKept
  <2>1. CASE observed[h] = a
    BY <2>1
  <2>2. CASE observed[h] # a
    BY <1>1, <1>2, <2>2 DEF CitedIsKept
  <2> QED
    BY <2>1, <2>2
<1> QED
  BY <1>3, <1>4, <1>6, <1>7, <1>8

\* A retention run expires what no open reservation cites.
LEMMA ExpireAttemptStep ==
    ASSUME IInv, NEW a \in Captures, ExpireAttempt(a)
    PROVE  IInv'
BY ExpiringOne DEF ExpireAttempt, MayExpire, keeping

\* Pruning leaves the copy.
LEMMA PruneStep ==
    ASSUME IInv, NEW h \in Heights, Prune(h)
    PROVE  IInv'
<1> DEFINE a == observed[h]
<1>1. /\ a \in Captures /\ attempt[a] = "live" /\ copy[h] = "live"
      /\ attempt' = [attempt EXCEPT ![a] = "expired"]
      /\ UNCHANGED <<stored, lastRef, stream, copies, floor, target>>
  BY DEF Prune, IInv, TypeOK, keeping
<1>2. \A k \in Recorded(observed) : observed[k] = a /\ Block[a] \in Cited => copy[k] = "live"
  <2> SUFFICES ASSUME NEW k \in Recorded(observed), observed[k] = a PROVE k = h
    BY <1>1
  <2>1. h \in Recorded(observed)
    BY DEF Recorded, Prune
  <2> QED
    BY <2>1 DEF IInv, ObservedIsRecorded
<1> HIDE DEF a
<1> QED
  BY <1>1, <1>2, ExpiringOne

\* The chunks of a live observed block at or under the floor are kept because it
\* is live, those of one above it because their rows are late.
LEMMA RemoveChunksStep ==
    ASSUME IInv, RemoveChunks
    PROVE  IInv'
<1> USE DEF IInv
<1>1. /\ stored' = stored \ Removable
      /\ lastRef' = [c \in Chunks |-> IF c \in Removable THEN None ELSE lastRef[c]]
      /\ UNCHANGED <<attempt, observed, alerts, resolved, contiguous, copy, converting, floor, target>>
  BY DEF RemoveChunks, stream, copies
<1>2. TypeOK' /\ ContiguousIsSound'
  BY <1>1, ContiguousSame DEF TypeOK
<1>3. ObservedIsRecorded' /\ CitedIsKept' /\ CopiesAreObserved'
  BY <1>1 DEF ObservedIsRecorded, CitedIsKept, CopiesAreObserved
<1>4. IndexIsLate'
  BY <1>1 DEF IndexIsLate, ManifestRefs
<1>5. ObservedIsWhole'
  <2> SUFFICES ASSUME NEW h \in Recorded(observed), attempt[observed[h]] = "live",
                      NEW c \in Refs[observed[h]]
               PROVE  c \in stored /\ c \notin Removable
    BY <1>1 DEF ObservedIsWhole
  <2>1. c \in stored
    BY DEF ObservedIsWhole
  <2>2. observed[h] \in Captures /\ h \in Heights /\ Height[observed[h]] = h
    BY DEF TypeOK, Recorded, ObservedIsRecorded
  <2>3. c \in Chunks /\ c \in ManifestRefs(observed[h])
    BY <2>2 DEF Chunks, ManifestRefs
  <2>4. lastRef[c] = None \/ lastRef[c] >= h
    BY <2>3 DEF IndexIsLate
  <2>5. CASE h <= floor
    <3> DEFINE kept == {x \in Captures : attempt[x] = "live" /\ Height[x] <= floor}
    <3>1. observed[h] \in kept
      BY <2>2, <2>5
    <3>2. c \in UNION {ManifestRefs(x) : x \in kept}
      BY <2>3, <3>1
    <3> QED
      BY <2>1, <3>2 DEF Removable
  <2>6. CASE ~(h <= floor)
    <3>1. h \in Int /\ floor \in Int /\ lastRef[c] \in Int
      BY <2>2, <2>3, ArchiveAssumption DEF TypeOK, Heights, None
    <3>2. ~(lastRef[c] # None /\ lastRef[c] <= floor)
      BY <2>4, <2>6, <3>1
    <3> QED
      BY <2>1, <3>2 DEF Removable
  <2> QED
    BY <2>1, <2>5, <2>6
<1> QED
  BY <1>2, <1>3, <1>4, <1>5

\* No chunk of a recorded capture is unused, unless its manifest expired.
LEMMA CollectStep ==
    ASSUME IInv, CollectUnused
    PROVE  IInv'
<1> USE DEF IInv
<1>1. /\ stored' = stored \ Unused
      /\ lastRef' = [c \in Chunks |-> IF c \notin stored' THEN None ELSE lastRef[c]]
      /\ UNCHANGED <<attempt, observed, alerts, resolved, contiguous, copy, converting, floor, target>>
  BY DEF CollectUnused, stream, copies, keeping
<1>2. TypeOK' /\ ContiguousIsSound'
  BY <1>1, ContiguousSame DEF TypeOK
<1>3. ObservedIsRecorded' /\ CitedIsKept' /\ CopiesAreObserved'
  BY <1>1 DEF ObservedIsRecorded, CitedIsKept, CopiesAreObserved
<1>4. IndexIsLate'
  BY <1>1 DEF IndexIsLate, ManifestRefs
<1>5. ObservedIsWhole'
  <2> SUFFICES ASSUME NEW h \in Recorded(observed), attempt[observed[h]] = "live",
                      NEW c \in Refs[observed[h]]
               PROVE  c \in stored /\ c \notin Unused
    BY <1>1 DEF ObservedIsWhole
  <2>1. c \in stored
    BY DEF ObservedIsWhole
  <2>2. observed[h] \in Captures
    BY DEF TypeOK, Recorded
  <2>3. c \in ManifestRefs(observed[h]) /\ attempt[observed[h]] # "absent"
    BY <2>2 DEF ManifestRefs
  <2> QED
    BY <2>1, <2>2, <2>3 DEF Unused
<1> QED
  BY <1>2, <1>3, <1>4, <1>5

\* A copy is made of an observed block, and expires where none cites it.
LEMMA CopiesStep ==
    ASSUME IInv, ExpireCopies \/ StoreCopy \/ \E h \in Heights : ReadFull(h)
    PROVE  IInv'
<1> USE DEF IInv
<1>1. UNCHANGED <<attempt, observed, alerts, resolved, contiguous, stored, lastRef, floor, target>>
  BY DEF ExpireCopies, StoreCopy, ReadFull, evidence, stream, keeping
<1>2. /\ copy' \in [Heights -> {"absent", "live", "expired"}]
      /\ converting' \in {None} \union Heights
      /\ converting' # None => converting' \in Recorded(observed)
      /\ \A h \in Heights : copy'[h] # "absent" => h \in Recorded(observed)
      /\ \A h \in Heights : \/ copy'[h] = copy[h] \/ copy'[h] = "live"
                            \/ copy[h] = "live" /\ Block[observed[h]] \notin Cited
  <2>1. CASE ExpireCopies
    <3>1. /\ copy' = [h \in Heights |->
                        IF copy[h] = "live" /\ h <= floor /\ h \in backup.copies
                              /\ Block[observed[h]] \notin Cited
                        THEN "expired" ELSE copy[h]]
          /\ converting' = converting
      BY <2>1 DEF ExpireCopies
    <3> QED
      BY <3>1 DEF TypeOK, CopiesAreObserved
  <2>2. CASE StoreCopy
    BY <2>2 DEF StoreCopy, TypeOK, CopiesAreObserved
  <2>3. ASSUME NEW h \in Heights, ReadFull(h)
        PROVE  /\ converting' = h /\ copy' = copy /\ h \in Recorded(observed)
    BY <2>3 DEF ReadFull, Readable, Evident, Recorded
  <2> QED
    BY <2>1, <2>2, <2>3 DEF TypeOK, CopiesAreObserved
<1>3. TypeOK' /\ ContiguousIsSound'
  BY <1>1, <1>2, ContiguousSame DEF TypeOK
<1>4. ObservedIsRecorded' /\ CopiesAreObserved'
  BY <1>1, <1>2 DEF ObservedIsRecorded, CopiesAreObserved
<1>5. IndexIsLate' /\ ObservedIsWhole'
  BY <1>1 DEF IndexIsLate, ObservedIsWhole, ManifestRefs
<1>6. CitedIsKept'
  <2> SUFFICES ASSUME NEW h \in Recorded(observed), Block[observed[h]] \in Cited
               PROVE  copy'[h] = "live" \/ (copy'[h] = "absent" /\ attempt[observed[h]] = "live")
    BY <1>1 DEF CitedIsKept
  <2>1. h \in Heights
    BY DEF Recorded
  <2> QED
    BY <1>2, <2>1 DEF CitedIsKept
<1> QED
  BY <1>3, <1>4, <1>5, <1>6

\* A planned floor is the recorded one or the last height of a round up to which
\* every round, from the first above the floor, may go.
LEMMA TargetIs ==
    ASSUME IInv, Recorded(observed) # {}, NEW settled
    PROVE  \/ TargetFloor(settled) = floor
           \/ \E m \in Nat \ {0} :
                 /\ TargetFloor(settled) = LastHeight(m)
                 /\ \A k \in ((floor + 1) \div RoundLength + 1)..m : Expirable(k, settled)
<1> DEFINE first == (floor + 1) \div RoundLength + 1
<1> DEFINE ends == {n \in first..(CurrentRound - 1) : \A k \in first..n : Expirable(k, settled)}
<1>1. TargetFloor(settled) = IF ends = {} THEN floor ELSE LastHeight(Max(ends))
  BY DEF TargetFloor
<1>2. floor + 1 \in Nat /\ RoundLength \in Nat \ {0}
  BY ArchiveAssumption DEF IInv, TypeOK
<1>3. first \in Nat \ {0}
  <2>1. (floor + 1) \div RoundLength \in Nat
    BY <1>2, Division
  <2> QED
    BY <2>1
<1>4. CurrentRound \in Int
  <2>1. Recorded(observed) \in SUBSET Heights
    BY DEF Recorded
  <2>2. Newest \in Recorded(observed)
    BY <2>1, HeightsFinite, MaxIs DEF Newest
  <2>3. Newest \in Nat
    BY <2>1, <2>2, ArchiveAssumption DEF Heights
  <2> QED
    BY <1>2, <2>3, Division DEF CurrentRound
<1>5. CASE ends = {}
  BY <1>1, <1>5
<1>6. CASE ends # {}
  <2> DEFINE m == Max(ends)
  <2>1. /\ ends \in SUBSET (first..(CurrentRound - 1))
        /\ \A n \in ends : \A k \in first..n : Expirable(k, settled)
    OBVIOUS
  <2> HIDE DEF ends, first
  <2>2. IsFiniteSet(first..(CurrentRound - 1))
    BY <1>3, <1>4, FS_Interval
  <2>3. IsFiniteSet(ends)
    BY <2>1, <2>2, FS_Subset
  <2>4. \A x \in ends : x \in Int
    BY <1>3, <1>4, <2>1
  <2>5. m \in ends
    BY <1>6, <2>3, <2>4, MaxIs
  <2> HIDE DEF m
  <2>6. m \in Nat \ {0}
    <3>1. m \in first..(CurrentRound - 1)
      BY <2>1, <2>5
    <3> QED
      BY <1>3, <1>4, <3>1
  <2>7. TargetFloor(settled) = LastHeight(m)
    BY <1>1, <1>6 DEF m
  <2>8. \A k \in first..m : Expirable(k, settled)
    BY <2>1, <2>5
  <2> QED
    BY <2>6, <2>7, <2>8 DEF first
<1> QED
  BY <1>5, <1>6

\* The floor and the planned one stay heights, or -1.
LEMMA FloorStep ==
    ASSUME IInv, PlanRun \/ StoreFloor \/ CrashRun
    PROVE  IInv'
<1>1. UNCHANGED <<attempt, observed, alerts, resolved, contiguous, stored, lastRef, copy, converting>>
  BY DEF PlanRun, StoreFloor, CrashRun, evidence, stream, copies
<1>2. /\ floor \in Int /\ floor >= -1 /\ target \in Int /\ target >= -1
      /\ None \in Int /\ None >= -1
  BY DEF IInv, TypeOK, None
<1>3. /\ floor' \in Int /\ floor' >= -1
      /\ target' \in Int /\ target' >= -1
  <2>1. CASE PlanRun
    <3>1. PICK settled : target' = None \/ target' = TargetFloor(settled)
      BY <2>1 DEF PlanRun
    <3>2. floor' = floor
      BY <2>1 DEF PlanRun
    <3>3. TargetFloor(settled) \in Int /\ TargetFloor(settled) >= -1
      <4>1. Recorded(observed) # {}
        BY <2>1 DEF PlanRun
      <4>2. ASSUME NEW m \in Nat \ {0} PROVE LastHeight(m) \in Int /\ LastHeight(m) >= -1
        <5>1. m * RoundLength \in Nat
          BY ArchiveAssumption
        <5> QED
          BY <5>1 DEF LastHeight
      <4> QED
        BY <1>2, <4>1, <4>2, TargetIs
    <3> QED
      BY <1>2, <3>1, <3>2, <3>3
  <2>2. CASE StoreFloor
    BY <1>2, <2>2 DEF StoreFloor
  <2>3. CASE CrashRun
    BY <1>2, <2>3 DEF CrashRun
  <2> QED
    BY <2>1, <2>2, <2>3
<1> QED
  BY <1>1, <1>3, ArchiveSame

\* A resolution ends a conflict; the contiguous height goes on.
LEMMA ResolveStep ==
    ASSUME IInv, NEW a, NEW b, Resolve(a, b)
    PROVE  IInv'
<1> USE DEF IInv
<1> DEFINE now == ConflictsIn(alerts, resolved')
<1>1. /\ resolved' = resolved \union {a}
      /\ contiguous' = Advance(contiguous, observed, now)
      /\ UNCHANGED <<attempt, observed, alerts, stored, lastRef, copy, converting, floor, target>>
  BY DEF Resolve, evidence, copies, keeping
<1>2. now \subseteq Conflicts
  BY <1>1, ConflictsAreHeights DEF Conflicts, TypeOK
<1>3. Conflicts' = now
  BY <1>1 DEF Conflicts
<1> HIDE DEF now
<1>4. Sound(contiguous, observed, now) /\ contiguous \in -1..Top
  BY <1>2 DEF ContiguousIsSound, Sound, Linked, TypeOK
<1>5. contiguous' \in -1..Top /\ Sound(contiguous', observed, now)
  BY <1>1, <1>4, AdvanceIsSound
<1>6. ContiguousIsSound'
  BY <1>1, <1>3, <1>5 DEF ContiguousIsSound, Sound, Linked
<1>7. TypeOK'
  BY <1>1, <1>5 DEF TypeOK
<1>8. ObservedIsRecorded' /\ CopiesAreObserved' /\ CitedIsKept'
  BY <1>1 DEF ObservedIsRecorded, CopiesAreObserved, CitedIsKept
<1>9. IndexIsLate' /\ ObservedIsWhole'
  BY <1>1 DEF IndexIsLate, ObservedIsWhole, ManifestRefs
<1> QED
  BY <1>6, <1>7, <1>8, <1>9

\* A capture is recorded: a new block at its height, a block captured again, one
\* that was missing under newer ones, or a capture that fails or conflicts.
LEMMA RecordStep ==
    ASSUME IInv, NEW a \in Captures, Record(a)
    PROVE  IInv'
<1> USE DEF IInv
<1> DEFINE h == Height[a]
<1> DEFINE identity == a \in Complete /\ IdentityConflict(a)
<1> DEFINE neighbor == a \in Complete /\ NeighborConflict(a)
<1> DEFINE error == a \notin Complete \/ identity \/ neighbor
<1> DEFINE obs == IF error \/ observed[h] # Nobody THEN observed ELSE [observed EXCEPT ![h] = a]
<1> DEFINE now == ConflictsIn(alerts', resolved)
<1> DEFINE back == RollBack(now)
<1> DEFINE refs == IF obs[h] = a THEN Refs[a] ELSE ManifestRefs(obs[h])
<1>1. /\ attempt[a] = "absent" /\ attempt' = [attempt EXCEPT ![a] = "live"]
      /\ stored' = stored \union Refs[a]
      /\ observed' = obs
      /\ contiguous' = IF error THEN back ELSE Advance(back, obs, now)
      /\ UNCHANGED <<resolved, copy, converting, floor, target>>
  BY DEF Record, copies, keeping
<1>2. alerts' \subseteq Captures \X Kinds
  <2>1. alerts' = alerts \union {k \in {<<a, "identity">>} : identity}
                         \union {k \in {<<a, "neighbor">>} : neighbor}
    BY DEF Record
  <2> QED
    BY <2>1 DEF TypeOK, Kinds
<1>3. \/ error /\ lastRef' = lastRef
      \/ ~error /\ \E previous \in PreviousRefs(h) :
                      lastRef' = TrackExtra(Track(h, obs, refs, previous), Refs[a] \ refs, obs)
  BY DEF Record
<1>4. /\ h \in Heights /\ a # Nobody
      /\ attempt' \in [Captures -> {"absent", "live", "expired"}]
      /\ attempt'[a] = "live" /\ \A x \in Captures : x # a => attempt'[x] = attempt[x]
  BY <1>1, ArchiveAssumption DEF TypeOK
<1>5. /\ obs \in [Heights -> Captures \union {Nobody}]
      /\ \A k \in Heights : observed[k] # Nobody => obs[k] = observed[k]
      /\ \A k \in Heights : observed[k] = Nobody /\ obs[k] # Nobody => k = h /\ obs[k] = a /\ ~error
  <2>1. CASE error \/ observed[h] # Nobody
    <3>1. obs = observed
      BY <2>1
    <3> HIDE DEF obs
    <3> QED
      BY <3>1 DEF TypeOK
  <2>2. CASE ~(error \/ observed[h] # Nobody)
    <3>1. obs = [observed EXCEPT ![h] = a]
      BY <2>2
    <3>2. ~error /\ observed[h] = Nobody
      BY <2>2
    <3> HIDE DEF obs, error, h
    <3> QED
      BY <1>4, <3>1, <3>2 DEF TypeOK
  <2> QED
    BY <2>1, <2>2
<1>6. error \/ observed[h] # Nobody => obs = observed
  OBVIOUS
<1>7. ~error => obs[h] # Nobody
  <2>1. CASE observed[h] = Nobody
    <3>1. ~error => obs = [observed EXCEPT ![h] = a]
      BY <2>1
    <3> HIDE DEF obs, error, h
    <3> QED
      BY <1>4, <3>1 DEF TypeOK
  <2>2. CASE observed[h] # Nobody
    BY <1>4, <1>5, <2>2
  <2> QED
    BY <2>1, <2>2
<1>8. refs = IF obs[h] = a THEN Refs[a] ELSE ManifestRefs(obs[h])
  OBVIOUS
<1> HIDE DEF obs, error, h, now, back, refs
<1>9. \A k \in Recorded(observed) : /\ k \in Heights /\ observed[k] \in Captures
                                    /\ observed[k] # a /\ obs[k] = observed[k]
                                    /\ attempt'[observed[k]] = attempt[observed[k]]
  BY <1>1, <1>4, <1>5 DEF Recorded, TypeOK, ObservedIsRecorded
<1>10. /\ \A k \in Recorded(obs) : k \in Recorded(observed) \/ (k = h /\ obs[k] = a /\ ~error)
       /\ Recorded(observed) \subseteq Recorded(obs)
  BY <1>5 DEF Recorded
<1>11. contiguous' \in -1..Top /\ Sound(contiguous', obs, now)
  <2>1. now \in SUBSET Heights
    BY <1>2, ConflictsAreHeights DEF now
  <2>2. contiguous \in -1..Top
    BY DEF TypeOK
  <2>3. Linked(contiguous, obs)
    <3> SUFFICES ASSUME NEW k \in 0..contiguous
                 PROVE  obs[k] # Nobody /\ (k > 0 => Previous[obs[k]] = Block[obs[k - 1]])
      BY DEF Linked
    <3>1. k \in Heights /\ contiguous \in Int /\ Top \in Nat
      BY <2>2, ArchiveAssumption DEF Heights
    <3>2. observed[k] # Nobody /\ obs[k] = observed[k]
      BY <1>5, <3>1 DEF ContiguousIsSound
    <3>3. ASSUME k > 0 PROVE Previous[obs[k]] = Block[obs[k - 1]]
      <4>1. k - 1 \in 0..contiguous /\ k - 1 \in Heights
        BY <3>1, <3>3 DEF Heights
      <4>2. observed[k - 1] # Nobody
        BY <4>1 DEF ContiguousIsSound
      <4>3. obs[k - 1] = observed[k - 1]
        BY <1>5, <4>1, <4>2
      <4> QED
        BY <3>2, <3>3, <4>3 DEF ContiguousIsSound
    <3> QED
      BY <3>2, <3>3
  <2>4. back \in -1..Top /\ Sound(back, obs, now)
    BY <2>1, <2>2, <2>3, RollBackIsSound DEF back
  <2>5. Advance(back, obs, now) \in -1..Top /\ Sound(Advance(back, obs, now), obs, now)
    BY <2>4, AdvanceIsSound
  <2> QED
    BY <1>1, <2>4, <2>5
<1>12. ContiguousIsSound'
  <2>1. Conflicts' = now
    BY <1>1 DEF Conflicts, now
  <2> QED
    BY <1>1, <1>11, <2>1 DEF ContiguousIsSound, Sound, Linked
<1>13. lastRef' \in [Chunks -> {None} \union Heights] /\ IndexIsLate'
  <2>1. CASE error
    <3>1. lastRef' = lastRef /\ observed' = observed
      BY <1>1, <1>3, <1>6, <2>1
    <3>2. lastRef' \in [Chunks -> {None} \union Heights]
      BY <3>1 DEF TypeOK
    <3>3. \A k \in Recorded(observed) : ManifestRefs(observed[k])' = ManifestRefs(observed[k])
      BY <1>9, <3>1 DEF ManifestRefs
    <3>4. IndexIsLate'
      BY <3>1, <3>3 DEF IndexIsLate
    <3> QED
      BY <3>2, <3>4
  <2>2. CASE ~error
    <3> DEFINE want == [k \in Heights |-> IF obs[k] = a THEN Refs[a] ELSE ManifestRefs(obs[k])]
    <3>1. PICK previous : lastRef' = TrackExtra(Track(h, obs, refs, previous), Refs[a] \ refs, obs)
      BY <1>3, <2>2
    <3>2. h \in Recorded(obs)
      BY <1>4, <1>7, <2>2 DEF Recorded
    <3>3. \A k \in Heights : want[k] = IF obs[k] = a THEN Refs[a] ELSE ManifestRefs(obs[k])
      OBVIOUS
    <3> HIDE DEF want
    <3>4. want[h] \subseteq refs
      BY <1>4, <1>8, <3>3
    <3>5. ASSUME NEW k \in Recorded(observed), NEW c \in Chunks, c \in want[k]
          PROVE  lastRef[c] = None \/ lastRef[c] >= k
      <4>1. c \in ManifestRefs(observed[k])
        BY <1>9, <3>3, <3>5
      <4> QED
        BY <4>1 DEF IndexIsLate
    <3>6. Late(lastRef, want, Recorded(obs) \ {h})
      BY <1>10, <3>5 DEF Late
    <3>7. Recorded(obs) = {h} => Late(lastRef, want, {h})
      <4>1. CASE h \in Recorded(observed)
        BY <3>5, <4>1 DEF Late
      <4>2. CASE h \notin Recorded(observed)
        <5>1. Recorded(obs) = {h} => Recorded(observed) = {}
          BY <1>10, <4>2
        <5> QED
          BY <5>1 DEF IndexIsLate, Late
      <4> QED
        BY <4>1, <4>2
    <3> DEFINE tracked == Track(h, obs, refs, previous)
    <3>8. /\ tracked \in [Chunks -> {None} \union Heights]
          /\ Late(tracked, want, Recorded(obs))
      BY <1>5, <3>2, <3>4, <3>6, <3>7, TrackIsLate
    <3> HIDE DEF tracked
    <3>9. lastRef' = TrackExtra(tracked, Refs[a] \ refs, obs)
      BY <3>1 DEF tracked
    <3>10. Recorded(obs) # {}
      BY <3>2
    <3>11. lastRef' \in [Chunks -> {None} \union Heights] /\ Late(lastRef', want, Recorded(obs))
      BY <1>5, <3>8, <3>9, <3>10, ExtraIsLate
    <3>12. ASSUME NEW k \in Recorded(obs), NEW c \in Chunks,
                  attempt'[obs[k]] # "expired", c \in Refs[obs[k]]
           PROVE  c \in want[k]
      <4>1. k \in Heights
        BY DEF Recorded
      <4>2. CASE k \in Recorded(observed)
        <5>1. c \in ManifestRefs(obs[k])
          BY <1>1, <1>9, <3>12, <4>2 DEF ManifestRefs
        <5> QED
          BY <1>9, <3>3, <4>1, <4>2, <5>1
      <4>3. CASE k = h /\ obs[k] = a
        BY <1>1, <1>4, <3>3, <3>12, <4>1, <4>3 DEF ManifestRefs
      <4> QED
        BY <1>10, <4>2, <4>3
    <3>13. IndexIsLate'
      <4> SUFFICES ASSUME NEW k \in Recorded(obs), NEW c \in Chunks,
                          attempt'[obs[k]] # "expired", c \in Refs[obs[k]]
                   PROVE  lastRef'[c] = None \/ lastRef'[c] >= k
        BY <1>1, <3>10 DEF IndexIsLate, ManifestRefs
      <4>1. c \in want[k]
        BY <3>12
      <4> QED
        BY <3>11, <4>1 DEF Late
    <3> QED
      BY <3>11, <3>13
  <2> QED
    BY <2>1, <2>2
<1>14. TypeOK'
  BY <1>1, <1>2, <1>4, <1>5, <1>11, <1>13 DEF TypeOK
<1>15. ObservedIsRecorded'
  <2> SUFFICES ASSUME NEW k \in Recorded(obs)
               PROVE  Height[obs[k]] = k /\ attempt'[obs[k]] # "absent"
    BY <1>1 DEF ObservedIsRecorded
  <2>1. CASE k \in Recorded(observed)
    BY <1>9, <2>1 DEF ObservedIsRecorded
  <2>2. CASE k = h /\ obs[k] = a
    BY <1>4, <2>2 DEF h
  <2> QED
    BY <1>10, <2>1, <2>2
<1>16. CitedIsKept'
  <2> SUFFICES ASSUME NEW k \in Recorded(obs), Block[obs[k]] \in Cited
               PROVE  copy[k] = "live" \/ (copy[k] = "absent" /\ attempt'[obs[k]] = "live")
    BY <1>1 DEF CitedIsKept
  <2>1. CASE k \in Recorded(observed)
    BY <1>9, <2>1 DEF CitedIsKept
  <2>2. CASE k \notin Recorded(observed)
    <3>1. k = h /\ obs[k] = a
      BY <1>10, <2>2
    <3>2. copy[k] = "absent"
      BY <1>4, <2>2, <3>1 DEF CopiesAreObserved
    <3> QED
      BY <1>4, <3>1, <3>2
  <2> QED
    BY <2>1, <2>2
<1>17. CopiesAreObserved'
  BY <1>1, <1>10 DEF CopiesAreObserved
<1>18. ObservedIsWhole'
  <2> SUFFICES ASSUME NEW k \in Recorded(obs), attempt'[obs[k]] = "live"
               PROVE  Refs[obs[k]] \subseteq stored'
    BY <1>1 DEF ObservedIsWhole
  <2>1. CASE k \in Recorded(observed)
    BY <1>1, <1>9, <2>1 DEF ObservedIsWhole
  <2>2. CASE k = h /\ obs[k] = a
    BY <1>1, <2>2
  <2> QED
    BY <1>10, <2>1, <2>2
<1> QED
  BY <1>12, <1>13, <1>14, <1>15, <1>16, <1>17, <1>18

\* Every step keeps the invariant.
LEMMA ArchiveStep == IInv /\ [Next]_vars => IInv'
<1> SUFFICES ASSUME IInv, [Next]_vars PROVE IInv'
  OBVIOUS
<1>1. ASSUME NEW a \in Captures, Record(a) PROVE IInv'
  BY <1>1, RecordStep
<1>2. ASSUME NEW a \in Captures, ExpireAttempt(a) PROVE IInv'
  BY <1>2, ExpireAttemptStep
<1>3. ASSUME NEW a \in Captures, NEW b \in Captures, Resolve(a, b) PROVE IInv'
  BY <1>3, ResolveStep
<1>4. ASSUME NEW h \in Heights, Credit(h) PROVE IInv'
  BY <1>4, ArchiveSame DEF Credit, evidence, stream, copies, keeping, IInv, TypeOK
<1>5. ASSUME NEW h \in Heights, Prune(h) PROVE IInv'
  BY <1>5, PruneStep
<1>6. CASE ExpireCopies \/ StoreCopy \/ \E h \in Heights : ReadFull(h)
  BY <1>6, CopiesStep
<1>7. CASE Backup \/ Supersede \/ UNCHANGED vars
  BY <1>7, ArchiveSame DEF Backup, Supersede, vars, evidence, stream, copies, keeping, IInv, TypeOK
<1>8. CASE PlanRun \/ StoreFloor \/ CrashRun
  BY <1>8, FloorStep
<1>9. CASE RemoveChunks
  BY <1>9, RemoveChunksStep
<1>10. CASE CollectUnused
  BY <1>10, CollectStep
<1> QED
  BY <1>1, <1>2, <1>3, <1>4, <1>5, <1>6, <1>7, <1>8, <1>9, <1>10 DEF Next

\* The inductive invariant holds in every reachable state.
THEOREM ArchiveInvariant == Spec => []IInv
BY ArchiveInit, ArchiveStep, PTL DEF Spec

-----------------------------------------------------------------------------
(***************************************************************************)
(* What the archive promises.                                              *)
(***************************************************************************)

\* However records, recoveries of older blocks, repeated captures, expiry,
\* pruning and collection of chunks interleave (BlockStore.record, retention.run,
\* compaction.prune, collect_unused_chunks), an observed block whose full capture
\* has not expired still has every chunk of its manifest.
THEOREM WholeCorrect == Spec => []ObservedIsWhole
<1>1. IInv => ObservedIsWhole
  BY DEF IInv
<1> QED
  BY <1>1, ArchiveInvariant, PTL

\* The block that an unsettled reservation was selected from stays readable: no
\* retention run expires its last evidence, and no backfill or pruning loses it.
THEOREM CitedCorrect == Spec => []CitedIsEvident
<1>1. IInv => CitedIsEvident
  <2> SUFFICES ASSUME IInv, NEW h \in Recorded(observed), Block[observed[h]] \in Cited
               PROVE  Evident(h)
    BY DEF CitedIsEvident
  <2>1. /\ observed[h] # Nobody
        /\ copy[h] = "live" \/ (copy[h] = "absent" /\ attempt[observed[h]] = "live")
    BY DEF IInv, CitedIsKept, Recorded
  <2>2. attempt[observed[h]] = "live" => Unpacks(observed[h])
    BY DEF IInv, ObservedIsWhole, Unpacks
  <2> QED
    BY <2>1, <2>2 DEF Evident
<1> QED
  BY <1>1, ArchiveInvariant, PTL

\* Up to the contiguous height every block is observed, linked to the one below
\* and free of conflicts: _advance never passes a gap, and record takes the
\* height back below every new conflict.
THEOREM ContiguousCorrect == Spec => []ContiguousIsSound
<1>1. IInv => ContiguousIsSound
  BY DEF IInv
<1> QED
  BY <1>1, ArchiveInvariant, PTL

-----------------------------------------------------------------------------
(***************************************************************************)
(* What the floor may pass.                                                *)
(***************************************************************************)

\* Of every round under f enough is credited.
Passed(f) ==
    \A n \in 1..(Top \div RoundLength + 1) :
        LastHeight(n) <= f => Cardinality(RoundHeights(n) \ credited) <= MaxMissing

\* It is so under the floor and under the planned one: the plan is made on reads
\* that are old when the floor is written, and what it read only grows.
FloorInv == Passed(floor) /\ Passed(target)

\* Rounds are some of finitely many.
LEMMA RoundNumber ==
    ASSUME NEW n \in 1..(Top \div RoundLength + 1)
    PROVE  n \in Nat \ {0} /\ LastHeight(n) \in Nat
<1>1. Top \in Nat /\ RoundLength \in Nat \ {0}
  BY ArchiveAssumption
<1>2. Top \div RoundLength \in Nat
  BY <1>1, Division
<1>3. n \in Nat \ {0}
  BY <1>2
<1>4. RoundLength * 1 <= RoundLength * n
  BY <1>1, <1>3, Larger
<1>5. n * RoundLength = RoundLength * n /\ n * RoundLength \in Nat
  BY <1>1, <1>3
<1> QED
  BY <1>1, <1>3, <1>4, <1>5 DEF LastHeight

\* A covered round lacks no more than the policy allows.
LEMMA CoverageIsCredit ==
    ASSUME NEW n, RoundCoverage(n)
    PROVE  Cardinality(RoundHeights(n) \ credited) <= MaxMissing
<1> DEFINE rows == RoundHeights(n) \intersect Recorded(observed)
<1> DEFINE lacking == RoundHeights(n) \ rows
<1> DEFINE uncredited == RoundHeights(n) \ credited
<1>1. rows \subseteq credited /\ Cardinality(lacking) <= MaxMissing
  BY DEF RoundCoverage
<1>2. uncredited \subseteq lacking
  BY <1>1
<1>3. lacking \in SUBSET Heights
  BY DEF RoundHeights
<1> HIDE DEF lacking, uncredited
<1>4. IsFiniteSet(lacking)
  BY <1>3, HeightsFinite
<1>5. IsFiniteSet(uncredited) /\ Cardinality(uncredited) <= Cardinality(lacking)
  BY <1>2, <1>4, FS_Subset
<1>6. Cardinality(uncredited) \in Nat /\ Cardinality(lacking) \in Nat /\ MaxMissing \in Nat
  BY <1>4, <1>5, FS_CardinalityType, ArchiveAssumption
<1> QED
  BY <1>1, <1>5, <1>6 DEF uncredited

\* Credit is never taken back.
LEMMA PassedStays ==
    ASSUME NEW f, Passed(f), credited \subseteq credited'
    PROVE  \A n \in 1..(Top \div RoundLength + 1) :
               LastHeight(n) <= f => Cardinality(RoundHeights(n) \ credited') <= MaxMissing
<1> SUFFICES ASSUME NEW n \in 1..(Top \div RoundLength + 1), LastHeight(n) <= f
             PROVE  Cardinality(RoundHeights(n) \ credited') <= MaxMissing
  OBVIOUS
<1> DEFINE was == RoundHeights(n) \ credited
<1> DEFINE is == RoundHeights(n) \ credited'
<1>1. Cardinality(was) <= MaxMissing
  BY DEF Passed
<1>2. is \subseteq was /\ was \in SUBSET Heights
  BY DEF RoundHeights
<1> HIDE DEF was, is
<1>3. IsFiniteSet(was)
  BY <1>2, HeightsFinite
<1>4. IsFiniteSet(is) /\ Cardinality(is) <= Cardinality(was)
  BY <1>2, <1>3, FS_Subset
<1>5. Cardinality(is) \in Nat /\ Cardinality(was) \in Nat /\ MaxMissing \in Nat
  BY <1>3, <1>4, FS_CardinalityType, ArchiveAssumption
<1> QED
  BY <1>1, <1>4, <1>5 DEF is

\* Nothing is under the floor of a new archive, nor under a floor not planned.
LEMMA NothingPassed == Passed(None)
<1> SUFFICES ASSUME NEW n \in 1..(Top \div RoundLength + 1), LastHeight(n) <= None PROVE FALSE
  BY DEF Passed
<1> QED
  BY RoundNumber DEF None

\* A plan passes rounds that were passed, or that are covered now.
LEMMA PlanPasses ==
    ASSUME IInv, Passed(floor), Recorded(observed) # {}, NEW settled
    PROVE  Passed(TargetFloor(settled))
<1> DEFINE first == (floor + 1) \div RoundLength + 1
<1>1. CASE TargetFloor(settled) = floor
  BY <1>1
<1>2. ASSUME NEW m \in Nat \ {0}, TargetFloor(settled) = LastHeight(m),
             \A k \in first..m : Expirable(k, settled)
      PROVE  Passed(TargetFloor(settled))
  <2> SUFFICES ASSUME NEW n \in 1..(Top \div RoundLength + 1), LastHeight(n) <= LastHeight(m)
               PROVE  Cardinality(RoundHeights(n) \ credited) <= MaxMissing
    BY <1>2 DEF Passed
  <2>1. n \in Nat \ {0} /\ RoundLength \in Nat \ {0} /\ floor + 1 \in Nat
    BY RoundNumber, ArchiveAssumption DEF IInv, TypeOK
  <2>2. n <= m
    <3> SUFFICES ASSUME m + 1 <= n PROVE FALSE
      BY <2>1
    <3>1. RoundLength * (m + 1) <= RoundLength * n
      BY <2>1, Larger
    <3>2. n * RoundLength - 1 <= m * RoundLength - 1
      BY DEF LastHeight
    <3>3. RoundLength * (m + 1) = m * RoundLength + RoundLength /\ RoundLength * n = n * RoundLength
      BY <2>1
    <3>4. m * RoundLength \in Nat /\ n * RoundLength \in Nat
      BY <2>1
    <3> QED
      BY <2>1, <3>1, <3>2, <3>3, <3>4
  <2>3. /\ (floor + 1) \div RoundLength \in Nat
        /\ (floor + 1) % RoundLength \in 0..(RoundLength - 1)
        /\ floor + 1 = RoundLength * ((floor + 1) \div RoundLength) + ((floor + 1) % RoundLength)
    BY <2>1, Division
  <2>4. CASE n >= first
    <3>1. n \in first..m
      BY <2>1, <2>2, <2>3, <2>4
    <3>2. RoundCoverage(n)
      BY <1>2, <3>1 DEF Expirable
    <3> QED
      BY <3>2, CoverageIsCredit
  <2>5. CASE n < first
    <3> DEFINE q == (floor + 1) \div RoundLength
    <3>1. n <= q /\ q \in Nat
      BY <2>1, <2>3, <2>5
    <3>2. /\ (floor + 1) % RoundLength \in Nat /\ floor \in Int
          /\ floor + 1 = RoundLength * q + ((floor + 1) % RoundLength)
      BY <2>1, <2>3 DEF IInv, TypeOK
    <3> DEFINE r == (floor + 1) % RoundLength
    <3> HIDE DEF q, r
    <3>3. RoundLength * n <= RoundLength * q
      BY <2>1, <3>1, Larger
    <3>4. RoundLength * n \in Nat /\ RoundLength * q \in Nat /\ n * RoundLength = RoundLength * n
      BY <2>1, <3>1
    <3>5. r \in Nat /\ floor + 1 = RoundLength * q + r
      BY <3>2 DEF q, r
    <3>6. LastHeight(n) <= floor
      BY <3>2, <3>3, <3>4, <3>5 DEF LastHeight
    <3> QED
      BY <3>6 DEF Passed
  <2> QED
    BY <2>1, <2>3, <2>4, <2>5
<1> QED
  BY <1>1, <1>2, TargetIs

\* Every step keeps what the floor may pass.
LEMMA FloorInvStep == IInv /\ FloorInv /\ [Next]_vars => FloorInv'
<1> SUFFICES ASSUME IInv, FloorInv, [Next]_vars PROVE FloorInv'
  OBVIOUS
<1>1. credited \subseteq credited'
  BY DEF Next, Record, ExpireAttempt, Resolve, Credit, ReadFull, Prune, StoreCopy, Backup, Supersede,
         PlanRun, StoreFloor, RemoveChunks, ExpireCopies, CrashRun, CollectUnused, vars
<1>2. /\ floor' = floor \/ floor' = target
      /\ \/ target' = target \/ target' = None
         \/ Recorded(observed) # {} /\ \E settled : target' = TargetFloor(settled)
  <2>1. CASE PlanRun
    BY <2>1 DEF PlanRun
  <2>2. CASE StoreFloor \/ CrashRun
    BY <2>2 DEF StoreFloor, CrashRun
  <2>3. CASE Backup \/ Supersede \/ RemoveChunks \/ ExpireCopies
    BY <2>3 DEF Backup, Supersede, RemoveChunks, ExpireCopies
  <2>4. CASE UNCHANGED keeping
    BY <2>4 DEF keeping
  <2>5. CASE StoreCopy \/ CollectUnused \/ UNCHANGED vars
    BY <2>4, <2>5 DEF StoreCopy, CollectUnused, vars
  <2>6. ASSUME NEW a \in Captures, Record(a) \/ ExpireAttempt(a) PROVE UNCHANGED keeping
    BY <2>6 DEF Record, ExpireAttempt
  <2>7. ASSUME NEW a \in Captures, NEW b \in Captures, Resolve(a, b) PROVE UNCHANGED keeping
    BY <2>7 DEF Resolve
  <2>8. ASSUME NEW h \in Heights, Credit(h) \/ ReadFull(h) \/ Prune(h) PROVE UNCHANGED keeping
    BY <2>8 DEF Credit, ReadFull, Prune
  <2> QED
    BY <2>1, <2>2, <2>3, <2>4, <2>5, <2>6, <2>7, <2>8 DEF Next
<1>3. Passed(floor) /\ Passed(target) /\ Passed(None)
  BY NothingPassed DEF FloorInv
<1>4. Passed(floor') /\ Passed(target')
  BY <1>2, <1>3, PlanPasses
<1>5. ASSUME NEW f, Passed(f)
      PROVE  \A n \in 1..(Top \div RoundLength + 1) :
                 LastHeight(n) <= f => Cardinality(RoundHeights(n) \ credited') <= MaxMissing
  BY <1>1, <1>5, PassedStays
<1> QED
  BY <1>4, <1>5 DEF FloorInv, Passed

\* No round is passed by the retention floor before its blocks are credited, save
\* as many as the policy lets be missing (retention.plan, round_coverage): a block
\* recorded late, a conflict or a crash between the plan of a floor and its writing
\* takes nothing from the credit that was read.
THEOREM FloorCorrect == Spec => []FloorIsCredited
<1>1. Init => FloorInv
  BY NothingPassed DEF Init, FloorInv, None
<1>2. FloorInv => FloorIsCredited
  BY DEF FloorInv, Passed, FloorIsCredited
<1>3. Spec => []FloorInv
  BY <1>1, ArchiveInvariant, FloorInvStep, PTL DEF Spec
<1> QED
  BY <1>2, <1>3, PTL
=============================================================================
