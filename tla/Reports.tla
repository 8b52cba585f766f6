------------------------------- MODULE Reports -------------------------------
(***************************************************************************)
(* Reports against the pool's benchmarks: what TIG confirms, the collector *)
(* of final answers (report_observer.py, observe_reports_v2.py), the       *)
(* immutable facts, scopes and seals of reports.py, the collateral decided *)
(* by a seal, and the expiry of report captures (retention.py).            *)
(*                                                                         *)
(* The benchmarks of one creation round; each may be reported once, and    *)
(* an arbitration upholds the report.  An answer is as old as the caches   *)
(* between the pool and TIG, and may leave out a report.  Anchors are      *)
(* blocks of Archive: recorded late, in any order, at times disputed.      *)
(***************************************************************************)
EXTENDS Integers, Sequences, FiniteSetsExt

CONSTANTS
    Benchmarks,   \* the pool's benchmarks of one creation round
    Creation,     \* that round
    Reporting,    \* the reporting round of each benchmark
    Period,       \* report_submission_period
    RoundLength,  \* blocks per round
    First, Top,   \* bounds: the heights that the model runs through
    Age,          \* how many blocks an answer may be behind
    CapRounds,    \* policy report_rounds
    MarginRounds, \* policy settled_margin_rounds
    Rounds,       \* bound: the reporting rounds that are asked for and scoped
    Disputable,   \* bound: the blocks that may be disputed
    MaxFaults     \* bound on failed or incomplete answers and restarts

ASSUME ReportsAssumption ==
    /\ {Creation, Period, First, Top, Age, CapRounds, MarginRounds, MaxFaults} \subseteq Nat
    /\ RoundLength \in Nat \ {0}
    /\ Reporting \in [Benchmarks -> Nat] /\ Rounds \subseteq Nat

Heights     == First..Top
RoundOf(h)  == h \div RoundLength + 1
Never       == -1
Nothing     == [shows |-> {}, failed |-> FALSE, deadline |-> Never]

VARIABLES
    height,    \* TIG's newest block
    reportAt,  \* of each benchmark: the block that confirmed its report
    decidedAt, \* and the one that confirmed the arbitration
    archived,  \* observed_blocks
    dispute,   \* of each block: "none", "open" or "closed"
    spool,     \* captures saved and not yet recorded
    saved,     \* saved_inputs of the running collector
    faults,
    omitted,   \* benchmarks whose report an answer left out
    rows,      \* report_captures, in the order of created_at
    mapped,    \* benchmarks in benchmark_reporting_rounds
    cite,      \* the row that confirmed the report of each benchmark, 0 if none
    scope,     \* round_report_scopes, {} if not yet frozen
    seal,      \* the latest of round_report_seals
    sealed,    \* the rows of all seals
    outcome,   \* collateral_finalizations
    floor,     \* retention_floors.reporting_round
    expiry     \* the running expiry of report captures

tig       == <<height, reportAt, decidedAt>>
archive   == <<archived, dispute>>
collector == <<spool, saved, faults, omitted>>
facts     == <<rows, mapped, cite>>
seals     == <<scope, seal, sealed, outcome>>
retention == <<floor, expiry>>
vars      == <<tig, archive, collector, facts, seals, retention>>

Known        == {b \in Benchmarks : cite[b] > 0}
Undisputed(h) == dispute[h] # "open"

Init ==
    /\ height = First
    /\ reportAt = [b \in Benchmarks |-> Never] /\ decidedAt = reportAt
    /\ archived = {First} /\ dispute = [h \in Heights |-> "none"]
    /\ spool = {} /\ saved = [n \in Rounds |-> Nothing] /\ faults = 0 /\ omitted = {}
    /\ rows = <<>> /\ mapped = {} /\ cite = [b \in Benchmarks |-> 0]
    /\ scope = {} /\ seal = [rows |-> {}, shows |-> {}, block |-> Never] /\ sealed = {}
    /\ outcome = [b \in Benchmarks |-> "none"]
    /\ floor = 0 /\ expiry = [at |-> "idle", keep |-> {}, covered |-> 0]

-----------------------------------------------------------------------------
(***************************************************************************)
(* TIG: a block confirms reports, while the window of their round is open, *)
(* and arbitrations.                                                       *)
(***************************************************************************)

Reportable(h) == {b \in Benchmarks : reportAt[b] = Never /\ RoundOf(h) - Reporting[b] \in 0..Period}
Undecided     == {b \in Benchmarks : reportAt[b] # Never /\ decidedAt[b] = Never}

Advance(reports, decisions) ==
    /\ height < Top
    /\ height' = height + 1
    /\ reports \subseteq Reportable(height + 1) /\ decisions \subseteq Undecided
    /\ reportAt' = [b \in Benchmarks |-> IF b \in reports THEN height + 1 ELSE reportAt[b]]
    /\ decidedAt' = [b \in Benchmarks |-> IF b \in decisions THEN height + 1 ELSE decidedAt[b]]
    /\ UNCHANGED <<archive, collector, facts, seals, retention>>

\* The block archive: a block is observed at some time, disputed, and resolved.
ArchiveBlock(h) ==
    /\ h <= height /\ h \notin archived
    /\ archived' = archived \union {h}
    /\ UNCHANGED <<tig, dispute, collector, facts, seals, retention>>

DisputeBlock(h) ==
    /\ \/ h \in archived /\ dispute[h] = "none" /\ dispute' = [dispute EXCEPT ![h] = "open"]
       \/ dispute[h] = "open" /\ dispute' = [dispute EXCEPT ![h] = "closed"]
    /\ UNCHANGED <<tig, archived, collector, facts, seals, retention>>

-----------------------------------------------------------------------------
(***************************************************************************)
(* The collector.                                                          *)
(***************************************************************************)

\* The first round in which the reports of n are final for this creation round.
Deadline_open(n) == Creation + 3
Deadline(n) == Max({Creation + 3, n + Period + 1})

\* needed_queries: scoped rounds, or those that an open benchmark may report into.
Wanted ==
    scope \union
    (IF scope # {} THEN {}
     ELSE UNION {IF b \in mapped THEN {Reporting[b]} ELSE {Creation, Creation + 1} :
                 b \in {k \in Benchmarks : outcome[k] = "none"}})

Final(n, row) == row.of = n /\ row.complete /\ ~row.expired /\ RoundOf(row.at) >= Deadline(n)
Captured(n)   == \E i \in DOMAIN rows : Final(n, rows[i])
Boundary(n)   == {h \in archived : RoundOf(h) >= Deadline(n)}
Needed(n)     ==
    /\ n \in Wanted \intersect Rounds /\ ~Captured(n)
    /\ RoundOf(height) >= Deadline(n) /\ Boundary(n) # {}

Shown(n, view) == {b \in Benchmarks : Reporting[b] = n /\ reportAt[b] \in First..view}
Pending(n, view) == {b \in Shown(n, view) : decidedAt[b] \notin First..view}

\* The content of an accepted answer is not older than the first block that was
\* archived of the final round: the age of the response and the grace for the
\* cache behind it.
Fresh_cached(n, view) == TRUE
Fresh(n, view) == view >= Min(Boundary(n))

\* The signature by which observe_reports_v2 saves a repeated answer once.
Signature_silent(n, shows, failed) == [shows |-> shows, failed |-> FALSE, deadline |-> Never]
Signature(n, shows, failed) ==
    [shows |-> shows, failed |-> failed, deadline |-> IF failed THEN Never ELSE Deadline(n)]

Save(n, shows, failed) ==
    LET signature == Signature(n, shows, failed)
    IN  /\ saved' = [saved EXCEPT ![n] = signature]
        /\ spool' = IF saved[n] = signature THEN spool
                    ELSE spool \union {[of |-> n, at |-> height, shows |-> shows, failed |-> failed]}

\* A final answer, with the reports that it leaves out.
Fetch(n, view, without) ==
    /\ Needed(n) /\ Pending(n, view) = {} /\ Fresh(n, view)
    /\ without = {} \/ faults < MaxFaults
    /\ Save(n, Shown(n, view) \ without, FALSE)
    /\ faults' = IF without = {} THEN faults ELSE faults + 1
    /\ omitted' = omitted \union without
    /\ UNCHANGED <<tig, archive, facts, seals, retention>>

\* A broken request, a block boundary crossed, an answer too old, an arbitration
\* still pending.
FetchFails(n) ==
    /\ Needed(n) /\ faults < MaxFaults
    /\ Save(n, {}, TRUE)
    /\ faults' = faults + 1
    /\ UNCHANGED <<tig, archive, omitted, facts, seals, retention>>

Restart ==
    /\ faults < MaxFaults
    /\ saved' = [n \in Rounds |-> Nothing] /\ faults' = faults + 1
    /\ UNCHANGED <<tig, archive, spool, omitted, facts, seals, retention>>

-----------------------------------------------------------------------------
(***************************************************************************)
(* The store: reports.record, under reports-store.                         *)
(***************************************************************************)

KnownBy(n, at) == {b \in Known : Reporting[b] = n /\ reportAt[b] <= at}

Record(c) ==
    LET complete == ~c.failed /\ KnownBy(c.of, c.at) \subseteq c.shows
    IN  /\ c \in spool /\ c.at \in archived /\ Undisputed(c.at)
        /\ spool' = spool \ {c}
        /\ rows' = Append(rows, [of |-> c.of, at |-> c.at, shows |-> c.shows,
                                 complete |-> complete, expired |-> FALSE])
        /\ cite' = [b \in Benchmarks |->
                       IF complete /\ b \in c.shows /\ cite[b] = 0 THEN Len(rows) + 1 ELSE cite[b]]
        /\ UNCHANGED <<tig, archive, saved, faults, omitted, mapped, seals, retention>>

\* record_index, record_confirmation_round.
Map(b) ==
    /\ b \notin mapped /\ \E h \in archived : Undisputed(h)
    /\ mapped' = mapped \union {b}
    /\ UNCHANGED <<tig, archive, collector, rows, cite, seals, retention>>

-----------------------------------------------------------------------------
(***************************************************************************)
(* Scope, seal and the collateral decided by it.                           *)
(***************************************************************************)

CheckScope(R) == \A b \in mapped \union Known : Reporting[b] \in R

SetScope(R) ==
    /\ scope = {} /\ R # {} /\ CheckScope(R)
    /\ scope' = R
    /\ UNCHANGED <<tig, archive, collector, facts, seal, sealed, outcome, retention>>

RowsOf(n) == {i \in DOMAIN rows : rows[i].of = n}
Newest(n) == {i \in RowsOf(n) : \A k \in RowsOf(n) : rows[k].at <= rows[i].at}
Latest(n) == Max(Newest(n))

\* A row that knows of nothing learned since.
CoversKnown_unchecked(i) == TRUE
CoversKnown(i) == KnownBy(rows[i].of, rows[i].at) \subseteq rows[i].shows

IsFinal(i) ==
    /\ Undisputed(rows[i].at) /\ rows[i].complete /\ ~rows[i].expired
    /\ RoundOf(rows[i].at) >= Deadline(rows[i].of)
    /\ CoversKnown(i)

Seal(block) ==
    /\ block \in archived /\ Undisputed(block) /\ RoundOf(block) >= Creation + 3
    /\ scope # {} /\ CheckScope(scope)
    /\ \A n \in scope : RowsOf(n) # {} /\ IsFinal(Latest(n))
    /\ LET latest == {Latest(n) : n \in scope}
       IN  /\ latest # seal.rows
           /\ seal' = [rows |-> latest, shows |-> UNION {rows[i].shows : i \in latest},
                       block |-> block]
           /\ sealed' = sealed \union latest
    /\ UNCHANGED <<tig, archive, collector, facts, scope, outcome, retention>>

\* require_seal.
Usable ==
    /\ seal.rows # {} /\ CheckScope(scope) /\ Undisputed(seal.block)
    /\ \A i \in seal.rows : i = Latest(rows[i].of) /\ IsFinal(i)

\* finalize_collateral of an active benchmark.
Finalize(b) ==
    /\ outcome[b] = "none" /\ Usable
    /\ outcome' = [outcome EXCEPT ![b] = IF b \in seal.shows THEN "forfeited" ELSE "returned"]
    /\ UNCHANGED <<tig, archive, collector, facts, scope, seal, sealed, retention>>

-----------------------------------------------------------------------------
(***************************************************************************)
(* Expiry: a floor and a keep set, then batches.                           *)
(***************************************************************************)

CurrentRound == RoundOf(Max(archived))

Expirable(n) ==
    \/ n <= CurrentRound - CapRounds
    \/ /\ CurrentRound >= n + MarginRounds
       /\ n >= Creation => \A b \in Benchmarks : outcome[b] # "none"

TargetFloor ==
    Max({floor} \union
        {n \in (floor + 1)..(CurrentRound - 1) : \A k \in (floor + 1)..n : Expirable(k)})

\* Cited by a fact or a seal, and the one created last of each round.
Kept == {cite[b] : b \in Known} \union sealed \union
        {Max(RowsOf(n)) : n \in {k \in Rounds : RowsOf(k) # {}}}

\* A run with nothing under its floor changes nothing.
PlanExpiry ==
    /\ expiry.at = "idle"
    /\ \E i \in DOMAIN rows : rows[i].of <= TargetFloor /\ ~rows[i].expired
    /\ floor' = TargetFloor
    /\ expiry' = [at |-> "floor", keep |-> {}, covered |-> Len(rows)]
    /\ UNCHANGED <<tig, archive, collector, facts, seals>>

ReadKept ==
    /\ expiry.at = "floor"
    /\ expiry' = [expiry EXCEPT !.at = "expiring", !.keep = Kept]
    /\ UNCHANGED <<tig, archive, collector, facts, seals, floor>>

\* What the backup covers.
Covered_newest(i) == TRUE
Covered(i) == i <= expiry.covered

ExpireRow(i) ==
    /\ expiry.at = "expiring" /\ ~rows[i].expired
    /\ rows[i].of <= floor /\ Covered(i) /\ i \notin expiry.keep
    /\ rows' = [rows EXCEPT ![i].expired = TRUE, ![i].shows = {}]
    /\ UNCHANGED <<tig, archive, collector, mapped, cite, seals, retention>>

FinishExpiry ==
    /\ expiry.at = "expiring"
    /\ expiry' = [at |-> "idle", keep |-> {}, covered |-> 0]
    /\ UNCHANGED <<tig, archive, collector, facts, seals, floor>>

-----------------------------------------------------------------------------
Next ==
    \/ \E reports, decisions \in SUBSET Benchmarks : Advance(reports, decisions)
    \/ Restart \/ PlanExpiry \/ ReadKept \/ FinishExpiry
    \/ \E b \in Benchmarks : Map(b) \/ Finalize(b)
    \/ \E h \in Heights : ArchiveBlock(h) \/ Seal(h)
    \/ \E h \in Disputable : DisputeBlock(h)
    \/ \E n \in Rounds : FetchFails(n)
    \/ \E n \in Rounds, view \in (height - Age)..height :
          \E without \in SUBSET Shown(n, view) : Fetch(n, view, without)
    \/ \E c \in spool : Record(c)
    \/ \E R \in SUBSET Rounds : SetScope(R)
    \/ \E i \in DOMAIN rows : ExpireRow(i)

\* The collector keeps polling, TIG answers, and the drainer tries every file.
Fairness ==
    /\ \A n \in Rounds :
          WF_vars(\E view \in (height - Age)..height : Fetch(n, view, {}))
    /\ WF_vars(\E c \in spool : Record(c))

Spec == Init /\ [][Next]_vars /\ Fairness

-----------------------------------------------------------------------------
(***************************************************************************)
(* Properties.                                                             *)
(***************************************************************************)

\* No collateral is returned that an upheld report should have forfeited: a seal
\* holds every report that TIG ever confirms for the scoped rounds, whatever was
\* cached, late or failed, unless an answer of TIG left the report out.
ReturnedIsUnreported ==
    \A b \in Benchmarks :
        outcome[b] = "returned" /\ Reporting[b] \in scope /\ b \notin omitted => reportAt[b] = Never

\* Nor one that the pool knows to be reported: evidence recorded late, after the
\* seal, counts for what has not been decided by it.
KnownIsCounted ==
    [][\A b \in Benchmarks : outcome'[b] = "returned" /\ outcome[b] = "none" => b \notin Known]_vars

\* The payload behind a confirmed report stays, although the expiry reads what is
\* cited before its batches and facts are recorded between them.
FactsAreReadable == \A b \in Known : ~rows[cite[b]].expired

\* docs/EVIDENCE_RETENTION.md: "The most recent capture per key is also kept so
\* sealing and status checks keep working": the capture that a seal would need.
LatestIsKept == \A n \in Rounds : RowsOf(n) # {} => ~rows[Latest(n)].expired

\* The final answer of a scoped round is recorded, through failed requests,
\* repeated answers and restarts, once the pending captures have their anchors.
ScopedIsCaptured ==
    \A n \in Rounds :
        <>[](/\ n \in scope /\ RoundOf(height) >= Deadline(n) /\ Boundary(n) # {}
             /\ Pending(n, height) = {}
             /\ \A c \in spool : c.at \in archived /\ Undisputed(c.at))
        => <>Captured(n)
=============================================================================
