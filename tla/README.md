# tig-pool-v2: a verification development

TLA+ models of the pool's backend (`src/pool_manager/pool_v2`), the TLC runs
that check them, and TLAPS proofs about the reservations, the submission protocol,
the replay of blocks, the settlement, the custody wallet, the block archive, the
reports and the evidence spool. The pool lets members reserve
collateral, has TIG benchmarks run for them, settles the rewards of a round, and
pays withdrawals from one custody wallet. Its hard part is not one algorithm:
it is that money, rows, TIG and a blockchain must agree although the processes
between them stop, retry, and learn everything late.

All state is in PostgreSQL. A handler is one transaction (sometimes two or
three), and takes its row and advisory locks before it reads, so a transaction is
one action here. A transaction that raises rolls back; a repeated call with a
known key returns the stored row. Both are steps not taken.

## 1. Inventory

| Part (source) | State | Operations | Talks to | Hard | Correct when |
|---|---|---|---|---|---|
| Reservations and collateral (`benchmarks.py`, `finalize_collateral`, `controls.py`) | `reservations` row, hold, slot, fee commitment | reserve, mark_submitting, accept, release_unstarted, release_unhanded, acknowledge, record_outcome, finalize | ledger, members, submissions, reports | long legal sequences, multiplier changes in between, operator against member | one disposition, whole, justified; two slots; one owner |
| Submission protocol (`submissions.py`, `coordinator.py`, `work_requests.py`) | `protocol_outbox`, `precommit_receipts`, worker memory | reserve_next, preflight, begin, POST, record_response, cancel_unsent, recover_precommit, definitive_rejection, publish_assignment | TIG, reservations | crash around a POST, lost answers, look-alike benchmarks, duplicate coordinator | nothing is sent twice; a reservation gets its own benchmark; what cannot be sent any more is cancelled |
| Reconciliation and uploads (`reconciliation.py`, `member_protocol.py`) | payload and progress rows, `reconciled_blocks` | reconcile_block, the two expiries, acknowledge, results, proofs | block archive, reservations | stale and replayed snapshots, expiry racing a POST | outcomes are TIG's; what is over becomes free |
| Block observation (`block_observer.py`, `observation.py`, `protocol.py`, `ordering_conflicts.py`, `boundary_conflicts.py`) | `observed_blocks`, stream height, alerts, chunk index, gap policy | record, contiguous advance and rollback, waive_prelaunch_gap, set_gap_policy, resolve | TIG, settlement, retention | out-of-order and conflicting evidence, an index kept incrementally | contiguous height has no hole, one block per height, every observed block readable |
| Reports (`reports.py`, `report_observer.py`, `observe_reports_v2.py`) | scopes, captures, seals, known facts, the collector's memory | needed_queries, capture, scope, record, seal, require_seal | TIG, settlement, retention | cached, failing and repeated answers, late captures | no collateral is returned that a report should have forfeited |
| Round settlement (`settlement.py`, `qualifiers.py`, `deposits.py`, `money.py`) | earnings, receipts, pot, settlement rows | credit_block, declare_earnings, attribute, reimburse, preview, allocate | observation, reports, ledger | reads before locks, concurrent callers, rounding | settled once, complete, money conserved |
| Withdrawals and custody sends (`withdrawals.py`, `custody.py`, `topups.py`, `sponsored_withdrawals.py`, `chain.py`) | `withdrawals`, attempts, `custody_sends`, `custody_payments` | request, approve, release, begin, reconcile, top-up, credit | operator's wallet, chain | a signed transaction lives for ever, nonce reuse, late reconciliation | paid once or closed unpaid |
| Custody observation and funding (`chain_observer.py`, `funding.py`, `native_funding.py`, `starter_credit.py`) | stream cursor, checks, one-time receipts | record, status, one-time credits | chain, ledger | nested transactions, late captures | a healthy check means that books and chain agree |
| Ledger (`ledger.py`) | journals, accounts | post, reverse, backing | everybody | concurrent postings | zero-sum, no negative pool account |
| Members and sessions (`members.py`, `auth.py`) | multiplier, challenges, tokens | set_multiplier, register, challenge, verify, revoke | API | one-use challenges, wallet change | a challenge is used once |
| Spending caps and pilot (`spending.py`, `pilot.py`) | caps, pilot configuration and phase | check_fee, check_gas, check, extend | reservations, sends | rolling windows | committed ceilings stay within the cap |
| Evidence storage (`spool.py`, `retention.py`, `compaction.py`, `compact.py`, `mainnet_pending_evidence_v2.py`) | chunk files, pins, archives, floors, compact copies, snapshots | save, record, prune, collect, compact, expire, export, restore | all observers, backups | collection beside capture, crash between steps, failover | evidence that is needed is never deleted or lost |
| API and website (`api.py`, `service.py`, `dashboard.py`, `frontend.py`) | none | dispatch, render | handlers above | none | – |
| Selection, references, artifacts, releases (`selection.py`, `references.py`, `artifacts.py`, `releases.py`) | reference captures | choose parameters from a snapshot | coordinator | none | – |
| Launch and transport (`prelaunch.py`, `tig_transport.py`, `reward_locker.py`, `database.py`) | none | HTTP, contract reads, transactions | TIG, chain, PostgreSQL | lost answers (modelled where they are used) | – |
| Tools (`src/tools`) | none but the files above | loops and commands | handlers above | loops that must go on after an error | – |

Processes: an API server, a coordinator (perhaps a duplicate), observers of TIG,
of reports and of the chain with their spools, retention and exports beside
them, operators with command-line tools, members. They share the database, and
on one host the spool directories. Lock orders, each kept by its callers:

- reserve: budget, member, accounts; reserve_next first the observation stream.
- withdrawals.begin: custody, member or operator-withdrawals, spending cap,
  accounts; top-ups: custody, budget, spending cap, accounts.
- deposits.receive: custody, transfer, accounts, member;
  chain_observer.record: chain stream, then receive in transactions of its own.
- settle: reports, round, observation stream, pot, members, accounts;
  finalize_collateral: reports, round, observation stream, member, reservation,
  accounts.

The hazards of the code, each at the line where it bites and with the properties
that watch it, are listed in `PROJECT.json`.

## 2. Modules

| Module | Models | State ↔ code |
|---|---|---|
| `Collateral` | abstract: what is promised about collateral | free balance, escrow, forfeits |
| `Benchmarks` | reservations, collateral, slots, fees | `state`, `slotHeld`, `outcome`, `amount`, `feeActual`, `benchmark`, `handed` are the columns; `held`, `committed`, `operatorFees`, `protocolSpent`, `pot`, `available` are ledger accounts |
| `Submissions` | outbox, workers, TIG, archived blocks, reconciliation, uploads; composes `Benchmarks` | `outbox`, `receipt`, `seen`, `late`, `sampled` are rows; `worker` is process memory; `wire`, `posted`, `tig`, `elapsed` are the world |
| `Settlement` | one reward round | `recorded`, `credited`, `conflicting`, `revision` of the observation; `transfer`, `earnings`, `reimbursed`, `settlement` rows; `call` is what a caller of `_settle` has read |
| `Payouts` | abstract: what is promised about payouts | open, paid once, closed |
| `Custody` | withdrawals, top-ups, nonces, chain, observer | `send` is `custody_sends`, `payment` is `custody_payments`, `state` the two request tables; `mined`, `chain`, `arrived` are the world; `preflight` is caller memory |
| `Replay` | `Coordinator.step`: newest block, then a page of `dispatch_one`, then the queue of `reconcile_pending`; rows and intents in order | `confirmed`, `credited`, `reconciled`, `queue`, `intents` are tables; `cycle` is process memory; `lacking` is what members have not supplied |
| `Archive` | `BlockStore.record`, conflicts, chunk index, retention, compaction | `attempt`, `observed`, `alerts`, `resolved`, `stored`, `lastRef`, `copy`, `floor` are tables, `seen` and `contiguous` the stream row; `run`, `target`, `converting` are process memory; `backup` is what the latest verified backup has |
| `Spool` | a collector's spool directory, its collection, snapshots of it and a failover | `chunks`, `archive`, `pins`, `marker`, `journal` are files; `writer`, `recorder`, `gc`, `export` are processes; `db` is the log of commits and `flushed` how far the recovery host has it |
| `Reports` | report collector, facts, scopes, seals, finalization by them, expiry of captures | `rows`, `cite`, `mapped`, `scope`, `seal`, `outcome`, `floor` are tables; `saved` is the collector's memory, `spool` its files, `expiry` a retention run; `height`, `reportAt`, `decidedAt` are TIG |
| `MC…` | instances for TLC | |
| `Sums` | lemmas: finite sums, greatest and least numbers, integer division | |
| `…Proofs` | theorems about `Benchmarks`, `Submissions` (and `Replay`), `Settlement`, `Custody`, `Archive`, `Reports`, `Spool` | |

`Submissions` takes the actions of `Benchmarks` by `INSTANCE` and conjoins them
with the outbox change the code makes in the same transaction. `Benchmarks`
implements `Collateral` and `Custody` implements `Payouts`: in both cases the
detailed state maps to the abstract one and the abstract specification is a
property. `Replay` says in which order and whether at all the steps of
`Submissions` reach a row, `Reports` what a seal contains that `Benchmarks` and
`Settlement` leave open, and `Archive` what is there for all of them to read: each
of them keeps of its neighbours only what it depends on. In the modules an operator with a suffix (`Covers_open`,
`NonceFree_unchecked`) that stands before an operator of that name is a bug that
the property must notice: it says what each property is sensitive to, and no
specification uses it.

What is deliberately coarse:

- A reservation is its (member, request key); a TIG benchmark created by a POST
  is identified with the reservation it was posted for, so that `OwnBenchmark`
  can say which one a recovery may take. Look-alikes are a `MatchKey`. Others may
  post for the pool's player too (`Foreign`, `ForeignPost`): at any time, with the
  same block and settings, and with results of their own. A preflight contains
  any part of what TIG has (`Preflight`): the feed of one head says nothing of what
  was posted just before, by the pool or by others.
- TIG confirms stages in order and may omit a record from a block
  (`Shown`). In `Submissions` archived blocks are never removed and are replayed
  in any order, their rows one at a time; the order, the rows that raise and the
  blocks that are held are in `Replay`, expiry of blocks in `Archive`.
- Hidden parameters (fee evidence, Merkle proofs, archive checks, ages, caps)
  only refuse a call.
- Credits are integers over one denominator (the code uses exact fractions).
- In `Settlement` conflicts of blocks after the round, which only refuse, and the
  content of sealed reports are left out.
- In `Custody` a height is a change of the wallet; token transfers are signed
  only as the instructions of a send fix them; any nonce that is not executed
  may be the pending one, because whatever was signed may be replaced.
  Unattributed deposits stay so: attribution moves money inside the books and is
  in `Settlement`.
- In `Replay` a row is confirmed or raises for want of what the pool lacks. What
  reconcile_block does otherwise to it is in `Submissions`. An exception that is
  neither a conflict nor bad data ends the cycle without a mark in the queue
  (`Interrupt`). An intent is unsent or not: what begin and a POST make of it is in
  `Submissions`, where `CancelUnsent` may happen at any time while the intent is
  unsent, because a pause and a new TIG block may come at any time. In `Replay` it
  must happen when `dispatch_one` gets to an expired precommit.
- In `Archive` a capture is its height, its block, its link, a digest and its
  chunks; a time is only compared with the start of a verified backup, so a
  backup is the set of rows it has. Which rounds are settled is left open. The
  coverage of all rounds a retention run plans for is read in one step, and the floor
  written in a later one. The one-time waiver of a prelaunch gap and the first build
  of the chunk index are left out.
- In `Spool` file times, floors and backups, which only restrict what is pruned,
  are left open, so every archive that is recorded may be pruned at any time.
- In `Reports` a benchmark is reported at most once, and the arbitration upholds
  the report; an answer is as old as the caches allow and may leave a report out
  (then `omitted` remembers it, and the promise is not made for that benchmark).

## 3. Runs

| Run | Asks | Instance |
|---|---|---|
| `Benchmarks` | types, lifecycle, slots, responsibility, where every unit is, final records, refinement of `Collateral` | 2 requests of one member with one slot beside another member, 2 rounds, one benchmark, multipliers 0, ½, 1, too little money and fees |
| `SubmissionsWork` | outcomes are TIG's, one POST per intent, what TIG works on stays within the slots, liveness | 2 reservations of a member with one slot, one of them taken over by the member, 1 worker that stops anywhere, 3 archived blocks |
| `SubmissionsFence` | which benchmark a lost response can give a reservation: its own, or one that looks alike after a foreign one was taken | 2 look-alikes, a foreign one that is posted, and listed or not, at any time, 2 workers, 2 blocks; no lifetime or offer ends and there is no pause (`Focus`) |
| `Settlement` | conservation, pot, fair shares, one settlement, a reviewed settlement pays complete credit | 2 callers, 2 heights, one missing and recovered, policy tightened, a transfer, a cost, a hold |
| `CustodyPayments` | one payment or none, cooldown, refinement of `Payouts` | 2 withdrawals of a member, 2 callers with preflights, 3 nonces, every outcome, no observer (it only refuses sends) |
| `CustodyBooks` | books agree with the chain, health, begins on reconciled books | operator withdrawal against top-up, 2 nonces, a deposit, a gas transfer, fees above the limit, with and without the observer |
| `Replay` | a block that is done was applied whole; nothing waits for ever behind a held block or a row that raises; no precommit stays queued after its offer expired | 3 blocks, 2 rows, each row in 2 of them, one dispute, missing results, one interrupted cycle; an upload and 2 precommits, pages of one intent |
| `Archive` | observed blocks keep their chunks, cited blocks stay readable, the contiguous height is sound, no round passes the floor uncredited | 4 heights in rounds of 2, 7 captures: full, compact, failed, with another digest, without link; shared chunk, one missing block tolerated |
| `Spool` | archives keep their chunks, snapshots are complete, what was saved is recorded | 2 captures that share a chunk, 2 crashes of the collector, any of the collection, one failover |
| `Reports` | no reported collateral is returned, facts stay readable and count, final answers are recorded | 1 benchmark, 4 blocks across the end of the reporting window, answers up to 2 blocks old, one fault, one disputed block |
| `SubmissionsUnhanded`, `ReportsKept` | statements of the documents that the code does not keep (section 5) | as above |

Why the bounds suffice to be interesting: a second request is what a limit of one
slot refuses (for any limit: theorems `SlotsAreLimited` and `WorkLimited`); a multiplier of ½ on an
odd base rounds, and one that falls between hold and return exposes a recomputed
amount; two look-alikes with a foreign third are the least in which a recovery can
be ambiguous, and two workers the least in which a fence can be raced; a block
before and a block after expiry, kept and replayed, give every order of stale and
fresh evidence, and a third allows results or proofs in between; two callers reach
each gap between the transactions of `_settle`; three nonces allow an attempt, a
replacement, and a second withdrawal; two competing sends with receipts make two
errors of the books that cancel each other out possible. Three blocks are the
least with a held, a replayable and a newest one. An upload before two precommits,
read one to a page, makes a precommit wait behind an upload and behind an older
precommit that raises. Four heights are two rounds, so
that the floor can pass a round whose chunk a block above it shares, and the
fourth makes the third an older block to recover. Two captures are what one can
find on disk of the other. Four blocks around the end of a window give an answer
before it, at it and after it, with archive and record in every order. `MaxBlocks`,
`Confirming`, `MaxSeals`, `MaxNonce`, `MaxTime`, `Top`, `Lag`, `MaxCrashes`,
`MaxFaults`, `MaxDisputes`, `Disputable`, and in `Reports` `Rounds` and `First`, are
the only bounds inside modules; `Focus` bounds the run `SubmissionsFence` only, as a
constraint: what it cuts off plays no part in saying which benchmark is whose.
Systems may stop (all requests used), so deadlock is not checked. Symmetry is used only where invariants alone are checked.

Fairness (`FairSpec` of `Submissions`): weak fairness of the two expiry steps,
nothing else; none of sending or cancelling an intent. `Coordinator.step` runs for
ever, and every cycle reconciles the latest block. A block already reconciled is not
replayed, but new complete blocks keep coming and show no less. Nothing is assumed of TIG, the network, members or the
operator. That a cycle is not ended for ever by a row that raises is the subject of
`Replay`.

Fairness of the others: `Replay` weakly of the coordinator's own step (the loop of
`run_tig_v2` goes on whatever a cycle raised; members and the observer owe
nothing) and of the end of each offer, which is time passing (`offer_expires_at`).
Nothing is assumed of the step that cancels: which intent of the page a cycle gets
to, whether an older one raises, whether a POST ends the dispatch and whether the
newest block is reconciled before are all left to the model; `Spool` weakly of the
recorder (the loop of `observe_tig_v2` drains what is pending), nothing of collections and exports; `Reports` weakly of a successful
poll of each round that is needed, and of recording a spooled capture whose anchor
is archived (the collector and its drain poll for ever; what TIG, the archive and
the operator owe is in the antecedent of `ScopedIsCaptured`). In `ReplayProgress`,
`RowProgress` and `ExpiredOfferIsReleased` what must hold for good is stated in the
antecedent too: a block or an intent waits only while the newest block, which every
cycle takes first, cannot be replayed itself. In `Replay` writes are open
(section 5 says what happens when they are not). Blocks never held go before held
ones, so with blocks arriving for ever faster than cycles a held one could starve; the bounded set of heights
does not show that.

## 4. Proofs

Each `…Proofs` module extends the component of its name; `Sums` has what they share.
The theorem about `Replay`, whose steps reach the rows of `Submissions`, is stated in
`SubmissionsProofs` of an instance `R` of it, for all values of its constants.
A theorem holds for every value of the constants that the named assumptions of the
component allow. They say what the database and the configuration guarantee:
finite tables, natural amounts, a multiplier between 0 and 1 of which 1 is allowed,
a positive round length, disjoint kinds of requests, member ids that are totally
ordered, blocks and benchmarks named apart from "none". No assumption is made about
how many actors there are or in which order they act.

| Module | Theorem | Says |
|---|---|---|
| `BenchmarksProofs` | `TypeCorrect` | types; no pool account is ever negative |
| | `LifecycleCorrect` | the inductive invariant of a row, `Lifecycle` |
| | `HoldsMatch` | `HoldMatchesLifecycle`: hold and fee commitment match the row |
| | `ForfeitsAreJustified` | `ForfeitOnlyIfResponsible` |
| | `OwnersAreUnique` | `OneOwner` |
| | `SlotsAreLimited` | `SlotLimit` |
| | `MoneyAccounted` | `MoneyIsAccounted`: every unit is in an account, a pot or a charged fee |
| | `RecordsAreFinal` | `RecordedIsFinal`, an action property |
| | `EscrowImplemented` | `Benchmarks` implements `Collateral` |
| `SubmissionsProofs` | `ProtocolTyped` | types of rows, outbox, workers and TIG |
| | `OwnBenchmarkCorrect` | `OwnBenchmark` |
| | `OwnWithoutOthers` | without other clients of the player, each reservation gets its own benchmark or none |
| | `PostedOnceCorrect` | `PostedOnce`, an action property |
| | `ReleasedCorrect` | `ReleasedIsAbsent` |
| | `OutcomeCorrect` | `OutcomeIsTrue` |
| | `QueuedCorrect` | `QueuedIsLive` |
| | `ReservationsImplemented` | every history of `Submissions` is one of `Benchmarks` |
| | `ReservationsKept` | types, `Lifecycle`, `SlotLimit`, `OneOwner` and `MoneyIsAccounted` of the reservations, under the protocol |
| | `RecordsKept` | `RecordedIsFinal` of the reservations, under the protocol |
| | `WorkLimited` | `WorkIsLimited` |
| | `ReconciledCorrect` | `ReconciledIsApplied` of `Replay` |
| `SettlementProofs` | `ReviewedSettlementsAreComplete` | `ReviewedIsComplete` |
| | `SettlementsAreFinal` | `SettledOnce`, an action property |
| | `PotCorrect` | `PotIsFunding` |
| | `MoneyCorrect` | `MoneyIsConserved` |
| | `SharesCorrect` | `SharesAreFair` |
| `CustodyProofs` | `TypeCorrect` | types; balances are natural numbers |
| | `AttemptsCorrect` | the inductive invariant of requests, attempts and chain |
| | `OutcomeCorrect` | `OutcomeIsChain` |
| | `PayoutsImplemented` | `Custody` implements `Payouts` |
| | `CooldownCorrect` | `CooldownHolds` |
| | `HealthyCorrect` | `HealthyIsReconciled` |
| | `BeginsCorrect` | `BeginsReconciled`, an action property |
| | `BooksCorrect` | `BooksAreChain` |
| `ArchiveProofs` | `WholeCorrect` | `ObservedIsWhole` |
| | `CitedCorrect` | `CitedIsEvident` |
| | `ContiguousCorrect` | `ContiguousIsSound` |
| | `FloorCorrect` | `FloorIsCredited` |
| `ReportsProofs` | `ReturnedCorrect` | `ReturnedIsUnreported` |
| | `FactsCorrect` | `FactsAreReadable` |
| | `KnownCorrect` | `KnownIsCounted`, an action property |
| `SpoolProofs` | `ArchivesStayWhole` | `ArchivesAreWhole` |
| | `SnapshotsAreComplete` | `SnapshotIsComplete` |

`Sums`. The ledger properties are sums over finite sets of accounts, and the models
write them with `SumFunctionOnSet`. Its fold is unfolded once (`SumValue`); that it
does not depend on the order in which it takes the elements, and what it does when one
account changes, when a set grows, and when functions are added or scaled, follows by
a minimal counterexample: among the subsets of a finite set for which a law fails one
is minimal (`SmallestSubset`, from the well-foundedness of strict inclusion), and the
definition contradicts it. This takes no induction over data. The same argument gives
that finitely many numbers have a greatest and a least one; the rest of the module is
integer division.

`Benchmarks`. `HoldMatchesLifecycle` and `ForfeitOnlyIfResponsible` are not
inductive: that a forfeit is justified needs to know that an undisposed, definitive
row still holds its amount, and that a release finds no handover needs `handed` only
in states from `accepted` on. `RowConsistent` ties hold, commitment, fee, slot,
outcome, handover, uploads and owner to the state of one row. A transaction changes
one row, so `Lifecycle` is proved row by row. Slots are a cardinality: a step adds at
most one reservation to `Slots(m)`, and only when fewer than `MaxSlots` are there.
For the money every step is reduced to one of a few movements (`LockMoves`,
`ReturnMoves`, `ForfeitMoves` of collateral, `CommitMoves`, `ChargeMoves` of fees),
and each of them changes both sides of the equations by the same amount. The
refinement uses `TypeOK` and `Lifecycle` in the state before the step.

`Submissions`. The invariant is one chain that must be carried together: the
precommit intent follows the row (`Precommits`), uploads are queued only by the
member who took over (`Payloads`), an intent is in the hands of at most one worker
and left "ready" before it was sent (`Delivery`), TIG confirms only what was posted
and what database and workers believe confirmed is confirmed (`Stages`), an archived
block stays true because TIG takes nothing back (`Archived`), and two unresolved
precommits of the pool that look alike never coexist (`Fenced`). `OwnBenchmark` rests
on `Fenced`, and assumes nothing of what a preflight lists or of when others post.
A candidate of `recover_precommit` that is not the reservation's own is a foreign
one that the preflight did not list, or belongs to a reservation of the same
settings that was given another before (`OtherCandidate`); tracing this back ends at
a foreign benchmark that was taken for the pool's (`Excused`). So without other
clients nobody gets another's benchmark (`OwnWithoutOthers`), and with them two
reservations still never share one. The rest of the chain holds for whatever
benchmark a reservation was given: stages and outcomes are those of
`benchmark[r]`.

By `ReservationsImplemented` what is proved of `Benchmarks` holds under the protocol:
`BP` is `BenchmarksProofs` over the variables of `Submissions`, its assumptions are
those of `Submissions` (`ConstantsFit`), and `ReservationsKept` and `RecordsKept` cite
its theorems. `WorkLimited` joins the two sides. Work that TIG still runs and no
operator took back belongs to a row that holds its slot (`RunningHasSlot`): a row that
released its slot was rejected, expired or cancelled, and by `ReleasedIsAbsent` and
`OutcomeIsTrue` TIG then has no such work or is done with it. So the running work of
a member is among `Slots(m)`, which `SlotLimit` bounds.

`Replay`. `ReconciledIsApplied` needs the steps of a cycle that lie between credit and
mark: a block is credited only when all its rows are confirmed, and a cycle that is
about to mark a block has credited it (`ReplayInv`, with the shape of a cycle in
`CycleShape`). Neither is ever taken back.

`Settlement`. `ReviewedIsComplete` says nothing of the calls that are running.
`ReviewInv` adds that the heights a preview has shown as not missing are credited and
stay so (`ShownIn`); a call that carries the digest of that preview was started later,
so the credit it reads contains all of them (`CallCovers`), and since the digest also
fixes the missing heights, it contains nothing else. The pot needs `NothingOpen`
(collateral of a settled round is decided, so none is forfeited into a pot that was
paid) and that what a call reads are numbers. `SharesAreFair` is about
`allocate_rewards`, for every pot and all credits: the units lost to rounding down are
fewer than the members, the order by remainder and id ranks the members without gaps
(`Ahead`), so exactly that many get one unit more, and a member with more credit never
gets less.

`Custody`. `Recorded` says that what the tables have of an attempt is what the
chain did, that a request is uncertain exactly while one of its attempts is
unrecorded, and that a settled one has exactly one payment. With the order of the
nonces (`InOrder`) and the holds (`Held`) it is inductive; `OutcomeIsChain` and the
refinement of `Payouts` follow, since every step is one of four moves of requests and
attempts (`Moves`). The cooldown needs `Spaced`: a member has one unresolved withdrawal, and only it
can pay later than the recorded last payment. That a healthy check means reconciled
books needs no log of the chain: the number of recorded outcomes equals the wallet's
nonce, and nonces execute in order. `BooksAreChain` is two equations between sums
over accounts, receipts and open attempts, each kept by every step.

`Archive`. `ObservedIsWhole` rests on `IndexIsLate`: a row of the index of last
references is never older than the last observed block whose manifest has that chunk
(a chunk without a row is not removed). `TrackIsLate` and `ExtraIsLate` prove it
of `_track` for a new block, an older one that is recovered, and a repeated capture.
Then the chunks of a live block above the floor are safe by their rows, those of one
under the floor because `Removable` spares the unexpired captures there. `CitedIsEvident`
needs that conversion only touches observed blocks (`CopiesAreObserved`) and that a
cited block keeps its capture or its copy (`CitedIsKept`). `ContiguousIsSound` is
inductive by what `RollBack` and `Advance` do to any stream (`RollBackIsSound`,
`AdvanceIsSound`). `FloorIsCredited` is not inductive: a floor is planned in one step
and written in another, between which blocks, conflicts and credit arrive. `FloorInv`
says it of the planned floor as well. A plan passes the rounds that the floor has
passed already, and above it only covered ones (`TargetIs`, `PlanPasses`); a covered
round lacks no more credit than the policy allows (`CoverageIsCredit`), and credit is
never taken back (`PassedStays`).

`Reports`. The invariant follows an answer of TIG: reports are confirmed in their
window (`InWindow`), a complete capture after the deadline has all of them except the
omitted (`CaptureIsTrue`), and so has the row made of it (`RowIsTrue`), the row a known
report cites (`CiteIsTrue`), the seal (`SealIsTrue`) and what was decided by it
(`ReturnIsTrue`). `ExpiryIsSafe` covers a running expiry: a report confirmed after the
cited rows were read is newer than its backup.

`Spool`. `ArchivesAreWhole` needs to know what a collection may still remove.
`Spared` is a capture all of whose chunks are in the collection's live set or in the
journal of new pins. `WriterInv`: a save that has found a chunk on disk is pinned, and
spared by any collection that has set its marker. `ScanInv`: at each step of the scan
an archive is spared, still to be read, or in an area that is still to be listed; this
is where the order pending, then recorded, matters. `SnapshotInv` adds that an archive
that is not pending any more is in the log: so whatever the selection of pending
archives misses was committed before the barrier that follows it.

The inductive invariants of `Submissions`, `Archive` and `Reports` were checked by TLC
on the instances of section 3 before they were proved.

Only model-checked: the liveness properties, because the prover has no rule for
fairness and `ENABLED`: `ExpiredOfferIsReleased`, `UnsentWorkExpires`,
`SavedIsRecorded`, `ReplayProgress`, `RowProgress`, `ScopedIsCaptured`. Every
safety invariant, action property and refinement that a passing run checks has a
theorem. Two are proved and not asked by a run of their own: `HoldMatchesLifecycle`,
which is part of `Lifecycle`, and `OneOwner`. The two statements of section 5 that the code does not keep are refuted by TLC.

## 5. Where the documents and the code differ

- `docs/DESIGN.md:493` releases the slot of work whose handover a pool failure
  prevented "on definitive expiry". `_expire_unsent_results` returns at once for
  work that was never handed over (`reconciliation.py:75`), and the other expiry
  needs a results POST. The slot and collateral stay held until an operator
  pauses new work and calls `release_unhanded` (run `SubmissionsUnhanded`).
  For the same reason a first acknowledgement is accepted after expiry
  (`benchmarks.py:255`), which `docs/DESIGN.md:263` rules out: such work is still
  `accepted`, and the member is then responsible.
- `docs/EVIDENCE_RETENTION.md:39-40` keeps "the most recent capture per key ... so
  sealing and status checks keep working". The keep set takes the capture recorded
  last (`retention.py:459`), a seal the one of the highest block
  (`reports.py:159-160`). A failed capture of an older block, recorded after the
  complete final one, makes the final one expire before it is sealed (run
  `ReportsKept`).

Met while modelling, and not the subject of a run:

- Recovery and other clients: a preflight excludes what TIG lists at one head
  (`coordinator.py:73-89`), and a match must name the same block
  (`submissions.py:236-244`), so another client's precommit with the same settings
  is as young as the pool's. One that is posted, or first listed, after the
  preflight is taken for the pool's when the response is lost and the pool's own is
  not listed yet (`submissions.py:259-261`). The pool's own benchmark is then an orphan
  that a later look-alike of the pool may be given (`Mistaken` in `OwnBenchmark`
  says exactly this). What the orphan costs TIG is not counted in `WorkIsLimited`,
  which is about the benchmarks that reservations have. When a block shows results
  of the other client for the adopted one, `reconcile_block` raises on it
  (`reconciliation.py:202-203`), and a row that raises ends the cycle (`Replay`).
- Dispatch with writes closed: a cycle reads 50 unsent intents, uploads first
  (`coordinator.py:99-101`), and leaves uploads unsent while writes are closed
  (`:135`). Fifty of them fill the page, and expired precommits behind them are not
  cancelled until writes open. `Replay` has writes open.
- `settlement.allocate` without a digest: the credits are read before the locks
  (`settlement.py:158`), so a tolerated missing block that is recovered and
  credited in between is neither paid for nor recorded as missing, although
  `docs/ROUND_SETTLEMENT.md:96` says that allocate repeats the checks under locks.
  The API always passes the digest of a preview, and with it the theorem holds;
  the mutant `AsReviewed_unchecked` is this case.
- A block that is recovered under a floor that has passed its height can expire
  before it is credited (against `docs/EVIDENCE_RETENTION.md:32`), and a failed or
  conflicting capture above the floor may lose chunks it shares with expired blocks
  (against `:74-75`). `ObservedIsWhole` and `CitedIsEvident` are about observed and
  cited blocks.
- Reports: a failed capture of a later block recorded after the complete final one
  stops sealing, while `needed_queries` counts the round as captured and asks no
  more (`report_observer.py:118`); a final answer whose anchor block is never
  archived silences equal later answers until the collector restarts
  (`observe_reports_v2.py:113`), hence the antecedent of `ScopedIsCaptured`; a
  final answer is filtered by the benchmarks that are known when it is asked for
  (`report_observer.py:45`).
- Spending: `docs/OWNER_GUIDE.md:96-98` counts committed fee ceilings in full for
  the window, while a cancelled reservation that was never sent stops counting
  (`spending.py:70`).

## 6. Plan

Done, in this order: `Collateral`, `Benchmarks`, `BenchmarksProofs`, `Submissions`,
`Settlement`, `Payouts`, `Custody`, `Archive`, `Spool`, `Replay`, `Reports`,
`SettlementProofs`, `SpoolProofs`, `Sums`, `CustodyProofs`, `SubmissionsProofs`,
`ReportsProofs`, `ArchiveProofs`. Next, most important first:

1. Sessions: one-use challenges, tokens, change of the withdrawal wallet beside a
   withdrawal request.
2. An abstract specification of delivery (each intent at TIG at most once, and known
   or absent when it is over) that `Submissions` implements.
3. The expiry of report captures and of the block archive in one module: they share
   the run and its backup.

## 7. Not modelled

- `api.py`, `service.py`, `dashboard.py`, `frontend.py`: parsing, dispatch to
  handlers that are modelled, and rendering; no state of their own.
- `protocol.py`, `observation.py`, `compact.py`: pure projections and validations of
  JSON documents. Which captures validate, and what a block shows, are inputs
  (`Complete`, `Shown`, `ShownRows`).
- `selection.py`, `references.py`, `artifacts.py`, `releases.py`: choice of TIG
  parameters from a snapshot and archive checks; they refuse or parameterise a
  reservation.
- `spending.py`, `pilot.py`: guards in one query under the lock of the reservation or
  send that they refuse. They only remove steps of `Benchmarks` and `Custody`.
- `chain.py`, `sponsored_withdrawals.py`, `tig_transport.py`, `reward_locker.py`,
  `database.py`, `prelaunch.py`: adapters of RPC, HTTP, contracts and PostgreSQL;
  the evidence they verify is what `Custody` and `Submissions` let the world
  produce.
- `auth.py`: planned (section 6).
- `mainnet_backup_v2.py` and the other tools: process and file I/O around
  `pg_basebackup`, systemd and health reports. What retention relies on, which rows
  a verified backup has, is `backup` in `Archive`.
