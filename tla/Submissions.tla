---------------------------- MODULE Submissions -----------------------------
(***************************************************************************)
(* From a reservation to a definitive TIG outcome: the coordinator workers *)
(* that POST the durable intents of protocol_outbox, TIG, the archived     *)
(* block snapshots that reconciliation replays, the member who takes the   *)
(* work over and uploads, and the operator (submissions.py,                *)
(* coordinator.py, reconciliation.py, member_protocol.py).                 *)
(*                                                                         *)
(* The reservation rows and the ledger are those of Benchmarks: a step     *)
(* that changes them conjoins the action of Benchmarks that the code calls *)
(* within the same transaction.  Collateral finalization comes after       *)
(* everything here and is left to the modules about reports.               *)
(*                                                                         *)
(* Every transaction takes the member and reservation row locks, so it is  *)
(* one action.  The reads that precede a POST, the commit of begin, the    *)
(* POST and the record of its response are separate actions: other         *)
(* workers, TIG and a crash come between them.                             *)
(***************************************************************************)
EXTENDS Integers, FiniteSets

CONSTANTS
    Members, Reservations, Rounds, NoBenchmark, MemberOf, CreationRound,
    Base, FeeLimit, Scale, Multipliers, MaxSlots, InitialAvailable, InitialFees,
    Workers,      \* coordinator processes, a duplicate one included
    Foreign,      \* benchmarks of the pool's player that others may post
    MatchKey,     \* [Reservations \union Foreign -> key]: submissions.matches
                  \* cannot tell precommits with one key apart
    Confirming,   \* bound: the reservations whose member takes the work over
    MaxBlocks     \* bound on the archived block snapshots

\* The benchmark that the POST for r creates at TIG is identified with r.
BenchmarkIds == Reservations \union Foreign

ASSUME IdentityAssumption ==
    /\ Reservations \intersect Foreign = {}
    /\ NoBenchmark \notin BenchmarkIds

\* As in Benchmarks.
ASSUME ReservationsAssumption ==
    /\ MemberOf \in [Reservations -> Members] /\ CreationRound \in [Reservations -> Rounds]
    /\ Base \in [Reservations -> Nat] /\ FeeLimit \in [Reservations -> Nat]
    /\ InitialAvailable \in [Members -> Nat] /\ InitialFees \in Nat
    /\ Scale \in Nat \ {0} /\ Multipliers \subseteq 0..Scale /\ Scale \in Multipliers
    /\ MaxSlots \in Nat /\ IsFiniteSet(Reservations)

ASSUME BoundsAssumption == Confirming \subseteq Reservations /\ MaxBlocks \in Nat

VARIABLES
    \* the variables of Benchmarks
    state, slotHeld, outcome, amount, feeActual, benchmark, handed,
    offerExpired, work, multiplier, paused,
    available, held, committed, operatorFees, protocolSpent, pot,
    \* database
    outbox,    \* protocol_outbox.state of each intent, "none" when there is no row
    seen,      \* preflight identities recorded with an uncertain precommit
    receipt,   \* precommit_receipts.benchmark_id
    late,      \* the recorded response to the results POST is TIG's late rejection
    sampled,   \* a benchmark_progress row exists
    blocks,    \* observed_blocks: the archived snapshots
    \* coordinator processes
    worker,
    \* TIG and the network
    posted,    \* every POST ever sent
    wire,      \* POSTs sent and not yet processed or lost
    tig,       \* how far TIG has confirmed each benchmark
    elapsed    \* the protocol lifetime of the benchmark is over

B == INSTANCE Benchmarks

reservationVars ==
    <<state, slotHeld, outcome, amount, feeActual, benchmark, handed,
      offerExpired, work, multiplier, paused,
      available, held, committed, operatorFees, protocolSpent, pot>>
outboxVars == <<outbox, seen, receipt, late, sampled>>
tigVars    == <<posted, wire, tig, elapsed>>
vars       == <<reservationVars, outboxVars, blocks, worker, tigVars>>

Kinds   == {"precommit", "results", "proofs"}
Intents == Reservations \X Kinds

OutboxStates == {"none", "ready", "uncertain", "accepted", "rejected", "cancelled"}

\* "other": TIG has confirmed results that the pool did not post.
TigStages == {"absent", "precommit", "results", "proofs", "fraud", "other"}

\* What the feed of one block says of a benchmark.  "unconfirmed" is a
\* precommit without a confirmed state, "inactive" a confirmed proof that
\* snapshot.precommits does not list.
Views == {"nothing", "unconfirmed", "precommit", "results", "proofs", "inactive", "fraud", "other"}

(***************************************************************************)
(* A worker is idle, has the preflight of one intent in memory, has        *)
(* committed begin for it, or waits for the answer to its POST.            *)
(***************************************************************************)
Idle == [at |-> "idle"]
Answers == {"none", "ok", "late", "error"}

Init ==
    /\ B!Init
    /\ outbox = [i \in Intents |-> "none"]
    /\ seen = [r \in Reservations |-> {}]
    /\ receipt = [r \in Reservations |-> NoBenchmark]
    /\ late = [r \in Reservations |-> FALSE]
    /\ sampled = [r \in Reservations |-> FALSE]
    /\ blocks = {}
    /\ worker = [w \in Workers |-> Idle]
    /\ posted = {}
    /\ wire = {}
    /\ tig = [b \in BenchmarkIds |-> "absent"]
    /\ elapsed = [r \in Reservations |-> FALSE]

-----------------------------------------------------------------------------
(***************************************************************************)
(* Reservation and the first send.                                         *)
(***************************************************************************)

\* reserve_next: the reservation and its precommit intent in one transaction.
ReserveNext(r) ==
    /\ B!Reserve(r)
    /\ outbox' = [outbox EXCEPT ![<<r, "precommit">>] = "ready"]
    /\ UNCHANGED <<seen, receipt, late, sampled, blocks, worker, tigVars>>

\* cancel_unsent.  dispatch_one calls it when new work is paused, the offer has
\* expired or TIG has moved to another block, which is possible at any time.  When
\* it must is in Replay, which has the order in which intents come up.
CancelUnsent(r) ==
    /\ outbox[<<r, "precommit">>] = "ready"
    /\ B!Cancel(r)
    /\ outbox' = [outbox EXCEPT ![<<r, "precommit">>] = "cancelled"]
    /\ UNCHANGED <<seen, receipt, late, sampled, blocks, worker, tigVars>>

\* Coordinator.preflight: the identities TIG lists at one head.  A benchmark posted
\* just before, by the pool or by others, may not be listed yet.
Preflight(w, r) ==
    /\ worker[w] = Idle
    /\ outbox[<<r, "precommit">>] = "ready"
    /\ \E listed \in SUBSET {b \in BenchmarkIds : tig[b] # "absent"} :
          worker' = [worker EXCEPT ![w] = [at |-> "preflighted", intent |-> <<r, "precommit">>,
                                           ids |-> listed]]
    /\ UNCHANGED <<reservationVars, outboxVars, blocks, tigVars>>

\* The fence of begin (match_key): no other unresolved precommit that a block
\* could not tell apart from this one.
Unambiguous_unfenced(r) == TRUE
Unambiguous(r) ==
    \A q \in Reservations \ {r} :
        ~(outbox[<<q, "precommit">>] = "uncertain" /\ MatchKey[q] = MatchKey[r])

\* The intent a transaction of begin finds is unsent.
Unsent_unchecked(i) == TRUE
Unsent(i) == outbox[i] = "ready"

\* begin, for a precommit: with mark_submitting, before the first POST.
BeginPrecommit(w) ==
    /\ worker[w].at = "preflighted"
    /\ LET i == worker[w].intent
           r == i[1]
       IN /\ Unsent(i)
          /\ ~paused
          /\ Unambiguous(r)
          /\ B!MarkSubmitting(r)
          /\ outbox' = [outbox EXCEPT ![i] = "uncertain"]
          /\ seen' = [seen EXCEPT ![r] = worker[w].ids]
          /\ worker' = [worker EXCEPT ![w] = [at |-> "begun", intent |-> i]]
    /\ UNCHANGED <<receipt, late, sampled, blocks, tigVars>>

\* begin, for results and proofs: TIG has accepted the results before proofs.
BeginPayload(w, r, kind) ==
    /\ worker[w] = Idle
    /\ kind \in {"results", "proofs"}
    /\ Unsent(<<r, kind>>)
    /\ state[r] = "accepted"
    /\ handed[r]
    /\ kind = "proofs" => outbox[<<r, "results">>] = "accepted"
    /\ outbox' = [outbox EXCEPT ![<<r, kind>>] = "uncertain"]
    /\ worker' = [worker EXCEPT ![w] = [at |-> "begun", intent |-> <<r, kind>>]]
    /\ UNCHANGED <<reservationVars, seen, receipt, late, sampled, blocks, tigVars>>

\* writer.post: from here on TIG may see the request.
Post(w) ==
    /\ worker[w].at = "begun"
    /\ wire' = wire \union {worker[w].intent}
    /\ posted' = posted \union {worker[w].intent}
    /\ worker' = [worker EXCEPT ![w] = [at |-> "waiting", intent |-> worker[w].intent,
                                        answer |-> "none"]]
    /\ UNCHANGED <<reservationVars, outboxVars, blocks, tig, elapsed>>

\* A worker stops at any point, or gives up an intent that begin refuses.  What
\* it held in memory is lost; the database and the network are not.
Stop(w) ==
    /\ worker[w] # Idle
    /\ worker' = [worker EXCEPT ![w] = Idle]
    /\ UNCHANGED <<reservationVars, outboxVars, blocks, tigVars>>

-----------------------------------------------------------------------------
(***************************************************************************)
(* TIG and the network.  A POST is processed at most once and may be lost. *)
(* TIG confirms nothing for a benchmark whose lifetime is over.            *)
(***************************************************************************)

Answer(i, value) ==
    worker' = [w \in Workers |->
                  IF worker[w].at = "waiting" /\ worker[w].intent = i
                  THEN [worker[w] EXCEPT !.answer = value] ELSE worker[w]]

\* Results and proofs name the benchmark of the assignment.
Target(i) == IF i[2] = "precommit" THEN i[1] ELSE benchmark[i[1]]

Confirms(i) ==
    LET b == Target(i) IN
    /\ ~elapsed[i[1]]
    /\ CASE i[2] = "precommit" -> tig[b] = "absent" /\ tig' = [tig EXCEPT ![b] = "precommit"]
         [] i[2] = "results" -> tig[b] = "precommit" /\ tig' = [tig EXCEPT ![b] = "results"]
         [] i[2] = "proofs" -> /\ tig[b] = "results"
                               /\ \E s \in {"proofs", "fraud"} : tig' = [tig EXCEPT ![b] = s]

TigAccepts(i) ==
    /\ i \in wire
    /\ Confirms(i)
    /\ wire' = wire \ {i}
    /\ Answer(i, "ok")
    /\ UNCHANGED <<reservationVars, outboxVars, blocks, posted, elapsed>>

\* 400 "Precommit does not exist", to results that come after the lifetime.
TigRejectsLate(i) ==
    /\ i \in wire
    /\ i[2] = "results"
    /\ elapsed[i[1]]
    /\ wire' = wire \ {i}
    /\ Answer(i, "late")
    /\ UNCHANGED <<reservationVars, outboxVars, blocks, posted, tig, elapsed>>

\* Any other refusal, or a request that never arrives.
TigRefuses(i) ==
    /\ i \in wire
    /\ wire' = wire \ {i}
    /\ \/ Answer(i, "error")
       \/ UNCHANGED worker
    /\ UNCHANGED <<reservationVars, outboxVars, blocks, posted, tig, elapsed>>

\* Others post for the pool's player: a precommit like one of the pool's, and its
\* results.
ForeignPost(f) ==
    /\ \/ tig[f] = "absent" /\ tig' = [tig EXCEPT ![f] = "precommit"]
       \/ tig[f] = "precommit" /\ tig' = [tig EXCEPT ![f] = "other"]
    /\ UNCHANGED <<reservationVars, outboxVars, blocks, worker, posted, wire, elapsed>>

\* challenge lifespan_period blocks pass.
Elapse(r) ==
    /\ state[r] # "none"
    /\ ~elapsed[r]
    /\ elapsed' = [elapsed EXCEPT ![r] = TRUE]
    /\ UNCHANGED <<reservationVars, outboxVars, blocks, worker, posted, wire, tig>>

\* A record is listed as far as it is confirmed, or not at all.
Shown(b) ==
    CASE tig[b] = "absent" -> {"nothing"}
      [] tig[b] = "precommit" -> {"nothing", "unconfirmed", "precommit"}
      [] tig[b] = "results" -> {"nothing", "results"}
      [] tig[b] = "proofs" -> {"nothing", "inactive", "proofs"}
      [] tig[b] = "fraud" -> {"nothing", "fraud"}
      [] tig[b] = "other" -> {"nothing", "other"}

\* The observer archives a complete block.
Archive ==
    /\ Cardinality(blocks) < MaxBlocks
    /\ \E view \in [BenchmarkIds -> Views] :
          /\ \A b \in BenchmarkIds : view[b] \in Shown(b)
          /\ blocks' = blocks \union {[view |-> view, over |-> {r \in Reservations : elapsed[r]}]}
    /\ UNCHANGED <<reservationVars, outboxVars, worker, tigVars>>

-----------------------------------------------------------------------------
(***************************************************************************)
(* Responses and reconciliation.                                           *)
(***************************************************************************)

Received(b) == \E q \in Reservations : receipt[q] = b
Owned(b)    == \E q \in Reservations : benchmark[q] = b

\* record_response.  The answer "none" is the transport's exception: the
\* response stays unknown.
RecordResponse(w) ==
    /\ worker[w].at = "waiting"
    /\ LET i == worker[w].intent
           r == i[1]
           ok == worker[w].answer = "ok"
       IN /\ outbox[i] \in {"uncertain", "accepted"}
          /\ outbox' = IF ok THEN [outbox EXCEPT ![i] = "accepted"] ELSE outbox
          /\ \/ /\ ok /\ i[2] = "precommit"
                /\ receipt[r] = NoBenchmark => ~Received(r) /\ \A q \in Reservations \ {r} : benchmark[q] # r
                /\ receipt[r] \in {NoBenchmark, r}
                /\ receipt' = [receipt EXCEPT ![r] = r]
             \/ ~(ok /\ i[2] = "precommit") /\ UNCHANGED receipt
          /\ late' = IF worker[w].answer = "late" THEN [late EXCEPT ![r] = TRUE] ELSE late
    /\ worker' = [worker EXCEPT ![w] = Idle]
    /\ UNCHANGED <<reservationVars, seen, sampled, blocks, tigVars>>

\* definitive_rejection, by the trusted adapter: TIG has no such precommit and
\* will never have it.
NeverAtTig_timeout(r) == tig[r] = "absent"
NeverAtTig(r) ==
    /\ tig[r] = "absent"
    /\ <<r, "precommit">> \notin wire
    /\ \A w \in Workers : worker[w] # [at |-> "begun", intent |-> <<r, "precommit">>]

DefinitiveRejection(r) ==
    /\ NeverAtTig(r)
    /\ outbox[<<r, "precommit">>] = "uncertain"
    /\ receipt[r] = NoBenchmark
    /\ \E actual \in 0..FeeLimit[r] : B!Reject(r, actual)
    /\ outbox' = [outbox EXCEPT ![<<r, "precommit">>] = "rejected"]
    /\ UNCHANGED <<seen, receipt, late, sampled, blocks, worker, tigVars>>

\* recover_precommit: exactly one listed match that is new since the preflight
\* and that no other reservation has a receipt for.
Candidates(blk, r) ==
    {b \in BenchmarkIds :
        /\ blk.view[b] # "nothing"
        /\ MatchKey[b] = MatchKey[r]
        /\ b \notin seen[r] /\ ~Received(b) /\ ~Owned(b)}

RecoverPrecommit(blk, r) ==
    /\ outbox[<<r, "precommit">>] = "uncertain"
    /\ Cardinality(Candidates(blk, r)) = 1
    /\ receipt[r] = NoBenchmark
    /\ receipt' = [receipt EXCEPT ![r] = CHOOSE b \in Candidates(blk, r) : TRUE]
    /\ outbox' = [outbox EXCEPT ![<<r, "precommit">>] = "accepted"]
    /\ UNCHANGED <<reservationVars, seen, late, sampled, blocks, worker, tigVars>>

\* publish_assignment: a confirmed record of the receipted benchmark.
PublishAssignment(blk, r) ==
    /\ receipt[r] # NoBenchmark
    /\ blk.view[receipt[r]] \notin {"nothing", "unconfirmed"}
    /\ \E actual \in 0..FeeLimit[r] : B!Accept(r, receipt[r], actual)
    /\ UNCHANGED <<outboxVars, blocks, worker, tigVars>>

\* reconcile_block on a row whose record the block lists: the results are
\* confirmed and the sampled nonces stored.  The row was accepted when it was
\* read, in an earlier transaction, and only record_outcome looks again.  An
\* intent that was never sent cannot be confirmed (confirm_payload), and results
\* of others are not the member's: a row that shows them raises.
WasAccepted(r) == benchmark[r] # NoBenchmark

Sent(i) == outbox[i] \in {"uncertain", "accepted"}

ShowsResults(view) == view \in {"results", "proofs", "inactive", "fraud"}

ConfirmResults(blk, r) ==
    /\ WasAccepted(r)
    /\ ShowsResults(blk.view[benchmark[r]])
    /\ handed[r]
    /\ Sent(<<r, "results">>)
    /\ outbox' = [outbox EXCEPT ![<<r, "results">>] = "accepted"]
    /\ UNCHANGED <<reservationVars, seen, receipt, late, sampled, blocks, worker, tigVars>>

StoreSampled(blk, r) ==
    /\ WasAccepted(r)
    /\ ShowsResults(blk.view[benchmark[r]])
    /\ outbox[<<r, "results">>] = "accepted"
    /\ sampled' = [sampled EXCEPT ![r] = TRUE]
    /\ UNCHANGED <<reservationVars, outbox, seen, receipt, late, blocks, worker, tigVars>>

ConfirmProofs(blk, r) ==
    /\ WasAccepted(r)
    /\ blk.view[benchmark[r]] \in {"proofs", "inactive", "fraud"}
    /\ Sent(<<r, "proofs">>)
    /\ outbox' = [outbox EXCEPT ![<<r, "proofs">>] = "accepted"]
    /\ UNCHANGED <<reservationVars, seen, receipt, late, sampled, blocks, worker, tigVars>>

\* The outcome of a listed proof or fraud.  A proof counts only while TIG also
\* lists the benchmark as active work.
ListedOutcome(view) ==
    CASE view = "fraud" -> {"verification_failed"}
      [] view = "proofs" -> {"active"}
      [] OTHER -> {}

RecordListedOutcome(blk, r) ==
    /\ state[r] = "accepted"
    /\ outbox[<<r, "proofs">>] = "accepted"
    /\ \E s \in ListedOutcome(blk.view[benchmark[r]]) : B!RecordOutcome(r, s)
    /\ UNCHANGED <<outboxVars, blocks, worker, tigVars>>

\* _expired_lifetime and the empty feed: the block shows nothing of an accepted
\* benchmark, after the end of its lifetime.
LifetimeOver_absence(blk, r) == blk.view[benchmark[r]] = "nothing"
LifetimeOver(blk, r) == blk.view[benchmark[r]] = "nothing" /\ r \in blk.over

\* _expire_unsent_results: handed over, and results and proofs never sent.
NothingSent_uploaded(r) ==
    /\ outbox[<<r, "results">>] = "ready"
    /\ outbox[<<r, "proofs">>] = "none"
    /\ ~sampled[r]
NothingSent(r) ==
    /\ outbox[<<r, "results">>] \in {"none", "ready"}
    /\ outbox[<<r, "proofs">>] = "none"
    /\ ~sampled[r]

Withdrawn_kept(intentState) == intentState
Withdrawn(intentState) == IF intentState = "ready" THEN "cancelled" ELSE intentState

ExpireUnsentResults(blk, r) ==
    /\ state[r] = "accepted"
    /\ handed[r]
    /\ LifetimeOver(blk, r)
    /\ NothingSent(r)
    /\ B!RecordOutcome(r, "expired")
    /\ outbox' = [outbox EXCEPT ![<<r, "results">>] = Withdrawn(@)]
    /\ UNCHANGED <<seen, receipt, late, sampled, blocks, worker, tigVars>>

\* _expire_rejected_results: the one results POST got TIG's late rejection.
ExpireRejectedResults(blk, r) ==
    /\ state[r] = "accepted"
    /\ late[r]
    /\ LifetimeOver(blk, r)
    /\ outbox[<<r, "results">>] = "uncertain"
    /\ outbox[<<r, "proofs">>] = "none"
    /\ B!RecordOutcome(r, "expired")
    /\ outbox' = [outbox EXCEPT ![<<r, "results">>] = "rejected"]
    /\ UNCHANGED <<seen, receipt, late, sampled, blocks, worker, tigVars>>

-----------------------------------------------------------------------------
(***************************************************************************)
(* The member and the operator.                                            *)
(***************************************************************************)

Acknowledge(r) ==
    /\ r \in Confirming
    /\ B!Acknowledge(r)
    /\ UNCHANGED <<outboxVars, blocks, worker, tigVars>>

\* member_protocol.results and proofs, with _store: the first upload is stored
\* and queued in one transaction.  Proofs answer the sampled nonces.
Upload(r, kind) ==
    /\ kind \in {"results", "proofs"}
    /\ outbox[<<r, kind>>] = "none"
    /\ kind = "proofs" => sampled[r] /\ outbox[<<r, "results">>] # "none"
    /\ B!StoreWork(r)
    /\ outbox' = [outbox EXCEPT ![<<r, kind>>] = "ready"]
    /\ UNCHANGED <<seen, receipt, late, sampled, blocks, worker, tigVars>>

OfferExpires(r) ==
    /\ B!OfferExpires(r)
    /\ UNCHANGED <<outboxVars, blocks, worker, tigVars>>

SetPause(value) ==
    /\ value # paused
    /\ B!SetPause(value)
    /\ UNCHANGED <<outboxVars, blocks, worker, tigVars>>

ReleaseUnhanded(r) ==
    /\ B!ReleaseUnhanded(r)
    /\ UNCHANGED <<outboxVars, blocks, worker, tigVars>>

-----------------------------------------------------------------------------

Dispatch ==
    \/ \E r \in Reservations : ReserveNext(r) \/ CancelUnsent(r)
    \/ \E w \in Workers : BeginPrecommit(w) \/ Post(w) \/ RecordResponse(w) \/ Stop(w)
    \/ \E w \in Workers, r \in Reservations : Preflight(w, r)
    \/ \E w \in Workers, r \in Reservations, kind \in Kinds : BeginPayload(w, r, kind)

Tig ==
    \/ \E i \in wire : TigAccepts(i) \/ TigRejectsLate(i) \/ TigRefuses(i)
    \/ \E r \in Reservations : Elapse(r)
    \/ \E f \in Foreign : ForeignPost(f)
    \/ Archive

Reconcile(blk, r) ==
    \/ RecoverPrecommit(blk, r)
    \/ PublishAssignment(blk, r)
    \/ ConfirmResults(blk, r)
    \/ StoreSampled(blk, r)
    \/ ConfirmProofs(blk, r)
    \/ RecordListedOutcome(blk, r)
    \/ ExpireUnsentResults(blk, r)
    \/ ExpireRejectedResults(blk, r)

People ==
    \/ \E r \in Reservations :
          Acknowledge(r) \/ OfferExpires(r) \/ ReleaseUnhanded(r) \/ DefinitiveRejection(r)
    \/ \E r \in Reservations, kind \in Kinds : Upload(r, kind)
    \/ \E value \in BOOLEAN : SetPause(value)

Next ==
    \/ Dispatch
    \/ Tig
    \/ \E blk \in blocks, r \in Reservations : Reconcile(blk, r)
    \/ People

Spec == Init /\ [][Next]_vars

\* The coordinator keeps running, and each archived block is reconciled.
Fairness ==
    \A r \in Reservations :
        /\ WF_vars(\E blk \in blocks : ExpireUnsentResults(blk, r))
        /\ WF_vars(\E blk \in blocks : ExpireRejectedResults(blk, r))

FairSpec == Spec /\ Fairness

-----------------------------------------------------------------------------
(***************************************************************************)
(* Properties.                                                             *)
(***************************************************************************)

\* Neither the pool nor a block can tell f from what r posted, the preflight of r
\* did not list it, and recover_precommit took it.
Mistaken(f, r) ==
    f \in Foreign /\ MatchKey[f] = MatchKey[r] /\ f \notin seen[r] /\ receipt[r] = f

\* A lost response, a stopped worker, look-alike work and a stale feed give a
\* reservation the benchmark that its own POST created, or, when others post for the
\* pool's player, one that the same settings created: then some reservation of these
\* settings was given a foreign benchmark that its preflight did not list.  Without
\* one, no reservation gets another's, and no two ever get the same (begin,
\* recover_precommit, _receipt).
OwnBenchmark ==
    /\ \A r \in Reservations : benchmark[r] \in {NoBenchmark, receipt[r]}
    /\ \A q, r \in Reservations : q # r /\ receipt[q] = receipt[r] => receipt[r] = NoBenchmark
    /\ \A r \in Reservations :
          receipt[r] \notin {NoBenchmark, r} =>
              /\ MatchKey[receipt[r]] = MatchKey[r]
              /\ \E q \in Reservations, f \in Foreign : MatchKey[q] = MatchKey[r] /\ Mistaken(f, q)

\* No intent is ever POSTed twice, whatever workers run, stop and restart.
PostedOnce ==
    [][\A w \in Workers :
          worker[w].at = "begun" /\ worker'[w].at = "waiting" => worker[w].intent \notin posted]_vars

\* Collateral and slot released as never started stay consistent with TIG: it
\* has no benchmark of that reservation, and no request that could create one.
ReleasedIsAbsent ==
    \A r \in Reservations :
        state[r] \in {"cancelled", "rejected"} /\ benchmark[r] = NoBenchmark =>
            /\ tig[r] = "absent"
            /\ <<r, "precommit">> \notin wire
            /\ \A w \in Workers : worker[w] # [at |-> "begun", intent |-> <<r, "precommit">>]

\* A recorded outcome is TIG's, and it is the last: active work has a proof,
\* failed work a fraud, and expired work never got its member's results confirmed
\* and never will (the member forfeits, so it must not be running at TIG).  Proofs are
\* posted only for results that TIG has confirmed.
OutcomeIsTrue ==
    \A r \in Reservations :
        /\ state[r] = "active" => tig[benchmark[r]] = "proofs"
        /\ state[r] = "verification_failed" => tig[benchmark[r]] = "fraud"
        /\ state[r] = "expired" => tig[benchmark[r]] \in {"precommit", "other"} /\ elapsed[r]
        /\ <<r, "proofs">> \in posted => tig[benchmark[r]] \in {"results", "proofs", "fraud"}

\* No upload stays queued for work that is over, where a later cycle could make
\* its first POST (the expiry cancels it; retire_unsent_payload, which would,
\* never finds one).
QueuedIsLive ==
    \A r \in Reservations, kind \in {"results", "proofs"} :
        outbox[<<r, kind>>] = "ready" => state[r] = "accepted"

\* TIG works for r on the benchmark that r has, or may still begin to.  Until r has a
\* receipt, that is the one that its POST creates.
BenchmarkOf(r) == IF receipt[r] = NoBenchmark THEN r ELSE receipt[r]

RunsAtTig(r) ==
    \/ receipt[r] = NoBenchmark /\ <<r, "precommit">> \in wire
    \/ tig[BenchmarkOf(r)] \in {"precommit", "results"} /\ ~elapsed[r]

ReturnedByOperator(r) == state[r] = "cancelled" /\ benchmark[r] # NoBenchmark

\* The slots bound what really runs: whatever responses were lost and whatever was
\* rejected, expired or reserved again, TIG never works on more of a member's
\* benchmarks than that member has slots, but for work that an operator took back
\* (record_outcome and the three releases, the only steps that free a slot).
WorkIsLimited ==
    \A m \in Members :
        Cardinality({r \in B!OwnedBy(m) : RunsAtTig(r) /\ ~ReturnedByOperator(r)}) <= MaxSlots

\* An archived block shows that accepted work is definitively over.
ShownOver(r) == state[r] = "accepted" /\ \E blk \in blocks : LifetimeOver(blk, r)

\* Handed-over work whose results are never sent, uploaded or not, frees its
\* slot once an archived block shows that it is over (_expire_unsent_results).
UnsentWorkExpires ==
    \A r \in Reservations :
        ShownOver(r) /\ handed[r] /\ outbox[<<r, "results">>] \in {"none", "ready"}
            ~> ~slotHeld[r] \/ outbox[<<r, "results">>] \notin {"none", "ready"}

\* docs/DESIGN.md:493: "TIG accepts but a pool failure prevents handover before
\* expiry | Release the slot on definitive expiry".
UnhandedWorkExpires ==
    \A r \in Reservations : ShownOver(r) /\ ~handed[r] ~> ~slotHeld[r] \/ handed[r]
=============================================================================
