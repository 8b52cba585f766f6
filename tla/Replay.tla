------------------------------- MODULE Replay --------------------------------
(***************************************************************************)
(* The coordinator's cycle: Coordinator.step, reconcile_block row by row,  *)
(* dispatch_one intent by intent, reconcile_pending and its queue of held  *)
(* blocks.                                                                 *)
(*                                                                         *)
(* A cycle reconciles the newest block, goes through a page of the unsent  *)
(* intents until it has sent one, and replays one block of the backlog.    *)
(* Every row is a transaction of its own, in the order of the reservations;*)
(* what reconcile_block does to one row is in Submissions.  Here a row is  *)
(* confirmed, or it raises because the pool lacks what TIG shows of it.    *)
(* What begin and a POST do to an intent is in Submissions; here an intent *)
(* is unsent or it is not.  The observer records blocks and conflicts,     *)
(* members upload and offers expire at any time.                           *)
(***************************************************************************)
EXTENDS Naturals, Sequences, SequencesExt, FiniteSetsExt

CONSTANTS
    Heights,      \* blocks that may be observed
    Rows,         \* reservations, by the order of their ids
    ShownRows,    \* rows of which each block shows a confirmed result
    UploadIds,    \* intents of results and proofs, by the time of the upload
    PrecommitIds, \* intents of precommits, by the time of the reservation
    PageSize,     \* how many unsent intents a cycle reads
    MaxDisputes,  \* bound on the conflicts that are recorded
    MaxCrashes    \* bound on the cycles that end anywhere

ASSUME ReplayAssumption ==
    /\ Heights \subseteq Nat /\ Rows \subseteq Nat
    /\ ShownRows \in [Heights -> SUBSET Rows]
    /\ UploadIds \subseteq Nat /\ PrecommitIds \subseteq Nat
    /\ UploadIds \intersect PrecommitIds = {} /\ PageSize \in Nat \ {0}
    /\ MaxDisputes \in Nat /\ MaxCrashes \in Nat

VARIABLES
    observed,    \* recorded blocks
    dispute,     \* of each block: "none", "open" or "closed"
    lacking,     \* rows whose result or handover the pool lacks
    confirmed,   \* rows whose results are confirmed
    credited,    \* credited_blocks
    reconciled,  \* reconciled_blocks
    queue,       \* held blocks, the one attempted longest ago first
    intents,     \* protocol_outbox: "none" before an upload, "ready" when unsent,
                 \* "expired" when unsent with its offer over, "gone" when sent
                 \* or cancelled
    cycle,       \* the running cycle
    crashes

outside == <<observed, dispute, lacking>>
books   == <<confirmed, credited, reconciled, queue>>
vars    == <<outside, books, intents, cycle, crashes>>

Idle == [at |-> "idle"]
Newest == Max(observed)
Readable(h) == h \in observed /\ dispute[h] # "open"

Init ==
    /\ observed = {} /\ dispute = [h \in Heights |-> "none"]
    /\ lacking \in SUBSET Rows
    /\ confirmed = {} /\ credited = {} /\ reconciled = {} /\ queue = <<>>
    /\ intents = [i \in UploadIds \union PrecommitIds |-> IF i \in UploadIds THEN "none" ELSE "ready"]
    /\ cycle = Idle /\ crashes = 0

-----------------------------------------------------------------------------
(***************************************************************************)
(* The observer and the records that a replay needs.                       *)
(***************************************************************************)

\* In any order: a missed block is recovered later.
Observe(h) ==
    /\ h \notin observed
    /\ observed' = observed \union {h}
    /\ UNCHANGED <<dispute, lacking, books, intents, cycle, crashes>>

Dispute(h) ==
    /\ h \in observed /\ dispute[h] = "none"
    /\ Cardinality({k \in Heights : dispute[k] # "none"}) < MaxDisputes
    /\ dispute' = [dispute EXCEPT ![h] = "open"]
    /\ UNCHANGED <<observed, lacking, books, intents, cycle, crashes>>

Settle(h) ==
    /\ dispute[h] = "open"
    /\ dispute' = [dispute EXCEPT ![h] = "closed"]
    /\ UNCHANGED <<observed, lacking, books, intents, cycle, crashes>>

Supply(r) ==
    /\ r \in lacking
    /\ lacking' = lacking \ {r}
    /\ UNCHANGED <<observed, dispute, books, intents, cycle, crashes>>

Upload(i) ==
    /\ intents[i] = "none"
    /\ intents' = [intents EXCEPT ![i] = "ready"]
    /\ UNCHANGED <<outside, books, cycle, crashes>>

Expire(i) ==
    /\ intents[i] = "ready"
    /\ intents' = [intents EXCEPT ![i] = "expired"]
    /\ UNCHANGED <<outside, books, cycle, crashes>>

-----------------------------------------------------------------------------
(***************************************************************************)
(* The cycle.                                                              *)
(***************************************************************************)

\* The order of reconcile_pending's selection: blocks never held, by height, and
\* then the held ones by their last attempt.
Backlog == observed \ reconciled
Longest_byHeight == Min(Backlog)
Longest ==
    LET fresh == Backlog \ ToSet(queue)
        held  == SelectSeq(queue, LAMBDA h : h \in Backlog)
    IN  IF fresh # {} THEN Min(fresh) ELSE Head(held)

Held(h) == Append(SelectSeq(queue, LAMBDA k : k # h), h)

\* A newest block that cannot be read ends the cycle.
Start ==
    /\ cycle = Idle /\ observed # {} /\ Readable(Newest)
    /\ cycle' = [at |-> "newest", block |-> Newest]
    /\ UNCHANGED <<outside, books, intents, crashes>>

\* Rows that the loop skips instead of raising on them.
Left_skipping == ShownRows[cycle.block] \ (confirmed \union lacking)
Left == ShownRows[cycle.block] \ confirmed

\* The loop over the rows in another order.
Row_last == Max(Left)
Row == Min(Left)

Replaying == cycle.at \in {"newest", "backlog"}

ConfirmRow ==
    /\ Replaying /\ Left # {} /\ Row \notin lacking
    /\ confirmed' = confirmed \union {Row}
    /\ UNCHANGED <<outside, credited, reconciled, queue, intents, cycle, crashes>>

\* The newest block ends the cycle, a block of the backlog is held.
RaiseRow ==
    /\ Replaying /\ Left # {} /\ Row \in lacking
    /\ queue' = IF cycle.at = "backlog" THEN Held(cycle.block) ELSE queue
    /\ cycle' = Idle
    /\ UNCHANGED <<outside, confirmed, credited, reconciled, intents, crashes>>

-----------------------------------------------------------------------------
(***************************************************************************)
(* dispatch_one, after the newest block.                                   *)
(***************************************************************************)

Unsent(i) == intents[i] \in {"ready", "expired"}

\* UploadIds come before precommits, and then the oldest first.
Before(i, j) ==
    \/ i \in UploadIds /\ j \in PrecommitIds
    \/ i < j /\ {i, j} \subseteq UploadIds
    \/ i < j /\ {i, j} \subseteq PrecommitIds

Page ==
    LET unsent == {i \in DOMAIN intents : Unsent(i)}
    IN  {i \in unsent : Cardinality({j \in unsent : Before(j, i)}) < PageSize}

StartDispatch ==
    /\ cycle.at = "newest" /\ Left = {}
    /\ cycle' = [at |-> "dispatch", page |-> Page]
    /\ UNCHANGED <<outside, books, intents, crashes>>

Turn == CHOOSE i \in cycle.page : \A j \in cycle.page \ {i} : Before(i, j)

\* The next intent of the page, none after a POST, or out of the cycle.
GoOn  == cycle' = [cycle EXCEPT !.page = @ \ {Turn}]
Ended == cycle' = [cycle EXCEPT !.page = {}] \/ cycle' = Idle

Leaves == intents' = [intents EXCEPT ![Turn] = "gone"]

\* The offer has expired.
Refused_unexpired(i) == FALSE
Refused(i) == intents[i] = "expired"

CancelRefused ==
    /\ Turn \in PrecommitIds /\ Refused(Turn)
    /\ Leaves /\ GoOn

\* It is cancelled, as new work is paused or TIG is at another block; the archive
\* or the preflight cannot be had; begin refuses, as it does once the offer has
\* expired; or it is sent, and the POST returns or raises.
TryPrecommit ==
    /\ Turn \in PrecommitIds /\ ~Refused(Turn)
    /\ \/ Leaves /\ GoOn
       \/ UNCHANGED intents /\ cycle' = Idle
       \/ UNCHANGED intents /\ GoOn
       \/ intents[Turn] = "ready" /\ Leaves /\ Ended

\* Writes are open, and begin refuses no upload: its work is accepted and handed
\* over, and the results are accepted before there are proofs (Submissions).
TryUpload ==
    /\ Turn \in UploadIds
    /\ Leaves /\ Ended

DispatchIntent ==
    /\ cycle.at = "dispatch" /\ cycle.page # {}
    /\ CancelRefused \/ TryPrecommit \/ TryUpload
    /\ UNCHANGED <<outside, books, crashes>>

-----------------------------------------------------------------------------
(***************************************************************************)
(* The backlog.                                                            *)
(***************************************************************************)

\* What is reserved before it is in Benchmarks.
SelectBacklog ==
    /\ cycle.at = "dispatch" /\ cycle.page = {}
    /\ \/ Backlog = {} /\ cycle' = Idle /\ UNCHANGED queue
       \/ /\ Backlog # {} /\ Readable(Longest)
          /\ cycle' = [at |-> "backlog", block |-> Longest] /\ UNCHANGED queue
       \/ /\ Backlog # {} /\ ~Readable(Longest)
          /\ cycle' = Idle /\ queue' = Held(Longest)
    /\ UNCHANGED <<outside, confirmed, credited, reconciled, intents, crashes>>

\* credit_block reads the block again.
Credit ==
    /\ cycle.at = "backlog" /\ Left = {}
    /\ IF Readable(cycle.block)
       THEN /\ credited' = credited \union {cycle.block}
            /\ cycle' = [cycle EXCEPT !.at = "credited"]
            /\ UNCHANGED queue
       ELSE /\ queue' = Held(cycle.block) /\ cycle' = Idle
            /\ UNCHANGED credited
    /\ UNCHANGED <<outside, confirmed, reconciled, intents, crashes>>

Mark ==
    /\ cycle.at = "credited"
    /\ reconciled' = reconciled \union {cycle.block}
    /\ cycle' = Idle
    /\ UNCHANGED <<outside, confirmed, credited, queue, intents, crashes>>

\* The process, or a transport error that ends the cycle.
Interrupt ==
    /\ cycle # Idle /\ crashes < MaxCrashes
    /\ cycle' = Idle /\ crashes' = crashes + 1
    /\ UNCHANGED <<outside, books, intents>>

Step ==
    \/ Start \/ ConfirmRow \/ RaiseRow
    \/ StartDispatch \/ DispatchIntent
    \/ SelectBacklog \/ Credit \/ Mark

Next ==
    \/ \E h \in Heights : Observe(h) \/ Dispute(h) \/ Settle(h)
    \/ \E r \in Rows : Supply(r)
    \/ \E i \in UploadIds : Upload(i)
    \/ \E i \in PrecommitIds : Expire(i)
    \/ Step \/ Interrupt

\* run_tig_v2 keeps cycling, whatever a cycle raised, and time passes.
Spec == Init /\ [][Next]_vars /\ WF_vars(Step) /\ \A i \in PrecommitIds : WF_vars(Expire(i))

-----------------------------------------------------------------------------
(***************************************************************************)
(* Properties.                                                             *)
(***************************************************************************)

Replayable(h) == Readable(h) /\ ShownRows[h] \intersect lacking = {}

\* reconcile_pending lets no hold stop the others: a block of the backlog that can
\* be replayed is replayed, however many held blocks come before it in height, as
\* long as the newest block lets cycles get that far.
ReplayProgress ==
    \A h \in Heights :
        <>[](h \in observed /\ Replayable(h) /\ Replayable(Newest)) => <>(h \in reconciled)

\* A row that raises out of reconcile_block takes with it the rows after it, and
\* the rest of the cycle, but never the rows before it.
RowProgress ==
    \A r \in Rows :
        <>[](/\ observed # {} /\ Readable(Newest) /\ r \in ShownRows[Newest]
             /\ \A k \in ShownRows[Newest] : k <= r => k \notin lacking)
        => <>(r \in confirmed)

\* No precommit stays unsent, with its collateral held, after its offer has
\* expired: not behind uploads that fill the page, an older precommit that raises
\* out of every cycle, interrupted cycles or a POST that ends the dispatch, as long
\* as the newest block lets cycles get that far (dispatch_one).
ExpiredOfferIsReleased ==
    \A i \in PrecommitIds :
        <>[](observed # {} /\ Replayable(Newest))
        => (intents[i] = "expired" ~> intents[i] = "gone")

\* A block leaves the backlog only when every row of it is confirmed and its credit
\* is stored, through holds, interrupted cycles and conflicts recorded meanwhile.
ReconciledIsApplied ==
    /\ \A h \in reconciled : ShownRows[h] \subseteq confirmed
    /\ reconciled \subseteq credited
=============================================================================
