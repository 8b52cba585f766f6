------------------------- MODULE SubmissionsProofs --------------------------
(***************************************************************************)
(* Proofs about the submission protocol, for any number of workers,        *)
(* reservations, look-alike benchmarks and archived blocks: no intent is   *)
(* posted twice, a reservation gets another benchmark than that of its own *)
(* POST only for one of another player that TIG listed first, what is      *)
(* released as never started is absent at TIG, a recorded outcome is       *)
(* TIG's, no upload stays queued for work that is over, and what is proved *)
(* of the reservations holds here, so that their slots bound what runs at  *)
(* TIG.  The last section is about the coordinator's cycle, Replay.        *)
(***************************************************************************)
EXTENDS Submissions, FiniteSetTheorems, TLAPS

\* What a worker holds in memory.
Phases ==
    {Idle}
    \union [at : {"preflighted"}, intent : Reservations \X {"precommit"}, ids : SUBSET BenchmarkIds]
    \union [at : {"begun"}, intent : Intents]
    \union [at : {"waiting"}, intent : Intents, answer : Answers]

\* Types of the rows and the protocol; the accounts are those of Benchmarks.
TypeOK ==
    /\ state \in [Reservations -> B!States]
    /\ benchmark \in [Reservations -> BenchmarkIds \union {NoBenchmark}]
    /\ handed \in [Reservations -> BOOLEAN]
    /\ outbox \in [Intents -> OutboxStates]
    /\ seen \in [Reservations -> SUBSET BenchmarkIds]
    /\ receipt \in [Reservations -> BenchmarkIds \union {NoBenchmark}]
    /\ late \in [Reservations -> BOOLEAN]
    /\ sampled \in [Reservations -> BOOLEAN]
    /\ blocks \in SUBSET [view : [BenchmarkIds -> Views], over : SUBSET Reservations]
    /\ worker \in [Workers -> Phases]
    /\ posted \in SUBSET Intents /\ wire \in SUBSET Intents
    /\ tig \in [BenchmarkIds -> TigStages]
    /\ elapsed \in [Reservations -> BOOLEAN]

\* The precommit intent follows the row, and the benchmark of a reservation is the
\* one that its receipt names.
PrecommitOK(r) ==
    /\ outbox[<<r, "precommit">>] = "none" <=> state[r] = "none"
    /\ outbox[<<r, "precommit">>] = "ready" <=> state[r] = "reserved"
    /\ outbox[<<r, "precommit">>] = "rejected" <=> state[r] = "rejected"
    /\ outbox[<<r, "precommit">>] = "uncertain" => state[r] = "uncertain"
    /\ outbox[<<r, "precommit">>] = "cancelled" =>
          state[r] = "cancelled" /\ benchmark[r] = NoBenchmark
    /\ outbox[<<r, "precommit">>] = "accepted" =>
          state[r] = "uncertain" \/ benchmark[r] # NoBenchmark
    /\ outbox[<<r, "precommit">>] = "accepted" <=> receipt[r] # NoBenchmark
    /\ benchmark[r] # NoBenchmark =>
          benchmark[r] = receipt[r] /\ state[r] \in {"accepted", "cancelled"} \union B!Definitive

Precommits == \A r \in Reservations : PrecommitOK(r)

\* Results and proofs are queued by the member who took over, while the work is
\* accepted, and proofs are sent after TIG accepted the results.
PayloadOK(r) ==
    /\ outbox[<<r, "results">>] = "ready" \/ outbox[<<r, "proofs">>] = "ready" => state[r] = "accepted"
    /\ outbox[<<r, "results">>] # "none" \/ outbox[<<r, "proofs">>] # "none" => handed[r]
    /\ handed[r] => benchmark[r] # NoBenchmark
    /\ outbox[<<r, "proofs">>] \notin {"none", "ready"} => outbox[<<r, "results">>] = "accepted"

Payloads == \A r \in Reservations : PayloadOK(r)

\* An intent is in the hands of one worker at most, and the database knew that
\* it may be sent before it was.
NeverSent == {"none", "ready", "cancelled"}
Busy(w)   == worker[w].at \in {"begun", "waiting"}

Handled(w) ==
    Busy(w) =>
        /\ outbox[worker[w].intent] \notin NeverSent
        /\ worker[w].at = "begun" => worker[w].intent \notin posted
        /\ worker[w].at = "waiting" => worker[w].intent \in posted

Delivery ==
    /\ wire \subseteq posted
    /\ \A i \in posted : outbox[i] \notin NeverSent
    /\ \A w \in Workers : Handled(w)
    /\ \A v, w \in Workers :
          Busy(v) /\ Busy(w) /\ worker[v].intent = worker[w].intent => v = w

\* TIG confirms for the pool what the pool posted, each stage once, and what the
\* database and the workers believe to be confirmed is.
Confirmed  == {"results", "proofs", "fraud"}
Overdue(r) == elapsed[r] /\ benchmark[r] # NoBenchmark /\ tig[benchmark[r]] \notin Confirmed

Reached(i) ==
    LET r == i[1] IN
    /\ i[2] = "precommit" => tig[r] # "absent"
    /\ i[2] = "results" => benchmark[r] # NoBenchmark /\ tig[benchmark[r]] \in Confirmed
    /\ i[2] = "proofs" => benchmark[r] # NoBenchmark /\ tig[benchmark[r]] \in {"proofs", "fraud"}

Believed(w) ==
    worker[w].at = "waiting" =>
        /\ worker[w].answer = "ok" => Reached(worker[w].intent)
        /\ worker[w].answer = "late" =>
              worker[w].intent[2] = "results" /\ Overdue(worker[w].intent[1])

\* A recovered precommit may be that of others: what TIG then has is the receipted
\* benchmark, and the reservation's own may be lost.
Recorded ==
    /\ \A r \in Reservations : receipt[r] # NoBenchmark => tig[receipt[r]] # "absent"
    /\ \A r \in Reservations, kind \in {"results", "proofs"} :
          outbox[<<r, kind>>] = "accepted" => Reached(<<r, kind>>)
    /\ \A r \in Reservations : late[r] => Overdue(r)

Stages ==
    /\ \A i \in Intents : Reached(i) => i \in posted \ wire
    /\ \A b \in BenchmarkIds : tig[b] \in Confirmed => \E r \in Reservations : benchmark[r] = b
    /\ Recorded
    /\ \A w \in Workers : Believed(w)

\* An archived block stays true: TIG takes nothing back.
ShownOf(blk, b) ==
    /\ blk.view[b] # "nothing" => tig[b] # "absent"
    /\ ShowsResults(blk.view[b]) => tig[b] \in Confirmed
    /\ blk.view[b] \in {"inactive", "proofs"} => tig[b] = "proofs"
    /\ blk.view[b] = "fraud" => tig[b] = "fraud"

Archived ==
    \A blk \in blocks :
        /\ \A b \in BenchmarkIds : ShownOf(blk, b)
        /\ \A r \in blk.over : elapsed[r]

\* Two unresolved precommits of the pool can be told apart.
FencedOf(r) == outbox[<<r, "precommit">>] = "uncertain" => Unambiguous(r)

Fenced == \A r \in Reservations : FencedOf(r)

\* TIG never takes a stage back.
Onward(s, t) ==
    \/ t = s
    \/ s = "absent" /\ t = "precommit"
    \/ s = "precommit" /\ t \in {"results", "other"}
    \/ s = "results" /\ t \in {"proofs", "fraud"}

-----------------------------------------------------------------------------
(***************************************************************************)
(* Steps of the outbox and of the workers.                                 *)
(***************************************************************************)

\* Intents are pairs, and a reservation has one of each kind.
LEMMA IntentFacts ==
    /\ \A r \in Reservations, k \in Kinds : <<r, k>> \in Intents
    /\ \A r, q, k, l : <<r, k>> = <<q, l>> <=> r = q /\ k = l
    /\ \A i \in Intents : \E r \in Reservations, k \in Kinds : i = <<r, k>>
    /\ \A i \in Intents : i = <<i[1], i[2]>> /\ i[1] \in Reservations /\ i[2] \in Kinds
    /\ Kinds = {"precommit", "results", "proofs"}
  BY DEF Intents, Kinds

\* What a worker may hold at each phase.
LEMMA PhaseFacts ==
    ASSUME NEW p \in Phases
    PROVE  /\ p.at \in {"idle", "preflighted", "begun", "waiting"}
           /\ p.at = "idle" => p = Idle
           /\ p.at = "preflighted" =>
                 /\ p.intent \in Intents /\ p.intent[1] \in Reservations
                 /\ p.intent = <<p.intent[1], "precommit">>
                 /\ p.ids \in SUBSET BenchmarkIds
           /\ p.at = "begun" => p.intent \in Intents /\ p = [at |-> "begun", intent |-> p.intent]
           /\ p.at = "waiting" =>
                 /\ p.intent \in Intents /\ p.answer \in Answers
                 /\ p = [at |-> "waiting", intent |-> p.intent, answer |-> p.answer]
<1>1. CASE p = Idle
  BY <1>1 DEF Idle
<1>2. CASE p \in [at : {"preflighted"}, intent : Reservations \X {"precommit"}, ids : SUBSET BenchmarkIds]
  <2>1. p.at = "preflighted" /\ p.intent \in Reservations \X {"precommit"} /\ p.ids \in SUBSET BenchmarkIds
    BY <1>2
  <2> QED
    BY <2>1 DEF Intents, Kinds
<1>3. CASE p \in [at : {"begun"}, intent : Intents]
  BY <1>3
<1>4. CASE p \in [at : {"waiting"}, intent : Intents, answer : Answers]
  BY <1>4
<1> QED
  BY <1>1, <1>2, <1>3, <1>4 DEF Phases

\* One worker moves on.
LEMMA WorkerStep ==
    ASSUME TypeOK, NEW w \in Workers, NEW p \in Phases, worker' = [worker EXCEPT ![w] = p]
    PROVE  /\ worker' \in [Workers -> Phases]
           /\ worker'[w] = p
           /\ \A v \in Workers : v # w => worker'[v] = worker[v]
  BY DEF TypeOK

\* An answer reaches the workers that wait for it, and nobody else notices.
LEMMA AnswerStep ==
    ASSUME TypeOK, NEW i \in Intents, NEW a \in Answers, Answer(i, a)
    PROVE  /\ worker' \in [Workers -> Phases]
           /\ \A v \in Workers :
                 /\ worker'[v].at = worker[v].at
                 /\ worker[v].at # "waiting" => worker'[v] = worker[v]
                 /\ worker[v].at = "waiting" =>
                       /\ worker'[v].intent = worker[v].intent
                       /\ worker'[v].answer =
                             IF worker[v].intent = i THEN a ELSE worker[v].answer
<1> SUFFICES ASSUME NEW v \in Workers
             PROVE  /\ worker'[v] \in Phases
                    /\ worker'[v].at = worker[v].at
                    /\ worker[v].at # "waiting" => worker'[v] = worker[v]
                    /\ worker[v].at = "waiting" =>
                          /\ worker'[v].intent = worker[v].intent
                          /\ worker'[v].answer =
                                IF worker[v].intent = i THEN a ELSE worker[v].answer
  BY DEF Answer
<1>1. worker'[v] = IF worker[v].at = "waiting" /\ worker[v].intent = i
                   THEN [worker[v] EXCEPT !.answer = a] ELSE worker[v]
  BY DEF Answer
<1>2. worker[v] \in Phases
  BY DEF TypeOK
<1>3. CASE worker[v].at = "waiting" /\ worker[v].intent = i
  <2>1. worker[v] = [at |-> "waiting", intent |-> i, answer |-> worker[v].answer]
    BY <1>2, <1>3, PhaseFacts
  <2>2. worker'[v] = [at |-> "waiting", intent |-> i, answer |-> a]
    BY <1>1, <1>3, <2>1
  <2> QED
    BY <1>3, <2>2 DEF Phases
<1>4. CASE ~(worker[v].at = "waiting" /\ worker[v].intent = i)
  BY <1>1, <1>2, <1>4
<1> QED
  BY <1>3, <1>4

\* A precommit leaves the other intents alone.
LEMMA PrecommitStep ==
    ASSUME TypeOK, NEW q \in Reservations, NEW s, outbox' = [outbox EXCEPT ![<<q, "precommit">>] = s]
    PROVE  /\ outbox'[<<q, "precommit">>] = s
           /\ \A r \in Reservations :
                 /\ r # q => outbox'[<<r, "precommit">>] = outbox[<<r, "precommit">>]
                 /\ outbox'[<<r, "results">>] = outbox[<<r, "results">>]
                 /\ outbox'[<<r, "proofs">>] = outbox[<<r, "proofs">>]
  BY DEF TypeOK, Intents, Kinds

\* An upload leaves the other intents alone.
LEMMA PayloadStep ==
    ASSUME TypeOK, NEW q \in Reservations, NEW kind \in {"results", "proofs"}, NEW s,
           outbox' = [outbox EXCEPT ![<<q, kind>>] = s]
    PROVE  /\ outbox'[<<q, kind>>] = s
           /\ \A r \in Reservations : outbox'[<<r, "precommit">>] = outbox[<<r, "precommit">>]
           /\ \A r \in Reservations :
                 /\ r # q \/ kind # "results" => outbox'[<<r, "results">>] = outbox[<<r, "results">>]
                 /\ r # q \/ kind # "proofs" => outbox'[<<r, "proofs">>] = outbox[<<r, "proofs">>]
  BY DEF TypeOK, Intents, Kinds

\* TIG confirms the next stage of the benchmark that a POST is about, within its
\* lifetime.
LEMMA ConfirmStep ==
    ASSUME TypeOK, NEW i \in Intents, Confirms(i)
    PROVE  /\ tig' \in [BenchmarkIds -> TigStages] /\ ~elapsed[i[1]]
           /\ \A b \in BenchmarkIds : b # Target(i) => tig'[b] = tig[b]
           /\ i[2] = "precommit" => tig[Target(i)] = "absent"
           /\ i[2] = "results" => tig[Target(i)] = "precommit"
           /\ i[2] = "proofs" => tig[Target(i)] = "results"
           /\ Target(i) \in BenchmarkIds =>
                 /\ i[2] = "precommit" => tig'[Target(i)] = "precommit"
                 /\ i[2] = "results" => tig'[Target(i)] = "results"
                 /\ i[2] = "proofs" => tig'[Target(i)] \in {"proofs", "fraud"}
<1> DEFINE t == Target(i)
<1>1. i[2] \in {"precommit", "results", "proofs"} /\ ~elapsed[i[1]]
  BY IntentFacts DEF Confirms
<1>2. CASE i[2] = "precommit"
  <2>1. tig[t] = "absent" /\ tig' = [tig EXCEPT ![t] = "precommit"]
    BY <1>2 DEF Confirms
  <2> HIDE DEF t
  <2>2. /\ tig' \in [BenchmarkIds -> TigStages] /\ \A b \in BenchmarkIds : b # t => tig'[b] = tig[b]
        /\ t \in BenchmarkIds => tig'[t] = "precommit"
    BY <2>1 DEF TypeOK, TigStages
  <2> QED
    BY <1>1, <1>2, <2>1, <2>2 DEF t
<1>3. CASE i[2] = "results"
  <2>1. tig[t] = "precommit" /\ tig' = [tig EXCEPT ![t] = "results"]
    BY <1>3 DEF Confirms
  <2> HIDE DEF t
  <2>2. /\ tig' \in [BenchmarkIds -> TigStages] /\ \A b \in BenchmarkIds : b # t => tig'[b] = tig[b]
        /\ t \in BenchmarkIds => tig'[t] = "results"
    BY <2>1 DEF TypeOK, TigStages
  <2> QED
    BY <1>1, <1>3, <2>1, <2>2 DEF t
<1>4. CASE i[2] = "proofs"
  <2>1. PICK s \in {"proofs", "fraud"} : tig[t] = "results" /\ tig' = [tig EXCEPT ![t] = s]
    BY <1>4 DEF Confirms
  <2> HIDE DEF t
  <2>2. /\ tig' \in [BenchmarkIds -> TigStages] /\ \A b \in BenchmarkIds : b # t => tig'[b] = tig[b]
        /\ t \in BenchmarkIds => tig'[t] \in {"proofs", "fraud"}
    BY <2>1 DEF TypeOK, TigStages
  <2> QED
    BY <1>1, <1>4, <2>1, <2>2 DEF t
<1> QED
  BY <1>1, <1>2, <1>3, <1>4

\* Others confirm a stage of a benchmark of theirs.
LEMMA ForeignStep ==
    ASSUME TypeOK, NEW f \in Foreign, ForeignPost(f)
    PROVE  /\ tig' \in [BenchmarkIds -> TigStages]
           /\ \A b \in BenchmarkIds : b # f => tig'[b] = tig[b]
           /\ \/ tig[f] = "absent" /\ tig'[f] = "precommit"
              \/ tig[f] = "precommit" /\ tig'[f] = "other"
  BY DEF ForeignPost, TypeOK, TigStages, BenchmarkIds

\* An intent of the outbox gets a new state.
LEMMA OutboxStep ==
    ASSUME TypeOK, NEW i \in Intents, NEW s, outbox' = [outbox EXCEPT ![i] = s]
    PROVE  /\ outbox'[i] = s
           /\ \A j \in Intents : j # i => outbox'[j] = outbox[j]
  BY DEF TypeOK

-----------------------------------------------------------------------------
(***************************************************************************)
(* Types.                                                                  *)
(***************************************************************************)

\* A worker goes from phase to phase.
LEMMA NextWorkers ==
    ASSUME TypeOK, [Next]_vars PROVE worker' \in [Workers -> Phases]
<1>1. ASSUME UNCHANGED <<worker>> PROVE worker' \in [Workers -> Phases]
  BY <1>1 DEF TypeOK, reservationVars, outboxVars, tigVars
<1>2. ASSUME NEW w \in Workers, NEW r \in Reservations, Preflight(w, r) PROVE worker' \in [Workers -> Phases]
  <2>1. PICK listed \in SUBSET {b \in BenchmarkIds : tig[b] # "absent"} :
           worker' = [worker EXCEPT ![w] = [at |-> "preflighted", intent |-> <<r, "precommit">>,
                                            ids |-> listed]]
    BY <1>2 DEF Preflight
  <2>2. [at |-> "preflighted", intent |-> <<r, "precommit">>, ids |-> listed] \in Phases
    BY DEF Phases
  <2> QED
    BY <2>1, <2>2, WorkerStep
<1>3. ASSUME NEW w \in Workers, BeginPrecommit(w) PROVE worker' \in [Workers -> Phases]
  <2>1. [at |-> "begun", intent |-> worker[w].intent] \in Phases
    BY <1>3, PhaseFacts DEF BeginPrecommit, Phases, TypeOK
  <2>2. worker' = [worker EXCEPT ![w] = [at |-> "begun", intent |-> worker[w].intent]]
    BY <1>3 DEF BeginPrecommit
  <2> QED
    BY <2>1, <2>2, WorkerStep
<1>4. ASSUME NEW w \in Workers, NEW r \in Reservations, NEW kind \in Kinds, BeginPayload(w, r, kind) PROVE worker' \in [Workers -> Phases]
  <2>1. [at |-> "begun", intent |-> <<r, kind>>] \in Phases
    BY <1>4, IntentFacts DEF BeginPayload, Phases, TypeOK
  <2>2. worker' = [worker EXCEPT ![w] = [at |-> "begun", intent |-> <<r, kind>>]]
    BY <1>4 DEF BeginPayload
  <2> QED
    BY <2>1, <2>2, WorkerStep
<1>5. ASSUME NEW w \in Workers, Post(w) PROVE worker' \in [Workers -> Phases]
  <2>1. [at |-> "waiting", intent |-> worker[w].intent, answer |-> "none"] \in Phases
    BY <1>5, PhaseFacts DEF Post, Answers, Phases, TypeOK
  <2>2. worker' = [worker EXCEPT ![w] = [at |-> "waiting", intent |-> worker[w].intent, answer |-> "none"]]
    BY <1>5 DEF Post
  <2> QED
    BY <2>1, <2>2, WorkerStep
<1>6. ASSUME NEW w \in Workers, Stop(w) PROVE worker' \in [Workers -> Phases]
  <2>1. Idle \in Phases
    BY <1>6, PhaseFacts DEF Stop, Phases, TypeOK
  <2>2. worker' = [worker EXCEPT ![w] = Idle]
    BY <1>6 DEF Stop
  <2> QED
    BY <2>1, <2>2, WorkerStep
<1>7. ASSUME NEW i \in wire, TigAccepts(i) PROVE worker' \in [Workers -> Phases]
  <2>1. i \in Intents /\ "ok" \in Answers /\ Answer(i, "ok")
    BY <1>7 DEF TigAccepts, TypeOK, Answers
  <2> QED
    BY <2>1, AnswerStep
<1>8. ASSUME NEW i \in wire, TigRejectsLate(i) PROVE worker' \in [Workers -> Phases]
  <2>1. i \in Intents /\ "late" \in Answers /\ Answer(i, "late")
    BY <1>8 DEF TigRejectsLate, TypeOK, Answers
  <2> QED
    BY <2>1, AnswerStep
<1>9. ASSUME NEW i \in wire, TigRefuses(i) PROVE worker' \in [Workers -> Phases]
  <2>1. i \in Intents /\ "error" \in Answers /\ (Answer(i, "error") \/ UNCHANGED worker)
    BY <1>9 DEF TigRefuses, TypeOK, Answers
  <2> QED
    BY <2>1, AnswerStep DEF TypeOK
<1>10. ASSUME NEW w \in Workers, RecordResponse(w) PROVE worker' \in [Workers -> Phases]
  <2>1. Idle \in Phases
    BY <1>10, PhaseFacts DEF RecordResponse, Phases, TypeOK
  <2>2. worker' = [worker EXCEPT ![w] = Idle]
    BY <1>10 DEF RecordResponse
  <2> QED
    BY <2>1, <2>2, WorkerStep
<1>11. ASSUME UNCHANGED vars PROVE worker' \in [Workers -> Phases]
  BY <1>1, <1>11 DEF vars, reservationVars, outboxVars, tigVars
<1>12. ASSUME NEW r \in Reservations, ReserveNext(r) PROVE worker' \in [Workers -> Phases]
  BY <1>1, <1>12 DEF ReserveNext, B!Reserve, reservationVars, outboxVars, tigVars,
     B!rowVars, B!ledgerVars, B!factVars
<1>13. ASSUME NEW r \in Reservations, CancelUnsent(r) PROVE worker' \in [Workers -> Phases]
  BY <1>1, <1>13 DEF CancelUnsent, B!Cancel, reservationVars, outboxVars,
     tigVars, B!rowVars, B!ledgerVars, B!factVars
<1>14. ASSUME NEW r \in Reservations, Elapse(r) PROVE worker' \in [Workers -> Phases]
  BY <1>1, <1>14 DEF Elapse, reservationVars, outboxVars, tigVars, B!rowVars, B!ledgerVars,
     B!factVars
<1>15. ASSUME Archive PROVE worker' \in [Workers -> Phases]
  BY <1>1, <1>15 DEF Archive, Shown, reservationVars, outboxVars, tigVars, B!rowVars,
     B!ledgerVars, B!factVars
<1>16. ASSUME NEW r \in Reservations, DefinitiveRejection(r) PROVE worker' \in [Workers -> Phases]
  BY <1>1, <1>16 DEF DefinitiveRejection, NeverAtTig, B!Reject, reservationVars,
     outboxVars, tigVars, B!rowVars, B!ledgerVars, B!factVars
<1>17. ASSUME NEW blk \in blocks, NEW r \in Reservations, RecoverPrecommit(blk, r) PROVE worker' \in [Workers -> Phases]
  BY <1>1, <1>17 DEF RecoverPrecommit, reservationVars, outboxVars, tigVars, B!rowVars,
     B!ledgerVars, B!factVars
<1>18. ASSUME NEW blk \in blocks, NEW r \in Reservations, PublishAssignment(blk, r) PROVE worker' \in [Workers -> Phases]
  BY <1>1, <1>18 DEF PublishAssignment, B!Accept, reservationVars, outboxVars, tigVars,
     B!rowVars, B!ledgerVars, B!factVars
<1>19. ASSUME NEW blk \in blocks, NEW r \in Reservations, ConfirmResults(blk, r) PROVE worker' \in [Workers -> Phases]
  BY <1>1, <1>19 DEF ConfirmResults, Sent, WasAccepted, reservationVars, outboxVars,
     tigVars, B!rowVars, B!ledgerVars, B!factVars
<1>20. ASSUME NEW blk \in blocks, NEW r \in Reservations, StoreSampled(blk, r) PROVE worker' \in [Workers -> Phases]
  BY <1>1, <1>20 DEF StoreSampled, reservationVars, outboxVars, tigVars, B!rowVars,
     B!ledgerVars, B!factVars
<1>21. ASSUME NEW blk \in blocks, NEW r \in Reservations, ConfirmProofs(blk, r) PROVE worker' \in [Workers -> Phases]
  BY <1>1, <1>21 DEF ConfirmProofs, Sent, WasAccepted, reservationVars, outboxVars,
     tigVars, B!rowVars, B!ledgerVars, B!factVars
<1>22. ASSUME NEW blk \in blocks, NEW r \in Reservations, RecordListedOutcome(blk, r) PROVE worker' \in [Workers -> Phases]
  BY <1>1, <1>22 DEF RecordListedOutcome, ListedOutcome, B!RecordOutcome, reservationVars,
     outboxVars, tigVars, B!rowVars, B!ledgerVars, B!factVars
<1>23. ASSUME NEW blk \in blocks, NEW r \in Reservations, ExpireUnsentResults(blk, r) PROVE worker' \in [Workers -> Phases]
  BY <1>1, <1>23 DEF ExpireUnsentResults, NothingSent, Withdrawn, LifetimeOver,
     B!RecordOutcome, reservationVars, outboxVars, tigVars, B!rowVars, B!ledgerVars,
     B!factVars
<1>24. ASSUME NEW blk \in blocks, NEW r \in Reservations, ExpireRejectedResults(blk, r) PROVE worker' \in [Workers -> Phases]
  BY <1>1, <1>24 DEF ExpireRejectedResults, LifetimeOver, B!RecordOutcome, reservationVars,
     outboxVars, tigVars, B!rowVars, B!ledgerVars, B!factVars
<1>25. ASSUME NEW r \in Reservations, Acknowledge(r) PROVE worker' \in [Workers -> Phases]
  BY <1>1, <1>25 DEF Acknowledge, B!Acknowledge, reservationVars, outboxVars, tigVars,
     B!rowVars, B!ledgerVars, B!factVars
<1>26. ASSUME NEW r \in Reservations, NEW kind \in Kinds, Upload(r, kind) PROVE worker' \in [Workers -> Phases]
  BY <1>1, <1>26 DEF Upload, B!StoreWork, reservationVars, outboxVars, tigVars, B!rowVars,
     B!ledgerVars, B!factVars
<1>27. ASSUME NEW r \in Reservations, OfferExpires(r) PROVE worker' \in [Workers -> Phases]
  BY <1>1, <1>27 DEF OfferExpires, B!OfferExpires, reservationVars, outboxVars, tigVars,
     B!rowVars, B!ledgerVars, B!factVars
<1>28. ASSUME NEW value \in BOOLEAN, SetPause(value) PROVE worker' \in [Workers -> Phases]
  BY <1>1, <1>28 DEF SetPause, B!SetPause, reservationVars, outboxVars, tigVars, B!rowVars,
     B!ledgerVars, B!factVars
<1>29. ASSUME NEW r \in Reservations, ReleaseUnhanded(r) PROVE worker' \in [Workers -> Phases]
  BY <1>1, <1>29 DEF ReleaseUnhanded, B!ReleaseUnhanded, B!NotHanded, B!ReturnCollateral,
     reservationVars, outboxVars, tigVars, B!rowVars, B!ledgerVars, B!factVars
<1>30. ASSUME NEW f \in Foreign, ForeignPost(f) PROVE worker' \in [Workers -> Phases]
  BY <1>1, <1>30 DEF ForeignPost, reservationVars, outboxVars
<1> QED
  BY <1>2, <1>3, <1>4, <1>5, <1>6, <1>7, <1>8, <1>9, <1>10, <1>11, <1>12, <1>13, <1>14,
     <1>15, <1>16, <1>17, <1>18, <1>19, <1>20, <1>21, <1>22, <1>23, <1>24, <1>25, <1>26,
     <1>27, <1>28, <1>29, <1>30 DEF Next, Dispatch, Tig, Reconcile, People

\* Every step keeps the types.
LEMMA NextType ==
    ASSUME TypeOK, [Next]_vars PROVE TypeOK'
<1>0. worker' \in [Workers -> Phases]
  BY NextWorkers
<1>1. ASSUME UNCHANGED <<benchmark, blocks, elapsed, handed, late, outbox, posted, receipt, sampled, seen, state, tig, wire, worker>> PROVE TypeOK'
  BY <1>1, <1>0 DEF TypeOK, reservationVars, outboxVars, tigVars, B!States, B!Occupying,
     B!Released, B!Definitive, Intents, Kinds, OutboxStates
<1>2. ASSUME NEW r \in Reservations, ReserveNext(r) PROVE TypeOK'
  BY <1>2, <1>0 DEF ReserveNext, B!Reserve, TypeOK, reservationVars, outboxVars, tigVars,
     B!States, B!Occupying, B!Released, B!Definitive, Intents, Kinds, OutboxStates
<1>3. ASSUME NEW r \in Reservations, CancelUnsent(r) PROVE TypeOK'
  BY <1>3, <1>0 DEF CancelUnsent, B!Cancel, TypeOK, reservationVars,
     outboxVars, tigVars, B!States, B!Occupying, B!Released, B!Definitive, Intents, Kinds,
     OutboxStates
<1>4. ASSUME NEW w \in Workers, NEW r \in Reservations, Preflight(w, r) PROVE TypeOK'
  BY <1>4, <1>0 DEF Preflight, TypeOK, reservationVars, outboxVars, tigVars, B!States,
     B!Occupying, B!Released, B!Definitive, Intents, Kinds, OutboxStates
<1>5. ASSUME NEW w \in Workers, BeginPrecommit(w) PROVE TypeOK'
  <2>1. worker[w].intent \in Intents /\ worker[w].intent[1] \in Reservations
        /\ worker[w].ids \in SUBSET BenchmarkIds
    BY <1>5, PhaseFacts DEF BeginPrecommit, TypeOK
  <2>2. outbox' \in [Intents -> OutboxStates] /\ seen' \in [Reservations -> SUBSET BenchmarkIds]
    BY <1>5, <2>1 DEF BeginPrecommit, TypeOK, OutboxStates
  <2>3. state' \in [Reservations -> B!States] /\ UNCHANGED <<benchmark, handed>>
    BY <1>5, <2>1 DEF BeginPrecommit, B!MarkSubmitting, TypeOK, B!States, B!Occupying
  <2> QED
    BY <1>0, <1>5, <2>2, <2>3 DEF BeginPrecommit, TypeOK, tigVars
<1>6. ASSUME NEW w \in Workers, NEW r \in Reservations, NEW kind \in Kinds, BeginPayload(w, r, kind) PROVE TypeOK'
  BY <1>6, <1>0 DEF BeginPayload, Unsent, TypeOK, reservationVars, outboxVars, tigVars,
     B!States, B!Occupying, B!Released, B!Definitive, Intents, Kinds, OutboxStates
<1>7. ASSUME NEW w \in Workers, Post(w) PROVE TypeOK'
  <2>1. worker[w].intent \in Intents
    BY <1>7, PhaseFacts DEF Post, TypeOK
  <2> QED
    BY <1>0, <1>7, <2>1 DEF Post, TypeOK, reservationVars, outboxVars
<1>8. ASSUME NEW w \in Workers, Stop(w) PROVE TypeOK'
  BY <1>8, <1>0 DEF Stop, TypeOK, reservationVars, outboxVars, tigVars, B!States,
     B!Occupying, B!Released, B!Definitive, Intents, Kinds, OutboxStates
<1>9. ASSUME NEW i \in wire, TigAccepts(i) PROVE TypeOK'
  <2>1. tig' \in [BenchmarkIds -> TigStages] /\ wire' \in SUBSET Intents
    BY <1>9, ConfirmStep DEF TigAccepts, TypeOK
  <2> QED
    BY <1>0, <1>9, <2>1 DEF TigAccepts, TypeOK, reservationVars, outboxVars
<1>10. ASSUME NEW i \in wire, TigRejectsLate(i) PROVE TypeOK'
  BY <1>10, <1>0 DEF TigRejectsLate, Answer, TypeOK, reservationVars, outboxVars, tigVars,
     B!States, B!Occupying, B!Released, B!Definitive, Intents, Kinds, OutboxStates
<1>11. ASSUME NEW i \in wire, TigRefuses(i) PROVE TypeOK'
  BY <1>11, <1>0 DEF TigRefuses, Answer, TypeOK, reservationVars, outboxVars, tigVars,
     B!States, B!Occupying, B!Released, B!Definitive, Intents, Kinds, OutboxStates
<1>12. ASSUME NEW r \in Reservations, Elapse(r) PROVE TypeOK'
  BY <1>12, <1>0 DEF Elapse, TypeOK, reservationVars, outboxVars, tigVars, B!States,
     B!Occupying, B!Released, B!Definitive, Intents, Kinds, OutboxStates
<1>13. ASSUME Archive PROVE TypeOK'
  BY <1>13, <1>0 DEF Archive, Shown, TypeOK, reservationVars, outboxVars, tigVars,
     B!States, B!Occupying, B!Released, B!Definitive, Intents, Kinds, OutboxStates
<1>14. ASSUME NEW w \in Workers, RecordResponse(w) PROVE TypeOK'
  <2>1. worker[w].intent \in Intents /\ worker[w].intent[1] \in Reservations
    BY <1>14, PhaseFacts, IntentFacts DEF RecordResponse, TypeOK
  <2>2. receipt' \in [Reservations -> BenchmarkIds \union {NoBenchmark}]
    BY <1>14, <2>1 DEF RecordResponse, TypeOK, BenchmarkIds
  <2>3. outbox' \in [Intents -> OutboxStates] /\ late' \in [Reservations -> BOOLEAN]
    BY <1>14, <2>1 DEF RecordResponse, TypeOK, OutboxStates
  <2> QED
    BY <1>0, <1>14, <2>2, <2>3 DEF RecordResponse, TypeOK, reservationVars, tigVars
<1>15. ASSUME NEW r \in Reservations, DefinitiveRejection(r) PROVE TypeOK'
  BY <1>15, <1>0 DEF DefinitiveRejection, NeverAtTig, B!Reject, TypeOK, reservationVars,
     outboxVars, tigVars, B!States, B!Occupying, B!Released, B!Definitive, Intents, Kinds,
     OutboxStates
<1>16. ASSUME NEW blk \in blocks, NEW r \in Reservations, RecoverPrecommit(blk, r) PROVE TypeOK'
  <2>1. Candidates(blk, r) # {}
    BY <1>16, FS_EmptySet DEF RecoverPrecommit
  <2>2. (CHOOSE b \in Candidates(blk, r) : TRUE) \in BenchmarkIds
    BY <2>1 DEF Candidates
  <2>3. receipt' \in [Reservations -> BenchmarkIds \union {NoBenchmark}]
    BY <1>16, <2>2 DEF RecoverPrecommit, TypeOK
  <2>4. outbox' \in [Intents -> OutboxStates]
    BY <1>16, IntentFacts DEF RecoverPrecommit, TypeOK, OutboxStates
  <2> QED
    BY <1>0, <1>16, <2>3, <2>4 DEF RecoverPrecommit, TypeOK, reservationVars, tigVars
<1>17. ASSUME NEW blk \in blocks, NEW r \in Reservations, PublishAssignment(blk, r) PROVE TypeOK'
  BY <1>17, <1>0 DEF PublishAssignment, B!Accept, TypeOK, reservationVars, outboxVars,
     tigVars, B!States, B!Occupying, B!Released, B!Definitive, Intents, Kinds, OutboxStates
<1>18. ASSUME NEW blk \in blocks, NEW r \in Reservations, ConfirmResults(blk, r) PROVE TypeOK'
  BY <1>18, <1>0 DEF ConfirmResults, Sent, WasAccepted, TypeOK, reservationVars,
     outboxVars, tigVars, B!States, B!Occupying, B!Released, B!Definitive, Intents, Kinds,
     OutboxStates
<1>19. ASSUME NEW blk \in blocks, NEW r \in Reservations, StoreSampled(blk, r) PROVE TypeOK'
  BY <1>19, <1>0 DEF StoreSampled, TypeOK, reservationVars, outboxVars, tigVars, B!States,
     B!Occupying, B!Released, B!Definitive, Intents, Kinds, OutboxStates
<1>20. ASSUME NEW blk \in blocks, NEW r \in Reservations, ConfirmProofs(blk, r) PROVE TypeOK'
  BY <1>20, <1>0 DEF ConfirmProofs, Sent, WasAccepted, TypeOK, reservationVars, outboxVars,
     tigVars, B!States, B!Occupying, B!Released, B!Definitive, Intents, Kinds, OutboxStates
<1>21. ASSUME NEW blk \in blocks, NEW r \in Reservations, RecordListedOutcome(blk, r) PROVE TypeOK'
  BY <1>21, <1>0 DEF RecordListedOutcome, ListedOutcome, B!RecordOutcome, TypeOK,
     reservationVars, outboxVars, tigVars, B!States, B!Occupying, B!Released, B!Definitive,
     Intents, Kinds, OutboxStates
<1>22. ASSUME NEW blk \in blocks, NEW r \in Reservations, ExpireUnsentResults(blk, r) PROVE TypeOK'
  BY <1>22, <1>0 DEF ExpireUnsentResults, NothingSent, Withdrawn, LifetimeOver,
     B!RecordOutcome, TypeOK, reservationVars, outboxVars, tigVars, B!States, B!Occupying,
     B!Released, B!Definitive, Intents, Kinds, OutboxStates
<1>23. ASSUME NEW blk \in blocks, NEW r \in Reservations, ExpireRejectedResults(blk, r) PROVE TypeOK'
  BY <1>23, <1>0 DEF ExpireRejectedResults, LifetimeOver, B!RecordOutcome, TypeOK,
     reservationVars, outboxVars, tigVars, B!States, B!Occupying, B!Released, B!Definitive,
     Intents, Kinds, OutboxStates
<1>24. ASSUME NEW r \in Reservations, Acknowledge(r) PROVE TypeOK'
  BY <1>24, <1>0 DEF Acknowledge, B!Acknowledge, TypeOK, reservationVars, outboxVars,
     tigVars, B!States, B!Occupying, B!Released, B!Definitive, Intents, Kinds, OutboxStates
<1>25. ASSUME NEW r \in Reservations, NEW kind \in Kinds, Upload(r, kind) PROVE TypeOK'
  <2>1. <<r, kind>> \in Intents
    BY IntentFacts
  <2>2. outbox' \in [Intents -> OutboxStates]
    BY <1>25, <2>1 DEF Upload, TypeOK, OutboxStates
  <2> QED
    BY <1>0, <1>25, <2>2 DEF Upload, B!StoreWork, B!rowVars, TypeOK, tigVars
<1>26. ASSUME NEW r \in Reservations, ReleaseUnhanded(r) PROVE TypeOK'
  BY <1>26, <1>0 DEF ReleaseUnhanded, B!ReleaseUnhanded, B!NotHanded, B!ReturnCollateral,
     TypeOK, reservationVars, outboxVars, tigVars, B!States, B!Occupying, B!Released,
     B!Definitive, Intents, Kinds, OutboxStates
<1>27. ASSUME UNCHANGED vars PROVE TypeOK'
  BY <1>1, <1>27 DEF vars, reservationVars, outboxVars, tigVars
<1>28. ASSUME NEW r \in Reservations, OfferExpires(r) PROVE TypeOK'
  BY <1>1, <1>28 DEF OfferExpires, B!OfferExpires, reservationVars, outboxVars, tigVars,
     B!rowVars, B!ledgerVars, B!factVars
<1>29. ASSUME NEW value \in BOOLEAN, SetPause(value) PROVE TypeOK'
  BY <1>1, <1>29 DEF SetPause, B!SetPause, reservationVars, outboxVars, tigVars, B!rowVars,
     B!ledgerVars, B!factVars
<1>30. ASSUME NEW f \in Foreign, ForeignPost(f) PROVE TypeOK'
  <2>1. tig' \in [BenchmarkIds -> TigStages]
    BY <1>30, ForeignStep
  <2> QED
    BY <1>0, <1>30, <2>1 DEF ForeignPost, TypeOK, reservationVars, outboxVars
<1> QED
  BY <1>2, <1>3, <1>4, <1>5, <1>6, <1>7, <1>8, <1>9, <1>10, <1>11, <1>12, <1>13, <1>14,
     <1>15, <1>16, <1>17, <1>18, <1>19, <1>20, <1>21, <1>22, <1>23, <1>24, <1>25, <1>26,
     <1>27, <1>28, <1>29, <1>30 DEF Next, Dispatch, Tig, Reconcile, People

-----------------------------------------------------------------------------
(***************************************************************************)
(* The row of a reservation and its precommit.                             *)
(***************************************************************************)

\* A recovery takes a listed benchmark that nobody has a receipt of.
LEMMA RecoverFacts ==
    ASSUME NEW blk \in blocks, NEW r \in Reservations, RecoverPrecommit(blk, r)
    PROVE  \E b \in Candidates(blk, r) : receipt' = [receipt EXCEPT ![r] = b]
<1>1. Candidates(blk, r) # {}
  BY FS_EmptySet DEF RecoverPrecommit
<1> QED
  BY <1>1 DEF RecoverPrecommit

\* The precommit intent and its reservation move together.
LEMMA NextPrecommits ==
    ASSUME TypeOK, Precommits, [Next]_vars PROVE Precommits'
<1> SUFFICES ASSUME NEW q \in Reservations PROVE PrecommitOK(q)'
  BY DEF Precommits
<1>0. PrecommitOK(q)
  BY DEF Precommits
<1>1. ASSUME UNCHANGED <<benchmark, outbox, receipt, state>> PROVE PrecommitOK(q)'
  BY <1>1, <1>0, IdentityAssumption DEF PrecommitOK, TypeOK, reservationVars, outboxVars,
     tigVars, B!Definitive, BenchmarkIds, Intents, Kinds
<1>2. ASSUME NEW r \in Reservations, ReserveNext(r) PROVE PrecommitOK(q)'
  BY <1>2, <1>0, IdentityAssumption DEF ReserveNext, B!Reserve, PrecommitOK, TypeOK,
     reservationVars, outboxVars, tigVars, B!Definitive, BenchmarkIds, Intents, Kinds
<1>3. ASSUME NEW r \in Reservations, CancelUnsent(r) PROVE PrecommitOK(q)'
  BY <1>3, <1>0, IdentityAssumption DEF CancelUnsent, B!Cancel, PrecommitOK,
     TypeOK, reservationVars, outboxVars, tigVars, B!Definitive, BenchmarkIds, Intents,
     Kinds
<1>4. ASSUME NEW w \in Workers, BeginPrecommit(w) PROVE PrecommitOK(q)'
  <2>1. PICK r \in Reservations : worker[w].intent = <<r, "precommit">>
    BY <1>4, PhaseFacts DEF BeginPrecommit, TypeOK
  <2>2. /\ state[r] = "reserved" /\ state' = [state EXCEPT ![r] = "uncertain"]
        /\ outbox' = [outbox EXCEPT ![<<r, "precommit">>] = "uncertain"]
        /\ UNCHANGED <<receipt, benchmark>>
    BY <1>4, <2>1 DEF BeginPrecommit, B!MarkSubmitting
  <2>7. outbox' = [outbox EXCEPT ![<<r, "precommit">>] = "uncertain"]
    BY <2>2
  <2>8. outbox'[<<q, "precommit">>] = IF q = r THEN "uncertain" ELSE outbox[<<q, "precommit">>]
    BY <2>7 DEF TypeOK, Intents, Kinds
  <2>9. /\ state'[q] = IF q = r THEN "uncertain" ELSE state[q]
        /\ receipt'[q] = receipt[q]
        /\ benchmark'[q] = benchmark[q]
    BY <2>2 DEF TypeOK
  <2>10. CASE q = r
    BY <1>0, <2>2, <2>8, <2>9, <2>10, IdentityAssumption DEF PrecommitOK, B!Definitive, BenchmarkIds
  <2>11. CASE q # r
    BY <1>0, <2>8, <2>9, <2>11 DEF PrecommitOK
  <2> QED
    BY <2>10, <2>11
<1>5. ASSUME NEW w \in Workers, NEW r \in Reservations, NEW kind \in Kinds, BeginPayload(w, r, kind) PROVE PrecommitOK(q)'
  BY <1>5, <1>0, IdentityAssumption DEF BeginPayload, Unsent, PrecommitOK, TypeOK,
     reservationVars, outboxVars, tigVars, B!Definitive, BenchmarkIds, Intents, Kinds
<1>6. ASSUME NEW w \in Workers, RecordResponse(w) PROVE PrecommitOK(q)'
  <2>1. PICK r \in Reservations, kind \in Kinds : worker[w].intent = <<r, kind>>
    BY <1>6, PhaseFacts, IntentFacts DEF RecordResponse, TypeOK
  <2>2. UNCHANGED <<state, benchmark>> /\ outbox[<<r, kind>>] \in {"uncertain", "accepted"}
    BY <1>6, <2>1 DEF RecordResponse, reservationVars
  <2>3. CASE worker[w].answer = "ok" /\ kind = "precommit"
    <3>1. /\ outbox' = [outbox EXCEPT ![<<r, "precommit">>] = "accepted"]
          /\ receipt' = [receipt EXCEPT ![r] = r]
          /\ receipt[r] \in {NoBenchmark, r}
      BY <1>6, <2>1, <2>3 DEF RecordResponse
    <3>7. outbox' = [outbox EXCEPT ![<<r, "precommit">>] = "accepted"]
      BY <2>2, <3>1
    <3>8. outbox'[<<q, "precommit">>] = IF q = r THEN "accepted" ELSE outbox[<<q, "precommit">>]
      BY <3>7 DEF TypeOK, Intents, Kinds
    <3>9. /\ state'[q] = state[q]
          /\ receipt'[q] = IF q = r THEN r ELSE receipt[q]
          /\ benchmark'[q] = benchmark[q]
      BY <2>2, <3>1 DEF TypeOK
    <3>10. CASE q = r
      <4>1. benchmark[r] # NoBenchmark => benchmark[r] = r
        BY <1>0, <3>1, <3>10 DEF PrecommitOK
      <4>2. outbox[<<r, "precommit">>] \in {"uncertain", "accepted"}
        BY <2>2, <2>3
      <4> QED
        BY <1>0, <3>8, <3>9, <3>10, <4>1, <4>2, IdentityAssumption DEF PrecommitOK, B!Definitive, BenchmarkIds
    <3>11. CASE q # r
      BY <1>0, <3>8, <3>9, <3>11 DEF PrecommitOK
    <3> QED
      BY <3>10, <3>11
  <2>4. CASE worker[w].answer = "ok" /\ kind # "precommit"
    <3>1. outbox' = [outbox EXCEPT ![<<r, kind>>] = "accepted"] /\ UNCHANGED receipt
      BY <1>6, <2>1, <2>4 DEF RecordResponse
    <3>2. outbox'[<<q, "precommit">>] = outbox[<<q, "precommit">>]
      BY <2>4, <3>1, PayloadStep DEF Kinds
    <3> QED
      BY <1>0, <2>2, <3>1, <3>2 DEF PrecommitOK
  <2>5. CASE worker[w].answer # "ok"
    BY <1>6, <1>1, <2>1, <2>2, <2>5 DEF RecordResponse
  <2> QED
    BY <2>3, <2>4, <2>5
<1>7. ASSUME NEW r \in Reservations, DefinitiveRejection(r) PROVE PrecommitOK(q)'
  <2>1. /\ outbox[<<r, "precommit">>] = "uncertain" /\ state' = [state EXCEPT ![r] = "rejected"]
        /\ outbox' = [outbox EXCEPT ![<<r, "precommit">>] = "rejected"]
        /\ UNCHANGED <<receipt, benchmark>>
    BY <1>7 DEF DefinitiveRejection, B!Reject
  <2>7. outbox' = [outbox EXCEPT ![<<r, "precommit">>] = "rejected"]
    BY <2>1
  <2>8. outbox'[<<q, "precommit">>] = IF q = r THEN "rejected" ELSE outbox[<<q, "precommit">>]
    BY <2>7 DEF TypeOK, Intents, Kinds
  <2>9. /\ state'[q] = IF q = r THEN "rejected" ELSE state[q]
        /\ receipt'[q] = receipt[q]
        /\ benchmark'[q] = benchmark[q]
    BY <2>1 DEF TypeOK
  <2>10. CASE q = r
    BY <1>0, <2>1, <2>8, <2>9, <2>10, IdentityAssumption DEF PrecommitOK, B!Definitive, BenchmarkIds
  <2>11. CASE q # r
    BY <1>0, <2>8, <2>9, <2>11 DEF PrecommitOK
  <2> QED
    BY <2>10, <2>11
<1>8. ASSUME NEW blk \in blocks, NEW r \in Reservations, RecoverPrecommit(blk, r) PROVE PrecommitOK(q)'
  <2>1. /\ outbox[<<r, "precommit">>] = "uncertain" /\ receipt[r] = NoBenchmark
        /\ outbox' = [outbox EXCEPT ![<<r, "precommit">>] = "accepted"]
        /\ UNCHANGED <<state, benchmark>>
    BY <1>8 DEF RecoverPrecommit, reservationVars
  <2>2. PICK b \in BenchmarkIds : receipt' = [receipt EXCEPT ![r] = b]
    BY <1>8, RecoverFacts DEF Candidates
  <2>3. outbox'[<<q, "precommit">>] = IF q = r THEN "accepted" ELSE outbox[<<q, "precommit">>]
    BY <2>1 DEF TypeOK, Intents, Kinds
  <2>4. /\ state'[q] = state[q]
        /\ receipt'[q] = IF q = r THEN b ELSE receipt[q]
        /\ benchmark'[q] = benchmark[q]
    BY <2>1, <2>2 DEF TypeOK
  <2>5. CASE q = r
    BY <1>0, <2>1, <2>3, <2>4, <2>5, IdentityAssumption DEF PrecommitOK, B!Definitive
  <2>6. CASE q # r
    BY <1>0, <2>3, <2>4, <2>6 DEF PrecommitOK
  <2> QED
    BY <2>5, <2>6
<1>9. ASSUME NEW blk \in blocks, NEW r \in Reservations, PublishAssignment(blk, r) PROVE PrecommitOK(q)'
  <2>1. /\ receipt[r] # NoBenchmark /\ state[r] = "uncertain"
        /\ state' = [state EXCEPT ![r] = "accepted"] /\ benchmark' = [benchmark EXCEPT ![r] = receipt[r]]
        /\ UNCHANGED <<receipt, outbox>>
    BY <1>9 DEF PublishAssignment, B!Accept, outboxVars
  <2>2. outbox[<<r, "precommit">>] = "accepted"
    BY <2>1 DEF Precommits, PrecommitOK
  <2> QED
    BY <1>0, <2>1, <2>2 DEF PrecommitOK, B!Definitive, TypeOK
<1>10. ASSUME NEW blk \in blocks, NEW r \in Reservations, ConfirmResults(blk, r) PROVE PrecommitOK(q)'
  BY <1>10, <1>0, IdentityAssumption DEF ConfirmResults, Sent, WasAccepted, PrecommitOK,
     TypeOK, reservationVars, outboxVars, tigVars, B!Definitive, BenchmarkIds, Intents,
     Kinds
<1>11. ASSUME NEW blk \in blocks, NEW r \in Reservations, ConfirmProofs(blk, r) PROVE PrecommitOK(q)'
  BY <1>11, <1>0, IdentityAssumption DEF ConfirmProofs, Sent, WasAccepted, PrecommitOK,
     TypeOK, reservationVars, outboxVars, tigVars, B!Definitive, BenchmarkIds, Intents,
     Kinds
<1>12. ASSUME NEW blk \in blocks, NEW r \in Reservations, RecordListedOutcome(blk, r) PROVE PrecommitOK(q)'
  <2>1. PICK s \in B!Definitive : state[r] = "accepted" /\ state' = [state EXCEPT ![r] = s]
    BY <1>12 DEF RecordListedOutcome, ListedOutcome, B!RecordOutcome, B!Definitive
  <2>2. UNCHANGED <<receipt, outbox, benchmark>>
    BY <1>12 DEF RecordListedOutcome, B!RecordOutcome, outboxVars
  <2> QED
    BY <1>0, <2>1, <2>2, IdentityAssumption DEF PrecommitOK, B!Definitive, TypeOK, BenchmarkIds
<1>13. ASSUME NEW blk \in blocks, NEW r \in Reservations, ExpireUnsentResults(blk, r) PROVE PrecommitOK(q)'
  BY <1>13, <1>0, IdentityAssumption DEF ExpireUnsentResults, NothingSent, Withdrawn,
     LifetimeOver, B!RecordOutcome, PrecommitOK, TypeOK, reservationVars, outboxVars,
     tigVars, B!Definitive, BenchmarkIds, Intents, Kinds
<1>14. ASSUME NEW blk \in blocks, NEW r \in Reservations, ExpireRejectedResults(blk, r) PROVE PrecommitOK(q)'
  BY <1>14, <1>0, IdentityAssumption DEF ExpireRejectedResults, LifetimeOver,
     B!RecordOutcome, PrecommitOK, TypeOK, reservationVars, outboxVars, tigVars,
     B!Definitive, BenchmarkIds, Intents, Kinds
<1>15. ASSUME NEW r \in Reservations, NEW kind \in Kinds, Upload(r, kind) PROVE PrecommitOK(q)'
  <2>1. outbox' = [outbox EXCEPT ![<<r, kind>>] = "ready"] /\ kind \in {"results", "proofs"}
        /\ UNCHANGED <<state, benchmark, receipt>>
    BY <1>15 DEF Upload, B!StoreWork, B!rowVars
  <2>2. outbox'[<<q, "precommit">>] = outbox[<<q, "precommit">>]
    BY <2>1, PayloadStep
  <2> QED
    BY <1>0, <2>1, <2>2 DEF PrecommitOK
<1>16. ASSUME NEW r \in Reservations, ReleaseUnhanded(r) PROVE PrecommitOK(q)'
  BY <1>16, <1>0, IdentityAssumption DEF ReleaseUnhanded, B!ReleaseUnhanded, B!NotHanded,
     B!ReturnCollateral, PrecommitOK, TypeOK, reservationVars, outboxVars, tigVars,
     B!Definitive, BenchmarkIds, Intents, Kinds
<1>17. ASSUME UNCHANGED vars PROVE PrecommitOK(q)'
  BY <1>1, <1>17 DEF vars, reservationVars, outboxVars, tigVars
<1>18. ASSUME NEW w \in Workers, NEW r \in Reservations, Preflight(w, r) PROVE PrecommitOK(q)'
  BY <1>1, <1>18 DEF Preflight, reservationVars, outboxVars, tigVars, B!rowVars,
     B!ledgerVars, B!factVars
<1>19. ASSUME NEW w \in Workers, Post(w) PROVE PrecommitOK(q)'
  BY <1>1, <1>19 DEF Post, reservationVars, outboxVars, tigVars, B!rowVars, B!ledgerVars,
     B!factVars
<1>20. ASSUME NEW w \in Workers, Stop(w) PROVE PrecommitOK(q)'
  BY <1>1, <1>20 DEF Stop, reservationVars, outboxVars, tigVars, B!rowVars, B!ledgerVars,
     B!factVars
<1>21. ASSUME NEW i \in wire, TigAccepts(i) PROVE PrecommitOK(q)'
  BY <1>1, <1>21 DEF TigAccepts, Confirms, Answer, reservationVars, outboxVars, tigVars,
     B!rowVars, B!ledgerVars, B!factVars
<1>22. ASSUME NEW i \in wire, TigRejectsLate(i) PROVE PrecommitOK(q)'
  BY <1>1, <1>22 DEF TigRejectsLate, Answer, reservationVars, outboxVars, tigVars,
     B!rowVars, B!ledgerVars, B!factVars
<1>23. ASSUME NEW i \in wire, TigRefuses(i) PROVE PrecommitOK(q)'
  BY <1>1, <1>23 DEF TigRefuses, Answer, reservationVars, outboxVars, tigVars, B!rowVars,
     B!ledgerVars, B!factVars
<1>24. ASSUME NEW r \in Reservations, Elapse(r) PROVE PrecommitOK(q)'
  BY <1>1, <1>24 DEF Elapse, reservationVars, outboxVars, tigVars, B!rowVars, B!ledgerVars,
     B!factVars
<1>25. ASSUME Archive PROVE PrecommitOK(q)'
  BY <1>1, <1>25 DEF Archive, Shown, reservationVars, outboxVars, tigVars, B!rowVars,
     B!ledgerVars, B!factVars
<1>26. ASSUME NEW blk \in blocks, NEW r \in Reservations, StoreSampled(blk, r) PROVE PrecommitOK(q)'
  BY <1>1, <1>26 DEF StoreSampled, reservationVars, outboxVars, tigVars, B!rowVars,
     B!ledgerVars, B!factVars
<1>27. ASSUME NEW r \in Reservations, Acknowledge(r) PROVE PrecommitOK(q)'
  BY <1>1, <1>27 DEF Acknowledge, B!Acknowledge, reservationVars, outboxVars, tigVars,
     B!rowVars, B!ledgerVars, B!factVars
<1>28. ASSUME NEW r \in Reservations, OfferExpires(r) PROVE PrecommitOK(q)'
  BY <1>1, <1>28 DEF OfferExpires, B!OfferExpires, reservationVars, outboxVars, tigVars,
     B!rowVars, B!ledgerVars, B!factVars
<1>29. ASSUME NEW value \in BOOLEAN, SetPause(value) PROVE PrecommitOK(q)'
  BY <1>1, <1>29 DEF SetPause, B!SetPause, reservationVars, outboxVars, tigVars, B!rowVars,
     B!ledgerVars, B!factVars
<1>30. ASSUME NEW f \in Foreign, ForeignPost(f) PROVE PrecommitOK(q)'
  BY <1>1, <1>30 DEF ForeignPost, reservationVars, outboxVars
<1> QED
  BY <1>2, <1>3, <1>4, <1>5, <1>6, <1>7, <1>8, <1>9, <1>10, <1>11, <1>12, <1>13, <1>14,
     <1>15, <1>16, <1>17, <1>18, <1>19, <1>20, <1>21, <1>22, <1>23, <1>24, <1>25, <1>26,
     <1>27, <1>28, <1>29, <1>30 DEF Next, Dispatch, Tig, Reconcile, People

\* Accepted work has the benchmark of its receipt.
LEMMA AcceptedIsIdentified ==
    ASSUME TypeOK, Precommits, NEW r \in Reservations, state[r] = "accepted"
    PROVE  /\ benchmark[r] = receipt[r] /\ benchmark[r] # NoBenchmark /\ benchmark[r] \in BenchmarkIds
           /\ outbox[<<r, "precommit">>] = "accepted"
<1>1. outbox[<<r, "precommit">>] \in OutboxStates /\ PrecommitOK(r)
  BY IntentFacts DEF TypeOK, Precommits
<1> QED
  BY <1>1 DEF PrecommitOK, OutboxStates, TypeOK

\* Uploads are queued for accepted work only.
LEMMA NextPayloads ==
    ASSUME TypeOK, Precommits, Payloads, [Next]_vars PROVE Payloads'
<1> SUFFICES ASSUME NEW q \in Reservations PROVE PayloadOK(q)'
  BY DEF Payloads
<1>0. PayloadOK(q)
  BY DEF Payloads
<1>1. ASSUME UNCHANGED <<benchmark, handed, outbox, state>> PROVE PayloadOK(q)'
  BY <1>1, <1>0 DEF PayloadOK, TypeOK, reservationVars, outboxVars, tigVars, Intents, Kinds
<1>2. ASSUME NEW r \in Reservations, ReserveNext(r) PROVE PayloadOK(q)'
  BY <1>2, <1>0 DEF ReserveNext, B!Reserve, PayloadOK, TypeOK, reservationVars, outboxVars,
     tigVars, Intents, Kinds
<1>3. ASSUME NEW r \in Reservations, CancelUnsent(r) PROVE PayloadOK(q)'
  BY <1>3, <1>0 DEF CancelUnsent, B!Cancel, PayloadOK, TypeOK,
     reservationVars, outboxVars, tigVars, Intents, Kinds
<1>4. ASSUME NEW w \in Workers, BeginPrecommit(w) PROVE PayloadOK(q)'
  <2>1. PICK r \in Reservations : worker[w].intent = <<r, "precommit">>
    BY <1>4, PhaseFacts DEF BeginPrecommit, TypeOK
  <2>2. /\ state[r] = "reserved" /\ state' = [state EXCEPT ![r] = "uncertain"]
        /\ outbox' = [outbox EXCEPT ![<<r, "precommit">>] = "uncertain"]
        /\ UNCHANGED <<handed, benchmark>>
    BY <1>4, <2>1 DEF BeginPrecommit, B!MarkSubmitting
  <2> QED
    BY <1>0, <2>2, PrecommitStep DEF PayloadOK, TypeOK
<1>5. ASSUME NEW w \in Workers, NEW r \in Reservations, NEW kind \in Kinds, BeginPayload(w, r, kind) PROVE PayloadOK(q)'
  BY <1>5, <1>0 DEF BeginPayload, Unsent, PayloadOK, TypeOK, reservationVars, outboxVars,
     tigVars, Intents, Kinds
<1>6. ASSUME NEW w \in Workers, RecordResponse(w) PROVE PayloadOK(q)'
  BY <1>6, <1>0 DEF RecordResponse, PayloadOK, TypeOK, reservationVars, outboxVars,
     tigVars, Intents, Kinds
<1>7. ASSUME NEW r \in Reservations, DefinitiveRejection(r) PROVE PayloadOK(q)'
  BY <1>7, <1>0 DEF DefinitiveRejection, NeverAtTig, B!Reject, PayloadOK, TypeOK,
     reservationVars, outboxVars, tigVars, Intents, Kinds
<1>8. ASSUME NEW blk \in blocks, NEW r \in Reservations, RecoverPrecommit(blk, r) PROVE PayloadOK(q)'
  BY <1>8, <1>0 DEF RecoverPrecommit, PayloadOK, TypeOK, reservationVars, outboxVars,
     tigVars, Intents, Kinds
<1>9. ASSUME NEW blk \in blocks, NEW r \in Reservations, PublishAssignment(blk, r) PROVE PayloadOK(q)'
  BY <1>9, <1>0 DEF PublishAssignment, B!Accept, PayloadOK, TypeOK, reservationVars,
     outboxVars, tigVars, Intents, Kinds
<1>10. ASSUME NEW blk \in blocks, NEW r \in Reservations, ConfirmResults(blk, r) PROVE PayloadOK(q)'
  BY <1>10, <1>0 DEF ConfirmResults, Sent, WasAccepted, PayloadOK, TypeOK, reservationVars,
     outboxVars, tigVars, Intents, Kinds
<1>11. ASSUME NEW blk \in blocks, NEW r \in Reservations, ConfirmProofs(blk, r) PROVE PayloadOK(q)'
  BY <1>11, <1>0 DEF ConfirmProofs, Sent, WasAccepted, PayloadOK, TypeOK, reservationVars,
     outboxVars, tigVars, Intents, Kinds
<1>12. ASSUME NEW blk \in blocks, NEW r \in Reservations, RecordListedOutcome(blk, r) PROVE PayloadOK(q)'
  BY <1>12, <1>0 DEF RecordListedOutcome, ListedOutcome, B!RecordOutcome, PayloadOK,
     TypeOK, reservationVars, outboxVars, tigVars, Intents, Kinds
<1>13. ASSUME NEW blk \in blocks, NEW r \in Reservations, ExpireUnsentResults(blk, r) PROVE PayloadOK(q)'
  BY <1>13, <1>0 DEF ExpireUnsentResults, NothingSent, Withdrawn, LifetimeOver,
     B!RecordOutcome, PayloadOK, TypeOK, reservationVars, outboxVars, tigVars, Intents,
     Kinds
<1>14. ASSUME NEW blk \in blocks, NEW r \in Reservations, ExpireRejectedResults(blk, r) PROVE PayloadOK(q)'
  BY <1>14, <1>0 DEF ExpireRejectedResults, LifetimeOver, B!RecordOutcome, PayloadOK,
     TypeOK, reservationVars, outboxVars, tigVars, Intents, Kinds
<1>15. ASSUME NEW r \in Reservations, Acknowledge(r) PROVE PayloadOK(q)'
  <2>1. state[r] = "accepted" /\ benchmark[r] # NoBenchmark
    BY <1>15, AcceptedIsIdentified DEF Acknowledge, B!Acknowledge, B!AwaitsHandover
  <2> QED
    BY <1>15, <1>0, <2>1 DEF Acknowledge, B!Acknowledge, PayloadOK, TypeOK, reservationVars,
       outboxVars, tigVars, B!rowVars
<1>16. ASSUME NEW r \in Reservations, NEW kind \in Kinds, Upload(r, kind) PROVE PayloadOK(q)'
  <2>1. /\ outbox' = [outbox EXCEPT ![<<r, kind>>] = "ready"] /\ outbox[<<r, kind>>] = "none"
        /\ kind \in {"results", "proofs"}
        /\ kind = "proofs" => outbox[<<r, "results">>] # "none"
        /\ state[r] = "accepted" /\ handed[r] /\ UNCHANGED <<state, handed, benchmark>>
    BY <1>16 DEF Upload, B!StoreWork, B!rowVars
  <2>2. CASE kind = "results"
    <3>0. outbox' = [outbox EXCEPT ![<<r, "results">>] = "ready"] /\ "results" \in {"results", "proofs"}
      BY <2>1, <2>2
    <3>1. outbox'[<<q, "results">>] = (IF q = r THEN "ready" ELSE outbox[<<q, "results">>])
          /\ outbox'[<<q, "proofs">>] = outbox[<<q, "proofs">>]
      BY <3>0 DEF TypeOK, Intents, Kinds
    <3> QED
      BY <1>0, <2>1, <2>2, <3>1 DEF PayloadOK
  <2>3. CASE kind = "proofs"
    <3>0. outbox' = [outbox EXCEPT ![<<r, "proofs">>] = "ready"] /\ "proofs" \in {"results", "proofs"}
      BY <2>1, <2>3
    <3>1. outbox'[<<q, "proofs">>] = (IF q = r THEN "ready" ELSE outbox[<<q, "proofs">>])
          /\ outbox'[<<q, "results">>] = outbox[<<q, "results">>]
      BY <3>0 DEF TypeOK, Intents, Kinds
    <3> QED
      BY <1>0, <2>1, <2>3, <3>1 DEF PayloadOK
  <2> QED
    BY <2>1, <2>2, <2>3
<1>17. ASSUME NEW r \in Reservations, ReleaseUnhanded(r) PROVE PayloadOK(q)'
  BY <1>17, <1>0 DEF ReleaseUnhanded, B!ReleaseUnhanded, B!NotHanded, B!ReturnCollateral,
     PayloadOK, TypeOK, reservationVars, outboxVars, tigVars, Intents, Kinds
<1>18. ASSUME UNCHANGED vars PROVE PayloadOK(q)'
  BY <1>1, <1>18 DEF vars, reservationVars, outboxVars, tigVars
<1>19. ASSUME NEW w \in Workers, NEW r \in Reservations, Preflight(w, r) PROVE PayloadOK(q)'
  BY <1>1, <1>19 DEF Preflight, reservationVars, outboxVars, tigVars, B!rowVars,
     B!ledgerVars, B!factVars
<1>20. ASSUME NEW w \in Workers, Post(w) PROVE PayloadOK(q)'
  BY <1>1, <1>20 DEF Post, reservationVars, outboxVars, tigVars, B!rowVars, B!ledgerVars,
     B!factVars
<1>21. ASSUME NEW w \in Workers, Stop(w) PROVE PayloadOK(q)'
  BY <1>1, <1>21 DEF Stop, reservationVars, outboxVars, tigVars, B!rowVars, B!ledgerVars,
     B!factVars
<1>22. ASSUME NEW i \in wire, TigAccepts(i) PROVE PayloadOK(q)'
  BY <1>1, <1>22 DEF TigAccepts, Confirms, Answer, reservationVars, outboxVars, tigVars,
     B!rowVars, B!ledgerVars, B!factVars
<1>23. ASSUME NEW i \in wire, TigRejectsLate(i) PROVE PayloadOK(q)'
  BY <1>1, <1>23 DEF TigRejectsLate, Answer, reservationVars, outboxVars, tigVars,
     B!rowVars, B!ledgerVars, B!factVars
<1>24. ASSUME NEW i \in wire, TigRefuses(i) PROVE PayloadOK(q)'
  BY <1>1, <1>24 DEF TigRefuses, Answer, reservationVars, outboxVars, tigVars, B!rowVars,
     B!ledgerVars, B!factVars
<1>25. ASSUME NEW r \in Reservations, Elapse(r) PROVE PayloadOK(q)'
  BY <1>1, <1>25 DEF Elapse, reservationVars, outboxVars, tigVars, B!rowVars, B!ledgerVars,
     B!factVars
<1>26. ASSUME Archive PROVE PayloadOK(q)'
  BY <1>1, <1>26 DEF Archive, Shown, reservationVars, outboxVars, tigVars, B!rowVars,
     B!ledgerVars, B!factVars
<1>27. ASSUME NEW blk \in blocks, NEW r \in Reservations, StoreSampled(blk, r) PROVE PayloadOK(q)'
  BY <1>1, <1>27 DEF StoreSampled, reservationVars, outboxVars, tigVars, B!rowVars,
     B!ledgerVars, B!factVars
<1>28. ASSUME NEW r \in Reservations, OfferExpires(r) PROVE PayloadOK(q)'
  BY <1>1, <1>28 DEF OfferExpires, B!OfferExpires, reservationVars, outboxVars, tigVars,
     B!rowVars, B!ledgerVars, B!factVars
<1>29. ASSUME NEW value \in BOOLEAN, SetPause(value) PROVE PayloadOK(q)'
  BY <1>1, <1>29 DEF SetPause, B!SetPause, reservationVars, outboxVars, tigVars, B!rowVars,
     B!ledgerVars, B!factVars
<1>30. ASSUME NEW f \in Foreign, ForeignPost(f) PROVE PayloadOK(q)'
  BY <1>1, <1>30 DEF ForeignPost, reservationVars, outboxVars
<1> QED
  BY <1>2, <1>3, <1>4, <1>5, <1>6, <1>7, <1>8, <1>9, <1>10, <1>11, <1>12, <1>13, <1>14,
     <1>15, <1>16, <1>17, <1>18, <1>19, <1>20, <1>21, <1>22, <1>23, <1>24, <1>25, <1>26,
     <1>27, <1>28, <1>29, <1>30 DEF Next, Dispatch, Tig, Reconcile, People

-----------------------------------------------------------------------------
(***************************************************************************)
(* What no step takes back: a sent intent, a confirmed stage, the end of a *)
(* lifetime.                                                               *)
(***************************************************************************)

\* Only four transactions say which benchmark a reservation has, and what its
\* preflight listed.
LEMMA NextIdentity ==
    ASSUME [Next]_vars
    PROVE  \/ UNCHANGED <<receipt, benchmark, seen>>
           \/ \E w \in Workers : BeginPrecommit(w) \/ RecordResponse(w)
           \/ \E blk \in blocks, r \in Reservations :
                 RecoverPrecommit(blk, r) \/ PublishAssignment(blk, r)
<1> DEFINE Same == UNCHANGED <<receipt, benchmark, seen>>
<1> USE DEF reservationVars, outboxVars, B!rowVars
<1>1. ASSUME NEW r \in Reservations, ReserveNext(r) PROVE Same
  BY <1>1 DEF ReserveNext, B!Reserve
<1>2. ASSUME NEW r \in Reservations, CancelUnsent(r) PROVE Same
  BY <1>2 DEF CancelUnsent, B!Cancel
<1>3. ASSUME NEW w \in Workers, NEW r \in Reservations, Preflight(w, r) PROVE Same
  BY <1>3 DEF Preflight
<1>4. ASSUME NEW w \in Workers, NEW r \in Reservations, NEW kind \in Kinds, BeginPayload(w, r, kind) PROVE Same
  BY <1>4 DEF BeginPayload
<1>5. ASSUME NEW w \in Workers, Post(w) PROVE Same
  BY <1>5 DEF Post
<1>6. ASSUME NEW w \in Workers, Stop(w) PROVE Same
  BY <1>6 DEF Stop
<1>7. ASSUME NEW i \in wire, TigAccepts(i) PROVE Same
  BY <1>7 DEF TigAccepts
<1>8. ASSUME NEW i \in wire, TigRejectsLate(i) PROVE Same
  BY <1>8 DEF TigRejectsLate
<1>9. ASSUME NEW i \in wire, TigRefuses(i) PROVE Same
  BY <1>9 DEF TigRefuses
<1>10. ASSUME NEW f \in Foreign, ForeignPost(f) PROVE Same
  BY <1>10 DEF ForeignPost
<1>11. ASSUME NEW r \in Reservations, Elapse(r) PROVE Same
  BY <1>11 DEF Elapse
<1>12. ASSUME Archive PROVE Same
  BY <1>12 DEF Archive
<1>13. ASSUME NEW r \in Reservations, DefinitiveRejection(r) PROVE Same
  BY <1>13 DEF DefinitiveRejection, B!Reject
<1>14. ASSUME NEW blk \in blocks, NEW r \in Reservations, ConfirmResults(blk, r) PROVE Same
  BY <1>14 DEF ConfirmResults
<1>15. ASSUME NEW blk \in blocks, NEW r \in Reservations, StoreSampled(blk, r) PROVE Same
  BY <1>15 DEF StoreSampled
<1>16. ASSUME NEW blk \in blocks, NEW r \in Reservations, ConfirmProofs(blk, r) PROVE Same
  BY <1>16 DEF ConfirmProofs
<1>17. ASSUME NEW blk \in blocks, NEW r \in Reservations, RecordListedOutcome(blk, r) PROVE Same
  BY <1>17 DEF RecordListedOutcome, B!RecordOutcome
<1>18. ASSUME NEW blk \in blocks, NEW r \in Reservations, ExpireUnsentResults(blk, r) PROVE Same
  BY <1>18 DEF ExpireUnsentResults, B!RecordOutcome
<1>19. ASSUME NEW blk \in blocks, NEW r \in Reservations, ExpireRejectedResults(blk, r) PROVE Same
  BY <1>19 DEF ExpireRejectedResults, B!RecordOutcome
<1>20. ASSUME NEW r \in Reservations, Acknowledge(r) PROVE Same
  BY <1>20 DEF Acknowledge, B!Acknowledge
<1>21. ASSUME NEW r \in Reservations, NEW kind \in Kinds, Upload(r, kind) PROVE Same
  BY <1>21 DEF Upload, B!StoreWork
<1>22. ASSUME NEW r \in Reservations, OfferExpires(r) PROVE Same
  BY <1>22 DEF OfferExpires, B!OfferExpires
<1>23. ASSUME NEW value \in BOOLEAN, SetPause(value) PROVE Same
  BY <1>23 DEF SetPause, B!SetPause
<1>24. ASSUME NEW r \in Reservations, ReleaseUnhanded(r) PROVE Same
  BY <1>24 DEF ReleaseUnhanded, B!ReleaseUnhanded, B!ReturnCollateral
<1>25. ASSUME UNCHANGED vars PROVE Same
  BY <1>25 DEF vars
<1> QED
  BY <1>1, <1>2, <1>3, <1>4, <1>5, <1>6, <1>7, <1>8, <1>9, <1>10, <1>11, <1>12, <1>13,
     <1>14, <1>15, <1>16, <1>17, <1>18, <1>19, <1>20, <1>21, <1>22, <1>23, <1>24,
     <1>25 DEF Next, Dispatch, Tig, Reconcile, People

\* Once recorded they stay.
LEMMA NextKept ==
    ASSUME TypeOK, Precommits, [Next]_vars, NEW r \in Reservations
    PROVE  /\ receipt[r] # NoBenchmark => receipt'[r] = receipt[r] /\ seen'[r] = seen[r]
           /\ benchmark[r] # NoBenchmark => benchmark'[r] = benchmark[r]
<1> DEFINE Kept == /\ receipt[r] # NoBenchmark => receipt'[r] = receipt[r] /\ seen'[r] = seen[r]
                   /\ benchmark[r] # NoBenchmark => benchmark'[r] = benchmark[r]
<1> SUFFICES Kept
  OBVIOUS
<1>1. ASSUME UNCHANGED <<receipt, benchmark, seen>> PROVE Kept
  BY <1>1
<1>2. ASSUME NEW w \in Workers, BeginPrecommit(w) PROVE Kept
  <2>1. PICK q \in Reservations : worker[w].intent = <<q, "precommit">>
    BY <1>2, PhaseFacts DEF BeginPrecommit, TypeOK
  <2>2. /\ outbox[<<q, "precommit">>] = "ready" /\ UNCHANGED <<receipt, benchmark>>
        /\ seen' = [seen EXCEPT ![q] = worker[w].ids]
    BY <1>2, <2>1 DEF BeginPrecommit, Unsent, B!MarkSubmitting
  <2>3. receipt[q] = NoBenchmark
    BY <2>2 DEF Precommits, PrecommitOK
  <2> QED
    BY <2>2, <2>3 DEF TypeOK
<1>3. ASSUME NEW w \in Workers, RecordResponse(w) PROVE Kept
  <2>1. PICK q \in Reservations : worker[w].intent[1] = q
    BY <1>3, PhaseFacts, IntentFacts DEF RecordResponse, TypeOK
  <2>2. /\ UNCHANGED <<benchmark, seen>>
        /\ \/ receipt[q] \in {NoBenchmark, q} /\ receipt' = [receipt EXCEPT ![q] = q]
           \/ UNCHANGED receipt
    BY <1>3, <2>1 DEF RecordResponse, reservationVars
  <2> QED
    BY <2>2 DEF TypeOK
<1>4. ASSUME NEW blk \in blocks, NEW q \in Reservations, RecoverPrecommit(blk, q) PROVE Kept
  BY <1>4 DEF RecoverPrecommit, reservationVars, TypeOK
<1>5. ASSUME NEW blk \in blocks, NEW q \in Reservations, PublishAssignment(blk, q) PROVE Kept
  BY <1>5 DEF PublishAssignment, B!Accept, outboxVars, TypeOK
<1> QED
  BY <1>1, <1>2, <1>3, <1>4, <1>5, NextIdentity

\* An intent that may have been sent is never unsent again.
LEMMA NextSent ==
    ASSUME TypeOK, Precommits, [Next]_vars PROVE \A i \in Intents : outbox[i] \notin NeverSent => outbox'[i] \notin NeverSent
<1> SUFFICES ASSUME NEW j \in Intents, outbox[j] \notin NeverSent PROVE outbox'[j] \notin NeverSent
  OBVIOUS
<1>1. ASSUME UNCHANGED <<outbox>> PROVE outbox'[j] \notin NeverSent
  BY <1>1 DEF NeverSent, TypeOK, reservationVars, outboxVars, tigVars, Intents, Kinds
<1>2. ASSUME NEW r \in Reservations, ReserveNext(r) PROVE outbox'[j] \notin NeverSent
  <2>1. outbox[<<r, "precommit">>] = "none" /\ outbox' = [outbox EXCEPT ![<<r, "precommit">>] = "ready"]
    BY <1>2 DEF ReserveNext, B!Reserve, Precommits, PrecommitOK
  <2> QED
    BY <2>1 DEF NeverSent, TypeOK
<1>3. ASSUME NEW r \in Reservations, CancelUnsent(r) PROVE outbox'[j] \notin NeverSent
  BY <1>3 DEF CancelUnsent, B!Cancel, NeverSent, TypeOK, reservationVars,
     outboxVars, tigVars, Intents, Kinds
<1>4. ASSUME NEW w \in Workers, BeginPrecommit(w) PROVE outbox'[j] \notin NeverSent
  <2>1. worker[w].intent \in Intents
    BY <1>4, PhaseFacts DEF BeginPrecommit, TypeOK
  <2> QED
    BY <1>4, <2>1 DEF BeginPrecommit, TypeOK, NeverSent
<1>5. ASSUME NEW w \in Workers, NEW r \in Reservations, NEW kind \in Kinds, BeginPayload(w, r, kind) PROVE outbox'[j] \notin NeverSent
  BY <1>5 DEF BeginPayload, Unsent, NeverSent, TypeOK, reservationVars, outboxVars,
     tigVars, Intents, Kinds
<1>6. ASSUME NEW w \in Workers, RecordResponse(w) PROVE outbox'[j] \notin NeverSent
  <2>1. worker[w].intent \in Intents
    BY <1>6, PhaseFacts DEF RecordResponse, TypeOK
  <2> QED
    BY <1>6, <2>1 DEF RecordResponse, TypeOK, NeverSent
<1>7. ASSUME NEW r \in Reservations, DefinitiveRejection(r) PROVE outbox'[j] \notin NeverSent
  BY <1>7 DEF DefinitiveRejection, NeverAtTig, B!Reject, NeverSent, TypeOK,
     reservationVars, outboxVars, tigVars, Intents, Kinds
<1>8. ASSUME NEW blk \in blocks, NEW r \in Reservations, RecoverPrecommit(blk, r) PROVE outbox'[j] \notin NeverSent
  BY <1>8 DEF RecoverPrecommit, NeverSent, TypeOK, reservationVars, outboxVars, tigVars,
     Intents, Kinds
<1>9. ASSUME NEW blk \in blocks, NEW r \in Reservations, ConfirmResults(blk, r) PROVE outbox'[j] \notin NeverSent
  BY <1>9 DEF ConfirmResults, Sent, WasAccepted, NeverSent, TypeOK, reservationVars,
     outboxVars, tigVars, Intents, Kinds
<1>10. ASSUME NEW blk \in blocks, NEW r \in Reservations, ConfirmProofs(blk, r) PROVE outbox'[j] \notin NeverSent
  BY <1>10 DEF ConfirmProofs, Sent, WasAccepted, NeverSent, TypeOK, reservationVars,
     outboxVars, tigVars, Intents, Kinds
<1>11. ASSUME NEW blk \in blocks, NEW r \in Reservations, ExpireUnsentResults(blk, r) PROVE outbox'[j] \notin NeverSent
  BY <1>11 DEF ExpireUnsentResults, NothingSent, Withdrawn, LifetimeOver, B!RecordOutcome,
     NeverSent, TypeOK, reservationVars, outboxVars, tigVars, Intents, Kinds
<1>12. ASSUME NEW blk \in blocks, NEW r \in Reservations, ExpireRejectedResults(blk, r) PROVE outbox'[j] \notin NeverSent
  BY <1>12 DEF ExpireRejectedResults, LifetimeOver, B!RecordOutcome, NeverSent, TypeOK,
     reservationVars, outboxVars, tigVars, Intents, Kinds
<1>13. ASSUME NEW r \in Reservations, NEW kind \in Kinds, Upload(r, kind) PROVE outbox'[j] \notin NeverSent
  BY <1>13 DEF Upload, B!StoreWork, NeverSent, TypeOK, reservationVars, outboxVars,
     tigVars, Intents, Kinds
<1>14. ASSUME UNCHANGED vars PROVE outbox'[j] \notin NeverSent
  BY <1>1, <1>14 DEF vars, reservationVars, outboxVars, tigVars
<1>15. ASSUME NEW w \in Workers, NEW r \in Reservations, Preflight(w, r) PROVE outbox'[j] \notin NeverSent
  BY <1>1, <1>15 DEF Preflight, reservationVars, outboxVars, tigVars, B!rowVars,
     B!ledgerVars, B!factVars
<1>16. ASSUME NEW w \in Workers, Post(w) PROVE outbox'[j] \notin NeverSent
  BY <1>1, <1>16 DEF Post, reservationVars, outboxVars, tigVars, B!rowVars, B!ledgerVars,
     B!factVars
<1>17. ASSUME NEW w \in Workers, Stop(w) PROVE outbox'[j] \notin NeverSent
  BY <1>1, <1>17 DEF Stop, reservationVars, outboxVars, tigVars, B!rowVars, B!ledgerVars,
     B!factVars
<1>18. ASSUME NEW i \in wire, TigAccepts(i) PROVE outbox'[j] \notin NeverSent
  BY <1>1, <1>18 DEF TigAccepts, Confirms, Answer, reservationVars, outboxVars, tigVars,
     B!rowVars, B!ledgerVars, B!factVars
<1>19. ASSUME NEW i \in wire, TigRejectsLate(i) PROVE outbox'[j] \notin NeverSent
  BY <1>1, <1>19 DEF TigRejectsLate, Answer, reservationVars, outboxVars, tigVars,
     B!rowVars, B!ledgerVars, B!factVars
<1>20. ASSUME NEW i \in wire, TigRefuses(i) PROVE outbox'[j] \notin NeverSent
  BY <1>1, <1>20 DEF TigRefuses, Answer, reservationVars, outboxVars, tigVars, B!rowVars,
     B!ledgerVars, B!factVars
<1>21. ASSUME NEW r \in Reservations, Elapse(r) PROVE outbox'[j] \notin NeverSent
  BY <1>1, <1>21 DEF Elapse, reservationVars, outboxVars, tigVars, B!rowVars, B!ledgerVars,
     B!factVars
<1>22. ASSUME Archive PROVE outbox'[j] \notin NeverSent
  BY <1>1, <1>22 DEF Archive, Shown, reservationVars, outboxVars, tigVars, B!rowVars,
     B!ledgerVars, B!factVars
<1>23. ASSUME NEW blk \in blocks, NEW r \in Reservations, PublishAssignment(blk, r) PROVE outbox'[j] \notin NeverSent
  BY <1>1, <1>23 DEF PublishAssignment, B!Accept, reservationVars, outboxVars, tigVars,
     B!rowVars, B!ledgerVars, B!factVars
<1>24. ASSUME NEW blk \in blocks, NEW r \in Reservations, StoreSampled(blk, r) PROVE outbox'[j] \notin NeverSent
  BY <1>1, <1>24 DEF StoreSampled, reservationVars, outboxVars, tigVars, B!rowVars,
     B!ledgerVars, B!factVars
<1>25. ASSUME NEW blk \in blocks, NEW r \in Reservations, RecordListedOutcome(blk, r) PROVE outbox'[j] \notin NeverSent
  BY <1>1, <1>25 DEF RecordListedOutcome, ListedOutcome, B!RecordOutcome, reservationVars,
     outboxVars, tigVars, B!rowVars, B!ledgerVars, B!factVars
<1>26. ASSUME NEW r \in Reservations, Acknowledge(r) PROVE outbox'[j] \notin NeverSent
  BY <1>1, <1>26 DEF Acknowledge, B!Acknowledge, reservationVars, outboxVars, tigVars,
     B!rowVars, B!ledgerVars, B!factVars
<1>27. ASSUME NEW r \in Reservations, OfferExpires(r) PROVE outbox'[j] \notin NeverSent
  BY <1>1, <1>27 DEF OfferExpires, B!OfferExpires, reservationVars, outboxVars, tigVars,
     B!rowVars, B!ledgerVars, B!factVars
<1>28. ASSUME NEW value \in BOOLEAN, SetPause(value) PROVE outbox'[j] \notin NeverSent
  BY <1>1, <1>28 DEF SetPause, B!SetPause, reservationVars, outboxVars, tigVars, B!rowVars,
     B!ledgerVars, B!factVars
<1>29. ASSUME NEW r \in Reservations, ReleaseUnhanded(r) PROVE outbox'[j] \notin NeverSent
  BY <1>1, <1>29 DEF ReleaseUnhanded, B!ReleaseUnhanded, B!NotHanded, B!ReturnCollateral,
     reservationVars, outboxVars, tigVars, B!rowVars, B!ledgerVars, B!factVars
<1>30. ASSUME NEW f \in Foreign, ForeignPost(f) PROVE outbox'[j] \notin NeverSent
  BY <1>1, <1>30 DEF ForeignPost, reservationVars, outboxVars
<1> QED
  BY <1>2, <1>3, <1>4, <1>5, <1>6, <1>7, <1>8, <1>9, <1>10, <1>11, <1>12, <1>13, <1>14,
     <1>15, <1>16, <1>17, <1>18, <1>19, <1>20, <1>21, <1>22, <1>23, <1>24, <1>25, <1>26,
     <1>27, <1>28, <1>29, <1>30 DEF Next, Dispatch, Tig, Reconcile, People

-----------------------------------------------------------------------------
(***************************************************************************)
(* Which benchmark a reservation has.                                      *)
(***************************************************************************)

\* A benchmark has one reservation.
LEMMA OneBenchmark ==
    ASSUME OwnBenchmark, NEW q \in Reservations, NEW r \in Reservations,
           benchmark[q] = benchmark[r], benchmark[q] # NoBenchmark
    PROVE  q = r
  BY DEF OwnBenchmark

\* A reservation with the settings of r was given a foreign benchmark.
Excused(r) == \E q \in Reservations, f \in Foreign : MatchKey[q] = MatchKey[r] /\ Mistaken(f, q)

\* Of the listed benchmarks that a block cannot tell apart from the precommit of
\* r, and that nobody has a receipt of, only the one of r's own POST, foreign ones
\* that the preflight did not list, and one whose own reservation was given
\* another are left: the fence let nobody else send.
LEMMA OtherCandidate ==
    ASSUME TypeOK, Precommits, Delivery, Stages, Archived, Fenced, ReleasedIsAbsent, OwnBenchmark,
           NEW blk \in blocks, NEW r \in Reservations, outbox[<<r, "precommit">>] = "uncertain",
           NEW b \in Candidates(blk, r), b # r
    PROVE  MatchKey[b] = MatchKey[r] /\ ((b \in Foreign /\ b \notin seen[r]) \/ Excused(r))
<1>1. /\ b \in BenchmarkIds /\ blk.view[b] # "nothing" /\ MatchKey[b] = MatchKey[r]
      /\ b \notin seen[r] /\ ~Received(b)
  BY DEF Candidates
<1>2. CASE b \in Foreign
  BY <1>1, <1>2
<1>3. CASE b \in Reservations
  <2>1. tig[b] # "absent" /\ <<b, "precommit">> \in Intents
    BY <1>1, <1>3, IntentFacts DEF Archived, ShownOf
  <2>2. Reached(<<b, "precommit">>)
    BY <2>1 DEF Reached
  <2>3. outbox[<<b, "precommit">>] \in {"uncertain", "accepted", "rejected"}
    BY <2>1, <2>2 DEF Stages, Delivery, NeverSent, TypeOK, OutboxStates
  <2>4. outbox[<<b, "precommit">>] # "uncertain"
    BY <1>1, <1>3 DEF Fenced, FencedOf, Unambiguous
  <2>5. outbox[<<b, "precommit">>] # "rejected"
    BY <1>3, <2>1 DEF Precommits, PrecommitOK, ReleasedIsAbsent, B!Definitive
  <2>6. receipt[b] \notin {NoBenchmark, b}
    BY <1>1, <1>3, <2>3, <2>4, <2>5 DEF Precommits, PrecommitOK, Received
  <2>7. Excused(b)
    BY <1>3, <2>6 DEF OwnBenchmark, Excused
  <2> QED
    BY <1>1, <2>7 DEF Excused
<1> QED
  BY <1>1, <1>2, <1>3 DEF BenchmarkIds

\* A reservation gets its own benchmark, or others have posted one like it.
LEMMA NextOwned ==
    ASSUME TypeOK, Precommits, Delivery, Stages, Archived, Fenced, ReleasedIsAbsent, OwnBenchmark,
           [Next]_vars
    PROVE  OwnBenchmark'
<1>1. Precommits'
  BY NextPrecommits
<1>2. \A r \in Reservations : benchmark'[r] \in {NoBenchmark, receipt'[r]}
  BY <1>1 DEF Precommits, PrecommitOK
<1>3. ASSUME NEW r \in Reservations, Excused(r) PROVE Excused(r)'
  <2>1. PICK q \in Reservations, f \in Foreign : MatchKey[q] = MatchKey[r] /\ Mistaken(f, q)
    BY <1>3 DEF Excused
  <2>2. receipt[q] # NoBenchmark
    BY <2>1, IdentityAssumption DEF Mistaken, BenchmarkIds
  <2>3. receipt'[q] = receipt[q] /\ seen'[q] = seen[q]
    BY <2>2, NextKept
  <2> QED
    BY <2>1, <2>3 DEF Mistaken, Excused
<1>4. ASSUME UNCHANGED receipt PROVE OwnBenchmark'
  BY <1>2, <1>3, <1>4 DEF OwnBenchmark, Excused
\* One reservation gets a receipt that nobody has.
<1>5. ASSUME NEW r \in Reservations, NEW b \in BenchmarkIds, receipt' = [receipt EXCEPT ![r] = b],
             receipt[r] = NoBenchmark, ~Received(b),
             b # r => MatchKey[b] = MatchKey[r] /\ Excused(r)'
      PROVE  OwnBenchmark'
  <2>1. \A q \in Reservations : receipt'[q] = IF q = r THEN b ELSE receipt[q]
    BY <1>5 DEF TypeOK
  <2>2. ASSUME NEW p \in Reservations, NEW q \in Reservations, p # q, receipt'[p] = receipt'[q]
        PROVE  receipt'[q] = NoBenchmark
    BY <1>5, <2>1, <2>2 DEF OwnBenchmark, Received
  <2>3. ASSUME NEW q \in Reservations, receipt'[q] \notin {NoBenchmark, q}
        PROVE  MatchKey[receipt'[q]] = MatchKey[q] /\ Excused(q)'
    <3>1. CASE q = r
      BY <1>5, <2>1, <2>3, <3>1
    <3>2. CASE q # r
      <4>1. receipt'[q] = receipt[q]
        BY <2>1, <3>2
      <4>2. MatchKey[receipt[q]] = MatchKey[q] /\ Excused(q)
        BY <2>3, <4>1 DEF OwnBenchmark, Excused
      <4> QED
        BY <1>3, <4>1, <4>2
    <3> QED
      BY <3>1, <3>2
  <2> QED
    BY <1>2, <2>2, <2>3 DEF OwnBenchmark, Excused
<1>6. ASSUME NEW w \in Workers, BeginPrecommit(w) PROVE OwnBenchmark'
  BY <1>4, <1>6 DEF BeginPrecommit
<1>7. ASSUME NEW w \in Workers, RecordResponse(w) PROVE OwnBenchmark'
  <2>1. PICK r \in Reservations : worker[w].intent[1] = r
    BY <1>7, PhaseFacts, IntentFacts DEF RecordResponse, TypeOK
  <2>2. \/ /\ receipt[r] = NoBenchmark => ~Received(r)
           /\ receipt[r] \in {NoBenchmark, r} /\ receipt' = [receipt EXCEPT ![r] = r]
        \/ UNCHANGED receipt
    BY <1>7, <2>1 DEF RecordResponse
  <2>3. CASE receipt[r] = NoBenchmark /\ ~Received(r) /\ receipt' = [receipt EXCEPT ![r] = r]
    BY <1>5, <2>3 DEF BenchmarkIds
  <2>4. CASE receipt[r] = r /\ receipt' = [receipt EXCEPT ![r] = r]
    <3>1. UNCHANGED receipt
      BY <2>4 DEF TypeOK
    <3> QED
      BY <1>4, <3>1
  <2> QED
    BY <1>4, <2>2, <2>3, <2>4
<1>8. ASSUME NEW blk \in blocks, NEW r \in Reservations, RecoverPrecommit(blk, r) PROVE OwnBenchmark'
  <2>1. PICK b \in Candidates(blk, r) : receipt' = [receipt EXCEPT ![r] = b]
    BY <1>8, RecoverFacts
  <2>2. /\ outbox[<<r, "precommit">>] = "uncertain" /\ receipt[r] = NoBenchmark
        /\ b \in BenchmarkIds /\ ~Received(b) /\ UNCHANGED seen
    BY <1>8 DEF RecoverPrecommit, Candidates
  <2>3. ASSUME b # r PROVE MatchKey[b] = MatchKey[r] /\ Excused(r)'
    <3>1. MatchKey[b] = MatchKey[r] /\ ((b \in Foreign /\ b \notin seen[r]) \/ Excused(r))
      BY <2>2, <2>3, OtherCandidate
    <3>2. CASE b \in Foreign /\ b \notin seen[r]
      <4>1. receipt'[r] = b /\ seen'[r] = seen[r]
        BY <2>1, <2>2 DEF TypeOK
      <4>2. Mistaken(b, r)'
        BY <3>1, <3>2, <4>1 DEF Mistaken
      <4> QED
        BY <3>1, <3>2, <4>2 DEF Excused
    <3> QED
      BY <1>3, <3>1, <3>2
  <2> QED
    BY <1>5, <2>1, <2>2, <2>3
<1>9. ASSUME NEW blk \in blocks, NEW r \in Reservations, PublishAssignment(blk, r) PROVE OwnBenchmark'
  BY <1>4, <1>9 DEF PublishAssignment, outboxVars
<1> QED
  BY <1>4, <1>6, <1>7, <1>8, <1>9, NextIdentity

\* What was posted about a benchmark is about one that TIG may have.
LEMMA TargetFacts ==
    ASSUME TypeOK, Payloads, Delivery, NEW i \in wire
    PROVE  /\ i \in Intents /\ i[1] \in Reservations /\ i = <<i[1], i[2]>> /\ i[2] \in Kinds
           /\ Target(i) \in BenchmarkIds
           /\ i[2] = "precommit" => Target(i) = i[1]
           /\ i[2] # "precommit" => Target(i) = benchmark[i[1]] /\ benchmark[i[1]] # NoBenchmark
<1>1. i \in Intents /\ i[1] \in Reservations /\ i = <<i[1], i[2]>> /\ i[2] \in Kinds
  BY IntentFacts DEF TypeOK
<1>2. outbox[i] \notin NeverSent
  BY DEF Delivery
<1>3. CASE i[2] = "precommit"
  BY <1>1, <1>3 DEF Target, BenchmarkIds
<1>4. CASE i[2] # "precommit"
  <2>1. i = <<i[1], "results">> \/ i = <<i[1], "proofs">>
    BY <1>1, <1>4 DEF Kinds
  <2>2. handed[i[1]]
    BY <1>1, <1>2, <2>1 DEF Payloads, PayloadOK, NeverSent
  <2>3. benchmark[i[1]] # NoBenchmark
    BY <1>1, <2>2 DEF Payloads, PayloadOK
  <2> QED
    BY <1>1, <1>4, <2>3 DEF Target, TypeOK
<1> QED
  BY <1>1, <1>3, <1>4

-----------------------------------------------------------------------------
(***************************************************************************)
(* The stages of a benchmark at TIG.                                       *)
(***************************************************************************)

\* TIG goes from stage to stage, and takes nothing more of the pool after the
\* lifetime of a benchmark.
LEMMA NextTig ==
    ASSUME TypeOK, Payloads, Delivery, OwnBenchmark, [Next]_vars
    PROVE  /\ \A r \in Reservations : elapsed[r] => elapsed'[r]
           /\ \A r \in Reservations : Overdue(r) => tig'[benchmark[r]] \notin Confirmed
           /\ \A b \in BenchmarkIds : Onward(tig[b], tig'[b])
<1> DEFINE Keeps ==
      /\ \A r \in Reservations : elapsed[r] => elapsed'[r]
      /\ \A r \in Reservations : Overdue(r) => tig'[benchmark[r]] \notin Confirmed
      /\ \A b \in BenchmarkIds : Onward(tig[b], tig'[b])
<1> SUFFICES Keeps
  OBVIOUS
<1>1. ASSUME UNCHANGED <<elapsed, tig>> PROVE Keeps
  BY <1>1 DEF Onward, Overdue
<1>2. ASSUME NEW i \in wire, TigAccepts(i) PROVE Keeps
  <2>1. i \in Intents /\ Confirms(i) /\ UNCHANGED elapsed
    BY <1>2, TargetFacts DEF TigAccepts
  <2>2. ASSUME NEW b \in BenchmarkIds PROVE Onward(tig[b], tig'[b])
    BY <2>1, ConfirmStep, TargetFacts DEF Onward, Kinds
  <2>3. ASSUME NEW r \in Reservations, Overdue(r) PROVE tig'[benchmark[r]] \notin Confirmed
    <3>1. benchmark[r] \in BenchmarkIds /\ tig[benchmark[r]] \notin Confirmed /\ elapsed[r]
      BY <2>3 DEF Overdue, TypeOK
    <3>2. CASE benchmark[r] # Target(i)
      BY <2>1, <3>1, <3>2, ConfirmStep
    <3>3. CASE benchmark[r] = Target(i) /\ i[2] = "precommit"
      BY <2>1, <3>1, <3>3, ConfirmStep DEF Confirmed
    <3>4. CASE benchmark[r] = Target(i) /\ i[2] # "precommit"
      <4>1. i[1] = r
        BY <2>3, <3>4, TargetFacts, OneBenchmark
      <4> QED
        BY <2>1, <3>1, <4>1, ConfirmStep
    <3> QED
      BY <3>2, <3>3, <3>4
  <2> QED
    BY <2>1, <2>2, <2>3
<1>3. ASSUME NEW r \in Reservations, Elapse(r) PROVE Keeps
  <2>1. UNCHANGED tig /\ elapsed' = [elapsed EXCEPT ![r] = TRUE]
    BY <1>3 DEF Elapse
  <2> QED
    BY <2>1 DEF Onward, Overdue, TypeOK
<1>4. ASSUME UNCHANGED vars PROVE Keeps
  BY <1>1, <1>4 DEF vars, reservationVars, outboxVars, tigVars
<1>5. ASSUME NEW r \in Reservations, ReserveNext(r) PROVE Keeps
  BY <1>1, <1>5 DEF ReserveNext, B!Reserve, reservationVars, outboxVars, tigVars,
     B!rowVars, B!ledgerVars, B!factVars
<1>6. ASSUME NEW r \in Reservations, CancelUnsent(r) PROVE Keeps
  BY <1>1, <1>6 DEF CancelUnsent, B!Cancel, reservationVars, outboxVars,
     tigVars, B!rowVars, B!ledgerVars, B!factVars
<1>7. ASSUME NEW w \in Workers, NEW r \in Reservations, Preflight(w, r) PROVE Keeps
  BY <1>1, <1>7 DEF Preflight, reservationVars, outboxVars, tigVars, B!rowVars,
     B!ledgerVars, B!factVars
<1>8. ASSUME NEW w \in Workers, BeginPrecommit(w) PROVE Keeps
  BY <1>1, <1>8 DEF BeginPrecommit, Unsent, B!MarkSubmitting, reservationVars, outboxVars,
     tigVars, B!rowVars, B!ledgerVars, B!factVars
<1>9. ASSUME NEW w \in Workers, NEW r \in Reservations, NEW kind \in Kinds, BeginPayload(w, r, kind) PROVE Keeps
  BY <1>1, <1>9 DEF BeginPayload, Unsent, reservationVars, outboxVars, tigVars, B!rowVars,
     B!ledgerVars, B!factVars
<1>10. ASSUME NEW w \in Workers, Post(w) PROVE Keeps
  BY <1>1, <1>10 DEF Post, reservationVars, outboxVars, tigVars, B!rowVars, B!ledgerVars,
     B!factVars
<1>11. ASSUME NEW w \in Workers, Stop(w) PROVE Keeps
  BY <1>1, <1>11 DEF Stop, reservationVars, outboxVars, tigVars, B!rowVars, B!ledgerVars,
     B!factVars
<1>12. ASSUME NEW i \in wire, TigRejectsLate(i) PROVE Keeps
  BY <1>1, <1>12 DEF TigRejectsLate, Answer, reservationVars, outboxVars, tigVars,
     B!rowVars, B!ledgerVars, B!factVars
<1>13. ASSUME NEW i \in wire, TigRefuses(i) PROVE Keeps
  BY <1>1, <1>13 DEF TigRefuses, Answer, reservationVars, outboxVars, tigVars, B!rowVars,
     B!ledgerVars, B!factVars
<1>14. ASSUME Archive PROVE Keeps
  BY <1>1, <1>14 DEF Archive, Shown, reservationVars, outboxVars, tigVars, B!rowVars,
     B!ledgerVars, B!factVars
<1>15. ASSUME NEW w \in Workers, RecordResponse(w) PROVE Keeps
  BY <1>1, <1>15 DEF RecordResponse, reservationVars, outboxVars, tigVars, B!rowVars,
     B!ledgerVars, B!factVars
<1>16. ASSUME NEW r \in Reservations, DefinitiveRejection(r) PROVE Keeps
  BY <1>1, <1>16 DEF DefinitiveRejection, NeverAtTig, B!Reject, reservationVars,
     outboxVars, tigVars, B!rowVars, B!ledgerVars, B!factVars
<1>17. ASSUME NEW blk \in blocks, NEW r \in Reservations, RecoverPrecommit(blk, r) PROVE Keeps
  BY <1>1, <1>17 DEF RecoverPrecommit, reservationVars, outboxVars, tigVars, B!rowVars,
     B!ledgerVars, B!factVars
<1>18. ASSUME NEW blk \in blocks, NEW r \in Reservations, PublishAssignment(blk, r) PROVE Keeps
  BY <1>1, <1>18 DEF PublishAssignment, B!Accept, reservationVars, outboxVars, tigVars,
     B!rowVars, B!ledgerVars, B!factVars
<1>19. ASSUME NEW blk \in blocks, NEW r \in Reservations, ConfirmResults(blk, r) PROVE Keeps
  BY <1>1, <1>19 DEF ConfirmResults, Sent, WasAccepted, reservationVars, outboxVars,
     tigVars, B!rowVars, B!ledgerVars, B!factVars
<1>20. ASSUME NEW blk \in blocks, NEW r \in Reservations, StoreSampled(blk, r) PROVE Keeps
  BY <1>1, <1>20 DEF StoreSampled, reservationVars, outboxVars, tigVars, B!rowVars,
     B!ledgerVars, B!factVars
<1>21. ASSUME NEW blk \in blocks, NEW r \in Reservations, ConfirmProofs(blk, r) PROVE Keeps
  BY <1>1, <1>21 DEF ConfirmProofs, Sent, WasAccepted, reservationVars, outboxVars,
     tigVars, B!rowVars, B!ledgerVars, B!factVars
<1>22. ASSUME NEW blk \in blocks, NEW r \in Reservations, RecordListedOutcome(blk, r) PROVE Keeps
  BY <1>1, <1>22 DEF RecordListedOutcome, ListedOutcome, B!RecordOutcome, reservationVars,
     outboxVars, tigVars, B!rowVars, B!ledgerVars, B!factVars
<1>23. ASSUME NEW blk \in blocks, NEW r \in Reservations, ExpireUnsentResults(blk, r) PROVE Keeps
  BY <1>1, <1>23 DEF ExpireUnsentResults, NothingSent, Withdrawn, LifetimeOver,
     B!RecordOutcome, reservationVars, outboxVars, tigVars, B!rowVars, B!ledgerVars,
     B!factVars
<1>24. ASSUME NEW blk \in blocks, NEW r \in Reservations, ExpireRejectedResults(blk, r) PROVE Keeps
  BY <1>1, <1>24 DEF ExpireRejectedResults, LifetimeOver, B!RecordOutcome, reservationVars,
     outboxVars, tigVars, B!rowVars, B!ledgerVars, B!factVars
<1>25. ASSUME NEW r \in Reservations, Acknowledge(r) PROVE Keeps
  BY <1>1, <1>25 DEF Acknowledge, B!Acknowledge, reservationVars, outboxVars, tigVars,
     B!rowVars, B!ledgerVars, B!factVars
<1>26. ASSUME NEW r \in Reservations, NEW kind \in Kinds, Upload(r, kind) PROVE Keeps
  BY <1>1, <1>26 DEF Upload, B!StoreWork, reservationVars, outboxVars, tigVars, B!rowVars,
     B!ledgerVars, B!factVars
<1>27. ASSUME NEW r \in Reservations, OfferExpires(r) PROVE Keeps
  BY <1>1, <1>27 DEF OfferExpires, B!OfferExpires, reservationVars, outboxVars, tigVars,
     B!rowVars, B!ledgerVars, B!factVars
<1>28. ASSUME NEW value \in BOOLEAN, SetPause(value) PROVE Keeps
  BY <1>1, <1>28 DEF SetPause, B!SetPause, reservationVars, outboxVars, tigVars, B!rowVars,
     B!ledgerVars, B!factVars
<1>29. ASSUME NEW r \in Reservations, ReleaseUnhanded(r) PROVE Keeps
  BY <1>1, <1>29 DEF ReleaseUnhanded, B!ReleaseUnhanded, B!NotHanded, B!ReturnCollateral,
     reservationVars, outboxVars, tigVars, B!rowVars, B!ledgerVars, B!factVars
<1>30. ASSUME NEW f \in Foreign, ForeignPost(f) PROVE Keeps
  <2>1. UNCHANGED elapsed
    BY <1>30 DEF ForeignPost
  <2>2. ASSUME NEW r \in Reservations, Overdue(r) PROVE tig'[benchmark[r]] \notin Confirmed
    BY <1>30, <2>2, ForeignStep DEF Overdue, Confirmed, TypeOK
  <2>3. ASSUME NEW b \in BenchmarkIds PROVE Onward(tig[b], tig'[b])
    BY <1>30, ForeignStep DEF Onward
  <2> QED
    BY <2>1, <2>2, <2>3
<1> QED
  BY <1>2, <1>3, <1>4, <1>5, <1>6, <1>7, <1>8, <1>9, <1>10, <1>11, <1>12, <1>13, <1>14,
     <1>15, <1>16, <1>17, <1>18, <1>19, <1>20, <1>21, <1>22, <1>23, <1>24, <1>25, <1>26,
     <1>27, <1>28, <1>29, <1>30 DEF Next, Dispatch, Tig, Reconcile, People

\* So what is confirmed stays confirmed, and what is overdue stays overdue.
LEMMA NextReached ==
    ASSUME TypeOK, Precommits, Payloads, Delivery, OwnBenchmark, [Next]_vars
    PROVE  /\ \A i \in Intents : Reached(i) => Reached(i)'
           /\ \A r \in Reservations : Overdue(r) => Overdue(r)'
<1>1. ASSUME NEW i \in Intents, Reached(i) PROVE Reached(i)'
  <2> DEFINE r == i[1]
  <2>1. r \in Reservations /\ r \in BenchmarkIds /\ i[2] \in Kinds
    BY IntentFacts DEF BenchmarkIds
  <2>2. Onward(tig[r], tig'[r])
    BY <2>1, NextTig
  <2>3. benchmark[r] # NoBenchmark => benchmark'[r] = benchmark[r] /\ Onward(tig[benchmark[r]], tig'[benchmark[r]])
    BY <2>1, NextTig, NextKept DEF TypeOK
  <2> HIDE DEF r
  <2>4. i[2] = "precommit" => tig'[r] # "absent"
    BY <1>1, <2>2 DEF Reached, Onward, r
  <2>5. i[2] = "results" => benchmark'[r] # NoBenchmark /\ tig'[benchmark'[r]] \in Confirmed
    BY <1>1, <2>3 DEF Reached, Onward, Confirmed, r
  <2>6. i[2] = "proofs" => benchmark'[r] # NoBenchmark /\ tig'[benchmark'[r]] \in {"proofs", "fraud"}
    BY <1>1, <2>3 DEF Reached, Onward, r
  <2> QED
    BY <2>4, <2>5, <2>6 DEF Reached, r
<1>2. ASSUME NEW r \in Reservations, Overdue(r) PROVE Overdue(r)'
  BY <1>2, NextTig, NextKept DEF Overdue
<1> QED
  BY <1>1, <1>2

\* Only the POST that TIG processes takes a benchmark of the pool to a new stage.
LEMMA AcceptedStage ==
    ASSUME TypeOK, Payloads, Delivery, OwnBenchmark, NEW i \in wire, Confirms(i), UNCHANGED benchmark
    PROVE  /\ Reached(i)'
           /\ \A j \in Intents : Reached(j)' => Reached(j) \/ j = i
<1> DEFINE t == Target(i)
<1>1. /\ i \in Intents /\ t \in BenchmarkIds /\ i[2] \in {"precommit", "results", "proofs"}
      /\ i[2] = "precommit" => t = i[1]
      /\ i[2] # "precommit" => t = benchmark[i[1]] /\ benchmark[i[1]] # NoBenchmark
  BY TargetFacts DEF Kinds
<1>2. /\ \A b \in BenchmarkIds : b # t => tig'[b] = tig[b]
      /\ i[2] = "precommit" => tig[t] = "absent" /\ tig'[t] = "precommit"
      /\ i[2] = "results" => tig[t] = "precommit" /\ tig'[t] = "results"
      /\ i[2] = "proofs" => tig[t] = "results" /\ tig'[t] \in {"proofs", "fraud"}
  BY <1>1, ConfirmStep
<1> HIDE DEF t
<1>3. Reached(i)'
  BY <1>1, <1>2 DEF Reached, Confirmed
<1>4. ASSUME NEW j \in Intents, Reached(j)', ~Reached(j) PROVE j = i
  <2>0. j[1] \in Reservations /\ j[1] \in BenchmarkIds /\ j[2] \in {"precommit", "results", "proofs"}
    BY IntentFacts DEF BenchmarkIds
  <2>1. CASE j[2] = "precommit"
    <3>1. tig'[j[1]] # tig[j[1]] /\ tig[j[1]] = "absent"
      BY <1>4, <2>1 DEF Reached
    <3>2. j[1] = t /\ i[2] = "precommit"
      BY <1>1, <1>2, <2>0, <3>1
    <3> QED
      BY <1>1, <2>1, <3>2, IntentFacts
  <2>2. CASE j[2] # "precommit"
    <3> DEFINE b == benchmark[j[1]]
    <3>1. /\ b \in BenchmarkIds /\ b # NoBenchmark
          /\ j[2] = "results" => tig[b] \notin Confirmed /\ tig'[b] \in Confirmed
          /\ j[2] = "proofs" => tig[b] \notin {"proofs", "fraud"} /\ tig'[b] \in {"proofs", "fraud"}
      BY <1>4, <2>0, <2>2 DEF Reached, TypeOK
    <3> HIDE DEF b
    <3>2. b = t
      BY <1>2, <2>0, <2>2, <3>1
    <3>3. i[2] = j[2]
      BY <1>1, <1>2, <2>0, <2>2, <3>1, <3>2 DEF Confirmed
    <3>4. i[1] = j[1]
      BY <1>1, <2>0, <2>2, <3>1, <3>2, <3>3, IntentFacts, OneBenchmark DEF b
    <3> QED
      BY <1>1, <3>3, <3>4, IntentFacts
  <2> QED
    BY <2>1, <2>2
<1> QED
  BY <1>3, <1>4

-----------------------------------------------------------------------------
(***************************************************************************)
(* Intents in the hands of workers.                                        *)
(***************************************************************************)

\* A worker that starts nothing and sends nothing, while no POST is sent, leaves
\* the delivery in order.
LEMMA DeliveryKept ==
    ASSUME TypeOK, Delivery, UNCHANGED posted, wire' \subseteq wire,
           \A i \in Intents : outbox[i] \notin NeverSent => outbox'[i] \notin NeverSent,
           \A v \in Workers : Busy(v)' => /\ Busy(v) /\ worker'[v].at = worker[v].at
                                          /\ worker'[v].intent = worker[v].intent
    PROVE  Delivery'
<1>1. wire' \subseteq posted' /\ \A i \in posted' : outbox'[i] \notin NeverSent
  BY DEF Delivery, TypeOK
<1>2. ASSUME NEW v \in Workers PROVE Handled(v)'
  <2>1. CASE Busy(v)'
    <3>1. worker[v].intent \in Intents /\ Handled(v) /\ Busy(v)
      BY <2>1, PhaseFacts DEF Delivery, TypeOK, Busy
    <3> QED
      BY <2>1, <3>1 DEF Handled
  <2>2. CASE ~Busy(v)'
    BY <2>2 DEF Handled
  <2> QED
    BY <2>1, <2>2
<1>3. ASSUME NEW v \in Workers, NEW u \in Workers,
             Busy(v)' /\ Busy(u)' /\ worker'[v].intent = worker'[u].intent
      PROVE  v = u
  BY <1>3 DEF Delivery
<1> QED
  BY <1>1, <1>2, <1>3 DEF Delivery

\* A worker begins an intent that the database had not sent before.
LEMMA DeliveryBegun ==
    ASSUME TypeOK, Delivery, UNCHANGED <<posted, wire>>, NEW w \in Workers, NEW i \in Intents,
           outbox[i] = "ready", outbox' = [outbox EXCEPT ![i] = "uncertain"],
           worker' = [worker EXCEPT ![w] = [at |-> "begun", intent |-> i]]
    PROVE  Delivery'
<1>1. \A j \in Intents : outbox'[j] = IF j = i THEN "uncertain" ELSE outbox[j]
  BY DEF TypeOK
<1>2. \A v \in Workers :
         worker'[v] = IF v = w THEN [at |-> "begun", intent |-> i] ELSE worker[v]
  BY DEF TypeOK
<1>3. i \notin posted /\ \A v \in Workers : Busy(v) => worker[v].intent # i
  BY DEF Delivery, Handled, NeverSent
<1>4. wire' \subseteq posted' /\ \A j \in posted' : outbox'[j] \notin NeverSent
  BY <1>1 DEF Delivery, NeverSent, TypeOK
<1>5. ASSUME NEW v \in Workers PROVE Handled(v)'
  <2>1. CASE v = w
    BY <1>1, <1>2, <1>3, <2>1 DEF Handled, NeverSent
  <2>2. CASE v # w
    <3>1. worker'[v] = worker[v] /\ Handled(v)
      BY <1>2, <2>2 DEF Delivery
    <3>2. Busy(v) => worker[v].intent \in Intents
      BY PhaseFacts DEF Busy, TypeOK
    <3> QED
      BY <1>1, <3>1, <3>2 DEF Handled, Busy, NeverSent
  <2> QED
    BY <2>1, <2>2
<1>6. ASSUME NEW v \in Workers, NEW u \in Workers,
             Busy(v)' /\ Busy(u)' /\ worker'[v].intent = worker'[u].intent
      PROVE  v = u
  BY <1>2, <1>3, <1>6 DEF Delivery, Busy
<1> QED
  BY <1>4, <1>5, <1>6 DEF Delivery

\* No intent gets into the hands of a second worker, and none is sent twice.
LEMMA NextDelivery ==
    ASSUME TypeOK, Precommits, Delivery, [Next]_vars PROVE Delivery'
<1>1. ASSUME UNCHANGED <<posted, wire, worker>> PROVE Delivery'
  BY <1>1, NextSent, DeliveryKept DEF Busy
<1>2. ASSUME NEW w \in Workers, NEW r \in Reservations, Preflight(w, r) PROVE Delivery'
  <2>1. PICK listed : worker' = [worker EXCEPT ![w] =
           [at |-> "preflighted", intent |-> <<r, "precommit">>, ids |-> listed]]
    BY <1>2 DEF Preflight
  <2>2. ASSUME NEW v \in Workers, Busy(v)' PROVE v # w /\ worker'[v] = worker[v]
    BY <2>1, <2>2 DEF Busy, TypeOK
  <2> QED
    BY <1>2, <2>2, NextSent, DeliveryKept DEF Preflight, tigVars, Busy
<1>3. ASSUME NEW w \in Workers, BeginPrecommit(w) PROVE Delivery'
  <2>1. worker[w].intent \in Intents
    BY <1>3, PhaseFacts DEF BeginPrecommit, TypeOK
  <2> QED
    BY <1>3, <2>1, DeliveryBegun DEF BeginPrecommit, Unsent, tigVars
<1>4. ASSUME NEW w \in Workers, NEW r \in Reservations, NEW kind \in Kinds, BeginPayload(w, r, kind) PROVE Delivery'
  <2>1. <<r, kind>> \in Intents
    BY IntentFacts
  <2> QED
    BY <1>4, <2>1, DeliveryBegun DEF BeginPayload, Unsent, tigVars
<1>5. ASSUME NEW w \in Workers, Post(w) PROVE Delivery'
  <2> DEFINE i == worker[w].intent
  <2>1. /\ i \in Intents /\ Busy(w) /\ worker[w].at = "begun"
        /\ UNCHANGED outbox /\ wire' = wire \union {i} /\ posted' = posted \union {i}
    BY <1>5, PhaseFacts DEF Post, TypeOK, Busy, outboxVars
  <2>2. \A v \in Workers : worker'[v] =
           IF v = w THEN [at |-> "waiting", intent |-> i, answer |-> "none"] ELSE worker[v]
    BY <1>5 DEF Post, TypeOK
  <2>3. outbox[i] \notin NeverSent /\ i \notin posted
    BY <2>1 DEF Delivery, Handled
  <2>4. wire' \subseteq posted' /\ \A j \in posted' : outbox'[j] \notin NeverSent
    BY <2>1, <2>3 DEF Delivery
  <2>5. ASSUME NEW v \in Workers PROVE Handled(v)'
    <3>1. CASE v = w
      BY <2>1, <2>2, <2>3, <3>1 DEF Handled
    <3>2. CASE v # w
      <4>1. worker'[v] = worker[v] /\ Handled(v) /\ (Busy(v) => worker[v].intent # i)
        BY <2>1, <2>2, <3>2 DEF Delivery
      <4> QED
        BY <2>1, <4>1 DEF Handled, Busy
    <3> QED
      BY <3>1, <3>2
  <2>6. ASSUME NEW v \in Workers, NEW u \in Workers,
               Busy(v)' /\ Busy(u)' /\ worker'[v].intent = worker'[u].intent
        PROVE  v = u
    BY <2>1, <2>2, <2>6 DEF Delivery, Busy
  <2> QED
    BY <2>4, <2>5, <2>6 DEF Delivery
<1>6. ASSUME NEW w \in Workers, Stop(w) PROVE Delivery'
  <2>1. ASSUME NEW v \in Workers, Busy(v)' PROVE v # w /\ worker'[v] = worker[v]
    BY <1>6, <2>1 DEF Stop, Busy, TypeOK, Idle
  <2> QED
    BY <1>6, <2>1, NextSent, DeliveryKept DEF Stop, tigVars, Busy
<1>7. ASSUME NEW i \in wire, TigAccepts(i) PROVE Delivery'
  <2>1. i \in Intents /\ "ok" \in Answers /\ Answer(i, "ok") /\ UNCHANGED posted /\ wire' \subseteq wire
    BY <1>7 DEF TigAccepts, TypeOK, Answers
  <2>2. ASSUME NEW v \in Workers, Busy(v)'
        PROVE  /\ Busy(v) /\ worker'[v].at = worker[v].at
               /\ worker'[v].intent = worker[v].intent
    BY <2>1, <2>2, AnswerStep DEF Busy
  <2> QED
    BY <2>1, <2>2, NextSent, DeliveryKept
<1>8. ASSUME NEW i \in wire, TigRejectsLate(i) PROVE Delivery'
  <2>1. i \in Intents /\ "late" \in Answers /\ Answer(i, "late") /\ UNCHANGED posted /\ wire' \subseteq wire
    BY <1>8 DEF TigRejectsLate, TypeOK, Answers
  <2>2. ASSUME NEW v \in Workers, Busy(v)'
        PROVE  /\ Busy(v) /\ worker'[v].at = worker[v].at
               /\ worker'[v].intent = worker[v].intent
    BY <2>1, <2>2, AnswerStep DEF Busy
  <2> QED
    BY <2>1, <2>2, NextSent, DeliveryKept
<1>9. ASSUME NEW i \in wire, TigRefuses(i) PROVE Delivery'
  <2>1. i \in Intents /\ "error" \in Answers /\ UNCHANGED posted /\ wire' \subseteq wire
        /\ (Answer(i, "error") \/ UNCHANGED worker)
    BY <1>9 DEF TigRefuses, TypeOK, Answers
  <2>2. ASSUME NEW v \in Workers, Busy(v)'
        PROVE  /\ Busy(v) /\ worker'[v].at = worker[v].at
               /\ worker'[v].intent = worker[v].intent
    <3>1. CASE Answer(i, "error")
      BY <2>1, <2>2, <3>1, AnswerStep DEF Busy
    <3>2. CASE UNCHANGED worker
      BY <2>2, <3>2 DEF Busy
    <3> QED
      BY <2>1, <3>1, <3>2
  <2> QED
    BY <2>1, <2>2, NextSent, DeliveryKept
<1>10. ASSUME NEW w \in Workers, RecordResponse(w) PROVE Delivery'
  <2>1. ASSUME NEW v \in Workers, Busy(v)' PROVE v # w /\ worker'[v] = worker[v]
    BY <1>10, <2>1 DEF RecordResponse, Busy, TypeOK, Idle
  <2> QED
    BY <1>10, <2>1, NextSent, DeliveryKept DEF RecordResponse, tigVars, Busy
<1>11. ASSUME UNCHANGED vars PROVE Delivery'
  BY <1>1, <1>11 DEF vars, reservationVars, outboxVars, tigVars
<1>12. ASSUME NEW r \in Reservations, ReserveNext(r) PROVE Delivery'
  BY <1>1, <1>12 DEF ReserveNext, B!Reserve, reservationVars, outboxVars, tigVars,
     B!rowVars, B!ledgerVars, B!factVars
<1>13. ASSUME NEW r \in Reservations, CancelUnsent(r) PROVE Delivery'
  BY <1>1, <1>13 DEF CancelUnsent, B!Cancel, reservationVars, outboxVars,
     tigVars, B!rowVars, B!ledgerVars, B!factVars
<1>14. ASSUME NEW r \in Reservations, Elapse(r) PROVE Delivery'
  BY <1>1, <1>14 DEF Elapse, reservationVars, outboxVars, tigVars, B!rowVars, B!ledgerVars,
     B!factVars
<1>15. ASSUME Archive PROVE Delivery'
  BY <1>1, <1>15 DEF Archive, Shown, reservationVars, outboxVars, tigVars, B!rowVars,
     B!ledgerVars, B!factVars
<1>16. ASSUME NEW r \in Reservations, DefinitiveRejection(r) PROVE Delivery'
  BY <1>1, <1>16 DEF DefinitiveRejection, NeverAtTig, B!Reject, reservationVars,
     outboxVars, tigVars, B!rowVars, B!ledgerVars, B!factVars
<1>17. ASSUME NEW blk \in blocks, NEW r \in Reservations, RecoverPrecommit(blk, r) PROVE Delivery'
  BY <1>1, <1>17 DEF RecoverPrecommit, reservationVars, outboxVars, tigVars, B!rowVars,
     B!ledgerVars, B!factVars
<1>18. ASSUME NEW blk \in blocks, NEW r \in Reservations, PublishAssignment(blk, r) PROVE Delivery'
  BY <1>1, <1>18 DEF PublishAssignment, B!Accept, reservationVars, outboxVars, tigVars,
     B!rowVars, B!ledgerVars, B!factVars
<1>19. ASSUME NEW blk \in blocks, NEW r \in Reservations, ConfirmResults(blk, r) PROVE Delivery'
  BY <1>1, <1>19 DEF ConfirmResults, Sent, WasAccepted, reservationVars, outboxVars,
     tigVars, B!rowVars, B!ledgerVars, B!factVars
<1>20. ASSUME NEW blk \in blocks, NEW r \in Reservations, StoreSampled(blk, r) PROVE Delivery'
  BY <1>1, <1>20 DEF StoreSampled, reservationVars, outboxVars, tigVars, B!rowVars,
     B!ledgerVars, B!factVars
<1>21. ASSUME NEW blk \in blocks, NEW r \in Reservations, ConfirmProofs(blk, r) PROVE Delivery'
  BY <1>1, <1>21 DEF ConfirmProofs, Sent, WasAccepted, reservationVars, outboxVars,
     tigVars, B!rowVars, B!ledgerVars, B!factVars
<1>22. ASSUME NEW blk \in blocks, NEW r \in Reservations, RecordListedOutcome(blk, r) PROVE Delivery'
  BY <1>1, <1>22 DEF RecordListedOutcome, ListedOutcome, B!RecordOutcome, reservationVars,
     outboxVars, tigVars, B!rowVars, B!ledgerVars, B!factVars
<1>23. ASSUME NEW blk \in blocks, NEW r \in Reservations, ExpireUnsentResults(blk, r) PROVE Delivery'
  BY <1>1, <1>23 DEF ExpireUnsentResults, NothingSent, Withdrawn, LifetimeOver,
     B!RecordOutcome, reservationVars, outboxVars, tigVars, B!rowVars, B!ledgerVars,
     B!factVars
<1>24. ASSUME NEW blk \in blocks, NEW r \in Reservations, ExpireRejectedResults(blk, r) PROVE Delivery'
  BY <1>1, <1>24 DEF ExpireRejectedResults, LifetimeOver, B!RecordOutcome, reservationVars,
     outboxVars, tigVars, B!rowVars, B!ledgerVars, B!factVars
<1>25. ASSUME NEW r \in Reservations, Acknowledge(r) PROVE Delivery'
  BY <1>1, <1>25 DEF Acknowledge, B!Acknowledge, reservationVars, outboxVars, tigVars,
     B!rowVars, B!ledgerVars, B!factVars
<1>26. ASSUME NEW r \in Reservations, NEW kind \in Kinds, Upload(r, kind) PROVE Delivery'
  BY <1>1, <1>26 DEF Upload, B!StoreWork, reservationVars, outboxVars, tigVars, B!rowVars,
     B!ledgerVars, B!factVars
<1>27. ASSUME NEW r \in Reservations, OfferExpires(r) PROVE Delivery'
  BY <1>1, <1>27 DEF OfferExpires, B!OfferExpires, reservationVars, outboxVars, tigVars,
     B!rowVars, B!ledgerVars, B!factVars
<1>28. ASSUME NEW value \in BOOLEAN, SetPause(value) PROVE Delivery'
  BY <1>1, <1>28 DEF SetPause, B!SetPause, reservationVars, outboxVars, tigVars, B!rowVars,
     B!ledgerVars, B!factVars
<1>29. ASSUME NEW r \in Reservations, ReleaseUnhanded(r) PROVE Delivery'
  BY <1>1, <1>29 DEF ReleaseUnhanded, B!ReleaseUnhanded, B!NotHanded, B!ReturnCollateral,
     reservationVars, outboxVars, tigVars, B!rowVars, B!ledgerVars, B!factVars
<1>30. ASSUME NEW f \in Foreign, ForeignPost(f) PROVE Delivery'
  BY <1>1, <1>30 DEF ForeignPost, reservationVars, outboxVars
<1> QED
  BY <1>2, <1>3, <1>4, <1>5, <1>6, <1>7, <1>8, <1>9, <1>10, <1>11, <1>12, <1>13, <1>14,
     <1>15, <1>16, <1>17, <1>18, <1>19, <1>20, <1>21, <1>22, <1>23, <1>24, <1>25, <1>26,
     <1>27, <1>28, <1>29, <1>30 DEF Next, Dispatch, Tig, Reconcile, People

-----------------------------------------------------------------------------
(***************************************************************************)
(* What TIG has confirmed, and what the pool believes it has.              *)
(***************************************************************************)

\* A receipt names a benchmark that TIG has.
LEMMA NextReceipts ==
    ASSUME TypeOK, Stages, Archived, [Next]_vars, NEW q \in Reservations, receipt'[q] # NoBenchmark
    PROVE  tig[receipt'[q]] # "absent"
<1>0. receipt[q] # NoBenchmark => tig[receipt[q]] # "absent"
  BY DEF Stages, Recorded
<1>1. ASSUME UNCHANGED receipt PROVE tig[receipt'[q]] # "absent"
  BY <1>0, <1>1
<1>2. ASSUME NEW w \in Workers, BeginPrecommit(w) PROVE tig[receipt'[q]] # "absent"
  BY <1>1, <1>2 DEF BeginPrecommit
<1>3. ASSUME NEW w \in Workers, RecordResponse(w) PROVE tig[receipt'[q]] # "absent"
  <2> DEFINE r == worker[w].intent[1]
  <2>1. r \in Reservations /\ worker[w].at = "waiting" /\ Believed(w)
    BY <1>3, PhaseFacts, IntentFacts DEF RecordResponse, TypeOK, Stages
  <2>2. CASE worker[w].answer = "ok" /\ worker[w].intent[2] = "precommit"
    <3>1. receipt' = [receipt EXCEPT ![r] = r] /\ tig[r] # "absent"
      BY <1>3, <2>1, <2>2 DEF RecordResponse, Believed, Reached
    <3> QED
      BY <1>0, <2>1, <3>1 DEF TypeOK
  <2>3. CASE ~(worker[w].answer = "ok" /\ worker[w].intent[2] = "precommit")
    BY <1>1, <1>3, <2>3 DEF RecordResponse
  <2> QED
    BY <2>2, <2>3
<1>4. ASSUME NEW blk \in blocks, NEW r \in Reservations, RecoverPrecommit(blk, r) PROVE tig[receipt'[q]] # "absent"
  <2>1. PICK b \in Candidates(blk, r) : receipt' = [receipt EXCEPT ![r] = b]
    BY <1>4, RecoverFacts
  <2>2. tig[b] # "absent"
    BY DEF Candidates, Archived, ShownOf
  <2> QED
    BY <1>0, <2>1, <2>2 DEF TypeOK
<1>5. ASSUME NEW blk \in blocks, NEW r \in Reservations, PublishAssignment(blk, r) PROVE tig[receipt'[q]] # "absent"
  BY <1>1, <1>5 DEF PublishAssignment, outboxVars
<1> QED
  BY <1>1, <1>2, <1>3, <1>4, <1>5, NextIdentity

\* Results and proofs are recorded as accepted only when TIG has confirmed them.
LEMMA NextAccepted ==
    ASSUME TypeOK, Precommits, Stages, Archived, [Next]_vars
    PROVE  \A r \in Reservations, kind \in {"results", "proofs"} :
              outbox'[<<r, kind>>] = "accepted" => Reached(<<r, kind>>)
<1> SUFFICES ASSUME NEW j \in Intents, j[2] # "precommit", outbox'[j] = "accepted" PROVE Reached(j)
  BY IntentFacts
<1>0. outbox[j] = "accepted" => Reached(j)
  <2>1. PICK r \in Reservations, kind \in {"results", "proofs"} : j = <<r, kind>>
    BY IntentFacts DEF Kinds
  <2> QED
    BY <2>1 DEF Stages, Recorded
<1>1. ASSUME UNCHANGED <<outbox>> PROVE Reached(j)
  BY <1>1, <1>0 DEF TypeOK, reservationVars, outboxVars, tigVars, Intents, Kinds
<1>2. ASSUME NEW r \in Reservations, ReserveNext(r) PROVE Reached(j)
  BY <1>2, <1>0 DEF ReserveNext, B!Reserve, TypeOK, reservationVars, outboxVars, tigVars,
     Intents, Kinds
<1>3. ASSUME NEW r \in Reservations, CancelUnsent(r) PROVE Reached(j)
  BY <1>3, <1>0 DEF CancelUnsent, B!Cancel, TypeOK, reservationVars,
     outboxVars, tigVars, Intents, Kinds
<1>4. ASSUME NEW w \in Workers, BeginPrecommit(w) PROVE Reached(j)
  <2>1. worker[w].intent \in Intents
    BY <1>4, PhaseFacts DEF BeginPrecommit, TypeOK
  <2> QED
    BY <1>0, <1>4, <2>1 DEF BeginPrecommit, TypeOK
<1>5. ASSUME NEW w \in Workers, NEW r \in Reservations, NEW kind \in Kinds, BeginPayload(w, r, kind) PROVE Reached(j)
  BY <1>5, <1>0 DEF BeginPayload, Unsent, TypeOK, reservationVars, outboxVars, tigVars,
     Intents, Kinds
<1>6. ASSUME NEW w \in Workers, RecordResponse(w) PROVE Reached(j)
  <2>1. worker[w].intent \in Intents /\ worker[w].at = "waiting" /\ Believed(w)
    BY <1>6, PhaseFacts DEF RecordResponse, TypeOK, Stages
  <2>2. outbox' = IF worker[w].answer = "ok" THEN [outbox EXCEPT ![worker[w].intent] = "accepted"]
                  ELSE outbox
    BY <1>6 DEF RecordResponse
  <2>3. CASE worker[w].answer = "ok" /\ j = worker[w].intent
    BY <2>1, <2>3 DEF Believed
  <2>4. CASE worker[w].answer # "ok" \/ j # worker[w].intent
    BY <1>0, <2>1, <2>2, <2>4 DEF TypeOK
  <2> QED
    BY <2>3, <2>4
<1>7. ASSUME NEW r \in Reservations, DefinitiveRejection(r) PROVE Reached(j)
  BY <1>7, <1>0 DEF DefinitiveRejection, NeverAtTig, B!Reject, TypeOK, reservationVars,
     outboxVars, tigVars, Intents, Kinds
<1>8. ASSUME NEW blk \in blocks, NEW r \in Reservations, RecoverPrecommit(blk, r) PROVE Reached(j)
  BY <1>8, <1>0 DEF RecoverPrecommit, TypeOK
<1>9. ASSUME NEW blk \in blocks, NEW r \in Reservations, ConfirmResults(blk, r) PROVE Reached(j)
  <2>1. /\ benchmark[r] # NoBenchmark /\ benchmark[r] \in BenchmarkIds
        /\ outbox' = [outbox EXCEPT ![<<r, "results">>] = "accepted"]
    BY <1>9 DEF ConfirmResults, WasAccepted, TypeOK
  <2>2. Reached(<<r, "results">>)
    BY <1>9, <2>1 DEF ConfirmResults, Archived, ShownOf, ShowsResults, Reached, Confirmed
  <2>3. CASE j = <<r, "results">>
    BY <2>2, <2>3
  <2>4. CASE j # <<r, "results">>
    BY <1>0, <2>1, <2>4 DEF TypeOK
  <2> QED
    BY <2>3, <2>4
<1>10. ASSUME NEW blk \in blocks, NEW r \in Reservations, ConfirmProofs(blk, r) PROVE Reached(j)
  <2>1. /\ benchmark[r] # NoBenchmark /\ benchmark[r] \in BenchmarkIds
        /\ outbox' = [outbox EXCEPT ![<<r, "proofs">>] = "accepted"]
    BY <1>10 DEF ConfirmProofs, WasAccepted, TypeOK
  <2>2. Reached(<<r, "proofs">>)
    BY <1>10, <2>1 DEF ConfirmProofs, Archived, ShownOf, ShowsResults, Reached, Confirmed
  <2>3. CASE j = <<r, "proofs">>
    BY <2>2, <2>3
  <2>4. CASE j # <<r, "proofs">>
    BY <1>0, <2>1, <2>4 DEF TypeOK
  <2> QED
    BY <2>3, <2>4
<1>11. ASSUME NEW blk \in blocks, NEW r \in Reservations, ExpireUnsentResults(blk, r) PROVE Reached(j)
  BY <1>11, <1>0 DEF ExpireUnsentResults, NothingSent, Withdrawn, LifetimeOver,
     B!RecordOutcome, TypeOK, reservationVars, outboxVars, tigVars, Intents, Kinds
<1>12. ASSUME NEW blk \in blocks, NEW r \in Reservations, ExpireRejectedResults(blk, r) PROVE Reached(j)
  BY <1>12, <1>0 DEF ExpireRejectedResults, LifetimeOver, B!RecordOutcome, TypeOK,
     reservationVars, outboxVars, tigVars, Intents, Kinds
<1>13. ASSUME NEW r \in Reservations, NEW kind \in Kinds, Upload(r, kind) PROVE Reached(j)
  BY <1>13, <1>0 DEF Upload, B!StoreWork, TypeOK, reservationVars, outboxVars, tigVars,
     Intents, Kinds
<1>14. ASSUME UNCHANGED vars PROVE Reached(j)
  BY <1>1, <1>14 DEF vars, reservationVars, outboxVars, tigVars
<1>15. ASSUME NEW w \in Workers, NEW r \in Reservations, Preflight(w, r) PROVE Reached(j)
  BY <1>1, <1>15 DEF Preflight, reservationVars, outboxVars, tigVars, B!rowVars,
     B!ledgerVars, B!factVars
<1>16. ASSUME NEW w \in Workers, Post(w) PROVE Reached(j)
  BY <1>1, <1>16 DEF Post, reservationVars, outboxVars, tigVars, B!rowVars, B!ledgerVars,
     B!factVars
<1>17. ASSUME NEW w \in Workers, Stop(w) PROVE Reached(j)
  BY <1>1, <1>17 DEF Stop, reservationVars, outboxVars, tigVars, B!rowVars, B!ledgerVars,
     B!factVars
<1>18. ASSUME NEW i \in wire, TigAccepts(i) PROVE Reached(j)
  BY <1>1, <1>18 DEF TigAccepts, Confirms, Answer, reservationVars, outboxVars, tigVars,
     B!rowVars, B!ledgerVars, B!factVars
<1>19. ASSUME NEW i \in wire, TigRejectsLate(i) PROVE Reached(j)
  BY <1>1, <1>19 DEF TigRejectsLate, Answer, reservationVars, outboxVars, tigVars,
     B!rowVars, B!ledgerVars, B!factVars
<1>20. ASSUME NEW i \in wire, TigRefuses(i) PROVE Reached(j)
  BY <1>1, <1>20 DEF TigRefuses, Answer, reservationVars, outboxVars, tigVars, B!rowVars,
     B!ledgerVars, B!factVars
<1>21. ASSUME NEW r \in Reservations, Elapse(r) PROVE Reached(j)
  BY <1>1, <1>21 DEF Elapse, reservationVars, outboxVars, tigVars, B!rowVars, B!ledgerVars,
     B!factVars
<1>22. ASSUME Archive PROVE Reached(j)
  BY <1>1, <1>22 DEF Archive, Shown, reservationVars, outboxVars, tigVars, B!rowVars,
     B!ledgerVars, B!factVars
<1>23. ASSUME NEW blk \in blocks, NEW r \in Reservations, PublishAssignment(blk, r) PROVE Reached(j)
  BY <1>1, <1>23 DEF PublishAssignment, B!Accept, reservationVars, outboxVars, tigVars,
     B!rowVars, B!ledgerVars, B!factVars
<1>24. ASSUME NEW blk \in blocks, NEW r \in Reservations, StoreSampled(blk, r) PROVE Reached(j)
  BY <1>1, <1>24 DEF StoreSampled, reservationVars, outboxVars, tigVars, B!rowVars,
     B!ledgerVars, B!factVars
<1>25. ASSUME NEW blk \in blocks, NEW r \in Reservations, RecordListedOutcome(blk, r) PROVE Reached(j)
  BY <1>1, <1>25 DEF RecordListedOutcome, ListedOutcome, B!RecordOutcome, reservationVars,
     outboxVars, tigVars, B!rowVars, B!ledgerVars, B!factVars
<1>26. ASSUME NEW r \in Reservations, Acknowledge(r) PROVE Reached(j)
  BY <1>1, <1>26 DEF Acknowledge, B!Acknowledge, reservationVars, outboxVars, tigVars,
     B!rowVars, B!ledgerVars, B!factVars
<1>27. ASSUME NEW r \in Reservations, OfferExpires(r) PROVE Reached(j)
  BY <1>1, <1>27 DEF OfferExpires, B!OfferExpires, reservationVars, outboxVars, tigVars,
     B!rowVars, B!ledgerVars, B!factVars
<1>28. ASSUME NEW value \in BOOLEAN, SetPause(value) PROVE Reached(j)
  BY <1>1, <1>28 DEF SetPause, B!SetPause, reservationVars, outboxVars, tigVars, B!rowVars,
     B!ledgerVars, B!factVars
<1>29. ASSUME NEW r \in Reservations, ReleaseUnhanded(r) PROVE Reached(j)
  BY <1>1, <1>29 DEF ReleaseUnhanded, B!ReleaseUnhanded, B!NotHanded, B!ReturnCollateral,
     reservationVars, outboxVars, tigVars, B!rowVars, B!ledgerVars, B!factVars
<1>30. ASSUME NEW f \in Foreign, ForeignPost(f) PROVE Reached(j)
  BY <1>1, <1>30 DEF ForeignPost, reservationVars, outboxVars
<1> QED
  BY <1>2, <1>3, <1>4, <1>5, <1>6, <1>7, <1>8, <1>9, <1>10, <1>11, <1>12, <1>13, <1>14,
     <1>15, <1>16, <1>17, <1>18, <1>19, <1>20, <1>21, <1>22, <1>23, <1>24, <1>25, <1>26,
     <1>27, <1>28, <1>29, <1>30 DEF Next, Dispatch, Tig, Reconcile, People

\* TIG reaches no new stage, and what was sent and answered stays.
LEMMA StagesKept ==
    ASSUME TypeOK, Precommits, Payloads, Delivery, Stages, Archived, OwnBenchmark, OwnBenchmark',
           [Next]_vars, UNCHANGED tig,
           \A i \in Intents : i \in posted \ wire => i \in posted' \ wire',
           \A r \in Reservations : late'[r] => Overdue(r),
           \A v \in Workers : Believed(v)'
    PROVE  Stages'
\* A new assignment finds nothing of its benchmark confirmed, which is another's
\* otherwise.
<1>1. ASSUME NEW r \in Reservations, benchmark'[r] # NoBenchmark, tig[benchmark'[r]] \in Confirmed
      PROVE  benchmark[r] = benchmark'[r]
  <2>1. benchmark'[r] \in BenchmarkIds
    BY <1>1, NextType DEF TypeOK
  <2>2. PICK q \in Reservations : benchmark[q] = benchmark'[r]
    BY <1>1, <2>1 DEF Stages
  <2>3. benchmark'[q] = benchmark'[r]
    BY <1>1, <2>2, NextKept
  <2>4. q = r
    BY <1>1, <2>3 DEF OwnBenchmark
  <2> QED
    BY <2>2, <2>4
<1>2. ASSUME NEW i \in Intents, Reached(i)' PROVE i \in posted' \ wire'
  <2>1. i[1] \in Reservations /\ i[2] \in Kinds
    BY IntentFacts
  <2>2. Reached(i)
    BY <1>1, <1>2, <2>1 DEF Reached, Confirmed
  <2> QED
    BY <2>2 DEF Stages
<1>3. ASSUME NEW b \in BenchmarkIds, tig'[b] \in Confirmed PROVE \E r \in Reservations : benchmark'[r] = b
  <2>1. PICK r \in Reservations : benchmark[r] = b
    BY <1>3 DEF Stages
  <2> QED
    BY <2>1, NextKept, IdentityAssumption
<1>4. Recorded'
  <2>1. \A r \in Reservations : receipt'[r] # NoBenchmark => tig'[receipt'[r]] # "absent"
    BY NextReceipts
  <2>2. \A r \in Reservations, kind \in {"results", "proofs"} :
           outbox'[<<r, kind>>] = "accepted" => Reached(<<r, kind>>)'
    BY NextAccepted, NextReached, IntentFacts
  <2>3. \A r \in Reservations : late'[r] => Overdue(r)'
    BY NextReached
  <2> QED
    BY <2>1, <2>2, <2>3 DEF Recorded
<1> QED
  BY <1>2, <1>3, <1>4 DEF Stages

\* What is recorded stays true when TIG goes on.
LEMMA RecordedKept ==
    ASSUME TypeOK, Precommits, Payloads, Delivery, Stages, OwnBenchmark, [Next]_vars,
           UNCHANGED <<receipt, outbox, late>>
    PROVE  Recorded'
<1>1. ASSUME NEW r \in Reservations, receipt'[r] # NoBenchmark PROVE tig'[receipt'[r]] # "absent"
  <2>1. receipt[r] \in BenchmarkIds /\ tig[receipt[r]] # "absent" /\ receipt'[r] = receipt[r]
    BY <1>1 DEF Stages, Recorded, TypeOK
  <2> QED
    BY <2>1, NextTig DEF Onward
<1>2. \A r \in Reservations, kind \in {"results", "proofs"} :
         outbox'[<<r, kind>>] = "accepted" => Reached(<<r, kind>>)'
  BY NextReached, IntentFacts DEF Stages, Recorded
<1>3. \A r \in Reservations : late'[r] => Overdue(r)'
  BY NextReached DEF Stages, Recorded
<1> QED
  BY <1>1, <1>2, <1>3 DEF Recorded

\* A worker that keeps its answer keeps its belief.
LEMMA BeliefKept ==
    ASSUME TypeOK, Precommits, Payloads, Delivery, Stages, OwnBenchmark, [Next]_vars, NEW v \in Workers,
           worker'[v].at = "waiting" =>
               \/ worker[v].at = "waiting" /\ worker'[v].intent = worker[v].intent
                  /\ worker'[v].answer = worker[v].answer
               \/ worker'[v].answer \notin {"ok", "late"}
    PROVE  Believed(v)'
<1>1. Believed(v)
  BY DEF Stages
<1>2. worker[v].at = "waiting" => worker[v].intent \in Intents /\ worker[v].intent[1] \in Reservations
  BY PhaseFacts, IntentFacts DEF TypeOK
<1>3. CASE worker'[v].at = "waiting" /\ worker'[v].answer = "ok"
  <2>1. Reached(worker[v].intent) /\ worker'[v].intent = worker[v].intent
        /\ worker[v].intent \in Intents
    BY <1>1, <1>2, <1>3 DEF Believed
  <2>2. Reached(worker[v].intent)'
    BY <2>1, NextReached DEF Reached
  <2> QED
    BY <1>3, <2>1, <2>2 DEF Believed, Reached
<1>4. CASE worker'[v].at = "waiting" /\ worker'[v].answer = "late"
  <2>1. /\ worker[v].intent[2] = "results" /\ Overdue(worker[v].intent[1])
        /\ worker'[v].intent = worker[v].intent /\ worker[v].intent[1] \in Reservations
    BY <1>1, <1>2, <1>4 DEF Believed
  <2>2. Overdue(worker[v].intent[1])'
    BY <2>1, NextReached
  <2> QED
    BY <1>4, <2>1, <2>2 DEF Believed
<1> QED
  BY <1>3, <1>4 DEF Believed

\* What the pool believes TIG to have confirmed is confirmed, and was posted.
LEMMA NextStages ==
    ASSUME TypeOK, Precommits, Payloads, Delivery, Stages, Archived, Fenced, ReleasedIsAbsent, OwnBenchmark,
           [Next]_vars
    PROVE  Stages'
<1>0. OwnBenchmark'
  BY NextOwned
<1>1. ASSUME UNCHANGED <<late, posted, tig, wire, worker>> PROVE Stages'
  BY <1>1, <1>0, StagesKept, BeliefKept DEF Stages, Recorded
<1>2. ASSUME NEW w \in Workers, NEW r \in Reservations, Preflight(w, r) PROVE Stages'
  <2>1. \A v \in Workers : worker'[v].at = "waiting" => worker'[v] = worker[v]
    BY <1>2 DEF Preflight, TypeOK, Idle
  <2>2. \A v \in Workers : Believed(v)'
    BY <2>1, BeliefKept
  <2> QED
    BY <1>2, <2>2, <1>0, StagesKept DEF Preflight, Stages, Recorded, Recorded, tigVars, outboxVars
<1>3. ASSUME NEW w \in Workers, BeginPrecommit(w) PROVE Stages'
  <2>1. \A v \in Workers : worker'[v].at = "waiting" => worker'[v] = worker[v]
    BY <1>3 DEF BeginPrecommit, TypeOK, Idle
  <2>2. \A v \in Workers : Believed(v)'
    BY <2>1, BeliefKept
  <2> QED
    BY <1>3, <2>2, <1>0, StagesKept DEF BeginPrecommit, Stages, Recorded, tigVars, outboxVars
<1>4. ASSUME NEW w \in Workers, NEW r \in Reservations, NEW kind \in Kinds, BeginPayload(w, r, kind) PROVE Stages'
  <2>1. \A v \in Workers : worker'[v].at = "waiting" => worker'[v] = worker[v]
    BY <1>4 DEF BeginPayload, TypeOK, Idle
  <2>2. \A v \in Workers : Believed(v)'
    BY <2>1, BeliefKept
  <2> QED
    BY <1>4, <2>2, <1>0, StagesKept DEF BeginPayload, Stages, Recorded, tigVars, outboxVars
<1>5. ASSUME NEW w \in Workers, Post(w) PROVE Stages'
  <2>1. /\ worker[w].intent \in Intents /\ Busy(w) /\ worker[w].at = "begun"
        /\ wire' = wire \union {worker[w].intent} /\ posted' = posted \union {worker[w].intent}
    BY <1>5, PhaseFacts DEF Post, TypeOK, Busy
  <2>2. worker[w].intent \notin posted
    BY <2>1 DEF Delivery, Handled
  <2>3. \A v \in Workers : worker'[v].at = "waiting" =>
           worker'[v] = worker[v] \/ worker'[v].answer = "none"
    BY <1>5 DEF Post, TypeOK
  <2>4. \A v \in Workers : Believed(v)'
    BY <2>3, BeliefKept
  <2>5. \A i \in Intents : i \in posted \ wire => i \in posted' \ wire'
    BY <2>1, <2>2
  <2> QED
    BY <1>5, <2>4, <2>5, <1>0, StagesKept DEF Post, Stages, Recorded, outboxVars
<1>6. ASSUME NEW w \in Workers, Stop(w) PROVE Stages'
  <2>1. \A v \in Workers : worker'[v].at = "waiting" => worker'[v] = worker[v]
    BY <1>6 DEF Stop, TypeOK, Idle
  <2>2. \A v \in Workers : Believed(v)'
    BY <2>1, BeliefKept
  <2> QED
    BY <1>6, <2>2, <1>0, StagesKept DEF Stop, Stages, Recorded, tigVars, outboxVars
<1>7. ASSUME NEW i \in wire, TigAccepts(i) PROVE Stages'
  <2>1. /\ i \in Intents /\ "ok" \in Answers /\ Answer(i, "ok") /\ Confirms(i) /\ i \in posted
        /\ wire' = wire \ {i} /\ UNCHANGED <<posted, benchmark, receipt, late, outbox>>
    BY <1>7 DEF TigAccepts, TypeOK, Answers, Delivery, outboxVars, reservationVars
  <2>2. Reached(i)' /\ \A j \in Intents : Reached(j)' => Reached(j) \/ j = i
    BY <2>1, AcceptedStage
  <2>3. ASSUME NEW j \in Intents, Reached(j)' PROVE j \in posted' \ wire'
    BY <2>1, <2>2, <2>3 DEF Stages
  <2>4. ASSUME NEW b \in BenchmarkIds, tig'[b] \in Confirmed PROVE \E r \in Reservations : benchmark'[r] = b
    <3>1. CASE b # Target(i)
      BY <2>1, <2>4, <3>1, ConfirmStep DEF Stages
    <3>2. CASE b = Target(i)
      BY <2>1, <2>4, <3>2, ConfirmStep, TargetFacts DEF Confirmed
    <3> QED
      BY <3>1, <3>2
  <2>5. Recorded'
    BY <2>1, RecordedKept
  <2>6. ASSUME NEW v \in Workers PROVE Believed(v)'
    <3>1. /\ worker'[v].at = worker[v].at
          /\ worker[v].at = "waiting" =>
                /\ worker'[v].intent = worker[v].intent
                /\ worker'[v].answer = IF worker[v].intent = i THEN "ok" ELSE worker[v].answer
      BY <2>1, AnswerStep
    <3>2. CASE worker[v].at = "waiting" /\ worker[v].intent = i
      BY <2>2, <3>1, <3>2 DEF Believed
    <3>3. CASE ~(worker[v].at = "waiting" /\ worker[v].intent = i)
      BY <3>1, <3>3, BeliefKept
    <3> QED
      BY <3>2, <3>3
  <2> QED
    BY <2>3, <2>4, <2>5, <2>6 DEF Stages
<1>8. ASSUME NEW i \in wire, TigRejectsLate(i) PROVE Stages'
  <2>1. /\ i \in Intents /\ "late" \in Answers /\ Answer(i, "late")
        /\ i[1] \in Reservations /\ i[2] = "results" /\ elapsed[i[1]]
        /\ wire' = wire \ {i} /\ UNCHANGED <<posted, tig, elapsed, benchmark>>
    BY <1>8, IntentFacts DEF TigRejectsLate, TypeOK, Answers, reservationVars
  <2>2. Overdue(i[1])'
    <3>1. ~Reached(i) /\ benchmark[i[1]] # NoBenchmark
      BY <2>1, TargetFacts DEF Stages
    <3> QED
      BY <2>1, <3>1 DEF Reached, Overdue
  <2>3. ASSUME NEW v \in Workers PROVE Believed(v)'
    <3>1. /\ worker'[v].at = worker[v].at
          /\ worker[v].at = "waiting" =>
                /\ worker'[v].intent = worker[v].intent
                /\ worker'[v].answer = IF worker[v].intent = i THEN "late" ELSE worker[v].answer
      BY <2>1, AnswerStep
    <3>2. CASE worker[v].at = "waiting" /\ worker[v].intent = i
      BY <2>1, <2>2, <3>1, <3>2 DEF Believed
    <3>3. CASE ~(worker[v].at = "waiting" /\ worker[v].intent = i)
      BY <3>1, <3>3, BeliefKept
    <3> QED
      BY <3>2, <3>3
  <2>4. \A j \in Intents : j \in posted \ wire => j \in posted' \ wire'
    BY <2>1
  <2> QED
    BY <1>8, <2>1, <2>3, <2>4, <1>0, StagesKept DEF TigRejectsLate, Stages, Recorded, outboxVars
<1>9. ASSUME NEW i \in wire, TigRefuses(i) PROVE Stages'
  <2>1. /\ i \in Intents /\ "error" \in Answers /\ (Answer(i, "error") \/ UNCHANGED worker)
        /\ wire' = wire \ {i} /\ UNCHANGED <<posted, tig, late>>
    BY <1>9 DEF TigRefuses, TypeOK, Answers, outboxVars
  <2>2. ASSUME NEW v \in Workers PROVE Believed(v)'
    <3>1. CASE Answer(i, "error")
      <4>1. /\ worker'[v].at = worker[v].at
            /\ worker[v].at = "waiting" =>
                  /\ worker'[v].intent = worker[v].intent
                  /\ worker'[v].answer = IF worker[v].intent = i THEN "error" ELSE worker[v].answer
        BY <2>1, <3>1, AnswerStep
      <4> QED
        BY <4>1, BeliefKept
    <3>2. CASE UNCHANGED worker
      BY <3>2, BeliefKept
    <3> QED
      BY <2>1, <3>1, <3>2
  <2>3. \A j \in Intents : j \in posted \ wire => j \in posted' \ wire'
    BY <2>1
  <2> QED
    BY <2>1, <2>2, <2>3, <1>0, StagesKept DEF Stages, Recorded
<1>10. ASSUME NEW w \in Workers, RecordResponse(w) PROVE Stages'
  <2>1. /\ worker[w].intent \in Intents /\ worker[w].intent[1] \in Reservations
        /\ worker[w].at = "waiting" /\ Believed(w)
    BY <1>10, PhaseFacts, IntentFacts DEF RecordResponse, TypeOK, Stages
  <2>2. late' = IF worker[w].answer = "late" THEN [late EXCEPT ![worker[w].intent[1]] = TRUE] ELSE late
    BY <1>10 DEF RecordResponse
  <2>3. ASSUME NEW r \in Reservations, late'[r] PROVE Overdue(r)
    BY <2>1, <2>2, <2>3 DEF Stages, Recorded, Believed, TypeOK
  <2>4. \A v \in Workers : worker'[v].at = "waiting" => worker'[v] = worker[v]
    BY <1>10 DEF RecordResponse, TypeOK, Idle
  <2>5. \A v \in Workers : Believed(v)'
    BY <2>4, BeliefKept
  <2> QED
    BY <1>10, <2>3, <2>5, <1>0, StagesKept DEF RecordResponse, tigVars
<1>11. ASSUME UNCHANGED vars PROVE Stages'
  BY <1>1, <1>11 DEF vars, reservationVars, outboxVars, tigVars
<1>12. ASSUME NEW r \in Reservations, ReserveNext(r) PROVE Stages'
  BY <1>1, <1>12 DEF ReserveNext, B!Reserve, reservationVars, outboxVars, tigVars,
     B!rowVars, B!ledgerVars, B!factVars
<1>13. ASSUME NEW r \in Reservations, CancelUnsent(r) PROVE Stages'
  BY <1>1, <1>13 DEF CancelUnsent, B!Cancel, reservationVars, outboxVars,
     tigVars, B!rowVars, B!ledgerVars, B!factVars
<1>14. ASSUME NEW r \in Reservations, Elapse(r) PROVE Stages'
  BY <1>1, <1>14 DEF Elapse, reservationVars, outboxVars, tigVars, B!rowVars, B!ledgerVars,
     B!factVars
<1>15. ASSUME Archive PROVE Stages'
  BY <1>1, <1>15 DEF Archive, Shown, reservationVars, outboxVars, tigVars, B!rowVars,
     B!ledgerVars, B!factVars
<1>16. ASSUME NEW r \in Reservations, DefinitiveRejection(r) PROVE Stages'
  BY <1>1, <1>16 DEF DefinitiveRejection, NeverAtTig, B!Reject, reservationVars,
     outboxVars, tigVars, B!rowVars, B!ledgerVars, B!factVars
<1>17. ASSUME NEW blk \in blocks, NEW r \in Reservations, RecoverPrecommit(blk, r) PROVE Stages'
  BY <1>1, <1>17 DEF RecoverPrecommit, reservationVars, outboxVars, tigVars, B!rowVars,
     B!ledgerVars, B!factVars
<1>18. ASSUME NEW blk \in blocks, NEW r \in Reservations, PublishAssignment(blk, r) PROVE Stages'
  BY <1>1, <1>18 DEF PublishAssignment, B!Accept, reservationVars, outboxVars, tigVars,
     B!rowVars, B!ledgerVars, B!factVars
<1>19. ASSUME NEW blk \in blocks, NEW r \in Reservations, ConfirmResults(blk, r) PROVE Stages'
  BY <1>1, <1>19 DEF ConfirmResults, Sent, WasAccepted, reservationVars, outboxVars,
     tigVars, B!rowVars, B!ledgerVars, B!factVars
<1>20. ASSUME NEW blk \in blocks, NEW r \in Reservations, StoreSampled(blk, r) PROVE Stages'
  BY <1>1, <1>20 DEF StoreSampled, reservationVars, outboxVars, tigVars, B!rowVars,
     B!ledgerVars, B!factVars
<1>21. ASSUME NEW blk \in blocks, NEW r \in Reservations, ConfirmProofs(blk, r) PROVE Stages'
  BY <1>1, <1>21 DEF ConfirmProofs, Sent, WasAccepted, reservationVars, outboxVars,
     tigVars, B!rowVars, B!ledgerVars, B!factVars
<1>22. ASSUME NEW blk \in blocks, NEW r \in Reservations, RecordListedOutcome(blk, r) PROVE Stages'
  BY <1>1, <1>22 DEF RecordListedOutcome, ListedOutcome, B!RecordOutcome, reservationVars,
     outboxVars, tigVars, B!rowVars, B!ledgerVars, B!factVars
<1>23. ASSUME NEW blk \in blocks, NEW r \in Reservations, ExpireUnsentResults(blk, r) PROVE Stages'
  BY <1>1, <1>23 DEF ExpireUnsentResults, NothingSent, Withdrawn, LifetimeOver,
     B!RecordOutcome, reservationVars, outboxVars, tigVars, B!rowVars, B!ledgerVars,
     B!factVars
<1>24. ASSUME NEW blk \in blocks, NEW r \in Reservations, ExpireRejectedResults(blk, r) PROVE Stages'
  BY <1>1, <1>24 DEF ExpireRejectedResults, LifetimeOver, B!RecordOutcome, reservationVars,
     outboxVars, tigVars, B!rowVars, B!ledgerVars, B!factVars
<1>25. ASSUME NEW r \in Reservations, Acknowledge(r) PROVE Stages'
  BY <1>1, <1>25 DEF Acknowledge, B!Acknowledge, reservationVars, outboxVars, tigVars,
     B!rowVars, B!ledgerVars, B!factVars
<1>26. ASSUME NEW r \in Reservations, NEW kind \in Kinds, Upload(r, kind) PROVE Stages'
  BY <1>1, <1>26 DEF Upload, B!StoreWork, reservationVars, outboxVars, tigVars, B!rowVars,
     B!ledgerVars, B!factVars
<1>27. ASSUME NEW r \in Reservations, OfferExpires(r) PROVE Stages'
  BY <1>1, <1>27 DEF OfferExpires, B!OfferExpires, reservationVars, outboxVars, tigVars,
     B!rowVars, B!ledgerVars, B!factVars
<1>28. ASSUME NEW value \in BOOLEAN, SetPause(value) PROVE Stages'
  BY <1>1, <1>28 DEF SetPause, B!SetPause, reservationVars, outboxVars, tigVars, B!rowVars,
     B!ledgerVars, B!factVars
<1>29. ASSUME NEW r \in Reservations, ReleaseUnhanded(r) PROVE Stages'
  BY <1>1, <1>29 DEF ReleaseUnhanded, B!ReleaseUnhanded, B!NotHanded, B!ReturnCollateral,
     reservationVars, outboxVars, tigVars, B!rowVars, B!ledgerVars, B!factVars
<1>30. ASSUME NEW f \in Foreign, ForeignPost(f) PROVE Stages'
  <2>1. UNCHANGED <<posted, wire, worker, benchmark, receipt, late, outbox>>
    BY <1>30 DEF ForeignPost, outboxVars, reservationVars
  <2>2. \A b \in BenchmarkIds : tig'[b] \in Confirmed => tig[b] \in Confirmed /\ tig'[b] = tig[b]
    BY <1>30, ForeignStep DEF Confirmed
  <2>3. ASSUME NEW i \in Intents, Reached(i)' PROVE i \in posted' \ wire'
    <3>1. i[1] \in Reservations /\ i[1] \in BenchmarkIds /\ i[1] # f /\ i[2] \in {"precommit", "results", "proofs"}
      BY IntentFacts, IdentityAssumption DEF BenchmarkIds
    <3>2. CASE i[2] = "precommit"
      <4>1. tig'[i[1]] = tig[i[1]]
        BY <1>30, <3>1, ForeignStep
      <4> QED
        BY <2>1, <2>3, <3>2, <4>1 DEF Reached, Stages
    <3>3. CASE i[2] # "precommit"
      <4> DEFINE b == benchmark[i[1]]
      <4>1. b # NoBenchmark /\ b \in BenchmarkIds /\ tig'[b] \in Confirmed
        BY <2>1, <2>3, <3>1, <3>3 DEF Reached, Confirmed, TypeOK
      <4>2. tig'[b] = tig[b]
        BY <2>2, <4>1
      <4>3. Reached(i)
        BY <2>1, <2>3, <3>1, <3>3, <4>2 DEF Reached
      <4> QED
        BY <2>1, <4>3 DEF Stages
    <3> QED
      BY <3>2, <3>3
  <2>4. ASSUME NEW b \in BenchmarkIds, tig'[b] \in Confirmed PROVE \E r \in Reservations : benchmark'[r] = b
    BY <2>1, <2>2, <2>4 DEF Stages
  <2>5. Recorded'
    BY <2>1, RecordedKept
  <2>6. \A v \in Workers : Believed(v)'
    BY <2>1, BeliefKept
  <2> QED
    BY <2>3, <2>4, <2>5, <2>6 DEF Stages
<1> QED
  BY <1>2, <1>3, <1>4, <1>5, <1>6, <1>7, <1>8, <1>9, <1>10, <1>11, <1>12, <1>13, <1>14,
     <1>15, <1>16, <1>17, <1>18, <1>19, <1>20, <1>21, <1>22, <1>23, <1>24, <1>25, <1>26,
     <1>27, <1>28, <1>29, <1>30 DEF Next, Dispatch, Tig, Reconcile, People

-----------------------------------------------------------------------------
(***************************************************************************)
(* Archived blocks, the fence, released reservations and outcomes.         *)
(***************************************************************************)

\* What a block showed of a benchmark still holds after a step.
LEMMA ShownKept ==
    ASSUME TypeOK, Payloads, Delivery, OwnBenchmark, [Next]_vars,
           NEW blk \in blocks, NEW b \in BenchmarkIds, ShownOf(blk, b)
    PROVE  ShownOf(blk, b)'
<1>1. Onward(tig[b], tig'[b])
  BY NextTig
<1> QED
  BY <1>1 DEF ShownOf, Onward, Confirmed, ShowsResults

\* And so does what it showed of lifetimes.
LEMMA BlockKept ==
    ASSUME TypeOK, Payloads, Delivery, OwnBenchmark, Archived, [Next]_vars, NEW blk \in blocks
    PROVE  (\A b \in BenchmarkIds : ShownOf(blk, b)') /\ (\A r \in blk.over : elapsed'[r])
<1>1. \A b \in BenchmarkIds : ShownOf(blk, b)'
  BY ShownKept DEF Archived
<1>2. blk.over \subseteq Reservations
  BY DEF TypeOK
<1>3. \A r \in blk.over : elapsed'[r]
  BY <1>2, NextTig DEF Archived
<1> QED
  BY <1>1, <1>3

\* An archived block never becomes false.
LEMMA NextArchived ==
    ASSUME TypeOK, Payloads, Delivery, OwnBenchmark, Archived, [Next]_vars PROVE Archived'
<1>1. ASSUME UNCHANGED <<blocks>> PROVE Archived'
  BY <1>1, BlockKept DEF Archived
<1>2. ASSUME Archive PROVE Archived'
  <2>1. PICK view \in [BenchmarkIds -> Views] :
           /\ \A b \in BenchmarkIds : view[b] \in Shown(b)
           /\ blocks' = blocks \union {[view |-> view, over |-> {q \in Reservations : elapsed[q]}]}
    BY <1>2 DEF Archive
  <2>2. UNCHANGED <<tig, elapsed>>
    BY <1>2 DEF Archive, tigVars
  <2>3. ASSUME NEW b \in BenchmarkIds, NEW blk, blk.view = view PROVE ShownOf(blk, b)'
    <3>1. view[b] \in Shown(b) /\ tig[b] \in TigStages
      BY <2>1 DEF TypeOK
    <3> QED
      BY <2>2, <2>3, <3>1 DEF ShownOf, Shown, TigStages, Confirmed, ShowsResults
  <2>4. ASSUME NEW blk \in blocks'
        PROVE  (\A b \in BenchmarkIds : ShownOf(blk, b)') /\ (\A r \in blk.over : elapsed'[r])
    <3>1. CASE blk \in blocks
      BY <3>1, BlockKept
    <3>2. CASE blk = [view |-> view, over |-> {q \in Reservations : elapsed[q]}]
      <4>1. blk.view = view /\ \A r \in blk.over : elapsed[r]
        BY <3>2
      <4> QED
        BY <2>2, <2>3, <4>1
    <3> QED
      BY <2>1, <2>4, <3>1, <3>2
  <2> QED
    BY <2>4 DEF Archived
<1>3. ASSUME UNCHANGED vars PROVE Archived'
  BY <1>1, <1>3 DEF vars, reservationVars, outboxVars, tigVars
<1>4. ASSUME NEW r \in Reservations, ReserveNext(r) PROVE Archived'
  BY <1>1, <1>4 DEF ReserveNext, B!Reserve, reservationVars, outboxVars, tigVars,
     B!rowVars, B!ledgerVars, B!factVars
<1>5. ASSUME NEW r \in Reservations, CancelUnsent(r) PROVE Archived'
  BY <1>1, <1>5 DEF CancelUnsent, B!Cancel, reservationVars, outboxVars,
     tigVars, B!rowVars, B!ledgerVars, B!factVars
<1>6. ASSUME NEW w \in Workers, NEW r \in Reservations, Preflight(w, r) PROVE Archived'
  BY <1>1, <1>6 DEF Preflight, reservationVars, outboxVars, tigVars, B!rowVars,
     B!ledgerVars, B!factVars
<1>7. ASSUME NEW w \in Workers, BeginPrecommit(w) PROVE Archived'
  BY <1>1, <1>7 DEF BeginPrecommit, Unsent, B!MarkSubmitting, reservationVars, outboxVars,
     tigVars, B!rowVars, B!ledgerVars, B!factVars
<1>8. ASSUME NEW w \in Workers, NEW r \in Reservations, NEW kind \in Kinds, BeginPayload(w, r, kind) PROVE Archived'
  BY <1>1, <1>8 DEF BeginPayload, Unsent, reservationVars, outboxVars, tigVars, B!rowVars,
     B!ledgerVars, B!factVars
<1>9. ASSUME NEW w \in Workers, Post(w) PROVE Archived'
  BY <1>1, <1>9 DEF Post, reservationVars, outboxVars, tigVars, B!rowVars, B!ledgerVars,
     B!factVars
<1>10. ASSUME NEW w \in Workers, Stop(w) PROVE Archived'
  BY <1>1, <1>10 DEF Stop, reservationVars, outboxVars, tigVars, B!rowVars, B!ledgerVars,
     B!factVars
<1>11. ASSUME NEW i \in wire, TigAccepts(i) PROVE Archived'
  BY <1>1, <1>11 DEF TigAccepts, Confirms, Answer, reservationVars, outboxVars, tigVars,
     B!rowVars, B!ledgerVars, B!factVars
<1>12. ASSUME NEW i \in wire, TigRejectsLate(i) PROVE Archived'
  BY <1>1, <1>12 DEF TigRejectsLate, Answer, reservationVars, outboxVars, tigVars,
     B!rowVars, B!ledgerVars, B!factVars
<1>13. ASSUME NEW i \in wire, TigRefuses(i) PROVE Archived'
  BY <1>1, <1>13 DEF TigRefuses, Answer, reservationVars, outboxVars, tigVars, B!rowVars,
     B!ledgerVars, B!factVars
<1>14. ASSUME NEW r \in Reservations, Elapse(r) PROVE Archived'
  BY <1>1, <1>14 DEF Elapse, reservationVars, outboxVars, tigVars, B!rowVars, B!ledgerVars,
     B!factVars
<1>15. ASSUME NEW w \in Workers, RecordResponse(w) PROVE Archived'
  BY <1>1, <1>15 DEF RecordResponse, reservationVars, outboxVars, tigVars, B!rowVars,
     B!ledgerVars, B!factVars
<1>16. ASSUME NEW r \in Reservations, DefinitiveRejection(r) PROVE Archived'
  BY <1>1, <1>16 DEF DefinitiveRejection, NeverAtTig, B!Reject, reservationVars,
     outboxVars, tigVars, B!rowVars, B!ledgerVars, B!factVars
<1>17. ASSUME NEW blk \in blocks, NEW r \in Reservations, RecoverPrecommit(blk, r) PROVE Archived'
  BY <1>1, <1>17 DEF RecoverPrecommit, reservationVars, outboxVars, tigVars, B!rowVars,
     B!ledgerVars, B!factVars
<1>18. ASSUME NEW blk \in blocks, NEW r \in Reservations, PublishAssignment(blk, r) PROVE Archived'
  BY <1>1, <1>18 DEF PublishAssignment, B!Accept, reservationVars, outboxVars, tigVars,
     B!rowVars, B!ledgerVars, B!factVars
<1>19. ASSUME NEW blk \in blocks, NEW r \in Reservations, ConfirmResults(blk, r) PROVE Archived'
  BY <1>1, <1>19 DEF ConfirmResults, Sent, WasAccepted, reservationVars, outboxVars,
     tigVars, B!rowVars, B!ledgerVars, B!factVars
<1>20. ASSUME NEW blk \in blocks, NEW r \in Reservations, StoreSampled(blk, r) PROVE Archived'
  BY <1>1, <1>20 DEF StoreSampled, reservationVars, outboxVars, tigVars, B!rowVars,
     B!ledgerVars, B!factVars
<1>21. ASSUME NEW blk \in blocks, NEW r \in Reservations, ConfirmProofs(blk, r) PROVE Archived'
  BY <1>1, <1>21 DEF ConfirmProofs, Sent, WasAccepted, reservationVars, outboxVars,
     tigVars, B!rowVars, B!ledgerVars, B!factVars
<1>22. ASSUME NEW blk \in blocks, NEW r \in Reservations, RecordListedOutcome(blk, r) PROVE Archived'
  BY <1>1, <1>22 DEF RecordListedOutcome, ListedOutcome, B!RecordOutcome, reservationVars,
     outboxVars, tigVars, B!rowVars, B!ledgerVars, B!factVars
<1>23. ASSUME NEW blk \in blocks, NEW r \in Reservations, ExpireUnsentResults(blk, r) PROVE Archived'
  BY <1>1, <1>23 DEF ExpireUnsentResults, NothingSent, Withdrawn, LifetimeOver,
     B!RecordOutcome, reservationVars, outboxVars, tigVars, B!rowVars, B!ledgerVars,
     B!factVars
<1>24. ASSUME NEW blk \in blocks, NEW r \in Reservations, ExpireRejectedResults(blk, r) PROVE Archived'
  BY <1>1, <1>24 DEF ExpireRejectedResults, LifetimeOver, B!RecordOutcome, reservationVars,
     outboxVars, tigVars, B!rowVars, B!ledgerVars, B!factVars
<1>25. ASSUME NEW r \in Reservations, Acknowledge(r) PROVE Archived'
  BY <1>1, <1>25 DEF Acknowledge, B!Acknowledge, reservationVars, outboxVars, tigVars,
     B!rowVars, B!ledgerVars, B!factVars
<1>26. ASSUME NEW r \in Reservations, NEW kind \in Kinds, Upload(r, kind) PROVE Archived'
  BY <1>1, <1>26 DEF Upload, B!StoreWork, reservationVars, outboxVars, tigVars, B!rowVars,
     B!ledgerVars, B!factVars
<1>27. ASSUME NEW r \in Reservations, OfferExpires(r) PROVE Archived'
  BY <1>1, <1>27 DEF OfferExpires, B!OfferExpires, reservationVars, outboxVars, tigVars,
     B!rowVars, B!ledgerVars, B!factVars
<1>28. ASSUME NEW value \in BOOLEAN, SetPause(value) PROVE Archived'
  BY <1>1, <1>28 DEF SetPause, B!SetPause, reservationVars, outboxVars, tigVars, B!rowVars,
     B!ledgerVars, B!factVars
<1>29. ASSUME NEW r \in Reservations, ReleaseUnhanded(r) PROVE Archived'
  BY <1>1, <1>29 DEF ReleaseUnhanded, B!ReleaseUnhanded, B!NotHanded, B!ReturnCollateral,
     reservationVars, outboxVars, tigVars, B!rowVars, B!ledgerVars, B!factVars
<1>30. ASSUME NEW f \in Foreign, ForeignPost(f) PROVE Archived'
  BY <1>1, <1>30 DEF ForeignPost, reservationVars, outboxVars
<1> QED
  BY <1>2, <1>3, <1>4, <1>5, <1>6, <1>7, <1>8, <1>9, <1>10, <1>11, <1>12, <1>13, <1>14,
     <1>15, <1>16, <1>17, <1>18, <1>19, <1>20, <1>21, <1>22, <1>23, <1>24, <1>25, <1>26,
     <1>27, <1>28, <1>29, <1>30 DEF Next, Dispatch, Tig, Reconcile, People

\* Without a new unresolved precommit the fence stands.
LEMMA FencedKept ==
    ASSUME Fenced,
           \A r \in Reservations : outbox'[<<r, "precommit">>] = "uncertain" =>
               outbox[<<r, "precommit">>] = "uncertain"
    PROVE  Fenced'
  BY DEF Fenced, FencedOf, Unambiguous

\* The fence keeps look-alike precommits apart.
LEMMA NextFenced ==
    ASSUME TypeOK, Fenced, [Next]_vars PROVE Fenced'
<1>1. ASSUME UNCHANGED <<outbox>> PROVE Fenced'
  BY <1>1, FencedKept
<1>2. ASSUME NEW r \in Reservations, ReserveNext(r) PROVE Fenced'
  BY <1>2, FencedKept DEF ReserveNext, B!Reserve, TypeOK, reservationVars, outboxVars,
     tigVars, Intents, Kinds
<1>3. ASSUME NEW r \in Reservations, CancelUnsent(r) PROVE Fenced'
  BY <1>3, FencedKept DEF CancelUnsent, B!Cancel, TypeOK, reservationVars,
     outboxVars, tigVars, Intents, Kinds
<1>4. ASSUME NEW w \in Workers, NEW r \in Reservations, Preflight(w, r) PROVE Fenced'
  BY <1>1, <1>4 DEF Preflight, outboxVars
<1>5. ASSUME NEW w \in Workers, BeginPrecommit(w) PROVE Fenced'
  <2>1. PICK r \in Reservations : worker[w].intent = <<r, "precommit">>
    BY <1>5, PhaseFacts DEF BeginPrecommit, TypeOK
  <2>2. Unambiguous(r) /\ outbox' = [outbox EXCEPT ![<<r, "precommit">>] = "uncertain"]
    BY <1>5, <2>1 DEF BeginPrecommit
  <2>3. \A q \in Reservations : outbox'[<<q, "precommit">>] =
           IF q = r THEN "uncertain" ELSE outbox[<<q, "precommit">>]
    BY <2>2 DEF TypeOK, Intents, Kinds
  <2>4. ASSUME NEW q \in Reservations PROVE FencedOf(q)'
    <3>1. FencedOf(q)
      BY DEF Fenced
    <3>2. CASE q = r
      BY <2>2, <2>3, <3>2 DEF FencedOf, Unambiguous
    <3>3. CASE q # r
      <4>1. outbox[<<q, "precommit">>] = "uncertain" => MatchKey[q] # MatchKey[r]
        BY <2>2, <3>3 DEF Unambiguous
      <4> QED
        BY <2>3, <3>1, <3>3, <4>1 DEF FencedOf, Unambiguous
    <3> QED
      BY <3>2, <3>3
  <2> QED
    BY <2>4 DEF Fenced
<1>6. ASSUME NEW w \in Workers, NEW r \in Reservations, NEW kind \in Kinds, BeginPayload(w, r, kind) PROVE Fenced'
  <2>1. outbox' = [outbox EXCEPT ![<<r, kind>>] = "uncertain"] /\ kind # "precommit"
    BY <1>6 DEF BeginPayload
  <2>2. \A q \in Reservations : outbox'[<<q, "precommit">>] = "uncertain" => outbox[<<q, "precommit">>] = "uncertain"
    BY <2>1 DEF TypeOK, Intents, Kinds
  <2> QED
    BY <2>2, FencedKept
<1>7. ASSUME NEW w \in Workers, Post(w) PROVE Fenced'
  BY <1>1, <1>7 DEF Post, outboxVars
<1>8. ASSUME NEW w \in Workers, Stop(w) PROVE Fenced'
  BY <1>1, <1>8 DEF Stop, outboxVars
<1>9. ASSUME NEW i \in wire, TigAccepts(i) PROVE Fenced'
  BY <1>1, <1>9 DEF TigAccepts, outboxVars
<1>10. ASSUME NEW i \in wire, TigRejectsLate(i) PROVE Fenced'
  BY <1>1, <1>10 DEF TigRejectsLate, outboxVars
<1>11. ASSUME NEW i \in wire, TigRefuses(i) PROVE Fenced'
  BY <1>1, <1>11 DEF TigRefuses, outboxVars
<1>12. ASSUME NEW w \in Workers, RecordResponse(w) PROVE Fenced'
  <2>1. worker[w].intent \in Intents
    BY <1>12, PhaseFacts DEF RecordResponse, TypeOK
  <2>2. \A q \in Reservations : outbox'[<<q, "precommit">>] = "uncertain" => outbox[<<q, "precommit">>] = "uncertain"
    BY <1>12, <2>1 DEF RecordResponse, TypeOK
  <2> QED
    BY <2>2, FencedKept
<1>13. ASSUME NEW r \in Reservations, DefinitiveRejection(r) PROVE Fenced'
  BY <1>13, FencedKept DEF DefinitiveRejection, NeverAtTig, B!Reject, TypeOK,
     reservationVars, outboxVars, tigVars, Intents, Kinds
<1>14. ASSUME NEW blk \in blocks, NEW r \in Reservations, RecoverPrecommit(blk, r) PROVE Fenced'
  BY <1>14, FencedKept DEF RecoverPrecommit, TypeOK, reservationVars, outboxVars, tigVars,
     Intents, Kinds
<1>15. ASSUME NEW blk \in blocks, NEW r \in Reservations, ConfirmResults(blk, r) PROVE Fenced'
  BY <1>15, FencedKept DEF ConfirmResults, Sent, WasAccepted, TypeOK, reservationVars,
     outboxVars, tigVars, Intents, Kinds
<1>16. ASSUME NEW blk \in blocks, NEW r \in Reservations, ConfirmProofs(blk, r) PROVE Fenced'
  BY <1>16, FencedKept DEF ConfirmProofs, Sent, WasAccepted, TypeOK, reservationVars,
     outboxVars, tigVars, Intents, Kinds
<1>17. ASSUME NEW blk \in blocks, NEW r \in Reservations, ExpireUnsentResults(blk, r) PROVE Fenced'
  BY <1>17, FencedKept DEF ExpireUnsentResults, NothingSent, Withdrawn, LifetimeOver,
     B!RecordOutcome, TypeOK, reservationVars, outboxVars, tigVars, Intents, Kinds
<1>18. ASSUME NEW blk \in blocks, NEW r \in Reservations, ExpireRejectedResults(blk, r) PROVE Fenced'
  BY <1>18, FencedKept DEF ExpireRejectedResults, LifetimeOver, B!RecordOutcome, TypeOK,
     reservationVars, outboxVars, tigVars, Intents, Kinds
<1>19. ASSUME NEW r \in Reservations, NEW kind \in Kinds, Upload(r, kind) PROVE Fenced'
  BY <1>19, FencedKept DEF Upload, B!StoreWork, TypeOK, reservationVars, outboxVars,
     tigVars, Intents, Kinds
<1>20. ASSUME UNCHANGED vars PROVE Fenced'
  BY <1>1, <1>20 DEF vars, reservationVars, outboxVars, tigVars
<1>21. ASSUME NEW r \in Reservations, Elapse(r) PROVE Fenced'
  BY <1>1, <1>21 DEF Elapse, reservationVars, outboxVars, tigVars, B!rowVars, B!ledgerVars,
     B!factVars
<1>22. ASSUME Archive PROVE Fenced'
  BY <1>1, <1>22 DEF Archive, Shown, reservationVars, outboxVars, tigVars, B!rowVars,
     B!ledgerVars, B!factVars
<1>23. ASSUME NEW blk \in blocks, NEW r \in Reservations, PublishAssignment(blk, r) PROVE Fenced'
  BY <1>1, <1>23 DEF PublishAssignment, B!Accept, reservationVars, outboxVars, tigVars,
     B!rowVars, B!ledgerVars, B!factVars
<1>24. ASSUME NEW blk \in blocks, NEW r \in Reservations, StoreSampled(blk, r) PROVE Fenced'
  BY <1>1, <1>24 DEF StoreSampled, reservationVars, outboxVars, tigVars, B!rowVars,
     B!ledgerVars, B!factVars
<1>25. ASSUME NEW blk \in blocks, NEW r \in Reservations, RecordListedOutcome(blk, r) PROVE Fenced'
  BY <1>1, <1>25 DEF RecordListedOutcome, ListedOutcome, B!RecordOutcome, reservationVars,
     outboxVars, tigVars, B!rowVars, B!ledgerVars, B!factVars
<1>26. ASSUME NEW r \in Reservations, Acknowledge(r) PROVE Fenced'
  BY <1>1, <1>26 DEF Acknowledge, B!Acknowledge, reservationVars, outboxVars, tigVars,
     B!rowVars, B!ledgerVars, B!factVars
<1>27. ASSUME NEW r \in Reservations, OfferExpires(r) PROVE Fenced'
  BY <1>1, <1>27 DEF OfferExpires, B!OfferExpires, reservationVars, outboxVars, tigVars,
     B!rowVars, B!ledgerVars, B!factVars
<1>28. ASSUME NEW value \in BOOLEAN, SetPause(value) PROVE Fenced'
  BY <1>1, <1>28 DEF SetPause, B!SetPause, reservationVars, outboxVars, tigVars, B!rowVars,
     B!ledgerVars, B!factVars
<1>29. ASSUME NEW r \in Reservations, ReleaseUnhanded(r) PROVE Fenced'
  BY <1>1, <1>29 DEF ReleaseUnhanded, B!ReleaseUnhanded, B!NotHanded, B!ReturnCollateral,
     reservationVars, outboxVars, tigVars, B!rowVars, B!ledgerVars, B!factVars
<1>30. ASSUME NEW f \in Foreign, ForeignPost(f) PROVE Fenced'
  BY <1>1, <1>30 DEF ForeignPost, reservationVars, outboxVars
<1> QED
  BY <1>2, <1>3, <1>4, <1>5, <1>6, <1>7, <1>8, <1>9, <1>10, <1>11, <1>12, <1>13, <1>14,
     <1>15, <1>16, <1>17, <1>18, <1>19, <1>20, <1>21, <1>22, <1>23, <1>24, <1>25, <1>26,
     <1>27, <1>28, <1>29, <1>30 DEF Next, Dispatch, Tig, Reconcile, People

\* Before a precommit is sent, TIG cannot know of it.
LEMMA Unposted ==
    ASSUME TypeOK, Delivery, Stages, NEW i \in Intents, outbox[i] \in NeverSent
    PROVE  /\ i \notin posted /\ i \notin wire /\ ~Reached(i)
           /\ \A w \in Workers : Busy(w) => worker[w].intent # i
<1>1. i \notin posted
  BY DEF Delivery
<1>2. \A w \in Workers : Busy(w) => worker[w].intent # i
  BY DEF Delivery, Handled
<1> QED
  BY <1>1, <1>2 DEF Delivery, Stages

\* TIG has no benchmark of r, and nothing on the way could create one.
Gone(r) ==
    /\ tig[r] = "absent"
    /\ <<r, "precommit">> \notin wire
    /\ \A w \in Workers : worker[w].at = "begun" => worker[w].intent # <<r, "precommit">>

\* A worker that has begun holds its intent and nothing else.
LEMMA BegunFacts ==
    ASSUME TypeOK, NEW w \in Workers, NEW i
    PROVE  worker[w] # [at |-> "begun", intent |-> i] <=>
           (worker[w].at = "begun" => worker[w].intent # i)
<1>1. CASE worker[w].at = "begun" /\ worker[w].intent = i
  <2>1. worker[w] = [at |-> "begun", intent |-> worker[w].intent]
    BY <1>1, PhaseFacts DEF TypeOK
  <2> QED
    BY <1>1, <2>1
<1>2. CASE ~(worker[w].at = "begun" /\ worker[w].intent = i)
  BY <1>2
<1> QED
  BY <1>1, <1>2

\* The invariant in these words.
LEMMA ReleasedIsGone ==
    TypeOK => (ReleasedIsAbsent <=>
        \A r \in Reservations :
            state[r] \in {"cancelled", "rejected"} /\ benchmark[r] = NoBenchmark => Gone(r))
  BY BegunFacts DEF ReleasedIsAbsent, Gone

\* An intent that is never sent again stays away from TIG.
LEMMA GoneKept ==
    ASSUME TypeOK, [Next]_vars, NEW r \in Reservations, Gone(r), outbox[<<r, "precommit">>] # "ready"
    PROVE  Gone(r)'
<1>1. ASSUME UNCHANGED <<tig, wire, worker>> PROVE Gone(r)'
  BY <1>1 DEF Gone
<1>2. ASSUME NEW w \in Workers, NEW q \in Reservations, Preflight(w, q) PROVE Gone(r)'
  <2>1. UNCHANGED <<tig, wire>>
    BY <1>2 DEF Preflight, tigVars
  <2>2. \A v \in Workers : worker'[v].at = "begun" => worker'[v] = worker[v]
    BY <1>2 DEF Preflight, TypeOK, Idle
  <2> QED
    BY <2>1, <2>2 DEF Gone
<1>3. ASSUME NEW w \in Workers, BeginPrecommit(w) PROVE Gone(r)'
  <2>1. /\ outbox[worker[w].intent] = "ready" /\ UNCHANGED <<tig, wire>>
        /\ \A v \in Workers : worker'[v] =
              IF v = w THEN [at |-> "begun", intent |-> worker[w].intent] ELSE worker[v]
    BY <1>3 DEF BeginPrecommit, Unsent, TypeOK, tigVars
  <2> QED
    BY <2>1 DEF Gone
<1>4. ASSUME NEW w \in Workers, NEW q \in Reservations, NEW kind \in Kinds, BeginPayload(w, q, kind) PROVE Gone(r)'
  <2>1. /\ outbox[<<q, kind>>] = "ready" /\ UNCHANGED <<tig, wire>>
        /\ \A v \in Workers : worker'[v] =
              IF v = w THEN [at |-> "begun", intent |-> <<q, kind>>] ELSE worker[v]
    BY <1>4 DEF BeginPayload, Unsent, TypeOK, tigVars
  <2> QED
    BY <2>1 DEF Gone
<1>5. ASSUME NEW w \in Workers, Post(w) PROVE Gone(r)'
  <2>1. /\ worker[w].at = "begun" /\ UNCHANGED tig /\ wire' = wire \union {worker[w].intent}
        /\ \A v \in Workers : worker'[v].at = "begun" => worker'[v] = worker[v]
    BY <1>5 DEF Post, TypeOK
  <2> QED
    BY <2>1 DEF Gone
<1>6. ASSUME NEW w \in Workers, Stop(w) PROVE Gone(r)'
  <2>1. UNCHANGED <<tig, wire>>
    BY <1>6 DEF Stop, tigVars
  <2>2. \A v \in Workers : worker'[v].at = "begun" => worker'[v] = worker[v]
    BY <1>6 DEF Stop, TypeOK, Idle
  <2> QED
    BY <2>1, <2>2 DEF Gone
<1>7. ASSUME NEW i \in wire, TigAccepts(i) PROVE Gone(r)'
  <2>1. /\ i \in Intents /\ i \in wire /\ wire' = wire \ {i} /\ Confirms(i)
        /\ "ok" \in Answers /\ Answer(i, "ok")
    BY <1>7 DEF TigAccepts, TypeOK, Answers
  <2>2. \A v \in Workers : worker'[v].at = "begun" => worker'[v] = worker[v]
    BY <2>1, AnswerStep
  <2>3. r # Target(i)
    BY <2>1, ConfirmStep, IntentFacts DEF Gone, Target
  <2>4. tig'[r] = tig[r]
    BY <2>1, <2>3, ConfirmStep DEF BenchmarkIds
  <2> QED
    BY <2>1, <2>2, <2>4 DEF Gone
<1>8. ASSUME NEW i \in wire, TigRejectsLate(i) PROVE Gone(r)'
  <2>1. /\ i \in Intents /\ wire' = wire \ {i} /\ UNCHANGED tig
        /\ "late" \in Answers /\ Answer(i, "late")
    BY <1>8 DEF TigRejectsLate, TypeOK, Answers
  <2>2. \A v \in Workers : worker'[v].at = "begun" => worker'[v] = worker[v]
    BY <2>1, AnswerStep
  <2> QED
    BY <2>1, <2>2 DEF Gone
<1>9. ASSUME NEW i \in wire, TigRefuses(i) PROVE Gone(r)'
  <2>1. /\ i \in Intents /\ wire' = wire \ {i} /\ UNCHANGED tig
        /\ "error" \in Answers /\ (Answer(i, "error") \/ UNCHANGED worker)
    BY <1>9 DEF TigRefuses, TypeOK, Answers
  <2>2. \A v \in Workers : worker'[v].at = "begun" => worker'[v] = worker[v]
    BY <2>1, AnswerStep
  <2> QED
    BY <2>1, <2>2 DEF Gone
<1>10. ASSUME NEW w \in Workers, RecordResponse(w) PROVE Gone(r)'
  <2>1. UNCHANGED <<tig, wire>>
    BY <1>10 DEF RecordResponse, tigVars
  <2>2. \A v \in Workers : worker'[v].at = "begun" => worker'[v] = worker[v]
    BY <1>10 DEF RecordResponse, TypeOK, Idle
  <2> QED
    BY <2>1, <2>2 DEF Gone
<1>11. ASSUME UNCHANGED vars PROVE Gone(r)'
  BY <1>1, <1>11 DEF vars, reservationVars, outboxVars, tigVars
<1>12. ASSUME NEW q \in Reservations, ReserveNext(q) PROVE Gone(r)'
  BY <1>1, <1>12 DEF ReserveNext, B!Reserve, reservationVars, outboxVars, tigVars,
     B!rowVars, B!ledgerVars, B!factVars
<1>13. ASSUME NEW q \in Reservations, CancelUnsent(q) PROVE Gone(r)'
  BY <1>1, <1>13 DEF CancelUnsent, B!Cancel, reservationVars, outboxVars,
     tigVars, B!rowVars, B!ledgerVars, B!factVars
<1>14. ASSUME NEW q \in Reservations, Elapse(q) PROVE Gone(r)'
  BY <1>1, <1>14 DEF Elapse, reservationVars, outboxVars, tigVars, B!rowVars, B!ledgerVars,
     B!factVars
<1>15. ASSUME Archive PROVE Gone(r)'
  BY <1>1, <1>15 DEF Archive, Shown, reservationVars, outboxVars, tigVars, B!rowVars,
     B!ledgerVars, B!factVars
<1>16. ASSUME NEW q \in Reservations, DefinitiveRejection(q) PROVE Gone(r)'
  BY <1>1, <1>16 DEF DefinitiveRejection, NeverAtTig, B!Reject, reservationVars,
     outboxVars, tigVars, B!rowVars, B!ledgerVars, B!factVars
<1>17. ASSUME NEW blk \in blocks, NEW q \in Reservations, RecoverPrecommit(blk, q) PROVE Gone(r)'
  BY <1>1, <1>17 DEF RecoverPrecommit, reservationVars, outboxVars, tigVars, B!rowVars,
     B!ledgerVars, B!factVars
<1>18. ASSUME NEW blk \in blocks, NEW q \in Reservations, PublishAssignment(blk, q) PROVE Gone(r)'
  BY <1>1, <1>18 DEF PublishAssignment, B!Accept, reservationVars, outboxVars, tigVars,
     B!rowVars, B!ledgerVars, B!factVars
<1>19. ASSUME NEW blk \in blocks, NEW q \in Reservations, ConfirmResults(blk, q) PROVE Gone(r)'
  BY <1>1, <1>19 DEF ConfirmResults, Sent, WasAccepted, reservationVars, outboxVars,
     tigVars, B!rowVars, B!ledgerVars, B!factVars
<1>20. ASSUME NEW blk \in blocks, NEW q \in Reservations, StoreSampled(blk, q) PROVE Gone(r)'
  BY <1>1, <1>20 DEF StoreSampled, reservationVars, outboxVars, tigVars, B!rowVars,
     B!ledgerVars, B!factVars
<1>21. ASSUME NEW blk \in blocks, NEW q \in Reservations, ConfirmProofs(blk, q) PROVE Gone(r)'
  BY <1>1, <1>21 DEF ConfirmProofs, Sent, WasAccepted, reservationVars, outboxVars,
     tigVars, B!rowVars, B!ledgerVars, B!factVars
<1>22. ASSUME NEW blk \in blocks, NEW q \in Reservations, RecordListedOutcome(blk, q) PROVE Gone(r)'
  BY <1>1, <1>22 DEF RecordListedOutcome, ListedOutcome, B!RecordOutcome, reservationVars,
     outboxVars, tigVars, B!rowVars, B!ledgerVars, B!factVars
<1>23. ASSUME NEW blk \in blocks, NEW q \in Reservations, ExpireUnsentResults(blk, q) PROVE Gone(r)'
  BY <1>1, <1>23 DEF ExpireUnsentResults, NothingSent, Withdrawn, LifetimeOver,
     B!RecordOutcome, reservationVars, outboxVars, tigVars, B!rowVars, B!ledgerVars,
     B!factVars
<1>24. ASSUME NEW blk \in blocks, NEW q \in Reservations, ExpireRejectedResults(blk, q) PROVE Gone(r)'
  BY <1>1, <1>24 DEF ExpireRejectedResults, LifetimeOver, B!RecordOutcome, reservationVars,
     outboxVars, tigVars, B!rowVars, B!ledgerVars, B!factVars
<1>25. ASSUME NEW q \in Reservations, Acknowledge(q) PROVE Gone(r)'
  BY <1>1, <1>25 DEF Acknowledge, B!Acknowledge, reservationVars, outboxVars, tigVars,
     B!rowVars, B!ledgerVars, B!factVars
<1>26. ASSUME NEW q \in Reservations, NEW kind \in Kinds, Upload(q, kind) PROVE Gone(r)'
  BY <1>1, <1>26 DEF Upload, B!StoreWork, reservationVars, outboxVars, tigVars, B!rowVars,
     B!ledgerVars, B!factVars
<1>27. ASSUME NEW q \in Reservations, OfferExpires(q) PROVE Gone(r)'
  BY <1>1, <1>27 DEF OfferExpires, B!OfferExpires, reservationVars, outboxVars, tigVars,
     B!rowVars, B!ledgerVars, B!factVars
<1>28. ASSUME NEW value \in BOOLEAN, SetPause(value) PROVE Gone(r)'
  BY <1>1, <1>28 DEF SetPause, B!SetPause, reservationVars, outboxVars, tigVars, B!rowVars,
     B!ledgerVars, B!factVars
<1>29. ASSUME NEW q \in Reservations, ReleaseUnhanded(q) PROVE Gone(r)'
  BY <1>1, <1>29 DEF ReleaseUnhanded, B!ReleaseUnhanded, B!NotHanded, B!ReturnCollateral,
     reservationVars, outboxVars, tigVars, B!rowVars, B!ledgerVars, B!factVars
<1>30. ASSUME NEW f \in Foreign, ForeignPost(f) PROVE Gone(r)'
  <2>1. tig'[r] = tig[r]
    BY <1>30, ForeignStep, IdentityAssumption DEF BenchmarkIds
  <2> QED
    BY <1>30, <2>1 DEF ForeignPost, Gone
<1> QED
  BY <1>2, <1>3, <1>4, <1>5, <1>6, <1>7, <1>8, <1>9, <1>10, <1>11, <1>12, <1>13, <1>14,
     <1>15, <1>16, <1>17, <1>18, <1>19, <1>20, <1>21, <1>22, <1>23, <1>24, <1>25, <1>26,
     <1>27, <1>28, <1>29, <1>30 DEF Next, Dispatch, Tig, Reconcile, People

\* What is released as never started never starts.
LEMMA NextReleased ==
    ASSUME TypeOK, Precommits, Delivery, Stages, ReleasedIsAbsent, [Next]_vars PROVE ReleasedIsAbsent'
<1> DEFINE Out(p) == state[p] \in {"cancelled", "rejected"} /\ benchmark[p] = NoBenchmark
<1> SUFFICES ASSUME NEW q \in Reservations, Out(q)', ~Out(q) PROVE Gone(q)'
  <2>1. ASSUME NEW q \in Reservations, Out(q) PROVE Gone(q)'
    <3>1. outbox[<<q, "precommit">>] # "ready"
      BY <2>1 DEF Precommits, PrecommitOK
    <3>2. Gone(q)
      BY <2>1, ReleasedIsGone
    <3> QED
      BY <3>1, <3>2, GoneKept
  <2>2. (TypeOK => (ReleasedIsAbsent <=> \A r \in Reservations : Out(r) => Gone(r)))'
    BY ReleasedIsGone, PTL
  <2> QED
    BY <2>1, <2>2, NextType
<1>1. ASSUME UNCHANGED <<benchmark, state>> PROVE Gone(q)'
  BY <1>1 DEF TypeOK, B!Definitive, reservationVars, outboxVars, tigVars
<1>2. ASSUME NEW r \in Reservations, ReserveNext(r) PROVE Gone(q)'
  BY <1>2 DEF ReserveNext, B!Reserve, TypeOK, B!Definitive, reservationVars, outboxVars,
     tigVars
<1>3. ASSUME NEW r \in Reservations, CancelUnsent(r) PROVE Gone(q)'
  <2>1. q = r /\ outbox[<<q, "precommit">>] = "ready" /\ UNCHANGED <<tig, wire, worker>>
    BY <1>3 DEF CancelUnsent, B!Cancel, tigVars, TypeOK
  <2>2. /\ ~Reached(<<q, "precommit">>) /\ <<q, "precommit">> \notin wire
        /\ \A w \in Workers : Busy(w) => worker[w].intent # <<q, "precommit">>
    BY <2>1, Unposted, IntentFacts DEF NeverSent
  <2> QED
    BY <2>1, <2>2 DEF Gone, Reached, Busy
<1>4. ASSUME NEW w \in Workers, BeginPrecommit(w) PROVE Gone(q)'
  BY <1>4 DEF BeginPrecommit, Unsent, B!MarkSubmitting, TypeOK, B!Definitive,
     reservationVars, outboxVars, tigVars
<1>5. ASSUME NEW r \in Reservations, DefinitiveRejection(r) PROVE Gone(q)'
  <2>1. q = r /\ NeverAtTig(r) /\ UNCHANGED <<tig, wire, worker>>
    BY <1>5 DEF DefinitiveRejection, B!Reject, tigVars, TypeOK
  <2> QED
    BY <2>1, BegunFacts DEF NeverAtTig, Gone
<1>6. ASSUME NEW blk \in blocks, NEW r \in Reservations, PublishAssignment(blk, r) PROVE Gone(q)'
  BY <1>6 DEF PublishAssignment, B!Accept, TypeOK, B!Definitive, reservationVars,
     outboxVars, tigVars
<1>7. ASSUME NEW blk \in blocks, NEW r \in Reservations, RecordListedOutcome(blk, r) PROVE Gone(q)'
  BY <1>7 DEF RecordListedOutcome, ListedOutcome, B!RecordOutcome, TypeOK, B!Definitive,
     reservationVars, outboxVars, tigVars
<1>8. ASSUME NEW blk \in blocks, NEW r \in Reservations, ExpireUnsentResults(blk, r) PROVE Gone(q)'
  BY <1>8 DEF ExpireUnsentResults, NothingSent, Withdrawn, LifetimeOver, B!RecordOutcome,
     TypeOK, B!Definitive, reservationVars, outboxVars, tigVars
<1>9. ASSUME NEW blk \in blocks, NEW r \in Reservations, ExpireRejectedResults(blk, r) PROVE Gone(q)'
  BY <1>9 DEF ExpireRejectedResults, LifetimeOver, B!RecordOutcome, TypeOK, B!Definitive,
     reservationVars, outboxVars, tigVars
<1>10. ASSUME NEW r \in Reservations, ReleaseUnhanded(r) PROVE Gone(q)'
  <2>1. q = r /\ state[q] = "accepted" /\ benchmark[q] = NoBenchmark
    BY <1>10 DEF ReleaseUnhanded, B!ReleaseUnhanded, TypeOK
  <2> QED
    BY <2>1, AcceptedIsIdentified
<1>11. ASSUME UNCHANGED vars PROVE Gone(q)'
  BY <1>1, <1>11 DEF vars, reservationVars, outboxVars, tigVars
<1>12. ASSUME NEW w \in Workers, NEW r \in Reservations, Preflight(w, r) PROVE Gone(q)'
  BY <1>1, <1>12 DEF Preflight, reservationVars, outboxVars, tigVars, B!rowVars,
     B!ledgerVars, B!factVars
<1>13. ASSUME NEW w \in Workers, NEW r \in Reservations, NEW kind \in Kinds, BeginPayload(w, r, kind) PROVE Gone(q)'
  BY <1>1, <1>13 DEF BeginPayload, Unsent, reservationVars, outboxVars, tigVars, B!rowVars,
     B!ledgerVars, B!factVars
<1>14. ASSUME NEW w \in Workers, Post(w) PROVE Gone(q)'
  BY <1>1, <1>14 DEF Post, reservationVars, outboxVars, tigVars, B!rowVars, B!ledgerVars,
     B!factVars
<1>15. ASSUME NEW w \in Workers, Stop(w) PROVE Gone(q)'
  BY <1>1, <1>15 DEF Stop, reservationVars, outboxVars, tigVars, B!rowVars, B!ledgerVars,
     B!factVars
<1>16. ASSUME NEW i \in wire, TigAccepts(i) PROVE Gone(q)'
  BY <1>1, <1>16 DEF TigAccepts, Confirms, Answer, reservationVars, outboxVars, tigVars,
     B!rowVars, B!ledgerVars, B!factVars
<1>17. ASSUME NEW i \in wire, TigRejectsLate(i) PROVE Gone(q)'
  BY <1>1, <1>17 DEF TigRejectsLate, Answer, reservationVars, outboxVars, tigVars,
     B!rowVars, B!ledgerVars, B!factVars
<1>18. ASSUME NEW i \in wire, TigRefuses(i) PROVE Gone(q)'
  BY <1>1, <1>18 DEF TigRefuses, Answer, reservationVars, outboxVars, tigVars, B!rowVars,
     B!ledgerVars, B!factVars
<1>19. ASSUME NEW r \in Reservations, Elapse(r) PROVE Gone(q)'
  BY <1>1, <1>19 DEF Elapse, reservationVars, outboxVars, tigVars, B!rowVars, B!ledgerVars,
     B!factVars
<1>20. ASSUME Archive PROVE Gone(q)'
  BY <1>1, <1>20 DEF Archive, Shown, reservationVars, outboxVars, tigVars, B!rowVars,
     B!ledgerVars, B!factVars
<1>21. ASSUME NEW w \in Workers, RecordResponse(w) PROVE Gone(q)'
  BY <1>1, <1>21 DEF RecordResponse, reservationVars, outboxVars, tigVars, B!rowVars,
     B!ledgerVars, B!factVars
<1>22. ASSUME NEW blk \in blocks, NEW r \in Reservations, RecoverPrecommit(blk, r) PROVE Gone(q)'
  BY <1>1, <1>22 DEF RecoverPrecommit, reservationVars, outboxVars, tigVars, B!rowVars,
     B!ledgerVars, B!factVars
<1>23. ASSUME NEW blk \in blocks, NEW r \in Reservations, ConfirmResults(blk, r) PROVE Gone(q)'
  BY <1>1, <1>23 DEF ConfirmResults, Sent, WasAccepted, reservationVars, outboxVars,
     tigVars, B!rowVars, B!ledgerVars, B!factVars
<1>24. ASSUME NEW blk \in blocks, NEW r \in Reservations, StoreSampled(blk, r) PROVE Gone(q)'
  BY <1>1, <1>24 DEF StoreSampled, reservationVars, outboxVars, tigVars, B!rowVars,
     B!ledgerVars, B!factVars
<1>25. ASSUME NEW blk \in blocks, NEW r \in Reservations, ConfirmProofs(blk, r) PROVE Gone(q)'
  BY <1>1, <1>25 DEF ConfirmProofs, Sent, WasAccepted, reservationVars, outboxVars,
     tigVars, B!rowVars, B!ledgerVars, B!factVars
<1>26. ASSUME NEW r \in Reservations, Acknowledge(r) PROVE Gone(q)'
  BY <1>1, <1>26 DEF Acknowledge, B!Acknowledge, reservationVars, outboxVars, tigVars,
     B!rowVars, B!ledgerVars, B!factVars
<1>27. ASSUME NEW r \in Reservations, NEW kind \in Kinds, Upload(r, kind) PROVE Gone(q)'
  BY <1>1, <1>27 DEF Upload, B!StoreWork, reservationVars, outboxVars, tigVars, B!rowVars,
     B!ledgerVars, B!factVars
<1>28. ASSUME NEW r \in Reservations, OfferExpires(r) PROVE Gone(q)'
  BY <1>1, <1>28 DEF OfferExpires, B!OfferExpires, reservationVars, outboxVars, tigVars,
     B!rowVars, B!ledgerVars, B!factVars
<1>29. ASSUME NEW value \in BOOLEAN, SetPause(value) PROVE Gone(q)'
  BY <1>1, <1>29 DEF SetPause, B!SetPause, reservationVars, outboxVars, tigVars, B!rowVars,
     B!ledgerVars, B!factVars
<1>30. ASSUME NEW f \in Foreign, ForeignPost(f) PROVE Gone(q)'
  BY <1>1, <1>30 DEF ForeignPost, reservationVars, outboxVars
<1> QED
  BY <1>2, <1>3, <1>4, <1>5, <1>6, <1>7, <1>8, <1>9, <1>10, <1>11, <1>12, <1>13, <1>14,
     <1>15, <1>16, <1>17, <1>18, <1>19, <1>20, <1>21, <1>22, <1>23, <1>24, <1>25, <1>26,
     <1>27, <1>28, <1>29, <1>30 DEF Next, Dispatch, Tig, Reconcile, People

\* A listed record is an outcome when it is a proof or a fraud.
LEMMA ListedFacts ==
    ASSUME NEW view, NEW s \in ListedOutcome(view)
    PROVE  \/ s = "active" /\ view = "proofs"
           \/ s = "verification_failed" /\ view = "fraud"
<1>1. CASE view = "fraud"
  BY <1>1 DEF ListedOutcome
<1>2. CASE view = "proofs"
  BY <1>2 DEF ListedOutcome
<1>3. CASE view # "fraud" /\ view # "proofs"
  <2>1. ListedOutcome(view) = {}
    BY <1>3 DEF ListedOutcome
  <2> QED
    BY <2>1
<1> QED
  BY <1>1, <1>2, <1>3

\* A recorded outcome is TIG's, and the last.
LEMMA NextOutcome ==
    ASSUME TypeOK, Precommits, Payloads, Delivery, Stages, Archived, OwnBenchmark, OutcomeIsTrue,
           [Next]_vars
    PROVE  OutcomeIsTrue'
<1> DEFINE True(p) ==
      /\ state[p] = "active" => tig[benchmark[p]] = "proofs"
      /\ state[p] = "verification_failed" => tig[benchmark[p]] = "fraud"
      /\ state[p] = "expired" => tig[benchmark[p]] \in {"precommit", "other"} /\ elapsed[p]
      /\ <<p, "proofs">> \in posted => tig[benchmark[p]] \in {"results", "proofs", "fraud"}
<1> SUFFICES ASSUME NEW q \in Reservations PROVE True(q)'
  BY DEF OutcomeIsTrue
<1> DEFINE Concerned == state[q] \in B!Definitive \/ <<q, "proofs">> \in posted
\* What is claimed is about a benchmark that stays the same.
<1>0. /\ True(q)
      /\ Concerned => /\ benchmark[q] # NoBenchmark /\ benchmark[q] \in BenchmarkIds
                      /\ benchmark'[q] = benchmark[q]
      /\ state[q] = "uncertain" => ~Concerned
  <2>1. True(q)
    BY DEF OutcomeIsTrue
  <2>2. PrecommitOK(q) /\ PayloadOK(q) /\ outbox[<<q, "precommit">>] \in OutboxStates
    BY IntentFacts DEF Precommits, Payloads, TypeOK
  <2>3. state[q] \in B!Definitive => benchmark[q] # NoBenchmark
    BY <2>2 DEF PrecommitOK, OutboxStates, B!Definitive
  <2>4. <<q, "proofs">> \in posted => benchmark[q] # NoBenchmark
    BY <2>2, IntentFacts DEF Delivery, NeverSent, PayloadOK
  <2>5. benchmark[q] # NoBenchmark => benchmark[q] \in BenchmarkIds /\ benchmark'[q] = benchmark[q]
    BY NextKept DEF TypeOK
  <2>6. state[q] = "uncertain" => benchmark[q] = NoBenchmark /\ state[q] \notin B!Definitive
    BY <2>2 DEF PrecommitOK, B!Definitive
  <2> QED
    BY <2>1, <2>3, <2>4, <2>5, <2>6
<1> HIDE DEF Concerned
<1> USE DEF B!Definitive
<1>1. ASSUME UNCHANGED <<elapsed, posted, state, tig>> PROVE True(q)'
  BY <1>1, <1>0 DEF Concerned
\* TIG goes on, and the rows stay.
<1>a. ASSUME UNCHANGED <<elapsed, posted, state>> PROVE True(q)'
  <2>1. Concerned => Onward(tig[benchmark[q]], tig'[benchmark[q]])
    BY <1>0, NextTig
  <2>2. state[q] = "expired" => tig'[benchmark[q]] \notin Confirmed
    <3>1. ASSUME state[q] = "expired" PROVE Overdue(q)
      BY <1>0, <3>1 DEF Concerned, Overdue, Confirmed
    <3> QED
      BY <3>1, NextTig
  <2> QED
    BY <1>0, <1>a, <2>1, <2>2 DEF Concerned, Onward, Confirmed
<1>2. ASSUME NEW r \in Reservations, ReserveNext(r) PROVE True(q)'
  BY <1>2, <1>0 DEF ReserveNext, B!Reserve, TypeOK, reservationVars, outboxVars, tigVars
<1>3. ASSUME NEW r \in Reservations, CancelUnsent(r) PROVE True(q)'
  BY <1>3, <1>0 DEF CancelUnsent, B!Cancel, TypeOK, reservationVars,
     outboxVars, tigVars
<1>4. ASSUME NEW w \in Workers, BeginPrecommit(w) PROVE True(q)'
  BY <1>4, <1>0 DEF BeginPrecommit, Unsent, B!MarkSubmitting, TypeOK, reservationVars,
     outboxVars, tigVars
<1>5. ASSUME NEW w \in Workers, Post(w) PROVE True(q)'
  <2>1. /\ worker[w].intent \in Intents /\ Busy(w) /\ UNCHANGED <<state, tig, elapsed, benchmark>>
        /\ posted' = posted \union {worker[w].intent}
    BY <1>5, PhaseFacts DEF Post, TypeOK, Busy, reservationVars
  <2>2. CASE worker[w].intent = <<q, "proofs">>
    <3>1. outbox[<<q, "proofs">>] \notin {"none", "ready"}
      BY <2>1, <2>2 DEF Delivery, Handled, NeverSent
    <3>2. outbox[<<q, "results">>] = "accepted"
      BY <3>1 DEF Payloads, PayloadOK
    <3>3. Reached(<<q, "results">>)
      BY <3>2 DEF Stages, Recorded
    <3> QED
      BY <1>0, <2>1, <3>3 DEF Reached, Confirmed
  <2>3. CASE worker[w].intent # <<q, "proofs">>
    BY <1>0, <2>1, <2>3
  <2> QED
    BY <2>2, <2>3
<1>6. ASSUME NEW i \in wire, TigAccepts(i) PROVE True(q)'
  BY <1>a, <1>6 DEF TigAccepts, reservationVars
<1>7. ASSUME NEW r \in Reservations, Elapse(r) PROVE True(q)'
  BY <1>7, <1>0 DEF Elapse, TypeOK, reservationVars, outboxVars, tigVars
<1>8. ASSUME NEW r \in Reservations, DefinitiveRejection(r) PROVE True(q)'
  BY <1>8, <1>0 DEF DefinitiveRejection, NeverAtTig, B!Reject, TypeOK, reservationVars,
     outboxVars, tigVars
<1>9. ASSUME NEW blk \in blocks, NEW r \in Reservations, PublishAssignment(blk, r) PROVE True(q)'
  <2>1. /\ state[r] = "uncertain" /\ state' = [state EXCEPT ![r] = "accepted"]
        /\ UNCHANGED <<tig, elapsed, posted>>
    BY <1>9 DEF PublishAssignment, B!Accept, tigVars
  <2>2. CASE q # r
    <3>1. state'[q] = state[q]
      BY <2>1, <2>2 DEF TypeOK
    <3> QED
      BY <1>0, <2>1, <3>1 DEF Concerned
  <2>3. CASE q = r
    BY <1>0, <2>1, <2>3 DEF Concerned, TypeOK
  <2> QED
    BY <2>2, <2>3
<1>10. ASSUME NEW blk \in blocks, NEW r \in Reservations, RecordListedOutcome(blk, r) PROVE True(q)'
  <2>1. /\ state[r] = "accepted" /\ UNCHANGED <<tig, elapsed, posted, benchmark>>
        /\ \E s \in ListedOutcome(blk.view[benchmark[r]]) : state' = [state EXCEPT ![r] = s]
    BY <1>10 DEF RecordListedOutcome, B!RecordOutcome, tigVars
  <2>2. ShownOf(blk, benchmark[r])
    BY <2>1, AcceptedIsIdentified DEF Archived
  <2>3. CASE q # r
    <3>1. state'[q] = state[q]
      BY <2>1, <2>3 DEF TypeOK
    <3> QED
      BY <1>0, <2>1, <3>1
  <2>4. CASE q = r
    <3>1. PICK s \in ListedOutcome(blk.view[benchmark[q]]) : state' = [state EXCEPT ![q] = s]
      BY <2>1, <2>4
    <3>2. \/ s = "active" /\ blk.view[benchmark[q]] = "proofs"
          \/ s = "verification_failed" /\ blk.view[benchmark[q]] = "fraud"
      BY <3>1, ListedFacts
    <3>3. \/ state'[q] = "active" /\ blk.view[benchmark[q]] = "proofs"
          \/ state'[q] = "verification_failed" /\ blk.view[benchmark[q]] = "fraud"
      BY <3>1, <3>2 DEF TypeOK
    <3> QED
      BY <1>0, <2>1, <2>2, <2>4, <3>3 DEF ShownOf
  <2> QED
    BY <2>3, <2>4
\* An expired lifetime, with nothing of the member's confirmed.
<1>b. ASSUME NEW blk \in blocks, NEW r \in Reservations, LifetimeOver(blk, r), state[r] = "accepted",
             state' = [state EXCEPT ![r] = "expired"], UNCHANGED <<tig, elapsed, posted, benchmark>>,
             tig[benchmark[r]] \notin Confirmed
      PROVE  True(q)'
  <2>1. CASE q # r
    <3>1. state'[q] = state[q]
      BY <1>b, <2>1 DEF TypeOK
    <3> QED
      BY <1>0, <1>b, <3>1
  <2>2. CASE q = r
    <3>1. state'[q] = "expired" /\ elapsed[q]
      BY <1>b, <2>2 DEF TypeOK, LifetimeOver, Archived
    <3>2. benchmark[q] = receipt[q] /\ benchmark[q] \in BenchmarkIds /\ receipt[q] # NoBenchmark
      BY <1>b, <2>2, AcceptedIsIdentified
    <3>3. tig[benchmark[q]] # "absent" /\ tig[benchmark[q]] \in TigStages
      BY <3>2 DEF Stages, Recorded, TypeOK
    <3>4. tig[benchmark[q]] \in {"precommit", "other"}
      BY <1>b, <2>2, <3>3 DEF Confirmed, TigStages
    <3> QED
      BY <1>0, <1>b, <3>1, <3>4 DEF Concerned
  <2> QED
    BY <2>1, <2>2
<1>11. ASSUME NEW blk \in blocks, NEW r \in Reservations, ExpireUnsentResults(blk, r) PROVE True(q)'
  <2>1. /\ state[r] = "accepted" /\ state' = [state EXCEPT ![r] = "expired"]
        /\ LifetimeOver(blk, r) /\ UNCHANGED <<tig, elapsed, posted, benchmark>>
    BY <1>11 DEF ExpireUnsentResults, B!RecordOutcome, tigVars
  <2>2. outbox[<<r, "results">>] \in NeverSent
    BY <1>11 DEF ExpireUnsentResults, NothingSent, NeverSent
  <2>3. ~Reached(<<r, "results">>)
    BY <2>2, Unposted, IntentFacts
  <2>4. tig[benchmark[r]] \notin Confirmed
    BY <2>1, <2>3, AcceptedIsIdentified DEF Reached
  <2> QED
    BY <1>b, <2>1, <2>4
<1>12. ASSUME NEW blk \in blocks, NEW r \in Reservations, ExpireRejectedResults(blk, r) PROVE True(q)'
  <2>1. /\ state[r] = "accepted" /\ state' = [state EXCEPT ![r] = "expired"] /\ late[r]
        /\ LifetimeOver(blk, r) /\ UNCHANGED <<tig, elapsed, posted, benchmark>>
    BY <1>12 DEF ExpireRejectedResults, B!RecordOutcome, tigVars
  <2>2. tig[benchmark[r]] \notin Confirmed
    BY <2>1 DEF Stages, Recorded, Overdue
  <2> QED
    BY <1>b, <2>1, <2>2
<1>13. ASSUME NEW r \in Reservations, ReleaseUnhanded(r) PROVE True(q)'
  BY <1>13, <1>0 DEF ReleaseUnhanded, B!ReleaseUnhanded, B!NotHanded, B!ReturnCollateral,
     TypeOK, reservationVars, outboxVars, tigVars
<1>14. ASSUME UNCHANGED vars PROVE True(q)'
  BY <1>1, <1>14 DEF vars, reservationVars, outboxVars, tigVars
<1>15. ASSUME NEW w \in Workers, NEW r \in Reservations, Preflight(w, r) PROVE True(q)'
  BY <1>1, <1>15 DEF Preflight, reservationVars, outboxVars, tigVars, B!rowVars,
     B!ledgerVars, B!factVars
<1>16. ASSUME NEW w \in Workers, NEW r \in Reservations, NEW kind \in Kinds, BeginPayload(w, r, kind) PROVE True(q)'
  BY <1>1, <1>16 DEF BeginPayload, Unsent, reservationVars, outboxVars, tigVars, B!rowVars,
     B!ledgerVars, B!factVars
<1>17. ASSUME NEW w \in Workers, Stop(w) PROVE True(q)'
  BY <1>1, <1>17 DEF Stop, reservationVars, outboxVars, tigVars, B!rowVars, B!ledgerVars,
     B!factVars
<1>18. ASSUME NEW i \in wire, TigRejectsLate(i) PROVE True(q)'
  BY <1>1, <1>18 DEF TigRejectsLate, Answer, reservationVars, outboxVars, tigVars,
     B!rowVars, B!ledgerVars, B!factVars
<1>19. ASSUME NEW i \in wire, TigRefuses(i) PROVE True(q)'
  BY <1>1, <1>19 DEF TigRefuses, Answer, reservationVars, outboxVars, tigVars, B!rowVars,
     B!ledgerVars, B!factVars
<1>20. ASSUME Archive PROVE True(q)'
  BY <1>1, <1>20 DEF Archive, Shown, reservationVars, outboxVars, tigVars, B!rowVars,
     B!ledgerVars, B!factVars
<1>21. ASSUME NEW w \in Workers, RecordResponse(w) PROVE True(q)'
  BY <1>1, <1>21 DEF RecordResponse, reservationVars, outboxVars, tigVars, B!rowVars,
     B!ledgerVars, B!factVars
<1>22. ASSUME NEW blk \in blocks, NEW r \in Reservations, RecoverPrecommit(blk, r) PROVE True(q)'
  BY <1>1, <1>22 DEF RecoverPrecommit, reservationVars, outboxVars, tigVars, B!rowVars,
     B!ledgerVars, B!factVars
<1>23. ASSUME NEW blk \in blocks, NEW r \in Reservations, ConfirmResults(blk, r) PROVE True(q)'
  BY <1>1, <1>23 DEF ConfirmResults, Sent, WasAccepted, reservationVars, outboxVars,
     tigVars, B!rowVars, B!ledgerVars, B!factVars
<1>24. ASSUME NEW blk \in blocks, NEW r \in Reservations, StoreSampled(blk, r) PROVE True(q)'
  BY <1>1, <1>24 DEF StoreSampled, reservationVars, outboxVars, tigVars, B!rowVars,
     B!ledgerVars, B!factVars
<1>25. ASSUME NEW blk \in blocks, NEW r \in Reservations, ConfirmProofs(blk, r) PROVE True(q)'
  BY <1>1, <1>25 DEF ConfirmProofs, Sent, WasAccepted, reservationVars, outboxVars,
     tigVars, B!rowVars, B!ledgerVars, B!factVars
<1>26. ASSUME NEW r \in Reservations, Acknowledge(r) PROVE True(q)'
  BY <1>1, <1>26 DEF Acknowledge, B!Acknowledge, reservationVars, outboxVars, tigVars,
     B!rowVars, B!ledgerVars, B!factVars
<1>27. ASSUME NEW r \in Reservations, NEW kind \in Kinds, Upload(r, kind) PROVE True(q)'
  BY <1>1, <1>27 DEF Upload, B!StoreWork, reservationVars, outboxVars, tigVars, B!rowVars,
     B!ledgerVars, B!factVars
<1>28. ASSUME NEW r \in Reservations, OfferExpires(r) PROVE True(q)'
  BY <1>1, <1>28 DEF OfferExpires, B!OfferExpires, reservationVars, outboxVars, tigVars,
     B!rowVars, B!ledgerVars, B!factVars
<1>29. ASSUME NEW value \in BOOLEAN, SetPause(value) PROVE True(q)'
  BY <1>1, <1>29 DEF SetPause, B!SetPause, reservationVars, outboxVars, tigVars, B!rowVars,
     B!ledgerVars, B!factVars
<1>30. ASSUME NEW f \in Foreign, ForeignPost(f) PROVE True(q)'
  BY <1>a, <1>30 DEF ForeignPost, reservationVars
<1> QED
  BY <1>2, <1>3, <1>4, <1>5, <1>6, <1>7, <1>8, <1>9, <1>10, <1>11, <1>12, <1>13, <1>14,
     <1>15, <1>16, <1>17, <1>18, <1>19, <1>20, <1>21, <1>22, <1>23, <1>24, <1>25, <1>26,
     <1>27, <1>28, <1>29, <1>30 DEF Next, Dispatch, Tig, Reconcile, People

-----------------------------------------------------------------------------
(***************************************************************************)
(* The invariant and the theorems.                                         *)
(***************************************************************************)

\* All of it.  The parts need each other: what is confirmed is known from what
\* was posted, what was posted from what the outbox says, and the outbox moves
\* with the row.
IInv ==
    /\ TypeOK /\ Precommits /\ Payloads /\ Delivery /\ Stages /\ Archived /\ Fenced
    /\ OwnBenchmark /\ ReleasedIsAbsent /\ OutcomeIsTrue

\* At the start nothing is reserved, posted or archived.
LEMMA InitHolds == Init => IInv
<1> SUFFICES ASSUME Init PROVE IInv
  OBVIOUS
<1>1. TypeOK
  BY DEF Init, B!Init, TypeOK, B!States, OutboxStates, TigStages, BenchmarkIds, Phases
<1>2. /\ \A i \in Intents : outbox[i] = "none"
      /\ \A r \in Reservations : /\ state[r] = "none" /\ benchmark[r] = NoBenchmark /\ ~handed[r]
                                 /\ receipt[r] = NoBenchmark /\ ~late[r]
      /\ \A b \in BenchmarkIds : tig[b] = "absent"
      /\ \A w \in Workers : worker[w] = Idle
      /\ posted = {} /\ wire = {} /\ blocks = {}
  BY DEF Init, B!Init
<1>3. Precommits /\ Payloads
  BY <1>2, IntentFacts DEF Precommits, PrecommitOK, Payloads, PayloadOK, B!Definitive
<1>4. Delivery
  BY <1>2 DEF Delivery, Handled, Busy, Idle
<1>5. Stages
  <2>1. ASSUME NEW i \in Intents PROVE ~Reached(i)
    BY <1>2, IntentFacts DEF Reached, Kinds, BenchmarkIds
  <2>2. Recorded
    BY <1>2 DEF Recorded, Intents, Kinds
  <2>3. \A b \in BenchmarkIds : tig[b] \notin Confirmed
    BY <1>2 DEF Confirmed
  <2>4. \A w \in Workers : Believed(w)
    BY <1>2 DEF Believed, Idle
  <2> QED
    BY <2>1, <2>2, <2>3, <2>4 DEF Stages
<1>6. Archived /\ Fenced /\ OwnBenchmark
  BY <1>2, IntentFacts DEF Archived, Fenced, FencedOf, OwnBenchmark
<1>7. ReleasedIsAbsent /\ OutcomeIsTrue
  BY <1>2 DEF ReleasedIsAbsent, OutcomeIsTrue
<1> QED
  BY <1>1, <1>3, <1>4, <1>5, <1>6, <1>7 DEF IInv

\* Every step keeps it.
LEMMA NextHolds == IInv /\ [Next]_vars => IInv'
  BY NextType, NextPrecommits, NextPayloads, NextDelivery, NextStages, NextArchived,
     NextFenced, NextOwned, NextReleased, NextOutcome DEF IInv

\* It holds of every history.
LEMMA AlwaysHolds == Spec => []IInv
  BY InitHolds, NextHolds, PTL DEF Spec

\* Types of the rows, the outbox, the workers and TIG, for any number of workers
\* and reservations.
THEOREM ProtocolTyped == Spec => []TypeOK
<1>1. IInv => TypeOK
  BY DEF IInv
<1> QED
  BY <1>1, AlwaysHolds, PTL

\* Others post look-alikes at any time, TIG lists what it has when it likes, and
\* responses are lost: no two reservations get the same benchmark, and one gets
\* another than that of its own POST only with the same settings and only after a
\* foreign benchmark of these settings, which a preflight did not list, was taken
\* for one of the pool's.
THEOREM OwnBenchmarkCorrect == Spec => []OwnBenchmark
<1>1. IInv => OwnBenchmark
  BY DEF IInv
<1> QED
  BY <1>1, AlwaysHolds, PTL

\* So where nobody else posts, a reservation only ever gets the benchmark of its own
\* POST.
THEOREM OwnWithoutOthers ==
    Spec => [](Foreign = {} => \A r \in Reservations : {receipt[r], benchmark[r]} \subseteq {NoBenchmark, r})
<1>1. IInv => (Foreign = {} => \A r \in Reservations : {receipt[r], benchmark[r]} \subseteq {NoBenchmark, r})
  BY DEF IInv, OwnBenchmark, Mistaken
<1> QED
  BY <1>1, AlwaysHolds, PTL

\* No number of workers, stops and restarts posts an intent twice.
THEOREM PostedOnceCorrect == Spec => PostedOnce
<1>1. IInv /\ [Next]_vars => [\A w \in Workers :
          worker[w].at = "begun" /\ worker'[w].at = "waiting" =>
              worker[w].intent \notin posted]_vars
  BY DEF IInv, Delivery, Handled, Busy
<1> QED
  BY <1>1, AlwaysHolds, PTL DEF Spec, PostedOnce

\* What the pool releases as never started never starts at TIG.
THEOREM ReleasedCorrect == Spec => []ReleasedIsAbsent
<1>1. IInv => ReleasedIsAbsent
  BY DEF IInv
<1> QED
  BY <1>1, AlwaysHolds, PTL

\* The outcome a reservation is settled by is the one TIG has, and TIG never
\* goes on from it.
THEOREM OutcomeCorrect == Spec => []OutcomeIsTrue
<1>1. IInv => OutcomeIsTrue
  BY DEF IInv
<1> QED
  BY <1>1, AlwaysHolds, PTL

\* No upload stays queued for work that is over.
THEOREM QueuedCorrect == Spec => []QueuedIsLive
<1>1. IInv => QueuedIsLive
  BY DEF IInv, Payloads, PayloadOK, QueuedIsLive
<1> QED
  BY <1>1, AlwaysHolds, PTL

\* A transaction of this module that changes the reservations is one of
\* Benchmarks.
LEMMA NextReservations ==
    ASSUME TypeOK, [Next]_vars PROVE B!Next \/ UNCHANGED B!vars
<1>1. ASSUME UNCHANGED reservationVars PROVE B!Next \/ UNCHANGED B!vars
  BY <1>1 DEF reservationVars, B!vars, B!rowVars, B!ledgerVars, B!factVars
<1>2. ASSUME NEW r \in Reservations, ReserveNext(r) PROVE B!Next \/ UNCHANGED B!vars
  <2>1. B!Reserve(r)
    BY <1>2 DEF ReserveNext
  <2> QED
    BY <2>1 DEF B!Next, B!Submission
<1>3. ASSUME NEW r \in Reservations, CancelUnsent(r) PROVE B!Next \/ UNCHANGED B!vars
  <2>1. B!Cancel(r)
    BY <1>3 DEF CancelUnsent
  <2> QED
    BY <2>1 DEF B!Next, B!Submission
<1>4. ASSUME NEW w \in Workers, NEW r \in Reservations, Preflight(w, r) PROVE B!Next \/ UNCHANGED B!vars
  BY <1>1, <1>4 DEF Preflight
<1>5. ASSUME NEW w \in Workers, BeginPrecommit(w) PROVE B!Next \/ UNCHANGED B!vars
  <2>1. PICK r \in Reservations : worker[w].intent = <<r, "precommit">>
    BY <1>5, PhaseFacts DEF BeginPrecommit, TypeOK
  <2>2. B!MarkSubmitting(r)
    BY <1>5, <2>1 DEF BeginPrecommit
  <2> QED
    BY <2>2 DEF B!Next, B!Submission
<1>6. ASSUME NEW w \in Workers, NEW r \in Reservations, NEW kind \in Kinds, BeginPayload(w, r, kind) PROVE B!Next \/ UNCHANGED B!vars
  BY <1>1, <1>6 DEF BeginPayload
<1>7. ASSUME NEW w \in Workers, Post(w) PROVE B!Next \/ UNCHANGED B!vars
  BY <1>1, <1>7 DEF Post
<1>8. ASSUME NEW w \in Workers, Stop(w) PROVE B!Next \/ UNCHANGED B!vars
  BY <1>1, <1>8 DEF Stop
<1>9. ASSUME NEW i \in wire, TigAccepts(i) PROVE B!Next \/ UNCHANGED B!vars
  BY <1>1, <1>9 DEF TigAccepts
<1>10. ASSUME NEW i \in wire, TigRejectsLate(i) PROVE B!Next \/ UNCHANGED B!vars
  BY <1>1, <1>10 DEF TigRejectsLate
<1>11. ASSUME NEW i \in wire, TigRefuses(i) PROVE B!Next \/ UNCHANGED B!vars
  BY <1>1, <1>11 DEF TigRefuses
<1>12. ASSUME NEW r \in Reservations, Elapse(r) PROVE B!Next \/ UNCHANGED B!vars
  BY <1>1, <1>12 DEF Elapse
<1>13. ASSUME Archive PROVE B!Next \/ UNCHANGED B!vars
  BY <1>1, <1>13 DEF Archive
<1>14. ASSUME NEW w \in Workers, RecordResponse(w) PROVE B!Next \/ UNCHANGED B!vars
  BY <1>1, <1>14 DEF RecordResponse
<1>15. ASSUME NEW r \in Reservations, DefinitiveRejection(r) PROVE B!Next \/ UNCHANGED B!vars
  <2>1. \E actual \in 0..FeeLimit[r] : B!Reject(r, actual)
    BY <1>15 DEF DefinitiveRejection
  <2> QED
    BY <2>1 DEF B!Next, B!Submission
<1>16. ASSUME NEW blk \in blocks, NEW r \in Reservations, RecoverPrecommit(blk, r) PROVE B!Next \/ UNCHANGED B!vars
  BY <1>1, <1>16 DEF RecoverPrecommit
<1>17. ASSUME NEW blk \in blocks, NEW r \in Reservations, PublishAssignment(blk, r) PROVE B!Next \/ UNCHANGED B!vars
  <2>1. /\ receipt[r] \in BenchmarkIds
        /\ \E actual \in 0..FeeLimit[r] : B!Accept(r, receipt[r], actual)
    BY <1>17 DEF PublishAssignment, TypeOK
  <2> QED
    BY <2>1 DEF B!Next, B!Submission
<1>18. ASSUME NEW blk \in blocks, NEW r \in Reservations, ConfirmResults(blk, r) PROVE B!Next \/ UNCHANGED B!vars
  BY <1>1, <1>18 DEF ConfirmResults
<1>19. ASSUME NEW blk \in blocks, NEW r \in Reservations, StoreSampled(blk, r) PROVE B!Next \/ UNCHANGED B!vars
  BY <1>1, <1>19 DEF StoreSampled
<1>20. ASSUME NEW blk \in blocks, NEW r \in Reservations, ConfirmProofs(blk, r) PROVE B!Next \/ UNCHANGED B!vars
  BY <1>1, <1>20 DEF ConfirmProofs
<1>21. ASSUME NEW blk \in blocks, NEW r \in Reservations, RecordListedOutcome(blk, r) PROVE B!Next \/ UNCHANGED B!vars
  <2>1. PICK s \in ListedOutcome(blk.view[benchmark[r]]) : B!RecordOutcome(r, s)
    BY <1>21 DEF RecordListedOutcome
  <2>2. s \in B!Definitive
    BY <2>1, ListedFacts DEF B!Definitive
  <2> QED
    BY <2>1, <2>2 DEF B!Next, B!Completion
<1>22. ASSUME NEW blk \in blocks, NEW r \in Reservations, ExpireUnsentResults(blk, r) PROVE B!Next \/ UNCHANGED B!vars
  <2>1. \E s \in B!Definitive : B!RecordOutcome(r, s)
    BY <1>22 DEF ExpireUnsentResults, B!Definitive
  <2> QED
    BY <2>1 DEF B!Next, B!Completion
<1>23. ASSUME NEW blk \in blocks, NEW r \in Reservations, ExpireRejectedResults(blk, r) PROVE B!Next \/ UNCHANGED B!vars
  <2>1. \E s \in B!Definitive : B!RecordOutcome(r, s)
    BY <1>23 DEF ExpireRejectedResults, B!Definitive
  <2> QED
    BY <2>1 DEF B!Next, B!Completion
<1>24. ASSUME NEW r \in Reservations, Acknowledge(r) PROVE B!Next \/ UNCHANGED B!vars
  <2>1. B!Acknowledge(r)
    BY <1>24 DEF Acknowledge
  <2> QED
    BY <2>1 DEF B!Next, B!Completion
<1>25. ASSUME NEW r \in Reservations, NEW kind \in Kinds, Upload(r, kind) PROVE B!Next \/ UNCHANGED B!vars
  <2>1. B!StoreWork(r)
    BY <1>25 DEF Upload
  <2> QED
    BY <2>1 DEF B!Next, B!Facts
<1>26. ASSUME NEW r \in Reservations, OfferExpires(r) PROVE B!Next \/ UNCHANGED B!vars
  <2>1. B!OfferExpires(r)
    BY <1>26 DEF OfferExpires
  <2> QED
    BY <2>1 DEF B!Next, B!Facts
<1>27. ASSUME NEW value \in BOOLEAN, SetPause(value) PROVE B!Next \/ UNCHANGED B!vars
  <2>1. \E x \in BOOLEAN : B!SetPause(x)
    BY <1>27 DEF SetPause
  <2> QED
    BY <2>1 DEF B!Next, B!Facts
<1>28. ASSUME NEW r \in Reservations, ReleaseUnhanded(r) PROVE B!Next \/ UNCHANGED B!vars
  <2>1. B!ReleaseUnhanded(r)
    BY <1>28 DEF ReleaseUnhanded
  <2> QED
    BY <2>1 DEF B!Next, B!Submission
<1>29. ASSUME UNCHANGED vars PROVE B!Next \/ UNCHANGED B!vars
  BY <1>1, <1>29 DEF vars
<1>30. ASSUME NEW f \in Foreign, ForeignPost(f) PROVE B!Next \/ UNCHANGED B!vars
  BY <1>1, <1>30 DEF ForeignPost
<1> QED
  BY <1>2, <1>3, <1>4, <1>5, <1>6, <1>7, <1>8, <1>9, <1>10, <1>11, <1>12, <1>13, <1>14,
     <1>15, <1>16, <1>17, <1>18, <1>19, <1>20, <1>21, <1>22, <1>23, <1>24, <1>25, <1>26,
     <1>27, <1>28, <1>29, <1>30 DEF Next, Dispatch, Tig, Reconcile, People

\* Every history of the submission protocol is a history of the reservations, so
\* what holds of those holds here: workers, TIG and reconciliation touch the rows
\* and the accounts by their transactions only.
THEOREM ReservationsImplemented == Spec => B!Spec
<1>1. Init => B!Init
  BY DEF Init
<1>2. IInv /\ [Next]_vars => [B!Next]_(B!vars)
  BY NextReservations DEF IInv
<1> QED
  BY <1>1, <1>2, AlwaysHolds, PTL DEF Spec, B!Spec

-----------------------------------------------------------------------------
(***************************************************************************)
(* What is proved of the reservations, under the protocol.                 *)
(***************************************************************************)

BP == INSTANCE BenchmarksProofs

\* The transactions of the instance with the proofs are those of the protocol's.
LEMMA SameReservations == B!Spec => BP!Spec
<1> USE DEF B!rowVars, BP!rowVars, B!ledgerVars, BP!ledgerVars, B!factVars, BP!factVars,
            B!Definitive, BP!Definitive, B!ReturnCollateral, BP!ReturnCollateral, B!Covers, BP!Covers
<1>1. B!Init => BP!Init
  BY DEF B!Init, BP!Init, B!NoFee, BP!NoFee
<1>2. ASSUME NEW r \in Reservations, B!Submission(r) PROVE BP!Submission(r)
  BY <1>2 DEF B!Submission, BP!Submission, B!Reserve, BP!Reserve, B!MarkSubmitting, BP!MarkSubmitting,
     B!Accept, BP!Accept, B!Cancel, BP!Cancel, B!Reject, BP!Reject, B!ReleaseUnhanded, BP!ReleaseUnhanded,
     B!Collateral, BP!Collateral, B!SlotFree, BP!SlotFree, B!Slots, BP!Slots, B!Cardinality, BP!Cardinality,
     B!Unowned, BP!Unowned, B!Fees, BP!Fees, B!NotHanded, BP!NotHanded
<1>3. ASSUME NEW r \in Reservations, B!Completion(r) PROVE BP!Completion(r)
  BY <1>3 DEF B!Completion, BP!Completion, B!Acknowledge, BP!Acknowledge, B!AwaitsHandover, BP!AwaitsHandover,
     B!RecordOutcome, BP!RecordOutcome, B!FinalizeCollateral, BP!FinalizeCollateral, B!Results, BP!Results,
     B!Undisposed, BP!Undisposed, B!Disposition, BP!Disposition, B!Activated, BP!Activated,
     B!ForfeitCollateral, BP!ForfeitCollateral
<1>4. ASSUME B!Facts PROVE BP!Facts
  BY <1>4 DEF B!Facts, BP!Facts, B!OfferExpires, BP!OfferExpires, B!StoreWork, BP!StoreWork,
     B!SetPause, BP!SetPause, B!SetMultiplier, BP!SetMultiplier
<1>5. B!Next => BP!Next
  BY <1>2, <1>3, <1>4 DEF B!Next, BP!Next
<1>6. B!vars = BP!vars
  BY DEF B!vars, BP!vars
<1>7. [B!Next]_(B!vars) => [BP!Next]_(BP!vars)
  BY <1>5, <1>6 DEF B!vars, BP!vars
<1> QED
  BY <1>1, <1>7, PTL DEF B!Spec, BP!Spec

\* The constants are as the proofs about the reservations assume.
LEMMA ConstantsFit ==
    /\ MemberOf \in [Reservations -> Members] /\ CreationRound \in [Reservations -> Rounds]
    /\ NoBenchmark \notin BenchmarkIds
    /\ Base \in [Reservations -> Nat] /\ FeeLimit \in [Reservations -> Nat]
    /\ InitialAvailable \in [Members -> Nat] /\ InitialFees \in Nat
    /\ Scale \in Nat \ {0} /\ Multipliers \subseteq 0..Scale /\ Scale \in Multipliers
    /\ MaxSlots \in Nat /\ BP!IsFiniteSet(Reservations)
BY IdentityAssumption, ReservationsAssumption DEF IsFiniteSet, BP!IsFiniteSet

\* Every unit of members and operator is accounted for, each reservation is in a
\* consistent stage, no limit of slots is exceeded and no benchmark has two owners,
\* whatever workers, TIG and the network do.
THEOREM ReservationsKept ==
    Spec => [](BP!TypeOK /\ BP!Lifecycle /\ BP!SlotLimit /\ BP!OneOwner /\ BP!MoneyIsAccounted)
<1>1. Spec => BP!Spec
  BY ReservationsImplemented, SameReservations
<1>2. BP!Spec => []BP!TypeOK
  BY ConstantsFit, BP!TypeCorrect, PTL
<1>3. BP!Spec => []BP!Lifecycle
  BY ConstantsFit, BP!LifecycleCorrect, PTL
<1>4. BP!Spec => []BP!SlotLimit
  BY ConstantsFit, BP!SlotsAreLimited, PTL
<1>5. BP!Spec => []BP!OneOwner
  BY ConstantsFit, BP!OwnersAreUnique, PTL
<1>6. BP!Spec => []BP!MoneyIsAccounted
  BY ConstantsFit, BP!MoneyAccounted, PTL
<1> QED
  BY <1>1, <1>2, <1>3, <1>4, <1>5, <1>6, PTL

\* The disposition, the owner, the handover, the fee and the amount of a reservation
\* never change once they are recorded, under the protocol.
THEOREM RecordsKept == Spec => BP!RecordedIsFinal
<1>1. Spec => BP!Spec
  BY ReservationsImplemented, SameReservations
<1>2. BP!Spec => BP!RecordedIsFinal
  BY ConstantsFit, BP!RecordsAreFinal, PTL
<1> QED
  BY <1>1, <1>2, PTL

\* Work that TIG has, or may still get, and that no operator took back has a slot.
LEMMA RunningHasSlot ==
    ASSUME IInv, BP!SlotLimit, NEW r \in Reservations, RunsAtTig(r), ~ReturnedByOperator(r)
    PROVE  slotHeld[r]
<1> DEFINE i == <<r, "precommit">>
<1>1. /\ i \in Intents /\ PrecommitOK(r) /\ outbox[i] \in OutboxStates
      /\ benchmark[r] \in {NoBenchmark, receipt[r]}
  BY IntentFacts DEF IInv, TypeOK, Precommits, OwnBenchmark
<1>2. receipt[r] = NoBenchmark => tig[r] # "absent" \/ i \in wire
  BY DEF RunsAtTig, BenchmarkOf
<1>3. state[r] # "none"
  <2>1. CASE receipt[r] = NoBenchmark
    <3>1. i \in posted
      BY <1>1, <1>2, <2>1 DEF IInv, Delivery, Stages, Reached
    <3> QED
      BY <1>1, <3>1 DEF IInv, Delivery, NeverSent, PrecommitOK
  <2>2. CASE receipt[r] # NoBenchmark
    BY <1>1, <2>2 DEF PrecommitOK
  <2> QED
    BY <2>1, <2>2
<1>4. state[r] \notin {"cancelled", "rejected"}
  <2>1. CASE benchmark[r] # NoBenchmark
    BY <1>1, <2>1 DEF ReturnedByOperator, PrecommitOK
  <2>2. CASE benchmark[r] = NoBenchmark /\ receipt[r] = NoBenchmark
    BY <1>2, <2>2 DEF IInv, ReleasedIsAbsent
  <2>3. CASE benchmark[r] = NoBenchmark /\ receipt[r] # NoBenchmark
    BY <1>1, <2>3 DEF PrecommitOK
  <2> QED
    BY <2>1, <2>2, <2>3
<1>5. state[r] \in {"active", "verification_failed", "expired"} =>
          benchmark[r] # NoBenchmark /\ benchmark[r] = receipt[r]
  BY <1>1 DEF PrecommitOK, OutboxStates
<1>6. state[r] \notin {"active", "verification_failed", "expired"}
  BY <1>5 DEF RunsAtTig, BenchmarkOf, IInv, OutcomeIsTrue
<1>7. state[r] \in B!States
  BY DEF IInv, TypeOK
<1>8. state[r] \in BP!Occupying
  BY <1>3, <1>4, <1>6, <1>7 DEF B!States, B!Occupying, B!Released, B!Definitive, BP!Occupying
<1> QED
  BY <1>8 DEF BP!SlotLimit

\* A member's slots bound what really runs at TIG, for any limit: neither a lost
\* response nor an early release lets a member have more work there.
THEOREM WorkLimited == Spec => []WorkIsLimited
<1>1. ASSUME IInv, BP!SlotLimit PROVE WorkIsLimited
  <2> SUFFICES ASSUME NEW m \in Members
               PROVE  Cardinality({r \in B!OwnedBy(m) : RunsAtTig(r) /\ ~ReturnedByOperator(r)}) <= MaxSlots
    BY DEF WorkIsLimited
  <2> DEFINE Running == {r \in B!OwnedBy(m) : RunsAtTig(r) /\ ~ReturnedByOperator(r)}
             Taken   == {r \in Reservations : MemberOf[r] = m /\ slotHeld[r]}
  <2>1. Running \subseteq Taken
    BY <1>1, RunningHasSlot DEF B!OwnedBy
  <2>2. IsFiniteSet(Taken)
    BY ReservationsAssumption, FS_Subset
  <2>3. Cardinality(Taken) <= MaxSlots
    BY <1>1 DEF BP!SlotLimit, BP!Slots, BP!Cardinality, Cardinality
  <2> HIDE DEF Running, Taken
  <2>4. Cardinality(Running) <= Cardinality(Taken) /\ Cardinality(Running) \in Nat
        /\ Cardinality(Taken) \in Nat
    BY <2>1, <2>2, FS_Subset, FS_CardinalityType
  <2> QED
    BY <2>3, <2>4, ReservationsAssumption DEF Running
<1> QED
  BY <1>1, AlwaysHolds, ReservationsKept, PTL

-----------------------------------------------------------------------------
(***************************************************************************)
(* The coordinator's cycle over the observed blocks (Replay).  Its state   *)
(* and its constants are its own.                                          *)
(***************************************************************************)

CONSTANTS Heights, Rows, ShownRows, UploadIds, PrecommitIds, PageSize, MaxDisputes, MaxCrashes

VARIABLES observed, dispute, lacking, confirmed, credited, reconciled, queue, intents, cycle, crashes

R == INSTANCE Replay

\* A cycle has a block or a page of intents, except between two cycles.
CycleShape ==
    \/ cycle = R!Idle
    \/ \E h : cycle \in {[at |-> "newest", block |-> h], [at |-> "backlog", block |-> h],
                         [at |-> "credited", block |-> h]}
    \/ \E page : cycle = [at |-> "dispatch", page |-> page]

\* A block is credited only with all its rows confirmed, and marked only when it is
\* credited.
ReplayInv ==
    /\ CycleShape
    /\ \A h \in credited : ShownRows[h] \subseteq confirmed
    /\ cycle.at = "credited" => cycle.block \in credited
    /\ reconciled \subseteq credited

\* Every step keeps it.
LEMMA NextReplay == ReplayInv /\ [R!Next]_(R!vars) => ReplayInv'
<1> SUFFICES ASSUME ReplayInv, [R!Next]_(R!vars) PROVE ReplayInv'
  OBVIOUS
<1> USE DEF R!Idle, R!outside, R!books
<1>1. ASSUME confirmed \subseteq confirmed', credited' = credited, reconciled' = reconciled,
             CycleShape', cycle' = cycle \/ cycle'.at # "credited"
      PROVE  ReplayInv'
  BY <1>1 DEF ReplayInv
<1>2. ASSUME NEW h \in Heights, R!Observe(h) \/ R!Dispute(h) \/ R!Settle(h) PROVE ReplayInv'
  BY <1>1, <1>2 DEF ReplayInv, CycleShape, R!Observe, R!Dispute, R!Settle
<1>3. ASSUME NEW r \in Rows, R!Supply(r) PROVE ReplayInv'
  BY <1>1, <1>3 DEF ReplayInv, CycleShape, R!Supply
<1>4. CASE R!Start
  BY <1>1, <1>4 DEF CycleShape, R!Start
<1>5. CASE R!ConfirmRow
  BY <1>1, <1>5 DEF ReplayInv, CycleShape, R!ConfirmRow
<1>6. CASE R!RaiseRow
  BY <1>1, <1>6 DEF CycleShape, R!RaiseRow
<1>7. CASE R!SelectBacklog
  BY <1>1, <1>7 DEF CycleShape, R!SelectBacklog
\* Nothing is left of the block when it is credited.
<1>8. CASE R!Credit
  <2>1. ASSUME ~R!Readable(cycle.block) PROVE ReplayInv'
    BY <1>1, <1>8, <2>1 DEF CycleShape, R!Credit
  <2>2. ASSUME R!Readable(cycle.block) PROVE ReplayInv'
    <3>1. ShownRows[cycle.block] \subseteq confirmed
      BY <1>8 DEF R!Credit, R!Left
    <3>2. PICK h : cycle = [at |-> "backlog", block |-> h]
      BY <1>8 DEF R!Credit, ReplayInv, CycleShape
    <3>3. /\ cycle' = [at |-> "credited", block |-> h]
          /\ credited' = credited \union {h}
          /\ UNCHANGED <<confirmed, reconciled>>
      BY <1>8, <2>2, <3>2 DEF R!Credit
    <3> QED
      BY <3>1, <3>2, <3>3 DEF ReplayInv, CycleShape
  <2> QED
    BY <2>1, <2>2
<1>9. CASE R!Mark
  BY <1>9 DEF ReplayInv, CycleShape, R!Mark
<1>10. CASE R!Interrupt
  BY <1>1, <1>10 DEF CycleShape, R!Interrupt
<1>11. CASE UNCHANGED R!vars
  BY <1>1, <1>11 DEF ReplayInv, CycleShape, R!vars
<1>12. ASSUME NEW i \in UploadIds, R!Upload(i) PROVE ReplayInv'
  BY <1>1, <1>12 DEF ReplayInv, CycleShape, R!Upload
<1>13. ASSUME NEW i \in PrecommitIds, R!Expire(i) PROVE ReplayInv'
  BY <1>1, <1>13 DEF ReplayInv, CycleShape, R!Expire
<1>14. CASE R!StartDispatch
  BY <1>1, <1>14 DEF CycleShape, R!StartDispatch
\* What is dispatched changes neither the books nor what a cycle is about to mark.
<1>15. CASE R!DispatchIntent
  <2>1. PICK page : cycle = [at |-> "dispatch", page |-> page]
    BY <1>15 DEF R!DispatchIntent, ReplayInv, CycleShape
  <2>2. R!GoOn \/ R!Ended \/ cycle' = R!Idle
    BY <1>15 DEF R!DispatchIntent, R!CancelRefused, R!TryPrecommit, R!TryUpload
  <2>3. cycle' = R!Idle \/ \E rest : cycle' = [at |-> "dispatch", page |-> rest]
    BY <2>1, <2>2 DEF R!GoOn, R!Ended
  <2> QED
    BY <1>1, <1>15, <2>3 DEF CycleShape, R!DispatchIntent
<1> QED
  BY <1>2, <1>3, <1>4, <1>5, <1>6, <1>7, <1>8, <1>9, <1>10, <1>11, <1>12, <1>13, <1>14, <1>15
     DEF R!Next, R!Step

\* A block leaves the backlog only when all it shows is confirmed and credited, for
\* any number of blocks and rows and wherever cycles end.
THEOREM ReconciledCorrect == R!Spec => []R!ReconciledIsApplied
<1>1. R!Init => ReplayInv
  BY DEF R!Init, ReplayInv, CycleShape, R!Idle
<1>2. ReplayInv => R!ReconciledIsApplied
  BY DEF ReplayInv, R!ReconciledIsApplied
<1> QED
  BY <1>1, <1>2, NextReplay, PTL DEF R!Spec
=============================================================================
