---------------------------- MODULE ReportsProofs ----------------------------
(***************************************************************************)
(* Theorems about Reports, for every set of benchmarks and rounds, every   *)
(* age of an answer and every number of faults.                            *)
(***************************************************************************)
EXTENDS Reports, Sums

Captures == [of : Rounds, at : Nat, shows : SUBSET Benchmarks, failed : BOOLEAN]
Rows     == [of : Rounds, at : Nat, shows : SUBSET Benchmarks,
             complete : BOOLEAN, expired : BOOLEAN]

TypeOK ==
    /\ height \in Nat /\ First <= height
    /\ reportAt \in [Benchmarks -> {Never} \union (First..height)]
    /\ archived \subseteq First..height
    /\ spool \subseteq Captures
    /\ omitted \subseteq Benchmarks
    /\ rows \in Seq(Rows)
    /\ cite \in [Benchmarks -> 0..Len(rows)]
    /\ scope \subseteq Rounds
    /\ seal.rows \subseteq DOMAIN rows
    /\ outcome \in [Benchmarks -> {"none", "returned", "forfeited"}]
    /\ expiry = [at |-> expiry.at, keep |-> expiry.keep, covered |-> expiry.covered]
    /\ expiry.covered \in 0..Len(rows)

\* TIG has confirmed a report while the window of its round was open.
Reported(b) == reportAt[b] # Never
InWindow    == \A b \in Benchmarks : Reported(b) => RoundOf(reportAt[b]) - Reporting[b] \in 0..Period

\* No report of n is still to come, and shows has all that no answer left out.
AllOf(n, shows) ==
    /\ RoundOf(height) >= Deadline(n)
    /\ \A b \in Benchmarks : Reporting[b] = n /\ Reported(b) => b \in shows \union omitted

\* A capture shows reports confirmed before it, and all of them unless it failed.
CaptureIsTrue(c) ==
    /\ \A b \in c.shows : Reporting[b] = c.of /\ Reported(b) /\ reportAt[b] <= c.at
    /\ ~c.failed => AllOf(c.of, c.shows)

RowIsTrue(i) == rows[i].complete /\ ~rows[i].expired => AllOf(rows[i].of, rows[i].shows)

\* The row that a known report cites.
CiteIsTrue(b) ==
    LET row == rows[cite[b]]
    IN  row.of = Reporting[b] /\ Reported(b) /\ reportAt[b] <= row.at /\ ~row.expired

\* A seal has a row for each scoped round and shows what its rows do.
SealIsTrue ==
    /\ seal.rows # {} =>
          scope # {} /\ \A n \in scope : \E i \in seal.rows : rows[i].of = n
    /\ \A i \in seal.rows : ~rows[i].expired => rows[i].shows \subseteq seal.shows
    /\ \A b \in Benchmarks : outcome[b] # "none" => seal.rows # {}

\* What a running expiry has read as cited, or finds younger than its backup.
ExpiryIsSafe ==
    expiry.at = "expiring" =>
        \A b \in Known : cite[b] \in expiry.keep \/ cite[b] > expiry.covered

\* Collateral is returned once no report can come, and none has.
ReturnIsTrue ==
    \A b \in Benchmarks :
        outcome[b] = "returned" /\ Reporting[b] \in scope =>
            /\ RoundOf(height) >= Deadline(Reporting[b])
            /\ reportAt[b] = Never \/ b \in omitted

\* The chain from a TIG answer to returned collateral, link by link.
IInv ==
    /\ TypeOK /\ InWindow
    /\ \A c \in spool : CaptureIsTrue(c)
    /\ \A i \in DOMAIN rows : RowIsTrue(i)
    /\ \A b \in Known : CiteIsTrue(b)
    /\ SealIsTrue /\ ExpiryIsSafe /\ ReturnIsTrue

-----------------------------------------------------------------------------
(***************************************************************************)
(* Rounds.                                                                 *)
(***************************************************************************)

\* A later block is in no earlier round.
LEMMA RoundGrows ==
    ASSUME NEW a \in Nat, NEW b \in Nat
    PROVE  /\ RoundOf(a) \in Nat /\ RoundOf(b) \in Nat
           /\ a <= b => RoundOf(a) <= RoundOf(b)
           /\ RoundOf(a) < RoundOf(b) => a < b
<1>1. a \div RoundLength \in Nat /\ b \div RoundLength \in Nat
  BY ReportsAssumption, Division
<1>2. a <= b => a \div RoundLength <= b \div RoundLength
  BY ReportsAssumption, DivisionGrows
<1>3. b <= a => b \div RoundLength <= a \div RoundLength
  BY ReportsAssumption, DivisionGrows
<1> QED
  BY <1>1, <1>2, <1>3 DEF RoundOf

\* The deadline is past the window for reports of n.
LEMMA DeadlineIsLate ==
    ASSUME NEW n \in Nat
    PROVE  Deadline(n) \in Nat /\ Deadline(n) >= n + Period + 1
<1> DEFINE S == {Creation + 3, n + Period + 1}
<1>1. Creation + 3 \in Nat /\ n + Period + 1 \in Nat
  BY ReportsAssumption
<1>2. \E x \in S : \A y \in S : x >= y
  BY <1>1
<1>3. Max(S) \in S /\ \A y \in S : Max(S) >= y
  BY <1>2 DEF Max
<1> QED
  BY <1>1, <1>3 DEF Deadline

\* Past the deadline TIG confirms no report of n.
LEMMA NoneIsLate ==
    ASSUME TypeOK, NEW b \in Benchmarks, RoundOf(height) >= Deadline(Reporting[b])
    PROVE  /\ b \notin Reportable(height + 1)
           /\ RoundOf(height + 1) >= Deadline(Reporting[b])
<1>1. Reporting[b] \in Nat /\ Period \in Nat /\ height \in Nat /\ height + 1 \in Nat
  BY ReportsAssumption DEF TypeOK
<1>2. /\ RoundOf(height) \in Nat /\ RoundOf(height + 1) \in Nat
      /\ RoundOf(height) <= RoundOf(height + 1)
  BY <1>1, RoundGrows
<1>3. Deadline(Reporting[b]) \in Nat /\ Deadline(Reporting[b]) >= Reporting[b] + Period + 1
  BY <1>1, DeadlineIsLate
<1>4. RoundOf(height + 1) - Reporting[b] \notin 0..Period
  BY <1>1, <1>2, <1>3
<1> QED
  BY <1>1, <1>2, <1>3, <1>4 DEF Reportable

\* The first block of the final rounds that is archived.
LEMMA BoundaryIsFirst ==
    ASSUME TypeOK, NEW n \in Rounds, Boundary(n) # {}
    PROVE  Min(Boundary(n)) \in Boundary(n) /\ Min(Boundary(n)) \in First..height
<1> DEFINE S == Boundary(n)
<1>1. S \subseteq First..height
  BY DEF TypeOK, Boundary
<1>2. First \in Int /\ height \in Int
  BY ReportsAssumption DEF TypeOK
<1> HIDE DEF S
<1>3. IsFiniteSet(S) /\ \A x \in S : x \in Int
  <2>1. IsFiniteSet(First..height)
    BY <1>2, FS_Interval
  <2>2. IsFiniteSet(S)
    BY <1>1, <2>1, FS_Subset
  <2> QED
    BY <1>1, <1>2, <2>2
<1>4. \E x \in S : \A y \in S : x <= y
  BY <1>3, LeastOne DEF S
<1>5. Min(S) \in S
  BY <1>4 DEF Min
<1> QED
  BY <1>1, <1>5 DEF S

\* An answer as new as that shows every report there can be.
LEMMA FreshIsWhole ==
    ASSUME TypeOK, InWindow, NEW n \in Rounds, NEW view \in (height - Age)..height,
           Needed(n), Fresh(n, view), NEW b \in Benchmarks, Reporting[b] = n, Reported(b)
    PROVE  b \in Shown(n, view)
<1> DEFINE m == Min(Boundary(n))
<1>1. m \in Boundary(n) /\ m \in First..height
  BY BoundaryIsFirst DEF Needed
<1>2. RoundOf(m) >= Deadline(n) /\ view >= m
  BY <1>1 DEF Boundary, Fresh
<1>3. /\ n \in Nat /\ Period \in Nat /\ height \in Nat /\ First \in Nat /\ Age \in Nat
      /\ reportAt[b] \in First..height
  BY ReportsAssumption DEF TypeOK, Reported
<1>4. m \in Nat /\ reportAt[b] \in Nat
  BY <1>1, <1>3
<1>5. RoundOf(reportAt[b]) - n \in 0..Period
  BY DEF InWindow
<1>6. Deadline(n) \in Nat /\ Deadline(n) >= n + Period + 1
  BY <1>3, DeadlineIsLate
<1> HIDE DEF m
<1>7. RoundOf(reportAt[b]) \in Nat /\ RoundOf(m) \in Nat
  BY <1>4, RoundGrows
<1>8. RoundOf(reportAt[b]) < RoundOf(m)
  BY <1>2, <1>3, <1>5, <1>6, <1>7
<1>9. reportAt[b] < m
  BY <1>4, <1>8, RoundGrows
<1> QED
  BY <1>2, <1>3, <1>4, <1>9 DEF Shown

\* The newest row of n.
LEMMA LatestIsNewest ==
    ASSUME TypeOK, NEW n, RowsOf(n) # {}
    PROVE  Latest(n) \in RowsOf(n) /\ \A k \in RowsOf(n) : rows[k].at <= rows[Latest(n)].at
<1> DEFINE R == RowsOf(n)
<1> DEFINE T == {rows[k].at : k \in R}
<1> DEFINE N == Newest(n)
<1>1. R \subseteq 1..Len(rows) /\ Len(rows) \in Nat /\ \A k \in R : rows[k].at \in Nat
  <2>1. rows \in Seq(Rows)
    BY DEF TypeOK
  <2>2. DOMAIN rows = 1..Len(rows) /\ Len(rows) \in Nat /\ \A k \in DOMAIN rows : rows[k] \in Rows
    BY <2>1
  <2>3. R \subseteq DOMAIN rows
    BY DEF RowsOf
  <2> HIDE DEF R
  <2> QED
    BY <2>2, <2>3 DEF Rows
<1>2. IsFiniteSet(R) /\ \A k \in R : k \in Int
  <2> HIDE DEF R
  <2>1. IsFiniteSet(1..Len(rows))
    BY <1>1, FS_Interval
  <2>2. IsFiniteSet(R)
    BY <1>1, <2>1, FS_Subset
  <2>3. \A k \in 1..Len(rows) : k \in Int
    OBVIOUS
  <2> QED
    BY <1>1, <2>2, <2>3
<1>3. N = {i \in R : \A k \in R : rows[k].at <= rows[i].at}
  BY DEF Newest
<1> HIDE DEF R, N
<1>4. IsFiniteSet(T)
  <2> DEFINE f == [k \in R |-> rows[k].at]
  <2>1. f \in Surjection(R, T)
    BY DEF Surjection
  <2> QED
    BY <1>2, <2>1, FS_Surjection
<1>5. T # {} /\ \A x \in T : x \in Int
  BY <1>1 DEF R
<1>6. PICK x \in T : \A y \in T : x >= y
  <2> HIDE DEF T
  <2> QED
    BY <1>4, <1>5, GreatestOne
<1>7. PICK i \in R : x = rows[i].at
  OBVIOUS
<1>8. \A k \in R : rows[k].at <= rows[i].at
  BY <1>1, <1>6, <1>7
<1>9. N # {} /\ N \subseteq R
  BY <1>3, <1>8
<1>10. IsFiniteSet(N) /\ \A k \in N : k \in Int
  BY <1>2, <1>9, FS_Subset
<1>11. \E z \in N : \A y \in N : z >= y
  BY <1>9, <1>10, GreatestOne
<1>12. Latest(n) \in N
  BY <1>11 DEF Latest, Max, N
<1> QED
  BY <1>3, <1>12 DEF R

-----------------------------------------------------------------------------
(***************************************************************************)
(* Every step keeps the invariant.                                         *)
(***************************************************************************)

ExpiryTyped ==
    /\ expiry = [at |-> expiry.at, keep |-> expiry.keep, covered |-> expiry.covered]
    /\ expiry.covered \in 0..Len(rows)

\* Nothing is reported, captured or sealed at the start.
LEMMA ReportsInit == Init => IInv
<1> SUFFICES ASSUME Init PROVE IInv
  OBVIOUS
<1> USE DEF Init
<1>1. TypeOK
  <2>1. First \in Nat /\ First \in First..First
    BY ReportsAssumption
  <2>2. rows \in Seq(Rows) /\ Len(rows) = 0
    OBVIOUS
  <2>3. expiry = [at |-> "idle", keep |-> {}, covered |-> 0]
    OBVIOUS
  <2> QED
    BY <2>1, <2>2, <2>3 DEF TypeOK
<1>2. Known = {} /\ DOMAIN rows = {} /\ spool = {} /\ seal.rows = {}
  BY DEF Known
<1>3. InWindow
  BY DEF InWindow, Reported
<1>4. SealIsTrue /\ ExpiryIsSafe /\ ReturnIsTrue
  BY <1>2 DEF SealIsTrue, ExpiryIsSafe, ReturnIsTrue
<1> QED
  BY <1>1, <1>2, <1>3, <1>4 DEF IInv

\* What touches no evidence and no decision.
LEMMA EvidenceSame ==
    ASSUME IInv, ExpiryTyped', ExpiryIsSafe', archived' \subseteq First..height,
           UNCHANGED <<height, reportAt, spool, omitted, rows, cite, scope, seal, outcome>>
    PROVE  IInv'
<1> USE DEF IInv
<1>1. TypeOK' /\ InWindow'
  BY DEF TypeOK, InWindow, Reported, ExpiryTyped
<1>2. ASSUME NEW c \in spool' PROVE CaptureIsTrue(c)'
  BY DEF CaptureIsTrue, AllOf, Reported
<1>3. ASSUME NEW i \in DOMAIN rows' PROVE RowIsTrue(i)'
  BY DEF RowIsTrue, AllOf, Reported
<1>4. ASSUME NEW b \in Known' PROVE CiteIsTrue(b)'
  BY DEF Known, CiteIsTrue, Reported
<1>5. SealIsTrue' /\ ReturnIsTrue'
  BY DEF SealIsTrue, ReturnIsTrue
<1> QED
  BY <1>1, <1>2, <1>3, <1>4, <1>5

\* The next block: no report is confirmed past the deadline.
LEMMA AdvanceStep ==
    ASSUME IInv, NEW reports, NEW decisions, Advance(reports, decisions)
    PROVE  IInv'
<1> USE DEF IInv
<1>1. /\ height \in Nat /\ height' = height + 1 /\ First \in Nat
      /\ reports \subseteq Reportable(height + 1)
      /\ \A b \in Benchmarks : reportAt'[b] = IF b \in reports THEN height + 1 ELSE reportAt[b]
      /\ reportAt' = [b \in Benchmarks |-> reportAt'[b]]
      /\ UNCHANGED <<archived, spool, omitted, rows, cite, scope, seal, outcome, expiry>>
  BY ReportsAssumption DEF Advance, TypeOK, archive, collector, facts, seals, retention
<1>2. ASSUME NEW b \in Benchmarks
      PROVE  /\ Reported(b) => reportAt'[b] = reportAt[b]
             /\ Reported(b)' /\ ~Reported(b) =>
                   reportAt'[b] = height + 1 /\ b \in Reportable(height + 1)
  BY <1>1 DEF Reported, Reportable
<1>3. ASSUME NEW b \in Benchmarks, RoundOf(height) >= Deadline(Reporting[b])
      PROVE  reportAt'[b] = reportAt[b] /\ RoundOf(height') >= Deadline(Reporting[b])
  BY <1>1, <1>3, NoneIsLate
<1>4. ASSUME NEW n \in Nat, NEW shows, AllOf(n, shows) PROVE AllOf(n, shows)'
  <2>1. RoundOf(height') >= Deadline(n)
    <3>1. /\ RoundOf(height) \in Nat /\ RoundOf(height + 1) \in Nat
          /\ RoundOf(height) <= RoundOf(height + 1)
      BY <1>1, RoundGrows
    <3> QED
      BY <1>1, <1>4, <3>1, DeadlineIsLate DEF AllOf
  <2>2. ASSUME NEW b \in Benchmarks, Reporting[b] = n, Reported(b)' PROVE b \in shows \union omitted
    <3>1. Reported(b)
      BY <1>3, <1>4, <2>2 DEF AllOf, Reported
    <3> QED
      BY <1>4, <2>2, <3>1 DEF AllOf
  <2> QED
    BY <1>1, <2>1, <2>2 DEF AllOf
<1>5. TypeOK'
  <2>1. reportAt' \in [Benchmarks -> {Never} \union (First..height')]
    BY <1>1 DEF TypeOK
  <2> QED
    BY <1>1, <2>1 DEF TypeOK
<1>6. InWindow'
  <2> SUFFICES ASSUME NEW b \in Benchmarks, Reported(b)'
               PROVE  RoundOf(reportAt'[b]) - Reporting[b] \in 0..Period
    BY DEF InWindow
  <2> QED
    BY <1>2 DEF InWindow, Reportable
<1>7. ASSUME NEW c \in spool' PROVE CaptureIsTrue(c)'
  <2>1. CaptureIsTrue(c) /\ c \in Captures /\ c.of \in Nat
    BY <1>1, ReportsAssumption DEF TypeOK, Captures
  <2>2. ~c.failed => AllOf(c.of, c.shows)'
    BY <1>4, <2>1 DEF CaptureIsTrue
  <2>3. \A b \in c.shows : Reporting[b] = c.of /\ Reported(b)' /\ reportAt'[b] <= c.at
    <3>1. c.shows \subseteq Benchmarks
      BY <2>1 DEF Captures
    <3> QED
      BY <1>2, <2>1, <3>1 DEF CaptureIsTrue, Reported
  <2> QED
    BY <2>2, <2>3 DEF CaptureIsTrue
<1>8. ASSUME NEW i \in DOMAIN rows' PROVE RowIsTrue(i)'
  <2>1. RowIsTrue(i) /\ rows[i].of \in Nat
    <3>1. i \in DOMAIN rows /\ rows \in Seq(Rows)
      BY <1>1 DEF TypeOK
    <3>2. rows[i] \in Rows
      BY <3>1
    <3> QED
      BY <3>1, <3>2, ReportsAssumption DEF Rows
  <2> QED
    BY <1>1, <1>4, <2>1 DEF RowIsTrue
<1>9. ASSUME NEW b \in Known' PROVE CiteIsTrue(b)'
  <2>1. b \in Known /\ CiteIsTrue(b) /\ b \in Benchmarks
    BY <1>1, <1>9 DEF Known
  <2> QED
    BY <1>1, <1>2, <2>1 DEF CiteIsTrue, Reported
<1>10. SealIsTrue' /\ ExpiryIsSafe'
  BY <1>1 DEF SealIsTrue, ExpiryIsSafe, Known
<1>11. ReturnIsTrue'
  BY <1>1, <1>3 DEF ReturnIsTrue
<1> QED
  BY <1>5, <1>6, <1>7, <1>8, <1>9, <1>10, <1>11

\* The collector saves a capture, of which nothing else is yet true.
LEMMA SaveStep ==
    ASSUME IInv, NEW n \in Rounds, NEW shows \in SUBSET Benchmarks, NEW failed \in BOOLEAN,
           Save(n, shows, failed), NEW more \in SUBSET Benchmarks, omitted' = omitted \union more,
           \A b \in shows : Reporting[b] = n /\ Reported(b) /\ reportAt[b] <= height,
           ~failed => AllOf(n, shows \union more),
           UNCHANGED <<tig, archive, facts, seals, retention>>
    PROVE  IInv'
<1> USE DEF IInv
<1> DEFINE new == [of |-> n, at |-> height, shows |-> shows, failed |-> failed]
<1>1. /\ height \in Nat /\ spool' \subseteq spool \union {new}
      /\ UNCHANGED <<height, reportAt, archived, rows, cite, scope, seal, outcome, expiry>>
  BY DEF TypeOK, Save, tig, archive, facts, seals, retention
<1>2. new \in Captures
  BY <1>1 DEF Captures
<1>3. /\ new.of = n /\ new.at = height /\ new.shows = shows /\ new.failed = failed
  OBVIOUS
<1> HIDE DEF new
<1>4. TypeOK' /\ InWindow'
  BY <1>1, <1>2 DEF TypeOK, InWindow, Reported
<1>5. ASSUME NEW k, NEW s, AllOf(k, s) PROVE AllOf(k, s)'
  BY <1>1, <1>5 DEF AllOf, Reported
<1>6. ASSUME NEW c \in spool' PROVE CaptureIsTrue(c)'
  <2>1. CASE c = new
    <3>1. ~failed => AllOf(n, shows)'
      BY <1>1 DEF AllOf, Reported
    <3> QED
      BY <1>1, <1>3, <2>1, <3>1 DEF CaptureIsTrue, Reported
  <2>2. CASE c \in spool
    <3>1. CaptureIsTrue(c)
      BY <2>2
    <3> QED
      BY <1>1, <1>5, <3>1 DEF CaptureIsTrue, Reported
  <2> QED
    BY <1>1, <1>6, <2>1, <2>2
<1>7. ASSUME NEW i \in DOMAIN rows' PROVE RowIsTrue(i)'
  BY <1>1, <1>5 DEF RowIsTrue
<1>8. ASSUME NEW b \in Known' PROVE CiteIsTrue(b)'
  BY <1>1 DEF Known, CiteIsTrue, Reported
<1>9. SealIsTrue' /\ ExpiryIsSafe'
  BY <1>1 DEF SealIsTrue, ExpiryIsSafe, Known
<1>10. ReturnIsTrue'
  BY <1>1 DEF ReturnIsTrue
<1> QED
  BY <1>4, <1>6, <1>7, <1>8, <1>9, <1>10

\* A final answer has every report, or leaves it out.
LEMMA FetchStep ==
    ASSUME IInv, NEW n \in Rounds, NEW view \in (height - Age)..height,
           NEW without \in SUBSET Shown(n, view), Fetch(n, view, without)
    PROVE  IInv'
<1> DEFINE shows == Shown(n, view) \ without
<1>1. /\ Save(n, shows, FALSE) /\ omitted' = omitted \union without
      /\ UNCHANGED <<tig, archive, facts, seals, retention>>
      /\ Needed(n) /\ Fresh(n, view)
  BY DEF Fetch
<1>2. shows \in SUBSET Benchmarks /\ without \in SUBSET Benchmarks
  BY DEF Shown
<1>3. /\ height \in Nat /\ First \in Nat /\ Age \in Nat /\ TypeOK /\ InWindow
  BY ReportsAssumption DEF IInv, TypeOK
<1>4. ASSUME NEW b \in shows PROVE Reporting[b] = n /\ Reported(b) /\ reportAt[b] <= height
  BY <1>3 DEF Shown, Reported, Never
<1>5. AllOf(n, shows \union without)
  <2>1. RoundOf(height) >= Deadline(n)
    BY <1>1 DEF Needed
  <2>2. \A b \in Benchmarks : Reporting[b] = n /\ Reported(b) => b \in Shown(n, view)
    BY <1>1, <1>3, FreshIsWhole
  <2> QED
    BY <2>1, <2>2 DEF AllOf
<1> HIDE DEF shows
<1> QED
  BY <1>1, <1>2, <1>4, <1>5, SaveStep

\* A failed answer shows nothing.
LEMMA FetchFailsStep ==
    ASSUME IInv, NEW n \in Rounds, FetchFails(n)
    PROVE  IInv'
<1> DEFINE none == {}
<1> DEFINE failed == TRUE
<1>1. /\ Save(n, none, failed) /\ omitted' = omitted \union none
      /\ UNCHANGED <<tig, archive, facts, seals, retention>>
  BY DEF FetchFails
<1>2. /\ none \in SUBSET Benchmarks /\ failed \in BOOLEAN
      /\ \A b \in none : Reporting[b] = n /\ Reported(b) /\ reportAt[b] <= height
      /\ ~failed => AllOf(n, none \union none)
  OBVIOUS
<1> HIDE DEF none, failed
<1> QED
  BY <1>1, <1>2, SaveStep

\* The store records a capture: its row is true as the capture was, and what it
\* confirms first cites it.
LEMMA RecordStep ==
    ASSUME IInv, NEW c \in spool, Record(c)
    PROVE  IInv'
<1> USE DEF IInv
<1> DEFINE complete == ~c.failed /\ KnownBy(c.of, c.at) \subseteq c.shows
<1> DEFINE new == [of |-> c.of, at |-> c.at, shows |-> c.shows,
                   complete |-> complete, expired |-> FALSE]
<1> DEFINE k == Len(rows) + 1
<1>1. /\ c \in Captures /\ CaptureIsTrue(c) /\ rows \in Seq(Rows)
      /\ cite \in [Benchmarks -> 0..Len(rows)]
  BY DEF TypeOK
<1>2. complete \in BOOLEAN /\ new \in Rows
  BY <1>1 DEF Captures, Rows
<1>3. /\ rows' = Append(rows, new) /\ spool' = spool \ {c}
      /\ cite' = [b \in Benchmarks |->
                    IF complete /\ b \in c.shows /\ cite[b] = 0 THEN k ELSE cite[b]]
      /\ UNCHANGED <<height, reportAt, archived, omitted, scope, seal, outcome, expiry>>
  <2>1. UNCHANGED <<height, reportAt, archived, omitted, scope, seal, outcome, expiry>>
    BY DEF Record, tig, archive, seals, retention
  <2>2. rows' = Append(rows, new) /\ spool' = spool \ {c}
    BY Zenon DEF Record
  <2>3. cite' = [b \in Benchmarks |->
                   IF complete /\ b \in c.shows /\ cite[b] = 0 THEN k ELSE cite[b]]
    BY Zenon DEF Record
  <2> QED
    BY <2>1, <2>2, <2>3
<1>4. /\ new.of = c.of /\ new.at = c.at /\ new.shows = c.shows
      /\ new.complete = complete /\ new.expired = FALSE
      /\ complete => ~c.failed
  OBVIOUS
<1> HIDE DEF complete, new
<1>5. /\ rows' \in Seq(Rows) /\ Len(rows') = k /\ Len(rows) \in Nat
      /\ DOMAIN rows = 1..Len(rows) /\ DOMAIN rows' = 1..k
      /\ rows'[k] = new /\ \A i \in 1..Len(rows) : rows'[i] = rows[i]
  BY <1>1, <1>2, <1>3
<1>6. /\ cite' = [b \in Benchmarks |-> cite'[b]]
      /\ \A b \in Benchmarks : \/ cite'[b] = cite[b]
                               \/ cite'[b] = k /\ complete /\ b \in c.shows /\ cite[b] = 0
  BY <1>3
<1> HIDE <1>3
<1>7. /\ UNCHANGED <<height, reportAt, archived, omitted, scope, seal, outcome, expiry>>
      /\ spool' \subseteq spool
  BY <1>3
<1>8. TypeOK' /\ InWindow'
  <2>1. cite' \in [Benchmarks -> 0..Len(rows')]
    <3>1. \A b \in Benchmarks : cite'[b] \in 0..k
      BY <1>1, <1>5, <1>6
    <3> QED
      BY <1>5, <1>6, <3>1
  <2>2. seal'.rows \subseteq DOMAIN rows'
    BY <1>5, <1>7 DEF TypeOK
  <2>3. /\ expiry' = [at |-> expiry'.at, keep |-> expiry'.keep, covered |-> expiry'.covered]
        /\ expiry'.covered \in 0..Len(rows')
    BY <1>5, <1>7 DEF TypeOK
  <2> QED
    BY <1>5, <1>7, <2>1, <2>2, <2>3 DEF TypeOK, InWindow, Reported
<1>9. ASSUME NEW n, NEW s, AllOf(n, s) PROVE AllOf(n, s)'
  BY <1>7, <1>9 DEF AllOf, Reported
<1>10. ASSUME NEW d \in spool' PROVE CaptureIsTrue(d)'
  <2>1. CaptureIsTrue(d)
    BY <1>7
  <2> QED
    BY <1>7, <1>9, <2>1 DEF CaptureIsTrue, Reported
<1>11. ASSUME NEW i \in DOMAIN rows' PROVE RowIsTrue(i)'
  <2>1. CASE i = k
    BY <1>1, <1>4, <1>5, <1>9, <2>1 DEF RowIsTrue, CaptureIsTrue
  <2>2. CASE i \in 1..Len(rows)
    <3>1. RowIsTrue(i) /\ rows'[i] = rows[i]
      BY <1>5, <2>2
    <3> QED
      BY <1>9, <3>1 DEF RowIsTrue
  <2> QED
    BY <1>5, <2>1, <2>2
<1>12. ASSUME NEW b \in Known' PROVE CiteIsTrue(b)'
  <2>0. b \in Benchmarks /\ cite'[b] > 0
    BY <1>12 DEF Known
  <2>1. CASE cite'[b] = cite[b]
    <3>1. b \in Known /\ CiteIsTrue(b) /\ cite[b] \in 1..Len(rows)
      BY <1>1, <1>5, <2>0, <2>1 DEF Known
    <3> QED
      BY <1>5, <1>7, <2>1, <3>1 DEF CiteIsTrue, Reported
  <2>2. CASE cite'[b] = k /\ complete /\ b \in c.shows
    BY <1>1, <1>4, <1>5, <1>7, <2>2 DEF CiteIsTrue, CaptureIsTrue, Reported
  <2> QED
    BY <1>6, <2>0, <2>1, <2>2
<1>13. SealIsTrue'
  <2>1. \A i \in seal.rows : rows'[i] = rows[i]
    BY <1>5 DEF TypeOK
  <2> QED
    BY <1>7, <2>1 DEF SealIsTrue
<1>14. ExpiryIsSafe'
  <2> SUFFICES ASSUME expiry'.at = "expiring", NEW b \in Known'
               PROVE  cite'[b] \in expiry'.keep \/ cite'[b] > expiry'.covered
    BY DEF ExpiryIsSafe
  <2>0. b \in Benchmarks /\ cite'[b] > 0 /\ expiry.covered \in 0..Len(rows)
    BY DEF Known, TypeOK
  <2>1. CASE cite'[b] = cite[b]
    <3>1. b \in Known
      BY <2>0, <2>1 DEF Known
    <3> QED
      BY <1>7, <2>1, <3>1 DEF ExpiryIsSafe
  <2>2. CASE cite'[b] = k
    BY <1>5, <1>7, <2>0, <2>2
  <2> QED
    BY <1>6, <2>0, <2>1, <2>2
<1>15. ReturnIsTrue'
  BY <1>7 DEF ReturnIsTrue
<1> QED
  BY <1>8, <1>10, <1>11, <1>12, <1>13, <1>14, <1>15

\* The scope is frozen before anything is sealed.
LEMMA ScopeStep ==
    ASSUME IInv, NEW R \in SUBSET Rounds, SetScope(R)
    PROVE  IInv'
<1> USE DEF IInv
<1>1. /\ scope = {} /\ scope' = R
      /\ UNCHANGED <<height, reportAt, archived, spool, omitted, rows, cite, seal, outcome, expiry>>
  BY DEF SetScope, tig, archive, collector, facts, retention
<1>2. seal.rows = {} /\ \A b \in Benchmarks : outcome[b] = "none"
  BY <1>1 DEF SealIsTrue
<1>3. TypeOK' /\ InWindow'
  BY <1>1 DEF TypeOK, InWindow, Reported
<1>4. ASSUME NEW c \in spool' PROVE CaptureIsTrue(c)'
  BY <1>1 DEF CaptureIsTrue, AllOf, Reported
<1>5. ASSUME NEW i \in DOMAIN rows' PROVE RowIsTrue(i)'
  BY <1>1 DEF RowIsTrue, AllOf, Reported
<1>6. ASSUME NEW b \in Known' PROVE CiteIsTrue(b)'
  BY <1>1 DEF Known, CiteIsTrue, Reported
<1>7. SealIsTrue' /\ ExpiryIsSafe' /\ ReturnIsTrue'
  BY <1>1, <1>2 DEF SealIsTrue, ReturnIsTrue, ExpiryIsSafe, Known
<1> QED
  BY <1>3, <1>4, <1>5, <1>6, <1>7

\* A seal takes the newest row of every scoped round.
LEMMA SealStep ==
    ASSUME IInv, NEW block, Seal(block)
    PROVE  IInv'
<1> USE DEF IInv
<1> DEFINE latest == {Latest(n) : n \in scope}
<1> DEFINE new == [rows |-> latest, shows |-> UNION {rows[i].shows : i \in latest}, block |-> block]
<1>1. /\ seal' = new /\ scope # {} /\ \A n \in scope : RowsOf(n) # {}
      /\ UNCHANGED <<height, reportAt, archived, spool, omitted, rows, cite, scope, outcome, expiry>>
  BY DEF Seal, tig, archive, collector, facts, retention
<1>2. new.rows = latest /\ \A i \in latest : rows[i].shows \subseteq new.shows
  OBVIOUS
<1>3. \A n \in scope : Latest(n) \in RowsOf(n)
  BY <1>1, LatestIsNewest
<1>4. /\ latest # {} /\ latest \subseteq DOMAIN rows
      /\ \A n \in scope : \E i \in latest : rows[i].of = n
  BY <1>1, <1>3 DEF RowsOf
<1> HIDE DEF latest, new
<1>5. seal'.rows = latest /\ \A i \in latest : rows[i].shows \subseteq seal'.shows
  BY <1>1, <1>2
<1>6. TypeOK' /\ InWindow'
  BY <1>1, <1>4, <1>5 DEF TypeOK, InWindow, Reported
<1>7. ASSUME NEW c \in spool' PROVE CaptureIsTrue(c)'
  BY <1>1 DEF CaptureIsTrue, AllOf, Reported
<1>8. ASSUME NEW i \in DOMAIN rows' PROVE RowIsTrue(i)'
  BY <1>1 DEF RowIsTrue, AllOf, Reported
<1>9. ASSUME NEW b \in Known' PROVE CiteIsTrue(b)'
  BY <1>1 DEF Known, CiteIsTrue, Reported
<1>10. SealIsTrue'
  BY <1>1, <1>4, <1>5 DEF SealIsTrue
<1>11. ExpiryIsSafe' /\ ReturnIsTrue'
  BY <1>1 DEF ReturnIsTrue, ExpiryIsSafe, Known
<1> QED
  BY <1>6, <1>7, <1>8, <1>9, <1>10, <1>11

\* A usable seal has a final row of the reporting round of every benchmark in
\* its scope, and the pool knows of no report that the seal does not show.
LEMMA UsableIsTrue ==
    ASSUME IInv, Usable, NEW b \in Benchmarks
    PROVE  /\ b \in Known => b \in seal.shows
           /\ Reporting[b] \in scope =>
                 /\ RoundOf(height) >= Deadline(Reporting[b])
                 /\ Reported(b) => b \in seal.shows \union omitted
<1> USE DEF IInv
<1>1. ASSUME Reporting[b] \in scope
      PROVE  \E i \in seal.rows : /\ rows[i].of = Reporting[b] /\ i \in DOMAIN rows
                                  /\ i = Latest(rows[i].of) /\ IsFinal(i)
                                  /\ rows[i].shows \subseteq seal.shows
  <2>1. PICK i \in seal.rows : rows[i].of = Reporting[b]
    BY <1>1 DEF Usable, SealIsTrue
  <2>2. i = Latest(rows[i].of) /\ IsFinal(i)
    BY DEF Usable
  <2>3. rows[i].shows \subseteq seal.shows
    BY <2>2 DEF SealIsTrue, IsFinal
  <2>4. i \in DOMAIN rows
    BY DEF TypeOK
  <2> QED
    BY <2>1, <2>2, <2>3, <2>4
<1>2. ASSUME Reporting[b] \in scope
      PROVE  /\ RoundOf(height) >= Deadline(Reporting[b])
             /\ Reported(b) => b \in seal.shows \union omitted
  <2>1. PICK i \in seal.rows : /\ rows[i].of = Reporting[b] /\ i \in DOMAIN rows
                               /\ IsFinal(i) /\ rows[i].shows \subseteq seal.shows
    BY <1>1, <1>2
  <2>2. AllOf(Reporting[b], rows[i].shows)
    BY <2>1 DEF RowIsTrue, IsFinal
  <2> QED
    BY <2>1, <2>2 DEF AllOf
<1>3. ASSUME b \in Known PROVE b \in seal.shows
  <2>1. Reporting[b] \in scope
    BY <1>3 DEF Usable, CheckScope
  <2>2. PICK i \in seal.rows : /\ rows[i].of = Reporting[b] /\ i \in DOMAIN rows
                               /\ i = Latest(rows[i].of) /\ IsFinal(i)
                               /\ rows[i].shows \subseteq seal.shows
    BY <1>1, <2>1
  <2>3. CiteIsTrue(b) /\ cite[b] \in 1..Len(rows) /\ rows \in Seq(Rows)
    BY <1>3 DEF Known, TypeOK
  <2>4. cite[b] \in RowsOf(Reporting[b])
    BY <2>3 DEF CiteIsTrue, RowsOf
  <2>5. rows[cite[b]].at <= rows[i].at
    BY <2>2, <2>4, LatestIsNewest
  <2>6. reportAt[b] <= rows[i].at
    <3>1. rows[cite[b]] \in Rows /\ rows[i] \in Rows
      BY <2>2, <2>3
    <3>2. rows[cite[b]].at \in Nat /\ rows[i].at \in Nat
      BY <3>1 DEF Rows
    <3>3. reportAt[b] \in Int /\ reportAt[b] <= rows[cite[b]].at
      BY <2>3, ReportsAssumption DEF CiteIsTrue, TypeOK, Never
    <3> QED
      BY <2>5, <3>2, <3>3
  <2>7. b \in KnownBy(rows[i].of, rows[i].at)
    BY <1>3, <2>2, <2>6 DEF KnownBy
  <2> QED
    BY <2>2, <2>7 DEF IsFinal, CoversKnown
<1> QED
  BY <1>2, <1>3

\* Collateral is decided by a usable seal.
LEMMA FinalizeStep ==
    ASSUME IInv, NEW b \in Benchmarks, Finalize(b)
    PROVE  IInv'
<1> USE DEF IInv
<1>1. /\ Usable /\ seal.rows # {}
      /\ outcome' = [outcome EXCEPT ![b] = IF b \in seal.shows THEN "forfeited" ELSE "returned"]
      /\ UNCHANGED <<height, reportAt, archived, spool, omitted, rows, cite, scope, seal, expiry>>
  BY DEF Finalize, Usable, tig, archive, collector, facts, retention
<1>2. TypeOK' /\ InWindow'
  BY <1>1 DEF TypeOK, InWindow, Reported
<1>3. ASSUME NEW c \in spool' PROVE CaptureIsTrue(c)'
  BY <1>1 DEF CaptureIsTrue, AllOf, Reported
<1>4. ASSUME NEW i \in DOMAIN rows' PROVE RowIsTrue(i)'
  BY <1>1 DEF RowIsTrue, AllOf, Reported
<1>5. ASSUME NEW d \in Known' PROVE CiteIsTrue(d)'
  BY <1>1 DEF Known, CiteIsTrue, Reported
<1>6. SealIsTrue' /\ ExpiryIsSafe'
  BY <1>1 DEF SealIsTrue, ExpiryIsSafe, Known
<1>7. ReturnIsTrue'
  <2> SUFFICES ASSUME NEW d \in Benchmarks, outcome'[d] = "returned", Reporting[d] \in scope
               PROVE  /\ RoundOf(height) >= Deadline(Reporting[d])
                      /\ reportAt[d] = Never \/ d \in omitted
    BY <1>1 DEF ReturnIsTrue
  <2>1. CASE d = b
    <3>1. b \notin seal.shows
      BY <1>1, <2>1 DEF TypeOK
    <3> QED
      BY <1>1, <2>1, <3>1, UsableIsTrue DEF Reported
  <2>2. CASE d # b
    <3>1. outcome[d] = "returned"
      BY <1>1, <2>2 DEF TypeOK
    <3> QED
      BY <3>1 DEF ReturnIsTrue
  <2> QED
    BY <2>1, <2>2
<1> QED
  BY <1>2, <1>3, <1>4, <1>5, <1>6, <1>7

\* A batch of the expiry empties a row that no fact cites.
LEMMA ExpireStep ==
    ASSUME IInv, NEW i \in DOMAIN rows, ExpireRow(i)
    PROVE  IInv'
<1> USE DEF IInv
<1>1. /\ expiry.at = "expiring" /\ i <= expiry.covered /\ i \notin expiry.keep
      /\ rows' = [rows EXCEPT ![i].expired = TRUE, ![i].shows = {}]
      /\ UNCHANGED <<height, reportAt, archived, spool, omitted, cite, scope, seal, outcome, expiry>>
  BY DEF ExpireRow, Covered, tig, archive, collector, seals, retention
<1>2. rows \in Seq(Rows) /\ Len(rows) \in Nat /\ DOMAIN rows = 1..Len(rows) /\ rows[i] \in Rows
  BY DEF TypeOK
<1> DEFINE new == [rows[i] EXCEPT !.expired = TRUE, !.shows = {}]
<1>3. new \in Rows /\ new.expired = TRUE /\ new.of = rows[i].of /\ new.at = rows[i].at
  BY <1>2 DEF Rows
<1>4. rows' = [rows EXCEPT ![i] = new]
  BY <1>1, <1>2
<1> HIDE DEF new
<1>5. /\ rows' \in Seq(Rows) /\ Len(rows') = Len(rows) /\ DOMAIN rows' = DOMAIN rows
      /\ rows'[i] = new /\ \A k \in DOMAIN rows : k # i => rows'[k] = rows[k]
  BY <1>2, <1>3, <1>4
<1>6. /\ UNCHANGED <<height, reportAt, archived, spool, omitted, cite, scope, seal, outcome, expiry>>
      /\ rows'[i].expired /\ \A k \in DOMAIN rows : rows'[k].of = rows[k].of
  BY <1>1, <1>3, <1>5
<1>7. TypeOK' /\ InWindow'
  BY <1>5, <1>6 DEF TypeOK, InWindow, Reported
<1>8. ASSUME NEW c \in spool' PROVE CaptureIsTrue(c)'
  BY <1>6 DEF CaptureIsTrue, AllOf, Reported
<1>9. ASSUME NEW k \in DOMAIN rows' PROVE RowIsTrue(k)'
  <2>1. CASE k = i
    BY <1>6, <2>1 DEF RowIsTrue
  <2>2. CASE k # i
    <3>1. RowIsTrue(k) /\ rows'[k] = rows[k]
      BY <1>5, <2>2
    <3> QED
      BY <1>6, <3>1 DEF RowIsTrue, AllOf, Reported
  <2> QED
    BY <2>1, <2>2
<1>10. ASSUME NEW b \in Known' PROVE CiteIsTrue(b)'
  <2>1. b \in Known /\ CiteIsTrue(b) /\ cite[b] \in DOMAIN rows /\ b \in Benchmarks
    BY <1>2, <1>6 DEF Known, TypeOK
  <2>2. cite[b] # i
    <3>1. cite[b] \in expiry.keep \/ cite[b] > expiry.covered
      BY <1>1, <2>1 DEF ExpiryIsSafe
    <3>2. expiry.covered \in Nat /\ i \in Nat
      BY <1>2 DEF TypeOK
    <3> QED
      BY <1>1, <3>1, <3>2
  <2>3. rows'[cite[b]] = rows[cite[b]]
    BY <1>5, <2>1, <2>2
  <2> QED
    BY <1>6, <2>1, <2>3 DEF CiteIsTrue, Reported
<1>11. SealIsTrue'
  <2>1. \A k \in seal.rows : k \in DOMAIN rows
    BY DEF TypeOK
  <2>2. \A k \in seal.rows : ~rows'[k].expired => rows'[k] = rows[k]
    BY <1>5, <1>6, <2>1
  <2> QED
    BY <1>6, <2>1, <2>2 DEF SealIsTrue
<1>12. ExpiryIsSafe' /\ ReturnIsTrue'
  BY <1>6 DEF ReturnIsTrue, ExpiryIsSafe, Known
<1> QED
  BY <1>7, <1>8, <1>9, <1>10, <1>11, <1>12

\* The collector, the recorder, sealing, finalization, expiry and TIG itself keep
\* the invariant.
LEMMA ReportsStep == IInv /\ [Next]_vars => IInv'
<1> SUFFICES ASSUME IInv, [Next]_vars PROVE IInv'
  OBVIOUS
<1> USE DEF tig, archive, collector, facts, seals, retention
<1>1. TypeOK /\ ExpiryIsSafe /\ ExpiryTyped /\ archived \subseteq First..height
  BY DEF IInv, TypeOK, ExpiryTyped
<1>2. CASE /\ UNCHANGED <<height, reportAt, spool, omitted, rows, cite, scope, seal, outcome, expiry>>
           /\ archived' \subseteq First..height
  <2>1. ExpiryTyped' /\ ExpiryIsSafe'
    BY <1>1, <1>2 DEF ExpiryTyped, ExpiryIsSafe, Known
  <2> QED
    BY <1>2, <2>1, EvidenceSame
<1>3. ASSUME NEW h \in Heights, ArchiveBlock(h) PROVE IInv'
  <2>1. h \in First..height
    BY <1>1, <1>3, ReportsAssumption DEF ArchiveBlock, Heights, TypeOK
  <2> QED
    BY <1>1, <1>2, <1>3, <2>1 DEF ArchiveBlock
<1>4. ASSUME NEW h \in Disputable, DisputeBlock(h) PROVE IInv'
  BY <1>1, <1>2, <1>4 DEF DisputeBlock
<1>5. CASE Restart
  BY <1>1, <1>2, <1>5 DEF Restart
<1>6. ASSUME NEW b \in Benchmarks, Map(b) PROVE IInv'
  BY <1>1, <1>2, <1>6 DEF Map
<1>7. CASE PlanExpiry
  <2>1. /\ expiry' = [at |-> "floor", keep |-> {}, covered |-> Len(rows)]
        /\ UNCHANGED <<height, reportAt, archived, spool, omitted, rows, cite, scope, seal, outcome>>
    BY <1>7 DEF PlanExpiry
  <2>2. Len(rows) \in Nat
    BY <1>1 DEF TypeOK
  <2>3. ExpiryTyped' /\ ExpiryIsSafe'
    BY <2>1, <2>2 DEF ExpiryTyped, ExpiryIsSafe
  <2> QED
    BY <1>1, <2>1, <2>3, EvidenceSame
<1>8. CASE ReadKept
  <2>1. /\ expiry' = [at |-> "expiring", keep |-> Kept, covered |-> expiry.covered]
        /\ UNCHANGED <<height, reportAt, archived, spool, omitted, rows, cite, scope, seal, outcome>>
    BY <1>1, <1>8 DEF ReadKept, ExpiryTyped
  <2>2. \A b \in Known : cite[b] \in Kept
    BY DEF Kept
  <2>3. ExpiryTyped' /\ ExpiryIsSafe'
    BY <1>1, <2>1, <2>2 DEF ExpiryTyped, ExpiryIsSafe, Known
  <2> QED
    BY <1>1, <2>1, <2>3, EvidenceSame
<1>9. CASE FinishExpiry
  <2>1. /\ expiry' = [at |-> "idle", keep |-> {}, covered |-> 0]
        /\ UNCHANGED <<height, reportAt, archived, spool, omitted, rows, cite, scope, seal, outcome>>
    BY <1>9 DEF FinishExpiry
  <2>2. Len(rows) \in Nat
    BY <1>1 DEF TypeOK
  <2>3. ExpiryTyped' /\ ExpiryIsSafe'
    BY <2>1, <2>2 DEF ExpiryTyped, ExpiryIsSafe
  <2> QED
    BY <1>1, <2>1, <2>3, EvidenceSame
<1>10. CASE UNCHANGED vars
  BY <1>1, <1>2, <1>10 DEF vars
<1> QED
  BY <1>3, <1>4, <1>5, <1>6, <1>7, <1>8, <1>9, <1>10, AdvanceStep, FetchStep, FetchFailsStep,
     RecordStep, ScopeStep, SealStep, FinalizeStep, ExpireStep DEF Next

-----------------------------------------------------------------------------
(***************************************************************************)
(* Results.                                                                *)
(***************************************************************************)

\* Whatever was cached, late, failed or recorded twice, collateral is returned
\* only for a benchmark that has no upheld report and can have none any more,
\* unless an answer of TIG left its report out: finalize_collateral may rely on
\* the answer that report_observer.py calls final.
THEOREM ReturnedCorrect == Spec => []ReturnedIsUnreported
<1>1. IInv => ReturnedIsUnreported
  BY DEF IInv, ReturnIsTrue, ReturnedIsUnreported
<1> QED
  BY <1>1, ReportsInit, ReportsStep, PTL DEF Spec

\* The expiry of report captures never takes the payload of a confirmed report,
\* although record confirms reports between the read of the kept rows and the
\* batches: what it confirms then is younger than the backup.
THEOREM FactsCorrect == Spec => []FactsAreReadable
<1>1. IInv => FactsAreReadable
  BY DEF IInv, CiteIsTrue, FactsAreReadable
<1> QED
  BY <1>1, ReportsInit, ReportsStep, PTL DEF Spec

\* finalize_collateral returns nothing for a report that the pool knows, however
\* late its evidence was recorded: require_seal refuses a seal whose newest row
\* does not show it.
THEOREM KnownCorrect == Spec => KnownIsCounted
<1>1. IInv /\ [Next]_vars =>
         [\A b \in Benchmarks : outcome'[b] = "returned" /\ outcome[b] = "none" => b \notin Known]_vars
  <2> SUFFICES ASSUME IInv, [Next]_vars, NEW b \in Benchmarks,
                      outcome'[b] = "returned", outcome[b] = "none"
               PROVE  b \notin Known
    OBVIOUS
  <2>1. PICK d \in Benchmarks : Finalize(d)
    BY DEF Next, vars, Advance, Restart, PlanExpiry, ReadKept, FinishExpiry, Map, ArchiveBlock, Seal,
       DisputeBlock, FetchFails, Fetch, Record, SetScope, ExpireRow, seals
  <2>2. d = b /\ b \notin seal.shows /\ Usable
    BY <2>1 DEF Finalize, IInv, TypeOK
  <2> QED
    BY <2>2, UsableIsTrue
<1> QED
  BY <1>1, ReportsInit, ReportsStep, PTL DEF Spec, KnownIsCounted
=============================================================================
