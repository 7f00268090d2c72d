--------------------------- MODULE GroundJobsProofs ---------------------------
(***************************************************************************)
(* Proofs about GroundJobs for every set of requests, targets, clients and *)
(* workers and every value of the limits, the lease and the delays.        *)
(***************************************************************************)
EXTENDS GroundDelivery, FiniteSetTheorems, TLAPS

\* Saturating arithmetic stays on the clock's scale.
LEMMA LaterIsInstant ==
    ASSUME NEW t \in Nat
    PROVE  Later(t) \in Instants
  BY GroundJobsAssumption DEF Later, Instants

\* The retry delay is a number whatever the attempt.
LEMMA DelayIsNatural ==
    ASSUME NEW a
    PROVE  RetryDelay(a) \in Nat
  BY GroundJobsAssumption DEF RetryDelay

-----------------------------------------------------------------------------
(* The inductive invariant *)

\* A worker at a job holds a token that is at most the row's, and it decides
\* on an instant that has passed.
ClaimsAreRecorded ==
    \A p \in Workers :
        /\ worker[p].at <= clock
        /\ Busy(p) =>
            /\ worker[p].job \in Jobs
            /\ worker[p].token <= jobs[worker[p].job].token
            /\ jobs[worker[p].job].status # "absent"

\* What an admission has read stays true until it inserts: it holds the lock,
\* and the workers only settle jobs.
AdmissionsStayTrue ==
    \A c \in Clients : admission[c].job # NoJob =>
        /\ \A d \in Clients : admission[d].job # NoJob => d = c
        /\ ~admission[c].known => jobs[admission[c].job].status = "absent"
        /\ ~admission[c].full => Cardinality(PendingJobs) < MaxPending

IInv ==
    /\ TypeOK
    /\ RowsAreConsistent
    /\ ClaimsAreRecorded
    /\ AdmissionsStayTrue
    /\ OneHolderPerFence
    /\ PendingBounded

-----------------------------------------------------------------------------
(* What the workers do to a row *)

\* RowsAreConsistent, of one row.
Consistent(row) ==
    /\ row.status = "running" <=> row.lease # NoInstant
    /\ row.status = "running" <=> row.claimedBy # NoWorker
    /\ row.status \in {"absent", "queued"} <=> row.attempt = 0
    /\ row.status = "retry_wait" => ~Exhausted(row)

\* A worker touches pending rows only; it neither removes them nor takes a
\* token back.
RowStep(row, next) ==
    \/ next = row
    \/ /\ row.status \in Pending
       /\ next.status \in Pending \cup Settled
       /\ next.token >= row.token
       /\ Consistent(next)

\* Giving up the claim of a row keeps its attempt, token and instant.
LEMMA UnclaimedRow ==
    ASSUME NEW row \in JobRecord, NEW status \in Pending \cup Settled
    PROVE  /\ Unclaimed(row, status) \in JobRecord
           /\ Unclaimed(row, status).status = status
           /\ Unclaimed(row, status).lease = NoInstant
           /\ Unclaimed(row, status).claimedBy = NoWorker
           /\ Unclaimed(row, status).attempt = row.attempt
           /\ Unclaimed(row, status).token = row.token
  <1>1. Unclaimed(row, status) \in JobRecord
    BY Zenon DEF Unclaimed, JobRecord
  <1>2. QED
    BY <1>1 DEF Unclaimed, JobRecord

\* A diagnosis replaces what a job was asked for.
LEMMA ForgottenRow ==
    ASSUME NEW row \in JobRecord, NEW next \in Instants
    PROVE  LET other == [row EXCEPT !.next = next, !.asked = FALSE] IN
           /\ other \in JobRecord
           /\ other.status = row.status /\ other.lease = row.lease
           /\ other.claimedBy = row.claimedBy /\ other.attempt = row.attempt
           /\ other.token = row.token
  <1> DEFINE other == [row EXCEPT !.next = next, !.asked = FALSE]
  <1>1. other \in JobRecord
    BY Zenon DEF JobRecord
  <1>2. QED
    BY <1>1 DEF JobRecord

\* The sweep fails rows that run under an expired last lease.
LEMMA SweptRow ==
    ASSUME TypeOK, RowsAreConsistent, NEW now \in Instants, NEW j \in Jobs
    PROVE  /\ Swept(now)[j] \in JobRecord
           /\ RowStep(jobs[j], Swept(now)[j])
           /\ Swept(now)[j].token = jobs[j].token
  <1>1. jobs[j] \in JobRecord
    BY DEF TypeOK
  <1>2. CASE ~(Expired(jobs[j], now) /\ Exhausted(jobs[j]))
    BY <1>1, <1>2 DEF Swept, RowStep
  <1>3. CASE Expired(jobs[j], now) /\ Exhausted(jobs[j])
    <2> DEFINE given == Unclaimed(jobs[j], "failed")
               row == [given EXCEPT !.asked = FALSE]
    <2>1. /\ given \in JobRecord /\ given.status = "failed"
          /\ given.lease = NoInstant /\ given.claimedBy = NoWorker
          /\ given.attempt = jobs[j].attempt /\ given.token = jobs[j].token
      <3>1. "failed" \in Pending \cup Settled
        BY DEF Settled
      <3>2. QED
        BY <1>1, <3>1, UnclaimedRow
    <2>2. Swept(now)[j] = row
      BY <1>3 DEF Swept
    <2> HIDE DEF given
    <2>3. row \in JobRecord
      BY <2>1, Zenon DEF JobRecord
    <2>4. /\ row.status = "failed" /\ row.lease = NoInstant
          /\ row.claimedBy = NoWorker /\ row.attempt = jobs[j].attempt
          /\ row.token = jobs[j].token
      BY <2>1, <2>3 DEF JobRecord
    <2> HIDE DEF row
    <2>5. jobs[j].attempt # 0 /\ jobs[j].status = "running"
      BY <1>3, GroundJobsAssumption DEF Exhausted, Expired
    <2>6. Consistent(row)
      BY <2>4, <2>5 DEF Consistent
    <2>7. QED
      BY <1>1, <2>2, <2>3, <2>4, <2>5, <2>6
      DEF RowStep, Pending, Settled, JobRecord
  <1>4. QED
    BY <1>2, <1>3

\* A taken row runs under a new token and one more attempt.
LEMMA LeasedRow ==
    ASSUME TypeOK, RowsAreConsistent, NEW p \in Workers, NEW now \in Instants,
           NEW j \in Jobs, Claimable(jobs[j], now)
    PROVE  /\ Leased(jobs[j], p, now) \in JobRecord
           /\ RowStep(jobs[j], Leased(jobs[j], p, now))
           /\ Leased(jobs[j], p, now).token = jobs[j].token + 1
           /\ Leased(jobs[j], p, now).status = "running"
  <1> DEFINE row == Leased(jobs[j], p, now)
  <1>1. jobs[j] \in JobRecord /\ jobs[j].status \in Pending
    BY DEF TypeOK, Claimable, Expired, Pending
  <1>2. jobs[j].attempt < MaxAttempts
    BY <1>1, GroundJobsAssumption
    DEF Claimable, Expired, Exhausted, RowsAreConsistent, JobRecord
  <1>3. Later(now + Lease) \in Instants /\ Later(now + Lease) # NoInstant
    BY LaterIsInstant, GroundJobsAssumption DEF Instants
  <1>4. /\ jobs[j].attempt + 1 \in 0..MaxAttempts /\ jobs[j].attempt + 1 # 0
        /\ jobs[j].token \in Nat /\ jobs[j].token + 1 \in Nat
    BY <1>1, <1>2, GroundJobsAssumption DEF JobRecord
  <1>5. "running" \in {"absent"} \cup Pending \cup Settled
    BY DEF Pending
  <1>6. row \in JobRecord
    BY <1>1, <1>3, <1>4, <1>5, Zenon DEF Leased, JobRecord
  <1>7. /\ row.status = "running" /\ row.lease # NoInstant /\ row.claimedBy = p
        /\ row.attempt = jobs[j].attempt + 1 /\ row.token = jobs[j].token + 1
    BY <1>1, <1>3, <1>6 DEF Leased, JobRecord
  <1> HIDE DEF row
  <1>8. Consistent(row)
    BY <1>4, <1>7, GroundJobsAssumption DEF Consistent
  <1>9. QED
    BY <1>1, <1>4, <1>6, <1>7, <1>8 DEF RowStep, Pending, row

\* A running row that is given up is settled, or waits with an attempt left.
LEMMA GivenUpRow ==
    ASSUME TypeOK, RowsAreConsistent, NEW j \in Jobs, jobs[j].status = "running",
           NEW row \in JobRecord,
           row.status \in Settled \/ (row.status = "retry_wait" /\ ~Exhausted(jobs[j])),
           row.lease = NoInstant, row.claimedBy = NoWorker,
           row.attempt = jobs[j].attempt, row.token = jobs[j].token
    PROVE  RowStep(jobs[j], row)
  <1>1. jobs[j] \in JobRecord /\ jobs[j].attempt # 0
    BY DEF TypeOK, RowsAreConsistent
  <1>2. Consistent(row)
    BY <1>1 DEF Consistent, Settled, Exhausted
  <1>3. QED
    BY <1>1, <1>2 DEF RowStep, Pending, Settled, JobRecord

\* A job that fails keeps its attempt and its token.
LEMMA FailedRow ==
    ASSUME TypeOK, RowsAreConsistent, NEW j \in Jobs, jobs[j].status = "running",
           NEW retryAt \in Instants
    PROVE  /\ Failed(jobs[j], retryAt) \in JobRecord
           /\ RowStep(jobs[j], Failed(jobs[j], retryAt))
           /\ Failed(jobs[j], retryAt).token = jobs[j].token
  <1> DEFINE status == IF Exhausted(jobs[j]) THEN "failed" ELSE "retry_wait"
             given == Unclaimed(jobs[j], status)
             row == [given EXCEPT !.next = retryAt, !.asked = FALSE]
  <1>1. jobs[j] \in JobRecord /\ status \in Pending \cup Settled
    BY DEF TypeOK, Pending, Settled
  <1>2. /\ given \in JobRecord /\ given.status = status
        /\ given.lease = NoInstant /\ given.claimedBy = NoWorker
        /\ given.attempt = jobs[j].attempt /\ given.token = jobs[j].token
    BY <1>1, UnclaimedRow
  <1>3. Failed(jobs[j], retryAt) = row
    BY DEF Failed
  <1>4. status \in Settled \/ (status = "retry_wait" /\ ~Exhausted(jobs[j]))
    BY DEF Settled
  <1> HIDE DEF given, status
  <1>5. /\ row \in JobRecord /\ row.status = status
        /\ row.lease = NoInstant /\ row.claimedBy = NoWorker
        /\ row.attempt = jobs[j].attempt /\ row.token = jobs[j].token
    BY <1>2, ForgottenRow
  <1> HIDE DEF row
  <1>6. QED
    BY <1>3, <1>4, <1>5, GivenUpRow

\* A renewal moves the lease of a running row and nothing else.
LEMMA RenewedRow ==
    ASSUME TypeOK, RowsAreConsistent, NEW j \in Jobs, jobs[j].status = "running",
           NEW lease \in Instants
    PROVE  LET row == [jobs[j] EXCEPT !.lease = lease] IN
           /\ row \in JobRecord
           /\ RowStep(jobs[j], row)
           /\ row.token = jobs[j].token
  <1> DEFINE row == [jobs[j] EXCEPT !.lease = lease]
  <1>1. jobs[j] \in JobRecord /\ lease # NoInstant
    BY GroundJobsAssumption DEF TypeOK, Instants
  <1>2. row \in JobRecord
    BY <1>1, Zenon DEF JobRecord
  <1>3. /\ row.status = "running" /\ row.lease # NoInstant
        /\ row.claimedBy = jobs[j].claimedBy /\ row.token = jobs[j].token
        /\ row.attempt = jobs[j].attempt
    BY <1>1, <1>2 DEF JobRecord
  <1> HIDE DEF row
  <1>4. Consistent(row)
    BY <1>3 DEF Consistent, RowsAreConsistent
  <1>5. QED
    BY <1>1, <1>2, <1>3, <1>4 DEF RowStep, Pending, JobRecord, row

-----------------------------------------------------------------------------
(* What a step does to the table and to a worker *)

\* The pending jobs are finitely many, whichever they are.
LEMMA PendingIsFinite ==
    /\ IsFiniteSet(PendingJobs) /\ Cardinality(PendingJobs) \in Nat
    /\ IsFiniteSet(PendingJobs') /\ Cardinality(PendingJobs') \in Nat
  <1>1. PendingJobs \subseteq Jobs /\ PendingJobs' \subseteq Jobs
    BY DEF PendingJobs
  <1>2. IsFiniteSet(Jobs)
    BY GroundJobsAssumption
  <1>3. QED
    BY <1>1, <1>2, FS_Subset, FS_CardinalityType

\* While the workers step, no job gets pending or goes absent: whatever an
\* admission has read stays true.
LEMMA TableKeeps ==
    ASSUME IInv, jobs' \in [Jobs -> JobRecord],
           \A j \in Jobs : RowStep(jobs[j], jobs'[j])
    PROVE  /\ RowsAreConsistent'
           /\ PendingBounded'
           /\ admission' = admission => AdmissionsStayTrue'
           /\ \A j \in Jobs : /\ jobs'[j].token >= jobs[j].token
                              /\ jobs'[j].status = "absent" <=> jobs[j].status = "absent"
  <1>1. \A j \in Jobs : jobs[j] \in JobRecord /\ jobs[j].token \in Nat
    BY DEF IInv, TypeOK, JobRecord
  <1>2. RowsAreConsistent'
    <2>1. ASSUME NEW j \in Jobs PROVE Consistent(jobs'[j])
      BY DEF RowStep, IInv, RowsAreConsistent, Consistent
    <2>2. QED
      BY <2>1 DEF RowsAreConsistent, Consistent, Exhausted
  <1>3. Cardinality(PendingJobs') <= Cardinality(PendingJobs)
    <2>1. PendingJobs' \subseteq PendingJobs
      BY DEF PendingJobs, RowStep
    <2>2. QED
      BY <2>1, PendingIsFinite, FS_Subset
  <1>4. \A j \in Jobs : /\ jobs'[j].token >= jobs[j].token
                        /\ jobs'[j].status = "absent" <=> jobs[j].status = "absent"
    BY <1>1 DEF RowStep, Pending, Settled
  <1>5. PendingBounded'
    BY <1>3, PendingIsFinite, GroundJobsAssumption DEF IInv, PendingBounded
  <1>6. admission' = admission => AdmissionsStayTrue'
    <2> SUFFICES ASSUME admission' = admission PROVE AdmissionsStayTrue'
      OBVIOUS
    <2>1. ASSUME NEW c \in Clients, admission[c].job # NoJob
          PROVE  admission[c].job \in Jobs
      BY <2>1 DEF IInv, TypeOK, Admission
    <2>2. QED
      BY <1>3, <1>4, <2>1, PendingIsFinite, GroundJobsAssumption
      DEF IInv, AdmissionsStayTrue
  <1>7. QED
    BY <1>2, <1>4, <1>5, <1>6, Zenon

\* A worker that goes on with the job it has, or holds none afterwards.
LEMMA WorkerGoesOn ==
    ASSUME IInv, NEW p \in Workers, NEW w \in WorkerState,
           worker' = [worker EXCEPT ![p] = w],
           w.at <= clock,
           w.pc \in {"working", "completing", "failing"} =>
               Busy(p) /\ w.job = worker[p].job /\ w.token = worker[p].token,
           jobs' \in [Jobs -> JobRecord],
           \A j \in Jobs : RowStep(jobs[j], jobs'[j]),
           UNCHANGED <<clock, admission>>
    PROVE  IInv'
  <1>1. TypeOK'
    BY DEF IInv, TypeOK
  <1>2. RowsAreConsistent' /\ PendingBounded' /\ AdmissionsStayTrue'
    BY TableKeeps
  <1>3. \A j \in Jobs : /\ jobs'[j].token >= jobs[j].token
                        /\ jobs'[j].status = "absent" <=> jobs[j].status = "absent"
    BY TableKeeps
  <1>4. \A q \in Workers : worker'[q] = IF q = p THEN w ELSE worker[q]
    BY DEF IInv, TypeOK
  <1>5. ASSUME NEW q \in Workers, Busy(q)'
        PROVE  Busy(q) /\ worker'[q].job = worker[q].job
                       /\ worker'[q].token = worker[q].token
    BY <1>4, <1>5 DEF Busy
  <1>6. ClaimsAreRecorded'
    <2>1. \A q \in Workers : worker'[q].at <= clock'
      BY <1>4 DEF IInv, ClaimsAreRecorded
    <2>2. ASSUME NEW q \in Workers, Busy(q)'
          PROVE  /\ worker'[q].job \in Jobs
                 /\ worker'[q].token <= jobs'[worker'[q].job].token
                 /\ jobs'[worker'[q].job].status # "absent"
      <3>1. /\ worker[q].job \in Jobs
            /\ worker[q].token <= jobs[worker[q].job].token
            /\ jobs[worker[q].job].status # "absent"
        BY <1>5, <2>2 DEF IInv, ClaimsAreRecorded
      <3>2. /\ worker[q].token \in Nat
            /\ jobs[worker[q].job].token \in Nat
            /\ jobs'[worker[q].job].token \in Nat
        BY <3>1 DEF IInv, TypeOK, WorkerState, JobRecord
      <3>3. QED
        <4>1. /\ worker'[q].job = worker[q].job
              /\ worker'[q].token = worker[q].token
          BY <1>5, <2>2
        <4>2. /\ jobs'[worker[q].job].token >= jobs[worker[q].job].token
              /\ jobs'[worker[q].job].status # "absent"
          BY <1>3, <3>1, Zenon
        <4>3. QED
          BY <3>1, <3>2, <4>1, <4>2
    <2>3. QED
      BY <2>1, <2>2 DEF ClaimsAreRecorded
  <1>7. OneHolderPerFence'
    BY <1>5 DEF IInv, OneHolderPerFence
  <1>8. QED
    BY <1>1, <1>2, <1>6, <1>7 DEF IInv

\* A worker at the start of its loop, or down, holds nothing.
LEMMA FreshWorker ==
    ASSUME NEW pc \in {"down", "idle", "working"}
    PROVE  At(pc) \in WorkerState /\ At(pc).pc = pc /\ At(pc).at = 0
  <1>1. 0 \in Instants /\ 0 \in Nat
    BY GroundJobsAssumption DEF Instants
  <1>2. QED
    BY <1>1 DEF At, WorkerState

\* The table may stay as it is.
LEMMA WorkerAlone ==
    ASSUME IInv, NEW p \in Workers, NEW w \in WorkerState,
           worker' = [worker EXCEPT ![p] = w],
           w.at <= clock,
           w.pc \in {"working", "completing", "failing"} =>
               Busy(p) /\ w.job = worker[p].job /\ w.token = worker[p].token,
           UNCHANGED <<clock, jobs, admission>>
    PROVE  IInv'
  <1>1. jobs' \in [Jobs -> JobRecord] /\ \A j \in Jobs : RowStep(jobs[j], jobs'[j])
    BY DEF IInv, TypeOK, RowStep
  <1>2. QED
    BY <1>1, WorkerGoesOn

-----------------------------------------------------------------------------
(* The invariant is inductive *)

\* The empty table, no admission and idle workers satisfy the invariant.
LEMMA InitEstablishes == Init => IInv
  <1> SUFFICES ASSUME Init PROVE IInv
    OBVIOUS
  <1>1. 0 \in Instants /\ 0 \in Nat /\ 0 \in 0..MaxAttempts
    BY GroundJobsAssumption DEF Instants
  <1>2. ASSUME NEW j \in Jobs
        PROVE  /\ jobs[j] \in JobRecord
               /\ jobs[j].status = "absent" /\ jobs[j].lease = NoInstant
               /\ jobs[j].claimedBy = NoWorker /\ jobs[j].attempt = 0
    BY <1>1 DEF Init, NewJob, JobRecord
  <1>3. TypeOK
    BY <1>1, <1>2, FreshWorker DEF Init, TypeOK, Admission, NoAdmission
  <1>4. RowsAreConsistent
    BY <1>2 DEF RowsAreConsistent
  <1>5. ClaimsAreRecorded /\ OneHolderPerFence
    BY FreshWorker DEF Init, ClaimsAreRecorded, OneHolderPerFence, Busy
  <1>6. AdmissionsStayTrue
    BY DEF Init, AdmissionsStayTrue, NoAdmission
  <1>7. PendingBounded
    <2>1. PendingJobs = {}
      BY <1>2 DEF PendingJobs, Pending
    <2>2. QED
      BY <2>1, FS_EmptySet, GroundJobsAssumption DEF PendingBounded
  <1>8. QED
    BY <1>3, <1>4, <1>5, <1>6, <1>7 DEF IInv

\* Instants read before stay in the past.
LEMMA TickKeeps == ASSUME IInv, Tick PROVE IInv'
  <1>1. clock' \in Instants /\ clock <= clock' /\ clock \in Nat
    BY GroundJobsAssumption DEF IInv, TypeOK, Tick, Instants
  <1>2. \A p \in Workers : worker[p].at \in Nat
    BY GroundJobsAssumption DEF IInv, TypeOK, WorkerState, Instants
  <1>3. ClaimsAreRecorded'
    BY <1>1, <1>2 DEF IInv, Tick, ClaimsAreRecorded, Busy
  <1>4. PendingJobs' = PendingJobs
    BY DEF Tick, PendingJobs
  <1>5. QED
    BY <1>1, <1>3, <1>4
    DEF IInv, Tick, TypeOK, RowsAreConsistent, AdmissionsStayTrue,
        OneHolderPerFence, Busy, PendingBounded

\* What an admission reads is true when it reads it, and nobody else holds
\* the lock.
LEMMA AdmitKeeps ==
    ASSUME IInv, NEW c \in Clients, NEW j \in Jobs, Admit(c, j) PROVE IInv'
  <1> DEFINE known == jobs[j].status # "absent"
             full == Cardinality(PendingJobs) >= MaxPending
  <1>1. PendingJobs' = PendingJobs
    BY DEF Admit, PendingJobs
  <1>2. /\ known \in BOOLEAN /\ full \in BOOLEAN
        /\ ~known => jobs[j].status = "absent"
        /\ ~full => Cardinality(PendingJobs) < MaxPending
    BY PendingIsFinite, GroundJobsAssumption
  <1>3. admission' = [admission EXCEPT ![c] =
            [job |-> j, at |-> clock, known |-> known, full |-> full]]
    BY DEF Admit
  <1> HIDE DEF known, full
  <1>4. /\ admission'[c] = [job |-> j, at |-> clock, known |-> known, full |-> full]
        /\ \A d \in Clients : d # c => admission'[d].job = NoJob
    BY <1>3 DEF Admit, IInv, TypeOK, LockIsFree
  <1>5. TypeOK'
    <2>1. clock \in Instants /\ j \in Jobs \cup {NoJob}
      BY DEF IInv, TypeOK
    <2>2. admission'[c] \in Admission
      <3>1. [job |-> j, at |-> clock, known |-> known, full |-> full] \in Admission
        BY <1>2, <2>1, Zenon DEF Admission
      <3>2. QED
        BY <1>4, <3>1, Zenon
    <2>3. QED
      BY <1>3, <1>4, <2>2 DEF Admit, IInv, TypeOK
  <1>6. AdmissionsStayTrue'
    <2>1. jobs' = jobs
      BY DEF Admit
    <2>2. /\ admission'[c].job = j /\ admission'[c].known = known
          /\ admission'[c].full = full
      <3> DEFINE mine == [job |-> j, at |-> clock, known |-> known, full |-> full]
      <3>1. mine.job = j /\ mine.known = known /\ mine.full = full
        BY Zenon
      <3>2. QED
        BY <1>4, <3>1, Zenon
    <2>3. ASSUME NEW d \in Clients, admission'[d].job # NoJob PROVE d = c
      BY <1>4, <2>3
    <2>4. QED
      BY <1>1, <1>2, <2>1, <2>2, <2>3, Zenon DEF AdmissionsStayTrue
  <1>7. QED
    BY <1>1, <1>5, <1>6
    DEF Admit, IInv, RowsAreConsistent, ClaimsAreRecorded, OneHolderPerFence,
        Busy, PendingBounded

\* An insert adds a row no worker can hold, where there is still room for it.
LEMMA InsertKeeps ==
    ASSUME IInv, NEW c \in Clients, admission[c].job # NoJob,
           ~admission[c].known, ~admission[c].full,
           jobs' = [jobs EXCEPT ![admission[c].job] = NewJob(admission[c].at)],
           admission' = [admission EXCEPT ![c] = NoAdmission],
           UNCHANGED <<clock, worker>>
    PROVE  IInv'
  <1> DEFINE j == admission[c].job
             row == NewJob(admission[c].at)
  <1>1. /\ j \in Jobs /\ jobs[j].status = "absent"
        /\ Cardinality(PendingJobs) < MaxPending
    BY DEF IInv, TypeOK, Admission, AdmissionsStayTrue
  <1>2. /\ row \in JobRecord /\ row.status = "queued" /\ row.attempt = 0
        /\ row.lease = NoInstant /\ row.claimedBy = NoWorker
    BY GroundJobsAssumption
    DEF NewJob, JobRecord, Pending, IInv, TypeOK, Admission
  <1> HIDE DEF row
  <1>3. /\ jobs'[j] = row
        /\ \A k \in Jobs : k # j => jobs'[k] = jobs[k]
        /\ jobs' \in [Jobs -> JobRecord]
    BY <1>1, <1>2 DEF IInv, TypeOK, row
  <1>4. TypeOK'
    <2>1. NoAdmission \in Admission
      BY GroundJobsAssumption DEF NoAdmission, Admission, Instants
    <2>2. QED
      BY <1>3, <2>1 DEF IInv, TypeOK
  <1>5. RowsAreConsistent'
    BY <1>2, <1>3 DEF IInv, RowsAreConsistent, Exhausted
  <1>6. ClaimsAreRecorded'
    <2>1. ASSUME NEW p \in Workers, Busy(p)
          PROVE  worker[p].job \in Jobs /\ worker[p].job # j
      BY <1>1, <2>1 DEF IInv, ClaimsAreRecorded
    <2>2. QED
      BY <1>3, <2>1 DEF IInv, ClaimsAreRecorded, Busy
  <1>7. AdmissionsStayTrue'
    <2>1. \A d \in Clients : admission'[d].job = NoJob
      BY DEF IInv, TypeOK, AdmissionsStayTrue, NoAdmission
    <2>2. QED
      BY <2>1 DEF AdmissionsStayTrue
  <1>8. PendingBounded'
    <2>1. PendingJobs' \subseteq PendingJobs \cup {j}
      BY <1>3 DEF PendingJobs
    <2>2. /\ IsFiniteSet(PendingJobs \cup {j})
          /\ Cardinality(PendingJobs \cup {j}) <= Cardinality(PendingJobs) + 1
      <3>1. /\ IsFiniteSet(PendingJobs \cup {j})
            /\ Cardinality(PendingJobs \cup {j}) =
                 IF j \in PendingJobs THEN Cardinality(PendingJobs)
                 ELSE Cardinality(PendingJobs) + 1
        BY PendingIsFinite, FS_AddElement, Zenon
      <3>2. QED
        BY <3>1, PendingIsFinite
    <2>3. Cardinality(PendingJobs') <= Cardinality(PendingJobs \cup {j})
      BY <2>1, <2>2, FS_Subset
    <2>4. Cardinality(PendingJobs \cup {j}) \in Nat
      BY <2>2, FS_CardinalityType
    <2>5. QED
      BY <1>1, <2>2, <2>3, <2>4, PendingIsFinite, GroundJobsAssumption
      DEF PendingBounded
  <1>9. OneHolderPerFence'
    BY DEF IInv, OneHolderPerFence, Busy
  <1>10. QED
    BY <1>4, <1>5, <1>6, <1>7, <1>8, <1>9 DEF IInv

\* An admission that inserts nothing only gives the lock back.
LEMMA ReleaseKeeps ==
    ASSUME IInv, NEW c \in Clients,
           admission' = [admission EXCEPT ![c] = NoAdmission],
           UNCHANGED <<clock, jobs, worker>>
    PROVE  IInv'
  <1>1. PendingJobs' = PendingJobs
    BY DEF PendingJobs
  <1>2. TypeOK'
    <2>1. NoAdmission \in Admission
      BY GroundJobsAssumption DEF NoAdmission, Admission, Instants
    <2>2. QED
      BY <2>1 DEF IInv, TypeOK
  <1>3. AdmissionsStayTrue'
    <2>1. \A d \in Clients :
            admission'[d].job # NoJob => d # c /\ admission'[d] = admission[d]
      BY DEF IInv, TypeOK, NoAdmission
    <2>2. QED
      BY <1>1, <2>1 DEF IInv, AdmissionsStayTrue
  <1>4. QED
    BY <1>1, <1>2, <1>3
    DEF IInv, RowsAreConsistent, ClaimsAreRecorded, OneHolderPerFence, Busy,
        PendingBounded

\* An admission ends with an insert, or with nothing but the lock's release.
LEMMA EndAdmissionKeeps ==
    ASSUME IInv, NEW c \in Clients, EndAdmission(c) \/ AbandonAdmission(c)
    PROVE  IInv'
  <1>1. CASE EndAdmission(c) /\ ~admission[c].known /\ ~admission[c].full
    BY <1>1, InsertKeeps DEF EndAdmission
  <1>2. CASE EndAdmission(c) /\ (admission[c].known \/ admission[c].full)
    BY <1>2, ReleaseKeeps DEF EndAdmission
  <1>3. CASE AbandonAdmission(c)
    BY <1>3, ReleaseKeeps DEF AbandonAdmission
  <1>4. QED
    BY <1>1, <1>2, <1>3

\* What a worker holds has the right types.
LEMMA WorkerTyped ==
    ASSUME IInv, NEW p \in Workers
    PROVE  /\ worker[p] \in WorkerState
           /\ worker[p].at \in Instants /\ worker[p].at <= clock
           /\ clock \in Instants /\ clock \in Nat
           /\ 0 <= clock
  BY GroundJobsAssumption DEF IInv, TypeOK, WorkerState, ClaimsAreRecorded, Instants

\* Reading a clock, and going on without touching the table.
LEMMA WorkerAloneKeeps ==
    ASSUME IInv, NEW p \in Workers,
           \/ ReadClock(p) \/ BeginRenewal(p) \/ LeaseLost(p)
           \/ Prepared(p) \/ PreparationRaises(p) \/ CompletionRaises(p)
    PROVE  IInv'
  <1> DEFINE w == worker'[p]
  <1>1. worker[p] \in WorkerState /\ clock \in Instants
        /\ worker[p].at <= clock /\ clock <= clock
    BY WorkerTyped
  <1>2. /\ w \in WorkerState /\ w.at <= clock
        /\ worker' = [worker EXCEPT ![p] = w]
        /\ w.pc \in {"working", "completing", "failing"} =>
               Busy(p) /\ w.job = worker[p].job /\ w.token = worker[p].token
    <2>1. CASE ReadClock(p)
      BY <1>1, <2>1 DEF ReadClock, IInv, TypeOK, WorkerState
    <2>2. CASE BeginRenewal(p)
      BY <1>1, <2>2 DEF BeginRenewal, IInv, TypeOK, WorkerState, Busy
    <2>3. CASE LeaseLost(p) \/ PreparationRaises(p) \/ CompletionRaises(p)
      <3>1. Raises(p) /\ Busy(p)
        BY <2>3 DEF LeaseLost, PreparationRaises, CompletionRaises, Busy
      <3>2. QED
        BY <1>1, <3>1 DEF Raises, IInv, TypeOK, WorkerState
    <2>4. CASE Prepared(p)
      BY <1>1, <2>4 DEF Prepared, Goto, IInv, TypeOK, WorkerState, Busy
    <2>5. QED
      BY <2>1, <2>2, <2>3, <2>4
  <1>3. UNCHANGED <<clock, jobs, admission>>
    BY DEF ReadClock, BeginRenewal, LeaseLost, Prepared, PreparationRaises,
           CompletionRaises
  <1> HIDE DEF w
  <1>4. QED
    BY <1>2, <1>3, WorkerAlone

\* A worker that finds nothing, is refused, dies or starts holds nothing.
LEMMA StopKeeps ==
    ASSUME IInv, NEW p \in Workers,
           TakeNothing(p) \/ FailRefused(p) \/ Crash(p) \/ Restart(p)
    PROVE  IInv'
  <1>1. PICK pc \in {"down", "idle"} : worker' = [worker EXCEPT ![p] = At(pc)]
    BY DEF TakeNothing, FailRefused, Crash, Restart
  <1>2. At(pc) \in WorkerState /\ At(pc).pc = pc /\ At(pc).at <= clock
    BY FreshWorker, WorkerTyped
  <1>3. UNCHANGED <<clock, jobs, admission>>
    BY DEF TakeNothing, FailRefused, Crash, Restart
  <1>4. At(pc).pc \notin {"working", "completing", "failing"}
    BY <1>2
  <1>5. QED
    BY <1>1, <1>2, <1>3, <1>4, WorkerAlone

\* The sweep settles jobs; the snapshot is only remembered.
LEMMA BeginClaimKeeps == ASSUME IInv, NEW p \in Workers, BeginClaim(p) PROVE IInv'
  <1> DEFINE w == worker'[p]
             now == worker[p].at
  <1>1. worker[p] \in WorkerState /\ now \in Instants /\ now <= clock
    BY WorkerTyped
  <1>2. jobs' = Swept(now)
    BY DEF BeginClaim
  <1>3. /\ jobs' \in [Jobs -> JobRecord]
        /\ \A j \in Jobs : RowStep(jobs[j], jobs'[j])
    <2>1. Swept(now) = [j \in Jobs |-> Swept(now)[j]]
      BY DEF Swept
    <2>2. \A j \in Jobs : /\ Swept(now)[j] \in JobRecord
                          /\ RowStep(jobs[j], Swept(now)[j])
      BY <1>1, SweptRow DEF IInv
    <2>3. QED
      BY <1>2, <2>1, <2>2
  <1>4. /\ w \in WorkerState /\ w.pc = "choosing" /\ w.at = now
        /\ worker' = [worker EXCEPT ![p] = w]
    <2>1. Candidates(jobs', now) \in SUBSET Jobs
      BY DEF Candidates
    <2> DEFINE seen == Candidates(jobs', now)
    <2>2. worker' = [worker EXCEPT ![p] = [@ EXCEPT !.pc = "choosing", !.seen = seen]]
      BY DEF BeginClaim
    <2> HIDE DEF seen
    <2>3. seen \in SUBSET Jobs
      BY <2>1 DEF seen
    <2>4. QED
      BY <1>1, <2>2, <2>3 DEF IInv, TypeOK, WorkerState
  <1>5. UNCHANGED <<clock, admission>>
    BY DEF BeginClaim
  <1>6. w.pc \notin {"working", "completing", "failing"}
    BY <1>4
  <1> HIDE DEF w
  <1>7. QED
    BY <1>1, <1>3, <1>4, <1>5, <1>6, WorkerGoesOn

\* A taken job gets a token above every token handed out for it.
LEMMA TakeKeeps ==
    ASSUME IInv, NEW p \in Workers, NEW j \in Jobs, Take(p, j) PROVE IInv'
  <1> DEFINE now == worker[p].at
             row == Leased(jobs[j], p, now)
  <1>1. worker[p] \in WorkerState /\ now \in Instants /\ 0 <= clock
    BY WorkerTyped
  <1>2. /\ jobs[j] \in JobRecord /\ jobs[j].token \in Nat
        /\ Claimable(jobs[j], now)
    BY DEF IInv, TypeOK, JobRecord, Take
  <1>3. /\ row \in JobRecord /\ RowStep(jobs[j], row)
        /\ row.token = jobs[j].token + 1 /\ row.status = "running"
    BY <1>1, <1>2, LeasedRow DEF IInv
  <1>4. /\ jobs' = [jobs EXCEPT ![j] = row]
        /\ worker' = [worker EXCEPT ![p] =
                [At("working") EXCEPT !.job = j, !.token = row.token]]
        /\ UNCHANGED <<clock, admission>>
    BY DEF Take
  <1> HIDE DEF row
  <1>5. /\ jobs' \in [Jobs -> JobRecord] /\ jobs'[j] = row
        /\ \A k \in Jobs : k # j => jobs'[k] = jobs[k]
        /\ \A k \in Jobs : RowStep(jobs[k], jobs'[k])
    BY <1>3, <1>4 DEF IInv, TypeOK, RowStep
  <1>6. RowsAreConsistent' /\ PendingBounded' /\ AdmissionsStayTrue'
    BY <1>4, <1>5, TableKeeps
  <1>7. /\ worker'[p] \in WorkerState
        /\ worker'[p].pc = "working" /\ worker'[p].at = 0
        /\ worker'[p].job = j /\ worker'[p].token = row.token
        /\ \A q \in Workers : q # p => worker'[q] = worker[q]
    <2>1. At("working") \in WorkerState /\ At("working").pc = "working"
          /\ At("working").at = 0
      BY FreshWorker
    <2>2. row.token \in Nat
      BY <1>2, <1>3
    <2>3. QED
      BY <1>4, <2>1, <2>2 DEF IInv, TypeOK, WorkerState
  <1>8. TypeOK'
    BY <1>4, <1>5, <1>7 DEF IInv, TypeOK
  <1>9. \A q \in Workers : q # p => (Busy(q)' <=> Busy(q))
    BY <1>7 DEF Busy
  <1>10. ASSUME NEW q \in Workers, Busy(q)
         PROVE  /\ worker[q].job \in Jobs
                /\ worker[q].token <= jobs[worker[q].job].token
                /\ jobs[worker[q].job].status # "absent"
                /\ worker[q].token \in Nat
    BY <1>10 DEF IInv, ClaimsAreRecorded, TypeOK, WorkerState
  <1>11. ClaimsAreRecorded'
    <2>1. \A q \in Workers : worker'[q].at <= clock'
      BY <1>1, <1>4, <1>7 DEF IInv, ClaimsAreRecorded
    <2>2. ASSUME NEW q \in Workers, Busy(q)'
          PROVE  /\ worker'[q].job \in Jobs
                 /\ worker'[q].token <= jobs'[worker'[q].job].token
                 /\ jobs'[worker'[q].job].status # "absent"
      <3>1. CASE q = p
        BY <1>2, <1>3, <1>5, <1>7, <3>1
      <3>2. CASE q # p
        <4>1. Busy(q) /\ worker'[q] = worker[q]
          BY <1>7, <1>9, <2>2, <3>2
        <4>2. CASE worker[q].job = j
          BY <1>2, <1>3, <1>5, <1>10, <4>1, <4>2
        <4>3. CASE worker[q].job # j
          BY <1>5, <1>10, <4>1, <4>3
        <4>4. QED
          BY <4>2, <4>3
      <3>3. QED
        BY <3>1, <3>2
    <2>3. QED
      BY <2>1, <2>2 DEF ClaimsAreRecorded
  <1>12. OneHolderPerFence'
    <2>1. \A q \in Workers :
            Busy(q) /\ worker[q].job = j => worker[q].token # row.token
      BY <1>2, <1>3, <1>10
    <2>2. QED
      BY <1>7, <1>9, <2>1 DEF IInv, OneHolderPerFence
  <1>13. QED
    BY <1>6, <1>8, <1>11, <1>12 DEF IInv

\* What a worker under its fence writes into the row of its job.
LEMMA RowIsWritten ==
    ASSUME IInv, NEW j \in Jobs, NEW row \in JobRecord,
           jobs' = [jobs EXCEPT ![j] = row], RowStep(jobs[j], row)
    PROVE  /\ jobs' \in [Jobs -> JobRecord]
           /\ \A k \in Jobs : RowStep(jobs[k], jobs'[k])
  BY DEF IInv, TypeOK, RowStep

\* A renewal, under the fence of the claim.
LEMMA RenewKeeps == ASSUME IInv, NEW p \in Workers, Renew(p) PROVE IInv'
  <1> DEFINE j == worker[p].job
             lease == Later(worker[p].renewal + Lease)
             row == [jobs[j] EXCEPT !.lease = lease]
             w == worker'[p]
  <1>1. /\ worker[p] \in WorkerState /\ worker[p].at <= clock
        /\ Busy(p) /\ j \in Jobs /\ jobs[j].status = "running"
    BY WorkerTyped DEF Renew, FenceMatches, Busy, IInv, ClaimsAreRecorded
  <1>2. lease \in Instants
    <2>1. worker[p].renewal + Lease \in Nat
      BY <1>1, GroundJobsAssumption DEF Renew, WorkerState, Instants
    <2>2. QED
      BY <2>1, LaterIsInstant
  <1>3. jobs' = [jobs EXCEPT ![j] = row]
    BY DEF Renew
  <1>4. row \in JobRecord /\ RowStep(jobs[j], row)
    BY <1>1, <1>2, RenewedRow DEF IInv
  <1> HIDE DEF row
  <1>5. /\ jobs' \in [Jobs -> JobRecord]
        /\ \A k \in Jobs : RowStep(jobs[k], jobs'[k])
    BY <1>1, <1>3, <1>4, RowIsWritten
  <1>6. /\ w \in WorkerState /\ w.at = worker[p].at /\ w.job = j
        /\ w.token = worker[p].token
        /\ worker' = [worker EXCEPT ![p] = w]
    BY <1>1 DEF Renew, IInv, TypeOK, WorkerState
  <1>7. UNCHANGED <<clock, admission>>
    BY DEF Renew
  <1> HIDE DEF w
  <1>8. QED
    BY <1>1, <1>5, <1>6, <1>7, WorkerGoesOn

\* A report gives the row up and leaves the worker idle.
LEMMA ReportKeeps ==
    ASSUME IInv, NEW p \in Workers, NEW j \in Jobs, NEW row \in JobRecord,
           jobs' = [jobs EXCEPT ![j] = row], RowStep(jobs[j], row),
           worker' = [worker EXCEPT ![p] = At("idle")],
           UNCHANGED <<clock, admission>>
    PROVE  IInv'
  <1>1. /\ jobs' \in [Jobs -> JobRecord]
        /\ \A k \in Jobs : RowStep(jobs[k], jobs'[k])
    BY RowIsWritten
  <1>2. At("idle") \in WorkerState /\ At("idle").pc = "idle" /\ At("idle").at <= clock
    BY FreshWorker, WorkerTyped
  <1>3. At("idle").pc \notin {"working", "completing", "failing"}
    BY <1>2
  <1>4. QED
    BY <1>1, <1>2, <1>3, WorkerGoesOn

\* A completion is accepted only from the last claim of a running job.
LEMMA CompleteKeeps == ASSUME IInv, NEW p \in Workers, Complete(p) PROVE IInv'
  <1> DEFINE j == worker[p].job
             row == Unclaimed(jobs[j], "succeeded")
  <1>1. j \in Jobs /\ jobs[j] \in JobRecord /\ jobs[j].status = "running"
    BY DEF Complete, FenceMatches, Busy, IInv, TypeOK, ClaimsAreRecorded
  <1>2. jobs' = [jobs EXCEPT ![j] = row]
    BY DEF Complete
  <1>3. "succeeded" \in Pending \cup Settled /\ "succeeded" \in Settled
    BY DEF Settled
  <1>4. /\ row \in JobRecord /\ row.status = "succeeded"
        /\ row.lease = NoInstant /\ row.claimedBy = NoWorker
        /\ row.attempt = jobs[j].attempt /\ row.token = jobs[j].token
    BY <1>1, <1>3, UnclaimedRow
  <1> HIDE DEF row
  <1>5. RowStep(jobs[j], row)
    BY <1>1, <1>3, <1>4, GivenUpRow DEF IInv
  <1>6. QED
    BY <1>1, <1>2, <1>4, <1>5, ReportKeeps DEF Complete

\* What a failure writes into the row of its job.
LEMMA FailWrites ==
    ASSUME IInv, NEW p \in Workers, Fail(p)
    PROVE  /\ worker[p].job \in Jobs
           /\ jobs[worker[p].job].status = "running"
           /\ \E retryAt \in Instants :
                jobs' = [jobs EXCEPT ![worker[p].job] =
                            Failed(jobs[worker[p].job], retryAt)]
  <1> DEFINE j == worker[p].job
  <1>1. j \in Jobs /\ jobs[j].status = "running" /\ worker[p].at \in Instants
    BY WorkerTyped DEF Fail, FenceMatches, Busy, IInv, ClaimsAreRecorded
  <1>2. PICK delay \in {RetryDelay(jobs[j].attempt)} \cup QuotaDelays :
            jobs' = [jobs EXCEPT ![j] =
                Failed(@, IF Exhausted(@) THEN worker[p].at
                          ELSE Later(worker[p].at + delay))]
    BY DEF Fail
  <1> DEFINE retryAt == IF Exhausted(jobs[j]) THEN worker[p].at
                        ELSE Later(worker[p].at + delay)
  <1>3. retryAt \in Instants
    <2>1. delay \in Nat
      BY DelayIsNatural, GroundJobsAssumption
    <2>2. worker[p].at + delay \in Nat
      BY <1>1, <2>1, GroundJobsAssumption DEF Instants
    <2>3. QED
      BY <1>1, <2>2, LaterIsInstant
  <1>4. jobs' = [jobs EXCEPT ![j] = Failed(jobs[j], retryAt)]
    BY <1>2
  <1>5. QED
    BY <1>1, <1>3, <1>4, Zenon

\* A failure under the last token parks the job or settles it.
LEMMA FailKeeps == ASSUME IInv, NEW p \in Workers, Fail(p) PROVE IInv'
  <1> DEFINE j == worker[p].job
  <1>1. j \in Jobs /\ jobs[j].status = "running"
    BY FailWrites
  <1>2. PICK retryAt \in Instants :
            jobs' = [jobs EXCEPT ![j] = Failed(jobs[j], retryAt)]
    BY FailWrites
  <1> DEFINE row == Failed(jobs[j], retryAt)
  <1>3. row \in JobRecord /\ RowStep(jobs[j], row)
    BY <1>1, FailedRow DEF IInv
  <1> HIDE DEF row
  <1>4. jobs' = [jobs EXCEPT ![j] = row]
    BY <1>2 DEF row
  <1>5. QED
    BY <1>1, <1>3, <1>4, ReportKeeps DEF Fail

\* Every step preserves the invariant.
LEMMA StepKeeps == IInv /\ [Next]_vars => IInv'
  <1> SUFFICES ASSUME IInv, [Next]_vars PROVE IInv'
    OBVIOUS
  <1>1. CASE Tick
    BY <1>1, TickKeeps
  <1>2. ASSUME NEW c \in Clients, Enqueue(c) PROVE IInv'
    BY <1>2, AdmitKeeps, EndAdmissionKeeps DEF Enqueue
  <1>3. ASSUME NEW p \in Workers, Work(p) PROVE IInv'
    <2>1. CASE \/ ReadClock(p) \/ BeginRenewal(p) \/ LeaseLost(p)
               \/ Prepared(p) \/ PreparationRaises(p) \/ CompletionRaises(p)
      BY <2>1, WorkerAloneKeeps
    <2>2. CASE BeginClaim(p)
      BY <2>2, BeginClaimKeeps
    <2>3. CASE \E j \in Jobs : Take(p, j)
      BY <2>3, TakeKeeps
    <2>4. CASE Renew(p)
      BY <2>4, RenewKeeps
    <2>5. CASE Complete(p)
      BY <2>5, CompleteKeeps
    <2>6. CASE Fail(p)
      BY <2>6, FailKeeps
    <2>7. CASE TakeNothing(p) \/ FailRefused(p) \/ Crash(p) \/ Restart(p)
      BY <2>7, StopKeeps
    <2>8. QED
      BY <1>3, <2>1, <2>2, <2>3, <2>4, <2>5, <2>6, <2>7 DEF Work, Report
  <1>4. CASE UNCHANGED vars
    <2>1. PendingJobs' = PendingJobs
      BY <1>4 DEF vars, PendingJobs
    <2>2. QED
      BY <1>4, <2>1
      DEF vars, IInv, TypeOK, RowsAreConsistent, ClaimsAreRecorded,
          AdmissionsStayTrue, OneHolderPerFence, Busy, PendingBounded
  <1>5. QED
    BY <1>1, <1>2, <1>3, <1>4 DEF Next

\* The invariant holds in every reachable state.
LEMMA Invariance == Spec => []IInv
  BY InitEstablishes, StepKeeps, PTL DEF Spec

-----------------------------------------------------------------------------
(* Safety of the queue *)

\* Type correctness: in particular no crash, renewal or race of claims gives a
\* job more attempts than its limit.
THEOREM TypeCorrect == Spec => []TypeOK
  <1>1. IInv => TypeOK
    BY DEF IInv
  <1>2. QED
    BY <1>1, Invariance, PTL

\* A row is leased exactly while it runs, and a job that waits for a retry has
\* an attempt left.
THEOREM RowsStayConsistent == Spec => []RowsAreConsistent
  <1>1. IInv => RowsAreConsistent
    BY DEF IInv
  <1>2. QED
    BY <1>1, Invariance, PTL

\* Two workers at one job never carry the same fencing token, however many
\* claims had the job in their snapshots.
THEOREM FencesAreUnique == Spec => []OneHolderPerFence
  <1>1. IInv => OneHolderPerFence
    BY DEF IInv
  <1>2. QED
    BY <1>1, Invariance, PTL

\* Any number of clients that admit at once respect the cap.
THEOREM PendingStaysBounded == Spec => []PendingBounded
  <1>1. IInv => PendingBounded
    BY DEF IInv
  <1>2. QED
    BY <1>1, Invariance, PTL

-----------------------------------------------------------------------------
(* What a step may never do *)

\* A row that changes was absent and is inserted, or was pending; it gets a
\* new token only as a candidate that is judged at an instant in the past.
LEMMA RowChanges ==
    ASSUME IInv, Next, NEW j \in Jobs, jobs'[j] # jobs[j]
    PROVE  \/ jobs[j].status = "absent"
           \/ /\ jobs[j].status \in Pending
              /\ \/ jobs'[j].token = jobs[j].token
                 \/ \E now \in Instants : now <= clock /\ Claimable(jobs[j], now)
  <1>1. CASE \E c \in Clients : EndAdmission(c)
    <2>1. PICK c \in Clients : EndAdmission(c)
      BY <1>1
    <2>2. ~admission[c].known /\ jobs' = [jobs EXCEPT ![admission[c].job] =
                                              NewJob(admission[c].at)]
      BY <2>1 DEF EndAdmission
    <2>3. admission[c].job = j
      BY <2>2 DEF IInv, TypeOK
    <2>4. QED
      BY <2>1, <2>2, <2>3 DEF EndAdmission, IInv, AdmissionsStayTrue
  <1>2. ASSUME NEW p \in Workers, BeginClaim(p)
        PROVE  jobs[j].status \in Pending /\ jobs'[j].token = jobs[j].token
    <2>1. worker[p].at \in Instants
      BY WorkerTyped
    <2>2. jobs'[j] = Swept(worker[p].at)[j]
      BY <1>2 DEF BeginClaim
    <2>3. QED
      BY <2>1, <2>2, SweptRow DEF IInv, RowStep
  <1>3. ASSUME NEW p \in Workers, NEW k \in Jobs, Take(p, k)
        PROVE  /\ jobs[j].status \in Pending
               /\ \E now \in Instants : now <= clock /\ Claimable(jobs[j], now)
    <2>1. j = k
      BY <1>3 DEF Take, IInv, TypeOK
    <2>2. worker[p].at \in Instants /\ worker[p].at <= clock
      BY WorkerTyped
    <2>3. QED
      BY <1>3, <2>1, <2>2 DEF Take, Claimable, Expired, Pending
  <1>4. ASSUME NEW p \in Workers, Renew(p)
        PROVE  jobs[j].status \in Pending /\ jobs'[j].token = jobs[j].token
    <2>1. /\ worker[p].job = j /\ jobs[j].status = "running"
          /\ jobs[j] \in JobRecord
          /\ jobs'[j] = [jobs[j] EXCEPT !.lease = Later(worker[p].renewal + Lease)]
      BY <1>4 DEF Renew, FenceMatches, IInv, TypeOK
    <2>2. QED
      BY <2>1 DEF Pending, JobRecord
  <1>5. ASSUME NEW p \in Workers, Complete(p)
        PROVE  jobs[j].status \in Pending /\ jobs'[j].token = jobs[j].token
    <2>1. /\ worker[p].job = j /\ jobs[j].status = "running"
          /\ jobs[j] \in JobRecord
          /\ jobs'[j] = Unclaimed(jobs[j], "succeeded")
      BY <1>5 DEF Complete, FenceMatches, IInv, TypeOK
    <2>2. QED
      BY <2>1, UnclaimedRow DEF Pending, Settled
  <1>6. ASSUME NEW p \in Workers, Fail(p)
        PROVE  jobs[j].status \in Pending /\ jobs'[j].token = jobs[j].token
    <2>1. PICK retryAt \in Instants :
            jobs' = [jobs EXCEPT ![worker[p].job] =
                        Failed(jobs[worker[p].job], retryAt)]
      BY <1>6, FailWrites
    <2>2. worker[p].job \in Jobs /\ jobs[worker[p].job].status = "running"
      BY <1>6, FailWrites
    <2>3. j = worker[p].job /\ jobs'[j] = Failed(jobs[j], retryAt)
      BY <2>1, <2>2 DEF IInv, TypeOK
    <2>4. QED
      BY <2>2, <2>3, FailedRow DEF IInv, Pending
  <1>7. \/ \E c \in Clients : EndAdmission(c)
        \/ \E p \in Workers : BeginClaim(p) \/ Renew(p) \/ Complete(p) \/ Fail(p)
        \/ \E p \in Workers, k \in Jobs : Take(p, k)
    BY DEF Next, Enqueue, Work, Report, Tick, Admit, AbandonAdmission, ReadClock,
           TakeNothing, BeginRenewal, LeaseLost, Prepared, PreparationRaises,
           CompletionRaises, FailRefused, Crash, Restart
  <1>8. QED
    BY <1>1, <1>2, <1>3, <1>4, <1>5, <1>6, <1>7

\* No claim that had seen it, no late report and no repeated admission changes
\* a settled job.
THEOREM SettledStaysFinal == Spec => SettledIsFinal
  <1>1. ASSUME IInv, Next, NEW j \in Jobs, jobs[j].status \in Settled
        PROVE  jobs'[j] = jobs[j]
    BY <1>1, RowChanges DEF Pending, Settled
  <1>2. IInv /\ [Next]_vars =>
          [\A j \in Jobs : jobs[j].status \in Settled => jobs'[j] = jobs[j]]_vars
    BY <1>1
  <1>3. QED
    BY <1>2, Invariance, PTL DEF Spec, SettledIsFinal

\* Only an expired lease lets a running job change hands.
THEOREM LeasesAreRespected == Spec => LeaseRespected
  <1>1. ASSUME IInv, Next, NEW j \in Jobs,
               jobs[j].status = "running", jobs'[j].token # jobs[j].token
        PROVE  Expired(jobs[j], clock)
    <2>1. PICK now \in Instants : now <= clock /\ Claimable(jobs[j], now)
      BY <1>1, RowChanges
    <2>2. jobs[j].lease \in Nat /\ now \in Nat /\ clock \in Nat
      BY <1>1, GroundJobsAssumption
      DEF IInv, TypeOK, RowsAreConsistent, JobRecord, Instants
    <2>3. QED
      BY <1>1, <2>1, <2>2 DEF Claimable, Expired
  <1>2. IInv /\ [Next]_vars =>
          [\A j \in Jobs :
            (jobs[j].status = "running" /\ jobs'[j].token # jobs[j].token)
                => Expired(jobs[j], clock)]_vars
    BY <1>1
  <1>3. QED
    BY <1>2, Invariance, PTL DEF Spec, LeaseRespected

-----------------------------------------------------------------------------
(* The queue implements AtLeastOnce *)

\* The moves of a row: it is inserted, goes on, is taken, fails or succeeds.
Submitted(j) == jobs[j].status = "absent" /\ jobs'[j].status = "queued"
                /\ jobs'[j].attempt = 0
GoesOn(j) == jobs[j].status \in Pending /\ jobs'[j].status \in Pending
             /\ jobs'[j].attempt = jobs[j].attempt
Taken(j) == jobs[j].status \in Pending /\ jobs'[j].status = "running"
            /\ jobs[j].attempt < MaxAttempts /\ jobs'[j].attempt = jobs[j].attempt + 1
FailsForGood(j) == jobs[j].status = "running" /\ jobs'[j].status = "failed"
                   /\ jobs'[j].attempt = jobs[j].attempt
Succeeds(j) ==
    /\ jobs[j].status = "running" /\ jobs'[j].status = "succeeded"
    /\ jobs'[j].attempt = jobs[j].attempt
    /\ \E p \in Workers : worker[p].pc = "completing" /\ worker[p].job = j

\* Those are all the moves of a row.
LEMMA RowMoves ==
    ASSUME IInv, Next, NEW j \in Jobs, jobs'[j] # jobs[j]
    PROVE  Submitted(j) \/ GoesOn(j) \/ Taken(j) \/ FailsForGood(j) \/ Succeeds(j)
  <1>0. jobs[j] \in JobRecord /\ "running" \in Pending /\ "retry_wait" \in Pending
    BY DEF IInv, TypeOK, Pending
  <1>1. CASE \E c \in Clients : EndAdmission(c)
    <2>1. PICK c \in Clients : EndAdmission(c)
      BY <1>1
    <2>2. ~admission[c].known /\ jobs' = [jobs EXCEPT ![admission[c].job] =
                                              NewJob(admission[c].at)]
      BY <2>1 DEF EndAdmission
    <2>3. admission[c].job = j /\ admission[c].job # NoJob
      BY <2>1, <2>2 DEF IInv, TypeOK, EndAdmission
    <2>4. jobs[j].status = "absent" /\ jobs'[j] = NewJob(admission[c].at)
      BY <2>2, <2>3 DEF IInv, TypeOK, AdmissionsStayTrue
    <2>5. QED
      BY <2>4 DEF NewJob, Submitted
  <1>2. ASSUME NEW p \in Workers, BeginClaim(p) PROVE FailsForGood(j)
    <2>1. jobs'[j] = Swept(worker[p].at)[j]
      BY <1>2 DEF BeginClaim
    <2>2. /\ jobs[j].status = "running"
          /\ jobs'[j] = [Unclaimed(jobs[j], "failed") EXCEPT !.asked = FALSE]
      BY <2>1 DEF Swept, Expired
    <2>3. /\ Unclaimed(jobs[j], "failed") \in JobRecord
          /\ Unclaimed(jobs[j], "failed").status = "failed"
          /\ Unclaimed(jobs[j], "failed").attempt = jobs[j].attempt
      BY <1>0, UnclaimedRow DEF Settled
    <2>4. QED
      BY <2>2, <2>3 DEF JobRecord, FailsForGood
  <1>3. ASSUME NEW p \in Workers, NEW k \in Jobs, Take(p, k) PROVE Taken(j)
    <2>1. /\ j = k /\ Claimable(jobs[j], worker[p].at)
          /\ jobs'[j] = Leased(jobs[j], p, worker[p].at)
      BY <1>3 DEF Take, IInv, TypeOK
    <2>2. jobs[j].status \in Pending
      BY <2>1 DEF Claimable, Expired, Pending
    <2>3. jobs[j].attempt < MaxAttempts
      BY <1>0, <2>1, GroundJobsAssumption
      DEF Claimable, Expired, Exhausted, IInv, RowsAreConsistent, JobRecord
    <2>4. jobs'[j].status = "running" /\ jobs'[j].attempt = jobs[j].attempt + 1
      BY <1>0, <2>1 DEF Leased, JobRecord
    <2>5. QED
      BY <2>2, <2>3, <2>4 DEF Taken
  <1>4. ASSUME NEW p \in Workers, Renew(p) PROVE GoesOn(j)
    <2>1. /\ worker[p].job = j /\ jobs[j].status = "running"
          /\ jobs'[j] = [jobs[j] EXCEPT !.lease = Later(worker[p].renewal + Lease)]
      BY <1>4 DEF Renew, FenceMatches, IInv, TypeOK
    <2>2. QED
      BY <1>0, <2>1 DEF JobRecord, GoesOn
  <1>5. ASSUME NEW p \in Workers, Complete(p) PROVE Succeeds(j)
    <2>1. /\ worker[p].job = j /\ jobs[j].status = "running"
          /\ jobs'[j] = Unclaimed(jobs[j], "succeeded")
          /\ worker[p].pc = "completing"
      BY <1>5 DEF Complete, FenceMatches, IInv, TypeOK
    <2>2. jobs'[j].status = "succeeded" /\ jobs'[j].attempt = jobs[j].attempt
      BY <1>0, <2>1, UnclaimedRow DEF Settled
    <2>3. QED
      BY <2>1, <2>2 DEF Succeeds
  <1>6. ASSUME NEW p \in Workers, Fail(p) PROVE GoesOn(j) \/ FailsForGood(j)
    <2>1. PICK retryAt \in Instants :
            jobs' = [jobs EXCEPT ![worker[p].job] =
                        Failed(jobs[worker[p].job], retryAt)]
      BY <1>6, FailWrites
    <2>2. worker[p].job \in Jobs /\ jobs[worker[p].job].status = "running"
      BY <1>6, FailWrites
    <2>3. j = worker[p].job /\ jobs'[j] = Failed(jobs[j], retryAt)
      BY <2>1, <2>2 DEF IInv, TypeOK
    <2> DEFINE status == IF Exhausted(jobs[j]) THEN "failed" ELSE "retry_wait"
               given == Unclaimed(jobs[j], status)
    <2>4. status \in {"failed", "retry_wait"}
      OBVIOUS
    <2>5. jobs'[j] = [given EXCEPT !.next = retryAt, !.asked = FALSE]
      BY <2>3 DEF Failed
    <2> HIDE DEF status
    <2>6. given \in JobRecord /\ given.status = status /\ given.attempt = jobs[j].attempt
      BY <1>0, <2>4, UnclaimedRow DEF Pending, Settled
    <2> HIDE DEF given
    <2>7. jobs'[j].status = status /\ jobs'[j].attempt = jobs[j].attempt
      BY <2>5, <2>6, ForgottenRow, ZenonT(30)
    <2>8. QED
      BY <1>0, <2>2, <2>3, <2>4, <2>7 DEF GoesOn, FailsForGood
  <1>7. \/ \E c \in Clients : EndAdmission(c)
        \/ \E p \in Workers : BeginClaim(p) \/ Renew(p) \/ Complete(p) \/ Fail(p)
        \/ \E p \in Workers, k \in Jobs : Take(p, k)
    BY DEF Next, Enqueue, Work, Report, Tick, Admit, AbandonAdmission, ReadClock,
           TakeNothing, BeginRenewal, LeaseLost, Prepared, PreparationRaises,
           CompletionRaises, FailRefused, Crash, Restart
  <1>8. QED
    BY <1>1, <1>2, <1>3, <1>4, <1>5, <1>6, <1>7

\* A job somebody works at was tried, and what is reported as done has returned.
WorkIsRemembered ==
    \A p \in Workers :
        /\ Busy(p) => jobs[worker[p].job].attempt > 0
        /\ worker[p].pc = "completing" => worker[p].job \in prepared

DeliveryInv == IInv /\ WorkIsRemembered

\* A worker is busy after a step because it was before, at the same job, or
\* because it has just taken the job; it completes because its preparation
\* returned, in this step or earlier.
LEMMA BusyBefore ==
    ASSUME IInv, Next, NEW p \in Workers, Busy(p)'
    PROVE  \/ /\ Busy(p) /\ worker'[p].job = worker[p].job
              /\ worker'[p].pc = "completing" => worker[p].pc \in {"working", "completing"}
           \/ \E j \in Jobs : Take(p, j) /\ worker'[p].job = j /\ worker'[p].pc = "working"
  <1>0. worker \in [Workers -> WorkerState]
    BY DEF IInv, TypeOK
  <1>1. CASE worker'[p] = worker[p]
    BY <1>1 DEF Busy
  <1>2. ASSUME worker'[p] # worker[p]
        PROVE  Work(p)
    <2>1. PICK q \in Workers : Work(q)
      BY <1>2 DEF Next, Tick, Enqueue, Admit, EndAdmission, AbandonAdmission
    <2>2. \A r \in Workers : r # q => worker'[r] = worker[r]
      <3>1. CASE ReadClock(q) \/ BeginClaim(q) \/ TakeNothing(q) \/ Complete(q) \/ Fail(q)
                 \/ FailRefused(q) \/ Crash(q) \/ Restart(q)
        BY <1>0, <3>1
        DEF ReadClock, BeginClaim, TakeNothing, Complete, Fail, FailRefused, Crash, Restart
      <3>2. CASE BeginRenewal(q) \/ Renew(q) \/ LeaseLost(q) \/ Prepared(q)
                 \/ PreparationRaises(q) \/ CompletionRaises(q)
        BY <1>0, <3>2
        DEF BeginRenewal, Renew, LeaseLost, Prepared, PreparationRaises, CompletionRaises,
            Goto, Raises
      <3>3. ASSUME NEW j \in Jobs, Take(q, j)
            PROVE  \A r \in Workers : r # q => worker'[r] = worker[r]
        BY <1>0, <3>3 DEF Take
      <3>4. QED
        BY <2>1, <3>1, <3>2, <3>3 DEF Work, Report
    <2>3. QED
      BY <1>2, <2>1, <2>2
  <1>3. ASSUME \/ ReadClock(p) \/ BeginClaim(p) \/ TakeNothing(p) \/ Complete(p)
               \/ Fail(p) \/ FailRefused(p) \/ Crash(p) \/ Restart(p)
        PROVE  FALSE
    <2>1. CASE ReadClock(p)
      <3>1. worker'[p].pc = "claiming"
        BY <1>0, <2>1 DEF ReadClock, WorkerState
      <3>2. QED
        BY <3>1 DEF Busy
    <2>2. CASE BeginClaim(p)
      <3> DEFINE seen == Candidates(jobs', worker[p].at)
      <3>1. worker' = [worker EXCEPT ![p] = [worker[p] EXCEPT !.pc = "choosing", !.seen = seen]]
        BY <2>2 DEF BeginClaim
      <3> HIDE DEF seen
      <3>2. worker'[p].pc = "choosing"
        BY <1>0, <3>1 DEF WorkerState
      <3>3. QED
        BY <3>2 DEF Busy
    <2>3. CASE TakeNothing(p) \/ Complete(p) \/ Fail(p) \/ FailRefused(p) \/ Restart(p)
      <3>1. worker' = [worker EXCEPT ![p] = At("idle")]
        BY <2>3 DEF TakeNothing, Complete, Fail, FailRefused, Restart
      <3>2. worker'[p].pc = "idle"
        BY <1>0, <3>1 DEF At
      <3>3. QED
        BY <3>2 DEF Busy
    <2>4. CASE Crash(p)
      <3>1. worker'[p].pc = "down"
        BY <1>0, <2>4 DEF Crash, At
      <3>2. QED
        BY <3>1 DEF Busy
    <2>5. QED
      BY <1>3, <2>1, <2>2, <2>3, <2>4
  <1>4. CASE BeginRenewal(p) \/ Renew(p) \/ LeaseLost(p) \/ Prepared(p)
             \/ PreparationRaises(p) \/ CompletionRaises(p)
    BY <1>0, <1>4, ZenonT(30)
    DEF BeginRenewal, Renew, LeaseLost, Prepared, PreparationRaises, CompletionRaises,
        Goto, Raises, Busy, WorkerState
  <1>5. ASSUME NEW j \in Jobs, Take(p, j)
        PROVE  worker'[p].job = j /\ worker'[p].pc = "working"
    BY <1>0, <1>5 DEF Take, At
  <1>6. QED
    BY <1>1, <1>2, <1>3, <1>4, <1>5 DEF Work, Report

LEMMA DeliveryInitFits == DeliveryInit => DeliveryInv
  <1> SUFFICES ASSUME DeliveryInit PROVE DeliveryInv
    OBVIOUS
  <1>1. IInv
    BY InitEstablishes DEF DeliveryInit
  <1>2. WorkIsRemembered
    BY DEF DeliveryInit, Init, At, Busy, WorkIsRemembered
  <1>3. QED
    BY <1>1, <1>2 DEF DeliveryInv

\* The attempts of a job are never taken back.
LEMMA AttemptsGrow ==
    ASSUME IInv, [Next]_vars, NEW j \in Jobs
    PROVE  /\ jobs[j].attempt \in Nat /\ jobs'[j].attempt \in Nat
           /\ jobs[j].attempt > 0 => jobs'[j].attempt > 0
  <1>1. jobs[j].attempt \in Nat /\ jobs'[j].attempt \in Nat
    BY StepKeeps, GroundJobsAssumption DEF IInv, TypeOK, JobRecord
  <1>2. CASE jobs'[j] = jobs[j]
    BY <1>1, <1>2
  <1>3. CASE jobs'[j] # jobs[j]
    <2>1. Next
      BY <1>3 DEF vars
    <2>2. jobs[j].status = "absent" => jobs[j].attempt = 0
      BY DEF IInv, RowsAreConsistent
    <2>3. QED
      BY <1>1, <1>3, <2>1, <2>2, RowMoves
      DEF Submitted, GoesOn, Taken, FailsForGood, Succeeds
  <1>4. QED
    BY <1>1, <1>2, <1>3

LEMMA DeliveryStepFits == DeliveryInv /\ [DeliveryNext]_deliveryVars => DeliveryInv'
  <1> SUFFICES ASSUME DeliveryInv, [DeliveryNext]_deliveryVars PROVE DeliveryInv'
    OBVIOUS
  <1>1. IInv /\ [Next]_vars
    BY DEF DeliveryInv, DeliveryNext, deliveryVars
  <1>2. IInv'
    BY <1>1, StepKeeps
  <1>3. CASE UNCHANGED deliveryVars
    BY <1>2, <1>3 DEF deliveryVars, vars, DeliveryInv, WorkIsRemembered, Busy
  <1>4. CASE DeliveryNext
    <2>1. Next /\ prepared' = prepared \cup {worker[q].job : q \in {r \in Workers : Returns(r)}}
      BY <1>4 DEF DeliveryNext
    <2>2. ASSUME NEW p \in Workers, Busy(p)' PROVE jobs'[worker'[p].job].attempt > 0
      <3>1. CASE Busy(p) /\ worker'[p].job = worker[p].job
        <4>1. worker[p].job \in Jobs /\ jobs[worker[p].job].attempt > 0
          BY <3>1 DEF DeliveryInv, IInv, ClaimsAreRecorded, WorkIsRemembered
        <4>2. QED
          BY <1>1, <3>1, <4>1, AttemptsGrow
      <3>2. ASSUME NEW j \in Jobs, Take(p, j), worker'[p].job = j
            PROVE  jobs'[worker'[p].job].attempt > 0
        <4>1. jobs'[j] = Leased(jobs[j], p, worker[p].at) /\ jobs[j] \in JobRecord
          BY <3>2 DEF Take, DeliveryInv, IInv, TypeOK
        <4>2. jobs'[j].attempt = jobs[j].attempt + 1 /\ jobs[j].attempt \in Nat
          BY <4>1, GroundJobsAssumption DEF Leased, JobRecord
        <4>3. QED
          BY <3>2, <4>2
      <3>3. QED
        BY <1>1, <2>1, <2>2, <3>1, <3>2, BusyBefore
    <2>3. ASSUME NEW p \in Workers, worker'[p].pc = "completing"
          PROVE  worker'[p].job \in prepared'
      <3>1. Busy(p)'
        BY <2>3 DEF Busy
      <3>2. worker'[p].job = worker[p].job /\ worker[p].pc \in {"working", "completing"}
        BY <1>1, <2>1, <2>3, <3>1, BusyBefore
      <3>3. CASE worker[p].pc = "completing"
        BY <2>1, <3>2, <3>3 DEF DeliveryInv, WorkIsRemembered
      <3>4. CASE worker[p].pc = "working"
        BY <2>1, <2>3, <3>2, <3>4 DEF Returns
      <3>5. QED
        BY <3>2, <3>3, <3>4
    <2>4. QED
      BY <1>2, <2>2, <2>3 DEF DeliveryInv, WorkIsRemembered
  <1>5. QED
    BY <1>3, <1>4

LEMMA DeliveryInvHolds == DeliverySpec => []DeliveryInv
  BY DeliveryInitFits, DeliveryStepFits, PTL DEF DeliverySpec

\* The phase of each status.
LEMMA PhaseOfStatus ==
    /\ PhaseOf("absent") = "absent"
    /\ \A status \in Pending : PhaseOf(status) = "pending"
    /\ PhaseOf("succeeded") = "done"
    /\ PhaseOf("failed") = "dead"
  BY DEF PhaseOf, Pending

\* The empty table is a queue to which nothing was submitted.
LEMMA InitRefines == DeliveryInit => Delivery!Init
  <1> SUFFICES ASSUME DeliveryInit PROVE Delivery!Init
    OBVIOUS
  <1>1. ASSUME NEW j \in Jobs
        PROVE  jobs[j].status = "absent" /\ jobs[j].attempt = 0
    BY DEF DeliveryInit, Init, NewJob
  <1>2. QED
    BY <1>1, PhaseOfStatus DEF DeliveryInit, Delivery!Init

\* The move of one job under a step of the queue.
LEMMA RowRefines ==
    ASSUME DeliveryInv, [DeliveryNext]_deliveryVars, NEW j \in Jobs
    PROVE  \/ Delivery!Stays(j) \/ Delivery!Submits(j)
           \/ Delivery!Tries(j) \/ Delivery!Settles(j)
  <1>1. /\ IInv /\ jobs[j] \in JobRecord /\ jobs[j].attempt \in Nat
        /\ jobs[j].status = "absent" => jobs[j].attempt = 0
        /\ jobs[j].status = "running" => jobs[j].status \in Pending /\ jobs[j].attempt > 0
        /\ "running" \in Pending /\ "queued" \in Pending
    BY GroundJobsAssumption
    DEF DeliveryInv, IInv, TypeOK, RowsAreConsistent, JobRecord, Pending
  <1>2. CASE jobs'[j] = jobs[j]
    BY <1>2 DEF Delivery!Stays
  <1>3. CASE Submitted(j)
    BY <1>1, <1>3, PhaseOfStatus DEF Submitted, Delivery!Submits
  <1>4. CASE GoesOn(j)
    BY <1>4, PhaseOfStatus DEF GoesOn, Delivery!Stays
  <1>5. CASE Taken(j)
    BY <1>1, <1>5, PhaseOfStatus DEF Taken, Delivery!Tries
  <1>6. CASE FailsForGood(j)
    BY <1>1, <1>6, PhaseOfStatus DEF FailsForGood, Delivery!Settles
  <1>7. CASE Succeeds(j)
    <2>1. j \in prepared
      BY <1>7 DEF Succeeds, DeliveryInv, WorkIsRemembered
    <2>2. QED
      BY <1>1, <1>7, <2>1, PhaseOfStatus DEF Succeeds, Delivery!Settles
  <1>8. jobs'[j] = jobs[j] \/ Next
    BY DEF DeliveryNext, deliveryVars, vars
  <1>9. QED
    BY <1>1, <1>2, <1>3, <1>4, <1>5, <1>6, <1>7, <1>8, RowMoves

\* Every step of the queue is a step of AtLeastOnce or stutters.
LEMMA StepRefines ==
    ASSUME DeliveryInv, [DeliveryNext]_deliveryVars
    PROVE  [Delivery!Next]_(Delivery!vars)
  <1>1. \/ prepared' = prepared
        \/ prepared' = prepared \cup {worker[p].job : p \in {q \in Workers : Returns(q)}}
    BY DEF DeliveryNext, deliveryVars
  <1>2. ASSUME NEW p \in Workers, Returns(p)
        PROVE  worker[p].job \in Jobs /\ jobs[worker[p].job].attempt > 0
    BY <1>2 DEF Returns, Busy, DeliveryInv, WorkIsRemembered, IInv, ClaimsAreRecorded
  <1>3. prepared \subseteq prepared'
    BY <1>1
  <1>4. prepared' \subseteq prepared \cup {j \in Jobs : jobs[j].attempt > 0}
    BY <1>1, <1>2
  <1>5. Delivery!Performs
    <2>1. {k \in Jobs : [i \in Jobs |-> jobs[i].attempt][k] > 0}
            = {k \in Jobs : jobs[k].attempt > 0}
      OBVIOUS
    <2>2. QED
      BY <1>4, <2>1 DEF Delivery!Performs
  <1>6. QED
    BY <1>3, <1>5, RowRefines DEF Delivery!Next

\* The queue of ground imagery preparations keeps the promise of AtLeastOnce as
\* the ingest queue does: an admitted job is tried at most MaxAttempts times and
\* settled at most once, and it succeeds only if its preparation has returned,
\* whatever crashes, expires or is renewed (postgres_jobs.py).
THEOREM GroundJobsImplementAtLeastOnce == DeliverySpec => ImplementsAtLeastOnce
  BY InitRefines, StepRefines, DeliveryInvHolds, PTL
  DEF DeliverySpec, ImplementsAtLeastOnce, Delivery!Spec
=============================================================================
