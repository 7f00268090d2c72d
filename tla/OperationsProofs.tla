-------------------------- MODULE OperationsProofs --------------------------
(***************************************************************************)
(* Proofs about the operational stores: IngestQueue for every set of jobs  *)
(* and workers and every value of the attempt limit, the lease and the     *)
(* retry delay, and ProviderBudget for any number of calls, any limits and *)
(* any number of hours.                                                    *)
(***************************************************************************)
EXTENDS IngestQueue, ProviderBudget, FiniteSetTheorems, TLAPS

-----------------------------------------------------------------------------
(* IngestQueue: the clock *)

\* Saturating arithmetic stays on the clock's scale.
LEMMA LaterIsInstant ==
    ASSUME NEW t \in Nat
    PROVE  /\ Later(t) \in 0..MaxTime
           /\ t > 0 => Later(t) > 0
  BY QueueAssumption DEF Later

\* The retry delay is a number of seconds whatever the attempt.
LEMMA DelayIsNatural ==
    ASSUME NEW a \in Nat
    PROVE  BoundedRetryDelay(a) \in Nat
  BY QueueAssumption DEF BoundedRetryDelay

-----------------------------------------------------------------------------
(* IngestQueue: the inductive invariant *)

\* A process that works on a job carries the token of its claim: at most the
\* row's token, and the row has been attempted since.  Only work that
\* returned under that token is reported as done.
ClaimsAreRecorded ==
    \A w \in Workers :
        /\ worker[w].now <= clock
        /\ Busy(w) =>
            /\ worker[w].job \in Jobs
            /\ worker[w].token <= jobs[worker[w].job].token
            /\ jobs[worker[w].job].attempt > 0
        /\ worker[w].pc = "reporting" =>
            /\ worker[w].result # "none"
            /\ worker[w].result = "done" =>
                   worker[w].token \in performed[worker[w].job]

IInv ==
    /\ TypeOK
    /\ RowsAreConsistent
    /\ ClaimsAreRecorded
    /\ OneHolderPerFence
    /\ SuccessIsEarned

-----------------------------------------------------------------------------
(* What the queue calls do to a row *)

\* Giving up the claim of a row keeps its attempt, token and instant.
LEMMA UnclaimedRow ==
    ASSUME NEW row \in JobRecord, NEW status \in Statuses
    PROVE  /\ Unclaimed(row, status) \in JobRecord
           /\ Unclaimed(row, status).status = status
           /\ Unclaimed(row, status).lease = 0
           /\ Unclaimed(row, status).claimedBy = NoWorker
           /\ Unclaimed(row, status).attempt = row.attempt
           /\ Unclaimed(row, status).token = row.token
           /\ Unclaimed(row, status).scheduled = row.scheduled
  <1>1. 0 \in 0..MaxTime
    BY QueueAssumption
  <1>2. Unclaimed(row, status) \in JobRecord
    BY <1>1, Zenon DEF Unclaimed, JobRecord
  <1>3. QED
    BY <1>2 DEF Unclaimed, JobRecord

\* The sweep of a claim touches exhausted, expired rows only.
LEMMA SweptRow ==
    ASSUME TypeOK, NEW now \in 0..MaxTime, NEW j \in Jobs
    PROVE  /\ Swept(now)[j] \in JobRecord
           /\ Swept(now)[j].attempt = jobs[j].attempt
           /\ Swept(now)[j].token = jobs[j].token
           /\ \/ Swept(now)[j] = jobs[j]
              \/ /\ Expired(j, now) /\ Exhausted(j)
                 /\ Swept(now)[j].status = "dead_letter"
                 /\ Swept(now)[j].lease = 0
                 /\ Swept(now)[j].claimedBy = NoWorker
  <1>1. jobs[j] \in JobRecord
    BY DEF TypeOK
  <1>2. "dead_letter" \in Statuses
    BY DEF Statuses, Terminal
  <1>3. QED
    BY <1>1, <1>2, UnclaimedRow DEF Swept

\* A claimed row runs under a new token and one more attempt.
LEMMA LeasedRow ==
    ASSUME TypeOK, RowsAreConsistent,
           NEW w \in Workers, NEW now \in 0..MaxTime,
           NEW j \in Eligible(now)
    PROVE  /\ j \in Jobs
           /\ jobs[j].status \in Open
           /\ jobs[j].attempt < MaxAttempts
           /\ Leased(j, w, now) \in JobRecord
           /\ Leased(j, w, now).status = "running"
           /\ Leased(j, w, now).lease > 0
           /\ Leased(j, w, now).claimedBy = w
           /\ Leased(j, w, now).attempt = jobs[j].attempt + 1
           /\ Leased(j, w, now).token = jobs[j].token + 1
  <1>1. j \in Jobs /\ jobs[j] \in JobRecord
    BY DEF Eligible, TypeOK
  <1>2. jobs[j].status \in Open /\ jobs[j].attempt < MaxAttempts
    BY <1>1, QueueAssumption
    DEF Eligible, Expired, Exhausted, RowsAreConsistent, Open, JobRecord
  <1>3. Later(now + Lease) \in 0..MaxTime /\ Later(now + Lease) > 0
    BY QueueAssumption, LaterIsInstant
  <1>4. /\ jobs[j].token + 1 \in Nat
        /\ jobs[j].attempt + 1 \in 0..MaxAttempts
    BY <1>1, <1>2, QueueAssumption DEF JobRecord
  <1>5. "running" \in Statuses /\ w \in Workers \cup {NoWorker}
    BY DEF Statuses, Open
  <1>6. Leased(j, w, now) \in JobRecord
    BY <1>1, <1>3, <1>4, <1>5, Zenon DEF Leased, JobRecord
  <1>7. QED
    BY <1>1, <1>2, <1>3, <1>6 DEF Leased, JobRecord

\* A failed attempt parks the row for a retry or dead-letters it.
LEMMA FailedRow ==
    ASSUME TypeOK, NEW j \in Jobs, NEW retryable \in BOOLEAN,
           NEW retryAt \in 0..MaxTime
    PROVE  /\ Failed(j, retryable, retryAt) \in JobRecord
           /\ Failed(j, retryable, retryAt).attempt = jobs[j].attempt
           /\ Failed(j, retryable, retryAt).token = jobs[j].token
           /\ Failed(j, retryable, retryAt).lease = 0
           /\ Failed(j, retryable, retryAt).claimedBy = NoWorker
           /\ \/ Failed(j, retryable, retryAt).status = "dead_letter"
              \/ /\ Failed(j, retryable, retryAt).status = "retry"
                 /\ retryable
                 /\ ~Exhausted(j)
  <1>1. jobs[j] \in JobRecord
    BY DEF TypeOK
  <1>2. "dead_letter" \in Statuses /\ "retry" \in Statuses
    BY DEF Statuses, Terminal, Open
  <1>3. CASE retryable /\ ~Exhausted(j)
    <2>1. Unclaimed(jobs[j], "retry") \in JobRecord
      BY <1>1, <1>2, UnclaimedRow
    <2>2. Failed(j, retryable, retryAt)
            = [Unclaimed(jobs[j], "retry") EXCEPT !.scheduled = retryAt]
      BY <1>3 DEF Failed
    <2>3. Failed(j, retryable, retryAt) \in JobRecord
      BY <2>1, <2>2, Zenon DEF JobRecord
    <2>4. /\ Unclaimed(jobs[j], "retry").attempt = jobs[j].attempt
          /\ Unclaimed(jobs[j], "retry").token = jobs[j].token
          /\ Unclaimed(jobs[j], "retry").lease = 0
          /\ Unclaimed(jobs[j], "retry").claimedBy = NoWorker
          /\ Unclaimed(jobs[j], "retry").status = "retry"
      BY <1>1, <1>2, UnclaimedRow
    <2>5. QED
      BY <1>3, <2>1, <2>2, <2>3, <2>4 DEF JobRecord
  <1>4. CASE ~(retryable /\ ~Exhausted(j))
    BY <1>1, <1>2, <1>4, UnclaimedRow DEF Failed
  <1>5. QED
    BY <1>3, <1>4

-----------------------------------------------------------------------------
(* What a step does to a worker *)

\* A worker at the start of its loop, or down, holds nothing.
LEMMA FreshWorker ==
    ASSUME NEW pc \in {"idle", "down"}
    PROVE  /\ At(pc) \in WorkerState
           /\ At(pc).pc = pc
           /\ At(pc).now = 0
  <1>1. 0 \in 0..MaxTime /\ 0 \in 0..MaxAttempts /\ 0 \in Nat
    BY QueueAssumption
  <1>2. "none" \in Results
    BY DEF Results
  <1>3. QED
    BY <1>1, <1>2 DEF At, WorkerState

\* A worker that stops being busy, while no row is touched, leaves the
\* invariant as it is.
LEMMA WorkerStops ==
    ASSUME IInv, NEW w \in Workers, NEW pc \in {"idle", "down"},
           worker' = [worker EXCEPT ![w] = At(pc)],
           UNCHANGED <<clock, performed>>,
           jobs' \in [Jobs -> JobRecord],
           \A j \in Jobs : /\ jobs'[j].token = jobs[j].token
                           /\ jobs'[j].attempt = jobs[j].attempt,
           RowsAreConsistent',
           SuccessIsEarned'
    PROVE  IInv'
  <1>1. TypeOK'
    BY FreshWorker DEF IInv, TypeOK
  <1>2. ASSUME NEW v \in Workers
        PROVE  /\ v # w => worker'[v] = worker[v]
               /\ v = w => worker'[v].pc = pc /\ worker'[v].now = 0
    BY FreshWorker DEF IInv, TypeOK
  <1>3. ClaimsAreRecorded'
    <2>1. clock \in Nat
      BY QueueAssumption DEF IInv, TypeOK
    <2>2. QED
      BY <1>2, <2>1 DEF IInv, ClaimsAreRecorded, Busy
  <1>4. OneHolderPerFence'
    BY <1>2 DEF IInv, OneHolderPerFence, Busy
  <1>5. QED
    BY <1>1, <1>3, <1>4 DEF IInv

-----------------------------------------------------------------------------
(* The invariant is inductive *)

\* The empty table and idle workers satisfy the invariant.
LEMMA InitEstablishes == Init => IInv
  <1> SUFFICES ASSUME Init PROVE IInv
    OBVIOUS
  <1>1. /\ 0 \in 0..MaxTime /\ 0 \in 0..MaxAttempts /\ 0 \in Nat
        /\ "absent" \in Statuses
    BY QueueAssumption DEF Statuses
  <1>2. ASSUME NEW j \in Jobs
        PROVE  /\ jobs[j] \in JobRecord
               /\ jobs[j].status = "absent" /\ jobs[j].lease = 0
               /\ jobs[j].claimedBy = NoWorker /\ jobs[j].attempt = 0
    <2>1. ScheduledAt[j] \in 0..MaxTime
      BY QueueAssumption
    <2>2. jobs[j] = [NewJob(j) EXCEPT !.status = "absent"]
      BY DEF Init
    <2>3. QED
      BY <1>1, <2>1, <2>2 DEF NewJob, JobRecord
  <1>3. TypeOK
    BY <1>1, <1>2, FreshWorker DEF Init, TypeOK
  <1>4. RowsAreConsistent /\ SuccessIsEarned
    BY <1>2, QueueAssumption DEF RowsAreConsistent, SuccessIsEarned
  <1>5. ClaimsAreRecorded /\ OneHolderPerFence
    BY FreshWorker DEF Init, ClaimsAreRecorded, OneHolderPerFence, Busy
  <1>6. QED
    BY <1>3, <1>4, <1>5 DEF IInv

\* Time alone breaks nothing: instants read before stay in the past.
LEMMA TickKeeps == ASSUME IInv, Tick PROVE IInv'
  <1>1. clock' \in 0..MaxTime /\ clock <= clock' /\ clock \in Nat
    BY QueueAssumption DEF IInv, TypeOK, Tick
  <1>2. \A w \in Workers : worker[w].now \in Nat
    BY QueueAssumption DEF IInv, TypeOK, WorkerState
  <1>3. ClaimsAreRecorded'
    BY <1>1, <1>2 DEF IInv, Tick, ClaimsAreRecorded, Busy
  <1>4. QED
    BY <1>1, <1>3
    DEF IInv, Tick, TypeOK, RowsAreConsistent, OneHolderPerFence, Busy,
        SuccessIsEarned

\* A first insert adds a fresh row, which no worker can hold; a second does
\* nothing.
LEMMA EnqueueKeeps == ASSUME IInv, NEW j \in Jobs, Enqueue(j) PROVE IInv'
  <1>1. CASE jobs[j].status # "absent"
    BY <1>1
    DEF Enqueue, IInv, TypeOK, RowsAreConsistent, ClaimsAreRecorded,
        OneHolderPerFence, Busy, SuccessIsEarned
  <1>2. CASE jobs[j].status = "absent"
    <2>1. jobs' = [jobs EXCEPT ![j] = NewJob(j)]
      BY <1>2 DEF Enqueue
    <2>2. /\ NewJob(j) \in JobRecord
          /\ NewJob(j).status = "queued" /\ NewJob(j).attempt = 0
          /\ NewJob(j).lease = 0 /\ NewJob(j).claimedBy = NoWorker
      BY QueueAssumption DEF NewJob, JobRecord, Statuses, Open
    <2>3. TypeOK' /\ RowsAreConsistent' /\ SuccessIsEarned'
      BY <2>1, <2>2, QueueAssumption
      DEF Enqueue, IInv, TypeOK, RowsAreConsistent, SuccessIsEarned
    <2>4. \A w \in Workers : Busy(w) => worker[w].job # j
      BY <1>2, QueueAssumption
      DEF IInv, TypeOK, JobRecord, RowsAreConsistent, ClaimsAreRecorded
    <2>5. ClaimsAreRecorded'
      BY <2>1, <2>4 DEF Enqueue, IInv, TypeOK, ClaimsAreRecorded, Busy
    <2>6. OneHolderPerFence'
      BY DEF Enqueue, IInv, OneHolderPerFence, Busy
    <2>7. QED
      BY <2>3, <2>5, <2>6 DEF IInv
  <1>3. QED
    BY <1>1, <1>2

\* A worker that reads the clock holds no job yet.
LEMMA ReadClockKeeps == ASSUME IInv, NEW w \in Workers, ReadClock(w) PROVE IInv'
  <1>1. ~Busy(w) /\ ~Busy(w)' /\ worker'[w].now = clock
        /\ worker'[w].pc = "claiming" /\ worker'[w] \in WorkerState
    BY DEF ReadClock, IInv, TypeOK, Busy, WorkerState
  <1>2. \A v \in Workers : v # w => worker'[v] = worker[v]
    BY DEF ReadClock, IInv, TypeOK
  <1>3. TypeOK' /\ RowsAreConsistent' /\ SuccessIsEarned'
    BY <1>1
    DEF ReadClock, IInv, TypeOK, RowsAreConsistent, SuccessIsEarned
  <1>4. ClaimsAreRecorded'
    BY <1>1, <1>2, QueueAssumption
    DEF ReadClock, IInv, TypeOK, ClaimsAreRecorded, Busy
  <1>5. OneHolderPerFence'
    BY <1>1, <1>2 DEF IInv, OneHolderPerFence, Busy
  <1>6. QED
    BY <1>3, <1>4, <1>5 DEF IInv

\* The rows after the sweep of a claim.
LEMMA SweepKeepsRows ==
    ASSUME IInv, NEW now \in 0..MaxTime, NEW j \in Jobs, NEW row,
           row = Swept(now)[j]
    PROVE  /\ row \in JobRecord
           /\ row.token = jobs[j].token /\ row.attempt = jobs[j].attempt
           /\ row.status = "running" <=> row.lease > 0
           /\ row.status = "running" <=> row.claimedBy # NoWorker
           /\ row.status \in {"absent", "queued"} <=> row.attempt = 0
           /\ row.status = "retry" => row.attempt < MaxAttempts
           /\ row.status = "succeeded" => row.token \in performed[j]
  <1>1. CASE row = jobs[j]
    BY <1>1 DEF IInv, TypeOK, RowsAreConsistent, SuccessIsEarned
  <1>2. CASE row # jobs[j]
    <2>1. /\ row.status = "dead_letter" /\ row.lease = 0
          /\ row.claimedBy = NoWorker /\ row.attempt = jobs[j].attempt
          /\ row.token = jobs[j].token /\ row \in JobRecord
          /\ Exhausted(j)
      BY <1>2, SweptRow DEF IInv
    <2>2. jobs[j].attempt # 0
      BY <2>1, QueueAssumption DEF Exhausted
    <2>3. QED
      BY <2>1, <2>2
  <1>3. QED
    BY <1>1, <1>2

\* A claim that finds no job may still dead-letter exhausted ones.
LEMMA ClaimNothingKeeps ==
    ASSUME IInv, NEW w \in Workers, ClaimNothing(w) PROVE IInv'
  <1> DEFINE now == worker[w].now
  <1>1. now \in 0..MaxTime
    BY DEF IInv, TypeOK, WorkerState
  <1>2. ASSUME NEW j \in Jobs PROVE jobs'[j] = Swept(now)[j]
    BY DEF ClaimNothing
  <1>3. jobs' \in [Jobs -> JobRecord]
    <2>1. jobs' = [j \in Jobs |-> Swept(now)[j]]
      BY DEF ClaimNothing, Swept
    <2>2. QED
      BY <1>1, <2>1, SweepKeepsRows
  <1>4. RowsAreConsistent' /\ SuccessIsEarned'
    BY <1>1, <1>2, SweepKeepsRows
    DEF ClaimNothing, RowsAreConsistent, SuccessIsEarned
  <1>5. \A j \in Jobs : /\ jobs'[j].token = jobs[j].token
                        /\ jobs'[j].attempt = jobs[j].attempt
    BY <1>1, <1>2, SweepKeepsRows
  <1>6. QED
    BY <1>3, <1>4, <1>5, WorkerStops DEF ClaimNothing

\* A claim hands out a token above every token handed out for the job.
LEMMA ClaimJobKeeps ==
    ASSUME IInv, NEW w \in Workers, NEW j \in Jobs, ClaimJob(w, j) PROVE IInv'
  <1> DEFINE now == worker[w].now
  <1>1. now \in 0..MaxTime /\ j \in Eligible(now)
    BY DEF ClaimJob, Earliest, IInv, TypeOK, WorkerState
  <1>2. jobs' = [Swept(now) EXCEPT ![j] = Leased(j, w, now)]
    BY DEF ClaimJob
  <1>3. jobs' \in [Jobs -> JobRecord]
    <2>1. Leased(j, w, now) \in JobRecord
      BY <1>1, LeasedRow DEF IInv
    <2>2. \A k \in Jobs : Swept(now)[k] \in JobRecord
      BY <1>1, SweepKeepsRows
    <2>3. Swept(now) = [k \in Jobs |-> Swept(now)[k]]
      BY DEF Swept
    <2>4. QED
      BY <1>2, <2>1, <2>2, <2>3
  <1>4. /\ jobs'[j] = Leased(j, w, now)
        /\ \A k \in Jobs : k # j => jobs'[k] = Swept(now)[k]
    BY <1>2 DEF Swept
  <1>5. /\ jobs[j] \in JobRecord
        /\ jobs'[j].token = jobs[j].token + 1
        /\ jobs'[j].attempt = jobs[j].attempt + 1
        /\ jobs[j].attempt + 1 \in 0..MaxAttempts
        /\ jobs'[j].status = "running"
        /\ jobs'[j].lease > 0
        /\ jobs'[j].claimedBy = w
    <2>1. jobs[j] \in JobRecord
      BY DEF IInv, TypeOK
    <2>2. QED
      BY <1>1, <1>4, <2>1, LeasedRow, QueueAssumption DEF IInv, JobRecord
  <1>6. \A k \in Jobs : k # j => /\ jobs'[k].token = jobs[k].token
                                 /\ jobs'[k].attempt = jobs[k].attempt
    BY <1>1, <1>4, SweepKeepsRows
  <1>7. RowsAreConsistent'
    <2>1. w # NoWorker /\ jobs[j].attempt + 1 # 0
      BY <1>5, QueueAssumption DEF JobRecord
    <2>2. QED
      BY <1>1, <1>4, <1>5, <2>1, SweepKeepsRows DEF RowsAreConsistent
  <1>8. SuccessIsEarned'
    BY <1>1, <1>4, <1>5, SweepKeepsRows DEF ClaimJob, SuccessIsEarned
  <1>9. /\ worker'[w].job = j
        /\ worker'[w].pc = "working"
        /\ worker'[w].token = jobs[j].token + 1
        /\ worker'[w].now = now
        /\ worker'[w] \in WorkerState
        /\ \A v \in Workers : v # w => worker'[v] = worker[v]
    <2>1. worker[w] \in WorkerState
      BY DEF IInv, TypeOK
    <2>2. jobs[j].token + 1 \in Nat /\ jobs[j].attempt + 1 \in 0..MaxAttempts
      BY <1>5 DEF JobRecord
    <2>3. worker'[w] = [worker[w] EXCEPT !.pc = "working", !.job = j,
                            !.token = jobs[j].token + 1,
                            !.attempt = jobs[j].attempt + 1]
      BY <1>4, <1>5 DEF ClaimJob, IInv, TypeOK
    <2>4. worker'[w] \in WorkerState
      BY <2>1, <2>2, <2>3, Zenon DEF WorkerState
    <2>5. QED
      BY <2>1, <2>3, <2>4 DEF ClaimJob, IInv, TypeOK, WorkerState
  <1>10. TypeOK'
    BY <1>3, <1>9 DEF ClaimJob, IInv, TypeOK
  <1>11. ClaimsAreRecorded'
    <2>1. \A v \in Workers : v # w => (Busy(v)' <=> Busy(v))
      BY <1>9 DEF Busy
    <2>2. \A k \in Jobs : jobs[k].token \in Nat /\ jobs[k].attempt \in Nat
      BY QueueAssumption DEF IInv, TypeOK, JobRecord
    <2>3. \A v \in Workers : worker[v].token \in Nat
      BY DEF IInv, TypeOK, WorkerState
    <2>4. ASSUME NEW v \in Workers, v # w
          PROVE  /\ worker'[v].now <= clock'
                 /\ Busy(v)' =>
                     /\ worker'[v].job \in Jobs
                     /\ worker'[v].token <= jobs'[worker'[v].job].token
                     /\ jobs'[worker'[v].job].attempt > 0
                 /\ worker'[v].pc = "reporting" =>
                     /\ worker'[v].result # "none"
                     /\ worker'[v].result = "done" =>
                            worker'[v].token \in performed'[worker'[v].job]
      BY <1>5, <1>6, <1>9, <2>1, <2>2, <2>3, <2>4
      DEF ClaimJob, IInv, ClaimsAreRecorded
    <2>5. /\ worker'[w].now <= clock'
          /\ worker'[w].token <= jobs'[j].token
          /\ jobs'[j].attempt > 0
      BY <1>5, <1>9, <2>2 DEF ClaimJob, IInv, ClaimsAreRecorded
    <2>6. QED
      BY <1>9, <2>4, <2>5 DEF ClaimsAreRecorded
  <1>12. OneHolderPerFence'
    <2>1. \A v \in Workers : v # w => (Busy(v)' <=> Busy(v))
      BY <1>9 DEF Busy
    <2>2. \A v \in Workers :
            Busy(v) /\ worker[v].job = j => worker[v].token # jobs[j].token + 1
      BY <1>5 DEF IInv, TypeOK, ClaimsAreRecorded, JobRecord, WorkerState
    <2>3. QED
      BY <1>9, <2>1, <2>2 DEF IInv, OneHolderPerFence
  <1>13. QED
    BY <1>7, <1>8, <1>10, <1>11, <1>12 DEF IInv

\* Rewriting the row a worker holds, with its token and attempt kept.
LEMMA ReportKeeps ==
    ASSUME IInv, NEW w \in Workers, NEW row \in JobRecord,
           worker[w].pc = "reporting",
           jobs' = [jobs EXCEPT ![worker[w].job] = row],
           worker' = [worker EXCEPT ![w] = At("idle")],
           UNCHANGED <<clock, performed>>,
           row.token = jobs[worker[w].job].token,
           row.attempt = jobs[worker[w].job].attempt,
           row.lease = 0, row.claimedBy = NoWorker,
           \/ row.status = "dead_letter"
           \/ row.status = "retry" /\ ~Exhausted(worker[w].job)
           \/ row.status = "succeeded" /\ row.token \in performed[worker[w].job]
    PROVE  IInv'
  <1>1. /\ worker[w].job \in Jobs
        /\ jobs[worker[w].job].attempt > 0
        /\ jobs[worker[w].job].attempt \in 0..MaxAttempts
    BY DEF IInv, TypeOK, JobRecord, ClaimsAreRecorded, Busy
  <1>2. jobs' \in [Jobs -> JobRecord]
    BY <1>1 DEF IInv, TypeOK
  <1>3. jobs'[worker[w].job] = row
    BY <1>1 DEF IInv, TypeOK
  <1>4. \A k \in Jobs : k # worker[w].job => jobs'[k] = jobs[k]
    BY DEF IInv, TypeOK
  <1>5. RowsAreConsistent'
    BY <1>1, <1>3, <1>4, QueueAssumption DEF IInv, RowsAreConsistent, Exhausted
  <1>6. SuccessIsEarned'
    BY <1>3, <1>4 DEF IInv, SuccessIsEarned
  <1>7. QED
    BY <1>2, <1>3, <1>4, <1>5, <1>6, WorkerStops

\* A completion is accepted only under the token of the last claim.
LEMMA CompleteKeeps == ASSUME IInv, NEW w \in Workers, Complete(w) PROVE IInv'
  <1> DEFINE row == Unclaimed(jobs[worker[w].job], "succeeded")
  <1>1. worker[w].job \in Jobs /\ jobs[worker[w].job] \in JobRecord
    BY DEF Complete, IInv, TypeOK, ClaimsAreRecorded, Busy
  <1>2. /\ row \in JobRecord /\ row.status = "succeeded"
        /\ row.token = jobs[worker[w].job].token
        /\ row.attempt = jobs[worker[w].job].attempt
        /\ row.lease = 0 /\ row.claimedBy = NoWorker
    <2>1. "succeeded" \in Statuses
      BY DEF Statuses, Terminal
    <2>2. QED
      BY <1>1, <2>1, UnclaimedRow
  <1>3. row.token \in performed[worker[w].job]
    BY <1>2 DEF Complete, FenceMatches, IInv, ClaimsAreRecorded
  <1>4. jobs' = [jobs EXCEPT ![worker[w].job] = row]
    BY DEF Complete
  <1> HIDE DEF row
  <1>5. QED
    BY <1>2, <1>3, <1>4, ReportKeeps DEF Complete

\* A failure under the last token parks or dead-letters the job.
LEMMA FailKeeps == ASSUME IInv, NEW w \in Workers, Fail(w) PROVE IInv'
  <1> DEFINE row == Failed(worker[w].job, worker[w].result = "retryable", RetryAt(w))
  <1>1. worker[w].job \in Jobs
    BY DEF Fail, IInv, ClaimsAreRecorded, Busy
  <1>2. RetryAt(w) \in 0..MaxTime
    <2>1. worker[w].now \in Nat /\ worker[w].attempt \in Nat
      BY QueueAssumption DEF IInv, TypeOK, WorkerState
    <2>2. worker[w].now + BoundedRetryDelay(worker[w].attempt) \in Nat
      BY <2>1, DelayIsNatural
    <2>3. QED
      BY <2>2, LaterIsInstant DEF RetryAt
  <1>3. (worker[w].result = "retryable") \in BOOLEAN
    OBVIOUS
  <1>4. /\ row \in JobRecord
        /\ row.token = jobs[worker[w].job].token
        /\ row.attempt = jobs[worker[w].job].attempt
        /\ row.lease = 0 /\ row.claimedBy = NoWorker
        /\ \/ row.status = "dead_letter"
           \/ row.status = "retry" /\ ~Exhausted(worker[w].job)
    BY <1>1, <1>2, <1>3, FailedRow DEF IInv
  <1>5. jobs' = [jobs EXCEPT ![worker[w].job] = row]
    BY DEF Fail
  <1> HIDE DEF row
  <1>6. QED
    BY <1>4, <1>5, ReportKeeps DEF Fail

\* A renewal moves the lease of a running row and nothing else.
LEMMA RenewKeeps == ASSUME IInv, NEW w \in Workers, Renew(w) PROVE IInv'
  <1> DEFINE j == worker[w].job
             row == [jobs[j] EXCEPT !.lease = Later(clock + Lease)]
  <1>1. j \in Jobs /\ jobs[j] \in JobRecord /\ jobs[j].status = "running"
    BY DEF Renew, FenceMatches, IInv, TypeOK, ClaimsAreRecorded, Busy
  <1>2. Later(clock + Lease) \in 0..MaxTime /\ Later(clock + Lease) > 0
    BY QueueAssumption, LaterIsInstant DEF IInv, TypeOK
  <1>3. /\ row \in JobRecord /\ row.status = "running" /\ row.lease > 0
        /\ row.claimedBy = jobs[j].claimedBy /\ row.token = jobs[j].token
        /\ row.attempt = jobs[j].attempt
    <2>1. row \in JobRecord
      BY <1>1, <1>2, Zenon DEF JobRecord
    <2>2. QED
      BY <1>1, <1>2, <2>1 DEF JobRecord
  <1>4. jobs' = [jobs EXCEPT ![j] = row]
    BY DEF Renew
  <1> HIDE DEF row
  <1>5. jobs'[j] = row /\ \A k \in Jobs : k # j => jobs'[k] = jobs[k]
    BY <1>1, <1>4 DEF IInv, TypeOK
  <1>6. TypeOK'
    BY <1>1, <1>3, <1>4 DEF Renew, IInv, TypeOK
  <1>7. RowsAreConsistent' /\ SuccessIsEarned'
    <2>1. /\ jobs[j].lease > 0 /\ jobs[j].claimedBy # NoWorker
          /\ jobs[j].attempt # 0
      BY <1>1 DEF IInv, RowsAreConsistent
    <2>2. RowsAreConsistent'
      BY <1>1, <1>3, <1>5, <2>1 DEF IInv, RowsAreConsistent
    <2>3. SuccessIsEarned'
      BY <1>3, <1>5 DEF Renew, IInv, SuccessIsEarned
    <2>4. QED
      BY <2>2, <2>3
  <1>8. ClaimsAreRecorded' /\ OneHolderPerFence'
    BY <1>3, <1>5
    DEF Renew, IInv, ClaimsAreRecorded, OneHolderPerFence, Busy
  <1>9. QED
    BY <1>6, <1>7, <1>8 DEF IInv

\* Work that ends records its token before it can be reported.
LEMMA EndWorkKeeps ==
    ASSUME IInv, NEW w \in Workers, NEW result \in Results \ {"none"},
           EndWork(w, result)
    PROVE  IInv'
  <1>1. /\ worker'[w].pc = "reporting" /\ worker'[w].result = result
        /\ worker'[w].job = worker[w].job /\ worker'[w].token = worker[w].token
        /\ worker'[w].now = worker[w].now /\ worker'[w] \in WorkerState
        /\ \A v \in Workers : v # w => worker'[v] = worker[v]
    BY DEF EndWork, IInv, TypeOK, WorkerState
  <1>2. Busy(w) /\ Busy(w)' /\ worker[w].job \in Jobs /\ worker[w].token \in Nat
    BY <1>1
    DEF EndWork, Busy, IInv, TypeOK, WorkerState, ClaimsAreRecorded
  <1>3. /\ performed' \in [Jobs -> SUBSET Nat]
        /\ \A k \in Jobs : performed[k] \subseteq performed'[k]
        /\ result = "done" => worker[w].token \in performed'[worker[w].job]
    BY <1>2 DEF EndWork, IInv, TypeOK
  <1>4. TypeOK'
    BY <1>1, <1>3 DEF EndWork, IInv, TypeOK
  <1>5. RowsAreConsistent' /\ SuccessIsEarned'
    BY <1>3 DEF EndWork, IInv, RowsAreConsistent, SuccessIsEarned
  <1>6. ClaimsAreRecorded'
    <2>1. \A v \in Workers : v # w => (Busy(v)' <=> Busy(v))
      BY <1>1 DEF Busy
    <2>2. ASSUME NEW v \in Workers, v # w
          PROVE  /\ worker'[v].now <= clock'
                 /\ Busy(v)' =>
                     /\ worker'[v].job \in Jobs
                     /\ worker'[v].token <= jobs'[worker'[v].job].token
                     /\ jobs'[worker'[v].job].attempt > 0
                 /\ worker'[v].pc = "reporting" =>
                     /\ worker'[v].result # "none"
                     /\ worker'[v].result = "done" =>
                            worker'[v].token \in performed'[worker'[v].job]
      <3>1. worker'[v] = worker[v] /\ jobs' = jobs /\ clock' = clock
        BY <1>1, <2>2 DEF EndWork
      <3>2. worker[v].pc = "reporting" => worker[v].job \in Jobs
        BY DEF IInv, ClaimsAreRecorded, Busy
      <3>3. QED
        BY <1>3, <2>1, <2>2, <3>1, <3>2 DEF IInv, ClaimsAreRecorded
    <2>3. QED
      BY <1>1, <1>2, <1>3, <2>2 DEF EndWork, IInv, ClaimsAreRecorded
  <1>7. OneHolderPerFence'
    BY <1>1, <1>2 DEF IInv, OneHolderPerFence, Busy
  <1>8. QED
    BY <1>4, <1>5, <1>6, <1>7 DEF IInv

\* A process that dies, or is told its fence is lost, leaves the table alone.
LEMMA StopKeeps ==
    ASSUME IInv, NEW w \in Workers, StaleReport(w) \/ Crash(w) \/ Restart(w)
    PROVE  IInv'
  <1>1. jobs' = jobs /\ UNCHANGED <<clock, performed>>
    BY DEF StaleReport, Crash, Restart
  <1>2. \E pc \in {"idle", "down"} : worker' = [worker EXCEPT ![w] = At(pc)]
    BY DEF StaleReport, Crash, Restart
  <1>3. RowsAreConsistent' /\ SuccessIsEarned' /\ jobs' \in [Jobs -> JobRecord]
    BY <1>1 DEF IInv, TypeOK, RowsAreConsistent, SuccessIsEarned
  <1>4. QED
    BY <1>1, <1>2, <1>3, WorkerStops

\* Every step preserves the invariant.
LEMMA StepKeeps == IInv /\ [Next]_vars => IInv'
  <1> SUFFICES ASSUME IInv, [Next]_vars PROVE IInv'
    OBVIOUS
  <1>1. CASE Tick
    BY <1>1, TickKeeps
  <1>2. ASSUME NEW j \in Jobs, Enqueue(j) PROVE IInv'
    BY <1>2, EnqueueKeeps
  <1>3. ASSUME NEW w \in Workers, WorkerStep(w) PROVE IInv'
    <2>1. CASE ReadClock(w)
      BY <2>1, ReadClockKeeps
    <2>2. CASE Claim(w)
      BY <2>2, ClaimNothingKeeps, ClaimJobKeeps DEF Claim
    <2>3. CASE Renew(w)
      BY <2>3, RenewKeeps
    <2>4. CASE \E result \in Results \ {"none"} : EndWork(w, result)
      BY <2>4, EndWorkKeeps
    <2>5. CASE Complete(w)
      BY <2>5, CompleteKeeps
    <2>6. CASE Fail(w)
      BY <2>6, FailKeeps
    <2>7. CASE StaleReport(w) \/ Crash(w) \/ Restart(w)
      BY <2>7, StopKeeps
    <2>8. QED
      BY <1>3, <2>1, <2>2, <2>3, <2>4, <2>5, <2>6, <2>7 DEF WorkerStep
  <1>4. CASE UNCHANGED vars
    BY <1>4
    DEF vars, IInv, TypeOK, RowsAreConsistent, ClaimsAreRecorded,
        OneHolderPerFence, Busy, SuccessIsEarned
  <1>5. QED
    BY <1>1, <1>2, <1>3, <1>4 DEF Next

\* The invariant holds in every reachable state.
LEMMA Invariance == Spec => []IInv
  BY InitEstablishes, StepKeeps, PTL DEF Spec

-----------------------------------------------------------------------------
(* Safety of the queue *)

\* Type correctness: in particular attempts never exceed the limit, whatever
\* crashes and expires.
THEOREM TypeCorrect == Spec => []TypeOK
  <1>1. IInv => TypeOK
    BY DEF IInv
  <1>2. QED
    BY <1>1, Invariance, PTL

\* Two processes at work on one job never carry the same fencing token.
THEOREM FencesAreUnique == Spec => []OneHolderPerFence
  <1>1. IInv => OneHolderPerFence
    BY DEF IInv
  <1>2. QED
    BY <1>1, Invariance, PTL

\* A row is leased exactly while it runs, and a job that waits for a claim
\* has an attempt left for it.
THEOREM RowsStayConsistent == Spec => []RowsAreConsistent
  <1>1. IInv => RowsAreConsistent
    BY DEF IInv
  <1>2. QED
    BY <1>1, Invariance, PTL

\* A succeeded job had its work done under its last token.
THEOREM SuccessIsAlwaysEarned == Spec => []SuccessIsEarned
  <1>1. IInv => SuccessIsEarned
    BY DEF IInv
  <1>2. QED
    BY <1>1, Invariance, PTL

-----------------------------------------------------------------------------
(* What a step may never do *)

\* Every row that a step rewrites was expired and exhausted (sweep), eligible
\* (claim), renewed, inserted or reported.
LEMMA RowSteps ==
    ASSUME IInv, [Next]_vars, NEW j \in Jobs, jobs'[j] # jobs[j]
    PROVE  \/ /\ jobs[j].status = "absent"
              /\ jobs'[j] = NewJob(j)
           \/ \E now \in 0..MaxTime :
                /\ now <= clock
                /\ \/ /\ Expired(j, now) /\ Exhausted(j)
                      /\ jobs'[j] = Unclaimed(jobs[j], "dead_letter")
                   \/ /\ j \in Eligible(now)
                      /\ \E w \in Workers : jobs'[j] = Leased(j, w, now)
           \/ \E w \in Workers :
                /\ Holds(w, j)
                /\ \/ /\ worker[w].pc = "working"
                      /\ jobs'[j] = [jobs[j] EXCEPT !.lease = Later(clock + Lease)]
                   \/ /\ worker[w].pc = "reporting"
                      /\ worker[w].result = "done"
                      /\ jobs'[j] = Unclaimed(jobs[j], "succeeded")
                   \/ /\ worker[w].pc = "reporting"
                      /\ worker[w].result # "done"
                      /\ RetryAt(w) \in 0..MaxTime
                      /\ jobs'[j] = Failed(j, worker[w].result = "retryable",
                                           RetryAt(w))
  <1>1. CASE \E k \in Jobs : Enqueue(k)
    BY <1>1 DEF Enqueue, IInv, TypeOK
  <1>2. ASSUME NEW w \in Workers, Claim(w)
        PROVE  \E now \in 0..MaxTime :
                /\ now <= clock
                /\ \/ /\ Expired(j, now) /\ Exhausted(j)
                      /\ jobs'[j] = Unclaimed(jobs[j], "dead_letter")
                   \/ /\ j \in Eligible(now)
                      /\ \E v \in Workers : jobs'[j] = Leased(j, v, now)
    <2> DEFINE now == worker[w].now
    <2>1. now \in 0..MaxTime /\ now <= clock
      BY DEF IInv, TypeOK, WorkerState, ClaimsAreRecorded
    <2>2. jobs'[j] = Swept(now)[j] =>
            /\ Expired(j, now) /\ Exhausted(j)
            /\ jobs'[j] = Unclaimed(jobs[j], "dead_letter")
      BY DEF Swept
    <2>3. CASE ClaimNothing(w)
      BY <2>1, <2>2, <2>3 DEF ClaimNothing
    <2>4. ASSUME NEW k \in Jobs, ClaimJob(w, k)
          PROVE  \/ jobs'[j] = Swept(now)[j]
                 \/ j \in Eligible(now) /\ jobs'[j] = Leased(j, w, now)
      <3>1. Swept(now) = [i \in Jobs |-> Swept(now)[i]]
        BY DEF Swept
      <3>2. k \in Eligible(now)
        BY <2>4 DEF ClaimJob, Earliest
      <3>3. jobs' = [Swept(now) EXCEPT ![k] = Leased(k, w, now)]
        BY <2>4 DEF ClaimJob
      <3>4. QED
        BY <3>1, <3>2, <3>3
    <2>5. QED
      BY <1>2, <2>1, <2>2, <2>3, <2>4 DEF Claim
  <1>3. ASSUME NEW w \in Workers, Renew(w)
        PROVE  /\ Holds(w, j) /\ worker[w].pc = "working"
               /\ jobs'[j] = [jobs[j] EXCEPT !.lease = Later(clock + Lease)]
    BY <1>3 DEF Renew, Holds, Busy, IInv, TypeOK
  <1>4. ASSUME NEW w \in Workers, Complete(w)
        PROVE  /\ Holds(w, j) /\ worker[w].pc = "reporting"
               /\ worker[w].result = "done"
               /\ jobs'[j] = Unclaimed(jobs[j], "succeeded")
    BY <1>4 DEF Complete, Holds, Busy, IInv, TypeOK
  <1>5. ASSUME NEW w \in Workers, Fail(w)
        PROVE  /\ Holds(w, j) /\ worker[w].pc = "reporting"
               /\ worker[w].result # "done"
               /\ RetryAt(w) \in 0..MaxTime
               /\ jobs'[j] = Failed(j, worker[w].result = "retryable", RetryAt(w))
    <2>1. worker[w].now \in Nat /\ worker[w].attempt \in Nat
      BY QueueAssumption DEF IInv, TypeOK, WorkerState
    <2>2. worker[w].now + BoundedRetryDelay(worker[w].attempt) \in Nat
      BY <2>1, DelayIsNatural
    <2>3. RetryAt(w) \in 0..MaxTime
      BY <2>2, LaterIsInstant DEF RetryAt
    <2>4. QED
      BY <1>5, <2>3 DEF Fail, Holds, Busy, IInv, TypeOK
  <1>6. \/ \E k \in Jobs : Enqueue(k)
        \/ \E w \in Workers : Claim(w) \/ Renew(w) \/ Complete(w) \/ Fail(w)
    BY DEF Next, vars, WorkerStep, Tick, ReadClock, EndWork, StaleReport, Crash,
           Restart
  <1>7. QED
    BY <1>1, <1>2, <1>3, <1>4, <1>5, <1>6

\* No late report, repeated insert or claim changes a settled job.
THEOREM TerminalStaysFinal == Spec => TerminalIsFinal
  <1>1. ASSUME IInv, [Next]_vars, NEW j \in Jobs, jobs[j].status \in Terminal
        PROVE  jobs'[j] = jobs[j]
    BY <1>1, RowSteps
    DEF Terminal, Expired, Eligible, Holds, FenceMatches
  <1>2. IInv /\ [Next]_vars =>
          [\A j \in Jobs : jobs[j].status \in Terminal => jobs'[j] = jobs[j]]_vars
    BY <1>1
  <1>3. QED
    BY <1>2, Invariance, PTL DEF Spec, TerminalIsFinal

\* A claim takes a running job only after its lease has run out.
THEOREM LeasesAreRespected == Spec => LeaseRespected
  <1>1. ASSUME IInv, [Next]_vars, NEW j \in Jobs,
               jobs[j].status = "running", jobs'[j].token # jobs[j].token
        PROVE  jobs[j].lease <= clock
    <2>1. jobs[j] \in JobRecord /\ clock \in Nat /\ jobs[j].lease \in Nat
      BY <1>1, QueueAssumption DEF IInv, TypeOK, JobRecord
    <2>2. ASSUME NEW status \in Statuses
          PROVE  Unclaimed(jobs[j], status).token = jobs[j].token
      BY <2>1, UnclaimedRow
    <2>3. ASSUME NEW retryable \in BOOLEAN, NEW retryAt \in 0..MaxTime
          PROVE  Failed(j, retryable, retryAt).token = jobs[j].token
      BY <1>1, FailedRow DEF IInv
    <2>4. [jobs[j] EXCEPT !.lease = Later(clock + Lease)].token = jobs[j].token
      BY <2>1 DEF JobRecord
    <2>5. "dead_letter" \in Statuses /\ "succeeded" \in Statuses
      BY DEF Statuses, Terminal
    <2>6. ASSUME NEW w \in Workers, RetryAt(w) \in 0..MaxTime
          PROVE  jobs'[j] # Failed(j, worker[w].result = "retryable", RetryAt(w))
      <3> DEFINE retryable == worker[w].result = "retryable"
      <3>1. retryable \in BOOLEAN
        OBVIOUS
      <3> HIDE DEF retryable
      <3>2. Failed(j, retryable, RetryAt(w)).token = jobs[j].token
        BY <2>3, <2>6, <3>1
      <3>3. jobs'[j] # Failed(j, retryable, RetryAt(w))
        BY <1>1, <3>2
      <3>4. QED
        BY <3>3 DEF retryable
    <2>7. \E now \in 0..MaxTime : now <= clock /\ j \in Eligible(now)
      BY <1>1, <2>2, <2>3, <2>4, <2>5, <2>6, RowSteps
    <2>8. QED
      BY <1>1, <2>1, <2>7, QueueAssumption DEF Eligible, Expired
  <1>2. IInv /\ [Next]_vars =>
          [\A j \in Jobs :
              (jobs[j].status = "running" /\ jobs'[j].token # jobs[j].token)
                  => jobs[j].lease <= clock]_vars
    BY <1>1
  <1>3. QED
    BY <1>2, Invariance, PTL DEF Spec, LeaseRespected

\* A job stops running by the report of its current holder, or by the sweep
\* of its last, expired lease.
THEOREM RunningAlwaysEndsLegally == Spec => RunningEndsLegally
  <1> DEFINE Legal(j) ==
        \/ \E w \in Workers :
            /\ Holds(w, j)
            /\ worker[w].pc = "reporting"
            /\ jobs'[j].status = "succeeded" <=> worker[w].result = "done"
            /\ jobs'[j].status = "retry" =>
                   worker[w].result = "retryable" /\ ~Exhausted(j)
        \/ /\ jobs'[j].status = "dead_letter"
           /\ jobs[j].lease <= clock
           /\ Exhausted(j)
  <1>1. ASSUME IInv, [Next]_vars, NEW j \in Jobs,
               jobs[j].status = "running", jobs'[j].status # "running"
        PROVE  Legal(j)
    <2>1. jobs[j] \in JobRecord /\ clock \in Nat /\ jobs[j].lease \in Nat
      BY <1>1, QueueAssumption DEF IInv, TypeOK, JobRecord
    <2>2. /\ Unclaimed(jobs[j], "succeeded").status = "succeeded"
          /\ Unclaimed(jobs[j], "dead_letter").status = "dead_letter"
      BY <2>1, UnclaimedRow DEF Statuses, Terminal
    <2>3. ASSUME NEW now \in 0..MaxTime, NEW w \in Workers, j \in Eligible(now)
          PROVE  Leased(j, w, now).status = "running"
      BY <1>1, <2>3, LeasedRow DEF IInv
    <2>4. [jobs[j] EXCEPT !.lease = Later(clock + Lease)].status = "running"
      BY <1>1, <2>1 DEF JobRecord
    <2>5. CASE \E now \in 0..MaxTime :
                 /\ now <= clock
                 /\ Expired(j, now) /\ Exhausted(j)
                 /\ jobs'[j] = Unclaimed(jobs[j], "dead_letter")
      BY <2>1, <2>2, <2>5, QueueAssumption DEF Expired
    <2>6. ASSUME NEW w \in Workers, Holds(w, j), worker[w].pc = "reporting",
                 worker[w].result = "done",
                 jobs'[j] = Unclaimed(jobs[j], "succeeded")
          PROVE  Legal(j)
      BY <2>2, <2>6
    <2>7. ASSUME NEW w \in Workers, Holds(w, j), worker[w].pc = "reporting",
                 worker[w].result # "done", RetryAt(w) \in 0..MaxTime,
                 jobs'[j] = Failed(j, worker[w].result = "retryable", RetryAt(w))
          PROVE  Legal(j)
      <3> DEFINE retryable == worker[w].result = "retryable"
      <3>1. retryable \in BOOLEAN /\ jobs'[j] = Failed(j, retryable, RetryAt(w))
        BY <2>7
      <3> HIDE DEF retryable
      <3>2. \/ jobs'[j].status = "dead_letter"
            \/ jobs'[j].status = "retry" /\ retryable /\ ~Exhausted(j)
        BY <1>1, <2>7, <3>1, FailedRow DEF IInv
      <3>3. QED
        BY <2>7, <3>2 DEF retryable
    <2> HIDE DEF Legal
    <2>8. QED
      BY <1>1, <2>3, <2>4, <2>5, <2>6, <2>7, RowSteps
  <1>2. IInv /\ [Next]_vars =>
          [\A j \in Jobs :
              (jobs[j].status = "running" /\ jobs'[j].status # "running")
                  => Legal(j)]_vars
    BY <1>1
  <1>3. QED
    BY <1>2, Invariance, PTL DEF Spec, RunningEndsLegally

-----------------------------------------------------------------------------
(* The queue implements AtLeastOnce *)

\* The phase of each status.
LEMMA PhaseOfStatus ==
    /\ PhaseOf("absent") = "absent"
    /\ \A status \in Open : PhaseOf(status) = "pending"
    /\ PhaseOf("succeeded") = "done"
    /\ PhaseOf("dead_letter") = "dead"
  BY DEF PhaseOf, Open

\* The empty table is a queue to which nothing was submitted.
LEMMA InitRefines == Init => Delivery!Init
  <1> SUFFICES ASSUME Init PROVE Delivery!Init
    OBVIOUS
  <1>1. ASSUME NEW j \in Jobs
        PROVE  jobs[j].status = "absent" /\ jobs[j].attempt = 0
    <2>1. jobs[j] = [NewJob(j) EXCEPT !.status = "absent"]
      BY DEF Init
    <2>2. QED
      BY <2>1 DEF NewJob
  <1>2. {j \in Jobs : performed[j] # {}} = {}
    BY DEF Init
  <1>3. QED
    BY <1>1, <1>2, PhaseOfStatus DEF Delivery!Init

\* The move of one job under a step of the queue.
LEMMA RowRefines ==
    ASSUME IInv, [Next]_vars, NEW j \in Jobs
    PROVE  \/ Delivery!Stays(j) \/ Delivery!Submits(j)
           \/ Delivery!Tries(j) \/ Delivery!Settles(j)
  <1>1. /\ jobs[j] \in JobRecord
        /\ jobs[j].status = "running" => jobs[j].status \in Open /\ jobs[j].attempt > 0
    <2>1. jobs[j] \in JobRecord /\ jobs[j].attempt \in Nat
      BY QueueAssumption DEF IInv, TypeOK, JobRecord
    <2>2. QED
      BY <2>1 DEF IInv, RowsAreConsistent, Open
  <1>2. /\ "dead_letter" \in Statuses /\ "succeeded" \in Statuses
        /\ "retry" \in Open /\ "running" \in Open /\ "queued" \in Open
    BY DEF Statuses, Terminal, Open
  <1>3. CASE jobs'[j] = jobs[j]
    BY <1>3 DEF Delivery!Stays
  <1>4. CASE jobs[j].status = "absent" /\ jobs'[j] = NewJob(j)
    <2>1. jobs[j].attempt = 0
      BY <1>4 DEF IInv, RowsAreConsistent
    <2>2. QED
      BY <1>2, <1>4, <2>1, PhaseOfStatus DEF NewJob, Delivery!Submits
  <1>5. CASE \E now \in 0..MaxTime :
               /\ Expired(j, now) /\ Exhausted(j)
               /\ jobs'[j] = Unclaimed(jobs[j], "dead_letter")
    <2>1. /\ jobs'[j].status = "dead_letter"
          /\ jobs'[j].attempt = jobs[j].attempt
          /\ jobs[j].status = "running"
      BY <1>1, <1>2, <1>5, UnclaimedRow DEF Expired
    <2>2. QED
      BY <1>1, <2>1, PhaseOfStatus DEF Delivery!Settles
  <1>6. ASSUME NEW now \in 0..MaxTime, NEW w \in Workers, j \in Eligible(now),
               jobs'[j] = Leased(j, w, now)
        PROVE  Delivery!Tries(j)
    <2>1. /\ jobs[j].status \in Open /\ jobs[j].attempt < MaxAttempts
          /\ jobs'[j].status = "running"
          /\ jobs'[j].attempt = jobs[j].attempt + 1
      BY <1>6, LeasedRow DEF IInv
    <2>2. QED
      BY <1>2, <2>1, PhaseOfStatus DEF Delivery!Tries
  <1>7. ASSUME NEW w \in Workers, Holds(w, j),
               \/ jobs'[j] = [jobs[j] EXCEPT !.lease = Later(clock + Lease)]
               \/ /\ worker[w].pc = "reporting"
                  /\ worker[w].result = "done"
                  /\ jobs'[j] = Unclaimed(jobs[j], "succeeded")
               \/ /\ RetryAt(w) \in 0..MaxTime
                  /\ jobs'[j] = Failed(j, worker[w].result = "retryable", RetryAt(w))
        PROVE  Delivery!Stays(j) \/ Delivery!Settles(j)
    <2>1. jobs[j].status = "running"
      BY <1>7 DEF Holds, FenceMatches
    <2>2. CASE jobs'[j] = [jobs[j] EXCEPT !.lease = Later(clock + Lease)]
      <3>1. jobs'[j].status = jobs[j].status /\ jobs'[j].attempt = jobs[j].attempt
        BY <1>1, <2>2 DEF JobRecord
      <3>2. QED
        BY <3>1 DEF Delivery!Stays
    <2>3. CASE /\ worker[w].pc = "reporting"
               /\ worker[w].result = "done"
               /\ jobs'[j] = Unclaimed(jobs[j], "succeeded")
      <3>1. jobs'[j].status = "succeeded" /\ jobs'[j].attempt = jobs[j].attempt
        BY <1>1, <1>2, <2>3, UnclaimedRow
      <3>2. performed[j] # {}
        BY <1>7, <2>3 DEF Holds, IInv, ClaimsAreRecorded
      <3>3. QED
        BY <1>1, <2>1, <3>1, <3>2, PhaseOfStatus DEF Delivery!Settles
    <2>4. CASE /\ RetryAt(w) \in 0..MaxTime
               /\ jobs'[j] = Failed(j, worker[w].result = "retryable", RetryAt(w))
      <3> DEFINE retryable == worker[w].result = "retryable"
      <3>1. retryable \in BOOLEAN /\ jobs'[j] = Failed(j, retryable, RetryAt(w))
        BY <2>4
      <3> HIDE DEF retryable
      <3>2. /\ jobs'[j].attempt = jobs[j].attempt
            /\ jobs'[j].status \in {"dead_letter", "retry"}
        BY <2>4, <3>1, FailedRow DEF IInv
      <3>3. QED
        BY <1>1, <1>2, <2>1, <3>2, PhaseOfStatus
        DEF Delivery!Settles, Delivery!Stays
    <2>5. QED
      BY <1>7, <2>2, <2>3, <2>4
  <1>8. QED
    BY <1>3, <1>4, <1>5, <1>6, <1>7, RowSteps

\* Every step of the queue is a step of AtLeastOnce or stutters.
LEMMA StepRefines ==
    ASSUME IInv, [Next]_vars
    PROVE  [Delivery!Next]_(Delivery!vars)
  <1>0. \/ performed' = performed
        \/ \E w \in Workers, result \in Results \ {"none"} : EndWork(w, result)
    BY DEF Next, vars, WorkerStep, Tick, Enqueue, ReadClock, Claim, ClaimNothing,
           ClaimJob, Renew, Complete, Fail, StaleReport, Crash, Restart
  <1>1. \A k \in Jobs : performed[k] \subseteq performed'[k]
    BY <1>0, ZenonT(30) DEF EndWork, IInv, TypeOK
  <1>2. ASSUME NEW k \in Jobs, performed'[k] # performed[k]
        PROVE  jobs[k].attempt > 0
    <2>1. PICK w \in Workers : \E result \in Results \ {"none"} : EndWork(w, result)
      BY <1>0, <1>2
    <2>2. k = worker[w].job /\ Busy(w)
      BY <1>2, <2>1 DEF EndWork, Busy, IInv, TypeOK
    <2>3. QED
      BY <2>2 DEF IInv, ClaimsAreRecorded
  <1>3. /\ {k \in Jobs : performed[k] # {}} \subseteq {k \in Jobs : performed'[k] # {}}
        /\ {k \in Jobs : performed'[k] # {}} \subseteq
             {k \in Jobs : performed[k] # {}} \cup {k \in Jobs : jobs[k].attempt > 0}
    BY <1>1, <1>2
  <1>4. Delivery!Performs
    <2>1. {k \in Jobs : [i \in Jobs |-> jobs[i].attempt][k] > 0}
            = {k \in Jobs : jobs[k].attempt > 0}
      OBVIOUS
    <2>2. QED
      BY <1>3, <2>1 DEF Delivery!Performs
  <1>5. QED
    BY <1>3, <1>4, RowRefines DEF Delivery!Next

\* The queue delivers every submitted job at least once, tries it at most
\* MaxAttempts times and settles it at most once.
THEOREM QueueImplementsAtLeastOnce == Spec => ImplementsAtLeastOnce
  BY InitRefines, StepRefines, Invariance, PTL
  DEF Spec, ImplementsAtLeastOnce, Delivery!Spec

-----------------------------------------------------------------------------
(* ProviderBudget: the inductive invariant *)

ReservationStatuses == {"reserved", "settled", "released"}

\* A call that has not reserved yet has no reservation row.
RowsFollowCalls ==
    \A c \in Calls :
        call[c].pc \in {"start", "reserving"} => reservation[c].status = "none"

BInv == BudgetTypeOK /\ RowsFollowCalls /\ LedgerBalances /\ NeverOverspent

-----------------------------------------------------------------------------
(* ProviderBudget: counting reservations *)

\* The reservations of an hour are finitely many.
LEMMA CountIsNatural ==
    ASSUME NEW rows, NEW status, NEW h
    PROVE  /\ IsFiniteSet(In(rows, status, h))
           /\ Cardinality(In(rows, status, h)) \in Nat
  BY BudgetAssumption, FS_Subset, FS_CardinalityType DEF In

\* When the reservation of one call changes its status, the count of the status
\* it enters grows by one, that of the status it leaves shrinks by one.
LEMMA CountMoves ==
    ASSUME NEW c \in Calls, NEW status, NEW h,
           \A d \in Calls : d # c => reservation'[d] = reservation[d],
           reservation'[c].status # reservation[c].status
    PROVE  Cardinality(In(reservation', status, h)) =
             IF reservation'[c].status = status /\ reservation'[c].hour = h
             THEN Cardinality(In(reservation, status, h)) + 1
             ELSE IF reservation[c].status = status /\ reservation[c].hour = h
             THEN Cardinality(In(reservation, status, h)) - 1
             ELSE Cardinality(In(reservation, status, h))
  <1>1. IsFiniteSet(In(reservation, status, h))
    BY CountIsNatural
  <1>2. CASE reservation'[c].status = status /\ reservation'[c].hour = h
    <2>1. In(reservation', status, h) = In(reservation, status, h) \cup {c}
      BY <1>2 DEF In
    <2>2. c \notin In(reservation, status, h)
      BY <1>2 DEF In
    <2>3. Cardinality(In(reservation, status, h) \cup {c}) = Cardinality(In(reservation, status, h)) + 1
      BY <1>1, <2>2, FS_AddElement
    <2>4. QED
      BY <1>2, <2>1, <2>3
  <1>3. CASE /\ ~(reservation'[c].status = status /\ reservation'[c].hour = h)
             /\ reservation[c].status = status /\ reservation[c].hour = h
    <2>1. In(reservation', status, h) = In(reservation, status, h) \ {c}
      BY <1>3 DEF In
    <2>2. c \in In(reservation, status, h)
      BY <1>3 DEF In
    <2>3. Cardinality(In(reservation, status, h) \ {c}) = Cardinality(In(reservation, status, h)) - 1
      BY <1>1, <2>2, FS_RemoveElement
    <2>4. QED
      BY <1>3, <2>1, <2>3
  <1>4. CASE /\ ~(reservation'[c].status = status /\ reservation'[c].hour = h)
             /\ ~(reservation[c].status = status /\ reservation[c].hour = h)
    <2>1. In(reservation', status, h) = In(reservation, status, h)
      BY <1>4 DEF In
    <2>2. QED
      BY <1>4, <2>1
  <1>5. QED
    BY <1>2, <1>3, <1>4

\* Finishing a unit takes it from the reserved ones and adds it to the settled
\* or to the released ones.
LEMMA FinishedRow ==
    ASSUME NEW row \in Window, row.reserved > 0, NEW status \in {"settled", "released"}
    PROVE  /\ Finished(row, status) \in Window
           /\ Finished(row, status).limit = row.limit
           /\ Finished(row, status).reserved = row.reserved - 1
           /\ Finished(row, status).settled =
                IF status = "settled" THEN row.settled + 1 ELSE row.settled
           /\ Finished(row, status).released =
                IF status = "settled" THEN row.released ELSE row.released + 1
  <1>1. row.reserved \in Nat /\ LessOne(row.reserved) = row.reserved - 1
        /\ LessOne(row.reserved) \in Nat
    BY DEF Window, LessOne
  <1> DEFINE fewer == LessOne(row.reserved)
  <1>2. CASE status = "settled"
    <2>1. Finished(row, status) = [row EXCEPT !.reserved = fewer, !.settled = @ + 1]
      BY <1>2 DEF Finished
    <2> HIDE DEF fewer
    <2>2. fewer = row.reserved - 1 /\ fewer \in Nat
      BY <1>1 DEF fewer
    <2>3. /\ row.settled \in Nat /\ row.released \in Nat
          /\ row.settled + 1 \in Nat /\ row.released + 1 \in Nat
      BY DEF Window
    <2>4. Finished(row, status) \in Window
      BY <2>1, <2>2, <2>3, Zenon DEF Window
    <2>5. QED
      BY <1>2, <2>1, <2>2, <2>4 DEF Window
  <1>3. CASE status = "released"
    <2>1. Finished(row, status) = [row EXCEPT !.reserved = fewer, !.released = @ + 1]
      BY <1>3 DEF Finished
    <2> HIDE DEF fewer
    <2>2. fewer = row.reserved - 1 /\ fewer \in Nat
      BY <1>1 DEF fewer
    <2>3. /\ row.settled \in Nat /\ row.released \in Nat
          /\ row.settled + 1 \in Nat /\ row.released + 1 \in Nat
      BY DEF Window
    <2>4. Finished(row, status) \in Window
      BY <2>1, <2>2, <2>3, Zenon DEF Window
    <2>5. QED
      BY <1>3, <2>1, <2>2, <2>4 DEF Window
  <1>4. QED
    BY <1>2, <1>3

\* A call that moves on is at its new place; the others stay where they are.
LEMMA GotoMoves ==
    ASSUME BudgetTypeOK, NEW c \in Calls, NEW pc \in {"calling", "reporting", "over"},
           Goto(c, pc)
    PROVE  /\ call' \in [Calls ->
                 [pc : {"start", "reserving", "calling", "reporting", "over"}, hour : Hours]]
           /\ call'[c].pc = pc
           /\ \A d \in Calls : d # c => call'[d] = call[d]
  BY DEF BudgetTypeOK, Goto

\* A step that leaves the ledger alone leaves its balance alone.
LEMMA LedgerUntouched ==
    ASSUME BInv, UNCHANGED <<window, reservation>>
    PROVE  LedgerBalances' /\ NeverOverspent'
  <1>1. window' = window /\ reservation' = reservation
    OBVIOUS
  <1>2. QED
    BY <1>1 DEF BInv, LedgerBalances, NeverOverspent

-----------------------------------------------------------------------------
(* ProviderBudget: the invariant is inductive *)

\* The empty ledger balances.
LEMMA BudgetInit_Inv == BudgetInit => BInv
  <1> SUFFICES ASSUME BudgetInit PROVE BInv
    OBVIOUS
  <1>1. BudgetTypeOK
    BY BudgetAssumption DEF BudgetInit, BudgetTypeOK, Hours, Window
  <1>2. RowsFollowCalls
    BY DEF BudgetInit, RowsFollowCalls
  <1>3. ASSUME NEW h \in Hours, NEW status \in ReservationStatuses
        PROVE  Cardinality(In(reservation, status, h)) = 0
    <2>1. In(reservation, status, h) = {}
      BY DEF BudgetInit, In, ReservationStatuses
    <2>2. QED
      BY <2>1, FS_EmptySet
  <1>4. LedgerBalances /\ NeverOverspent
    BY <1>3 DEF BudgetInit, LedgerBalances, NeverOverspent, ReservationStatuses
  <1>5. QED
    BY <1>1, <1>2, <1>4 DEF BInv

\* A reservation is admitted within the limit of its window and counted.
LEMMA ReserveKeeps ==
    ASSUME BInv, NEW c \in Calls, NEW limit \in Limits, Reserve(c, limit)
    PROVE  BInv'
  <1> DEFINE h == call[c].hour
             row == [status |-> "reserved", hour |-> h]
             after == [Opened(h, limit) EXCEPT !.reserved = @ + 1]
  <1>1. h \in Hours /\ window[h] \in Window /\ limit \in Nat \ {0}
    BY BudgetAssumption DEF BInv, BudgetTypeOK
  <1>2. /\ Opened(h, limit) \in Window
        /\ Opened(h, limit).limit = limit
        /\ Opened(h, limit).reserved = window[h].reserved
        /\ Opened(h, limit).settled = window[h].settled
        /\ Opened(h, limit).released = window[h].released
    BY <1>1 DEF Opened, Window, Reserve, Fits
  <1>3. /\ after \in Window
        /\ after.limit = limit
        /\ after.reserved = window[h].reserved + 1
        /\ after.settled = window[h].settled
        /\ after.released = window[h].released
    BY <1>2 DEF Window
  <1>4. /\ window' = [window EXCEPT ![h] = after]
        /\ reservation' = [reservation EXCEPT ![c] = row]
    BY DEF Reserve
  <1>5. reservation[c].status = "none"
    BY DEF BInv, RowsFollowCalls, Reserve
  <1> HIDE DEF after
  <1>6. BudgetTypeOK'
    <2>1. window' \in [Hours -> Window]
      BY <1>3, <1>4 DEF BInv, BudgetTypeOK
    <2>2. QED
      BY <1>1, <1>4, <2>1 DEF BInv, BudgetTypeOK, Reserve, Goto
  <1>7. RowsFollowCalls'
    BY <1>4 DEF BInv, BudgetTypeOK, RowsFollowCalls, Reserve, Goto
  <1>8. ASSUME NEW g \in Hours
        PROVE  /\ window'[g].reserved = Cardinality(In(reservation', "reserved", g))
               /\ window'[g].settled = Cardinality(In(reservation', "settled", g))
               /\ window'[g].released = Cardinality(In(reservation', "released", g))
    <2>1. ASSUME NEW status \in ReservationStatuses
          PROVE  Cardinality(In(reservation', status, g)) =
                   IF status = "reserved" /\ h = g
                   THEN Cardinality(In(reservation, status, g)) + 1
                   ELSE Cardinality(In(reservation, status, g))
      <3>1. /\ reservation'[c].status = "reserved" /\ reservation'[c].hour = h
            /\ \A d \in Calls : d # c => reservation'[d] = reservation[d]
        BY <1>4 DEF BInv, BudgetTypeOK
      <3>2. reservation'[c].status # reservation[c].status
        BY <1>5, <3>1
      <3>3. Cardinality(In(reservation', status, g)) =
              IF reservation'[c].status = status /\ reservation'[c].hour = g
              THEN Cardinality(In(reservation, status, g)) + 1
              ELSE IF reservation[c].status = status /\ reservation[c].hour = g
              THEN Cardinality(In(reservation, status, g)) - 1
              ELSE Cardinality(In(reservation, status, g))
        BY <3>1, <3>2, CountMoves
      <3>4. QED
        BY <1>5, <3>1, <3>2, <3>3 DEF ReservationStatuses
    <2>2. QED
      BY <1>1, <1>3, <1>4, <2>1 DEF BInv, BudgetTypeOK, LedgerBalances, ReservationStatuses
  <1>9. ASSUME NEW g \in Hours
        PROVE  window'[g].settled + window'[g].reserved <= window'[g].limit
    <2>1. CASE g = h
      <3>1. window'[g] = after
        BY <1>1, <1>4, <2>1 DEF BInv, BudgetTypeOK
      <3>2. window[h].settled + window[h].reserved + 1 <= limit
        BY DEF Reserve, Fits
      <3>3. window[h].settled \in Nat /\ window[h].reserved \in Nat
        BY <1>1 DEF Window
      <3>4. QED
        BY <1>1, <1>3, <3>1, <3>2, <3>3
    <2>2. CASE g # h
      BY <1>4, <2>2 DEF BInv, BudgetTypeOK, NeverOverspent
    <2>3. QED
      BY <2>1, <2>2
  <1>10. QED
    BY <1>6, <1>7, <1>8, <1>9 DEF BInv, LedgerBalances, NeverOverspent

\* Finishing a call moves its unit once, from reserved to where it belongs.
LEMMA FinishKeeps ==
    ASSUME BInv, NEW c \in Calls, NEW status \in {"settled", "released"},
           Finish(c, status), NEW pc \in {"reporting", "over"},
           call[c].pc \in {"calling", "reporting"}, Goto(c, pc), UNCHANGED hour
    PROVE  BInv'
  <1> DEFINE h == reservation[c].hour
  <1>1. CASE reservation[c].status # "reserved"
    <2>1. UNCHANGED <<window, reservation>>
      BY <1>1 DEF Finish
    <2>2. BudgetTypeOK' /\ RowsFollowCalls'
      BY <2>1, GotoMoves DEF BInv, BudgetTypeOK, RowsFollowCalls
    <2>3. QED
      BY <2>1, <2>2, LedgerUntouched DEF BInv
  <1>2. CASE reservation[c].status = "reserved"
    <2> DEFINE row == [reservation[c] EXCEPT !.status = status]
    <2>1. /\ h \in Hours /\ window[h] \in Window
          /\ row = [status |-> status, hour |-> h]
          /\ reservation' = [reservation EXCEPT ![c] = row]
      BY <1>2 DEF BInv, BudgetTypeOK, Finish
    <2>2. Cardinality(In(reservation, "reserved", h)) # 0
      <3>1. c \in In(reservation, "reserved", h)
        BY <1>2 DEF In
      <3>2. QED
        BY <3>1, CountIsNatural, FS_EmptySet
    <2>3. window[h].reserved > 0 /\ LessOne(window[h].reserved) = window[h].reserved - 1
      BY <2>1, <2>2 DEF BInv, LedgerBalances, LessOne, Window
    <2>4. /\ window'[h] = Finished(window[h], status)
          /\ \A g \in Hours : g # h => window'[g] = window[g]
          /\ window' \in [Hours -> {window[g] : g \in Hours} \cup {window'[h]}]
      BY <1>2, <2>1 DEF Finish, BInv, BudgetTypeOK
    <2>5. /\ window'[h] \in Window
          /\ window'[h].limit = window[h].limit
          /\ window'[h].reserved = window[h].reserved - 1
          /\ window'[h].settled = IF status = "settled" THEN window[h].settled + 1
                                  ELSE window[h].settled
          /\ window'[h].released = IF status = "settled" THEN window[h].released
                                   ELSE window[h].released + 1
      BY <2>1, <2>3, <2>4, FinishedRow
    <2>6. BudgetTypeOK'
      <3>1. window' \in [Hours -> Window]
        BY <2>4, <2>5 DEF BInv, BudgetTypeOK
      <3>2. row \in [status : {"none", "reserved", "settled", "released"}, hour : Hours]
        BY <2>1
      <3> HIDE DEF row
      <3>3. reservation' \in [Calls ->
                [status : {"none", "reserved", "settled", "released"}, hour : Hours]]
        BY <2>1, <3>2 DEF BInv, BudgetTypeOK
      <3>4. QED
        BY <3>1, <3>3, GotoMoves DEF BInv, BudgetTypeOK
    <2>7. RowsFollowCalls'
      BY <2>1, GotoMoves DEF BInv, BudgetTypeOK, RowsFollowCalls
    <2>8. ASSUME NEW g \in Hours, NEW s \in ReservationStatuses
          PROVE  Cardinality(In(reservation', s, g)) =
                   IF s = status /\ g = h THEN Cardinality(In(reservation, s, g)) + 1
                   ELSE IF s = "reserved" /\ g = h THEN Cardinality(In(reservation, s, g)) - 1
                   ELSE Cardinality(In(reservation, s, g))
      <3>1. /\ reservation'[c].status = status /\ reservation'[c].hour = h
            /\ \A d \in Calls : d # c => reservation'[d] = reservation[d]
        BY <2>1 DEF BInv, BudgetTypeOK
      <3>2. reservation'[c].status # reservation[c].status
        BY <1>2, <3>1
      <3>3. Cardinality(In(reservation', s, g)) =
              IF reservation'[c].status = s /\ reservation'[c].hour = g
              THEN Cardinality(In(reservation, s, g)) + 1
              ELSE IF reservation[c].status = s /\ reservation[c].hour = g
              THEN Cardinality(In(reservation, s, g)) - 1
              ELSE Cardinality(In(reservation, s, g))
        BY <3>1, <3>2, CountMoves
      <3>4. QED
        BY <1>2, <3>1, <3>3
    <2>9. LedgerBalances'
      <3>1. ASSUME NEW g \in Hours
            PROVE  /\ window'[g].reserved = Cardinality(In(reservation', "reserved", g))
                   /\ window'[g].settled = Cardinality(In(reservation', "settled", g))
                   /\ window'[g].released = Cardinality(In(reservation', "released", g))
        <4>1. /\ window[g].reserved = Cardinality(In(reservation, "reserved", g))
              /\ window[g].settled = Cardinality(In(reservation, "settled", g))
              /\ window[g].released = Cardinality(In(reservation, "released", g))
          BY DEF BInv, LedgerBalances
        <4>2. CASE g = h
          BY <2>5, <2>8, <4>1, <4>2 DEF ReservationStatuses
        <4>3. CASE g # h
          BY <2>4, <2>8, <4>1, <4>3 DEF ReservationStatuses
        <4>4. QED
          BY <4>2, <4>3
      <3>2. QED
        BY <3>1 DEF LedgerBalances
    <2>10. NeverOverspent'
      <3>1. ASSUME NEW g \in Hours
            PROVE  window'[g].settled + window'[g].reserved <= window'[g].limit
        <4>1. /\ window[g].settled \in Nat /\ window[g].reserved \in Nat
              /\ window[g].limit \in Nat
              /\ window[g].settled + window[g].reserved <= window[g].limit
          <5>1. window[g] \in Window
            BY DEF BInv, BudgetTypeOK
          <5>2. /\ window[g].settled \in Nat /\ window[g].reserved \in Nat
                /\ window[g].limit \in Limits \cup {0}
            BY <5>1 DEF Window
          <5>3. window[g].limit \in Nat
            <6>1. Limits \cup {0} \subseteq Nat
              BY BudgetAssumption
            <6>2. QED
              BY <5>2, <6>1
          <5>4. window[g].settled + window[g].reserved <= window[g].limit
            BY DEF BInv, NeverOverspent
          <5>5. QED
            BY <5>2, <5>3, <5>4
        <4>2. QED
          BY <2>4, <2>5, <4>1
      <3>2. QED
        BY <3>1 DEF NeverOverspent
    <2>11. QED
      BY <2>6, <2>7, <2>9, <2>10 DEF BInv
  <1>3. QED
    BY <1>1, <1>2

\* Every step preserves the invariant.
LEMMA BudgetStep == BInv /\ [BudgetNext]_budgetVars => BInv'
  <1> SUFFICES ASSUME BInv, [BudgetNext]_budgetVars PROVE BInv'
    OBVIOUS
  <1>1. CASE NextHour
    <2>1. BudgetTypeOK' /\ RowsFollowCalls'
      BY <1>1, BudgetAssumption DEF NextHour, BInv, BudgetTypeOK, RowsFollowCalls, Hours
    <2>2. QED
      BY <1>1, <2>1, LedgerUntouched DEF NextHour, BInv
  <1>2. ASSUME NEW c \in Calls, Step(c) PROVE BInv'
    <2>1. CASE \/ ReadHour(c) \/ \E limit \in Limits : Refuse(c, limit)
               \/ CompleteCall(c) \/ CrashCall(c)
      <3>1. UNCHANGED <<window, reservation, hour>>
        BY <2>1 DEF ReadHour, Refuse, CompleteCall, CrashCall
      <3>2. ASSUME ReadHour(c) PROVE BudgetTypeOK' /\ RowsFollowCalls'
        BY <3>1, <3>2 DEF ReadHour, BInv, BudgetTypeOK, RowsFollowCalls
      <3>3. ASSUME Goto(c, "over") PROVE BudgetTypeOK' /\ RowsFollowCalls'
        BY <3>1, <3>3, GotoMoves DEF BInv, BudgetTypeOK, RowsFollowCalls
      <3>4. BudgetTypeOK' /\ RowsFollowCalls'
        BY <2>1, <3>2, <3>3 DEF Refuse, CompleteCall, CrashCall
      <3>5. QED
        BY <3>1, <3>4, LedgerUntouched DEF BInv
    <2>2. ASSUME NEW limit \in Limits, Reserve(c, limit) PROVE BInv'
      BY <2>2, ReserveKeeps
    <2>3. CASE Settle(c)
      BY <2>3, FinishKeeps DEF Settle
    <2>4. CASE Release(c)
      BY <2>4, FinishKeeps DEF Release
    <2>5. QED
      BY <1>2, <2>1, <2>2, <2>3, <2>4 DEF Step
  <1>3. CASE UNCHANGED budgetVars
    <2>1. BudgetTypeOK' /\ RowsFollowCalls'
      BY <1>3 DEF budgetVars, BInv, BudgetTypeOK, RowsFollowCalls
    <2>2. QED
      BY <1>3, <2>1, LedgerUntouched DEF budgetVars, BInv
  <1>4. QED
    BY <1>1, <1>2, <1>3 DEF BudgetNext

\* The invariant holds in every reachable state.
LEMMA BudgetInvHolds == BudgetSpec => []BInv
  BY BudgetInit_Inv, BudgetStep, PTL DEF BudgetSpec

-----------------------------------------------------------------------------
(* ProviderBudget: the ledger is right *)

\* The rows of the ledger have their types.
THEOREM BudgetIsTyped == BudgetSpec => []BudgetTypeOK
  <1>1. BInv => BudgetTypeOK
    BY DEF BInv
  <1>2. QED
    BY <1>1, BudgetInvHolds, PTL

\* The counters of every window agree with its reservations.
THEOREM LedgerAlwaysBalances == BudgetSpec => []LedgerBalances
  <1>1. BInv => LedgerBalances
    BY DEF BInv
  <1>2. QED
    BY <1>1, BudgetInvHolds, PTL

\* Concurrent calls never spend more than the limit of a window.
THEOREM BudgetIsNeverOverspent == BudgetSpec => []NeverOverspent
  <1>1. BInv => NeverOverspent
    BY DEF BInv
  <1>2. QED
    BY <1>1, BudgetInvHolds, PTL
=============================================================================
