------------------------------ MODULE GroundJobs ------------------------------
(***************************************************************************)
(* The queue of ground imagery preparations in PostgreSQL, the API         *)
(* processes that enqueue into it and the workers that drain it.           *)
(*                                                                         *)
(* An operation is a transaction at READ COMMITTED.  Those that rest on a  *)
(* single row are one action.  Two are not: an admission reads the table   *)
(* in one statement and inserts in another, under an advisory lock, and a  *)
(* claim decides on the snapshot its statement began with while other      *)
(* transactions commit, and looks again only at the row it locks.          *)
(*                                                                         *)
(* While a preparation runs, a second task of its worker renews the lease. *)
(* Times are instants of one clock; MaxTime stands for any later instant.  *)
(***************************************************************************)
EXTENDS Naturals, FiniteSets

CONSTANTS
    Requests,       \* ground imagery requests
    Targets,        \* what to prepare: version, sensor, role, overview, kind
    Workers,        \* worker processes
    Clients,        \* API processes
    MaxAttempts,    \* max_attempts of a job
    MaxPending,     \* maximum_pending of the queue
    Lease,          \* lease_seconds
    MaxRetryDelay,  \* the hour that bounds retry_time
    QuotaDelays,    \* retry_after_seconds of a refused preparation
    MaxTime,        \* horizon of the clock
    NoJob, NoWorker, NoInstant

\* job_id is a hash of the request and of all that is to be prepared.
Jobs == Requests \X Targets

ASSUME GroundJobsAssumption ==
    /\ MaxAttempts \in Nat \ {0}
    /\ MaxPending \in Nat \ {0}
    /\ Lease \in Nat \ {0}
    /\ MaxRetryDelay \in Nat
    /\ QuotaDelays \subseteq Nat
    /\ MaxTime \in Nat \ {0}
    /\ IsFiniteSet(Jobs)
    /\ NoJob \notin Jobs
    /\ NoWorker \notin Workers
    /\ NoInstant \notin Nat

VARIABLES
    clock,
    jobs,       \* the imagery_jobs table
    admission,  \* the enqueue transaction of each client
    worker      \* the local state of each worker process

vars == <<clock, jobs, admission, worker>>

Later(t) == IF t < MaxTime THEN t ELSE MaxTime

Pending == {"queued", "running", "retry_wait"}
Settled == {"succeeded", "failed"}
Instants == 0..MaxTime

\* asked: progress still says what the job was enqueued for.
JobRecord ==
    [status : {"absent"} \cup Pending \cup Settled, attempt : 0..MaxAttempts,
     next : Instants, lease : Instants \cup {NoInstant}, token : Nat,
     claimedBy : Workers \cup {NoWorker}, asked : BOOLEAN]

WorkerState ==
    [pc : {"down", "idle", "claiming", "choosing", "working", "completing", "failing"},
     at : Instants, seen : SUBSET Jobs, job : Jobs \cup {NoJob}, token : Nat,
     renewal : Instants \cup {NoInstant}]

Admission == [job : Jobs \cup {NoJob}, at : Instants, known : BOOLEAN, full : BOOLEAN]

TypeOK ==
    /\ clock \in Instants
    /\ jobs \in [Jobs -> JobRecord]
    /\ admission \in [Clients -> Admission]
    /\ worker \in [Workers -> WorkerState]

-----------------------------------------------------------------------------
(* Faulty variants of the operators below: plausible bugs that each property *)
(* is validated against.  Nothing refers to them.                            *)

\* An attempt limit that is off by one.
ExhaustedOneLate(row) == row.attempt > MaxAttempts

\* The claim is given up, its lease is not.
UnclaimedKeepsLease(row, status) ==
    [row EXCEPT !.status = status, !.claimedBy = NoWorker]

\* A claim that sweeps nothing.
SweptNothing(now) == jobs

\* A claim that hands out the previous fencing token again.
LeasedUnderOldToken(row, p, now) ==
    [row EXCEPT !.status = "running", !.claimedBy = p, !.lease = Later(now + Lease),
                !.attempt = @ + 1]

\* A report accepted under its token whatever has become of the job.
FenceIgnoresStatus(j, token) == jobs[j].token = token

\* An admission without the advisory lock.
LockForgotten == TRUE

-----------------------------------------------------------------------------
(* Rows of the table.  A lease is NoInstant when lease_expires_at is NULL. *)

NewJob(at) ==
    [status |-> "queued", attempt |-> 0, next |-> at, lease |-> NoInstant,
     token |-> 0, claimedBy |-> NoWorker, asked |-> TRUE]

Unclaimed(row, status) ==
    [row EXCEPT !.status = status, !.lease = NoInstant, !.claimedBy = NoWorker]

Expired(row, now) == row.status = "running" /\ row.lease <= now

Live(row, now) == row.status = "running" /\ row.lease > now

Exhausted(row) == row.attempt >= MaxAttempts

\* What a claim asks of the row it takes.
Claimable(row, now) ==
    /\ \/ row.status \in {"queued", "retry_wait"}
       \/ Expired(row, now) /\ ~Exhausted(row)
    /\ row.next <= now

\* The claim's first statement; it replaces progress by a diagnosis.
Swept(now) ==
    [j \in Jobs |-> IF Expired(jobs[j], now) /\ Exhausted(jobs[j])
                    THEN [Unclaimed(jobs[j], "failed") EXCEPT !.asked = FALSE]
                    ELSE jobs[j]]

\* No other job of the request runs under a lease that still holds.
RequestIsFree(table, j, now) ==
    \A k \in Jobs : (k[1] = j[1] /\ k # j) => ~Live(table[k], now)

Candidates(table, now) ==
    {j \in Jobs : Claimable(table[j], now) /\ RequestIsFree(table, j, now)}

Leased(row, p, now) ==
    [row EXCEPT !.status = "running", !.claimedBy = p, !.lease = Later(now + Lease),
                !.token = @ + 1, !.attempt = @ + 1]

FenceMatches(j, token) == jobs[j].status = "running" /\ jobs[j].token = token

\* retry_time, in units of its shortest delay of 30 seconds.
RetryDelay(attempt) ==
    IF 2^(attempt - 1) \in 0..MaxRetryDelay THEN 2^(attempt - 1) ELSE MaxRetryDelay

\* fail: a retry is due at retryAt; progress keeps nothing but the diagnosis.
Failed(row, retryAt) ==
    [Unclaimed(row, IF Exhausted(row) THEN "failed" ELSE "retry_wait")
        EXCEPT !.next = retryAt, !.asked = FALSE]

At(pc) == [pc |-> pc, at |-> 0, seen |-> {}, job |-> NoJob, token |-> 0,
           renewal |-> NoInstant]

NoAdmission == [job |-> NoJob, at |-> 0, known |-> FALSE, full |-> FALSE]

Init ==
    /\ clock = 0
    /\ jobs = [j \in Jobs |-> [NewJob(0) EXCEPT !.status = "absent"]]
    /\ admission = [c \in Clients |-> NoAdmission]
    /\ worker = [p \in Workers |-> At("idle")]

Tick ==
    /\ clock < MaxTime
    /\ clock' = clock + 1
    /\ UNCHANGED <<jobs, admission, worker>>

-----------------------------------------------------------------------------
(* enqueue *)

PendingJobs == {j \in Jobs : jobs[j].status \in Pending}

LockIsFree == \A c \in Clients : admission[c].job = NoJob

\* The advisory lock is taken, the identity looked up, the pending jobs counted.
Admit(c, j) ==
    /\ LockIsFree
    /\ admission' = [admission EXCEPT ![c] =
            [job |-> j, at |-> clock, known |-> jobs[j].status # "absent",
             full |-> Cardinality(PendingJobs) >= MaxPending]]
    /\ UNCHANGED <<clock, jobs, worker>>

\* The insert and the commit, which releases the lock.  A known identity is
\* left alone; a full queue raises GroundImageryQueueFull.
EndAdmission(c) ==
    LET mine == admission[c] IN
    /\ mine.job # NoJob
    /\ jobs' = IF mine.known \/ mine.full THEN jobs
               ELSE [jobs EXCEPT ![mine.job] = NewJob(mine.at)]
    /\ admission' = [admission EXCEPT ![c] = NoAdmission]
    /\ UNCHANGED <<clock, worker>>

\* The connection is lost: the transaction is rolled back.
AbandonAdmission(c) ==
    /\ admission[c].job # NoJob
    /\ admission' = [admission EXCEPT ![c] = NoAdmission]
    /\ UNCHANGED <<clock, jobs, worker>>

-----------------------------------------------------------------------------
(* claim *)

\* run_once: now = self._clock(), before the call.
ReadClock(p) ==
    /\ worker[p].pc = "idle"
    /\ worker' = [worker EXCEPT ![p] = [@ EXCEPT !.pc = "claiming", !.at = clock]]
    /\ UNCHANGED <<clock, jobs, admission>>

\* The sweep, and the snapshot of the second statement.  The swept rows stay
\* locked until the commit, so that whoever would change them waits for it; a
\* sweep undone by a crash is repeated by the next claim.
BeginClaim(p) ==
    /\ worker[p].pc = "claiming"
    /\ jobs' = Swept(worker[p].at)
    /\ worker' = [worker EXCEPT ![p] =
            [@ EXCEPT !.pc = "choosing", !.seen = Candidates(jobs', worker[p].at)]]
    /\ UNCHANGED <<clock, admission>>

\* Faulty variant: a candidate is taken as the snapshot showed it.
TakeBySnapshot(p, j) ==
    LET row == Leased(jobs[j], p, worker[p].at) IN
    /\ worker[p].pc = "choosing"
    /\ j \in worker[p].seen
    /\ ~Exhausted(jobs[j])
    /\ jobs' = [jobs EXCEPT ![j] = row]
    /\ worker' = [worker EXCEPT ![p] =
            [At("working") EXCEPT !.job = j, !.token = row.token]]
    /\ UNCHANGED <<clock, admission>>

\* A candidate's row is locked and, if it has changed, judged anew; whether its
\* request is free is not, for that is the snapshot's business.
Take(p, j) ==
    LET row == Leased(jobs[j], p, worker[p].at) IN
    /\ worker[p].pc = "choosing"
    /\ j \in worker[p].seen
    /\ Claimable(jobs[j], worker[p].at)
    /\ jobs' = [jobs EXCEPT ![j] = row]
    /\ worker' = [worker EXCEPT ![p] =
            [At("working") EXCEPT !.job = j, !.token = row.token]]
    /\ UNCHANGED <<clock, admission>>

\* There was no candidate, or every one was locked by others or has gone.
TakeNothing(p) ==
    /\ worker[p].pc = "choosing"
    /\ worker' = [worker EXCEPT ![p] = At("idle")]
    /\ UNCHANGED <<clock, jobs, admission>>

-----------------------------------------------------------------------------
(* The preparation, the renewal of its lease, and the report *)

Goto(p, pc) == worker' = [worker EXCEPT ![p] = [@ EXCEPT !.pc = pc, !.renewal = NoInstant]]

\* The except branch reads its clock after the unit has been released.
Raises(p) ==
    worker' = [worker EXCEPT ![p] =
        [@ EXCEPT !.pc = "failing", !.at = clock, !.renewal = NoInstant]]

BeginRenewal(p) ==
    /\ worker[p].pc = "working"
    /\ worker[p].renewal = NoInstant
    /\ worker' = [worker EXCEPT ![p].renewal = clock]
    /\ UNCHANGED <<clock, jobs, admission>>

\* renew compares and extends the lease by the instant that was read before.
Renew(p) ==
    LET j == worker[p].job
        now == worker[p].renewal IN
    /\ worker[p].pc = "working"
    /\ now # NoInstant
    /\ FenceMatches(j, worker[p].token)
    /\ Live(jobs[j], now)
    /\ jobs' = [jobs EXCEPT ![j].lease = Later(now + Lease)]
    /\ worker' = [worker EXCEPT ![p].renewal = NoInstant]
    /\ UNCHANGED <<clock, admission>>

\* A refused renewal cancels the preparation: GroundImageryLeaseLost.
LeaseLost(p) ==
    LET j == worker[p].job
        now == worker[p].renewal IN
    /\ worker[p].pc = "working"
    /\ now # NoInstant
    /\ ~(FenceMatches(j, worker[p].token) /\ Live(jobs[j], now))
    /\ Raises(p)
    /\ UNCHANGED <<clock, jobs, admission>>

Prepared(p) ==
    /\ worker[p].pc = "working"
    /\ Goto(p, "completing")
    /\ UNCHANGED <<clock, jobs, admission>>

\* No unit left, a refused or failed preparation, a renewal that raised.
PreparationRaises(p) ==
    /\ worker[p].pc = "working"
    /\ Raises(p)
    /\ UNCHANGED <<clock, jobs, admission>>

Complete(p) ==
    /\ worker[p].pc = "completing"
    /\ FenceMatches(worker[p].job, worker[p].token)
    /\ jobs' = [jobs EXCEPT ![worker[p].job] = Unclaimed(@, "succeeded")]
    /\ worker' = [worker EXCEPT ![p] = At("idle")]
    /\ UNCHANGED <<clock, admission>>

\* The settlement or the completion raises: for a lost fence, or for an error
\* of the database, and then a job whose work is done fails.
CompletionRaises(p) ==
    /\ worker[p].pc = "completing"
    /\ Raises(p)
    /\ UNCHANGED <<clock, jobs, admission>>

\* A quota names its own delay.  What follows a last attempt, the request being
\* marked as failed, changes nothing here.
Fail(p) ==
    /\ worker[p].pc = "failing"
    /\ FenceMatches(worker[p].job, worker[p].token)
    /\ \E delay \in {RetryDelay(jobs[worker[p].job].attempt)} \cup QuotaDelays :
        jobs' = [jobs EXCEPT ![worker[p].job] =
            Failed(@, IF Exhausted(@) THEN worker[p].at ELSE Later(worker[p].at + delay))]
    /\ worker' = [worker EXCEPT ![p] = At("idle")]
    /\ UNCHANGED <<clock, admission>>

\* The RuntimeError of a lost fence is swallowed: the newer worker reports.
FailRefused(p) ==
    /\ worker[p].pc = "failing"
    /\ ~FenceMatches(worker[p].job, worker[p].token)
    /\ worker' = [worker EXCEPT ![p] = At("idle")]
    /\ UNCHANGED <<clock, jobs, admission>>

Crash(p) ==
    /\ worker[p].pc # "down"
    /\ worker' = [worker EXCEPT ![p] = At("down")]
    /\ UNCHANGED <<clock, jobs, admission>>

Restart(p) ==
    /\ worker[p].pc = "down"
    /\ worker' = [worker EXCEPT ![p] = At("idle")]
    /\ UNCHANGED <<clock, jobs, admission>>

Enqueue(c) ==
    \/ \E j \in Jobs : Admit(c, j)
    \/ EndAdmission(c) \/ AbandonAdmission(c)

Report(p) == Complete(p) \/ CompletionRaises(p) \/ Fail(p) \/ FailRefused(p)

Work(p) ==
    \/ ReadClock(p) \/ BeginClaim(p)
    \/ \E j \in Jobs : Take(p, j)
    \/ TakeNothing(p)
    \/ BeginRenewal(p) \/ Renew(p) \/ LeaseLost(p)
    \/ Prepared(p) \/ PreparationRaises(p)
    \/ Report(p) \/ Crash(p) \/ Restart(p)

Next ==
    \/ Tick
    \/ \E c \in Clients : Enqueue(c)
    \/ \E p \in Workers : Work(p)

Spec == Init /\ [][Next]_vars

-----------------------------------------------------------------------------
(* Fairness: time passes, preparations end, dead processes are restarted,   *)
(* and a worker that is up again and again gets through a claim: neither    *)
(* its death nor the locks of others thwart every single one.               *)

Fairness ==
    /\ WF_vars(Tick)
    /\ \A p \in Workers :
        /\ WF_vars(Restart(p))
        /\ SF_vars(ReadClock(p))
        /\ SF_vars(BeginClaim(p))
        /\ SF_vars(\E j \in Jobs : Take(p, j))
        /\ WF_vars(TakeNothing(p))
        /\ WF_vars(Prepared(p) \/ PreparationRaises(p) \/ LeaseLost(p))
        /\ WF_vars(Report(p))

FairSpec == Spec /\ Fairness

-----------------------------------------------------------------------------
(* Properties *)

Busy(p) == worker[p].pc \in {"working", "completing", "failing"}

\* Whatever the API processes enqueue at once, no more than maximum_pending
\* jobs wait or run: each counts before it inserts, and retries stay counted.
PendingBounded == Cardinality(PendingJobs) <= MaxPending

\* Two workers at the same job, one of which has lost it, carry different
\* fencing tokens: claims that saw the same candidate do not both get it.
OneHolderPerFence ==
    \A p, q \in Workers :
        /\ Busy(p) /\ Busy(q)
        /\ worker[p].job = worker[q].job
        /\ worker[p].token = worker[q].token
        => p = q

\* A row is leased exactly while it runs, and a job that waits for a retry has
\* an attempt left: no job ends up where neither a claim nor a sweep finds it.
RowsAreConsistent ==
    \A j \in Jobs :
        LET row == jobs[j] IN
        /\ row.status = "running" <=> row.lease # NoInstant
        /\ row.status = "running" <=> row.claimedBy # NoWorker
        /\ row.status \in {"absent", "queued"} <=> row.attempt = 0
        /\ row.status = "retry_wait" => ~Exhausted(row)

\* A running job changes hands only when its lease has run out, however old
\* the snapshot is that the claim decided on, and however often its worker
\* renewed the lease in the meantime.
LeaseRespected ==
    [][\A j \in Jobs :
        (jobs[j].status = "running" /\ jobs'[j].token # jobs[j].token)
            => Expired(jobs[j], clock)]_vars

\* A settled job is never run, reported or enqueued again, not even by a claim
\* that had seen it as a candidate before it was settled.
SettledIsFinal ==
    [][\A j \in Jobs : jobs[j].status \in Settled => jobs'[j] = jobs[j]]_vars

\* Whoever crashes, every job that was admitted is settled in the end.
EveryJobIsSettled ==
    \A j \in Jobs : jobs[j].status # "absent" ~> jobs[j].status \in Settled

\* "PostgreSQL-backed leased preparation jobs with fencing tokens, bounded
\* retry/backoff" (docs/ground-imagery.md:58): a job that may run again still
\* knows what it is to prepare, and does not fall back to the defaults of _job.
RetriesKnowTheirTarget ==
    \A j \in Jobs : jobs[j].status \in Pending => jobs[j].asked
=============================================================================
