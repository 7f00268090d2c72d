----------------------------- MODULE IngestQueue -----------------------------
(***************************************************************************)
(* The durable ingest queue and the worker processes that drain it.        *)
(*                                                                         *)
(* The table of jobs is shared (PostgreSQL, or the in-memory port with the *)
(* same contract); every queue call is one transaction and so one action.  *)
(* A worker is a loop of awaited calls: read the clock, claim, do the      *)
(* work, report.  Anything may happen between two of them, including the   *)
(* death of the process, which the deployment restarts.                    *)
(*                                                                         *)
(* Times are instants of one clock.  MaxTime stands for "any later         *)
(* instant": arithmetic on instants saturates there, so whatever is due in *)
(* the far future is due at MaxTime, and no behaviour is cut off.          *)
(***************************************************************************)
EXTENDS Naturals, FiniteSets

CONSTANTS
    Jobs,           \* identities (source, request, instant) hashed into a job_id
    Workers,        \* worker processes
    ScheduledAt,    \* ScheduledAt[j]: the instant that is part of j's identity
    MaxAttempts,    \* IngestJob.max_attempts
    Lease,          \* lease_seconds of claim
    MaxRetryDelay,  \* MAX_RETRY_DELAY_SECONDS
    MaxTime,        \* horizon of the clock
    NoJob, NoWorker

ASSUME QueueAssumption ==
    /\ MaxAttempts \in Nat \ {0}
    /\ Lease \in Nat \ {0}
    /\ MaxRetryDelay \in Nat
    /\ MaxTime \in Nat \ {0}
    /\ ScheduledAt \in [Jobs -> 0..MaxTime]
    /\ NoJob \notin Jobs
    /\ NoWorker \notin Workers

VARIABLES
    clock,      \* the current instant
    jobs,       \* the ingest_job table: a record for every identity
    worker,     \* the local state of each worker process
    performed   \* performed[j]: fencing tokens under which j's work returned

vars == <<clock, jobs, worker, performed>>

Open     == {"queued", "running", "retry"}
Terminal == {"succeeded", "dead_letter"}
Statuses == {"absent"} \cup Open \cup Terminal
Results  == {"none", "done", "retryable", "terminal"}

JobRecord ==
    [status : Statuses, attempt : 0..MaxAttempts, scheduled : 0..MaxTime,
     lease : 0..MaxTime, token : Nat, claimedBy : Workers \cup {NoWorker}]

WorkerState ==
    [pc : {"down", "idle", "claiming", "working", "reporting"},
     now : 0..MaxTime, job : Jobs \cup {NoJob}, token : Nat,
     attempt : 0..MaxAttempts, result : Results]

TypeOK ==
    /\ clock \in 0..MaxTime
    /\ jobs \in [Jobs -> JobRecord]
    /\ worker \in [Workers -> WorkerState]
    /\ performed \in [Jobs -> SUBSET Nat]

-----------------------------------------------------------------------------
(* Time and the retry policy *)

Later(t) == IF t < MaxTime THEN t ELSE MaxTime

\* failure_policy.bounded_retry_delay
BoundedRetryDelay(attempt) ==
    IF 2^attempt \in 0..MaxRetryDelay THEN 2^attempt ELSE MaxRetryDelay

-----------------------------------------------------------------------------
(* The table of jobs.  lease = 0 stands for a NULL lease_expires_at. *)

\* Faulty variant: the claim is given up, its lease is not.
UnclaimedKeepsLease(row, status) ==
    [row EXCEPT !.status = status, !.claimedBy = NoWorker]

Unclaimed(row, status) ==
    [row EXCEPT !.status = status, !.lease = 0, !.claimedBy = NoWorker]

NewJob(j) ==
    [status |-> "queued", attempt |-> 0, scheduled |-> ScheduledAt[j],
     lease |-> 0, token |-> 0, claimedBy |-> NoWorker]

-----------------------------------------------------------------------------
(* Faulty variants of the operators below: plausible bugs that each property *)
(* is validated against.  Nothing refers to them.                            *)

\* An expiry that forgets to look at the lease.
ExpiredAtOnce(j, now) == jobs[j].status = "running"

\* An attempt limit that is off by one.
ExhaustedOneLate(j) == jobs[j].attempt > MaxAttempts

\* A claim that hands out the previous fencing token again.
LeasedUnderOldToken(j, w, now) ==
    [jobs[j] EXCEPT !.status = "running", !.claimedBy = w,
                    !.lease = Later(now + Lease), !.attempt = @ + 1]

\* A report accepted under any token while the job runs.
FenceIgnoresToken(j, token) == jobs[j].status = "running"

\* A retry that starts counting attempts again.
FailedForgetsAttempts(j, retryable, retryAt) ==
    IF retryable /\ jobs[j].attempt < MaxAttempts
    THEN [Unclaimed(jobs[j], "retry") EXCEPT !.scheduled = retryAt, !.attempt = 0]
    ELSE Unclaimed(jobs[j], "dead_letter")

\* An insert that replaces the row it conflicts with.
EnqueueOverwrites(j) ==
    /\ ScheduledAt[j] <= clock
    /\ jobs' = [jobs EXCEPT ![j] = NewJob(j)]
    /\ UNCHANGED <<clock, worker, performed>>

-----------------------------------------------------------------------------
(* The claim, as one transaction on the table *)

Expired(j, now) == jobs[j].status = "running" /\ jobs[j].lease <= now

Exhausted(j) == jobs[j].attempt >= MaxAttempts

\* First statement of claim: expired leases with no attempt left.
Swept(now) ==
    [j \in Jobs |-> IF Expired(j, now) /\ Exhausted(j)
                    THEN Unclaimed(jobs[j], "dead_letter")
                    ELSE jobs[j]]

Eligible(now) ==
    {j \in Jobs :
        /\ \/ jobs[j].status \in {"queued", "retry"}
           \/ Expired(j, now) /\ ~Exhausted(j)
        /\ jobs[j].scheduled <= now}

\* ORDER BY scheduled_for, job_id: the identity is a hash, so any job of the
\* earliest instant may come first.
Earliest(S) == {j \in S : \A k \in S : jobs[j].scheduled <= jobs[k].scheduled}

Leased(j, w, now) ==
    [jobs[j] EXCEPT !.status = "running", !.claimedBy = w,
                    !.lease = Later(now + Lease),
                    !.token = @ + 1, !.attempt = @ + 1]

FenceMatches(j, token) == jobs[j].status = "running" /\ jobs[j].token = token

\* fail: a retry goes back to the table at retryAt unless attempts ran out.
Failed(j, retryable, retryAt) ==
    IF retryable /\ ~Exhausted(j)
    THEN [Unclaimed(jobs[j], "retry") EXCEPT !.scheduled = retryAt]
    ELSE Unclaimed(jobs[j], "dead_letter")

-----------------------------------------------------------------------------
(* Worker processes *)

At(pc) == [pc |-> pc, now |-> 0, job |-> NoJob, token |-> 0, attempt |-> 0,
           result |-> "none"]

Init ==
    /\ clock = 0
    /\ jobs = [j \in Jobs |-> [NewJob(j) EXCEPT !.status = "absent"]]
    /\ worker = [w \in Workers |-> At("idle")]
    /\ performed = [j \in Jobs |-> {}]

Tick ==
    /\ clock < MaxTime
    /\ clock' = clock + 1
    /\ UNCHANGED <<jobs, worker, performed>>

\* A scheduler inserts the job of an instant that has come; the insert of an
\* identity that is already in the table does nothing.
Enqueue(j) ==
    /\ ScheduledAt[j] <= clock
    /\ jobs' = IF jobs[j].status = "absent"
               THEN [jobs EXCEPT ![j] = NewJob(j)] ELSE jobs
    /\ UNCHANGED <<clock, worker, performed>>

\* run_once: now = self._clock(), used for the claim and for the report.
ReadClock(w) ==
    /\ worker[w].pc = "idle"
    /\ worker' = [worker EXCEPT ![w] = [@ EXCEPT !.pc = "claiming", !.now = clock]]
    /\ UNCHANGED <<clock, jobs, performed>>

ClaimNothing(w) ==
    /\ worker[w].pc = "claiming"
    /\ Eligible(worker[w].now) = {}
    /\ jobs' = Swept(worker[w].now)
    /\ worker' = [worker EXCEPT ![w] = At("idle")]
    /\ UNCHANGED <<clock, performed>>

ClaimJob(w, j) ==
    LET row == Leased(j, w, worker[w].now) IN
    /\ worker[w].pc = "claiming"
    /\ j \in Earliest(Eligible(worker[w].now))
    /\ jobs' = [Swept(worker[w].now) EXCEPT ![j] = row]
    /\ worker' = [worker EXCEPT ![w] =
            [@ EXCEPT !.pc = "working", !.job = j,
                      !.token = row.token, !.attempt = row.attempt]]
    /\ UNCHANGED <<clock, performed>>

Claim(w) == ClaimNothing(w) \/ \E j \in Jobs : ClaimJob(w, j)

\* renew of the queue port: only the current, unexpired claim is extended.
Renew(w) ==
    /\ worker[w].pc = "working"
    /\ LET j == worker[w].job IN
        /\ FenceMatches(j, worker[w].token)
        /\ jobs[j].claimedBy = w
        /\ jobs[j].lease > clock
        /\ jobs' = [jobs EXCEPT ![j].lease = Later(clock + Lease)]
    /\ UNCHANGED <<clock, worker, performed>>

\* The awaited work returns ("done"), or raises an error the policy retries
\* ("retryable") or dead-letters ("terminal": ValueError, unknown source).
EndWork(w, result) ==
    /\ worker[w].pc = "working"
    /\ worker' = [worker EXCEPT ![w] = [@ EXCEPT !.pc = "reporting", !.result = result]]
    /\ performed' = IF result = "done"
                    THEN [performed EXCEPT ![worker[w].job] = @ \cup {worker[w].token}]
                    ELSE performed
    /\ UNCHANGED <<clock, jobs>>

Complete(w) ==
    /\ worker[w].pc = "reporting"
    /\ worker[w].result = "done"
    /\ FenceMatches(worker[w].job, worker[w].token)
    /\ jobs' = [jobs EXCEPT ![worker[w].job] = Unclaimed(@, "succeeded")]
    /\ worker' = [worker EXCEPT ![w] = At("idle")]
    /\ UNCHANGED <<clock, performed>>

\* retry_at counts from the instant the worker read before its claim.
RetryAt(w) == Later(worker[w].now + BoundedRetryDelay(worker[w].attempt))

Fail(w) ==
    /\ worker[w].pc = "reporting"
    /\ worker[w].result \in {"retryable", "terminal"}
    /\ FenceMatches(worker[w].job, worker[w].token)
    /\ jobs' = [jobs EXCEPT ![worker[w].job] =
            Failed(worker[w].job, worker[w].result = "retryable", RetryAt(w))]
    /\ worker' = [worker EXCEPT ![w] = At("idle")]
    /\ UNCHANGED <<clock, performed>>

\* complete and fail raise RuntimeError on a lost fence; nothing in the worker
\* loop catches it, so the process ends.
StaleReport(w) ==
    /\ worker[w].pc = "reporting"
    /\ ~FenceMatches(worker[w].job, worker[w].token)
    /\ worker' = [worker EXCEPT ![w] = At("down")]
    /\ UNCHANGED <<clock, jobs, performed>>

Crash(w) ==
    /\ worker[w].pc # "down"
    /\ worker' = [worker EXCEPT ![w] = At("down")]
    /\ UNCHANGED <<clock, jobs, performed>>

\* restart: unless-stopped
Restart(w) ==
    /\ worker[w].pc = "down"
    /\ worker' = [worker EXCEPT ![w] = At("idle")]
    /\ UNCHANGED <<clock, jobs, performed>>

WorkerStep(w) ==
    \/ ReadClock(w) \/ Claim(w) \/ Renew(w)
    \/ \E result \in Results \ {"none"} : EndWork(w, result)
    \/ Complete(w) \/ Fail(w) \/ StaleReport(w) \/ Crash(w) \/ Restart(w)

Next ==
    \/ Tick
    \/ \E j \in Jobs : Enqueue(j)
    \/ \E w \in Workers : WorkerStep(w)

Spec == Init /\ [][Next]_vars

-----------------------------------------------------------------------------
(* Fairness: time passes, awaited work ends, a dead process is restarted,   *)
(* and a worker that is up again and again gets through its next poll: it   *)
(* may crash any number of times, but not before every single claim.        *)

Fairness ==
    /\ WF_vars(Tick)
    /\ \A w \in Workers :
        /\ WF_vars(Restart(w))
        /\ SF_vars(ReadClock(w))
        /\ SF_vars(Claim(w))
        /\ WF_vars(\E result \in Results \ {"none"} : EndWork(w, result))
        /\ WF_vars(Complete(w) \/ Fail(w) \/ StaleReport(w))

FairSpec == Spec /\ Fairness

-----------------------------------------------------------------------------
(* Properties *)

Busy(w) == worker[w].pc \in {"working", "reporting"}

Holds(w, j) ==
    /\ Busy(w)
    /\ worker[w].job = j
    /\ FenceMatches(j, worker[w].token)

\* A fencing token is handed out once: two processes that work on the same
\* job at the same time (the first outlived its lease) carry different
\* tokens, so at most one of them can still report.
OneHolderPerFence ==
    \A w1, w2 \in Workers :
        /\ Busy(w1) /\ Busy(w2)
        /\ worker[w1].job = worker[w2].job
        /\ worker[w1].token = worker[w2].token
        => w1 = w2

\* A row is leased exactly while it runs, a job waiting in the table has an
\* attempt left, and a settled job was attempted: no combination of sweeps,
\* retries and lost reports leaves a job no claim can ever pick up.
RowsAreConsistent ==
    \A j \in Jobs :
        LET row == jobs[j] IN
        /\ row.status = "running" <=> row.lease > 0
        /\ row.status = "running" <=> row.claimedBy # NoWorker
        /\ row.status \in {"absent", "queued"} <=> row.attempt = 0
        /\ row.status = "retry" => row.attempt < MaxAttempts

\* A job counts as succeeded only if the work of its last claim returned,
\* not the work of an attempt that had lost the job by then.
SuccessIsEarned ==
    \A j \in Jobs :
        jobs[j].status = "succeeded" => jobs[j].token \in performed[j]

\* A settled job never changes again: not by a late report, a second insert
\* of its identity, or a claim.
TerminalIsFinal ==
    [][\A j \in Jobs : jobs[j].status \in Terminal => jobs'[j] = jobs[j]]_vars

\* A running job is taken from its worker only after its lease has run out,
\* although claims compare the lease with an instant read earlier.
LeaseRespected ==
    [][\A j \in Jobs :
        (jobs[j].status = "running" /\ jobs'[j].token # jobs[j].token)
            => jobs[j].lease <= clock]_vars

\* A job stops running only through the report of the process that holds its
\* current fence, with the outcome that process had, or, after its last
\* attempt, because the lease ran out.
RunningEndsLegally ==
    [][\A j \in Jobs :
        (jobs[j].status = "running" /\ jobs'[j].status # "running") =>
            \/ \E w \in Workers :
                /\ Holds(w, j)
                /\ worker[w].pc = "reporting"
                /\ jobs'[j].status = "succeeded" <=> worker[w].result = "done"
                /\ jobs'[j].status = "retry" =>
                       worker[w].result = "retryable" /\ ~Exhausted(j)
            \/ /\ jobs'[j].status = "dead_letter"
               /\ jobs[j].lease <= clock
               /\ Exhausted(j)]_vars

\* The queue is an at-least-once delivery with bounded tries.
PhaseOf(status) ==
    CASE status = "absent" -> "absent"
      [] status \in Open -> "pending"
      [] status = "succeeded" -> "done"
      [] status = "dead_letter" -> "dead"

Delivery == INSTANCE AtLeastOnce WITH
    MaxTries  <- MaxAttempts,
    phase     <- [j \in Jobs |-> PhaseOf(jobs[j].status)],
    tries     <- [j \in Jobs |-> jobs[j].attempt],
    performed <- {j \in Jobs : performed[j] # {}}

\* Every behaviour of the queue is one of AtLeastOnce.
ImplementsAtLeastOnce == Delivery!Spec

\* Whatever crashes, expires or fails, an enqueued job is settled in the end:
\* it never stays leased to a dead process or parked in retry.
EveryJobIsSettled ==
    \A j \in Jobs :
        jobs[j].status # "absent" ~> jobs[j].status \in Terminal
=============================================================================
