--------------------------- MODULE IncidentWatches ---------------------------
(***************************************************************************)
(* Incident watches: the user's commands on them, the scheduler that puts  *)
(* due watches into the ingest queue, and the workers that refresh them.   *)
(*                                                                         *)
(* A refresh is a chain of awaited calls (get the watch, read its previous *)
(* successful observation, ask the providers, record), so commands, other  *)
(* refreshes and the death of the worker fall between any two of them.     *)
(*                                                                         *)
(* The queue is the one of IngestQueue without its clock: every instant    *)
(* the code stores is a fresh number, any scheduled job may be due, and    *)
(* the lease of any running job may have run out, because ingest workers   *)
(* never renew it while a refresh takes as long as its providers do.       *)
(***************************************************************************)
EXTENDS Naturals, FiniteSets

CONSTANTS
    Watches,        \* watch identities
    Events,         \* physical events the providers may report
    Workers,
    MaxAttempts,
    MaxInstants,    \* bound on the instants handed out
    Answers,        \* observations the providers may produce
    NoJob, NoObservation

Ids == Watches \X (1..MaxInstants)

\* state_hash covers the incidents, success and retryability of a result.
\* A result can be retryable and yet successful: one provider of several
\* failed and another returned events.
Observations ==
    [successful : BOOLEAN, retryable : BOOLEAN, events : SUBSET Events]

ASSUME WatchAssumption ==
    /\ MaxAttempts \in Nat \ {0}
    /\ MaxInstants \in Nat
    /\ NoJob \notin Ids
    /\ Answers \subseteq Observations
    /\ NoObservation \notin Observations

VARIABLES
    instant,    \* instants handed out so far
    watch,      \* the incident_watch rows
    known,      \* events of the latest successful observation of each watch
    appeared,   \* appeared[w][e]: NEW_EVENT changes of e on w's timeline
    vanished,   \* vanished[w][e]: OBSERVATION_GAP changes
    jobs,       \* ingest_job rows; a job is a watch and its next_refresh_at
    due,        \* what the scheduler read from due_watches and not enqueued yet
    worker,
    overlapped  \* of which watches two refreshes were in flight at once

timeline == <<known, appeared, vanished, overlapped>>
vars == <<instant, watch, timeline, jobs, due, worker>>

Terminal == {"succeeded", "dead_letter"}

WatchRecord == [state : {"absent", "enabled", "disabled", "deleted"}, next : 0..MaxInstants]

JobRecord == [status : {"absent", "queued", "running", "retry"} \cup Terminal,
              attempt : 0..MaxAttempts, token : Nat]

WorkerState ==
    [pc : {"down", "idle", "get", "read", "observe", "record", "confirm", "reporting"},
     job : Ids \cup {NoJob}, token : Nat,
     previous : SUBSET Events, at : 0..MaxInstants,
     current : Answers \cup {NoObservation},
     result : {"none", "done", "retryable", "terminal"}]

TypeOK ==
    /\ instant \in 0..MaxInstants
    /\ watch \in [Watches -> WatchRecord]
    /\ known \in [Watches -> SUBSET Events]
    /\ appeared \in [Watches -> [Events -> Nat]]
    /\ vanished \in [Watches -> [Events -> Nat]]
    /\ overlapped \subseteq Watches
    /\ jobs \in [Ids -> JobRecord]
    /\ due \subseteq Ids
    /\ worker \in [Workers -> WorkerState]

At(pc) == [pc |-> pc, job |-> NoJob, token |-> 0, previous |-> {}, at |-> 0,
           current |-> NoObservation, result |-> "none"]

Nothing == [e \in Events |-> 0]

Init ==
    /\ instant = 0
    /\ watch = [w \in Watches |-> [state |-> "absent", next |-> 0]]
    /\ known = [w \in Watches |-> {}]
    /\ appeared = [w \in Watches |-> Nothing]
    /\ vanished = [w \in Watches |-> Nothing]
    /\ jobs = [id \in Ids |-> [status |-> "absent", attempt |-> 0, token |-> 0]]
    /\ due = {}
    /\ worker = [p \in Workers |-> At("idle")]
    /\ overlapped = {}

\* Faulty variant: deleted watches still count.
ExistsOnceCreated(w) == watch[w].state # "absent"

Exists(w) == watch[w].state \in {"enabled", "disabled"}

\* The clock is read: every reading is a new instant.
NewInstant ==
    /\ instant < MaxInstants
    /\ instant' = instant + 1

\* w is due at once.
DueNow(w) ==
    /\ NewInstant
    /\ watch' = [watch EXCEPT ![w] = [state |-> "enabled", next |-> instant']]

-----------------------------------------------------------------------------
(* Commands of the user *)

Create(w) ==
    /\ watch[w].state = "absent"
    /\ DueNow(w)
    /\ UNCHANGED <<timeline, jobs, due, worker>>

\* Faulty variant: enabling leaves the instant of the next refresh alone.
EnableKeepsInstant(w) ==
    /\ Exists(w)
    /\ watch' = [watch EXCEPT ![w].state = "enabled"]
    /\ UNCHANGED <<instant, timeline, jobs, due, worker>>

\* Enabling makes a watch due at once, even one that is enabled already.
Enable(w) ==
    /\ Exists(w)
    /\ DueNow(w)
    /\ UNCHANGED <<timeline, jobs, due, worker>>

Disable(w) ==
    /\ Exists(w)
    /\ watch' = [watch EXCEPT ![w].state = "disabled"]
    /\ UNCHANGED <<instant, timeline, jobs, due, worker>>

\* The rows of a deleted watch go with it (ON DELETE CASCADE); identities are
\* never reused.
Delete(w) ==
    /\ Exists(w)
    /\ watch' = [watch EXCEPT ![w].state = "deleted"]
    /\ known' = [known EXCEPT ![w] = {}]
    /\ appeared' = [appeared EXCEPT ![w] = Nothing]
    /\ vanished' = [vanished EXCEPT ![w] = Nothing]
    /\ UNCHANGED <<instant, jobs, due, worker, overlapped>>

-----------------------------------------------------------------------------
(* The scheduler: one query for the due watches, then one insert for each *)

ReadDue(scheduled) ==
    /\ due = {}
    /\ scheduled # {}
    /\ scheduled \subseteq {<<w, watch[w].next>> :
            w \in {v \in Watches : watch[v].state = "enabled"}}
    /\ due' = scheduled
    /\ UNCHANGED <<instant, watch, timeline, jobs, worker>>

EnqueueDue(id) ==
    /\ id \in due
    /\ due' = due \ {id}
    /\ jobs' = IF jobs[id].status = "absent"
               THEN [jobs EXCEPT ![id].status = "queued"] ELSE jobs
    /\ UNCHANGED <<instant, watch, timeline, worker>>

\* The scheduler dies between the query and the inserts.
SchedulerRestart ==
    /\ due' = {}
    /\ UNCHANGED <<instant, watch, timeline, jobs, worker>>

-----------------------------------------------------------------------------
(* The queue as the worker sees it *)

Running == {id \in Ids : jobs[id].status = "running"}

\* Faulty variant: an attempt limit that is off by one.
ExhaustedOneLate(id) == jobs[id].attempt > MaxAttempts

Exhausted(id) == jobs[id].attempt >= MaxAttempts

\* claim dead-letters the exhausted jobs among those whose lease has expired.
Swept(expired) ==
    [id \in Ids |-> IF id \in expired /\ Exhausted(id)
                    THEN [jobs[id] EXCEPT !.status = "dead_letter"]
                    ELSE jobs[id]]

Claim(p, expired) ==
    /\ worker[p].pc = "idle"
    /\ expired \subseteq Running
    /\ \/ /\ \E id \in expired : Exhausted(id)
          /\ jobs' = Swept(expired)
          /\ UNCHANGED worker
       \/ \E id \in Ids :
          /\ \/ jobs[id].status \in {"queued", "retry"}
             \/ id \in expired /\ ~Exhausted(id)
          /\ jobs' = [Swept(expired) EXCEPT ![id] =
                [status |-> "running", attempt |-> @.attempt + 1,
                 token |-> @.token + 1]]
          /\ worker' = [worker EXCEPT ![p] =
                [@ EXCEPT !.pc = "get", !.job = id, !.token = jobs[id].token + 1]]
    /\ UNCHANGED <<instant, watch, timeline, due>>

FenceMatches(p) ==
    /\ jobs[worker[p].job].status = "running"
    /\ jobs[worker[p].job].token = worker[p].token

-----------------------------------------------------------------------------
(* RefreshIncidentWatch.execute and IncidentWatchWorker.run_once *)

Target(p) == worker[p].job[1]

Goto(p, pc) == worker' = [worker EXCEPT ![p].pc = pc]

\* The refresh of p's job is over; the report still needs its job and fence.
Ends(p, result) ==
    worker' = [worker EXCEPT ![p] =
        [@ EXCEPT !.pc = "reporting", !.result = result,
                  !.previous = {}, !.at = 0, !.current = NoObservation]]

\* A missing watch completes the job, and so does a disabled one.
GetWatch(p) ==
    /\ worker[p].pc = "get"
    /\ IF watch[Target(p)].state = "enabled" THEN Goto(p, "read") ELSE Ends(p, "done")
    /\ UNCHANGED <<instant, watch, timeline, jobs, due>>

\* A refresh has read what it will compare with and has not recorded yet.
InFlight(p) == worker[p].pc \in {"observe", "record"}

\* The previous observation is read, then the clock, then the providers asked.
ReadPrevious(p) ==
    /\ worker[p].pc = "read"
    /\ NewInstant
    /\ worker' = [worker EXCEPT ![p] =
            [@ EXCEPT !.pc = "observe", !.previous = known[Target(p)], !.at = instant']]
    /\ overlapped' = overlapped \cup {Target(q) : q \in
            {r \in Workers \ {p} : InFlight(r) /\ Target(r) = Target(p)}}
    /\ UNCHANGED <<watch, known, appeared, vanished, jobs, due>>

\* The providers answer; their own failures are part of the observation.
Observe(p, observation) ==
    /\ worker[p].pc = "observe"
    /\ worker' = [worker EXCEPT ![p] =
            [@ EXCEPT !.pc = "record", !.current = observation]]
    /\ UNCHANGED <<instant, watch, timeline, jobs, due>>

\* An exception ends the refresh: a database error at any of its calls is
\* retried; the code around the guarded provider calls may also raise
\* ValueError, which is terminal.
Raise(p, result) ==
    /\ worker[p].pc \in {"get", "read", "observe", "record", "confirm"}
    /\ result = "terminal" => worker[p].pc = "observe"
    /\ Ends(p, result)
    /\ UNCHANGED <<instant, watch, timeline, jobs, due>>

\* Faulty variant: an unsuccessful observation announces events as well.
NewEventsOfAnyAnswer(p) == worker[p].current.events \ worker[p].previous

\* Faulty variant: a first observation is a baseline, nothing in it is new.
NewEventsAfterBaseline(p) ==
    IF worker[p].current.successful /\ worker[p].previous # {}
    THEN worker[p].current.events \ worker[p].previous ELSE {}

\* IncidentChangeDetector.detect: membership changes against the previous
\* successful observation, none at all for an unsuccessful one.
NewEvents(p) ==
    IF worker[p].current.successful
    THEN worker[p].current.events \ worker[p].previous ELSE {}

Gaps(p) ==
    IF worker[p].current.successful
    THEN worker[p].previous \ worker[p].current.events ELSE {}

Counted(counts, events) ==
    [e \in Events |-> IF e \in events THEN counts[e] + 1 ELSE counts[e]]

\* record_watch_refresh, one transaction on the locked watch row.  It checks
\* neither the enabled flag nor the job's fence, and the next refresh counts
\* from the instant of the observation: at stands for that later instant too.
Record(p) ==
    LET w == Target(p) IN
    /\ worker[p].pc = "record"
    /\ Exists(w)
    /\ watch' = [watch EXCEPT ![w].next = worker[p].at]
    /\ known' = IF worker[p].current.successful
                THEN [known EXCEPT ![w] = worker[p].current.events] ELSE known
    /\ appeared' = [appeared EXCEPT ![w] = Counted(@, NewEvents(p))]
    /\ vanished' = [vanished EXCEPT ![w] = Counted(@, Gaps(p))]
    /\ Goto(p, "confirm")
    /\ UNCHANGED <<instant, jobs, due, overlapped>>

\* record_watch_refresh on a watch deleted meanwhile: ValueError.
RecordDeleted(p) ==
    /\ worker[p].pc = "record"
    /\ ~Exists(Target(p))
    /\ Ends(p, "terminal")
    /\ UNCHANGED <<instant, watch, timeline, jobs, due>>

Confirm(p) ==
    /\ worker[p].pc = "confirm"
    /\ Ends(p, IF Exists(Target(p)) /\ worker[p].current.retryable
               THEN "retryable" ELSE "done")
    /\ UNCHANGED <<instant, watch, timeline, jobs, due>>

Settled(p) ==
    IF worker[p].result = "done" THEN "succeeded"
    ELSE IF worker[p].result = "retryable" /\ ~Exhausted(worker[p].job) THEN "retry"
    ELSE "dead_letter"

Report(p) ==
    /\ worker[p].pc = "reporting"
    /\ FenceMatches(p)
    /\ jobs' = [jobs EXCEPT ![worker[p].job].status = Settled(p)]
    /\ worker' = [worker EXCEPT ![p] = At("idle")]
    /\ UNCHANGED <<instant, watch, timeline, due>>

StaleReport(p) ==
    /\ worker[p].pc = "reporting"
    /\ ~FenceMatches(p)
    /\ worker' = [worker EXCEPT ![p] = At("down")]
    /\ UNCHANGED <<instant, watch, timeline, jobs, due>>

Crash(p) ==
    /\ worker[p].pc # "down"
    /\ worker' = [worker EXCEPT ![p] = At("down")]
    /\ UNCHANGED <<instant, watch, timeline, jobs, due>>

Restart(p) ==
    /\ worker[p].pc = "down"
    /\ worker' = [worker EXCEPT ![p] = At("idle")]
    /\ UNCHANGED <<instant, watch, timeline, jobs, due>>

UserCommand(w) == Create(w) \/ Enable(w) \/ Disable(w) \/ Delete(w)

Refresh(p) ==
    \/ \E expired \in SUBSET Running : Claim(p, expired)
    \/ GetWatch(p) \/ ReadPrevious(p)
    \/ \E observation \in Answers : Observe(p, observation)
    \/ \E result \in {"retryable", "terminal"} : Raise(p, result)
    \/ Record(p) \/ RecordDeleted(p) \/ Confirm(p)
    \/ Report(p) \/ StaleReport(p) \/ Crash(p) \/ Restart(p)

Next ==
    \/ \E w \in Watches : UserCommand(w)
    \/ \E scheduled \in SUBSET Ids : ReadDue(scheduled)
    \/ \E id \in Ids : EnqueueDue(id)
    \/ SchedulerRestart
    \/ \E p \in Workers : Refresh(p)

Spec == Init /\ [][Next]_vars

-----------------------------------------------------------------------------
(* Properties *)

\* "Replaying identical normalized evidence does not create duplicate changes
\* or unread alerts" (docs/disaster-capabilities.md:136): on each timeline an
\* event appears once, then alternates between gap and reappearance, and the
\* last of these changes agrees with the latest successful observation.
TimelineMatchesEvidence ==
    \A w \in Watches : \A e \in Events :
        appeared[w][e] = vanished[w][e] + (IF e \in known[w] THEN 1 ELSE 0)

\* Only refreshes that overlap can spoil a timeline, and even they leave no event
\* known to a watch without ever having been announced.
TimelineIsTrue ==
    \A w \in Watches : \A e \in Events :
        /\ e \in known[w] => appeared[w][e] > 0
        /\ w \notin overlapped =>
                appeared[w][e] = vanished[w][e] + (IF e \in known[w] THEN 1 ELSE 0)

\* Deleting a watch removes its observations and changes for good: a refresh
\* in flight when the user deletes it brings nothing back.
DeletedLeavesNothing ==
    \A w \in Watches :
        watch[w].state = "deleted" =>
            /\ known[w] = {}
            /\ appeared[w] = Nothing
            /\ vanished[w] = Nothing

\* A watch never waits for an instant whose job has succeeded: that job would
\* not be enqueued again.  A refresh that ends well has moved the watch on, or
\* found it disabled, and enabling moves it on as well.
SuccessMovesWatchOn ==
    \A w \in Watches :
        watch[w].state = "enabled" =>
            jobs[<<w, watch[w].next>>].status # "succeeded"

\* "The existing scheduler and worker refresh enabled watches"
\* (docs/disaster-capabilities.md:125): the job of the instant an enabled watch
\* waits for is still to come, for a settled one is never enqueued again.
EnabledWatchHasRefreshAhead ==
    \A w \in Watches :
        watch[w].state = "enabled" =>
            jobs[<<w, watch[w].next>>].status \notin Terminal
=============================================================================
