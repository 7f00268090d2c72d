-------------------------- MODULE GroundPreparation --------------------------
(***************************************************************************)
(* One ground imagery request: the commands of its users and the workers   *)
(* that prepare its images.                                                *)
(*                                                                         *)
(* A request is one document.  Every operation reads it, awaits something  *)
(* (the catalogue, a rendering, the queue) and saves the whole document it *)
(* has built from what it read; the store refuses nothing but a document   *)
(* of an older version.  So a copy of the request is part of the state of  *)
(* each client and worker.                                                 *)
(*                                                                         *)
(* The queue is the one of GroundJobs without its clock: a job that waits  *)
(* may be due, and the lease of a running one may have run out.            *)
(***************************************************************************)
EXTENDS Naturals, FiniteSets

CONSTANTS
    Targets,        \* sensors and roles, with overview and output kind
    Default,        \* the target _job falls back to
    Commands,       \* what the users do
    Clients, Workers,
    Mortal,         \* the clients and workers that may die
    MaxAttempts,
    MaxVersion,     \* bound on request_version
    NoJob

Versions == 1..MaxVersion
Ids == Versions \X Targets      \* preparation_job hashes both

ASSUME PreparationAssumption ==
    /\ Default \in Targets
    /\ Commands \subseteq {"prepare", "cancel", "refresh", "select", "watch"}
    /\ Mortal \subseteq Clients \cup Workers
    /\ MaxAttempts \in Nat \ {0}
    /\ MaxVersion \in Nat \ {0}
    /\ NoJob \notin Ids

VARIABLES
    request,    \* the stored document
    jobs,       \* the rows of its jobs
    client, worker

vars == <<request, jobs, client, worker>>

Pending == {"queued", "running", "retry_wait"}

\* selected names the observation selected for a target by the version that
\* chose it; an artifact is a target and the observation it shows.
Document ==
    [version : Versions, state : {"ready", "partial", "queued", "failed", "cancelled"},
     selected : [Targets -> Versions], artifacts : SUBSET (Targets \X Versions)]

\* target: what the row would have a worker prepare.
JobRecord ==
    [status : {"absent", "succeeded", "failed"} \cup Pending,
     attempt : 0..MaxAttempts, token : Nat, target : Targets]

ClientState ==
    [pc : {"idle", "look", "enqueue", "save"},
     command : Commands \cup {"none"}, target : Targets, copy : Document]

WorkerState ==
    [pc : {"down", "idle", "open", "prepare", "publish", "judge", "conclude",
           "record", "complete", "fail", "mark", "marking"},
     job : Ids \cup {NoJob}, token : Nat, target : Targets, copy : Document]

TypeOK ==
    /\ request \in Document
    /\ jobs \in [Ids -> JobRecord]
    /\ client \in [Clients -> ClientState]
    /\ worker \in [Workers -> WorkerState]

NewRequest ==
    [version |-> 1, state |-> "ready", selected |-> [t \in Targets |-> 1],
     artifacts |-> {}]

\* A copy nobody looks at any more is NewRequest again.
AtRest(pc) == [pc |-> pc, job |-> NoJob, token |-> 0, target |-> Default,
               copy |-> NewRequest]

NoCommand == [pc |-> "idle", command |-> "none", target |-> Default, copy |-> NewRequest]

\* create_request has found every sensor an observation, or only some.
Init ==
    /\ request \in {NewRequest, [NewRequest EXCEPT !.state = "partial"]}
    /\ jobs = [id \in Ids |->
            [status |-> "absent", attempt |-> 0, token |-> 0, target |-> id[2]]]
    /\ client = [c \in Clients |-> NoCommand]
    /\ worker = [p \in Workers |-> AtRest("idle")]

\* Faulty variant: a store without stale-version protection.
SavesAnything(document) == request' = document

\* save_request: ON CONFLICT ... WHERE the version is not older.
Saves(document) ==
    request' = IF document.version >= request.version THEN document ELSE request

-----------------------------------------------------------------------------
(* Commands of the users *)

Prepared(document, t) == <<t, document.selected[t]>> \in document.artifacts

\* get_request and what it lets a command go on with.
Accepted(command, t) ==
    CASE command = "prepare" -> ~Prepared(request, t)
      [] command = "cancel"  -> request.state # "cancelled"
      [] command = "refresh" -> request.version < MaxVersion
      [] command = "select"  -> /\ request.version < MaxVersion
                                /\ request.state \notin {"queued", "cancelled"}
      [] command = "watch"   -> TRUE

Open(c, command, t) ==
    /\ client[c].pc = "idle"
    /\ Accepted(command, t)
    /\ client' = [client EXCEPT ![c] =
            [pc |-> IF command = "prepare" THEN "look" ELSE "save",
             command |-> command, target |-> t, copy |-> request]]
    /\ UNCHANGED <<request, jobs, worker>>

Wanted(c) == <<client[c].copy.version, client[c].target>>

\* jobs_for_request: a job that is pending already ends the command.
Look(c) ==
    /\ client[c].pc = "look"
    /\ client' = IF jobs[Wanted(c)].status \in Pending
                 THEN [client EXCEPT ![c] = NoCommand]
                 ELSE [client EXCEPT ![c].pc = "enqueue"]
    /\ UNCHANGED <<request, jobs, worker>>

\* enqueue does nothing to an identity it knows, and the command ignores that.
Enqueue(c) ==
    /\ client[c].pc = "enqueue"
    /\ jobs' = IF jobs[Wanted(c)].status = "absent"
               THEN [jobs EXCEPT ![Wanted(c)].status = "queued"] ELSE jobs
    /\ client' = [client EXCEPT ![c].pc = "save"]
    /\ UNCHANGED <<request, worker>>

\* The queue is full, the search fails, or the process dies.
GiveUp(c) ==
    /\ \/ client[c].pc = "enqueue"
       \/ client[c].command = "refresh"
       \/ client[c].pc # "idle" /\ c \in Mortal
    /\ client' = [client EXCEPT ![c] = NoCommand]
    /\ UNCHANGED <<request, jobs, worker>>

\* A new version for whose targets the search has found observations or not.
Refreshed(next, found) ==
    LET selected == [t \in Targets |-> IF t \in found THEN next.version
                                       ELSE next.selected[t]] IN
    {[next EXCEPT !.state = state, !.selected = selected] : state \in {"ready", "partial"}}

\* The documents a command may save; a selection replaces one observation.
Outcomes(c) ==
    LET mine == client[c].copy
        next == [mine EXCEPT !.version = @ + 1] IN
    CASE client[c].command = "prepare" -> {[mine EXCEPT !.state = "queued"]}
      [] client[c].command = "cancel"  -> {[mine EXCEPT !.state = "cancelled"]}
      [] client[c].command = "refresh" -> UNION {Refreshed(next, found) : found \in SUBSET Targets}
      [] client[c].command = "select"  ->
            {[next EXCEPT !.selected[client[c].target] = next.version]}
      [] client[c].command = "watch"   -> {mine}

Save(c) ==
    /\ client[c].pc = "save"
    /\ \E document \in Outcomes(c) : Saves(document)
    /\ client' = [client EXCEPT ![c] = NoCommand]
    /\ UNCHANGED <<jobs, worker>>

-----------------------------------------------------------------------------
(* The queue as the worker sees it *)

Running == {id \in Ids : jobs[id].status = "running"}

\* Faulty variant: an attempt limit that is off by one.
ExhaustedOneLate(id) == jobs[id].attempt > MaxAttempts

Exhausted(id) == jobs[id].attempt >= MaxAttempts

\* fail and the sweep overwrite the progress document with the target in it.
Given(row, status) == [row EXCEPT !.status = status, !.target = Default]

Swept(expired) ==
    [id \in Ids |-> IF id \in expired /\ Exhausted(id) THEN Given(jobs[id], "failed")
                    ELSE jobs[id]]

Taken(row) ==
    [row EXCEPT !.status = "running", !.attempt = @ + 1, !.token = @ + 1]

\* A job is taken while no other job of the request runs under a valid lease.
Claim(p, expired) ==
    /\ worker[p].pc = "idle"
    /\ expired \subseteq Running
    /\ \/ /\ \E id \in expired : Exhausted(id)
          /\ jobs' = Swept(expired)
          /\ UNCHANGED worker
       \/ \E id \in Ids :
          /\ Running \subseteq expired \cup {id}
          /\ \/ jobs[id].status \in {"queued", "retry_wait"}
             \/ id \in expired /\ ~Exhausted(id)
          /\ jobs' = [Swept(expired) EXCEPT ![id] = Taken(jobs[id])]
          /\ worker' = [worker EXCEPT ![p] =
                [AtRest("open") EXCEPT !.job = id, !.token = jobs[id].token + 1,
                                       !.target = jobs[id].target]]
    /\ UNCHANGED <<request, client>>

FenceMatches(p) ==
    /\ jobs[worker[p].job].status = "running"
    /\ jobs[worker[p].job].token = worker[p].token

-----------------------------------------------------------------------------
(* execute_preparation_job and what run_once makes of its end *)

Goto(p, pc) == worker' = [worker EXCEPT ![p].pc = pc]

GotoWith(p, pc, document) ==
    worker' = [worker EXCEPT ![p] = [@ EXCEPT !.pc = pc, !.copy = document]]

Ends(p, pc) ==
    worker' = [worker EXCEPT ![p] = [@ EXCEPT !.pc = pc, !.copy = NewRequest]]

\* Faulty variant: any version will do.
SuitsAnyVersion(p) == TRUE

\* A job for another version than the stored one raises ValueError.
Suits(p) == request.version = worker[p].job[1]

OpenRequest(p) ==
    /\ worker[p].pc = "open"
    /\ IF Suits(p) THEN GotoWith(p, "prepare", request) ELSE Goto(p, "fail")
    /\ UNCHANGED <<request, jobs, client>>

\* After the rendering the request is read again; only these two things of it
\* matter, the rest comes from the copy.
StillWanted(p) ==
    /\ request.state # "cancelled"
    /\ request.version = worker[p].copy.version

WithArtifact(p) ==
    LET mine == worker[p].copy IN
    [mine EXCEPT !.artifacts = @ \cup {<<worker[p].target, mine.selected[worker[p].target]>>}]

Render(p) ==
    /\ worker[p].pc = "prepare"
    /\ IF StillWanted(p) THEN GotoWith(p, "publish", WithArtifact(p)) ELSE Ends(p, "complete")
    /\ UNCHANGED <<request, jobs, client>>

\* A failed rendering is recorded in the document as it is now.
RenderFails(p) ==
    /\ worker[p].pc = "prepare"
    /\ IF StillWanted(p) THEN GotoWith(p, "record", request) ELSE Ends(p, "fail")
    /\ UNCHANGED <<request, jobs, client>>

RecordFailure(p) ==
    /\ worker[p].pc = "record"
    /\ Saves(worker[p].copy)
    /\ Ends(p, "fail")
    /\ UNCHANGED <<jobs, client>>

Publish(p) ==
    /\ worker[p].pc = "publish"
    /\ Saves(worker[p].copy)
    /\ Goto(p, "judge")
    /\ UNCHANGED <<jobs, client>>

\* _preparation_state, from the jobs of the version and the artifacts so far.
PreparationState(document) ==
    LET rows == {jobs[id] : id \in {i \in Ids : i[1] = document.version}}
        shown == {artifact[1] : artifact \in document.artifacts} IN
    IF \E row \in rows : row.status \in Pending /\ row.target \notin shown THEN "queued"
    ELSE IF \A row \in rows : row.status # "failed" THEN "ready"
    ELSE IF document.artifacts # {} THEN "partial"
    ELSE "failed"

Judge(p) ==
    /\ worker[p].pc = "judge"
    /\ GotoWith(p, "conclude",
           [worker[p].copy EXCEPT !.state = PreparationState(worker[p].copy)])
    /\ UNCHANGED <<request, jobs, client>>

Conclude(p) ==
    /\ worker[p].pc = "conclude"
    /\ Saves(worker[p].copy)
    /\ Ends(p, "complete")
    /\ UNCHANGED <<jobs, client>>

\* A lost lease cancels the preparation wherever it is; any call may fail.
Raise(p) ==
    /\ worker[p].pc \in {"open", "prepare", "publish", "judge", "conclude", "record",
                         "complete"}
    /\ Ends(p, "fail")
    /\ UNCHANGED <<request, jobs, client>>

Complete(p) ==
    /\ worker[p].pc = "complete"
    /\ FenceMatches(p)
    /\ jobs' = [jobs EXCEPT ![worker[p].job].status = "succeeded"]
    /\ worker' = [worker EXCEPT ![p] = AtRest("idle")]
    /\ UNCHANGED <<request, client>>

\* Faulty variant: every failure is reported to the request.
MarksEveryFailure(p) == TRUE

MarksFailure(p) == Exhausted(worker[p].job)

Fail(p) ==
    LET id == worker[p].job IN
    /\ worker[p].pc = "fail"
    /\ FenceMatches(p)
    /\ jobs' = [jobs EXCEPT ![id] = Given(@, IF Exhausted(id) THEN "failed" ELSE "retry_wait")]
    /\ worker' = [worker EXCEPT ![p] = IF MarksFailure(p) THEN AtRest("mark") ELSE AtRest("idle")]
    /\ UNCHANGED <<request, client>>

\* The RuntimeError of a lost fence is swallowed.
FailRefused(p) ==
    /\ worker[p].pc = "fail"
    /\ ~FenceMatches(p)
    /\ worker' = [worker EXCEPT ![p] = AtRest("idle")]
    /\ UNCHANGED <<request, jobs, client>>

\* mark_preparation_failed knows the request, but neither version nor target.
ReadToMark(p) ==
    /\ worker[p].pc = "mark"
    /\ IF request.state \in {"cancelled", "ready"} THEN Goto(p, "idle")
       ELSE GotoWith(p, "marking", [request EXCEPT !.state = "failed"])
    /\ UNCHANGED <<request, jobs, client>>

MarkFailed(p) ==
    /\ worker[p].pc = "marking"
    /\ Saves(worker[p].copy)
    /\ Ends(p, "idle")
    /\ UNCHANGED <<jobs, client>>

Crash(p) ==
    /\ p \in Mortal
    /\ worker[p].pc # "down"
    /\ worker' = [worker EXCEPT ![p] = AtRest("down")]
    /\ UNCHANGED <<request, jobs, client>>

Restart(p) ==
    /\ worker[p].pc = "down"
    /\ worker' = [worker EXCEPT ![p] = AtRest("idle")]
    /\ UNCHANGED <<request, jobs, client>>

UserStep(c) ==
    \/ \E command \in Commands, t \in Targets : Open(c, command, t)
    \/ Look(c) \/ Enqueue(c) \/ GiveUp(c) \/ Save(c)

WorkerStep(p) ==
    \/ \E expired \in SUBSET Running : Claim(p, expired)
    \/ OpenRequest(p) \/ Render(p) \/ RenderFails(p) \/ RecordFailure(p)
    \/ Publish(p) \/ Judge(p) \/ Conclude(p) \/ Raise(p)
    \/ Complete(p) \/ Fail(p) \/ FailRefused(p) \/ ReadToMark(p) \/ MarkFailed(p)
    \/ Crash(p) \/ Restart(p)

Next ==
    \/ \E c \in Clients : UserStep(c)
    \/ \E p \in Workers : WorkerStep(p)

Spec == Init /\ [][Next]_vars

-----------------------------------------------------------------------------
(* Properties *)

\* However late a copy is saved, the stored request never falls back to a
\* version that users have already left behind.
VersionNeverGoesBack == [][request'.version >= request.version]_vars

\* What an execution publishes goes into the version its job was made for: a
\* request refreshed meanwhile keeps its new selection untouched.
ObsoleteJobsStayOut ==
    [][\A p \in Workers :
        (worker[p].pc \in {"publish", "conclude"} /\ request' # request
            /\ worker'[p] # worker[p]) => request.version = worker[p].job[1]]_vars

\* A request says that it failed only if a job of it has: not because of an
\* attempt that will be repeated, however many stale copies are saved.
FailureIsGrounded ==
    request.state = "failed" => \E id \in Ids : jobs[id].status = "failed"

Quiet ==
    /\ \A c \in Clients : client[c].pc = "idle"
    /\ \A p \in Workers : worker[p].pc \in {"idle", "down"}

Awaited == {t \in Targets : jobs[<<request.version, t>>].status \in Pending}

\* "Wait for preparation to finish or reopen the imagery request" (service.py,
\* the refusal to select while queued): a request that is queued while nobody
\* is about to change it has a preparation to wait for.
QueuedHasPreparationAhead ==
    Quiet /\ request.state = "queued" => Awaited # {}
=============================================================================
