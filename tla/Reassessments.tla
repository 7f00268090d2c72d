--------------------------- MODULE Reassessments ---------------------------
(***************************************************************************)
(* DiscoveryScanService: users ask for a finished scan to be assessed anew, *)
(* poll the assessment by its id, and so take up again one that a restart   *)
(* interrupted.  Control changes hands at each await.  A request that is    *)
(* refused changes nothing and is left out (an original still collecting,   *)
(* an unknown id).                                                          *)
(***************************************************************************)
EXTENDS Naturals, FiniteSets, Sequences

CONSTANTS
    Originals, Assessments, Browsers,
    MaxTasks,           \* _MAX_PENDING_REASSESSMENTS, 10 in the code
    MaxFailures,        \* how many failures the process remembers, 8 in the code
    MaxFaults,          \* bound
    None

ASSUME ReassessmentAssumption ==
    /\ MaxTasks \in Nat \ {0} /\ MaxFailures \in Nat \ {0} /\ MaxFaults \in Nat
    /\ None \notin Assessments /\ None \notin Originals /\ None \notin Browsers

VARIABLES
    store,      \* the status of an assessment that is retained
    of,         \* the original it is of
    tasks,      \* _tasks: how far the task of an assessment is
    sharing,    \* _reprocessing: the assessment a further request is given
    failures,   \* _persistence_failures
    lock,       \* _lock: None or the user who holds it
    user,       \* where the request of a user is
    handed,     \* assessments whose ids users were given
    faults

assessmentVars == <<store, of, tasks, sharing, failures, lock, user, handed, faults>>

Idle == [at |-> "idle", original |-> None, id |-> None]
Busy == {r \in Assessments : tasks[r] # "none"}

UserState ==
    [at : {"idle", "ask", "decide", "persist", "launch", "open", "resume"},
     original : Originals \cup {None}, id : Assessments \cup {None}]

AssessmentTypeOK ==
    /\ store \in [Assessments -> {"absent", "running", "completed", "incomplete"}]
    /\ of \in [Assessments -> Originals \cup {None}]
    /\ tasks \in [Assessments -> {"none", "queued", "working", "saving", "failing"}]
    /\ sharing \in [Originals -> Assessments \cup {None}]
    /\ failures \in Seq(Assessments) /\ Len(failures) <= MaxFailures
    /\ lock \in Browsers \cup {None}
    /\ user \in [Browsers -> UserState]
    /\ handed \subseteq Assessments
    /\ faults \in 0 .. MaxFaults

AssessmentInit ==
    /\ store = [r \in Assessments |-> "absent"] /\ of = [r \in Assessments |-> None]
    /\ tasks = [r \in Assessments |-> "none"]
    /\ sharing = [o \in Originals |-> None]
    /\ failures = << >>
    /\ lock = None
    /\ user = [c \in Browsers |-> Idle]
    /\ handed = {} /\ faults = 0

\* _retained_run: a failure that could not be saved is told from memory.
Remembered(r) == \E i \in DOMAIN failures : failures[i] = r
Reading(r) == IF Remembered(r) THEN "incomplete" ELSE store[r]

-----------------------------------------------------------------------------
(* Requests *)

Ask(c, o) ==
    /\ user[c] = Idle
    /\ user' = [user EXCEPT ![c] = [Idle EXCEPT !.at = "ask", !.original = o]]
    /\ UNCHANGED <<store, of, tasks, sharing, failures, lock, handed, faults>>

EnterAsk(c) ==
    /\ user[c].at = "ask" /\ lock = None
    /\ lock' = c
    /\ user' = [user EXCEPT ![c].at = "decide"]
    /\ UNCHANGED <<store, of, tasks, sharing, failures, handed, faults>>

LeaveLock(c) == lock' = None /\ user' = [user EXCEPT ![c] = Idle]

Share(c) ==
    /\ user[c].at = "decide" /\ sharing[user[c].original] # None
    /\ LeaveLock(c)
    /\ handed' = handed \cup {sharing[user[c].original]}
    /\ UNCHANGED <<store, of, tasks, sharing, failures, faults>>

\* Capacity reached, or else an id is drawn.
Decide(c) ==
    /\ user[c].at = "decide" /\ sharing[user[c].original] = None
    /\ \/ Cardinality(Busy) >= MaxTasks /\ LeaveLock(c)
       \/ /\ Cardinality(Busy) < MaxTasks
          /\ \E r \in Assessments : store[r] = "absent" /\ of[r] = None
                /\ user' = [user EXCEPT ![c] = [@ EXCEPT !.at = "persist", !.id = r]]
          /\ UNCHANGED lock
       \/ /\ \A r \in Assessments : of[r] # None   \* bound: no id is left
          /\ LeaveLock(c)
    /\ UNCHANGED <<store, of, tasks, sharing, failures, handed, faults>>

Persist(c) ==
    /\ user[c].at = "persist"
    /\ store' = [store EXCEPT ![user[c].id] = "running"]
    /\ of' = [of EXCEPT ![user[c].id] = user[c].original]
    /\ user' = [user EXCEPT ![c].at = "launch"]
    /\ UNCHANGED <<tasks, sharing, failures, lock, handed, faults>>

\* The save fails and so does the request.
PersistFails(c) ==
    /\ user[c].at = "persist" /\ faults < MaxFaults
    /\ faults' = faults + 1
    /\ LeaveLock(c)
    /\ UNCHANGED <<store, of, tasks, sharing, failures, handed>>

\* _launch_reprocessing
Launched(r, o) ==
    /\ tasks' = [tasks EXCEPT ![r] = "queued"]
    /\ sharing' = [sharing EXCEPT ![o] = r]

\* Faulty variant: the id is given before anything is saved.
LaunchUnsaved(c) ==
    /\ user[c].at \in {"persist", "launch"}
    /\ Launched(user[c].id, user[c].original)
    /\ of' = [of EXCEPT ![user[c].id] = user[c].original]
    /\ handed' = handed \cup {user[c].id}
    /\ LeaveLock(c)
    /\ UNCHANGED <<store, failures, faults>>

Launch(c) ==
    /\ user[c].at = "launch"
    /\ Launched(user[c].id, user[c].original)
    /\ handed' = handed \cup {user[c].id}
    /\ LeaveLock(c)
    /\ UNCHANGED <<store, of, failures, faults>>

\* get: what is read as running is looked at again under the lock.
Open(c, r) ==
    /\ user[c] = Idle /\ r \in handed
    /\ Reading(r) = "running"
    /\ user' = [user EXCEPT ![c] = [Idle EXCEPT !.at = "open", !.id = r]]
    /\ UNCHANGED <<store, of, tasks, sharing, failures, lock, handed, faults>>

\* Faulty variant: the number of tasks is not looked at.
EnterOpenUnbounded(c) ==
    /\ user[c].at = "open" /\ lock = None
    /\ IF tasks[user[c].id] = "none"
       THEN lock' = c /\ user' = [user EXCEPT ![c].at = "resume"]
       ELSE LeaveLock(c)
    /\ UNCHANGED <<store, of, tasks, sharing, failures, handed, faults>>

\* Faulty variant: a poll takes nothing up.
PollOnly(c) ==
    /\ user[c].at = "open" /\ lock = None
    /\ LeaveLock(c)
    /\ UNCHANGED <<store, of, tasks, sharing, failures, handed, faults>>

EnterOpen(c) ==
    /\ user[c].at = "open" /\ lock = None
    /\ IF tasks[user[c].id] = "none" /\ Cardinality(Busy) < MaxTasks
       THEN lock' = c /\ user' = [user EXCEPT ![c].at = "resume"]
       ELSE LeaveLock(c)
    /\ UNCHANGED <<store, of, tasks, sharing, failures, handed, faults>>

Resume(c) ==
    /\ user[c].at = "resume"
    /\ Launched(user[c].id, of[user[c].id])
    /\ LeaveLock(c)
    /\ UNCHANGED <<store, of, failures, handed, faults>>

-----------------------------------------------------------------------------
(* Assessments *)

\* Only one is worked on at a time; the others wait for _reprocessing_worker.
Work(r) ==
    /\ tasks[r] = "queued" /\ \A s \in Assessments : tasks[s] \notin {"working", "saving"}
    /\ tasks' = [tasks EXCEPT ![r] = "working"]
    /\ UNCHANGED <<store, of, sharing, failures, lock, user, handed, faults>>

Assess(r) ==
    /\ tasks[r] = "working"
    /\ tasks' = [tasks EXCEPT ![r] = "saving"]
    /\ UNCHANGED <<store, of, sharing, failures, lock, user, handed, faults>>

\* The assessment or the save of its result raises.
AssessFails(r) ==
    /\ tasks[r] \in {"working", "saving"} /\ faults < MaxFaults
    /\ faults' = faults + 1
    /\ tasks' = [tasks EXCEPT ![r] = "failing"]
    /\ UNCHANGED <<store, of, sharing, failures, lock, user, handed>>

\* Faulty variant: the assessment stays the one to share.
EndedButShared(r) == tasks' = [tasks EXCEPT ![r] = "none"] /\ UNCHANGED sharing

\* finally: it is shared no more, unless another has taken its place.
Ended(r) ==
    /\ tasks' = [tasks EXCEPT ![r] = "none"]
    /\ sharing' = [sharing EXCEPT ![of[r]] = IF @ = r THEN None ELSE @]

SaveResult(r) ==
    /\ tasks[r] = "saving"
    /\ store' = [store EXCEPT ![r] = "completed"]
    /\ Ended(r)
    /\ UNCHANGED <<of, failures, lock, user, handed, faults>>

SaveFailure(r) ==
    /\ tasks[r] = "failing"
    /\ store' = [store EXCEPT ![r] = "incomplete"]
    /\ Ended(r)
    /\ UNCHANGED <<of, failures, lock, user, handed, faults>>

\* An OrderedDict: a known key keeps its place, the oldest is forgotten.
RememberFailure(r) ==
    /\ tasks[r] = "failing" /\ faults < MaxFaults
    /\ faults' = faults + 1
    /\ failures' = IF Remembered(r) THEN failures
                   ELSE IF Len(failures) < MaxFailures THEN Append(failures, r)
                   ELSE Append(Tail(failures), r)
    /\ Ended(r)
    /\ UNCHANGED <<store, of, lock, user, handed>>

\* The process is stopped or dies, and starts again: only the store outlives it.
ProcessRestarts ==
    /\ faults < MaxFaults
    /\ faults' = faults + 1
    /\ tasks' = [r \in Assessments |-> "none"]
    /\ sharing' = [o \in Originals |-> None]
    /\ failures' = << >>
    /\ lock' = None
    /\ user' = [c \in Browsers |-> Idle]
    /\ UNCHANGED <<store, of, handed>>

UserNext(c) == \/ EnterAsk(c) \/ Share(c) \/ Decide(c) \/ Persist(c) \/ Launch(c)
               \/ EnterOpen(c) \/ Resume(c)
TaskNext(r) == Work(r) \/ Assess(r) \/ SaveResult(r) \/ SaveFailure(r)

AssessmentNext ==
    \/ \E c \in Browsers : \/ UserNext(c) \/ PersistFails(c)
                          \/ \E o \in Originals : Ask(c, o)
                          \/ \E r \in Assessments : Open(c, r)
    \/ \E r \in Assessments : TaskNext(r) \/ AssessFails(r) \/ RememberFailure(r)
    \/ ProcessRestarts

AssessmentSpec == AssessmentInit /\ [][AssessmentNext]_assessmentVars

\* Requests and tasks are scheduled, asyncio.Lock serves in turn, and the browser
\* goes on polling each assessment it was given.
AssessmentFairness ==
    /\ \A c \in Browsers : /\ WF_assessmentVars(UserNext(c))
                          /\ SF_assessmentVars(EnterAsk(c)) /\ SF_assessmentVars(EnterOpen(c))
    /\ \A r \in Assessments : /\ WF_assessmentVars(TaskNext(r))
                             /\ SF_assessmentVars(\E c \in Browsers : Open(c, r))
AssessmentFairSpec == AssessmentSpec /\ AssessmentFairness

-----------------------------------------------------------------------------
(* Properties *)

\* "Persist the recoverable job before acknowledging it to the browser": an id that was
\* handed out can be read, whatever failed since.
HandedIsReadable == \A r \in handed : Reading(r) # "absent"

\* A further request for an original is only ever given an assessment that is worked on.
SharedIsWorkedOn ==
    \A o \in Originals : sharing[o] # None => sharing[o] \in Busy /\ of[sharing[o]] = o

\* No request, and no poll that takes up an interrupted assessment, exceeds the limit.
TasksAreBounded == Cardinality(Busy) <= MaxTasks

\* Requests share assessments that can be read, are worked on and are not too many.
AssessmentsAreSound == HandedIsReadable /\ SharedIsWorkedOn /\ TasksAreBounded

\* An assessment a browser polls ends, over failures and restarts.
EveryAssessmentEnds == \A r \in Assessments :
    (r \in handed /\ Reading(r) = "running") ~> Reading(r) # "running"
=============================================================================
