--------------------------- MODULE IncidentProofs ---------------------------
(***************************************************************************)
(* Proofs about the incidents a user sees: IncidentWatches for every set   *)
(* of watches, events, answers and workers and every limit of attempts and *)
(* instants, IncidentIdentities for every number of observations and every *)
(* lifetime and number of records, and IncidentSnapshots for every set of  *)
(* incidents, queries and readers and every length of life.                *)
(***************************************************************************)
EXTENDS IncidentWatches, IncidentIdentities, IncidentSnapshots,
        FiniteSetTheorems, WellFoundedInduction, TLAPS

-----------------------------------------------------------------------------
(* IncidentWatches: the inductive invariant *)

\* A job that waits has an attempt left, and is of an instant that has been.
JobsFit ==
    \A id \in Ids :
        /\ jobs[id].status \in {"absent", "queued", "retry"} => jobs[id].attempt < MaxAttempts
        /\ jobs[id].status # "absent" \/ id \in due => id[2] <= instant

\* A watch waits for an instant that has been, once it is enabled.
WatchesFit ==
    \A w \in Watches : /\ watch[w].next <= instant
                       /\ watch[w].state = "enabled" => watch[w].next >= 1

\* A worker at work has a job that exists, and found its watch.
HoldsJob(p) ==
    /\ worker[p].pc \notin {"down", "idle"} =>
            worker[p].job \in Ids /\ jobs[worker[p].job].status # "absent"
    /\ worker[p].pc \in {"read", "observe", "record"} => watch[Target(p)].state # "absent"
    /\ worker[p].pc \in {"record", "confirm"} => worker[p].current \in Answers

\* The instant of a refresh is its own: no watch waits for it and no job is of it
\* before the refresh has recorded it.
InstantIsOwn(p) ==
    InFlight(p) =>
        /\ worker[p].at \in 1..instant
        /\ watch[Target(p)].next # worker[p].at
        /\ <<Target(p), worker[p].at>> \notin due
        /\ jobs[<<Target(p), worker[p].at>>].status = "absent"

\* Whoever compares with earlier events compares with announced ones, and with the
\* latest unless refreshes overlapped.
ComparesRightly(p) ==
    InFlight(p) /\ Exists(Target(p)) =>
        /\ \A e \in worker[p].previous : appeared[Target(p)][e] > 0
        /\ Target(p) \notin overlapped => worker[p].previous = known[Target(p)]

\* A refresh that is reported done has moved its watch on, or found it disabled.
MovedOn(p) ==
    /\ worker[p].pc = "confirm" => watch[Target(p)].next # worker[p].job[2]
    /\ worker[p].pc = "reporting" /\ worker[p].result = "done"
            /\ watch[Target(p)].state = "enabled" => watch[Target(p)].next # worker[p].job[2]

WorkerIsRight(p) ==
    HoldsJob(p) /\ InstantIsOwn(p) /\ ComparesRightly(p) /\ MovedOn(p)

\* Two refreshes of one watch are known to overlap, and have different instants.
OverlapsAreKnown ==
    \A p, q \in Workers :
        p # q /\ InFlight(p) /\ InFlight(q) /\ Target(p) = Target(q) =>
            Target(p) \in overlapped /\ worker[p].at # worker[q].at

IInv ==
    /\ TypeOK
    /\ JobsFit
    /\ WatchesFit
    /\ SuccessMovesWatchOn
    /\ DeletedLeavesNothing
    /\ TimelineIsTrue
    /\ OverlapsAreKnown
    /\ \A p \in Workers : WorkerIsRight(p)

-----------------------------------------------------------------------------
(* Lemmas about identities and records *)

\* A job is a watch and an instant.
LEMMA IdParts ==
    /\ \A id \in Ids : /\ id[1] \in Watches /\ id[2] \in 1..MaxInstants
                      /\ id = <<id[1], id[2]>>
    /\ \A w \in Watches, n \in 1..MaxInstants :
            <<w, n>> \in Ids /\ <<w, n>>[1] = w /\ <<w, n>>[2] = n
  BY DEF Ids

\* What the invariant says of a worker at work.
LEMMA AtWork ==
    ASSUME IInv, NEW p \in Workers, worker[p].pc \notin {"down", "idle"}
    PROVE  /\ worker[p] \in WorkerState
           /\ worker[p].job \in Ids /\ jobs[worker[p].job].status # "absent"
           /\ Target(p) \in Watches /\ worker[p].job[2] \in 1..MaxInstants
           /\ worker[p].job = <<Target(p), worker[p].job[2]>>
           /\ worker[p].job[2] <= instant
  BY IdParts DEF IInv, TypeOK, WorkerIsRight, HoldsJob, JobsFit, Target

\* The instant of a refresh in flight and its watch would make a job.
LEMMA InFlightId ==
    ASSUME IInv, NEW p \in Workers, InFlight(p)
    PROVE  /\ Target(p) \in Watches /\ worker[p].at \in 1..MaxInstants
           /\ worker[p].at <= instant
           /\ <<Target(p), worker[p].at>> \in Ids
  <1>1. Target(p) \in Watches
    BY AtWork DEF InFlight
  <1>2. worker[p].at \in 1..instant
    BY DEF IInv, WorkerIsRight, InstantIsOwn
  <1>3. worker[p].at \in 1..MaxInstants /\ worker[p].at <= instant
    BY <1>2, WatchAssumption DEF IInv, TypeOK
  <1>4. QED
    BY <1>1, <1>3, IdParts

\* One worker moves and touches nothing else.
LEMMA WorkerMoves ==
    ASSUME IInv, NEW p \in Workers, NEW k \in WorkerState,
           worker' = [worker EXCEPT ![p] = k],
           UNCHANGED <<instant, watch, timeline, jobs, due>>,
           WorkerIsRight(p)',
           InFlight(p)' => InFlight(p) /\ k.job = worker[p].job /\ k.at = worker[p].at
    PROVE  IInv'
  <1>1. /\ worker' \in [Workers -> WorkerState] /\ worker'[p] = k
        /\ \A q \in Workers : q # p => worker'[q] = worker[q]
    BY DEF IInv, TypeOK
  <1>2. TypeOK'
    BY <1>1 DEF IInv, TypeOK, timeline
  <1>3. /\ JobsFit' /\ WatchesFit' /\ SuccessMovesWatchOn'
        /\ DeletedLeavesNothing' /\ TimelineIsTrue'
    BY DEF IInv, timeline, JobsFit, WatchesFit, SuccessMovesWatchOn, DeletedLeavesNothing,
        TimelineIsTrue
  <1>4. ASSUME NEW q \in Workers, q # p PROVE WorkerIsRight(q)'
    BY <1>1, <1>4
    DEF IInv, timeline, WorkerIsRight, HoldsJob, InstantIsOwn, ComparesRightly, MovedOn,
        InFlight, Target, Exists
  <1>5. OverlapsAreKnown'
    BY <1>1 DEF IInv, timeline, OverlapsAreKnown, InFlight, Target
  <1>6. QED
    BY <1>2, <1>3, <1>4, <1>5 DEF IInv

\* A worker that is down or idle has nothing to be right about.
LEMMA WorkerRests ==
    ASSUME IInv, NEW p \in Workers, NEW pc \in {"down", "idle"},
           worker' = [worker EXCEPT ![p] = At(pc)],
           UNCHANGED <<instant, watch, timeline, jobs, due>>
    PROVE  IInv'
  <1>1. At(pc) \in WorkerState
    BY WatchAssumption DEF At, WorkerState
  <1>2. worker'[p] = At(pc)
    BY DEF IInv, TypeOK
  <1>3. WorkerIsRight(p)' /\ ~InFlight(p)'
    BY <1>2 DEF WorkerIsRight, HoldsJob, InstantIsOwn, ComparesRightly, MovedOn, InFlight, At
  <1>4. QED
    BY <1>1, <1>3, WorkerMoves

\* A refresh ends.
LEMMA WorkerEnds ==
    ASSUME IInv, NEW p \in Workers, worker[p].pc \notin {"down", "idle"},
           NEW result \in {"done", "retryable", "terminal"}, Ends(p, result),
           result = "done" /\ watch[Target(p)].state = "enabled" =>
                watch[Target(p)].next # worker[p].job[2],
           UNCHANGED <<instant, watch, timeline, jobs, due>>
    PROVE  IInv'
  <1> DEFINE k == [worker[p] EXCEPT !.pc = "reporting", !.result = result,
                        !.previous = {}, !.at = 0, !.current = NoObservation]
  <1>1. k \in WorkerState
    <2>1. worker[p] \in WorkerState /\ 0 \in 0..MaxInstants
      BY WatchAssumption DEF IInv, TypeOK
    <2>2. QED
      BY <2>1 DEF WorkerState
  <1>2. worker' = [worker EXCEPT ![p] = k]
    BY DEF Ends
  <1>3. worker'[p] = k
    BY <1>2 DEF IInv, TypeOK
  <1>4. /\ k.pc = "reporting" /\ k.result = result /\ k.job = worker[p].job
    BY AtWork DEF WorkerState
  <1> HIDE DEF k
  <1>5. WorkerIsRight(p)' /\ ~InFlight(p)'
    BY <1>3, <1>4, AtWork
    DEF WorkerIsRight, HoldsJob, InstantIsOwn, ComparesRightly, MovedOn, InFlight, Target
  <1>6. QED
    BY <1>1, <1>2, <1>5, WorkerMoves

-----------------------------------------------------------------------------
(* Commands of the user *)

\* A watch that becomes due at once waits for an instant no job is of.
LEMMA DueNowKeeps ==
    ASSUME IInv, NEW w \in Watches, DueNow(w), watch[w].state # "deleted",
           UNCHANGED <<timeline, jobs, due, worker>>
    PROVE  IInv'
  <1>1. /\ instant \in Nat /\ instant < MaxInstants /\ instant' = instant + 1
        /\ instant' \in 1..MaxInstants
    BY WatchAssumption DEF IInv, TypeOK, DueNow, NewInstant
  <1>2. /\ watch'[w] = [state |-> "enabled", next |-> instant']
        /\ \A v \in Watches : v # w => watch'[v] = watch[v]
    BY DEF IInv, TypeOK, DueNow
  <1>3. TypeOK'
    BY <1>1 DEF IInv, TypeOK, DueNow, timeline, WatchRecord
  <1>4. \A id \in Ids : jobs[id].status # "absent" \/ id \in due => id[2] < instant'
    BY <1>1, IdParts DEF IInv, JobsFit
  <1>5. JobsFit'
    BY <1>4, IdParts, <1>1 DEF IInv, JobsFit
  <1>6. WatchesFit'
    <2>1. \A v \in Watches : watch[v].next \in Nat
      BY DEF IInv, TypeOK, WatchRecord
    <2>2. QED
      BY <2>1, <1>1, <1>2 DEF IInv, WatchesFit
  <1>7. SuccessMovesWatchOn'
    <2>1. jobs[<<w, instant'>>].status = "absent"
      BY <1>1, <1>4, IdParts
    <2>2. QED
      BY <2>1, <1>2 DEF IInv, SuccessMovesWatchOn
  <1>8. DeletedLeavesNothing' /\ TimelineIsTrue'
    BY <1>2 DEF IInv, timeline, DeletedLeavesNothing, TimelineIsTrue
  <1>9. OverlapsAreKnown'
    BY DEF IInv, timeline, OverlapsAreKnown, InFlight, Target
  <1>10. ASSUME NEW p \in Workers, worker[p].pc \notin {"down", "idle"} PROVE WorkerIsRight(p)'
    <2>1. /\ worker[p].job[2] < instant' /\ worker[p].job[2] \in Nat /\ Target(p) \in Watches
      BY <1>1, <1>10, AtWork
    <2>2. HoldsJob(p)'
      BY <1>2, <2>1 DEF IInv, WorkerIsRight, HoldsJob, Target
    <2>3. InstantIsOwn(p)'
      BY <1>1, <1>2, <2>1 DEF IInv, WorkerIsRight, InstantIsOwn, InFlight, Target
    <2>4. ComparesRightly(p)'
      BY <1>2, <2>1, SMTT(30)
      DEF IInv, TypeOK, timeline, WorkerIsRight, HoldsJob, ComparesRightly, InFlight, Target,
          Exists, WatchRecord
    <2>5. MovedOn(p)'
      BY <1>2, <2>1, <1>1 DEF IInv, WorkerIsRight, MovedOn, Target
    <2>6. QED
      BY <2>2, <2>3, <2>4, <2>5 DEF WorkerIsRight
  <1>11. ASSUME NEW p \in Workers, worker[p].pc \in {"down", "idle"} PROVE WorkerIsRight(p)'
    BY <1>11 DEF WorkerIsRight, HoldsJob, InstantIsOwn, ComparesRightly, MovedOn, InFlight
  <1>12. QED
    BY <1>3, <1>5, <1>6, <1>7, <1>8, <1>9, <1>10, <1>11 DEF IInv

\* A disabled watch waits for what it waited for.
LEMMA DisableKeeps == ASSUME IInv, NEW w \in Watches, Disable(w) PROVE IInv'
  <1>1. /\ watch'[w].state = "disabled" /\ watch'[w].next = watch[w].next
        /\ watch[w].state \in {"enabled", "disabled"}
        /\ \A v \in Watches : v # w => watch'[v] = watch[v]
        /\ watch' \in [Watches -> WatchRecord]
    BY DEF IInv, TypeOK, Disable, Exists, WatchRecord
  <1>2. /\ TypeOK' /\ JobsFit' /\ WatchesFit' /\ SuccessMovesWatchOn'
    BY <1>1 DEF IInv, TypeOK, Disable, timeline, JobsFit, WatchesFit, SuccessMovesWatchOn
  <1>3. DeletedLeavesNothing' /\ TimelineIsTrue' /\ OverlapsAreKnown'
    BY <1>1
    DEF IInv, Disable, timeline, DeletedLeavesNothing, TimelineIsTrue, OverlapsAreKnown,
        InFlight, Target
  <1>4. ASSUME NEW p \in Workers PROVE WorkerIsRight(p)'
    <2>1. worker[p].pc \notin {"down", "idle"} => Target(p) \in Watches
      BY AtWork
    <2>2. QED
      <3>1. WorkerIsRight(p)
        BY DEF IInv
      <3>2. HoldsJob(p)'
        BY <1>1, <2>1, <3>1 DEF Disable, timeline, WorkerIsRight, HoldsJob, Target
      <3>3. InstantIsOwn(p)'
        BY <1>1, <2>1, <3>1 DEF Disable, timeline, WorkerIsRight, InstantIsOwn, InFlight, Target
      <3>4. ComparesRightly(p)'
        BY <1>1, <2>1, <3>1 DEF Disable, timeline, WorkerIsRight, ComparesRightly, InFlight, Target, Exists
      <3>5. MovedOn(p)'
        BY <1>1, <2>1, <3>1 DEF Disable, timeline, WorkerIsRight, MovedOn, Target
      <3>6. QED
        BY <3>2, <3>3, <3>4, <3>5 DEF WorkerIsRight
  <1>5. QED
    BY <1>2, <1>3, <1>4 DEF IInv

\* A deleted watch has nothing left, and no refresh will write to it.
LEMMA DeleteKeeps == ASSUME IInv, NEW w \in Watches, Delete(w) PROVE IInv'
  <1>1. /\ watch'[w].state = "deleted" /\ watch'[w].next = watch[w].next
        /\ \A v \in Watches : v # w => watch'[v] = watch[v]
        /\ watch' \in [Watches -> WatchRecord]
    BY DEF IInv, TypeOK, Delete, WatchRecord
  <1>2. /\ known'[w] = {} /\ appeared'[w] = Nothing /\ vanished'[w] = Nothing
        /\ \A v \in Watches : v # w => /\ known'[v] = known[v]
                                      /\ appeared'[v] = appeared[v]
                                      /\ vanished'[v] = vanished[v]
    BY DEF IInv, TypeOK, Delete
  <1>3. Nothing \in [Events -> Nat] /\ \A e \in Events : Nothing[e] = 0
    BY DEF Nothing
  <1>4. TypeOK'
    BY <1>1, <1>3 DEF IInv, TypeOK, Delete
  <1>5. JobsFit' /\ WatchesFit' /\ SuccessMovesWatchOn' /\ OverlapsAreKnown'
    BY <1>1
    DEF IInv, Delete, JobsFit, WatchesFit, SuccessMovesWatchOn, OverlapsAreKnown, InFlight,
        Target
  <1>6. DeletedLeavesNothing'
    BY <1>1, <1>2 DEF IInv, DeletedLeavesNothing
  <1>7. TimelineIsTrue'
    BY <1>2, <1>3 DEF IInv, TimelineIsTrue, Delete
  <1>8. ASSUME NEW p \in Workers PROVE WorkerIsRight(p)'
    <2>1. worker[p].pc \notin {"down", "idle"} => Target(p) \in Watches
      BY AtWork
    <2>2. QED
      <3>1. WorkerIsRight(p)
        BY DEF IInv
      <3>2. HoldsJob(p)'
        BY <1>1, <1>2, <2>1, <3>1 DEF Delete, WorkerIsRight, HoldsJob, Target
      <3>3. InstantIsOwn(p)'
        BY <1>1, <1>2, <2>1, <3>1 DEF Delete, WorkerIsRight, InstantIsOwn, InFlight, Target
      <3>4. ComparesRightly(p)'
        BY <1>1, <1>2, <2>1, <3>1 DEF Delete, WorkerIsRight, ComparesRightly, InFlight, Target, Exists
      <3>5. MovedOn(p)'
        BY <1>1, <1>2, <2>1, <3>1 DEF Delete, WorkerIsRight, MovedOn, Target
      <3>6. QED
        BY <3>2, <3>3, <3>4, <3>5 DEF WorkerIsRight
  <1>9. QED
    BY <1>4, <1>5, <1>6, <1>7, <1>8 DEF IInv

\* Whatever the user commands keeps the invariant.
LEMMA CommandKeeps == ASSUME IInv, NEW w \in Watches, UserCommand(w) PROVE IInv'
  <1>1. CASE Create(w)
    BY <1>1, DueNowKeeps DEF Create
  <1>2. CASE Enable(w)
    BY <1>2, DueNowKeeps DEF Enable, Exists
  <1>3. QED
    BY <1>1, <1>2, DisableKeeps, DeleteKeeps DEF UserCommand

-----------------------------------------------------------------------------
(* The scheduler *)

\* What is read is due at an instant that has been, and not of a refresh.
LEMMA ReadDueKeeps ==
    ASSUME IInv, NEW scheduled \in SUBSET Ids, ReadDue(scheduled) PROVE IInv'
  <1>1. \A id \in scheduled : /\ id[1] \in Watches /\ id[2] <= instant
                             /\ watch[id[1]].next = id[2]
    BY DEF IInv, ReadDue, WatchesFit
  <1>2. TypeOK' /\ JobsFit'
    BY <1>1 DEF IInv, TypeOK, timeline, ReadDue, JobsFit
  <1>3. /\ WatchesFit' /\ SuccessMovesWatchOn' /\ DeletedLeavesNothing' /\ TimelineIsTrue'
        /\ OverlapsAreKnown'
    BY DEF IInv, timeline, ReadDue, WatchesFit, SuccessMovesWatchOn, DeletedLeavesNothing,
        TimelineIsTrue, OverlapsAreKnown, InFlight, Target
  <1>4. ASSUME NEW p \in Workers PROVE WorkerIsRight(p)'
    <2>1. InstantIsOwn(p)'
      <3>1. InFlight(p) => <<Target(p), worker[p].at>> \notin scheduled
        BY <1>1 DEF IInv, WorkerIsRight, InstantIsOwn
      <3>2. QED
        BY <3>1 DEF IInv, ReadDue, WorkerIsRight, InstantIsOwn, InFlight, Target
    <2>2. QED
      BY <2>1
      DEF IInv, timeline, ReadDue, WorkerIsRight, HoldsJob, ComparesRightly, MovedOn,
          InFlight, Target, Exists
  <1>5. QED
    BY <1>2, <1>3, <1>4 DEF IInv

\* A job that is put into the queue is no refresh's own.
LEMMA EnqueueDueKeeps == ASSUME IInv, NEW id \in Ids, EnqueueDue(id) PROVE IInv'
  <1>1. /\ jobs' \in [Ids -> JobRecord]
        /\ \A i \in Ids :
            \/ jobs'[i] = jobs[i]
            \/ /\ i = id /\ jobs[i].status = "absent" /\ jobs'[i].status = "queued"
               /\ jobs'[i].attempt = jobs[i].attempt
    BY DEF IInv, TypeOK, EnqueueDue, JobRecord
  <1>2. TypeOK' /\ JobsFit'
    BY <1>1 DEF IInv, TypeOK, timeline, EnqueueDue, JobsFit
  <1>3. /\ WatchesFit' /\ DeletedLeavesNothing' /\ TimelineIsTrue' /\ OverlapsAreKnown'
    BY DEF IInv, timeline, EnqueueDue, WatchesFit, DeletedLeavesNothing, TimelineIsTrue,
        OverlapsAreKnown, InFlight, Target
  <1>4. SuccessMovesWatchOn'
    <2>1. \A w \in Watches : watch[w].state = "enabled" => <<w, watch[w].next>> \in Ids
      BY IdParts, WatchAssumption DEF IInv, TypeOK, WatchRecord, WatchesFit
    <2>2. QED
      BY <1>1, <2>1 DEF IInv, EnqueueDue, SuccessMovesWatchOn
  <1>5. ASSUME NEW p \in Workers PROVE WorkerIsRight(p)'
    <2>1. InFlight(p) => /\ <<Target(p), worker[p].at>> \in Ids
                         /\ <<Target(p), worker[p].at>> # id
      <3>1. SUFFICES ASSUME InFlight(p)
                     PROVE  <<Target(p), worker[p].at>> \in Ids
        BY DEF IInv, EnqueueDue, WorkerIsRight, InstantIsOwn
      <3>2. QED
        BY <3>1, InFlightId
    <2>2. QED
      <3>1. WorkerIsRight(p)
        BY DEF IInv
      <3>2. HoldsJob(p)'
        BY <1>1, <2>1, <3>1 DEF EnqueueDue, timeline, WorkerIsRight, HoldsJob, Target
      <3>3. InstantIsOwn(p)'
        BY <1>1, <2>1, <3>1 DEF EnqueueDue, timeline, WorkerIsRight, InstantIsOwn, InFlight, Target
      <3>4. ComparesRightly(p)'
        BY <1>1, <2>1, <3>1 DEF EnqueueDue, timeline, WorkerIsRight, ComparesRightly, InFlight, Target, Exists
      <3>5. MovedOn(p)'
        BY <1>1, <2>1, <3>1 DEF EnqueueDue, timeline, WorkerIsRight, MovedOn, Target
      <3>6. QED
        BY <3>2, <3>3, <3>4, <3>5 DEF WorkerIsRight
  <1>6. QED
    BY <1>2, <1>3, <1>4, <1>5 DEF IInv

\* What the scheduler forgets nobody misses.
LEMMA SchedulerRestartKeeps == ASSUME IInv, SchedulerRestart PROVE IInv'
  <1>1. TypeOK' /\ JobsFit' /\ WatchesFit' /\ SuccessMovesWatchOn'
    BY DEF IInv, TypeOK, timeline, SchedulerRestart, JobsFit, WatchesFit,
        SuccessMovesWatchOn
  <1>2. DeletedLeavesNothing' /\ TimelineIsTrue' /\ OverlapsAreKnown'
    BY DEF IInv, timeline, SchedulerRestart, DeletedLeavesNothing, TimelineIsTrue,
        OverlapsAreKnown, InFlight, Target
  <1>3. \A p \in Workers : WorkerIsRight(p)'
    BY DEF IInv, timeline, SchedulerRestart, WorkerIsRight, HoldsJob, InstantIsOwn,
        ComparesRightly, MovedOn, InFlight, Target, Exists
  <1>4. QED
    BY <1>1, <1>2, <1>3 DEF IInv

-----------------------------------------------------------------------------
(* The queue *)

\* Rows move, none appears or disappears, and a worker may begin with one or be idle.
LEMMA RowsMove ==
    ASSUME IInv, UNCHANGED <<instant, watch, timeline, due>>,
           jobs' \in [Ids -> JobRecord], worker' \in [Workers -> WorkerState],
           \A id \in Ids :
              /\ jobs'[id].status = "absent" <=> jobs[id].status = "absent"
              /\ jobs'[id].status \in {"absent", "queued", "retry"} =>
                        jobs'[id].attempt < MaxAttempts
              /\ jobs'[id].status = "succeeded" /\ jobs[id].status # "succeeded" =>
                        ~(watch[id[1]].state = "enabled" /\ watch[id[1]].next = id[2]),
           \A p \in Workers :
              \/ worker'[p] = worker[p]
              \/ worker'[p].pc = "idle"
              \/ /\ worker'[p].pc = "get" /\ worker'[p].job \in Ids
                 /\ jobs[worker'[p].job].status # "absent"
    PROVE  IInv'
  <1>1. TypeOK' /\ JobsFit'
    BY DEF IInv, TypeOK, timeline, JobsFit
  <1>2. WatchesFit' /\ DeletedLeavesNothing' /\ TimelineIsTrue'
    BY DEF IInv, timeline, WatchesFit, DeletedLeavesNothing, TimelineIsTrue
  <1>3. SuccessMovesWatchOn'
    <2>1. SUFFICES ASSUME NEW w \in Watches, watch[w].state = "enabled"
                   PROVE  jobs'[<<w, watch[w].next>>].status # "succeeded"
      BY DEF SuccessMovesWatchOn
    <2>2. watch[w].next \in 1..MaxInstants
      BY <2>1, WatchAssumption DEF IInv, TypeOK, WatchRecord, WatchesFit
    <2>3. /\ <<w, watch[w].next>> \in Ids
          /\ <<w, watch[w].next>>[1] = w /\ <<w, watch[w].next>>[2] = watch[w].next
      BY <2>2, IdParts
    <2>4. QED
      BY <2>1, <2>3 DEF IInv, SuccessMovesWatchOn
  <1>4. \A p \in Workers : InFlight(p)' => worker'[p] = worker[p]
    BY DEF InFlight
  <1>5. OverlapsAreKnown'
    BY <1>4 DEF IInv, timeline, OverlapsAreKnown, InFlight, Target
  <1>6. ASSUME NEW p \in Workers, worker'[p] = worker[p] PROVE WorkerIsRight(p)'
    <2>1. worker[p].pc \notin {"down", "idle"} => worker[p].job \in Ids
      BY AtWork
    <2>2. InFlight(p) => <<Target(p), worker[p].at>> \in Ids
      BY InFlightId
    <2>3. QED
      <3>1. WorkerIsRight(p)
        BY DEF IInv
      <3>2. HoldsJob(p)'
        BY <1>6, <2>1, <2>2, <3>1 DEF timeline, WorkerIsRight, HoldsJob, Target
      <3>3. InstantIsOwn(p)'
        BY <1>6, <2>1, <2>2, <3>1 DEF timeline, WorkerIsRight, InstantIsOwn, InFlight, Target
      <3>4. ComparesRightly(p)'
        BY <1>6, <2>1, <2>2, <3>1 DEF timeline, WorkerIsRight, ComparesRightly, InFlight, Target, Exists
      <3>5. MovedOn(p)'
        BY <1>6, <2>1, <2>2, <3>1 DEF timeline, WorkerIsRight, MovedOn, Target
      <3>6. QED
        BY <3>2, <3>3, <3>4, <3>5 DEF WorkerIsRight
  <1>7. ASSUME NEW p \in Workers, worker'[p] # worker[p] PROVE WorkerIsRight(p)'
    BY <1>7 DEF WorkerIsRight, HoldsJob, InstantIsOwn, ComparesRightly, MovedOn, InFlight
  <1>8. QED
    BY <1>1, <1>2, <1>3, <1>5, <1>6, <1>7 DEF IInv

\* The sweep dead-letters running jobs and leaves the others alone.
LEMMA SweptRows ==
    ASSUME IInv, NEW expired \in SUBSET Running
    PROVE  /\ Swept(expired) \in [Ids -> JobRecord]
           /\ \A id \in Ids :
                \/ Swept(expired)[id] = jobs[id]
                \/ /\ jobs[id].status = "running"
                   /\ Swept(expired)[id].status = "dead_letter"
  <1>1. ASSUME NEW id \in Ids
        PROVE  /\ [jobs[id] EXCEPT !.status = "dead_letter"] \in JobRecord
               /\ [jobs[id] EXCEPT !.status = "dead_letter"].status = "dead_letter"
    BY DEF IInv, TypeOK, JobRecord, Terminal
  <1>2. QED
    BY <1>1 DEF IInv, TypeOK, Swept, Running

\* A claim starts an attempt that is left.
LEMMA ClaimKeeps ==
    ASSUME IInv, NEW p \in Workers, NEW expired \in SUBSET Running, Claim(p, expired)
    PROVE  IInv'
  <1>1. CASE jobs' = Swept(expired) /\ UNCHANGED worker
    <2>1. \A id \in Ids : jobs[id].status \in {"absent", "queued", "retry"} =>
                              jobs[id].attempt < MaxAttempts
      BY DEF IInv, JobsFit
    <2>2. QED
      BY <1>1, <2>1, SweptRows, RowsMove DEF Claim, IInv, TypeOK
  <1>2. ASSUME NEW id \in Ids,
               \/ jobs[id].status \in {"queued", "retry"}
               \/ id \in expired /\ ~Exhausted(id),
               jobs' = [Swept(expired) EXCEPT ![id] =
                    [status |-> "running", attempt |-> @.attempt + 1, token |-> @.token + 1]],
               worker' = [worker EXCEPT ![p] =
                    [@ EXCEPT !.pc = "get", !.job = id, !.token = jobs[id].token + 1]]
        PROVE  IInv'
    <2>1. jobs[id] \in JobRecord /\ jobs[id].attempt < MaxAttempts /\ jobs[id].status # "absent"
      <3>1. jobs[id] \in JobRecord /\ jobs[id].attempt \in Nat /\ MaxAttempts \in Nat
        BY WatchAssumption DEF IInv, TypeOK, JobRecord
      <3>2. QED
        BY <1>2, <3>1 DEF IInv, JobsFit, Exhausted, Running
    <2>2. Swept(expired)[id] = jobs[id]
      BY <1>2, <2>1 DEF Swept, Exhausted, Running, IInv, JobsFit
    <2>3. /\ jobs[id].attempt + 1 \in 0..MaxAttempts /\ jobs[id].token + 1 \in Nat
      BY <2>1, WatchAssumption DEF JobRecord
    <2>4. /\ jobs' \in [Ids -> JobRecord] /\ jobs'[id].status = "running"
          /\ \A i \in Ids : i # id => jobs'[i] = Swept(expired)[i]
      BY <1>2, <2>2, <2>3, SweptRows DEF JobRecord
    <2>5. /\ worker' \in [Workers -> WorkerState]
          /\ worker'[p].pc = "get" /\ worker'[p].job = id
          /\ \A q \in Workers : q # p => worker'[q] = worker[q]
      <3> DEFINE k == [worker[p] EXCEPT !.pc = "get", !.job = id,
                                        !.token = jobs[id].token + 1]
      <3>1. worker[p] \in WorkerState
        BY DEF IInv, TypeOK
      <3>2. k \in WorkerState /\ k.pc = "get" /\ k.job = id
        BY <2>3, <3>1 DEF WorkerState
      <3> HIDE DEF k
      <3>3. worker' = [worker EXCEPT ![p] = k]
        BY <1>2 DEF k
      <3>4. QED
        BY <3>2, <3>3 DEF IInv, TypeOK
    <2>6. \A i \in Ids : jobs[i].status \in {"absent", "queued", "retry"} =>
                              jobs[i].attempt < MaxAttempts
      BY DEF IInv, JobsFit
    <2>7. \A i \in Ids :
              /\ jobs'[i].status = "absent" <=> jobs[i].status = "absent"
              /\ jobs'[i].status \in {"absent", "queued", "retry"} =>
                        jobs'[i].attempt < MaxAttempts
              /\ jobs'[i].status = "succeeded" => jobs[i].status = "succeeded"
      BY <2>1, <2>4, <2>6, SweptRows
    <2>8. QED
      BY <2>1, <2>4, <2>5, <2>7, RowsMove DEF Claim
  <1>3. QED
    BY <1>1, <1>2 DEF Claim

\* A report settles a job, and if it succeeded its watch has moved on.
LEMMA ReportKeeps == ASSUME IInv, NEW p \in Workers, Report(p) PROVE IInv'
  <1> DEFINE id == worker[p].job
  <1>1. /\ id \in Ids /\ id[1] = Target(p) /\ jobs[id] \in JobRecord
        /\ jobs[id].status = "running"
    BY AtWork DEF Report, FenceMatches, Target, IInv, TypeOK
  <1>2. /\ Settled(p) \in {"succeeded", "retry", "dead_letter"}
        /\ Settled(p) = "succeeded" => worker[p].result = "done"
        /\ Settled(p) = "retry" => jobs[id].attempt < MaxAttempts
    BY <1>1, WatchAssumption DEF Settled, Exhausted, JobRecord
  <1>3. /\ jobs' \in [Ids -> JobRecord]
        /\ jobs'[id].status = Settled(p) /\ jobs'[id].attempt = jobs[id].attempt
        /\ \A i \in Ids : i # id => jobs'[i] = jobs[i]
    <2>1. Settled(p) \in {"absent", "queued", "running", "retry"} \cup Terminal
      BY <1>2 DEF Terminal
    <2>2. QED
      BY <1>1, <2>1 DEF Report, IInv, TypeOK, JobRecord
  <1>4. /\ worker' \in [Workers -> WorkerState] /\ worker'[p].pc = "idle"
        /\ \A q \in Workers : q # p => worker'[q] = worker[q]
    <2>1. At("idle") \in WorkerState /\ At("idle").pc = "idle"
      BY WatchAssumption DEF At, WorkerState
    <2>2. QED
      BY <2>1 DEF Report, IInv, TypeOK
  <1>5. worker[p].result = "done" =>
            ~(watch[id[1]].state = "enabled" /\ watch[id[1]].next = id[2])
    BY DEF IInv, WorkerIsRight, MovedOn, Report, Target
  <1>6. \A i \in Ids : jobs[i].status \in {"absent", "queued", "retry"} =>
                            jobs[i].attempt < MaxAttempts
    BY DEF IInv, JobsFit
  <1> HIDE DEF id
  <1>7. \A i \in Ids :
            /\ jobs'[i].status = "absent" <=> jobs[i].status = "absent"
            /\ jobs'[i].status \in {"absent", "queued", "retry"} =>
                      jobs'[i].attempt < MaxAttempts
            /\ jobs'[i].status = "succeeded" /\ jobs[i].status # "succeeded" =>
                      ~(watch[i[1]].state = "enabled" /\ watch[i[1]].next = i[2])
    BY <1>1, <1>2, <1>3, <1>5, <1>6
  <1>8. QED
    BY <1>3, <1>4, <1>7, RowsMove DEF Report

-----------------------------------------------------------------------------
(* A refresh *)

\* A watch that is not enabled ends its refresh as done.
LEMMA GetWatchKeeps == ASSUME IInv, NEW p \in Workers, GetWatch(p) PROVE IInv'
  <1>1. CASE watch[Target(p)].state = "enabled"
    <2> DEFINE k == [worker[p] EXCEPT !.pc = "read"]
    <2>1. k \in WorkerState /\ k.pc = "read" /\ k.job = worker[p].job
      BY DEF IInv, TypeOK, WorkerState
    <2>2. worker' = [worker EXCEPT ![p] = k] /\ worker'[p] = k
      BY <1>1 DEF GetWatch, Goto, IInv, TypeOK
    <2> HIDE DEF k
    <2>3. WorkerIsRight(p)' /\ ~InFlight(p)'
      BY <1>1, <2>1, <2>2, AtWork
      DEF GetWatch, WorkerIsRight, HoldsJob, InstantIsOwn, ComparesRightly, MovedOn, InFlight,
          Target
    <2>4. QED
      BY <2>1, <2>2, <2>3, WorkerMoves DEF GetWatch
  <1>2. CASE watch[Target(p)].state # "enabled"
    BY <1>2, WorkerEnds DEF GetWatch
  <1>3. QED
    BY <1>1, <1>2

\* The answer of the providers is kept until it is recorded.
LEMMA ObserveKeeps ==
    ASSUME IInv, NEW p \in Workers, NEW observation \in Answers, Observe(p, observation)
    PROVE  IInv'
  <1> DEFINE k == [worker[p] EXCEPT !.pc = "record", !.current = observation]
  <1>1. /\ k \in WorkerState /\ k.pc = "record" /\ k.current = observation
        /\ k.job = worker[p].job /\ k.at = worker[p].at /\ k.previous = worker[p].previous
    BY DEF IInv, TypeOK, WorkerState
  <1>2. worker' = [worker EXCEPT ![p] = k] /\ worker'[p] = k
    BY DEF Observe, IInv, TypeOK
  <1> HIDE DEF k
  <1>3. InFlight(p)
    BY DEF Observe, InFlight
  <1>4. WorkerIsRight(p)'
    <2>1. WorkerIsRight(p)
      BY DEF IInv
    <2>2. HoldsJob(p)'
      BY <1>1, <1>2, <1>3, <2>1 DEF Observe, timeline, WorkerIsRight, HoldsJob, Target
    <2>3. InstantIsOwn(p)'
      BY <1>1, <1>2, <1>3, <2>1 DEF Observe, timeline, WorkerIsRight, InstantIsOwn, InFlight, Target
    <2>4. ComparesRightly(p)'
      BY <1>1, <1>2, <1>3, <2>1 DEF Observe, timeline, WorkerIsRight, ComparesRightly, InFlight, Target, Exists
    <2>5. MovedOn(p)'
      BY <1>1, <1>2, <1>3, <2>1 DEF Observe, timeline, WorkerIsRight, MovedOn, Target
    <2>6. QED
      BY <2>2, <2>3, <2>4, <2>5 DEF WorkerIsRight
  <1>5. QED
    BY <1>1, <1>2, <1>3, <1>4, WorkerMoves DEF Observe

\* An exception, a deleted watch or a crash ends a refresh without success.
LEMMA RaiseKeeps ==
    ASSUME IInv, NEW p \in Workers, NEW result \in {"retryable", "terminal"}, Raise(p, result)
    PROVE  IInv'
  BY WorkerEnds DEF Raise

LEMMA RecordDeletedKeeps == ASSUME IInv, NEW p \in Workers, RecordDeleted(p) PROVE IInv'
  BY WorkerEnds DEF RecordDeleted

LEMMA DiesKeeps ==
    ASSUME IInv, NEW p \in Workers, StaleReport(p) \/ Crash(p) \/ Restart(p)
    PROVE  IInv'
  BY WorkerRests DEF StaleReport, Crash, Restart

\* What is confirmed as done has moved its watch on.
LEMMA ConfirmKeeps == ASSUME IInv, NEW p \in Workers, Confirm(p) PROVE IInv'
  <1>1. watch[Target(p)].next # worker[p].job[2]
    BY DEF IInv, WorkerIsRight, MovedOn, Confirm
  <1>2. QED
    BY <1>1, WorkerEnds DEF Confirm

\* A refresh that reads what it will compare with gets an instant of its own, and
\* whoever is in flight for the same watch overlaps with it.
LEMMA ReadPreviousKeeps == ASSUME IInv, NEW p \in Workers, ReadPrevious(p) PROVE IInv'
  <1> DEFINE k == [worker[p] EXCEPT !.pc = "observe", !.previous = known[Target(p)],
                                    !.at = instant']
  <1>1. /\ instant \in Nat /\ instant' = instant + 1 /\ instant' \in 1..MaxInstants
        /\ instant' \in 0..MaxInstants
    BY WatchAssumption DEF IInv, TypeOK, ReadPrevious, NewInstant
  <1>2. /\ worker[p].pc = "read" /\ worker[p] \in WorkerState
        /\ Target(p) \in Watches /\ known[Target(p)] \in SUBSET Events
    BY AtWork DEF ReadPrevious, IInv, TypeOK
  <1>3. /\ k \in WorkerState /\ k.pc = "observe" /\ k.job = worker[p].job
        /\ k.previous = known[Target(p)] /\ k.at = instant'
    BY <1>1, <1>2 DEF WorkerState
  <1>4. worker' = [worker EXCEPT ![p] = k]
    BY DEF ReadPrevious
  <1> HIDE DEF k
  <1>5. /\ worker' \in [Workers -> WorkerState] /\ worker'[p] = k
        /\ \A q \in Workers : q # p => worker'[q] = worker[q]
    BY <1>3, <1>4 DEF IInv, TypeOK
  <1>6. /\ overlapped \subseteq overlapped' /\ overlapped' \subseteq Watches
        /\ \A q \in Workers : q # p /\ InFlight(q) /\ Target(q) = Target(p) =>
                                    Target(p) \in overlapped'
    BY <1>2 DEF IInv, TypeOK, ReadPrevious
  <1>7. \A id \in Ids : jobs[id].status # "absent" \/ id \in due =>
                            id[2] <= instant' /\ id[2] # instant'
    BY <1>1, IdParts DEF IInv, JobsFit
  <1>8. TypeOK' /\ JobsFit'
    BY <1>1, <1>5, <1>6, <1>7 DEF IInv, TypeOK, ReadPrevious, JobsFit
  <1>9. WatchesFit'
    <2>1. \A v \in Watches : watch[v].next \in Nat
      BY DEF IInv, TypeOK, WatchRecord
    <2>2. QED
      BY <2>1, <1>1 DEF IInv, WatchesFit, ReadPrevious
  <1>10. SuccessMovesWatchOn' /\ DeletedLeavesNothing' /\ TimelineIsTrue'
    BY <1>6 DEF IInv, ReadPrevious, SuccessMovesWatchOn, DeletedLeavesNothing, TimelineIsTrue
  <1>11. \A q \in Workers : q # p => InFlight(q)' = InFlight(q) /\ Target(q)' = Target(q)
    BY <1>5 DEF InFlight, Target
  <1>12. InFlight(p)' /\ Target(p)' = Target(p)
    BY <1>3, <1>5 DEF InFlight, Target
  <1>13. OverlapsAreKnown'
    <2>1. ASSUME NEW q \in Workers, InFlight(q) PROVE worker[q].at # instant'
      <3>1. worker[q].at <= instant /\ worker[q].at \in 1..MaxInstants
        BY <2>1, InFlightId
      <3>2. QED
        BY <1>1, <3>1
    <2>2. QED
      BY <1>3, <1>5, <1>6, <1>11, <1>12, <2>1 DEF IInv, OverlapsAreKnown
  <1>14. WorkerIsRight(p)'
    <2>1. HoldsJob(p)' /\ MovedOn(p)'
      BY <1>2, <1>3, <1>5, <1>12
      DEF IInv, ReadPrevious, WorkerIsRight, HoldsJob, MovedOn, Target
    <2>2. InstantIsOwn(p)'
      <3>1. <<Target(p), instant'>> \in Ids /\ <<Target(p), instant'>>[2] = instant'
        BY <1>1, <1>2, IdParts
      <3>2. watch[Target(p)].next # instant'
        BY <1>1, <1>2 DEF IInv, TypeOK, WatchRecord, WatchesFit
      <3>3. QED
        BY <1>1, <1>3, <1>5, <1>7, <1>12, <3>1, <3>2 DEF ReadPrevious, InstantIsOwn
    <2>3. ComparesRightly(p)'
      BY <1>2, <1>3, <1>5, <1>12 DEF IInv, ReadPrevious, TimelineIsTrue, ComparesRightly, Exists
    <2>4. QED
      BY <2>1, <2>2, <2>3 DEF WorkerIsRight
  <1>15. ASSUME NEW q \in Workers, q # p PROVE WorkerIsRight(q)'
    <2>1. HoldsJob(q)' /\ MovedOn(q)' /\ ComparesRightly(q)'
      BY <1>5, <1>6, <1>11, <1>15
      DEF IInv, ReadPrevious, WorkerIsRight, HoldsJob, MovedOn, ComparesRightly, Exists, Target
    <2>2. InstantIsOwn(q)'
      BY <1>1, <1>5, <1>11, <1>15 DEF IInv, ReadPrevious, WorkerIsRight, InstantIsOwn
    <2>3. QED
      BY <2>1, <2>2 DEF WorkerIsRight
  <1>16. QED
    BY <1>8, <1>9, <1>10, <1>13, <1>14, <1>15 DEF IInv

\* Counting some events adds one to each.
LEMMA CountedEvents ==
    ASSUME NEW counts \in [Events -> Nat], NEW events
    PROVE  /\ Counted(counts, events) \in [Events -> Nat]
           /\ \A e \in Events :
                Counted(counts, events)[e] = IF e \in events THEN counts[e] + 1 ELSE counts[e]
  BY DEF Counted

\* A refresh that records moves its watch on to its own instant, and announces what
\* it adds to the known events.
LEMMA RecordKeeps == ASSUME IInv, NEW p \in Workers, Record(p) PROVE IInv'
  <1> DEFINE w == Target(p)
             at == worker[p].at
             previous == worker[p].previous
             answer == worker[p].current
  <1>1. /\ InFlight(p) /\ Exists(w) /\ w \in Watches /\ answer \in Answers
        /\ answer.events \subseteq Events /\ answer.successful \in BOOLEAN
        /\ previous \subseteq Events
    <2>1. InFlight(p) /\ Exists(w) /\ w \in Watches /\ worker[p] \in WorkerState
      BY AtWork DEF Record, InFlight
    <2>2. answer \in Observations
      BY WatchAssumption DEF Record, IInv, WorkerIsRight, HoldsJob
    <2>3. answer \in Answers
      BY DEF Record, IInv, WorkerIsRight, HoldsJob
    <2>4. answer.events \subseteq Events /\ answer.successful \in BOOLEAN
      BY <2>2 DEF Observations
    <2>5. QED
      BY <2>1, <2>3, <2>4 DEF WorkerState
  <1>2. /\ at \in 1..MaxInstants /\ at \in 0..MaxInstants /\ at <= instant
        /\ <<w, at>> \in Ids /\ jobs[<<w, at>>].status = "absent"
        /\ <<w, at>> \notin due
    <2>1. at \in 1..MaxInstants /\ at <= instant /\ <<w, at>> \in Ids
      BY <1>1, InFlightId
    <2>2. jobs[<<w, at>>].status = "absent" /\ <<w, at>> \notin due
      BY <1>1 DEF IInv, WorkerIsRight, InstantIsOwn
    <2>3. QED
      BY <2>1, <2>2
  <1>3. /\ watch' \in [Watches -> WatchRecord]
        /\ watch'[w].next = at /\ watch'[w].state = watch[w].state
        /\ \A v \in Watches : v # w => watch'[v] = watch[v]
    <2>1. watch' = [watch EXCEPT ![w] = [watch[w] EXCEPT !.next = at]]
      BY DEF Record
    <2>2. watch \in [Watches -> WatchRecord] /\ watch[w] \in WatchRecord
      BY <1>1 DEF IInv, TypeOK
    <2> HIDE DEF w, at
    <2>3. /\ [watch[w] EXCEPT !.next = at] \in WatchRecord
          /\ [watch[w] EXCEPT !.next = at].next = at
          /\ [watch[w] EXCEPT !.next = at].state = watch[w].state
      BY <1>2, <2>2 DEF WatchRecord
    <2>4. QED
      BY <1>1, <2>1, <2>2, <2>3
  <1>4. /\ worker' \in [Workers -> WorkerState]
        /\ worker'[p].pc = "confirm" /\ worker'[p].job = worker[p].job
        /\ worker'[p].current = answer
        /\ \A q \in Workers : q # p => worker'[q] = worker[q]
    <2>1. worker' = [worker EXCEPT ![p] = [worker[p] EXCEPT !.pc = "confirm"]]
      BY DEF Record, Goto
    <2>2. worker \in [Workers -> WorkerState] /\ worker[p] \in WorkerState
      BY DEF IInv, TypeOK
    <2>3. /\ [worker[p] EXCEPT !.pc = "confirm"] \in WorkerState
          /\ [worker[p] EXCEPT !.pc = "confirm"].pc = "confirm"
          /\ [worker[p] EXCEPT !.pc = "confirm"].job = worker[p].job
          /\ [worker[p] EXCEPT !.pc = "confirm"].current = answer
      BY <2>2 DEF WorkerState
    <2>4. QED
      BY <2>1, <2>2, <2>3
  <1>5. /\ known' \in [Watches -> SUBSET Events]
        /\ answer.successful => known'[w] = answer.events
        /\ ~answer.successful => known'[w] = known[w]
        /\ \A v \in Watches : v # w => known'[v] = known[v]
    BY <1>1 DEF Record, IInv, TypeOK
  <1>6. /\ appeared' \in [Watches -> [Events -> Nat]]
        /\ \A e \in Events : appeared'[w][e] =
                IF answer.successful /\ e \in answer.events \ previous
                THEN appeared[w][e] + 1 ELSE appeared[w][e]
        /\ \A v \in Watches : v # w => appeared'[v] = appeared[v]
    <2>1. appeared' = [appeared EXCEPT ![w] = Counted(appeared[w], NewEvents(p))]
      BY DEF Record
    <2>2. \A e : e \in NewEvents(p) <=> answer.successful /\ e \in answer.events \ previous
      BY DEF NewEvents
    <2>3. appeared[w] \in [Events -> Nat]
      BY <1>1 DEF IInv, TypeOK
    <2> HIDE DEF w, previous, answer
    <2>4. /\ Counted(appeared[w], NewEvents(p)) \in [Events -> Nat]
          /\ \A e \in Events : Counted(appeared[w], NewEvents(p))[e] =
                IF e \in NewEvents(p) THEN appeared[w][e] + 1 ELSE appeared[w][e]
      BY <2>3, CountedEvents
    <2>5. appeared \in [Watches -> [Events -> Nat]]
      BY DEF IInv, TypeOK
    <2>6. QED
      BY <1>1, <2>1, <2>2, <2>4, <2>5
  <1>7. /\ vanished' \in [Watches -> [Events -> Nat]]
        /\ \A e \in Events : vanished'[w][e] =
                IF answer.successful /\ e \in previous \ answer.events
                THEN vanished[w][e] + 1 ELSE vanished[w][e]
        /\ \A v \in Watches : v # w => vanished'[v] = vanished[v]
    <2>1. vanished' = [vanished EXCEPT ![w] = Counted(vanished[w], Gaps(p))]
      BY DEF Record
    <2>2. \A e : e \in Gaps(p) <=> answer.successful /\ e \in previous \ answer.events
      BY DEF Gaps
    <2>3. vanished[w] \in [Events -> Nat]
      BY <1>1 DEF IInv, TypeOK
    <2> HIDE DEF w, previous, answer
    <2>4. /\ Counted(vanished[w], Gaps(p)) \in [Events -> Nat]
          /\ \A e \in Events : Counted(vanished[w], Gaps(p))[e] =
                IF e \in Gaps(p) THEN vanished[w][e] + 1 ELSE vanished[w][e]
      BY <2>3, CountedEvents
    <2>5. vanished \in [Watches -> [Events -> Nat]]
      BY DEF IInv, TypeOK
    <2>6. QED
      BY <1>1, <2>1, <2>2, <2>4, <2>5
  <1>8. UNCHANGED <<instant, jobs, due, overlapped>>
    BY DEF Record
  <1>9. /\ \A e \in previous : appeared[w][e] > 0
        /\ w \notin overlapped => previous = known[w]
    BY <1>1 DEF IInv, WorkerIsRight, ComparesRightly
  <1>10. \A q \in Workers : q # p => InFlight(q)' = InFlight(q) /\ Target(q)' = Target(q)
    BY <1>4 DEF InFlight, Target
  <1>11. Target(p)' = w /\ ~InFlight(p)'
    BY <1>4 DEF InFlight, Target
  <1>12. worker[p].job \in Ids /\ jobs[worker[p].job].status # "absent"
         /\ worker[p].job = <<w, worker[p].job[2]>>
    BY <1>1, AtWork DEF InFlight
  <1>13. \A e \in Events : appeared[w][e] \in Nat /\ vanished[w][e] \in Nat
    BY <1>1 DEF IInv, TypeOK
  <1>14. \A q \in Workers : q # p /\ InFlight(q) /\ Target(q) = w =>
                w \in overlapped /\ worker[q].at # at
    BY <1>1 DEF IInv, OverlapsAreKnown
  <1> HIDE DEF w, at, previous, answer
  <1>15. TypeOK' /\ JobsFit'
    BY <1>3, <1>4, <1>5, <1>6, <1>7, <1>8 DEF IInv, TypeOK, JobsFit
  <1>16. WatchesFit'
    BY <1>2, <1>3, <1>8 DEF IInv, WatchesFit
  <1>17. SuccessMovesWatchOn'
    BY <1>2, <1>3, <1>8 DEF IInv, SuccessMovesWatchOn
  <1>18. DeletedLeavesNothing'
    BY <1>1, <1>3, <1>5, <1>6, <1>7 DEF IInv, DeletedLeavesNothing, Exists
  <1>19. TimelineIsTrue'
    <2>1. ASSUME NEW e \in Events
          PROVE  /\ e \in known'[w] => appeared'[w][e] > 0
                 /\ w \notin overlapped' => appeared'[w][e] =
                        vanished'[w][e] + (IF e \in known'[w] THEN 1 ELSE 0)
      <3>1. /\ e \in known[w] => appeared[w][e] > 0
            /\ w \notin overlapped => appeared[w][e] =
                   vanished[w][e] + (IF e \in known[w] THEN 1 ELSE 0)
        BY <1>1 DEF IInv, TimelineIsTrue
      <3>2. appeared[w][e] \in Nat /\ vanished[w][e] \in Nat
        BY <1>13
      <3>3. CASE ~answer.successful
        BY <3>1, <3>3, <1>5, <1>6, <1>7, <1>8
      <3>4. CASE answer.successful
        BY <3>1, <3>2, <3>4, <1>5, <1>6, <1>7, <1>8, <1>9
      <3>5. QED
        BY <3>3, <3>4
    <2>2. QED
      BY <2>1, <1>5, <1>6, <1>7, <1>8, SMTT(30) DEF IInv, TimelineIsTrue
  <1>20. OverlapsAreKnown'
    BY <1>4, <1>8, <1>10, <1>11 DEF IInv, OverlapsAreKnown
  <1>21. WorkerIsRight(p)'
    <2>1. worker[p].job[2] # at
      BY <1>2, <1>12
    <2>2. QED
      BY <1>1, <1>3, <1>4, <1>8, <1>11, <1>12, <2>1
      DEF WorkerIsRight, HoldsJob, InstantIsOwn, ComparesRightly, MovedOn
  <1>22. ASSUME NEW q \in Workers, q # p PROVE WorkerIsRight(q)'
    <2>1. HoldsJob(q)'
      <3>1. worker[q].pc \notin {"down", "idle"} => Target(q) \in Watches
        BY AtWork
      <3>2. QED
        BY <1>3, <1>4, <1>8, <1>10, <1>22, <3>1 DEF IInv, WorkerIsRight, HoldsJob
    <2>2. InstantIsOwn(q)'
      <3>1. InFlight(q) => Target(q) \in Watches
        BY InFlightId
      <3>2. QED
        BY <1>3, <1>4, <1>8, <1>10, <1>14, <1>22, <3>1 DEF IInv, WorkerIsRight, InstantIsOwn
    <2>3. ComparesRightly(q)'
      <3>1. SUFFICES ASSUME InFlight(q), Exists(Target(q))'
                     PROVE  /\ \A e \in worker[q].previous : appeared'[Target(q)][e] > 0
                            /\ Target(q) \notin overlapped =>
                                    worker[q].previous = known'[Target(q)]
        BY <1>4, <1>8, <1>10, <1>22 DEF ComparesRightly
      <3>2. /\ Target(q) \in Watches /\ worker[q].previous \subseteq Events
            /\ Exists(Target(q))
        BY <1>3, <1>10, <1>22, <3>1, InFlightId DEF IInv, TypeOK, WorkerState, Exists
      <3>3. /\ \A e \in worker[q].previous : appeared[Target(q)][e] > 0
            /\ Target(q) \notin overlapped => worker[q].previous = known[Target(q)]
        BY <3>1, <3>2 DEF IInv, WorkerIsRight, ComparesRightly
      <3>4. CASE Target(q) = w
        BY <1>6, <1>13, <1>14, <1>22, <3>1, <3>2, <3>3, <3>4
      <3>5. CASE Target(q) # w
        BY <1>5, <1>6, <3>2, <3>3, <3>5
      <3>6. QED
        BY <3>4, <3>5
    <2>4. MovedOn(q)'
      <3>1. worker[q].pc \in {"confirm", "reporting"} =>
                /\ Target(q) \in Watches /\ jobs[worker[q].job].status # "absent"
                /\ worker[q].job = <<Target(q), worker[q].job[2]>>
        BY AtWork
      <3>2. QED
        BY <1>2, <1>3, <1>4, <1>10, <1>22, <3>1 DEF IInv, WorkerIsRight, MovedOn
    <2>5. QED
      BY <2>1, <2>2, <2>3, <2>4 DEF WorkerIsRight
  <1>23. QED
    BY <1>15, <1>16, <1>17, <1>18, <1>19, <1>20, <1>21, <1>22 DEF IInv

\* Whatever a worker does keeps the invariant.
LEMMA RefreshKeeps == ASSUME IInv, NEW p \in Workers, Refresh(p) PROVE IInv'
  BY ClaimKeeps, GetWatchKeeps, ReadPreviousKeeps, ObserveKeeps, RaiseKeeps, RecordKeeps,
     RecordDeletedKeeps, ConfirmKeeps, ReportKeeps, DiesKeeps
  DEF Refresh

-----------------------------------------------------------------------------
(* The invariant and what follows from it *)

\* Nothing has happened yet.
LEMMA InitEstablishes == ASSUME Init PROVE IInv
  <1>1. At("idle") \in WorkerState /\ At("idle").pc = "idle"
    BY WatchAssumption DEF At, WorkerState
  <1>2. \A id \in Ids : jobs[id] \in JobRecord /\ jobs[id].attempt = 0
                       /\ jobs[id].status = "absent"
    BY WatchAssumption DEF Init, JobRecord
  <1>3. \A w \in Watches : watch[w] \in WatchRecord /\ watch[w].state = "absent"
                           /\ watch[w].next = 0
    BY WatchAssumption DEF Init, WatchRecord
  <1>4. Nothing \in [Events -> Nat] /\ \A e \in Events : Nothing[e] = 0
    BY DEF Nothing
  <1>5. TypeOK
    BY <1>1, <1>2, <1>3, <1>4, WatchAssumption DEF Init, TypeOK
  <1>6. JobsFit /\ WatchesFit /\ SuccessMovesWatchOn /\ DeletedLeavesNothing
    BY <1>2, <1>3, WatchAssumption
    DEF Init, JobsFit, WatchesFit, SuccessMovesWatchOn, DeletedLeavesNothing
  <1>7. TimelineIsTrue
    BY <1>4 DEF Init, TimelineIsTrue
  <1>8. OverlapsAreKnown /\ \A p \in Workers : WorkerIsRight(p)
    BY <1>1
    DEF Init, OverlapsAreKnown, WorkerIsRight, HoldsJob, InstantIsOwn, ComparesRightly,
        MovedOn, InFlight
  <1>9. QED
    BY <1>5, <1>6, <1>7, <1>8 DEF IInv

\* A step of somebody else changes nothing the invariant speaks of.
LEMMA StutterKeeps == ASSUME IInv, UNCHANGED vars PROVE IInv'
  <1>1. /\ TypeOK' /\ JobsFit' /\ WatchesFit' /\ SuccessMovesWatchOn'
        /\ DeletedLeavesNothing' /\ TimelineIsTrue' /\ OverlapsAreKnown'
    BY DEF IInv, vars, timeline, TypeOK, JobsFit, WatchesFit, SuccessMovesWatchOn,
        DeletedLeavesNothing, TimelineIsTrue, OverlapsAreKnown, InFlight, Target
  <1>2. \A p \in Workers : WorkerIsRight(p)'
    BY DEF IInv, vars, timeline, WorkerIsRight, HoldsJob, InstantIsOwn, ComparesRightly,
        MovedOn, InFlight, Target, Exists
  <1>3. QED
    BY <1>1, <1>2 DEF IInv

\* The invariant holds throughout.
LEMMA Invariance == Spec => []IInv
  <1>1. Init => IInv
    BY InitEstablishes
  <1>2. IInv /\ [Next]_vars => IInv'
    BY CommandKeeps, ReadDueKeeps, EnqueueDueKeeps, SchedulerRestartKeeps, RefreshKeeps,
       StutterKeeps
    DEF Next
  <1>3. QED
    BY <1>1, <1>2, PTL DEF Spec

\* Every row and every local variable of a refresh has its type; attempts stay within
\* their limit.
THEOREM TypeCorrect == Spec => []TypeOK
  <1>1. IInv => TypeOK
    BY DEF IInv
  <1>2. QED
    BY <1>1, Invariance, PTL

\* A refresh that was in flight when the user deleted its watch writes nothing to it
\* (record_watch_refresh on the locked row).
THEOREM DeletedWatchesStayEmpty == Spec => []DeletedLeavesNothing
  <1>1. IInv => DeletedLeavesNothing
    BY DEF IInv
  <1>2. QED
    BY <1>1, Invariance, PTL

\* No enabled watch waits for an instant whose job has succeeded, for that job would
\* never be enqueued again.
THEOREM SuccessIsProgress == Spec => []SuccessMovesWatchOn
  <1>1. IInv => SuccessMovesWatchOn
    BY DEF IInv
  <1>2. QED
    BY <1>1, Invariance, PTL

\* A timeline agrees with the evidence unless refreshes of its watch overlapped, and
\* even then no event is known that was not announced.
THEOREM TimelinesAreTrue == Spec => []TimelineIsTrue
  <1>1. IInv => TimelineIsTrue
    BY DEF IInv
  <1>2. QED
    BY <1>1, Invariance, PTL

-----------------------------------------------------------------------------
(* IncidentIdentities: observations are numbers *)

\* Numbers up to a bound have a least one and a greatest one.
LEMMA LeastObservation ==
    ASSUME NEW S \in SUBSET Obs, S # {}
    PROVE  Min(S) \in S /\ \A o \in S : Min(S) <= o
  <1> DEFINE R == {ss \in Nat \X Nat : ss[1] < ss[2]}
  <1>1. IsWellFoundedOn(R, Nat)
    BY NatLessThanWellFounded DEF OpToRel
  <1>2. \A m, n \in Nat : <<m, n>> \notin R => n <= m
    OBVIOUS
  <1>3. S \in SUBSET Nat
    BY IdentitiesAssumption DEF Obs
  <1> HIDE DEF R
  <1>4. PICK n \in S : \A m \in S : ~(<<m, n>> \in R)
    BY <1>1, <1>3, WFMin
  <1>5. \A m \in S : n <= m
    BY <1>2, <1>3, <1>4
  <1>6. QED
    BY <1>5, <1>3 DEF Min

LEMMA LargestObservation ==
    ASSUME NEW S \in SUBSET Obs, S # {}
    PROVE  Max(S) \in S /\ \A o \in S : o <= Max(S)
  <1>1. S \in SUBSET Nat /\ Count \in Nat /\ \A o \in S : o <= Count
    BY IdentitiesAssumption DEF Obs
  <1> DEFINE mirror(o) == Count + 1 - o
             D == {mirror(o) : o \in S}
  <1>2. D \in SUBSET Obs
    BY <1>1 DEF Obs
  <1>3. D # {}
    OBVIOUS
  <1>4. \A e \in D : Min(D) <= e
    BY <1>2, <1>3, LeastObservation
  <1>5. Min(D) \in D
    BY <1>2, <1>3, LeastObservation
  <1>6. PICK n \in S : Min(D) = mirror(n)
    BY <1>5
  <1>7. ASSUME NEW o \in S PROVE n >= o
    <2>1. mirror(n) <= mirror(o)
      BY <1>4, <1>6
    <2>2. QED
      BY <2>1, <1>1
  <1>8. QED
    BY <1>7, <1>1 DEF Max

\* What an identity is kept with: its own alias, and a day that is not to come.
Held(m) == \A i \in Identifiers : m.incidents[i] # {} => i \in m.aliases[i] /\ m.seen[i] <= day

-----------------------------------------------------------------------------
(* One refresh: the rows and what they are given *)

Proposals(present) == [row \in RowsOf(present) |-> Proposed(memory, row)]
Assigned(present) == [row \in RowsOf(present) |-> Stable(Proposals(present), row)]

\* Identities are numbers of their own, one for each observation.
LEMMA IdentifiersAre ==
    /\ \A i \in Identifiers : i \in Nat /\ i - Count \in Obs /\ i \notin Obs /\ i = Identity(i - Count)
    /\ \A o \in Obs : Identity(o) \in Identifiers /\ Identity(o) - Count = o
    /\ NoIdentity \notin Identifiers
  BY IdentitiesAssumption DEF Identifiers, Identity, Obs

\* The rows are disjoint events, all of whose observations are in one group.
LEMMA RowsAre ==
    ASSUME group \in [Obs -> Obs], NEW present \in SUBSET Obs, NEW row \in RowsOf(present)
    PROVE  /\ row \in SUBSET Obs /\ row # {}
           /\ \A o, p \in row : group[o] = group[p]
           /\ \A other \in RowsOf(present) :
                other # row => \A o \in row, p \in other : group[o] # group[p]
  BY DEF RowsOf

\* A row computes the identity of one of its observations, and no other row does.
LEMMA ComputedIs ==
    ASSUME group \in [Obs -> Obs], NEW present \in SUBSET Obs, NEW row \in RowsOf(present)
    PROVE  /\ Computed(row) \in Identifiers /\ Computed(row) - Count \in row
           /\ \A other \in RowsOf(present) : other # row => Computed(other) # Computed(row)
  <1>1. \A r \in RowsOf(present) :
          /\ Max(r) \in r /\ Max(r) \in Obs
          /\ Computed(r) \in Identifiers /\ Computed(r) - Count = Max(r)
    BY RowsAre, LargestObservation, IdentifiersAre DEF Computed
  <1>2. ASSUME NEW other \in RowsOf(present), other # row PROVE Max(other) # Max(row)
    BY <1>1, <1>2, RowsAre
  <1>3. QED
    BY <1>1, <1>2

\* A row proposes the one retained identity it knows, or none.
LEMMA ProposedIs ==
    ASSUME NEW m, NEW row
    PROVE  \/ Proposed(m, row) = NoIdentity
           \/ /\ Proposed(m, row) \in Identifiers
              /\ Known(m, row) = {Proposed(m, row)}
  BY DEF Proposed

\* And is given that identity, unless others propose it too, or the one it computes.
LEMMA AssignedIs ==
    ASSUME group \in [Obs -> Obs], NEW present \in SUBSET Obs, NEW row \in RowsOf(present)
    PROVE  /\ Assigned(present)[row] \in Identifiers
           /\ \/ /\ Assigned(present)[row] = Proposed(memory, row)
                 /\ \A other \in RowsOf(present) :
                      Proposed(memory, other) = Proposed(memory, row) => other = row
              \/ /\ Assigned(present)[row] = Computed(row)
                 /\ \/ Proposed(memory, row) = NoIdentity
                    \/ \E other \in RowsOf(present) :
                         other # row /\ Proposed(memory, other) = Proposed(memory, row)
  <1> DEFINE p == Proposals(present)
  <1>1. p = [r \in RowsOf(present) |-> Proposed(memory, r)]
    BY DEF Proposals
  <1>2. Assigned(present)[row] = Stable(p, row)
    BY DEF Assigned
  <1> HIDE DEF p
  <1>3. Computed(row) \in Identifiers
    BY ComputedIs
  <1>4. p[row] = NoIdentity \/ p[row] \in Identifiers
    BY <1>1, ProposedIs
  <1>5. CASE p[row] # NoIdentity /\ Claimants(p, p[row]) = {row}
    <2>1. Assigned(present)[row] = p[row]
      BY <1>2, <1>5 DEF Stable
    <2>2. \A other \in RowsOf(present) : p[other] = p[row] => other = row
      BY <1>1, <1>5 DEF Claimants
    <2>3. QED
      BY <1>1, <1>4, <1>5, <2>1, <2>2
  <1>6. CASE ~(p[row] # NoIdentity /\ Claimants(p, p[row]) = {row})
    <2>1. Assigned(present)[row] = Computed(row)
      BY <1>2, <1>6 DEF Stable
    <2>2. p[row] # NoIdentity => \E other \in RowsOf(present) : other # row /\ p[other] = p[row]
      <3>1. p[row] # NoIdentity => row \in Claimants(p, p[row]) /\ Claimants(p, p[row]) # {row}
        BY <1>1, <1>6 DEF Claimants
      <3>2. QED
        BY <1>1, <3>1 DEF Claimants
    <2>3. QED
      BY <1>1, <1>3, <2>1, <2>2
  <1>7. QED
    BY <1>5, <1>6

\* An identity that several rows proposed comes apart into one at least that no rows
\* proposed together: they compute different identities, and what one of them computes
\* is not contested elsewhere, for it would have known both.
LEMMA OneReplacementStays ==
    ASSUME group \in [Obs -> Obs], memory \in Registries, Held(memory),
           NEW present \in SUBSET Obs, NEW c \in Contested(Proposals(present))
    PROVE  \E row \in RowsOf(present) :
             /\ Proposed(memory, row) = c
             /\ Assigned(present)[row] \notin Contested(Proposals(present))
  <1> DEFINE p == Proposals(present)
  <1>1. p = [r \in RowsOf(present) |-> Proposed(memory, r)]
    BY DEF Proposals
  <1> HIDE DEF p
  <1>2. c \in Identifiers /\ c # NoIdentity
    BY IdentifiersAre DEF Contested
  <1>3. PICK r, s \in Claimants(p, c) : r # s
    BY DEF p, Contested
  <1>4. r \in RowsOf(present) /\ s \in RowsOf(present) /\ p[r] = c /\ p[s] = c
    BY <1>1, <1>3 DEF Claimants
  <1>5. Assigned(present)[r] = Computed(r) /\ Assigned(present)[s] = Computed(s)
    BY <1>1, <1>2, <1>3, <1>4, AssignedIs
  <1>6. Computed(r) # Computed(s)
    BY <1>3, <1>4, ComputedIs
  <1>7. ASSUME NEW row \in RowsOf(present), p[row] = c, Computed(row) \in Contested(p)
        PROVE  Computed(row) = c
    <2> DEFINE d == Computed(row)
    <2>1. PICK other \in RowsOf(present) : p[other] = d
      BY <1>1, <1>7 DEF Contested, Claimants
    <2>2. d \in Identifiers /\ d # NoIdentity
      BY <1>7, IdentifiersAre DEF Contested
    <2>3. d \in Known(memory, other)
      BY <1>1, <2>1, <2>2, ProposedIs
    <2>4. Remembers(memory, d)
      BY <2>3 DEF Known
    <2>5. d \in memory.aliases[d]
      BY <2>2, <2>4 DEF Held, Remembers
    <2>6. d \in Known(memory, row)
      BY <2>4, <2>5 DEF Known
    <2>7. Known(memory, row) = {c}
      BY <1>1, <1>2, <1>7, ProposedIs
    <2>8. QED
      BY <2>6, <2>7
  <1>8. QED
    <2>1. \/ Computed(r) \notin Contested(p)
          \/ Computed(s) \notin Contested(p)
      BY <1>4, <1>6, <1>7
    <2>2. QED
      BY <1>1, <1>4, <1>5, <2>1 DEF p

-----------------------------------------------------------------------------
(* One refresh: the registry *)

\* The rows given an identity, and the one of them the registry keeps.
Given(stable, i) == {row \in DOMAIN stable : stable[row] = i}

\* The rows that carry an alias lead it to their identities.
Carried(stable, a) == {stable[row] : row \in {r \in DOMAIN stable : a \in r \cup {stable[r]}}}

\* Among rows there is one whose least observation is the largest.
LEMMA LatestIs ==
    ASSUME NEW R \in SUBSET (SUBSET Obs), R # {}, \A row \in R : row # {}
    PROVE  LET final == CHOOSE row \in R : \A other \in R : Min(row) >= Min(other) IN final \in R
  <1> DEFINE S == {Min(row) : row \in R}
  <1>1. \A row \in R : Min(row) \in Obs
    BY LeastObservation
  <1>2. S \in SUBSET Obs /\ S # {}
    BY <1>1
  <1>3. Max(S) \in S /\ \A o \in S : o <= Max(S)
    BY <1>2, LargestObservation
  <1>4. PICK row \in R : Max(S) = Min(row)
    BY <1>3
  <1>5. \A other \in R : Min(row) >= Min(other)
    <2>1. \A other \in R : Min(other) <= Min(row)
      BY <1>3, <1>4
    <2>2. \A m, n \in Obs : m <= n <=> n >= m
      BY IdentitiesAssumption DEF Obs
    <2>3. QED
      BY <1>1, <2>1, <2>2
  <1>6. QED
    BY <1>5

\* The rows are entered under their identities, with their aliases, and the rest stays.
LEMMA EnteredIs ==
    ASSUME NEW m \in Registries, day \in 0..LastDay, NEW stable, NEW rows \in SUBSET (SUBSET Obs),
           stable \in [rows -> Identifiers], \A row \in rows : row # {}
    PROVE  LET e == Entered(m, stable) IN
           /\ e \in Registries
           /\ \A i \in Identifiers :
                \/ /\ Given(stable, i) = {}
                   /\ e.incidents[i] = m.incidents[i] /\ e.seen[i] = m.seen[i]
                \/ e.incidents[i] \in Given(stable, i) /\ e.seen[i] = day
           /\ \A a \in Aliases : e.aliases[a] = m.aliases[a] \cup Carried(stable, a)
  <1> DEFINE final(i) == CHOOSE row \in Given(stable, i) :
                          \A other \in Given(stable, i) : Min(row) >= Min(other)
             incidents == [i \in Identifiers |->
                            IF Given(stable, i) = {} THEN m.incidents[i] ELSE final(i)]
             seen == [i \in Identifiers |-> IF Given(stable, i) = {} THEN m.seen[i] ELSE day]
             aliases == [a \in Aliases |-> m.aliases[a] \cup Carried(stable, a)]
  <1>1. Entered(m, stable) = [incidents |-> incidents, seen |-> seen, aliases |-> aliases]
    BY DEF Entered, Given, Carried
  <1>2. DOMAIN stable = rows
    OBVIOUS
  <1>3. ASSUME NEW i \in Identifiers, Given(stable, i) # {} PROVE final(i) \in Given(stable, i)
    <2>1. Given(stable, i) \in SUBSET (SUBSET Obs) /\ \A row \in Given(stable, i) : row # {}
      BY <1>2 DEF Given
    <2>2. QED
      BY <1>3, <2>1, LatestIs
  <1>4. \A i \in Identifiers : Given(stable, i) \subseteq SUBSET Obs
    BY <1>2 DEF Given
  <1>5. \A a \in Aliases : Carried(stable, a) \subseteq Identifiers
    BY <1>2 DEF Carried
  <1>6. /\ m.incidents \in [Identifiers -> SUBSET Obs] /\ m.seen \in [Identifiers -> 0..LastDay]
        /\ m.aliases \in [Aliases -> SUBSET Identifiers]
    BY DEF Registries
  <1> HIDE DEF final
  <1>7. incidents \in [Identifiers -> SUBSET Obs]
    BY <1>3, <1>4, <1>6
  <1>8. seen \in [Identifiers -> 0..LastDay]
    BY <1>6
  <1>9. aliases \in [Aliases -> SUBSET Identifiers]
    BY <1>5, <1>6
  <1>10. \A i \in Identifiers :
           \/ Given(stable, i) = {} /\ incidents[i] = m.incidents[i] /\ seen[i] = m.seen[i]
           \/ incidents[i] \in Given(stable, i) /\ seen[i] = day
    BY <1>3
  <1>11. \A a \in Aliases : aliases[a] = m.aliases[a] \cup Carried(stable, a)
    OBVIOUS
  <1> HIDE DEF incidents, seen, aliases
  <1>12. [incidents |-> incidents, seen |-> seen, aliases |-> aliases] \in Registries
    BY <1>7, <1>8, <1>9 DEF Registries
  <1>13. QED
    BY <1>1, <1>10, <1>11, <1>12

\* The contested identities are dropped, and every alias of theirs leads to what the rows
\* that carry it, or would have taken them over, are given.
LEMMA SeparatedIs ==
    ASSUME NEW m \in Registries, NEW proposed, NEW stable, NEW rows,
           DOMAIN proposed = rows, stable \in [rows -> Identifiers]
    PROVE  LET e == Separated(m, proposed, stable) IN
           /\ e \in Registries
           /\ e.seen = m.seen
           /\ \A i \in Identifiers :
                e.incidents[i] = IF i \in Contested(proposed) THEN {} ELSE m.incidents[i]
           /\ \A a \in Aliases :
                \/ a \in Contested(proposed) /\ e.aliases[a] = Replacements(proposed, stable, a)
                \/ /\ a \notin Contested(proposed)
                   /\ m.aliases[a] \cap Contested(proposed) = {}
                   /\ e.aliases[a] = m.aliases[a]
                \/ /\ a \notin Contested(proposed)
                   /\ Carried(stable, a) # {} /\ e.aliases[a] = Carried(stable, a)
                \/ /\ a \notin Contested(proposed)
                   /\ Carried(stable, a) = {}
                   /\ \E i \in m.aliases[a] \cap Contested(proposed) :
                        Replacements(proposed, stable, i) \subseteq e.aliases[a]
                   /\ m.aliases[a] \ Contested(proposed) \subseteq e.aliases[a]
  <1> DEFINE contested == Contested(proposed)
             lost(a) == m.aliases[a] \cap contested
             replaced(a) == UNION {Replacements(proposed, stable, i) : i \in lost(a)}
             incidents == [i \in Identifiers |-> IF i \in contested THEN {} ELSE m.incidents[i]]
             aliases == [a \in Aliases |->
               IF a \in contested THEN Replacements(proposed, stable, a)
               ELSE IF lost(a) = {} THEN m.aliases[a]
               ELSE IF Carried(stable, a) # {} THEN Carried(stable, a)
               ELSE (m.aliases[a] \ contested) \cup replaced(a)]
  <1>1. Separated(m, proposed, stable) = [incidents |-> incidents, seen |-> m.seen, aliases |-> aliases]
    BY DEF Separated, Carried
  <1>2. \A a : Carried(stable, a) \subseteq Identifiers
    BY DEF Carried
  <1>3. \A i : Replacements(proposed, stable, i) \subseteq Identifiers
    BY DEF Replacements, Claimants
  <1>4. /\ m.incidents \in [Identifiers -> SUBSET Obs] /\ m.seen \in [Identifiers -> 0..LastDay]
        /\ m.aliases \in [Aliases -> SUBSET Identifiers]
    BY DEF Registries
  <1>5. incidents \in [Identifiers -> SUBSET Obs]
    BY <1>4
  <1>6. \A a : replaced(a) \subseteq Identifiers
    BY <1>3
  <1>7. ASSUME NEW a \in Aliases
        PROVE  /\ aliases[a] \subseteq Identifiers
               /\ \/ a \in contested /\ aliases[a] = Replacements(proposed, stable, a)
                  \/ a \notin contested /\ lost(a) = {} /\ aliases[a] = m.aliases[a]
                  \/ a \notin contested /\ Carried(stable, a) # {} /\ aliases[a] = Carried(stable, a)
                  \/ /\ a \notin contested /\ Carried(stable, a) = {} /\ lost(a) # {}
                     /\ aliases[a] = (m.aliases[a] \ contested) \cup replaced(a)
    <2> HIDE DEF contested, lost, replaced
    <2>1. m.aliases[a] \subseteq Identifiers
      BY <1>4
    <2>2. CASE a \in contested
      BY <1>3, <2>2
    <2>3. CASE a \notin contested /\ lost(a) = {}
      BY <2>1, <2>3
    <2>4. CASE a \notin contested /\ lost(a) # {} /\ Carried(stable, a) # {}
      BY <1>2, <2>4
    <2>5. CASE a \notin contested /\ lost(a) # {} /\ Carried(stable, a) = {}
      BY <1>6, <2>1, <2>5
    <2>6. QED
      BY <2>2, <2>3, <2>4, <2>5
  <1>8. aliases \in [Aliases -> SUBSET Identifiers]
    <2> HIDE DEF contested, lost, replaced
    <2>1. \A a \in Aliases : aliases[a] \subseteq Identifiers
      BY <1>7
    <2> DEFINE entry(a) == IF a \in contested THEN Replacements(proposed, stable, a)
               ELSE IF lost(a) = {} THEN m.aliases[a]
               ELSE IF Carried(stable, a) # {} THEN Carried(stable, a)
               ELSE (m.aliases[a] \ contested) \cup replaced(a)
    <2>2. aliases = [a \in Aliases |-> entry(a)]
      OBVIOUS
    <2> HIDE DEF entry, aliases
    <2>3. QED
      BY <2>1, <2>2
  <1>9. \A i \in Identifiers : incidents[i] = IF i \in contested THEN {} ELSE m.incidents[i]
    OBVIOUS
  <1> HIDE DEF incidents, aliases
  <1>10. [incidents |-> incidents, seen |-> m.seen, aliases |-> aliases] \in Registries
    BY <1>4, <1>5, <1>8 DEF Registries
  <1>11. ASSUME NEW a \in Aliases
         PROVE  \/ a \in contested /\ aliases[a] = Replacements(proposed, stable, a)
                \/ /\ a \notin contested
                   /\ lost(a) = {} /\ aliases[a] = m.aliases[a]
                \/ /\ a \notin contested
                   /\ Carried(stable, a) # {} /\ aliases[a] = Carried(stable, a)
                \/ /\ a \notin contested
                   /\ Carried(stable, a) = {}
                   /\ \E i \in lost(a) : Replacements(proposed, stable, i) \subseteq aliases[a]
                   /\ m.aliases[a] \ contested \subseteq aliases[a]
    <2>1. ASSUME NEW i \in lost(a) PROVE Replacements(proposed, stable, i) \subseteq replaced(a)
      OBVIOUS
    <2> HIDE DEF lost, replaced, contested
    <2>2. QED
      BY <1>7, <2>1
  <1>12. QED
    BY <1>1, <1>9, <1>10, <1>11

\* What is kept, and that nothing seen within the lifetime is dropped for want of room.
LEMMA PrunedIs ==
    ASSUME NEW m \in Registries, day \in 0..LastDay
    PROVE  LET e == Pruned(m) IN
           /\ e \in Registries
           /\ Retained(m) \subseteq Identifiers
           /\ \A i \in Retained(m) :
                /\ m.incidents[i] # {} /\ e.incidents[i] = m.incidents[i]
                /\ e.seen[i] = m.seen[i] /\ day - m.seen[i] <= Lifetime
           /\ \A i \in Identifiers : i \notin Retained(m) => e.incidents[i] = {}
           /\ \A a \in Aliases : e.aliases[a] = m.aliases[a] \cap Retained(m)
  <1> DEFINE kept == Retained(m)
             incidents == [i \in Identifiers |-> IF i \in kept THEN m.incidents[i] ELSE {}]
             seen == [i \in Identifiers |-> IF i \in kept THEN m.seen[i] ELSE 0]
             aliases == [a \in Aliases |-> m.aliases[a] \cap kept]
  <1>1. Pruned(m) = [incidents |-> incidents, seen |-> seen, aliases |-> aliases]
    BY DEF Pruned
  <1>2. /\ m.incidents \in [Identifiers -> SUBSET Obs] /\ m.seen \in [Identifiers -> 0..LastDay]
        /\ m.aliases \in [Aliases -> SUBSET Identifiers]
    BY DEF Registries
  <1>3. /\ kept \subseteq Identifiers
        /\ \A i \in kept : m.incidents[i] # {} /\ day - m.seen[i] <= Lifetime
    BY DEF Retained
  <1>4. 0 \in 0..LastDay
    BY IdentitiesAssumption
  <1> HIDE DEF kept
  <1>5. /\ incidents \in [Identifiers -> SUBSET Obs] /\ seen \in [Identifiers -> 0..LastDay]
        /\ aliases \in [Aliases -> SUBSET Identifiers]
    BY <1>2, <1>4
  <1>6. /\ \A i \in kept : incidents[i] = m.incidents[i] /\ seen[i] = m.seen[i]
        /\ \A i \in Identifiers : i \notin kept => incidents[i] = {}
        /\ \A a \in Aliases : aliases[a] = m.aliases[a] \cap kept
    BY <1>3
  <1> HIDE DEF incidents, seen, aliases
  <1>7. [incidents |-> incidents, seen |-> seen, aliases |-> aliases] \in Registries
    BY <1>5 DEF Registries
  <1>8. QED
    BY <1>1, <1>3, <1>6, <1>7 DEF kept

\* A registry with room for all identities keeps what it has seen within the lifetime.
LEMMA KeptIs ==
    ASSUME NEW m \in Registries, Count <= MaxRecords, NEW i \in Identifiers,
           m.incidents[i] # {}, day - m.seen[i] <= Lifetime
    PROVE  i \in Retained(m)
  <1> DEFINE held == {j \in Identifiers : m.incidents[j] # {}}
             newer == {j \in held : Newer(m, j, i)}
  <1>1. Count \in Nat /\ Identifiers = (Count + 1)..(2 * Count)
    <2>1. Count \in Nat
      BY IdentitiesAssumption
    <2>2. Identifiers \subseteq (Count + 1)..(2 * Count)
      BY <2>1 DEF Identifiers, Identity, Obs
    <2>3. ASSUME NEW j \in (Count + 1)..(2 * Count) PROVE j \in Identifiers
      <3>1. j - Count \in 1..Count /\ j = Count + (j - Count)
        BY <2>1
      <3>2. QED
        BY <3>1 DEF Identifiers, Identity, Obs
    <2>4. QED
      BY <2>1, <2>2, <2>3
  <1>2. IsFiniteSet(Identifiers) /\ Cardinality(Identifiers) = Count
    BY <1>1, FS_Interval
  <1>3. newer \subseteq Identifiers /\ i \notin newer
    <2>1. m.seen[i] \in Int /\ i \in Int
      BY <1>1 DEF Registries
    <2>2. ~Newer(m, i, i)
      BY <2>1 DEF Newer
    <2>3. QED
      BY <2>2
  <1> HIDE DEF newer
  <1>4. newer \in SUBSET (Identifiers \ {i})
    BY <1>3
  <1>5. IsFiniteSet(Identifiers \ {i}) /\ Cardinality(Identifiers \ {i}) = Count - 1
    BY <1>2, FS_RemoveElement
  <1>6. Cardinality(newer) <= Count - 1 /\ IsFiniteSet(newer)
    BY <1>4, <1>5, FS_Subset
  <1>7. Cardinality(newer) \in Nat
    BY <1>6, FS_CardinalityType
  <1>8. Cardinality(newer) < MaxRecords
    BY <1>1, <1>6, <1>7, IdentitiesAssumption
  <1>9. QED
    BY <1>8 DEF Retained, newer

\* An identifier leads to an identity that is held and was seen on the day or since.
LeadsOn(m, i, d) == \E j \in m.aliases[i] : m.incidents[j] # {} /\ d <= m.seen[j]

Renewed(present) == Stabilized(memory, Proposals(present), Assigned(present))
Noted(present) == Entered(memory, Assigned(present))
Untangled(present) == Separated(Noted(present), Proposals(present), Assigned(present))

\* What the three steps of a stabilize are applied to.
LEMMA StepsAre ==
    ASSUME group \in [Obs -> Obs], memory \in Registries, day \in 0..LastDay,
           NEW present \in SUBSET Obs
    PROVE  /\ RowsOf(present) \in SUBSET (SUBSET Obs) /\ \A row \in RowsOf(present) : row # {}
           /\ DOMAIN Proposals(present) = RowsOf(present)
           /\ Assigned(present) \in [RowsOf(present) -> Identifiers]
           /\ Noted(present) \in Registries /\ Untangled(present) \in Registries
           /\ Renewed(present) = Pruned(Untangled(present))
  <1>1. RowsOf(present) \in SUBSET (SUBSET Obs) /\ \A row \in RowsOf(present) : row # {}
    BY RowsAre
  <1>2. DOMAIN Proposals(present) = RowsOf(present)
    BY DEF Proposals
  <1>3. Assigned(present) \in [RowsOf(present) -> Identifiers]
    <2>1. \A row \in RowsOf(present) : Assigned(present)[row] \in Identifiers
      BY AssignedIs
    <2>2. Assigned(present) = [row \in RowsOf(present) |-> Assigned(present)[row]]
      BY DEF Assigned
    <2>3. QED
      BY <2>1, <2>2
  <1>4. Noted(present) \in Registries
    BY <1>1, <1>3, EnteredIs DEF Noted
  <1>5. Untangled(present) \in Registries
    BY <1>2, <1>3, <1>4, SeparatedIs DEF Untangled
  <1>6. Renewed(present) = Pruned(Untangled(present))
    BY DEF Renewed, Stabilized, Noted, Untangled
  <1>7. QED
    BY <1>1, <1>2, <1>3, <1>4, <1>5, <1>6

\* What entering the rows makes of the registry.
LEMMA NotedIs ==
    ASSUME group \in [Obs -> Obs], memory \in Registries, day \in 0..LastDay,
           NEW present \in SUBSET Obs
    PROVE  /\ \A i \in Identifiers :
                \/ /\ Given(Assigned(present), i) = {}
                   /\ Noted(present).incidents[i] = memory.incidents[i]
                   /\ Noted(present).seen[i] = memory.seen[i]
                \/ /\ Noted(present).incidents[i] \in Given(Assigned(present), i)
                   /\ Noted(present).seen[i] = day
           /\ \A a \in Aliases : Noted(present).aliases[a] =
                memory.aliases[a] \cup Carried(Assigned(present), a)
  BY StepsAre, EnteredIs DEF Noted

\* And what taking the contested identities apart makes of that.
LEMMA UntangledIs ==
    ASSUME group \in [Obs -> Obs], memory \in Registries, day \in 0..LastDay,
           NEW present \in SUBSET Obs
    PROVE  LET e == Noted(present)
               x == Untangled(present)
               p == Proposals(present)
               s == Assigned(present)
           IN  /\ x.seen = e.seen
               /\ \A i \in Identifiers :
                    x.incidents[i] = IF i \in Contested(p) THEN {} ELSE e.incidents[i]
               /\ \A a \in Aliases :
                    \/ a \in Contested(p) /\ x.aliases[a] = Replacements(p, s, a)
                    \/ /\ a \notin Contested(p)
                       /\ e.aliases[a] \cap Contested(p) = {}
                       /\ x.aliases[a] = e.aliases[a]
                    \/ /\ a \notin Contested(p)
                       /\ Carried(s, a) # {} /\ x.aliases[a] = Carried(s, a)
                    \/ /\ a \notin Contested(p)
                       /\ Carried(s, a) = {}
                       /\ \E i \in e.aliases[a] \cap Contested(p) :
                            Replacements(p, s, i) \subseteq x.aliases[a]
                       /\ e.aliases[a] \ Contested(p) \subseteq x.aliases[a]
  BY StepsAre, SeparatedIs DEF Untangled

\* An identity given today that is not contested is entered, and stays.
LEMMA GivenIsEntered ==
    ASSUME group \in [Obs -> Obs], memory \in Registries, day \in 0..LastDay,
           NEW present \in SUBSET Obs, NEW row \in RowsOf(present)
    PROVE  LET i == Assigned(present)[row] IN
           /\ i \in Identifiers /\ i \in Noted(present).aliases[i]
           /\ Noted(present).incidents[i] # {} /\ Noted(present).seen[i] = day
           /\ i \in Carried(Assigned(present), i)
  <1> DEFINE i == Assigned(present)[row]
             s == Assigned(present)
  <1>1. s \in [RowsOf(present) -> Identifiers] /\ \A r \in RowsOf(present) : r # {}
    BY StepsAre
  <1>2. i \in Identifiers /\ i \in Aliases
    BY <1>1 DEF Aliases
  <1>3. row \in Given(s, i) /\ \A r \in Given(s, i) : r # {}
    BY <1>1 DEF Given
  <1>4. i \in Carried(s, i)
    BY <1>1 DEF Carried
  <1>5. \/ /\ Given(s, i) = {}
           /\ Noted(present).incidents[i] = memory.incidents[i]
           /\ Noted(present).seen[i] = memory.seen[i]
        \/ Noted(present).incidents[i] \in Given(s, i) /\ Noted(present).seen[i] = day
    BY <1>1, <1>2, NotedIs
  <1>6. Noted(present).aliases[i] = memory.aliases[i] \cup Carried(s, i)
    BY <1>1, <1>2, NotedIs
  <1>7. QED
    BY <1>2, <1>3, <1>4, <1>5, <1>6

\* What is held and not contested is held after the contested identities are taken apart.
LEMMA UncontestedStays ==
    ASSUME group \in [Obs -> Obs], memory \in Registries, day \in 0..LastDay,
           NEW present \in SUBSET Obs, NEW i \in Identifiers,
           i \notin Contested(Proposals(present))
    PROVE  /\ Untangled(present).incidents[i] = Noted(present).incidents[i]
           /\ Untangled(present).seen[i] = Noted(present).seen[i]
  BY UntangledIs

\* Whatever several rows proposed leads to one of them that was entered today.
LEMMA ContestedLeadsOn ==
    ASSUME group \in [Obs -> Obs], memory \in Registries, Held(memory), day \in 0..LastDay,
           NEW present \in SUBSET Obs, NEW c \in Contested(Proposals(present))
    PROVE  \E j \in Replacements(Proposals(present), Assigned(present), c) :
             /\ j \in Identifiers /\ Untangled(present).incidents[j] # {}
             /\ Untangled(present).seen[j] = day
  <1>1. PICK row \in RowsOf(present) : /\ Proposed(memory, row) = c
                                     /\ Assigned(present)[row] \notin Contested(Proposals(present))
    BY OneReplacementStays
  <1> DEFINE j == Assigned(present)[row]
  <1>2. j \in Replacements(Proposals(present), Assigned(present), c)
    BY <1>1 DEF Replacements, Claimants, Proposals
  <1>3. j \in Identifiers /\ Noted(present).incidents[j] # {} /\ Noted(present).seen[j] = day
    BY GivenIsEntered
  <1>4. Untangled(present).incidents[j] # {} /\ Untangled(present).seen[j] = day
    BY <1>1, <1>3, UncontestedStays
  <1>5. QED
    BY <1>2, <1>3, <1>4

\* What leads on in the registry before the pruning leads on after it.
LEMMA PruningLeadsOn ==
    ASSUME group \in [Obs -> Obs], memory \in Registries, day \in 0..LastDay, Count <= MaxRecords,
           NEW present \in SUBSET Obs, NEW a \in Aliases, NEW d \in 0..LastDay,
           day - d <= Lifetime, LeadsOn(Untangled(present), a, d)
    PROVE  LeadsOn(Renewed(present), a, d)
  <1> DEFINE x == Untangled(present)
             n == Renewed(present)
  <1>1. x \in Registries /\ n = Pruned(x)
    BY StepsAre
  <1>2. PICK j \in x.aliases[a] : x.incidents[j] # {} /\ d <= x.seen[j]
    BY DEF LeadsOn
  <1>3. x.aliases \in [Aliases -> SUBSET Identifiers] /\ x.seen \in [Identifiers -> 0..LastDay]
    BY <1>1 DEF Registries
  <1>4. j \in Identifiers /\ x.seen[j] \in 0..LastDay
    BY <1>2, <1>3
  <1>5. day - x.seen[j] <= Lifetime
    BY <1>2, <1>4, IdentitiesAssumption
  <1> HIDE DEF x, n
  <1>6. j \in Retained(x)
    BY <1>1, <1>2, <1>4, <1>5, KeptIs
  <1>7. n.incidents[j] # {} /\ n.seen[j] = x.seen[j] /\ j \in n.aliases[a]
    BY <1>1, <1>2, <1>6, PrunedIs
  <1>8. LeadsOn(n, a, d)
    BY <1>2, <1>7 DEF LeadsOn
  <1>9. QED
    BY <1>8 DEF n

\* The identity a row goes out with leads on.
LEMMA GivenLeadsOn ==
    ASSUME group \in [Obs -> Obs], memory \in Registries, Held(memory), day \in 0..LastDay,
           Count <= MaxRecords, NEW present \in SUBSET Obs, NEW row \in RowsOf(present)
    PROVE  LeadsOn(Renewed(present), Assigned(present)[row], day)
  <1> DEFINE i == Assigned(present)[row]
             x == Untangled(present)
             contested == Contested(Proposals(present))
  <1>1. /\ i \in Identifiers /\ i \in Noted(present).aliases[i]
        /\ Noted(present).incidents[i] # {} /\ Noted(present).seen[i] = day
        /\ i \in Carried(Assigned(present), i)
    BY GivenIsEntered
  <1>2. i \in Aliases /\ day \in Nat /\ Lifetime \in Nat /\ day <= day
    BY <1>1, IdentitiesAssumption DEF Aliases
  <1>3. CASE i \in contested
    <2>1. x.aliases[i] = Replacements(Proposals(present), Assigned(present), i)
      BY <1>2, <1>3, UntangledIs
    <2>2. LeadsOn(x, i, day)
      BY <1>2, <1>3, <2>1, ContestedLeadsOn DEF LeadsOn
    <2>3. QED
      BY <1>2, <2>2, PruningLeadsOn
  <1>4. CASE i \notin contested
    <2>1. i \in x.aliases[i]
      BY <1>1, <1>2, <1>4, UntangledIs
    <2>2. x.incidents[i] # {} /\ x.seen[i] = day
      BY <1>1, <1>4, UncontestedStays
    <2>3. LeadsOn(x, i, day)
      BY <1>2, <2>1, <2>2 DEF LeadsOn
    <2>4. QED
      BY <1>2, <2>3, PruningLeadsOn
  <1>5. QED
    BY <1>3, <1>4

\* What led on before leads on.
LEMMA LinksLeadOn ==
    ASSUME group \in [Obs -> Obs], memory \in Registries, Held(memory), day \in 0..LastDay,
           Count <= MaxRecords, NEW present \in SUBSET Obs,
           NEW i \in Identifiers, NEW d \in 0..LastDay, d <= day, day - d <= Lifetime,
           LeadsOn(memory, i, d)
    PROVE  LeadsOn(Renewed(present), i, d)
  <1> DEFINE e == Noted(present)
             x == Untangled(present)
             p == Proposals(present)
             s == Assigned(present)
             contested == Contested(p)
  <1>1. i \in Aliases /\ i \notin Obs
    BY IdentifiersAre DEF Aliases
  <1>2. PICK j \in memory.aliases[i] : memory.incidents[j] # {} /\ d <= memory.seen[j]
    BY DEF LeadsOn
  <1>3. j \in Identifiers
    BY <1>1, <1>2 DEF Registries
  <1>4. /\ e.incidents[j] # {} /\ d <= e.seen[j] /\ j \in e.aliases[i]
    <2>1. \A row \in Given(s, j) : row # {}
      BY StepsAre DEF Given
    <2>2. \/ /\ Given(s, j) = {}
             /\ e.incidents[j] = memory.incidents[j] /\ e.seen[j] = memory.seen[j]
          \/ e.incidents[j] \in Given(s, j) /\ e.seen[j] = day
      BY <1>3, NotedIs
    <2>3. e.aliases[i] = memory.aliases[i] \cup Carried(s, i)
      BY <1>1, NotedIs
    <2> HIDE DEF e, s
    <2>4. e.incidents[j] # {} /\ d <= e.seen[j]
      BY <1>2, <2>1, <2>2
    <2>5. QED
      BY <1>2, <2>3, <2>4
  <1>5. LeadsOn(x, i, d)
    <2>1. \/ i \in contested /\ x.aliases[i] = Replacements(p, s, i)
          \/ /\ i \notin contested
             /\ e.aliases[i] \cap contested = {}
             /\ x.aliases[i] = e.aliases[i]
          \/ /\ i \notin contested
             /\ Carried(s, i) # {} /\ x.aliases[i] = Carried(s, i)
          \/ /\ i \notin contested
             /\ \E c \in e.aliases[i] \cap contested : Replacements(p, s, c) \subseteq x.aliases[i]
      BY <1>1, UntangledIs
    <2>2. CASE i \in contested /\ x.aliases[i] = Replacements(p, s, i)
      BY <2>2, ContestedLeadsOn DEF LeadsOn
    <2>3. CASE /\ i \notin contested
               /\ e.aliases[i] \cap contested = {}
               /\ x.aliases[i] = e.aliases[i]
      BY <1>3, <1>4, <2>3, UncontestedStays DEF LeadsOn
    <2>4. CASE i \notin contested /\ Carried(s, i) # {} /\ x.aliases[i] = Carried(s, i)
      <3>1. PICK row \in RowsOf(present) : i \in row \cup {s[row]} /\ s[row] \in Carried(s, i)
        BY <2>4, StepsAre DEF Carried
      <3>2. s[row] = i
        BY <1>1, <3>1, RowsAre
      <3>3. e.incidents[i] # {} /\ e.seen[i] = day
        BY <3>2, GivenIsEntered
      <3>4. x.incidents[i] # {} /\ x.seen[i] = day
        BY <2>4, <3>3, UncontestedStays
      <3>5. QED
        BY <2>4, <3>1, <3>2, <3>4 DEF LeadsOn
    <2>5. CASE \E c \in e.aliases[i] \cap contested : Replacements(p, s, c) \subseteq x.aliases[i]
      <3>1. PICK c \in contested : Replacements(p, s, c) \subseteq x.aliases[i]
        BY <2>5
      <3>2. QED
        BY <3>1, ContestedLeadsOn DEF LeadsOn
    <2>6. QED
      BY <2>1, <2>2, <2>3, <2>4, <2>5
  <1>6. QED
    BY <1>1, <1>5, PruningLeadsOn

\* The renewed registry is a registry, and keeps what it holds under its own alias.
LEMMA RenewedHolds ==
    ASSUME group \in [Obs -> Obs], memory \in Registries, Held(memory), day \in 0..LastDay,
           NEW present \in SUBSET Obs
    PROVE  /\ Renewed(present) \in Registries /\ Held(Renewed(present))
           /\ \A a \in Aliases : \A i \in Renewed(present).aliases[a] :
                Renewed(present).incidents[i] # {}
  <1> DEFINE e == Noted(present)
             x == Untangled(present)
             n == Renewed(present)
             p == Proposals(present)
             s == Assigned(present)
             contested == Contested(p)
  <1>1. x \in Registries /\ e \in Registries /\ n = Pruned(x)
    BY StepsAre
  <1>2. /\ n \in Registries
        /\ \A i \in Retained(x) : /\ x.incidents[i] # {} /\ n.incidents[i] = x.incidents[i]
                                  /\ n.seen[i] = x.seen[i]
        /\ \A i \in Identifiers : i \notin Retained(x) => n.incidents[i] = {}
        /\ \A a \in Aliases : n.aliases[a] = x.aliases[a] \cap Retained(x)
    BY <1>1, PrunedIs
  <1>3. ASSUME NEW i \in Identifiers, n.incidents[i] # {}
        PROVE  i \in n.aliases[i] /\ n.seen[i] <= day
    <2>1. i \in Retained(x) /\ i \in Aliases /\ x.incidents[i] # {}
      BY <1>2, <1>3 DEF Aliases
    <2>2. i \notin contested /\ e.incidents[i] # {} /\ x.seen[i] = e.seen[i]
      BY <2>1, UntangledIs
    <2>3. \/ /\ Given(s, i) = {}
             /\ e.incidents[i] = memory.incidents[i] /\ e.seen[i] = memory.seen[i]
          \/ e.incidents[i] \in Given(s, i) /\ e.seen[i] = day
      BY NotedIs
    <2>4. e.aliases[i] = memory.aliases[i] \cup Carried(s, i)
      BY <2>1, NotedIs
    <2>5. i \in e.aliases[i] /\ e.seen[i] <= day
      <3>1. CASE Given(s, i) = {}
        BY <2>2, <2>3, <2>4, <3>1 DEF Held
      <3>2. CASE Given(s, i) # {}
        <4>1. i \in Carried(s, i)
          BY <3>2 DEF Given, Carried
        <4>2. e.seen[i] = day /\ day \in Int
          BY <2>3, <3>2
        <4>3. QED
          BY <2>4, <4>1, <4>2
      <3>3. QED
        BY <3>1, <3>2
    <2>6. i \in x.aliases[i]
      <3>1. \/ x.aliases[i] = e.aliases[i]
            \/ Carried(s, i) # {} /\ x.aliases[i] = Carried(s, i)
            \/ e.aliases[i] \ contested \subseteq x.aliases[i]
        BY <2>1, <2>2, UntangledIs
      <3>2. Carried(s, i) \subseteq {i}
        <4>1. ASSUME NEW row \in RowsOf(present), i \in row \cup {s[row]} PROVE s[row] = i
          BY <4>1, RowsAre, IdentifiersAre
        <4>2. QED
          BY <4>1, StepsAre DEF Carried
      <3>3. QED
        BY <2>2, <2>5, <3>1, <3>2
    <2>7. QED
      BY <1>2, <2>1, <2>2, <2>5, <2>6
  <1>4. \A a \in Aliases : \A i \in n.aliases[a] : n.incidents[i] # {}
    BY <1>2
  <1>5. QED
    BY <1>2, <1>3, <1>4 DEF Held

-----------------------------------------------------------------------------
(* One refresh: while events were only put together *)

\* Every alias leads to identities of its own event, an identity to no other, and the
\* incident kept for an identity is of its event.
SameEvent(m) ==
  /\ \A a \in Obs : \A i \in m.aliases[a] : group[a] = group[i - Count]
  /\ \A i \in Identifiers : m.aliases[i] \subseteq {i}
  /\ \A i \in Identifiers : \A o \in m.incidents[i] : group[o] = group[i - Count]

\* The identity a row proposes, and the one it is given, is of its own event.
LEMMA GivenItsOwnEvent ==
    ASSUME group \in [Obs -> Obs], memory \in Registries, SameEvent(memory),
           NEW present \in SUBSET Obs, NEW row \in RowsOf(present), NEW i \in Identifiers,
           Proposed(memory, row) = i \/ Assigned(present)[row] = i
    PROVE  \A o \in row : group[o] = group[i - Count]
  <1>1. row # {} /\ row \in SUBSET Obs /\ \A o, p \in row : group[o] = group[p]
    BY RowsAre
  <1>2. Computed(row) \in Identifiers /\ Computed(row) - Count \in row
    BY ComputedIs
  <1>3. ASSUME NEW j \in Known(memory, row), j \in Identifiers
        PROVE  \A o \in row : group[o] = group[j - Count]
    <2>1. PICK a \in row \cup {Computed(row)} : j \in memory.aliases[a]
      BY DEF Known
    <2>2. CASE a \in row
      BY <1>1, <2>1, <2>2 DEF SameEvent
    <2>3. CASE a = Computed(row)
      <3>1. j = Computed(row)
        BY <1>2, <2>1, <2>3 DEF SameEvent
      <3>2. QED
        BY <1>1, <1>2, <3>1
    <2>4. QED
      BY <2>1, <2>2, <2>3
  <1>4. i # NoIdentity
    BY IdentifiersAre
  <1>5. CASE i = Computed(row)
    BY <1>1, <1>2, <1>5
  <1>6. CASE Proposed(memory, row) = i
    <2>1. i \in Known(memory, row)
      BY <1>4, <1>6, ProposedIs
    <2>2. QED
      BY <1>3, <2>1
  <1>7. QED
    BY <1>5, <1>6, AssignedIs

\* So no two rows propose the same.
LEMMA NothingIsContested ==
    ASSUME group \in [Obs -> Obs], memory \in Registries, SameEvent(memory),
           NEW present \in SUBSET Obs
    PROVE  Contested(Proposals(present)) = {}
  <1>1. SUFFICES ASSUME NEW c \in Contested(Proposals(present)) PROVE FALSE
    OBVIOUS
  <1>2. c \in Identifiers
    BY DEF Contested
  <1>3. PICK r, s \in RowsOf(present) : /\ r # s /\ Proposed(memory, r) = c
                                      /\ Proposed(memory, s) = c
    BY DEF Contested, Claimants, Proposals
  <1>4. PICK o \in r, p \in s : TRUE
    BY RowsAre
  <1>5. group[o] = group[c - Count] /\ group[p] = group[c - Count]
    BY <1>2, <1>3, GivenItsOwnEvent
  <1>6. QED
    BY <1>3, <1>5, RowsAre

\* And the renewed registry stays within the events.
LEMMA RenewedIsSameEvent ==
    ASSUME group \in [Obs -> Obs], memory \in Registries, SameEvent(memory), day \in 0..LastDay,
           NEW present \in SUBSET Obs
    PROVE  SameEvent(Renewed(present))
  <1> DEFINE e == Noted(present)
             x == Untangled(present)
             n == Renewed(present)
             s == Assigned(present)
  <1>1. x \in Registries /\ e \in Registries /\ n = Pruned(x)
    BY StepsAre
  <1>2. \A a \in Aliases : n.aliases[a] \subseteq e.aliases[a]
    <2>1. \A a \in Aliases : n.aliases[a] \subseteq x.aliases[a]
      BY <1>1, PrunedIs
    <2>2. ASSUME NEW a \in Aliases PROVE x.aliases[a] \subseteq e.aliases[a]
      <3>1. \/ x.aliases[a] = e.aliases[a]
            \/ x.aliases[a] = Carried(s, a)
        BY NothingIsContested, UntangledIs
      <3>2. e.aliases[a] = memory.aliases[a] \cup Carried(s, a)
        BY NotedIs
      <3>3. QED
        BY <3>1, <3>2
    <2>3. QED
      BY <2>1, <2>2
  <1>3. \A i \in Identifiers : n.incidents[i] = {} \/ n.incidents[i] = e.incidents[i]
    <2>1. \A i \in Identifiers : n.incidents[i] = {} \/ n.incidents[i] = x.incidents[i]
      BY <1>1, PrunedIs
    <2>2. \A i \in Identifiers : x.incidents[i] = e.incidents[i]
      BY NothingIsContested, UncontestedStays
    <2>3. QED
      BY <2>1, <2>2
  <1>4. ASSUME NEW a \in Obs, NEW i \in n.aliases[a] PROVE group[a] = group[i - Count]
    <2>1. a \in Aliases
      BY DEF Aliases
    <2>2. i \in memory.aliases[a] \cup Carried(s, a)
      <3>1. e.aliases[a] = memory.aliases[a] \cup Carried(s, a)
        BY <2>1, NotedIs
      <3>2. QED
        BY <1>2, <2>1, <3>1
    <2>3. CASE i \in memory.aliases[a]
      BY <2>3 DEF SameEvent
    <2>4. CASE i \in Carried(s, a)
      <3>1. PICK row \in RowsOf(present) : a \in row \cup {s[row]} /\ s[row] = i
        BY <2>4, StepsAre DEF Carried
      <3>2. i \in Identifiers /\ a \in row
        BY <3>1, AssignedIs, IdentifiersAre
      <3>3. QED
        BY <3>1, <3>2, GivenItsOwnEvent
    <2>5. QED
      BY <2>2, <2>3, <2>4
  <1>5. ASSUME NEW i \in Identifiers PROVE n.aliases[i] \subseteq {i}
    <2>1. i \in Aliases
      BY DEF Aliases
    <2>2. n.aliases[i] \subseteq memory.aliases[i] \cup Carried(s, i)
      <3>1. e.aliases[i] = memory.aliases[i] \cup Carried(s, i)
        BY <2>1, NotedIs
      <3>2. QED
        BY <1>2, <2>1, <3>1
    <2>3. Carried(s, i) \subseteq {i}
      <3>1. ASSUME NEW row \in RowsOf(present), i \in row \cup {s[row]} PROVE s[row] = i
        BY <3>1, RowsAre, IdentifiersAre
      <3>2. QED
        BY <3>1, StepsAre DEF Carried
    <2>4. QED
      BY <2>2, <2>3 DEF SameEvent
  <1>6. ASSUME NEW i \in Identifiers, NEW o \in n.incidents[i] PROVE group[o] = group[i - Count]
    <2>1. o \in e.incidents[i]
      BY <1>3
    <2>2. e.incidents[i] = memory.incidents[i] \/ e.incidents[i] \in Given(s, i)
      BY NotedIs
    <2>3. CASE e.incidents[i] = memory.incidents[i]
      BY <2>1, <2>3 DEF SameEvent
    <2>4. CASE e.incidents[i] \in Given(s, i)
      <3>1. e.incidents[i] \in RowsOf(present) /\ s[e.incidents[i]] = i
        BY <2>4, StepsAre DEF Given
      <3>2. QED
        BY <2>1, <3>1, GivenItsOwnEvent
    <2>5. QED
      BY <2>2, <2>3, <2>4
  <1> HIDE DEF n
  <1>7. SameEvent(n)
    BY <1>4, <1>5, <1>6 DEF SameEvent
  <1>8. QED
    BY <1>7 DEF n

-----------------------------------------------------------------------------
(* IncidentIdentities: types and references *)

References(m) == \A a \in Aliases : \A i \in m.aliases[a] : m.incidents[i] # {}

IdentitiesInv ==
  /\ IdentitiesTypeOK
  /\ Held(memory) /\ Held(disk) /\ References(disk)
  /\ \A i \in Identifiers : links[i] # NoIdentity => links[i].day <= day

\* In the beginning there is nothing to keep.
LEMMA IdentitiesInit_Inv ==
    IdentitiesInit => IdentitiesInv
  <1> SUFFICES ASSUME IdentitiesInit PROVE IdentitiesInv
    OBVIOUS
  <1>1. /\ Empty \in Registries /\ \A a \in Aliases : Empty.aliases[a] = {}
        /\ \A i \in Identifiers : Empty.incidents[i] = {}
    <2>1. 0 \in 0..LastDay
      BY IdentitiesAssumption
    <2>2. QED
      BY <2>1 DEF Empty, Registries
  <1>2. 0 \in 0..LastDay /\ FALSE \in BOOLEAN /\ \A o \in Obs : o <= o
    BY IdentitiesAssumption DEF Obs
  <1>3. IdentitiesTypeOK
    BY <1>1, <1>2 DEF IdentitiesInit, IdentitiesTypeOK
  <1>4. Held(memory) /\ Held(disk) /\ References(disk)
    BY <1>1 DEF IdentitiesInit, Held, References
  <1>5. QED
    BY <1>3, <1>4 DEF IdentitiesInit, IdentitiesInv

\* What a store has answered for goes out.
LEMMA WrittenLinksAre ==
    ASSUME IdentitiesInv, Written
    PROVE  /\ links' \in [Identifiers -> Link \cup {NoIdentity}]
           /\ \A i \in Identifiers : links'[i] # NoIdentity => links'[i].day <= day
  <1> DEFINE rows(i) == {q \in writing : q.id = i}
             sent(i) == [obs |-> UNION {r.row : r \in rows(i)}, day |-> day]
  <1>1. writing \subseteq Entry /\ day \in 0..LastDay
    BY DEF IdentitiesInv, IdentitiesTypeOK, Written
  <1>2. \A i : sent(i) \in Link /\ sent(i).day = day
    BY <1>1 DEF Entry, Link
  <1>3. links' = [i \in Identifiers |-> IF \E r \in writing : r.id = i THEN sent(i) ELSE links[i]]
    BY DEF Written
  <1> HIDE DEF sent
  <1>4. day <= day
    BY <1>1
  <1>5. links \in [Identifiers -> Link \cup {NoIdentity}]
        /\ \A i \in Identifiers : links[i] # NoIdentity => links[i].day <= day
    BY DEF IdentitiesInv, IdentitiesTypeOK
  <1>6. QED
    BY <1>2, <1>3, <1>4, <1>5

\* Every step keeps the types, the references, and what is held under its own alias.
LEMMA IdentitiesStep ==
    IdentitiesInv /\ [IdentitiesNext]_identityVars => IdentitiesInv'
  <1> SUFFICES ASSUME IdentitiesInv, [IdentitiesNext]_identityVars
               PROVE  IdentitiesInv'
    OBVIOUS
  <1> USE IdentitiesAssumption
  <1>1. /\ day \in 0..LastDay /\ parted \in BOOLEAN
        /\ group \in [Obs -> Obs] /\ \A o \in Obs : group[o] <= o
        /\ memory \in Registries /\ disk \in Registries
        /\ References(memory) /\ References(disk) /\ Held(memory) /\ Held(disk)
        /\ writing = NoIdentity \/ writing \subseteq Entry
        /\ links \in [Identifiers -> Link \cup {NoIdentity}]
        /\ \A i \in Identifiers : links[i] # NoIdentity => links[i].day <= day
    BY DEF IdentitiesInv, IdentitiesTypeOK, References
  <1>10. ASSUME NEW a \in Obs, NEW b \in Obs, Merge(a, b) PROVE IdentitiesInv'
    <2>1. group' \in [Obs -> Obs] /\ \A o \in Obs : group'[o] <= o
      <3> DEFINE least == Min({group[a], group[b]})
      <3>1. /\ least \in Obs /\ least <= group[a] /\ least <= group[b]
        BY <1>1, LeastObservation
      <3>2. group' = [o \in Obs |-> IF group[o] \in {group[a], group[b]} THEN least ELSE group[o]]
        BY <1>10 DEF Merge
      <3> HIDE DEF least
      <3>3. \A o \in Obs : group[o] \in {group[a], group[b]} => least <= o
        <4>1. \A o \in Obs : group[o] \in Obs /\ group[o] <= o
          BY <1>1
        <4>2. \A k, l, m \in Obs : k <= l /\ l <= m => k <= m
          BY DEF Obs
        <4>3. QED
          BY <3>1, <4>1, <4>2
      <3>4. \A o \in Obs : group[o] \in Obs /\ group[o] <= o
        BY <1>1
      <3>5. QED
        BY <3>1, <3>2, <3>3, <3>4
    <2>2. UNCHANGED <<day, parted, memory, disk, writing, links>>
      BY <1>10 DEF Merge
    <2>3. QED
      BY <1>1, <2>1, <2>2 DEF IdentitiesInv, IdentitiesTypeOK, Held, References
  <1>11. ASSUME NEW o \in Obs, Part(o) PROVE IdentitiesInv'
    <2> DEFINE rest == {p \in Obs \ {o} : group[p] = group[o]}
    <2>1. group' \in [Obs -> Obs] /\ \A p \in Obs : group'[p] <= p
      <3>1. rest \in SUBSET Obs /\ rest # {}
        BY <1>11 DEF Part
      <3>2. Min(rest) \in Obs /\ \A p \in rest : Min(rest) <= p
        BY <3>1, LeastObservation
      <3>3. group' = [p \in Obs |-> IF p = o THEN o ELSE IF p \in rest THEN Min(rest) ELSE group[p]]
        BY <1>11 DEF Part
      <3> HIDE DEF rest
      <3>4. o <= o
        BY DEF Obs
      <3>5. QED
        BY <1>1, <3>2, <3>3, <3>4
    <2>2. UNCHANGED <<day, memory, disk, writing, links>> /\ parted' = TRUE
      BY <1>11 DEF Part
    <2>3. QED
      BY <1>1, <2>1, <2>2 DEF IdentitiesInv, IdentitiesTypeOK, Held, References
  <1>12. ASSUME NEW present \in SUBSET Obs, Stabilize(present) PROVE IdentitiesInv'
    <2>1. memory' = Renewed(present)
      BY <1>12 DEF Stabilize, Renewed, Proposals, Assigned
    <2>2. writing' = {[id |-> Assigned(present)[row], row |-> row] : row \in RowsOf(present)}
      BY <1>12 DEF Stabilize, Proposals, Assigned
    <2>3. UNCHANGED <<day, group, parted, disk, links>>
      BY <1>12 DEF Stabilize
    <2>4. memory' \in Registries /\ Held(Renewed(present)) /\ References(Renewed(present))
      BY <1>1, <2>1, RenewedHolds DEF References
    <2>5. writing' \subseteq Entry
      BY <1>1, <2>2, AssignedIs, RowsAre DEF Entry
    <2>6. Held(memory)' /\ Held(disk)' /\ References(memory)' /\ References(disk)'
      BY <1>1, <2>1, <2>3, <2>4 DEF Held, References
    <2>7. IdentitiesTypeOK'
      BY <1>1, <2>3, <2>4, <2>5, <2>6 DEF IdentitiesTypeOK, References
    <2>8. QED
      BY <1>1, <2>3, <2>6, <2>7 DEF IdentitiesInv
  <1>13. CASE Written
    <2>1. disk' = memory /\ writing' = NoIdentity /\ UNCHANGED <<day, group, parted, memory>>
      BY <1>13 DEF Written
    <2>2. /\ links' \in [Identifiers -> Link \cup {NoIdentity}]
          /\ \A i \in Identifiers : links'[i] # NoIdentity => links'[i].day <= day
      BY <1>13, WrittenLinksAre
    <2>3. QED
      BY <1>1, <2>1, <2>2 DEF IdentitiesInv, IdentitiesTypeOK, Held, References
  <1>14. CASE NotWritten
    BY <1>1, <1>14 DEF NotWritten, IdentitiesInv, IdentitiesTypeOK, Held, References
  <1>15. CASE ProcessEnds
    BY <1>1, <1>15 DEF ProcessEnds, IdentitiesInv, IdentitiesTypeOK, Held, References
  <1>16. CASE NextDay
    <2>1. day' = day + 1 /\ day' \in 0..LastDay /\ UNCHANGED <<group, parted, memory, disk, writing, links>>
      BY <1>1, <1>16 DEF NextDay
    <2>2. \A i \in Identifiers : memory.seen[i] \in Nat /\ disk.seen[i] \in Nat
      BY <1>1 DEF Registries
    <2>3. Held(memory)' /\ Held(disk)'
      BY <1>1, <2>1, <2>2 DEF Held
    <2>4. \A i \in Identifiers : links[i] # NoIdentity => links[i].day \in Nat
      BY <1>1 DEF Link
    <2>5. \A i \in Identifiers : links'[i] # NoIdentity => links'[i].day <= day'
      BY <1>1, <2>1, <2>4
    <2>6. QED
      BY <1>1, <2>1, <2>3, <2>5 DEF IdentitiesInv, IdentitiesTypeOK, References
  <1>17. CASE UNCHANGED identityVars
    BY <1>1, <1>17 DEF identityVars, IdentitiesInv, IdentitiesTypeOK, Held, References
  <1>18. QED
    BY <1>10, <1>11, <1>12, <1>13, <1>14, <1>15, <1>16, <1>17 DEF IdentitiesNext

-----------------------------------------------------------------------------
(* IncidentIdentities: where a link leads *)

Living(i) == links[i] # NoIdentity /\ day - links[i].day <= Lifetime

\* A link that is still remembered leads on in memory and in the file, and what is
\* about to go out leads on from today.
LinksHeld ==
  /\ \A i \in Identifiers : Living(i) =>
       LeadsOn(memory, i, links[i].day) /\ LeadsOn(disk, i, links[i].day)
  /\ writing # NoIdentity => \A r \in writing : LeadsOn(memory, r.id, day)

\* Every step keeps that, when the registry has room for all identities.
LEMMA LinksHeldStep ==
    ASSUME Count <= MaxRecords
    PROVE  IdentitiesInv /\ LinksHeld /\ [IdentitiesNext]_identityVars => LinksHeld'
  <1> SUFFICES ASSUME IdentitiesInv, LinksHeld, [IdentitiesNext]_identityVars
               PROVE  LinksHeld'
    OBVIOUS
  <1>1. /\ day \in 0..LastDay /\ group \in [Obs -> Obs]
        /\ memory \in Registries /\ Held(memory)
        /\ links \in [Identifiers -> Link \cup {NoIdentity}]
        /\ \A i \in Identifiers : links[i] # NoIdentity => links[i].day <= day
    BY DEF IdentitiesInv, IdentitiesTypeOK
  <1>2. ASSUME UNCHANGED <<day, memory, disk, writing, links>> PROVE LinksHeld'
    BY <1>2 DEF LinksHeld, Living, LeadsOn
  <1>10. ASSUME NEW a \in Obs, NEW b \in Obs, Merge(a, b) PROVE LinksHeld'
    BY <1>2, <1>10 DEF Merge
  <1>11. ASSUME NEW o \in Obs, Part(o) PROVE LinksHeld'
    BY <1>2, <1>11 DEF Part
  <1>12. ASSUME NEW present \in SUBSET Obs, Stabilize(present) PROVE LinksHeld'
    <2>1. memory' = Renewed(present)
      BY <1>12 DEF Stabilize, Renewed, Proposals, Assigned
    <2>2. writing' = {[id |-> Assigned(present)[row], row |-> row] : row \in RowsOf(present)}
      BY <1>12 DEF Stabilize, Proposals, Assigned
    <2>3. UNCHANGED <<day, disk, links>>
      BY <1>12 DEF Stabilize
    <2>4. \A row \in RowsOf(present) : LeadsOn(Renewed(present), Assigned(present)[row], day)
      BY <1>1, GivenLeadsOn
    <2>5. \A r \in writing' : LeadsOn(Renewed(present), r.id, day)
      BY <2>2, <2>4
    <2>6. ASSUME NEW i \in Identifiers, Living(i)
          PROVE  LeadsOn(Renewed(present), i, links[i].day) /\ LeadsOn(disk, i, links[i].day)
      <3>1. links[i].day \in 0..LastDay /\ links[i].day <= day /\ day - links[i].day <= Lifetime
        BY <1>1, <2>6 DEF Living, Link
      <3>2. LeadsOn(memory, i, links[i].day) /\ LeadsOn(disk, i, links[i].day)
        BY <2>6 DEF LinksHeld
      <3>3. QED
        BY <1>1, <3>1, <3>2, LinksLeadOn
    <2>7. QED
      BY <2>1, <2>3, <2>5, <2>6 DEF LinksHeld, Living, LeadsOn
  <1>13. CASE Written
    <2>1. disk' = memory /\ writing' = NoIdentity /\ UNCHANGED <<day, memory>> /\ writing # NoIdentity
      BY <1>13 DEF Written
    <2> DEFINE sent(i) == [obs |-> UNION {r.row : r \in {q \in writing : q.id = i}}, day |-> day]
    <2>2. links' = [i \in Identifiers |-> IF \E r \in writing : r.id = i THEN sent(i) ELSE links[i]]
      BY <1>13 DEF Written
    <2>3. \A i : sent(i).day = day
      OBVIOUS
    <2> HIDE DEF sent
    <2>4. ASSUME NEW i \in Identifiers, Living(i)'
          PROVE  LeadsOn(memory, i, links'[i].day)
      <3>1. CASE \E r \in writing : r.id = i
        <4>1. LeadsOn(memory, i, day)
          BY <2>1, <3>1 DEF LinksHeld
        <4>2. QED
          BY <2>2, <2>3, <3>1, <4>1
      <3>2. CASE ~(\E r \in writing : r.id = i)
        <4>1. links'[i] = links[i] /\ Living(i)
          BY <2>1, <2>2, <2>4, <3>2 DEF Living
        <4>2. QED
          BY <4>1 DEF LinksHeld
      <3>3. QED
        BY <3>1, <3>2
    <2>5. QED
      BY <2>1, <2>4 DEF LinksHeld, LeadsOn
  <1>14. CASE NotWritten
    BY <1>14 DEF NotWritten, LinksHeld, Living, LeadsOn
  <1>15. CASE ProcessEnds
    BY <1>15 DEF ProcessEnds, LinksHeld, Living, LeadsOn
  <1>16. CASE NextDay
    <2>1. day' = day + 1 /\ UNCHANGED <<memory, disk, writing, links>> /\ writing = NoIdentity
      BY <1>16 DEF NextDay
    <2>2. ASSUME NEW i \in Identifiers, Living(i)' PROVE Living(i)
      <3>1. links[i] # NoIdentity /\ links[i].day \in Int /\ day \in Int /\ Lifetime \in Int
        BY <1>1, <2>1, <2>2, IdentitiesAssumption DEF Living, Link
      <3>2. QED
        BY <2>1, <2>2, <3>1 DEF Living
    <2>3. QED
      BY <2>1, <2>2 DEF LinksHeld, LeadsOn
  <1>17. CASE UNCHANGED identityVars
    BY <1>2, <1>17 DEF identityVars
  <1>18. QED
    BY <1>10, <1>11, <1>12, <1>13, <1>14, <1>15, <1>16, <1>17 DEF IdentitiesNext

\* As long as the reconciliation has only put events together, both registries, what is
\* about to go out and what went out stay within one event.
OneEvent ==
  ~parted =>
    /\ SameEvent(memory) /\ SameEvent(disk)
    /\ writing # NoIdentity => \A r \in writing : \A o \in r.row : group[o] = group[r.id - Count]
    /\ \A i \in Identifiers : links[i] # NoIdentity =>
         \A o \in links[i].obs : group[o] = group[i - Count]

\* Every step keeps that: putting events together keeps one event one.
LEMMA OneEventStep ==
    IdentitiesInv /\ OneEvent /\ [IdentitiesNext]_identityVars => OneEvent'
  <1> SUFFICES ASSUME IdentitiesInv, OneEvent, [IdentitiesNext]_identityVars, ~parted'
               PROVE  /\ SameEvent(memory)' /\ SameEvent(disk)'
                      /\ writing' # NoIdentity => \A r \in writing' : \A o \in r.row :
                           group'[o] = group'[r.id - Count]
                      /\ \A i \in Identifiers : links'[i] # NoIdentity =>
                           \A o \in links'[i].obs : group'[o] = group'[i - Count]
    BY DEF OneEvent
  <1> DEFINE goal == /\ SameEvent(memory)' /\ SameEvent(disk)'
                     /\ writing' # NoIdentity => \A r \in writing' : \A o \in r.row :
                          group'[o] = group'[r.id - Count]
                     /\ \A i \in Identifiers : links'[i] # NoIdentity =>
                          \A o \in links'[i].obs : group'[o] = group'[i - Count]
  <1>1. /\ day \in 0..LastDay /\ group \in [Obs -> Obs]
        /\ memory \in Registries /\ disk \in Registries
        /\ writing = NoIdentity \/ writing \subseteq Entry
        /\ links \in [Identifiers -> Link \cup {NoIdentity}]
    BY DEF IdentitiesInv, IdentitiesTypeOK
  <1>2. ~parted
    BY DEF IdentitiesNext, Merge, Part, Stabilize, Written, NotWritten, ProcessEnds, NextDay,
           identityVars
  <1>3. /\ SameEvent(memory) /\ SameEvent(disk)
        /\ writing # NoIdentity => \A r \in writing : \A o \in r.row : group[o] = group[r.id - Count]
        /\ \A i \in Identifiers : links[i] # NoIdentity =>
             \A o \in links[i].obs : group[o] = group[i - Count]
    BY <1>2 DEF OneEvent
  <1>4. ASSUME UNCHANGED <<group, memory, disk, writing, links>> PROVE goal
    BY <1>3, <1>4 DEF SameEvent
  <1>10. ASSUME NEW a \in Obs, NEW b \in Obs, Merge(a, b) PROVE goal
    <2>1. UNCHANGED <<memory, disk, writing, links>>
      BY <1>10 DEF Merge
    <2>2. ASSUME NEW o \in Obs, NEW p \in Obs, group[o] = group[p] PROVE group'[o] = group'[p]
      BY <1>10, <2>2 DEF Merge
    <2>3. \A i \in Identifiers : i - Count \in Obs
      BY IdentifiersAre
    <2>4. ASSUME NEW m \in Registries, SameEvent(m)
          PROVE  /\ \A c \in Obs : \A i \in m.aliases[c] : group'[c] = group'[i - Count]
                 /\ \A i \in Identifiers : m.aliases[i] \subseteq {i}
                 /\ \A i \in Identifiers : \A o \in m.incidents[i] : group'[o] = group'[i - Count]
      <3>1. \A c \in Obs : m.aliases[c] \subseteq Identifiers
        BY DEF Registries, Aliases
      <3>2. \A i \in Identifiers : m.incidents[i] \subseteq Obs
        BY DEF Registries
      <3>3. QED
        BY <2>2, <2>3, <2>4, <3>1, <3>2 DEF SameEvent
    <2>5. SameEvent(memory)' /\ SameEvent(disk)'
      BY <1>1, <1>3, <2>1, <2>4 DEF SameEvent
    <2>6. writing' # NoIdentity => \A r \in writing' : \A o \in r.row :
            group'[o] = group'[r.id - Count]
      BY <1>1, <1>3, <2>1, <2>2, <2>3 DEF Entry
    <2>7. \A i \in Identifiers : links'[i] # NoIdentity =>
            \A o \in links'[i].obs : group'[o] = group'[i - Count]
      <3>1. \A i \in Identifiers : links[i] # NoIdentity => links[i].obs \subseteq Obs
        BY <1>1 DEF Link
      <3>2. QED
        BY <1>3, <2>1, <2>2, <2>3, <3>1
    <2>8. QED
      BY <2>5, <2>6, <2>7
  <1>11. ASSUME NEW o \in Obs, Part(o) PROVE goal
    BY <1>11 DEF Part
  <1>12. ASSUME NEW present \in SUBSET Obs, Stabilize(present) PROVE goal
    <2>1. memory' = Renewed(present)
      BY <1>12 DEF Stabilize, Renewed, Proposals, Assigned
    <2>2. writing' = {[id |-> Assigned(present)[row], row |-> row] : row \in RowsOf(present)}
      BY <1>12 DEF Stabilize, Proposals, Assigned
    <2>3. UNCHANGED <<group, disk, links>>
      BY <1>12 DEF Stabilize
    <2>4. SameEvent(Renewed(present))
      BY <1>1, <1>3, RenewedIsSameEvent
    <2>5. SameEvent(memory)' /\ SameEvent(disk)'
      BY <1>3, <2>1, <2>3, <2>4 DEF SameEvent
    <2>6. \A r \in writing' : \A o \in r.row : group'[o] = group'[r.id - Count]
      <3>1. \A row \in RowsOf(present) : Assigned(present)[row] \in Identifiers
        BY <1>1, AssignedIs
      <3>2. \A row \in RowsOf(present) : \A o \in row :
              group[o] = group[Assigned(present)[row] - Count]
        BY <1>1, <1>3, <3>1, GivenItsOwnEvent
      <3>3. QED
        BY <2>2, <2>3, <3>2
    <2>7. QED
      BY <1>3, <2>3, <2>5, <2>6
  <1>13. CASE Written
    <2>1. disk' = memory /\ writing' = NoIdentity /\ UNCHANGED <<group, memory>> /\ writing # NoIdentity
      BY <1>13 DEF Written
    <2> DEFINE sent(i) == [obs |-> UNION {r.row : r \in {q \in writing : q.id = i}}, day |-> day]
    <2>2. links' = [i \in Identifiers |-> IF \E r \in writing : r.id = i THEN sent(i) ELSE links[i]]
      BY <1>13 DEF Written
    <2>3. ASSUME NEW i \in Identifiers, NEW o \in sent(i).obs PROVE group[o] = group[i - Count]
      BY <1>3, <2>1
    <2> HIDE DEF sent
    <2>4. \A i \in Identifiers : links'[i] # NoIdentity =>
            \A o \in links'[i].obs : group'[o] = group'[i - Count]
      BY <1>3, <2>1, <2>2, <2>3
    <2>5. QED
      BY <1>3, <2>1, <2>4 DEF SameEvent
  <1>14. CASE NotWritten
    BY <1>3, <1>14 DEF NotWritten, SameEvent
  <1>15. CASE ProcessEnds
    BY <1>3, <1>15 DEF ProcessEnds, SameEvent
  <1>16. CASE NextDay
    BY <1>4, <1>16 DEF NextDay
  <1>17. CASE UNCHANGED identityVars
    BY <1>4, <1>17 DEF identityVars
  <1>18. QED
    BY <1>10, <1>11, <1>12, <1>13, <1>14, <1>15, <1>16, <1>17 DEF IdentitiesNext

\* The types hold, and an alias leads only to identities whose incident is kept
\* (IdentitiesTypeOK).
THEOREM IdentitiesTypeCorrect == IdentitiesSpec => []IdentitiesTypeOK
  <1>1. IdentitiesInv => IdentitiesTypeOK
    BY DEF IdentitiesInv
  <1>2. QED
    BY <1>1, IdentitiesInit_Inv, IdentitiesStep, PTL DEF IdentitiesSpec

\* A link that went out leads to some incident for as long as an identity is remembered,
\* whatever the store refused, whenever the process died and however the reconciliation
\* took its events apart; and to exactly one, of its own event, as long as events were
\* only put together (LinksResolve) - if the registry has room for all identities, for
\* what is beyond its bound of records is dropped.
THEOREM LinksAlwaysResolve ==
    ASSUME Count <= MaxRecords
    PROVE  IdentitiesSpec => []LinksResolve
  <1> DEFINE inv == IdentitiesInv /\ LinksHeld /\ OneEvent
  <1>1. IdentitiesInit => inv
    <2>1. ASSUME IdentitiesInit PROVE LinksHeld
      BY <2>1 DEF IdentitiesInit, LinksHeld, Living
    <2>2. ASSUME IdentitiesInit PROVE OneEvent
      <3>1. /\ \A a \in Aliases : Empty.aliases[a] = {}
            /\ \A i \in Identifiers : Empty.incidents[i] = {}
        BY DEF Empty
      <3>2. SameEvent(Empty)
        BY <3>1 DEF SameEvent, Aliases
      <3>3. QED
        BY <2>2, <3>2 DEF IdentitiesInit, OneEvent, SameEvent
    <2>3. QED
      BY <2>1, <2>2, IdentitiesInit_Inv
  <1>2. inv /\ [IdentitiesNext]_identityVars => inv'
    BY IdentitiesStep, LinksHeldStep, OneEventStep
  <1>3. ASSUME inv PROVE LinksResolve
    <2> SUFFICES ASSUME NEW i \in Identifiers, Living(i)
                 PROVE  /\ Matches(i) # {}
                        /\ ~parted => /\ \A r, s \in Matches(i) : r = s
                                      /\ \A r \in Matches(i) : \A o \in r, p \in links[i].obs :
                                           group[o] = group[p]
      BY DEF LinksResolve, Living
    <2>1. /\ memory \in Registries /\ links[i] \in Link /\ links[i] # NoIdentity
          /\ day \in Int /\ i \in Aliases
      BY <1>3 DEF IdentitiesInv, IdentitiesTypeOK, Living, Aliases
    <2>2. PICK j \in memory.aliases[i] : memory.incidents[j] # {} /\ links[i].day <= memory.seen[j]
      BY <1>3 DEF LinksHeld, LeadsOn
    <2>3. Remembers(memory, j)
      <3>1. j \in Identifiers /\ links[i].day \in Int
        BY <2>1, <2>2 DEF Registries, Link
      <3>2. memory.seen[j] \in Int
        BY <2>1, <3>1 DEF Registries
      <3>3. QED
        BY <2>1, <2>2, <3>1, <3>2, IdentitiesAssumption DEF Remembers, Living
    <2>4. Matches(i) # {}
      BY <2>2, <2>3 DEF Matches
    <2>5. ASSUME ~parted PROVE Matches(i) \subseteq {memory.incidents[i]}
      BY <1>3, <2>5 DEF OneEvent, SameEvent, Matches
    <2>6. ASSUME ~parted
          PROVE  \A o \in memory.incidents[i], p \in links[i].obs : group[o] = group[p]
      BY <1>3, <2>1, <2>6 DEF OneEvent, SameEvent
    <2>7. QED
      BY <2>4, <2>5, <2>6
  <1>4. QED
    BY <1>1, <1>2, <1>3, PTL DEF IdentitiesSpec

-----------------------------------------------------------------------------
(* IncidentSnapshots: the inductive invariant *)

\* An acquisition, and with it a snapshot and the walks over it, began before now.
BegunBefore ==
    /\ \A s \in cache : s.at < clock
    /\ \A k \in Keys : inflight[k] # Unset => inflight[k].now < clock
    /\ \A r \in Readers : reader[r].snap # Unset => reader[r].snap < clock

\* An instant names one snapshot, or one acquisition under way.
InstantsName ==
    /\ \A s, t \in cache : s.at = t.at => s = t
    /\ \A j, k \in Keys :
         (inflight[j] # Unset /\ inflight[k] # Unset /\ inflight[j].now = inflight[k].now) => j = k
    /\ \A k \in Keys : inflight[k] # Unset =>
         /\ \A s \in cache : s.at # inflight[k].now
         /\ \A r \in Readers : reader[r].snap # inflight[k].now

\* Whoever is not idle has asked for something, and whoever walks has a snapshot.
AskersHaveQueries ==
    \A r \in Readers : /\ reader[r].at # "idle" => reader[r].query \in Queries
                       /\ reader[r].at \in {"paging", "done"} <=> reader[r].snap # Unset

\* A cached row is of a revision its providers have published.
RowsArePublished ==
    \A s \in cache : \A i \in Incidents :
        s.rows[i] # Absent => 0 < s.rows[i].revision /\ s.rows[i].revision <= published[i]

SnapshotsInv ==
    /\ SnapshotsTypeOK
    /\ BegunBefore
    /\ InstantsName
    /\ AskersHaveQueries
    /\ RowsArePublished

\* What a request has been shown of a list: each incident before its offset once.
ShownSoFar(p, list) ==
    \A i \in Incidents :
        p.seen[i] = IF i \in list /\ Index(list, i) < p.offset THEN 1 ELSE 0

\* The walk p is over the list, as far as it has come.
WalksOver(p, list) ==
    /\ ShownSoFar(p, list)
    /\ p.at = "done" => p.offset = Cardinality(list)

\* It has shown nothing else.
ShowsOnly(p, list) == \A i \in Incidents \ list : p.seen[i] = 0

\* The walk p shows nothing but what its query matches among the rows, and it is over
\* that list, unless it began with a page of a view that lists less.
WalkFits(p, rows) ==
    /\ ShowsOnly(p, Filter(rows, p.query))
    /\ ListsAllOf(p.starter, p.query) => WalksOver(p, Filter(rows, p.query))

\* Every walk fits the snapshot its cursor names.
WalksFit ==
    \A r \in Readers : \A s \in cache : reader[r].snap = s.at => WalkFits(reader[r], s.rows)

-----------------------------------------------------------------------------
(* IncidentSnapshots: pages *)

\* A list is a finite set of incidents, and its indices are below its length.
LEMMA IndicesAreBelow ==
    ASSUME NEW rows, NEW q, NEW list, list = Filter(rows, q)
    PROVE  /\ list \subseteq Incidents /\ Cardinality(list) \in Nat
           /\ \A i \in list : Index(list, i) \in Nat /\ Index(list, i) < Cardinality(list)
  <1>1. list \subseteq Incidents
    BY DEF Filter, Present
  <1>2. IsFiniteSet(list) /\ Cardinality(list) \in Nat
    BY <1>1, SnapshotsAssumption, FS_Subset, FS_CardinalityType
  <1>3. ASSUME NEW i \in list
        PROVE  Index(list, i) \in Nat /\ Index(list, i) < Cardinality(list)
    <2> DEFINE before == {j \in list : j < i}
    <2>1. before \in SUBSET list /\ i \notin before
      BY <1>1, SnapshotsAssumption
    <2>2. IsFiniteSet(before) /\ Cardinality(before) \in Nat
      BY <1>2, <2>1, FS_Subset, FS_CardinalityType
    <2>3. Cardinality(before) <= Cardinality(list) /\ Cardinality(before) # Cardinality(list)
      BY <1>2, <2>1, FS_Subset
    <2>4. QED
      BY <1>2, <2>2, <2>3 DEF Index
  <1>4. QED
    BY <1>1, <1>2, <1>3

\* A page leaves a request that names the snapshot it was cut from.
LEMMA PagedIsARequest ==
    ASSUME NEW p \in ViewRequest, NEW at \in Instants, NEW rows
    PROVE  LET walk == Paged(p, at, rows, p.offset)
           IN  /\ walk \in ViewRequest /\ walk.query = p.query /\ walk.snap = at
               /\ walk.starter = p.starter /\ walk.at \in {"paging", "done"}
  <1> DEFINE list == Filter(rows, p.query)
             page == Page(list, p.offset)
             seen == [i \in Incidents |-> IF i \in page THEN p.seen[i] + 1 ELSE p.seen[i]]
             more == p.offset + PageSize < Cardinality(list)
  <1>1. Cardinality(list) \in Nat
    BY IndicesAreBelow
  <1>2. p.offset \in Nat /\ p.seen \in [Incidents -> Nat] /\ PageSize \in Nat
    BY SnapshotsAssumption DEF ViewRequest
  <1>3. seen \in [Incidents -> Nat]
    BY <1>2
  <1>4. Paged(p, at, rows, p.offset)
          = [at |-> IF more THEN "paging" ELSE "done", query |-> p.query,
             offset |-> IF more THEN p.offset + PageSize ELSE Cardinality(list),
             snap |-> at, starter |-> p.starter, seen |-> seen]
    BY DEF Paged
  <1> HIDE DEF seen, list
  <1>5. QED
    BY <1>1, <1>2, <1>3, <1>4 DEF ViewRequest

\* The next page of a list takes a walk over it on.
LEMMA PageTakesOn ==
    ASSUME NEW p \in ViewRequest, NEW at, NEW rows,
           ShownSoFar(p, Filter(rows, p.query))
    PROVE  WalksOver(Paged(p, at, rows, p.offset), Filter(rows, p.query))
  <1> DEFINE list == Filter(rows, p.query)
             page == Page(list, p.offset)
             walk == Paged(p, at, rows, p.offset)
             seen == [i \in Incidents |-> IF i \in page THEN p.seen[i] + 1 ELSE p.seen[i]]
             more == p.offset + PageSize < Cardinality(list)
  <1>1. /\ list \subseteq Incidents /\ Cardinality(list) \in Nat
        /\ \A i \in list : Index(list, i) \in Nat /\ Index(list, i) < Cardinality(list)
    BY IndicesAreBelow
  <1>2. p.offset \in Nat /\ PageSize \in Nat
    BY SnapshotsAssumption DEF ViewRequest
  <1>3. /\ walk.seen = seen
        /\ walk.at = IF more THEN "paging" ELSE "done"
        /\ walk.offset = IF more THEN p.offset + PageSize ELSE Cardinality(list)
    BY DEF Paged
  <1>4. ASSUME NEW i \in Incidents
        PROVE  seen[i] = IF i \in list /\ Index(list, i) < walk.offset THEN 1 ELSE 0
    <2>1. p.seen[i] = IF i \in list /\ Index(list, i) < p.offset THEN 1 ELSE 0
      BY DEF ShownSoFar
    <2>2. i \in page <=> i \in list /\ p.offset <= Index(list, i)
                                    /\ Index(list, i) < p.offset + PageSize
      BY <1>1, <1>2 DEF Page
    <2>3. seen[i] = IF i \in page THEN p.seen[i] + 1 ELSE p.seen[i]
      OBVIOUS
    <2> HIDE DEF list, page, walk, seen, more
    <2>4. CASE more
      BY <1>1, <1>2, <1>3, <2>1, <2>2, <2>3, <2>4
    <2>5. CASE ~more
      <3>1. walk.offset = Cardinality(list) /\ ~(p.offset + PageSize < Cardinality(list))
        BY <1>3, <2>5 DEF more
      <3>2. QED
        BY <1>1, <1>2, <2>1, <2>2, <2>3, <3>1
    <2>6. QED
      BY <2>4, <2>5
  <1>5. walk.at = "done" => walk.offset = Cardinality(list)
    BY <1>3
  <1>6. QED
    BY <1>3, <1>4, <1>5 DEF WalksOver, ShownSoFar

\* It shows nothing but what is on the list, or on one that holds all of it.
LEMMA PageShowsOnly ==
    ASSUME NEW p \in ViewRequest, NEW at, NEW rows, NEW whole,
           ShowsOnly(p, whole), Filter(rows, p.query) \subseteq whole
    PROVE  ShowsOnly(Paged(p, at, rows, p.offset), whole)
  <1> DEFINE page == Page(Filter(rows, p.query), p.offset)
  <1>1. page \subseteq whole
    BY DEF Page
  <1>2. \A i \in Incidents :
          Paged(p, at, rows, p.offset).seen[i] = IF i \in page THEN p.seen[i] + 1 ELSE p.seen[i]
    BY DEF Paged
  <1> HIDE DEF page
  <1>3. QED
    BY <1>1, <1>2 DEF ShowsOnly

\* A request without a cursor walks over the rows it is given from the start.
LEMMA AnswerStarts ==
    ASSUME NEW q \in Queries, NEW at \in Instants, NEW rows, NEW starter \in Queries \cup {Unset}
    PROVE  LET walk == Answered(q, at, rows, starter)
           IN  /\ walk \in ViewRequest /\ walk.query = q /\ walk.snap = at
               /\ walk.starter = starter /\ walk.at \in {"paging", "done"}
               /\ ShowsOnly(walk, Filter(rows, q)) /\ WalksOver(walk, Filter(rows, q))
  <1> DEFINE p == [Asked("waiting", q) EXCEPT !.starter = starter]
             list == Filter(rows, q)
  <1>1. /\ p \in ViewRequest /\ p.query = q /\ p.offset = 0 /\ p.starter = starter
        /\ \A i \in Incidents : p.seen[i] = 0
    BY DEF Asked, ViewRequest
  <1>2. \A i \in list : Index(list, i) \in Nat
    BY IndicesAreBelow
  <1>3. Answered(q, at, rows, starter) = Paged(p, at, rows, p.offset)
    BY <1>1 DEF Answered
  <1> HIDE DEF p
  <1>4. ShownSoFar(p, Filter(rows, p.query)) /\ ShowsOnly(p, Filter(rows, p.query))
    BY <1>1, <1>2 DEF ShownSoFar, ShowsOnly
  <1>5. ShowsOnly(Paged(p, at, rows, p.offset), Filter(rows, p.query))
    BY <1>1, <1>4, PageShowsOnly
  <1>6. QED
    BY <1>1, <1>3, <1>4, <1>5, PagedIsARequest, PageTakesOn

\* A request that has not been answered walks nowhere.
LEMMA AskedIsARequest ==
    ASSUME NEW at \in {"idle", "waiting"}, NEW q \in Queries \cup {Unset}
    PROVE  /\ Asked(at, q) \in ViewRequest /\ Asked(at, q).at = at
           /\ Asked(at, q).query = q /\ Asked(at, q).snap = Unset
  BY DEF Asked, ViewRequest

\* Whoever waited for an acquisition is handed nothing but what its query matches, and
\* all of it when the view that started the acquisition lists it all.
LEMMA HandedShows ==
    ASSUME NEW p \in Queries, NEW q \in Queries, NEW rows \in Rows
    PROVE  /\ Filter(Handed(rows, p), q) \subseteq Filter(rows, q)
           /\ ListsAllOf(p, q) => Filter(Handed(rows, p), q) = Filter(rows, q)
  <1>1. \A i \in Incidents :
          Handed(rows, p)[i] = IF i \in Filter(rows, Base(p)) THEN rows[i] ELSE Absent
    BY DEF Handed
  <1>2. Base(p) = [view |-> p.view, country |-> Unset] /\ p # Unset
    BY SnapshotsAssumption DEF Base
  <1>3. QED
    BY <1>1, <1>2 DEF Filter, Present, ListsAllOf

-----------------------------------------------------------------------------
(* IncidentSnapshots: the steps *)

\* One reader moves, the others stay.
LEMMA ReaderMoves ==
    ASSUME SnapshotsTypeOK, NEW r \in Readers, NEW p \in ViewRequest,
           reader' = [reader EXCEPT ![r] = p]
    PROVE  /\ reader' \in [Readers -> ViewRequest] /\ reader'[r] = p
           /\ \A o \in Readers : o # r => reader'[o] = reader[o]
  BY DEF SnapshotsTypeOK

\* An acquisition is under way for the key of its query.
LEMMA StartedIsUnderWay ==
    ASSUME SnapshotsTypeOK, NEW q \in Queries, Started(q)
    PROVE  /\ clock' \in Instants /\ clock <= clock'
           /\ inflight' \in [Keys -> Acquisition \cup {Unset}]
           /\ \A k \in Keys : inflight'[k] # Unset => KeyOf[inflight'[k].query] = k
           /\ \A k \in Keys : inflight'[k] # Unset =>
                inflight'[k] = inflight[k] \/ (/\ inflight'[k] = Begun(q) /\ k = KeyOf[q]
                                              /\ inflight[k] = Unset
                                              /\ clock' = clock + 1)
  <1>1. KeyOf[q] \in Keys
    BY DEF Keys
  <1>2. Begun(q) \in Acquisition /\ Begun(q).query = q
    BY DEF Begun, Acquisition, SnapshotsTypeOK
  <1>3. CASE inflight[KeyOf[q]] # Unset
    BY <1>3 DEF Started, SnapshotsTypeOK, Instants
  <1>4. CASE inflight[KeyOf[q]] = Unset
    <2>1. /\ clock < LastTick /\ clock' = clock + 1
          /\ inflight' = [inflight EXCEPT ![KeyOf[q]] = Begun(q)]
      BY <1>4 DEF Started
    <2>2. clock' \in Instants /\ clock <= clock'
      BY <2>1, SnapshotsAssumption DEF SnapshotsTypeOK, Instants
    <2>3. \A k \in Keys : inflight'[k] = IF k = KeyOf[q] THEN Begun(q) ELSE inflight[k]
      BY <2>1 DEF SnapshotsTypeOK
    <2>4. inflight' \in [Keys -> Acquisition \cup {Unset}]
      BY <1>2, <2>1 DEF SnapshotsTypeOK
    <2>5. QED
      BY <1>1, <1>2, <1>4, <2>1, <2>2, <2>3, <2>4 DEF SnapshotsTypeOK
  <1>5. QED
    BY <1>3, <1>4

\* A request moves on: it walks over a cached snapshot or over none, and may have
\* started an acquisition.
LEMMA ServingKeeps ==
    ASSUME SnapshotsInv, NEW r \in Readers, NEW p \in ViewRequest,
           reader' = [reader EXCEPT ![r] = p],
           p.at # "idle" => p.query \in Queries,
           p.at \in {"paging", "done"} <=> p.snap # Unset,
           p.snap = Unset \/ \E s \in cache : p.snap = s.at,
           cache' \subseteq cache,
           UNCHANGED <<inflight, clock>> \/ \E q \in Queries : Started(q),
           UNCHANGED <<published, acquisitions, version, latest>>
    PROVE  SnapshotsInv'
  <1>1. /\ reader' \in [Readers -> ViewRequest] /\ reader'[r] = p
        /\ \A o \in Readers : o # r => reader'[o] = reader[o]
    BY ReaderMoves DEF SnapshotsInv
  <1>2. /\ clock' \in Instants /\ clock <= clock' /\ clock \in Instants
        /\ inflight' \in [Keys -> Acquisition \cup {Unset}]
        /\ \A k \in Keys : inflight'[k] # Unset => KeyOf[inflight'[k].query] = k
    <2>1. CASE UNCHANGED <<inflight, clock>>
      BY <2>1 DEF SnapshotsInv, SnapshotsTypeOK, Instants
    <2>2. CASE \E q \in Queries : Started(q)
      BY <2>2, StartedIsUnderWay DEF SnapshotsInv, SnapshotsTypeOK
    <2>3. QED
      BY <2>1, <2>2
  <1>3. \A k \in Keys : inflight'[k] # Unset =>
          \/ inflight[k] # Unset /\ inflight'[k].now = inflight[k].now
          \/ inflight'[k].now = clock /\ clock' = clock + 1
    <2>1. CASE UNCHANGED <<inflight, clock>>
      BY <2>1
    <2>2. CASE \E q \in Queries : Started(q)
      <3>1. PICK q \in Queries : Started(q)
        BY <2>2
      <3>2. Begun(q).now = clock
        BY DEF Begun
      <3>3. \A k \in Keys : inflight'[k] # Unset =>
              \/ inflight'[k] = inflight[k]
              \/ inflight'[k] = Begun(q) /\ clock' = clock + 1
        BY <3>1, StartedIsUnderWay DEF SnapshotsInv
      <3>4. QED
        BY <3>2, <3>3
    <2>3. QED
      BY <2>1, <2>2
  <1>4. \A j, k \in Keys :
          (/\ inflight'[j] # Unset /\ inflight'[j].now = clock
           /\ inflight'[k] # Unset /\ inflight'[k].now = clock) => j = k
    <2>1. \A k \in Keys : inflight[k] # Unset => inflight[k].now < clock /\ inflight[k].now \in Nat
      BY DEF SnapshotsInv, SnapshotsTypeOK, BegunBefore, Acquisition, Instants
    <2>2. CASE UNCHANGED <<inflight, clock>>
      BY <1>2, <2>1, <2>2 DEF Instants
    <2>3. CASE \E q \in Queries : Started(q)
      <3>1. PICK q \in Queries : Started(q)
        BY <2>3
      <3>2. \A k \in Keys : inflight'[k] # Unset => inflight'[k] = inflight[k] \/ k = KeyOf[q]
        BY <3>1, StartedIsUnderWay DEF SnapshotsInv
      <3>3. QED
        BY <1>2, <2>1, <3>2 DEF Instants
    <2>4. QED
      BY <2>2, <2>3
  <1>5. \A s \in cache : s.at \in Nat /\ s.at < clock
    BY DEF SnapshotsInv, SnapshotsTypeOK, BegunBefore, CachedSnapshot, Instants
  <1>6. SnapshotsTypeOK'
    BY <1>1, <1>2 DEF SnapshotsInv, SnapshotsTypeOK
  <1>7. \A o \in Readers : reader'[o].snap # Unset =>
          reader'[o].snap \in Nat /\ reader'[o].snap < clock
    <2>1. \A o \in Readers : reader[o].snap # Unset =>
            reader[o].snap \in Nat /\ reader[o].snap < clock
      BY DEF SnapshotsInv, SnapshotsTypeOK, BegunBefore, ViewRequest, Instants
    <2>2. QED
      BY <1>1, <1>5, <2>1
  <1>8. \A k \in Keys : inflight[k] # Unset => inflight[k].now \in Nat /\ inflight[k].now < clock
    BY DEF SnapshotsInv, SnapshotsTypeOK, BegunBefore, Acquisition, Instants
  <1>9. BegunBefore'
    BY <1>2, <1>3, <1>5, <1>7, <1>8 DEF BegunBefore, Instants
  <1>10. InstantsName'
    <2>1. \A s, t \in cache' : s.at = t.at => s = t
      BY DEF SnapshotsInv, InstantsName
    <2>2. ASSUME NEW j \in Keys, NEW k \in Keys, inflight'[j] # Unset, inflight'[k] # Unset,
                 inflight'[j].now = inflight'[k].now
          PROVE  j = k
      <3>1. CASE inflight'[j].now = clock
        BY <1>4, <2>2, <3>1
      <3>2. CASE inflight'[j].now # clock
        BY <1>3, <2>2, <3>2 DEF SnapshotsInv, InstantsName
      <3>3. QED
        BY <3>1, <3>2
    <2>3. ASSUME NEW k \in Keys, inflight'[k] # Unset, NEW s \in cache
          PROVE  s.at # inflight'[k].now
      BY <1>2, <1>3, <1>5, <2>3 DEF SnapshotsInv, InstantsName, Instants
    <2>4. ASSUME NEW k \in Keys, inflight'[k] # Unset, NEW o \in Readers
          PROVE  reader'[o].snap # inflight'[k].now
      <3>1. CASE reader'[o].snap = Unset
        BY <1>2, <2>4, <3>1, SnapshotsAssumption DEF Acquisition
      <3>2. CASE reader'[o].snap # Unset /\ o # r
        BY <1>1, <1>2, <1>3, <1>7, <2>4, <3>2 DEF SnapshotsInv, InstantsName, Instants
      <3>3. CASE reader'[o].snap # Unset /\ o = r
        BY <1>1, <2>3, <2>4, <3>3
      <3>4. QED
        BY <3>1, <3>2, <3>3
    <2>5. QED
      BY <2>1, <2>2, <2>3, <2>4 DEF InstantsName
  <1>11. AskersHaveQueries'
    BY <1>1 DEF SnapshotsInv, AskersHaveQueries
  <1>12. RowsArePublished'
    BY DEF SnapshotsInv, RowsArePublished
  <1>13. QED
    BY <1>6, <1>9, <1>10, <1>11, <1>12 DEF SnapshotsInv

\* execute without a cursor, from the cache.
LEMMA ServeCachedKeeps ==
    ASSUME SnapshotsInv, NEW r \in Readers, NEW q \in Queries, ServeCached(r, q)
    PROVE  SnapshotsInv'
  <1>1. PICK s \in Cached(KeyOf[q]) :
          /\ reader' = [reader EXCEPT ![r] = Answered(q, s.at, s.rows, Unset)]
          /\ IF clock - s.at >= FreshFor THEN Started(q) ELSE UNCHANGED <<inflight, clock>>
          /\ cache' = Live(clock)
          /\ UNCHANGED <<published, acquisitions, version, latest>>
    BY DEF ServeCached
  <1> DEFINE p == Answered(q, s.at, s.rows, Unset)
  <1>2. s \in cache /\ s.at \in Instants
    BY DEF Cached, Of, Live, SnapshotsInv, SnapshotsTypeOK, CachedSnapshot
  <1>3. p \in ViewRequest /\ p.query = q /\ p.snap = s.at /\ p.at \in {"paging", "done"}
    BY <1>2, AnswerStarts
  <1>4. cache' \subseteq cache
    BY <1>1 DEF Live
  <1>5. s.at # Unset
    BY <1>2, SnapshotsAssumption
  <1>6. UNCHANGED <<inflight, clock>> \/ \E o \in Queries : Started(o)
    BY <1>1
  <1> HIDE DEF p
  <1>7. QED
    BY <1>1, <1>2, <1>3, <1>4, <1>5, <1>6, ServingKeeps DEF p

\* execute without a cursor, when there is nothing to serve.
LEMMA AwaitRefreshKeeps ==
    ASSUME SnapshotsInv, NEW r \in Readers, NEW q \in Queries, AwaitRefresh(r, q)
    PROVE  SnapshotsInv'
  <1> DEFINE p == Asked("waiting", q)
  <1>1. p \in ViewRequest /\ p.at = "waiting" /\ p.query = q /\ p.snap = Unset
    BY AskedIsARequest
  <1>2. cache' \subseteq cache
    BY DEF AwaitRefresh, Live
  <1>3. reader' = [reader EXCEPT ![r] = p] /\ Started(q)
    BY DEF AwaitRefresh
  <1>4. UNCHANGED <<published, acquisitions, version, latest>>
    BY DEF AwaitRefresh
  <1> HIDE DEF p
  <1>5. QED
    BY <1>1, <1>2, <1>3, <1>4, ServingKeeps

\* The walk goes on over the one snapshot its cursor names.
LEMMA CursorNames ==
    ASSUME SnapshotsInv, NEW r \in Readers, reader[r].at = "paging",
           Pageable(reader[r].snap) # {}
    PROVE  LET s == CHOOSE s \in Pageable(reader[r].snap) : TRUE
           IN  /\ s \in cache /\ s.at = reader[r].snap /\ s.at \in Instants
               /\ reader[r] \in ViewRequest /\ reader[r].query \in Queries
               /\ reader[r].offset \in Nat
  <1> DEFINE s == CHOOSE s \in Pageable(reader[r].snap) : TRUE
  <1>1. s \in Pageable(reader[r].snap)
    OBVIOUS
  <1> HIDE DEF s
  <1>2. s \in cache /\ s.at = reader[r].snap /\ s.at \in Instants
    BY <1>1 DEF Pageable, SnapshotsInv, SnapshotsTypeOK, CachedSnapshot
  <1>3. /\ reader[r] \in ViewRequest /\ reader[r].query \in Queries
        /\ reader[r].offset \in Nat
    BY DEF SnapshotsInv, SnapshotsTypeOK, AskersHaveQueries, ViewRequest
  <1>4. QED
    BY <1>2, <1>3 DEF s

\* execute with a cursor.
LEMMA NextPageKeeps ==
    ASSUME SnapshotsInv, NEW r \in Readers, NextPage(r)
    PROVE  SnapshotsInv'
  <1>1. /\ reader[r].at = "paging"
        /\ UNCHANGED <<clock, published, acquisitions, version, cache, latest, inflight>>
    BY DEF NextPage
  <1>2. CASE Pageable(reader[r].snap) = {}
    <2>1. reader' = [reader EXCEPT ![r] = NoRequest]
      BY <1>2 DEF NextPage
    <2>2. NoRequest \in ViewRequest /\ NoRequest.at = "idle" /\ NoRequest.snap = Unset
      BY AskedIsARequest DEF NoRequest
    <2>3. QED
      BY <1>1, <2>1, <2>2, ServingKeeps
  <1>3. CASE Pageable(reader[r].snap) # {}
    <2> DEFINE s == CHOOSE s \in Pageable(reader[r].snap) : TRUE
               p == Paged(reader[r], s.at, s.rows, reader[r].offset)
    <2>1. reader' = [reader EXCEPT ![r] = p]
      BY <1>3 DEF NextPage
    <2>2. /\ s \in cache /\ s.at \in Instants
          /\ reader[r] \in ViewRequest /\ reader[r].query \in Queries
      BY <1>1, <1>3, CursorNames
    <2> HIDE DEF s
    <2>3. /\ p \in ViewRequest /\ p.query \in Queries /\ p.snap = s.at
          /\ p.at \in {"paging", "done"}
      <3> DEFINE walk == reader[r]
      <3> HIDE DEF walk
      <3>1. ASSUME walk \in ViewRequest, s.at \in Instants
            PROVE  LET next == Paged(walk, s.at, s.rows, walk.offset)
                   IN  /\ next \in ViewRequest /\ next.query = walk.query /\ next.snap = s.at
                       /\ next.at \in {"paging", "done"}
        BY <3>1, PagedIsARequest
      <3>2. QED
        BY <2>2, <3>1 DEF walk
    <2>4. s.at # Unset
      BY <2>2, SnapshotsAssumption
    <2> HIDE DEF p
    <2>5. QED
      BY <1>1, <2>1, <2>2, <2>3, <2>4, ServingKeeps
  <1>4. QED
    BY <1>2, <1>3

\* A reader leaves.
LEMMA GiveUpKeeps ==
    ASSUME SnapshotsInv, NEW r \in Readers, GiveUp(r)
    PROVE  SnapshotsInv'
  <1>1. NoRequest \in ViewRequest /\ NoRequest.at = "idle" /\ NoRequest.snap = Unset
    BY AskedIsARequest DEF NoRequest
  <1>2. /\ reader' = [reader EXCEPT ![r] = NoRequest]
        /\ UNCHANGED <<clock, published, acquisitions, version, cache, latest, inflight>>
    BY DEF GiveUp
  <1>3. QED
    BY <1>1, <1>2, ServingKeeps

\* The places of the keys stay places.
LEMMA PlacesStay ==
    ASSUME SnapshotsTypeOK, NEW k \in Keys
    PROVE  LET places == PlacesAfter(k)
           IN  /\ places \in [Keys -> 0..MaxKeys] /\ places[k] = 1
               /\ \A i, j \in Keys : places[i] = places[j] => i = j \/ places[i] = 0
               /\ \A j \in Keys : j # k /\ places[j] # 0 => acquisitions[j] # 0
  <1> DEFINE places == PlacesAfter(k)
             after(j) == acquisitions[k] = 0 \/ acquisitions[j] < acquisitions[k]
  <1>1. \A j \in Keys : acquisitions[j] \in Nat /\ acquisitions[j] <= MaxKeys
    BY SnapshotsAssumption DEF SnapshotsTypeOK
  <1>2. \A i, j \in Keys : acquisitions[i] = acquisitions[j] => i = j \/ acquisitions[i] = 0
    BY DEF SnapshotsTypeOK
  <1>3. MaxKeys \in Nat /\ MaxKeys >= 1
    BY SnapshotsAssumption
  <1>4. \A j \in Keys : places[j] = IF j = k THEN 1
                                    ELSE IF acquisitions[j] = 0 \/ ~after(j) THEN acquisitions[j]
                                    ELSE IF acquisitions[j] < MaxKeys THEN acquisitions[j] + 1
                                    ELSE 0
    BY DEF PlacesAfter
  <1>5. places = [j \in Keys |-> places[j]]
    BY DEF PlacesAfter
  <1> HIDE DEF places
  <1>6. \A j \in Keys : places[j] \in 0..MaxKeys
    BY <1>1, <1>3, <1>4
  <1>7. places \in [Keys -> 0..MaxKeys]
    BY <1>5, <1>6
  <1>8. \A i, j \in Keys : places[i] = places[j] => i = j \/ places[i] = 0
    BY <1>1, <1>2, <1>3, <1>4
  <1>9. \A j \in Keys : j # k /\ places[j] # 0 => acquisitions[j] # 0
    BY <1>4
  <1>10. places[k] = 1
    BY <1>4
  <1>11. QED
    BY <1>7, <1>8, <1>9, <1>10 DEF places

\* The rows kept for hazards that failed are rows of the prior acquisition, and those
\* of the new one are of published revisions.
LEMMA AcquiredArePublished ==
    ASSUME SnapshotsInv, NEW k \in Keys, NEW failed \in SUBSET Hazards, inflight[k] # Unset
    PROVE  /\ Acquired(k, failed) \in Rows
           /\ \A i \in Incidents : Acquired(k, failed)[i] # Absent =>
                /\ 0 < Acquired(k, failed)[i].revision
                /\ Acquired(k, failed)[i].revision <= published[i]
  <1> DEFINE a == inflight[k]
             kept == KeptRows(k, failed)
             revision(i) == Revision(i, failed, kept)
  <1>1. a \in Acquisition /\ a.now \in Instants /\ a.previous \in Rows
    BY DEF SnapshotsInv, SnapshotsTypeOK, Acquisition
  <1>2. ASSUME NEW i \in Incidents
        PROVE  revision(i) \in 0..MaxRevision /\ revision(i) <= published[i]
    <2>1. published[i] \in 0..MaxRevision
      BY DEF SnapshotsInv, SnapshotsTypeOK
    <2>2. CASE HazardOf[i] \notin failed
      BY <2>1, <2>2, SnapshotsAssumption DEF Revision
    <2>3. CASE HazardOf[i] \in failed
      <3> DEFINE prior == Of(k, Live(a.now))
                 s == CHOOSE s \in prior : TRUE
      <3>1. revision(i) = kept[i].revision
        BY <2>3 DEF Revision
      <3>2. kept[i] = IF prior = {} THEN Absent ELSE s.rows[i]
        BY <2>3 DEF KeptRows
      <3>3. CASE prior = {}
        BY <2>1, <3>1, <3>2, <3>3, SnapshotsAssumption DEF Absent
      <3>4. CASE prior # {}
        <4>1. s \in cache
          <5>1. s \in prior
            BY <3>4
          <5>2. prior \subseteq cache
            BY DEF Of, Live
          <5>3. QED
            BY <5>1, <5>2
        <4> HIDE DEF s
        <4>2. s.rows[i] \in Row
          BY <4>1 DEF SnapshotsInv, SnapshotsTypeOK, CachedSnapshot, Rows
        <4>3. CASE s.rows[i] = Absent
          BY <2>1, <3>1, <3>2, <3>4, <4>3, SnapshotsAssumption DEF Absent
        <4>4. CASE s.rows[i] # Absent
          BY <2>1, <3>1, <3>2, <3>4, <4>1, <4>2, <4>4 DEF SnapshotsInv, RowsArePublished, Row
        <4>5. QED
          BY <4>3, <4>4
      <3>5. QED
        BY <3>3, <3>4
    <2>4. QED
      BY <2>2, <2>3
  <1>3. \A i \in Incidents : Acquired(k, failed)[i] = Marked(a, i, revision(i))
    BY DEF Acquired
  <1> HIDE DEF kept
  <1>4. ASSUME NEW i \in Incidents
        PROVE  /\ Marked(a, i, revision(i)) \in Row
               /\ Marked(a, i, revision(i)) # Absent =>
                    /\ 0 < Marked(a, i, revision(i)).revision
                    /\ Marked(a, i, revision(i)).revision <= published[i]
    <2>1. a.previous[i] \in Row
      BY <1>1 DEF Rows
    <2>2. a.previous[i].changed \in Instants /\ 0 \in Instants
      BY <2>1, SnapshotsAssumption DEF Row, Instants
    <2>3. revision(i) \in 0..MaxRevision /\ revision(i) <= published[i]
      BY <1>2
    <2> HIDE DEF revision, a
    <2>4. CASE revision(i) = 0
      BY <2>2, <2>3, <2>4, SnapshotsAssumption DEF Marked, Absent, Row
    <2>5. CASE revision(i) # 0
      <3> DEFINE since == IF a.previous[i].revision = revision(i)
                          THEN a.previous[i].changed ELSE a.now
      <3>1. Marked(a, i, revision(i)) = [revision |-> revision(i), changed |-> since]
        BY <2>5 DEF Marked
      <3>2. since \in Instants
        BY <1>1, <2>2
      <3> HIDE DEF since
      <3>3. QED
        BY <2>3, <2>5, <3>1, <3>2, SnapshotsAssumption DEF Row
    <2>6. QED
      BY <2>4, <2>5
  <1>5. Acquired(k, failed) \in Rows
    BY <1>3, <1>4 DEF Acquired, Rows
  <1>6. QED
    BY <1>3, <1>4, <1>5

\* What Finish makes of the state, by parts.
LEMMA FinishEffects ==
    ASSUME SnapshotsInv, NEW k \in Keys, NEW failed \in SUBSET Hazards, Finish(k, failed)
    PROVE  LET a == inflight[k]
               rows == Acquired(k, failed)
               shown == Handed(rows, a.query)
               new == [at |-> a.now, put |-> clock, rows |-> rows, basis |-> IsBasis(k)]
           IN  /\ a # Unset /\ a \in Acquisition /\ a.now \in Instants /\ a.now < clock
               /\ a.query \in Queries /\ KeyOf[a.query] = k
               /\ new \in CachedSnapshot /\ new.at = a.now /\ new.rows = rows /\ new.at < new.put
               /\ rows \in Rows /\ shown \in Rows
               /\ cache' = Live(clock) \cup {new} /\ Live(clock) \subseteq cache
               /\ inflight' \in [Keys -> Acquisition \cup {Unset}] /\ inflight'[k] = Unset
               /\ \A j \in Keys : j # k => inflight'[j] = inflight[j]
               /\ UNCHANGED <<clock, published>>
  <1> DEFINE a == inflight[k]
             rows == Acquired(k, failed)
             new == [at |-> a.now, put |-> clock, rows |-> rows, basis |-> IsBasis(k)]
  <1>1. a # Unset
    BY DEF Finish
  <1>2. a \in Acquisition /\ a.now \in Instants /\ a.now < clock /\ a.query \in Queries
        /\ KeyOf[a.query] = k /\ clock \in Instants
    BY <1>1 DEF SnapshotsInv, SnapshotsTypeOK, BegunBefore, Acquisition
  <1>3. rows \in Rows
    BY <1>1, AcquiredArePublished
  <1>4. new \in CachedSnapshot /\ new.at = a.now /\ new.rows = rows /\ new.at < new.put
    BY <1>2, <1>3 DEF CachedSnapshot, Instants, IsBasis
  <1>5. Handed(rows, a.query) \in Rows
    <2>1. Absent \in Row
      BY SnapshotsAssumption DEF Absent, Row, Instants
    <2> HIDE DEF rows, a
    <2>2. QED
      BY <1>3, <2>1 DEF Handed, Rows
  <1>6. cache' = Live(clock) \cup {new} /\ Live(clock) \subseteq cache
    BY DEF Finish, Live
  <1>7. /\ inflight' = [inflight EXCEPT ![k] = Unset]
        /\ UNCHANGED <<clock, published>>
    BY DEF Finish
  <1>8. /\ inflight' \in [Keys -> Acquisition \cup {Unset}] /\ inflight'[k] = Unset
        /\ \A j \in Keys : j # k => inflight'[j] = inflight[j]
    BY <1>7 DEF SnapshotsInv, SnapshotsTypeOK
  <1>9. QED
    BY <1>1, <1>2, <1>3, <1>4, <1>5, <1>6, <1>7, <1>8

\* Whom Finish answers: those who wait for the key, with a walk over the new snapshot.
LEMMA FinishAnswers ==
    ASSUME SnapshotsInv, NEW k \in Keys, NEW failed \in SUBSET Hazards, Finish(k, failed)
    PROVE  /\ reader' \in [Readers -> ViewRequest]
           /\ \A r \in Readers :
                \/ /\ r \in Waiting(k)
                   /\ reader[r].query \in Queries /\ KeyOf[reader[r].query] = k
                   /\ reader'[r] = Answered(reader[r].query, inflight[k].now,
                                            Handed(Acquired(k, failed), inflight[k].query),
                                            inflight[k].query)
                   /\ reader'[r].query = reader[r].query /\ reader'[r].snap = inflight[k].now
                   /\ reader'[r].at \in {"paging", "done"}
                \/ reader'[r] = reader[r]
  <1> DEFINE shown == Handed(Acquired(k, failed), inflight[k].query)
             p(r) == Answered(reader[r].query, inflight[k].now, shown, inflight[k].query)
  <1>1. reader' = [r \in Readers |-> IF r \in Waiting(k) THEN p(r) ELSE reader[r]]
    BY DEF Finish
  <1>2. inflight[k].now \in Instants /\ inflight[k].query \in Queries
    BY FinishEffects
  <1> HIDE DEF shown
  <1>3. ASSUME NEW r \in Readers, r \in Waiting(k)
        PROVE  /\ reader[r].query \in Queries /\ KeyOf[reader[r].query] = k
               /\ p(r) \in ViewRequest /\ p(r).query = reader[r].query
               /\ p(r).snap = inflight[k].now /\ p(r).at \in {"paging", "done"}
    <2>1. reader[r].query \in Queries /\ KeyOf[reader[r].query] = k
      BY <1>3 DEF Waiting, SnapshotsInv, AskersHaveQueries
    <2>2. QED
      BY <1>2, <2>1, AnswerStarts
  <1> HIDE DEF p
  <1>4. \A r \in Readers : reader[r] \in ViewRequest
    BY DEF SnapshotsInv, SnapshotsTypeOK
  <1>5. reader' \in [Readers -> ViewRequest]
    BY <1>1, <1>3, <1>4
  <1>6. \A r \in Readers : reader'[r] = IF r \in Waiting(k) THEN p(r) ELSE reader[r]
    BY <1>1
  <1>7. QED
    BY <1>3, <1>5, <1>6 DEF p, shown

\* The providers have answered, or failed hazard by hazard.
LEMMA FinishKeeps ==
    ASSUME SnapshotsInv, NEW k \in Keys, NEW failed \in SUBSET Hazards, Finish(k, failed)
    PROVE  SnapshotsInv'
  <1> DEFINE a == inflight[k]
             rows == Acquired(k, failed)
             new == [at |-> a.now, put |-> clock, rows |-> rows, basis |-> IsBasis(k)]
  <1>1. /\ a # Unset /\ a \in Acquisition /\ a.now \in Instants /\ a.now < clock
        /\ new \in CachedSnapshot /\ new.at = a.now /\ new.rows = rows /\ new.at < new.put
        /\ rows \in Rows /\ Handed(rows, a.query) \in Rows
        /\ cache' = Live(clock) \cup {new} /\ Live(clock) \subseteq cache
        /\ inflight' \in [Keys -> Acquisition \cup {Unset}] /\ inflight'[k] = Unset
        /\ \A j \in Keys : j # k => inflight'[j] = inflight[j]
        /\ UNCHANGED <<clock, published>>
    BY FinishEffects
  <1>2. /\ reader' \in [Readers -> ViewRequest]
        /\ \A r \in Readers :
             \/ /\ reader'[r].query \in Queries /\ reader'[r].snap = a.now
                /\ reader'[r].at \in {"paging", "done"}
             \/ reader'[r] = reader[r]
    BY FinishAnswers
  <1>3. \A i \in Incidents : rows[i] # Absent =>
          0 < rows[i].revision /\ rows[i].revision <= published[i]
    BY <1>1, AcquiredArePublished
  <1>4. latest' \in Rows
    BY <1>1 DEF Finish, SnapshotsInv, SnapshotsTypeOK
  <1>5. /\ acquisitions' \in [Keys -> 0..MaxKeys]
        /\ \A i, j \in Keys : acquisitions'[i] = acquisitions'[j] => i = j \/ acquisitions'[i] = 0
        /\ version' \in [Keys -> Instants \cup {Unset}]
        /\ \A j \in Keys : version'[j] # Unset <=> acquisitions'[j] # 0
    <2> DEFINE places == PlacesAfter(k)
    <2>1. /\ places \in [Keys -> 0..MaxKeys] /\ places[k] = 1
          /\ \A i, j \in Keys : places[i] = places[j] => i = j \/ places[i] = 0
          /\ \A j \in Keys : j # k /\ places[j] # 0 => acquisitions[j] # 0
      BY PlacesStay DEF SnapshotsInv
    <2>2. /\ acquisitions' = places
          /\ version' = [j \in Keys |-> IF j = k THEN a.now
                                        ELSE IF places[j] = 0 THEN Unset ELSE version[j]]
      BY DEF Finish
    <2> HIDE DEF places, a
    <2>3. a.now # Unset
      BY <1>1, SnapshotsAssumption
    <2>4. version \in [Keys -> Instants \cup {Unset}]
          /\ \A j \in Keys : version[j] # Unset <=> acquisitions[j] # 0
      BY DEF SnapshotsInv, SnapshotsTypeOK
    <2>5. QED
      BY <1>1, <2>1, <2>2, <2>3, <2>4
  <1> HIDE DEF new, rows, a
  <1>6. SnapshotsTypeOK'
    <2>1. cache' \subseteq CachedSnapshot /\ \A s \in cache' : s.at < s.put
      BY <1>1 DEF SnapshotsInv, SnapshotsTypeOK
    <2>2. \A j \in Keys : inflight'[j] # Unset => KeyOf[inflight'[j].query] = j
      BY <1>1 DEF SnapshotsInv, SnapshotsTypeOK
    <2>3. clock' \in Instants /\ published' \in [Incidents -> 0..MaxRevision]
      BY <1>1 DEF SnapshotsInv, SnapshotsTypeOK
    <2>4. QED
      BY <1>1, <1>2, <1>4, <1>5, <2>1, <2>2, <2>3 DEF SnapshotsTypeOK
  <1>7. BegunBefore'
    BY <1>1, <1>2 DEF SnapshotsInv, BegunBefore
  <1>8. InstantsName'
    <2>1. /\ \A s \in cache : s.at # a.now
          /\ \A j \in Keys : j # k /\ inflight[j] # Unset => inflight[j].now # a.now
      BY <1>1 DEF SnapshotsInv, InstantsName, a
    <2>2. \A s, t \in cache' : s.at = t.at => s = t
      BY <1>1, <2>1 DEF SnapshotsInv, InstantsName
    <2>3. \A i, j \in Keys : (/\ inflight'[i] # Unset /\ inflight'[j] # Unset
                              /\ inflight'[i].now = inflight'[j].now) => i = j
      BY <1>1 DEF SnapshotsInv, InstantsName
    <2>4. ASSUME NEW j \in Keys, inflight'[j] # Unset
          PROVE  /\ \A s \in cache' : s.at # inflight'[j].now
                 /\ \A r \in Readers : reader'[r].snap # inflight'[j].now
      <3>1. inflight'[j] = inflight[j] /\ j # k /\ inflight[j].now # a.now
        BY <1>1, <2>1, <2>4
      <3>2. QED
        BY <1>1, <1>2, <2>4, <3>1 DEF SnapshotsInv, InstantsName
    <2>5. QED
      BY <2>2, <2>3, <2>4 DEF InstantsName
  <1>9. AskersHaveQueries'
    <2>1. a.now # Unset
      BY <1>1, SnapshotsAssumption
    <2>2. QED
      BY <1>2, <2>1 DEF SnapshotsInv, AskersHaveQueries
  <1>10. RowsArePublished'
    BY <1>1, <1>3 DEF SnapshotsInv, RowsArePublished
  <1>11. QED
    BY <1>6, <1>7, <1>8, <1>9, <1>10 DEF SnapshotsInv

\* An acquisition fails.
LEMMA FailureKeeps ==
    ASSUME SnapshotsInv, NEW k \in Keys, AcquisitionFails(k)
    PROVE  SnapshotsInv'
  <1>1. NoRequest \in ViewRequest /\ NoRequest.at = "idle" /\ NoRequest.snap = Unset
    BY AskedIsARequest DEF NoRequest
  <1>2. /\ reader' \in [Readers -> ViewRequest]
        /\ \A r \in Readers : reader'[r] = NoRequest \/ reader'[r] = reader[r]
    BY <1>1 DEF AcquisitionFails, SnapshotsInv, SnapshotsTypeOK
  <1>3. /\ inflight' \in [Keys -> Acquisition \cup {Unset}]
        /\ \A j \in Keys : inflight'[j] = Unset \/ inflight'[j] = inflight[j]
    BY DEF AcquisitionFails, SnapshotsInv, SnapshotsTypeOK
  <1>4. UNCHANGED <<clock, published, acquisitions, version, cache, latest>>
    BY DEF AcquisitionFails
  <1> HIDE DEF NoRequest
  <1>5. SnapshotsTypeOK'
    BY <1>2, <1>3, <1>4 DEF SnapshotsInv, SnapshotsTypeOK
  <1>6. BegunBefore'
    BY <1>1, <1>2, <1>3, <1>4 DEF SnapshotsInv, BegunBefore
  <1>7. InstantsName'
    <2>1. \A j \in Keys : inflight'[j] # Unset => inflight'[j].now \in Instants
      BY <1>3 DEF Acquisition
    <2>2. \A j \in Keys : inflight'[j] # Unset => inflight'[j].now # NoRequest.snap
      BY <1>1, <2>1, SnapshotsAssumption
    <2>3. QED
      BY <1>2, <1>3, <1>4, <2>2 DEF SnapshotsInv, InstantsName
  <1>8. AskersHaveQueries'
    BY <1>1, <1>2 DEF SnapshotsInv, AskersHaveQueries
  <1>9. RowsArePublished'
    BY <1>4 DEF SnapshotsInv, RowsArePublished
  <1>10. QED
    BY <1>5, <1>6, <1>7, <1>8, <1>9 DEF SnapshotsInv

\* The providers publish, and time passes.
LEMMA PublishKeeps ==
    ASSUME SnapshotsInv, NEW i \in Incidents, Publish(i)
    PROVE  SnapshotsInv'
  <1>1. /\ published' \in [Incidents -> 0..MaxRevision]
        /\ \A j \in Incidents : /\ published[j] \in Nat /\ published'[j] \in Nat
                                /\ published[j] <= published'[j]
    BY SnapshotsAssumption DEF Publish, SnapshotsInv, SnapshotsTypeOK
  <1>2. UNCHANGED <<clock, acquisitions, version, cache, latest, inflight, reader>>
    BY DEF Publish
  <1>3. SnapshotsTypeOK'
    BY <1>1, <1>2 DEF SnapshotsInv, SnapshotsTypeOK
  <1>4. RowsArePublished'
    <2>1. \A s \in cache : \A j \in Incidents : s.rows[j].revision \in Nat
      BY SnapshotsAssumption DEF SnapshotsInv, SnapshotsTypeOK, CachedSnapshot, Rows, Row
    <2>2. QED
      BY <1>1, <1>2, <2>1 DEF SnapshotsInv, RowsArePublished
  <1>5. BegunBefore' /\ InstantsName' /\ AskersHaveQueries'
    BY <1>2 DEF SnapshotsInv, BegunBefore, InstantsName, AskersHaveQueries
  <1>6. QED
    BY <1>3, <1>4, <1>5 DEF SnapshotsInv

\* Time goes by.
LEMMA TickKeeps ==
    ASSUME SnapshotsInv, Tick
    PROVE  SnapshotsInv'
  <1>1. clock \in Instants /\ clock' \in Instants /\ clock' = clock + 1
    BY SnapshotsAssumption DEF Tick, SnapshotsInv, SnapshotsTypeOK, Instants
  <1>2. UNCHANGED <<published, acquisitions, version, cache, latest, inflight, reader>>
    BY DEF Tick
  <1>3. SnapshotsTypeOK'
    BY <1>1, <1>2 DEF SnapshotsInv, SnapshotsTypeOK
  <1>4. BegunBefore'
    <2>1. /\ \A s \in cache : s.at \in Nat
          /\ \A k \in Keys : inflight[k] # Unset => inflight[k].now \in Nat
          /\ \A r \in Readers : reader[r].snap # Unset => reader[r].snap \in Nat
      BY DEF SnapshotsInv, SnapshotsTypeOK, CachedSnapshot, Acquisition, ViewRequest, Instants
    <2>2. QED
      BY <1>1, <1>2, <2>1 DEF SnapshotsInv, BegunBefore, Instants
  <1>5. InstantsName' /\ AskersHaveQueries' /\ RowsArePublished'
    BY <1>2 DEF SnapshotsInv, InstantsName, AskersHaveQueries, RowsArePublished
  <1>6. QED
    BY <1>3, <1>4, <1>5 DEF SnapshotsInv

\* In the beginning nothing is published and nobody asks.
LEMMA SnapshotsInit_Inv == SnapshotsInit => SnapshotsInv
  <1> SUFFICES ASSUME SnapshotsInit PROVE SnapshotsInv
    OBVIOUS
  <1>1. NoRequest \in ViewRequest /\ NoRequest.at = "idle" /\ NoRequest.snap = Unset
    BY AskedIsARequest DEF NoRequest
  <1>2. NoRows \in Rows /\ 0 \in Instants
    BY SnapshotsAssumption DEF NoRows, Absent, Rows, Row, Instants
  <1> HIDE DEF NoRequest, NoRows
  <1>3. SnapshotsTypeOK
    BY <1>1, <1>2, SnapshotsAssumption DEF SnapshotsInit, SnapshotsTypeOK
  <1>4. BegunBefore /\ InstantsName /\ AskersHaveQueries /\ RowsArePublished
    BY <1>1 DEF SnapshotsInit, BegunBefore, InstantsName, AskersHaveQueries, RowsArePublished
  <1>5. QED
    BY <1>3, <1>4 DEF SnapshotsInv

\* Every step keeps the invariant.
LEMMA SnapshotsStep == SnapshotsInv /\ [SnapshotsNext]_snapshotVars => SnapshotsInv'
  <1> SUFFICES ASSUME SnapshotsInv, [SnapshotsNext]_snapshotVars PROVE SnapshotsInv'
    OBVIOUS
  <1>1. ASSUME NEW r \in Readers, NEW q \in Queries, ServeCached(r, q) PROVE SnapshotsInv'
    BY <1>1, ServeCachedKeeps
  <1>2. ASSUME NEW r \in Readers, NEW q \in Queries, AwaitRefresh(r, q) PROVE SnapshotsInv'
    BY <1>2, AwaitRefreshKeeps
  <1>3. ASSUME NEW r \in Readers, NextPage(r) PROVE SnapshotsInv'
    BY <1>3, NextPageKeeps
  <1>4. ASSUME NEW r \in Readers, GiveUp(r) PROVE SnapshotsInv'
    BY <1>4, GiveUpKeeps
  <1>5. ASSUME NEW k \in Keys, AcquisitionFails(k) PROVE SnapshotsInv'
    BY <1>5, FailureKeeps
  <1>6. ASSUME NEW k \in Keys, NEW failed \in SUBSET Hazards, Finish(k, failed)
        PROVE  SnapshotsInv'
    BY <1>6, FinishKeeps
  <1>7. ASSUME NEW i \in Incidents, Publish(i) PROVE SnapshotsInv'
    BY <1>7, PublishKeeps
  <1>8. ASSUME Tick PROVE SnapshotsInv'
    BY <1>8, TickKeeps
  <1>9. ASSUME UNCHANGED snapshotVars PROVE SnapshotsInv'
    BY <1>9 DEF snapshotVars, SnapshotsInv, SnapshotsTypeOK, BegunBefore, InstantsName,
                AskersHaveQueries, RowsArePublished
  <1>10. QED
    BY <1>1, <1>2, <1>3, <1>4, <1>5, <1>6, <1>7, <1>8, <1>9 DEF SnapshotsNext

\* The types of the variables, at every instant.
THEOREM SnapshotsTypeCorrect == SnapshotsSpec => []SnapshotsTypeOK
  <1>1. SnapshotsInv => SnapshotsTypeOK
    BY DEF SnapshotsInv
  <1>2. QED
    BY <1>1, SnapshotsInit_Inv, SnapshotsStep, PTL DEF SnapshotsSpec

\* The invariant holds at every instant.
LEMMA SnapshotsInvHolds == SnapshotsSpec => []SnapshotsInv
  BY SnapshotsInit_Inv, SnapshotsStep, PTL DEF SnapshotsSpec

-----------------------------------------------------------------------------
(* IncidentSnapshots: walks *)

\* A request moves on: if it is over a cached snapshot, it is shown its list.
LEMMA RequestWalks ==
    ASSUME SnapshotsInv, WalksFit, NEW r \in Readers, NEW p \in ViewRequest,
           reader' = [reader EXCEPT ![r] = p],
           cache' \subseteq cache,
           \A s \in cache : p.snap = s.at => WalkFits(p, s.rows)
    PROVE  WalksFit'
  <1>1. /\ reader'[r] = p
        /\ \A o \in Readers : o # r => reader'[o] = reader[o]
    BY ReaderMoves DEF SnapshotsInv
  <1>2. ASSUME NEW o \in Readers, NEW s \in cache', reader'[o].snap = s.at
        PROVE  WalkFits(reader'[o], s.rows)
    <2>1. CASE o = r
      BY <1>1, <1>2, <2>1
    <2>2. CASE o # r
      BY <1>1, <1>2, <2>2 DEF WalksFit
    <2>3. QED
      BY <2>1, <2>2
  <1>3. QED
    BY <1>2 DEF WalksFit, WalkFits, ShowsOnly, ListsAllOf, WalksOver, ShownSoFar, Filter,
                Present, Index

\* No snapshot bears the instant a request without one would name.
LEMMA UnsetNamesNothing ==
    ASSUME SnapshotsInv, NEW s \in cache
    PROVE  s.at # Unset /\ s.at \in Instants
  BY SnapshotsAssumption DEF SnapshotsInv, SnapshotsTypeOK, CachedSnapshot

\* A reader who is served from the cache begins a walk that fits.
LEMMA ServeCachedWalks ==
    ASSUME SnapshotsInv, WalksFit, NEW r \in Readers, NEW q \in Queries, ServeCached(r, q)
    PROVE  WalksFit'
  <1>1. PICK s \in Cached(KeyOf[q]) :
          /\ reader' = [reader EXCEPT ![r] = Answered(q, s.at, s.rows, Unset)]
          /\ cache' = Live(clock)
    BY DEF ServeCached
  <1> DEFINE p == Answered(q, s.at, s.rows, Unset)
  <1>2. s \in cache /\ s.at \in Instants
    BY DEF Cached, Of, Live, SnapshotsInv, SnapshotsTypeOK, CachedSnapshot
  <1>3. p \in ViewRequest /\ p.query = q /\ p.snap = s.at /\ WalkFits(p, s.rows)
    BY <1>2, AnswerStarts DEF WalkFits
  <1>4. \A t \in cache : s.at = t.at => s = t
    BY <1>2 DEF SnapshotsInv, InstantsName
  <1>5. cache' \subseteq cache
    BY <1>1 DEF Live
  <1> HIDE DEF p
  <1>6. \A t \in cache : p.snap = t.at => WalkFits(p, t.rows)
    BY <1>3, <1>4
  <1>7. QED
    BY <1>1, <1>3, <1>5, <1>6, RequestWalks DEF p

\* A reader who waits has not begun one.
LEMMA AwaitRefreshWalks ==
    ASSUME SnapshotsInv, WalksFit, NEW r \in Readers, NEW q \in Queries, AwaitRefresh(r, q)
    PROVE  WalksFit'
  <1> DEFINE p == Asked("waiting", q)
  <1>1. p \in ViewRequest /\ p.snap = Unset
    BY AskedIsARequest
  <1>2. cache' \subseteq cache /\ reader' = [reader EXCEPT ![r] = p]
    BY DEF AwaitRefresh, Live
  <1> HIDE DEF p
  <1>3. QED
    BY <1>1, <1>2, UnsetNamesNothing, RequestWalks

\* The next page continues it where the page before ended, or ends it.
LEMMA NextPageWalks ==
    ASSUME SnapshotsInv, WalksFit, NEW r \in Readers, NextPage(r)
    PROVE  WalksFit'
  <1>1. reader[r].at = "paging" /\ UNCHANGED cache
    BY DEF NextPage
  <1>2. CASE Pageable(reader[r].snap) = {}
    <2>1. reader' = [reader EXCEPT ![r] = NoRequest]
      BY <1>2 DEF NextPage
    <2>2. NoRequest \in ViewRequest /\ NoRequest.snap = Unset
      BY AskedIsARequest DEF NoRequest
    <2>3. QED
      BY <1>1, <2>1, <2>2, UnsetNamesNothing, RequestWalks
  <1>3. CASE Pageable(reader[r].snap) # {}
    <2> DEFINE s == CHOOSE s \in Pageable(reader[r].snap) : TRUE
               p == Paged(reader[r], s.at, s.rows, reader[r].offset)
    <2>1. reader' = [reader EXCEPT ![r] = p]
      BY <1>3 DEF NextPage
    <2>2. /\ s \in cache /\ s.at = reader[r].snap /\ s.at \in Instants
          /\ reader[r] \in ViewRequest
      BY <1>1, <1>3, CursorNames
    <2> HIDE DEF s
    <2>3. WalkFits(reader[r], s.rows)
      BY <2>2 DEF WalksFit
    <2>4. /\ p \in ViewRequest /\ p.query = reader[r].query /\ p.snap = s.at
          /\ p.starter = reader[r].starter
      BY <2>2, PagedIsARequest
    <2>5. ShowsOnly(p, Filter(s.rows, p.query))
      BY <2>2, <2>3, <2>4, PageShowsOnly DEF WalkFits
    <2>6. ASSUME ListsAllOf(p.starter, p.query)
          PROVE  WalksOver(p, Filter(s.rows, p.query))
      <3>1. ShownSoFar(reader[r], Filter(s.rows, reader[r].query))
        BY <2>3, <2>4, <2>6 DEF WalkFits, WalksOver
      <3>2. QED
        BY <2>2, <2>4, <3>1, PageTakesOn
    <2>7. \A t \in cache : s.at = t.at => s = t
      BY <2>2 DEF SnapshotsInv, InstantsName
    <2> HIDE DEF p
    <2>8. \A t \in cache : p.snap = t.at => WalkFits(p, t.rows)
      BY <2>4, <2>5, <2>6, <2>7 DEF WalkFits
    <2>9. QED
      BY <1>1, <2>1, <2>4, <2>8, RequestWalks
  <1>4. QED
    BY <1>2, <1>3

\* A reader who leaves has none.
LEMMA GiveUpWalks ==
    ASSUME SnapshotsInv, WalksFit, NEW r \in Readers, GiveUp(r)
    PROVE  WalksFit'
  <1>1. NoRequest \in ViewRequest /\ NoRequest.snap = Unset
    BY AskedIsARequest DEF NoRequest
  <1>2. reader' = [reader EXCEPT ![r] = NoRequest] /\ UNCHANGED cache
    BY DEF GiveUp
  <1>3. QED
    BY <1>1, <1>2, UnsetNamesNothing, RequestWalks

\* Those who waited are shown what their own query makes of the page handed to them.
LEMMA FinishWalks ==
    ASSUME SnapshotsInv, WalksFit,
           NEW k \in Keys, NEW failed \in SUBSET Hazards, Finish(k, failed)
    PROVE  WalksFit'
  <1> DEFINE a == inflight[k]
             rows == Acquired(k, failed)
             new == [at |-> a.now, put |-> clock, rows |-> rows, basis |-> IsBasis(k)]
  <1>1. /\ a # Unset /\ a.now \in Instants
        /\ a.query \in Queries /\ KeyOf[a.query] = k
        /\ new.at = a.now /\ new.rows = rows /\ rows \in Rows
        /\ cache' = Live(clock) \cup {new} /\ Live(clock) \subseteq cache
    BY FinishEffects
  <1>2. /\ \A s \in cache : s.at # a.now
        /\ \A r \in Readers : reader[r].snap # a.now
    BY <1>1 DEF SnapshotsInv, InstantsName
  <1> HIDE DEF new
  <1>3. ASSUME NEW r \in Readers, NEW s \in cache', reader'[r].snap = s.at
        PROVE  WalkFits(reader'[r], s.rows)
    <2> DEFINE q == reader[r].query
               shown == Handed(rows, a.query)
    <2>1. CASE /\ q \in Queries /\ KeyOf[q] = k
               /\ reader'[r] = Answered(q, a.now, shown, a.query)
               /\ reader'[r].query = q /\ reader'[r].snap = a.now
      <3>1. /\ ShowsOnly(reader'[r], Filter(shown, q)) /\ WalksOver(reader'[r], Filter(shown, q))
            /\ reader'[r].starter = a.query
        BY <1>1, <2>1, AnswerStarts
      <3>2. /\ Filter(shown, q) \subseteq Filter(rows, q)
            /\ ListsAllOf(a.query, q) => Filter(shown, q) = Filter(rows, q)
        BY <1>1, <2>1, HandedShows
      <3>3. s = new
        BY <1>1, <1>2, <1>3, <2>1
      <3>4. ShowsOnly(reader'[r], Filter(rows, q))
        BY <3>1, <3>2 DEF ShowsOnly
      <3>5. QED
        BY <1>1, <2>1, <3>1, <3>2, <3>3, <3>4 DEF WalkFits
    <2>2. CASE reader'[r] = reader[r]
      <3>1. s \in cache
        BY <1>1, <1>2, <1>3, <2>2
      <3>2. QED
        BY <1>3, <2>2, <3>1 DEF WalksFit
    <2>3. QED
      BY <2>1, <2>2, FinishAnswers
  <1>4. QED
    BY <1>3 DEF WalksFit, WalkFits, ShowsOnly, ListsAllOf, WalksOver, ShownSoFar, Filter,
                Present, Index

\* Nor has a reader whose acquisition failed.
LEMMA FailureWalks ==
    ASSUME SnapshotsInv, WalksFit, NEW k \in Keys, AcquisitionFails(k)
    PROVE  WalksFit'
  <1>1. NoRequest.snap = Unset
    BY AskedIsARequest DEF NoRequest
  <1>2. /\ \A r \in Readers : reader'[r] = NoRequest \/ reader'[r] = reader[r]
        /\ UNCHANGED cache
    BY DEF AcquisitionFails
  <1>3. ASSUME NEW r \in Readers, NEW s \in cache', reader'[r].snap = s.at
        PROVE  WalkFits(reader'[r], s.rows)
    <2>1. reader'[r] = reader[r]
      BY <1>1, <1>2, <1>3, UnsetNamesNothing
    <2>2. QED
      BY <1>2, <1>3, <2>1 DEF WalksFit
  <1>4. QED
    BY <1>3 DEF WalksFit, WalkFits, ShowsOnly, ListsAllOf, WalksOver, ShownSoFar, Filter,
                Present, Index

\* In the beginning there are no walks.
LEMMA WalksInit == SnapshotsInit => WalksFit
  BY DEF SnapshotsInit, WalksFit

\* Every step keeps the walks fitting.
LEMMA WalksStep ==
    SnapshotsInv /\ WalksFit /\ [SnapshotsNext]_snapshotVars => WalksFit'
  <1> SUFFICES ASSUME SnapshotsInv, WalksFit, [SnapshotsNext]_snapshotVars PROVE WalksFit'
    OBVIOUS
  <1>1. ASSUME NEW r \in Readers, NEW q \in Queries, ServeCached(r, q) PROVE WalksFit'
    BY <1>1, ServeCachedWalks
  <1>2. ASSUME NEW r \in Readers, NEW q \in Queries, AwaitRefresh(r, q) PROVE WalksFit'
    BY <1>2, AwaitRefreshWalks
  <1>3. ASSUME NEW r \in Readers, NextPage(r) PROVE WalksFit'
    BY <1>3, NextPageWalks
  <1>4. ASSUME NEW r \in Readers, GiveUp(r) PROVE WalksFit'
    BY <1>4, GiveUpWalks
  <1>5. ASSUME NEW k \in Keys, AcquisitionFails(k) PROVE WalksFit'
    BY <1>5, FailureWalks
  <1>6. ASSUME NEW k \in Keys, NEW failed \in SUBSET Hazards, Finish(k, failed)
        PROVE  WalksFit'
    BY <1>6, FinishWalks
  <1>7. ASSUME \/ \E i \in Incidents : Publish(i)
               \/ Tick
               \/ UNCHANGED snapshotVars
        PROVE  WalksFit'
    <2>1. UNCHANGED <<reader, cache>>
      BY <1>7 DEF Publish, Tick, snapshotVars
    <2>2. QED
      BY <2>1 DEF WalksFit
  <1>8. QED
    BY <1>1, <1>2, <1>3, <1>4, <1>5, <1>6, <1>7 DEF SnapshotsNext

\* A reader who has followed the cursors to the end has been shown no incident its query
\* does not match in the snapshot, and every one it matches once, unless it waited for an
\* acquisition of another view that does not list all that its own lists.
THEOREM WalksAreAlwaysComplete == SnapshotsSpec => []WalksAreComplete
  <1>1. WalksFit => WalksAreComplete
    <2> SUFFICES ASSUME WalksFit, NEW r \in Readers, NEW s \in cache,
                        reader[r].at = "done", reader[r].snap = s.at, NEW i \in Incidents
                 PROVE  IF i \notin Filter(s.rows, reader[r].query) THEN reader[r].seen[i] = 0
                        ELSE ListsAllOf(reader[r].starter, reader[r].query)
                               => reader[r].seen[i] = 1
      BY DEF WalksAreComplete
    <2> DEFINE list == Filter(s.rows, reader[r].query)
    <2>1. WalkFits(reader[r], s.rows)
      BY DEF WalksFit
    <2>2. CASE i \notin list
      BY <2>1, <2>2 DEF WalkFits, ShowsOnly
    <2>3. CASE i \in list /\ ListsAllOf(reader[r].starter, reader[r].query)
      <3>1. /\ reader[r].seen[i]
                 = IF i \in list /\ Index(list, i) < reader[r].offset THEN 1 ELSE 0
            /\ reader[r].offset = Cardinality(list)
        BY <2>1, <2>3 DEF WalkFits, WalksOver, ShownSoFar
      <3>2. Index(list, i) < Cardinality(list)
        BY <2>3, IndicesAreBelow
      <3>3. QED
        BY <2>3, <3>1, <3>2
    <2>4. QED
      BY <2>2, <2>3
  <1>2. QED
    BY <1>1, SnapshotsInvHolds, WalksInit, WalksStep, PTL DEF SnapshotsSpec

-----------------------------------------------------------------------------
(* IncidentSnapshots: rows and their recency *)

\* An outage takes no row off the list of a key as long as the acquisition before is
\* cached.
THEOREM RowsAlwaysOutliveFailures == SnapshotsSpec => RowsOutliveFailures
  <1>1. ASSUME SnapshotsInv, NEW j \in Keys, [SnapshotsNext]_snapshotVars
        PROVE  RowsStay(j)
    <2> SUFFICES ASSUME version'[j] # Unset, version'[j] # version[j],
                        NEW s \in Cached(j), NEW t \in cache', t.at = version'[j]
                 PROVE  Present(s.rows) \subseteq Present(t.rows)
      BY DEF RowsStay
    <2>1. PICK k \in Keys, failed \in SUBSET Hazards : Finish(k, failed)
      BY <1>1 DEF SnapshotsNext, ServeCached, AwaitRefresh, NextPage, GiveUp,
                  AcquisitionFails, Publish, Tick, snapshotVars
    <2> DEFINE a == inflight[k]
               rows == Acquired(k, failed)
               new == [at |-> a.now, put |-> clock, rows |-> rows, basis |-> IsBasis(k)]
    <2>2. /\ a # Unset /\ a.now \in Instants /\ a.now < clock
          /\ new.at = a.now /\ new.rows = rows
          /\ cache' = Live(clock) \cup {new} /\ Live(clock) \subseteq cache
          /\ clock' = clock
      BY <2>1, FinishEffects, <1>1
    <2>3. j = k /\ version'[j] = a.now
      BY <2>1 DEF Finish
    <2>4. t = new
      BY <1>1, <2>2, <2>3 DEF SnapshotsInv, InstantsName
    <2>5. s \in cache /\ s.at = version[j] /\ clock < s.put + CacheLife
      BY DEF Cached, Of, Live
    <2> DEFINE prior == Of(k, Live(a.now))
    <2>6. s \in prior /\ \A o \in prior : o = s
      <3>1. s.put \in Nat /\ clock \in Nat /\ CacheLife \in Nat /\ a.now \in Nat
        BY <1>1, <2>2, <2>5, SnapshotsAssumption
           DEF SnapshotsInv, SnapshotsTypeOK, CachedSnapshot, Instants
      <3>2. a.now < s.put + CacheLife
        BY <2>2, <2>5, <3>1
      <3>3. s \in prior
        BY <2>3, <2>5, <3>2 DEF Of, Live
      <3>4. \A o \in prior : o \in cache /\ o.at = s.at
        BY <2>3, <2>5 DEF Of, Live
      <3>5. QED
        BY <1>1, <2>5, <3>3, <3>4 DEF SnapshotsInv, InstantsName
    <2>7. ASSUME NEW i \in Present(s.rows)
          PROVE  rows[i] # Absent
      <3> DEFINE kept == KeptRows(k, failed)
                 revision == Revision(i, failed, kept)
      <3>1. i \in Incidents /\ s.rows[i] # Absent
        BY <2>7 DEF Present
      <3>2. 0 < s.rows[i].revision /\ s.rows[i].revision <= published[i]
        BY <1>1, <2>5, <3>1 DEF SnapshotsInv, RowsArePublished
      <3>3. s.rows[i].revision \in Nat /\ published[i] \in Nat
        BY <1>1, <2>5, <3>1, SnapshotsAssumption
           DEF SnapshotsInv, SnapshotsTypeOK, CachedSnapshot, Rows, Row
      <3>4. (CHOOSE o \in prior : TRUE) = s
        BY <2>6
      <3>5. HazardOf[i] \in failed => kept[i] = s.rows[i]
        BY <2>6, <3>1, <3>4 DEF KeptRows
      <3>6. revision # 0
        BY <3>2, <3>3, <3>5 DEF Revision
      <3>7. rows[i] = Marked(a, i, revision)
        BY <3>1 DEF Acquired
      <3> HIDE DEF revision, rows, a
      <3>8. rows[i].revision = revision
        BY <3>6, <3>7 DEF Marked
      <3>9. QED
        BY <3>6, <3>8 DEF Absent
    <2>8. QED
      BY <2>2, <2>4, <2>7 DEF Present, Acquired
  <1>2. ASSUME SnapshotsInv, [SnapshotsNext]_snapshotVars
        PROVE  [\A k \in Keys : RowsStay(k)]_snapshotVars
    BY <1>1, <1>2
  <1>3. QED
    BY <1>2, SnapshotsInvHolds, PTL DEF SnapshotsSpec, RowsOutliveFailures

\* Since a current acquisition that ended alone, the rows others are compared with and
\* those of snapshots begun since date what is not as it was after it; none that was
\* begun before it is under way.
ChangesAreDated ==
    \A s \in cache : s.basis =>
        /\ DatedAfter(latest, s)
        /\ \A k \in Keys : inflight[k] # Unset =>
             /\ inflight[k].query \in Historical \/ s.put <= inflight[k].now
             /\ s.put <= inflight[k].now => DatedAfter(inflight[k].previous, s)
        /\ \A t \in cache : s.put <= t.at => DatedAfter(t.rows, s)

\* A snapshot was put before now.
PutBefore == \A s \in cache : s.put <= clock

\* What compares with rows that date the changes since s, and begins once s is put,
\* dates them too.
LEMMA MarkedDates ==
    ASSUME SnapshotsInv, NEW k \in Keys, inflight[k] # Unset, NEW failed \in SUBSET Hazards,
           NEW s \in cache, s.put <= inflight[k].now, DatedAfter(inflight[k].previous, s)
    PROVE  DatedAfter(Acquired(k, failed), s)
  <1> DEFINE a == inflight[k]
             rows == Acquired(k, failed)
  <1>1. s.at < a.now
    <2>1. s.at < s.put /\ s.at \in Nat /\ s.put \in Nat
      BY DEF SnapshotsInv, SnapshotsTypeOK, CachedSnapshot, Instants
    <2>2. a.now \in Nat
      BY DEF SnapshotsInv, SnapshotsTypeOK, Acquisition, Instants
    <2>3. QED
      BY <2>1, <2>2
  <1>2. ASSUME NEW i \in Incidents
        PROVE  rows[i] = Absent \/ rows[i].revision = s.rows[i].revision \/ rows[i].changed > s.at
    <2> DEFINE revision == Revision(i, failed, KeptRows(k, failed))
    <2>1. rows[i] = Marked(a, i, revision)
      BY DEF Acquired
    <2>2. \/ a.previous[i] = Absent
          \/ a.previous[i].revision = s.rows[i].revision
          \/ a.previous[i].changed > s.at
      BY DEF DatedAfter
    <2> HIDE DEF revision, a, rows
    <2>3. CASE revision = 0
      BY <2>1, <2>3 DEF Marked
    <2>4. CASE revision # 0 /\ a.previous[i].revision = revision
      BY <2>1, <2>2, <2>4 DEF Marked, Absent
    <2>5. CASE revision # 0 /\ a.previous[i].revision # revision
      BY <1>1, <2>1, <2>5 DEF Marked
    <2>6. QED
      BY <2>3, <2>4, <2>5
  <1>3. QED
    BY <1>2 DEF DatedAfter

\* The acquisition that ends dates what changed, and may be what the next are held to.
LEMMA FinishDates ==
    ASSUME SnapshotsInv, PutBefore, ChangesAreDated, NEW k \in Keys,
           NEW failed \in SUBSET Hazards, Finish(k, failed)
    PROVE  PutBefore' /\ ChangesAreDated'
  <1> DEFINE a == inflight[k]
             rows == Acquired(k, failed)
             shown == Handed(rows, a.query)
             new == [at |-> a.now, put |-> clock, rows |-> rows, basis |-> IsBasis(k)]
  <1>1. /\ a # Unset /\ a.now \in Instants /\ a.now < clock
        /\ cache' = Live(clock) \cup {new} /\ Live(clock) \subseteq cache
        /\ inflight'[k] = Unset
        /\ \A j \in Keys : j # k => inflight'[j] = inflight[j]
        /\ UNCHANGED clock
    BY FinishEffects
  <1>2. /\ new.at = a.now /\ new.put = clock /\ new.rows = rows /\ new.basis = IsBasis(k)
    OBVIOUS
  <1>3. latest' = IF a.query \in Historical THEN latest ELSE shown
    BY DEF Finish
  <1>4. \A i \in Incidents : shown[i] = rows[i] \/ shown[i] = Absent
    BY DEF Handed
  <1>5. IsBasis(k) =>
          /\ a.query \notin Historical
          /\ \A j \in Keys : j # k /\ inflight[j] # Unset => inflight[j].query \in Historical
    BY <1>1 DEF IsBasis
  <1>6. ASSUME NEW s \in cache, s.basis, s.put <= a.now PROVE DatedAfter(rows, s)
    BY <1>1, <1>6, MarkedDates DEF ChangesAreDated
  <1>7. clock \in Nat /\ \A s \in cache : s.at \in Nat /\ s.at < clock
    BY DEF SnapshotsInv, SnapshotsTypeOK, BegunBefore, Instants, CachedSnapshot
  <1>8. \A j \in Keys : inflight[j] # Unset => inflight[j].now \in Nat /\ inflight[j].now < clock
    BY DEF SnapshotsInv, SnapshotsTypeOK, BegunBefore, Instants, Acquisition
  <1> HIDE DEF new, rows, shown
  <1>9. PutBefore'
    BY <1>1, <1>2, <1>7 DEF PutBefore
  <1>10. ASSUME NEW s \in cache', s.basis
         PROVE  DatedAfter(latest', s)
    <2>1. CASE s \in cache
      <3>1. CASE a.query \in Historical
        BY <1>3, <1>10, <2>1, <3>1 DEF ChangesAreDated
      <3>2. CASE a.query \notin Historical
        <4>1. DatedAfter(rows, s)
          BY <1>1, <1>6, <1>10, <2>1, <3>2 DEF ChangesAreDated
        <4>2. QED
          BY <1>3, <1>4, <3>2, <4>1 DEF DatedAfter
      <3>3. QED
        BY <3>1, <3>2
    <2>2. CASE s = new
      BY <1>2, <1>3, <1>4, <1>5, <1>10, <2>2 DEF DatedAfter
    <2>3. QED
      BY <1>1, <2>1, <2>2
  <1>11. ASSUME NEW s \in cache', s.basis, NEW j \in Keys, inflight'[j] # Unset
         PROVE  /\ inflight'[j].query \in Historical \/ s.put <= inflight'[j].now
                /\ s.put <= inflight'[j].now => DatedAfter(inflight'[j].previous, s)
    <2>1. j # k /\ inflight'[j] = inflight[j] /\ inflight[j] # Unset
      BY <1>1, <1>11
    <2>2. CASE s \in cache
      BY <1>11, <2>1, <2>2 DEF ChangesAreDated
    <2>3. CASE s = new
      BY <1>2, <1>5, <1>7, <1>8, <1>11, <2>1, <2>3
    <2>4. QED
      BY <1>1, <2>2, <2>3
  <1>12. ASSUME NEW s \in cache', s.basis, NEW t \in cache', s.put <= t.at
         PROVE  DatedAfter(t.rows, s)
    <2>1. s \in cache
      BY <1>1, <1>2, <1>7, <1>12, <1>8
    <2>2. CASE t \in cache
      BY <1>12, <2>1, <2>2 DEF ChangesAreDated
    <2>3. CASE t = new
      BY <1>2, <1>6, <1>12, <2>1, <2>3
    <2>4. QED
      BY <1>1, <2>2, <2>3
  <1>13. QED
    BY <1>9, <1>10, <1>11, <1>12 DEF ChangesAreDated

\* What begins is compared with the latest rows, later than all that has ended.
LEMMA StartedDates ==
    ASSUME SnapshotsInv, PutBefore, ChangesAreDated, cache' \subseteq cache, UNCHANGED latest,
           NEW q \in Queries, Started(q)
    PROVE  PutBefore' /\ ChangesAreDated'
  <1>1. /\ clock' \in Instants /\ clock <= clock'
        /\ \A k \in Keys : inflight'[k] # Unset =>
             inflight'[k] = inflight[k] \/ inflight'[k] = Begun(q)
    BY StartedIsUnderWay DEF SnapshotsInv
  <1>2. Begun(q).now = clock /\ Begun(q).previous = latest
    BY DEF Begun
  <1>3. PutBefore'
    <2>1. clock \in Nat /\ clock' \in Nat /\ \A s \in cache : s.put \in Nat
      BY <1>1 DEF SnapshotsInv, SnapshotsTypeOK, CachedSnapshot, Instants
    <2>2. QED
      BY <1>1, <2>1 DEF PutBefore
  <1>4. QED
    BY <1>1, <1>2, <1>3 DEF PutBefore, ChangesAreDated

\* Every step dates the changes.
LEMMA ChangesStep ==
    SnapshotsInv /\ PutBefore /\ ChangesAreDated /\ [SnapshotsNext]_snapshotVars
      => PutBefore' /\ ChangesAreDated'
  <1> SUFFICES ASSUME SnapshotsInv, PutBefore, ChangesAreDated, [SnapshotsNext]_snapshotVars
               PROVE  PutBefore' /\ ChangesAreDated'
    OBVIOUS
  <1>1. CASE \E k \in Keys, failed \in SUBSET Hazards : Finish(k, failed)
    BY <1>1, FinishDates
  <1>2. CASE ~\E k \in Keys, failed \in SUBSET Hazards : Finish(k, failed)
    <2>1. UNCHANGED latest /\ cache' \subseteq cache
      <3>1. UNCHANGED latest /\ (UNCHANGED cache \/ cache' = Live(clock))
        BY <1>2 DEF SnapshotsNext, ServeCached, AwaitRefresh, NextPage, GiveUp,
                    AcquisitionFails, Publish, Tick, snapshotVars
      <3>2. QED
        BY <3>1 DEF Live
    <2>2. \/ \E q \in Queries : Started(q)
          \/ UNCHANGED <<inflight, clock>>
          \/ UNCHANGED inflight /\ Tick
          \/ \E k \in Keys : AcquisitionFails(k)
      <3>1. ASSUME NEW r \in Readers, NEW q \in Queries, ServeCached(r, q) \/ AwaitRefresh(r, q)
            PROVE  Started(q) \/ UNCHANGED <<inflight, clock>>
        BY <3>1 DEF ServeCached, AwaitRefresh
      <3>2. ASSUME NEW r \in Readers, NextPage(r) \/ GiveUp(r)
            PROVE  UNCHANGED <<inflight, clock>>
        BY <3>2 DEF NextPage, GiveUp
      <3>3. ASSUME \/ \E i \in Incidents : Publish(i)
                   \/ UNCHANGED snapshotVars
            PROVE  UNCHANGED <<inflight, clock>>
        BY <3>3 DEF Publish, snapshotVars
      <3>4. Tick => UNCHANGED inflight
        BY DEF Tick
      <3>5. QED
        BY <1>2, <3>1, <3>2, <3>3, <3>4 DEF SnapshotsNext
    <2>3. CASE \E q \in Queries : Started(q)
      BY <2>1, <2>3, StartedDates
    <2>4. CASE \/ UNCHANGED <<inflight, clock>>
               \/ UNCHANGED inflight /\ Tick
               \/ \E k \in Keys : AcquisitionFails(k)
      <3>1. \A j \in Keys : inflight'[j] = inflight[j] \/ inflight'[j] = Unset
        BY <2>4 DEF AcquisitionFails, SnapshotsInv, SnapshotsTypeOK
      <3>2. clock \in Nat /\ (clock' = clock \/ clock' = clock + 1)
        <4>1. clock' = clock \/ clock' = clock + 1
          BY <2>4 DEF Tick, AcquisitionFails
        <4>2. QED
          BY <4>1 DEF SnapshotsInv, SnapshotsTypeOK, Instants
      <3>3. \A s \in cache : s.put \in Nat
        BY DEF SnapshotsInv, SnapshotsTypeOK, CachedSnapshot, Instants
      <3>4. PutBefore'
        BY <2>1, <3>2, <3>3 DEF PutBefore
      <3>5. QED
        BY <2>1, <3>1, <3>4 DEF ChangesAreDated
    <2>5. QED
      BY <2>2, <2>3, <2>4
  <1>3. QED
    BY <1>1, <1>2

\* Once a current acquisition has ended with no other under way, no snapshot begun
\* since shows an incident whose evidence is another and dates it before that one.
THEOREM NoChangeIsEverMissed == SnapshotsSpec => []NoChangeIsMissed
  <1>1. SnapshotsInit => PutBefore /\ ChangesAreDated
    BY DEF SnapshotsInit, PutBefore, ChangesAreDated
  <1>2. ChangesAreDated => NoChangeIsMissed
    BY DEF ChangesAreDated, NoChangeIsMissed
  <1>3. QED
    BY <1>1, <1>2, ChangesStep, SnapshotsInvHolds, PTL DEF SnapshotsSpec
=============================================================================
