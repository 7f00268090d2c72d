----------------------------- MODULE MCLiveness ------------------------------
(* What must eventually happen, on small instances side by side in one run:   *)
(*   ground     preparations of one request for three targets, a queue of two  *)
(*   jobs       one job due at once and one due later, one worker              *)
(*   pump       two scans, one user, at most one mishap                        *)
(*   assessing  one finished scan, one user, two assessments, two mishaps     *)
(* world says which of them moves, and the fairness of the others is vacuous.  *)
EXTENDS GroundJobs, Sequences, TLC

CONSTANTS early, late, w1, v1, v2, r1, r2, None

VARIABLES
    world,
    instant, queue, servant, performed,                                  \* jobs
    scan, todo, active, up, lifecycle, pump, restart, dirty, full, projector,
    requests, mishaps, gaveUp, untold,                                     \* pump
    store, of, tasks, sharing, failures, lock, user, handed, faults      \* assessing

Queue == INSTANCE IngestQueue WITH
    Jobs <- {early, late}, Workers <- {w1}, ScheduledAt <- (early :> 0 @@ late :> 1),
    MaxAttempts <- 2, Lease <- 1, MaxRetryDelay <- 1, MaxTime <- 2,
    clock <- instant, jobs <- queue, worker <- servant

Pump == INSTANCE CollectionPump WITH
    Scans <- {v1, v2}, Users <- {w1}, Works <- 1, MaxRequests <- 2, MaxMishaps <- 1

Assess == INSTANCE Reassessments WITH
    Originals <- {v1}, Assessments <- {r1, r2}, Browsers <- {w1}, MaxTasks <- 2,
    MaxFailures <- 1, MaxFaults <- 2

queueVars == <<instant, queue, servant, performed>>
pumpVars == <<scan, todo, active, up, lifecycle, pump, restart, dirty, full, projector,
              requests, mishaps, gaveUp, untold>>
assessVars == <<store, of, tasks, sharing, failures, lock, user, handed, faults>>
all == <<world, vars, queueVars, pumpVars, assessVars>>

AllInit ==
    /\ world \in {"ground", "jobs", "pump", "assessing"}
    /\ Init /\ Queue!Init /\ Pump!CollectionInit /\ Assess!AssessmentInit

AllNext ==
    /\ UNCHANGED world
    /\ \/ world = "ground" /\ Next /\ UNCHANGED <<queueVars, pumpVars, assessVars>>
       \/ world = "jobs" /\ Queue!Next /\ UNCHANGED <<vars, pumpVars, assessVars>>
       \/ world = "pump" /\ Pump!CollectionNext /\ UNCHANGED <<vars, queueVars, assessVars>>
       \/ world = "assessing" /\ Assess!AssessmentNext /\ UNCHANGED <<vars, queueVars, pumpVars>>

Ground(act) == world = "ground" /\ act /\ UNCHANGED <<queueVars, pumpVars, assessVars>>
Jobbing(act) == world = "jobs" /\ act /\ UNCHANGED <<vars, pumpVars, assessVars>>
Pumping(act) == world = "pump" /\ act /\ UNCHANGED <<vars, queueVars, assessVars>>
Assessing(act) == world = "assessing" /\ act /\ UNCHANGED <<vars, queueVars, pumpVars>>

\* The fairness of each module.  Only one of them moves in a behaviour, so that an
\* action of each can share one condition.
moving == <<vars, queueVars, pumpVars, assessVars>>

Fair ==
    /\ SF_moving(\/ Ground(\E p \in Workers : ReadClock(p)) \/ Jobbing(Queue!ReadClock(w1))
                 \/ Pumping(Pump!AskLast) \/ Assessing(Assess!EnterAsk(w1)))
    /\ SF_moving(\/ Ground(\E p \in Workers : BeginClaim(p)) \/ Jobbing(Queue!Claim(w1))
                 \/ Pumping(Pump!Enter) \/ Assessing(Assess!EnterOpen(w1)))
    /\ SF_moving(\/ Ground(\E p \in Workers, j \in Jobs : Take(p, j))
                 \/ Pumping(Pump!Suspend) \/ Assessing(Assess!Open(w1, r1)))
    /\ SF_moving(Assessing(Assess!Open(w1, r2)))
    /\ WF_moving(\/ Ground(Tick) \/ Jobbing(Queue!Tick) \/ Pumping(Pump!PumpNext)
                 \/ Assessing(Assess!UserNext(w1)))
    /\ WF_moving(\/ Ground(\E p \in Workers : Restart(p)) \/ Jobbing(Queue!Restart(w1))
                 \/ Pumping(Pump!ProjectorNext) \/ Assessing(Assess!TaskNext(r1)))
    /\ WF_moving(\/ Ground(\E p \in Workers : TakeNothing(p))
                 \/ Pumping(Pump!Recover) \/ Assessing(Assess!TaskNext(r2)))
    /\ WF_moving(\/ Ground(\E p \in Workers : Prepared(p) \/ PreparationRaises(p) \/ LeaseLost(p))
                 \/ Jobbing(\E x \in Queue!Results \ {"none"} : Queue!EndWork(w1, x))
                 \/ Pumping(Pump!Release(w1)))
    /\ WF_moving(\/ Ground(\E p \in Workers : Report(p))
                 \/ Jobbing(Queue!Complete(w1) \/ Queue!Fail(w1) \/ Queue!StaleReport(w1)))

AllSpec == AllInit /\ [][AllNext]_all /\ Fair

\* Every job of either queue ends in a terminal state.
EveryJobEnds == EveryJobIsSettled /\ Queue!EveryJobIsSettled

\* Every scan comes to rest, and every assessment of one ends.
EveryScanEnds == Pump!EveryScanEnds
EveryAssessmentEnds == Assess!EveryAssessmentEnds
==============================================================================
