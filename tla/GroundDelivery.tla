---------------------------- MODULE GroundDelivery ----------------------------
(***************************************************************************)
(* What the queue of ground imagery preparations promises: GroundJobs with *)
(* a memory of the preparations that have run to their end, which neither  *)
(* the table nor a worker that has died keeps.                             *)
(***************************************************************************)
EXTENDS GroundJobs

VARIABLE prepared   \* jobs whose preparation has returned at least once

deliveryVars == <<vars, prepared>>

\* The preparation of p returns in this step.
Returns(p) == worker[p].pc = "working" /\ worker'[p].pc = "completing"

DeliveryInit == Init /\ prepared = {}

DeliveryNext ==
    /\ Next
    /\ prepared' = prepared \cup {worker[p].job : p \in {q \in Workers : Returns(q)}}

DeliverySpec == DeliveryInit /\ [][DeliveryNext]_deliveryVars

PhaseOf(status) ==
    CASE status = "absent" -> "absent"
      [] status \in Pending -> "pending"
      [] status = "succeeded" -> "done"
      [] status = "failed" -> "dead"

Delivery == INSTANCE AtLeastOnce WITH
    MaxTries  <- MaxAttempts,
    phase     <- [j \in Jobs |-> PhaseOf(jobs[j].status)],
    tries     <- [j \in Jobs |-> jobs[j].attempt],
    performed <- prepared

\* "PostgreSQL-backed leased preparation jobs with fencing tokens, bounded
\* retry/backoff" (docs/ground-imagery.md:58): an admitted job is tried a bounded
\* number of times and settled once, and succeeds only if its preparation returned.
ImplementsAtLeastOnce == Delivery!Spec
===============================================================================
