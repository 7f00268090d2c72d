----------------------------- MODULE AtLeastOnce -----------------------------
(***************************************************************************)
(* What a durable work queue promises, without workers, leases or clocks.  *)
(* A submitted job is tried at most MaxTries times and is settled at most  *)
(* once: "done" only if its work was performed, "dead" only after a try.   *)
(* One step may move several jobs, because one claim of the real queue     *)
(* both dead-letters exhausted jobs and leases another one.                *)
(***************************************************************************)
EXTENDS Naturals

CONSTANTS
    Jobs,       \* identities a job can have
    MaxTries    \* attempts a job is given

VARIABLES
    phase,      \* phase[j]: "absent", "pending", "done" or "dead"
    tries,      \* tries[j]: attempts started
    performed   \* jobs whose work has run to its end at least once

vars == <<phase, tries, performed>>

Phases == {"absent", "pending", "done", "dead"}

Init ==
    /\ phase = [j \in Jobs |-> "absent"]
    /\ tries = [j \in Jobs |-> 0]
    /\ performed = {}

Stays(j) == phase'[j] = phase[j] /\ tries'[j] = tries[j]

Submits(j) ==
    /\ phase[j] = "absent"
    /\ phase'[j] = "pending"
    /\ tries'[j] = tries[j]

Tries(j) ==
    /\ phase[j] = "pending"
    /\ tries[j] < MaxTries
    /\ phase'[j] = "pending"
    /\ tries'[j] = tries[j] + 1

Settles(j) ==
    /\ phase[j] = "pending"
    /\ tries[j] > 0
    /\ phase'[j] \in {"done", "dead"}
    /\ phase'[j] = "done" => j \in performed
    /\ tries'[j] = tries[j]

\* Work may end long after its job was settled by somebody else.
Performs == performed' \subseteq performed \cup {j \in Jobs : tries[j] > 0}

Next ==
    /\ performed \subseteq performed'
    /\ Performs
    /\ \A j \in Jobs : Stays(j) \/ Submits(j) \/ Tries(j) \/ Settles(j)

Spec == Init /\ [][Next]_vars
=============================================================================
