----------------------------- MODULE MCGroundJobs -----------------------------
(* A small instance of GroundJobs in two worlds, each of which bounds what may *)
(* happen in another way.                                                      *)
(*   leases  two jobs, from one client; two workers, and time for leases to    *)
(*           expire                                                            *)
(*   gate    two clients race three jobs into a queue of two; one worker       *)
(* Nothing tells one worker, or one of the first two targets, from another.    *)
EXTENDS GroundJobs, TLC

CONSTANT v   \* the target of the third job

VARIABLE world

Known == {j \in Jobs : \/ jobs[j].status # "absent"
                       \/ \E c \in Clients : admission[c].job = j}
Only == CHOOSE c \in Clients : TRUE
Active(x) == worker[x].pc # "idle"

InBounds ==
    \/ /\ world = "leases" /\ \A j \in Known : j[2] # v
       /\ \A c \in Clients \ {Only} : admission[c].job = NoJob
    \/ /\ world = "gate" /\ clock <= 1
       /\ Cardinality({x \in Workers : Active(x)}) <= 1

AllInit == world \in {"leases", "gate"} /\ Init

AllNext == Next /\ UNCHANGED world /\ InBounds'

AllSpec == AllInit /\ [][AllNext]_<<world, vars>>

Symmetry == Permutations(Workers) \cup Permutations(Targets \ {v})
===============================================================================
