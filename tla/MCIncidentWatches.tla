-------------------------- MODULE MCIncidentWatches --------------------------
(* Small instances of IncidentWatches.                                      *)
EXTENDS IncidentWatches, TLC

\* Answers of a single worker: everything the providers can say.
AllAnswers == Observations

\* Answers of overlapping workers: every event set found, or a total outage.
PlainAnswers ==
    {[successful |-> TRUE, retryable |-> FALSE, events |-> found] :
        found \in SUBSET Events}
    \cup {[successful |-> FALSE, retryable |-> TRUE, events |-> {}]}

WorkerSymmetry == Permutations(Workers)
=============================================================================
