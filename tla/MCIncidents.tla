----------------------------- MODULE MCIncidents -----------------------------
(* The incident side of the system, on small instances side by side in one    *)
(* run; world says which of them moves.                                       *)
(*   single, overlap  IncidentWatches: one worker and all that providers can  *)
(*                    answer, or two workers                                  *)
(*   pump             CollectionPump: two scans, two users                    *)
(*   retrieval, search  the two halves of CollectionRotation                  *)
(*   assessing        Reassessments: one finished scan, three assessments     *)
(*   identities       IncidentIdentities: two observations over three days    *)
(*   snapshots        IncidentSnapshots: two incidents in five views         *)
EXTENDS IncidentWatches, CollectionPump, Reassessments, CollectionRotation,
        IncidentIdentities, IncidentSnapshots, TLC

CONSTANTS w1, w2, v1, v2, c1, c2, r1, r2, r3, event, A, B

VARIABLE world

allVars == <<world, vars, collectionVars, assessmentVars, rotationVars, identityVars,
             snapshotVars>>

-----------------------------------------------------------------------------
MCAnswers == [successful : BOOLEAN, retryable : BOOLEAN, events : SUBSET {event}]
PlainAnswers ==
    {a \in MCAnswers : a.successful # a.retryable /\ (a.events # {} => a.successful)}

\* Retrievals of every class, one of them found by both sources.
MCClass == <<3, 3, 2, 1, 0>>
MCFrom == <<{A}, {B}, {A, B}, {B}, {A}>>
MCBefore == [s \in {A, B} |-> IF s = A THEN 1 ELSE 2]

\* The recent view over thirty days, of all countries or of one, and the ongoing view
\* share an acquisition; the recent view over a week and the historical view do not.
MCQueries == {[view |-> "recent", country |-> Unset], [view |-> "recent", country |-> "x"],
              [view |-> "ongoing", country |-> Unset], [view |-> "week", country |-> Unset],
              [view |-> "historical", country |-> Unset]}
MCHistorical == {query \in MCQueries : query.view = "historical"}
MCKeyOf == [query \in MCQueries |->
    IF query.view \in {"recent", "ongoing"} THEN "month" ELSE query.view]
MCShown == [query \in MCQueries |->
    IF query.country # Unset THEN {2} ELSE IF query.view = "ongoing" THEN {1} ELSE {1, 2}]
MCHazardOf == <<"quake", "flood">>

-----------------------------------------------------------------------------
WorkerSymmetry == Permutations({w1, w2})

\* World single: one worker at most is anything but idle.
OneWorks == \E p \in Workers : worker[p] = At("idle") /\ worker'[p] = At("idle")

\* Bounds of world overlap: what falls due at the last instant stays due, and
\* providers are up or down.
LastInstantStaysOut == <<v1, 3>> \notin due
PlainlyAnswered == \A p \in Workers : worker'[p].current \in PlainAnswers \cup {NoObservation}

\* Bound of world snapshots: only the first incident is revised.
SecondIsPublishedOnce == published'[2] <= 1

AllInit ==
    /\ world \in {"single", "overlap", "pump", "retrieval", "search", "assessing",
                  "identities", "snapshots"}
    /\ Init /\ CollectionInit /\ AssessmentInit
    /\ RotationInit /\ IdentitiesInit /\ SnapshotsInit

Watching ==
    /\ world \in {"single", "overlap"} /\ Next
    /\ \/ world = "single" /\ OneWorks
       \/ world = "overlap" /\ LastInstantStaysOut /\ PlainlyAnswered
    /\ UNCHANGED <<collectionVars, rotationVars, assessmentVars, identityVars, snapshotVars>>

Pumping ==
    /\ world = "pump" /\ CollectionNext
    /\ UNCHANGED <<vars, rotationVars, assessmentVars, identityVars, snapshotVars>>

Rotating ==
    /\ \/ world = "retrieval" /\ RetrievalNext
       \/ world = "search" /\ SearchNext
    /\ UNCHANGED <<vars, collectionVars, assessmentVars, identityVars, snapshotVars>>

Assessing ==
    /\ world = "assessing" /\ AssessmentNext
    /\ UNCHANGED <<vars, collectionVars, rotationVars, identityVars, snapshotVars>>

Identifying ==
    /\ world = "identities" /\ IdentitiesNext
    /\ UNCHANGED <<vars, collectionVars, rotationVars, assessmentVars, snapshotVars>>

Serving ==
    /\ world = "snapshots" /\ SnapshotsNext
    /\ SecondIsPublishedOnce
    /\ UNCHANGED <<vars, collectionVars, rotationVars, assessmentVars, identityVars>>

AllNext ==
    /\ UNCHANGED world
    /\ Watching \/ Pumping \/ Rotating \/ Assessing \/ Identifying \/ Serving

AllSpec == AllInit /\ [][AllNext]_allVars

-----------------------------------------------------------------------------
\* Every variable of what moves has its type; the others stay as they were.
TypesOK ==
    CASE world \in {"single", "overlap"} -> TypeOK
      [] world = "pump" -> CollectionTypeOK
      [] world \in {"retrieval", "search"} -> RotationTypeOK
      [] world = "assessing" -> AssessmentTypeOK
      [] world = "identities" -> IdentitiesTypeOK
      [] world = "snapshots" -> SnapshotsTypeOK
=============================================================================
