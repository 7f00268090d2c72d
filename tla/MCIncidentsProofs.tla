-------------------------- MODULE MCIncidentsProofs --------------------------
(***************************************************************************)
(* The incident side, put together in MCIncidents so that one run checks   *)
(* its parts: what is proved of a part holds of the whole.                 *)
(***************************************************************************)
EXTENDS MCIncidents, IncidentProofs, DiscoveryProofs

\* A world is one of those of the run.
Worlds == {"single", "overlap", "pump", "retrieval", "search", "assessing",
           "identities", "snapshots"}

\* A step of the whole is a step of the part whose world it is, and leaves the others
\* as they were.
LEMMA PartsMoveAlone ==
    ASSUME [AllNext]_allVars
    PROVE  /\ [Next]_vars /\ [CollectionNext]_collectionVars
           /\ [AssessmentNext]_assessmentVars /\ [RotationNext]_rotationVars
           /\ [IdentitiesNext]_identityVars /\ [SnapshotsNext]_snapshotVars
           /\ UNCHANGED world
  <1>1. CASE AllNext
    <2>1. Watching \/ Pumping \/ Rotating \/ Assessing \/ Identifying \/ Serving
      BY <1>1 DEF AllNext
    <2>2. UNCHANGED world
      BY <1>1 DEF AllNext
    <2>3. CASE Watching
      BY <2>2, <2>3 DEF Watching
    <2>4. CASE Pumping
      BY <2>2, <2>4 DEF Pumping
    <2>5. CASE Rotating
      BY <2>2, <2>5 DEF Rotating, RotationNext
    <2>6. CASE Assessing
      BY <2>2, <2>6 DEF Assessing
    <2>7. CASE Identifying
      BY <2>2, <2>7 DEF Identifying
    <2>8. CASE Serving
      BY <2>2, <2>8 DEF Serving
    <2>9. QED
      BY <2>1, <2>3, <2>4, <2>5, <2>6, <2>7, <2>8
  <1>2. CASE UNCHANGED allVars
    BY <1>2 DEF allVars
  <1>3. QED
    BY <1>1, <1>2

\* The whole implements the specification of every part: putting them side by side in
\* one run neither takes a behaviour from the theorems about a part nor adds one they
\* do not cover.
THEOREM WholeImplementsParts ==
    AllSpec => /\ Spec /\ CollectionSpec /\ AssessmentSpec
               /\ RotationSpec /\ IdentitiesSpec /\ SnapshotsSpec
  <1>1. AllInit => /\ Init /\ CollectionInit /\ AssessmentInit
                   /\ RotationInit /\ IdentitiesInit /\ SnapshotsInit
    BY DEF AllInit
  <1>2. [AllNext]_allVars => /\ [Next]_vars /\ [CollectionNext]_collectionVars
                             /\ [AssessmentNext]_assessmentVars /\ [RotationNext]_rotationVars
                             /\ [IdentitiesNext]_identityVars /\ [SnapshotsNext]_snapshotVars
    BY PartsMoveAlone
  <1>3. QED
    BY <1>1, <1>2, PTL
       DEF AllSpec, Spec, CollectionSpec, AssessmentSpec, RotationSpec, IdentitiesSpec, SnapshotsSpec

\* In every world what moves keeps its types (TypesOK).
THEOREM WholeIsTyped == AllSpec => []TypesOK
  <1>1. AllInit => world \in Worlds
    BY DEF AllInit, Worlds
  <1>2. world \in Worlds /\ [AllNext]_allVars => (world \in Worlds)'
    BY PartsMoveAlone
  <1>3. world \in Worlds /\ TypeOK /\ CollectionTypeOK /\ AssessmentTypeOK /\ RotationTypeOK
          /\ IdentitiesTypeOK /\ SnapshotsTypeOK => TypesOK
    BY Zenon DEF TypesOK, Worlds
  <1>4. QED
    BY <1>1, <1>2, <1>3, WholeImplementsParts, TypeCorrect, CollectionIsTyped, AssessmentsAreTyped,
       RotationIsTyped, IdentitiesTypeCorrect, SnapshotsTypeCorrect, PTL DEF AllSpec
=============================================================================
