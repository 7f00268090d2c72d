------------------------ MODULE MCIncidentSnapshots ------------------------
(* A small instance of IncidentSnapshots in which readers ask for two current *)
(* views: what happened lately, and what is still going on.                   *)
EXTENDS IncidentSnapshots

MCQueries == {[view |-> "recent", country |-> Unset], [view |-> "ongoing", country |-> Unset]}
MCHazardOf == [i \in Incidents |-> "quake"]
MCShown == [query \in MCQueries |-> IF query.view = "recent" THEN Incidents ELSE {2}]
MCKeyOf == [query \in MCQueries |-> "current"]
MCHistorical == {}
============================================================================
