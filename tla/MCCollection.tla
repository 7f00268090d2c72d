--------------------------- MODULE MCCollection ----------------------------
(* A small instance of CollectionJournal; world says which of its behaviours are *)
(* taken, so that a run is over soon.                                            *)
(*   graph   two viewers, whose searches lead to each other and to two            *)
(*           generations of an article; one worker, one pass, time stands still   *)
(*           and only the page of the first may be a capture; final views are     *)
(*           made meanwhile                                                       *)
(*   leases  one search of two pages, which find an article each, of one          *)
(*           publisher; two workers, one pass, time                               *)
(*   passes  two viewers of one search of an index whose leads are many, in two   *)
(*           passes; two workers, time                                            *)
(*   views   the same viewers, whose search has a second generation; one worker,  *)
(*           two passes; views of one of them alone, and final ones of both, are  *)
(*           made while the scans go on and are continued                         *)
EXTENDS CollectionJournal, TLC

CONSTANTS first, second, deep, later, old, new, v1, v2, v3, v4, h1, h2

MCSource == (first :> "index" @@ second :> "index" @@ deep :> "archive" @@ later :> "archive")
MCUrl == (old :> "url" @@ new :> "url")
MCHost == (old :> "publisher" @@ new :> "publisher")
MCPlans == (v1 :> {{first}} @@ v2 :> {{second}}
            @@ v3 :> {{deep}, {later}} @@ v4 :> {{deep}, {later}})
MCFinds == (first :> {old, new} @@ second :> {new} @@ deep :> {old} @@ later :> {})
MCOffspring == (first :> {second} @@ second :> {} @@ deep :> {} @@ later :> {})
MCFollowups == (old :> {second} @@ new :> {second})

VARIABLE world

Known(scans) == \A v \in Scans \ scans : scan'[v].status = "unknown"
FinalViews == projection' # Idle => projection'.status = "completed"

InGraph == /\ clock' = clock /\ cursor' = cursor /\ (holder'[h1] = Idle \/ holder'[h2] = Idle)
           /\ pass'.opened <= 1 /\ Known({v1, v2}) /\ <<second, second>> \notin evidence'
           /\ \A a \in Articles : work'[a].deferrals = 0
           /\ FinalViews

InLeases == /\ pass'.opened <= 1 /\ Known({v1}) /\ (pass.active => pass'.active)
            /\ work'[second].state = "absent" /\ <<first, first>> \notin evidence'
            /\ projection' = Idle

InPasses == /\ clock' <= 1 /\ Known({v3, v4}) /\ work'[later].state = "absent"
            /\ projection' = Idle /\ \A a \in Articles : work'[a].deferrals = 0

InViews == /\ clock' = clock /\ Known({v3, v4}) /\ (holder'[h1] = Idle \/ holder'[h2] = Idle)
           /\ links' = {} /\ evidence' = {} /\ cursor' = cursor
           /\ \A s \in Searches : work'[s].due = 0 /\ work'[s].state \notin {"refused", "saturated"}
           /\ work'[later].state # "failed"
           /\ (FinalViews \/ Known({v3}) \/ Known({v4}))

MCInit == world \in {"graph", "leases", "passes", "views"} /\ Init
MCNext == /\ Next
          /\ \/ world = "graph" /\ InGraph
             \/ world = "leases" /\ InLeases
             \/ world = "passes" /\ InPasses
             \/ world = "views" /\ InViews
          /\ UNCHANGED world
MCSpec == MCInit /\ [][MCNext]_<<world, vars>>

Symmetry == Permutations({v3, v4}) \cup Permutations(Holders)
=============================================================================
