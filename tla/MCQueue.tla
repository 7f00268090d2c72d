------------------------------ MODULE MCQueue ------------------------------
(* Small instances of the stores that several actors share, side by side in   *)
(* one run; world says which of them moves.                                   *)
(*   jobs       IngestQueue: one job due at once and one later, two workers   *)
(*   budget     ProviderBudget: three calls, and deployments of two limits    *)
(*   talk       ConversationMemory: three turns, time stands still            *)
(*   ageing     ConversationMemory: two turns, and records that expire        *)
(*   publishing FieldReports: publications of shared pictures, crashes, time  *)
(*   reviewing  FieldReports: one report, two reviewers                       *)
EXTENDS IngestQueue, ProviderBudget, ConversationMemory, FieldReports, TLC

CONSTANTS early, late, turn1, turn2, turn3, reportA, reportB, reportC, pictureA, pictureB

MCScheduledAt == (early :> 0 @@ late :> 1)
MCPictures == (reportA :> {pictureA} @@ reportB :> {pictureA, pictureB}
               @@ reportC :> {pictureB})
MCBatches == {{reportA}, {reportB}, {reportB, reportC}}

VARIABLE world

allVars == <<world, vars, budgetVars, talkVars, reportVars>>

AllInit ==
    /\ world \in {"jobs", "budget", "talk", "ageing", "publishing", "reviewing"}
    /\ Init /\ BudgetInit /\ TalkInit /\ ReportsInit

Talking ==
    /\ TalkNext
    /\ \/ world = "talk" /\ moment' = moment
       \/ world = "ageing" /\ \E t \in {turn2, turn3} : turn'[t] = TurnAt("new")
    /\ UNCHANGED <<vars, budgetVars, reportVars>>

Reporting ==
    /\ ReportsNext
    /\ \/ world = "publishing" /\ reviews' = reviews /\ reviewer' = reviewer
       \/ world = "reviewing" /\ today' = today /\ upload'.batch \subseteq {reportA}
    /\ UNCHANGED <<vars, budgetVars, talkVars>>

\* All calls are over, or all turns of a conversation that has been deleted.
Rests ==
    \/ world = "budget" /\ ~ENABLED BudgetNext
    \/ /\ row.state = "deleted"
       /\ \A t \in Turns : \/ turn[t].pc = "over"
                          \/ (world = "ageing" /\ turn[t].pc = "new")

AllNext ==
    \/ world = "jobs" /\ Next /\ UNCHANGED <<world, budgetVars, talkVars, reportVars>>
    \/ world = "budget" /\ BudgetNext /\ UNCHANGED <<world, vars, talkVars, reportVars>>
    \/ Talking /\ UNCHANGED world
    \/ Reporting /\ UNCHANGED world
    \/ Rests /\ UNCHANGED allVars

AllSpec == AllInit /\ [][AllNext]_allVars

Symmetry == Permutations(Workers) \cup Permutations({turn2, turn3})
            \cup Permutations(Versions) \cup Permutations(Reviewers)

============================================================================
