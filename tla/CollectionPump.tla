--------------------------- MODULE CollectionPump ---------------------------
(***************************************************************************)
(* ResumableDiscovery: users start and continue scans, one pump at a time   *)
(* collects for all scans of the open pass, a projector beside it saves     *)
(* their views, and the process may die and recover at any point.           *)
(*                                                                         *)
(* Control changes hands at each await.  A transaction of the journal is    *)
(* one step; of the works of CollectionJournal only their number is kept.   *)
(***************************************************************************)
EXTENDS Naturals, FiniteSets

CONSTANTS
    Scans, Users,
    Works,                  \* how many works a scan is planned with
    MaxRequests, MaxMishaps \* bounds on what users ask for and on what goes wrong

ASSUME PumpAssumption ==
    /\ Works \in Nat /\ MaxRequests \in Nat /\ MaxMishaps \in Nat
    /\ Users \cap {"free", "pump"} = {}

VARIABLES
    \* the journal, which outlives the process
    scan,       \* view last saved, membership of the pass, stopped, view owed
    todo,       \* todo[v]: the works of the scan that are left
    active,     \* the pass is open
    \* the process
    up,
    lifecycle,  \* _lifecycle_lock: "free", "pump" or the user who holds it
    pump,       \* _pump_task: where it is, whether it handles an error, the scans
                \* it is to finish and those it has yet to view
    restart,    \* _restart_requested
    dirty,      \* _dirty
    full,       \* _capacity_reached
    projector,  \* _project_periodically: where it is, what it has read
    \* bounds and what properties ask about
    requests, mishaps,
    gaveUp,     \* an error handler could not save what it had to save
    untold      \* the scans whose last views a failure or a death cut short

journal == <<scan, todo, active>>
process == <<up, lifecycle, pump, restart, dirty, full, projector>>
ghosts == <<requests, mishaps, gaveUp, untold>>
collectionVars == <<journal, process, ghosts>>

Views == {"unknown", "running", "completed", "incomplete"}
Places == {"none", "collect", "ask", "await", "close", "view", "full", "broken",
           "drain", "done"}
Fresh == [at |-> "collect", handling |-> FALSE, finishing |-> {}, left |-> {}]
NoPump == [Fresh EXCEPT !.at = "none"]
Off == [at |-> "off", left |-> {}, saving |-> {}, view |-> "unknown"]

ScanRecord == [view : Views, member : BOOLEAN, stopped : BOOLEAN, owed : BOOLEAN]
PumpState ==
    [at : Places, handling : BOOLEAN, finishing : SUBSET Scans, left : SUBSET Scans]
ProjectorState ==
    [at : {"off", "wait", "list"}, left : SUBSET Scans, saving : SUBSET Scans, view : Views]

CollectionTypeOK ==
    /\ scan \in [Scans -> ScanRecord]
    /\ todo \in [Scans -> 0 .. Works]
    /\ active \in BOOLEAN /\ up \in BOOLEAN /\ restart \in BOOLEAN
    /\ dirty \in BOOLEAN /\ full \in BOOLEAN /\ gaveUp \in BOOLEAN
    /\ lifecycle \in {"free", "pump"} \cup Users
    /\ pump \in PumpState /\ projector \in ProjectorState
    /\ requests \in 0 .. MaxRequests /\ mishaps \in 0 .. MaxMishaps
    /\ untold \subseteq Scans

CollectionInit ==
    /\ scan = [v \in Scans |-> [view |-> "unknown", member |-> FALSE,
                                stopped |-> FALSE, owed |-> FALSE]]
    /\ todo = [v \in Scans |-> 0]
    /\ active = FALSE
    /\ up = TRUE /\ lifecycle = "free"
    /\ pump = NoPump
    /\ restart = FALSE /\ dirty = FALSE /\ full = FALSE
    /\ projector = Off
    /\ requests = 0 /\ mishaps = 0
    /\ gaveUp = FALSE /\ untold = {}

-----------------------------------------------------------------------------
(* The journal *)

Active(v) == active /\ scan[v].member
ActiveScans == {v \in Scans : Active(v) \/ scan[v].owed}

\* attach, continue_scan: the scan joins the open pass or opens one.
Accepted(v, works) ==
    /\ scan' = [u \in Scans |->
            IF u = v THEN [view |-> "running", member |-> TRUE, stopped |-> FALSE,
                           owed |-> scan[u].owed]
            ELSE [scan[u] EXCEPT !.member = @ /\ active]]
    /\ todo' = [todo EXCEPT ![v] = works]
    /\ active' = TRUE

\* Faulty variant: a view is not marked as owed.
ClosedUnowed == scan

\* _finish_pass, for the scans of the open pass.
Closed == [v \in Scans |-> [scan[v] EXCEPT !.owed = @ \/ Active(v)]]
Suspended(named) ==
    [v \in Scans |-> IF Active(v) \/ v \in named \/ scan[v].stopped
                     THEN [scan[v] EXCEPT !.stopped = TRUE, !.owed = FALSE] ELSE scan[v]]

\* The view a snapshot leads to, and its save: a final view pays what is owed.
ViewOf(v) == IF Active(v) THEN "running"
             ELSE IF todo[v] > 0 \/ scan[v].stopped THEN "incomplete" ELSE "completed"
Saved(v, view) ==
    [scan EXCEPT ![v].view = view, ![v].owed = @ /\ view = "running"]

-----------------------------------------------------------------------------
(* Requests *)

PumpRuns == pump.at \notin {"none", "done"}

\* _kick: a pump that is gone is replaced, one that runs is asked for another round.
Kick ==
    /\ dirty' = TRUE
    /\ IF PumpRuns
       THEN restart' = TRUE /\ UNCHANGED <<pump, projector, full>>
       ELSE /\ pump' = Fresh
            /\ projector' = [Off EXCEPT !.at = "wait"]
            /\ restart' = FALSE /\ full' = FALSE

\* start and continue_collection up to the commit of their transaction.
Request(c, v) ==
    /\ up /\ lifecycle = "free" /\ requests < MaxRequests
    /\ lifecycle' = c
    /\ \E works \in todo[v] .. Works : Accepted(v, works)
    /\ requests' = requests + 1
    /\ untold' = untold \ {v}
    /\ UNCHANGED <<up, pump, restart, dirty, full, projector, mishaps, gaveUp>>

Release(c) ==
    /\ up /\ lifecycle = c
    /\ lifecycle' = "free"
    /\ Kick
    /\ UNCHANGED <<journal, up, ghosts>>

-----------------------------------------------------------------------------
(* The pump *)

\* One claim of a worker and its report.
Collect(v) ==
    /\ up /\ pump.at = "collect" /\ Active(v) /\ todo[v] > 0 /\ ~full
    /\ todo' = [todo EXCEPT ![v] = @ - 1]
    /\ dirty' = TRUE
    /\ UNCHANGED <<scan, active, up, lifecycle, pump, restart, full, projector,
                   requests, mishaps, gaveUp, untold>>

\* All workers have returned: nothing was left that they might claim.
Collected ==
    /\ up /\ pump.at = "collect"
    /\ pump' = [pump EXCEPT !.at = IF full THEN "full" ELSE "ask"]
    /\ UNCHANGED <<journal, up, lifecycle, restart, dirty, full, projector, ghosts>>

\* next_retry, none once the work or the allowance is used up.  A later work is
\* waited for while the pass has time.
AskAgain ==
    /\ up /\ pump.at = "ask"
    /\ \E v \in Scans : Active(v) /\ todo[v] > 0
    /\ pump' = [pump EXCEPT !.at = "collect"]
    /\ UNCHANGED <<journal, up, lifecycle, restart, dirty, full, projector,
                   requests, mishaps, gaveUp, untold>>

AskLast ==
    /\ up /\ pump.at = "ask"
    /\ pump' = [pump EXCEPT !.at = "await"]
    /\ UNCHANGED <<journal, up, lifecycle, restart, dirty, full, projector,
                   requests, mishaps, gaveUp, untold>>

\* The lock is taken and the scans to be finished are read.
Enter ==
    /\ up /\ pump.at = "await" /\ lifecycle = "free"
    /\ lifecycle' = "pump"
    /\ restart' = (restart /\ ~pump.handling)
    /\ pump' = [pump EXCEPT !.at = "close", !.finishing = ActiveScans, !.left = ActiveScans]
    /\ UNCHANGED <<journal, up, dirty, full, projector, ghosts>>

FinishPass ==
    /\ up /\ pump.at = "close"
    /\ scan' = Closed
    /\ active' = FALSE
    /\ pump' = [pump EXCEPT !.at = "view"]
    /\ UNCHANGED <<todo, up, lifecycle, restart, dirty, full, projector, ghosts>>

\* Faulty variant: the view is made without the projection lock.
ViewWithoutLock(v) ==
    /\ up /\ pump.at = "view" /\ v \in pump.left
    /\ scan' = Saved(v, ViewOf(v))
    /\ pump' = [pump EXCEPT !.left = @ \ {v}]
    /\ UNCHANGED <<todo, active, up, lifecycle, restart, dirty, full, projector, ghosts>>

\* A final view is made and saved under the projection lock.
View(v) ==
    /\ up /\ pump.at = "view" /\ v \in pump.left
    /\ projector.saving = {}
    /\ scan' = Saved(v, ViewOf(v))
    /\ pump' = [pump EXCEPT !.left = @ \ {v}]
    /\ UNCHANGED <<todo, active, up, lifecycle, restart, dirty, full, projector, ghosts>>

\* All is viewed: what was asked for before the lock counts as handled.
Leave ==
    /\ up /\ pump.at = "view" /\ pump.left = {}
    /\ lifecycle' = "free"
    /\ restart' = FALSE
    /\ pump' = [pump EXCEPT !.at = "drain"]
    /\ UNCHANGED <<journal, up, dirty, full, projector, ghosts>>

Interrupted == untold \cup (IF pump.at = "view" THEN pump.left ELSE {})

\* An error met by the pump, a worker or a view.  A full storage has a handler of
\* its own; an error of a handler ends the pump with its work undone.
Fails(mishap) ==
    /\ up /\ pump.at \in {"collect", "ask", "close", "view"} /\ mishaps < MaxMishaps
    /\ mishaps' = mishaps + 1
    /\ lifecycle' = IF lifecycle = "pump" THEN "free" ELSE lifecycle
    /\ pump' = [pump EXCEPT !.at = IF pump.handling THEN "drain" ELSE mishap]
    /\ gaveUp' = (gaveUp \/ pump.handling)
    /\ untold' = Interrupted
    /\ UNCHANGED <<journal, up, restart, dirty, full, projector, requests>>

\* suspend_at_capacity, after the projector was drained.
Suspend ==
    /\ up /\ pump.at = "full" /\ projector.at = "off" /\ lifecycle = "free"
    /\ restart' = FALSE
    /\ pump' = [pump EXCEPT !.at = "drain"]
    /\ \/ /\ scan' = Suspended(pump.finishing)
          /\ active' = FALSE
          /\ UNCHANGED <<mishaps, gaveUp>>
       \/ /\ mishaps < MaxMishaps
          /\ mishaps' = mishaps + 1
          /\ gaveUp' = TRUE
          /\ UNCHANGED <<scan, active>>
    /\ UNCHANGED <<todo, up, lifecycle, dirty, full, projector, requests, untold>>

\* The handler of any other error finishes the pass in its turn.
Handle ==
    /\ up /\ pump.at = "broken" /\ projector.at = "off"
    /\ pump' = [pump EXCEPT !.at = "await", !.handling = TRUE]
    /\ UNCHANGED <<journal, up, lifecycle, restart, dirty, full, projector, ghosts>>

\* projector.cancel: a save it has begun is waited for, anything else is dropped.
CancelProjector ==
    /\ up /\ pump.at \in {"full", "broken", "drain"} /\ projector.at # "off"
    /\ projector' = Off
    /\ UNCHANGED <<journal, up, lifecycle, pump, restart, dirty, full, ghosts>>

Drain ==
    /\ up /\ pump.at = "drain" /\ projector.at = "off"
    /\ pump' = [NoPump EXCEPT !.at = "done"]
    /\ UNCHANGED <<journal, up, lifecycle, restart, dirty, full, projector, ghosts>>

\* _pump_finished, if no request has replaced the task before it runs.
Finished ==
    /\ up /\ pump.at = "done"
    /\ IF restart THEN Kick
       ELSE pump' = NoPump /\ UNCHANGED <<restart, dirty, full, projector>>
    /\ UNCHANGED <<journal, up, lifecycle, ghosts>>

-----------------------------------------------------------------------------
(* The projector *)

List ==
    /\ up /\ projector.at = "wait" /\ dirty
    /\ dirty' = FALSE
    /\ projector' = [projector EXCEPT !.at = "list", !.left = ActiveScans]
    /\ UNCHANGED <<journal, up, lifecycle, pump, restart, full, ghosts>>

\* A snapshot, under the projection lock, which the save releases.
Snapshot(v) ==
    /\ up /\ projector.at = "list" /\ projector.saving = {} /\ v \in projector.left
    /\ projector' = [projector EXCEPT !.left = @ \ {v}, !.saving = {v}, !.view = ViewOf(v)]
    /\ UNCHANGED <<journal, up, lifecycle, pump, restart, dirty, full, ghosts>>

Save(v) ==
    /\ up /\ v \in projector.saving
    /\ scan' = Saved(v, projector.view)
    /\ projector' = [projector EXCEPT !.saving = {}, !.view = "unknown"]
    /\ UNCHANGED <<todo, active, up, lifecycle, pump, restart, dirty, full, ghosts>>

\* The storage is full: the projector ends and the workers will.
SaveRefused ==
    /\ up /\ projector.saving # {} /\ mishaps < MaxMishaps
    /\ mishaps' = mishaps + 1
    /\ full' = TRUE
    /\ projector' = Off
    /\ UNCHANGED <<journal, up, lifecycle, pump, restart, dirty, requests, gaveUp, untold>>

\* Any other error ends the projector alone.
ProjectorDies ==
    /\ up /\ projector.at = "list" /\ mishaps < MaxMishaps
    /\ mishaps' = mishaps + 1
    /\ projector' = Off
    /\ UNCHANGED <<journal, up, lifecycle, pump, restart, dirty, full, requests, gaveUp, untold>>

Listed ==
    /\ up /\ projector.at = "list" /\ projector.saving = {} /\ projector.left = {}
    /\ projector' = [projector EXCEPT !.at = "wait"]
    /\ UNCHANGED <<journal, up, lifecycle, pump, restart, dirty, full, ghosts>>

-----------------------------------------------------------------------------
(* The process *)

ProcessDies ==
    /\ up /\ mishaps < MaxMishaps
    /\ mishaps' = mishaps + 1
    /\ up' = FALSE /\ lifecycle' = "free" /\ restart' = FALSE /\ dirty' = FALSE /\ full' = FALSE
    /\ pump' = NoPump
    /\ projector' = Off
    /\ gaveUp' = FALSE /\ untold' = Interrupted
    /\ UNCHANGED <<journal, requests>>

\* recover: a pass that is open and a view that is owed are taken up again.
Recover ==
    /\ ~up
    /\ up' = TRUE
    /\ IF ActiveScans # {} THEN Kick ELSE UNCHANGED <<pump, projector, restart, dirty, full>>
    /\ UNCHANGED <<journal, lifecycle, ghosts>>

Mishap == Fails("full") \/ Fails("broken") \/ SaveRefused \/ ProjectorDies \/ ProcessDies

PumpNext == \/ \E v \in Scans : Collect(v) \/ View(v)
            \/ Collected \/ AskAgain \/ AskLast \/ Enter \/ FinishPass \/ Leave
            \/ Suspend \/ Handle \/ CancelProjector \/ Drain \/ Finished

ProjectorNext == List \/ Listed \/ \E v \in Scans : Snapshot(v) \/ Save(v)

CollectionNext ==
    \/ \E c \in Users, v \in Scans : Request(c, v)
    \/ \E c \in Users : Release(c)
    \/ PumpNext \/ ProjectorNext \/ Mishap \/ Recover

CollectionSpec == CollectionInit /\ [][CollectionNext]_collectionVars

\* Tasks of the event loop are scheduled in turn, the process is restarted, a pass
\* has a deadline (AskLast) and asyncio.Lock serves its waiters in order (Enter, Suspend).
CollectionFairness ==
    /\ WF_collectionVars(PumpNext) /\ WF_collectionVars(ProjectorNext)
    /\ WF_collectionVars(Recover) /\ \A c \in Users : WF_collectionVars(Release(c))
    /\ SF_collectionVars(AskLast) /\ SF_collectionVars(Enter) /\ SF_collectionVars(Suspend)
CollectionFairSpec == CollectionSpec /\ CollectionFairness

-----------------------------------------------------------------------------
(* Properties *)

\* A scan that reads as running has someone to finish it: the pass it is in is open,
\* or its last view is owed.  The stale save of a projector may not undo a final view.
RunningIsOwed ==
    \A v \in Scans : scan[v].view = "running" => Active(v) \/ scan[v].owed \/ scan[v].stopped

\* A view saved over a scan that was continued meanwhile may say that it is completed
\* although it has work left.  The pass the scan is in makes its view anew, or the pump
\* that closes the pass, unless that pump fails, or dies, before it has.
StaleViewIsReplaced ==
    \A v \in Scans :
        (scan[v].view = "completed" /\ todo[v] > 0 /\ ~scan[v].stopped)
            => Active(v) \/ (pump.at = "view" /\ v \in pump.left) \/ v \in untold

\* An open pass always has a pump that will close it: one that runs, one about to be
\* replaced, or a user who is about to start it.
OpenPassHasPump ==
    (up /\ active) => \/ PumpRuns \/ (pump.at = "done" /\ restart)
                      \/ lifecycle \in Users \/ gaveUp

\* A scan that runs, or is wrongly shown as completed, has someone to finish it, and an
\* open pass a pump that works on it.
ScansAreOwed == RunningIsOwed /\ StaleViewIsReplaced /\ OpenPassHasPump

\* Whoever waits for a scan sees it end, whatever single mishap befalls its pass.
EveryScanEnds == \A v \in Scans :
    scan[v].view = "running" ~> (scan[v].view # "running" \/ scan[v].stopped)

\* Whenever the pump rests no view is owed: "A closed pass must not strand unprojected
\* scans across process shutdown" (tests/integration/test_collection_projection_recovery.py:1).
NoScanIsStranded ==
    (up /\ pump.at = "none" /\ lifecycle = "free" /\ ~gaveUp) => \A v \in Scans : ~scan[v].owed
=============================================================================
