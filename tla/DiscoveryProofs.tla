--------------------------- MODULE DiscoveryProofs ---------------------------
(***************************************************************************)
(* Proofs about the discovery scans: Reassessments for every set of scans, *)
(* assessments and browsers and every limit of tasks and of remembered     *)
(* failures, CollectionPump for every set of scans and users and every     *)
(* number of works, and CollectionRotation for every set of works and      *)
(* sources and every allowance.                                            *)
(***************************************************************************)
EXTENDS Reassessments, CollectionPump, CollectionRotation,
        FiniteSetTheorems, WellFoundedInduction, TLAPS

-----------------------------------------------------------------------------
(* Reassessments: the inductive invariant *)

\* Only the user who holds the lock is between its decision and its answer.
OneDecides ==
    \A c \in Browsers : user[c].at \in {"decide", "persist", "launch", "resume"} => lock = c

\* What is stored is of an original.
StoredIsOfOne == \A r \in Assessments : store[r] # "absent" => of[r] \in Originals

\* What is worked on or was handed out is stored.
WorkIsStored == \A r \in Busy \cup handed : store[r] # "absent"

TasksFit == IsFiniteSet(Busy) /\ Cardinality(Busy) <= MaxTasks

\* What a user has decided under the lock is still so: its id is not taken, or is
\* the one it has saved, and a task may be added.
RequestFits(c) ==
    /\ user[c].at \in {"ask", "decide", "persist", "launch"} => user[c].original \in Originals
    /\ user[c].at \in {"persist", "launch", "open", "resume"} => user[c].id \in Assessments
    /\ user[c].at = "persist" => store[user[c].id] = "absent"
    /\ user[c].at = "launch" => /\ store[user[c].id] # "absent"
                                /\ of[user[c].id] = user[c].original
    /\ user[c].at \in {"open", "resume"} => user[c].id \in handed
    /\ user[c].at \in {"persist", "launch", "resume"} => Cardinality(Busy) < MaxTasks

RequestsInv ==
    /\ AssessmentTypeOK
    /\ OneDecides
    /\ StoredIsOfOne
    /\ WorkIsStored
    /\ TasksFit
    /\ SharedIsWorkedOn
    /\ \A c \in Browsers : RequestFits(c)

-----------------------------------------------------------------------------
(* Reassessments: the steps *)

\* One user moves, the others stay.
LEMMA UserMoves ==
    ASSUME AssessmentTypeOK, NEW c \in Browsers, NEW k \in UserState,
           user' = [user EXCEPT ![c] = k]
    PROVE  /\ user' \in [Browsers -> UserState] /\ user'[c] = k
           /\ \A q \in Browsers : q # c => user'[q] = user[q]
  BY DEF AssessmentTypeOK

\* A user at rest.
LEMMA IdleIsAState == Idle \in UserState /\ Idle.at = "idle"
  BY DEF Idle, UserState

\* The number of tasks is a number.
LEMMA TasksAreCounted == ASSUME TasksFit PROVE Cardinality(Busy) \in Nat
  BY FS_CardinalityType DEF TasksFit

\* A request that stays where it is still fits.
LEMMA StillFits ==
    ASSUME NEW q \in Browsers, RequestFits(q), user'[q] = user[q],
           handed \subseteq handed',
           user[q].at = "persist" => store'[user[q].id] = store[user[q].id],
           user[q].at = "launch" => /\ store'[user[q].id] # "absent"
                                    /\ of'[user[q].id] = of[user[q].id],
           user[q].at \in {"persist", "launch", "resume"} => Cardinality(Busy)' < MaxTasks
    PROVE  RequestFits(q)'
  BY DEF RequestFits

\* A step that only moves a user, and takes or leaves the lock for it.
LEMMA UserSteps ==
    ASSUME RequestsInv, NEW c \in Browsers, NEW k \in UserState,
           user' = [user EXCEPT ![c] = k],
           UNCHANGED <<store, of, tasks, sharing, failures, handed>>,
           faults' \in 0 .. MaxFaults,
           lock' \in Browsers \cup {None}, lock' # lock => lock \in {None, c},
           k.at \in {"decide", "persist", "launch", "resume"} => lock' = c,
           RequestFits(c)'
    PROVE  RequestsInv'
  <1>1. /\ user' \in [Browsers -> UserState] /\ user'[c] = k
        /\ \A q \in Browsers : q # c => user'[q] = user[q]
    BY UserMoves DEF RequestsInv
  <1>2. Busy' = Busy
    BY DEF Busy
  <1>3. AssessmentTypeOK'
    BY <1>1 DEF RequestsInv, AssessmentTypeOK
  <1>4. OneDecides'
    BY <1>1, ReassessmentAssumption DEF RequestsInv, OneDecides
  <1>5. StoredIsOfOne' /\ WorkIsStored' /\ TasksFit' /\ SharedIsWorkedOn'
    BY <1>2 DEF RequestsInv, StoredIsOfOne, WorkIsStored, TasksFit, SharedIsWorkedOn
  <1>6. ASSUME NEW q \in Browsers, q # c PROVE RequestFits(q)'
    BY <1>1, <1>2, <1>6 DEF RequestsInv, RequestFits
  <1>7. QED
    BY <1>3, <1>4, <1>5, <1>6 DEF RequestsInv

LEMMA AskKeeps ==
    ASSUME RequestsInv, NEW c \in Browsers, NEW o \in Originals, Ask(c, o) PROVE RequestsInv'
  <1> DEFINE k == [Idle EXCEPT !.at = "ask", !.original = o]
  <1>1. k \in UserState /\ k.at = "ask" /\ k.original = o
    BY DEF Idle, UserState
  <1>2. user' = [user EXCEPT ![c] = k]
    BY DEF Ask
  <1> HIDE DEF k
  <1>3. user'[c] = k
    BY <1>1, <1>2, UserMoves DEF RequestsInv
  <1>4. RequestFits(c)'
    BY <1>1, <1>3 DEF RequestFits
  <1>5. faults' \in 0 .. MaxFaults /\ lock' \in Browsers \cup {None}
    BY DEF Ask, RequestsInv, AssessmentTypeOK
  <1>6. QED
    BY <1>1, <1>2, <1>4, <1>5, UserSteps DEF Ask

LEMMA EnterAskKeeps ==
    ASSUME RequestsInv, NEW c \in Browsers, EnterAsk(c) PROVE RequestsInv'
  <1> DEFINE k == [user[c] EXCEPT !.at = "decide"]
  <1>1. /\ k \in UserState /\ k.at = "decide" /\ k.original = user[c].original
        /\ user[c].at = "ask"
    BY DEF EnterAsk, RequestsInv, AssessmentTypeOK, UserState
  <1>2. user' = [user EXCEPT ![c] = k]
    BY DEF EnterAsk
  <1> HIDE DEF k
  <1>3. user'[c] = k
    BY <1>1, <1>2, UserMoves DEF RequestsInv
  <1>4. RequestFits(c)'
    BY <1>1, <1>3 DEF RequestFits, RequestsInv
  <1>5. faults' \in 0 .. MaxFaults /\ lock' = c
    BY DEF EnterAsk, RequestsInv, AssessmentTypeOK
  <1>6. QED
    BY <1>1, <1>2, <1>4, <1>5, UserSteps DEF EnterAsk

\* A user who leaves the lock is at rest.
LEMMA LeaveKeeps ==
    ASSUME RequestsInv, NEW c \in Browsers, LeaveLock(c), lock \in {None, c},
           UNCHANGED <<store, of, tasks, sharing, failures, handed>>,
           faults' \in 0 .. MaxFaults
    PROVE  RequestsInv'
  <1>1. user' = [user EXCEPT ![c] = Idle] /\ lock' = None
    BY DEF LeaveLock
  <1>2. user'[c] = Idle
    BY <1>1, IdleIsAState, UserMoves DEF RequestsInv
  <1>3. RequestFits(c)'
    BY <1>2, IdleIsAState DEF RequestFits
  <1>4. QED
    BY <1>1, <1>3, IdleIsAState, UserSteps

LEMMA DecideKeeps ==
    ASSUME RequestsInv, NEW c \in Browsers, Decide(c) PROVE RequestsInv'
  <1>1. /\ user[c].at = "decide" /\ lock = c /\ faults' \in 0 .. MaxFaults
        /\ UNCHANGED <<store, of, tasks, sharing, failures, handed>>
    BY DEF Decide, RequestsInv, OneDecides, AssessmentTypeOK
  <1>2. CASE LeaveLock(c)
    BY <1>1, <1>2, LeaveKeeps
  <1>3. CASE ~LeaveLock(c)
    <2>1. PICK r \in Assessments :
            /\ Cardinality(Busy) < MaxTasks /\ UNCHANGED lock
            /\ store[r] = "absent"
            /\ user' = [user EXCEPT ![c] = [@ EXCEPT !.at = "persist", !.id = r]]
      BY <1>3 DEF Decide
    <2> DEFINE k == [user[c] EXCEPT !.at = "persist", !.id = r]
    <2>2. /\ k \in UserState /\ k.at = "persist" /\ k.id = r
          /\ k.original = user[c].original
      BY DEF RequestsInv, AssessmentTypeOK, UserState
    <2>3. user' = [user EXCEPT ![c] = k]
      BY <2>1
    <2> HIDE DEF k
    <2>4. user'[c] = k
      BY <2>2, <2>3, UserMoves DEF RequestsInv
    <2>5. Busy' = Busy
      BY <1>1 DEF Busy
    <2>6. RequestFits(c)'
      BY <1>1, <2>1, <2>2, <2>4, <2>5 DEF RequestFits, RequestsInv
    <2>7. QED
      BY <1>1, <2>1, <2>2, <2>3, <2>6, UserSteps
  <1>4. QED
    BY <1>2, <1>3

LEMMA PersistFailsKeeps ==
    ASSUME RequestsInv, NEW c \in Browsers, PersistFails(c) PROVE RequestsInv'
  <1>1. lock = c /\ LeaveLock(c) /\ UNCHANGED <<store, of, tasks, sharing, failures, handed>>
    BY DEF PersistFails, RequestsInv, OneDecides
  <1>2. faults' \in 0 .. MaxFaults
    BY ReassessmentAssumption DEF PersistFails, RequestsInv, AssessmentTypeOK
  <1>3. QED
    BY <1>1, <1>2, LeaveKeeps

LEMMA OpenKeeps ==
    ASSUME RequestsInv, NEW c \in Browsers, NEW r \in Assessments, Open(c, r)
    PROVE  RequestsInv'
  <1> DEFINE k == [Idle EXCEPT !.at = "open", !.id = r]
  <1>1. k \in UserState /\ k.at = "open" /\ k.id = r
    BY DEF Idle, UserState
  <1>2. user' = [user EXCEPT ![c] = k]
    BY DEF Open
  <1> HIDE DEF k
  <1>3. user'[c] = k
    BY <1>1, <1>2, UserMoves DEF RequestsInv
  <1>4. RequestFits(c)'
    BY <1>1, <1>3 DEF RequestFits, Open
  <1>5. faults' \in 0 .. MaxFaults /\ lock' \in Browsers \cup {None}
    BY DEF Open, RequestsInv, AssessmentTypeOK
  <1>6. QED
    BY <1>1, <1>2, <1>4, <1>5, UserSteps DEF Open

LEMMA EnterOpenKeeps ==
    ASSUME RequestsInv, NEW c \in Browsers, EnterOpen(c) PROVE RequestsInv'
  <1>1. /\ user[c].at = "open" /\ lock = None /\ faults' \in 0 .. MaxFaults
        /\ UNCHANGED <<store, of, tasks, sharing, failures, handed>>
    BY DEF EnterOpen, RequestsInv, AssessmentTypeOK
  <1>2. CASE LeaveLock(c)
    BY <1>1, <1>2, LeaveKeeps
  <1>3. CASE ~LeaveLock(c)
    <2>1. /\ Cardinality(Busy) < MaxTasks /\ lock' = c
          /\ user' = [user EXCEPT ![c].at = "resume"]
      BY <1>3 DEF EnterOpen
    <2> DEFINE k == [user[c] EXCEPT !.at = "resume"]
    <2>2. k \in UserState /\ k.at = "resume" /\ k.id = user[c].id
      BY DEF RequestsInv, AssessmentTypeOK, UserState
    <2>3. user' = [user EXCEPT ![c] = k]
      BY <2>1
    <2> HIDE DEF k
    <2>4. user'[c] = k
      BY <2>2, <2>3, UserMoves DEF RequestsInv
    <2>5. Busy' = Busy
      BY <1>1 DEF Busy
    <2>6. RequestFits(c)'
      BY <1>1, <2>1, <2>2, <2>4, <2>5 DEF RequestFits, RequestsInv
    <2>7. QED
      BY <1>1, <2>1, <2>2, <2>3, <2>6, UserSteps
  <1>4. QED
    BY <1>2, <1>3

\* A request that leaves the lock with an id, new or shared.
LEMMA ShareKeeps ==
    ASSUME RequestsInv, NEW c \in Browsers, Share(c) PROVE RequestsInv'
  <1> DEFINE r == sharing[user[c].original]
  <1>1. /\ user[c].at = "decide" /\ user' = [user EXCEPT ![c] = Idle] /\ lock' = None
        /\ UNCHANGED <<store, of, tasks, sharing, failures, faults>>
        /\ r # None /\ handed' = handed \cup {r}
    BY DEF Share, LeaveLock
  <1>2. user[c].original \in Originals
    BY <1>1 DEF RequestsInv, RequestFits
  <1>3. r \in Busy /\ r \in Assessments /\ store[r] # "absent"
    BY <1>1, <1>2 DEF RequestsInv, SharedIsWorkedOn, WorkIsStored, Busy
  <1> HIDE DEF r
  <1>4. /\ user' \in [Browsers -> UserState] /\ user'[c] = Idle
        /\ \A q \in Browsers : q # c => user'[q] = user[q]
    BY <1>1, IdleIsAState, UserMoves DEF RequestsInv
  <1>5. Busy' = Busy
    BY <1>1 DEF Busy
  <1>6. AssessmentTypeOK'
    BY <1>1, <1>3, <1>4 DEF RequestsInv, AssessmentTypeOK
  <1>7. OneDecides'
    BY <1>1, <1>4, IdleIsAState DEF RequestsInv, OneDecides
  <1>8. StoredIsOfOne' /\ WorkIsStored' /\ TasksFit' /\ SharedIsWorkedOn'
    BY <1>1, <1>3, <1>5
    DEF RequestsInv, StoredIsOfOne, WorkIsStored, TasksFit, SharedIsWorkedOn
  <1>9. RequestFits(c)'
    BY <1>4, IdleIsAState DEF RequestFits
  <1>10. ASSUME NEW q \in Browsers, q # c PROVE RequestFits(q)'
    BY <1>1, <1>4, <1>5, <1>10 DEF RequestsInv, RequestFits
  <1>11. QED
    BY <1>6, <1>7, <1>8, <1>9, <1>10 DEF RequestsInv

\* What is saved is of the original that was asked for.
LEMMA PersistKeeps ==
    ASSUME RequestsInv, NEW c \in Browsers, Persist(c) PROVE RequestsInv'
  <1> DEFINE r == user[c].id
             o == user[c].original
             k == [user[c] EXCEPT !.at = "launch"]
  <1>1. /\ user[c].at = "persist" /\ user' = [user EXCEPT ![c] = k]
        /\ UNCHANGED <<tasks, sharing, failures, lock, handed, faults>>
        /\ store' = [store EXCEPT ![r] = "running"] /\ of' = [of EXCEPT ![r] = o]
    BY DEF Persist
  <1>2. /\ o \in Originals /\ r \in Assessments /\ store[r] = "absent"
        /\ Cardinality(Busy) < MaxTasks /\ lock = c
    BY <1>1 DEF RequestsInv, RequestFits, OneDecides
  <1>3. k \in UserState /\ k.at = "launch" /\ k.id = r /\ k.original = o
    BY DEF RequestsInv, AssessmentTypeOK, UserState
  <1>4. r \notin Busy \cup handed
    BY <1>2 DEF RequestsInv, WorkIsStored
  <1> HIDE DEF r, o, k
  <1>5. /\ user' \in [Browsers -> UserState] /\ user'[c] = k
        /\ \A q \in Browsers : q # c => user'[q] = user[q]
    BY <1>1, <1>3, UserMoves DEF RequestsInv
  <1>6. /\ store' \in [Assessments -> {"absent", "running", "completed", "incomplete"}]
        /\ of' \in [Assessments -> Originals \cup {None}]
        /\ store'[r] = "running" /\ of'[r] = o
        /\ \A s \in Assessments : s # r => store'[s] = store[s] /\ of'[s] = of[s]
    BY <1>1, <1>2 DEF RequestsInv, AssessmentTypeOK
  <1>7. Busy' = Busy
    BY <1>1 DEF Busy
  <1>8. AssessmentTypeOK'
    BY <1>1, <1>5, <1>6 DEF RequestsInv, AssessmentTypeOK
  <1>9. OneDecides'
    BY <1>1, <1>2, <1>5 DEF RequestsInv, OneDecides
  <1>10. StoredIsOfOne' /\ WorkIsStored' /\ TasksFit'
    BY <1>1, <1>2, <1>6, <1>7
    DEF RequestsInv, AssessmentTypeOK, StoredIsOfOne, WorkIsStored, TasksFit, Busy
  <1>11. SharedIsWorkedOn'
    BY <1>1, <1>4, <1>6, <1>7 DEF RequestsInv, SharedIsWorkedOn, Busy
  <1>12. RequestFits(c)'
    BY <1>2, <1>3, <1>5, <1>6, <1>7 DEF RequestFits
  <1>13. ASSUME NEW q \in Browsers, q # c PROVE RequestFits(q)'
    <2>1. user[q].at \notin {"persist", "launch", "resume"}
      BY <1>2, <1>13 DEF RequestsInv, OneDecides
    <2>2. QED
      BY <1>1, <1>5, <1>13, <2>1, StillFits DEF RequestsInv
  <1>14. QED
    BY <1>8, <1>9, <1>10, <1>11, <1>12, <1>13 DEF RequestsInv

\* One more task, for an assessment that is stored and not at the limit.
LEMMA LaunchSteps ==
    ASSUME RequestsInv, NEW c \in Browsers, NEW r \in Assessments, NEW o \in Originals,
           lock = c, LeaveLock(c), Launched(r, o),
           of[r] = o, store[r] # "absent", Cardinality(Busy) < MaxTasks,
           handed' = handed \cup {r},
           UNCHANGED <<store, of, failures, faults>>
    PROVE  RequestsInv'
  <1>1. /\ user' \in [Browsers -> UserState] /\ user'[c] = Idle /\ lock' = None
        /\ \A q \in Browsers : q # c => user'[q] = user[q]
    BY IdleIsAState, UserMoves DEF RequestsInv, LeaveLock
  <1>2. /\ tasks' \in [Assessments -> {"none", "queued", "working", "saving", "failing"}]
        /\ tasks'[r] = "queued"
        /\ \A s \in Assessments : s # r => tasks'[s] = tasks[s]
    BY DEF Launched, RequestsInv, AssessmentTypeOK
  <1>3. /\ sharing' \in [Originals -> Assessments \cup {None}]
        /\ sharing'[o] = r
        /\ \A p \in Originals : p # o => sharing'[p] = sharing[p]
    BY DEF Launched, RequestsInv, AssessmentTypeOK
  <1>4. Busy' = Busy \cup {r}
    BY <1>2 DEF Busy
  <1>5. TasksFit'
    <2>1. IsFiniteSet(Busy) /\ Cardinality(Busy) \in Nat
      BY FS_CardinalityType DEF RequestsInv, TasksFit
    <2>2. /\ IsFiniteSet(Busy \cup {r})
          /\ Cardinality(Busy \cup {r}) \in {Cardinality(Busy), Cardinality(Busy) + 1}
      BY <2>1, FS_AddElement
    <2>3. QED
      BY <1>4, <2>1, <2>2, ReassessmentAssumption DEF TasksFit
  <1>6. AssessmentTypeOK'
    BY <1>1, <1>2, <1>3 DEF RequestsInv, AssessmentTypeOK
  <1>7. OneDecides'
    BY <1>1, IdleIsAState DEF RequestsInv, OneDecides
  <1>8. StoredIsOfOne' /\ WorkIsStored'
    BY <1>4 DEF RequestsInv, StoredIsOfOne, WorkIsStored
  <1>9. SharedIsWorkedOn'
    BY <1>3, <1>4 DEF RequestsInv, SharedIsWorkedOn
  <1>10. RequestFits(c)'
    BY <1>1, IdleIsAState DEF RequestFits
  <1>11. ASSUME NEW q \in Browsers, q # c PROVE RequestFits(q)'
    <2>1. user[q].at \notin {"persist", "launch", "resume"}
      BY <1>11 DEF RequestsInv, OneDecides
    <2>2. QED
      BY <1>1, <1>11, <2>1, StillFits DEF RequestsInv
  <1>12. QED
    BY <1>5, <1>6, <1>7, <1>8, <1>9, <1>10, <1>11 DEF RequestsInv

LEMMA LaunchKeeps ==
    ASSUME RequestsInv, NEW c \in Browsers, Launch(c) PROVE RequestsInv'
  <1>1. /\ user[c].id \in Assessments /\ user[c].original \in Originals
        /\ of[user[c].id] = user[c].original /\ store[user[c].id] # "absent"
        /\ Cardinality(Busy) < MaxTasks /\ lock = c
    BY DEF Launch, RequestsInv, RequestFits, OneDecides
  <1>2. QED
    BY <1>1, LaunchSteps DEF Launch

LEMMA ResumeKeeps ==
    ASSUME RequestsInv, NEW c \in Browsers, Resume(c) PROVE RequestsInv'
  <1>1. /\ user[c].id \in Assessments /\ user[c].id \in handed
        /\ Cardinality(Busy) < MaxTasks /\ lock = c
    BY DEF Resume, RequestsInv, RequestFits, OneDecides
  <1>2. store[user[c].id] # "absent" /\ of[user[c].id] \in Originals
    BY <1>1 DEF RequestsInv, WorkIsStored, StoredIsOfOne
  <1>3. handed' = handed \cup {user[c].id}
    BY <1>1 DEF Resume
  <1>4. QED
    BY <1>1, <1>2, <1>3, LaunchSteps DEF Resume

\* A task moves on or ends, and may save its assessment.
LEMMA TaskSteps ==
    ASSUME RequestsInv, NEW r \in Busy,
           tasks' \in [Assessments -> {"none", "queued", "working", "saving", "failing"}],
           Busy' \subseteq Busy,
           store' \in [Assessments -> {"absent", "running", "completed", "incomplete"}],
           store'[r] # "absent", \A s \in Assessments : s # r => store'[s] = store[s],
           sharing' \in [Originals -> Assessments \cup {None}], SharedIsWorkedOn',
           failures' \in Seq(Assessments), Len(failures') <= MaxFailures,
           faults' \in 0 .. MaxFaults,
           UNCHANGED <<of, lock, user, handed>>
    PROVE  RequestsInv'
  <1>1. AssessmentTypeOK' /\ OneDecides'
    BY DEF RequestsInv, AssessmentTypeOK, OneDecides
  <1>2. r \in Assessments /\ store[r] # "absent"
    BY DEF RequestsInv, WorkIsStored, Busy
  <1>3. StoredIsOfOne' /\ WorkIsStored'
    BY <1>2 DEF RequestsInv, AssessmentTypeOK, StoredIsOfOne, WorkIsStored, Busy
  <1>4. /\ IsFiniteSet(Busy') /\ Cardinality(Busy') <= Cardinality(Busy)
        /\ Cardinality(Busy) \in Nat /\ Cardinality(Busy') \in Nat
    BY FS_Subset, FS_CardinalityType DEF RequestsInv, TasksFit
  <1>5. TasksFit'
    BY <1>4, ReassessmentAssumption DEF RequestsInv, TasksFit
  <1>6. ASSUME NEW q \in Browsers PROVE RequestFits(q)'
    <2>1. user[q].at \in {"persist", "launch"} => user[q].id \in Assessments
      BY DEF RequestsInv, RequestFits
    <2>2. /\ user[q].at = "persist" => store[user[q].id] = "absent"
          /\ user[q].at = "launch" => store[user[q].id] # "absent"
          /\ user[q].at \in {"persist", "launch", "resume"} => Cardinality(Busy) < MaxTasks
      BY DEF RequestsInv, RequestFits
    <2>3. user[q].at \in {"persist", "launch", "resume"} => Cardinality(Busy)' < MaxTasks
      BY <1>4, <2>2, ReassessmentAssumption
    <2>4. QED
      BY <1>2, <2>1, <2>2, <2>3, StillFits DEF RequestsInv
  <1>7. QED
    BY <1>1, <1>3, <1>5, <1>6 DEF RequestsInv

\* A task at work goes on to another stage.
LEMMA StageSteps ==
    ASSUME RequestsInv, NEW r \in Assessments, tasks[r] # "none",
           NEW stage \in {"queued", "working", "saving", "failing"},
           tasks' = [tasks EXCEPT ![r] = stage], faults' \in 0 .. MaxFaults,
           UNCHANGED <<store, of, sharing, failures, lock, user, handed>>
    PROVE  RequestsInv'
  <1>1. /\ tasks' \in [Assessments -> {"none", "queued", "working", "saving", "failing"}]
        /\ tasks'[r] = stage /\ \A s \in Assessments : s # r => tasks'[s] = tasks[s]
    BY DEF RequestsInv, AssessmentTypeOK
  <1>2. r \in Busy /\ Busy' = Busy
    BY <1>1 DEF Busy
  <1>3. SharedIsWorkedOn'
    BY <1>2 DEF RequestsInv, SharedIsWorkedOn
  <1>4. store[r] # "absent"
    BY <1>2 DEF RequestsInv, WorkIsStored
  <1>5. QED
    BY <1>1, <1>2, <1>3, <1>4, TaskSteps DEF RequestsInv, AssessmentTypeOK

\* A task that ends takes itself out of what is shared, and nothing else.
LEMMA EndedSteps ==
    ASSUME RequestsInv, NEW r \in Busy, Ended(r), UNCHANGED of
    PROVE  /\ tasks' \in [Assessments -> {"none", "queued", "working", "saving", "failing"}]
           /\ Busy' \subseteq Busy
           /\ sharing' \in [Originals -> Assessments \cup {None}]
           /\ SharedIsWorkedOn'
  <1>1. r \in Assessments /\ store[r] # "absent" /\ of[r] \in Originals
    BY DEF RequestsInv, WorkIsStored, StoredIsOfOne, Busy
  <1>2. /\ tasks' \in [Assessments -> {"none", "queued", "working", "saving", "failing"}]
        /\ tasks'[r] = "none" /\ \A s \in Assessments : s # r => tasks'[s] = tasks[s]
    BY <1>1 DEF Ended, RequestsInv, AssessmentTypeOK
  <1>3. Busy' = Busy \ {r}
    BY <1>2 DEF Busy
  <1>4. /\ sharing' \in [Originals -> Assessments \cup {None}]
        /\ sharing'[of[r]] = IF sharing[of[r]] = r THEN None ELSE sharing[of[r]]
        /\ \A o \in Originals : o # of[r] => sharing'[o] = sharing[o]
    BY <1>1 DEF Ended, RequestsInv, AssessmentTypeOK
  <1>5. SharedIsWorkedOn'
    BY <1>1, <1>3, <1>4 DEF RequestsInv, SharedIsWorkedOn
  <1>6. QED
    BY <1>2, <1>3, <1>4, <1>5

LEMMA SavedKeeps ==
    ASSUME RequestsInv, NEW r \in Assessments, SaveResult(r) \/ SaveFailure(r)
    PROVE  RequestsInv'
  <1>1. r \in Busy /\ Ended(r) /\ UNCHANGED <<of, failures, lock, user, handed, faults>>
    BY DEF SaveResult, SaveFailure, Busy
  <1>2. PICK status \in {"completed", "incomplete"} :
            store' = [store EXCEPT ![r] = status]
    BY DEF SaveResult, SaveFailure
  <1>3. /\ store' \in [Assessments -> {"absent", "running", "completed", "incomplete"}]
        /\ store'[r] # "absent" /\ \A s \in Assessments : s # r => store'[s] = store[s]
    BY <1>2 DEF RequestsInv, AssessmentTypeOK
  <1>4. QED
    BY <1>1, <1>3, EndedSteps, TaskSteps DEF RequestsInv, AssessmentTypeOK

LEMMA RememberFailureKeeps ==
    ASSUME RequestsInv, NEW r \in Assessments, RememberFailure(r) PROVE RequestsInv'
  <1>1. /\ r \in Busy /\ Ended(r) /\ UNCHANGED <<store, of, lock, user, handed>>
        /\ store[r] # "absent"
    BY DEF RememberFailure, RequestsInv, WorkIsStored, Busy
  <1>2. faults' \in 0 .. MaxFaults
    BY ReassessmentAssumption DEF RememberFailure, RequestsInv, AssessmentTypeOK
  <1>3. failures' \in Seq(Assessments) /\ Len(failures') <= MaxFailures
    <2>1. failures \in Seq(Assessments) /\ Len(failures) <= MaxFailures
      BY DEF RequestsInv, AssessmentTypeOK
    <2>2. CASE Remembered(r)
      BY <2>1, <2>2 DEF RememberFailure
    <2>3. CASE ~Remembered(r) /\ Len(failures) < MaxFailures
      BY <2>1, <2>3, ReassessmentAssumption DEF RememberFailure
    <2>4. CASE ~Remembered(r) /\ ~(Len(failures) < MaxFailures)
      <3>1. Len(failures) = MaxFailures /\ failures # << >>
        BY <2>1, <2>4, ReassessmentAssumption
      <3>2. Tail(failures) \in Seq(Assessments) /\ Len(Tail(failures)) = MaxFailures - 1
        BY <2>1, <3>1
      <3>3. failures' = Append(Tail(failures), r)
        BY <2>4 DEF RememberFailure
      <3>4. QED
        BY <3>2, <3>3, ReassessmentAssumption
    <2>5. QED
      BY <2>2, <2>3, <2>4
  <1>4. store \in [Assessments -> {"absent", "running", "completed", "incomplete"}]
    BY DEF RequestsInv, AssessmentTypeOK
  <1>5. QED
    BY <1>1, <1>2, <1>3, <1>4, EndedSteps, TaskSteps

LEMMA ProcessRestartsKeeps ==
    ASSUME RequestsInv, ProcessRestarts PROVE RequestsInv'
  <1>1. Busy' = {}
    BY DEF ProcessRestarts, Busy
  <1>2. \A c \in Browsers : user'[c] = Idle
    BY DEF ProcessRestarts
  <1>3. AssessmentTypeOK'
    BY ReassessmentAssumption, IdleIsAState
    DEF ProcessRestarts, RequestsInv, AssessmentTypeOK
  <1>4. OneDecides' /\ \A c \in Browsers : RequestFits(c)'
    BY <1>2, IdleIsAState DEF OneDecides, RequestFits
  <1>5. StoredIsOfOne' /\ WorkIsStored' /\ SharedIsWorkedOn'
    BY <1>1 DEF ProcessRestarts, RequestsInv, StoredIsOfOne, WorkIsStored, SharedIsWorkedOn
  <1>6. TasksFit'
    BY <1>1, FS_EmptySet, ReassessmentAssumption DEF TasksFit
  <1>7. QED
    BY <1>3, <1>4, <1>5, <1>6 DEF RequestsInv

LEMMA AssessmentInitFits == AssessmentInit => RequestsInv
  <1> SUFFICES ASSUME AssessmentInit PROVE RequestsInv
    OBVIOUS
  <1>1. Busy = {}
    BY DEF AssessmentInit, Busy
  <1>2. \A c \in Browsers : user[c] = Idle
    BY DEF AssessmentInit
  <1>3. AssessmentTypeOK
    BY ReassessmentAssumption, IdleIsAState DEF AssessmentInit, AssessmentTypeOK
  <1>4. OneDecides /\ \A c \in Browsers : RequestFits(c)
    BY <1>2, IdleIsAState DEF OneDecides, RequestFits
  <1>5. StoredIsOfOne /\ WorkIsStored /\ SharedIsWorkedOn
    BY <1>1 DEF AssessmentInit, StoredIsOfOne, WorkIsStored, SharedIsWorkedOn
  <1>6. TasksFit
    BY <1>1, FS_EmptySet, ReassessmentAssumption DEF TasksFit
  <1>7. QED
    BY <1>3, <1>4, <1>5, <1>6 DEF RequestsInv

LEMMA AssessmentStepFits == RequestsInv /\ [AssessmentNext]_assessmentVars => RequestsInv'
  <1> SUFFICES ASSUME RequestsInv, [AssessmentNext]_assessmentVars PROVE RequestsInv'
    OBVIOUS
  <1>1. ASSUME NEW c \in Browsers, UserNext(c) PROVE RequestsInv'
    BY <1>1, EnterAskKeeps, ShareKeeps, DecideKeeps, PersistKeeps, LaunchKeeps,
       EnterOpenKeeps, ResumeKeeps DEF UserNext
  <1>2. ASSUME NEW c \in Browsers, PersistFails(c) PROVE RequestsInv'
    BY <1>2, PersistFailsKeeps
  <1>3. ASSUME NEW c \in Browsers, NEW o \in Originals, Ask(c, o) PROVE RequestsInv'
    BY <1>3, AskKeeps
  <1>4. ASSUME NEW c \in Browsers, NEW r \in Assessments, Open(c, r) PROVE RequestsInv'
    BY <1>4, OpenKeeps
  <1>5. ASSUME NEW r \in Assessments, Work(r) \/ Assess(r) PROVE RequestsInv'
    <2>1. faults' \in 0 .. MaxFaults
      BY <1>5 DEF Work, Assess, RequestsInv, AssessmentTypeOK
    <2>2. QED
      BY <1>5, <2>1, StageSteps DEF Work, Assess
  <1>6. ASSUME NEW r \in Assessments, AssessFails(r) PROVE RequestsInv'
    <2>1. faults' \in 0 .. MaxFaults
      BY <1>6, ReassessmentAssumption DEF AssessFails, RequestsInv, AssessmentTypeOK
    <2>2. QED
      BY <1>6, <2>1, StageSteps DEF AssessFails
  <1>7. ASSUME NEW r \in Assessments, SaveResult(r) \/ SaveFailure(r) PROVE RequestsInv'
    BY <1>7, SavedKeeps
  <1>8. ASSUME NEW r \in Assessments, RememberFailure(r) PROVE RequestsInv'
    BY <1>8, RememberFailureKeeps
  <1>9. CASE ProcessRestarts
    BY <1>9, ProcessRestartsKeeps
  <1>10. CASE UNCHANGED assessmentVars
    BY <1>10 DEF assessmentVars, RequestsInv, AssessmentTypeOK, OneDecides, StoredIsOfOne,
                 WorkIsStored, TasksFit, SharedIsWorkedOn, RequestFits, Busy
  <1>11. QED
    BY <1>1, <1>2, <1>3, <1>4, <1>5, <1>6, <1>7, <1>8, <1>9, <1>10
    DEF AssessmentNext, TaskNext

\* The inductive invariant holds in every state.
LEMMA RequestsInvHolds == AssessmentSpec => []RequestsInv
  BY AssessmentInitFits, AssessmentStepFits, PTL DEF AssessmentSpec

\* Every variable of the assessments has its type.
THEOREM AssessmentsAreTyped == AssessmentSpec => []AssessmentTypeOK
  <1>1. RequestsInv => AssessmentTypeOK
    BY DEF RequestsInv
  <1>2. QED
    BY <1>1, RequestsInvHolds, PTL

\* An id that was handed out can be read, a further request is only given an assessment
\* that is worked on, and there are never more tasks than the limit, whatever fails and
\* whenever the process is restarted (DiscoveryScanService.reprocess and get).
THEOREM AssessmentsStaySound == AssessmentSpec => []AssessmentsAreSound
  <1>1. RequestsInv => AssessmentsAreSound
    BY DEF RequestsInv, AssessmentsAreSound, HandedIsReadable, TasksAreBounded, TasksFit,
           WorkIsStored, Reading
  <1>2. QED
    BY <1>1, RequestsInvHolds, PTL

-----------------------------------------------------------------------------
(* CollectionPump: the inductive invariant *)

\* A projector about to save that a scan runs has someone to finish the scan.
SaveIsHonest ==
    \A v \in projector.saving :
        projector.view = "running" => Active(v) \/ scan[v].owed \/ scan[v].stopped

\* A pass is open for some scan.
PassHasMember == active => \E v \in Scans : scan[v].member

\* Closing a pass and viewing its scans is done under the lifecycle lock, so that
\* no request opens it again meanwhile.
ClosingHoldsLock ==
    /\ pump.at \in {"close", "view"} => lifecycle = "pump"
    /\ pump.at = "view" => ~active

\* A pump on its way out leaves no open pass to itself.
DrainingIsReplaced ==
    up /\ active /\ pump.at = "drain" => restart \/ lifecycle \in Users \/ gaveUp

ViewsFit == RunningIsOwed /\ SaveIsHonest /\ PassHasMember
PassFits == ClosingHoldsLock /\ DrainingIsReplaced /\ OpenPassHasPump

PumpInv == CollectionTypeOK /\ ViewsFit /\ PassFits

-----------------------------------------------------------------------------
(* CollectionPump: the steps *)

\* A step that leaves the journal alone; a save may be begun with by Snapshot only.
LEMMA JournalStays ==
    ASSUME ViewsFit, UNCHANGED <<scan, active>>,
           projector'.saving = {} \/ UNCHANGED <<projector.saving, projector.view>>
    PROVE  ViewsFit'
  BY DEF ViewsFit, RunningIsOwed, SaveIsHonest, PassHasMember, Active

\* A step that leaves the pump, its lock and its pass alone.
LEMMA PumpStays ==
    ASSUME PassFits, UNCHANGED <<up, active, lifecycle, pump, restart, gaveUp>>
    PROVE  PassFits'
  BY DEF PassFits, ClosingHoldsLock, DrainingIsReplaced, OpenPassHasPump, PumpRuns

\* A fresh pump and a projector at its start.
LEMMA FreshStates ==
    /\ Fresh \in PumpState /\ Fresh.at = "collect"
    /\ NoPump \in PumpState /\ NoPump.at = "none"
    /\ [NoPump EXCEPT !.at = "done"] \in PumpState /\ [NoPump EXCEPT !.at = "done"].at = "done"
    /\ Off \in ProjectorState /\ Off.saving = {}
    /\ [Off EXCEPT !.at = "wait"] \in ProjectorState /\ [Off EXCEPT !.at = "wait"].saving = {}
  BY DEF Fresh, NoPump, Off, PumpState, ProjectorState, Places, Views

\* Whoever kicks leaves a pump that runs, asked for another round if it ran before.
LEMMA Kicked ==
    ASSUME CollectionTypeOK, Kick
    PROVE  /\ pump' \in PumpState /\ projector' \in ProjectorState
           /\ dirty' \in BOOLEAN /\ full' \in BOOLEAN /\ restart' \in BOOLEAN
           /\ PumpRuns'
           /\ projector'.saving = {} \/ UNCHANGED <<projector.saving, projector.view>>
           /\ pump'.at = "collect" \/ (pump' = pump /\ restart')
  <1>1. CASE PumpRuns
    BY <1>1 DEF Kick, CollectionTypeOK, PumpRuns
  <1>2. CASE ~PumpRuns
    <2>1. /\ pump' = Fresh /\ projector' = [Off EXCEPT !.at = "wait"]
          /\ restart' = FALSE /\ full' = FALSE /\ dirty' = TRUE
      BY <1>2 DEF Kick
    <2>2. QED
      BY <2>1, FreshStates DEF PumpRuns
  <1>3. QED
    BY <1>1, <1>2

\* One more field of the pump's state is set.
LEMMA PumpMoves ==
    ASSUME CollectionTypeOK, NEW at \in Places
    PROVE  /\ [pump EXCEPT !.at = at] \in PumpState
           /\ [pump EXCEPT !.at = at].at = at
  BY DEF CollectionTypeOK, PumpState

\* A mishap is counted.
LEMMA MishapCounted ==
    ASSUME CollectionTypeOK, mishaps < MaxMishaps PROVE mishaps + 1 \in 0 .. MaxMishaps
  BY PumpAssumption DEF CollectionTypeOK

LEMMA RequestKeeps ==
    ASSUME PumpInv, NEW c \in Users, NEW v \in Scans, Request(c, v) PROVE PumpInv'
  <1> DEFINE joined == [view |-> "running", member |-> TRUE, stopped |-> FALSE,
                        owed |-> scan[v].owed]
  <1>1. PICK works \in todo[v] .. Works : Accepted(v, works)
    BY DEF Request
  <1>2. scan \in [Scans -> ScanRecord] /\ scan[v] \in ScanRecord /\ active \in BOOLEAN
    BY DEF PumpInv, CollectionTypeOK
  <1>3. joined \in ScanRecord /\ joined.view = "running" /\ joined.member /\ ~joined.stopped
    BY <1>2 DEF ScanRecord, Views
  <1>4. /\ scan' = [u \in Scans |-> IF u = v THEN joined
                                    ELSE [scan[u] EXCEPT !.member = @ /\ active]]
        /\ active' = TRUE /\ todo' = [todo EXCEPT ![v] = works]
    BY <1>1 DEF Accepted
  <1>5. \A u \in Scans : LET rest == [scan[u] EXCEPT !.member = @ /\ active] IN
            /\ rest \in ScanRecord /\ rest.member = (scan[u].member /\ active)
            /\ rest.view = scan[u].view /\ rest.owed = scan[u].owed
            /\ rest.stopped = scan[u].stopped
    BY <1>2 DEF ScanRecord
  <1> HIDE DEF joined
  <1>6. scan' \in [Scans -> ScanRecord] /\ scan'[v] = joined
    BY <1>3, <1>4, <1>5
  <1>7. \A u \in Scans : u # v =>
            /\ scan'[u].member = (scan[u].member /\ active)
            /\ scan'[u].view = scan[u].view /\ scan'[u].owed = scan[u].owed
            /\ scan'[u].stopped = scan[u].stopped
    BY <1>4, <1>5
  <1>8. todo' \in [Scans -> 0 .. Works]
    BY <1>4, PumpAssumption DEF PumpInv, CollectionTypeOK
  <1>9. requests' \in 0 .. MaxRequests
    BY PumpAssumption DEF Request, PumpInv, CollectionTypeOK
  <1>10. CollectionTypeOK'
    BY <1>4, <1>6, <1>8, <1>9 DEF Request, PumpInv, CollectionTypeOK
  <1>11. Active(v)' /\ \A u \in Scans : u # v => (Active(u)' <=> Active(u))
    BY <1>3, <1>4, <1>6, <1>7 DEF Active
  <1>12. ViewsFit'
    <2>1. RunningIsOwed'
      BY <1>7, <1>11 DEF PumpInv, ViewsFit, RunningIsOwed
    <2>2. SaveIsHonest'
      <3>1. projector' = projector /\ projector.saving \subseteq Scans
        BY DEF Request, PumpInv, CollectionTypeOK, ProjectorState
      <3>2. QED
        BY <1>7, <1>11, <3>1 DEF PumpInv, ViewsFit, SaveIsHonest
    <2>3. PassHasMember'
      BY <1>3, <1>6 DEF PassHasMember
    <2>4. QED
      BY <2>1, <2>2, <2>3 DEF ViewsFit
  <1>13. PassFits'
    <2>1. lifecycle = "free" /\ lifecycle' = c /\ UNCHANGED pump
      BY DEF Request
    <2>2. pump.at \notin {"close", "view"}
      BY <2>1 DEF PumpInv, PassFits, ClosingHoldsLock
    <2>3. QED
      BY <2>1, <2>2 DEF PassFits, ClosingHoldsLock, DrainingIsReplaced, OpenPassHasPump
  <1>14. QED
    BY <1>10, <1>12, <1>13 DEF PumpInv

LEMMA ReleaseKeeps ==
    ASSUME PumpInv, NEW c \in Users, Release(c) PROVE PumpInv'
  <1>1. /\ Kick /\ lifecycle = c /\ lifecycle' = "free" /\ c \notin {"free", "pump"}
        /\ UNCHANGED <<scan, todo, active, up, requests, mishaps, gaveUp, untold>>
    BY PumpAssumption DEF Release, journal, ghosts
  <1>2. CollectionTypeOK'
    BY <1>1, Kicked DEF PumpInv, CollectionTypeOK
  <1>3. ViewsFit'
    BY <1>1, Kicked, JournalStays DEF PumpInv
  <1>4. PassFits'
    <2>1. pump.at \notin {"close", "view"}
      BY <1>1 DEF PumpInv, PassFits, ClosingHoldsLock
    <2>2. PumpRuns' /\ (pump'.at = "collect" \/ (pump' = pump /\ restart'))
      BY <1>1, Kicked DEF PumpInv
    <2>3. QED
      BY <2>1, <2>2 DEF PassFits, ClosingHoldsLock, DrainingIsReplaced, OpenPassHasPump
  <1>5. QED
    BY <1>2, <1>3, <1>4 DEF PumpInv

LEMMA CollectKeeps == ASSUME PumpInv, NEW v \in Scans, Collect(v) PROVE PumpInv'
  <1>1. todo' \in [Scans -> 0 .. Works]
    BY PumpAssumption DEF Collect, PumpInv, CollectionTypeOK
  <1>2. CollectionTypeOK'
    BY <1>1 DEF Collect, PumpInv, CollectionTypeOK
  <1>3. ViewsFit' /\ PassFits'
    BY JournalStays, PumpStays DEF Collect, PumpInv
  <1>4. QED
    BY <1>2, <1>3 DEF PumpInv

\* The pump moves on while it collects, asks or waits.
LEMMA AdvanceKeeps ==
    ASSUME PumpInv, Collected \/ AskAgain \/ AskLast \/ Handle PROVE PumpInv'
  <1>1. UNCHANGED <<scan, todo, active, up, lifecycle, restart, dirty, full, projector,
                    requests, mishaps, gaveUp, untold>>
    BY DEF Collected, AskAgain, AskLast, Handle, journal, ghosts
  <1>2. /\ pump' \in PumpState /\ pump'.at \in {"full", "ask", "collect", "await"}
        /\ pump.at \in {"collect", "ask", "broken"}
    <2>1. pump \in PumpState
      BY DEF PumpInv, CollectionTypeOK
    <2>2. \A at \in {"full", "ask", "collect", "await"} :
            /\ [pump EXCEPT !.at = at] \in PumpState
            /\ [pump EXCEPT !.at = at].at = at
            /\ [pump EXCEPT !.at = at, !.handling = TRUE] \in PumpState
            /\ [pump EXCEPT !.at = at, !.handling = TRUE].at = at
      BY <2>1 DEF PumpState, Places
    <2>3. QED
      BY <2>2 DEF Collected, AskAgain, AskLast, Handle
  <1>4. CollectionTypeOK'
    BY <1>1, <1>2 DEF PumpInv, CollectionTypeOK
  <1>5. ViewsFit'
    BY <1>1, JournalStays DEF PumpInv
  <1>6. PassFits'
    BY <1>2 DEF PassFits, ClosingHoldsLock, DrainingIsReplaced, OpenPassHasPump, PumpRuns
  <1>7. QED
    BY <1>4, <1>5, <1>6 DEF PumpInv

LEMMA EnterKeeps == ASSUME PumpInv, Enter PROVE PumpInv'
  <1>1. /\ pump' = [pump EXCEPT !.at = "close", !.finishing = ActiveScans, !.left = ActiveScans]
        /\ lifecycle' = "pump" /\ restart' = (restart /\ ~pump.handling)
        /\ UNCHANGED <<scan, todo, active, up, dirty, full, projector,
                       requests, mishaps, gaveUp, untold>>
    BY DEF Enter, journal, ghosts
  <1>2. ActiveScans \subseteq Scans
    BY DEF ActiveScans
  <1>3. pump' \in PumpState /\ pump'.at = "close" /\ restart' \in BOOLEAN
    BY <1>1, <1>2 DEF PumpInv, CollectionTypeOK, PumpState, Places
  <1>4. CollectionTypeOK'
    BY <1>1, <1>3 DEF PumpInv, CollectionTypeOK
  <1>5. ViewsFit'
    BY <1>1, JournalStays DEF PumpInv
  <1>6. PassFits'
    BY <1>1, <1>3 DEF PassFits, ClosingHoldsLock, DrainingIsReplaced, OpenPassHasPump, PumpRuns
  <1>7. QED
    BY <1>4, <1>5, <1>6 DEF PumpInv

\* Closing the pass makes the views of its scans owed.
LEMMA FinishPassKeeps == ASSUME PumpInv, FinishPass PROVE PumpInv'
  <1>1. /\ pump.at = "close" /\ pump' = [pump EXCEPT !.at = "view"]
        /\ scan' = Closed /\ active' = FALSE
        /\ UNCHANGED <<todo, up, lifecycle, restart, dirty, full, projector,
                       requests, mishaps, gaveUp, untold>>
    BY DEF FinishPass, ghosts
  <1>2. pump' \in PumpState /\ pump'.at = "view"
    BY <1>1, PumpMoves DEF PumpInv, Places
  <1>3. \A v \in Scans :
            /\ [scan[v] EXCEPT !.owed = @ \/ Active(v)] \in ScanRecord
            /\ scan'[v].view = scan[v].view
            /\ scan'[v].owed = (scan[v].owed \/ Active(v))
            /\ scan'[v].stopped = scan[v].stopped
    <2>1. TAKE v \in Scans
    <2>2. scan[v] \in ScanRecord /\ active \in BOOLEAN
      BY DEF PumpInv, CollectionTypeOK
    <2>3. scan'[v] = [scan[v] EXCEPT !.owed = @ \/ Active(v)]
      BY <1>1 DEF Closed
    <2>4. Active(v) \in BOOLEAN
      BY <2>2 DEF Active
    <2> HIDE DEF Active
    <2>5. QED
      BY <2>2, <2>3, <2>4 DEF ScanRecord
  <1>4. scan' \in [Scans -> ScanRecord]
    BY <1>1, <1>3 DEF Closed
  <1>5. CollectionTypeOK'
    BY <1>1, <1>2, <1>4 DEF PumpInv, CollectionTypeOK
  <1>6. ViewsFit'
    <2>1. RunningIsOwed' /\ PassHasMember'
      BY <1>1, <1>3 DEF PumpInv, ViewsFit, RunningIsOwed, PassHasMember
    <2>2. SaveIsHonest'
      <3>1. projector.saving \subseteq Scans
        BY DEF PumpInv, CollectionTypeOK, ProjectorState
      <3>2. QED
        BY <1>1, <1>3, <3>1 DEF PumpInv, ViewsFit, SaveIsHonest
    <2>3. QED
      BY <2>1, <2>2 DEF ViewsFit
  <1>7. PassFits'
    BY <1>1, <1>2 DEF PumpInv, PassFits, ClosingHoldsLock, DrainingIsReplaced, OpenPassHasPump
  <1>8. QED
    BY <1>5, <1>6, <1>7 DEF PumpInv

\* A view that is saved: one that says running is honest, any other pays what is owed.
LEMMA SavedView ==
    ASSUME PumpInv, NEW v \in Scans, NEW view \in Views, scan' = Saved(v, view),
           view = "running" => Active(v) \/ scan[v].owed \/ scan[v].stopped,
           UNCHANGED active, projector'.saving = {}
    PROVE  scan' \in [Scans -> ScanRecord] /\ ViewsFit'
  <1> DEFINE row == [scan[v] EXCEPT !.view = view, !.owed = @ /\ view = "running"]
  <1>1. scan \in [Scans -> ScanRecord] /\ scan[v] \in ScanRecord
    BY DEF PumpInv, CollectionTypeOK
  <1>2. /\ row \in ScanRecord /\ row.view = view /\ row.member = scan[v].member
        /\ row.stopped = scan[v].stopped /\ row.owed = (scan[v].owed /\ view = "running")
    BY <1>1 DEF ScanRecord
  <1>3. scan' = [scan EXCEPT ![v] = row]
    BY <1>1 DEF Saved, ScanRecord
  <1> HIDE DEF row
  <1>4. /\ scan' \in [Scans -> ScanRecord] /\ scan'[v] = row
        /\ \A u \in Scans : u # v => scan'[u] = scan[u]
    BY <1>1, <1>2, <1>3
  <1>5. \A u \in Scans : Active(u)' <=> Active(u)
    BY <1>2, <1>4 DEF Active
  <1>6. RunningIsOwed'
    BY <1>2, <1>4, <1>5 DEF PumpInv, ViewsFit, RunningIsOwed
  <1>7. SaveIsHonest'
    BY DEF SaveIsHonest
  <1>8. PassHasMember'
    BY <1>2, <1>4 DEF PumpInv, ViewsFit, PassHasMember
  <1>9. QED
    BY <1>4, <1>6, <1>7, <1>8 DEF ViewsFit

LEMMA ViewIsHonest ==
    ASSUME NEW v \in Scans
    PROVE  ViewOf(v) \in Views /\ (ViewOf(v) = "running" => Active(v))
  BY DEF ViewOf, Views

LEMMA ViewKeeps == ASSUME PumpInv, NEW v \in Scans, View(v) PROVE PumpInv'
  <1>1. /\ pump' = [pump EXCEPT !.left = @ \ {v}] /\ scan' = Saved(v, ViewOf(v))
        /\ projector'.saving = {}
        /\ UNCHANGED <<todo, active, up, lifecycle, restart, dirty, full, projector,
                       requests, mishaps, gaveUp, untold>>
    BY DEF View, ghosts
  <1>2. pump' \in PumpState /\ pump'.at = pump.at
    BY <1>1 DEF PumpInv, CollectionTypeOK, PumpState
  <1>3. scan' \in [Scans -> ScanRecord] /\ ViewsFit'
    BY <1>1, ViewIsHonest, SavedView
  <1>4. CollectionTypeOK'
    BY <1>1, <1>2, <1>3 DEF PumpInv, CollectionTypeOK
  <1>5. PassFits'
    BY <1>1, <1>2 DEF PumpInv, PassFits, ClosingHoldsLock, DrainingIsReplaced,
                      OpenPassHasPump, PumpRuns
  <1>6. QED
    BY <1>3, <1>4, <1>5 DEF PumpInv

LEMMA LeaveViewsKeeps == ASSUME PumpInv, Leave PROVE PumpInv'
  <1>1. /\ pump.at = "view" /\ pump' = [pump EXCEPT !.at = "drain"]
        /\ lifecycle' = "free" /\ restart' = FALSE
        /\ UNCHANGED <<scan, todo, active, up, dirty, full, projector,
                       requests, mishaps, gaveUp, untold>>
    BY DEF Leave, journal, ghosts
  <1>2. pump' \in PumpState /\ pump'.at = "drain"
    BY <1>1, PumpMoves DEF PumpInv, Places
  <1>3. CollectionTypeOK'
    BY <1>1, <1>2 DEF PumpInv, CollectionTypeOK
  <1>4. ViewsFit'
    BY <1>1, JournalStays DEF PumpInv
  <1>5. PassFits'
    BY <1>1, <1>2 DEF PumpInv, PassFits, ClosingHoldsLock, DrainingIsReplaced, OpenPassHasPump
  <1>6. QED
    BY <1>3, <1>4, <1>5 DEF PumpInv

LEMMA InterruptedScans == ASSUME CollectionTypeOK PROVE Interrupted \subseteq Scans
  BY DEF Interrupted, CollectionTypeOK, PumpState

LEMMA FailsKeeps ==
    ASSUME PumpInv, NEW mishap \in {"full", "broken"}, Fails(mishap) PROVE PumpInv'
  <1> DEFINE at == IF pump.handling THEN "drain" ELSE mishap
  <1>1. /\ pump.at \in {"collect", "ask", "close", "view"}
        /\ pump' = [pump EXCEPT !.at = at] /\ at \in {"drain", "full", "broken"}
        /\ lifecycle' = IF lifecycle = "pump" THEN "free" ELSE lifecycle
        /\ gaveUp' = (gaveUp \/ pump.handling) /\ untold' = Interrupted
        /\ UNCHANGED <<scan, todo, active, up, restart, dirty, full, projector, requests>>
    BY DEF Fails, journal
  <1>2. pump' \in PumpState /\ pump'.at = at
    BY <1>1, PumpMoves DEF PumpInv, Places
  <1>3. mishaps' \in 0 .. MaxMishaps /\ gaveUp' \in BOOLEAN
        /\ lifecycle' \in {"free", "pump"} \cup Users
    <2>1. mishaps' = mishaps + 1 /\ mishaps < MaxMishaps
      BY DEF Fails
    <2>2. gaveUp \in BOOLEAN /\ pump.handling \in BOOLEAN
          /\ lifecycle \in {"free", "pump"} \cup Users
      BY DEF PumpInv, CollectionTypeOK, PumpState
    <2>3. QED
      BY <1>1, <2>1, <2>2, MishapCounted DEF PumpInv
  <1>4. CollectionTypeOK'
    BY <1>1, <1>2, <1>3, InterruptedScans DEF PumpInv, CollectionTypeOK
  <1>5. ViewsFit'
    BY <1>1, JournalStays DEF PumpInv
  <1>6. PassFits'
    <2>1. ClosingHoldsLock'
      BY <1>1, <1>2 DEF ClosingHoldsLock
    <2>2. at = "drain" => gaveUp'
      BY <1>1
    <2>3. DrainingIsReplaced' /\ OpenPassHasPump'
      BY <1>1, <1>2, <2>2 DEF DrainingIsReplaced, OpenPassHasPump, PumpRuns
    <2>4. QED
      BY <2>1, <2>3 DEF PassFits
  <1>7. QED
    BY <1>4, <1>5, <1>6 DEF PumpInv

\* A storage that is full stops the scans of the pass, or the attempt is given up.
LEMMA SuspendKeeps == ASSUME PumpInv, Suspend PROVE PumpInv'
  <1>1. /\ pump' = [pump EXCEPT !.at = "drain"] /\ restart' = FALSE /\ projector.at = "off"
        /\ UNCHANGED <<todo, up, lifecycle, dirty, full, projector, requests, untold>>
    BY DEF Suspend
  <1>2. pump' \in PumpState /\ pump'.at = "drain"
    BY <1>1, PumpMoves DEF PumpInv, Places
  <1>3. CASE mishaps < MaxMishaps /\ mishaps' = mishaps + 1 /\ gaveUp' = TRUE
             /\ UNCHANGED <<scan, active>>
    <2>1. CollectionTypeOK'
      BY <1>1, <1>2, <1>3, MishapCounted DEF PumpInv, CollectionTypeOK
    <2>2. ViewsFit'
      BY <1>1, <1>3, JournalStays DEF PumpInv
    <2>3. PassFits'
      BY <1>2, <1>3 DEF PassFits, ClosingHoldsLock, DrainingIsReplaced, OpenPassHasPump
    <2>4. QED
      BY <2>1, <2>2, <2>3 DEF PumpInv
  <1>4. CASE scan' = Suspended(pump.finishing) /\ active' = FALSE
             /\ UNCHANGED <<mishaps, gaveUp>>
    <2>1. ASSUME NEW v \in Scans
          PROVE  /\ scan'[v] \in ScanRecord
                 /\ scan'[v].view = scan[v].view
                 /\ scan'[v].stopped \/ (scan'[v] = scan[v] /\ ~Active(v))
      <3>1. scan[v] \in ScanRecord
        BY DEF PumpInv, CollectionTypeOK
      <3>2. scan'[v] = IF Active(v) \/ v \in pump.finishing \/ scan[v].stopped
                       THEN [scan[v] EXCEPT !.stopped = TRUE, !.owed = FALSE] ELSE scan[v]
        BY <1>4 DEF Suspended
      <3>3. LET row == [scan[v] EXCEPT !.stopped = TRUE, !.owed = FALSE] IN
            row \in ScanRecord /\ row.view = scan[v].view /\ row.stopped
        BY <3>1 DEF ScanRecord
      <3>4. QED
        BY <3>1, <3>2, <3>3
    <2>2. scan' \in [Scans -> ScanRecord]
      BY <1>4, <2>1 DEF Suspended
    <2>3. CollectionTypeOK'
      BY <1>1, <1>2, <1>4, <2>2 DEF PumpInv, CollectionTypeOK
    <2>4. RunningIsOwed' /\ PassHasMember'
      BY <1>4, <2>1 DEF PumpInv, ViewsFit, RunningIsOwed, PassHasMember
    <2>5. SaveIsHonest'
      <3>1. projector' = projector /\ projector.saving \subseteq Scans
        BY <1>1 DEF PumpInv, CollectionTypeOK, ProjectorState
      <3>2. QED
        BY <2>1, <3>1 DEF PumpInv, ViewsFit, SaveIsHonest
    <2>6. PassFits'
      BY <1>2, <1>4 DEF PassFits, ClosingHoldsLock, DrainingIsReplaced, OpenPassHasPump
    <2>7. QED
      BY <2>3, <2>4, <2>5, <2>6 DEF PumpInv, ViewsFit
  <1>5. QED
    BY <1>3, <1>4 DEF Suspend

\* The projector is stopped, with whatever it was about to save.
LEMMA ProjectorStops ==
    ASSUME PumpInv, CancelProjector \/ SaveRefused \/ ProjectorDies PROVE PumpInv'
  <1>1. /\ projector' = Off /\ full' \in BOOLEAN
        /\ UNCHANGED <<scan, todo, active, up, lifecycle, pump, restart, dirty,
                       requests, gaveUp, untold>>
    BY DEF CancelProjector, SaveRefused, ProjectorDies, journal, ghosts, PumpInv,
           CollectionTypeOK
  <1>2. mishaps' \in 0 .. MaxMishaps
    <2>1. mishaps' = mishaps \/ (mishaps < MaxMishaps /\ mishaps' = mishaps + 1)
      BY DEF CancelProjector, SaveRefused, ProjectorDies, ghosts
    <2>2. QED
      BY <2>1, MishapCounted DEF PumpInv, CollectionTypeOK
  <1>3. CollectionTypeOK'
    BY <1>1, <1>2, FreshStates DEF PumpInv, CollectionTypeOK
  <1>4. ViewsFit' /\ PassFits'
    BY <1>1, FreshStates, JournalStays, PumpStays DEF PumpInv
  <1>5. QED
    BY <1>3, <1>4 DEF PumpInv

LEMMA DrainKeeps == ASSUME PumpInv, Drain PROVE PumpInv'
  <1>1. /\ pump.at = "drain" /\ pump' = [NoPump EXCEPT !.at = "done"]
        /\ UNCHANGED <<scan, todo, active, up, lifecycle, restart, dirty, full, projector,
                       requests, mishaps, gaveUp, untold>>
    BY DEF Drain, journal, ghosts
  <1>2. pump' \in PumpState /\ pump'.at = "done"
    BY <1>1, FreshStates
  <1>3. CollectionTypeOK'
    BY <1>1, <1>2 DEF PumpInv, CollectionTypeOK
  <1>4. ViewsFit'
    BY <1>1, JournalStays DEF PumpInv
  <1>5. PassFits'
    BY <1>1, <1>2 DEF PumpInv, PassFits, ClosingHoldsLock, DrainingIsReplaced, OpenPassHasPump
  <1>6. QED
    BY <1>3, <1>4, <1>5 DEF PumpInv

LEMMA FinishedKeeps == ASSUME PumpInv, Finished PROVE PumpInv'
  <1>1. /\ pump.at = "done"
        /\ UNCHANGED <<scan, todo, active, up, lifecycle, requests, mishaps, gaveUp, untold>>
    BY DEF Finished, journal, ghosts
  <1>2. CASE restart /\ Kick
    <2>1. CollectionTypeOK'
      BY <1>1, <1>2, Kicked DEF PumpInv, CollectionTypeOK
    <2>2. ViewsFit'
      BY <1>1, <1>2, Kicked, JournalStays DEF PumpInv
    <2>3. PumpRuns' /\ (pump'.at = "collect" \/ pump' = pump)
      BY <1>2, Kicked DEF PumpInv
    <2>4. PassFits'
      BY <1>1, <2>3 DEF PassFits, ClosingHoldsLock, DrainingIsReplaced, OpenPassHasPump
    <2>5. QED
      BY <2>1, <2>2, <2>4 DEF PumpInv
  <1>3. CASE ~restart /\ pump' = NoPump /\ UNCHANGED <<restart, dirty, full, projector>>
    <2>1. CollectionTypeOK'
      BY <1>1, <1>3, FreshStates DEF PumpInv, CollectionTypeOK
    <2>2. ViewsFit'
      BY <1>1, <1>3, JournalStays DEF PumpInv
    <2>3. PassFits'
      BY <1>1, <1>3, FreshStates
      DEF PumpInv, PassFits, ClosingHoldsLock, DrainingIsReplaced, OpenPassHasPump, PumpRuns
    <2>4. QED
      BY <2>1, <2>2, <2>3 DEF PumpInv
  <1>4. QED
    BY <1>2, <1>3 DEF Finished

LEMMA ListKeeps == ASSUME PumpInv, List \/ Listed PROVE PumpInv'
  <1>1. UNCHANGED <<scan, todo, active, up, lifecycle, pump, restart, full,
                    requests, mishaps, gaveUp, untold>>
    BY DEF List, Listed, journal, ghosts
  <1>2. /\ projector' \in ProjectorState /\ dirty' \in BOOLEAN
        /\ UNCHANGED <<projector.saving, projector.view>>
    <2>1. projector \in ProjectorState /\ dirty \in BOOLEAN /\ ActiveScans \subseteq Scans
      BY DEF PumpInv, CollectionTypeOK, ActiveScans
    <2>2. QED
      BY <2>1 DEF List, Listed, ProjectorState
  <1>3. CollectionTypeOK'
    BY <1>1, <1>2 DEF PumpInv, CollectionTypeOK
  <1>4. ViewsFit' /\ PassFits'
    BY <1>1, <1>2, JournalStays, PumpStays DEF PumpInv
  <1>5. QED
    BY <1>3, <1>4 DEF PumpInv

\* What the projector reads is honest when it is read ...
LEMMA SnapshotKeeps == ASSUME PumpInv, NEW v \in Scans, Snapshot(v) PROVE PumpInv'
  <1>1. /\ projector' = [projector EXCEPT !.left = @ \ {v}, !.saving = {v}, !.view = ViewOf(v)]
        /\ UNCHANGED <<scan, todo, active, up, lifecycle, pump, restart, dirty, full,
                       requests, mishaps, gaveUp, untold>>
    BY DEF Snapshot, journal, ghosts
  <1>2. /\ projector' \in ProjectorState /\ projector'.saving = {v}
        /\ projector'.view = ViewOf(v)
    <2>1. projector \in ProjectorState
      BY DEF PumpInv, CollectionTypeOK
    <2>2. QED
      BY <1>1, <2>1, ViewIsHonest DEF ProjectorState
  <1>3. CollectionTypeOK'
    BY <1>1, <1>2 DEF PumpInv, CollectionTypeOK
  <1>4. RunningIsOwed' /\ PassHasMember'
    BY <1>1 DEF PumpInv, ViewsFit, RunningIsOwed, PassHasMember, Active
  <1>5. SaveIsHonest'
    BY <1>1, <1>2, ViewIsHonest DEF SaveIsHonest, Active
  <1>6. PassFits'
    BY <1>1, PumpStays DEF PumpInv
  <1>7. QED
    BY <1>3, <1>4, <1>5, <1>6 DEF PumpInv, ViewsFit

\* ... and still when it is saved.
LEMMA SaveKeeps == ASSUME PumpInv, NEW v \in Scans, Save(v) PROVE PumpInv'
  <1>1. /\ v \in projector.saving /\ scan' = Saved(v, projector.view)
        /\ projector' = [projector EXCEPT !.saving = {}, !.view = "unknown"]
        /\ UNCHANGED <<todo, active, up, lifecycle, pump, restart, dirty, full,
                       requests, mishaps, gaveUp, untold>>
    BY DEF Save, ghosts
  <1>2. /\ projector' \in ProjectorState /\ projector'.saving = {}
        /\ projector.view \in Views
    BY <1>1 DEF PumpInv, CollectionTypeOK, ProjectorState, Views
  <1>3. projector.view = "running" => Active(v) \/ scan[v].owed \/ scan[v].stopped
    BY <1>1 DEF PumpInv, ViewsFit, SaveIsHonest
  <1>4. scan' \in [Scans -> ScanRecord] /\ ViewsFit'
    BY <1>1, <1>2, <1>3, SavedView
  <1>5. CollectionTypeOK'
    BY <1>1, <1>2, <1>4 DEF PumpInv, CollectionTypeOK
  <1>6. PassFits'
    BY <1>1, PumpStays DEF PumpInv
  <1>7. QED
    BY <1>4, <1>5, <1>6 DEF PumpInv

LEMMA ProcessDiesKeeps == ASSUME PumpInv, ProcessDies PROVE PumpInv'
  <1>1. /\ up' = FALSE /\ lifecycle' = "free" /\ restart' = FALSE /\ dirty' = FALSE
        /\ full' = FALSE /\ pump' = NoPump /\ projector' = Off /\ gaveUp' = FALSE
        /\ untold' = Interrupted
        /\ mishaps' = mishaps + 1 /\ mishaps < MaxMishaps
        /\ UNCHANGED <<scan, todo, active, requests>>
    BY DEF ProcessDies, journal
  <1>2. CollectionTypeOK'
    BY <1>1, FreshStates, MishapCounted, InterruptedScans DEF PumpInv, CollectionTypeOK
  <1>3. ViewsFit'
    BY <1>1, FreshStates, JournalStays DEF PumpInv
  <1>4. PassFits'
    BY <1>1, FreshStates DEF PassFits, ClosingHoldsLock, DrainingIsReplaced, OpenPassHasPump
  <1>5. QED
    BY <1>2, <1>3, <1>4 DEF PumpInv

\* A pass that is open when the process starts has a scan, so that it is taken up.
LEMMA RecoverKeeps == ASSUME PumpInv, Recover PROVE PumpInv'
  <1>1. UNCHANGED <<scan, todo, active, lifecycle, requests, mishaps, gaveUp, untold>> /\ up' = TRUE
    BY DEF Recover, journal, ghosts
  <1>2. CASE ActiveScans # {} /\ Kick
    <2>1. CollectionTypeOK'
      BY <1>1, <1>2, Kicked DEF PumpInv, CollectionTypeOK
    <2>2. ViewsFit'
      BY <1>1, <1>2, Kicked, JournalStays DEF PumpInv
    <2>3. PumpRuns' /\ (pump'.at = "collect" \/ (pump' = pump /\ restart'))
      BY <1>2, Kicked DEF PumpInv
    <2>4. PassFits'
      BY <1>1, <2>3 DEF PumpInv, PassFits, ClosingHoldsLock, DrainingIsReplaced, OpenPassHasPump
    <2>5. QED
      BY <2>1, <2>2, <2>4 DEF PumpInv
  <1>3. CASE ActiveScans = {} /\ UNCHANGED <<pump, projector, restart, dirty, full>>
    <2>1. ~active
      BY <1>3 DEF PumpInv, ViewsFit, PassHasMember, ActiveScans, Active
    <2>2. CollectionTypeOK'
      BY <1>1, <1>3 DEF PumpInv, CollectionTypeOK
    <2>3. ViewsFit'
      BY <1>1, <1>3, JournalStays DEF PumpInv
    <2>4. PassFits'
      BY <1>1, <1>3, <2>1
      DEF PumpInv, PassFits, ClosingHoldsLock, DrainingIsReplaced, OpenPassHasPump
    <2>5. QED
      BY <2>2, <2>3, <2>4 DEF PumpInv
  <1>4. QED
    BY <1>2, <1>3 DEF Recover

LEMMA CollectionInitFits == CollectionInit => PumpInv
  <1> SUFFICES ASSUME CollectionInit PROVE PumpInv
    OBVIOUS
  <1>1. CollectionTypeOK
    <2>1. [view |-> "unknown", member |-> FALSE, stopped |-> FALSE, owed |-> FALSE]
            \in ScanRecord
      BY DEF ScanRecord, Views
    <2>2. scan \in [Scans -> ScanRecord]
      BY <2>1 DEF CollectionInit
    <2>3. todo \in [Scans -> 0 .. Works] /\ requests \in 0 .. MaxRequests
          /\ mishaps \in 0 .. MaxMishaps
      BY PumpAssumption DEF CollectionInit
    <2>4. QED
      BY <2>2, <2>3, FreshStates DEF CollectionInit, CollectionTypeOK
  <1>2. ViewsFit
    BY FreshStates DEF CollectionInit, ViewsFit, RunningIsOwed, SaveIsHonest, PassHasMember
  <1>3. PassFits
    BY FreshStates
    DEF CollectionInit, PassFits, ClosingHoldsLock, DrainingIsReplaced, OpenPassHasPump
  <1>4. QED
    BY <1>1, <1>2, <1>3 DEF PumpInv

LEMMA CollectionStepFits == PumpInv /\ [CollectionNext]_collectionVars => PumpInv'
  <1> SUFFICES ASSUME PumpInv, [CollectionNext]_collectionVars PROVE PumpInv'
    OBVIOUS
  <1>1. ASSUME NEW c \in Users, NEW v \in Scans, Request(c, v) PROVE PumpInv'
    BY <1>1, RequestKeeps
  <1>2. ASSUME NEW c \in Users, Release(c) PROVE PumpInv'
    BY <1>2, ReleaseKeeps
  <1>3. CASE PumpNext
    BY <1>3, CollectKeeps, ViewKeeps, AdvanceKeeps, EnterKeeps, FinishPassKeeps,
       LeaveViewsKeeps, SuspendKeeps, ProjectorStops, DrainKeeps, FinishedKeeps DEF PumpNext
  <1>4. CASE ProjectorNext
    BY <1>4, ListKeeps, SnapshotKeeps, SaveKeeps DEF ProjectorNext
  <1>5. CASE Mishap
    BY <1>5, FailsKeeps, ProjectorStops, ProcessDiesKeeps DEF Mishap
  <1>6. CASE Recover
    BY <1>6, RecoverKeeps
  <1>7. CASE UNCHANGED collectionVars
    <2>1. UNCHANGED <<scan, todo, active, up, lifecycle, pump, restart, dirty, full, projector,
                      requests, mishaps, gaveUp, untold>>
      BY <1>7 DEF collectionVars, journal, process, ghosts
    <2>2. CollectionTypeOK'
      BY <2>1 DEF PumpInv, CollectionTypeOK
    <2>3. ViewsFit' /\ PassFits'
      BY <2>1, JournalStays, PumpStays DEF PumpInv
    <2>4. QED
      BY <2>2, <2>3 DEF PumpInv
  <1>8. QED
    BY <1>1, <1>2, <1>3, <1>4, <1>5, <1>6, <1>7 DEF CollectionNext

\* The inductive invariant holds in every state.
LEMMA PumpInvHolds == CollectionSpec => []PumpInv
  BY CollectionInitFits, CollectionStepFits, PTL DEF CollectionSpec

-----------------------------------------------------------------------------
(* CollectionPump: views that are stale when they are saved *)

AtStake(v) == todo[v] > 0 /\ ~scan[v].stopped /\ v \notin untold
Retold(v) == Active(v) \/ (pump.at = "view" /\ v \in pump.left)

\* A stale view about to be saved will be replaced as well.
StaleSaveIsReplaced ==
    \A v \in projector.saving : projector.view = "completed" /\ AtStake(v) => Retold(v)

\* A pump that closes the pass views all scans of the pass.
ClosingViewsAll == pump.at = "close" => \A v \in Scans : Active(v) => v \in pump.left

StaleInv == StaleViewIsReplaced /\ StaleSaveIsReplaced /\ ClosingViewsAll

\* A step that leaves the views alone, and abandons none that has yet to be made.
LEMMA StaleViewsStay ==
    ASSUME PumpInv, StaleInv, UNCHANGED <<scan, active>>, untold \subseteq untold',
           \A v \in Scans : todo'[v] > 0 => todo[v] > 0,
           projector'.saving = {} \/ UNCHANGED <<projector.saving, projector.view>>,
           \A v \in pump.left :
                pump.at = "view" => (pump'.at = "view" /\ v \in pump'.left) \/ v \in untold',
           pump'.at = "close" => \A v \in Scans : Active(v) => v \in pump'.left
    PROVE  StaleInv'
  <1>1. projector.saving \subseteq Scans
    BY DEF PumpInv, CollectionTypeOK, ProjectorState
  <1>2. \A v \in Scans : Active(v)' = Active(v)
    BY DEF Active
  <1>3. \A v \in Scans : AtStake(v)' => AtStake(v) /\ (Retold(v) => Retold(v)')
    BY <1>2 DEF AtStake, Retold
  <1>4. StaleViewIsReplaced'
    BY <1>3 DEF StaleInv, StaleViewIsReplaced, AtStake, Retold
  <1>5. StaleSaveIsReplaced'
    BY <1>1, <1>3 DEF StaleInv, StaleSaveIsReplaced
  <1>6. ClosingViewsAll'
    BY <1>2 DEF ClosingViewsAll
  <1>7. QED
    BY <1>4, <1>5, <1>6 DEF StaleInv

LEMMA StaleKick ==
    ASSUME PumpInv, Kick
    PROVE  /\ projector'.saving = {} \/ UNCHANGED <<projector.saving, projector.view>>
           /\ pump'.at = "collect" \/ UNCHANGED pump
           /\ pump.at = "view" => UNCHANGED pump
  BY Kicked DEF PumpInv, Kick, PumpRuns

\* Whoever asks for a scan puts it into the open pass.
LEMMA StaleRequest ==
    ASSUME PumpInv, StaleInv, NEW c \in Users, NEW v \in Scans, Request(c, v)
    PROVE  StaleInv'
  <1>1. PICK works \in todo[v] .. Works : Accepted(v, works)
    BY DEF Request
  <1>2. /\ lifecycle = "free" /\ UNCHANGED <<pump, projector>> /\ untold' = untold \ {v}
    BY DEF Request
  <1>3. /\ scan \in [Scans -> ScanRecord] /\ todo \in [Scans -> 0 .. Works]
        /\ projector.saving \subseteq Scans
    BY DEF PumpInv, CollectionTypeOK, ProjectorState
  <1>4. \A u \in Scans : LET rest == [scan[u] EXCEPT !.member = @ /\ active] IN
            /\ rest.member = (scan[u].member /\ active) /\ rest.view = scan[u].view
            /\ rest.stopped = scan[u].stopped
    BY <1>3 DEF ScanRecord
  <1>5. /\ active' /\ scan'[v].member /\ scan'[v].view = "running"
        /\ \A u \in Scans : u # v =>
                /\ scan'[u].member = (scan[u].member /\ active)
                /\ scan'[u].view = scan[u].view /\ scan'[u].stopped = scan[u].stopped
                /\ todo'[u] = todo[u]
    BY <1>1, <1>3, <1>4 DEF Accepted
  <1>6. Active(v)' /\ \A u \in Scans : u # v => (Active(u)' <=> Active(u))
    BY <1>5 DEF Active
  <1>7. \A u \in Scans : u # v => (AtStake(u)' <=> AtStake(u)) /\ (Retold(u)' <=> Retold(u))
    BY <1>2, <1>5, <1>6 DEF AtStake, Retold
  <1>8. Retold(v)'
    BY <1>6 DEF Retold
  <1>9. StaleViewIsReplaced'
    BY <1>5, <1>7 DEF StaleInv, StaleViewIsReplaced, AtStake, Retold
  <1>10. StaleSaveIsReplaced'
    BY <1>2, <1>3, <1>7, <1>8 DEF StaleInv, StaleSaveIsReplaced
  <1>11. ClosingViewsAll'
    BY <1>2 DEF PumpInv, PassFits, ClosingHoldsLock, ClosingViewsAll
  <1>12. QED
    BY <1>9, <1>10, <1>11 DEF StaleInv

\* The scans of the pass that is closed are those that will be viewed.
LEMMA StaleFinishPass == ASSUME PumpInv, StaleInv, FinishPass PROVE StaleInv'
  <1>1. /\ pump.at = "close" /\ scan' = Closed /\ UNCHANGED <<todo, projector, untold>>
        /\ pump' = [pump EXCEPT !.at = "view"]
    BY DEF FinishPass, ghosts
  <1>2. /\ pump'.at = "view" /\ pump'.left = pump.left /\ projector.saving \subseteq Scans
        /\ scan \in [Scans -> ScanRecord]
    BY <1>1 DEF PumpInv, CollectionTypeOK, PumpState, ProjectorState
  <1>3. \A v \in Scans : scan'[v].view = scan[v].view /\ scan'[v].stopped = scan[v].stopped
    BY <1>1, <1>2 DEF Closed, ScanRecord
  <1>4. \A v \in Scans : (AtStake(v)' <=> AtStake(v)) /\ (Retold(v) => Retold(v)')
    BY <1>1, <1>2, <1>3 DEF StaleInv, ClosingViewsAll, AtStake, Retold
  <1>5. StaleViewIsReplaced'
    BY <1>3, <1>4 DEF StaleInv, StaleViewIsReplaced, AtStake, Retold
  <1>6. StaleSaveIsReplaced'
    BY <1>1, <1>2, <1>4 DEF StaleInv, StaleSaveIsReplaced
  <1>7. ClosingViewsAll'
    BY <1>2 DEF ClosingViewsAll
  <1>8. QED
    BY <1>5, <1>6, <1>7 DEF StaleInv

\* What a save changes: the view of one scan, and what it is owed.
LEMMA SavedRow ==
    ASSUME CollectionTypeOK, NEW v \in Scans, NEW view \in Views, scan' = Saved(v, view),
           UNCHANGED <<active, todo, untold>>
    PROVE  /\ scan'[v].view = view
           /\ \A u \in Scans : u # v => scan'[u].view = scan[u].view
           /\ \A u \in Scans : (AtStake(u)' <=> AtStake(u)) /\ (Active(u)' <=> Active(u))
  <1>1. scan \in [Scans -> ScanRecord]
    BY DEF CollectionTypeOK
  <1>2. /\ scan'[v].view = view /\ scan'[v].member = scan[v].member
        /\ scan'[v].stopped = scan[v].stopped
        /\ \A u \in Scans : u # v => scan'[u] = scan[u]
    BY <1>1 DEF Saved, ScanRecord
  <1>3. QED
    BY <1>2 DEF AtStake, Active

\* The view of a pump is made while nobody may continue the scan, or save an older
\* view of it later.
LEMMA StaleView == ASSUME PumpInv, StaleInv, NEW v \in Scans, View(v) PROVE StaleInv'
  <1>1. /\ scan' = Saved(v, ViewOf(v)) /\ pump' = [pump EXCEPT !.left = @ \ {v}]
        /\ pump.at = "view" /\ projector'.saving = {} /\ UNCHANGED <<active, todo, untold>>
    BY DEF View, ghosts
  <1>2. pump'.at = "view" /\ pump'.left = pump.left \ {v}
    BY <1>1 DEF PumpInv, CollectionTypeOK, PumpState
  <1>3. /\ scan'[v].view = ViewOf(v)
        /\ \A u \in Scans : u # v => scan'[u].view = scan[u].view
        /\ \A u \in Scans : (AtStake(u)' <=> AtStake(u)) /\ (Active(u)' <=> Active(u))
    BY <1>1, ViewIsHonest, SavedRow DEF PumpInv
  <1>4. \A u \in Scans : u # v => (Retold(u)' <=> Retold(u))
    BY <1>1, <1>2, <1>3 DEF Retold
  <1>5. ~(ViewOf(v) = "completed" /\ AtStake(v))
    BY DEF ViewOf, AtStake
  <1>6. StaleViewIsReplaced'
    BY <1>3, <1>4, <1>5 DEF StaleInv, StaleViewIsReplaced, AtStake, Retold
  <1>7. StaleSaveIsReplaced' /\ ClosingViewsAll'
    BY <1>1, <1>2 DEF StaleSaveIsReplaced, ClosingViewsAll
  <1>8. QED
    BY <1>6, <1>7 DEF StaleInv

LEMMA StaleSuspend == ASSUME PumpInv, StaleInv, Suspend PROVE StaleInv'
  <1>1. /\ pump.at = "full" /\ pump' = [pump EXCEPT !.at = "drain"]
        /\ UNCHANGED <<todo, projector, untold>>
        /\ (scan' = Suspended(pump.finishing) /\ active' = FALSE) \/ UNCHANGED <<scan, active>>
    BY DEF Suspend
  <1>2. pump'.at = "drain" /\ projector.saving \subseteq Scans
    BY <1>1, PumpMoves DEF PumpInv, CollectionTypeOK, ProjectorState, Places
  <1>3. CASE UNCHANGED <<scan, active>>
    BY <1>1, <1>2, <1>3, StaleViewsStay
  <1>4. CASE scan' = Suspended(pump.finishing) /\ active' = FALSE
    <2>1. \A v \in Scans : /\ scan'[v].view = scan[v].view
                           /\ scan'[v].stopped \/ (scan'[v] = scan[v] /\ ~Active(v))
      BY <1>4 DEF Suspended, PumpInv, CollectionTypeOK, ScanRecord
    <2>2. \A v \in Scans : AtStake(v)' => AtStake(v) /\ ~Retold(v)
      BY <1>1, <2>1 DEF AtStake, Retold
    <2>3. StaleViewIsReplaced'
      BY <2>1, <2>2 DEF StaleInv, StaleViewIsReplaced, AtStake, Retold
    <2>4. StaleSaveIsReplaced'
      BY <1>1, <1>2, <2>2 DEF StaleInv, StaleSaveIsReplaced
    <2>5. QED
      BY <1>2, <2>3, <2>4 DEF StaleInv, ClosingViewsAll
  <1>5. QED
    BY <1>1, <1>3, <1>4

\* What a snapshot says is true when it is taken.
LEMMA StaleSnapshot == ASSUME PumpInv, StaleInv, NEW v \in Scans, Snapshot(v) PROVE StaleInv'
  <1>1. /\ projector' = [projector EXCEPT !.left = @ \ {v}, !.saving = {v}, !.view = ViewOf(v)]
        /\ UNCHANGED <<scan, todo, active, pump, untold>>
    BY DEF Snapshot, journal, ghosts
  <1>2. projector'.saving = {v} /\ projector'.view = ViewOf(v)
    BY <1>1 DEF PumpInv, CollectionTypeOK, ProjectorState
  <1>3. \A u \in Scans : /\ AtStake(u)' <=> AtStake(u)
                         /\ Retold(u)' <=> Retold(u)
                         /\ Active(u)' <=> Active(u)
    BY <1>1 DEF AtStake, Retold, Active
  <1>4. ~(ViewOf(v) = "completed" /\ AtStake(v))
    BY DEF ViewOf, AtStake
  <1>5. StaleViewIsReplaced' /\ ClosingViewsAll'
    BY <1>1, <1>3 DEF StaleInv, StaleViewIsReplaced, ClosingViewsAll, AtStake, Retold
  <1>6. StaleSaveIsReplaced'
    BY <1>2, <1>3, <1>4 DEF StaleSaveIsReplaced
  <1>7. QED
    BY <1>5, <1>6 DEF StaleInv

LEMMA StaleSave == ASSUME PumpInv, StaleInv, NEW v \in Scans, Save(v) PROVE StaleInv'
  <1>1. /\ v \in projector.saving /\ scan' = Saved(v, projector.view)
        /\ projector' = [projector EXCEPT !.saving = {}, !.view = "unknown"]
        /\ UNCHANGED <<active, todo, pump, untold>>
    BY DEF Save, ghosts
  <1>2. projector.view \in Views /\ projector'.saving = {}
    BY <1>1 DEF PumpInv, CollectionTypeOK, ProjectorState
  <1>3. /\ scan'[v].view = projector.view
        /\ \A u \in Scans : u # v => scan'[u].view = scan[u].view
        /\ \A u \in Scans : (AtStake(u)' <=> AtStake(u)) /\ (Active(u)' <=> Active(u))
    BY <1>1, <1>2, SavedRow DEF PumpInv
  <1>4. \A u \in Scans : Retold(u)' <=> Retold(u)
    BY <1>1, <1>3 DEF Retold
  <1>5. StaleViewIsReplaced'
    BY <1>1, <1>3, <1>4
    DEF StaleInv, StaleViewIsReplaced, StaleSaveIsReplaced, AtStake, Retold
  <1>6. StaleSaveIsReplaced' /\ ClosingViewsAll'
    BY <1>1, <1>2, <1>3 DEF StaleInv, StaleSaveIsReplaced, ClosingViewsAll
  <1>7. QED
    BY <1>5, <1>6 DEF StaleInv

LEMMA StaleCollect == ASSUME PumpInv, StaleInv, NEW v \in Scans, Collect(v) PROVE StaleInv'
  <1>1. /\ todo[v] > 0 /\ todo' = [todo EXCEPT ![v] = @ - 1] /\ pump.at = "collect"
        /\ UNCHANGED <<scan, active, pump, projector, untold>>
    BY DEF Collect
  <1>2. \A u \in Scans : todo'[u] > 0 => todo[u] > 0
    BY <1>1 DEF PumpInv, CollectionTypeOK
  <1>3. QED
    BY <1>1, <1>2, StaleViewsStay

\* The pump moves on: it enters with all scans of the pass, and leaves with none.
LEMMA StalePump ==
    ASSUME PumpInv, StaleInv,
           \/ Collected \/ AskAgain \/ AskLast \/ Enter \/ Leave
           \/ Handle \/ CancelProjector \/ Drain \/ Finished
    PROVE  StaleInv'
  <1> USE DEF journal, ghosts
  <1>1. CASE Collected \/ AskAgain \/ AskLast \/ Handle
    <2>1. /\ pump.at \notin {"close", "view"} /\ pump'.at \notin {"close", "view"}
          /\ UNCHANGED <<scan, active, todo, projector, untold>>
      BY <1>1, PumpMoves DEF Collected, AskAgain, AskLast, Handle, PumpInv, CollectionTypeOK,
                             PumpState, Places
    <2>2. QED
      BY <2>1, StaleViewsStay
  <1>2. CASE Enter
    <2>1. /\ pump.at = "await" /\ UNCHANGED <<scan, active, todo, projector, untold>>
          /\ pump' = [pump EXCEPT !.at = "close", !.finishing = ActiveScans, !.left = ActiveScans]
      BY <1>2 DEF Enter
    <2>2. pump'.left = ActiveScans
      BY <2>1 DEF PumpInv, CollectionTypeOK, PumpState
    <2>3. QED
      BY <2>1, <2>2, StaleViewsStay DEF ActiveScans
  <1>3. CASE Leave
    <2>1. /\ pump.left = {} /\ pump'.at = "drain"
          /\ UNCHANGED <<scan, active, todo, projector, untold>>
      BY <1>3 DEF Leave, PumpInv, CollectionTypeOK, PumpState
    <2>2. QED
      BY <2>1, StaleViewsStay
  <1>4. CASE CancelProjector
    <2>1. /\ projector' = Off /\ Off.saving = {}
          /\ UNCHANGED <<scan, active, todo, pump, untold>>
      BY <1>4, FreshStates DEF CancelProjector
    <2>2. QED
      BY <2>1, StaleViewsStay DEF StaleInv, ClosingViewsAll
  <1>5. CASE Drain
    <2>1. /\ pump.at = "drain" /\ pump'.at = "done"
          /\ UNCHANGED <<scan, active, todo, projector, untold>>
      BY <1>5, FreshStates DEF Drain
    <2>2. QED
      BY <2>1, StaleViewsStay
  <1>6. CASE Finished
    <2>1. /\ pump.at = "done" /\ pump'.at # "close" /\ UNCHANGED <<scan, active, todo, untold>>
          /\ projector'.saving = {} \/ UNCHANGED <<projector.saving, projector.view>>
      BY <1>6, StaleKick, FreshStates DEF Finished
    <2>2. QED
      BY <2>1, StaleViewsStay
  <1>7. QED
    BY <1>1, <1>2, <1>3, <1>4, <1>5, <1>6

\* Whatever fails, and when the process dies, views that were not made are untold.
LEMMA StaleMishap == ASSUME PumpInv, StaleInv, Mishap PROVE StaleInv'
  <1> USE DEF journal
  <1>1. ASSUME NEW mishap \in {"full", "broken"}, Fails(mishap) PROVE StaleInv'
    <2>1. /\ UNCHANGED <<scan, active, todo, projector>> /\ untold' = Interrupted
          /\ pump'.at \in {"drain", "full", "broken"}
      BY <1>1 DEF Fails, PumpInv, CollectionTypeOK, PumpState
    <2>2. QED
      BY <2>1, StaleViewsStay DEF Interrupted
  <1>2. CASE ProcessDies
    <2>1. /\ UNCHANGED <<scan, active, todo>> /\ untold' = Interrupted
          /\ pump' = NoPump /\ projector' = Off
      BY <1>2 DEF ProcessDies
    <2>2. pump'.at = "none" /\ projector'.saving = {}
      BY <2>1, FreshStates
    <2>3. QED
      BY <2>1, <2>2, StaleViewsStay DEF Interrupted
  <1>3. CASE SaveRefused \/ ProjectorDies
    <2>1. UNCHANGED <<scan, active, todo, pump, untold>> /\ projector'.saving = {}
      BY <1>3, FreshStates DEF SaveRefused, ProjectorDies
    <2>2. QED
      BY <2>1, StaleViewsStay DEF StaleInv, ClosingViewsAll
  <1>4. QED
    BY <1>1, <1>2, <1>3 DEF Mishap

LEMMA StaleStepFits == PumpInv /\ StaleInv /\ [CollectionNext]_collectionVars => StaleInv'
  <1> SUFFICES ASSUME PumpInv, StaleInv, [CollectionNext]_collectionVars PROVE StaleInv'
    OBVIOUS
  <1>1. ASSUME NEW c \in Users, NEW v \in Scans, Request(c, v) PROVE StaleInv'
    BY <1>1, StaleRequest
  <1>2. CASE (\E c \in Users : Release(c)) \/ Recover
    <2>1. CASE UNCHANGED <<pump, projector>>
      <3>1. UNCHANGED <<scan, active, todo, pump, projector, untold>>
        BY <1>2, <2>1 DEF Release, Recover, journal, ghosts
      <3>2. QED
        BY <3>1, StaleViewsStay DEF StaleInv, ClosingViewsAll
    <2>2. CASE Kick
      <3>1. UNCHANGED <<scan, active, todo, untold>>
        BY <1>2 DEF Release, Recover, journal, ghosts
      <3>2. QED
        BY <2>2, <3>1, StaleKick, StaleViewsStay DEF StaleInv, ClosingViewsAll
    <2>3. QED
      BY <1>2, <2>1, <2>2 DEF Release, Recover
  <1>3. CASE PumpNext
    BY <1>3, StaleCollect, StaleView, StalePump, StaleFinishPass, StaleSuspend DEF PumpNext
  <1>4. CASE ProjectorNext
    <2>1. CASE List \/ Listed
      <3>1. /\ UNCHANGED <<scan, active, todo, pump, untold>>
            /\ UNCHANGED <<projector.saving, projector.view>>
        BY <2>1 DEF List, Listed, journal, ghosts, PumpInv, CollectionTypeOK, ProjectorState
      <3>2. QED
        BY <3>1, StaleViewsStay DEF StaleInv, ClosingViewsAll
    <2>2. QED
      BY <1>4, <2>1, StaleSnapshot, StaleSave DEF ProjectorNext
  <1>5. CASE Mishap
    BY <1>5, StaleMishap
  <1>6. CASE UNCHANGED collectionVars
    <2>1. UNCHANGED <<scan, active, todo, pump, projector, untold>>
      BY <1>6 DEF collectionVars, journal, process, ghosts
    <2>2. QED
      BY <2>1, StaleViewsStay DEF StaleInv, ClosingViewsAll
  <1>7. QED
    BY <1>1, <1>2, <1>3, <1>4, <1>5, <1>6 DEF CollectionNext

LEMMA StaleInvHolds == CollectionSpec => []StaleInv
  <1>1. CollectionInit => StaleInv
    BY FreshStates
    DEF CollectionInit, StaleInv, StaleViewIsReplaced, StaleSaveIsReplaced, ClosingViewsAll
  <1>2. QED
    BY <1>1, StaleStepFits, PumpInvHolds, PTL DEF CollectionSpec

\* Every variable of the collection has its type.
THEOREM CollectionIsTyped == CollectionSpec => []CollectionTypeOK
  <1>1. PumpInv => CollectionTypeOK
    BY DEF PumpInv
  <1>2. QED
    BY <1>1, PumpInvHolds, PTL

\* A scan that reads as running, or wrongly as completed, has someone to finish it,
\* though a projector may save a view it read before the pass was closed or the scan
\* was continued; and an open pass always has a pump that
\* will close it, one that is about to be replaced, or a user about to start it,
\* whatever fails and whenever the process dies (ResumableDiscovery).
THEOREM ScansStayOwed == CollectionSpec => []ScansAreOwed
  <1>1. PumpInv /\ StaleInv => ScansAreOwed
    BY DEF PumpInv, ViewsFit, PassFits, StaleInv, ScansAreOwed
  <1>2. QED
    BY <1>1, PumpInvHolds, StaleInvHolds, PTL

-----------------------------------------------------------------------------
(* CollectionRotation: whose turn it is *)

\* Numbers have a least one.
LEMMA LeastNumber ==
    ASSUME NEW T \in SUBSET Nat, T # {}
    PROVE  \E n \in T : \A m \in T : n <= m
  <1> DEFINE R == {ss \in Nat \X Nat : ss[1] < ss[2]}
  <1>1. IsWellFoundedOn(R, Nat)
    BY NatLessThanWellFounded DEF OpToRel
  <1>2. \A m, n \in Nat : <<m, n>> \notin R => n <= m
    OBVIOUS
  <1> HIDE DEF R
  <1>3. PICK n \in T : \A m \in T : ~(<<m, n>> \in R)
    BY <1>1, WFMin
  <1>4. ASSUME NEW m \in T PROVE n <= m
    BY <1>2, <1>3
  <1>5. QED
    BY <1>4

\* Among sources there is one that precedes the others: the one whose latest turn
\* is oldest and, of those, the first in the order of names.
LEMMA FirstPrecedes ==
    ASSUME last \in [Sources -> Nat], NEW S \in SUBSET Sources, S # {}
    PROVE  First(S) \in S /\ \A t \in S : Precedes(First(S), t)
  <1>1. PICK n \in {last[s] : s \in S} : \A m \in {last[s] : s \in S} : n <= m
    <2>1. {last[s] : s \in S} \in SUBSET Nat /\ {last[s] : s \in S} # {}
      OBVIOUS
    <2>2. QED
      BY <2>1, LeastNumber
  <1> DEFINE oldest == {s \in S : last[s] = n}
  <1>2. PICK b \in {Before[s] : s \in oldest} : \A m \in {Before[s] : s \in oldest} : b <= m
    <2>1. {Before[s] : s \in oldest} \in SUBSET Nat /\ {Before[s] : s \in oldest} # {}
      BY <1>1, RotationAssumption
    <2>2. QED
      BY <2>1, LeastNumber
  <1>3. PICK s \in S : last[s] = n /\ Before[s] = b
    BY <1>2
  <1>4. ASSUME NEW t \in S PROVE Precedes(s, t)
    <2>1. last[s] <= last[t] /\ last[s] \in Nat /\ last[t] \in Nat
      BY <1>1, <1>3
    <2>2. last[t] = last[s] => Before[s] <= Before[t]
      BY <1>2, <1>3
    <2>3. QED
      BY <2>1, <2>2 DEF Precedes
  <1>5. QED
    BY <1>4 DEF First

\* What a source was remembered by, and that it does not wait for those that were
\* served before its own latest turn.
TurnsAreRemembered ==
    /\ \A s \in Sources : last[s] <= claimed
    /\ \A s \in Sources, c \in Classes : \A t \in ahead[s][c] : last[t] > last[s]

\* How often a class may have been passed over when the position of ten is d.
Overdue(c, d) ==
    IF c = 3 THEN (IF d = 0 THEN 3 ELSE IF d = 9 THEN 2 ELSE IF d \in {5, 8} THEN 1 ELSE 0)
    ELSE IF c = 2 THEN (IF d < 5 THEN d ELSE d - 5)
    ELSE IF c = 1 THEN (IF d < 8 THEN d + 2 ELSE d - 8)
    ELSE (IF d < 9 THEN d + 1 ELSE 0)

\* What was passed over has its position in ten, and in three, to look forward to.
PositionsAreKept ==
    /\ \A c \in Classes : passed[c] <= Overdue(c, claimed % 10)
    /\ skipped["initial"] <= 2
    /\ skipped["citation"] <= 1
    /\ used < Budget =>
        /\ used % 3 # 0 => skipped["initial"] <= (used % 3) - 1
        /\ used % 3 # 1 => skipped["citation"] = 0

RotationInv == RotationTypeOK /\ TurnsAreRemembered /\ PositionsAreKept

\* The positions of ten, and of three, follow each other.
LEMMA NextPosition ==
    ASSUME NEW n \in Nat
    PROVE  /\ n % 10 \in 0..9 /\ n % 3 \in 0..2
           /\ (n + 1) % 10 = IF n % 10 = 9 THEN 0 ELSE (n % 10) + 1
           /\ (n + 1) % 3 = IF n % 3 = 2 THEN 0 ELSE (n % 3) + 1
  OBVIOUS

LEMMA RotationInitFits == RotationInit => RotationInv
  <1> SUFFICES ASSUME RotationInit PROVE RotationInv
    OBVIOUS
  <1>1. RotationTypeOK
    BY RotationAssumption DEF RotationInit, RotationTypeOK, Classes, Shares, Kinds
  <1>2. TurnsAreRemembered
    BY DEF RotationInit, TurnsAreRemembered
  <1>3. claimed % 10 = 0 /\ used % 3 = 0
    BY DEF RotationInit
  <1>4. PositionsAreKept
    BY <1>3 DEF RotationInit, PositionsAreKept, Overdue, Classes, Shares
  <1>5. QED
    BY <1>1, <1>2, <1>4 DEF RotationInv

\* Positions 4 and 9 prefer class 2, position 7 class 1, position 8 class 0.
LEMMA PreferredAt ==
    ASSUME NEW n \in Nat
    PROVE  /\ n % 10 \in {4, 9} => Preferred(n) = {2}
           /\ n % 10 = 7 => Preferred(n) = {1}
           /\ n % 10 = 8 => Preferred(n) = {0}
           /\ n % 10 \notin {4, 7, 8, 9} => Preferred(n) = {}
  BY DEF Preferred

\* The class a claim serves has ready work; a class it passes over although it has is
\* neither the preferred one nor, where none is preferred, the highest.
LEMMA ChosenIsOffered ==
    ASSUME RotationTypeOK, ready # {}
    PROVE  /\ Chosen \in Classes /\ InClass(Chosen) # {}
           /\ \A c \in Classes : InClass(c) # {} /\ c # Chosen =>
                /\ c \notin Preferred(claimed)
                /\ Preferred(claimed) = {} => c < Chosen
  <1> DEFINE offered == {c \in Classes : InClass(c) # {}}
             wanted == Preferred(claimed) \cap offered
  <1>1. claimed \in Nat /\ (Preferred(claimed) = {} \/ \E c \in Classes : Preferred(claimed) = {c})
    <2>1. claimed \in Nat
      BY RotationAssumption DEF RotationTypeOK
    <2>2. QED
      BY <2>1, PreferredAt DEF Classes
  <1>2. offered # {} /\ offered \subseteq Classes
    BY RotationAssumption DEF RotationTypeOK, InClass
  <1>3. \E c \in offered : \A d \in offered : d <= c
    BY <1>2 DEF Classes
  <1>4. Chosen = IF wanted # {} THEN CHOOSE c \in wanted : TRUE
                 ELSE CHOOSE c \in offered : \A d \in offered : d <= c
    BY DEF Chosen
  <1>5. \A c \in offered : c \in Classes /\ InClass(c) # {}
    OBVIOUS
  <1>6. \A c \in Classes : InClass(c) # {} => c \in offered
    OBVIOUS
  <1> HIDE DEF offered
  <1>7. CASE wanted # {}
    <2>1. Chosen \in wanted
      BY <1>4, <1>7
    <2>2. Preferred(claimed) = {Chosen}
      BY <1>1, <2>1
    <2>3. QED
      BY <1>5, <2>1, <2>2
  <1>8. CASE wanted = {}
    <2>1. Chosen \in offered /\ \A d \in offered : d <= Chosen
      BY <1>3, <1>4, <1>8
    <2>2. \A c \in offered : c \notin Preferred(claimed)
      BY <1>8
    <2>3. QED
      BY <1>2, <1>5, <1>6, <2>1, <2>2 DEF Classes
  <1>9. QED
    BY <1>7, <1>8

\* A class with ready work that is passed over has its turn in time.
LEMMA OverdueGrows ==
    ASSUME RotationTypeOK, ready # {}, NEW c \in Classes, InClass(c) # {}, c # Chosen
    PROVE  Overdue(c, claimed % 10) + 1 <= Overdue(c, (claimed + 1) % 10)
  <1>1. claimed \in Nat
    BY RotationAssumption DEF RotationTypeOK
  <1>2. /\ claimed % 10 \in 0..9
        /\ (claimed + 1) % 10 = IF claimed % 10 = 9 THEN 0 ELSE (claimed % 10) + 1
    BY <1>1, NextPosition
  <1>3. c \notin Preferred(claimed) /\ (Preferred(claimed) = {} => c < Chosen) /\ Chosen \in Classes
    BY ChosenIsOffered
  <1>4. /\ c = 2 => claimed % 10 \notin {4, 9}
        /\ c = 1 => claimed % 10 # 7
        /\ c = 0 => claimed % 10 # 8
        /\ c = 3 => claimed % 10 \in {4, 7, 8, 9}
    BY <1>1, <1>3, PreferredAt DEF Classes
  <1> DEFINE d == claimed % 10
             e == (claimed + 1) % 10
  <1>5. d \in 0..9 /\ e = IF d = 9 THEN 0 ELSE d + 1
    BY <1>2
  <1>6. /\ c = 2 => d \notin {4, 9}
        /\ c = 1 => d # 7
        /\ c = 0 => d # 8
        /\ c = 3 => d \in {4, 7, 8, 9}
    BY <1>4
  <1> HIDE DEF d, e
  <1>7. Overdue(c, d) + 1 <= Overdue(c, e)
    BY <1>5, <1>6 DEF Overdue, Classes
  <1>8. QED
    BY <1>7 DEF d, e

\* What a retrieval writes, for the job it takes: the source that is charged found it
\* and precedes every other that has work in its class.
LEMMA RetrievalTaken ==
    ASSUME RotationInv, Retrieve
    PROVE  \E charged \in Sources :
             /\ claimed < MaxClaims /\ ready # {}
             /\ \A s \in Sources : HasWork(s, Chosen) => Precedes(charged, s)
             /\ ready' \subseteq ready
             /\ claimed' = claimed + 1
             /\ last' = [last EXCEPT ![charged] = claimed + 1]
             /\ turn' = [class |-> Chosen, source |-> charged]
             /\ passed' = [d \in Classes |->
                    IF d = Chosen \/ InClass(d) = {} THEN 0 ELSE passed[d] + 1]
             /\ \A s \in Sources, d \in Classes : ahead'[s][d] \in
                    {{}, ahead[s][d], ahead[s][d] \cup {charged}}
             /\ ahead' \in [Sources -> [Classes -> SUBSET Sources]]
             /\ \A d \in Classes : ahead'[charged][d] = {}
             /\ UNCHANGED searches
  <1>1. PICK j \in InClass(Chosen) :
          LET lane == First({s \in Sources : HasWork(s, Chosen)})
              charged == First(From[j])
          IN /\ claimed < MaxClaims
             /\ lane \in From[j]
             /\ ready' = ready \ {j}
             /\ claimed' = claimed + 1
             /\ last' = Recorded(charged)
             /\ turn' = [class |-> Chosen, source |-> charged]
             /\ passed' = [d \in Classes |->
                    IF d = Chosen \/ InClass(d) = {} THEN 0 ELSE passed[d] + 1]
             /\ ahead' = [s \in Sources |-> [d \in Classes |->
                    IF s = charged \/ ~(\E i \in ready' : Class[i] = d /\ s \in From[i])
                    THEN {}
                    ELSE IF d = Chosen THEN ahead[s][d] \cup {charged} ELSE ahead[s][d]]]
             /\ UNCHANGED searches
    BY DEF Retrieve
  <1> DEFINE lane == First({s \in Sources : HasWork(s, Chosen)})
             charged == First(From[j])
  <1>2. last \in [Sources -> Nat] /\ j \in Jobs /\ j \in ready
    BY <1>1, RotationAssumption DEF RotationInv, RotationTypeOK, InClass
  <1>3. From[j] \in SUBSET Sources /\ From[j] # {}
    BY <1>2, RotationAssumption
  <1>4. charged \in From[j] /\ \A s \in From[j] : Precedes(charged, s)
    BY <1>2, <1>3, FirstPrecedes
  <1>5. \A s \in Sources : HasWork(s, Chosen) => Precedes(lane, s)
    <2>1. {s \in Sources : HasWork(s, Chosen)} \in SUBSET Sources
          /\ {s \in Sources : HasWork(s, Chosen)} # {}
      BY <1>1, <1>3 DEF HasWork
    <2>2. QED
      BY <1>2, <2>1, FirstPrecedes
  <1>6. lane \in From[j] /\ ready' = ready \ {j} /\ last' = Recorded(charged)
    BY <1>1
  <1>7. /\ claimed < MaxClaims /\ claimed' = claimed + 1
        /\ turn' = [class |-> Chosen, source |-> charged]
        /\ passed' = [d \in Classes |->
              IF d = Chosen \/ InClass(d) = {} THEN 0 ELSE passed[d] + 1]
        /\ UNCHANGED searches
    BY <1>1
  <1>8. ahead' = [s \in Sources |-> [d \in Classes |->
              IF s = charged \/ ~(\E i \in ready' : Class[i] = d /\ s \in From[i]) THEN {}
              ELSE IF d = Chosen THEN ahead[s][d] \cup {charged} ELSE ahead[s][d]]]
    BY <1>1
  <1> HIDE DEF lane, charged
  <1>9. charged \in Sources
    BY <1>3, <1>4
  <1>10. \A s \in Sources : HasWork(s, Chosen) => Precedes(charged, s)
    BY <1>2, <1>3, <1>4, <1>5, <1>6, <1>9, RotationAssumption DEF Precedes
  <1>11. /\ ahead' \in [Sources -> [Classes -> SUBSET Sources]]
         /\ \A d \in Classes : ahead'[charged][d] = {}
         /\ \A s \in Sources, d \in Classes : ahead'[s][d] \in
               {{}, ahead[s][d], ahead[s][d] \cup {charged}}
    BY <1>8, <1>9 DEF RotationInv, RotationTypeOK
  <1>12. ready # {} /\ ready' \subseteq ready
    BY <1>2, <1>6
  <1>13. last' = [last EXCEPT ![charged] = claimed + 1]
    BY <1>6 DEF Recorded
  <1>14. QED
    BY <1>7, <1>9, <1>10, <1>11, <1>12, <1>13

LEMMA RetrieveKeeps == ASSUME RotationInv, Retrieve PROVE RotationInv'
  <1>1. PICK charged \in Sources :
             /\ claimed < MaxClaims /\ ready # {}
             /\ ready' \subseteq ready
             /\ claimed' = claimed + 1
             /\ last' = [last EXCEPT ![charged] = claimed + 1]
             /\ turn' = [class |-> Chosen, source |-> charged]
             /\ passed' = [d \in Classes |->
                    IF d = Chosen \/ InClass(d) = {} THEN 0 ELSE passed[d] + 1]
             /\ \A s \in Sources, d \in Classes : ahead'[s][d] \in
                    {{}, ahead[s][d], ahead[s][d] \cup {charged}}
             /\ ahead' \in [Sources -> [Classes -> SUBSET Sources]]
             /\ \A d \in Classes : ahead'[charged][d] = {}
             /\ UNCHANGED searches
    BY RetrievalTaken
  <1>2. /\ claimed \in Nat /\ claimed' \in 0..MaxClaims
        /\ last \in [Sources -> Nat] /\ passed \in [Classes -> Nat]
    BY <1>1, RotationAssumption DEF RotationInv, RotationTypeOK
  <1>3. RotationTypeOK'
    <2>1. Chosen \in Classes
      BY <1>1, ChosenIsOffered DEF RotationInv
    <2>2. last' \in [Sources -> 0..MaxClaims]
      BY <1>1, <1>2 DEF RotationInv, RotationTypeOK
    <2>3. passed' \in [Classes -> Nat]
      BY <1>1, <1>2
    <2>4. ready' \subseteq Jobs /\ turn' \in [class : Classes, source : Sources]
      BY <1>1, <2>1 DEF RotationInv, RotationTypeOK
    <2>5. UNCHANGED <<asks, used, skipped>>
      BY <1>1 DEF searches
    <2>6. QED
      BY <1>1, <1>2, <2>2, <2>3, <2>4, <2>5 DEF RotationInv, RotationTypeOK
  <1>4. TurnsAreRemembered'
    <2>1. ASSUME NEW s \in Sources PROVE last'[s] <= claimed'
      BY <1>1, <1>2 DEF RotationInv, TurnsAreRemembered
    <2>2. ASSUME NEW s \in Sources, NEW c \in Classes, NEW t \in ahead'[s][c]
          PROVE  last'[t] > last'[s]
      <3>1. s # charged /\ t \in Sources /\ (t \in ahead[s][c] \/ t = charged)
        BY <1>1, <2>2
      <3>2. last[s] <= claimed /\ last[s] \in Nat /\ last'[s] = last[s]
        BY <1>1, <1>2, <3>1 DEF RotationInv, TurnsAreRemembered
      <3>3. CASE t = charged
        <4>1. last'[t] = claimed + 1
          BY <1>1, <1>2, <3>3
        <4>2. QED
          BY <1>2, <3>2, <4>1
      <3>4. CASE t # charged
        <4>1. last'[t] = last[t] /\ last[t] > last[s]
          BY <1>1, <1>2, <3>1, <3>4 DEF RotationInv, TurnsAreRemembered
        <4>2. QED
          BY <3>2, <4>1
      <3>5. QED
        BY <3>3, <3>4
    <2>3. QED
      BY <2>1, <2>2 DEF TurnsAreRemembered
  <1>5. PositionsAreKept'
    <2>1. ASSUME NEW c \in Classes PROVE passed'[c] <= Overdue(c, claimed' % 10)
      <3>1. Overdue(c, claimed % 10) \in Nat /\ Overdue(c, claimed' % 10) \in Nat
        <4>1. claimed % 10 \in 0..9 /\ claimed' % 10 \in 0..9
          BY <1>1, <1>2, NextPosition
        <4>2. \A d \in 0..9 : Overdue(c, d) \in Nat
          BY DEF Overdue
        <4>3. QED
          BY <4>1, <4>2
      <3>2. CASE c = Chosen \/ InClass(c) = {}
        BY <1>1, <3>1, <3>2
      <3>3. CASE c # Chosen /\ InClass(c) # {}
        <4>1. Overdue(c, claimed % 10) + 1 <= Overdue(c, claimed' % 10)
          BY <1>1, <3>3, OverdueGrows DEF RotationInv
        <4>2. passed'[c] = passed[c] + 1 /\ passed[c] <= Overdue(c, claimed % 10)
          BY <1>1, <3>3 DEF RotationInv, PositionsAreKept
        <4>3. passed[c] \in Nat
          BY <1>2
        <4>4. QED
          BY <3>1, <4>1, <4>2, <4>3
      <3>4. QED
        BY <3>2, <3>3
    <2>2. UNCHANGED <<used, skipped>>
      BY <1>1 DEF searches
    <2>3. QED
      BY <2>1, <2>2 DEF RotationInv, PositionsAreKept
  <1>6. QED
    BY <1>3, <1>4, <1>5 DEF RotationInv

\* What is ready is of no consequence to the turns that were taken.
LEMMA ArriveKeeps == ASSUME RotationInv, Arrive PROVE RotationInv'
  <1>1. ready' \subseteq Jobs /\ UNCHANGED <<claimed, last, turn, passed, ahead, searches>>
    BY DEF Arrive, RotationInv, RotationTypeOK
  <1>2. QED
    BY <1>1 DEF RotationInv, RotationTypeOK, TurnsAreRemembered, PositionsAreKept, searches

\* At the first of three requests initial coverage is served, at the others a citation,
\* unless one was begun.
LEMMA SearchKeeps == ASSUME RotationInv, Search PROVE RotationInv'
  <1>1. PICK k \in Served :
          /\ used < Budget
          /\ asks' = asks \ {k}
          /\ used' = used + 1
          /\ skipped' = [i \in Shares |->
                IF i = k \/ i \notin asks \/ "started" \in asks THEN 0 ELSE skipped[i] + 1]
          /\ UNCHANGED retrievals
    BY DEF Search
  <1>2. /\ used \in Nat /\ used' \in 0..Budget /\ Budget \in Nat
        /\ skipped \in [Shares -> Nat] /\ skipped' \in [Shares -> Nat]
    BY <1>1, RotationAssumption DEF RotationInv, RotationTypeOK
  <1>3. /\ used % 3 \in 0..2
        /\ used' % 3 = IF used % 3 = 2 THEN 0 ELSE (used % 3) + 1
    BY <1>1, <1>2, NextPosition
  <1>4. RotationTypeOK'
    BY <1>1, <1>2 DEF RotationInv, RotationTypeOK, retrievals
  <1>5. TurnsAreRemembered'
    BY <1>1 DEF RotationInv, TurnsAreRemembered, retrievals
  <1>6. CASE "started" \in asks
    <2>1. skipped'["initial"] = 0 /\ skipped'["citation"] = 0
      BY <1>1, <1>6 DEF Shares
    <2>2. PositionsAreKept'
      BY <1>1, <1>2, <1>3, <2>1 DEF RotationInv, PositionsAreKept, retrievals
    <2>3. QED
      BY <1>4, <1>5, <2>2 DEF RotationInv
  <1>7. CASE "started" \notin asks
    <2>1. /\ used % 3 = 0 /\ "initial" \in asks => k = "initial"
          /\ used % 3 # 0 /\ "citation" \in asks => k = "citation"
      BY <1>1, <1>7 DEF Served, CitationSlot
    <2>2. /\ used % 3 = 0 => skipped'["initial"] = 0
          /\ used % 3 # 0 => skipped'["citation"] = 0
          /\ skipped'["initial"] \in {0, skipped["initial"] + 1}
          /\ skipped'["citation"] \in {0, skipped["citation"] + 1}
      BY <1>1, <2>1 DEF Shares
    <2>3. skipped["initial"] \in Nat /\ skipped["citation"] \in Nat
      BY <1>2 DEF Shares
    <2>4. PositionsAreKept'
      <3>1. \A c \in Classes : passed'[c] <= Overdue(c, claimed' % 10)
        BY <1>1 DEF RotationInv, PositionsAreKept, retrievals
      <3>2. /\ skipped["initial"] <= 2 /\ skipped["citation"] <= 1
            /\ used % 3 # 0 => skipped["initial"] <= (used % 3) - 1
            /\ used % 3 # 1 => skipped["citation"] = 0
        BY <1>1 DEF RotationInv, PositionsAreKept
      <3>3. /\ skipped'["initial"] <= 2 /\ skipped'["citation"] <= 1
            /\ used' % 3 # 0 => skipped'["initial"] <= (used' % 3) - 1
            /\ used' % 3 # 1 => skipped'["citation"] = 0
        BY <1>3, <2>2, <2>3, <3>2
      <3>4. QED
        BY <3>1, <3>3 DEF PositionsAreKept
    <2>5. QED
      BY <1>4, <1>5, <2>4 DEF RotationInv
  <1>8. QED
    BY <1>6, <1>7

LEMMA RotationStepFits == RotationInv /\ [RotationNext]_rotationVars => RotationInv'
  <1> SUFFICES ASSUME RotationInv, [RotationNext]_rotationVars PROVE RotationInv'
    OBVIOUS
  <1>1. CASE Retrieve
    BY <1>1, RetrieveKeeps
  <1>2. CASE Arrive
    BY <1>2, ArriveKeeps
  <1>3. CASE Search
    BY <1>3, SearchKeeps
  <1>4. CASE MoreToAsk
    BY <1>4 DEF MoreToAsk, RotationInv, RotationTypeOK, TurnsAreRemembered,
                PositionsAreKept, retrievals
  <1>5. CASE NewPass
    <2>1. /\ used' = 0 /\ used' % 3 = 0 /\ asks' = asks /\ UNCHANGED retrievals
          /\ skipped' = [skipped EXCEPT !["citation"] = 0]
      BY <1>5 DEF NewPass
    <2>2. RotationTypeOK'
      <3>1. used' \in 0..Budget /\ skipped' \in [Shares -> Nat]
        <4>1. Budget \in Nat /\ used' \in 0..Budget
          BY <2>1, RotationAssumption
        <4>2. skipped' \in [Shares -> Nat]
          BY <2>1 DEF RotationInv, RotationTypeOK
        <4>3. QED
          BY <4>1, <4>2
      <3>2. QED
        BY <2>1, <3>1 DEF RotationInv, RotationTypeOK, retrievals
    <2>3. TurnsAreRemembered'
      BY <2>1 DEF RotationInv, TurnsAreRemembered, retrievals
    <2>4. skipped'["initial"] = skipped["initial"] /\ skipped'["citation"] = 0
      BY <2>1 DEF RotationInv, RotationTypeOK, Shares
    <2>5. PositionsAreKept'
      BY <2>1, <2>4 DEF RotationInv, PositionsAreKept, retrievals
    <2>6. QED
      BY <2>2, <2>3, <2>5 DEF RotationInv
  <1>6. CASE Forfeit
    <2>1. used' = Budget /\ UNCHANGED <<asks, skipped, retrievals>> /\ ~(used' < Budget)
      BY <1>6, RotationAssumption DEF Forfeit
    <2>2. QED
      BY <2>1, RotationAssumption
      DEF RotationInv, RotationTypeOK, TurnsAreRemembered, PositionsAreKept, retrievals
  <1>7. CASE UNCHANGED rotationVars
    BY <1>7 DEF rotationVars, retrievals, searches, RotationInv, RotationTypeOK,
                TurnsAreRemembered, PositionsAreKept
  <1>8. QED
    BY <1>1, <1>2, <1>3, <1>4, <1>5, <1>6, <1>7
    DEF RotationNext, RetrievalNext, SearchNext

LEMMA RotationInvHolds == RotationSpec => []RotationInv
  BY RotationInitFits, RotationStepFits, PTL DEF RotationSpec

\* A source that others wait for, since it was served there, does not precede them.
LEMMA TurnIsFair == RotationInv /\ [RotationNext]_rotationVars => [SourceTurn]_rotationVars
  <1> SUFFICES ASSUME RotationInv, RotationNext, claimed' # claimed,
                      NEW s \in Sources, HasWork(s, turn'.class), s # turn'.source
               PROVE  turn'.source \notin ahead[s][turn'.class]
    BY DEF SourceTurn
  <1>1. Retrieve
    BY DEF RotationNext, RetrievalNext, SearchNext, Arrive, Search, MoreToAsk, NewPass,
           Forfeit, retrievals
  <1>2. PICK charged \in Sources :
          /\ claimed < MaxClaims /\ ready # {}
          /\ \A r \in Sources : HasWork(r, Chosen) => Precedes(charged, r)
          /\ turn' = [class |-> Chosen, source |-> charged]
    BY <1>1, RetrievalTaken
  <1>3. Chosen \in Classes
    BY <1>2, ChosenIsOffered DEF RotationInv
  <1>4. Precedes(charged, s)
    BY <1>2
  <1>5. last[charged] \in Nat /\ last[s] \in Nat
    BY <1>2, RotationAssumption DEF RotationInv, RotationTypeOK
  <1>6. ~(last[charged] > last[s])
    BY <1>4, <1>5 DEF Precedes
  <1>7. charged \notin ahead[s][Chosen]
    BY <1>3, <1>6 DEF RotationInv, TurnsAreRemembered
  <1>8. QED
    BY <1>2, <1>7

\* The rotation's bookkeeping has its types, whatever the works and sources.
THEOREM RotationIsTyped == RotationSpec => []RotationTypeOK
  <1>1. RotationInv => RotationTypeOK
    BY DEF RotationInv
  <1>2. QED
    BY <1>1, RotationInvHolds, PTL

\* However many works and sources there are and however many leads arrive, each class of
\* headline is inspected within ten claims, no source is served twice in a class while
\* another waits, and an index divides its requests (sqlite_collection_claims.py,
\* sqlite_retrieval_sources.py).
THEOREM RotationStaysFair == RotationSpec => RotationIsFair
  <1>1. RotationInv => EveryClassIsInspected /\ IndexSharesHold
    <2> SUFFICES ASSUME RotationInv PROVE EveryClassIsInspected /\ IndexSharesHold
      OBVIOUS
    <2>1. claimed \in Nat /\ passed \in [Classes -> Nat]
      BY RotationAssumption DEF RotationInv, RotationTypeOK
    <2>2. claimed % 10 \in 0..9
      BY <2>1, NextPosition
    <2>3. \A d \in 0..9 : Overdue(3, d) \in 0..3 /\ Overdue(2, d) \in 0..4
                          /\ Overdue(1, d) \in 0..9 /\ Overdue(0, d) \in 0..9
      BY DEF Overdue
    <2>4. \A c \in Classes : passed[c] \in Nat /\ passed[c] <= Overdue(c, claimed % 10)
      BY <2>1 DEF RotationInv, PositionsAreKept
    <2>5. EveryClassIsInspected
      BY <2>2, <2>3, <2>4 DEF EveryClassIsInspected, Classes
    <2>6. QED
      BY <2>5 DEF RotationInv, PositionsAreKept, IndexSharesHold
  <1>2. QED
    BY <1>1, RotationInvHolds, TurnIsFair, PTL
    DEF RotationSpec, RotationIsFair, SourcesTakeTurns
=============================================================================
