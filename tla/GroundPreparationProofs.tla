------------------------ MODULE GroundPreparationProofs ------------------------
(***************************************************************************)
(* Proofs about GroundPreparation for every set of targets, clients and    *)
(* workers, and every limit of attempts and versions.                      *)
(***************************************************************************)
EXTENDS GroundPreparation, TLAPS

-----------------------------------------------------------------------------
(* The inductive invariant *)

SomeFailed == \E id \in Ids : jobs[id].status = "failed"

\* A job that waits has an attempt left.
RowsAreConsistent ==
    \A id \in Ids :
        /\ jobs[id].status \in {"absent", "queued"} => jobs[id].attempt = 0
        /\ jobs[id].status = "retry_wait" => ~Exhausted(id)

\* What a client has read may be old, but it was true; a command that makes a
\* new version has room for one.
ClientIsRight(c) ==
    /\ client[c].copy.version <= request.version
    /\ client[c].copy.state = "failed" => SomeFailed
    /\ client[c].pc # "idle" => client[c].command \in Commands
    /\ client[c].command \in {"refresh", "select"} => client[c].copy.version < MaxVersion

\* An execution keeps to the version of its job; whoever marks a failure, or
\* has read of one, knows of a failed job.
WorkerIsRight(p) ==
    /\ worker[p].copy.version <= request.version
    /\ worker[p].copy.state = "failed" => SomeFailed
    /\ worker[p].pc \in {"mark", "marking"} => SomeFailed
    /\ worker[p].pc \notin {"down", "idle", "mark", "marking"} => worker[p].job \in Ids
    /\ worker[p].pc \in {"prepare", "publish", "judge", "conclude"} =>
            worker[p].copy.version = worker[p].job[1]

IInv ==
    /\ TypeOK
    /\ RowsAreConsistent
    /\ FailureIsGrounded
    /\ \A c \in Clients : ClientIsRight(c)
    /\ \A p \in Workers : WorkerIsRight(p)

-----------------------------------------------------------------------------
(* What a step does to the document, the table and the copies *)

\* The state is as good as it was, and whatever is known of it stays true.
Progresses ==
    /\ request' \in Document
    /\ request'.version >= request.version
    /\ FailureIsGrounded'
    /\ jobs' \in [Ids -> JobRecord]
    /\ RowsAreConsistent'
    /\ SomeFailed => SomeFailed'

\* Versions are numbers, and the first is the least.
LEMMA VersionsAreNumbers ==
    /\ Versions \subseteq Nat /\ 1 \in Versions
    /\ \A v \in Versions : 1 <= v /\ v <= MaxVersion
  BY PreparationAssumption DEF Versions

\* The fields of a document.
LEMMA DocumentFields ==
    ASSUME NEW document \in Document
    PROVE  /\ document.version \in Versions /\ document.version \in Nat
           /\ document.state \in {"ready", "partial", "queued", "failed", "cancelled"}
           /\ document.selected \in [Targets -> Versions]
           /\ document.artifacts \in SUBSET (Targets \X Versions)
  BY VersionsAreNumbers DEF Document

\* A new request is a document.
LEMMA NewRequestIsDocument ==
    /\ NewRequest \in Document
    /\ NewRequest.version = 1 /\ NewRequest.state = "ready"
  BY VersionsAreNumbers DEF NewRequest, Document

\* Where the document and the table stay, everything known of them does.
LEMMA NothingProgresses == ASSUME IInv, UNCHANGED <<request, jobs>> PROVE Progresses
  <1>1. request.version <= request.version
    BY DocumentFields DEF IInv, TypeOK
  <1>2. QED
    BY <1>1
    DEF Progresses, IInv, TypeOK, RowsAreConsistent, Exhausted, FailureIsGrounded,
        SomeFailed

\* A save replaces the document by one that is not older, or does nothing.
LEMMA SaveProgresses ==
    ASSUME IInv, NEW document \in Document, Saves(document), jobs' = jobs,
           document.state = "failed" => SomeFailed
    PROVE  Progresses
  <1>1. /\ request' \in Document /\ request'.version >= request.version
        /\ request' \in {document, request}
    BY DocumentFields DEF Saves, IInv, TypeOK
  <1>2. FailureIsGrounded'
    BY <1>1 DEF IInv, FailureIsGrounded, SomeFailed
  <1>3. QED
    BY <1>1, <1>2
    DEF Progresses, IInv, TypeOK, RowsAreConsistent, Exhausted, SomeFailed

\* A change of rows that fails some and repairs none.
LEMMA RowsProgress ==
    ASSUME IInv, request' = request, jobs' \in [Ids -> JobRecord],
           RowsAreConsistent',
           \A id \in Ids : jobs[id].status = "failed" => jobs'[id].status = "failed"
    PROVE  Progresses
  <1>1. request.version <= request.version
    BY DocumentFields DEF IInv, TypeOK
  <1>2. SomeFailed => SomeFailed'
    BY DEF SomeFailed
  <1>3. FailureIsGrounded'
    BY <1>2 DEF IInv, FailureIsGrounded, SomeFailed
  <1>4. QED
    BY <1>1, <1>2, <1>3 DEF Progresses, IInv, TypeOK

\* Those who do not move stay right.
LEMMA OthersStayRight ==
    ASSUME IInv, Progresses
    PROVE  /\ \A c \in Clients : client'[c] = client[c] => ClientIsRight(c)'
           /\ \A p \in Workers : worker'[p] = worker[p] => WorkerIsRight(p)'
  <1>1. /\ request.version \in Nat /\ request'.version \in Nat
        /\ request.version <= request'.version
    BY DocumentFields DEF IInv, TypeOK, Progresses
  <1>2. \A c \in Clients : client[c].copy.version \in Nat
    BY DocumentFields DEF IInv, TypeOK, ClientState
  <1>3. \A p \in Workers : worker[p].copy.version \in Nat
    BY DocumentFields DEF IInv, TypeOK, WorkerState
  <1>4. ASSUME NEW c \in Clients, client'[c] = client[c] PROVE ClientIsRight(c)'
    BY <1>1, <1>2, <1>4 DEF IInv, ClientIsRight, Progresses
  <1>5. ASSUME NEW p \in Workers, worker'[p] = worker[p] PROVE WorkerIsRight(p)'
    BY <1>1, <1>3, <1>5 DEF IInv, WorkerIsRight, Progresses
  <1>6. QED
    BY <1>4, <1>5

\* One client moves.
LEMMA ClientMoves ==
    ASSUME IInv, Progresses, NEW c \in Clients, NEW k \in ClientState,
           client' = [client EXCEPT ![c] = k], worker' = worker,
           k.copy.version <= request'.version,
           k.copy.state = "failed" => SomeFailed',
           k.pc # "idle" => k.command \in Commands,
           k.command \in {"refresh", "select"} => k.copy.version < MaxVersion
    PROVE  IInv'
  <1>1. client'[c] = k /\ \A d \in Clients : d # c => client'[d] = client[d]
    BY DEF IInv, TypeOK
  <1>2. TypeOK'
    BY DEF IInv, TypeOK, Progresses
  <1>3. \A d \in Clients : ClientIsRight(d)'
    <2>1. ClientIsRight(c)'
      BY <1>1 DEF ClientIsRight
    <2>2. QED
      BY <1>1, <2>1, OthersStayRight
  <1>4. \A p \in Workers : WorkerIsRight(p)'
    BY OthersStayRight
  <1>5. QED
    BY <1>2, <1>3, <1>4 DEF IInv, Progresses

\* One worker moves.
LEMMA WorkerMoves ==
    ASSUME IInv, Progresses, NEW p \in Workers, NEW w \in WorkerState,
           worker' = [worker EXCEPT ![p] = w], client' = client,
           w.copy.version <= request'.version,
           w.copy.state = "failed" => SomeFailed',
           w.pc \in {"mark", "marking"} => SomeFailed',
           w.pc \notin {"down", "idle", "mark", "marking"} => w.job \in Ids,
           w.pc \in {"prepare", "publish", "judge", "conclude"} =>
                w.copy.version = w.job[1]
    PROVE  IInv'
  <1>1. worker'[p] = w /\ \A q \in Workers : q # p => worker'[q] = worker[q]
    BY DEF IInv, TypeOK
  <1>2. TypeOK'
    BY DEF IInv, TypeOK, Progresses
  <1>3. \A q \in Workers : WorkerIsRight(q)'
    <2>1. WorkerIsRight(p)'
      BY <1>1 DEF WorkerIsRight
    <2>2. QED
      BY <1>1, <2>1, OthersStayRight
  <1>4. \A c \in Clients : ClientIsRight(c)'
    BY OthersStayRight
  <1>5. QED
    BY <1>2, <1>3, <1>4 DEF IInv, Progresses

-----------------------------------------------------------------------------
(* The commands *)

\* A client without a command.
LEMMA NoCommandIsRight ==
    /\ NoCommand \in ClientState
    /\ NoCommand.copy = NewRequest /\ NoCommand.pc = "idle"
    /\ NoCommand.command = "none"
  BY NewRequestIsDocument, PreparationAssumption DEF NoCommand, ClientState

\* A command that ends leaves its client without one.
LEMMA CommandEnds ==
    ASSUME IInv, Progresses, NEW c \in Clients,
           client' = [client EXCEPT ![c] = NoCommand], worker' = worker
    PROVE  IInv'
  <1>1. 1 <= request'.version
    BY DocumentFields, VersionsAreNumbers DEF Progresses
  <1>2. QED
    BY <1>1, NoCommandIsRight, NewRequestIsDocument, ClientMoves

\* A command reads the request, and goes on only where it may.
LEMMA OpenKeeps ==
    ASSUME IInv, NEW c \in Clients, NEW command \in Commands, NEW t \in Targets,
           Open(c, command, t)
    PROVE  IInv'
  <1> DEFINE k == [pc |-> IF command = "prepare" THEN "look" ELSE "save",
                   command |-> command, target |-> t, copy |-> request]
  <1>1. Progresses
    BY NothingProgresses DEF Open
  <1>2. client' = [client EXCEPT ![c] = k] /\ worker' = worker /\ request' = request
    BY DEF Open
  <1>3. k \in ClientState
    BY DEF IInv, TypeOK, ClientState
  <1>4. command \in {"refresh", "select"} => request.version < MaxVersion
    BY DEF Open, Accepted
  <1>5. request.version <= request.version
    BY DocumentFields DEF IInv, TypeOK
  <1>6. /\ k.copy = request /\ k.command = command
    OBVIOUS
  <1>7. k.copy.state = "failed" => SomeFailed'
    BY <1>1, <1>6 DEF IInv, FailureIsGrounded, Progresses, SomeFailed
  <1> HIDE DEF k
  <1>8. QED
    BY <1>1, <1>2, <1>3, <1>4, <1>5, <1>6, <1>7, ClientMoves

\* The look for a pending job changes nothing.
LEMMA LookKeeps == ASSUME IInv, NEW c \in Clients, Look(c) PROVE IInv'
  <1>1. Progresses
    BY NothingProgresses DEF Look
  <1>2. CASE jobs[Wanted(c)].status \in Pending
    BY <1>1, <1>2, CommandEnds DEF Look
  <1>3. CASE jobs[Wanted(c)].status \notin Pending
    <2> DEFINE k == client'[c]
    <2>1. /\ client[c] \in ClientState /\ ClientIsRight(c)
          /\ client' = [client EXCEPT ![c].pc = "enqueue"]
          /\ client[c].pc # "idle" /\ worker' = worker /\ request' = request
      BY <1>3 DEF Look, IInv, TypeOK
    <2>2. /\ k \in ClientState /\ k.copy = client[c].copy
          /\ k.command = client[c].command
          /\ client' = [client EXCEPT ![c] = k]
      BY <2>1 DEF IInv, TypeOK, ClientState
    <2> HIDE DEF k
    <2>3. QED
      BY <1>1, <2>1, <2>2, ClientMoves DEF ClientIsRight, Progresses
  <1>4. QED
    BY <1>2, <1>3

\* The insert adds a row that nobody has tried.
LEMMA EnqueueKeeps == ASSUME IInv, NEW c \in Clients, Enqueue(c) PROVE IInv'
  <1> DEFINE id == Wanted(c)
             k == client'[c]
  <1>1. client[c] \in ClientState /\ ClientIsRight(c) /\ id \in Ids
    BY DEF IInv, TypeOK, ClientState, Wanted, Ids, Document
  <1>2. /\ jobs' \in [Ids -> JobRecord]
        /\ RowsAreConsistent'
        /\ \A other \in Ids :
              jobs[other].status = "failed" => jobs'[other].status = "failed"
    <2>1. CASE jobs[id].status # "absent"
      BY <2>1 DEF Enqueue, IInv, TypeOK, RowsAreConsistent, Exhausted
    <2>2. CASE jobs[id].status = "absent"
      <3>1. jobs' = [jobs EXCEPT ![id].status = "queued"] /\ jobs[id] \in JobRecord
        BY <1>1, <2>2 DEF Enqueue, IInv, TypeOK
      <3>2. /\ jobs'[id] \in JobRecord /\ jobs'[id].status = "queued"
            /\ jobs'[id].attempt = jobs[id].attempt
            /\ \A other \in Ids : other # id => jobs'[other] = jobs[other]
        BY <1>1, <3>1 DEF IInv, TypeOK, JobRecord, Pending
      <3>3. jobs' \in [Ids -> JobRecord]
        BY <3>1, <3>2 DEF IInv, TypeOK
      <3>4. RowsAreConsistent'
        BY <1>1, <2>2, <3>2 DEF IInv, RowsAreConsistent, Exhausted
      <3>5. QED
        BY <2>2, <3>2, <3>3, <3>4
    <2>3. QED
      BY <2>1, <2>2
  <1>3. Progresses
    BY <1>2, RowsProgress DEF Enqueue
  <1>4. /\ k \in ClientState /\ k.copy = client[c].copy
        /\ k.command = client[c].command
        /\ client' = [client EXCEPT ![c] = k]
        /\ client[c].pc # "idle" /\ worker' = worker /\ request' = request
    BY <1>1 DEF Enqueue, IInv, TypeOK, ClientState
  <1> HIDE DEF k, id
  <1>5. QED
    BY <1>1, <1>3, <1>4, ClientMoves DEF ClientIsRight, Progresses

\* Every document a command may save is one, of no older version than its
\* copy, and says that it failed only if the copy did.
LEMMA OutcomesAreDocuments ==
    ASSUME IInv, NEW c \in Clients, client[c].pc = "save",
           NEW document \in Outcomes(c)
    PROVE  /\ document \in Document
           /\ document.state = "failed" => SomeFailed
  <1> DEFINE mine == client[c].copy
             next == [mine EXCEPT !.version = @ + 1]
             t == client[c].target
  <1>1. /\ client[c] \in ClientState /\ ClientIsRight(c)
        /\ client[c].command \in Commands
        /\ mine \in Document /\ t \in Targets
    BY DEF IInv, TypeOK, ClientState, ClientIsRight
  <1>2. mine.state = "failed" => SomeFailed
    BY <1>1 DEF ClientIsRight
  <1>3. CASE client[c].command = "prepare"
    BY <1>1, <1>3 DEF Outcomes, Document
  <1>4. CASE client[c].command = "cancel"
    BY <1>1, <1>4 DEF Outcomes, Document
  <1>5. CASE client[c].command = "watch"
    BY <1>1, <1>2, <1>5 DEF Outcomes
  <1>6. ASSUME client[c].command \in {"refresh", "select"}
        PROVE  /\ next \in Document /\ next.version \in Versions
               /\ next.state = mine.state /\ next.selected = mine.selected
    <2>1. mine.version + 1 \in Versions
      BY <1>1, <1>6, DocumentFields, PreparationAssumption
      DEF ClientIsRight, Versions
    <2>2. next \in Document
      BY <1>1, <2>1, Zenon DEF Document
    <2>3. QED
      BY <1>1, <2>1, <2>2 DEF Document
  <1>7. CASE client[c].command = "refresh"
    <2>1. /\ next \in Document /\ next.version \in Versions
          /\ next.selected \in [Targets -> Versions]
      BY <1>6, <1>7, DocumentFields
    <2>2. PICK found \in SUBSET Targets : document \in Refreshed(next, found)
      <3> HIDE DEF next
      <3>1. document \in UNION {Refreshed(next, found) : found \in SUBSET Targets}
        BY <1>7 DEF Outcomes, next
      <3>2. QED
        BY <3>1
    <2> DEFINE selected == [u \in Targets |-> IF u \in found THEN next.version
                                              ELSE next.selected[u]]
    <2>3. PICK state \in {"ready", "partial"} :
            document = [next EXCEPT !.state = state, !.selected = selected]
      BY <2>2, Zenon DEF Refreshed
    <2>4. selected \in [Targets -> Versions]
      BY <2>1
    <2> HIDE DEF next, selected
    <2>5. state \in {"ready", "partial", "queued", "failed", "cancelled"}
      OBVIOUS
    <2>6. document \in Document
      BY <2>1, <2>3, <2>4, <2>5, Zenon DEF Document
    <2>7. document.state = state
      BY <2>1, <2>3, <2>6 DEF Document
    <2>8. QED
      BY <2>6, <2>7
  <1>8. CASE client[c].command = "select"
    <2>1. /\ next \in Document /\ next.version \in Versions
          /\ next.selected \in [Targets -> Versions]
          /\ next.state = mine.state
      BY <1>6, <1>8, DocumentFields
    <2> DEFINE selected == [next.selected EXCEPT ![t] = next.version]
    <2>2. document = [next EXCEPT !.selected = selected]
      BY <1>8 DEF Outcomes
    <2>3. selected \in [Targets -> Versions]
      BY <1>1, <2>1
    <2> HIDE DEF next, selected
    <2>4. document \in Document
      BY <2>1, <2>2, <2>3, Zenon DEF Document
    <2>5. document.state = mine.state
      BY <2>1, <2>2, <2>4 DEF Document
    <2>6. QED
      BY <1>2, <2>4, <2>5
  <1>9. QED
    BY <1>1, <1>3, <1>4, <1>5, <1>7, <1>8, PreparationAssumption

\* A save, of whichever outcome.
LEMMA SaveKeeps == ASSUME IInv, NEW c \in Clients, Save(c) PROVE IInv'
  <1>1. PICK document \in Outcomes(c) : Saves(document)
    BY DEF Save
  <1>2. document \in Document /\ (document.state = "failed" => SomeFailed)
    BY OutcomesAreDocuments DEF Save
  <1>3. Progresses
    BY <1>1, <1>2, SaveProgresses DEF Save
  <1>4. QED
    BY <1>3, CommandEnds DEF Save

\* A command that is given up changes nothing.
LEMMA GiveUpKeeps == ASSUME IInv, NEW c \in Clients, GiveUp(c) PROVE IInv'
  BY NothingProgresses, CommandEnds DEF GiveUp

-----------------------------------------------------------------------------
(* The queue *)

Places == {"down", "idle", "open", "prepare", "publish", "judge", "conclude",
           "record", "complete", "fail", "mark", "marking"}

\* A worker that starts on something holds no copy.
LEMMA AtRestIsRight ==
    ASSUME NEW pc \in Places
    PROVE  /\ AtRest(pc) \in WorkerState
           /\ AtRest(pc).pc = pc /\ AtRest(pc).copy = NewRequest
  BY NewRequestIsDocument, PreparationAssumption DEF AtRest, WorkerState, Places

\* A worker whose report is done.
LEMMA WorkerRests ==
    ASSUME IInv, Progresses, NEW p \in Workers, NEW pc \in {"down", "idle", "mark"},
           worker' = [worker EXCEPT ![p] = AtRest(pc)], client' = client,
           pc = "mark" => SomeFailed'
    PROVE  IInv'
  <1>1. /\ AtRest(pc) \in WorkerState /\ AtRest(pc).pc = pc
        /\ AtRest(pc).copy = NewRequest
    BY AtRestIsRight DEF Places
  <1>2. 1 <= request'.version
    BY DocumentFields, VersionsAreNumbers DEF Progresses
  <1>3. QED
    BY <1>1, <1>2, NewRequestIsDocument, WorkerMoves

\* A row given up keeps its attempt and its token.
LEMMA GivenRow ==
    ASSUME NEW row \in JobRecord, NEW status \in {"failed", "retry_wait"}
    PROVE  /\ Given(row, status) \in JobRecord
           /\ Given(row, status).status = status
           /\ Given(row, status).attempt = row.attempt
           /\ Given(row, status).token = row.token
  <1>1. status \in {"absent", "succeeded", "failed"} \cup Pending /\ Default \in Targets
    BY PreparationAssumption DEF Pending
  <1>2. Given(row, status) \in JobRecord
    BY <1>1, Zenon DEF Given, JobRecord
  <1>3. QED
    BY <1>2 DEF Given, JobRecord

\* The sweep fails exhausted jobs and leaves the others alone.
LEMMA SweptRows ==
    ASSUME IInv, NEW expired \in SUBSET Running, NEW id \in Ids
    PROVE  /\ Swept(expired)[id] \in JobRecord
           /\ \/ Swept(expired)[id] = jobs[id]
              \/ /\ Swept(expired)[id].status = "failed"
                 /\ jobs[id].status = "running"
  <1>1. jobs[id] \in JobRecord
    BY DEF IInv, TypeOK
  <1>2. CASE id \in expired /\ Exhausted(id)
    BY <1>1, <1>2, GivenRow DEF Swept, Running
  <1>3. CASE ~(id \in expired /\ Exhausted(id))
    BY <1>1, <1>3 DEF Swept
  <1>4. QED
    BY <1>2, <1>3

\* A claim that takes nothing fails exhausted jobs.
LEMMA SweepKeeps ==
    ASSUME IInv, NEW expired \in SUBSET Running, jobs' = Swept(expired),
           UNCHANGED <<request, client, worker>>
    PROVE  IInv'
  <1>1. jobs' \in [Ids -> JobRecord]
    <2>1. Swept(expired) = [id \in Ids |-> Swept(expired)[id]]
      BY DEF Swept
    <2>2. QED
      BY <2>1, SweptRows
  <1>2. RowsAreConsistent'
    BY SweptRows DEF IInv, RowsAreConsistent, Exhausted
  <1>3. \A id \in Ids : jobs[id].status = "failed" => jobs'[id].status = "failed"
    BY SweptRows
  <1>4. Progresses
    BY <1>1, <1>2, <1>3, RowsProgress
  <1>5. /\ \A c \in Clients : ClientIsRight(c)'
        /\ \A p \in Workers : WorkerIsRight(p)'
    BY <1>4, OthersStayRight
  <1>6. QED
    BY <1>4, <1>5 DEF IInv, TypeOK, Progresses

\* A taken job has an attempt left.
LEMMA TakeKeeps ==
    ASSUME IInv, NEW p \in Workers, NEW expired \in SUBSET Running, NEW id \in Ids,
           \/ jobs[id].status \in {"queued", "retry_wait"}
           \/ id \in expired /\ ~Exhausted(id),
           jobs' = [Swept(expired) EXCEPT ![id] = Taken(jobs[id])],
           worker' = [worker EXCEPT ![p] =
                [AtRest("open") EXCEPT !.job = id, !.token = jobs[id].token + 1,
                                       !.target = jobs[id].target]],
           UNCHANGED <<request, client>>
    PROVE  IInv'
  <1> DEFINE row == Taken(jobs[id])
             w == worker'[p]
  <1>1. /\ jobs[id] \in JobRecord /\ jobs[id].token + 1 \in Nat
        /\ jobs[id].target \in Targets
        /\ jobs[id].status # "failed" /\ jobs[id].status # "absent"
    BY DEF IInv, TypeOK, JobRecord, Running
  <1>2. jobs[id].attempt + 1 \in 0..MaxAttempts
    BY <1>1, PreparationAssumption
    DEF IInv, RowsAreConsistent, Exhausted, JobRecord
  <1>3. row \in JobRecord
    <2>1. "running" \in {"absent", "succeeded", "failed"} \cup Pending
      BY DEF Pending
    <2>2. QED
      BY <1>1, <1>2, <2>1, Zenon DEF JobRecord, Taken
  <1>4. row.status = "running"
    BY <1>1, <1>3 DEF JobRecord, Taken
  <1>5. /\ jobs' \in [Ids -> JobRecord] /\ jobs'[id] = row
        /\ \A other \in Ids : other # id => jobs'[other] = Swept(expired)[other]
    <2>1. Swept(expired) = [other \in Ids |-> Swept(expired)[other]]
      BY DEF Swept
    <2> HIDE DEF row
    <2>2. jobs' = [Swept(expired) EXCEPT ![id] = row]
      BY DEF row
    <2>3. QED
      BY <1>3, <2>1, <2>2, SweptRows
  <1> HIDE DEF row
  <1>6. RowsAreConsistent'
    BY <1>4, <1>5, SweptRows DEF IInv, RowsAreConsistent, Exhausted
  <1>7. \A other \in Ids :
            jobs[other].status = "failed" => jobs'[other].status = "failed"
    BY <1>1, <1>5, SweptRows
  <1>8. Progresses
    BY <1>5, <1>6, <1>7, RowsProgress
  <1>9. /\ w \in WorkerState /\ w.pc = "open" /\ w.copy = NewRequest /\ w.job = id
        /\ worker' = [worker EXCEPT ![p] = w]
    <2>1. /\ AtRest("open") \in WorkerState /\ AtRest("open").pc = "open"
          /\ AtRest("open").copy = NewRequest
      BY AtRestIsRight DEF Places
    <2>2. QED
      BY <1>1, <2>1 DEF IInv, TypeOK, WorkerState
  <1>10. 1 <= request'.version
    BY <1>8, DocumentFields, VersionsAreNumbers DEF Progresses
  <1> HIDE DEF w
  <1>11. QED
    BY <1>8, <1>9, <1>10, NewRequestIsDocument, WorkerMoves

\* Either way a claim keeps the invariant.
LEMMA ClaimKeeps ==
    ASSUME IInv, NEW p \in Workers, NEW expired \in SUBSET Running, Claim(p, expired)
    PROVE  IInv'
  <1>1. CASE jobs' = Swept(expired) /\ UNCHANGED worker
    BY <1>1, SweepKeeps DEF Claim
  <1>2. CASE ~(jobs' = Swept(expired) /\ UNCHANGED worker)
    <2>1. PICK id \in Ids :
            /\ \/ jobs[id].status \in {"queued", "retry_wait"}
               \/ id \in expired /\ ~Exhausted(id)
            /\ jobs' = [Swept(expired) EXCEPT ![id] = Taken(jobs[id])]
            /\ worker' = [worker EXCEPT ![p] =
                 [AtRest("open") EXCEPT !.job = id, !.token = jobs[id].token + 1,
                                        !.target = jobs[id].target]]
      BY <1>2, Zenon DEF Claim
    <2>2. UNCHANGED <<request, client>>
      BY DEF Claim
    <2>3. QED
      BY <2>1, <2>2, TakeKeeps
  <1>3. QED
    BY <1>1, <1>2

-----------------------------------------------------------------------------
(* The execution of a job *)

Executing == Places \ {"down", "idle", "mark", "marking"}

KeepsToVersion == {"prepare", "publish", "judge", "conclude"}

\* A worker goes to another place with another copy of the request.
LEMMA WorkerGoesWith ==
    ASSUME IInv, Progresses, NEW p \in Workers, NEW pc \in Places,
           NEW document \in Document,
           GotoWith(p, pc, document), client' = client,
           document.version <= request'.version,
           document.state = "failed" => SomeFailed',
           pc \in {"mark", "marking"} => SomeFailed',
           pc \in Executing => worker[p].job \in Ids,
           pc \in KeepsToVersion => document.version = worker[p].job[1]
    PROVE  IInv'
  <1> DEFINE w == [worker[p] EXCEPT !.pc = pc, !.copy = document]
  <1>1. worker[p] \in WorkerState
    BY DEF IInv, TypeOK
  <1>2. w \in WorkerState
    BY <1>1, Zenon DEF WorkerState, Places
  <1>3. w.pc = pc /\ w.copy = document /\ w.job = worker[p].job
    BY <1>1 DEF WorkerState
  <1>4. worker' = [worker EXCEPT ![p] = w]
    BY DEF GotoWith
  <1> HIDE DEF w
  <1>5. QED
    BY <1>2, <1>3, <1>4, WorkerMoves DEF Executing, KeepsToVersion, Places

\* A worker goes to another place with the copy it has.
LEMMA WorkerGoes ==
    ASSUME IInv, Progresses, NEW p \in Workers, NEW pc \in Places,
           Goto(p, pc), client' = client,
           pc \in {"mark", "marking"} => SomeFailed',
           pc \in Executing => worker[p].job \in Ids,
           pc \in KeepsToVersion => worker[p].copy.version = worker[p].job[1]
    PROVE  IInv'
  <1> DEFINE w == [worker[p] EXCEPT !.pc = pc]
  <1>1. worker[p] \in WorkerState /\ WorkerIsRight(p)
    BY DEF IInv, TypeOK
  <1>2. w \in WorkerState
    BY <1>1, Zenon DEF WorkerState, Places
  <1>3. w.pc = pc /\ w.copy = worker[p].copy /\ w.job = worker[p].job
    BY <1>1 DEF WorkerState
  <1>4. worker' = [worker EXCEPT ![p] = w]
    BY DEF Goto
  <1>5. w.copy.version <= request'.version /\ (w.copy.state = "failed" => SomeFailed')
    <2>1. /\ worker[p].copy.version \in Nat /\ request.version \in Nat
          /\ request'.version \in Nat
      BY <1>1, DocumentFields DEF IInv, TypeOK, Progresses, WorkerState
    <2>2. QED
      BY <1>1, <1>3, <2>1 DEF WorkerIsRight, Progresses
  <1> HIDE DEF w
  <1>6. QED
    BY <1>2, <1>3, <1>4, <1>5, WorkerMoves DEF Executing, KeepsToVersion, Places

\* An execution that is over forgets its copy.
LEMMA WorkerEnds ==
    ASSUME IInv, Progresses, NEW p \in Workers, NEW pc \in {"idle", "complete", "fail"},
           Ends(p, pc), client' = client,
           pc # "idle" => worker[p].job \in Ids
    PROVE  IInv'
  <1>1. NewRequest.version <= request'.version
    BY DocumentFields, VersionsAreNumbers, NewRequestIsDocument DEF Progresses
  <1>2. GotoWith(p, pc, NewRequest)
    BY DEF Ends, GotoWith
  <1>3. QED
    BY <1>1, <1>2, NewRequestIsDocument, WorkerGoesWith
    DEF Executing, KeepsToVersion, Places

\* What a worker in the middle of something has.
LEMMA WorkerHas ==
    ASSUME IInv, NEW p \in Workers
    PROVE  /\ worker[p] \in WorkerState /\ worker[p].copy \in Document
           /\ worker[p].copy.version <= request.version
           /\ worker[p].copy.state = "failed" => SomeFailed
           /\ worker[p].pc \in Executing => worker[p].job \in Ids
           /\ worker[p].pc \in KeepsToVersion =>
                  worker[p].copy.version = worker[p].job[1]
           /\ worker[p].pc \in {"mark", "marking"} => SomeFailed
           /\ request \in Document /\ request.version <= request.version
           /\ request.state = "failed" => SomeFailed
  <1>1. worker[p] \in WorkerState /\ WorkerIsRight(p) /\ request \in Document
    BY DEF IInv, TypeOK
  <1>2. worker[p].copy \in Document
    BY <1>1 DEF WorkerState
  <1>3. request.version <= request.version
    BY <1>1, DocumentFields
  <1>4. request.state = "failed" => SomeFailed
    BY DEF IInv, FailureIsGrounded, SomeFailed
  <1>5. QED
    BY <1>1, <1>2, <1>3, <1>4 DEF WorkerIsRight, Executing, KeepsToVersion

\* The execution starts with the version of its job, or not at all.
LEMMA OpenRequestKeeps == ASSUME IInv, NEW p \in Workers, OpenRequest(p) PROVE IInv'
  <1>1. Progresses /\ client' = client /\ request' = request /\ jobs' = jobs
    BY NothingProgresses DEF OpenRequest
  <1>2. worker[p].job \in Ids /\ (request.state = "failed" => SomeFailed')
    BY <1>1, WorkerHas DEF OpenRequest, Executing, Places, Progresses
  <1>3. CASE Suits(p)
    BY <1>1, <1>2, <1>3, WorkerHas, WorkerGoesWith
    DEF OpenRequest, Suits, Places, KeepsToVersion, Executing
  <1>4. CASE ~Suits(p)
    BY <1>1, <1>2, <1>4, WorkerGoes DEF OpenRequest, Places, KeepsToVersion, Executing
  <1>5. QED
    BY <1>3, <1>4

\* The document with one artifact more.
LEMMA WithArtifactIsDocument ==
    ASSUME IInv, NEW p \in Workers
    PROVE  /\ WithArtifact(p) \in Document
           /\ WithArtifact(p).version = worker[p].copy.version
           /\ WithArtifact(p).state = worker[p].copy.state
  <1> DEFINE mine == worker[p].copy
             t == worker[p].target
             shown == mine.artifacts \cup {<<t, mine.selected[t]>>}
  <1>1. mine \in Document /\ t \in Targets
    BY WorkerHas DEF WorkerState
  <1>2. shown \in SUBSET (Targets \X Versions)
    BY <1>1, DocumentFields
  <1>3. WithArtifact(p) = [mine EXCEPT !.artifacts = shown]
    BY DEF WithArtifact
  <1> HIDE DEF mine, shown
  <1>4. WithArtifact(p) \in Document
    BY <1>1, <1>2, <1>3, Zenon DEF Document
  <1>5. QED
    BY <1>1, <1>3, <1>4 DEF Document, mine

\* A rendering, done or failed.
LEMMA RenderKeeps == ASSUME IInv, NEW p \in Workers, Render(p) PROVE IInv'
  <1>1. Progresses /\ client' = client /\ request' = request /\ jobs' = jobs
    BY NothingProgresses DEF Render
  <1>2. /\ worker[p].job \in Ids /\ worker[p].copy.version = worker[p].job[1]
        /\ worker[p].copy.version <= request'.version
        /\ worker[p].copy.state = "failed" => SomeFailed'
    BY <1>1, WorkerHas DEF Render, Executing, KeepsToVersion, Places, Progresses
  <1>3. CASE StillWanted(p)
    BY <1>1, <1>2, <1>3, WithArtifactIsDocument, WorkerGoesWith
    DEF Render, Places, KeepsToVersion, Executing
  <1>4. CASE ~StillWanted(p)
    BY <1>1, <1>2, <1>4, WorkerEnds DEF Render
  <1>5. QED
    BY <1>3, <1>4

\* A failed rendering, with a copy of the document as it is now.
LEMMA RenderFailsKeeps == ASSUME IInv, NEW p \in Workers, RenderFails(p) PROVE IInv'
  <1>1. Progresses /\ client' = client /\ request' = request /\ jobs' = jobs
    BY NothingProgresses DEF RenderFails
  <1>2. /\ worker[p].job \in Ids /\ request \in Document
        /\ request.version <= request'.version
        /\ request.state = "failed" => SomeFailed'
    BY <1>1, WorkerHas DEF RenderFails, Executing, KeepsToVersion, Places, Progresses
  <1>3. CASE StillWanted(p)
    BY <1>1, <1>2, <1>3, WorkerGoesWith
    DEF RenderFails, Places, KeepsToVersion, Executing
  <1>4. CASE ~StillWanted(p)
    BY <1>1, <1>2, <1>4, WorkerEnds DEF RenderFails
  <1>5. QED
    BY <1>3, <1>4

\* The saves of an execution.
LEMMA WorkerSaves ==
    ASSUME IInv, NEW p \in Workers, Saves(worker[p].copy), jobs' = jobs
    PROVE  Progresses
  BY WorkerHas, SaveProgresses

\* The failure is saved and the job goes on to fail.
LEMMA RecordFailureKeeps == ASSUME IInv, NEW p \in Workers, RecordFailure(p) PROVE IInv'
  <1>1. Progresses /\ worker[p].job \in Ids
    BY WorkerSaves, WorkerHas DEF RecordFailure, Executing, Places
  <1>2. QED
    BY <1>1, WorkerEnds DEF RecordFailure

\* The artifact is saved, in the version of the job or in none.
LEMMA PublishKeeps == ASSUME IInv, NEW p \in Workers, Publish(p) PROVE IInv'
  <1>1. Progresses /\ worker[p].job \in Ids /\ worker[p].copy.version = worker[p].job[1]
    BY WorkerSaves, WorkerHas DEF Publish, Executing, KeepsToVersion, Places
  <1>2. QED
    BY <1>1, WorkerGoes DEF Publish, Executing, KeepsToVersion, Places

\* The state is saved and the job goes on to be completed.
LEMMA ConcludeKeeps == ASSUME IInv, NEW p \in Workers, Conclude(p) PROVE IInv'
  <1>1. Progresses /\ worker[p].job \in Ids
    BY WorkerSaves, WorkerHas DEF Conclude, Executing, Places
  <1>2. QED
    BY <1>1, WorkerEnds DEF Conclude

\* The new state is "failed" only if a job of the version is.
LEMMA PreparationStateIsGrounded ==
    ASSUME NEW document \in Document
    PROVE  /\ PreparationState(document) \in {"ready", "partial", "queued", "failed"}
           /\ PreparationState(document) = "failed" => SomeFailed
  <1> DEFINE rows == {jobs[id] : id \in {i \in Ids : i[1] = document.version}}
  <1>1. PreparationState(document) \in {"ready", "partial", "queued", "failed"}
    BY DEF PreparationState
  <1>2. PreparationState(document) = "failed" => \E row \in rows : row.status = "failed"
    BY DEF PreparationState
  <1>3. (\E row \in rows : row.status = "failed") => SomeFailed
    BY DEF SomeFailed
  <1>4. QED
    BY <1>1, <1>2, <1>3

\* The copy gets its new state, and no other version.
LEMMA JudgeKeeps == ASSUME IInv, NEW p \in Workers, Judge(p) PROVE IInv'
  <1> DEFINE mine == worker[p].copy
             state == PreparationState(mine)
             document == [mine EXCEPT !.state = state]
  <1>1. Progresses /\ client' = client /\ request' = request
    BY NothingProgresses DEF Judge
  <1>2. /\ worker[p].job \in Ids /\ mine.version = worker[p].job[1]
        /\ mine.version <= request'.version /\ mine \in Document
    BY <1>1, WorkerHas DEF Judge, Executing, KeepsToVersion, Places
  <1>3. /\ state \in {"ready", "partial", "queued", "failed", "cancelled"}
        /\ state = "failed" => SomeFailed'
    BY <1>1, <1>2, PreparationStateIsGrounded DEF Progresses
  <1>4. GotoWith(p, "conclude", document)
    BY DEF Judge
  <1> HIDE DEF mine, state
  <1>5. document \in Document
    BY <1>2, <1>3, Zenon DEF Document
  <1>6. document.version = mine.version /\ document.state = state
    BY <1>2, <1>5 DEF Document
  <1> HIDE DEF document
  <1>7. QED
    BY <1>1, <1>2, <1>3, <1>4, <1>5, <1>6, WorkerGoesWith
    DEF Executing, KeepsToVersion, Places

\* An execution that is broken off keeps its job.
LEMMA RaiseKeeps == ASSUME IInv, NEW p \in Workers, Raise(p) PROVE IInv'
  <1>1. Progresses /\ worker[p].job \in Ids
    BY NothingProgresses, WorkerHas DEF Raise, Executing, Places
  <1>2. QED
    BY <1>1, WorkerEnds DEF Raise

-----------------------------------------------------------------------------
(* The end of a job *)

\* A worker settles its job: the row was running and stops being so.
LEMMA OneRowProgresses ==
    ASSUME IInv, NEW id \in Ids, NEW row \in JobRecord,
           jobs' = [jobs EXCEPT ![id] = row], request' = request,
           jobs[id].status = "running",
           row.attempt = jobs[id].attempt,
           row.status \in {"succeeded", "failed"}
               \/ (row.status = "retry_wait" /\ ~Exhausted(id))
    PROVE  Progresses /\ jobs'[id] = row
  <1>1. /\ jobs' \in [Ids -> JobRecord] /\ jobs'[id] = row
        /\ \A other \in Ids : other # id => jobs'[other] = jobs[other]
    BY DEF IInv, TypeOK
  <1>2. RowsAreConsistent'
    BY <1>1 DEF IInv, RowsAreConsistent, Exhausted
  <1>3. QED
    BY <1>1, <1>2, RowsProgress

\* A completed job is a running one, under the fence of its worker.
LEMMA CompleteKeeps == ASSUME IInv, NEW p \in Workers, Complete(p) PROVE IInv'
  <1> DEFINE id == worker[p].job
             row == [jobs[id] EXCEPT !.status = "succeeded"]
  <1>1. id \in Ids /\ jobs[id] \in JobRecord /\ jobs[id].status = "running"
    BY WorkerHas DEF Complete, FenceMatches, Executing, Places, IInv, TypeOK
  <1>2. jobs' = [jobs EXCEPT ![id] = row] /\ request' = request
    BY DEF Complete
  <1>3. row \in JobRecord /\ row.status = "succeeded" /\ row.attempt = jobs[id].attempt
    <2>1. "succeeded" \in {"absent", "succeeded", "failed"} \cup Pending
      OBVIOUS
    <2>2. row \in JobRecord
      BY <1>1, <2>1, Zenon DEF JobRecord
    <2>3. QED
      BY <1>1, <2>2 DEF JobRecord
  <1> HIDE DEF id, row
  <1>4. Progresses
    BY <1>1, <1>2, <1>3, OneRowProgresses
  <1>5. QED
    BY <1>4, WorkerRests DEF Complete

\* Only a job that has run out of attempts makes its worker report it.
LEMMA FailKeeps == ASSUME IInv, NEW p \in Workers, Fail(p) PROVE IInv'
  <1> DEFINE id == worker[p].job
             status == IF Exhausted(id) THEN "failed" ELSE "retry_wait"
             row == Given(jobs[id], status)
  <1>1. id \in Ids /\ jobs[id] \in JobRecord /\ jobs[id].status = "running"
    BY WorkerHas DEF Fail, FenceMatches, Executing, Places, IInv, TypeOK
  <1>2. jobs' = [jobs EXCEPT ![id] = row] /\ request' = request
    BY DEF Fail
  <1>3. row \in JobRecord /\ row.status = status /\ row.attempt = jobs[id].attempt
    BY <1>1, GivenRow
  <1>4. Progresses /\ jobs'[id] = row
    <2> HIDE DEF row, id
    <2>1. status \in {"succeeded", "failed"} \/ (status = "retry_wait" /\ ~Exhausted(id))
      OBVIOUS
    <2>2. QED
      BY <1>1, <1>2, <1>3, <2>1, OneRowProgresses
  <1>5. CASE Exhausted(id)
    <2>1. SomeFailed'
      BY <1>1, <1>3, <1>4, <1>5 DEF SomeFailed
    <2>2. worker' = [worker EXCEPT ![p] = AtRest("mark")] /\ client' = client
      BY <1>5 DEF Fail, MarksFailure
    <2>3. QED
      BY <1>4, <2>1, <2>2, WorkerRests
  <1>6. CASE ~Exhausted(id)
    <2>1. worker' = [worker EXCEPT ![p] = AtRest("idle")] /\ client' = client
      BY <1>6 DEF Fail, MarksFailure
    <2>2. QED
      BY <1>4, <2>1, WorkerRests
  <1>7. QED
    BY <1>5, <1>6

\* A worker that has lost its job rests.
LEMMA FailRefusedKeeps == ASSUME IInv, NEW p \in Workers, FailRefused(p) PROVE IInv'
  BY NothingProgresses, WorkerRests DEF FailRefused

\* The report of a failure reads the request and writes what it read.
LEMMA ReadToMarkKeeps == ASSUME IInv, NEW p \in Workers, ReadToMark(p) PROVE IInv'
  <1>1. Progresses /\ client' = client /\ request' = request
    BY NothingProgresses DEF ReadToMark
  <1>2. SomeFailed' /\ request \in Document /\ request.version <= request'.version
    BY <1>1, WorkerHas DEF ReadToMark, Progresses
  <1>3. CASE request.state \in {"cancelled", "ready"}
    BY <1>1, <1>3, WorkerGoes DEF ReadToMark, Executing, KeepsToVersion, Places
  <1>4. CASE request.state \notin {"cancelled", "ready"}
    <2> DEFINE document == [request EXCEPT !.state = "failed"]
    <2>1. "failed" \in {"ready", "partial", "queued", "failed", "cancelled"}
      OBVIOUS
    <2>2. document \in Document
      BY <1>2, <2>1, Zenon DEF Document
    <2>3. document.version = request.version
      BY <1>2 DEF Document
    <2>4. GotoWith(p, "marking", document)
      BY <1>4 DEF ReadToMark
    <2> HIDE DEF document
    <2>5. QED
      BY <1>1, <1>2, <2>2, <2>3, <2>4, WorkerGoesWith
      DEF Executing, KeepsToVersion, Places
  <1>5. QED
    BY <1>3, <1>4

\* The report is saved.
LEMMA MarkFailedKeeps == ASSUME IInv, NEW p \in Workers, MarkFailed(p) PROVE IInv'
  <1>1. Progresses
    BY WorkerSaves DEF MarkFailed
  <1>2. QED
    BY <1>1, WorkerEnds DEF MarkFailed

\* A dead worker holds nothing.
LEMMA CrashKeeps == ASSUME IInv, NEW p \in Workers, Crash(p) PROVE IInv'
  BY NothingProgresses, WorkerRests DEF Crash

\* So does one that starts again.
LEMMA RestartKeeps == ASSUME IInv, NEW p \in Workers, Restart(p) PROVE IInv'
  BY NothingProgresses, WorkerRests DEF Restart

-----------------------------------------------------------------------------
(* The invariant and what follows from it *)

\* The first request is right and nobody has read it.
LEMMA InitEstablishes == ASSUME Init PROVE IInv
  <1>1. /\ request \in Document /\ request.version = 1
        /\ request.state \in {"ready", "partial"}
    <2>1. [NewRequest EXCEPT !.state = "partial"] \in Document
      BY NewRequestIsDocument, Zenon DEF Document
    <2>2. QED
      BY <2>1, NewRequestIsDocument DEF Init, Document
  <1>2. jobs \in [Ids -> JobRecord] /\ \A id \in Ids : jobs[id].status = "absent"
        /\ jobs[id].attempt = 0
    BY PreparationAssumption DEF Init, Ids, JobRecord
  <1>3. RowsAreConsistent
    BY <1>2 DEF RowsAreConsistent
  <1>4. /\ client \in [Clients -> ClientState]
        /\ \A c \in Clients : client[c] = NoCommand
    BY NoCommandIsRight DEF Init
  <1>5. /\ worker \in [Workers -> WorkerState]
        /\ \A p \in Workers : worker[p].pc = "idle" /\ worker[p].copy = NewRequest
    BY AtRestIsRight DEF Init, Places
  <1>6. \A c \in Clients : ClientIsRight(c)
    BY <1>1, <1>4, NoCommandIsRight, NewRequestIsDocument DEF ClientIsRight
  <1>7. \A p \in Workers : WorkerIsRight(p)
    BY <1>1, <1>5, NewRequestIsDocument DEF WorkerIsRight
  <1>8. QED
    BY <1>1, <1>2, <1>3, <1>4, <1>5, <1>6, <1>7 DEF IInv, TypeOK, FailureIsGrounded

\* Whatever a user does keeps the invariant.
LEMMA UserStepKeeps == ASSUME IInv, NEW c \in Clients, UserStep(c) PROVE IInv'
  BY OpenKeeps, LookKeeps, EnqueueKeeps, GiveUpKeeps, SaveKeeps DEF UserStep

\* So does whatever a worker does.
LEMMA WorkerStepKeeps == ASSUME IInv, NEW p \in Workers, WorkerStep(p) PROVE IInv'
  BY ClaimKeeps, OpenRequestKeeps, RenderKeeps, RenderFailsKeeps, RecordFailureKeeps,
     PublishKeeps, JudgeKeeps, ConcludeKeeps, RaiseKeeps, CompleteKeeps, FailKeeps,
     FailRefusedKeeps, ReadToMarkKeeps, MarkFailedKeeps, CrashKeeps, RestartKeeps
  DEF WorkerStep

\* So does a step of somebody else.
LEMMA StutterKeeps == ASSUME IInv, UNCHANGED vars PROVE IInv'
  <1>1. Progresses
    BY NothingProgresses DEF vars
  <1>2. QED
    BY <1>1, OthersStayRight DEF vars, IInv, TypeOK, Progresses

\* The invariant holds throughout.
LEMMA Invariance == Spec => []IInv
  <1>1. Init => IInv
    BY InitEstablishes
  <1>2. IInv /\ [Next]_vars => IInv'
    BY UserStepKeeps, WorkerStepKeeps, StutterKeeps DEF Next
  <1>3. QED
    BY <1>1, <1>2, PTL DEF Spec

\* Every copy anybody holds is a document of the request.
THEOREM TypeCorrect == Spec => []TypeOK
  <1>1. IInv => TypeOK
    BY DEF IInv
  <1>2. QED
    BY <1>1, Invariance, PTL

\* A request says that it failed only if one of its jobs has used up its
\* attempts, whatever stale copies were saved (mark_preparation_failed,
\* _preparation_state).
THEOREM FailuresAreGrounded == Spec => []FailureIsGrounded
  <1>1. IInv => FailureIsGrounded
    BY DEF IInv
  <1>2. QED
    BY <1>1, Invariance, PTL

\* A step leaves the request or saves a document.
LEMMA StepSaves ==
    ASSUME Next
    PROVE  request' = request \/ \E document : Saves(document)
  <1>1. ASSUME NEW c \in Clients, UserStep(c)
        PROVE  request' = request \/ \E document : Saves(document)
    BY <1>1 DEF UserStep, Open, Look, Enqueue, GiveUp, Save
  <1>2. ASSUME NEW p \in Workers, WorkerStep(p)
        PROVE  request' = request \/ \E document : Saves(document)
    BY <1>2 DEF WorkerStep, Claim, OpenRequest, Render, RenderFails, RecordFailure,
                Publish, Judge, Conclude, Raise, Complete, Fail, FailRefused,
                ReadToMark, MarkFailed, Crash, Restart
  <1>3. QED
    BY <1>1, <1>2 DEF Next

\* The stored request never falls back to an older version, however old the
\* copies that clients and workers save (save_request).
THEOREM VersionsNeverGoBack == Spec => VersionNeverGoesBack
  <1>1. IInv /\ [Next]_vars => [request'.version >= request.version]_vars
    <2> SUFFICES ASSUME IInv, Next PROVE request'.version >= request.version
      OBVIOUS
    <2>1. request.version \in Nat
      BY DocumentFields DEF IInv, TypeOK
    <2>2. QED
      BY <2>1, StepSaves DEF Saves
  <1>2. QED
    BY <1>1, Invariance, PTL DEF Spec, VersionNeverGoesBack

\* A step of one worker is no step of another.
LEMMA OneWorkerMoves ==
    ASSUME IInv, NEW q \in Workers, WorkerStep(q), NEW p \in Workers, p # q
    PROVE  worker'[p] = worker[p]
  <1>1. worker \in [Workers -> WorkerState]
    BY DEF IInv, TypeOK
  <1>2. ASSUME NEW w, worker' = [worker EXCEPT ![q] = w] PROVE worker'[p] = worker[p]
    BY <1>1, <1>2
  <1>3. ASSUME NEW pc, \/ Goto(q, pc) \/ Ends(q, pc)
                       \/ \E document : GotoWith(q, pc, document)
        PROVE  worker'[p] = worker[p]
    BY <1>1, <1>3 DEF Goto, Ends, GotoWith
  <1>4. ASSUME NEW expired \in SUBSET Running, Claim(q, expired)
        PROVE  worker'[p] = worker[p]
    BY <1>1, <1>4 DEF Claim
  <1>5. CASE \/ OpenRequest(q) \/ Render(q) \/ RenderFails(q) \/ RecordFailure(q)
             \/ Publish(q) \/ Judge(q) \/ Conclude(q) \/ Raise(q)
             \/ ReadToMark(q) \/ MarkFailed(q)
    BY <1>3, <1>5, Zenon
    DEF OpenRequest, Render, RenderFails, RecordFailure, Publish, Judge, Conclude,
        Raise, ReadToMark, MarkFailed
  <1>6. CASE Complete(q) \/ Fail(q) \/ FailRefused(q) \/ Crash(q) \/ Restart(q)
    BY <1>2, <1>6, Zenon DEF Complete, Fail, FailRefused, Crash, Restart
  <1>7. QED
    BY <1>4, <1>5, <1>6 DEF WorkerStep

\* A worker that is about to save changes the request in no other way.
LEMMA OnlyItsCopyIsSaved ==
    ASSUME NEW p \in Workers, worker[p].pc \in {"publish", "conclude"},
           WorkerStep(p), request' # request
    PROVE  Saves(worker[p].copy)
  <1>1. Publish(p) \/ Conclude(p)
    BY DEF WorkerStep, Claim, OpenRequest, Render, RenderFails, RecordFailure,
           Judge, Raise, Complete, Fail, FailRefused, ReadToMark, MarkFailed,
           Crash, Restart
  <1>2. QED
    BY <1>1 DEF Publish, Conclude

\* An execution publishes nothing into a version its job was not made for
\* (execute_preparation_job, save_request).
THEOREM ObsoleteJobsAreKeptOut == Spec => ObsoleteJobsStayOut
  <1>1. IInv /\ [Next]_vars =>
            [\A p \in Workers :
                (worker[p].pc \in {"publish", "conclude"} /\ request' # request
                    /\ worker'[p] # worker[p]) => request.version = worker[p].job[1]]_vars
    <2> SUFFICES ASSUME IInv, Next, NEW p \in Workers,
                        worker[p].pc \in {"publish", "conclude"},
                        request' # request, worker'[p] # worker[p]
                 PROVE  request.version = worker[p].job[1]
      OBVIOUS
    <2>1. WorkerStep(p)
      <3>1. ASSUME NEW c \in Clients, UserStep(c) PROVE worker' = worker
        BY <3>1 DEF UserStep, Open, Look, Enqueue, GiveUp, Save
      <3>2. QED
        BY <3>1, OneWorkerMoves DEF Next
    <2>2. worker[p].copy.version >= request.version
      BY <2>1, OnlyItsCopyIsSaved DEF Saves
    <2>3. /\ worker[p].copy.version <= request.version
          /\ worker[p].copy.version = worker[p].job[1]
          /\ worker[p].copy.version \in Nat /\ request.version \in Nat
      BY WorkerHas, DocumentFields DEF KeepsToVersion
    <2>4. QED
      BY <2>2, <2>3
  <1>2. QED
    BY <1>1, Invariance, PTL DEF Spec, ObsoleteJobsStayOut
=============================================================================
