------------------------- MODULE ConversationMemory -------------------------
(***************************************************************************)
(* One conversation, the turns that users take in it, and the historical   *)
(* memory of one physical event that those turns write and recall.         *)
(*                                                                         *)
(* A turn is a chain of awaited database calls around a long answer of the *)
(* assistant.  Nothing keeps two turns of a conversation apart but the     *)
(* lock on its row inside each transaction, and the user may delete the    *)
(* conversation at any time.                                               *)
(*                                                                         *)
(* The identity of a memory is computed from the world state it is about,  *)
(* so a record is named by its world-state version here.                   *)
(***************************************************************************)
EXTENDS Integers

CONSTANTS
    Turns,      \* turns users may take; each is taken once
    Creator,    \* the turn that starts the conversation
    Versions,   \* world states of the event
    NoVersion,  \* no version
    Life,       \* DEFAULT_MEMORY_RETENTION
    LastMoment     \* bound on the clock

ASSUME MemoryAssumption ==
    /\ Creator \in Turns
    /\ NoVersion \notin Versions
    /\ Life \in Nat \ {0}
    /\ LastMoment \in Nat

VARIABLES
    moment,
    row,        \* the conversation row
    messages,   \* conversation_message rows
    memory,     \* agent_memory rows
    turn        \* what each turn knows, and where it is

talkVars == <<moment, row, messages, memory, turn>>

Roles == {"user", "assistant"}

\* Appends move updated_at past the clock when they are faster than it.
Moments == Nat

Messages == [turn : Turns, role : Roles, at : Moments]

Record == [status : {"absent", "active", "superseded", "expired"},
           by : Versions \cup {NoVersion}, sources : SUBSET Turns,
           confirmed : 0..LastMoment, expires : 0..(LastMoment + Life)]

Absent == [status |-> "absent", by |-> NoVersion, sources |-> {}, confirmed |-> 0, expires |-> 0]
NoMemory == [v \in Versions |-> Absent]

RowRecord == [state : {"absent", "open", "deleted"}, updated : Moments]

TurnState ==
    [pc : {"new", "ask", "assist", "expire", "answer", "list", "save", "over"},
     since : 0..LastMoment, history : SUBSET Messages, version : Versions \cup {NoVersion},
     expiring : SUBSET Versions, confirmed : 0..LastMoment, known : Record]

TalkTypeOK ==
    /\ moment \in 0..LastMoment
    /\ row \in RowRecord
    /\ messages \subseteq Messages
    /\ memory \in [Versions -> Record]
    /\ turn \in [Turns -> TurnState]

TurnAt(pc) == [pc |-> pc, since |-> 0, history |-> {}, version |-> NoVersion,
           expiring |-> {}, confirmed |-> 0, known |-> Absent]

TalkInit ==
    /\ moment = 0
    /\ row = [state |-> "absent", updated |-> 0]
    /\ messages = {}
    /\ memory = NoMemory
    /\ turn = [t \in Turns |-> TurnAt("new")]

IsOpen == row.state = "open"

\* A turn reads the clock some time after its last step.
Readings(t) == turn[t].since..moment

LaterOf(a, b) == IF a >= b THEN a ELSE b

\* The turn is over; what it held is gone.
Ends(t) == turn' = [turn EXCEPT ![t] = TurnAt("over")]

-----------------------------------------------------------------------------
(* RunConversationTurn.execute up to the stored answer *)

Create(t) ==
    /\ turn[t].pc = "new" /\ t = Creator
    /\ row' = [state |-> "open", updated |-> moment]
    /\ turn' = [turn EXCEPT ![t] = [@ EXCEPT !.pc = "ask", !.since = moment]]
    /\ UNCHANGED <<moment, messages, memory>>

\* A turn in a conversation that exists starts from the messages it has now; in
\* one that was deleted it raises ConversationNotFoundError.
Load(t) ==
    /\ turn[t].pc = "new" /\ t # Creator
    /\ row.state # "absent"
    /\ IF IsOpen
       THEN turn' = [turn EXCEPT ![t] = [@ EXCEPT !.pc = "ask", !.since = moment,
                                                  !.history = messages]]
       ELSE Ends(t)
    /\ UNCHANGED <<moment, row, messages, memory>>

\* Faulty variant: a message is stored with the instant its turn has read.
StampAsRead(now) == now

\* append: on the locked row, the message is stamped after all that came before it.
Stamp(now) == LaterOf(now, row.updated + 1)

AppendMessage(t, role, next) ==
    IF IsOpen
    THEN \E now \in Readings(t) :
            /\ messages' = messages \cup {[turn |-> t, role |-> role, at |-> Stamp(now)]}
            /\ row' = [row EXCEPT !.updated = Stamp(now)]
            /\ turn' = [turn EXCEPT ![t] = [@ EXCEPT !.pc = next, !.since = moment]]
    ELSE Ends(t) /\ UNCHANGED <<row, messages>>

Ask(t) ==
    /\ turn[t].pc = "ask"
    /\ AppendMessage(t, "user", "assist")
    /\ UNCHANGED <<moment, memory>>

\* The answer is not about an event with an evidence state: memory is left alone.
AssistPlainly(t) ==
    /\ turn[t].pc = "assist"
    /\ turn' = [turn EXCEPT ![t].pc = "answer"]
    /\ UNCHANGED <<moment, row, messages, memory>>

\* The evidence is reconciled to the world state v, then memory is recalled: of
\* the active records that are read, those past their expiry are to be marked.
Recall(t, v) ==
    /\ turn[t].pc = "assist"
    /\ \E now \in Readings(t) :
        turn' = [turn EXCEPT ![t] =
            [@ EXCEPT !.pc = "expire", !.version = v,
                      !.expiring = {m \in Versions : /\ memory[m].status = "active"
                                                     /\ memory[m].expires <= now}]]
    /\ UNCHANGED <<moment, row, messages, memory>>

\* mark_expired: an update of the row if it is active, whatever its expiry is by now.
Expire(t, v) ==
    /\ turn[t].pc = "expire" /\ v \in turn[t].expiring
    /\ memory' = IF memory[v].status = "active"
                 THEN [memory EXCEPT ![v].status = "expired"] ELSE memory
    /\ turn' = [turn EXCEPT ![t].expiring = @ \ {v}]
    /\ UNCHANGED <<moment, row, messages>>

Recalled(t) ==
    /\ turn[t].pc = "expire" /\ turn[t].expiring = {}
    /\ turn' = [turn EXCEPT ![t].pc = "answer"]
    /\ UNCHANGED <<moment, row, messages, memory>>

Answer(t) ==
    /\ turn[t].pc = "answer"
    /\ AppendMessage(t, "assistant", IF turn[t].version = NoVersion THEN "over" ELSE "list")
    /\ UNCHANGED <<moment, memory>>

-----------------------------------------------------------------------------
(* _persist_memory, MemoryPolicy.evaluate and PostgresMemoryRepository.save *)

\* The candidate is stamped, then the records of its scope are read.  What is read
\* of the others makes no difference: save looks for itself what is active.
List(t) ==
    /\ turn[t].pc = "list"
    /\ \E now \in Readings(t) :
        turn' = [turn EXCEPT ![t] = [@ EXCEPT !.pc = "save", !.since = moment,
                                              !.confirmed = now,
                                              !.known = memory[turn[t].version]]]
    /\ UNCHANGED <<moment, row, messages, memory>>

Candidate(t) == [status |-> "active", by |-> NoVersion, sources |-> {t},
                 confirmed |-> turn[t].confirmed, expires |-> turn[t].confirmed + Life]

\* An active record of the same world state is merged with, any other replaced.
Evaluated(t, now) ==
    IF turn[t].known.status = "active" /\ turn[t].known.expires > now
    THEN [turn[t].known EXCEPT !.sources = @ \cup {t},
                       !.confirmed = LaterOf(@, Candidate(t).confirmed),
                       !.expires = LaterOf(@, Candidate(t).expires)]
    ELSE Candidate(t)

\* save, under the lock on the conversation row: every other active record of
\* the scope is superseded, the one with this identity overwritten.
Saved(t, now) ==
    [v \in Versions |->
        IF v = turn[t].version THEN Evaluated(t, now)
        ELSE IF memory[v].status = "active"
        THEN [memory[v] EXCEPT !.status = "superseded", !.by = turn[t].version]
        ELSE memory[v]]

\* The candidate may have expired meanwhile; if the conversation has been deleted,
\* the foreign key refuses the record and the refusal is logged.
Save(t) ==
    /\ turn[t].pc = "save"
    /\ \E now \in Readings(t) :
        memory' = IF IsOpen /\ Candidate(t).expires > now THEN Saved(t, now) ELSE memory
    /\ Ends(t)
    /\ UNCHANGED <<moment, row, messages>>

\* The assistant raises, or the process dies: what is stored stays.
Abandon(t) ==
    /\ turn[t].pc \notin {"new", "over"}
    /\ Ends(t)
    /\ UNCHANGED <<moment, row, messages, memory>>

-----------------------------------------------------------------------------
\* The user deletes the conversation; its messages and memory go with the row.
Delete ==
    /\ IsOpen
    /\ row' = [row EXCEPT !.state = "deleted"]
    /\ messages' = {}
    /\ memory' = NoMemory
    /\ UNCHANGED <<moment, turn>>

MomentPasses ==
    /\ moment < LastMoment
    /\ moment' = moment + 1
    /\ UNCHANGED <<row, messages, memory, turn>>

TurnNext(t) ==
    \/ Create(t) \/ Load(t) \/ Ask(t) \/ AssistPlainly(t)
    \/ \E v \in Versions : Recall(t, v) \/ Expire(t, v)
    \/ Recalled(t) \/ Answer(t) \/ List(t) \/ Save(t) \/ Abandon(t)

TalkNext == Delete \/ MomentPasses \/ \E t \in Turns : TurnNext(t)

TalkSpec == TalkInit /\ [][TalkNext]_talkVars

-----------------------------------------------------------------------------
(* Properties *)

\* Messages of turns that overlap have one order: no two share an instant, an
\* answer comes after its question, and the history a turn was given before its
\* own question.
MessagesAreOrdered ==
    /\ \A m, n \in messages : m.at = n.at => m = n
    /\ \A m, n \in messages :
        m.turn = n.turn /\ m.role = "user" /\ n.role = "assistant" => m.at < n.at
    /\ \A t \in Turns : \A m \in turn[t].history \cap messages :
        \A n \in messages : n.turn = t => m.at < n.at

\* Overlapping turns leave at most one record active.
OneActiveMemory ==
    \A v, w \in Versions :
        memory[v].status = "active" /\ memory[w].status = "active" => v = w

\* A superseded record leads to one that is not, through records that exist, however
\* often the world went back to a former state: of any superseded records one was
\* replaced by a record that is none of them.
LineageIsSound ==
    LET superseded == {v \in Versions : memory[v].status = "superseded"} IN
    /\ \A v \in superseded : /\ memory[v].by \in Versions
                            /\ memory[memory[v].by].status # "absent"
    /\ \A some \in SUBSET superseded : some # {} => \E v \in some : memory[v].by \notin some

\* What is remembered can be traced to questions and answers that still exist.
SourcesExist ==
    \A v \in Versions : \A t \in memory[v].sources : \A role \in Roles :
        \E m \in messages : m.turn = t /\ m.role = role

\* Overlapping turns leave one order of messages and one active memory, whose
\* lineage and sources exist.
ConversationIsSound ==
    MessagesAreOrdered /\ OneActiveMemory /\ LineageIsSound /\ SourcesExist
=============================================================================
