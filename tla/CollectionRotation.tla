------------------------ MODULE CollectionRotation -------------------------
(***************************************************************************)
(* Which of the works that are ready a claim takes (_candidate_rows of      *)
(* sqlite_collection_claims.py): retrievals by class of headline and by the *)
(* source that found them, requests to an index by a cycle of three.        *)
(* Readiness itself is CollectionJournal's; a job stands for all works of   *)
(* its class and sources, and joins the ready ones at any time.             *)
(***************************************************************************)
EXTENDS Naturals, FiniteSets

CONSTANTS
    Jobs, Class, From,  \* retrievals: the class of each and the sources that found it
    Sources, Before,    \* Before[s]: the place of s in the order of names
    Budget,             \* requests to an index in a pass
    MaxClaims           \* bound

Classes == 0 .. 3
Kinds == {"initial", "citation", "started", "followup"}
Shares == {"initial", "citation"}

ASSUME RotationAssumption ==
    /\ Class \in [Jobs -> Classes]
    /\ From \in [Jobs -> (SUBSET Sources) \ {{}}]
    /\ Before \in [Sources -> Nat] /\ \A s, t \in Sources : Before[s] = Before[t] => s = t
    /\ Budget \in Nat \ {0} /\ MaxClaims \in Nat /\ Sources # {}

VARIABLES
    ready,    \* the retrievals that may be claimed
    claimed,  \* retrieval_rotation
    last,     \* retrieval_source_rotation: the ordinal of a source's latest turn
    asks,     \* the kinds of search one index has ready
    used,     \* how much of its allowance is spent
    \* What follows is read by properties only.
    turn,     \* the latest retrieval: its class and the source it counts for
    passed,   \* claims since a class with ready work was last served
    ahead,    \* ahead[s][c]: the sources served in c since s began to wait in it
    skipped   \* requests since a kind of search that is ready was last served, or a
              \* begun citation was ready, or, of a citation, the pass began

retrievals == <<ready, claimed, last, turn, passed, ahead>>
searches == <<asks, used, skipped>>
rotationVars == <<retrievals, searches>>

RotationTypeOK ==
    /\ ready \subseteq Jobs
    /\ claimed \in 0 .. MaxClaims
    /\ last \in [Sources -> 0 .. MaxClaims]
    /\ asks \subseteq Kinds
    /\ used \in 0 .. Budget
    /\ turn \in [class : Classes, source : Sources]
    /\ passed \in [Classes -> Nat]
    /\ ahead \in [Sources -> [Classes -> SUBSET Sources]]
    /\ skipped \in [Shares -> Nat]

RotationInit ==
    /\ ready = {} /\ claimed = 0 /\ last = [s \in Sources |-> 0]
    /\ asks = {} /\ used = 0
    /\ turn = [class |-> 0, source |-> CHOOSE s \in Sources : TRUE]
    /\ passed = [c \in Classes |-> 0]
    /\ ahead = [s \in Sources |-> [c \in Classes |-> {}]]
    /\ skipped = [k \in Shares |-> 0]

-----------------------------------------------------------------------------
(* Retrievals *)

InClass(c) == {j \in ready : Class[j] = c}
HasWork(s, c) == \E j \in InClass(c) : s \in From[j]

\* Faulty variant: only the consequences of disasters keep a share of their own.
PreferredConsequences(n) == IF n % 10 \in {4, 9} THEN {2} ELSE {}

\* preferred_retrieval_priority: the class, if any, a position of ten belongs to.
Preferred(n) == CASE n % 10 \in {4, 9} -> {2}
                  [] n % 10 = 7 -> {1}
                  [] n % 10 = 8 -> {0}
                  [] OTHER -> {}

\* The preferred class if it has ready work, or else the highest that has.
Chosen ==
    LET offered == {c \in Classes : InClass(c) # {}}
        wanted == Preferred(claimed) \cap offered
    IN IF wanted # {} THEN CHOOSE c \in wanted : TRUE
       ELSE CHOOSE c \in offered : \A d \in offered : d <= c

Precedes(s, t) == \/ last[s] < last[t]
                  \/ last[s] = last[t] /\ Before[s] <= Before[t]
First(S) == CHOOSE s \in S : \A t \in S : Precedes(s, t)

\* Faulty variant: a source is counted, and catches up on the turns it did not ask for.
RecordedAsCount(s) == [last EXCEPT ![s] = @ + 1]

\* record_retrieval_source_claim: a turn is remembered by its ordinal.
Recorded(s) == [last EXCEPT ![s] = claimed + 1]

\* The source whose turn it is, any of its ready works in the class, and the source
\* of that work that is charged.
Retrieve == \E j \in InClass(Chosen) :
    LET c == Chosen
        lane == First({s \in Sources : HasWork(s, c)})
        charged == First(From[j])
    IN /\ claimed < MaxClaims
       /\ lane \in From[j]
       /\ ready' = ready \ {j}
       /\ claimed' = claimed + 1
       /\ last' = Recorded(charged)
       /\ turn' = [class |-> c, source |-> charged]
       /\ passed' = [d \in Classes |->
              IF d = c \/ InClass(d) = {} THEN 0 ELSE passed[d] + 1]
       /\ ahead' = [s \in Sources |-> [d \in Classes |->
              IF s = charged \/ ~(\E i \in ready' : Class[i] = d /\ s \in From[i]) THEN {}
              ELSE IF d = c THEN ahead[s][d] \cup {charged} ELSE ahead[s][d]]]
       /\ UNCHANGED searches

Arrive == \E j \in Jobs \ ready :
    /\ ready' = ready \cup {j}
    /\ UNCHANGED <<claimed, last, turn, passed, ahead, searches>>

-----------------------------------------------------------------------------
(* Requests to one index *)

\* Faulty variant: citations come first at every request.
CitationSlotAlways == TRUE

\* Two of three requests resolve citations, as long as there are any.
CitationSlot == used % 3 # 0

\* What a claim may take: citations begun before others, works of initial coverage
\* and begun citations by age, then citations, then follow-ups.
Served ==
    IF CitationSlot /\ "started" \in asks THEN {"started"}
    ELSE IF CitationSlot /\ "citation" \in asks THEN {"citation"}
    ELSE IF asks \cap {"initial", "started"} # {} THEN asks \cap {"initial", "started"}
    ELSE IF "citation" \in asks THEN {"citation"} ELSE asks

Search == \E k \in Served :
    /\ used < Budget
    /\ asks' = asks \ {k}
    /\ used' = used + 1
    /\ skipped' = [i \in Shares |->
           IF i = k \/ i \notin asks \/ "started" \in asks THEN 0 ELSE skipped[i] + 1]
    /\ UNCHANGED retrievals

\* A page or a plan makes further searches ready; a citation that was claimed goes on.
MoreToAsk == \E k \in Kinds \ asks :
    /\ asks' = asks \cup {k}
    /\ UNCHANGED <<used, skipped, retrievals>>

\* A pass ends, its allowance spent or not (it is too old, the requests of all indexes
\* are spent), and another begins with a new allowance and a new cycle.
NewPass ==
    /\ used' = 0
    /\ skipped' = [skipped EXCEPT !["citation"] = 0]
    /\ UNCHANGED <<asks, retrievals>>

\* The index refuses a page at the storage limit: the rest of the allowance is void.
Forfeit ==
    /\ used' = Budget
    /\ UNCHANGED <<asks, skipped, retrievals>>

RetrievalNext == Retrieve \/ Arrive
SearchNext == Search \/ MoreToAsk \/ NewPass \/ Forfeit
RotationNext == RetrievalNext \/ SearchNext
RotationSpec == RotationInit /\ [][RotationNext]_rotationVars

-----------------------------------------------------------------------------
(* Properties *)

\* "Keep every metadata class inspectable within the shared request cap"
\* (collection_retrieval_priority.py): however many stronger headlines arrive, a class
\* whose work stays ready is passed over fewer than ten times in a row.
EveryClassIsInspected ==
    /\ passed[3] <= 3 /\ passed[2] <= 4
    /\ \A c \in {0, 1} : passed[c] <= 9

\* "A late or returning source receives one turn, then waits for other ready sources"
\* (sqlite_retrieval_sources.py): no source is served twice in a class while another
\* waits there and is served nowhere.
SourceTurn == claimed' # claimed =>
    \A s \in Sources : HasWork(s, turn'.class) /\ s # turn'.source
        => turn'.source \notin ahead[s][turn'.class]
SourcesTakeTurns == [][SourceTurn]_rotationVars

\* "Keep one opportunity for initial coverage in every cycle; use the other
\* opportunities to turn retained index citations into publisher links."
\* (sqlite_collection_claims.py:136): unless a begun citation comes between, initial
\* coverage waits for two requests at most, also across passes of any length, and a
\* citation for one, within a pass.
IndexSharesHold == skipped["initial"] <= 2 /\ skipped["citation"] <= 1

\* Every class of jobs and each share of an index gets its share of the claims, and
\* sources take turns (sqlite_collection_claims.py, sqlite_retrieval_sources.py).
RotationIsFair ==
    [](EveryClassIsInspected /\ IndexSharesHold) /\ SourcesTakeTurns
=============================================================================
