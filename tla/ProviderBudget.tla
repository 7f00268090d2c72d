---------------------------- MODULE ProviderBudget ----------------------------
(***************************************************************************)
(* The provider budget ledger and the calls that draw on it.               *)
(*                                                                         *)
(* A call reads the clock, reserves one unit of the window of that hour,   *)
(* asks its provider, and settles the unit; if anything fails after the    *)
(* reservation, the settlement or the report that follows it included, it  *)
(* releases the unit.  Every call of the ledger is one transaction.        *)
(* Both sides of a call are one unit, as the workers have it.              *)
(***************************************************************************)
EXTENDS Naturals, FiniteSets

CONSTANTS
    Calls,      \* provider calls; each draws one fresh reservation id
    Limits,     \* limits the deployment may be configured with
    MaxHour     \* bound on the hours the clock shows

ASSUME BudgetAssumption ==
    /\ IsFiniteSet(Calls)
    /\ Limits \subseteq Nat \ {0}
    /\ MaxHour \in Nat

VARIABLES
    hour,           \* the hour the clock shows
    window,         \* provider_budget_window, one row for an hour
    reservation,    \* provider_budget_reservation, one row for a call
    call            \* where each call is in its run, and the hour it read

budgetVars == <<hour, window, reservation, call>>

Hours == 0..MaxHour

\* limit = 0: the window has no row yet.
Window == [limit : Limits \cup {0}, reserved : Nat, settled : Nat, released : Nat]

BudgetTypeOK ==
    /\ hour \in Hours
    /\ window \in [Hours -> Window]
    /\ reservation \in [Calls ->
            [status : {"none", "reserved", "settled", "released"}, hour : Hours]]
    /\ call \in [Calls ->
            [pc : {"start", "reserving", "calling", "reporting", "over"}, hour : Hours]]

BudgetInit ==
    /\ hour = 0
    /\ window = [h \in Hours |->
            [limit |-> 0, reserved |-> 0, settled |-> 0, released |-> 0]]
    /\ reservation = [c \in Calls |-> [status |-> "none", hour |-> 0]]
    /\ call = [c \in Calls |-> [pc |-> "start", hour |-> 0]]

Goto(c, pc) == call' = [call EXCEPT ![c].pc = pc]

NextHour ==
    /\ hour < MaxHour
    /\ hour' = hour + 1
    /\ UNCHANGED <<window, reservation, call>>

\* Faulty variant: the hour is rounded up instead of down.
ReadHourRoundedUp(c) ==
    /\ call[c].pc = "start"
    /\ call' = [call EXCEPT ![c] = [pc |-> "reserving", hour |-> hour + 1]]
    /\ UNCHANGED <<hour, window, reservation>>

\* run_once reads the clock before it claims its job; the hour may be over
\* when the unit is reserved.
ReadHour(c) ==
    /\ call[c].pc = "start"
    /\ call' = [call EXCEPT ![c] = [pc |-> "reserving", hour |-> hour]]
    /\ UNCHANGED <<hour, window, reservation>>

-----------------------------------------------------------------------------
(* The ledger *)

\* The limit of a window is the one its first reservation came with.
Opened(h, limit) ==
    IF window[h].limit = 0 THEN [window[h] EXCEPT !.limit = limit] ELSE window[h]

\* Faulty variant: units that are only reserved are not counted.
FitsIgnoringReserved(h, limit) ==
    /\ Opened(h, limit).limit = limit
    /\ window[h].settled + 1 <= limit

Fits(h, limit) ==
    /\ Opened(h, limit).limit = limit
    /\ window[h].settled + window[h].reserved + 1 <= limit

Reserve(c, limit) ==
    LET h == call[c].hour IN
    /\ call[c].pc = "reserving"
    /\ Fits(h, limit)
    /\ window' = [window EXCEPT ![h] = [Opened(h, limit) EXCEPT !.reserved = @ + 1]]
    /\ reservation' = [reservation EXCEPT ![c] = [status |-> "reserved", hour |-> h]]
    /\ Goto(c, "calling")
    /\ UNCHANGED hour

\* ProviderBudgetExceeded, or ValueError for a limit changed within the hour;
\* the transaction is rolled back with the row it may have inserted.
Refuse(c, limit) ==
    /\ call[c].pc = "reserving"
    /\ ~Fits(call[c].hour, limit)
    /\ Goto(c, "over")
    /\ UNCHANGED <<hour, window, reservation>>

LessOne(n) == IF n > 0 THEN n - 1 ELSE 0

Finished(row, status) ==
    IF status = "settled"
    THEN [row EXCEPT !.reserved = LessOne(@), !.settled = @ + 1]
    ELSE [row EXCEPT !.reserved = LessOne(@), !.released = @ + 1]

\* Faulty variant: a reservation is settled or released whatever its status.
FinishAgain(c, status) ==
    LET h == reservation[c].hour IN
    /\ reservation' = [reservation EXCEPT ![c].status = status]
    /\ window' = [window EXCEPT ![h] = Finished(@, status)]

\* settle and release: only the first of them counts.
Finish(c, status) ==
    LET h == reservation[c].hour IN
    IF reservation[c].status # "reserved"
    THEN UNCHANGED <<window, reservation>>
    ELSE /\ reservation' = [reservation EXCEPT ![c].status = status]
         /\ window' = [window EXCEPT ![h] = Finished(@, status)]

-----------------------------------------------------------------------------
(* The call that uses it *)

Settle(c) ==
    /\ call[c].pc = "calling"
    /\ Finish(c, "settled")
    /\ Goto(c, "reporting")
    /\ UNCHANGED hour

\* The provider call failed, or the completion of a settled one did.
Release(c) ==
    /\ call[c].pc \in {"calling", "reporting"}
    /\ Finish(c, "released")
    /\ Goto(c, "over")
    /\ UNCHANGED hour

CompleteCall(c) ==
    /\ call[c].pc = "reporting"
    /\ Goto(c, "over")
    /\ UNCHANGED <<hour, window, reservation>>

\* The process dies, or is cancelled: except Exception does not see it.
CrashCall(c) ==
    /\ call[c].pc \in {"reserving", "calling", "reporting"}
    /\ Goto(c, "over")
    /\ UNCHANGED <<hour, window, reservation>>

Step(c) ==
    \/ ReadHour(c)
    \/ \E limit \in Limits : Reserve(c, limit) \/ Refuse(c, limit)
    \/ Settle(c) \/ Release(c) \/ CompleteCall(c) \/ CrashCall(c)

BudgetNext == NextHour \/ \E c \in Calls : Step(c)

BudgetSpec == BudgetInit /\ [][BudgetNext]_budgetVars

-----------------------------------------------------------------------------
(* Properties *)

In(rows, status, h) ==
    {c \in Calls : rows[c].status = status /\ rows[c].hour = h}

\* The counters of a window are the numbers of its reservations in each
\* status, although settlements arrive in later hours, are followed by
\* releases of the same reservation, or never come.
LedgerBalances ==
    \A h \in Hours :
        /\ window[h].reserved = Cardinality(In(reservation, "reserved", h))
        /\ window[h].settled = Cardinality(In(reservation, "settled", h))
        /\ window[h].released = Cardinality(In(reservation, "released", h))

\* No interleaving of concurrent calls spends more than the limit of a window.
NeverOverspent ==
    \A h \in Hours : window[h].settled + window[h].reserved <= window[h].limit
=============================================================================
