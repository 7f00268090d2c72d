------------------------- MODULE CollectionJournal -------------------------
(***************************************************************************)
(* The journal of article collection (sqlite_collection.py and the modules *)
(* it is made of): a table of work shared by all scans, searches of news    *)
(* indexes page by page and retrievals of articles, claimed under leases,   *)
(* paid from the allowance of a pass, and recorded in fenced transactions.  *)
(*                                                                         *)
(* A transaction is an action.  Its instant is read before it waits for the *)
(* lock, so it may be up to Lag ticks old.  The order in which a claim      *)
(* visits its candidates is left free here; module CollectionRotation has   *)
(* it.  A token is the name of the holder that drew it: a holder has one    *)
(* claim at a time, so a row's token names at most one claim still held.    *)
(***************************************************************************)
EXTENDS Integers, FiniteSets, Sequences

CONSTANTS
    Scans, Searches, Articles,  \* viewers, and the two kinds of work
    Holders,                    \* search and article workers, of any process
    Source,                     \* Source[s]: the index a search asks
    Url, Host,                  \* of an article; generations share a Url
    Plans,                      \* Plans[v]: the searches of a scan's plan, a set for
                                \* every six hours in which the scan may be planned
    Finds, Offspring,           \* leads and children a search may yield
    Followups,                  \* alternate searches an article may yield
    PageBudget, MetadataLimit,  \* requests in a pass: per index, over all
    MaxLeads, Bulk, Reserved,   \* records kept, archives, space not theirs
    AttemptLimit,               \* 4 in the code
    Lease, PassSeconds,         \* lifetimes of a claim and of a pass
    Delays,                     \* what a retry may wait
    MaxTime, Lag,               \* bounds: the horizon and the oldest reading
    MaxPasses, MaxPages, MaxDeferrals,
    NoHolder

Work == Searches \cup Articles
Indexes == {Source[s] : s \in Searches}
Hosts == {Host[a] : a \in Articles}
Retrieval == "article-retrieval"
Metadata == "all-metadata"
Accounts == Indexes \cup {Retrieval, Metadata}

ASSUME JournalAssumption ==
    /\ Source \in [Searches -> Indexes] /\ Host \in [Articles -> Hosts]
    /\ Plans \in [Scans -> SUBSET SUBSET Searches]
    /\ Finds \in [Searches -> SUBSET Articles]
    /\ Offspring \in [Searches -> SUBSET Searches]
    /\ Followups \in [Articles -> SUBSET Searches]
    /\ Searches \cap Articles = {} /\ Indexes \cap Hosts = {}
    /\ Retrieval \notin Indexes /\ Metadata \notin Indexes
    /\ PageBudget \in Nat \ {0} /\ MetadataLimit \in Nat \ {0}
    /\ MaxLeads \in Nat /\ Reserved \in 0 .. MaxLeads
    /\ AttemptLimit \in Nat \ {0} /\ Lease \in Nat \ {0}
    /\ PassSeconds \in Nat \ {0} /\ Delays \subseteq Nat \ {0}
    /\ MaxTime \in Nat /\ Lag \in Nat
    /\ MaxPasses \in Nat /\ MaxPages \in Nat \ {0} /\ MaxDeferrals \in Nat
    /\ NoHolder \notin Holders

VARIABLES
    clock,
    work,       \* table work
    cursor,     \* work.payload of a search: the page it is to fetch next
    links,      \* table work_links
    views,      \* table scan_work
    evidence,   \* table work_evidence
    scan,       \* tables scans and scan_capacity
    pass,       \* the latest row of table passes
    allowance,  \* table pass_budget, of that pass
    cooldown,   \* table cooldowns
    holder,     \* the claim each worker has in hand
    projection, \* the view that holds the projection lock: of which scan, with
                \* which status, and whether the scan was continued since
    \* What follows is read by properties only.
    pages,      \* pages[s]: the cursors of the pages retained, in order
    spent,      \* spent[k]: the requests of the pass, by account
    demanded,   \* demanded[h]: the latest instant a host or index asked us to wait for
    misled      \* the scans shown in a view older than their last continuation

tables == <<work, cursor, links, views, evidence>>
telling == <<projection, misled>>
course == <<scan, pass, allowance, cooldown, telling>>
history == <<pages, spent, demanded>>
vars == <<clock, tables, course, holder, history>>

Times == 0 .. MaxTime + 1
At(t) == IF t > MaxTime THEN MaxTime + 1 ELSE t
Later(s, t) == IF s > t THEN s ELSE t
Readings == {t \in 0 .. clock : clock - t <= Lag}

Open == {"pending", "leased", "capacity"}
Settled == {"done", "saturated", "failed", "refused"}
Row == [state : {"absent"} \cup Open \cup Settled, attempts : Nat, deferrals : Nat,
        token : Holders \cup {NoHolder}, until : Times, due : Times]
NoRow == [state |-> "absent", attempts |-> 0, deferrals |-> 0,
          token |-> NoHolder, until |-> 0, due |-> 0]

ScanRecord == [status : {"unknown", "running", "completed", "incomplete"},
               member : BOOLEAN, stopped : BOOLEAN, unprojected : BOOLEAN]
ViewRecord == [scan : Scans, status : {"running", "completed", "incomplete"},
               outdated : BOOLEAN]
PassRecord == [active : BOOLEAN, started : 0 .. MaxTime, opened : Nat]

Claims == [work : Work, attempts : Nat, deferrals : Nat, cursor : Nat]
Idle == [idle |-> TRUE]

TypeOK ==
    /\ clock \in 0 .. MaxTime
    /\ work \in [Work -> Row]
    /\ cursor \in [Searches -> Nat]
    /\ links \subseteq Work \X Work
    /\ views \subseteq Scans \X Work
    /\ evidence \subseteq Work \X Work
    /\ scan \in [Scans -> ScanRecord]
    /\ pass \in PassRecord
    /\ DOMAIN allowance \subseteq Accounts
    /\ \A k \in DOMAIN allowance : allowance[k] \in Nat
    /\ cooldown \in [Indexes \cup Hosts -> Times]
    /\ holder \in [Holders -> Claims \cup {Idle}]
    /\ pages \in [Searches -> Seq(Nat)]
    /\ spent \in [Accounts -> Nat]
    /\ demanded \in [Indexes \cup Hosts -> Times]
    /\ projection \in ViewRecord \cup {Idle} /\ misled \subseteq Scans

Init ==
    /\ clock = 0
    /\ work = [w \in Work |-> NoRow]
    /\ cursor = [s \in Searches |-> 0]
    /\ links = {} /\ views = {} /\ evidence = {}
    /\ scan = [v \in Scans |-> [status |-> "unknown", member |-> FALSE,
                                stopped |-> FALSE, unprojected |-> FALSE]]
    /\ pass = [active |-> FALSE, started |-> 0, opened |-> 0]
    /\ allowance = << >>
    /\ cooldown = [h \in Indexes \cup Hosts |-> 0]
    /\ holder = [h \in Holders |-> Idle]
    /\ pages = [s \in Searches |-> << >>]
    /\ spent = [k \in Accounts |-> 0]
    /\ demanded = [h \in Indexes \cup Hosts |-> 0]
    /\ projection = Idle /\ misled = {}

-----------------------------------------------------------------------------
(* The graph of work *)

\* The works reached from keys along links.
Reached(edges, keys) ==
    {w \in Work : \A S \in SUBSET Work :
        (keys \subseteq S /\ \A e \in edges : e[1] \in S => e[2] \in S) => w \in S}

\* enqueue_search_partition, enqueue_retrieval_lead: a known identity keeps its row.
Enqueue(rows, keys) ==
    [w \in Work |-> IF w \in keys /\ rows[w].state = "absent"
                    THEN [NoRow EXCEPT !.state = "pending"] ELSE rows[w]]

\* Faulty variant: what was found below the children is not seen.
SeenWithChildrenOnly(edges, parent, kids) ==
    views \cup ({v \in Scans : <<v, parent>> \in views} \X kids)

\* The viewers of parent see its new children and all that was found below them.
SeenWith(edges, parent, kids) ==
    views \cup ({v \in Scans : <<v, parent>> \in views} \X Reached(edges, kids))

AttachDescendants(v, keys) == views \cup ({v} \X Reached(links, keys))

-----------------------------------------------------------------------------
(* Passes and scans *)

Active(v) == pass.active /\ scan[v].member
ActiveScans == {v \in Scans : Active(v) \/ scan[v].unprojected}

\* _pass: the scan joins the active pass, or a new one that all others are not in.
Joined(v, now) ==
    IF pass.active
    THEN /\ scan' = [scan EXCEPT ![v] = [status |-> "running", member |-> TRUE,
                         stopped |-> FALSE, unprojected |-> @.unprojected]]
         /\ UNCHANGED <<pass, allowance, spent>>
    ELSE /\ pass.opened < MaxPasses
         /\ pass' = [active |-> TRUE, started |-> now, opened |-> pass.opened + 1]
         /\ scan' = [u \in Scans |->
                IF u = v THEN [status |-> "running", member |-> TRUE,
                               stopped |-> FALSE, unprojected |-> scan[u].unprojected]
                ELSE [scan[u] EXCEPT !.member = FALSE]]
         /\ allowance' = << >>
         /\ spent' = [k \in Accounts |-> 0]

Attach(v) == \E now \in Readings, plan \in Plans[v] :
    /\ scan[v].status = "unknown"
    /\ Joined(v, now)
    /\ work' = Enqueue(work, plan)
    /\ views' = AttachDescendants(v, plan)
    /\ UNCHANGED <<clock, cursor, links, evidence, cooldown, holder, telling, pages, demanded>>

\* An explicit continuation takes up what stopped at a capacity.
Resumed(v) ==
    [w \in Work |-> IF <<v, w>> \in views /\ work[w].state = "capacity"
                    THEN [work[w] EXCEPT !.state = "pending", !.attempts = 0]
                    ELSE work[w]]

\* A view of v that is being made is from now on a view of the past.
Retold(v) ==
    /\ projection' = IF projection # Idle /\ projection.scan = v
                     THEN [projection EXCEPT !.outdated = TRUE] ELSE projection
    /\ misled' = misled \ {v}

\* The plan is that of the hours in which the scan is continued: its searches may
\* all be new, or those it has.
Continue(v) == \E now \in Readings, plan \in Plans[v] :
    /\ scan[v].status # "unknown"
    /\ Joined(v, now)
    /\ work' = Enqueue(Resumed(v), plan)
    /\ views' = AttachDescendants(v, plan)
    /\ Retold(v)
    /\ UNCHANGED <<clock, cursor, links, evidence, cooldown, holder, pages, demanded>>

FinishPass ==
    /\ pass.active
    /\ scan' = [v \in Scans |-> [scan[v] EXCEPT !.unprojected = @ \/ Active(v)]]
    /\ pass' = [pass EXCEPT !.active = FALSE]
    /\ UNCHANGED <<clock, tables, allowance, cooldown, holder, telling, history>>

\* The storage is full: every lease is taken back and no pass goes on.  The pump
\* also names the scans whose last view it could not save.
SuspendAtCapacity == \E named \in {{}, ActiveScans} :
    /\ pass.active \/ named # {}
    /\ scan' = [v \in Scans |->
            IF Active(v) \/ v \in named \/ scan[v].stopped
            THEN [scan[v] EXCEPT !.stopped = TRUE, !.unprojected = FALSE]
            ELSE scan[v]]
    /\ work' = [w \in Work |-> IF work[w].state = "leased"
            THEN [work[w] EXCEPT !.state = "capacity", !.token = NoHolder, !.until = 0]
            ELSE work[w]]
    /\ pass' = [pass EXCEPT !.active = FALSE]
    /\ UNCHANGED <<clock, cursor, links, views, evidence, allowance, cooldown,
                   holder, telling, history>>

Remaining(v) == {w \in Work : <<v, w>> \in views /\ work[w].state \in Open}
FailedSearches(v) == {s \in Searches : <<v, s>> \in views
                                       /\ work[s].state \in {"failed", "refused", "saturated"}}

\* _snapshot's state, as _project translates it.
StatusOf(v) ==
    IF Active(v) THEN "running"
    ELSE IF Remaining(v) # {} \/ FailedSearches(v) # {} \/ scan[v].stopped
    THEN "incomplete" ELSE "completed"

\* A view is made of a snapshot, under the lock of all projections, while scans go
\* on, end and are continued.  The list a scan was taken from may be an old one.
Snapshot(v) ==
    /\ projection = Idle
    /\ scan[v].status # "unknown"
    /\ projection' = [scan |-> v, status |-> StatusOf(v), outdated |-> FALSE]
    /\ UNCHANGED <<clock, tables, scan, pass, allowance, cooldown, holder, misled, history>>

\* Faulty variant: any view that is saved was the last that was owed.
StillOwedNever(v, status) == FALSE

\* The save of a view that is not the last leaves the last one owed.
StillOwed(v, status) == scan[v].unprojected /\ status = "running"

\* The view is saved, whatever has become of the scan.
SaveView ==
    /\ projection # Idle
    /\ LET v == projection.scan
           status == projection.status IN
       /\ scan' = [scan EXCEPT ![v].status = status,
                               ![v].unprojected = StillOwed(v, status)]
       /\ misled' = IF projection.outdated THEN misled \cup {v} ELSE misled \ {v}
    /\ projection' = Idle
    /\ UNCHANGED <<clock, tables, pass, allowance, cooldown, holder, history>>

\* The projector is cancelled or fails before the save, the storage refuses the
\* view, or the process dies.
DropView ==
    /\ projection # Idle
    /\ projection' = Idle
    /\ UNCHANGED <<clock, tables, scan, pass, allowance, cooldown, holder, misled, history>>

-----------------------------------------------------------------------------
(* Claims *)

Scope(w) == IF w \in Searches THEN Source[w] ELSE Host[w]
Account(w) == IF w \in Searches THEN Source[w] ELSE Retrieval

\* The requests a pass may make: of articles four times those of one index.
Limit(k) == IF k = Metadata THEN MetadataLimit
            ELSE IF k = Retrieval THEN 4 * PageBudget ELSE PageBudget
Left(k) == IF k \in DOMAIN allowance THEN allowance[k] ELSE Limit(k)

Tries(c) == c.attempts - c.deferrals

\* Faulty variant: a cooldown keeps nobody away.
ReadyAtAnyTime(w, now) ==
    /\ work[w].due <= now
    /\ w \in Articles => \A a \in Articles :
        (Host[a] = Host[w] /\ work[a].state = "leased") => work[a].until <= now

\* ready_at: due, no cooldown of its scope, no article of its publisher in hand.
Ready(w, now) ==
    /\ work[w].due <= now
    /\ cooldown[Scope(w)] <= now
    /\ w \in Articles => \A a \in Articles :
        (Host[a] = Host[w] /\ work[a].state = "leased") => work[a].until <= now

\* The rows a claim visits; kind is the articles, or the searches of one index.
Candidates(kind, now) ==
    {w \in kind :
        /\ pass.active /\ pass.started > now - PassSeconds
        /\ \E v \in Scans : scan[v].member /\ <<v, w>> \in views
        /\ \/ work[w].state = "pending"
           \/ work[w].state = "leased" /\ work[w].until <= now
        /\ work[w].due <= now
        /\ w \in Searches => Left(Metadata) > 0}
Kinds == {Articles} \cup {{s \in Searches : Source[s] = i} : i \in Indexes}

\* Faulty variant: the account is not looked at.
ClaimableUnpaid(w, now) == Ready(w, now) /\ Tries(work[w]) < AttemptLimit

Exhausted(w, now) == Ready(w, now) /\ Tries(work[w]) >= AttemptLimit
Claimable(w, now) == /\ Ready(w, now) /\ Tries(work[w]) < AttemptLimit
                     /\ Left(Account(w)) > 0

\* can_reuse_observation compares metadata; here any capture of the same Url may do.
Retrieved(a) == work[a].state = "done" /\ <<a, a>> \in evidence
Reuses(rows) ==
    LET waiting == {a \in rows \cap Articles : work[a].state = "pending"}
    IN {f \in UNION {[D -> Articles] : D \in SUBSET waiting} :
            \A a \in DOMAIN f : Retrieved(f[a]) /\ Url[f[a]] = Url[a]}

\* Faulty variant: a reused capture does not bring the searches it led to.
ReusedAlone(f) ==
    /\ evidence' = evidence \cup {<<a, f[a]>> : a \in DOMAIN f}
    /\ UNCHANGED <<links, views>>

\* On its way a claim completes the articles it can complete from a capture, and
\* gives up the works that have been tried too often.
Swept(f, dropped) ==
    [w \in Work |->
        IF w \in DOMAIN f THEN [work[w] EXCEPT !.state = "done", !.token = NoHolder, !.until = 0]
        ELSE IF w \in dropped THEN [work[w] EXCEPT !.state = "failed"] ELSE work[w]]
Adopted(f) == {e \in (DOMAIN f) \X Work : <<f[e[1]], e[2]>> \in links}
SweptViews(f) ==
    views \cup {seen \in {v \in Scans : \E a \in DOMAIN f : <<v, a>> \in views} \X Work :
                    \E a \in DOMAIN f :
                        /\ <<seen[1], a>> \in views
                        /\ seen[2] \in Reached(links \cup Adopted(f),
                                               {c \in Work : <<f[a], c>> \in links})}
Reused(f) ==
    /\ links' = links \cup Adopted(f)
    /\ views' = SweptViews(f)
    /\ evidence' = evidence \cup {<<a, f[a]>> : a \in DOMAIN f}

\* Faulty variant: the limit over all indexes is not charged.
PaidByIndexOnly(w) ==
    LET paidFrom == {Account(w)} \cup (IF w \in Searches THEN {Metadata} ELSE {})
    IN /\ allowance' = [k \in DOMAIN allowance \cup {Account(w)} |->
                            IF k = Account(w) THEN Left(k) - 1 ELSE allowance[k]]
       /\ spent' = [k \in Accounts |-> IF k \in paidFrom THEN spent[k] + 1 ELSE spent[k]]

Paid(w) ==
    LET paidFrom == {Account(w)} \cup (IF w \in Searches THEN {Metadata} ELSE {})
    IN /\ allowance' = [k \in DOMAIN allowance \cup paidFrom |->
                            IF k \in paidFrom THEN Left(k) - 1 ELSE allowance[k]]
       /\ spent' = [k \in Accounts |-> IF k \in paidFrom THEN spent[k] + 1 ELSE spent[k]]

Worn(kind, now) == {w \in Candidates(kind, now) : Exhausted(w, now)}

Takes(h, w, f, dropped, now) ==
    /\ holder[h] = Idle
    /\ Claimable(w, now)
    /\ work' = [Swept(f, dropped) EXCEPT ![w] =
                    [@ EXCEPT !.state = "leased", !.token = h,
                              !.until = At(now + Lease), !.attempts = work[w].attempts + 1]]
    /\ holder' = [holder EXCEPT ![h] =
            [work |-> w, attempts |-> work[w].attempts + 1,
             deferrals |-> work[w].deferrals,
             cursor |-> IF w \in Searches THEN cursor[w] ELSE 0]]
    /\ Reused(f)
    /\ Paid(w)
    /\ UNCHANGED <<clock, cursor, scan, pass, cooldown, telling, pages, demanded>>

\* How many of the worn works come before the one that is taken is left free.
Claim(h) == \E now \in Readings, kind \in Kinds :
    \E f \in Reuses(Candidates(kind, now)) :
    \E dropped \in SUBSET (Worn(kind, now) \ DOMAIN f),
       w \in Candidates(kind, now) \ (Worn(kind, now) \cup DOMAIN f) :
        Takes(h, w, f, dropped, now)

ClaimNothing == \E now \in Readings, kind \in Kinds :
    \E f \in Reuses(Candidates(kind, now)) :
        /\ \A w \in Candidates(kind, now) \ DOMAIN f : ~Claimable(w, now)
        /\ work' = Swept(f, Worn(kind, now) \ DOMAIN f)
        /\ Reused(f)
        /\ UNCHANGED <<clock, cursor, course, holder, history>>

-----------------------------------------------------------------------------
(* Reports *)

Owns(h, now) ==
    /\ holder[h] # Idle
    /\ LET row == work[holder[h].work]
       IN row.state = "leased" /\ row.token = h /\ row.until > now

Urls(kept) == {Url[a] : a \in kept}
LeadsOf(indexes) == {Url[e[2]] : e \in {x \in links : x[1] \in Searches /\ x[2] \in Articles
                                                      /\ Source[x[1]] \in indexes}}
Captures == {e[2] : e \in evidence}

\* page_refusal: records are few, and archives may not take what is kept for others.
PageRefused(s, found, captured) ==
    \/ Cardinality(LeadsOf(Indexes) \cup Urls(found)) > MaxLeads
    \/ Cardinality(Captures) + captured > MaxLeads
    \/ /\ Source[s] \in Bulk
       /\ LET targeted == LeadsOf(Indexes \ Bulk)
              before == Cardinality(LeadsOf(Bulk) \ targeted)
              after == Cardinality((LeadsOf(Bulk) \cup Urls(found)) \ targeted)
          IN Reserved > 0 /\ after > MaxLeads - Reserved /\ after > before

\* _record_failure: the row of a claim that failed, to be tried again at retry or,
\* if that is 0, not at all.
FailedRow(c, outcome, retry) ==
    LET again == retry > 0 /\ (outcome = "policy_deferred" \/ Tries(c) < AttemptLimit)
    IN [work[c.work] EXCEPT
            !.state = CASE outcome = "capacity_exhausted" -> "capacity"
                        [] again -> "pending"
                        [] outcome = "access_refused" /\ ~again -> "refused"
                        [] OTHER -> "failed",
            !.due = retry, !.token = NoHolder, !.until = 0,
            !.deferrals = IF outcome = "policy_deferred" THEN @ + 1 ELSE @]

\* A refused page closes the account of its index for the pass.
Closed(w) ==
    IF /\ w \in Searches /\ Source[w] \in DOMAIN allowance
       /\ \E v \in Scans : Active(v) /\ <<v, w>> \in views
    THEN [allowance EXCEPT ![Source[w]] = 0] ELSE allowance

CapacityReached(h) ==
    /\ work' = [work EXCEPT ![holder[h].work] = FailedRow(holder[h], "capacity_exhausted", 0)]
    /\ allowance' = Closed(holder[h].work)
    /\ holder' = [holder EXCEPT ![h] = Idle]
    /\ UNCHANGED <<clock, cursor, links, views, evidence, scan, pass, cooldown, telling, history>>

\* Leads of one page have different urls: they are of one generation.
LeadSets(s) == {L \in SUBSET Finds[s] : Cardinality(Urls(L)) = Cardinality(L)}

\* What is found through a work becomes its children, and is seen by its viewers.
Linked(w, keys) ==
    LET edges == links \cup ({w} \X keys) IN
    /\ links' = edges
    /\ views' = SeenWith(edges, w, keys)

\* The page is kept: its search goes on with the next one, or is over.
KeepPage(h, s, keys, captured, more, saturated) ==
    /\ Linked(s, keys)
    /\ evidence' = IF captured = 1 THEN evidence \cup {<<s, s>>} ELSE evidence
    /\ cursor' = [cursor EXCEPT ![s] = IF more THEN holder[h].cursor + 1 ELSE 0]
    /\ pages' = [pages EXCEPT ![s] = Append(@, holder[h].cursor)]
    /\ work' = [Enqueue(work, keys) EXCEPT ![s] =
           [@ EXCEPT !.state = IF more THEN "pending"
                               ELSE IF saturated THEN "saturated" ELSE "done",
                     !.token = NoHolder, !.until = 0, !.attempts = 0]]
    /\ holder' = [holder EXCEPT ![h] = Idle]
    /\ UNCHANGED <<clock, course, spent, demanded>>

CommitPage(h) == \E now \in Readings :
    /\ Owns(h, now) /\ holder[h].work \in Searches
    /\ LET s == holder[h].work IN
       \E found \in LeadSets(s), kids \in SUBSET Offspring[s],
          captured \in 0 .. 1, more \in BOOLEAN, saturated \in BOOLEAN :
        /\ more => holder[h].cursor + 1 < MaxPages
        /\ \/ PageRefused(s, found, captured) /\ CapacityReached(h)
           \/ /\ ~PageRefused(s, found, captured)
              /\ KeepPage(h, s, found \cup kids, captured, more, saturated)

\* The article is kept, with the alternate searches that were planned for it.
KeepArticle(h, a, alternates) ==
    /\ evidence' = evidence \cup {<<a, a>>}
    /\ Linked(a, alternates)
    /\ work' = [Enqueue(work, alternates) EXCEPT ![a] =
            [@ EXCEPT !.state = "done", !.token = NoHolder, !.until = 0]]
    /\ holder' = [holder EXCEPT ![h] = Idle]
    /\ UNCHANGED <<clock, cursor, course, history>>

CommitArticle(h) == \E now \in Readings :
    /\ Owns(h, now) /\ holder[h].work \in Articles
    /\ LET a == holder[h].work IN
       \/ Cardinality(Captures) >= MaxLeads /\ CapacityReached(h)
       \/ /\ Cardinality(Captures) < MaxLeads
          /\ \E alternates \in SUBSET Followups[a] : KeepArticle(h, a, alternates)

\* What _record_error and the article worker report of a request that failed.
Failures(c) ==
    IF c.work \in Searches
    THEN {"rate_limited", "transport_failed", "access_refused", "invalid_response"}
    ELSE {"rate_limited", "article_unavailable"}
         \cup (IF work[c.work].deferrals < MaxDeferrals THEN {"policy_deferred"} ELSE {})
Retried == {"rate_limited", "transport_failed", "policy_deferred"}

Alternatives(c, outcome) ==
    IF \/ c.work \in Searches \/ outcome = "policy_deferred"
       \/ outcome = "rate_limited" /\ Tries(c) # 1
    THEN {} ELSE Followups[c.work]

\* A retry also silences the whole index, or the whole publisher, until then.
Failed(h, c, outcome, retry, alternates) ==
    /\ work' = Enqueue([work EXCEPT ![c.work] = FailedRow(c, outcome, retry)], alternates)
    /\ Linked(c.work, alternates)
    /\ cooldown' = [cooldown EXCEPT ![Scope(c.work)] = Later(@, retry)]
    /\ demanded' = [demanded EXCEPT ![Scope(c.work)] = Later(@, retry)]
    /\ holder' = [holder EXCEPT ![h] = Idle]
    /\ UNCHANGED <<clock, cursor, evidence, scan, pass, allowance, telling, pages, spent>>

Fail(h) == \E now \in Readings :
    /\ Owns(h, now)
    /\ LET c == holder[h] IN
       \E outcome \in Failures(c), delay \in Delays :
       \E alternates \in SUBSET Alternatives(c, outcome) :
           Failed(h, c, outcome, IF outcome \in Retried THEN At(now + delay) ELSE 0, alternates)

\* The report is refused, or the worker is cancelled or dies before it.
Lose(h) ==
    /\ holder[h] # Idle
    /\ holder' = [holder EXCEPT ![h] = Idle]
    /\ UNCHANGED <<clock, tables, course, history>>

Tick ==
    /\ clock < MaxTime
    /\ clock' = clock + 1
    /\ UNCHANGED <<tables, course, holder, history>>

Next ==
    \/ \E v \in Scans : Attach(v) \/ Continue(v) \/ Snapshot(v)
    \/ SaveView
    \/ DropView
    \/ FinishPass
    \/ SuspendAtCapacity
    \/ \E h \in Holders : Claim(h) \/ CommitPage(h) \/ CommitArticle(h) \/ Fail(h) \/ Lose(h)
    \/ ClaimNothing
    \/ Tick

Spec == Init /\ [][Next]_vars

-----------------------------------------------------------------------------
(* Properties *)

\* Whoever views a work views everything that was found through it, whether the
\* viewer came first, the page came first, or a capture was reused.
ViewersSeeDescendants ==
    \A e \in links, v \in Scans : <<v, e[1]>> \in views => <<v, e[2]>> \in views

\* The pages kept of a search are those of its cursors in order: none is
\* acquired twice and none is skipped, although claims expire while their page is
\* being fetched and are taken by others.
PagesFollowCursors ==
    \A s \in Searches : \A i \in 1 .. Len(pages[s]) : pages[s][i] = i - 1

\* In a pass no index is asked more often than its budget, all indexes together
\* not more often than the limit on metadata, and publishers not more often than
\* four times the budget, over all viewers, retries and expired claims.
WithinAllowance == \A k \in Accounts : spent[k] + Left(k) <= Limit(k)

\* A publisher has at most one request at a time from all workers.
OneRequestPerPublisher ==
    \A a, b \in Articles :
        (/\ Host[a] = Host[b]
         /\ work[a].state = "leased" /\ work[a].until > clock
         /\ work[b].state = "leased" /\ work[b].until > clock) => a = b

\* A scan stopped at a capacity takes no part in a pass until it is continued,
\* and owes no view.
StoppedScansRest ==
    \A v \in Scans : scan[v].stopped => ~Active(v) /\ ~scan[v].unprojected

\* A scan that readers see as running is in a pass, or the view that says how it
\* ended is still owed: none runs for ever because of a crash at its end.
NoViewIsForgotten ==
    \A v \in Scans : (scan[v].status = "running" /\ ~scan[v].stopped) =>
        Active(v) \/ scan[v].unprojected

\* A scan shown as completed has no work left and no failed search, although
\* others go on finding work through the searches it shares with them, and go on
\* while its view is made: but if it was continued meanwhile, the view that was
\* being made may be saved over what the continuation said.
CompletedIsComplete ==
    \A v \in Scans \ misled : (scan[v].status = "completed" /\ ~scan[v].stopped) =>
        Remaining(v) = {} /\ FailedSearches(v) = {}

\* An article that counts as done has a capture, its own or the reused one of an
\* article that was really requested, and with it all the searches it led to.
DoneHasCapture ==
    \A a \in Articles : work[a].state = "done" =>
        \E b \in Articles :
            /\ <<a, b>> \in evidence /\ Url[b] = Url[a] /\ <<b, b>> \in evidence
            /\ \A c \in Work : <<b, c>> \in links => <<a, c>> \in links

\* What is settled is never asked for again: no rediscovery, continuation, late
\* report or suspension changes it.
SettledStays ==
    \A w \in Work : work[w].state \in Settled => work'[w].state = work[w].state

\* No request starts before the latest instant its index or publisher asked for.
StartsInTime ==
    \A w \in Work : work'[w].attempts > work[w].attempts => demanded[Scope(w)] <= clock

\* No account is overdrawn, a publisher has one request at a time, and the pages
\* kept are those of the cursors in order.
RequestsAreInOrder == WithinAllowance /\ OneRequestPerPublisher /\ PagesFollowCursors

\* A scan at rest is a scan whose readers were told, or are owed to be told, how it
\* ended, and truly so unless it was continued while the view was made.
ReadersAreTold == NoViewIsForgotten /\ StoppedScansRest /\ CompletedIsComplete

\* What is settled stays settled, and no request starts before it may.
RequestsAreInTime == [][SettledStays /\ StartsInTime]_vars
=============================================================================
