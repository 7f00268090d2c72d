-------------------------- MODULE IncidentSnapshots --------------------------
(***************************************************************************)
(* ActiveIncidentsService (application/incidents/active_incidents.py): the *)
(* worldwide incident list as one process serves it, without a durable     *)
(* projection.  Readers ask for a view, page through it by cursor, and     *)
(* share one acquisition per key; a cached acquisition is served at once   *)
(* and refreshed behind the reader's back; the rows of a hazard whose      *)
(* providers all failed are kept from the acquisition before.              *)
(*                                                                         *)
(* Acquisitions of one service start at different instants, so an instant  *)
(* stands for the snapshot version (a hash of the instant and the ids).    *)
(***************************************************************************)
EXTENDS Naturals, FiniteSets

CONSTANTS
  Incidents,    \* natural numbers: the order rows are listed in
  HazardOf,     \* incident -> hazard
  Queries,      \* records [view, country]; country Unset asks for all
  Shown,        \* query -> the incidents it matches when they are published
  KeyOf,        \* query -> acquisition key (_acquisition_key)
  Historical,   \* the queries of the historical view
  Readers,
  PageSize,
  MaxKeys,      \* acquisitions remembered (8)
  FreshFor,     \* age from which a cached acquisition is refreshed (5 minutes)
  CursorLife,   \* how long a snapshot can be paged (30 minutes)
  CacheLife,    \* how long an acquisition is cached (a day)
  LastTick, MaxRevision,   \* bounds: the clock, the revisions of an incident
  Unset

Hazards == {HazardOf[i] : i \in Incidents}
Keys == {KeyOf[q] : q \in Queries}

Instants == 0..LastTick
Row == [revision : 0..MaxRevision, changed : Instants]
Rows == [Incidents -> Row]
Acquisition == [query : Queries, now : Instants, previous : Rows]

ASSUME SnapshotsAssumption ==
  /\ Incidents \subseteq Nat /\ IsFiniteSet(Incidents)
  /\ PageSize \in Nat \ {0} /\ MaxKeys \in Nat \ {0}
  /\ FreshFor \in Nat /\ CursorLife \in Nat /\ CacheLife \in Nat
  /\ CursorLife <= CacheLife
  /\ \A q \in Queries : q = [view |-> q.view, country |-> q.country]
  /\ Historical \subseteq Queries
  /\ LastTick \in Nat /\ MaxRevision \in Nat
  /\ Unset \notin Instants \cup Acquisition \cup Queries

VARIABLES
  clock,
  published,      \* the revision the providers publish of an incident, 0: none
  acquisitions,   \* _acquisitions: a key's place, 1 for the last acquired, 0: forgotten
  version,        \* the instant of the snapshot each of them leads to
  cache,          \* instants of the snapshots kept, each with its full rows; basis, of
                  \* properties only, says that those to come are marked against it
  latest,         \* _latest_snapshot
  inflight,       \* _inflight: key -> Unset or the acquisition under way
  reader

snapshotVars == <<clock, published, acquisitions, version, cache, latest, inflight, reader>>

Absent == [revision |-> 0, changed |-> 0]
NoRows == [i \in Incidents |-> Absent]
Present(rows) == {i \in Incidents : rows[i] # Absent}

(* A request, with the walk over pages it belongs to: seen counts how often *)
(* an incident was shown, and starter is the query whose acquisition the   *)
(* walk began with, if the reader waited for one (properties only).        *)
Asked(at, q) == [at |-> at, query |-> q, offset |-> 0, snap |-> Unset, starter |-> Unset,
                 seen |-> [i \in Incidents |-> 0]]
NoRequest == Asked("idle", Unset)

SnapshotsInit ==
  /\ clock = 0
  /\ published = [i \in Incidents |-> 0]
  /\ acquisitions = [k \in Keys |-> 0] /\ version = [k \in Keys |-> Unset]
  /\ cache = {} /\ latest = NoRows
  /\ inflight = [k \in Keys |-> Unset]
  /\ reader = [r \in Readers |-> NoRequest]

(***************************************************************************)
(* Pages                                                                   *)
(***************************************************************************)
Filter(rows, q) == {i \in Present(rows) : i \in Shown[q]}

(* filtered[offset : offset + page_size]: an incident's index is the number *)
(* of those listed before it.                                              *)
Index(list, i) == Cardinality({j \in list : j < i})
Page(list, offset) == {i \in list : Index(list, i) \in offset..(offset + PageSize - 1)}

(* IncidentSnapshotCache: what has expired at an instant is not found, and *)
(* every look at the acquisitions' cache removes it.                       *)
Live(now) == {s \in cache : now < s.put + CacheLife}
Of(k, snapshots) == {s \in snapshots : s.at = version[k]}
Cached(k) == Of(k, Live(clock))
Pageable(at) == {s \in cache : s.at = at /\ clock < s.put + CursorLife}

(* _page_snapshot: the page at an offset of the rows given, which need not *)
(* be all rows of the snapshot the cursor names.                           *)
Paged(p, at, rows, offset) ==
  LET list == Filter(rows, p.query)
      more == offset + PageSize < Cardinality(list)
      page == Page(list, offset)
  IN  [at |-> IF more THEN "paging" ELSE "done", query |-> p.query,
       offset |-> IF more THEN offset + PageSize ELSE Cardinality(list), snap |-> at,
       starter |-> p.starter,
       seen |-> [i \in Incidents |-> IF i \in page THEN p.seen[i] + 1 ELSE p.seen[i]]]

Answered(q, at, rows, starter) ==
  Paged([Asked("waiting", q) EXCEPT !.starter = starter], at, rows, 0)

(***************************************************************************)
(* Acquiring                                                               *)
(***************************************************************************)

(* _start_refresh and the first steps of _acquire: the instant and the     *)
(* rows to compare with are taken before the providers are asked.          *)
Begun(q) == [query |-> q, now |-> clock, previous |-> latest]
Started(q) ==
  IF inflight[KeyOf[q]] # Unset THEN UNCHANGED <<inflight, clock>>
  ELSE /\ clock < LastTick
       /\ inflight' = [inflight EXCEPT ![KeyOf[q]] = Begun(q)]
       /\ clock' = clock + 1

(* The retained rows of the hazards that failed: those of the key's        *)
(* acquisition before, when it was still cached as this one began.         *)
KeptRows(k, failed) ==
  LET prior == Of(k, Live(inflight[k].now))
  IN  [i \in Incidents |->
        IF prior = {} \/ HazardOf[i] \notin failed THEN Absent
        ELSE (CHOOSE s \in prior : TRUE).rows[i]]

(* The rows of an acquisition, and mark_meaningful_changes: the instant of *)
(* the last change is carried over from a previous row with the same       *)
(* evidence.                                                               *)
Revision(i, failed, retained) ==
  IF HazardOf[i] \in failed THEN retained[i].revision ELSE published[i]

(* Faulty variant: a row that was there keeps its instant.                 *)
MarkedWhenNew(a, i, revision) ==
  IF revision = 0 THEN Absent
  ELSE [revision |-> revision,
        changed |-> IF a.previous[i] # Absent THEN a.previous[i].changed ELSE a.now]

Marked(a, i, revision) ==
  IF revision = 0 THEN Absent
  ELSE [revision |-> revision,
        changed |-> IF a.previous[i].revision = revision
                    THEN a.previous[i].changed ELSE a.now]

Acquired(k, failed) ==
  LET a == inflight[k]
      retained == KeptRows(k, failed)
  IN  [i \in Incidents |-> Marked(a, i, Revision(i, failed, retained))]

(* Faulty variant: the country asked for is acquired for everyone.         *)
BaseAsAsked(q) == q

(* The page of the acquisition handed to those who wait: the country and   *)
(* the search text of the query that started it are dropped, its view is   *)
(* not.                                                                    *)
Base(q) == [q EXCEPT !.country = Unset]
Handed(rows, q) ==
  [i \in Incidents |-> IF i \in Filter(rows, Base(q)) THEN rows[i] ELSE Absent]

(* The places of the keys: what was acquired after k moves back by one,    *)
(* the oldest of more than MaxKeys is forgotten, and k comes to the front. *)
PlacesAfter(k) ==
  LET after(j) == acquisitions[k] = 0 \/ acquisitions[j] < acquisitions[k]
  IN  [j \in Keys |->
        IF j = k THEN 1
        ELSE IF acquisitions[j] = 0 \/ ~after(j) THEN acquisitions[j]
        ELSE IF acquisitions[j] < MaxKeys THEN acquisitions[j] + 1
        ELSE 0]

(***************************************************************************)
(* Actions                                                                 *)
(***************************************************************************)

(* execute without a cursor.                                               *)
ServeCached(r, q) ==
  \E s \in Cached(KeyOf[q]) :
    /\ reader[r].at = "idle"
    /\ reader' = [reader EXCEPT ![r] = Answered(q, s.at, s.rows, Unset)]
    /\ IF clock - s.at >= FreshFor THEN Started(q) ELSE UNCHANGED <<inflight, clock>>
    /\ cache' = Live(clock)
    /\ UNCHANGED <<published, acquisitions, version, latest>>

AwaitRefresh(r, q) ==
  /\ reader[r].at = "idle" /\ Cached(KeyOf[q]) = {}
  /\ reader' = [reader EXCEPT ![r] = Asked("waiting", q)]
  /\ Started(q)
  /\ cache' = IF version[KeyOf[q]] = Unset THEN cache ELSE Live(clock)
  /\ UNCHANGED <<published, acquisitions, version, latest>>

(* execute with the cursor of the page before: from the snapshot it names, *)
(* or not at all.                                                          *)
NextPage(r) ==
  LET asked == reader[r]
  IN  /\ asked.at = "paging"
      /\ reader' = [reader EXCEPT ![r] =
            IF Pageable(asked.snap) = {} THEN NoRequest
            ELSE LET s == CHOOSE s \in Pageable(asked.snap) : TRUE
                 IN  Paged(asked, s.at, s.rows, asked.offset)]
      /\ UNCHANGED <<clock, published, acquisitions, version, cache, latest, inflight>>

(* A reader has what it wanted, or gives up; what it started goes on       *)
(* (asyncio.shield).                                                       *)
GiveUp(r) ==
  /\ reader[r].at # "idle"
  /\ reader' = [reader EXCEPT ![r] = NoRequest]
  /\ UNCHANGED <<clock, published, acquisitions, version, cache, latest, inflight>>

Waiting(k) == {r \in Readers : reader[r].at = "waiting" /\ KeyOf[reader[r].query] = k}

(* What ends now is what all current acquisitions to come are compared     *)
(* with: none is under way that was begun before.                          *)
IsBasis(k) ==
  \A j \in Keys : inflight[j] # Unset =>
    (j = k <=> inflight[j].query \notin Historical)

(* The providers have answered, or failed hazard by hazard: the snapshot   *)
(* is remembered, and everyone who waits is given its page.                *)
Finish(k, failed) ==
  LET a == inflight[k]
      rows == Acquired(k, failed)
      shown == Handed(rows, a.query)
  IN  /\ a # Unset
      /\ cache' = Live(clock) \cup {[at |-> a.now, put |-> clock, rows |-> rows,
                                    basis |-> IsBasis(k)]}
      /\ acquisitions' = PlacesAfter(k)
      /\ version' = [j \in Keys |-> IF j = k THEN a.now
                                    ELSE IF PlacesAfter(k)[j] = 0 THEN Unset
                                    ELSE version[j]]
      /\ latest' = IF a.query \in Historical THEN latest ELSE shown
      /\ inflight' = [inflight EXCEPT ![k] = Unset]
      /\ reader' = [r \in Readers |->
            IF r \in Waiting(k) THEN Answered(reader[r].query, a.now, shown, a.query)
            ELSE reader[r]]
      /\ UNCHANGED <<clock, published>>

(* The acquisition itself fails: those who wait are told so, and the next  *)
(* reader starts another.                                                  *)
AcquisitionFails(k) ==
  /\ inflight[k] # Unset
  /\ inflight' = [inflight EXCEPT ![k] = Unset]
  /\ reader' = [r \in Readers |-> IF r \in Waiting(k) THEN NoRequest ELSE reader[r]]
  /\ UNCHANGED <<clock, published, acquisitions, version, cache, latest>>

(* A provider publishes an incident, or more about it.                     *)
Publish(i) ==
  /\ published[i] < MaxRevision
  /\ published' = [published EXCEPT ![i] = @ + 1]
  /\ UNCHANGED <<clock, acquisitions, version, cache, latest, inflight, reader>>

Tick ==
  /\ clock < LastTick
  /\ clock' = clock + 1
  /\ UNCHANGED <<published, acquisitions, version, cache, latest, inflight, reader>>

SnapshotsNext ==
  \/ \E r \in Readers, q \in Queries : ServeCached(r, q) \/ AwaitRefresh(r, q)
  \/ \E r \in Readers : NextPage(r) \/ GiveUp(r)
  \/ \E k \in Keys : AcquisitionFails(k) \/ \E failed \in SUBSET Hazards : Finish(k, failed)
  \/ \E i \in Incidents : Publish(i)
  \/ Tick

SnapshotsSpec == SnapshotsInit /\ [][SnapshotsNext]_snapshotVars

(***************************************************************************)
(* Properties                                                              *)
(***************************************************************************)

CachedSnapshot == [at : Instants, put : Instants, rows : Rows, basis : BOOLEAN]
ViewRequest ==
  [at : {"idle", "waiting", "paging", "done"}, query : Queries \cup {Unset}, offset : Nat,
   snap : Instants \cup {Unset}, starter : Queries \cup {Unset}, seen : [Incidents -> Nat]]

(* Types; no two keys have one place, so that no more than MaxKeys are     *)
(* remembered, and those that are lead to a snapshot.                      *)
SnapshotsTypeOK ==
  /\ clock \in Instants /\ published \in [Incidents -> 0..MaxRevision]
  /\ latest \in Rows
  /\ acquisitions \in [Keys -> 0..MaxKeys]
  /\ \A j, k \in Keys : acquisitions[j] = acquisitions[k] => j = k \/ acquisitions[j] = 0
  /\ version \in [Keys -> Instants \cup {Unset}]
  /\ \A k \in Keys : version[k] # Unset <=> acquisitions[k] # 0
  /\ cache \subseteq CachedSnapshot /\ \A s \in cache : s.at < s.put
  /\ inflight \in [Keys -> Acquisition \cup {Unset}]
  /\ \A k \in Keys : inflight[k] # Unset => KeyOf[inflight[k].query] = k
  /\ reader \in [Readers -> ViewRequest]

(* What the starter's page lists, whatever country it asked for.           *)
ListsAllOf(starter, q) ==
  starter = Unset \/ Shown[q] \subseteq Shown[[view |-> starter.view, country |-> Unset]]

(* A reader who has followed the cursors to the end of a list has been     *)
(* shown no incident its query does not match in that snapshot, and every  *)
(* one it matches, each once (_page_snapshot, _page_cached_snapshot):      *)
(* unless it waited for an acquisition that another view had started, and  *)
(* that view does not list all that its own lists.  Its first page is then *)
(* one of that view, while its cursor counts in the whole snapshot.        *)
WalksAreComplete ==
  \A r \in Readers : \A s \in cache :
    (reader[r].at = "done" /\ reader[r].snap = s.at) =>
      \A i \in Incidents :
        IF i \notin Filter(s.rows, reader[r].query) THEN reader[r].seen[i] = 0
        ELSE ListsAllOf(reader[r].starter, reader[r].query) => reader[r].seen[i] = 1

(* While a key's acquisition is cached, no row of it goes from the list    *)
(* until its providers have answered without it: an outage of one hazard   *)
(* leaves its rows (_acquire, 296-305).  Providers of this model never     *)
(* withdraw an incident.                                                   *)
RowsStay(k) ==
  (Cached(k) # {} /\ version'[k] # Unset /\ version'[k] # version[k]) =>
    \A s \in Cached(k), t \in cache' :
      t.at = version'[k] => Present(s.rows) \subseteq Present(t.rows)

RowsOutliveFailures == [][\A k \in Keys : RowsStay(k)]_snapshotVars

(* A change is not missed.  When a current acquisition ends, and no other  *)
(* is under way, then whatever is begun later, with any key, for any view  *)
(* and although its providers may fail, dates an incident whose evidence   *)
(* is another after that acquisition (mark_meaningful_changes).            *)
DatedAfter(rows, s) ==
  \A i \in Incidents :
    rows[i] = Absent \/ rows[i].revision = s.rows[i].revision \/ rows[i].changed > s.at

NoChangeIsMissed ==
  \A s, t \in cache : (s.basis /\ s.put <= t.at) => DatedAfter(t.rows, s)

(* "Carry forward recency unless source-backed incident content changed"   *)
(* (meaningful_change.py:15): a row whose evidence is what the current     *)
(* acquisition before had keeps the instant of its last change.            *)
Follows(t, s) ==
  s.basis /\ s.put <= t.at /\ ~\E u \in cache \ {s} : s.put <= u.put /\ u.put <= t.at

RecencyKept(t, s) ==
  \A i \in Incidents :
    (t.rows[i] # Absent /\ t.rows[i].revision = s.rows[i].revision)
      => t.rows[i].changed = s.rows[i].changed

RecencyIsCarriedForward == \A s, t \in cache : Follows(t, s) => RecencyKept(t, s)
=============================================================================
