---------------------- MODULE CollectionJournalProofs ----------------------
(***************************************************************************)
(* What scans, claimants, readers and archives share of the journal of     *)
(* article collection stays in agreement, for any number of them.          *)
(***************************************************************************)
EXTENDS CollectionJournal, TLAPS

-----------------------------------------------------------------------------
(* The inductive invariant *)

\* What is viewed, or was found, is a row.
RowsAreKnown ==
    /\ \A v \in Scans, w \in Work : <<v, w>> \in views => work[w].state # "absent"
    /\ \A e \in links : work[e[2]].state # "absent"

\* Only an article that is done has a capture of its own: it finds nothing more.
CapturedIsDone == \A b \in Articles : <<b, b>> \in evidence => work[b].state = "done"

\* A search that is not settled is to fetch the page after those it has kept.
CursorFits(s) == work[s].state \notin Settled => cursor[s] = Len(pages[s])

\* A claim that still owns its search is for the page the search is to fetch.
ClaimFits(h) ==
    (/\ holder[h] # Idle /\ holder[h].work \in Searches
     /\ work[holder[h].work].state = "leased" /\ work[holder[h].work].token = h)
        => holder[h].cursor = cursor[holder[h].work]

\* The cooldowns are those asked for.
CooldownsHold == \A h \in Indexes \cup Hosts : demanded[h] <= cooldown[h]

\* A view that is being made is of a scan that is known.  If it says that the scan
\* runs, it runs, or another view is owed; if it says that it is completed, nothing
\* is left to do unless the scan was continued since.
ViewInHandFits ==
    projection # Idle =>
        LET v == projection.scan IN
        /\ scan[v].status # "unknown"
        /\ projection.status = "running" => Active(v) \/ scan[v].unprojected \/ scan[v].stopped
        /\ projection.status = "completed" /\ ~projection.outdated =>
                Remaining(v) = {} /\ FailedSearches(v) = {}

ReadersInv == ReadersAreTold /\ ViewInHandFits
GraphInv == ViewersSeeDescendants /\ RowsAreKnown
CaptureInv == DoneHasCapture /\ CapturedIsDone
PagesInv == PagesFollowCursors /\ (\A s \in Searches : CursorFits(s)) /\ \A h \in Holders : ClaimFits(h)

JournalInv ==
    /\ TypeOK
    /\ GraphInv
    /\ CaptureInv
    /\ WithinAllowance
    /\ OneRequestPerPublisher
    /\ PagesInv
    /\ ReadersInv
    /\ CooldownsHold

-----------------------------------------------------------------------------
(* Instants, rows and the graph of work *)

\* A transaction judges by an instant that has been.
LEMMA ReadingsArePast ==
    ASSUME TypeOK, NEW now \in Readings
    PROVE  /\ now \in 0 .. MaxTime /\ now <= clock
           /\ clock \in 0 .. MaxTime /\ MaxTime \in Nat
  BY JournalAssumption DEF TypeOK, Readings

LEMMA TimesAreKept ==
    /\ \A t \in Nat : At(t) \in Times
    /\ \A s, t \in Times : Later(s, t) \in Times /\ Later(s, t) >= s /\ Later(s, t) >= t
    /\ 0 \in Times
  BY JournalAssumption DEF At, Later, Times

LEMMA IdleIsNoClaim == Idle \notin Claims
  BY DEF Idle, Claims

\* A row that is new.
LEMMA BlankRows ==
    /\ NoRow \in Row /\ NoRow.state = "absent"
    /\ [NoRow EXCEPT !.state = "pending"] \in Row
    /\ [NoRow EXCEPT !.state = "pending"].state = "pending"
    /\ [NoRow EXCEPT !.state = "pending"].attempts = 0
  BY TimesAreKept DEF NoRow, Row, Open, Settled

\* What is found is a row afterwards; what was a row is not touched.
LEMMA EnqueueAddsRows ==
    ASSUME NEW rows \in [Work -> Row], NEW keys \in SUBSET Work
    PROVE  /\ Enqueue(rows, keys) \in [Work -> Row]
           /\ \A w \in Work :
                /\ rows[w].state # "absent" => Enqueue(rows, keys)[w] = rows[w]
                /\ w \notin keys => Enqueue(rows, keys)[w] = rows[w]
                /\ w \in keys => Enqueue(rows, keys)[w].state # "absent"
                /\ rows[w].state = "absent" =>
                      \/ Enqueue(rows, keys)[w] = rows[w]
                      \/ /\ Enqueue(rows, keys)[w].state = "pending"
                         /\ Enqueue(rows, keys)[w].attempts = 0
  <1> DEFINE blank == [NoRow EXCEPT !.state = "pending"]
  <1>1. Enqueue(rows, keys) = [w \in Work |-> IF w \in keys /\ rows[w].state = "absent"
                                              THEN blank ELSE rows[w]]
    BY DEF Enqueue
  <1>2. blank \in Row /\ blank.state = "pending" /\ blank.attempts = 0
    BY BlankRows
  <1> HIDE DEF blank
  <1>3. QED
    BY <1>1, <1>2

\* What is reached is the least set that has the keys and is closed under links.
LEMMA ReachedIsClosed ==
    ASSUME NEW edges \in SUBSET (Work \X Work), NEW keys \in SUBSET Work
    PROVE  /\ Reached(edges, keys) \in SUBSET Work /\ keys \subseteq Reached(edges, keys)
           /\ \A e \in edges : e[1] \in Reached(edges, keys) => e[2] \in Reached(edges, keys)
           /\ \A S \in SUBSET Work :
                (keys \subseteq S /\ \A e \in edges : e[1] \in S => e[2] \in S)
                    => Reached(edges, keys) \subseteq S
  BY DEF Reached

\* A link is a pair of works.
LEMMA LinksArePairs ==
    ASSUME NEW A, NEW B, NEW e \in A \X B
    PROVE  e[1] \in A /\ e[2] \in B /\ e = <<e[1], e[2]>>
  OBVIOUS

\* Reached from what is known, works are known.
LEMMA ReachedIsKnown ==
    ASSUME NEW edges \in SUBSET (Work \X Work), NEW keys \in SUBSET Work,
           NEW known \in SUBSET Work,
           keys \subseteq known, \A e \in edges : e[2] \in known
    PROVE  Reached(edges, keys) \subseteq known
  BY ReachedIsClosed

-----------------------------------------------------------------------------
(* The graph and its viewers *)

LEMMA GraphStays ==
    ASSUME GraphInv, UNCHANGED <<links, views>>,
           \A w \in Work : work[w].state # "absent" => work'[w].state # "absent",
           TypeOK
    PROVE  GraphInv'
  BY LinksArePairs DEF GraphInv, ViewersSeeDescendants, RowsAreKnown, TypeOK

\* Whoever joins sees all that was found below what is planned.
LEMMA GraphIsJoined ==
    ASSUME TypeOK, GraphInv, NEW v \in Scans, NEW keys \in SUBSET Work,
           UNCHANGED links, views' = AttachDescendants(v, keys),
           \A w \in Work : work[w].state # "absent" => work'[w].state # "absent",
           \A w \in keys : work'[w].state # "absent"
    PROVE  /\ GraphInv' /\ views' \subseteq Scans \X Work
           /\ \A u \in Scans, w \in Work : <<u, w>> \in views' => <<u, w>> \in views \/ u = v
  <1> DEFINE below == Reached(links, keys)
             known == {w \in Work : work'[w].state # "absent"}
  <1>1. /\ links \in SUBSET (Work \X Work) /\ views \subseteq Scans \X Work
    BY DEF TypeOK
  <1>2. /\ below \in SUBSET Work
        /\ \A e \in links : e[1] \in below => e[2] \in below
    BY <1>1, ReachedIsClosed
  <1>3. \A e \in links : e[1] \in Work /\ e[2] \in Work /\ e = <<e[1], e[2]>>
    BY <1>1, LinksArePairs
  <1>4. \A e \in links : e[2] \in known
    BY <1>3 DEF GraphInv, RowsAreKnown
  <1>5. below \subseteq known
    BY <1>1, <1>4, ReachedIsKnown
  <1>6. views' = views \cup ({v} \X below)
    BY DEF AttachDescendants
  <1> HIDE DEF below
  <1>7. \A u \in Scans, w \in Work : <<u, w>> \in views'
            <=> <<u, w>> \in views \/ (u = v /\ w \in below)
    BY <1>6
  <1>8. ViewersSeeDescendants'
    BY <1>2, <1>3, <1>7 DEF GraphInv, ViewersSeeDescendants
  <1>9. RowsAreKnown'
    BY <1>3, <1>4, <1>5, <1>7 DEF GraphInv, RowsAreKnown
  <1>10. QED
    BY <1>1, <1>2, <1>6, <1>7, <1>8, <1>9 DEF GraphInv

\* Whoever sees a work sees what is found through it, and all that was found below.
LEMMA GraphGrows ==
    ASSUME TypeOK, GraphInv, NEW parent \in Work, NEW kids \in SUBSET Work,
           links' = links \cup ({parent} \X kids), views' = SeenWith(links', parent, kids),
           \A w \in Work : work[w].state # "absent" => work'[w].state # "absent",
           \A w \in kids : work'[w].state # "absent"
    PROVE  /\ GraphInv' /\ links' \subseteq Work \X Work /\ views' \subseteq Scans \X Work
           /\ \A u \in Scans, w \in Work :
                <<u, w>> \in views' => <<u, w>> \in views \/ <<u, parent>> \in views
  <1> DEFINE below == Reached(links', kids)
             known == {w \in Work : work'[w].state # "absent"}
             viewers == {v \in Scans : <<v, parent>> \in views}
  <1>1. links' \in SUBSET (Work \X Work) /\ views \subseteq Scans \X Work
    BY DEF TypeOK
  <1>2. /\ below \in SUBSET Work /\ kids \subseteq below
        /\ \A e \in links' : e[1] \in below => e[2] \in below
    BY <1>1, ReachedIsClosed
  <1>3. \A e \in links' : e[1] \in Work /\ e[2] \in Work /\ e = <<e[1], e[2]>>
    BY <1>1, LinksArePairs
  <1>4. \A e \in links' : e \in links \/ (e[1] = parent /\ e[2] \in kids)
    OBVIOUS
  <1>5. \A e \in links' : e[2] \in known
    BY <1>3, <1>4 DEF GraphInv, RowsAreKnown
  <1>6. below \subseteq known
    BY <1>1, <1>5, ReachedIsKnown, ZenonT(30)
  <1>7. views' = views \cup (viewers \X below)
    BY DEF SeenWith
  <1> HIDE DEF below
  <1>8. \A u \in Scans, w \in Work : <<u, w>> \in views'
            <=> <<u, w>> \in views \/ (<<u, parent>> \in views /\ w \in below)
    BY <1>7
  <1>9. ViewersSeeDescendants'
    <2> SUFFICES ASSUME NEW e \in links', NEW v \in Scans, <<v, e[1]>> \in views'
                 PROVE  <<v, e[2]>> \in views'
      BY DEF ViewersSeeDescendants
    <2>1. CASE <<v, parent>> \in views /\ e[1] \in below
      BY <1>2, <1>3, <1>8, <2>1
    <2>2. CASE <<v, e[1]>> \in views /\ e \in links
      BY <1>3, <1>8, <2>2 DEF GraphInv, ViewersSeeDescendants
    <2>3. CASE <<v, e[1]>> \in views /\ e[1] = parent /\ e[2] \in kids
      BY <1>2, <1>3, <1>8, <2>3
    <2>4. QED
      BY <1>3, <1>4, <1>8, <2>1, <2>2, <2>3
  <1>10. RowsAreKnown'
    BY <1>5, <1>6, <1>8 DEF GraphInv, RowsAreKnown
  <1>11. QED
    BY <1>1, <1>2, <1>7, <1>8, <1>9, <1>10 DEF GraphInv

\* A capture that is reused brings what it led to, to all viewers of the article.
LEMMA GraphIsAdopted ==
    ASSUME TypeOK, GraphInv, NEW D \in SUBSET Articles, NEW f \in [D -> Articles], Reused(f),
           \A w \in Work : work[w].state # "absent" => work'[w].state # "absent"
    PROVE  /\ GraphInv' /\ links' \subseteq Work \X Work /\ views' \subseteq Scans \X Work
           /\ \A u \in Scans, w \in Work : <<u, w>> \in views' =>
                <<u, w>> \in views \/ \E a \in D : <<u, a>> \in views
           /\ \A e \in links' : e \in links \/ (e[1] \in D /\ <<f[e[1]], e[2]>> \in links)
           /\ links \subseteq links'
           /\ \A a \in D : \A c \in Work : <<f[a], c>> \in links => <<a, c>> \in links'
  <1> DEFINE heirs(a) == {c \in Work : <<f[a], c>> \in links}
             below(a) == Reached(links', heirs(a))
             known == {w \in Work : work'[w].state # "absent"}
  <1>1. DOMAIN f = D /\ D \subseteq Work
    BY DEF Work
  <1>2. Adopted(f) = {e \in D \X Work : <<f[e[1]], e[2]>> \in links}
    BY <1>1 DEF Adopted
  <1>3. \A a \in D, c \in Work : <<a, c>> \in Adopted(f) <=> c \in heirs(a)
    BY <1>2
  <1>4. links' = links \cup Adopted(f) /\ views' = SweptViews(f)
    BY DEF Reused
  <1>5. links' \in SUBSET (Work \X Work) /\ views \subseteq Scans \X Work
    <2>1. D \X Work \subseteq Work \X Work
      BY <1>1
    <2>2. Adopted(f) \subseteq D \X Work
      BY <1>2
    <2>3. QED
      BY <1>4, <2>1, <2>2 DEF TypeOK
  <1>6. \A e \in links' : e[1] \in Work /\ e[2] \in Work /\ e = <<e[1], e[2]>>
    BY <1>5, LinksArePairs
  <1>8. \A a \in D : /\ below(a) \in SUBSET Work /\ heirs(a) \subseteq below(a)
                     /\ \A e \in links' : e[1] \in below(a) => e[2] \in below(a)
    BY <1>5, ReachedIsClosed, ZenonT(30)
  <1>9. \A e \in links' : e \in links \/ (e[1] \in D /\ e[2] \in heirs(e[1]))
    BY <1>2, <1>4, <1>6
  <1>10. \A e \in links' : e[2] \in known
    <2>1. \A e \in links : e[2] \in known
      BY <1>4, <1>6 DEF GraphInv, RowsAreKnown
    <2>2. \A a \in D : \A c \in heirs(a) : c \in known
      BY <2>1
    <2>3. QED
      BY <1>9, <2>1, <2>2
  <1>11. \A a \in D : below(a) \subseteq known
    <2> SUFFICES ASSUME NEW a \in D PROVE below(a) \subseteq known
      OBVIOUS
    <2>1. heirs(a) \subseteq known
      BY <1>3, <1>4, <1>10
    <2>2. QED
      BY <1>5, <1>10, <2>1, ReachedIsKnown
  <1>12. views' = views \cup {seen \in Scans \X Work :
                                \E a \in D : <<seen[1], a>> \in views /\ seen[2] \in below(a)}
    BY <1>1, <1>4 DEF SweptViews
  <1> HIDE DEF below
  <1>13. \A u \in Scans, w \in Work : <<u, w>> \in views'
            <=> <<u, w>> \in views \/ \E a \in D : <<u, a>> \in views /\ w \in below(a)
    BY <1>12
  <1>14. ViewersSeeDescendants'
    <2> SUFFICES ASSUME NEW e \in links', NEW v \in Scans, <<v, e[1]>> \in views'
                 PROVE  <<v, e[2]>> \in views'
      BY DEF ViewersSeeDescendants
    <2>1. ASSUME NEW a \in D, <<v, a>> \in views, e[1] \in below(a)
          PROVE  <<v, e[2]>> \in views'
      BY <1>6, <1>8, <1>13, <2>1
    <2>2. CASE <<v, e[1]>> \in views /\ e \in links
      BY <1>6, <1>13, <2>2 DEF GraphInv, ViewersSeeDescendants
    <2>3. CASE <<v, e[1]>> \in views /\ e[1] \in D /\ e[2] \in heirs(e[1])
      BY <1>6, <1>8, <1>13, <2>3
    <2>4. QED
      BY <1>6, <1>9, <1>13, <2>1, <2>2, <2>3
  <1>15. RowsAreKnown'
    BY <1>10, <1>11, <1>13 DEF GraphInv, RowsAreKnown
  <1>16. views' \subseteq Scans \X Work
    BY <1>5, <1>12
  <1>17. \A a \in D : \A c \in Work : <<f[a], c>> \in links => <<a, c>> \in links'
    BY <1>3, <1>4
  <1>18. QED
    BY <1>4, <1>5, <1>9, <1>13, <1>14, <1>15, <1>16, <1>17 DEF GraphInv

-----------------------------------------------------------------------------
(* What steps leave alone *)

\* A step that settles works, and grants no lease.
LeasesFade ==
    \A w \in Work : work'[w].state = "leased" =>
        /\ work[w].state = "leased"
        /\ work'[w].token = work[w].token /\ work'[w].until = work[w].until

\* Articles that become done have a capture of their own; those that are done find
\* nothing more.
LEMMA CapturesStay ==
    ASSUME TypeOK, CaptureInv, SettledStays,
           links' \subseteq Work \X Work, links \subseteq links',
           evidence \subseteq evidence',
           \A e \in links' : e \in links \/ work[e[1]].state # "done",
           \A a \in Articles : work'[a].state = "done" =>
                work[a].state = "done" \/ <<a, a>> \in evidence',
           \A b \in Articles : <<b, b>> \in evidence' =>
                <<b, b>> \in evidence \/ work'[b].state = "done"
    PROVE  CaptureInv'
  <1>1. \A a \in Articles : a \in Work /\ (work[a].state = "done" => work'[a].state = "done")
    BY DEF Work, Settled, SettledStays
  <1>2. CapturedIsDone'
    BY <1>1 DEF CaptureInv, CapturedIsDone
  <1>3. DoneHasCapture'
    <2> SUFFICES ASSUME NEW a \in Articles, work'[a].state = "done"
                 PROVE  \E b \in Articles :
                            /\ <<a, b>> \in evidence' /\ Url[b] = Url[a] /\ <<b, b>> \in evidence'
                            /\ \A c \in Work : <<b, c>> \in links' => <<a, c>> \in links'
      BY DEF DoneHasCapture
    <2>1. CASE <<a, a>> \in evidence'
      BY <2>1
    <2>2. CASE work[a].state = "done"
      <3>1. PICK b \in Articles :
                /\ <<a, b>> \in evidence /\ Url[b] = Url[a] /\ <<b, b>> \in evidence
                /\ \A c \in Work : <<b, c>> \in links => <<a, c>> \in links
        BY <2>2 DEF CaptureInv, DoneHasCapture
      <3>2. work[b].state = "done"
        BY <3>1 DEF CaptureInv, CapturedIsDone
      <3>3. \A c \in Work : <<b, c>> \in links' => <<b, c>> \in links
        BY <3>2
      <3>4. QED
        BY <3>1, <3>3
    <2>3. QED
      BY <2>1, <2>2
  <1>4. QED
    BY <1>2, <1>3 DEF CaptureInv

\* Articles that take over a capture have it, and all it led to.
LEMMA CapturesAreReused ==
    ASSUME TypeOK, CaptureInv, SettledStays, NEW D \in SUBSET Articles,
           NEW f \in [D -> Articles], Reused(f),
           \A a \in D : /\ work[a].state # "done"
                        /\ work[f[a]].state = "done" /\ <<f[a], f[a]>> \in evidence
                        /\ Url[f[a]] = Url[a],
           \A a \in Articles : work'[a].state = "done" => work[a].state = "done" \/ a \in D,
           \A e \in links' : e \in links \/ (e[1] \in D /\ <<f[e[1]], e[2]>> \in links),
           links \subseteq links',
           \A a \in D : \A c \in Work : <<f[a], c>> \in links => <<a, c>> \in links'
    PROVE  CaptureInv' /\ evidence' \subseteq Work \X Work
  <1>1. evidence' = evidence \cup {<<a, f[a]>> : a \in D}
    BY DEF Reused
  <1>2. \A a \in Articles : a \in Work /\ (work[a].state = "done" => work'[a].state = "done")
    BY DEF Work, Settled, SettledStays
  <1>3. \A b \in Articles : work[b].state = "done" => b \notin D
    OBVIOUS
  <1>4. \A b \in Articles, c \in Work : work[b].state = "done" =>
            (<<b, c>> \in links' => <<b, c>> \in links)
    BY <1>3
  <1>5. CapturedIsDone'
    <2>1. \A b \in Articles : <<b, b>> \in evidence' => <<b, b>> \in evidence
      BY <1>1
    <2>2. QED
      BY <1>2, <2>1 DEF CaptureInv, CapturedIsDone
  <1>6. DoneHasCapture'
    <2> SUFFICES ASSUME NEW a \in Articles, work'[a].state = "done"
                 PROVE  \E b \in Articles :
                            /\ <<a, b>> \in evidence' /\ Url[b] = Url[a] /\ <<b, b>> \in evidence'
                            /\ \A c \in Work : <<b, c>> \in links' => <<a, c>> \in links'
      BY DEF DoneHasCapture
    <2>1. CASE a \in D
      <3>1. <<a, f[a]>> \in evidence' /\ <<f[a], f[a]>> \in evidence'
        BY <1>1, <2>1
      <3>2. \A c \in Work : <<f[a], c>> \in links' => <<a, c>> \in links'
        BY <1>4, <2>1
      <3>3. QED
        BY <2>1, <3>1, <3>2
    <2>2. CASE work[a].state = "done"
      <3>1. PICK b \in Articles :
                /\ <<a, b>> \in evidence /\ Url[b] = Url[a] /\ <<b, b>> \in evidence
                /\ \A c \in Work : <<b, c>> \in links => <<a, c>> \in links
        BY <2>2 DEF CaptureInv, DoneHasCapture
      <3>2. work[b].state = "done"
        BY <3>1 DEF CaptureInv, CapturedIsDone
      <3>3. QED
        BY <1>1, <1>4, <3>1, <3>2
    <2>3. QED
      BY <2>1, <2>2
  <1>7. evidence' \subseteq Work \X Work
    BY <1>1, <1>2 DEF TypeOK
  <1>8. QED
    BY <1>5, <1>6, <1>7 DEF CaptureInv

\* Leases only end.
LEMMA RequestsStay ==
    ASSUME TypeOK, OneRequestPerPublisher, LeasesFade, clock' \in Nat, clock <= clock'
    PROVE  OneRequestPerPublisher'
  <1>1. \A a \in Articles : a \in Work /\ work[a].until \in Nat
    BY JournalAssumption DEF TypeOK, Row, Times, Work
  <1>2. clock \in Nat
    BY JournalAssumption DEF TypeOK
  <1>3. \A a \in Articles : (work'[a].state = "leased" /\ work'[a].until > clock') =>
            (work[a].state = "leased" /\ work[a].until > clock)
    BY <1>1, <1>2 DEF LeasesFade
  <1>4. QED
    BY <1>3 DEF OneRequestPerPublisher

\* No page is fetched.
LEMMA PagesStay ==
    ASSUME PagesInv, SettledStays, LeasesFade, UNCHANGED <<cursor, pages>>,
           \A h \in Holders : holder'[h] \in {holder[h], Idle},
           TypeOK
    PROVE  PagesInv'
  <1>1. PagesFollowCursors'
    BY DEF PagesInv, PagesFollowCursors
  <1>2. \A s \in Searches : CursorFits(s)'
    BY DEF PagesInv, CursorFits, SettledStays, Work
  <1>3. \A h \in Holders : ClaimFits(h)'
    <2> SUFFICES ASSUME NEW h \in Holders, holder'[h] # Idle, holder'[h].work \in Searches,
                        work'[holder'[h].work].state = "leased",
                        work'[holder'[h].work].token = h
                 PROVE  holder'[h].cursor = cursor'[holder'[h].work]
      BY DEF ClaimFits
    <2>1. holder'[h] = holder[h]
      OBVIOUS
    <2>2. holder[h].work \in Work
      BY <2>1 DEF Work
    <2>3. work[holder[h].work].state = "leased" /\ work[holder[h].work].token = h
      BY <2>1, <2>2 DEF LeasesFade
    <2>4. QED
      BY <2>1, <2>3 DEF PagesInv, ClaimFits
  <1>4. QED
    BY <1>1, <1>2, <1>3 DEF PagesInv

\* What was complete for a viewer who sees nothing new stays complete.
LEMMA TruthStays ==
    ASSUME NEW u \in Scans, RowsAreKnown, SettledStays,
           Remaining(u) = {}, FailedSearches(u) = {},
           \A w \in Work : <<u, w>> \in views' => <<u, w>> \in views,
           work \in [Work -> Row]
    PROVE  Remaining(u)' = {} /\ FailedSearches(u)' = {}
  <1>1. \A w \in Work : <<u, w>> \in views' => work[w].state \in Settled
    BY DEF Row, RowsAreKnown, Remaining
  <1>2. \A w \in Work : <<u, w>> \in views' => work'[w].state = work[w].state
    BY <1>1 DEF SettledStays
  <1>3. Remaining(u)' = {}
    BY <1>1, <1>2 DEF Remaining, Open, Settled
  <1>4. FailedSearches(u)' = {}
    BY <1>2 DEF FailedSearches, Work
  <1>5. QED
    BY <1>3, <1>4

\* A view in hand is a view of a scan.
LEMMA ViewsAreOfScans ==
    ASSUME TypeOK, projection # Idle
    PROVE  projection \in ViewRecord /\ projection.scan \in Scans
  BY DEF TypeOK, ViewRecord

\* Scans are left alone, and new works are seen by scans that have work left.
LEMMA ReadersStay ==
    ASSUME TypeOK, ReadersInv, RowsAreKnown, SettledStays,
           UNCHANGED <<scan, pass, projection, misled>>,
           \A u \in Scans, w \in Work :
                <<u, w>> \in views' => <<u, w>> \in views \/ Remaining(u) # {}
    PROVE  ReadersInv'
  <1>1. NoViewIsForgotten' /\ StoppedScansRest'
    BY DEF ReadersInv, ReadersAreTold, NoViewIsForgotten, StoppedScansRest, Active
  <1>2. \A u \in Scans : (Remaining(u) = {} /\ FailedSearches(u) = {}) =>
                            (Remaining(u)' = {} /\ FailedSearches(u)' = {})
    BY TruthStays DEF TypeOK
  <1>3. CompletedIsComplete'
    BY <1>2 DEF ReadersInv, ReadersAreTold, CompletedIsComplete
  <1>4. ViewInHandFits'
    BY <1>2, ViewsAreOfScans DEF ReadersInv, ViewInHandFits, Active
  <1>5. QED
    BY <1>1, <1>3, <1>4 DEF ReadersInv, ReadersAreTold

\* What a step does to the works.
WorkMoves ==
    /\ work' \in [Work -> Row]
    /\ SettledStays
    /\ StartsInTime
    /\ \A w \in Work : work[w].state # "absent" => work'[w].state # "absent"

LEMMA WorkStays ==
    ASSUME TypeOK, UNCHANGED work
    PROVE  WorkMoves /\ LeasesFade
  <1>1. work \in [Work -> Row] /\ \A w \in Work : work[w].attempts \in Nat
    BY DEF TypeOK, Row
  <1>2. SettledStays /\ LeasesFade
    BY DEF SettledStays, LeasesFade
  <1>3. StartsInTime
    BY <1>1 DEF StartsInTime
  <1>4. QED
    BY <1>1, <1>2, <1>3 DEF WorkMoves

-----------------------------------------------------------------------------
(* Passes and scans *)

LEMMA AllowancesAreNumbers ==
    ASSUME TypeOK
    PROVE  /\ \A k \in Accounts : Limit(k) \in Nat /\ Left(k) \in Nat
           /\ Metadata \in Accounts
           /\ \A w \in Work : Account(w) \in Accounts \ {Metadata}
           /\ \A w \in Work : Scope(w) \in Indexes \cup Hosts
  <1>1. \A k \in Accounts : Limit(k) \in Nat
    BY JournalAssumption DEF Limit
  <1>2. \A k \in Accounts : Left(k) \in Nat
    BY <1>1 DEF Left, TypeOK
  <1>3. \A s \in Searches : Source[s] \in Indexes
    BY DEF Indexes
  <1>4. \A a \in Articles : Host[a] \in Hosts
    BY DEF Hosts
  <1>5. Retrieval # Metadata
    BY DEF Retrieval, Metadata
  <1>6. \A w \in Work : Account(w) \in Accounts \ {Metadata}
    BY <1>3, <1>5, JournalAssumption DEF Account, Accounts, Work
  <1>7. \A w \in Work : Scope(w) \in Indexes \cup Hosts
    BY <1>3, <1>4 DEF Scope, Work
  <1>8. QED
    BY <1>1, <1>2, <1>6, <1>7 DEF Accounts

\* Who joins is running in a pass that is open; the others are as they were, for
\* who was in no pass is in none.
LEMMA JoinedScan ==
    ASSUME TypeOK, WithinAllowance, NEW v \in Scans, NEW now \in Readings, Joined(v, now)
    PROVE  /\ scan' \in [Scans -> ScanRecord] /\ pass' \in PassRecord
           /\ DOMAIN allowance' \subseteq Accounts
           /\ \A k \in DOMAIN allowance' : allowance'[k] \in Nat
           /\ spent' \in [Accounts -> Nat] /\ WithinAllowance'
           /\ scan'[v].status = "running" /\ ~scan'[v].stopped /\ Active(v)'
           /\ \A u \in Scans : u # v =>
                /\ scan'[u].status = scan[u].status /\ scan'[u].stopped = scan[u].stopped
                /\ scan'[u].unprojected = scan[u].unprojected
                /\ Active(u)' = Active(u)
  <1>1. /\ scan \in [Scans -> ScanRecord] /\ pass \in PassRecord
        /\ spent \in [Accounts -> Nat] /\ now \in 0 .. MaxTime
    BY ReadingsArePast DEF TypeOK
  <1>2. CASE pass.active
    <2> DEFINE r == [status |-> "running", member |-> TRUE, stopped |-> FALSE,
                     unprojected |-> scan[v].unprojected]
    <2>1. scan' = [scan EXCEPT ![v] = r] /\ UNCHANGED <<pass, allowance, spent>>
      BY <1>1, <1>2 DEF Joined
    <2>2. r \in ScanRecord /\ r.status = "running" /\ r.member /\ ~r.stopped
      BY <1>1 DEF ScanRecord
    <2> HIDE DEF r
    <2>3. /\ scan' \in [Scans -> ScanRecord] /\ scan'[v] = r
          /\ \A u \in Scans : u # v => scan'[u] = scan[u]
      BY <1>1, <2>1, <2>2
    <2>4. WithinAllowance'
      BY <2>1 DEF WithinAllowance, Left
    <2>5. QED
      BY <1>1, <1>2, <2>1, <2>2, <2>3, <2>4 DEF Active, TypeOK
  <1>3. CASE ~pass.active
    <2> DEFINE r == [status |-> "running", member |-> TRUE, stopped |-> FALSE,
                     unprojected |-> scan[v].unprojected]
    <2>1. /\ pass' = [active |-> TRUE, started |-> now, opened |-> pass.opened + 1]
          /\ scan' = [u \in Scans |-> IF u = v THEN r ELSE [scan[u] EXCEPT !.member = FALSE]]
          /\ allowance' = << >> /\ spent' = [k \in Accounts |-> 0]
      BY <1>3 DEF Joined
    <2>2. r \in ScanRecord /\ r.status = "running" /\ r.member /\ ~r.stopped
      BY <1>1 DEF ScanRecord
    <2> HIDE DEF r
    <2>3. \A u \in Scans : /\ [scan[u] EXCEPT !.member = FALSE] \in ScanRecord
                           /\ [scan[u] EXCEPT !.member = FALSE].status = scan[u].status
                           /\ [scan[u] EXCEPT !.member = FALSE].stopped = scan[u].stopped
                           /\ [scan[u] EXCEPT !.member = FALSE].unprojected = scan[u].unprojected
                           /\ ~[scan[u] EXCEPT !.member = FALSE].member
      BY <1>1 DEF ScanRecord
    <2>4. /\ scan' \in [Scans -> ScanRecord] /\ scan'[v] = r
          /\ \A u \in Scans : u # v => scan'[u] = [scan[u] EXCEPT !.member = FALSE]
      BY <2>1, <2>2, <2>3
    <2>5. pass' \in PassRecord /\ pass'.active
      BY <1>1, <2>1 DEF PassRecord
    <2>6. spent' \in [Accounts -> Nat] /\ DOMAIN allowance' = {}
      BY <2>1
    <2>7. WithinAllowance'
      <3>1. \A k \in Accounts : Left(k)' = Limit(k) /\ spent'[k] = 0
        BY <2>1, <2>6 DEF Left, Limit
      <3>2. \A k \in Accounts : Limit(k) \in Nat /\ Limit(k)' = Limit(k)
        BY AllowancesAreNumbers DEF Limit
      <3>3. QED
        BY <3>1, <3>2 DEF WithinAllowance
    <2>8. QED
      BY <1>3, <2>2, <2>3, <2>4, <2>5, <2>6, <2>7 DEF Active
  <1>4. QED
    BY <1>2, <1>3

\* A scan joins: its readers are told that it runs, the others what they were told.
LEMMA JoinedReaders ==
    ASSUME TypeOK, ReadersInv, RowsAreKnown, SettledStays, NEW v \in Scans,
           scan'[v].status = "running", ~scan'[v].stopped, Active(v)',
           \A u \in Scans : u # v =>
                /\ scan'[u].status = scan[u].status /\ scan'[u].stopped = scan[u].stopped
                /\ scan'[u].unprojected = scan[u].unprojected
                /\ Active(u)' = Active(u),
           \A u \in Scans, w \in Work : <<u, w>> \in views' => <<u, w>> \in views \/ u = v,
           \/ scan[v].status = "unknown" /\ UNCHANGED <<projection, misled>>
           \/ Retold(v)
    PROVE  ReadersInv'
  <1>1. NoViewIsForgotten' /\ StoppedScansRest'
    BY DEF ReadersInv, ReadersAreTold, NoViewIsForgotten, StoppedScansRest
  <1>2. \A u \in Scans : (u # v /\ Remaining(u) = {} /\ FailedSearches(u) = {}) =>
                            (Remaining(u)' = {} /\ FailedSearches(u)' = {})
    BY TruthStays DEF TypeOK
  <1>3. misled' \subseteq misled /\ \A u \in misled : u # v => u \in misled'
    BY DEF Retold
  <1>4. CompletedIsComplete'
    <2> SUFFICES ASSUME NEW u \in Scans \ misled', scan'[u].status = "completed",
                        ~scan'[u].stopped
                 PROVE  Remaining(u)' = {} /\ FailedSearches(u)' = {}
      BY DEF CompletedIsComplete
    <2>1. u # v
      OBVIOUS
    <2>2. Remaining(u) = {} /\ FailedSearches(u) = {}
      BY <1>3, <2>1 DEF ReadersInv, ReadersAreTold, CompletedIsComplete
    <2>3. QED
      BY <1>2, <2>1, <2>2
  <1>5. ViewInHandFits'
    <2>1. CASE projection = Idle
      BY <2>1 DEF Retold, ViewInHandFits
    <2>2. CASE projection # Idle /\ projection.scan # v
      <3>1. UNCHANGED projection
        BY <2>2 DEF Retold
      <3>2. QED
        BY <1>2, <2>2, <3>1, ViewsAreOfScans DEF ReadersInv, ViewInHandFits
    <2>3. CASE projection # Idle /\ projection.scan = v
      <3>1. projection' = [projection EXCEPT !.outdated = TRUE]
        BY <2>3 DEF Retold, ReadersInv, ViewInHandFits
      <3>2. projection'.scan = v /\ projection'.outdated
        BY <2>3, <3>1, ViewsAreOfScans DEF ViewRecord
      <3>3. QED
        BY <3>2 DEF ViewInHandFits
    <2>4. QED
      BY <2>1, <2>2, <2>3
  <1>6. QED
    BY <1>1, <1>4, <1>5 DEF ReadersInv, ReadersAreTold

\* A scan joins with its plan: the rows were taken up or not, the plan is added.
LEMMA JoiningKeeps ==
    ASSUME JournalInv, NEW v \in Scans, NEW now \in Readings, Joined(v, now),
           NEW plan \in Plans[v], NEW rows \in [Work -> Row], work' = Enqueue(rows, plan),
           \A w \in Work : \/ rows[w] = work[w]
                           \/ /\ work[w].state = "capacity" /\ rows[w].state = "pending"
                              /\ rows[w].attempts = 0,
           views' = AttachDescendants(v, plan),
           \/ scan[v].status = "unknown" /\ UNCHANGED <<projection, misled>>
           \/ Retold(v),
           UNCHANGED <<clock, cursor, links, evidence, cooldown, holder, pages, demanded>>
    PROVE  JournalInv' /\ WorkMoves
  <1>1. plan \in SUBSET Work
    BY JournalAssumption DEF Work
  <1>2. /\ work' \in [Work -> Row] /\ work \in [Work -> Row]
        /\ \A w \in Work : work[w].attempts \in Nat
    BY <1>1, EnqueueAddsRows DEF JournalInv, TypeOK, Row
  <1>3. \A w \in Work :
            \/ work'[w] = work[w]
            \/ /\ work[w].state \in {"capacity", "absent"}
               /\ work'[w].state = "pending" /\ work'[w].attempts = 0
    BY <1>1, EnqueueAddsRows
  <1>4. \A w \in plan : work'[w].state # "absent"
    BY <1>1, EnqueueAddsRows
  <1>5. SettledStays /\ LeasesFade
    BY <1>3 DEF SettledStays, LeasesFade, Settled
  <1>6. StartsInTime
    BY <1>2, <1>3 DEF StartsInTime
  <1>7. \A w \in Work : work[w].state # "absent" => work'[w].state # "absent"
    BY <1>3
  <1>8. /\ GraphInv' /\ views' \subseteq Scans \X Work
        /\ \A u \in Scans, w \in Work : <<u, w>> \in views' => <<u, w>> \in views \/ u = v
    BY <1>1, <1>4, <1>7, GraphIsJoined DEF JournalInv
  <1>9. CaptureInv'
    <2>1. \A a \in Articles : a \in Work /\ (work'[a].state = "done" => work[a].state = "done")
      BY <1>3 DEF Work
    <2>2. QED
      BY <1>5, <2>1, CapturesStay DEF JournalInv, TypeOK
  <1>10. OneRequestPerPublisher'
    BY <1>5, RequestsStay, JournalAssumption DEF JournalInv, TypeOK
  <1>11. PagesInv'
    BY <1>5, PagesStay DEF JournalInv
  <1>12. /\ scan' \in [Scans -> ScanRecord] /\ pass' \in PassRecord
         /\ DOMAIN allowance' \subseteq Accounts
         /\ \A k \in DOMAIN allowance' : allowance'[k] \in Nat
         /\ spent' \in [Accounts -> Nat] /\ WithinAllowance'
    BY JoinedScan DEF JournalInv
  <1>13. ReadersInv'
    BY <1>5, <1>8, JoinedScan, JoinedReaders DEF JournalInv, GraphInv
  <1>14. TypeOK'
    <2>1. projection' \in ViewRecord \cup {Idle} /\ misled' \subseteq Scans
      BY ViewsAreOfScans DEF JournalInv, TypeOK, Retold, ViewRecord
    <2>2. QED
      BY <1>2, <1>8, <1>12, <2>1 DEF JournalInv, TypeOK
  <1>15. CooldownsHold'
    BY DEF JournalInv, CooldownsHold
  <1>16. QED
    BY <1>2, <1>5, <1>6, <1>7, <1>8, <1>9, <1>10, <1>11, <1>12, <1>13, <1>14, <1>15
       DEF JournalInv, WorkMoves

LEMMA AttachKeeps == ASSUME JournalInv, NEW v \in Scans, Attach(v) PROVE JournalInv' /\ WorkMoves
  <1>1. PICK now \in Readings, plan \in Plans[v] :
            /\ Joined(v, now) /\ work' = Enqueue(work, plan)
            /\ views' = AttachDescendants(v, plan)
            /\ scan[v].status = "unknown" /\ UNCHANGED <<projection, misled>>
            /\ UNCHANGED <<clock, cursor, links, evidence, cooldown, holder, pages, demanded>>
    BY DEF Attach, telling
  <1>2. QED
    BY <1>1, JoiningKeeps DEF JournalInv, TypeOK

LEMMA ContinueKeeps ==
    ASSUME JournalInv, NEW v \in Scans, Continue(v) PROVE JournalInv' /\ WorkMoves
  <1>1. PICK now \in Readings, plan \in Plans[v] :
            /\ Joined(v, now) /\ work' = Enqueue(Resumed(v), plan)
            /\ views' = AttachDescendants(v, plan) /\ Retold(v)
            /\ UNCHANGED <<clock, cursor, links, evidence, cooldown, holder, pages, demanded>>
    BY DEF Continue
  <1> DEFINE again(w) == [work[w] EXCEPT !.state = "pending", !.attempts = 0]
  <1>2. \A w \in Work : again(w) \in Row /\ again(w).state = "pending" /\ again(w).attempts = 0
    BY DEF JournalInv, TypeOK, Row, Open
  <1>3. Resumed(v) = [w \in Work |-> IF <<v, w>> \in views /\ work[w].state = "capacity"
                                     THEN again(w) ELSE work[w]]
    BY DEF Resumed
  <1> HIDE DEF again
  <1>4. /\ Resumed(v) \in [Work -> Row]
        /\ \A w \in Work : \/ Resumed(v)[w] = work[w]
                           \/ /\ work[w].state = "capacity" /\ Resumed(v)[w].state = "pending"
                              /\ Resumed(v)[w].attempts = 0
    BY <1>2, <1>3 DEF JournalInv, TypeOK
  <1>5. QED
    BY <1>1, <1>4, JoiningKeeps

LEMMA FinishPassKeeps == ASSUME JournalInv, FinishPass PROVE JournalInv' /\ WorkMoves
  <1> DEFINE owed(v) == [scan[v] EXCEPT !.unprojected = scan[v].unprojected \/ Active(v)]
  <1>1. /\ scan' = [v \in Scans |-> owed(v)] /\ pass' = [pass EXCEPT !.active = FALSE]
        /\ pass.active
        /\ UNCHANGED <<clock, tables, allowance, cooldown, holder, projection, misled, history>>
    BY DEF FinishPass, telling
  <1>2. scan \in [Scans -> ScanRecord] /\ pass \in PassRecord
    BY DEF JournalInv, TypeOK
  <1>3. \A v \in Scans : Active(v) \in BOOLEAN
    BY <1>2 DEF Active, ScanRecord, PassRecord
  <1>4. \A v \in Scans : /\ owed(v) \in ScanRecord /\ owed(v).status = scan[v].status
                         /\ owed(v).stopped = scan[v].stopped /\ owed(v).member = scan[v].member
                         /\ owed(v).unprojected = (scan[v].unprojected \/ Active(v))
    BY <1>2, <1>3 DEF ScanRecord
  <1> HIDE DEF owed
  <1>5. pass' \in PassRecord /\ ~pass'.active
    BY <1>1, <1>2 DEF PassRecord
  <1>6. UNCHANGED <<work, cursor, links, views, evidence, pages, spent, demanded>>
    BY <1>1 DEF tables, history
  <1>7. WorkMoves /\ LeasesFade
    BY <1>6, WorkStays DEF JournalInv
  <1>8. TypeOK'
    BY <1>1, <1>4, <1>5, <1>6 DEF JournalInv, TypeOK
  <1>9. ReadersInv'
    <2>1. \A v \in Scans : scan'[v] = owed(v) /\ ~Active(v)'
      BY <1>1, <1>5 DEF Active
    <2>2. NoViewIsForgotten' /\ StoppedScansRest'
      BY <1>4, <2>1 DEF JournalInv, ReadersInv, ReadersAreTold, NoViewIsForgotten, StoppedScansRest
    <2>3. UNCHANGED <<work, views, projection, misled>>
      BY <1>1, <1>6
    <2>4. \A v \in Scans : /\ Remaining(v)' = Remaining(v)
                           /\ FailedSearches(v)' = FailedSearches(v)
      BY <2>3 DEF Remaining, FailedSearches
    <2>5. \A v \in Scans : /\ scan'[v].status = scan[v].status
                           /\ scan'[v].stopped = scan[v].stopped
                           /\ scan'[v].unprojected = (scan[v].unprojected \/ Active(v))
      BY <1>4, <2>1
    <2>6. CompletedIsComplete'
      BY <2>3, <2>4, <2>5 DEF JournalInv, ReadersInv, ReadersAreTold, CompletedIsComplete
    <2>7. ViewInHandFits'
      BY <2>3, <2>4, <2>5, ViewsAreOfScans DEF JournalInv, ReadersInv, ViewInHandFits
    <2>8. QED
      BY <2>2, <2>6, <2>7 DEF ReadersInv, ReadersAreTold
  <1>10. GraphInv' /\ CaptureInv' /\ CooldownsHold' /\ WithinAllowance'
    BY <1>1, <1>6 DEF JournalInv, GraphInv, ViewersSeeDescendants, RowsAreKnown, CaptureInv,
                      DoneHasCapture, CapturedIsDone, CooldownsHold, WithinAllowance, Left, Limit
  <1>11. OneRequestPerPublisher' /\ PagesInv'
    BY <1>1, <1>6 DEF JournalInv, OneRequestPerPublisher, PagesInv, PagesFollowCursors,
                      CursorFits, ClaimFits
  <1>12. QED
    BY <1>7, <1>8, <1>9, <1>10, <1>11 DEF JournalInv

\* The graph, the captures and the cooldowns of works that are left alone.
LEMMA TablesStay ==
    ASSUME JournalInv, UNCHANGED <<tables, cooldown, demanded>>
    PROVE  /\ GraphInv' /\ CaptureInv' /\ CooldownsHold' /\ WorkMoves /\ LeasesFade
           /\ UNCHANGED <<work, cursor, links, views, evidence>>
  <1>1. UNCHANGED <<work, cursor, links, views, evidence>>
    BY DEF tables
  <1>2. WorkMoves /\ LeasesFade
    BY <1>1, WorkStays DEF JournalInv
  <1>3. QED
    BY <1>1, <1>2 DEF JournalInv, GraphInv, ViewersSeeDescendants, RowsAreKnown, CaptureInv,
                      DoneHasCapture, CapturedIsDone, CooldownsHold

LEMMA SuspendAtCapacityKeeps ==
    ASSUME JournalInv, SuspendAtCapacity PROVE JournalInv' /\ WorkMoves
  <1>1. PICK named \in {{}, ActiveScans} :
          scan' = [v \in Scans |->
                    IF Active(v) \/ v \in named \/ scan[v].stopped
                    THEN [scan[v] EXCEPT !.stopped = TRUE, !.unprojected = FALSE]
                    ELSE scan[v]]
    BY DEF SuspendAtCapacity
  <1> DEFINE stop(v) == [scan[v] EXCEPT !.stopped = TRUE, !.unprojected = FALSE]
             halt(w) == [work[w] EXCEPT !.state = "capacity", !.token = NoHolder, !.until = 0]
  <1>2. /\ work' = [w \in Work |-> IF work[w].state = "leased" THEN halt(w) ELSE work[w]]
        /\ pass' = [pass EXCEPT !.active = FALSE]
        /\ UNCHANGED <<clock, cursor, links, views, evidence, allowance, cooldown,
                       holder, projection, misled, pages, spent, demanded>>
    BY DEF SuspendAtCapacity, telling, history
  <1>3. /\ scan \in [Scans -> ScanRecord] /\ pass \in PassRecord /\ work \in [Work -> Row]
        /\ \A w \in Work : work[w].attempts \in Nat
    BY DEF JournalInv, TypeOK, Row
  <1>4. \A v \in Scans : /\ stop(v) \in ScanRecord /\ stop(v).stopped /\ ~stop(v).unprojected
                         /\ stop(v).status = scan[v].status
    BY <1>3 DEF ScanRecord
  <1>5. \A w \in Work : /\ halt(w) \in Row /\ halt(w).state = "capacity"
                        /\ halt(w).attempts = work[w].attempts
    BY <1>3, TimesAreKept DEF Row, Open
  <1>6. pass' \in PassRecord /\ ~pass'.active
    BY <1>2, <1>3 DEF PassRecord
  <1> HIDE DEF stop, halt
  <1>7. /\ work' \in [Work -> Row]
        /\ \A w \in Work : IF work[w].state = "leased" THEN work'[w] = halt(w)
                                                       ELSE work'[w] = work[w]
    BY <1>2, <1>3, <1>5
  <1>8. SettledStays /\ LeasesFade
    BY <1>5, <1>7 DEF SettledStays, LeasesFade, Settled
  <1>9. StartsInTime /\ \A w \in Work : work[w].state # "absent" => work'[w].state # "absent"
    BY <1>3, <1>5, <1>7 DEF StartsInTime
  <1>10. TypeOK'
    BY <1>1, <1>2, <1>3, <1>4, <1>6, <1>7 DEF JournalInv, TypeOK, stop
  <1>11. GraphInv'
    BY <1>2, <1>9, GraphStays DEF JournalInv
  <1>12. CaptureInv'
    <2>1. \A a \in Articles : a \in Work /\ (work'[a].state = "done" => work[a].state = "done")
      BY <1>5, <1>7 DEF Work
    <2>2. QED
      BY <1>2, <1>8, <2>1, CapturesStay DEF JournalInv, TypeOK
  <1>13. OneRequestPerPublisher'
    <2>1. clock' \in Nat /\ clock <= clock'
      BY <1>2, JournalAssumption DEF JournalInv, TypeOK
    <2>2. QED
      BY <1>8, <2>1, RequestsStay DEF JournalInv
  <1>14. PagesInv'
    BY <1>2, <1>8, PagesStay DEF JournalInv
  <1>15. ReadersInv'
    <2>1. \A v \in Scans : ~Active(v)'
      BY <1>6 DEF Active
    <2>2. \A v \in Scans : IF Active(v) \/ v \in named \/ scan[v].stopped
                           THEN scan'[v] = stop(v) ELSE scan'[v] = scan[v]
      BY <1>1 DEF stop
    <2>3. NoViewIsForgotten' /\ StoppedScansRest'
      BY <1>4, <2>1, <2>2 DEF JournalInv, ReadersInv, ReadersAreTold, NoViewIsForgotten,
                              StoppedScansRest
    <2>4. \A u \in Scans : (Remaining(u) = {} /\ FailedSearches(u) = {}) =>
                              (Remaining(u)' = {} /\ FailedSearches(u)' = {})
      BY <1>2, <1>3, <1>8, TruthStays DEF JournalInv, GraphInv
    <2>5. CompletedIsComplete'
      <3> SUFFICES ASSUME NEW u \in Scans \ misled', scan'[u].status = "completed",
                          ~scan'[u].stopped
                   PROVE  Remaining(u)' = {} /\ FailedSearches(u)' = {}
        BY DEF CompletedIsComplete
      <3>1. scan'[u] = scan[u] /\ u \notin misled
        BY <1>2, <1>4, <2>2
      <3>2. Remaining(u) = {} /\ FailedSearches(u) = {}
        BY <3>1 DEF JournalInv, ReadersInv, ReadersAreTold, CompletedIsComplete
      <3>3. QED
        BY <2>4, <3>2
    <2>6. ViewInHandFits'
      <3>1. \A v \in Scans : /\ scan'[v].status = scan[v].status
                             /\ scan'[v] = scan[v] \/ scan'[v].stopped
                             /\ Active(v) => scan'[v].stopped
        BY <1>4, <2>2
      <3>2. UNCHANGED projection
        BY <1>2
      <3>3. QED
        BY <2>4, <3>1, <3>2, ViewsAreOfScans DEF JournalInv, ReadersInv, ViewInHandFits
    <2>7. QED
      BY <2>3, <2>5, <2>6 DEF ReadersInv, ReadersAreTold
  <1>16. CooldownsHold' /\ WithinAllowance'
    BY <1>2 DEF JournalInv, CooldownsHold, WithinAllowance, Left, Limit
  <1>17. QED
    BY <1>7, <1>8, <1>9, <1>10, <1>11, <1>12, <1>13, <1>14, <1>15, <1>16
       DEF JournalInv, WorkMoves

\* What a view says of its scan.
LEMMA StatusTells ==
    ASSUME TypeOK, StoppedScansRest, NEW v \in Scans
    PROVE  /\ StatusOf(v) \in {"running", "completed", "incomplete"}
           /\ StatusOf(v) = "running" => Active(v)
           /\ StatusOf(v) = "completed" => Remaining(v) = {} /\ FailedSearches(v) = {}
  BY DEF StatusOf

\* What is the same while no table, pass or allowance is touched.
LEMMA RestStays ==
    ASSUME JournalInv,
           UNCHANGED <<clock, tables, pass, allowance, cooldown, holder, pages, spent, demanded>>
    PROVE  /\ GraphInv' /\ CaptureInv' /\ CooldownsHold' /\ WorkMoves /\ LeasesFade
           /\ UNCHANGED <<work, cursor, links, views, evidence>>
           /\ OneRequestPerPublisher' /\ PagesInv' /\ WithinAllowance'
  <1>1. /\ GraphInv' /\ CaptureInv' /\ CooldownsHold' /\ WorkMoves /\ LeasesFade
        /\ UNCHANGED <<work, cursor, links, views, evidence>>
    BY TablesStay
  <1>2. OneRequestPerPublisher' /\ PagesInv' /\ WithinAllowance'
    BY <1>1 DEF JournalInv, OneRequestPerPublisher, PagesInv, PagesFollowCursors,
                CursorFits, ClaimFits, WithinAllowance, Left, Limit
  <1>3. QED
    BY <1>1, <1>2

\* What a view says is true when it is begun.
LEMMA SnapshotKeeps ==
    ASSUME JournalInv, NEW v \in Scans, Snapshot(v) PROVE JournalInv' /\ WorkMoves
  <1>1. /\ projection' = [scan |-> v, status |-> StatusOf(v), outdated |-> FALSE]
        /\ scan[v].status # "unknown"
        /\ UNCHANGED <<clock, tables, scan, pass, allowance, cooldown, holder, misled,
                       pages, spent, demanded>>
    BY DEF Snapshot, history
  <1>2. /\ StatusOf(v) \in {"running", "completed", "incomplete"}
        /\ StatusOf(v) = "running" => Active(v)
        /\ StatusOf(v) = "completed" => Remaining(v) = {} /\ FailedSearches(v) = {}
    BY StatusTells DEF JournalInv, ReadersInv, ReadersAreTold
  <1>3. /\ projection' \in ViewRecord /\ projection'.scan = v
        /\ projection'.status = StatusOf(v)
    BY <1>1, <1>2 DEF ViewRecord
  <1>4. /\ GraphInv' /\ CaptureInv' /\ CooldownsHold' /\ WorkMoves
        /\ UNCHANGED <<work, cursor, links, views, evidence>>
        /\ OneRequestPerPublisher' /\ PagesInv' /\ WithinAllowance'
    BY <1>1, RestStays
  <1>5. TypeOK'
    BY <1>1, <1>3, <1>4 DEF JournalInv, TypeOK
  <1>6. \A u \in Scans : /\ Active(u)' = Active(u) /\ Remaining(u)' = Remaining(u)
                         /\ FailedSearches(u)' = FailedSearches(u)
    BY <1>1, <1>4 DEF Active, Remaining, FailedSearches
  <1>7. NoViewIsForgotten' /\ StoppedScansRest' /\ CompletedIsComplete'
    BY <1>1, <1>6 DEF JournalInv, ReadersInv, ReadersAreTold, NoViewIsForgotten,
                      StoppedScansRest, CompletedIsComplete
  <1>8. ViewInHandFits'
    BY <1>1, <1>2, <1>3, <1>6 DEF ViewInHandFits
  <1>9. QED
    BY <1>4, <1>5, <1>7, <1>8 DEF JournalInv, ReadersInv, ReadersAreTold

\* A view that is saved says what was true when it was begun, and is still true
\* unless the scan was continued.
LEMMA SaveViewKeeps == ASSUME JournalInv, SaveView PROVE JournalInv' /\ WorkMoves
  <1> DEFINE v == projection.scan
             status == projection.status
             told == [scan[v] EXCEPT !.status = status, !.unprojected = StillOwed(v, status)]
  <1>1. /\ projection # Idle /\ scan' = [scan EXCEPT ![v] = told]
        /\ misled' = IF projection.outdated THEN misled \cup {v} ELSE misled \ {v}
        /\ projection' = Idle
        /\ UNCHANGED <<clock, tables, pass, allowance, cooldown, holder, pages, spent, demanded>>
    BY DEF SaveView, history
  <1>2. /\ projection \in ViewRecord /\ v \in Scans /\ scan \in [Scans -> ScanRecord]
        /\ status \in {"running", "completed", "incomplete"}
    BY <1>1, ViewsAreOfScans DEF JournalInv, TypeOK, ViewRecord
  <1>3. /\ told \in ScanRecord /\ told.status = status /\ told.stopped = scan[v].stopped
        /\ told.member = scan[v].member
        /\ told.unprojected = (scan[v].unprojected /\ status = "running")
    BY <1>2 DEF ScanRecord, StillOwed
  <1>4. /\ status = "running" => Active(v) \/ scan[v].unprojected \/ scan[v].stopped
        /\ status = "completed" /\ ~projection.outdated =>
                Remaining(v) = {} /\ FailedSearches(v) = {}
    BY <1>1 DEF JournalInv, ReadersInv, ViewInHandFits
  <1> HIDE DEF told, v, status
  <1>5. /\ scan' \in [Scans -> ScanRecord] /\ scan'[v] = told
        /\ \A u \in Scans : u # v => scan'[u] = scan[u]
    BY <1>1, <1>2, <1>3
  <1>6. /\ GraphInv' /\ CaptureInv' /\ CooldownsHold' /\ WorkMoves
        /\ UNCHANGED <<work, cursor, links, views, evidence>>
        /\ OneRequestPerPublisher' /\ PagesInv' /\ WithinAllowance'
    BY <1>1, RestStays
  <1>7. TypeOK'
    BY <1>1, <1>2, <1>5, <1>6 DEF JournalInv, TypeOK
  <1>8. \A u \in Scans : /\ Active(u)' = Active(u) /\ Remaining(u)' = Remaining(u)
                         /\ FailedSearches(u)' = FailedSearches(u)
    BY <1>1, <1>3, <1>5, <1>6 DEF Active, Remaining, FailedSearches
  <1>9. NoViewIsForgotten' /\ StoppedScansRest'
    BY <1>3, <1>4, <1>5, <1>8 DEF JournalInv, ReadersInv, ReadersAreTold, NoViewIsForgotten,
                                  StoppedScansRest
  <1>10. CompletedIsComplete'
    BY <1>1, <1>3, <1>4, <1>5, <1>8 DEF JournalInv, ReadersInv, ReadersAreTold,
                                        CompletedIsComplete
  <1>11. ViewInHandFits'
    BY <1>1 DEF ViewInHandFits
  <1>12. QED
    BY <1>6, <1>7, <1>9, <1>10, <1>11 DEF JournalInv, ReadersInv, ReadersAreTold

LEMMA DropViewKeeps == ASSUME JournalInv, DropView PROVE JournalInv' /\ WorkMoves
  <1>1. /\ projection' = Idle
        /\ UNCHANGED <<clock, tables, scan, pass, allowance, cooldown, holder, misled,
                       pages, spent, demanded>>
    BY DEF DropView, history
  <1>2. /\ GraphInv' /\ CaptureInv' /\ CooldownsHold' /\ WorkMoves
        /\ UNCHANGED <<work, cursor, links, views, evidence>>
        /\ OneRequestPerPublisher' /\ PagesInv' /\ WithinAllowance'
    BY <1>1, RestStays
  <1>3. TypeOK'
    BY <1>1, <1>2 DEF JournalInv, TypeOK
  <1>4. ReadersInv'
    BY <1>1, <1>2 DEF JournalInv, ReadersInv, ReadersAreTold, NoViewIsForgotten,
                      StoppedScansRest, CompletedIsComplete, ViewInHandFits, Active,
                      Remaining, FailedSearches
  <1>5. QED
    BY <1>2, <1>3, <1>4 DEF JournalInv

\* The report is lost, and its lease runs on.
LEMMA LoseKeeps == ASSUME JournalInv, NEW h \in Holders, Lose(h) PROVE JournalInv' /\ WorkMoves
  <1>1. /\ holder' = [holder EXCEPT ![h] = Idle]
        /\ UNCHANGED <<clock, tables, scan, pass, projection, misled,
                       allowance, cooldown, pages, spent, demanded>>
    BY DEF Lose, course, telling, history
  <1>2. /\ holder' \in [Holders -> Claims \cup {Idle}]
        /\ \A g \in Holders : holder'[g] \in {holder[g], Idle}
    BY <1>1 DEF JournalInv, TypeOK
  <1>3. /\ GraphInv' /\ CaptureInv' /\ CooldownsHold' /\ WorkMoves /\ LeasesFade
        /\ UNCHANGED <<work, cursor, links, views, evidence>>
    BY <1>1, TablesStay
  <1>4. TypeOK'
    BY <1>1, <1>2, <1>3 DEF JournalInv, TypeOK
  <1>5. ReadersInv'
    BY <1>1, <1>3, ReadersStay DEF JournalInv, GraphInv, WorkMoves
  <1>6. PagesInv'
    BY <1>1, <1>2, <1>3, PagesStay DEF JournalInv, WorkMoves
  <1>7. OneRequestPerPublisher' /\ WithinAllowance'
    BY <1>1, <1>3 DEF JournalInv, OneRequestPerPublisher, WithinAllowance, Left, Limit
  <1>8. QED
    BY <1>3, <1>4, <1>5, <1>6, <1>7 DEF JournalInv

LEMMA TickKeeps == ASSUME JournalInv, Tick PROVE JournalInv' /\ WorkMoves
  <1>1. /\ clock < MaxTime /\ clock' = clock + 1
        /\ UNCHANGED <<tables, scan, pass, projection, misled,
                       allowance, cooldown, holder, pages, spent, demanded>>
    BY DEF Tick, course, telling, history
  <1>2. clock' \in 0 .. MaxTime /\ clock' \in Nat /\ clock <= clock'
    BY <1>1, JournalAssumption DEF JournalInv, TypeOK
  <1>3. /\ GraphInv' /\ CaptureInv' /\ CooldownsHold' /\ WorkMoves /\ LeasesFade
        /\ UNCHANGED <<work, cursor, links, views, evidence>>
    BY <1>1, TablesStay
  <1>4. TypeOK'
    BY <1>1, <1>2, <1>3 DEF JournalInv, TypeOK
  <1>5. ReadersInv'
    BY <1>1, <1>3, ReadersStay DEF JournalInv, GraphInv, WorkMoves
  <1>6. OneRequestPerPublisher'
    BY <1>2, <1>3, RequestsStay DEF JournalInv
  <1>7. PagesInv' /\ WithinAllowance'
    BY <1>1, <1>3 DEF JournalInv, PagesInv, PagesFollowCursors, CursorFits, ClaimFits,
                      WithinAllowance, Left, Limit
  <1>8. QED
    BY <1>3, <1>4, <1>5, <1>6, <1>7 DEF JournalInv

-----------------------------------------------------------------------------
(* Claims *)

\* What a claim does to the works it visits on its way: retrievals that can take
\* over a capture are done, and what was tried too often has failed.
LEMMA SweptRows ==
    ASSUME TypeOK, NEW kind \in Kinds, NEW now \in Readings,
           NEW f \in Reuses(Candidates(kind, now)),
           NEW dropped \in SUBSET (Candidates(kind, now) \ DOMAIN f)
    PROVE  /\ DOMAIN f \in SUBSET Articles /\ f \in [DOMAIN f -> Articles]
           /\ \A a \in DOMAIN f : /\ work[a].state = "pending" /\ Url[f[a]] = Url[a]
                                  /\ work[f[a]].state = "done" /\ <<f[a], f[a]>> \in evidence
           /\ dropped \subseteq Work
           /\ \A w \in dropped : work[w].state \in {"pending", "leased"}
           /\ Swept(f, dropped) \in [Work -> Row]
           /\ \A w \in Work : /\ w \in DOMAIN f => Swept(f, dropped)[w].state = "done"
                              /\ w \in dropped => Swept(f, dropped)[w].state = "failed"
                              /\ w \notin DOMAIN f \cup dropped => Swept(f, dropped)[w] = work[w]
                              /\ Swept(f, dropped)[w].attempts = work[w].attempts
  <1> DEFINE rows == Candidates(kind, now)
             waiting == {a \in rows \cap Articles : work[a].state = "pending"}
             done(w) == [work[w] EXCEPT !.state = "done", !.token = NoHolder, !.until = 0]
             failed(w) == [work[w] EXCEPT !.state = "failed"]
  <1>1. PICK D \in SUBSET waiting : f \in [D -> Articles]
    BY DEF Reuses
  <1>2. DOMAIN f = D /\ D \subseteq Articles /\ \A a \in D : work[a].state = "pending"
    BY <1>1
  <1>3. \A a \in D : Retrieved(f[a]) /\ Url[f[a]] = Url[a]
    BY <1>2 DEF Reuses
  <1>4. \A w \in rows : w \in kind /\ work[w].state \in {"pending", "leased"}
    BY DEF Candidates
  <1>5. kind \subseteq Work
    BY DEF Kinds, Work
  <1>6. ASSUME NEW w \in Work
        PROVE  /\ done(w) \in Row /\ done(w).state = "done"
               /\ done(w).attempts = work[w].attempts
               /\ failed(w) \in Row /\ failed(w).state = "failed"
               /\ failed(w).attempts = work[w].attempts
    <2>1. work[w] \in Row /\ 0 \in Times
      BY TimesAreKept DEF TypeOK
    <2>2. done(w) \in Row /\ done(w).state = "done" /\ done(w).attempts = work[w].attempts
      BY <2>1 DEF Row, Settled
    <2>3. failed(w) \in Row /\ failed(w).state = "failed"
          /\ failed(w).attempts = work[w].attempts
      BY <2>1 DEF Row, Settled
    <2>4. QED
      BY <2>2, <2>3
  <1>7. Swept(f, dropped) = [w \in Work |-> IF w \in D THEN done(w)
                                            ELSE IF w \in dropped THEN failed(w) ELSE work[w]]
    BY <1>2 DEF Swept
  <1> HIDE DEF done, failed
  <1>8. /\ Swept(f, dropped) \in [Work -> Row]
        /\ \A w \in Work : /\ w \in D => Swept(f, dropped)[w].state = "done"
                           /\ (w \in dropped /\ w \notin D) => Swept(f, dropped)[w].state = "failed"
                           /\ w \notin D \cup dropped => Swept(f, dropped)[w] = work[w]
                           /\ Swept(f, dropped)[w].attempts = work[w].attempts
    BY <1>6, <1>7 DEF TypeOK
  <1>9. \A w \in dropped : w \in rows /\ w \notin D
    BY <1>2
  <1>10. QED
    BY <1>1, <1>2, <1>3, <1>4, <1>5, <1>8, <1>9 DEF Retrieved

\* A request is paid from its account and, if it is for metadata, from that of all.
LEMMA PaidIsWithin ==
    ASSUME TypeOK, WithinAllowance, NEW w \in Work, Paid(w), Left(Account(w)) > 0,
           w \in Searches => Left(Metadata) > 0
    PROVE  /\ DOMAIN allowance' \subseteq Accounts
           /\ \A k \in DOMAIN allowance' : allowance'[k] \in Nat
           /\ spent' \in [Accounts -> Nat] /\ WithinAllowance'
  <1> DEFINE from == {Account(w)} \cup (IF w \in Searches THEN {Metadata} ELSE {})
  <1>1. /\ allowance' = [k \in DOMAIN allowance \cup from |->
                            IF k \in from THEN Left(k) - 1 ELSE allowance[k]]
        /\ spent' = [k \in Accounts |-> IF k \in from THEN spent[k] + 1 ELSE spent[k]]
    BY DEF Paid
  <1>2. from \subseteq Accounts /\ \A k \in from : Left(k) > 0
    BY AllowancesAreNumbers
  <1>3. \A k \in Accounts : Left(k) \in Nat /\ Limit(k) \in Nat /\ spent[k] \in Nat
    BY AllowancesAreNumbers DEF TypeOK
  <1>4. DOMAIN allowance \subseteq Accounts /\ \A k \in DOMAIN allowance : allowance[k] \in Nat
    BY DEF TypeOK
  <1> HIDE DEF from
  <1>5. \A k \in Accounts : Left(k)' = IF k \in from THEN Left(k) - 1 ELSE Left(k)
    BY <1>1 DEF Left, Limit
  <1>6. WithinAllowance'
    <2> SUFFICES ASSUME NEW k \in Accounts PROVE spent'[k] + Left(k)' <= Limit(k)'
      BY DEF WithinAllowance
    <2>1. spent[k] + Left(k) <= Limit(k) /\ Limit(k)' = Limit(k)
      BY DEF WithinAllowance, Limit
    <2>2. spent'[k] = IF k \in from THEN spent[k] + 1 ELSE spent[k]
      BY <1>1
    <2>3. QED
      BY <1>3, <1>5, <2>1, <2>2
  <1>7. /\ DOMAIN allowance' \subseteq Accounts
        /\ \A k \in DOMAIN allowance' : allowance'[k] \in Nat
    BY <1>1, <1>2, <1>3, <1>4
  <1>8. spent' \in [Accounts -> Nat]
    BY <1>1, <1>3
  <1>9. QED
    BY <1>6, <1>7, <1>8

\* The graph, the captures and the readers do not mind what a claim does on its way.
LEMMA SweepingKeeps ==
    ASSUME JournalInv, NEW D \in SUBSET Articles, NEW f \in [D -> Articles], Reused(f),
           WorkMoves, UNCHANGED <<scan, pass, projection, misled>>,
           \A a \in D : /\ work[a].state = "pending" /\ Url[f[a]] = Url[a]
                        /\ work[f[a]].state = "done" /\ <<f[a], f[a]>> \in evidence,
           \A a \in Articles : work'[a].state = "done" => work[a].state = "done" \/ a \in D
    PROVE  /\ GraphInv' /\ CaptureInv' /\ ReadersInv'
           /\ links' \subseteq Work \X Work /\ views' \subseteq Scans \X Work
           /\ evidence' \subseteq Work \X Work
  <1>1. TypeOK /\ GraphInv /\ SettledStays
        /\ \A w \in Work : work[w].state # "absent" => work'[w].state # "absent"
    BY DEF JournalInv, WorkMoves
  <1>2. /\ GraphInv' /\ links' \subseteq Work \X Work /\ views' \subseteq Scans \X Work
        /\ \A u \in Scans, w \in Work : <<u, w>> \in views' =>
                <<u, w>> \in views \/ \E a \in D : <<u, a>> \in views
        /\ \A e \in links' : e \in links \/ (e[1] \in D /\ <<f[e[1]], e[2]>> \in links)
        /\ links \subseteq links'
        /\ \A a \in D : \A c \in Work : <<f[a], c>> \in links => <<a, c>> \in links'
    BY <1>1, GraphIsAdopted
  <1>3. CaptureInv' /\ evidence' \subseteq Work \X Work
    BY <1>1, <1>2, CapturesAreReused, SMTT(30) DEF JournalInv
  <1>4. \A u \in Scans, a \in D : <<u, a>> \in views => a \in Remaining(u)
    BY DEF Remaining, Open, Work
  <1>5. \A u \in Scans, w \in Work : <<u, w>> \in views' =>
            <<u, w>> \in views \/ Remaining(u) # {}
    BY <1>2, <1>4
  <1>6. ReadersInv'
    BY <1>1, <1>5, ReadersStay DEF JournalInv, GraphInv
  <1>7. QED
    BY <1>2, <1>3, <1>6

LEMMA ClaimNothingKeeps == ASSUME JournalInv, ClaimNothing PROVE JournalInv' /\ WorkMoves
  <1>1. PICK now \in Readings, kind \in Kinds : \E f \in Reuses(Candidates(kind, now)) :
          /\ work' = Swept(f, Worn(kind, now) \ DOMAIN f)
          /\ Reused(f)
          /\ UNCHANGED <<clock, cursor, course, holder, history>>
    BY DEF ClaimNothing
  <1>2. PICK f \in Reuses(Candidates(kind, now)) :
          /\ work' = Swept(f, Worn(kind, now) \ DOMAIN f)
          /\ Reused(f)
          /\ UNCHANGED <<clock, cursor, course, holder, history>>
    BY <1>1
  <1> DEFINE dropped == Worn(kind, now) \ DOMAIN f
             D == DOMAIN f
  <1>3. dropped \in SUBSET (Candidates(kind, now) \ DOMAIN f)
    BY DEF Worn
  <1> HIDE DEF dropped
  <1>4. /\ D \in SUBSET Articles /\ f \in [D -> Articles]
        /\ \A a \in D : /\ work[a].state = "pending" /\ Url[f[a]] = Url[a]
                        /\ work[f[a]].state = "done" /\ <<f[a], f[a]>> \in evidence
        /\ \A w \in dropped : work[w].state \in {"pending", "leased"}
        /\ work' \in [Work -> Row]
        /\ \A w \in Work : /\ w \in D => work'[w].state = "done"
                           /\ w \in dropped => work'[w].state = "failed"
                           /\ w \notin D \cup dropped => work'[w] = work[w]
                           /\ work'[w].attempts = work[w].attempts
    BY <1>2, <1>3, SweptRows DEF JournalInv, dropped
  <1> HIDE DEF D
  <1>5. /\ UNCHANGED <<clock, cursor, scan, pass, projection, misled,
                       allowance, cooldown, holder, pages, spent, demanded>>
        /\ Reused(f)
    BY <1>2 DEF course, telling, history
  <1>6. SettledStays /\ LeasesFade
    BY <1>4 DEF SettledStays, LeasesFade, Settled
  <1>7. WorkMoves
    <2>1. \A w \in Work : work[w].attempts \in Nat
      BY DEF JournalInv, TypeOK, Row
    <2>2. StartsInTime
      BY <1>4, <2>1 DEF StartsInTime
    <2>3. QED
      BY <1>4, <1>6, <2>2 DEF WorkMoves
  <1>8. \A a \in Articles : work'[a].state = "done" => work[a].state = "done" \/ a \in D
    BY <1>4 DEF Work
  <1>9. /\ GraphInv' /\ CaptureInv' /\ ReadersInv'
        /\ links' \subseteq Work \X Work /\ views' \subseteq Scans \X Work
        /\ evidence' \subseteq Work \X Work
    BY <1>4, <1>5, <1>7, <1>8, SweepingKeeps
  <1>10. TypeOK'
    BY <1>4, <1>5, <1>9 DEF JournalInv, TypeOK
  <1>11. OneRequestPerPublisher'
    <2>1. clock' \in Nat /\ clock <= clock'
      BY <1>5, JournalAssumption DEF JournalInv, TypeOK
    <2>2. QED
      BY <1>6, <2>1, RequestsStay DEF JournalInv
  <1>12. PagesInv'
    BY <1>5, <1>6, PagesStay DEF JournalInv
  <1>13. CooldownsHold' /\ WithinAllowance'
    BY <1>5 DEF JournalInv, CooldownsHold, WithinAllowance, Left, Limit
  <1>14. QED
    BY <1>7, <1>9, <1>10, <1>11, <1>12, <1>13 DEF JournalInv

LEMMA ClaimKeeps == ASSUME JournalInv, NEW h \in Holders, Claim(h) PROVE JournalInv' /\ WorkMoves
  <1>1. PICK now \in Readings, kind \in Kinds :
          \E f \in Reuses(Candidates(kind, now)) :
          \E dropped \in SUBSET (Worn(kind, now) \ DOMAIN f),
             w \in Candidates(kind, now) \ (Worn(kind, now) \cup DOMAIN f) :
              Takes(h, w, f, dropped, now)
    BY DEF Claim
  <1>2. PICK f \in Reuses(Candidates(kind, now)) :
          \E dropped \in SUBSET (Worn(kind, now) \ DOMAIN f),
             w \in Candidates(kind, now) \ (Worn(kind, now) \cup DOMAIN f) :
              Takes(h, w, f, dropped, now)
    BY <1>1
  <1>3. PICK dropped \in SUBSET (Worn(kind, now) \ DOMAIN f),
             w \in Candidates(kind, now) \ (Worn(kind, now) \cup DOMAIN f) :
              Takes(h, w, f, dropped, now)
    BY <1>2
  <1> DEFINE D == DOMAIN f
             swept == Swept(f, dropped)
             row == [work[w] EXCEPT !.state = "leased", !.token = h,
                                    !.until = At(now + Lease), !.attempts = work[w].attempts + 1]
             claim == [work |-> w, attempts |-> work[w].attempts + 1,
                       deferrals |-> work[w].deferrals,
                       cursor |-> IF w \in Searches THEN cursor[w] ELSE 0]
  <1>4. dropped \in SUBSET (Candidates(kind, now) \ DOMAIN f)
    BY <1>3 DEF Worn
  <1>5. /\ D \in SUBSET Articles /\ f \in [D -> Articles]
        /\ \A a \in D : /\ work[a].state = "pending" /\ Url[f[a]] = Url[a]
                        /\ work[f[a]].state = "done" /\ <<f[a], f[a]>> \in evidence
        /\ \A x \in dropped : work[x].state \in {"pending", "leased"}
        /\ swept \in [Work -> Row]
        /\ \A x \in Work : /\ x \in D => swept[x].state = "done"
                           /\ x \in dropped => swept[x].state = "failed"
                           /\ x \notin D \cup dropped => swept[x] = work[x]
                           /\ swept[x].attempts = work[x].attempts
    BY <1>4, SweptRows DEF JournalInv
  <1>6. /\ w \in Work /\ w \notin D \cup dropped /\ work[w].state \in {"pending", "leased"}
        /\ (w \in Searches => Left(Metadata) > 0)
    BY <1>3, <1>4 DEF Candidates, Kinds, Work
  <1>7. /\ Ready(w, now) /\ Left(Account(w)) > 0
    BY <1>3 DEF Takes, Claimable
  <1>8. now \in Nat /\ now <= clock /\ clock \in Nat
    BY ReadingsArePast, JournalAssumption DEF JournalInv
  <1>9. /\ work \in [Work -> Row] /\ \A x \in Work : work[x].attempts \in Nat /\ work[x].until \in Nat
    BY JournalAssumption DEF JournalInv, TypeOK, Row, Times
  <1>10. /\ row \in Row /\ row.state = "leased" /\ row.token = h
        /\ row.attempts = work[w].attempts + 1
    <2>1. At(now + Lease) \in Times /\ work[w] \in Row /\ work[w].attempts + 1 \in Nat
      BY <1>6, <1>8, <1>9, JournalAssumption, TimesAreKept
    <2> DEFINE until == At(now + Lease)
               n == work[w].attempts + 1
    <2>2. row = [work[w] EXCEPT !.state = "leased", !.token = h, !.until = until, !.attempts = n]
      OBVIOUS
    <2>3. until \in Times /\ n \in Nat
      BY <2>1
    <2> HIDE DEF row, until, n
    <2>4. row \in Row /\ row.state = "leased" /\ row.token = h /\ row.attempts = n
      BY <2>1, <2>2, <2>3 DEF Row, Open
    <2>5. QED
      BY <2>4 DEF n
  <1>11. work' = [swept EXCEPT ![w] = row] /\ holder' = [holder EXCEPT ![h] = claim]
    <2>1. swept[w] = work[w]
      BY <1>5, <1>6
    <2>2. /\ work' = [swept EXCEPT ![w] =
                         [swept[w] EXCEPT !.state = "leased", !.token = h,
                              !.until = At(now + Lease), !.attempts = work[w].attempts + 1]]
          /\ holder' = [holder EXCEPT ![h] = claim]
      BY <1>3, <2>1 DEF Takes
    <2> HIDE DEF swept
    <2>3. QED
      BY <2>1, <2>2
  <1> HIDE DEF D, swept, row
  <1>12. /\ work' \in [Work -> Row] /\ work'[w] = row
         /\ \A x \in Work : x # w =>
                /\ x \in D => work'[x].state = "done"
                /\ x \in dropped => work'[x].state = "failed"
                /\ x \notin D \cup dropped => work'[x] = work[x]
                /\ work'[x].attempts = work[x].attempts
    BY <1>5, <1>6, <1>10, <1>11
  <1>13. /\ UNCHANGED <<clock, cursor, scan, pass, projection, misled, cooldown, pages, demanded>>
         /\ Reused(f) /\ Paid(w) /\ holder[h] = Idle
    BY <1>3 DEF Takes, telling
  <1>14. WorkMoves
    <2>1. SettledStays
      BY <1>5, <1>6, <1>12 DEF SettledStays, Settled
    <2>2. StartsInTime
      <3>1. demanded[Scope(w)] <= clock
        <4>1. cooldown[Scope(w)] <= now
          BY <1>7 DEF Ready
        <4>2. /\ Scope(w) \in Indexes \cup Hosts /\ demanded[Scope(w)] \in Nat
              /\ cooldown[Scope(w)] \in Nat
          BY <1>6, AllowancesAreNumbers, JournalAssumption DEF JournalInv, TypeOK, Times
        <4>3. demanded[Scope(w)] <= cooldown[Scope(w)]
          BY <4>2 DEF JournalInv, CooldownsHold
        <4>4. QED
          BY <1>8, <4>1, <4>2, <4>3
      <3>2. QED
        BY <1>9, <1>12, <3>1 DEF StartsInTime
    <2>3. \A x \in Work : work[x].state # "absent" => work'[x].state # "absent"
      BY <1>10, <1>12
    <2>4. QED
      BY <1>12, <2>1, <2>2, <2>3 DEF WorkMoves
  <1>15. \A a \in Articles : work'[a].state = "done" => work[a].state = "done" \/ a \in D
    BY <1>10, <1>12 DEF Work
  <1>16. /\ GraphInv' /\ CaptureInv' /\ ReadersInv'
         /\ links' \subseteq Work \X Work /\ views' \subseteq Scans \X Work
         /\ evidence' \subseteq Work \X Work
    BY <1>5, <1>13, <1>14, <1>15, SweepingKeeps
  <1>17. /\ DOMAIN allowance' \subseteq Accounts
         /\ \A k \in DOMAIN allowance' : allowance'[k] \in Nat
         /\ spent' \in [Accounts -> Nat] /\ WithinAllowance'
    BY <1>6, <1>7, <1>13, PaidIsWithin DEF JournalInv
  <1>18. claim \in Claims /\ claim.work = w /\ claim.cursor = IF w \in Searches THEN cursor[w] ELSE 0
    BY <1>6, <1>9 DEF JournalInv, TypeOK, Row, Claims
  <1> HIDE DEF claim
  <1>19. /\ holder' \in [Holders -> Claims \cup {Idle}] /\ holder'[h] = claim
         /\ \A g \in Holders : g # h => holder'[g] = holder[g]
    BY <1>11, <1>18 DEF JournalInv, TypeOK
  <1>20. TypeOK'
    BY <1>12, <1>13, <1>16, <1>17, <1>19 DEF JournalInv, TypeOK
  <1>21. OneRequestPerPublisher'
    <2>1. \A a \in Articles : a \in Work
      BY DEF Work
    <2>2. \A a \in Articles : (a # w /\ work'[a].state = "leased") => work'[a] = work[a]
      BY <1>12, <2>1
    <2>3. ASSUME NEW a \in Articles, w \in Articles, Host[a] = Host[w], a # w,
                 work'[a].state = "leased", work'[a].until > clock'
          PROVE  FALSE
      <3>1. work[a].state = "leased" /\ work[a].until > clock
        BY <1>13, <2>2, <2>3
      <3>2. work[a].until <= now
        BY <1>7, <2>3, <3>1 DEF Ready
      <3>3. QED
        BY <1>8, <1>9, <2>1, <3>1, <3>2
    <2>4. QED
      BY <1>13, <2>2, <2>3 DEF JournalInv, OneRequestPerPublisher
  <1>22. PagesInv'
    <2>1. PagesFollowCursors'
      BY <1>13 DEF JournalInv, PagesInv, PagesFollowCursors
    <2>2. \A s \in Searches : CursorFits(s)'
      <3>1. \A s \in Searches :
              s \in Work /\ (work'[s].state \notin Settled => work[s].state \notin Settled)
        BY <1>14 DEF Work, WorkMoves, SettledStays
      <3>2. QED
        BY <1>13, <3>1 DEF JournalInv, PagesInv, CursorFits
    <2>3. ClaimFits(h)'
      BY <1>13, <1>18, <1>19 DEF ClaimFits
    <2>4. ASSUME NEW g \in Holders, g # h PROVE ClaimFits(g)'
      <3> SUFFICES ASSUME holder[g] # Idle, holder[g].work \in Searches,
                          work'[holder[g].work].state = "leased",
                          work'[holder[g].work].token = g
                   PROVE  holder[g].cursor = cursor[holder[g].work]
        BY <1>13, <1>19, <2>4 DEF ClaimFits
      <3>1. holder[g].work \in Work /\ holder[g].work # w
        BY <1>10, <1>12, <2>4 DEF Work
      <3>2. work'[holder[g].work] = work[holder[g].work]
        BY <1>12, <3>1
      <3>3. QED
        BY <3>2 DEF JournalInv, PagesInv, ClaimFits
    <2>5. QED
      BY <2>1, <2>2, <2>3, <2>4 DEF PagesInv
  <1>23. CooldownsHold'
    BY <1>13 DEF JournalInv, CooldownsHold
  <1>24. QED
    BY <1>14, <1>16, <1>17, <1>20, <1>21, <1>22, <1>23 DEF JournalInv

-----------------------------------------------------------------------------
(* Reports *)

\* Who owns a work holds the lease of its row.
LEMMA OwnedRow ==
    ASSUME TypeOK, NEW h \in Holders, NEW now, Owns(h, now)
    PROVE  /\ holder[h] \in Claims /\ holder[h].work \in Work /\ holder[h].cursor \in Nat
           /\ work[holder[h].work] \in Row /\ work[holder[h].work].state = "leased"
           /\ work[holder[h].work].token = h
  <1>1. holder[h] \in Claims
    BY DEF TypeOK, Owns
  <1>2. QED
    BY <1>1 DEF TypeOK, Owns, Claims

\* The row of a claim that failed.
LEMMA FailedRowIsReleased ==
    ASSUME TypeOK, NEW c \in Claims, NEW outcome, NEW retry \in Times
    PROVE  /\ FailedRow(c, outcome, retry) \in Row
           /\ FailedRow(c, outcome, retry).state \in {"capacity", "pending", "refused", "failed"}
           /\ FailedRow(c, outcome, retry).attempts = work[c.work].attempts
  <1> DEFINE again == retry > 0 /\ (outcome = "policy_deferred" \/ Tries(c) < AttemptLimit)
             state == CASE outcome = "capacity_exhausted" -> "capacity"
                        [] again -> "pending"
                        [] outcome = "access_refused" /\ ~again -> "refused"
                        [] OTHER -> "failed"
             row == work[c.work]
             deferrals == IF outcome = "policy_deferred" THEN row.deferrals + 1 ELSE row.deferrals
  <1>1. row \in Row /\ deferrals \in Nat
    BY DEF TypeOK, Claims, Row
  <1>2. state \in {"capacity", "pending", "refused", "failed"}
    <2> HIDE DEF again
    <2>1. CASE outcome = "capacity_exhausted" /\ again
      BY <2>1
    <2>2. CASE outcome = "capacity_exhausted" /\ ~again
      BY <2>2
    <2>3. CASE outcome # "capacity_exhausted"
      BY <2>3
    <2>4. QED
      BY <2>1, <2>2, <2>3
  <1>3. FailedRow(c, outcome, retry) = [row EXCEPT !.state = state, !.due = retry,
                    !.token = NoHolder, !.until = 0, !.deferrals = deferrals]
    BY DEF FailedRow
  <1> HIDE DEF state, row, deferrals
  <1>4. /\ FailedRow(c, outcome, retry) \in Row /\ FailedRow(c, outcome, retry).state = state
        /\ FailedRow(c, outcome, retry).attempts = row.attempts
    BY <1>1, <1>2, <1>3, TimesAreKept DEF Row, Open, Settled
  <1>5. QED
    BY <1>2, <1>4 DEF row

\* A report settles or releases the work it is about, and may add new works.
LEMMA ReportedRows ==
    ASSUME JournalInv, NEW w \in Work, work[w].state = "leased",
           work' \in [Work -> Row], work'[w].state \notin {"leased", "absent"},
           work'[w].attempts = 0 \/ work'[w].attempts = work[w].attempts,
           \A x \in Work : x # w =>
                \/ work'[x] = work[x]
                \/ /\ work[x].state = "absent"
                   /\ work'[x].state = "pending" /\ work'[x].attempts = 0
    PROVE  WorkMoves /\ LeasesFade
  <1>1. \A x \in Work : work[x].attempts \in Nat
    BY DEF JournalInv, TypeOK, Row
  <1>2. SettledStays /\ LeasesFade
    BY DEF SettledStays, LeasesFade, Settled
  <1>3. StartsInTime
    BY <1>1 DEF StartsInTime
  <1>4. QED
    BY <1>2, <1>3 DEF WorkMoves

\* A report ends a claim; only those who see its work see more.
LEMMA ReportKeeps ==
    ASSUME JournalInv, NEW h \in Holders, NEW w \in Work, work[w].state = "leased",
           WorkMoves, LeasesFade,
           UNCHANGED <<clock, scan, pass, projection, misled>>, holder' = [holder EXCEPT ![h] = Idle],
           \A u \in Scans, x \in Work :
                <<u, x>> \in views' => <<u, x>> \in views \/ <<u, w>> \in views
    PROVE  /\ ReadersInv' /\ OneRequestPerPublisher'
           /\ holder' \in [Holders -> Claims \cup {Idle}] /\ holder'[h] = Idle
           /\ \A g \in Holders : g # h => holder'[g] = holder[g]
  <1>1. \A u \in Scans : <<u, w>> \in views => w \in Remaining(u)
    BY DEF Remaining, Open
  <1>2. ReadersInv'
    BY <1>1, ReadersStay DEF JournalInv, GraphInv, WorkMoves
  <1>3. OneRequestPerPublisher'
    <2>1. clock' \in Nat /\ clock <= clock'
      BY JournalAssumption DEF JournalInv, TypeOK
    <2>2. QED
      BY <2>1, RequestsStay DEF JournalInv
  <1>4. holder \in [Holders -> Claims \cup {Idle}]
    BY DEF JournalInv, TypeOK
  <1>5. QED
    BY <1>2, <1>3, <1>4

LEMMA CapacityReachedKeeps ==
    ASSUME JournalInv, NEW h \in Holders, NEW now, Owns(h, now), CapacityReached(h)
    PROVE  JournalInv' /\ WorkMoves
  <1> DEFINE c == holder[h]
             w == c.work
             row == FailedRow(c, "capacity_exhausted", 0)
  <1>1. c \in Claims /\ w \in Work /\ work[w].state = "leased"
    BY OwnedRow DEF JournalInv
  <1>2. /\ work' = [work EXCEPT ![w] = row] /\ allowance' = Closed(w)
        /\ holder' = [holder EXCEPT ![h] = Idle]
        /\ UNCHANGED <<clock, cursor, links, views, evidence, scan, pass, projection, misled, cooldown,
                       pages, spent, demanded>>
    BY DEF CapacityReached, telling, history
  <1>3. /\ row \in Row /\ row.state \in {"capacity", "pending", "refused", "failed"}
        /\ row.attempts = work[w].attempts
    BY <1>1, TimesAreKept, FailedRowIsReleased DEF JournalInv
  <1> HIDE DEF c, w, row
  <1>4. /\ work' \in [Work -> Row] /\ work'[w] = row
        /\ \A x \in Work : x # w => work'[x] = work[x]
    BY <1>1, <1>2, <1>3 DEF JournalInv, TypeOK
  <1>5. WorkMoves /\ LeasesFade
    BY <1>1, <1>3, <1>4, ReportedRows
  <1>6. GraphInv'
    BY <1>2, <1>5, GraphStays DEF JournalInv, WorkMoves
  <1>7. CaptureInv'
    <2>1. \A a \in Articles : work'[a].state = "done" => work[a].state = "done"
      BY <1>3, <1>4 DEF Work
    <2>2. QED
      BY <1>2, <1>5, <2>1, CapturesStay DEF JournalInv, TypeOK, WorkMoves
  <1>8. /\ ReadersInv' /\ OneRequestPerPublisher'
        /\ holder' \in [Holders -> Claims \cup {Idle}] /\ holder'[h] = Idle
        /\ \A g \in Holders : g # h => holder'[g] = holder[g]
    BY <1>1, <1>2, <1>5, ReportKeeps
  <1>9. PagesInv'
    BY <1>2, <1>5, <1>8, PagesStay DEF JournalInv, WorkMoves
  <1>10. /\ DOMAIN allowance' \subseteq Accounts
         /\ \A k \in DOMAIN allowance' : allowance'[k] \in Nat
         /\ WithinAllowance'
    <2>1. /\ DOMAIN allowance \subseteq Accounts
          /\ \A k \in DOMAIN allowance : allowance[k] \in Nat
          /\ spent \in [Accounts -> Nat]
      BY DEF JournalInv, TypeOK
    <2>2. /\ DOMAIN allowance' = DOMAIN allowance
          /\ \A k \in DOMAIN allowance : allowance'[k] \in {0, allowance[k]}
      BY <1>2 DEF Closed
    <2>3. \A k \in Accounts : Left(k) \in Nat /\ Limit(k) \in Nat /\ Limit(k)' = Limit(k)
      BY AllowancesAreNumbers DEF JournalInv, Limit
    <2>4. \A k \in Accounts : Left(k)' \in {0, Left(k)}
      BY <2>2, <2>3 DEF Left
    <2>5. WithinAllowance'
      BY <1>2, <2>1, <2>3, <2>4 DEF JournalInv, WithinAllowance
    <2>6. QED
      BY <2>1, <2>2, <2>5
  <1>11. TypeOK'
    BY <1>2, <1>4, <1>8, <1>10 DEF JournalInv, TypeOK
  <1>12. CooldownsHold'
    BY <1>2 DEF JournalInv, CooldownsHold
  <1>13. QED
    BY <1>5, <1>6, <1>7, <1>8, <1>9, <1>10, <1>11, <1>12 DEF JournalInv

\* A page is recorded: its search goes on or is over, what it found is added.
LEMMA KeepPageKeeps ==
    ASSUME JournalInv, NEW h \in Holders, NEW now, Owns(h, now), NEW s \in Searches,
           s = holder[h].work, NEW keys \in SUBSET Work, NEW captured,
           NEW more \in BOOLEAN, NEW saturated \in BOOLEAN,
           KeepPage(h, s, keys, captured, more, saturated)
    PROVE  JournalInv' /\ WorkMoves
  <1> DEFINE fetched == holder[h].cursor
             rows == Enqueue(work, keys)
             state == IF more THEN "pending" ELSE IF saturated THEN "saturated" ELSE "done"
             row == [work[s] EXCEPT !.state = state, !.token = NoHolder, !.until = 0,
                                    !.attempts = 0]
             page == IF more THEN fetched + 1 ELSE 0
  <1>1. /\ s \in Work /\ work[s].state = "leased" /\ work[s].token = h
        /\ fetched \in Nat /\ holder[h] # Idle
    BY OwnedRow DEF JournalInv, Owns
  <1>2. /\ work \in [Work -> Row] /\ work[s] \in Row
        /\ cursor \in [Searches -> Nat] /\ pages \in [Searches -> Seq(Nat)]
    BY <1>1 DEF JournalInv, TypeOK
  <1>3. /\ rows \in [Work -> Row] /\ rows[s] = work[s]
        /\ \A w \in Work :
              /\ w \in keys => rows[w].state # "absent"
              /\ \/ rows[w] = work[w]
                 \/ /\ work[w].state = "absent"
                    /\ rows[w].state = "pending" /\ rows[w].attempts = 0
    BY <1>1, <1>2, EnqueueAddsRows
  <1>4. state \in {"pending", "saturated", "done"} /\ page \in Nat
    BY <1>1
  <1>5. row \in Row /\ row.state = state /\ row.attempts = 0
    <2> HIDE DEF state
    <2>1. QED
      BY <1>2, <1>4, TimesAreKept DEF Row, Open, Settled
  <1>6. /\ links' = links \cup ({s} \X keys) /\ views' = SeenWith(links', s, keys)
        /\ evidence' = IF captured = 1 THEN evidence \cup {<<s, s>>} ELSE evidence
        /\ cursor' = [cursor EXCEPT ![s] = page]
        /\ pages' = [pages EXCEPT ![s] = Append(pages[s], fetched)]
        /\ holder' = [holder EXCEPT ![h] = Idle]
        /\ UNCHANGED <<clock, scan, pass, projection, misled, allowance, cooldown, spent, demanded>>
    BY DEF KeepPage, Linked, course, telling
  <1>7. work' = [rows EXCEPT ![s] = row]
    <2>1. work' = [rows EXCEPT ![s] = [rows[s] EXCEPT !.state = state, !.token = NoHolder,
                                                      !.until = 0, !.attempts = 0]]
      BY DEF KeepPage
    <2> HIDE DEF rows, state
    <2>2. QED
      BY <1>3, <2>1
  <1> HIDE DEF fetched, rows, state, row, page
  <1>8. /\ work' \in [Work -> Row] /\ work'[s] = row
        /\ \A w \in Work : w # s =>
              \/ work'[w] = work[w]
              \/ /\ work[w].state = "absent"
                 /\ work'[w].state = "pending" /\ work'[w].attempts = 0
        /\ \A w \in keys : work'[w].state # "absent"
    BY <1>1, <1>3, <1>4, <1>5, <1>7
  <1>9. WorkMoves /\ LeasesFade
    BY <1>1, <1>4, <1>5, <1>8, ReportedRows
  <1>10. /\ GraphInv' /\ links' \subseteq Work \X Work /\ views' \subseteq Scans \X Work
         /\ \A u \in Scans, w \in Work :
              <<u, w>> \in views' => <<u, w>> \in views \/ <<u, s>> \in views
    BY <1>1, <1>6, <1>8, <1>9, GraphGrows DEF JournalInv, WorkMoves
  <1>11. /\ ReadersInv' /\ OneRequestPerPublisher'
         /\ holder' \in [Holders -> Claims \cup {Idle}] /\ holder'[h] = Idle
         /\ \A g \in Holders : g # h => holder'[g] = holder[g]
    BY <1>1, <1>6, <1>9, <1>10, ReportKeeps
  <1>12. s \notin Articles
    BY JournalAssumption
  <1>13. CaptureInv' /\ evidence' \subseteq Work \X Work
    <2>1. evidence \subseteq evidence' /\ evidence' \subseteq evidence \cup {<<s, s>>}
      BY <1>6
    <2>2. \A b \in Articles : <<b, b>> \in evidence' => <<b, b>> \in evidence
      BY <1>12, <2>1
    <2>3. \A a \in Articles : work'[a].state = "done" => work[a].state = "done"
      BY <1>8, <1>12 DEF Work
    <2>4. \A e \in links' : e \in links \/ work[e[1]].state # "done"
      BY <1>1, <1>6
    <2>5. links \subseteq links'
      BY <1>6
    <2>6. CaptureInv'
      BY <1>9, <1>10, <2>1, <2>2, <2>3, <2>4, <2>5, CapturesStay DEF JournalInv, WorkMoves
    <2>7. evidence' \subseteq Work \X Work
      BY <1>1, <2>1 DEF JournalInv, TypeOK
    <2>8. QED
      BY <2>6, <2>7
  <1>14. /\ cursor' \in [Searches -> Nat] /\ pages' \in [Searches -> Seq(Nat)]
         /\ cursor'[s] = page /\ pages'[s] = Append(pages[s], fetched)
         /\ \A x \in Searches : x # s => cursor'[x] = cursor[x] /\ pages'[x] = pages[x]
    <2>1. Append(pages[s], fetched) \in Seq(Nat)
      BY <1>1, <1>2 DEF fetched
    <2>2. QED
      BY <1>2, <1>4, <1>6, <2>1
  <1>15. fetched = Len(pages[s])
    <2>1. fetched = cursor[s]
      BY <1>1 DEF JournalInv, PagesInv, ClaimFits, fetched
    <2>2. cursor[s] = Len(pages[s])
      BY <1>1 DEF JournalInv, PagesInv, CursorFits, Settled
    <2>3. QED
      BY <2>1, <2>2
  <1>16. /\ pages[s] \in Seq(Nat) /\ fetched \in Nat
         /\ Len(pages'[s]) = Len(pages[s]) + 1
         /\ \A i \in 1 .. Len(pages[s]) + 1 :
                pages'[s][i] = IF i = Len(pages[s]) + 1 THEN fetched ELSE pages[s][i]
    <2>1. pages[s] \in Seq(Nat) /\ fetched \in Nat
      BY <1>1, <1>2 DEF fetched
    <2>2. QED
      BY <1>14, <2>1
  <1>17. PagesInv'
    <2>1. PagesFollowCursors'
      <3> SUFFICES ASSUME NEW x \in Searches, NEW i \in 1 .. Len(pages'[x])
                   PROVE  pages'[x][i] = i - 1
        BY DEF PagesFollowCursors
      <3>1. \A j \in 1 .. Len(pages[x]) : pages[x][j] = j - 1
        BY DEF JournalInv, PagesInv, PagesFollowCursors
      <3>2. CASE x = s
        <4>1. Len(pages[s]) \in Nat /\ i \in 1 .. Len(pages[s]) + 1
          BY <1>16, <3>2
        <4>2. CASE i = Len(pages[s]) + 1
          BY <1>15, <1>16, <3>2, <4>1, <4>2
        <4>3. CASE i # Len(pages[s]) + 1
          <5>1. i \in 1 .. Len(pages[s])
            BY <4>1, <4>3
          <5>2. QED
            BY <1>16, <3>1, <3>2, <4>1, <4>3, <5>1
        <4>4. QED
          BY <4>2, <4>3
      <3>3. CASE x # s
        BY <1>14, <3>1, <3>3
      <3>4. QED
        BY <3>2, <3>3
    <2>2. \A x \in Searches : CursorFits(x)'
      <3> SUFFICES ASSUME NEW x \in Searches, work'[x].state \notin Settled
                   PROVE  cursor'[x] = Len(pages'[x])
        BY DEF CursorFits
      <3>1. CASE x = s
        <4>1. state = "pending"
          BY <1>4, <1>5, <1>8, <3>1 DEF Settled
        <4>2. page = fetched + 1
          BY <4>1 DEF state, page
        <4>3. QED
          BY <1>14, <1>15, <1>16, <3>1, <4>2
      <3>2. CASE x # s
        <4>1. work[x].state \notin Settled
          BY <1>9 DEF WorkMoves, SettledStays, Work
        <4>2. QED
          BY <1>14, <3>2, <4>1 DEF JournalInv, PagesInv, CursorFits
      <3>3. QED
        BY <3>1, <3>2
    <2>3. \A g \in Holders : ClaimFits(g)'
      <3> SUFFICES ASSUME NEW g \in Holders, holder'[g] # Idle, holder'[g].work \in Searches,
                          work'[holder'[g].work].state = "leased",
                          work'[holder'[g].work].token = g
                   PROVE  holder'[g].cursor = cursor'[holder'[g].work]
        BY DEF ClaimFits
      <3>1. holder'[g] = holder[g] /\ holder[g].work \in Work
        BY <1>11 DEF Work
      <3>2. holder[g].work # s
        BY <1>4, <1>5, <1>8, <3>1
      <3>3. work[holder[g].work].state = "leased" /\ work[holder[g].work].token = g
        BY <1>9, <3>1 DEF LeasesFade
      <3>4. QED
        BY <1>14, <3>1, <3>2, <3>3, SMTT(30) DEF JournalInv, PagesInv, ClaimFits
    <2>4. QED
      BY <2>1, <2>2, <2>3 DEF PagesInv
  <1>18. TypeOK'
    BY <1>6, <1>8, <1>10, <1>11, <1>13, <1>14 DEF JournalInv, TypeOK
  <1>19. CooldownsHold' /\ WithinAllowance'
    BY <1>6 DEF JournalInv, CooldownsHold, WithinAllowance, Left, Limit
  <1>20. QED
    BY <1>9, <1>10, <1>11, <1>13, <1>17, <1>18, <1>19 DEF JournalInv

LEMMA CommitPageKeeps ==
    ASSUME JournalInv, NEW h \in Holders, CommitPage(h) PROVE JournalInv' /\ WorkMoves
  <1>1. PICK now \in Readings : Owns(h, now)
    BY DEF CommitPage
  <1>2. holder[h].work \in Searches
    BY DEF CommitPage
  <1>3. CASE CapacityReached(h)
    BY <1>1, <1>3, CapacityReachedKeeps
  <1>4. CASE ~CapacityReached(h)
    <2> DEFINE s == holder[h].work
    <2>1. PICK found \in LeadSets(s), kids \in SUBSET Offspring[s],
               captured \in 0 .. 1, more \in BOOLEAN, saturated \in BOOLEAN :
             KeepPage(h, s, found \cup kids, captured, more, saturated)
      BY <1>4 DEF CommitPage
    <2>2. found \cup kids \in SUBSET Work
      BY <1>2, JournalAssumption DEF LeadSets, Work
    <2>3. QED
      BY <1>1, <1>2, <2>1, <2>2, KeepPageKeeps
  <1>5. QED
    BY <1>3, <1>4

\* An article is recorded: it is done, has its capture, and what was planned for it.
LEMMA KeepArticleKeeps ==
    ASSUME JournalInv, NEW h \in Holders, NEW now, Owns(h, now), NEW a \in Articles,
           a = holder[h].work, NEW alternates \in SUBSET Work, KeepArticle(h, a, alternates)
    PROVE  JournalInv' /\ WorkMoves
  <1> DEFINE rows == Enqueue(work, alternates)
             row == [work[a] EXCEPT !.state = "done", !.token = NoHolder, !.until = 0]
  <1>1. a \in Work /\ work[a].state = "leased"
    BY OwnedRow DEF JournalInv
  <1>2. work \in [Work -> Row] /\ work[a] \in Row
    BY <1>1 DEF JournalInv, TypeOK
  <1>3. /\ rows \in [Work -> Row] /\ rows[a] = work[a]
        /\ \A w \in Work :
              /\ w \in alternates => rows[w].state # "absent"
              /\ \/ rows[w] = work[w]
                 \/ /\ work[w].state = "absent"
                    /\ rows[w].state = "pending" /\ rows[w].attempts = 0
    BY <1>1, <1>2, EnqueueAddsRows
  <1>4. row \in Row /\ row.state = "done" /\ row.attempts = work[a].attempts
    BY <1>2, TimesAreKept DEF Row, Open, Settled
  <1>5. /\ links' = links \cup ({a} \X alternates)
        /\ views' = SeenWith(links', a, alternates)
        /\ evidence' = evidence \cup {<<a, a>>}
        /\ holder' = [holder EXCEPT ![h] = Idle]
        /\ UNCHANGED <<clock, cursor, scan, pass, projection, misled,
                       allowance, cooldown, pages, spent, demanded>>
    BY DEF KeepArticle, Linked, course, telling, history
  <1>6. work' = [rows EXCEPT ![a] = row]
    <2>1. work' = [rows EXCEPT ![a] = [rows[a] EXCEPT !.state = "done", !.token = NoHolder,
                                                      !.until = 0]]
      BY DEF KeepArticle
    <2> HIDE DEF rows
    <2>2. QED
      BY <1>3, <2>1
  <1> HIDE DEF rows, row
  <1>7. /\ work' \in [Work -> Row] /\ work'[a] = row
        /\ \A w \in Work : w # a =>
              \/ work'[w] = work[w]
              \/ /\ work[w].state = "absent"
                 /\ work'[w].state = "pending" /\ work'[w].attempts = 0
        /\ \A w \in alternates : work'[w].state # "absent"
    BY <1>1, <1>3, <1>4, <1>6
  <1>8. WorkMoves /\ LeasesFade
    BY <1>1, <1>4, <1>7, ReportedRows
  <1>9. /\ GraphInv' /\ links' \subseteq Work \X Work /\ views' \subseteq Scans \X Work
        /\ \A u \in Scans, w \in Work :
             <<u, w>> \in views' => <<u, w>> \in views \/ <<u, a>> \in views
    BY <1>1, <1>5, <1>7, <1>8, GraphGrows DEF JournalInv, WorkMoves
  <1>10. /\ ReadersInv' /\ OneRequestPerPublisher'
         /\ holder' \in [Holders -> Claims \cup {Idle}] /\ holder'[h] = Idle
         /\ \A g \in Holders : g # h => holder'[g] = holder[g]
    BY <1>1, <1>5, <1>8, <1>9, ReportKeeps
  <1>11. CaptureInv' /\ evidence' \subseteq Work \X Work
    <2>1. evidence \subseteq evidence' /\ <<a, a>> \in evidence'
      BY <1>5
    <2>2. \A b \in Articles : <<b, b>> \in evidence' => <<b, b>> \in evidence \/ work'[b].state = "done"
      BY <1>4, <1>5, <1>7
    <2>3. \A b \in Articles : work'[b].state = "done" =>
              work[b].state = "done" \/ <<b, b>> \in evidence'
      BY <1>7, <2>1 DEF Work
    <2>4. \A e \in links' : e \in links \/ work[e[1]].state # "done"
      BY <1>1, <1>5
    <2>5. links \subseteq links'
      BY <1>5
    <2>6. CaptureInv'
      BY <1>8, <1>9, <2>1, <2>2, <2>3, <2>4, <2>5, CapturesStay DEF JournalInv, WorkMoves
    <2>7. evidence' \subseteq Work \X Work
      BY <1>1, <1>5 DEF JournalInv, TypeOK
    <2>8. QED
      BY <2>6, <2>7
  <1>12. PagesInv'
    BY <1>5, <1>8, <1>10, PagesStay DEF JournalInv, WorkMoves
  <1>13. TypeOK'
    BY <1>5, <1>7, <1>9, <1>10, <1>11 DEF JournalInv, TypeOK
  <1>14. CooldownsHold' /\ WithinAllowance'
    BY <1>5 DEF JournalInv, CooldownsHold, WithinAllowance, Left, Limit
  <1>15. QED
    BY <1>8, <1>9, <1>10, <1>11, <1>12, <1>13, <1>14 DEF JournalInv

LEMMA CommitArticleKeeps ==
    ASSUME JournalInv, NEW h \in Holders, CommitArticle(h) PROVE JournalInv' /\ WorkMoves
  <1>1. PICK now \in Readings : Owns(h, now)
    BY DEF CommitArticle
  <1>2. holder[h].work \in Articles
    BY DEF CommitArticle
  <1>3. CASE CapacityReached(h)
    BY <1>1, <1>3, CapacityReachedKeeps
  <1>4. CASE ~CapacityReached(h)
    <2>1. PICK alternates \in SUBSET Followups[holder[h].work] :
             KeepArticle(h, holder[h].work, alternates)
      BY <1>4 DEF CommitArticle
    <2>2. alternates \in SUBSET Work
      BY <1>2, JournalAssumption DEF Work
    <2>3. QED
      BY <1>1, <1>2, <2>1, <2>2, KeepArticleKeeps
  <1>5. QED
    BY <1>3, <1>4

\* A request failed: its work waits or is over, and its index or publisher is left
\* alone until then.
LEMMA FailedKeeps ==
    ASSUME JournalInv, NEW h \in Holders, NEW now, Owns(h, now), NEW outcome,
           NEW retry \in Times, NEW alternates \in SUBSET Work,
           Failed(h, holder[h], outcome, retry, alternates)
    PROVE  JournalInv' /\ WorkMoves
  <1> DEFINE c == holder[h]
             w == c.work
             row == FailedRow(c, outcome, retry)
             rows == [work EXCEPT ![w] = row]
             scope == Scope(w)
  <1>1. c \in Claims /\ w \in Work /\ work[w].state = "leased"
    BY OwnedRow DEF JournalInv
  <1>2. /\ row \in Row /\ row.state \in {"capacity", "pending", "refused", "failed"}
        /\ row.attempts = work[w].attempts
    BY <1>1, FailedRowIsReleased DEF JournalInv
  <1>3. /\ work' = Enqueue(rows, alternates)
        /\ links' = links \cup ({w} \X alternates)
        /\ views' = SeenWith(links', w, alternates)
        /\ cooldown' = [cooldown EXCEPT ![scope] = Later(cooldown[scope], retry)]
        /\ demanded' = [demanded EXCEPT ![scope] = Later(demanded[scope], retry)]
        /\ holder' = [holder EXCEPT ![h] = Idle]
        /\ UNCHANGED <<clock, cursor, evidence, scan, pass, projection, misled, allowance, pages,
                       spent>>
    BY DEF Failed, Linked, telling
  <1>4. scope \in Indexes \cup Hosts
    BY <1>1, AllowancesAreNumbers DEF JournalInv
  <1> HIDE DEF c, w, row, scope
  <1>5. /\ rows \in [Work -> Row] /\ rows[w] = row
        /\ \A x \in Work : x # w => rows[x] = work[x]
    BY <1>1, <1>2 DEF JournalInv, TypeOK
  <1> HIDE DEF rows
  <1>6. /\ work' \in [Work -> Row] /\ work'[w] = row
        /\ \A x \in Work : x # w =>
              \/ work'[x] = work[x]
              \/ /\ work[x].state = "absent"
                 /\ work'[x].state = "pending" /\ work'[x].attempts = 0
        /\ \A x \in alternates : work'[x].state # "absent"
    BY <1>1, <1>2, <1>3, <1>5, EnqueueAddsRows
  <1>7. WorkMoves /\ LeasesFade
    BY <1>1, <1>2, <1>6, ReportedRows
  <1>8. /\ GraphInv' /\ links' \subseteq Work \X Work /\ views' \subseteq Scans \X Work
        /\ \A u \in Scans, x \in Work :
             <<u, x>> \in views' => <<u, x>> \in views \/ <<u, w>> \in views
    BY <1>1, <1>3, <1>6, <1>7, GraphGrows DEF JournalInv, WorkMoves
  <1>9. /\ ReadersInv' /\ OneRequestPerPublisher'
        /\ holder' \in [Holders -> Claims \cup {Idle}] /\ holder'[h] = Idle
        /\ \A g \in Holders : g # h => holder'[g] = holder[g]
    BY <1>1, <1>3, <1>7, <1>8, ReportKeeps
  <1>10. CaptureInv'
    <2>1. \A a \in Articles : work'[a].state = "done" => work[a].state = "done"
      BY <1>2, <1>6 DEF Work
    <2>2. \A e \in links' : e \in links \/ work[e[1]].state # "done"
      BY <1>1, <1>3
    <2>3. links \subseteq links'
      BY <1>3
    <2>4. QED
      BY <1>3, <1>7, <1>8, <2>1, <2>2, <2>3, CapturesStay DEF JournalInv, WorkMoves
  <1>11. PagesInv'
    BY <1>3, <1>7, <1>9, PagesStay DEF JournalInv, WorkMoves
  <1>12. /\ cooldown' \in [Indexes \cup Hosts -> Times]
         /\ demanded' \in [Indexes \cup Hosts -> Times] /\ CooldownsHold'
    <2>1. /\ cooldown \in [Indexes \cup Hosts -> Times]
          /\ demanded \in [Indexes \cup Hosts -> Times]
          /\ \A i \in Indexes \cup Hosts : demanded[i] <= cooldown[i]
      BY DEF JournalInv, TypeOK, CooldownsHold
    <2>2. \A t \in Times : Later(t, retry) \in Times
      BY TimesAreKept
    <2>3. \A t, u \in Times : t <= u => Later(t, retry) <= Later(u, retry)
      BY JournalAssumption DEF Later, Times
    <2>4. /\ cooldown' \in [Indexes \cup Hosts -> Times]
          /\ demanded' \in [Indexes \cup Hosts -> Times]
          /\ \A i \in Indexes \cup Hosts :
                IF i = scope
                THEN /\ cooldown'[i] = Later(cooldown[i], retry)
                     /\ demanded'[i] = Later(demanded[i], retry)
                ELSE cooldown'[i] = cooldown[i] /\ demanded'[i] = demanded[i]
      BY <1>3, <1>4, <2>1, <2>2
    <2>5. \A i \in Indexes \cup Hosts : demanded'[i] <= cooldown'[i]
      BY <2>1, <2>3, <2>4
    <2>6. QED
      BY <2>4, <2>5 DEF CooldownsHold
  <1>13. TypeOK'
    BY <1>3, <1>6, <1>8, <1>9, <1>12 DEF JournalInv, TypeOK
  <1>14. WithinAllowance'
    BY <1>3 DEF JournalInv, WithinAllowance, Left, Limit
  <1>15. QED
    BY <1>7, <1>8, <1>9, <1>10, <1>11, <1>12, <1>13, <1>14 DEF JournalInv

LEMMA FailKeeps == ASSUME JournalInv, NEW h \in Holders, Fail(h) PROVE JournalInv' /\ WorkMoves
  <1>1. PICK now \in Readings :
            /\ Owns(h, now)
            /\ \E outcome \in Failures(holder[h]), delay \in Delays :
               \E alternates \in SUBSET Alternatives(holder[h], outcome) :
                  Failed(h, holder[h], outcome,
                         IF outcome \in Retried THEN At(now + delay) ELSE 0, alternates)
    BY DEF Fail
  <1>2. PICK outcome \in Failures(holder[h]), delay \in Delays :
            \E alternates \in SUBSET Alternatives(holder[h], outcome) :
                Failed(h, holder[h], outcome,
                       IF outcome \in Retried THEN At(now + delay) ELSE 0, alternates)
    BY <1>1
  <1> DEFINE retry == IF outcome \in Retried THEN At(now + delay) ELSE 0
  <1>3. PICK alternates \in SUBSET Alternatives(holder[h], outcome) :
            Failed(h, holder[h], outcome, retry, alternates)
    BY <1>2
  <1>4. retry \in Times
    BY ReadingsArePast, TimesAreKept, JournalAssumption DEF JournalInv
  <1>5. holder[h].work \in Work
    BY <1>1, OwnedRow DEF JournalInv
  <1>6. Alternatives(holder[h], outcome) \subseteq Work
    BY <1>5, JournalAssumption DEF Alternatives, Work
  <1> HIDE DEF retry
  <1>7. QED
    BY <1>1, <1>3, <1>4, <1>6, FailedKeeps

-----------------------------------------------------------------------------
(* The theorems *)

LEMMA JournalInitFits == Init => JournalInv
  <1> SUFFICES ASSUME Init PROVE JournalInv
    OBVIOUS
  <1>1. \A w \in Work : work[w] = NoRow
    BY DEF Init
  <1>2. \A s \in Searches : work[s].state = "absent" /\ pages[s] = << >> /\ cursor[s] = 0
    BY <1>1, BlankRows DEF Init, Work
  <1>3. \A a \in Articles : work[a].state = "absent"
    BY <1>1, BlankRows DEF Work
  <1>4. TypeOK
    <2>1. work \in [Work -> Row]
      BY BlankRows DEF Init
    <2>2. scan \in [Scans -> ScanRecord] /\ pass \in PassRecord
      BY JournalAssumption DEF Init, ScanRecord, PassRecord
    <2>3. clock \in 0 .. MaxTime /\ 0 \in Times
      BY JournalAssumption, TimesAreKept DEF Init
    <2>4. DOMAIN allowance = {}
      BY DEF Init
    <2>5. QED
      BY <2>1, <2>2, <2>3, <2>4 DEF Init, TypeOK
  <1>5. GraphInv
    BY DEF Init, GraphInv, ViewersSeeDescendants, RowsAreKnown
  <1>6. CaptureInv
    BY <1>3 DEF Init, CaptureInv, DoneHasCapture, CapturedIsDone
  <1>7. WithinAllowance
    <2>1. \A k \in Accounts : Limit(k) \in Nat /\ Left(k) = Limit(k) /\ spent[k] = 0
      BY <1>4, AllowancesAreNumbers DEF Init, Left
    <2>2. QED
      BY <2>1 DEF WithinAllowance
  <1>8. OneRequestPerPublisher
    BY <1>3 DEF OneRequestPerPublisher
  <1>9. PagesInv
    BY <1>2 DEF Init, PagesInv, PagesFollowCursors, CursorFits, ClaimFits
  <1>10. ReadersInv
    BY DEF Init, ReadersInv, ViewInHandFits, ReadersAreTold, NoViewIsForgotten, StoppedScansRest,
           CompletedIsComplete
  <1>11. CooldownsHold
    BY DEF Init, CooldownsHold
  <1>12. QED
    BY <1>4, <1>5, <1>6, <1>7, <1>8, <1>9, <1>10, <1>11 DEF JournalInv

LEMMA JournalNextFits == ASSUME JournalInv, Next PROVE JournalInv' /\ WorkMoves
  <1>1. CASE \/ \E v \in Scans : Attach(v) \/ Continue(v) \/ Snapshot(v)
             \/ SaveView
             \/ DropView
    BY <1>1, AttachKeeps, ContinueKeeps, SnapshotKeeps, SaveViewKeeps, DropViewKeeps
  <1>2. CASE FinishPass
    BY <1>2, FinishPassKeeps
  <1>3. CASE SuspendAtCapacity
    BY <1>3, SuspendAtCapacityKeeps
  <1>4. CASE \E h \in Holders : Claim(h) \/ CommitPage(h) \/ CommitArticle(h) \/ Fail(h) \/ Lose(h)
    BY <1>4, ClaimKeeps, CommitPageKeeps, CommitArticleKeeps, FailKeeps, LoseKeeps
  <1>5. CASE ClaimNothing
    BY <1>5, ClaimNothingKeeps
  <1>6. CASE Tick
    BY <1>6, TickKeeps
  <1>7. QED
    BY <1>1, <1>2, <1>3, <1>4, <1>5, <1>6 DEF Next

LEMMA JournalStepFits == JournalInv /\ [Next]_vars => JournalInv'
  <1> SUFFICES ASSUME JournalInv, [Next]_vars PROVE JournalInv'
    OBVIOUS
  <1>1. CASE UNCHANGED vars
    <2>1. /\ UNCHANGED <<tables, cooldown, demanded>>
          /\ UNCHANGED <<clock, scan, pass, projection, misled, allowance, holder, pages, spent>>
      BY <1>1 DEF vars, course, telling, history
    <2>2. /\ GraphInv' /\ CaptureInv' /\ CooldownsHold'
          /\ UNCHANGED <<work, cursor, links, views, evidence>>
      BY <2>1, TablesStay
    <2>3. TypeOK'
      BY <2>1, <2>2 DEF JournalInv, TypeOK
    <2>4. WithinAllowance' /\ OneRequestPerPublisher'
      BY <2>1, <2>2 DEF JournalInv, WithinAllowance, OneRequestPerPublisher, Left, Limit
    <2>5. PagesInv'
      BY <2>1, <2>2 DEF JournalInv, PagesInv, PagesFollowCursors, CursorFits, ClaimFits
    <2>6. ReadersInv'
      BY <2>1, <2>2 DEF JournalInv, ReadersInv, ReadersAreTold, NoViewIsForgotten, StoppedScansRest,
                        CompletedIsComplete, ViewInHandFits, Active, Remaining,
                        FailedSearches
    <2>7. QED
      BY <2>2, <2>3, <2>4, <2>5, <2>6 DEF JournalInv
  <1>2. QED
    BY <1>1, JournalNextFits

LEMMA JournalInvHolds == Spec => []JournalInv
  <1>1. QED
    BY JournalInitFits, JournalStepFits, PTL DEF Spec

\* Every transaction of the journal, whichever scan, worker or pump runs it and
\* however old its reading of the clock, leaves the tables typed.
THEOREM JournalIsTyped == Spec => []TypeOK
  <1>1. JournalInv => TypeOK
    BY DEF JournalInv
  <1>2. QED
    BY <1>1, JournalInvHolds, PTL

\* A scan views all that was found through what it views: it may have come before
\* or after the page that found it, or a capture may have brought it.
THEOREM ViewersAlwaysSee == Spec => []ViewersSeeDescendants
  <1>1. JournalInv => ViewersSeeDescendants
    BY DEF JournalInv, GraphInv
  <1>2. QED
    BY <1>1, JournalInvHolds, PTL

\* An article that is done was captured, or has taken over a capture of the same
\* url with all the searches it led to.
THEOREM WhatIsDoneHasCapture == Spec => []DoneHasCapture
  <1>1. JournalInv => DoneHasCapture
    BY DEF JournalInv, CaptureInv
  <1>2. QED
    BY <1>1, JournalInvHolds, PTL

\* No pass overdraws an account, no publisher is sent two requests at a time, and
\* no page is kept twice or skipped, however claims expire and are taken over.
THEOREM RequestsStayInOrder == Spec => []RequestsAreInOrder
  <1>1. JournalInv => RequestsAreInOrder
    BY DEF JournalInv, PagesInv, RequestsAreInOrder
  <1>2. QED
    BY <1>1, JournalInvHolds, PTL

\* A scan shown as running runs or is owed its last view, one that was stopped
\* rests, and one shown as completed has nothing left to do, unless the view that
\* says so was being made when the scan was continued.
THEOREM ReadersAreAlwaysTold == Spec => []ReadersAreTold
  <1>1. JournalInv => ReadersAreTold
    BY DEF JournalInv, ReadersInv
  <1>2. QED
    BY <1>1, JournalInvHolds, PTL

\* No step undoes what is settled, and no request starts before the instant its
\* index or publisher asked for.
THEOREM RequestsStayInTime == Spec => RequestsAreInTime
  <1>1. JournalInv /\ [Next]_vars => [SettledStays /\ StartsInTime]_vars
    BY JournalNextFits DEF WorkMoves
  <1>2. QED
    BY <1>1, JournalInvHolds, PTL DEF Spec, RequestsAreInTime
=============================================================================
