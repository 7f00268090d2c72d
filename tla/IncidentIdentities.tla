------------------------- MODULE IncidentIdentities -------------------------
(***************************************************************************)
(* The registry that keeps an incident's public identity from one          *)
(* catalogue refresh to the next                                           *)
(* (application/incidents/identity_assignments.py), over the grouping of   *)
(* provider observations into physical events (application/evidence/       *)
(* event_identity.py) and the file it is saved in.                         *)
(*                                                                         *)
(* An observation is a number, and an incident is the set of observations  *)
(* the reconciliation puts together.  Its computed identity is that of its *)
(* largest observation; an alias is an observation or an identity, and     *)
(* both are naturals so that they share the alias table: observation o has *)
(* the identity Count + o.                                                 *)
(***************************************************************************)
EXTENDS Integers, FiniteSets, FiniteSetsExt

CONSTANTS
  Count,        \* how many provider observations there are
  Lifetime,     \* how long an identity is remembered unseen (30 days)
  MaxRecords,   \* how many identities are kept (2000)
  LastDay,      \* bound: the last day of the run
  NoIdentity

ASSUME IdentitiesAssumption ==
  /\ Count \in Nat \ {0} /\ Lifetime \in Nat /\ LastDay \in Nat
  /\ MaxRecords \in Nat \ {0}
  /\ NoIdentity \notin Nat

Obs == 1..Count
Identity(o) == Count + o
Identifiers == {Identity(o) : o \in Obs}
Aliases == Obs \cup Identifiers

VARIABLES
  day,       \* the clock, in days
  group,     \* observation -> the smallest observation of its physical event
  parted,    \* has the reconciliation ever taken a group apart
  memory,    \* the registry: incidents and seen per identity, aliases
  disk,      \* the saved registry
  writing,   \* NoIdentity, or the incidents a stabilize is about to return
  links      \* identity -> the observations and day it was last published with

identityVars == <<day, group, parted, memory, disk, writing, links>>

(* A registry.  A missing incident is the empty set, a missing alias has   *)
(* no identities.                                                          *)
Empty == [incidents |-> [i \in Identifiers |-> {}], seen |-> [i \in Identifiers |-> 0],
          aliases |-> [a \in Aliases |-> {}]]

IdentitiesInit ==
  /\ day = 0
  /\ group = [o \in Obs |-> o] /\ parted = FALSE
  /\ memory = Empty /\ disk = Empty
  /\ writing = NoIdentity
  /\ links = [i \in Identifiers |-> NoIdentity]

(***************************************************************************)
(* The catalogue of one refresh: the physical events among the             *)
(* observations the providers returned.                                    *)
(***************************************************************************)
RowsOf(present) == {{o \in present : group[o] = g} : g \in {group[o] : o \in present}}

Computed(row) == Identity(Max(row))

(* What lookup and stabilize hold against a registry entry.                *)
Remembers(m, i) == m.incidents[i] # {} /\ day - m.seen[i] <= Lifetime

(* The retained identities a row's aliases lead to, and the one it would   *)
(* take over.                                                              *)
Known(m, row) ==
  {i \in UNION {m.aliases[a] : a \in row \cup {Computed(row)}} : Remembers(m, i)}

Proposed(m, row) ==
  IF \E i \in Identifiers : Known(m, row) = {i}
  THEN CHOOSE i \in Identifiers : Known(m, row) = {i} ELSE NoIdentity

(* An identity that several rows would take over is given to none of them. *)
Claimants(proposed, i) == {row \in DOMAIN proposed : proposed[row] = i}

Stable(proposed, row) ==
  IF proposed[row] # NoIdentity /\ Claimants(proposed, proposed[row]) = {row}
  THEN proposed[row] ELSE Computed(row)

(* Of two rows with one identity the later overwrites the earlier.         *)
Entered(m, stable) ==
  LET rows == DOMAIN stable
      of(i) == {row \in rows : stable[row] = i}
      last(i) == CHOOSE row \in of(i) : \A other \in of(i) : Min(row) >= Min(other)
  IN  [incidents |-> [i \in Identifiers |-> IF of(i) = {} THEN m.incidents[i] ELSE last(i)],
       seen |-> [i \in Identifiers |-> IF of(i) = {} THEN m.seen[i] ELSE day],
       aliases |-> [a \in Aliases |-> m.aliases[a] \cup
         {stable[row] : row \in {r \in rows : a \in r \cup {stable[r]}}}]]

(* "A formerly merged cluster can split": the identities that several     *)
(* rows would have taken over are dropped, their own alias leads to all of *)
(* these, and every other alias of them to the rows that carry that alias  *)
(* now.  (The loop takes them one by one.  The order makes no difference,  *)
(* because no row that gives one up computes another one.)                 *)
Contested(proposed) ==
  {i \in Identifiers : \E r, s \in Claimants(proposed, i) : r # s}

Replacements(proposed, stable, i) == {stable[row] : row \in Claimants(proposed, i)}

Separated(m, proposed, stable) ==
  LET contested == Contested(proposed)
      current(a) == {stable[row] : row \in {r \in DOMAIN stable : a \in r \cup {stable[r]}}}
      lost(a) == m.aliases[a] \cap contested
      replaced(a) == UNION {Replacements(proposed, stable, i) : i \in lost(a)}
  IN  [incidents |-> [i \in Identifiers |-> IF i \in contested THEN {} ELSE m.incidents[i]],
       seen |-> m.seen,
       aliases |-> [a \in Aliases |->
         IF a \in contested THEN Replacements(proposed, stable, a)
         ELSE IF lost(a) = {} THEN m.aliases[a]
         ELSE IF current(a) # {} THEN current(a)
         ELSE (m.aliases[a] \ contested) \cup replaced(a)]]

(* What is kept: the newest MaxRecords of the identities seen within the   *)
(* lifetime.  (The further bound of sixteen aliases per record is beyond   *)
(* the aliases an instance has.)                                           *)
Newer(m, i, j) == m.seen[i] > m.seen[j] \/ (m.seen[i] = m.seen[j] /\ i > j)

Retained(m) ==
  LET held == {i \in Identifiers : m.incidents[i] # {}}
  IN  {i \in held : /\ Cardinality({j \in held : Newer(m, j, i)}) < MaxRecords
                    /\ day - m.seen[i] <= Lifetime}

Pruned(m) ==
  LET kept == Retained(m)
  IN  [incidents |-> [i \in Identifiers |-> IF i \in kept THEN m.incidents[i] ELSE {}],
       seen |-> [i \in Identifiers |-> IF i \in kept THEN m.seen[i] ELSE 0],
       aliases |-> [a \in Aliases |-> m.aliases[a] \cap kept]]

Stabilized(m, proposed, stable) ==
  Pruned(Separated(Entered(m, stable), proposed, stable))

(***************************************************************************)
(* Actions                                                                 *)
(***************************************************************************)

(* The providers' data lead the reconciliation to put two events together, *)
(* or to take an observation out of its group.                             *)
Merge(a, b) ==
  /\ group[a] # group[b]
  /\ group' = [o \in Obs |-> IF group[o] \in {group[a], group[b]}
                             THEN Min({group[a], group[b]}) ELSE group[o]]
  /\ UNCHANGED <<day, parted, memory, disk, writing, links>>

Part(o) ==
  LET rest == {p \in Obs \ {o} : group[p] = group[o]}
  IN  /\ rest # {} /\ parted' = TRUE
      /\ group' = [p \in Obs |-> IF p = o THEN o
                                 ELSE IF p \in rest THEN Min(rest) ELSE group[p]]
      /\ UNCHANGED <<day, memory, disk, writing, links>>

(* stabilize: the registry is updated in memory and handed to the store;   *)
(* the lock keeps a second stabilize out until the store has answered.     *)
Stabilize(present) ==
  LET rows == RowsOf(present)
      proposed == [row \in rows |-> Proposed(memory, row)]
      stable == [row \in rows |-> Stable(proposed, row)]
  IN  /\ writing = NoIdentity
      /\ memory' = Stabilized(memory, proposed, stable)
      /\ writing' = {[id |-> stable[row], row |-> row] : row \in rows}
      /\ UNCHANGED <<day, group, parted, disk, links>>

(* The store has it, and the rows go out with their identities.            *)
Written ==
  /\ writing # NoIdentity
  /\ disk' = memory
  /\ links' = [i \in Identifiers |->
       IF \E r \in writing : r.id = i
       THEN [obs |-> UNION {r.row : r \in {q \in writing : q.id = i}}, day |-> day]
       ELSE links[i]]
  /\ writing' = NoIdentity
  /\ UNCHANGED <<day, group, parted, memory>>

(* Faulty variant: the refusal of the store is swallowed.                  *)
NotWrittenButSent ==
  /\ writing # NoIdentity
  /\ links' = [i \in Identifiers |->
       IF \E r \in writing : r.id = i
       THEN [obs |-> UNION {r.row : r \in {q \in writing : q.id = i}}, day |-> day]
       ELSE links[i]]
  /\ writing' = NoIdentity
  /\ UNCHANGED <<day, group, parted, memory, disk>>

(* The store refuses: the refresh fails and its rows go to nobody, but the *)
(* registry in memory keeps what it was told.                              *)
NotWritten ==
  /\ writing # NoIdentity
  /\ writing' = NoIdentity
  /\ UNCHANGED <<day, group, parted, memory, disk, links>>

(* A process ends, and the next one reads the file.                        *)
ProcessEnds ==
  /\ memory' = disk
  /\ writing' = NoIdentity
  /\ UNCHANGED <<day, group, parted, disk, links>>

NextDay ==
  /\ day < LastDay /\ writing = NoIdentity
  /\ day' = day + 1
  /\ UNCHANGED <<group, parted, memory, disk, writing, links>>

IdentitiesNext ==
  \/ \E a, b \in Obs : Merge(a, b)
  \/ \E o \in Obs : Part(o)
  \/ \E present \in SUBSET Obs : Stabilize(present)
  \/ Written \/ NotWritten \/ ProcessEnds \/ NextDay

IdentitiesSpec == IdentitiesInit /\ [][IdentitiesNext]_identityVars

(***************************************************************************)
(* Properties                                                              *)
(***************************************************************************)

(* lookup: the retained incidents an identifier leads to; more than one is *)
(* reported to the caller as ambiguous.                                    *)
Matches(a) == {memory.incidents[i] : i \in {j \in memory.aliases[a] : Remembers(memory, j)}}

Registries ==
  [incidents : [Identifiers -> SUBSET Obs], seen : [Identifiers -> 0..LastDay],
   aliases : [Aliases -> SUBSET Identifiers]]
Entry == [id : Identifiers, row : SUBSET Obs]
Link == [obs : SUBSET Obs, day : 0..LastDay]

(* Types, and the registries' references: an alias leads only to           *)
(* identities whose incident is kept.                                      *)
IdentitiesTypeOK ==
  /\ day \in 0..LastDay /\ parted \in BOOLEAN
  /\ group \in [Obs -> Obs] /\ \A o \in Obs : group[o] <= o
  /\ memory \in Registries /\ disk \in Registries
  /\ \A a \in Aliases : \A i \in memory.aliases[a] : memory.incidents[i] # {}
  /\ writing = NoIdentity \/ writing \subseteq Entry
  /\ links \in [Identifiers -> Link \cup {NoIdentity}]

(* A link that went out leads, for as long as an identity is remembered    *)
(* and whatever failed or restarted since, to some incident, also when the *)
(* published cluster has come apart (98-120); and as long as the           *)
(* reconciliation has only put events together, to exactly one, of the     *)
(* same physical event (lookup, 173-185).                                  *)
LinksResolve ==
  \A i \in Identifiers :
    (links[i] # NoIdentity /\ day - links[i].day <= Lifetime) =>
      /\ Matches(i) # {}
      /\ ~parted => /\ \A r, s \in Matches(i) : r = s
                    /\ \A r \in Matches(i) : \A o \in r, p \in links[i].obs : group[o] = group[p]
=============================================================================
