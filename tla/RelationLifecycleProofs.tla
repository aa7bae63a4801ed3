---------------------- MODULE RelationLifecycleProofs ----------------------
(***************************************************************************)
(* Proofs that the relation store keeps its promises for every set of      *)
(* relations, columns and requests and every bound.  The argument is one   *)
(* inductive invariant, IInv of RelationLifecycle.                         *)
(***************************************************************************)
EXTENDS RelationLifecycleRefinement, TLAPS

(* Facts about the constants and the events a step appends. *)

\* An approval appends well-typed events.
LEMMA ReplacementEventsType ==
    ASSUME TypeOK, NEW r \in Relations, NEW n \in Revisions,
           NEW type \in EventTypes, NEW q \in Requests \cup {None}
    PROVE  ReplacementEvents(r, n, type, q) \in Seq(Event)
<1>1. Entry(type, n, q) \in Event
  BY DEF Entry, Event
<1>2. CASE current[r].active = 0
  BY <1>1, <1>2 DEF ReplacementEvents
<1>3. CASE current[r].active # 0
  <2>1. current[r].active \in Revisions
    BY <1>3, BoundAssumption DEF TypeOK, Projection, Revisions
  <2>2. Entry("Superseded", current[r].active, q) \in Event
    BY <2>1 DEF Entry, Event, EventTypes
  <2>3. <<Entry("Superseded", current[r].active, q)>> \in Seq(Event)
    BY <2>2
  <2>4. <<Entry(type, n, q)>> \in Seq(Event)
    BY <1>1
  <2> QED
    BY <1>3, <2>3, <2>4 DEF ReplacementEvents
<1> QED
  BY <1>2, <1>3

\* The event and the status that each kind of proposal leads to when approved.
LEMMA KindFacts ==
    ASSUME NEW kind \in Kinds
    PROVE  /\ DecisionEvent(kind) \in EventTypes
           /\ ApprovedStatus(kind) \in Statuses
           /\ ApprovedStatus(kind) = "Approved" <=> kind = "Content"
           /\ ApprovedStatus(kind) = "Tombstoned" <=> kind = "Tombstone"
           /\ ApprovedStatus(kind) = "Stale" <=> kind = "Stale"
           /\ ApprovedStatus(kind) \notin {"Pending", "Suppressed"}
BY DEF Kinds, DecisionEvent, ApprovedStatus, EventTypes, Statuses

\* The updates of relation_current keep its columns in their domains.
LEMMA ProjectionUpdates ==
    ASSUME NEW c \in Projection, NEW n \in 0..MaxRevisions, NEW status \in Statuses
    PROVE  /\ [c EXCEPT !.proposed = 0] \in Projection
           /\ [c EXCEPT !.active = n, !.proposed = 0, !.status = status] \in Projection
<1>1. 0 \in 0..MaxRevisions
  BY BoundAssumption
<1> QED
  BY <1>1 DEF Projection

-----------------------------------------------------------------------------
(* Type correctness, one lemma per action. *)

\* The empty store is well typed.
LEMMA InitType == Init => TypeOK
<1> SUFFICES ASSUME Init PROVE TypeOK
  OBVIOUS
<1>1. versions \in [Relations -> [Revisions -> Row \cup {None}]]
  BY DEF Init
<1>2. current \in [Relations -> Projection]
  BY BoundAssumption DEF Init, Projection, Statuses
<1>3. events \in [Relations -> Seq(Event)]
  BY DEF Init
<1> QED
  BY <1>1, <1>2, <1>3, BoundAssumption DEF Init, TypeOK

\* ProposeCreate keeps the types.
LEMMA ProposeCreateType ==
    ASSUME TypeOK, NEW q \in Requests, NEW r \in CodeRelations, ProposeCreate(q, r)
    PROVE  TypeOK'
<1>1. r \in Relations /\ 1 \in Revisions /\ 1 \in 0..MaxRevisions
  BY BoundAssumption DEF Relations, Revisions
<1>2. FirstContent[r] \in Contents
  BY <1>1, RelationsAssumption
<1>3. versions' \in [Relations -> [Revisions -> Row \cup {None}]]
  BY <1>1, <1>2 DEF TypeOK, ProposeCreate, Row, Kinds
<1>4. current' \in [Relations -> Projection]
  BY <1>1, BoundAssumption DEF TypeOK, ProposeCreate, Projection, Statuses
<1>5. Entry("Proposed", 1, q) \in Event
  BY <1>1 DEF Entry, Event, EventTypes
<1>6. events' \in [Relations -> Seq(Event)]
  BY <1>1, <1>5 DEF TypeOK, ProposeCreate
<1> QED
  BY <1>3, <1>4, <1>6 DEF TypeOK, ProposeCreate

\* So does the read of a revision.
LEMMA PrepareRevisionType ==
    ASSUME TypeOK, NEW q \in Requests, NEW r \in CodeRelations, NEW content \in Contents,
           PrepareRevision(q, r, content)
    PROVE  TypeOK'
<1>1. current[r].latest \in Revisions
  BY BoundAssumption DEF TypeOK, PrepareRevision, Exists, Relations, Projection, Revisions
<1>2. [request |-> q, relation |-> r, expected |-> current[r].latest,
       kind |-> "Content", content |-> content] \in Proposal
  BY <1>1 DEF Proposal, Kinds
<1> QED
  BY <1>2 DEF TypeOK, PrepareRevision, tables

\* So does the read of a withdrawal, which needs an active revision to copy.
LEMMA PrepareInvalidationType ==
    ASSUME TypeOK, ProjectionWellFormed, NEW q \in Requests, NEW r \in CodeRelations,
           NEW kind \in {"Tombstone", "Stale"}, PrepareInvalidation(q, r, kind)
    PROVE  TypeOK'
<1>1. r \in Relations /\ current[r] \in Projection
  BY DEF TypeOK, Relations
<1>2. current[r].latest \in Revisions /\ current[r].active \in Revisions
  BY <1>1, BoundAssumption DEF PrepareInvalidation, Exists, Projection, Revisions
<1>3. versions[r][current[r].active] # None
  BY <1>1 DEF PrepareInvalidation, ProjectionWellFormed, Projection, Statuses
<1>4. versions[r][current[r].active].content \in Contents
  BY <1>1, <1>2, <1>3 DEF TypeOK, Row
<1>5. [request |-> q, relation |-> r, expected |-> current[r].latest,
       kind |-> kind, content |-> versions[r][current[r].active].content] \in Proposal
  BY <1>2, <1>4 DEF Proposal, Kinds
<1> QED
  BY <1>5 DEF TypeOK, PrepareInvalidation, tables

\* So does the commit of a proposal.
LEMMA CommitProposalType ==
    ASSUME TypeOK, NEW p \in prepared, CommitProposal(p)
    PROVE  TypeOK'
<1> DEFINE r == p.relation
           n == p.expected + 1
<1>1. p \in Proposal /\ r \in Relations
  BY DEF TypeOK, Proposal, Relations
<1>2. n \in Revisions /\ n \in 0..MaxRevisions
  BY <1>1, BoundAssumption, SMTT(30)
  DEF CommitProposal, StillCurrent, HasRoom, TypeOK, Projection, Revisions, Proposal
<1>3. versions' \in [Relations -> [Revisions -> Row \cup {None}]]
  <2>1. [kind |-> p.kind, content |-> p.content] \in Row
    BY <1>1 DEF Proposal, Row
  <2> QED
    BY <1>1, <1>2, <2>1 DEF TypeOK, CommitProposal
<1>4. current' \in [Relations -> Projection]
  BY <1>1, <1>2 DEF TypeOK, CommitProposal, Projection
<1>5. Entry("Proposed", n, p.request) \in Event
  BY <1>1, <1>2 DEF Entry, Event, EventTypes, Proposal
<1>6. events' \in [Relations -> Seq(Event)]
  BY <1>1, <1>5 DEF TypeOK, CommitProposal
<1> QED
  BY <1>3, <1>4, <1>6 DEF TypeOK, CommitProposal

-----------------------------------------------------------------------------
(* What one relation satisfies, as a predicate of its rows, its projection and *)
(* its edge: a step preserves the invariant because it rewrites one relation   *)
(* by one of the cases below, and leaves the others alone.                     *)

RowsType == [Revisions -> Row \cup {None}]

RelationOK(v, c, e) ==
    /\ e = IF c.latest > 0 /\ c.status = "Approved" THEN c.active ELSE 0
    /\ \A n \in Revisions : v[n] # None <=> n <= c.latest
    /\ c.latest = 0 => c.active = 0 /\ c.proposed = 0 /\ c.status = "Pending"
    /\ c.latest > 0 =>
         /\ v[c.latest] # None
         /\ c.status = "Pending" <=> c.active = 0
         /\ c.proposed # 0 => c.proposed = c.latest /\ c.proposed # c.active
         /\ c.status \in {"Approved", "Suppressed"} =>
              v[c.active] # None /\ v[c.active].kind = "Content"
         /\ c.status = "Tombstoned" => v[c.active] # None /\ v[c.active].kind = "Tombstone"
         /\ c.status = "Stale" => v[c.active] # None /\ v[c.active].kind = "Stale"
    /\ c.proposed # 0 /\ v[c.proposed].kind # "Content" =>
         /\ c.active # 0
         /\ c.status \in {"Approved", "Suppressed"}
         /\ v[c.proposed].content = v[c.active].content

AllRelationsOK == \A r \in Relations : RelationOK(versions[r], current[r], edge[r])

\* The conjuncts of IInv about single relations are RelationOK of each.
LEMMA ByRelation ==
    TypeOK => (AllRelationsOK <=> /\ EffectiveIffApproved
                                  /\ ProjectionWellFormed
                                  /\ RowsUpToLatest
                                  /\ AbsentIsEmpty
                                  /\ InvalidationDescribesActive)
<1> SUFFICES ASSUME TypeOK
             PROVE  AllRelationsOK <=> /\ EffectiveIffApproved
                                       /\ ProjectionWellFormed
                                       /\ RowsUpToLatest
                                       /\ AbsentIsEmpty
                                       /\ InvalidationDescribesActive
  OBVIOUS
<1>1. \A r \in Relations : current[r] \in Projection
  BY DEF TypeOK
<1>2. \A r \in Relations : current[r].latest \in Nat
  BY <1>1, BoundAssumption DEF Projection
<1>3. \A r \in Relations : Exists(r) <=> current[r].latest > 0
  BY DEF Exists
<1>4. \A r \in Relations : ~ Exists(r) <=> current[r].latest = 0
  BY <1>2, <1>3
<1>5. ASSUME AllRelationsOK
      PROVE  /\ EffectiveIffApproved /\ ProjectionWellFormed /\ RowsUpToLatest
             /\ AbsentIsEmpty /\ InvalidationDescribesActive
  <2>1. EffectiveIffApproved
    BY <1>3, <1>5 DEF AllRelationsOK, RelationOK, EffectiveIffApproved
  <2>2. ProjectionWellFormed
    BY <1>3, <1>5 DEF AllRelationsOK, RelationOK, ProjectionWellFormed
  <2>3. RowsUpToLatest
    BY <1>5 DEF AllRelationsOK, RelationOK, RowsUpToLatest
  <2>4. AbsentIsEmpty
    BY <1>4, <1>5 DEF AllRelationsOK, RelationOK, AbsentIsEmpty
  <2>5. InvalidationDescribesActive
    BY <1>5 DEF AllRelationsOK, RelationOK, InvalidationDescribesActive
  <2> QED
    BY <2>1, <2>2, <2>3, <2>4, <2>5
<1>6. ASSUME EffectiveIffApproved, ProjectionWellFormed, RowsUpToLatest,
             AbsentIsEmpty, InvalidationDescribesActive, NEW r \in Relations
      PROVE  RelationOK(versions[r], current[r], edge[r])
  <2>1. edge[r] = IF current[r].latest > 0 /\ current[r].status = "Approved"
                  THEN current[r].active ELSE 0
    BY <1>3, <1>6 DEF EffectiveIffApproved
  <2>2. \A n \in Revisions : versions[r][n] # None <=> n <= current[r].latest
    BY <1>6 DEF RowsUpToLatest
  <2>3. current[r].latest = 0 => /\ current[r].active = 0
                                 /\ current[r].proposed = 0
                                 /\ current[r].status = "Pending"
    BY <1>4, <1>6 DEF AbsentIsEmpty
  <2> QED
    BY <1>3, <1>6, <2>1, <2>2, <2>3
    DEF RelationOK, ProjectionWellFormed, InvalidationDescribesActive
<1> QED
  BY <1>5, <1>6 DEF AllRelationsOK

\* A relation none of whose rows changed is as it was.
LEMMA Untouched ==
    ASSUME AllRelationsOK, NEW r \in Relations,
           versions'[r] = versions[r], current'[r] = current[r], edge'[r] = edge[r]
    PROVE  RelationOK(versions'[r], current'[r], edge'[r])
BY DEF AllRelationsOK

\* The first revision of a relation is pending.
LEMMA FirstRevisionOK ==
    ASSUME NEW v \in RowsType, NEW c \in Projection, NEW e,
           RelationOK(v, c, e), c.latest = 0,
           NEW content \in Contents,
           NEW first, first = [v EXCEPT ![1] = [kind |-> "Content", content |-> content]]
    PROVE  RelationOK(first, [latest |-> 1, active |-> 0, proposed |-> 1,
                              status |-> "Pending"], 0)
<1>1. 1 \in Revisions /\ Revisions \subseteq Int
  BY BoundAssumption DEF Revisions
<1>2. first[1] = [kind |-> "Content", content |-> content]
  BY <1>1 DEF RowsType
<1>3. first[1] # None /\ first[1].kind = "Content"
  BY <1>2, NoneAssumption DEF Row, Kinds
<1>4. \A n \in Revisions : first[n] # None <=> n <= 1
  BY <1>1, <1>3 DEF RowsType, RelationOK, Revisions
<1> QED
  BY <1>3, <1>4 DEF RelationOK

\* A pending revision: the relation had none, and an invalidation describes the
\* active revision.
LEMMA ProposedOK ==
    ASSUME NEW v \in RowsType, NEW c \in Projection, NEW e,
           RelationOK(v, c, e), c.latest > 0, c.latest < MaxRevisions, c.proposed = 0,
           NEW row \in Row,
           row.kind # "Content" => /\ c.active # 0
                                   /\ c.status \in {"Approved", "Suppressed"}
                                   /\ row.content = v[c.active].content,
           NEW n, n = c.latest + 1
    PROVE  RelationOK([v EXCEPT ![n] = row], [c EXCEPT !.latest = n, !.proposed = n], e)
<1> DEFINE w == [v EXCEPT ![n] = row]
           d == [c EXCEPT !.latest = n, !.proposed = n]
<1>1. n \in Revisions /\ c.latest \in Nat /\ c.active \in 0..MaxRevisions
  BY BoundAssumption DEF Revisions, Projection
<1>2. d.latest = n /\ d.active = c.active /\ d.proposed = n /\ d.status = c.status
  BY DEF Projection
<1>3. w[n] = row /\ row # None /\ \A m \in Revisions \ {n} : w[m] = v[m]
  BY <1>1, NoneAssumption DEF RowsType
<1>4. \A m \in Revisions : w[m] # None <=> m <= n
  BY <1>1, <1>3 DEF RelationOK, Revisions
<1>5. c.active # 0 => c.active \in Revisions /\ c.active # n /\ w[c.active] = v[c.active]
  <2> SUFFICES ASSUME c.active # 0
               PROVE  c.active \in Revisions /\ c.active # n /\ w[c.active] = v[c.active]
    OBVIOUS
  <2>1. c.active \in Revisions
    BY <1>1 DEF Revisions
  <2>2. v[c.active] # None
    BY <2>1 DEF RelationOK, Projection, Statuses
  <2>3. c.active # n
    BY <1>1, <2>1, <2>2 DEF RelationOK, Revisions
  <2> QED
    BY <1>3, <2>1, <2>3
<1> HIDE DEF w, d
<1>6. c.status \in Statuses
  BY DEF Projection
<1>7. RelationOK(w, d, e)
  BY <1>1, <1>2, <1>3, <1>4, <1>5, <1>6 DEF RelationOK, Statuses
<1> QED
  BY <1>7 DEF w, d

\* The pending revision is rejected.
LEMMA RejectedOK ==
    ASSUME NEW v, NEW c \in Projection, NEW e, RelationOK(v, c, e)
    PROVE  RelationOK(v, [c EXCEPT !.proposed = 0], e)
<1> DEFINE d == [c EXCEPT !.proposed = 0]
<1>1. d.latest = c.latest /\ d.active = c.active /\ d.proposed = 0 /\ d.status = c.status
  BY DEF Projection
<1> HIDE DEF d
<1>2. RelationOK(v, d, e)
  BY <1>1 DEF RelationOK
<1> QED
  BY <1>2 DEF d

\* The pending revision n becomes the active one.
LEMMA ApprovedOK ==
    ASSUME NEW v \in RowsType, NEW c \in Projection, NEW e, RelationOK(v, c, e),
           c.latest > 0, c.proposed # 0,
           NEW kind, kind = v[c.proposed].kind
    PROVE  /\ v[c.proposed] \in Row
           /\ RelationOK(v, [c EXCEPT !.active = c.proposed, !.proposed = 0,
                                      !.status = ApprovedStatus(kind)],
                         PublishedEdge(kind, c.proposed))
<1> DEFINE n == c.proposed
           d == [c EXCEPT !.active = n, !.proposed = 0, !.status = ApprovedStatus(kind)]
           f == PublishedEdge(kind, n)
<1>1. d.latest = c.latest /\ d.active = n /\ d.proposed = 0
      /\ d.status = ApprovedStatus(kind)
  BY DEF Projection
<1>2. n \in Revisions /\ c.latest \in Nat
  BY BoundAssumption DEF Projection, Revisions
<1>3. v[n] # None /\ n = c.latest
  BY DEF RelationOK
<1>4. v[n] \in Row /\ kind \in Kinds
  BY <1>2, <1>3 DEF RowsType, Row
<1>5. kind = v[n].kind
  OBVIOUS
<1> HIDE DEF d, n, f
<1>6. f = IF d.latest > 0 /\ d.status = "Approved" THEN d.active ELSE 0
  BY <1>1, <1>2, <1>4, KindFacts DEF PublishedEdge, f, RelationOK
<1>7. RelationOK(v, d, f)
  BY <1>1, <1>2, <1>3, <1>4, <1>5, <1>6, KindFacts DEF RelationOK, Kinds, Revisions
<1> QED
  BY <1>4, <1>7 DEF d, n, f

\* The active revision is hidden, or published again.
LEMMA StateChangedOK ==
    ASSUME NEW v \in RowsType, NEW c \in Projection, NEW e, RelationOK(v, c, e),
           c.latest > 0, c.active # 0, c.proposed = 0,
           c.status \in {"Approved", "Suppressed"}
    PROVE  /\ RelationOK(v, [c EXCEPT !.status = "Suppressed"], 0)
           /\ RelationOK(v, [c EXCEPT !.status = "Approved"], c.active)
<1>1. ASSUME NEW d, NEW f,
             d.latest = c.latest, d.active = c.active, d.proposed = c.proposed,
             \/ d.status = "Suppressed" /\ f = 0
             \/ d.status = "Approved" /\ f = c.active
      PROVE  RelationOK(v, d, f)
  BY <1>1 DEF RelationOK
<1> DEFINE s == [c EXCEPT !.status = "Suppressed"]
           t == [c EXCEPT !.status = "Approved"]
<1>2. /\ s.latest = c.latest /\ s.active = c.active /\ s.proposed = c.proposed
      /\ s.status = "Suppressed"
      /\ t.latest = c.latest /\ t.active = c.active /\ t.proposed = c.proposed
      /\ t.status = "Approved"
  BY DEF Projection
<1> HIDE DEF s, t
<1>3. RelationOK(v, s, 0) /\ RelationOK(v, t, c.active)
  BY <1>1, <1>2
<1> QED
  BY <1>3 DEF s, t

\* A scan appends a revision and makes it active at once.
LEMMA ScannedOK ==
    ASSUME NEW v \in RowsType, NEW c \in Projection, NEW e, RelationOK(v, c, e),
           NEW n \in Revisions, n = c.latest + 1,
           NEW kind \in Kinds, NEW content \in Contents
    PROVE  RelationOK([v EXCEPT ![n] = [kind |-> kind, content |-> content]],
                      [latest |-> n, active |-> n, proposed |-> 0,
                       status |-> ApprovedStatus(kind)],
                      PublishedEdge(kind, n))
<1> DEFINE row == [kind |-> kind, content |-> content]
           w == [v EXCEPT ![n] = row]
           f == PublishedEdge(kind, n)
<1>1. n > 0 /\ n # 0 /\ c.latest \in Nat
  BY BoundAssumption DEF Revisions, Projection
<1>2. w[n] = row /\ \A m \in Revisions \ {n} : w[m] = v[m]
  BY DEF RowsType
<1>3. w[n] # None /\ w[n].kind = kind
  BY <1>2, NoneAssumption DEF Row
<1>4. \A m \in Revisions : w[m] # None <=> m <= n
  BY <1>1, <1>2, <1>3 DEF RelationOK, Revisions
<1>5. f = IF ApprovedStatus(kind) = "Approved" THEN n ELSE 0
  BY KindFacts DEF PublishedEdge
<1> HIDE DEF w, f
<1>6. RelationOK(w, [latest |-> n, active |-> n, proposed |-> 0,
                     status |-> ApprovedStatus(kind)], f)
  BY <1>1, <1>3, <1>4, <1>5, KindFacts DEF RelationOK
<1> QED
  BY <1>6 DEF w, f

-----------------------------------------------------------------------------
(* The other conjuncts of IInv, by foreign key and by prepared proposal. *)

KeyOK(f) ==
    IF Exists(f)
    THEN /\ current[f].proposed = 0
         /\ current[f].active = current[f].latest
         /\ current[f].status \in {"Approved", "Suppressed", "Tombstoned"}
         /\ current[f].status = "Approved" => f \in keyPresent
         /\ current[f].status = "Tombstoned" => f \notin keyPresent
    ELSE f \notin keyPresent

\* A prepared proposal against the rows and the projection of its relation.
PreparedOK(p, v, c) ==
    /\ p.expected <= c.latest
    /\ c.proposed # 0 => p.expected < c.latest
    /\ p.kind # "Content" /\ p.expected = c.latest /\ c.proposed = 0 =>
         /\ c.active # 0
         /\ c.status \in {"Approved", "Suppressed"}
         /\ p.content = v[c.active].content

\* IInv is an invariant of each relation, of each key and of each proposal in flight.
LEMMA InvariantByParts ==
    IInv <=> /\ TypeOK
             /\ AllRelationsOK
             /\ \A f \in ForeignKeys : KeyOK(f)
             /\ \A p \in prepared : PreparedOK(p, versions[p.relation], current[p.relation])
<1>1. KeysFollowMapping <=> \A f \in ForeignKeys : KeyOK(f)
  BY DEF KeysFollowMapping, KeyOK
<1>2. PreparedStillDescribesActive <=>
        \A p \in prepared : PreparedOK(p, versions[p.relation], current[p.relation])
  BY DEF PreparedStillDescribesActive, PreparedOK, StillCurrent
<1> QED
  BY <1>1, <1>2, ByRelation DEF IInv

\* A step that rewrites the rows of one relation only.
LEMMA OneRelationStep ==
    ASSUME IInv, TypeOK', NEW r \in Relations,
           \A s \in Relations \ {r} : /\ versions'[s] = versions[s]
                                      /\ current'[s] = current[s]
                                      /\ edge'[s] = edge[s],
           RelationOK(versions'[r], current'[r], edge'[r]),
           keyPresent' = keyPresent,
           r \in ForeignKeys => KeyOK(r)',
           prepared' \subseteq prepared,
           \A p \in prepared' : p.relation = r => PreparedOK(p, versions'[r], current'[r])
    PROVE  IInv'
<1>1. TypeOK /\ AllRelationsOK /\ (\A f \in ForeignKeys : KeyOK(f))
      /\ \A p \in prepared : PreparedOK(p, versions[p.relation], current[p.relation])
  BY InvariantByParts
<1>2. AllRelationsOK'
  BY <1>1 DEF AllRelationsOK
<1>3. (\A f \in ForeignKeys : KeyOK(f))'
  BY <1>1 DEF KeyOK, Exists, Relations
<1>4. (\A p \in prepared : PreparedOK(p, versions[p.relation], current[p.relation]))'
  <2> SUFFICES ASSUME NEW p \in prepared'
               PROVE  PreparedOK(p, versions'[p.relation], current'[p.relation])
    OBVIOUS
  <2>1. p \in prepared /\ p.relation \in Relations
    BY <1>1 DEF TypeOK, Proposal, Relations
  <2> QED
    BY <1>1, <2>1
<1>5. (IInv <=> /\ TypeOK
                /\ AllRelationsOK
                /\ \A f \in ForeignKeys : KeyOK(f)
                /\ \A p \in prepared :
                     PreparedOK(p, versions[p.relation], current[p.relation]))'
  BY InvariantByParts, PTL
<1> QED
  BY <1>2, <1>3, <1>4, <1>5

\* What the invariant says of one relation.
LEMMA OfRelation ==
    ASSUME IInv, NEW r \in Relations
    PROVE  /\ versions[r] \in RowsType
           /\ current[r] \in Projection
           /\ current[r].latest \in 0..MaxRevisions
           /\ current[r].active \in 0..MaxRevisions
           /\ current[r].proposed \in 0..MaxRevisions
           /\ RelationOK(versions[r], current[r], edge[r])
<1>1. TypeOK /\ AllRelationsOK
  BY InvariantByParts
<1> QED
  BY <1>1 DEF TypeOK, AllRelationsOK, RowsType, Projection

-----------------------------------------------------------------------------
(* The invariant, one lemma per action. *)

\* The empty store satisfies the invariant.
LEMMA InitInv == Init => IInv
<1> SUFFICES ASSUME Init PROVE IInv
  OBVIOUS
<1>1. TypeOK
  BY InitType
<1>2. AllRelationsOK
  BY BoundAssumption DEF Init, AllRelationsOK, RelationOK, Revisions
<1>3. \A f \in ForeignKeys : KeyOK(f)
  BY DEF Init, KeyOK, Exists, Relations
<1>4. prepared = {}
  BY DEF Init
<1> QED
  BY <1>1, <1>2, <1>3, <1>4, InvariantByParts

\* The first revision of a relation that had no rows.
LEMMA ProposeCreateInv ==
    ASSUME IInv, NEW q \in Requests, NEW r \in CodeRelations, ProposeCreate(q, r)
    PROVE  IInv'
<1>1. r \in Relations /\ r \notin ForeignKeys /\ TypeOK
  BY RelationsAssumption, InvariantByParts DEF Relations
<1>2. TypeOK'
  BY <1>1, ProposeCreateType
<1>3. current[r].latest = 0
  BY <1>1, OfRelation DEF ProposeCreate, Exists
<1>4. /\ versions'[r] = [versions[r] EXCEPT ![1] =
                           [kind |-> "Content", content |-> FirstContent[r]]]
      /\ current'[r] = [latest |-> 1, active |-> 0, proposed |-> 1, status |-> "Pending"]
      /\ edge'[r] = edge[r]
  BY <1>1 DEF ProposeCreate, TypeOK
<1>5. edge[r] = 0
  BY <1>1, <1>3, OfRelation DEF RelationOK
<1>6. RelationOK(versions'[r], current'[r], edge'[r])
  BY <1>1, <1>3, <1>4, <1>5, OfRelation, FirstRevisionOK, RelationsAssumption
<1>7. \A s \in Relations \ {r} : /\ versions'[s] = versions[s]
                                 /\ current'[s] = current[s]
                                 /\ edge'[s] = edge[s]
  BY <1>1 DEF ProposeCreate, TypeOK
<1>8. \A p \in prepared' : p.relation # r
  <2> SUFFICES ASSUME NEW p \in prepared, p.relation = r PROVE FALSE
    BY DEF ProposeCreate
  <2>1. p.expected \in Revisions /\ PreparedOK(p, versions[r], current[r])
    BY <1>1, InvariantByParts DEF TypeOK, Proposal
  <2> QED
    BY <1>3, <2>1 DEF PreparedOK, Revisions
<1> QED
  BY <1>1, <1>2, <1>6, <1>7, <1>8, OneRelationStep DEF ProposeCreate

\* A step that changes nothing but the proposals in flight.
LEMMA PreparedStep ==
    ASSUME IInv, TypeOK', UNCHANGED <<tables, keyPresent>>,
           \A p \in prepared' : p \in prepared
               \/ PreparedOK(p, versions[p.relation], current[p.relation])
    PROVE  IInv'
<1>1. versions' = versions /\ current' = current /\ edge' = edge /\ keyPresent' = keyPresent
  BY DEF tables
<1>2. AllRelationsOK' /\ (\A f \in ForeignKeys : KeyOK(f))'
  BY <1>1, InvariantByParts DEF AllRelationsOK, KeyOK, Exists
<1>3. (\A p \in prepared : PreparedOK(p, versions[p.relation], current[p.relation]))'
  BY <1>1, InvariantByParts
<1>4. (IInv <=> /\ TypeOK
                /\ AllRelationsOK
                /\ \A f \in ForeignKeys : KeyOK(f)
                /\ \A p \in prepared :
                     PreparedOK(p, versions[p.relation], current[p.relation]))'
  BY InvariantByParts, PTL
<1> QED
  BY <1>2, <1>3, <1>4

\* A revision is built from a read.
LEMMA PrepareRevisionInv ==
    ASSUME IInv, NEW q \in Requests, NEW r \in CodeRelations, NEW content \in Contents,
           PrepareRevision(q, r, content)
    PROVE  IInv'
<1>1. r \in Relations /\ TypeOK
  BY InvariantByParts DEF Relations
<1>2. TypeOK'
  BY <1>1, PrepareRevisionType
<1>3. ASSUME NEW p \in prepared', p \notin prepared
      PROVE  PreparedOK(p, versions[p.relation], current[p.relation])
  <2>1. /\ p.relation = r /\ p.expected = current[r].latest /\ p.kind = "Content"
        /\ current[r].proposed = 0
    BY <1>3 DEF PrepareRevision
  <2>2. current[r].latest <= current[r].latest
    BY <1>1, OfRelation
  <2> QED
    BY <2>1, <2>2 DEF PreparedOK
<1> QED
  BY <1>2, <1>3, PreparedStep DEF PrepareRevision, tables

\* A withdrawal is built from a read, and describes what is active now.
LEMMA PrepareInvalidationInv ==
    ASSUME IInv, NEW q \in Requests, NEW r \in CodeRelations,
           NEW kind \in {"Tombstone", "Stale"}, PrepareInvalidation(q, r, kind)
    PROVE  IInv'
<1>1. r \in Relations /\ TypeOK /\ ProjectionWellFormed
  BY DEF Relations, IInv
<1>2. TypeOK'
  BY <1>1, PrepareInvalidationType
<1>3. ASSUME NEW p \in prepared', p \notin prepared
      PROVE  PreparedOK(p, versions[p.relation], current[p.relation])
  <2>1. /\ p.relation = r /\ p.expected = current[r].latest
        /\ p.content = versions[r][current[r].active].content
        /\ current[r].proposed = 0
    BY <1>3 DEF PrepareInvalidation
  <2>2. current[r].latest <= current[r].latest
    BY <1>1, OfRelation
  <2>3. current[r].active # 0 /\ current[r].status \in {"Approved", "Suppressed"}
    BY <1>1 DEF PrepareInvalidation, ProjectionWellFormed, TypeOK, Projection, Statuses
  <2> QED
    BY <2>1, <2>2, <2>3 DEF PreparedOK
<1> QED
  BY <1>2, <1>3, PreparedStep DEF PrepareInvalidation, tables

\* A proposal is refused: fewer are in flight.
LEMMA DropProposalInv ==
    ASSUME IInv, NEW p \in prepared, DropProposal(p)
    PROVE  IInv'
<1>1. TypeOK'
  BY InvariantByParts DEF DropProposal, tables, TypeOK
<1> QED
  BY <1>1, PreparedStep DEF DropProposal, tables

\* A proposal whose expected revision is still the latest becomes the pending one.
LEMMA CommitProposalInv ==
    ASSUME IInv, NEW p \in prepared, CommitProposal(p)
    PROVE  IInv'
<1> DEFINE r == p.relation
           n == p.expected + 1
           row == [kind |-> p.kind, content |-> p.content]
<1>1. TypeOK /\ p \in Proposal /\ r \in CodeRelations /\ r \in Relations
      /\ r \notin ForeignKeys
  BY RelationsAssumption, InvariantByParts DEF Relations, TypeOK, Proposal
<1>2. TypeOK'
  BY <1>1, CommitProposalType
<1>3. /\ p.expected = current[r].latest /\ current[r].proposed = 0
      /\ current[r].latest > 0 /\ current[r].latest < MaxRevisions
  BY <1>1 DEF CommitProposal, StillCurrent, HasRoom, Proposal, Revisions
<1>4. /\ versions'[r] = [versions[r] EXCEPT ![n] = row]
      /\ current'[r] = [current[r] EXCEPT !.latest = n, !.proposed = n]
      /\ edge'[r] = edge[r]
  BY <1>1 DEF CommitProposal, TypeOK
<1>5. row \in Row
  BY <1>1 DEF Proposal, Row
<1>6. PreparedOK(p, versions[r], current[r])
  BY InvariantByParts
<1>7. RelationOK(versions'[r], current'[r], edge'[r])
  <2>1. row.kind # "Content" => /\ current[r].active # 0
                                /\ current[r].status \in {"Approved", "Suppressed"}
                                /\ row.content = versions[r][current[r].active].content
    BY <1>3, <1>6, SMTT(30) DEF PreparedOK
  <2> HIDE DEF row
  <2>2. RelationOK([versions[r] EXCEPT ![n] = row],
                   [current[r] EXCEPT !.latest = n, !.proposed = n], edge[r])
    BY <1>1, <1>3, <1>5, <2>1, OfRelation, ProposedOK
  <2> QED
    BY <1>4, <2>2
<1>8. \A s \in Relations \ {r} : /\ versions'[s] = versions[s]
                                 /\ current'[s] = current[s]
                                 /\ edge'[s] = edge[s]
  BY <1>1 DEF CommitProposal, TypeOK
<1>9. \A o \in prepared' : o.relation = r => PreparedOK(o, versions'[r], current'[r])
  <2> SUFFICES ASSUME NEW o \in prepared, o.relation = r
               PROVE  PreparedOK(o, versions'[r], current'[r])
    BY DEF CommitProposal
  <2>1. PreparedOK(o, versions[r], current[r]) /\ o.expected \in Nat
    BY <1>1, InvariantByParts DEF TypeOK, Proposal, Revisions
  <2>2. current'[r].latest = current[r].latest + 1 /\ current[r].latest \in Nat
    BY <1>1, <1>3, <1>4, OfRelation, BoundAssumption
  <2> QED
    BY <2>1, <2>2 DEF PreparedOK
<1> QED
  BY <1>1, <1>2, <1>7, <1>8, <1>9, OneRelationStep DEF CommitProposal

\* A pending revision is a revision of an agent's relation, and proposals still in
\* flight for its relation were prepared before it.
LEMMA PendingFacts ==
    ASSUME IInv, NEW r \in Relations, NEW expected \in Revisions, Reviewable(r, expected)
    PROVE  /\ r \notin ForeignKeys
           /\ expected = current[r].proposed
           /\ current[r].proposed = current[r].latest
           /\ current[r].latest > 0
           /\ versions[r][expected] \in Row
           /\ \A p \in prepared : p.relation = r => p.expected < current[r].latest
<1>1. TypeOK /\ (\A f \in ForeignKeys : KeyOK(f))
      /\ \A p \in prepared : PreparedOK(p, versions[p.relation], current[p.relation])
  BY InvariantByParts
<1>2. current[r].proposed # 0 /\ current[r].latest > 0 /\ expected = current[r].proposed
      /\ current[r].proposed = current[r].latest
  BY DEF Reviewable, Exists
<1>3. r \notin ForeignKeys
  BY <1>1, <1>2 DEF KeyOK, Exists
<1>4. versions[r][expected] # None
  BY <1>2, OfRelation DEF RelationOK
<1>5. versions[r][expected] \in Row
  BY <1>4, OfRelation DEF RowsType
<1>6. \A p \in prepared : p.relation = r => p.expected < current[r].latest
  BY <1>1, <1>2 DEF PreparedOK
<1> QED
  BY <1>2, <1>3, <1>5, <1>6

\* The pending revision is dropped; what is active stays.
LEMMA RejectInv ==
    ASSUME IInv, NEW q \in Requests, NEW r \in Relations, NEW expected \in Revisions,
           Reject(q, r, expected)
    PROVE  IInv'
<1>1. TypeOK /\ Reviewable(r, expected)
  BY InvariantByParts DEF Reject
<1>2. /\ versions'[r] = versions[r]
      /\ current'[r] = [current[r] EXCEPT !.proposed = 0]
      /\ edge'[r] = edge[r]
  BY <1>1 DEF Reject, TypeOK
<1>3. TypeOK'
  <2>1. current' \in [Relations -> Projection]
    <3>1. [current[r] EXCEPT !.proposed = 0] \in Projection
      BY OfRelation, ProjectionUpdates, BoundAssumption, Zenon DEF Statuses
    <3>2. current' = [current EXCEPT ![r] = [current[r] EXCEPT !.proposed = 0]]
      BY DEF Reject
    <3> QED
      BY <1>1, <3>1, <3>2, SMTT(30) DEF TypeOK
  <2>2. Entry("Rejected", expected, q) \in Event
    BY DEF Entry, Event, EventTypes
  <2>3. events' \in [Relations -> Seq(Event)]
    BY <1>1, <2>2 DEF TypeOK, Reject
  <2> QED
    BY <1>1, <2>1, <2>3 DEF TypeOK, Reject
<1>4. RelationOK(versions'[r], current'[r], edge'[r])
  BY <1>2, OfRelation, RejectedOK
<1>5. \A s \in Relations \ {r} : /\ versions'[s] = versions[s]
                                 /\ current'[s] = current[s]
                                 /\ edge'[s] = edge[s]
  BY <1>1 DEF Reject, TypeOK
<1>6. \A p \in prepared' : p.relation = r => PreparedOK(p, versions'[r], current'[r])
  <2>1. current'[r].latest = current[r].latest /\ current'[r].proposed = 0
    BY <1>2, OfRelation DEF Projection
  <2>2. current[r].latest \in Nat /\ \A p \in prepared : p.expected \in Nat
    BY <1>1, OfRelation, BoundAssumption DEF TypeOK, Proposal, Revisions
  <2>3. \A p \in prepared : p.relation = r => p.expected < current[r].latest
    BY <1>1, PendingFacts, SMTT(30)
  <2> QED
    BY <2>1, <2>2, <2>3 DEF PreparedOK, Reject
<1> QED
  BY <1>1, <1>3, <1>4, <1>5, <1>6, PendingFacts, OneRelationStep DEF Reject

\* What an approval demands and leaves alone, and what it writes.
LEMMA ApproveReads ==
    ASSUME NEW q, NEW r, NEW expected, Approve(q, r, expected)
    PROVE  /\ Reviewable(r, expected)
           /\ versions' = versions /\ columns' = columns
           /\ keyPresent' = keyPresent /\ prepared' = prepared
BY DEF Approve

LEMMA ApproveWrites ==
    ASSUME NEW q, NEW r, NEW expected, Approve(q, r, expected)
    PROVE  /\ current' = [current EXCEPT ![r] =
                 [current[r] EXCEPT !.active = current[r].proposed, !.proposed = 0,
                     !.status = ApprovedStatus(versions[r][current[r].proposed].kind)]]
           /\ edge' = [edge EXCEPT ![r] =
                 PublishedEdge(versions[r][current[r].proposed].kind, current[r].proposed)]
           /\ events' = [events EXCEPT ![r] = events[r] \o
                 ReplacementEvents(r, current[r].proposed,
                     DecisionEvent(versions[r][current[r].proposed].kind), q)]
BY DEF Approve

\* The pending revision becomes the active one, and the edge follows it.
LEMMA ApproveInv ==
    ASSUME IInv, NEW q \in Requests, NEW r \in Relations, NEW expected \in Revisions,
           Approve(q, r, expected)
    PROVE  IInv'
<1> DEFINE n == current[r].proposed
           kind == versions[r][n].kind
<1>1. TypeOK /\ Reviewable(r, expected)
  BY InvariantByParts, ApproveReads
<1>8. /\ versions' = versions /\ columns' = columns
      /\ keyPresent' = keyPresent /\ prepared' = prepared
      /\ current' = [current EXCEPT ![r] =
                       [current[r] EXCEPT !.active = n, !.proposed = 0,
                                          !.status = ApprovedStatus(kind)]]
      /\ edge' = [edge EXCEPT ![r] = PublishedEdge(kind, n)]
      /\ events' = [events EXCEPT ![r] =
                       events[r] \o ReplacementEvents(r, n, DecisionEvent(kind), q)]
  BY ApproveReads, ApproveWrites, ZenonT(60)
<1>2. n \in Revisions /\ n \in 0..MaxRevisions /\ kind \in Kinds
  BY <1>1, PendingFacts, BoundAssumption, SMTT(30) DEF Row, Revisions
<1>3. /\ versions'[r] = versions[r]
      /\ current'[r] = [current[r] EXCEPT !.active = n, !.proposed = 0,
                                          !.status = ApprovedStatus(kind)]
      /\ edge'[r] = PublishedEdge(kind, n)
  BY <1>1, <1>8, SMTT(30) DEF TypeOK
<1>4. TypeOK'
  <2>1. ApprovedStatus(kind) \in Statuses /\ DecisionEvent(kind) \in EventTypes
    BY <1>2, KindFacts
  <2>2. ReplacementEvents(r, n, DecisionEvent(kind), q) \in Seq(Event)
    BY <1>1, <1>2, <2>1, ReplacementEventsType
  <2>3. PublishedEdge(kind, n) \in 0..MaxRevisions
    BY <1>2, BoundAssumption DEF PublishedEdge
  <2>4. current' \in [Relations -> Projection]
    <3> DEFINE d == [current[r] EXCEPT !.active = n, !.proposed = 0,
                                       !.status = ApprovedStatus(kind)]
    <3>1. d \in Projection
      BY <1>2, <2>1, OfRelation, ProjectionUpdates
    <3>2. current' = [current EXCEPT ![r] = d]
      BY <1>8
    <3> QED
      BY <1>1, <3>1, <3>2, SMTT(30) DEF TypeOK
  <2>5. events' \in [Relations -> Seq(Event)]
    BY <1>1, <1>8, <2>2, SMTT(30) DEF TypeOK
  <2>6. edge' \in [Relations -> 0..MaxRevisions]
    BY <1>1, <1>8, <2>3 DEF TypeOK
  <2> QED
    BY <1>1, <1>8, <2>4, <2>5, <2>6, ZenonT(60) DEF TypeOK
<1>5. RelationOK(versions'[r], current'[r], edge'[r])
  <2>1. current[r].latest > 0 /\ current[r].proposed # 0
    BY <1>1 DEF Reviewable, Exists
  <2>2. RelationOK(versions[r],
                   [current[r] EXCEPT !.active = n, !.proposed = 0,
                                      !.status = ApprovedStatus(kind)],
                   PublishedEdge(kind, n))
    BY <2>1, OfRelation, ApprovedOK
  <2> QED
    BY <1>3, <2>2
<1>6. \A s \in Relations \ {r} : /\ versions'[s] = versions[s]
                                 /\ current'[s] = current[s]
                                 /\ edge'[s] = edge[s]
  BY <1>1, <1>8 DEF TypeOK
<1>7. \A p \in prepared' : p.relation = r => PreparedOK(p, versions'[r], current'[r])
  <2>1. current'[r].latest = current[r].latest /\ current'[r].proposed = 0
    BY <1>3, OfRelation, SMTT(30) DEF Projection
  <2>2. current[r].latest \in Nat /\ \A p \in prepared : p.expected \in Nat
    BY <1>1, OfRelation, BoundAssumption DEF TypeOK, Proposal, Revisions
  <2>3. \A p \in prepared : p.relation = r => p.expected < current[r].latest
    BY <1>1, PendingFacts
  <2>4. prepared' = prepared
    BY <1>8
  <2> SUFFICES ASSUME NEW p \in prepared, p.relation = r
               PROVE  PreparedOK(p, versions'[r], current'[r])
    BY <2>4
  <2>5. p.expected < current[r].latest /\ p.expected \in Nat /\ current[r].latest \in Nat
    BY <2>2, <2>3
  <2>6. p.expected <= current'[r].latest /\ p.expected # current'[r].latest
    BY <2>1, <2>5
  <2> QED
    BY <2>1, <2>6 DEF PreparedOK
<1> QED
  BY <1>1, <1>8, <1>4, <1>5, <1>6, <1>7, PendingFacts, OneRelationStep, ZenonT(60)

\* Suppression and restoration, up to the direction of the change.
LEMMA StateChangeInv ==
    ASSUME IInv, NEW r \in Relations, NEW type \in EventTypes, NEW q \in Requests,
           NEW status \in {"Suppressed", "Approved"},
           current[r].latest > 0, current[r].active # 0, current[r].proposed = 0,
           current[r].status \in {"Approved", "Suppressed"},
           r \in ForeignKeys /\ status = "Approved" => r \in keyPresent,
           events' = [events EXCEPT ![r] = Append(@, Entry(type, current[r].active, q))],
           current' = [current EXCEPT ![r] = [@ EXCEPT !.status = status]],
           edge' = [edge EXCEPT ![r] = IF status = "Approved" THEN current[r].active ELSE 0],
           UNCHANGED <<versions, columns, keyPresent, prepared>>
    PROVE  IInv'
<1>1. TypeOK
  BY InvariantByParts
<1>2. /\ versions'[r] = versions[r]
      /\ current'[r] = [current[r] EXCEPT !.status = status]
      /\ edge'[r] = IF status = "Approved" THEN current[r].active ELSE 0
  BY <1>1 DEF TypeOK
<1>3. TypeOK'
  <2>1. current[r].active \in Revisions
    BY OfRelation, BoundAssumption DEF Revisions
  <2>2. current' \in [Relations -> Projection]
    <3>1. status \in Statuses
      BY DEF Statuses
    <3>2. current \in [Relations -> Projection] /\ current[r] \in Projection
      BY <1>1 DEF TypeOK
    <3>3. [current[r] EXCEPT !.status = status] \in Projection
      BY <3>1, <3>2 DEF Projection
    <3> QED
      BY <3>2, <3>3
  <2>3. Entry(type, current[r].active, q) \in Event
    BY <2>1 DEF Entry, Event
  <2>4. events' \in [Relations -> Seq(Event)]
    BY <1>1, <2>3 DEF TypeOK
  <2>5. edge' \in [Relations -> 0..MaxRevisions]
    BY <1>1, <2>1, BoundAssumption DEF TypeOK, Revisions
  <2> QED
    BY <1>1, <2>2, <2>4, <2>5 DEF TypeOK
<1>4. RelationOK(versions'[r], current'[r], edge'[r])
  <2>1. /\ RelationOK(versions[r], [current[r] EXCEPT !.status = "Suppressed"], 0)
        /\ RelationOK(versions[r], [current[r] EXCEPT !.status = "Approved"],
                      current[r].active)
    BY OfRelation, StateChangedOK
  <2> QED
    BY <1>2, <2>1
<1>5. \A s \in Relations \ {r} : /\ versions'[s] = versions[s]
                                 /\ current'[s] = current[s]
                                 /\ edge'[s] = edge[s]
  BY <1>1 DEF TypeOK
<1>6. /\ current'[r].latest = current[r].latest /\ current'[r].active = current[r].active
      /\ current'[r].proposed = 0 /\ current'[r].status = status
  BY <1>2, OfRelation DEF Projection
<1>7. r \in ForeignKeys => KeyOK(r)'
  BY <1>6, InvariantByParts DEF KeyOK, Exists
<1>8. \A p \in prepared' : p.relation = r => PreparedOK(p, versions'[r], current'[r])
  BY <1>2, <1>6, InvariantByParts, SMTT(30) DEF PreparedOK
<1> QED
  BY <1>3, <1>4, <1>5, <1>7, <1>8, OneRelationStep

\* Suppress is a change of state without a new revision.
LEMMA SuppressInv ==
    ASSUME IInv, NEW q \in Requests, NEW r \in Relations, NEW expected \in Revisions,
           Suppress(q, r, expected)
    PROVE  IInv'
<1>1. StateChangeable(r, expected) /\ current[r].status = "Approved"
  BY DEF Suppress
<1>2. /\ events' = [events EXCEPT ![r] = Append(@, Entry("Suppressed", current[r].active, q))]
      /\ current' = [current EXCEPT ![r] = [@ EXCEPT !.status = "Suppressed"]]
      /\ edge' = [edge EXCEPT ![r] = 0]
      /\ UNCHANGED <<versions, columns, keyPresent, prepared>>
  BY DEF Suppress
<1>3. current[r].latest > 0 /\ current[r].active # 0 /\ current[r].proposed = 0
  BY <1>1 DEF StateChangeable, Exists
<1>4. "Suppressed" \in EventTypes
  BY DEF EventTypes
<1> QED
  BY <1>1, <1>2, <1>3, <1>4, StateChangeInv

\* So is Restore.
LEMMA RestoreInv ==
    ASSUME IInv, NEW q \in Requests, NEW r \in Relations, NEW expected \in Revisions,
           Restore(q, r, expected)
    PROVE  IInv'
<1>1. StateChangeable(r, expected) /\ current[r].status = "Suppressed" /\ StillDeclared(r)
  BY DEF Restore
<1>2. /\ events' = [events EXCEPT ![r] = Append(@, Entry("Restored", current[r].active, q))]
      /\ current' = [current EXCEPT ![r] = [@ EXCEPT !.status = "Approved"]]
      /\ edge' = [edge EXCEPT ![r] = current[r].active]
      /\ UNCHANGED <<versions, columns, keyPresent, prepared>>
  BY DEF Restore
<1>3. current[r].latest > 0 /\ current[r].active # 0 /\ current[r].proposed = 0
  BY <1>1 DEF StateChangeable, Exists
<1>4. "Restored" \in EventTypes
  BY DEF EventTypes
<1> QED
  BY <1>1, <1>2, <1>3, <1>4, StateChangeInv DEF StillDeclared

-----------------------------------------------------------------------------
(* Publication rewrites a set of foreign keys. *)

Touched(keys, scope) == NewKeys(keys) \cup Reactivated(keys) \cup Removed(keys, scope)

ScanContent(f, keys) ==
    IF f \in keys THEN FirstContent[f] ELSE versions[f][current[f].active].content

\* The revision a publication appends is the next one, with a kind and a content.
LEMMA TouchedFacts ==
    ASSUME IInv, NEW keys \in SUBSET ForeignKeys, NEW scope,
           NEW f \in Touched(keys, scope), HasRoom(f)
    PROVE  /\ f \in ForeignKeys /\ f \in Relations
           /\ ScanRevision(f, keys) = current[f].latest + 1
           /\ ScanRevision(f, keys) \in Revisions
           /\ ScanKind(f, keys) \in Kinds
           /\ ScanContent(f, keys) \in Contents
           /\ f \in keys \/ f \in LostKeys(keys, scope) \ keys
<1>1. TypeOK /\ \A g \in ForeignKeys : KeyOK(g)
  BY InvariantByParts
<1>2. f \in ForeignKeys /\ f \in Relations
  BY <1>1 DEF Touched, NewKeys, Reactivated, ReturnedKeys, Removed, LostKeys, Relations, TypeOK
<1>3. f \in keys \/ f \in LostKeys(keys, scope) \ keys
  BY DEF Touched, NewKeys, Reactivated, ReturnedKeys, Removed, LostKeys
<1>4. current[f].latest \in Nat /\ current[f].latest < MaxRevisions
  BY <1>2, OfRelation, BoundAssumption DEF HasRoom
<1>5. ASSUME f \notin keys PROVE Exists(f) /\ current[f].active = current[f].latest
                                 /\ f \in Removed(keys, scope)
  <2>1. f \in Removed(keys, scope) /\ f \in keyPresent
    BY <1>5 DEF Touched, NewKeys, Reactivated, ReturnedKeys, Removed, LostKeys
  <2> QED
    BY <1>1, <1>2, <2>1 DEF KeyOK
<1>6. ScanRevision(f, keys) = current[f].latest + 1
  <2>1. CASE f \in NewKeys(keys)
    BY <1>4, <2>1 DEF ScanRevision, NewKeys, Exists
  <2>2. CASE f \notin NewKeys(keys) /\ f \in keys
    <3>1. f \in Reactivated(keys)
      BY <2>2 DEF Touched, Removed, LostKeys
    <3> QED
      BY <2>2, <3>1 DEF ScanRevision
  <2>3. CASE f \notin keys
    BY <1>5, <2>3 DEF ScanRevision, NewKeys, Reactivated, ReturnedKeys
  <2> QED
    BY <2>1, <2>2, <2>3 DEF NewKeys
<1>7. ScanRevision(f, keys) \in Revisions
  BY <1>4, <1>6, BoundAssumption DEF Revisions
<1>8. ScanContent(f, keys) \in Contents
  <2>1. CASE f \in keys
    BY <1>2, <2>1, RelationsAssumption DEF ScanContent
  <2>2. CASE f \notin keys
    <3>1. current[f].active \in Revisions
      BY <1>2, <1>4, <1>5, <2>2, BoundAssumption DEF Exists, Revisions
    <3>2. versions[f][current[f].active] # None
      BY <1>2, <1>5, <2>2, OfRelation DEF RelationOK, Exists
    <3>3. versions[f][current[f].active] \in Row
      BY <1>2, <3>1, <3>2, OfRelation DEF RowsType
    <3> QED
      BY <2>2, <3>3 DEF ScanContent, Row
  <2> QED
    BY <2>1, <2>2
<1>9. ScanKind(f, keys) \in Kinds
  BY DEF ScanKind, Kinds
<1> QED
  BY <1>2, <1>3, <1>6, <1>7, <1>8, <1>9

\* A publication appends a revision to each key that came, left or returned.
LEMMA PublishSnapshotInv ==
    ASSUME IInv, NEW seen \in Snapshots, NEW keys \in SUBSET ForeignKeys,
           NEW scope \in Scopes, PublishSnapshot(seen, keys, scope)
    PROVE  IInv'
<1> DEFINE touched == Touched(keys, scope)
           n(f) == ScanRevision(f, keys)
           kind(f) == ScanKind(f, keys)
           row(f) == [kind |-> kind(f), content |-> ScanContent(f, keys)]
           projection(f) == [latest |-> n(f), active |-> n(f), proposed |-> 0,
                             status |-> ApprovedStatus(kind(f))]
           replaced(f) == ReplacementEvents(f, n(f), DecisionEvent(kind(f)), None)
<1>1. TypeOK /\ AllRelationsOK /\ (\A f \in ForeignKeys : KeyOK(f))
      /\ \A p \in prepared : PreparedOK(p, versions[p.relation], current[p.relation])
  BY InvariantByParts
<1>2. /\ versions' = [r \in Relations |->
             IF r \in touched THEN [versions[r] EXCEPT ![n(r)] = row(r)] ELSE versions[r]]
      /\ current' = [r \in Relations |->
             IF r \in touched THEN projection(r) ELSE current[r]]
      /\ edge' = [r \in Relations |->
             IF r \in touched THEN PublishedEdge(kind(r), n(r)) ELSE edge[r]]
      /\ events' = [r \in Relations |->
             IF r \in touched THEN events[r] \o replaced(r) ELSE events[r]]
      /\ columns' = (columns \ scope) \cup seen
      /\ keyPresent' = (keyPresent \ LostKeys(keys, scope)) \cup keys
      /\ prepared' = prepared
      /\ \A f \in touched : HasRoom(f)
  BY DEF PublishSnapshot, Touched, ScanContent
<1>3. \A f \in touched : /\ f \in ForeignKeys /\ f \in Relations
                         /\ n(f) = current[f].latest + 1
                         /\ n(f) \in Revisions
                         /\ kind(f) \in Kinds
                         /\ ScanContent(f, keys) \in Contents
                         /\ f \in keys \/ f \in LostKeys(keys, scope) \ keys
  BY <1>2, TouchedFacts
<1>4. TypeOK'
  <2>1. ASSUME NEW f \in touched
        PROVE  /\ [versions[f] EXCEPT ![n(f)] = row(f)] \in RowsType
               /\ projection(f) \in Projection
               /\ PublishedEdge(kind(f), n(f)) \in 0..MaxRevisions
               /\ replaced(f) \in Seq(Event)
    <3>1. row(f) \in Row
      BY <1>3 DEF Row
    <3>2. n(f) \in 0..MaxRevisions /\ 0 \in 0..MaxRevisions
      BY <1>3, BoundAssumption DEF Revisions
    <3>3. ApprovedStatus(kind(f)) \in Statuses /\ DecisionEvent(kind(f)) \in EventTypes
      BY <1>3, KindFacts
    <3>4. [versions[f] EXCEPT ![n(f)] = row(f)] \in RowsType
      BY <1>1, <1>3, <3>1 DEF TypeOK, RowsType
    <3>5. projection(f) \in Projection
      BY <3>2, <3>3 DEF Projection
    <3>6. PublishedEdge(kind(f), n(f)) \in 0..MaxRevisions
      BY <3>2 DEF PublishedEdge
    <3>7. replaced(f) \in Seq(Event)
      BY <1>1, <1>3, <3>3, ReplacementEventsType
    <3> QED
      BY <3>4, <3>5, <3>6, <3>7
  <2> HIDE DEF touched, n, kind, row, projection, replaced
  <2>2. versions' \in [Relations -> [Revisions -> Row \cup {None}]]
    BY <1>1, <1>2, <2>1 DEF TypeOK, RowsType
  <2>3. current' \in [Relations -> Projection]
    BY <1>1, <1>2, <2>1 DEF TypeOK
  <2>4. edge' \in [Relations -> 0..MaxRevisions]
    BY <1>1, <1>2, <2>1 DEF TypeOK
  <2>5. events' \in [Relations -> Seq(Event)]
    <3>1. \A r \in Relations : events[r] \in Seq(Event)
      BY <1>1 DEF TypeOK
    <3>2. \A s, t \in Seq(Event) : s \o t \in Seq(Event)
      OBVIOUS
    <3>3. \A r \in Relations : r \in touched => events[r] \o replaced(r) \in Seq(Event)
      BY <2>1, <3>1, <3>2
    <3> QED
      BY <1>2, <3>1, <3>3
  <2>6. columns' \in SUBSET Columns
    BY <1>1, <1>2, RelationsAssumption DEF TypeOK
  <2>7. keyPresent' \in SUBSET ForeignKeys /\ prepared' \in SUBSET Proposal
    BY <1>1, <1>2 DEF TypeOK
  <2> QED
    BY <2>2, <2>3, <2>4, <2>5, <2>6, <2>7 DEF TypeOK
<1>5. AllRelationsOK'
  <2> SUFFICES ASSUME NEW r \in Relations
               PROVE  RelationOK(versions'[r], current'[r], edge'[r])
    BY DEF AllRelationsOK
  <2>1. CASE r \in touched
    <3>1. RelationOK([versions[r] EXCEPT ![n(r)] = row(r)], projection(r),
                     PublishedEdge(kind(r), n(r)))
      BY <1>3, <2>1, OfRelation, ScannedOK
    <3> QED
      BY <1>2, <2>1, <3>1
  <2>2. CASE r \notin touched
    BY <1>1, <1>2, <2>2 DEF AllRelationsOK
  <2> QED
    BY <2>1, <2>2
<1>6. (\A f \in ForeignKeys : KeyOK(f))'
  <2> SUFFICES ASSUME NEW f \in ForeignKeys PROVE KeyOK(f)'
    OBVIOUS
  <2>1. f \in Relations /\ KeyOK(f)
    BY <1>1 DEF Relations
  <2>2. CASE f \in touched
    <3>1. current'[f] = projection(f)
      BY <1>2, <2>1, <2>2
    <3>2. n(f) > 0
      BY <1>3, <2>2, BoundAssumption DEF Revisions
    <3>3. CASE f \in keys
      <4>1. ApprovedStatus(kind(f)) = "Approved"
        BY <3>3 DEF ScanKind, ApprovedStatus
      <4>2. f \in keyPresent'
        BY <1>2, <3>3
      <4> QED
        BY <3>1, <3>2, <4>1, <4>2 DEF KeyOK, Exists
    <3>4. CASE f \in LostKeys(keys, scope) \ keys
      <4>1. ApprovedStatus(kind(f)) = "Tombstoned"
        BY <3>4 DEF ScanKind, ApprovedStatus
      <4>2. f \notin keyPresent'
        BY <1>2, <3>4
      <4> QED
        BY <3>1, <3>2, <4>1, <4>2 DEF KeyOK, Exists
    <3> QED
      BY <1>3, <2>2, <3>3, <3>4
  <2>3. CASE f \notin touched
    <3>1. current'[f] = current[f]
      BY <1>2, <2>1, <2>3
    <3>2. CASE f \in keys
      BY <1>2, <2>1, <2>3, <3>1, <3>2
      DEF KeyOK, Exists, Touched, NewKeys, Reactivated, ReturnedKeys
    <3>3. CASE f \in LostKeys(keys, scope) /\ f \notin keys
      BY <1>2, <2>1, <2>3, <3>1, <3>3
      DEF KeyOK, Exists, Touched, Removed
    <3>4. CASE f \notin LostKeys(keys, scope) /\ f \notin keys
      BY <1>2, <2>1, <3>1, <3>4 DEF KeyOK, Exists
    <3> QED
      BY <3>2, <3>3, <3>4
  <2> QED
    BY <2>2, <2>3
<1>7. (\A p \in prepared : PreparedOK(p, versions[p.relation], current[p.relation]))'
  <2> SUFFICES ASSUME NEW p \in prepared
               PROVE  PreparedOK(p, versions'[p.relation], current'[p.relation])
    BY <1>2
  <2>1. p.relation \in Relations /\ p.relation \notin touched
    BY <1>1, <1>3, RelationsAssumption DEF TypeOK, Proposal, Relations
  <2> QED
    BY <1>1, <1>2, <2>1
<1>8. (IInv <=> /\ TypeOK
                /\ AllRelationsOK
                /\ \A f \in ForeignKeys : KeyOK(f)
                /\ \A p \in prepared :
                     PreparedOK(p, versions[p.relation], current[p.relation]))'
  BY InvariantByParts, PTL
<1> QED
  BY <1>4, <1>5, <1>6, <1>7, <1>8

-----------------------------------------------------------------------------
(* The theorems. *)

\* Every transaction preserves the inductive invariant.
LEMMA StepInv == IInv /\ [Next]_vars => IInv'
<1> SUFFICES ASSUME IInv, [Next]_vars PROVE IInv'
  OBVIOUS
<1>1. CASE \E q \in Requests, r \in CodeRelations :
             \/ ProposeCreate(q, r)
             \/ /\ Cardinality(prepared) < MaxPrepared
                /\ \/ \E content \in Contents : PrepareRevision(q, r, content)
                   \/ \E kind \in {"Tombstone", "Stale"} : PrepareInvalidation(q, r, kind)
  BY <1>1, ProposeCreateInv, PrepareRevisionInv, PrepareInvalidationInv
<1>2. CASE \E p \in prepared : CommitProposal(p) \/ DropProposal(p)
  BY <1>2, CommitProposalInv, DropProposalInv
<1>3. CASE \E q \in Requests, r \in Relations, expected \in Revisions :
             \/ Reject(q, r, expected)
             \/ Approve(q, r, expected)
             \/ Suppress(q, r, expected)
             \/ Restore(q, r, expected)
  BY <1>3, RejectInv, ApproveInv, SuppressInv, RestoreInv
<1>4. CASE \E seen \in Snapshots, keys \in SUBSET ForeignKeys, scope \in Scopes :
             PublishSnapshot(seen, keys, scope)
  BY <1>4, PublishSnapshotInv
<1>5. CASE UNCHANGED vars
  BY <1>5 DEF vars, IInv, TypeOK, EffectiveIffApproved, ProjectionWellFormed,
     RowsUpToLatest, AbsentIsEmpty, KeysFollowMapping, InvalidationDescribesActive,
     PreparedStillDescribesActive, StillCurrent, Exists
<1> QED
  BY <1>1, <1>2, <1>3, <1>4, <1>5 DEF Next

\* What the tables promise, strengthened to be inductive, holds in every state the
\* store can reach.
THEOREM InvariantHolds == Spec => []IInv
BY InitInv, StepInv, PTL DEF Spec

\* Every revision number, status, event and prepared proposal stays within its domain.
THEOREM TypeCorrect == Spec => []TypeOK
<1>1. IInv => TypeOK
  BY DEF IInv
<1> QED
  BY <1>1, InvariantHolds, PTL

\* The pair-check triggers on relation_current never abort a command or a scan.
THEOREM ProjectionAlwaysWellFormed == Spec => []ProjectionWellFormed
<1>1. IInv => ProjectionWellFormed
  BY DEF IInv
<1> QED
  BY <1>1, InvariantHolds, PTL

\* Traversal reads the active revisions of the approved relations and nothing else.
THEOREM TraversalReadsApproved == Spec => []EffectiveIffApproved
<1>1. IInv => EffectiveIffApproved
  BY DEF IInv
<1> QED
  BY <1>1, InvariantHolds, PTL

\* A pending withdrawal, prepared from however old a read, repeats what is in force.
THEOREM InvalidationsAreFresh == Spec => []InvalidationDescribesActive
<1>1. IInv => InvalidationDescribesActive
  BY DEF IInv
<1> QED
  BY <1>1, InvariantHolds, PTL

\* A foreign key whose state follows its mapping can be reconciled by the next scan.
LEMMA ScansReconcile == IInv => ScanNeverRejected
<1> SUFFICES ASSUME IInv, NEW f \in ForeignKeys
             PROVE  /\ f \in Reactivated({f}) => CanReactivate(f)
                    /\ f \in keyPresent
                         /\ current[f].status \notin {"Suppressed", "Tombstoned"}
                         => CanRemove(f)
  BY DEF ScanNeverRejected
<1>1. f \in Relations /\ KeyOK(f)
  BY InvariantByParts DEF Relations
<1>2. RelationOK(versions[f], current[f], edge[f])
      /\ current[f].latest \in Nat /\ current[f].active \in Nat
  BY <1>1, OfRelation, BoundAssumption
<1>3. f \in Reactivated({f}) => CanReactivate(f)
  BY <1>1, <1>2 DEF Reactivated, ReturnedKeys, KeyOK, Exists, CanReactivate, RelationOK
<1>4. ASSUME f \in keyPresent, current[f].status \notin {"Suppressed", "Tombstoned"}
      PROVE  CanRemove(f)
  <2>1. /\ current[f].latest > 0 /\ current[f].active = current[f].latest
        /\ current[f].proposed = 0 /\ current[f].status = "Approved"
    BY <1>1, <1>4 DEF KeyOK, Exists
  <2>2. current[f].active < MaxRevisions => versions[f][current[f].active + 1] = None
    BY <1>2, <2>1, BoundAssumption DEF RelationOK, Revisions
  <2> QED
    BY <1>2, <2>1, <2>2 DEF CanRemove
<1> QED
  BY <1>3, <1>4

\* No sequence of reviews and scans leaves a foreign key that a later scan would fail on.
THEOREM ScansAlwaysReconcile == Spec => []ScanNeverRejected
BY InvariantHolds, ScansReconcile, PTL

-----------------------------------------------------------------------------
(* The store implements the reviewed graph.  What the abstract variables hold *)
(* of one relation is a function of its rows, its projection and its edge.    *)

PublishedOf(v, e) == IF e = 0 THEN None ELSE v[e].content

HiddenOf(v, c) == IF c.status = "Suppressed" THEN v[c.active].content ELSE None

ChangeOf(row) == IF row.kind = "Content" THEN row.content ELSE Withdraw

PendingOf(v, c) == IF c.proposed = 0 THEN None ELSE ChangeOf(v[c.proposed])

\* What the abstract variables hold of a relation that satisfies the invariant.
LEMMA ViewOf ==
    ASSUME NEW v \in RowsType, NEW c \in Projection, NEW e, RelationOK(v, c, e)
    PROVE  /\ c.active # 0 => v[c.active] \in Row
           /\ c.active \in 0..c.latest
           /\ IF c.status = "Approved"
              THEN c.active # 0 /\ e = c.active /\ PublishedOf(v, e) = v[c.active].content
              ELSE PublishedOf(v, e) = None
           /\ c.status = "Suppressed" =>
                c.active # 0 /\ HiddenOf(v, c) = v[c.active].content
           /\ c.status # "Suppressed" => HiddenOf(v, c) = None
           /\ c.proposed = 0 => PendingOf(v, c) = None
           /\ c.proposed # 0 => /\ v[c.proposed] \in Row
                                /\ PendingOf(v, c) = ChangeOf(v[c.proposed])
<1>1. c.latest \in 0..MaxRevisions /\ c.active \in 0..MaxRevisions
      /\ c.proposed \in 0..MaxRevisions /\ c.status \in Statuses
  BY DEF Projection
<1>2. c.active # 0 => c.active \in Revisions /\ v[c.active] # None /\ c.active <= c.latest
  <2> SUFFICES ASSUME c.active # 0
               PROVE  c.active \in Revisions /\ v[c.active] # None /\ c.active <= c.latest
    OBVIOUS
  <2>1. c.active \in Revisions /\ c.latest > 0
    BY <1>1, BoundAssumption DEF Revisions, RelationOK
  <2>2. v[c.active] # None
    BY <1>1, <2>1 DEF RelationOK, Statuses
  <2> QED
    BY <2>1, <2>2 DEF RelationOK
<1>3. c.proposed # 0 => v[c.proposed] \in Row
  <2> SUFFICES ASSUME c.proposed # 0 PROVE v[c.proposed] \in Row
    OBVIOUS
  <2>1. c.latest > 0 /\ c.proposed = c.latest /\ c.proposed \in Revisions
    BY <1>1, BoundAssumption DEF Revisions, RelationOK
  <2> QED
    BY <2>1 DEF RelationOK, RowsType
<1>4. c.status \in {"Approved", "Suppressed"} => c.latest > 0 /\ c.active # 0
  BY <1>1, BoundAssumption DEF RelationOK
<1>5. c.active # 0 => v[c.active] \in Row
  BY <1>2 DEF RowsType
<1>6. c.active \in 0..c.latest
  BY <1>1, <1>2, BoundAssumption
<1>7. IF c.status = "Approved"
      THEN c.active # 0 /\ e = c.active /\ PublishedOf(v, e) = v[c.active].content
      ELSE PublishedOf(v, e) = None
  BY <1>4 DEF RelationOK, PublishedOf
<1> QED
  BY <1>3, <1>4, <1>5, <1>6, <1>7 DEF HiddenOf, PendingOf

\* A row the store holds is never NULL in the abstract graph.
LEMMA RowViews ==
    ASSUME NEW row \in Row
    PROVE  /\ row.content \in Contents /\ row.content # None /\ row.content # Withdraw
           /\ ChangeOf(row) \in Contents \cup {Withdraw} /\ ChangeOf(row) # None
           /\ ChangeOf(row) = Withdraw <=> row.kind # "Content"
BY NoneAssumption, WithdrawAssumption DEF Row, ChangeOf

\* A pending revision appended after the latest one hides and publishes nothing, and
\* withdraws only what is in force.
LEMMA ProposedViews ==
    ASSUME NEW v \in RowsType, NEW c \in Projection, NEW e, RelationOK(v, c, e),
           c.latest < MaxRevisions, c.proposed = 0, NEW n, n = c.latest + 1,
           NEW row \in Row, row.kind # "Content" => c.status \in {"Approved", "Suppressed"},
           NEW w, w = [v EXCEPT ![n] = row],
           NEW d, d.proposed = n, d.active = c.active, d.status = c.status
    PROVE  /\ PublishedOf(w, e) = PublishedOf(v, e)
           /\ HiddenOf(w, d) = HiddenOf(v, c)
           /\ PendingOf(v, c) = None
           /\ PendingOf(w, d) = ChangeOf(row)
           /\ ChangeOf(row) \in Contents \cup {Withdraw}
           /\ ChangeOf(row) = Withdraw => PublishedOf(v, e) # None \/ HiddenOf(v, c) # None
<1>1. c.latest \in Nat /\ n \in Revisions /\ n # 0
  BY BoundAssumption DEF Projection, Revisions
<1>2. w[n] = row /\ \A m \in 0..MaxRevisions : m # n => w[m] = v[m]
  BY <1>1 DEF RowsType
<1>3. c.active \in 0..MaxRevisions /\ c.active # n
  BY <1>1, ViewOf DEF Projection
<1>4. e = 0 \/ e = c.active
  BY DEF RelationOK
<1>5. PublishedOf(w, e) = PublishedOf(v, e) /\ HiddenOf(w, d) = HiddenOf(v, c)
  BY <1>2, <1>3, <1>4 DEF PublishedOf, HiddenOf
<1>6. PendingOf(v, c) = None /\ PendingOf(w, d) = ChangeOf(row)
  BY <1>1, <1>2 DEF PendingOf
<1>7. ASSUME ChangeOf(row) = Withdraw
      PROVE  PublishedOf(v, e) # None \/ HiddenOf(v, c) # None
  <2>1. c.status \in {"Approved", "Suppressed"}
    BY <1>7, RowViews
  <2>2. v[c.active] \in Row /\ v[c.active].content # None
    BY <2>1, ViewOf, RowViews
  <2> QED
    BY <2>1, <2>2, ViewOf
<1> QED
  BY <1>5, <1>6, <1>7, RowViews

\* The abstract state of a relation, now and after the step.
LEMMA Views ==
    ASSUME NEW r \in Relations
    PROVE  /\ PublishedContent[r] = PublishedOf(versions[r], edge[r])
           /\ HiddenContent[r] = HiddenOf(versions[r], current[r])
           /\ PendingChange[r] = PendingOf(versions[r], current[r])
           /\ PublishedContent'[r] = PublishedOf(versions'[r], edge'[r])
           /\ HiddenContent'[r] = HiddenOf(versions'[r], current'[r])
           /\ PendingChange'[r] = PendingOf(versions'[r], current'[r])
BY DEF PublishedContent, HiddenContent, PendingChange,
       PublishedOf, HiddenOf, PendingOf, ChangeOf

\* Relations whose rows, projection and edge stay keep their abstract state.
LEMMA SameViews ==
    ASSUME NEW r \in Relations,
           versions'[r] = versions[r], current'[r] = current[r], edge'[r] = edge[r]
    PROVE  /\ PublishedContent'[r] = PublishedContent[r]
           /\ HiddenContent'[r] = HiddenContent[r]
           /\ PendingChange'[r] = PendingChange[r]
BY Views

\* The abstract variables are functions on the relations.
LEMMA ViewDomains ==
    /\ PublishedContent = [r \in Relations |-> PublishedContent[r]]
    /\ HiddenContent = [r \in Relations |-> HiddenContent[r]]
    /\ PendingChange = [r \in Relations |-> PendingChange[r]]
    /\ PublishedContent' = [r \in Relations |-> PublishedContent'[r]]
    /\ HiddenContent' = [r \in Relations |-> HiddenContent'[r]]
    /\ PendingChange' = [r \in Relations |-> PendingChange'[r]]
BY DEF PublishedContent, HiddenContent, PendingChange

\* New pending revisions of any set of relations are one proposal of the graph.
LEMMA ProposalsImplement ==
    ASSUME IInv, NEW P \in SUBSET CodeRelations, NEW row \in [P -> Row],
           \A r \in P : /\ current[r].proposed = 0
                        /\ current[r].latest < MaxRevisions
                        /\ row[r].kind # "Content" =>
                             current[r].status \in {"Approved", "Suppressed"}
                        /\ versions'[r] = [versions[r] EXCEPT ![current[r].latest + 1] = row[r]]
                        /\ current'[r].proposed = current[r].latest + 1
                        /\ current'[r].active = current[r].active
                        /\ current'[r].status = current[r].status,
           \A r \in Relations \ P : versions'[r] = versions[r] /\ current'[r] = current[r],
           edge' = edge
    PROVE  Graph!Next
<1> DEFINE changes == [r \in P |-> ChangeOf(row[r])]
<1>1. ASSUME NEW r \in P
      PROVE  /\ r \in Relations
             /\ PublishedContent'[r] = PublishedContent[r]
             /\ HiddenContent'[r] = HiddenContent[r]
             /\ PendingChange[r] = None
             /\ PendingChange'[r] = changes[r]
             /\ changes[r] \in Contents \cup {Withdraw}
             /\ changes[r] = Withdraw => PublishedContent[r] # None \/ HiddenContent[r] # None
  <2>1. r \in Relations /\ row[r] \in Row
    BY DEF Relations
  <2>2. /\ versions[r] \in RowsType /\ current[r] \in Projection
        /\ RelationOK(versions[r], current[r], edge[r])
    BY <2>1, OfRelation
  <2>3. /\ current[r].latest < MaxRevisions /\ current[r].proposed = 0
        /\ row[r].kind # "Content" => current[r].status \in {"Approved", "Suppressed"}
        /\ versions'[r] = [versions[r] EXCEPT ![current[r].latest + 1] = row[r]]
        /\ current'[r].proposed = current[r].latest + 1
        /\ current'[r].active = current[r].active
        /\ current'[r].status = current[r].status
    OBVIOUS
  <2> HIDE DEF changes
  <2>4. /\ PublishedOf(versions'[r], edge[r]) = PublishedOf(versions[r], edge[r])
        /\ HiddenOf(versions'[r], current'[r]) = HiddenOf(versions[r], current[r])
        /\ PendingOf(versions[r], current[r]) = None
        /\ PendingOf(versions'[r], current'[r]) = ChangeOf(row[r])
        /\ ChangeOf(row[r]) \in Contents \cup {Withdraw}
        /\ ChangeOf(row[r]) = Withdraw => \/ PublishedOf(versions[r], edge[r]) # None
                                          \/ HiddenOf(versions[r], current[r]) # None
    BY ONLY <2>1, <2>2, <2>3, ProposedViews
  <2> QED
    BY <2>1, <2>4, Views DEF changes
<1>2. ASSUME NEW r \in Relations \ P
      PROVE  /\ PublishedContent'[r] = PublishedContent[r]
             /\ HiddenContent'[r] = HiddenContent[r]
             /\ PendingChange'[r] = PendingChange[r]
  BY SameViews
<1>3. DOMAIN changes = P /\ changes \in [P -> Contents \cup {Withdraw}]
  BY <1>1
<1> HIDE DEF changes
<1>4. PendingChange' =
        [r \in Relations |-> IF r \in DOMAIN changes THEN changes[r] ELSE PendingChange[r]]
  BY <1>1, <1>2, <1>3, ViewDomains
<1>5. PublishedContent' = PublishedContent /\ HiddenContent' = HiddenContent
  <2>1. PublishedContent' = [r \in Relations |-> PublishedContent[r]]
    BY <1>1, <1>2, ViewDomains
  <2>2. HiddenContent' = [r \in Relations |-> HiddenContent[r]]
    BY <1>1, <1>2, ViewDomains
  <2> QED
    BY <2>1, <2>2, ViewDomains
<1>6. Graph!Propose(changes)
  BY <1>1, <1>3, <1>4, <1>5 DEF Graph!Propose, Graph!Relations, Relations
<1> QED
  BY <1>3, <1>6 DEF Graph!Next

\* A step that rewrites one relation changes the abstract state of that relation only.
LEMMA OneRelationViews ==
    ASSUME NEW r \in Relations,
           \A s \in Relations \ {r} : /\ versions'[s] = versions[s]
                                      /\ current'[s] = current[s]
                                      /\ edge'[s] = edge[s]
    PROVE  /\ PublishedContent' =
                [PublishedContent EXCEPT ![r] = PublishedOf(versions'[r], edge'[r])]
           /\ HiddenContent' =
                [HiddenContent EXCEPT ![r] = HiddenOf(versions'[r], current'[r])]
           /\ PendingChange' =
                [PendingChange EXCEPT ![r] = PendingOf(versions'[r], current'[r])]
<1>1. \A s \in Relations \ {r} : /\ PublishedContent'[s] = PublishedContent[s]
                                 /\ HiddenContent'[s] = HiddenContent[s]
                                 /\ PendingChange'[s] = PendingChange[s]
  BY SameViews
<1>2. PublishedContent' =
        [PublishedContent EXCEPT ![r] = PublishedOf(versions'[r], edge'[r])]
  BY <1>1, Views, ViewDomains
<1>3. HiddenContent' =
        [HiddenContent EXCEPT ![r] = HiddenOf(versions'[r], current'[r])]
  BY <1>1, Views, ViewDomains
<1>4. PendingChange' =
        [PendingChange EXCEPT ![r] = PendingOf(versions'[r], current'[r])]
  BY <1>1, Views, ViewDomains
<1> QED
  BY <1>2, <1>3, <1>4

\* An update that leaves a value as it was changes nothing.
LEMMA SameUpdates ==
    ASSUME NEW r \in Relations
    PROVE  /\ [PublishedContent EXCEPT ![r] = PublishedContent[r]] = PublishedContent
           /\ [HiddenContent EXCEPT ![r] = HiddenContent[r]] = HiddenContent
           /\ [PendingChange EXCEPT ![r] = PendingChange[r]] = PendingChange
<1>1. \A f : f = [s \in Relations |-> f[s]] => [f EXCEPT ![r] = f[r]] = f
  OBVIOUS
<1> QED
  BY <1>1, ViewDomains

\* The first proposal of a relation.
LEMMA ProposeCreateImplements ==
    ASSUME IInv, NEW q \in Requests, NEW r \in CodeRelations, ProposeCreate(q, r)
    PROVE  Graph!Next
<1> DEFINE new == [kind |-> "Content", content |-> FirstContent[r]]
           row == [x \in {r} |-> new]
<1>1. r \in Relations /\ TypeOK
  BY InvariantByParts DEF Relations
<1>2. current[r].latest = 0 /\ current[r].active = 0 /\ current[r].proposed = 0
      /\ current[r].status = "Pending"
  BY <1>1, OfRelation DEF ProposeCreate, Exists, RelationOK
<1>3. new \in Row
  BY <1>1, RelationsAssumption DEF Row, Kinds
<1>4. /\ versions'[r] = [versions[r] EXCEPT ![current[r].latest + 1] = new]
      /\ current'[r].proposed = current[r].latest + 1
      /\ current'[r].active = current[r].active /\ current'[r].status = current[r].status
  BY <1>1, <1>2 DEF ProposeCreate, TypeOK
<1>5. \A s \in Relations \ {r} : versions'[s] = versions[s] /\ current'[s] = current[s]
  BY <1>1 DEF ProposeCreate, TypeOK
<1>6. row \in [{r} -> Row] /\ row[r].kind = "Content" /\ row[r] = new
  BY <1>3
<1>7. edge' = edge /\ current[r].latest < MaxRevisions
  BY <1>2, BoundAssumption DEF ProposeCreate
<1> HIDE DEF row, new
<1> QED
  BY <1>2, <1>4, <1>5, <1>6, <1>7, ProposalsImplement, SMTT(30)

\* The commit of a prepared proposal, however old the read it was prepared from.
LEMMA CommitProposalImplements ==
    ASSUME IInv, NEW p \in prepared, CommitProposal(p)
    PROVE  Graph!Next
<1> DEFINE r == p.relation
           new == [kind |-> p.kind, content |-> p.content]
           row == [x \in {r} |-> new]
<1>1. TypeOK /\ p \in Proposal /\ r \in CodeRelations /\ r \in Relations
  BY InvariantByParts DEF Relations, TypeOK, Proposal
<1>2. p.expected = current[r].latest /\ current[r].proposed = 0
      /\ current[r].latest < MaxRevisions
  BY DEF CommitProposal, StillCurrent, HasRoom
<1>3. new \in Row
  BY <1>1 DEF Proposal, Row
<1>4. current[r] \in Projection
  BY <1>1, OfRelation
<1>5. /\ versions'[r] = [versions[r] EXCEPT ![current[r].latest + 1] = new]
      /\ current'[r].proposed = current[r].latest + 1
      /\ current'[r].active = current[r].active /\ current'[r].status = current[r].status
  BY <1>1, <1>2, <1>4 DEF CommitProposal, TypeOK, Projection
<1>6. \A s \in Relations \ {r} : versions'[s] = versions[s] /\ current'[s] = current[s]
  BY <1>1 DEF CommitProposal, TypeOK
<1>7. row \in [{r} -> Row] /\ row[r].kind = p.kind /\ row[r] = new
  BY <1>3
<1>8. edge' = edge
  BY DEF CommitProposal
<1>9. p.kind # "Content" => current[r].status \in {"Approved", "Suppressed"}
  BY <1>2, InvariantByParts DEF PreparedOK
<1> HIDE DEF row, new, r
<1> QED
  BY <1>1, <1>2, <1>5, <1>6, <1>7, <1>8, <1>9, ProposalsImplement

\* A rejection leaves the effective graph alone.
LEMMA RejectImplements ==
    ASSUME IInv, NEW q \in Requests, NEW r \in Relations, NEW expected \in Revisions,
           Reject(q, r, expected)
    PROVE  Graph!Next
<1>1. TypeOK /\ Reviewable(r, expected) /\ r \in CodeRelations
  BY InvariantByParts, PendingFacts DEF Reject, Relations
<1>2. /\ versions[r] \in RowsType /\ current[r] \in Projection
      /\ RelationOK(versions[r], current[r], edge[r])
      /\ current[r].proposed # 0
  BY <1>1, OfRelation DEF Reviewable
<1>3. /\ versions'[r] = versions[r] /\ edge'[r] = edge[r]
      /\ current'[r].active = current[r].active
      /\ current'[r].status = current[r].status
      /\ current'[r].proposed = 0
  BY <1>1, <1>2 DEF Reject, TypeOK, Projection
<1>4. \A s \in Relations \ {r} : /\ versions'[s] = versions[s]
                                 /\ current'[s] = current[s]
                                 /\ edge'[s] = edge[s]
  BY <1>1 DEF Reject, TypeOK
<1>5. PendingChange[r] # None
  BY <1>2, ViewOf, RowViews, Views
<1>6. /\ PublishedOf(versions'[r], edge'[r]) = PublishedContent[r]
      /\ HiddenOf(versions'[r], current'[r]) = HiddenContent[r]
      /\ PendingOf(versions'[r], current'[r]) = None
  BY <1>3, Views DEF HiddenOf, PendingOf
<1>7. Graph!Reject(r)
  BY <1>4, <1>5, <1>6, OneRelationViews, SameUpdates DEF Graph!Reject
<1> QED
  BY <1>1, <1>7 DEF Graph!Next

\* An approval publishes, or withdraws by, the very change that was pending.
LEMMA ApproveImplements ==
    ASSUME IInv, NEW q \in Requests, NEW r \in Relations, NEW expected \in Revisions,
           Approve(q, r, expected)
    PROVE  Graph!Next
<1> DEFINE n == current[r].proposed
           kind == versions[r][n].kind
<1>1. TypeOK /\ Reviewable(r, expected) /\ r \in CodeRelations
  BY InvariantByParts, PendingFacts, ApproveReads DEF Relations, Reviewable
<1>2. /\ versions[r] \in RowsType /\ current[r] \in Projection
      /\ RelationOK(versions[r], current[r], edge[r])
      /\ n # 0 /\ versions[r][n] \in Row
  BY <1>1, OfRelation, PendingFacts DEF Reviewable
<1>3. /\ versions'[r] = versions[r]
      /\ edge'[r] = PublishedEdge(kind, n)
      /\ current'[r].active = n
      /\ current'[r].status = ApprovedStatus(kind)
      /\ current'[r].proposed = 0
  BY <1>1, <1>2 DEF Approve, TypeOK, Projection
<1>4. \A s \in Relations \ {r} : /\ versions'[s] = versions[s]
                                 /\ current'[s] = current[s]
                                 /\ edge'[s] = edge[s]
  BY <1>1 DEF Approve, TypeOK
<1>5. PendingChange[r] = ChangeOf(versions[r][n]) /\ PendingChange[r] # None
  BY <1>2, ViewOf, RowViews, Views
<1>6. PublishedOf(versions'[r], edge'[r]) =
        IF PendingChange[r] = Withdraw THEN None ELSE PendingChange[r]
  BY <1>2, <1>3, <1>5, RowViews DEF PublishedOf, PublishedEdge, ChangeOf
<1>7. HiddenOf(versions'[r], current'[r]) = None
  BY <1>2, <1>3, KindFacts DEF HiddenOf, Row
<1>8. PendingOf(versions'[r], current'[r]) = None
  BY <1>3 DEF PendingOf
<1> HIDE DEF n, kind
<1>9. Graph!Approve(r)
  BY <1>4, <1>5, <1>6, <1>7, <1>8, OneRelationViews DEF Graph!Approve
<1> QED
  BY <1>1, <1>9, SMTT(30) DEF Graph!Next

\* A suppression hides what is published.
LEMMA SuppressImplements ==
    ASSUME IInv, NEW q \in Requests, NEW r \in Relations, NEW expected \in Revisions,
           Suppress(q, r, expected)
    PROVE  Graph!Next
<1>1. TypeOK
  BY InvariantByParts
<1>2. /\ versions[r] \in RowsType /\ current[r] \in Projection
      /\ RelationOK(versions[r], current[r], edge[r])
      /\ current[r].proposed = 0 /\ current[r].status = "Approved"
      /\ current[r].active # 0
  BY OfRelation DEF Suppress, StateChangeable
<1>3. /\ versions'[r] = versions[r] /\ edge'[r] = 0
      /\ current'[r].active = current[r].active
      /\ current'[r].status = "Suppressed"
      /\ current'[r].proposed = 0
  BY <1>1, <1>2 DEF Suppress, TypeOK, Projection
<1>4. \A s \in Relations \ {r} : /\ versions'[s] = versions[s]
                                 /\ current'[s] = current[s]
                                 /\ edge'[s] = edge[s]
  BY <1>1 DEF Suppress, TypeOK
<1>5. /\ PendingChange[r] = None /\ PublishedContent[r] # None
      /\ PublishedContent[r] = versions[r][current[r].active].content
  BY <1>2, ViewOf, RowViews, Views
<1>6. /\ PublishedOf(versions'[r], edge'[r]) = None
      /\ HiddenOf(versions'[r], current'[r]) = PublishedContent[r]
      /\ PendingOf(versions'[r], current'[r]) = PendingChange[r]
  BY <1>3, <1>5 DEF HiddenOf, PendingOf, PublishedOf
<1>7. Graph!Suppress(r)
  BY <1>4, <1>5, <1>6, OneRelationViews, SameUpdates DEF Graph!Suppress
<1> QED
  BY <1>7 DEF Graph!Next, Graph!Relations, Relations

\* A restoration brings back the very content that was suppressed.
LEMMA RestoreImplements ==
    ASSUME IInv, NEW q \in Requests, NEW r \in Relations, NEW expected \in Revisions,
           Restore(q, r, expected)
    PROVE  Graph!Next
<1>1. TypeOK
  BY InvariantByParts
<1>2. /\ versions[r] \in RowsType /\ current[r] \in Projection
      /\ RelationOK(versions[r], current[r], edge[r])
      /\ current[r].proposed = 0 /\ current[r].status = "Suppressed"
      /\ current[r].active # 0
  BY OfRelation DEF Restore, StateChangeable
<1>3. /\ versions'[r] = versions[r] /\ edge'[r] = current[r].active
      /\ current'[r].active = current[r].active
      /\ current'[r].status = "Approved"
      /\ current'[r].proposed = 0
  BY <1>1, <1>2 DEF Restore, TypeOK, Projection
<1>4. \A s \in Relations \ {r} : /\ versions'[s] = versions[s]
                                 /\ current'[s] = current[s]
                                 /\ edge'[s] = edge[s]
  BY <1>1 DEF Restore, TypeOK
<1>5. /\ PendingChange[r] = None /\ HiddenContent[r] # None
      /\ HiddenContent[r] = versions[r][current[r].active].content
  BY <1>2, ViewOf, RowViews, Views
<1>6. /\ PublishedOf(versions'[r], edge'[r]) = HiddenContent[r]
      /\ HiddenOf(versions'[r], current'[r]) = None
      /\ PendingOf(versions'[r], current'[r]) = PendingChange[r]
  BY <1>2, <1>3, <1>5 DEF HiddenOf, PendingOf, PublishedOf
<1>7. Graph!Restore(r)
  BY <1>4, <1>5, <1>6, OneRelationViews, SameUpdates DEF Graph!Restore
<1> QED
  BY <1>7 DEF Graph!Next, Graph!Relations, Relations

\* A publication makes the keys that appeared or returned traversable, and withdraws
\* the keys that are gone.
LEMMA PublishSnapshotImplements ==
    ASSUME IInv, NEW seen \in Snapshots, NEW keys \in SUBSET ForeignKeys,
           NEW scope \in Scopes, PublishSnapshot(seen, keys, scope)
    PROVE  Graph!Next
<1> DEFINE touched == Touched(keys, scope)
           appeared == NewKeys(keys) \cup Reactivated(keys)
           disappeared == Removed(keys, scope)
           n(f) == ScanRevision(f, keys)
           kind(f) == ScanKind(f, keys)
           row(f) == [kind |-> kind(f), content |-> ScanContent(f, keys)]
<1>1. /\ \A r \in Relations : r \in touched =>
           /\ versions'[r] = [versions[r] EXCEPT ![n(r)] = row(r)]
           /\ current'[r] = [latest |-> n(r), active |-> n(r), proposed |-> 0,
                             status |-> ApprovedStatus(kind(r))]
           /\ edge'[r] = PublishedEdge(kind(r), n(r))
      /\ \A r \in Relations : r \notin touched =>
           /\ versions'[r] = versions[r]
           /\ current'[r] = current[r]
           /\ edge'[r] = edge[r]
      /\ \A f \in touched : HasRoom(f)
      /\ \A f \in Reactivated(keys) : CanReactivate(f)
      /\ \A f \in disappeared : CanRemove(f)
  BY DEF PublishSnapshot, Touched, ScanContent
<1>2. touched = appeared \cup disappeared
      /\ appeared \subseteq keys /\ \A f \in disappeared : f \notin keys
  BY DEF Touched, NewKeys, Reactivated, ReturnedKeys, Removed, LostKeys
<1>3. \A f \in touched : /\ f \in ForeignKeys /\ f \in Relations
                         /\ n(f) \in Revisions
                         /\ ScanContent(f, keys) \in Contents
  BY <1>1, TouchedFacts
<1>4. ASSUME NEW f \in touched
      PROVE  /\ HiddenContent[f] = None /\ PendingChange[f] = None
             /\ f \in appeared => PublishedContent[f] = None
             /\ f \in disappeared => PublishedContent[f] # None
  <2>1. /\ f \in Relations /\ f \in ForeignKeys
        /\ versions[f] \in RowsType /\ current[f] \in Projection
        /\ RelationOK(versions[f], current[f], edge[f])
    BY <1>3, OfRelation
  <2>2. \/ f \in disappeared /\ current[f].status = "Approved" /\ current[f].proposed = 0
        \/ f \in NewKeys(keys) /\ current[f].status = "Pending" /\ current[f].proposed = 0
        \/ /\ f \in Reactivated(keys)
           /\ current[f].status = "Tombstoned" /\ current[f].proposed = 0
    <3>1. CASE f \in disappeared
      BY <1>1, <3>1 DEF CanRemove
    <3>2. CASE f \in NewKeys(keys)
      <4>1. current[f].latest = 0
        BY <2>1, <3>2, BoundAssumption DEF NewKeys, Exists, Projection
      <4> QED
        BY <2>1, <3>2, <4>1 DEF RelationOK
    <3>3. CASE f \in Reactivated(keys)
      BY <1>1, <3>3 DEF CanReactivate
    <3> QED
      BY <1>2, <3>1, <3>2, <3>3
  <2>3. /\ PublishedContent[f] = PublishedOf(versions[f], edge[f])
        /\ HiddenContent[f] = HiddenOf(versions[f], current[f])
        /\ PendingChange[f] = PendingOf(versions[f], current[f])
    BY <2>1, Views
  <2>4. HiddenContent[f] = None /\ PendingChange[f] = None
    BY <2>1, <2>2, <2>3, ViewOf
  <2>5. f \in appeared => PublishedContent[f] = None
    <3>1. f \in appeared => current[f].status # "Approved"
      BY <1>2, <2>2
    <3> QED
      BY <2>1, <2>3, <3>1, ViewOf
  <2>6. f \in disappeared => PublishedContent[f] # None
    <3>1. f \in disappeared => current[f].status = "Approved"
      BY <1>2, <2>2
    <3> QED
      BY <2>1, <2>3, <3>1, ViewOf, RowViews
  <2> QED
    BY <2>4, <2>5, <2>6
<1>5. ASSUME NEW f \in touched
      PROVE  /\ PublishedContent'[f] = IF f \in appeared THEN FirstContent[f] ELSE None
             /\ HiddenContent'[f] = None /\ PendingChange'[f] = None
  <2>1. /\ f \in Relations /\ n(f) \in Revisions /\ n(f) # 0
        /\ versions[f] \in RowsType
    BY <1>3, OfRelation, BoundAssumption DEF Revisions
  <2>2. /\ versions'[f][n(f)].content = ScanContent(f, keys)
        /\ current'[f].proposed = 0
        /\ current'[f].status = ApprovedStatus(kind(f))
        /\ edge'[f] = PublishedEdge(kind(f), n(f))
    <3>1. /\ versions'[f] = [versions[f] EXCEPT ![n(f)] = row(f)]
          /\ current'[f] = [latest |-> n(f), active |-> n(f), proposed |-> 0,
                            status |-> ApprovedStatus(kind(f))]
          /\ edge'[f] = PublishedEdge(kind(f), n(f))
      BY <1>1, <2>1
    <3>2. versions'[f][n(f)] = row(f)
      BY <2>1, <3>1 DEF RowsType
    <3> QED
      BY <3>1, <3>2
  <2>3. f \in appeared <=> f \in keys
    BY <1>2
  <2>4. ApprovedStatus(kind(f)) # "Suppressed"
    BY DEF ScanKind, ApprovedStatus
  <2>5. HiddenContent'[f] = None /\ PendingChange'[f] = None
    BY <2>1, <2>2, <2>4, Views DEF HiddenOf, PendingOf
  <2>6. PublishedContent'[f] = PublishedOf(versions'[f], edge'[f])
    BY <2>1, Views
  <2> HIDE DEF touched, appeared, disappeared, n
  <2>7. CASE f \in keys
    <3>1. edge'[f] = n(f) /\ ScanContent(f, keys) = FirstContent[f]
      BY <2>2, <2>7 DEF PublishedEdge, ScanKind, ScanContent
    <3> QED
      BY <2>1, <2>2, <2>3, <2>5, <2>6, <2>7, <3>1 DEF PublishedOf
  <2>8. CASE f \notin keys
    <3>1. edge'[f] = 0
      BY <2>2, <2>8 DEF PublishedEdge, ScanKind
    <3> QED
      BY <2>3, <2>5, <2>6, <2>8, <3>1 DEF PublishedOf
  <2> QED
    BY <2>5, <2>7, <2>8
<1>6. ASSUME NEW r \in Relations, r \notin touched
      PROVE  /\ PublishedContent'[r] = PublishedContent[r]
             /\ HiddenContent'[r] = HiddenContent[r]
             /\ PendingChange'[r] = PendingChange[r]
  BY <1>1, <1>6, SameViews
<1> HIDE DEF touched, appeared, disappeared, n, kind, row
<1>7. PublishedContent' = [r \in Relations |->
        IF r \in appeared THEN FirstContent[r]
        ELSE IF r \in disappeared THEN None ELSE PublishedContent[r]]
  BY <1>2, <1>5, <1>6, ViewDomains
<1>8. HiddenContent' = HiddenContent
  <2>1. HiddenContent' = [r \in Relations |-> HiddenContent[r]]
    BY <1>4, <1>5, <1>6, ViewDomains
  <2> QED
    BY <2>1, ViewDomains
<1>9. PendingChange' = PendingChange
  <2>1. PendingChange' = [r \in Relations |-> PendingChange[r]]
    BY <1>4, <1>5, <1>6, ViewDomains
  <2> QED
    BY <2>1, ViewDomains
<1>10. Graph!Scan(appeared, disappeared)
  BY <1>2, <1>4, <1>7, <1>8, <1>9 DEF Graph!Scan, Graph!Relations, Relations
<1> QED
  BY <1>2, <1>3, <1>10 DEF Graph!Next

\* Every transaction of the store is a step of the graph or leaves it as it is.
LEMMA StepImplements ==
    IInv /\ [Next]_vars => [Graph!Next]_(Graph!graphVars)
<1> SUFFICES ASSUME IInv, [Next]_vars PROVE Graph!Next \/ UNCHANGED Graph!graphVars
  OBVIOUS
<1>1. ASSUME UNCHANGED tables PROVE UNCHANGED Graph!graphVars
  BY <1>1 DEF tables, Graph!graphVars, PublishedContent, HiddenContent, PendingChange
<1>2. CASE \E q \in Requests, r \in CodeRelations :
             \/ ProposeCreate(q, r)
             \/ /\ Cardinality(prepared) < MaxPrepared
                /\ \/ \E content \in Contents : PrepareRevision(q, r, content)
                   \/ \E kind \in {"Tombstone", "Stale"} : PrepareInvalidation(q, r, kind)
  BY <1>1, <1>2, ProposeCreateImplements DEF PrepareRevision, PrepareInvalidation
<1>3. CASE \E p \in prepared : CommitProposal(p) \/ DropProposal(p)
  BY <1>1, <1>3, CommitProposalImplements DEF DropProposal
<1>4. CASE \E q \in Requests, r \in Relations, expected \in Revisions :
             \/ Reject(q, r, expected)
             \/ Approve(q, r, expected)
             \/ Suppress(q, r, expected)
             \/ Restore(q, r, expected)
  BY <1>4, RejectImplements, ApproveImplements, SuppressImplements, RestoreImplements
<1>5. CASE \E seen \in Snapshots, keys \in SUBSET ForeignKeys, scope \in Scopes :
             PublishSnapshot(seen, keys, scope)
  BY <1>5, PublishSnapshotImplements
<1>6. CASE UNCHANGED vars
  BY <1>1, <1>6 DEF vars, tables
<1> QED
  BY <1>2, <1>3, <1>4, <1>5, <1>6 DEF Next

\* The empty store is the empty graph.
LEMMA InitImplements == Init => Graph!Init
BY BoundAssumption DEF Init, Graph!Init, Graph!Relations, Relations,
   PublishedContent, HiddenContent, PendingChange

\* The relation store implements the reviewed graph: nothing but the approval of the one
\* pending change, a suppression, a restoration or a scan changes what traversal sees.
THEOREM StoreImplementsReviewedGraph == Spec => ImplementsReviewedGraph
<1>1. Spec => []IInv
  BY InvariantHolds
<1> QED
  BY <1>1, InitImplements, StepImplements, PTL
  DEF Spec, ImplementsReviewedGraph, Graph!Spec

-----------------------------------------------------------------------------
(* The event log determines the projection.  A transaction appends one or two *)
(* events to the log of a relation; what a replay finds follows from the last *)
(* events of three sets of types, so the invariant carries that they exist.   *)

ProposalTypes == Decisions \cup {"Proposed", "Rejected"}
StatusTypes   == Decisions \cup {"Suppressed", "Restored"}

IsLast(log, types, i) ==
    /\ i \in {0} \cup {j \in DOMAIN log : log[j].type \in types}
    /\ \A j \in DOMAIN log : log[j].type \in types => j <= i

HasLast(log, types) == IsLast(log, types, LastOf(log, types))

\* What the log of a relation says about its projection, strengthened: the decided
\* revisions have been handed out, none of them is the pending one, and the active
\* revision is one of them.
HistoryOK(log, c) ==
    /\ HasLast(log, Decisions) /\ HasLast(log, ProposalTypes) /\ HasLast(log, StatusTypes)
    /\ c.active = ReplayedActive(log)
    /\ c.proposed = ReplayedProposed(log)
    /\ c.status = ReplayedStatus(log)
    /\ VersionsOf(log, {"Superseded"}) = VersionsOf(log, Decisions) \ {c.active}
    /\ \A n \in VersionsOf(log, Decisions) :
          n \in Revisions /\ n <= c.latest /\ (c.proposed # 0 => n # c.proposed)
    /\ c.active # 0 => c.active \in VersionsOf(log, Decisions)

AllHistoriesOK == \A r \in Relations : HistoryOK(events[r], current[r])

\* The last event of some types is determined by being the last one.
LEMMA LastIsUnique ==
    ASSUME NEW log \in Seq(Event), NEW types, NEW i, IsLast(log, types, i)
    PROVE  LastOf(log, types) = i /\ HasLast(log, types)
<1> DEFINE S == {0} \cup {j \in DOMAIN log : log[j].type \in types}
<1>1. DOMAIN log \subseteq Nat /\ \A j \in DOMAIN log : j >= 1
  OBVIOUS
<1>2. i \in S /\ S \subseteq Nat /\ \A j \in S : i >= j
  BY <1>1 DEF IsLast
<1>3. \A k \in S : (\A j \in S : k >= j) => k = i
  BY <1>2
<1> HIDE DEF S
<1>4. Max(S) = i
  BY <1>2, <1>3 DEF Max
<1>5. LastOf(log, types) = i
  BY <1>4 DEF LastOf, S
<1> QED
  BY <1>5 DEF HasLast

\* An event that is appended becomes the last one of its types.
LEMMA AppendLast ==
    ASSUME NEW log \in Seq(Event), NEW e \in Event, NEW types, HasLast(log, types)
    PROVE  /\ HasLast(Append(log, e), types)
           /\ LastOf(Append(log, e), types) =
                IF e.type \in types THEN Len(log) + 1 ELSE LastOf(log, types)
<1> DEFINE new == Append(log, e)
           i == IF e.type \in types THEN Len(log) + 1 ELSE LastOf(log, types)
<1>1. /\ new \in Seq(Event) /\ Len(log) \in Nat
      /\ DOMAIN log = 1..Len(log) /\ DOMAIN new = 1..(Len(log) + 1)
      /\ new[Len(log) + 1] = e
      /\ \A j \in 1..Len(log) : new[j] = log[j]
  OBVIOUS
<1>2. IsLast(log, types, LastOf(log, types))
  BY DEF HasLast
<1> HIDE DEF new
<1>3. IsLast(new, types, i)
  <2>1. CASE e.type \in types
    BY <1>1, <2>1 DEF IsLast
  <2>2. CASE e.type \notin types
    BY <1>1, <1>2, <2>2 DEF IsLast
  <2> QED
    BY <2>1, <2>2
<1>4. LastOf(new, types) = i /\ HasLast(new, types)
  BY <1>1, <1>3, LastIsUnique
<1> QED
  BY <1>4 DEF new

\* The versions that the events of some types name.
LEMMA AppendVersions ==
    ASSUME NEW log \in Seq(Event), NEW e \in Event, NEW types
    PROVE  VersionsOf(Append(log, e), types) =
             VersionsOf(log, types) \cup IF e.type \in types THEN {e.version} ELSE {}
<1> DEFINE new == Append(log, e)
<1>1. /\ new \in Seq(Event) /\ Len(log) \in Nat
      /\ DOMAIN log = 1..Len(log) /\ DOMAIN new = 1..(Len(log) + 1)
      /\ new[Len(log) + 1] = e
      /\ \A j \in 1..Len(log) : new[j] = log[j]
  OBVIOUS
<1> HIDE DEF new
<1>2. VersionsOf(new, types) =
             VersionsOf(log, types) \cup IF e.type \in types THEN {e.version} ELSE {}
  BY <1>1 DEF VersionsOf
<1> QED
  BY <1>2 DEF new

\* What a replay finds after an event is appended.
LEMMA AppendReplay ==
    ASSUME NEW log \in Seq(Event), NEW e \in Event,
           HasLast(log, Decisions), HasLast(log, ProposalTypes), HasLast(log, StatusTypes),
           NEW new, new = Append(log, e)
    PROVE  /\ new \in Seq(Event)
           /\ HasLast(new, Decisions)
           /\ HasLast(new, ProposalTypes)
           /\ HasLast(new, StatusTypes)
           /\ ReplayedActive(new) =
                IF e.type \in Decisions THEN e.version ELSE ReplayedActive(log)
           /\ ReplayedProposed(new) =
                IF e.type = "Proposed" THEN e.version
                ELSE IF e.type \in ProposalTypes THEN 0 ELSE ReplayedProposed(log)
           /\ ReplayedStatus(new) =
                IF e.type = "Restored" THEN "Approved"
                ELSE IF e.type \in StatusTypes THEN e.type ELSE ReplayedStatus(log)
           /\ VersionsOf(new, Decisions) = VersionsOf(log, Decisions) \cup
                IF e.type \in Decisions THEN {e.version} ELSE {}
           /\ VersionsOf(new, {"Superseded"}) = VersionsOf(log, {"Superseded"}) \cup
                IF e.type = "Superseded" THEN {e.version} ELSE {}
<1>1. /\ new \in Seq(Event) /\ Len(log) \in Nat
      /\ DOMAIN log = 1..Len(log) /\ DOMAIN new = 1..(Len(log) + 1)
      /\ new[Len(log) + 1] = e
      /\ \A j \in 1..Len(log) : new[j] = log[j]
  OBVIOUS
<1>2. ASSUME NEW types, HasLast(log, types)
      PROVE  /\ HasLast(new, types)
             /\ LastOf(new, types) =
                  IF e.type \in types THEN Len(log) + 1 ELSE LastOf(log, types)
             /\ LastOf(log, types) \in {0} \cup 1..Len(log)
  BY <1>1, <1>2, AppendLast DEF HasLast, IsLast
<1>3. ReplayedActive(new) =
        IF e.type \in Decisions THEN e.version ELSE ReplayedActive(log)
  BY <1>1, <1>2 DEF ReplayedActive
<1>4. ReplayedProposed(new) =
        IF e.type = "Proposed" THEN e.version
        ELSE IF e.type \in ProposalTypes THEN 0 ELSE ReplayedProposed(log)
  BY <1>1, <1>2 DEF ReplayedProposed, ProposalTypes, Decisions
<1>5. ReplayedStatus(new) =
        IF e.type = "Restored" THEN "Approved"
        ELSE IF e.type \in StatusTypes THEN e.type ELSE ReplayedStatus(log)
  BY <1>1, <1>2 DEF ReplayedStatus, StatusTypes, Decisions
<1>6. /\ VersionsOf(new, Decisions) = VersionsOf(log, Decisions) \cup
           IF e.type \in Decisions THEN {e.version} ELSE {}
      /\ VersionsOf(new, {"Superseded"}) = VersionsOf(log, {"Superseded"}) \cup
           IF e.type \in {"Superseded"} THEN {e.version} ELSE {}
  BY AppendVersions
<1> QED
  BY <1>1, <1>2, <1>3, <1>4, <1>5, <1>6

\* A proposal is pending until it is decided.
LEMMA ProposedHistory ==
    ASSUME NEW log \in Seq(Event), NEW c, HistoryOK(log, c), c.latest \in Nat,
           NEW n \in Revisions, n = c.latest + 1,
           NEW e \in Event, e.type = "Proposed", e.version = n,
           NEW d, d.latest = n, d.proposed = n, d.active = c.active, d.status = c.status
    PROVE  HistoryOK(Append(log, e), d)
<1>1. n > c.latest /\ \A m \in VersionsOf(log, Decisions) : m \in Nat /\ m < n
  BY BoundAssumption DEF HistoryOK, Revisions
<1>2. e.type \notin Decisions /\ e.type \in ProposalTypes /\ e.type \notin StatusTypes
      /\ e.type # "Restored" /\ e.type # "Superseded"
  BY DEF Decisions, ProposalTypes, StatusTypes
<1> DEFINE new == Append(log, e)
<1>3. HasLast(log, Decisions) /\ HasLast(log, ProposalTypes) /\ HasLast(log, StatusTypes)
  BY DEF HistoryOK
<1>4. /\ HasLast(new, Decisions) /\ HasLast(new, ProposalTypes) /\ HasLast(new, StatusTypes)
      /\ ReplayedActive(new) = ReplayedActive(log)
      /\ ReplayedProposed(new) = n
      /\ ReplayedStatus(new) = ReplayedStatus(log)
      /\ VersionsOf(new, Decisions) = VersionsOf(log, Decisions)
      /\ VersionsOf(new, {"Superseded"}) = VersionsOf(log, {"Superseded"})
  BY <1>2, <1>3, AppendReplay
<1> HIDE DEF new
<1>5. \A m \in VersionsOf(new, Decisions) : m \in Revisions /\ m <= d.latest /\ m # d.proposed
  BY <1>1, <1>4 DEF HistoryOK
<1>6. HistoryOK(new, d)
  BY <1>4, <1>5 DEF HistoryOK
<1> QED
  BY <1>6 DEF new

\* A rejection leaves nothing pending.
LEMMA RejectedHistory ==
    ASSUME NEW log \in Seq(Event), NEW c, HistoryOK(log, c),
           NEW e \in Event, e.type = "Rejected",
           NEW d, d.latest = c.latest, d.proposed = 0, d.active = c.active,
           d.status = c.status
    PROVE  HistoryOK(Append(log, e), d)
<1>1. e.type \notin Decisions /\ e.type \in ProposalTypes /\ e.type \notin StatusTypes
      /\ e.type # "Restored" /\ e.type # "Proposed" /\ e.type # "Superseded"
  BY DEF Decisions, ProposalTypes, StatusTypes
<1> DEFINE new == Append(log, e)
<1>2. HasLast(log, Decisions) /\ HasLast(log, ProposalTypes) /\ HasLast(log, StatusTypes)
  BY DEF HistoryOK
<1>3. /\ HasLast(new, Decisions) /\ HasLast(new, ProposalTypes) /\ HasLast(new, StatusTypes)
      /\ ReplayedActive(new) = ReplayedActive(log)
      /\ ReplayedProposed(new) = 0
      /\ ReplayedStatus(new) = ReplayedStatus(log)
      /\ VersionsOf(new, Decisions) = VersionsOf(log, Decisions)
      /\ VersionsOf(new, {"Superseded"}) = VersionsOf(log, {"Superseded"})
  BY <1>1, <1>2, AppendReplay
<1> HIDE DEF new
<1>4. HistoryOK(new, d)
  BY <1>3 DEF HistoryOK
<1> QED
  BY <1>4 DEF new

\* A suppression or restoration changes the status, and nothing else.
LEMMA StateChangedHistory ==
    ASSUME NEW log \in Seq(Event), NEW c, HistoryOK(log, c),
           NEW e \in Event, e.type \in {"Suppressed", "Restored"},
           NEW d, d.latest = c.latest, d.proposed = c.proposed, d.active = c.active,
           d.status = IF e.type = "Suppressed" THEN "Suppressed" ELSE "Approved"
    PROVE  HistoryOK(Append(log, e), d)
<1>1. e.type \notin Decisions /\ e.type \notin ProposalTypes /\ e.type \in StatusTypes
      /\ e.type # "Proposed" /\ e.type # "Superseded"
  BY DEF Decisions, ProposalTypes, StatusTypes
<1> DEFINE new == Append(log, e)
<1>2. HasLast(log, Decisions) /\ HasLast(log, ProposalTypes) /\ HasLast(log, StatusTypes)
  BY DEF HistoryOK
<1>3. /\ HasLast(new, Decisions) /\ HasLast(new, ProposalTypes) /\ HasLast(new, StatusTypes)
      /\ ReplayedActive(new) = ReplayedActive(log)
      /\ ReplayedProposed(new) = ReplayedProposed(log)
      /\ ReplayedStatus(new) = d.status
      /\ VersionsOf(new, Decisions) = VersionsOf(log, Decisions)
      /\ VersionsOf(new, {"Superseded"}) = VersionsOf(log, {"Superseded"})
  BY <1>1, <1>2, AppendReplay, ZenonT(60)
<1> HIDE DEF new
<1>4. HistoryOK(new, d)
  BY <1>3 DEF HistoryOK
<1> QED
  BY <1>4 DEF new

\* A revision that replaces the active one is decided, and marks it as superseded.
LEMMA ReplacedHistory ==
    ASSUME NEW log \in Seq(Event), NEW c, HistoryOK(log, c), c.latest \in Nat,
           NEW n \in Revisions, n = c.proposed \/ n = c.latest + 1,
           NEW kind \in Kinds, NEW e \in Event,
           e.type = DecisionEvent(kind), e.version = n,
           NEW o, c.active # 0 => o \in Event /\ o.type = "Superseded" /\ o.version = c.active,
           NEW d, d.latest >= n, d.latest >= c.latest, d.latest \in Nat,
           d.proposed = 0, d.active = n, d.status = ApprovedStatus(kind)
    PROVE  HistoryOK(log \o (<<e>> \o IF c.active = 0 THEN <<>> ELSE <<o>>), d)
<1>1. /\ e.type \in Decisions /\ e.type \in ProposalTypes /\ e.type \in StatusTypes
      /\ e.type # "Restored" /\ e.type # "Proposed" /\ e.type # "Superseded"
      /\ e.type = ApprovedStatus(kind)
  BY DEF Decisions, ProposalTypes, StatusTypes, Kinds, DecisionEvent, ApprovedStatus
<1>2. /\ n # 0 /\ n \notin VersionsOf(log, Decisions)
      /\ 0 \notin VersionsOf(log, Decisions)
      /\ \A m \in VersionsOf(log, Decisions) : m \in Revisions /\ m <= d.latest
  BY BoundAssumption DEF HistoryOK, Revisions
<1> DEFINE mid == Append(log, e)
           new == Append(mid, o)
<1>3. HasLast(log, Decisions) /\ HasLast(log, ProposalTypes) /\ HasLast(log, StatusTypes)
  BY DEF HistoryOK
<1>4. /\ mid \in Seq(Event)
      /\ HasLast(mid, Decisions) /\ HasLast(mid, ProposalTypes) /\ HasLast(mid, StatusTypes)
      /\ ReplayedActive(mid) = n
      /\ ReplayedProposed(mid) = 0
      /\ ReplayedStatus(mid) = d.status
      /\ VersionsOf(mid, Decisions) = VersionsOf(log, Decisions) \cup {n}
      /\ VersionsOf(mid, {"Superseded"}) = VersionsOf(log, {"Superseded"})
  BY <1>1, <1>3, AppendReplay, ZenonT(60)
<1>5. CASE c.active = 0
  <2>1. log \o (<<e>> \o <<>>) = mid
    OBVIOUS
  <2> HIDE DEF mid
  <2>2. HistoryOK(mid, d)
    BY <1>2, <1>4, <1>5 DEF HistoryOK
  <2> QED
    BY <1>5, <2>1, <2>2
<1>6. CASE c.active # 0
  <2>1. o \in Event /\ o.type = "Superseded" /\ o.version = c.active
    BY <1>6
  <2>2. /\ o.type \notin Decisions /\ o.type \notin ProposalTypes
        /\ o.type \notin StatusTypes /\ o.type # "Restored" /\ o.type # "Proposed"
    BY <2>1 DEF Decisions, ProposalTypes, StatusTypes
  <2>3. log \o (<<e>> \o <<o>>) = new
    BY <2>1
  <2>4. /\ HasLast(new, Decisions) /\ HasLast(new, ProposalTypes) /\ HasLast(new, StatusTypes)
        /\ ReplayedActive(new) = n
        /\ ReplayedProposed(new) = 0
        /\ ReplayedStatus(new) = d.status
        /\ VersionsOf(new, Decisions) = VersionsOf(log, Decisions) \cup {n}
        /\ VersionsOf(new, {"Superseded"}) = VersionsOf(log, {"Superseded"}) \cup {c.active}
    <3>1. new = Append(mid, o)
      OBVIOUS
    <3> HIDE DEF mid, new
    <3>2. /\ HasLast(new, Decisions) /\ HasLast(new, ProposalTypes)
          /\ HasLast(new, StatusTypes)
          /\ ReplayedActive(new) = ReplayedActive(mid)
          /\ ReplayedProposed(new) = ReplayedProposed(mid)
          /\ ReplayedStatus(new) = ReplayedStatus(mid)
          /\ VersionsOf(new, Decisions) = VersionsOf(mid, Decisions)
          /\ VersionsOf(new, {"Superseded"}) = VersionsOf(mid, {"Superseded"}) \cup {o.version}
      BY <1>4, <2>1, <2>2, <3>1, AppendReplay, ZenonT(60)
    <3> QED
      BY <1>4, <2>1, <3>2
  <2> HIDE DEF mid, new
  <2>5. VersionsOf(new, {"Superseded"}) = VersionsOf(new, Decisions) \ {n}
    BY <1>2, <1>6, <2>4 DEF HistoryOK
  <2>6. HistoryOK(new, d)
    BY <1>2, <2>4, <2>5 DEF HistoryOK
  <2> QED
    BY <1>6, <2>3, <2>6
<1> QED
  BY <1>5, <1>6

\* A step that appends to the log of one relation only.
LEMMA OneHistoryStep ==
    ASSUME AllHistoriesOK, NEW r \in Relations,
           \A s \in Relations \ {r} : events'[s] = events[s] /\ current'[s] = current[s],
           HistoryOK(events'[r], current'[r])
    PROVE  AllHistoriesOK'
BY DEF AllHistoriesOK

\* A relation without events has the projection it starts with.
LEMMA InitHistory == Init => AllHistoriesOK
<1> SUFFICES ASSUME Init, NEW r \in Relations PROVE HistoryOK(events[r], current[r])
  BY DEF AllHistoriesOK
<1>1. events[r] = <<>> /\ current[r].active = 0 /\ current[r].proposed = 0
      /\ current[r].status = "Pending"
  BY DEF Init
<1>2. \A types : IsLast(<<>>, types, 0)
  BY DEF IsLast
<1>3. ASSUME NEW types PROVE LastOf(<<>>, types) = 0 /\ HasLast(<<>>, types)
  <2>1. <<>> \in Seq(Event) /\ IsLast(<<>>, types, 0)
    BY <1>2
  <2> QED
    BY <2>1, LastIsUnique
<1>4. \A types : VersionsOf(<<>>, types) = {}
  BY DEF VersionsOf
<1> QED
  BY <1>1, <1>3, <1>4 DEF HistoryOK, ReplayedActive, ReplayedProposed, ReplayedStatus

\* The first proposal of a relation.
LEMMA ProposeCreateHistory ==
    ASSUME IInv, AllHistoriesOK, NEW q \in Requests, NEW r \in CodeRelations,
           ProposeCreate(q, r)
    PROVE  AllHistoriesOK'
<1>1. TypeOK /\ r \in Relations
  BY InvariantByParts DEF Relations
<1>2. /\ current[r].latest = 0 /\ current[r].active = 0 /\ current[r].proposed = 0
      /\ current[r].status = "Pending"
  BY <1>1, OfRelation DEF ProposeCreate, Exists, RelationOK
<1>3. events[r] \in Seq(Event) /\ HistoryOK(events[r], current[r])
      /\ 1 \in Revisions /\ q \in Requests \cup {None}
  BY <1>1, BoundAssumption DEF TypeOK, AllHistoriesOK, Revisions
<1>4. Entry("Proposed", 1, q) \in Event
  BY <1>3 DEF Entry, Event, EventTypes
<1>5. /\ events'[r] = Append(events[r], Entry("Proposed", 1, q))
      /\ current'[r] = [latest |-> 1, active |-> 0, proposed |-> 1, status |-> "Pending"]
      /\ \A s \in Relations \ {r} : events'[s] = events[s] /\ current'[s] = current[s]
  BY <1>1 DEF ProposeCreate, TypeOK
<1>6. HistoryOK(events'[r], current'[r])
  <2> DEFINE entry == Entry("Proposed", 1, q)
             c == current[r]
             d == current'[r]
  <2>1. entry.type = "Proposed" /\ entry.version = 1
    BY DEF Entry
  <2>2. /\ d.latest = 1 /\ d.proposed = 1 /\ d.active = c.active /\ d.status = c.status
        /\ c.latest \in Nat /\ 1 = c.latest + 1
    BY <1>2, <1>5
  <2>3. entry \in Event /\ HistoryOK(events[r], c)
    BY <1>3, <1>4
  <2> HIDE DEF entry, c, d
  <2>4. HistoryOK(Append(events[r], entry), d)
    BY <1>3, <2>1, <2>2, <2>3, ProposedHistory
  <2> QED
    BY <1>5, <2>4 DEF entry, d
<1> QED
  BY <1>1, <1>5, <1>6, OneHistoryStep

\* The commit of a prepared proposal.
LEMMA CommitProposalHistory ==
    ASSUME IInv, AllHistoriesOK, NEW p \in prepared, CommitProposal(p)
    PROVE  AllHistoriesOK'
<1> DEFINE r == p.relation
           n == p.expected + 1
           entry == Entry("Proposed", n, p.request)
<1>1. TypeOK /\ p \in Proposal /\ r \in Relations
  BY InvariantByParts DEF Relations, TypeOK, Proposal
<1>2. /\ p.expected = current[r].latest /\ current[r] \in Projection
      /\ current[r].latest \in Nat /\ n \in Revisions /\ n = current[r].latest + 1
  BY <1>1, OfRelation, BoundAssumption
  DEF CommitProposal, StillCurrent, HasRoom, Projection, Revisions
<1>3. events[r] \in Seq(Event) /\ HistoryOK(events[r], current[r])
  BY <1>1 DEF TypeOK, AllHistoriesOK
<1>4. entry \in Event /\ entry.type = "Proposed" /\ entry.version = n
  BY <1>1, <1>2 DEF Entry, Event, EventTypes, Proposal
<1>5. /\ events'[r] = Append(events[r], entry)
      /\ current'[r] = [current[r] EXCEPT !.latest = n, !.proposed = n]
      /\ \A s \in Relations \ {r} : events'[s] = events[s] /\ current'[s] = current[s]
  BY <1>1 DEF CommitProposal, TypeOK
<1>6. /\ current'[r].latest = n /\ current'[r].proposed = n
      /\ current'[r].active = current[r].active /\ current'[r].status = current[r].status
  BY <1>2, <1>5 DEF Projection
<1> HIDE DEF r, n, entry
<1>7. HistoryOK(Append(events[r], entry), current'[r])
  BY <1>2, <1>3, <1>4, <1>6, ProposedHistory
<1> QED
  BY <1>1, <1>5, <1>7, OneHistoryStep DEF r

\* The rejection of the pending revision.
LEMMA RejectHistory ==
    ASSUME IInv, AllHistoriesOK, NEW q \in Requests, NEW r \in Relations,
           NEW expected \in Revisions, Reject(q, r, expected)
    PROVE  AllHistoriesOK'
<1>1. TypeOK /\ current[r] \in Projection
  BY InvariantByParts, OfRelation
<1>2. events[r] \in Seq(Event) /\ HistoryOK(events[r], current[r])
  BY <1>1 DEF TypeOK, AllHistoriesOK
<1>3. /\ Entry("Rejected", expected, q) \in Event
      /\ Entry("Rejected", expected, q).type = "Rejected"
  BY DEF Entry, Event, EventTypes
<1>4. /\ events'[r] = Append(events[r], Entry("Rejected", expected, q))
      /\ current'[r] = [current[r] EXCEPT !.proposed = 0]
      /\ \A s \in Relations \ {r} : events'[s] = events[s] /\ current'[s] = current[s]
  BY <1>1 DEF Reject, TypeOK
<1>5. /\ current'[r].latest = current[r].latest /\ current'[r].proposed = 0
      /\ current'[r].active = current[r].active /\ current'[r].status = current[r].status
  BY <1>1, <1>4 DEF Projection
<1>6. HistoryOK(events'[r], current'[r])
  <2> DEFINE log == events[r]
             c == current[r]
             d == current'[r]
             e == Entry("Rejected", expected, q)
  <2>1. log \in Seq(Event) /\ HistoryOK(log, c) /\ e \in Event /\ e.type = "Rejected"
    BY <1>2, <1>3
  <2>2. /\ d.latest = c.latest /\ d.proposed = 0
        /\ d.active = c.active /\ d.status = c.status
    BY <1>5
  <2>3. events'[r] = Append(log, e)
    BY <1>4
  <2> HIDE DEF log, c, d, e
  <2>4. HistoryOK(Append(log, e), d)
    BY <2>1, <2>2, RejectedHistory
  <2> QED
    BY <2>3, <2>4 DEF d
<1> QED
  BY <1>4, <1>6, OneHistoryStep

\* The approval of the pending revision.
LEMMA ApproveHistory ==
    ASSUME IInv, AllHistoriesOK, NEW q \in Requests, NEW r \in Relations,
           NEW expected \in Revisions, Approve(q, r, expected)
    PROVE  AllHistoriesOK'
<1> DEFINE n == current[r].proposed
           kind == versions[r][n].kind
           entry == Entry(DecisionEvent(kind), n, q)
           old == Entry("Superseded", current[r].active, q)
<1>1. TypeOK /\ current[r] \in Projection /\ Reviewable(r, expected)
  BY InvariantByParts, OfRelation, ApproveReads
<1>2. n \in Revisions /\ kind \in Kinds /\ DecisionEvent(kind) \in EventTypes
      /\ n = current[r].latest /\ current[r].latest \in Nat
  BY <1>1, PendingFacts, KindFacts, BoundAssumption DEF Row, Revisions, Reviewable
<1>3. events[r] \in Seq(Event) /\ HistoryOK(events[r], current[r])
  BY <1>1 DEF TypeOK, AllHistoriesOK
<1>4. entry \in Event /\ entry.type = DecisionEvent(kind) /\ entry.version = n
  BY <1>2 DEF Entry, Event
<1>5. current[r].active # 0 =>
        old \in Event /\ old.type = "Superseded" /\ old.version = current[r].active
  BY <1>1, BoundAssumption, SMTT(30) DEF Entry, Event, EventTypes, Projection, Revisions
<1>6. /\ events'[r] = events[r] \o (<<entry>> \o IF current[r].active = 0 THEN <<>> ELSE <<old>>)
      /\ current'[r] = [current[r] EXCEPT !.active = n, !.proposed = 0,
                                          !.status = ApprovedStatus(kind)]
      /\ \A s \in Relations \ {r} : events'[s] = events[s] /\ current'[s] = current[s]
  BY <1>1 DEF Approve, TypeOK, ReplacementEvents
<1>7. /\ current'[r].latest = current[r].latest /\ current'[r].proposed = 0
      /\ current'[r].active = n /\ current'[r].status = ApprovedStatus(kind)
  BY <1>1, <1>6 DEF Projection
<1>8. HistoryOK(events'[r], current'[r])
  <2>1. current'[r].latest >= n /\ current'[r].latest >= current[r].latest
        /\ current'[r].latest \in Nat
    BY <1>2, <1>7
  <2>2. n = current[r].proposed
    OBVIOUS
  <2> HIDE DEF n, kind, entry, old
  <2>3. HistoryOK(events[r] \o (<<entry>> \o IF current[r].active = 0 THEN <<>> ELSE <<old>>),
                  current'[r])
    BY <1>2, <1>3, <1>4, <1>5, <1>7, <2>1, <2>2, ReplacedHistory
  <2> QED
    BY <1>6, <2>3
<1> QED
  BY <1>6, <1>8, OneHistoryStep

\* Suppression and restoration, up to the direction of the change.
LEMMA StateChangeHistory ==
    ASSUME IInv, AllHistoriesOK, NEW r \in Relations, NEW q \in Requests,
           NEW type \in {"Suppressed", "Restored"}, current[r].active # 0,
           events' = [events EXCEPT ![r] = Append(@, Entry(type, current[r].active, q))],
           current' = [current EXCEPT ![r] =
             [@ EXCEPT !.status = IF type = "Suppressed" THEN "Suppressed" ELSE "Approved"]]
    PROVE  AllHistoriesOK'
<1> DEFINE entry == Entry(type, current[r].active, q)
<1>1. TypeOK /\ current[r] \in Projection
  BY InvariantByParts, OfRelation
<1>2. events[r] \in Seq(Event) /\ HistoryOK(events[r], current[r])
  BY <1>1 DEF TypeOK, AllHistoriesOK
<1>3. entry \in Event /\ entry.type = type
  BY <1>1, BoundAssumption DEF Entry, Event, EventTypes, Projection, Revisions
<1>4. /\ events'[r] = Append(events[r], entry)
      /\ current'[r] = [current[r] EXCEPT
           !.status = IF type = "Suppressed" THEN "Suppressed" ELSE "Approved"]
      /\ \A s \in Relations \ {r} : events'[s] = events[s] /\ current'[s] = current[s]
  BY <1>1 DEF TypeOK
<1>5. /\ current'[r].latest = current[r].latest
      /\ current'[r].proposed = current[r].proposed
      /\ current'[r].active = current[r].active
      /\ current'[r].status = IF type = "Suppressed" THEN "Suppressed" ELSE "Approved"
  BY <1>1, <1>4 DEF Projection
<1> HIDE DEF entry
<1>6. HistoryOK(Append(events[r], entry), current'[r])
  BY <1>2, <1>3, <1>5, StateChangedHistory
<1> QED
  BY <1>4, <1>6, OneHistoryStep

\* A publication appends to the log of every foreign key it touches.
LEMMA PublishSnapshotHistory ==
    ASSUME IInv, AllHistoriesOK, NEW seen \in Snapshots, NEW keys \in SUBSET ForeignKeys,
           NEW scope \in Scopes, PublishSnapshot(seen, keys, scope)
    PROVE  AllHistoriesOK'
<1> DEFINE touched == Touched(keys, scope)
           n(f) == ScanRevision(f, keys)
           kind(f) == ScanKind(f, keys)
<1>1. /\ \A r \in Relations : r \in touched =>
           /\ current'[r] = [latest |-> n(r), active |-> n(r), proposed |-> 0,
                             status |-> ApprovedStatus(kind(r))]
           /\ events'[r] =
                events[r] \o ReplacementEvents(r, n(r), DecisionEvent(kind(r)), None)
      /\ \A r \in Relations : r \notin touched =>
           current'[r] = current[r] /\ events'[r] = events[r]
      /\ \A f \in touched : HasRoom(f)
  BY DEF PublishSnapshot, Touched
<1> SUFFICES ASSUME NEW f \in Relations PROVE HistoryOK(events'[f], current'[f])
  BY DEF AllHistoriesOK
<1>2. CASE f \in touched
  <2> DEFINE entry == Entry(DecisionEvent(kind(f)), n(f), None)
             old == Entry("Superseded", current[f].active, None)
  <2>1. /\ n(f) = current[f].latest + 1 /\ n(f) \in Revisions /\ kind(f) \in Kinds
        /\ current[f] \in Projection /\ current[f].latest \in Nat /\ TypeOK
    BY <1>1, <1>2, TouchedFacts, OfRelation, InvariantByParts, BoundAssumption
    DEF Projection
  <2>2. events[f] \in Seq(Event) /\ HistoryOK(events[f], current[f])
    BY <2>1 DEF TypeOK, AllHistoriesOK
  <2>3. DecisionEvent(kind(f)) \in EventTypes
    BY <2>1, KindFacts
  <2>4. entry \in Event /\ entry.type = DecisionEvent(kind(f)) /\ entry.version = n(f)
    BY <2>1, <2>3 DEF Entry, Event
  <2>5. current[f].active # 0 =>
          old \in Event /\ old.type = "Superseded" /\ old.version = current[f].active
    BY <2>1, BoundAssumption DEF Entry, Event, EventTypes, Projection, Revisions
  <2>6. /\ events'[f] =
             events[f] \o (<<entry>> \o IF current[f].active = 0 THEN <<>> ELSE <<old>>)
        /\ current'[f].latest = n(f) /\ current'[f].active = n(f)
        /\ current'[f].proposed = 0 /\ current'[f].status = ApprovedStatus(kind(f))
    <3>1. /\ current'[f] = [latest |-> n(f), active |-> n(f), proposed |-> 0,
                            status |-> ApprovedStatus(kind(f))]
          /\ events'[f] =
               events[f] \o ReplacementEvents(f, n(f), DecisionEvent(kind(f)), None)
      BY <1>1, <1>2
    <3> HIDE DEF n, kind
    <3> QED
      BY <3>1 DEF ReplacementEvents
  <2>7. current'[f].latest >= n(f) /\ current'[f].latest >= current[f].latest
        /\ current'[f].latest \in Nat
    BY <2>1, <2>6 DEF Revisions
  <2> HIDE DEF entry, old, n, kind
  <2>8. HistoryOK(events[f] \o (<<entry>> \o IF current[f].active = 0 THEN <<>> ELSE <<old>>),
                  current'[f])
    BY <2>1, <2>2, <2>4, <2>5, <2>6, <2>7, ReplacedHistory
  <2> QED
    BY <2>6, <2>8
<1>3. CASE f \notin touched
  BY <1>1, <1>3 DEF AllHistoriesOK
<1> QED
  BY <1>2, <1>3

\* Every transaction keeps the logs and the projections in step.
LEMMA StepHistory == IInv /\ AllHistoriesOK /\ [Next]_vars => AllHistoriesOK'
<1> SUFFICES ASSUME IInv, AllHistoriesOK, [Next]_vars PROVE AllHistoriesOK'
  OBVIOUS
<1>1. ASSUME UNCHANGED tables PROVE AllHistoriesOK'
  BY <1>1 DEF tables, AllHistoriesOK
<1>2. CASE \E q \in Requests, r \in CodeRelations :
             \/ ProposeCreate(q, r)
             \/ /\ Cardinality(prepared) < MaxPrepared
                /\ \/ \E content \in Contents : PrepareRevision(q, r, content)
                   \/ \E kind \in {"Tombstone", "Stale"} : PrepareInvalidation(q, r, kind)
  BY <1>1, <1>2, ProposeCreateHistory DEF PrepareRevision, PrepareInvalidation
<1>3. CASE \E p \in prepared : CommitProposal(p) \/ DropProposal(p)
  BY <1>1, <1>3, CommitProposalHistory DEF DropProposal
<1>4. CASE \E q \in Requests, r \in Relations, expected \in Revisions :
             \/ Reject(q, r, expected)
             \/ Approve(q, r, expected)
             \/ Suppress(q, r, expected)
             \/ Restore(q, r, expected)
  <2> SUFFICES ASSUME NEW q \in Requests, NEW r \in Relations, NEW expected \in Revisions,
                      \/ Reject(q, r, expected)
                      \/ Approve(q, r, expected)
                      \/ Suppress(q, r, expected)
                      \/ Restore(q, r, expected)
               PROVE  AllHistoriesOK'
    BY <1>4
  <2>1. CASE Reject(q, r, expected) \/ Approve(q, r, expected)
    BY <2>1, RejectHistory, ApproveHistory
  <2>2. CASE Suppress(q, r, expected)
    BY <2>2, StateChangeHistory DEF Suppress, StateChangeable
  <2>3. CASE Restore(q, r, expected)
    BY <2>3, StateChangeHistory DEF Restore, StateChangeable
  <2> QED
    BY <2>1, <2>2, <2>3
<1>5. CASE \E seen \in Snapshots, keys \in SUBSET ForeignKeys, scope \in Scopes :
             PublishSnapshot(seen, keys, scope)
  BY <1>5, PublishSnapshotHistory
<1>6. CASE UNCHANGED vars
  BY <1>1, <1>6 DEF vars, tables
<1> QED
  BY <1>2, <1>3, <1>4, <1>5, <1>6 DEF Next

\* Replaying the append-only history of a relation gives its projection, after any
\* sequence of commands, reviews and scans.
THEOREM HistoryReplays == Spec => []HistoryDeterminesProjection
<1>1. AllHistoriesOK => HistoryDeterminesProjection
  BY DEF AllHistoriesOK, HistoryOK, HistoryDeterminesProjection
<1>2. Spec => []AllHistoriesOK
  BY InvariantHolds, InitHistory, StepHistory, PTL DEF Spec
<1> QED
  BY <1>1, <1>2, PTL

-----------------------------------------------------------------------------
(* Revisions and events are append-only, and what a transaction may change of *)
(* the effective edges.                                                       *)

RowsKept == \A r \in Relations : \A n \in Revisions :
                versions[r][n] # None => versions'[r][n] = versions[r][n]

\* A log that is continued begins as it was.
LEMMA ContinuedLog ==
    ASSUME NEW log \in Seq(Event), NEW more \in Seq(Event)
    PROVE  /\ Len(log) <= Len(log \o more)
           /\ SubSeq(log \o more, 1, Len(log)) = log
<1>1. /\ log \o more \in Seq(Event) /\ Len(log \o more) = Len(log) + Len(more)
      /\ Len(log) \in Nat /\ Len(more) \in Nat
      /\ \A i \in 1..Len(log) : (log \o more)[i] = log[i]
  OBVIOUS
<1> DEFINE whole == log \o more
           part == SubSeq(whole, 1, Len(log))
<1>2. part \in Seq(Event) /\ Len(part) = Len(log)
      /\ \A i \in 1..Len(log) : part[i] = whole[i]
  BY <1>1
<1> HIDE DEF part
<1>3. part = log
  BY <1>1, <1>2
<1> QED
  BY <1>1, <1>3 DEF part

\* The two halves of the property, each as the transactions establish it.
LEMMA KeptByParts ==
    ASSUME TypeOK, RowsKept,
           \A r \in Relations : \E more \in Seq(Event) : events'[r] = events[r] \o more
    PROVE  HistoryKept
<1> SUFFICES ASSUME NEW r \in Relations
             PROVE  /\ Len(events[r]) <= Len(events'[r])
                    /\ SubSeq(events'[r], 1, Len(events[r])) = events[r]
  BY DEF HistoryKept, RowsKept
<1>1. PICK more \in Seq(Event) : events'[r] = events[r] \o more
  OBVIOUS
<1>2. events[r] \in Seq(Event)
  BY DEF TypeOK
<1> QED
  BY <1>1, <1>2, ContinuedLog

\* A transaction that writes one row, behind the latest, and one part of a log.
LEMMA OneRelationKept ==
    ASSUME IInv, NEW r \in Relations, NEW more \in Seq(Event),
           events'[r] = events[r] \o more,
           \A n \in Revisions : n <= current[r].latest => versions'[r][n] = versions[r][n],
           \A s \in Relations \ {r} : events'[s] = events[s] /\ versions'[s] = versions[s]
    PROVE  HistoryKept
<1>1. TypeOK /\ RowsUpToLatest
  BY DEF IInv
<1>2. RowsKept
  BY <1>1 DEF RowsKept, RowsUpToLatest
<1>3. \A s \in Relations : events[s] \in Seq(Event)
  BY <1>1 DEF TypeOK
<1>4. \A s \in Relations : events[s] = events[s] \o <<>> /\ <<>> \in Seq(Event)
  BY <1>3
<1>5. ASSUME NEW s \in Relations
      PROVE  \E x \in Seq(Event) : events'[s] = events[s] \o x
  BY <1>4, <1>5
<1> QED
  BY <1>1, <1>2, <1>5, KeptByParts

\* An event that is appended continues the log.
LEMMA AppendedIsContinued ==
    ASSUME NEW log \in Seq(Event), NEW e \in Event
    PROVE  <<e>> \in Seq(Event) /\ Append(log, e) = log \o <<e>>
OBVIOUS

\* Proposals add the revision behind the latest.
LEMMA ProposalKept ==
    ASSUME IInv, NEW r \in Relations, NEW q \in Requests, NEW row,
           NEW n, n = current[r].latest + 1, n \in Revisions,
           versions' = [versions EXCEPT ![r] = [@ EXCEPT ![n] = row]],
           events' = [events EXCEPT ![r] = Append(@, Entry("Proposed", n, q))]
    PROVE  HistoryKept
<1>1. TypeOK /\ current[r].latest \in Nat
  BY OfRelation, BoundAssumption DEF IInv
<1>2. events \in [Relations -> Seq(Event)] /\ versions \in [Relations -> RowsType]
  BY <1>1 DEF TypeOK, RowsType
<1>3. Entry("Proposed", n, q) \in Event
  BY DEF Entry, Event, EventTypes
<1> DEFINE e == Entry("Proposed", n, q)
<1> HIDE DEF e
<1>4. events'[r] = events[r] \o <<e>> /\ <<e>> \in Seq(Event)
  BY <1>2, <1>3, AppendedIsContinued DEF e
<1>5. \A m \in Revisions : m <= current[r].latest => versions'[r][m] = versions[r][m]
  BY <1>1, <1>2 DEF RowsType, Revisions
<1>6. \A s \in Relations \ {r} : events'[s] = events[s] /\ versions'[s] = versions[s]
  BY <1>2
<1> QED
  BY <1>4, <1>5, <1>6, OneRelationKept

\* Reviews and changes of state write no row and continue one log.
LEMMA DecisionKept ==
    ASSUME IInv, NEW r \in Relations, NEW more \in Seq(Event),
           versions' = versions,
           events' = [events EXCEPT ![r] = @ \o more]
    PROVE  HistoryKept
<1>1. TypeOK
  BY DEF IInv
<1>2. events \in [Relations -> Seq(Event)]
  BY <1>1 DEF TypeOK
<1>3. events'[r] = events[r] \o more /\ \A s \in Relations \ {r} : events'[s] = events[s]
  BY <1>2
<1> QED
  BY <1>3, OneRelationKept

\* A scan adds the revision behind the latest to each key it touches.
LEMMA PublishSnapshotKept ==
    ASSUME IInv, NEW seen \in Snapshots, NEW keys \in SUBSET ForeignKeys,
           NEW scope \in Scopes, PublishSnapshot(seen, keys, scope)
    PROVE  HistoryKept
<1> DEFINE touched == Touched(keys, scope)
           n(f) == ScanRevision(f, keys)
           kind(f) == ScanKind(f, keys)
           more(f) == ReplacementEvents(f, n(f), DecisionEvent(kind(f)), None)
<1>1. /\ \A r \in Relations : r \in touched =>
           /\ versions'[r] = [versions[r] EXCEPT ![n(r)] =
                                [kind |-> kind(r), content |-> ScanContent(r, keys)]]
           /\ events'[r] = events[r] \o more(r)
      /\ \A r \in Relations : r \notin touched =>
           versions'[r] = versions[r] /\ events'[r] = events[r]
      /\ \A f \in touched : HasRoom(f)
  BY DEF PublishSnapshot, Touched, ScanContent
<1>2. TypeOK /\ RowsUpToLatest
  BY DEF IInv
<1>3. ASSUME NEW f \in Relations, f \in touched
      PROVE  /\ n(f) = current[f].latest + 1 /\ n(f) \in Revisions /\ current[f].latest \in Nat
             /\ more(f) \in Seq(Event)
  <2>1. /\ n(f) = current[f].latest + 1 /\ n(f) \in Revisions /\ kind(f) \in Kinds
        /\ current[f].latest \in Nat
    BY <1>1, <1>3, TouchedFacts, OfRelation, BoundAssumption
  <2>2. DecisionEvent(kind(f)) \in EventTypes
    BY <2>1, KindFacts
  <2> HIDE DEF n, kind
  <2>3. more(f) \in Seq(Event)
    BY <1>2, <2>1, <2>2, ReplacementEventsType
  <2> QED
    BY <2>1, <2>3
<1> HIDE DEF touched, n, kind, more
<1>4. RowsKept
  <2> SUFFICES ASSUME NEW r \in Relations, NEW m \in Revisions, versions[r][m] # None
               PROVE  versions'[r][m] = versions[r][m]
    BY DEF RowsKept
  <2>1. m <= current[r].latest
    BY <1>2 DEF RowsUpToLatest
  <2>2. CASE r \in touched
    <3>1. m # n(r)
      BY <1>3, <2>1, <2>2 DEF Revisions
    <3> QED
      BY <1>1, <1>2, <2>2, <3>1, ZenonT(60) DEF TypeOK
  <2>3. CASE r \notin touched
    BY <1>1, <2>3
  <2> QED
    BY <2>2, <2>3
<1>5. ASSUME NEW r \in Relations
      PROVE  \E x \in Seq(Event) : events'[r] = events[r] \o x
  <2>1. events[r] \in Seq(Event)
    BY <1>2 DEF TypeOK
  <2>2. events[r] = events[r] \o <<>> /\ <<>> \in Seq(Event)
    BY <2>1
  <2> QED
    BY <1>1, <1>3, <2>2
<1> QED
  BY <1>2, <1>4, <1>5, KeptByParts

\* What a decision appends to the log of its relation.
LEMMA ReviewKept ==
    ASSUME IInv, NEW q \in Requests, NEW r \in Relations, NEW expected \in Revisions,
           \/ Reject(q, r, expected) \/ Approve(q, r, expected)
           \/ Suppress(q, r, expected) \/ Restore(q, r, expected)
    PROVE  HistoryKept
<1>1. TypeOK /\ current[r].active \in 0..MaxRevisions /\ current[r].proposed \in 0..MaxRevisions
  BY OfRelation DEF IInv
<1>2. events \in [Relations -> Seq(Event)] /\ events[r] \in Seq(Event)
  BY <1>1 DEF TypeOK
<1>3. ASSUME NEW type \in EventTypes, NEW m \in Revisions, versions' = versions,
             events' = [events EXCEPT ![r] = Append(@, Entry(type, m, q))]
      PROVE  HistoryKept
  <2>1. Entry(type, m, q) \in Event
    BY DEF Entry, Event
  <2>2. /\ <<Entry(type, m, q)>> \in Seq(Event)
        /\ Append(events[r], Entry(type, m, q)) = events[r] \o <<Entry(type, m, q)>>
    BY <1>2, <2>1, AppendedIsContinued
  <2>3. events' = [events EXCEPT ![r] = @ \o <<Entry(type, m, q)>>]
    BY <1>3, <2>2
  <2> QED
    BY <1>3, <2>2, <2>3, DecisionKept
<1>4. CASE Reject(q, r, expected)
  BY <1>3, <1>4 DEF Reject, EventTypes
<1>5. CASE Suppress(q, r, expected) \/ Restore(q, r, expected)
  <2>1. current[r].active \in Revisions
    BY <1>1, <1>5, BoundAssumption DEF Suppress, Restore, StateChangeable, Revisions
  <2> QED
    BY <1>3, <1>5, <2>1 DEF Suppress, Restore, EventTypes
<1>6. CASE Approve(q, r, expected)
  <2> DEFINE n == current[r].proposed
             kind == versions[r][n].kind
  <2>5. Reviewable(r, expected)
    BY <1>6, ApproveReads
  <2>1. n \in Revisions /\ kind \in Kinds
    <3>1. n \in Revisions
      BY <1>1, <2>5, BoundAssumption, SMTT(30) DEF Reviewable, Revisions
    <3>2. versions[r][n] # None
      BY <2>5, <3>1, OfRelation, ZenonT(60) DEF Reviewable, Exists, RelationOK
    <3> QED
      BY <1>1, <3>1, <3>2 DEF TypeOK, Row
  <2>2. DecisionEvent(kind) \in EventTypes
    BY <2>1, KindFacts, SMTT(30)
  <2>3. versions' = versions
        /\ events' = [events EXCEPT ![r] =
                         events[r] \o ReplacementEvents(r, n, DecisionEvent(kind), q)]
    BY <1>6, ApproveReads, ApproveWrites, ZenonT(60)
  <2> HIDE DEF n, kind
  <2>4. ReplacementEvents(r, n, DecisionEvent(kind), q) \in Seq(Event)
    BY <1>1, <2>1, <2>2, ReplacementEventsType
  <2> QED
    BY <2>3, <2>4, DecisionKept
<1> QED
  BY <1>4, <1>5, <1>6

\* No transaction rewrites a revision or an event.
LEMMA StepKept == IInv /\ [Next]_vars => HistoryKept
<1> SUFFICES ASSUME IInv, [Next]_vars PROVE HistoryKept
  OBVIOUS
<1>1. TypeOK
  BY DEF IInv
<1>2. ASSUME UNCHANGED tables PROVE HistoryKept
  <2>1. \A r \in Relations : events[r] \in Seq(Event)
    BY <1>1 DEF TypeOK
  <2>2. \A r \in Relations : events[r] = events[r] \o <<>> /\ <<>> \in Seq(Event)
    BY <2>1
  <2>3. RowsKept /\ \A r \in Relations : \E more \in Seq(Event) : events'[r] = events[r] \o more
    BY <1>2, <2>2 DEF RowsKept, tables
  <2> QED
    BY <1>1, <2>3, KeptByParts
<1>3. ASSUME NEW q \in Requests, NEW r \in CodeRelations, ProposeCreate(q, r)
      PROVE  HistoryKept
  <2>1. r \in Relations /\ current[r].latest \in Nat /\ current[r].latest = 0 /\ 1 \in Revisions
    BY <1>3, OfRelation, BoundAssumption DEF Relations, ProposeCreate, Exists, Revisions
  <2>2. 1 = current[r].latest + 1
    BY <2>1
  <2> QED
    BY <1>3, <2>1, <2>2, ProposalKept DEF ProposeCreate
<1>4. ASSUME NEW p \in prepared, CommitProposal(p)
      PROVE  HistoryKept
  <2>1. p \in Proposal /\ p.relation \in Relations /\ p.request \in Requests
    BY <1>1 DEF TypeOK, Proposal, Relations
  <2>2. p.expected = current[p.relation].latest /\ current[p.relation].latest \in Nat
        /\ p.expected + 1 \in Revisions
    BY <1>4, <2>1, OfRelation, BoundAssumption DEF CommitProposal, StillCurrent, HasRoom, Revisions
  <2> QED
    BY <1>4, <2>1, <2>2, ProposalKept DEF CommitProposal
<1>5. CASE \E q \in Requests, r \in CodeRelations :
             \/ ProposeCreate(q, r)
             \/ /\ Cardinality(prepared) < MaxPrepared
                /\ \/ \E content \in Contents : PrepareRevision(q, r, content)
                   \/ \E kind \in {"Tombstone", "Stale"} : PrepareInvalidation(q, r, kind)
  BY <1>2, <1>3, <1>5 DEF PrepareRevision, PrepareInvalidation
<1>6. CASE \E p \in prepared : CommitProposal(p) \/ DropProposal(p)
  BY <1>2, <1>4, <1>6 DEF DropProposal
<1>7. CASE \E q \in Requests, r \in Relations, expected \in Revisions :
             \/ Reject(q, r, expected)
             \/ Approve(q, r, expected)
             \/ Suppress(q, r, expected)
             \/ Restore(q, r, expected)
  BY <1>7, ReviewKept
<1>8. CASE \E seen \in Snapshots, keys \in SUBSET ForeignKeys, scope \in Scopes :
             PublishSnapshot(seen, keys, scope)
  BY <1>8, PublishSnapshotKept
<1>9. CASE UNCHANGED vars
  BY <1>2, <1>9 DEF vars, tables
<1> QED
  BY <1>5, <1>6, <1>7, <1>8, <1>9 DEF Next

\* The triggers that keep relation_versions and relation_events append-only never
\* refuse a transaction: no sequence of proposals, reviews and scans rewrites a
\* revision or an event, from however old a read it was prepared.
THEOREM HistoryIsAppendOnly == Spec => HistoryNeverRewritten
<1>1. IInv /\ [Next]_vars => [HistoryKept]_tables
  BY StepKept
<1> QED
  BY <1>1, InvariantHolds, PTL DEF Spec, HistoryNeverRewritten

\* A review, a proposal or a change of state touches the edge of one relation at most,
\* and a scan only those of declared foreign keys.
LEMMA StepChangesEdges ==
    ASSUME IInv, Next
    PROVE  \/ \E r \in Relations : \A s \in Relations \ {r} : edge'[s] = edge[s]
           \/ \A s \in CodeRelations : edge'[s] = edge[s]
<1>1. TypeOK
  BY DEF IInv
<1>2. CASE edge' = edge
  BY <1>2, SMTT(30)
<1>3. ASSUME NEW q \in Requests, NEW r \in Relations, NEW expected \in Revisions,
             \/ Reject(q, r, expected)
             \/ Approve(q, r, expected)
             \/ Suppress(q, r, expected)
             \/ Restore(q, r, expected)
      PROVE  \A s \in Relations \ {r} : edge'[s] = edge[s]
  BY <1>1, <1>3 DEF TypeOK, Reject, Approve, Suppress, Restore
<1>4. ASSUME NEW seen \in Snapshots, NEW keys \in SUBSET ForeignKeys, NEW scope \in Scopes,
             PublishSnapshot(seen, keys, scope)
      PROVE  \A s \in CodeRelations : edge'[s] = edge[s]
  <2>1. edge' = [r \in Relations |->
                   IF r \in Touched(keys, scope)
                   THEN PublishedEdge(ScanKind(r, keys), ScanRevision(r, keys)) ELSE edge[r]]
    BY <1>4 DEF PublishSnapshot, Touched
  <2>2. Touched(keys, scope) \subseteq ForeignKeys
    BY <1>1 DEF Touched, NewKeys, Reactivated, ReturnedKeys, Removed, LostKeys, TypeOK
  <2> QED
    BY <2>1, <2>2, RelationsAssumption DEF Relations
<1>5. CASE \E q \in Requests, r \in CodeRelations :
             \/ ProposeCreate(q, r)
             \/ /\ Cardinality(prepared) < MaxPrepared
                /\ \/ \E content \in Contents : PrepareRevision(q, r, content)
                   \/ \E kind \in {"Tombstone", "Stale"} : PrepareInvalidation(q, r, kind)
  BY <1>2, <1>5 DEF ProposeCreate, PrepareRevision, PrepareInvalidation, tables
<1>6. CASE \E p \in prepared : CommitProposal(p) \/ DropProposal(p)
  BY <1>2, <1>6 DEF CommitProposal, DropProposal, tables
<1> QED
  BY <1>3, <1>4, <1>5, <1>6 DEF Next

=============================================================================
