------------------------- MODULE RelationInitProofs -------------------------
(***************************************************************************)
(* Proofs that initialization keeps its promises, for every set of         *)
(* sessions, relations and payloads and every bound, and that the relation *)
(* store keeps its own while sessions write to it.  The invariant of the   *)
(* store is extended by what a session, its batches and its completions    *)
(* know of the store and of each other.                                    *)
(***************************************************************************)
EXTENDS RelationInit, RelationLifecycleProofs, FiniteSetTheorems, WellFoundedInduction

SessionRow ==
    [request : InitRequests, target : Targets, status : {"Open", "Completed"}]

Completion ==
    [session : Sessions, request : InitRequests, expected : 1..MaxBatches,
     budget : 0..MaximumCompletionCandidates, phase : {"Checked", "Listed"},
     todo : SUBSET CodeRelations, candidates : SUBSET Proposal]

\* Type correctness of the session tables and of the completions under way.
InitTypeOK ==
    /\ session \in [Sessions -> SessionRow \cup {None}]
    /\ batches \in [Sessions -> Seq(Batch)]
    /\ seen \in [Sessions -> SUBSET CodeRelations]
    /\ deferred \in [Sessions -> SUBSET Proposal]
    /\ origins \in [CodeRelations -> Repositories \cup {None}]
    /\ unresolved \in [Repositories -> SUBSET Findings]
    /\ told \in SUBSET [session : Sessions, batch : Batch]
    /\ completions \in SUBSET Completion
    /\ invalidated \in [Sessions -> SUBSET CodeRelations]

-----------------------------------------------------------------------------
(* The inductive invariant, by part. *)

\* What a session that accepted a batch may rely on.
Recorded(s, b) ==
    /\ session[s] # None
    /\ \A r \in Items(b) : Exists(r) /\ r \in seen[s] /\ origins[r] # None
    /\ b.payload.findings \subseteq unresolved[session[s].target.repository]

RecordedOK ==
    /\ \A s \in Sessions : \A i \in DOMAIN batches[s] : Recorded(s, batches[s][i])
    /\ \A t \in told : Recorded(t.session, t.batch)

IsCompleted(s) == session[s] # None /\ session[s].status = "Completed"

\* What is left out by a session stays so: a relation keeps its origin.
LeftOut(s, r) ==
    /\ r \notin seen[s]
    /\ origins[r] = session[s].target.repository
    /\ InScope(s, r)

\* What a session may be said to have done.
SessionOK(s) ==
    /\ IsFiniteSet(deferred[s])
    /\ \A p \in deferred[s] : p.kind = "Content"
    /\ ~ IsCompleted(s) => invalidated[s] = {}
    /\ IsCompleted(s) =>
         /\ \A p \in deferred[s] : \E i \in DOMAIN events[p.relation] :
               events[p.relation][i] = Entry("Proposed", p.expected + 1, p.request)
         /\ \A r \in invalidated[s] : LeftOut(s, r)
         /\ Cardinality(deferred[s]) + Cardinality(invalidated[s])
              <= MaximumCompletionCandidates

\* A completion between its reads and its transaction: what it listed is left out by its
\* session as long as no batch came after, and each candidate whose revision check will
\* succeed copied what is still active.
CompletionOK(c) ==
    /\ session[c.session] # None
    /\ c.expected <= Len(batches[c.session])
    /\ IsFiniteSet(c.todo) /\ IsFiniteSet(c.candidates)
    /\ Cardinality(c.todo) + Cardinality(c.candidates) <= MaximumCompletionCandidates
    /\ c.phase = "Checked" => c.candidates = {}
    /\ \A p \in c.candidates : PreparedOK(p, versions[p.relation], current[p.relation])
    /\ Len(batches[c.session]) = c.expected =>
         /\ \A r \in c.todo : LeftOut(c.session, r)
         /\ \A p \in c.candidates : LeftOut(c.session, p.relation)

\* Only finitely many relations have been proposed by a batch.
OriginsFinite == IsFiniteSet({r \in CodeRelations : origins[r] # None})

InitIInv ==
    /\ InitTypeOK
    /\ RecordedOK
    /\ \A s \in Sessions : SessionOK(s)
    /\ \A c \in completions : CompletionOK(c)
    /\ OriginsFinite

-----------------------------------------------------------------------------
(* What initialization writes to the relation store: pending revisions of a *)
(* set of relations, in one transaction.                                    *)

\* The projection of a relation with a new pending revision n.
WithProposed(c, n) ==
    [latest |-> n, active |-> c.active, proposed |-> n, status |-> c.status]

\* A relation gets a pending revision, its first or a later one.
LEMMA AnyProposedOK ==
    ASSUME NEW v \in RowsType, NEW c \in Projection, NEW e,
           RelationOK(v, c, e), c.latest < MaxRevisions, c.proposed = 0,
           NEW row \in Row,
           row.kind # "Content" => /\ c.active # 0
                                   /\ c.status \in {"Approved", "Suppressed"}
                                   /\ row.content = v[c.active].content,
           NEW n, n = c.latest + 1
    PROVE  /\ RelationOK([v EXCEPT ![n] = row], WithProposed(c, n), e)
           /\ WithProposed(c, n) \in Projection
           /\ [v EXCEPT ![n] = row] \in RowsType
           /\ n \in Revisions
<1>1. c.latest \in 0..MaxRevisions /\ c.active \in 0..MaxRevisions /\ c.status \in Statuses
  BY DEF Projection
<1>2. n \in Revisions /\ n \in 0..MaxRevisions
  BY <1>1, BoundAssumption DEF Revisions
<1>3. WithProposed(c, n) \in Projection /\ [v EXCEPT ![n] = row] \in RowsType
  BY <1>1, <1>2 DEF WithProposed, Projection, RowsType
<1>4. CASE c.latest > 0
  <2> DEFINE w == [v EXCEPT ![n] = row]
             d == [c EXCEPT !.latest = n, !.proposed = n]
             p == WithProposed(c, n)
  <2>1. /\ d.latest = p.latest /\ d.active = p.active
        /\ d.proposed = p.proposed /\ d.status = p.status
    BY DEF Projection, WithProposed
  <2>2. RelationOK(w, d, e)
    BY <1>4, ProposedOK
  <2> HIDE DEF w, d, p
  <2>3. RelationOK(w, p, e)
    BY <2>1, <2>2 DEF RelationOK
  <2> QED
    BY <1>2, <1>3, <2>3 DEF w, p
<1>5. CASE c.latest = 0
  <2>1. c.active = 0 /\ c.status = "Pending" /\ e = 0 /\ n = 1
    BY <1>5 DEF RelationOK
  <2>2. row = [kind |-> "Content", content |-> row.content] /\ row.content \in Contents
    BY <2>1 DEF Row
  <2>3. WithProposed(c, n) =
          [latest |-> 1, active |-> 0, proposed |-> 1, status |-> "Pending"]
    BY <2>1 DEF WithProposed
  <2>4. RelationOK([v EXCEPT ![1] = [kind |-> "Content", content |-> row.content]],
                   [latest |-> 1, active |-> 0, proposed |-> 1, status |-> "Pending"], 0)
    BY <1>5, <2>2, FirstRevisionOK
  <2> QED
    BY <1>2, <1>3, <2>1, <2>2, <2>3, <2>4
<1> QED
  BY <1>1, <1>4, <1>5

\* A transaction that proposes rows for the relations of P and does nothing else.
Proposes(P, row, request) ==
    /\ \A r \in P :
         LET c == current[r]
             n == current[r].latest + 1
         IN  /\ c.proposed = 0
             /\ c.latest < MaxRevisions
             /\ row[r].kind # "Content" => /\ c.active # 0
                                           /\ c.status \in {"Approved", "Suppressed"}
                                           /\ row[r].content = versions[r][c.active].content
             /\ versions'[r] = [versions[r] EXCEPT ![n] = row[r]]
             /\ current'[r] = WithProposed(c, n)
             /\ events'[r] = Append(events[r], Entry("Proposed", n, request[r]))
    /\ \A r \in Relations \ P : /\ versions'[r] = versions[r]
                                /\ current'[r] = current[r]
                                /\ events'[r] = events[r]
    /\ versions' = [r \in Relations |-> versions'[r]]
    /\ current' = [r \in Relations |-> current'[r]]
    /\ events' = [r \in Relations |-> events'[r]]
    /\ UNCHANGED <<edge, columns, keyPresent, prepared>>

\* What such a transaction does to one of its relations.
LEMMA ProposesOne ==
    ASSUME IInv, NEW P \in SUBSET CodeRelations, NEW row \in [P -> Row],
           NEW request \in [P -> Requests], Proposes(P, row, request), NEW r \in P
    PROVE  /\ r \in Relations
           /\ current[r].latest \in Nat /\ current[r].latest + 1 \in Revisions
           /\ versions'[r] \in RowsType /\ current'[r] \in Projection
           /\ RelationOK(versions'[r], current'[r], edge'[r])
           /\ current'[r].latest = current[r].latest + 1
           /\ current'[r].proposed = current[r].latest + 1
           /\ current'[r].active = current[r].active
           /\ current'[r].status = current[r].status
           /\ Entry("Proposed", current[r].latest + 1, request[r]) \in Event
<1>1. r \in Relations /\ row[r] \in Row /\ request[r] \in Requests
  BY DEF Relations
<1>2. /\ versions[r] \in RowsType /\ current[r] \in Projection
      /\ RelationOK(versions[r], current[r], edge[r])
      /\ current[r].latest \in Nat
  BY <1>1, OfRelation, BoundAssumption
<1>3. /\ current[r].proposed = 0 /\ current[r].latest < MaxRevisions
      /\ row[r].kind # "Content" =>
           /\ current[r].active # 0
           /\ current[r].status \in {"Approved", "Suppressed"}
           /\ row[r].content = versions[r][current[r].active].content
      /\ versions'[r] = [versions[r] EXCEPT ![current[r].latest + 1] = row[r]]
      /\ current'[r] = WithProposed(current[r], current[r].latest + 1)
      /\ edge'[r] = edge[r]
  BY DEF Proposes
<1>4. /\ RelationOK(versions'[r], current'[r], edge'[r])
      /\ current'[r] \in Projection /\ versions'[r] \in RowsType
      /\ current[r].latest + 1 \in Revisions
  BY <1>1, <1>2, <1>3, AnyProposedOK
<1>5. Entry("Proposed", current[r].latest + 1, request[r]) \in Event
  BY <1>1, <1>4 DEF Entry, Event, EventTypes
<1> QED
  BY <1>1, <1>2, <1>3, <1>4, <1>5 DEF WithProposed

\* It keeps the invariant of the store.
LEMMA ProposesInv ==
    ASSUME IInv, NEW P \in SUBSET CodeRelations, NEW row \in [P -> Row],
           NEW request \in [P -> Requests], Proposes(P, row, request)
    PROVE  IInv'
<1>1. TypeOK /\ AllRelationsOK /\ (\A f \in ForeignKeys : KeyOK(f))
      /\ \A p \in prepared : PreparedOK(p, versions[p.relation], current[p.relation])
  BY InvariantByParts
<1>2. /\ \A r \in Relations \ P : /\ versions'[r] = versions[r]
                                  /\ current'[r] = current[r]
                                  /\ events'[r] = events[r]
      /\ versions' = [r \in Relations |-> versions'[r]]
      /\ current' = [r \in Relations |-> current'[r]]
      /\ events' = [r \in Relations |-> events'[r]]
      /\ edge' = edge /\ columns' = columns /\ keyPresent' = keyPresent
      /\ prepared' = prepared
      /\ \A r \in P : events'[r] =
           Append(events[r], Entry("Proposed", current[r].latest + 1, request[r]))
  BY DEF Proposes
<1>3. TypeOK'
  <2>1. \A r \in Relations : versions'[r] \in RowsType /\ current'[r] \in Projection
    BY <1>1, <1>2, ProposesOne DEF TypeOK, RowsType
  <2>2. \A r \in Relations : events'[r] \in Seq(Event)
    <3> SUFFICES ASSUME NEW r \in Relations PROVE events'[r] \in Seq(Event)
      OBVIOUS
    <3>1. events[r] \in Seq(Event)
      BY <1>1 DEF TypeOK
    <3>2. CASE r \in P
      <4> DEFINE entry == Entry("Proposed", current[r].latest + 1, request[r])
      <4>1. entry \in Event
        BY <3>2, ProposesOne
      <4>2. events'[r] = Append(events[r], entry)
        BY <1>2, <3>2
      <4> HIDE DEF entry
      <4> QED
        BY <3>1, <4>1, <4>2
    <3> QED
      BY <1>2, <3>1, <3>2
  <2> QED
    BY <1>1, <1>2, <2>1, <2>2 DEF TypeOK, RowsType
<1>4. AllRelationsOK'
  BY <1>1, <1>2, ProposesOne DEF AllRelationsOK
<1>5. (\A f \in ForeignKeys : KeyOK(f))'
  BY <1>1, <1>2, RelationsAssumption DEF KeyOK, Exists, Relations
<1>6. (\A p \in prepared : PreparedOK(p, versions[p.relation], current[p.relation]))'
  <2> SUFFICES ASSUME NEW p \in prepared
               PROVE  PreparedOK(p, versions'[p.relation], current'[p.relation])
    BY <1>2
  <2>1. /\ p.relation \in Relations /\ p.expected \in Nat
        /\ PreparedOK(p, versions[p.relation], current[p.relation])
    BY <1>1 DEF TypeOK, Proposal, Relations, Revisions
  <2>2. CASE p.relation \in P
    <3>1. /\ current'[p.relation].latest = current[p.relation].latest + 1
          /\ current[p.relation].latest \in Nat
      BY <2>2, ProposesOne
    <3> QED
      BY <2>1, <3>1 DEF PreparedOK
  <2> QED
    BY <1>2, <2>1, <2>2
<1>7. (IInv <=> /\ TypeOK
                /\ AllRelationsOK
                /\ \A f \in ForeignKeys : KeyOK(f)
                /\ \A p \in prepared :
                     PreparedOK(p, versions[p.relation], current[p.relation]))'
  BY InvariantByParts, PTL
<1> QED
  BY <1>3, <1>4, <1>5, <1>6, <1>7

\* It keeps the histories in step with the projections.
LEMMA ProposesHistory ==
    ASSUME IInv, AllHistoriesOK, NEW P \in SUBSET CodeRelations, NEW row \in [P -> Row],
           NEW request \in [P -> Requests], Proposes(P, row, request)
    PROVE  AllHistoriesOK'
<1> SUFFICES ASSUME NEW r \in Relations PROVE HistoryOK(events'[r], current'[r])
  BY DEF AllHistoriesOK
<1>1. CASE r \notin P
  BY <1>1 DEF AllHistoriesOK, Proposes
<1>2. CASE r \in P
  <2> DEFINE n == current[r].latest + 1
             entry == Entry("Proposed", n, request[r])
  <2>1. events[r] \in Seq(Event) /\ HistoryOK(events[r], current[r])
    BY InvariantByParts DEF TypeOK, AllHistoriesOK
  <2>2. /\ n \in Revisions /\ current[r].latest \in Nat
        /\ entry \in Event
        /\ current'[r].latest = n /\ current'[r].proposed = n
        /\ current'[r].active = current[r].active
        /\ current'[r].status = current[r].status
    BY <1>2, ProposesOne
  <2>3. events'[r] = Append(events[r], entry)
    BY <1>2 DEF Proposes
  <2>4. entry.type = "Proposed" /\ entry.version = n /\ n = current[r].latest + 1
    BY DEF Entry
  <2> HIDE DEF n, entry
  <2>5. HistoryOK(Append(events[r], entry), current'[r])
    BY <2>1, <2>2, <2>4, ProposedHistory
  <2> QED
    BY <2>3, <2>5
<1> QED
  BY <1>1, <1>2

\* It is one proposal of the reviewed graph.
LEMMA ProposesImplements ==
    ASSUME IInv, NEW P \in SUBSET CodeRelations, NEW row \in [P -> Row],
           NEW request \in [P -> Requests], Proposes(P, row, request)
    PROVE  Graph!Next
<1>1. \A r \in P :
           /\ current[r].proposed = 0
           /\ current[r].latest < MaxRevisions
           /\ row[r].kind # "Content" => current[r].status \in {"Approved", "Suppressed"}
           /\ versions'[r] = [versions[r] EXCEPT ![current[r].latest + 1] = row[r]]
           /\ current'[r].proposed = current[r].latest + 1
           /\ current'[r].active = current[r].active
           /\ current'[r].status = current[r].status
  <2> SUFFICES ASSUME NEW r \in P
               PROVE  /\ current[r].proposed = 0
                      /\ current[r].latest < MaxRevisions
                      /\ row[r].kind # "Content" =>
                           current[r].status \in {"Approved", "Suppressed"}
                      /\ versions'[r] = [versions[r] EXCEPT ![current[r].latest + 1] = row[r]]
                      /\ current'[r].proposed = current[r].latest + 1
                      /\ current'[r].active = current[r].active
                      /\ current'[r].status = current[r].status
    OBVIOUS
  <2>1. /\ current[r].proposed = 0
        /\ current[r].latest < MaxRevisions
        /\ row[r].kind # "Content" => current[r].status \in {"Approved", "Suppressed"}
        /\ versions'[r] = [versions[r] EXCEPT ![current[r].latest + 1] = row[r]]
    BY DEF Proposes
  <2>2. /\ current'[r].proposed = current[r].latest + 1
        /\ current'[r].active = current[r].active
        /\ current'[r].status = current[r].status
    BY ProposesOne
  <2> QED
    BY <2>1, <2>2
<1>2. /\ \A r \in Relations \ P : versions'[r] = versions[r] /\ current'[r] = current[r]
      /\ edge' = edge
  BY DEF Proposes
<1> QED
  BY <1>1, <1>2, ProposalsImplement

-----------------------------------------------------------------------------
(* What any step does to a relation, as a completion that read it sees it. *)

\* Its rows are as they were, or it has a new revision, or its pending revision was
\* decided, or it was suppressed or restored.
Advances(r) ==
    \/ versions'[r] = versions[r] /\ current'[r] = current[r]
    \/ current'[r].latest = current[r].latest + 1
    \/ /\ current'[r].latest = current[r].latest
       /\ current[r].proposed # 0
       /\ current'[r].proposed = 0
    \/ /\ versions'[r] = versions[r]
       /\ current'[r].latest = current[r].latest
       /\ current'[r].active = current[r].active
       /\ current[r].proposed = 0 /\ current'[r].proposed = 0
       /\ current[r].active # 0
       /\ current[r].status \in {"Approved", "Suppressed"}
       /\ current'[r].status \in {"Approved", "Suppressed"}

\* No event of its log is lost or changed.
KeepsEvents(r) ==
    \A i \in DOMAIN events[r] : i \in DOMAIN events'[r] /\ events'[r][i] = events[r][i]

\* Logs are appended to.
LEMMA AppendKeepsEvents ==
    ASSUME TypeOK, NEW r \in Relations,
           \/ events'[r] = events[r]
           \/ \E e : events'[r] = Append(events[r], e)
           \/ \E log \in Seq(Event) : events'[r] = events[r] \o log
    PROVE  KeepsEvents(r)
<1>1. events[r] \in Seq(Event)
  BY DEF TypeOK
<1>2. ASSUME NEW e, events'[r] = Append(events[r], e) PROVE KeepsEvents(r)
  BY <1>1, <1>2 DEF KeepsEvents
<1>3. ASSUME NEW log \in Seq(Event), events'[r] = events[r] \o log PROVE KeepsEvents(r)
  BY <1>1, <1>3 DEF KeepsEvents
<1>4. CASE events'[r] = events[r]
  BY <1>4 DEF KeepsEvents
<1> QED
  BY <1>2, <1>3, <1>4

\* What a completion holds against a relation stays true as the relation advances.
LEMMA AdvanceKeepsPrepared ==
    ASSUME IInv, NEW r \in CodeRelations, Advances(r),
           NEW p \in Proposal, p.relation = r, PreparedOK(p, versions[r], current[r])
    PROVE  PreparedOK(p, versions'[r], current'[r])
<1>1. /\ current[r].latest \in Nat /\ p.expected \in Nat
  BY OfRelation, BoundAssumption DEF Relations, Proposal, Revisions
<1>2. p.expected <= current[r].latest
      /\ (current[r].proposed # 0 => p.expected < current[r].latest)
  BY DEF PreparedOK
<1>3. CASE current'[r].latest = current[r].latest + 1
  BY <1>1, <1>2, <1>3 DEF PreparedOK
<1>4. CASE /\ current'[r].latest = current[r].latest
           /\ current[r].proposed # 0
           /\ current'[r].proposed = 0
  BY <1>1, <1>2, <1>4 DEF PreparedOK
<1> QED
  BY <1>3, <1>4 DEF Advances, PreparedOK

\* A relation that exists does not cease to.
LEMMA AdvanceKeepsExists ==
    ASSUME IInv, NEW r \in CodeRelations, Advances(r), Exists(r)
    PROVE  Exists(r)'
<1>1. current[r].latest \in Nat /\ current[r].latest > 0
  BY OfRelation, BoundAssumption DEF Relations, Exists
<1>2. current'[r].latest = current[r].latest \/ current'[r].latest = current[r].latest + 1
  BY DEF Advances
<1> QED
  BY <1>1, <1>2 DEF Exists

\* Proposals advance the relations they are for.
LEMMA ProposesAdvances ==
    ASSUME IInv, NEW P \in SUBSET CodeRelations, NEW row \in [P -> Row],
           NEW request \in [P -> Requests], Proposes(P, row, request),
           NEW r \in CodeRelations
    PROVE  Advances(r) /\ KeepsEvents(r)
<1>1. r \in Relations /\ TypeOK
  BY InvariantByParts DEF Relations
<1>2. CASE r \in P
  <2>1. events'[r] = Append(events[r], Entry("Proposed", current[r].latest + 1, request[r]))
    BY <1>2 DEF Proposes
  <2>2. current'[r].latest = current[r].latest + 1
    BY <1>2, ProposesOne
  <2> QED
    BY <1>1, <2>1, <2>2, AppendKeepsEvents DEF Advances
<1>3. CASE r \notin P
  <2>1. versions'[r] = versions[r] /\ current'[r] = current[r] /\ events'[r] = events[r]
    BY <1>1, <1>3 DEF Proposes
  <2> QED
    BY <1>1, <2>1, AppendKeepsEvents DEF Advances
<1> QED
  BY <1>2, <1>3

\* So does every transaction of the store.
LEMMA StepAdvances ==
    ASSUME IInv, [Next]_vars, NEW r \in CodeRelations
    PROVE  Advances(r) /\ KeepsEvents(r)
<1>1. r \in Relations /\ TypeOK /\ r \notin ForeignKeys
  BY RelationsAssumption, InvariantByParts DEF Relations
<1>2. current[r] \in Projection /\ current[r].latest \in Nat
  BY <1>1, OfRelation, BoundAssumption
<1>3. ASSUME UNCHANGED tables PROVE Advances(r) /\ KeepsEvents(r)
  BY <1>3 DEF tables, Advances, KeepsEvents
<1>4. ASSUME NEW x \in Relations, x # r, NEW c, NEW v, NEW l,
             \/ current' = current \/ current' = [current EXCEPT ![x] = c],
             \/ versions' = versions \/ versions' = [versions EXCEPT ![x] = v],
             \/ events' = events \/ events' = [events EXCEPT ![x] = l]
      PROVE  Advances(r) /\ KeepsEvents(r)
  <2>1. current'[r] = current[r] /\ versions'[r] = versions[r] /\ events'[r] = events[r]
    BY <1>1, <1>4 DEF TypeOK
  <2> QED
    BY <2>1 DEF Advances, KeepsEvents
<1>5. ASSUME NEW q \in Requests, NEW x \in CodeRelations, ProposeCreate(q, x)
      PROVE  Advances(r) /\ KeepsEvents(r)
  <2>1. CASE x = r
    <3> DEFINE entry == Entry("Proposed", 1, q)
    <3>1. current'[r].latest = current[r].latest + 1
      BY <1>1, <1>2, <1>5, <2>1 DEF ProposeCreate, Exists, TypeOK
    <3>2. events'[r] = Append(events[r], entry)
      BY <1>1, <1>5, <2>1 DEF ProposeCreate, TypeOK
    <3> HIDE DEF entry
    <3> QED
      BY <1>1, <3>1, <3>2, AppendKeepsEvents DEF Advances
  <2>2. CASE x # r
    BY <1>4, <1>5, <2>2 DEF ProposeCreate, Relations
  <2> QED
    BY <2>1, <2>2
<1>6. ASSUME NEW p \in prepared, CommitProposal(p)
      PROVE  Advances(r) /\ KeepsEvents(r)
  <2>1. CASE p.relation = r
    <3> DEFINE entry == Entry("Proposed", p.expected + 1, p.request)
    <3>1. current'[r].latest = p.expected + 1 /\ p.expected = current[r].latest
      BY <1>1, <1>2, <1>6, <2>1 DEF CommitProposal, StillCurrent, TypeOK, Projection
    <3>2. events'[r] = Append(events[r], entry)
      BY <1>1, <1>6, <2>1 DEF CommitProposal, TypeOK
    <3> HIDE DEF entry
    <3> QED
      BY <1>1, <3>1, <3>2, AppendKeepsEvents DEF Advances
  <2>2. CASE p.relation # r
    <3>1. p.relation \in Relations
      BY <1>1 DEF TypeOK, Proposal, Relations
    <3> QED
      BY <1>4, <1>6, <2>2, <3>1 DEF CommitProposal
  <2> QED
    BY <2>1, <2>2
<1>7. ASSUME NEW q \in Requests, NEW x \in Relations, NEW expected \in Revisions,
             Reject(q, x, expected)
      PROVE  Advances(r) /\ KeepsEvents(r)
  <2>1. CASE x = r
    <3>1. /\ current'[r].latest = current[r].latest /\ current'[r].proposed = 0
          /\ current[r].proposed # 0
      BY <1>1, <1>2, <1>7, <2>1 DEF Reject, Reviewable, TypeOK, Projection
    <3>2. events'[r] = Append(events[r], Entry("Rejected", expected, q))
      BY <1>1, <1>7, <2>1 DEF Reject, TypeOK
    <3> QED
      BY <1>1, <3>1, <3>2, AppendKeepsEvents DEF Advances
  <2>2. CASE x # r
    BY <1>4, <1>7, <2>2 DEF Reject
  <2> QED
    BY <2>1, <2>2
<1>8. ASSUME NEW q \in Requests, NEW x \in Relations, NEW expected \in Revisions,
             Approve(q, x, expected)
      PROVE  Advances(r) /\ KeepsEvents(r)
  <2>1. CASE x = r
    <3> DEFINE n == current[r].proposed
               kind == versions[r][n].kind
               log == ReplacementEvents(r, n, DecisionEvent(kind), q)
    <3>1. /\ current'[r].latest = current[r].latest /\ current'[r].proposed = 0
          /\ current[r].proposed # 0
      BY <1>1, <1>2, <1>8, <2>1, SMTT(30) DEF Approve, Reviewable, TypeOK, Projection
    <3>2. events'[r] = events[r] \o log
      BY <1>1, <1>8, <2>1, ZenonT(60) DEF Approve, TypeOK
    <3>3. log \in Seq(Event)
      <4>1. versions[r][expected] \in Row /\ expected = n
        BY <1>8, <2>1, PendingFacts, ZenonT(60) DEF Approve
      <4>2. kind \in Kinds /\ n \in Revisions
        BY <4>1, SMTT(30) DEF Row
      <4> QED
        BY <1>1, <4>2, KindFacts, ReplacementEventsType, SMTT(30)
    <3> HIDE DEF log
    <3> QED
      BY <1>1, <3>1, <3>2, <3>3, AppendKeepsEvents DEF Advances
  <2>2. CASE x # r
    BY <1>4, <1>8, <2>2, ZenonT(60) DEF Approve
  <2> QED
    BY <2>1, <2>2
<1>9. ASSUME NEW q \in Requests, NEW x \in Relations, NEW expected \in Revisions,
             Suppress(q, x, expected) \/ Restore(q, x, expected)
      PROVE  Advances(r) /\ KeepsEvents(r)
  <2>1. CASE x = r
    <3>1. /\ versions'[r] = versions[r] /\ current'[r].latest = current[r].latest
          /\ current'[r].active = current[r].active
          /\ current[r].proposed = 0 /\ current'[r].proposed = 0
          /\ current[r].active # 0
          /\ current[r].status \in {"Approved", "Suppressed"}
          /\ current'[r].status \in {"Approved", "Suppressed"}
      BY <1>1, <1>2, <1>9, <2>1 DEF Suppress, Restore, StateChangeable, TypeOK, Projection
    <3>2. \E e : events'[r] = Append(events[r], e)
      BY <1>1, <1>9, <2>1 DEF Suppress, Restore, TypeOK
    <3> QED
      BY <1>1, <3>1, <3>2, AppendKeepsEvents DEF Advances
  <2>2. CASE x # r
    BY <1>4, <1>9, <2>2 DEF Suppress, Restore
  <2> QED
    BY <2>1, <2>2
<1>10. ASSUME NEW seen_ \in Snapshots, NEW keys \in SUBSET ForeignKeys, NEW scope \in Scopes,
              PublishSnapshot(seen_, keys, scope)
       PROVE  Advances(r) /\ KeepsEvents(r)
  <2>1. r \notin Touched(keys, scope)
    BY <1>1 DEF Touched, NewKeys, Reactivated, ReturnedKeys, Removed, LostKeys, TypeOK
  <2>2. current'[r] = current[r] /\ versions'[r] = versions[r] /\ events'[r] = events[r]
    BY <1>1, <1>10, <2>1 DEF PublishSnapshot, Touched
  <2> QED
    BY <2>2 DEF Advances, KeepsEvents
<1>11. CASE UNCHANGED vars
  BY <1>3, <1>11, SMTT(30) DEF vars, tables
<1>12. CASE Next
  BY <1>3, <1>5, <1>6, <1>7, <1>8, <1>9, <1>10, <1>12
  DEF Next, PrepareRevision, PrepareInvalidation, DropProposal
<1> QED
  BY <1>11, <1>12

-----------------------------------------------------------------------------
(* The least element that Min chooses, and finite images. *)

\* Min of a set of numbers is its least element.
LEMMA LeastElement ==
    ASSUME NEW S \in SUBSET Nat, S # {}
    PROVE  Min(S) \in S /\ \A i \in S : Min(S) <= i
<1> DEFINE less == OpToRel(<, Nat)
<1>1. IsWellFoundedOn(less, Nat)
  BY NatLessThanWellFounded
<1>2. \A x, y \in Nat : <<y, x>> \in less <=> y < x
  BY DEF OpToRel
<1> HIDE DEF less
<1>3. \E x \in S : \A y \in S : ~ (<<y, x>> \in less)
  BY <1>1, WFMin
<1>4. PICK x \in S : \A y \in S : ~ (<<y, x>> \in less)
  BY <1>3
<1>5. \A y \in S : x <= y
  <2> SUFFICES ASSUME NEW y \in S PROVE x <= y
    OBVIOUS
  <2>1. x \in Nat /\ y \in Nat /\ ~ (<<y, x>> \in less)
    BY <1>4
  <2>2. ~ (y < x)
    BY <1>2, <2>1
  <2> QED
    BY <2>1, <2>2
<1> QED
  BY <1>5 DEF Min

\* The values of a function on a finite set are finitely many, at most as many.
LEMMA FiniteImage ==
    ASSUME NEW S, IsFiniteSet(S), NEW f, f = [x \in S |-> f[x]]
    PROVE  /\ IsFiniteSet({f[x] : x \in S})
           /\ Cardinality({f[x] : x \in S}) <= Cardinality(S)
<1> DEFINE T == {f[x] : x \in S}
<1>1. f \in Surjection(S, T)
  BY DEF Surjection
<1> QED
  BY <1>1, FS_Surjection

\* So are the relations of finitely many proposals.
LEMMA FiniteRelations ==
    ASSUME NEW S, IsFiniteSet(S)
    PROVE  /\ IsFiniteSet({p.relation : p \in S})
           /\ Cardinality({p.relation : p \in S}) <= Cardinality(S)
<1> DEFINE f == [p \in S |-> p.relation]
<1>1. f = [p \in S |-> f[p]]
  OBVIOUS
<1>2. {p.relation : p \in S} = {f[p] : p \in S}
  OBVIOUS
<1> HIDE DEF f
<1> QED
  BY <1>1, <1>2, FiniteImage

-----------------------------------------------------------------------------
(* A batch: its relations are finitely many, and each has a request of its own. *)

\* The relations a batch proposes.
LEMMA BatchItems ==
    ASSUME NEW b \in Batch
    PROVE  Items(b) \in SUBSET CodeRelations /\ IsFiniteSet(Items(b))
<1>1. PICK n \in 0..MaximumBatchItems : b.payload.items \in [1..n -> CodeRelations]
  BY InitAssumption DEF Batch, Payload
<1>2. IsFiniteSet(1..n)
  BY <1>1, FS_Interval, InitAssumption
<1> DEFINE f == b.payload.items
<1>3. f = [i \in 1..n |-> f[i]] /\ Items(b) = {f[i] : i \in 1..n}
  BY <1>1 DEF Items
<1>4. Items(b) \in SUBSET CodeRelations
  BY <1>1, <1>3
<1> HIDE DEF f
<1> QED
  BY <1>2, <1>3, <1>4, FiniteImage

\* The request of the first item that proposes a relation.
LEMMA ItemRequestType ==
    ASSUME NEW q \in InitRequests, NEW b \in Batch, NEW r \in Items(b)
    PROVE  ItemRequest(q, b, r) \in Requests
<1>1. PICK n \in 0..MaximumBatchItems : b.payload.items \in [1..n -> CodeRelations]
  BY InitAssumption DEF Batch, Payload
<1> DEFINE S == {i \in DOMAIN b.payload.items : b.payload.items[i] = r}
<1>2. S \subseteq 1..MaximumBatchItems
  BY <1>1, InitAssumption
<1>3. S # {}
  BY DEF Items
<1>4. S \in SUBSET Nat
  BY <1>2, InitAssumption
<1> HIDE DEF S
<1>5. Min(S) \in 1..MaximumBatchItems
  BY <1>2, <1>3, <1>4, LeastElement
<1>6. <<q, Min(S)>> \in AgentRequests \cup AdminRequests
  BY <1>5, InitAssumption
<1> QED
  BY <1>6 DEF S, ItemRequest, Requests

\* What a batch writes to the store is a proposal of each relation that is new.
LEMMA SubmitBatchProposes ==
    ASSUME IInv, NEW s \in Sessions, NEW q \in InitRequests, NEW b \in Batch,
           SubmitBatch(s, q, b)
    PROVE  \E P \in SUBSET CodeRelations :
              \E row \in [P -> Row], request \in [P -> Requests] :
                 P = CreatedBy(b) /\ Proposes(P, row, request)
<1> DEFINE P == CreatedBy(b)
           row == [r \in P |-> [kind |-> "Content", content |-> FirstContent[r]]]
           request == [r \in P |-> ItemRequest(q, b, r)]
<1>1. P \in SUBSET CodeRelations /\ P \in SUBSET Items(b)
  BY BatchItems DEF CreatedBy
<1>2. row \in [P -> Row]
  <2> SUFFICES ASSUME NEW r \in P
               PROVE  [kind |-> "Content", content |-> FirstContent[r]] \in Row
    OBVIOUS
  <2>1. FirstContent[r] \in Contents
    BY <1>1, RelationsAssumption DEF Relations
  <2> QED
    BY <2>1 DEF Row, Kinds
<1>3. request \in [P -> Requests]
  BY <1>1, ItemRequestType
<1>4. ASSUME NEW r \in P
      PROVE  /\ r \in Relations
             /\ current[r].latest = 0 /\ current[r].proposed = 0
             /\ current[r].active = 0 /\ current[r].status = "Pending"
  <2>1. r \in Relations /\ current[r] \in Projection /\ current[r].latest \in Nat
        /\ RelationOK(versions[r], current[r], edge[r])
    BY <1>1, OfRelation, BoundAssumption DEF Relations
  <2>2. current[r].latest = 0
    BY <2>1 DEF CreatedBy, Exists
  <2> QED
    BY <2>1, <2>2 DEF RelationOK
<1>5. ASSUME NEW r \in Relations
      PROVE  /\ versions'[r] = IF r \in P THEN [versions[r] EXCEPT ![1] = row[r]]
                               ELSE versions[r]
             /\ current'[r] = IF r \in P
                  THEN [latest |-> 1, active |-> 0, proposed |-> 1, status |-> "Pending"]
                  ELSE current[r]
             /\ events'[r] = IF r \in P
                  THEN Append(events[r], Entry("Proposed", 1, request[r])) ELSE events[r]
  BY DEF SubmitBatch
<1>6. /\ versions' = [r \in Relations |-> versions'[r]]
      /\ current' = [r \in Relations |-> current'[r]]
      /\ events' = [r \in Relations |-> events'[r]]
      /\ UNCHANGED <<edge, columns, keyPresent, prepared>>
  <2>1. UNCHANGED <<edge, columns, keyPresent, prepared>>
    BY DEF SubmitBatch
  <2>2. versions' = [r \in Relations |-> versions'[r]]
    BY DEF SubmitBatch
  <2>3. current' = [r \in Relations |-> current'[r]]
    BY DEF SubmitBatch
  <2>4. events' = [r \in Relations |-> events'[r]]
    BY DEF SubmitBatch
  <2> QED
    BY <2>1, <2>2, <2>3, <2>4
<1>7. \A r \in P : row[r].kind = "Content"
  OBVIOUS
<1> HIDE DEF P, row, request
<1>8. Proposes(P, row, request)
  <2>1. ASSUME NEW r \in P
        PROVE  LET c == current[r]
                   n == current[r].latest + 1
               IN  /\ c.proposed = 0
                   /\ c.latest < MaxRevisions
                   /\ row[r].kind # "Content" =>
                        /\ c.active # 0
                        /\ c.status \in {"Approved", "Suppressed"}
                        /\ row[r].content = versions[r][c.active].content
                   /\ versions'[r] = [versions[r] EXCEPT ![n] = row[r]]
                   /\ current'[r] = WithProposed(c, n)
                   /\ events'[r] = Append(events[r], Entry("Proposed", n, request[r]))
    <3>1. current[r].latest + 1 = 1 /\ current[r].latest < MaxRevisions
          /\ current[r].proposed = 0
      BY <1>4, BoundAssumption
    <3>2. /\ versions'[r] = [versions[r] EXCEPT ![1] = row[r]]
          /\ events'[r] = Append(events[r], Entry("Proposed", 1, request[r]))
          /\ current'[r] = [latest |-> 1, active |-> 0, proposed |-> 1, status |-> "Pending"]
      BY <1>4, <1>5
    <3>3. WithProposed(current[r], 1) =
            [latest |-> 1, active |-> 0, proposed |-> 1, status |-> "Pending"]
      BY <1>4 DEF WithProposed
    <3> QED
      BY <1>7, <3>1, <3>2, <3>3
  <2>2. \A r \in Relations \ P : /\ versions'[r] = versions[r]
                                 /\ current'[r] = current[r]
                                 /\ events'[r] = events[r]
    BY <1>5
  <2> QED
    BY <1>6, <2>1, <2>2 DEF Proposes
<1> QED
  BY <1>1, <1>2, <1>3, <1>8 DEF P

\* What a completion writes to the store is a proposal of each of its candidates.
LEMMA CompleteProposes ==
    ASSUME IInv, InitTypeOK, NEW c \in completions, CompletionOK(c),
           SessionOK(c.session), Complete(c)
    PROVE  \E row \in [{p.relation : p \in Candidates(c)} -> Row],
              request \in [{p.relation : p \in Candidates(c)} -> Requests] :
              /\ {p.relation : p \in Candidates(c)} \in SUBSET CodeRelations
              /\ Proposes({p.relation : p \in Candidates(c)}, row, request)
              /\ \A p \in Candidates(c) : /\ request[p.relation] = p.request
                                          /\ p.expected = current[p.relation].latest
<1> DEFINE ps == Candidates(c)
           P == {p.relation : p \in ps}
           Of(r) == CHOOSE p \in ps : p.relation = r
           row == [r \in P |-> [kind |-> Of(r).kind, content |-> Of(r).content]]
           request == [r \in P |-> Of(r).request]
<1>1. c.session \in Sessions /\ c.candidates \in SUBSET Proposal
      /\ deferred[c.session] \in SUBSET Proposal
  BY DEF InitTypeOK, Completion
<1>2. ps \in SUBSET Proposal
  BY <1>1 DEF Candidates
<1>3. \A p \in ps : /\ p.expected = current[p.relation].latest
                    /\ current[p.relation].proposed = 0
                    /\ current[p.relation].latest < MaxRevisions
  BY DEF Complete, Insertable, StillCurrent, HasRoom
<1>4. \A p1, p2 \in ps : p1 # p2 => p1.relation # p2.relation
  BY DEF Complete, Insertable
<1>5. \A p \in ps : Of(p.relation) = p
  BY <1>4
<1>6. \A r \in P : Of(r) \in ps /\ Of(r).relation = r
  BY <1>5
<1>7. \A p \in ps : p.kind # "Content" =>
           PreparedOK(p, versions[p.relation], current[p.relation])
  BY DEF Candidates, SessionOK, CompletionOK
<1>8. P \in SUBSET CodeRelations
  BY <1>2 DEF Proposal
<1>9. ASSUME NEW r \in Relations
      PROVE  /\ versions'[r] = IF r \in P
                  THEN [versions[r] EXCEPT ![Of(r).expected + 1] =
                          [kind |-> Of(r).kind, content |-> Of(r).content]]
                  ELSE versions[r]
             /\ current'[r] = IF r \in P
                  THEN [current[r] EXCEPT !.latest = Of(r).expected + 1,
                                          !.proposed = Of(r).expected + 1]
                  ELSE current[r]
             /\ events'[r] = IF r \in P
                  THEN Append(events[r], Entry("Proposed", Of(r).expected + 1, Of(r).request))
                  ELSE events[r]
  BY DEF Complete
<1>10. /\ versions' = [r \in Relations |-> versions'[r]]
       /\ current' = [r \in Relations |-> current'[r]]
       /\ events' = [r \in Relations |-> events'[r]]
       /\ UNCHANGED <<edge, columns, keyPresent, prepared>>
  <2>1. UNCHANGED <<edge, columns, keyPresent, prepared>>
    BY DEF Complete
  <2>2. versions' = [r \in Relations |-> versions'[r]]
    BY DEF Complete
  <2>3. current' = [r \in Relations |-> current'[r]]
    BY DEF Complete
  <2>4. events' = [r \in Relations |-> events'[r]]
    <3> DEFINE log(r) == IF r \in P
                  THEN Append(events[r], Entry("Proposed", Of(r).expected + 1, Of(r).request))
                  ELSE events[r]
    <3>1. events' = [r \in Relations |-> log(r)]
      BY DEF Complete
    <3> HIDE DEF log
    <3> QED
      BY <3>1
  <2> QED
    BY <2>1, <2>2, <2>3, <2>4
<1> HIDE DEF ps, Of
<1>11. row \in [P -> Row] /\ request \in [P -> Requests]
  <2> SUFFICES ASSUME NEW r \in P
               PROVE  /\ [kind |-> Of(r).kind, content |-> Of(r).content] \in Row
                      /\ Of(r).request \in Requests
    OBVIOUS
  <2>1. Of(r) \in Proposal
    BY <1>2, <1>6
  <2> QED
    BY <2>1 DEF Proposal, Row
<1>12. ASSUME NEW r \in P
       PROVE  LET d == current[r]
                  n == current[r].latest + 1
              IN  /\ d.proposed = 0
                  /\ d.latest < MaxRevisions
                  /\ row[r].kind # "Content" => /\ d.active # 0
                                                /\ d.status \in {"Approved", "Suppressed"}
                                                /\ row[r].content = versions[r][d.active].content
                  /\ versions'[r] = [versions[r] EXCEPT ![n] = row[r]]
                  /\ current'[r] = WithProposed(d, n)
                  /\ events'[r] = Append(events[r], Entry("Proposed", n, request[r]))
  <2>1. /\ Of(r) \in ps /\ Of(r).relation = r
        /\ Of(r).expected = current[r].latest
        /\ current[r].proposed = 0 /\ current[r].latest < MaxRevisions
    BY <1>3, <1>6
  <2>2. r \in Relations /\ current[r] \in Projection
    BY <1>8, OfRelation DEF Relations
  <2>3. /\ row[r] = [kind |-> Of(r).kind, content |-> Of(r).content]
        /\ request[r] = Of(r).request
    OBVIOUS
  <2> HIDE DEF row, request
  <2>4. row[r].kind # "Content" => /\ current[r].active # 0
                                   /\ current[r].status \in {"Approved", "Suppressed"}
                                   /\ row[r].content = versions[r][current[r].active].content
    BY <1>7, <2>1, <2>3 DEF PreparedOK
  <2>5. /\ versions'[r] = [versions[r] EXCEPT ![current[r].latest + 1] = row[r]]
        /\ events'[r] = Append(events[r], Entry("Proposed", current[r].latest + 1, request[r]))
    BY <1>9, <2>1, <2>2, <2>3
  <2>6. current'[r] = [current[r] EXCEPT !.latest = current[r].latest + 1,
                                         !.proposed = current[r].latest + 1]
    BY <1>9, <2>1, <2>2
  <2>7. current'[r] = WithProposed(current[r], current[r].latest + 1)
    BY <2>2, <2>6 DEF WithProposed, Projection
  <2> QED
    BY <2>1, <2>4, <2>5, <2>7
<1>13. \A r \in Relations \ P : /\ versions'[r] = versions[r]
                                /\ current'[r] = current[r]
                                /\ events'[r] = events[r]
  BY <1>9
<1>14. \A p \in ps : request[p.relation] = p.request /\ p.expected = current[p.relation].latest
  BY <1>3, <1>5
<1> HIDE DEF P, row, request
<1>15. Proposes(P, row, request)
  BY <1>10, <1>12, <1>13 DEF Proposes
<1> QED
  BY <1>8, <1>11, <1>14, <1>15 DEF P, ps

-----------------------------------------------------------------------------
(* The store keeps its promises while sessions write to it. *)

\* What every step does to the store.
StoreKept ==
    /\ IInv'
    /\ AllHistoriesOK'
    /\ [Graph!Next]_(Graph!graphVars)
    /\ \A r \in CodeRelations : Advances(r) /\ KeepsEvents(r)

\* A step of the store itself, or one that leaves it alone.
LEMMA StoreStep ==
    ASSUME IInv, AllHistoriesOK, [Next]_vars
    PROVE  StoreKept
BY StepInv, StepHistory, StepImplements, StepAdvances DEF StoreKept

\* A step that makes proposals.
LEMMA ProposalStep ==
    ASSUME IInv, AllHistoriesOK, NEW P \in SUBSET CodeRelations, NEW row \in [P -> Row],
           NEW request \in [P -> Requests], Proposes(P, row, request)
    PROVE  StoreKept
<1>1. IInv' /\ AllHistoriesOK'
  BY ProposesInv, ProposesHistory
<1>2. Graph!Next
  BY ProposesImplements
<1>3. \A r \in CodeRelations : Advances(r) /\ KeepsEvents(r)
  BY ProposesAdvances
<1> QED
  BY <1>1, <1>2, <1>3 DEF StoreKept

\* What a completion does before its transaction leaves the relation store alone.
LEMMA PreparingKeepsStore ==
    ASSUME NEW c, \/ ListOmitted(c)
                  \/ \E r \in c.todo : PrepareStale(c, r)
                  \/ AbandonCompletion(c)
    PROVE  UNCHANGED vars
<1>1. CASE ListOmitted(c)
  BY <1>1 DEF ListOmitted
<1>2. CASE \E r \in c.todo : PrepareStale(c, r)
  BY <1>2 DEF PrepareStale
<1>3. CASE AbandonCompletion(c)
  BY <1>3 DEF AbandonCompletion
<1> QED
  BY <1>1, <1>2, <1>3

\* A step of initialization.
LEMMA InitStepKeepsStore ==
    ASSUME IInv, AllHistoriesOK, InitIInv, [InitNext]_allVars
    PROVE  StoreKept
<1>1. ASSUME UNCHANGED vars PROVE StoreKept
  BY <1>1, StoreStep
<1>2. ASSUME Next PROVE StoreKept
  BY <1>2, StoreStep
<1>3. ASSUME NEW s \in Sessions, NEW q \in InitRequests, NEW b \in Batch,
             SubmitBatch(s, q, b)
      PROVE  StoreKept
  BY <1>3, SubmitBatchProposes, ProposalStep
<1>4. ASSUME NEW c \in completions, Complete(c) PROVE StoreKept
  <2>1. InitTypeOK /\ CompletionOK(c) /\ SessionOK(c.session)
    BY DEF InitIInv, InitTypeOK, Completion
  <2> QED
    BY <1>4, <2>1, CompleteProposes, ProposalStep
<1>5. ASSUME NEW s \in Sessions, NEW q \in InitRequests,
             \/ \E target \in Targets : Begin(s, q, target)
             \/ \E b \in Batch : RepeatBatch(s, q, b)
             \/ \E n \in 1..MaxBatches : StartCompletion(s, q, n)
      PROVE  UNCHANGED vars
  BY <1>5, SMTT(30) DEF Begin, RepeatBatch, StartCompletion
<1>6. ASSUME NEW c \in completions,
             \/ ListOmitted(c)
             \/ \E r \in c.todo : PrepareStale(c, r)
             \/ AbandonCompletion(c)
      PROVE  UNCHANGED vars
  BY <1>6, PreparingKeepsStore
<1>7. UNCHANGED allVars => UNCHANGED vars
  BY DEF allVars
<1> QED
  BY <1>1, <1>2, <1>3, <1>4, <1>5, <1>6, <1>7 DEF InitNext

-----------------------------------------------------------------------------
(* What a session relies on is kept by every step that only adds to it. *)

\* A session keeps its target, and what was recorded stays so.
Grows ==
    /\ \A s \in Sessions : session[s] # None =>
         /\ session'[s] # None
         /\ session'[s].target = session[s].target
    /\ \A s \in Sessions : seen[s] \subseteq seen'[s]
    /\ \A r \in CodeRelations : origins[r] # None => origins'[r] = origins[r]
    /\ \A p \in Repositories : unresolved[p] \subseteq unresolved'[p]

\* A session that is begun is a row of its table.
LEMMA SessionFacts ==
    ASSUME InitTypeOK, NEW s \in Sessions, session[s] # None
    PROVE  /\ session[s] \in SessionRow
           /\ session[s].target.repository \in Repositories
           /\ session[s].target.repository # None
<1>1. session[s] \in SessionRow
  BY DEF InitTypeOK
<1>2. session[s].target \in Target
  BY <1>1, InitAssumption DEF SessionRow
<1> QED
  BY <1>1, <1>2, InitNoneAssumption DEF Target

\* A recorded batch stays recorded.
LEMMA RecordedKept ==
    ASSUME IInv, InitTypeOK, Grows, NEW s \in Sessions, NEW b \in Batch,
           \A r \in CodeRelations : Advances(r), Recorded(s, b)
    PROVE  Recorded(s, b)'
<1>1. session[s] # None /\ session'[s] # None /\ session'[s].target = session[s].target
  BY DEF Recorded, Grows
<1>2. ASSUME NEW r \in Items(b) PROVE Exists(r)' /\ r \in seen'[s] /\ origins'[r] # None
  <2>1. r \in CodeRelations /\ Exists(r) /\ r \in seen[s] /\ origins[r] # None
    BY BatchItems DEF Recorded
  <2>2. Exists(r)'
    BY <2>1, AdvanceKeepsExists
  <2> QED
    BY <2>1, <2>2 DEF Grows
<1>3. session[s].target.repository \in Repositories
  BY <1>1, SessionFacts
<1>4. b.payload.findings \subseteq unresolved'[session[s].target.repository]
  BY <1>3 DEF Recorded, Grows
<1> QED
  BY <1>1, <1>2, <1>4 DEF Recorded, Items

\* What a session left out stays so unless it sees more.
LEMMA LeftOutKept ==
    ASSUME InitTypeOK, Grows, NEW s \in Sessions, session[s] # None,
           NEW r \in CodeRelations, LeftOut(s, r), seen'[s] = seen[s]
    PROVE  LeftOut(s, r)'
<1>1. session[s].target.repository # None /\ session'[s].target = session[s].target
  BY SessionFacts DEF Grows
<1>2. origins'[r] = origins[r]
  BY <1>1 DEF LeftOut, Grows
<1> QED
  BY <1>1, <1>2 DEF LeftOut, InScope

\* What a session did stays done.
LEMMA SessionKept ==
    ASSUME InitTypeOK, Grows, NEW s \in Sessions, SessionOK(s),
           \A r \in CodeRelations : KeepsEvents(r),
           session'[s] = session[s], deferred'[s] = deferred[s],
           invalidated'[s] = invalidated[s], IsCompleted(s) => seen'[s] = seen[s]
    PROVE  SessionOK(s)'
<1>1. IsFiniteSet(deferred'[s]) /\ \A p \in deferred'[s] : p.kind = "Content"
  BY DEF SessionOK
<1>2. IsCompleted(s)' <=> IsCompleted(s)
  BY DEF IsCompleted
<1>3. ASSUME IsCompleted(s), NEW p \in deferred[s]
      PROVE  \E i \in DOMAIN events'[p.relation] :
                events'[p.relation][i] = Entry("Proposed", p.expected + 1, p.request)
  <2>1. p.relation \in CodeRelations
    BY DEF InitTypeOK, Proposal
  <2>2. PICK i \in DOMAIN events[p.relation] :
              events[p.relation][i] = Entry("Proposed", p.expected + 1, p.request)
    BY <1>3 DEF SessionOK
  <2> QED
    BY <2>1, <2>2 DEF KeepsEvents
<1>4. ASSUME IsCompleted(s), NEW r \in invalidated[s] PROVE LeftOut(s, r)'
  <2>1. r \in CodeRelations /\ LeftOut(s, r) /\ session[s] # None
    BY <1>4 DEF InitTypeOK, SessionOK, IsCompleted
  <2> QED
    BY <1>4, <2>1, LeftOutKept
<1> QED
  BY <1>1, <1>2, <1>3, <1>4 DEF SessionOK

\* A completion under way stays what it is, until its session accepts another batch.
LEMMA CompletionKept ==
    ASSUME IInv, InitTypeOK, Grows, NEW c \in completions, CompletionOK(c),
           \A r \in CodeRelations : Advances(r),
           \/ /\ batches'[c.session] = batches[c.session]
              /\ seen'[c.session] = seen[c.session]
           \/ Len(batches'[c.session]) = Len(batches[c.session]) + 1
    PROVE  CompletionOK(c)'
<1> DEFINE s == c.session
<1>1. /\ s \in Sessions /\ c.candidates \in SUBSET Proposal /\ c.todo \in SUBSET CodeRelations
      /\ c.expected \in Nat /\ batches[s] \in Seq(Batch)
  BY DEF InitTypeOK, Completion
<1>2. session'[s] # None /\ session[s] # None
  BY <1>1 DEF CompletionOK, Grows
<1>3. Len(batches[s]) \in Nat
  BY <1>1
<1>4. c.expected <= Len(batches'[s])
  BY <1>1, <1>3 DEF CompletionOK
<1>5. ASSUME NEW p \in c.candidates
      PROVE  PreparedOK(p, versions'[p.relation], current'[p.relation])
  <2>1. p \in Proposal /\ p.relation \in CodeRelations
        /\ PreparedOK(p, versions[p.relation], current[p.relation])
    BY <1>1 DEF CompletionOK, Proposal
  <2> QED
    BY <2>1, AdvanceKeepsPrepared
<1>6. ASSUME Len(batches'[s]) = c.expected
      PROVE  /\ \A r \in c.todo : LeftOut(s, r)'
             /\ \A p \in c.candidates : LeftOut(s, p.relation)'
  <2>1. Len(batches[s]) = c.expected /\ seen'[s] = seen[s]
    BY <1>3, <1>6 DEF CompletionOK
  <2>2. \A r \in c.todo : LeftOut(s, r)'
    BY <1>1, <1>2, <2>1, LeftOutKept DEF CompletionOK
  <2>3. \A p \in c.candidates : LeftOut(s, p.relation)'
    BY <1>1, <1>2, <2>1, LeftOutKept DEF CompletionOK, Proposal
  <2> QED
    BY <2>2, <2>3
<1> QED
  BY <1>2, <1>4, <1>5, <1>6 DEF CompletionOK

-----------------------------------------------------------------------------
(* Each step of initialization keeps the invariant. *)

\* What is recorded and what completions know survives every step that accepts no batch.
LEMMA OthersKept ==
    ASSUME IInv, InitIInv, StoreKept, Grows, InitTypeOK',
           batches' = batches, seen' = seen,
           \A t \in told' \ told : Recorded(t.session, t.batch)'
    PROVE  RecordedOK' /\ \A c \in completions : CompletionOK(c)'
<1>1. InitTypeOK /\ RecordedOK /\ (\A c \in completions : CompletionOK(c))
      /\ \A r \in CodeRelations : Advances(r)
  BY DEF InitIInv, StoreKept
<1>2. ASSUME NEW s \in Sessions, NEW i \in DOMAIN batches[s]
      PROVE  Recorded(s, batches[s][i])'
  <2> DEFINE b == batches[s][i]
  <2>1. b \in Batch /\ Recorded(s, b)
    BY <1>1 DEF InitTypeOK, RecordedOK
  <2>2. batches'[s][i] = b
    OBVIOUS
  <2> HIDE DEF b
  <2>3. ASSUME NEW d \in Batch, Recorded(s, d) PROVE Recorded(s, d)'
    BY <1>1, <2>3, RecordedKept
  <2>4. PICK d \in Batch : d = b
    BY <2>1
  <2>5. Recorded(s, d)'
    BY <2>1, <2>3, <2>4
  <2> QED
    BY <2>2, <2>4, <2>5 DEF Recorded
<1>3. ASSUME NEW t \in told' PROVE Recorded(t.session, t.batch)'
  <2>1. CASE t \in told
    <3>1. t.session \in Sessions /\ t.batch \in Batch /\ Recorded(t.session, t.batch)
      BY <1>1, <2>1 DEF InitTypeOK, RecordedOK
    <3> QED
      BY <1>1, <3>1, RecordedKept
  <2> QED
    BY <2>1
<1>4. RecordedOK'
  BY <1>2, <1>3 DEF RecordedOK
<1>5. ASSUME NEW c \in completions PROVE CompletionOK(c)'
  BY <1>1, CompletionKept
<1> QED
  BY <1>4, <1>5

\* A step that leaves every session and its batches as they are.
LEMMA SessionsSame ==
    ASSUME IInv, InitIInv, StoreKept, InitTypeOK',
           UNCHANGED <<session, batches, seen, deferred, origins, unresolved, told, invalidated>>,
           \A c \in completions' \ completions : CompletionOK(c)'
    PROVE  InitIInv'
<1>1. Grows
  BY DEF Grows
<1>2. RecordedOK' /\ \A c \in completions : CompletionOK(c)'
  BY <1>1, OthersKept
<1>3. \A s \in Sessions : SessionOK(s)'
  BY <1>1, SessionKept DEF InitIInv, StoreKept
<1>4. OriginsFinite'
  BY DEF InitIInv, OriginsFinite
<1>5. \A c \in completions' : CompletionOK(c)'
  BY <1>2
<1> QED
  BY <1>2, <1>3, <1>4, <1>5 DEF InitIInv

\* The first state.
LEMMA InitInitInv == InitInit => IInv /\ AllHistoriesOK /\ Graph!Init /\ InitIInv
<1> SUFFICES ASSUME InitInit PROVE IInv /\ AllHistoriesOK /\ Graph!Init /\ InitIInv
  OBVIOUS
<1>1. IInv /\ AllHistoriesOK /\ Graph!Init
  BY InitInv, InitHistory, InitImplements DEF InitInit
<1>2. InitTypeOK
  BY DEF InitInit, InitTypeOK
<1>3. RecordedOK
  BY DEF InitInit, RecordedOK
<1>4. \A s \in Sessions : SessionOK(s)
  BY FS_EmptySet DEF InitInit, SessionOK, IsCompleted
<1>5. \A c \in completions : CompletionOK(c)
  BY DEF InitInit
<1>6. OriginsFinite
  <2>1. {r \in CodeRelations : origins[r] # None} = {}
    BY DEF InitInit
  <2> QED
    BY <2>1, FS_EmptySet DEF OriginsFinite
<1> QED
  BY <1>1, <1>2, <1>3, <1>4, <1>5, <1>6 DEF InitIInv

\* A session that is begun has done nothing yet.
LEMMA BeginInv ==
    ASSUME IInv, InitIInv, StoreKept, NEW s \in Sessions, NEW q \in InitRequests,
           NEW target \in Targets, Begin(s, q, target)
    PROVE  InitIInv'
<1> DEFINE row == [request |-> q, target |-> target, status |-> "Open"]
<1>1. row \in SessionRow
  BY DEF SessionRow
<1>2. /\ session[s] = None
      /\ session' = [session EXCEPT ![s] = row]
      /\ batches' = batches /\ seen' = seen /\ deferred' = deferred
      /\ origins' = origins /\ unresolved' = unresolved /\ told' = told
      /\ completions' = completions /\ invalidated' = invalidated
  BY DEF Begin
<1>3. row.status = "Open"
  OBVIOUS
<1> HIDE DEF row
<1>4. InitTypeOK /\ InitTypeOK'
  BY <1>1, <1>2 DEF InitIInv, InitTypeOK
<1>5. session'[s] = row /\ \A x \in Sessions \ {s} : session'[x] = session[x]
  BY <1>2, <1>4 DEF InitTypeOK
<1>6. Grows
  BY <1>2, <1>5 DEF Grows
<1>7. RecordedOK' /\ \A c \in completions : CompletionOK(c)'
  BY <1>2, <1>4, <1>6, OthersKept
<1>8. ASSUME NEW x \in Sessions PROVE SessionOK(x)'
  <2>1. CASE x = s
    BY <1>2, <1>3, <1>5, <2>1 DEF InitIInv, SessionOK, IsCompleted
  <2>2. CASE x # s
    BY <1>2, <1>4, <1>5, <1>6, <2>2, SessionKept DEF InitIInv, StoreKept
  <2> QED
    BY <2>1, <2>2
<1>9. OriginsFinite'
  BY <1>2 DEF InitIInv, OriginsFinite
<1> QED
  BY <1>2, <1>4, <1>7, <1>8, <1>9 DEF InitIInv

\* A repeated batch is one that was recorded, with the same digest.
LEMMA RepeatBatchInv ==
    ASSUME IInv, InitIInv, StoreKept, NEW s \in Sessions, NEW q \in InitRequests,
           NEW b \in Batch, RepeatBatch(s, q, b)
    PROVE  InitIInv'
<1> DEFINE t == [session |-> s, batch |-> b]
<1>1. /\ told' = told \cup {t}
      /\ UNCHANGED <<session, batches, seen, deferred, origins, unresolved,
                     completions, invalidated>>
  BY DEF RepeatBatch, Tell
<1>2. InitTypeOK /\ InitTypeOK'
  BY <1>1 DEF InitIInv, InitTypeOK
<1>3. Grows
  BY <1>1 DEF Grows
<1>4. Recorded(s, b)'
  <2>1. PICK i \in DOMAIN batches[s] : SameDigest(b, batches[s][i])
    BY DEF RepeatBatch, BatchesOf
  <2>2. Recorded(s, batches[s][i]) /\ Items(b) = Items(batches[s][i])
        /\ b.payload = batches[s][i].payload
    BY <2>1 DEF InitIInv, RecordedOK, SameDigest, Items
  <2>3. Recorded(s, b)
    BY <2>2 DEF Recorded
  <2> QED
    BY <1>2, <1>3, <2>3, RecordedKept DEF StoreKept
<1>5. \A x \in told' \ told : Recorded(x.session, x.batch)'
  BY <1>1, <1>4
<1>6. RecordedOK' /\ \A c \in completions : CompletionOK(c)'
  BY <1>1, <1>2, <1>3, <1>5, OthersKept
<1>7. \A x \in Sessions : SessionOK(x)'
  BY <1>1, <1>2, <1>3, SessionKept DEF InitIInv, StoreKept
<1> QED
  BY <1>1, <1>2, <1>6, <1>7 DEF InitIInv, OriginsFinite

\* The reproposals a batch keeps for the completion.
LEMMA ReproposalsType ==
    ASSUME IInv, NEW s \in Sessions, NEW q \in InitRequests, NEW b \in Batch
    PROVE  LET new == {Reproposal(q, b, r) : r \in DeferredBy(s, b)}
           IN  /\ new \in SUBSET Proposal
               /\ IsFiniteSet(new)
               /\ \A p \in new : p.kind = "Content"
<1> DEFINE D == DeferredBy(s, b)
           f == [r \in D |-> Reproposal(q, b, r)]
           new == {Reproposal(q, b, r) : r \in D}
<1>1. D \subseteq Items(b) /\ D \subseteq CodeRelations
  BY BatchItems DEF DeferredBy
<1>2. IsFiniteSet(D)
  BY <1>1, BatchItems, FS_Subset
<1>3. ASSUME NEW r \in D PROVE Reproposal(q, b, r) \in Proposal
  <2>1. r \in Relations /\ current[r] \in Projection /\ Exists(r)
    BY <1>1, OfRelation DEF Relations, DeferredBy, Reproposable
  <2>2. current[r].latest \in Revisions
    BY <2>1, BoundAssumption DEF Projection, Exists, Revisions
  <2>3. ItemRequest(q, b, r) \in Requests /\ FirstContent[r] \in Contents
    BY <1>1, <2>1, ItemRequestType, RelationsAssumption
  <2> QED
    BY <1>1, <2>2, <2>3 DEF Reproposal, Proposal, Kinds
<1>4. \A r \in D : Reproposal(q, b, r).kind = "Content"
  BY DEF Reproposal
<1>5. f = [r \in D |-> f[r]] /\ new = {f[r] : r \in D}
  OBVIOUS
<1> HIDE DEF f, D
<1>6. IsFiniteSet(new)
  BY <1>2, <1>5, FiniteImage
<1> QED
  BY <1>3, <1>4, <1>6 DEF D

\* An accepted batch is recorded; it freezes no completion that counted fewer batches.
LEMMA SubmitBatchInv ==
    ASSUME IInv, InitIInv, StoreKept, NEW s \in Sessions, NEW q \in InitRequests,
           NEW b \in Batch, SubmitBatch(s, q, b)
    PROVE  InitIInv'
<1> DEFINE home == session[s].target.repository
           new == {Reproposal(q, b, r) : r \in DeferredBy(s, b)}
           t == [session |-> s, batch |-> b]
<1>1. /\ session[s] # None /\ session[s].status = "Open"
      /\ session' = session /\ completions' = completions /\ invalidated' = invalidated
      /\ batches' = [batches EXCEPT ![s] = Append(@, b)]
      /\ deferred' = [deferred EXCEPT ![s] = @ \cup new]
      /\ seen' = [seen EXCEPT ![s] = @ \cup Items(b)]
      /\ unresolved' = [unresolved EXCEPT ![home] = @ \cup b.payload.findings]
      /\ told' = told \cup {t}
  BY DEF SubmitBatch, MaySubmit, IsOpen, MarkSeen, OpenFindings, Tell
<1>2. origins' = [r \in CodeRelations |->
         IF r \in Items(b) /\ origins[r] = None THEN home ELSE origins[r]]
  BY DEF SubmitBatch
<1>3. InitTypeOK /\ home \in Repositories /\ home # None
  BY <1>1, SessionFacts DEF InitIInv
<1>4. Items(b) \in SUBSET CodeRelations /\ IsFiniteSet(Items(b))
  BY BatchItems
<1>5. b.payload.findings \subseteq Findings
  BY InitAssumption DEF Batch, Payload
<1>6. new \in SUBSET Proposal /\ IsFiniteSet(new) /\ \A p \in new : p.kind = "Content"
  BY ReproposalsType
<1>7. t \in [session : Sessions, batch : Batch] /\ t.session = s /\ t.batch = b
  OBVIOUS
<1> HIDE DEF home, new, t
<1>8. InitTypeOK'
  <2>1. batches' \in [Sessions -> Seq(Batch)]
    BY <1>1, <1>3 DEF InitTypeOK
  <2>2. seen' \in [Sessions -> SUBSET CodeRelations]
    BY <1>1, <1>3, <1>4 DEF InitTypeOK
  <2>3. deferred' \in [Sessions -> SUBSET Proposal]
    BY <1>1, <1>3, <1>6 DEF InitTypeOK
  <2>4. origins' \in [CodeRelations -> Repositories \cup {None}]
    BY <1>2, <1>3 DEF InitTypeOK
  <2>5. unresolved' \in [Repositories -> SUBSET Findings]
    BY <1>1, <1>3, <1>5 DEF InitTypeOK
  <2>6. told' \in SUBSET [session : Sessions, batch : Batch]
    BY <1>1, <1>3, <1>7 DEF InitTypeOK
  <2> QED
    BY <1>1, <1>3, <2>1, <2>2, <2>3, <2>4, <2>5, <2>6 DEF InitTypeOK
<1>9. Grows
  <2>1. \A x \in Sessions : seen[x] \subseteq seen'[x]
    BY <1>1, <1>3 DEF InitTypeOK
  <2>2. \A r \in CodeRelations : origins[r] # None => origins'[r] = origins[r]
    BY <1>2
  <2>3. \A p \in Repositories : unresolved[p] \subseteq unresolved'[p]
    BY <1>1, <1>3 DEF InitTypeOK
  <2> QED
    BY <1>1, <2>1, <2>2, <2>3 DEF Grows
<1>10. Recorded(s, b)'
  <2>1. ASSUME NEW r \in Items(b) PROVE Exists(r)' /\ r \in seen'[s] /\ origins'[r] # None
    <3>1. r \in CodeRelations /\ r \in Relations
      BY <1>4 DEF Relations
    <3>2. CASE Exists(r)
      <4>1. Exists(r)'
        BY <3>1, <3>2, AdvanceKeepsExists DEF StoreKept
      <4> QED
        BY <1>1, <1>2, <1>3, <3>1, <4>1 DEF InitTypeOK
    <3>3. CASE ~ Exists(r)
      <4>1. r \in CreatedBy(b)
        BY <3>3 DEF CreatedBy
      <4>2. current'[r].latest = 1
        BY <3>1, <4>1 DEF SubmitBatch
      <4>3. Exists(r)'
        BY <4>2 DEF Exists
      <4> QED
        BY <1>1, <1>2, <1>3, <3>1, <4>3 DEF InitTypeOK
    <3> QED
      BY <3>2, <3>3
  <2>2. b.payload.findings \subseteq unresolved'[home]
    BY <1>1, <1>3 DEF InitTypeOK
  <2> QED
    BY <1>1, <2>1, <2>2 DEF Recorded, home, Items
<1>11. RecordedOK'
  <2>1. ASSUME NEW x \in Sessions, NEW i \in DOMAIN batches'[x]
        PROVE  Recorded(x, batches[x][i])'
    <3>1. batches[x] \in Seq(Batch)
      BY <1>3 DEF InitTypeOK
    <3>2. CASE x = s /\ i = Len(batches[s]) + 1
      <4>1. batches'[x][i] = b
        BY <1>1, <1>3, <3>1, <3>2 DEF InitTypeOK
      <4> QED
        BY <1>10, <3>2, <4>1 DEF Recorded
    <3>3. CASE ~ (x = s /\ i = Len(batches[s]) + 1)
      <4>1. i \in DOMAIN batches[x] /\ batches'[x][i] = batches[x][i]
        BY <1>1, <1>3, <3>1, <3>3 DEF InitTypeOK
      <4>2. Recorded(x, batches[x][i]) /\ batches[x][i] \in Batch
        BY <3>1, <4>1 DEF InitIInv, RecordedOK
      <4>3. PICK d \in Batch : d = batches[x][i]
        BY <4>2
      <4>4. Recorded(x, d)
        BY <4>2, <4>3
      <4>5. Recorded(x, d)'
        BY <1>3, <1>9, <4>4, RecordedKept DEF StoreKept
      <4> QED
        BY <4>1, <4>3, <4>5 DEF Recorded
    <3> QED
      BY <3>2, <3>3
  <2>2. ASSUME NEW x \in told' PROVE Recorded(x.session, x.batch)'
    <3>1. CASE x \in told
      <4>1. x.session \in Sessions /\ x.batch \in Batch /\ Recorded(x.session, x.batch)
        BY <1>3, <3>1 DEF InitIInv, InitTypeOK, RecordedOK
      <4> QED
        BY <1>3, <1>9, <4>1, RecordedKept DEF StoreKept
    <3>2. CASE x = t
      BY <1>7, <1>10, <3>2
    <3> QED
      BY <1>1, <3>1, <3>2
  <2> QED
    BY <2>1, <2>2 DEF RecordedOK
<1>12. ASSUME NEW x \in Sessions PROVE SessionOK(x)'
  <2>1. CASE x = s
    <3>1. deferred'[s] = deferred[s] \cup new
      BY <1>1, <1>3 DEF InitTypeOK
    <3>2. IsFiniteSet(deferred'[s])
      <4>1. IsFiniteSet(deferred[s])
        BY DEF InitIInv, SessionOK
      <4>2. IsFiniteSet(deferred[s] \cup new)
        BY <1>6, <4>1, FS_Union
      <4> QED
        BY <3>1, <4>2
    <3>3. \A p \in deferred'[s] : p.kind = "Content"
      BY <1>6, <3>1 DEF InitIInv, SessionOK
    <3>4. ~ IsCompleted(s) /\ ~ IsCompleted(s)'
      BY <1>1 DEF IsCompleted
    <3>5. invalidated'[s] = {}
      BY <1>1, <3>4 DEF InitIInv, SessionOK
    <3> QED
      BY <2>1, <3>2, <3>3, <3>4, <3>5 DEF SessionOK
  <2>2. CASE x # s
    <3>1. deferred'[x] = deferred[x] /\ seen'[x] = seen[x]
      BY <1>1, <1>3, <2>2 DEF InitTypeOK
    <3> QED
      BY <1>1, <1>3, <1>9, <3>1, SessionKept DEF InitIInv, StoreKept
  <2> QED
    BY <2>1, <2>2
<1>13. ASSUME NEW c \in completions PROVE CompletionOK(c)'
  <2>1. c.session \in Sessions /\ batches[c.session] \in Seq(Batch)
    BY <1>3 DEF InitTypeOK, Completion
  <2>2. \/ /\ batches'[c.session] = batches[c.session]
           /\ seen'[c.session] = seen[c.session]
        \/ Len(batches'[c.session]) = Len(batches[c.session]) + 1
    BY <1>1, <1>3, <2>1 DEF InitTypeOK
  <2> QED
    BY <1>3, <1>9, <2>2, CompletionKept DEF InitIInv, StoreKept
<1>14. OriginsFinite'
  <2> DEFINE old == {r \in CodeRelations : origins[r] # None}
             now == {r \in CodeRelations : origins'[r] # None}
  <2>1. now \subseteq old \cup Items(b)
    BY <1>2, <1>3 DEF InitTypeOK
  <2>2. IsFiniteSet(old \cup Items(b))
    BY <1>4, FS_Union DEF InitIInv, OriginsFinite
  <2>3. IsFiniteSet(now)
    BY <2>1, <2>2, FS_Subset
  <2> QED
    BY <2>3 DEF OriginsFinite
<1> QED
  BY <1>1, <1>8, <1>11, <1>12, <1>13, <1>14 DEF InitIInv

\* A completion starts with nothing to do, at a count of batches its session has.
LEMMA StartCompletionInv ==
    ASSUME IInv, InitIInv, StoreKept, NEW s \in Sessions, NEW q \in InitRequests,
           NEW n \in 1..MaxBatches, StartCompletion(s, q, n)
    PROVE  InitIInv'
<1> DEFINE count == Cardinality(deferred[s])
           new == [session |-> s, request |-> q, expected |-> n,
                   budget |-> MaximumCompletionCandidates - count,
                   phase |-> "Checked", todo |-> {}, candidates |-> {}]
<1>1. /\ UNCHANGED <<session, batches, seen, deferred, origins, unresolved, told, invalidated>>
      /\ completions' = completions \cup {new}
      /\ session[s] # None /\ Len(batches[s]) = n
      /\ count <= MaximumCompletionCandidates
  <2>1. /\ UNCHANGED <<session, batches, seen, deferred, origins, unresolved, told, invalidated>>
        /\ completions' = completions \cup {new}
        /\ session[s] # None /\ Len(batches[s]) = n
        /\ count + 0 <= MaximumCompletionCandidates
    BY DEF StartCompletion, IsOpen, VerifyBatchCount, WithinBudget
  <2>2. count \in Nat
    BY FS_CardinalityType DEF InitIInv, SessionOK
  <2> QED
    BY <2>1, <2>2
<1>2. count \in Nat
  BY FS_CardinalityType DEF InitIInv, SessionOK
<1>3. MaximumCompletionCandidates - count \in 0..MaximumCompletionCandidates
  BY <1>1, <1>2, InitAssumption
<1>4. PICK c \in Completion : c = new
  BY <1>3 DEF Completion
<1>5. /\ c.session = s /\ c.expected = n /\ c.phase = "Checked"
      /\ c.todo = {} /\ c.candidates = {}
  BY <1>4
<1> HIDE DEF new
<1>6. InitTypeOK'
  BY <1>1, <1>4 DEF InitIInv, InitTypeOK
<1>7. CompletionOK(c)'
  <2>1. IsFiniteSet({}) /\ Cardinality({}) = 0
    BY FS_EmptySet
  <2>2. 0 + 0 <= MaximumCompletionCandidates
    BY InitAssumption
  <2>3. n <= Len(batches[s])
    BY <1>1
  <2> QED
    BY <1>1, <1>5, <2>1, <2>2, <2>3 DEF CompletionOK
<1>8. \A d \in completions' \ completions : CompletionOK(d)'
  BY <1>1, <1>4, <1>7
<1> QED
  BY <1>1, <1>6, <1>8, SessionsSame

\* A completion lists what its session left out, no more than its budget.
LEMMA ListOmittedInv ==
    ASSUME IInv, InitIInv, StoreKept, NEW c \in completions, ListOmitted(c)
    PROVE  InitIInv'
<1> DEFINE s == c.session
           omitted == Omitted(s)
           new == [c EXCEPT !.phase = "Listed", !.todo = omitted]
<1>1. /\ UNCHANGED <<session, batches, seen, deferred, origins, unresolved, told, invalidated>>
      /\ completions' = (completions \ {c}) \cup {new}
      /\ c.phase = "Checked"
      /\ MaximumCompletionCandidates - c.budget + Cardinality(omitted)
           <= MaximumCompletionCandidates
  BY DEF ListOmitted, WithinBudget
<1>2. /\ InitTypeOK /\ c \in Completion /\ s \in Sessions /\ CompletionOK(c)
      /\ session[s] # None
  BY DEF InitIInv, InitTypeOK, Completion, CompletionOK
<1>3. session[s].target.repository # None
  BY <1>2, SessionFacts
<1>4. omitted \subseteq CodeRelations /\ \A r \in omitted : LeftOut(s, r)
  BY DEF Omitted, LeftOut
<1>5. IsFiniteSet(omitted)
  <2>1. omitted \subseteq {r \in CodeRelations : origins[r] # None}
    BY <1>3, <1>4 DEF LeftOut
  <2> QED
    BY <2>1, FS_Subset DEF InitIInv, OriginsFinite
<1>6. Cardinality(omitted) \in Nat /\ Cardinality(omitted) <= MaximumCompletionCandidates
  <2>1. Cardinality(omitted) \in Nat
    BY <1>5, FS_CardinalityType
  <2>2. c.budget \in 0..MaximumCompletionCandidates
    BY <1>2 DEF Completion
  <2> QED
    BY <1>1, <2>1, <2>2, InitAssumption
<1>7. c.candidates = {}
  BY <1>1, <1>2 DEF CompletionOK
<1>8. PICK d \in Completion : d = new
  BY <1>2, <1>4 DEF Completion
<1>9. /\ d.session = s /\ d.expected = c.expected /\ d.phase = "Listed"
      /\ d.todo = omitted /\ d.candidates = {}
  BY <1>2, <1>7, <1>8 DEF Completion
<1> HIDE DEF new
<1>10. InitTypeOK'
  BY <1>1, <1>2, <1>8 DEF InitTypeOK
<1>11. CompletionOK(d)'
  <2>1. IsFiniteSet({}) /\ Cardinality({}) = 0
    BY FS_EmptySet
  <2>2. Cardinality(omitted) + 0 <= MaximumCompletionCandidates
    BY <1>6
  <2>3. \A r \in d.todo : LeftOut(s, r)'
    BY <1>1, <1>4, <1>9 DEF LeftOut, InScope
  <2>4. c.expected <= Len(batches[s])
    BY <1>2 DEF CompletionOK
  <2> QED
    BY <1>1, <1>2, <1>5, <1>9, <2>1, <2>2, <2>3, <2>4 DEF CompletionOK
<1>12. \A x \in completions' \ completions : CompletionOK(x)'
  BY <1>1, <1>8, <1>11
<1> QED
  BY <1>1, <1>10, <1>12, SessionsSame

\* A candidate that is prepared withdraws what is in force, at the revision that was read.
LEMMA StaleCandidate ==
    ASSUME IInv, InitTypeOK, NEW c \in completions, CompletionOK(c),
           NEW r \in c.todo, PrepareStale(c, r)
    PROVE  LET p == [request |-> <<c.request, Cardinality(c.candidates) + 1>>,
                     relation |-> r, expected |-> current[r].latest, kind |-> "Stale",
                     content |-> versions[r][current[r].active].content]
           IN  p \in Proposal /\ PreparedOK(p, versions[r], current[r])
<1> DEFINE k == Cardinality(c.candidates) + 1
           content == versions[r][current[r].active].content
           p == [request |-> <<c.request, k>>, relation |-> r,
                 expected |-> current[r].latest, kind |-> "Stale", content |-> content]
<1>1. r \in CodeRelations /\ r \in Relations /\ c.request \in InitRequests
  BY DEF InitTypeOK, Completion, Relations
<1>2. /\ current[r].proposed = 0 /\ current[r].active # 0
      /\ current[r].status \notin {"Tombstoned", "Stale"}
  BY DEF PrepareStale
<1>3. /\ current[r] \in Projection /\ versions[r] \in RowsType
      /\ RelationOK(versions[r], current[r], edge[r])
  BY <1>1, OfRelation
<1>4. /\ current[r].latest \in Nat /\ current[r].active \in Revisions
      /\ current[r].status \in Statuses
  BY <1>2, <1>3, BoundAssumption DEF Projection, Revisions
<1>5. /\ current[r].latest \in Revisions
      /\ current[r].status \in {"Approved", "Suppressed"}
      /\ versions[r][current[r].active] # None
  <2>1. current[r].latest # 0
    BY <1>2, <1>3 DEF RelationOK
  <2>2. current[r].latest \in Revisions
    BY <1>3, <2>1, BoundAssumption DEF Projection, Revisions
  <2>3. current[r].status # "Pending"
    BY <1>2, <1>3, <1>4, <2>1 DEF RelationOK
  <2>4. current[r].status \in {"Approved", "Suppressed"}
    BY <1>2, <1>4, <2>3 DEF Statuses
  <2> QED
    BY <1>3, <1>4, <2>1, <2>2, <2>4 DEF RelationOK
<1>6. content \in Contents
  BY <1>3, <1>4, <1>5 DEF RowsType, Row
<1>7. <<c.request, k>> \in Requests
  <2>1. Cardinality(c.todo) \in Nat /\ Cardinality(c.candidates) \in Nat
    BY FS_CardinalityType DEF CompletionOK
  <2>2. Cardinality(c.todo) # 0
    BY FS_EmptySet DEF CompletionOK
  <2>3. k \in 1..MaximumBatchItems
    BY <2>1, <2>2, InitAssumption DEF CompletionOK
  <2>4. <<c.request, k>> \in InitRequests \X (1..MaximumBatchItems)
    BY <1>1, <2>3
  <2> QED
    BY <2>4, InitAssumption DEF Requests
<1> HIDE DEF k, content
<1>8. p \in Proposal
  BY <1>1, <1>5, <1>6, <1>7 DEF Proposal, Kinds
<1>9. /\ p.expected = current[r].latest /\ p.content = content
  OBVIOUS
<1> HIDE DEF p
<1>10. PreparedOK(p, versions[r], current[r])
  BY <1>2, <1>4, <1>5, <1>9 DEF PreparedOK, content
<1> QED
  BY <1>8, <1>10 DEF p, k, content

\* A relation that was listed becomes a candidate.
LEMMA PrepareStaleInv ==
    ASSUME IInv, InitIInv, StoreKept, NEW c \in completions, NEW r \in c.todo,
           PrepareStale(c, r)
    PROVE  InitIInv'
<1> DEFINE s == c.session
           p == [request |-> <<c.request, Cardinality(c.candidates) + 1>>,
                 relation |-> r, expected |-> current[r].latest, kind |-> "Stale",
                 content |-> versions[r][current[r].active].content]
           todo == c.todo \ {r}
           candidates == c.candidates \cup {p}
           new == [c EXCEPT !.todo = todo, !.candidates = candidates]
<1>1. /\ UNCHANGED <<session, batches, seen, deferred, origins, unresolved, told, invalidated>>
      /\ completions' = (completions \ {c}) \cup {new}
      /\ c.phase = "Listed"
      /\ UNCHANGED vars
  BY DEF PrepareStale
<1>2. /\ InitTypeOK /\ c \in Completion /\ s \in Sessions /\ CompletionOK(c)
      /\ session[s] # None /\ r \in CodeRelations
  BY DEF InitIInv, InitTypeOK, Completion, CompletionOK
<1>3. p \in Proposal /\ PreparedOK(p, versions[r], current[r])
  BY <1>2, StaleCandidate
<1>4. p.relation = r
  OBVIOUS
<1> HIDE DEF p
<1>5. PICK d \in Completion : d = new
  BY <1>1, <1>2, <1>3 DEF Completion
<1>6. /\ d.session = s /\ d.expected = c.expected /\ d.phase = "Listed"
      /\ d.todo = todo /\ d.candidates = candidates
  BY <1>1, <1>2, <1>5 DEF Completion
<1> HIDE DEF new
<1>7. InitTypeOK'
  BY <1>1, <1>2, <1>5 DEF InitTypeOK
<1>8. /\ IsFiniteSet(todo) /\ IsFiniteSet(candidates)
      /\ Cardinality(todo) + Cardinality(candidates) <= MaximumCompletionCandidates
  <2>1. /\ IsFiniteSet(c.todo) /\ IsFiniteSet(c.candidates)
        /\ Cardinality(c.todo) + Cardinality(c.candidates) <= MaximumCompletionCandidates
    BY <1>2 DEF CompletionOK
  <2>2. /\ Cardinality(c.todo) \in Nat /\ Cardinality(c.candidates) \in Nat
    BY <2>1, FS_CardinalityType
  <2>3. IsFiniteSet(todo) /\ Cardinality(todo) = Cardinality(c.todo) - 1
    BY <2>1, FS_RemoveElement
  <2>4. IsFiniteSet(candidates)
        /\ \/ Cardinality(candidates) = Cardinality(c.candidates)
           \/ Cardinality(candidates) = Cardinality(c.candidates) + 1
    BY <2>1, FS_AddElement
  <2> QED
    BY <2>1, <2>2, <2>3, <2>4, InitAssumption
<1>9. CompletionOK(d)'
  <2>1. \A x \in d.candidates : PreparedOK(x, versions'[x.relation], current'[x.relation])
    BY <1>1, <1>2, <1>3, <1>4, <1>6 DEF CompletionOK, vars
  <2>2. ASSUME Len(batches'[s]) = c.expected
        PROVE  /\ \A x \in d.todo : LeftOut(s, x)'
               /\ \A x \in d.candidates : LeftOut(s, x.relation)'
    <3>1. /\ \A x \in c.todo : LeftOut(s, x)
          /\ \A x \in c.candidates : LeftOut(s, x.relation)
      BY <1>1, <1>2, <2>2 DEF CompletionOK
    <3>2. /\ \A x \in d.todo : LeftOut(s, x)
          /\ \A x \in d.candidates : LeftOut(s, x.relation)
      BY <1>4, <1>6, <3>1
    <3> QED
      BY <1>1, <3>2 DEF LeftOut, InScope
  <2>3. d.expected <= Len(batches'[s]) /\ session'[s] # None
    BY <1>1, <1>2, <1>6 DEF CompletionOK
  <2>4. /\ IsFiniteSet(d.todo) /\ IsFiniteSet(d.candidates)
        /\ Cardinality(d.todo) + Cardinality(d.candidates) <= MaximumCompletionCandidates
    BY <1>6, <1>8
  <2> HIDE DEF todo, candidates
  <2> QED
    BY <1>6, <2>1, <2>2, <2>3, <2>4 DEF CompletionOK
<1>10. \A x \in completions' \ completions : CompletionOK(x)'
  BY <1>1, <1>5, <1>9
<1> QED
  BY <1>1, <1>7, <1>10, SessionsSame

\* The event of a candidate is the last one of its relation's log when it is proposed.
LEMMA ProposedEvent ==
    ASSUME TypeOK, NEW P \in SUBSET CodeRelations, NEW row \in [P -> Row],
           NEW request \in [P -> Requests], Proposes(P, row, request), NEW r \in P
    PROVE  \E i \in DOMAIN events'[r] :
              events'[r][i] = Entry("Proposed", current[r].latest + 1, request[r])
<1> DEFINE entry == Entry("Proposed", current[r].latest + 1, request[r])
<1>1. events[r] \in Seq(Event)
  BY DEF TypeOK, Relations
<1>2. events'[r] = Append(events[r], entry)
  BY DEF Proposes
<1> HIDE DEF entry
<1>3. /\ Len(events[r]) + 1 \in DOMAIN Append(events[r], entry)
      /\ Append(events[r], entry)[Len(events[r]) + 1] = entry
  BY <1>1
<1> QED
  BY <1>2, <1>3 DEF entry

\* A completed session proposed what its batches deferred and withdrew what it left out.
LEMMA CompleteInv ==
    ASSUME IInv, InitIInv, StoreKept, NEW c \in completions, Complete(c)
    PROVE  InitIInv'
<1> DEFINE s == c.session
           P == {p.relation : p \in Candidates(c)}
           omitted == {p.relation : p \in c.candidates}
<1>1. /\ UNCHANGED <<batches, seen, deferred, origins, unresolved, told>>
      /\ session' = [session EXCEPT ![s] = [@ EXCEPT !.status = "Completed"]]
      /\ invalidated' = [invalidated EXCEPT ![s] = omitted]
      /\ completions' = completions \ {c}
      /\ session[s] # None /\ session[s].status = "Open"
      /\ Len(batches[s]) = c.expected
      /\ Cardinality(deferred[s]) + Cardinality(c.candidates) <= MaximumCompletionCandidates
  BY DEF Complete, StillCompletable, IsOpen, VerifyBatchCount, WithinBudget
<1>2. /\ InitTypeOK /\ c \in Completion /\ s \in Sessions
      /\ CompletionOK(c) /\ SessionOK(s) /\ session[s] \in SessionRow
      /\ c.candidates \in SUBSET Proposal
  <2>1. InitTypeOK /\ c \in Completion /\ s \in Sessions /\ c.candidates \in SUBSET Proposal
    BY DEF InitIInv, InitTypeOK, Completion
  <2> QED
    BY <1>1, <2>1, SessionFacts DEF InitIInv
<1>3. /\ session'[s] # None /\ session'[s] \in SessionRow
      /\ session'[s].target = session[s].target /\ session'[s].status = "Completed"
      /\ \A x \in Sessions \ {s} : session'[x] = session[x]
  <2>1. session'[s] = [session[s] EXCEPT !.status = "Completed"]
    BY <1>1, <1>2 DEF InitTypeOK
  <2>2. session'[s] \in SessionRow
    BY <1>2, <2>1 DEF SessionRow
  <2>3. None \notin SessionRow
    BY InitAssumption, InitNoneAssumption DEF SessionRow
  <2>4. session'[s].target = session[s].target /\ session'[s].status = "Completed"
    BY <1>2, <2>1 DEF SessionRow
  <2> QED
    BY <1>1, <1>2, <2>2, <2>3, <2>4 DEF InitTypeOK
<1>4. omitted \in SUBSET CodeRelations
  BY <1>2 DEF Proposal
<1>5. invalidated'[s] = omitted /\ \A x \in Sessions \ {s} : invalidated'[x] = invalidated[x]
  BY <1>1, <1>2 DEF InitTypeOK
<1>6. InitTypeOK'
  <2>1. session' \in [Sessions -> SessionRow \cup {None}]
    BY <1>1, <1>2, <1>3 DEF InitTypeOK
  <2>2. invalidated' \in [Sessions -> SUBSET CodeRelations]
    BY <1>1, <1>2, <1>4 DEF InitTypeOK
  <2> QED
    BY <1>1, <1>2, <2>1, <2>2 DEF InitTypeOK
<1>7. Grows
  BY <1>1, <1>3 DEF Grows
<1>8. RecordedOK' /\ \A x \in completions : CompletionOK(x)'
  BY <1>1, <1>6, <1>7, OthersKept
<1>9. SessionOK(s)'
  <2>1. IsFiniteSet(deferred'[s]) /\ \A p \in deferred'[s] : p.kind = "Content"
    BY <1>1, <1>2 DEF SessionOK
  <2>2. IsCompleted(s)'
    BY <1>3 DEF IsCompleted
  <2>3. ASSUME NEW p \in deferred'[s]
        PROVE  \E i \in DOMAIN events'[p.relation] :
                  events'[p.relation][i] = Entry("Proposed", p.expected + 1, p.request)
    <3>1. p \in Candidates(c) /\ p.relation \in P
      BY <1>1 DEF Candidates
    <3>2. P \in SUBSET CodeRelations
          /\ \E row \in [P -> Row], request \in [P -> Requests] :
               /\ Proposes(P, row, request)
               /\ \A x \in Candidates(c) : /\ request[x.relation] = x.request
                                           /\ x.expected = current[x.relation].latest
      BY <1>2, CompleteProposes
    <3>3. PICK row \in [P -> Row], request \in [P -> Requests] :
               /\ Proposes(P, row, request)
               /\ \A x \in Candidates(c) : /\ request[x.relation] = x.request
                                           /\ x.expected = current[x.relation].latest
      BY <3>2
    <3>4. TypeOK
      BY DEF IInv
    <3> HIDE DEF P
    <3>5. \E i \in DOMAIN events'[p.relation] : events'[p.relation][i] =
             Entry("Proposed", current[p.relation].latest + 1, request[p.relation])
      BY <3>1, <3>2, <3>3, <3>4, ProposedEvent
    <3>6. request[p.relation] = p.request /\ current[p.relation].latest = p.expected
      BY <3>1, <3>3
    <3> QED
      BY <3>5, <3>6
  <2>4. ASSUME NEW r \in omitted PROVE LeftOut(s, r)'
    <3>1. LeftOut(s, r)
      BY <1>1, <1>2 DEF CompletionOK
    <3> QED
      BY <1>1, <1>3, <3>1 DEF LeftOut, InScope
  <2>5. Cardinality(deferred'[s]) + Cardinality(omitted) <= MaximumCompletionCandidates
    <3>1. /\ IsFiniteSet(omitted)
          /\ Cardinality(omitted) <= Cardinality(c.candidates)
      BY <1>2, FiniteRelations DEF CompletionOK
    <3>2. /\ Cardinality(omitted) \in Nat /\ Cardinality(c.candidates) \in Nat
          /\ Cardinality(deferred[s]) \in Nat
      BY <1>2, <3>1, FS_CardinalityType DEF CompletionOK, SessionOK
    <3> QED
      BY <1>1, <3>1, <3>2, InitAssumption
  <2>6. invalidated'[s] = omitted
    BY <1>5
  <2> HIDE DEF s, omitted
  <2>7. \A r \in invalidated'[s] : LeftOut(s, r)'
    BY <2>4, <2>6
  <2>8. Cardinality(deferred'[s]) + Cardinality(invalidated'[s]) <= MaximumCompletionCandidates
    BY <2>5, <2>6
  <2> QED
    BY <2>1, <2>2, <2>3, <2>7, <2>8 DEF SessionOK
<1>10. ASSUME NEW x \in Sessions \ {s} PROVE SessionOK(x)'
  BY <1>1, <1>2, <1>3, <1>5, <1>7, SessionKept DEF InitIInv, StoreKept
<1>11. \A x \in Sessions : SessionOK(x)'
  BY <1>9, <1>10
<1>12. OriginsFinite'
  BY <1>1 DEF InitIInv, OriginsFinite
<1> QED
  BY <1>1, <1>6, <1>8, <1>11, <1>12 DEF InitIInv

\* Every step keeps the invariant.
LEMMA InitStepInv ==
    IInv /\ AllHistoriesOK /\ InitIInv /\ [InitNext]_allVars => StoreKept /\ InitIInv'
<1> SUFFICES ASSUME IInv, AllHistoriesOK, InitIInv, [InitNext]_allVars
             PROVE  StoreKept /\ InitIInv'
  OBVIOUS
<1>1. StoreKept
  BY InitStepKeepsStore
<1>2. ASSUME UNCHANGED <<session, batches, seen, deferred, origins, unresolved, told,
                         invalidated>>,
             completions' \subseteq completions
      PROVE  InitIInv'
  <2>1. InitTypeOK'
    BY <1>2 DEF InitIInv, InitTypeOK
  <2> QED
    BY <1>1, <1>2, <2>1, SessionsSame
<1>3. ASSUME UNCHANGED initVars PROVE InitIInv'
  BY <1>2, <1>3 DEF initVars
<1>4. ASSUME NEW s \in Sessions, NEW q \in InitRequests,
             \/ \E target \in Targets : Begin(s, q, target)
             \/ \E b \in Batch : SubmitBatch(s, q, b) \/ RepeatBatch(s, q, b)
             \/ \E n \in 1..MaxBatches : StartCompletion(s, q, n)
      PROVE  InitIInv'
  BY <1>1, <1>4, BeginInv, SubmitBatchInv, RepeatBatchInv, StartCompletionInv
<1>5. ASSUME NEW c \in completions,
             \/ ListOmitted(c)
             \/ \E r \in c.todo : PrepareStale(c, r)
             \/ Complete(c)
      PROVE  InitIInv'
  BY <1>1, <1>5, ListOmittedInv, PrepareStaleInv, CompleteInv
<1>6. ASSUME NEW c \in completions, AbandonCompletion(c) PROVE InitIInv'
  BY <1>2, <1>6 DEF AbandonCompletion
<1>7. UNCHANGED allVars => UNCHANGED initVars
  BY DEF allVars
<1> QED
  BY <1>1, <1>3, <1>4, <1>5, <1>6, <1>7 DEF InitNext

-----------------------------------------------------------------------------
(* What initialization and the store beneath it promise together. *)

\* The invariant of the store, of the histories and of the sessions, and every step of
\* the composed system is one of the reviewed graph or leaves it alone.
THEOREM InitInvariantHolds ==
    InitSpec => [](IInv /\ AllHistoriesOK /\ InitIInv) /\ ImplementsReviewedGraph
<1>1. InitInit => (IInv /\ AllHistoriesOK /\ InitIInv) /\ Graph!Init
  BY InitInitInv
<1>2. (IInv /\ AllHistoriesOK /\ InitIInv) /\ [InitNext]_allVars
        => (IInv /\ AllHistoriesOK /\ InitIInv)' /\ [Graph!Next]_(Graph!graphVars)
  BY InitStepInv DEF StoreKept
<1> QED
  BY <1>1, <1>2, PTL DEF InitSpec, ImplementsReviewedGraph, Graph!Spec

\* Batches and completions break none of the promises of the relation store.
THEOREM StoreKeepsItsPromises ==
    InitSpec => [](/\ ProjectionWellFormed /\ EffectiveIffApproved
                   /\ InvalidationDescribesActive /\ ScanNeverRejected
                   /\ HistoryDeterminesProjection)
<1>1. IInv /\ AllHistoriesOK =>
         /\ ProjectionWellFormed /\ EffectiveIffApproved
         /\ InvalidationDescribesActive /\ ScanNeverRejected
         /\ HistoryDeterminesProjection
  BY ScansReconcile
  DEF IInv, AllHistoriesOK, HistoryOK, HistoryDeterminesProjection
<1> QED
  BY <1>1, InitInvariantHolds, PTL

\* What a caller was told is accepted is in the tables, whether its call was the one that
\* wrote the batch or a repetition of it.
THEOREM AcceptedBatchesAreRecorded == InitSpec => []AcceptedIsRecorded
<1>1. InitIInv => AcceptedIsRecorded
  BY DEF InitIInv, RecordedOK, Recorded, AcceptedIsRecorded
<1> QED
  BY <1>1, InitInvariantHolds, PTL

\* A completion withdraws only what its session left out, although it lists the relations,
\* prepares each one and commits in separate steps while batches are accepted.
THEOREM CompletionsInvalidateOmitted == InitSpec => []OnlyOmittedInvalidated
<1>1. InitIInv => OnlyOmittedInvalidated
  <2> SUFFICES ASSUME InitIInv, NEW s \in Sessions, NEW r \in invalidated[s]
               PROVE  /\ r \notin seen[s]
                      /\ \A t \in told : t.session = s => r \notin Items(t.batch)
                      /\ origins[r] = session[s].target.repository
                      /\ session[s].target.mode = "Incremental"
                           => r \in session[s].target.scope
    BY DEF OnlyOmittedInvalidated
  <2>1. IsCompleted(s) /\ LeftOut(s, r)
    BY DEF InitIInv, SessionOK
  <2>2. \A t \in told : t.session = s => r \notin Items(t.batch)
    BY <2>1 DEF InitIInv, RecordedOK, Recorded, LeftOut
  <2> QED
    BY <2>1, <2>2 DEF LeftOut, InScope
<1> QED
  BY <1>1, InitInvariantHolds, PTL

\* A completed session proposed every relation its batches reported as reproposed.
THEOREM CompletionsKeepReproposals == InitSpec => []ReproposalsKept
<1>1. InitIInv => ReproposalsKept
  BY DEF InitIInv, SessionOK, IsCompleted, ReproposalsKept
<1> QED
  BY <1>1, InitInvariantHolds, PTL

\* The limit of a completion counts its reproposals and its stale candidates together,
\* although each is counted in a read of its own.
THEOREM CompletionsAreBounded == InitSpec => []CompletionBounded
<1>1. InitIInv => CompletionBounded
  BY DEF InitIInv, SessionOK, CompletionBounded
<1> QED
  BY <1>1, InitInvariantHolds, PTL

\* Until a session completes, nothing it does changes a relation that exists.
THEOREM IncompleteSessionsChangeNothing == InitSpec => IncompleteChangesNothing
<1> DEFINE Quiet ==
       initVars' # initVars /\ (\A s \in Sessions : IsOpen(s) => IsOpen(s)') =>
         \A r \in Relations : Exists(r) =>
             current'[r] = current[r] /\ versions'[r] = versions[r]
<1>1. InitIInv /\ [InitNext]_allVars => [Quiet]_allVars
  <2> SUFFICES ASSUME InitIInv, InitNext PROVE Quiet
    OBVIOUS
  <2>1. ASSUME UNCHANGED vars PROVE Quiet
    BY <2>1 DEF vars
  <2>2. ASSUME NEW s \in Sessions, NEW q \in InitRequests, NEW b \in Batch,
               SubmitBatch(s, q, b)
        PROVE  Quiet
    <3>1. \A r \in Relations : r \notin CreatedBy(b) =>
             current'[r] = current[r] /\ versions'[r] = versions[r]
      BY <2>2 DEF SubmitBatch
    <3>2. \A r \in Relations : Exists(r) => r \notin CreatedBy(b)
      BY DEF CreatedBy
    <3> QED
      BY <3>1, <3>2
  <2>3. ASSUME NEW c \in completions, Complete(c) PROVE Quiet
    <3>1. c.session \in Sessions /\ session \in [Sessions -> SessionRow \cup {None}]
      BY DEF InitIInv, InitTypeOK, Completion
    <3>2. IsOpen(c.session)
          /\ session' = [session EXCEPT ![c.session] = [@ EXCEPT !.status = "Completed"]]
      BY <2>3 DEF Complete, StillCompletable
    <3>3. session[c.session] \in SessionRow
      BY <3>1, <3>2 DEF IsOpen
    <3>4. session'[c.session] = [session[c.session] EXCEPT !.status = "Completed"]
      BY <3>1, <3>2
    <3>5. session'[c.session].status = "Completed"
      BY <3>3, <3>4 DEF SessionRow
    <3>6. ~ IsOpen(c.session)'
      BY <3>5 DEF IsOpen
    <3> QED
      BY <3>1, <3>2, <3>6
  <2>4. ASSUME NEW s \in Sessions, NEW q \in InitRequests,
               \/ \E target \in Targets : Begin(s, q, target)
               \/ \E b \in Batch : RepeatBatch(s, q, b)
               \/ \E n \in 1..MaxBatches : StartCompletion(s, q, n)
        PROVE  UNCHANGED vars
    BY <2>4, SMTT(30) DEF Begin, RepeatBatch, StartCompletion
  <2>5. ASSUME NEW c \in completions,
               \/ ListOmitted(c)
               \/ \E r \in c.todo : PrepareStale(c, r)
               \/ AbandonCompletion(c)
        PROVE  UNCHANGED vars
    BY <2>5, PreparingKeepsStore
  <2>6. UNCHANGED initVars => Quiet
    OBVIOUS
  <2> HIDE DEF Quiet
  <2> QED
    BY <2>1, <2>2, <2>3, <2>4, <2>5, <2>6 DEF InitNext
<1> QED
  BY <1>1, InitInvariantHolds, PTL DEF InitSpec, IncompleteChangesNothing

=============================================================================
