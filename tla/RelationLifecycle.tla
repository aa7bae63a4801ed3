------------------------- MODULE RelationLifecycle -------------------------
(***************************************************************************)
(* The life of dbgraph's relations: proposals, revisions, review,          *)
(* suppression, and the reconciliation of declared foreign keys by schema  *)
(* scans.  The state is the SQLite tables that internal/platform/sqlite    *)
(* writes; every action that changes them is one write transaction, which  *)
(* the store's single writer makes atomic.  What is not atomic is a        *)
(* revision or an invalidation proposal: relations.Commands reads the      *)
(* relation outside the transaction, so such a proposal is first prepared  *)
(* and committed later, after any number of other transactions.            *)
(***************************************************************************)
EXTENDS Integers, Sequences, FiniteSets, FiniteSetsExt

CONSTANTS
    CodeRelations,     \* relations proposed by agents and editors, one per create fingerprint
    ForeignKeys,       \* relations of declared foreign keys, one per stable key
    Columns,           \* catalog nodes of kind COLUMN (of one data source)
    Contents,          \* revision contents, each the set of columns it refers to
    FirstContent,      \* the content a relation is created with
    KeySource,         \* the column that declares a foreign key
    Snapshots,         \* the sets of columns a schema scan may see
    Scopes,            \* the source scopes a schema scan may have
    AgentRequests,     \* <<actor, origin, request id>> of principals that may only propose
    ReviewerRequests,  \* ... of principals with the Reviewer role
    AdminRequests,     \* ... of principals with the Admin role
    MaxRevisions,      \* bound on the revisions of one relation
    MaxPrepared,       \* bound on the proposals prepared and not yet committed
    None               \* SQL NULL, or the absence of a row

Relations == CodeRelations \cup ForeignKeys
Requests  == AgentRequests \cup ReviewerRequests \cup AdminRequests
Revisions == 1..MaxRevisions

Kinds    == {"Content", "Tombstone", "Stale"}
Statuses == {"Pending", "Approved", "Suppressed", "Tombstoned", "Stale"}
EventTypes == {"Proposed", "Approved", "Rejected", "Superseded",
               "Tombstoned", "Suppressed", "Restored", "Stale"}

ASSUME RelationsAssumption ==
    /\ CodeRelations \cap ForeignKeys = {}
    /\ Contents \subseteq SUBSET Columns
    /\ FirstContent \in [Relations -> Contents]
    /\ KeySource \in [ForeignKeys -> Columns]
    /\ \A f \in ForeignKeys : KeySource[f] \in FirstContent[f]
    /\ Snapshots \subseteq SUBSET Columns
    /\ Scopes \subseteq SUBSET Columns

ASSUME BoundAssumption == MaxRevisions \in Nat \ {0} /\ MaxPrepared \in Nat


VARIABLES
    versions,   \* relation_versions: the row of each relation and revision number
    current,    \* relation_current: the projection a command reads and updates
    edge,       \* effective_edges: the revision published for traversal, 0 if none
    events,     \* relation_events: the append-only history of each relation
    columns,    \* the columns whose current node version is ACTIVE
    keyPresent, \* the foreign keys whose mapping has is_present = 1
    prepared    \* proposals prepared outside the write transaction, not yet committed

tables == <<versions, current, edge, events>>
vars   == <<versions, current, edge, events, columns, keyPresent, prepared>>

Row == [kind : Kinds, content : Contents]

ASSUME NoneAssumption == None \notin Row /\ None \notin Contents /\ None \notin Requests

\* Revision numbers stand for version ids; 0 is a NULL version id.
Projection ==
    [latest : 0..MaxRevisions, active : 0..MaxRevisions,
     proposed : 0..MaxRevisions, status : Statuses]

\* The request of an event, None when the schema scanner caused it.
Event ==
    [type : EventTypes, version : Revisions, request : Requests \cup {None}]

Proposal ==
    [request : Requests, relation : CodeRelations, expected : Revisions,
     kind : Kinds, content : Contents]

\* Type correctness of the tables and of the proposals in flight.
TypeOK ==
    /\ versions \in [Relations -> [Revisions -> Row \cup {None}]]
    /\ current \in [Relations -> Projection]
    /\ edge \in [Relations -> 0..MaxRevisions]
    /\ events \in [Relations -> Seq(Event)]
    /\ columns \in SUBSET Columns
    /\ keyPresent \in SUBSET ForeignKeys
    /\ prepared \in SUBSET Proposal

Init ==
    /\ versions = [r \in Relations |-> [n \in Revisions |-> None]]
    /\ current = [r \in Relations |->
                    [latest |-> 0, active |-> 0, proposed |-> 0, status |-> "Pending"]]
    /\ edge = [r \in Relations |-> 0]
    /\ events = [r \in Relations |-> <<>>]
    /\ columns = {}
    /\ keyPresent = {}
    /\ prepared = {}

-----------------------------------------------------------------------------
(* Roles, and the facts a transaction reads. *)

CanCreateOrTombstone(q) == q \in AgentRequests \cup AdminRequests
CanRevise(q) == q \in Requests
CanReview(q) == q \in ReviewerRequests \cup AdminRequests

\* A relation has a row in relations and relation_current from its first revision on.
Exists(r) == current[r].latest > 0

HasRoom(r) == current[r].latest < MaxRevisions

\* UNIQUE (actor, origin, request_id, event_type) on relation_events.
Unused(q, types) ==
    \A r \in Relations : \A i \in DOMAIN events[r] :
        ~ (events[r][i].request = q /\ events[r][i].type \in types)

\* Every column a content refers to is an ACTIVE node.
NodesActive(content) == content \subseteq columns

Entry(type, version, q) == [type |-> type, version |-> version, request |-> q]

-----------------------------------------------------------------------------
(* Proposals. *)

\* A new relation; its fingerprint must be new and its columns active.
ProposeCreate(q, r) ==
    /\ CanCreateOrTombstone(q)
    /\ ~ Exists(r)
    /\ NodesActive(FirstContent[r])
    /\ Unused(q, {"Proposed"})
    /\ versions' = [versions EXCEPT ![r] =
                      [@ EXCEPT ![1] = [kind |-> "Content", content |-> FirstContent[r]]]]
    /\ current' = [current EXCEPT ![r] =
                     [latest |-> 1, active |-> 0, proposed |-> 1, status |-> "Pending"]]
    /\ events' = [events EXCEPT ![r] = Append(@, Entry("Proposed", 1, q))]
    /\ UNCHANGED <<edge, columns, keyPresent, prepared>>

\* Commands reads the relation, checks the revision the caller saw, and builds the
\* revision.  The relation may change before the write transaction runs.
PrepareRevision(q, r, content) ==
    /\ CanRevise(q)
    /\ Exists(r)
    /\ current[r].proposed = 0
    /\ prepared' = prepared \cup
         {[request |-> q, relation |-> r, expected |-> current[r].latest,
           kind |-> "Content", content |-> content]}
    /\ UNCHANGED <<tables, columns, keyPresent>>

\* A tombstone or a stale candidate copies the content of the active revision as read.
PrepareInvalidation(q, r, kind) ==
    /\ CanCreateOrTombstone(q)
    /\ Exists(r)
    /\ current[r].proposed = 0
    /\ current[r].active # 0
    /\ current[r].status \notin {"Tombstoned", "Stale"}
    /\ prepared' = prepared \cup
         {[request |-> q, relation |-> r, expected |-> current[r].latest,
           kind |-> kind, content |-> versions[r][current[r].active].content]}
    /\ UNCHANGED <<tables, columns, keyPresent>>

\* Mutated form: the transaction trusts the revision checked before it began.
StillCurrentAsRead(p) == current[p.relation].proposed = 0

\* What the write transaction of a prepared proposal checks again.
StillCurrent(p) ==
    /\ p.expected = current[p.relation].latest
    /\ current[p.relation].proposed = 0

\* The write transaction of a prepared proposal: a new pending revision.
CommitProposal(p) ==
    LET r == p.relation
        n == p.expected + 1
    IN  /\ StillCurrent(p)
        /\ HasRoom(r)
        /\ NodesActive(p.content)
        /\ Unused(p.request, {"Proposed"})
        /\ versions' = [versions EXCEPT ![r] =
                          [@ EXCEPT ![n] = [kind |-> p.kind, content |-> p.content]]]
        /\ current' = [current EXCEPT ![r] = [@ EXCEPT !.latest = n, !.proposed = n]]
        /\ events' = [events EXCEPT ![r] = Append(@, Entry("Proposed", n, p.request))]
        /\ prepared' = prepared \ {p}
        /\ UNCHANGED <<edge, columns, keyPresent>>

\* A prepared proposal is refused by its transaction, or its caller gives up.
DropProposal(p) ==
    /\ prepared' = prepared \ {p}
    /\ UNCHANGED <<tables, columns, keyPresent>>

-----------------------------------------------------------------------------
(* Review. *)

\* The event and the status an approval of each proposal kind leads to.
DecisionEvent(kind) ==
    CASE kind = "Content"   -> "Approved"
      [] kind = "Tombstone" -> "Tombstoned"
      [] kind = "Stale"     -> "Stale"

\* Mutated form: a stale candidate, stored with the kind of a tombstone, read as one.
ApprovedStatusAsStored(kind) == IF kind = "Content" THEN "Approved" ELSE "Tombstoned"

ApprovedStatus(kind) ==
    CASE kind = "Content"   -> "Approved"
      [] kind = "Tombstone" -> "Tombstoned"
      [] kind = "Stale"     -> "Stale"

PublishedEdgeOfAnyKind(kind, n) == n  \* mutated form: a withdrawal is published too
PublishedEdgeOfFirst(kind, n) == IF kind = "Content" /\ n = 1 THEN n ELSE 0  \* mutated form
\* The revision that effective_edges holds once revision n is active.
PublishedEdge(kind, n) == IF kind = "Content" THEN n ELSE 0

\* Mutated form: the decision names the replaced revision.
ReplacementEventsOnOld(r, n, type, q) ==
    <<Entry(type, IF current[r].active = 0 THEN n ELSE current[r].active, q)>>

\* The events of replacing the active revision of r by revision n.
ReplacementEvents(r, n, type, q) ==
    <<Entry(type, n, q)>> \o
    IF current[r].active = 0
    THEN <<>>
    ELSE <<Entry("Superseded", current[r].active, q)>>

\* The revision a review command names is the pending one and the latest.
Reviewable(r, expected) ==
    /\ Exists(r)
    /\ expected = current[r].latest
    /\ current[r].proposed # 0
    /\ current[r].proposed = expected

Reject(q, r, expected) ==
    /\ CanReview(q)
    /\ Reviewable(r, expected)
    /\ Unused(q, {"Rejected"})
    /\ current' = [current EXCEPT ![r] = [@ EXCEPT !.proposed = 0]]
    /\ events' = [events EXCEPT ![r] = Append(@, Entry("Rejected", expected, q))]
    /\ UNCHANGED <<versions, edge, columns, keyPresent, prepared>>

\* The pending revision becomes the active one; the old edge is deleted and a
\* content revision publishes a new one.
Approve(q, r, expected) ==
    LET n    == current[r].proposed
        kind == versions[r][n].kind
    IN  /\ CanReview(q)
        /\ Reviewable(r, expected)
        /\ Unused(q, {DecisionEvent(kind)})
        /\ current[r].active # 0 => Unused(q, {"Superseded"})
        /\ events' = [events EXCEPT ![r] =
                        @ \o ReplacementEvents(r, n, DecisionEvent(kind), q)]
        /\ current' = [current EXCEPT ![r] =
                         [@ EXCEPT !.active = n, !.proposed = 0,
                                   !.status = ApprovedStatus(kind)]]
        /\ edge' = [edge EXCEPT ![r] = PublishedEdge(kind, n)]
        /\ UNCHANGED <<versions, columns, keyPresent, prepared>>

-----------------------------------------------------------------------------
(* Suppression, which changes the status without a new revision. *)

\* Mutated form: a pending revision does not stop a change of state.
StateChangeableWhilePending(r, expected) ==
    Exists(r) /\ expected = current[r].latest /\ current[r].active # 0

\* What changeState demands of both directions.
StateChangeable(r, expected) ==
    /\ Exists(r)
    /\ expected = current[r].latest
    /\ current[r].active # 0
    /\ current[r].status # "Tombstoned"
    /\ current[r].proposed = 0

Suppress(q, r, expected) ==
    /\ CanReview(q)
    /\ StateChangeable(r, expected)
    /\ current[r].status = "Approved"
    /\ Unused(q, {"Suppressed"})
    /\ events' = [events EXCEPT ![r] =
                    Append(@, Entry("Suppressed", current[r].active, q))]
    /\ current' = [current EXCEPT ![r] = [@ EXCEPT !.status = "Suppressed"]]
    /\ edge' = [edge EXCEPT ![r] = 0]
    /\ UNCHANGED <<versions, columns, keyPresent, prepared>>

StillDeclaredUnchecked(r) == TRUE  \* mutated form: the mapping is not read
\* A foreign key the last scan did not see is not restored.
StillDeclared(r) == r \in ForeignKeys => r \in keyPresent

Restore(q, r, expected) ==
    /\ CanReview(q)
    /\ StateChangeable(r, expected)
    /\ current[r].status = "Suppressed"
    /\ StillDeclared(r)
    /\ Unused(q, {"Restored"})
    /\ events' = [events EXCEPT ![r] =
                    Append(@, Entry("Restored", current[r].active, q))]
    /\ current' = [current EXCEPT ![r] = [@ EXCEPT !.status = "Approved"]]
    /\ edge' = [edge EXCEPT ![r] = current[r].active]
    /\ UNCHANGED <<versions, columns, keyPresent, prepared>>

-----------------------------------------------------------------------------
(* Publication of a schema snapshot: the columns seen, the foreign keys seen, *)
(* and the scope in which what was not seen is gone.                          *)

\* Snapshots name both ends of each foreign key, and only keys declared in scope.
WellFormedSnapshot(seen, keys, scope) ==
    \A f \in keys : FirstContent[f] \subseteq seen /\ KeySource[f] \in scope

\* Mappings the reconciliation inserts, finds again, or no longer finds.
NewKeys(keys)       == {f \in keys : ~ Exists(f)}
ReturnedKeys(keys)  == {f \in keys : Exists(f) /\ f \notin keyPresent}
LostKeys(keys, scope) == {f \in keyPresent \ keys : KeySource[f] \in scope}

\* A returned key is published again unless a reviewer suppressed it.
Reactivated(keys) == {f \in ReturnedKeys(keys) : current[f].status # "Suppressed"}
\* A lost key is tombstoned unless it is suppressed or tombstoned already.
Removed(keys, scope) ==
    {f \in LostKeys(keys, scope) : current[f].status \notin {"Suppressed", "Tombstoned"}}

\* reactivateDeclaredForeignKey succeeds: no ErrInvalidTransition, no unique index hit.
CanReactivate(f) ==
    /\ current[f].status = "Tombstoned"
    /\ current[f].active # 0
    /\ current[f].proposed = 0
    /\ edge[f] = 0

\* removeDeclaredForeignKey succeeds: its revision number, active + 1, is free.
CanRemove(f) ==
    /\ current[f].status = "Approved"
    /\ current[f].active # 0
    /\ current[f].proposed = 0
    /\ current[f].active < MaxRevisions => versions[f][current[f].active + 1] = None

\* The revision the reconciliation appends to f.
ScanRevision(f, keys) ==
    IF f \in NewKeys(keys) THEN 1
    ELSE IF f \in Reactivated(keys) THEN current[f].latest + 1
    ELSE current[f].active + 1

ScanKind(f, keys) ==
    IF f \in keys THEN "Content" ELSE "Tombstone"

\* Any failure of one key rolls back the whole publication.
PublishSnapshot(seen, keys, scope) ==
    LET touched  == NewKeys(keys) \cup Reactivated(keys) \cup Removed(keys, scope)
        n(f)     == ScanRevision(f, keys)
        kind(f)  == ScanKind(f, keys)
        content(f) == IF f \in keys THEN FirstContent[f]
                      ELSE versions[f][current[f].active].content
    IN  /\ WellFormedSnapshot(seen, keys, scope)
        /\ \A f \in touched : HasRoom(f)
        /\ \A f \in Reactivated(keys) : CanReactivate(f)
        /\ \A f \in Removed(keys, scope) : CanRemove(f)
        /\ versions' = [r \in Relations |->
             IF r \in touched
             THEN [versions[r] EXCEPT ![n(r)] = [kind |-> kind(r), content |-> content(r)]]
             ELSE versions[r]]
        /\ current' = [r \in Relations |->
             IF r \in touched
             THEN [latest |-> n(r), active |-> n(r), proposed |-> 0,
                   status |-> ApprovedStatus(kind(r))]
             ELSE current[r]]
        /\ edge' = [r \in Relations |->
             IF r \in touched
             THEN PublishedEdge(kind(r), n(r))
             ELSE edge[r]]
        /\ events' = [r \in Relations |->
             IF r \in touched
             THEN events[r] \o ReplacementEvents(r, n(r), DecisionEvent(kind(r)), None)
             ELSE events[r]]
        /\ columns' = (columns \ scope) \cup seen
        /\ keyPresent' = (keyPresent \ LostKeys(keys, scope)) \cup keys
        /\ UNCHANGED prepared

-----------------------------------------------------------------------------

Next ==
    \/ \E q \in Requests, r \in CodeRelations :
          \/ ProposeCreate(q, r)
          \/ /\ Cardinality(prepared) < MaxPrepared
             /\ \/ \E content \in Contents : PrepareRevision(q, r, content)
                \/ \E kind \in {"Tombstone", "Stale"} : PrepareInvalidation(q, r, kind)
    \/ \E p \in prepared : CommitProposal(p) \/ DropProposal(p)
    \/ \E q \in Requests, r \in Relations, expected \in Revisions :
          \/ Reject(q, r, expected)
          \/ Approve(q, r, expected)
          \/ Suppress(q, r, expected)
          \/ Restore(q, r, expected)
    \/ \E seen \in Snapshots, keys \in SUBSET ForeignKeys, scope \in Scopes :
          PublishSnapshot(seen, keys, scope)

Spec == Init /\ [][Next]_vars

-----------------------------------------------------------------------------
(* What the tables promise. *)

\* The triggers relation_current_pair_check_insert and _update (migrations/001_init.sql)
\* never abort a transaction: each projection the commands and the scans write has a
\* version row for every revision it names, of the kind its status calls for, and a
\* pending revision is the latest one, so that a review can still name it.
ProjectionWellFormed ==
    \A r \in Relations :
        LET c == current[r]
            KindIs(n, kind) == versions[r][n] # None /\ versions[r][n].kind = kind
        IN  Exists(r) =>
            /\ versions[r][c.latest] # None
            /\ c.status = "Pending" <=> c.active = 0
            /\ c.proposed # 0 => c.proposed = c.latest /\ c.proposed # c.active
            /\ c.status \in {"Approved", "Suppressed"} => KindIs(c.active, "Content")
            /\ c.status = "Tombstoned" => KindIs(c.active, "Tombstone")
            /\ c.status = "Stale" => KindIs(c.active, "Stale")

\* The graph that traversal reads holds exactly the active revisions of the approved
\* relations: no pending, rejected, suppressed or withdrawn revision is ever traversed,
\* and no approved one is missing, whatever mix of commands and scans ran.
EffectiveIffApproved ==
    \A r \in Relations :
        edge[r] = IF Exists(r) /\ current[r].status = "Approved"
                  THEN current[r].active ELSE 0

\* The last event of a log whose type is in types, and what a log says of the projection.
LastOf(log, types) == Max({0} \cup {i \in DOMAIN log : log[i].type \in types})

Decisions == {"Approved", "Tombstoned", "Stale"}

ReplayedActive(log) ==
    LET i == LastOf(log, Decisions) IN IF i = 0 THEN 0 ELSE log[i].version

ReplayedProposed(log) ==
    LET i == LastOf(log, Decisions \cup {"Proposed", "Rejected"})
    IN  IF i = 0 \/ log[i].type # "Proposed" THEN 0 ELSE log[i].version

ReplayedStatus(log) ==
    LET i == LastOf(log, Decisions \cup {"Suppressed", "Restored"})
    IN  IF i = 0 THEN "Pending"
        ELSE IF log[i].type = "Restored" THEN "Approved" ELSE log[i].type

VersionsOf(log, types) == {log[i].version : i \in {j \in DOMAIN log : log[j].type \in types}}

\* The append-only event log determines the mutable projection: replaying the history
\* of a relation gives the active revision, the pending revision and the status that
\* relation_current holds, and the revisions marked superseded are exactly those that
\* were in force before the active one.
HistoryDeterminesProjection ==
    \A r \in Relations :
        /\ current[r].active = ReplayedActive(events[r])
        /\ current[r].proposed = ReplayedProposed(events[r])
        /\ current[r].status = ReplayedStatus(events[r])
        /\ VersionsOf(events[r], {"Superseded"}) =
               VersionsOf(events[r], Decisions) \ {current[r].active}

\* Revisions and events are append-only, as the triggers relation_versions_no_update and
\* relation_events_no_update demand of migrations/001_init.sql: whatever is prepared from
\* old reads, and however a scan numbers its revisions, none takes the place of a row
\* that a review decided on or a traversal has returned.
HistoryKept ==
    \A r \in Relations :
        /\ \A n \in Revisions : versions[r][n] # None => versions'[r][n] = versions[r][n]
        /\ Len(events[r]) <= Len(events'[r])
        /\ SubSeq(events'[r], 1, Len(events[r])) = events[r]

HistoryNeverRewritten == [][HistoryKept]_tables

\* A pending tombstone or stale candidate was built from a read that may be old when it
\* commits; still it always repeats the content of the revision that is active while it
\* waits for review, and there is something in force to withdraw.
InvalidationDescribesActive ==
    \A r \in Relations :
        LET c == current[r]
        IN  c.proposed # 0 /\ versions[r][c.proposed].kind # "Content" =>
            /\ c.active # 0
            /\ c.status \in {"Approved", "Suppressed"}
            /\ versions[r][c.proposed].content = versions[r][c.active].content

\* Whatever reviewers did to the relation of a foreign key, the next scan can reconcile
\* it: reactivateDeclaredForeignKey and removeDeclaredForeignKey never return
\* ErrInvalidTransition, which would fail this and every later scan of the source.
ScanNeverRejected ==
    \A f \in ForeignKeys :
        /\ f \in Reactivated({f}) => CanReactivate(f)
        /\ f \in keyPresent /\ current[f].status \notin {"Suppressed", "Tombstoned"}
             => CanRemove(f)
-----------------------------------------------------------------------------
(* Why these promises hold: the inductive invariant. *)

\* Revision numbers are handed out without gaps and never reused.
RowsUpToLatest ==
    \A r \in Relations : \A n \in Revisions :
        versions[r][n] # None <=> n <= current[r].latest

\* A relation without rows has the projection it started with.
AbsentIsEmpty ==
    \A r \in Relations : ~ Exists(r) =>
        current[r].active = 0 /\ current[r].proposed = 0 /\ current[r].status = "Pending"

\* Nobody proposes foreign keys; their status follows the mapping unless suppressed.
KeysFollowMapping ==
    \A f \in ForeignKeys :
        IF Exists(f)
        THEN /\ current[f].proposed = 0
             /\ current[f].active = current[f].latest
             /\ current[f].status \in {"Approved", "Suppressed", "Tombstoned"}
             /\ current[f].status = "Approved" => f \in keyPresent
             /\ current[f].status = "Tombstoned" => f \notin keyPresent
        ELSE f \notin keyPresent

\* A prepared invalidation whose revision check will succeed copied what is still active.
PreparedStillDescribesActive ==
    \A p \in prepared :
        LET c == current[p.relation]
        IN  /\ p.expected <= c.latest
            /\ c.proposed # 0 => p.expected < c.latest
            /\ p.kind # "Content" /\ StillCurrent(p) =>
                 /\ c.active # 0
                 /\ c.status \in {"Approved", "Suppressed"}
                 /\ p.content = versions[p.relation][c.active].content

\* The inductive invariant of the proofs: what the tables promise, strengthened by the
\* gapless revision numbers, the bond between a foreign key and its mapping, and what
\* the optimistic revision check guarantees about a proposal still in flight.
IInv ==
    /\ TypeOK
    /\ EffectiveIffApproved
    /\ ProjectionWellFormed
    /\ RowsUpToLatest
    /\ AbsentIsEmpty
    /\ KeysFollowMapping
    /\ InvalidationDescribesActive
    /\ PreparedStillDescribesActive

=============================================================================
