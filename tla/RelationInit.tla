---------------------------- MODULE RelationInit ----------------------------
(***************************************************************************)
(* Agent-driven relation initialization (internal/reconcile), composed     *)
(* with the relation lifecycle it writes to.  An agent opens a session,    *)
(* submits batches that may be repeated after a lost answer, and completes *)
(* the session.  A batch is one write transaction.  A completion is not:   *)
(* Service.Complete counts batches, lists the relations the session did    *)
(* not see and prepares a stale candidate for each, every one a read of    *)
(* its own, before the transaction that checks again and proposes them.    *)
(***************************************************************************)
EXTENDS RelationLifecycleRefinement

CONSTANTS
    Sessions,        \* ids of initialization sessions
    Repositories,    \* code repositories that are registered
    Targets,         \* what a session may be begun for, see Target
    InitRequests,    \* <<actor, origin, request id>> of the commands of initializers
    Initializer,     \* the actor and origin of each such request
    Keys,            \* idempotency keys of batches
    Findings,        \* fingerprints of unresolved findings
    Payloads,        \* the payloads a batch may carry, see Payload
    MaximumBatchItems,            \* maximumBatchItems
    MaximumCompletionCandidates,  \* candidates one completion may propose
    MaxBatches,      \* bound on the batches of a session
    MaxCompletions   \* bound on the completions under way

Target == [repository : Repositories, mode : {"Full", "Incremental"},
           scope : SUBSET CodeRelations]

\* The proposals of a batch, each standing for its fingerprint, and its findings.
Payload == [items : UNION {[1..n -> CodeRelations] : n \in 0..MaximumBatchItems},
            findings : SUBSET Findings]

ASSUME InitAssumption ==
    /\ Targets \subseteq Target
    /\ Payloads \subseteq Payload
    /\ \A p \in Payloads : p.items # <<>> \/ p.findings # {}
    /\ InitRequests \X (1..MaximumBatchItems) \subseteq AgentRequests \cup AdminRequests
    /\ MaximumBatchItems \in Nat
    /\ MaximumCompletionCandidates \in Nat
    /\ MaximumCompletionCandidates <= MaximumBatchItems
    /\ MaxBatches \in Nat
    /\ MaxCompletions \in Nat

ASSUME InitNoneAssumption ==
    /\ None \notin Repositories
    /\ None \notin [request : InitRequests, target : Target, status : {"Open", "Completed"}]

VARIABLES
    session,      \* relation_init_sessions: [request, target, status], or None
    batches,      \* relation_init_batches, in the order of batch_no
    seen,         \* relation_init_seen_relations
    deferred,     \* relation_init_reproposal_candidates
    origins,      \* relation_origins: the repository a relation was first seen in
    unresolved,   \* unresolved_findings: the open ones of each repository
    told,         \* the batches whose callers were told that they are accepted
    completions,  \* completions between their first read and their transaction
    invalidated   \* the relations a session's completion proposed as stale

initVars == <<session, batches, seen, deferred, origins, unresolved, told,
              completions, invalidated>>
allVars  == <<vars, initVars>>

Batch == [key : Keys, no : 1..MaxBatches, payload : Payloads]

InitInit ==
    /\ Init
    /\ session = [s \in Sessions |-> None]
    /\ batches = [s \in Sessions |-> <<>>]
    /\ seen = [s \in Sessions |-> {}]
    /\ deferred = [s \in Sessions |-> {}]
    /\ origins = [r \in CodeRelations |-> None]
    /\ unresolved = [p \in Repositories |-> {}]
    /\ told = {}
    /\ completions = {}
    /\ invalidated = [s \in Sessions |-> {}]

-----------------------------------------------------------------------------
(* Sessions and batches. *)

IsOpen(s) == session[s] # None /\ session[s].status = "Open"

SameInitializer(s, q) == Initializer[q] = Initializer[session[s].request]

SessionOf(q) == {s \in Sessions : session[s] # None /\ session[s].request = q}

\* A repeated request finds its session, or conflicts with it; it begins no other.
Begin(s, q, target) ==
    /\ session[s] = None
    /\ SessionOf(q) = {}
    /\ session' = [session EXCEPT ![s] =
                     [request |-> q, target |-> target, status |-> "Open"]]
    /\ UNCHANGED <<vars, batches, seen, deferred, origins, unresolved, told,
                   completions, invalidated>>

\* The service reads the session before the transaction, which checks it again; it is
\* open at both times, since a completed session stays completed.
MaySubmit(s, q) == IsOpen(s) /\ SameInitializer(s, q)

\* The batch of this session that a key belongs to.
BatchesOf(s, key) == {i \in DOMAIN batches[s] : batches[s][i].key = key}

SameDigestByKey(b, stored) == TRUE  \* mutated form: the key alone identifies the batch
\* The digest covers the batch number, the proposals and the findings.
SameDigest(b, stored) == b.no = stored.no /\ b.payload = stored.payload

Tell(s, b) == told' = told \cup {[session |-> s, batch |-> b]}

\* A batch whose key is known is answered with the stored result; nothing is written.
RepeatBatch(s, q, b) ==
    /\ MaySubmit(s, q)
    /\ \E i \in BatchesOf(s, b.key) : SameDigest(b, batches[s][i])
    /\ Tell(s, b)
    /\ UNCHANGED <<vars, session, batches, seen, deferred, origins, unresolved,
                   completions, invalidated>>

Items(b) == {b.payload.items[i] : i \in DOMAIN b.payload.items}

\* The request id of the first item that proposes r: "<request id>:<index>".
ItemRequest(q, b, r) ==
    <<q, Min({i \in DOMAIN b.payload.items : b.payload.items[i] = r})>>

\* PrepareReproposal: a relation that was withdrawn, or whose creation was rejected.
Reproposable(r) ==
    LET c == current[r]
    IN  /\ Exists(r)
        /\ c.proposed = 0
        /\ \/ c.status = "Tombstoned" /\ c.active # 0 /\ versions[r][c.active].kind = "Tombstone"
           \/ c.status = "Stale" /\ c.active # 0 /\ versions[r][c.active].kind = "Stale"
           \/ c.status = "Pending" /\ c.active = 0

\* Mutated form: a relation whose creation was rejected is created again at once.
CreatedByAgain(b) ==
    {r \in Items(b) : current[r].active = 0 /\ current[r].proposed = 0}

CreatedBy(b) == {r \in Items(b) : ~ Exists(r)}

\* One candidate of a session for a relation, the first.
DeferredBy(s, b) ==
    {r \in Items(b) : Reproposable(r) /\ \A p \in deferred[s] : p.relation # r}

Reproposal(q, b, r) ==
    [request |-> ItemRequest(q, b, r), relation |-> r, expected |-> current[r].latest,
     kind |-> "Content", content |-> FirstContent[r]]

\* Batch numbers have no gaps: MAX(batch_no) + 1 comes next.
InSequence(s, b) == b.no = Len(batches[s]) + 1

MarkSeen(s, b) == seen' = [seen EXCEPT ![s] = @ \cup Items(b)]

\* A finding is known by its repository and fingerprint; one that is open is not repeated.
OpenFindings(repository, b) ==
    unresolved' = [unresolved EXCEPT ![repository] = @ \cup b.payload.findings]

\* One transaction: unknown fingerprints become relations, withdrawn ones are kept for
\* the completion, and everything proposed is marked as seen.
SubmitBatch(s, q, b) ==
    LET created == CreatedBy(b)
    IN  /\ MaySubmit(s, q)
        /\ BatchesOf(s, b.key) = {}
        /\ InSequence(s, b)
        /\ \A r \in created : /\ NodesActive(FirstContent[r])
                              /\ Unused(ItemRequest(q, b, r), {"Proposed"})
        /\ versions' = [r \in Relations |->
             IF r \in created
             THEN [versions[r] EXCEPT ![1] = [kind |-> "Content", content |-> FirstContent[r]]]
             ELSE versions[r]]
        /\ current' = [r \in Relations |->
             IF r \in created
             THEN [latest |-> 1, active |-> 0, proposed |-> 1, status |-> "Pending"]
             ELSE current[r]]
        /\ events' = [r \in Relations |->
             IF r \in created
             THEN Append(events[r], Entry("Proposed", 1, ItemRequest(q, b, r)))
             ELSE events[r]]
        /\ batches' = [batches EXCEPT ![s] = Append(@, b)]
        /\ deferred' = [deferred EXCEPT ![s] =
                          @ \cup {Reproposal(q, b, r) : r \in DeferredBy(s, b)}]
        /\ MarkSeen(s, b)
        /\ origins' = [r \in CodeRelations |->
             IF r \in Items(b) /\ origins[r] = None
             THEN session[s].target.repository ELSE origins[r]]
        /\ OpenFindings(session[s].target.repository, b)
        /\ Tell(s, b)
        /\ UNCHANGED <<edge, columns, keyPresent, prepared, session, completions, invalidated>>

-----------------------------------------------------------------------------
(* Completion. *)

\* COUNT(*) and MAX(batch_no) are both the number the agent expects.
VerifyBatchCount(s, n) ==
    /\ Len(batches[s]) = n
    /\ Max({0} \cup {batches[s][i].no : i \in DOMAIN batches[s]}) = n

\* Mutated form: the omitted relations are held against the whole limit.
WithinBudgetEach(deferredCount, omittedCount) ==
    /\ deferredCount <= MaximumCompletionCandidates
    /\ omittedCount <= MaximumCompletionCandidates

WithinBudget(deferredCount, omittedCount) ==
    deferredCount + omittedCount <= MaximumCompletionCandidates

\* CheckCompletion: the session is open and has the batches the agent counts on.
StartCompletion(s, q, n) ==
    LET count == Cardinality(deferred[s])
    IN  /\ IsOpen(s)
        /\ SameInitializer(s, q)
        /\ VerifyBatchCount(s, n)
        /\ WithinBudget(count, 0)
        /\ completions' = completions \cup
             {[session |-> s, request |-> q, expected |-> n,
               budget |-> MaximumCompletionCandidates - count,
               phase |-> "Checked", todo |-> {}, candidates |-> {}]}
        /\ UNCHANGED <<vars, session, batches, seen, deferred, origins, unresolved,
                       told, invalidated>>

InScopeIgnored(s, r) == TRUE  \* mutated form: every session treated as FULL
InScope(s, r) ==
    session[s].target.mode = "Incremental" => r \in session[s].target.scope

\* What is in force, came from this repository and was not seen by this session.
Omitted(s) ==
    {r \in CodeRelations :
        /\ origins[r] = session[s].target.repository
        /\ current[r].active # 0
        /\ current[r].proposed = 0
        /\ current[r].status \in {"Approved", "Suppressed"}
        /\ r \notin seen[s]
        /\ InScope(s, r)}

ListOmitted(c) ==
    /\ c.phase = "Checked"
    /\ WithinBudget(MaximumCompletionCandidates - c.budget, Cardinality(Omitted(c.session)))
    /\ completions' = (completions \ {c}) \cup
         {[c EXCEPT !.phase = "Listed", !.todo = Omitted(c.session)]}
    /\ UNCHANGED <<vars, session, batches, seen, deferred, origins, unresolved,
                   told, invalidated>>

\* The relation is read again and its active revision copied, as for a tombstone.
PrepareStale(c, r) ==
    /\ c.phase = "Listed"
    /\ r \in c.todo
    /\ current[r].proposed = 0
    /\ current[r].active # 0
    /\ current[r].status \notin {"Tombstoned", "Stale"}
    /\ completions' = (completions \ {c}) \cup
         {[c EXCEPT !.todo = @ \ {r},
                    !.candidates = @ \cup
            {[request |-> <<c.request, Cardinality(@) + 1>>, relation |-> r,
              expected |-> current[r].latest, kind |-> "Stale",
              content |-> versions[r][current[r].active].content]}]}
    /\ UNCHANGED <<vars, session, batches, seen, deferred, origins, unresolved,
                   told, invalidated>>

\* What the transaction of a completion checks again.
StillCompletable(c) ==
    /\ IsOpen(c.session)
    /\ VerifyBatchCount(c.session, c.expected)
    /\ WithinBudget(Cardinality(deferred[c.session]), Cardinality(c.candidates))

\* Mutated form: a candidate whose relation moved on is left out.
CandidatesNotMoved(c) ==
    {p \in deferred[c.session] \cup c.candidates : StillCurrent(p)}

\* What a completion proposes: the reproposals kept by the batches and the stale ones.
Candidates(c) == deferred[c.session] \cup c.candidates

\* insertRevisionProposal accepts each candidate, after the ones before it.
Insertable(ps) ==
    /\ \A p \in ps : /\ StillCurrent(p)
                     /\ HasRoom(p.relation)
                     /\ NodesActive(p.content)
                     /\ Unused(p.request, {"Proposed"})
    /\ \A p1, p2 \in ps :
          p1 # p2 => p1.relation # p2.relation /\ p1.request # p2.request

\* One refused candidate rolls the completion back and leaves the session open.
Complete(c) ==
    LET s     == c.session
        ps    == Candidates(c)
        Of(r) == CHOOSE p \in ps : p.relation = r
        touched == {p.relation : p \in ps}
    IN  /\ c.phase = "Listed"
        /\ c.todo = {}
        /\ StillCompletable(c)
        /\ Insertable(ps)
        /\ versions' = [r \in Relations |->
             IF r \in touched
             THEN [versions[r] EXCEPT ![Of(r).expected + 1] =
                     [kind |-> Of(r).kind, content |-> Of(r).content]]
             ELSE versions[r]]
        /\ current' = [r \in Relations |->
             IF r \in touched
             THEN [current[r] EXCEPT !.latest = Of(r).expected + 1,
                                     !.proposed = Of(r).expected + 1]
             ELSE current[r]]
        /\ events' = [r \in Relations |->
             IF r \in touched
             THEN Append(events[r], Entry("Proposed", Of(r).expected + 1, Of(r).request))
             ELSE events[r]]
        /\ session' = [session EXCEPT ![s] = [@ EXCEPT !.status = "Completed"]]
        /\ invalidated' = [invalidated EXCEPT ![s] = {p.relation : p \in c.candidates}]
        /\ completions' = completions \ {c}
        /\ UNCHANGED <<edge, columns, keyPresent, prepared, batches, seen, deferred,
                       origins, unresolved, told>>

\* The completion is refused at one of its checks, or its caller is gone.
AbandonCompletion(c) ==
    /\ completions' = completions \ {c}
    /\ UNCHANGED <<vars, session, batches, seen, deferred, origins, unresolved,
                   told, invalidated>>

-----------------------------------------------------------------------------

InitNext ==
    \/ Next /\ UNCHANGED initVars
    \/ \E s \in Sessions, q \in InitRequests :
          \/ \E target \in Targets : Begin(s, q, target)
          \/ \E b \in Batch : SubmitBatch(s, q, b) \/ RepeatBatch(s, q, b)
          \/ /\ Cardinality(completions) < MaxCompletions
             /\ \E n \in 1..MaxBatches : StartCompletion(s, q, n)
    \/ \E c \in completions :
          \/ ListOmitted(c)
          \/ \E r \in c.todo : PrepareStale(c, r)
          \/ Complete(c)
          \/ AbandonCompletion(c)

InitSpec == InitInit /\ [][InitNext]_allVars

-----------------------------------------------------------------------------
(* What initialization promises. *)

\* An agent that was told a batch is accepted can rely on it, also when it repeated the
\* batch after a lost answer: each relation of it exists, is seen by the session and has
\* an origin, and each finding of it is open.
AcceptedIsRecorded ==
    \A t \in told :
        /\ \A r \in Items(t.batch) :
              Exists(r) /\ r \in seen[t.session] /\ origins[r] # None
        /\ t.batch.payload.findings \subseteq
              unresolved[session[t.session].target.repository]

\* A completion proposes to withdraw only what its session left out: never a relation of
\* an accepted batch, even one accepted after the omitted relations were listed, nor one
\* of another repository or outside the scope of an incremental session.
OnlyOmittedInvalidated ==
    \A s \in Sessions : \A r \in invalidated[s] :
        /\ r \notin seen[s]
        /\ \A t \in told : t.session = s => r \notin Items(t.batch)
        /\ origins[r] = session[s].target.repository
        /\ session[s].target.mode = "Incremental" => r \in session[s].target.scope

\* A completed session kept what its batches answered REPROPOSED: each candidate it
\* deferred was proposed, as the revision after the one the batch saw.  One candidate
\* that no longer fits keeps the whole session open.
ReproposalsKept ==
    \A s \in Sessions : session[s] # None /\ session[s].status = "Completed" =>
        \A p \in deferred[s] : \E i \in DOMAIN events[p.relation] :
            events[p.relation][i] = Entry("Proposed", p.expected + 1, p.request)

\* No completion proposes more candidates than MaximumCompletionCandidates, counting the
\* reproposals together with the omitted relations.
CompletionBounded ==
    \A s \in Sessions : invalidated[s] # {} =>
        Cardinality(deferred[s]) + Cardinality(invalidated[s]) <= MaximumCompletionCandidates

\* IDEA.md: "An incomplete session creates no invalidation candidates and changes no
\* existing relation": a relation that exists changes only in the step that completes a
\* session, or in a step of the lifecycle that concerns no session.
IncompleteChangesNothing ==
    [][initVars' # initVars /\ (\A s \in Sessions : IsOpen(s) => IsOpen(s)') =>
         \A r \in Relations : Exists(r) =>
             current'[r] = current[r] /\ versions'[r] = versions[r]]_allVars

=============================================================================
