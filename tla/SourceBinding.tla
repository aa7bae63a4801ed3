--------------------------- MODULE SourceBinding ---------------------------
(***************************************************************************)
(* Workspace source bindings (internal/sourcebinding), composed with the   *)
(* registry of data sources they refer to.  An agent resolves the remotes  *)
(* of its workspace to a registered repository and the data sources bound  *)
(* to it; an administrator replaces a binding by naming the revision it    *)
(* read.  Resolution is three queries, a replacement one transaction.      *)
(* Repositories registered before the tables existed get their identities  *)
(* in batches when the store opens, which may be cut off at any time.      *)
(***************************************************************************)
EXTENDS Catalog, FiniteSetsExt

CONSTANTS
    Repositories,     \* ids of code repositories
    Remotes,          \* canonical Git remotes
    RemoteOf,         \* the canonical remote of each repository, or None
    Legacy,           \* repositories registered before identities were kept
    BatchSize,        \* repositoryIdentityBackfillBatchSize
    Contexts,         \* development, production, ...
    Agents,           \* callers with a resolution under way
    Requests,         \* <<actor, origin, request id>> of replacements
    MaxSent,          \* bound on the replacements sent
    MaxCrashes        \* bound on the times the store is closed or killed

ASSUME BindingAssumption ==
    /\ Repositories \subseteq Nat \ {0}
    /\ RemoteOf \in [Repositories -> Remotes \cup {None}]
    /\ None \notin Remotes
    /\ Legacy \subseteq Repositories /\ IsFiniteSet(Legacy)
    /\ BatchSize \in Nat \ {0}

VARIABLES
    repositories,  \* repositories
    identities,    \* repository_identities: <<repository, remote>>
    backfill,      \* repository_identity_backfill_state: [last, complete]
    open,          \* the store has opened
    crashes,       \* how often it closed
    revisions,     \* source_binding_revisions with their members, by revision_no
    resolving,     \* resolutions under way, and what they ended with
    sent,          \* replacements sent, which may arrive late, often or never
    answers        \* what the senders of replacements were told

identityVars == <<repositories, identities, backfill, open, crashes>>
bindingVars  == <<identityVars, revisions, resolving, sent, answers>>

\* ReplaceBindingSet.  What its sender had read is kept for the properties.
Command == [repository : Repositories, context : Contexts, sources : SUBSET Sources,
            expected : Nat, basis : SUBSET Sources, request : Requests]

BindingInit ==
    /\ Init
    /\ repositories = Legacy
    /\ identities = {}
    /\ backfill = [last |-> 0, complete |-> FALSE]
    /\ open = FALSE
    /\ crashes = 0
    /\ revisions = [b \in Repositories \X Contexts |-> <<>>]
    /\ resolving = [g \in Agents |-> None]
    /\ sent = {}
    /\ answers = {}

-----------------------------------------------------------------------------
(* Repository identities.                                                  *)

\* insertRepositoryIdentity: a remote that has no canonical form has none.
IdentitiesOf(R) == {<<r, RemoteOf[r]>> : r \in {q \in R : RemoteOf[q] # None}}

\* The next repositories in the order of their ids.
Candidates == {r \in repositories : /\ r > backfill.last
                                    /\ Cardinality({q \in repositories :
                                          backfill.last < q /\ q < r}) < BatchSize}

\* mutated form: a full batch may be the last one.
CompleteAfterFull(batch) == Cardinality(batch) <= BatchSize
CompleteAfter(batch) == Cardinality(batch) < BatchSize

BackfillBatch ==
    /\ ~ open /\ ~ backfill.complete
    /\ identities' = identities \cup IdentitiesOf(Candidates)
    /\ backfill' = [last |-> IF Candidates = {} THEN backfill.last ELSE Max(Candidates),
                    complete |-> CompleteAfter(Candidates)]
    /\ UNCHANGED <<repositories, open, crashes, revisions, resolving, sent, answers, catalogVars>>

OpenStore ==
    /\ ~ open /\ backfill.complete
    /\ open' = TRUE
    /\ UNCHANGED <<repositories, identities, backfill, crashes>>
    /\ UNCHANGED <<revisions, resolving, sent, answers, catalogVars>>

\* The process ends; what it was computing for its callers is lost.
CloseStore ==
    /\ open
    /\ crashes < MaxCrashes
    /\ open' = FALSE
    /\ crashes' = crashes + 1
    /\ resolving' = [g \in Agents |-> None]
    /\ ProcessEnds
    /\ UNCHANGED <<repositories, identities, backfill, revisions, sent, answers>>

\* mutated form: the identity is left to the backfill.
NewIdentitiesLater(r) == identities
NewIdentities(r) == identities \cup IdentitiesOf({r})

CreateCodeRepository(r) ==
    /\ open
    /\ r \notin repositories
    /\ repositories' = repositories \cup {r}
    /\ identities' = NewIdentities(r)
    /\ UNCHANGED <<backfill, open, crashes, revisions, resolving, sent, answers, catalogVars>>

-----------------------------------------------------------------------------
(* ResolveWorkspace.                                                       *)

FoundBy(remotes) == {r \in repositories : \E m \in remotes : <<r, m>> \in identities}

\* None or several repositories, or no context, end the resolution here with
\* REPOSITORY_NOT_FOUND, AMBIGUOUS_REPOSITORY or CONTEXT_REQUIRED.
FindRepository(g, remotes, context) ==
    /\ open
    /\ resolving[g] = None
    /\ Cardinality(FoundBy(remotes)) = 1
    /\ \E r \in FoundBy(remotes) :
          resolving' = [resolving EXCEPT ![g] =
              [phase |-> "Found", repository |-> r, context |-> context]]
    /\ UNCHANGED <<identityVars, revisions, sent, answers, catalogVars>>

\* The first query of readCurrentBinding.  Without a revision the workspace is
\* UNBOUND, and a replacement of it expects revision 0.
ReadCurrent(g) ==
    LET w  == resolving[g]
        no == Len(revisions[<<w.repository, w.context>>])
    IN /\ open
       /\ w # None
       /\ w.phase = "Found"
       /\ resolving' = [resolving EXCEPT ![g] =
             IF no = 0
               THEN [phase |-> "Done", repository |-> w.repository, context |-> w.context,
                     no |-> 0, sources |-> {}]
               ELSE [phase |-> "Current", repository |-> w.repository, context |-> w.context,
                     no |-> no]]
       /\ UNCHANGED <<identityVars, revisions, sent, answers, catalogVars>>

Members(w) == revisions[<<w.repository, w.context>>][w.no].sources

\* The second query reads the members of the revision the first one found.
ReadMembers(g) ==
    LET w == resolving[g]
    IN /\ open
       /\ w # None
       /\ w.phase = "Current"
       /\ resolving' = [resolving EXCEPT ![g] =
             [phase |-> "Done", repository |-> w.repository, context |-> w.context,
              no |-> w.no, sources |-> Members(w)]]
       /\ UNCHANGED <<identityVars, revisions, sent, answers, catalogVars>>

\* The agent is done with what it resolved.
Forget(g) ==
    /\ resolving[g] # None
    /\ resolving[g].phase = "Done"
    /\ resolving' = [resolving EXCEPT ![g] = None]
    /\ UNCHANGED <<identityVars, revisions, sent, answers, catalogVars>>

-----------------------------------------------------------------------------
(* ReplaceBindingSet.                                                      *)

\* An administrator sends a replacement of what it resolved, under a request
\* id that may have been used before.
SendReplacement(g, sources, q) ==
    LET w == resolving[g]
    IN /\ w # None
       /\ w.phase = "Done"
       /\ Cardinality(sent) < MaxSent
       /\ sent' = sent \cup {[repository |-> w.repository, context |-> w.context,
                              sources |-> sources, expected |-> w.no,
                              basis |-> w.sources, request |-> q]}
       /\ UNCHANGED <<identityVars, revisions, resolving, answers, catalogVars>>

Binding(c) == <<c.repository, c.context>>

\* The revisions that a request has written, as <<binding, revision_no>>.
WrittenBy(q) ==
    UNION {{<<b, i>> : i \in {j \in DOMAIN revisions[b] : revisions[b][j].request = q}} :
              b \in Repositories \X Contexts}

\* mutated form: a repeated request is told apart by what it replaces only.
SameRequestByRevision(c, b, i) == b = Binding(c) /\ i = c.expected + 1
SameRequest(c, b, i) ==
    /\ b = Binding(c)
    /\ i = c.expected + 1
    /\ revisions[b][i].sources = c.sources

\* A request that has been carried out is answered again ...
RepeatReplacement(c) ==
    /\ open
    /\ \E w \in WrittenBy(c.request) :
          /\ SameRequest(c, w[1], w[2])
          /\ answers' = answers \cup {[command |-> c, no |-> w[2]]}
    /\ UNCHANGED <<identityVars, revisions, resolving, sent, catalogVars>>

\* ensureBindingSet: the repository's remote is known as its own and no other's.
KnownAs(c) ==
    LET remote == RemoteOf[c.repository]
    IN {r \in Repositories : <<r, remote>> \in identities \cup {<<c.repository, remote>>}}
           = {c.repository}

\* mutated form: the revision that is replaced is not compared.
StillExpectedAny(c) == TRUE
StillExpected(c) == Len(revisions[Binding(c)]) = c.expected

\* mutated form: the data sources were looked up before the transaction.
SourcesExistOnce(c) == c.sources \subseteq Registered \cup deleted
SourcesExist(c) == c.sources \subseteq Registered

\* ... and a new one adds a revision.
ReplaceBinding(c) ==
    /\ open
    /\ c.repository \in repositories
    /\ RemoteOf[c.repository] # None
    /\ WrittenBy(c.request) = {}
    /\ KnownAs(c)
    /\ StillExpected(c)
    /\ SourcesExist(c)
    /\ identities' = identities \cup IdentitiesOf({c.repository})
    /\ revisions' = [revisions EXCEPT ![Binding(c)] =
          Append(@, [sources |-> c.sources, request |-> c.request, basis |-> c.basis])]
    /\ referenced' = referenced \cup c.sources
    /\ answers' = answers \cup
          {[command |-> c, no |-> Len(revisions[Binding(c)]) + 1]}
    /\ UNCHANGED <<repositories, backfill, open, crashes, resolving, sent>>
    /\ UNCHANGED <<registryVars, scanVars, nodeVars, design>>

BindingStep ==
    \/ BackfillBatch \/ OpenStore \/ CloseStore
    \/ \E r \in Repositories : CreateCodeRepository(r)
    \/ \E g \in Agents :
          \/ \E remotes \in SUBSET Remotes \ {{}}, context \in Contexts :
                FindRepository(g, remotes, context)
          \/ ReadCurrent(g) \/ ReadMembers(g) \/ Forget(g)
          \/ \E sources \in SUBSET Sources, q \in Requests : SendReplacement(g, sources, q)
    \/ \E c \in sent : RepeatReplacement(c) \/ ReplaceBinding(c)

BindingNext == BindingStep \/ (open /\ Next /\ UNCHANGED bindingVars)

BindingSpec == BindingInit /\ [][BindingNext]_<<bindingVars, catalogVars>>

-----------------------------------------------------------------------------
(* Properties.                                                             *)

\* No replacement undoes another without its author having seen it: the author
\* of every revision had resolved exactly the data sources of the one before,
\* although resolution and replacement are separate calls and each may be late.
NoLostUpdate ==
    \A b \in Repositories \X Contexts : \A i \in DOMAIN revisions[b] :
        revisions[b][i].basis = IF i = 1 THEN {} ELSE revisions[b][i - 1].sources

\* A request acts at most once however often it is sent, and whoever is told a
\* revision is told the one that holds what its command asked for.
RequestActsOnce ==
    /\ \A q \in Requests : Cardinality(WrittenBy(q)) <= 1
    /\ \A a \in answers :
          LET b == Binding(a.command)
          IN /\ a.no \in DOMAIN revisions[b]
             /\ revisions[b][a.no].sources = a.command.sources
             /\ revisions[b][a.no].request = a.command.request

\* Once the store is open, every registered repository is found by its remote,
\* the ones registered before the tables existed too: a workspace that two of
\* them claim is never taken for that of one.
OpenFindsAll ==
    open => \A r \in repositories : RemoteOf[r] # None => r \in FoundBy({RemoteOf[r]})

\* A step that binds a repository leaves its remote unclaimed by any other.
BoundWhenUnambiguous ==
    [][\A b \in Repositories \X Contexts :
          revisions'[b] # revisions[b] =>
              \A r \in repositories \ {b[1]} : RemoteOf[r] # RemoteOf[b[1]]]_<<bindingVars, catalogVars>>
=============================================================================
