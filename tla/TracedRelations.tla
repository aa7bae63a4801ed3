-------------------------- MODULE TracedRelations --------------------------
(***************************************************************************)
(* Traces over the relation store: GraphTrace composed with the            *)
(* transactions of RelationLifecycle, which write the effective edges that *)
(* a trace reads.  A transaction that commits between two queries of a     *)
(* trace changes the graph under it; what the trace may and must list is   *)
(* then a matter of the history of the relations, and is stated in it.     *)
(***************************************************************************)
EXTENDS RelationLifecycle, GraphTrace

CONSTANTS
    Number,  \* the id of each relation
    Endpoints     \* the endpoints of each content: <<source, target>>

\* The row of effective_edges for revision n of relation r with that content.
EdgeAt(r, n, content) ==
    [relation |-> Number[r], version |-> <<n, content>>,
     source |-> Endpoints[content][1], target |-> Endpoints[content][2]]

ASSUME TracedAssumption ==
    /\ Number \in [Relations -> Nat]
    /\ \A r, s \in Relations : Number[r] = Number[s] => r = s
    /\ Nodes = Columns
    /\ Endpoints \in [Contents -> Nodes \X Nodes]
    /\ \A c \in Contents : {Endpoints[c][1], Endpoints[c][2]} \subseteq c
    /\ Edges = {EdgeAt(r, n, c) : r \in Relations, n \in Revisions, c \in Contents}
    /\ Declared = {Number[f] : f \in ForeignKeys}
    /\ Graphs = {{}}

VARIABLE
    moments  \* how long the logs were when the trace began, at its recursive
             \* query, and at the last transaction while it was under way

tracedVars == <<vars, traceVars, moments>>

LogLengths == [r \in Relations |-> Len(events[r])]

TracedInit ==
    /\ Init
    /\ TraceInit
    /\ moments = [from |-> LogLengths, query |-> LogLengths, to |-> LogLengths]

-----------------------------------------------------------------------------
(* Transactions.                                                           *)

\* The edges of the revisions N of r.
EdgesOf(r, N) == {EdgeAt(r, n, versions[r][n].content) : n \in N}

\* mutated form: the row of the revision before is not deleted.
PublishedEdgesKept == UNION {EdgesOf(r, 1..edge[r]) : r \in Relations}
\* The rows of effective_edges.
PublishedEdges == UNION {EdgesOf(r, {edge[r]} \ {0}) : r \in Relations}

\* A transaction, and the edges it leaves to the trace.
Transact ==
    /\ Next
    /\ \/ PublishedEdges' = effective /\ UNCHANGED traceVars
       \/ PublishedEdges' # effective /\ ChangeTo(PublishedEdges')
    /\ moments' = IF UnderWay THEN [moments EXCEPT !.to = LogLengths'] ELSE moments

-----------------------------------------------------------------------------
(* The trace reads effective_edges and writes nothing.                     *)

BeginTrace(r) ==
    /\ Trace(r)
    /\ moments' = [from |-> LogLengths, query |-> LogLengths, to |-> LogLengths]
    /\ UNCHANGED vars

QueryEdges ==
    /\ LoadRecursiveEdges
    /\ moments' = [moments EXCEPT !.query = LogLengths]
    /\ UNCHANGED vars

SearchOn ==
    /\ \/ LoadEdges \/ LoadNothing \/ NextLevel
       \/ \E pe \in pending : ExpandEdge(pe[1], pe[2])
       \/ WalkEnds
       \/ \E row \in walk : WalkRow(row)
    /\ UNCHANGED <<vars, moments>>

TracedNext ==
    \/ Transact
    \/ \E r \in TraceRequests : BeginTrace(r)
    \/ QueryEdges
    \/ SearchOn

TracedSpec == TracedInit /\ [][TracedNext]_tracedVars

-----------------------------------------------------------------------------
(* Properties.                                                             *)

\* The revision that the first k events of a log put in force, 0 if none.
InForce(log, k) ==
    LET first == SubSeq(log, 1, k)
    IN IF ReplayedStatus(first) = "Approved" THEN ReplayedActive(first) ELSE 0

\* The edges of the revisions in force once, throughout, and at the query.
During(r) == moments.from[r]..moments.to[r]
InForceOnce ==
    UNION {EdgesOf(r, {InForce(events[r], k) : k \in During(r)} \ {0}) : r \in Relations}
InForceThroughout ==
    UNION {EdgesOf(r, {n \in Revisions : \A k \in During(r) : InForce(events[r], k) = n}) :
              r \in Relations}
InForceAtQuery ==
    UNION {EdgesOf(r, {InForce(events[r], moments.query[r])} \ {0}) : r \in Relations}

\* A trace lists only what the reviewers' history vouches for: every step of every
\* listed path is a revision that the events of its relation put in force at some
\* moment while the trace ran, and those of the recursive query all at the moment of
\* the query.  A revision that is pending, rejected, suppressed or superseded all the
\* while is in no path, although levels are loaded between transactions.
ListedWereInForce ==
    request # Absent =>
        result.paths \subseteq Answer(IF Recursive THEN InForceAtQuery ELSE InForceOnce)

\* A trace that does not say it is truncated lists every path over the revisions that
\* the history has in force from its beginning to its end, whatever else is decided in
\* the meantime.
InForceIsListed ==
    (phase = "Done" /\ ~ result.truncated)
        => Answer(InForceThroughout) \subseteq result.paths

\* The store is one of the environments that GraphTrace allows: a review or a change of
\* state replaces, publishes or removes one edge, a scan changes edges of declared
\* foreign keys only, and no relation ever has two.
ImplementsGraphTrace == TraceSpec
=============================================================================
