----------------------------- MODULE GraphTrace -----------------------------
(***************************************************************************)
(* Trace and impact (internal/graph) over the effective edges, which       *)
(* approvals and suppressions change while a trace is under way.           *)
(*                                                                         *)
(* A request with an empty context walks the rows of one recursive query,  *)
(* which sees the edges of one moment; the callback that receives the rows *)
(* checks them against the paths it knows.  A request with a context       *)
(* searches breadth first and loads the edges of each level by a query of  *)
(* its own.  Whatever a limit cuts off, the result must say so.            *)
(*                                                                         *)
(* A path is the sequence of its edges.  A loaded edge and a step of the   *)
(* result count one each, where the code counts rows, steps and bytes.     *)
(* The order of the edges of a level is left open.                         *)
(***************************************************************************)
EXTENDS Conditions

CONSTANTS
    Nodes,
    Edges,        \* versions of relations: [relation, version, source, target]
    Graphs,       \* sets of effective edges to start from
    ConditionsOf, \* the conditions of each edge: [booleans, transforms]
    Declared,     \* the relations of declared foreign keys
    TraceRequests, \* [start, target, direction, context, depth, nodes, paths, most]
    MaxChanges,   \* bound on the changes of the effective edges
    Absent        \* no target, no request

\* One relation has at most one effective edge: its key is relation_id.
IsGraph(G) == G \subseteq Edges /\ \A e, f \in G : e.relation = f.relation => e = f

\* The most a request may use: maximumFrontierStates, maximumPathStates, ...
Maxima == [frontier : Nat, states : Nat, expansions : Nat, loaded : Nat, steps : Nat]

ASSUME GraphAssumption ==
    /\ \A e \in Edges : /\ e.relation \in Nat
                        /\ e.source \in Nodes /\ e.target \in Nodes
                        /\ e.source # e.target
    /\ \A G \in Graphs : IsGraph(G)
    /\ Declared \subseteq Nat
    /\ Absent \notin Nodes
    /\ \A r \in TraceRequests : r.context \in Contexts /\ r.most \in Maxima
    /\ ConditionsOf \in [Edges -> [booleans : Seq(Booleans), transforms : Seq(Values)]]
    \* validateAndCopyContent
    /\ \A e \in Edges : AllValid(ConditionsOf[e].booleans, ConditionsOf[e].transforms)
    /\ IsFiniteSet(Nodes)
    /\ MaxChanges \in Nat

VARIABLES
    effective,  \* effective_edges: the edge of each version that is published
    changes,    \* how often they changed
    phase,      \* of the trace: Idle, Load, Expand, Query, Walk, Done, Failed
    request,    \* the request that is traced
    pending,    \* <<path, edge>> of the level still to be expanded
    cut,        \* the level was not loaded completely
    depth,      \* of the level
    walk,       \* rows of the recursive query not yet extracted: [steps, cycle]
    snapshot,   \* the edges the recursive query sees
    keys,       \* seenStateKeys
    states,     \* paths that may be extended
    visited,    \* nodes
    spent,      \* [states, expansions, loaded, steps]
    result,     \* [paths, listed, cycleDetected, truncated]
    always,     \* the edges that were effective all along the trace ...
    ever        \* ... and those that were at some time

graphVars == <<effective, changes>>
searchVars == <<pending, cut, depth>>
walkVars  == <<walk, snapshot, keys>>
foundVars == <<states, visited, spent, result>>
traceVars == <<graphVars, phase, request, searchVars, walkVars, foundVars, always, ever>>

TraceInit ==
    /\ effective \in Graphs
    /\ changes = 0
    /\ phase = "Idle"
    /\ request = Absent
    /\ pending = {} /\ cut = FALSE /\ depth = 0
    /\ walk = {} /\ snapshot = {} /\ keys = {}
    /\ states = {} /\ visited = {}
    /\ spent = [states |-> 0, expansions |-> 0, loaded |-> 0, steps |-> 0]
    /\ result = [paths |-> {}, listed |-> 0, cycleDetected |-> FALSE, truncated |-> FALSE]
    /\ always = {} /\ ever = {}

-----------------------------------------------------------------------------
(* The effective edges change while a trace runs.                          *)

UnderWay == phase \notin {"Idle", "Done", "Failed"}

ChangeTo(G) ==
    /\ changes < MaxChanges
    /\ effective' = G
    /\ changes' = changes + 1
    /\ always' = IF UnderWay THEN always \cap G ELSE always
    /\ ever' = IF UnderWay THEN ever \cup G ELSE ever
    /\ UNCHANGED <<phase, request, searchVars, walkVars, foundVars>>

\* An approval replaces the edge of the relation.
PublishEdge(e) ==
    /\ e \notin effective
    /\ ChangeTo({f \in effective : f.relation # e.relation} \cup {e})

\* A suppression or a tombstone removes it.
RemoveEdge(e) ==
    /\ e \in effective
    /\ ChangeTo(effective \ {e})

DeclaredIn(G) == {e \in G : e.relation \in Declared}
DeclaredGraphs == {DeclaredIn(G) : G \in {H \in SUBSET Edges : IsGraph(H)}}

\* A scan publishes and removes the edges of several declared foreign keys at once.
ReconcileEdges(G) ==
    /\ G # DeclaredIn(effective)
    /\ ChangeTo((effective \ DeclaredIn(effective)) \cup G)

-----------------------------------------------------------------------------
(* Paths.                                                                  *)

Ahead(e)  == IF request.direction = "Downstream" THEN e.target ELSE e.source
Behind(e) == IF request.direction = "Downstream" THEN e.source ELSE e.target

Current(p) == IF p = <<>> THEN request.start ELSE Ahead(p[Len(p)])
NodesOf(p) == {request.start} \cup {Ahead(p[i]) : i \in DOMAIN p}

Evaluation ==
    [e \in Edges |-> [c \in Contexts |->
        EvaluateEdge(ConditionsOf[e].booleans, ConditionsOf[e].transforms, c)]]
TruthOf(e) == Evaluation[e][request.context].truth
AtTarget(n) == request.target \in {Absent, n}
CanExpand(n) == request.target # n

\* mutated form: only the node before is compared.
PathContainsLast(p, n) == n = Current(p)
PathContains(p, n) == n \in NodesOf(p)

-----------------------------------------------------------------------------
(* Trace: validation, and the choice between the two ways.                 *)

MaxLimit == 10000
ValidRequest(r) ==
    /\ r.start \in Nodes
    /\ r.target \in Nodes \cup {Absent}
    /\ r.direction \in {"Downstream", "Upstream"}
    /\ r.depth \in 1..64 /\ r.nodes \in 1..MaxLimit /\ r.paths \in 1..MaxLimit

Recursive == request.context = <<>>

Trace(r) ==
    /\ phase = "Idle"
    /\ ValidRequest(r)
    /\ request' = r
    /\ phase' = IF r.context = <<>> THEN "Query" ELSE "Load"
    /\ states' = {<<>>}
    /\ keys' = {<<>>}
    /\ visited' = {r.start}
    /\ spent' = [spent EXCEPT !.states = 1]
    /\ always' = effective /\ ever' = effective
    /\ UNCHANGED <<graphVars, searchVars, walk, snapshot, result>>

Truncated == [result EXCEPT !.truncated = TRUE]

\* truncatedResult and errStopRecursiveTraversal.
Stop ==
    /\ phase' = "Done"
    /\ result' = Truncated
    /\ UNCHANGED states

Fail ==
    /\ phase' = "Failed"
    /\ UNCHANGED <<states, visited, result>>

-----------------------------------------------------------------------------
(* What both ways do with an edge that leads on from a path.  Each action  *)
(* says what becomes of states, visited, spent, result and phase.          *)

NodesFull(e) == Ahead(e) \notin visited /\ Cardinality(visited) >= request.nodes
StatesFull   == spent.states >= request.most.states
PathsFull    == result.listed >= request.paths
StepsFull(p) == spent.steps + Len(p) > request.most.steps
FrontierFull(p) ==
    Cardinality({q \in states : Len(q) = Len(p)}) >= request.most.frontier

\* spent with one more expansion, and more steps and states.
Spent(loaded, steps, extended) ==
    [states |-> spent.states + extended, expansions |-> spent.expansions + 1,
     loaded |-> spent.loaded + loaded, steps |-> spent.steps + steps]

\* The edge does not apply, or leads back to the path.
Pass(p, e, loaded) ==
    /\ \/ TruthOf(e) = "FALSE" /\ result' = result
       \/ /\ TruthOf(e) \in {"TRUE", "UNKNOWN"}
          /\ PathContains(p, Ahead(e))
          /\ result' = [result EXCEPT !.cycleDetected = TRUE]
    /\ spent' = Spent(loaded, 0, 0)
    /\ UNCHANGED <<phase, states, visited>>

LeadsOn(p, e) == TruthOf(e) \in {"TRUE", "UNKNOWN"} /\ ~ PathContains(p, Ahead(e))

\* The two ways look at these limits in different orders.
LeaveOut(p, e, loaded) ==
    /\ LeadsOn(p, e)
    /\ NodesFull(e) /\ (Recursive => ~ StatesFull)
    /\ result' = Truncated
    /\ spent' = Spent(loaded, 0, 0)
    /\ UNCHANGED <<phase, states, visited>>

StopAt(p, e, loaded) ==
    /\ LeadsOn(p, e)
    /\ \/ /\ StatesFull /\ (Recursive \/ ~ NodesFull(e))
          /\ spent' = Spent(loaded, 0, 0)
          /\ visited' = visited
       \/ /\ ~ StatesFull /\ ~ NodesFull(e)
          /\ AtTarget(Ahead(e))
          /\ PathsFull \/ StepsFull(Append(p, e))
          /\ spent' = Spent(loaded, 0, 1)
          /\ visited' = visited \cup {Ahead(e)}
    /\ Stop

\* mutated form: what is left when the depth is reached is not told.
LeftAtDepthUntold(d) == FALSE
LeftAtDepth(d) == d = request.depth

\* The path is listed if it ends where it should, and kept if it may go on.
Extend(p, e, loaded) ==
    LET q    == Append(p, e)
        n    == Ahead(e)
        full == CanExpand(n) /\ FrontierFull(q)
    IN /\ LeadsOn(p, e)
       /\ ~ NodesFull(e) /\ ~ StatesFull
       /\ ~ (AtTarget(n) /\ (PathsFull \/ StepsFull(q)))
       /\ visited' = visited \cup {n}
       /\ spent' = Spent(loaded, IF AtTarget(n) THEN Len(q) ELSE 0, 1)
       /\ states' = IF CanExpand(n) /\ ~ full THEN states \cup {q} ELSE states
       /\ result' = [paths  |-> IF AtTarget(n) THEN result.paths \cup {q} ELSE result.paths,
                     listed |-> IF AtTarget(n) THEN result.listed + 1 ELSE result.listed,
                     cycleDetected |-> result.cycleDetected,
                     truncated |-> \/ result.truncated \/ full
                                   \/ Recursive /\ CanExpand(n) /\ LeftAtDepth(Len(q))]
       /\ phase' = IF full THEN "Done" ELSE phase

Consider(p, e, loaded) ==
    \/ Pass(p, e, loaded) \/ LeaveOut(p, e, loaded)
    \/ StopAt(p, e, loaded) \/ Extend(p, e, loaded)
    \/ TruthOf(e) = "ERROR" /\ Fail /\ spent' = Spent(loaded, 0, 0)

-----------------------------------------------------------------------------
(* Breadth first, with a query for each level.                             *)

Frontier == {p \in states : Len(p) = depth}
Leaving(G) == {e \in G : \E p \in Frontier : Current(p) = Behind(e)}

LeastOf(a, b) == IF a <= b THEN a ELSE b

\* LoadEdges: as many of the edges that leave the frontier as the remaining
\* budgets allow, and whether there were more.
LoadEdges ==
    LET all  == Leaving(effective)
        room == LeastOf(request.most.expansions - spent.expansions,
                        request.most.loaded - spent.loaded)
    IN /\ phase = "Load"
       /\ spent.loaded < request.most.loaded
       /\ \E rows \in SUBSET all :
             /\ Cardinality(rows) = LeastOf(room, Cardinality(all))
             /\ cut' = (rows # all \/ spent.expansions >= request.most.expansions)
             /\ pending' = {pe \in Frontier \X rows : Current(pe[1]) = Behind(pe[2])}
             /\ spent' = [spent EXCEPT !.loaded = @ + Cardinality(rows)]
       /\ phase' = "Expand"
       /\ UNCHANGED <<graphVars, request, depth, walkVars, states, visited, result, always, ever>>

LoadNothing ==
    /\ phase = "Load"
    /\ spent.loaded >= request.most.loaded
    /\ Stop
    /\ UNCHANGED <<graphVars, request, searchVars, walkVars, visited, spent, always, ever>>

ExpandEdge(p, e) ==
    /\ phase = "Expand"
    /\ pending' = pending \ {<<p, e>>}
    /\ \/ /\ spent.expansions < request.most.expansions
          /\ Consider(p, e, 0)
       \/ /\ spent.expansions >= request.most.expansions
          /\ Stop
          /\ UNCHANGED <<visited, spent>>
    /\ UNCHANGED <<graphVars, request, cut, depth, walkVars, always, ever>>

\* The end of a level.
NextLevel ==
    LET left == {p \in states : Len(p) = depth + 1}
    IN /\ phase = "Expand"
       /\ pending = {}
       /\ depth' = depth + 1
       /\ result' = IF cut \/ (left # {} /\ LeftAtDepth(depth + 1)) THEN Truncated ELSE result
       /\ phase' = IF cut \/ left = {} \/ depth + 1 = request.depth THEN "Done" ELSE "Load"
       /\ UNCHANGED <<graphVars, request, pending, cut, walkVars>>
       /\ UNCHANGED <<states, visited, spent, always, ever>>

-----------------------------------------------------------------------------
(* The recursive query and the callback that receives its rows.            *)

\* mutated form: the query compares with the node it started from only.
RowCycleAtStart(p, e) == Ahead(e) = request.start
\* What the query takes for a cycle: the node is in node_path.
RowCycle(p, e) == Ahead(e) \in NodesOf(p)

QueryRow(p, e) == [steps |-> Append(p, e), cycle |-> RowCycle(p, e)]
RowsFrom(p, G) == {QueryRow(p, e) : e \in {f \in G : Behind(f) = Current(p)}}

LoadRecursiveEdges ==
    /\ phase = "Query"
    /\ snapshot' = effective
    /\ walk' = RowsFrom(<<>>, effective)
    /\ phase' = "Walk"
    /\ UNCHANGED <<graphVars, request, searchVars, keys, foundVars, always, ever>>

Last(p) == p[Len(p)]
Parent(p) == SubSeq(p, 1, Len(p) - 1)
\* state_key: the relations of the path.
Key(p) == [i \in DOMAIN p |-> p[i].relation]

\* ORDER BY depth, relation_id.
IsNext(row) ==
    \A other \in walk :
        \/ Len(row.steps) < Len(other.steps)
        \/ /\ Len(row.steps) = Len(other.steps)
           /\ Last(row.steps).relation <= Last(other.steps).relation

\* The rows that a row leads to.
Successors(row) ==
    IF row.cycle \/ Len(row.steps) >= request.depth \/ ~ CanExpand(Current(row.steps))
      THEN {} ELSE RowsFrom(row.steps, snapshot)

WalkRow(row) ==
    LET e       == Last(row.steps)
        key     == Key(row.steps)
        parents == {p \in states : Key(p) = Parent(key)}
    IN /\ phase = "Walk"
       /\ IsNext(row)
       /\ spent.expansions < request.most.expansions
       /\ spent.loaded < request.most.loaded
       /\ walk' = (walk \ {row}) \cup Successors(row)
       /\ keys' = keys \cup {key}
       /\ \/ /\ \/ key \in keys              \* duplicate recursive state
                \/ Parent(key) \notin keys   \* recursive state before its parent
             /\ Fail /\ spent' = Spent(1, 0, 0)
          \/ /\ key \notin keys /\ Parent(key) \in keys
             /\ parents = {}                 \* the parent was not followed
             /\ spent' = Spent(1, 0, 0)
             /\ UNCHANGED <<phase, states, visited, result>>
          \/ /\ key \notin keys
             /\ \E p \in parents :
                   \/ /\ \/ Len(row.steps) # Len(p) + 1   \* inconsistent state
                         \/ Behind(e) # Current(p)
                         \/ row.cycle # PathContains(p, Ahead(e))  \* invalid cycle
                      /\ Fail /\ spent' = Spent(1, 0, 0)
                   \/ /\ Len(row.steps) = Len(p) + 1
                      /\ Behind(e) = Current(p)
                      /\ row.cycle = PathContains(p, Ahead(e))
                      /\ Consider(p, e, 1)
       /\ UNCHANGED <<graphVars, request, searchVars, snapshot, always, ever>>

\* The query has no more rows, or more than may be read.
WalkEnds ==
    /\ phase = "Walk"
    /\ \/ walk = {} /\ phase' = "Done" /\ UNCHANGED <<states, result>>
       \/ /\ walk # {}
          /\ \/ spent.expansions >= request.most.expansions
             \/ spent.loaded >= request.most.loaded
          /\ Stop
    /\ UNCHANGED <<graphVars, request, searchVars, walkVars, visited, spent, always, ever>>

-----------------------------------------------------------------------------
TraceNext ==
    \/ \E e \in Edges : PublishEdge(e) \/ RemoveEdge(e)
    \/ \E G \in DeclaredGraphs : ReconcileEdges(G)
    \/ \E r \in TraceRequests : Trace(r)
    \/ LoadEdges \/ LoadNothing \/ NextLevel
    \/ \E pe \in pending : ExpandEdge(pe[1], pe[2])
    \/ LoadRecursiveEdges \/ WalkEnds
    \/ \E row \in walk : WalkRow(row)

TraceSpec == TraceInit /\ [][TraceNext]_traceVars

-----------------------------------------------------------------------------
(* Properties.                                                             *)

\* The paths over the edges G that a search may follow: they start where the
\* request says, return to no node, apply, and go on from the target never.
\* How long they may be is not said.
Followed(G) ==
    {p \in {<<>>} \cup UNION {[1..n -> G] : n \in 1..(Cardinality(Nodes) - 1)} :
        /\ \A i \in DOMAIN p :
              /\ Behind(p[i]) = IF i = 1 THEN request.start ELSE Ahead(p[i - 1])
              /\ TruthOf(p[i]) # "FALSE"
              /\ i < Len(p) => CanExpand(Ahead(p[i]))
        /\ Cardinality(NodesOf(p)) = Len(p) + 1}

\* The answer that a request asks of G, and whether a search meets a cycle.
Answer(G) == {p \in Followed(G) : p # <<>> /\ AtTarget(Current(p))}
MeetsCycle(G) ==
    \E p \in Followed(G), e \in G :
        /\ CanExpand(Current(p))
        /\ Behind(e) = Current(p)
        /\ TruthOf(e) # "FALSE"
        /\ Ahead(e) \in NodesOf(p)

\* A trace that does not say it is truncated is complete: it lists every path
\* over the edges that were effective all along, of any length, and reports a
\* cycle of them, although levels are loaded at different moments and each of
\* the limits may cut something off.
TraceComplete ==
    (phase = "Done" /\ ~ result.truncated)
        => /\ Answer(always) \subseteq result.paths
           /\ MeetsCycle(always) => result.cycleDetected

\* A trace lists nothing else, and nothing twice: each path answers the
\* request over the edges effective at some time while it ran, and those of
\* the recursive query over the edges of one moment.
TraceSound ==
    request # Absent =>
        /\ result.paths \subseteq Answer(IF Recursive THEN snapshot ELSE ever)
        /\ \A p \in result.paths : Len(p) <= request.depth
        /\ result.listed = Cardinality(result.paths)
        /\ snapshot \subseteq ever

\* The checks of the callback never fail: the query and the search agree on
\* what a path, its parent and a cycle are, and no stored condition is
\* refused.  Otherwise a trace would fail as a whole.
RowsAccepted == phase # "Failed"

Knows(c, d) == \A x \in DOMAIN d : x \in DOMAIN c /\ c[x] = d[x]

\* Whoever repeats a request with more context is told more and nothing else:
\* an edge decided with less context is decided in the same way, and what the
\* evaluation of an UNKNOWN edge names as missing is missing.
MoreContextRefines ==
    request # Absent =>
        \A e \in ever :
            LET now == Evaluation[e][request.context]
            IN /\ \A less \in {c \in Contexts : Knows(request.context, c)} :
                     Evaluation[e][less].truth \in {"UNKNOWN", now.truth}
               /\ now.truth = "UNKNOWN" <=> now.missing # {}
               /\ now.missing \cap DOMAIN request.context = {}
=============================================================================
