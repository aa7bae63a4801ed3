-------------------- MODULE RelationLifecycleRefinement --------------------
(***************************************************************************)
(* The relation tables implement the reviewed graph: what the abstract     *)
(* specification publishes, hides and keeps pending is read off            *)
(* effective_edges, relation_current and relation_versions.                *)
(***************************************************************************)
EXTENDS RelationLifecycle

CONSTANT Withdraw  \* the pending change of a tombstone or a stale candidate

ASSUME WithdrawAssumption == Withdraw \notin Contents \cup {None}

PublishedContent ==
    [r \in Relations |-> IF edge[r] = 0 THEN None ELSE versions[r][edge[r]].content]

HiddenContent ==
    [r \in Relations |->
        IF current[r].status = "Suppressed"
        THEN versions[r][current[r].active].content ELSE None]

PendingChange ==
    [r \in Relations |->
        LET n == current[r].proposed
        IN  IF n = 0 THEN None
            ELSE IF versions[r][n].kind = "Content" THEN versions[r][n].content
            ELSE Withdraw]

Graph == INSTANCE ReviewedGraph WITH
    KeyContent <- FirstContent,
    published <- PublishedContent,
    hidden <- HiddenContent,
    pending <- PendingChange

\* Every transaction of the relation store is a step of the reviewed graph: proposals
\* and rejections never change the effective graph, an approval publishes the very
\* change that was pending, a restoration brings back the content that was suppressed,
\* and a scan touches foreign keys only.
ImplementsReviewedGraph == Graph!Spec

=============================================================================
