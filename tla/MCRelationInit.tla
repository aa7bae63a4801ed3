--------------------------- MODULE MCRelationInit ---------------------------
(* Instances of RelationInit for TLC: two relations and two sessions of a  *)
(* repository, batches that propose relations or report a finding.         *)
EXTENDS RelationInit, TLC

CONSTANTS r1, r2, col1, p1, i1, i2, i3, f1, v1

MCContents     == {{col1}}
MCFirstContent == [r \in Relations |-> {col1}]
MCKeySource    == [f \in ForeignKeys |-> col1]
MCSnapshots    == {{col1}}

MCInitRequests  == {i1, i2, i3}
MCInitializer   == [q \in InitRequests |-> p1]
MCAgentRequests == InitRequests \X (1..MaximumBatchItems)

\* A full initialization, and one of the scope of the first relation.
MCFull(p)  == [repository |-> p, mode |-> "Full", scope |-> {}]
MCScoped(p, scope) == [repository |-> p, mode |-> "Incremental", scope |-> scope]
MCTargets == {MCFull(p1), MCScoped(p1, {r1})}

MCPayload(items, findings) == [items |-> items, findings |-> findings]

\* Two relations together, or one of them and a finding.
MCPayloads == {MCPayload(<<r1, r2>>, {}), MCPayload(<<r1>>, {f1})}

MCSessionSymmetry ==
    Permutations(Sessions) \cup Permutations(InitRequests) \cup Permutations(Keys)
        \cup Permutations(ReviewerRequests)
=============================================================================
