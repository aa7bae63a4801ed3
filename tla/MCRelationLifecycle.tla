------------------------ MODULE MCRelationLifecycle ------------------------
(* Instances of RelationLifecycle for TLC: one relation of each sort over  *)
(* three columns, with every column, or only those of one table, in scope. *)
EXTENDS RelationLifecycleRefinement, TLC

CONSTANTS r1, k1, col1, col2, col3

MCColumns      == {col1, col2, col3}
MCContents     == {{col1, col2}, {col1, col3}}
MCFirstContent == [r \in Relations |-> {col1, col2}]
MCKeySource    == [f \in ForeignKeys |-> IF f = k1 THEN col1 ELSE col2]
MCSnapshots    == {{col1, col2, col3}, {col1, col2}}
MCScopes       == {{col1, col2, col3}, {col2, col3}}

MCSymmetry ==
    Permutations(AgentRequests) \cup Permutations(ReviewerRequests)
        \cup Permutations(AdminRequests)

=============================================================================
