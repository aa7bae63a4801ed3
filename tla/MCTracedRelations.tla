------------------------- MODULE MCTracedRelations -------------------------
(* An instance of TracedRelations for TLC: a foreign key col1 -> col2, and *)
(* a relation from code that goes on to col3, revised to start at col1.    *)
EXTENDS TracedRelations, TLC

CONSTANTS r1, k1, k2, col1, col2, col3

MCContents     == {{col1, col2}, {col2, col3}}
MCEnds         == ({col1, col2} :> <<col1, col2>>) @@ ({col2, col3} :> <<col2, col3>>)
MCFirstContent == [r \in Relations |-> IF r = k1 THEN {col1, col2} ELSE {col2, col3}]
MCKeySource    == [f \in ForeignKeys |-> IF f = k1 THEN col1 ELSE col2]
MCNumber       == [r \in Relations |-> IF r = r1 THEN 1 ELSE IF r = k1 THEN 2 ELSE 3]
MCAll          == {{col1, col2, col3}}

MCEdges == {EdgeAt(r, n, c) : r \in Relations, n \in Revisions, c \in Contents}
MCDeclared == {Number[f] : f \in ForeignKeys}

\* The edges that start at col2 apply if p is what it is.
MCValues   == {Reference("p")}
MCBooleans == {Compare(Reference("p"), "eq", Reference("p"))}
MCContexts == {<<>>, "p" :> Value("number", 1)}
MCConditionsOf ==
    [e \in Edges |->
        [booleans |-> IF e.source = col2 THEN <<Compare(Reference("p"), "eq", Reference("p"))>> ELSE <<>>,
         transforms |-> <<>>]]

MCMost == [frontier |-> 9, states |-> 9, expansions |-> 9, loaded |-> 9, steps |-> 9]
MCRequests ==
    {[start |-> col1, target |-> Absent, direction |-> "Downstream", context |-> c,
      depth |-> 3, nodes |-> 9, paths |-> 9, most |-> MCMost] : c \in MCContexts}
=============================================================================
