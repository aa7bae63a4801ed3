--------------------------- MODULE ReviewedGraph ---------------------------
(***************************************************************************)
(* What the relation store promises the users of the graph, without its    *)
(* tables: a relation publishes at most one content, only the approval of  *)
(* the one change pending for it replaces that content, a suppression      *)
(* hides it and a restoration brings the same content back, and only the   *)
(* schema scanner publishes and withdraws declared foreign keys.           *)
(***************************************************************************)

CONSTANTS
    CodeRelations,  \* relations that people and agents propose
    ForeignKeys,    \* relations that the schema scanner declares
    Contents,       \* what a relation can say
    KeyContent,     \* what the relation of a foreign key says
    Withdraw,       \* the pending change that ends a relation
    None            \* nothing published, hidden or pending

Relations == CodeRelations \cup ForeignKeys

VARIABLES
    published,  \* the content traversal sees for each relation
    hidden,     \* the content a suppression took out of the graph
    pending     \* the change waiting for review

graphVars == <<published, hidden, pending>>

Init ==
    /\ published = [r \in Relations |-> None]
    /\ hidden = [r \in Relations |-> None]
    /\ pending = [r \in Relations |-> None]

\* Proposals leave the graph alone; only what is in force can be withdrawn.  A batch or
\* the completion of an initialization proposes for several relations at once.
Propose(changes) ==
    /\ \A r \in DOMAIN changes :
          /\ pending[r] = None
          /\ changes[r] = Withdraw => published[r] # None \/ hidden[r] # None
    /\ pending' = [r \in Relations |->
                     IF r \in DOMAIN changes THEN changes[r] ELSE pending[r]]
    /\ UNCHANGED <<published, hidden>>

Reject(r) ==
    /\ pending[r] # None
    /\ pending' = [pending EXCEPT ![r] = None]
    /\ UNCHANGED <<published, hidden>>

Approve(r) ==
    /\ pending[r] # None
    /\ published' = [published EXCEPT ![r] =
                       IF pending[r] = Withdraw THEN None ELSE pending[r]]
    /\ hidden' = [hidden EXCEPT ![r] = None]
    /\ pending' = [pending EXCEPT ![r] = None]

Suppress(r) ==
    /\ pending[r] = None
    /\ published[r] # None
    /\ hidden' = [hidden EXCEPT ![r] = published[r]]
    /\ published' = [published EXCEPT ![r] = None]
    /\ UNCHANGED pending

Restore(r) ==
    /\ pending[r] = None
    /\ hidden[r] # None
    /\ published' = [published EXCEPT ![r] = hidden[r]]
    /\ hidden' = [hidden EXCEPT ![r] = None]
    /\ UNCHANGED pending

\* One scan publishes the keys that appeared and withdraws those that disappeared;
\* a suppressed key stays hidden either way.
Scan(appeared, disappeared) ==
    /\ \A f \in appeared : published[f] = None /\ hidden[f] = None
    /\ \A f \in disappeared : published[f] # None
    /\ published' = [r \in Relations |->
         IF r \in appeared THEN KeyContent[r]
         ELSE IF r \in disappeared THEN None ELSE published[r]]
    /\ UNCHANGED <<hidden, pending>>

Next ==
    \/ \E proposed \in SUBSET CodeRelations :
          \E changes \in [proposed -> Contents \cup {Withdraw}] : Propose(changes)
    \/ \E r \in CodeRelations : Reject(r) \/ Approve(r)
    \/ \E r \in Relations : Suppress(r) \/ Restore(r)
    \/ \E appeared, disappeared \in SUBSET ForeignKeys : Scan(appeared, disappeared)

Spec == Init /\ [][Next]_graphVars

=============================================================================
