---------------------------- MODULE MCGraphTrace ----------------------------
(* Instances of GraphTrace for TLC: a few relations with conditions, which *)
(* Conditions evaluates, and requests that run into each of the limits.    *)
EXTENDS GraphTrace, TLC

CONSTANTS n1, n2, n3, n4

MCNumber(i) == Value("number", i)
MCText      == Value("string", 1)
MCIs(name, i) == Compare(Reference(name), "eq", Literal(MCNumber(i)))

MCEdge(relation, version, source, target) ==
    [relation |-> relation, version |-> version, source |-> source, target |-> target]

\* A version of a relation with its guard and selector, and its transform.
MCVersion(relation, version, source, target, booleans, transforms) ==
    [edge |-> MCEdge(relation, version, source, target),
     booleans |-> booleans, transforms |-> transforms]

\* 1 -> 2 -> 3 with a way from 1 to 3 beside it and one back to 1, and of each
\* relation a version that leads elsewhere.
MCVersions ==
    {MCVersion(1, 1, n1, n2, <<>>, <<Reference("p")>>),
     MCVersion(1, 2, n1, n3, <<>>, <<>>),
     MCVersion(2, 1, n2, n3, <<And(<<MCIs("p", 1), Not(MCIs("q", 2))>>)>>, <<>>),
     MCVersion(2, 2, n2, n4,
               <<Compare(Case(<<When(MCIs("p", 1), Literal(MCNumber(1)))>>,
                              Literal(MCNumber(2))),
                         "gte", Literal(MCNumber(2)))>>, <<>>),
     MCVersion(3, 1, n1, n3,
               <<Or(<<In(Reference("q"), <<Literal(MCNumber(1)), Reference("p")>>),
                      Compare(Reference("p"), "lt", Literal(MCNumber(2)))>>)>>, <<>>),
     MCVersion(3, 2, n1, n2, <<Compare(Literal(MCText), "eq", Literal(MCNumber(1)))>>, <<>>),
     MCVersion(4, 1, n3, n1,
               <<Compare(Literal(MCNumber(1)), "ne", Literal(MCNumber(2))),
                 IsNotNull(Literal(MCText))>>,
               <<Literal(Null)>>),
     MCVersion(4, 2, n3, n2,
               <<Not(IsNull(Reference("p"))),
                 NotIn(Reference("p"), <<Literal(MCNumber(2)), Reference("q")>>)>>, <<>>),
     \* no conjunction of one: refused when it is proposed
     MCVersion(5, 1, n3, n4, <<And(<<MCIs("p", 1)>>)>>, <<>>)}

\* The expressions of all versions with their parts, by sort.
RECURSIVE MCPartsOf(_)
MCPartsOf(e) == {e} \cup UNION {MCPartsOf(Below(e)[i]) : i \in DOMAIN Below(e)}
MCExpressions ==
    UNION {UNION {MCPartsOf(e) : e \in Range(v.booleans \o v.transforms)} : v \in MCVersions}
MCValues   == {e \in MCExpressions : e.kind \in {"reference", "literal", "case"}}
MCBooleans == MCExpressions \ MCValues

\* validateAndCopyContent: what is stored is valid.
MCStored == {v \in MCVersions : \A e \in Range(v.booleans \o v.transforms) : Valid(e)}
MCEdges  == {v.edge : v \in MCStored}

\* One parameter that is 1, 2, null or text, and another.
MCContexts == {<<>>, "p" :> MCNumber(1), "p" :> MCNumber(2), "p" :> Null, "p" :> MCText,
               "p" :> MCNumber(1) @@ "q" :> MCNumber(1)}
MCNullContext == {"p" :> Null @@ "q" :> MCNumber(1)}

MCConditionsOf ==
    [e \in Edges |->
        LET v == CHOOSE w \in MCStored : w.edge = e
        IN [booleans |-> v.booleans, transforms |-> v.transforms]]

MCGraphs == {{e \in MCEdges : e.version = 1}}

MCMost(frontier, extended, expansions, loaded, steps) ==
    [frontier |-> frontier, states |-> extended, expansions |-> expansions,
     loaded |-> loaded, steps |-> steps]
MCWide == MCMost(9, 9, 9, 9, 9)

MCLimits(depthMost, nodes, paths, most) ==
    [depth |-> depthMost, nodes |-> nodes, paths |-> paths, most |-> most]

MCAllLimits ==
    {MCLimits(3, 9, 9, MCWide), MCLimits(1, 9, 9, MCWide), MCLimits(3, 2, 9, MCWide),
     MCLimits(3, 9, 1, MCWide), MCLimits(3, 2, 9, MCMost(9, 2, 9, 9, 9)),
     MCLimits(3, 9, 9, MCMost(1, 9, 9, 9, 9)), MCLimits(3, 9, 9, MCMost(9, 3, 9, 9, 9)),
     MCLimits(3, 9, 9, MCMost(9, 9, 3, 9, 9)), MCLimits(3, 9, 9, MCMost(9, 9, 9, 2, 9)),
     MCLimits(3, 9, 9, MCMost(9, 9, 9, 9, 2))}
MCNoLimits == {MCLimits(3, 9, 9, MCWide)}

MCRequest(start, target, direction, c, l) ==
    [start |-> start, target |-> target, direction |-> direction, context |-> c,
     depth |-> l.depth, nodes |-> l.nodes, paths |-> l.paths, most |-> l.most]

\* Downstream each limit with and without a context, and each context without
\* limits; upstream the latter.
MCRequests ==
    UNION {{MCRequest(n1, Absent, "Downstream", cl[1], cl[2]),
            MCRequest(n1, n3, "Downstream", cl[1], cl[2])} :
              cl \in ({<<>>, "p" :> MCNumber(1)} \X MCAllLimits) \cup (Contexts \X MCNoLimits)}
    \cup {MCRequest(n3, Absent, "Upstream", c, l) : c \in Contexts, l \in MCNoLimits}
MCPlainRequests ==
    {MCRequest(n1, Absent, "Downstream", c, l) : c \in Contexts, l \in MCNoLimits}

\* The truth of a condition with UNKNOWN as the third value of its connectives.
RECURSIVE MCTruth(_, _)
MCTruth(e, context) ==
    LET truths == {MCTruth(Below(e)[i], context) : i \in DOMAIN Below(e)}
    IN CASE e.kind = "and" -> CASE "FALSE" \in truths    -> "FALSE"
                                [] truths \subseteq {"TRUE"} -> "TRUE"
                                [] OTHER                -> "UNKNOWN"
         [] e.kind = "or"  -> CASE "TRUE" \in truths     -> "TRUE"
                                [] truths \subseteq {"FALSE"} -> "FALSE"
                                [] OTHER                -> "UNKNOWN"
         [] e.kind = "not" -> CASE truths = {"TRUE"}    -> "FALSE"
                                [] truths = {"FALSE"}   -> "TRUE"
                                [] OTHER                -> "UNKNOWN"
         [] OTHER          -> Evaluate(e, context).truth

\* A step that a trace reports as TRUE has a guard and a selector that are TRUE:
\* a comparison that is UNKNOWN leaves them UNKNOWN unless another member decides.
\* The code loses an UNKNOWN that comes from null and not from a missing reference.
UnknownIsTold ==
    request # Absent =>
        \A p \in result.paths : \A i \in DOMAIN p :
            TruthOf(p[i]) = "TRUE" =>
                \A v \in MCStored : v.edge = p[i] =>
                    \A b \in Range(v.booleans) : MCTruth(b, request.context) = "TRUE"
=============================================================================
