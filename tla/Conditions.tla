----------------------------- MODULE Conditions -----------------------------
(***************************************************************************)
(* The conditions of relations (internal/conditions): expressions over     *)
(* columns, parameters and literals that are evaluated in a context which  *)
(* may lack some of them.  The result is TRUE, FALSE or UNKNOWN, with the  *)
(* references that were missing.                                           *)
(*                                                                         *)
(* A context is a function from references to values, a value a record of  *)
(* its type and its place in the order of that type.  What recurs over an  *)
(* expression is a function on the expressions that the constants give.    *)
(***************************************************************************)
EXTENDS Integers, Sequences, FiniteSets, FiniteSetsExt, Functions

CONSTANTS
    Booleans,      \* expressions of the sort Boolean, with all parts,
    Values,        \* and of the sort Value
    Contexts,      \* what requests know: functions from references to values
    MaxDepth,      \* DefaultLimits: nesting of an expression,
    MaxNodes,      \* expressions in it, and
    MaxListItems   \* members of one list

Expressions == Booleans \cup Values

-----------------------------------------------------------------------------
(* Expressions.                                                            *)

Value(type, place) == [type |-> type, place |-> place]
Null == Value("null", 0)

And(children)  == [kind |-> "and", children |-> children]
Or(children)   == [kind |-> "or", children |-> children]
Not(operand)   == [kind |-> "not", operand |-> operand]
Compare(left, operator, right) ==
    [kind |-> "compare", operator |-> operator, left |-> left, right |-> right]
In(left, values)    == [kind |-> "in", left |-> left, values |-> values]
NotIn(left, values) == [kind |-> "not_in", left |-> left, values |-> values]
IsNull(left)    == [kind |-> "is_null", left |-> left]
IsNotNull(left) == [kind |-> "is_not_null", left |-> left]

\* A column, the copy of a column or a parameter.
Reference(name) == [kind |-> "reference", name |-> name]
Literal(value)  == [kind |-> "literal", value |-> value]
Case(cases, else) == [kind |-> "case", cases |-> cases, else |-> else]
When(when, then)  == [when |-> when, then |-> then]

\* The expressions directly below one.
Below(e) ==
    CASE e.kind \in {"and", "or"}            -> e.children
      [] e.kind = "not"                      -> <<e.operand>>
      [] e.kind = "compare"                  -> <<e.left, e.right>>
      [] e.kind \in {"in", "not_in"}         -> <<e.left>> \o e.values
      [] e.kind \in {"is_null", "is_not_null"} -> <<e.left>>
      [] e.kind = "case"                     -> [i \in DOMAIN e.cases |-> e.cases[i].when]
                                                  \o [i \in DOMAIN e.cases |-> e.cases[i].then]
                                                  \o <<e.else>>
      [] OTHER                               -> <<>>

\* The lists of an expression are bounded, and those of and and or are lists.
ListsBounded(e) ==
    CASE e.kind \in {"and", "or"}    -> Len(e.children) \in 2..MaxListItems
      [] e.kind \in {"in", "not_in"} -> Len(e.values) \in 1..MaxListItems
      [] e.kind = "case"             -> Len(e.cases) \in 1..MaxListItems
      [] OTHER                       -> TRUE

Depth[e \in Expressions] ==
    1 + Max({0} \cup {Depth[Below(e)[i]] : i \in DOMAIN Below(e)})
Size[e \in Expressions] ==
    1 + MapThenSumSet(LAMBDA i : Size[Below(e)[i]], DOMAIN Below(e))
AllListsBounded[e \in Expressions] ==
    ListsBounded(e) /\ \A i \in DOMAIN Below(e) : AllListsBounded[Below(e)[i]]

\* ValidateBoolean and ValidateValue, called when a relation is proposed and
\* again before each evaluation.
Valid(e) == Depth[e] <= MaxDepth /\ Size[e] <= MaxNodes /\ AllListsBounded[e]

\* The two types of expressions, which are finite trees.
IsBoolean(e) ==
    \/ e.kind \in {"and", "or"} /\ e.children \in Seq(Booleans)
    \/ e.kind = "not" /\ e.operand \in Booleans
    \/ /\ e.kind = "compare" /\ e.left \in Values /\ e.right \in Values
       /\ e.operator \in {"eq", "ne", "gt", "gte", "lt", "lte"}
    \/ e.kind \in {"in", "not_in"} /\ e.left \in Values /\ e.values \in Seq(Values)
    \/ e.kind \in {"is_null", "is_not_null"} /\ e.left \in Values
IsValue(e) ==
    \/ e.kind \in {"reference", "literal"}
    \/ /\ e.kind = "case"
       /\ e.cases \in Seq([when : Booleans, then : Values])
       /\ e.else \in Values

ASSUME ConditionsAssumption ==
    /\ \A e \in Booleans : IsBoolean(e)
    /\ \A e \in Values : IsValue(e)
    /\ \A e \in Expressions :
          /\ Depth[e] \in Nat
          /\ \A i \in DOMAIN Below(e) : Depth[Below(e)[i]] < Depth[e]
    /\ MaxDepth \in Nat

-----------------------------------------------------------------------------
(* Evaluation.                                                             *)

Decided(b) == [truth |-> IF b THEN "TRUE" ELSE "FALSE", missing |-> {}]
Unknown(missing) == [truth |-> "UNKNOWN", missing |-> missing]

Known(value)       == [known |-> TRUE, value |-> value, missing |-> {}]
Unresolved(missing) == [known |-> FALSE, value |-> Null, missing |-> missing]

Missing(results) == UNION {r.missing : r \in Range(results)}

\* and: FALSE decides it; otherwise it is UNKNOWN when something was missing,
\* and not when a member was UNKNOWN.
Conjunction(results) ==
    IF \E r \in Range(results) : r.truth = "FALSE" THEN Decided(FALSE)
    ELSE IF Missing(results) # {} THEN Unknown(Missing(results))
    ELSE Decided(TRUE)

Disjunction(results) ==
    IF \E r \in Range(results) : r.truth = "TRUE" THEN Decided(TRUE)
    ELSE IF Missing(results) # {} THEN Unknown(Missing(results))
    ELSE Decided(FALSE)

Negation(result) ==
    IF result.truth = "UNKNOWN" THEN result ELSE Decided(result.truth = "FALSE")

\* compareRuntimeValues: a comparison with null, or in order with a value of
\* another type, is UNKNOWN although nothing is missing.
Compared(left, operator, right) ==
    LET l == left.place  r == right.place
    IN IF Null \in {left, right} THEN Unknown({})
       ELSE CASE operator = "eq" -> Decided(left = right)
              [] operator = "ne" -> Decided(left # right)
              [] OTHER -> IF left.type # right.type THEN Unknown({})
                          ELSE CASE operator = "gt"  -> Decided(l > r)
                                 [] operator = "gte" -> Decided(l >= r)
                                 [] operator = "lt"  -> Decided(l < r)
                                 [] operator = "lte" -> Decided(l <= r)

Comparison(left, operator, right) ==
    IF left.known /\ right.known
      THEN Compared(left.value, operator, right.value)
      ELSE Unknown(left.missing \cup right.missing)

\* in and not_in: a match decides, whatever is missing.
Membership(left, candidates, wanted) ==
    LET matched == \E c \in Range(candidates) :
                      c.known /\ Compared(left.value, "eq", c.value).truth = "TRUE"
    IN IF ~ left.known THEN Unknown(left.missing)
       ELSE IF ~ matched /\ Missing(candidates) # {} THEN Unknown(Missing(candidates))
       ELSE Decided(matched = wanted)

NullTest(value, wanted) ==
    IF value.known THEN Decided((value.value = Null) = wanted) ELSE Unknown(value.missing)

\* mutated form: a branch whose condition is UNKNOWN is passed over.
BranchOnTrue(results) ==
    LET taken == {i \in DOMAIN results : results[i].truth = "TRUE"}
    IN IF taken = {} THEN 0 ELSE Min(taken)
\* The branch a case stops at, or 0 for its else: the first that is not FALSE.
Branch(results) ==
    LET taken == {i \in DOMAIN results : results[i].truth # "FALSE"}
    IN IF taken = {} THEN 0 ELSE Min(taken)

\* evaluateBooleanPrepared and evaluateValuePrepared, given what they yield below.
EvaluateBoolean(e, results) ==
    LET Results(es) == [i \in DOMAIN es |-> results[es[i]]]
    IN CASE e.kind = "and" -> Conjunction(Results(e.children))
         [] e.kind = "or"  -> Disjunction(Results(e.children))
         [] e.kind = "not" -> Negation(results[e.operand])
         [] e.kind = "compare" -> Comparison(results[e.left], e.operator, results[e.right])
         [] e.kind \in {"in", "not_in"} ->
               Membership(results[e.left], Results(e.values), e.kind = "in")
         [] e.kind \in {"is_null", "is_not_null"} ->
               NullTest(results[e.left], e.kind = "is_null")

EvaluateValue(v, context, results) ==
    CASE v.kind = "reference" -> IF v.name \in DOMAIN context
                                   THEN Known(context[v.name]) ELSE Unresolved({v.name})
      [] v.kind = "literal"   -> Known(v.value)
      [] v.kind = "case"      ->
            LET whens == [i \in DOMAIN v.cases |-> results[v.cases[i].when]]
                i == Branch(whens)
            IN CASE i = 0 -> results[v.else]
                 [] i # 0 /\ whens[i].truth = "UNKNOWN" -> Unresolved(whens[i].missing)
                 [] OTHER -> results[v.cases[i].then]

Shallow == {e \in Expressions : Depth[e] <= MaxDepth}

\* The results of all expressions in a context, and of one.
ResultsIn(context) ==
    LET results[e \in Shallow] ==
            IF e \in Booleans THEN EvaluateBoolean(e, results)
                              ELSE EvaluateValue(e, context, results)
    IN results
Evaluate(e, context) == ResultsIn(context)[e]

\* EvaluateValuePrepared: whether a value could be resolved.
Resolved(value) == IF value.known THEN Decided(TRUE) ELSE Unknown(value.missing)

AllValid(booleans, transforms) == \A e \in Range(booleans) \cup Range(transforms) : Valid(e)

\* evaluateEdge of the graph service: the guard, the selector and the transform
\* of an edge, each optional, are joined the way and joins its members.  An
\* expression that is not valid is an error.
EvaluateEdge(booleans, transforms, context) ==
    IF AllValid(booleans, transforms)
      THEN Conjunction([i \in DOMAIN booleans |-> Evaluate(booleans[i], context)]
                       \o [i \in DOMAIN transforms |->
                               Resolved(Evaluate(transforms[i], context))])
      ELSE [truth |-> "ERROR", missing |-> {}]

=============================================================================
