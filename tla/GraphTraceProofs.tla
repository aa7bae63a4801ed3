-------------------------- MODULE GraphTraceProofs --------------------------
(***************************************************************************)
(* Proofs about GraphTrace, for all graphs, conditions, requests and       *)
(* limits: what a trace lists is an answer to the request, what it does    *)
(* not say is truncated is the whole answer, and the query and the         *)
(* callback that receives its rows agree.                                  *)
(*                                                                         *)
(* The first part speaks of paths alone, for a request r that does not     *)
(* change; the second of what holds in each phase of a trace; the third of *)
(* conditions, and of what more context does to their results; the last of *)
(* traces over the relation store, TracedRelations.                        *)
(***************************************************************************)
EXTENDS TracedRelations, RelationLifecycleProofs, FiniteSetTheorems

-----------------------------------------------------------------------------
(* Paths of a request.                                                     *)

To(r, e)   == IF r.direction = "Downstream" THEN e.target ELSE e.source
From(r, e) == IF r.direction = "Downstream" THEN e.source ELSE e.target
\* The i-th node of p, the one p starts from being the node 0.
At(r, p, i) == IF i = 0 THEN r.start ELSE To(r, p[i])
End(r, p)   == At(r, p, Len(p))
On(r, p)    == {At(r, p, i) : i \in 0..Len(p)}
Applies(r, e) == Evaluation[e][r.context].truth # "FALSE"
GoesOn(r, n)  == r.target # n
Ends(r, n)    == r.target \in {Absent, n}

\* What the search may follow over any edges.
Path(r, p) ==
    /\ p \in Seq(Edges)
    /\ \A i \in 1..Len(p) : From(r, p[i]) = At(r, p, i - 1) /\ Applies(r, p[i])
    /\ \A i \in 1..(Len(p) - 1) : GoesOn(r, At(r, p, i))
    /\ \A i, j \in 0..Len(p) : At(r, p, i) = At(r, p, j) => i = j

\* e leads on from p.
Leads(r, p, e) == From(r, e) = End(r, p) /\ Applies(r, e)

\* A search whose states are S, whose answers are P and which reports a cycle
\* if c, is through with the edge e that leads on from p.
Settled(r, p, e, S, P, c) ==
    Leads(r, p, e) =>
        IF To(r, e) \in On(r, p) THEN c
        ELSE /\ Ends(r, To(r, e)) => Append(p, e) \in P
             /\ GoesOn(r, To(r, e)) => Append(p, e) \in S


\* It is through with all the edges G.
Through(r, G, S, P, c) ==
    <<>> \in S /\ \A p \in S : \A e \in G : Settled(r, p, e, S, P, c)

LEMMA EdgeFacts ==
    /\ \A e \in Edges : /\ e.relation \in Nat
                        /\ e.source \in Nodes /\ e.target \in Nodes
    /\ \A r, e : e \in Edges => To(r, e) \in Nodes /\ From(r, e) \in Nodes
    /\ IsFiniteSet(Nodes)
BY GraphAssumption DEF GraphAssumption, To, From

\* What the specification says of the current request is said of any.
LEMMA OfTheRequest ==
    ASSUME NEW p, p \in Seq(Edges)
    PROVE  /\ \A e : Ahead(e) = To(request, e) /\ Behind(e) = From(request, e)
           /\ Current(p) = End(request, p)
           /\ NodesOf(p) = On(request, p)
           /\ \A n : PathContains(p, n) <=> n \in On(request, p)
           /\ \A n : AtTarget(n) <=> Ends(request, n)
           /\ \A n : CanExpand(n) <=> GoesOn(request, n)
           /\ \A e : Applies(request, e) <=> TruthOf(e) # "FALSE"
<1>1. \A e : Ahead(e) = To(request, e) /\ Behind(e) = From(request, e)
  BY DEF Ahead, Behind, To, From
<1>2. Current(p) = End(request, p)
  BY <1>1 DEF Current, End, At
<1>3. NodesOf(p) = On(request, p)
  <2>1. NodesOf(p) \subseteq On(request, p)
    <3>1. request.start = At(request, p, 0)  BY DEF At
    <3>2. \A i \in DOMAIN p : i \in 0..Len(p) /\ Ahead(p[i]) = At(request, p, i)
      BY <1>1 DEF At
    <3> QED  BY <3>1, <3>2 DEF NodesOf, On
  <2>2. On(request, p) \subseteq NodesOf(p)
    <3>1. \A i \in 0..Len(p) : i = 0 \/ i \in DOMAIN p
      OBVIOUS
    <3>2. \A i \in DOMAIN p : Ahead(p[i]) = At(request, p, i)
      BY <1>1 DEF At
    <3>3. At(request, p, 0) = request.start  BY DEF At
    <3> QED  BY <3>1, <3>2, <3>3 DEF NodesOf, On
  <2> QED  BY <2>1, <2>2
<1>4. \A n : PathContains(p, n) <=> n \in On(request, p)
  BY <1>3 DEF PathContains
<1> QED
  BY <1>1, <1>2, <1>3, <1>4 DEF AtTarget, Ends, CanExpand, GoesOn, Applies, TruthOf

-----------------------------------------------------------------------------
(* Longer and shorter paths.                                               *)

\* An edge that leads on to a new node makes a path longer.
LEMMA PathAppend ==
    ASSUME NEW r, NEW p, Path(r, p), NEW e \in Edges, Leads(r, p, e),
           To(r, e) \notin On(r, p),
           p # <<>> => GoesOn(r, End(r, p))
    PROVE  /\ Path(r, Append(p, e))
           /\ End(r, Append(p, e)) = To(r, e)
<1> DEFINE q == Append(p, e)
           n == Len(p)
<1>1. p \in Seq(Edges) /\ n \in Nat  BY DEF Path
<1>2. q \in Seq(Edges) /\ Len(q) = n + 1
  BY <1>1
<1>3. \A i \in 1..n : q[i] = p[i]
  BY <1>1
<1>4. q[n + 1] = e
  BY <1>1
<1>5. \A i \in 0..n : At(r, q, i) = At(r, p, i)
  BY <1>1, <1>3 DEF At
<1>6. At(r, q, n + 1) = To(r, e)
  BY <1>1, <1>4 DEF At
<1> HIDE DEF q
<1>7. \A i \in 1..(n + 1) : From(r, q[i]) = At(r, q, i - 1) /\ Applies(r, q[i])
  <2> TAKE i \in 1..(n + 1)
  <2>1. CASE i \in 1..n
    <3>1. i - 1 \in 0..n  BY <1>1
    <3> QED  BY <3>1, <2>1, <1>3, <1>5 DEF Path
  <2>2. CASE i = n + 1
    <3>1. From(r, e) = At(r, p, n) /\ Applies(r, e)  BY DEF Leads, End
    <3>2. n \in 0..n /\ i - 1 = n  BY <1>1, <2>2
    <3> QED  BY <3>1, <3>2, <2>2, <1>4, <1>5
  <2> QED  BY <2>1, <2>2, <1>1
<1>8. \A i \in 1..n : GoesOn(r, At(r, q, i))
  <2> TAKE i \in 1..n
  <2>1. At(r, q, i) = At(r, p, i)  BY <1>5, <1>1
  <2>2. CASE i = n
    <3>1. p # <<>>  BY <2>2, <1>1
    <3> QED  BY <2>1, <2>2, <3>1 DEF End
  <2>3. CASE i # n
    <3>1. i \in 1..(n - 1)  BY <2>3, <1>1
    <3> QED  BY <2>1, <3>1 DEF Path
  <2> QED  BY <2>2, <2>3
<1>9. \A i, j \in 0..(n + 1) : At(r, q, i) = At(r, q, j) => i = j
  <2>1. \A i \in 0..n : At(r, q, i) # To(r, e)
    BY <1>5 DEF On
  <2>2. \A i, j \in 0..n : At(r, q, i) = At(r, q, j) => i = j
    BY <1>5 DEF Path
  <2>3. \A i \in 0..(n + 1) : i \in 0..n \/ i = n + 1  BY <1>1
  <2> QED  BY <2>1, <2>2, <2>3, <1>6
<1>10. (n + 1) - 1 = n  BY <1>1
<1>11. Path(r, q)  BY <1>2, <1>7, <1>8, <1>9, <1>10 DEF Path
<1>12. End(r, q) = To(r, e)  BY <1>2, <1>6 DEF End
<1> QED  BY <1>11, <1>12 DEF q

\* The beginning of a path is one, and goes on.
LEMMA PathPrefix ==
    ASSUME NEW r, NEW p, Path(r, p), NEW m \in 0..(Len(p) - 1)
    PROVE  LET q == SubSeq(p, 1, m)
           IN /\ Path(r, q) /\ Len(q) = m
              /\ m # 0 => GoesOn(r, End(r, q))
              /\ Leads(r, q, p[m + 1])
              /\ To(r, p[m + 1]) \notin On(r, q)
              /\ SubSeq(p, 1, m + 1) = Append(q, p[m + 1])
              /\ \A i \in 0..m : At(r, q, i) = At(r, p, i)
<1> DEFINE q == SubSeq(p, 1, m)
           n == Len(p)
<1>1. p \in Seq(Edges) /\ n \in Nat /\ m \in Nat /\ m < n  BY DEF Path
<1>2. q \in Seq(Edges) /\ Len(q) = m /\ \A i \in 1..m : q[i] = p[i]
  BY <1>1
<1>3. \A i \in 0..m : At(r, q, i) = At(r, p, i)
  BY <1>1, <1>2 DEF At
<1>4. SubSeq(p, 1, m + 1) = Append(q, p[m + 1])
  BY <1>1
<1> HIDE DEF q
<1>5. \A i \in 1..m : From(r, q[i]) = At(r, q, i - 1) /\ Applies(r, q[i])
  <2> TAKE i \in 1..m
  <2>1. i \in 1..n /\ i - 1 \in 0..m  BY <1>1
  <2> QED  BY <2>1, <1>2, <1>3 DEF Path
<1>6. \A i \in 1..m : GoesOn(r, At(r, q, i))
  <2> TAKE i \in 1..m
  <2>1. i \in 1..(n - 1) /\ i \in 0..m  BY <1>1
  <2> QED  BY <2>1, <1>3 DEF Path
<1>7. \A i \in 1..(m - 1) : i \in 1..m  BY <1>1
<1>8. \A i, j \in 0..m : At(r, q, i) = At(r, q, j) => i = j
  <2>1. \A i \in 0..m : i \in 0..n  BY <1>1
  <2> QED  BY <2>1, <1>3 DEF Path
<1>9. Path(r, q)  BY <1>2, <1>5, <1>6, <1>7, <1>8 DEF Path
<1>10. m # 0 => GoesOn(r, End(r, q))
  <2>1. m # 0 => m \in 1..m  BY <1>1
  <2> QED  BY <2>1, <1>2, <1>6 DEF End
<1>11. Leads(r, q, p[m + 1])
  <2>1. m + 1 \in 1..n /\ m + 1 - 1 = m /\ m \in 0..m  BY <1>1
  <2> QED  BY <2>1, <1>2, <1>3 DEF Path, Leads, End
<1>12. To(r, p[m + 1]) \notin On(r, q)
  <2>1. To(r, p[m + 1]) = At(r, p, m + 1)  BY <1>1 DEF At
  <2>2. SUFFICES ASSUME NEW i \in 0..m, At(r, p, i) = At(r, p, m + 1)
                 PROVE  FALSE
    BY <2>1, <1>2, <1>3 DEF On
  <2>3. i \in 0..n /\ m + 1 \in 0..n /\ i # m + 1  BY <1>1
  <2> QED  BY <2>2, <2>3 DEF Path
<1> QED  BY <1>2, <1>3, <1>4, <1>9, <1>10, <1>11, <1>12 DEF q

\* The nodes of a path are as many as its edges and one more just when no node
\* is there twice.
LEMMA NodesOfAPath ==
    ASSUME NEW r, NEW p \in Seq(Edges), r.start \in Nodes
    PROVE  /\ On(r, p) \subseteq Nodes
           /\ Cardinality(On(r, p)) = Len(p) + 1
                <=> \A i, j \in 0..Len(p) : At(r, p, i) = At(r, p, j) => i = j
           /\ (\A i, j \in 0..Len(p) : At(r, p, i) = At(r, p, j) => i = j)
                => Len(p) <= Cardinality(Nodes) - 1
<1> DEFINE n == Len(p)
           f == [i \in 0..n |-> At(r, p, i)]
           T == On(r, p)
<1>1. n \in Nat  OBVIOUS
<1>2. \A i \in 0..n : At(r, p, i) \in Nodes
  BY EdgeFacts DEF At
<1>3. T \subseteq Nodes  BY <1>2 DEF On
<1>4. f \in [0..n -> T]  BY DEF On
<1>5. f \in Surjection(0..n, T)  BY <1>4 DEF Surjection, On
<1>6. IsFiniteSet(0..n) /\ Cardinality(0..n) = n + 1
  BY FS_Interval, <1>1
<1>7. Cardinality(T) = n + 1 <=> f \in Injection(0..n, T)
  BY FS_Surjection, <1>5, <1>6
<1>8. f \in Injection(0..n, T)
        <=> \A i, j \in 0..n : At(r, p, i) = At(r, p, j) => i = j
  BY <1>4 DEF Injection, IsInjective
<1>9. Cardinality(T) <= Cardinality(Nodes)
  BY FS_Subset, EdgeFacts, <1>3
<1>10. Cardinality(Nodes) \in Nat  BY FS_CardinalityType, EdgeFacts
<1> QED  BY <1>1, <1>3, <1>7, <1>8, <1>9, <1>10

\* Followed(G) of the specification holds the paths over G: no path is longer
\* than the bound there.
LEMMA FollowedIsPath ==
    ASSUME NEW G \in SUBSET Edges, request.start \in Nodes, NEW p
    PROVE  p \in Followed(G) <=> p \in Seq(G) /\ Path(request, p)
<1> DEFINE N == Cardinality(Nodes) - 1
           Lengths == {<<>>} \cup UNION {[1..n -> G] : n \in 1..N}
           Plain(q) == \A i \in DOMAIN q :
                          /\ Behind(q[i]) = IF i = 1 THEN request.start ELSE Ahead(q[i - 1])
                          /\ TruthOf(q[i]) # "FALSE"
                          /\ i < Len(q) => CanExpand(Ahead(q[i]))
           Simple(q) == \A i, j \in 0..Len(q) :
                           At(request, q, i) = At(request, q, j) => i = j
<1>1. Cardinality(Nodes) \in Nat  BY FS_CardinalityType, EdgeFacts
<1>2. p \in Lengths => p \in Seq(G)
  <2>1. ASSUME NEW n \in 1..N, p \in [1..n -> G]  PROVE p \in Seq(G)
    BY <2>1, <1>1
  <2>2. <<>> \in Seq(G)  OBVIOUS
  <2> QED  BY <2>1, <2>2
<1>3. ASSUME p \in Seq(G)
      PROVE  /\ p \in Seq(Edges) /\ Len(p) \in Nat /\ DOMAIN p = 1..Len(p)
             /\ \A i \in 1..Len(p) : p[i] \in Edges
  BY <1>3
<1>4. ASSUME p \in Seq(G), Len(p) <= N  PROVE p \in Lengths
  <2>1. p = <<>> \/ Len(p) \in 1..N  BY <1>1, <1>4
  <2>2. p \in [1..Len(p) -> G]  BY <1>4
  <2> QED  BY <2>1, <2>2
<1>5. ASSUME p \in Seq(G)
      PROVE  Plain(p) <=> /\ \A i \in 1..Len(p) : /\ From(request, p[i]) = At(request, p, i - 1)
                                                  /\ Applies(request, p[i])
                          /\ \A i \in 1..(Len(p) - 1) : GoesOn(request, At(request, p, i))
  <2>1. \A i \in 1..Len(p) :
           /\ At(request, p, i) = Ahead(p[i])
           /\ At(request, p, i - 1) = IF i = 1 THEN request.start ELSE Ahead(p[i - 1])
    BY <1>5, <1>3, OfTheRequest DEF At
  <2>2. /\ \A e : /\ Behind(e) = From(request, e)
                  /\ Applies(request, e) <=> TruthOf(e) # "FALSE"
        /\ \A m : CanExpand(m) <=> GoesOn(request, m)
    BY <1>5, <1>3, OfTheRequest
  <2>3. \A i \in 1..Len(p) : i < Len(p) <=> i \in 1..(Len(p) - 1)
    BY <1>5, <1>3
  <2>4. \A i \in 1..(Len(p) - 1) : i \in 1..Len(p)
    BY <1>5, <1>3
  <2>5. \A i \in 1..Len(p) :
           /\ Behind(p[i]) = (IF i = 1 THEN request.start ELSE Ahead(p[i - 1]))
                 <=> From(request, p[i]) = At(request, p, i - 1)
           /\ TruthOf(p[i]) # "FALSE" <=> Applies(request, p[i])
           /\ (i < Len(p) => CanExpand(Ahead(p[i])))
                 <=> (i < Len(p) => GoesOn(request, At(request, p, i)))
    BY <2>1, <2>2
  <2>6. (\A i \in 1..Len(p) : i < Len(p) => GoesOn(request, At(request, p, i)))
           <=> \A i \in 1..(Len(p) - 1) : GoesOn(request, At(request, p, i))
    BY <2>3, <2>4
  <2>7. DOMAIN p = 1..Len(p)  BY <1>5, <1>3
  <2>8. Plain(p) <=> \A i \in 1..Len(p) :
                        /\ From(request, p[i]) = At(request, p, i - 1)
                        /\ Applies(request, p[i])
                        /\ i < Len(p) => GoesOn(request, At(request, p, i))
    BY <2>5, <2>7
  <2> QED  BY <2>6, <2>8
<1>6. ASSUME p \in Seq(G)
      PROVE  /\ Cardinality(NodesOf(p)) = Len(p) + 1 <=> Simple(p)
             /\ Simple(p) => Len(p) <= N
  BY <1>6, <1>3, NodesOfAPath, OfTheRequest
<1>7. p \in Followed(G) <=> p \in Lengths /\ Plain(p) /\ Cardinality(NodesOf(p)) = Len(p) + 1
  BY DEF Followed
<1>8. Path(request, p) <=>
        /\ p \in Seq(Edges)
        /\ \A i \in 1..Len(p) : /\ From(request, p[i]) = At(request, p, i - 1)
                                /\ Applies(request, p[i])
        /\ \A i \in 1..(Len(p) - 1) : GoesOn(request, At(request, p, i))
        /\ Simple(p)
  BY DEF Path
<1> HIDE DEF N, Lengths, Plain, Simple
<1> QED  BY <1>2, <1>3, <1>4, <1>5, <1>6, <1>7, <1>8

-----------------------------------------------------------------------------
(* A search that is through with every edge that leads on from its states  *)
(* has every path among them, and so every answer and every cycle.         *)

LEMMA SettledStates ==
    ASSUME NEW r, NEW S, NEW P, NEW c, NEW G \in SUBSET Edges,
           Through(r, G, S, P, c),
           NEW p \in Seq(G), Path(r, p)
    PROVE  \A m \in 0..Len(p) :
              (m = 0 \/ GoesOn(r, At(r, p, m))) => SubSeq(p, 1, m) \in S
<1> DEFINE n == Len(p)
           Bad == {m \in 0..n : /\ m = 0 \/ GoesOn(r, At(r, p, m))
                                /\ SubSeq(p, 1, m) \notin S}
<1>1. n \in Nat  OBVIOUS
<1> SUFFICES ASSUME Bad # {}  PROVE FALSE
  OBVIOUS
<1>2. PICK m \in Bad : \A k \in Bad : ~ (<<k, m>> \in OpToRel(<, Nat))
  <2>1. Bad \subseteq Nat  BY <1>1
  <2> HIDE DEF Bad
  <2> QED  BY <2>1, WFMin, NatLessThanWellFounded
<1>3. m \in 0..n /\ SubSeq(p, 1, m) \notin S /\ (m = 0 \/ GoesOn(r, At(r, p, m)))
  OBVIOUS
<1>4. m # 0
  <2>1. SubSeq(p, 1, 0) = <<>>  OBVIOUS
  <2> QED  BY <2>1, <1>3 DEF Through
<1> DEFINE k == m - 1
           q == SubSeq(p, 1, k)
<1>5. k \in 0..(n - 1) /\ k + 1 = m /\ k \in Nat /\ m \in Nat /\ k < m /\ k \in 0..n
  BY <1>1, <1>3, <1>4
<1>6. k \notin Bad
  <2>1. <<k, m>> \in OpToRel(<, Nat)  BY <1>5 DEF OpToRel
  <2> QED  BY <2>1, <1>2
<1>7. /\ k # 0 => GoesOn(r, End(r, q))
      /\ Leads(r, q, p[m])
      /\ To(r, p[m]) \notin On(r, q)
      /\ SubSeq(p, 1, m) = Append(q, p[m])
      /\ Len(q) = k
      /\ \A i \in 0..k : At(r, q, i) = At(r, p, i)
  BY <1>5, PathPrefix
<1>8. q \in S
  <2>1. k # 0 => GoesOn(r, At(r, p, k))
    <3>1. k \in 0..k  BY <1>5
    <3> QED  BY <3>1, <1>7 DEF End
  <2> QED  BY <2>1, <1>5, <1>6
<1>9. p[m] \in G  BY <1>3, <1>4, <1>1
<1>10. GoesOn(r, To(r, p[m]))
  BY <1>3, <1>4 DEF At
<1> HIDE DEF q, k, Bad
<1> QED  BY <1>3, <1>7, <1>8, <1>9, <1>10 DEF Through, Settled

LEMMA SettledIsComplete ==
    ASSUME NEW r, NEW S, NEW P, NEW c, NEW G \in SUBSET Edges,
           Through(r, G, S, P, c),
           NEW p \in Seq(G), Path(r, p)
    PROVE  /\ p # <<>> /\ Ends(r, End(r, p)) => p \in P
           /\ \A e \in G :
                  GoesOn(r, End(r, p)) /\ Leads(r, p, e) /\ To(r, e) \in On(r, p)
                      => c
<1> DEFINE n == Len(p)
<1>1. n \in Nat  OBVIOUS
<1>2. \A m \in 0..n : (m = 0 \/ GoesOn(r, At(r, p, m))) => SubSeq(p, 1, m) \in S
  BY SettledStates
<1>3. ASSUME p # <<>>, Ends(r, End(r, p))  PROVE p \in P
  <2>0. PICK k \in 0..(Len(p) - 1) : k + 1 = n
    <3>1. n - 1 \in 0..(Len(p) - 1) /\ (n - 1) + 1 = n  BY <1>1, <1>3
    <3> QED  BY <3>1, ZenonT(60)
  <2> DEFINE q == SubSeq(p, 1, k)
  <2>1. n # 0 /\ k \in 0..n /\ n \in 1..n
    BY <1>1, <1>3, <2>0
  <2>2. /\ k # 0 => GoesOn(r, End(r, q))
        /\ Leads(r, q, p[n])
        /\ To(r, p[n]) \notin On(r, q)
        /\ SubSeq(p, 1, n) = Append(q, p[n])
        /\ Len(q) = k
        /\ \A i \in 0..k : At(r, q, i) = At(r, p, i)
    <3>1. /\ k # 0 => GoesOn(r, End(r, q))
          /\ Leads(r, q, p[k + 1])
          /\ To(r, p[k + 1]) \notin On(r, q)
          /\ SubSeq(p, 1, k + 1) = Append(q, p[k + 1])
          /\ Len(q) = k
          /\ \A i \in 0..k : At(r, q, i) = At(r, p, i)
      BY PathPrefix
    <3> HIDE DEF q
    <3> QED  BY <3>1, <2>0
  <2>3. k \in 0..k  BY <2>0
  <2>4. q \in S  BY <2>1, <2>2, <2>3, <1>2 DEF End
  <2>5. p[n] \in G  BY <2>1
  <2>6. SubSeq(p, 1, n) = p  OBVIOUS
  <2>7. End(r, p) = To(r, p[n])  BY <2>1 DEF End, At
  <2> HIDE DEF q, n
  <2> QED  BY <2>2, <2>4, <2>5, <2>6, <2>7, <1>3 DEF Through, Settled
<1>4. ASSUME NEW e \in G, GoesOn(r, End(r, p)), Leads(r, p, e), To(r, e) \in On(r, p)
      PROVE  c
  <2>1. SubSeq(p, 1, n) = p /\ n \in 0..n  BY <1>1
  <2>2. p \in S  BY <2>1, <1>2, <1>4 DEF End
  <2> QED  BY <2>2, <1>4 DEF Through, Settled
<1> QED  BY <1>3, <1>4

-----------------------------------------------------------------------------
(* The invariant.                                                          *)

\* The row of the query for the edge e that leads on from p.
RowOf(r, p, e) == [steps |-> Append(p, e), cycle |-> To(r, e) \in On(r, p)]

\* The edges a trace may list: those of its query or of its levels.
Found == IF request.context = <<>> THEN snapshot ELSE ever

Phases == {"Idle", "Load", "Expand", "Query", "Walk", "Done", "Failed"}
Results == [paths : SUBSET Seq(Edges), listed : Nat,
            cycleDetected : BOOLEAN, truncated : BOOLEAN]

GraphInv ==
    /\ effective \in SUBSET Edges /\ IsGraph(effective)
    /\ snapshot \in SUBSET Edges /\ IsGraph(snapshot)
    /\ ever \in SUBSET Edges /\ always \in SUBSET ever /\ snapshot \in SUBSET ever
    /\ UnderWay => always \subseteq effective /\ effective \subseteq ever

PhaseInv ==
    /\ phase \in Phases
    /\ phase = "Idle" => /\ request = Absent
                         /\ pending = {} /\ depth = 0 /\ walk = {} /\ snapshot = {}
                         /\ result.paths = {} /\ result.truncated = FALSE
    /\ phase # "Idle" => request \in TraceRequests /\ ValidRequest(request)
    /\ phase \in {"Load", "Expand"} => request.context # <<>>
    /\ phase \in {"Query", "Walk"} => request.context = <<>>

\* What may be extended is a path that goes on, and what is listed an answer.
PathsInv ==
    /\ result \in Results
    /\ IsFiniteSet(result.paths) /\ result.listed = Cardinality(result.paths)
    /\ phase # "Idle" =>
          /\ <<>> \in states
          /\ \A p \in states :
                /\ p \in Seq(Found) /\ Path(request, p)
                /\ p # <<>> => GoesOn(request, End(request, p))
          /\ \A p \in result.paths :
                /\ p \in Seq(Found) /\ Path(request, p)
                /\ p # <<>> /\ Len(p) <= request.depth
                /\ Ends(request, End(request, p))

\* A level extends the paths of its length by the edges that are pending.
LevelInv ==
    /\ depth \in Nat
    /\ phase = "Load" =>
          /\ depth < request.depth /\ pending = {}
          /\ \A p \in states \cup result.paths : Len(p) <= depth
          /\ ~ result.truncated =>
                \A p \in states : \A e \in always :
                    Len(p) < depth => Settled(request, p, e, states, result.paths,
                                              result.cycleDetected)
    /\ phase = "Expand" =>
          /\ depth < request.depth
          /\ \A p \in states \cup result.paths : Len(p) <= depth + 1
          /\ pending \in SUBSET (states \X ever)
          /\ \A pe \in pending :
                /\ Len(pe[1]) = depth
                /\ From(request, pe[2]) = End(request, pe[1])
                /\ Append(pe[1], pe[2]) \notin result.paths
          /\ ~ result.truncated /\ ~ cut =>
                \A p \in states : \A e \in always :
                    Len(p) <= depth /\ <<p, e>> \notin pending
                        => Settled(request, p, e, states, result.paths,
                                   result.cycleDetected)

\* The rows of the query are those of the edges that lead on from rows that
\* were extracted, each once; an edge of a known path is in the query or settled.
WalkInv ==
    /\ phase = "Query" =>
          /\ states = {<<>>} /\ keys = {<<>>} /\ result.paths = {}
    /\ phase = "Walk" =>
          /\ always \subseteq snapshot
          /\ <<>> \in keys
          /\ \A k \in keys : k \in Seq(Nat) /\ (k # <<>> => Parent(k) \in keys)
          /\ \A p \in states \cup result.paths : Key(p) \in keys /\ Len(p) <= request.depth
          /\ \A row \in walk : \E p \in Seq(snapshot), e \in snapshot :
                /\ row = RowOf(request, p, e)
                /\ From(request, e) = End(request, p)
                /\ Len(p) < request.depth
                /\ Key(p) \in keys /\ Key(Append(p, e)) \notin keys
          /\ ~ result.truncated =>
                /\ \A p \in states : Len(p) < request.depth
                /\ \A p \in states : \A e \in snapshot :
                      /\ From(request, e) = End(request, p)
                            => \/ Key(Append(p, e)) \in keys
                               \/ RowOf(request, p, e) \in walk
                      /\ Key(Append(p, e)) \in keys
                            => Settled(request, p, e, states, result.paths,
                                       result.cycleDetected)

\* A search that ends and tells of no limit is through with every edge that
\* was there all along.
DoneInv ==
    phase = "Done" /\ ~ result.truncated =>
        \A p \in states : \A e \in always :
            Settled(request, p, e, states, result.paths, result.cycleDetected)

TraceInv == GraphInv /\ PhaseInv /\ PathsInv /\ LevelInv /\ WalkInv /\ DoneInv

-----------------------------------------------------------------------------
(* Sequences, keys and rows.                                               *)

LEMMA SeqGrows ==
    ASSUME NEW A, NEW B, A \subseteq B
    PROVE  Seq(A) \subseteq Seq(B)
OBVIOUS

LEMMA AppendIsInjective ==
    ASSUME NEW p \in Seq(Edges), NEW q \in Seq(Edges), NEW e, NEW f,
           e \in Edges, f \in Edges, Append(p, e) = Append(q, f)
    PROVE  p = q /\ e = f
<1>1. Len(Append(p, e)) = Len(p) + 1 /\ Len(Append(q, f)) = Len(q) + 1
  OBVIOUS
<1>2. Len(p) = Len(q)  BY <1>1
<1>3. Append(p, e)[Len(p) + 1] = e /\ Append(q, f)[Len(q) + 1] = f
  OBVIOUS
<1>4. \A i \in 1..Len(p) : Append(p, e)[i] = p[i] /\ Append(q, f)[i] = q[i]
  BY <1>2
<1>5. \A i \in 1..Len(p) : p[i] = q[i]  BY <1>4
<1> QED  BY <1>2, <1>3, <1>5

LEMMA KeyFacts ==
    /\ Key(<<>>) = <<>>
    /\ \A p \in Seq(Edges) : Key(p) \in Seq(Nat) /\ Len(Key(p)) = Len(p)
    /\ \A p \in Seq(Edges) : \A e \in Edges : Key(Append(p, e)) = Append(Key(p), e.relation)
    /\ \A k \in Seq(Nat) : \A n \in Nat :
          Parent(Append(k, n)) = k /\ Append(k, n) # <<>> /\ Append(k, n) # k
    /\ \A p \in Seq(Edges) : \A e \in Edges :
          /\ Last(Append(p, e)) = e /\ Append(p, e) \in Seq(Edges)
          /\ Len(Append(p, e)) = Len(p) + 1 /\ Append(p, e) # <<>>
<1>1. \A p \in Seq(Edges) : Key(p) \in Seq(Nat) /\ Len(Key(p)) = Len(p)
  <2> TAKE p \in Seq(Edges)
  <2>1. DOMAIN p = 1..Len(p) /\ Len(p) \in Nat /\ \A i \in 1..Len(p) : p[i].relation \in Nat
    BY EdgeFacts
  <2>2. Key(p) \in [1..Len(p) -> Nat]  BY <2>1 DEF Key
  <2> QED  BY <2>1, <2>2
<1>2. Key(<<>>) = <<>>
  <2>1. <<>> \in Seq(Edges) /\ Len(<<>>) = 0  OBVIOUS
  <2>2. Key(<<>>) \in Seq(Nat) /\ Len(Key(<<>>)) = 0  BY <1>1, <2>1
  <2>3. \A k \in Seq(Nat) : Len(k) = 0 => k = <<>>  OBVIOUS
  <2> QED  BY <2>2, <2>3
<1>3. \A p \in Seq(Edges) : \A e \in Edges : Key(Append(p, e)) = Append(Key(p), e.relation)
  <2> TAKE p \in Seq(Edges)
  <2> TAKE e \in Edges
  <2> DEFINE q == Append(p, e)
             k == Append(Key(p), e.relation)
  <2>1. q \in Seq(Edges) /\ Len(q) = Len(p) + 1 /\ DOMAIN q = 1..(Len(p) + 1)
        /\ Len(p) \in Nat /\ DOMAIN p = 1..Len(p) /\ e.relation \in Nat
    BY EdgeFacts
  <2>2. k \in Seq(Nat) /\ Len(k) = Len(p) + 1
    BY <1>1, <2>1
  <2>3. \A i \in 1..(Len(p) + 1) : Key(q)[i] = k[i]
    <3> TAKE i \in 1..(Len(p) + 1)
    <3>1. Key(q)[i] = q[i].relation  BY <2>1 DEF Key
    <3>2. CASE i \in 1..Len(p)
      <4>1. q[i] = p[i] /\ Key(p)[i] = p[i].relation  BY <3>2, <2>1 DEF Key
      <4>2. k[i] = Key(p)[i]  BY <3>2, <1>1, <2>1
      <4> QED  BY <3>1, <4>1, <4>2
    <3>3. CASE i = Len(p) + 1
      <4>1. q[i] = e  BY <3>3, <2>1
      <4>2. k[i] = e.relation  BY <3>3, <1>1, <2>1
      <4> QED  BY <3>1, <4>1, <4>2
    <3>4. i \in 1..Len(p) \/ i = Len(p) + 1  BY <2>1
    <3> HIDE DEF q, k
    <3> QED  BY <3>2, <3>3, <3>4
  <2>4. Key(q) \in Seq(Nat) /\ Len(Key(q)) = Len(p) + 1  BY <1>1, <2>1, Zenon
  <2> HIDE DEF q, k
  <2>5. Key(q) = k  BY <2>2, <2>3, <2>4
  <2> QED  BY <2>5 DEF q, k
<1>4. \A k \in Seq(Nat) : \A n \in Nat :
         Parent(Append(k, n)) = k /\ Append(k, n) # <<>> /\ Append(k, n) # k
  <2> TAKE k \in Seq(Nat)
  <2> TAKE n \in Nat
  <2>1. Len(Append(k, n)) = Len(k) + 1 /\ Append(k, n) \in Seq(Nat) /\ Len(k) \in Nat
    OBVIOUS
  <2>2. (Len(k) + 1) - 1 = Len(k)  BY <2>1
  <2>3. SubSeq(Append(k, n), 1, Len(k)) = k  OBVIOUS
  <2>4. Len(k) + 1 # Len(k) /\ Len(k) + 1 # 0  BY <2>1
  <2> QED  BY <2>1, <2>2, <2>3, <2>4, Zenon DEF Parent
<1>5. \A p \in Seq(Edges) : \A e \in Edges :
          /\ Last(Append(p, e)) = e /\ Append(p, e) \in Seq(Edges)
          /\ Len(Append(p, e)) = Len(p) + 1 /\ Append(p, e) # <<>>
  BY DEF Last
<1> QED  BY <1>1, <1>2, <1>3, <1>4, <1>5

\* The relations of a path tell its edges, since a relation has one.
LEMMA KeyIsInjective ==
    ASSUME NEW G \in SUBSET Edges, IsGraph(G),
           NEW p \in Seq(G), NEW q \in Seq(G), Key(p) = Key(q)
    PROVE  p = q
<1>1. p \in Seq(Edges) /\ q \in Seq(Edges)  BY SeqGrows
<1>2. Len(p) = Len(q) /\ Len(p) \in Nat  BY <1>1, KeyFacts
<1>3. \A i \in 1..Len(p) : p[i] \in G /\ q[i] \in G /\ p[i].relation = q[i].relation
  <2> TAKE i \in 1..Len(p)
  <2>1. p[i] \in G /\ q[i] \in G  BY <1>2
  <2>2. i \in DOMAIN p /\ i \in DOMAIN q  BY <1>2
  <2>3. Key(p)[i] = p[i].relation /\ Key(q)[i] = q[i].relation  BY <2>2 DEF Key
  <2> QED  BY <2>1, <2>3
<1>4. \A i \in 1..Len(p) : p[i] = q[i]  BY <1>3 DEF IsGraph
<1> QED  BY <1>2, <1>4

LEMMA RowFacts ==
    ASSUME NEW p \in Seq(Edges)
    PROVE  /\ \A e : QueryRow(p, e) = RowOf(request, p, e)
           /\ \A G : RowsFrom(p, G) = {RowOf(request, p, e) :
                          e \in {f \in G : From(request, f) = End(request, p)}}
<1>1. \A e : QueryRow(p, e) = RowOf(request, p, e)
  BY OfTheRequest DEF QueryRow, RowOf, RowCycle
<1>2. \A e : Behind(e) = From(request, e)  BY OfTheRequest
<1>3. Current(p) = End(request, p)  BY OfTheRequest
<1> QED  BY <1>1, <1>2, <1>3 DEF RowsFrom

LEMMA EmptyPath ==
    ASSUME NEW r
    PROVE  Path(r, <<>>) /\ End(r, <<>>) = r.start
BY DEF Path, End, At

\* What is settled stays so while states and answers are added.
LEMMA SettledStays ==
    ASSUME NEW r, NEW p, NEW e, NEW S, NEW P, NEW c, NEW S2, NEW P2, NEW c2,
           S \subseteq S2, P \subseteq P2, c => c2, Settled(r, p, e, S, P, c)
    PROVE  Settled(r, p, e, S2, P2, c2)
BY DEF Settled

-----------------------------------------------------------------------------
(* What becomes of an edge that leads on from a path, in both ways.        *)

\* r and q stand for the request and the extended path.
Considered(r, p, e, q) ==
    /\ result' \in Results
    /\ IsFiniteSet(result'.paths) /\ result'.listed = Cardinality(result'.paths)
    /\ phase' \in {phase, "Done", "Failed"}
    /\ states \subseteq states' /\ result.paths \subseteq result'.paths
    /\ result.cycleDetected => result'.cycleDetected
    /\ result.truncated => result'.truncated
    /\ \A x \in states' : \/ x \in states
                          \/ /\ x = q /\ Path(r, q) /\ GoesOn(r, End(r, q))
                             /\ To(r, e) \notin On(r, p)
                             /\ (Recursive /\ ~ result'.truncated) => Len(q) # r.depth
    /\ \A x \in result'.paths : x \in result.paths
                                \/ (x = q /\ Path(r, q) /\ Ends(r, End(r, q)))
    /\ phase' = "Done" => result'.truncated
    /\ phase' # "Failed" /\ ~ result'.truncated
          => Settled(r, p, e, states', result'.paths, result'.cycleDetected)
    /\ phase' = "Failed" => TruthOf(e) = "ERROR"

LEMMA EdgeIsConsidered ==
    ASSUME PathsInv, phase # "Idle", phase # "Failed", phase # "Done",
           NEW p \in states, NEW e \in Edges, NEW loaded,
           From(request, e) = End(request, p),
           Append(p, e) \notin result.paths,
           Consider(p, e, loaded)
    PROVE  Considered(request, p, e, Append(p, e))
<1> DEFINE q == Append(p, e)
           r == request
<1>1. /\ p \in Seq(Edges) /\ Path(r, p) /\ (p # <<>> => GoesOn(r, End(r, p)))
      /\ result \in Results
      /\ IsFiniteSet(result.paths) /\ result.listed = Cardinality(result.paths)
  BY DEF PathsInv, Path
<1>2. /\ Ahead(e) = To(r, e)
      /\ PathContains(p, Ahead(e)) <=> To(r, e) \in On(r, p)
      /\ AtTarget(Ahead(e)) <=> Ends(r, To(r, e))
      /\ CanExpand(Ahead(e)) <=> GoesOn(r, To(r, e))
      /\ Applies(r, e) <=> TruthOf(e) # "FALSE"
  BY <1>1, OfTheRequest
<1>3. q \in Seq(Edges) /\ Len(q) = Len(p) + 1  BY <1>1, KeyFacts
<1>4. /\ Truncated \in Results /\ Truncated.truncated = TRUE
      /\ Truncated.paths = result.paths /\ Truncated.listed = result.listed
      /\ Truncated.cycleDetected = result.cycleDetected
  BY <1>1 DEF Truncated, Results
<1>5. CASE Pass(p, e, loaded)
  <2>1. phase' = phase /\ states' = states  BY <1>5 DEF Pass
  <2>2. CASE TruthOf(e) = "FALSE" /\ result' = result
    <3>1. ~ Leads(r, p, e)  BY <2>2, <1>2 DEF Leads
    <3> QED  BY <3>1, <2>1, <2>2, <1>1 DEF Considered, Settled
  <2>3. CASE /\ PathContains(p, Ahead(e))
             /\ result' = [result EXCEPT !.cycleDetected = TRUE]
    <3>1. /\ result' \in Results /\ result'.cycleDetected
          /\ result'.paths = result.paths /\ result'.listed = result.listed
          /\ result'.truncated = result.truncated
      BY <2>3, <1>1 DEF Results
    <3>2. To(r, e) \in On(r, p)  BY <2>3, <1>2
    <3> HIDE DEF q, r
    <3>3. Settled(r, p, e, states', result'.paths, result'.cycleDetected)
      BY <3>1, <3>2 DEF Settled
    <3> QED  BY <3>1, <3>3, <2>1, <1>1 DEF Considered, q, r
  <2> QED  BY <2>2, <2>3, <1>5 DEF Pass
<1>6. CASE LeaveOut(p, e, loaded)
  <2>1. phase' = phase /\ states' = states /\ result' = Truncated
    BY <1>6 DEF LeaveOut
  <2> QED  BY <2>1, <1>1, <1>4 DEF Considered
<1>7. CASE StopAt(p, e, loaded)
  <2>1. phase' = "Done" /\ states' = states /\ result' = Truncated
    BY <1>7 DEF StopAt, Stop
  <2> QED  BY <2>1, <1>1, <1>4 DEF Considered
<1>8. CASE Extend(p, e, loaded)
  <2> DEFINE n == To(r, e)
             full == GoesOn(r, n) /\ FrontierFull(q)
  <2>1. /\ LeadsOn(p, e)
        /\ states' = IF GoesOn(r, n) /\ ~ full THEN states \cup {q} ELSE states
        /\ result' = [paths  |-> IF Ends(r, n) THEN result.paths \cup {q} ELSE result.paths,
                      listed |-> IF Ends(r, n) THEN result.listed + 1 ELSE result.listed,
                      cycleDetected |-> result.cycleDetected,
                      truncated |-> \/ result.truncated \/ full
                                    \/ Recursive /\ GoesOn(r, n) /\ LeftAtDepth(Len(q))]
        /\ phase' = IF full THEN "Done" ELSE phase
    BY <1>8, <1>2 DEF Extend
  <2>2. Leads(r, p, e) /\ n \notin On(r, p)
    BY <2>1, <1>2 DEF LeadsOn, Leads
  <2>3. Path(r, q) /\ End(r, q) = n
    BY <2>2, <1>1, PathAppend
  <2>4. /\ result'.paths = IF Ends(r, n) THEN result.paths \cup {q} ELSE result.paths
        /\ result'.listed = IF Ends(r, n) THEN result.listed + 1 ELSE result.listed
        /\ result'.cycleDetected = result.cycleDetected
        /\ result'.truncated <=> \/ result.truncated \/ full
                                 \/ Recursive /\ GoesOn(r, n) /\ LeftAtDepth(Len(q))
    BY <2>1
  <2>5. IsFiniteSet(result'.paths) /\ result'.listed = Cardinality(result'.paths)
    <3>1. /\ IsFiniteSet(result.paths \cup {q})
          /\ Cardinality(result.paths \cup {q}) = Cardinality(result.paths) + 1
      BY <1>1, FS_AddElement
    <3> HIDE DEF q, r, n
    <3> QED  BY <3>1, <2>4, <1>1
  <2>6. result' \in Results
    <3>1. /\ full \in BOOLEAN /\ Recursive \in BOOLEAN
          /\ LeftAtDepth(Len(q)) \in BOOLEAN /\ GoesOn(r, n) \in BOOLEAN
          /\ result.truncated \in BOOLEAN /\ result.cycleDetected \in BOOLEAN
          /\ result.paths \in SUBSET Seq(Edges) /\ result.listed \in Nat
      BY <1>1 DEF Recursive, LeftAtDepth, GoesOn, Results
    <3>2. result'.paths \in SUBSET Seq(Edges) /\ result'.listed \in Nat
      BY <3>1, <2>4, <1>3
    <3> QED  BY <3>1, <3>2, <2>1 DEF Results
  <2>7. \A x \in states' :
           \/ x \in states
           \/ /\ x = q /\ GoesOn(r, n)
              /\ (Recursive /\ ~ result'.truncated) => Len(q) # r.depth
    BY <2>1, <2>4 DEF LeftAtDepth
  <2>8. ~ result'.truncated => Settled(r, p, e, states', result'.paths, result'.cycleDetected)
    BY <2>1, <2>2, <2>4 DEF Settled
  <2>9. phase' = "Done" => result'.truncated
    BY <2>1, <2>4
  <2> HIDE DEF q, r, n, full
  <2>10. states \subseteq states' /\ phase' \in {phase, "Done"}  BY <2>1
  <2> QED
    BY <2>2, <2>3, <2>4, <2>5, <2>6, <2>7, <2>8, <2>9, <2>10 DEF Considered, q, r, n
<1>9. CASE TruthOf(e) = "ERROR" /\ Fail
  <2>1. phase' = "Failed" /\ states' = states /\ result' = result  BY <1>9 DEF Fail
  <2> QED  BY <2>1, <1>9, <1>1 DEF Considered
<1> QED  BY <1>5, <1>6, <1>7, <1>8, <1>9 DEF Consider

-----------------------------------------------------------------------------
(* Each action keeps the invariant.                                        *)

LEMMA InitHolds == TraceInit => TraceInv
<1> SUFFICES ASSUME TraceInit  PROVE TraceInv
  OBVIOUS
<1>1. effective \in SUBSET Edges /\ IsGraph(effective)
  BY GraphAssumption DEF TraceInit, GraphAssumption, IsGraph
<1>2. GraphInv  BY <1>1 DEF TraceInit, GraphInv, IsGraph, UnderWay
<1>3. PhaseInv  BY DEF TraceInit, PhaseInv, Phases
<1>4. PathsInv
  <2>1. IsFiniteSet({}) /\ Cardinality({}) = 0  BY FS_EmptySet
  <2> QED  BY <2>1 DEF TraceInit, PathsInv, Results
<1>5. LevelInv /\ WalkInv /\ DoneInv  BY DEF TraceInit, LevelInv, WalkInv, DoneInv
<1> QED  BY <1>2, <1>3, <1>4, <1>5 DEF TraceInv

\* Approvals and suppressions: the edges that were there all along get fewer,
\* those that were there at some time more.
LEMMA ChangeToKeeps ==
    ASSUME TraceInv, NEW G \in SUBSET Edges, IsGraph(G), ChangeTo(G)
    PROVE  TraceInv'
<1>1. /\ effective' = G
      /\ phase' = phase /\ request' = request
      /\ pending' = pending /\ cut' = cut /\ depth' = depth
      /\ walk' = walk /\ snapshot' = snapshot /\ keys' = keys
      /\ states' = states /\ result' = result
      /\ always' = IF UnderWay THEN always \cap G ELSE always
      /\ ever' = IF UnderWay THEN ever \cup G ELSE ever
  BY DEF ChangeTo, searchVars, walkVars, foundVars
<1>2. always' \subseteq always /\ ever \subseteq ever'
  BY <1>1
<1>3. GraphInv'
  BY <1>1 DEF TraceInv, GraphInv, UnderWay
<1>4. PhaseInv'  BY <1>1 DEF TraceInv, PhaseInv
<1>5. PathsInv'
  <2>1. Seq(Found) \subseteq Seq(Found')
    <3>1. Found \subseteq Found'  BY <1>1, <1>2 DEF Found
    <3> QED  BY <3>1, SeqGrows
  <2>2. \A p : p \in Seq(Found) => p \in Seq(Found')  BY <2>1
  <2>3. (phase # "Idle" =>
          /\ <<>> \in states
          /\ \A p \in states :
                /\ p \in Seq(Found) /\ Path(request, p)
                /\ p # <<>> => GoesOn(request, End(request, p))
          /\ \A p \in result.paths :
                /\ p \in Seq(Found) /\ Path(request, p)
                /\ p # <<>> /\ Len(p) <= request.depth
                /\ Ends(request, End(request, p)))'
    <3> SUFFICES ASSUME phase # "Idle"
                 PROVE  /\ <<>> \in states
                        /\ \A p \in states :
                              /\ p \in Seq(Found') /\ Path(request, p)
                              /\ p # <<>> => GoesOn(request, End(request, p))
                        /\ \A p \in result.paths :
                              /\ p \in Seq(Found') /\ Path(request, p)
                              /\ p # <<>> /\ Len(p) <= request.depth
                              /\ Ends(request, End(request, p))
      BY <1>1
    <3> QED  BY <2>2 DEF TraceInv, PathsInv
  <2> QED  BY <2>3, <1>1 DEF TraceInv, PathsInv
<1>6. LevelInv'
  <2>1. pending \in SUBSET (states \X ever) => pending \in SUBSET (states \X ever')
    BY <1>2
  <2> QED  BY <2>1, <1>1, <1>2 DEF TraceInv, LevelInv
<1>7. WalkInv'
  <2>1. always \subseteq snapshot => always' \subseteq snapshot  BY <1>2
  <2> QED  BY <2>1, <1>1 DEF TraceInv, WalkInv
<1>8. DoneInv'  BY <1>1, <1>2 DEF TraceInv, DoneInv
<1> QED  BY <1>3, <1>4, <1>5, <1>6, <1>7, <1>8 DEF TraceInv

LEMMA PublishEdgeKeeps ==
    ASSUME TraceInv, NEW e \in Edges, PublishEdge(e)
    PROVE  TraceInv'
<1> DEFINE G == {f \in effective : f.relation # e.relation} \cup {e}
<1>1. effective \in SUBSET Edges /\ IsGraph(effective)  BY DEF TraceInv, GraphInv
<1>2. G \in SUBSET Edges /\ IsGraph(G)  BY <1>1 DEF IsGraph
<1>3. ChangeTo(G)  BY DEF PublishEdge
<1> HIDE DEF G
<1> QED  BY <1>2, <1>3, ChangeToKeeps

LEMMA RemoveEdgeKeeps ==
    ASSUME TraceInv, NEW e \in Edges, RemoveEdge(e)
    PROVE  TraceInv'
<1> DEFINE G == effective \ {e}
<1>1. effective \in SUBSET Edges /\ IsGraph(effective)  BY DEF TraceInv, GraphInv
<1>2. G \in SUBSET Edges /\ IsGraph(G)  BY <1>1 DEF IsGraph
<1>3. ChangeTo(G)  BY DEF RemoveEdge
<1> HIDE DEF G
<1> QED  BY <1>2, <1>3, ChangeToKeeps

LEMMA ReconcileEdgesKeeps ==
    ASSUME TraceInv, NEW D \in DeclaredGraphs, ReconcileEdges(D)
    PROVE  TraceInv'
<1> DEFINE G == (effective \ DeclaredIn(effective)) \cup D
<1>1. effective \in SUBSET Edges /\ IsGraph(effective)  BY DEF TraceInv, GraphInv
<1>2. D \in SUBSET Edges /\ IsGraph(D) /\ \A e \in D : e.relation \in Declared
  BY DEF DeclaredGraphs, DeclaredIn, IsGraph
<1>3. \A e \in effective \ DeclaredIn(effective) : e.relation \notin Declared
  BY DEF DeclaredIn
<1>4. G \in SUBSET Edges /\ IsGraph(G)  BY <1>1, <1>2, <1>3 DEF IsGraph
<1>5. ChangeTo(G)  BY DEF ReconcileEdges
<1> HIDE DEF G
<1> QED  BY <1>4, <1>5, ChangeToKeeps

LEMMA ValidDepth == \A r : ValidRequest(r) => r.depth \in 1..64
<1> SUFFICES ASSUME NEW r, ValidRequest(r)  PROVE r.depth \in 1..64
  OBVIOUS
<1> QED  BY DEF ValidRequest

LEMMA TraceKeeps ==
    ASSUME TraceInv, NEW r \in TraceRequests, Trace(r)
    PROVE  TraceInv'
<1>1. /\ phase = "Idle" /\ ValidRequest(r) /\ request' = r
      /\ phase' = IF r.context = <<>> THEN "Query" ELSE "Load"
      /\ states' = {<<>>} /\ keys' = {<<>>}
      /\ always' = effective /\ ever' = effective /\ effective' = effective
      /\ pending' = pending /\ cut' = cut /\ depth' = depth
      /\ walk' = walk /\ snapshot' = snapshot /\ result' = result
  BY DEF Trace, graphVars, searchVars
<1>2. /\ pending = {} /\ depth = 0 /\ walk = {} /\ snapshot = {}
      /\ result.paths = {} /\ result.truncated = FALSE
  BY <1>1 DEF TraceInv, PhaseInv
<1>3. GraphInv'  BY <1>1, <1>2 DEF TraceInv, GraphInv
<1>4. PhaseInv'  BY <1>1 DEF PhaseInv, Phases
<1>5. PathsInv'
  <2>1. <<>> \in Seq(Found') /\ Path(r, <<>>)  BY EmptyPath
  <2> QED  BY <2>1, <1>1, <1>2 DEF TraceInv, PathsInv
<1>6. LevelInv'
  <2>1. r.depth \in 1..64  BY <1>1, ValidDepth, Zenon
  <2>2. 0 < r.depth /\ 0 \in Nat /\ Len(<<>>) = 0  BY <2>1
  <2>3. \A p \in states' \cup result'.paths : Len(p) = 0  BY <1>1, <1>2, <2>2
  <2> QED  BY <2>2, <2>3, <1>1, <1>2, SMTT(30) DEF LevelInv
<1>7. WalkInv'  BY <1>1, <1>2 DEF WalkInv
<1>8. DoneInv'  BY <1>1 DEF DoneInv
<1> QED  BY <1>3, <1>4, <1>5, <1>6, <1>7, <1>8 DEF TraceInv

\* A trace that stops tells of it, and keeps what it found.
LEMMA StopKeeps ==
    ASSUME TraceInv, phase # "Idle", Stop, request' = request, snapshot' = snapshot,
           depth' = depth, effective' = effective, always' = always, ever' = ever
    PROVE  TraceInv'
<1>1. /\ phase' = "Done" /\ states' = states /\ result' = Truncated
  BY DEF Stop
<1>2. /\ Truncated \in Results /\ Truncated.truncated = TRUE
      /\ Truncated.paths = result.paths /\ Truncated.listed = result.listed
  BY DEF Truncated, Results, TraceInv, PathsInv
<1>3. GraphInv'  BY <1>1 DEF TraceInv, GraphInv, UnderWay
<1>4. PhaseInv'  BY <1>1 DEF TraceInv, PhaseInv, Phases
<1>5. PathsInv'
  <2>1. Found' = Found  BY DEF Found
  <2> QED  BY <2>1, <1>1, <1>2 DEF TraceInv, PathsInv
<1>6. LevelInv' /\ WalkInv' /\ DoneInv'
  BY <1>1, <1>2 DEF TraceInv, LevelInv, WalkInv, DoneInv
<1> QED  BY <1>3, <1>4, <1>5, <1>6 DEF TraceInv

LEMMA LoadEdgesKeeps ==
    ASSUME TraceInv, LoadEdges
    PROVE  TraceInv'
<1>1. PICK rows \in SUBSET Leaving(effective) :
         /\ cut' = (rows # Leaving(effective) \/ spent.expansions >= request.most.expansions)
         /\ pending' = {pe \in Frontier \X rows : Current(pe[1]) = Behind(pe[2])}
  BY DEF LoadEdges
<1>2. /\ phase = "Load" /\ phase' = "Expand"
      /\ effective' = effective /\ request' = request /\ depth' = depth
      /\ walk' = walk /\ snapshot' = snapshot /\ keys' = keys
      /\ states' = states /\ result' = result /\ always' = always /\ ever' = ever
  BY DEF LoadEdges, graphVars, walkVars
<1>3. \A p \in states : /\ p \in Seq(Edges)
                        /\ Current(p) = End(request, p)
                        /\ \A e : Behind(e) = From(request, e)
  BY <1>2, OfTheRequest DEF TraceInv, PathsInv, Path
<1>4. GraphInv'  BY <1>2 DEF TraceInv, GraphInv, UnderWay
<1>5. PhaseInv'
  <2>1. request \in TraceRequests /\ ValidRequest(request) /\ request.context # <<>>
    BY <1>2 DEF TraceInv, PhaseInv
  <2> QED  BY <2>1, <1>2 DEF PhaseInv, Phases
<1>6. PathsInv'
  <2>1. Found' = Found  BY <1>2 DEF Found
  <2> QED  BY <2>1, <1>2 DEF TraceInv, PathsInv
<1>7. /\ depth \in Nat /\ depth < request.depth
      /\ \A p \in states \cup result.paths : Len(p) <= depth
  BY <1>2 DEF TraceInv, LevelInv
<1>8. \A p \in states : Len(p) \in Nat
  BY <1>3
<1>9. \A p \in result.paths : Len(p) \in Nat
  <2>1. result.paths \in SUBSET Seq(Edges)  BY DEF TraceInv, PathsInv, Results
  <2> QED  BY <2>1
<1>10. pending' \in SUBSET (states \X ever)
  <2>1. rows \subseteq effective  BY DEF Leaving
  <2>2. effective \subseteq ever  BY <1>2 DEF TraceInv, GraphInv, UnderWay
  <2>3. Frontier \subseteq states  BY DEF Frontier
  <2> QED  BY <2>1, <2>2, <2>3, <1>1
<1>11. \A pe \in pending' :
          /\ Len(pe[1]) = depth
          /\ From(request, pe[2]) = End(request, pe[1])
          /\ Append(pe[1], pe[2]) \notin result.paths
  <2> TAKE pe \in pending'
  <2>1. /\ pe[1] \in states /\ pe[2] \in Edges /\ Len(pe[1]) = depth
        /\ Current(pe[1]) = Behind(pe[2])
    BY <1>1 DEF Frontier, Leaving, TraceInv, GraphInv
  <2>2. From(request, pe[2]) = End(request, pe[1])  BY <2>1, <1>3
  <2>3. Len(Append(pe[1], pe[2])) = depth + 1  BY <2>1, <1>3, KeyFacts
  <2>4. ~ (depth + 1 <= depth)  BY <1>7
  <2> QED  BY <2>1, <2>2, <2>3, <2>4, <1>7
<1>12. ASSUME ~ result.truncated, ~ cut', NEW p \in states, NEW e \in always,
              Len(p) <= depth, <<p, e>> \notin pending'
       PROVE  Settled(request, p, e, states, result.paths, result.cycleDetected)
  <2>1. CASE Len(p) < depth
    BY <2>1, <1>12, <1>2 DEF TraceInv, LevelInv
  <2>2. CASE Len(p) = depth
    <3>1. rows = Leaving(effective)  BY <1>12, <1>1
    <3>2. e \in effective  BY <1>2 DEF TraceInv, GraphInv, UnderWay
    <3>3. p \in Frontier  BY <2>2 DEF Frontier
    <3>4. SUFFICES ASSUME From(request, e) = End(request, p)  PROVE FALSE
      BY DEF Settled, Leads
    <3>5. Current(p) = Behind(e)  BY <3>4, <1>3
    <3>6. e \in rows  BY <3>1, <3>2, <3>3, <3>5 DEF Leaving
    <3>7. <<p, e>> \in Frontier \X rows /\ <<p, e>>[1] = p /\ <<p, e>>[2] = e
      BY <3>3, <3>6
    <3>8. <<p, e>> \in pending'  BY <3>5, <3>7, <1>1
    <3> QED  BY <3>8, <1>12
  <2> QED  BY <2>1, <2>2, <1>7, <1>8, <1>12
<1>13. LevelInv'
  <2>1. \A p \in states \cup result.paths : Len(p) <= depth + 1
    BY <1>7, <1>8, <1>9
  <2> QED  BY <2>1, <1>2, <1>7, <1>10, <1>11, <1>12 DEF LevelInv
<1>14. WalkInv' /\ DoneInv'  BY <1>2 DEF WalkInv, DoneInv
<1> QED  BY <1>4, <1>5, <1>6, <1>13, <1>14 DEF TraceInv

LEMMA LoadNothingKeeps ==
    ASSUME TraceInv, LoadNothing
    PROVE  TraceInv'
BY StopKeeps DEF LoadNothing, graphVars, searchVars, walkVars

LEMMA RequestIsValid ==
    ASSUME TraceInv, phase # "Idle"
    PROVE  request \in TraceRequests /\ ValidRequest(request) /\ request.depth \in Nat
<1>1. request \in TraceRequests /\ ValidRequest(request)
  BY SMTT(30) DEF TraceInv, PhaseInv
<1>2. request.depth \in 1..64  BY <1>1, ValidDepth, Zenon
<1>3. \A n \in 1..64 : n \in Nat  OBVIOUS
<1> QED  BY <1>1, <1>2, <1>3

\* The part of the invariant that is the same in both ways.
LEMMA ConsideredKeeps ==
    ASSUME TraceInv, phase # "Idle",
           NEW p \in states, NEW e \in Edges, e \in Found,
           Len(p) < request.depth,
           Considered(request, p, e, Append(p, e)),
           request' = request, snapshot' = snapshot,
           effective' = effective, always' = always, ever' = ever
    PROVE  GraphInv' /\ PhaseInv' /\ PathsInv'
<1> DEFINE q == Append(p, e)
<1>1. phase' \in {phase, "Done", "Failed"}  BY DEF Considered
<1>2. GraphInv'  BY <1>1 DEF TraceInv, GraphInv, UnderWay
<1>3. PhaseInv'
  <2>1. request \in TraceRequests /\ ValidRequest(request)  BY DEF TraceInv, PhaseInv
  <2> QED  BY <2>1, <1>1 DEF TraceInv, PhaseInv, Phases
<1>4. PathsInv'
  <2>1. Found' = Found  BY DEF Found
  <2>2. p \in Seq(Found) /\ Path(request, p)  BY DEF TraceInv, PathsInv
  <2>3. q \in Seq(Found) /\ q # <<>> /\ Len(q) = Len(p) + 1 /\ Len(p) \in Nat
    BY <2>2, KeyFacts DEF Path
  <2>4. request.depth \in Nat  BY RequestIsValid
  <2> HIDE DEF q
  <2>5. Len(q) <= request.depth
    <3>1. \A m, n, d \in Int : m = n + 1 /\ n < d => m <= d  OBVIOUS
    <3>2. request.depth \in Int  BY <2>4
    <3> QED  BY <3>1, <3>2, <2>3
  <2>6. /\ <<>> \in states'
        /\ \A x \in states' : \/ x \in states
                              \/ x = q /\ Path(request, q) /\ GoesOn(request, End(request, q))
        /\ \A x \in result'.paths :
              \/ x \in result.paths
              \/ x = q /\ Path(request, q) /\ Ends(request, End(request, q))
    BY DEF Considered, q, TraceInv, PathsInv
  <2>7. \A x \in states' :
           /\ x \in Seq(Found) /\ Path(request, x)
           /\ x # <<>> => GoesOn(request, End(request, x))
    BY <2>3, <2>6 DEF TraceInv, PathsInv
  <2>8. \A x \in result'.paths :
           /\ x \in Seq(Found) /\ Path(request, x)
           /\ x # <<>> /\ Len(x) <= request.depth
           /\ Ends(request, End(request, x))
    BY <2>3, <2>5, <2>6 DEF TraceInv, PathsInv
  <2>9. result' \in Results /\ IsFiniteSet(result'.paths)
        /\ result'.listed = Cardinality(result'.paths)
    BY DEF Considered
  <2> QED  BY <2>1, <2>6, <2>7, <2>8, <2>9 DEF PathsInv
<1> QED  BY <1>2, <1>3, <1>4

LEMMA ExpandEdgeKeeps ==
    ASSUME TraceInv, NEW pe \in pending, ExpandEdge(pe[1], pe[2])
    PROVE  /\ TraceInv'
           /\ phase' = "Failed" => TruthOf(pe[2]) = "ERROR" /\ pe[2] \in Edges
<1>1. /\ phase = "Expand" /\ pending' = pending \ {<<pe[1], pe[2]>>}
      /\ effective' = effective /\ request' = request /\ cut' = cut /\ depth' = depth
      /\ walk' = walk /\ snapshot' = snapshot /\ keys' = keys
      /\ always' = always /\ ever' = ever
  BY DEF ExpandEdge, graphVars, walkVars
<1>2. /\ depth \in Nat /\ depth < request.depth
      /\ \A p \in states \cup result.paths : Len(p) <= depth + 1
      /\ pending \in SUBSET (states \X ever)
      /\ \A x \in pending : /\ Len(x[1]) = depth
                            /\ From(request, x[2]) = End(request, x[1])
                            /\ Append(x[1], x[2]) \notin result.paths
  BY <1>1 DEF TraceInv, LevelInv
<1>3. PICK p, e : p \in states /\ e \in ever /\ pe = <<p, e>> /\ pe[1] = p /\ pe[2] = e
  BY <1>2
<1>4. e \in Edges /\ p \in Seq(Edges) /\ e \in Found
  <2>1. request.context # <<>>  BY <1>1 DEF TraceInv, PhaseInv
  <2> QED  BY <2>1, <1>1, <1>3 DEF TraceInv, GraphInv, PathsInv, Path, Found
<1> DEFINE q == Append(p, e)
<1>5. CASE spent.expansions >= request.most.expansions /\ Stop
  <2>1. TraceInv'  BY <1>5, <1>1, StopKeeps
  <2> QED  BY <2>1, <1>5 DEF Stop
<1>6. CASE Consider(p, e, 0)
  <2>1. /\ Len(p) = depth /\ From(request, e) = End(request, p) /\ q \notin result.paths
    BY <1>2, <1>3
  <2>2. PathsInv  BY DEF TraceInv
  <2>3. Considered(request, p, e, q)
    BY <1>1, <1>3, <1>4, <1>6, <2>1, <2>2, EdgeIsConsidered
  <2>4. GraphInv' /\ PhaseInv' /\ PathsInv'
    BY <1>1, <1>2, <1>3, <1>4, <2>1, <2>3, ConsideredKeeps
  <2>5. Len(q) = depth + 1 /\ q \in Seq(Edges)
    BY <2>1, <1>4, KeyFacts
  <2>6. phase' \in {"Expand", "Done", "Failed"}
    BY <1>1, <2>3 DEF Considered
  <2>7. /\ phase' = "Done" => result'.truncated
        /\ phase' = "Failed" => TruthOf(e) = "ERROR"
    BY <2>3 DEF Considered
  <2>8. /\ states \subseteq states' /\ result.paths \subseteq result'.paths
        /\ result.cycleDetected => result'.cycleDetected
        /\ result.truncated => result'.truncated
        /\ \A x \in states' : x \in states \/ x = q
        /\ \A x \in result'.paths : x \in result.paths \/ x = q
        /\ phase' # "Failed" /\ ~ result'.truncated
              => Settled(request, p, e, states', result'.paths, result'.cycleDetected)
    BY <2>3 DEF Considered
  <2> HIDE DEF q
  <2>9. LevelInv'
    <3> SUFFICES ASSUME phase' = "Expand"
                 PROVE  LevelInv'
      BY <1>1, <1>2, <2>6 DEF LevelInv
    <3>1. \A x \in states' \cup result'.paths : Len(x) <= depth + 1
      BY <1>2, <2>5, <2>8
    <3>2. pending' \in SUBSET (states' \X ever)
      BY <1>1, <1>2, <2>8
    <3>3. ASSUME NEW x \in pending'
          PROVE  /\ Len(x[1]) = depth
                 /\ From(request, x[2]) = End(request, x[1])
                 /\ Append(x[1], x[2]) \notin result'.paths
      <4>1. x \in pending /\ x # <<p, e>>  BY <1>1, <1>3
      <4>2. PICK y, f : y \in states /\ f \in ever /\ x = <<y, f>> /\ x[1] = y /\ x[2] = f
        BY <4>1, <1>2
      <4>3. y \in Seq(Edges) /\ f \in Edges
        BY <4>2, <1>1 DEF TraceInv, GraphInv, PathsInv, Path
      <4>4. Append(y, f) # q
        BY <4>1, <4>2, <4>3, <1>4, AppendIsInjective DEF q
      <4>5. Append(y, f) \notin result.paths  BY <4>1, <4>2, <1>2
      <4>6. Append(y, f) \notin result'.paths  BY <4>4, <4>5, <2>8
      <4> QED  BY <4>1, <4>2, <4>6, <1>2
    <3>4. ASSUME ~ result'.truncated, ~ cut, NEW y \in states', NEW f \in always,
                 Len(y) <= depth, <<y, f>> \notin pending'
          PROVE  Settled(request, y, f, states', result'.paths, result'.cycleDetected)
      <4>1. y # q  BY <3>4, <2>5, <1>2
      <4>2. y \in states  BY <4>1, <2>8
      <4>3. CASE <<y, f>> = <<p, e>>
        <5>1. y = p /\ f = e  BY <4>3
        <5> QED  BY <5>1, <2>8, <3>4
      <4>4. CASE <<y, f>> # <<p, e>>
        <5>1. <<y, f>> \notin pending  BY <4>4, <3>4, <1>1, <1>3
        <5>2. ~ result.truncated  BY <3>4, <2>8
        <5>3. Settled(request, y, f, states, result.paths, result.cycleDetected)
          BY <5>1, <5>2, <4>2, <3>4, <1>1 DEF TraceInv, LevelInv
        <5> QED  BY <5>3, <2>8, SettledStays
      <4> QED  BY <4>3, <4>4
    <3> QED  BY <3>1, <3>2, <3>3, <3>4, <1>1, <1>2 DEF LevelInv
  <2>10. WalkInv' /\ DoneInv'  BY <2>6, <2>7 DEF WalkInv, DoneInv
  <2> QED  BY <2>4, <2>7, <2>9, <2>10, <1>3, <1>4 DEF TraceInv
<1> QED  BY <1>3, <1>5, <1>6 DEF ExpandEdge

LEMMA NextLevelKeeps ==
    ASSUME TraceInv, NextLevel
    PROVE  TraceInv'
<1> DEFINE left == {p \in states : Len(p) = depth + 1}
<1>1. /\ phase = "Expand" /\ pending = {} /\ depth' = depth + 1
      /\ result' = IF cut \/ (left # {} /\ LeftAtDepth(depth + 1)) THEN Truncated ELSE result
      /\ phase' = IF cut \/ left = {} \/ depth + 1 = request.depth THEN "Done" ELSE "Load"
      /\ effective' = effective /\ request' = request /\ pending' = pending /\ cut' = cut
      /\ walk' = walk /\ snapshot' = snapshot /\ keys' = keys
      /\ states' = states /\ always' = always /\ ever' = ever
  BY DEF NextLevel, graphVars, walkVars
<1>2. /\ Truncated \in Results /\ Truncated.truncated = TRUE
      /\ Truncated.paths = result.paths /\ Truncated.listed = result.listed
      /\ Truncated.cycleDetected = result.cycleDetected
  BY DEF Truncated, Results, TraceInv, PathsInv
<1>3. /\ depth \in Nat /\ depth < request.depth
      /\ \A p \in states \cup result.paths : Len(p) <= depth + 1
      /\ ~ result.truncated /\ ~ cut =>
            \A p \in states : \A e \in always :
                Len(p) <= depth
                    => Settled(request, p, e, states, result.paths, result.cycleDetected)
  BY <1>1 DEF TraceInv, LevelInv
<1>4. request.depth \in Nat /\ request \in TraceRequests /\ ValidRequest(request)
      /\ request.context # <<>>
  <2>1. phase = "Expand"  BY <1>1
  <2>2. request \in TraceRequests /\ ValidRequest(request) /\ request.context # <<>>
    BY <2>1 DEF TraceInv, PhaseInv
  <2> QED  BY <2>1, <2>2, RequestIsValid
<1>5. \A p \in states : Len(p) \in Nat
  BY <1>1 DEF TraceInv, PathsInv, Path
<1>6. /\ result' \in Results /\ result'.paths = result.paths
      /\ result'.listed = result.listed /\ result'.cycleDetected = result.cycleDetected
      /\ ~ result'.truncated => /\ ~ result.truncated /\ ~ cut
                                /\ left = {} \/ ~ LeftAtDepth(depth + 1)
  <2>1. result \in Results  BY DEF TraceInv, PathsInv
  <2> HIDE DEF left
  <2> QED  BY <2>1, <1>1, <1>2
<1>7. phase' \in {"Done", "Load"}  BY <1>1
<1>8. GraphInv'  BY <1>1, <1>7 DEF TraceInv, GraphInv, UnderWay
<1>9. PhaseInv'  BY <1>1, <1>4, <1>7 DEF PhaseInv, Phases
<1>10. PathsInv'
  <2>1. Found' = Found  BY <1>1 DEF Found
  <2> QED  BY <2>1, <1>1, <1>6, <1>7 DEF TraceInv, PathsInv
<1>11. LevelInv'
  <2>1. depth + 1 \in Nat  BY <1>3
  <2>2. phase' = "Load" => depth + 1 < request.depth
    <3>1. phase' = "Load" => depth + 1 # request.depth  BY <1>1
    <3>2. \A n, d \in Int : n < d /\ n + 1 # d => n + 1 < d  OBVIOUS
    <3>3. depth \in Int /\ request.depth \in Int  BY <1>3, <1>4
    <3> QED  BY <3>1, <3>2, <3>3, <1>3
  <2>3. \A p \in states : Len(p) < depth + 1 => Len(p) <= depth
    BY <1>3, <1>5
  <2> QED  BY <2>1, <2>2, <2>3, <1>1, <1>3, <1>6, <1>7 DEF LevelInv
<1>12. WalkInv'  BY <1>7 DEF WalkInv
<1>13. DoneInv'
  <2> SUFFICES ASSUME phase' = "Done", ~ result'.truncated, NEW p \in states, NEW e \in always
               PROVE  Settled(request, p, e, states, result.paths, result.cycleDetected)
    BY <1>1, <1>6 DEF DoneInv
  <2>1. left = {}  BY <1>1, <1>6 DEF LeftAtDepth
  <2>2. Len(p) # depth + 1  BY <2>1
  <2>3. Len(p) <= depth  BY <2>2, <1>3, <1>5
  <2> QED  BY <2>3, <1>3, <1>6
<1> QED  BY <1>8, <1>9, <1>10, <1>11, <1>12, <1>13 DEF TraceInv

LEMMA LoadRecursiveEdgesKeeps ==
    ASSUME TraceInv, LoadRecursiveEdges
    PROVE  TraceInv'
<1>1. /\ phase = "Query" /\ phase' = "Walk"
      /\ snapshot' = effective /\ walk' = RowsFrom(<<>>, effective)
      /\ effective' = effective /\ request' = request /\ pending' = pending
      /\ depth' = depth /\ cut' = cut /\ keys' = keys
      /\ states' = states /\ result' = result /\ always' = always /\ ever' = ever
  BY DEF LoadRecursiveEdges, graphVars, searchVars, foundVars
<1>2. states = {<<>>} /\ keys = {<<>>} /\ result.paths = {}
  BY <1>1 DEF TraceInv, WalkInv
<1>3. request.context = <<>> /\ request.depth \in Nat
      /\ request \in TraceRequests /\ ValidRequest(request)
  BY <1>1, RequestIsValid DEF TraceInv, PhaseInv
<1>4. /\ effective \in SUBSET Edges /\ IsGraph(effective) /\ ever \in SUBSET Edges
      /\ always \subseteq effective /\ effective \subseteq ever
  BY <1>1 DEF TraceInv, GraphInv, UnderWay
<1>5. 0 < request.depth
  <2>1. request.depth \in 1..64  BY <1>3, ValidDepth, Zenon
  <2>2. \A n \in 1..64 : 0 < n  OBVIOUS
  <2> QED  BY <2>1, <2>2, SMTT(30)
<1>6. GraphInv'  BY <1>1, <1>4 DEF TraceInv, GraphInv
<1>7. PhaseInv'  BY <1>1, <1>3 DEF PhaseInv, Phases
<1>8. PathsInv'
  <2>1. <<>> \in Seq(Found') /\ Path(request, <<>>)  BY EmptyPath
  <2> QED  BY <2>1, <1>1, <1>2 DEF TraceInv, PathsInv
<1>9. LevelInv' /\ DoneInv'
  BY <1>1 DEF TraceInv, LevelInv, DoneInv
<1>10. <<>> \in Seq(Edges) /\ <<>> \in Seq(snapshot') /\ Len(<<>>) = 0
  OBVIOUS
<1>11. walk' = {RowOf(request, <<>>, e) :
                   e \in {f \in effective : From(request, f) = End(request, <<>>)}}
  BY <1>1, <1>10, RowFacts
<1>12. \A e \in effective : Key(Append(<<>>, e)) \notin keys
  <2> TAKE e \in effective
  <2>1. e \in Edges /\ e.relation \in Nat  BY <1>4, EdgeFacts
  <2>2. Key(Append(<<>>, e)) = Append(Key(<<>>), e.relation)
    BY <2>1, <1>10, KeyFacts
  <2>3. Key(<<>>) \in Seq(Nat)  BY <1>10, KeyFacts
  <2> QED  BY <2>1, <2>2, <2>3, <1>2, KeyFacts
<1>13. \A row \in walk' : \E p \in Seq(snapshot'), e \in snapshot' :
          /\ row = RowOf(request, p, e)
          /\ From(request, e) = End(request, p)
          /\ Len(p) < request.depth
          /\ Key(p) \in keys /\ Key(Append(p, e)) \notin keys
  <2> TAKE row \in walk'
  <2>1. PICK e \in effective : /\ row = RowOf(request, <<>>, e)
                               /\ From(request, e) = End(request, <<>>)
    BY <1>11
  <2>2. Key(<<>>) \in keys  BY <1>2, KeyFacts
  <2> QED  BY <2>1, <2>2, <1>1, <1>5, <1>10, <1>12
<1>14. \A k \in keys' : k \in Seq(Nat) /\ (k # <<>> => Parent(k) \in keys')
  <2>1. <<>> \in Seq(Nat)  OBVIOUS
  <2> QED  BY <2>1, <1>1, <1>2
<1>15. \A p \in states' \cup result'.paths : Key(p) \in keys' /\ Len(p) <= request.depth
  <2>1. states' \cup result'.paths = {<<>>}  BY <1>1, <1>2
  <2>2. 0 <= request.depth  BY <1>3
  <2>3. Key(<<>>) \in keys' /\ Len(<<>>) <= request.depth
    BY <2>2, <1>1, <1>2, <1>10, KeyFacts
  <2> QED  BY <2>1, <2>3
<1>16. \A p \in states' : Len(p) < request.depth
  BY <1>1, <1>2, <1>5, <1>10
<1>17. \A p \in states' : \A e \in snapshot' :
          /\ From(request, e) = End(request, p) => RowOf(request, p, e) \in walk'
          /\ Key(Append(p, e)) \notin keys'
  BY <1>1, <1>2, <1>11, <1>12
<1>18. WalkInv'
  BY <1>1, <1>2, <1>4, <1>13, <1>14, <1>15, <1>16, <1>17 DEF WalkInv
<1> QED  BY <1>6, <1>7, <1>8, <1>9, <1>18 DEF TraceInv

\* What is known of the row that is extracted next.
LEMMA RowIsKnown ==
    ASSUME TraceInv, phase = "Walk", NEW row \in walk
    PROVE  \E p \in Seq(snapshot), e \in snapshot :
              /\ p \in Seq(Edges) /\ e \in Edges
              /\ row = RowOf(request, p, e)
              /\ row.steps = Append(p, e) /\ row.cycle = (To(request, e) \in On(request, p))
              /\ Last(row.steps) = e
              /\ From(request, e) = End(request, p)
              /\ Len(p) < request.depth /\ Len(row.steps) = Len(p) + 1
              /\ Key(p) \in keys /\ Key(row.steps) \notin keys
              /\ Key(row.steps) = Append(Key(p), e.relation)
              /\ Parent(Key(row.steps)) = Key(p)
              /\ \A x \in states : Key(x) = Key(p) => x = p
<1>1. /\ snapshot \in SUBSET Edges /\ IsGraph(snapshot)
  BY DEF TraceInv, GraphInv
<1>2. PICK p \in Seq(snapshot), e \in snapshot :
         /\ row = RowOf(request, p, e)
         /\ From(request, e) = End(request, p)
         /\ Len(p) < request.depth
         /\ Key(p) \in keys /\ Key(Append(p, e)) \notin keys
  BY DEF TraceInv, WalkInv
<1>3. p \in Seq(Edges) /\ e \in Edges /\ e.relation \in Nat
  BY <1>1, SeqGrows, EdgeFacts
<1>4. row.steps = Append(p, e) /\ row.cycle = (To(request, e) \in On(request, p))
  BY <1>2 DEF RowOf
<1>5. /\ Last(row.steps) = e /\ Len(row.steps) = Len(p) + 1
      /\ Key(row.steps) = Append(Key(p), e.relation) /\ Key(p) \in Seq(Nat)
  BY <1>3, <1>4, KeyFacts
<1>6. Parent(Key(row.steps)) = Key(p)
  BY <1>3, <1>5, KeyFacts
<1>7. \A x \in states : x \in Seq(snapshot)
  <2>1. request.context = <<>>  BY DEF TraceInv, PhaseInv
  <2> QED  BY <2>1 DEF TraceInv, PathsInv, Found
<1>8. \A x \in states : Key(x) = Key(p) => x = p
  BY <1>1, <1>7, KeyIsInjective
<1> QED  BY <1>2, <1>3, <1>4, <1>5, <1>6, <1>8

\* What WalkRow does: one of the two refusals that never happen, nothing
\* because the row's parent was not followed, or what becomes of its edge.
LEMMA WalkRowCases ==
    ASSUME TraceInv, NEW row \in walk, WalkRow(row),
           NEW p \in Seq(Edges), NEW e \in Edges,
           row.cycle = (To(request, e) \in On(request, p)),
           Last(row.steps) = e, From(request, e) = End(request, p),
           Len(row.steps) = Len(p) + 1,
           Key(p) \in keys, Key(row.steps) \notin keys,
           Parent(Key(row.steps)) = Key(p),
           \A x \in states : Key(x) = Key(p) => x = p
    PROVE  \/ p \notin states /\ phase' = phase /\ states' = states /\ result' = result
           \/ p \in states /\ Consider(p, e, 1)
<1> DEFINE key == Key(row.steps)
           parents == {x \in states : Key(x) = Parent(key)}
<1>1. \/ parents = {} /\ phase' = phase /\ states' = states /\ result' = result
      \/ \E x \in parents :
            \/ /\ \/ Len(row.steps) # Len(x) + 1
                  \/ Behind(e) # Current(x)
                  \/ row.cycle # PathContains(x, Ahead(e))
               /\ Fail
            \/ Consider(x, e, 1)
  BY DEF WalkRow
<1>2. parents \subseteq {p} /\ (p \in states => p \in parents)
  OBVIOUS
<1>3. /\ Behind(e) = Current(p)
      /\ row.cycle = PathContains(p, Ahead(e))
  <2>1. /\ Behind(e) = From(request, e) /\ Ahead(e) = To(request, e)
        /\ Current(p) = End(request, p) /\ NodesOf(p) = On(request, p)
    BY OfTheRequest
  <2> QED  BY <2>1 DEF PathContains
<1>4. parents \subseteq states  OBVIOUS
<1> HIDE DEF key, parents
<1> QED  BY <1>1, <1>2, <1>3, <1>4

\* The rows that are left or follow: each new key once.
LEMMA WalkRowRows ==
    ASSUME TraceInv, NEW row \in walk, WalkRow(row)
    PROVE  /\ <<>> \in keys'
           /\ \A k \in keys' : k \in Seq(Nat) /\ (k # <<>> => Parent(k) \in keys')
           /\ \A x \in walk' : \E p \in Seq(snapshot), e \in snapshot :
                 /\ x = RowOf(request, p, e)
                 /\ From(request, e) = End(request, p)
                 /\ Len(p) < request.depth
                 /\ Key(p) \in keys' /\ Key(Append(p, e)) \notin keys'
           /\ \A e \in snapshot : Key(Append(row.steps, e)) \notin keys'
<1>1. /\ phase = "Walk"
      /\ walk' = (walk \ {row}) \cup Successors(row)
      /\ keys' = keys \cup {Key(row.steps)}
  BY DEF WalkRow
<1>2. PICK p0 \in Seq(snapshot), e0 \in snapshot :
              /\ p0 \in Seq(Edges) /\ e0 \in Edges
              /\ row = RowOf(request, p0, e0)
              /\ row.steps = Append(p0, e0)
              /\ Len(row.steps) = Len(p0) + 1
              /\ Key(p0) \in keys /\ Key(row.steps) \notin keys
              /\ Key(row.steps) = Append(Key(p0), e0.relation)
              /\ Parent(Key(row.steps)) = Key(p0)
  BY <1>1, RowIsKnown
<1>3. /\ <<>> \in keys
      /\ \A k \in keys : k \in Seq(Nat) /\ (k # <<>> => Parent(k) \in keys)
      /\ \A x \in walk : \E p \in Seq(snapshot), e \in snapshot :
            /\ x = RowOf(request, p, e)
            /\ From(request, e) = End(request, p)
            /\ Len(p) < request.depth
            /\ Key(p) \in keys /\ Key(Append(p, e)) \notin keys
  BY <1>1 DEF TraceInv, WalkInv
<1>4. snapshot \in SUBSET Edges /\ IsGraph(snapshot)  BY DEF TraceInv, GraphInv
<1> DEFINE q == row.steps
           key == Key(q)
<1>5. q \in Seq(snapshot) /\ q \in Seq(Edges) /\ key \in Seq(Nat)
  <2>1. Append(p0, e0) \in Seq(snapshot)  OBVIOUS
  <2>2. q = Append(p0, e0)  BY <1>2
  <2>3. q \in Seq(snapshot)  BY <2>1, <2>2
  <2>4. q \in Seq(Edges)  BY <2>3, <1>4, SeqGrows
  <2> QED  BY <2>3, <2>4, KeyFacts
<1>6. \A k \in keys' : k \in Seq(Nat) /\ (k # <<>> => Parent(k) \in keys')
  BY <1>1, <1>2, <1>3, <1>5
<1>7. \A e \in snapshot : Key(Append(q, e)) \notin keys'
  <2> TAKE e \in snapshot
  <2>1. Key(Append(q, e)) = Append(key, e.relation) /\ e.relation \in Nat
    BY <1>4, <1>5, KeyFacts, EdgeFacts
  <2>2. /\ Parent(Append(key, e.relation)) = key
        /\ Append(key, e.relation) # <<>> /\ Append(key, e.relation) # key
    BY <2>1, <1>5, KeyFacts
  <2>3. Append(key, e.relation) \notin keys  BY <2>2, <1>2, <1>3
  <2> HIDE DEF q, key
  <2> QED  BY <2>1, <2>2, <2>3, <1>1 DEF key, q
<1>8. ASSUME NEW x \in walk'
      PROVE  \E p \in Seq(snapshot), e \in snapshot :
                 /\ x = RowOf(request, p, e)
                 /\ From(request, e) = End(request, p)
                 /\ Len(p) < request.depth
                 /\ Key(p) \in keys' /\ Key(Append(p, e)) \notin keys'
  <2>1. CASE x \in walk \ {row}
    <3>1. PICK p \in Seq(snapshot), e \in snapshot :
            /\ x = RowOf(request, p, e)
            /\ From(request, e) = End(request, p)
            /\ Len(p) < request.depth
            /\ Key(p) \in keys /\ Key(Append(p, e)) \notin keys
      BY <2>1, <1>3
    <3>2. p \in Seq(Edges) /\ e \in Edges  BY <1>4, SeqGrows
    <3>3. Key(Append(p, e)) # key
      <4> SUFFICES ASSUME Key(Append(p, e)) = Key(q)  PROVE FALSE
        OBVIOUS
      <4>1. Append(p, e) \in Seq(snapshot)  OBVIOUS
      <4>2. Append(p, e) = q  BY <4>1, <1>4, <1>5, KeyIsInjective
      <4>3. p = p0 /\ e = e0  BY <4>2, <3>2, <1>2, AppendIsInjective
      <4> QED  BY <4>3, <3>1, <1>2, <2>1
    <3> QED  BY <3>1, <3>3, <1>1
  <2>2. CASE x \in Successors(row)
    <3>1. Len(q) < request.depth /\ x \in RowsFrom(q, snapshot)
      <4>1. ~ (Len(q) >= request.depth) /\ x \in RowsFrom(q, snapshot)
        BY <2>2 DEF Successors
      <4>2. request.depth \in Nat /\ Len(q) \in Nat  BY <1>1, <1>5, RequestIsValid
      <4>3. \A m, n \in Nat : ~ (m >= n) => m < n  OBVIOUS
      <4> QED  BY <4>1, <4>2, <4>3
    <3>2. RowsFrom(q, snapshot) = {RowOf(request, q, e) :
                          e \in {f \in snapshot : From(request, f) = End(request, q)}}
      BY <1>5, RowFacts
    <3>3. PICK e \in snapshot : x = RowOf(request, q, e) /\ From(request, e) = End(request, q)
      BY <3>1, <3>2
    <3> QED  BY <3>1, <3>3, <1>1, <1>5, <1>7
  <2> QED  BY <2>1, <2>2, <1>1
<1> QED  BY <1>1, <1>3, <1>6, <1>7, <1>8

\* An edge of a path that was known before is in the query or settled.
LEMMA WalkRowOldStates ==
    ASSUME TraceInv, NEW row \in walk, WalkRow(row), ~ result.truncated,
           NEW x \in states, NEW f \in snapshot
    PROVE  /\ From(request, f) = End(request, x)
                 => \/ Key(Append(x, f)) \in keys'
                    \/ RowOf(request, x, f) \in walk'
           /\ \/ Key(Append(x, f)) = Key(row.steps)
              \/ Key(Append(x, f)) \in keys'
                    => Settled(request, x, f, states, result.paths, result.cycleDetected)
<1>1. /\ phase = "Walk"
      /\ walk' = (walk \ {row}) \cup Successors(row)
      /\ keys' = keys \cup {Key(row.steps)}
  BY DEF WalkRow
<1>2. /\ From(request, f) = End(request, x)
            => \/ Key(Append(x, f)) \in keys
               \/ RowOf(request, x, f) \in walk
      /\ Key(Append(x, f)) \in keys
            => Settled(request, x, f, states, result.paths, result.cycleDetected)
  BY <1>1 DEF TraceInv, WalkInv
<1>3. ASSUME RowOf(request, x, f) = row  PROVE Key(Append(x, f)) = Key(row.steps)
  BY <1>3 DEF RowOf
<1> QED  BY <1>1, <1>2, <1>3

LEMMA WalkRowKeeps ==
    ASSUME TraceInv, NEW row \in walk, WalkRow(row)
    PROVE  /\ TraceInv'
           /\ phase' = "Failed" => TruthOf(Last(row.steps)) = "ERROR"
                                   /\ Last(row.steps) \in Edges
<1>1. /\ phase = "Walk"
      /\ walk' = (walk \ {row}) \cup Successors(row)
      /\ keys' = keys \cup {Key(row.steps)}
      /\ effective' = effective /\ request' = request /\ snapshot' = snapshot
      /\ depth' = depth /\ always' = always /\ ever' = ever
  BY DEF WalkRow, graphVars, searchVars
<1>2. PICK p \in Seq(snapshot), e \in snapshot :
              /\ p \in Seq(Edges) /\ e \in Edges
              /\ row = RowOf(request, p, e)
              /\ row.steps = Append(p, e) /\ row.cycle = (To(request, e) \in On(request, p))
              /\ Last(row.steps) = e
              /\ From(request, e) = End(request, p)
              /\ Len(p) < request.depth /\ Len(row.steps) = Len(p) + 1
              /\ Key(p) \in keys /\ Key(row.steps) \notin keys
              /\ Key(row.steps) = Append(Key(p), e.relation)
              /\ Parent(Key(row.steps)) = Key(p)
              /\ \A x \in states : Key(x) = Key(p) => x = p
  BY <1>1, RowIsKnown
<1>3. request.context = <<>> /\ Recursive /\ Found = snapshot
  BY <1>1 DEF TraceInv, PhaseInv, Recursive, Found
<1>4. /\ always \subseteq snapshot
      /\ \A x \in states \cup result.paths : Key(x) \in keys /\ Len(x) <= request.depth
      /\ ~ result.truncated => \A x \in states : Len(x) < request.depth
  BY <1>1 DEF TraceInv, WalkInv
<1>5. request.depth \in Nat /\ snapshot \in SUBSET Edges /\ IsGraph(snapshot)
  BY <1>1, RequestIsValid DEF TraceInv, GraphInv
<1> DEFINE q == Append(p, e)
<1>6. \/ p \notin states /\ phase' = phase /\ states' = states /\ result' = result
      \/ p \in states /\ Consider(p, e, 1)
  BY <1>2, WalkRowCases
<1>7. \A x \in states : x \in Seq(snapshot) /\ x \in Seq(Edges)
  BY <1>1, <1>3 DEF TraceInv, PathsInv, Path
<1>8. \A x \in states : \A f \in snapshot :
         Key(Append(x, f)) = Key(q) => x = p /\ f = e
  <2> SUFFICES ASSUME NEW x \in states, NEW f \in snapshot, Key(Append(x, f)) = Key(q)
               PROVE  x = p /\ f = e
    OBVIOUS
  <2>1. Append(x, f) \in Seq(snapshot) /\ q \in Seq(snapshot)  BY <1>7
  <2>2. Append(x, f) = q  BY <2>1, <1>5, KeyIsInjective
  <2>3. f \in Edges  BY <1>5
  <2> QED  BY <2>2, <2>3, <1>2, <1>7, AppendIsInjective
<1>9. CASE p \notin states /\ phase' = phase /\ states' = states /\ result' = result
  <2>1. GraphInv'  BY <1>1, <1>9 DEF TraceInv, GraphInv, UnderWay
  <2>2. PhaseInv'  BY <1>1, <1>9 DEF TraceInv, PhaseInv, Phases
  <2>3. Found' = Found  BY <1>1 DEF Found
  <2>4. PathsInv'  BY <2>3, <1>1, <1>9 DEF TraceInv, PathsInv
  <2>5. LevelInv' /\ DoneInv'  BY <1>1, <1>9 DEF TraceInv, LevelInv, DoneInv
  <2>6. ASSUME ~ result.truncated, NEW x \in states, NEW f \in snapshot
        PROVE  /\ From(request, f) = End(request, x)
                     => \/ Key(Append(x, f)) \in keys'
                        \/ RowOf(request, x, f) \in walk'
               /\ Key(Append(x, f)) \in keys'
                     => Settled(request, x, f, states, result.paths, result.cycleDetected)
    <3>1. Key(Append(x, f)) # Key(row.steps)  BY <1>2, <1>8, <1>9
    <3> QED  BY <3>1, <2>6, WalkRowOldStates
  <2>7. WalkInv'
    <3>1. \A x \in states \cup result.paths : Key(x) \in keys'  BY <1>1, <1>4
    <3> QED  BY <3>1, <2>6, <1>1, <1>4, <1>9, WalkRowRows DEF WalkInv
  <2> QED  BY <2>1, <2>2, <2>4, <2>5, <2>7, <1>1, <1>9 DEF TraceInv
<1>10. CASE p \in states /\ Consider(p, e, 1)
  <2>1. q \notin result.paths
    BY <1>2, <1>4
  <2>2. PathsInv /\ e \in Found  BY <1>3 DEF TraceInv
  <2>3. Considered(request, p, e, q)
    BY <1>1, <1>2, <1>10, <2>1, <2>2, EdgeIsConsidered
  <2>4. GraphInv' /\ PhaseInv' /\ PathsInv'
    BY <1>1, <1>2, <1>10, <2>2, <2>3, ConsideredKeeps
  <2>5. phase' \in {"Walk", "Done", "Failed"}
    BY <1>1, <2>3 DEF Considered
  <2>6. /\ phase' = "Done" => result'.truncated
        /\ phase' = "Failed" => TruthOf(e) = "ERROR"
    BY <2>3 DEF Considered
  <2>7. /\ states \subseteq states' /\ result.paths \subseteq result'.paths
        /\ result.cycleDetected => result'.cycleDetected
        /\ result.truncated => result'.truncated
        /\ \A x \in states' : \/ x \in states
                              \/ /\ x = q /\ GoesOn(request, End(request, q))
                                 /\ To(request, e) \notin On(request, p)
                                 /\ ~ result'.truncated => Len(q) # request.depth
        /\ \A x \in result'.paths : x \in result.paths \/ x = q
        /\ phase' # "Failed" /\ ~ result'.truncated
              => Settled(request, p, e, states', result'.paths, result'.cycleDetected)
    BY <2>3, <1>3 DEF Considered
  <2>8. q = row.steps /\ q \in Seq(Edges) /\ Len(q) = Len(p) + 1 /\ Len(p) \in Nat
    BY <1>2, KeyFacts
  <2> HIDE DEF q
  <2>9. Len(q) <= request.depth
    <3>1. \A m, n, d \in Nat : m = n + 1 /\ n < d => m <= d  OBVIOUS
    <3>2. Len(q) \in Nat /\ Len(p) < request.depth  BY <2>8, <1>2
    <3> QED  BY <3>1, <3>2, <2>8, <1>5
  <2>10. LevelInv' /\ DoneInv'
    BY <1>1, <2>5, <2>6 DEF TraceInv, LevelInv, DoneInv
  <2>11. \A x \in states' \cup result'.paths : Key(x) \in keys' /\ Len(x) <= request.depth
    BY <1>1, <1>4, <2>7, <2>8, <2>9
  <2>12. ASSUME phase' = "Walk", ~ result'.truncated, NEW x \in states'
         PROVE  /\ Len(x) < request.depth
                /\ \A f \in snapshot :
                    /\ From(request, f) = End(request, x)
                         => \/ Key(Append(x, f)) \in keys'
                            \/ RowOf(request, x, f) \in walk'
                    /\ Key(Append(x, f)) \in keys'
                         => Settled(request, x, f, states', result'.paths,
                                    result'.cycleDetected)
    <3>1. ~ result.truncated  BY <2>7, <2>12
    <3>2. CASE x \in states
      <4>1. Len(x) < request.depth  BY <3>1, <3>2, <1>4
      <4>2. ASSUME NEW f \in snapshot
            PROVE  /\ From(request, f) = End(request, x)
                         => \/ Key(Append(x, f)) \in keys'
                            \/ RowOf(request, x, f) \in walk'
                   /\ Key(Append(x, f)) \in keys'
                         => Settled(request, x, f, states', result'.paths,
                                    result'.cycleDetected)
        <5>1. /\ From(request, f) = End(request, x)
                   => \/ Key(Append(x, f)) \in keys'
                      \/ RowOf(request, x, f) \in walk'
              /\ \/ Key(Append(x, f)) = Key(row.steps)
                 \/ Key(Append(x, f)) \in keys'
                      => Settled(request, x, f, states, result.paths, result.cycleDetected)
          BY <3>1, <3>2, WalkRowOldStates
        <5>2. CASE Key(Append(x, f)) = Key(row.steps)
          <6>1. x = p /\ f = e  BY <5>2, <3>2, <2>8, <1>8
          <6> QED  BY <6>1, <5>1, <2>7, <2>12
        <5>3. CASE /\ Key(Append(x, f)) \in keys'
                   /\ Settled(request, x, f, states, result.paths, result.cycleDetected)
          <6>1. Settled(request, x, f, states', result'.paths, result'.cycleDetected)
            BY <5>3, <2>7, SettledStays
          <6> QED  BY <6>1, <5>1
        <5>4. CASE Key(Append(x, f)) \notin keys'
          BY <5>1, <5>4
        <5> QED  BY <5>1, <5>2, <5>3, <5>4
      <4> QED  BY <4>1, <4>2
    <3>3. CASE x \notin states
      <4>1. /\ x = q /\ GoesOn(request, End(request, q))
            /\ To(request, e) \notin On(request, p) /\ Len(q) # request.depth
        BY <3>3, <2>7, <2>12
      <4>2. Len(q) < request.depth
        <5>1. \A m, d \in Nat : m <= d /\ m # d => m < d  OBVIOUS
        <5>2. Len(q) \in Nat  BY <2>8
        <5> QED  BY <5>1, <5>2, <4>1, <2>9, <1>5
      <4>3. ~ row.cycle /\ ~ (Len(row.steps) >= request.depth)
        <5>1. \A m, d \in Nat : m < d => ~ (m >= d)  OBVIOUS
        <5>2. Len(q) \in Nat  BY <2>8
        <5> QED  BY <5>1, <5>2, <4>1, <4>2, <2>8, <1>2, <1>5
      <4>4. CanExpand(Current(row.steps))  BY <4>1, <2>8, OfTheRequest
      <4>5. Successors(row) = RowsFrom(q, snapshot)
        BY <4>3, <4>4, <2>8 DEF Successors
      <4>6. RowsFrom(q, snapshot) = {RowOf(request, q, f) :
                 f \in {g \in snapshot : From(request, g) = End(request, q)}}
        BY <2>8, RowFacts
      <4>7. \A f \in snapshot : From(request, f) = End(request, q)
                                   => RowOf(request, q, f) \in walk'
        BY <4>5, <4>6, <1>1
      <4>8. \A f \in snapshot : Key(Append(q, f)) \notin keys'
        BY <2>8, WalkRowRows
      <4> QED  BY <4>1, <4>2, <4>7, <4>8
    <3> QED  BY <3>2, <3>3
  <2>13. WalkInv'
    BY <2>5, <2>11, <2>12, <1>1, <1>4, WalkRowRows DEF WalkInv
  <2> QED  BY <2>4, <2>6, <2>10, <2>13, <1>2 DEF TraceInv
<1> QED  BY <1>6, <1>9, <1>10

LEMMA WalkEndsKeeps ==
    ASSUME TraceInv, WalkEnds
    PROVE  TraceInv'
<1>1. /\ phase = "Walk"
      /\ effective' = effective /\ request' = request /\ snapshot' = snapshot
      /\ depth' = depth /\ always' = always /\ ever' = ever
  BY DEF WalkEnds, graphVars, searchVars, walkVars
<1>2. CASE Stop
  BY <1>1, <1>2, StopKeeps
<1>3. CASE walk = {} /\ phase' = "Done" /\ states' = states /\ result' = result
  <2>1. GraphInv'  BY <1>1, <1>3 DEF TraceInv, GraphInv, UnderWay
  <2>2. PhaseInv'  BY <1>1, <1>3 DEF TraceInv, PhaseInv, Phases
  <2>3. Found' = Found  BY <1>1 DEF Found
  <2>4. PathsInv'  BY <2>3, <1>1, <1>3 DEF TraceInv, PathsInv
  <2>5. LevelInv' /\ WalkInv'
    BY <1>1, <1>3 DEF TraceInv, LevelInv, WalkInv
  <2>6. DoneInv'
    <3> SUFFICES ASSUME ~ result.truncated, NEW p \in states, NEW e \in always
                 PROVE  Settled(request, p, e, states, result.paths, result.cycleDetected)
      BY <1>1, <1>3 DEF DoneInv
    <3>1. e \in snapshot  BY <1>1 DEF TraceInv, WalkInv
    <3>2. /\ From(request, e) = End(request, p) => Key(Append(p, e)) \in keys
          /\ Key(Append(p, e)) \in keys
                => Settled(request, p, e, states, result.paths, result.cycleDetected)
      BY <3>1, <1>1, <1>3 DEF TraceInv, WalkInv
    <3>3. CASE From(request, e) = End(request, p)
      BY <3>2, <3>3
    <3>4. CASE From(request, e) # End(request, p)
      BY <3>4 DEF Settled, Leads
    <3> QED  BY <3>3, <3>4
  <2> QED  BY <2>1, <2>2, <2>4, <2>5, <2>6 DEF TraceInv
<1> QED  BY <1>2, <1>3 DEF WalkEnds

LEMMA StepKeeps ==
    ASSUME TraceInv, [TraceNext]_traceVars
    PROVE  TraceInv'
<1>1. CASE \E e \in Edges : PublishEdge(e) \/ RemoveEdge(e)
  BY <1>1, PublishEdgeKeeps, RemoveEdgeKeeps
<1>2. CASE \E r \in TraceRequests : Trace(r)
  BY <1>2, TraceKeeps
<1>3. CASE LoadEdges
  BY <1>3, LoadEdgesKeeps
<1>4. CASE LoadNothing
  BY <1>4, LoadNothingKeeps
<1>5. CASE NextLevel
  BY <1>5, NextLevelKeeps
<1>6. CASE \E pe \in pending : ExpandEdge(pe[1], pe[2])
  BY <1>6, ExpandEdgeKeeps
<1>7. CASE LoadRecursiveEdges
  BY <1>7, LoadRecursiveEdgesKeeps
<1>8. CASE WalkEnds
  BY <1>8, WalkEndsKeeps
<1>9. CASE \E row \in walk : WalkRow(row)
  BY <1>9, WalkRowKeeps
<1>10. CASE UNCHANGED traceVars
  <2>1. /\ effective' = effective /\ phase' = phase /\ request' = request
        /\ pending' = pending /\ cut' = cut /\ depth' = depth
        /\ walk' = walk /\ snapshot' = snapshot /\ keys' = keys
        /\ states' = states /\ result' = result
        /\ always' = always /\ ever' = ever
    BY <1>10 DEF traceVars, graphVars, searchVars, walkVars, foundVars
  <2>2. GraphInv' /\ PhaseInv'
    BY <2>1 DEF TraceInv, GraphInv, UnderWay, PhaseInv
  <2>3. Found' = Found  BY <2>1 DEF Found
  <2>4. PathsInv'  BY <2>1, <2>3 DEF TraceInv, PathsInv
  <2>5. LevelInv' /\ WalkInv' /\ DoneInv'
    BY <2>1 DEF TraceInv, LevelInv, WalkInv, DoneInv
  <2> QED  BY <2>2, <2>4, <2>5 DEF TraceInv
<1>11. CASE \E G \in DeclaredGraphs : ReconcileEdges(G)
  BY <1>11, ReconcileEdgesKeeps
<1> QED
  BY <1>1, <1>2, <1>3, <1>4, <1>5, <1>6, <1>7, <1>8, <1>9, <1>10, <1>11 DEF TraceNext

\* The invariant of the two searches: what may be extended and listed is a path
\* over the edges the search saw, each considered once; and an edge of a known
\* path is pending, in the query, settled, or the result is truncated.
THEOREM TraceInvariantHolds == TraceSpec => []TraceInv
<1>1. TraceInit => TraceInv  BY InitHolds
<1>2. TraceInv /\ [TraceNext]_traceVars => TraceInv'  BY StepKeeps
<1> QED  BY <1>1, <1>2, PTL DEF TraceSpec

-----------------------------------------------------------------------------
(* What the invariant says of a trace.                                     *)

\* A trace lists answers to its request over the edges it saw, no path twice
\* and none longer than the request allows, whatever approvals and suppressions
\* come between its queries.
THEOREM TracesAreSound == TraceSpec => []TraceSound
<1>1. TraceInv => TraceSound
  <2> SUFFICES ASSUME TraceInv, request # Absent  PROVE TraceSound
    BY DEF TraceSound
  <2>1. phase # "Idle"  BY SMTT(30) DEF TraceInv, PhaseInv
  <2>2. request.start \in Nodes  BY <2>1, RequestIsValid DEF ValidRequest
  <2> DEFINE G == IF Recursive THEN snapshot ELSE ever
  <2>3. Found = G /\ G \in SUBSET Edges
    BY DEF Found, Recursive, TraceInv, GraphInv
  <2> HIDE DEF G
  <2>4. ASSUME NEW p \in result.paths
        PROVE  p \in Answer(G) /\ Len(p) <= request.depth
    <3>1. /\ p \in Seq(G) /\ Path(request, p) /\ p \in Seq(Edges)
          /\ p # <<>> /\ Len(p) <= request.depth
          /\ Ends(request, End(request, p))
      BY <2>1, <2>3 DEF TraceInv, PathsInv, Path
    <3>2. p \in Followed(G)  BY <3>1, <2>2, <2>3, FollowedIsPath
    <3>3. AtTarget(Current(p))  BY <3>1, OfTheRequest
    <3> QED  BY <3>1, <3>2, <3>3 DEF Answer
  <2>5. result.paths \subseteq Answer(G)  BY <2>4
  <2>6. result.listed = Cardinality(result.paths) /\ snapshot \subseteq ever
    BY DEF TraceInv, PathsInv, GraphInv
  <2> QED  BY <2>4, <2>5, <2>6 DEF TraceSound, G
<1> QED  BY <1>1, TraceInvariantHolds, PTL

\* A trace that tells of no limit lists every path over the edges that were
\* effective all along and reports their cycles: whatever a limit of depth,
\* nodes, paths, states, frontier, expansions, loaded or listed bytes cuts off,
\* the result says so.
THEOREM TracesAreComplete == TraceSpec => []TraceComplete
<1>1. TraceInv => TraceComplete
  <2> SUFFICES ASSUME TraceInv, phase = "Done", ~ result.truncated
               PROVE  /\ Answer(always) \subseteq result.paths
                      /\ MeetsCycle(always) => result.cycleDetected
    BY SMTT(30) DEF TraceComplete
  <2>1. request.start \in Nodes  BY RequestIsValid DEF ValidRequest
  <2>2. always \in SUBSET Edges  BY DEF TraceInv, GraphInv
  <2>3. <<>> \in states  BY DEF TraceInv, PathsInv
  <2>4. Through(request, always, states, result.paths, result.cycleDetected)
    BY <2>3 DEF TraceInv, DoneInv, Through
  <2>5. ASSUME NEW p \in Followed(always)
        PROVE  /\ p \in Seq(always) /\ p \in Seq(Edges) /\ Path(request, p)
               /\ p # <<>> /\ Ends(request, End(request, p)) => p \in result.paths
               /\ \A e \in always :
                      GoesOn(request, End(request, p)) /\ Leads(request, p, e)
                      /\ To(request, e) \in On(request, p)
                          => result.cycleDetected
    <3>1. p \in Seq(always) /\ Path(request, p) /\ p \in Seq(Edges)
      BY <2>1, <2>2, FollowedIsPath DEF Path
    <3>2. result.cycleDetected \in BOOLEAN  BY DEF TraceInv, PathsInv, Results
    <3>3. /\ p # <<>> /\ Ends(request, End(request, p)) => p \in result.paths
          /\ \A e \in always :
                 GoesOn(request, End(request, p)) /\ Leads(request, p, e)
                 /\ To(request, e) \in On(request, p)
                     => result.cycleDetected
      BY <2>2, <2>4, <3>1, SettledIsComplete
    <3> QED  BY <3>1, <3>3
  <2>6. ASSUME NEW p \in Answer(always)  PROVE p \in result.paths
    <3>1. p \in Followed(always) /\ p # <<>> /\ AtTarget(Current(p))
      BY DEF Answer
    <3>2. Ends(request, End(request, p))  BY <3>1, <2>5, OfTheRequest
    <3> QED  BY <3>1, <3>2, <2>5
  <2>7. ASSUME MeetsCycle(always)  PROVE result.cycleDetected
    <3>1. PICK p \in Followed(always), e \in always :
             /\ CanExpand(Current(p))
             /\ Behind(e) = Current(p)
             /\ TruthOf(e) # "FALSE"
             /\ Ahead(e) \in NodesOf(p)
      BY <2>7 DEF MeetsCycle
    <3>2. p \in Seq(Edges)  BY <2>5
    <3>3. /\ GoesOn(request, End(request, p))
          /\ Leads(request, p, e)
          /\ To(request, e) \in On(request, p)
      BY <3>1, <3>2, OfTheRequest DEF Leads
    <3> QED  BY <3>3, <2>5
  <2> QED  BY <2>6, <2>7
<1> QED  BY <1>1, TraceInvariantHolds, PTL

-----------------------------------------------------------------------------
(* Conditions.  What an expression yields depends on what is below it only. *)

LEMMA LeastOfNaturals ==
    ASSUME NEW S \in SUBSET Nat, S # {}
    PROVE  Min(S) \in S /\ \A x \in S : Min(S) <= x
<1>1. PICK m \in S : \A k \in S : ~ (<<k, m>> \in OpToRel(<, Nat))
  BY WFMin, NatLessThanWellFounded
<1>2. \A k \in S : m <= k
  <2>1. \A k \in S : ~ (k < m)  BY <1>1 DEF OpToRel
  <2> QED  BY <2>1
<1> QED  BY <1>2 DEF Min

LEMMA ElementsOfSeq ==
    ASSUME NEW S, NEW s \in Seq(S)
    PROVE  /\ DOMAIN s = 1..Len(s) /\ Len(s) \in Nat
           /\ \A i \in DOMAIN s : s[i] \in S
OBVIOUS

\* Each element of s is one of w.
Occurs(s, w) == \A i \in DOMAIN s : \E k \in DOMAIN w : w[k] = s[i]

LEMMA ElementsOfConcat ==
    ASSUME NEW S, NEW s \in Seq(S), NEW t \in Seq(S)
    PROVE  s \o t \in Seq(S) /\ Occurs(s, s \o t) /\ Occurs(t, s \o t)
<1>1. /\ s \o t \in Seq(S)
      /\ DOMAIN s = 1..Len(s) /\ DOMAIN t = 1..Len(t)
      /\ Len(s) \in Nat /\ Len(t) \in Nat
      /\ DOMAIN (s \o t) = 1..(Len(s) + Len(t))
  OBVIOUS
<1>2. ASSUME NEW i \in DOMAIN s
      PROVE  i \in DOMAIN (s \o t) /\ (s \o t)[i] = s[i]
  BY <1>1
<1>3. ASSUME NEW i \in DOMAIN t
      PROVE  Len(s) + i \in DOMAIN (s \o t) /\ (s \o t)[Len(s) + i] = t[i]
  BY <1>1
<1> QED  BY <1>1, <1>2, <1>3 DEF Occurs

\* The sorts of what is below an expression, which is a smaller tree.
LEMMA BelowBooleans ==
    ASSUME NEW e \in Booleans
    PROVE  /\ e \in Expressions
           /\ e.kind \in {"and", "or", "not", "compare", "in", "not_in", "is_null", "is_not_null"}
           /\ e.kind \in {"and", "or"} =>
                 /\ e.children \in Seq(Booleans)
                 /\ \A i \in DOMAIN e.children : Depth[e.children[i]] < Depth[e]
           /\ e.kind = "not" => e.operand \in Booleans /\ Depth[e.operand] < Depth[e]
           /\ e.kind = "compare" =>
                 /\ e.left \in Values /\ e.right \in Values
                 /\ e.operator \in {"eq", "ne", "gt", "gte", "lt", "lte"}
                 /\ Depth[e.left] < Depth[e] /\ Depth[e.right] < Depth[e]
           /\ e.kind \in {"in", "not_in", "is_null", "is_not_null"} =>
                 e.left \in Values /\ Depth[e.left] < Depth[e]
           /\ e.kind \in {"in", "not_in"} =>
                 /\ e.values \in Seq(Values)
                 /\ \A i \in DOMAIN e.values : Depth[e.values[i]] < Depth[e]
<1>1. /\ e \in Expressions
      /\ IsBoolean(e)
      /\ \A i \in DOMAIN Below(e) : Depth[Below(e)[i]] < Depth[e]
  BY ConditionsAssumption DEF ConditionsAssumption, Expressions
<1>2. e.kind \in {"and", "or", "not", "compare", "in", "not_in", "is_null", "is_not_null"}
  BY <1>1, SMTT(30) DEF IsBoolean
<1>10. /\ e.kind \in {"and", "or"} => Below(e) = e.children
       /\ e.kind = "not" => Below(e) = <<e.operand>>
       /\ e.kind = "compare" => Below(e) = <<e.left, e.right>>
       /\ e.kind \in {"in", "not_in"} => Below(e) = <<e.left>> \o e.values
       /\ e.kind \in {"is_null", "is_not_null"} => Below(e) = <<e.left>>
  BY DEF Below
<1>3. e.kind \in {"and", "or"} =>
         e.children \in Seq(Booleans) /\ Below(e) = e.children
  BY <1>1, <1>10 DEF IsBoolean
<1>4. e.kind = "not" => e.operand \in Booleans /\ Below(e) = <<e.operand>>
  BY <1>1, <1>10 DEF IsBoolean
<1>5. e.kind = "compare" =>
         /\ e.left \in Values /\ e.right \in Values
         /\ e.operator \in {"eq", "ne", "gt", "gte", "lt", "lte"}
         /\ Below(e) = <<e.left, e.right>>
  BY <1>1, <1>10 DEF IsBoolean
<1>6. e.kind \in {"in", "not_in"} =>
         /\ e.left \in Values /\ e.values \in Seq(Values)
         /\ Below(e) = <<e.left>> \o e.values
  BY <1>1, <1>10 DEF IsBoolean
<1>7. e.kind \in {"is_null", "is_not_null"} => e.left \in Values /\ Below(e) = <<e.left>>
  BY <1>1, <1>10 DEF IsBoolean
<1>8. ASSUME e.kind \in {"in", "not_in"}
      PROVE  /\ Depth[e.left] < Depth[e]
             /\ \A i \in DOMAIN e.values : Depth[e.values[i]] < Depth[e]
  <2> DEFINE left == <<e.left>>
             values == e.values
  <2>1. left \in Seq(Values) /\ 1 \in DOMAIN left /\ left[1] = e.left
    BY <1>6, <1>8
  <2>2. values \in Seq(Values) /\ Below(e) = left \o values
    BY <1>6, <1>8
  <2> HIDE DEF left, values
  <2>3. Occurs(left, Below(e)) /\ Occurs(values, Below(e))
    BY <2>1, <2>2, ElementsOfConcat
  <2>4. \E k \in DOMAIN Below(e) : Below(e)[k] = e.left
    BY <2>1, <2>3 DEF Occurs
  <2> QED  BY <1>1, <2>3, <2>4 DEF values, Occurs
<1>9. ASSUME e.kind \in {"not", "is_null", "is_not_null", "compare"}
      PROVE  /\ e.kind = "not" => Depth[e.operand] < Depth[e]
             /\ e.kind # "not" => Depth[e.left] < Depth[e]
             /\ e.kind = "compare" => Depth[e.right] < Depth[e]
  BY <1>1, <1>4, <1>5, <1>7, <1>9
<1> QED  BY <1>1, <1>2, <1>3, <1>4, <1>5, <1>6, <1>7, <1>8, <1>9

LEMMA BelowValues ==
    ASSUME NEW v \in Values
    PROVE  /\ v \in Expressions /\ v \notin Booleans
           /\ v.kind \in {"reference", "literal", "case"}
           /\ v.kind = "case" =>
                 /\ v.cases \in Seq([when : Booleans, then : Values])
                 /\ v.else \in Values /\ Depth[v.else] < Depth[v]
                 /\ \A i \in DOMAIN v.cases : /\ v.cases[i].when \in Booleans
                                              /\ v.cases[i].then \in Values
                                              /\ Depth[v.cases[i].when] < Depth[v]
                                              /\ Depth[v.cases[i].then] < Depth[v]
<1>1. /\ v \in Expressions
      /\ IsValue(v)
      /\ \A i \in DOMAIN Below(v) : Depth[Below(v)[i]] < Depth[v]
  BY ConditionsAssumption DEF ConditionsAssumption, Expressions
<1>2. v.kind \in {"reference", "literal", "case"}
  BY <1>1 DEF IsValue
<1>3. v \notin Booleans
  BY <1>2, BelowBooleans
<1>4. ASSUME v.kind = "case"
      PROVE  /\ v.cases \in Seq([when : Booleans, then : Values])
             /\ v.else \in Values /\ Depth[v.else] < Depth[v]
             /\ \A i \in DOMAIN v.cases : /\ v.cases[i].when \in Booleans
                                          /\ v.cases[i].then \in Values
                                          /\ Depth[v.cases[i].when] < Depth[v]
                                          /\ Depth[v.cases[i].then] < Depth[v]
  <2> DEFINE whens == [i \in DOMAIN v.cases |-> v.cases[i].when]
             thens == [i \in DOMAIN v.cases |-> v.cases[i].then]
  <2>1. v.cases \in Seq([when : Booleans, then : Values]) /\ v.else \in Values
    BY <1>1, <1>4 DEF IsValue
  <2>2. \A i \in DOMAIN v.cases : v.cases[i].when \in Booleans /\ v.cases[i].then \in Values
    <3> DEFINE B == [when : Booleans, then : Values]
    <3>1. \A i \in DOMAIN v.cases : v.cases[i] \in B
      <4> HIDE DEF B
      <4> QED  BY <2>1, ElementsOfSeq DEF B
    <3> QED  BY <3>1
  <2>3. DOMAIN v.cases = 1..Len(v.cases) /\ Len(v.cases) \in Nat
    BY <2>1
  <2>4. whens \in Seq(Expressions) /\ thens \in Seq(Expressions) /\ <<v.else>> \in Seq(Expressions)
    BY <2>1, <2>2, <2>3 DEF Expressions
  <2>5. Below(v) = whens \o thens \o <<v.else>>
    BY <1>4 DEF Below
  <2> HIDE DEF whens, thens
  <2> DEFINE both == whens \o thens
  <2>6. both \in Seq(Expressions) /\ Occurs(whens, both) /\ Occurs(thens, both)
    BY <2>4, ElementsOfConcat
  <2> DEFINE last == <<v.else>>
  <2>12. /\ both \in Seq(Expressions) /\ last \in Seq(Expressions)
         /\ Below(v) = both \o last
         /\ 1 \in DOMAIN last /\ last[1] = v.else
    BY <2>4, <2>5, <2>6 DEF both
  <2> HIDE DEF both, last
  <2>7. Occurs(both, Below(v)) /\ Occurs(last, Below(v))
    BY <2>12, ElementsOfConcat
  <2>8. \A i \in DOMAIN both : Depth[both[i]] < Depth[v]
    BY <2>7, <2>12, <1>1 DEF Occurs
  <2>9. \A i \in DOMAIN v.cases : Depth[whens[i]] < Depth[v] /\ Depth[thens[i]] < Depth[v]
    <3>1. DOMAIN whens = DOMAIN v.cases /\ DOMAIN thens = DOMAIN v.cases
      BY DEF whens, thens
    <3>2. /\ \A i \in DOMAIN whens : \E k \in DOMAIN both : both[k] = whens[i]
          /\ \A i \in DOMAIN thens : \E k \in DOMAIN both : both[k] = thens[i]
      BY <2>6 DEF Occurs
    <3> QED  BY <3>1, <3>2, <2>8
  <2>10. Depth[v.else] < Depth[v]
    BY <2>7, <2>12, <1>1 DEF Occurs
  <2>11. \A i \in DOMAIN v.cases : whens[i] = v.cases[i].when /\ thens[i] = v.cases[i].then
    BY DEF whens, thens
  <2> QED  BY <2>1, <2>2, <2>9, <2>10, <2>11
<1> QED  BY <1>1, <1>2, <1>3, <1>4

\* What an expression yields, given what those below it yield.
Yield(e, context, results) ==
    IF e \in Booleans THEN EvaluateBoolean(e, results) ELSE EvaluateValue(e, context, results)

LEMMA YieldIsLocal ==
    ASSUME NEW e \in Expressions, NEW context, NEW f, NEW g,
           \A x \in Expressions : Depth[x] < Depth[e] => f[x] = g[x]
    PROVE  Yield(e, context, f) = Yield(e, context, g)
<1>1. CASE e \in Booleans
  <2>1. \A es \in Seq(Expressions) :
           (\A i \in DOMAIN es : Depth[es[i]] < Depth[e])
              => [i \in DOMAIN es |-> f[es[i]]] = [i \in DOMAIN es |-> g[es[i]]]
    <3>1. \A es \in Seq(Expressions) : \A i \in DOMAIN es : es[i] \in Expressions
      OBVIOUS
    <3> QED  BY <3>1
  <2>2. Booleans \subseteq Expressions /\ Values \subseteq Expressions
    BY DEF Expressions
  <2>3. Seq(Booleans) \subseteq Seq(Expressions) /\ Seq(Values) \subseteq Seq(Expressions)
    BY <2>2
  <2>4. CASE e.kind \in {"and", "or"}
    <3>1. [i \in DOMAIN e.children |-> f[e.children[i]]]
             = [i \in DOMAIN e.children |-> g[e.children[i]]]
      BY <1>1, <2>1, <2>3, <2>4, BelowBooleans
    <3> QED  BY <1>1, <2>4, <3>1 DEF Yield, EvaluateBoolean
  <2>5. CASE e.kind = "not"
    <3>1. f[e.operand] = g[e.operand]  BY <1>1, <2>2, <2>5, BelowBooleans
    <3> QED  BY <1>1, <2>5, <3>1 DEF Yield, EvaluateBoolean
  <2>6. CASE e.kind = "compare"
    <3>1. f[e.left] = g[e.left] /\ f[e.right] = g[e.right]
      BY <1>1, <2>2, <2>6, BelowBooleans
    <3> QED  BY <1>1, <2>6, <3>1 DEF Yield, EvaluateBoolean
  <2>7. CASE e.kind \in {"in", "not_in"}
    <3>1. f[e.left] = g[e.left]
      BY <1>1, <2>2, <2>7, BelowBooleans
    <3>2. [i \in DOMAIN e.values |-> f[e.values[i]]] = [i \in DOMAIN e.values |-> g[e.values[i]]]
      BY <1>1, <2>1, <2>3, <2>7, BelowBooleans
    <3> QED  BY <1>1, <2>7, <3>1, <3>2 DEF Yield, EvaluateBoolean
  <2>8. CASE e.kind \in {"is_null", "is_not_null"}
    <3>1. f[e.left] = g[e.left]  BY <1>1, <2>2, <2>8, BelowBooleans
    <3> QED  BY <1>1, <2>8, <3>1 DEF Yield, EvaluateBoolean
  <2> QED  BY <1>1, <2>4, <2>5, <2>6, <2>7, <2>8, BelowBooleans
<1>2. CASE e \notin Booleans
  <2>1. e \in Values  BY <1>2, Zenon DEF Expressions
  <2>2. CASE e.kind \in {"reference", "literal"}
    BY <1>2, <2>2, Zenon DEF Yield, EvaluateValue
  <2>3. CASE e.kind = "case"
    <3>1. /\ f[e.else] = g[e.else]
          /\ \A i \in DOMAIN e.cases : /\ f[e.cases[i].when] = g[e.cases[i].when]
                                       /\ f[e.cases[i].then] = g[e.cases[i].then]
      BY <2>1, <2>3, BelowValues DEF Expressions
    <3> DEFINE F == [i \in DOMAIN e.cases |-> f[e.cases[i].when]]
               G == [i \in DOMAIN e.cases |-> g[e.cases[i].when]]
    <3>2. F = G  BY <3>1, Zenon
    <3>3. Branch(F) # 0 => Branch(F) \in DOMAIN e.cases
      <4> DEFINE taken == {i \in DOMAIN F : F[i].truth # "FALSE"}
      <4>1. taken \subseteq Nat
        <5> DEFINE B == [when : Booleans, then : Values]
        <5>1. e.cases \in Seq(B)  BY <2>1, <2>3, BelowValues
        <5>2. DOMAIN F = DOMAIN e.cases  OBVIOUS
        <5> HIDE DEF B, F
        <5>3. DOMAIN F \subseteq Nat  BY <5>1, <5>2, ElementsOfSeq
        <5> QED  BY <5>3
      <4>2. taken # {} => Min(taken) \in taken
        BY <4>1, LeastOfNaturals, Zenon
      <4> QED  BY <4>2, Zenon DEF Branch
    <3> HIDE DEF F, G
    <3>4. EvaluateValue(e, context, f)
             = CASE Branch(F) = 0 -> f[e.else]
                 [] Branch(F) # 0 /\ F[Branch(F)].truth = "UNKNOWN"
                        -> Unresolved(F[Branch(F)].missing)
                 [] OTHER -> f[e.cases[Branch(F)].then]
      BY <2>3, Zenon DEF EvaluateValue, F
    <3>5. EvaluateValue(e, context, g)
             = CASE Branch(G) = 0 -> g[e.else]
                 [] Branch(G) # 0 /\ G[Branch(G)].truth = "UNKNOWN"
                        -> Unresolved(G[Branch(G)].missing)
                 [] OTHER -> g[e.cases[Branch(G)].then]
      BY <2>3, Zenon DEF EvaluateValue, G
    <3>6. Branch(F) # 0 => f[e.cases[Branch(F)].then] = g[e.cases[Branch(F)].then]
      BY <3>1, <3>3
    <3> QED  BY <1>2, <3>1, <3>2, <3>4, <3>5, <3>6 DEF Yield
  <2> QED  BY <2>1, <2>2, <2>3, BelowValues
<1> QED  BY <1>1, <1>2

-----------------------------------------------------------------------------
(* Evaluation yields a result for each expression that is not too deep.    *)

\* f is the table of results of the expressions of depth n and less.
Table(context, n, f) ==
    f = [e \in {x \in Expressions : Depth[x] <= n} |-> Yield(e, context, f)]

LEMMA TablesExist ==
    ASSUME NEW context
    PROVE  \A n \in Nat : \E f : Table(context, n, f)
<1> DEFINE Upto(n) == {x \in Expressions : Depth[x] <= n}
           Bad == {n \in Nat : ~ \E f : Table(context, n, f)}
<1>1. \A x \in Expressions : Depth[x] \in Nat
  BY ConditionsAssumption DEF ConditionsAssumption
<1> SUFFICES ASSUME Bad # {}  PROVE FALSE
  OBVIOUS
<1>2. PICK n \in Bad : \A k \in Bad : n <= k
  <2>1. Bad \subseteq Nat  OBVIOUS
  <2> HIDE DEF Bad
  <2> QED  BY <2>1, LeastOfNaturals
<1>3. n \in Nat /\ ~ \E f : Table(context, n, f)
  OBVIOUS
\* Without what is below, there is the table of the previous depth.
<1>4. \E g : \A e \in Upto(n), x \in Expressions :
                Depth[x] < Depth[e] => x \in DOMAIN g /\ g[x] = Yield(x, context, g)
  <2>1. CASE n = 0
    <3>1. \A e \in Upto(n), x \in Expressions : ~ (Depth[x] < Depth[e])
      BY <1>1, <2>1
    <3> QED  BY <3>1
  <2>2. CASE n # 0
    <3>1. n - 1 \in Nat /\ ~ (n <= n - 1)  BY <1>3, <2>2
    <3>2. PICK g : Table(context, n - 1, g)
      <4>1. n - 1 \notin Bad  BY <1>2, <3>1
      <4> QED  BY <3>1, <4>1
    <3>3. \A e \in Upto(n), x \in Expressions : Depth[x] < Depth[e] => x \in Upto(n - 1)
      BY <1>1, <1>3
    <3>4. \A x \in Upto(n - 1) : x \in DOMAIN g /\ g[x] = Yield(x, context, g)
      BY <3>2 DEF Table
    <3> QED  BY <3>3, <3>4
  <2> QED  BY <2>1, <2>2
<1>5. PICK g : \A e \in Upto(n), x \in Expressions :
                  Depth[x] < Depth[e] => x \in DOMAIN g /\ g[x] = Yield(x, context, g)
  BY <1>4
<1> DEFINE f == [e \in Upto(n) |-> Yield(e, context, g)]
<1>6. ASSUME NEW e \in Upto(n)
      PROVE  Yield(e, context, g) = Yield(e, context, f)
  <2>1. \A x \in Expressions : Depth[x] < Depth[e] => g[x] = f[x]
    <3>1. \A x \in Expressions : Depth[x] < Depth[e] => x \in Upto(n)
      BY <1>1, <1>3
    <3> QED  BY <3>1, <1>5
  <2> HIDE DEF f
  <2> QED  BY <2>1, YieldIsLocal
<1>7. f = [e \in Upto(n) |-> Yield(e, context, f)]
  <2> DEFINE h == [e \in Upto(n) |-> Yield(e, context, f)]
  <2>1. \A e \in Upto(n) : f[e] = h[e]  BY <1>6
  <2> QED  BY <2>1
<1>8. Table(context, n, f)
  BY <1>7 DEF Table
<1> QED  BY <1>3, <1>8

LEMMA ResultsFacts ==
    ASSUME NEW context
    PROVE  \A e \in Shallow : ResultsIn(context)[e] = Yield(e, context, ResultsIn(context))
<1>1. PICK f : Table(context, MaxDepth, f)
  BY TablesExist, ConditionsAssumption DEF ConditionsAssumption
<1>2. ResultsIn(context) = CHOOSE results : results =
          [e \in Shallow |-> IF e \in Booleans THEN EvaluateBoolean(e, results)
                                               ELSE EvaluateValue(e, context, results)]
  BY DEF ResultsIn
<1>3. f = [e \in Shallow |-> IF e \in Booleans THEN EvaluateBoolean(e, f)
                                               ELSE EvaluateValue(e, context, f)]
  BY <1>1 DEF Table, Yield, Shallow
<1>4. ResultsIn(context)
         = [e \in Shallow |-> IF e \in Booleans THEN EvaluateBoolean(e, ResultsIn(context))
                              ELSE EvaluateValue(e, context, ResultsIn(context))]
  BY <1>2, <1>3
<1> QED  BY <1>4 DEF Yield

-----------------------------------------------------------------------------
(* What more context does to a result.                                     *)

\* A result in the context c, and one in a context that knows more: a result
\* from which nothing is missing stays, and only what is unknown has something
\* missing, which c does not have.
Lasting(c, less, more) ==
    /\ less.missing \cap DOMAIN c = {}
    /\ less.missing = {} => more = less
TruthRefines(c, less, more) ==
    /\ less.truth \in {"TRUE", "FALSE", "UNKNOWN"}
    /\ less.truth # "UNKNOWN" => less.missing = {}
    /\ Lasting(c, less, more)
ValueRefines(c, less, more) ==
    /\ less.known \in BOOLEAN
    /\ less.known => less.missing = {}
    /\ Lasting(c, less, more)

LEMMA MissingFacts ==
    ASSUME NEW rs
    PROVE  /\ \A i \in DOMAIN rs : rs[i].missing \subseteq Missing(rs)
           /\ \A x \in Missing(rs) : \E i \in DOMAIN rs : x \in rs[i].missing
BY DEF Missing, Range

\* All results of two lists with the indices D.
AllLast(c, D, less, more) == \A i \in D : Lasting(c, less[i], more[i])

LEMMA ListsLast ==
    ASSUME NEW c, NEW D, NEW S, NEW less \in [D -> S], NEW more \in [D -> S],
           AllLast(c, D, less, more)
    PROVE  /\ Missing(less) \cap DOMAIN c = {}
           /\ Missing(less) = {} => more = less
<1>1. Missing(less) \cap DOMAIN c = {}
  BY MissingFacts DEF Lasting, AllLast
<1>2. ASSUME Missing(less) = {}  PROVE more = less
  <2>1. \A i \in D : less[i].missing = {}
    BY <1>2, MissingFacts
  <2>2. \A i \in D : more[i] = less[i]
    BY <2>1 DEF Lasting, AllLast
  <2> QED  BY <2>2
<1> QED  BY <1>1, <1>2

LEMMA DecidedFacts ==
    /\ \A b : /\ Decided(b).truth \in {"TRUE", "FALSE"}
              /\ Decided(b).truth = "TRUE" <=> b
              /\ Decided(b).missing = {}
    /\ \A m : Unknown(m).truth = "UNKNOWN" /\ Unknown(m).missing = m
    /\ \A m : /\ Unresolved(m).known \in BOOLEAN /\ ~ Unresolved(m).known
              /\ Unresolved(m).missing = m
    /\ \A v : Known(v).known \in BOOLEAN /\ Known(v).known /\ Known(v).missing = {} /\ Known(v).value = v
BY DEF Decided, Unknown, Unresolved, Known

TruthsRefine(c, D, less, more) == \A i \in D : TruthRefines(c, less[i], more[i])

LEMMA ConjunctionRefines ==
    ASSUME NEW c, NEW D, NEW S, NEW less \in [D -> S], NEW more \in [D -> S],
           TruthsRefine(c, D, less, more)
    PROVE  /\ TruthRefines(c, Conjunction(less), Conjunction(more))
           /\ Conjunction(less).truth = "UNKNOWN" => Conjunction(less).missing # {}
<1>1. /\ Missing(less) \cap DOMAIN c = {}
      /\ Missing(less) = {} => more = less
  <2>1. AllLast(c, D, less, more)  BY DEF AllLast, TruthsRefine, TruthRefines
  <2> QED  BY <2>1, ListsLast
<1>2. CASE \E i \in D : less[i].truth = "FALSE"
  <2>1. \E i \in D : more[i].truth = "FALSE"
    BY <1>2 DEF TruthsRefine, TruthRefines, Lasting
  <2>2. Conjunction(less) = Decided(FALSE) /\ Conjunction(more) = Decided(FALSE)
    BY <1>2, <2>1 DEF Conjunction, Range
  <2> QED  BY <2>2, DecidedFacts DEF TruthRefines, Lasting
<1>3. CASE (\A i \in D : less[i].truth # "FALSE") /\ Missing(less) # {}
  <2>1. Conjunction(less) = Unknown(Missing(less))
    BY <1>3 DEF Conjunction, Range
  <2> QED  BY <1>1, <1>3, <2>1, DecidedFacts DEF TruthRefines, Lasting
<1>4. CASE (\A i \in D : less[i].truth # "FALSE") /\ Missing(less) = {}
  <2>1. Conjunction(less) = Decided(TRUE)
    BY <1>4 DEF Conjunction, Range
  <2>2. Conjunction(more) = Conjunction(less)
    BY <1>1, <1>4
  <2> QED  BY <2>1, <2>2, DecidedFacts DEF TruthRefines, Lasting
<1> QED  BY <1>2, <1>3, <1>4

LEMMA DisjunctionRefines ==
    ASSUME NEW c, NEW D, NEW S, NEW less \in [D -> S], NEW more \in [D -> S],
           TruthsRefine(c, D, less, more)
    PROVE  TruthRefines(c, Disjunction(less), Disjunction(more))
<1>1. /\ Missing(less) \cap DOMAIN c = {}
      /\ Missing(less) = {} => more = less
  <2>1. AllLast(c, D, less, more)  BY DEF AllLast, TruthsRefine, TruthRefines
  <2> QED  BY <2>1, ListsLast
<1>2. CASE \E i \in D : less[i].truth = "TRUE"
  <2>1. \E i \in D : more[i].truth = "TRUE"
    BY <1>2 DEF TruthsRefine, TruthRefines, Lasting
  <2>2. Disjunction(less) = Decided(TRUE) /\ Disjunction(more) = Decided(TRUE)
    BY <1>2, <2>1 DEF Disjunction, Range
  <2> QED  BY <2>2, DecidedFacts DEF TruthRefines, Lasting
<1>3. CASE (\A i \in D : less[i].truth # "TRUE") /\ Missing(less) # {}
  <2>1. Disjunction(less) = Unknown(Missing(less))
    BY <1>3 DEF Disjunction, Range
  <2> QED  BY <1>1, <1>3, <2>1, DecidedFacts DEF TruthRefines, Lasting
<1>4. CASE (\A i \in D : less[i].truth # "TRUE") /\ Missing(less) = {}
  <2>1. Disjunction(less) = Decided(FALSE)
    BY <1>4 DEF Disjunction, Range
  <2>2. Disjunction(more) = Disjunction(less)
    BY <1>1, <1>4
  <2> QED  BY <2>1, <2>2, DecidedFacts DEF TruthRefines, Lasting
<1> QED  BY <1>2, <1>3, <1>4

LEMMA NegationRefines ==
    ASSUME NEW c, NEW less, NEW more, TruthRefines(c, less, more)
    PROVE  TruthRefines(c, Negation(less), Negation(more))
<1>1. CASE less.truth = "UNKNOWN"
  <2>1. Negation(less) = less  BY <1>1 DEF Negation
  <2>2. less.missing = {} => Negation(more) = less  BY <1>1 DEF Negation, TruthRefines, Lasting
  <2> QED  BY <2>1, <2>2 DEF TruthRefines, Lasting
<1>2. CASE less.truth # "UNKNOWN"
  <2>1. more = less  BY <1>2 DEF TruthRefines, Lasting
  <2>2. Negation(less) = Decided(less.truth = "FALSE")  BY <1>2 DEF Negation
  <2> QED  BY <2>1, <2>2, DecidedFacts DEF TruthRefines, Lasting
<1> QED  BY <1>1, <1>2

LEMMA ComparedFacts ==
    ASSUME NEW l, NEW r, NEW operator \in {"eq", "ne", "gt", "gte", "lt", "lte"}
    PROVE  /\ Compared(l, operator, r).truth \in {"TRUE", "FALSE", "UNKNOWN"}
           /\ Compared(l, operator, r).missing = {}
<1>1. (\E b : Compared(l, operator, r) = Decided(b)) \/ Compared(l, operator, r) = Unknown({})
  BY DEF Compared
<1> QED  BY <1>1, DecidedFacts

LEMMA ComparisonRefines ==
    ASSUME NEW c, NEW left, NEW left2, NEW right, NEW right2,
           ValueRefines(c, left, left2), ValueRefines(c, right, right2),
           NEW operator \in {"eq", "ne", "gt", "gte", "lt", "lte"}
    PROVE  TruthRefines(c, Comparison(left, operator, right),
                           Comparison(left2, operator, right2))
<1>1. left.missing = {} /\ right.missing = {} => left2 = left /\ right2 = right
  BY DEF ValueRefines, Lasting
<1>2. CASE left.known /\ right.known
  <2>1. Comparison(left, operator, right) = Compared(left.value, operator, right.value)
    BY <1>2 DEF Comparison
  <2>2. left2 = left /\ right2 = right
    BY <1>1, <1>2 DEF ValueRefines
  <2> QED  BY <2>1, <2>2, ComparedFacts DEF TruthRefines, Lasting
<1>3. CASE ~ (left.known /\ right.known)
  <2>1. Comparison(left, operator, right) = Unknown(left.missing \cup right.missing)
    BY <1>3 DEF Comparison
  <2>2. left.missing \cup right.missing = {} => left2 = left /\ right2 = right
    BY <1>1
  <2>3. (left.missing \cup right.missing) \cap DOMAIN c = {}
    BY DEF ValueRefines, Lasting
  <2> QED  BY <2>1, <2>2, <2>3, DecidedFacts DEF TruthRefines, Lasting
<1> QED  BY <1>2, <1>3

LEMMA MembershipRefines ==
    ASSUME NEW c, NEW left, NEW left2, NEW wanted,
           NEW D, NEW S, NEW less \in [D -> S], NEW more \in [D -> S],
           ValueRefines(c, left, left2),
           \A i \in D : ValueRefines(c, less[i], more[i])
    PROVE  TruthRefines(c, Membership(left, less, wanted), Membership(left2, more, wanted))
<1> DEFINE Matches(l, cs) == \E r \in Range(cs) :
                                r.known /\ Compared(l.value, "eq", r.value).truth = "TRUE"
<1>1. /\ Missing(less) \cap DOMAIN c = {}
      /\ Missing(less) = {} => more = less
  <2>1. AllLast(c, D, less, more)  BY DEF AllLast, ValueRefines
  <2> QED  BY <2>1, ListsLast
<1>2. \A l, cs : Membership(l, cs, wanted) =
                    IF ~ l.known THEN Unknown(l.missing)
                    ELSE IF ~ Matches(l, cs) /\ Missing(cs) # {} THEN Unknown(Missing(cs))
                    ELSE Decided(Matches(l, cs) = wanted)
  BY DEF Membership
<1>3. CASE ~ left.known
  <2> HIDE DEF Matches
  <2>1. Membership(left, less, wanted) = Unknown(left.missing)
    BY <1>2, <1>3, Zenon
  <2>2. left.missing = {} => left2 = left
    BY DEF ValueRefines, Lasting
  <2>3. left.missing = {} => Membership(left2, more, wanted) = Unknown(left.missing)
    BY <1>2, <1>3, <2>2, Zenon
  <2> QED  BY <2>1, <2>3, DecidedFacts DEF TruthRefines, ValueRefines, Lasting
<1>4. CASE left.known /\ Matches(left, less)
  <2>1. left2 = left
    BY <1>4 DEF ValueRefines, Lasting
  <2>2. Matches(left, more)
    <3>1. PICK i \in D : /\ less[i].known
                         /\ Compared(left.value, "eq", less[i].value).truth = "TRUE"
      BY <1>4 DEF Range
    <3>2. more[i] = less[i]
      BY <3>1 DEF ValueRefines, Lasting
    <3>3. more[i] \in Range(more)
      BY DEF Range
    <3> QED  BY <3>1, <3>2, <3>3
  <2> HIDE DEF Matches
  <2>3. Membership(left, less, wanted) = Decided(TRUE = wanted)
        /\ Membership(left2, more, wanted) = Decided(TRUE = wanted)
    BY <1>2, <1>4, <2>1, <2>2
  <2> QED  BY <2>3, DecidedFacts DEF TruthRefines, Lasting
<1>5. CASE left.known /\ ~ Matches(left, less) /\ Missing(less) # {}
  <2> HIDE DEF Matches
  <2>1. Membership(left, less, wanted) = Unknown(Missing(less))
    BY <1>2, <1>5
  <2> QED  BY <1>1, <1>5, <2>1, DecidedFacts DEF TruthRefines, Lasting
<1>6. CASE left.known /\ ~ Matches(left, less) /\ Missing(less) = {}
  <2>1. left2 = left /\ more = less
    BY <1>1, <1>6 DEF ValueRefines, Lasting
  <2> HIDE DEF Matches
  <2>2. Membership(left, less, wanted) = Decided(Matches(left, less) = wanted)
    BY <1>2, <1>6
  <2> QED  BY <2>1, <2>2, DecidedFacts DEF TruthRefines, Lasting
<1> HIDE DEF Matches
<1> QED  BY <1>3, <1>4, <1>5, <1>6 DEF ValueRefines

LEMMA NullTestRefines ==
    ASSUME NEW c, NEW value, NEW value2, NEW wanted, ValueRefines(c, value, value2)
    PROVE  TruthRefines(c, NullTest(value, wanted), NullTest(value2, wanted))
<1>1. CASE value.known
  <2>1. value2 = value  BY <1>1 DEF ValueRefines, Lasting
  <2>2. NullTest(value, wanted) = Decided((value.value = Null) = wanted)
    BY <1>1 DEF NullTest
  <2> QED  BY <2>1, <2>2, DecidedFacts DEF TruthRefines, Lasting
<1>2. CASE ~ value.known
  <2>1. NullTest(value, wanted) = Unknown(value.missing)
    BY <1>2 DEF NullTest
  <2>2. value.missing = {} => NullTest(value2, wanted) = Unknown(value.missing)
    BY <1>2, <2>1 DEF ValueRefines, Lasting
  <2> QED  BY <2>1, <2>2, DecidedFacts DEF TruthRefines, ValueRefines, Lasting
<1> QED  BY <1>1, <1>2

\* The result of a case, given those of its conditions and of what they lead to.
Chosen(whens, thens, otherwise) ==
    LET i == Branch(whens)
    IN CASE i = 0 -> otherwise
         [] i # 0 /\ whens[i].truth = "UNKNOWN" -> Unresolved(whens[i].missing)
         [] OTHER -> thens[i]

LEMMA BranchFacts ==
    ASSUME NEW n \in Nat, NEW rs, DOMAIN rs = 1..n
    PROVE  /\ Branch(rs) \in 0..n
           /\ Branch(rs) # 0 => rs[Branch(rs)].truth # "FALSE"
           /\ \A i \in 1..n : Branch(rs) = 0 \/ i < Branch(rs) => rs[i].truth = "FALSE"
<1> DEFINE taken == {i \in DOMAIN rs : rs[i].truth # "FALSE"}
<1>1. Branch(rs) = IF taken = {} THEN 0 ELSE Min(taken)
  BY DEF Branch
<1>2. CASE taken = {}
  BY <1>1, <1>2
<1>3. CASE taken # {}
  <2>1. Min(taken) \in taken /\ \A x \in taken : Min(taken) <= x
    <3>1. taken \in SUBSET Nat  OBVIOUS
    <3> HIDE DEF taken
    <3> QED  BY <3>1, <1>3, LeastOfNaturals
  <2>2. Branch(rs) = Min(taken)  BY <1>1, <1>3
  <2>3. Branch(rs) \in 1..n /\ rs[Branch(rs)].truth # "FALSE"
    BY <2>1, <2>2
  <2>4. \A i \in 1..n : rs[i].truth # "FALSE" => ~ (i < Branch(rs))
    <3> DEFINE b == Branch(rs)
    <3>1. b \in 1..n /\ \A x \in 1..n : rs[x].truth # "FALSE" => b <= x
      BY <2>1, <2>2, <2>3
    <3> HIDE DEF b
    <3>2. \A i \in 1..n : rs[i].truth # "FALSE" => ~ (i < b)
      BY <3>1
    <3> QED  BY <3>2 DEF b
  <2> QED  BY <2>3, <2>4
<1> QED  BY <1>2, <1>3

LEMMA BranchIs ==
    ASSUME NEW n \in Nat, NEW rs, DOMAIN rs = 1..n, NEW k \in 1..n,
           rs[k].truth # "FALSE", \A i \in 1..n : i < k => rs[i].truth = "FALSE"
    PROVE  Branch(rs) = k
<1>1. /\ Branch(rs) \in 0..n
      /\ Branch(rs) # 0 => rs[Branch(rs)].truth # "FALSE"
      /\ \A i \in 1..n : Branch(rs) = 0 \/ i < Branch(rs) => rs[i].truth = "FALSE"
  BY BranchFacts
<1> DEFINE b == Branch(rs)
<1> HIDE DEF b
<1>2. /\ b \in 0..n
      /\ b # 0 => rs[b].truth # "FALSE"
      /\ \A i \in 1..n : b = 0 \/ i < b => rs[i].truth = "FALSE"
  BY <1>1 DEF b
<1>3. b # 0 /\ ~ (k < b) /\ ~ (b < k)
  BY <1>2
<1>4. b = k  BY <1>2, <1>3
<1> QED  BY <1>4 DEF b

LEMMA CaseRefines ==
    ASSUME NEW c, NEW n \in Nat, NEW less, NEW more, NEW then, NEW then2, NEW else, NEW else2,
           DOMAIN less = 1..n, DOMAIN more = 1..n,
           \A i \in 1..n : /\ TruthRefines(c, less[i], more[i])
                           /\ ValueRefines(c, then[i], then2[i]),
           ValueRefines(c, else, else2)
    PROVE  ValueRefines(c, Chosen(less, then, else), Chosen(more, then2, else2))
<1> DEFINE k == Branch(less)
<1>1. /\ k \in 0..n
      /\ k # 0 => less[k].truth # "FALSE"
      /\ \A i \in 1..n : k = 0 \/ i < k => less[i].truth = "FALSE"
  BY BranchFacts
<1>2. Chosen(less, then, else) = CASE k = 0 -> else
                                   [] k # 0 /\ less[k].truth = "UNKNOWN"
                                          -> Unresolved(less[k].missing)
                                   [] OTHER -> then[k]
  BY DEF Chosen
<1> HIDE DEF k
<1>3. \A i \in 1..n : less[i].truth = "FALSE" => more[i].truth = "FALSE"
  BY DEF TruthRefines, Lasting
<1>4. CASE k = 0
  <2>1. Branch(more) = 0
    <3>1. \A i \in 1..n : more[i].truth = "FALSE"  BY <1>1, <1>3, <1>4
    <3>2. Branch(more) \in 0..n /\ (Branch(more) # 0 => more[Branch(more)].truth # "FALSE")
      BY BranchFacts
    <3> QED  BY <3>1, <3>2
  <2>2. Chosen(more, then2, else2) = else2  BY <2>1 DEF Chosen
  <2>3. Chosen(less, then, else) = else  BY <1>2, <1>4
  <2> QED  BY <2>2, <2>3
<1>5. ASSUME k # 0
      PROVE  /\ k \in 1..n /\ less[k].truth # "FALSE"
             /\ more[k].truth # "FALSE" => Branch(more) = k
  <2>1. k \in 1..n /\ less[k].truth # "FALSE"  BY <1>1, <1>5
  <2>2. \A i \in 1..n : i < k => more[i].truth = "FALSE"  BY <1>1, <1>3
  <2>3. more[k].truth # "FALSE" => Branch(more) = k  BY <2>1, <2>2, BranchIs
  <2> QED  BY <2>1, <2>3
<1>6. CASE k # 0 /\ less[k].truth = "UNKNOWN"
  <2>1. Chosen(less, then, else) = Unresolved(less[k].missing)  BY <1>2, <1>6
  <2>2. k \in 1..n /\ less[k].missing \cap DOMAIN c = {}
    BY <1>5, <1>6 DEF TruthRefines, Lasting
  <2>3. ASSUME less[k].missing = {}
        PROVE  Chosen(more, then2, else2) = Unresolved(less[k].missing)
    <3>1. more[k] = less[k]  BY <2>2, <2>3 DEF TruthRefines, Lasting
    <3>2. Branch(more) = k  BY <3>1, <1>5, <1>6
    <3> QED  BY <3>1, <3>2, <1>6 DEF Chosen
  <2> QED  BY <2>1, <2>2, <2>3, DecidedFacts DEF ValueRefines, Lasting
<1>7. CASE k # 0 /\ less[k].truth # "UNKNOWN"
  <2>1. Chosen(less, then, else) = then[k]  BY <1>2, <1>7
  <2>2. k \in 1..n /\ more[k] = less[k]
    BY <1>5, <1>7 DEF TruthRefines, Lasting
  <2>3. Branch(more) = k  BY <2>2, <1>5, <1>7
  <2>4. Chosen(more, then2, else2) = then2[k]  BY <2>2, <2>3, <1>7 DEF Chosen
  <2> QED  BY <2>1, <2>2, <2>4
<1> QED  BY <1>4, <1>6, <1>7

-----------------------------------------------------------------------------
(* Whoever knows more is told more and nothing else.                       *)

ResultRefines(c, e, less, more) ==
    IF e \in Booleans THEN TruthRefines(c, less, more) ELSE ValueRefines(c, less, more)

LEMMA YieldRefines ==
    ASSUME NEW c, NEW d, Knows(d, c), NEW f, NEW g, NEW e \in Expressions,
           \A x \in Expressions : Depth[x] < Depth[e] => ResultRefines(c, x, f[x], g[x])
    PROVE  ResultRefines(c, e, Yield(e, c, f), Yield(e, d, g))
<1>1. /\ \A x \in Booleans : Depth[x] < Depth[e] => TruthRefines(c, f[x], g[x])
      /\ \A x \in Values : Depth[x] < Depth[e] => ValueRefines(c, f[x], g[x])
  BY BelowBooleans, BelowValues DEF ResultRefines
<1>2. CASE e \in Booleans
  <2> DEFINE S == {f[x] : x \in Expressions} \cup {g[x] : x \in Expressions}
             L(es) == [i \in DOMAIN es |-> f[es[i]]]
             M(es) == [i \in DOMAIN es |-> g[es[i]]]
  <2>1. \A es : (\A i \in DOMAIN es : es[i] \in Expressions)
                   => L(es) \in [DOMAIN es -> S] /\ M(es) \in [DOMAIN es -> S]
    OBVIOUS
  <2>2. EvaluateBoolean(e, f) =
           CASE e.kind = "and" -> Conjunction(L(e.children))
             [] e.kind = "or"  -> Disjunction(L(e.children))
             [] e.kind = "not" -> Negation(f[e.operand])
             [] e.kind = "compare" -> Comparison(f[e.left], e.operator, f[e.right])
             [] e.kind \in {"in", "not_in"} ->
                   Membership(f[e.left], L(e.values), e.kind = "in")
             [] e.kind \in {"is_null", "is_not_null"} ->
                   NullTest(f[e.left], e.kind = "is_null")
    BY DEF EvaluateBoolean
  <2>3. EvaluateBoolean(e, g) =
           CASE e.kind = "and" -> Conjunction(M(e.children))
             [] e.kind = "or"  -> Disjunction(M(e.children))
             [] e.kind = "not" -> Negation(g[e.operand])
             [] e.kind = "compare" -> Comparison(g[e.left], e.operator, g[e.right])
             [] e.kind \in {"in", "not_in"} ->
                   Membership(g[e.left], M(e.values), e.kind = "in")
             [] e.kind \in {"is_null", "is_not_null"} ->
                   NullTest(g[e.left], e.kind = "is_null")
    BY DEF EvaluateBoolean
  <2>4. /\ \A es \in Seq(Booleans) : \A i \in DOMAIN es :
              es[i] \in Booleans /\ es[i] \in Expressions
        /\ \A es \in Seq(Values) : \A i \in DOMAIN es :
              es[i] \in Values /\ es[i] \in Expressions
    BY ElementsOfSeq DEF Expressions
  <2>5. \A es : \A i \in DOMAIN es : L(es)[i] = f[es[i]] /\ M(es)[i] = g[es[i]]
    OBVIOUS
  <2> HIDE DEF S, L, M
  <2>6. CASE e.kind \in {"and", "or"}
    <3>1. /\ e.children \in Seq(Booleans)
          /\ \A i \in DOMAIN e.children : Depth[e.children[i]] < Depth[e]
      BY <1>2, <2>6, BelowBooleans
    <3>2. /\ L(e.children) \in [DOMAIN e.children -> S]
          /\ M(e.children) \in [DOMAIN e.children -> S]
      BY <3>1, <2>1, <2>4
    <3>3. TruthsRefine(c, DOMAIN e.children, L(e.children), M(e.children))
      BY <3>1, <2>4, <2>5, <1>1 DEF TruthsRefine
    <3>4. /\ TruthRefines(c, Conjunction(L(e.children)), Conjunction(M(e.children)))
          /\ TruthRefines(c, Disjunction(L(e.children)), Disjunction(M(e.children)))
      BY <3>2, <3>3, ConjunctionRefines, DisjunctionRefines
    <3> QED  BY <1>2, <2>2, <2>3, <2>6, <3>4 DEF Yield, ResultRefines
  <2>7. CASE e.kind = "not"
    <3>1. TruthRefines(c, f[e.operand], g[e.operand])
      BY <1>1, <1>2, <2>7, BelowBooleans
    <3> QED  BY <1>2, <2>2, <2>3, <2>7, <3>1, NegationRefines DEF Yield, ResultRefines
  <2>8. CASE e.kind = "compare"
    <3>1. /\ ValueRefines(c, f[e.left], g[e.left]) /\ ValueRefines(c, f[e.right], g[e.right])
          /\ e.operator \in {"eq", "ne", "gt", "gte", "lt", "lte"}
      BY <1>1, <1>2, <2>8, BelowBooleans
    <3> QED  BY <1>2, <2>2, <2>3, <2>8, <3>1, ComparisonRefines DEF Yield, ResultRefines
  <2>9. CASE e.kind \in {"in", "not_in"}
    <3>1. /\ e.values \in Seq(Values)
          /\ \A i \in DOMAIN e.values : Depth[e.values[i]] < Depth[e]
          /\ e.left \in Values /\ Depth[e.left] < Depth[e]
      BY <1>2, <2>9, BelowBooleans
    <3>2. /\ L(e.values) \in [DOMAIN e.values -> S]
          /\ M(e.values) \in [DOMAIN e.values -> S]
      BY <3>1, <2>1, <2>4
    <3>3. /\ \A i \in DOMAIN e.values : ValueRefines(c, L(e.values)[i], M(e.values)[i])
          /\ ValueRefines(c, f[e.left], g[e.left])
      BY <3>1, <2>4, <2>5, <1>1
    <3>4. \A wanted : TruthRefines(c, Membership(f[e.left], L(e.values), wanted),
                                      Membership(g[e.left], M(e.values), wanted))
      BY <3>2, <3>3, MembershipRefines
    <3> QED  BY <1>2, <2>2, <2>3, <2>9, <3>4 DEF Yield, ResultRefines
  <2>10. CASE e.kind \in {"is_null", "is_not_null"}
    <3>1. ValueRefines(c, f[e.left], g[e.left])
      BY <1>1, <1>2, <2>10, BelowBooleans
    <3>2. \A wanted : TruthRefines(c, NullTest(f[e.left], wanted), NullTest(g[e.left], wanted))
      BY <3>1, NullTestRefines
    <3> QED  BY <1>2, <2>2, <2>3, <2>10, <3>2 DEF Yield, ResultRefines
  <2> QED  BY <1>2, <2>6, <2>7, <2>8, <2>9, <2>10, BelowBooleans
<1>3. CASE e \notin Booleans
  <2>1. e \in Values /\ e.kind \in {"reference", "literal", "case"}
    BY <1>3, BelowValues DEF Expressions
  <2> SUFFICES ValueRefines(c, EvaluateValue(e, c, f), EvaluateValue(e, d, g))
    BY <1>3 DEF Yield, ResultRefines
  <2>2. CASE e.kind = "reference"
    <3>1. CASE e.name \in DOMAIN c
      <4>1. EvaluateValue(e, c, f) = Known(c[e.name])
        BY <2>2, <3>1 DEF EvaluateValue
      <4>2. EvaluateValue(e, d, g) = Known(c[e.name])
        BY <2>2, <3>1 DEF EvaluateValue, Knows
      <4> QED  BY <4>1, <4>2, DecidedFacts DEF ValueRefines, Lasting
    <3>2. CASE e.name \notin DOMAIN c
      <4>1. EvaluateValue(e, c, f) = Unresolved({e.name})
        BY <2>2, <3>2 DEF EvaluateValue
      <4> QED  BY <3>2, <4>1, DecidedFacts DEF ValueRefines, Lasting
    <3> QED  BY <3>1, <3>2
  <2>3. CASE e.kind = "literal"
    <3>1. EvaluateValue(e, c, f) = Known(e.value) /\ EvaluateValue(e, d, g) = Known(e.value)
      BY <2>3 DEF EvaluateValue
    <3> QED  BY <3>1, DecidedFacts DEF ValueRefines, Lasting
  <2>4. CASE e.kind = "case"
    <3> DEFINE n == Len(e.cases)
               L == [i \in DOMAIN e.cases |-> f[e.cases[i].when]]
               M == [i \in DOMAIN e.cases |-> g[e.cases[i].when]]
               T == [i \in DOMAIN e.cases |-> f[e.cases[i].then]]
               U == [i \in DOMAIN e.cases |-> g[e.cases[i].then]]
    <3>1. n \in Nat /\ DOMAIN e.cases = 1..n
      <4> DEFINE B == [when : Booleans, then : Values]
      <4>1. e.cases \in Seq(B)  BY <2>1, <2>4, BelowValues
      <4> HIDE DEF B
      <4> QED  BY <4>1, ElementsOfSeq
    <3>2. /\ DOMAIN L = 1..n /\ DOMAIN M = 1..n
          /\ \A i \in 1..n : /\ L[i] = f[e.cases[i].when] /\ M[i] = g[e.cases[i].when]
                             /\ T[i] = f[e.cases[i].then] /\ U[i] = g[e.cases[i].then]
      BY <3>1
    <3>3. /\ \A i \in 1..n : TruthRefines(c, L[i], M[i]) /\ ValueRefines(c, T[i], U[i])
          /\ ValueRefines(c, f[e.else], g[e.else])
      BY <1>1, <2>1, <2>4, <3>1, <3>2, BelowValues
    <3>4. Branch(L) \in 0..n /\ Branch(M) \in 0..n
      <4> HIDE DEF n, L, M
      <4> QED  BY <3>1, <3>2, BranchFacts
    <3>5. EvaluateValue(e, c, f) = Chosen(L, T, f[e.else])
      <4>1. EvaluateValue(e, c, f) = CASE Branch(L) = 0 -> f[e.else]
                                       [] Branch(L) # 0 /\ L[Branch(L)].truth = "UNKNOWN"
                                             -> Unresolved(L[Branch(L)].missing)
                                       [] OTHER -> f[e.cases[Branch(L)].then]
        BY <2>4, Zenon DEF EvaluateValue
      <4>2. Branch(L) # 0 => T[Branch(L)] = f[e.cases[Branch(L)].then]
        <5> HIDE DEF n, L, M, T, U
        <5>1. Branch(L) # 0 => Branch(L) \in 1..n  BY <3>1, <3>4
        <5> QED  BY <5>1, <3>2
      <4> HIDE DEF L, T
      <4> QED  BY <4>1, <4>2 DEF Chosen
    <3>6. EvaluateValue(e, d, g) = Chosen(M, U, g[e.else])
      <4>1. EvaluateValue(e, d, g) = CASE Branch(M) = 0 -> g[e.else]
                                       [] Branch(M) # 0 /\ M[Branch(M)].truth = "UNKNOWN"
                                             -> Unresolved(M[Branch(M)].missing)
                                       [] OTHER -> g[e.cases[Branch(M)].then]
        BY <2>4, Zenon DEF EvaluateValue
      <4>2. Branch(M) # 0 => U[Branch(M)] = g[e.cases[Branch(M)].then]
        <5> HIDE DEF n, L, M, T, U
        <5>1. Branch(M) # 0 => Branch(M) \in 1..n  BY <3>1, <3>4
        <5> QED  BY <5>1, <3>2
      <4> HIDE DEF M, U
      <4> QED  BY <4>1, <4>2 DEF Chosen
    <3> HIDE DEF n, L, M, T, U
    <3> QED  BY <3>1, <3>2, <3>3, <3>5, <3>6, CaseRefines
  <2> QED  BY <2>1, <2>2, <2>3, <2>4
<1> QED  BY <1>2, <1>3

LEMMA ResultsRefine ==
    ASSUME NEW c, NEW d, Knows(d, c)
    PROVE  \A e \in Shallow : ResultRefines(c, e, Evaluate(e, c), Evaluate(e, d))
<1> DEFINE Good(e) == ResultRefines(c, e, ResultsIn(c)[e], ResultsIn(d)[e])
           Bad == {Depth[e] : e \in {x \in Shallow : ~ Good(x)}}
<1>1. \A e \in Shallow : e \in Expressions /\ Depth[e] \in Nat /\ Depth[e] <= MaxDepth
  BY ConditionsAssumption DEF ConditionsAssumption, Shallow
<1>2. \A e \in Shallow : Good(e)
  <2> SUFFICES ASSUME Bad # {}  PROVE FALSE
    OBVIOUS
  <2>1. PICK n \in Bad : \A k \in Bad : n <= k
    <3>1. Bad \in SUBSET Nat  BY <1>1
    <3> HIDE DEF Bad
    <3> QED  BY <3>1, LeastOfNaturals
  <2>2. PICK e \in Shallow : ~ Good(e) /\ n = Depth[e]
    OBVIOUS
  <2>3. ASSUME NEW x \in Expressions, Depth[x] < Depth[e]
        PROVE  Good(x)
    <3>1. Depth[x] \in Nat /\ Depth[e] \in Nat /\ Depth[e] <= MaxDepth /\ MaxDepth \in Nat
      BY <1>1, ConditionsAssumption DEF ConditionsAssumption
    <3>2. x \in Shallow
      BY <2>3, <3>1 DEF Shallow
    <3>3. Depth[x] \notin Bad
      BY <2>1, <2>2, <2>3, <3>1
    <3> QED  BY <3>2, <3>3
  <2>4. ResultRefines(c, e, Yield(e, c, ResultsIn(c)), Yield(e, d, ResultsIn(d)))
    BY <1>1, <2>3, YieldRefines
  <2>5. Good(e)
    BY <2>4, ResultsFacts
  <2> QED  BY <2>2, <2>5
<1> QED  BY <1>2 DEF Evaluate

LEMMA ResolvedRefines ==
    ASSUME NEW c, NEW value, NEW value2, ValueRefines(c, value, value2)
    PROVE  TruthRefines(c, Resolved(value), Resolved(value2))
<1>1. CASE value.known
  <2>1. value2 = value /\ Resolved(value) = Decided(TRUE)
    BY <1>1 DEF ValueRefines, Lasting, Resolved
  <2> QED  BY <2>1, DecidedFacts DEF TruthRefines, Lasting
<1>2. CASE ~ value.known
  <2>1. Resolved(value) = Unknown(value.missing)
    BY <1>2 DEF Resolved
  <2>2. value.missing = {} => Resolved(value2) = Resolved(value)
    BY DEF ValueRefines, Lasting
  <2> QED  BY <2>1, <2>2, DecidedFacts DEF TruthRefines, ValueRefines, Lasting
<1> QED  BY <1>1, <1>2

\* What evaluateEdge joins.
Joined(booleans, transforms, context) ==
    [i \in DOMAIN booleans |-> Evaluate(booleans[i], context)]
    \o [i \in DOMAIN transforms |-> Resolved(Evaluate(transforms[i], context))]

EachIn(S, booleans, transforms, context) ==
    /\ \A i \in DOMAIN booleans : Evaluate(booleans[i], context) \in S
    /\ \A i \in DOMAIN transforms : Resolved(Evaluate(transforms[i], context)) \in S

LEMMA JoinedFacts ==
    ASSUME NEW S, NEW booleans \in Seq(Booleans), NEW transforms \in Seq(Values), NEW c,
           EachIn(S, booleans, transforms, c)
    PROVE  /\ Joined(booleans, transforms, c) \in [1..(Len(booleans) + Len(transforms)) -> S]
           /\ \A i \in 1..(Len(booleans) + Len(transforms)) :
                 Joined(booleans, transforms, c)[i] =
                    IF i <= Len(booleans) THEN Evaluate(booleans[i], c)
                    ELSE Resolved(Evaluate(transforms[i - Len(booleans)], c))
<1> DEFINE s == [i \in DOMAIN booleans |-> Evaluate(booleans[i], c)]
           t == [i \in DOMAIN transforms |-> Resolved(Evaluate(transforms[i], c))]
<1>1. /\ DOMAIN booleans = 1..Len(booleans) /\ Len(booleans) \in Nat
      /\ DOMAIN transforms = 1..Len(transforms) /\ Len(transforms) \in Nat
  BY ElementsOfSeq
<1>2. /\ s \in Seq(S) /\ Len(s) = Len(booleans)
      /\ t \in Seq(S) /\ Len(t) = Len(transforms)
  BY <1>1 DEF EachIn
<1>3. /\ \A i \in 1..Len(booleans) : s[i] = Evaluate(booleans[i], c)
      /\ \A i \in 1..Len(transforms) : t[i] = Resolved(Evaluate(transforms[i], c))
  BY <1>1
<1>4. Joined(booleans, transforms, c) = s \o t
  BY DEF Joined
<1> HIDE DEF s, t
<1>5. /\ s \o t \in [1..(Len(s) + Len(t)) -> S]
      /\ \A i \in 1..(Len(s) + Len(t)) :
            (s \o t)[i] = IF i <= Len(s) THEN s[i] ELSE t[i - Len(s)]
  <2>1. s \o t \in Seq(S) /\ Len(s \o t) = Len(s) + Len(t)
    BY <1>2, SMTT(30)
  <2>2. \A w \in Seq(S) : w \in [1..Len(w) -> S]
    OBVIOUS
  <2>3. \A i \in 1..(Len(s) + Len(t)) :
            (s \o t)[i] = IF i <= Len(s) THEN s[i] ELSE t[i - Len(s)]
    BY <1>2
  <2> QED  BY <2>1, <2>2, <2>3
<1>6. \A i \in 1..(Len(booleans) + Len(transforms)) :
         ~ (i <= Len(booleans)) => i - Len(booleans) \in 1..Len(transforms)
  BY <1>1
<1> QED  BY <1>1, <1>2, <1>3, <1>4, <1>5, <1>6, SMTT(30)

LEMMA EdgeRefines ==
    ASSUME NEW booleans \in Seq(Booleans), NEW transforms \in Seq(Values),
           AllValid(booleans, transforms),
           NEW c, NEW d, Knows(d, c)
    PROVE  /\ TruthRefines(c, EvaluateEdge(booleans, transforms, c),
                              EvaluateEdge(booleans, transforms, d))
           /\ EvaluateEdge(booleans, transforms, c).truth = "UNKNOWN"
                 => EvaluateEdge(booleans, transforms, c).missing # {}
<1> DEFINE S == {Evaluate(x, y) : x \in Expressions, y \in {c, d}}
                \cup {Resolved(Evaluate(x, y)) : x \in Expressions, y \in {c, d}}
           n == Len(booleans) + Len(transforms)
           less == Joined(booleans, transforms, c)
           more == Joined(booleans, transforms, d)
<1>1. /\ DOMAIN booleans = 1..Len(booleans) /\ Len(booleans) \in Nat
      /\ DOMAIN transforms = 1..Len(transforms) /\ Len(transforms) \in Nat
      /\ \A i \in 1..Len(booleans) : booleans[i] \in Booleans
      /\ \A i \in 1..Len(transforms) : transforms[i] \in Values
  BY ElementsOfSeq
<1>2. /\ \A i \in 1..Len(booleans) : booleans[i] \in Shallow
      /\ \A i \in 1..Len(transforms) : transforms[i] \in Shallow
  BY <1>1 DEF Shallow, Expressions, AllValid, Valid, Range
<1>3. /\ EvaluateEdge(booleans, transforms, c) = Conjunction(less)
      /\ EvaluateEdge(booleans, transforms, d) = Conjunction(more)
  BY DEF EvaluateEdge, Joined
<1>4. /\ \A i \in 1..Len(booleans) : TruthRefines(c, Evaluate(booleans[i], c),
                                                     Evaluate(booleans[i], d))
      /\ \A i \in 1..Len(transforms) :
            TruthRefines(c, Resolved(Evaluate(transforms[i], c)),
                            Resolved(Evaluate(transforms[i], d)))
  <2>1. \A i \in 1..Len(booleans) : TruthRefines(c, Evaluate(booleans[i], c),
                                                    Evaluate(booleans[i], d))
    BY <1>1, <1>2, ResultsRefine DEF ResultRefines
  <2>2. \A i \in 1..Len(transforms) : ValueRefines(c, Evaluate(transforms[i], c),
                                                      Evaluate(transforms[i], d))
    BY <1>1, <1>2, ResultsRefine, BelowValues DEF ResultRefines
  <2> QED  BY <2>1, <2>2, ResolvedRefines
<1>5. EachIn(S, booleans, transforms, c) /\ EachIn(S, booleans, transforms, d)
  BY <1>1 DEF Expressions, EachIn
<1> HIDE DEF S
<1>6. /\ less \in [1..n -> S]
      /\ \A i \in 1..n :
            less[i] = IF i <= Len(booleans) THEN Evaluate(booleans[i], c)
                      ELSE Resolved(Evaluate(transforms[i - Len(booleans)], c))
  BY <1>5, JoinedFacts, ZenonT(60)
<1>11. /\ more \in [1..n -> S]
      /\ \A i \in 1..n :
            more[i] = IF i <= Len(booleans) THEN Evaluate(booleans[i], d)
                      ELSE Resolved(Evaluate(transforms[i - Len(booleans)], d))
  BY <1>5, JoinedFacts, ZenonT(60)
<1>7. \A i \in 1..n : /\ i <= Len(booleans) => i \in 1..Len(booleans)
                      /\ ~ (i <= Len(booleans)) => i - Len(booleans) \in 1..Len(transforms)
  BY <1>1
<1> HIDE DEF n, less, more
<1>8. \A i \in 1..n : TruthRefines(c, less[i], more[i])
  BY <1>4, <1>6, <1>7, <1>11
<1> DEFINE D == 1..n
<1>9. less \in [D -> S] /\ more \in [D -> S] /\ TruthsRefine(c, D, less, more)
  BY <1>6, <1>8, <1>11 DEF TruthsRefine
<1> HIDE DEF D
<1>10. /\ TruthRefines(c, Conjunction(less), Conjunction(more))
       /\ Conjunction(less).truth = "UNKNOWN" => Conjunction(less).missing # {}
  BY <1>9, ConjunctionRefines
<1> QED  BY <1>3, <1>10 DEF less, more

\* The evaluation of an edge is that of its conditions, which are valid.
LEMMA EvaluationFacts ==
    ASSUME NEW e \in Edges, NEW c \in Contexts
    PROVE  /\ Evaluation[e][c] = EvaluateEdge(ConditionsOf[e].booleans,
                                              ConditionsOf[e].transforms, c)
           /\ ConditionsOf[e].booleans \in Seq(Booleans)
           /\ ConditionsOf[e].transforms \in Seq(Values)
           /\ AllValid(ConditionsOf[e].booleans, ConditionsOf[e].transforms)
<1>1. Evaluation[e][c] = EvaluateEdge(ConditionsOf[e].booleans, ConditionsOf[e].transforms, c)
  BY DEF Evaluation
<1> DEFINE B == Seq(Booleans)  V == Seq(Values)
<1>2. ConditionsOf \in [Edges -> [booleans : B, transforms : V]]
  BY GraphAssumption DEF GraphAssumption
<1> HIDE DEF B, V
<1>3. ConditionsOf[e].booleans \in B /\ ConditionsOf[e].transforms \in V
  BY <1>2
<1>4. AllValid(ConditionsOf[e].booleans, ConditionsOf[e].transforms)
  BY GraphAssumption DEF GraphAssumption
<1> QED  BY <1>1, <1>3, <1>4 DEF B, V

\* Of the contexts c and d, where d knows what c knows.
LEMMA EvaluationRefines ==
    ASSUME NEW e \in Edges, NEW c \in Contexts, NEW d \in Contexts, Knows(d, c)
    PROVE  /\ Evaluation[e][c].truth \in {"TRUE", "FALSE", "UNKNOWN"}
           /\ Evaluation[e][c].truth \in {"UNKNOWN", Evaluation[e][d].truth}
           /\ Evaluation[e][c].truth = "UNKNOWN" <=> Evaluation[e][c].missing # {}
           /\ Evaluation[e][c].missing \cap DOMAIN c = {}
<1>1. /\ TruthRefines(c, Evaluation[e][c], Evaluation[e][d])
      /\ Evaluation[e][c].truth = "UNKNOWN" => Evaluation[e][c].missing # {}
  BY EvaluationFacts, EdgeRefines
<1> QED  BY <1>1 DEF TruthRefines, Lasting

\* Whatever the stored conditions are, a trace that is repeated with more
\* context is told of every edge what it was told, or what was unknown; and what
\* an UNKNOWN edge lacks is named and is lacking.
THEOREM MoreContextTellsMore == TraceSpec => []MoreContextRefines
<1>1. TraceInv => MoreContextRefines
  <2> SUFFICES ASSUME TraceInv, request # Absent, NEW e \in ever
               PROVE  LET now == Evaluation[e][request.context]
                      IN /\ \A less \in {c \in Contexts : Knows(request.context, c)} :
                               Evaluation[e][less].truth \in {"UNKNOWN", now.truth}
                         /\ now.truth = "UNKNOWN" <=> now.missing # {}
                         /\ now.missing \cap DOMAIN request.context = {}
    BY DEF MoreContextRefines
  <2>1. e \in Edges  BY DEF TraceInv, GraphInv
  <2>2. request.context \in Contexts
    <3>1. phase # "Idle"  BY DEF TraceInv, PhaseInv
    <3> QED  BY <3>1, RequestIsValid, GraphAssumption DEF GraphAssumption
  <2>3. Knows(request.context, request.context)  BY DEF Knows
  <2> QED  BY <2>1, <2>2, <2>3, EvaluationRefines
<1> QED  BY <1>1, TraceInvariantHolds, PTL

\* No trace fails: the query and the callback agree on keys, parents and cycles for
\* all graphs and requests, and every stored condition can be evaluated.
THEOREM RowsAreAccepted == TraceSpec => []RowsAccepted
<1>1. TraceInit => RowsAccepted  BY DEF TraceInit, RowsAccepted
<1>2. TraceInv /\ RowsAccepted /\ [TraceNext]_traceVars => RowsAccepted'
  <2> SUFFICES ASSUME TraceInv, phase # "Failed", [TraceNext]_traceVars, phase' = "Failed"
               PROVE  FALSE
    BY DEF RowsAccepted
  <2>1. \A e \in Edges : phase # "Idle" => TruthOf(e) # "ERROR"
    <3> SUFFICES ASSUME NEW e \in Edges, phase # "Idle"  PROVE TruthOf(e) # "ERROR"
      OBVIOUS
    <3>1. request.context \in Contexts
      BY RequestIsValid, GraphAssumption DEF GraphAssumption
    <3>2. Knows(request.context, request.context)  BY DEF Knows
    <3> QED  BY <3>1, <3>2, EvaluationRefines DEF TruthOf
  <2>2. CASE \E e \in Edges : PublishEdge(e) \/ RemoveEdge(e)
    BY <2>2 DEF PublishEdge, RemoveEdge, ChangeTo
  <2>3. CASE \E r \in TraceRequests : Trace(r)
    BY <2>3 DEF Trace
  <2>4. CASE LoadEdges \/ LoadNothing \/ NextLevel
    BY <2>4 DEF LoadEdges, LoadNothing, NextLevel, Stop
  <2>5. CASE \E pe \in pending : ExpandEdge(pe[1], pe[2])
    <3>1. PICK pe \in pending : ExpandEdge(pe[1], pe[2])  BY <2>5
    <3>2. phase = "Expand"  BY <3>1 DEF ExpandEdge
    <3> QED  BY <3>1, <3>2, <2>1, ExpandEdgeKeeps
  <2>6. CASE LoadRecursiveEdges \/ WalkEnds
    BY <2>6 DEF LoadRecursiveEdges, WalkEnds, Stop
  <2>7. CASE \E row \in walk : WalkRow(row)
    <3>1. PICK row \in walk : WalkRow(row)  BY <2>7
    <3>2. phase = "Walk"  BY <3>1 DEF WalkRow
    <3> QED  BY <3>1, <3>2, <2>1, WalkRowKeeps
  <2>8. CASE UNCHANGED traceVars
    BY <2>8 DEF traceVars
  <2>9. CASE \E G \in DeclaredGraphs : ReconcileEdges(G)
    BY <2>9 DEF ReconcileEdges, ChangeTo
  <2> QED  BY <2>2, <2>3, <2>4, <2>5, <2>6, <2>7, <2>8, <2>9 DEF TraceNext
<1> QED  BY <1>1, <1>2, TraceInvariantHolds, PTL DEF TraceSpec

-----------------------------------------------------------------------------
(* Traces over the relation store.  Each transaction is a step of the      *)
(* environment of GraphTrace, so what is proved above holds of the         *)
(* composition; and the edges a trace saw are tied to the logs.            *)

\* A published revision is a content revision with a row.
LEMMA PublishedRows ==
    IInv => \A r \in Relations : edge[r] # 0 =>
                /\ edge[r] \in Revisions
                /\ versions[r][edge[r]] # None
                /\ versions[r][edge[r]].content \in Contents
<1> SUFFICES ASSUME IInv, NEW r \in Relations, edge[r] # 0
             PROVE  /\ edge[r] \in Revisions
                    /\ versions[r][edge[r]] # None
                    /\ versions[r][edge[r]].content \in Contents
  OBVIOUS
<1>1. TypeOK /\ RelationOK(versions[r], current[r], edge[r])
  BY OfRelation DEF IInv
<1>2. edge[r] \in Revisions
  BY <1>1, BoundAssumption DEF TypeOK, Revisions
<1>3. versions[r][edge[r]] # None
  BY <1>1 DEF RelationOK
<1>4. versions[r][edge[r]] \in Row
  BY <1>1, <1>2, <1>3 DEF TypeOK
<1> QED
  BY <1>2, <1>3, <1>4 DEF Row

\* effective_edges has one row for each relation with an edge.
LEMMA InPublishedEdges ==
    \A e : e \in PublishedEdges <=>
        \E r \in Relations : /\ edge[r] # 0
                             /\ e = EdgeAt(r, edge[r], versions[r][edge[r]].content)
BY DEF PublishedEdges, EdgesOf

\* Relations tell edges apart: one has at most one row of effective_edges.
LEMMA PublishedIsGraph == IInv => PublishedEdges \in SUBSET Edges /\ IsGraph(PublishedEdges)
<1> SUFFICES ASSUME IInv PROVE PublishedEdges \in SUBSET Edges /\ IsGraph(PublishedEdges)
  OBVIOUS
<1>1. ASSUME NEW e \in PublishedEdges
      PROVE  \E r \in Relations : /\ edge[r] # 0 /\ e.relation = Number[r]
                                  /\ e = EdgeAt(r, edge[r], versions[r][edge[r]].content)
                                  /\ e \in Edges
  <2>1. PICK r \in Relations : /\ edge[r] # 0
                               /\ e = EdgeAt(r, edge[r], versions[r][edge[r]].content)
    BY <1>1, InPublishedEdges
  <2>2. e \in Edges
    BY <2>1, PublishedRows, TracedAssumption
  <2>3. e.relation = Number[r]
    BY <2>1 DEF EdgeAt
  <2> QED
    BY <2>1, <2>2, <2>3
<1>2. PublishedEdges \subseteq Edges
  BY <1>1
<1>3. ASSUME NEW e \in PublishedEdges, NEW f \in PublishedEdges, e.relation = f.relation
      PROVE  e = f
  BY <1>1, <1>3, TracedAssumption
<1> QED
  BY <1>2, <1>3 DEF IsGraph

\* The edges of a relation whose published revision stays are the same after a step.
LEMMA SamePublished ==
    ASSUME IInv, HistoryKept, NEW r \in Relations, edge'[r] = edge[r], edge[r] # 0
    PROVE  EdgeAt(r, edge'[r], versions'[r][edge'[r]].content)
             = EdgeAt(r, edge[r], versions[r][edge[r]].content)
<1>1. edge[r] \in Revisions /\ versions[r][edge[r]] # None
  BY PublishedRows
<1>2. versions'[r][edge[r]] = versions[r][edge[r]]
  BY <1>1 DEF HistoryKept
<1> QED
  BY <1>2

\* A transaction that leaves all edges but those of r replaces or removes one edge.
LEMMA OneEdgeChanges ==
    ASSUME IInv, IInv', HistoryKept, effective = PublishedEdges,
           NEW r \in Relations, \A s \in Relations \ {r} : edge'[s] = edge[s],
           PublishedEdges' # effective, ChangeTo(PublishedEdges')
    PROVE  \E e \in Edges : PublishEdge(e) \/ RemoveEdge(e)
<1> DEFINE E == PublishedEdges
           F == PublishedEdges'
           Old(s) == EdgeAt(s, edge[s], versions[s][edge[s]].content)
           New(s) == EdgeAt(s, edge'[s], versions'[s][edge'[s]].content)
           rest == {f \in E : f.relation # Number[r]}
<1>1. \A e : e \in E <=> \E s \in Relations : edge[s] # 0 /\ e = Old(s)
  BY InPublishedEdges
<1>2. \A e : e \in F <=> \E s \in Relations : edge'[s] # 0 /\ e = New(s)
  BY DEF PublishedEdges, EdgesOf
<1>3. E \in SUBSET Edges /\ IsGraph(E)
  BY PublishedIsGraph
<1>4. (IInv => PublishedEdges \in SUBSET Edges /\ IsGraph(PublishedEdges))'
  BY PublishedIsGraph, PTL
<1>5. F \in SUBSET Edges
  BY <1>4
<1>6. \A s \in Relations \ {r} : edge[s] # 0 => New(s) = Old(s)
  BY SamePublished
<1>7. \A s \in Relations : Old(s).relation = Number[s] /\ New(s).relation = Number[s]
  BY DEF EdgeAt
<1>8. \A s \in Relations \ {r} : edge'[s] = edge[s] /\ Number[s] # Number[r]
  BY TracedAssumption
<1>9. effective = E /\ F # E /\ ChangeTo(F)
  OBVIOUS
<1> HIDE DEF E, F, Old, New
<1>10. \A e : e \in rest <=> \E s \in Relations \ {r} : edge[s] # 0 /\ e = Old(s)
  BY <1>1, <1>7, <1>8
<1>11. \A e : e \in F <=> \/ e \in rest
                          \/ edge'[r] # 0 /\ e = New(r)
  BY <1>2, <1>6, <1>8, <1>10
<1>12. \A e : e \in E <=> \/ e \in rest
                          \/ edge[r] # 0 /\ e = Old(r)
  BY <1>1, <1>10
<1>13. CASE edge'[r] # 0
  <2>1. New(r) \in F /\ New(r) \in Edges
    BY <1>5, <1>11, <1>13
  <2>2. F = rest \cup {New(r)}
    BY <1>11, <1>13
  <2>3. New(r) \notin E
    <3> SUFFICES ASSUME New(r) \in E PROVE F = E
      BY <1>9
    <3>1. edge[r] # 0 /\ New(r) = Old(r)
      BY <1>7, <1>12
    <3> QED
      BY <1>12, <2>2, <3>1
  <2>4. rest = {f \in effective : f.relation # New(r).relation}
    BY <1>7, <1>9
  <2>5. PublishEdge(New(r))
    BY <1>9, <2>2, <2>3, <2>4 DEF PublishEdge
  <2> QED
    BY <2>1, <2>5
<1>14. CASE edge'[r] = 0
  <2>1. F = rest
    BY <1>11, <1>14
  <2>2. edge[r] # 0 /\ Old(r) \in E
    BY <1>9, <1>12, <2>1
  <2>3. rest = E \ {Old(r)}
    BY <1>7, <1>12, <2>2
  <2>4. RemoveEdge(Old(r)) /\ Old(r) \in Edges
    BY <1>3, <1>9, <2>1, <2>2, <2>3 DEF RemoveEdge
  <2> QED
    BY <2>4
<1> QED
  BY <1>13, <1>14

\* A transaction that leaves the edges of the other relations reconciles the keys.
LEMMA DeclaredEdgesChange ==
    ASSUME IInv, IInv', HistoryKept, effective = PublishedEdges,
           \A s \in CodeRelations : edge'[s] = edge[s],
           PublishedEdges' # effective, ChangeTo(PublishedEdges')
    PROVE  \E G \in DeclaredGraphs : ReconcileEdges(G)
<1> DEFINE E == PublishedEdges
           F == PublishedEdges'
           Old(s) == EdgeAt(s, edge[s], versions[s][edge[s]].content)
           New(s) == EdgeAt(s, edge'[s], versions'[s][edge'[s]].content)
<1>1. \A e : e \in E <=> \E s \in Relations : edge[s] # 0 /\ e = Old(s)
  BY InPublishedEdges
<1>2. \A e : e \in F <=> \E s \in Relations : edge'[s] # 0 /\ e = New(s)
  BY DEF PublishedEdges, EdgesOf
<1>3. (IInv => PublishedEdges \in SUBSET Edges /\ IsGraph(PublishedEdges))'
  BY PublishedIsGraph, PTL
<1>4. F \in SUBSET Edges /\ IsGraph(F)
  BY <1>3 DEF IsGraph
<1>5. \A s \in CodeRelations : edge[s] # 0 => New(s) = Old(s)
  BY SamePublished DEF Relations
<1>6. \A s \in Relations : Old(s).relation = Number[s] /\ New(s).relation = Number[s]
  BY DEF EdgeAt
<1>7. \A s \in Relations : Number[s] \in Declared <=> s \in ForeignKeys
  BY TracedAssumption DEF Relations
<1>8. \A s \in Relations : s \in CodeRelations <=> s \notin ForeignKeys
  BY RelationsAssumption DEF Relations
<1>9. effective = E /\ F # E /\ ChangeTo(F)
  OBVIOUS
<1> HIDE DEF E, F, Old, New
<1>10. \A e : e \in E /\ e.relation \notin Declared <=> e \in F /\ e.relation \notin Declared
  BY <1>1, <1>2, <1>5, <1>6, <1>7, <1>8
<1>11. F = (E \ DeclaredIn(E)) \cup DeclaredIn(F)
  BY <1>10 DEF DeclaredIn
<1>12. DeclaredIn(F) # DeclaredIn(E)
  BY <1>9, <1>11 DEF DeclaredIn
<1>13. DeclaredIn(F) \in DeclaredGraphs
  BY <1>4 DEF DeclaredGraphs
<1>14. ReconcileEdges(DeclaredIn(F))
  BY <1>9, <1>11, <1>12 DEF ReconcileEdges, ChangeTo
<1> QED
  BY <1>13, <1>14

\* Every transaction is a step that GraphTrace allows the edges, or changes none.
LEMMA TransactionsAreAllowed ==
    ASSUME IInv, effective = PublishedEdges, Transact
    PROVE  [TraceNext]_traceVars
<1>1. Next /\ IInv' /\ HistoryKept
  BY StepInv, StepKept DEF Transact
<1>2. CASE UNCHANGED traceVars
  BY <1>2
<1>3. CASE PublishedEdges' # effective /\ ChangeTo(PublishedEdges')
  <2>1. \/ \E e \in Edges : PublishEdge(e) \/ RemoveEdge(e)
        \/ \E G \in DeclaredGraphs : ReconcileEdges(G)
    BY <1>1, <1>3, StepChangesEdges, OneEdgeChanges, DeclaredEdgesChange
  <2> QED
    BY <2>1 DEF TraceNext
<1> QED
  BY <1>2, <1>3 DEF Transact

-----------------------------------------------------------------------------
(* The edges that a trace saw, in terms of the logs.                       *)

\* The first events of a log are the first events of what it is continued to.
LEMMA FirstEvents ==
    ASSUME NEW log \in Seq(Event), NEW new \in Seq(Event), Len(log) <= Len(new),
           SubSeq(new, 1, Len(log)) = log, NEW k \in 0..Len(log)
    PROVE  SubSeq(new, 1, k) = SubSeq(log, 1, k)
<1>1. Len(log) \in Nat /\ Len(new) \in Nat /\ k \in Nat /\ k <= Len(log) /\ k <= Len(new)
  OBVIOUS
<1>2. \A i \in 1..Len(log) : SubSeq(new, 1, Len(log))[i] = new[i]
  BY <1>1
<1>3. \A i \in 1..Len(log) : log[i] = new[i]
  BY <1>2
<1> DEFINE s == SubSeq(new, 1, k)
           t == SubSeq(log, 1, k)
<1>4. s \in Seq(Event) /\ Len(s) = k /\ \A i \in 1..k : s[i] = new[i]
  BY <1>1
<1>5. t \in Seq(Event) /\ Len(t) = k /\ \A i \in 1..k : t[i] = log[i]
  BY <1>1
<1> HIDE DEF s, t
<1>6. s = t
  BY <1>1, <1>3, <1>4, <1>5
<1> QED
  BY <1>6 DEF s, t

\* A whole log puts in force what is published.
LEMMA InForceNow ==
    ASSUME IInv, AllHistoriesOK, NEW r \in Relations
    PROVE  InForce(events[r], Len(events[r])) = edge[r]
<1> DEFINE log == events[r]
<1>1. TypeOK /\ EffectiveIffApproved /\ AbsentIsEmpty
  BY DEF IInv
<1>2. log \in Seq(Event)
  BY <1>1 DEF TypeOK
<1>3. HistoryOK(log, current[r])
  BY DEF AllHistoriesOK
<1>4. SubSeq(log, 1, Len(log)) = log
  BY <1>2
<1>5. /\ current[r].active = ReplayedActive(log)
      /\ current[r].status = ReplayedStatus(log)
  BY <1>3 DEF HistoryOK
<1>6. edge[r] = IF current[r].status = "Approved" THEN current[r].active ELSE 0
  BY <1>1 DEF EffectiveIffApproved, AbsentIsEmpty
<1> HIDE DEF log
<1>7. InForce(log, Len(log)) = edge[r]
  BY <1>4, <1>5, <1>6 DEF InForce
<1> QED
  BY <1>7 DEF log

\* What the log put in force at a moment stays so.
LEMMA InForceStays ==
    ASSUME IInv, IInv', HistoryKept, NEW r \in Relations, NEW k \in 0..Len(events[r])
    PROVE  InForce(events'[r], k) = InForce(events[r], k)
<1>1. events[r] \in Seq(Event) /\ events'[r] \in Seq(Event)
  BY DEF IInv, TypeOK
<1>2. SubSeq(events'[r], 1, k) = SubSeq(events[r], 1, k)
  BY <1>1, FirstEvents DEF HistoryKept
<1> QED
  BY <1>2 DEF InForce

\* More edges give more answers.
LEMMA MoreEdgesAnswerMore ==
    ASSUME NEW G, NEW H, G \subseteq H
    PROVE  Answer(G) \subseteq Answer(H)
<1>1. \A n : [1..n -> G] \subseteq [1..n -> H]
  OBVIOUS
<1>2. Followed(G) \subseteq Followed(H)
  BY <1>1 DEF Followed
<1> QED
  BY <1>2 DEF Answer

HasRow(r, n) == n \in Revisions /\ versions[r][n] # None
EdgeOf(r, n) == EdgeAt(r, n, versions[r][n].content)
InForceAt(r, k) == InForce(events[r], k)

\* The moments of a trace come one after the other, the last of them now if the trace
\* is under way.
MomentsOK ==
    /\ moments \in [from : [Relations -> Nat], query : [Relations -> Nat],
                    to : [Relations -> Nat]]
    /\ \A r \in Relations :
          /\ moments.from[r] <= moments.to[r]
          /\ moments.to[r] <= Len(events[r])
          /\ moments.query[r] <= Len(events[r])
          /\ UnderWay => moments.to[r] = Len(events[r])

\* An edge that was effective at some time is one that the log put in force then.
EverWasInForce ==
    phase # "Idle" =>
        \A e \in ever : \E r \in Relations : \E k \in During(r) :
            HasRow(r, InForceAt(r, k)) /\ e = EdgeOf(r, InForceAt(r, k))

\* A revision in force all the time has an edge that was effective all along.
AlwaysIfInForce ==
    phase # "Idle" =>
        \A r \in Relations, n \in Revisions :
            (\A k \in During(r) : InForceAt(r, k) = n)
                => HasRow(r, n) /\ EdgeOf(r, n) \in always

\* The recursive query sees what the log put in force at its moment.
SnapshotWasInForce ==
    /\ phase = "Idle" => snapshot = {}
    /\ \A e \in snapshot : \E r \in Relations :
          /\ HasRow(r, InForceAt(r, moments.query[r]))
          /\ e = EdgeOf(r, InForceAt(r, moments.query[r]))

\* The inductive invariant of the composition.
TracedInv ==
    /\ IInv
    /\ AllHistoriesOK
    /\ effective = PublishedEdges
    /\ MomentsOK
    /\ EverWasInForce
    /\ AlwaysIfInForce
    /\ SnapshotWasInForce

LEMMA TracedInitHolds == TracedInit => TracedInv
<1> SUFFICES ASSUME TracedInit PROVE TracedInv
  OBVIOUS
<1>1. Init /\ TraceInit /\ IInv /\ AllHistoriesOK
  BY InitInv, InitHistory DEF TracedInit
<1>2. effective = {} /\ phase = "Idle" /\ snapshot = {}
  BY <1>1, TracedAssumption DEF TraceInit
<1>3. \A r \in Relations : edge[r] = 0
  BY <1>1 DEF Init
<1>4. PublishedEdges = {}
  BY <1>3, InPublishedEdges
<1>5. \A r \in Relations : Len(events[r]) \in Nat
  BY <1>1 DEF IInv, TypeOK
<1>6. MomentsOK
  BY <1>2, <1>5 DEF TracedInit, LogLengths, MomentsOK, UnderWay
<1> QED
  BY <1>1, <1>2, <1>4, <1>6 DEF TracedInv, EverWasInForce, AlwaysIfInForce, SnapshotWasInForce

\* What is published is in force, and what is in force is published.
PublishedInForce ==
    \A e \in PublishedEdges : \E r \in Relations :
        /\ HasRow(r, InForceAt(r, Len(events[r])))
        /\ e = EdgeOf(r, InForceAt(r, Len(events[r])))
InForcePublished ==
    \A r \in Relations, n \in Revisions :
        InForceAt(r, Len(events[r])) = n => HasRow(r, n) /\ EdgeOf(r, n) \in PublishedEdges

LEMMA PublishedAreInForce == IInv /\ AllHistoriesOK => PublishedInForce /\ InForcePublished
<1> SUFFICES ASSUME IInv, AllHistoriesOK PROVE PublishedInForce /\ InForcePublished
  OBVIOUS
<1>1. \A r \in Relations : InForceAt(r, Len(events[r])) = edge[r]
  BY InForceNow DEF InForceAt
<1>2. \A r \in Relations : edge[r] # 0 => HasRow(r, edge[r])
  BY PublishedRows DEF HasRow
<1>3. 0 \notin Revisions
  BY BoundAssumption DEF Revisions
<1> QED
  BY <1>1, <1>2, <1>3, InPublishedEdges DEF EdgeOf, PublishedInForce, InForcePublished

\* What was said of earlier moments is still true after a step.
LEMMA MomentsStay ==
    ASSUME IInv, IInv', HistoryKept, NEW r \in Relations
    PROVE  /\ Len(events[r]) \in Nat /\ Len(events'[r]) \in Nat
           /\ Len(events[r]) <= Len(events'[r])
           /\ \A k \in 0..Len(events[r]) : InForceAt(r, k)' = InForceAt(r, k)
           /\ \A n : HasRow(r, n) => HasRow(r, n)' /\ EdgeOf(r, n)' = EdgeOf(r, n)
<1>1. Len(events[r]) \in Nat /\ Len(events'[r]) \in Nat /\ Len(events[r]) <= Len(events'[r])
  BY DEF IInv, TypeOK, HistoryKept
<1>2. \A k \in 0..Len(events[r]) : InForceAt(r, k)' = InForceAt(r, k)
  BY InForceStays DEF InForceAt
<1>3. \A n \in Revisions : versions[r][n] # None => versions'[r][n] = versions[r][n]
  BY DEF HistoryKept
<1>4. \A n : HasRow(r, n) => HasRow(r, n)' /\ EdgeOf(r, n)' = EdgeOf(r, n)
  BY <1>3 DEF HasRow, EdgeOf
<1> QED
  BY <1>1, <1>2, <1>4

\* A transaction: the trace may see what it publishes from now on, and has not seen all
\* along what it takes away.
LEMMA TransactKeeps == TracedInv /\ Transact => TracedInv'
<1> SUFFICES ASSUME TracedInv, Transact PROVE TracedInv'
  OBVIOUS
<1>1. IInv /\ AllHistoriesOK /\ effective = PublishedEdges /\ MomentsOK
  BY DEF TracedInv
<1>2. Next /\ IInv' /\ HistoryKept /\ AllHistoriesOK'
  BY <1>1, StepInv, StepKept, StepHistory DEF Transact
<1>2a. (IInv /\ AllHistoriesOK => PublishedInForce /\ InForcePublished)'
  BY PublishedAreInForce, PTL
<1>3. effective' = PublishedEdges' /\ UNCHANGED <<phase, snapshot>>
  BY DEF Transact, ChangeTo, traceVars, graphVars, walkVars
<1>4. /\ always' = always \/ (UnderWay /\ always' = always \cap PublishedEdges')
      /\ UnderWay => \A e \in always : e \in PublishedEdges' => e \in always'
      /\ ever' = ever \/ (UnderWay /\ ever' = ever \cup PublishedEdges')
  BY DEF Transact, ChangeTo, traceVars
<1>5. UnderWay' = UnderWay
  BY <1>3 DEF UnderWay
<1>6. /\ UnderWay => moments' = [moments EXCEPT !.to = LogLengths']
      /\ ~ UnderWay => moments' = moments
  BY DEF Transact
<1>7. ASSUME NEW r \in Relations
      PROVE  /\ Len(events[r]) \in Nat /\ Len(events'[r]) \in Nat
             /\ Len(events[r]) <= Len(events'[r])
             /\ \A k \in 0..Len(events[r]) : InForceAt(r, k)' = InForceAt(r, k)
             /\ \A n : HasRow(r, n) => HasRow(r, n)' /\ EdgeOf(r, n)' = EdgeOf(r, n)
  BY <1>1, <1>2, MomentsStay
<1>8. MomentsOK'
  <2>1. LogLengths' \in [Relations -> Nat] /\ \A r \in Relations : LogLengths'[r] = Len(events'[r])
    BY <1>7 DEF LogLengths
  <2>2. CASE UnderWay
    <3>1. /\ moments'.from = moments.from /\ moments'.query = moments.query
          /\ moments'.to = LogLengths'
          /\ moments' \in [from : [Relations -> Nat], query : [Relations -> Nat],
                            to : [Relations -> Nat]]
      BY <1>1, <1>6, <2>1, <2>2 DEF MomentsOK
    <3>2. ASSUME NEW r \in Relations
          PROVE  /\ moments'.from[r] <= moments'.to[r]
                 /\ moments'.to[r] = Len(events'[r])
                 /\ moments'.to[r] <= Len(events'[r])
                 /\ moments'.query[r] <= Len(events'[r])
      <4>1. /\ moments.from[r] \in Nat /\ moments.to[r] \in Nat /\ moments.query[r] \in Nat
            /\ moments.from[r] <= moments.to[r] /\ moments.to[r] <= Len(events[r])
            /\ moments.query[r] <= Len(events[r])
        BY <1>1 DEF MomentsOK
      <4> QED
        BY <1>7, <2>1, <3>1, <4>1
    <3> QED
      BY <3>1, <3>2 DEF MomentsOK
  <2>3. CASE ~ UnderWay
    BY <1>1, <1>5, <1>6, <1>7, <2>3 DEF MomentsOK
  <2> QED
    BY <2>2, <2>3
<1>9. /\ \A r \in Relations :
            /\ moments'.from[r] = moments.from[r] /\ moments'.query[r] = moments.query[r]
            /\ moments.from[r] \in Nat /\ moments.to[r] \in Nat /\ moments.query[r] \in Nat
            /\ moments.from[r] <= moments.to[r] /\ moments.to[r] <= Len(events[r])
            /\ moments.query[r] <= Len(events[r])
            /\ moments'.to[r] = IF UnderWay THEN Len(events'[r]) ELSE moments.to[r]
  BY <1>1, <1>6 DEF MomentsOK, LogLengths
<1>10. ASSUME NEW r \in Relations
       PROVE  /\ During(r) \subseteq During(r)' /\ During(r) \subseteq 0..Len(events[r])
              /\ UnderWay => Len(events'[r]) \in During(r)'
  BY <1>7, <1>9 DEF During
<1>11. EverWasInForce'
  <2> SUFFICES ASSUME phase # "Idle", NEW e \in ever'
               PROVE  \E r \in Relations : \E k \in During(r)' :
                        HasRow(r, InForceAt(r, k))' /\ e = EdgeOf(r, InForceAt(r, k))'
    BY <1>3 DEF EverWasInForce
  <2>1. CASE e \in ever
    <3>1. PICK r \in Relations : \E k \in During(r) :
             HasRow(r, InForceAt(r, k)) /\ e = EdgeOf(r, InForceAt(r, k))
      BY <2>1 DEF TracedInv, EverWasInForce
    <3>2. PICK k \in During(r) : HasRow(r, InForceAt(r, k)) /\ e = EdgeOf(r, InForceAt(r, k))
      BY <3>1
    <3>3. k \in During(r)' /\ InForceAt(r, k)' = InForceAt(r, k)
      BY <1>7, <1>10, <3>2
    <3>4. HasRow(r, InForceAt(r, k))' /\ EdgeOf(r, InForceAt(r, k))' = EdgeOf(r, InForceAt(r, k))
      BY <1>7, <3>2, <3>3 DEF HasRow, EdgeOf
    <3> QED
      BY <3>2, <3>3, <3>4
  <2>2. CASE UnderWay /\ e \in PublishedEdges'
    BY <1>2, <1>2a, <1>10, <2>2 DEF PublishedInForce
  <2> QED
    BY <1>4, <2>1, <2>2
<1>12. AlwaysIfInForce'
  <2> SUFFICES ASSUME phase # "Idle", NEW r \in Relations, NEW n \in Revisions,
                      \A k \in During(r)' : InForceAt(r, k)' = n
               PROVE  HasRow(r, n)' /\ EdgeOf(r, n)' \in always'
    BY <1>3 DEF AlwaysIfInForce
  <2>1. \A k \in During(r) : InForceAt(r, k) = n
    BY <1>7, <1>10
  <2>2. HasRow(r, n) /\ EdgeOf(r, n) \in always
    BY <2>1 DEF TracedInv, AlwaysIfInForce
  <2>3. HasRow(r, n)' /\ EdgeOf(r, n)' = EdgeOf(r, n)
    BY <1>7, <2>2
  <2>4. CASE UnderWay
    <3>2. InForceAt(r, Len(events[r]))' = n
      BY <1>10, <2>4 DEF InForceAt
    <3>3. EdgeOf(r, n)' \in PublishedEdges'
      BY <1>2, <1>2a, <3>2 DEF InForcePublished
    <3> QED
      BY <1>4, <2>2, <2>3, <2>4, <3>3
  <2>5. CASE ~ UnderWay
    BY <1>4, <2>2, <2>3, <2>5
  <2> QED
    BY <2>4, <2>5
<1>13. SnapshotWasInForce'
  <2> SUFFICES ASSUME NEW e \in snapshot
               PROVE  \E r \in Relations :
                        /\ HasRow(r, InForceAt(r, moments.query[r]))'
                        /\ e = EdgeOf(r, InForceAt(r, moments.query[r]))'
    BY <1>3 DEF TracedInv, SnapshotWasInForce
  <2>1. PICK r \in Relations : /\ HasRow(r, InForceAt(r, moments.query[r]))
                               /\ e = EdgeOf(r, InForceAt(r, moments.query[r]))
    BY DEF TracedInv, SnapshotWasInForce
  <2>2. InForceAt(r, moments.query[r])' = InForceAt(r, moments.query[r])
    BY <1>7, <1>9 DEF InForceAt
  <2> QED
    BY <1>7, <2>1, <2>2 DEF HasRow, EdgeOf
<1> QED
  BY <1>2, <1>3, <1>8, <1>11, <1>12, <1>13 DEF TracedInv

\* A trace begins with the edges in force now.
LEMMA BeginTraceKeeps ==
    ASSUME TracedInv, NEW q \in TraceRequests, BeginTrace(q)
    PROVE  TracedInv'
<1>1. IInv /\ AllHistoriesOK /\ effective = PublishedEdges /\ MomentsOK /\ SnapshotWasInForce
  BY DEF TracedInv
<1>2. UNCHANGED vars /\ effective' = effective /\ phase = "Idle" /\ phase' # "Idle"
      /\ snapshot' = snapshot /\ always' = effective /\ ever' = effective
  BY DEF BeginTrace, Trace, graphVars
<1>3. UNCHANGED <<versions, current, events, edge>>
  BY <1>2 DEF vars, tables
<1>4. IInv' /\ AllHistoriesOK'
  BY <1>1, <1>2, <1>3, StepInv DEF AllHistoriesOK
<1>5. effective' = PublishedEdges'
  BY <1>1, <1>2, <1>3 DEF PublishedEdges, EdgesOf
<1>6. \A r \in Relations : Len(events[r]) \in Nat
  BY <1>1 DEF IInv, TypeOK
<1>7. moments' = [from |-> LogLengths, query |-> LogLengths, to |-> LogLengths]
  BY DEF BeginTrace
<1>8. LogLengths \in [Relations -> Nat] /\ \A r \in Relations : LogLengths[r] = Len(events[r])
  BY <1>6 DEF LogLengths
<1>9. MomentsOK'
  BY <1>3, <1>6, <1>7, <1>8 DEF MomentsOK
<1>10. \A r \in Relations : During(r)' = {Len(events[r])}
  BY <1>6, <1>7, <1>8 DEF During
<1>11. PublishedInForce /\ InForcePublished
  BY <1>1, PublishedAreInForce
<1>12. \A r \in Relations : \A k : InForceAt(r, k)' = InForceAt(r, k)
  BY <1>3 DEF InForceAt
<1>13. \A r \in Relations : \A n : HasRow(r, n)' = HasRow(r, n) /\ EdgeOf(r, n)' = EdgeOf(r, n)
  BY <1>3 DEF HasRow, EdgeOf
<1>14. EverWasInForce'
  <2> SUFFICES ASSUME NEW e \in PublishedEdges
               PROVE  \E r \in Relations : \E k \in During(r)' :
                        HasRow(r, InForceAt(r, k))' /\ e = EdgeOf(r, InForceAt(r, k))'
    BY <1>1, <1>2 DEF EverWasInForce
  <2>1. PICK r \in Relations : /\ HasRow(r, InForceAt(r, Len(events[r])))
                               /\ e = EdgeOf(r, InForceAt(r, Len(events[r])))
    BY <1>11 DEF PublishedInForce
  <2>2. HasRow(r, InForceAt(r, Len(events[r])))' /\ e = EdgeOf(r, InForceAt(r, Len(events[r])))'
    BY <1>3, <2>1 DEF HasRow, EdgeOf, InForceAt
  <2> QED
    BY <1>3, <1>10, <2>2
<1>15. AlwaysIfInForce'
  <2> SUFFICES ASSUME NEW r \in Relations, NEW n \in Revisions,
                      \A k \in During(r)' : InForceAt(r, k)' = n
               PROVE  HasRow(r, n)' /\ EdgeOf(r, n)' \in always'
    BY DEF AlwaysIfInForce
  <2>1. InForceAt(r, Len(events[r])) = n
    BY <1>10, <1>12
  <2>2. HasRow(r, n) /\ EdgeOf(r, n) \in PublishedEdges
    BY <1>11, <2>1 DEF InForcePublished
  <2> QED
    BY <1>1, <1>2, <1>13, <2>2
<1>16. SnapshotWasInForce'
  BY <1>1, <1>2 DEF SnapshotWasInForce
<1> QED
  BY <1>4, <1>5, <1>9, <1>14, <1>15, <1>16 DEF TracedInv

\* The recursive query sees the edges in force now.
LEMMA QueryEdgesKeeps == TracedInv /\ QueryEdges => TracedInv'
<1> SUFFICES ASSUME TracedInv, QueryEdges PROVE TracedInv'
  OBVIOUS
<1>1. /\ IInv /\ AllHistoriesOK /\ effective = PublishedEdges /\ MomentsOK
      /\ EverWasInForce /\ AlwaysIfInForce
  BY DEF TracedInv
<1>2. UNCHANGED vars /\ effective' = effective /\ phase = "Query" /\ phase' = "Walk"
      /\ snapshot' = effective /\ always' = always /\ ever' = ever
  BY DEF QueryEdges, LoadRecursiveEdges, graphVars
<1>3. UNCHANGED <<versions, current, events, edge>>
  BY <1>2 DEF vars, tables
<1>4. IInv' /\ AllHistoriesOK'
  BY <1>1, <1>2, <1>3, StepInv DEF AllHistoriesOK
<1>5. effective' = PublishedEdges'
  BY <1>1, <1>2, <1>3 DEF PublishedEdges, EdgesOf
<1>6. \A r \in Relations : Len(events[r]) \in Nat
  BY <1>1 DEF IInv, TypeOK
<1>7. LogLengths \in [Relations -> Nat] /\ \A r \in Relations : LogLengths[r] = Len(events[r])
  BY <1>6 DEF LogLengths
<1>8. /\ moments'.from = moments.from /\ moments'.to = moments.to
      /\ moments'.query = LogLengths
      /\ moments' \in [from : [Relations -> Nat], query : [Relations -> Nat],
                        to : [Relations -> Nat]]
  BY <1>1, <1>7 DEF QueryEdges, MomentsOK
<1>9. MomentsOK'
  BY <1>1, <1>2, <1>3, <1>6, <1>7, <1>8 DEF MomentsOK, UnderWay
<1>10. \A r \in Relations : During(r)' = During(r)
  BY <1>8 DEF During
<1>11. PublishedInForce
  BY <1>1, PublishedAreInForce
<1>12. \A r \in Relations : \A k : InForceAt(r, k)' = InForceAt(r, k)
  BY <1>3 DEF InForceAt
<1>13. \A r \in Relations : \A n : HasRow(r, n)' = HasRow(r, n) /\ EdgeOf(r, n)' = EdgeOf(r, n)
  BY <1>3 DEF HasRow, EdgeOf
<1>14. EverWasInForce'
  BY <1>1, <1>2, <1>3, <1>10 DEF EverWasInForce, HasRow, EdgeOf, InForceAt
<1>15. AlwaysIfInForce'
  BY <1>1, <1>2, <1>3, <1>10 DEF AlwaysIfInForce, HasRow, EdgeOf, InForceAt
<1>16. SnapshotWasInForce'
  <2> SUFFICES ASSUME NEW e \in PublishedEdges
               PROVE  \E r \in Relations :
                        /\ HasRow(r, InForceAt(r, moments.query[r]))'
                        /\ e = EdgeOf(r, InForceAt(r, moments.query[r]))'
    BY <1>1, <1>2 DEF SnapshotWasInForce
  <2>1. PICK r \in Relations : /\ HasRow(r, InForceAt(r, Len(events[r])))
                               /\ e = EdgeOf(r, InForceAt(r, Len(events[r])))
    BY <1>11 DEF PublishedInForce
  <2> QED
    BY <1>3, <1>7, <1>8, <2>1 DEF HasRow, EdgeOf, InForceAt
<1> QED
  BY <1>4, <1>5, <1>9, <1>14, <1>15, <1>16 DEF TracedInv

\* The search goes on without touching the edges or the history.
LEMMA SearchSteps ==
    SearchOn => /\ UNCHANGED <<vars, moments, effective, always, ever, snapshot>>
                /\ UnderWay /\ phase' # "Idle"
<1> SUFFICES ASSUME SearchOn
             PROVE  /\ UNCHANGED <<vars, moments, effective, always, ever, snapshot>>
                    /\ UnderWay /\ phase' # "Idle"
  OBVIOUS
<1>1. UNCHANGED <<vars, moments>>
  BY DEF SearchOn
<1>2. CASE LoadEdges \/ LoadNothing \/ NextLevel \/ WalkEnds
  BY <1>1, <1>2 DEF LoadEdges, LoadNothing, NextLevel, WalkEnds, Stop, graphVars, walkVars,
                    UnderWay
<1>3. ASSUME NEW p, NEW e, NEW loaded, Consider(p, e, loaded)
      PROVE  phase' \in {phase, "Done", "Failed"}
  BY <1>3 DEF Consider, Pass, LeaveOut, StopAt, Stop, Extend, Fail
<1>4. CASE \E pe \in pending : ExpandEdge(pe[1], pe[2])
  <2>1. PICK pe \in pending : ExpandEdge(pe[1], pe[2])
    BY <1>4
  <2>2. phase = "Expand" /\ phase' \in {phase, "Done", "Failed"}
    BY <1>3, <2>1 DEF ExpandEdge, Stop
  <2>3. UNCHANGED <<effective, always, ever, snapshot>>
    BY <2>1 DEF ExpandEdge, graphVars, walkVars
  <2> QED
    BY <1>1, <2>2, <2>3 DEF UnderWay
<1>5. CASE \E row \in walk : WalkRow(row)
  <2>1. PICK row \in walk : WalkRow(row)
    BY <1>5
  <2>2. phase = "Walk" /\ phase' \in {phase, "Done", "Failed"}
    BY <1>3, <2>1 DEF WalkRow, Fail
  <2>3. UNCHANGED <<effective, always, ever, snapshot>>
    BY <2>1 DEF WalkRow, graphVars
  <2> QED
    BY <1>1, <2>2, <2>3 DEF UnderWay
<1> QED
  BY <1>2, <1>4, <1>5 DEF SearchOn

\* The invariant speaks of these variables only.
LEMMA SearchOnKeeps ==
    ASSUME TracedInv, UNCHANGED <<vars, moments, effective, always, ever, snapshot>>,
           phase = "Idle" <=> phase' = "Idle", UnderWay' => UnderWay
    PROVE  TracedInv'
<1>1. /\ IInv /\ AllHistoriesOK /\ effective = PublishedEdges /\ MomentsOK
      /\ EverWasInForce /\ AlwaysIfInForce /\ SnapshotWasInForce
  BY DEF TracedInv
<1>2. UNCHANGED <<versions, current, events, edge>>
  BY DEF vars, tables
<1>3. IInv' /\ AllHistoriesOK'
  BY <1>1, <1>2, StepInv DEF AllHistoriesOK
<1>4. effective' = PublishedEdges'
  BY <1>1, <1>2 DEF PublishedEdges, EdgesOf
<1>5. MomentsOK'
  BY <1>1, <1>2 DEF MomentsOK
<1>6. EverWasInForce' /\ AlwaysIfInForce'
  BY <1>1, <1>2 DEF EverWasInForce, AlwaysIfInForce, During, HasRow, EdgeOf, InForceAt
<1>7. SnapshotWasInForce'
  BY <1>1, <1>2 DEF SnapshotWasInForce, HasRow, EdgeOf, InForceAt
<1> QED
  BY <1>3, <1>4, <1>5, <1>6, <1>7 DEF TracedInv

LEMMA TracedStepKeeps == TracedInv /\ [TracedNext]_tracedVars => TracedInv'
<1> SUFFICES ASSUME TracedInv, [TracedNext]_tracedVars PROVE TracedInv'
  OBVIOUS
<1>1. CASE Transact \/ QueryEdges
  BY <1>1, TransactKeeps, QueryEdgesKeeps
<1>2. CASE \E r \in TraceRequests : BeginTrace(r)
  BY <1>2, BeginTraceKeeps
<1>3. CASE SearchOn
  <2>1. UnderWay => phase # "Idle"
    BY DEF UnderWay
  <2> QED
    BY <1>3, <2>1, SearchSteps, SearchOnKeeps
<1>4. CASE UNCHANGED tracedVars
  <2>1. UNCHANGED <<vars, moments, effective, always, ever, snapshot, phase>>
    BY <1>4 DEF tracedVars, traceVars, graphVars, walkVars
  <2> QED
    BY <2>1, SearchOnKeeps DEF UnderWay
<1> QED
  BY <1>1, <1>2, <1>3, <1>4 DEF TracedNext

THEOREM TracedInvariantHolds == TracedSpec => []TracedInv
<1>1. TracedInit => TracedInv
  BY TracedInitHolds
<1>2. TracedInv /\ [TracedNext]_tracedVars => TracedInv'
  BY TracedStepKeeps
<1> QED
  BY <1>1, <1>2, PTL DEF TracedSpec

\* The steps of the composition are steps of GraphTrace, and steps of the store.
LEMMA TracedSteps ==
    ASSUME TracedInv, [TracedNext]_tracedVars
    PROVE  [TraceNext]_traceVars /\ [Next]_vars
<1>1. CASE Transact
  BY <1>1, TransactionsAreAllowed DEF TracedInv, Transact
<1>2. CASE QueryEdges \/ SearchOn \/ \E r \in TraceRequests : BeginTrace(r)
  <2>1. TraceNext
    BY <1>2 DEF QueryEdges, SearchOn, BeginTrace, TraceNext
  <2>2. UNCHANGED vars
    BY <1>2 DEF QueryEdges, SearchOn, BeginTrace
  <2> QED
    BY <2>1, <2>2
<1>3. CASE UNCHANGED tracedVars
  BY <1>3 DEF tracedVars
<1> QED
  BY <1>1, <1>2, <1>3 DEF TracedNext

\* The relation store is an environment that GraphTrace allows: what the traces promise
\* for any such environment they promise for the transactions of the code.
THEOREM StoreImplementsGraphTrace == TracedSpec => ImplementsGraphTrace
<1>1. TracedInit => TraceInit
  BY DEF TracedInit
<1>2. TracedInv /\ [TracedNext]_tracedVars => [TraceNext]_traceVars
  BY TracedSteps
<1> QED
  BY <1>1, <1>2, TracedInvariantHolds, PTL DEF TracedSpec, TraceSpec, ImplementsGraphTrace

\* Traces read only: the store with traces over it is the store, and so is all that is
\* proved of its tables and of its history.
THEOREM TracesDoNotDisturb == TracedSpec => Spec /\ HistoryNeverRewritten
<1>1. TracedInit => Init
  BY DEF TracedInit
<1>2. TracedInv /\ [TracedNext]_tracedVars => [Next]_vars
  BY TracedSteps
<1>3. TracedSpec => Spec
  BY <1>1, <1>2, TracedInvariantHolds, PTL DEF TracedSpec, Spec
<1> QED
  BY <1>3, HistoryIsAppendOnly, PTL

\* The edges that a trace saw are among those of the revisions that were in force.
LEMMA SeenEdges ==
    ASSUME TracedInv
    PROVE  /\ snapshot \subseteq InForceAtQuery
           /\ phase # "Idle" => ever \subseteq InForceOnce
           /\ phase # "Idle" => InForceThroughout \subseteq always
<1>1. 0 \notin Revisions
  BY BoundAssumption DEF Revisions
<1>2. EverWasInForce /\ AlwaysIfInForce /\ SnapshotWasInForce
  BY DEF TracedInv
<1>3. snapshot \subseteq InForceAtQuery
  BY <1>1, <1>2 DEF SnapshotWasInForce, InForceAtQuery, EdgesOf, HasRow, EdgeOf, InForceAt
<1>4. ASSUME phase # "Idle", NEW e \in ever
      PROVE  e \in InForceOnce
  <2>1. PICK r \in Relations : \E k \in During(r) :
           HasRow(r, InForceAt(r, k)) /\ e = EdgeOf(r, InForceAt(r, k))
    BY <1>2, <1>4 DEF EverWasInForce
  <2>2. PICK k \in During(r) : HasRow(r, InForceAt(r, k)) /\ e = EdgeOf(r, InForceAt(r, k))
    BY <2>1
  <2>3. InForce(events[r], k) \in {InForce(events[r], j) : j \in During(r)} \ {0}
    BY <1>1, <2>2 DEF HasRow, InForceAt
  <2>4. e \in EdgesOf(r, {InForce(events[r], j) : j \in During(r)} \ {0})
    BY <2>2, <2>3 DEF EdgesOf, EdgeOf, InForceAt
  <2> QED
    BY <2>4 DEF InForceOnce
<1>5. ASSUME phase # "Idle", NEW e \in InForceThroughout
      PROVE  e \in always
  <2>1. PICK r \in Relations :
           e \in EdgesOf(r, {n \in Revisions : \A k \in During(r) : InForce(events[r], k) = n})
    BY <1>5 DEF InForceThroughout
  <2>2. PICK n \in Revisions : /\ \A k \in During(r) : InForce(events[r], k) = n
                               /\ e = EdgeAt(r, n, versions[r][n].content)
    BY <2>1 DEF EdgesOf
  <2> QED
    BY <1>2, <1>5, <2>2 DEF AlwaysIfInForce, EdgeOf, InForceAt
<1> QED
  BY <1>3, <1>4, <1>5

\* No trace lists a step that the history of its relation did not put in force while
\* the trace ran, for every graph, every request and every mix of transactions.
THEOREM TracesListWhatWasInForce == TracedSpec => []ListedWereInForce
<1>1. TracedInv /\ TraceInv /\ TraceSound => ListedWereInForce
  <2> SUFFICES ASSUME TracedInv, TraceInv, TraceSound, request # Absent
               PROVE  result.paths \subseteq
                        Answer(IF Recursive THEN InForceAtQuery ELSE InForceOnce)
    BY DEF ListedWereInForce
  <2>1. phase # "Idle"
    BY DEF TraceInv, PhaseInv
  <2>2. result.paths \subseteq Answer(IF Recursive THEN snapshot ELSE ever)
    BY DEF TraceSound
  <2> DEFINE G == IF Recursive THEN snapshot ELSE ever
             H == IF Recursive THEN InForceAtQuery ELSE InForceOnce
  <2>3. G \subseteq H
    BY <2>1, SeenEdges
  <2> HIDE DEF G, H
  <2>4. Answer(G) \subseteq Answer(H)
    BY <2>3, MoreEdgesAnswerMore
  <2> QED
    BY <2>2, <2>4 DEF G, H
<1>2. TracedSpec => TraceSpec
  BY StoreImplementsGraphTrace DEF ImplementsGraphTrace
<1> QED
  BY <1>1, <1>2, TracedInvariantHolds, TraceInvariantHolds, TracesAreSound, PTL

\* A trace that is not truncated misses no path over the revisions that the history has
\* in force all the while it runs.
THEOREM TracesListWhatIsInForce == TracedSpec => []InForceIsListed
<1>1. TracedInv /\ TraceComplete => InForceIsListed
  <2> SUFFICES ASSUME TracedInv, TraceComplete, phase = "Done", ~ result.truncated
               PROVE  Answer(InForceThroughout) \subseteq result.paths
    BY DEF InForceIsListed
  <2>1. Answer(always) \subseteq result.paths
    BY DEF TraceComplete
  <2>2. InForceThroughout \subseteq always
    BY SeenEdges
  <2> QED
    BY <2>1, <2>2, MoreEdgesAnswerMore
<1>2. TracedSpec => TraceSpec
  BY StoreImplementsGraphTrace DEF ImplementsGraphTrace
<1> QED
  BY <1>1, <1>2, TracedInvariantHolds, TracesAreComplete, PTL

=============================================================================
