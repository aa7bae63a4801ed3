------------------------ MODULE SourceBindingProofs ------------------------
(***************************************************************************)
(* Proofs about the bindings of workspaces to data sources, for every set  *)
(* of repositories, remotes, agents and requests: no update is lost, no    *)
(* request acts twice, an open store finds every repository by its remote, *)
(* and nothing is bound to a remote that two repositories claim.           *)
(***************************************************************************)
EXTENDS SourceBinding, CatalogProofs, FiniteSetTheorems, WellFoundedInduction

Bindings == Repositories \X Contexts

Revision == [sources : SUBSET Sources, request : Requests, basis : SUBSET Sources]

BindingTypeOK ==
    /\ repositories \subseteq Repositories /\ IsFiniteSet(repositories)
    /\ backfill \in [last : Nat, complete : BOOLEAN]
    /\ open \in BOOLEAN
    /\ revisions \in [Bindings -> Seq(Revision)]
    /\ DOMAIN resolving = Agents

\* The backfill has passed the repositories up to the last one it names, and all of
\* them once it is complete; a store that is open has completed it.
IdentitiesOK ==
    /\ open => backfill.complete
    /\ \A r \in repositories :
          RemoteOf[r] # None /\ (backfill.complete \/ r <= backfill.last)
              => <<r, RemoteOf[r]>> \in identities

\* What was read of a binding is a revision of it with its data sources, or that there
\* was none.
BasisOK(b, no, sources) ==
    \/ no = 0 /\ sources = {}
    \/ no \in DOMAIN revisions[b] /\ sources = revisions[b][no].sources

ResolutionOK(w) ==
    /\ w.phase \in {"Found", "Current", "Done"}
    /\ <<w.repository, w.context>> \in Bindings
    /\ w.phase = "Current" => w.no \in DOMAIN revisions[<<w.repository, w.context>>]
    /\ w.phase = "Done" => BasisOK(<<w.repository, w.context>>, w.no, w.sources)

ResolvingOK == \A g \in Agents : resolving[g] # None => ResolutionOK(resolving[g])

SentOK == \A c \in sent : c \in Command /\ BasisOK(Binding(c), c.expected, c.basis)

\* Every revision is the work of a request of its own.
OneRevisionEach ==
    \A b1, b2 \in Bindings : \A i1 \in DOMAIN revisions[b1], i2 \in DOMAIN revisions[b2] :
        revisions[b1][i1].request = revisions[b2][i2].request => b1 = b2 /\ i1 = i2

\* Whoever was told a revision was told the one that holds what its command asked for.
AnswersOK ==
    \A a \in answers :
        /\ Binding(a.command) \in Bindings
        /\ a.no \in DOMAIN revisions[Binding(a.command)]
        /\ revisions[Binding(a.command)][a.no].sources = a.command.sources
        /\ revisions[Binding(a.command)][a.no].request = a.command.request

RevisionsOK == ResolvingOK /\ SentOK /\ NoLostUpdate /\ OneRevisionEach /\ AnswersOK

BindingInv == CatalogInv /\ BindingTypeOK /\ IdentitiesOK /\ RevisionsOK

-----------------------------------------------------------------------------
(* The least and the greatest element of a finite set of numbers.          *)

\* A set of numbers has a least element.
LEMMA LeastElement ==
    ASSUME NEW S \in SUBSET Nat, S # {}
    PROVE  \E x \in S : \A y \in S : x <= y
<1> DEFINE less == OpToRel(<, Nat)
<1>1. IsWellFoundedOn(less, Nat)
  BY NatLessThanWellFounded
<1>2. \A x, y \in Nat : <<y, x>> \in less <=> y < x
  BY DEF OpToRel
<1> HIDE DEF less
<1>3. PICK x \in S : \A y \in S : ~ (<<y, x>> \in less)
  BY <1>1, WFMin
<1>4. ASSUME NEW y \in S PROVE x <= y
  <2>1. x \in Nat /\ y \in Nat /\ ~ (y < x)
    BY <1>2, <1>3
  <2> QED
    BY <2>1
<1> QED
  BY <1>4

\* Max of a finite set of numbers is its greatest element: the one with the fewest
\* elements above it has none above it.
LEMMA GreatestElement ==
    ASSUME NEW S \in SUBSET Nat, IsFiniteSet(S), S # {}
    PROVE  Max(S) \in S /\ \A y \in S : y <= Max(S)
<1> DEFINE Above(x) == {y \in S : y > x}
           sizes == {Cardinality(Above(x)) : x \in S}
<1>1. ASSUME NEW x \in S
      PROVE  IsFiniteSet(Above(x)) /\ Cardinality(Above(x)) \in Nat
  BY FS_Subset, FS_CardinalityType
<1>2. sizes \in SUBSET Nat /\ sizes # {}
  BY <1>1
<1>3. PICK size \in sizes : \A other \in sizes : size <= other
  BY <1>2, LeastElement
<1>4. PICK x \in S : size = Cardinality(Above(x))
  BY <1>3
<1>5. ASSUME NEW y \in S PROVE y <= x
  <2> SUFFICES ASSUME y > x PROVE FALSE
    OBVIOUS
  <2>1. Above(y) \in SUBSET Above(x) /\ y \in Above(x) /\ y \notin Above(y)
    <3>1. x \in Nat /\ y \in Nat /\ \A z \in S : z \in Nat
      OBVIOUS
    <3>2. \A z \in S : z > y => z > x
      BY <3>1
    <3>3. ~ (y > y)
      BY <3>1
    <3> QED
      BY <3>2, <3>3
  <2>2. Cardinality(Above(y)) <= Cardinality(Above(x))
        /\ Cardinality(Above(y)) # Cardinality(Above(x))
    BY <1>1, <2>1, FS_Subset
  <2>3. Cardinality(Above(x)) <= Cardinality(Above(y))
    BY <1>3, <1>4
  <2> QED
    BY <1>1, <2>2, <2>3
<1>6. \A y \in S : x >= y
  BY <1>5
<1>7. Max(S) \in S /\ \A y \in S : Max(S) >= y
  BY <1>6 DEF Max
<1> QED
  BY <1>7

-----------------------------------------------------------------------------
(* A batch of the backfill.                                                *)

\* The repositories of a batch come before all that it leaves out, and a batch that
\* leaves some out is full.
LEMMA BatchIsAPrefix ==
    ASSUME BindingTypeOK, NEW r \in repositories, r > backfill.last, r \notin Candidates
    PROVE  /\ ~ CompleteAfter(Candidates)
           /\ \A q \in Candidates : q < r
<1> DEFINE Below(x) == {q \in repositories : backfill.last < q /\ q < x}
<1>1. /\ repositories \in SUBSET Nat /\ IsFiniteSet(repositories)
      /\ backfill.last \in Nat /\ BatchSize \in Nat \ {0}
  BY BindingAssumption DEF BindingTypeOK
<1>2. \A x \in repositories : /\ IsFiniteSet(Below(x)) /\ Cardinality(Below(x)) \in Nat
                              /\ x \in Candidates <=>
                                   x > backfill.last /\ Cardinality(Below(x)) < BatchSize
  <2> TAKE x \in repositories
  <2>1. Below(x) \in SUBSET repositories
    OBVIOUS
  <2>2. IsFiniteSet(Below(x)) /\ Cardinality(Below(x)) \in Nat
    BY <1>1, <2>1, FS_Subset, FS_CardinalityType
  <2> QED
    BY <2>2 DEF Candidates
<1>3. IsFiniteSet(Candidates) /\ Candidates \subseteq repositories
      /\ Cardinality(Candidates) \in Nat
  <2>1. Candidates \in SUBSET repositories
    BY DEF Candidates
  <2> QED
    BY <1>1, <2>1, FS_Subset, FS_CardinalityType
<1>4. ASSUME NEW q \in Candidates PROVE q < r
  <2> SUFFICES ASSUME r <= q PROVE FALSE
    BY <1>1, <1>3
  <2>1. Below(r) \in SUBSET Below(q) /\ q \in repositories
    <3>1. q \in repositories /\ q \in Nat /\ r \in Nat /\ \A z \in repositories : z \in Nat
      BY <1>1, <1>3
    <3>2. \A z \in repositories : z < r => z < q
      BY <3>1
    <3> QED
      BY <3>1, <3>2
  <2>2. Cardinality(Below(r)) <= Cardinality(Below(q))
    BY <1>2, <2>1, FS_Subset
  <2>3. Cardinality(Below(q)) < BatchSize /\ ~ (Cardinality(Below(r)) < BatchSize)
    BY <1>2, <2>1
  <2> HIDE DEF Below
  <2> QED
    BY <1>1, <1>2, <2>1, <2>2, <2>3
<1>5. ~ (Cardinality(Candidates) < BatchSize)
  <2> DEFINE left == {x \in repositories : x > backfill.last /\ x \notin Candidates}
  <2>1. left \in SUBSET Nat /\ left # {}
    BY <1>1
  <2>2. PICK x \in left : \A y \in left : x <= y
    BY <2>1, LeastElement
  <2>3. Below(x) \in SUBSET Candidates
    <3> SUFFICES ASSUME NEW z \in repositories, backfill.last < z, z < x, z \notin Candidates
                 PROVE  FALSE
      OBVIOUS
    <3>1. z \in Nat /\ x \in Nat /\ z \in left
      BY <1>1
    <3> QED
      BY <2>2, <3>1
  <2>4. Cardinality(Below(x)) <= Cardinality(Candidates)
    BY <1>3, <2>3, FS_Subset
  <2>5. ~ (Cardinality(Below(x)) < BatchSize) /\ Cardinality(Below(x)) \in Nat
    BY <1>2, <2>2
  <2> HIDE DEF Below
  <2> QED
    BY <1>1, <1>3, <2>4, <2>5
<1> QED
  BY <1>4, <1>5 DEF CompleteAfter

\* A batch leaves the repositories up to the last of it with their identities.
LEMMA BackfillIdentities ==
    ASSUME BindingTypeOK, IdentitiesOK, BackfillBatch
    PROVE  BindingTypeOK' /\ IdentitiesOK'
<1>1. /\ repositories \in SUBSET Nat /\ IsFiniteSet(repositories)
      /\ backfill.last \in Nat /\ BatchSize \in Nat \ {0} /\ ~ open /\ ~ backfill.complete
      /\ UNCHANGED <<repositories, open, revisions, resolving>>
      /\ identities' = identities \cup IdentitiesOf(Candidates)
      /\ backfill'.last = (IF Candidates = {} THEN backfill.last ELSE Max(Candidates))
      /\ backfill'.complete = CompleteAfter(Candidates)
  BY BindingAssumption DEF BindingTypeOK, BackfillBatch
<1>2. Candidates \in SUBSET repositories /\ \A q \in Candidates : q > backfill.last
  BY DEF Candidates
<1>3. IsFiniteSet(Candidates) /\ Candidates \in SUBSET Nat
  BY <1>1, <1>2, FS_Subset
<1>4. Candidates # {} => Max(Candidates) \in Candidates
  BY <1>3, GreatestElement
<1>5. BindingTypeOK'
  <2>1. CompleteAfter(Candidates) \in BOOLEAN
    BY DEF CompleteAfter
  <2>2. backfill' \in [last : Nat, complete : BOOLEAN]
    BY <1>1, <1>3, <1>4, <2>1 DEF BackfillBatch
  <2> QED
    BY <1>1, <2>2 DEF BindingTypeOK
<1>6. ASSUME NEW r \in repositories, RemoteOf[r] # None,
             backfill'.complete \/ r <= backfill'.last
      PROVE  <<r, RemoteOf[r]>> \in identities'
  <2>1. CASE r <= backfill.last
    BY <1>1, <1>6, <2>1 DEF IdentitiesOK
  <2>2. CASE r \in Candidates
    BY <1>1, <1>6, <2>2 DEF IdentitiesOf
  <2>3. CASE r > backfill.last /\ r \notin Candidates
    <3>1. ~ backfill'.complete /\ \A q \in Candidates : q < r
      BY <1>1, <2>3, BatchIsAPrefix
    <3>2. r <= backfill'.last /\ r \in Nat
      BY <1>1, <1>6, <3>1
    <3>3. CASE Candidates = {}
      BY <1>1, <2>3, <3>2, <3>3
    <3>4. CASE Candidates # {}
      <4>1. Max(Candidates) < r /\ Max(Candidates) \in Nat
        BY <1>3, <1>4, <3>1, <3>4
      <4>2. r <= Max(Candidates)
        BY <1>1, <3>2, <3>4
      <4> QED
        BY <3>2, <4>1, <4>2
    <3> QED
      BY <3>3, <3>4
  <2>4. r \in Nat
    BY <1>1
  <2> QED
    BY <1>1, <2>1, <2>2, <2>3, <2>4
<1>7. ~ open'
  BY <1>1
<1> QED
  BY <1>1, <1>5, <1>6, <1>7 DEF IdentitiesOK

-----------------------------------------------------------------------------
(* Resolutions and replacements.                                           *)

\* What an agent keeps is a resolution; nothing else of the bindings changes.
LEMMA ResolvingStep ==
    ASSUME RevisionsOK, NEW g \in Agents, NEW w, w = None \/ ResolutionOK(w),
           DOMAIN resolving = Agents, resolving' = [resolving EXCEPT ![g] = w],
           UNCHANGED <<revisions, sent, answers>>
    PROVE  RevisionsOK'
<1>1. SentOK' /\ NoLostUpdate' /\ OneRevisionEach' /\ AnswersOK'
  BY DEF RevisionsOK, SentOK, BasisOK, NoLostUpdate, OneRevisionEach, AnswersOK
<1>2. ASSUME NEW h \in Agents, resolving'[h] # None PROVE ResolutionOK(resolving[h])'
  <2>1. CASE h = g
    <3>1. resolving'[h] = w /\ ResolutionOK(w)
      BY <1>2, <2>1
    <3> QED
      BY <3>1 DEF ResolutionOK, BasisOK
  <2>2. CASE h # g
    <3>1. resolving'[h] = resolving[h] /\ ResolutionOK(resolving[h])
      BY <1>2, <2>2 DEF RevisionsOK, ResolvingOK
    <3> QED
      BY <3>1 DEF ResolutionOK, BasisOK
  <2> QED
    BY <2>1, <2>2
<1> QED
  BY <1>1, <1>2 DEF RevisionsOK, ResolvingOK

\* The steps of a resolution.
LEMMA ResolveRevisions ==
    ASSUME BindingTypeOK, RevisionsOK, NEW g \in Agents,
           \/ \E remotes \in SUBSET Remotes, context \in Contexts :
                 FindRepository(g, remotes, context)
           \/ ReadCurrent(g) \/ ReadMembers(g) \/ Forget(g)
    PROVE  RevisionsOK'
<1>1. DOMAIN resolving = Agents /\ UNCHANGED <<revisions, sent, answers>>
  BY DEF BindingTypeOK, FindRepository, ReadCurrent, ReadMembers, Forget
<1>2. CASE \E remotes \in SUBSET Remotes, context \in Contexts :
              FindRepository(g, remotes, context)
  <2>1. PICK remotes \in SUBSET Remotes, context \in Contexts :
               FindRepository(g, remotes, context)
    BY <1>2
  <2>2. PICK r \in FoundBy(remotes) : resolving' = [resolving EXCEPT ![g] =
              [phase |-> "Found", repository |-> r, context |-> context]]
    BY <2>1 DEF FindRepository
  <2> DEFINE w == [phase |-> "Found", repository |-> r, context |-> context]
  <2>3. r \in Repositories
    BY DEF FoundBy, BindingTypeOK
  <2>4. ResolutionOK(w)
    BY <2>3 DEF ResolutionOK, Bindings
  <2> HIDE DEF w
  <2> QED
    BY <1>1, <2>2, <2>4, ResolvingStep DEF w
<1>3. CASE ReadCurrent(g)
  <2> DEFINE was == resolving[g]
             b == <<was.repository, was.context>>
             no == Len(revisions[b])
             w == IF no = 0
                    THEN [phase |-> "Done", repository |-> was.repository,
                          context |-> was.context, no |-> 0, sources |-> {}]
                    ELSE [phase |-> "Current", repository |-> was.repository,
                          context |-> was.context, no |-> no]
  <2>1. resolving' = [resolving EXCEPT ![g] = w]
    BY <1>3 DEF ReadCurrent
  <2>2. ResolutionOK(was)
    BY <1>3 DEF ReadCurrent, RevisionsOK, ResolvingOK
  <2>3. b \in Bindings
    BY <2>2 DEF ResolutionOK
  <2>4. no \in Nat /\ DOMAIN revisions[b] = 1..no
    BY <2>3 DEF BindingTypeOK
  <2>5. no # 0 => no \in DOMAIN revisions[b]
    BY <2>4
  <2>6. ResolutionOK(w)
    BY <2>3, <2>5 DEF ResolutionOK, BasisOK
  <2> HIDE DEF w
  <2> QED
    BY <1>1, <2>1, <2>6, ResolvingStep
<1>4. CASE ReadMembers(g)
  <2> DEFINE was == resolving[g]
             w == [phase |-> "Done", repository |-> was.repository, context |-> was.context,
                   no |-> was.no, sources |-> Members(was)]
  <2>1. resolving' = [resolving EXCEPT ![g] = w]
    BY <1>4 DEF ReadMembers
  <2>2. ResolutionOK(was) /\ was.phase = "Current"
    BY <1>4 DEF ReadMembers, RevisionsOK, ResolvingOK
  <2>3. ResolutionOK(w)
    BY <2>2 DEF ResolutionOK, BasisOK, Members
  <2> HIDE DEF w
  <2> QED
    BY <1>1, <2>1, <2>3, ResolvingStep
<1>5. CASE Forget(g)
  BY <1>1, <1>5, ResolvingStep DEF Forget
<1> QED
  BY <1>2, <1>3, <1>4, <1>5

\* A replacement that is sent carries what its sender had resolved.
LEMMA SendRevisions ==
    ASSUME BindingTypeOK, RevisionsOK, NEW g \in Agents, NEW sources \in SUBSET Sources,
           NEW q \in Requests, SendReplacement(g, sources, q)
    PROVE  RevisionsOK'
<1> DEFINE w == resolving[g]
           c == [repository |-> w.repository, context |-> w.context, sources |-> sources,
                 expected |-> w.no, basis |-> w.sources, request |-> q]
           b == <<w.repository, w.context>>
<1>1. sent' = sent \cup {c} /\ UNCHANGED <<revisions, resolving, answers>>
  BY DEF SendReplacement
<1>2. ResolutionOK(w) /\ w.phase = "Done"
  BY DEF SendReplacement, RevisionsOK, ResolvingOK
<1>3. b \in Bindings /\ BasisOK(b, w.no, w.sources)
  BY <1>2 DEF ResolutionOK
<1>4. revisions[b] \in Seq(Revision)
  BY <1>3 DEF BindingTypeOK
<1>5. w.no \in Nat /\ w.sources \in SUBSET Sources
  <2>1. CASE w.no = 0 /\ w.sources = {}
    BY <2>1
  <2>2. CASE w.no \in DOMAIN revisions[b] /\ w.sources = revisions[b][w.no].sources
    <3>1. w.no \in Nat /\ revisions[b][w.no] \in Revision
      BY <1>4, <2>2
    <3> QED
      BY <2>2, <3>1 DEF Revision
  <2> QED
    BY <1>3, <2>1, <2>2 DEF BasisOK
<1>6. c \in Command
  BY <1>3, <1>5 DEF Command, Bindings
<1>7. BasisOK(Binding(c), c.expected, c.basis)
  BY <1>3 DEF Binding
<1> HIDE DEF c
<1>8. SentOK'
  BY <1>1, <1>6, <1>7 DEF RevisionsOK, SentOK, BasisOK
<1>9. ResolvingOK' /\ NoLostUpdate' /\ OneRevisionEach' /\ AnswersOK'
  BY <1>1, SMTT(30) DEF RevisionsOK, ResolvingOK, ResolutionOK, BasisOK, NoLostUpdate, OneRevisionEach,
              AnswersOK
<1> QED
  BY <1>8, <1>9 DEF RevisionsOK

\* The revisions a request has written, by the binding and the number of each.
LEMMA WrittenRevisions ==
    ASSUME NEW q
    PROVE  /\ \A w \in WrittenBy(q) : /\ w[1] \in Bindings /\ w[2] \in DOMAIN revisions[w[1]]
                                      /\ revisions[w[1]][w[2]].request = q
                                      /\ w = <<w[1], w[2]>>
           /\ \A b \in Bindings : \A i \in DOMAIN revisions[b] :
                 revisions[b][i].request = q => <<b, i>> \in WrittenBy(q)
BY DEF WrittenBy, Bindings

\* A request that has been carried out is answered with the revision it wrote.
LEMMA RepeatRevisions ==
    ASSUME BindingTypeOK, RevisionsOK, NEW c \in sent, RepeatReplacement(c)
    PROVE  RevisionsOK'
<1>1. UNCHANGED <<revisions, resolving, sent>>
  BY DEF RepeatReplacement
<1>2. PICK w \in WrittenBy(c.request) :
         /\ SameRequest(c, w[1], w[2])
         /\ answers' = answers \cup {[command |-> c, no |-> w[2]]}
  BY DEF RepeatReplacement
<1>3. /\ Binding(c) \in Bindings
      /\ w[2] \in DOMAIN revisions[Binding(c)]
      /\ revisions[Binding(c)][w[2]].sources = c.sources
      /\ revisions[Binding(c)][w[2]].request = c.request
  BY <1>2, WrittenRevisions DEF SameRequest
<1>4. AnswersOK'
  <2> DEFINE answer == [command |-> c, no |-> w[2]]
  <2>1. answer.command = c /\ answer.no = w[2] /\ answers' = answers \cup {answer}
    BY <1>2
  <2> HIDE DEF answer
  <2>2. /\ Binding(answer.command) \in Bindings
        /\ answer.no \in DOMAIN revisions[Binding(answer.command)]
        /\ revisions[Binding(answer.command)][answer.no].sources = answer.command.sources
        /\ revisions[Binding(answer.command)][answer.no].request = answer.command.request
    BY <1>3, <2>1
  <2> QED
    BY <1>1, <2>1, <2>2 DEF RevisionsOK, AnswersOK, Binding
<1>5. ResolvingOK' /\ SentOK' /\ NoLostUpdate' /\ OneRevisionEach'
  BY <1>1 DEF RevisionsOK, ResolvingOK, ResolutionOK, BasisOK, SentOK, NoLostUpdate,
              OneRevisionEach
<1> QED
  BY <1>4, <1>5 DEF RevisionsOK

\* A replacement adds a revision to one binding and keeps all the others.
LEMMA RevisionAdded ==
    ASSUME BindingTypeOK, RevisionsOK, NEW c \in sent, ReplaceBinding(c)
    PROVE  LET b == Binding(c)
               n == Len(revisions[b])
               new == [sources |-> c.sources, request |-> c.request, basis |-> c.basis]
           IN  /\ c \in Command /\ b \in Bindings /\ n \in Nat /\ n = c.expected
               /\ DOMAIN revisions[b] = 1..n
               /\ revisions' \in [Bindings -> Seq(Revision)]
               /\ DOMAIN revisions'[b] = (1..n) \cup {n + 1}
               /\ revisions'[b][n + 1] = new
               /\ \A i \in 1..n : revisions'[b][i] = revisions[b][i]
               /\ \A d \in Bindings \ {b} : revisions'[d] = revisions[d]
<1> DEFINE b == Binding(c)
           n == Len(revisions[b])
           new == [sources |-> c.sources, request |-> c.request, basis |-> c.basis]
<1>1. c \in Command
  BY DEF RevisionsOK, SentOK
<1>2. b \in Bindings /\ new \in Revision
  BY <1>1 DEF Command, Binding, Bindings, Revision
<1>3. /\ revisions' = [revisions EXCEPT ![b] = Append(revisions[b], new)]
      /\ n = c.expected
  BY DEF ReplaceBinding, StillExpected
<1> HIDE DEF b, new
<1>4. revisions \in [Bindings -> Seq(Revision)] /\ revisions[b] \in Seq(Revision)
  BY <1>2 DEF BindingTypeOK
<1>5. /\ revisions'[b] = Append(revisions[b], new)
      /\ \A d \in Bindings \ {b} : revisions'[d] = revisions[d]
      /\ revisions' \in [Bindings -> Seq(Revision)]
  BY <1>2, <1>3, <1>4
<1> QED
  BY <1>1, <1>2, <1>3, <1>4, <1>5 DEF b, new

\* What was read of a binding stays true of its revisions, which are never rewritten.
LEMMA BasisKept ==
    ASSUME BindingTypeOK, RevisionsOK, NEW c \in sent, ReplaceBinding(c), NEW d \in Bindings
    PROVE  /\ \A i \in DOMAIN revisions[d] : /\ i \in DOMAIN revisions'[d]
                                             /\ revisions'[d][i] = revisions[d][i]
           /\ \A no, sources : BasisOK(d, no, sources) => BasisOK(d, no, sources)'
<1>1. \A i \in DOMAIN revisions[d] : i \in DOMAIN revisions'[d]
                                     /\ revisions'[d][i] = revisions[d][i]
  BY RevisionAdded
<1> QED
  BY <1>1 DEF BasisOK

\* The new revision follows the one its sender had resolved, and its request is new.
LEMMA ReplaceRevisions ==
    ASSUME BindingTypeOK, RevisionsOK, NEW c \in sent, ReplaceBinding(c)
    PROVE  RevisionsOK' /\ revisions' \in [Bindings -> Seq(Revision)]
<1> DEFINE b == Binding(c)
           n == Len(revisions[b])
           new == [sources |-> c.sources, request |-> c.request, basis |-> c.basis]
<1>1. /\ c \in Command /\ b \in Bindings /\ n \in Nat /\ n = c.expected
      /\ DOMAIN revisions[b] = 1..n
      /\ revisions' \in [Bindings -> Seq(Revision)]
      /\ DOMAIN revisions'[b] = (1..n) \cup {n + 1}
      /\ revisions'[b][n + 1] = new
      /\ \A i \in 1..n : revisions'[b][i] = revisions[b][i]
      /\ \A d \in Bindings \ {b} : revisions'[d] = revisions[d]
  BY RevisionAdded
<1>2. /\ UNCHANGED <<resolving, sent>>
      /\ answers' = answers \cup {[command |-> c, no |-> n + 1]}
      /\ WrittenBy(c.request) = {}
  BY DEF ReplaceBinding
<1>3. new.sources = c.sources /\ new.request = c.request /\ new.basis = c.basis
  OBVIOUS
<1>4. BasisOK(b, n, c.basis)
  BY <1>1 DEF RevisionsOK, SentOK
<1> HIDE DEF b, n, new
<1>5. ResolvingOK' /\ SentOK'
  <2>1. ASSUME NEW g \in Agents, resolving'[g] # None PROVE ResolutionOK(resolving[g])'
    <3>1. PICK w : resolving'[g] = w /\ ResolutionOK(w)
      BY <1>2, <2>1 DEF RevisionsOK, ResolvingOK
    <3> DEFINE d == <<w.repository, w.context>>
    <3>2. d \in Bindings
      BY <3>1 DEF ResolutionOK
    <3>3. \A i \in DOMAIN revisions[d] : i \in DOMAIN revisions'[d]
      BY <3>2, BasisKept
    <3>4. \A no, sources : BasisOK(d, no, sources) => BasisOK(d, no, sources)'
      BY <3>2, BasisKept
    <3>5. ResolutionOK(w)'
      BY <3>1, <3>2, <3>3, <3>4 DEF ResolutionOK
    <3> QED
      BY <3>1, <3>5 DEF ResolutionOK, BasisOK
  <2>2. ASSUME NEW e \in sent
        PROVE  e \in Command /\ BasisOK(Binding(e), e.expected, e.basis)'
    <3>1. e \in Command /\ BasisOK(Binding(e), e.expected, e.basis)
      BY DEF RevisionsOK, SentOK
    <3>2. Binding(e) \in Bindings
      BY <3>1 DEF Command, Binding, Bindings
    <3> QED
      BY <3>1, <3>2, BasisKept DEF BasisOK
  <2> QED
    BY <1>2, <2>1, <2>2 DEF ResolvingOK, SentOK
<1>6. NoLostUpdate'
  <2> SUFFICES ASSUME NEW d \in Bindings, NEW i \in DOMAIN revisions'[d]
               PROVE  revisions'[d][i].basis =
                         IF i = 1 THEN {} ELSE revisions'[d][i - 1].sources
    BY DEF NoLostUpdate, Bindings
  <2>1. \A j \in DOMAIN revisions[d] :
           revisions[d][j].basis = IF j = 1 THEN {} ELSE revisions[d][j - 1].sources
    BY DEF RevisionsOK, NoLostUpdate, Bindings
  <2>2. CASE d # b
    BY <1>1, <2>1, <2>2
  <2>3. CASE d = b /\ i \in 1..n
    <3>1. i # 1 => i - 1 \in 1..n
      BY <1>1, <2>3
    <3> QED
      BY <1>1, <2>1, <2>3, <3>1
  <2>4. CASE d = b /\ i = n + 1
    <3>1. CASE n = 0
      <4>1. c.basis = {}
        BY <1>1, <1>4, <3>1 DEF BasisOK
      <4> QED
        BY <1>1, <1>3, <2>4, <3>1, <4>1
    <3>2. CASE n # 0
      <4>1. n \in 1..n /\ c.basis = revisions[b][n].sources /\ i # 1 /\ i - 1 = n
        BY <1>1, <1>4, <2>4, <3>2 DEF BasisOK
      <4> QED
        BY <1>1, <1>3, <2>4, <4>1
    <3> QED
      BY <3>1, <3>2
  <2> QED
    BY <1>1, <2>2, <2>3, <2>4
<1>7. OneRevisionEach'
  <2>1. \A d \in Bindings : \A i \in DOMAIN revisions[d] : revisions[d][i].request # c.request
    BY <1>2, WrittenRevisions
  <2>2. ASSUME NEW d \in Bindings, NEW i \in DOMAIN revisions'[d]
        PROVE  \/ d = b /\ i = n + 1 /\ revisions'[d][i].request = c.request
               \/ i \in DOMAIN revisions[d] /\ revisions'[d][i] = revisions[d][i]
    BY <1>1, <1>3
  <2>3. ASSUME NEW b1 \in Bindings, NEW b2 \in Bindings, NEW i1 \in DOMAIN revisions'[b1],
               NEW i2 \in DOMAIN revisions'[b2],
               revisions'[b1][i1].request = revisions'[b2][i2].request
        PROVE  b1 = b2 /\ i1 = i2
    <3>1. \/ b1 = b /\ i1 = n + 1 /\ revisions'[b1][i1].request = c.request
          \/ i1 \in DOMAIN revisions[b1] /\ revisions'[b1][i1] = revisions[b1][i1]
      BY <2>2
    <3>2. \/ b2 = b /\ i2 = n + 1 /\ revisions'[b2][i2].request = c.request
          \/ i2 \in DOMAIN revisions[b2] /\ revisions'[b2][i2] = revisions[b2][i2]
      BY <2>2
    <3> QED
      BY <2>1, <2>3, <3>1, <3>2 DEF RevisionsOK, OneRevisionEach
  <2> QED
    BY <2>3 DEF OneRevisionEach
<1>8. AnswersOK'
  <2>1. ASSUME NEW a \in answers
        PROVE  /\ Binding(a.command) \in Bindings
               /\ a.no \in DOMAIN revisions'[Binding(a.command)]
               /\ revisions'[Binding(a.command)][a.no].sources = a.command.sources
               /\ revisions'[Binding(a.command)][a.no].request = a.command.request
    BY BasisKept DEF RevisionsOK, AnswersOK
  <2> DEFINE answer == [command |-> c, no |-> n + 1]
  <2>2. /\ Binding(answer.command) = b /\ answer.no = n + 1
        /\ answer.command = c
    BY DEF b
  <2> HIDE DEF answer
  <2>3. answers' = answers \cup {answer}
    BY <1>2 DEF answer
  <2>4. /\ Binding(answer.command) \in Bindings
        /\ answer.no \in DOMAIN revisions'[Binding(answer.command)]
        /\ revisions'[Binding(answer.command)][answer.no].sources
              = answer.command.sources
        /\ revisions'[Binding(answer.command)][answer.no].request
              = answer.command.request
    BY <1>1, <1>3, <2>2
  <2> QED
    BY <2>1, <2>3, <2>4 DEF AnswersOK, Binding
<1> QED
  BY <1>1, <1>5, <1>6, <1>7, <1>8 DEF RevisionsOK

-----------------------------------------------------------------------------
(* The whole invariant.                                                    *)

\* The registry, the bindings and the identities start empty; the repositories are
\* those registered before the identities were kept.
LEMMA InitBindingInv == BindingInit => BindingInv
<1> SUFFICES ASSUME BindingInit PROVE BindingInv
  OBVIOUS
<1>1. CatalogInv
  BY InitCatalogInv DEF BindingInit
<1>2. BindingTypeOK
  <2>1. revisions = [b \in Bindings |-> <<>>] /\ <<>> \in Seq(Revision)
    BY DEF BindingInit, Bindings
  <2>2. revisions \in [Bindings -> Seq(Revision)]
    BY <2>1
  <2> QED
    BY <2>2, BindingAssumption DEF BindingInit, BindingTypeOK
<1>3. IdentitiesOK
  <2>1. \A r \in repositories : r \in Nat /\ ~ (r <= 0)
    BY BindingAssumption DEF BindingInit
  <2> QED
    BY <2>1 DEF BindingInit, IdentitiesOK
<1>4. RevisionsOK
  BY DEF BindingInit, RevisionsOK, ResolvingOK, SentOK, NoLostUpdate, OneRevisionEach, AnswersOK,
         Bindings
<1> QED
  BY <1>1, <1>2, <1>3, <1>4 DEF BindingInv

\* A step that leaves the bindings alone keeps what is known of them.
LEMMA RevisionsSame ==
    ASSUME RevisionsOK, UNCHANGED <<revisions, resolving, sent, answers>>
    PROVE  RevisionsOK'
<1>1. ResolvingOK'
  BY DEF RevisionsOK, ResolvingOK, ResolutionOK, BasisOK
<1>2. SentOK' /\ NoLostUpdate' /\ OneRevisionEach' /\ AnswersOK'
  BY DEF RevisionsOK, SentOK, BasisOK, NoLostUpdate, OneRevisionEach, AnswersOK
<1> QED
  BY <1>1, <1>2 DEF RevisionsOK

\* The end of the process takes the resolutions under way with it.
LEMMA ForgetRevisions ==
    ASSUME RevisionsOK, UNCHANGED <<revisions, sent, answers>>,
           resolving' = [g \in Agents |-> None]
    PROVE  RevisionsOK'
<1>1. ResolvingOK'
  BY DEF ResolvingOK
<1>2. SentOK' /\ NoLostUpdate' /\ OneRevisionEach' /\ AnswersOK'
  BY DEF RevisionsOK, SentOK, BasisOK, NoLostUpdate, OneRevisionEach, AnswersOK
<1> QED
  BY <1>1, <1>2 DEF RevisionsOK

\* Identities are added and never removed.
LEMMA IdentitiesGrow ==
    ASSUME IdentitiesOK, UNCHANGED <<repositories, backfill, open>>,
           identities \subseteq identities'
    PROVE  IdentitiesOK'
BY DEF IdentitiesOK

\* A repository that is registered while the store is open gets its identity at once.
LEMMA CreateRepositoryInv ==
    ASSUME BindingInv, NEW r \in Repositories, CreateCodeRepository(r)
    PROVE  BindingInv'
<1>1. /\ repositories' = repositories \cup {r}
      /\ identities' = identities \cup IdentitiesOf({r})
      /\ UNCHANGED <<backfill, open, revisions, resolving, sent, answers, catalogVars>>
  BY DEF CreateCodeRepository, NewIdentities
<1>2. IsFiniteSet(repositories')
  BY <1>1, FS_AddElement DEF BindingInv, BindingTypeOK
<1>3. BindingTypeOK'
  BY <1>1, <1>2 DEF BindingInv, BindingTypeOK
<1>4. RemoteOf[r] # None => <<r, RemoteOf[r]>> \in identities'
  BY <1>1 DEF IdentitiesOf
<1>5. IdentitiesOK'
  BY <1>1, <1>4 DEF BindingInv, IdentitiesOK
<1>6. CatalogInv' /\ RevisionsOK'
  BY <1>1, CatalogStepInv, RevisionsSame DEF BindingInv
<1> QED
  BY <1>3, <1>5, <1>6 DEF BindingInv

\* A replacement refers to sources that are registered when it is carried out.
LEMMA ReplaceInv ==
    ASSUME BindingInv, NEW c \in sent, ReplaceBinding(c)
    PROVE  BindingInv'
<1>1. BindingTypeOK /\ RevisionsOK /\ CatalogInv
  BY DEF BindingInv
<1>2. RevisionsOK' /\ revisions' \in [Bindings -> Seq(Revision)]
  BY <1>1, ReplaceRevisions
<1>3. BindingTypeOK'
  BY <1>1, <1>2 DEF BindingTypeOK, ReplaceBinding
<1>4. IdentitiesOK'
  <2>1. identities \subseteq identities' /\ UNCHANGED <<repositories, backfill, open>>
    BY DEF ReplaceBinding
  <2> QED
    BY <2>1, IdentitiesGrow DEF BindingInv
<1>5. CatalogInv'
  <2>1. referenced' \subseteq Registered
    BY <1>1 DEF ReplaceBinding, SourcesExist, CatalogInv, NothingWithoutSource
  <2>2. UNCHANGED <<registryVars, scanVars, nodeVars, design>>
    BY DEF ReplaceBinding
  <2> QED
    BY <1>1, <2>1, <2>2, ReferencedInv
<1> QED
  BY <1>2, <1>3, <1>4, <1>5 DEF BindingInv

\* The invariant is inductive.
LEMMA BindingStepInv ==
    ASSUME BindingInv, [BindingNext]_<<bindingVars, catalogVars>>
    PROVE  BindingInv'
<1>1. BindingTypeOK /\ IdentitiesOK /\ RevisionsOK /\ CatalogInv
  BY DEF BindingInv
<1>2. CASE BackfillBatch
  <2>1. BindingTypeOK' /\ IdentitiesOK'
    BY <1>1, <1>2, BackfillIdentities
  <2>2. UNCHANGED <<revisions, resolving, sent, answers, catalogVars>>
    BY <1>2 DEF BackfillBatch
  <2> QED
    BY <1>1, <2>1, <2>2, CatalogStepInv, RevisionsSame DEF BindingInv
<1>3. CASE OpenStore
  <2>1. /\ open' = TRUE /\ backfill.complete
        /\ UNCHANGED <<repositories, identities, backfill, revisions, resolving, sent, answers,
                       catalogVars>>
    BY <1>3 DEF OpenStore
  <2>2. BindingTypeOK' /\ IdentitiesOK'
    BY <1>1, <2>1 DEF BindingTypeOK, IdentitiesOK
  <2> QED
    BY <1>1, <2>1, <2>2, CatalogStepInv, RevisionsSame DEF BindingInv
<1>4. CASE CloseStore
  <2>1. /\ open' = FALSE /\ resolving' = [g \in Agents |-> None] /\ ProcessEnds
        /\ UNCHANGED <<repositories, identities, backfill, revisions, sent, answers>>
    BY <1>4 DEF CloseStore
  <2>2. BindingTypeOK' /\ IdentitiesOK'
    BY <1>1, <2>1 DEF BindingTypeOK, IdentitiesOK
  <2> QED
    BY <1>1, <2>1, <2>2, ProcessEndsInv, ForgetRevisions DEF BindingInv
<1>5. CASE \E r \in Repositories : CreateCodeRepository(r)
  BY <1>5, CreateRepositoryInv
<1>6. CASE \E g \in Agents :
              \/ \E remotes \in SUBSET Remotes \ {{}}, context \in Contexts :
                    FindRepository(g, remotes, context)
              \/ ReadCurrent(g) \/ ReadMembers(g) \/ Forget(g)
  <2>1. PICK g \in Agents :
              \/ \E remotes \in SUBSET Remotes, context \in Contexts :
                    FindRepository(g, remotes, context)
              \/ ReadCurrent(g) \/ ReadMembers(g) \/ Forget(g)
    BY <1>6
  <2>2. RevisionsOK'
    BY <1>1, <2>1, ResolveRevisions
  <2>3. UNCHANGED <<identityVars, revisions, catalogVars>> /\ DOMAIN resolving' = DOMAIN resolving
    BY <2>1 DEF FindRepository, ReadCurrent, ReadMembers, Forget
  <2>4. BindingTypeOK' /\ IdentitiesOK'
    BY <1>1, <2>3 DEF BindingTypeOK, IdentitiesOK, identityVars
  <2> QED
    BY <1>1, <2>2, <2>3, <2>4, CatalogStepInv DEF BindingInv
<1>7. CASE \E g \in Agents, sources \in SUBSET Sources, q \in Requests :
              SendReplacement(g, sources, q)
  <2>1. PICK g \in Agents, sources \in SUBSET Sources, q \in Requests :
               SendReplacement(g, sources, q)
    BY <1>7
  <2>2. RevisionsOK'
    BY <1>1, <2>1, SendRevisions
  <2>3. UNCHANGED <<identityVars, revisions, resolving, catalogVars>>
    BY <2>1 DEF SendReplacement
  <2>4. BindingTypeOK' /\ IdentitiesOK'
    BY <1>1, <2>3 DEF BindingTypeOK, IdentitiesOK, identityVars
  <2> QED
    BY <1>1, <2>2, <2>3, <2>4, CatalogStepInv DEF BindingInv
<1>8. CASE \E c \in sent : RepeatReplacement(c)
  <2>1. PICK c \in sent : RepeatReplacement(c)
    BY <1>8
  <2>2. RevisionsOK'
    BY <1>1, <2>1, RepeatRevisions
  <2>3. UNCHANGED <<identityVars, revisions, resolving, catalogVars>>
    BY <2>1 DEF RepeatReplacement
  <2>4. BindingTypeOK' /\ IdentitiesOK'
    BY <1>1, <2>3 DEF BindingTypeOK, IdentitiesOK, identityVars
  <2> QED
    BY <1>1, <2>2, <2>3, <2>4, CatalogStepInv DEF BindingInv
<1>9. CASE \E c \in sent : ReplaceBinding(c)
  BY <1>9, ReplaceInv
<1>10. CASE Next /\ UNCHANGED bindingVars
  <2>1. BindingTypeOK' /\ IdentitiesOK' /\ RevisionsOK'
    BY <1>1, <1>10, RevisionsSame DEF BindingTypeOK, IdentitiesOK, bindingVars, identityVars
  <2> QED
    BY <1>1, <1>10, <2>1, CatalogStepInv DEF BindingInv
<1>11. CASE UNCHANGED <<bindingVars, catalogVars>>
  <2>1. BindingTypeOK' /\ IdentitiesOK' /\ RevisionsOK'
    BY <1>1, <1>11, RevisionsSame DEF BindingTypeOK, IdentitiesOK, bindingVars, identityVars
  <2> QED
    BY <1>1, <1>11, <2>1, CatalogStepInv DEF BindingInv
<1> QED
  BY <1>2, <1>3, <1>4, <1>5, <1>6, <1>7, <1>8, <1>9, <1>10, <1>11 DEF BindingNext, BindingStep

-----------------------------------------------------------------------------
(* What bindings promise.                                                  *)

\* The invariant of the bindings, with that of the registry and the catalog beneath.
THEOREM BindingInvariantHolds == BindingSpec => []BindingInv
<1>1. BindingInit => BindingInv
  BY InitBindingInv
<1>2. BindingInv /\ [BindingNext]_<<bindingVars, catalogVars>> => BindingInv'
  BY BindingStepInv
<1> QED
  BY <1>1, <1>2, PTL DEF BindingSpec

\* The author of every revision had resolved exactly the sources of the one before,
\* however late its command arrived (replaceBindingTransaction compares the revision
\* the command expects).
THEOREM NoUpdateIsLost == BindingSpec => []NoLostUpdate
<1>1. BindingInv => NoLostUpdate
  BY DEF BindingInv, RevisionsOK
<1> QED
  BY <1>1, BindingInvariantHolds, PTL

\* A request writes one revision at most, and is always answered with that one
\* (findBindingByRequest, sameBindingRequest).
THEOREM RequestsActOnce == BindingSpec => []RequestActsOnce
<1>1. ASSUME BindingInv PROVE RequestActsOnce
  <2>1. OneRevisionEach /\ AnswersOK
    BY <1>1 DEF BindingInv, RevisionsOK
  <2>2. ASSUME NEW q \in Requests PROVE Cardinality(WrittenBy(q)) <= 1
    <3>1. \A w \in WrittenBy(q) : /\ w[1] \in Bindings /\ w[2] \in DOMAIN revisions[w[1]]
                                  /\ revisions[w[1]][w[2]].request = q
                                  /\ w = <<w[1], w[2]>>
      BY WrittenRevisions
    <3>2. \A v, w \in WrittenBy(q) : v[1] = w[1] /\ v[2] = w[2]
      BY <2>1, <3>1 DEF OneRevisionEach
    <3>3. \A v, w \in WrittenBy(q) : v = w
      BY <3>1, <3>2
    <3>4. CASE WrittenBy(q) = {}
      BY <3>4, FS_EmptySet
    <3>5. CASE WrittenBy(q) # {}
      <4>1. PICK w : WrittenBy(q) = {w}
        BY <3>3, <3>5
      <4> QED
        BY <4>1, FS_Singleton
    <3> QED
      BY <3>4, <3>5
  <2> QED
    BY <2>1, <2>2 DEF RequestActsOnce, AnswersOK
<1> QED
  BY <1>1, BindingInvariantHolds, PTL

\* An open store finds every registered repository by its remote, whatever crashes cut
\* the backfill off (backfillRepositoryIdentities, insertCodeRepository).
THEOREM OpenStoresFindAll == BindingSpec => []OpenFindsAll
<1>1. BindingInv => OpenFindsAll
  BY DEF BindingInv, IdentitiesOK, OpenFindsAll, FoundBy
<1> QED
  BY <1>1, BindingInvariantHolds, PTL

\* The members of a binding revision refer to data sources that are registered, however
\* replacements and deletions of sources interleave (loadBindingDataSources).
THEOREM MembersKeepTheirSources == BindingSpec => []NothingWithoutSource
<1>1. BindingInv => NothingWithoutSource
  BY DEF BindingInv, CatalogInv
<1> QED
  BY <1>1, BindingInvariantHolds, PTL

\* No step binds a repository whose remote another one claims (ensureBindingSet, which
\* sees every claim because the identities are complete while the store is open).
THEOREM BoundOnlyWhenUnambiguous == BindingSpec => BoundWhenUnambiguous
<1> DEFINE Unambiguous ==
             \A b \in Repositories \X Contexts :
                revisions'[b] # revisions[b] =>
                    \A r \in repositories \ {b[1]} : RemoteOf[r] # RemoteOf[b[1]]
<1>1. ASSUME BindingInv, [BindingNext]_<<bindingVars, catalogVars>>
      PROVE  [Unambiguous]_<<bindingVars, catalogVars>>
  <2>1. CASE UNCHANGED revisions
    BY <2>1
  <2>2. CASE \E c \in sent : ReplaceBinding(c)
    <3>1. PICK c \in sent : ReplaceBinding(c)
      BY <2>2
    <3>2. /\ open /\ c.repository \in repositories /\ KnownAs(c) /\ RemoteOf[c.repository] # None
      BY <3>1 DEF ReplaceBinding
    <3>3. Binding(c) \in Bindings /\ \A d \in Bindings \ {Binding(c)} : revisions'[d] = revisions[d]
      BY <1>1, <3>1, RevisionAdded DEF BindingInv
    <3>4. ASSUME NEW r \in repositories \ {c.repository},
                 RemoteOf[r] = RemoteOf[c.repository]
          PROVE  FALSE
      <4>1. <<r, RemoteOf[r]>> \in identities /\ r \in Repositories
        BY <1>1, <3>2, <3>4 DEF BindingInv, BindingTypeOK, IdentitiesOK
      <4>2. r \in {c.repository}
        BY <3>2, <3>4, <4>1 DEF KnownAs
      <4> QED
        BY <4>2
    <3>5. Binding(c)[1] = c.repository
      BY DEF Binding
    <3>6. Unambiguous
      BY <3>3, <3>4, <3>5 DEF Bindings
    <3> QED
      BY <3>6
  <2>3. CASE ~ UNCHANGED revisions /\ ~ (\E c \in sent : ReplaceBinding(c))
    <3>1. UNCHANGED revisions
      BY <1>1, <2>3 DEF BindingNext, BindingStep, BackfillBatch, OpenStore, CloseStore,
           CreateCodeRepository, FindRepository, ReadCurrent, ReadMembers, Forget,
           SendReplacement, RepeatReplacement, bindingVars
    <3> QED
      BY <2>3, <3>1
  <2> QED
    BY <2>1, <2>2, <2>3
<1> QED
  BY <1>1, BindingInvariantHolds, PTL DEF BindingSpec, BoundWhenUnambiguous

=============================================================================
