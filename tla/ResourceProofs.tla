---------------------------- MODULE ResourceProofs ----------------------------
(***************************************************************************)
(* Machine-checked proofs about ResourceGraph and ResourceClaims: for      *)
(* every graph that compiles, and for every set of claims, ids and uses    *)
(* and every division of any number of claims into modules and parameters. *)
(***************************************************************************)
EXTENDS ResourceGraph, ResourceClaims, SequenceLemmas

-----------------------------------------------------------------------------
(* The elements of a flattened sequence. *)

LEMMA Flattened ==
  ASSUME NEW S, NEW seqs \in Seq(Seq(S))
  PROVE  /\ FlattenSeq(seqs) \in Seq(S)
         /\ \A x : x \in ToSet(FlattenSeq(seqs)) <=> \E i \in 1..Len(seqs) : x \in ToSet(seqs[i])
<1> DEFINE flat == FlattenSeq(seqs)
           n == Len(seqs)
<1>1. flat \in Seq(S)
  BY FlattenLaid
<1>2. PICK at \in [0..n -> Nat] : Laid(flat, seqs, n, at)
  BY FlattenLaid
<1>3. n \in Nat /\ \A i \in 1..n : seqs[i] \in Seq(S)
  BY Elements
<1> HIDE DEF flat, n
<1>4. \A x : x \in ToSet(flat) <=> \E p \in 1..Len(flat) : flat[p] = x
  BY <1>1, Elements
<1>5. ASSUME NEW i \in 1..n
      PROVE  \A x : x \in ToSet(seqs[i]) <=> \E j \in 1..Len(seqs[i]) : seqs[i][j] = x
  <2>1. seqs[i] \in Seq(S)
    BY <1>3
  <2> QED BY <2>1, Elements
<1>6. ASSUME NEW x \in ToSet(flat) PROVE \E i \in 1..n : x \in ToSet(seqs[i])
  <2>1. PICK p \in 1..Len(flat) : flat[p] = x
    BY <1>4
  <2>2. PICK i \in 1..n : \E j \in 1..Len(seqs[i]) : p = at[i - 1] + j
    BY <1>2 DEF Laid
  <2>3. PICK j \in 1..Len(seqs[i]) : p = at[i - 1] + j
    BY <2>2
  <2>4. seqs[i][j] = x
    BY <1>2, <2>1, <2>3 DEF Laid
  <2> QED BY <1>5, <2>4
<1>7. ASSUME NEW i \in 1..n, NEW x \in ToSet(seqs[i]) PROVE x \in ToSet(flat)
  <2>1. PICK j \in 1..Len(seqs[i]) : seqs[i][j] = x
    BY <1>5
  <2>2. flat[at[i - 1] + j] = x
    BY <1>2, <2>1 DEF Laid
  <2>3. /\ at[i - 1] \in Nat /\ Len(seqs[i]) \in Nat /\ Len(flat) \in Nat
        /\ at[i - 1] + Len(seqs[i]) <= Len(flat)
    <3>1. i - 1 \in 0..n /\ i \in 0..n /\ n \in 0..n /\ i <= n
      BY <1>3
    <3>2. at[i] = at[i - 1] + Len(seqs[i]) /\ at[i] <= at[n] /\ at[n] = Len(flat)
      BY <1>2, <3>1 DEF Laid
    <3> QED BY <1>1, <1>3, <3>1, <3>2, Elements
  <2>4. at[i - 1] + j \in 1..Len(flat)
    BY <2>3, WithinLength
  <2> QED BY <1>4, <2>2, <2>4
<1> QED BY <1>1, <1>6, <1>7 DEF flat, n

-----------------------------------------------------------------------------
(* The roots of a resource. *)

LEMMA GraphDeclared ==
  ASSUME deps \in Graphs, NEW r \in Resource
  PROVE  /\ deps[r] \in Seq(Resource)
         /\ r \in Nat
         /\ Itself(deps, r) \/ \A q \in ToSet(deps[r]) : q \in Resource /\ q \in Nat /\ q < r
<1>1. deps[r] \in Seq(Resource) /\ Resource \subseteq Nat
  BY GraphAssumption
<1>2. Itself(deps, r) \/ \A i \in DOMAIN deps[r] : deps[r][i] < r
  BY GraphAssumption
<1>3. DOMAIN deps[r] = 1..Len(deps[r])
  BY <1>1, Elements
<1>4. \A q \in ToSet(deps[r]) : q \in Resource /\ \E i \in 1..Len(deps[r]) : deps[r][i] = q
  BY <1>1, Elements
<1> QED BY <1>1, <1>2, <1>3, <1>4

\* What RootsOf is of a resource, given what it is of its dependencies.
Resolved(f, r) ==
  IF IsRoot(r) THEN <<r>> ELSE FlattenSeq([i \in DOMAIN deps[r] |-> f[deps[r][i]]])

\* The roots of the dependencies of a resource, one sequence for each.
LEMMA PartRoots ==
  ASSUME deps \in Graphs, NEW r \in Resource, NEW f,
         \A q \in ToSet(deps[r]) : f[q] \in Seq(Resource)
  PROVE  LET flat == FlattenSeq([i \in DOMAIN deps[r] |-> f[deps[r][i]]])
         IN  /\ flat \in Seq(Resource)
             /\ \A x : x \in ToSet(flat) <=> \E q \in ToSet(deps[r]) : x \in ToSet(f[q])
<1> DEFINE d == deps[r]
           seqs == [i \in DOMAIN d |-> f[d[i]]]
<1>1. d \in Seq(Resource)
  BY GraphDeclared
<1>2. /\ DOMAIN d = 1..Len(d) /\ Len(d) \in Nat
      /\ \A x : x \in ToSet(d) <=> \E i \in 1..Len(d) : d[i] = x
  BY <1>1, Elements
<1>3. \A i \in 1..Len(d) : f[d[i]] \in Seq(Resource)
  BY <1>2
<1>4. /\ seqs \in Seq(Seq(Resource)) /\ Len(seqs) = Len(d)
      /\ \A i \in 1..Len(d) : seqs[i] = f[d[i]]
  <2>1. seqs \in [1..Len(d) -> Seq(Resource)]
    BY <1>2, <1>3
  <2>2. seqs \in Seq(Seq(Resource))
    BY <1>2, <2>1, SeqDef
  <2>3. \A i \in 1..Len(d) : seqs[i] = f[d[i]]
    BY <1>2
  <2>4. DOMAIN seqs = 1..Len(d)
    BY <2>1
  <2> HIDE DEF seqs
  <2>5. DOMAIN seqs = 1..Len(seqs) /\ Len(seqs) \in Nat
    BY <2>2, Elements
  <2>6. Len(seqs) = Len(d)
    BY <1>2, <2>4, <2>5
  <2> QED BY <2>2, <2>3, <2>6
<1>5. /\ FlattenSeq(seqs) \in Seq(Resource)
      /\ \A x : x \in ToSet(FlattenSeq(seqs)) <=> \E i \in 1..Len(seqs) : x \in ToSet(seqs[i])
  BY <1>4, Flattened
<1> HIDE DEF seqs, d
<1>6. \A x : (\E i \in 1..Len(d) : x \in ToSet(f[d[i]])) <=> \E q \in ToSet(d) : x \in ToSet(f[q])
  BY <1>2
<1>7. ASSUME NEW x
      PROVE  x \in ToSet(FlattenSeq(seqs)) <=> \E q \in ToSet(d) : x \in ToSet(f[q])
  <2>1. x \in ToSet(FlattenSeq(seqs)) <=> \E i \in 1..Len(d) : x \in ToSet(seqs[i])
    BY <1>4, <1>5
  <2>2. (\E i \in 1..Len(d) : x \in ToSet(seqs[i])) <=> \E i \in 1..Len(d) : x \in ToSet(f[d[i]])
    BY <1>4
  <2> QED BY <1>6, <2>1, <2>2
<1> QED BY <1>5, <1>7 DEF seqs, d

LEMMA RootsExist ==
  ASSUME deps \in Graphs
  PROVE  /\ RootsOf \in [Resource -> Seq(Resource)]
         /\ \A r \in Resource : RootsOf[r] = Resolved(RootsOf, r)
<1> DEFINE X == Seq(Resource)
           F == [g \in [Resource -> X] |-> [r \in Resource |-> Resolved(g, r)]]
           rank == [r \in Resource |-> r]
<1>1. ASSUME NEW g, NEW r \in Resource, \A q \in Resource : q < r => g[q] \in X
      PROVE  Resolved(g, r) \in X
  <2>1. CASE IsRoot(r)
    <3>1. <<r>> \in X
      BY Single
    <3> QED BY <2>1, <3>1 DEF Resolved
  <2>2. CASE ~ IsRoot(r)
    <3>1. \A q \in ToSet(deps[r]) : g[q] \in Seq(Resource)
      BY <1>1, <2>2, GraphDeclared DEF IsRoot
    <3>2. FlattenSeq([i \in DOMAIN deps[r] |-> g[deps[r][i]]]) \in Seq(Resource)
      BY <3>1, PartRoots
    <3> QED BY <2>2, <3>2 DEF Resolved
  <2> QED BY <2>1, <2>2
<1>2. ASSUME NEW g \in [Resource -> X], NEW h \in [Resource -> X], NEW r \in Resource,
             \A q \in Resource : q < r => g[q] = h[q]
      PROVE  Resolved(g, r) = Resolved(h, r)
  <2>1. CASE IsRoot(r)
    BY <2>1 DEF Resolved
  <2>2. CASE ~ IsRoot(r)
    <3>1. \A i \in DOMAIN deps[r] : deps[r][i] \in ToSet(deps[r])
      BY GraphDeclared, Elements
    <3>2. \A i \in DOMAIN deps[r] : deps[r][i] \in Resource /\ deps[r][i] < r
      BY <2>2, <3>1, GraphDeclared DEF IsRoot
    <3>3. [i \in DOMAIN deps[r] |-> g[deps[r][i]]] = [i \in DOMAIN deps[r] |-> h[deps[r][i]]]
      BY <1>2, <3>2
    <3> QED BY <2>2, <3>3 DEF Resolved
  <2> QED BY <2>1, <2>2
<1>3. Contracts(F, Resource, X, rank)
  <2>1. F \in [[Resource -> X] -> [Resource -> X]]
    BY <1>1
  <2>2. rank \in [Resource -> Nat]
    BY GraphAssumption
  <2>3. \A g, h \in [Resource -> X], r \in Resource :
          (\A q \in Resource : rank[q] < rank[r] => g[q] = h[q]) => F[g][r] = F[h][r]
    <3>1. \A g \in [Resource -> X], r \in Resource : F[g][r] = Resolved(g, r)
      OBVIOUS
    <3>2. \A r \in Resource : rank[r] = r
      OBVIOUS
    <3> HIDE DEF X, F, rank
    <3> TAKE g, h \in [Resource -> X], r \in Resource
    <3> HAVE \A q \in Resource : rank[q] < rank[r] => g[q] = h[q]
    <3>3. \A q \in Resource : q < r => g[q] = h[q]
      BY <3>2
    <3> QED BY <1>2, <3>1, <3>3
  <2> QED BY <2>1, <2>2, <2>3 DEF Contracts
<1>4. PICK f \in [Resource -> X] : F[f] = f
  <2>1. <<>> \in X
    BY EmptySeq
  <2> HIDE DEF F, X, rank
  <2> QED BY <1>3, <2>1, RecursionExists
<1>5. f = [r \in Resource |-> Resolved(f, r)]
  BY <1>4
<1> DEFINE Defines(g) ==
             g = [r \in Resource |->
                    IF IsRoot(r) THEN <<r>>
                    ELSE FlattenSeq([i \in DOMAIN deps[r] |-> g[deps[r][i]]])]
<1>6. Defines(f)
  BY <1>5 DEF Resolved
<1>7. RootsOf = CHOOSE g : Defines(g)
  BY DEF RootsOf
<1> HIDE DEF Defines
<1>8. Defines(RootsOf)
  BY <1>6, <1>7
<1>9. RootsOf = [r \in Resource |-> Resolved(RootsOf, r)]
  BY <1>8 DEF Defines, Resolved
<1>10. RootsOf = [r \in Resource |-> RootsOf[r]]
  BY <1>9
<1> HIDE DEF F, X, rank
<1>11. \A r \in Resource : RootsOf[r] = Resolved(RootsOf, r)
  BY <1>9
<1> DEFINE Below == {n \in Nat : \A r \in Resource : r < n => RootsOf[r] \in X}
<1>12. Resource \subseteq Nat
  BY GraphAssumption
<1>13. Nat \subseteq Below
  <2>1. 0 \in Below
    BY <1>12
  <2>2. ASSUME NEW n \in Nat, n \in Below PROVE n + 1 \in Below
    <3>1. ASSUME NEW r \in Resource, r < n + 1 PROVE RootsOf[r] \in X
      <4>1. \A q \in Resource : q < r => RootsOf[q] \in X
        BY <1>12, <2>2, <3>1
      <4>2. Resolved(RootsOf, r) \in X
        BY <1>1, <4>1
      <4> QED BY <1>11, <4>2
    <3> QED BY <3>1
  <2> HIDE DEF Below
  <2> QED BY <2>1, <2>2, Induct
<1>14. ASSUME NEW r \in Resource PROVE RootsOf[r] \in X
  <2>1. r \in Nat /\ r + 1 \in Nat /\ r < r + 1
    BY <1>12
  <2> QED BY <1>13, <2>1
<1>15. RootsOf \in [Resource -> X]
  BY <1>10, <1>14
<1> QED BY <1>11, <1>15 DEF X

LEMMA RootElements ==
  ASSUME deps \in Graphs, NEW r \in Resource
  PROVE  /\ IsRoot(r) => ToSet(RootsOf[r]) = {r}
         /\ ~ IsRoot(r) => \A x : x \in ToSet(RootsOf[r]) <=>
                              \E q \in ToSet(deps[r]) : x \in ToSet(RootsOf[q])
         /\ deps[r] # <<>> => ToSet(RootDependencies(r)) = ToSet(RootsOf[r])
<1>1. /\ RootsOf \in [Resource -> Seq(Resource)]
      /\ RootsOf[r] = Resolved(RootsOf, r)
  BY RootsExist
<1>2. IsRoot(r) => ToSet(RootsOf[r]) = {r}
  BY <1>1, Single DEF Resolved
<1>3. \A q \in ToSet(deps[r]) : q \in Resource
  <2>1. deps[r] \in Seq(Resource)
    BY GraphDeclared
  <2> QED BY <2>1, Elements
<1>4. /\ RootDependencies(r) \in Seq(Resource)
      /\ \A x : x \in ToSet(RootDependencies(r)) <=>
           \E q \in ToSet(deps[r]) : x \in ToSet(RootsOf[q])
  <2>1. \A q \in ToSet(deps[r]) : RootsOf[q] \in Seq(Resource)
    BY <1>1, <1>3
  <2> QED BY <2>1, PartRoots DEF RootDependencies
<1>5. ~ IsRoot(r) => RootsOf[r] = RootDependencies(r)
  BY <1>1 DEF Resolved, RootDependencies
<1>6. ASSUME deps[r] # <<>> PROVE ToSet(RootDependencies(r)) = ToSet(RootsOf[r])
  <2>1. CASE Itself(deps, r)
    <3>1. ToSet(deps[r]) = {r}
      BY <2>1, Single DEF Itself
    <3> QED BY <1>4, <3>1
  <2>2. CASE ~ Itself(deps, r)
    BY <1>5, <1>6, <2>2 DEF IsRoot
  <2> QED BY <2>1, <2>2
<1> QED BY <1>2, <1>4, <1>5, <1>6

\* What a resource is built on: itself, and all its dependencies are built on.
LEMMA PartsBuild ==
  ASSUME NEW r \in Resource
  PROVE  /\ r \in Parts(r) /\ Parts(r) \subseteq Resource
         /\ \A q \in ToSet(deps[r]) : Parts(q) \subseteq Parts(r)
BY DEF Parts

LEMMA RootsAreParts ==
  ASSUME deps \in Graphs, NEW r \in Resource
  PROVE  ToSet(RootsOf[r]) # {} /\ ToSet(RootsOf[r]) \subseteq Parts(r)
<1> DEFINE Good(q) == ToSet(RootsOf[q]) # {} /\ ToSet(RootsOf[q]) \subseteq Parts(q)
           Below == {n \in Nat : \A q \in Resource : q < n => Good(q)}
<1>1. 0 \in Below
  BY GraphDeclared
<1>2. ASSUME NEW n \in Nat, n \in Below PROVE n + 1 \in Below
  <2> SUFFICES ASSUME NEW q \in Resource, q < n + 1 PROVE Good(q)
    <3> HIDE DEF Good
    <3> QED OBVIOUS
  <2>1. CASE IsRoot(q)
    BY <2>1, RootElements, PartsBuild
  <2>2. CASE ~ IsRoot(q)
    <3>1. \A x : x \in ToSet(RootsOf[q]) <=> \E p \in ToSet(deps[q]) : x \in ToSet(RootsOf[p])
      BY <2>2, RootElements
    <3>2. \A p \in ToSet(deps[q]) : p \in Resource /\ p \in Nat /\ p < q /\ q \in Nat
      BY <2>2, GraphDeclared DEF IsRoot
    <3>3. \A p \in ToSet(deps[q]) : Good(p)
      <4> HIDE DEF Good
      <4> QED BY <1>2, <3>2
    <3>4. \E p : p \in ToSet(deps[q])
      <4>1. deps[q] \in Seq(Resource) /\ deps[q] # <<>>
        BY <2>2, GraphDeclared DEF IsRoot
      <4>2. 1 \in 1..Len(deps[q])
        BY <4>1, EmptySeq, Elements
      <4>3. deps[q][1] \in ToSet(deps[q])
        BY <4>1, <4>2, Elements
      <4> QED BY <4>3
    <3> QED BY <3>1, <3>3, <3>4, PartsBuild
  <2> QED BY <2>1, <2>2
<1> HIDE DEF Good
<1>3. Nat \subseteq Below
  <2> HIDE DEF Below
  <2> QED BY <1>1, <1>2, Induct
<1>4. r \in Nat /\ r + 1 \in Nat /\ r < r + 1
  BY GraphDeclared
<1>5. Good(r)
  BY <1>3, <1>4
<1> QED BY <1>5 DEF Good

LEMMA PartsShareRoots ==
  ASSUME deps \in Graphs, NEW r \in Resource, NEW p \in Parts(r)
  PROVE  p \in Resource /\ ToSet(RootsOf[p]) \subseteq ToSet(RootsOf[r])
<1> DEFINE T == {q \in Resource : ToSet(RootsOf[q]) \subseteq ToSet(RootsOf[r])}
<1>1. r \in T /\ T \in SUBSET Resource
  OBVIOUS
<1>2. ASSUME NEW q \in T, NEW u \in ToSet(deps[q]) PROVE u \in T
  <2>1. CASE Itself(deps, q)
    <3>1. u = q
      BY <2>1, Single DEF Itself
    <3> QED BY <3>1
  <2>2. CASE ~ Itself(deps, q)
    <3>1. u \in Resource
      BY <2>2, GraphDeclared
    <3>2. deps[q] # <<>>
      <4>1. deps[q] \in Seq(Resource)
        BY GraphDeclared
      <4>2. \E i \in 1..Len(deps[q]) : deps[q][i] = u
        BY <4>1, Elements
      <4> QED BY <4>2
    <3>3. ToSet(RootsOf[u]) \subseteq ToSet(RootsOf[q])
      BY <2>2, <3>2, RootElements DEF IsRoot
    <3> QED BY <3>1, <3>3
  <2> QED BY <2>1, <2>2
<1>3. p \in T
  <2> HIDE DEF T
  <2> QED BY <1>1, <1>2 DEF Parts
<1> QED BY <1>3

-----------------------------------------------------------------------------
(* The finder. *)

LEMMA SmallestExists ==
  ASSUME NEW I \in SUBSET Nat, I # {}
  PROVE  Min(I) \in I
<1>1. IsWellFoundedOn(Less, Nat)
  BY NatLessThanWellFounded DEF Less, OpToRel
<1>2. PICK i \in I : \A j \in I : <<j, i>> \notin Less
  BY <1>1, WFMin
<1>3. ASSUME NEW j \in I PROVE i <= j
  <2>1. i \in Nat /\ j \in Nat
    OBVIOUS
  <2>2. j < i => <<j, i>> \in Less
    BY <2>1 DEF Less
  <2> QED BY <1>2, <2>1, <2>2
<1> QED BY <1>3 DEF Min

LEMMA FinderFinds ==
  ASSUME list \in Lists, NEW r, NEW k
  PROVE  \/ /\ Find(r, k) = Void
            /\ \A user \in ToSet(list) : ~ Fits(r, user, k)
         \/ Find(r, k) \in ToSet(list) /\ Fits(r, Find(r, k), k)
<1> DEFINE I == {i \in 1..Len(list) : Fits(r, list[i], k)}
<1>1. list \in Seq(Resource)
  BY GraphAssumption
<1>2. \A user : user \in ToSet(list) <=> \E i \in 1..Len(list) : list[i] = user
  BY <1>1, Elements
<1>3. Find(r, k) = IF (IF I # {} THEN Min(I) ELSE 0) = 0
                   THEN Void ELSE list[IF I # {} THEN Min(I) ELSE 0]
  BY DEF Find, SelectInSeq
<1>4. CASE I = {}
  BY <1>2, <1>3, <1>4
<1>5. CASE I # {}
  <2>1. Min(I) \in I
    BY <1>5, SmallestExists
  <2>2. Find(r, k) = list[Min(I)]
    BY <1>3, <1>5, <2>1
  <2> QED BY <1>2, <2>1, <2>2
<1> QED BY <1>4, <1>5

-----------------------------------------------------------------------------
(* The query. *)

GraphInv == deps \in Graphs /\ list \in Lists /\ SharedRootsMeet

LEMMA QueryAnswers ==
  ASSUME GraphInv, Query
  PROVE  GraphInv'
<1>1. PICK r \in Resource, s \in Resource :
        /\ asked' = <<r, s>>
        /\ roots' = <<RootDependencies(r), RootDependencies(s)>>
        /\ found' = Find(r, kind[s])
  BY DEF Query
<1>2. deps' = deps /\ kind' = kind /\ list' = list
  BY DEF Query
<1>3. deps \in Graphs /\ list \in Lists
  BY DEF GraphInv
<1>4. \A p : Parts(p)' = Parts(p)
  BY <1>2 DEF Parts
<1>5. ASSUME deps[r] # <<>>, deps[s] # <<>>
      PROVE  ToSet(RootDependencies(r)) \cap ToSet(RootDependencies(s)) # {}
               <=> Parts(r) \cap Parts(s) # {}
  <2>1. /\ ToSet(RootDependencies(r)) = ToSet(RootsOf[r])
        /\ ToSet(RootDependencies(s)) = ToSet(RootsOf[s])
    BY <1>3, <1>5, RootElements
  <2>2. /\ ToSet(RootsOf[r]) \subseteq Parts(r)
        /\ ToSet(RootsOf[s]) \subseteq Parts(s)
    BY <1>3, RootsAreParts
  <2>3. ASSUME NEW p \in Parts(r) \cap Parts(s)
        PROVE  ToSet(RootsOf[r]) \cap ToSet(RootsOf[s]) # {}
    <3>1. /\ p \in Resource
          /\ ToSet(RootsOf[p]) \subseteq ToSet(RootsOf[r])
          /\ ToSet(RootsOf[p]) \subseteq ToSet(RootsOf[s])
      BY <1>3, PartsShareRoots
    <3>2. ToSet(RootsOf[p]) # {}
      BY <1>3, <3>1, RootsAreParts
    <3> QED BY <3>1, <3>2
  <2> QED BY <2>1, <2>2, <2>3
<1>6. IF found' = Void
      THEN \A user \in ToSet(list) : kind[user] = kind[s] => r \notin ToSet(deps[user])
      ELSE found' \in ToSet(list) /\ kind[found'] = kind[s] /\ r \in Parts(found')
  <2>1. list \in Seq(Resource)
    BY <1>3, GraphAssumption
  <2>2. \A user \in ToSet(list) : user \in Resource
    BY <2>1, Elements
  <2>3. \A user \in ToSet(list) :
          Fits(r, user, kind[s]) <=> kind[user] = kind[s] /\ r \in ToSet(deps[user])
    <3> TAKE user \in ToSet(list)
    <3>1. deps[user] \in Seq(Resource)
      BY <1>3, <2>2, GraphDeclared
    <3>2. Contains(deps[user], r) <=> r \in ToSet(deps[user])
      BY <3>1, Elements
    <3> QED BY <3>2 DEF Fits
  <2>4. CASE found' = Void /\ \A user \in ToSet(list) : ~ Fits(r, user, kind[s])
    BY <2>3, <2>4
  <2>5. CASE found' \in ToSet(list) /\ Fits(r, found', kind[s])
    <3>1. /\ found' \in Resource /\ found' # Void
          /\ kind[found'] = kind[s] /\ r \in ToSet(deps[found'])
      BY <2>2, <2>3, <2>5, GraphAssumption
    <3>2. r \in Parts(r) /\ Parts(r) \subseteq Parts(found')
      BY <3>1, PartsBuild
    <3> QED BY <2>5, <3>1, <3>2
  <2> QED BY <1>1, <1>3, <2>4, <2>5, FinderFinds
<1>7. /\ asked'[1] = r /\ asked'[2] = s
      /\ roots'[1] = RootDependencies(r) /\ roots'[2] = RootDependencies(s)
  BY <1>1
<1>8. SharedRootsMeet'
  BY <1>2, <1>4, <1>5, <1>6, <1>7 DEF SharedRootsMeet
<1> QED BY <1>2, <1>3, <1>8 DEF GraphInv

\* Two resources whose roots are disjoint are built on nothing common, and the finder names
\* a user of the resource whenever one is listed, in every graph that compiles.
THEOREM RootsMeet == GraphSpec => []SharedRootsMeet
<1>1. GraphInit => GraphInv
  BY DEF GraphInit, GraphInv, SharedRootsMeet
<1>2. GraphInv /\ [Query]_graphVars => GraphInv'
  <2>1. GraphInv /\ UNCHANGED graphVars => GraphInv'
    <3> SUFFICES ASSUME GraphInv, UNCHANGED graphVars PROVE GraphInv'
      OBVIOUS
    <3>1. \A p : Parts(p)' = Parts(p)
      BY DEF Parts, graphVars
    <3> QED BY <3>1 DEF GraphInv, SharedRootsMeet, graphVars
  <2> QED BY <2>1, QueryAnswers
<1>3. GraphInv => SharedRootsMeet
  BY DEF GraphInv
<1> QED BY <1>1, <1>2, <1>3, PTL DEF GraphSpec

-----------------------------------------------------------------------------
(* Two claims. *)

LEMMA ClaimForms ==
  ASSUME NEW c \in Claims
  PROVE  \/ c.kind = "whole" /\ c.resource \in Designator
         \/ /\ c.kind = "range" /\ c.resource \in Divided
            /\ c.begin \in Slots /\ c.begin \in Int /\ c.end \in Int /\ c.begin < c.end
         \/ c.kind = "shared" /\ c.resource \in Divided /\ c.id \in Ids
<1>1. CASE \E t \in Designator : c = Whole(t)
  BY <1>1 DEF Whole
<1>2. CASE \E t \in Divided : \E p \in {q \in Slots \X Slots : q[1] < q[2]} : c = Range_(t, p[1], p[2])
  <2>1. PICK t \in Divided, b \in Slots, e \in Slots : b < e /\ c = Range_(t, b, e)
    BY <1>2
  <2>2. b \in Int /\ e \in Int
    BY ResourceClaimsAssumption
  <2> QED BY <2>1, <2>2 DEF Range_
<1>3. CASE \E t \in Divided, id \in Ids, use \in Uses : c = Shared(t, id, use)
  BY <1>3 DEF Shared
<1> QED BY <1>1, <1>2, <1>3 DEF Claims

\* Ranges overlap exactly if they have a number in common.
LEMMA OverlapMeets ==
  ASSUME NEW b \in Int, NEW e \in Int, NEW f \in Int, NEW g \in Int, b < e, f < g
  PROVE  (e > f /\ g > b) <=> (b .. e - 1) \cap (f .. g - 1) # {}
<1>1. ASSUME e > f, g > b PROVE (b .. e - 1) \cap (f .. g - 1) # {}
  <2>1. CASE b <= f
    <3>1. f \in b .. e - 1 /\ f \in f .. g - 1
      BY <1>1, <2>1
    <3> QED BY <3>1
  <2>2. CASE f <= b
    <3>1. b \in b .. e - 1 /\ b \in f .. g - 1
      BY <1>1, <2>2
    <3> QED BY <3>1
  <2> QED BY <2>1, <2>2
<1>2. ASSUME NEW x \in (b .. e - 1) \cap (f .. g - 1) PROVE e > f /\ g > b
  OBVIOUS
<1> QED BY <1>1, <1>2

\* A resource and the places within it.
Cells(x, S) == {x} \X S

LEMMA CellsMeet ==
  ASSUME NEW x, NEW y, NEW S, NEW T
  PROVE  Cells(x, S) \cap Cells(y, T) # {} <=> x = y /\ S \cap T # {}
<1>1. ASSUME NEW u \in Cells(x, S) \cap Cells(y, T) PROVE x = y /\ S \cap T # {}
  <2>1. u[1] = x /\ u[1] = y /\ u[2] \in S /\ u[2] \in T
    BY DEF Cells
  <2> QED BY <2>1
<1>2. ASSUME x = y, NEW z \in S \cap T PROVE Cells(x, S) \cap Cells(y, T) # {}
  <2>1. <<x, z>> \in Cells(x, S) /\ <<x, z>> \in Cells(y, T)
    BY <1>2 DEF Cells
  <2> QED BY <2>1
<1> QED BY <1>1, <1>2

\* has_conflict is the policy of two claims.
LEMMA ConflictIsClash ==
  ASSUME NEW c \in Claims, NEW d \in Claims
  PROVE  HasConflict(c, d) <=> Clash(c, d)
<1> DEFINE Canon(x) == CanonicalOf[x.resource]
           Within(x) == CASE x.kind = "whole" -> Slots \cup Ids
                          [] x.kind = "range" -> x.begin .. x.end - 1
                          [] x.kind = "shared" -> {x.id}
<1>1. \A x \in {c, d} : \/ x.kind = "whole" /\ x.resource \in Designator
                        \/ /\ x.kind = "range" /\ x.resource \in Divided
                           /\ x.begin \in Slots /\ x.begin \in Int /\ x.end \in Int
                           /\ x.begin < x.end
                        \/ x.kind = "shared" /\ x.resource \in Divided /\ x.id \in Ids
  BY ClaimForms
<1>2. Units(c) = Cells(Canon(c), Within(c)) /\ Units(d) = Cells(Canon(d), Within(d))
  BY <1>1 DEF Units, Cells
<1>3. Units(c) \cap Units(d) # {} <=> Canon(c) = Canon(d) /\ Within(c) \cap Within(d) # {}
  <2> HIDE DEF Canon, Within
  <2> QED BY <1>2, CellsMeet
<1>4. /\ \A t \in Divided, u \in Designator : CanonicalOf[u] = CanonicalOf[t] <=> u = t
      /\ Divided \subseteq Designator /\ Slots # {} /\ \A id \in Ids : id \notin Int
  BY ResourceClaimsAssumption
<1>5. CASE c.kind = "whole" /\ d.kind = "whole"
  <2>1. Within(c) \cap Within(d) # {}
    BY <1>4, <1>5
  <2> QED BY <1>3, <1>5, <2>1 DEF HasConflict, Clash
<1>6. CASE c.kind = "range" /\ d.kind = "range"
  <2>1. Canon(c) = Canon(d) <=> c.resource = d.resource
    BY <1>1, <1>4, <1>6
  <2>2. Overlap(c, d) <=> Within(c) \cap Within(d) # {}
    BY <1>1, <1>6, OverlapMeets DEF Overlap
  <2> HIDE DEF Canon, Within
  <2> QED BY <1>3, <1>6, <2>1, <2>2 DEF HasConflict, Clash
<1>7. CASE c.kind = "shared" /\ d.kind = "shared"
  <2>1. Canon(c) = Canon(d) <=> c.resource = d.resource
    BY <1>1, <1>4, <1>7
  <2>2. c.id = d.id <=> Within(c) \cap Within(d) # {}
    BY <1>7
  <2> HIDE DEF Canon, Within
  <2> QED BY <1>3, <1>7, <2>1, <2>2 DEF HasConflict, Clash
<1>8. CASE "whole" \in {c.kind, d.kind} /\ c.kind # d.kind
  <2>1. Canon(c) = Canon(d) <=> c.resource = d.resource
    BY <1>1, <1>4, <1>8
  <2>2. Within(c) \cap Within(d) # {}
    <3>1. ASSUME NEW x \in {c, d}, x.kind = "range"
          PROVE  x.begin \in Within(x) /\ x.begin \in Slots \cup Ids
      <4>1. x.begin \in x.begin .. x.end - 1
        BY <1>1, <3>1
      <4> QED BY <1>1, <3>1, <4>1
    <3>2. ASSUME NEW x \in {c, d}, x.kind = "shared"
          PROVE  x.id \in Within(x) /\ x.id \in Slots \cup Ids
      BY <1>1, <3>2
    <3>3. \A x \in {c, d} : x.kind = "whole" => Within(x) = Slots \cup Ids
      OBVIOUS
    <3> HIDE DEF Within
    <3> QED BY <1>1, <1>8, <3>1, <3>2, <3>3
  <2> HIDE DEF Canon, Within
  <2> QED BY <1>3, <1>8, <2>1, <2>2 DEF HasConflict, Clash
<1>9. CASE {c.kind, d.kind} = {"range", "shared"}
  <2>1. Within(c) \cap Within(d) = {}
    BY <1>1, <1>4, <1>9
  <2> HIDE DEF Canon, Within
  <2> QED BY <1>3, <1>9, <2>1 DEF HasConflict, Clash
<1> QED
  <2> HIDE DEF Canon, Within
  <2>1. /\ c.kind \in {"whole", "range", "shared"}
        /\ d.kind \in {"whole", "range", "shared"}
    BY <1>1
  <2> QED BY <1>5, <1>6, <1>7, <1>8, <1>9, <2>1

LEMMA ClashIsMutual ==
  ASSUME NEW c, NEW d
  PROVE  Clash(c, d) <=> Clash(d, c)
BY DEF Clash

LEMMA ConflictIsMutual ==
  ASSUME NEW c \in Claims, NEW d \in Claims
  PROVE  HasConflict(c, d) <=> HasConflict(d, c)
BY ConflictIsClash, ClashIsMutual

-----------------------------------------------------------------------------
(* The scans of pairs. *)

\* Two elements of a sequence, the earlier first, are related.
HasPair(s, R) == \E i, j \in 1..Len(s) : i < j /\ <<s[i], s[j]>> \in R

LEMMA ShortHasNoPair ==
  ASSUME NEW S, NEW s \in Seq(S), NEW R, Len(s) < 2
  PROVE  ~ HasPair(s, R)
<1> DEFINE n == Len(s)
<1>1. n \in Nat /\ n < 2
  BY Elements
<1> HIDE DEF n
<1>2. \A i, j \in 1..n : ~ (i < j)
  BY <1>1
<1> QED BY <1>2 DEF HasPair, n

LEMMA WithoutSecondElements ==
  ASSUME NEW S, NEW s \in Seq(S), Len(s) >= 2
  PROVE  /\ WithoutSecond(s) \in Seq(S) /\ Len(WithoutSecond(s)) = Len(s) - 1
         /\ WithoutSecond(s)[1] = s[1]
         /\ \A i \in 2..Len(s) - 1 : WithoutSecond(s)[i] = s[i + 1]
<1>1. Len(s) \in Nat /\ s[1] \in S
  BY Elements
<1> DEFINE n == Len(s)
           rest == SubSeq(s, 3, n)
<1>2. /\ rest \in Seq(S) /\ Len(rest) = n - 2
      /\ \A i \in 1..n - 2 : rest[i] = s[i + 2]
  <2>1. n \in Int /\ 3 \in Int /\ \A i \in 3..n : s[i] \in S
    BY <1>1, Elements
  <2>2. /\ SubSeq(s, 3, n) \in Seq(S)
        /\ Len(SubSeq(s, 3, n)) = IF 3 <= n THEN n - 3 + 1 ELSE 0
        /\ \A i \in 1..n - 3 + 1 : SubSeq(s, 3, n)[i] = s[3 + i - 1]
    <3> HIDE DEF n
    <3> QED BY <2>1, SubSeqProperties
  <2>3. n >= 2
    OBVIOUS
  <2> HIDE DEF n, rest
  <2>4. rest \in Seq(S) /\ Len(rest) = n - 2
    BY <2>1, <2>2, <2>3 DEF rest
  <2>5. ASSUME NEW i \in 1..n - 2 PROVE rest[i] = s[i + 2]
    <3>1. i \in 1..n - 3 + 1 /\ 3 + i - 1 = i + 2
      BY <2>1
    <3> QED BY <2>2, <3>1 DEF rest
  <2> QED BY <2>4, <2>5
<1> HIDE DEF rest
<1>3. /\ <<s[1]>> \o rest \in Seq(S)
      /\ Len(<<s[1]>> \o rest) = Len(rest) + 1 /\ (<<s[1]>> \o rest)[1] = s[1]
      /\ \A i \in 1..Len(rest) : (<<s[1]>> \o rest)[i + 1] = rest[i]
  BY <1>1, <1>2, PrependElements
<1>4. WithoutSecond(s) = <<s[1]>> \o rest
  BY DEF WithoutSecond, rest
<1>5. ASSUME NEW i \in 2..n - 1 PROVE WithoutSecond(s)[i] = s[i + 1]
  <2>1. i - 1 \in 1..n - 2 /\ (i - 1) + 1 = i /\ (i - 1) + 2 = i + 1
    BY <1>1
  <2> QED BY <1>2, <1>3, <1>4, <2>1
<1>6. Len(WithoutSecond(s)) = n - 1
  BY <1>1, <1>2, <1>3, <1>4
<1> QED BY <1>3, <1>4, <1>5, <1>6

LEMMA TailElements ==
  ASSUME NEW S, NEW s \in Seq(S), Len(s) >= 1
  PROVE  /\ Tail(s) \in Seq(S) /\ Len(Tail(s)) = Len(s) - 1
         /\ \A i \in 1..Len(s) - 1 : Tail(s)[i] = s[i + 1]
<1>1. s # <<>> /\ Len(s) \in Nat
  BY EmptySeq, Elements
<1> QED BY <1>1, HeadTailProperties

\* The two recursions of a scan look at what its first comparison leaves.
LEMMA PairScan ==
  ASSUME NEW S, NEW s \in Seq(S), NEW R, Len(s) >= 2
  PROVE  /\ HasPair(s, R) <=> \/ <<s[1], s[2]>> \in R
                              \/ HasPair(WithoutSecond(s), R)
                              \/ HasPair(Tail(s), R)
         /\ ToSet(s) = ToSet(WithoutSecond(s)) \cup ToSet(Tail(s))
<1> DEFINE w == WithoutSecond(s)
           t == Tail(s)
           n == Len(s)
<1>1. /\ w \in Seq(S) /\ Len(w) = n - 1 /\ w[1] = s[1]
      /\ \A i \in 2..n - 1 : w[i] = s[i + 1]
  BY WithoutSecondElements
<1>2. n \in Nat /\ n >= 2
  BY Elements
<1>3. /\ t \in Seq(S) /\ Len(t) = n - 1
      /\ \A i \in 1..n - 1 : t[i] = s[i + 1]
  BY <1>2, TailElements
<1> HIDE DEF w, t, n
<1>4. ASSUME NEW i \in 1..n, NEW j \in 1..n, i < j, <<s[i], s[j]>> \in R
      PROVE  \/ <<s[1], s[2]>> \in R
             \/ HasPair(w, R)
             \/ HasPair(t, R)
  <2>1. CASE i = 1 /\ j = 2
    BY <1>4, <2>1
  <2>2. CASE i = 1 /\ j > 2
    <3>1. 1 \in 1..n - 1 /\ j - 1 \in 1..n - 1 /\ j - 1 \in 2..n - 1 /\ 1 < j - 1 /\ (j - 1) + 1 = j
      BY <1>2, <2>2
    <3>2. w[1] = s[i] /\ w[j - 1] = s[j]
      BY <1>1, <2>2, <3>1
    <3> QED BY <1>1, <1>4, <3>1, <3>2 DEF HasPair
  <2>3. CASE i > 1
    <3>1. i - 1 \in 1..n - 1 /\ j - 1 \in 1..n - 1 /\ i - 1 < j - 1 /\ (i - 1) + 1 = i /\ (j - 1) + 1 = j
      BY <1>2, <1>4, <2>3
    <3>2. t[i - 1] = s[i] /\ t[j - 1] = s[j]
      BY <1>3, <3>1
    <3> QED BY <1>3, <1>4, <3>1, <3>2 DEF HasPair
  <2> QED BY <1>2, <1>4, <2>1, <2>2, <2>3
<1>5. <<s[1], s[2]>> \in R => HasPair(s, R)
  <2>1. 1 \in 1..n /\ 2 \in 1..n /\ 1 < 2
    BY <1>2
  <2> QED BY <2>1 DEF HasPair, n
<1>6. ASSUME HasPair(w, R) PROVE HasPair(s, R)
  <2>1. PICK i \in 1..n - 1, j \in 1..n - 1 : i < j /\ <<w[i], w[j]>> \in R
    BY <1>1, <1>6 DEF HasPair
  <2>2. j \in 2..n - 1 /\ w[j] = s[j + 1] /\ j + 1 \in 1..n
    BY <1>1, <1>2, <2>1
  <2>3. CASE i = 1
    <3>1. w[i] = s[1] /\ 1 \in 1..n /\ 1 < j + 1
      BY <1>1, <1>2, <2>1, <2>3
    <3> QED BY <2>1, <2>2, <3>1 DEF HasPair, n
  <2>4. CASE i # 1
    <3>1. i \in 2..n - 1 /\ i + 1 \in 1..n /\ i + 1 < j + 1
      BY <1>2, <2>1, <2>4
    <3>2. w[i] = s[i + 1]
      BY <1>1, <3>1
    <3> QED BY <2>1, <2>2, <3>1, <3>2 DEF HasPair, n
  <2> QED BY <2>3, <2>4
<1>7. ASSUME HasPair(t, R) PROVE HasPair(s, R)
  <2>1. PICK i \in 1..n - 1, j \in 1..n - 1 : i < j /\ <<t[i], t[j]>> \in R
    BY <1>3, <1>7 DEF HasPair
  <2>2. /\ t[i] = s[i + 1] /\ t[j] = s[j + 1]
        /\ i + 1 \in 1..n /\ j + 1 \in 1..n /\ i + 1 < j + 1
    BY <1>2, <1>3, <2>1
  <2> QED BY <2>1, <2>2 DEF HasPair, n
<1>8. HasPair(s, R) => <<s[1], s[2]>> \in R \/ HasPair(w, R) \/ HasPair(t, R)
  BY <1>4 DEF HasPair, n
<1>9. /\ \A x : x \in ToSet(s) <=> \E i \in 1..n : s[i] = x
      /\ \A x : x \in ToSet(w) <=> \E i \in 1..n - 1 : w[i] = x
      /\ \A x : x \in ToSet(t) <=> \E i \in 1..n - 1 : t[i] = x
  <2>1. \A x : x \in ToSet(s) <=> \E i \in 1..n : s[i] = x
    BY Elements DEF n
  <2>2. \A x : x \in ToSet(w) <=> \E i \in 1..n - 1 : w[i] = x
    BY <1>1, Elements
  <2>3. \A x : x \in ToSet(t) <=> \E i \in 1..n - 1 : t[i] = x
    BY <1>3, Elements
  <2> QED BY <2>1, <2>2, <2>3
<1>10. ASSUME NEW i \in 1..n PROVE s[i] \in ToSet(w) \cup ToSet(t)
  <2>1. CASE i = 1
    <3>1. 1 \in 1..n - 1 /\ w[1] = s[i]
      BY <1>1, <1>2, <2>1
    <3> QED BY <1>9, <3>1
  <2>2. CASE i # 1
    <3>1. i - 1 \in 1..n - 1 /\ (i - 1) + 1 = i
      BY <1>2, <2>2
    <3>2. t[i - 1] = s[i]
      BY <1>3, <3>1
    <3> QED BY <1>9, <3>1, <3>2
  <2> QED BY <2>1, <2>2
<1>11. ASSUME NEW i \in 1..n - 1 PROVE w[i] \in ToSet(s) /\ t[i] \in ToSet(s)
  <2>1. i + 1 \in 1..n /\ 1 \in 1..n
    BY <1>2
  <2>2. t[i] = s[i + 1]
    BY <1>3
  <2>3. w[i] = s[1] \/ w[i] = s[i + 1]
    <3>1. i = 1 \/ i \in 2..n - 1
      BY <1>2
    <3> QED BY <1>1, <3>1
  <2> QED BY <1>9, <2>1, <2>2, <2>3
<1>12. ToSet(s) = ToSet(w) \cup ToSet(t)
  BY <1>9, <1>10, <1>11
<1> QED BY <1>5, <1>6, <1>7, <1>8, <1>12 DEF w, t

LEMMA LoneElement ==
  ASSUME NEW S, NEW s \in Seq(S), Len(s) = 1
  PROVE  s[1] \in S /\ ToSet(s) = {s[1]}
<1>1. \A x : x \in ToSet(s) <=> \E i \in 1..1 : s[i] = x
  BY Elements
<1>2. 1 \in 1..1 /\ \A i \in 1..1 : i = 1
  OBVIOUS
<1>3. s[1] \in S
  BY <1>2, Elements
<1> QED BY <1>1, <1>2, <1>3

-----------------------------------------------------------------------------
(* The recursive scans end and find what they look for. *)

\* F turns a function of sequences into one that is right for sequences longer by one.
Shortens(F, S, X) ==
  /\ F \in [[Seq(S) -> X] -> [Seq(S) -> X]]
  /\ \A g, h \in [Seq(S) -> X], s \in Seq(S) :
       (\A t \in Seq(S) : Len(t) < Len(s) => g[t] = h[t]) => F[g][s] = F[h][s]

LEMMA ScanExists ==
  ASSUME NEW S, NEW X, NEW x \in X, NEW F, Shortens(F, S, X)
  PROVE  \E f \in [Seq(S) -> X] : F[f] = f
<1> DEFINE T == Seq(S)
           rank == [s \in T |-> Len(s)]
<1>1. rank \in [T -> Nat] /\ \A s \in T : rank[s] = Len(s)
  BY Elements
<1> HIDE DEF rank
<1>2. F \in [[T -> X] -> [T -> X]]
  BY DEF Shortens
<1>3. \A g, h \in [T -> X], s \in T :
        (\A t \in T : rank[t] < rank[s] => g[t] = h[t]) => F[g][s] = F[h][s]
  <2> TAKE g, h \in [T -> X], s \in T
  <2> HAVE \A t \in T : rank[t] < rank[s] => g[t] = h[t]
  <2>1. \A t \in T : Len(t) < Len(s) => g[t] = h[t]
    BY <1>1
  <2> QED BY <2>1 DEF Shortens
<1>4. Contracts(F, T, X, rank)
  BY <1>1, <1>2, <1>3 DEF Contracts
<1> HIDE DEF T
<1>5. \E f \in [T -> X] : F[f] = f
  <2> HIDE DEF Contracts
  <2>1. x \in X
    OBVIOUS
  <2> QED BY ONLY <1>4, <2>1, RecursionExists
<1> QED BY <1>5 DEF T

\* One round of each scan, given what the recursion returns.
ClaimScan(f, cs) ==
  IF Len(cs) < 2 THEN {}
  ELSE (IF HasConflict(cs[1], cs[2]) THEN {"same claim"} ELSE {})
       \cup f[WithoutSecond(cs)] \cup f[Tail(cs)]

ParamScan(f, ps) ==
  CASE Len(ps) = 0 -> {}
    [] Len(ps) = 1 -> LoneParam(ps[1])
    [] OTHER -> Diagnosed(ParamParam(ps[1], ps[2]) \cup f[RestWithFirst(ps)] \cup f[Tail(ps)],
                          "same module")

ModuleScan(f, ms) ==
  IF ms = <<>> THEN {}
  ELSE Diagnosed(SelfModuleParams[ms[1]] \cup f[Tail(ms)], "application")

Diagnoses == SUBSET {"conflict", "same claim", "same module", "application"}

LEMMA DiagnosesJoin ==
  /\ {} \in Diagnoses /\ {"same claim"} \in Diagnoses
  /\ \A A, B \in Diagnoses : A \cup B \in Diagnoses
BY DEF Diagnoses

LEMMA DiagnosedAs ==
  ASSUME NEW A \in Diagnoses, NEW name \in {"same module", "application"}
  PROVE  /\ Diagnosed(A, name) \in Diagnoses
         /\ Diagnosed(A, name) # {} <=> A # {}
         /\ \A x : x \in Diagnosed(A, name) <=> x \in A \/ (x = name /\ A # {})
<1>1. CASE A = {}
  BY <1>1, DiagnosesJoin DEF Diagnosed
<1>2. CASE A # {}
  <2>1. Diagnosed(A, name) = A \cup {name}
    BY <1>2 DEF Diagnosed
  <2>2. {name} \in Diagnoses
    BY DEF Diagnoses
  <2> QED BY <1>2, <2>1, <2>2, DiagnosesJoin
<1> QED BY <1>1, <1>2

LEMMA Shorter ==
  ASSUME NEW S, NEW s \in Seq(S)
  PROVE  /\ Len(s) \in Nat /\ (s = <<>> <=> Len(s) = 0)
         /\ Len(s) >= 1 => Tail(s) \in Seq(S) /\ Len(Tail(s)) = Len(s) - 1
         /\ Len(s) >= 2 => WithoutSecond(s) \in Seq(S) /\ Len(WithoutSecond(s)) = Len(s) - 1
BY Elements, EmptySeq, TailElements, WithoutSecondElements

LEMMA SelfParamsUnfolds ==
  \A cs \in Seq(Claims) : SelfParams[cs] = ClaimScan(SelfParams, cs)
<1> DEFINE T == Seq(Claims)
           F == [g \in [T -> Diagnoses] |-> [cs \in T |-> ClaimScan(g, cs)]]
<1>1. ASSUME NEW g \in [T -> Diagnoses], NEW cs \in T PROVE ClaimScan(g, cs) \in Diagnoses
  <2>1. Len(cs) >= 2 => g[WithoutSecond(cs)] \in Diagnoses /\ g[Tail(cs)] \in Diagnoses
    <3>1. Len(cs) >= 2 => WithoutSecond(cs) \in T /\ Tail(cs) \in T
      BY Shorter
    <3> QED BY <3>1
  <2>2. ~ (Len(cs) < 2) => Len(cs) >= 2
    BY Shorter
  <2> QED BY <2>1, <2>2, DiagnosesJoin DEF ClaimScan
<1>2. ASSUME NEW g \in [T -> Diagnoses], NEW h \in [T -> Diagnoses], NEW cs \in T,
             \A t \in T : Len(t) < Len(cs) => g[t] = h[t]
      PROVE  ClaimScan(g, cs) = ClaimScan(h, cs)
  <2>1. ~ (Len(cs) < 2) => /\ g[WithoutSecond(cs)] = h[WithoutSecond(cs)]
                           /\ g[Tail(cs)] = h[Tail(cs)]
    <3>1. ~ (Len(cs) < 2) => /\ WithoutSecond(cs) \in T /\ Len(WithoutSecond(cs)) < Len(cs)
                             /\ Tail(cs) \in T /\ Len(Tail(cs)) < Len(cs)
      BY Shorter
    <3> QED BY <1>2, <3>1
  <2> QED BY <2>1 DEF ClaimScan
<1>3. F \in [[T -> Diagnoses] -> [T -> Diagnoses]]
  BY <1>1
<1>4. \A g, h \in [T -> Diagnoses], cs \in T :
        (\A t \in T : Len(t) < Len(cs) => g[t] = h[t]) => F[g][cs] = F[h][cs]
  <2>1. \A g \in [T -> Diagnoses], cs \in T : F[g][cs] = ClaimScan(g, cs)
    OBVIOUS
  <2> HIDE DEF F, T
  <2> QED BY <1>2, <2>1
<1>5. PICK f \in [T -> Diagnoses] : F[f] = f
  <2>1. {} \in Diagnoses
    BY DEF Diagnoses
  <2>2. Shortens(F, Claims, Diagnoses)
    BY <1>3, <1>4 DEF Shortens
  <2> HIDE DEF F
  <2> QED BY ONLY <2>1, <2>2, ScanExists
<1>6. f = [cs \in T |-> ClaimScan(f, cs)]
  BY <1>5
<1> DEFINE Defines(g) ==
             g = [cs \in Seq(Claims) |->
                    IF Len(cs) < 2 THEN {}
                    ELSE (IF HasConflict(cs[1], cs[2]) THEN {"same claim"} ELSE {})
                         \cup g[WithoutSecond(cs)] \cup g[Tail(cs)]]
<1>7. Defines(f)
  BY <1>6 DEF ClaimScan
<1>8. SelfParams = CHOOSE g : Defines(g)
  BY DEF SelfParams
<1> HIDE DEF Defines
<1>9. Defines(SelfParams)
  BY <1>7, <1>8
<1> QED BY <1>9 DEF Defines, ClaimScan

\* Two claims that conflict.
Conflicting == {q \in Claims \X Claims : HasConflict(q[1], q[2])}

LEMMA SelfParamsFinds ==
  ASSUME NEW cs \in Seq(Claims)
  PROVE  SelfParams[cs] = IF HasPair(cs, Conflicting) THEN {"same claim"} ELSE {}
<1> DEFINE Right(s) == SelfParams[s] = IF HasPair(s, Conflicting) THEN {"same claim"} ELSE {}
           Upto == {n \in Nat : \A s \in Seq(Claims) : Len(s) <= n => Right(s)}
<1>1. ASSUME NEW s \in Seq(Claims), Len(s) < 2 PROVE Right(s)
  <2>1. SelfParams[s] = {}
    BY <1>1, SelfParamsUnfolds DEF ClaimScan
  <2> QED BY <1>1, <2>1, ShortHasNoPair
<1>2. 0 \in Upto
  <2> HIDE DEF Right
  <2>1. \A s \in Seq(Claims) : Len(s) <= 0 => Len(s) < 2
    BY Shorter
  <2> QED BY <1>1, <2>1
<1>3. ASSUME NEW n \in Nat, n \in Upto PROVE n + 1 \in Upto
  <2> SUFFICES ASSUME NEW s \in Seq(Claims), Len(s) <= n + 1, Len(s) >= 2 PROVE Right(s)
    <3> HIDE DEF Right
    <3>1. \A s \in Seq(Claims) : Len(s) < 2 \/ Len(s) >= 2
      BY Shorter
    <3> QED BY <1>1, <3>1
  <2> DEFINE w == WithoutSecond(s)
             t == Tail(s)
  <2>1. w \in Seq(Claims) /\ t \in Seq(Claims) /\ Len(w) <= n /\ Len(t) <= n
    BY Shorter
  <2>2. Right(w) /\ Right(t)
    <3> HIDE DEF Right, w, t
    <3> QED BY <1>3, <2>1
  <2>3. s[1] \in Claims /\ s[2] \in Claims
    <3>1. 1 \in 1..Len(s) /\ 2 \in 1..Len(s)
      BY Shorter
    <3> QED BY <3>1, Elements
  <2>4. <<s[1], s[2]>> \in Conflicting <=> HasConflict(s[1], s[2])
    BY <2>3 DEF Conflicting
  <2>5. SelfParams[s] = (IF HasConflict(s[1], s[2]) THEN {"same claim"} ELSE {})
                          \cup SelfParams[w] \cup SelfParams[t]
    <3>1. ~ (Len(s) < 2)
      BY Shorter
    <3> QED BY <3>1, SelfParamsUnfolds DEF ClaimScan
  <2>6. HasPair(s, Conflicting) <=> \/ <<s[1], s[2]>> \in Conflicting
                                    \/ HasPair(w, Conflicting)
                                    \/ HasPair(t, Conflicting)
    BY PairScan
  <2> HIDE DEF w, t
  <2> QED BY <2>2, <2>4, <2>5, <2>6
<1>4. Nat \subseteq Upto
  <2> HIDE DEF Upto
  <2> QED BY <1>2, <1>3, Induct
<1> HIDE DEF Right
<1>5. Right(cs)
  <2>1. Len(cs) \in Nat /\ Len(cs) <= Len(cs)
    BY Shorter
  <2> QED BY <1>4, <2>1
<1> QED BY <1>5 DEF Right

\* Two parameters that conflict.
Crossing(p, q) == \E i \in DOMAIN p, j \in DOMAIN q : HasConflict(p[i], q[j])

Crossings == {q \in Seq(Claims) \X Seq(Claims) : Crossing(q[1], q[2])}

LEMMA ParamParamFinds ==
  ASSUME NEW p \in Seq(Claims), NEW q \in Seq(Claims)
  PROVE  /\ ParamParam(p, q) \in Diagnoses
         /\ ParamParam(p, q) # {} <=> \/ Crossing(p, q)
                                      \/ HasPair(p, Conflicting)
                                      \/ HasPair(q, Conflicting)
         /\ "same claim" \in ParamParam(p, q) <=> \/ HasPair(p, Conflicting)
                                                  \/ HasPair(q, Conflicting)
         /\ "same module" \notin ParamParam(p, q)
<1>1. /\ SelfParams[p] = IF HasPair(p, Conflicting) THEN {"same claim"} ELSE {}
      /\ SelfParams[q] = IF HasPair(q, Conflicting) THEN {"same claim"} ELSE {}
  BY SelfParamsFinds
<1>2. (\E i \in DOMAIN p : ClaimsClaim(q, p[i])) <=> Crossing(p, q)
  BY DEF ClaimsClaim, Crossing
<1>3. ParamParam(p, q) = (IF Crossing(p, q) THEN {"conflict"} ELSE {})
                           \cup SelfParams[p] \cup SelfParams[q]
  BY <1>2 DEF ParamParam
<1>4. \A x : x \in ParamParam(p, q) <=> \/ x = "conflict" /\ Crossing(p, q)
                                        \/ x = "same claim" /\ HasPair(p, Conflicting)
                                        \/ x = "same claim" /\ HasPair(q, Conflicting)
  <2> HIDE DEF ParamParam
  <2>1. /\ \A x : x \in SelfParams[p] <=> x = "same claim" /\ HasPair(p, Conflicting)
        /\ \A x : x \in SelfParams[q] <=> x = "same claim" /\ HasPair(q, Conflicting)
    BY <1>1
  <2> QED BY <1>3, <2>1
<1>5. ParamParam(p, q) \in Diagnoses
  BY <1>4 DEF Diagnoses
<1>6. "same claim" # "same module" /\ "conflict" # "same module" /\ "conflict" # "same claim"
  OBVIOUS
<1>7. "same claim" \in ParamParam(p, q) <=> HasPair(p, Conflicting) \/ HasPair(q, Conflicting)
  BY <1>4, <1>6
<1>8. "same module" \notin ParamParam(p, q)
  BY <1>4, <1>6
<1>9. (\E x : x \in ParamParam(p, q)) <=> \/ Crossing(p, q)
                                         \/ HasPair(p, Conflicting)
                                         \/ HasPair(q, Conflicting)
  BY <1>4
<1> QED BY <1>5, <1>7, <1>8, <1>9

LEMMA ParamsShorter ==
  ASSUME NEW ps \in Seq(Seq(Claims))
  PROVE  /\ Len(ps) \in Nat
         /\ Len(ps) >= 2 =>
              /\ RestWithFirst(ps) \in Seq(Seq(Claims)) /\ Len(RestWithFirst(ps)) = Len(ps) - 1
              /\ Tail(ps) \in Seq(Seq(Claims)) /\ Len(Tail(ps)) = Len(ps) - 1
         /\ Len(ps) >= 1 => ps[1] \in Seq(Claims)
         /\ Len(ps) >= 2 => ps[2] \in Seq(Claims)
<1> DEFINE S == Seq(Claims)
<1> HIDE DEF S
<1>1. ps \in Seq(S)
  BY DEF S
<1>2. Len(ps) \in Nat /\ \A i \in 1..Len(ps) : ps[i] \in S
  BY <1>1, Elements
<1>3. /\ Len(ps) >= 1 => Tail(ps) \in Seq(S) /\ Len(Tail(ps)) = Len(ps) - 1
      /\ Len(ps) >= 2 => WithoutSecond(ps) \in Seq(S) /\ Len(WithoutSecond(ps)) = Len(ps) - 1
  BY <1>1, Shorter
<1> QED BY <1>2, <1>3 DEF S, RestWithFirst

LEMMA SelfModuleParamsUnfolds ==
  \A ps \in Seq(Seq(Claims)) : SelfModuleParams[ps] = ParamScan(SelfModuleParams, ps)
<1> DEFINE T == Seq(Seq(Claims))
           F == [g \in [T -> Diagnoses] |-> [ps \in T |-> ParamScan(g, ps)]]
<1>0. ASSUME NEW ps \in T
      PROVE  /\ Len(ps) \in Nat /\ (Len(ps) = 0 \/ Len(ps) = 1 \/ Len(ps) >= 2)
             /\ Len(ps) >= 2 => /\ RestWithFirst(ps) \in T /\ Len(RestWithFirst(ps)) < Len(ps)
                                /\ Tail(ps) \in T /\ Len(Tail(ps)) < Len(ps)
                                /\ ps[2] \in Seq(Claims)
             /\ Len(ps) >= 1 => ps[1] \in Seq(Claims)
  <2> DEFINE n == Len(ps)
             m == Len(RestWithFirst(ps))
             k == Len(Tail(ps))
  <2>1. /\ n \in Nat
        /\ n >= 2 => /\ RestWithFirst(ps) \in T /\ m = n - 1
                     /\ Tail(ps) \in T /\ k = n - 1
        /\ n >= 1 => ps[1] \in Seq(Claims)
        /\ n >= 2 => ps[2] \in Seq(Claims)
    BY ParamsShorter
  <2> HIDE DEF n, m, k, T
  <2>2. (n >= 2 => m < n /\ k < n) /\ (n = 0 \/ n = 1 \/ n >= 2)
    BY <2>1
  <2> QED BY <2>1, <2>2 DEF n, m, k
<1> HIDE DEF T
<1>1. ASSUME NEW g \in [T -> Diagnoses], NEW ps \in T PROVE ParamScan(g, ps) \in Diagnoses
  <2>1. CASE Len(ps) = 0
    <3>1. ParamScan(g, ps) = {}
      BY <2>1 DEF ParamScan
    <3> QED BY <3>1, DiagnosesJoin
  <2>2. CASE Len(ps) = 1
    <3>1. ps[1] \in Seq(Claims)
      BY <1>0, <2>2
    <3>2. SelfParams[ps[1]] \in Diagnoses
      BY <3>1, SelfParamsFinds, DiagnosesJoin
    <3>3. ParamScan(g, ps) = SelfParams[ps[1]]
      BY <2>2 DEF ParamScan, LoneParam
    <3> QED BY <3>2, <3>3
  <2>3. CASE Len(ps) >= 2
    <3>1. /\ ps[1] \in Seq(Claims) /\ ps[2] \in Seq(Claims)
          /\ RestWithFirst(ps) \in T /\ Tail(ps) \in T
      BY <1>0, <2>3
    <3>2. ParamParam(ps[1], ps[2]) \in Diagnoses
      BY <3>1, ParamParamFinds
    <3>3. g[RestWithFirst(ps)] \in Diagnoses /\ g[Tail(ps)] \in Diagnoses
      BY <3>1
    <3> DEFINE all == ParamParam(ps[1], ps[2]) \cup g[RestWithFirst(ps)] \cup g[Tail(ps)]
    <3>4. ParamScan(g, ps) = Diagnosed(all, "same module")
      <4>1. Len(ps) # 0 /\ Len(ps) # 1
        BY <1>0, <2>3
      <4> QED BY <4>1 DEF ParamScan
    <3>5. all \in Diagnoses
      BY <3>2, <3>3, DiagnosesJoin
    <3> HIDE DEF all
    <3>6. Diagnosed(all, "same module") \in Diagnoses
      BY <3>5, DiagnosedAs
    <3> QED BY <3>4, <3>6
  <2>4. Len(ps) = 0 \/ Len(ps) = 1 \/ Len(ps) >= 2
    BY <1>0
  <2> QED BY <2>1, <2>2, <2>3, <2>4
<1>2. ASSUME NEW g \in [T -> Diagnoses], NEW h \in [T -> Diagnoses], NEW ps \in T,
             \A t \in T : Len(t) < Len(ps) => g[t] = h[t]
      PROVE  ParamScan(g, ps) = ParamScan(h, ps)
  <2>1. CASE Len(ps) = 0 \/ Len(ps) = 1
    <3>1. CASE Len(ps) = 0
      BY <3>1 DEF ParamScan
    <3>2. CASE Len(ps) = 1
      BY <3>2 DEF ParamScan
    <3> QED BY <2>1, <3>1, <3>2
  <2>2. CASE Len(ps) >= 2
    <3>1. /\ RestWithFirst(ps) \in T /\ Len(RestWithFirst(ps)) < Len(ps)
          /\ Tail(ps) \in T /\ Len(Tail(ps)) < Len(ps)
      BY <1>0, <2>2
    <3>2. g[RestWithFirst(ps)] = h[RestWithFirst(ps)] /\ g[Tail(ps)] = h[Tail(ps)]
      BY <1>2, <3>1
    <3> QED BY <2>2, <3>2 DEF ParamScan
  <2>3. Len(ps) = 0 \/ Len(ps) = 1 \/ Len(ps) >= 2
    BY <1>0
  <2> QED BY <2>1, <2>2, <2>3
<1>3. F \in [[T -> Diagnoses] -> [T -> Diagnoses]]
  BY <1>1
<1>4. \A g, h \in [T -> Diagnoses], ps \in T :
        (\A t \in T : Len(t) < Len(ps) => g[t] = h[t]) => F[g][ps] = F[h][ps]
  <2>1. \A g \in [T -> Diagnoses], ps \in T : F[g][ps] = ParamScan(g, ps)
    OBVIOUS
  <2> HIDE DEF F
  <2> QED BY <1>2, <2>1
<1>5. PICK f \in [T -> Diagnoses] : F[f] = f
  <2>1. Shortens(F, Seq(Claims), Diagnoses)
    BY <1>3, <1>4 DEF Shortens, T
  <2> HIDE DEF F
  <2>2. {} \in Diagnoses
    BY DiagnosesJoin
  <2>3. \E f \in [Seq(Seq(Claims)) -> Diagnoses] : F[f] = f
    BY ONLY <2>1, <2>2, ScanExists
  <2> QED BY <2>3 DEF T
<1>6. f = [ps \in T |-> ParamScan(f, ps)]
  BY <1>5
<1> DEFINE Defines(g) ==
             g = [ps \in Seq(Seq(Claims)) |->
                    CASE Len(ps) = 0 -> {}
                      [] Len(ps) = 1 -> LoneParam(ps[1])
                      [] OTHER -> Diagnosed(ParamParam(ps[1], ps[2])
                                              \cup g[RestWithFirst(ps)] \cup g[Tail(ps)],
                                            "same module")]
<1>7. Defines(f)
  BY <1>6 DEF ParamScan, T
<1>8. SelfModuleParams = CHOOSE g : Defines(g)
  BY DEF SelfModuleParams
<1> HIDE DEF Defines
<1>9. Defines(SelfModuleParams)
  BY <1>7, <1>8
<1> QED BY <1>9 DEF Defines, ParamScan

\* A parameter of the module has two claims that conflict; two claims of the module do.
ParamConflicts(ps) == \E p \in ToSet(ps) : HasPair(p, Conflicting)

ModuleConflicts(ps) == ParamConflicts(ps) \/ HasPair(ps, Crossings)

ModuleDiagnosed(ps, fault) ==
  /\ fault \in Diagnoses
  /\ fault # {} <=> ModuleConflicts(ps)
  /\ "same claim" \in fault <=> ParamConflicts(ps)
  /\ "same module" \in fault <=> Len(ps) > 1 /\ ModuleConflicts(ps)

LEMMA ModuleScanFinds ==
  ASSUME NEW s \in Seq(Seq(Claims)), Len(s) >= 2,
         ModuleDiagnosed(RestWithFirst(s), SelfModuleParams[RestWithFirst(s)]),
         ModuleDiagnosed(Tail(s), SelfModuleParams[Tail(s)])
  PROVE  ModuleDiagnosed(s, SelfModuleParams[s])
<1> DEFINE w == RestWithFirst(s)
           t == Tail(s)
           pp == ParamParam(s[1], s[2])
           all == pp \cup SelfModuleParams[w] \cup SelfModuleParams[t]
<1>1. s[1] \in Seq(Claims) /\ s[2] \in Seq(Claims) /\ Len(s) \in Nat
  BY ParamsShorter
<1>2. SelfModuleParams[s] = Diagnosed(all, "same module")
  <2>1. Len(s) # 0 /\ Len(s) # 1
    BY <1>1
  <2> QED BY <2>1, SelfModuleParamsUnfolds DEF ParamScan
<1>3. /\ pp \in Diagnoses
      /\ pp # {} <=> \/ Crossing(s[1], s[2])
                     \/ HasPair(s[1], Conflicting)
                     \/ HasPair(s[2], Conflicting)
      /\ "same claim" \in pp <=> HasPair(s[1], Conflicting) \/ HasPair(s[2], Conflicting)
      /\ "same module" \notin pp
  BY <1>1, ParamParamFinds
<1>4. /\ HasPair(s, Crossings) <=> \/ <<s[1], s[2]>> \in Crossings
                                   \/ HasPair(w, Crossings)
                                   \/ HasPair(t, Crossings)
      /\ ToSet(s) = ToSet(w) \cup ToSet(t)
  <2> DEFINE S == Seq(Claims)
  <2> HIDE DEF S
  <2>1. s \in Seq(S)
    BY DEF S
  <2>2. /\ HasPair(s, Crossings) <=> \/ <<s[1], s[2]>> \in Crossings
                                     \/ HasPair(WithoutSecond(s), Crossings)
                                     \/ HasPair(Tail(s), Crossings)
        /\ ToSet(s) = ToSet(WithoutSecond(s)) \cup ToSet(Tail(s))
    BY <2>1, PairScan
  <2> QED BY <2>2 DEF RestWithFirst
<1>5. <<s[1], s[2]>> \in Crossings <=> Crossing(s[1], s[2])
  BY <1>1 DEF Crossings
<1>6. s[1] \in ToSet(s) /\ s[2] \in ToSet(s)
  <2> DEFINE S == Seq(Claims)
  <2> HIDE DEF S
  <2>1. s \in Seq(S) /\ 1 \in 1..Len(s) /\ 2 \in 1..Len(s)
    BY <1>1 DEF S
  <2> QED BY <2>1, Elements
<1>7. ModuleDiagnosed(w, SelfModuleParams[w]) /\ ModuleDiagnosed(t, SelfModuleParams[t])
  OBVIOUS
<1> HIDE DEF w, t, pp
<1>8. all \in Diagnoses
  BY <1>3, <1>7, DiagnosesJoin DEF ModuleDiagnosed
<1>9. ParamConflicts(s) <=> \/ HasPair(s[1], Conflicting) \/ HasPair(s[2], Conflicting)
                            \/ ParamConflicts(w) \/ ParamConflicts(t)
  BY <1>4, <1>6 DEF ParamConflicts
<1>10. ModuleConflicts(s) <=> \/ Crossing(s[1], s[2])
                              \/ HasPair(s[1], Conflicting) \/ HasPair(s[2], Conflicting)
                              \/ ModuleConflicts(w) \/ ModuleConflicts(t)
  BY <1>4, <1>5, <1>9 DEF ModuleConflicts
<1>11. all # {} <=> ModuleConflicts(s)
  <2>1. all # {} <=> pp # {} \/ SelfModuleParams[w] # {} \/ SelfModuleParams[t] # {}
    OBVIOUS
  <2> QED BY <1>3, <1>7, <1>10, <2>1 DEF ModuleDiagnosed
<1>12. "same claim" \in all <=> ParamConflicts(s)
  <2>1. "same claim" \in all <=> \/ "same claim" \in pp
                                 \/ "same claim" \in SelfModuleParams[w]
                                 \/ "same claim" \in SelfModuleParams[t]
    OBVIOUS
  <2> QED BY <1>3, <1>7, <1>9, <2>1 DEF ModuleDiagnosed
<1> HIDE DEF all
<1>13. /\ SelfModuleParams[s] \in Diagnoses
       /\ SelfModuleParams[s] # {} <=> all # {}
       /\ \A x : x \in SelfModuleParams[s] <=> x \in all \/ (x = "same module" /\ all # {})
  <2>1. /\ Diagnosed(all, "same module") \in Diagnoses
        /\ Diagnosed(all, "same module") # {} <=> all # {}
        /\ \A x : x \in Diagnosed(all, "same module") <=>
                    x \in all \/ (x = "same module" /\ all # {})
    BY <1>8, DiagnosedAs
  <2> QED BY <1>2, <2>1
<1>14. "same module" \in SelfModuleParams[s] <=> all # {}
  BY <1>13
<1>15. "same claim" \in SelfModuleParams[s] <=> "same claim" \in all
  <2>1. "same claim" # "same module"
    OBVIOUS
  <2> QED BY <1>13, <2>1
<1>16. Len(s) > 1
  BY <1>1
<1> QED BY <1>11, <1>12, <1>13, <1>14, <1>15, <1>16 DEF ModuleDiagnosed

LEMMA ShortModuleFinds ==
  ASSUME NEW s \in Seq(Seq(Claims)), Len(s) < 2
  PROVE  ModuleDiagnosed(s, SelfModuleParams[s])
<1> DEFINE S == Seq(Claims)
<1>1. Len(s) = 0 \/ Len(s) = 1
  <2> DEFINE n == Len(s)
  <2>1. n \in Nat /\ n < 2
    BY ParamsShorter
  <2> HIDE DEF n
  <2>2. n = 0 \/ n = 1
    BY <2>1
  <2> QED BY <2>2 DEF n
<1>2. ~ HasPair(s, Crossings)
  <2> HIDE DEF S
  <2>1. s \in Seq(S)
    BY DEF S
  <2> QED BY <2>1, ShortHasNoPair
<1>3. CASE Len(s) = 0
  <2>1. SelfModuleParams[s] = {}
    <3>1. SelfModuleParams[s] = ParamScan(SelfModuleParams, s)
      BY SelfModuleParamsUnfolds
    <3> QED BY <1>3, <3>1 DEF ParamScan
  <2>2. ToSet(s) = {}
    <3> HIDE DEF S
    <3>1. s \in Seq(S)
      BY DEF S
    <3>2. \A x : x \in ToSet(s) <=> \E i \in 1..0 : s[i] = x
      BY <1>3, <3>1, Elements
    <3> QED BY <3>2
  <2> QED BY <1>2, <1>3, <2>1, <2>2, DiagnosesJoin
          DEF ModuleDiagnosed, ModuleConflicts, ParamConflicts
<1>4. CASE Len(s) = 1
  <2>1. SelfModuleParams[s] = SelfParams[s[1]]
    <3>1. SelfModuleParams[s] = ParamScan(SelfModuleParams, s)
      BY SelfModuleParamsUnfolds
    <3> QED BY <1>4, <3>1 DEF ParamScan, LoneParam
  <2>2. s[1] \in S /\ ToSet(s) = {s[1]}
    <3> HIDE DEF S
    <3>1. s \in Seq(S)
      BY DEF S
    <3> QED BY <1>4, <3>1, LoneElement
  <2>3. SelfParams[s[1]] = IF HasPair(s[1], Conflicting) THEN {"same claim"} ELSE {}
    BY <2>2, SelfParamsFinds
  <2>4. ParamConflicts(s) <=> HasPair(s[1], Conflicting)
    BY <2>2 DEF ParamConflicts
  <2>5. ModuleConflicts(s) <=> ParamConflicts(s)
    BY <1>2 DEF ModuleConflicts
  <2>6. "same claim" # "same module" /\ ~ (Len(s) > 1)
    BY <1>4
  <2>7. /\ SelfModuleParams[s] # {} <=> ParamConflicts(s)
        /\ "same claim" \in SelfModuleParams[s] <=> ParamConflicts(s)
        /\ "same module" \notin SelfModuleParams[s]
    BY <2>1, <2>3, <2>4, <2>6
  <2>8. SelfModuleParams[s] \in Diagnoses
    BY <2>1, <2>3, DiagnosesJoin
  <2> QED BY <2>5, <2>6, <2>7, <2>8 DEF ModuleDiagnosed
<1> QED BY <1>1, <1>3, <1>4

LEMMA SelfModuleParamsFinds ==
  ASSUME NEW ps \in Seq(Seq(Claims))
  PROVE  ModuleDiagnosed(ps, SelfModuleParams[ps])
<1> DEFINE T == Seq(Seq(Claims))
           Right(s) == ModuleDiagnosed(s, SelfModuleParams[s])
           Upto == {n \in Nat : \A s \in T : Len(s) <= n => Right(s)}
<1>1. \A s \in T : /\ Len(s) \in Nat
                   /\ Len(s) < 2 => Right(s)
                   /\ Len(s) >= 2 =>
                        /\ RestWithFirst(s) \in T /\ Len(RestWithFirst(s)) = Len(s) - 1
                        /\ Tail(s) \in T /\ Len(Tail(s)) = Len(s) - 1
                        /\ Right(RestWithFirst(s)) /\ Right(Tail(s)) => Right(s)
  BY ParamsShorter, ShortModuleFinds, ModuleScanFinds
<1> HIDE DEF T, Right
<1>2. 0 \in Upto
  BY <1>1
<1>3. ASSUME NEW n \in Nat, n \in Upto PROVE n + 1 \in Upto
  <2> SUFFICES ASSUME NEW s \in T, Len(s) <= n + 1, Len(s) >= 2 PROVE Right(s)
    <3>1. \A s \in T : Len(s) < 2 \/ Len(s) >= 2
      BY <1>1
    <3> QED BY <1>1, <3>1
  <2>1. /\ RestWithFirst(s) \in T /\ Len(RestWithFirst(s)) <= n
        /\ Tail(s) \in T /\ Len(Tail(s)) <= n
    BY <1>1
  <2>2. Right(RestWithFirst(s)) /\ Right(Tail(s))
    BY <1>3, <2>1
  <2> QED BY <1>1, <2>2
<1>4. Nat \subseteq Upto
  <2> HIDE DEF Upto
  <2> QED BY <1>2, <1>3, Induct
<1>5. ps \in T /\ Len(ps) \in Nat /\ Len(ps) <= Len(ps)
  BY <1>1 DEF T
<1>6. Right(ps)
  BY <1>4, <1>5
<1> QED BY <1>6 DEF Right

LEMMA SelfModulesUnfolds ==
  \A ms \in Seq(Seq(Seq(Claims))) : SelfModules[ms] = ModuleScan(SelfModules, ms)
<1> DEFINE S == Seq(Seq(Claims))
           T == Seq(S)
           F == [g \in [T -> Diagnoses] |-> [ms \in T |-> ModuleScan(g, ms)]]
<1>0. ASSUME NEW ms \in T, ms # <<>>
      PROVE  ms[1] \in S /\ Tail(ms) \in T /\ Len(Tail(ms)) < Len(ms)
  <2> DEFINE n == Len(ms)
             m == Len(Tail(ms))
  <2> HIDE DEF S
  <2>1. n \in Nat /\ n # 0
    BY <1>0, Shorter
  <2>2. n >= 1 => Tail(ms) \in T /\ m = n - 1
    BY Shorter
  <2>3. 1 \in 1..n => ms[1] \in S
    BY Elements
  <2> HIDE DEF T, n, m
  <2>4. n >= 1 /\ 1 \in 1..n
    BY <2>1
  <2>5. m < n
    BY <2>1, <2>2, <2>4
  <2> QED BY <2>2, <2>3, <2>4, <2>5 DEF n, m
<1>1. ASSUME NEW g \in [T -> Diagnoses], NEW ms \in T PROVE ModuleScan(g, ms) \in Diagnoses
  <2>1. CASE ms = <<>>
    BY <2>1, DiagnosesJoin DEF ModuleScan
  <2>2. CASE ms # <<>>
    <3> DEFINE all == SelfModuleParams[ms[1]] \cup g[Tail(ms)]
    <3>1. SelfModuleParams[ms[1]] \in Diagnoses
      BY <1>0, <2>2, SelfModuleParamsFinds DEF ModuleDiagnosed
    <3>2. g[Tail(ms)] \in Diagnoses
      <4> HIDE DEF T
      <4> QED BY <1>0, <2>2
    <3>3. all \in Diagnoses
      BY <3>1, <3>2, DiagnosesJoin
    <3>4. ModuleScan(g, ms) = Diagnosed(all, "application")
      BY <2>2 DEF ModuleScan
    <3> HIDE DEF all
    <3>5. Diagnosed(all, "application") \in Diagnoses
      BY <3>3, DiagnosedAs
    <3> QED BY <3>4, <3>5
  <2> QED BY <2>1, <2>2
<1> HIDE DEF T
<1>2. ASSUME NEW g \in [T -> Diagnoses], NEW h \in [T -> Diagnoses], NEW ms \in T,
             \A t \in T : Len(t) < Len(ms) => g[t] = h[t]
      PROVE  ModuleScan(g, ms) = ModuleScan(h, ms)
  <2>1. CASE ms = <<>>
    BY <2>1 DEF ModuleScan
  <2>2. CASE ms # <<>>
    <3>1. g[Tail(ms)] = h[Tail(ms)]
      BY <1>0, <1>2, <2>2
    <3> QED BY <2>2, <3>1 DEF ModuleScan
  <2> QED BY <2>1, <2>2
<1>3. F \in [[T -> Diagnoses] -> [T -> Diagnoses]]
  BY <1>1
<1>4. \A g, h \in [T -> Diagnoses], ms \in T :
        (\A t \in T : Len(t) < Len(ms) => g[t] = h[t]) => F[g][ms] = F[h][ms]
  <2>1. \A g \in [T -> Diagnoses], ms \in T : F[g][ms] = ModuleScan(g, ms)
    OBVIOUS
  <2> HIDE DEF F
  <2> QED BY <1>2, <2>1
<1>5. PICK f \in [T -> Diagnoses] : F[f] = f
  <2>1. Shortens(F, S, Diagnoses)
    BY <1>3, <1>4 DEF Shortens, T
  <2>2. {} \in Diagnoses
    BY DiagnosesJoin
  <2> HIDE DEF F, S
  <2>3. \E f \in [Seq(S) -> Diagnoses] : F[f] = f
    BY ONLY <2>1, <2>2, ScanExists
  <2> QED BY <2>3 DEF T
<1>6. f = [ms \in T |-> ModuleScan(f, ms)]
  BY <1>5
<1> DEFINE Defines(g) ==
             g = [ms \in Seq(Seq(Seq(Claims))) |->
                    IF ms = <<>> THEN {}
                    ELSE Diagnosed(SelfModuleParams[ms[1]] \cup g[Tail(ms)], "application")]
<1>7. Defines(f)
  BY <1>6 DEF ModuleScan, T
<1>8. SelfModules = CHOOSE g : Defines(g)
  BY DEF SelfModules
<1> HIDE DEF Defines
<1>9. Defines(SelfModules)
  BY <1>7, <1>8
<1> QED BY <1>9 DEF Defines, ModuleScan

\* What is found among the modules, each by itself.
EachDiagnosed(ms, fault) ==
  /\ fault \in Diagnoses
  /\ fault # {} <=> \E m \in ToSet(ms) : ModuleConflicts(m)
  /\ "same claim" \in fault <=> \E m \in ToSet(ms) : ParamConflicts(m)
  /\ "same module" \in fault <=> \E m \in ToSet(ms) : Len(m) > 1 /\ ModuleConflicts(m)

LEMMA SelfModulesFinds ==
  ASSUME NEW ms \in Seq(Seq(Seq(Claims)))
  PROVE  EachDiagnosed(ms, SelfModules[ms])
<1> DEFINE S == Seq(Seq(Claims))
           T == Seq(S)
           Right(s) == EachDiagnosed(s, SelfModules[s])
           Upto == {n \in Nat : \A s \in T : Len(s) <= n => Right(s)}
<1>1. ASSUME NEW s \in T, s = <<>> PROVE Right(s)
  <2>1. SelfModules[s] = {}
    <3>1. SelfModules[s] = ModuleScan(SelfModules, s)
      BY SelfModulesUnfolds
    <3> QED BY <1>1, <3>1 DEF ModuleScan
  <2>2. ToSet(s) = {}
    <3> HIDE DEF S
    <3>1. Len(s) = 0
      BY <1>1
    <3>2. \A x : x \in ToSet(s) <=> \E i \in 1..0 : s[i] = x
      BY <3>1, Elements
    <3> QED BY <3>2
  <2> QED BY <2>1, <2>2, DiagnosesJoin DEF EachDiagnosed
<1>2. ASSUME NEW s \in T, s # <<>>, Right(Tail(s)) PROVE Right(s)
  <2> DEFINE m == s[1]
             one == SelfModuleParams[m]
             rest == SelfModules[Tail(s)]
             all == one \cup rest
  <2>1. m \in S /\ ToSet(s) = {m} \cup ToSet(Tail(s))
    <3> HIDE DEF S
    <3>1. Head(s) \in S /\ ToSet(s) = {Head(s)} \cup ToSet(Tail(s))
      BY <1>2, HeadAndTail
    <3>2. Head(s) = s[1]
      OBVIOUS
    <3> QED BY <3>1, <3>2
  <2>2. SelfModules[s] = Diagnosed(all, "application")
    <3>1. SelfModules[s] = ModuleScan(SelfModules, s)
      BY SelfModulesUnfolds
    <3> QED BY <1>2, <3>1 DEF ModuleScan
  <2>3. ModuleDiagnosed(m, one)
    BY <2>1, SelfModuleParamsFinds
  <2>4. EachDiagnosed(Tail(s), rest)
    BY <1>2
  <2> HIDE DEF m, one, rest
  <2>5. all \in Diagnoses
    BY <2>3, <2>4, DiagnosesJoin DEF ModuleDiagnosed, EachDiagnosed
  <2>6. /\ all # {} <=> one # {} \/ rest # {}
        /\ \A x : x \in all <=> x \in one \/ x \in rest
    OBVIOUS
  <2> HIDE DEF all
  <2>7. /\ Diagnosed(all, "application") \in Diagnoses
        /\ Diagnosed(all, "application") # {} <=> all # {}
        /\ \A x : x \in Diagnosed(all, "application") <=>
                    x \in all \/ (x = "application" /\ all # {})
    BY <2>5, DiagnosedAs
  <2>8. "same claim" # "application" /\ "same module" # "application"
    OBVIOUS
  <2>9. /\ SelfModules[s] \in Diagnoses
        /\ SelfModules[s] # {} <=> one # {} \/ rest # {}
        /\ "same claim" \in SelfModules[s] <=> "same claim" \in one \/ "same claim" \in rest
        /\ "same module" \in SelfModules[s] <=> "same module" \in one \/ "same module" \in rest
    BY <2>2, <2>6, <2>7, <2>8
  <2>10. /\ (\E x \in ToSet(s) : ModuleConflicts(x)) <=>
              ModuleConflicts(m) \/ \E x \in ToSet(Tail(s)) : ModuleConflicts(x)
         /\ (\E x \in ToSet(s) : ParamConflicts(x)) <=>
              ParamConflicts(m) \/ \E x \in ToSet(Tail(s)) : ParamConflicts(x)
         /\ (\E x \in ToSet(s) : Len(x) > 1 /\ ModuleConflicts(x)) <=>
              \/ Len(m) > 1 /\ ModuleConflicts(m)
              \/ \E x \in ToSet(Tail(s)) : Len(x) > 1 /\ ModuleConflicts(x)
    BY <2>1
  <2> QED BY <2>3, <2>4, <2>9, <2>10 DEF ModuleDiagnosed, EachDiagnosed
<1>3. \A s \in T : /\ Len(s) \in Nat /\ (s = <<>> <=> Len(s) = 0)
                   /\ Len(s) >= 1 => Tail(s) \in T /\ Len(Tail(s)) = Len(s) - 1
  <2> HIDE DEF S
  <2> QED BY Shorter
<1> HIDE DEF T, Right
<1>4. 0 \in Upto
  <2>1. \A s \in T : Len(s) <= 0 => s = <<>>
    BY <1>3
  <2> QED BY <1>1, <2>1
<1>5. ASSUME NEW n \in Nat, n \in Upto PROVE n + 1 \in Upto
  <2> SUFFICES ASSUME NEW s \in T, Len(s) <= n + 1, s # <<>> PROVE Right(s)
    BY <1>1
  <2>1. Tail(s) \in T /\ Len(Tail(s)) <= n
    <3>1. Len(s) >= 1
      BY <1>3
    <3> QED BY <1>3, <3>1
  <2>2. Right(Tail(s))
    BY <1>5, <2>1
  <2> QED BY <1>2, <2>2
<1>6. Nat \subseteq Upto
  <2> HIDE DEF Upto
  <2> QED BY <1>4, <1>5, Induct
<1>7. ms \in T /\ Len(ms) \in Nat /\ Len(ms) <= Len(ms)
  BY <1>3 DEF T
<1>8. Right(ms)
  BY <1>6, <1>7
<1> QED BY <1>8 DEF Right

-----------------------------------------------------------------------------
(* The whole application. *)

\* A claim of one module conflicts with one of another.
ModulesCross(psl, psr) == \E i \in DOMAIN psl, j \in DOMAIN psr : Crossing(psl[i], psr[j])

LEMMA ParamsParamsFinds ==
  ASSUME NEW psl \in Seq(Seq(Claims)), NEW psr \in Seq(Seq(Claims))
  PROVE  LET fault == ParamsParams(psl, psr)
         IN  /\ fault \in Diagnoses
             /\ ModulesCross(psl, psr) => fault # {}
             /\ fault # {} => \/ ModulesCross(psl, psr)
                              \/ ParamConflicts(psl) \/ ParamConflicts(psr)
             /\ "same claim" \in fault => ParamConflicts(psl) \/ ParamConflicts(psr)
             /\ "same module" \notin fault
<1> DEFINE all == UNION { ParamParam(psl[i], psr[j]) : i \in DOMAIN psl, j \in DOMAIN psr }
<1>1. /\ \A i \in DOMAIN psl : psl[i] \in Seq(Claims) /\ psl[i] \in ToSet(psl)
      /\ \A j \in DOMAIN psr : psr[j] \in Seq(Claims) /\ psr[j] \in ToSet(psr)
  <2> DEFINE S == Seq(Claims)
  <2> HIDE DEF S
  <2>1. psl \in Seq(S) /\ psr \in Seq(S)
    BY DEF S
  <2>2. /\ \A i \in DOMAIN psl : psl[i] \in S /\ psl[i] \in ToSet(psl)
        /\ \A j \in DOMAIN psr : psr[j] \in S /\ psr[j] \in ToSet(psr)
    BY <2>1, Elements
  <2> QED BY <2>2 DEF S
<1>2. ParamsParams(psl, psr) = Diagnosed(all, "application")
  BY DEF ParamsParams
<1>3. \A x : x \in all <=> \E i \in DOMAIN psl, j \in DOMAIN psr : x \in ParamParam(psl[i], psr[j])
  OBVIOUS
<1> HIDE DEF all
<1>4. ASSUME NEW i \in DOMAIN psl, NEW j \in DOMAIN psr
      PROVE  /\ ParamParam(psl[i], psr[j]) \in Diagnoses
             /\ ParamParam(psl[i], psr[j]) # {} <=>
                  \/ Crossing(psl[i], psr[j])
                  \/ HasPair(psl[i], Conflicting) \/ HasPair(psr[j], Conflicting)
             /\ "same claim" \in ParamParam(psl[i], psr[j]) <=>
                  HasPair(psl[i], Conflicting) \/ HasPair(psr[j], Conflicting)
             /\ "same module" \notin ParamParam(psl[i], psr[j])
             /\ HasPair(psl[i], Conflicting) => ParamConflicts(psl)
             /\ HasPair(psr[j], Conflicting) => ParamConflicts(psr)
  <2>1. psl[i] \in Seq(Claims) /\ psr[j] \in Seq(Claims)
    BY <1>1
  <2>2. /\ HasPair(psl[i], Conflicting) => ParamConflicts(psl)
        /\ HasPair(psr[j], Conflicting) => ParamConflicts(psr)
    BY <1>1 DEF ParamConflicts
  <2> QED BY <2>1, <2>2, ParamParamFinds
<1>5. all \in Diagnoses
  BY <1>3, <1>4 DEF Diagnoses
<1>6. /\ Diagnosed(all, "application") \in Diagnoses
      /\ Diagnosed(all, "application") # {} <=> all # {}
      /\ \A x : x \in Diagnosed(all, "application") <=>
                  x \in all \/ (x = "application" /\ all # {})
  BY <1>5, DiagnosedAs
<1>7. ModulesCross(psl, psr) => all # {}
  BY <1>3, <1>4 DEF ModulesCross
<1>8. all # {} => \/ ModulesCross(psl, psr)
                  \/ ParamConflicts(psl) \/ ParamConflicts(psr)
  <2> SUFFICES ASSUME NEW x \in all
               PROVE  \/ ModulesCross(psl, psr)
                      \/ ParamConflicts(psl) \/ ParamConflicts(psr)
    OBVIOUS
  <2>1. PICK i \in DOMAIN psl, j \in DOMAIN psr : x \in ParamParam(psl[i], psr[j])
    BY <1>3
  <2> QED BY <1>4, <2>1 DEF ModulesCross
<1>9. "same claim" \in all => ParamConflicts(psl) \/ ParamConflicts(psr)
  BY <1>3, <1>4
<1>10. "same module" \notin all
  BY <1>3, <1>4
<1>11. "same claim" # "application" /\ "same module" # "application"
  OBVIOUS
<1> QED BY <1>2, <1>6, <1>7, <1>8, <1>9, <1>10, <1>11

LEMMA DiagnosticsFind ==
  ASSUME NEW ms \in Seq(Seq(Seq(Claims)))
  PROVE  LET fault == Diagnostics(ms) \ {"conflict"}
         IN  /\ fault # {} <=> \/ \E m, n \in 1..Len(ms) : m < n /\ ModulesCross(ms[m], ms[n])
                               \/ \E m \in 1..Len(ms) : ModuleConflicts(ms[m])
             /\ "same claim" \in fault <=> \E m \in 1..Len(ms) : ParamConflicts(ms[m])
             /\ "same module" \in fault <=>
                  \E m \in 1..Len(ms) : Len(ms[m]) > 1 /\ ModuleConflicts(ms[m])
<1> DEFINE S == Seq(Seq(Claims))
           between == UNION { UNION { ParamsParams(ms[m], ms[n]) : n \in m + 1 .. Len(ms) } :
                                m \in DOMAIN ms }
           each == SelfModules[ms]
           all == between \cup each
<1>1. /\ \A m \in 1..Len(ms) : ms[m] \in Seq(Seq(Claims))
      /\ \A x : x \in ToSet(ms) <=> \E m \in 1..Len(ms) : ms[m] = x
  <2> HIDE DEF S
  <2>1. ms \in Seq(S)
    BY DEF S
  <2>2. /\ \A m \in 1..Len(ms) : ms[m] \in S
        /\ \A x : x \in ToSet(ms) <=> \E m \in 1..Len(ms) : ms[m] = x
    BY <2>1, Elements
  <2> QED BY <2>2 DEF S
<1>2. Diagnostics(ms) = Diagnosed(all, "application")
  BY DEF Diagnostics
<1>3. \A x : x \in between <=>
        \E m, n \in 1..Len(ms) : m < n /\ x \in ParamsParams(ms[m], ms[n])
  <2>1. \A x : x \in between <=>
          \E m \in DOMAIN ms : \E n \in m + 1 .. Len(ms) : x \in ParamsParams(ms[m], ms[n])
    OBVIOUS
  <2> HIDE DEF between
  <2>2. DOMAIN ms = 1..Len(ms) /\ Len(ms) \in Nat
    OBVIOUS
  <2> DEFINE n == Len(ms)
  <2>3. n \in Nat /\ \A i \in 1..n : \A j : j \in i + 1 .. n <=> j \in 1..n /\ i < j
    <3>1. n \in Nat
      BY <2>2
    <3> HIDE DEF n
    <3> QED BY <3>1
  <2> QED BY <2>1, <2>2, <2>3
<1>4. EachDiagnosed(ms, each)
  BY SelfModulesFinds
<1> HIDE DEF between, each
<1>5. /\ each \in Diagnoses
      /\ each # {} <=> \E m \in 1..Len(ms) : ModuleConflicts(ms[m])
      /\ "same claim" \in each <=> \E m \in 1..Len(ms) : ParamConflicts(ms[m])
      /\ "same module" \in each <=>
           \E m \in 1..Len(ms) : Len(ms[m]) > 1 /\ ModuleConflicts(ms[m])
  BY <1>1, <1>4 DEF EachDiagnosed
<1>6. ASSUME NEW m \in 1..Len(ms), NEW n \in 1..Len(ms)
      PROVE  /\ ParamsParams(ms[m], ms[n]) \in Diagnoses
             /\ ModulesCross(ms[m], ms[n]) => ParamsParams(ms[m], ms[n]) # {}
             /\ ParamsParams(ms[m], ms[n]) # {} =>
                  ModulesCross(ms[m], ms[n]) \/ ParamConflicts(ms[m]) \/ ParamConflicts(ms[n])
             /\ "same claim" \in ParamsParams(ms[m], ms[n]) =>
                  ParamConflicts(ms[m]) \/ ParamConflicts(ms[n])
             /\ "same module" \notin ParamsParams(ms[m], ms[n])
  BY <1>1, ParamsParamsFinds
<1>7. \A m : ParamConflicts(ms[m]) => ModuleConflicts(ms[m])
  BY DEF ModuleConflicts
<1>8. all \in Diagnoses
  BY <1>3, <1>5, <1>6 DEF Diagnoses
<1>9. all # {} <=> \/ \E m, n \in 1..Len(ms) : m < n /\ ModulesCross(ms[m], ms[n])
                   \/ \E m \in 1..Len(ms) : ModuleConflicts(ms[m])
  <2>1. ASSUME NEW x \in between
        PROVE  \/ \E m, n \in 1..Len(ms) : m < n /\ ModulesCross(ms[m], ms[n])
               \/ \E m \in 1..Len(ms) : ModuleConflicts(ms[m])
    <3>1. PICK m \in 1..Len(ms), n \in 1..Len(ms) : m < n /\ x \in ParamsParams(ms[m], ms[n])
      BY <1>3
    <3>2. ModulesCross(ms[m], ms[n]) \/ ParamConflicts(ms[m]) \/ ParamConflicts(ms[n])
      BY <1>6, <3>1
    <3> QED BY <1>7, <3>1, <3>2
  <2>2. ASSUME NEW m \in 1..Len(ms), NEW n \in 1..Len(ms), m < n, ModulesCross(ms[m], ms[n])
        PROVE  between # {}
    BY <1>3, <1>6, <2>2
  <2>3. all # {} <=> between # {} \/ each # {}
    OBVIOUS
  <2> HIDE DEF all
  <2> QED BY <1>5, <2>1, <2>2, <2>3
<1>10. "same claim" \in all <=> \E m \in 1..Len(ms) : ParamConflicts(ms[m])
  <2>1. "same claim" \in between => \E m \in 1..Len(ms) : ParamConflicts(ms[m])
    BY <1>3, <1>6
  <2> QED BY <1>5, <2>1
<1>11. "same module" \in all <=>
         \E m \in 1..Len(ms) : Len(ms[m]) > 1 /\ ModuleConflicts(ms[m])
  <2>1. "same module" \notin between
    BY <1>3, <1>6
  <2> QED BY <1>5, <2>1
<1> HIDE DEF all
<1>12. /\ Diagnosed(all, "application") # {} <=> all # {}
       /\ \A x : x \in Diagnosed(all, "application") <=>
                   x \in all \/ (x = "application" /\ all # {})
  BY <1>8, DiagnosedAs
<1>13. /\ "same claim" # "application" /\ "same module" # "application"
       /\ "same claim" # "conflict" /\ "same module" # "conflict"
       /\ "application" # "conflict"
  OBVIOUS
<1>14. Diagnostics(ms) \ {"conflict"} # {} <=> all # {}
  BY <1>2, <1>12, <1>13
<1>15. /\ "same claim" \in Diagnostics(ms) \ {"conflict"} <=> "same claim" \in all
       /\ "same module" \in Diagnostics(ms) \ {"conflict"} <=> "same module" \in all
  BY <1>2, <1>12, <1>13
<1> QED BY <1>9, <1>10, <1>11, <1>14, <1>15

-----------------------------------------------------------------------------
(* The verdict. *)

Declared == claims \in [1..Size -> Claims] /\ layout \in Layout

LEMMA FunctionIsSequence ==
  ASSUME NEW S, NEW n \in Nat, NEW f \in [1..n -> S]
  PROVE  f \in Seq(S) /\ Len(f) = n
<1>1. f \in Seq(S)
  BY SeqDef
<1> QED BY <1>1, LenProperties

\* The application has the shape of its layout.
LEMMA ApplicationShape ==
  ASSUME Declared
  PROVE  /\ Application \in Seq(Seq(Seq(Claims)))
         /\ Len(Application) = Len(layout)
         /\ \A m \in 1..Len(layout) :
              /\ Application[m] \in Seq(Seq(Claims))
              /\ Len(Application[m]) = Len(layout[m])
              /\ \A p \in 1..Len(layout[m]) :
                   /\ Application[m][p] \in Seq(Claims)
                   /\ Len(Application[m][p]) = Len(layout[m][p])
                   /\ \A k \in 1..Len(layout[m][p]) :
                        /\ layout[m][p][k] \in 1..Size
                        /\ Application[m][p][k] = claims[layout[m][p][k]]
<1> DEFINE N == Seq(1..Size)
           M == Seq(N)
           C == Seq(Claims)
           D == Seq(C)
           Param(m, p) == [i \in DOMAIN layout[m][p] |-> claims[layout[m][p][i]]]
           Module(m) == [p \in DOMAIN layout[m] |-> Param(m, p)]
<1>1. layout \in Seq(M)
  BY LayoutAssumption DEF Declared
<1>2. claims \in [1..Size -> Claims]
  BY DEF Declared
<1>3. Application = [m \in DOMAIN layout |-> Module(m)]
  BY DEF Application
<1> HIDE DEF M
<1>4. /\ Len(layout) \in Nat /\ DOMAIN layout = 1..Len(layout)
      /\ \A m \in 1..Len(layout) : layout[m] \in M
  BY <1>1, Elements
<1>5. ASSUME NEW m \in 1..Len(layout)
      PROVE  /\ Len(layout[m]) \in Nat /\ DOMAIN layout[m] = 1..Len(layout[m])
             /\ \A p \in 1..Len(layout[m]) : layout[m][p] \in N
  <2> HIDE DEF N
  <2>1. layout[m] \in Seq(N)
    BY <1>4 DEF M
  <2> QED BY <2>1, Elements
<1>6. ASSUME NEW m \in 1..Len(layout), NEW p \in 1..Len(layout[m])
      PROVE  /\ Len(layout[m][p]) \in Nat /\ DOMAIN layout[m][p] = 1..Len(layout[m][p])
             /\ \A k \in 1..Len(layout[m][p]) : layout[m][p][k] \in 1..Size
  <2>1. layout[m][p] \in Seq(1..Size)
    BY <1>5
  <2> QED BY <2>1, Elements
<1>7. ASSUME NEW m \in 1..Len(layout), NEW p \in 1..Len(layout[m])
      PROVE  Param(m, p) \in C /\ Len(Param(m, p)) = Len(layout[m][p])
  <2> DEFINE n == Len(layout[m][p])
             f == Param(m, p)
  <2>1. n \in Nat /\ f \in [1..n -> Claims]
    BY <1>2, <1>6
  <2> HIDE DEF n, f
  <2>2. f \in Seq(Claims) /\ Len(f) = n
    BY <2>1, FunctionIsSequence
  <2> QED BY <2>2 DEF n, f
<1> HIDE DEF C
<1>8. ASSUME NEW m \in 1..Len(layout)
      PROVE  Module(m) \in D /\ Len(Module(m)) = Len(layout[m])
  <2>1. Module(m) \in [1..Len(layout[m]) -> C]
    <3> HIDE DEF Param
    <3> QED BY <1>5, <1>7
  <2> QED BY <1>5, <2>1, FunctionIsSequence
<1> HIDE DEF D
<1>9. Application \in Seq(D) /\ Len(Application) = Len(layout)
  <2>1. Application \in [1..Len(layout) -> D]
    <3> HIDE DEF Module
    <3> QED BY <1>3, <1>4, <1>8
  <2> QED BY <1>4, <2>1, FunctionIsSequence
<1>10. ASSUME NEW m \in 1..Len(layout)
       PROVE  Application[m] = Module(m)
  <2> HIDE DEF Module
  <2> QED BY <1>3, <1>4
<1>11. ASSUME NEW m \in 1..Len(layout), NEW p \in 1..Len(layout[m])
       PROVE  Application[m][p] = Param(m, p)
  <2> HIDE DEF Param
  <2>2. Module(m)[p] = Param(m, p)
    BY <1>5
  <2> QED BY <1>10, <2>2
<1>12. ASSUME NEW m \in 1..Len(layout), NEW p \in 1..Len(layout[m]),
              NEW k \in 1..Len(layout[m][p])
       PROVE  Param(m, p)[k] = claims[layout[m][p][k]]
  BY <1>6
<1> HIDE DEF Module, Param
<1>13. Application \in Seq(Seq(Seq(Claims)))
  BY <1>9 DEF C, D
<1>14. ASSUME NEW m \in 1..Len(layout)
       PROVE  Application[m] \in D /\ Len(Application[m]) = Len(layout[m])
  BY <1>8, <1>10
<1>15. D = Seq(Seq(Claims)) /\ C = Seq(Claims)
  BY DEF C, D
<1>16. ASSUME NEW m \in 1..Len(layout), NEW p \in 1..Len(layout[m])
       PROVE  Application[m][p] \in C /\ Len(Application[m][p]) = Len(layout[m][p])
  BY <1>7, <1>11
<1>17. ASSUME NEW m \in 1..Len(layout), NEW p \in 1..Len(layout[m]),
              NEW k \in 1..Len(layout[m][p])
       PROVE  /\ layout[m][p][k] \in 1..Size
              /\ Application[m][p][k] = claims[layout[m][p][k]]
  <2>1. layout[m][p][k] \in 1..Size
    BY <1>6
  <2>2. Application[m][p] = Param(m, p)
    BY <1>11
  <2>3. Param(m, p)[k] = claims[layout[m][p][k]]
    BY <1>12
  <2> QED BY <2>1, <2>2, <2>3
<1>18. Len(Application) = Len(layout)
  BY <1>9
<1> QED BY <1>13, <1>16, <1>17, <1>18, <1>14, <1>15

\* The policy over a set of claims, in terms of has_conflict.
LEMMA ClashesAny ==
  ASSUME claims \in [1..Size -> Claims], NEW S \in SUBSET (1..Size)
  PROVE  Clashes(S) <=> \E i, j \in S : i # j /\ HasConflict(claims[i], claims[j])
<1>1. \A i, j \in S : /\ i \in Int /\ j \in Int
                      /\ HasConflict(claims[i], claims[j]) <=> Clash(claims[i], claims[j])
                      /\ HasConflict(claims[i], claims[j]) <=> HasConflict(claims[j], claims[i])
  BY ConflictIsClash, ConflictIsMutual
<1>2. \A i, j \in S : i # j <=> i < j \/ j < i
  <2> SUFFICES ASSUME NEW i \in S, NEW j \in S PROVE i # j <=> i < j \/ j < i
    OBVIOUS
  <2>1. i \in Int /\ j \in Int
    BY <1>1
  <2> QED BY <2>1
<1> QED BY <1>1, <1>2 DEF Clashes

\* Where claims are declared: every number at one place.
LEMMA Places ==
  ASSUME Declared
  PROVE  /\ Len(layout) \in Nat /\ DOMAIN layout = 1..Len(layout)
         /\ \A m \in 1..Len(layout) :
              /\ Len(layout[m]) \in Nat /\ DOMAIN layout[m] = 1..Len(layout[m])
              /\ \A p \in 1..Len(layout[m]) :
                   /\ Len(layout[m][p]) \in Nat /\ DOMAIN layout[m][p] = 1..Len(layout[m][p])
                   /\ \A x : x \in ToSet(layout[m][p]) <=>
                               \E k \in 1..Len(layout[m][p]) : layout[m][p][k] = x
                   /\ ToSet(layout[m][p]) \subseteq 1..Size
<1> DEFINE N == Seq(1..Size)
           M == Seq(N)
<1>1. layout \in Seq(M)
  BY LayoutAssumption DEF Declared
<1> HIDE DEF M
<1>2. /\ Len(layout) \in Nat /\ DOMAIN layout = 1..Len(layout)
      /\ \A m \in 1..Len(layout) : layout[m] \in M
  BY <1>1, Elements
<1>3. ASSUME NEW m \in 1..Len(layout)
      PROVE  /\ Len(layout[m]) \in Nat /\ DOMAIN layout[m] = 1..Len(layout[m])
             /\ \A p \in 1..Len(layout[m]) : layout[m][p] \in N
  <2> HIDE DEF N
  <2>1. layout[m] \in Seq(N)
    BY <1>2 DEF M
  <2> QED BY <2>1, Elements
<1>4. ASSUME NEW m \in 1..Len(layout), NEW p \in 1..Len(layout[m])
      PROVE  /\ Len(layout[m][p]) \in Nat /\ DOMAIN layout[m][p] = 1..Len(layout[m][p])
             /\ \A x : x \in ToSet(layout[m][p]) <=>
                         \E k \in 1..Len(layout[m][p]) : layout[m][p][k] = x
             /\ ToSet(layout[m][p]) \subseteq 1..Size
  <2>1. layout[m][p] \in Seq(1..Size)
    BY <1>3
  <2> QED BY <2>1, Elements
<1> QED BY <1>2, <1>3, <1>4

\* The numbers declared at two places are two.
LEMMA PlacesDiffer ==
  ASSUME Declared,
         NEW m \in DOMAIN layout, NEW p \in DOMAIN layout[m], NEW k \in DOMAIN layout[m][p],
         NEW n \in DOMAIN layout, NEW q \in DOMAIN layout[n], NEW j \in DOMAIN layout[n][q],
         layout[m][p][k] = layout[n][q][j]
  PROVE  m = n /\ p = q /\ k = j
BY LayoutAssumption DEF Declared

\* Two elements of a sequence are related by a relation that has no direction.
LEMMA PairEitherWay ==
  ASSUME NEW S, NEW s \in Seq(S), NEW R,
         \A i, j \in 1..Len(s) : <<s[i], s[j]>> \in R <=> <<s[j], s[i]>> \in R
  PROVE  HasPair(s, R) <=> \E i, j \in 1..Len(s) : i # j /\ <<s[i], s[j]>> \in R
<1> DEFINE n == Len(s)
<1>1. \A i, j \in 1..n : i # j <=> i < j \/ j < i
  <2>1. n \in Nat
    BY LenProperties
  <2> HIDE DEF n
  <2> QED BY <2>1
<1> QED BY <1>1 DEF HasPair

LEMMA ParamClashes ==
  ASSUME Declared, NEW m \in 1..Len(layout), NEW p \in 1..Len(layout[m])
  PROVE  HasPair(Application[m][p], Conflicting) <=> Clashes(ToSet(layout[m][p]))
<1> DEFINE s == Application[m][p]
           l == layout[m][p]
           n == Len(l)
<1>1. claims \in [1..Size -> Claims]
  BY DEF Declared
<1>2. /\ \A x : x \in ToSet(l) <=> \E k \in 1..n : l[k] = x
      /\ ToSet(l) \in SUBSET (1..Size)
      /\ m \in DOMAIN layout /\ p \in DOMAIN layout[m] /\ DOMAIN l = 1..n
  BY Places
<1>3. Len(s) = n /\ \A k \in 1..n : l[k] \in 1..Size /\ s[k] = claims[l[k]]
  BY ApplicationShape
<1>4. s \in Seq(Claims)
  BY ApplicationShape
<1>5. \A k, j \in 1..n : l[k] = l[j] => k = j
  BY <1>2, PlacesDiffer
<1> HIDE DEF s, l, n
<1>6. \A k, j \in 1..n :
        /\ <<s[k], s[j]>> \in Conflicting <=> HasConflict(claims[l[k]], claims[l[j]])
        /\ HasConflict(claims[l[k]], claims[l[j]]) <=> HasConflict(claims[l[j]], claims[l[k]])
  <2> SUFFICES ASSUME NEW k \in 1..n, NEW j \in 1..n
               PROVE  /\ <<s[k], s[j]>> \in Conflicting <=>
                           HasConflict(claims[l[k]], claims[l[j]])
                      /\ HasConflict(claims[l[k]], claims[l[j]]) <=>
                           HasConflict(claims[l[j]], claims[l[k]])
    OBVIOUS
  <2> DEFINE c == claims[l[k]]
             d == claims[l[j]]
  <2>1. c \in Claims /\ d \in Claims /\ s[k] = c /\ s[j] = d
    BY <1>1, <1>3
  <2> HIDE DEF c, d
  <2>2. <<c, d>> \in Conflicting <=> HasConflict(c, d)
    BY <2>1 DEF Conflicting
  <2>3. HasConflict(c, d) <=> HasConflict(d, c)
    BY <2>1, ConflictIsMutual
  <2> QED BY <2>1, <2>2, <2>3 DEF c, d
<1>7. HasPair(s, Conflicting) <=> \E k, j \in 1..n : k # j /\ <<s[k], s[j]>> \in Conflicting
  BY <1>3, <1>4, <1>6, PairEitherWay
<1>8. Clashes(ToSet(l)) <=> \E x, y \in ToSet(l) : x # y /\ HasConflict(claims[x], claims[y])
  BY <1>1, <1>2, ClashesAny
<1>9. ASSUME NEW k \in 1..n, NEW j \in 1..n, k # j, <<s[k], s[j]>> \in Conflicting
      PROVE  \E x, y \in ToSet(l) : x # y /\ HasConflict(claims[x], claims[y])
  <2>1. l[k] \in ToSet(l) /\ l[j] \in ToSet(l) /\ l[k] # l[j]
    BY <1>2, <1>5, <1>9
  <2> QED BY <1>6, <1>9, <2>1
<1>10. ASSUME NEW x \in ToSet(l), NEW y \in ToSet(l), x # y,
              HasConflict(claims[x], claims[y])
       PROVE  \E k, j \in 1..n : k # j /\ <<s[k], s[j]>> \in Conflicting
  <2>1. PICK k \in 1..n, j \in 1..n : l[k] = x /\ l[j] = y
    BY <1>2
  <2> QED BY <1>6, <1>10, <2>1
<1>11. HasPair(s, Conflicting) <=> Clashes(ToSet(l))
  BY <1>7, <1>8, <1>9, <1>10
<1> QED BY <1>11 DEF s, l

LEMMA CrossingClashes ==
  ASSUME Declared, NEW m \in 1..Len(layout), NEW p \in 1..Len(layout[m]),
         NEW n \in 1..Len(layout), NEW q \in 1..Len(layout[n])
  PROVE  /\ Crossing(Application[m][p], Application[n][q]) <=>
              \E x \in ToSet(layout[m][p]), y \in ToSet(layout[n][q]) :
                HasConflict(claims[x], claims[y])
         /\ Crossing(Application[m][p], Application[n][q]) <=>
              Crossing(Application[n][q], Application[m][p])
<1> DEFINE s == Application[m][p]
           l == layout[m][p]
           t == Application[n][q]
           r == layout[n][q]
<1>1. claims \in [1..Size -> Claims]
  BY DEF Declared
<1>2. /\ \A x : x \in ToSet(l) <=> \E k \in 1..Len(l) : l[k] = x
      /\ \A x : x \in ToSet(r) <=> \E k \in 1..Len(r) : r[k] = x
  BY Places
<1>3. /\ s \in Seq(Claims) /\ Len(s) = Len(l)
      /\ \A k \in 1..Len(l) : l[k] \in 1..Size /\ s[k] = claims[l[k]]
  BY ApplicationShape
<1>4. /\ t \in Seq(Claims) /\ Len(t) = Len(r)
      /\ \A k \in 1..Len(r) : r[k] \in 1..Size /\ t[k] = claims[r[k]]
  BY ApplicationShape
<1> HIDE DEF s, l, t, r
<1>5. /\ DOMAIN s = 1..Len(l) /\ \A k \in DOMAIN s : s[k] \in Claims
      /\ DOMAIN t = 1..Len(r) /\ \A k \in DOMAIN t : t[k] \in Claims
  BY <1>3, <1>4, Elements
<1>6. Crossing(s, t) <=> \E x \in ToSet(l), y \in ToSet(r) : HasConflict(claims[x], claims[y])
  <2>1. ASSUME NEW i \in DOMAIN s, NEW j \in DOMAIN t, HasConflict(s[i], t[j])
        PROVE  \E x \in ToSet(l), y \in ToSet(r) : HasConflict(claims[x], claims[y])
    <3>1. l[i] \in ToSet(l) /\ r[j] \in ToSet(r) /\ s[i] = claims[l[i]] /\ t[j] = claims[r[j]]
      BY <1>2, <1>3, <1>4, <1>5
    <3> QED BY <2>1, <3>1
  <2>2. ASSUME NEW x \in ToSet(l), NEW y \in ToSet(r), HasConflict(claims[x], claims[y])
        PROVE  \E i \in DOMAIN s, j \in DOMAIN t : HasConflict(s[i], t[j])
    <3>1. PICK i \in 1..Len(l), j \in 1..Len(r) : l[i] = x /\ r[j] = y
      BY <1>2
    <3>2. s[i] = claims[x] /\ t[j] = claims[y]
      BY <1>3, <1>4, <3>1
    <3> QED BY <1>5, <2>2, <3>2
  <2> QED BY <2>1, <2>2 DEF Crossing
<1>7. Crossing(s, t) <=> Crossing(t, s)
  BY <1>5, ConflictIsMutual DEF Crossing
<1> QED BY <1>6, <1>7 DEF s, l, t, r

LEMMA ModuleClashes ==
  ASSUME Declared, NEW m \in 1..Len(layout)
  PROVE  /\ ParamConflicts(Application[m]) <=>
              \E p \in 1..Len(layout[m]) : Clashes(ToSet(layout[m][p]))
         /\ ModuleConflicts(Application[m]) <=> Clashes(ClaimsOfModule(m))
<1> DEFINE a == Application[m]
           n == Len(layout[m])
           L(p) == ToSet(layout[m][p])
           C == Seq(Claims)
           Conflict(x, y) == HasConflict(claims[x], claims[y])
<1>1. claims \in [1..Size -> Claims]
  BY DEF Declared
<1>2. /\ n \in Nat /\ DOMAIN layout[m] = 1..n
      /\ \A p \in 1..n : L(p) \in SUBSET (1..Size)
  BY Places
<1>3. a \in Seq(C) /\ Len(a) = n /\ \A p \in 1..n : a[p] \in C
  BY ApplicationShape
<1>4. \A p \in 1..n : HasPair(a[p], Conflicting) <=> Clashes(L(p))
  BY ParamClashes
<1>5. \A p, q \in 1..n :
        /\ Crossing(a[p], a[q]) <=> \E x \in L(p), y \in L(q) : Conflict(x, y)
        /\ Crossing(a[p], a[q]) <=> Crossing(a[q], a[p])
  BY CrossingClashes
<1>6. \A x : x \in ClaimsOfModule(m) <=> \E p \in 1..n : x \in L(p)
  BY <1>2 DEF ClaimsOfModule
<1>7. \A p \in 1..n : Clashes(L(p)) <=> \E x, y \in L(p) : x # y /\ Conflict(x, y)
  BY <1>1, <1>2, ClashesAny
<1>8. Clashes(ClaimsOfModule(m)) <=>
        \E x, y \in ClaimsOfModule(m) : x # y /\ Conflict(x, y)
  <2>1. ClaimsOfModule(m) \in SUBSET (1..Size)
    BY <1>2, <1>6
  <2> QED BY <1>1, <2>1, ClashesAny
<1>9. ASSUME NEW p \in 1..n, NEW q \in 1..n, NEW x \in L(p), NEW y \in L(q), p # q
      PROVE  x # y
  <2>1. m \in DOMAIN layout /\ p \in DOMAIN layout[m] /\ q \in DOMAIN layout[m]
    BY Places
  <2>2. \A r \in 1..n : /\ DOMAIN layout[m][r] = 1..Len(layout[m][r])
                        /\ \A z : z \in L(r) <=>
                             \E k \in 1..Len(layout[m][r]) : layout[m][r][k] = z
    BY Places
  <2>3. PICK k \in DOMAIN layout[m][p] : layout[m][p][k] = x
    BY <2>2
  <2>4. PICK j \in DOMAIN layout[m][q] : layout[m][q][j] = y
    BY <2>2
  <2> QED BY <1>9, <2>1, <2>3, <2>4, PlacesDiffer
<1> HIDE DEF a, n, L, C, Conflict
<1>10. ParamConflicts(a) <=> \E p \in 1..n : Clashes(L(p))
  <2>1. \A x : x \in ToSet(a) <=> \E p \in 1..n : a[p] = x
    BY <1>3, Elements
  <2> QED BY <1>4, <2>1 DEF ParamConflicts
<1>11. HasPair(a, Crossings) <=> \E p, q \in 1..n : p # q /\ Crossing(a[p], a[q])
  <2>1. \A p, q \in 1..n : <<a[p], a[q]>> \in Crossings <=> Crossing(a[p], a[q])
    BY <1>3 DEF Crossings, C
  <2>2. Len(a) = n /\ \A p, q \in 1..n : <<a[p], a[q]>> \in Crossings <=> <<a[q], a[p]>> \in Crossings
    BY <1>3, <1>5, <2>1
  <2>3. HasPair(a, Crossings) <=> \E p, q \in 1..n : p # q /\ <<a[p], a[q]>> \in Crossings
    BY <1>3, <2>2, PairEitherWay
  <2> QED BY <2>1, <2>3
<1>12. ASSUME NEW p \in 1..n, Clashes(L(p)) PROVE Clashes(ClaimsOfModule(m))
  BY <1>6, <1>7, <1>8, <1>12
<1>13. ASSUME NEW p \in 1..n, NEW q \in 1..n, p # q, Crossing(a[p], a[q])
       PROVE  Clashes(ClaimsOfModule(m))
  <2>1. PICK x \in L(p), y \in L(q) : Conflict(x, y)
    BY <1>5, <1>13
  <2>2. x # y
    BY <1>9, <1>13
  <2> QED BY <1>6, <1>8, <2>1, <2>2
<1>14. ASSUME Clashes(ClaimsOfModule(m))
       PROVE  \/ \E p \in 1..n : Clashes(L(p))
              \/ \E p, q \in 1..n : p # q /\ Crossing(a[p], a[q])
  <2>1. PICK x \in ClaimsOfModule(m), y \in ClaimsOfModule(m) : x # y /\ Conflict(x, y)
    BY <1>8, <1>14
  <2>2. PICK p \in 1..n, q \in 1..n : x \in L(p) /\ y \in L(q)
    BY <1>6
  <2>3. CASE p = q
    BY <1>7, <2>1, <2>2, <2>3
  <2>4. CASE p # q
    BY <1>5, <2>1, <2>2, <2>4
  <2> QED BY <2>3, <2>4
<1>15. ModuleConflicts(a) <=> Clashes(ClaimsOfModule(m))
  BY <1>10, <1>11, <1>12, <1>13, <1>14 DEF ModuleConflicts
<1> QED BY <1>10, <1>15 DEF a, n, L

LEMMA ApplicationClashes ==
  ASSUME Declared
  PROVE  Clashes(1..Size) <=>
           \/ \E m, n \in 1..Len(layout) : m < n /\ ModulesCross(Application[m], Application[n])
           \/ \E m \in 1..Len(layout) : ModuleConflicts(Application[m])
<1> DEFINE N == Len(layout)
           P(m) == Len(layout[m])
           L(m, p) == ToSet(layout[m][p])
           Conflict(x, y) == HasConflict(claims[x], claims[y])
           Cross(m, p, n, q) == Crossing(Application[m][p], Application[n][q])
           Within(m) == ModuleConflicts(Application[m])
<1>1. claims \in [1..Size -> Claims]
  BY DEF Declared
<1>2. /\ N \in Nat
      /\ \A m \in 1..N : /\ DOMAIN layout[m] = 1..P(m)
                         /\ \A p \in 1..P(m) : L(m, p) \subseteq 1..Size
  BY Places
<1>3. \A x \in 1..Size : \E m \in 1..N : \E p \in 1..P(m) : x \in L(m, p)
  <2> SUFFICES ASSUME NEW x \in 1..Size
               PROVE  \E m \in 1..N : \E p \in 1..P(m) : x \in L(m, p)
    OBVIOUS
  <2>1. PICK m \in DOMAIN layout : \E p \in DOMAIN layout[m] : x \in ToSet(layout[m][p])
    BY LayoutAssumption DEF Declared
  <2>2. DOMAIN layout = 1..N /\ \A k \in 1..N : DOMAIN layout[k] = 1..P(k)
    BY Places
  <2> QED BY <2>1, <2>2
<1>4. \A m, n \in 1..N : ModulesCross(Application[m], Application[n]) <=>
                           \E p \in 1..P(m), q \in 1..P(n) : Cross(m, p, n, q)
  <2>1. \A m \in 1..N : DOMAIN Application[m] = 1..P(m)
    <3> DEFINE C == Seq(Claims)
    <3> HIDE DEF C
    <3>1. \A m \in 1..N : Application[m] \in Seq(C) /\ Len(Application[m]) = P(m)
      BY ApplicationShape DEF C
    <3> QED BY <3>1, Elements
  <2> QED BY <2>1 DEF ModulesCross
<1>5. \A m, n \in 1..N : \A p \in 1..P(m), q \in 1..P(n) :
        /\ Cross(m, p, n, q) <=> \E x \in L(m, p), y \in L(n, q) : Conflict(x, y)
        /\ Cross(m, p, n, q) <=> Cross(n, q, m, p)
  BY CrossingClashes
<1>6. \A m \in 1..N : Within(m) <=> Clashes(ClaimsOfModule(m))
  BY ModuleClashes
<1>7. \A m \in 1..N : \A x : x \in ClaimsOfModule(m) <=> \E p \in 1..P(m) : x \in L(m, p)
  BY <1>2 DEF ClaimsOfModule
<1>8. \A m \in 1..N : Clashes(ClaimsOfModule(m)) <=>
        \E x, y \in ClaimsOfModule(m) : x # y /\ Conflict(x, y)
  <2> SUFFICES ASSUME NEW m \in 1..N
               PROVE  Clashes(ClaimsOfModule(m)) <=>
                        \E x, y \in ClaimsOfModule(m) : x # y /\ Conflict(x, y)
    OBVIOUS
  <2>1. ClaimsOfModule(m) \in SUBSET (1..Size)
    BY <1>2, <1>7
  <2> QED BY <1>1, <2>1, ClashesAny
<1>9. Clashes(1..Size) <=> \E x, y \in 1..Size : x # y /\ Conflict(x, y)
  BY <1>1, ClashesAny
<1>10. ASSUME NEW m \in 1..N, NEW n \in 1..N, m # n,
              NEW p \in 1..P(m), NEW q \in 1..P(n), NEW x \in L(m, p), NEW y \in L(n, q)
       PROVE  x # y
  <2>1. /\ m \in DOMAIN layout /\ n \in DOMAIN layout
        /\ p \in DOMAIN layout[m] /\ q \in DOMAIN layout[n]
    BY Places
  <2>2. /\ DOMAIN layout[m][p] = 1..Len(layout[m][p])
        /\ \A z : z \in L(m, p) <=> \E k \in 1..Len(layout[m][p]) : layout[m][p][k] = z
        /\ DOMAIN layout[n][q] = 1..Len(layout[n][q])
        /\ \A z : z \in L(n, q) <=> \E k \in 1..Len(layout[n][q]) : layout[n][q][k] = z
    BY Places
  <2>3. PICK k \in DOMAIN layout[m][p] : layout[m][p][k] = x
    BY <2>2
  <2>4. PICK j \in DOMAIN layout[n][q] : layout[n][q][j] = y
    BY <2>2
  <2> QED BY <1>10, <2>1, <2>3, <2>4, PlacesDiffer
<1>11. \A m, n \in 1..N : m # n <=> m < n \/ n < m
  <2> HIDE DEF N
  <2> QED BY <1>2
<1> HIDE DEF N, P, L, Conflict, Cross, Within
<1>12. ASSUME NEW m \in 1..N, NEW n \in 1..N, m < n,
              ModulesCross(Application[m], Application[n])
       PROVE  Clashes(1..Size)
  <2>1. PICK p \in 1..P(m), q \in 1..P(n) : Cross(m, p, n, q)
    BY <1>4, <1>12
  <2>2. PICK x \in L(m, p), y \in L(n, q) : Conflict(x, y)
    BY <1>5, <2>1
  <2>3. x # y
    BY <1>10, <1>11, <1>12
  <2> QED BY <1>2, <1>9, <2>2, <2>3
<1>13. ASSUME NEW m \in 1..N, Within(m) PROVE Clashes(1..Size)
  BY <1>2, <1>6, <1>7, <1>8, <1>9, <1>13
<1>14. ASSUME Clashes(1..Size)
       PROVE  \/ \E m, n \in 1..N : m < n /\ ModulesCross(Application[m], Application[n])
              \/ \E m \in 1..N : Within(m)
  <2>1. PICK x \in 1..Size, y \in 1..Size : x # y /\ Conflict(x, y)
    BY <1>9, <1>14
  <2>2. PICK m \in 1..N : \E p \in 1..P(m) : x \in L(m, p)
    BY <1>3
  <2>3. PICK p \in 1..P(m) : x \in L(m, p)
    BY <2>2
  <2>4. PICK n \in 1..N : \E q \in 1..P(n) : y \in L(n, q)
    BY <1>3
  <2>5. PICK q \in 1..P(n) : y \in L(n, q)
    BY <2>4
  <2>6. CASE m = n
    <3>1. x \in ClaimsOfModule(m) /\ y \in ClaimsOfModule(m)
      BY <1>7, <2>3, <2>5, <2>6
    <3> QED BY <1>6, <1>8, <2>1, <3>1
  <2>7. CASE m # n
    <3>1. Cross(m, p, n, q) /\ Cross(n, q, m, p)
      BY <1>5, <2>1, <2>3, <2>5
    <3>2. /\ ModulesCross(Application[m], Application[n])
          /\ ModulesCross(Application[n], Application[m])
      BY <1>4, <3>1
    <3> QED BY <1>11, <2>7, <3>2
  <2> QED BY <2>6, <2>7
<1>15. Clashes(1..Size) <=>
         \/ \E m, n \in 1..N : m < n /\ ModulesCross(Application[m], Application[n])
         \/ \E m \in 1..N : Within(m)
  BY <1>12, <1>13, <1>14
<1> QED BY <1>15 DEF N, Within

\* The whole check: the verdict and what it says.
LEMMA CompileFinds ==
  ASSUME Declared
  PROVE  LET fault == Diagnostics(Application) \ {"conflict"}
         IN  /\ fault = {} <=> ~ Clashes(1..Size)
             /\ "same claim" \in fault <=> \E S \in ClaimsOfParams : Clashes(S)
             /\ "same module" \in fault <=>
                  \E m \in DOMAIN layout : Len(layout[m]) > 1 /\ Clashes(ClaimsOfModule(m))
<1> DEFINE app == Application
           fault == Diagnostics(app) \ {"conflict"}
<1>1. /\ app \in Seq(Seq(Seq(Claims)))
      /\ Len(app) = Len(layout) /\ DOMAIN layout = 1..Len(layout)
      /\ \A m \in 1..Len(layout) : Len(app[m]) = Len(layout[m])
  BY ApplicationShape, Places
<1>2. /\ fault # {} <=> \/ \E m, n \in 1..Len(layout) : m < n /\ ModulesCross(app[m], app[n])
                        \/ \E m \in 1..Len(layout) : ModuleConflicts(app[m])
      /\ "same claim" \in fault <=> \E m \in 1..Len(layout) : ParamConflicts(app[m])
      /\ "same module" \in fault <=>
           \E m \in 1..Len(layout) : Len(app[m]) > 1 /\ ModuleConflicts(app[m])
  <2> HIDE DEF app
  <2> QED BY <1>1, DiagnosticsFind
<1>3. \A m \in 1..Len(layout) :
        /\ ParamConflicts(app[m]) <=> \E p \in 1..Len(layout[m]) : Clashes(ToSet(layout[m][p]))
        /\ ModuleConflicts(app[m]) <=> Clashes(ClaimsOfModule(m))
  BY ModuleClashes
<1>4. Clashes(1..Size) <=>
        \/ \E m, n \in 1..Len(layout) : m < n /\ ModulesCross(app[m], app[n])
        \/ \E m \in 1..Len(layout) : ModuleConflicts(app[m])
  BY ApplicationClashes
<1>5. \A S : S \in ClaimsOfParams <=>
               \E m \in 1..Len(layout) : \E p \in 1..Len(layout[m]) : S = ToSet(layout[m][p])
  <2>1. \A m \in 1..Len(layout) : \A x :
          x \in ToSet(layout[m]) <=> \E p \in 1..Len(layout[m]) : layout[m][p] = x
    <3> DEFINE N == Seq(1..Size)
               M == Seq(N)
    <3> HIDE DEF N, M
    <3>1. layout \in Seq(M)
      BY LayoutAssumption DEF Declared, M, N
    <3>2. \A m \in 1..Len(layout) : layout[m] \in Seq(N)
      BY <3>1, Elements DEF M
    <3> QED BY <3>2, Elements
  <2>2. \A S : S \in ClaimsOfParams <=>
                 \E m \in DOMAIN layout : \E x \in ToSet(layout[m]) : S = ToSet(x)
    BY DEF ClaimsOfParams
  <2>3. ASSUME NEW S \in ClaimsOfParams
        PROVE  \E m \in 1..Len(layout) : \E p \in 1..Len(layout[m]) : S = ToSet(layout[m][p])
    <3>1. PICK m \in DOMAIN layout : \E x \in ToSet(layout[m]) : S = ToSet(x)
      BY <2>2
    <3>2. PICK x \in ToSet(layout[m]) : S = ToSet(x)
      BY <3>1
    <3>3. m \in 1..Len(layout)
      BY <1>1
    <3>4. PICK p \in 1..Len(layout[m]) : layout[m][p] = x
      BY <2>1, <3>3
    <3> QED BY <3>2, <3>3, <3>4
  <2>4. ASSUME NEW m \in 1..Len(layout), NEW p \in 1..Len(layout[m])
        PROVE  ToSet(layout[m][p]) \in ClaimsOfParams
    <3>1. m \in DOMAIN layout /\ layout[m][p] \in ToSet(layout[m])
      BY <1>1, <2>1
    <3> QED BY <2>2, <3>1
  <2> QED BY <2>3, <2>4
<1> HIDE DEF app, fault
<1>6. "same claim" \in fault <=> \E S \in ClaimsOfParams : Clashes(S)
  <2>1. ASSUME NEW S \in ClaimsOfParams, Clashes(S)
        PROVE  \E m \in 1..Len(layout) : ParamConflicts(app[m])
    <3>1. PICK m \in 1..Len(layout) : \E p \in 1..Len(layout[m]) : S = ToSet(layout[m][p])
      BY <1>5
    <3>2. PICK p \in 1..Len(layout[m]) : S = ToSet(layout[m][p])
      BY <3>1
    <3>3. Clashes(ToSet(layout[m][p]))
      BY <2>1, <3>2
    <3> QED BY <1>3, <3>3
  <2>2. ASSUME NEW m \in 1..Len(layout), ParamConflicts(app[m])
        PROVE  \E S \in ClaimsOfParams : Clashes(S)
    <3>1. PICK p \in 1..Len(layout[m]) : Clashes(ToSet(layout[m][p]))
      BY <1>3, <2>2
    <3>2. ToSet(layout[m][p]) \in ClaimsOfParams
      BY <1>5
    <3> QED BY <3>1, <3>2
  <2> QED BY <1>2, <2>1, <2>2
<1>7. "same module" \in fault <=>
        \E m \in DOMAIN layout : Len(layout[m]) > 1 /\ Clashes(ClaimsOfModule(m))
  BY <1>1, <1>2, <1>3
<1>8. fault = {} <=> ~ Clashes(1..Size)
  BY <1>2, <1>4
<1> QED BY <1>6, <1>7, <1>8 DEF fault, app

-----------------------------------------------------------------------------
(* The theorems. *)

ClaimsInv == Declared /\ VerdictIsPolicy /\ DiagnosticIsRight

LEMMA CompileIsRight == ClaimsInv /\ Compile => ClaimsInv'
<1> SUFFICES ASSUME ClaimsInv, Compile PROVE ClaimsInv'
  OBVIOUS
<1>1. /\ verdict' = Diagnostics(Application) \ {"conflict"}
      /\ claims' = claims /\ layout' = layout
  BY DEF Compile
<1>2. Declared
  BY DEF ClaimsInv
<1>3. /\ \A S : Clashes(S)' <=> Clashes(S)
      /\ ClaimsOfParams' = ClaimsOfParams
      /\ \A m : ClaimsOfModule(m)' = ClaimsOfModule(m)
  BY <1>1 DEF Clashes, ClaimsOfParams, ClaimsOfModule
<1>4. /\ verdict' = {} <=> ~ Clashes(1..Size)
      /\ "same claim" \in verdict' <=> \E S \in ClaimsOfParams : Clashes(S)
      /\ "same module" \in verdict' <=>
           \E m \in DOMAIN layout : Len(layout[m]) > 1 /\ Clashes(ClaimsOfModule(m))
  BY <1>1, <1>2, CompileFinds
<1>5. VerdictIsPolicy'
  BY <1>1, <1>3, <1>4 DEF VerdictIsPolicy
<1>6. DiagnosticIsRight'
  BY <1>1, <1>3, <1>4 DEF DiagnosticIsRight
<1> QED BY <1>1, <1>2, <1>5, <1>6 DEF ClaimsInv, Declared

LEMMA ClaimsInvariant == Spec => []ClaimsInv
<1>1. Init => ClaimsInv
  BY DEF Init, ClaimsInv, Declared, VerdictIsPolicy, DiagnosticIsRight
<1>2. ClaimsInv /\ [Next]_vars => ClaimsInv'
  <2>1. ClaimsInv /\ UNCHANGED vars => ClaimsInv'
    <3> SUFFICES ASSUME ClaimsInv, UNCHANGED vars PROVE ClaimsInv'
      OBVIOUS
    <3>1. claims' = claims /\ layout' = layout /\ verdict' = verdict
      BY DEF vars
    <3>2. /\ \A S : Clashes(S)' <=> Clashes(S)
          /\ ClaimsOfParams' = ClaimsOfParams
          /\ \A m : ClaimsOfModule(m)' = ClaimsOfModule(m)
      BY <3>1 DEF Clashes, ClaimsOfParams, ClaimsOfModule
    <3> QED BY <3>1, <3>2 DEF ClaimsInv, Declared, VerdictIsPolicy, DiagnosticIsRight
  <2> QED BY <2>1, CompileIsRight DEF Next
<1> QED BY <1>1, <1>2, PTL DEF Spec

\* An application of any number of modules, parameters and claims compiles exactly if no
\* two of its claims clash.
THEOREM VerdictFollowsPolicy == Spec => []VerdictIsPolicy
<1>1. ClaimsInv => VerdictIsPolicy
  BY DEF ClaimsInv
<1> QED BY <1>1, ClaimsInvariant, PTL

\* The diagnostics name one parameter, or one module, exactly if claims of it clash.
THEOREM DiagnosticsPointRight == Spec => []DiagnosticIsRight
<1>1. ClaimsInv => DiagnosticIsRight
  BY DEF ClaimsInv
<1> QED BY <1>1, ClaimsInvariant, PTL
=============================================================================
